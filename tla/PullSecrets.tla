----------------------------- MODULE PullSecrets -----------------------------
(***************************************************************************)
(* getBasicAuthForRegistry (src/pkg/admissions/pods/validator.go): the     *)
(* scan of a pod's imagePullSecrets for a basic-auth credential of the     *)
(* image's registry. Every secret is read from the API server on each      *)
(* call, so what a read returns is an input: an outcome per secret.        *)
(***************************************************************************)
EXTENDS Naturals, Sequences, FiniteSets

CONSTANTS
  Secrets,
  NoAuth     \* basicAuth == ""

\* Per pull secret: the Get fails, NewImagePullSecret or GetHostBasicAuth
\* fails, the secret has no credential for the host, or it has one.
SecretOutcomes == {"getError", "invalid", "noHostAuth", "hostAuth"}

\* Mutant: a secret without a credential for the host ends the scan.
BasicAuthFromStopAtFirst(secrets, outcome, i) ==
  IF i > Len(secrets) THEN [err |-> FALSE, auth |-> NoAuth]
  ELSE IF outcome[i] \in {"getError", "invalid"}
       THEN [err |-> TRUE, auth |-> NoAuth]
  ELSE IF outcome[i] = "noHostAuth"
       THEN [err |-> FALSE, auth |-> NoAuth]
  ELSE [err |-> FALSE, auth |-> secrets[i]]

\* The loop from secret i on: an unreadable secret returns an error, one
\* without a credential for the host is skipped (continue), the first
\* credential found is returned; none at all is not an error.
RECURSIVE BasicAuthFrom(_, _, _)
BasicAuthFrom(secrets, outcome, i) ==
  IF i > Len(secrets) THEN [err |-> FALSE, auth |-> NoAuth]
  ELSE IF outcome[i] \in {"getError", "invalid"}
       THEN [err |-> TRUE, auth |-> NoAuth]
  ELSE IF outcome[i] = "noHostAuth"
       THEN BasicAuthFrom(secrets, outcome, i + 1)
  ELSE [err |-> FALSE, auth |-> secrets[i]]

getBasicAuthForRegistry(secrets, outcome) == BasicAuthFrom(secrets, outcome, 1)

\* What getBasicAuthForRegistry can return for a list of pull secrets.
Credentials(secrets) ==
  {getBasicAuthForRegistry(secrets, o) :
     o \in [1..Len(secrets) -> SecretOutcomes]}

-----------------------------------------------------------------------------
(* Reference: the result stated over the positions of the outcomes.        *)

ReferenceBasicAuth(secrets, outcome) ==
  LET bad  == {i \in DOMAIN outcome : outcome[i] \in {"getError", "invalid"}}
      good == {i \in DOMAIN outcome : outcome[i] = "hostAuth"}
      first(S) == CHOOSE i \in S : \A j \in S : i <= j
  IN  IF bad # {} /\ (good = {} \/ first(bad) < first(good))
      THEN [err |-> TRUE, auth |-> NoAuth]
      ELSE IF good = {} THEN [err |-> FALSE, auth |-> NoAuth]
      ELSE [err |-> FALSE, auth |-> secrets[first(good)]]
=============================================================================
