---------------------------- MODULE MCValidator ----------------------------
(***************************************************************************)
(* Validator instantiated for TLC: two namespaces (one whitelisted), two   *)
(* registry hosts (images of H2 whitelisted), two digests of which a pod   *)
(* may already name D1, one delegation besides targets and releases, and   *)
(* pods of at most one init container and two containers.                  *)
(***************************************************************************)
EXTENDS Validator

CONSTANTS N1, N2, H1, H2, D1, D2, Alice, S1, S2

MCNamespaces == {N1, N2}
MCWhiteListedNamespaces == {N2}
MCHosts == {H1, H2}
MCDigests == {D1, D2}
MCUserDigests == {D1}
MCDelegations == {Alice}
MCWhiteListedImages == {i \in Image : i.host = H2}
MCSecrets == {S1, S2}
MCPullSecretLists == {<<>>, <<S1, S2>>}
=============================================================================
