----------------------------- MODULE MCOperators -----------------------------
(***************************************************************************)
(* Checks the pure operators of the project against their references,     *)
(* over every input of a small universe:                                  *)
(*  - TrustRepo: every list of targets GetAllTargetMetadataByName can     *)
(*    return for a tag, i.e. every set of SignedTargetSets in every order; *)
(*  - TrustMetadata: GetSignedMetadata over each such list and every       *)
(*    outcome of its three repository calls;                              *)
(*  - PullSecrets: every list of up to three distinct pull secrets and    *)
(*    every outcome of reading each of them;                              *)
(*  - ImageInfo: getImageInfo on every image string of up to MaxLen       *)
(*    characters and on the canonical form of every small reference.      *)
(* The three inputs are independent: each initial state varies one of     *)
(* them and holds the others at a fixed value.                            *)
(***************************************************************************)
EXTENDS TrustMetadata, PullSecrets, ImageInfo, SequencesExt

CONSTANTS Alice, Bob, D1, D2, S1, S2, S3, Snapshot, Timestamp, K1, K2, K3,
          MaxLen, NoRef

MCDelegations == {Alice, Bob}
MCDigests == {D1, D2}
MCSecrets == {S1, S2, S3}
MCOtherBase == {Snapshot, Timestamp}
MCKeyIDs == {K1, K2, K3}
MCRoleKeys == (TargetsRole :> {K2}) @@ (RootRole :> {K1}) @@ (ReleasesRole :> {K2})
              @@ (Snapshot :> {K2}) @@ (Timestamp :> {K3})
              @@ (Alice :> {K3}) @@ (Bob :> {K1, K3})
MCChars == {"a", ".", "/", ":", "@"}

\* Every image string of 1..MaxLen characters.
Images == UNION {[1..n -> Chars] : n \in 1..MaxLen}

\* Fully-populated references with no digest: a host without "/", a name
\* and a tag without "/" or ":", each of one or two characters.
Part(cs) == UNION {[1..n -> cs] : n \in 1..2}
Refs == [registry : Part(Chars \ {"/"}),
         name     : Part(Chars \ {"/", ":"}),
         tag      : Part(Chars \ {"/", ":"})]

VARIABLES
  allTargets,   \* GetAllTargetMetadataByName(tag)
  targetsOk,    \* whether that call succeeded
  rolesOk,      \* whether ListRoles succeeded
  delegations,  \* the answer of GetDelegationRoles
  secrets,      \* pod.Spec.ImagePullSecrets
  outcome,      \* how reading each of them ends
  image,        \* an image string
  ref           \* the reference it is the canonical form of, or NoRef

vars == <<allTargets, targetsOk, rolesOk, delegations, secrets, outcome, image, ref>>

TrustInputs ==
  /\ allTargets \in UNION {SetToSeqs(T) : T \in SignedTargetSets}
  /\ targetsOk \in BOOLEAN
  /\ rolesOk \in BOOLEAN
  /\ delegations \in DelegationAnswers
TrustFixed ==
  allTargets = <<>> /\ targetsOk = TRUE /\ rolesOk = TRUE /\ delegations = CallError

SecretInputs ==
  /\ secrets \in SetToAllKPermutations(Secrets)
  /\ outcome \in [1..Len(secrets) -> SecretOutcomes]
SecretsFixed == secrets = <<>> /\ outcome = <<>>

\* Either an arbitrary string, or the canonical string of a reference.
ImageInputs ==
  \/ ref = NoRef /\ image \in Images
  \/ ref \in Refs /\ image = validFormatImage(ref)
ImageFixed == ref = NoRef /\ image = <<"a">>

Init ==
  \/ TrustInputs /\ SecretsFixed /\ ImageFixed
  \/ TrustFixed /\ SecretInputs /\ ImageFixed
  \/ TrustFixed /\ SecretsFixed /\ ImageInputs

\* The operators are functions of their inputs: nothing changes.
Next == UNCHANGED vars

Spec == Init /\ [][Next]_vars

\* matchReleasedSignatures followed by the "Repo Admin" fold of
\* GetSignedMetadata yields one row per released digest, listing each
\* delegation that signed that digest once, or "Repo Admin" alone.
SignedTagsMatchReference == SignedTagsAgree(allTargets)

Summary == GetSignedMetadata(targetsOk, allTargets, rolesOk, delegations)

\* Spec 4.3 and 7: a summary GetSignedMetadata returns without error lists,
\* among its Signers and with their keys, every delegation that signed one
\* of its rows (trust metadata that cannot be read is an error, never a
\* summary with fewer signers).
SignersListRowSigners ==
  ~Summary.err =>
    \A row \in Summary.signedTags : \A i \in DOMAIN row.signers :
      row.signers[i] # RepoAdmin =>
        \E s \in Summary.signers :
          s.name = row.signers[i] /\ s.keys = RoleKeys[row.signers[i]]

\* getBasicAuthForRegistry returns the credential of the first secret that
\* has one for the registry, an error if a secret before it (or any, when
\* none has one) cannot be read or parsed, and "" (no error) otherwise.
BasicAuthIsFirstUsable ==
  getBasicAuthForRegistry(secrets, outcome) = ReferenceBasicAuth(secrets, outcome)

\* Round trip (spec 8, for host/name:tag references with single-segment
\* names): getImageInfo recovers registry, name and tag from the
\* "registry/name:tag" string isImageInWhiteList and makeCommand build.
RoundTrip == ref # NoRef => getImageInfo(image) = ref

==============================================================================
