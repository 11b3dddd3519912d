---------------------------- MODULE TrustMetadata ----------------------------
(***************************************************************************)
(* GetSignedMetadata of pkg/trust (src/pkg/server/server.go, second file)  *)
(* as a whole: the three calls it makes to the notary repository, their    *)
(* failures, and the signer and administrative key lists it builds beside  *)
(* the rows TrustRepo reduces the targets to.                              *)
(*                                                                         *)
(* Each call updates the local TUF data from the server on its own, so    *)
(* GetDelegationRoles may see the delegations of a later version of the   *)
(* repository than GetAllTargetMetadataByName did. A call's answer is a   *)
(* record tagged "error" or "ok".                                          *)
(***************************************************************************)
EXTENDS TrustRepo

CONSTANTS
  RootRole,     \* data.CanonicalRootRole
  OtherBase,    \* data.CanonicalSnapshotRole and CanonicalTimestampRole
  KeyIDs,       \* key IDs of the repository's roles
  RoleKeys      \* the key IDs of each role of the repository

ASSUME DOMAIN RoleKeys = {RootRole, TargetsRole, ReleasesRole} \cup OtherBase \cup Delegations
ASSUME \A r \in DOMAIN RoleKeys : RoleKeys[r] \subseteq KeyIDs

\* A data.Role as ListRoles and GetDelegationRoles return it.
RoleOf(r) == [name |-> r, keys |-> RoleKeys[r]]

CallError == [type |-> "error"]

\* The answers of GetDelegationRoles: an error, or the releases role and
\* the delegations of whatever version of the repository it was read from.
DelegationAnswers ==
  {CallError} \cup
  {[type |-> "ok", roles |-> {RoleOf(r) : r \in {ReleasesRole} \cup D}] :
     D \in SUBSET Delegations}

\* getDelegationRoleToKeyMap: every role but releases and the base roles,
\* by signer name. Role names are unique, so the map is a set of entries.
getDelegationRoleToKeyMap(rawDelegationRoles) ==
  {[name |-> notaryRoleToSigner(r.name), keys |-> r.keys] :
     r \in {x \in rawDelegationRoles :
              x.name \notin {ReleasesRole, RootRole, TargetsRole} \cup OtherBase}}

\* The adminList loop over ListRoles: root as "Root", targets as
\* "Repository"; sorted by name, so "Root" comes first.
AdminList(roles) ==
  {[name |-> "Root", keys |-> r.keys] : r \in {x \in roles : x.name = RootRole}} \cup
  {[name |-> "Repository", keys |-> r.keys] : r \in {x \in roles : x.name = TargetsRole}}

\* GetSignedMetadata(tag): the target listing fails, or ListRoles does
\* (both returned as errors), or the summary is built; a failed
\* GetDelegationRoles is only logged and leaves the signer list empty.
GetSignedMetadata(targetsOk, allTargets, rolesOk, delegations) ==
  IF ~targetsOk \/ ~rolesOk
  THEN [err |-> TRUE, signedTags |-> {}, signers |-> {}, adminKeys |-> {}]
  ELSE [err        |-> FALSE,
        signedTags |-> SignedTags(allTargets),
        signers    |-> IF delegations.type = "error" THEN {}
                       ELSE getDelegationRoleToKeyMap(delegations.roles),
        adminKeys  |-> AdminList({RoleOf(r) : r \in DOMAIN RoleKeys})]
=============================================================================
