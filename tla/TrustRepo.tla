------------------------------ MODULE TrustRepo ------------------------------
(***************************************************************************)
(* The reduction of notary (TUF) target metadata to the rows of a trust    *)
(* summary, as done by GetSignedMetadata and matchReleasedSignatures in    *)
(* pkg/trust (src/pkg/server/server.go, second file).                      *)
(*                                                                         *)
(* GetSignedMetadata(tag) asks GetAllTargetMetadataByName(tag), so every   *)
(* target it reduces carries the same tag: a target is abstracted to the   *)
(* role that signed the tag and the digest (hex of the SHA-256 hash) it    *)
(* signed, and a trustTagKey {tag, digest} to its digest.                  *)
(***************************************************************************)
EXTENDS Naturals, Sequences, SequencesExt, FiniteSets

CONSTANTS
  TargetsRole,   \* data.CanonicalTargetsRole, "targets"
  ReleasesRole,  \* ReleasesRole, "targets/releases"
  Delegations,   \* other delegated roles "targets/<name>"
  Digests,       \* hex-encoded SHA-256 digests of signed targets
  RepoAdmin      \* releasedRoleName, "Repo Admin"

ASSUME {TargetsRole, ReleasesRole} \cap Delegations = {}
ASSUME RepoAdmin \notin Delegations

Roles == {TargetsRole, ReleasesRole} \cup Delegations

\* A client.TargetSignedStruct for the queried tag.
Target == [role : Roles, digest : Digests]

\* The targets a repository can hold for one tag: a role's targets metadata
\* maps each target name to one hash, so every role signs the tag at most once.
SignedTargetSets ==
  { {[role |-> r, digest |-> f[r]] : r \in DOMAIN f} :
      f \in UNION {[R -> Digests] : R \in SUBSET Roles} }

\* isReleasedTarget: the role is "targets" or "targets/releases".
isReleasedTarget(role) == role \in {TargetsRole, ReleasesRole}

\* notaryRoleToSigner: released roles read as "Repo Admin"; a delegation
\* "targets/<name>" reads as <name>, which the model value stands for.
notaryRoleToSigner(role) ==
  IF isReleasedTarget(role) THEN RepoAdmin ELSE role

\* Mutant: the first pass keeps the targets of every role.
ReleasedKeysAllRoles(allTargets) ==
  FoldLeft(LAMBDA rows, tgt : [d \in DOMAIN rows \cup {tgt.digest} |-> <<>>],
           [d \in {} |-> <<>>], allTargets)

\* First pass: one empty signer list per (tag, digest) signed by a released role.
ReleasedKeys(allTargets) ==
  FoldLeft(LAMBDA rows, tgt :
             IF isReleasedTarget(tgt.role)
             THEN [d \in DOMAIN rows \cup {tgt.digest} |-> <<>>]
             ELSE rows,
           [d \in {} |-> <<>>], allTargets)

\* Mutant: the second pass forgets that released roles are not signers.
AddSignerKeepReleased(rows, tgt) ==
  IF tgt.digest \in DOMAIN rows
  THEN [rows EXCEPT ![tgt.digest] = Append(@, notaryRoleToSigner(tgt.role))]
  ELSE rows

\* Second pass: a delegated role that signed a released (tag, digest) is
\* appended to that row's signers, in the order of allTargets.
AddSigner(rows, tgt) ==
  IF tgt.digest \in DOMAIN rows /\ ~isReleasedTarget(tgt.role)
  THEN [rows EXCEPT ![tgt.digest] = Append(@, notaryRoleToSigner(tgt.role))]
  ELSE rows

\* matchReleasedSignatures, as a map from digest to its signer list. The
\* final sort is by tag only; all rows share the queried tag, so it leaves
\* them in the random order of the Go map iteration (see SignedRowOrders).
matchReleasedSignatures(allTargets) ==
  FoldLeft(AddSigner, ReleasedKeys(allTargets), allTargets)

\* GetSignedMetadata's rows: a row without a delegated signer is attributed
\* to "Repo Admin".
SignedTags(allTargets) ==
  LET rows == matchReleasedSignatures(allTargets)
  IN  {[digest  |-> d,
        signers |-> IF rows[d] = <<>> THEN <<RepoAdmin>> ELSE rows[d]] :
         d \in DOMAIN rows}

\* The orders in which the rows can come out of the map iteration and the
\* sort by tag: every order, since all rows carry the same tag.
SignedRowOrders(rows) == SetToSeqs(rows)

-----------------------------------------------------------------------------
(* Reference definitions, stated over the set of targets.                  *)

\* Digests a released role signed for the tag.
ReleasedDigests(targets) ==
  {t.digest : t \in {u \in targets : isReleasedTarget(u.role)}}

\* The signers a summary row of digest d must list.
ReferenceSigners(targets, d) ==
  LET delegated == {t.role : t \in {u \in targets :
                       u.digest = d /\ ~isReleasedTarget(u.role)}}
  IN  IF delegated = {} THEN {RepoAdmin} ELSE delegated

\* The rows of SignedTags(allTargets) are exactly the released digests, each
\* listing every delegation that signed the same digest exactly once, or
\* only "Repo Admin" when none did.
SignedTagsAgree(allTargets) ==
  LET targets == ToSet(allTargets)
      rows    == SignedTags(allTargets)
  IN  /\ {r.digest : r \in rows} = ReleasedDigests(targets)
      /\ Cardinality(rows) = Cardinality(ReleasedDigests(targets))
      /\ \A r \in rows :
           /\ ToSet(r.signers) = ReferenceSigners(targets, r.digest)
           /\ Len(r.signers) = Cardinality(ToSet(r.signers))
=============================================================================
