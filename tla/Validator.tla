------------------------------ MODULE Validator ------------------------------
(***************************************************************************)
(* The validation of one pod by validator.CheckIsValidAndAddDigest         *)
(* (src/pkg/admissions/pods/validator.go): the namespace whitelist, then   *)
(* addDigestWhenImageValid over the init containers and then over the      *)
(* containers, one step per loop iteration.                                *)
(*                                                                         *)
(* The collaborators whose code is not in the repository are modelled from *)
(* the spec, at the interface validator.go calls:                          *)
(*   - WhiteList.IsNamespaceWhiteListed / IsImageWhiteListed: fixed sets;  *)
(*   - RegistryPolicyCache.doesMatchPolicy: any of its four outcomes, per  *)
(*     call (the cache is refreshed behind the validator's back);          *)
(*   - the pull-secret Get/parse of getBasicAuthForRegistry: any outcome,  *)
(*     per secret and per call (a fresh API request each time);            *)
(*   - notary.FetchSignature: an error, nil (no trust data for the tag),   *)
(*     or the summary that TrustRepo reduces the tag's targets to, in any  *)
(*     row order; sig.GetDigest(tag) takes the first row for the tag.      *)
(* An image is abstracted to its registry host and its digest; the tag is  *)
(* the one GetSignedMetadata(tag) was asked for, so it is left implicit.   *)
(***************************************************************************)
EXTENDS Naturals, Sequences, SequencesExt, FiniteSets, TrustRepo, PullSecrets

CONSTANTS
  Namespaces, WhiteListedNamespaces,
  Hosts,
  UserDigests,         \* digests a pod's image may already carry
  WhiteListedImages,   \* images IsImageWhiteListed accepts
  PullSecretLists,     \* the pods' imagePullSecrets lists
  NoDigest,            \* ref.digest == ""
  NoFetch, FetchError, \* no FetchSignature call / a call that failed
  NilSig,              \* FetchSignature returned nil: no trust data
  MaxInitContainers, MaxContainers

ASSUME WhiteListedNamespaces \subseteq Namespaces
ASSUME UserDigests \subseteq Digests
ASSUME PullSecretLists \subseteq Seq(Secrets)

Image == [host : Hosts, digest : Digests \cup {NoDigest}]
PodImages == [host : Hosts, digest : UserDigests \cup {NoDigest}]
ASSUME WhiteListedImages \subseteq Image

\* pod.Spec.InitContainers, then pod.Spec.Containers.
ListNames == {"init", "containers"}

\* The outcomes of doesMatchPolicy(host, namespace): no matching policy, a
\* match whose policy.Registry is "", a match without SignCheck, a match
\* with SignCheck.
PolicyMatches == {"noPolicy", "noRegistry", "noSignCheck", "signCheck"}

VARIABLES
  namespace,    \* pod.Namespace
  pullSecrets,  \* pod.Spec.ImagePullSecrets
  orig,         \* the images the pod was submitted with (history)
  images,       \* the pod's images, patched in place
  phase,        \* "namespace", the list being checked, or "done"
  idx,          \* index of the container being checked in that list
  verdict,      \* "pending", or the result: "valid", "reject", "error"
  log           \* one record per container checked against a policy

vars == <<namespace, pullSecrets, orig, images, phase, idx, verdict, log>>

-----------------------------------------------------------------------------
(* FetchSignature and GetDigest.                                           *)

\* sig.GetDigest(tag): the digest of the first row for the tag, "" if none.
GetDigest(rowOrder) ==
  IF rowOrder = <<>> THEN NoDigest ELSE rowOrder[1].digest

\* The digests GetDigest can return for a tag whose targets are T: the
\* targets come in some order, and the rows in some order.
FetchedDigests(T) ==
  {GetDigest(order) :
     order \in UNION {SignedRowOrders(SignedTags(s)) : s \in SetToSeqs(T)}}

\* A non-nil summary, as far as the validator and the properties tell
\* summaries apart: the digests released roles signed for the tag, and what
\* GetDigest may return.
FetchResults ==
  {[released |-> ReleasedDigests(T), digests |-> FetchedDigests(T)] :
     T \in SignedTargetSets \ {{}}}

\* Mutant: the check is skipped when the summary yields no digest.
IsDigestMismatchIgnoringEmpty(ref, digest) ==
  ref.digest # NoDigest /\ digest # NoDigest /\ ref.digest # digest

\* ref.digest != "" && ref.digest != digest
IsDigestMismatch(ref, digest) == ref.digest # NoDigest /\ ref.digest # digest

-----------------------------------------------------------------------------

\* The pods a request can carry: at least one container.
Pods ==
  {[init |-> ic, containers |-> cs] :
     ic \in SeqOf(PodImages, MaxInitContainers),
     cs \in SeqOf(PodImages, MaxContainers) \ {<<>>}}

Init ==
  /\ namespace \in Namespaces
  /\ pullSecrets \in PullSecretLists
  /\ orig \in Pods
  /\ images = orig
  /\ phase = "namespace"
  /\ idx = 1
  /\ verdict = "pending"
  /\ log = <<>>

Examining == phase \in ListNames /\ idx <= Len(images[phase])
Current == images[phase][idx]

\* Mutant: the last list's return leaves the verdict unset.
ReturnValidNoVerdict ==
  IF phase = "init"
  THEN phase' = "containers" /\ idx' = 1 /\ UNCHANGED verdict
  ELSE phase' = "done" /\ UNCHANGED <<idx, verdict>>

\* addDigestWhenImageValid returned (true, "", nil): go on with the
\* containers after the init containers, or accept the pod.
ReturnValid ==
  IF phase = "init"
  THEN phase' = "containers" /\ idx' = 1 /\ UNCHANGED verdict
  ELSE phase' = "done" /\ verdict' = "valid" /\ UNCHANGED idx

\* A return of CheckIsValidAndAddDigest with a reason or an error.
Stop(v) == phase' = "done" /\ verdict' = v /\ UNCHANGED idx

\* fetch is NoFetch, FetchError, NilSig, or the released digests of the
\* summary FetchSignature returned.
Record(policy, fetch, digest) ==
  log' = Append(log, [list |-> phase, idx |-> idx, image |-> Current,
                      policy |-> policy, fetch |-> fetch, digest |-> digest])

\* The checks of one container, up to its registry policy lookup.
Checked(a) == Examining /\ Current \notin WhiteListedImages /\ ~a.err

NamespaceWhiteListed ==
  /\ phase = "namespace" /\ namespace \in WhiteListedNamespaces
  /\ Stop("valid")
  /\ UNCHANGED <<namespace, pullSecrets, orig, images, log>>

NamespaceNotWhiteListed ==
  /\ phase = "namespace" /\ namespace \notin WhiteListedNamespaces
  /\ phase' = "init" /\ idx' = 1
  /\ UNCHANGED <<namespace, pullSecrets, orig, images, verdict, log>>

\* The loop over a list ends without a return inside it.
ListExhausted ==
  /\ phase \in ListNames /\ idx > Len(images[phase])
  /\ ReturnValid
  /\ UNCHANGED <<namespace, pullSecrets, orig, images, log>>

ImageWhiteListed ==
  /\ Examining /\ Current \in WhiteListedImages
  /\ idx' = idx + 1
  /\ UNCHANGED <<namespace, pullSecrets, orig, images, phase, verdict, log>>

\* parseImage(container.Image) fails: the image is not a reference.
ParseImageError ==
  /\ Examining /\ Current \notin WhiteListedImages
  /\ Stop("error")
  /\ UNCHANGED <<namespace, pullSecrets, orig, images, log>>

BasicAuthError ==
  /\ Examining /\ Current \notin WhiteListedImages
  /\ \E a \in Credentials(pullSecrets) : a.err
  /\ Stop("error")
  /\ UNCHANGED <<namespace, pullSecrets, orig, images, log>>

NoMatchingPolicy ==
  /\ \E a \in Credentials(pullSecrets) :
       Checked(a) /\ Record("noPolicy", NoFetch, NoDigest)
  /\ Stop("reject")
  /\ UNCHANGED <<namespace, pullSecrets, orig, images>>

\* valid && policy.Registry == "", or valid && !policy.SignCheck: the
\* function returns (true, "", nil), leaving the rest of the list unchecked.
SignCheckNotRequired ==
  /\ \E a \in Credentials(pullSecrets), p \in {"noRegistry", "noSignCheck"} :
       Checked(a) /\ Record(p, NoFetch, NoDigest)
  /\ ReturnValid
  /\ UNCHANGED <<namespace, pullSecrets, orig, images>>

FetchSignatureError ==
  /\ \E a \in Credentials(pullSecrets) :
       Checked(a) /\ Record("signCheck", FetchError, NoDigest)
  /\ Stop("error")
  /\ UNCHANGED <<namespace, pullSecrets, orig, images>>

\* sig == nil: there is no trust data for the tag.
NotSigned ==
  /\ \E a \in Credentials(pullSecrets) :
       Checked(a) /\ Record("signCheck", NilSig, NoDigest)
  /\ Stop("reject")
  /\ UNCHANGED <<namespace, pullSecrets, orig, images>>

DigestMismatch ==
  /\ \E a \in Credentials(pullSecrets), r \in FetchResults :
       \E d \in r.digests :
         /\ Checked(a) /\ IsDigestMismatch(Current, d)
         /\ Record("signCheck", r.released, d)
  /\ Stop("reject")
  /\ UNCHANGED <<namespace, pullSecrets, orig, images>>

\* ref.digest = digest; containers[i].Image = ref.String(); return true.
AddDigest ==
  /\ \E a \in Credentials(pullSecrets), r \in FetchResults :
       \E d \in r.digests :
         /\ Checked(a) /\ ~IsDigestMismatch(Current, d)
         /\ Record("signCheck", r.released, d)
         /\ images' = [images EXCEPT ![phase][idx] = [Current EXCEPT !.digest = d]]
  /\ ReturnValid
  /\ UNCHANGED <<namespace, pullSecrets, orig>>

\* The validation has returned; the request is answered.
Returned ==
  /\ phase = "done"
  /\ UNCHANGED vars

Next ==
  \/ NamespaceWhiteListed \/ NamespaceNotWhiteListed
  \/ ListExhausted \/ ImageWhiteListed \/ ParseImageError \/ BasicAuthError
  \/ NoMatchingPolicy \/ SignCheckNotRequired
  \/ FetchSignatureError \/ NotSigned \/ DigestMismatch \/ AddDigest
  \/ Returned

Spec == Init /\ [][Next]_vars

-----------------------------------------------------------------------------

LogEntry ==
  [list : ListNames, idx : Nat \ {0}, image : Image,
   policy : PolicyMatches,
   fetch : {NoFetch, FetchError, NilSig} \cup SUBSET Digests,
   digest : Digests \cup {NoDigest}]

TypeOK ==
  /\ namespace \in Namespaces
  /\ pullSecrets \in PullSecretLists
  /\ orig \in [init : Seq(PodImages), containers : Seq(PodImages)]
  /\ images \in [init : Seq(Image), containers : Seq(Image)]
  /\ phase \in {"namespace", "done"} \cup ListNames
  /\ phase \in ListNames => idx \in 1..Len(images[phase]) + 1
  /\ verdict \in {"pending", "valid", "reject", "error"}
  /\ (verdict = "pending") = (phase # "done")
  /\ log \in Seq(LogEntry)

\* The entry is of a FetchSignature call that returned a summary.
HasSummary(e) == e.fetch \notin {NoFetch, FetchError, NilSig}

\* Entries of the log about container i of list l.
EntriesFor(l, i) == {k \in DOMAIN log : log[k].list = l /\ log[k].idx = i}

\* Every image the validator rewrote carries a digest that a released role
\* ("targets" or "targets/releases") signed for the tag, in the trust data
\* fetched for that very container (AddDigest after FetchSignature, GetDigest).
PinnedDigestIsReleased ==
  \A l \in ListNames : \A i \in DOMAIN images[l] :
    images[l][i] # orig[l][i] =>
      \E k \in EntriesFor(l, i) :
        /\ log[k].policy = "signCheck"
        /\ HasSummary(log[k])
        /\ images[l][i].digest \in log[k].fetch

\* An image submitted with a digest is never re-pinned to another one: the
\* digest-mismatch check of addDigestWhenImageValid keeps the user's digest.
UserDigestKept ==
  \A l \in ListNames : \A i \in DOMAIN images[l] :
    orig[l][i].digest # NoDigest => images[l][i] = orig[l][i]

\* An admitted pod (namespace not whitelisted) had every container whose
\* image is not whitelisted, init containers and containers, checked
\* against its registry policy (spec 4.5: the pod verdict is the AND of all
\* container verdicts).
AllContainersChecked ==
  (verdict = "valid" /\ namespace \notin WhiteListedNamespaces) =>
    \A l \in ListNames : \A i \in DOMAIN orig[l] :
      orig[l][i] \notin WhiteListedImages => EntriesFor(l, i) # {}

\* In an admitted pod every container that required a signature check is
\* pinned to a signed digest (spec 4.3: an empty summary is rejected).
SignCheckedImagesPinned ==
  verdict = "valid" =>
    \A k \in DOMAIN log :
      log[k].policy = "signCheck" =>
        images[log[k].list][log[k].idx].digest # NoDigest

\* Two containers of a pod with the same image whose fetches returned the
\* same trust data are pinned to the same digest (spec 4.3: the first row
\* is authoritative).
SameTrustDataSameDigest ==
  \A j, k \in DOMAIN log :
    (/\ log[j].image = log[k].image
     /\ log[j].fetch = log[k].fetch
     /\ HasSummary(log[j]))
      => log[j].digest = log[k].digest

-----------------------------------------------------------------------------
(* The engine against its promise to the caller, AdmissionDecision. The    *)
(* pod is returned as patched when the call has returned; until then the   *)
(* caller holds the pod as submitted.                                      *)

Decision == INSTANCE AdmissionDecision
  WITH images <- IF phase = "done" THEN images ELSE orig

\* CheckIsValidAndAddDigest decides each pod once, only pins digests into
\* images that had none and are not whitelisted (keeping the rest of the
\* pod), and admits a pod of a whitelisted namespace untouched.
Refinement == Decision!SafetySpec

=============================================================================
