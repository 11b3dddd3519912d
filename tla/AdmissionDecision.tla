-------------------------- MODULE AdmissionDecision --------------------------
(***************************************************************************)
(* What the validation engine promises the admission caller for one pod    *)
(* (spec 4.5 and the caller contract of section 6), with no loop, cache or *)
(* trust server in sight: the pod is decided once, and the only change it  *)
(* may see is a digest pinned into an image that had none and whose image  *)
(* is not exempt. A pod of a whitelisted namespace is admitted untouched.  *)
(***************************************************************************)
CONSTANTS
  Namespaces, WhiteListedNamespaces,
  Pods,               \* the pods a request can carry: [list -> images]
  Digests, NoDigest,
  WhiteListedImages   \* images exempt from every check

VARIABLES
  namespace,  \* the pod's namespace
  orig,       \* the pod as submitted
  images,     \* the pod as returned to the caller
  verdict     \* "pending", then "valid", "reject" or "error"

vars == <<namespace, orig, images, verdict>>

\* n is o with digests added to some images that had none and are not
\* exempt; nothing else differs.
IsPinningOf(n, o) ==
  /\ DOMAIN n = DOMAIN o
  /\ \A l \in DOMAIN o :
       /\ DOMAIN n[l] = DOMAIN o[l]
       /\ \A i \in DOMAIN o[l] :
            \/ n[l][i] = o[l][i]
            \/ /\ o[l][i].digest = NoDigest
               /\ o[l][i] \notin WhiteListedImages
               /\ n[l][i].digest \in Digests
               /\ n[l][i] = [o[l][i] EXCEPT !.digest = n[l][i].digest]

Init ==
  /\ namespace \in Namespaces
  /\ orig \in Pods
  /\ images = orig
  /\ verdict = "pending"

\* The engine answers, once.
Decide ==
  /\ verdict = "pending"
  /\ verdict' \in {"valid", "reject", "error"}
  /\ IsPinningOf(images', orig)
  /\ namespace \in WhiteListedNamespaces =>
       verdict' = "valid" /\ images' = orig
  /\ UNCHANGED <<namespace, orig>>

SafetySpec == Init /\ [][Decide]_vars

\* Every request is answered.
Spec == SafetySpec /\ WF_vars(Decide)
=============================================================================
