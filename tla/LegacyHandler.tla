---------------------------- MODULE LegacyHandler ----------------------------
(***************************************************************************)
(* The legacy DockerHandler of src/unnamed/part_000: isValid checks the    *)
(* init containers, then the containers, by running "docker trust inspect" *)
(* inside a docker-in-docker pod (isSignedImage), matching the repository  *)
(* admin key against the namespace's signer policies (hasMatchedSigner)    *)
(* and writing "<image>@sha256:<digest>" into a copy of the pod (patch).   *)
(*                                                                         *)
(* An image is abstracted to its registry and tag (getImageInfo is the     *)
(* subject of module ImageInfo). The exec output, the registry list, the   *)
(* SignerKey lookups and the docker logins are answered afresh on every   *)
(* call, from every answer they can give.                                  *)
(***************************************************************************)
EXTENDS Naturals, Sequences, SequencesExt, FiniteSets, FiniteSetsExt

CONSTANTS
  Registries, DockerHub,  \* image registries; DockerHub is "docker.io"
  NotaryRegistries,       \* registries with a Registry resource (a notary URL)
  Tags, Digests, Keys,    \* image tags, target digests, key IDs
  NoDigest,               \* the empty digest string ""
  Signers,                \* SignerKey names
  SignerKeys,             \* SignerKeys[s]: the target key IDs of SignerKey s
  PolicyLists,            \* the SignerPolicy lists a namespace can have: each
                          \* a sequence of signer-name sequences
  WhiteListedImages,      \* images isImageInWhiteList accepts
  Namespaces, PodNamespace,
  ClusterSecrets,         \* all secrets, in list order: [namespace, name, creds]
  SecretNames,            \* names of secrets
  NoSecret,               \* no secret found, or no login made
  MaxRows, MaxInit, MaxContainers

Image == [registry : Registries, tag : Tags]
PodImages(max) == UNION {[1..n -> Image] : n \in 0..max}
ListNames == {"init", "containers"}

\* A SignedTags row of "docker trust inspect" output, and the signature of
\* the repository: its rows and the key of its "Repository" admin role.
Row == [tag : Tags, digest : Digests]
Signature == [signedTags : UNION {[1..n -> Row] : n \in 0..MaxRows},
              adminKey : Keys]

\* What the exec prints: nothing, what getSignatures cannot parse, or a
\* list of at most one signature.
Signatures == {<<>>} \cup {<<s>> : s \in Signature}
ExecOutputs == [kind : {"empty", "parseError"}, sigs : {<<>>}]
                 \cup [kind : {"ok"}, sigs : Signatures]
NonEmptyOutputs == {o \in ExecOutputs : o.kind # "empty"}

\* A SignerKey lookup that fails leaves the record empty: no target keys.
KeyLookups == {f \in [Signers -> SUBSET Keys] :
                 \A s \in Signers : f[s] \in {SignerKeys[s], {}}}

-----------------------------------------------------------------------------
(* loginToRegistry and getSecret.                                          *)

\* getSecret: the first secret of ANY namespace with the name, or none.
getSecret(name) ==
  LET i == SelectInSeq(ClusterSecrets, LAMBDA s : s.name = name)
  IN  IF i = 0 THEN NoSecret ELSE ClusterSecrets[i]

\* loginToRegistry for one answer of the cluster (listOk: the secret list
\* call succeeds) and of the docker daemon (succeeded[i]: "docker login"
\* with the i-th pull secret prints "Login Succeeded"). The result is the
\* secret logged in with, or NoSecret.
RECURSIVE LoginFrom(_, _, _, _)
LoginFrom(pullSecrets, listOk, succeeded, i) ==
  IF i > Len(pullSecrets) THEN NoSecret
  ELSE LET secret == getSecret(pullSecrets[i])
       IN  IF ~listOk \/ secret = NoSecret THEN NoSecret          \* break
           ELSE IF secret.creds /\ succeeded[i] THEN secret
           ELSE LoginFrom(pullSecrets, listOk, succeeded, i + 1) \* continue

loginToRegistry(pullSecrets, listOk, succeeded) ==
  IF Len(pullSecrets) = 0 THEN NoSecret
  ELSE LoginFrom(pullSecrets, listOk, succeeded, 1)

\* Every secret a login for one image can end up using.
LoginResults(pullSecrets) ==
  {loginToRegistry(pullSecrets, ok, f) :
     ok \in BOOLEAN, f \in [1..Len(pullSecrets) -> BOOLEAN]}

\* findNotaryServer: "docker.io" for Docker Hub; the notary URL of the
\* Registry resource whose server URL is the registry's; "docker-hub" when
\* none is (or listing the Registry resources fails, listOk false).
findNotaryServer(registry, listOk) ==
  IF registry = DockerHub THEN "docker.io"
  ELSE IF listOk /\ registry \in NotaryRegistries THEN "notary"
  ELSE "docker-hub"

\* makeCommand: only a registry with a notary server is logged in to
\* before the inspection, and a failed login is only logged. The secrets
\* the daemon may end up logged in with, for every answer of the cluster.
CommandLogins(image, pullSecrets) ==
  UNION {IF findNotaryServer(image.registry, ok) = "notary"
         THEN LoginResults(pullSecrets) ELSE {NoSecret} : ok \in BOOLEAN}

-----------------------------------------------------------------------------
(* hasMatchedSigner, getDigest and isSignedImage.                          *)

\* Mutant: a signer policy is not consulted.
hasMatchedSignerAnyPolicy(policies, signatures, keys) == Len(signatures) # 0

\* hasMatchedSigner: with no signer policy any non-empty signature list
\* matches; otherwise the admin key of signatures[0] must be a target key
\* of a signer some policy names, as the lookups returned them.
hasMatchedSigner(policies, signatures, keys) ==
  IF Len(policies) = 0 THEN Len(signatures) # 0
  ELSE /\ Len(signatures) # 0
       /\ \E p \in ToSet(policies) : \E s \in ToSet(p) :
            signatures[1].adminKey \in keys[s]

\* getDigest: the digest of the LAST row of signatures[0] with the image's
\* tag, or "" when none has it.
getDigest(image, signatures) ==
  FoldLeft(LAMBDA d, r : IF r.tag = image.tag THEN r.digest ELSE d,
           NoDigest, signatures[1].signedTags)

\* isSignedImage for an exec output that is not empty (an empty one panics).
isSignedImage(policies, output, keys) ==
  output.kind = "ok" /\ hasMatchedSigner(policies, output.sigs, keys)

-----------------------------------------------------------------------------
(* isValid and addDigestWhenImageValid, one admission request.             *)

VARIABLES
  signerPolicies, \* h.signerPolicies, read once by newDockerHandler
  pullSecrets,    \* the pod's imagePullSecrets names
  orig,           \* h.pod: the images of each list
  patch,          \* h.patch: [image, pinned, digest] of each list
  list,           \* the list addDigestWhenImageValid walks, or "done"
  idx,            \* the loop index i, 1-based
  isValid,        \* the isValid of the current call
  failedAt,       \* <<list, i>> of the container whose name is returned
  panicked,       \* log.Panicf was reached
  log,            \* history: one entry per isSignedImage that returned true
  loggedIn        \* secrets the dind docker daemon has logged in with

vars == <<signerPolicies, pullSecrets, orig, patch, list, idx, isValid,
          failedAt, panicked, log, loggedIn>>

Init ==
  /\ signerPolicies \in PolicyLists
  /\ pullSecrets \in UNION {[1..n -> SecretNames] : n \in 0..2}
  /\ orig \in [init : PodImages(MaxInit), containers : PodImages(MaxContainers)]
  /\ patch = [l \in ListNames |->
                [i \in DOMAIN orig[l] |->
                   [image |-> orig[l][i], pinned |-> FALSE, digest |-> NoDigest]]]
  /\ list = "init"
  /\ idx = 1
  /\ isValid = TRUE
  /\ failedAt = <<>>
  /\ panicked = FALSE
  /\ log = <<>>
  /\ loggedIn = {}

Examining == ~panicked /\ list \in ListNames /\ idx <= Len(orig[list])
Current == orig[list][idx]

\* isValid: the containers are walked only when the init containers passed.
\* Mutant: the second call is made whatever the first returned.
isValidStepAlways(l, valid) == IF l = "init" THEN "containers" ELSE "done"
isValidStep(l, valid) == IF l = "init" /\ valid THEN "containers" ELSE "done"

\* Mutant: a login that found no usable secret is recorded too.
LoginRecordingNone(secret) == loggedIn' = loggedIn \cup {secret}

\* The daemon keeps the login of makeCommand (its result is only logged).
Login(secret) == loggedIn' = loggedIn \cup ({secret} \ {NoSecret})

ImageWhiteListed ==
  /\ Examining /\ Current \in WhiteListedImages
  /\ idx' = idx + 1
  /\ UNCHANGED <<signerPolicies, pullSecrets, orig, patch, list, isValid,
                 failedAt, panicked, log, loggedIn>>

\* The exec printed nothing: log.Panicf.
ExecOutputEmpty ==
  /\ Examining /\ Current \notin WhiteListedImages
  /\ \E secret \in CommandLogins(Current, pullSecrets) : Login(secret)
  /\ panicked' = TRUE
  /\ UNCHANGED <<signerPolicies, pullSecrets, orig, patch, list, idx, isValid,
                 failedAt, log>>

\* isSignedImage returned false: break, and isValid returns it.
ImageNotSigned ==
  /\ Examining /\ Current \notin WhiteListedImages
  /\ \E secret \in CommandLogins(Current, pullSecrets),
        out \in NonEmptyOutputs, keys \in KeyLookups :
        /\ ~isSignedImage(signerPolicies, out, keys)
        /\ Login(secret)
  /\ failedAt' = <<list, idx>>
  /\ list' = isValidStep(list, FALSE)
  /\ idx' = 1
  \* the value isValid returns, or the fresh isValid of the next call
  /\ isValid' = (list' # "done")
  /\ UNCHANGED <<signerPolicies, pullSecrets, orig, patch, panicked, log>>

\* What the history keeps of a check that passed: whether the admin key is
\* a target key of a policy signer in the SignerKey records themselves,
\* and the digests the rows hold for the image's tag.
Record(out) ==
  [list |-> list, idx |-> idx,
   authorized |-> \/ Len(signerPolicies) = 0
                  \/ \E p \in ToSet(signerPolicies) : \E s \in ToSet(p) :
                       out[1].adminKey \in SignerKeys[s],
   tagDigests |-> {r.digest : r \in {q \in ToSet(out[1].signedTags) :
                                      q.tag = Current.tag}}]

\* Mutant: the loop breaks after the first image it pins.
ImageSignedAndBreak ==
  /\ Examining /\ Current \notin WhiteListedImages
  /\ \E secret \in CommandLogins(Current, pullSecrets),
        out \in NonEmptyOutputs, keys \in KeyLookups :
        /\ isSignedImage(signerPolicies, out, keys)
        /\ Login(secret)
        /\ patch' = [patch EXCEPT ![list][idx] =
                       [image |-> Current, pinned |-> TRUE,
                        digest |-> getDigest(Current, out.sigs)]]
        /\ log' = Append(log, Record(out.sigs))
  /\ idx' = Len(orig[list]) + 1
  /\ UNCHANGED <<signerPolicies, pullSecrets, orig, list, isValid, failedAt,
                 panicked>>

\* isSignedImage returned true: the patch gets "<image>@sha256:<digest>".
ImageSigned ==
  /\ Examining /\ Current \notin WhiteListedImages
  /\ \E secret \in CommandLogins(Current, pullSecrets),
        out \in NonEmptyOutputs, keys \in KeyLookups :
        /\ isSignedImage(signerPolicies, out, keys)
        /\ Login(secret)
        /\ patch' = [patch EXCEPT ![list][idx] =
                       [image |-> Current, pinned |-> TRUE,
                        digest |-> getDigest(Current, out.sigs)]]
        /\ log' = Append(log, Record(out.sigs))
  /\ idx' = idx + 1
  /\ UNCHANGED <<signerPolicies, pullSecrets, orig, list, isValid, failedAt,
                 panicked>>

\* The loop ends; isValid moves to the containers or returns.
ListEnd ==
  /\ ~panicked /\ list \in ListNames /\ idx > Len(orig[list])
  /\ list' = isValidStep(list, isValid)
  /\ idx' = 1
  /\ UNCHANGED <<signerPolicies, pullSecrets, orig, patch, isValid, failedAt,
                 panicked, log, loggedIn>>

\* The request has been answered (or its goroutine panicked).
Returned ==
  /\ list = "done" \/ panicked
  /\ UNCHANGED vars

Next ==
  \/ ImageWhiteListed
  \/ ExecOutputEmpty
  \/ ImageNotSigned
  \/ ImageSigned
  \/ ListEnd
  \/ Returned

Spec == Init /\ [][Next]_vars

-----------------------------------------------------------------------------
(* Properties.                                                             *)

Position(l, i) == <<l, i>>
\* Container a comes before container b in the order isValid walks them.
Before(a, b) == \/ a[1] = b[1] /\ a[2] < b[2]
                \/ a[1] = "init" /\ b[1] = "containers"

Pinned(l, i) == patch[l][i].pinned

TypeOK ==
  /\ list \in ListNames \cup {"done"}
  /\ idx \in 1..(Max({MaxInit, MaxContainers}) + 1)
  /\ isValid \in BOOLEAN /\ panicked \in BOOLEAN
  /\ \A l \in ListNames :
       /\ DOMAIN patch[l] = DOMAIN orig[l]
       /\ \A i \in DOMAIN orig[l] :
            patch[l][i] \in [image : Image, pinned : BOOLEAN,
                             digest : Digests \cup {NoDigest}]
  /\ failedAt \in {<<>>} \cup (ListNames \X (1..Max({MaxInit, MaxContainers})))
  /\ loggedIn \subseteq ToSet(ClusterSecrets)

\* A pod addDigestWhenImageValid lets through had every container that is
\* not whitelisted inspected and pinned, init containers and containers
\* alike: the legacy loop only leaves early on a failure.
AllContainersChecked ==
  (list = "done" /\ ~panicked /\ isValid) =>
    \A l \in ListNames : \A i \in DOMAIN orig[l] :
      orig[l][i] \notin WhiteListedImages => Pinned(l, i)

\* A pinned image was inspected, and its repository key belongs, by the
\* SignerKey records, to a signer a policy of the namespace names (or the
\* namespace has no signer policy), and its digest is one the inspected
\* rows hold for its tag, or empty: a failed SignerKey lookup never lets
\* an unauthorized key through (hasMatchedSigner, getDigest).
PinnedImagesVerified ==
  \A l \in ListNames : \A i \in DOMAIN orig[l] :
    Pinned(l, i) =>
      \E e \in ToSet(log) :
        /\ e.list = l /\ e.idx = i /\ e.authorized
        /\ patch[l][i].digest \in e.tagDigests \cup {NoDigest}

\* Once a container fails, no container after it is pinned, and a failing
\* init container leaves every container untouched (isValid, spec 8).
FailureStopsPatching ==
  failedAt # <<>> =>
    \A l \in ListNames : \A i \in DOMAIN orig[l] :
      Pinned(l, i) => Before(Position(l, i), failedAt)

\* A failure of the exec into the dind pod is reported, not a panic of the
\* request (spec 7: transport errors propagate as errors).
NeverPanics == ~panicked

\* The docker daemon logs in only with a secret of the pod's own namespace
\* (spec 6: secrets are read by namespace and name).
LoginWithOwnSecret == \A s \in loggedIn : s.namespace = PodNamespace
=============================================================================
