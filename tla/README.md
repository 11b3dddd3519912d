# TLA+ models of the image-validating webhook

This directory holds TLA+ models of the admission webhook in `src/`, and the
TLC configurations that check them. The webhook intercepts Pod creation,
checks every container image against a registry security policy, and asks a
notary (TUF) trust server whether the image tag is signed. When it is, the
webhook pins the signed digest into the pod spec.

## Inventory of the system

| Part | Source | What it does |
|---|---|---|
| Validation engine | `src/pkg/admissions/pods/validator.go` | `CheckIsValidAndAddDigest` applies the namespace whitelist. It then runs `addDigestWhenImageValid` on the init containers and then on the containers. For each image this does: image whitelist, `parseImage`, `getBasicAuthForRegistry`, `doesMatchPolicy`, `notary.FetchSignature`, `GetDigest`, the digest check, and the in-place rewrite. |
| Pull-secret scan | `validator.go` 143-173 | Walks the pod's `imagePullSecrets` and returns the first non-empty basic auth for the registry. An unreadable secret aborts the scan. |
| Trust client: metadata reduction | `src/pkg/server/server.go` 355-479 | `GetSignedMetadata` reduces the tag's targets to rows with `matchReleasedSignatures`. A row's digest must have been signed by `targets` or `targets/releases`, and the row lists the delegations that signed the same digest. A row with no delegation lists "Repo Admin". |
| Trust client: authentication | `server.go` 176-348 | `NewReadOnly` builds a notary repository with a token transport. `GetToken` pings `/v2`, parses the Bearer challenge, and fetches a token from the realm with the registry's basic auth. |
| Admission HTTP server | `server.go` 1-77 | `ServeHTTP` decodes the AdmissionReview, calls the handler, and writes the review back. |
| Legacy handler | `src/unnamed/part_000` (two near-identical copies) | An older handler that runs `docker trust inspect` inside a docker-in-docker pod through `exec`. It parses the text output: `isSignedImage`, `hasMatchedSigner`, `getDigest`, `getImageInfo`, `loginToRegistry`, `getSecret`. |
| External collaborators (not in `src/`) | spec only | The registry policy cache, the whitelist cache, `parseImage`, `notary.FetchSignature`, and the summary's `GetDigest`. |

How the parts interact: the admission server hands a Pod to the validator.
The validator reads the whitelist and policy caches and, through
`getBasicAuthForRegistry`, the Kubernetes secrets. It then calls
`FetchSignature`, which uses the trust client. The trust client authenticates
with a token, downloads the TUF metadata, and reduces it with
`GetSignedMetadata`. The validator takes the digest of the first summary row.

## Modules

- **TrustRepo**: `matchReleasedSignatures`, `isReleasedTarget`,
  `notaryRoleToSigner`, and the Repo Admin fold of `GetSignedMetadata`.
  - The two Go loops are `FoldLeft`s over the target list: `ReleasedKeys`,
    then `AddSigner`.
  - A target is abstracted to (role, digest). All targets carry the queried
    tag, so the tag itself is dropped.
  - The final `sort.Slice` sorts by tag only, and every row has the same tag,
    so the row order is the random order of the map iteration. This is
    `SignedRowOrders`: every permutation.
- **TrustMetadata**: `GetSignedMetadata` as a whole, on top of TrustRepo.
  - Inputs: whether `GetAllTargetMetadataByName` and `ListRoles`
    succeed, and the answer of `GetDelegationRoles`. That answer is an
    error, or the releases role with the delegations of some version of the
    repository: each call updates the TUF data from the server on its own.
  - `getDelegationRoleToKeyMap` is a set of (signer, keys) entries. Role
    names are unique, so the Go map never overwrites an entry.
  - `AdminList` turns root into "Root" and targets into "Repository".
  - The sorts by name and the key order inside a signer are left out.
- **PullSecrets**: `getBasicAuthForRegistry` as a RECURSIVE operator.
  - Each secret is given one of four outcomes:
    - the Get fails;
    - `NewImagePullSecret` fails or `GetHostBasicAuth` fails (both are `"invalid"`);
    - there is no auth for the host;
    - there is auth for the host.
- **Validator**: `CheckIsValidAndAddDigest` and `addDigestWhenImageValid` as a
  state machine, with one action per branch of the loop body.
  - Variables:
    - `images`: the pod's two container lists. The code rewrites it in place.
    - `orig`: the images as submitted.
    - `phase` and `idx`: the list and the container under check.
    - `verdict`: the returned result.
    - `log`: a history of every policy and trust answer used.
  - Actions:
    - `NamespaceWhiteListed` and `NamespaceNotWhiteListed` (lines 68-73).
    - `ImageWhiteListed` (92-94).
    - `ParseImageError` (96-99): `parseImage` rejects the image.
    - `BasicAuthError` (101-105).
    - `SignCheckNotRequired` (108-113). This action returns valid for the
      whole list.
    - `NoMatchingPolicy` (137-138).
    - `FetchSignatureError` (114-119).
    - `NotSigned` (121-123).
    - `DigestMismatch` (127-130).
    - `AddDigest` (132-135).
    - `ListExhausted` (140).
    - `ReturnValid` and `Stop` are the returns in `CheckIsValidAndAddDigest` (74-86).
    - `Returned` is the stutter step after the webhook has answered.
  - Collaborators whose code is not in `src/` are chosen afresh on every call,
    from every answer they can give:
    - the policy lookup returns one of four outcomes (no policy, empty
      registry, SignCheck off, SignCheck on);
    - `FetchSignature` returns an error, nil, or the summary of any
      non-empty set of targets.

  Because the choice is made on every call, a policy-cache refresh between
  two containers is covered.
- **ImageInfo**: the legacy `getImageInfo` over character sequences.
  - The operators follow `strings.LastIndex` / `strings.Split` and the slice
    expressions.
  - The defaults "docker.io" and "latest" are single tokens that no input
    can spell.
  - `validFormatImage` is the `registry/name:tag` string that
    `isImageInWhiteList` matches against.
- **LegacyHandler**: one request of the exec-based `DockerHandler`.
  - Variables:
    - `orig` is `h.pod`, and `patch` is `h.patch`.
    - `list` and `idx` give the loop position.
    - `isValid`.
    - `failedAt` is the container whose name is returned.
    - `panicked` is set when `log.Panicf` is reached.
    - `loggedIn` holds the logins the dind docker daemon keeps.
    - `log` is a history of the accepted inspections.
  - Actions:
    - `ImageWhiteListed`.
    - `ExecOutputEmpty`: the panic.
    - `ImageNotSigned`: the break.
    - `ImageSigned`: the patch.
    - `ListEnd`: the loop end, with `isValid` moving on to the containers.
  - Every answer of the outside world is chosen per call: the exec output,
    the SignerKey lookups (a failed lookup is an empty record), the registry
    list, the secret list, and each docker login. The operators
    `findNotaryServer`, `loginToRegistry` and `getSecret` decide which
    secret the daemon logs in with.
  - The two copies of the handler in part_000 behave alike, so one module
    models both.
- **NotaryAuth**: `NewReadOnly` with `GetToken`, `fetchToken`,
  `checkPingResponse` and `setToken`, as one action per outcome.
  - Variables: `basicAuth` (`image.BasicAuth`), `server`
    (`notaryServerURL`), `pc` (where `NewReadOnly` is), `token`
    (`n.token`), `realm`, and `sent`, a
    history of every request with its kind, host and Basic header.
  - Actions: `GetToken`; `PingFails` (URL, request or transport error);
    `PingAccepted` (2xx, `checkPingResponse`); `PingChallenged` (no
    challenge, no realm or service, or a realm to follow);
    `TokenRequestFails` (bad realm URL, transport error, error status,
    undecodable body); `TokenGranted`; `NewRepository`
    (`NewFileCachedRepository` succeeds or fails).
  - The realm may be the notary host itself or another host.
- **AdmissionDecision**: the abstract promise of the engine to its caller.
  One `Decide` step moves `verdict` from "pending" to a result and may pin
  digests only into images that had none and are not whitelisted
  (`IsPinningOf`); a whitelisted namespace is admitted untouched.
  `Validator` instantiates it as `Decision` with the mapping
  `images <- IF phase = "done" THEN images ELSE orig`: the caller sees the
  submitted pod until the call returns. Every other variable maps to
  itself, and every loop step of `Validator` is a stutter of the abstract
  spec.
- **MCOperators, MCValidator, MCLegacyHandler, MCNotaryAuth**: the
  model-checking instances that the runs use.
  - MCOperators checks the pure operators of TrustRepo, TrustMetadata,
    PullSecrets and ImageInfo against their references.
  - Their inputs are independent. So each initial state varies the inputs
    of one operator and holds the others fixed. It is a sum of the input
    spaces, not a product.

## Runs

| Run | Expect | What it shows |
|---|---|---|
| `operators` | pass | `SignedTagsMatchReference` is checked for every ordered target list over the roles {targets, targets/releases, Alice, Bob} and the digests {D1, D2}: the summary has one row per released digest, and each row lists every delegation that signed that digest exactly once, or only "Repo Admin". `BasicAuthIsFirstUsable` is checked for every list of up to three distinct secrets and every outcome per secret: the result is the first host auth, or an error if an unreadable secret comes first, or the empty auth. `RoundTrip`: `getImageInfo` recovers every small `host/name:tag` reference from its string. |
| `validator_safety` | pass | `TypeOK`. `PinnedDigestIsReleased`: a rewritten image carries a digest that a released role signed in the trust answer used for that very container. `UserDigestKept`: a digest the user gave is never replaced. `Refinement`: the engine implements `AdmissionDecision`. |
| `validator_all_containers` | violation | `AllContainersChecked`: a valid verdict means every non-whitelisted container was checked against a policy. This is violated because of the early `return true` at validator.go:109/112/135 (a code bug). |
| `validator_empty_summary` | violation | `SignCheckedImagesPinned`: an admitted image from a SignCheck registry is pinned to a digest. This is violated when only a delegation signed the tag: `GetDigest` gives "" and the image is accepted unpinned. The spec (4.3, 4.5) says such a summary is rejected. |
| `validator_row_order` | violation | `SameTrustDataSameDigest`: two checks of the same image with the same trust data pin the same digest. This is violated because the first row is random when `targets` and `targets/releases` signed different digests (server.go:444-449). |
| `legacy_handler` | pass | `TypeOK`. `AllContainersChecked`: unlike the new validator, the legacy loop pins every non-whitelisted container of an admitted pod. `PinnedImagesVerified`: a pinned image's key belongs, by the SignerKey records, to a policy signer (a failed lookup never authorizes), and its digest comes from a row for its tag. `FailureStopsPatching`: nothing is pinned after a failing container. |
| `legacy_panic` | violation | `NeverPanics`: an empty exec output reaches `log.Panicf` inside the request (part_000:163). |
| `legacy_login_namespace` | violation | `LoginWithOwnSecret`: `getSecret` lists every namespace, so the shared daemon logs in with another namespace's secret of the same name (part_000:253). |
| `notary_auth` | pass | `TypeOK`: on every path through `NewReadOnly` the token is nil or an `auth.Token` with a type and a value. The run exists to drive every action of `NotaryAuth`; its findings are the two violation runs below. |
| `notary_empty_token` | violation | `BearerTokenNonEmpty`: a token response without a `token` field decodes to "", and the repository is built on an empty Bearer token (spec 4.2 and 7 make a malformed token response an error). |
| `notary_probe_auth` | violation | `ProbeUnauthenticated`: the ping of `/v2` carries the registry's basic auth whenever the image has one (server.go:262); spec 4.2 describes an unauthenticated probe. |
| `metadata_signers` | violation | `SignersListRowSigners`: a summary returned without error lists every delegation that signed one of its rows among its Signers. It is violated because a failed `GetDelegationRoles` is only logged (server.go:373), and the same happens when the delegations change between the separate calls. |

Each property of a passing run has a mutant in `PROJECT.json`. A mutant is
one plausible bug in the mapped code, and TLC must find it. The mutants are:

- the second pass also lists released roles;
- the first pass keeps the rows of delegations;
- the secret scan stops at the first secret without host auth;
- the digest check ignores an empty user digest;
- a list's return forgets the verdict;
- the digest check ignores an empty signed digest (it breaks `Refinement`:
  a user digest is overwritten with "");
- the granted token is stored without its `auth.Token` type;

## Bounds

- MCValidator:
  - two namespaces, one of them whitelisted;
  - two hosts, one of them whitelisted;
  - two digests, one of which users may pin;
  - one delegation, Alice;
  - pull-secret lists `<<>>` and `<<S1, S2>>`;
  - at most two init containers and three containers.

  Two containers in one list are needed for the early return, and the third
  container and second init container let a failure, a whitelisted image and
  a pinned image meet in one list. Two digests are needed for a
  mismatch and for disagreeing released roles. A delegation is needed for the
  empty summary. The pass run reaches 186,984 distinct states in about 35 seconds; the violation runs keep one init container and two containers.
- MCOperators covers:
  - the 633 ordered target lists over two delegations and two digests,
    each with every outcome of the three repository calls. These cover
    duplicates, delegation-only digests, both released roles, and every
    set of delegations a later version of the repository can have;
  - every list of up to three pull secrets with every outcome per secret;
  - every image string of up to five characters over `a . / : @`, and every
    reference whose parts have one or two characters. That is enough for
    two `/`, two `:` and an `@` in one image.

  The run has 19,936 distinct states.
- MCNotaryAuth: the empty notary URL and two explicit ones, a realm on the
  notary host or on a separate host, no credential or one, and a token
  response with an empty or a real token: every path through
  `NewReadOnly` (147 states).
- MCLegacyHandler covers:
  - two registries, one of them Docker Hub, and the other with a notary
    server;
  - two tags and two digests;
  - up to two rows per signature;
  - two keys, and one signer who owns one of them;
  - the signer-policy lists `<<>>` and `<<<<Alice>>>>`;
  - up to two pull secrets;
  - a cluster where "Reg" exists in another namespace, listed first, and in
    the pod's own.

  The run reaches 260,358 distinct states in about 20 seconds.

## Fairness

No run assumes fairness. `AdmissionDecision.Spec` states the promise that
every request is answered. `Validator` and `LegacyHandler` still check
no termination property, for two reasons:
- Both walk the containers in Go `range` loops over finite slices, so they
  end whatever their bodies do.
- The only way a request cannot return is a call that never answers. Such
  calls are secret Gets on `context.Background()`, `FetchSignature` with no
  deadline, or an exec into the dind pod. Weak fairness would assume exactly
  these calls away.

Those hangs are listed in `PROJECT.json` as liveness hazards without a
property.

## Not modelled, and plan

1. Done: the trust reduction and the whole of `GetSignedMetadata`, the secret scan, the validation engine with
   its abstract decision (refinement), the legacy parser,
   the legacy handler, and the notary token protocol.
2. Left in the legacy handler, on purpose:
   - The substring match of `isImageInWhiteList` over strings. The spec
     defines whitelisting the same way: an entry is a substring of the
     canonical `host/name:tag` form. `ImageInfo` checks that canonical form
     (`RoundTrip`). `LegacyHandler` abstracts an image
     to a registry and a tag, so the whitelisted images are an input set.
     A property over the substring itself would only restate
     `strings.Contains`.
   - Several requests in a row, or at once, that share the dind daemon's
     logins. One request already lets TLC log the daemon in with another
     namespace's secret (`legacy_login_namespace`). A composition would only
     reach the same violated property by a second route. The spec places
     the legacy path outside the core.

Not modelled at all:

- `isNamespaceInWhiteList`, which has no caller in `src/`;
- `ServeHTTP` and the server constructors. The errors `ServeHTTP` ignores
  only matter through `HandleAdmission`, which is not in `src/`;
- `passRetriever`: a read-only repository never asks for a pass phrase.
  `NewReadOnly` never makes the `passPhrase` map, so a call with
  `createNew` would panic on the nil map. None of the calls the code makes
  on the repository creates a key;
- TLS and certificate loading;
- directory handling for notary (`ClearDir`);
- logging;
- the construction of the caches.

These are configuration or I/O with no control that a property could
distinguish. The spec also places the HTTP/TLS transport, process
startup and configuration loading outside the core (its scope
paragraph). `ServeHTTP` ignores read, decode and `HandleAdmission`
errors and writes the review back anyway. Whether that admits a pod depends
only on `HandleAdmission`. `GetAdmissionValidationServer` installs the
certificate before it looks at the error of `LoadX509KeyPair`. Both
hazards are listed in `PROJECT.json` without a property.
