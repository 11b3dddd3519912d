CONSTANTS
  TargetsRole = TargetsRole
  ReleasesRole = ReleasesRole
  RepoAdmin = RepoAdmin
  NoDigest = NoDigest
  NoAuth = NoAuth
  NoFetch = NoFetch
  FetchError = FetchError
  NilSig = NilSig
  N1 = N1
  N2 = N2
  H1 = H1
  H2 = H2
  D1 = D1
  D2 = D2
  Alice = Alice
  S1 = S1
  S2 = S2
  Namespaces <- MCNamespaces
  WhiteListedNamespaces <- MCWhiteListedNamespaces
  Hosts <- MCHosts
  Digests <- MCDigests
  UserDigests <- MCUserDigests
  Delegations <- MCDelegations
  WhiteListedImages <- MCWhiteListedImages
  Secrets <- MCSecrets
  PullSecretLists <- MCPullSecretLists
  MaxInitContainers = 1
  MaxContainers = 2

SPECIFICATION Spec

INVARIANT SignCheckedImagesPinned
