CONSTANTS
  DockerIO = DockerIO
  R1 = R1
  T1 = T1
  T2 = T2
  D1 = D1
  D2 = D2
  K1 = K1
  K2 = K2
  Alice = Alice
  N1 = N1
  N2 = N2
  Reg = Reg
  Other = Other
  NoDigest = NoDigest
  NoSecret = NoSecret
  Registries <- MCRegistries
  DockerHub = DockerIO
  NotaryRegistries <- MCNotaryRegistries
  Tags <- MCTags
  Digests <- MCDigests
  Keys <- MCKeys
  Signers <- MCSigners
  SignerKeys <- MCSignerKeys
  PolicyLists <- MCPolicyLists
  WhiteListedImages <- MCWhiteListedImages
  Namespaces <- MCNamespaces
  PodNamespace = N1
  ClusterSecrets <- MCClusterSecrets
  SecretNames <- MCSecretNames
  MaxRows = 2
  MaxInit = 1
  MaxContainers = 2
SPECIFICATION Spec
INVARIANT TypeOK
INVARIANT AllContainersChecked
INVARIANT PinnedImagesVerified
INVARIANT FailureStopsPatching
