CONSTANTS
  TargetsRole = TargetsRole
  ReleasesRole = ReleasesRole
  RepoAdmin = RepoAdmin
  NoAuth = NoAuth
  Alice = Alice
  Bob = Bob
  D1 = D1
  D2 = D2
  S1 = S1
  S2 = S2
  S3 = S3
  RootRole = RootRole
  Snapshot = Snapshot
  Timestamp = Timestamp
  K1 = K1
  K2 = K2
  K3 = K3
  OtherBase <- MCOtherBase
  KeyIDs <- MCKeyIDs
  RoleKeys <- MCRoleKeys
  Delegations <- MCDelegations
  Digests <- MCDigests
  Secrets <- MCSecrets
  Chars <- MCChars
  DockerIO = DockerIO
  Latest = Latest
  NoRef = NoRef
  MaxLen = 5

SPECIFICATION Spec

INVARIANT SignedTagsMatchReference
INVARIANT BasicAuthIsFirstUsable
INVARIANT RoundTrip
