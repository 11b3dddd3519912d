CONSTANTS
  DefaultNotary = DefaultNotary
  EmptyURL = EmptyURL
  NoAuth = NoAuth
  EmptyToken = EmptyToken
  NilToken = NilToken
  NotaryA = NotaryA
  NotaryB = NotaryB
  AuthHost = AuthHost
  Cred = Cred
  Tok = Tok
  NotaryURLs <- MCNotaryURLs
  RealmHosts <- MCRealmHosts
  Credentials <- MCCredentials
  TokenValues <- MCTokenValues
SPECIFICATION Spec

INVARIANT ProbeUnauthenticated
