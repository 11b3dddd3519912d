---------------------------- MODULE MCNotaryAuth ----------------------------
EXTENDS NotaryAuth

CONSTANTS NotaryA, NotaryB, AuthHost, Cred, Tok

MCNotaryURLs == {EmptyURL, NotaryA, NotaryB}
\* The realm may be the notary itself or a separate token service.
MCRealmHosts == {NotaryA, AuthHost}
MCCredentials == {NoAuth, Cred}
MCTokenValues == {EmptyToken, Tok}
=============================================================================
