------------------------------ MODULE NotaryAuth ------------------------------
(***************************************************************************)
(* How the trust client of pkg/trust (src/pkg/server/server.go, second     *)
(* file) authenticates to a notary server: NewReadOnly calls GetToken,     *)
(* whose fetchToken pings "<server>/v2", keeps basic auth on a 2xx answer  *)
(* (checkPingResponse) or follows the Bearer challenge to the advertised   *)
(* realm (setToken), and then builds the repository on a transport that    *)
(* carries the token.                                                      *)
(*                                                                         *)
(* Every HTTP exchange answers with any of the outcomes the code tells     *)
(* apart. A request is recorded as the host it goes to and whether it      *)
(* carries the registry's basic auth.                                      *)
(***************************************************************************)
EXTENDS Naturals, Sequences

CONSTANTS
  DefaultNotary,  \* DefaultNotaryServer, "https://notary.docker.io"
  NotaryURLs,     \* notary URLs a RegistrySecurityPolicy can name ("" too)
  EmptyURL,       \* the empty notary URL ""
  RealmHosts,     \* hosts a Bearer challenge's realm can point to
  Credentials,    \* image.BasicAuth values, NoAuth among them
  NoAuth,         \* the empty BasicAuth ""
  TokenValues,    \* the "token" field of a token response, EmptyToken too
  EmptyToken,     \* a token response with no "token" field decodes to ""
  NilToken        \* n.token == nil

\* auth.Token values.
Token == [type : {"Basic", "Bearer"}, value : Credentials \cup TokenValues]

\* The challenges challenge.ResponseChallenges finds in a non-2xx answer:
\* none, one without realm or service, or one with both ("ok").
Challenges == [kind : {"none", "incomplete", "ok"}, realm : RealmHosts]

VARIABLES
  basicAuth,   \* n.image.BasicAuth
  server,      \* n.notaryServerURL
  pc,          \* where NewReadOnly is
  token,       \* n.token
  realm,       \* the realm of the challenge followed, when one is
  sent         \* history: the requests sent, [kind, to, basic]

vars == <<basicAuth, server, pc, token, realm, sent>>

\* NewReadOnly: the server is the policy's notary URL, or Docker's.
Init ==
  /\ basicAuth \in Credentials
  /\ \E url \in NotaryURLs :
       server = IF url = EmptyURL THEN DefaultNotary ELSE url
  /\ pc = "getToken"
  /\ token = NilToken
  /\ realm = "none"
  /\ sent = <<>>

\* A request of a kind ("ping" or "token") to host, with the header
\* "Authorization: Basic" set when BasicAuth is.
Send(kind, host) ==
  sent' = Append(sent, [kind |-> kind, to |-> host, basic |-> basicAuth # NoAuth])

Fail == pc' = "failed"

\* GetToken: fetch unless a token with a type and a value is held.
GetToken ==
  /\ pc = "getToken"
  /\ pc' = IF token = NilToken \/ token.value \in {NoAuth, EmptyToken}
           THEN "ping" ELSE "newRepo"
  /\ UNCHANGED <<basicAuth, server, token, realm, sent>>

\* fetchToken: url.Parse or http.NewRequest fails, or the ping does.
PingFails ==
  /\ pc = "ping"
  /\ \/ Fail /\ UNCHANGED sent
     \/ Send("ping", server) /\ Fail
  /\ UNCHANGED <<basicAuth, server, token, realm>>

\* checkPingResponse: on 2xx the token is basic auth, or nil without it.
checkPingResponse(auth) ==
  IF auth = NoAuth THEN NilToken ELSE [type |-> "Basic", value |-> auth]

PingAccepted ==
  /\ pc = "ping"
  /\ Send("ping", server)
  /\ token' = checkPingResponse(basicAuth)
  /\ pc' = "newRepo"
  /\ UNCHANGED <<basicAuth, server, realm>>

\* Any other status: a challenge with realm and service is followed;
\* without one fetchToken returns an error.
PingChallenged ==
  /\ pc = "ping"
  /\ Send("ping", server)
  /\ \E c \in Challenges :
       IF c.kind # "ok"
       THEN Fail /\ UNCHANGED realm
       ELSE pc' = "setToken" /\ realm' = c.realm
  /\ UNCHANGED <<basicAuth, server, token>>

\* setToken: the realm is not a URL, or the token request fails, is
\* answered with an error status, or its body does not decode.
TokenRequestFails ==
  /\ pc = "setToken"
  /\ \/ Fail /\ UNCHANGED sent
     \/ Send("token", realm) /\ Fail
  /\ UNCHANGED <<basicAuth, server, token, realm>>

\* Mutant: the token is stored without its auth.Token wrapper.
TokenGrantedRaw ==
  /\ pc = "setToken"
  /\ Send("token", realm)
  /\ \E v \in TokenValues : token' = v
  /\ pc' = "newRepo"
  /\ UNCHANGED <<basicAuth, server, realm>>

\* The token response decodes: whatever its "token" field holds becomes
\* the Bearer token.
TokenGranted ==
  /\ pc = "setToken"
  /\ Send("token", realm)
  /\ \E v \in TokenValues : token' = [type |-> "Bearer", value |-> v]
  /\ pc' = "newRepo"
  /\ UNCHANGED <<basicAuth, server, realm>>

\* NewFileCachedRepository on a transport carrying the token, which may
\* fail (the cache directory, the GUN).
NewRepository ==
  /\ pc = "newRepo"
  /\ pc' \in {"ready", "failed"}
  /\ UNCHANGED <<basicAuth, server, token, realm, sent>>

Returned ==
  /\ pc \in {"ready", "failed"}
  /\ UNCHANGED vars

Next ==
  \/ GetToken \/ PingFails \/ PingAccepted \/ PingChallenged
  \/ TokenRequestFails \/ TokenGranted \/ NewRepository \/ Returned

Spec == Init /\ [][Next]_vars

-----------------------------------------------------------------------------
Hosts == {DefaultNotary} \cup (NotaryURLs \ {EmptyURL}) \cup RealmHosts

TypeOK ==
  /\ basicAuth \in Credentials
  /\ server \in Hosts
  /\ pc \in {"getToken", "ping", "setToken", "newRepo", "ready", "failed"}
  /\ token \in Token \cup {NilToken}
  /\ realm \in RealmHosts \cup {"none"}
  /\ sent \in Seq([kind : {"ping", "token"}, to : Hosts, basic : BOOLEAN])

\* Spec 4.2 and 7: a malformed token response is a protocol error, so a
\* repository is never built on a Bearer token with an empty value
\* (setToken takes whatever the "token" field decodes to).
BearerTokenNonEmpty ==
  (pc = "ready" /\ token # NilToken /\ token.type = "Bearer")
    => token.value # EmptyToken

\* Spec 4.2: the probe of the trust server is unauthenticated (fetchToken
\* sets the Basic header on the ping whenever BasicAuth is set).
ProbeUnauthenticated ==
  \A i \in 1..Len(sent) : sent[i].kind = "ping" => ~sent[i].basic
=============================================================================
