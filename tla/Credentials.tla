------------------------------ MODULE Credentials ------------------------------
(***************************************************************************)
(* The receiver side of the OCPI credentials module: registration (POST),  *)
(* rotation (PUT), unregistration (DELETE) and reading (GET), with the     *)
(* authentication guard in front of them, over the peers table and the     *)
(* table of bootstrap tokens.                                              *)
(*                                                                         *)
(* A handler is a sequence of awaits on the database and on the peer's own *)
(* HTTP server; between two awaits any other handler may run, the process  *)
(* may die, and administrators may change the bootstrap tokens.  There is  *)
(* one action per await.  An element of Req is one HTTP request and is     *)
(* handled at most once, so what a finished request did stays readable.    *)
(***************************************************************************)
EXTENDS BootstrapTokens

CONSTANTS
    Req,      \* HTTP requests to the credentials module
    Creds,    \* what a client sends of itself: its token B, versions url, roles
    Token,    \* the strings TokenGenerator may return (tokens C)
    Module,   \* module identifiers a peer may list in its version details
    Known,    \* those among them that parseModuleIdentifier accepts
    Listings, \* the endpoint lists peers answer with
    Null,     \* nothing yet; in peers.peer_token_for_us, the empty string
    Overlap   \* FALSE: a request is let in only when no other is in flight

ASSUME CredentialsAssumption ==
    /\ Known \subseteq Module
    /\ Null \notin Creds \cup Token \cup BootToken
    /\ Listings \subseteq [listed : SUBSET Module, twice : SUBSET Module]
    /\ Overlap \in BOOLEAN

VARIABLES
    peer,    \* peer[p]: the row of p in peers and its rows in peer_endpoints
    pc,      \* pc[r]: the await at which request r is, or how it ended
    req,     \* req[r]: the method, body and Authorization header of r
    loc,     \* loc[r]: the local variables of r's handler
    issued   \* the tokens generated so far

vars == <<boot, now, peer, pc, req, loc, issued>>

-----------------------------------------------------------------------------
Version == {"2.2.1", "2.3.0"}

(* The stored url of an endpoint is one that the server of `creds` listed  *)
(* for `version`; no more of it matters here.                              *)
Endpoint == [module : Known, creds : Creds, version : Version]

PeerRow == [ status    : {"ABSENT", "PENDING", "REGISTERED", "REVOKED"},
             creds     : Creds \cup {Null},
             token     : Token \cup {Null},
             version   : Version,
             endpoints : SUBSET Endpoint ]

Method == {"POST", "PUT", "DELETE", "GET"}

(* party is what roles[0] of the body names.  A POST has been validated by  *)
(* the time it counts; a PUT has not, and Nobody stands for a body that     *)
(* does not name one party in full.  A DELETE or a GET has no body: its     *)
(* party is the one whose row its token was answered for.  Of the token of  *)
(* a PUT nothing is left after the guard.                                   *)
Request == [ method : Method \cup {"NONE"},
             party  : Party \cup {Nobody},
             creds  : Creds \cup {Null},
             boot   : BootToken \cup {Null},
             auth   : Token \cup {Null} ]

(* committed is history: the transaction of setPeerTokenForUs of this      *)
(* request was committed.  No handler reads it.                            *)
Local == [ creds     : Creds \cup {Null},   \* the peer row the handler holds
           version   : Version,
           listing   : [listed : SUBSET Module, twice : SUBSET Module],
           token     : Token \cup {Null},
           committed : BOOLEAN ]

InFlight == {"upsert", "update", "reread", "versions", "details",
             "commit", "mark", "revoke"}

(* "failed" stands for every 4xx and 5xx answer after the guard, "lost"    *)
(* for a request whose process died: its client gets no answer.            *)
Outcome == {"ok", "unauthorized", "failed", "lost"}

TypeOK ==
    /\ BootTypeOK
    /\ peer \in [Party -> PeerRow]
    /\ pc \in [Req -> {"idle"} \cup InFlight \cup Outcome]
    /\ req \in [Req -> Request]
    /\ loc \in [Req -> Local]
    /\ issued \in SUBSET Token

NoRequest == [method |-> "NONE", party |-> Nobody, creds |-> Null,
              boot |-> Null, auth |-> Null]

NoLocal == [creds |-> Null, version |-> "2.2.1",
            listing |-> [listed |-> {}, twice |-> {}],
            token |-> Null, committed |-> FALSE]

Init ==
    /\ BootInit
    /\ peer = [p \in Party |->
                 [status |-> "ABSENT", creds |-> Null, token |-> Null,
                  version |-> "2.2.1", endpoints |-> {}]]
    /\ pc = [r \in Req |-> "idle"]
    /\ req = [r \in Req |-> NoRequest]
    /\ loc = [r \in Req |-> NoLocal]
    /\ issued = {}

-----------------------------------------------------------------------------
(* findByCredentialsToken: PENDING rows authenticate, REVOKED ones do not. *)
FindByToken(t) == {p \in Party : /\ peer[p].token = t
                                 /\ peer[p].status \notin {"ABSENT", "REVOKED"}}

Authenticates(t) == FindByToken(t) # {}

(* The tokens C a client has been told: it sends no other ones. *)
Held(p) == {loc[r].token : r \in {q \in Req : /\ pc[q] = "ok"
                                              /\ req[q].party = p
                                              /\ req[q].method \in {"POST", "PUT"}}}

Admitted == Overlap \/ \A q \in Req : pc[q] \notin InFlight

MutantAnyToken == Token

(* TokenGenerator.generate: 256 random bits, hence never twice the same.   *)
Fresh == Token \ issued

goto(r, l) == pc' = [pc EXCEPT ![r] = l]

(* The database has carried out the call; its answer arrives, or is lost   *)
(* on the way, and then the call throws.                                   *)
answered(r, l) == \E next \in {l, "failed"} : goto(r, next)

(***************************************************************************)
(* OcpiAuthGuard.  Its only await is the lookup of the token, and nothing  *)
(* happened before it: arrival and guard are one step.                     *)
(***************************************************************************)
GuardBootstrap(r) ==
    /\ pc[r] = "idle" /\ Admitted
    /\ \E p \in Party, c \in Creds, a \in BootToken :
          /\ boot[a].stored # "NEVER"
          /\ req' = [req EXCEPT ![r] = [method |-> "POST", party |-> p,
                                        creds |-> c, boot |-> a, auth |-> Null]]
          /\ goto(r, IF Valid(a) THEN "upsert" ELSE "unauthorized")
    /\ UNCHANGED <<bootVars, peer, loc, issued>>

FirstAwait(m) == IF m = "PUT" THEN "update" ELSE "revoke"

(* The guard does not tell the handlers whose token it was, and a PUT goes *)
(* by its body: that may name any party, or none in full.                  *)
GuardToken(r) ==
    /\ pc[r] = "idle" /\ Admitted
    /\ \E q \in Party, m \in {"PUT", "DELETE"} : \E t \in Held(q) :
          /\ \/ /\ m = "PUT"
                /\ \E p \in Party \cup {Nobody}, c \in Creds :
                      req' = [req EXCEPT ![r] = [method |-> m, party |-> p,
                                                 creds |-> c, boot |-> Null,
                                                 auth |-> Null]]
             \/ /\ m = "DELETE"
                /\ req' = [req EXCEPT ![r] = [method |-> m, party |-> q,
                                              creds |-> Null, boot |-> Null,
                                              auth |-> t]]
          /\ goto(r, IF Authenticates(t) THEN FirstAwait(m) ELSE "unauthorized")
    /\ UNCHANGED <<bootVars, peer, loc, issued>>

(* getOurCredentials has no await of its own: the guard, then the answer,  *)
(* whose token getSelfPresentation generates and stores nowhere.           *)
GetCredentials(r) ==
    /\ pc[r] = "idle" /\ Admitted
    /\ \E p \in Party : \E t \in Held(p) :
          /\ req' = [req EXCEPT ![r] = [method |-> "GET", party |-> p,
                                        creds |-> Null, boot |-> Null, auth |-> t]]
          /\ \/ /\ ~Authenticates(t)
                /\ goto(r, "unauthorized")
                /\ UNCHANGED <<loc, issued>>
             \/ /\ Authenticates(t)
                /\ goto(r, "ok")
                /\ \E new \in Fresh :
                      /\ loc' = [loc EXCEPT ![r].token = new]
                      /\ issued' = issued \cup {new}
    /\ UNCHANGED <<bootVars, peer>>

-----------------------------------------------------------------------------
MutantRewrittenClearsToken(p, c) ==
    [peer[p] EXCEPT !.creds = c, !.token = Null, !.status = "PENDING"]

MutantRewrittenKeepsCreds(p, c) == [peer[p] EXCEPT !.status = "PENDING"]

(* The columns that upsert and updateMany both write: what is left out of  *)
(* the body of a PUT stays, so that c is what the row says afterwards.     *)
Rewritten(p, c) == [peer[p] EXCEPT !.creds = c, !.status = "PENDING"]

MutantUpsertMarksToken(r) ==
    /\ pc[r] = "upsert"
    /\ peer' = [peer EXCEPT ![req[r].party] = Rewritten(req[r].party, req[r].creds)]
    /\ loc' = [loc EXCEPT ![r].creds = req[r].creds]
    /\ MarkAsUsed(req[r].boot, req[r].party)
    /\ answered(r, "versions")
    /\ UNCHANGED <<req, issued>>

(* The upsert: a row it creates has the column values of Init but these.   *)
UpsertFromIncomingCredentials(r) ==
    /\ pc[r] = "upsert"
    /\ peer' = [peer EXCEPT ![req[r].party] = Rewritten(req[r].party, req[r].creds)]
    /\ loc' = [loc EXCEPT ![r].creds = req[r].creds]
    /\ answered(r, "versions")
    /\ UNCHANGED <<bootVars, req, issued>>

(* updateMany.  Without a country code, a party id or both, it writes every *)
(* row that agrees with what is there, and findUnique then throws before it *)
(* asks the database anything.                                              *)
UpdateFromIncomingCredentials(r) ==
    /\ pc[r] = "update"
    /\ LET stored == {p \in Party : peer[p].status # "ABSENT"}
       IN \/ /\ req[r].party \in stored
             /\ peer' = [peer EXCEPT
                           ![req[r].party] = Rewritten(req[r].party, req[r].creds)]
             /\ answered(r, "reread")
          \/ /\ req[r].party \in Party \ stored
             /\ goto(r, "failed")
             /\ UNCHANGED peer
          \/ /\ req[r].party = Nobody
             /\ \E S \in SUBSET stored : \E said \in [S -> Creds] :
                   peer' = [p \in Party |-> IF p \in S THEN Rewritten(p, said[p])
                                                      ELSE peer[p]]
             /\ goto(r, "failed")
    /\ UNCHANGED <<bootVars, req, loc, issued>>

(* findUnique after updateMany: the row as it is by then. *)
RereadPeer(r) ==
    /\ pc[r] = "reread"
    /\ loc' = [loc EXCEPT ![r].creds = peer[req[r].party].creds]
    /\ goto(r, "versions")
    /\ UNCHANGED <<bootVars, peer, req, issued>>

(* negotiateWithPeer, first call: the newest version that both speak.      *)
(* Versions this side does not speak are not in `offered`.                 *)
FetchVersions(r) ==
    /\ pc[r] = "versions"
    /\ \E offered \in SUBSET Version :
          \/ /\ offered = {}
             /\ goto(r, "failed")
             /\ UNCHANGED loc
          \/ /\ offered # {}
             /\ loc' = [loc EXCEPT ![r].version =
                           IF "2.3.0" \in offered THEN "2.3.0" ELSE "2.2.1"]
             /\ goto(r, "details")
    /\ UNCHANGED <<bootVars, peer, req, issued>>

(* negotiateWithPeer, second call; its answer is followed, without an      *)
(* await, by the generation of token C.                                    *)
FetchDetails(r) ==
    /\ pc[r] = "details"
    /\ \E l \in Listings, new \in Fresh :
          /\ loc' = [loc EXCEPT ![r].listing = l, ![r].token = new]
          /\ issued' = issued \cup {new}
    /\ goto(r, "commit")
    /\ UNCHANGED <<bootVars, peer, req>>

MutantEndpointsUnfiltered(r) == [ module  : loc[r].listing.listed,
                                  creds   : {loc[r].creds},
                                  version : {loc[r].version} ]

(* The rows of peer_endpoints that the handler of r inserts. *)
NewEndpoints(r) == [ module  : loc[r].listing.listed \cap Known,
                     creds   : {loc[r].creds},
                     version : {loc[r].version} ]

(* Two rows for one module: the primary key (peer, module, role) refuses   *)
(* the second, for role is a function of the peer.                         *)
DuplicateKey(r) == loc[r].listing.twice \cap Known # {}

MutantRegisteredKeepsEndpoints(r) ==
    [peer[req[r].party] EXCEPT !.token = loc[r].token,
                               !.version = loc[r].version,
                               !.status = "REGISTERED",
                               !.endpoints = @ \cup NewEndpoints(r)]

MutantRegisteredKeepsVersion(r) ==
    [peer[req[r].party] EXCEPT !.token = loc[r].token,
                               !.status = "REGISTERED",
                               !.endpoints = NewEndpoints(r)]

MutantRegisteredKeepsStatus(r) ==
    [peer[req[r].party] EXCEPT !.token = loc[r].token,
                               !.version = loc[r].version,
                               !.endpoints = NewEndpoints(r)]

MutantRegisteredKeepsToken(r) ==
    [peer[req[r].party] EXCEPT !.token = IF @ = Null THEN loc[r].token ELSE @,
                               !.version = loc[r].version,
                               !.status = "REGISTERED",
                               !.endpoints = NewEndpoints(r)]

(* The row of r's party after the transaction. *)
RegisteredRow(r) ==
    [peer[req[r].party] EXCEPT !.token = loc[r].token,
                               !.version = loc[r].version,
                               !.status = "REGISTERED",
                               !.endpoints = NewEndpoints(r)]

MutantSetWithoutTransaction(r) ==
    /\ pc[r] = "commit"
    /\ peer' = [peer EXCEPT ![req[r].party] = RegisteredRow(r)]
    /\ \/ /\ DuplicateKey(r)
          /\ goto(r, "failed")
          /\ UNCHANGED loc
       \/ /\ ~DuplicateKey(r)
          /\ loc' = [loc EXCEPT ![r].committed = TRUE]
          /\ answered(r, IF req[r].method = "POST" THEN "mark" ELSE "ok")
    /\ UNCHANGED <<bootVars, req, issued>>

(* One transaction: it replaces token, version, status and endpoints       *)
(* together, or rolls back.                                                *)
SetPeerTokenForUs(r) ==
    /\ pc[r] = "commit"
    /\ \/ /\ DuplicateKey(r)
          /\ goto(r, "failed")
          /\ UNCHANGED <<peer, loc>>
       \/ /\ ~DuplicateKey(r)
          /\ peer' = [peer EXCEPT ![req[r].party] = RegisteredRow(r)]
          /\ loc' = [loc EXCEPT ![r].committed = TRUE]
          /\ answered(r, IF req[r].method = "POST" THEN "mark" ELSE "ok")
    /\ UNCHANGED <<bootVars, req, issued>>

MutantMarkIsBestEffort(r) ==
    /\ pc[r] = "mark"
    /\ MarkAsUsed(req[r].boot, req[r].party) \/ UNCHANGED bootVars
    /\ answered(r, "ok")
    /\ UNCHANGED <<peer, req, loc, issued>>

(* markTokenAsUsed, which throws when the row has been deleted meanwhile.  *)
MarkTokenAsUsed(r) ==
    /\ pc[r] = "mark"
    /\ \/ /\ MarkAsUsed(req[r].boot, req[r].party)
          /\ answered(r, "ok")
       \/ /\ ~Stored(req[r].boot)
          /\ goto(r, "failed")
          /\ UNCHANGED bootVars
    /\ UNCHANGED <<peer, req, loc, issued>>

MutantRevokeRegisteredOnly(r) ==
    /\ pc[r] = "revoke"
    /\ peer' = [p \in Party |->
                  IF peer[p].token = req[r].auth /\ peer[p].status = "REGISTERED"
                    THEN [peer[p] EXCEPT !.status = "REVOKED"]
                    ELSE peer[p]]
    /\ answered(r, "ok")
    /\ UNCHANGED <<bootVars, req, loc, issued>>

(* updateMany where the token is still there; 0 rows are a success too. *)
RevokeByAuthContext(r) ==
    /\ pc[r] = "revoke"
    /\ peer' = [p \in Party |->
                  IF p \in FindByToken(req[r].auth)
                    THEN [peer[p] EXCEPT !.status = "REVOKED"]
                    ELSE peer[p]]
    /\ answered(r, "ok")
    /\ UNCHANGED <<bootVars, req, loc, issued>>

MutantNoHttpTimeout(r) ==
    /\ pc[r] \in InFlight \ {"versions", "details"}
    /\ goto(r, "failed")
    /\ UNCHANGED <<bootVars, peer, req, loc, issued>>

(* Any await may throw with nothing done: a database error, an HTTP error,  *)
(* the 10 s timeout.                                                       *)
CallFails(r) ==
    /\ pc[r] \in InFlight
    /\ goto(r, "failed")
    /\ UNCHANGED <<bootVars, peer, req, loc, issued>>

(* The process dies with all its handlers; the database stays. *)
Crash ==
    /\ \E r \in Req : pc[r] \in InFlight
    /\ pc' = [r \in Req |-> IF pc[r] \in InFlight THEN "lost" ELSE pc[r]]
    /\ UNCHANGED <<bootVars, peer, req, loc, issued>>

-----------------------------------------------------------------------------
Arrive(r) == GuardBootstrap(r) \/ GuardToken(r) \/ GetCredentials(r)

(* The calls to the database, which a handler makes one at a time. *)
DatabaseAnswers(r) ==
    \/ UpsertFromIncomingCredentials(r)
    \/ UpdateFromIncomingCredentials(r)
    \/ RereadPeer(r)
    \/ SetPeerTokenForUs(r)
    \/ MarkTokenAsUsed(r)
    \/ RevokeByAuthContext(r)

(* The calls to the peer's own server. *)
PeerAnswers(r) == FetchVersions(r) \/ FetchDetails(r)

Administer == AdminNext /\ UNCHANGED <<peer, pc, req, loc, issued>>

Next ==
    \/ \E r \in Req : Arrive(r) \/ DatabaseAnswers(r) \/ PeerAnswers(r) \/ CallFails(r)
    \/ Administer
    \/ Crash

Spec == Init /\ [][Next]_vars

(***************************************************************************)
(* The database answers and axios gives up after 10 s.  Nothing obliges a  *)
(* client to send anything, nor a peer's server to answer.                 *)
(***************************************************************************)
TimesOut(r) == pc[r] \in {"versions", "details"} /\ CallFails(r)

FairSpec ==
    Spec /\ \A r \in Req : WF_vars(DatabaseAnswers(r)) /\ WF_vars(TimesOut(r))
-----------------------------------------------------------------------------
(***************************************************************************)
(* Safety, with any number of requests in flight.                          *)
(***************************************************************************)

(* A request for a new token of p; `committed` tells whether it gave one.  *)
Rotates(r, p) == req[r].party = p /\ req[r].method \in {"POST", "PUT"}

(* A request that may make the row of p PENDING. *)
Rewrites(r, p) == Rotates(r, p) \/ (req[r].party = Nobody /\ req[r].method = "PUT")

(***************************************************************************)
(* A token C names one peer: two rows never hold the same token, although  *)
(* the column has no unique index and handlers generate tokens well before *)
(* they store them.  findByCredentialsToken takes the first row it finds,  *)
(* so the identity of every authenticated call rests on this.              *)
(***************************************************************************)
TokenIdentifiesPeer ==
    \A p, q \in Party :
       peer[p].token # Null /\ peer[p].token = peer[q].token => p = q

(***************************************************************************)
(* A row's token was generated by a POST or PUT whose body names that same *)
(* party and whose transaction was committed: no interleaving stores a     *)
(* token in the row of a party other than the one its request named.       *)
(***************************************************************************)
TokenComesFromOwnCommit ==
    \A p \in Party : peer[p].token # Null =>
       \E r \in Req : /\ Rotates(r, p)
                      /\ loc[r].committed
                      /\ loc[r].token = peer[p].token

(***************************************************************************)
(* What is stored of a negotiation is all of one negotiation: every        *)
(* endpoint was listed for the version in the row, and all of them by one  *)
(* server.  Nothing of an earlier registration survives the transaction of *)
(* setPeerTokenForUs, however the handlers interleave.                     *)
(***************************************************************************)
EndpointsOfOneNegotiation ==
    \A p \in Party : \A e \in peer[p].endpoints :
       /\ e.version = peer[p].version
       /\ \A f \in peer[p].endpoints : f.creds = e.creds

(***************************************************************************)
(* A registered peer can call us and be called: it has a token, and the    *)
(* token, version and endpoints are those of one committed handler.        *)
(***************************************************************************)
RegisteredIsWhole ==
    \A p \in Party : peer[p].status = "REGISTERED" =>
       \E r \in Req : /\ Rotates(r, p)
                      /\ loc[r].committed
                      /\ peer[p].token = loc[r].token
                      /\ peer[p].version = loc[r].version
                      /\ peer[p].endpoints = NewEndpoints(r)

(***************************************************************************)
(* PENDING is not a resting place: a row is PENDING only while a handler   *)
(* that wrote it is at work, or after one failed or died, a PUT that named *)
(* no party in full among them.  Handlers that all succeed never leave a   *)
(* peer PENDING, in whatever order they finish.                            *)
(***************************************************************************)
PendingHasACause ==
    \A p \in Party : peer[p].status = "PENDING" =>
       \E r \in Req : /\ Rewrites(r, p)
                      /\ ~loc[r].committed
                      /\ pc[r] \in {"reread", "versions", "details", "commit",
                                    "failed", "lost"}

(***************************************************************************)
(* A bootstrap token is spent on a registration or not at all: one marked  *)
(* as used by p has a committed registration of p behind it, so a failed   *)
(* negotiation can be retried with the same token.                         *)
(***************************************************************************)
SpentOnlyOnRegistration ==
    \A a \in BootToken : boot[a].usedBy \in Party =>
       \E r \in Req : /\ req[r].method = "POST" /\ req[r].boot = a
                      /\ req[r].party = boot[a].usedBy
                      /\ loc[r].committed

(***************************************************************************)
(* And it is spent before the client learns its token C: once a POST has   *)
(* been answered with success, its bootstrap token is never valid again.   *)
(***************************************************************************)
AnsweredPostSpentToken ==
    \A r \in Req : pc[r] = "ok" /\ req[r].method = "POST" => ~Valid(req[r].boot)

(***************************************************************************)
(* What the peers table comes to, seen without the handlers.               *)
(***************************************************************************)
RegistrationOf(p) == [ standing  |-> peer[p].status,
                       key       |-> peer[p].token,
                       version   |-> peer[p].version,
                       endpoints |-> peer[p].endpoints ]

GrantedTokens == {loc[r].token : r \in {q \in Req : loc[q].committed}}

Abstract == INSTANCE Registration
              WITH registration <- [p \in Party |-> RegistrationOf(p)],
                   granted      <- GrantedTokens

(***************************************************************************)
(* However many handlers of however many parties are at work, fail and     *)
(* die half-way, each of their steps is one of Registration or changes     *)
(* nothing of it: none gives or takes the keys of two parties, gives a key *)
(* out again, leaves a key without its endpoints or endpoints without      *)
(* their key, or takes a key from a party that is only negotiating.        *)
(***************************************************************************)
ImplementsRegistration == Abstract!RegistrationSpec

(***************************************************************************)
(* A token that was rotated out stays out: whatever token a row receives,  *)
(* no row had received it before.                                          *)
(***************************************************************************)
RotatedOutForGood ==
    [][\A p \in Party : peer'[p].token # peer[p].token =>
          \A r \in Req : loc[r].committed => loc[r].token # peer'[p].token]_vars

(***************************************************************************)
(* A token stops working for one of two reasons: a DELETE presented it, or *)
(* a POST or PUT that names the party of its row was committed, whether or *)
(* not their answers arrived.  All else leaves it in force: a rotation     *)
(* that fails before its commit, a PUT that makes every row PENDING, a     *)
(* crash, an administrator, the requests that name other parties.  (It is  *)
(* not a promise to the party: the PUT that names it may come from another *)
(* peer, whose token the guard accepted.)                                  *)
(***************************************************************************)
AccessEndsByCommitOrDelete ==
    [][\A p \in Party, t \in Token :
          p \in FindByToken(t) /\ p \notin FindByToken(t)'
          => \E r \in Req :
                \/ Rotates(r, p) /\ ~loc[r].committed /\ loc'[r].committed
                \/ /\ req[r].method = "DELETE" /\ req[r].auth = t
                   /\ pc[r] = "revoke" /\ pc'[r] \in {"ok", "failed"}]_vars

(***************************************************************************)
(* When a DELETE is answered, the token that asked for it authenticates    *)
(* nobody at that moment, whatever happened since the guard let it in.     *)
(***************************************************************************)
DeleteEndsAccess ==
    [][\A r \in Req : pc[r] = "revoke" /\ pc'[r] = "ok"
          => FindByToken(req[r].auth)' = {}]_vars

(***************************************************************************)
(* Every request that the guard lets in ends, even if the peer's server    *)
(* never answers, if its bootstrap token is deleted under way or if its    *)
(* transaction cannot be committed: no handler waits for ever.             *)
(***************************************************************************)
EveryRequestEnds ==
    \A r \in Req : pc[r] \in InFlight ~> pc[r] \in Outcome

-----------------------------------------------------------------------------
(***************************************************************************)
(* What holds when requests do not overlap (Overlap = FALSE), crashes and  *)
(* administrators notwithstanding, and fails when they do: the first when  *)
(* two bring one bootstrap token, the others when two are about one party. *)
(***************************************************************************)

(***************************************************************************)
(* README of the bootstrap tokens: single use.  Two registrations are      *)
(* never both answered with success on one bootstrap token.                *)
(***************************************************************************)
SingleUse ==
    \A r, s \in Req : /\ req[r].method = "POST" /\ pc[r] = "ok"
                      /\ req[s].method = "POST" /\ pc[s] = "ok"
                      /\ req[r].boot = req[s].boot
                      => r = s

(***************************************************************************)
(* The token in a successful answer works when the answer is sent.         *)
(***************************************************************************)
AnsweredTokenWorks ==
    [][\A r \in Req : /\ pc[r] # "ok" /\ pc'[r] = "ok"
                      /\ req[r].method \in {"POST", "PUT"}
          => req[r].party \in FindByToken(loc[r].token)']_vars

(***************************************************************************)
(* The endpoints of a registered peer were listed by the server whose url  *)
(* and token B are in the row: we call the peer where it last said it is.  *)
(***************************************************************************)
EndpointsFollowCreds ==
    \A p \in Party : peer[p].status = "REGISTERED" =>
       \A e \in peer[p].endpoints : e.creds = peer[p].creds

(***************************************************************************)
(* The end-to-end test of unregistration: after a DELETE answered with     *)
(* success the row is REVOKED.                                             *)
(***************************************************************************)
DeleteRevokes ==
    [][\A r \in Req : pc[r] = "revoke" /\ pc'[r] = "ok"
          => peer'[req[r].party].status = "REVOKED"]_vars

-----------------------------------------------------------------------------
(***************************************************************************)
(* The end-to-end test of unregistration: "Verify token no longer works".  *)
(* The code does not keep this: a later POST of the party makes the row    *)
(* PENDING before anything is negotiated, and PENDING rows authenticate.   *)
(***************************************************************************)
RevokedTokenStaysOut ==
    \A r \in Req : pc[r] = "ok" /\ req[r].method = "DELETE" =>
       ~Authenticates(req[r].auth)
=============================================================================
