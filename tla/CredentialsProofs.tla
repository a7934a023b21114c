--------------------------- MODULE CredentialsProofs ---------------------------
(***************************************************************************)
(* Theorems about module Credentials, for every value of its constants.    *)
(***************************************************************************)
EXTENDS Credentials, TLAPS

(* What a handler does to the bootstrap tokens keeps their type.  The      *)
(* statements are of MarkAsUsed and the operations of AdminNext.           *)
LEMMA BootTypes ==
    ASSUME BootTypeOK,
           \/ AdminNext
           \/ \E a \in BootToken, p \in Party : MarkAsUsed(a, p)
           \/ UNCHANGED bootVars
    PROVE  BootTypeOK'
<1>1. ASSUME NEW a \in BootToken, CreateToken(a)
      PROVE  BootTypeOK'
  <2>1. PICK e \in {now + d : d \in Lifetimes} \cup {Never} :
           boot' = [boot EXCEPT ![a] = [stored    |-> "STORED",
                                        expiresAt |-> e,
                                        usedBy    |-> Nobody]]
    BY <1>1 DEF CreateToken
  <2>2. e \in Nat \cup {Never}
    BY <2>1, BootAssumption DEF BootTypeOK
  <2>. QED
    BY <1>1, <2>1, <2>2 DEF CreateToken, BootTypeOK, BootRow
<1>2. ASSUME NEW a \in BootToken, DeactivateToken(a)
      PROVE  BootTypeOK'
  BY <1>2 DEF DeactivateToken, BootTypeOK, BootRow
<1>3. CASE CleanupExpiredTokens
  <2>1. \A a \in BootToken : CleanedRow(a) \in BootRow
    BY DEF CleanedRow, BootTypeOK, BootRow
  <2>. QED
    BY <1>3, <2>1 DEF CleanupExpiredTokens, BootTypeOK
<1>4. CASE Tick
  BY <1>4 DEF Tick, BootTypeOK
<1>5. ASSUME NEW a \in BootToken, NEW p \in Party, MarkAsUsed(a, p)
      PROVE  BootTypeOK'
  BY <1>5 DEF MarkAsUsed, BootTypeOK, BootRow
<1>6. CASE UNCHANGED bootVars
  BY <1>6 DEF bootVars, BootTypeOK
<1>. QED
  BY <1>1, <1>2, <1>3, <1>4, <1>5, <1>6 DEF AdminNext

(* The history of a bootstrap token, one step of it: a token that exists   *)
(* or existed does not become new, one that is refused stays refused, one  *)
(* that is accepted is not deleted.                                        *)
BootEvolves ==
    \A a \in BootToken :
       /\ boot[a].stored # "NEVER" => boot'[a].stored # "NEVER"
       /\ boot[a].stored # "NEVER" /\ ~Valid(a) => ~Valid(a)'
       /\ Valid(a) => Stored(a)'

LEMMA BootStep ==
    ASSUME BootTypeOK,
           \/ AdminNext
           \/ \E a \in BootToken, p \in Party : MarkAsUsed(a, p)
           \/ UNCHANGED bootVars
    PROVE  BootEvolves
<1> USE BootAssumption
    DEF BootTypeOK, BootRow, BootEvolves, Valid, Stored, Used, Expired
<1>1. ASSUME NEW a \in BootToken, CreateToken(a)
      PROVE  BootEvolves
  BY <1>1 DEF CreateToken
<1>2. ASSUME NEW a \in BootToken, DeactivateToken(a)
      PROVE  BootEvolves
  BY <1>2 DEF DeactivateToken
<1>3. CASE CleanupExpiredTokens
  BY <1>3 DEF CleanupExpiredTokens, CleanedRow
<1>4. CASE Tick
  BY <1>4 DEF Tick
<1>5. ASSUME NEW a \in BootToken, NEW p \in Party, MarkAsUsed(a, p)
      PROVE  BootEvolves
  BY <1>5 DEF MarkAsUsed
<1>6. CASE UNCHANGED bootVars
  BY <1>6 DEF bootVars
<1>. QED
  BY <1>1, <1>2, <1>3, <1>4, <1>5, <1>6 DEF AdminNext

(* An administrator never enters a party as the user of a token.           *)
LEMMA AdminNamesNoParty ==
    ASSUME BootTypeOK, AdminNext, NEW a \in BootToken, boot'[a].usedBy \in Party
    PROVE  boot[a].usedBy = boot'[a].usedBy
BY BootAssumption
   DEF BootTypeOK, BootRow, AdminNext, CreateToken, DeactivateToken,
       CleanupExpiredTokens, CleanedRow, Tick, Stored, Expired

(* The row that the transaction of r writes is a row, when r has gone      *)
(* through a negotiation.                                                  *)
LEMMA RegisteredRowType ==
    ASSUME TypeOK, NEW r \in Req, req[r].party \in Party, loc[r].creds \in Creds
    PROVE  RegisteredRow(r) \in PeerRow
<1>1. NewEndpoints(r) \subseteq Endpoint
  BY CredentialsAssumption DEF NewEndpoints, Endpoint, TypeOK, Local
<1>2. peer[req[r].party] \in PeerRow /\ loc[r] \in Local
  BY DEF TypeOK
<1>. QED
  BY <1>1, <1>2 DEF RegisteredRow, PeerRow, Local

(* Assigning to a local variable of r's handler keeps the types of all.    *)
LEMMA LocalUpdate ==
    ASSUME TypeOK, NEW r \in Req
    PROVE  /\ \A v \in Version : [loc EXCEPT ![r].version = v] \in [Req -> Local]
           /\ \A t \in Token : [loc EXCEPT ![r].token = t] \in [Req -> Local]
           /\ [loc EXCEPT ![r].committed = TRUE] \in [Req -> Local]
<1>. loc \in [Req -> Local]
  BY DEF TypeOK
<1>1. \A v \in Version : [loc EXCEPT ![r].version = v] \in [Req -> Local]
  BY DEF Local
<1>2. \A t \in Token : [loc EXCEPT ![r].token = t] \in [Req -> Local]
  BY DEF Local
<1>3. [loc EXCEPT ![r].committed = TRUE] \in [Req -> Local]
  BY DEF Local
<1>. QED
  BY <1>1, <1>2, <1>3

(***************************************************************************)
(* How far a handler has come says what its variables hold.                *)
(***************************************************************************)
Negotiating == {"versions", "details", "commit"}

ControlOf(r) ==
    /\ pc[r] \notin {"idle", "update", "failed", "lost", "unauthorized"}
          => req[r].party \in Party
    /\ pc[r] # "idle" /\ req[r].method # "PUT" => req[r].party \in Party
    /\ pc[r] \in {"upsert", "mark"} => req[r].method = "POST"
    /\ pc[r] \in {"update", "reread"} => req[r].method = "PUT"
    /\ pc[r] \in Negotiating => req[r].method \in {"POST", "PUT"}
    /\ pc[r] = "revoke" => req[r].method = "DELETE"
    /\ req[r].method = "POST" => /\ req[r].boot \in BootToken
                                 /\ boot[req[r].boot].stored # "NEVER"
    /\ pc[r] \in {"upsert", "update"} => req[r].creds \in Creds
    /\ pc[r] \in {"reread"} \cup Negotiating => peer[req[r].party].status # "ABSENT"
    /\ pc[r] \in Negotiating => loc[r].creds \in Creds
    /\ pc[r] = "idle" => req[r] = NoRequest

ControlOK ==
    /\ \A r \in Req : ControlOf(r)
    /\ \A p \in Party : peer[p].status # "ABSENT" => peer[p].creds \in Creds

(* A step of the handler of r alone.                                       *)
LEMMA TypeStep ==
    ASSUME TypeOK, ControlOK, [Next]_vars
    PROVE  TypeOK'
<1> USE DEF TypeOK
<1>1. ASSUME NEW r \in Req, GuardBootstrap(r)
      PROVE  TypeOK'
  BY <1>1 DEF GuardBootstrap, bootVars, BootTypeOK, goto, InFlight, Outcome,
              Request, Method
<1>2. ASSUME NEW r \in Req, GuardToken(r)
      PROVE  TypeOK'
  <2>1. \A p \in Party : Held(p) \subseteq Token \cup {Null}
    BY DEF Held, Local
  <2>2. req' \in [Req -> Request]
    BY <1>2, <2>1 DEF GuardToken, Request, Method
  <2>. QED
    BY <1>2, <2>2 DEF GuardToken, FirstAwait, bootVars, BootTypeOK, goto, InFlight,
              Outcome
<1>3. ASSUME NEW r \in Req, GetCredentials(r)
      PROVE  TypeOK'
  <2>1. \A p \in Party : Held(p) \subseteq Token \cup {Null}
    BY DEF Held, Local
  <2>2. \/ UNCHANGED <<loc, issued>>
        \/ \E new \in Token : /\ loc' = [loc EXCEPT ![r].token = new]
                              /\ issued' = issued \cup {new}
    BY <1>3 DEF GetCredentials, Fresh
  <2>5. loc' \in [Req -> Local] /\ issued' \in SUBSET Token
    <3>1. CASE UNCHANGED <<loc, issued>>
      BY <3>1
    <3>2. ASSUME NEW new \in Token,
                 loc' = [loc EXCEPT ![r].token = new],
                 issued' = issued \cup {new}
          PROVE  loc' \in [Req -> Local] /\ issued' \in SUBSET Token
      <4>1. [loc EXCEPT ![r].token = new] \in [Req -> Local]
        BY LocalUpdate
      <4>. QED
        BY <3>2, <4>1
    <3>. QED
      BY <2>2, <3>1, <3>2
  <2>3. req' \in [Req -> Request]
    BY <1>3, <2>1 DEF GetCredentials, Request, Method
  <2>4. pc' \in [Req -> {"idle"} \cup InFlight \cup Outcome]
    BY <1>3 DEF GetCredentials, goto, InFlight, Outcome
  <2>. QED
    BY <1>3, <2>3, <2>4, <2>5 DEF GetCredentials, bootVars, BootTypeOK
<1>4. ASSUME NEW r \in Req, UpsertFromIncomingCredentials(r)
      PROVE  TypeOK'
  <2>1. req[r].party \in Party /\ req[r].creds \in Creds
    BY <1>4 DEF UpsertFromIncomingCredentials, ControlOK, ControlOf
  <2>2. Rewritten(req[r].party, req[r].creds) \in PeerRow
    BY <2>1 DEF Rewritten, PeerRow
  <2>3. loc' \in [Req -> Local]
    BY <1>4, <2>1 DEF UpsertFromIncomingCredentials, Local
  <2>. QED
    BY <1>4, <2>2, <2>3 DEF UpsertFromIncomingCredentials, bootVars, BootTypeOK,
                            answered, goto, InFlight, Outcome
<1>5. ASSUME NEW r \in Req, UpdateFromIncomingCredentials(r)
      PROVE  TypeOK'
  <2>1. \A p \in Party, c \in Creds : Rewritten(p, c) \in PeerRow
    BY DEF Rewritten, PeerRow
  <2>2. req[r].creds \in Creds
    BY <1>5 DEF UpdateFromIncomingCredentials, ControlOK, ControlOf
  <2>3. peer' \in [Party -> PeerRow]
    BY <1>5, <2>1, <2>2 DEF UpdateFromIncomingCredentials
  <2>4. pc' \in [Req -> {"idle"} \cup InFlight \cup Outcome]
    BY <1>5 DEF UpdateFromIncomingCredentials, answered, goto, InFlight, Outcome
  <2>. QED
    BY <1>5, <2>3, <2>4 DEF UpdateFromIncomingCredentials, bootVars, BootTypeOK
<1>6. ASSUME NEW r \in Req, RereadPeer(r)
      PROVE  TypeOK'
  <2>1. peer[req[r].party].creds \in Creds
    BY <1>6 DEF RereadPeer, ControlOK, ControlOf
  <2>. QED
    BY <1>6, <2>1 DEF RereadPeer, bootVars, BootTypeOK, goto,
                      InFlight, Outcome, Local
<1>7. ASSUME NEW r \in Req, FetchVersions(r)
      PROVE  TypeOK'
  <2>1. loc' \in [Req -> Local]
    <3>1. \/ loc' = loc
          \/ loc' = [loc EXCEPT ![r].version = "2.3.0"]
          \/ loc' = [loc EXCEPT ![r].version = "2.2.1"]
      BY <1>7 DEF FetchVersions
    <3>. QED
      BY <3>1, LocalUpdate DEF Version
  <2>. QED
    BY <1>7, <2>1 DEF FetchVersions, bootVars, BootTypeOK, goto, InFlight, Outcome
<1>8. ASSUME NEW r \in Req, FetchDetails(r)
      PROVE  TypeOK'
  <2>1. PICK l \in Listings, new \in Fresh :
           /\ loc' = [loc EXCEPT ![r].listing = l, ![r].token = new]
           /\ issued' = issued \cup {new}
    BY <1>8 DEF FetchDetails
  <2>2. /\ l \in [listed : SUBSET Module, twice : SUBSET Module]
        /\ new \in Token
    BY CredentialsAssumption DEF Fresh
  <2>3. loc' \in [Req -> Local] /\ issued' \in SUBSET Token
    BY <2>1, <2>2 DEF Local
  <2>. QED
    BY <1>8, <2>3 DEF FetchDetails, bootVars, BootTypeOK, goto, InFlight, Outcome
<1>9. ASSUME NEW r \in Req, SetPeerTokenForUs(r)
      PROVE  TypeOK'
  <2>1. req[r].party \in Party /\ loc[r].creds \in Creds
    BY <1>9 DEF SetPeerTokenForUs, ControlOK, ControlOf, Negotiating
  <2>2. RegisteredRow(r) \in PeerRow
    BY <2>1, RegisteredRowType
  <2>3. peer' \in [Party -> PeerRow]
    BY <1>9, <2>2 DEF SetPeerTokenForUs
  <2>4. loc' \in [Req -> Local]
    BY <1>9, LocalUpdate DEF SetPeerTokenForUs
  <2>. QED
    BY <1>9, <2>3, <2>4 DEF SetPeerTokenForUs, bootVars, BootTypeOK, answered, goto,
                            InFlight, Outcome
<1>10. ASSUME NEW r \in Req, MarkTokenAsUsed(r)
       PROVE  TypeOK'
  <2>1. req[r].boot \in BootToken /\ req[r].party \in Party
    BY <1>10 DEF MarkTokenAsUsed, ControlOK, ControlOf
  <2>2. BootTypeOK'
    BY <1>10, <2>1, BootTypes DEF MarkTokenAsUsed
  <2>. QED
    BY <1>10, <2>2 DEF MarkTokenAsUsed, answered, goto, InFlight, Outcome
<1>11. ASSUME NEW r \in Req, RevokeByAuthContext(r)
       PROVE  TypeOK'
  BY <1>11 DEF RevokeByAuthContext, bootVars, BootTypeOK, answered, goto, InFlight,
               Outcome, PeerRow
<1>12. ASSUME NEW r \in Req, CallFails(r)
       PROVE  TypeOK'
  BY <1>12 DEF CallFails, bootVars, BootTypeOK, goto, InFlight, Outcome
<1>13. CASE Administer
  BY <1>13, BootTypes DEF Administer
<1>14. CASE Crash
  BY <1>14 DEF Crash, bootVars, BootTypeOK, InFlight, Outcome
<1>15. CASE UNCHANGED vars
  BY <1>15 DEF vars, BootTypeOK
<1>. QED
  BY <1>1, <1>2, <1>3, <1>4, <1>5, <1>6, <1>7, <1>8, <1>9, <1>10, <1>11, <1>12,
     <1>13, <1>14, <1>15
     DEF Next, Arrive, DatabaseAnswers, PeerAnswers
(* The invariant ControlOK is inductive, given the types.                  *)
LEMMA ControlStep ==
    ASSUME TypeOK, ControlOK, [Next]_vars
    PROVE  ControlOK'
<1> USE DEF TypeOK, ControlOK, ControlOf, Negotiating, answered, goto, bootVars
<1>1. ASSUME NEW r \in Req, GuardBootstrap(r)
      PROVE  ControlOK'
  BY <1>1 DEF GuardBootstrap
<1>2. ASSUME NEW r \in Req, GuardToken(r)
      PROVE  ControlOK'
  BY <1>2 DEF GuardToken, FirstAwait
<1>3. ASSUME NEW r \in Req, GetCredentials(r)
      PROVE  ControlOK'
  BY <1>3 DEF GetCredentials
<1>4. ASSUME NEW r \in Req, UpsertFromIncomingCredentials(r)
      PROVE  ControlOK'
  BY <1>4 DEF UpsertFromIncomingCredentials, Rewritten, PeerRow, Local
<1>5. ASSUME NEW r \in Req, UpdateFromIncomingCredentials(r)
      PROVE  ControlOK'
  <2>1. /\ pc[r] = "update" /\ req[r].creds \in Creds
        /\ UNCHANGED <<boot, req, loc>>
        /\ \/ pc' = [pc EXCEPT ![r] = "reread"]
           \/ pc' = [pc EXCEPT ![r] = "failed"]
    BY <1>5 DEF UpdateFromIncomingCredentials
  <2>2. pc'[r] = "reread" => /\ req[r].party \in Party
                             /\ peer[req[r].party].status # "ABSENT"
    BY <1>5, <2>1 DEF UpdateFromIncomingCredentials
  <2>3. \A p \in Party : /\ peer[p].status # "ABSENT" => peer'[p].status # "ABSENT"
                         /\ peer'[p].status # "ABSENT" => peer'[p].creds \in Creds
    <3>1. \A p \in Party : \/ peer'[p] = peer[p]
                           \/ \E c \in Creds : peer'[p] = Rewritten(p, c)
      BY <1>5, <2>1 DEF UpdateFromIncomingCredentials
    <3>2. \A p \in Party, c \in Creds : /\ Rewritten(p, c).status = "PENDING"
                                        /\ Rewritten(p, c).creds = c
      BY DEF Rewritten, PeerRow
    <3>3. \A p \in Party : peer[p].status # "ABSENT" => peer[p].creds \in Creds
      BY DEF ControlOK
    <3>. QED
      BY ONLY <3>1, <3>2, <3>3
  <2>. QED
    BY <2>1, <2>2, <2>3
<1>6. ASSUME NEW r \in Req, RereadPeer(r)
      PROVE  ControlOK'
  BY <1>6 DEF RereadPeer, Local
<1>7. ASSUME NEW r \in Req, FetchVersions(r)
      PROVE  ControlOK'
  BY <1>7 DEF FetchVersions, Local
<1>8. ASSUME NEW r \in Req, FetchDetails(r)
      PROVE  ControlOK'
  BY <1>8 DEF FetchDetails, Local
<1>9. ASSUME NEW r \in Req, SetPeerTokenForUs(r)
      PROVE  ControlOK'
  <2>1. CASE DuplicateKey(r)
    BY <1>9, <2>1 DEF SetPeerTokenForUs
  <2>2. CASE ~DuplicateKey(r)
    <3>1. /\ pc[r] = "commit"
          /\ peer' = [peer EXCEPT ![req[r].party] = RegisteredRow(r)]
          /\ loc' = [loc EXCEPT ![r].committed = TRUE]
          /\ \E l \in {"mark", "ok", "failed"} :
                /\ pc' = [pc EXCEPT ![r] = l]
                /\ l = "mark" => req[r].method = "POST"
          /\ UNCHANGED <<boot, req>>
      BY <1>9, <2>2 DEF SetPeerTokenForUs
    <3>2. \A p \in Party : /\ peer[p].status # "ABSENT" => peer'[p].status # "ABSENT"
                           /\ peer'[p].creds = peer[p].creds
      BY <3>1 DEF RegisteredRow, PeerRow
    <3>3. req[r].party \in Party /\ peer[req[r].party].creds \in Creds
      BY <3>1
    <3>4. \A p \in Party : peer'[p].status # "ABSENT" => peer'[p].creds \in Creds
      BY <3>1, <3>2, <3>3
    <3>. QED
      BY <2>2, <3>1, <3>2, <3>4 DEF Local
  <2>. QED
    BY <2>1, <2>2
<1>10. ASSUME NEW r \in Req, MarkTokenAsUsed(r)
       PROVE  ControlOK'
  BY <1>10 DEF MarkTokenAsUsed, MarkAsUsed, BootTypeOK, BootRow
<1>11. ASSUME NEW r \in Req, RevokeByAuthContext(r)
       PROVE  ControlOK'
  BY <1>11 DEF RevokeByAuthContext, PeerRow, FindByToken
<1>12. ASSUME NEW r \in Req, CallFails(r)
       PROVE  ControlOK'
  BY <1>12 DEF CallFails, InFlight
<1>13. CASE Administer
  BY <1>13, BootStep DEF Administer, BootEvolves
<1>14. CASE Crash
  BY <1>14 DEF Crash, InFlight
<1>15. CASE UNCHANGED vars
  BY <1>15 DEF vars
<1>. QED
  BY <1>1, <1>2, <1>3, <1>4, <1>5, <1>6, <1>7, <1>8, <1>9, <1>10, <1>11, <1>12,
     <1>13, <1>14, <1>15
     DEF Next, Arrive, DatabaseAnswers, PeerAnswers
=============================================================================
