--------------------------- MODULE CredentialsSafety ---------------------------
(***************************************************************************)
(* The safety theorems of module Credentials, for every value of its       *)
(* constants, on top of the types and control of CredentialsProofs.        *)
(***************************************************************************)
EXTENDS CredentialsProofs

(* The transaction of s put token t into the row of p.                     *)
Granted(s, p, t) == Rotates(s, p) /\ loc[s].committed /\ loc[s].token = t

(***************************************************************************)
(* The life of a token C inside its handler: it is new when generated, no  *)
(* two handlers share one, and only the handler of a POST or PUT that      *)
(* reached its transaction has committed it.  A DELETE brings one.         *)
(***************************************************************************)
HandlerOf(r) ==
    /\ loc[r].token # Null => loc[r].token \in issued
    /\ \A s \in Req :
          loc[r].token # Null /\ loc[r].token = loc[s].token => r = s
    /\ pc[r] = "commit" => loc[r].token # Null
    /\ loc[r].committed => /\ loc[r].token # Null
                           /\ pc[r] \in {"mark", "ok", "failed", "lost"}
                           /\ req[r].method \in {"POST", "PUT"}
    /\ pc[r] = "mark" => loc[r].committed
    /\ pc[r] = "ok" /\ req[r].method \in {"POST", "PUT"} => loc[r].committed
    /\ pc[r] = "revoke" => req[r].auth # Null

HandlersOK == \A r \in Req : HandlerOf(r)

(* The tokens that clients present were granted to them.                   *)
PresentedOK ==
    \A r \in Req : req[r].auth # Null =>
       \E s \in Req : Granted(s, req[r].party, req[r].auth)

(***************************************************************************)
(* Token, version and endpoints of a row are those of one committed        *)
(* handler, whatever became of the row's status since.                     *)
(***************************************************************************)
RowOf(p) ==
    \/ /\ peer[p].token = Null
       /\ peer[p].endpoints = {}
       /\ peer[p].status # "REGISTERED"
    \/ /\ peer[p].token # Null
       /\ \E r \in Req : /\ Granted(r, p, peer[p].token)
                         /\ peer[p].version = loc[r].version
                         /\ peer[p].endpoints = NewEndpoints(r)

RowsOK == \A p \in Party : RowOf(p)

-----------------------------------------------------------------------------
(* What the later steps of a handler cannot change: the request itself,    *)
(* and the variables of a handler that has committed, which only its       *)
(* transaction does.                                                       *)
LEMMA HistoryStep ==
    ASSUME TypeOK, HandlersOK, [Next]_vars
    PROVE  /\ \A r \in Req : pc[r] # "idle" => req'[r] = req[r]
           /\ \A r \in Req : loc[r].committed => loc'[r] = loc[r]
           /\ \A r \in Req : ~loc[r].committed /\ pc[r] # "commit"
                               => ~loc'[r].committed
<1> USE DEF TypeOK, HandlersOK, HandlerOf, Local, answered, goto
<1> DEFINE Frozen == /\ \A r \in Req : pc[r] # "idle" => req'[r] = req[r]
                     /\ \A r \in Req : loc[r].committed => loc'[r] = loc[r]
                     /\ \A r \in Req : ~loc[r].committed /\ pc[r] # "commit"
                                         => ~loc'[r].committed
<1>1. ASSUME NEW r \in Req, GuardBootstrap(r)
      PROVE  Frozen
  BY <1>1 DEF GuardBootstrap
<1>2. ASSUME NEW r \in Req, GuardToken(r)
      PROVE  Frozen
  BY <1>2 DEF GuardToken
<1>3. ASSUME NEW r \in Req, GetCredentials(r)
      PROVE  Frozen
  <2>1. /\ pc[r] = "idle" /\ \A s \in Req \ {r} : req'[s] = req[s]
        /\ loc' = loc \/ \E t \in Token : loc' = [loc EXCEPT ![r].token = t]
    BY <1>3 DEF GetCredentials, Fresh
  <2>2. \A s \in Req : loc'[s].committed = loc[s].committed
    BY <2>1
  <2>. QED
    BY <2>1, <2>2
<1>4. ASSUME NEW r \in Req, UpsertFromIncomingCredentials(r)
      PROVE  Frozen
  BY <1>4 DEF UpsertFromIncomingCredentials
<1>5. ASSUME NEW r \in Req, UpdateFromIncomingCredentials(r)
      PROVE  Frozen
  BY <1>5 DEF UpdateFromIncomingCredentials
<1>6. ASSUME NEW r \in Req, RereadPeer(r)
      PROVE  Frozen
  BY <1>6 DEF RereadPeer
<1>7. ASSUME NEW r \in Req, FetchVersions(r)
      PROVE  Frozen
  <2>1. /\ pc[r] = "versions" /\ req' = req
        /\ loc' = loc \/ \E v \in Version : loc' = [loc EXCEPT ![r].version = v]
    BY <1>7 DEF FetchVersions, Version
  <2>2. \A s \in Req : /\ loc'[s].committed = loc[s].committed
                       /\ s # r => loc'[s] = loc[s]
    BY <2>1
  <2>. QED
    BY <2>1, <2>2
<1>8. ASSUME NEW r \in Req, FetchDetails(r)
      PROVE  Frozen
  BY <1>8 DEF FetchDetails
<1>9. ASSUME NEW r \in Req, SetPeerTokenForUs(r)
      PROVE  Frozen
  BY <1>9 DEF SetPeerTokenForUs
<1>10. ASSUME NEW r \in Req, MarkTokenAsUsed(r)
       PROVE  Frozen
  BY <1>10 DEF MarkTokenAsUsed
<1>11. ASSUME NEW r \in Req, RevokeByAuthContext(r)
       PROVE  Frozen
  BY <1>11 DEF RevokeByAuthContext
<1>12. ASSUME NEW r \in Req, CallFails(r)
       PROVE  Frozen
  BY <1>12 DEF CallFails
<1>13. CASE Administer
  BY <1>13 DEF Administer
<1>14. CASE Crash
  BY <1>14 DEF Crash
<1>15. CASE UNCHANGED vars
  BY <1>15 DEF vars
<1>. QED
  BY <1>1, <1>2, <1>3, <1>4, <1>5, <1>6, <1>7, <1>8, <1>9, <1>10, <1>11, <1>12,
     <1>13, <1>14, <1>15
     DEF Next, Arrive, DatabaseAnswers, PeerAnswers

(* HandlersOK is inductive, given the types and the control.               *)
LEMMA HandlersStep ==
    ASSUME TypeOK, ControlOK, HandlersOK, [Next]_vars
    PROVE  HandlersOK'
<1> USE CredentialsAssumption
    DEF TypeOK, HandlersOK, HandlerOf, ControlOK, ControlOf, Negotiating, answered, goto, Local
<1>1. ASSUME NEW r \in Req, GuardBootstrap(r)
      PROVE  HandlersOK'
  BY <1>1 DEF GuardBootstrap
<1>2. ASSUME NEW r \in Req, GuardToken(r)
      PROVE  HandlersOK'
  <2>1. /\ pc[r] = "idle" /\ pc'[r] \in {"update", "revoke", "unauthorized"}
        /\ \A s \in Req \ {r} : req'[s] = req[s] /\ pc'[s] = pc[s]
        /\ UNCHANGED <<loc, issued>>
    BY <1>2 DEF GuardToken, FirstAwait
  <2>2. pc'[r] = "revoke" => \E q \in Party : req'[r].auth \in Held(q)
    BY <1>2 DEF GuardToken, FirstAwait
  <2>3. pc'[r] = "revoke" => req'[r].auth # Null
    BY <2>2 DEF Held
  <2>. QED
    BY <2>1, <2>3
<1>3. ASSUME NEW r \in Req, GetCredentials(r)
      PROVE  HandlersOK'
  <2>1. CASE UNCHANGED loc
    BY <1>3, <2>1 DEF GetCredentials
  <2>2. ASSUME NEW new \in Fresh, goto(r, "ok"),
               loc' = [loc EXCEPT ![r].token = new],
               issued' = issued \cup {new}
        PROVE  HandlersOK'
    <3>1. /\ req'[r].method = "GET"
          /\ \A s \in Req \ {r} : req'[s] = req[s]
      BY <1>3 DEF GetCredentials
    <3>2. pc[r] = "idle" /\ pc' = [pc EXCEPT ![r] = "ok"]
      BY <1>3, <2>2 DEF GetCredentials
    <3>3. /\ loc'[r].token = new /\ loc'[r].committed = loc[r].committed
          /\ \A s \in Req \ {r} : loc'[s] = loc[s]
      BY <2>2
    <3>4. ~loc[r].committed
      BY <3>2
    <3>. QED
      BY <2>2, <3>1, <3>2, <3>3, <3>4 DEF Fresh
  <2>. QED
    BY <1>3, <2>1, <2>2 DEF GetCredentials
<1>4. ASSUME NEW r \in Req, UpsertFromIncomingCredentials(r)
      PROVE  HandlersOK'
  BY <1>4 DEF UpsertFromIncomingCredentials
<1>5. ASSUME NEW r \in Req, UpdateFromIncomingCredentials(r)
      PROVE  HandlersOK'
  <2>1. /\ pc[r] = "update" /\ UNCHANGED <<req, loc, issued>>
        /\ pc' = [pc EXCEPT ![r] = "reread"] \/ pc' = [pc EXCEPT ![r] = "failed"]
    BY <1>5 DEF UpdateFromIncomingCredentials
  <2>. QED
    BY <2>1
<1>6. ASSUME NEW r \in Req, RereadPeer(r)
      PROVE  HandlersOK'
  BY <1>6 DEF RereadPeer
<1>7. ASSUME NEW r \in Req, FetchVersions(r)
      PROVE  HandlersOK'
  <2>1. /\ \A s \in Req : /\ loc'[s].token = loc[s].token
                           /\ loc'[s].committed = loc[s].committed
        /\ pc[r] = "versions" /\ pc'[r] \in {"details", "failed"}
        /\ \A s \in Req \ {r} : pc'[s] = pc[s]
        /\ UNCHANGED <<req, issued>>
    <3>1. \/ loc' = loc
          \/ \E v \in Version : loc' = [loc EXCEPT ![r].version = v]
      BY <1>7 DEF FetchVersions, Version
    <3>2. /\ pc[r] = "versions"
          /\ \/ pc' = [pc EXCEPT ![r] = "details"]
             \/ pc' = [pc EXCEPT ![r] = "failed"]
          /\ UNCHANGED <<req, issued>>
      BY <1>7 DEF FetchVersions
    <3>3. /\ pc[r] = "versions" /\ pc'[r] \in {"details", "failed"}
          /\ \A s \in Req \ {r} : pc'[s] = pc[s]
      BY <3>2
    <3>4. \A s \in Req : /\ loc'[s].token = loc[s].token
                         /\ loc'[s].committed = loc[s].committed
      BY <3>1
    <3>. QED
      BY ONLY <3>2, <3>3, <3>4
  <2>. QED
    BY <2>1
<1>8. ASSUME NEW r \in Req, FetchDetails(r)
      PROVE  HandlersOK'
  <2>1. PICK l \in Listings, new \in Fresh :
           /\ loc' = [loc EXCEPT ![r].listing = l, ![r].token = new]
           /\ issued' = issued \cup {new}
    BY <1>8 DEF FetchDetails
  <2>2. /\ loc'[r].token = new /\ loc'[r].committed = loc[r].committed
        /\ \A s \in Req \ {r} : loc'[s] = loc[s]
    BY <2>1
  <2>3. /\ pc[r] = "details" /\ pc'[r] = "commit" /\ req' = req
        /\ \A s \in Req \ {r} : pc'[s] = pc[s]
    BY <1>8 DEF FetchDetails
  <2>4. new \notin issued /\ new # Null
    BY <2>1 DEF Fresh
  <2>5. ~loc[r].committed
    BY <2>3
  <2>6. ASSUME NEW s \in Req
        PROVE  HandlerOf(s)'
    BY <2>1, <2>2, <2>3, <2>4, <2>5
  <2>. QED
    BY <2>6
<1>9. ASSUME NEW r \in Req, SetPeerTokenForUs(r)
      PROVE  HandlersOK'
  <2>1. CASE DuplicateKey(r)
    BY <1>9, <2>1 DEF SetPeerTokenForUs
  <2>2. CASE ~DuplicateKey(r)
    <3>1. /\ pc[r] = "commit" /\ UNCHANGED <<req, issued>>
          /\ pc'[r] \in {"mark", "ok", "failed"}
          /\ \A s \in Req \ {r} : pc'[s] = pc[s] /\ loc'[s] = loc[s]
      BY <1>9, <2>2 DEF SetPeerTokenForUs
    <3>2. loc'[r].token = loc[r].token /\ loc'[r].committed
      BY <1>9, <2>2 DEF SetPeerTokenForUs
    <3>3. req[r].method \in {"POST", "PUT"} /\ loc[r].token # Null
      BY <3>1
    <3>4. \A s \in Req : loc'[s].token = loc[s].token
      BY <3>1, <3>2
    <3>5. ASSUME NEW s \in Req, s # r
          PROVE  HandlerOf(s)'
      <4>1. pc'[s] = pc[s] /\ loc'[s].committed = loc[s].committed
        BY <3>1, <3>5
      <4>. QED
        BY <3>1, <3>4, <3>5, <4>1
    <3>6. HandlerOf(r)'
      BY <3>1, <3>2, <3>3, <3>4
    <3>. QED
      BY <3>5, <3>6
  <2>. QED
    BY <2>1, <2>2
<1>10. ASSUME NEW r \in Req, MarkTokenAsUsed(r)
       PROVE  HandlersOK'
  BY <1>10 DEF MarkTokenAsUsed
<1>11. ASSUME NEW r \in Req, RevokeByAuthContext(r)
       PROVE  HandlersOK'
  BY <1>11 DEF RevokeByAuthContext
<1>12. ASSUME NEW r \in Req, CallFails(r)
       PROVE  HandlersOK'
  BY <1>12 DEF CallFails, InFlight
<1>13. CASE Administer
  BY <1>13 DEF Administer
<1>14. CASE Crash
  BY <1>14 DEF Crash, InFlight
<1>15. CASE UNCHANGED vars
  BY <1>15 DEF vars
<1>. QED
  BY <1>1, <1>2, <1>3, <1>4, <1>5, <1>6, <1>7, <1>8, <1>9, <1>10, <1>11, <1>12,
     <1>13, <1>14, <1>15
     DEF Next, Arrive, DatabaseAnswers, PeerAnswers

-----------------------------------------------------------------------------
(* The four things a step may do to the row of p: nothing; what a POST or  *)
(* PUT begins with; what it ends with; what a DELETE does.                 *)
BeginsRewrite(p) ==
    /\ peer'[p].token = peer[p].token
    /\ peer'[p].version = peer[p].version
    /\ peer'[p].endpoints = peer[p].endpoints
    /\ peer'[p].status = "PENDING"
    /\ \E r \in Req : /\ Rewrites(r, p)
                      /\ pc[r] \in {"upsert", "update"}
                      /\ pc'[r] \in {"versions", "reread", "failed"}

Commits(p) ==
    \E r \in Req : /\ Rotates(r, p)
                   /\ pc[r] = "commit" /\ pc'[r] \in {"mark", "ok", "failed"}
                   /\ peer'[p] = RegisteredRow(r)
                   /\ loc'[r] = [loc[r] EXCEPT !.committed = TRUE]

Revokes(p) ==
    /\ peer'[p] = [peer[p] EXCEPT !.status = "REVOKED"]
    /\ \E r \in Req : /\ pc[r] = "revoke" /\ pc'[r] \in {"ok", "failed"}
                      /\ p \in FindByToken(req[r].auth)

RowEvolves(p) ==
    peer'[p] = peer[p] \/ BeginsRewrite(p) \/ Commits(p) \/ Revokes(p)

LEMMA RowStep ==
    ASSUME TypeOK, ControlOK, [Next]_vars
    PROVE  \A p \in Party : RowEvolves(p)
<1> USE DEF TypeOK, answered, goto, RowEvolves
<1> DEFINE Evolves == \A p \in Party : RowEvolves(p)
<1>1. ASSUME NEW x \in Req, GuardBootstrap(x)
      PROVE  Evolves
  BY <1>1 DEF GuardBootstrap
<1>2. ASSUME NEW x \in Req, GuardToken(x)
      PROVE  Evolves
  BY <1>2 DEF GuardToken
<1>3. ASSUME NEW x \in Req, GetCredentials(x)
      PROVE  Evolves
  BY <1>3 DEF GetCredentials
<1>4. ASSUME NEW x \in Req, UpsertFromIncomingCredentials(x)
      PROVE  Evolves
  <2>1. /\ pc[x] = "upsert" /\ pc'[x] \in {"versions", "failed"}
        /\ req[x].method = "POST"
        /\ peer' = [peer EXCEPT
                      ![req[x].party] = Rewritten(req[x].party, req[x].creds)]
    BY <1>4 DEF UpsertFromIncomingCredentials, ControlOK, ControlOf
  <2>2. ASSUME NEW p \in Party, p = req[x].party
        PROVE  BeginsRewrite(p)
    BY <2>1, <2>2 DEF BeginsRewrite, Rewritten, PeerRow, Rewrites, Rotates
  <2>. QED
    BY <2>1, <2>2
<1>5. ASSUME NEW x \in Req, UpdateFromIncomingCredentials(x)
      PROVE  Evolves
  <2>1. /\ pc[x] = "update" /\ pc'[x] \in {"reread", "failed"}
        /\ req[x].method = "PUT" /\ req[x].creds \in Creds
    BY <1>5 DEF UpdateFromIncomingCredentials, ControlOK, ControlOf
  <2>2. ASSUME NEW p \in Party
        PROVE  \/ peer'[p] = peer[p]
               \/ /\ \E c \in Creds : peer'[p] = Rewritten(p, c)
                  /\ req[x].party \in {p, Nobody}
    BY <1>5, <2>1 DEF UpdateFromIncomingCredentials
  <2>3. ASSUME NEW p \in Party, NEW c \in Creds, peer'[p] = Rewritten(p, c),
               req[x].party \in {p, Nobody}
        PROVE  BeginsRewrite(p)
    BY <2>1, <2>3 DEF BeginsRewrite, Rewritten, PeerRow, Rewrites, Rotates
  <2>. QED
    BY <2>2, <2>3
<1>6. ASSUME NEW x \in Req, RereadPeer(x)
      PROVE  Evolves
  BY <1>6 DEF RereadPeer
<1>7. ASSUME NEW x \in Req, FetchVersions(x)
      PROVE  Evolves
  BY <1>7 DEF FetchVersions
<1>8. ASSUME NEW x \in Req, FetchDetails(x)
      PROVE  Evolves
  BY <1>8 DEF FetchDetails
<1>9. ASSUME NEW x \in Req, SetPeerTokenForUs(x)
      PROVE  Evolves
  <2>1. CASE DuplicateKey(x)
    BY <1>9, <2>1 DEF SetPeerTokenForUs
  <2>2. CASE ~DuplicateKey(x)
    <3>1. /\ pc[x] = "commit" /\ pc'[x] \in {"mark", "ok", "failed"}
          /\ peer' = [peer EXCEPT ![req[x].party] = RegisteredRow(x)]
          /\ loc'[x] = [loc[x] EXCEPT !.committed = TRUE]
      BY <1>9, <2>2 DEF SetPeerTokenForUs
    <3>2. req[x].method \in {"POST", "PUT"} /\ req[x].party \in Party
      BY <3>1 DEF ControlOK, ControlOf, Negotiating
    <3>3. ASSUME NEW p \in Party, p = req[x].party
          PROVE  Commits(p)
      BY <3>1, <3>2, <3>3 DEF Commits, Rotates
    <3>. QED
      BY <3>1, <3>3
  <2>. QED
    BY <2>1, <2>2
<1>10. ASSUME NEW x \in Req, MarkTokenAsUsed(x)
       PROVE  Evolves
  BY <1>10 DEF MarkTokenAsUsed
<1>11. ASSUME NEW x \in Req, RevokeByAuthContext(x)
       PROVE  Evolves
  <2>1. ASSUME NEW p \in Party, p \in FindByToken(req[x].auth)
        PROVE  Revokes(p)
    BY <1>11, <2>1 DEF RevokeByAuthContext, Revokes
  <2>. QED
    BY <1>11, <2>1 DEF RevokeByAuthContext
<1>12. ASSUME NEW x \in Req, CallFails(x)
       PROVE  Evolves
  BY <1>12 DEF CallFails
<1>13. CASE Administer
  BY <1>13 DEF Administer
<1>14. CASE Crash
  BY <1>14 DEF Crash
<1>15. CASE UNCHANGED vars
  BY <1>15 DEF vars
<1>. QED
  BY <1>1, <1>2, <1>3, <1>4, <1>5, <1>6, <1>7, <1>8, <1>9, <1>10, <1>11, <1>12,
     <1>13, <1>14, <1>15
     DEF Next, Arrive, DatabaseAnswers, PeerAnswers

(* A granted token stays granted: nothing of its handler changes any more. *)
LEMMA GrantedStays ==
    ASSUME TypeOK, HandlersOK, [Next]_vars,
           NEW s \in Req, NEW p, NEW t, Granted(s, p, t)
    PROVE  Granted(s, p, t)' /\ req'[s] = req[s] /\ loc'[s] = loc[s]
<1>1. loc[s].committed /\ pc[s] # "idle"
  BY DEF Granted, HandlersOK, HandlerOf
<1>2. req'[s] = req[s] /\ loc'[s] = loc[s]
  BY <1>1, HistoryStep
<1>. QED
  BY <1>2 DEF Granted, Rotates

(* Every row keeps the mark of one committed handler.                      *)
LEMMA RowsStep ==
    ASSUME TypeOK, ControlOK, HandlersOK, RowsOK, [Next]_vars
    PROVE  RowsOK'
<1> SUFFICES ASSUME NEW p \in Party
             PROVE  RowOf(p)'
  BY DEF RowsOK
<1>1. RowOf(p) /\ RowEvolves(p)
  BY RowStep DEF RowsOK
<1>2. CASE /\ peer'[p].token = peer[p].token
           /\ peer'[p].version = peer[p].version
           /\ peer'[p].endpoints = peer[p].endpoints
           /\ peer'[p].status = "REGISTERED" => peer[p].status = "REGISTERED"
  <2>1. CASE peer[p].token = Null
    BY <1>1, <1>2, <2>1 DEF RowOf
  <2>2. CASE peer[p].token # Null
    <3>1. PICK r \in Req : /\ Granted(r, p, peer[p].token)
                           /\ peer[p].version = loc[r].version
                           /\ peer[p].endpoints = NewEndpoints(r)
      BY <1>1, <2>2 DEF RowOf
    <3>2. req'[r] = req[r] /\ loc'[r] = loc[r]
      BY <3>1, GrantedStays
    <3>. QED
      BY <1>2, <2>2, <3>1, <3>2 DEF RowOf, NewEndpoints, Granted, Rotates
  <2>. QED
    BY <2>1, <2>2
<1>3. CASE BeginsRewrite(p)
  BY <1>2, <1>3 DEF BeginsRewrite
<1>4. CASE Commits(p)
  <2>1. PICK r \in Req : /\ Rotates(r, p)
                         /\ pc[r] = "commit" /\ pc'[r] \in {"mark", "ok", "failed"}
                         /\ peer'[p] = RegisteredRow(r)
                         /\ loc'[r] = [loc[r] EXCEPT !.committed = TRUE]
    BY <1>4 DEF Commits
  <2>2. loc[r].token # Null /\ req'[r] = req[r]
    BY <2>1, HistoryStep DEF HandlersOK, HandlerOf
  <2>3. /\ loc'[r].token = loc[r].token /\ loc'[r].committed
        /\ loc'[r].version = loc[r].version /\ NewEndpoints(r)' = NewEndpoints(r)
    BY <2>1 DEF TypeOK, Local, NewEndpoints
  <2>4. /\ peer'[p].token = loc[r].token /\ peer'[p].version = loc[r].version
        /\ peer'[p].endpoints = NewEndpoints(r)
    BY <2>1 DEF RegisteredRow, Rotates, TypeOK, PeerRow
  <2>. QED
    BY <2>1, <2>2, <2>3, <2>4 DEF RowOf, Granted, Rotates
<1>5. CASE Revokes(p)
  <2>1. peer[p] \in PeerRow
    BY DEF TypeOK
  <2>. QED
    BY <1>2, <1>5, <2>1 DEF Revokes, PeerRow
<1>. QED
  BY <1>1, <1>2, <1>3, <1>4, <1>5 DEF RowEvolves

-----------------------------------------------------------------------------
(* Whoever presents a token learnt it from an earlier answer.              *)
LEMMA PresentStep ==
    ASSUME TypeOK, [Next]_vars
    PROVE  \A r \in Req : \/ req'[r] = req[r]
                         \/ req'[r].auth = Null
                         \/ req'[r].auth \in Held(req'[r].party)
<1> USE DEF TypeOK
<1> DEFINE Learnt == \A r \in Req : \/ req'[r] = req[r]
                                   \/ req'[r].auth = Null
                                   \/ req'[r].auth \in Held(req'[r].party)
<1>1. ASSUME NEW x \in Req, GuardBootstrap(x)
      PROVE  Learnt
  BY <1>1 DEF GuardBootstrap
<1>2. ASSUME NEW x \in Req, GuardToken(x)
      PROVE  Learnt
  BY <1>2 DEF GuardToken
<1>3. ASSUME NEW x \in Req, GetCredentials(x)
      PROVE  Learnt
  BY <1>3 DEF GetCredentials
<1>4. ASSUME NEW x \in Req, UpsertFromIncomingCredentials(x)
      PROVE  Learnt
  BY <1>4 DEF UpsertFromIncomingCredentials
<1>5. ASSUME NEW x \in Req, UpdateFromIncomingCredentials(x)
      PROVE  Learnt
  BY <1>5 DEF UpdateFromIncomingCredentials
<1>6. ASSUME NEW x \in Req, RereadPeer(x)
      PROVE  Learnt
  BY <1>6 DEF RereadPeer
<1>7. ASSUME NEW x \in Req, FetchVersions(x)
      PROVE  Learnt
  BY <1>7 DEF FetchVersions
<1>8. ASSUME NEW x \in Req, FetchDetails(x)
      PROVE  Learnt
  BY <1>8 DEF FetchDetails
<1>9. ASSUME NEW x \in Req, SetPeerTokenForUs(x)
      PROVE  Learnt
  BY <1>9 DEF SetPeerTokenForUs
<1>10. ASSUME NEW x \in Req, MarkTokenAsUsed(x)
       PROVE  Learnt
  BY <1>10 DEF MarkTokenAsUsed
<1>11. ASSUME NEW x \in Req, RevokeByAuthContext(x)
       PROVE  Learnt
  BY <1>11 DEF RevokeByAuthContext
<1>12. ASSUME NEW x \in Req, CallFails(x)
       PROVE  Learnt
  BY <1>12 DEF CallFails
<1>13. CASE Administer
  BY <1>13 DEF Administer
<1>14. CASE Crash
  BY <1>14 DEF Crash
<1>15. CASE UNCHANGED vars
  BY <1>15 DEF vars
<1>. QED
  BY <1>1, <1>2, <1>3, <1>4, <1>5, <1>6, <1>7, <1>8, <1>9, <1>10, <1>11, <1>12,
     <1>13, <1>14, <1>15
     DEF Next, Arrive, DatabaseAnswers, PeerAnswers

(* The commit behind a presented token is not undone.                      *)
LEMMA PresentedStep ==
    ASSUME TypeOK, HandlersOK, PresentedOK, [Next]_vars
    PROVE  PresentedOK'
<1>1. SUFFICES ASSUME NEW r \in Req, req'[r].auth # Null
                PROVE  \E s \in Req : Granted(s, req[r].party, req[r].auth)'
  BY DEF PresentedOK
<1>2. CASE req'[r] = req[r]
  <2>1. PICK s \in Req : Granted(s, req[r].party, req[r].auth)
    BY <1>1, <1>2 DEF PresentedOK
  <2>2. req'[s] = req[s] /\ loc'[s] = loc[s]
    BY <2>1, GrantedStays
  <2>. QED
    BY <1>2, <2>1, <2>2 DEF Granted, Rotates
<1>3. CASE req'[r].auth \in Held(req'[r].party)
  <2>1. PICK q \in Req : /\ pc[q] = "ok"
                         /\ req[q].party = req'[r].party
                         /\ req[q].method \in {"POST", "PUT"}
                         /\ loc[q].token = req'[r].auth
    BY <1>3 DEF Held
  <2>2. loc[q].committed
    BY <2>1 DEF HandlersOK, HandlerOf
  <2>3. Granted(q, req'[r].party, req'[r].auth)
    BY <2>1, <2>2 DEF Granted, Rotates
  <2>4. req'[q] = req[q] /\ loc'[q] = loc[q]
    BY <2>3, GrantedStays
  <2>. QED
    BY <2>3, <2>4 DEF Granted, Rotates
<1>. QED
  BY <1>1, <1>2, <1>3, PresentStep

-----------------------------------------------------------------------------
(* A handler that has rewritten its row but not committed stays the cause  *)
(* of PENDING, until its transaction makes the row REGISTERED.             *)
Unfinished == {"reread", "versions", "details", "commit", "failed", "lost"}

LEMMA CauseStep ==
    ASSUME TypeOK, ControlOK, [Next]_vars, NEW r \in Req,
           ~loc[r].committed, pc[r] \in Unfinished
    PROVE  \/ ~loc'[r].committed /\ pc'[r] \in Unfinished
           \/ /\ req[r].party \in Party
              /\ peer'[req[r].party].status = "REGISTERED"
<1> USE DEF TypeOK, answered, goto, Unfinished
<1> DEFINE Remains == \/ ~loc'[r].committed /\ pc'[r] \in Unfinished
                      \/ /\ req[r].party \in Party
                         /\ peer'[req[r].party].status = "REGISTERED"
<1>1. ASSUME NEW x \in Req, GuardBootstrap(x)
      PROVE  Remains
  BY <1>1 DEF GuardBootstrap
<1>2. ASSUME NEW x \in Req, GuardToken(x)
      PROVE  Remains
  BY <1>2 DEF GuardToken
<1>3. ASSUME NEW x \in Req, GetCredentials(x)
      PROVE  Remains
  BY <1>3 DEF GetCredentials
<1>4. ASSUME NEW x \in Req, UpsertFromIncomingCredentials(x)
      PROVE  Remains
  BY <1>4 DEF UpsertFromIncomingCredentials
<1>5. ASSUME NEW x \in Req, UpdateFromIncomingCredentials(x)
      PROVE  Remains
  BY <1>5 DEF UpdateFromIncomingCredentials
<1>6. ASSUME NEW x \in Req, RereadPeer(x)
      PROVE  Remains
  BY <1>6 DEF RereadPeer
<1>7. ASSUME NEW x \in Req, FetchVersions(x)
      PROVE  Remains
  <2>1. loc'[r].committed = loc[r].committed
    BY <1>7 DEF FetchVersions, Local
  <2>2. pc' = [pc EXCEPT ![x] = "details"] \/ pc' = [pc EXCEPT ![x] = "failed"]
    BY <1>7 DEF FetchVersions
  <2>. QED
    BY <2>1, <2>2
<1>8. ASSUME NEW x \in Req, FetchDetails(x)
      PROVE  Remains
  <2>1. loc'[r].committed = loc[r].committed
    BY <1>8 DEF FetchDetails, Local
  <2>. QED
    BY <1>8, <2>1 DEF FetchDetails
<1>9. ASSUME NEW x \in Req, SetPeerTokenForUs(x)
      PROVE  Remains
  <2>1. CASE DuplicateKey(x) \/ x # r
    BY <1>9, <2>1 DEF SetPeerTokenForUs
  <2>2. CASE ~DuplicateKey(x) /\ x = r
    <3>1. /\ pc[r] = "commit"
          /\ peer' = [peer EXCEPT ![req[r].party] = RegisteredRow(r)]
      BY <1>9, <2>2 DEF SetPeerTokenForUs
    <3>2. req[r].party \in Party
      BY <3>1 DEF ControlOK, ControlOf
    <3>. QED
      BY <3>1, <3>2 DEF RegisteredRow, PeerRow
  <2>. QED
    BY <2>1, <2>2
<1>10. ASSUME NEW x \in Req, MarkTokenAsUsed(x)
       PROVE  Remains
  BY <1>10 DEF MarkTokenAsUsed
<1>11. ASSUME NEW x \in Req, RevokeByAuthContext(x)
       PROVE  Remains
  BY <1>11 DEF RevokeByAuthContext
<1>12. ASSUME NEW x \in Req, CallFails(x)
       PROVE  Remains
  BY <1>12 DEF CallFails
<1>13. CASE Administer
  BY <1>13 DEF Administer
<1>14. CASE Crash
  BY <1>14 DEF Crash
<1>15. CASE UNCHANGED vars
  BY <1>15 DEF vars
<1>. QED
  BY <1>1, <1>2, <1>3, <1>4, <1>5, <1>6, <1>7, <1>8, <1>9, <1>10, <1>11, <1>12,
     <1>13, <1>14, <1>15
     DEF Next, Arrive, DatabaseAnswers, PeerAnswers

(* The explanation of a PENDING row survives every step, or the row ceases *)
(* to be PENDING.                                                          *)
LEMMA PendingStep ==
    ASSUME TypeOK, ControlOK, HandlersOK, HandlersOK', PendingHasACause, [Next]_vars
    PROVE  PendingHasACause'
<1> SUFFICES ASSUME NEW p \in Party, peer'[p].status = "PENDING"
             PROVE  \E r \in Req : /\ Rewrites(r, p)'
                                   /\ ~loc'[r].committed
                                   /\ pc'[r] \in Unfinished
  BY DEF PendingHasACause, Unfinished
<1>1. RowEvolves(p) /\ peer[p] \in PeerRow
  BY RowStep DEF TypeOK
<1>2. CASE peer'[p] = peer[p]
  <2>1. PICK r \in Req : /\ Rewrites(r, p)
                         /\ ~loc[r].committed
                         /\ pc[r] \in Unfinished
    BY <1>2 DEF PendingHasACause, Unfinished
  <2>2. req'[r] = req[r]
    BY <2>1, HistoryStep DEF Unfinished
  <2>3. req[r].party \in {p, Nobody}
    BY <2>1 DEF Rewrites, Rotates
  <2>4. ~loc'[r].committed /\ pc'[r] \in Unfinished
    BY <2>1, <2>3, CauseStep, BootAssumption
  <2>. QED
    BY <2>1, <2>2, <2>4 DEF Rewrites, Rotates
<1>3. CASE BeginsRewrite(p)
  <2>1. PICK r \in Req : /\ Rewrites(r, p)
                         /\ pc[r] \in {"upsert", "update"}
                         /\ pc'[r] \in {"versions", "reread", "failed"}
    BY <1>3 DEF BeginsRewrite
  <2>2. req'[r] = req[r]
    BY <2>1, HistoryStep
  <2>3. ~loc'[r].committed
    BY <2>1, HistoryStep DEF HandlersOK, HandlerOf
  <2>. QED
    BY <2>1, <2>2, <2>3 DEF Rewrites, Rotates, Unfinished
<1>4. ~Commits(p)
  BY <1>1 DEF Commits, RegisteredRow, Rotates, PeerRow
<1>5. ~Revokes(p)
  BY <1>1 DEF Revokes, PeerRow
<1>. QED
  BY <1>1, <1>2, <1>3, <1>4, <1>5 DEF RowEvolves

-----------------------------------------------------------------------------
(* Requests touch the table of bootstrap tokens in one place, and a POST   *)
(* is answered with success only there.                                    *)
Marks(r) == /\ pc[r] = "mark" /\ pc'[r] \in {"ok", "failed"}
            /\ MarkAsUsed(req[r].boot, req[r].party)

LEMMA MarkStep ==
    ASSUME TypeOK, ControlOK, [Next]_vars
    PROVE  /\ UNCHANGED bootVars \/ AdminNext \/ \E r \in Req : Marks(r)
           /\ \A r \in Req : pc'[r] = "ok" /\ req'[r].method = "POST"
                => pc[r] = "ok" \/ Marks(r)
<1> USE DEF TypeOK, answered, goto, ControlOK, ControlOf
<1> DEFINE Once == /\ UNCHANGED bootVars \/ AdminNext \/ \E r \in Req : Marks(r)
                   /\ \A r \in Req : pc'[r] = "ok" /\ req'[r].method = "POST"
                        => pc[r] = "ok" \/ Marks(r)
<1>1. ASSUME NEW x \in Req, GuardBootstrap(x)
      PROVE  Once
  BY <1>1 DEF GuardBootstrap
<1>2. ASSUME NEW x \in Req, GuardToken(x)
      PROVE  Once
  BY <1>2 DEF GuardToken, FirstAwait
<1>3. ASSUME NEW x \in Req, GetCredentials(x)
      PROVE  Once
  BY <1>3 DEF GetCredentials
<1>4. ASSUME NEW x \in Req, UpsertFromIncomingCredentials(x)
      PROVE  Once
  BY <1>4 DEF UpsertFromIncomingCredentials
<1>5. ASSUME NEW x \in Req, UpdateFromIncomingCredentials(x)
      PROVE  Once
  BY <1>5 DEF UpdateFromIncomingCredentials
<1>6. ASSUME NEW x \in Req, RereadPeer(x)
      PROVE  Once
  BY <1>6 DEF RereadPeer
<1>7. ASSUME NEW x \in Req, FetchVersions(x)
      PROVE  Once
  BY <1>7 DEF FetchVersions
<1>8. ASSUME NEW x \in Req, FetchDetails(x)
      PROVE  Once
  BY <1>8 DEF FetchDetails
<1>9. ASSUME NEW x \in Req, SetPeerTokenForUs(x)
      PROVE  Once
  BY <1>9 DEF SetPeerTokenForUs
<1>10. ASSUME NEW x \in Req, MarkTokenAsUsed(x)
       PROVE  Once
  <2>1. /\ pc[x] = "mark" /\ pc'[x] \in {"ok", "failed"} /\ req' = req
        /\ \A r \in Req \ {x} : pc'[r] = pc[r]
    BY <1>10 DEF MarkTokenAsUsed
  <2>2. Marks(x) \/ (UNCHANGED bootVars /\ pc'[x] = "failed")
    BY <1>10, <2>1 DEF MarkTokenAsUsed, Marks
  <2>. QED
    BY <2>1, <2>2
<1>11. ASSUME NEW x \in Req, RevokeByAuthContext(x)
       PROVE  Once
  BY <1>11 DEF RevokeByAuthContext
<1>12. ASSUME NEW x \in Req, CallFails(x)
       PROVE  Once
  BY <1>12 DEF CallFails
<1>13. CASE Administer
  BY <1>13 DEF Administer
<1>14. CASE Crash
  BY <1>14 DEF Crash
<1>15. CASE UNCHANGED vars
  BY <1>15 DEF vars, bootVars
<1>. QED
  BY <1>1, <1>2, <1>3, <1>4, <1>5, <1>6, <1>7, <1>8, <1>9, <1>10, <1>11, <1>12,
     <1>13, <1>14, <1>15
     DEF Next, Arrive, DatabaseAnswers, PeerAnswers

(* What the properties of BootstrapTokens say of a step holds of every     *)
(* step of this system.                                                    *)
LEMMA BootEvolution ==
    ASSUME TypeOK, ControlOK, [Next]_vars
    PROVE  BootEvolves
<1>1. ASSUME NEW r \in Req, Marks(r)
      PROVE  \E a \in BootToken, p \in Party : MarkAsUsed(a, p)
  BY <1>1 DEF Marks, ControlOK, ControlOf
<1>. QED
  BY <1>1, MarkStep, BootStep DEF TypeOK

(* A row marked by a party has that party's committed registration behind  *)
(* it.                                                                     *)
LEMMA SpentStep ==
    ASSUME TypeOK, ControlOK, HandlersOK, SpentOnlyOnRegistration, [Next]_vars
    PROVE  SpentOnlyOnRegistration'
<1> SUFFICES ASSUME NEW a \in BootToken, boot'[a].usedBy \in Party
             PROVE  \E r \in Req : /\ req'[r].method = "POST" /\ req'[r].boot = a
                                   /\ req'[r].party = boot'[a].usedBy
                                   /\ loc'[r].committed
  BY DEF SpentOnlyOnRegistration
<1>1. ASSUME NEW r \in Req, loc[r].committed
      PROVE  req'[r] = req[r] /\ loc'[r] = loc[r]
  BY <1>1, HistoryStep DEF HandlersOK, HandlerOf
<1>2. CASE boot'[a].usedBy = boot[a].usedBy
  BY <1>1, <1>2 DEF SpentOnlyOnRegistration
<1>3. ASSUME NEW r \in Req, Marks(r)
      PROVE  \/ boot'[a].usedBy = boot[a].usedBy
             \/ /\ req[r].method = "POST" /\ req[r].boot = a
                /\ req[r].party = boot'[a].usedBy
                /\ loc[r].committed
  BY <1>3 DEF Marks, MarkAsUsed, TypeOK, BootTypeOK, BootRow, ControlOK, ControlOf,
              HandlersOK, HandlerOf
<1>4. CASE AdminNext
  BY <1>2, <1>4, AdminNamesNoParty DEF TypeOK
<1>5. CASE UNCHANGED bootVars
  BY <1>2, <1>5 DEF bootVars
<1>. QED
  BY <1>1, <1>2, <1>3, <1>4, <1>5, MarkStep

(* The bootstrap token of an answered POST is refused, and stays refused.  *)
LEMMA AnsweredStep ==
    ASSUME TypeOK, ControlOK, AnsweredPostSpentToken, [Next]_vars,
           HandlersOK
    PROVE  AnsweredPostSpentToken'
<1> SUFFICES ASSUME NEW r \in Req, pc'[r] = "ok", req'[r].method = "POST"
             PROVE  ~Valid(req[r].boot)'
  BY DEF AnsweredPostSpentToken
<1>1. CASE pc[r] = "ok"
  <2>1. req'[r] = req[r]
    BY <1>1, HistoryStep
  <2>2. /\ req[r].boot \in BootToken /\ ~Valid(req[r].boot)
        /\ boot[req[r].boot].stored # "NEVER"
    BY <1>1, <2>1 DEF AnsweredPostSpentToken, ControlOK, ControlOf
  <2>3. \A a \in BootToken :
           boot[a].stored # "NEVER" /\ ~Valid(a) => ~Valid(a)'
    BY BootEvolution DEF BootEvolves
  <2>. QED
    BY <2>1, <2>2, <2>3 DEF Valid, Stored, Used, Expired
<1>2. CASE Marks(r)
  <2>1. req'[r] = req[r] /\ req[r].boot \in BootToken /\ req[r].party \in Party
    BY <1>2, HistoryStep DEF Marks, ControlOK, ControlOf
  <2>2. boot'[req[r].boot].usedBy = req[r].party
    BY <1>2, <2>1 DEF Marks, MarkAsUsed, TypeOK, BootTypeOK, BootRow
  <2>3. req[r].party # Nobody
    BY <2>1, BootAssumption
  <2>. QED
    BY <2>1, <2>2, <2>3 DEF Valid, Used
<1>. QED
  BY <1>1, <1>2, MarkStep

-----------------------------------------------------------------------------
(***************************************************************************)
(* The inductive invariant: every conjunct but the last three is there to  *)
(* carry a property from one step to the next.                             *)
(***************************************************************************)
Inductive ==
    /\ TypeOK
    /\ ControlOK
    /\ HandlersOK
    /\ PresentedOK
    /\ RowsOK
    /\ PendingHasACause
    /\ SpentOnlyOnRegistration
    /\ AnsweredPostSpentToken

(* The empty tables satisfy the invariant.                                 *)
LEMMA InductiveInit == Init => Inductive
<1> SUFFICES ASSUME Init
             PROVE  Inductive
  OBVIOUS
<1> USE DEF Init, BootInit, NoRequest, NoLocal
<1>1. TypeOK
  <2>1. BootTypeOK
    BY DEF BootTypeOK, BootRow
  <2>2. loc \in [Req -> Local]
    BY DEF Local, Version
  <2>3. peer \in [Party -> PeerRow]
    BY DEF PeerRow, Version
  <2>. QED
    BY <2>1, <2>2, <2>3 DEF TypeOK, Request
<1>2. ControlOK
  BY DEF ControlOK, ControlOf, Negotiating
<1>3. HandlersOK /\ PresentedOK
  BY DEF HandlersOK, HandlerOf, PresentedOK
<1>4. RowsOK
  BY DEF RowsOK, RowOf
<1>5. PendingHasACause
  BY DEF PendingHasACause
<1>6. SpentOnlyOnRegistration /\ AnsweredPostSpentToken
  BY BootAssumption DEF SpentOnlyOnRegistration, AnsweredPostSpentToken
<1>. QED
  BY <1>1, <1>2, <1>3, <1>4, <1>5, <1>6 DEF Inductive

(* Every step of the system preserves it.                                  *)
LEMMA InductiveStep == Inductive /\ [Next]_vars => Inductive'
<1> SUFFICES ASSUME Inductive, [Next]_vars
             PROVE  Inductive'
  OBVIOUS
<1> USE DEF Inductive
<1>1. TypeOK' /\ ControlOK'
  BY TypeStep, ControlStep
<1>2. HandlersOK' /\ PresentedOK'
  BY HandlersStep, PresentedStep
<1>3. RowsOK'
  BY RowsStep
<1>4. PendingHasACause'
  BY <1>2, PendingStep
<1>5. SpentOnlyOnRegistration' /\ AnsweredPostSpentToken'
  BY SpentStep, AnsweredStep
<1>. QED
  BY <1>1, <1>2, <1>3, <1>4, <1>5

(* All of it holds of every reachable state.                               *)
THEOREM Invariance == Spec => []Inductive
BY InductiveInit, InductiveStep, PTL DEF Spec

-----------------------------------------------------------------------------
(* The types of the tables and of the handlers' variables: no column ever  *)
(* holds a value the schema has no room for.                               *)
THEOREM TypeCorrect == Spec => []TypeOK
<1>1. Inductive => TypeOK
  BY DEF Inductive
<1>. QED
  BY <1>1, Invariance, PTL

(* A row's token was generated by a committed POST or PUT that names its   *)
(* party.                                                                  *)
THEOREM TokenProvenance == Spec => []TokenComesFromOwnCommit
<1>1. Inductive => TokenComesFromOwnCommit
  BY DEF Inductive, RowsOK, RowOf, Granted, TokenComesFromOwnCommit
<1>. QED
  BY <1>1, Invariance, PTL

(* No two rows share a token, without a unique index to see to it.         *)
THEOREM TokenUniqueness == Spec => []TokenIdentifiesPeer
<1>1. ASSUME Inductive, NEW p \in Party, NEW q \in Party,
             peer[p].token # Null, peer[p].token = peer[q].token
      PROVE  p = q
  <2>1. PICK r \in Req : Granted(r, p, peer[p].token)
    BY <1>1 DEF Inductive, RowsOK, RowOf
  <2>2. PICK s \in Req : Granted(s, q, peer[p].token)
    BY <1>1 DEF Inductive, RowsOK, RowOf
  <2>3. r = s
    BY <1>1, <2>1, <2>2 DEF Inductive, HandlersOK, HandlerOf, Granted
  <2>. QED
    BY <2>1, <2>2, <2>3 DEF Granted, Rotates
<1>2. Inductive => TokenIdentifiesPeer
  BY <1>1 DEF TokenIdentifiesPeer
<1>. QED
  BY <1>2, Invariance, PTL

(***************************************************************************)
(* The token that GET answers with opens nothing: getSelfPresentation      *)
(* generates it and stores it nowhere, and no row, whatever its party and  *)
(* whoever else is at work, has it or ever comes by it.                    *)
(***************************************************************************)
THEOREM SelfPresentationOpensNothing ==
    Spec => [](\A r \in Req : req[r].method = "GET" /\ loc[r].token \in Token
                 => ~Authenticates(loc[r].token))
<1>1. ASSUME Inductive, NEW r \in Req, req[r].method = "GET",
             loc[r].token \in Token, NEW p \in Party,
             peer[p].token = loc[r].token
      PROVE  FALSE
  <2>1. peer[p].token # Null
    BY <1>1, CredentialsAssumption
  <2>2. PICK s \in Req : Granted(s, p, peer[p].token)
    BY <1>1, <2>1 DEF Inductive, RowsOK, RowOf
  <2>3. s = r
    BY <1>1, <2>1, <2>2 DEF Inductive, HandlersOK, HandlerOf, Granted
  <2>. QED
    BY <1>1, <2>2, <2>3 DEF Granted, Rotates
<1>2. Inductive => \A r \in Req : req[r].method = "GET" /\ loc[r].token \in Token
                     => ~Authenticates(loc[r].token)
  BY <1>1 DEF Authenticates, FindByToken
<1>. QED
  BY <1>2, Invariance, PTL

(* A REGISTERED row is the outcome of one committed negotiation.           *)
THEOREM RegisteredRowsAreWhole == Spec => []RegisteredIsWhole
<1>1. Inductive => RegisteredIsWhole
  BY DEF Inductive, RowsOK, RowOf, Granted, RegisteredIsWhole
<1>. QED
  BY <1>1, Invariance, PTL

(* The endpoints of a row, whatever its status, are of one negotiation and *)
(* of the version in the row.                                              *)
THEOREM EndpointsAreOfOneNegotiation == Spec => []EndpointsOfOneNegotiation
<1>1. ASSUME Inductive, NEW p \in Party, NEW e \in peer[p].endpoints
      PROVE  /\ e.version = peer[p].version
             /\ \A f \in peer[p].endpoints : f.creds = e.creds
  <2>1. PICK r \in Req : /\ peer[p].version = loc[r].version
                         /\ peer[p].endpoints = NewEndpoints(r)
    BY <1>1 DEF Inductive, RowsOK, RowOf
  <2>2. \A f \in NewEndpoints(r) : /\ f.creds = loc[r].creds
                                   /\ f.version = loc[r].version
    BY DEF NewEndpoints
  <2>. QED
    BY <2>1, <2>2
<1>2. Inductive => EndpointsOfOneNegotiation
  BY <1>1 DEF EndpointsOfOneNegotiation
<1>. QED
  BY <1>2, Invariance, PTL

(* A PENDING row has an unfinished, failed or lost handler to blame.       *)
THEOREM PendingIsExplained == Spec => []PendingHasACause
<1>1. Inductive => PendingHasACause
  BY DEF Inductive
<1>. QED
  BY <1>1, Invariance, PTL

(* No bootstrap token is spent on a registration that did not commit.      *)
THEOREM NoTokenWasted == Spec => []SpentOnlyOnRegistration
<1>1. Inductive => SpentOnlyOnRegistration
  BY DEF Inductive
<1>. QED
  BY <1>1, Invariance, PTL

(* An answered registration has spent its bootstrap token.                 *)
THEOREM AnswerSpendsToken == Spec => []AnsweredPostSpentToken
<1>1. Inductive => AnsweredPostSpentToken
  BY DEF Inductive
<1>. QED
  BY <1>1, Invariance, PTL

-----------------------------------------------------------------------------
(* A token is stored in a row once.                                        *)
THEOREM RotationIsFinal == Spec => RotatedOutForGood
<1>1. ASSUME Inductive, Next, NEW p \in Party, peer'[p].token # peer[p].token,
             NEW r \in Req, loc[r].committed
      PROVE  loc[r].token # peer'[p].token
  <2>1. RowEvolves(p) /\ peer[p] \in PeerRow
    BY <1>1, RowStep DEF Inductive, TypeOK
  <2>2. Commits(p)
    BY <1>1, <2>1 DEF RowEvolves, BeginsRewrite, Revokes, PeerRow
  <2>3. PICK s \in Req : /\ pc[s] = "commit"
                         /\ peer'[p] = RegisteredRow(s) /\ Rotates(s, p)
    BY <2>2 DEF Commits
  <2>4. peer'[p].token = loc[s].token
    BY <2>1, <2>3 DEF RegisteredRow, Rotates, PeerRow
  <2>. QED
    BY <1>1, <2>3, <2>4 DEF Inductive, HandlersOK, HandlerOf
<1>2. Inductive /\ [Next]_vars =>
        [\A p \in Party : peer'[p].token # peer[p].token =>
           \A r \in Req : loc[r].committed => loc[r].token # peer'[p].token]_vars
  BY <1>1
<1>. QED
  BY <1>2, Invariance, PTL DEF Spec, RotatedOutForGood

(* A token works until the commit of a request that names the party of its *)
(* row, or a DELETE that presents it.                                      *)
THEOREM AccessEndsOnlyThere == Spec => AccessEndsByCommitOrDelete
<1> DEFINE Lost(p, t) == p \in FindByToken(t) /\ p \notin FindByToken(t)'
           Ended(p, t) ==
              \E r \in Req :
                 \/ Rotates(r, p) /\ ~loc[r].committed /\ loc'[r].committed
                 \/ /\ req[r].method = "DELETE" /\ req[r].auth = t
                    /\ pc[r] = "revoke" /\ pc'[r] \in {"ok", "failed"}
<1>1. ASSUME Inductive, Next, NEW p \in Party, NEW t \in Token, Lost(p, t)
      PROVE  Ended(p, t)
  <2>1. RowEvolves(p) /\ peer[p] \in PeerRow
    BY <1>1, RowStep DEF Inductive, TypeOK
  <2>2. peer'[p] # peer[p] /\ ~BeginsRewrite(p)
    BY <1>1 DEF FindByToken, BeginsRewrite
  <2>3. CASE Commits(p)
    <3>1. PICK r \in Req : /\ Rotates(r, p) /\ pc[r] = "commit"
                           /\ loc'[r] = [loc[r] EXCEPT !.committed = TRUE]
      BY <2>3 DEF Commits
    <3>2. ~loc[r].committed
      BY <1>1, <3>1 DEF Inductive, HandlersOK, HandlerOf
    <3>3. loc[r] \in Local
      BY <1>1 DEF Inductive, TypeOK
    <3>4. loc'[r].committed
      BY <3>1, <3>3 DEF Local
    <3>. QED
      BY <3>1, <3>2, <3>4
  <2>4. CASE Revokes(p)
    <3>1. PICK r \in Req : /\ pc[r] = "revoke" /\ pc'[r] \in {"ok", "failed"}
                           /\ p \in FindByToken(req[r].auth)
      BY <2>4 DEF Revokes
    <3>2. req[r].auth = t
      BY <1>1, <3>1 DEF FindByToken
    <3>3. req[r].method = "DELETE"
      BY <1>1, <3>1 DEF Inductive, ControlOK, ControlOf
    <3>. QED
      BY <3>1, <3>2, <3>3
  <2>. QED
    BY <2>1, <2>2, <2>3, <2>4 DEF RowEvolves
<1>2. Inductive /\ [Next]_vars =>
        [\A p \in Party, t \in Token :
           p \in FindByToken(t) /\ p \notin FindByToken(t)'
           => \E r \in Req :
                 \/ Rotates(r, p) /\ ~loc[r].committed /\ loc'[r].committed
                 \/ /\ req[r].method = "DELETE" /\ req[r].auth = t
                    /\ pc[r] = "revoke" /\ pc'[r] \in {"ok", "failed"}]_vars
  BY <1>1
<1>. QED
  BY <1>2, Invariance, PTL DEF Spec, AccessEndsByCommitOrDelete

(* Validation never takes back a refusal, in the whole system.             *)
THEOREM RefusalIsFinal == Spec => RefusedForever
<1>1. Inductive /\ [Next]_vars =>
        [\A a \in BootToken :
           boot[a].stored # "NEVER" /\ ~Valid(a) => ~Valid(a)']_bootVars
  BY BootEvolution DEF Inductive, BootEvolves
<1>. QED
  BY <1>1, Invariance, PTL DEF Spec, RefusedForever

(* No accepted bootstrap token is ever deleted, in the whole system.       *)
THEOREM CleanupSparesValid == Spec => ValidRowsStay
<1>1. Inductive /\ [Next]_vars =>
        [\A a \in BootToken : Valid(a) => Stored(a)']_bootVars
  BY BootEvolution DEF Inductive, BootEvolves
<1>. QED
  BY <1>1, Invariance, PTL DEF Spec, ValidRowsStay

(* Only the update of revokeByAuthContext answers a DELETE with success.   *)
LEMMA RevokeStep ==
    ASSUME TypeOK, [Next]_vars, NEW r \in Req, pc[r] = "revoke", pc'[r] = "ok"
    PROVE  RevokeByAuthContext(r)
<1> USE DEF TypeOK, answered, goto
<1>1. ASSUME NEW x \in Req, GuardBootstrap(x)
      PROVE  RevokeByAuthContext(r)
  BY <1>1 DEF GuardBootstrap
<1>2. ASSUME NEW x \in Req, GuardToken(x)
      PROVE  RevokeByAuthContext(r)
  BY <1>2 DEF GuardToken
<1>3. ASSUME NEW x \in Req, GetCredentials(x)
      PROVE  RevokeByAuthContext(r)
  BY <1>3 DEF GetCredentials
<1>4. ASSUME NEW x \in Req, UpsertFromIncomingCredentials(x)
      PROVE  RevokeByAuthContext(r)
  BY <1>4 DEF UpsertFromIncomingCredentials
<1>5. ASSUME NEW x \in Req, UpdateFromIncomingCredentials(x)
      PROVE  RevokeByAuthContext(r)
  BY <1>5 DEF UpdateFromIncomingCredentials
<1>6. ASSUME NEW x \in Req, RereadPeer(x)
      PROVE  RevokeByAuthContext(r)
  BY <1>6 DEF RereadPeer
<1>7. ASSUME NEW x \in Req, FetchVersions(x)
      PROVE  RevokeByAuthContext(r)
  BY <1>7 DEF FetchVersions
<1>8. ASSUME NEW x \in Req, FetchDetails(x)
      PROVE  RevokeByAuthContext(r)
  BY <1>8 DEF FetchDetails
<1>9. ASSUME NEW x \in Req, SetPeerTokenForUs(x)
      PROVE  RevokeByAuthContext(r)
  BY <1>9 DEF SetPeerTokenForUs
<1>10. ASSUME NEW x \in Req, MarkTokenAsUsed(x)
       PROVE  RevokeByAuthContext(r)
  BY <1>10 DEF MarkTokenAsUsed
<1>11. ASSUME NEW x \in Req, RevokeByAuthContext(x)
       PROVE  RevokeByAuthContext(r)
  BY <1>11 DEF RevokeByAuthContext
<1>12. ASSUME NEW x \in Req, CallFails(x)
       PROVE  RevokeByAuthContext(r)
  BY <1>12 DEF CallFails
<1>13. CASE Administer
  BY <1>13 DEF Administer
<1>14. CASE Crash
  BY <1>14 DEF Crash
<1>15. CASE UNCHANGED vars
  BY <1>15 DEF vars
<1>. QED
  BY <1>1, <1>2, <1>3, <1>4, <1>5, <1>6, <1>7, <1>8, <1>9, <1>10, <1>11, <1>12,
     <1>13, <1>14, <1>15
     DEF Next, Arrive, DatabaseAnswers, PeerAnswers

(* A successful DELETE leaves nobody the token it was sent with.           *)
THEOREM DeleteIsEffective == Spec => DeleteEndsAccess
<1>1. ASSUME Inductive, Next, NEW r \in Req, pc[r] = "revoke", pc'[r] = "ok"
      PROVE  FindByToken(req[r].auth)' = {}
  <2>1. req'[r] = req[r]
    BY <1>1, HistoryStep DEF Inductive
  <2>2. RevokeByAuthContext(r)
    BY <1>1, RevokeStep DEF Inductive
  <2>3. ASSUME NEW p \in Party, peer'[p].token = req[r].auth
        PROVE  peer'[p].status \in {"ABSENT", "REVOKED"}
    BY <1>1, <2>2, <2>3
       DEF RevokeByAuthContext, FindByToken, Inductive, TypeOK, PeerRow
  <2>. QED
    BY <2>1, <2>3 DEF FindByToken
<1>2. Inductive /\ [Next]_vars =>
        [\A r \in Req : pc[r] = "revoke" /\ pc'[r] = "ok"
           => FindByToken(req[r].auth)' = {}]_vars
  BY <1>1
<1>. QED
  BY <1>2, Invariance, PTL DEF Spec, DeleteEndsAccess

-----------------------------------------------------------------------------
(***************************************************************************)
(* The refinement of Registration.  What a step does to the rows has been  *)
(* said row by row; here it is said of the table: one row at most, and the *)
(* keys given out with it.                                                 *)
(***************************************************************************)
Table == [p \in Party |-> RegistrationOf(p)]

(* The keys given out change only with the committed handlers.             *)
LEMMA GrantedSame ==
    ASSUME TypeOK, HandlersOK, [Next]_vars,
           \A r \in Req : loc'[r].committed = loc[r].committed
    PROVE  GrantedTokens' = GrantedTokens
<1>1. \A r \in Req : loc[r].committed => loc'[r] = loc[r]
  BY HistoryStep
<1>. QED
  BY <1>1 DEF GrantedTokens

(* A step that leaves the rows and the committed handlers alone is none of *)
(* Registration.                                                           *)
LEMMA Unseen ==
    ASSUME TypeOK, HandlersOK, [Next]_vars, peer' = peer,
           \A r \in Req : loc'[r].committed = loc[r].committed
    PROVE  UNCHANGED <<Table, GrantedTokens>>
<1>1. Table' = Table
  BY DEF Table, RegistrationOf
<1>. QED
  BY <1>1, GrantedSame

(* A new row of p is a new registration of p and of nobody else.           *)
LEMMA OneRow ==
    ASSUME NEW p \in Party, peer'[p] \in PeerRow,
           \A q \in Party : q # p => peer'[q] = peer[q]
    PROVE  Table' = [Table EXCEPT ![p] =
                        [standing |-> peer'[p].status, key |-> peer'[p].token,
                         version |-> peer'[p].version,
                         endpoints |-> peer'[p].endpoints]]
BY DEF Table, RegistrationOf

(* What the upsert and the updateMany of a POST or PUT are to the parties. *)
LEMMA RewriteNegotiates ==
    ASSUME TypeOK, HandlersOK, [Next]_vars, NEW S \in SUBSET Party,
           \/ \E p \in Party : S = {p}
           \/ \A p \in S : peer[p].status # "ABSENT",
           \A p \in S : \E c \in Creds : peer'[p] = Rewritten(p, c),
           \A p \in Party \ S : peer'[p] = peer[p],
           \A r \in Req : loc'[r].committed = loc[r].committed
    PROVE  Abstract!Negotiate(S)
<1>1. \A p \in Party : peer[p] \in PeerRow
  BY DEF TypeOK
<1>2. ASSUME NEW p \in S
      PROVE  RegistrationOf(p)' = [RegistrationOf(p) EXCEPT !.standing = "PENDING"]
  <2>1. PICK c \in Creds :
           peer'[p] = [peer[p] EXCEPT !.creds = c, !.status = "PENDING"]
    BY <1>2 DEF Rewritten
  <2>2. /\ peer'[p].status = "PENDING" /\ peer'[p].token = peer[p].token
        /\ peer'[p].version = peer[p].version
        /\ peer'[p].endpoints = peer[p].endpoints
    BY <1>1, <1>2, <2>1 DEF PeerRow
  <2>. QED
    BY <2>2 DEF RegistrationOf
<1>3. Table' = [p \in Party |->
                  IF p \in S THEN [Table[p] EXCEPT !.standing = "PENDING"]
                             ELSE Table[p]]
  BY <1>2 DEF Table, RegistrationOf
<1>4. \/ \E p \in Party : S = {p}
      \/ \A p \in S : Table[p].standing # "ABSENT"
  BY DEF Table, RegistrationOf
<1>. QED
  BY <1>3, <1>4, GrantedSame DEF Table, Abstract!Negotiate

(* What the transaction of setPeerTokenForUs is to the party.              *)
LEMMA CommitGrants ==
    ASSUME Inductive, Inductive', [Next]_vars, NEW x \in Req,
           SetPeerTokenForUs(x), ~DuplicateKey(x)
    PROVE  Abstract!Grant(req[x].party)
<1> DEFINE p == req[x].party
           key == loc[x].token
           modules == loc[x].listing.listed \cap Known
<1>1. /\ pc[x] = "commit" /\ req' = req
      /\ peer' = [peer EXCEPT ![p] = RegisteredRow(x)]
      /\ loc' = [loc EXCEPT ![x].committed = TRUE]
  BY DEF SetPeerTokenForUs
<1>2. /\ p \in Party /\ peer[p].status # "ABSENT" /\ peer[p] \in PeerRow
      /\ loc[x] \in Local /\ loc[x].creds \in Creds
  BY <1>1 DEF Inductive, TypeOK, ControlOK, ControlOf, Negotiating
<1>3. key \in Token /\ loc[x].version \in {"2.2.1", "2.3.0"}
  BY <1>1, <1>2 DEF Inductive, HandlersOK, HandlerOf, Local, Version
<1>4. key \notin GrantedTokens
  <2>1. ~loc[x].committed
    BY <1>1 DEF Inductive, HandlersOK, HandlerOf
  <2>2. ASSUME NEW q \in Req, loc[q].committed, loc[q].token = key PROVE FALSE
    BY <1>1, <2>1, <2>2 DEF Inductive, HandlersOK, HandlerOf
  <2>. QED
    BY <2>2 DEF GrantedTokens
<1>5. /\ peer'[p].status = "REGISTERED" /\ peer'[p].token = key
      /\ peer'[p].version = loc[x].version
      /\ peer'[p].endpoints = NewEndpoints(x)
  BY <1>1, <1>2 DEF Inductive, TypeOK, RegisteredRow, PeerRow
<1>6. /\ peer'[p] \in PeerRow
      /\ \A q \in Party : q # p => peer'[q] = peer[q]
  BY <1>1, <1>2 DEF Inductive, TypeOK
<1>7. NewEndpoints(x) = Abstract!EndpointsOf(modules, loc[x].creds, loc[x].version)
  BY DEF NewEndpoints, Abstract!EndpointsOf
<1>8. Table' = [Table EXCEPT ![p] =
        [standing |-> "REGISTERED", key |-> key, version |-> loc[x].version,
         endpoints |-> Abstract!EndpointsOf(modules, loc[x].creds, loc[x].version)]]
  BY <1>2, <1>5, <1>6, <1>7, OneRow
<1>9. GrantedTokens' = GrantedTokens \cup {key}
  <2>1. /\ loc'[x].committed /\ loc'[x].token = key
        /\ \A q \in Req : q # x => loc'[q] = loc[q]
    BY <1>1, <1>2 DEF Inductive, TypeOK, Local
  <2>2. \A q \in Req : loc[q].committed => loc'[q] = loc[q]
    BY HistoryStep DEF Inductive
  <2>. QED
    BY <2>1, <2>2 DEF GrantedTokens
<1>10. modules \in SUBSET Known /\ Table[p].standing # "ABSENT"
  BY <1>2 DEF Table, RegistrationOf
<1>11. ASSUME NEW k \in Token \ GrantedTokens, NEW c \in Creds,
              NEW v \in {"2.2.1", "2.3.0"}, NEW ms \in SUBSET Known,
              Table' = [Table EXCEPT ![p] =
                          [standing |-> "REGISTERED", key |-> k, version |-> v,
                           endpoints |-> Abstract!EndpointsOf(ms, c, v)]],
              GrantedTokens' = GrantedTokens \cup {k}
       PROVE  Abstract!Grant(p)
  BY <1>10, <1>11 DEF Abstract!Grant, Table
<1>. QED
  <2> HIDE DEF key, modules
  <2>. QED
    BY <1>2, <1>3, <1>4, <1>8, <1>9, <1>10, <1>11

(* What the updateMany of revokeByAuthContext is to the party.             *)
LEMMA RevokeRevokes ==
    ASSUME Inductive, [Next]_vars, NEW x \in Req, RevokeByAuthContext(x)
    PROVE  \/ UNCHANGED <<Table, GrantedTokens>>
           \/ \E p \in Party : Abstract!Revoke(p)
<1> DEFINE F == FindByToken(req[x].auth)
<1>1. /\ pc[x] = "revoke" /\ loc' = loc
      /\ peer' = [p \in Party |->
                    IF p \in F THEN [peer[p] EXCEPT !.status = "REVOKED"]
                               ELSE peer[p]]
  BY DEF RevokeByAuthContext
<1>2. TypeOK /\ HandlersOK /\ GrantedTokens' = GrantedTokens
  BY <1>1, GrantedSame DEF Inductive
<1>3. CASE F = {}
  <2>1. peer' = peer
    BY <1>1, <1>2, <1>3 DEF TypeOK
  <2>. QED
    BY <1>1, <1>2, <2>1, Unseen
<1>4. CASE F # {}
  <2>1. PICK p \in Party : p \in F
    BY <1>4 DEF FindByToken
  <2>2. \A q \in F : q \in Party /\ peer[q].token = req[x].auth
    BY DEF FindByToken
  <2>3. req[x].auth # Null
    BY <1>1, <1>2 DEF HandlersOK, HandlerOf
  <2>4. ASSUME NEW q \in F PROVE q = p
    <3>1. PICK r \in Req : Granted(r, p, req[x].auth)
      BY <2>1, <2>2, <2>3 DEF Inductive, RowsOK, RowOf
    <3>2. PICK s \in Req : Granted(s, q, req[x].auth)
      BY <2>2, <2>3, <2>4 DEF Inductive, RowsOK, RowOf
    <3>3. r = s
      BY <1>2, <2>3, <3>1, <3>2 DEF HandlersOK, HandlerOf, Granted
    <3>. QED
      BY <3>1, <3>2, <3>3 DEF Granted, Rotates
  <2>5. /\ peer[p].status \in {"PENDING", "REGISTERED"}
        /\ peer[p].token # Null /\ peer[p] \in PeerRow
    BY <1>2, <2>1, <2>2, <2>3 DEF FindByToken, TypeOK, PeerRow
  <2>6. /\ peer'[p] = [peer[p] EXCEPT !.status = "REVOKED"]
        /\ \A q \in Party : q # p => peer'[q] = peer[q]
    BY <1>1, <2>1, <2>4
  <2>7. /\ peer'[p] \in PeerRow /\ peer'[p].status = "REVOKED"
        /\ peer'[p].token = peer[p].token /\ peer'[p].version = peer[p].version
        /\ peer'[p].endpoints = peer[p].endpoints
    BY <2>5, <2>6 DEF PeerRow
  <2>8. Table' = [Table EXCEPT ![p] =
                    [standing |-> "REVOKED", key |-> peer[p].token,
                     version |-> peer[p].version, endpoints |-> peer[p].endpoints]]
    BY <2>6, <2>7, OneRow
  <2>9. Table' = [Table EXCEPT ![p].standing = "REVOKED"]
    BY <2>8 DEF Table, RegistrationOf
  <2>10. Table[p].key # Null /\ Table[p].standing \in {"PENDING", "REGISTERED"}
    BY <2>5 DEF Table, RegistrationOf
  <2>11. Abstract!Revoke(p)
    BY <1>2, <2>9, <2>10 DEF Abstract!Revoke, Table
  <2>. QED
    BY <2>11
<1>. QED
  BY <1>3, <1>4

(* Every step of the handlers is one of Registration, or none.             *)
LEMMA RegistrationStep ==
    ASSUME Inductive, Inductive', [Next]_vars
    PROVE  \/ UNCHANGED <<Table, GrantedTokens>>
           \/ Abstract!RegistrationNext
<1> USE DEF Inductive
<1> DEFINE Seen == \/ UNCHANGED <<Table, GrantedTokens>>
                   \/ Abstract!RegistrationNext
           Silent == /\ peer' = peer
                     /\ \A r \in Req : loc'[r].committed = loc[r].committed
<1>0. ASSUME Silent PROVE Seen
  BY <1>0, Unseen
<1>1. ASSUME NEW x \in Req, GuardBootstrap(x)
      PROVE  Seen
  BY <1>0, <1>1 DEF GuardBootstrap
<1>2. ASSUME NEW x \in Req, GuardToken(x)
      PROVE  Seen
  BY <1>0, <1>2 DEF GuardToken
<1>3. ASSUME NEW x \in Req, GetCredentials(x)
      PROVE  Seen
  <2>1. peer' = peer /\ (loc' = loc \/ \E t : loc' = [loc EXCEPT ![x].token = t])
    BY <1>3 DEF GetCredentials
  <2>2. \A r \in Req : loc[r] \in Local
    BY DEF TypeOK
  <2>3. Silent
    BY <2>1, <2>2 DEF TypeOK, Local
  <2>. QED
    BY <1>0, <2>3
<1>4. ASSUME NEW x \in Req, UpsertFromIncomingCredentials(x)
      PROVE  Seen
  <2>1. /\ peer' = [peer EXCEPT
                      ![req[x].party] = Rewritten(req[x].party, req[x].creds)]
        /\ \A r \in Req : loc'[r].committed = loc[r].committed
        /\ pc[x] = "upsert"
    BY <1>4 DEF UpsertFromIncomingCredentials, TypeOK, Local
  <2>2. req[x].party \in Party /\ req[x].creds \in Creds
    BY <2>1 DEF ControlOK, ControlOf
  <2>3. /\ peer'[req[x].party] = Rewritten(req[x].party, req[x].creds)
        /\ \A p \in Party \ {req[x].party} : peer'[p] = peer[p]
    BY <2>1, <2>2 DEF TypeOK
  <2>4. Abstract!Negotiate({req[x].party})
    BY <2>1, <2>2, <2>3, RewriteNegotiates
  <2>. QED
    BY <2>2, <2>4 DEF Abstract!RegistrationNext
<1>5. ASSUME NEW x \in Req, UpdateFromIncomingCredentials(x)
      PROVE  Seen
  <2>1. /\ \A r \in Req : loc'[r].committed = loc[r].committed
        /\ pc[x] = "update" /\ req[x].creds \in Creds
    BY <1>5 DEF UpdateFromIncomingCredentials, ControlOK, ControlOf
  <2>2. CASE peer' = peer
    BY <1>0, <2>1, <2>2
  <2>3. ASSUME peer' # peer
        PROVE  \E S \in SUBSET Party :
                  /\ \A p \in S : peer[p].status # "ABSENT"
                  /\ \A p \in S : \E c \in Creds : peer'[p] = Rewritten(p, c)
                  /\ \A p \in Party \ S : peer'[p] = peer[p]
    <3>1. CASE req[x].party \in Party
      <4>1. /\ peer[req[x].party].status # "ABSENT"
            /\ peer'[req[x].party] = Rewritten(req[x].party, req[x].creds)
            /\ \A p \in Party \ {req[x].party} : peer'[p] = peer[p]
        BY <1>5, <2>3, <3>1, BootAssumption DEF UpdateFromIncomingCredentials, TypeOK
      <4>2. {req[x].party} \in SUBSET Party
        BY <3>1
      <4>. QED
        <5>. WITNESS {req[x].party} \in SUBSET Party
        <5>. QED
          BY <2>1, <3>1, <4>1
    <3>2. CASE req[x].party \notin Party
      <4>1. PICK S \in SUBSET {p \in Party : peer[p].status # "ABSENT"} :
               \E said \in [S -> Creds] :
                  peer' = [p \in Party |-> IF p \in S THEN Rewritten(p, said[p])
                                                     ELSE peer[p]]
        BY <1>5, <3>2 DEF UpdateFromIncomingCredentials
      <4>. WITNESS S \in SUBSET Party
      <4>. QED
        BY <4>1
    <3>. QED
      BY <3>1, <3>2
  <2>4. ASSUME peer' # peer
        PROVE  \E S \in SUBSET Party : Abstract!Negotiate(S)
    BY <2>1, <2>3, <2>4, RewriteNegotiates
  <2>. QED
    BY <2>2, <2>4 DEF Abstract!RegistrationNext
<1>6. ASSUME NEW x \in Req, RereadPeer(x)
      PROVE  Seen
  <2>1. Silent
    BY <1>6 DEF RereadPeer, TypeOK, Local
  <2>. QED
    BY <1>0, <2>1
<1>7. ASSUME NEW x \in Req, FetchVersions(x)
      PROVE  Seen
  <2>1. peer' = peer /\ (loc' = loc \/ \E v : loc' = [loc EXCEPT ![x].version = v])
    BY <1>7 DEF FetchVersions
  <2>2. \A r \in Req : loc[r] \in Local
    BY DEF TypeOK
  <2>3. Silent
    BY <2>1, <2>2 DEF TypeOK, Local
  <2>. QED
    BY <1>0, <2>3
<1>8. ASSUME NEW x \in Req, FetchDetails(x)
      PROVE  Seen
  <2>1. Silent
    BY <1>8 DEF FetchDetails, TypeOK, Local
  <2>. QED
    BY <1>0, <2>1
<1>9. ASSUME NEW x \in Req, SetPeerTokenForUs(x)
      PROVE  Seen
  <2>1. CASE DuplicateKey(x)
    BY <1>0, <1>9, <2>1 DEF SetPeerTokenForUs
  <2>2. CASE ~DuplicateKey(x)
    <3>1. Abstract!Grant(req[x].party)
      BY <1>9, <2>2, CommitGrants
    <3>2. req[x].party \in Party
      BY <1>9 DEF SetPeerTokenForUs, ControlOK, ControlOf
    <3>. QED
      BY <3>1, <3>2 DEF Abstract!RegistrationNext
  <2>. QED
    BY <2>1, <2>2
<1>10. ASSUME NEW x \in Req, MarkTokenAsUsed(x)
       PROVE  Seen
  BY <1>0, <1>10 DEF MarkTokenAsUsed
<1>11. ASSUME NEW x \in Req, RevokeByAuthContext(x)
       PROVE  Seen
  BY <1>11, RevokeRevokes DEF Abstract!RegistrationNext
<1>12. ASSUME NEW x \in Req, CallFails(x)
       PROVE  Seen
  BY <1>0, <1>12 DEF CallFails
<1>13. CASE Administer
  BY <1>0, <1>13 DEF Administer
<1>14. CASE Crash
  BY <1>0, <1>14 DEF Crash
<1>15. CASE UNCHANGED vars
  BY <1>0, <1>15 DEF vars
<1>. QED
  BY <1>1, <1>2, <1>3, <1>4, <1>5, <1>6, <1>7, <1>8, <1>9, <1>10, <1>11, <1>12,
     <1>13, <1>14, <1>15
     DEF Next, Arrive, DatabaseAnswers, PeerAnswers

(* The handlers of the credentials module, with all their interleavings,   *)
(* failures and crashes, implement Registration.                           *)
THEOREM HandlersImplementRegistration == Spec => ImplementsRegistration
<1>1. Init => Abstract!RegistrationInit
  <2> SUFFICES ASSUME Init PROVE Abstract!RegistrationInit
    OBVIOUS
  <2>1. Table = [p \in Party |-> [standing |-> "ABSENT", key |-> Null,
                                  version |-> "2.2.1", endpoints |-> {}]]
    BY DEF Init, Table, RegistrationOf
  <2>2. GrantedTokens = {}
    BY DEF Init, NoLocal, GrantedTokens
  <2>. QED
    BY <2>1, <2>2 DEF Table, Abstract!RegistrationInit
<1>2. Inductive /\ Inductive' /\ [Next]_vars
        => [Abstract!RegistrationNext]_(Abstract!registrationVars)
  BY RegistrationStep DEF Table, Abstract!registrationVars
<1>. QED
  BY <1>1, <1>2, Invariance, PTL
     DEF Spec, ImplementsRegistration, Abstract!RegistrationSpec

-----------------------------------------------------------------------------
(***************************************************************************)
(* The safety half of EveryRequestEnds: how far a request has come.        *)
(***************************************************************************)
Stage(l) == CASE l = "idle"                           -> 0
              [] l \in {"upsert", "update", "revoke"} -> 1
              [] l = "reread"                         -> 2
              [] l = "versions"                       -> 3
              [] l = "details"                        -> 4
              [] l = "commit"                         -> 5
              [] l = "mark"                           -> 6
              [] OTHER                                -> 7

Advance == \A r \in Req : pc'[r] # pc[r] => Stage(pc[r]) < Stage(pc'[r])

(* A handler whose await is done stands at a later one.                    *)
LEMMA AdvanceStep ==
    ASSUME TypeOK, ControlOK, [Next]_vars
    PROVE  Advance
<1> USE DEF Advance, TypeOK, answered, goto
<1>1. ASSUME NEW r \in Req, GuardBootstrap(r)
      PROVE  Advance
  BY <1>1 DEF GuardBootstrap, Stage
<1>2. ASSUME NEW r \in Req, GuardToken(r)
      PROVE  Advance
  BY <1>2 DEF GuardToken, FirstAwait, Stage
<1>3. ASSUME NEW r \in Req, GetCredentials(r)
      PROVE  Advance
  BY <1>3 DEF GetCredentials, Stage
<1>4. ASSUME NEW r \in Req, UpsertFromIncomingCredentials(r)
      PROVE  Advance
  BY <1>4 DEF UpsertFromIncomingCredentials, Stage
<1>5. ASSUME NEW r \in Req, UpdateFromIncomingCredentials(r)
      PROVE  Advance
  BY <1>5 DEF UpdateFromIncomingCredentials, Stage
<1>6. ASSUME NEW r \in Req, RereadPeer(r)
      PROVE  Advance
  BY <1>6 DEF RereadPeer, Stage
<1>7. ASSUME NEW r \in Req, FetchVersions(r)
      PROVE  Advance
  BY <1>7 DEF FetchVersions, Stage
<1>8. ASSUME NEW r \in Req, FetchDetails(r)
      PROVE  Advance
  BY <1>8 DEF FetchDetails, Stage
<1>9. ASSUME NEW r \in Req, SetPeerTokenForUs(r)
      PROVE  Advance
  BY <1>9 DEF SetPeerTokenForUs, Stage
<1>10. ASSUME NEW r \in Req, MarkTokenAsUsed(r)
       PROVE  Advance
  BY <1>10 DEF MarkTokenAsUsed, Stage
<1>11. ASSUME NEW r \in Req, RevokeByAuthContext(r)
       PROVE  Advance
  BY <1>11 DEF RevokeByAuthContext, Stage
<1>12. ASSUME NEW r \in Req, CallFails(r)
       PROVE  Advance
  BY <1>12 DEF CallFails, InFlight, Stage
<1>13. CASE Administer
  BY <1>13 DEF Administer
<1>14. CASE Crash
  BY <1>14 DEF Crash, InFlight, Stage
<1>15. CASE UNCHANGED vars
  BY <1>15 DEF vars
<1>. QED
  BY <1>1, <1>2, <1>3, <1>4, <1>5, <1>6, <1>7, <1>8, <1>9, <1>10, <1>11, <1>12,
     <1>13, <1>14, <1>15
     DEF Next, Arrive, DatabaseAnswers, PeerAnswers

(***************************************************************************)
(* Every step that moves a request moves it forward, and none moves it     *)
(* after its end: no handler goes back to an await, so that none           *)
(* negotiates, commits or marks twice, or answers twice.  A request makes  *)
(* seven steps at the most, whatever the other ones do.                    *)
(***************************************************************************)
THEOREM RequestsOnlyAdvance ==
    Spec => [][\A r \in Req : pc'[r] # pc[r] => Stage(pc[r]) < Stage(pc'[r])]_vars
<1>1. Inductive /\ [Next]_vars => Advance
  BY AdvanceStep DEF Inductive
<1>2. Inductive /\ [Next]_vars
        => [\A r \in Req : pc'[r] # pc[r] => Stage(pc[r]) < Stage(pc'[r])]_vars
  BY <1>1 DEF Advance
<1>. QED
  BY <1>2, Invariance, PTL DEF Spec

-----------------------------------------------------------------------------
(***************************************************************************)
(* What overlapping requests can break, and which of them have to overlap  *)
(* for that: only registrations with one bootstrap token break its single  *)
(* use, and only requests of one party what is promised of that party's    *)
(* row, a PUT that names no party in full being one of every party.        *)
(* OneAtATime, which ~Overlap enforces, implies both conditions.           *)
(***************************************************************************)
OneAtATime == \A r, s \in Req : pc[r] \in InFlight /\ pc[s] \in InFlight => r = s

OnePerBoot ==
    \A r, s \in Req : /\ pc[r] \in InFlight /\ req[r].method = "POST"
                      /\ pc[s] \in InFlight /\ req[s].method = "POST"
                      /\ req[r].boot = req[s].boot
                      => r = s

OnePerParty ==
    \A r, s \in Req : /\ pc[r] \in InFlight /\ pc[s] \in InFlight
                      /\ \/ req[r].party = req[s].party
                         \/ req[r].party = Nobody
                      => r = s

(* No request in flight shares its bootstrap token with a registration     *)
(* that was answered.                                                      *)

Unshared ==
    \A r, s \in Req : /\ pc[r] = "ok" /\ req[r].method = "POST"
                      /\ pc[s] \in InFlight /\ req[s].method = "POST"
                      => req[r].boot # req[s].boot

(* A request enters only through the guard.                                *)
LEMMA EntryStep ==
    ASSUME TypeOK, [Next]_vars, NEW r \in Req,
           pc[r] \notin InFlight, pc'[r] \in InFlight
    PROVE  /\ ~Overlap => \A s \in Req : pc[s] \notin InFlight
           /\ \A s \in Req : s # r => pc'[s] = pc[s] /\ req'[s] = req[s]
           /\ UNCHANGED bootVars
           /\ req'[r].method = "POST" => Valid(req'[r].boot)
<1> USE DEF TypeOK, answered, goto, InFlight
<1> DEFINE Entry ==
       /\ ~Overlap => \A s \in Req : pc[s] \notin InFlight
       /\ \A s \in Req : s # r => pc'[s] = pc[s] /\ req'[s] = req[s]
       /\ UNCHANGED bootVars
       /\ req'[r].method = "POST" => Valid(req'[r].boot)
<1>1. ASSUME NEW x \in Req, GuardBootstrap(x)
      PROVE  Entry
  BY <1>1 DEF GuardBootstrap, Admitted
<1>2. ASSUME NEW x \in Req, GuardToken(x)
      PROVE  Entry
  BY <1>2 DEF GuardToken, Admitted, FirstAwait
<1>3. ASSUME NEW x \in Req, GetCredentials(x)
      PROVE  Entry
  BY <1>3 DEF GetCredentials, Admitted
<1>4. ASSUME NEW x \in Req, UpsertFromIncomingCredentials(x)
      PROVE  Entry
  BY <1>4 DEF UpsertFromIncomingCredentials
<1>5. ASSUME NEW x \in Req, UpdateFromIncomingCredentials(x)
      PROVE  Entry
  BY <1>5 DEF UpdateFromIncomingCredentials
<1>6. ASSUME NEW x \in Req, RereadPeer(x)
      PROVE  Entry
  BY <1>6 DEF RereadPeer
<1>7. ASSUME NEW x \in Req, FetchVersions(x)
      PROVE  Entry
  BY <1>7 DEF FetchVersions
<1>8. ASSUME NEW x \in Req, FetchDetails(x)
      PROVE  Entry
  BY <1>8 DEF FetchDetails
<1>9. ASSUME NEW x \in Req, SetPeerTokenForUs(x)
      PROVE  Entry
  BY <1>9 DEF SetPeerTokenForUs
<1>10. ASSUME NEW x \in Req, MarkTokenAsUsed(x)
       PROVE  Entry
  BY <1>10 DEF MarkTokenAsUsed
<1>11. ASSUME NEW x \in Req, RevokeByAuthContext(x)
       PROVE  Entry
  BY <1>11 DEF RevokeByAuthContext
<1>12. ASSUME NEW x \in Req, CallFails(x)
       PROVE  Entry
  BY <1>12 DEF CallFails
<1>13. CASE Administer
  BY <1>13 DEF Administer
<1>14. CASE Crash
  BY <1>14 DEF Crash
<1>15. CASE UNCHANGED vars
  BY <1>15 DEF vars
<1>. QED
  BY <1>1, <1>2, <1>3, <1>4, <1>5, <1>6, <1>7, <1>8, <1>9, <1>10, <1>11, <1>12,
     <1>13, <1>14, <1>15
     DEF Next, Arrive, DatabaseAnswers, PeerAnswers

(* Requests stay apart, if they are let in one at a time.                  *)
LEMMA SerialStep ==
    ASSUME Inductive, ~Overlap, OneAtATime, [Next]_vars
    PROVE  OneAtATime'
<1> SUFFICES ASSUME NEW r \in Req, NEW s \in Req,
                    pc'[r] \in InFlight, pc'[s] \in InFlight
             PROVE  r = s
  BY DEF OneAtATime, InFlight
<1>. QED
  BY EntryStep DEF OneAtATime, Inductive

LEMMA OneIsEnough == OneAtATime => OnePerBoot /\ OnePerParty
BY DEF OneAtATime, OnePerBoot, OnePerParty

LEMMA SerialInvariance ==
    ASSUME ~Overlap
    PROVE  Spec => []OneAtATime
<1>1. Init => OneAtATime
  BY DEF Init, OneAtATime, InFlight
<1>2. Inductive /\ OneAtATime /\ [Next]_vars => OneAtATime'
  BY SerialStep
<1>. QED
  BY <1>1, <1>2, Invariance, PTL DEF Spec

-----------------------------------------------------------------------------
(* An in-flight registration has a bootstrap token of its own, and single  *)
(* use is preserved with it.                                               *)
LEMMA SingleUseStep ==
    ASSUME Inductive, OnePerBoot, Unshared, SingleUse, [Next]_vars
    PROVE  Unshared' /\ SingleUse'
<1> USE DEF Inductive
<1>1. ASSUME NEW r \in Req, pc'[r] = "ok", req'[r].method = "POST"
      PROVE  /\ req'[r] = req[r]
             /\ pc[r] = "ok" \/ pc[r] = "mark"
             /\ pc[r] = "mark" => pc[r] \in InFlight
  BY <1>1, MarkStep, HistoryStep DEF Marks, InFlight
<1>2. Unshared'
  <2>1. ASSUME NEW r \in Req, pc'[r] = "ok", req'[r].method = "POST",
               NEW s \in Req, pc'[s] \in InFlight, req'[s].method = "POST"
        PROVE  req'[r].boot # req'[s].boot
    <3>1. CASE pc[s] \in InFlight
      <4>1. req'[s] = req[s] /\ s # r
        BY <2>1, <3>1, HistoryStep DEF InFlight
      <4>. QED
        BY <1>1, <2>1, <3>1, <4>1 DEF OnePerBoot, Unshared
    <3>2. CASE pc[s] \notin InFlight
      <4>1. /\ Valid(req'[s].boot) /\ s # r /\ pc'[r] = pc[r]
        BY <2>1, <3>2, EntryStep DEF InFlight
      <4>2. req'[r] = req[r] /\ pc[r] = "ok"
        BY <1>1, <2>1, <4>1
      <4>. QED
        BY <2>1, <4>1, <4>2 DEF AnsweredPostSpentToken
    <3>. QED
      BY <3>1, <3>2
  <2>. QED
    BY <2>1 DEF Unshared, InFlight
<1>3. SingleUse'
  <2>1. ASSUME NEW r \in Req, pc'[r] = "ok", req'[r].method = "POST",
               NEW s \in Req, pc'[s] = "ok", req'[s].method = "POST",
               req'[r].boot = req'[s].boot
        PROVE  r = s
    BY <1>1, <2>1 DEF SingleUse, Unshared, OnePerBoot
  <2>. QED
    BY <2>1 DEF SingleUse
<1>. QED
  BY <1>2, <1>3

(* On one bootstrap token at most one registration succeeds, as long as no *)
(* two with that token are at work at once, whatever else is.              *)
THEOREM SingleUsePerToken == Spec /\ []OnePerBoot => []SingleUse
<1>1. Init => Unshared /\ SingleUse
  BY DEF Init, Unshared, SingleUse, InFlight
<1>2. Inductive /\ OnePerBoot /\ Unshared /\ SingleUse /\ [Next]_vars
        => Unshared' /\ SingleUse'
  BY SingleUseStep
<1>. QED
  BY <1>1, <1>2, Invariance, PTL DEF Spec

(* The same when requests are let in one at a time.                        *)
THEOREM SingleUseWhenSerial ==
    ASSUME ~Overlap
    PROVE  Spec => []SingleUse
<1>1. OneAtATime => OnePerBoot
  BY OneIsEnough
<1>. QED
  BY <1>1, SingleUsePerToken, SerialInvariance, PTL

-----------------------------------------------------------------------------
(***************************************************************************)
(* The promises of a party's row, as long as its requests do not overlap.  *)
(* They need to know that a handler's copies are as good as the row they   *)
(* were read from, which overlapping requests of the same party would take *)
(* from them.                                                              *)
(***************************************************************************)
UpToDate(r) ==
    /\ pc[r] \in Negotiating => loc[r].creds = peer[req[r].party].creds
    /\ pc[r] = "mark" => req[r].party \in FindByToken(loc[r].token)
    /\ pc[r] = "revoke" => req[r].party \in FindByToken(req[r].auth)

CopiesOK == \A r \in Req : UpToDate(r)

(* A token that authenticates anybody authenticates the party it was       *)
(* answered for.                                                           *)
LEMMA HolderIsOwner ==
    ASSUME Inductive, NEW p \in Party, NEW t \in Held(p), Authenticates(t)
    PROVE  p \in FindByToken(t)
<1> USE DEF Inductive, HandlersOK, HandlerOf
<1>1. PICK h \in Req : /\ pc[h] = "ok" /\ req[h].party = p
                       /\ req[h].method \in {"POST", "PUT"} /\ loc[h].token = t
  BY DEF Held
<1>2. loc[h].committed /\ t # Null
  BY <1>1
<1>3. PICK q \in Party : q \in FindByToken(t)
  BY DEF Authenticates, FindByToken
<1>4. PICK s \in Req : Granted(s, q, t)
  BY <1>2, <1>3 DEF FindByToken, RowsOK, RowOf
<1>5. s = h
  BY <1>1, <1>2, <1>4 DEF Granted
<1>. QED
  BY <1>1, <1>3, <1>4, <1>5 DEF Granted, Rotates

(* A step that changes the row of a party is one of a request that names   *)
(* that party, or none in full: not even a DELETE reaches another row than *)
(* the one its token was answered for.                                     *)
LEMMA RowOwner ==
    ASSUME Inductive, [Next]_vars, NEW p \in Party, peer'[p] # peer[p]
    PROVE  \E r \in Req : /\ req[r].party \in {p, Nobody}
                          /\ pc[r] \in InFlight /\ pc'[r] # pc[r]
<1> USE DEF Inductive
<1>1. RowEvolves(p)
  BY RowStep
<1>2. CASE BeginsRewrite(p)
  BY <1>2 DEF BeginsRewrite, Rewrites, Rotates, InFlight
<1>3. CASE Commits(p)
  BY <1>3 DEF Commits, Rotates, InFlight
<1>4. CASE Revokes(p)
  <2>1. PICK r \in Req : /\ pc[r] = "revoke" /\ pc'[r] \in {"ok", "failed"}
                         /\ p \in FindByToken(req[r].auth)
    BY <1>4 DEF Revokes
  <2>2. /\ peer[p].token = req[r].auth /\ req[r].auth # Null
    BY <2>1 DEF FindByToken, HandlersOK, HandlerOf
  <2>3. PICK s \in Req : Granted(s, req[r].party, req[r].auth)
    BY <2>2 DEF PresentedOK
  <2>4. PICK q \in Req : Granted(q, p, req[r].auth)
    BY <2>2 DEF RowsOK, RowOf
  <2>5. q = s
    BY <2>2, <2>3, <2>4 DEF HandlersOK, HandlerOf, Granted
  <2>6. req[r].party = p
    BY <2>3, <2>4, <2>5 DEF Granted, Rotates
  <2>. QED
    BY <2>1, <2>6 DEF InFlight
<1>. QED
  BY <1>1, <1>2, <1>3, <1>4 DEF RowEvolves

(* While a handler waits, the row of its party waits with it.              *)
LEMMA RowWaits ==
    ASSUME Inductive, OnePerParty, [Next]_vars,
           NEW s \in Req, pc[s] \in InFlight, pc'[s] = pc[s],
           req[s].party \in Party
    PROVE  peer'[req[s].party] = peer[req[s].party]
BY RowOwner DEF OnePerParty

(* The copies stay up to date: of one party only the handler at work       *)
(* writes, and what it writes it has a copy of.                            *)
LEMMA CopiesStep ==
    ASSUME Inductive, OnePerParty, CopiesOK, [Next]_vars
    PROVE  CopiesOK'
<1> USE DEF Inductive, TypeOK, answered, goto
<1> DEFINE Idle(s) == pc'[s] \notin Negotiating \cup {"mark", "revoke"}
           Waits(s) == pc'[s] = pc[s] /\ loc'[s] = loc[s] /\ req'[s] = req[s]
<1>0. ASSUME NEW s \in Req, Idle(s) \/ Waits(s)
      PROVE  UpToDate(s)'
  <2>1. CASE Idle(s)
    BY <2>1 DEF UpToDate
  <2>2. CASE Waits(s) /\ ~Idle(s)
    <3>0. req[s].party \in Party
      BY <2>2 DEF ControlOK, ControlOf, Negotiating
    <3>1. peer'[req[s].party] = peer[req[s].party]
      BY <2>2, <3>0, RowWaits DEF InFlight, Negotiating
    <3>. QED
      BY <2>2, <3>1 DEF CopiesOK, UpToDate, FindByToken
  <2>. QED
    BY <1>0, <2>1, <2>2
<1>1. ASSUME NEW x \in Req, GuardBootstrap(x)
      PROVE  CopiesOK'
  <2>1. \A s \in Req : Idle(s) \/ Waits(s)
    BY <1>1 DEF GuardBootstrap, Negotiating
  <2>. QED
    BY <1>0, <2>1 DEF CopiesOK
<1>2. ASSUME NEW x \in Req, GuardToken(x)
      PROVE  CopiesOK'
  <2>1. \A s \in Req \ {x} : Waits(s)
    BY <1>2 DEF GuardToken
  <2>2. pc'[x] \in {"update", "revoke", "unauthorized"} /\ peer' = peer
    BY <1>2 DEF GuardToken, FirstAwait
  <2>3. ASSUME pc'[x] = "revoke"
        PROVE  UpToDate(x)'
    <3>1. PICK p \in Party : \E t \in Held(p) :
             /\ req'[x].party = p /\ req'[x].auth = t /\ Authenticates(t)
      BY <1>2, <2>3 DEF GuardToken, FirstAwait
    <3>2. req'[x].party \in FindByToken(req'[x].auth)
      BY <3>1, HolderIsOwner
    <3>. QED
      BY <2>2, <2>3, <3>2 DEF UpToDate, FindByToken, Negotiating
  <2>4. UpToDate(x)'
    BY <1>0, <2>2, <2>3 DEF Negotiating
  <2>. QED
    BY <1>0, <2>1, <2>4 DEF CopiesOK
<1>3. ASSUME NEW x \in Req, GetCredentials(x)
      PROVE  CopiesOK'
  <2>1. \A s \in Req : Idle(s) \/ Waits(s)
    BY <1>3 DEF GetCredentials, Negotiating
  <2>. QED
    BY <1>0, <2>1 DEF CopiesOK
<1>4. ASSUME NEW x \in Req, UpsertFromIncomingCredentials(x)
      PROVE  CopiesOK'
  <2>1. \A s \in Req \ {x} : Waits(s)
    BY <1>4 DEF UpsertFromIncomingCredentials
  <2>2. UpToDate(x)'
    BY <1>4
       DEF UpsertFromIncomingCredentials, UpToDate, Rewritten, PeerRow, Local,
           ControlOK, ControlOf, Negotiating
  <2>. QED
    BY <1>0, <2>1, <2>2 DEF CopiesOK
<1>5. ASSUME NEW x \in Req, UpdateFromIncomingCredentials(x)
      PROVE  CopiesOK'
  <2>1. \A s \in Req \ {x} : Waits(s)
    BY <1>5 DEF UpdateFromIncomingCredentials
  <2>2. Idle(x)
    BY <1>5 DEF UpdateFromIncomingCredentials, Negotiating
  <2>. QED
    BY <1>0, <2>1, <2>2 DEF CopiesOK
<1>6. ASSUME NEW x \in Req, RereadPeer(x)
      PROVE  CopiesOK'
  <2>1. \A s \in Req \ {x} : Waits(s)
    BY <1>6 DEF RereadPeer
  <2>2. UpToDate(x)'
    BY <1>6 DEF RereadPeer, UpToDate, Local, Negotiating
  <2>. QED
    BY <1>0, <2>1, <2>2 DEF CopiesOK
<1>7. ASSUME NEW x \in Req, FetchVersions(x)
      PROVE  CopiesOK'
  <2>1. \A s \in Req \ {x} : Waits(s)
    BY <1>7 DEF FetchVersions
  <2>2. UpToDate(x)'
    BY <1>7 DEF FetchVersions, UpToDate, CopiesOK, Local, Negotiating
  <2>. QED
    BY <1>0, <2>1, <2>2 DEF CopiesOK
<1>8. ASSUME NEW x \in Req, FetchDetails(x)
      PROVE  CopiesOK'
  <2>1. \A s \in Req \ {x} : Waits(s)
    BY <1>8 DEF FetchDetails
  <2>2. UpToDate(x)'
    BY <1>8 DEF FetchDetails, UpToDate, CopiesOK, Local, Negotiating
  <2>. QED
    BY <1>0, <2>1, <2>2 DEF CopiesOK
<1>9. ASSUME NEW x \in Req, SetPeerTokenForUs(x)
      PROVE  CopiesOK'
  <2>1. \A s \in Req \ {x} : Waits(s)
    BY <1>9 DEF SetPeerTokenForUs
  <2>2. UpToDate(x)'
    <3>1. CASE pc'[x] = "mark"
      <4>1. /\ pc[x] = "commit"
            /\ peer' = [peer EXCEPT ![req[x].party] = RegisteredRow(x)]
            /\ loc' = [loc EXCEPT ![x].committed = TRUE] /\ req' = req
        BY <1>9, <3>1 DEF SetPeerTokenForUs
      <4>2. req[x].party \in Party
        BY <4>1 DEF ControlOK, ControlOf
      <4>3. peer'[req[x].party] = RegisteredRow(x) /\ loc'[x].token = loc[x].token
        BY <4>1, <4>2 DEF Local
      <4>4. /\ RegisteredRow(x).token = loc[x].token
            /\ RegisteredRow(x).status = "REGISTERED"
        BY <4>2 DEF RegisteredRow, PeerRow
      <4>. QED
        BY <3>1, <4>1, <4>2, <4>3, <4>4 DEF UpToDate, FindByToken, Negotiating
    <3>2. CASE pc'[x] # "mark"
      BY <1>0, <1>9, <3>2 DEF SetPeerTokenForUs, Negotiating
    <3>. QED
      BY <3>1, <3>2
  <2>. QED
    BY <1>0, <2>1, <2>2 DEF CopiesOK
<1>10. ASSUME NEW x \in Req, MarkTokenAsUsed(x)
       PROVE  CopiesOK'
  <2>1. \A s \in Req : Idle(s) \/ Waits(s)
    BY <1>10 DEF MarkTokenAsUsed, Negotiating
  <2>. QED
    BY <1>0, <2>1 DEF CopiesOK
<1>11. ASSUME NEW x \in Req, RevokeByAuthContext(x)
       PROVE  CopiesOK'
  <2>1. \A s \in Req : Idle(s) \/ Waits(s)
    BY <1>11 DEF RevokeByAuthContext, Negotiating
  <2>. QED
    BY <1>0, <2>1 DEF CopiesOK
<1>12. ASSUME NEW x \in Req, CallFails(x)
       PROVE  CopiesOK'
  <2>1. \A s \in Req : Idle(s) \/ Waits(s)
    BY <1>12 DEF CallFails, Negotiating
  <2>. QED
    BY <1>0, <2>1 DEF CopiesOK
<1>13. CASE Administer
  BY <1>13 DEF Administer, CopiesOK, UpToDate, FindByToken
<1>14. CASE Crash
  <2>1. \A s \in Req : Idle(s) \/ Waits(s)
    BY <1>14 DEF Crash, InFlight, Negotiating
  <2>. QED
    BY <1>0, <2>1 DEF CopiesOK
<1>15. CASE UNCHANGED vars
  BY <1>15 DEF vars, CopiesOK, UpToDate, FindByToken
<1>. QED
  BY <1>1, <1>2, <1>3, <1>4, <1>5, <1>6, <1>7, <1>8, <1>9, <1>10, <1>11, <1>12,
     <1>13, <1>14, <1>15
     DEF Next, Arrive, DatabaseAnswers, PeerAnswers

(* A row is REGISTERED by a transaction, whose handler has called the      *)
(* server that the row names.                                              *)
LEMMA FollowStep ==
    ASSUME Inductive, CopiesOK, EndpointsFollowCreds, [Next]_vars
    PROVE  EndpointsFollowCreds'
<1> SUFFICES ASSUME NEW p \in Party, peer'[p].status = "REGISTERED",
                    NEW e \in peer'[p].endpoints
             PROVE  e.creds = peer'[p].creds
  BY DEF EndpointsFollowCreds
<1>1. RowEvolves(p) /\ peer[p] \in PeerRow
  BY RowStep DEF Inductive, TypeOK
<1>2. CASE peer'[p] = peer[p]
  BY <1>2 DEF EndpointsFollowCreds
<1>3. CASE Commits(p)
  <2>1. PICK r \in Req : /\ req[r].party = p /\ pc[r] = "commit"
                         /\ peer'[p] = RegisteredRow(r)
    BY <1>3 DEF Commits, Rotates
  <2>2. /\ peer'[p].endpoints = NewEndpoints(r)
        /\ peer'[p].creds = peer[p].creds
    BY <1>1, <2>1 DEF RegisteredRow, PeerRow
  <2>3. loc[r].creds = peer[p].creds
    BY <2>1 DEF CopiesOK, UpToDate, Negotiating
  <2>. QED
    BY <2>2, <2>3 DEF NewEndpoints
<1>. QED
  BY <1>1, <1>2, <1>3 DEF RowEvolves, BeginsRewrite, Revokes, PeerRow

(* What holds when the requests of one party do not overlap.               *)
LEMMA ApartInvariance ==
    Spec /\ []OnePerParty => [](CopiesOK /\ EndpointsFollowCreds)
<1>1. Init => CopiesOK /\ EndpointsFollowCreds
  BY DEF Init, CopiesOK, UpToDate, EndpointsFollowCreds, Negotiating
<1>2. Inductive /\ OnePerParty /\ CopiesOK /\ EndpointsFollowCreds /\ [Next]_vars
        => CopiesOK' /\ EndpointsFollowCreds'
  BY CopiesStep, FollowStep
<1>. QED
  BY <1>1, <1>2, Invariance, PTL DEF Spec

(* A registered peer is called at the server that its row names, as long   *)
(* as no two requests about one party overlap, however many others do.     *)
THEOREM EndpointsFollowPerParty == Spec /\ []OnePerParty => []EndpointsFollowCreds
BY ApartInvariance, PTL

(* A POST or PUT is answered with success by its transaction or, after it, *)
(* by the mark.                                                            *)
LEMMA AnswerStep ==
    ASSUME TypeOK, ControlOK, [Next]_vars, NEW r \in Req,
           pc[r] # "ok", pc'[r] = "ok", req[r].method \in {"POST", "PUT"}
    PROVE  SetPeerTokenForUs(r) \/ MarkTokenAsUsed(r)
<1> USE DEF TypeOK, ControlOK, ControlOf, NoRequest, answered, goto
<1> DEFINE Answers == SetPeerTokenForUs(r) \/ MarkTokenAsUsed(r)
<1>1. ASSUME NEW x \in Req, GuardBootstrap(x)
      PROVE  Answers
  BY <1>1 DEF GuardBootstrap
<1>2. ASSUME NEW x \in Req, GuardToken(x)
      PROVE  Answers
  BY <1>2 DEF GuardToken
<1>3. ASSUME NEW x \in Req, GetCredentials(x)
      PROVE  Answers
  BY <1>3 DEF GetCredentials
<1>4. ASSUME NEW x \in Req, UpsertFromIncomingCredentials(x)
      PROVE  Answers
  BY <1>4 DEF UpsertFromIncomingCredentials
<1>5. ASSUME NEW x \in Req, UpdateFromIncomingCredentials(x)
      PROVE  Answers
  BY <1>5 DEF UpdateFromIncomingCredentials
<1>6. ASSUME NEW x \in Req, RereadPeer(x)
      PROVE  Answers
  BY <1>6 DEF RereadPeer
<1>7. ASSUME NEW x \in Req, FetchVersions(x)
      PROVE  Answers
  BY <1>7 DEF FetchVersions
<1>8. ASSUME NEW x \in Req, FetchDetails(x)
      PROVE  Answers
  BY <1>8 DEF FetchDetails
<1>9. ASSUME NEW x \in Req, SetPeerTokenForUs(x)
      PROVE  Answers
  <2>1. x = r
    BY <1>9 DEF SetPeerTokenForUs
  <2>. QED
    BY <1>9, <2>1
<1>10. ASSUME NEW x \in Req, MarkTokenAsUsed(x)
       PROVE  Answers
  <2>1. x = r
    BY <1>10 DEF MarkTokenAsUsed
  <2>. QED
    BY <1>10, <2>1
<1>11. ASSUME NEW x \in Req, RevokeByAuthContext(x)
       PROVE  Answers
  BY <1>11 DEF RevokeByAuthContext
<1>12. ASSUME NEW x \in Req, CallFails(x)
       PROVE  Answers
  BY <1>12 DEF CallFails
<1>13. CASE Administer
  BY <1>13 DEF Administer
<1>14. CASE Crash
  BY <1>14 DEF Crash
<1>15. CASE UNCHANGED vars
  BY <1>15 DEF vars
<1>. QED
  BY <1>1, <1>2, <1>3, <1>4, <1>5, <1>6, <1>7, <1>8, <1>9, <1>10, <1>11, <1>12,
     <1>13, <1>14, <1>15
     DEF Next, Arrive, DatabaseAnswers, PeerAnswers

(* Whoever is answered a token can use it, if no other request about that  *)
(* party was in flight.                                                    *)
THEOREM AnsweredTokenWorksPerParty == Spec /\ []OnePerParty => AnsweredTokenWorks
<1>1. ASSUME Inductive, CopiesOK, Next, NEW r \in Req,
             pc[r] # "ok", pc'[r] = "ok", req[r].method \in {"POST", "PUT"}
      PROVE  req[r].party \in FindByToken(loc[r].token)'
  <2>1. CASE SetPeerTokenForUs(r)
    <3>1. /\ pc[r] = "commit"
          /\ peer' = [peer EXCEPT ![req[r].party] = RegisteredRow(r)]
          /\ loc' = [loc EXCEPT ![r].committed = TRUE]
      BY <1>1, <2>1 DEF SetPeerTokenForUs, answered, goto, Inductive, TypeOK
    <3>2. req[r].party \in Party
      BY <1>1, <3>1 DEF Inductive, ControlOK, ControlOf
    <3>3. peer'[req[r].party] = RegisteredRow(r) /\ loc'[r].token = loc[r].token
      BY <1>1, <3>1, <3>2 DEF Inductive, TypeOK, Local
    <3>4. /\ RegisteredRow(r).token = loc[r].token
          /\ RegisteredRow(r).status = "REGISTERED"
      BY <1>1, <3>2 DEF RegisteredRow, Inductive, TypeOK, PeerRow
    <3>. QED
      BY <3>2, <3>3, <3>4 DEF FindByToken
  <2>2. CASE MarkTokenAsUsed(r)
    <3>1. pc[r] = "mark" /\ UNCHANGED <<peer, loc>>
      BY <2>2 DEF MarkTokenAsUsed
    <3>. QED
      BY <1>1, <3>1 DEF CopiesOK, UpToDate, FindByToken
  <2>. QED
    BY <1>1, <2>1, <2>2, AnswerStep DEF Inductive
<1>2. Inductive /\ CopiesOK /\ [Next]_vars =>
        [\A r \in Req : /\ pc[r] # "ok" /\ pc'[r] = "ok"
                        /\ req[r].method \in {"POST", "PUT"}
           => req[r].party \in FindByToken(loc[r].token)']_vars
  BY <1>1
<1>. QED
  BY <1>2, Invariance, ApartInvariance, PTL DEF Spec, AnsweredTokenWorks

(* A DELETE that is answered with success has revoked the row that its     *)
(* token was answered for, if no other request about that party was in     *)
(* flight.                                                                 *)
THEOREM DeleteRevokesPerParty == Spec /\ []OnePerParty => DeleteRevokes
<1>1. ASSUME Inductive, CopiesOK, Next, NEW r \in Req,
             pc[r] = "revoke", pc'[r] = "ok"
      PROVE  peer'[req[r].party].status = "REVOKED"
  <2>1. RevokeByAuthContext(r)
    BY <1>1, RevokeStep DEF Inductive
  <2>2. req[r].party \in FindByToken(req[r].auth)
    BY <1>1 DEF CopiesOK, UpToDate
  <2>3. peer'[req[r].party] = [peer[req[r].party] EXCEPT !.status = "REVOKED"]
    BY <2>1, <2>2 DEF RevokeByAuthContext, FindByToken
  <2>. QED
    BY <1>1, <2>2, <2>3 DEF FindByToken, Inductive, TypeOK, PeerRow
<1>2. Inductive /\ CopiesOK /\ [Next]_vars =>
        [\A r \in Req : pc[r] = "revoke" /\ pc'[r] = "ok"
           => peer'[req[r].party].status = "REVOKED"]_vars
  BY <1>1
<1>. QED
  BY <1>2, Invariance, ApartInvariance, PTL DEF Spec, DeleteRevokes

-----------------------------------------------------------------------------
(* All three when requests are let in one at a time, which is how the runs *)
(* without overlap check them.                                             *)
LEMMA SerialIsApart ==
    ASSUME ~Overlap
    PROVE  Spec => []OnePerParty
<1>1. OneAtATime => OnePerParty
  BY OneIsEnough
<1>. QED
  BY <1>1, SerialInvariance, PTL

(* A registered peer is called at the server that its row names.           *)
THEOREM EndpointsFollowWhenSerial ==
    ASSUME ~Overlap
    PROVE  Spec => []EndpointsFollowCreds
BY SerialIsApart, EndpointsFollowPerParty, PTL

(* Whoever is answered a token can use it.                                 *)
THEOREM AnsweredTokenWorksWhenSerial ==
    ASSUME ~Overlap
    PROVE  Spec => AnsweredTokenWorks
BY SerialIsApart, AnsweredTokenWorksPerParty, PTL

(* A DELETE that is answered with success has revoked the row that its     *)
(* token was answered for.                                                 *)
THEOREM DeleteRevokesWhenSerial ==
    ASSUME ~Overlap
    PROVE  Spec => DeleteRevokes
BY SerialIsApart, DeleteRevokesPerParty, PTL
=============================================================================
