----------------------------- MODULE TokensProofs -----------------------------
(***************************************************************************)
(* Theorems about module Tokens, for every value of its constants.         *)
(***************************************************************************)
EXTENDS Tokens, TLAPS

-----------------------------------------------------------------------------
(* What PATCH and the upsert make of a token is a token, and leaves its    *)
(* type, contract and issuer alone.                                        *)
LEMMA PatchedToken ==
    ASSUME NEW t \in Token, NEW p \in Patch, NEW stamp \in Nat
    PROVE  /\ Patched(t, p, stamp) \in Token
           /\ Patched(t, p, stamp).type = t.type
           /\ Patched(t, p, stamp).contract = t.contract
BY StoreAssumption
   DEF Patched, Invalidated, WithWhitelist, WithText, Token, TokenOf, Patch

LEMMA SavedToken ==
    ASSUME row \in [Id -> Token \cup {Null}], NEW id \in Id, NEW t \in Token
    PROVE  /\ Saved(id, t) \in Token
           /\ Saved(id, t).type = t.type
           /\ Saved(id, t).contract = t.contract
           /\ Saved(id, t).valid = t.valid
           /\ Saved(id, t).lastUpdated = t.lastUpdated
<1>1. CASE row[id] = Null \/ t.text # Null
  BY <1>1 DEF Saved
<1>2. CASE row[id] # Null /\ t.text = Null
  <2>1. PICK old \in Token : row[id] = old
    BY <1>2
  <2>2. PICK x \in Text \cup {Null} : x = old.text
    BY DEF Token, TokenOf
  <2>3. Saved(id, t) = [t EXCEPT !.text = x]
    BY <1>2, <2>1, <2>2 DEF Saved
  <2>. QED
    BY <2>2, <2>3 DEF Token, TokenOf
<1>. QED
  BY <1>1, <1>2

-----------------------------------------------------------------------------
(* Control: a handler that is about to read or to save knows its request,  *)
(* and one about to save holds the token.                                  *)
ControlOf(r) ==
    /\ pc[r] = "idle" <=> req[r] = Null
    /\ pc[r] = "find" => req[r].method = "PATCH"
    /\ pc[r] = "save" => loc[r] \in Token
    /\ pc[r] = "save" /\ req[r].method = "PUT" => loc[r] = req[r].token

(* Somebody sent the identity of t in a PUT for id. *)
SentFor(id, t) ==
    \E r \in Req : /\ req[r] # Null /\ req[r].method = "PUT"
                   /\ req[r].id = id
                   /\ req[r].token.type = t.type
                   /\ req[r].token.contract = t.contract

(* Besides the rows, what handlers are about to save has an origin.        *)
Inv ==
    /\ TypeOK
    /\ \A r \in Req : ControlOf(r)
    /\ \A id \in Id : row[id] # Null => SentFor(id, row[id])
    /\ \A r \in Req : pc[r] = "save" => SentFor(req[r].id, loc[r])

LEMMA InvInit == Init => Inv
<1> SUFFICES ASSUME Init PROVE Inv
  OBVIOUS
<1>. QED
  BY DEF Init, StoreInit, ClockInit, Inv, TypeOK, ControlOf

(* Requests are remembered, so what was sent stays sent.                   *)
LEMMA SentStays ==
    ASSUME Inv, NEW r \in Req, req[r] = Null, NEW q,
           req' = [req EXCEPT ![r] = q],
           NEW id, NEW t, SentFor(id, t)
    PROVE  SentFor(id, t)'
BY DEF SentFor, Inv, TypeOK

LEMMA InvPut ==
    ASSUME Inv, NEW r \in Req, PutToken(r)
    PROVE  Inv'
<1>1. PICK q \in RequestOf(0..now) :
         /\ q.method = "PUT"
         /\ req' = [req EXCEPT ![r] = q]
         /\ loc' = [loc EXCEPT ![r] = q.token]
  BY DEF PutToken
<1>2. q \in RequestOf(Nat) /\ q.token \in Token /\ q # Null
  <2>1. q \in [method : {"PUT"}, id : Id, token : TokenOf(0..now)]
    BY <1>1 DEF RequestOf
  <2>2. TokenOf(0..now) \subseteq Token
    BY DEF TokenOf, Token, Inv, TypeOK
  <2>. QED
    BY <2>1, <2>2, StoreAssumption DEF RequestOf, Token
<1>3. req[r] = Null /\ pc' = [pc EXCEPT ![r] = "save"] /\ UNCHANGED <<row, now>>
  BY DEF PutToken, goto, Inv, ControlOf
<1>4. TypeOK'
  BY <1>1, <1>2, <1>3 DEF Inv, TypeOK
<1>5. \A s \in Req : ControlOf(s)'
  BY <1>1, <1>2, <1>3 DEF Inv, TypeOK, ControlOf
<1>6. SentFor(q.id, q.token)'
  BY <1>1, <1>2, <1>3 DEF SentFor, Inv, TypeOK
<1>7. \A id \in Id : row'[id] # Null => SentFor(id, row[id])'
  BY <1>1, <1>3, SentStays DEF Inv
<1>8. \A s \in Req : pc'[s] = "save" => SentFor(req[s].id, loc[s])'
  BY <1>1, <1>3, <1>6, SentStays DEF Inv, TypeOK
<1>. QED
  BY <1>4, <1>5, <1>7, <1>8 DEF Inv

LEMMA InvPatch ==
    ASSUME Inv, NEW r \in Req, PatchToken(r)
    PROVE  Inv'
<1>1. PICK q \in RequestOf(0..now) :
         /\ q.method = "PATCH"
         /\ req' = [req EXCEPT ![r] = q]
  BY DEF PatchToken
<1>2. q \in RequestOf(Nat) /\ q # Null
  <2>1. q \in [method : {"PATCH"}, id : Id, type : Type, patch : Patch]
    BY <1>1 DEF RequestOf
  <2>. QED
    BY <2>1, StoreAssumption DEF RequestOf
<1>3. req[r] = Null /\ pc' = [pc EXCEPT ![r] = "find"] /\ UNCHANGED <<row, now, loc>>
  BY DEF PatchToken, goto, Inv, ControlOf
<1>4. TypeOK'
  BY <1>1, <1>2, <1>3 DEF Inv, TypeOK
<1>5. \A s \in Req : ControlOf(s)'
  BY <1>1, <1>2, <1>3 DEF Inv, TypeOK, ControlOf
<1>6. \A id \in Id : row'[id] # Null => SentFor(id, row[id])'
  BY <1>1, <1>3, SentStays DEF Inv
<1>7. \A s \in Req : pc'[s] = "save" => SentFor(req[s].id, loc[s])'
  BY <1>1, <1>3, SentStays DEF Inv, TypeOK
<1>. QED
  BY <1>4, <1>5, <1>6, <1>7 DEF Inv

(* What a handler in flight knows of its request. *)
LEMMA InFlightRequest ==
    ASSUME Inv, NEW r \in Req, pc[r] \in InFlight
    PROVE  /\ req[r] \in RequestOf(Nat)
           /\ req[r].id \in Id
           /\ req[r].method = "PUT" => req[r].token \in Token
           /\ req[r].method = "PATCH" => req[r].patch \in Patch
           /\ req[r].method \in {"PUT", "PATCH"}
<1>1. req[r] \in RequestOf(Nat)
  BY DEF Inv, TypeOK, ControlOf, InFlight
<1>2. CASE req[r] \in [method : {"PUT"}, id : Id, token : TokenOf(Nat)]
  BY <1>1, <1>2 DEF Token
<1>3. CASE req[r] \in [method : {"PATCH"}, id : Id, type : Type, patch : Patch]
  BY <1>1, <1>3
<1>. QED
  BY <1>1, <1>2, <1>3 DEF RequestOf

LEMMA InvFind ==
    ASSUME Inv, NEW r \in Req, FindByIdAndType(r)
    PROVE  Inv'
<1>1. pc[r] = "find" /\ UNCHANGED <<row, now, req>>
  BY DEF FindByIdAndType
<1>2. /\ req[r].id \in Id /\ req[r].method = "PATCH" /\ req[r].patch \in Patch
      /\ req[r] # Null
  BY <1>1, InFlightRequest, StoreAssumption DEF InFlight, Inv, ControlOf
<1>3. CASE /\ pc' = [pc EXCEPT ![r] = "failed"]
           /\ UNCHANGED loc
  BY <1>1, <1>2, <1>3 DEF Inv, TypeOK, ControlOf, SentFor
<1>4. CASE /\ Stored(req[r].id, req[r].type)
           /\ loc' = [loc EXCEPT ![r] = Patched(row[req[r].id], req[r].patch, now)]
           /\ pc' = [pc EXCEPT ![r] = "save"]
  <2> DEFINE old == row[req[r].id]
             new == Patched(old, req[r].patch, now)
  <2>1. old \in Token /\ SentFor(req[r].id, old)
    BY <1>2, <1>4 DEF Stored, Inv, TypeOK
  <2>2. new \in Token /\ new.type = old.type /\ new.contract = old.contract
    BY <1>2, <2>1, PatchedToken DEF Inv, TypeOK
  <2>3. SentFor(req[r].id, new)
    BY <2>1, <2>2 DEF SentFor
  <2> HIDE DEF new
  <2>4. TypeOK'
    BY <1>1, <1>4, <2>2 DEF Inv, TypeOK, new
  <2>5. \A s \in Req : ControlOf(s)'
    BY <1>1, <1>2, <1>4, <2>2 DEF Inv, TypeOK, ControlOf, new
  <2>6. \A s \in Req : pc'[s] = "save" => SentFor(req[s].id, loc[s])'
    BY <1>1, <1>4, <2>3 DEF Inv, TypeOK, SentFor, new
  <2>. QED
    BY <1>1, <2>4, <2>5, <2>6 DEF Inv, SentFor
<1>. QED
  BY <1>3, <1>4 DEF FindByIdAndType, goto

LEMMA InvSave ==
    ASSUME Inv, NEW r \in Req, Save(r)
    PROVE  Inv'
<1> DEFINE id == req[r].id
           new == Saved(id, loc[r])
<1>1. pc[r] = "save" /\ UNCHANGED <<now, req, loc>>
  BY DEF Save, Put
<1>2. PICK l \in {"ok", "failed"} : pc' = [pc EXCEPT ![r] = l]
  BY DEF Save, goto
<1>3. id \in Id /\ loc[r] \in Token /\ SentFor(id, loc[r]) /\ req[r] # Null
  BY <1>1, InFlightRequest, StoreAssumption DEF InFlight, Inv, ControlOf
<1>4. row' = [row EXCEPT ![id] = new]
  BY DEF Save, Put
<1>5. new \in Token /\ new.type = loc[r].type /\ new.contract = loc[r].contract
  BY <1>3, SavedToken DEF Inv, TypeOK
<1>6. SentFor(id, new)
  BY <1>3, <1>5 DEF SentFor
<1> HIDE DEF new, id
<1>7. TypeOK'
  BY <1>1, <1>2, <1>3, <1>4, <1>5 DEF Inv, TypeOK
<1>8. \A s \in Req : ControlOf(s)'
  BY <1>1, <1>2, <1>3 DEF Inv, TypeOK, ControlOf
<1>9. \A i \in Id : row'[i] # Null => SentFor(i, row[i])'
  BY <1>1, <1>3, <1>4, <1>6 DEF Inv, TypeOK, SentFor
<1>10. \A s \in Req : pc'[s] = "save" => SentFor(req[s].id, loc[s])'
  BY <1>1, <1>2 DEF Inv, TypeOK, SentFor
<1>. QED
  BY <1>7, <1>8, <1>9, <1>10 DEF Inv

(* A handler that fails or dies leaves the table as it is. *)
LEMMA InvEnds ==
    ASSUME Inv, UNCHANGED <<row, req, loc>>, now' \in Nat,
           pc' \in [Req -> {"idle", "find", "save", "ok", "failed", "lost"}],
           \A r \in Req : \/ pc'[r] = pc[r]
                          \/ /\ pc[r] \in InFlight
                             /\ pc'[r] \in {"failed", "lost"}
    PROVE  Inv'
BY DEF Inv, TypeOK, ControlOf, SentFor, InFlight

LEMMA InvStep == Inv /\ [Next]_vars => Inv'
<1> SUFFICES ASSUME Inv, [Next]_vars PROVE Inv'
  OBVIOUS
<1>1. CASE \E r \in Req : Arrive(r) \/ DatabaseAnswers(r)
  BY <1>1, InvPut, InvPatch, InvFind, InvSave DEF Arrive, DatabaseAnswers
<1>2. ASSUME NEW r \in Req, CallFails(r) PROVE Inv'
  BY <1>2, InvEnds DEF CallFails, goto, Inv, TypeOK
<1>3. CASE Crash
  BY <1>3, InvEnds DEF Crash, Inv, TypeOK, InFlight
<1>4. CASE Tick /\ UNCHANGED <<row, pc, req, loc>>
  BY <1>4, InvEnds DEF Tick, Inv, TypeOK
<1>5. CASE UNCHANGED vars
  BY <1>5, InvEnds DEF vars, Inv, TypeOK
<1>. QED
  BY <1>1, <1>2, <1>3, <1>4, <1>5 DEF Next

THEOREM TokensInvariance == Spec => []Inv
BY InvInit, InvStep, PTL DEF Spec

(***************************************************************************)
(* Rows, requests and handlers keep their types, however requests overlap. *)
(***************************************************************************)
THEOREM TokensTypeCorrect == Spec => []TypeOK
<1>1. Inv => TypeOK
  BY DEF Inv
<1>. QED
  BY <1>1, TokensInvariance, PTL

(***************************************************************************)
(* Type, contract and issuer of a row were sent together for that id, for  *)
(* any number of overlapping PUTs and PATCHes.                             *)
(***************************************************************************)
THEOREM TokenIdentity == Spec => []IdentityOfOnePut
<1>1. Inv => IdentityOfOnePut
  BY DEF Inv, IdentityOfOnePut, SentFor
<1>. QED
  BY <1>1, TokensInvariance, PTL

-----------------------------------------------------------------------------
(***************************************************************************)
(* What whoever reads the table meanwhile sees of the handlers: each of    *)
(* their steps is one upsert, of a token that bears no stamp of the        *)
(* future.                                                                 *)
(***************************************************************************)
StampsOK ==
    /\ \A id \in Id : row[id] # Null => row[id].lastUpdated <= now
    /\ \A r \in Req : pc[r] = "save" => loc[r].lastUpdated <= now

Upserts == \E id \in Id, t \in TokenOf(0..now) : Put(id, t)

(* A patch stamps with the clock or leaves the stamp alone.                *)
LEMMA PatchedStamp ==
    ASSUME NEW t \in Token, NEW p \in Patch, NEW stamp \in Nat,
           t.lastUpdated <= stamp
    PROVE  Patched(t, p, stamp).lastUpdated <= stamp
BY StoreAssumption
   DEF Patched, Invalidated, WithWhitelist, WithText, Token, TokenOf, Patch

LEMMA StampsArrive ==
    ASSUME Inv, StampsOK, NEW r \in Req, PutToken(r)
    PROVE  StampsOK'
<1>1. PICK q \in RequestOf(0..now) :
         /\ q.method = "PUT"
         /\ loc' = [loc EXCEPT ![r] = q.token]
  BY DEF PutToken
<1>2. q.token \in TokenOf(0..now)
  BY <1>1 DEF RequestOf
<1>3. now \in Nat /\ q.token.lastUpdated <= now
  BY <1>2 DEF TokenOf, Inv, TypeOK
<1>4. /\ pc' = [pc EXCEPT ![r] = "save"] /\ UNCHANGED <<row, now>>
      /\ pc \in [Req -> {"idle", "find", "save", "ok", "failed", "lost"}]
      /\ loc \in [Req -> Token \cup {Null}]
  BY DEF PutToken, goto, Inv, TypeOK
<1>. QED
  BY <1>1, <1>3, <1>4 DEF StampsOK

LEMMA StampsFind ==
    ASSUME Inv, StampsOK, NEW r \in Req, FindByIdAndType(r)
    PROVE  StampsOK'
<1>1. /\ pc[r] = "find" /\ UNCHANGED <<row, now, req>>
      /\ pc \in [Req -> {"idle", "find", "save", "ok", "failed", "lost"}]
      /\ loc \in [Req -> Token \cup {Null}]
      /\ row \in [Id -> Token \cup {Null}]
      /\ now \in Nat
  BY DEF FindByIdAndType, Inv, TypeOK
<1>2. CASE ~Stored(req[r].id, req[r].type)
  BY <1>1, <1>2 DEF FindByIdAndType, goto, StampsOK
<1>3. CASE Stored(req[r].id, req[r].type)
  <2>1. /\ loc' = [loc EXCEPT ![r] = Patched(row[req[r].id], req[r].patch, now)]
        /\ pc' = [pc EXCEPT ![r] = "save"]
    BY <1>3 DEF FindByIdAndType, goto
  <2>2. /\ req[r].id \in Id /\ req[r].method = "PATCH"
        /\ req[r].patch \in Patch
    BY <1>1, InFlightRequest DEF InFlight, Inv, ControlOf
  <2>3. row[req[r].id] \in Token /\ row[req[r].id].lastUpdated <= now
    BY <1>1, <1>3, <2>2 DEF Stored, StampsOK
  <2>4. Patched(row[req[r].id], req[r].patch, now).lastUpdated <= now
    BY <1>1, <2>2, <2>3, PatchedStamp
  <2>. QED
    BY <1>1, <2>1, <2>4 DEF StampsOK
<1>. QED
  BY <1>2, <1>3

(* A save is the upsert of a token that is stamped already.                *)
LEMMA StampsSave ==
    ASSUME Inv, StampsOK, NEW r \in Req, Save(r)
    PROVE  StampsOK' /\ Upserts
<1>1. /\ pc[r] = "save" /\ Put(req[r].id, loc[r]) /\ UNCHANGED <<now, req, loc>>
      /\ pc \in [Req -> {"idle", "find", "save", "ok", "failed", "lost"}]
      /\ row \in [Id -> Token \cup {Null}]
      /\ now \in Nat
  BY DEF Save, Put, Inv, TypeOK
<1>2. req[r].id \in Id /\ loc[r] \in Token
  BY <1>1, InFlightRequest DEF InFlight, Inv, ControlOf
<1>3. loc[r].lastUpdated <= now
  BY <1>1 DEF StampsOK
<1>4. Upserts
  <2>1. loc[r] \in TokenOf(0..now)
    BY <1>1, <1>2, <1>3 DEF Token, TokenOf
  <2>. QED
    BY <1>1, <1>2, <2>1 DEF Upserts
<1>5. \A id \in Id : row'[id] # Null => row'[id].lastUpdated <= now
  <2>1. row' = [row EXCEPT ![req[r].id] = Saved(req[r].id, loc[r])]
    BY <1>1 DEF Put
  <2>2. Saved(req[r].id, loc[r]).lastUpdated <= now
    BY <1>1, <1>2, <1>3, SavedToken
  <2>. QED
    BY <1>1, <2>1, <2>2 DEF StampsOK
<1>6. \A q \in Req : pc'[q] = "save" => pc[q] = "save"
  BY <1>1 DEF Save, goto
<1>. QED
  BY <1>1, <1>4, <1>5, <1>6 DEF StampsOK

LEMMA StampsStep ==
    ASSUME Inv, StampsOK, [Next]_vars
    PROVE  StampsOK' /\ (row' = row \/ Upserts)
<1>1. ASSUME UNCHANGED row, UNCHANGED loc, now' \in Nat, now <= now',
             \A q \in Req : pc'[q] = "save" => pc[q] = "save"
      PROVE  StampsOK'
  <2>1. \A id \in Id : row[id] # Null => row[id].lastUpdated \in Nat
    BY DEF Inv, TypeOK, Token, TokenOf
  <2>2. \A q \in Req : pc[q] = "save" => loc[q].lastUpdated \in Nat
    BY DEF Inv, ControlOf, Token, TokenOf
  <2>3. now \in Nat
    BY DEF Inv, TypeOK
  <2>. QED
    BY <1>1, <2>1, <2>2, <2>3 DEF StampsOK
<1>2. /\ pc \in [Req -> {"idle", "find", "save", "ok", "failed", "lost"}]
      /\ now \in Nat
  BY DEF Inv, TypeOK
<1>3. CASE \E r \in Req : PutToken(r)
  BY <1>3, StampsArrive DEF PutToken
<1>4. CASE \E r \in Req : FindByIdAndType(r)
  BY <1>4, StampsFind DEF FindByIdAndType
<1>5. CASE \E r \in Req : Save(r)
  BY <1>5, StampsSave
<1>6. CASE \E r \in Req : PatchToken(r) \/ CallFails(r)
  BY <1>1, <1>2, <1>6 DEF PatchToken, CallFails, goto
<1>7. CASE Crash
  BY <1>1, <1>2, <1>7 DEF Crash
<1>8. CASE Tick /\ UNCHANGED <<row, pc, req, loc>>
  BY <1>1, <1>2, <1>8 DEF Tick
<1>9. CASE UNCHANGED vars
  BY <1>1, <1>2, <1>9 DEF vars
<1>. QED
  BY <1>3, <1>4, <1>5, <1>6, <1>7, <1>8, <1>9
     DEF Next, Arrive, DatabaseAnswers

(***************************************************************************)
(* PUT and PATCH, overlapping and stale as they may be, do to the table    *)
(* one upsert at a time, of a token stamped not later than now, so that    *)
(* what findAll orders and filters by is never of the future.              *)
(***************************************************************************)
THEOREM HandlersWriteByUpserts ==
    Spec => [][row' = row \/ \E id \in Id, t \in TokenOf(0..now) : Put(id, t)]_vars
<1>1. Init => StampsOK
  BY DEF Init, StoreInit, StampsOK
<1>2. Inv /\ StampsOK /\ [Next]_vars
        => [row' = row \/ \E id \in Id, t \in TokenOf(0..now) : Put(id, t)]_vars
  BY StampsStep DEF Upserts
<1>3. Inv /\ StampsOK /\ [Next]_vars => StampsOK'
  BY StampsStep
<1>. QED
  BY <1>1, <1>2, <1>3, TokensInvariance, PTL DEF Spec
=============================================================================
