--------------------------- MODULE LocationsProofs ---------------------------
(***************************************************************************)
(* Theorems about module Locations, for every value of its constants.      *)
(***************************************************************************)
EXTENDS Locations, TLAPS

Saving == {"lookup", "update", "create"}

(* Nothing is stamped later than now. *)
ClockOK == \A id \in Loc : row[id] # Null => row[id].lastUpdated <= now

(* Nobody wrote the row since r read it, so what r is going to save is     *)
(* still what it should make of the row.                                   *)
Drafted(r) ==
    LET q == req[r]
        w == row[q.id]
    IN  /\ pc[r] = "create" => w = Null
        /\ pc[r] = "update" => w # Null
        /\ w = Null => q.method = "PUT" /\ loc[r] = q.data
        /\ w # Null => /\ w.lastUpdated <= loc[r].lastUpdated
                       /\ loc[r] = Changed(q, w, loc[r].lastUpdated)

HandlerOK(r) ==
    /\ pc[r] \in InFlight => req[r] \in RequestOf(0..now)
    /\ pc[r] = "exists" => req[r].method = "PUT"
    /\ pc[r] \in Saving =>
          /\ req[r].method # "CONNECTOR"
          /\ loc[r] \in LocationOf(0..now)
          /\ loc[r].blind = IF req[r].method = "EVSE" THEN Null
                                                     ELSE req[r].data.blind
    /\ pc[r] \in Saving /\ r \notin stale => Drafted(r)

LocInv == TypeOK /\ ClockOK /\ \A r \in Req : HandlerOK(r)

-----------------------------------------------------------------------------
(* Helpers keep the types of locations and rows.                           *)
LEMMA ChangedType ==
    ASSUME NEW T, T \subseteq Nat, NEW q \in RequestOf(T), NEW w \in Row,
           NEW stamp \in T, q.method # "CONNECTOR"
    PROVE  /\ Changed(q, w, stamp) \in LocationOf(T)
           /\ Changed(q, w, stamp).lastUpdated = stamp
           /\ Changed(q, w, stamp).blind =
                 IF q.method = "EVSE" THEN Null ELSE q.data.blind
<1>1. ToDomain(w) \in LocationOf(Nat) /\ ToDomain(w).blind = Null
  BY DEF ToDomain, LocationOf, Row
<1>2. CASE q.method = "EVSE"
  BY <1>1, <1>2 DEF Changed, ToDomain, LocationOf, Row
<1>3. CASE q.method # "EVSE"
  <2>1. /\ q.data.base \in Base \cup {Null}
        /\ q.data.opt \in Opt \cup {Null}
        /\ q.data.blind \in Blind \cup {Null}
        /\ q.data.facilities \in Facilities \cup {Null}
    BY <1>3 DEF RequestOf, LocationOf, Patch
  <2>2. Changed(q, w, stamp) = WithNewData(ToDomain(w), q.data, stamp)
    BY <1>3 DEF Changed
  <2>3. /\ Named(q.data.base, ToDomain(w).base) \in Base
        /\ Named(q.data.opt, ToDomain(w).opt) \in Opt \cup {Null}
        /\ Named(q.data.blind, ToDomain(w).blind) = q.data.blind
        /\ Named(q.data.facilities, ToDomain(w).facilities) \in Facilities \cup {Null}
    BY <2>1 DEF Named, ToDomain, Row
  <2>. QED
    BY <1>3, <2>1, <2>2, <2>3 DEF WithNewData, LocationOf
<1>. QED
  BY <1>2, <1>3

LEMMA UpdatedType ==
    ASSUME NEW w \in Row, NEW l \in LocationOf(Nat)
    PROVE  /\ Updated(w, l) \in Row /\ Updated(w, l) # Null
           /\ Updated(w, l).lastUpdated = l.lastUpdated
           /\ Updated(w, l).blind = Named(l.blind, w.blind)
           /\ w.opt # Null => Updated(w, l).opt # Null
           /\ w.blind # Null => Updated(w, l).blind # Null
<1>1. Updated(w, l) \in Row
  BY LocationsAssumption DEF Updated, Named, Row, LocationOf
<1>. QED
  BY <1>1, LocationsAssumption DEF Updated, Named, Row

LEMMA CreatedType ==
    ASSUME NEW l \in LocationOf(Nat)
    PROVE  /\ Created(l) \in Row /\ Created(l) # Null
           /\ Created(l).lastUpdated = l.lastUpdated
<1>1. Created(l) \in Row
  BY LocationsAssumption DEF Created, Named, Row, LocationOf
<1>. QED
  BY <1>1, LocationsAssumption DEF Created, LocationOf

-----------------------------------------------------------------------------
LEMMA LocInit == Init => LocInv
BY DEF Init, LocInv, TypeOK, ClockOK, HandlerOK, InFlight, Saving

(* A step that moves r alone and no row leaves the others as they were.    *)
LEMMA OthersStay ==
    ASSUME LocInv, UNCHANGED <<row, now>>, NEW r \in Req, NEW q \in Req, q # r,
           pc'[q] = pc[q], req'[q] = req[q], loc'[q] = loc[q],
           q \in stale' <=> q \in stale
    PROVE  HandlerOK(q)'
BY DEF LocInv, HandlerOK, Drafted

LEMMA LocArrive ==
    ASSUME LocInv, NEW r \in Req, Arrive(r)
    PROVE  LocInv'
<1>1. PICK q \in RequestOf(0..now) :
         /\ req' = [req EXCEPT ![r] = q]
         /\ goto(r, IF q.method = "PUT" THEN "exists" ELSE "find")
  BY DEF Arrive
<1>2. UNCHANGED <<row, now, loc, stale>>
  BY DEF Arrive
<1> DEFINE l == IF q.method = "PUT" THEN "exists" ELSE "find"
<1>3. pc' = [pc EXCEPT ![r] = l] /\ l \in {"exists", "find"}
      /\ (l = "exists" => q.method = "PUT")
  BY <1>1 DEF goto
<1> HIDE DEF l
<1>4. (0..now) \subseteq Nat
  BY DEF LocInv, TypeOK
<1>5. q \in RequestOf(Nat)
  BY <1>4 DEF RequestOf, LocationOf
<1>6. pc'[r] = l /\ req'[r] = q
  BY <1>1, <1>3 DEF LocInv, TypeOK
<1>7. TypeOK'
  BY <1>1, <1>2, <1>3, <1>5 DEF LocInv, TypeOK, InFlight
<1>8. ClockOK'
  BY <1>2 DEF LocInv, ClockOK
<1>9. HandlerOK(r)'
  BY <1>2, <1>3, <1>6 DEF HandlerOK, Saving
<1>10. ASSUME NEW p \in Req, p # r PROVE HandlerOK(p)'
  <2>1. pc'[p] = pc[p] /\ req'[p] = req[p]
    BY <1>1, <1>3, <1>10 DEF LocInv, TypeOK
  <2>. QED
    BY <2>1, <1>2, <1>10, OthersStay
<1>. QED
  BY <1>7, <1>8, <1>9, <1>10 DEF LocInv

(* Handlers that are left disturb nobody.                                  *)
LEMMA LocLeaves ==
    ASSUME LocInv, NEW r \in Req, NEW how \in {"ok", "failed"}, Ends(r, how),
           UNCHANGED <<row, now>>
    PROVE  LocInv'
<1>1. /\ pc' = [pc EXCEPT ![r] = how]
      /\ req' = [req EXCEPT ![r] = Null]
      /\ loc' = [loc EXCEPT ![r] = Null]
      /\ stale' = stale \ {r}
  BY DEF Ends, Leaves, goto
<1>2. TypeOK'
  BY <1>1 DEF LocInv, TypeOK
<1>3. ClockOK'
  BY DEF LocInv, ClockOK
<1>4. HandlerOK(r)'
  <2>1. pc'[r] = how
    BY <1>1 DEF LocInv, TypeOK
  <2>. QED
    BY <2>1 DEF HandlerOK, InFlight, Saving
<1>5. ASSUME NEW p \in Req, p # r PROVE HandlerOK(p)'
  <2>1. /\ pc'[p] = pc[p] /\ req'[p] = req[p] /\ loc'[p] = loc[p]
        /\ p \in stale' <=> p \in stale
    BY <1>1, <1>5 DEF LocInv, TypeOK
  <2>. QED
    BY <2>1, <1>5, OthersStay
<1>. QED
  BY <1>2, <1>3, <1>4, <1>5 DEF LocInv

LEMMA LocExists ==
    ASSUME LocInv, NEW r \in Req, LocationExists(r)
    PROVE  LocInv'
<1>1. pc[r] = "exists" /\ UNCHANGED <<row, now, req, stale>>
  BY DEF LocationExists
<1>2. req[r] \in RequestOf(0..now) /\ req[r].method = "PUT"
  BY <1>1 DEF LocInv, HandlerOK, InFlight
<1>3. req[r].data \in LocationOf(0..now)
  BY <1>2 DEF RequestOf
<1>4. ClockOK'
  BY <1>1 DEF LocInv, ClockOK
<1>5. (0..now) \subseteq Nat
  BY DEF LocInv, TypeOK
<1>6. req[r].data \in LocationOf(Nat)
  BY <1>3, <1>5 DEF LocationOf
<1>7. ASSUME NEW p \in Req, p # r PROVE HandlerOK(p)'
  <2>1. pc'[p] = pc[p] /\ loc'[p] = loc[p]
    BY <1>7 DEF LocationExists, goto, LocInv, TypeOK
  <2>. QED
    BY <2>1, <1>1, <1>7, OthersStay
<1>8. CASE /\ row[req[r].id] = Null
           /\ loc' = [loc EXCEPT ![r] = req[r].data]
           /\ goto(r, "lookup")
  <2>1. pc'[r] = "lookup" /\ loc'[r] = req[r].data
    BY <1>8 DEF goto, LocInv, TypeOK
  <2>2. TypeOK'
    BY <1>1, <1>8, <1>6 DEF goto, LocInv, TypeOK, InFlight
  <2>3. HandlerOK(r)'
    BY <2>1, <1>1, <1>2, <1>3, <1>8 DEF HandlerOK, Drafted, Saving, InFlight
  <2>. QED
    BY <2>2, <2>3, <1>4, <1>7 DEF LocInv
<1>9. CASE goto(r, "find") /\ UNCHANGED loc
  <2>1. pc'[r] = "find"
    BY <1>9 DEF goto, LocInv, TypeOK
  <2>2. TypeOK'
    BY <1>1, <1>9 DEF goto, LocInv, TypeOK, InFlight
  <2>3. HandlerOK(r)'
    BY <2>1, <1>1, <1>2 DEF HandlerOK, Saving
  <2>. QED
    BY <2>2, <2>3, <1>4, <1>7 DEF LocInv
<1>. QED
  BY <1>8, <1>9 DEF LocationExists

LEMMA LocFind ==
    ASSUME LocInv, NEW r \in Req, FindLocationById(r)
    PROVE  LocInv'
<1> DEFINE q == req[r]
           w == row[q.id]
<1>1. pc[r] = "find" /\ UNCHANGED <<row, now>>
  BY DEF FindLocationById
<1>2. q \in RequestOf(0..now)
  BY <1>1 DEF LocInv, HandlerOK, InFlight
<1>3. CASE Ends(r, "failed")
  BY <1>1, <1>3, LocLeaves
<1>4. CASE /\ w # Null /\ q.method # "CONNECTOR"
           /\ loc' = [loc EXCEPT ![r] = Changed(q, w, now)]
           /\ goto(r, "lookup")
           /\ UNCHANGED <<req, stale>>
  <2>1. q.id \in Loc /\ w \in Row
    BY <1>2, <1>4 DEF RequestOf, LocInv, TypeOK
  <2>2. now \in 0..now /\ (0..now) \subseteq Nat
    BY DEF LocInv, TypeOK
  <2>3. /\ Changed(q, w, now) \in LocationOf(0..now)
        /\ Changed(q, w, now).lastUpdated = now
        /\ Changed(q, w, now).blind = IF q.method = "EVSE" THEN Null ELSE q.data.blind
    BY <1>2, <1>4, <2>1, <2>2, ChangedType
  <2>4. Changed(q, w, now) \in LocationOf(Nat)
    BY <2>2, <2>3 DEF LocationOf
  <2>5. pc'[r] = "lookup" /\ loc'[r] = Changed(q, w, now)
    BY <1>4 DEF goto, LocInv, TypeOK
  <2>6. TypeOK'
    BY <1>1, <1>4, <2>4 DEF goto, LocInv, TypeOK, InFlight
  <2>7. ClockOK'
    BY <1>1 DEF LocInv, ClockOK
  <2>8. w.lastUpdated <= now
    BY <1>4, <2>1 DEF LocInv, ClockOK
  <2>9. Drafted(r)'
    BY <1>1, <1>4, <2>3, <2>5, <2>8 DEF Drafted
  <2>10. HandlerOK(r)'
    BY <1>1, <1>2, <1>4, <2>3, <2>5, <2>9 DEF HandlerOK, Saving, InFlight
  <2>11. ASSUME NEW p \in Req, p # r PROVE HandlerOK(p)'
    <3>1. pc'[p] = pc[p] /\ loc'[p] = loc[p]
      BY <1>4, <2>11 DEF goto, LocInv, TypeOK
    <3>. QED
      BY <3>1, <1>1, <1>4, <2>11, OthersStay
  <2>. QED
    BY <2>6, <2>7, <2>10, <2>11 DEF LocInv
<1>. QED
  BY <1>3, <1>4 DEF FindLocationById

LEMMA LocLookUp ==
    ASSUME LocInv, NEW r \in Req, LookUp(r)
    PROVE  LocInv'
<1> DEFINE l == IF row[req[r].id] = Null THEN "create" ELSE "update"
<1>1. /\ pc[r] = "lookup" /\ pc' = [pc EXCEPT ![r] = l]
      /\ UNCHANGED <<row, now, req, loc, stale>>
  BY DEF LookUp, goto
<1>2. /\ l \in {"create", "update"}
      /\ l = "create" <=> row[req[r].id] = Null
  OBVIOUS
<1> HIDE DEF l
<1>3. pc'[r] = l
  BY <1>1 DEF LocInv, TypeOK
<1>4. TypeOK'
  BY <1>1, <1>2 DEF LocInv, TypeOK, InFlight
<1>5. ClockOK'
  BY <1>1 DEF LocInv, ClockOK
<1>6. HandlerOK(r)'
  BY <1>1, <1>2, <1>3 DEF LocInv, HandlerOK, Drafted, Saving, InFlight
<1>7. ASSUME NEW p \in Req, p # r PROVE HandlerOK(p)'
  <2>1. pc'[p] = pc[p]
    BY <1>1, <1>7 DEF LocInv, TypeOK
  <2>. QED
    BY <2>1, <1>1, <1>7, OthersStay
<1>. QED
  BY <1>4, <1>5, <1>6, <1>7 DEF LocInv

(* What a save that is carried out writes is a row, of what r sent.        *)
LEMMA SavedRow ==
    ASSUME LocInv, NEW r \in Req, NEW w,
           \/ pc[r] = "update" /\ row[req[r].id] # Null
              /\ w = Updated(row[req[r].id], loc[r])
           \/ pc[r] = "create" /\ row[req[r].id] = Null /\ w = Created(loc[r])
    PROVE  /\ req[r].id \in Loc
           /\ w \in Row /\ w # Null /\ w.lastUpdated <= now
<1>1. /\ req[r] \in RequestOf(0..now) /\ loc[r] \in LocationOf(0..now)
  BY DEF LocInv, HandlerOK, InFlight, Saving
<1>2. req[r].id \in Loc
  BY <1>1 DEF RequestOf
<1>3. loc[r] \in LocationOf(Nat) /\ loc[r].lastUpdated <= now
  <2>1. (0..now) \subseteq Nat /\ now \in Nat
    BY DEF LocInv, TypeOK
  <2>. QED
    BY <1>1, <2>1 DEF LocationOf
<1>4. row[req[r].id] # Null => row[req[r].id] \in Row
  BY <1>2 DEF LocInv, TypeOK
<1>. QED
  BY <1>2, <1>3, <1>4, UpdatedType, CreatedType

LEMMA LocWrites ==
    ASSUME LocInv, NEW r \in Req, NEW w, Writes(r, w), UNCHANGED now,
           req[r].id \in Loc, w \in Row, w.lastUpdated <= now
    PROVE  LocInv'
<1>1. PICK how \in {"ok", "failed"} : Leaves(r, how)
  BY DEF Writes
<1>2. /\ row' = [row EXCEPT ![req[r].id] = w]
      /\ stale' = (stale \cup {q \in Req : /\ pc[q] \in Saving
                                           /\ req[q].id = req[r].id}) \ {r}
  BY DEF Writes, Saving
<1>3. /\ pc' = [pc EXCEPT ![r] = how]
      /\ req' = [req EXCEPT ![r] = Null]
      /\ loc' = [loc EXCEPT ![r] = Null]
  BY <1>1 DEF Leaves, goto
<1>4. TypeOK'
  BY <1>2, <1>3 DEF LocInv, TypeOK
<1>5. ClockOK'
  BY <1>2 DEF LocInv, ClockOK, TypeOK
<1>6. HandlerOK(r)'
  <2>1. pc'[r] = how
    BY <1>3 DEF LocInv, TypeOK
  <2>. QED
    BY <2>1 DEF HandlerOK, InFlight, Saving
<1>7. ASSUME NEW p \in Req, p # r PROVE HandlerOK(p)'
  <2>1. pc'[p] = pc[p] /\ req'[p] = req[p] /\ loc'[p] = loc[p]
    BY <1>3, <1>7 DEF LocInv, TypeOK
  <2>2. HandlerOK(p)
    BY DEF LocInv
  <2>3. ASSUME pc'[p] \in Saving, p \notin stale' PROVE Drafted(p)'
    <3>1. p \notin stale /\ req[p].id # req[r].id
      BY <1>2, <1>7, <2>1, <2>3
    <3>2. row'[req[p].id] = row[req[p].id]
      <4>1. req[p].id \in Loc
        BY <2>1, <2>2, <2>3 DEF HandlerOK, Saving, InFlight, RequestOf
      <4>. QED
        BY <3>1, <4>1, <1>2 DEF LocInv, TypeOK
    <3>. QED
      BY <2>1, <2>2, <2>3, <3>1, <3>2 DEF HandlerOK, Drafted
  <2>. QED
    BY <2>1, <2>2, <2>3 DEF HandlerOK
<1>. QED
  BY <1>4, <1>5, <1>6, <1>7 DEF LocInv

LEMMA LocSave ==
    ASSUME LocInv, NEW r \in Req, Save(r)
    PROVE  LocInv'
<1>1. UNCHANGED now
  BY DEF Save
<1>2. CASE pc[r] = "update" /\ row[req[r].id] # Null
           /\ Writes(r, Updated(row[req[r].id], loc[r]))
  BY <1>1, <1>2, SavedRow, LocWrites
<1>3. CASE pc[r] = "create" /\ row[req[r].id] = Null
           /\ Writes(r, Created(loc[r]))
  BY <1>1, <1>3, SavedRow, LocWrites
<1>4. CASE Ends(r, "failed") /\ UNCHANGED row
  BY <1>1, <1>4, LocLeaves
<1>. QED
  BY <1>2, <1>3, <1>4 DEF Save

LEMMA LocCrash ==
    ASSUME LocInv, Crash
    PROVE  LocInv'
<1>1. /\ pc' = [r \in Req |-> IF pc[r] \in InFlight THEN "failed" ELSE pc[r]]
      /\ req' = [r \in Req |-> Null] /\ loc' = [r \in Req |-> Null]
      /\ stale' = {} /\ UNCHANGED <<row, now>>
  BY DEF Crash
<1>2. TypeOK'
  BY <1>1 DEF LocInv, TypeOK
<1>3. ASSUME NEW r \in Req PROVE HandlerOK(r)'
  <2>1. pc'[r] \notin InFlight
    BY <1>1 DEF InFlight
  <2>. QED
    BY <2>1 DEF HandlerOK, InFlight, Saving
<1>. QED
  BY <1>1, <1>2, <1>3 DEF LocInv, ClockOK

LEMMA LocTick ==
    ASSUME LocInv, Tick
    PROVE  LocInv'
<1>1. now' = now + 1 /\ now \in Nat /\ UNCHANGED <<row, pc, req, loc, stale>>
  BY DEF Tick, LocInv, TypeOK
<1>2. (0..now) \subseteq (0..now')
  BY <1>1
<1>3. TypeOK'
  BY <1>1 DEF LocInv, TypeOK
<1>4. ClockOK'
  <2>1. \A id \in Loc : row[id] # Null => row[id].lastUpdated \in Nat
    BY DEF LocInv, TypeOK, Row
  <2>. QED
    BY <1>1, <2>1 DEF LocInv, ClockOK
<1>5. ASSUME NEW r \in Req PROVE HandlerOK(r)'
  <2>1. RequestOf(0..now) \subseteq RequestOf(0..now')
    BY <1>2 DEF RequestOf, LocationOf
  <2>2. LocationOf(0..now) \subseteq LocationOf(0..now')
    BY <1>2 DEF LocationOf
  <2>. QED
    BY <1>1, <2>1, <2>2 DEF LocInv, HandlerOK, Drafted
<1>. QED
  BY <1>3, <1>4, <1>5 DEF LocInv

LEMMA LocStep == LocInv /\ [Next]_vars => LocInv'
<1> SUFFICES ASSUME LocInv, [Next]_vars PROVE LocInv'
  OBVIOUS
<1>1. CASE UNCHANGED vars
  BY <1>1 DEF vars, LocInv, TypeOK, ClockOK, HandlerOK, Drafted
<1>2. ASSUME NEW r \in Req, CallFails(r) PROVE LocInv'
  BY <1>2, LocLeaves DEF CallFails
<1>3. ASSUME NEW r \in Req, DatabaseAnswers(r) PROVE LocInv'
  BY <1>3, LocExists, LocFind, LocLookUp, LocSave DEF DatabaseAnswers
<1>. QED
  BY <1>1, <1>2, <1>3, LocArrive, LocCrash, LocTick DEF Next

-----------------------------------------------------------------------------
(* A step of one handler does not move the others.                         *)
LEMMA HandlersAreApart ==
    ASSUME LocInv, NEW q \in Req, NEW r \in Req, q # r,
           Arrive(q) \/ DatabaseAnswers(q) \/ CallFails(q)
    PROVE  pc'[r] = pc[r]
<1>1. pc \in [Req -> InFlight \cup {"idle", "ok", "failed"}]
  BY DEF LocInv, TypeOK
<1>2. ASSUME NEW l, goto(q, l) PROVE pc'[r] = pc[r]
  BY <1>1, <1>2 DEF goto
<1>3. \E l : goto(q, l)
  BY DEF Arrive, DatabaseAnswers, CallFails, LocationExists, FindLocationById,
         LookUp, Save, Writes, Ends, Leaves
<1>. QED
  BY <1>2, <1>3

(* What r writes if its save is carried out. *)
Written(r, w) ==
    /\ Writes(r, w)
    /\ \/ /\ pc[r] = "update" /\ row[req[r].id] # Null
          /\ w = Updated(row[req[r].id], loc[r])
       \/ /\ pc[r] = "create" /\ row[req[r].id] = Null
          /\ w = Created(loc[r])

(* A row changes, or a save succeeds, by a write of its own.               *)
LEMMA SavesWrite ==
    ASSUME LocInv, [Next]_vars, NEW r \in Req, Saves(r),
           pc'[r] = "ok" \/ row' # row
    PROVE  \E w : Written(r, w)
<1>1. pc[r] \in {"update", "create"} /\ pc'[r] # pc[r]
  BY DEF Saves
<1>2. pc \in [Req -> InFlight \cup {"idle", "ok", "failed"}]
  BY DEF LocInv, TypeOK
<1>3. ~UNCHANGED vars /\ ~Tick
  BY <1>1 DEF vars, Tick
<1>4. ~Crash
  BY <1>1, <1>2 DEF Crash, InFlight
<1>5. PICK q \in Req : Arrive(q) \/ DatabaseAnswers(q) \/ CallFails(q)
  BY <1>3, <1>4 DEF Next
<1>6. q = r
  BY <1>1, <1>5, HandlersAreApart
<1>7. ASSUME Ends(r, "failed"), UNCHANGED row PROVE FALSE
  BY <1>2, <1>7 DEF Ends, Leaves, goto
<1>8. Save(r)
  BY <1>1, <1>5, <1>6, <1>7
     DEF Arrive, CallFails, DatabaseAnswers, LocationExists, FindLocationById, LookUp
<1>. QED
  BY <1>7, <1>8 DEF Save, Written

LEMMA RowsChangeBySaves ==
    ASSUME LocInv, [Next]_vars, row' # row
    PROVE  \E r \in Req : Saves(r) /\ \E w : Written(r, w)
<1>1. PICK r \in Req : Save(r)
  BY DEF Next, vars, Crash, Tick, Arrive, CallFails, DatabaseAnswers,
         LocationExists, FindLocationById, LookUp
<1>2. PICK w : Written(r, w)
  BY <1>1 DEF Save, Written
<1>3. Saves(r)
  <2>1. pc'[r] \in {"ok", "failed"}
    BY <1>2 DEF Written, Writes, Leaves, goto, LocInv, TypeOK
  <2>. QED
    BY <1>2, <2>1 DEF Saves, Written
<1>. QED
  BY <1>2, <1>3

(* What the invariant says of a request that writes.                       *)
LEMMA WriterFacts ==
    ASSUME LocInv, NEW r \in Req, NEW w, Written(r, w)
    PROVE  /\ req[r] \in RequestOf(0..now) /\ req[r].id \in Loc
           /\ loc[r] \in LocationOf(Nat) /\ loc[r].lastUpdated \in 0..now
           /\ row[req[r].id] # Null => row[req[r].id] \in Row
           /\ row' = [row EXCEPT ![req[r].id] = w]
           /\ row'[req[r].id] = w
           /\ w \in Row /\ w # Null
<1>1. req[r] \in RequestOf(0..now) /\ loc[r] \in LocationOf(0..now)
  BY DEF LocInv, HandlerOK, InFlight, Saving, Written
<1>2. req[r].id \in Loc
  BY <1>1 DEF RequestOf
<1>3. (0..now) \subseteq Nat
  BY DEF LocInv, TypeOK
<1>4. loc[r] \in LocationOf(Nat) /\ loc[r].lastUpdated \in 0..now
  BY <1>1, <1>3 DEF LocationOf
<1>5. row \in [Loc -> Row \cup {Null}]
  BY DEF LocInv, TypeOK
<1>6. row' = [row EXCEPT ![req[r].id] = w]
  BY DEF Written, Writes
<1>7. w \in Row /\ w # Null
  BY SavedRow DEF Written
<1>. QED
  BY <1>1, <1>2, <1>4, <1>5, <1>6, <1>7

-----------------------------------------------------------------------------
LEMMA KeepStep ==
    ASSUME LocInv, [Next]_vars, NEW id \in Loc, row[id] # Null
    PROVE  /\ row'[id] # Null
           /\ row[id].opt # Null => row'[id].opt # Null
           /\ row[id].blind # Null => row'[id].blind # Null
<1>1. CASE row' = row
  BY <1>1
<1>2. CASE row' # row
  <2>1. PICK r \in Req : \E w : Written(r, w)
    BY <1>2, RowsChangeBySaves
  <2>2. PICK w : Written(r, w)
    BY <2>1
  <2>3. CASE req[r].id = id
    <3>1. w = Updated(row[id], loc[r])
      BY <2>2, <2>3 DEF Written
    <3>. QED
      BY <2>2, <2>3, <3>1, WriterFacts, UpdatedType
  <2>4. CASE req[r].id # id
    <3>1. row'[id] = row[id]
      BY <2>2, <2>4, WriterFacts DEF LocInv, TypeOK
    <3>. QED
      BY <3>1
  <2>. QED
    BY <2>3, <2>4
<1>. QED
  BY <1>1, <1>2

LEMMA BlindStep ==
    ASSUME LocInv, [Next]_vars, NEW id \in Loc,
           row[id] # Null, row'[id].blind # row[id].blind
    PROVE  \E r \in Req : /\ Saves(r)
                          /\ req[r].id = id
                          /\ req[r].method \in {"PUT", "PATCH"}
                          /\ req[r].data.blind = row'[id].blind
<1>1. PICK r \in Req : Saves(r) /\ \E w : Written(r, w)
  BY RowsChangeBySaves
<1>2. PICK w : Written(r, w)
  BY <1>1
<1>3. req[r].id = id
  BY <1>2, WriterFacts DEF LocInv, TypeOK
<1>4. row'[id].blind = Named(loc[r].blind, row[id].blind)
  BY <1>2, <1>3, WriterFacts, UpdatedType DEF Written
<1>5. loc[r].blind # Null /\ row'[id].blind = loc[r].blind
  BY <1>4 DEF Named
<1>6. /\ req[r].method # "CONNECTOR"
      /\ loc[r].blind = IF req[r].method = "EVSE" THEN Null ELSE req[r].data.blind
  BY <1>2 DEF LocInv, HandlerOK, Saving, Written
<1>7. req[r].method # "EVSE"
  BY <1>5, <1>6
<1>8. req[r].method \in {"PUT", "PATCH"}
  BY <1>2, <1>6, <1>7, WriterFacts DEF RequestOf
<1>. QED
  BY <1>1, <1>3, <1>5, <1>6, <1>8

(* Saving what was made of the row w is one change of w.                   *)
LEMMA UpdatedEffect ==
    ASSUME NEW q \in RequestOf(Nat), q.method # "CONNECTOR",
           NEW w \in Row, w # Null, NEW stamp \in Nat
    PROVE  Updated(w, Changed(q, w, stamp))
              = [Effect(q, w) EXCEPT !.lastUpdated = stamp]
<1>1. CASE q.method = "EVSE"
  <2>1. Effect(q, w) = [w EXCEPT !.facilities = NoFacilities]
    BY <1>1 DEF Effect
  <2>2. Changed(q, w, stamp) = [ base |-> w.base, opt |-> w.opt, blind |-> Null,
                                 facilities |-> Null, lastUpdated |-> stamp ]
    BY <1>1 DEF Changed, ToDomain
  <2>3. /\ Named(w.opt, w.opt) = w.opt
        /\ Named(Null, w.blind) = w.blind
        /\ Named(Null, NoFacilities) = NoFacilities
    BY DEF Named
  <2>4. Updated(w, Changed(q, w, stamp))
           = [ base |-> w.base, opt |-> w.opt, blind |-> w.blind,
               facilities |-> NoFacilities, lastUpdated |-> stamp ]
    BY <2>2, <2>3 DEF Updated
  <2>5. Effect(q, w)
           = [ base |-> w.base, opt |-> w.opt, blind |-> w.blind,
               facilities |-> NoFacilities, lastUpdated |-> w.lastUpdated ]
    BY <2>1 DEF Row
  <2>. QED
    BY <2>4, <2>5
<1>2. CASE q.method # "EVSE"
  <2> DEFINE d == q.data
             l == Changed(q, w, stamp)
  <2>1. Effect(q, w) = [ base |-> Named(d.base, w.base),
                         opt |-> Named(d.opt, w.opt),
                         blind |-> Named(d.blind, w.blind),
                         facilities |-> Named(d.facilities, NoFacilities),
                         lastUpdated |-> w.lastUpdated ]
    BY <1>2 DEF Effect
  <2>2. l = [ base |-> Named(d.base, w.base), opt |-> Named(d.opt, w.opt),
              blind |-> Named(d.blind, Null),
              facilities |-> Named(d.facilities, Null), lastUpdated |-> stamp ]
    BY <1>2 DEF Changed, WithNewData, ToDomain
  <2>3. /\ Named(Named(d.opt, w.opt), w.opt) = Named(d.opt, w.opt)
        /\ Named(Named(d.blind, Null), w.blind) = Named(d.blind, w.blind)
        /\ Named(Named(d.facilities, Null), NoFacilities)
              = Named(d.facilities, NoFacilities)
    BY DEF Named
  <2>4. Updated(w, l) = [ base |-> Named(d.base, w.base),
                          opt |-> Named(d.opt, w.opt),
                          blind |-> Named(d.blind, w.blind),
                          facilities |-> Named(d.facilities, NoFacilities),
                          lastUpdated |-> stamp ]
    BY <2>2, <2>3 DEF Updated
  <2>. QED
    BY <2>1, <2>4
<1>. QED
  BY <1>1, <1>2

LEMMA AtomicStep ==
    ASSUME LocInv, [Next]_vars, NEW r \in Req, Saves(r), r \notin stale,
           pc'[r] = "ok" \/ row' # row
    PROVE  LET id == req[r].id
               e  == Effect(req[r], row[id])
           IN  \E stamp \in e.lastUpdated..now :
                  row' = [row EXCEPT ![id] = [e EXCEPT !.lastUpdated = stamp]]
<1> DEFINE q == req[r]
           w == row[q.id]
<1>1. PICK new : Written(r, new)
  BY SavesWrite
<1>2. /\ q \in RequestOf(0..now) /\ loc[r] \in LocationOf(Nat)
      /\ loc[r].lastUpdated \in 0..now
      /\ w # Null => w \in Row
      /\ row' = [row EXCEPT ![q.id] = new]
  BY <1>1, WriterFacts
<1>3. Drafted(r) /\ q.method # "CONNECTOR"
  BY <1>1 DEF LocInv, HandlerOK, Saving, Written
<1>4. CASE w = Null
  <2>1. q.method = "PUT" /\ loc[r] = q.data /\ new = Created(loc[r])
    BY <1>1, <1>3, <1>4 DEF Drafted, Written
  <2>2. Effect(q, w) = Created(loc[r])
    BY <2>1, <1>4 DEF Effect
  <2>3. Created(loc[r]) \in Row /\ Created(loc[r]).lastUpdated = loc[r].lastUpdated
    BY <1>2, CreatedType
  <2>4. [Effect(q, w) EXCEPT !.lastUpdated = loc[r].lastUpdated] = new
    BY <2>1, <2>2, <2>3 DEF Row
  <2>5. loc[r].lastUpdated \in Effect(q, w).lastUpdated..now
    BY <1>2, <2>2, <2>3
  <2>. QED
    BY <1>2, <2>4, <2>5
<1>5. CASE w # Null
  <2> DEFINE stamp == loc[r].lastUpdated
  <2>1. /\ loc[r] = Changed(q, w, stamp)
        /\ w.lastUpdated <= stamp
        /\ new = Updated(w, loc[r])
    BY <1>1, <1>3, <1>5 DEF Drafted, Written
  <2>2. q \in RequestOf(Nat)
    <3>1. (0..now) \subseteq Nat
      BY DEF LocInv, TypeOK
    <3>. QED
      BY <1>2, <3>1 DEF RequestOf, LocationOf
  <2>3. new = [Effect(q, w) EXCEPT !.lastUpdated = stamp]
    BY <1>2, <1>3, <1>5, <2>1, <2>2, UpdatedEffect
  <2>4. Effect(q, w).lastUpdated = w.lastUpdated
    BY <1>2, <1>5 DEF Effect, Row
  <2>5. stamp \in Effect(q, w).lastUpdated..now
    BY <1>2, <1>5, <2>1, <2>4 DEF Row
  <2>. QED
    BY <1>2, <2>3, <2>5
<1>. QED
  BY <1>4, <1>5

-----------------------------------------------------------------------------
(* Every reachable state satisfies the inductive invariant: the handlers   *)
(* carry aggregates made of what they read and of what they were sent, and *)
(* nothing bears a date to come (EmpLocationService and                    *)
(* LocationPrismaRepository, for any number of locations and requests).    *)
THEOREM LocationsInvariance == Spec => []LocInv
<1>. QED
  BY LocInit, LocStep, PTL DEF Spec

(* The table, the handlers and what they hold keep their types.            *)
THEOREM LocationsTypeCorrect == Spec => []TypeOK
<1>1. LocInv => TypeOK
  BY DEF LocInv
<1>. QED
  BY <1>1, LocationsInvariance, PTL

(* Whatever requests overlap, fail, are repeated or are cut off by a crash *)
(* in saveLocation: no location disappears, and no PATCH and no PUT of an  *)
(* EVSE or a connector empties an optional column that holds a value.      *)
THEOREM OnlyPutsCanEmpty == Spec => OnlyPutsEmpty
<1>1. LocInv /\ [Next]_vars =>
        [\A id \in Loc : row[id] # Null =>
            /\ row'[id] # Null
            /\ \/ /\ row[id].opt # Null => row'[id].opt # Null
                  /\ row[id].blind # Null => row'[id].blind # Null
               \/ \E r \in Req : /\ Saves(r)
                                 /\ req[r].id = id
                                 /\ req[r].method = "PUT"]_vars
  BY KeepStep
<1>. QED
  BY <1>1, LocationsInvariance, PTL DEF Spec, OnlyPutsEmpty

(* The columns that mapPrismaToDomain does not read are never reverted by  *)
(* a stale aggregate: one changes only to what the request saving it has   *)
(* named.                                                                  *)
THEOREM BlindColumnsFollowRequests == Spec => BlindColumnsNotReverted
<1>1. LocInv /\ [Next]_vars =>
        [\A id \in Loc :
            row[id] # Null /\ row'[id].blind # row[id].blind =>
               \E r \in Req : /\ Saves(r)
                              /\ req[r].id = id
                              /\ req[r].method \in {"PUT", "PATCH"}
                              /\ req[r].data.blind = row'[id].blind]_vars
  BY BlindStep
<1>. QED
  BY <1>1, LocationsInvariance, PTL DEF Spec, BlindColumnsNotReverted

(* A PUT or a PATCH whose row nobody else writes between its read and its  *)
(* write is one atomic change of the row, and does not set last_updated    *)
(* back, whatever other requests do to other rows or fail to do to this.   *)
THEOREM UndisturbedRequestsAreAtomic == Spec => UndisturbedIsAtomic
<1>1. LocInv /\ [Next]_vars =>
        [\A r \in Req :
            Saves(r) /\ r \notin stale /\ (pc'[r] = "ok" \/ row' # row) =>
               LET id == req[r].id
                   e  == Effect(req[r], row[id])
               IN  \E stamp \in e.lastUpdated..now :
                      row' = [row EXCEPT ![id] = [e EXCEPT !.lastUpdated = stamp]]]_vars
  BY AtomicStep
<1>. QED
  BY <1>1, LocationsInvariance, PTL DEF Spec, UndisturbedIsAtomic

-----------------------------------------------------------------------------
(***************************************************************************)
(* Requests that are apart.  The condition is only about the awaits        *)
(* between the reading of a row and its writing: two handlers of one       *)
(* location are never there at the same time.                              *)
(***************************************************************************)
OnePerLocation ==
    \A r, s \in Req : /\ pc[r] \in Saving /\ pc[s] \in Saving
                      /\ req[r].id = req[s].id
                      => r = s

(* Then no aggregate ever grows stale.                                     *)
LEMMA StaleStep ==
    ASSUME stale = {}, OnePerLocation, [Next]_vars
    PROVE  stale' = {}
<1>1. ASSUME NEW r \in Req, NEW w, Writes(r, w), pc[r] \in {"update", "create"}
      PROVE  stale' = {}
  <2>1. \A q \in Req : pc[q] \in Saving /\ req[q].id = req[r].id => q = r
    BY <1>1 DEF OnePerLocation, Saving
  <2>2. stale' = (stale \cup {q \in Req : /\ pc[q] \in Saving
                                          /\ req[q].id = req[r].id}) \ {r}
    BY <1>1 DEF Writes, Saving
  <2>. QED
    BY <2>1, <2>2
<1>2. ASSUME NEW r \in Req, NEW how, Ends(r, how)
      PROVE  stale' = {}
  BY <1>2 DEF Ends
<1>3. ASSUME NEW r \in Req, Save(r)
      PROVE  stale' = {}
  BY <1>1, <1>2, <1>3 DEF Save
<1>4. ASSUME NEW r \in Req, Arrive(r) \/ LocationExists(r) \/ FindLocationById(r)
                            \/ LookUp(r) \/ CallFails(r)
      PROVE  stale' = {}
  BY <1>2, <1>4 DEF Arrive, LocationExists, FindLocationById, LookUp, CallFails
<1>. QED
  BY <1>3, <1>4 DEF Next, DatabaseAnswers, Crash, Tick, vars

LEMMA NeverStale == Spec /\ []OnePerLocation => [](stale = {})
<1>1. Init => stale = {}
  BY DEF Init
<1>2. stale = {} /\ OnePerLocation /\ [Next]_vars => (stale = {})'
  BY StaleStep
<1>. QED
  BY <1>1, <1>2, PTL DEF Spec

(* A stamp of a row that an undisturbed request replaces is not later than *)
(* the new one.                                                            *)
LEMMA StampStep ==
    ASSUME LocInv, stale = {}, [Next]_vars, NEW id \in Loc, row[id] # Null
    PROVE  row[id].lastUpdated <= row'[id].lastUpdated
<1>1. CASE row' = row
  BY <1>1 DEF LocInv, TypeOK, Row
<1>2. CASE row' # row
  <2>1. PICK r \in Req : Saves(r) /\ \E w : Written(r, w)
    BY <1>2, RowsChangeBySaves
  <2> DEFINE q == req[r]
             e == Effect(q, row[q.id])
  <2>2. PICK stamp \in e.lastUpdated..now :
           row' = [row EXCEPT ![q.id] = [e EXCEPT !.lastUpdated = stamp]]
    BY <1>2, <2>1, AtomicStep
  <2>3. q \in RequestOf(0..now) /\ q.id \in Loc
    BY <2>1, WriterFacts
  <2>4. row \in [Loc -> Row \cup {Null}]
    BY DEF LocInv, TypeOK
  <2>5. CASE q.id # id
    BY <2>2, <2>4, <2>5 DEF Row
  <2>6. CASE q.id = id
    <3>1. row[id] \in Row
      BY <2>4
    <3>2. e = Effect(q, row[id])
      BY <2>6
    <3>3. "lastUpdated" \in DOMAIN e /\ e.lastUpdated = row[id].lastUpdated
      BY <3>1, <3>2 DEF Effect, Row
    <3>4. row'[id] = [e EXCEPT !.lastUpdated = stamp]
      BY <2>2, <2>4, <2>6
    <3> HIDE DEF e, q
    <3>5. row'[id].lastUpdated = stamp
      BY <3>3, <3>4
    <3>. QED
      BY <2>2, <3>1, <3>3, <3>5 DEF Row
  <2>. QED
    BY <2>5, <2>6
<1>. QED
  BY <1>1, <1>2

(***************************************************************************)
(* When requests for one location are apart, each that is carried out is   *)
(* one atomic change: UndisturbedIsAtomic without its proviso.             *)
(***************************************************************************)
THEOREM ApartLocationsAreAtomic ==
    Spec /\ []OnePerLocation =>
      [][\A r \in Req :
            Saves(r) /\ (pc'[r] = "ok" \/ row' # row) =>
               LET id == req[r].id
                   e  == Effect(req[r], row[id])
               IN  \E stamp \in e.lastUpdated..now :
                      row' = [row EXCEPT ![id] = [e EXCEPT !.lastUpdated = stamp]]]_vars
<1>1. LocInv /\ stale = {} /\ [Next]_vars =>
        [\A r \in Req :
            Saves(r) /\ (pc'[r] = "ok" \/ row' # row) =>
               LET id == req[r].id
                   e  == Effect(req[r], row[id])
               IN  \E stamp \in e.lastUpdated..now :
                      row' = [row EXCEPT ![id] = [e EXCEPT !.lastUpdated = stamp]]]_vars
  BY AtomicStep
<1>. QED
  BY <1>1, NeverStale, LocationsInvariance, PTL DEF Spec

(***************************************************************************)
(* And last_updated, by which the clients of the list ask for what is new, *)
(* never goes back.  Two requests between their reads and their writes can *)
(* set it back, for each has taken its stamp before it writes.             *)
(***************************************************************************)
THEOREM StampsNeverFall ==
    Spec /\ []OnePerLocation =>
      [][\A id \in Loc : row[id] # Null =>
            row[id].lastUpdated <= row'[id].lastUpdated]_vars
<1>1. LocInv /\ stale = {} /\ [Next]_vars =>
        [\A id \in Loc : row[id] # Null =>
            row[id].lastUpdated <= row'[id].lastUpdated]_vars
  BY StampStep
<1>. QED
  BY <1>1, NeverStale, LocationsInvariance, PTL DEF Spec
=============================================================================
