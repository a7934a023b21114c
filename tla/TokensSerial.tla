----------------------------- MODULE TokensSerial -----------------------------
(***************************************************************************)
(* What module Tokens promises when no PATCH overlaps another request for  *)
(* the same token: it implements AtomicTokens, and an invalidated token    *)
(* stays invalid.  PUTs may overlap each other, and PATCHes requests for   *)
(* other tokens.                                                           *)
(***************************************************************************)
EXTENDS TokensProofs

-----------------------------------------------------------------------------
(* updateToken is the merge of the abstract specification.                 *)
LEMMA PatchedIsMerged ==
    ASSUME NEW t \in Token, NEW p \in Patch, NEW stamp \in Nat
    PROVE  Patched(t, p, stamp) = Atomic!Merged(t, p, stamp)
<1> USE DEF Patched, Invalidated, WithWhitelist, WithText, Token, TokenOf, Patch,
            Atomic!Merged, Atomic!SaysNothing
<1>1. CASE p.valid = "false" /\ p.whitelist = Null /\ p.text = Null
  BY <1>1
<1>2. CASE p.valid = "false" /\ p.whitelist = Null /\ p.text # Null
  BY <1>2
<1>3. CASE p.valid = "false" /\ p.whitelist # Null /\ p.text = Null
  BY <1>3
<1>4. CASE p.valid = "false" /\ p.whitelist # Null /\ p.text # Null
  BY <1>4
<1>5. CASE p.valid # "false" /\ p.whitelist = Null /\ p.text = Null
  BY <1>5
<1>6. CASE p.valid # "false" /\ p.whitelist = Null /\ p.text # Null
  BY <1>6
<1>7. CASE p.valid # "false" /\ p.whitelist # Null /\ p.text = Null
  BY <1>7
<1>8. CASE p.valid # "false" /\ p.whitelist # Null /\ p.text # Null
  BY <1>8
<1>. QED
  BY <1>1, <1>2, <1>3, <1>4, <1>5, <1>6, <1>7, <1>8

(* A patch makes nothing valid, erases nothing and stamps with its time.   *)
LEMMA PatchedKeeps ==
    ASSUME NEW t \in Token, NEW p \in Patch, NEW stamp \in Nat
    PROVE  /\ Patched(t, p, stamp).valid => t.valid
           /\ Patched(t, p, stamp).text = Null => t.text = Null
           /\ Patched(t, p, stamp).lastUpdated \in {t.lastUpdated, stamp}
BY StoreAssumption
   DEF Patched, Invalidated, WithWhitelist, WithText, Token, TokenOf, Patch

(* So the upsert of a token patched from the row writes just that.         *)
LEMMA SavedPatched ==
    ASSUME NEW id \in Id, row[id] \in Token, NEW p \in Patch, NEW stamp \in Nat
    PROVE  Saved(id, Patched(row[id], p, stamp)) = Patched(row[id], p, stamp)
<1> DEFINE old == row[id]
           new == Patched(old, p, stamp)
<1>1. new \in Token /\ (new.text = Null => old.text = Null)
  BY PatchedToken, PatchedKeeps
<1> HIDE DEF new
<1>2. CASE new.text # Null
  BY <1>2 DEF Saved, new
<1>3. CASE new.text = Null
  <2>1. old.text = Null
    BY <1>1, <1>3
  <2>2. [new EXCEPT !.text = Null] = new
    BY <1>1, <1>3 DEF Token, TokenOf
  <2>3. Saved(id, new) = [new EXCEPT !.text = Null] \/ Saved(id, new) = new
    BY <2>1 DEF Saved
  <2>. QED
    BY <2>2, <2>3 DEF new
<1>. QED
  BY <1>2, <1>3

-----------------------------------------------------------------------------
(* What the handler of a PATCH is going to save is worked out from the row *)
(* as it still is.                                                         *)
UpToDate(r) ==
    LET old == row[req[r].id] IN
    /\ old \in Token
    /\ old.type = req[r].type
    /\ \E stamp \in Nat : /\ stamp >= old.lastUpdated /\ stamp <= now
                          /\ loc[r] = Patched(old, req[r].patch, stamp)

(* Handlers of PATCHes are up to date, and no stamp is of the future.      *)
ApartInv ==
    /\ Inv
    /\ \A id \in Id : row[id] # Null => row[id].lastUpdated <= now
    /\ \A r \in Req : pc[r] = "save" => loc[r].lastUpdated <= now
    /\ \A r \in Req : pc[r] = "save" /\ req[r].method = "PATCH" => UpToDate(r)

(* The condition: between the arrival of a PATCH and its end no other      *)
(* request for its token is at work.                                       *)
PatchesAlone ==
    \A r, s \in Req : /\ pc[r] \in InFlight /\ pc[s] \in InFlight
                      /\ req[r].method = "PATCH"
                      /\ req[r].id = req[s].id
                      => r = s

LEMMA ApartInit == Init => ApartInv
<1> SUFFICES ASSUME Init PROVE ApartInv
  OBVIOUS
<1>. QED
  BY InvInit DEF Init, StoreInit, ClockInit, ApartInv, InFlight

(* What one handler does to itself does not make another one outdated.     *)
LEMMA OthersStay ==
    ASSUME ApartInv, Inv', UNCHANGED <<row, now>>, NEW r \in Req,
           \A s \in Req : s # r => /\ pc'[s] = pc[s] /\ req'[s] = req[s]
                                   /\ loc'[s] = loc[s],
           pc'[r] = "save" => loc'[r].lastUpdated <= now,
           pc'[r] = "save" /\ req'[r].method = "PATCH" => UpToDate(r)'
    PROVE  ApartInv'
<1>1. ASSUME NEW s \in Req, s # r, UpToDate(s) PROVE UpToDate(s)'
  BY <1>1 DEF UpToDate
<1>. QED
  BY <1>1 DEF ApartInv

(* An arriving PUT has sent a stamp of the past, an arriving PATCH has not *)
(* read anything yet.                                                      *)
LEMMA ApartArrive ==
    ASSUME ApartInv, NEW r \in Req, Arrive(r), Inv'
    PROVE  ApartInv'
<1>1. UNCHANGED <<row, now>>
  BY DEF Arrive, PutToken, PatchToken
<1>2. CASE PutToken(r)
  <2>1. PICK q \in RequestOf(0..now) :
           /\ q.method = "PUT"
           /\ req' = [req EXCEPT ![r] = q]
           /\ loc' = [loc EXCEPT ![r] = q.token]
    BY <1>2 DEF PutToken
  <2>2. q.token.lastUpdated <= now
    <3>1. q \in [method : {"PUT"}, id : Id, token : TokenOf(0..now)]
      BY <2>1 DEF RequestOf
    <3>2. q.token.lastUpdated \in 0..now
      BY <3>1 DEF TokenOf
    <3>. QED
      BY <3>2 DEF ApartInv, Inv, TypeOK
  <2>3. pc' = [pc EXCEPT ![r] = "save"]
    BY <1>2 DEF PutToken, goto
  <2>4. /\ req'[r].method = "PUT" /\ loc'[r].lastUpdated <= now
        /\ \A s \in Req : s # r => /\ pc'[s] = pc[s] /\ req'[s] = req[s]
                                   /\ loc'[s] = loc[s]
    BY <2>1, <2>2, <2>3 DEF ApartInv, Inv, TypeOK
  <2>. QED
    BY <1>1, <2>4, OthersStay
<1>3. CASE PatchToken(r)
  <2>1. /\ pc'[r] = "find"
        /\ \A s \in Req : s # r => /\ pc'[s] = pc[s] /\ req'[s] = req[s]
                                   /\ loc'[s] = loc[s]
    BY <1>3 DEF PatchToken, goto, ApartInv, Inv, TypeOK
  <2>. QED
    BY <1>1, <2>1, OthersStay
<1>. QED
  BY <1>2, <1>3 DEF Arrive

LEMMA ApartFind ==
    ASSUME ApartInv, NEW r \in Req, FindByIdAndType(r), Inv'
    PROVE  ApartInv'
<1>1. pc[r] = "find" /\ UNCHANGED <<row, now, req>>
  BY DEF FindByIdAndType
<1>2. /\ req[r].id \in Id /\ req[r].patch \in Patch /\ now \in Nat
  BY <1>1, InFlightRequest DEF InFlight, ApartInv, Inv, ControlOf, TypeOK
<1>3. \A s \in Req : s # r => /\ pc'[s] = pc[s] /\ req'[s] = req[s]
                              /\ loc'[s] = loc[s]
  BY DEF FindByIdAndType, goto, ApartInv, Inv, TypeOK
<1>4. CASE pc' = [pc EXCEPT ![r] = "failed"]
  <2>1. pc'[r] = "failed"
    BY <1>4 DEF ApartInv, Inv, TypeOK
  <2>. QED
    BY <1>1, <1>3, <2>1, OthersStay
<1>5. CASE /\ Stored(req[r].id, req[r].type)
           /\ loc' = [loc EXCEPT ![r] = Patched(row[req[r].id], req[r].patch, now)]
  <2> DEFINE old == row[req[r].id]
             new == Patched(old, req[r].patch, now)
  <2>1. old \in Token /\ old.type = req[r].type /\ old.lastUpdated <= now
    BY <1>2, <1>5 DEF Stored, ApartInv, Inv, TypeOK
  <2>2. new.lastUpdated <= now
    BY <1>2, <2>1, PatchedKeeps
  <2>3. loc'[r] = new
    BY <1>5 DEF ApartInv, Inv, TypeOK
  <2> HIDE DEF new
  <2>4. now >= old.lastUpdated
    BY <1>2, <2>1 DEF Token, TokenOf
  <2>5. UpToDate(r)'
    BY <1>1, <1>2, <2>1, <2>3, <2>4 DEF UpToDate, new
  <2>. QED
    BY <1>1, <1>3, <2>2, <2>3, <2>5, OthersStay
<1>. QED
  BY <1>4, <1>5 DEF FindByIdAndType, goto

LEMMA ApartSave ==
    ASSUME ApartInv, PatchesAlone, NEW r \in Req, Save(r), Inv'
    PROVE  ApartInv'
<1> DEFINE id == req[r].id
           new == Saved(id, loc[r])
<1>1. pc[r] = "save" /\ UNCHANGED <<now, req, loc>>
  BY DEF Save, Put
<1>2. PICK l \in {"ok", "failed"} : pc' = [pc EXCEPT ![r] = l]
  BY DEF Save, goto
<1>3. row' = [row EXCEPT ![id] = new]
  BY DEF Save, Put
<1>4. id \in Id /\ loc[r] \in Token /\ loc[r].lastUpdated <= now
  BY <1>1, InFlightRequest DEF InFlight, ApartInv, Inv, ControlOf
<1>5. new.lastUpdated <= now
  BY <1>4, SavedToken DEF ApartInv, Inv, TypeOK
<1>6. ASSUME NEW s \in Req, pc'[s] = "save"
      PROVE  pc[s] = "save" /\ (req[s].method = "PATCH" => req[s].id # id)
  BY <1>1, <1>2, <1>6 DEF PatchesAlone, InFlight, ApartInv, Inv, TypeOK
<1>7. ASSUME NEW s \in Req, pc'[s] = "save", req'[s].method = "PATCH"
      PROVE  UpToDate(s)'
  <2>1. UpToDate(s) /\ row'[req[s].id] = row[req[s].id]
    BY <1>1, <1>3, <1>6, <1>7 DEF ApartInv, Inv, TypeOK
  <2>. QED
    BY <1>1, <2>1 DEF UpToDate
<1> HIDE DEF new, id
<1>. QED
  BY <1>1, <1>3, <1>4, <1>5, <1>6, <1>7 DEF ApartInv, Inv, TypeOK

(* Handlers end, or time passes. *)
LEMMA ApartEnds ==
    ASSUME ApartInv, Inv', UNCHANGED <<row, req, loc>>, now' >= now,
           \A r \in Req : \/ pc'[r] = pc[r]
                          \/ pc'[r] \notin InFlight
    PROVE  ApartInv'
<1>1. now \in Nat /\ now' \in Nat
  BY DEF ApartInv, Inv, TypeOK
<1>2. \A id \in Id : row[id] # Null => row[id].lastUpdated \in Nat
  BY DEF ApartInv, Inv, TypeOK, Token, TokenOf
<1>3. \A r \in Req : pc[r] = "save" => loc[r].lastUpdated \in Nat
  BY DEF ApartInv, Inv, ControlOf, Token, TokenOf
<1>4. \A r \in Req : UpToDate(r) => UpToDate(r)'
  BY <1>1 DEF UpToDate
<1>. QED
  BY <1>1, <1>2, <1>3, <1>4 DEF ApartInv, InFlight

LEMMA ApartStep == PatchesAlone /\ ApartInv /\ [Next]_vars => ApartInv'
<1> SUFFICES ASSUME PatchesAlone, ApartInv, [Next]_vars PROVE ApartInv'
  OBVIOUS
<1>0. Inv' /\ now \in Nat
  BY InvStep DEF ApartInv, Inv, TypeOK
<1>1. ASSUME NEW r \in Req, Arrive(r) \/ DatabaseAnswers(r) PROVE ApartInv'
  BY <1>0, <1>1, ApartArrive, ApartFind, ApartSave DEF DatabaseAnswers
<1>2. ASSUME NEW r \in Req, CallFails(r) PROVE ApartInv'
  BY <1>0, <1>2, ApartEnds DEF CallFails, goto, ApartInv, Inv, TypeOK, InFlight
<1>3. CASE Crash
  BY <1>0, <1>3, ApartEnds DEF Crash, InFlight
<1>4. CASE Tick /\ UNCHANGED <<row, pc, req, loc>>
  BY <1>0, <1>4, ApartEnds DEF Tick
<1>5. CASE UNCHANGED vars
  BY <1>0, <1>5, ApartEnds DEF vars
<1>. QED
  BY <1>1, <1>2, <1>3, <1>4, <1>5 DEF Next

-----------------------------------------------------------------------------
(* The save of an up-to-date PATCH is the abstract merge, that of a PUT *)
(* the abstract replacement.                                               *)
LEMMA SaveTakesEffect ==
    ASSUME ApartInv, NEW r \in Req, Save(r)
    PROVE  Atomic!TakeEffect(r)
<1> DEFINE id == req[r].id
<1>1. pc[r] = "save" /\ UNCHANGED <<now, req, loc>>
  BY DEF Save, Put
<1>2. PICK l \in {"ok", "failed"} : pc' = [pc EXCEPT ![r] = l]
  BY DEF Save, goto
<1>3. /\ id \in Id /\ loc[r] \in Token
      /\ req[r].method \in {"PUT", "PATCH"}
      /\ req[r].method = "PUT" => loc[r] = req[r].token
      /\ req[r].method = "PATCH" => req[r].patch \in Patch
  BY <1>1, InFlightRequest DEF InFlight, ApartInv, Inv, ControlOf
<1>4. row' = [row EXCEPT ![id] = Saved(id, loc[r])]
  BY DEF Save, Put
<1>5. [s \in Req |-> StatusOf(s)]' =
        [[s \in Req |-> StatusOf(s)] EXCEPT ![r] = "done"]
  BY <1>1, <1>2 DEF StatusOf, InFlight, ApartInv, Inv, TypeOK
<1>6. StatusOf(r) = "asked"
  BY <1>1 DEF StatusOf, InFlight
<1>7. CASE req[r].method = "PUT"
  BY <1>1, <1>3, <1>4, <1>5, <1>6, <1>7
     DEF Atomic!TakeEffect, Atomic!Put, Atomic!Saved, Saved
<1>8. CASE req[r].method = "PATCH"
  <2>1. row[id] \in Token /\ row[id].type = req[r].type
    BY <1>1, <1>8 DEF ApartInv, UpToDate
  <2>2. PICK stamp \in Nat : /\ stamp >= row[id].lastUpdated /\ stamp <= now
                            /\ loc[r] = Patched(row[id], req[r].patch, stamp)
    BY <1>1, <1>8 DEF ApartInv, UpToDate
  <2>3. Saved(id, loc[r]) = Atomic!Merged(row[id], req[r].patch, stamp)
    BY <1>3, <1>8, <2>1, <2>2, SavedPatched, PatchedIsMerged
  <2>4. stamp \in row[id].lastUpdated..now
    BY <2>1, <2>2 DEF ApartInv, Inv, TypeOK, Token, TokenOf
  <2>5. row[id] # Null
    BY <2>1, StoreAssumption
  <2>6. Atomic!Merge(id, req[r].type, req[r].patch)
    BY <1>1, <1>4, <2>1, <2>3, <2>4, <2>5 DEF Atomic!Merge
  <2>. QED
    BY <1>1, <1>5, <1>6, <1>8, <2>6 DEF Atomic!TakeEffect
<1>. QED
  BY <1>3, <1>7, <1>8

(* Handlers that end in another way give up. *)
LEMMA EndsGiveUp ==
    ASSUME ApartInv, UNCHANGED <<row, now, req>>,
           NEW R \in SUBSET Req, \A r \in R : pc[r] \in InFlight,
           NEW l \in {"failed", "lost"},
           pc' = [r \in Req |-> IF r \in R THEN l ELSE pc[r]]
    PROVE  Atomic!GiveUp
<1>1. R \in SUBSET {r \in Req : [s \in Req |-> StatusOf(s)][r] = "asked"}
  BY DEF StatusOf, InFlight
<1>2. [s \in Req |-> StatusOf(s)]' =
        [r \in Req |-> IF r \in R THEN "done" ELSE [s \in Req |-> StatusOf(s)][r]]
  BY DEF StatusOf, InFlight
<1>. QED
  BY <1>1, <1>2 DEF Atomic!GiveUp

LEMMA ArriveAsks ==
    ASSUME ApartInv, NEW r \in Req, Arrive(r)
    PROVE  Atomic!Ask(r)
<1>1. PICK q \in RequestOf(0..now) : req' = [req EXCEPT ![r] = q]
  BY DEF Arrive, PutToken, PatchToken
<1>2. PICK l \in InFlight : pc' = [pc EXCEPT ![r] = l]
  BY DEF Arrive, PutToken, PatchToken, goto, InFlight
<1>3. pc[r] = "idle" /\ UNCHANGED <<row, now>>
  BY DEF Arrive, PutToken, PatchToken
<1>4. [s \in Req |-> StatusOf(s)]' =
        [[s \in Req |-> StatusOf(s)] EXCEPT ![r] = "asked"]
  BY <1>2, <1>3 DEF StatusOf, InFlight, ApartInv, Inv, TypeOK
<1>5. [s \in Req |-> StatusOf(s)][r] = "idle"
  BY <1>3 DEF StatusOf, InFlight
<1>6. q \in Atomic!RequestOf(0..now)
  BY <1>1 DEF RequestOf, TokenOf, Patch, Id,
              Atomic!RequestOf, Atomic!TokenOf, Atomic!Patch, Atomic!Id
<1>. QED
  BY <1>1, <1>3, <1>4, <1>5, <1>6 DEF Atomic!Ask

LEMMA StepRefines ==
    ASSUME ApartInv, [Next]_vars
    PROVE  [Atomic!AtomicNext]_(Atomic!atomicVars)
<1> USE DEF Atomic!AtomicNext
<1>1. ASSUME NEW r \in Req, Arrive(r) PROVE Atomic!AtomicNext
  BY <1>1, ArriveAsks
<1>2. ASSUME NEW r \in Req, FindByIdAndType(r)
      PROVE  Atomic!GiveUp \/ UNCHANGED Atomic!atomicVars
  <2>1. CASE pc' = [pc EXCEPT ![r] = "failed"]
    <3>1. /\ pc' = [s \in Req |-> IF s \in {r} THEN "failed" ELSE pc[s]]
          /\ pc[r] \in InFlight /\ UNCHANGED <<row, now, req>>
      BY <1>2, <2>1 DEF FindByIdAndType, InFlight, ApartInv, Inv, TypeOK
    <3>. QED
      BY <3>1, EndsGiveUp
  <2>2. CASE pc' = [pc EXCEPT ![r] = "save"]
    <3>1. pc[r] = "find" /\ UNCHANGED <<row, now, req>>
      BY <1>2 DEF FindByIdAndType
    <3>2. \A s \in Req : StatusOf(s)' = StatusOf(s)
      BY <2>2, <3>1 DEF StatusOf, InFlight, ApartInv, Inv, TypeOK
    <3>. QED
      BY <3>1, <3>2 DEF Atomic!atomicVars
  <2>. QED
    BY <1>2, <2>1, <2>2 DEF FindByIdAndType, goto
<1>3. ASSUME NEW r \in Req, Save(r) PROVE Atomic!AtomicNext
  BY <1>3, SaveTakesEffect
<1>4. ASSUME NEW r \in Req, CallFails(r) PROVE Atomic!GiveUp
  <2>1. /\ pc' = [s \in Req |-> IF s \in {r} THEN "failed" ELSE pc[s]]
        /\ pc[r] \in InFlight /\ UNCHANGED <<row, now, req>>
    BY <1>4 DEF CallFails, goto, ApartInv, Inv, TypeOK
  <2>. QED
    BY <2>1, EndsGiveUp
<1>5. CASE Crash
  <2> DEFINE R == {r \in Req : pc[r] \in InFlight}
  <2>1. pc' = [s \in Req |-> IF s \in R THEN "lost" ELSE pc[s]]
    BY <1>5 DEF Crash
  <2>. QED
    BY <1>5, <2>1, EndsGiveUp DEF Crash
<1>6. CASE Tick /\ UNCHANGED <<row, pc, req, loc>>
  <2>1. UNCHANGED [s \in Req |-> StatusOf(s)]
    BY <1>6 DEF StatusOf
  <2>. QED
    BY <1>6, <2>1 DEF Tick, Atomic!Tick
<1>7. CASE UNCHANGED vars
  BY <1>7 DEF vars, StatusOf, Atomic!atomicVars
<1>. QED
  BY <1>1, <1>2, <1>3, <1>4, <1>5, <1>6, <1>7 DEF Next, DatabaseAnswers

LEMMA InitRefines == Init => Atomic!AtomicInit
BY DEF Init, StoreInit, ClockInit, StatusOf, InFlight, Id,
       Atomic!AtomicInit, Atomic!StoreInit, Atomic!ClockInit,
       Atomic!Id

(***************************************************************************)
(* When PATCHes are alone with their token, every PUT and PATCH is one     *)
(* atomic update or leaves no trace: Tokens implements AtomicTokens.       *)
(***************************************************************************)
THEOREM ApartRequestsAreAtomic == Spec /\ []PatchesAlone => RequestsAreAtomic
<1>1. PatchesAlone /\ ApartInv /\ [Next]_vars => ApartInv'
  BY ApartStep
<1>2. ApartInv /\ [Next]_vars => [Atomic!AtomicNext]_(Atomic!atomicVars)
  BY StepRefines
<1>. QED
  BY <1>1, <1>2, ApartInit, InitRefines, PTL
     DEF Spec, RequestsAreAtomic, Atomic!AtomicSpec

-----------------------------------------------------------------------------
(* A step makes a row valid only by a PUT that says so.                    *)
LEMMA ValidOnlyByPut ==
    ASSUME ApartInv, [Next]_vars, NEW id \in Id, NEW ty \in Type,
           Stored(id, ty)', row'[id].valid,
           ~(Stored(id, ty) /\ row[id].valid)
    PROVE  \E r \in Req : /\ pc[r] = "save" /\ pc'[r] # "save"
                          /\ req[r].method = "PUT"
                          /\ req[r].id = id
                          /\ req[r].token.valid
<1>1. row'[id] # row[id]
  BY DEF Stored
<1>2. PICK r \in Req : Save(r)
  BY <1>1 DEF Next, Arrive, DatabaseAnswers, PutToken, PatchToken,
              FindByIdAndType, CallFails, Crash, Tick, vars
<1>3. /\ pc[r] = "save" /\ pc'[r] # "save"
      /\ row' = [row EXCEPT ![req[r].id] = Saved(req[r].id, loc[r])]
  BY <1>2 DEF Save, Put, goto, ApartInv, Inv, TypeOK
<1>4. /\ req[r].id \in Id /\ loc[r] \in Token
      /\ req[r].method \in {"PUT", "PATCH"}
      /\ req[r].method = "PUT" => loc[r] = req[r].token
      /\ req[r].method = "PATCH" => req[r].patch \in Patch
  BY <1>3, InFlightRequest DEF InFlight, ApartInv, Inv, ControlOf
<1>5. req[r].id = id /\ row'[id] = Saved(id, loc[r])
  BY <1>1, <1>3, <1>4 DEF ApartInv, Inv, TypeOK
<1>6. loc[r].valid /\ row'[id].type = loc[r].type
  BY <1>4, <1>5, SavedToken DEF ApartInv, Inv, TypeOK
<1>7. ASSUME req[r].method = "PATCH" PROVE FALSE
  <2>1. row[id] \in Token
    BY <1>3, <1>5, <1>7 DEF ApartInv, UpToDate
  <2>2. PICK stamp \in Nat : loc[r] = Patched(row[id], req[r].patch, stamp)
    BY <1>3, <1>5, <1>7 DEF ApartInv, UpToDate
  <2>3. row[id].valid /\ loc[r].type = row[id].type
    BY <1>4, <1>6, <1>7, <2>1, <2>2, PatchedKeeps, PatchedToken
  <2>. QED
    BY <1>6, <2>1, <2>3, StoreAssumption DEF Stored
<1>. QED
  BY <1>3, <1>4, <1>5, <1>6, <1>7

LEMMA AllowedMeansValid ==
    \A u \in Uid, ty \in Type :
       "ALLOWED" \in Authorizations(u, ty) <=>
          \E id \in Id : id[2] = u /\ Stored(id, ty) /\ row[id].valid
BY DEF Authorizations, DetermineAuthorization

(***************************************************************************)
(* When PATCHes are alone with their token, only a PUT of a valid token    *)
(* lets a driver in again who was refused.                                 *)
(***************************************************************************)
THEOREM InvalidationLastsApart == Spec /\ []PatchesAlone => InvalidationHolds
<1>1. ASSUME ApartInv, [Next]_vars, NEW u \in Uid, NEW ty \in Type,
             "ALLOWED" \notin Authorizations(u, ty),
             "ALLOWED" \in Authorizations(u, ty)'
      PROVE  \E r \in Req : /\ pc[r] = "save" /\ pc'[r] # "save"
                            /\ req[r].method = "PUT"
                            /\ req[r].id[2] = u
                            /\ req[r].token.valid
  <2>1. PICK id \in Id : id[2] = u /\ Stored(id, ty)' /\ row'[id].valid
    BY <1>1 DEF Authorizations, DetermineAuthorization
  <2>2. ~(Stored(id, ty) /\ row[id].valid)
    BY <1>1, <2>1, AllowedMeansValid
  <2>. QED
    BY <1>1, <2>1, <2>2, ValidOnlyByPut
<1>2. ApartInv /\ [Next]_vars
      => [\A u \in Uid, ty \in Type :
             "ALLOWED" \notin Authorizations(u, ty)
             /\ "ALLOWED" \in Authorizations(u, ty)'
             => \E r \in Req : /\ pc[r] = "save" /\ pc'[r] # "save"
                               /\ req[r].method = "PUT"
                               /\ req[r].id[2] = u
                               /\ req[r].token.valid]_vars
  BY <1>1
<1>. QED
  BY <1>2, ApartInit, ApartStep, PTL DEF Spec, InvalidationHolds

-----------------------------------------------------------------------------
(* Requests that are let in one at a time leave every PATCH alone.         *)
OneAtATime == \A r, s \in Req : pc[r] \in InFlight /\ pc[s] \in InFlight => r = s

LEMMA SerialStep == ~Overlap /\ Inv /\ OneAtATime /\ [Next]_vars => OneAtATime'
<1> SUFFICES ASSUME ~Overlap, Inv, OneAtATime, [Next]_vars PROVE OneAtATime'
  OBVIOUS
<1> USE DEF OneAtATime, InFlight, Inv, TypeOK, goto
<1>1. ASSUME NEW r \in Req, Arrive(r) PROVE OneAtATime'
  BY <1>1 DEF Arrive, PutToken, PatchToken, Admitted
<1>2. ASSUME NEW r \in Req, DatabaseAnswers(r) \/ CallFails(r) PROVE OneAtATime'
  BY <1>2 DEF DatabaseAnswers, FindByIdAndType, Save, CallFails
<1>3. CASE Crash
  BY <1>3 DEF Crash
<1>4. CASE UNCHANGED pc
  BY <1>4
<1>. QED
  BY <1>1, <1>2, <1>3, <1>4 DEF Next, vars

LEMMA SerialIsApart ==
    ASSUME ~Overlap
    PROVE  Spec => []PatchesAlone
<1>1. Init => Inv /\ OneAtATime
  BY InvInit DEF Init, OneAtATime, InFlight
<1>2. Inv /\ OneAtATime /\ [Next]_vars => Inv' /\ OneAtATime'
  BY InvStep, SerialStep
<1>3. OneAtATime => PatchesAlone
  BY DEF OneAtATime, PatchesAlone
<1>. QED
  BY <1>1, <1>2, <1>3, PTL DEF Spec

(* What the runs without overlap check: serial requests are atomic.        *)
THEOREM SerialRequestsAreAtomic ==
    ASSUME ~Overlap
    PROVE  Spec => RequestsAreAtomic
BY SerialIsApart, ApartRequestsAreAtomic, PTL

(* And serial requests undo an invalidation only by a PUT.                 *)
THEOREM InvalidationIsLasting ==
    ASSUME ~Overlap
    PROVE  Spec => InvalidationHolds
BY SerialIsApart, InvalidationLastsApart, PTL
=============================================================================
