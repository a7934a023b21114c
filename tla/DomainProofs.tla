------------------------------ MODULE DomainProofs ------------------------------
(***************************************************************************)
(* The aggregates of the domain layer, for any clock, any amounts and any  *)
(* number of periods, EVSEs and connectors: what their methods keep,       *)
(* whatever the order in which they are called.                            *)
(***************************************************************************)
EXTENDS Session, LocationTree, SequenceTheorems, FiniteSetTheorems,
        WellFoundedInduction, TLAPS

(* What the methods hand to the constructor, before it looks at it. *)
RawSession == [ status : Status, startDateTime : Nat,
                endDateTime : Nat \cup {Null}, kwh : Int,
                totalCost : Int \cup {Null},
                chargingPeriods : Seq(ChargingPeriod),
                chargingPreferences : Preference \cup {Null},
                lastUpdated : Nat ]

SessionInv == now \in Nat /\ SessionTypeOK /\ CompletedHasEnded

(* What the constructor lets pass is a session, and one that does not end  *)
(* before it starts.                                                       *)
LEMMA ValidIsTyped ==
    ASSUME NEW s \in RawSession, Valid(s)
    PROVE  /\ s \in SessionType
           /\ s.endDateTime # Null => s.endDateTime > s.startDateTime
BY SessionAssumption DEF Valid, RawSession, SessionType

(* A caller's period has a dimension. *)
LEMMA PeriodIsTyped ==
    ASSUME NEW p \in Period
    PROVE  p \in ChargingPeriod
<1>1. PICK n \in 1..MaxDims : p \in [1..n -> Dimension]
  BY DEF Period
<1>2. n \in Nat /\ n > 0
  BY <1>1, SessionAssumption
<1>3. p \in Seq(Dimension) /\ Len(p) = n
  BY <1>1, <1>2
<1>. QED
  BY <1>2, <1>3 DEF ChargingPeriod

(* The holder gets a session of the same start and end as s, stamped.      *)
LEMMA BecomesIsTyped ==
    ASSUME NEW s \in RawSession, now \in Nat, Becomes(s)
    PROVE  /\ session' \in SessionType
           /\ session'.status = s.status
           /\ session'.startDateTime = s.startDateTime
           /\ session'.endDateTime = s.endDateTime
           /\ session'.totalCost = s.totalCost
           /\ session'.chargingPreferences = s.chargingPreferences
           /\ s.endDateTime # Null => s.endDateTime > s.startDateTime
           /\ bornAs' = bornAs
<1>1. s \in SessionType /\ (s.endDateTime # Null => s.endDateTime > s.startDateTime)
  BY ValidIsTyped DEF Becomes
<1>2. session' = [s EXCEPT !.lastUpdated = now] /\ bornAs' = bornAs
  BY DEF Becomes
<1>. QED
  BY <1>1, <1>2 DEF SessionType

LEMMA TypedIsRaw == SessionType \subseteq RawSession
<1>1. Nat \subseteq Int
  OBVIOUS
<1>. QED
  BY <1>1 DEF SessionType, RawSession

(* Calls that leave the status alone, or bring a session to its end, keep  *)
(* the invariant.                                                          *)
LEMMA BecomesKeeps ==
    ASSUME SessionInv, NEW s \in RawSession, Becomes(s), UNCHANGED now,
           \/ s.status # "COMPLETED"
           \/ s.endDateTime # Null
           \/ /\ session # Null /\ session.status = "COMPLETED"
              /\ s.endDateTime = session.endDateTime
    PROVE  SessionInv'
<1>1. /\ session' \in SessionType
      /\ session'.status = s.status
      /\ session'.startDateTime = s.startDateTime
      /\ session'.endDateTime = s.endDateTime
      /\ s.endDateTime # Null => s.endDateTime > s.startDateTime
      /\ bornAs' = bornAs
  BY BecomesIsTyped DEF SessionInv
<1>2. SessionTypeOK' /\ now' \in Nat
  BY <1>1 DEF SessionInv, SessionTypeOK
<1>3. s.startDateTime \in Nat /\ s.endDateTime \in Nat \cup {Null}
  BY DEF RawSession
<1>4. CompletedHasEnded'
  <2> SUFFICES ASSUME session'.status = "COMPLETED", bornAs # "COMPLETED"
               PROVE  s.endDateTime # Null /\ s.endDateTime - s.startDateTime > 0
    BY <1>1, <1>3 DEF CompletedHasEnded, Duration
  <2>1. s.endDateTime # Null
    BY <1>1 DEF SessionInv, CompletedHasEnded
  <2>. QED
    BY <2>1, <1>1, <1>3
<1>. QED
  BY <1>2, <1>4 DEF SessionInv

LEMMA ConstructKeeps ==
    ASSUME SessionInv, ConstructSession, UNCHANGED now
    PROVE  SessionInv'
<1>1. PICK status \in Status, start \in 0..MaxTime,
           end \in (0..MaxTime) \cup {Null}, kwh \in Amount,
           cost \in Amount \cup {Null}, preferences \in Preference \cup {Null},
           stamp \in 0..now :
         LET s == [ status |-> status, startDateTime |-> start,
                    endDateTime |-> end, kwh |-> kwh, totalCost |-> cost,
                    chargingPeriods |-> <<>>,
                    chargingPreferences |-> preferences,
                    lastUpdated |-> stamp ]
         IN  /\ Valid(s)
             /\ session' = s
             /\ bornAs' = status
  BY DEF ConstructSession
<1> DEFINE s == [ status |-> status, startDateTime |-> start,
                  endDateTime |-> end, kwh |-> kwh, totalCost |-> cost,
                  chargingPeriods |-> <<>>,
                  chargingPreferences |-> preferences,
                  lastUpdated |-> stamp ]
<1>2. Valid(s) /\ session' = s /\ bornAs' = status
  BY <1>1
<1>3. s \in RawSession
  <2>1. /\ start \in Nat /\ end \in Nat \cup {Null}
        /\ kwh \in Int /\ cost \in Int \cup {Null} /\ stamp \in Nat
    BY SessionAssumption DEF SessionInv
  <2>2. <<>> \in Seq(ChargingPeriod)
    OBVIOUS
  <2>. QED
    BY <2>1, <2>2 DEF RawSession
<1>4. s \in SessionType /\ (end # Null => end > start)
  BY <1>2, <1>3, ValidIsTyped
<1>5. s.status = status /\ s.endDateTime = end /\ s.startDateTime = start
  OBVIOUS
<1>6. SessionTypeOK' /\ CompletedHasEnded'
  <2> HIDE DEF s
  <2>. QED
    BY <1>2, <1>4, <1>5 DEF SessionTypeOK, CompletedHasEnded
<1>. QED
  BY <1>6 DEF SessionInv

(* A session that there is, and what is asked of it.                       *)
LEMMA SessionIsRaw ==
    ASSUME SessionInv, session # Null
    PROVE  session \in RawSession
BY TypedIsRaw DEF SessionInv, SessionTypeOK

LEMMA CallKeeps ==
    ASSUME SessionInv, SessionCall, UNCHANGED now
    PROVE  SessionInv'
<1>1. session # Null
  BY DEF SessionCall
<1>2. session \in RawSession
  BY <1>1, SessionIsRaw
<1>3. CASE Start
  <2> DEFINE s == [session EXCEPT !.status = "ACTIVE"]
  <2>1. s \in RawSession /\ s.status = "ACTIVE" /\ Becomes(s)
    BY <1>2, <1>3 DEF RawSession, Status, Start
  <2>. QED
    BY <2>1, BecomesKeeps
<1>4. CASE \E end \in 0..MaxTime, cost \in Amount \cup {Null} : Complete(end, cost)
  <2>1. PICK end \in 0..MaxTime, cost \in Amount \cup {Null} : Complete(end, cost)
    BY <1>4
  <2> DEFINE paid == CostAtEnd(cost, session.totalCost)
             s == [session EXCEPT !.status = "COMPLETED", !.endDateTime = end,
                                  !.totalCost = paid]
  <2>2. end \in Nat /\ end # Null
    BY SessionAssumption
  <2>3. paid \in Int \cup {Null}
    BY <1>2, SessionAssumption DEF CostAtEnd, RawSession
  <2>4. s \in RawSession /\ s.endDateTime = end
    <3> HIDE DEF paid
    <3>. QED
      BY <1>2, <2>2, <2>3 DEF RawSession, Status
  <2>5. Becomes(s)
    BY <2>1 DEF Complete
  <2>. QED
    BY <2>2, <2>4, <2>5, BecomesKeeps
<1>5. CASE \E kwh \in Amount : UpdateEnergy(kwh)
  <2>1. PICK kwh \in Amount : UpdateEnergy(kwh)
    BY <1>5
  <2> DEFINE s == [session EXCEPT !.kwh = kwh]
  <2>2. kwh \in Int
    BY SessionAssumption
  <2>3. /\ s \in RawSession /\ s.status = session.status
        /\ s.endDateTime = session.endDateTime
    BY <1>2, <2>2 DEF RawSession
  <2>4. Becomes(s)
    BY <2>1 DEF UpdateEnergy
  <2>. QED
    BY <1>1, <2>3, <2>4, BecomesKeeps
<1>6. CASE \E p \in Period : AddChargingPeriod(p)
  <2>1. PICK p \in Period : AddChargingPeriod(p)
    BY <1>6
  <2> DEFINE ps == Append(session.chargingPeriods, p)
             s == [session EXCEPT !.chargingPeriods = ps]
  <2>2. ps \in Seq(ChargingPeriod)
    BY <1>2, PeriodIsTyped DEF RawSession
  <2>3. /\ s \in RawSession /\ s.status = session.status
        /\ s.endDateTime = session.endDateTime
    <3> HIDE DEF ps
    <3>. QED
      BY <1>2, <2>2 DEF RawSession
  <2>4. Becomes(s)
    BY <2>1 DEF AddChargingPeriod
  <2>. QED
    BY <1>1, <2>3, <2>4, BecomesKeeps
<1>7. CASE \E preferences \in Preference : SetChargingPreferences(preferences)
  <2>1. PICK preferences \in Preference : SetChargingPreferences(preferences)
    BY <1>7
  <2> DEFINE s == [session EXCEPT !.chargingPreferences = preferences]
  <2>2. /\ s \in RawSession /\ s.status = session.status
        /\ s.endDateTime = session.endDateTime
    BY <1>2 DEF RawSession
  <2>3. Becomes(s)
    BY <2>1 DEF SetChargingPreferences
  <2>. QED
    BY <1>1, <2>2, <2>3, BecomesKeeps
<1>. QED
  BY <1>3, <1>4, <1>5, <1>6, <1>7 DEF SessionCall

LEMMA SessionStarts == ClockInit /\ SessionInit => SessionInv
BY DEF ClockInit, SessionInit, SessionInv, SessionTypeOK, CompletedHasEnded

LEMMA SessionStep ==
    SessionInv /\ [SessionNext]_<<sessionVars, now>> => SessionInv'
<1> SUFFICES ASSUME SessionInv, [SessionNext]_<<sessionVars, now>>
             PROVE  SessionInv'
  OBVIOUS
<1>1. CASE ConstructSession /\ UNCHANGED now
  BY <1>1, ConstructKeeps
<1>2. CASE SessionCall /\ UNCHANGED now
  BY <1>2, CallKeeps
<1>3. CASE UNCHANGED sessionVars /\ now' \in Nat
  <2>1. SessionTypeOK'
    BY <1>3 DEF sessionVars, SessionInv, SessionTypeOK
  <2>2. CompletedHasEnded'
    BY <1>3 DEF sessionVars, SessionInv, CompletedHasEnded, Duration
  <2>. QED
    BY <1>3, <2>1, <2>2 DEF SessionInv
<1>4. CASE Tick /\ UNCHANGED sessionVars
  BY <1>3, <1>4 DEF Tick, SessionInv
<1>5. CASE UNCHANGED <<sessionVars, now>>
  BY <1>3, <1>5 DEF SessionInv
<1>. QED
  BY <1>1, <1>2, <1>4, <1>5 DEF SessionNext

-----------------------------------------------------------------------------
Over == session.status \in {"COMPLETED", "INVALID"}

(* What a call leaves of a session that is over.                           *)
Settled ==
    /\ session'.status = session.status
    /\ session'.startDateTime = session.startDateTime
    /\ session'.endDateTime = session.endDateTime
    /\ session'.totalCost = session.totalCost
    /\ session'.chargingPreferences = session.chargingPreferences

LEMMA CallEffect ==
    ASSUME SessionInv, SessionCall
    PROVE  Over => Settled
<1>1. session # Null /\ now \in Nat
  BY DEF SessionCall, SessionInv
<1>2. session \in RawSession
  BY <1>1, SessionIsRaw
<1>3. CASE Start
  BY <1>3 DEF Start, Over
<1>4. CASE \E end \in 0..MaxTime, cost \in Amount \cup {Null} : Complete(end, cost)
  BY <1>4 DEF Complete, Over
<1>5. CASE \E kwh \in Amount : UpdateEnergy(kwh)
  <2>1. PICK kwh \in Amount : UpdateEnergy(kwh)
    BY <1>5
  <2> DEFINE s == [session EXCEPT !.kwh = kwh]
  <2>2. /\ s \in RawSession /\ s.status = session.status
        /\ s.startDateTime = session.startDateTime
        /\ s.endDateTime = session.endDateTime /\ s.totalCost = session.totalCost
        /\ s.chargingPreferences = session.chargingPreferences
    BY <1>2, SessionAssumption DEF RawSession
  <2>3. Becomes(s)
    BY <2>1 DEF UpdateEnergy
  <2>4. Settled
    BY <1>1, <2>2, <2>3, BecomesIsTyped DEF Settled
  <2>. QED
    BY <2>4
<1>6. CASE \E p \in Period : AddChargingPeriod(p)
  <2>1. PICK p \in Period : AddChargingPeriod(p)
    BY <1>6
  <2> DEFINE ps == Append(session.chargingPeriods, p)
             s == [session EXCEPT !.chargingPeriods = ps]
  <2>2. ps \in Seq(ChargingPeriod)
    BY <1>2, PeriodIsTyped DEF RawSession
  <2>3. Becomes(s)
    BY <2>1 DEF AddChargingPeriod
  <2>4. /\ s \in RawSession /\ s.status = session.status
        /\ s.startDateTime = session.startDateTime
        /\ s.endDateTime = session.endDateTime /\ s.totalCost = session.totalCost
        /\ s.chargingPreferences = session.chargingPreferences
    <3> HIDE DEF ps
    <3>. QED
      BY <1>2, <2>2 DEF RawSession
  <2>5. Settled
    BY <1>1, <2>3, <2>4, BecomesIsTyped DEF Settled
  <2>. QED
    BY <2>5
<1>7. CASE \E preferences \in Preference : SetChargingPreferences(preferences)
  BY <1>7 DEF SetChargingPreferences, Over
<1>. QED
  BY <1>3, <1>4, <1>5, <1>6, <1>7 DEF SessionCall

LEMMA StepEffect ==
    ASSUME SessionInv, [SessionNext]_<<sessionVars, now>>, session # Null
    PROVE  session' = session \/ (Over => Settled)
<1>1. CASE SessionCall
  BY <1>1, CallEffect
<1>2. CASE ~SessionCall
  BY <1>2 DEF SessionNext, ConstructSession, sessionVars
<1>. QED
  BY <1>1, <1>2

(***************************************************************************)
(* A session that complete() ended has an end after its start, whatever is *)
(* called before and after.                                                *)
(***************************************************************************)
THEOREM CompletedSessionsEnded == SessionSpec => []CompletedHasEnded
<1>1. SessionInv => CompletedHasEnded
  BY DEF SessionInv
<1>. QED
  BY <1>1, SessionStarts, SessionStep, PTL DEF SessionSpec

(* The fields of a session keep their types, and the end is after the start. *)
THEOREM SessionTypeCorrect == SessionSpec => []SessionTypeOK
<1>1. SessionInv => SessionTypeOK
  BY DEF SessionInv
<1>. QED
  BY <1>1, SessionStarts, SessionStep, PTL DEF SessionSpec

(* What comes after the end, or after INVALID, does not touch the bill.     *)
THEOREM NothingTouchesTheBill == SessionSpec => OverIsFinal
<1>1. SessionInv /\ [SessionNext]_<<sessionVars, now>> =>
        [session # Null /\ session.status \in {"COMPLETED", "INVALID"} =>
          /\ session'.status = session.status
          /\ session'.startDateTime = session.startDateTime
          /\ session'.endDateTime = session.endDateTime
          /\ session'.totalCost = session.totalCost
          /\ session'.chargingPreferences = session.chargingPreferences]_session
  BY StepEffect DEF Over, Settled
<1>. QED
  BY <1>1, SessionStarts, SessionStep, PTL DEF SessionSpec, OverIsFinal

-----------------------------------------------------------------------------
(* Every set of naturals that has an element has a least one.              *)
LEMMA Least ==
    ASSUME NEW I \in SUBSET Nat, I # {}
    PROVE  \E i \in I : \A j \in I : i <= j
<1> DEFINE R == {p \in Nat \X Nat : p[1] < p[2]}
<1>1. IsWellFoundedOn(R, Nat)
  BY NatLessThanWellFounded DEF OpToRel, IsWellFoundedOn
<1>2. PICK i \in I : \A j \in I : ~ (<<j, i>> \in R)
  <2> HIDE DEF R
  <2>. QED
    BY <1>1, WFMin
<1>3. ASSUME NEW j \in I PROVE i <= j
  <2>1. <<j, i>> \notin R
    BY <1>2
  <2>2. i \in Nat /\ j \in Nat /\ <<j, i>> \in Nat \X Nat
    OBVIOUS
  <2>3. ~(j < i)
    BY <2>1, <2>2
  <2>. QED
    BY <2>2, <2>3
<1>. QED
  BY <1>3

(* f is the running sum of the first m of the periods ps.                  *)
Running(ps, m, f) ==
    f = [n \in 0..m |-> IF n = 0 THEN 0 ELSE f[n - 1] + EnergyConsumed(ps[n])]

(* The energy of a period: the volume of one of its dimensions, or zero.   *)
LEMMA EnergyIsNat ==
    ASSUME NEW p \in ChargingPeriod
    PROVE  EnergyConsumed(p) \in Nat
<1> DEFINE E == {i \in DOMAIN p : p[i].type = "ENERGY"}
           first == CHOOSE i \in E : \A j \in E : i <= j
<1>1. EnergyConsumed(p) = IF E = {} THEN 0 ELSE p[first].volume
  BY DEF EnergyConsumed
<1>2. p \in Seq(Dimension) /\ DOMAIN p = 1..Len(p) /\ Len(p) \in Nat
  BY DEF ChargingPeriod
<1>3. CASE E # {}
  <2>1. E \in SUBSET Nat /\ E \subseteq DOMAIN p
    BY <1>2
  <2>2. \E i \in E : \A j \in E : i <= j
    <3> HIDE DEF E
    <3>. QED
      BY <1>3, <2>1, Least
  <2>3. first \in DOMAIN p
    <3> HIDE DEF E
    <3>. QED
      BY <2>1, <2>2
  <2>4. p[first] \in Dimension
    <3> HIDE DEF first
    <3>. QED
      BY <1>2, <2>3
  <2>5. p[first].volume \in Amount /\ p[first].volume >= 0
    <3> HIDE DEF first
    <3>. QED
      BY <2>4 DEF Dimension
  <2>6. EnergyConsumed(p) = p[first].volume
    <3> HIDE DEF first, E
    <3>. QED
      BY <1>1, <1>3
  <2>. QED
    <3> HIDE DEF first, E
    <3>1. p[first].volume \in Int
      BY <2>5, SessionAssumption
    <3>. QED
      BY <2>5, <2>6, <3>1
<1>4. CASE E = {}
  BY <1>1, <1>4
<1>. QED
  BY <1>3, <1>4

(* There is a running sum of any number of periods: were there none of     *)
(* some, then there would be a least number of which there is none, and a  *)
(* running sum of one less, which one more period would make one of it.    *)
LEMMA SumExists ==
    ASSUME NEW ps \in Seq(ChargingPeriod), NEW N \in 0..Len(ps)
    PROVE  \E f : Running(ps, N, f) /\ f \in [0..N -> Nat]
<1> DEFINE Has(m) == \E f : Running(ps, m, f) /\ f \in [0..m -> Nat]
           I == {m \in 0..Len(ps) : ~Has(m)}
<1>1. Len(ps) \in Nat /\ I \in SUBSET Nat
  OBVIOUS
<1>2. Has(0)
  <2> DEFINE z == [n \in 0..0 |-> 0]
  <2>1. z = [n \in 0..0 |->
               IF n = 0 THEN 0 ELSE z[n - 1] + EnergyConsumed(ps[n])]
    OBVIOUS
  <2>2. z \in [0..0 -> Nat]
    OBVIOUS
  <2>3. Running(ps, 0, z)
    BY <2>1 DEF Running
  <2>. QED
    BY <2>2, <2>3
<1>3. ASSUME NEW m \in 1..Len(ps), Has(m - 1) PROVE Has(m)
  <2>1. m \in Nat /\ m > 0 /\ m - 1 \in Nat /\ ps[m] \in ChargingPeriod
    BY <1>1
  <2>2. EnergyConsumed(ps[m]) \in Nat
    BY <2>1, EnergyIsNat
  <2>3. PICK f : Running(ps, m - 1, f) /\ f \in [0..(m - 1) -> Nat]
    BY <1>3
  <2> DEFINE g == [n \in 0..m |->
                     IF n = m THEN f[m - 1] + EnergyConsumed(ps[m]) ELSE f[n]]
  <2>4. \A n \in 0..(m - 1) :
          /\ f[n] \in Nat
          /\ f[n] = IF n = 0 THEN 0 ELSE f[n - 1] + EnergyConsumed(ps[n])
    BY <2>1, <2>3 DEF Running
  <2>5. ASSUME NEW n \in 0..m
        PROVE  /\ g[n] \in Nat
               /\ g[n] = IF n = 0 THEN 0 ELSE g[n - 1] + EnergyConsumed(ps[n])
    <3>1. CASE n = m
      BY <2>1, <2>2, <2>4, <3>1
    <3>2. CASE n # m
      <4>1. n \in 0..(m - 1) /\ (n # 0 => n - 1 \in 0..(m - 1) /\ n - 1 # m)
        BY <2>1, <3>2
      <4>2. g[n] = f[n] /\ (n # 0 => g[n - 1] = f[n - 1])
        BY <2>1, <3>2, <4>1
      <4>. QED
        BY <2>4, <4>1, <4>2
    <3>. QED
      BY <3>1, <3>2
  <2>6. g = [n \in 0..m |-> g[n]]
    OBVIOUS
  <2>7. g = [n \in 0..m |->
               IF n = 0 THEN 0 ELSE g[n - 1] + EnergyConsumed(ps[n])]
    <3> HIDE DEF g
    <3>. QED
      BY <2>5, <2>6
  <2>8. g \in [0..m -> Nat]
    <3> HIDE DEF g
    <3>. QED
      BY <2>5, <2>6
  <2>. QED
    BY <2>7, <2>8 DEF Running
<1>4. I = {}
  <2>1. SUFFICES ASSUME I # {} PROVE FALSE
    OBVIOUS
  <2>2. PICK m \in I : \A j \in I : m <= j
    <3> HIDE DEF I
    <3>. QED
      BY <1>1, <2>1, Least
  <2>3. m \in 0..Len(ps) /\ ~Has(m)
    OBVIOUS
  <2> HIDE DEF Has
  <2>4. m # 0 /\ m \in 1..Len(ps) /\ m - 1 \in 0..Len(ps)
    BY <1>1, <1>2, <2>3
  <2>5. ~Has(m - 1)
    BY <1>3, <2>3, <2>4
  <2>6. m - 1 \in I
    BY <2>4, <2>5
  <2>7. m <= m - 1
    BY <2>2, <2>6
  <2>. QED
    BY <1>1, <2>3, <2>7
<1>. QED
  BY <1>4

(* The first m periods of ps and of qs are the same.                       *)
Agree(ps, qs, m) == \A n \in 1..m : ps[n] = qs[n]

(* Two running sums, of which one may go on further, agree as far as both  *)
(* go, also when further periods follow only for one of them.              *)
LEMMA SumsAgree ==
    ASSUME NEW ps, NEW qs, NEW M \in Nat, NEW N \in Nat, M <= N,
           Agree(ps, qs, M),
           NEW f, NEW g, Running(ps, M, f), Running(qs, N, g)
    PROVE  \A n \in 0..M : f[n] = g[n]
<1> DEFINE I == {n \in 0..M : f[n] # g[n]}
<1>1. SUFFICES ASSUME I # {} PROVE FALSE
  OBVIOUS
<1>2. PICK m \in I : \A j \in I : m <= j
  <2>1. I \in SUBSET Nat
    OBVIOUS
  <2> HIDE DEF I
  <2>. QED
    BY <1>1, <2>1, Least
<1>3. m \in 0..M /\ m \in 0..N /\ f[m] # g[m]
  OBVIOUS
<1>4. f[m] = IF m = 0 THEN 0 ELSE f[m - 1] + EnergyConsumed(ps[m])
  BY <1>3 DEF Running
<1>5. g[m] = IF m = 0 THEN 0 ELSE g[m - 1] + EnergyConsumed(qs[m])
  BY <1>3 DEF Running
<1>6. m # 0
  BY <1>3, <1>4, <1>5
<1>7. m \in 1..M /\ m - 1 \in 0..M /\ ~(m <= m - 1)
  BY <1>3, <1>6
<1>8. m - 1 \notin I
  BY <1>2, <1>7
<1>9. f[m - 1] = g[m - 1] /\ ps[m] = qs[m]
  BY <1>7, <1>8 DEF Agree
<1>. QED
  BY <1>3, <1>4, <1>5, <1>9

(* What the reduce returns is the last of a running sum.                   *)
LEMMA EnergyIsSum ==
    ASSUME NEW ps \in Seq(ChargingPeriod)
    PROVE  \E f : /\ Running(ps, Len(ps), f) /\ f \in [0..Len(ps) -> Nat]
                  /\ EnergyOf(ps) = f[Len(ps)]
<1> DEFINE total == CHOOSE total : Running(ps, Len(ps), total)
<1>1. EnergyOf(ps) = total[Len(ps)]
  BY DEF EnergyOf, Running
<1>2. Len(ps) \in Nat /\ Len(ps) \in 0..Len(ps)
  OBVIOUS
<1>3. PICK f : Running(ps, Len(ps), f) /\ f \in [0..Len(ps) -> Nat]
  BY <1>2, SumExists
<1>4. Running(ps, Len(ps), total)
  BY <1>3
<1>5. \A n \in 0..Len(ps) : total[n] = f[n]
  <2>1. Agree(ps, ps, Len(ps))
    BY DEF Agree
  <2> HIDE DEF total
  <2>. QED
    BY <1>2, <1>3, <1>4, <2>1, SumsAgree
<1>. QED
  BY <1>1, <1>2, <1>3, <1>5

(* One period more in a sequence adds its energy, which is not negative.   *)
LEMMA SumGoesOn ==
    ASSUME NEW ps \in Seq(ChargingPeriod), NEW qs \in Seq(ChargingPeriod),
           NEW k \in Nat, Len(ps) = k, Len(qs) = k + 1, Agree(ps, qs, k)
    PROVE  /\ EnergyOf(qs) = EnergyOf(ps) + EnergyConsumed(qs[k + 1])
           /\ EnergyOf(qs) >= EnergyOf(ps)
<1>1. PICK f : /\ Running(ps, k, f) /\ f \in [0..k -> Nat]
               /\ EnergyOf(ps) = f[k]
  BY EnergyIsSum
<1>2. PICK g : /\ Running(qs, k + 1, g) /\ g \in [0..(k + 1) -> Nat]
               /\ EnergyOf(qs) = g[k + 1]
  BY EnergyIsSum
<1>3. /\ k + 1 \in Nat /\ k <= k + 1 /\ k \in 0..k /\ k + 1 \in 0..(k + 1)
      /\ k + 1 # 0 /\ (k + 1) - 1 = k
  OBVIOUS
<1>4. f[k] = g[k]
  <2>1. Running(ps, k, f)
    BY <1>1
  <2>2. Running(qs, k + 1, g)
    BY <1>2
  <2>3. k \in Nat /\ k + 1 \in Nat /\ k <= k + 1 /\ Agree(ps, qs, k)
    OBVIOUS
  <2>4. \A n \in 0..k : f[n] = g[n]
    BY ONLY <2>1, <2>2, <2>3, SumsAgree
  <2>. QED
    BY <1>3, <2>4
<1>5. g[k + 1] = g[k] + EnergyConsumed(qs[k + 1])
  BY <1>2, <1>3 DEF Running
<1>6. f[k] \in Nat /\ EnergyConsumed(qs[k + 1]) \in Nat
  BY <1>1, <1>3, EnergyIsNat
<1>. QED
  BY <1>1, <1>2, <1>4, <1>5, <1>6

LEMMA EnergyOfOneMore ==
    ASSUME NEW ps \in Seq(ChargingPeriod), NEW p \in ChargingPeriod
    PROVE  /\ EnergyOf(Append(ps, p)) = EnergyOf(ps) + EnergyConsumed(p)
           /\ EnergyOf(Append(ps, p)) >= EnergyOf(ps)
<1>1. /\ Len(ps) \in Nat /\ Append(ps, p) \in Seq(ChargingPeriod)
      /\ Len(Append(ps, p)) = Len(ps) + 1
      /\ Append(ps, p)[Len(ps) + 1] = p
  OBVIOUS
<1>2. Agree(ps, Append(ps, p), Len(ps))
  BY DEF Agree
<1>. QED
  BY <1>1, <1>2, SumGoesOn

(* Of the methods only addChargingPeriod touches the periods: it appends.  *)
LEMMA PeriodsOnlyAdded ==
    ASSUME SessionInv, SessionCall
    PROVE  /\ session.chargingPeriods \in Seq(ChargingPeriod)
           /\ \/ session'.chargingPeriods = session.chargingPeriods
              \/ \E p \in ChargingPeriod :
                    session'.chargingPeriods = Append(session.chargingPeriods, p)
<1> DEFINE ps == session.chargingPeriods
<1>1. session \in RawSession
  BY SessionIsRaw DEF SessionCall
<1>2. ps \in Seq(ChargingPeriod)
  BY <1>1 DEF RawSession
<1>3. CASE \/ Start
           \/ \E end \in 0..MaxTime, cost \in Amount \cup {Null} : Complete(end, cost)
           \/ \E kwh \in Amount : UpdateEnergy(kwh)
           \/ \E preferences \in Preference : SetChargingPreferences(preferences)
  <2>1. session'.chargingPeriods = ps
    BY <1>1, <1>3
    DEF RawSession, Start, Complete, UpdateEnergy, SetChargingPreferences, Becomes
  <2>. QED
    BY <1>2, <2>1
<1>4. CASE \E p \in Period : AddChargingPeriod(p)
  <2>1. PICK p \in Period : AddChargingPeriod(p)
    BY <1>4
  <2>2. session'.chargingPeriods = Append(ps, p)
    BY <1>1, <2>1 DEF RawSession, AddChargingPeriod, Becomes
  <2>. QED
    BY <1>2, <2>2, PeriodIsTyped
<1>. QED
  BY <1>3, <1>4 DEF SessionCall

(***************************************************************************)
(* getTotalEnergyFromPeriods never falls, for any number of periods and    *)
(* dimensions and any volumes: no method takes a period out or replaces    *)
(* one, and no dimension has a negative volume.                            *)
(***************************************************************************)
THEOREM EnergyOnlyGrows == SessionSpec => PeriodEnergyNeverFalls
<1>1. ASSUME SessionInv, [SessionNext]_<<sessionVars, now>>
      PROVE  [session # Null =>
                TotalEnergyFromPeriods(session') >=
                    TotalEnergyFromPeriods(session)]_session
  <2>1. SUFFICES ASSUME session # Null, session' # session
                 PROVE  TotalEnergyFromPeriods(session') >=
                            TotalEnergyFromPeriods(session)
    OBVIOUS
  <2>2. SessionCall
    BY <1>1, <2>1 DEF SessionNext, ConstructSession, sessionVars
  <2> DEFINE ps == session.chargingPeriods
  <2>3. ps \in Seq(ChargingPeriod)
    BY <1>1, <2>2, PeriodsOnlyAdded
  <2>4. CASE session'.chargingPeriods = ps
    <3>1. EnergyOf(ps) \in Nat
      <4>1. PICK f : /\ f \in [0..Len(ps) -> Nat]
                     /\ EnergyOf(ps) = f[Len(ps)]
        BY <2>3, EnergyIsSum
      <4>. QED
        BY <2>3, <4>1
    <3>. QED
      BY <2>4, <3>1 DEF TotalEnergyFromPeriods
  <2>5. CASE \E p \in ChargingPeriod : session'.chargingPeriods = Append(ps, p)
    BY <2>3, <2>5, EnergyOfOneMore DEF TotalEnergyFromPeriods
  <2>. QED
    BY <1>1, <2>2, <2>4, <2>5, PeriodsOnlyAdded
<1>. QED
  BY <1>1, SessionStarts, SessionStep, PTL DEF SessionSpec, PeriodEnergyNeverFalls

-----------------------------------------------------------------------------
(* What holds of a tree that only careful callers have been at, and of     *)
(* what a call has made of it.                                             *)
InOrder(l) == Minds(l.evses, l.lastUpdated) /\ l.lastUpdated <= now

Careful ==
    ~careless =>
        /\ location # Null => InOrder(location)
        /\ call # Null => InOrder(call.made)

(* What a client has not got is stamped with a time it has yet to ask for. *)
Ahead ==
    /\ reader.until <= now
    /\ location # Null /\ reader.copy = "outdated" =>
          location.lastUpdated >= reader.until

(* A call's stamp is of the time of the call, and the client has yet to    *)
(* ask for it unless it has overtaken the call.                            *)
Stamped ==
    call # Null /\ location # Null =>
        /\ call.made.lastUpdated = call.at
        /\ ~call.overtaken => call.made.lastUpdated >= reader.until

TreeInv == now \in Nat /\ TreeTypeOK /\ Careful /\ Ahead /\ Stamped

(* What findIndex returns of EVSEs and uids.                               *)
LEMMA IndexedFinds ==
    ASSUME NEW es \in Seq(EVSE), NEW u
    PROVE  \/ /\ Indexed(es, u) = 0
              /\ \A i \in DOMAIN es : es[i].uid # u
           \/ /\ Indexed(es, u) \in DOMAIN es /\ Indexed(es, u) # 0
              /\ es[Indexed(es, u)].uid = u
<1> DEFINE I == {i \in DOMAIN es : es[i].uid = u}
<1>1. Indexed(es, u) = IF I = {} THEN 0 ELSE CHOOSE i \in I : \A j \in I : i <= j
  BY DEF Indexed, FindIndex
<1>2. CASE I = {}
  BY <1>1, <1>2
<1>3. CASE I # {}
  <2>1. I \in SUBSET Nat /\ 0 \notin DOMAIN es
    OBVIOUS
  <2>2. \E i \in I : \A j \in I : i <= j
    <3> HIDE DEF I
    <3>. QED
      BY <1>3, <2>1, Least
  <2>3. Indexed(es, u) \in I
    <3> HIDE DEF I
    <3>. QED
      BY <1>1, <1>3, <2>2
  <2>. QED
    BY <2>1, <2>3
<1>. QED
  BY <1>2, <1>3

(* The same of connectors and ids.                                         *)
LEMMA ConnectorFound ==
    ASSUME NEW cs \in Seq(Connector), NEW cid
    PROVE  \/ /\ ConnectorAt(cs, cid) = 0
              /\ \A j \in DOMAIN cs : cs[j].id # cid
           \/ /\ ConnectorAt(cs, cid) \in DOMAIN cs /\ ConnectorAt(cs, cid) # 0
              /\ cs[ConnectorAt(cs, cid)].id = cid
<1> DEFINE I == {i \in DOMAIN cs : cs[i].id = cid}
<1>1. ConnectorAt(cs, cid) =
        IF I = {} THEN 0 ELSE CHOOSE i \in I : \A j \in I : i <= j
  BY DEF ConnectorAt, FindIndex
<1>2. CASE I = {}
  BY <1>1, <1>2
<1>3. CASE I # {}
  <2>1. I \in SUBSET Nat /\ 0 \notin DOMAIN cs
    OBVIOUS
  <2>2. \E i \in I : \A j \in I : i <= j
    <3> HIDE DEF I
    <3>. QED
      BY <1>3, <2>1, Least
  <2>3. ConnectorAt(cs, cid) \in I
    <3> HIDE DEF I
    <3>. QED
      BY <1>1, <1>3, <2>2
  <2>. QED
    BY <2>1, <2>3
<1>. QED
  BY <1>2, <1>3

-----------------------------------------------------------------------------
(* What callers come with has the types of what is stored.                 *)
LEMMA PushedConnectorsTyped ==
    ASSUME NEW cs \in Pushed(PushedConnector, MaxPushed)
    PROVE  cs \in Seq(Connector) /\ Len(cs) > 0
<1>1. PICK k \in 1..MaxPushed : cs \in [1..k -> PushedConnector]
  BY DEF Pushed
<1>2. PushedConnector \subseteq Connector
  BY ClockAssumption DEF PushedConnector, Connector, Stamp
<1>3. k \in Nat /\ k > 0
  BY <1>1, TreeAssumption
<1>4. cs \in [1..k -> Connector]
  BY <1>1, <1>2
<1>. QED
  BY <1>3, <1>4

LEMMA PushedEvseTyped == PushedEvse \subseteq EVSE
<1> SUFFICES ASSUME NEW e \in PushedEvse PROVE e \in EVSE
  OBVIOUS
<1>1. /\ e.connectors \in Pushed(PushedConnector, MaxPushed)
      /\ e.lastUpdated \in Nat
  BY ClockAssumption DEF PushedEvse, Stamp
<1>2. e.connectors \in {cs \in Seq(Connector) : Len(cs) > 0}
  BY <1>1, PushedConnectorsTyped
<1>. QED
  BY <1>1, <1>2 DEF PushedEvse, EVSE

LEMMA PushedEvsesTyped == PushedEvses \subseteq Seq(EVSE)
<1> SUFFICES ASSUME NEW es \in PushedEvses PROVE es \in Seq(EVSE)
  OBVIOUS
<1>1. CASE es = <<>>
  BY <1>1
<1>2. CASE es \in Pushed(PushedEvse, MaxPushed)
  <2>1. PICK k \in 1..MaxPushed : es \in [1..k -> PushedEvse]
    BY <1>2 DEF Pushed
  <2>2. k \in Nat
    BY <2>1, TreeAssumption
  <2>3. es \in [1..k -> EVSE]
    BY <2>1, PushedEvseTyped
  <2>. QED
    BY <2>2, <2>3
<1>. QED
  BY <1>1, <1>2 DEF PushedEvses

-----------------------------------------------------------------------------
(* Replacing one EVSE by another of its uid.                               *)
LEMMA Replaced ==
    ASSUME NEW es \in Seq(EVSE), NEW k \in DOMAIN es, NEW e \in EVSE
    PROVE  /\ [es EXCEPT ![k] = e] \in Seq(EVSE)
           /\ \A stamp \in Nat :
                 /\ now \in Nat /\ stamp <= now
                 /\ Minds(es, stamp)
                 /\ e.uid = es[k].uid
                 /\ e.lastUpdated <= now
                 /\ MindsConnectors(e)
                 => Minds([es EXCEPT ![k] = e], now)
<1> DEFINE fs == [es EXCEPT ![k] = e]
<1>1. fs \in Seq(EVSE) /\ DOMAIN fs = DOMAIN es
  OBVIOUS
<1>2. \A i \in DOMAIN es : fs[i] = IF i = k THEN e ELSE es[i]
  OBVIOUS
<1>3. ASSUME NEW stamp \in Nat, now \in Nat, stamp <= now,
             Minds(es, stamp), e.uid = es[k].uid,
             e.lastUpdated <= now, MindsConnectors(e)
      PROVE  Minds(fs, now)
  <2> HIDE DEF fs
  <2>1. \A i, j \in DOMAIN fs : fs[i].uid = fs[j].uid => i = j
    BY <1>1, <1>2, <1>3 DEF Minds
  <2>2. ASSUME NEW i \in DOMAIN fs
        PROVE  fs[i].lastUpdated <= now /\ MindsConnectors(fs[i])
    <3>1. CASE i = k
      BY <1>1, <1>2, <1>3, <3>1
    <3>2. CASE i # k
      <4>1. fs[i] = es[i] /\ es[i] \in EVSE
        BY <1>1, <1>2, <3>2
      <4>2. es[i].lastUpdated \in Nat /\ es[i].lastUpdated <= stamp
        BY <1>1, <1>3, <4>1 DEF Minds, EVSE
      <4>. QED
        BY <1>1, <1>3, <4>1, <4>2 DEF Minds
    <3>. QED
      BY <3>1, <3>2
  <2>. QED
    BY <2>1, <2>2 DEF Minds
<1>. QED
  BY <1>1, <1>3

(* Adding one of a uid that is not there.                                  *)
LEMMA Added ==
    ASSUME NEW es \in Seq(EVSE), NEW e \in EVSE
    PROVE  /\ Append(es, e) \in Seq(EVSE)
           /\ \A stamp \in Nat :
                 /\ now \in Nat /\ stamp <= now
                 /\ Minds(es, stamp)
                 /\ (\A i \in DOMAIN es : es[i].uid # e.uid)
                 /\ e.lastUpdated <= now
                 /\ MindsConnectors(e)
                 => Minds(Append(es, e), now)
<1> DEFINE fs == Append(es, e)
<1>1. fs \in Seq(EVSE) /\ DOMAIN fs = DOMAIN es \cup {Len(es) + 1}
  OBVIOUS
<1>2. \A i \in DOMAIN fs : fs[i] = IF i \in DOMAIN es THEN es[i] ELSE e
  OBVIOUS
<1>3. ASSUME NEW stamp \in Nat, now \in Nat, stamp <= now,
             Minds(es, stamp), \A i \in DOMAIN es : es[i].uid # e.uid,
             e.lastUpdated <= now, MindsConnectors(e)
      PROVE  Minds(fs, now)
  <2> HIDE DEF fs
  <2>1. \A i, j \in DOMAIN fs : fs[i].uid = fs[j].uid => i = j
    BY <1>1, <1>2, <1>3 DEF Minds
  <2>2. ASSUME NEW i \in DOMAIN fs
        PROVE  fs[i].lastUpdated <= now /\ MindsConnectors(fs[i])
    <3>1. CASE i \notin DOMAIN es
      BY <1>1, <1>2, <1>3, <3>1
    <3>2. CASE i \in DOMAIN es
      <4>1. fs[i] = es[i] /\ es[i] \in EVSE
        BY <1>1, <1>2, <3>2
      <4>2. es[i].lastUpdated \in Nat /\ es[i].lastUpdated <= stamp
        BY <1>3, <3>2, <4>1 DEF Minds, EVSE
      <4>. QED
        BY <1>3, <3>2, <4>1, <4>2 DEF Minds
    <3>. QED
      BY <3>1, <3>2
  <2>. QED
    BY <2>1, <2>2 DEF Minds
<1>. QED
  BY <1>1, <1>3

(* Taking out all of one uid.                                              *)
LEMMA Removed ==
    ASSUME NEW es \in Seq(EVSE), NEW u, NEW fs \in RemoveEVSE(es, u)
    PROVE  /\ fs \in Seq(EVSE)
           /\ \A stamp \in Nat :
                 /\ now \in Nat /\ stamp <= now
                 /\ Minds(es, stamp)
                 => Minds(fs, now)
<1> DEFINE kept == {i \in DOMAIN es : es[i].uid # u}
           n == Cardinality(kept)
<1>1. PICK f \in [1..n -> kept] :
         /\ \A j, k \in 1..n : j < k => f[j] < f[k]
         /\ fs = [k \in 1..n |-> es[f[k]]]
  BY DEF RemoveEVSE
<1>2. n \in Nat
  <2>1. Len(es) \in Nat /\ kept \in SUBSET (1..Len(es))
    OBVIOUS
  <2>2. IsFiniteSet(kept)
    BY <2>1, FS_Interval, FS_Subset
  <2>. QED
    BY <2>2, FS_CardinalityType
<1> HIDE DEF n
<1>3. \A k \in 1..n : f[k] \in DOMAIN es /\ fs[k] = es[f[k]] /\ fs[k] \in EVSE
  BY <1>1
<1>4. fs \in Seq(EVSE) /\ DOMAIN fs = 1..n
  BY <1>1, <1>2, <1>3
<1>5. ASSUME NEW stamp \in Nat, now \in Nat, stamp <= now, Minds(es, stamp)
      PROVE  Minds(fs, now)
  <2>1. ASSUME NEW i \in 1..n, NEW j \in 1..n, fs[i].uid = fs[j].uid
        PROVE  i = j
    <3>1. f[i] = f[j]
      BY <1>3, <1>5, <2>1 DEF Minds
    <3>2. f[i] \in Nat /\ i \in Nat /\ j \in Nat
      BY <1>2, <1>3
    <3>3. ~(i < j) /\ ~(j < i)
      BY <1>1, <3>1, <3>2
    <3>. QED
      BY <3>2, <3>3
  <2>2. ASSUME NEW i \in 1..n
        PROVE  fs[i].lastUpdated <= now /\ MindsConnectors(fs[i])
    <3>1. fs[i].lastUpdated \in Nat /\ fs[i].lastUpdated <= stamp
      BY <1>3, <1>5 DEF Minds, EVSE
    <3>. QED
      BY <1>3, <1>5, <3>1 DEF Minds
  <2>. QED
    BY <1>4, <2>1, <2>2 DEF Minds
<1>. QED
  BY <1>4, <1>5

(* An EVSE with its connectors replaced is stamped; connectors that differ *)
(* in their ids, and are of the past, leave it in order.                   *)
LEMMA Reconnected ==
    ASSUME NEW e \in EVSE, NEW cs \in Seq(Connector), Len(cs) > 0, now \in Nat
    PROVE  /\ UpdateConnectors(e, cs) \in EVSE
           /\ UpdateConnectors(e, cs).uid = e.uid
           /\ UpdateConnectors(e, cs).lastUpdated = now
           /\ /\ \A i, j \in DOMAIN cs : cs[i].id = cs[j].id => i = j
              /\ \A i \in DOMAIN cs : cs[i].lastUpdated <= now
              => MindsConnectors(UpdateConnectors(e, cs))
<1> DEFINE f == UpdateConnectors(e, cs)
<1>1. /\ f \in EVSE /\ f.uid = e.uid
      /\ f.lastUpdated = now /\ f.connectors = cs
  BY DEF UpdateConnectors, EVSE
<1> HIDE DEF f
<1>. QED
  BY <1>1 DEF MindsConnectors, f

(* The PUT of a connector replaces the one of its id or is the last one.   *)
LEMMA ConnectorPut ==
    ASSUME NEW e \in EVSE, NEW cid, NEW c \in Connector
    PROVE  /\ WithConnector(e, cid, c) \in Seq(Connector)
           /\ Len(WithConnector(e, cid, c)) > 0
           /\ /\ now \in Nat /\ c.id = cid /\ c.lastUpdated <= now
              /\ MindsConnectors(e) /\ e.lastUpdated <= now
              => LET cs == WithConnector(e, cid, c)
                 IN  /\ \A i, j \in DOMAIN cs : cs[i].id = cs[j].id => i = j
                     /\ \A i \in DOMAIN cs : cs[i].lastUpdated <= now
<1> DEFINE cs == WithConnector(e, cid, c)
           ds == e.connectors
           k == ConnectorAt(ds, cid)
<1>1. ds \in Seq(Connector) /\ Len(ds) > 0 /\ e.lastUpdated \in Nat
  BY DEF EVSE
<1>2. cs = IF k = 0 THEN Append(ds, c) ELSE [ds EXCEPT ![k] = c]
  BY DEF WithConnector
<1>3. \/ k = 0 /\ \A j \in DOMAIN ds : ds[j].id # cid
      \/ k \in DOMAIN ds /\ k # 0 /\ ds[k].id = cid
  BY <1>1, ConnectorFound
<1>4. \A j \in DOMAIN ds : ds[j].lastUpdated \in Nat
  <2>1. \A j \in DOMAIN ds : ds[j] \in Connector
    BY <1>1
  <2>. QED
    BY <2>1 DEF Connector
<1> HIDE DEF cs, ds, k
<1>5. CASE k = 0
  <2>1. /\ cs \in Seq(Connector) /\ Len(cs) > 0
        /\ DOMAIN cs = DOMAIN ds \cup {Len(ds) + 1}
        /\ \A j \in DOMAIN cs : cs[j] = IF j \in DOMAIN ds THEN ds[j] ELSE c
    BY <1>1, <1>2, <1>5
  <2>2. ASSUME now \in Nat, c.id = cid, c.lastUpdated <= now,
               MindsConnectors(e), e.lastUpdated <= now
        PROVE  /\ \A i, j \in DOMAIN cs : cs[i].id = cs[j].id => i = j
               /\ \A i \in DOMAIN cs : cs[i].lastUpdated <= now
    <3>1. \A i, j \in DOMAIN cs : cs[i].id = cs[j].id => i = j
      BY <1>3, <1>5, <2>1, <2>2 DEF MindsConnectors, ds
    <3>2. \A j \in DOMAIN ds : ds[j].lastUpdated <= e.lastUpdated
      BY <2>2 DEF MindsConnectors, ds
    <3>3. \A i \in DOMAIN cs : cs[i].lastUpdated <= now
      BY <1>1, <1>4, <2>1, <2>2, <3>2
    <3>. QED
      BY <3>1, <3>3
  <2>. QED
    BY <2>1, <2>2 DEF cs
<1>6. CASE k # 0
  <2>1. /\ cs \in Seq(Connector) /\ Len(cs) > 0 /\ DOMAIN cs = DOMAIN ds
        /\ \A j \in DOMAIN cs : cs[j] = IF j = k THEN c ELSE ds[j]
    BY <1>1, <1>2, <1>3, <1>6
  <2>2. ASSUME now \in Nat, c.id = cid, c.lastUpdated <= now,
               MindsConnectors(e), e.lastUpdated <= now
        PROVE  /\ \A i, j \in DOMAIN cs : cs[i].id = cs[j].id => i = j
               /\ \A i \in DOMAIN cs : cs[i].lastUpdated <= now
    <3>1. \A i, j \in DOMAIN cs : cs[i].id = cs[j].id => i = j
      BY <1>3, <1>6, <2>1, <2>2 DEF MindsConnectors, ds
    <3>2. \A j \in DOMAIN ds : ds[j].lastUpdated <= e.lastUpdated
      BY <2>2 DEF MindsConnectors, ds
    <3>3. \A i \in DOMAIN cs : cs[i].lastUpdated <= now
      BY <1>1, <1>4, <2>1, <2>2, <3>2
    <3>. QED
      BY <3>1, <3>3
  <2>. QED
    BY <2>1, <2>2 DEF cs
<1>. QED
  BY <1>5, <1>6

(* What EVSE's own methods make of an EVSE.                                *)
LEMMA ChangedInOrder ==
    ASSUME NEW e \in EVSE, NEW f \in Changed(e), now \in Nat
    PROVE  /\ f \in EVSE /\ f.uid = e.uid
           /\ MindsConnectors(e) /\ e.lastUpdated <= now =>
                 MindsConnectors(f) /\ f.lastUpdated <= now
<1>1. e.lastUpdated \in Nat /\ e.connectors \in Seq(Connector) /\ Len(e.connectors) > 0
  BY DEF EVSE
<1>2. \A j \in DOMAIN e.connectors : e.connectors[j] \in Connector
  BY <1>1
<1>3. \A j \in DOMAIN e.connectors : e.connectors[j].lastUpdated \in Nat
  BY <1>2 DEF Connector
<1>4. ASSUME f.connectors = e.connectors, f.lastUpdated \in {e.lastUpdated, now},
             MindsConnectors(e), e.lastUpdated <= now
      PROVE  MindsConnectors(f) /\ f.lastUpdated <= now
  BY <1>1, <1>3, <1>4 DEF MindsConnectors
<1>5. CASE \E s \in EvseStatus : f = [e EXCEPT !.status = s, !.lastUpdated = now]
  <2>1. f \in EVSE /\ f.uid = e.uid /\ f.connectors = e.connectors /\ f.lastUpdated = now
    BY <1>5 DEF EVSE
  <2>. QED
    BY <2>1, <1>4
<1>6. CASE f = e \/ f = [e EXCEPT !.lastUpdated = now]
  <2>1. /\ f \in EVSE /\ f.uid = e.uid /\ f.connectors = e.connectors
        /\ f.lastUpdated \in {e.lastUpdated, now}
    BY <1>6 DEF EVSE
  <2>. QED
    BY <2>1, <1>4
<1>7. CASE \E j \in DOMAIN e.connectors :
             f = UpdateConnectors(e, Touched(e.connectors, j))
  <2>1. PICK j \in DOMAIN e.connectors :
             f = UpdateConnectors(e, Touched(e.connectors, j))
    BY <1>7
  <2> DEFINE ds == e.connectors
             c == [ds[j] EXCEPT !.lastUpdated = now]
             cs == [ds EXCEPT ![j] = c]
  <2>2. f = UpdateConnectors(e, cs)
    BY <2>1 DEF Touched
  <2>3. ds[j] \in Connector /\ c \in Connector /\ c.id = ds[j].id /\ c.lastUpdated = now
    BY <1>2 DEF Connector
  <2> HIDE DEF c
  <2>4. /\ cs \in Seq(Connector) /\ Len(cs) > 0 /\ DOMAIN cs = DOMAIN ds
        /\ \A i \in DOMAIN ds : cs[i] = IF i = j THEN c ELSE ds[i]
    BY <1>1, <2>3
  <2> HIDE DEF cs
  <2>5. ASSUME MindsConnectors(e), e.lastUpdated <= now
        PROVE  /\ \A i, k \in DOMAIN cs : cs[i].id = cs[k].id => i = k
               /\ \A i \in DOMAIN cs : cs[i].lastUpdated <= now
    <3>1. \A i, k \in DOMAIN ds : ds[i].id = ds[k].id => i = k
      BY <2>5 DEF MindsConnectors
    <3>2. \A i \in DOMAIN ds : ds[i].lastUpdated <= e.lastUpdated
      BY <2>5 DEF MindsConnectors
    <3>3. \A i \in DOMAIN ds : cs[i].id = ds[i].id
      BY <2>3, <2>4
    <3>4. \A i \in DOMAIN ds : cs[i].lastUpdated <= now
      BY <1>1, <1>3, <2>3, <2>4, <2>5, <3>2
    <3>. QED
      BY <2>4, <3>1, <3>3, <3>4
  <2>. QED
    BY <2>2, <2>4, <2>5, Reconnected
<1>. QED
  BY <1>5, <1>6, <1>7 DEF Changed

-----------------------------------------------------------------------------
StampedWith(l, es) == l \in Location /\ l.lastUpdated = now /\ l.evses = es

(* What a call that is careful makes is in order, and bears the time of    *)
(* the call unless there was no location.                                  *)
LEMMA MakesKeeps ==
    ASSUME TreeInv, NEW l \in Location, NEW minded \in BOOLEAN,
           Makes(l, minded), UNCHANGED now,
           ~careless /\ minded => InOrder(l),
           location # Null => l.lastUpdated = now
    PROVE  TreeInv'
<1>1. /\ call' = [made |-> l, at |-> now, overtaken |-> FALSE]
      /\ careless' = (careless \/ ~minded)
      /\ UNCHANGED <<location, reader, now>>
  BY DEF Makes
<1>2. /\ call' \in Call /\ call'.made = l /\ call'.at = now /\ ~call'.overtaken
      /\ careless' \in BOOLEAN
  BY <1>1 DEF Call, TreeInv, TreeTypeOK
<1>3. reader.until \in Nat /\ reader.until <= now /\ now \in Nat
  BY DEF TreeInv, TreeTypeOK, Reader, Ahead
<1>4. TreeTypeOK' /\ Ahead'
  BY <1>1, <1>2 DEF TreeInv, TreeTypeOK, Ahead
<1>5. Stamped'
  BY <1>1, <1>2, <1>3 DEF Stamped
<1>6. Careful'
  <2>1. ~careless' => ~careless /\ minded
    BY <1>1
  <2>2. ~careless' /\ location' # Null => InOrder(location)'
    BY <1>1, <2>1 DEF TreeInv, Careful, InOrder, Minds, MindsConnectors
  <2>3. ~careless' /\ call' # Null => InOrder(call.made)'
    BY <1>1, <1>2, <2>1 DEF InOrder, Minds, MindsConnectors
  <2>. QED
    BY <2>2, <2>3 DEF Careful
<1>. QED
  BY <1>1, <1>3, <1>4, <1>5, <1>6 DEF TreeInv

(* A call has made a location with EVSEs es that bears its time.           *)
LEMMA StampedKeeps ==
    ASSUME TreeInv, NEW es \in Seq(EVSE), NEW l, NEW minded \in BOOLEAN,
           StampedWith(l, es), Makes(l, minded), UNCHANGED now,
           ~careless /\ minded => Minds(es, now)
    PROVE  TreeInv'
<1>1. l \in Location /\ l.lastUpdated = now /\ l.evses = es /\ now \in Nat
  BY DEF StampedWith, TreeInv
<1>2. ~careless /\ minded => InOrder(l)
  BY <1>1 DEF InOrder
<1>. QED
  BY <1>1, <1>2, MakesKeeps

(* The EVSEs of a location that there is.                                  *)
LEMMA EvsesOf ==
    ASSUME TreeInv, location # Null
    PROVE  /\ location.evses \in Seq(EVSE)
           /\ location.lastUpdated \in Nat
           /\ \A es \in Seq(EVSE) :
                 StampedWith([location EXCEPT !.evses = es, !.lastUpdated = now], es)
<1>1. location \in Location
  BY DEF TreeInv, TreeTypeOK
<1>2. location.evses \in Seq(EVSE) /\ location.lastUpdated \in Nat
  BY <1>1 DEF Location
<1>3. ASSUME NEW es \in Seq(EVSE)
      PROVE  StampedWith([location EXCEPT !.evses = es, !.lastUpdated = now], es)
  <2>1. now \in Nat
    BY DEF TreeInv
  <2>. QED
    BY <1>1, <2>1 DEF Location, StampedWith
<1>. QED
  BY <1>2, <1>3

LEMMA BecomesOfKeeps ==
    ASSUME TreeInv, location # Null, NEW es \in Seq(EVSE), NEW minded \in BOOLEAN,
           BecomesOf(es, minded), UNCHANGED now,
           ~careless /\ minded => Minds(es, now)
    PROVE  TreeInv'
<1> DEFINE l == [location EXCEPT !.evses = es, !.lastUpdated = now]
<1>1. StampedWith(l, es)
  BY EvsesOf
<1>2. Makes(l, minded)
  BY DEF BecomesOf
<1> HIDE DEF l
<1>. QED
  BY <1>1, <1>2, StampedKeeps

(* What holds of the EVSEs of a tree that was minded so far.               *)
LEMMA MindedSoFar ==
    ASSUME TreeInv, location # Null, ~careless
    PROVE  /\ Minds(location.evses, location.lastUpdated)
           /\ location.lastUpdated \in Nat /\ location.lastUpdated <= now
           /\ \A i \in DOMAIN location.evses :
                 /\ MindsConnectors(location.evses[i])
                 /\ location.evses[i].lastUpdated <= now
<1>1. /\ Minds(location.evses, location.lastUpdated)
      /\ location.lastUpdated \in Nat /\ location.lastUpdated <= now /\ now \in Nat
  BY EvsesOf DEF TreeInv, Careful, InOrder
<1>2. ASSUME NEW i \in DOMAIN location.evses
      PROVE  /\ MindsConnectors(location.evses[i])
             /\ location.evses[i].lastUpdated <= now
  <2>1. location.evses \in Seq(EVSE)
    BY EvsesOf
  <2>2. location.evses[i] \in EVSE
    BY <2>1
  <2>3. location.evses[i].lastUpdated \in Nat
    BY <2>2 DEF EVSE
  <2>. QED
    BY <1>1, <2>3 DEF Minds
<1>. QED
  BY <1>1, <1>2

-----------------------------------------------------------------------------
LEMMA PutLocationKeeps ==
    ASSUME TreeInv, NEW stamp \in Stamp, NEW es \in PushedEvses \cup {Null},
           PutLocation(stamp, es), UNCHANGED now
    PROVE  TreeInv'
<1> DEFINE minded == stamp <= now /\ (es # Null => Minds(es, stamp))
<1>1. stamp \in Nat /\ now \in Nat /\ (es # Null => es \in Seq(EVSE))
  BY ClockAssumption, PushedEvsesTyped DEF Stamp, TreeInv
<1>2. CASE location # Null
  <2> DEFINE fs == IF es = Null THEN location.evses ELSE es
             l == [lastUpdated |-> now, evses |-> fs]
  <2>1. fs \in Seq(EVSE)
    BY <1>1, <1>2, EvsesOf
  <2>2. Makes(l, minded)
    BY <1>2 DEF PutLocation
  <2>3. StampedWith(l, fs)
    BY <1>1, <2>1 DEF StampedWith, Location
  <2>4. ASSUME ~careless, minded PROVE Minds(fs, now)
    <3>1. PICK t \in Nat : t <= now /\ Minds(fs, t)
      BY <1>1, <1>2, <2>4, MindedSoFar
    <3>2. \A i \in DOMAIN fs : fs[i] \in EVSE
      BY <2>1
    <3> HIDE DEF fs
    <3>3. \A i \in DOMAIN fs : fs[i].lastUpdated \in Nat
      BY <3>2 DEF EVSE
    <3>. QED
      BY <1>1, <3>1, <3>3 DEF Minds
  <2>5. minded \in BOOLEAN
    OBVIOUS
  <2> HIDE DEF fs, l, minded
  <2>. QED
    BY <2>1, <2>2, <2>3, <2>4, <2>5, StampedKeeps
<1>3. CASE location = Null
  <2> DEFINE fs == IF es = Null THEN <<>> ELSE es
             l == [lastUpdated |-> stamp, evses |-> fs]
  <2>1. fs \in Seq(EVSE)
    BY <1>1
  <2>2. Makes(l, minded)
    BY <1>3 DEF PutLocation
  <2>3. l \in Location
    BY <1>1, <2>1 DEF Location
  <2>4. ASSUME minded PROVE InOrder(l)
    <3>1. Minds(<<>>, stamp)
      BY DEF Minds
    <3>2. Minds(fs, stamp)
      BY <2>4, <3>1
    <3> HIDE DEF fs
    <3>. QED
      BY <2>4, <3>2 DEF InOrder
  <2>5. minded \in BOOLEAN
    OBVIOUS
  <2> HIDE DEF fs, l, minded
  <2>. QED
    BY <1>3, <2>2, <2>3, <2>4, <2>5, MakesKeeps
<1>. QED
  BY <1>2, <1>3

LEMMA PatchLocationKeeps ==
    ASSUME TreeInv, NEW es \in PushedEvses \cup {Null},
           PatchLocation(es), UNCHANGED now
    PROVE  TreeInv'
<1> DEFINE fs == IF es = Null THEN location.evses ELSE es
           l == [lastUpdated |-> now, evses |-> fs]
           minded == es # Null => Minds(es, now)
<1>1. location # Null /\ now \in Nat /\ (es # Null => es \in Seq(EVSE))
  BY PushedEvsesTyped DEF PatchLocation, TreeInv
<1>2. fs \in Seq(EVSE)
  BY <1>1, EvsesOf
<1>3. Makes(l, minded)
  BY DEF PatchLocation
<1>4. StampedWith(l, fs)
  BY <1>1, <1>2 DEF StampedWith, Location
<1>5. ASSUME ~careless, minded PROVE Minds(fs, now)
  <2>1. CASE es # Null
    BY <1>5, <2>1
  <2>2. CASE es = Null
    BY <1>1, <1>5, <2>2, MindedSoFar DEF Minds
  <2>. QED
    BY <2>1, <2>2
<1>6. minded \in BOOLEAN
  OBVIOUS
<1> HIDE DEF fs, l, minded
<1>. QED
  BY <1>2, <1>3, <1>4, <1>5, <1>6, StampedKeeps

LEMMA PutEvseKeeps ==
    ASSUME TreeInv, NEW u \in EvseUid, NEW e \in PushedEvse,
           PutEvse(u, e), UNCHANGED now
    PROVE  TreeInv'
<1> DEFINE es == location.evses
           k == Indexed(es, u)
           minded == e.uid = u /\ e.lastUpdated <= now /\ MindsConnectors(e)
<1>1. location # Null /\ e \in EVSE /\ es \in Seq(EVSE) /\ now \in Nat
  BY PushedEvseTyped, EvsesOf DEF PutEvse, TreeInv
<1>2. \/ k = 0 /\ \A i \in DOMAIN es : es[i].uid # u
      \/ k \in DOMAIN es /\ k # 0 /\ es[k].uid = u
  BY <1>1, IndexedFinds
<1>3. minded \in BOOLEAN
  OBVIOUS
<1>4. CASE k # 0
  <2>1. BecomesOf([es EXCEPT ![k] = e], minded)
    BY <1>4 DEF PutEvse, UpdateEVSE
  <2>2. [es EXCEPT ![k] = e] \in Seq(EVSE)
    BY <1>1, <1>2, <1>4, Replaced
  <2>3. ~careless /\ minded => Minds([es EXCEPT ![k] = e], now)
    BY <1>1, <1>2, <1>4, Replaced, MindedSoFar
  <2> HIDE DEF minded, es, k
  <2>. QED
    BY <1>1, <1>3, <2>1, <2>2, <2>3, BecomesOfKeeps
<1>5. CASE k = 0
  <2>1. BecomesOf(AddEVSE(es, e), minded) /\ AddEVSE(es, e) # Null
    BY <1>5 DEF PutEvse, BecomesOf
  <2>2. AddEVSE(es, e) = Append(es, e)
    BY <2>1 DEF AddEVSE
  <2>3. Append(es, e) \in Seq(EVSE)
    BY <1>1, Added
  <2>4. ~careless /\ minded => Minds(Append(es, e), now)
    BY <1>1, <1>2, <1>5, Added, MindedSoFar
  <2> HIDE DEF minded, es, k
  <2>. QED
    BY <1>1, <1>3, <2>1, <2>2, <2>3, <2>4, BecomesOfKeeps
<1>. QED
  BY <1>4, <1>5

LEMMA PutConnectorKeeps ==
    ASSUME TreeInv, NEW u \in EvseUid, NEW cid \in ConnectorId,
           NEW c \in PushedConnector,
           PutConnector(u, cid, c), UNCHANGED now
    PROVE  TreeInv'
<1> DEFINE es == location.evses
           k == Indexed(es, u)
           e == es[k]
           cs == WithConnector(e, cid, c)
           f == UpdateConnectors(e, cs)
           minded == c.id = cid /\ c.lastUpdated <= now
<1>1. location # Null /\ es \in Seq(EVSE) /\ now \in Nat /\ k # 0
  BY EvsesOf DEF PutConnector, TreeInv
<1>2. k \in DOMAIN es /\ e.uid = u /\ e \in EVSE
  BY <1>1, IndexedFinds
<1>3. c \in Connector
  BY ClockAssumption DEF PushedConnector, Connector, Stamp
<1>4. BecomesOf([es EXCEPT ![k] = f], minded) /\ minded \in BOOLEAN
  BY <1>1 DEF PutConnector, UpdateEVSE
<1>5. /\ cs \in Seq(Connector) /\ Len(cs) > 0
      /\ /\ now \in Nat /\ c.id = cid /\ c.lastUpdated <= now
         /\ MindsConnectors(e) /\ e.lastUpdated <= now
         => /\ \A i, j \in DOMAIN cs : cs[i].id = cs[j].id => i = j
            /\ \A i \in DOMAIN cs : cs[i].lastUpdated <= now
  <2> HIDE DEF e
  <2>. QED
    BY <1>2, <1>3, ConnectorPut
<1> HIDE DEF e, cs
<1>6. /\ f \in EVSE /\ f.uid = e.uid /\ f.lastUpdated = now
      /\ /\ \A i, j \in DOMAIN cs : cs[i].id = cs[j].id => i = j
         /\ \A i \in DOMAIN cs : cs[i].lastUpdated <= now
         => MindsConnectors(f)
  BY <1>1, <1>2, <1>5, Reconnected
<1> HIDE DEF f
<1>7. [es EXCEPT ![k] = f] \in Seq(EVSE)
  BY <1>1, <1>2, <1>6, Replaced
<1>8. ASSUME ~careless, minded PROVE Minds([es EXCEPT ![k] = f], now)
  <2>1. /\ Minds(es, location.lastUpdated)
        /\ location.lastUpdated \in Nat /\ location.lastUpdated <= now
        /\ MindsConnectors(e) /\ e.lastUpdated <= now
    BY <1>1, <1>2, <1>8, MindedSoFar DEF e
  <2>2. MindsConnectors(f) /\ f.lastUpdated <= now
    BY <1>1, <1>5, <1>6, <1>8, <2>1
  <2>3. f.uid = es[k].uid
    BY <1>6 DEF e
  <2>. QED
    BY <1>1, <1>2, <1>6, <2>1, <2>2, <2>3, Replaced
<1> HIDE DEF minded, es, k
<1>. QED
  BY <1>1, <1>4, <1>7, <1>8, BecomesOfKeeps

LEMMA OwnCallsKeep ==
    ASSUME TreeInv, UNCHANGED now,
           \/ UpdatePublishStatus
           \/ \E u \in EvseUid : RemoveEvse(u)
           \/ location # Null /\ \E i \in DOMAIN location.evses : ChangeEvse(i)
    PROVE  TreeInv'
<1> DEFINE es == location.evses
<1>1. location # Null /\ es \in Seq(EVSE) /\ now \in Nat
  BY EvsesOf DEF UpdatePublishStatus, RemoveEvse, TreeInv
<1>2. CASE UpdatePublishStatus
  <2> DEFINE l == [location EXCEPT !.lastUpdated = now]
  <2>1. location \in Location
    BY <1>1 DEF TreeInv, TreeTypeOK
  <2>2. StampedWith(l, es)
    BY <1>1, <2>1 DEF StampedWith, Location
  <2>3. ~careless => Minds(es, now)
    BY <1>1, MindedSoFar DEF Minds
  <2>4. Makes(l, TRUE)
    BY <1>2 DEF UpdatePublishStatus
  <2> HIDE DEF l, es
  <2>. QED
    BY <1>1, <2>2, <2>3, <2>4, StampedKeeps
<1>3. CASE \E u \in EvseUid : RemoveEvse(u)
  <2>1. PICK u \in EvseUid : \E fs \in RemoveEVSE(es, u) : BecomesOf(fs, TRUE)
    BY <1>3 DEF RemoveEvse
  <2>2. PICK fs \in RemoveEVSE(es, u) : BecomesOf(fs, TRUE)
    BY <2>1
  <2>3. fs \in Seq(EVSE) /\ (~careless => Minds(fs, now))
    BY <1>1, MindedSoFar, Removed
  <2>. QED
    BY <1>1, <2>2, <2>3, BecomesOfKeeps
<1>4. CASE \E i \in DOMAIN es : ChangeEvse(i)
  <2>1. PICK i \in DOMAIN es : ChangeEvse(i)
    BY <1>4
  <2>2. PICK e \in Changed(es[i]) : BecomesOf(UpdateEVSE(es, e.uid, e), TRUE)
    BY <2>1 DEF ChangeEvse
  <2>3. es[i] \in EVSE
    BY <1>1
  <2>4. /\ e \in EVSE /\ e.uid = es[i].uid
        /\ MindsConnectors(es[i]) /\ es[i].lastUpdated <= now =>
              MindsConnectors(e) /\ e.lastUpdated <= now
    BY <1>1, <2>3, ChangedInOrder
  <2> DEFINE k == Indexed(es, e.uid)
  <2>5. k \in DOMAIN es /\ k # 0 /\ es[k].uid = e.uid
    BY <1>1, <2>4, IndexedFinds
  <2>6. BecomesOf([es EXCEPT ![k] = e], TRUE)
    BY <2>2, <2>5 DEF UpdateEVSE
  <2>7. [es EXCEPT ![k] = e] \in Seq(EVSE)
    BY <1>1, <2>4, <2>5, Replaced
  <2>8. ~careless => Minds([es EXCEPT ![k] = e], now)
    BY <1>1, <2>4, <2>5, MindedSoFar, Replaced
  <2> HIDE DEF es, k
  <2>. QED
    BY <1>1, <2>6, <2>7, <2>8, BecomesOfKeeps
<1>. QED
  BY <1>2, <1>3, <1>4

LEMMA TreeCallKeeps ==
    ASSUME TreeInv, TreeCall, UNCHANGED now
    PROVE  TreeInv'
<1>1. CASE \E stamp \in Stamp, es \in PushedEvses \cup {Null} : PutLocation(stamp, es)
  BY <1>1, PutLocationKeeps
<1>2. CASE \E es \in PushedEvses \cup {Null} : PatchLocation(es)
  BY <1>2, PatchLocationKeeps
<1>3. CASE \E u \in EvseUid, e \in PushedEvse : PutEvse(u, e)
  BY <1>3, PutEvseKeeps
<1>4. CASE \E u \in EvseUid, cid \in ConnectorId, c \in PushedConnector :
              PutConnector(u, cid, c)
  BY <1>4, PutConnectorKeeps
<1>5. CASE \/ UpdatePublishStatus
           \/ \E u \in EvseUid : RemoveEvse(u)
           \/ location # Null /\ \E i \in DOMAIN location.evses : ChangeEvse(i)
  BY <1>5, OwnCallsKeep
<1>. QED
  BY <1>1, <1>2, <1>3, <1>4, <1>5 DEF TreeCall

(* A save puts what a call has made in the place of the location.          *)
LEMMA SaveKeeps ==
    ASSUME TreeInv, Save, UNCHANGED now
    PROVE  TreeInv'
<1>1. /\ call # Null /\ call \in Call /\ call' = Null /\ careless' = careless
      /\ now \in Nat /\ reader \in Reader /\ reader.until \in Nat
  BY DEF Save, TreeInv, TreeTypeOK, Reader
<1>2. call.made \in Location /\ call.made.lastUpdated \in Nat
  BY <1>1 DEF Call, Location
<1>3. Stamped'
  BY <1>1 DEF Stamped
<1>4. CASE UNCHANGED <<location, reader>>
  <2>1. TreeTypeOK' /\ Ahead'
    BY <1>1, <1>4 DEF TreeInv, TreeTypeOK, Ahead
  <2>2. Careful'
    BY <1>1, <1>4 DEF TreeInv, Careful, InOrder, Minds, MindsConnectors
  <2>. QED
    BY <1>1, <1>3, <2>1, <2>2 DEF TreeInv
<1>5. CASE location' = call.made /\ reader' = Untold
  <2> DEFINE copy == IF call.overtaken THEN "overtaken"
                     ELSE IF location = Null /\ call.made.lastUpdated < reader.until
                            THEN "backdated" ELSE "outdated"
  <2>1. reader' = [reader EXCEPT !.copy = copy]
    BY <1>5 DEF Untold
  <2>2. reader' \in Reader /\ reader'.until = reader.until /\ reader'.copy = copy
    <3>1. copy \in {"current", "outdated", "overtaken", "backdated"}
      OBVIOUS
    <3> HIDE DEF copy
    <3>. QED
      BY <1>1, <2>1, <3>1 DEF Reader
  <2>3. TreeTypeOK'
    BY <1>1, <1>2, <1>5, <2>2 DEF TreeInv, TreeTypeOK
  <2>4. ASSUME copy = "outdated" PROVE call.made.lastUpdated >= reader.until
    <3>1. CASE location = Null
      BY <1>1, <1>2, <2>4, <3>1
    <3>2. CASE location # Null
      BY <1>1, <2>4, <3>2 DEF TreeInv, Stamped
    <3>. QED
      BY <3>1, <3>2
  <2> HIDE DEF copy
  <2>5. Ahead'
    BY <1>1, <1>5, <2>2, <2>4 DEF TreeInv, Ahead
  <2>6. Careful'
    BY <1>1, <1>5 DEF TreeInv, Careful, InOrder, Minds, MindsConnectors
  <2>. QED
    BY <1>1, <1>3, <2>3, <2>5, <2>6 DEF TreeInv
<1>. QED
  BY <1>4, <1>5 DEF Save

(* A poll moves the window to a time that is not of the future; what it    *)
(* did not list, though the client has not got it, is stamped after that,  *)
(* as is what is about to be saved, unless it is now overtaken.            *)
LEMMA PollKeeps ==
    ASSUME TreeInv, NEW to \in (reader.until..now) \cup {Null},
           FindLocations(to), UNCHANGED now
    PROVE  TreeInv'
<1>1. /\ reader \in Reader /\ reader.until \in Nat /\ reader.until <= now
      /\ now \in Nat /\ UNCHANGED <<location, careless>>
  BY DEF TreeInv, TreeTypeOK, Reader, Ahead, FindLocations
<1> DEFINE until == IF to = Null THEN now ELSE to
           copy == IF Listed(reader.until, to) THEN "current" ELSE reader.copy
<1>2. reader' = [until |-> until, copy |-> copy]
  BY DEF FindLocations
<1>3. until \in Nat /\ until <= now
  BY <1>1
<1>4. reader' \in Reader /\ reader'.until = until /\ reader'.copy = copy
  <2>1. copy \in {"current", "outdated", "overtaken", "backdated"}
    BY <1>1 DEF Reader
  <2> HIDE DEF until, copy
  <2>. QED
    BY <1>2, <1>3, <2>1 DEF Reader
<1>5. ASSUME location # Null, copy = "outdated" PROVE location.lastUpdated >= until
  <2>1. ~Listed(reader.until, to) /\ reader.copy = "outdated"
    BY <1>5
  <2>2. location.lastUpdated \in Nat /\ location.lastUpdated >= reader.until
    BY <1>5, <2>1, EvsesOf DEF TreeInv, Ahead
  <2>3. to # Null /\ ~(location.lastUpdated < to)
    BY <1>5, <2>1, <2>2 DEF Listed
  <2>. QED
    BY <1>1, <2>2, <2>3
<1> HIDE DEF until, copy
<1>6. Ahead'
  BY <1>1, <1>3, <1>4, <1>5 DEF Ahead
<1>7. /\ call = Null => call' = Null
      /\ call # Null =>
            /\ call' \in Call
            /\ call'.made = call.made /\ call'.at = call.at
            /\ ~call'.overtaken => ~(until > call.made.lastUpdated)
  <2>1. call' = IF call # Null /\ until > call.made.lastUpdated
                  THEN [call EXCEPT !.overtaken = TRUE] ELSE call
    BY <1>4 DEF FindLocations
  <2>2. call # Null => call \in Call
    BY DEF TreeInv, TreeTypeOK
  <2>. QED
    BY <2>1, <2>2 DEF Call
<1>8. call # Null => call.made.lastUpdated \in Nat
  BY DEF TreeInv, TreeTypeOK, Call, Location
<1>9. TreeTypeOK'
  BY <1>1, <1>4, <1>7 DEF TreeInv, TreeTypeOK
<1>10. Careful'
  BY <1>1, <1>7 DEF TreeInv, Careful, InOrder, Minds, MindsConnectors
<1>11. Stamped'
  BY <1>1, <1>3, <1>4, <1>7, <1>8 DEF TreeInv, Stamped
<1>. QED
  BY <1>1, <1>6, <1>9, <1>10, <1>11 DEF TreeInv

LEMMA TreeStarts == ClockInit /\ TreeInit => TreeInv
<1> SUFFICES ASSUME ClockInit, TreeInit PROVE TreeInv
  OBVIOUS
<1>1. /\ reader \in Reader /\ reader.until = 0
      /\ location = Null /\ call = Null /\ now = 0
  BY DEF ClockInit, TreeInit, Reader
<1>2. TreeTypeOK
  BY <1>1 DEF TreeInit, TreeTypeOK
<1>. QED
  BY <1>1, <1>2 DEF TreeInv, Careful, Ahead, Stamped

LEMMA TreeStep == TreeInv /\ [TreeNext]_<<treeVars, now>> => TreeInv'
<1> SUFFICES ASSUME TreeInv, [TreeNext]_<<treeVars, now>> PROVE TreeInv'
  OBVIOUS
<1>1. CASE TreeCall /\ UNCHANGED now
  BY <1>1, TreeCallKeeps
<1>2. CASE (\E to \in (reader.until..now) \cup {Null} : FindLocations(to)) /\ UNCHANGED now
  BY <1>2, PollKeeps
<1>3. CASE UNCHANGED treeVars /\ now' \in Nat /\ now' >= now
  <2>1. UNCHANGED <<location, call, reader, careless>> /\ now \in Nat
    BY <1>3 DEF treeVars, TreeInv
  <2>2. TreeTypeOK' /\ Stamped'
    BY <2>1 DEF TreeInv, TreeTypeOK, Stamped
  <2>3. ASSUME NEW l \in Location, InOrder(l)
        PROVE  Minds(l.evses, l.lastUpdated) /\ l.lastUpdated <= now'
    <3>1. l.lastUpdated \in Nat
      BY DEF Location
    <3>. QED
      BY <1>3, <2>1, <2>3, <3>1 DEF InOrder
  <2>4. /\ location # Null => location \in Location
        /\ call # Null => call.made \in Location
    BY DEF TreeInv, TreeTypeOK, Call
  <2>5. Careful'
    BY <2>1, <2>3, <2>4 DEF TreeInv, Careful, InOrder, Minds, MindsConnectors
  <2>6. Ahead'
    <3>1. reader.until \in Nat /\ reader.until <= now
      BY DEF TreeInv, TreeTypeOK, Reader, Ahead
    <3>. QED
      BY <1>3, <2>1, <3>1 DEF TreeInv, Ahead
  <2>. QED
    BY <1>3, <2>2, <2>5, <2>6 DEF TreeInv
<1>4. CASE Tick /\ UNCHANGED treeVars
  BY <1>3, <1>4 DEF Tick, TreeInv
<1>5. CASE UNCHANGED <<treeVars, now>>
  BY <1>3, <1>5 DEF TreeInv
<1>6. CASE Save /\ UNCHANGED now
  BY <1>6, SaveKeeps
<1>. QED
  BY <1>1, <1>2, <1>4, <1>5, <1>6 DEF TreeNext

-----------------------------------------------------------------------------
(* Locations, EVSEs and connectors keep their types.                       *)
THEOREM TreeTypeCorrect == TreeSpec => []TreeTypeOK
<1>1. TreeInv => TreeTypeOK
  BY DEF TreeInv
<1>. QED
  BY <1>1, TreeStarts, TreeStep, PTL DEF TreeSpec

(* findEvse and findConnector find every child of a tree that only careful *)
(* callers have been at.                                                   *)
THEOREM IdsIdentifyChildren == TreeSpec => []IdsIdentify
<1>1. ASSUME TreeInv PROVE IdsIdentify
  <2> SUFFICES ASSUME location # Null, ~careless, NEW i \in DOMAIN location.evses
               PROVE  LET e == location.evses[i]
                      IN  /\ FindEvse(e.uid) = e
                          /\ \A j \in DOMAIN e.connectors :
                                FindConnector(e.uid, e.connectors[j].id)
                                  = e.connectors[j]
    BY DEF IdsIdentify
  <2> DEFINE es == location.evses
             e == es[i]
             k == Indexed(es, e.uid)
  <2>1. es \in Seq(EVSE) /\ Minds(es, location.lastUpdated)
    BY <1>1, EvsesOf, MindedSoFar
  <2>2. e \in EVSE /\ e # Null
    BY <2>1, TreeAssumption
  <2>3. k \in DOMAIN es /\ k # 0 /\ es[k].uid = es[i].uid
    BY <2>1, IndexedFinds
  <2>4. k = i
    BY <2>1, <2>3 DEF Minds
  <2>5. FindEvse(e.uid) = e
    BY <2>3, <2>4 DEF FindEvse
  <2>6. ASSUME NEW j \in DOMAIN e.connectors
        PROVE  FindConnector(e.uid, e.connectors[j].id) = e.connectors[j]
    <3> DEFINE ds == e.connectors
               n == ConnectorAt(ds, ds[j].id)
    <3>1. ds \in Seq(Connector)
      BY <2>2 DEF EVSE
    <3>2. n \in DOMAIN ds /\ n # 0 /\ ds[n].id = ds[j].id
      BY <3>1, ConnectorFound
    <3>3. \A a, b \in DOMAIN ds : ds[a].id = ds[b].id => a = b
      BY <2>1 DEF Minds, MindsConnectors
    <3>4. n = j
      <4> HIDE DEF ds, n
      <4>. QED
        BY <3>2, <3>3 DEF ds
    <3>. QED
      BY <2>2, <2>5, <3>2, <3>4 DEF FindConnector
  <2>. QED
    BY <2>5, <2>6
<1>. QED
  BY <1>1, TreeStarts, TreeStep, PTL DEF TreeSpec

(* A location is stamped no earlier than its EVSEs, and these no earlier   *)
(* than their connectors, if callers mind the stamps.                      *)
THEOREM ParentsNewest == TreeSpec => []ParentsAreNewest
<1>1. ASSUME TreeInv PROVE ParentsAreNewest
  <2> SUFFICES ASSUME location # Null, ~careless, NEW i \in DOMAIN location.evses
               PROVE  LET e == location.evses[i]
                      IN  /\ location.lastUpdated >= e.lastUpdated
                          /\ \A j \in DOMAIN e.connectors :
                                e.lastUpdated >= e.connectors[j].lastUpdated
    BY DEF ParentsAreNewest
  <2>1. Minds(location.evses, location.lastUpdated)
    BY <1>1, MindedSoFar
  <2>. QED
    BY <2>1 DEF Minds, MindsConnectors
<1>. QED
  BY <1>1, TreeStarts, TreeStep, PTL DEF TreeSpec

(* Whatever a call changes among the EVSEs, the location bears the time of *)
(* the call once it is saved, and no other step changes an EVSE.           *)
THEOREM AllChangesSurface == TreeSpec => ChangesSurface
<1>1. TreeInv /\ [TreeNext]_<<treeVars, now>> =>
        [location # Null /\ location'.evses # location.evses =>
            location'.lastUpdated = call.at]_location
  <2> SUFFICES ASSUME TreeInv, TreeNext, location # Null,
                      location'.evses # location.evses
               PROVE  location'.lastUpdated = call.at
    BY DEF treeVars
  <2>1. CASE Save
    BY <2>1 DEF Save, TreeInv, Stamped
  <2>2. CASE TreeCall
    BY <2>2 DEF TreeCall, PutLocation, PatchLocation, UpdatePublishStatus,
                PutEvse, PutConnector, RemoveEvse, ChangeEvse, BecomesOf, Makes
  <2>. QED
    BY <2>1, <2>2 DEF TreeNext, FindLocations, treeVars
<1>. QED
  BY <1>1, TreeStarts, TreeStep, PTL DEF TreeSpec, ChangesSurface

(***************************************************************************)
(* Windows of time that follow one another list every change but one that  *)
(* was saved after the client had asked for the time of its stamp, and the *)
(* creation of a location with a last_updated of an earlier window.        *)
(***************************************************************************)
THEOREM OnlyOvertakenMissed == TreeSpec => []MissedOnlyIfOvertaken
<1>1. ASSUME TreeInv PROVE MissedOnlyIfOvertaken
  <2> SUFFICES ASSUME location # Null, reader.copy = "outdated"
               PROVE  ~(location.lastUpdated < reader.until)
    BY DEF MissedOnlyIfOvertaken
  <2>1. location.lastUpdated \in Nat /\ reader.until \in Nat
    BY <1>1, EvsesOf DEF TreeInv, TreeTypeOK, Reader
  <2>2. location.lastUpdated >= reader.until
    BY <1>1 DEF TreeInv, Ahead
  <2>. QED
    BY <2>1, <2>2
<1>. QED
  BY <1>1, TreeStarts, TreeStep, PTL DEF TreeSpec
=============================================================================
