------------------------------- MODULE Session -------------------------------
(***************************************************************************)
(* The charging session aggregate: its constructor and every method that   *)
(* makes a changed session of a session.  A session is immutable; the      *)
(* variable is the one that its holder was last given.  A call that throws *)
(* leaves it with the one it had.                                          *)
(*                                                                         *)
(* What no method reads or changes is left out: the id, the token, the     *)
(* authorization, the location reference, the meter and the currency.      *)
(***************************************************************************)
EXTENDS Clock, Integers, SequencesExt

CONSTANTS
    Amount,      \* numbers a caller passes: energies, volumes, costs
    Preference,  \* charging preferences
    MaxPeriods,  \* bound of the model: charging periods of a session
    MaxDims      \* bound of the model: dimensions of a charging period

ASSUME SessionAssumption ==
    /\ Amount \subseteq Int
    /\ Null \notin Int \cup Preference
    /\ MaxPeriods \in Nat /\ MaxDims \in Nat

VARIABLES
    session,  \* the session; Null as long as none was constructed
    bornAs    \* history: the status it was constructed with

sessionVars == <<session, bornAs>>

-----------------------------------------------------------------------------
Status == {"ACTIVE", "COMPLETED", "INVALID", "PENDING", "RESERVED"}

(* TIME stands for every type of dimension that is not ENERGY. *)
Dimension == [type : {"ENERGY", "TIME"}, volume : {n \in Amount : n >= 0}]

(* What the constructor of ChargingPeriod lets pass. *)
ChargingPeriod == {p \in Seq(Dimension) : Len(p) > 0}

SessionType == [ status : Status, startDateTime : Nat,
                 endDateTime : Nat \cup {Null}, kwh : Nat,
                 totalCost : Nat \cup {Null},
                 chargingPeriods : Seq(ChargingPeriod),
                 chargingPreferences : Preference \cup {Null},
                 lastUpdated : Nat ]

MutantValid(s) ==
    /\ s.kwh >= 0
    /\ s.endDateTime # Null => s.endDateTime > s.startDateTime

(* validate: every constructor call ends in it. *)
Valid(s) ==
    /\ s.kwh >= 0
    /\ s.totalCost # Null => s.totalCost >= 0
    /\ s.endDateTime # Null => s.endDateTime > s.startDateTime

(* The volume of the first dimension of the type ENERGY. *)
EnergyConsumed(p) ==
    LET E == {i \in DOMAIN p : p[i].type = "ENERGY"}
    IN  IF E = {} THEN 0 ELSE p[CHOOSE i \in E : \A j \in E : i <= j].volume

EnergyOf(ps) ==
    LET total[n \in 0..Len(ps)] ==
            IF n = 0 THEN 0 ELSE total[n - 1] + EnergyConsumed(ps[n])
    IN  total[Len(ps)]

TotalEnergyFromPeriods(s) == EnergyOf(s.chargingPeriods)

(* Until now, as long as there is no end. *)
Duration(s) ==
    (IF s.endDateTime = Null THEN now ELSE s.endDateTime) - s.startDateTime

-----------------------------------------------------------------------------
SessionInit == session = Null /\ bornAs = Null

(* The periods a caller may come with, as long as the model lets it.       *)
Period == UNION {[1..n -> Dimension] : n \in 1..MaxDims}

ConstructSession ==
    /\ session = Null
    /\ \E status \in Status, start \in 0..MaxTime,
          end \in (0..MaxTime) \cup {Null}, kwh \in Amount,
          cost \in Amount \cup {Null}, preferences \in Preference \cup {Null},
          stamp \in 0..now :
          LET s == [ status |-> status, startDateTime |-> start,
                     endDateTime |-> end, kwh |-> kwh, totalCost |-> cost,
                     chargingPeriods |-> <<>>,
                     chargingPreferences |-> preferences,
                     lastUpdated |-> stamp ]
          IN  /\ Valid(s)
              /\ session' = s
              /\ bornAs' = status

(* The holder now has s, which the constructor let pass. *)
Becomes(s) ==
    /\ Valid(s)
    /\ session' = [s EXCEPT !.lastUpdated = now]
    /\ UNCHANGED bornAs

Start ==
    /\ session.status \in {"PENDING", "RESERVED"}
    /\ Becomes([session EXCEPT !.status = "ACTIVE"])

(* told || known: a cost of nothing is as good as none. *)
CostAtEnd(told, known) == IF told \in {Null, 0} THEN known ELSE told

MutantComplete(end, cost) ==
    /\ session.status = "ACTIVE"
    /\ Becomes([session EXCEPT !.status = "COMPLETED",
                               !.totalCost = CostAtEnd(cost, @)])

Complete(end, cost) ==
    /\ session.status = "ACTIVE"
    /\ end > session.startDateTime
    /\ Becomes([session EXCEPT !.status = "COMPLETED",
                               !.endDateTime = end,
                               !.totalCost = CostAtEnd(cost, @)])

(* In any status, and to less than before as well. *)
UpdateEnergy(kwh) ==
    /\ kwh >= 0
    /\ Becomes([session EXCEPT !.kwh = kwh])

MutantAddChargingPeriod(p) ==
    Becomes([session EXCEPT !.chargingPeriods = <<p>>])

(* In any status, and wherever in time the period lies. *)
AddChargingPeriod(p) ==
    /\ Len(session.chargingPeriods) < MaxPeriods
    /\ Becomes([session EXCEPT !.chargingPeriods = Append(@, p)])

MutantSetChargingPreferences(preferences) ==
    /\ session.status \in {"ACTIVE", "COMPLETED"}
    /\ Becomes([session EXCEPT !.chargingPreferences = preferences])

SetChargingPreferences(preferences) ==
    /\ session.status = "ACTIVE"
    /\ Becomes([session EXCEPT !.chargingPreferences = preferences])

SessionCall ==
    /\ session # Null
    /\ \/ Start
       \/ \E end \in 0..MaxTime, cost \in Amount \cup {Null} : Complete(end, cost)
       \/ \E kwh \in Amount : UpdateEnergy(kwh)
       \/ \E p \in Period : AddChargingPeriod(p)
       \/ \E preferences \in Preference : SetChargingPreferences(preferences)

SessionNext ==
    \/ (ConstructSession \/ SessionCall) /\ UNCHANGED now
    \/ Tick /\ UNCHANGED sessionVars

SessionSpec == ClockInit /\ SessionInit /\ [][SessionNext]_<<sessionVars, now>>

-----------------------------------------------------------------------------
SessionTypeOK ==
    /\ session \in SessionType \cup {Null}
    /\ session # Null /\ session.endDateTime # Null =>
          session.endDateTime > session.startDateTime
    /\ bornAs \in Status \cup {Null}

(***************************************************************************)
(* Whatever the order of the calls, a session that complete() brought to   *)
(* its end has an end, so that its duration does not go on counting, and   *)
(* one after its start.  One constructed as COMPLETED need not have any.   *)
(***************************************************************************)
CompletedHasEnded ==
    session # Null /\ session.status = "COMPLETED" /\ bornAs # "COMPLETED" =>
        session.endDateTime # Null /\ Duration(session) > 0

(***************************************************************************)
(* Nothing that comes late touches the bill.  Energy and periods are still *)
(* accepted when a session is over and change what it has consumed, but    *)
(* neither its status, its start and end, its cost nor the preferences.    *)
(***************************************************************************)
OverIsFinal ==
    [][session # Null /\ session.status \in {"COMPLETED", "INVALID"} =>
          /\ session'.status = session.status
          /\ session'.startDateTime = session.startDateTime
          /\ session'.endDateTime = session.endDateTime
          /\ session'.totalCost = session.totalCost
          /\ session'.chargingPreferences = session.chargingPreferences]_session

(***************************************************************************)
(* The energy of the periods only grows, in whatever order they come and   *)
(* whatever the status; that of the session itself (kwh) may fall.         *)
(***************************************************************************)
PeriodEnergyNeverFalls ==
    [][session # Null =>
          TotalEnergyFromPeriods(session') >= TotalEnergyFromPeriods(session)]_session
=============================================================================
