---------------------------- MODULE LocationTree ----------------------------
(***************************************************************************)
(* The location aggregate with its EVSEs and their connectors: what the    *)
(* methods of Location, EVSE and Connector and the calls of                *)
(* EmpLocationService make of one location, one call after another.  A     *)
(* call stamps the location that it makes, and saves it some awaits later; *)
(* a client may ask for what has changed in between.                       *)
(*                                                                         *)
(* The location is what a LocationRepository holds that keeps all it is      *)
(* given; what that of the program loses is in module Locations.           *)
(*                                                                         *)
(* Of the fields those are kept that the calls look at or that a reader    *)
(* finds a change by: uids and ids, the status, the time stamps; none of   *)
(* the location's own, publish included, which are in module Locations.    *)
(***************************************************************************)
EXTENDS Clock, SequencesExt

CONSTANTS
    EvseUid,        \* uids of EVSEs
    ConnectorId,    \* ids of connectors
    EvseStatus,     \* what the status of an EVSE may be
    MaxEvses,       \* bound of the model: EVSEs of a location
    MaxConnectors,  \* bound of the model: connectors of an EVSE
    MaxPushed       \* bound of the model: children in the body of a PUT

VARIABLES
    location,  \* the location; Null as long as there is none
    call,      \* the call that has made a location and not saved it, or Null
    reader,    \* a client that has asked for all changes before `until`
    careless   \* history: whether a caller did not mind ids or stamps

treeVars == <<location, call, reader, careless>>

-----------------------------------------------------------------------------
Connector == [id : ConnectorId, lastUpdated : Nat]

(* An EVSE has a connector; whether they differ in their ids is not looked *)
(* at by anybody, nor whether EVSEs do that come with a location.          *)
EVSE == [ uid : EvseUid, status : EvseStatus, lastUpdated : Nat,
          connectors : {cs \in Seq(Connector) : Len(cs) > 0} ]

ASSUME TreeAssumption ==
    /\ MaxEvses \in Nat /\ MaxConnectors \in Nat /\ MaxPushed \in Nat
    /\ Null \notin EVSE

Location == [lastUpdated : Nat, evses : Seq(EVSE)]

(* What a call has made, when it stamped it, and, history, whether the     *)
(* client has since asked for everything up to a later time than that of   *)
(* the stamp.                                                              *)
Call == [made : Location, at : Nat, overtaken : BOOLEAN]

(* Of the client's copy it is history whether it is the location as it is, *)
(* and, if not, whether the client could not help it: the change was saved *)
(* by a call that it had overtaken, or is the creation of a location with  *)
(* a last_updated that it had already asked for.                           *)
Reader == [until : Nat, copy : {"current", "outdated", "overtaken", "backdated"}]

(* What callers come with; their clocks may be ahead of ours. *)
Stamp == 0..MaxTime
Pushed(S, n) == UNION {[1..k -> S] : k \in 1..n}
PushedConnector == [id : ConnectorId, lastUpdated : Stamp]
PushedEvse == [ uid : EvseUid, status : EvseStatus, lastUpdated : Stamp,
                connectors : Pushed(PushedConnector, MaxPushed) ]
PushedEvses == Pushed(PushedEvse, MaxPushed) \cup {<<>>}

(* A caller minds the ids if it gives no two children the same one, and    *)
(* the stamps if no child is newer than its parent, nor that than our now. *)
MindsConnectors(e) ==
    /\ \A i, j \in DOMAIN e.connectors :
          e.connectors[i].id = e.connectors[j].id => i = j
    /\ \A i \in DOMAIN e.connectors :
          e.connectors[i].lastUpdated <= e.lastUpdated

Minds(evses, stamp) ==
    /\ \A i, j \in DOMAIN evses : evses[i].uid = evses[j].uid => i = j
    /\ \A i \in DOMAIN evses :
          evses[i].lastUpdated <= stamp /\ MindsConnectors(evses[i])

-----------------------------------------------------------------------------
(* The first of the indices that pass the test, or 0. *)
FindIndex(I) == IF I = {} THEN 0 ELSE CHOOSE i \in I : \A j \in I : i <= j

Indexed(es, u) == FindIndex({i \in DOMAIN es : es[i].uid = u})

ConnectorAt(cs, cid) == FindIndex({j \in DOMAIN cs : cs[j].id = cid})

(* What Location's methods make of the EVSEs. *)
AddEVSE(es, e) == IF Indexed(es, e.uid) = 0 THEN Append(es, e) ELSE Null

MutantUpdateEVSE(es, u, e) ==
    LET i == Indexed(es, u)
    IN  IF i = 0 THEN Null
        ELSE SubSeq(es, 1, i - 1) \o <<e>> \o SubSeq(es, i, Len(es))

UpdateEVSE(es, u, e) ==
    LET i == Indexed(es, u)
    IN  IF i = 0 THEN Null ELSE [es EXCEPT ![i] = e]

(* filter keeps the others in their order; there is one such list. *)
RemoveEVSE(es, u) ==
    LET kept == {i \in DOMAIN es : es[i].uid # u}
        n == Cardinality(kept)
        InOrder == {f \in [1..n -> kept] : \A j, k \in 1..n : j < k => f[j] < f[k]}
    IN  {[k \in 1..n |-> es[f[k]]] : f \in InOrder}

MutantUpdateConnectors(e, cs) == [e EXCEPT !.connectors = cs]

(* EVSE.updateConnectors *)
UpdateConnectors(e, cs) == [e EXCEPT !.connectors = cs, !.lastUpdated = now]

(* The connectors of e with c in place of the one called cid, or added. *)
WithConnector(e, cid, c) ==
    LET i == ConnectorAt(e.connectors, cid)
    IN  IF i = 0 THEN Append(e.connectors, c)
                 ELSE [e.connectors EXCEPT ![i] = c]

(* A call has made l and is about to save it. *)
Makes(l, minded) ==
    /\ call = Null
    /\ call' = [made |-> l, at |-> now, overtaken |-> FALSE]
    /\ careless' = (careless \/ ~minded)
    /\ UNCHANGED <<location, reader>>

MutantBecomesOf(es, minded) ==
    /\ es # Null
    /\ Len(es) <= MaxEvses
    /\ Makes([location EXCEPT !.evses = es], minded)

(* A method of Location has made es of the EVSEs, or has thrown. *)
BecomesOf(es, minded) ==
    /\ es # Null
    /\ Len(es) <= MaxEvses
    /\ Makes([location EXCEPT !.evses = es, !.lastUpdated = now], minded)

-----------------------------------------------------------------------------
TreeInit ==
    /\ location = Null
    /\ call = Null
    /\ reader = [until |-> 0, copy |-> "current"]
    /\ careless = FALSE

MutantPutLocation(stamp, es) ==
    Makes([ lastUpdated |-> IF location = Null THEN stamp ELSE now, evses |-> es ],
          stamp <= now /\ (es # Null => Minds(es, stamp)))

(* createOrUpdateLocation.  A body without evses, which is Null, leaves    *)
(* them as they are; an empty list removes them.                           *)
PutLocation(stamp, es) ==
    LET kept == IF location = Null THEN <<>> ELSE location.evses
    IN  Makes([ lastUpdated |-> IF location = Null THEN stamp ELSE now,
                evses |-> IF es = Null THEN kept ELSE es ],
              stamp <= now /\ (es # Null => Minds(es, stamp)))

(* updateLocationPartial *)
PatchLocation(es) ==
    /\ location # Null
    /\ Makes([ lastUpdated |-> now,
               evses |-> IF es = Null THEN location.evses ELSE es ],
             es # Null => Minds(es, now))

(* updateEvse of the service: the uid of the URL decides between           *)
(* updateEVSE and addEVSE; that of the body is what is stored.             *)
PutEvse(u, e) ==
    /\ location # Null
    /\ BecomesOf(IF Indexed(location.evses, u) # 0
                   THEN UpdateEVSE(location.evses, u, e)
                   ELSE AddEVSE(location.evses, e),
                 e.uid = u /\ e.lastUpdated <= now /\ MindsConnectors(e))

(* updateConnector of the service. *)
PutConnector(u, cid, c) ==
    /\ location # Null
    /\ LET i == Indexed(location.evses, u)
           e == location.evses[i]
           cs == WithConnector(e, cid, c)
       IN  /\ i # 0
           /\ Len(cs) <= MaxConnectors
           /\ BecomesOf(UpdateEVSE(location.evses, u, UpdateConnectors(e, cs)),
                        c.id = cid /\ c.lastUpdated <= now)

UpdatePublishStatus ==
    /\ location # Null
    /\ Makes([location EXCEPT !.lastUpdated = now], TRUE)

RemoveEvse(u) ==
    /\ location # Null
    /\ \E es \in RemoveEVSE(location.evses, u) : BecomesOf(es, TRUE)

(* updateTermsAndConditions and updateTariffs of the j-th connector.       *)
Touched(cs, j) == [cs EXCEPT ![j].lastUpdated = now]

(* updateStatus; addCapability and removeCapability, of which the former   *)
(* leaves an EVSE alone that has the capability; and updateConnectors with *)
(* one of them touched.                                                    *)
Changed(e) ==
    {[e EXCEPT !.status = s, !.lastUpdated = now] : s \in EvseStatus}
    \cup {e, [e EXCEPT !.lastUpdated = now]}
    \cup {UpdateConnectors(e, Touched(e.connectors, j)) : j \in DOMAIN e.connectors}

(* An EVSE is taken from the location, changed and put back. *)
ChangeEvse(i) ==
    \E e \in Changed(location.evses[i]) :
        BecomesOf(UpdateEVSE(location.evses, e.uid, e), TRUE)

(* The repository's findEvse and findConnector: the first with the id. *)
FindEvse(u) ==
    LET i == IF location = Null THEN 0 ELSE Indexed(location.evses, u)
    IN  IF i = 0 THEN Null ELSE location.evses[i]

FindConnector(u, cid) ==
    LET cs == IF FindEvse(u) = Null THEN <<>> ELSE FindEvse(u).connectors
        j == ConnectorAt(cs, cid)
    IN  IF j = 0 THEN Null ELSE cs[j]

TreeCall ==
    \/ \E stamp \in Stamp, es \in PushedEvses \cup {Null} : PutLocation(stamp, es)
    \/ \E es \in PushedEvses \cup {Null} : PatchLocation(es)
    \/ \E u \in EvseUid, e \in PushedEvse : PutEvse(u, e)
    \/ \E u \in EvseUid, cid \in ConnectorId, c \in PushedConnector :
          PutConnector(u, cid, c)
    \/ UpdatePublishStatus
    \/ \E u \in EvseUid : RemoveEvse(u)
    \/ location # Null /\ \E i \in DOMAIN location.evses : ChangeEvse(i)

(* What a save means for the client that is not told of it. *)
Untold ==
    [reader EXCEPT !.copy =
        IF call.overtaken THEN "overtaken"
        ELSE IF location = Null /\ call.made.lastUpdated < reader.until
               THEN "backdated" ELSE "outdated"]

(* saveLocation, at the end of every call: the row is looked up and then   *)
(* written, or the database fails or the process dies before.              *)
Save ==
    /\ call # Null
    /\ call' = Null
    /\ \/ location' = call.made /\ reader' = Untold
       \/ UNCHANGED <<location, reader>>
    /\ UNCHANGED careless

MutantListed(from, to) ==
    /\ location # Null
    /\ location.lastUpdated > from
    /\ to = Null \/ location.lastUpdated < to

(* The where clause of findLocations: the window is open to the right. *)
Listed(from, to) ==
    /\ location # Null
    /\ location.lastUpdated >= from
    /\ to = Null \/ location.lastUpdated < to

(* The client asks for what has changed since it last asked, with or       *)
(* without a date_to, and takes what it is given for its copy.             *)
FindLocations(to) ==
    /\ reader' = [ until |-> IF to = Null THEN now ELSE to,
                   copy |-> IF Listed(reader.until, to) THEN "current"
                                                       ELSE reader.copy ]
    /\ call' = IF call # Null /\ reader'.until > call.made.lastUpdated
                 THEN [call EXCEPT !.overtaken = TRUE] ELSE call
    /\ UNCHANGED <<location, careless>>

TreeNext ==
    \/ TreeCall /\ UNCHANGED now
    \/ Save /\ UNCHANGED now
    \/ (\E to \in (reader.until..now) \cup {Null} : FindLocations(to))
          /\ UNCHANGED now
    \/ Tick /\ UNCHANGED treeVars

TreeSpec == ClockInit /\ TreeInit /\ [][TreeNext]_<<treeVars, now>>

-----------------------------------------------------------------------------
TreeTypeOK ==
    /\ location \in Location \cup {Null}
    /\ call \in Call \cup {Null}
    /\ reader \in Reader
    /\ careless \in BOOLEAN

(***************************************************************************)
(* If every caller has in the body the id of the child that the URL names, *)
(* and itself sends none twice, the ids of an EVSE or connector find that  *)
(* one and no other: the program does not compare URL and body, and only   *)
(* addEVSE looks for a double.                                             *)
(***************************************************************************)
IdsIdentify ==
    location # Null /\ ~careless =>
        \A i \in DOMAIN location.evses :
            LET e == location.evses[i]
            IN  /\ FindEvse(e.uid) = e
                /\ \A j \in DOMAIN e.connectors :
                      FindConnector(e.uid, e.connectors[j].id) = e.connectors[j]

(***************************************************************************)
(* "Connector updates: Update specific connector, propagate to EVSE and    *)
(* Location": no child is newer than what it belongs to, whichever calls   *)
(* made it, so that a reader who asks by the location's last_updated finds *)
(* every change below it.                                                  *)
(***************************************************************************)
ParentsAreNewest ==
    location # Null /\ ~careless =>
        \A i \in DOMAIN location.evses :
            LET e == location.evses[i]
            IN  /\ location.lastUpdated >= e.lastUpdated
                /\ \A j \in DOMAIN e.connectors :
                      e.lastUpdated >= e.connectors[j].lastUpdated

(***************************************************************************)
(* "EVSE status changes affect Location last_updated": whatever changes in *)
(* the tree, removals included, which leave no child behind to tell of it, *)
(* the location is stamped with the time of the call that changed it,      *)
(* though not with that of its save.                                       *)
(***************************************************************************)
ChangesSurface ==
    [][location # Null /\ location'.evses # location.evses =>
          location'.lastUpdated = call.at]_location

(***************************************************************************)
(* A client that asks for one window of time after the other misses a      *)
(* change only if it overtook it, that is, asked for the time of its stamp *)
(* before it was saved, or if the change is the creation of a location     *)
(* with a last_updated of an earlier window.  The stamp is set before the  *)
(* save, and no window overlaps the one before: what a client overtakes is *)
(* in none of the windows to come.                                         *)
(***************************************************************************)
MissedOnlyIfOvertaken ==
    location # Null /\ location.lastUpdated < reader.until =>
        reader.copy # "outdated"
=============================================================================
