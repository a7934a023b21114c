------------------------------ MODULE Locations ------------------------------
(***************************************************************************)
(* The eMSP's copy of the locations: PUT and PATCH of a location, PUT of   *)
(* an EVSE and of a connector, from the service to the table.              *)
(*                                                                         *)
(* Every handler reads the row into an aggregate, changes the aggregate    *)
(* and saves it, with other handlers at work between any two awaits.  The  *)
(* mapping between row and aggregate is not the same in both directions:   *)
(* some columns are written and never read back.  EVSEs and connectors are *)
(* in neither mapping, so no row has any.                                  *)
(***************************************************************************)
EXTENDS Naturals

CONSTANTS
    Loc,           \* country_code, party_id and id of locations
    Base,          \* values of the required columns: publish, address, ...
    Opt, Blind,    \* values of optional columns, of two kinds: see Row
    Facilities,    \* values of the facilities column
    NoFacilities,  \* the empty list, which is a value of that column
    Null,          \* no row; undefined; NULL
    Req,           \* HTTP requests to the locations module of the eMSP
    MaxTime        \* bound of the model: the clock stops here

VARIABLES
    row,   \* row[id]: the row of the location
    now,   \* the clock of new Date()
    pc,    \* pc[r]: the await at which request r is, or how it ended
    req,   \* req[r]: what r asks for, while it is under way
    loc,   \* loc[r]: the aggregate that the handler of r is going to save
    stale  \* history: requests whose row was written since they read it

vars == <<row, now, pc, req, loc, stale>>

-----------------------------------------------------------------------------
(* opt: name, postal_code, state, parking_type, charging_when_closed, which *)
(* are read back.  blind: related_locations, directions, opening_times,     *)
(* energy_mix, publish_allowed_to, which are not.                           *)
Row == [ base : Base, opt : Opt \cup {Null}, blind : Blind \cup {Null},
         facilities : Facilities, lastUpdated : Nat ]

LocationOf(Stamp) == [ base : Base, opt : Opt \cup {Null},
                       blind : Blind \cup {Null},
                       facilities : Facilities \cup {Null},
                       lastUpdated : Stamp ]

(* A PATCH body, as far as its fields are called like those of Location.   *)
Patch == [ base : Base \cup {Null}, opt : Opt \cup {Null},
           blind : Blind \cup {Null}, facilities : Facilities \cup {Null} ]

RequestOf(Stamp) ==
    [method : {"PUT"}, id : Loc, data : LocationOf(Stamp)]
    \cup [method : {"PATCH"}, id : Loc, data : Patch]
    \cup [method : {"EVSE", "CONNECTOR"}, id : Loc]

ASSUME LocationsAssumption ==
    /\ NoFacilities \in Facilities
    /\ MaxTime \in Nat
    /\ Null \notin Base \cup Opt \cup Blind \cup Facilities
                   \cup Row \cup LocationOf(Nat) \cup RequestOf(Nat)

InFlight == {"exists", "find", "lookup", "update", "create"}

TypeOK ==
    /\ row \in [Loc -> Row \cup {Null}]
    /\ now \in Nat
    /\ pc \in [Req -> InFlight \cup {"idle", "ok", "failed"}]
    /\ req \in [Req -> RequestOf(Nat) \cup {Null}]
    /\ loc \in [Req -> LocationOf(Nat) \cup {Null}]
    /\ stale \subseteq Req

Init ==
    /\ row = [id \in Loc |-> Null]
    /\ now = 0
    /\ pc = [r \in Req |-> "idle"]
    /\ req = [r \in Req |-> Null]
    /\ loc = [r \in Req |-> Null]
    /\ stale = {}

-----------------------------------------------------------------------------
(* a ?? b; where the code has || instead, no value of the model is falsy.  *)
Named(a, b) == IF a = Null THEN b ELSE a

MutantToDomain(w) ==
    [ base |-> w.base, opt |-> w.opt, blind |-> w.blind,
      facilities |-> Null, lastUpdated |-> w.lastUpdated ]

(* mapPrismaToDomain *)
ToDomain(w) ==
    [ base |-> w.base, opt |-> w.opt, blind |-> Null,
      facilities |-> Null, lastUpdated |-> w.lastUpdated ]

MutantUpdated(w, l) ==
    [ base |-> l.base, opt |-> l.opt, blind |-> Named(l.blind, w.blind),
      facilities |-> Named(l.facilities, NoFacilities),
      lastUpdated |-> l.lastUpdated ]

MutantUpdatedPlain(w, l) ==
    [ base |-> l.base, opt |-> Named(l.opt, w.opt),
      blind |-> Named(l.blind, w.blind),
      facilities |-> l.facilities, lastUpdated |-> l.lastUpdated ]

(* The row w after an update with mapDomainToPrisma(l): Prisma leaves a    *)
(* column alone whose new value is undefined; facilities never is.         *)
Updated(w, l) ==
    [ base |-> l.base, opt |-> Named(l.opt, w.opt),
      blind |-> Named(l.blind, w.blind),
      facilities |-> Named(l.facilities, NoFacilities),
      lastUpdated |-> l.lastUpdated ]

(* The row that a create makes of l. *)
Created(l) == [l EXCEPT !.facilities = Named(@, NoFacilities)]

MutantWithNewData(l, d, stamp) ==
    [ base |-> Named(d.base, l.base), opt |-> l.opt,
      blind |-> Named(d.blind, l.blind),
      facilities |-> Named(d.facilities, l.facilities), lastUpdated |-> stamp ]

(* mergeLocationData and applyPartialUpdate: a PUT always has base. *)
WithNewData(l, d, stamp) ==
    [ base |-> Named(d.base, l.base), opt |-> Named(d.opt, l.opt),
      blind |-> Named(d.blind, l.blind),
      facilities |-> Named(d.facilities, l.facilities), lastUpdated |-> stamp ]

(* What the handler of q is going to save, having read w.  An aggregate    *)
(* that was read has no EVSEs, so a PUT of an EVSE comes to addEVSE.       *)
Changed(q, w, stamp) ==
    IF q.method = "EVSE" THEN [ToDomain(w) EXCEPT !.lastUpdated = stamp]
                         ELSE WithNewData(ToDomain(w), q.data, stamp)

-----------------------------------------------------------------------------
goto(r, l) == pc' = [pc EXCEPT ![r] = l]

(* The handler is left, and what it held in memory with it. *)
Leaves(r, how) ==
    /\ goto(r, how)
    /\ req' = [req EXCEPT ![r] = Null]
    /\ loc' = [loc EXCEPT ![r] = Null]

Ends(r, how) == Leaves(r, how) /\ stale' = stale \ {r}

Arrive(r) ==
    /\ pc[r] = "idle"
    /\ \E q \in RequestOf(0..now) :
          /\ req' = [req EXCEPT ![r] = q]
          /\ goto(r, IF q.method = "PUT" THEN "exists" ELSE "find")
    /\ UNCHANGED <<row, now, loc, stale>>

(* createOrUpdateLocation: locationExists. *)
LocationExists(r) ==
    /\ pc[r] = "exists"
    /\ \/ /\ row[req[r].id] = Null
          /\ loc' = [loc EXCEPT ![r] = req[r].data]
          /\ goto(r, "lookup")
       \/ /\ row[req[r].id] # Null
          /\ goto(r, "find")
          /\ UNCHANGED loc
    /\ UNCHANGED <<row, now, req, stale>>

(* findLocationById and, without another await, the change of the          *)
(* aggregate.  A PUT of a connector finds no EVSE in it.                   *)
FindLocationById(r) ==
    /\ pc[r] = "find"
    /\ LET q == req[r]
           w == row[q.id]
       IN  \/ /\ w = Null \/ q.method = "CONNECTOR"
              /\ Ends(r, "failed")
           \/ /\ w # Null /\ q.method # "CONNECTOR"
              /\ loc' = [loc EXCEPT ![r] = Changed(q, w, now)]
              /\ goto(r, "lookup")
              /\ UNCHANGED <<req, stale>>
    /\ UNCHANGED <<row, now>>

(* saveLocation looks whether there is a row ... *)
LookUp(r) ==
    /\ pc[r] = "lookup"
    /\ goto(r, IF row[req[r].id] = Null THEN "create" ELSE "update")
    /\ UNCHANGED <<row, now, req, loc, stale>>

Writes(r, w) ==
    /\ row' = [row EXCEPT ![req[r].id] = w]
    /\ Leaves(r, "ok") \/ Leaves(r, "failed")
    /\ stale' = (stale \cup {q \in Req : /\ pc[q] \in {"lookup", "update", "create"}
                                        /\ req[q].id = req[r].id}) \ {r}

(* ... and then writes, in one statement whose answer may be lost.  The    *)
(* row may have been created meanwhile: uq_location is violated.           *)
Save(r) ==
    /\ LET w == row[req[r].id]
       IN  \/ pc[r] = "update" /\ w # Null /\ Writes(r, Updated(w, loc[r]))
           \/ pc[r] = "create" /\ w = Null /\ Writes(r, Created(loc[r]))
           \/ /\ \/ pc[r] = "update" /\ w = Null
                 \/ pc[r] = "create" /\ w # Null
              /\ Ends(r, "failed")
              /\ UNCHANGED row
    /\ UNCHANGED now

CallFails(r) ==
    /\ pc[r] \in InFlight
    /\ Ends(r, "failed")
    /\ UNCHANGED <<row, now>>

(* The process dies, and all its handlers with it. *)
Crash ==
    /\ \E r \in Req : pc[r] \in InFlight
    /\ pc' = [r \in Req |-> IF pc[r] \in InFlight THEN "failed" ELSE pc[r]]
    /\ req' = [r \in Req |-> Null]
    /\ loc' = [r \in Req |-> Null]
    /\ stale' = {}
    /\ UNCHANGED <<row, now>>

Tick == now < MaxTime /\ now' = now + 1 /\ UNCHANGED <<row, pc, req, loc, stale>>

DatabaseAnswers(r) ==
    LocationExists(r) \/ FindLocationById(r) \/ LookUp(r) \/ Save(r)

Next ==
    \/ \E r \in Req : Arrive(r) \/ DatabaseAnswers(r) \/ CallFails(r)
    \/ Crash
    \/ Tick

Spec == Init /\ [][Next]_vars

FairSpec == Spec /\ \A r \in Req : WF_vars(DatabaseAnswers(r))

-----------------------------------------------------------------------------
Saves(r) == pc[r] \in {"update", "create"} /\ pc'[r] # pc[r]

(***************************************************************************)
(* "Apply only the provided fields": no optional column is emptied but by  *)
(* a PUT of the location, and no location disappears, however stale the    *)
(* aggregates that are saved.  What a PATCH or the PUT of an EVSE has read *)
(* as empty, and is no longer, must not reach the column.  Of a PUT of the *)
(* location nothing is said here: see PutReplaces.                         *)
(***************************************************************************)
OnlyPutsEmpty ==
    [][\A id \in Loc : row[id] # Null =>
          /\ row'[id] # Null
          /\ \/ /\ row[id].opt # Null => row'[id].opt # Null
                /\ row[id].blind # Null => row'[id].blind # Null
             \/ \E r \in Req : /\ Saves(r)
                               /\ req[r].id = id
                               /\ req[r].method = "PUT"]_vars

(***************************************************************************)
(* Columns that are not read back are never reverted: one changes only to  *)
(* what the request that is saving has named itself.  Those that are read  *)
(* back are, by any request that read them too early.                      *)
(***************************************************************************)
BlindColumnsNotReverted ==
    [][\A id \in Loc :
          row[id] # Null /\ row'[id].blind # row[id].blind =>
             \E r \in Req : /\ Saves(r)
                            /\ req[r].id = id
                            /\ req[r].method \in {"PUT", "PATCH"}
                            /\ req[r].data.blind = row'[id].blind]_vars

(* What a request makes of the row it found, but for last_updated: what it *)
(* names is as it says, and all else as it was, facilities excepted.  That *)
(* of a PUT as well, which is not the "Full location replacement" of       *)
(* documentation/locations-module.md: see PutReplaces.                     *)
Effect(q, w) ==
    CASE w = Null           -> Created(q.data)
      [] w # Null /\ q.method = "EVSE"
                            -> [w EXCEPT !.facilities = NoFacilities]
      [] OTHER -> [ base |-> Named(q.data.base, w.base),
                    opt |-> Named(q.data.opt, w.opt),
                    blind |-> Named(q.data.blind, w.blind),
                    facilities |-> Named(q.data.facilities, NoFacilities),
                    lastUpdated |-> w.lastUpdated ]

(***************************************************************************)
(* A request acts as one atomic change unless another one writes the row   *)
(* between its reading and its writing, whatever else overlaps with it,    *)
(* fails or is repeated; and it never sets last_updated back, which a      *)
(* client that asks with date_from relies on.                              *)
(***************************************************************************)
UndisturbedIsAtomic ==
    [][\A r \in Req :
          Saves(r) /\ r \notin stale /\ (pc'[r] = "ok" \/ row' # row) =>
             LET id == req[r].id
                 e  == Effect(req[r], row[id])
             IN  \E stamp \in e.lastUpdated..now :
                    row' = [row EXCEPT ![id] = [e EXCEPT !.lastUpdated = stamp]]]_vars

(***************************************************************************)
(* "Apply only the provided fields to the existing location": a PATCH that *)
(* names no facilities leaves them as they are, if nothing else writes the *)
(* row meanwhile.                                                          *)
(***************************************************************************)
ProvidedFieldsOnly ==
    [][\A r \in Req :
          /\ Saves(r) /\ pc'[r] = "ok" /\ r \notin stale
          /\ req[r].method = "PATCH" /\ req[r].data.facilities = Null
          => row'[req[r].id].facilities = row[req[r].id].facilities]_vars

(***************************************************************************)
(* "Location updates: Full location replacement": after a PUT that nothing *)
(* else disturbs, an optional column is as its body has it, empty if the   *)
(* body leaves it out.                                                     *)
(***************************************************************************)
PutReplaces ==
    [][\A r \in Req :
          /\ Saves(r) /\ pc'[r] = "ok" /\ r \notin stale
          /\ req[r].method = "PUT"
          => row'[req[r].id].opt = req[r].data.opt]_vars
=============================================================================
