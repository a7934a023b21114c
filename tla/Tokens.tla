-------------------------------- MODULE Tokens --------------------------------
(***************************************************************************)
(* The tokens module: PUT and PATCH of drivers' tokens on the CPO side and *)
(* the authorization of a driver on the eMSP side, over one table.         *)
(*                                                                         *)
(* PATCH reads the row, works the new one out in memory and writes all of  *)
(* it back; between the two awaits any other handler may run.  An element  *)
(* of Req is one HTTP request, which may be long under way.                *)
(***************************************************************************)
EXTENDS TokenStore

CONSTANTS
    Req,     \* HTTP requests to the tokens module
    Overlap  \* FALSE: a request is let in only when no other is in flight

ASSUME TokensAssumption == Overlap \in BOOLEAN

VARIABLES
    pc,   \* pc[r]: the await at which request r is, or how it ended
    req,  \* req[r]: what r asks for
    loc   \* loc[r]: the Token that the handler of r is going to save

vars == <<row, now, pc, req, loc>>

-----------------------------------------------------------------------------
TypeOK ==
    /\ row \in [Id -> Token \cup {Null}]
    /\ now \in Nat
    /\ pc \in [Req -> {"idle", "find", "save", "ok", "failed", "lost"}]
    /\ req \in [Req -> RequestOf(Nat) \cup {Null}]
    /\ loc \in [Req -> Token \cup {Null}]

InFlight == {"find", "save"}

Init ==
    /\ StoreInit
    /\ pc = [r \in Req |-> "idle"]
    /\ req = [r \in Req |-> Null]
    /\ loc = [r \in Req |-> Null]

goto(r, l) == pc' = [pc EXCEPT ![r] = l]

Admitted == Overlap \/ \A q \in Req : pc[q] \notin InFlight

-----------------------------------------------------------------------------
(* putToken up to its await *)
PutToken(r) ==
    /\ pc[r] = "idle" /\ Admitted
    /\ \E q \in RequestOf(0..now) :
          /\ q.method = "PUT"
          /\ req' = [req EXCEPT ![r] = q]
          /\ loc' = [loc EXCEPT ![r] = q.token]
    /\ goto(r, "save")
    /\ UNCHANGED <<row, now>>

PatchToken(r) ==
    /\ pc[r] = "idle" /\ Admitted
    /\ \E q \in RequestOf(0..now) :
          /\ q.method = "PATCH"
          /\ req' = [req EXCEPT ![r] = q]
    /\ goto(r, "find")
    /\ UNCHANGED <<row, now, loc>>

Stored(id, ty) == row[id] # Null /\ row[id].type = ty

(* findByIdAndType and, without another await, the changes of updateToken. *)
FindByIdAndType(r) ==
    /\ pc[r] = "find"
    /\ \/ /\ ~Stored(req[r].id, req[r].type)
          /\ goto(r, "failed")
          /\ UNCHANGED loc
       \/ /\ Stored(req[r].id, req[r].type)
          /\ loc' = [loc EXCEPT ![r] = Patched(row[req[r].id], req[r].patch, now)]
          /\ goto(r, "save")
    /\ UNCHANGED <<row, now, req>>

(* The upsert, whose answer may be lost although it was carried out. *)
Save(r) ==
    /\ pc[r] = "save"
    /\ Put(req[r].id, loc[r])
    /\ goto(r, "ok") \/ goto(r, "failed")
    /\ UNCHANGED <<req, loc>>

CallFails(r) ==
    /\ pc[r] \in InFlight
    /\ goto(r, "failed")
    /\ UNCHANGED <<row, now, req, loc>>

Crash ==
    /\ \E r \in Req : pc[r] \in InFlight
    /\ pc' = [r \in Req |-> IF pc[r] \in InFlight THEN "lost" ELSE pc[r]]
    /\ UNCHANGED <<row, now, req, loc>>

Arrive(r) == PutToken(r) \/ PatchToken(r)

DatabaseAnswers(r) == FindByIdAndType(r) \/ Save(r)

Next ==
    \/ \E r \in Req : Arrive(r) \/ DatabaseAnswers(r) \/ CallFails(r)
    \/ Crash
    \/ Tick /\ UNCHANGED <<row, pc, req, loc>>

Spec == Init /\ [][Next]_vars

(* The database answers; nothing obliges a client to send anything. *)
FairSpec == Spec /\ \A r \in Req : WF_vars(DatabaseAnswers(r))

-----------------------------------------------------------------------------
(* determineAuthorization.  Every whitelist comes to ALLOWED, because the  *)
(* real-time authorization is simulated and never refuses.                 *)
DetermineAuthorization(t) == IF t.valid THEN "ALLOWED" ELSE "BLOCKED"

(* The answers authorizeToken may give for a uid and type: findFirst takes *)
(* a row of any party.  None when it throws OcpiUnknownTokenException.     *)
Authorizations(u, ty) ==
    {DetermineAuthorization(row[id]) :
        id \in {i \in Id : i[2] = u /\ Stored(i, ty)}}

-----------------------------------------------------------------------------
(***************************************************************************)
(* The identity of a token is never a mixture: type, contract and issuer   *)
(* of a row were sent together in one PUT for that id, however many PUTs   *)
(* and PATCHes work on the row at once and whenever they were read.        *)
(***************************************************************************)
IdentityOfOnePut ==
    \A id \in Id : row[id] # Null =>
       \E r \in Req : /\ req[r] # Null /\ req[r].method = "PUT"
                      /\ req[r].id = id
                      /\ req[r].token.type = row[id].type
                      /\ req[r].token.contract = row[id].contract

(* What the client of r can tell. *)
StatusOf(r) == CASE pc[r] = "idle"       -> "idle"
                 [] pc[r] \in InFlight   -> "asked"
                 [] OTHER               -> "done"

Atomic == INSTANCE AtomicTokens WITH status <- [r \in Req |-> StatusOf(r)]

(***************************************************************************)
(* A request is one atomic update, when requests do not overlap, calls     *)
(* failing and processes dying at any await: it replaces the token or      *)
(* merges what it names, and nothing else, or leaves no trace.             *)
(***************************************************************************)
RequestsAreAtomic == Atomic!AtomicSpec

(***************************************************************************)
(* An invalidated token stays invalid, as far as a driver can tell: when   *)
(* no authorization of a uid can be ALLOWED, only a PUT of a valid token   *)
(* with that uid makes it possible again.                                  *)
(***************************************************************************)
InvalidationHolds ==
    [][\A u \in Uid, ty \in Type :
          "ALLOWED" \notin Authorizations(u, ty)
          /\ "ALLOWED" \in Authorizations(u, ty)'
          => \E r \in Req : /\ pc[r] = "save" /\ pc'[r] # "save"
                            /\ req[r].method = "PUT"
                            /\ req[r].id[2] = u
                            /\ req[r].token.valid]_vars
=============================================================================
