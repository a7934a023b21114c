----------------------------- MODULE AtomicTokens -----------------------------
(***************************************************************************)
(* What the owner of a token counts on: a request takes effect at one      *)
(* moment between its sending and its end, or never.  PUT replaces the     *)
(* token, PATCH merges its words into the token there is at that moment.   *)
(***************************************************************************)
EXTENDS TokenStore

CONSTANT Req

VARIABLES
    req,    \* req[r]: what r asks for
    status  \* status[r]: "idle", "asked" or "done"

atomicVars == <<row, now, req, status>>

AtomicInit ==
    /\ StoreInit
    /\ req = [r \in Req |-> Null]
    /\ status = [r \in Req |-> "idle"]

Ask(r) ==
    /\ status[r] = "idle"
    /\ status' = [status EXCEPT ![r] = "asked"]
    /\ \E q \in RequestOf(0..now) : req' = [req EXCEPT ![r] = q]
    /\ UNCHANGED <<row, now>>

(* A patch says nothing if it names no field, or only valid: true. *)
SaysNothing(p) == p.valid # "false" /\ p.whitelist = Null /\ p.text = Null

(* What p names is as it says, all else as it was. *)
Merged(t, p, stamp) ==
    IF SaysNothing(p) THEN t
    ELSE [t EXCEPT !.valid       = @ /\ p.valid # "false",
                   !.whitelist   = IF p.whitelist = Null THEN @ ELSE p.whitelist,
                   !.text        = IF p.text = Null THEN @ ELSE p.text,
                   !.lastUpdated = stamp]

(* The stamp is of our own clock, no earlier than what it changes. *)
Merge(id, ty, p) ==
    /\ row[id] # Null
    /\ row[id].type = ty
    /\ \E stamp \in row[id].lastUpdated..now :
          row' = [row EXCEPT ![id] = Merged(row[id], p, stamp)]
    /\ UNCHANGED now

TakeEffect(r) ==
    /\ status[r] = "asked"
    /\ status' = [status EXCEPT ![r] = "done"]
    /\ \/ req[r].method = "PUT" /\ Put(req[r].id, req[r].token)
       \/ req[r].method = "PATCH" /\ Merge(req[r].id, req[r].type, req[r].patch)
    /\ UNCHANGED req

(* Refused, failed or lost, one or all at once: without any effect. *)
GiveUp ==
    /\ \E R \in SUBSET {r \in Req : status[r] = "asked"} :
          status' = [r \in Req |-> IF r \in R THEN "done" ELSE status[r]]
    /\ UNCHANGED <<row, now, req>>

AtomicNext ==
    \/ \E r \in Req : Ask(r) \/ TakeEffect(r)
    \/ GiveUp
    \/ Tick /\ UNCHANGED <<row, req, status>>

AtomicSpec == AtomicInit /\ [][AtomicNext]_atomicVars
=============================================================================
