------------------------------ MODULE Registration ------------------------------
(***************************************************************************)
(* What both sides of a registration count on, without requests, handlers  *)
(* and awaits: a party has one key with which it calls us and one set of   *)
(* endpoints at which we call it.  The two change together, in one step,   *)
(* by the outcome of one negotiation; a key is never given out twice; to   *)
(* begin a negotiation, and to fail in it, takes nothing away.             *)
(***************************************************************************)
CONSTANTS
    Party,  \* who may register
    Creds,  \* what a party says of itself: the server we are to call
    Token,  \* the keys there are
    Known,  \* the modules we can call
    Null    \* no key yet

VARIABLES
    registration,  \* registration[p]: standing, key, version and endpoints of p
    granted        \* the keys given out so far

registrationVars == <<registration, granted>>

-----------------------------------------------------------------------------
RegistrationInit ==
    /\ registration = [p \in Party |-> [standing |-> "ABSENT", key |-> Null,
                                        version |-> "2.2.1", endpoints |-> {}]]
    /\ granted = {}

(* From now on, and until it ends well, each party of S is in negotiation; *)
(* their keys and endpoints remain, and one that was revoked is in force   *)
(* again.  Several parties enter it together when a request names none of  *)
(* them in full, and only some that have been heard of before.             *)
Negotiate(S) ==
    /\ \/ \E p \in Party : S = {p}
       \/ \A p \in S : registration[p].standing # "ABSENT"
    /\ registration' = [p \in Party |->
                          IF p \in S THEN [registration[p] EXCEPT !.standing = "PENDING"]
                                     ELSE registration[p]]
    /\ UNCHANGED granted

(* What one server said for one version. *)
EndpointsOf(modules, c, v) == [module : modules, creds : {c}, version : {v}]

(* A negotiation ends well. *)
Grant(p) ==
    /\ registration[p].standing # "ABSENT"
    /\ \E key \in Token \ granted, c \in Creds, v \in {"2.2.1", "2.3.0"},
          modules \in SUBSET Known :
          /\ registration' = [registration EXCEPT ![p] =
                [standing |-> "REGISTERED", key |-> key, version |-> v,
                 endpoints |-> EndpointsOf(modules, c, v)]]
          /\ granted' = granted \cup {key}

(* Only who has a key to show can unregister. *)
Revoke(p) ==
    /\ registration[p].key # Null
    /\ registration[p].standing \in {"PENDING", "REGISTERED"}
    /\ registration' = [registration EXCEPT ![p].standing = "REVOKED"]
    /\ UNCHANGED granted

RegistrationNext ==
    \/ \E S \in SUBSET Party : Negotiate(S)
    \/ \E p \in Party : Grant(p) \/ Revoke(p)

RegistrationSpec ==
    RegistrationInit /\ [][RegistrationNext]_registrationVars
=============================================================================
