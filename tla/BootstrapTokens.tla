---------------------------- MODULE BootstrapTokens ----------------------------
(***************************************************************************)
(* The table of bootstrap tokens (CREDENTIALS_TOKEN_A): the repository     *)
(* calls that read and write it and the admin operations built on them.    *)
(* Every action is one SQL statement, hence atomic; what a caller does     *)
(* between two of them is the business of module Credentials.              *)
(***************************************************************************)
EXTENDS Naturals

CONSTANTS
    BootToken,  \* the random strings the token generator may return
    Party,      \* OCPI parties (country_code, party_id)
    Nobody,     \* used_by is NULL
    Admin,      \* used_by is 'ADMIN_DEACTIVATED'
    Never,      \* expires_at is NULL
    Lifetimes,  \* the values of expiresInDays an administrator asks for
    MaxTime     \* bound of the model: the clock stops after this many days

ASSUME BootAssumption ==
    /\ Lifetimes \subseteq Nat \ {0}
    /\ MaxTime \in Nat
    /\ Never \notin Nat
    /\ Nobody \notin Party
    /\ Admin \notin Party
    /\ Nobody # Admin

VARIABLES
    boot,   \* boot[a]: the row of token a, and whether it exists
    now     \* the clock read by new Date(), in days

bootVars == <<boot, now>>

(***************************************************************************)
(* A row keeps its last contents after its deletion: nothing reads them,   *)
(* they only tell the properties what the table used to say.  A token      *)
(* string is generated at random, so a deleted one never comes back.       *)
(***************************************************************************)
BootRow == [ stored    : {"NEVER", "STORED", "DELETED"},
             expiresAt : Nat \cup {Never},
             usedBy    : Party \cup {Nobody, Admin} ]

BootTypeOK ==
    /\ boot \in [BootToken -> BootRow]
    /\ now \in Nat

BootInit ==
    /\ boot = [a \in BootToken |->
                 [stored |-> "NEVER", expiresAt |-> Never, usedBy |-> Nobody]]
    /\ now = 0

-----------------------------------------------------------------------------
(* Definitions named Mutant... are mistakes one could make in the code they *)
(* stand before; no specification uses them.                               *)

MutantExpiredReversed(a) ==
    boot[a].expiresAt # Never /\ boot[a].expiresAt > now

(* expires_at < new Date(), which a NULL never satisfies. *)
Expired(a) == boot[a].expiresAt # Never /\ boot[a].expiresAt < now

Stored(a) == boot[a].stored = "STORED"

(* used_at and used_by are written together, so one of them is enough. *)
Used(a) == boot[a].usedBy # Nobody

MutantValidIgnoresUse(a) == Stored(a) /\ ~Expired(a)

(* validateTokenDetailed: found, not used, not expired. *)
Valid(a) == Stored(a) /\ ~Used(a) /\ ~Expired(a)

MutantCleanedEarly(a) ==
    IF Stored(a) /\ boot[a].expiresAt # Never /\ boot[a].expiresAt <= now
       THEN [boot[a] EXCEPT !.stored = "DELETED"]
       ELSE boot[a]

(* The outcome of cleanupExpiredTokens on a row: a used one goes too. *)
CleanedRow(a) ==
    IF Stored(a) /\ Expired(a) THEN [boot[a] EXCEPT !.stored = "DELETED"]
                               ELSE boot[a]

-----------------------------------------------------------------------------
CreateToken(a) ==
    /\ boot[a].stored = "NEVER"
    /\ \E e \in {now + d : d \in Lifetimes} \cup {Never} :
          boot' = [boot EXCEPT ![a] = [stored    |-> "STORED",
                                       expiresAt |-> e,
                                       usedBy    |-> Nobody]]
    /\ UNCHANGED now

(* update ... where token = a: unconditional, it does not look at used_at. *)
MarkAsUsed(a, p) ==
    /\ Stored(a)
    /\ boot' = [boot EXCEPT ![a].usedBy = p]
    /\ UNCHANGED now

DeactivateToken(a) ==
    /\ Stored(a)
    /\ boot' = [boot EXCEPT ![a].usedBy = Admin]
    /\ UNCHANGED now

CleanupExpiredTokens ==
    /\ boot' = [a \in BootToken |-> CleanedRow(a)]
    /\ UNCHANGED now

Tick ==
    /\ now < MaxTime
    /\ now' = now + 1
    /\ UNCHANGED boot

AdminNext ==
    \/ \E a \in BootToken : CreateToken(a) \/ DeactivateToken(a)
    \/ CleanupExpiredTokens
    \/ Tick

-----------------------------------------------------------------------------
(***************************************************************************)
(* A token that validation refuses, because it is used, expired or         *)
(* deleted, is refused ever after, whatever administrators, the clock and  *)
(* late registrations do next: no order of these calls reactivates one.    *)
(***************************************************************************)
RefusedForever ==
    [][\A a \in BootToken :
          boot[a].stored # "NEVER" /\ ~Valid(a) => ~Valid(a)']_bootVars

(***************************************************************************)
(* Nothing but time and use withdraws a token: a token that validation     *)
(* accepts is not deleted by the cleanup, whose idea of "expired" is       *)
(* exactly the one validation has, to the last instant.                    *)
(***************************************************************************)
ValidRowsStay ==
    [][\A a \in BootToken : Valid(a) => Stored(a)']_bootVars
=============================================================================
