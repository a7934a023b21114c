------------------------------ MODULE TokenStore ------------------------------
(***************************************************************************)
(* The table of the drivers' tokens of the OCPI tokens module and the pure *)
(* part of its service: what PUT and PATCH make of a row.                  *)
(***************************************************************************)
EXTENDS Clock

CONSTANTS
    Party,     \* (country_code, party_id) of the owners of tokens
    Uid,       \* token uids; two parties may use the same one
    Type,      \* RFID, APP_USER, AD_HOC_USER, OTHER
    Contract,  \* contract_id and issuer, which are only ever written together
    Whitelist, \* ALWAYS, ALLOWED, ALLOWED_OFFLINE, NEVER
    Text       \* values of visual_number, group_id, language: treated alike

VARIABLE row  \* row[id]: the row of the token in the table, or Null

(* uq_token_id: country_code, party_id and uid *)
Id == Party \X Uid

TokenOf(Stamp) == [ type        : Type,
                    contract    : Contract,
                    valid       : BOOLEAN,
                    whitelist   : Whitelist,
                    text        : Text \cup {Null},
                    lastUpdated : Stamp ]

Token == TokenOf(Nat)

(* The last_updated that a PATCH must carry is validated and then dropped. *)
Patch == [ valid     : {"true", "false", "undefined"},
           whitelist : Whitelist \cup {Null},
           text      : Text \cup {Null} ]

(* What clients send: last_updated of a PUT is the owner's, who changed    *)
(* the token at that time.  PATCH names the type in its query.             *)
RequestOf(Stamp) ==
    [method : {"PUT"}, id : Id, token : TokenOf(Stamp)]
    \cup [method : {"PATCH"}, id : Id, type : Type, patch : Patch]

ASSUME StoreAssumption ==
    Null \notin Whitelist \cup Text \cup Token \cup RequestOf(Nat)

-----------------------------------------------------------------------------
(* Token.invalidate *)
Invalidated(t, stamp) == [t EXCEPT !.valid = FALSE, !.lastUpdated = stamp]

(* Token.updateWhitelist *)
WithWhitelist(t, w, stamp) == [t EXCEPT !.whitelist = w, !.lastUpdated = stamp]

(* The new Token of updateToken, for visual_number, group_id and language. *)
WithText(t, x, stamp) == [t EXCEPT !.text = x, !.lastUpdated = stamp]

MutantPatchedForgets(t, p, stamp) ==
    LET a == IF p.valid = "false" THEN Invalidated(t, stamp) ELSE t
        b == IF p.whitelist # Null THEN WithWhitelist(a, p.whitelist, stamp) ELSE a
    IN  IF p.text # Null THEN WithText(t, p.text, stamp) ELSE b

MutantPatchedRevalidates(t, p, stamp) ==
    LET a == IF p.valid = "undefined" THEN t
             ELSE [Invalidated(t, stamp) EXCEPT !.valid = (p.valid = "true")]
        b == IF p.whitelist # Null THEN WithWhitelist(a, p.whitelist, stamp) ELSE a
    IN  IF p.text # Null THEN WithText(b, p.text, stamp) ELSE b

MutantPatchedErasesWhitelist(t, p, stamp) ==
    LET a == IF p.valid = "false" THEN Invalidated(t, stamp) ELSE t
        b == WithWhitelist(a, p.whitelist, stamp)
    IN  IF p.text # Null THEN WithText(b, p.text, stamp) ELSE b

(* What updateToken makes of t.  valid: true in a patch is ignored; a patch *)
(* that names nothing leaves last_updated as it is.                         *)
Patched(t, p, stamp) ==
    LET a == IF p.valid = "false" THEN Invalidated(t, stamp) ELSE t
        b == IF p.whitelist # Null THEN WithWhitelist(a, p.whitelist, stamp) ELSE a
    IN  IF p.text # Null THEN WithText(b, p.text, stamp) ELSE b

MutantSavedKeepsType(id, t) ==
    IF row[id] = Null THEN t ELSE [t EXCEPT !.type = row[id].type]

(* The row of id after the upsert of t: Prisma leaves a column alone whose *)
(* new value is undefined, so an optional field is never erased.           *)
Saved(id, t) ==
    IF row[id] = Null \/ t.text # Null THEN t
                                       ELSE [t EXCEPT !.text = row[id].text]

-----------------------------------------------------------------------------
StoreInit == row = [id \in Id |-> Null] /\ ClockInit

(* TokenPrismaRepository.save: one statement. *)
Put(id, t) == row' = [row EXCEPT ![id] = Saved(id, t)] /\ UNCHANGED now
=============================================================================
