----------------------------- MODULE MCCredentials -----------------------------
(* Instances of Credentials for TLC. *)
EXTENDS Credentials, TLC

CONSTANTS m1, unknown

(* A server that lists one module we know and one we do not; one that      *)
(* lists its module twice, as SENDER and as RECEIVER; both.                *)
MCModule == {m1, unknown}
MCKnown == {m1}
MCPlain == {[listed |-> {m1, unknown}, twice |-> {}]}
MCDouble == {[listed |-> {m1}, twice |-> {m1}]}
MCBoth == MCPlain \cup MCDouble

MCSymmetry == Permutations(Req) \cup Permutations(Token) \cup Permutations(Party)
                \cup Permutations(Creds) \cup Permutations(BootToken)
=============================================================================
