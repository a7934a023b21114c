------------------------------- MODULE MCTokens -------------------------------
(* Instances of Tokens for TLC. *)
EXTENDS Tokens, TLC

MCSymmetry == Permutations(Req) \cup Permutations(Type) \cup Permutations(Contract)
                \cup Permutations(Whitelist) \cup Permutations(Text)
                \cup Permutations(Party) \cup Permutations(Uid)
=============================================================================
