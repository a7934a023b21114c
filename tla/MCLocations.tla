----------------------------- MODULE MCLocations -----------------------------
(* Instances of Locations for TLC. *)
EXTENDS Locations, TLC

MCSymmetry == Permutations(Req) \cup Permutations(Opt) \cup Permutations(Blind)
                \cup Permutations(Base)
=============================================================================
