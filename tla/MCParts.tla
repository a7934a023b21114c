-------------------------------- MODULE MCParts --------------------------------
(* The parts of the program that have nothing to do with one another, for   *)
(* TLC.  They share the clock and nothing else, so that it is enough to     *)
(* look at one of them at a time; which one is chosen at the beginning.     *)
EXTENDS Session, LocationTree, Versions, TLC

VARIABLE part

PartsInit ==
    /\ part \in {"session", "tree", "versions"}
    /\ ClockInit /\ SessionInit /\ TreeInit /\ VersionsInit

PartsNext ==
    /\ \/ /\ part = "session" /\ SessionNext
          /\ UNCHANGED <<treeVars, versionVars>>
       \/ /\ part = "tree" /\ TreeNext
          /\ UNCHANGED <<sessionVars, versionVars>>
       \/ /\ part = "versions" /\ VersionsNext
          /\ UNCHANGED <<sessionVars, treeVars, now>>
    /\ UNCHANGED part

PartsSpec ==
    PartsInit /\ [][PartsNext]_<<sessionVars, treeVars, versionVars, now, part>>

-----------------------------------------------------------------------------
MCAmount == {-1, 0, 1}

Metadata(i, v, rs) == [identifier |-> i, version |-> v, roles |-> rs]

(* The controllers of this build, and one of a build to come. *)
MCController ==
    { Metadata("credentials", "2.2.1", OcpiRole),
      Metadata("locations", "2.2.1", {"cpo"}),
      Metadata("locations", "2.2.1", {"emsp"}),
      Metadata("tokens", "2.2.1", {"cpo"}),
      Metadata("tokens", "2.2.1", {"emsp"}),
      Metadata("credentials", "2.3.0", {"emsp"}) }

MCSymmetry == Permutations(EvseUid) \cup Permutations(ConnectorId)

(* A tree that a careless caller has been at is not followed any further.  *)
MCCareful == ~careless
=============================================================================
