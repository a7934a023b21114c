------------------------------- MODULE Versions -------------------------------
(***************************************************************************)
(* The version catalog: how it comes about when a process starts, and a    *)
(* peer that reads it in two requests, while the process may be stopped    *)
(* and another one started, of the same build or of another, in between.   *)
(***************************************************************************)
EXTENDS Naturals, SequencesExt

CONSTANT
    Controller  \* what @OcpiEndpoint says of the controllers of any build

OcpiRole == {"cpo", "emsp"}
OcpiVersion == {"2.2.1", "2.3.0"}

(* No two controllers of one build are for the same thing.                 *)
ASSUME ControllerAssumption ==
    \A c \in Controller :
        /\ c.roles \subseteq OcpiRole /\ c.version \in OcpiVersion
        /\ c.identifier # "versions"
        /\ \A d \in Controller :
              /\ c.identifier = d.identifier /\ c.version = d.version
              /\ c.roles \cap d.roles # {}
              => c = d

VARIABLES
    process,     \* "down", "starting", or "listening"
    build,       \* the controllers of the process
    unseen,      \* those that discoverEndpoints has not come to
    registry,    \* endpointRegistry[role, version]: identifiers
    discovered,  \* discoveredEndpoints[role, version]: their descriptors
    peer,        \* the peer: what it has asked for and been told
    same         \* history: whether the build has been one since it listed

versionVars == <<process, build, unseen, registry, discovered, peer, same>>

-----------------------------------------------------------------------------
Identifier == {c.identifier : c \in Controller}

(* getEndpointUrl, base and slashes left out. *)
Descriptor == [ identifier : Identifier \cup {"versions"}, role : OcpiRole,
                version : OcpiVersion ]

Empty == [key \in OcpiRole \X OcpiVersion |-> <<>>]

PeerPhase == {"idle", "listed", "refused", "done"}

NoPeer == [phase |-> "idle", role |-> "cpo", offered |-> {}, endpoints |-> <<>>]

VersionsTypeOK ==
    /\ process \in {"down", "starting", "listening"}
    /\ unseen \subseteq build /\ build \subseteq Controller
    /\ registry \in [OcpiRole \X OcpiVersion -> Seq(Identifier)]
    /\ discovered \in [OcpiRole \X OcpiVersion -> Seq(Descriptor)]
    /\ peer \in [ phase : PeerPhase, role : OcpiRole,
                  offered : SUBSET OcpiVersion, endpoints : Seq(Descriptor) ]
    /\ same \in BOOLEAN

VersionsInit ==
    /\ process = "down"
    /\ build = {} /\ unseen = {}
    /\ registry = Empty /\ discovered = Empty
    /\ peer = NoPeer
    /\ same = FALSE

-----------------------------------------------------------------------------
(* A process of some build is started, with empty maps.                    *)
StartProcess ==
    /\ process = "down"
    /\ process' = "starting"
    /\ \E b \in SUBSET Controller :
          build' = b /\ unseen' = b /\ same' = (same /\ b = build)
    /\ registry' = Empty /\ discovered' = Empty
    /\ UNCHANGED peer

MutantRegisterEndpoint(c) ==
    /\ unseen' = unseen \ {c}
    /\ registry' = [key \in DOMAIN registry |->
                      IF key[1] \in c.roles /\ key[2] = c.version
                        THEN <<c.identifier>> ELSE registry[key]]
    /\ UNCHANGED <<process, build, discovered, peer, same>>

(* discoverEndpoints takes the controllers in the order of the modules.    *)
RegisterEndpoint(c) ==
    /\ unseen' = unseen \ {c}
    /\ registry' = [key \in DOMAIN registry |->
                      IF key[1] \in c.roles /\ key[2] = c.version
                        THEN Append(registry[key], c.identifier)
                        ELSE registry[key]]
    /\ UNCHANGED <<process, build, discovered, peer, same>>

MutantDescriptorsOf(key) ==
    [i \in DOMAIN registry[key] |->
        [identifier |-> registry[key][i], role |-> key[2], version |-> key[1]]]

DescriptorsOf(key) ==
    [i \in DOMAIN registry[key] |->
        [identifier |-> registry[key][i], role |-> key[1], version |-> key[2]]]

(* buildEndpointMaps; only then are requests accepted.                     *)
BuildEndpointMaps ==
    /\ process = "starting" /\ unseen = {}
    /\ discovered' = [key \in DOMAIN registry |-> DescriptorsOf(key)]
    /\ process' = "listening"
    /\ UNCHANGED <<build, unseen, registry, peer, same>>

StopProcess ==
    /\ process # "down"
    /\ process' = "down"
    /\ UNCHANGED <<build, unseen, registry, discovered, peer, same>>

-----------------------------------------------------------------------------
(* getVersionCatalog leaves a version out for which nothing was found.     *)
Supported(role, v) == Len(discovered[role, v]) > 0

MutantDetails(role, v) ==
    <<[identifier |-> "versions", role |-> role, version |-> v]>>

(* What it says of a version: first the versions module, then the rest.    *)
Details(role, v) ==
    <<[identifier |-> "versions", role |-> role, version |-> v]>>
        \o discovered[role, v]

ListVersions(role) ==
    /\ process = "listening" /\ peer.phase = "idle"
    /\ peer' = [NoPeer EXCEPT !.phase = "listed", !.role = role,
                   !.offered = {v \in OcpiVersion : Supported(role, v)}]
    /\ same' = TRUE
    /\ UNCHANGED <<process, build, unseen, registry, discovered>>

(* A peer takes the highest version that it is offered. *)
Chosen(offered) == IF "2.3.0" \in offered THEN "2.3.0" ELSE "2.2.1"

GetVersionDetails ==
    /\ process = "listening" /\ peer.phase = "listed" /\ peer.offered # {}
    /\ LET v == Chosen(peer.offered)
       IN  peer' = IF Supported(peer.role, v)
                     THEN [peer EXCEPT !.phase = "done",
                                       !.endpoints = Details(peer.role, v)]
                     ELSE [peer EXCEPT !.phase = "refused"]
    /\ UNCHANGED <<process, build, unseen, registry, discovered, same>>

(* The peer has what it needs, or gives up at any time. *)
PeerLeaves ==
    /\ peer.phase # "idle"
    /\ peer' = NoPeer /\ same' = FALSE
    /\ UNCHANGED <<process, build, unseen, registry, discovered>>

VersionsNext ==
    \/ StartProcess \/ BuildEndpointMaps \/ StopProcess
    \/ process = "starting" /\ \E c \in unseen : RegisterEndpoint(c)
    \/ \E role \in OcpiRole : ListVersions(role)
    \/ GetVersionDetails \/ PeerLeaves

VersionsSpec == VersionsInit /\ [][VersionsNext]_versionVars

-----------------------------------------------------------------------------
(* What the descriptors ds are for. *)
IdsOf(ds) == {ds[i].identifier : i \in DOMAIN ds}

(* The identifiers of what the build has for a role and version.           *)
Built(role, v) ==
    {c.identifier : c \in {d \in build : role \in d.roles /\ d.version = v}}

(***************************************************************************)
(* In whatever order the controllers are found, a process that listens     *)
(* advertises each of them once, for each of its roles, and no other.      *)
(***************************************************************************)
CatalogIsBuild ==
    process = "listening" =>
        \A role \in OcpiRole, v \in OcpiVersion :
            LET ds == discovered[role, v]
            IN  /\ IdsOf(ds) = Built(role, v)
                /\ \A i, j \in DOMAIN ds :
                      ds[i].identifier = ds[j].identifier => i = j

(***************************************************************************)
(* A peer that was offered a version is told its endpoints, all of them,   *)
(* unless a process of another build has taken over between its requests.  *)
(***************************************************************************)
OfferedIsDetailed ==
    same =>
        /\ peer.phase # "refused"
        /\ peer.phase = "done" =>
              IdsOf(peer.endpoints) =
                  Built(peer.role, Chosen(peer.offered)) \cup {"versions"}
=============================================================================
