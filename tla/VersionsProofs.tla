----------------------------- MODULE VersionsProofs -----------------------------
(***************************************************************************)
(* The version catalog, for any set of controllers, in whatever order they *)
(* are found, and any number of restarts while a peer reads it.            *)
(***************************************************************************)
EXTENDS Versions, SequenceTheorems, TLAPS

Key == OcpiRole \X OcpiVersion

(* The identifiers of those among cs that are for a role and a version.    *)
NamesOf(cs, key) ==
    {c.identifier : c \in {d \in cs : key[1] \in d.roles /\ d.version = key[2]}}

(* s lists the members of N, each of them once. *)
Lists(s, N) ==
    /\ {s[i] : i \in DOMAIN s} = N
    /\ \A i, j \in DOMAIN s : s[i] = s[j] => i = j

(* While it starts, the registry has what discovery has come to.           *)
RegistryOK ==
    process = "starting" =>
        \A key \in Key : Lists(registry[key], NamesOf(build \ unseen, key))

DiscoveredOK ==
    process = "listening" =>
        \A key \in Key : \E s \in Seq(Identifier) :
            /\ Lists(s, NamesOf(build, key))
            /\ discovered[key] =
                 [i \in DOMAIN s |-> [ identifier |-> s[i], role |-> key[1],
                                       version |-> key[2] ]]

(* What the peer was told is what the build has, as long as it is one.     *)
PeerOK ==
    same =>
        /\ peer.phase = "listed" =>
              peer.offered = {v \in OcpiVersion : Built(peer.role, v) # {}}
        /\ OfferedIsDetailed

VersionsInv == VersionsTypeOK /\ RegistryOK /\ DiscoveredOK /\ PeerOK

-----------------------------------------------------------------------------
LEMMA BuiltIsNames ==
    ASSUME NEW role \in OcpiRole, NEW v \in OcpiVersion
    PROVE  <<role, v>> \in Key /\ Built(role, v) = NamesOf(build, <<role, v>>)
BY DEF Built, NamesOf, Key

(* What a process that listens says of a role and version.                 *)
LEMMA ListeningSays ==
    ASSUME VersionsInv, process = "listening",
           NEW role \in OcpiRole, NEW v \in OcpiVersion
    PROVE  /\ discovered[role, v] \in Seq(Descriptor)
           /\ IdsOf(discovered[role, v]) = Built(role, v)
           /\ \A i, j \in DOMAIN discovered[role, v] :
                 discovered[role, v][i].identifier
                   = discovered[role, v][j].identifier => i = j
           /\ Supported(role, v) <=> Built(role, v) # {}
<1> DEFINE key == <<role, v>>
           ds == discovered[key]
<1>1. key \in Key /\ Built(role, v) = NamesOf(build, key)
  BY BuiltIsNames
<1>2. ds \in Seq(Descriptor)
  BY <1>1 DEF VersionsInv, VersionsTypeOK, Key
<1>3. PICK s \in Seq(Identifier) :
         /\ Lists(s, NamesOf(build, key))
         /\ ds = [i \in DOMAIN s |-> [ identifier |-> s[i], role |-> key[1],
                                       version |-> key[2] ]]
  BY <1>1 DEF VersionsInv, DiscoveredOK
<1>4. DOMAIN ds = DOMAIN s /\ \A i \in DOMAIN s : ds[i].identifier = s[i]
  BY <1>3
<1> HIDE DEF ds, key
<1>5. IdsOf(ds) = Built(role, v)
  BY <1>1, <1>3, <1>4 DEF Lists, IdsOf
<1>6. \A i, j \in DOMAIN ds : ds[i].identifier = ds[j].identifier => i = j
  BY <1>3, <1>4 DEF Lists
<1>7. Len(ds) > 0 <=> Built(role, v) # {}
  <2>1. Len(ds) \in Nat /\ DOMAIN ds = 1..Len(ds)
    BY <1>2
  <2>2. ASSUME Len(ds) > 0 PROVE Built(role, v) # {}
    <3>1. 1 \in DOMAIN ds
      BY <2>1, <2>2
    <3>2. ds[1].identifier \in IdsOf(ds)
      BY <3>1 DEF IdsOf
    <3>. QED
      BY <1>5, <3>2
  <2>3. ASSUME Built(role, v) # {} PROVE Len(ds) > 0
    <3>1. PICK i \in DOMAIN ds : TRUE
      BY <1>5, <2>3 DEF IdsOf
    <3>. QED
      BY <2>1, <3>1
  <2>. QED
    BY <2>2, <2>3
<1>. QED
  BY <1>2, <1>5, <1>6, <1>7 DEF Supported, ds, key

(* The versions module is in front of the rest.                            *)
LEMMA DetailsSay ==
    ASSUME VersionsInv, process = "listening",
           NEW role \in OcpiRole, NEW v \in OcpiVersion
    PROVE  /\ Details(role, v) \in Seq(Descriptor)
           /\ IdsOf(Details(role, v)) = Built(role, v) \cup {"versions"}
<1> DEFINE first == [identifier |-> "versions", role |-> role, version |-> v]
           ds == discovered[role, v]
           es == Details(role, v)
<1>1. ds \in Seq(Descriptor) /\ IdsOf(ds) = Built(role, v)
  BY ListeningSays
<1>2. es = <<first>> \o ds /\ first \in Descriptor /\ first.identifier = "versions"
  BY DEF Details, Descriptor
<1> HIDE DEF first, ds, es
<1>3. /\ es \in Seq(Descriptor) /\ Len(es) = 1 + Len(ds) /\ Len(ds) \in Nat
      /\ DOMAIN ds = 1..Len(ds) /\ DOMAIN es = 1..Len(es)
      /\ es[1] = first
      /\ \A i \in 1..Len(ds) : es[i + 1] = ds[i]
  <2>1. <<first>> \in Seq(Descriptor) /\ Len(<<first>>) = 1
    BY <1>2
  <2>. QED
    BY <1>1, <1>2, <2>1, ConcatProperties
<1>4. ASSUME NEW i \in DOMAIN es
      PROVE  es[i].identifier \in IdsOf(ds) \cup {"versions"}
  <2>1. CASE i = 1
    BY <1>2, <1>3, <2>1
  <2>2. CASE i # 1
    <3>1. i - 1 \in DOMAIN ds /\ es[i] = ds[i - 1]
      BY <1>3, <2>2
    <3>. QED
      BY <3>1 DEF IdsOf
  <2>. QED
    BY <2>1, <2>2
<1>5. ASSUME NEW j \in DOMAIN ds
      PROVE  ds[j].identifier \in IdsOf(es)
  <2>1. j + 1 \in DOMAIN es /\ es[j + 1] = ds[j]
    BY <1>3
  <2>. QED
    BY <2>1 DEF IdsOf
<1>6. "versions" \in IdsOf(es)
  <2>1. 1 \in DOMAIN es
    BY <1>3
  <2>. QED
    BY <1>2, <1>3, <2>1 DEF IdsOf
<1>7. IdsOf(es) = IdsOf(ds) \cup {"versions"}
  <2>1. IdsOf(es) \subseteq IdsOf(ds) \cup {"versions"}
    BY <1>4, Zenon DEF IdsOf
  <2>2. IdsOf(ds) \subseteq IdsOf(es)
    BY <1>5, Zenon DEF IdsOf
  <2>. QED
    BY <1>6, <2>1, <2>2
<1>. QED
  BY <1>1, <1>3, <1>7 DEF ds, es

(* What is found of a controller not come to before is new for its roles.  *)
LEMMA RegisteringKeepsLists ==
    ASSUME VersionsInv, process = "starting", NEW c \in unseen,
           NEW key \in Key,
           RegisterEndpoint(c)
    PROVE  Lists(registry'[key], NamesOf(build' \ unseen', key))
<1> DEFINE old == build \ unseen
           r == registry[key]
<1>1. /\ c \in Controller /\ c \notin old /\ old \subseteq Controller
      /\ r \in Seq(Identifier) /\ c.identifier \in Identifier
      /\ key \in DOMAIN registry
  BY DEF VersionsInv, VersionsTypeOK, Key, Identifier
<1>2. Lists(r, NamesOf(old, key))
  BY DEF VersionsInv, RegistryOK
<1>3. build' \ unseen' = old \cup {c}
  BY DEF RegisterEndpoint, VersionsInv, VersionsTypeOK
<1>4. CASE ~(key[1] \in c.roles /\ key[2] = c.version)
  <2>1. registry'[key] = r
    BY <1>1, <1>4 DEF RegisterEndpoint
  <2>2. NamesOf(old \cup {c}, key) = NamesOf(old, key)
    BY <1>4 DEF NamesOf
  <2>. QED
    BY <1>2, <1>3, <2>1, <2>2
<1>5. CASE key[1] \in c.roles /\ key[2] = c.version
  <2>1. registry'[key] = Append(r, c.identifier)
    BY <1>1, <1>5 DEF RegisterEndpoint
  <2>2. NamesOf(old \cup {c}, key) = NamesOf(old, key) \cup {c.identifier}
    BY <1>5 DEF NamesOf
  <2>3. c.identifier \notin NamesOf(old, key)
    <3>1. ASSUME NEW d \in old, key[1] \in d.roles, d.version = key[2],
                 d.identifier = c.identifier
          PROVE  FALSE
      <4>1. d \in Controller /\ d # c
        BY <1>1
      <4>2. c.roles \cap d.roles # {}
        BY <1>5, <3>1
      <4>. QED
        BY <1>1, <1>5, <3>1, <4>1, <4>2, ControllerAssumption
    <3>. QED
      BY <3>1 DEF NamesOf
  <2> DEFINE a == Append(r, c.identifier)
  <2>4. /\ Len(r) \in Nat /\ DOMAIN r = 1..Len(r)
        /\ DOMAIN a = 1..(Len(r) + 1)
        /\ \A i \in 1..Len(r) : a[i] = r[i]
        /\ a[Len(r) + 1] = c.identifier
    BY <1>1
  <2> HIDE DEF a
  <2>5. {a[i] : i \in DOMAIN a} = {r[i] : i \in DOMAIN r} \cup {c.identifier}
    <3>1. ASSUME NEW i \in DOMAIN a
          PROVE  a[i] \in {r[j] : j \in DOMAIN r} \cup {c.identifier}
      <4>1. i = Len(r) + 1 \/ i \in DOMAIN r
        BY <2>4
      <4>. QED
        BY <2>4, <4>1
    <3>2. ASSUME NEW j \in DOMAIN r PROVE r[j] \in {a[i] : i \in DOMAIN a}
      <4>1. j \in DOMAIN a /\ a[j] = r[j]
        BY <2>4
      <4>. QED
        BY <4>1
    <3>3. c.identifier \in {a[i] : i \in DOMAIN a}
      <4>1. Len(r) + 1 \in DOMAIN a
        BY <2>4
      <4>. QED
        BY <2>4, <4>1
    <3>. QED
      BY <3>1, <3>2, <3>3
  <2>6. ASSUME NEW i \in DOMAIN a, NEW j \in DOMAIN a, a[i] = a[j] PROVE i = j
    <3>1. \A k \in DOMAIN r : r[k] # c.identifier
      BY <1>2, <2>3 DEF Lists
    <3>2. \A k \in DOMAIN a : k = Len(r) + 1 \/ k \in DOMAIN r
      BY <2>4
    <3>3. \A k \in DOMAIN r : k # Len(r) + 1 /\ a[k] = r[k]
      BY <2>4
    <3>. QED
      BY <1>2, <2>4, <2>6, <3>1, <3>2, <3>3 DEF Lists
  <2>7. Lists(a, NamesOf(old, key) \cup {c.identifier})
    BY <1>2, <2>5, <2>6 DEF Lists
  <2>. QED
    BY <1>3, <2>1, <2>2, <2>7 DEF a
<1>. QED
  BY <1>4, <1>5

-----------------------------------------------------------------------------
LEMMA EmptyIsTyped ==
    /\ \A key \in Key : Empty[key] = <<>>
    /\ Empty \in [Key -> Seq(Identifier)]
    /\ Empty \in [Key -> Seq(Descriptor)]
    /\ NoPeer \in [ phase : PeerPhase, role : OcpiRole,
                    offered : SUBSET OcpiVersion, endpoints : Seq(Descriptor) ]
    /\ NoPeer.phase = "idle"
<1>1. /\ \A key \in Key : Empty[key] = <<>>
      /\ Empty \in [Key -> Seq(Identifier)]
      /\ Empty \in [Key -> Seq(Descriptor)]
  BY DEF Empty, Key
<1>2. <<>> \in Seq(Descriptor)
  OBVIOUS
<1>3. NoPeer \in [ phase : PeerPhase, role : OcpiRole,
                   offered : SUBSET OcpiVersion, endpoints : Seq(Descriptor) ]
  BY <1>2 DEF NoPeer, PeerPhase, OcpiRole
<1>. QED
  BY <1>1, <1>3 DEF NoPeer

LEMMA VersionsInitially == VersionsInit => VersionsInv
<1> SUFFICES ASSUME VersionsInit PROVE VersionsInv
  OBVIOUS
<1>1. VersionsTypeOK
  BY EmptyIsTyped DEF VersionsInit, VersionsTypeOK, Key
<1>. QED
  BY <1>1 DEF VersionsInit, VersionsInv, RegistryOK, DiscoveredOK, PeerOK

(* A build of its own, and nothing found yet.                              *)
LEMMA StartKeeps == VersionsInv /\ StartProcess => VersionsInv'
<1> SUFFICES ASSUME VersionsInv, StartProcess PROVE VersionsInv'
  OBVIOUS
<1>1. PICK b \in SUBSET Controller :
         build' = b /\ unseen' = b /\ same' = (same /\ b = build)
  BY DEF StartProcess
<1>2. VersionsTypeOK'
  <2>1. same' \in BOOLEAN
    BY <1>1
  <2>. QED
    BY <1>1, <2>1, EmptyIsTyped
    DEF VersionsInv, VersionsTypeOK, StartProcess, Key
<1>3. RegistryOK'
  <2>1. ASSUME NEW key \in Key
        PROVE  Lists(registry'[key], NamesOf(build' \ unseen', key))
    <3>1. registry'[key] = <<>>
      BY EmptyIsTyped DEF StartProcess
    <3>2. build' \ unseen' = {}
      BY <1>1
    <3>3. NamesOf({}, key) = {}
      BY DEF NamesOf
    <3>4. Lists(<<>>, {})
      BY DEF Lists
    <3>. QED
      BY <3>1, <3>2, <3>3, <3>4
  <2>. QED
    BY <2>1 DEF RegistryOK
<1>4. DiscoveredOK'
  BY DEF DiscoveredOK, StartProcess
<1>5. PeerOK'
  <2>1. same' => same /\ build' = build
    BY <1>1, Zenon
  <2>. QED
    BY <2>1 DEF VersionsInv, PeerOK, OfferedIsDetailed, Built, StartProcess
<1>. QED
  BY <1>2, <1>3, <1>4, <1>5 DEF VersionsInv

LEMMA RegisterKeeps ==
    ASSUME VersionsInv, process = "starting", NEW c \in unseen,
           RegisterEndpoint(c)
    PROVE  VersionsInv'
<1>1. VersionsTypeOK'
  <2>1. ASSUME NEW key \in Key PROVE registry'[key] \in Seq(Identifier)
    <3>1. registry[key] \in Seq(Identifier) /\ c.identifier \in Identifier
      BY DEF VersionsInv, VersionsTypeOK, Key, Identifier
    <3>2. Append(registry[key], c.identifier) \in Seq(Identifier)
      BY <3>1
    <3>3. key \in DOMAIN registry
      BY DEF VersionsInv, VersionsTypeOK, Key
    <3>. QED
      BY <3>1, <3>2, <3>3 DEF RegisterEndpoint
  <2>2. registry' = [key \in Key |-> registry'[key]]
    BY DEF RegisterEndpoint, VersionsInv, VersionsTypeOK, Key
  <2>3. registry' \in [Key -> Seq(Identifier)]
    BY <2>1, <2>2
  <2>. QED
    BY <2>3 DEF VersionsInv, VersionsTypeOK, RegisterEndpoint, Key
<1>2. RegistryOK'
  BY RegisteringKeepsLists DEF RegistryOK
<1>3. DiscoveredOK' /\ PeerOK'
  BY DEF VersionsInv, DiscoveredOK, PeerOK, OfferedIsDetailed, Built,
         RegisterEndpoint
<1>. QED
  BY <1>1, <1>2, <1>3 DEF VersionsInv

LEMMA BuildKeeps == VersionsInv /\ BuildEndpointMaps => VersionsInv'
<1> SUFFICES ASSUME VersionsInv, BuildEndpointMaps PROVE VersionsInv'
  OBVIOUS
<1>1. ASSUME NEW key \in Key
      PROVE  /\ registry[key] \in Seq(Identifier)
             /\ discovered'[key] = DescriptorsOf(key)
             /\ DescriptorsOf(key) \in Seq(Descriptor)
  <2>1. registry[key] \in Seq(Identifier) /\ key \in DOMAIN registry
    BY DEF VersionsInv, VersionsTypeOK, Key
  <2>2. discovered'[key] = DescriptorsOf(key)
    BY <2>1 DEF BuildEndpointMaps
  <2>3. Len(registry[key]) \in Nat /\ DOMAIN registry[key] = 1..Len(registry[key])
    BY <2>1
  <2>4. ASSUME NEW i \in DOMAIN registry[key]
        PROVE  [ identifier |-> registry[key][i], role |-> key[1],
                 version |-> key[2] ] \in Descriptor
    <3>1. registry[key][i] \in Identifier
      BY <2>1
    <3>2. key[1] \in OcpiRole /\ key[2] \in OcpiVersion
      BY DEF Key
    <3>. QED
      BY <3>1, <3>2 DEF Descriptor
  <2>5. DescriptorsOf(key) \in [1..Len(registry[key]) -> Descriptor]
    BY <2>3, <2>4 DEF DescriptorsOf
  <2>. QED
    BY <2>1, <2>2, <2>3, <2>5
<1>2. VersionsTypeOK'
  <2>1. discovered' = [key \in Key |-> discovered'[key]]
    BY DEF BuildEndpointMaps, VersionsInv, VersionsTypeOK, Key
  <2>2. \A key \in Key : discovered'[key] \in Seq(Descriptor)
    BY <1>1
  <2>3. discovered' \in [Key -> Seq(Descriptor)]
    BY <2>1, <2>2
  <2>. QED
    BY <2>3 DEF VersionsInv, VersionsTypeOK, BuildEndpointMaps, Key
<1>3. DiscoveredOK'
  <2>1. ASSUME NEW key \in Key
        PROVE  \E s \in Seq(Identifier) :
                  /\ Lists(s, NamesOf(build, key))
                  /\ discovered'[key] =
                       [i \in DOMAIN s |-> [ identifier |-> s[i],
                                             role |-> key[1],
                                             version |-> key[2] ]]
    <3>1. build \ unseen = build
      BY DEF BuildEndpointMaps
    <3>2. Lists(registry[key], NamesOf(build, key))
      BY <3>1 DEF VersionsInv, RegistryOK, BuildEndpointMaps
    <3>. QED
      BY <1>1, <3>2 DEF DescriptorsOf
  <2>. QED
    BY <2>1 DEF DiscoveredOK, BuildEndpointMaps
<1>4. RegistryOK' /\ PeerOK'
  BY DEF VersionsInv, RegistryOK, PeerOK, OfferedIsDetailed, Built,
         BuildEndpointMaps
<1>. QED
  BY <1>2, <1>3, <1>4 DEF VersionsInv

LEMMA StopKeeps == VersionsInv /\ StopProcess => VersionsInv'
BY DEF VersionsInv, VersionsTypeOK, RegistryOK, DiscoveredOK, PeerOK,
       OfferedIsDetailed, Built, StopProcess

LEMMA ListKeeps ==
    ASSUME VersionsInv, NEW role \in OcpiRole, ListVersions(role)
    PROVE  VersionsInv'
<1>1. peer' = [NoPeer EXCEPT !.phase = "listed", !.role = role,
                  !.offered = {v \in OcpiVersion : Supported(role, v)}]
  BY DEF ListVersions
<1>2. /\ peer' \in [ phase : PeerPhase, role : OcpiRole,
                     offered : SUBSET OcpiVersion, endpoints : Seq(Descriptor) ]
      /\ peer'.phase = "listed" /\ peer'.role = role
      /\ peer'.offered = {v \in OcpiVersion : Supported(role, v)}
  BY <1>1, EmptyIsTyped DEF PeerPhase, NoPeer
<1>3. VersionsTypeOK'
  BY <1>2 DEF VersionsInv, VersionsTypeOK, ListVersions
<1>4. RegistryOK' /\ DiscoveredOK'
  BY DEF VersionsInv, RegistryOK, DiscoveredOK, ListVersions
<1>5. PeerOK'
  <2>1. \A v \in OcpiVersion : Supported(role, v) <=> Built(role, v) # {}
    BY ListeningSays DEF ListVersions
  <2>2. peer'.offered = {v \in OcpiVersion : Built(role, v) # {}}
    BY <1>2, <2>1
  <2>3. build' = build
    BY DEF ListVersions
  <2>. QED
    BY <1>2, <2>2, <2>3 DEF PeerOK, OfferedIsDetailed, Built
<1>. QED
  BY <1>3, <1>4, <1>5 DEF VersionsInv

LEMMA DetailsKeep == VersionsInv /\ GetVersionDetails => VersionsInv'
<1> SUFFICES ASSUME VersionsInv, GetVersionDetails PROVE VersionsInv'
  OBVIOUS
<1> DEFINE v == Chosen(peer.offered)
<1>1. /\ peer.phase = "listed" /\ peer.offered # {} /\ process = "listening"
      /\ peer.role \in OcpiRole /\ peer.offered \subseteq OcpiVersion
      /\ peer \in [ phase : PeerPhase, role : OcpiRole,
                    offered : SUBSET OcpiVersion, endpoints : Seq(Descriptor) ]
  BY DEF VersionsInv, VersionsTypeOK, GetVersionDetails
<1>2. v \in OcpiVersion /\ v \in peer.offered
  BY <1>1 DEF Chosen, OcpiVersion
<1>3. peer' = IF Supported(peer.role, v)
                THEN [peer EXCEPT !.phase = "done",
                                  !.endpoints = Details(peer.role, v)]
                ELSE [peer EXCEPT !.phase = "refused"]
  BY DEF GetVersionDetails
<1>4. /\ Details(peer.role, v) \in Seq(Descriptor)
      /\ IdsOf(Details(peer.role, v)) = Built(peer.role, v) \cup {"versions"}
  BY <1>1, <1>2, DetailsSay
<1>5. Supported(peer.role, v) <=> Built(peer.role, v) # {}
  BY <1>1, <1>2, ListeningSays
<1> HIDE DEF v
<1>6. VersionsTypeOK'
  <2>1. peer' \in [ phase : PeerPhase, role : OcpiRole,
                    offered : SUBSET OcpiVersion, endpoints : Seq(Descriptor) ]
    BY <1>1, <1>3, <1>4 DEF PeerPhase
  <2>. QED
    BY <2>1 DEF VersionsInv, VersionsTypeOK, GetVersionDetails
<1>7. RegistryOK' /\ DiscoveredOK'
  BY DEF VersionsInv, RegistryOK, DiscoveredOK, GetVersionDetails
<1>8. PeerOK'
  <2>1. peer'.phase # "listed" /\ same' = same /\ build' = build
    BY <1>1, <1>3 DEF GetVersionDetails
  <2>2. ASSUME same PROVE OfferedIsDetailed'
    <3>1. Built(peer.role, v) # {}
      BY <1>1, <1>2, <2>2 DEF VersionsInv, PeerOK
    <3>2. /\ peer'.phase = "done" /\ peer'.role = peer.role
          /\ peer'.offered = peer.offered
          /\ peer'.endpoints = Details(peer.role, v)
      BY <1>1, <1>3, <1>5, <3>1
    <3>3. IdsOf(peer'.endpoints) = Built(peer'.role, v) \cup {"versions"}
      BY <1>4, <3>2
    <3>4. v = Chosen(peer'.offered)
      BY <3>2 DEF v
    <3>. QED
      BY <2>1, <3>2, <3>3, <3>4 DEF OfferedIsDetailed, Built
  <2>. QED
    BY <2>1, <2>2 DEF PeerOK, OfferedIsDetailed
<1>. QED
  BY <1>6, <1>7, <1>8 DEF VersionsInv

LEMMA LeaveKeeps == VersionsInv /\ PeerLeaves => VersionsInv'
<1> SUFFICES ASSUME VersionsInv, PeerLeaves PROVE VersionsInv'
  OBVIOUS
<1>1. VersionsTypeOK'
  BY EmptyIsTyped DEF VersionsInv, VersionsTypeOK, PeerLeaves
<1>. QED
  BY <1>1 DEF VersionsInv, RegistryOK, DiscoveredOK, PeerOK,
              OfferedIsDetailed, PeerLeaves

LEMMA VersionsInvariant == VersionsSpec => []VersionsInv
<1>1. VersionsInit => VersionsInv
  BY VersionsInitially
<1>2. VersionsInv /\ [VersionsNext]_versionVars => VersionsInv'
  <2> SUFFICES ASSUME VersionsInv, [VersionsNext]_versionVars
               PROVE  VersionsInv'
    OBVIOUS
  <2>1. CASE StartProcess
    BY <2>1, StartKeeps
  <2>2. CASE BuildEndpointMaps
    BY <2>2, BuildKeeps
  <2>3. CASE StopProcess
    BY <2>3, StopKeeps
  <2>4. CASE process = "starting" /\ \E c \in unseen : RegisterEndpoint(c)
    BY <2>4, RegisterKeeps
  <2>5. CASE \E role \in OcpiRole : ListVersions(role)
    BY <2>5, ListKeeps
  <2>6. CASE GetVersionDetails
    BY <2>6, DetailsKeep
  <2>7. CASE PeerLeaves
    BY <2>7, LeaveKeeps
  <2>8. CASE UNCHANGED versionVars
    <3>1. /\ process' = process /\ build' = build /\ unseen' = unseen
          /\ registry' = registry /\ discovered' = discovered
          /\ peer' = peer /\ same' = same
      BY <2>8 DEF versionVars
    <3>2. VersionsTypeOK'
      BY <3>1 DEF VersionsInv, VersionsTypeOK
    <3>3. RegistryOK' /\ DiscoveredOK'
      BY <3>1 DEF VersionsInv, RegistryOK, DiscoveredOK
    <3>4. PeerOK'
      BY <3>1 DEF VersionsInv, PeerOK, OfferedIsDetailed, Built
    <3>. QED
      BY <3>2, <3>3, <3>4 DEF VersionsInv
  <2>. QED
    BY <2>1, <2>2, <2>3, <2>4, <2>5, <2>6, <2>7, <2>8 DEF VersionsNext
<1>. QED
  BY <1>1, <1>2, PTL DEF VersionsSpec

(***************************************************************************)
(* The maps of discoverEndpoints and buildEndpointMaps hold what they are  *)
(* declared to hold, and so does what a peer was sent.                     *)
(***************************************************************************)
THEOREM VersionsTypeCorrect == VersionsSpec => []VersionsTypeOK
<1>1. VersionsInv => VersionsTypeOK
  BY DEF VersionsInv
<1>. QED
  BY <1>1, VersionsInvariant, PTL

(***************************************************************************)
(* Whatever the controllers and the order in which discoverEndpoints comes *)
(* to them, a process that listens advertises all of them, each once.      *)
(***************************************************************************)
THEOREM CatalogComplete == VersionsSpec => []CatalogIsBuild
<1>1. VersionsInv => CatalogIsBuild
  BY ListeningSays DEF CatalogIsBuild
<1>. QED
  BY <1>1, VersionsInvariant, PTL

(***************************************************************************)
(* A peer that reads the catalog from processes of one build, restarted    *)
(* or not, gets the endpoints of a version that it was offered.            *)
(***************************************************************************)
THEOREM OffersHold == VersionsSpec => []OfferedIsDetailed
<1>1. VersionsInv => OfferedIsDetailed
  <2>1. CASE same
    BY <2>1 DEF VersionsInv, PeerOK
  <2>2. CASE ~same
    BY <2>2 DEF OfferedIsDetailed
  <2>. QED
    BY <2>1, <2>2
<1>. QED
  BY <1>1, VersionsInvariant, PTL
=============================================================================
