--------------------------- MODULE RegistryProofs ---------------------------
(***************************************************************************)
(* The absence of overlaps, and with it the correctness of the lookups,    *)
(* for every set of ranges.                                                *)
(***************************************************************************)
EXTENDS Registry, AddrMapProofs

\* The maps of Registry are proper.
LEMMA TypeIsProper == ASSUME TypeOK PROVE Proper(map)
BY RegistryAssumption DEF TypeOK, Proper

-----------------------------------------------------------------------------
(* The registry *)

\* Whatever is registered and dropped, the map's entries are ranges of the set,
\* each under its own start: what find_overlap and the lookups rely on.
THEOREM TypeCorrect == Spec => []TypeOK
<1>1. Init => TypeOK
  BY DEF Init, TypeOK
<1>2. TypeOK /\ [Next]_map => TypeOK'
  <2> SUFFICES ASSUME TypeOK, [Next]_map PROVE TypeOK'
    OBVIOUS
  <2>1. ASSUME NEW r \in Ranges, Register(r) PROVE TypeOK'
    <3>1. /\ DOMAIN map' = DOMAIN map \cup {r.start}
          /\ map'[r.start] = [len |-> r.len]
          /\ \A s \in DOMAIN map : s # r.start => map'[s] = map[s]
      BY <2>1 DEF Register
    <3>2. ASSUME NEW s \in DOMAIN map'
          PROVE  \E q \in Ranges : s = q.start /\ map'[s] = [len |-> q.len]
      BY <3>1 DEF TypeOK
    <3> QED
      BY <3>2 DEF TypeOK
  <2>2. ASSUME NEW s \in DOMAIN map, Drop(s) PROVE TypeOK'
    BY <2>2 DEF TypeOK, Drop
  <2>3. CASE UNCHANGED map
    BY <2>3 DEF TypeOK
  <2> QED
    BY <2>1, <2>2, <2>3 DEF Next
<1> QED
  BY <1>1, <1>2, PTL DEF Spec

\* The check that register_mmap makes keeps the mappings apart, for every set
\* of ranges and every order of registrations and drops.
THEOREM NoOverlap == Spec => []MappingsDontOverlap
<1>1. Init => MappingsDontOverlap
  BY DEF Init, MappingsDontOverlap, Disjoint
<1>2. TypeOK /\ MappingsDontOverlap /\ [Next]_map => MappingsDontOverlap'
  <2> SUFFICES ASSUME TypeOK, MappingsDontOverlap, [Next]_map
               PROVE  MappingsDontOverlap'
    OBVIOUS
  <2>1. ASSUME NEW r \in Ranges, Register(r) PROVE MappingsDontOverlap'
    <3>1. /\ r.start \in Nat \ {0} /\ r.len \in Nat \ {0}
          /\ Proper(map) /\ Disjoint(map)
      BY TypeIsProper, RegistryAssumption DEF MappingsDontOverlap
    <3>2. \A s \in DOMAIN map :
            Bytes(s, map[s].len) \cap Bytes(r.start, r.len) = {}
      BY <2>1, <3>1, LookupOverlap DEF Register
    <3>3. /\ DOMAIN map' = DOMAIN map \cup {r.start}
          /\ map'[r.start].len = r.len
          /\ \A s \in DOMAIN map : s # r.start => map'[s].len = map[s].len
      BY <2>1 DEF Register
    <3> QED
      BY <3>1, <3>2, <3>3 DEF MappingsDontOverlap, Disjoint
  <2>2. ASSUME NEW s \in DOMAIN map, Drop(s) PROVE MappingsDontOverlap'
    BY <2>2 DEF MappingsDontOverlap, Disjoint, Drop
  <2>3. CASE UNCHANGED map
    BY <2>3 DEF MappingsDontOverlap, Disjoint
  <2> QED
    BY <2>1, <2>2, <2>3 DEF Next
<1> QED
  BY <1>1, <1>2, TypeCorrect, PTL DEF Spec

\* "we only need to look at the immediately previous mapping": the one entry a
\* lookup looks at decides, in every map that the registry can reach.
THEOREM OneEntryDecides == Spec => []LookupsAreRight
<1>1. TypeOK /\ MappingsDontOverlap => LookupsAreRight
  <2> SUFFICES ASSUME TypeOK, MappingsDontOverlap PROVE LookupsAreRight
    OBVIOUS
  <2>1. Proper(map) /\ Disjoint(map)
    BY TypeIsProper DEF MappingsDontOverlap
  <2> QED
    BY <2>1, LookupAddr, LookupOverlap, RegistryAssumption DEF LookupsAreRight
<1> QED
  BY <1>1, TypeCorrect, NoOverlap, PTL

=============================================================================
