------------------------------ MODULE Registry ------------------------------
(***************************************************************************)
(* Root.map as register_mmap and Guard::drop change it, for ranges of any  *)
(* place and length.  A registration is refused if lookup_overlap finds an *)
(* entry, and the lookups are only right on a map without overlaps: each   *)
(* keeps the other correct.  Only what happens under the lock is here; the *)
(* calls around it are in MmapCatch.                                       *)
(***************************************************************************)
EXTENDS AddrMap

CONSTANTS Ranges  \* the ranges that callers register: [start, len]

ASSUME RegistryAssumption ==
  \A r \in Ranges : r.start \in Nat \ {0} /\ r.len \in Nat \ {0}

VARIABLE map  \* start -> [len]

Init == map = [s \in {} |-> [len |-> 0]]

\* A faulty variant: keeps the last address as the length.
Register_LastAddress(r) ==
  /\ lookup_overlap(map, r.start, r.len) = {}
  /\ map' = [s \in DOMAIN map \cup {r.start} |->
              IF s = r.start THEN [len |-> r.start + r.len - 1] ELSE map[s]]

Register(r) ==
  /\ lookup_overlap(map, r.start, r.len) = {}
  /\ map' = [s \in DOMAIN map \cup {r.start} |->
              IF s = r.start THEN [len |-> r.len] ELSE map[s]]

Drop(start) == map' = [s \in DOMAIN map \ {start} |-> map[s]]

Next ==
  \/ \E r \in Ranges : Register(r)
  \/ \E s \in DOMAIN map : Drop(s)

Spec == Init /\ [][Next]_map

-----------------------------------------------------------------------------
(* Properties *)

\* An entry is a registered range.
TypeOK ==
  \A s \in DOMAIN map : \E r \in Ranges : s = r.start /\ map[s] = [len |-> r.len]

\* "Mappings can't overlap": no address ever belongs to two mappings.
MappingsDontOverlap == Disjoint(map)

\* "we only need to look at the immediately previous mapping": the one entry
\* each lookup looks at decides for the whole map.
LookupsAreRight ==
  /\ \A s \in DOMAIN map : \A addr \in Bytes(s, map[s].len) :
       lookup_addr(map, addr) = {s}
  /\ \A r \in Ranges :
       lookup_overlap(map, r.start, r.len) = {}
         <=> \A s \in DOMAIN map :
               Bytes(s, map[s].len) \cap Bytes(r.start, r.len) = {}

=============================================================================
