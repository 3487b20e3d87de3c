------------------------------- MODULE AddrMap -------------------------------
(***************************************************************************)
(* The address map of mmapcatch's Root: a BTreeMap from the start of each  *)
(* registered mapping to the mapping, and its two lookups.  Each looks at  *)
(* one entry only, the last one at or below an address.  An Option is a    *)
(* set of at most one start.                                               *)
(***************************************************************************)
EXTENDS Integers

\* The addresses of len bytes from start.
Bytes(start, len) == start .. start + len - 1

\* A map: its mappings have a start and a length, and contain no address twice.
Disjoint(map) ==
  \A s, u \in DOMAIN map :
    s # u => Bytes(s, map[s].len) \cap Bytes(u, map[u].len) = {}

\* range(..=last).next_back()
LastUpTo(map, last) ==
  LET range == {s \in DOMAIN map : s <= last}
  IN  {s \in range : \A u \in range : u <= s}

\* Faulty variants of the lookups: one misses a mapping's first address, one
\* starts from the first address of the range instead of its last.
lookup_addr_Open(map, addr) ==
  {s \in LastUpTo(map, addr) : addr > s /\ addr < s + map[s].len}

lookup_overlap_FromStart(map, addr, len) ==
  {s \in LastUpTo(map, addr) :
    addr < s + map[s].len /\ addr + len > s}

lookup_addr(map, addr) ==
  {s \in LastUpTo(map, addr) : addr >= s /\ addr < s + map[s].len}

lookup_overlap(map, addr, len) ==
  {s \in LastUpTo(map, addr + len - 1) :
    addr < s + map[s].len /\ addr + len > s}

=============================================================================
