--------------------------- MODULE AddrMapProofs ---------------------------
(***************************************************************************)
(* The two lookups of Root against what they are meant to find: the lemmas *)
(* on which the proofs about Registry and MmapCatch rest.                  *)
(***************************************************************************)
EXTENDS AddrMap, WellFoundedInduction, TLAPS

\* A map whose starts and lengths are positive integers.
Proper(m) ==
  \A s \in DOMAIN m : s \in Nat \ {0} /\ m[s].len \in Nat \ {0}

\* Of two mappings without common address the later starts after the earlier
\* has ended.
LEMMA DisjointGap ==
  ASSUME NEW m, Proper(m), Disjoint(m),
         NEW s \in DOMAIN m, NEW u \in DOMAIN m, s < u
  PROVE  s + m[s].len <= u
<1>1. s \in Int /\ u \in Int /\ m[s].len \in Int /\ m[u].len \in Nat \ {0}
  BY DEF Proper
<1>2. SUFFICES ASSUME s + m[s].len > u PROVE FALSE
  BY <1>1
<1>3. u \in Bytes(s, m[s].len) /\ u \in Bytes(u, m[u].len)
  BY <1>1, <1>2 DEF Bytes
<1> QED
  BY <1>1, <1>3 DEF Disjoint

\* lookup_addr, which looks at one entry, finds the mapping that contains the
\* address.
THEOREM LookupAddr ==
  ASSUME NEW m, Proper(m), Disjoint(m),
         NEW s \in DOMAIN m, NEW addr \in Bytes(s, m[s].len)
  PROVE  lookup_addr(m, addr) = {s}
<1>1. s \in Int /\ m[s].len \in Int /\ addr \in Int /\ s <= addr /\ addr < s + m[s].len
  BY DEF Proper, Bytes
<1>2. ASSUME NEW u \in DOMAIN m, u <= addr PROVE u <= s
  BY <1>1, <1>2, DisjointGap DEF Proper
<1>3. s \in LastUpTo(m, addr)
  BY <1>1, <1>2 DEF LastUpTo
<1>4. ASSUME NEW u \in LastUpTo(m, addr) PROVE u = s
  BY <1>1, <1>2, <1>4 DEF LastUpTo, Proper
<1> QED
  BY <1>1, <1>3, <1>4 DEF lookup_addr

\* The last start up to some address exists if there is one.
LEMMA LastExists ==
  ASSUME NEW m, Proper(m), NEW last \in Nat, NEW s \in DOMAIN m, s <= last
  PROVE  \E u \in LastUpTo(m, last) : s <= u
<1> DEFINE range == {u \in DOMAIN m : u <= last}
           T == {last - u : u \in range}
<1>1. \A u \in range : u \in Nat /\ u <= last
  BY DEF Proper
<1>2. T \subseteq Nat /\ T # {}
  BY <1>1
<1> DEFINE R == {ss \in Nat \X Nat : ss[1] < ss[2]}
<1>3. IsWellFoundedOn(R, Nat)
  BY NatLessThanWellFounded, Zenon DEF OpToRel
<1>4. PICK x \in T : \A y \in T : x <= y
  <2>1. PICK x \in T : \A y \in T : <<y, x>> \notin R
    <3> HIDE DEF R, T
    <3> QED
      BY <1>2, <1>3, WFMin
  <2>2. ASSUME NEW y \in T PROVE x <= y
    <3>1. x \in Nat /\ y \in Nat /\ <<y, x>> \notin R
      <4> HIDE DEF R, T
      <4> QED
        BY <1>2, <2>1
    <3>2. ~(y < x)
      <4> HIDE DEF T
      <4> QED
        BY <3>1
    <3> QED
      BY <3>1, <3>2
  <2> QED
    BY <2>2
<1>5. PICK u \in range : x = last - u
  OBVIOUS
<1>6. \A v \in range : v <= u
  <2> TAKE v \in range
  <2>1. x <= last - v
    BY <1>4
  <2> QED
    BY <1>1, <1>5, <2>1
<1> QED
  BY <1>1, <1>6 DEF LastUpTo

\* lookup_overlap finds an entry exactly if some mapping shares an address with
\* the range: an earlier one would have to reach over the last one.
THEOREM LookupOverlap ==
  ASSUME NEW m, Proper(m), Disjoint(m),
         NEW addr \in Nat \ {0}, NEW len \in Nat \ {0}
  PROVE  lookup_overlap(m, addr, len) = {}
           <=> \A s \in DOMAIN m : Bytes(s, m[s].len) \cap Bytes(addr, len) = {}
<1>1. ASSUME NEW s \in lookup_overlap(m, addr, len)
      PROVE  s \in DOMAIN m /\ Bytes(s, m[s].len) \cap Bytes(addr, len) # {}
  <2>1. /\ s \in DOMAIN m /\ s \in Nat /\ m[s].len \in Nat \ {0}
        /\ addr < s + m[s].len /\ addr + len > s
    BY <1>1 DEF lookup_overlap, LastUpTo, Proper
  <2>2. CASE s <= addr
    <3>1. addr \in Bytes(s, m[s].len) /\ addr \in Bytes(addr, len)
      BY <2>1, <2>2 DEF Bytes
    <3> QED
      BY <2>1, <3>1
  <2>3. CASE addr < s
    <3>1. s \in Bytes(s, m[s].len) /\ s \in Bytes(addr, len)
      BY <2>1, <2>3 DEF Bytes
    <3> QED
      BY <2>1, <3>1
  <2> QED
    BY <2>1, <2>2, <2>3
<1>2. ASSUME NEW s \in DOMAIN m, NEW x \in Bytes(s, m[s].len) \cap Bytes(addr, len)
      PROVE  lookup_overlap(m, addr, len) # {}
  <2> DEFINE last == addr + len - 1
  <2>1. /\ last \in Nat /\ x \in Int /\ s \in Nat /\ m[s].len \in Nat \ {0}
        /\ s <= x /\ x < s + m[s].len /\ addr <= x /\ x <= last
    BY DEF Bytes, Proper
  <2>2. PICK u \in LastUpTo(m, last) : s <= u
    BY <2>1, LastExists
  <2>3. u \in DOMAIN m /\ u \in Nat /\ u <= last /\ m[u].len \in Nat \ {0}
    BY DEF LastUpTo, Proper
  <2>4. addr < u + m[u].len
    <3>1. CASE u = s
      BY <2>1, <3>1
    <3>2. CASE s < u
      BY <2>1, <2>3, <3>2, DisjointGap
    <3> QED
      BY <2>1, <2>2, <2>3, <3>1, <3>2
  <2> QED
    BY <2>1, <2>3, <2>4 DEF lookup_overlap
<1> QED
  BY <1>1, <1>2

=============================================================================
