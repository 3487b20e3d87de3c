-------------------------- MODULE MmapCatchProofs --------------------------
(***************************************************************************)
(* Proofs about MmapCatch for every set of threads, every page size and    *)
(* every set of page-aligned mappings that share no page: the inductive    *)
(* invariant IInv, and what follows from it for the accesses, for the      *)
(* entries of the root, for ROOT's initialisation and for MAP_FIXED.       *)
(***************************************************************************)
EXTENDS MmapCatch, AddrMapProofs

-----------------------------------------------------------------------------
(* Pages and addresses *)

LEMMA DivisionIsMonotonic ==
  ASSUME NEW P \in Nat \ {0}, NEW a \in Nat, NEW b \in Nat, a <= b
  PROVE  a \div P <= b \div P
OBVIOUS

LEMMA DivisionFacts ==
  ASSUME NEW P \in Nat \ {0}, NEW a \in Nat
  PROVE  /\ a \div P \in Nat /\ a % P \in 0 .. P - 1
         /\ a = P * (a \div P) + (a % P)
         /\ (a - (a % P)) \div P = a \div P
<1>1. a \div P \in Nat
  OBVIOUS
<1>2. a % P \in 0 .. P - 1
  OBVIOUS
<1>3. a = P * (a \div P) + (a % P)
  OBVIOUS
<1>4. (a - (a % P)) \div P = a \div P
  OBVIOUS
<1> QED
  BY <1>1, <1>2, <1>3, <1>4

\* The page of an address starts at or below it, but not before a page that
\* starts at or below the address.
LEMMA PageStartFacts ==
  ASSUME NEW a \in Nat
  PROVE  /\ PageStart(a) \in Nat /\ PageStart(a) <= a
         /\ PageOf(a) \in Nat /\ PageOf(PageStart(a)) = PageOf(a)
         /\ \A s \in Nat : s <= a /\ PageStart(s) = s => s <= PageStart(a)
<1>1. PageSize \in Nat \ {0}
  BY MmapCatchAssumption
<1>2. /\ a % PageSize \in 0 .. PageSize - 1 /\ a \div PageSize \in Nat
      /\ a = PageSize * (a \div PageSize) + (a % PageSize)
      /\ (a - (a % PageSize)) \div PageSize = a \div PageSize
  BY <1>1, DivisionFacts
<1>3. PageStart(a) \in Nat /\ PageStart(a) <= a
  <2>1. PageSize * (a \div PageSize) \in Nat
    BY <1>1, <1>2
  <2> QED
    BY <1>2, <2>1 DEF PageStart
<1>4. ASSUME NEW s \in Nat, s <= a, PageStart(s) = s PROVE s <= PageStart(a)
  <2> DEFINE m == s \div PageSize
             n == a \div PageSize
  <2>1. m \in Nat /\ n \in Nat /\ m <= n
    BY <1>1, <1>4, DivisionFacts, DivisionIsMonotonic
  <2>2. s = PageSize * m
    <3>1. s = PageSize * m + (s % PageSize) /\ s % PageSize \in 0 .. PageSize - 1
      BY <1>1, DivisionFacts
    <3>2. s - (s % PageSize) = s
      BY <1>4 DEF PageStart
    <3>3. PageSize * m \in Nat
      BY <1>1, <2>1
    <3> QED
      BY <3>1, <3>2, <3>3
  <2>3. PageStart(a) = PageSize * n
    <3>1. PageSize * n \in Nat
      BY <1>1, <2>1
    <3> QED
      BY <1>2, <3>1 DEF PageStart
  <2>4. PageSize * m <= PageSize * n
    <3> HIDE DEF m, n
    <3> QED
      BY <1>1, <2>1
  <2> QED
    BY <2>2, <2>3, <2>4
<1>5. PageOf(a) \in Nat /\ PageOf(PageStart(a)) = PageOf(a)
  BY <1>2 DEF PageOf, PageStart
<1> QED
  BY <1>3, <1>4, <1>5

\* What every address of a mapping has in common; the range that the handler
\* replaces reaches from the page of the fault to the end of the mapping.
LEMMA PageFacts ==
  ASSUME NEW r \in Regions, NEW a \in Bytes(r.start, r.len)
  PROVE  /\ a \in Nat \ {0} /\ a \in Addresses
         /\ PageOf(a) \in RegionPages(r) /\ PageOf(a) \in Pages
         /\ PageStart(a) \in Bytes(r.start, r.len) /\ PageStart(a) # 0
         /\ PageStart(a) \in Addresses /\ PageOf(PageStart(a)) = PageOf(a)
         /\ PageOf(a) \in Fixed(a, r.start, r.len)
         /\ Fixed(a, r.start, r.len) \subseteq RegionPages(r)
<1> DEFINE last == r.start + r.len - 1
<1>1. /\ r.start \in Nat \ {0} /\ r.len \in Nat \ {0} /\ PageStart(r.start) = r.start
      /\ PageSize \in Nat \ {0}
  BY MmapCatchAssumption
<1>2. a \in Nat \ {0} /\ last \in Nat /\ r.start <= a /\ a <= last
  BY <1>1 DEF Bytes
<1>3. /\ PageStart(a) \in Nat /\ PageStart(a) <= a /\ r.start <= PageStart(a)
      /\ PageOf(PageStart(a)) = PageOf(a)
  BY <1>1, <1>2, PageStartFacts
<1>4. PageStart(a) \in Bytes(r.start, r.len) /\ PageStart(a) # 0
  BY <1>1, <1>2, <1>3 DEF Bytes
<1>5. /\ PageOf(r.start) <= PageOf(a) /\ PageOf(a) <= PageOf(last)
      /\ PageOf(r.start) \in Nat /\ PageOf(a) \in Nat /\ PageOf(last) \in Nat
  <2> HIDE DEF last
  <2>1. PageOf(r.start) <= PageOf(a)
    BY <1>1, <1>2, DivisionIsMonotonic DEF PageOf
  <2>2. PageOf(a) <= PageOf(last)
    BY <1>1, <1>2, DivisionIsMonotonic DEF PageOf
  <2> QED
    BY <1>1, <1>2, <2>1, <2>2, PageStartFacts
<1>6. PageOf(a) \in RegionPages(r)
  BY <1>5 DEF RegionPages, PagesOf
<1>7. Fixed(a, r.start, r.len) = PageOf(a) .. PageOf(last)
  <2>1. PageStart(a) + (r.len - (PageStart(a) - r.start)) - 1 = last
    BY <1>1, <1>3
  <2> QED
    BY <1>3, <2>1 DEF Fixed, PagesOf
<1>8. PageOf(a) \in Fixed(a, r.start, r.len)
      /\ Fixed(a, r.start, r.len) \subseteq RegionPages(r)
  BY <1>5, <1>7 DEF RegionPages, PagesOf
<1> QED
  BY <1>2, <1>3, <1>4, <1>6, <1>8 DEF Addresses, Pages

LEMMA RegionsApart ==
  ASSUME NEW r \in Regions, NEW q \in Regions,
         NEW a, a \in Bytes(r.start, r.len), a \in Bytes(q.start, q.len)
  PROVE  r = q
<1>1. PageOf(a) \in RegionPages(r) /\ PageOf(a) \in RegionPages(q)
  BY PageFacts
<1> QED
  BY <1>1, MmapCatchAssumption

LEMMA RegionsStartApart ==
  ASSUME NEW r \in Regions, NEW q \in Regions, r.start = q.start
  PROVE  r = q
<1>1. r.start \in Bytes(r.start, r.len) /\ r.start \in Bytes(q.start, q.len)
  BY MmapCatchAssumption DEF Bytes
<1> QED
  BY <1>1, RegionsApart

-----------------------------------------------------------------------------
(* The map and its lookups *)

LEMMA MapFacts ==
  ASSUME TypeOK
  PROVE  Proper(map) /\ Disjoint(map)
<1>1. Proper(map)
  BY MmapCatchAssumption DEF TypeOK, Proper
<1>2. ASSUME NEW s \in DOMAIN map, NEW u \in DOMAIN map,
             NEW a, a \in Bytes(s, map[s].len), a \in Bytes(u, map[u].len)
      PROVE  s = u
  <2>1. PICK r \in Regions : s = r.start /\ map[s].len = r.len
    BY DEF TypeOK
  <2>2. PICK q \in Regions : u = q.start /\ map[u].len = q.len
    BY DEF TypeOK
  <2> QED
    BY <1>2, <2>1, <2>2, RegionsApart
<1> QED
  BY <1>1, <1>2 DEF Disjoint

\* The handler finds the mapping of an access whose guard lives.
LEMMA Found ==
  ASSUME TypeOK, GuardsOwnTheirEntries,
         NEW t \in Threads, NEW r \in guard[t], NEW a \in Bytes(r.start, r.len)
  PROVE  /\ r \in Regions /\ r.start \in DOMAIN map
         /\ map[r.start].len = r.len /\ map[r.start].owner = t
         /\ lookup_addr(map, a) = {r.start}
<1>1. r \in Regions /\ r.start \in DOMAIN map /\ map[r.start] = [len |-> r.len, owner |-> t]
  BY DEF TypeOK, GuardsOwnTheirEntries
<1>2. map[r.start].len = r.len /\ map[r.start].owner = t
  BY <1>1
<1>3. lookup_addr(map, a) = {r.start}
  BY <1>1, <1>2, MapFacts, LookupAddr
<1> QED
  BY <1>1, <1>2, <1>3

\* What does not overlap is not registered.
LEMMA Absent ==
  ASSUME TypeOK, NEW r \in Regions, Overlap(r) = {}
  PROVE  r.start \notin DOMAIN map
<1> SUFFICES ASSUME r.start \in DOMAIN map PROVE FALSE
  OBVIOUS
<1>1. r.start \in Nat \ {0} /\ r.len \in Nat \ {0} /\ map[r.start].len \in Nat \ {0}
  BY MmapCatchAssumption DEF TypeOK
<1>2. Bytes(r.start, map[r.start].len) \cap Bytes(r.start, r.len) = {}
  BY <1>1, MapFacts, LookupOverlap DEF Overlap
<1>3. r.start \in Bytes(r.start, map[r.start].len) /\ r.start \in Bytes(r.start, r.len)
  BY <1>1 DEF Bytes
<1> QED
  BY <1>2, <1>3

-----------------------------------------------------------------------------
(* Types *)

\* The part of TypeOK about where the threads are.
ThreadTypes ==
  /\ pc \in [Threads -> Points]
  /\ arg \in [Threads -> {<<>>} \cup Calls \cup Accesses]
  /\ under \in [Threads -> {<<>>} \cup [pc : InCall, arg : Calls]]
  /\ \A t \in Threads :
       /\ pc[t] \in InCall \cup {"error"} => arg[t] \in Calls
       /\ pc[t] \in {"access"} \cup InHandler => arg[t] \in Accesses
       /\ ~Ordinary(t) => pc[t] \in {"access", "dead"} \cup InHandler

\* A thread in ordinary code goes to q, with call a; no other thread moves.
CallGoes(t, q, a) ==
  /\ CallOf(t).pc = pc[t] /\ CallOf(t).arg = arg[t]
  /\ pc'[t] = q /\ CallOf(t)' = [pc |-> q, arg |-> a]
  /\ \A u \in Threads \ {t} : /\ pc'[u] = pc[u] /\ arg'[u] = arg[u]
                              /\ CallOf(u)' = CallOf(u)

\* No thread makes progress with its call.
CallsStay ==
  \A u \in Threads :
    \/ CallOf(u).pc \in InCall \cup {"error"}
    \/ CallOf(u).pc' \in InCall \cup {"error"}
    => CallOf(u)' = CallOf(u)

LEMMA PointFacts ==
  /\ InCall \cup {"idle", "error", "panicked", "access", "dead"} \cup InHandler = Points
  /\ InCall \cap ({"idle", "error", "panicked", "access", "dead"} \cup InHandler) = {}
  /\ InHandler \cap {"idle", "error", "panicked", "access", "dead"} = {}
BY DEF Points, InCall, InOnce, InRoot, InHandler, Stores

LEMMA OrdinaryCalls ==
  ASSUME ThreadTypes, NEW t \in Threads
  PROVE  /\ pc[t] \in InCall \cup {"idle", "error", "panicked"} => Ordinary(t)
         /\ Ordinary(t) => CallOf(t) = [pc |-> pc[t], arg |-> arg[t]]
         /\ ~Ordinary(t) => /\ CallOf(t) = under[t]
                            /\ CallOf(t).pc \in InCall /\ CallOf(t).arg \in Calls
BY PointFacts DEF ThreadTypes, Ordinary, CallOf

LEMMA CallMoves ==
  ASSUME ThreadTypes, NEW t \in Threads, pc[t] \in InCall,
         NEW q \in InCall \cup {"error"}, Goto(t, q), UNCHANGED <<arg, under>>
  PROVE  ThreadTypes' /\ CallGoes(t, q, arg[t])
<1>1. \A u \in Threads : pc'[u] = IF u = t THEN q ELSE pc[u]
  BY DEF ThreadTypes, Goto
<1>2. pc' \in [Threads -> Points]
  BY PointFacts DEF ThreadTypes, Goto
<1>3. Ordinary(t)
  BY OrdinaryCalls
<1>4. ThreadTypes'
  BY <1>1, <1>2, <1>3, PointFacts DEF ThreadTypes, Ordinary
<1> QED
  BY <1>1, <1>3, <1>4 DEF CallGoes, CallOf, Ordinary

LEMMA CallStarts ==
  ASSUME ThreadTypes, NEW t \in Threads, pc[t] \in {"idle", "panicked"},
         NEW q \in InCall, Goto(t, q),
         NEW a \in Calls, arg' = [arg EXCEPT ![t] = a], UNCHANGED under
  PROVE  ThreadTypes' /\ CallGoes(t, q, a)
<1>1. \A u \in Threads : /\ pc'[u] = IF u = t THEN q ELSE pc[u]
                         /\ arg'[u] = IF u = t THEN a ELSE arg[u]
  BY DEF ThreadTypes, Goto
<1>2. /\ pc' \in [Threads -> Points]
      /\ arg' \in [Threads -> {<<>>} \cup Calls \cup Accesses]
  BY PointFacts DEF ThreadTypes, Goto
<1>3. Ordinary(t)
  BY OrdinaryCalls
<1>4. ThreadTypes'
  BY <1>1, <1>2, <1>3, PointFacts DEF ThreadTypes, Ordinary
<1> QED
  BY <1>1, <1>3, <1>4 DEF CallGoes, CallOf, Ordinary

LEMMA CallEnds ==
  ASSUME ThreadTypes, NEW t \in Threads, pc[t] \in InCall \cup {"error"},
         NEW q \in {"idle", "panicked"}, Finish(t, q), UNCHANGED under
  PROVE  ThreadTypes' /\ CallGoes(t, q, <<>>)
<1>1. \A u \in Threads : /\ pc'[u] = IF u = t THEN q ELSE pc[u]
                         /\ arg'[u] = IF u = t THEN <<>> ELSE arg[u]
  BY DEF ThreadTypes, Goto, Finish
<1>2. /\ pc' \in [Threads -> Points]
      /\ arg' \in [Threads -> {<<>>} \cup Calls \cup Accesses]
  BY PointFacts DEF ThreadTypes, Goto, Finish
<1>3. Ordinary(t)
  BY OrdinaryCalls
<1>4. ThreadTypes'
  BY <1>1, <1>2, <1>3, PointFacts DEF ThreadTypes, Ordinary
<1> QED
  BY <1>1, <1>3, <1>4 DEF CallGoes, CallOf, Ordinary

LEMMA Unwinds ==
  ASSUME ThreadTypes, NEW t \in Threads, pc[t] \in {"idle", "panicked"},
         NEW q \in {"idle", "panicked"}, Goto(t, q), UNCHANGED <<arg, under>>
  PROVE  ThreadTypes' /\ CallGoes(t, q, arg[t])
<1>1. \A u \in Threads : pc'[u] = IF u = t THEN q ELSE pc[u]
  BY DEF ThreadTypes, Goto
<1>2. pc' \in [Threads -> Points]
  BY PointFacts DEF ThreadTypes, Goto
<1>3. Ordinary(t)
  BY OrdinaryCalls
<1>4. ThreadTypes'
  BY <1>1, <1>2, <1>3, PointFacts DEF ThreadTypes, Ordinary
<1> QED
  BY <1>1, <1>3, <1>4 DEF CallGoes, CallOf, Ordinary

LEMMA HandlerMoves ==
  ASSUME ThreadTypes, NEW t \in Threads, pc[t] \in {"access"} \cup InHandler,
         NEW q \in {"access"} \cup InHandler, Goto(t, q), UNCHANGED <<arg, under>>
  PROVE  /\ ThreadTypes' /\ CallsStay
         /\ \A u \in Threads : pc'[u] = IF u = t THEN q ELSE pc[u]
<1>1. \A u \in Threads : pc'[u] = IF u = t THEN q ELSE pc[u]
  BY DEF ThreadTypes, Goto
<1>2. pc' \in [Threads -> Points]
  BY PointFacts DEF ThreadTypes, Goto
<1>3. arg[t] \in Accesses
  BY DEF ThreadTypes
<1>4. ThreadTypes'
  BY <1>1, <1>2, <1>3, PointFacts DEF ThreadTypes, Ordinary
<1>5. CallsStay
  BY <1>1, PointFacts DEF CallsStay, CallOf, Ordinary
<1> QED
  BY <1>1, <1>4, <1>5

\* The other part of TypeOK.
DataTypes ==
  /\ {installed, once, written, clean} \subseteq BOOLEAN
  /\ holder \in Threads \cup {NoTid}
  /\ \A s \in DOMAIN map : \E r \in Regions :
       s = r.start /\ map[s] \in [len : {r.len}, owner : Threads]
  /\ guard \in [Threads -> SUBSET Regions]
  /\ state \in [Threads -> [Starts -> States]]
  /\ page \in [Pages -> {"file", "zero", "written"}]
  /\ broken \subseteq Pages

LEMMA TypeParts ==
  /\ TypeOK <=> DataTypes /\ ThreadTypes
  /\ TypeOK' <=> DataTypes' /\ ThreadTypes'
BY DEF TypeOK, DataTypes, ThreadTypes

LEMMA SameData ==
  ASSUME DataTypes, UNCHANGED <<installed, once, written, holder, clean, map,
                                guard, state, page, broken>>
  PROVE  DataTypes'
BY DEF DataTypes

LEMMA InitType == Init => TypeOK
<1> SUFFICES ASSUME Init PROVE TypeOK
  OBVIOUS
<1>1. DataTypes
  <2>1. NewState \in States
    BY DEF NewState, States
  <2>2. DOMAIN map = {}
    BY DEF Init
  <2> QED
    BY <2>1, <2>2 DEF Init, DataTypes
<1>2. ThreadTypes
  BY DEF Init, ThreadTypes, Points, InCall, InOnce, InRoot, InHandler, Stores, Ordinary
<1> QED
  BY <1>1, <1>2, TypeParts

LEMMA AccessEnds ==
  ASSUME ThreadTypes, NEW t \in Threads, pc[t] = "access", EndAccess(t)
  PROVE  /\ ThreadTypes' /\ CallsStay
         /\ pc'[t] \in {"idle"} \cup InCall
         /\ \A u \in Threads \ {t} : pc'[u] = pc[u] /\ arg'[u] = arg[u]
<1>1. CASE Ordinary(t)
  <2>1. pc' = [pc EXCEPT ![t] = "idle"] /\ arg' = [arg EXCEPT ![t] = <<>>] /\ under' = under
    BY <1>1 DEF EndAccess, Finish, Goto
  <2>2. \A u \in Threads : /\ pc'[u] = IF u = t THEN "idle" ELSE pc[u]
                           /\ arg'[u] = IF u = t THEN <<>> ELSE arg[u]
    BY <2>1 DEF ThreadTypes
  <2>3. /\ pc' \in [Threads -> Points]
        /\ arg' \in [Threads -> {<<>>} \cup Calls \cup Accesses]
    BY <2>1, PointFacts DEF ThreadTypes
  <2>4. ThreadTypes'
    BY <1>1, <2>1, <2>2, <2>3, PointFacts DEF ThreadTypes, Ordinary
  <2>5. CallsStay
    BY <1>1, <2>1, <2>2, PointFacts DEF CallsStay, CallOf, Ordinary
  <2> QED
    BY <2>2, <2>4, <2>5
<1>2. CASE ~Ordinary(t)
  <2>1. under[t] \in [pc : InCall, arg : Calls]
    BY <1>2 DEF ThreadTypes, Ordinary
  <2>2. under[t].pc \in InCall /\ under[t].arg \in Calls
        /\ under[t] = [pc |-> under[t].pc, arg |-> under[t].arg]
    BY <2>1
  <2>3. /\ pc' = [pc EXCEPT ![t] = under[t].pc]
        /\ arg' = [arg EXCEPT ![t] = under[t].arg]
        /\ under' = [under EXCEPT ![t] = <<>>]
    BY <1>2 DEF EndAccess, Goto
  <2>4. /\ pc' \in [Threads -> Points]
        /\ arg' \in [Threads -> {<<>>} \cup Calls \cup Accesses]
        /\ under' \in [Threads -> {<<>>} \cup [pc : InCall, arg : Calls]]
    BY <2>2, <2>3, PointFacts DEF ThreadTypes
  <2>5. \A u \in Threads : /\ pc'[u] = IF u = t THEN under[t].pc ELSE pc[u]
                           /\ arg'[u] = IF u = t THEN under[t].arg ELSE arg[u]
                           /\ under'[u] = IF u = t THEN <<>> ELSE under[u]
    BY <2>3 DEF ThreadTypes
  <2>6. ThreadTypes'
    BY <2>2, <2>4, <2>5, PointFacts DEF ThreadTypes, Ordinary
  <2>7. \A u \in Threads : CallOf(u)' = CallOf(u)
    BY <1>2, <2>2, <2>5 DEF CallOf, Ordinary
  <2> QED
    BY <2>2, <2>5, <2>6, <2>7 DEF CallsStay
<1> QED
  BY <1>1, <1>2

\* Only interrupted calls remain visible after the end.
LEMMA AbortMoves ==
  ASSUME ThreadTypes, pc' = [u \in Threads |-> "dead"], UNCHANGED <<arg, under>>
  PROVE  /\ ThreadTypes'
         /\ \A u \in Threads :
              /\ pc'[u] = "dead"
              /\ CallOf(u).pc' \in InCall \cup {"error"} => CallOf(u)' = CallOf(u)
<1>1. pc' \in [Threads -> Points] /\ \A u \in Threads : pc'[u] = "dead"
  BY PointFacts
<1>2. ThreadTypes'
  BY <1>1, PointFacts DEF ThreadTypes, Ordinary
<1> QED
  BY <1>1, <1>2, PointFacts DEF CallOf, Ordinary

LEMMA AccessStarts ==
  ASSUME TypeOK, NEW t \in Threads, StartAccess(t)
  PROVE  /\ ThreadTypes' /\ CallsStay
         /\ \A u \in Threads : pc'[u] = IF u = t THEN "access" ELSE pc[u]
         /\ \A u \in Threads \ {t} : arg'[u] = arg[u]
         /\ arg'[t].addr \in Bytes(arg'[t].region.start, arg'[t].region.len)
         /\ \E u \in Threads : arg'[t].region \in guard[u]
<1>1. PICK r \in UNION {guard[u] : u \in Threads}, op \in Ops :
        \E a \in Bytes(r.start, r.len) :
          arg' = [arg EXCEPT ![t] = [op |-> op, region |-> r, addr |-> a]]
  BY DEF StartAccess
<1>a. PICK a \in Bytes(r.start, r.len) :
        arg' = [arg EXCEPT ![t] = [op |-> op, region |-> r, addr |-> a]]
  BY <1>1
<1>2. [op |-> op, region |-> r, addr |-> a] \in Accesses
  <2>1. r \in Regions
    BY DEF TypeOK
  <2>2. a \in Addresses
    BY <2>1, PageFacts
  <2> QED
    BY <2>1, <2>2 DEF Accesses
<1>3. pc' = [pc EXCEPT ![t] = "access"] /\ pc[t] \in {"idle"} \cup InCall
  BY DEF StartAccess, Goto
<1>5. /\ pc' \in [Threads -> Points]
      /\ arg' \in [Threads -> {<<>>} \cup Calls \cup Accesses]
  BY <1>a, <1>2, <1>3, PointFacts DEF TypeOK
<1>6. /\ under' \in [Threads -> {<<>>} \cup [pc : InCall, arg : Calls]]
      /\ \A v \in Threads \ {t} : under'[v] = under[v]
  <2>1. CASE UNCHANGED under
    BY <2>1 DEF TypeOK
  <2>2. CASE pc[t] \in InCall /\ under' = [under EXCEPT ![t] = [pc |-> pc[t], arg |-> arg[t]]]
    <3>1. [pc |-> pc[t], arg |-> arg[t]] \in [pc : InCall, arg : Calls]
      BY <2>2 DEF TypeOK
    <3> QED
      BY <2>2, <3>1 DEF TypeOK
  <2> QED
    BY <2>1, <2>2 DEF StartAccess
<1>7. \A v \in Threads :
        /\ pc'[v] = IF v = t THEN "access" ELSE pc[v]
        /\ arg'[v] = IF v = t THEN [op |-> op, region |-> r, addr |-> a] ELSE arg[v]
  BY <1>a, <1>3 DEF TypeOK
<1>8. ThreadTypes'
  BY <1>2, <1>5, <1>6, <1>7, PointFacts DEF ThreadTypes, TypeOK, Ordinary
<1>9. CallsStay
  <2>1. \A u \in Threads \ {t} : CallOf(u)' = CallOf(u)
    BY <1>6, <1>7 DEF CallOf, Ordinary
  <2>2. Ordinary(t) /\ CallOf(t) = [pc |-> pc[t], arg |-> arg[t]]
    BY <1>3, OrdinaryCalls, TypeParts
  <2>3. CASE pc[t] = "idle" /\ UNCHANGED under
    BY <1>7, <2>1, <2>2, <2>3, PointFacts DEF CallsStay, CallOf, Ordinary
  <2>4. CASE pc[t] \in InCall /\ under' = [under EXCEPT ![t] = [pc |-> pc[t], arg |-> arg[t]]]
    <3>1. under'[t] = [pc |-> pc[t], arg |-> arg[t]]
      BY <2>4 DEF TypeOK
    <3>2. CallOf(t)' = [pc |-> pc[t], arg |-> arg[t]]
      BY <3>1 DEF CallOf, Ordinary
    <3> QED
      BY <2>1, <2>2, <3>2 DEF CallsStay
  <2> QED
    BY <2>3, <2>4 DEF StartAccess
<1>10. /\ arg'[t].addr = a /\ arg'[t].region = r
  BY <1>7
<1> QED
  BY <1>7, <1>8, <1>9, <1>10

\* The handler's next store.
LEMMA NextStoreFacts ==
  /\ NextStore["lookup"] = "fix_addr" /\ NextStore["fix_addr"] = "err_addr"
  /\ NextStore["err_addr"] = "err" /\ NextStore["err"] = "done"
BY DEF NextStore

\* What the handler stores.
Stored(t, old, new) ==
  LET addr == arg[t].addr IN
  /\ pc[t] = "fix_addr" =>
       new.fix_addr = PageStart(addr) /\ new.err_addr = old.err_addr /\ new.err = old.err
  /\ pc[t] = "err_addr" =>
       new.err_addr = addr /\ new.fix_addr = old.fix_addr /\ new.err = old.err
  /\ pc[t] = "err" =>
       new.err = TRUE /\ new.fix_addr = old.fix_addr /\ new.err_addr = old.err_addr

LEMMA StoreFacts ==
  ASSUME TypeOK, NEW t \in Threads, StoreState(t)
  PROVE  \E s \in lookup_addr(map, arg[t].addr) :
           /\ s \in Starts /\ map[s].owner \in Threads
           /\ state' \in [Threads -> [Starts -> States]]
           /\ \A u \in Threads, x \in Starts :
                u # map[s].owner \/ x # s => state'[u][x] = state[u][x]
           /\ Stored(t, state[map[s].owner][s], state'[map[s].owner][s])
<1> DEFINE addr == arg[t].addr
           value == [fix_addr |-> PageStart(addr), err_addr |-> addr, err |-> TRUE]
<1>1. addr \in Addresses
  BY DEF StoreState, TypeOK, InHandler, Accesses
<1>2. PageStart(addr) \in Addresses
  BY <1>1, PageFacts DEF Addresses
<1>3. PICK s \in lookup_addr(map, addr) :
        state' = [state EXCEPT ![map[s].owner][s][pc[t]] = value[pc[t]]]
  BY DEF StoreState
<1>4. s \in Starts /\ map[s].owner \in Threads
  <2>1. s \in DOMAIN map
    BY DEF lookup_addr, LastUpTo
  <2> QED
    BY <2>1 DEF TypeOK, Starts
<1> DEFINE o == map[s].owner
           old == state[o][s]
           new == [old EXCEPT ![pc[t]] = value[pc[t]]]
<1>5. old \in States
  BY <1>4 DEF TypeOK
<1>6. Stored(t, old, new) /\ new \in States
  <2>1. CASE pc[t] = "fix_addr"
    BY <1>2, <1>5, <2>1 DEF Stored, States
  <2>2. CASE pc[t] = "err_addr"
    BY <1>1, <1>5, <2>2 DEF Stored, States
  <2>3. CASE pc[t] = "err"
    <3>1. value["err"] = TRUE
      OBVIOUS
    <3> HIDE DEF value
    <3> QED
      BY <1>5, <2>3, <3>1 DEF Stored, States
  <2> QED
    BY <2>1, <2>2, <2>3 DEF StoreState, Stores
<1> HIDE DEF value
<1>7. state' = [state EXCEPT ![o] = [state[o] EXCEPT ![s] = new]]
  BY <1>3
<1> HIDE DEF new, old
<1>8. /\ state'[o] = [state[o] EXCEPT ![s] = new]
      /\ \A u \in Threads : u # o => state'[u] = state[u]
  BY <1>4, <1>7 DEF TypeOK
<1>9. /\ state'[o][s] = new
      /\ \A x \in Starts : x # s => state'[o][x] = state[o][x]
  BY <1>4, <1>8 DEF TypeOK
<1>10. state' \in [Threads -> [Starts -> States]]
  BY <1>4, <1>6, <1>7 DEF TypeOK
<1> QED
  BY <1>4, <1>6, <1>8, <1>9, <1>10 DEF old

LEMMA StateRenewed ==
  ASSUME state \in [Threads -> [Starts -> States]], NEW t \in Threads, NEW r \in Regions,
         state' = [state EXCEPT ![t][r.start] = NewState]
  PROVE  /\ state' \in [Threads -> [Starts -> States]]
         /\ state'[t][r.start] = NewState
         /\ \A u \in Threads, x \in Starts :
              u # t \/ x # r.start => state'[u][x] = state[u][x]
<1>1. r.start \in Starts
  BY DEF Starts
<1>2. NewState \in States
  BY DEF NewState, States
<1>3. state' = [state EXCEPT ![t] = [state[t] EXCEPT ![r.start] = NewState]]
  OBVIOUS
<1>4. state'[t] = [state[t] EXCEPT ![r.start] = NewState]
  BY <1>3
<1> QED
  BY <1>1, <1>2, <1>3, <1>4

\* The closures' changes of the map.
LEMMA InsertFacts ==
  ASSUME TypeOK, NEW t \in Threads, arg[t] \in Calls, Insert(t)
  PROVE  LET r == arg[t].region IN
         /\ r \in Regions /\ r.start \notin DOMAIN map /\ arg[t].op = "register"
         /\ DOMAIN map' = DOMAIN map \cup {r.start}
         /\ map'[r.start] = [len |-> r.len, owner |-> t]
         /\ \A s \in DOMAIN map : map'[s] = map[s]
         /\ \A s \in DOMAIN map' : \E q \in Regions :
              s = q.start /\ map'[s] \in [len : {q.len}, owner : Threads]
<1> DEFINE r == arg[t].region
<1>1. r \in Regions
  BY DEF Calls
<1>2. r.start \notin DOMAIN map
  BY <1>1, Absent DEF Insert
<1>3. /\ DOMAIN map' = DOMAIN map \cup {r.start}
      /\ map'[r.start] = [len |-> r.len, owner |-> t]
      /\ \A s \in DOMAIN map : map'[s] = map[s]
  BY <1>2 DEF Insert, NewMapping
<1>4. \A s \in DOMAIN map' : \E q \in Regions :
        s = q.start /\ map'[s] \in [len : {q.len}, owner : Threads]
  <2> HIDE DEF r
  <2> QED
    BY <1>1, <1>3 DEF TypeOK
<1> QED
  BY <1>1, <1>2, <1>3, <1>4 DEF Insert

LEMMA RemoveFacts ==
  ASSUME TypeOK, NEW t \in Threads, arg[t] \in Calls, Remove(t)
  PROVE  LET r == arg[t].region IN
         /\ r \in Regions /\ arg[t] \in [op : Drops, region : {r}]
         /\ DOMAIN map' = DOMAIN map \ {r.start}
         /\ \A s \in DOMAIN map' : map'[s] = map[s]
         /\ \A s \in DOMAIN map' : \E q \in Regions :
              s = q.start /\ map'[s] \in [len : {q.len}, owner : Threads]
<1>1. arg[t].region \in Regions /\ arg[t] \in [op : Drops, region : {arg[t].region}]
  BY DEF Calls, Remove
<1>2. /\ DOMAIN map' = DOMAIN map \ {arg[t].region.start}
      /\ \A s \in DOMAIN map' : map'[s] = map[s]
  BY DEF Remove
<1> QED
  BY <1>1, <1>2 DEF TypeOK

\* A panic under the lock.
LEMMA PanicMoves ==
  ASSUME ThreadTypes, NEW t \in Threads, pc[t] \in InCall, Panic(t)
  PROVE  /\ ThreadTypes'
         /\ UNCHANGED <<installed, once, written, clean, guard, state, page, broken, under>>
         /\ \/ /\ CallGoes(t, "panicked", <<>>)
               /\ holder' = NoTid /\ aborted' = aborted
            \/ arg[t].op = "unwind" /\ Abort("panic while unwinding")
<1>1. CASE arg[t].op = "unwind"
  <2>1. Abort("panic while unwinding")
    BY <1>1 DEF Panic
  <2> QED
    BY <1>1, <2>1, AbortMoves DEF Abort, Once, pages
<1>2. CASE arg[t].op # "unwind"
  <2>1. /\ holder' = NoTid /\ Finish(t, "panicked")
        /\ UNCHANGED <<Once, clean, guard, state, pages, under, aborted>>
    BY <1>2 DEF Panic
  <2>2. ThreadTypes' /\ CallGoes(t, "panicked", <<>>)
    BY <2>1, CallEnds
  <2> QED
    BY <2>1, <2>2 DEF Once, pages
<1> QED
  BY <1>1, <1>2

LEMMA TypeStep ==
  ASSUME TypeOK, [Next]_vars
  PROVE  TypeOK'
<1>p. /\ \A p \in {"install", "init", "mutex", "create", "flag", "lock", "body", "unlock",
                   "poisoned"} : p \in InCall
      /\ \A p \in {"sigbus", "lookup", "fix_addr", "err_addr", "err", "done"} :
           p \in InHandler
  BY DEF InCall, InOnce, InRoot, InHandler, Stores
<1>a. /\ DataTypes /\ ThreadTypes
      /\ \A t \in Threads : pc[t] \in InCall => arg[t] \in Calls
  BY TypeParts DEF TypeOK
<1>1. CASE UNCHANGED vars
  BY <1>1 DEF TypeOK, vars, ROOT, Once, pages, Ordinary
<1>2. ASSUME NEW t \in Threads, register_mmap(t) PROVE TypeOK'
  <2>1. PICK r \in Regions : arg' = [arg EXCEPT ![t] = [op |-> "register", region |-> r]]
    BY <1>2 DEF register_mmap
  <2>2. [op |-> "register", region |-> r] \in Calls
    BY DEF Calls
  <2>3. ThreadTypes'
    BY <1>2, <2>1, <2>2, <1>a, <1>p, CallStarts DEF register_mmap
  <2>4. DataTypes'
    BY <1>2, <1>a, SameData DEF register_mmap, ROOT, Once, pages
  <2> QED
    BY <2>3, <2>4, TypeParts
<1>3. ASSUME NEW t \in Threads, DropGuard(t) PROVE TypeOK'
  <2>1. PICK r \in guard[t], op \in Drops :
          /\ arg' = [arg EXCEPT ![t] = [op |-> op, region |-> r]]
          /\ guard' = [guard EXCEPT ![t] = @ \ {r}]
    BY <1>3 DEF DropGuard, Drops
  <2>2. [op |-> op, region |-> r] \in Calls
    BY <1>a DEF Calls, DataTypes, Drops
  <2>3. ThreadTypes'
    BY <1>3, <2>1, <2>2, <1>a, <1>p, CallStarts DEF DropGuard
  <2>4. DataTypes'
    <3>1. guard' \in [Threads -> SUBSET Regions]
      BY <2>1, <1>a DEF DataTypes
    <3>2. UNCHANGED <<installed, once, written, holder, clean, map, state, page, broken>>
      BY <1>3 DEF DropGuard, ROOT, Once, pages
    <3> QED
      BY <3>1, <3>2, <1>a DEF DataTypes
  <2> QED
    BY <2>3, <2>4, TypeParts
<1>4. ASSUME NEW t \in Threads, StartAccess(t) PROVE TypeOK'
  <2>1. DataTypes'
    BY <1>4, <1>a, SameData DEF StartAccess, ROOT, Once, pages
  <2> QED
    BY <1>4, <2>1, AccessStarts, TypeParts
<1>5. ASSUME NEW t \in Threads, install_signal_handler(t) PROVE TypeOK'
  <2>1. ThreadTypes'
    BY <1>5, <1>a, <1>p, CallMoves DEF install_signal_handler
  <2>2. DataTypes'
    BY <1>5, <1>a DEF install_signal_handler, DataTypes, pages
  <2> QED
    BY <2>1, <2>2, TypeParts
<1>6. ASSUME NEW t \in Threads, FirstLook(t) \/ SecondLook(t) PROVE TypeOK'
  <2>1. PICK q \in {"lock", "mutex", "create"} : Goto(t, q)
    BY <1>6 DEF FirstLook, SecondLook
  <2>2. pc[t] \in {"init", "mutex"} /\ UNCHANGED <<arg, under>>
    BY <1>6 DEF FirstLook, SecondLook
  <2>3. ThreadTypes'
    BY <2>1, <2>2, <1>a, <1>p, CallMoves
  <2>4. DataTypes'
    BY <1>6, <1>a, SameData DEF FirstLook, SecondLook, ROOT, Once, pages
  <2> QED
    BY <2>3, <2>4, TypeParts
<1>7. ASSUME NEW t \in Threads, CreateRoot(t) PROVE TypeOK'
  <2>1. PICK q \in {"flag", "error"} : Goto(t, q)
    BY <1>7 DEF CreateRoot
  <2>2. ThreadTypes'
    BY <1>7, <2>1, <1>a, <1>p, CallMoves DEF CreateRoot
  <2>3. CASE UNCHANGED <<written, holder, clean, map>>
    <3>1. DataTypes'
      BY <1>7, <2>3, <1>a DEF CreateRoot, DataTypes, pages
    <3> QED
      BY <2>2, <3>1, TypeParts
  <2>4. CASE written' = TRUE /\ holder' = NoTid /\ clean' = TRUE /\ map' = <<>>
    <3>1. DOMAIN map' = {}
      BY <2>4
    <3>2. DataTypes'
      BY <1>7, <2>4, <3>1, <1>a DEF CreateRoot, DataTypes, pages
    <3> QED
      BY <2>2, <3>2, TypeParts
  <2> QED
    BY <1>7, <2>3, <2>4 DEF CreateRoot
<1>8. ASSUME NEW t \in Threads, SetFlag(t) PROVE TypeOK'
  <2>1. ThreadTypes'
    BY <1>8, <1>a, <1>p, CallMoves DEF SetFlag
  <2>2. DataTypes'
    BY <1>8, <1>a DEF SetFlag, DataTypes, pages
  <2> QED
    BY <2>1, <2>2, TypeParts
<1>9. ASSUME NEW t \in Threads, ReturnError(t) PROVE TypeOK'
  <2>1. ThreadTypes'
    BY <1>9, <1>a, <1>p, CallEnds DEF ReturnError, Return
  <2>2. DataTypes'
    BY <1>9, <1>a, SameData DEF ReturnError, ROOT, Once, pages
  <2> QED
    BY <2>1, <2>2, TypeParts
<1>10. ASSUME NEW t \in Threads, with_root(t) PROVE TypeOK'
  <2>1. PICK q \in {"poisoned", "body"} : Goto(t, q)
    BY <1>10 DEF with_root
  <2>2. ThreadTypes'
    BY <1>10, <2>1, <1>a, <1>p, CallMoves DEF with_root
  <2>3. DataTypes'
    BY <1>10, <1>a DEF with_root, DataTypes, Once, pages
  <2> QED
    BY <2>2, <2>3, TypeParts
<1>11. ASSUME NEW t \in Threads, InsertMapping(t) PROVE TypeOK'
  <2> DEFINE r == arg[t].region
  <2>1. ThreadTypes'
    BY <1>11, <1>a, <1>p, CallMoves DEF InsertMapping
  <2>2. /\ r \in Regions
        /\ \A s \in DOMAIN map' : \E q \in Regions :
             s = q.start /\ map'[s] \in [len : {q.len}, owner : Threads]
    BY <1>11, <1>a, <1>p, InsertFacts DEF InsertMapping
  <2>3. guard' \in [Threads -> SUBSET Regions]
    BY <1>11, <2>2, <1>a DEF InsertMapping, DataTypes
  <2>4. state' \in [Threads -> [Starts -> States]]
    BY <1>11, <2>2, <1>a, StateRenewed DEF InsertMapping, DataTypes
  <2>5. UNCHANGED <<Once, holder, clean, pages>>
    BY <1>11 DEF InsertMapping
  <2>6. DataTypes'
    BY <2>2, <2>3, <2>4, <2>5, <1>a DEF DataTypes, Once, pages
  <2> QED
    BY <2>1, <2>6, TypeParts
<1>12. ASSUME NEW t \in Threads, RefuseOverlap(t) PROVE TypeOK'
  <2>1. ThreadTypes'
    BY <1>12, <1>a, <1>p, CallMoves DEF RefuseOverlap
  <2>2. DataTypes'
    BY <1>12, <1>a, SameData DEF RefuseOverlap, ROOT, Once, pages
  <2> QED
    BY <2>1, <2>2, TypeParts
<1>c. ASSUME NEW t \in Threads, pc[t] \in InCall, Panic(t),
             UNCHANGED map \/ Insert(t) \/ Remove(t)
      PROVE  TypeOK'
  <2>1. /\ ThreadTypes'
        /\ UNCHANGED <<installed, once, written, clean, guard, state, page, broken>>
        /\ holder' \in {holder, NoTid}
    BY <1>c, <1>a, PanicMoves DEF Abort
  <2>2. \A s \in DOMAIN map' : \E q \in Regions :
          s = q.start /\ map'[s] \in [len : {q.len}, owner : Threads]
    <3>1. CASE UNCHANGED map
      BY <3>1, <1>a DEF DataTypes
    <3>2. CASE Insert(t)
      BY <3>2, <1>a, <1>c, InsertFacts
    <3>3. CASE Remove(t)
      BY <3>3, <1>a, <1>c, RemoveFacts
    <3> QED
      BY <1>c, <3>1, <3>2, <3>3
  <2>3. DataTypes'
    BY <2>1, <2>2, <1>a DEF DataTypes
  <2> QED
    BY <2>1, <2>3, TypeParts
<1>d. ASSUME NEW t \in Threads, RefusePoisoned(t) \/ ClosurePanics(t) PROVE TypeOK'
  BY <1>c, <1>d, <1>p DEF RefusePoisoned, ClosurePanics
<1>e. ASSUME NEW t \in Threads, RemoveMapping(t) PROVE TypeOK'
  <2> DEFINE r == arg[t].region
  <2>1. CASE Panic(t)
    BY <1>c, <1>e, <2>1, <1>p DEF RemoveMapping
  <2>2. CASE /\ Goto(t, "unlock")
             /\ state' = [state EXCEPT ![t][r.start] = NewState]
             /\ UNCHANGED <<Once, holder, clean, guard, pages, arg, under>>
    <3>1. ThreadTypes'
      BY <1>e, <2>2, <1>a, <1>p, CallMoves DEF RemoveMapping
    <3>2. /\ r \in Regions
          /\ \A s \in DOMAIN map' : \E q \in Regions :
               s = q.start /\ map'[s] \in [len : {q.len}, owner : Threads]
      BY <1>e, <1>a, <1>p, RemoveFacts DEF RemoveMapping
    <3>3. state' \in [Threads -> [Starts -> States]]
      BY <2>2, <3>2, <1>a, StateRenewed DEF DataTypes
    <3>4. DataTypes'
      BY <2>2, <3>2, <3>3, <1>a DEF DataTypes, Once, pages
    <3> QED
      BY <3>1, <3>4, TypeParts
  <2> QED
    BY <1>e, <2>1, <2>2 DEF RemoveMapping
<1>f. ASSUME NEW t \in Threads, ProgramPanics(t) \/ Caught(t) PROVE TypeOK'
  <2>1. PICK q \in {"idle", "panicked"} : Goto(t, q)
    BY <1>f DEF ProgramPanics, Caught
  <2>2. ThreadTypes'
    BY <1>f, <2>1, <1>a, Unwinds DEF ProgramPanics, Caught
  <2>3. DataTypes'
    BY <1>f, <1>a, SameData DEF ProgramPanics, Caught, ROOT, Once, pages
  <2> QED
    BY <2>2, <2>3, TypeParts
<1>13. ASSUME NEW t \in Threads, Unlock(t) PROVE TypeOK'
  <2>1. ThreadTypes'
    BY <1>13, <1>a, <1>p, CallEnds DEF Unlock, Return
  <2>2. DataTypes'
    BY <1>13, <1>a DEF Unlock, DataTypes, Once, pages
  <2> QED
    BY <2>1, <2>2, TypeParts
<1>14. ASSUME NEW t \in Threads, Access(t) PROVE TypeOK'
  <2>1. page' \in [Pages -> {"file", "zero", "written"}]
    BY <1>14, <1>a DEF Access, DataTypes
  <2>2. DataTypes'
    BY <1>14, <2>1, <1>a DEF Access, DataTypes, ROOT, Once
  <2>3. CASE EndAccess(t)
    BY <1>14, <2>2, <2>3, <1>a, AccessEnds, TypeParts DEF Access
  <2>4. CASE Goto(t, "sigbus") /\ UNCHANGED <<arg, under>>
    <3>1. ThreadTypes'
      BY <1>14, <2>4, <1>a, <1>p, HandlerMoves DEF Access
    <3> QED
      BY <2>2, <3>1, TypeParts
  <2> QED
    BY <1>14, <2>3, <2>4 DEF Access
<1>15. ASSUME NEW why, Abort(why), UNCHANGED map PROVE TypeOK'
  <2>1. DataTypes'
    BY <1>15, <1>a, SameData DEF Abort, ROOT, Once, pages
  <2> QED
    BY <1>15, <2>1, <1>a, AbortMoves, TypeParts DEF Abort
<1>16. ASSUME NEW t \in Threads, handle_sigbus(t) PROVE TypeOK'
  <2>1. CASE holder' = t /\ Goto(t, "lookup") /\
             UNCHANGED <<Once, clean, map, guard, state, pages, arg, under>>
    <3>1. ThreadTypes'
      BY <1>16, <2>1, <1>a, <1>p, HandlerMoves DEF handle_sigbus
    <3>2. DataTypes'
      BY <2>1, <1>a DEF DataTypes, Once, pages
    <3> QED
      BY <3>1, <3>2, TypeParts
  <2> QED
    BY <1>15, <1>16, <2>1 DEF handle_sigbus
<1>17. ASSUME NEW t \in Threads, Replace(t) PROVE TypeOK'
  <2>1. CASE lookup_addr(map, arg[t].addr) # {}
    <3>1. PICK s \in lookup_addr(map, arg[t].addr) : page' =
            [p \in Pages |->
               IF p \in Fixed(arg[t].addr, s, map[s].len) THEN "zero" ELSE page[p]]
      BY <1>17, <2>1 DEF Replace
    <3>2. page' \in [Pages -> {"file", "zero", "written"}]
      BY <3>1, <1>a DEF DataTypes
    <3>3. Goto(t, "fix_addr") /\ UNCHANGED <<ROOT, guard, state, broken, arg, under>>
      BY <1>17, <2>1, NextStoreFacts DEF Replace
    <3>4. DataTypes'
      BY <3>2, <3>3, <1>a DEF DataTypes, ROOT, Once
    <3>5. ThreadTypes'
      BY <1>17, <3>3, <1>a, <1>p, HandlerMoves DEF Replace
    <3> QED
      BY <3>4, <3>5, TypeParts
  <2> QED
    BY <1>15, <1>17, <2>1 DEF Replace
<1>18. ASSUME NEW t \in Threads, StoreState(t) PROVE TypeOK'
  <2>1. PICK q \in {"err_addr", "err", "done"} : Goto(t, q)
    BY <1>18, NextStoreFacts DEF StoreState, Stores
  <2>2. ThreadTypes'
    BY <1>18, <2>1, <1>a, <1>p, HandlerMoves DEF StoreState, Stores
  <2>3. DataTypes'
    BY <1>18, <1>a, StoreFacts DEF StoreState, DataTypes, ROOT, Once, pages
  <2> QED
    BY <2>2, <2>3, TypeParts
<1>19. ASSUME NEW t \in Threads, ReturnFromHandler(t) PROVE TypeOK'
  <2>1. ThreadTypes'
    BY <1>19, <1>a, <1>p, HandlerMoves DEF ReturnFromHandler
  <2>2. DataTypes'
    BY <1>19, <1>a DEF ReturnFromHandler, DataTypes, Once, pages
  <2> QED
    BY <2>1, <2>2, TypeParts
<1>20. CASE Environment
  <2>1. /\ UNCHANGED <<ROOT, guard, state, page, pc, arg, under>>
        /\ broken' \subseteq Pages
    BY <1>20, <1>a DEF Environment, Truncate, IOError, Lengthen, DataTypes, Pages
  <2> QED
    BY <2>1 DEF TypeOK, ROOT, Once, Ordinary
<1> QED
  BY <1>1, <1>2, <1>3, <1>4, <1>5, <1>6, <1>7, <1>8, <1>9, <1>10, <1>11, <1>12, <1>d,
     <1>e, <1>f, <1>13, <1>14, <1>16, <1>17, <1>18, <1>19, <1>20 DEF Next, Step, NewWork

-----------------------------------------------------------------------------
(* What keeps each part of the invariant.  Of each pair of lemmas one is   *)
(* for the calls and one for the accesses, whose handlers leave the calls  *)
(* that they interrupt alone.                                              *)

\* No thread enters or leaves the handler's part under the lock, or dies.
SameHandlers ==
  \A u \in Threads : /\ pc'[u] \in Looking <=> pc[u] \in Looking
                     /\ pc'[u] = "dead" <=> pc[u] = "dead"

LEMMA LockPoints ==
  /\ InLock \subseteq InRoot /\ InRoot \subseteq InCall /\ InOnce \subseteq InCall
  /\ InOnce \cap InRoot = {}
  /\ Looking \subseteq InHandler /\ Stores \subseteq Looking
BY DEF InLock, InRoot, InOnce, InCall, Looking, Stores, InHandler

LEMMA LockStays ==
  ASSUME CallsStay, SameHandlers, UNCHANGED <<holder, clean>>, LockIsHeld
  PROVE  LockIsHeld'
<1>1. \A u \in Threads : CallOf(u).pc' \in InLock <=> CallOf(u).pc \in InLock
  BY LockPoints DEF CallsStay
<1> QED
  BY <1>1 DEF LockIsHeld, SameHandlers

LEMMA LockCall ==
  ASSUME NEW t \in Threads, NEW q \in InCall \cup {"idle", "error", "panicked"}, NEW a,
         CallGoes(t, q, a), pc[t] \in InCall \cup {"idle", "error", "panicked"},
         q \in InLock <=> pc[t] \in InLock,
         UNCHANGED <<holder, clean>>, LockIsHeld
  PROVE  LockIsHeld'
<1>1. \A u \in Threads : CallOf(u).pc' \in InLock <=> CallOf(u).pc \in InLock
  BY DEF CallGoes
<1>2. \A u \in Threads : /\ pc'[u] \in Looking <=> pc[u] \in Looking
                         /\ pc'[u] = "dead" <=> pc[u] = "dead"
  BY PointFacts, LockPoints DEF CallGoes
<1> QED
  BY <1>1, <1>2 DEF LockIsHeld

\* The lock is given up by a closure, or was free.
LEMMA LockFreed ==
  ASSUME NEW t \in Threads, NEW q \in InCall \cup {"idle", "error", "panicked"}, NEW a,
         CallGoes(t, q, a), q \notin InLock,
         holder' = NoTid, \A u \in Threads \ {t} : holder # u, LockIsHeld
  PROVE  LockIsHeld'
<1>1. \A u \in Threads : CallOf(u).pc' \notin InLock /\ pc'[u] \notin Looking
  BY PointFacts, LockPoints DEF LockIsHeld, CallGoes
<1> QED
  BY <1>1, MmapCatchAssumption DEF LockIsHeld

LEMMA OnceStays ==
  ASSUME CallsStay, UNCHANGED <<installed, once, written, clean, map, aborted>>, OnceIsInOrder
  PROVE  OnceIsInOrder'
<1>1. \A u \in Threads : \A p \in InCall : CallOf(u).pc' = p <=> CallOf(u).pc = p
  BY DEF CallsStay
<1>2. "flag" \in InCall /\ "create" \in InCall
  BY DEF InCall, InOnce
<1> QED
  BY <1>1, <1>2, LockPoints DEF OnceIsInOrder

LEMMA OnceCall ==
  ASSUME NEW t \in Threads, NEW q, NEW a, CallGoes(t, q, a),
         pc[t] \notin InOnce, q \notin InOnce,
         q \in InRoot => once, q \in InCall \ {"install"} => installed,
         UNCHANGED <<installed, once, written, aborted>>,
         clean' = clean \/ clean' = TRUE \/ once,
         DOMAIN map' = {} \/ DOMAIN map # {} \/ (once /\ installed),
         OnceIsInOrder
  PROVE  OnceIsInOrder'
<1>1. "flag" \in InOnce /\ "create" \in InOnce
  BY DEF InOnce
<1>2. \A u \in Threads \ {t} : CallOf(u)' = CallOf(u)
  BY DEF CallGoes
<1>3. CallOf(t).pc' = q /\ CallOf(t).pc = pc[t]
  BY DEF CallGoes
<1> QED
  BY <1>1, <1>2, <1>3 DEF OnceIsInOrder

DropPoints == {"init", "mutex", "lock", "body"}

LEMMA GuardsStay ==
  ASSUME \A u \in Threads : CallOf(u).pc' \in InCall => CallOf(u)' = CallOf(u),
         UNCHANGED <<guard, map>>, DropsAreInOrder, GuardsOwnTheirEntries
  PROVE  DropsAreInOrder' /\ GuardsOwnTheirEntries'
<1>1. DropPoints \subseteq InCall /\ "install" \in InCall
  BY DEF DropPoints, InCall, InRoot
<1>2. \A u \in Threads, r \in Regions : Dropping(u, r)' => Dropping(u, r)
  BY <1>1 DEF Dropping, DropPoints
<1>3. DropsAreInOrder'
  BY <1>1, <1>2, LockPoints DEF DropsAreInOrder
<1>4. GuardsOwnTheirEntries'
  BY <1>2 DEF GuardsOwnTheirEntries
<1> QED
  BY <1>3, <1>4

LEMMA GuardsCall ==
  ASSUME NEW t \in Threads, NEW q, NEW a, CallGoes(t, q, a),
         q \in {"install"} \cup InOnce => a.op = "register",
         \/ q \notin DropPoints
         \/ \A r \in Regions : a \notin [op : Drops, region : {r}]
         \/ a = arg[t] /\ pc[t] \in DropPoints,
         UNCHANGED <<guard, map>>, DropsAreInOrder, GuardsOwnTheirEntries
  PROVE  DropsAreInOrder' /\ GuardsOwnTheirEntries'
<1>1. \A u \in Threads \ {t} : CallOf(u)' = CallOf(u)
  BY DEF CallGoes
<1>2. /\ CallOf(t).pc' = q /\ CallOf(t).arg' = a
      /\ CallOf(t).pc = pc[t] /\ CallOf(t).arg = arg[t]
  BY DEF CallGoes
<1>3. \A u \in Threads, r \in Regions : Dropping(u, r)' => Dropping(u, r)
  BY <1>1, <1>2 DEF Dropping, DropPoints
<1>4. DropsAreInOrder'
  BY <1>1, <1>2, <1>3 DEF DropsAreInOrder
<1>5. GuardsOwnTheirEntries'
  BY <1>3 DEF GuardsOwnTheirEntries
<1> QED
  BY <1>4, <1>5

\* Accesses go on, or end.
LEMMA AccessesStay ==
  ASSUME \A u \in Threads : pc'[u] \in {"access"} \cup InHandler =>
           pc[u] \in {"access"} \cup InHandler /\ arg'[u] = arg[u],
         UNCHANGED guard, AccessesAreGuarded
  PROVE  AccessesAreGuarded'
BY DEF AccessesAreGuarded

LEMMA AccessesCall ==
  ASSUME NEW t \in Threads, NEW q \in InCall \cup {"idle", "error", "panicked"}, NEW a,
         CallGoes(t, q, a)
  PROVE  \A u \in Threads : pc'[u] \in {"access"} \cup InHandler =>
           pc'[u] = pc[u] /\ arg'[u] = arg[u]
BY PointFacts DEF CallGoes

LEMMA StoresStay ==
  ASSUME \A u \in Threads : pc'[u] \in Stores => pc'[u] = pc[u] /\ arg'[u] = arg[u],
         \A u \in Threads : guard'[u] \subseteq guard[u],
         \A p \in Pages : page'[p] = "file" => page[p] = "file",
         UNCHANGED state, TypeOK, StoresAreInOrder
  PROVE  StoresAreInOrder'
<1>1. ASSUME NEW r \in Regions, NEW a, Replaced(r, a)
      PROVE  Replaced(r, a)'
  BY <1>1, PageFacts DEF Replaced
<1>2. ASSUME NEW r \in Regions, NEW x, Explains(r, x)
      PROVE  /\ \A a \in {x.err_addr, x.fix_addr} : a = 0 \/ Replaced(r, a)'
             /\ x.err => 0 \notin {x.err_addr, x.fix_addr}
  BY <1>1, <1>2 DEF Explains
<1>3. ASSUME NEW t \in Threads, NEW r \in guard'[t]
      PROVE  Explains(r, state[t][r.start])'
  <2>1. r \in Regions /\ Explains(r, state[t][r.start])
    BY <1>3 DEF StoresAreInOrder, TypeOK
  <2> QED
    BY <1>2, <2>1 DEF Explains, Replaced
<1>4. ASSUME NEW t \in Threads, pc'[t] \in Stores
      PROVE  /\ Replaced(arg[t].region, arg[t].addr)'
             /\ \A u \in Threads : arg[t].region \in guard'[u] =>
                  StoreFollows(t, state[u][arg[t].region.start])'
  <2>1. pc[t] \in Stores /\ pc'[t] = pc[t] /\ arg'[t] = arg[t]
    BY <1>4
  <2>2. arg[t].region \in Regions
    BY <2>1, LockPoints DEF TypeOK, Accesses
  <2>3. Replaced(arg[t].region, arg[t].addr)
        /\ \A u \in Threads : arg[t].region \in guard[u] =>
             StoreFollows(t, state[u][arg[t].region.start])
    BY <2>1 DEF StoresAreInOrder
  <2>4. Replaced(arg[t].region, arg[t].addr)'
    BY <1>1, <2>1, <2>2, <2>3 DEF Replaced
  <2>5. ASSUME NEW u \in Threads, arg[t].region \in guard'[u]
        PROVE  StoreFollows(t, state[u][arg[t].region.start])'
    BY <2>1, <2>3, <2>5 DEF StoreFollows
  <2> QED
    BY <2>4, <2>5
<1> QED
  BY <1>3, <1>4 DEF StoresAreInOrder

\* Where a root that is not clean is not poisoned.
Closing == {"body", "unlock"}

LEMMA PanicsStay ==
  ASSUME \A u \in Threads : pc'[u] = "panicked" => pc[u] = "panicked",
         CallsStay, UNCHANGED clean, PanicsAreMeant
  PROVE  PanicsAreMeant'
<1>1. "body" \in InCall /\ "unlock" \in InCall
  BY DEF InCall, InRoot
<1>2. RootIsPoisoned' => RootIsPoisoned
  BY <1>1 DEF RootIsPoisoned, CallsStay
<1>3. \A u \in Threads : CallOf(u).pc' \in InCall \cup {"error"} =>
        CallOf(u).pc \in InCall \cup {"error"} /\ CallOf(u).arg' = CallOf(u).arg
  BY DEF CallsStay
<1> QED
  BY <1>2, <1>3 DEF PanicsAreMeant

LEMMA PanicsCall ==
  ASSUME NEW t \in Threads, NEW q, NEW a, CallGoes(t, q, a),
         \/ clean' = clean /\ (pc[t] \in Closing => q \in Closing)
         \/ clean' = TRUE
         \/ q \in Closing
         \/ Panics,
         q = "panicked" => Panics,
         \/ q \notin InCall \cup {"error"} \/ a.op # "unwind" \/ Panics
         \/ a = arg[t] /\ pc[t] \in InCall,
         PanicsAreMeant
  PROVE  PanicsAreMeant'
<1>1. \A u \in Threads \ {t} : CallOf(u)' = CallOf(u) /\ pc'[u] = pc[u]
  BY DEF CallGoes
<1>2. /\ CallOf(t).pc' = q /\ CallOf(t).arg' = a /\ pc'[t] = q
      /\ CallOf(t).pc = pc[t] /\ CallOf(t).arg = arg[t]
  BY DEF CallGoes
<1>3. RootIsPoisoned' => RootIsPoisoned \/ Panics
  BY <1>1, <1>2 DEF RootIsPoisoned, Closing
<1> QED
  BY <1>1, <1>2, <1>3 DEF PanicsAreMeant

\* The parts that no call disturbs as long as it changes no guard and no page.
LEMMA CallKeeps ==
  ASSUME TypeOK, DeadTogether, AccessesAreGuarded, StoresAreInOrder,
         NEW t \in Threads, NEW q \in InCall \cup {"idle", "error", "panicked"}, NEW a,
         CallGoes(t, q, a), pc[t] \in InCall \cup {"idle", "error", "panicked"},
         UNCHANGED <<guard, state, page, aborted>>
  PROVE  DeadTogether' /\ AccessesSurvive' /\ AccessesAreGuarded' /\ StoresAreInOrder'
<1>1. \A u \in Threads : pc'[u] = "dead" <=> pc[u] = "dead"
  BY PointFacts DEF CallGoes
<1>2. aborted = "no"
  BY PointFacts DEF DeadTogether
<1>3. \A u \in Threads : pc'[u] \in {"access"} \cup InHandler =>
        pc'[u] = pc[u] /\ arg'[u] = arg[u]
  BY AccessesCall
<1>4. AccessesAreGuarded'
  BY <1>3, AccessesStay
<1>5. StoresAreInOrder'
  BY <1>3, StoresStay, LockPoints
<1> QED
  BY <1>1, <1>2, <1>4, <1>5 DEF DeadTogether, AccessesSurvive

\* The parts that no access disturbs.
LEMMA AccessKeeps ==
  ASSUME DeadTogether, OnceIsInOrder, DropsAreInOrder, GuardsOwnTheirEntries, PanicsAreMeant,
         NEW t \in Threads, pc[t] # "dead", CallsStay,
         \A u \in Threads : /\ pc'[u] = "dead" <=> pc[u] = "dead"
                            /\ pc'[u] = "panicked" => pc[u] = "panicked",
         UNCHANGED <<installed, once, written, clean, map, guard, aborted>>
  PROVE  /\ DeadTogether' /\ AccessesSurvive' /\ OnceIsInOrder'
         /\ DropsAreInOrder' /\ GuardsOwnTheirEntries' /\ PanicsAreMeant'
<1>1. DeadTogether' /\ AccessesSurvive'
  BY DEF DeadTogether, AccessesSurvive
<1>2. OnceIsInOrder'
  BY OnceStays
<1>3. DropsAreInOrder' /\ GuardsOwnTheirEntries'
  BY GuardsStay DEF CallsStay
<1>4. PanicsAreMeant'
  BY PanicsStay
<1> QED
  BY <1>1, <1>2, <1>3, <1>4

\* The end of the process, if it ends for a reason that AccessesSurvive allows.
LEMMA AbortKeeps ==
  ASSUME IInv, NEW why, why # "no", Abort(why), AccessesSurvive', TypeOK',
         GuardsOwnTheirEntries', DOMAIN map' \subseteq DOMAIN map,
         RootIsPoisoned' => Panics
  PROVE  IInv'
<1> USE DEF IInv
<1>1. /\ \A u \in Threads :
           /\ pc'[u] = "dead"
           /\ CallOf(u).pc' \in InCall \cup {"error"} => CallOf(u)' = CallOf(u)
      /\ UNCHANGED <<installed, once, written, holder, clean, guard, state, page>>
      /\ aborted' = why
  BY AbortMoves, TypeParts DEF Abort, Once, pages
<1>2. DeadTogether'
  BY <1>1 DEF DeadTogether
<1>3. LockIsHeld'
  <2>1. \A u \in Threads : CallOf(u).pc' \in InLock => CallOf(u).pc \in InLock
    BY <1>1, LockPoints
  <2> QED
    BY <1>1, <2>1, PointFacts, LockPoints DEF LockIsHeld
<1>4. OnceIsInOrder'
  <2>1. \A u \in Threads : \A p \in InCall : CallOf(u).pc' = p => CallOf(u).pc = p
    BY <1>1
  <2>2. "flag" \in InCall /\ "create" \in InCall
    BY DEF InCall, InOnce
  <2> QED
    BY <1>1, <2>1, <2>2, LockPoints DEF OnceIsInOrder
<1>5. DropsAreInOrder'
  <2>1. DropPoints \subseteq InCall /\ "install" \in InCall
    BY DEF DropPoints, InCall, InRoot
  <2>2. \A u \in Threads, r \in Regions : Dropping(u, r)' => Dropping(u, r)
    BY <1>1, <2>1 DEF Dropping, DropPoints
  <2> QED
    BY <1>1, <2>1, <2>2, LockPoints DEF DropsAreInOrder
<1>6. AccessesAreGuarded'
  BY <1>1, PointFacts, AccessesStay
<1>7. StoresAreInOrder'
  BY <1>1, PointFacts, LockPoints, StoresStay
<1>8. PanicsAreMeant'
  <2>1. \A u \in Threads :
          /\ pc'[u] # "panicked"
          /\ CallOf(u).pc' \in InCall \cup {"error"} => CallOf(u)' = CallOf(u)
    BY <1>1
  <2>2. \A u \in Threads : CallOf(u).pc' \in InCall \cup {"error"} =>
          CallOf(u).pc \in InCall \cup {"error"} /\ CallOf(u).arg' = CallOf(u).arg
    BY <2>1
  <2> QED
    BY <2>1, <2>2 DEF PanicsAreMeant
<1> QED
  BY <1>2, <1>3, <1>4, <1>5, <1>6, <1>7, <1>8

\* Who is in the handler, or under ROOT's lock, is alone there.
LEMMA LockExcludes ==
  ASSUME LockIsHeld, NEW t \in Threads,
         CallOf(t).pc \in InLock \/ pc[t] \in Looking
  PROVE  /\ holder = t
         /\ \A u \in Threads \ {t} : CallOf(u).pc \notin InLock /\ pc[u] \notin Looking
BY DEF LockIsHeld

\* Who accesses a mapping finds ROOT initialised and the entry.
LEMMA AccessFinds ==
  ASSUME TypeOK, AccessesAreGuarded, GuardsOwnTheirEntries, OnceIsInOrder,
         NEW t \in Threads, pc[t] \in {"access"} \cup InHandler
  PROVE  /\ installed /\ once /\ arg[t].region \in Regions
         /\ arg[t].addr \in Bytes(arg[t].region.start, arg[t].region.len)
         /\ lookup_addr(map, arg[t].addr) = {arg[t].region.start}
         /\ map[arg[t].region.start].len = arg[t].region.len
         /\ arg[t].region \in guard[map[arg[t].region.start].owner]
         /\ map[arg[t].region.start].owner \in Threads
         /\ \A u \in Threads : arg[t].region \in guard[u] =>
              u = map[arg[t].region.start].owner
<1>1. PICK u \in Threads : arg[t].region \in guard[u]
  BY DEF AccessesAreGuarded
<1>2. arg[t].addr \in Bytes(arg[t].region.start, arg[t].region.len)
  BY DEF AccessesAreGuarded
<1>3. \A v \in Threads : arg[t].region \in guard[v] =>
        /\ arg[t].region \in Regions /\ arg[t].region.start \in DOMAIN map
        /\ map[arg[t].region.start].len = arg[t].region.len
        /\ map[arg[t].region.start].owner = v
        /\ lookup_addr(map, arg[t].addr) = {arg[t].region.start}
  BY <1>2, Found
<1>4. installed /\ once
  BY <1>1, <1>3 DEF OnceIsInOrder
<1> QED
  BY <1>1, <1>2, <1>3, <1>4

LEMMA InitInv == Init => IInv
<1> SUFFICES ASSUME Init PROVE IInv
  OBVIOUS
<1>1. TypeOK
  BY InitType
<1>2. /\ \A t \in Threads : /\ pc[t] = "idle" /\ CallOf(t).pc = "idle" /\ guard[t] = {}
      /\ DOMAIN map = {} /\ holder = NoTid /\ ~once /\ ~written /\ aborted = "no"
  BY DEF Init, CallOf, Ordinary
<1>3. "idle" \notin InCall \cup InOnce \cup InRoot \cup InLock \cup InHandler \cup Looking \cup Stores
  BY PointFacts, LockPoints
<1>4. DeadTogether /\ AccessesSurvive
  BY <1>2 DEF DeadTogether, AccessesSurvive
<1>5. LockIsHeld /\ PanicsAreMeant
  <2>1. clean
    BY DEF Init
  <2> QED
    BY <1>2, <1>3, <2>1, MmapCatchAssumption DEF LockIsHeld, PanicsAreMeant, RootIsPoisoned
<1>6. OnceIsInOrder
  BY <1>2, <1>3 DEF OnceIsInOrder, Init
<1>7. DropsAreInOrder /\ GuardsOwnTheirEntries
  <2>1. \A t \in Threads, r \in Regions : ~Dropping(t, r)
    BY <1>2 DEF Dropping
  <2>2. "idle" # "install"
    OBVIOUS
  <2> QED
    BY <1>2, <1>3, <2>1, <2>2 DEF DropsAreInOrder, GuardsOwnTheirEntries
<1>8. AccessesAreGuarded /\ StoresAreInOrder
  BY <1>2, <1>3 DEF AccessesAreGuarded, StoresAreInOrder
<1> QED
  BY <1>1, <1>4, <1>5, <1>6, <1>7, <1>8 DEF IInv

\* A closure that panics, or a refusal of a poisoned root.
LEMMA PanicKeeps ==
  ASSUME IInv, TypeOK', NEW t \in Threads, pc[t] \in {"body", "poisoned"}, Panic(t), Panics,
         UNCHANGED map \/ (pc[t] = "body" /\ (Insert(t) \/ Remove(t)))
  PROVE  IInv'
<1> USE DEF IInv
<1> DEFINE r == arg[t].region
<1>1. /\ "body" \in InCall /\ "poisoned" \in InCall /\ "body" \in InLock /\ "poisoned" \in InLock
      /\ "body" \notin InOnce /\ "poisoned" \notin InOnce
      /\ "panicked" \notin InCall \cup InLock \cup InOnce \cup InRoot \cup DropPoints
      /\ "dead" \notin InCall /\ DropPoints \subseteq InCall
  BY DEF InCall, InOnce, InRoot, InLock, InHandler, Stores, DropPoints
<1>2. /\ arg[t] \in Calls /\ ThreadTypes
      /\ CallOf(t).pc = pc[t] /\ CallOf(t).arg = arg[t] /\ Ordinary(t)
  BY <1>1, OrdinaryCalls, TypeParts DEF TypeOK
<1>3. /\ ThreadTypes'
      /\ UNCHANGED <<installed, once, written, clean, guard, state, page, broken, under>>
      /\ \/ /\ CallGoes(t, "panicked", <<>>)
            /\ holder' = NoTid /\ aborted' = aborted
         \/ arg[t].op = "unwind" /\ Abort("panic while unwinding")
  BY <1>1, <1>2, PanicMoves
<1>4. \A u \in Threads : CallOf(u).pc' \in InCall => u # t /\ CallOf(u)' = CallOf(u)
  <2>1. CASE CallGoes(t, "panicked", <<>>)
    BY <2>1, <1>1 DEF CallGoes
  <2>2. CASE Abort("panic while unwinding")
    <3>1. \A u \in Threads :
            pc'[u] = "dead" /\ (CallOf(u).pc' \in InCall => CallOf(u)' = CallOf(u))
      BY <2>2, <1>2, AbortMoves DEF Abort
    <3>2. CallOf(t).pc' = "dead"
      BY <1>2, <1>3, <3>1 DEF CallOf, Ordinary
    <3> QED
      BY <1>1, <3>1, <3>2
  <2> QED
    BY <1>3, <2>1, <2>2
<1>5. \A u \in Threads, q \in Regions : Dropping(u, q)' => u # t /\ Dropping(u, q)
  BY <1>1, <1>4 DEF Dropping, DropPoints
<1>6. GuardsOwnTheirEntries'
  <2>1. ASSUME NEW u \in Threads, NEW q \in Regions,
               q \in guard[u] \/ (u # t /\ Dropping(u, q))
        PROVE  q.start \in DOMAIN map' /\ map'[q.start] = [len |-> q.len, owner |-> u]
    <3>1. q.start \in DOMAIN map /\ map[q.start] = [len |-> q.len, owner |-> u]
      BY <2>1 DEF GuardsOwnTheirEntries
    <3>2. CASE UNCHANGED map
      BY <3>1, <3>2
    <3>3. CASE Insert(t)
      BY <1>2, <3>1, <3>3, InsertFacts
    <3>4. CASE pc[t] = "body" /\ Remove(t)
      <4>1. /\ r \in Regions /\ arg[t] \in [op : Drops, region : {r}]
            /\ DOMAIN map' = DOMAIN map \ {r.start}
            /\ \A s \in DOMAIN map' : map'[s] = map[s]
        BY <1>2, <3>4, RemoveFacts
      <4>2. Dropping(t, r)
        BY <1>2, <3>4, <4>1 DEF Dropping
      <4>3. r \notin guard[t] /\ map[r.start] = [len |-> r.len, owner |-> t]
        BY <4>1, <4>2 DEF DropsAreInOrder, GuardsOwnTheirEntries
      <4>4. q.start # r.start
        <5>1. ASSUME q.start = r.start PROVE FALSE
          <6>1. q = r
            BY <4>1, <5>1, RegionsStartApart
          <6>2. map[q.start].owner = u /\ map[r.start].owner = t
            BY <3>1, <4>3
          <6> QED
            BY <2>1, <4>3, <5>1, <6>1, <6>2
        <5> QED
          BY <5>1
      <4> QED
        BY <3>1, <4>1, <4>4
    <3> QED
      BY <3>2, <3>3, <3>4
  <2> QED
    BY <1>3, <1>5, <2>1 DEF GuardsOwnTheirEntries
<1>7. once /\ installed /\ ~clean /\ holder = t
      /\ \A u \in Threads \ {t} : CallOf(u).pc \notin InLock
  <2>1. CallOf(t).pc \in InRoot /\ CallOf(t).pc \in InCall \ {"install"} /\ CallOf(t).pc \in InLock
    BY <1>1, <1>2, LockPoints DEF InRoot
  <2> QED
    BY <2>1, LockExcludes DEF OnceIsInOrder, LockIsHeld
<1>8. CASE CallGoes(t, "panicked", <<>>) /\ holder' = NoTid /\ aborted' = aborted
  <2>1. DeadTogether' /\ AccessesSurvive' /\ AccessesAreGuarded' /\ StoresAreInOrder'
    BY <1>1, <1>3, <1>8, CallKeeps
  <2>2. LockIsHeld'
    BY <1>1, <1>7, <1>8, LockFreed
  <2>3. OnceIsInOrder'
    BY <1>1, <1>3, <1>7, <1>8, OnceCall
  <2>4. DropsAreInOrder'
    <3>1. "install" \in InCall
      BY DEF InCall
    <3> QED
      BY <1>3, <1>4, <1>5, <3>1, LockPoints DEF DropsAreInOrder
  <2>5. PanicsAreMeant'
    BY <1>1, <1>8, PanicsCall
  <2> QED
    BY <1>6, <2>1, <2>2, <2>3, <2>4, <2>5
<1>9. CASE arg[t].op = "unwind" /\ Abort("panic while unwinding")
  <2>1. UNCHANGED map \/ Remove(t)
    BY <1>9 DEF Insert
  <2>2. DOMAIN map' \subseteq DOMAIN map
    BY <1>2, <2>1, RemoveFacts
  <2>3. /\ aborted' = "panic while unwinding" /\ arg' = arg
        /\ \A u \in Threads : pc'[u] = "dead"
    BY <1>9 DEF Abort
  <2>4. RootIsPoisoned'
    <3>1. ASSUME NEW u \in Threads, CallOf(u).pc' \in {"body", "unlock"} PROVE FALSE
      <4>1. CallOf(u).pc' \in InCall /\ CallOf(u).pc' \in InLock
        BY <3>1 DEF InCall, InRoot, InLock
      <4> QED
        BY <1>4, <1>7, <4>1
    <3> QED
      BY <1>3, <1>7, <3>1 DEF RootIsPoisoned
  <2>5. AccessesSurvive'
    BY <1>2, <1>9, <2>3, <2>4 DEF AccessesSurvive
  <2> QED
    BY <1>6, <1>9, <2>2, <2>5, AbortKeeps
<1> QED
  BY <1>3, <1>8, <1>9

LEMMA InvStep ==
  ASSUME IInv, [Next]_vars
  PROVE  IInv'
<1> USE DEF IInv
<1>t. TypeOK' /\ DataTypes /\ ThreadTypes
  BY TypeStep, TypeParts
<1>p. /\ \A p \in {"install", "init", "mutex", "create", "flag", "lock", "body", "unlock",
                   "poisoned"} : p \in InCall
      /\ \A p \in {"install", "init", "mutex", "lock", "body", "unlock", "poisoned"} :
           p \notin InOnce
      /\ \A p \in {"install", "init", "mutex", "create", "flag"} : p \notin InRoot
      /\ \A p \in {"lock", "body", "unlock", "poisoned"} : p \in InRoot
      /\ \A p \in {"idle", "error", "panicked"} : p \notin InCall \cup InHandler
      /\ \A p \in {"idle", "error", "panicked", "install", "init", "mutex", "create",
                   "flag", "lock"} : p \notin InLock
      /\ \A p \in {"sigbus", "lookup", "fix_addr", "err_addr", "err", "done"} :
           p \in InHandler
      /\ "create" \in InOnce /\ "flag" \in InOnce
      /\ \A p \in {"body", "unlock", "poisoned"} : p \in InLock
      /\ Closing \cup DropPoints \subseteq InCall /\ DropPoints \cap InOnce = {}
      /\ \A p \in {"install", "create", "flag", "unlock", "poisoned"} : p \notin DropPoints
      /\ \A p \in {"init", "mutex", "lock", "body"} : p \in DropPoints
      /\ \A p \in {"body", "unlock"} : p \in Closing
      /\ Closing \subseteq InLock
  BY DEF InCall, InOnce, InRoot, InHandler, Stores, InLock, Closing, DropPoints
<1>a. \A t \in Threads : /\ pc[t] \in InCall \cup {"error"} => arg[t] \in Calls
                         /\ pc[t] \in InCall => CallOf(t).pc = pc[t] /\ CallOf(t).arg = arg[t]
  BY <1>t, OrdinaryCalls DEF ThreadTypes
<1>1. ASSUME UNCHANGED vars \/ Environment PROVE IInv'
  <2>1. UNCHANGED <<installed, once, written, holder, clean, map, guard, state, page,
                    pc, arg, under, aborted>>
    BY <1>1 DEF vars, Environment, Truncate, IOError, Lengthen, ROOT, Once, pages
  <2>2. CallsStay /\ SameHandlers
    BY <2>1 DEF CallsStay, SameHandlers, CallOf, Ordinary
  <2>3. DeadTogether' /\ AccessesSurvive'
    BY <2>1 DEF DeadTogether, AccessesSurvive, RootIsPoisoned, CallOf, Ordinary
  <2>4. LockIsHeld' /\ OnceIsInOrder'
    BY <2>1, <2>2, LockStays, OnceStays
  <2>5. DropsAreInOrder' /\ GuardsOwnTheirEntries'
    BY <2>1, <2>2, GuardsStay DEF CallsStay
  <2>6. AccessesAreGuarded' /\ StoresAreInOrder'
    BY <2>1, AccessesStay, StoresStay
  <2>7. PanicsAreMeant'
    BY <2>1, <2>2, PanicsStay
  <2> QED
    BY <1>t, <2>3, <2>4, <2>5, <2>6, <2>7
<1>2. ASSUME NEW t \in Threads, register_mmap(t) PROVE IInv'
  <2>1. PICK r \in Regions : arg' = [arg EXCEPT ![t] = [op |-> "register", region |-> r]]
    BY <1>2 DEF register_mmap
  <2> DEFINE a == [op |-> "register", region |-> r]
  <2>2. a \in Calls /\ a.op = "register"
    BY DEF Calls
  <2>3. CallGoes(t, "install", a) /\ pc[t] = "idle"
    BY <1>2, <2>1, <2>2, <1>t, <1>p, CallStarts DEF register_mmap
  <2>4. UNCHANGED <<installed, once, written, holder, clean, map, guard, state, page, aborted>>
    BY <1>2 DEF register_mmap, ROOT, Once, pages
  <2> HIDE DEF a
  <2>5. DeadTogether' /\ AccessesSurvive' /\ AccessesAreGuarded' /\ StoresAreInOrder'
    BY <2>3, <2>4, <1>p, CallKeeps
  <2>6. LockIsHeld'
    BY <2>3, <2>4, <1>p, LockCall
  <2>7. OnceIsInOrder'
    BY <2>3, <2>4, <1>p, LockPoints, OnceCall
  <2>8. DropsAreInOrder' /\ GuardsOwnTheirEntries'
    BY <2>2, <2>3, <2>4, <1>p, GuardsCall
  <2>9. PanicsAreMeant'
    BY <2>2, <2>3, <2>4, <1>p, PanicsCall
  <2> QED
    BY <1>t, <2>5, <2>6, <2>7, <2>8, <2>9
<1>3. ASSUME NEW t \in Threads, DropGuard(t) PROVE IInv'
  <2>1. PICK r \in guard[t], op \in Drops :
          /\ \A u \in Threads : pc[u] \in {"access"} \cup InHandler => arg[u].region # r
          /\ arg' = [arg EXCEPT ![t] = [op |-> op, region |-> r]]
          /\ guard' = [guard EXCEPT ![t] = @ \ {r}]
          /\ op = "unwind" => pc[t] = "panicked"
    BY <1>3 DEF DropGuard, Drops
  <2> DEFINE a == [op |-> op, region |-> r]
  <2>2. a \in Calls /\ r \in Regions /\ a.op = op
        /\ \A q \in Regions : a \in [op : Drops, region : {q}] => q = r
    BY <1>t DEF Calls, DataTypes, Drops
  <2>3. CallGoes(t, "init", a) /\ pc[t] \in {"idle", "panicked"}
    BY <1>3, <2>1, <2>2, <1>t, <1>p, CallStarts DEF DropGuard
  <2>4. /\ UNCHANGED <<installed, once, written, holder, clean, map, state, page, aborted>>
        /\ \A u \in Threads : guard'[u] = IF u = t THEN guard[t] \ {r} ELSE guard[u]
    BY <1>3, <2>1, <1>t DEF DropGuard, ROOT, Once, pages, DataTypes
  <2> HIDE DEF a
  <2>5. \A u \in Threads : pc'[u] = "dead" <=> pc[u] = "dead"
    BY <2>3, <1>p, PointFacts DEF CallGoes
  <2>6. DeadTogether' /\ AccessesSurvive'
    BY <2>3, <2>4, <2>5 DEF DeadTogether, AccessesSurvive
  <2>7. r.start \in DOMAIN map /\ map[r.start] = [len |-> r.len, owner |-> t]
    BY <2>2 DEF GuardsOwnTheirEntries
  <2>8. LockIsHeld'
    BY <2>3, <2>4, <1>p, LockCall
  <2>9. OnceIsInOrder'
    <3>1. installed
      BY <2>7 DEF OnceIsInOrder
    <3> QED
      BY <2>3, <2>4, <3>1, <1>p, LockPoints, OnceCall
  <2>10. \A u \in Threads \ {t} : CallOf(u)' = CallOf(u)
    BY <2>3 DEF CallGoes
  <2>11. CallOf(t).pc' = "init" /\ CallOf(t).arg' = a
    BY <2>3 DEF CallGoes
  <2>12. \A u \in Threads, q \in Regions :
           Dropping(u, q)' => (u = t /\ q = r) \/ (u # t /\ Dropping(u, q))
    BY <2>2, <2>10, <2>11 DEF Dropping
  <2>13. DropsAreInOrder'
    BY <2>4, <2>10, <2>11, <2>12, <1>p DEF DropsAreInOrder
  <2>14. GuardsOwnTheirEntries'
    BY <2>4, <2>7, <2>12 DEF GuardsOwnTheirEntries
  <2>15. \A u \in Threads : pc'[u] \in {"access"} \cup InHandler =>
           pc'[u] = pc[u] /\ arg'[u] = arg[u]
    BY <2>3, <1>p, AccessesCall
  <2>16. AccessesAreGuarded'
    <3>1. ASSUME NEW u \in Threads, NEW v \in Threads, pc[u] \in {"access"} \cup InHandler,
                 arg[u].region \in guard[v]
          PROVE  arg[u].region \in guard'[v]
      BY <2>1, <2>4, <3>1
    <3> QED
      BY <2>15, <3>1 DEF AccessesAreGuarded
  <2>17. StoresAreInOrder'
    BY <2>4, <2>15, LockPoints, StoresStay
  <2>18. PanicsAreMeant'
    <3>1. a.op = "unwind" => Panics
      BY <2>1, <2>2 DEF PanicsAreMeant
    <3> QED
      BY <2>3, <2>4, <3>1, <1>p, PanicsCall
  <2> QED
    BY <1>t, <2>6, <2>8, <2>9, <2>13, <2>14, <2>16, <2>17, <2>18
<1>4. ASSUME NEW t \in Threads, StartAccess(t) PROVE IInv'
  <2>1. /\ CallsStay
        /\ \A u \in Threads : pc'[u] = IF u = t THEN "access" ELSE pc[u]
        /\ \A u \in Threads \ {t} : arg'[u] = arg[u]
        /\ arg'[t].addr \in Bytes(arg'[t].region.start, arg'[t].region.len)
        /\ \E u \in Threads : arg'[t].region \in guard[u]
    BY <1>4, AccessStarts
  <2>2. UNCHANGED <<installed, once, written, holder, clean, map, guard, state, page, aborted>>
    BY <1>4 DEF StartAccess, ROOT, Once, pages
  <2>3. pc[t] \in InCall \cup {"idle"}
    BY <1>4 DEF StartAccess
  <2>4. SameHandlers
    BY <2>1, <2>3, PointFacts, LockPoints DEF SameHandlers
  <2>5. /\ DeadTogether' /\ AccessesSurvive' /\ OnceIsInOrder'
        /\ DropsAreInOrder' /\ GuardsOwnTheirEntries' /\ PanicsAreMeant'
    BY <2>1, <2>2, <2>3, <2>4, PointFacts, AccessKeeps DEF SameHandlers
  <2>6. LockIsHeld'
    BY <2>1, <2>2, <2>4, LockStays
  <2>7. AccessesAreGuarded'
    BY <2>1, <2>2 DEF AccessesAreGuarded
  <2>8. StoresAreInOrder'
    BY <2>1, <2>2, PointFacts, LockPoints, StoresStay
  <2> QED
    BY <1>t, <2>5, <2>6, <2>7, <2>8
<1>5. ASSUME NEW t \in Threads, install_signal_handler(t) PROVE IInv'
  <2>1. CallGoes(t, "init", arg[t]) /\ pc[t] = "install"
    BY <1>5, <1>t, <1>p, CallMoves DEF install_signal_handler
  <2>2. /\ UNCHANGED <<once, written, holder, clean, map, guard, state, page, aborted>>
        /\ installed' = TRUE
    BY <1>5 DEF install_signal_handler, pages
  <2>3. DeadTogether' /\ AccessesSurvive' /\ AccessesAreGuarded' /\ StoresAreInOrder'
    BY <2>1, <2>2, <1>p, CallKeeps
  <2>4. LockIsHeld'
    BY <2>1, <2>2, <1>p, LockCall
  <2>5. OnceIsInOrder'
    <3>1. \A u \in Threads \ {t} : CallOf(u)' = CallOf(u)
      BY <2>1 DEF CallGoes
    <3>2. CallOf(t).pc' = "init" /\ CallOf(t).pc = "install"
      BY <2>1 DEF CallGoes
    <3> QED
      BY <2>2, <3>1, <3>2, <1>p DEF OnceIsInOrder
  <2>6. DropsAreInOrder' /\ GuardsOwnTheirEntries'
    <3>1. arg[t].op = "register"
      BY <2>1, <1>p, <1>a DEF DropsAreInOrder
    <3>2. \A r \in Regions : arg[t] \notin [op : Drops, region : {r}]
      BY <3>1 DEF Drops
    <3> QED
      BY <2>1, <2>2, <3>1, <3>2, <1>p, GuardsCall
  <2>7. PanicsAreMeant'
    BY <2>1, <2>2, <1>p, PanicsCall
  <2> QED
    BY <1>t, <2>3, <2>4, <2>5, <2>6, <2>7
<1>6. ASSUME NEW t \in Threads, NEW q \in {"lock", "mutex"}, Goto(t, q),
             pc[t] \in {"init", "mutex"}, q = "lock" => once,
             UNCHANGED <<installed, once, written, holder, clean, map, guard, state, page,
                         arg, under, aborted>>
      PROVE  IInv'
  <2>1. CallGoes(t, q, arg[t])
    BY <1>6, <1>t, <1>p, CallMoves
  <2>2. DeadTogether' /\ AccessesSurvive' /\ AccessesAreGuarded' /\ StoresAreInOrder'
    BY <2>1, <1>6, <1>p, CallKeeps
  <2>3. LockIsHeld'
    BY <2>1, <1>6, <1>p, LockCall
  <2>4. installed
    BY <2>1, <1>6, <1>p DEF OnceIsInOrder, CallGoes
  <2>5. OnceIsInOrder'
    BY <2>1, <2>4, <1>6, <1>p, OnceCall
  <2>6. DropsAreInOrder' /\ GuardsOwnTheirEntries'
    BY <2>1, <1>6, <1>p, GuardsCall
  <2>7. PanicsAreMeant'
    BY <2>1, <1>6, <1>p, PanicsCall
  <2> QED
    BY <1>t, <2>2, <2>3, <2>5, <2>6, <2>7
<1>7. ASSUME NEW t \in Threads, FirstLook(t) PROVE IInv'
  <2>1. UNCHANGED <<installed, once, written, holder, clean, map, guard, state, page,
                    arg, under, aborted>>
    BY <1>7 DEF FirstLook, ROOT, Once, pages
  <2> QED
    BY <1>6, <1>7, <2>1 DEF FirstLook
<1>8. ASSUME NEW t \in Threads, SecondLook(t) PROVE IInv'
  <2>1. UNCHANGED <<installed, once, written, holder, clean, map, guard, state, page,
                    arg, under, aborted>>
    BY <1>8 DEF SecondLook, ROOT, Once, pages
  <2>2. CASE once
    BY <1>6, <1>8, <2>1, <2>2 DEF SecondLook, MustCreate
  <2>3. CASE ~once
    <3>1. CallGoes(t, "create", arg[t]) /\ pc[t] = "mutex"
      BY <1>8, <2>3, <1>t, <1>p, CallMoves DEF SecondLook, MustCreate
    <3>2. DeadTogether' /\ AccessesSurvive' /\ AccessesAreGuarded' /\ StoresAreInOrder'
      BY <3>1, <2>1, <1>p, CallKeeps
    <3>3. LockIsHeld'
      BY <3>1, <2>1, <1>p, LockCall
    <3>4. installed
      BY <3>1, <1>p DEF OnceIsInOrder, CallGoes
    <3>5. OnceIsInOrder'
      <4>1. \A u \in Threads : CallOf(u).pc \notin InOnce
        BY <1>8 DEF SecondLook
      <4>2. aborted = "no"
        BY <3>1 DEF DeadTogether
      <4>3. ~written
        BY <2>3, <4>1, <4>2, <1>p DEF OnceIsInOrder
      <4>4. \A u \in Threads \ {t} : CallOf(u)' = CallOf(u)
        BY <3>1 DEF CallGoes
      <4>5. CallOf(t).pc' = "create" /\ CallOf(t).pc = "mutex"
        BY <3>1 DEF CallGoes
      <4> QED
        BY <2>1, <2>3, <3>4, <4>1, <4>3, <4>4, <4>5, <1>p DEF OnceIsInOrder
    <3>6. DropsAreInOrder' /\ GuardsOwnTheirEntries'
      <4>1. arg[t] \in Calls /\ CallOf(t).pc = "mutex" /\ CallOf(t).arg = arg[t]
        BY <3>1, <1>a, <1>p
      <4>2. ASSUME arg[t].op # "register" PROVE FALSE
        <5>1. PICK r \in Regions : arg[t] \in [op : Drops, region : {r}]
          BY <4>1, <4>2 DEF Calls, Drops
        <5>2. Dropping(t, r)
          BY <4>1, <5>1 DEF Dropping
        <5> QED
          BY <2>3, <5>2 DEF GuardsOwnTheirEntries, OnceIsInOrder
      <4> QED
        BY <3>1, <2>1, <4>2, <1>p, GuardsCall
    <3>7. PanicsAreMeant'
      BY <3>1, <2>1, <1>p, PanicsCall
    <3> QED
      BY <1>t, <3>2, <3>3, <3>5, <3>6, <3>7
  <2> QED
    BY <2>2, <2>3
<1>9. ASSUME NEW t \in Threads, CreateRoot(t) PROVE IInv'
  <2>1. UNCHANGED <<installed, once, guard, state, page, arg, under, aborted>>
        /\ pc[t] = "create"
    BY <1>9 DEF CreateRoot, pages
  <2>2. \A q \in {"flag", "error"} : Goto(t, q) => CallGoes(t, q, arg[t])
    <3> TAKE q \in {"flag", "error"}
    <3>1. q \in InCall \cup {"error"} /\ pc[t] \in InCall
      BY <2>1, <1>p
    <3> QED
      BY <2>1, <3>1, <1>t, CallMoves
  <2>3. CallOf(t).pc = "create"
    BY <2>1, <1>t, <1>p, OrdinaryCalls
  <2>4. /\ ~once /\ ~written /\ installed /\ clean /\ CallOf(t).arg.op = "register"
        /\ \A u \in Threads \ {t} : CallOf(u).pc \notin InOnce
        /\ \A u \in Threads : CallOf(u).pc \notin InRoot
    BY <2>3, <1>p, <1>t DEF OnceIsInOrder, DropsAreInOrder, DataTypes
  <2>5. DOMAIN map = {}
    BY <2>4 DEF OnceIsInOrder
  <2>7. CASE /\ written' = TRUE /\ holder' = NoTid /\ clean' = TRUE /\ map' = <<>>
             /\ Goto(t, "flag")
    <3>1. CallGoes(t, "flag", arg[t])
      BY <2>2, <2>7
    <3>2. \A u \in Threads \ {t} : CallOf(u)' = CallOf(u)
      BY <3>1 DEF CallGoes
    <3>3. CallOf(t).pc' = "flag"
      BY <3>1 DEF CallGoes
    <3>4. DeadTogether' /\ AccessesSurvive' /\ AccessesAreGuarded' /\ StoresAreInOrder'
      BY <3>1, <2>1, <1>p, CallKeeps
    <3>5. LockIsHeld'
      <4>1. aborted = "no"
        BY <2>1 DEF DeadTogether
      <4>2. ASSUME NEW u \in Threads PROVE holder # u
        <5>1. pc[u] \notin Looking
          BY <2>4, LockPoints, AccessFinds
        <5> QED
          BY <2>4, <4>1, <5>1, LockPoints DEF LockIsHeld, DeadTogether
      <4> QED
        BY <3>1, <2>7, <4>2, <1>p, LockFreed
    <3>6. DOMAIN map' = {}
      BY <2>7
    <3>7. OnceIsInOrder'
      BY <2>1, <2>4, <2>7, <3>2, <3>3, <3>6, <1>p DEF OnceIsInOrder
    <3>8. \A u \in Threads, r \in Regions : Dropping(u, r)' => Dropping(u, r)
      BY <3>2, <3>3 DEF Dropping
    <3>9. DropsAreInOrder' /\ GuardsOwnTheirEntries'
      <4>1. CallOf(t).arg' = CallOf(t).arg
        BY <3>1 DEF CallGoes
      <4>2. \A u \in Threads, r \in Regions : r \notin guard[u] /\ ~Dropping(u, r)
        BY <2>5 DEF GuardsOwnTheirEntries
      <4> QED
        BY <2>1, <2>4, <3>2, <3>8, <4>1, <4>2 DEF DropsAreInOrder, GuardsOwnTheirEntries
    <3>10. PanicsAreMeant'
      BY <2>1, <2>7, <3>1, <1>p, PanicsCall
    <3> QED
      BY <1>t, <3>4, <3>5, <3>7, <3>9, <3>10
  <2>8. CASE Goto(t, "error") /\ UNCHANGED <<written, holder, clean, map>>
    <3>1. CallGoes(t, "error", arg[t])
      BY <2>2, <2>8
    <3>2. DeadTogether' /\ AccessesSurvive' /\ AccessesAreGuarded' /\ StoresAreInOrder'
      BY <3>1, <2>1, <1>p, CallKeeps
    <3>3. LockIsHeld'
      BY <3>1, <2>1, <2>8, <1>p, LockCall
    <3>4. OnceIsInOrder'
      <4>1. \A u \in Threads \ {t} : CallOf(u)' = CallOf(u)
        BY <3>1 DEF CallGoes
      <4>2. CallOf(t).pc' = "error" /\ "error" \notin InOnce \cup InRoot \cup InCall
        BY <3>1, <1>p, LockPoints DEF CallGoes
      <4> QED
        BY <2>1, <2>4, <2>8, <4>1, <4>2, <1>p, LockPoints DEF OnceIsInOrder
    <3>5. DropsAreInOrder' /\ GuardsOwnTheirEntries'
      BY <3>1, <2>1, <2>8, <1>p, LockPoints, GuardsCall
    <3>6. PanicsAreMeant'
      BY <2>1, <2>4, <2>8, <3>1, <1>p, PanicsCall
    <3> QED
      BY <1>t, <3>2, <3>3, <3>4, <3>5, <3>6
  <2> QED
    BY <1>9, <2>7, <2>8 DEF CreateRoot
<1>10. ASSUME NEW t \in Threads, SetFlag(t) PROVE IInv'
  <2>1. CallGoes(t, "lock", arg[t]) /\ pc[t] = "flag"
    BY <1>10, <1>t, <1>p, CallMoves DEF SetFlag
  <2>2. /\ UNCHANGED <<installed, written, holder, clean, map, guard, state, page, aborted>>
        /\ once' = TRUE
    BY <1>10 DEF SetFlag, pages
  <2>3. CallOf(t).pc = "flag" /\ CallOf(t).pc' = "lock"
    BY <2>1 DEF CallGoes
  <2>4. \A u \in Threads \ {t} : CallOf(u)' = CallOf(u)
    BY <2>1 DEF CallGoes
  <2>5. DeadTogether' /\ AccessesSurvive' /\ AccessesAreGuarded' /\ StoresAreInOrder'
    BY <2>1, <2>2, <1>p, CallKeeps
  <2>6. LockIsHeld'
    BY <2>1, <2>2, <1>p, LockCall
  <2>7. /\ written /\ installed /\ ~once /\ DOMAIN map = {}
        /\ \A u \in Threads \ {t} : CallOf(u).pc \notin InOnce
    BY <2>3, <1>p DEF OnceIsInOrder
  <2>8. OnceIsInOrder'
    BY <2>2, <2>3, <2>4, <2>7, <1>p DEF OnceIsInOrder
  <2>9. \A r \in Regions : arg[t] \notin [op : Drops, region : {r}]
    <3>1. arg[t].op = "register"
      BY <2>1, <2>3, <1>p DEF DropsAreInOrder, CallGoes
    <3> QED
      BY <3>1 DEF Drops
  <2>10. DropsAreInOrder' /\ GuardsOwnTheirEntries'
    BY <2>1, <2>2, <2>9, <1>p, GuardsCall
  <2>11. PanicsAreMeant'
    BY <2>1, <2>2, <1>p, PanicsCall
  <2> QED
    BY <1>t, <2>5, <2>6, <2>8, <2>10, <2>11
<1>11. ASSUME NEW t \in Threads, ReturnError(t) PROVE IInv'
  <2>1. PICK q \in {"idle", "panicked"} :
          Finish(t, q) /\ (q = "panicked" => arg[t].op = "unwind")
    BY <1>11 DEF ReturnError, Return
  <2>2. CallGoes(t, q, <<>>) /\ pc[t] = "error"
    BY <1>11, <2>1, <1>t, <1>p, CallEnds DEF ReturnError
  <2>3. UNCHANGED <<installed, once, written, holder, clean, map, guard, state, page, aborted>>
    BY <1>11 DEF ReturnError, ROOT, Once, pages
  <2>4. DeadTogether' /\ AccessesSurvive' /\ AccessesAreGuarded' /\ StoresAreInOrder'
    BY <2>2, <2>3, CallKeeps
  <2>5. LockIsHeld'
    BY <2>2, <2>3, <1>p, LockCall
  <2>6. OnceIsInOrder'
    BY <2>2, <2>3, <1>p, LockPoints, OnceCall
  <2>7. DropsAreInOrder' /\ GuardsOwnTheirEntries'
    BY <2>2, <2>3, <1>p, LockPoints, GuardsCall
  <2>8. PanicsAreMeant'
    <3>1. q = "panicked" => Panics
      BY <2>1, <2>2 DEF PanicsAreMeant, CallGoes
    <3> QED
      BY <2>2, <2>3, <3>1, <1>p, PanicsCall
  <2> QED
    BY <1>t, <2>4, <2>5, <2>6, <2>7, <2>8
<1>12. ASSUME NEW t \in Threads, with_root(t) PROVE IInv'
  <2>1. /\ UNCHANGED <<installed, once, written, map, guard, state, page, aborted>>
        /\ pc[t] = "lock" /\ holder = NoTid /\ holder' = t /\ clean' = FALSE
    BY <1>12 DEF with_root, Once, pages
  <2>2. \A u \in Threads : CallOf(u).pc \notin InLock /\ pc[u] \notin Looking
    BY <2>1, MmapCatchAssumption DEF LockIsHeld
  <2>3. once /\ installed
    BY <2>1, <1>a, <1>p DEF OnceIsInOrder
  <2>4. PICK q \in {"poisoned", "body"} : Goto(t, q) /\ (q = "poisoned" <=> ~clean)
    BY <1>12 DEF with_root, Poisoned
  <2>5. CallGoes(t, q, arg[t])
    BY <1>12, <2>1, <2>4, <1>t, <1>p, CallMoves DEF with_root
  <2>6. DeadTogether' /\ AccessesSurvive' /\ AccessesAreGuarded' /\ StoresAreInOrder'
    BY <2>1, <2>5, <1>p, CallKeeps
  <2>7. \A u \in Threads \ {t} : CallOf(u)' = CallOf(u) /\ pc'[u] = pc[u]
    BY <2>5 DEF CallGoes
  <2>8. CallOf(t).pc' = q /\ pc'[t] = q
    BY <2>5 DEF CallGoes
  <2>9. LockIsHeld'
    BY <2>1, <2>2, <2>7, <2>8, <1>p, PointFacts, LockPoints DEF LockIsHeld
  <2>10. OnceIsInOrder'
    BY <2>1, <2>3, <2>5, <1>p, OnceCall
  <2>11. DropsAreInOrder' /\ GuardsOwnTheirEntries'
    BY <2>1, <2>5, <1>p, GuardsCall
  <2>12. PanicsAreMeant'
    <3>1. q = "poisoned" => Panics
      BY <2>2, <2>4, <1>p DEF PanicsAreMeant, RootIsPoisoned
    <3> QED
      BY <2>1, <2>5, <3>1, <1>p, PanicsCall
  <2> QED
    BY <1>t, <2>6, <2>9, <2>10, <2>11, <2>12
<1>13. ASSUME NEW t \in Threads, InsertMapping(t) PROVE IInv'
  <2> DEFINE r == arg[t].region
  <2>1. /\ CallGoes(t, "unlock", arg[t]) /\ pc[t] = "body" /\ arg[t] \in Calls
        /\ UNCHANGED <<installed, once, written, holder, clean, page, aborted>>
    BY <1>13, <1>t, <1>p, <1>a, CallMoves DEF InsertMapping, Once, pages
  <2>2. CallOf(t).pc = "body" /\ CallOf(t).pc' = "unlock"
    BY <2>1 DEF CallGoes
  <2>3. \A u \in Threads \ {t} : CallOf(u)' = CallOf(u) /\ pc'[u] = pc[u] /\ arg'[u] = arg[u]
    BY <2>1 DEF CallGoes
  <2>4. once /\ installed
    BY <2>2, <1>p DEF OnceIsInOrder
  <2>5. LockIsHeld'
    BY <2>1, <1>p, LockCall
  <2>6. OnceIsInOrder'
    BY <2>1, <2>4, <1>p, OnceCall
  <2>7. PanicsAreMeant'
    BY <2>1, <1>p, PanicsCall
  <2>8. /\ r \in Regions /\ r.start \notin DOMAIN map /\ arg[t].op = "register"
        /\ DOMAIN map' = DOMAIN map \cup {r.start}
        /\ map'[r.start] = [len |-> r.len, owner |-> t]
        /\ \A s \in DOMAIN map : map'[s] = map[s]
    BY <1>13, <2>1, InsertFacts DEF InsertMapping
  <2>9. /\ \A u \in Threads : guard'[u] = IF u = t THEN guard[t] \cup {r} ELSE guard[u]
        /\ state' = [state EXCEPT ![t][r.start] = NewState]
    BY <1>13, <1>t DEF InsertMapping, DataTypes
  <2>10. /\ state'[t][r.start] = NewState
         /\ \A u \in Threads, x \in Starts :
              u # t \/ x # r.start => state'[u][x] = state[u][x]
    <3>1. state \in [Threads -> [Starts -> States]]
      BY DEF TypeOK
    <3>2. r \in Regions /\ state' = [state EXCEPT ![t][r.start] = NewState]
      BY <2>8, <2>9
    <3> HIDE DEF r
    <3>3. state'[t][r.start] = NewState
      BY <3>1, <3>2, StateRenewed
    <3>4. \A u \in Threads, x \in Starts :
            u # t \/ x # r.start => state'[u][x] = state[u][x]
      BY <3>1, <3>2, StateRenewed
    <3> QED
      BY <3>3, <3>4
  <2> HIDE DEF r
  <2>11. \A u \in Threads : pc'[u] = "dead" <=> pc[u] = "dead"
    BY <2>1, <2>3, PointFacts DEF CallGoes
  <2>12. DeadTogether' /\ AccessesSurvive'
    BY <2>1, <2>11 DEF DeadTogether, AccessesSurvive
  <2>13. \A u \in Threads, q \in Regions : Dropping(u, q)' => u # t /\ Dropping(u, q)
    BY <2>2, <2>3 DEF Dropping
  <2>14. DropsAreInOrder'
    BY <2>2, <2>3, <2>9, <2>13, <1>p DEF DropsAreInOrder
  <2>15. GuardsOwnTheirEntries'
    <3>1. ASSUME NEW u \in Threads, NEW q \in Regions, q \in guard[u] \/ Dropping(u, q)
          PROVE  q.start \in DOMAIN map' /\ map'[q.start] = [len |-> q.len, owner |-> u]
      BY <2>8, <3>1 DEF GuardsOwnTheirEntries
    <3> QED
      BY <2>8, <2>9, <2>13, <3>1 DEF GuardsOwnTheirEntries
  <2>16. \A u \in Threads : pc'[u] \in {"access"} \cup InHandler =>
           pc'[u] = pc[u] /\ arg'[u] = arg[u]
    BY <2>1, <1>p, AccessesCall
  <2>17. AccessesAreGuarded'
    <3>1. \A u \in Threads : guard[u] \subseteq guard'[u]
      BY <2>9
    <3> QED
      BY <2>16, <3>1 DEF AccessesAreGuarded
  <2>18. StoresAreInOrder'
    <3>1. \A u \in Threads : pc'[u] \notin Stores
      <4>1. pc'[t] = "unlock"
        BY <2>1 DEF CallGoes
      <4>2. \A u \in Threads \ {t} : pc[u] \notin Looking
        BY <2>2, <1>p, LockExcludes
      <4> QED
        BY <2>3, <4>1, <4>2, <1>p, PointFacts, LockPoints
    <3>2. \A q, x : Replaced(q, x)' <=> Replaced(q, x)
      BY <2>1 DEF Replaced
    <3>3. /\ NewState.err = FALSE /\ NewState.err_addr = 0 /\ NewState.fix_addr = 0
      BY DEF NewState
    <3>4. ASSUME NEW u \in Threads, NEW q \in guard'[u]
          PROVE  Explains(q, state'[u][q.start])
      <4>1. CASE u = t /\ q = r
        BY <2>10, <3>3, <4>1 DEF Explains
      <4>2. CASE ~(u = t /\ q = r)
        <5>1. q \in guard[u] /\ q \in Regions
          BY <2>9, <3>4, <4>2, <1>t DEF DataTypes
        <5>2. q.start \in DOMAIN map /\ q.start \in Starts
          BY <5>1 DEF GuardsOwnTheirEntries, Starts
        <5>3. state'[u][q.start] = state[u][q.start]
          BY <2>8, <2>10, <5>2
        <5> QED
          BY <5>1, <5>3 DEF StoresAreInOrder
      <4> QED
        BY <4>1, <4>2
    <3>5. ASSUME NEW u \in Threads, NEW q \in guard'[u]
          PROVE  Explains(q, state[u][q.start])'
      BY <3>2, <3>4, <3>5 DEF Explains
    <3> QED
      BY <3>1, <3>5 DEF StoresAreInOrder
  <2> QED
    BY <1>t, <2>5, <2>6, <2>7, <2>12, <2>14, <2>15, <2>17, <2>18
<1>14. ASSUME NEW t \in Threads, RefuseOverlap(t) PROVE IInv'
  <2>1. /\ CallGoes(t, "unlock", arg[t]) /\ pc[t] = "body"
        /\ UNCHANGED <<installed, once, written, holder, clean, map, guard, state, page, aborted>>
    BY <1>14, <1>t, <1>p, CallMoves DEF RefuseOverlap, ROOT, Once, pages
  <2>2. once /\ installed
    BY <2>1, <1>a, <1>p DEF OnceIsInOrder
  <2>3. DeadTogether' /\ AccessesSurvive' /\ AccessesAreGuarded' /\ StoresAreInOrder'
    BY <2>1, <1>p, CallKeeps
  <2>4. LockIsHeld' /\ OnceIsInOrder'
    BY <2>1, <2>2, <1>p, LockCall, OnceCall
  <2>5. DropsAreInOrder' /\ GuardsOwnTheirEntries'
    BY <2>1, <1>p, GuardsCall
  <2>6. PanicsAreMeant'
    BY <2>1, <1>p, PanicsCall
  <2> QED
    BY <1>t, <2>3, <2>4, <2>5, <2>6
<1>15. ASSUME NEW t \in Threads, RemoveMapping(t) PROVE IInv'
  <2> DEFINE r == arg[t].region
  <2>1. pc[t] = "body" /\ arg[t] \in Calls
    BY <1>15, <1>a, <1>p DEF RemoveMapping
  <2>2. /\ r \in Regions /\ arg[t] \in [op : Drops, region : {r}]
        /\ DOMAIN map' = DOMAIN map \ {r.start}
        /\ \A s \in DOMAIN map' : map'[s] = map[s]
    BY <1>15, <2>1, RemoveFacts DEF RemoveMapping
  <2>3. CallOf(t).pc = "body" /\ CallOf(t).arg = arg[t]
    BY <2>1, <1>a, <1>p
  <2>4. Dropping(t, r)
    BY <2>2, <2>3 DEF Dropping
  <2>5. /\ r.start \in DOMAIN map /\ map[r.start] = [len |-> r.len, owner |-> t]
        /\ r \notin guard[t]
    BY <2>2, <2>4 DEF GuardsOwnTheirEntries, DropsAreInOrder
  <2>6. map[r.start].owner = t
    BY <2>5
  <2>7. /\ Goto(t, "unlock")
        /\ UNCHANGED <<installed, once, written, holder, clean, guard, page,
                       arg, under, aborted>>
        /\ state' = [state EXCEPT ![t][r.start] = NewState]
    BY <1>15, <2>5, <2>6 DEF RemoveMapping, Once, pages
  <2>8. \A u \in Threads, x \in Starts : u # t \/ x # r.start => state'[u][x] = state[u][x]
    BY <2>2, <2>7, <1>t, StateRenewed DEF DataTypes
  <2> HIDE DEF r
  <2>9. CallGoes(t, "unlock", arg[t])
    BY <2>1, <2>7, <1>t, <1>p, CallMoves
  <2>10. once /\ installed
    BY <2>3, <1>p DEF OnceIsInOrder
  <2>11. \A u \in Threads \ {t} : CallOf(u)' = CallOf(u) /\ pc'[u] = pc[u] /\ arg'[u] = arg[u]
    BY <2>9 DEF CallGoes
  <2>12. CallOf(t).pc' = "unlock" /\ pc'[t] = "unlock" /\ CallOf(t).arg' = CallOf(t).arg
    BY <2>9 DEF CallGoes
  <2>13. \A u \in Threads : pc'[u] = "dead" <=> pc[u] = "dead"
    BY <2>1, <2>9, PointFacts DEF CallGoes
  <2>14. DeadTogether' /\ AccessesSurvive'
    BY <2>1, <2>7, <2>13 DEF DeadTogether, AccessesSurvive
  <2>15. LockIsHeld' /\ OnceIsInOrder'
    BY <2>1, <2>2, <2>7, <2>9, <2>10, <1>p, LockCall, OnceCall
  <2>16. \A u \in Threads, q \in Regions : Dropping(u, q)' => u # t /\ Dropping(u, q)
    BY <2>11, <2>12 DEF Dropping
  <2>17. DropsAreInOrder'
    BY <2>7, <2>11, <2>12, <2>16, <1>p DEF DropsAreInOrder
  <2>18. ASSUME NEW u \in Threads, NEW q \in Regions, u # t \/ q # r
         PROVE  q.start # r.start \/ map[r.start].owner # u
    BY <2>2, <2>6, <2>18, RegionsStartApart
  <2>19. ASSUME NEW u \in Threads, NEW q \in Regions,
                q \in guard[u] \/ (u # t /\ Dropping(u, q))
         PROVE  /\ q.start \in DOMAIN map' /\ map'[q.start] = [len |-> q.len, owner |-> u]
                /\ q.start # r.start
    <3>1. q.start \in DOMAIN map /\ map[q.start] = [len |-> q.len, owner |-> u]
      BY <2>19 DEF GuardsOwnTheirEntries
    <3>2. map[q.start].owner = u
      BY <3>1
    <3>3. u # t \/ q # r
      BY <2>5, <2>19
    <3>4. q.start # r.start
      BY <2>18, <3>2, <3>3
    <3> QED
      BY <2>2, <3>1, <3>4
  <2>20. GuardsOwnTheirEntries'
    BY <2>7, <2>16, <2>19 DEF GuardsOwnTheirEntries
  <2>21. \A u \in Threads : pc'[u] \in {"access"} \cup InHandler =>
           pc'[u] = pc[u] /\ arg'[u] = arg[u]
    BY <2>9, <1>p, AccessesCall
  <2>22. AccessesAreGuarded'
    BY <2>7, <2>21, AccessesStay
  <2>23. StoresAreInOrder'
    <3>1. \A u \in Threads : pc'[u] \notin Stores
      <4>1. \A u \in Threads \ {t} : pc[u] \notin Looking
        BY <2>3, <1>p, LockExcludes
      <4> QED
        BY <2>11, <2>12, <4>1, <1>p, PointFacts, LockPoints
    <3>2. \A q, x : Replaced(q, x)' <=> Replaced(q, x)
      BY <2>7 DEF Replaced
    <3>3. ASSUME NEW u \in Threads, NEW q \in guard[u]
          PROVE  Explains(q, state'[u][q.start])
      <4>1. q \in Regions /\ q.start \in Starts
        BY <1>t DEF DataTypes, Starts
      <4>2. state'[u][q.start] = state[u][q.start]
        BY <2>8, <2>19, <4>1
      <4> QED
        BY <4>2 DEF StoresAreInOrder
    <3>4. ASSUME NEW u \in Threads, NEW q \in guard'[u]
          PROVE  Explains(q, state[u][q.start])'
      BY <2>7, <3>2, <3>3, <3>4 DEF Explains
    <3> QED
      BY <3>1, <3>4 DEF StoresAreInOrder
  <2>24. PanicsAreMeant'
    BY <2>1, <2>7, <2>9, <1>p, PanicsCall
  <2> QED
    BY <1>t, <2>14, <2>15, <2>17, <2>20, <2>22, <2>23, <2>24
<1>16. ASSUME NEW t \in Threads, ClosurePanics(t) \/ RefusePoisoned(t) PROVE IInv'
  <2>1. CASE ClosurePanics(t)
    BY <2>1, <1>t, PanicKeeps DEF ClosurePanics
  <2>2. CASE RefusePoisoned(t)
    <3>1. pc[t] = "poisoned" /\ Panic(t) /\ UNCHANGED map
      BY <2>2 DEF RefusePoisoned
    <3>2. CallOf(t).pc = "poisoned"
      BY <3>1, <1>a, <1>p
    <3>3. /\ ~clean
          /\ \A u \in Threads \ {t} : CallOf(u).pc \notin InLock
      BY <3>2, <1>p, LockExcludes DEF LockIsHeld
    <3>4. RootIsPoisoned
      BY <3>2, <3>3, <1>p DEF RootIsPoisoned
    <3> QED
      BY <3>1, <3>4, <1>t, PanicKeeps DEF PanicsAreMeant
  <2> QED
    BY <1>16, <2>1, <2>2
<1>u. ASSUME NEW t \in Threads, ProgramPanics(t) \/ Caught(t) PROVE IInv'
  <2>1. PICK q \in {"idle", "panicked"} : Goto(t, q) /\ (q = "panicked" => Panics)
    BY <1>u DEF ProgramPanics, Caught
  <2>2. CallGoes(t, q, arg[t]) /\ pc[t] \in {"idle", "panicked"}
    BY <1>u, <2>1, <1>t, Unwinds DEF ProgramPanics, Caught
  <2>3. UNCHANGED <<installed, once, written, holder, clean, map, guard, state, page, aborted>>
    BY <1>u DEF ProgramPanics, Caught, ROOT, Once, pages
  <2>4. DeadTogether' /\ AccessesSurvive' /\ AccessesAreGuarded' /\ StoresAreInOrder'
    BY <2>2, <2>3, CallKeeps
  <2>5. LockIsHeld' /\ OnceIsInOrder'
    BY <2>2, <2>3, <1>p, LockPoints, LockCall, OnceCall
  <2>6. DropsAreInOrder' /\ GuardsOwnTheirEntries'
    BY <2>2, <2>3, <1>p, LockPoints, GuardsCall
  <2>7. PanicsAreMeant'
    BY <2>1, <2>2, <2>3, <1>p, PanicsCall
  <2> QED
    BY <1>t, <2>4, <2>5, <2>6, <2>7
<1>17. ASSUME NEW t \in Threads, Unlock(t) PROVE IInv'
  <2>1. PICK q \in {"idle", "panicked"} :
          Finish(t, q) /\ (q = "panicked" => arg[t].op = "unwind")
    BY <1>17 DEF Unlock, Return
  <2>2. /\ CallGoes(t, q, <<>>) /\ pc[t] = "unlock" /\ holder' = NoTid /\ clean' = TRUE
        /\ UNCHANGED <<installed, once, written, map, guard, state, page, aborted>>
    BY <1>17, <2>1, <1>t, <1>p, CallEnds DEF Unlock, Once, pages
  <2>3. CallOf(t).pc = "unlock" /\ CallOf(t).arg = arg[t]
    BY <2>2, <1>a, <1>p
  <2>4. holder = t /\ once
    BY <2>3, <1>p DEF LockIsHeld, OnceIsInOrder
  <2>5. DeadTogether' /\ AccessesSurvive' /\ AccessesAreGuarded' /\ StoresAreInOrder'
    BY <2>2, <1>p, CallKeeps
  <2>6. LockIsHeld'
    BY <2>2, <2>4, <1>p, LockFreed
  <2>7. OnceIsInOrder'
    BY <2>2, <1>p, LockPoints, OnceCall
  <2>8. DropsAreInOrder' /\ GuardsOwnTheirEntries'
    BY <2>2, <1>p, LockPoints, GuardsCall
  <2>9. PanicsAreMeant'
    <3>1. q = "panicked" => Panics
      BY <2>1, <2>3, <1>p DEF PanicsAreMeant
    <3> QED
      BY <2>2, <3>1, <1>p, PanicsCall
  <2> QED
    BY <1>t, <2>5, <2>6, <2>7, <2>8, <2>9
<1>18. ASSUME NEW t \in Threads, Access(t) PROVE IInv'
  <2>1. /\ UNCHANGED <<installed, once, written, holder, clean, map, guard, state, aborted>>
        /\ pc[t] = "access"
    BY <1>18 DEF Access, ROOT, Once
  <2>2. \A p \in Pages : page'[p] = "file" => page[p] = "file"
    BY <1>18, <1>t DEF Access, DataTypes
  <2>3. /\ CallsStay
        /\ pc'[t] \in {"idle", "sigbus"} \cup InCall
        /\ \A u \in Threads \ {t} : pc'[u] = pc[u] /\ arg'[u] = arg[u]
        /\ pc'[t] = "sigbus" => arg'[t] = arg[t]
    <3>1. CASE EndAccess(t)
      BY <3>1, <2>1, <1>t, <1>p, PointFacts, AccessEnds
    <3>2. CASE Goto(t, "sigbus") /\ UNCHANGED <<arg, under>>
      BY <3>2, <2>1, <1>t, <1>p, HandlerMoves
    <3> QED
      BY <1>18, <3>1, <3>2 DEF Access
  <2>4. SameHandlers /\ pc'[t] \notin {"dead", "panicked"} \cup Stores
    <3>1. "sigbus" \notin Looking /\ "sigbus" \notin {"dead", "panicked"}
      BY DEF Looking, Stores
    <3> QED
      BY <2>1, <2>3, <3>1, PointFacts, LockPoints DEF SameHandlers
  <2>5. /\ DeadTogether' /\ AccessesSurvive' /\ OnceIsInOrder'
        /\ DropsAreInOrder' /\ GuardsOwnTheirEntries' /\ PanicsAreMeant'
    BY <2>1, <2>3, <2>4, AccessKeeps DEF SameHandlers
  <2>6. LockIsHeld'
    BY <2>1, <2>3, <2>4, LockStays
  <2>7. AccessesAreGuarded'
    BY <2>1, <2>3, PointFacts, AccessesStay
  <2>8. StoresAreInOrder'
    BY <2>1, <2>2, <2>3, <2>4, StoresStay
  <2> QED
    BY <1>t, <2>5, <2>6, <2>7, <2>8
<1>19. ASSUME NEW t \in Threads, handle_sigbus(t) PROVE IInv'
  <2>1. pc[t] = "sigbus" /\ installed /\ once
    BY <1>19, <1>p, AccessFinds DEF handle_sigbus
  <2>2. "sigbus" \notin Looking \cup InLock \cup {"dead", "panicked"}
    BY DEF Looking, Stores, InLock
  <2>3. CASE holder = t
    <3>1. Abort("recursive sigbus")
      BY <1>19, <2>1, <2>3 DEF handle_sigbus
    <3>2. CallOf(t).pc \in InLock
      BY <2>1, <2>2, <2>3 DEF LockIsHeld
    <3>3. ~Ordinary(t) /\ under[t].pc \in InLock
      BY <2>1, <2>2, <3>2 DEF CallOf
    <3>4. /\ AccessesSurvive' /\ CallOf(t)' = CallOf(t) /\ clean' = clean
          /\ UNCHANGED <<map, guard>>
      BY <1>19, <2>1, <2>3, <3>1, <3>3
      DEF handle_sigbus, AccessesSurvive, Abort, Ordinary, CallOf
    <3>5. GuardsOwnTheirEntries'
      <4>1. \A u \in Threads : CallOf(u).pc' \in InCall => CallOf(u)' = CallOf(u)
        BY <3>1, <1>t, AbortMoves DEF Abort
      <4> QED
        BY <3>4, <4>1, GuardsStay
    <3>6. RootIsPoisoned' => Panics
      <4>1. \A u \in Threads \ {t} : CallOf(u).pc \notin InLock
        BY <3>2, LockExcludes
      <4>2. RootIsPoisoned' => RootIsPoisoned
        BY <3>4, <4>1, <1>p DEF RootIsPoisoned
      <4> QED
        BY <4>2 DEF PanicsAreMeant
    <3> QED
      BY <3>1, <3>4, <3>5, <3>6, <1>t, AbortKeeps
  <2>4. CASE holder # t
    <3>1. /\ holder = NoTid /\ holder' = t /\ Goto(t, "lookup")
          /\ UNCHANGED <<installed, once, written, clean, map, guard, state, page,
                         arg, under, aborted>>
      BY <1>19, <2>1, <2>4 DEF handle_sigbus, Once, pages
    <3>2. CallsStay /\ \A u \in Threads : pc'[u] = IF u = t THEN "lookup" ELSE pc[u]
      BY <2>1, <3>1, <1>t, <1>p, HandlerMoves
    <3>3. \A u \in Threads : CallOf(u).pc \notin InLock /\ pc[u] \notin Looking
      BY <3>1, MmapCatchAssumption DEF LockIsHeld
    <3>4. /\ DeadTogether' /\ AccessesSurvive' /\ OnceIsInOrder'
          /\ DropsAreInOrder' /\ GuardsOwnTheirEntries' /\ PanicsAreMeant'
      BY <2>1, <2>2, <3>1, <3>2, AccessKeeps
    <3>5. LockIsHeld'
      <4>1. \A u \in Threads : CallOf(u).pc' \notin InLock
        BY <3>2, <3>3, LockPoints DEF CallsStay
      <4>2. "lookup" \in Looking
        BY DEF Looking
      <4> QED
        BY <3>1, <3>2, <3>3, <4>1, <4>2 DEF LockIsHeld
    <3>6. AccessesAreGuarded'
      BY <2>1, <3>1, <3>2, <1>p, AccessesStay
    <3>7. StoresAreInOrder'
      <4>1. "lookup" \notin Stores
        BY DEF Stores
      <4> QED
        BY <3>1, <3>2, <4>1, StoresStay
    <3> QED
      BY <1>t, <3>4, <3>5, <3>6, <3>7
  <2> QED
    BY <2>3, <2>4
<1>20. ASSUME NEW t \in Threads, Replace(t) PROVE IInv'
  <2>0. PICK r, addr : r = arg[t].region /\ addr = arg[t].addr
    OBVIOUS
  <2>1. pc[t] = "lookup" /\ pc[t] \in Looking
    BY <1>20 DEF Replace, Looking
  <2>2. /\ r \in Regions /\ addr \in Bytes(r.start, r.len)
        /\ lookup_addr(map, addr) = {r.start} /\ map[r.start].len = r.len
    BY <2>0, <2>1, <1>p, AccessFinds
  <2>3. /\ page' = [p \in Pages |-> IF p \in Fixed(addr, r.start, r.len) THEN "zero" ELSE page[p]]
        /\ Goto(t, "fix_addr")
        /\ UNCHANGED <<installed, once, written, holder, clean, map, guard, state,
                       arg, under, aborted>>
    BY <1>20, <2>0, <2>2, NextStoreFacts DEF Replace, ROOT, Once
  <2>4. PageOf(addr) \in Pages /\ PageOf(addr) \in Fixed(addr, r.start, r.len)
    BY <2>2, PageFacts
  <2>5. page'[PageOf(addr)] = "zero" /\ \A p \in Pages : page'[p] = "file" => page[p] = "file"
    BY <2>3, <2>4
  <2>6. CallsStay /\ \A u \in Threads : pc'[u] = IF u = t THEN "fix_addr" ELSE pc[u]
    BY <2>1, <2>3, <1>t, <1>p, HandlerMoves
  <2>7. SameHandlers /\ "fix_addr" \notin {"dead", "panicked"}
    <3>1. "fix_addr" \in Looking
      BY DEF Looking, Stores
    <3> QED
      BY <2>1, <2>6, <3>1 DEF SameHandlers
  <2>8. /\ DeadTogether' /\ AccessesSurvive' /\ OnceIsInOrder'
        /\ DropsAreInOrder' /\ GuardsOwnTheirEntries' /\ PanicsAreMeant'
    BY <2>1, <2>3, <2>6, <2>7, AccessKeeps DEF SameHandlers
  <2>9. LockIsHeld'
    BY <2>3, <2>6, <2>7, LockStays
  <2>10. AccessesAreGuarded'
    BY <2>1, <2>3, <2>6, <1>p, AccessesStay
  <2>11. StoresAreInOrder'
    <3>1. \A u \in Threads \ {t} : pc'[u] \notin Stores
      BY <2>1, <2>6, LockPoints, LockExcludes
    <3>2. ASSUME NEW q \in Regions, NEW x, Replaced(q, x)
          PROVE  Replaced(q, x)'
      BY <2>5, <3>2, PageFacts DEF Replaced
    <3>3. Replaced(r, addr)'
      BY <2>2, <2>5 DEF Replaced
    <3>4. ASSUME NEW u \in Threads, NEW q \in guard'[u]
          PROVE  Explains(q, state[u][q.start])'
      <4>1. q \in Regions /\ Explains(q, state[u][q.start])
        BY <2>3, <3>4, <1>t DEF StoresAreInOrder, DataTypes
      <4> QED
        BY <2>3, <3>2, <4>1 DEF Explains, Replaced
    <3>5. Replaced(arg[t].region, arg[t].addr)'
      BY <2>0, <2>3, <3>3
    <3>6. pc'[t] = "fix_addr"
      BY <2>6
    <3>7. \A x : StoreFollows(t, x)'
      BY <3>6 DEF StoreFollows
    <3> QED
      BY <2>3, <2>6, <3>1, <3>4, <3>5, <3>7 DEF StoresAreInOrder, StoreFollows
  <2> QED
    BY <1>t, <2>8, <2>9, <2>10, <2>11
<1>21. ASSUME NEW t \in Threads, StoreState(t) PROVE IInv'
  <2> DEFINE r == arg[t].region
           addr == arg[t].addr
           o == map[r.start].owner
           old == state[o][r.start]
           new == state'[o][r.start]
  <2>1. pc[t] \in Stores /\ pc[t] \in Looking
    BY <1>21, LockPoints DEF StoreState
  <2>2. /\ r \in Regions /\ addr \in Bytes(r.start, r.len)
        /\ lookup_addr(map, addr) = {r.start}
        /\ r \in guard[o] /\ o \in Threads /\ \A u \in Threads : r \in guard[u] => u = o
    BY <2>1, LockPoints, AccessFinds
  <2>3. /\ \A u \in Threads, x \in Starts : u # o \/ x # r.start => state'[u][x] = state[u][x]
        /\ Stored(t, old, new)
    BY <1>21, <2>2, StoreFacts
  <2>4. /\ UNCHANGED <<installed, once, written, holder, clean, map, guard, page,
                       arg, under, aborted>>
        /\ Goto(t, NextStore[pc[t]])
    BY <1>21 DEF StoreState, ROOT, Once, pages
  <2>5. /\ addr # 0 /\ PageStart(addr) # 0 /\ PageStart(addr) \in Bytes(r.start, r.len)
        /\ PageOf(PageStart(addr)) = PageOf(addr)
    BY <2>2, PageFacts
  <2>6. Replaced(r, addr) /\ StoreFollows(t, old) /\ Explains(r, old)
    BY <2>1, <2>2 DEF StoresAreInOrder
  <2>7. Replaced(r, PageStart(addr))
    BY <2>5, <2>6 DEF Replaced
  <2>8. PICK q \in {"err_addr", "err", "done"} :
          q = NextStore[pc[t]] /\ (q = "err_addr" <=> pc[t] = "fix_addr")
          /\ (q = "err" <=> pc[t] = "err_addr") /\ (q = "done" <=> pc[t] = "err")
    BY <2>1, NextStoreFacts DEF Stores
  <2>9. /\ Explains(r, new)
        /\ q \in {"err_addr", "err"} => new.fix_addr # 0
        /\ q = "err" => new.err_addr # 0
    <3> HIDE DEF old, new, r
    <3>1. CASE pc[t] = "fix_addr"
      BY <2>3, <2>5, <2>6, <2>7, <2>8, <3>1 DEF Stored, Explains
    <3>2. CASE pc[t] = "err_addr"
      BY <2>3, <2>5, <2>6, <2>8, <3>2 DEF Stored, Explains, StoreFollows
    <3>3. CASE pc[t] = "err"
      BY <2>3, <2>6, <2>8, <3>3 DEF Stored, Explains, StoreFollows
    <3> QED
      BY <2>1, <3>1, <3>2, <3>3 DEF Stores
  <2>10. CallsStay /\ \A u \in Threads : pc'[u] = IF u = t THEN q ELSE pc[u]
    BY <2>1, <2>4, <2>8, <1>t, <1>p, LockPoints, HandlerMoves
  <2>11. SameHandlers /\ q \notin {"dead", "panicked"}
    <3>1. q \in Looking
      BY DEF Looking, Stores
    <3> QED
      BY <2>1, <2>10, <3>1, PointFacts, LockPoints DEF SameHandlers
  <2>12. /\ DeadTogether' /\ AccessesSurvive' /\ OnceIsInOrder'
         /\ DropsAreInOrder' /\ GuardsOwnTheirEntries' /\ PanicsAreMeant'
    BY <2>1, <2>4, <2>10, <2>11, PointFacts, LockPoints, AccessKeeps DEF SameHandlers
  <2>13. LockIsHeld'
    BY <2>4, <2>10, <2>11, LockStays
  <2>14. AccessesAreGuarded'
    BY <2>1, <2>4, <2>10, LockPoints, AccessesStay
  <2>15. StoresAreInOrder'
    <3>1. \A u \in Threads \ {t} : pc'[u] \notin Stores
      BY <2>1, <2>10, LockPoints, LockExcludes
    <3>2. \A x, y : Replaced(x, y)' <=> Replaced(x, y)
      BY <2>4 DEF Replaced
    <3>3. ASSUME NEW u \in Threads, NEW x \in guard[u]
          PROVE  Explains(x, state'[u][x.start])
      <4>1. x \in Regions /\ x.start \in Starts
        BY <1>t DEF DataTypes, Starts
      <4>2. CASE u = o /\ x.start = r.start
        <5>1. x = r
          BY <2>2, <4>1, <4>2, RegionsStartApart
        <5> QED
          BY <2>9, <4>2, <5>1
      <4>3. CASE u # o \/ x.start # r.start
        <5>1. state'[u][x.start] = state[u][x.start]
          BY <2>3, <4>1, <4>3
        <5> QED
          BY <5>1 DEF StoresAreInOrder
      <4> QED
        BY <4>2, <4>3
    <3>4. ASSUME NEW u \in Threads, NEW x \in guard'[u]
          PROVE  Explains(x, state[u][x.start])'
      BY <2>4, <3>2, <3>3, <3>4 DEF Explains
    <3>5. ASSUME pc'[t] \in Stores
          PROVE  /\ Replaced(arg[t].region, arg[t].addr)'
                 /\ \A u \in Threads : arg[t].region \in guard'[u] =>
                      StoreFollows(t, state[u][arg[t].region.start])'
      <4>1. Replaced(arg[t].region, arg[t].addr)'
        BY <2>4, <2>6, <3>2 DEF Replaced
      <4>2. pc'[t] = q /\ q \in {"err_addr", "err"}
        BY <2>10, <3>5 DEF Stores
      <4>3. ASSUME NEW u \in Threads, r \in guard[u]
            PROVE  /\ q # "fix_addr" => state'[u][r.start].fix_addr # 0
                   /\ q = "err" => state'[u][r.start].err_addr # 0
        <5>1. u = o
          BY <2>2, <4>3
        <5> QED
          BY <2>9, <4>2, <5>1
      <4> QED
        BY <2>4, <4>1, <4>2, <4>3 DEF StoreFollows
    <3> QED
      BY <2>4, <3>1, <3>4, <3>5 DEF StoresAreInOrder
  <2> QED
    BY <1>t, <2>12, <2>13, <2>14, <2>15
<1>22. ASSUME NEW t \in Threads, ReturnFromHandler(t) PROVE IInv'
  <2>1. /\ pc[t] = "done" /\ holder' = NoTid /\ Goto(t, "access")
        /\ UNCHANGED <<installed, once, written, clean, map, guard, state, page,
                       arg, under, aborted>>
    BY <1>22 DEF ReturnFromHandler, Once, pages
  <2>2. CallsStay /\ \A u \in Threads : pc'[u] = IF u = t THEN "access" ELSE pc[u]
    BY <2>1, <1>t, <1>p, HandlerMoves
  <2>3. \A u \in Threads : CallOf(u).pc \notin InLock /\ (u # t => pc[u] \notin Looking)
    BY <2>1, LockExcludes DEF LockIsHeld, Looking
  <2>4. /\ DeadTogether' /\ AccessesSurvive' /\ OnceIsInOrder'
        /\ DropsAreInOrder' /\ GuardsOwnTheirEntries' /\ PanicsAreMeant'
    BY <2>1, <2>2, AccessKeeps
  <2>5. LockIsHeld'
    <3>1. \A u \in Threads : CallOf(u).pc' \notin InLock
      BY <2>2, <2>3, LockPoints DEF CallsStay
    <3> QED
      BY <2>1, <2>2, <2>3, <3>1, PointFacts, LockPoints, MmapCatchAssumption DEF LockIsHeld
  <2>6. AccessesAreGuarded'
    BY <2>1, <2>2, <1>p, AccessesStay
  <2>7. StoresAreInOrder'
    BY <2>1, <2>2, PointFacts, LockPoints, StoresStay
  <2> QED
    BY <1>t, <2>4, <2>5, <2>6, <2>7
<1> QED
  BY <1>1, <1>2, <1>3, <1>4, <1>5, <1>7, <1>8, <1>9, <1>10, <1>11, <1>12, <1>13, <1>14,
     <1>15, <1>16, <1>u, <1>17, <1>18, <1>19, <1>20, <1>21, <1>22 DEF Next, Step, NewWork

\* IInv holds in every state: lock, once, guards, entries, stores and poison.
THEOREM Inductive == Spec => []IInv
BY InitInv, InvStep, PTL DEF Spec

\* All variables of any number of threads stay within their types.
THEOREM TypeCorrect == Spec => []TypeOK
<1>1. IInv => TypeOK
  BY DEF IInv
<1> QED
  BY <1>1, Inductive, PTL

\* The SIGBUS handler repairs every access to a mapping whose guard lives, for
\* any mappings and any changes of their files; only a fault inside with_root
\* on the thread that holds ROOT's lock ends the process, or a panic of a drop
\* on a poisoned root while the thread unwinds.
THEOREM FaultsAreRepaired == Spec => []AccessesSurvive
<1>1. IInv => AccessesSurvive
  BY DEF IInv
<1> QED
  BY <1>1, Inductive, PTL

\* TryOnce and StaticRoot: ROOT is written once, before anyone uses it.
THEOREM RootIsWrittenOnce == Spec => []RootIsSafe
<1>1. IInv => RootIsSafe
  <2> SUFFICES ASSUME IInv PROVE RootIsSafe
    OBVIOUS
  <2>1. ASSUME NEW t \in Threads, pc[t] \in InHandler PROVE written /\ once
    BY <2>1, AccessFinds DEF IInv, OnceIsInOrder
  <2>2. "create" \in InOnce
    BY DEF InOnce
  <2> QED
    BY <2>1, <2>2 DEF RootIsSafe, IInv, OnceIsInOrder
<1> QED
  BY <1>1, Inductive, PTL

\* The expect and the assertion of Guard::drop never fail.
THEOREM EntriesAreOwned == Spec => []GuardsOwnTheirEntries
<1>1. IInv => GuardsOwnTheirEntries
  BY DEF IInv
<1> QED
  BY <1>1, Inductive, PTL

\* Who sees is_err finds two addresses of this mapping that were replaced.
THEOREM ErrorsAreExplained == Spec => []ErrIsExplained
<1>1. IInv => ErrIsExplained
  <2> SUFFICES ASSUME IInv, NEW t \in Threads, NEW r \in guard[t],
                      state[t][r.start].err,
                      NEW a \in {state[t][r.start].err_addr, state[t][r.start].fix_addr}
               PROVE  a \in Bytes(r.start, r.len) /\ page[PageOf(a)] # "file"
    BY DEF ErrIsExplained
  <2>1. Explains(r, state[t][r.start])
    BY DEF IInv, StoresAreInOrder
  <2>2. a # 0 /\ (a = 0 \/ Replaced(r, a))
    BY <2>1 DEF Explains
  <2> QED
    BY <2>2 DEF Replaced
<1> QED
  BY <1>1, Inductive, PTL

\* MAP_FIXED from the page of the fault to the end of the entry stays within
\* the mapping that faulted, for every page size and length.
THEOREM OnlyItsOwnPages == Spec => OnlyTheFaultingMapping
<1>1. IInv /\ [Next]_vars =>
        [\A r \in Regions :
           (\E p \in RegionPages(r) : page[p] = "file" /\ page'[p] # "file")
             => /\ \E t \in Threads : pc[t] = "lookup" /\ arg[t].region = r
                /\ \E t \in Threads : r \in guard[t]]_vars
  <2> SUFFICES ASSUME IInv, Next, NEW r \in Regions,
                      NEW p \in RegionPages(r), page[p] = "file", page'[p] # "file"
               PROVE  /\ \E t \in Threads : pc[t] = "lookup" /\ arg[t].region = r
                      /\ \E t \in Threads : r \in guard[t]
    BY DEF vars
  <2> USE DEF IInv
  <2>0. p \in Pages
    BY DEF Pages
  <2>1. page' # page
    OBVIOUS
  <2>2. ASSUME NEW t \in Threads, Access(t) PROVE FALSE
    <3>1. \/ page' = page
              \/ /\ page[PageOf(arg[t].addr)] = "zero"
                 /\ page' = [page EXCEPT ![PageOf(arg[t].addr)] = "written"]
      BY <2>2 DEF Access
    <3> QED
      BY <2>0, <3>1 DEF TypeOK
  <2>3. PICK t \in Threads : Replace(t)
    <3>1. ASSUME NEW t \in Threads,
                 \/ register_mmap(t) \/ DropGuard(t) \/ StartAccess(t)
                 \/ install_signal_handler(t) \/ FirstLook(t) \/ SecondLook(t)
                 \/ CreateRoot(t) \/ SetFlag(t) \/ ReturnError(t)
          PROVE  FALSE
      BY <2>1, <3>1 DEF register_mmap, DropGuard, StartAccess, install_signal_handler,
                        FirstLook, SecondLook, CreateRoot, SetFlag, ReturnError, pages
    <3>2. ASSUME NEW t \in Threads,
                 \/ with_root(t) \/ InsertMapping(t) \/ RefuseOverlap(t) \/ Unlock(t)
                 \/ ProgramPanics(t) \/ Caught(t)
          PROVE  FALSE
      BY <2>1, <3>2 DEF with_root, InsertMapping, RefuseOverlap, Unlock, ProgramPanics,
                        Caught, pages
    <3>5. ASSUME NEW t \in Threads,
                 RefusePoisoned(t) \/ RemoveMapping(t) \/ ClosurePanics(t)
          PROVE  FALSE
      BY <2>1, <3>5 DEF RefusePoisoned, RemoveMapping, ClosurePanics, Panic, Abort, pages
    <3>3. ASSUME NEW t \in Threads,
                 handle_sigbus(t) \/ StoreState(t) \/ ReturnFromHandler(t)
          PROVE  FALSE
      BY <2>1, <3>3 DEF handle_sigbus, Abort, StoreState, ReturnFromHandler, pages
    <3>4. ASSUME Environment PROVE FALSE
      BY <2>1, <3>4 DEF Environment, Truncate, IOError, Lengthen
    <3> QED
      BY <2>2, <3>1, <3>2, <3>3, <3>4, <3>5 DEF Next, Step, NewWork
  <2>4. PICK q, addr : q = arg[t].region /\ addr = arg[t].addr
    OBVIOUS
  <2>5. pc[t] = "lookup" /\ pc[t] \in InHandler
    BY <2>3 DEF Replace, InHandler
  <2>6. /\ q \in Regions /\ addr \in Bytes(q.start, q.len)
        /\ lookup_addr(map, addr) = {q.start} /\ map[q.start].len = q.len
    BY <2>4, <2>5, AccessFinds
  <2>7. page' = [x \in Pages |->
                   IF x \in Fixed(addr, q.start, q.len) THEN "zero" ELSE page[x]]
    BY <2>3, <2>4, <2>6 DEF Replace
  <2>8. p \in Fixed(addr, q.start, q.len)
    BY <2>0, <2>7
  <2>9. p \in RegionPages(q)
    BY <2>6, <2>8, PageFacts
  <2>10. q = r
    BY <2>6, <2>9, MmapCatchAssumption
  <2>11. \E u \in Threads : r \in guard[u]
    BY <2>4, <2>5, <2>10 DEF AccessesAreGuarded
  <2> QED
    BY <2>4, <2>5, <2>10, <2>11
<1> QED
  BY <1>1, Inductive, PTL DEF Spec, OnlyTheFaultingMapping

\* Whoever goes elsewhere does not enter a closure.
LEMMA Elsewhere ==
  ASSUME ThreadTypes, NEW t \in Threads, NEW q, q \notin Closing, Goto(t, q), UNCHANGED under,
         NEW u \in Threads, CallOf(u).pc' \in Closing
  PROVE  CallOf(u).pc \in Closing
<1>1. pc'[u] = IF u = t THEN q ELSE pc[u]
  BY DEF ThreadTypes, Goto
<1> QED
  BY <1>1 DEF CallOf, Ordinary

LEMMA NowhereAfterPanic ==
  ASSUME ThreadTypes, NEW t \in Threads, Panic(t),
         NEW u \in Threads, CallOf(u).pc' \in Closing
  PROVE  CallOf(u).pc \in Closing
<1>1. "panicked" \notin Closing /\ "dead" \notin Closing
  BY DEF Closing
<1>2. CASE arg[t].op = "unwind"
  <2>1. pc'[u] = "dead" /\ under' = under
    BY <1>2 DEF Panic, Abort
  <2> QED
    BY <1>1, <2>1 DEF CallOf, Ordinary
<1>3. CASE arg[t].op # "unwind"
  BY <1>1, <1>3, Elsewhere DEF Panic, Finish
<1> QED
  BY <1>2, <1>3

\* How a step touches a poisoned root: only a closure, or the creation of ROOT,
\* changes the map; only its end cleans; only with_root on a clean root enters.
LEMMA RootSteps ==
  ASSUME IInv, Next
  PROVE  /\ clean' => clean \/ \E u \in Threads : pc[u] \in {"create", "unlock"}
         /\ map' = map \/ \E u \in Threads : pc[u] \in {"create", "body"}
         /\ \A u \in Threads : CallOf(u).pc' \in Closing =>
              CallOf(u).pc \in Closing \/ (clean /\ holder = NoTid)
<1> DEFINE Enters(u) == CallOf(u).pc' \in Closing /\ CallOf(u).pc \notin Closing
<1> DEFINE Goal ==
      /\ clean' => clean \/ \E u \in Threads : pc[u] \in {"create", "unlock"}
      /\ map' = map \/ \E u \in Threads : pc[u] \in {"create", "body"}
      /\ \A u \in Threads : Enters(u) => clean /\ holder = NoTid
<1>t. ThreadTypes /\ TypeOK
  BY TypeParts DEF IInv
<1>p. /\ \A q \in {"install", "init", "mutex", "lock", "create", "flag", "error", "idle",
                   "panicked", "poisoned", "sigbus", "access", "lookup", "fix_addr",
                   "err_addr", "err", "done"} : q \notin Closing
      /\ "body" \in Closing /\ "body" \in InCall
  BY DEF Closing, InCall, InRoot
<1>1. ASSUME NEW t \in Threads,
             \/ register_mmap(t) \/ DropGuard(t) \/ install_signal_handler(t) \/ FirstLook(t)
             \/ SecondLook(t) \/ SetFlag(t) \/ ProgramPanics(t) \/ Caught(t)
      PROVE  Goal
  <2>1. clean' = clean /\ map' = map /\ under' = under
    BY <1>1 DEF register_mmap, DropGuard, install_signal_handler, FirstLook, SecondLook,
                SetFlag, ProgramPanics, Caught, ROOT
  <2>2. PICK q \in {"install", "init", "mutex", "lock", "create", "panicked", "idle"} :
          Goto(t, q)
    BY <1>1 DEF register_mmap, DropGuard, install_signal_handler, FirstLook, SecondLook,
                SetFlag, ProgramPanics, Caught
  <2> QED
    BY <1>t, <1>p, <2>1, <2>2, Elsewhere
<1>2. ASSUME NEW t \in Threads, CreateRoot(t) PROVE Goal
  <2>1. pc[t] = "create" /\ under' = under
    BY <1>2 DEF CreateRoot
  <2>2. PICK q \in {"flag", "error"} : Goto(t, q)
    BY <1>2 DEF CreateRoot
  <2> QED
    BY <1>t, <1>p, <2>1, <2>2, Elsewhere
<1>3. ASSUME NEW t \in Threads, ReturnError(t) \/ Unlock(t) PROVE Goal
  <2>1. /\ clean' = clean \/ pc[t] = "unlock"
        /\ map' = map /\ under' = under
    BY <1>3 DEF ReturnError, Unlock, ROOT
  <2>2. PICK q \in {"idle", "panicked"} : Goto(t, q)
    BY <1>3 DEF ReturnError, Unlock, Return, Finish
  <2> QED
    BY <1>t, <1>p, <2>1, <2>2, Elsewhere
<1>4. ASSUME NEW t \in Threads, with_root(t) PROVE Goal
  <2>1. clean' = FALSE /\ map' = map /\ under' = under /\ holder = NoTid
    BY <1>4 DEF with_root
  <2>2. CASE clean
    BY <2>1, <2>2
  <2>3. CASE ~clean
    <3>1. Goto(t, "poisoned")
      BY <1>4, <2>3 DEF with_root, Poisoned
    <3> QED
      BY <1>t, <1>p, <2>1, <3>1, Elsewhere
  <2> QED
    BY <2>2, <2>3
<1>5. ASSUME NEW t \in Threads, RefusePoisoned(t) \/ ClosurePanics(t) PROVE Goal
  <2>1. clean' = clean /\ (map' = map \/ pc[t] = "body") /\ Panic(t)
    BY <1>5 DEF RefusePoisoned, ClosurePanics, Panic, Abort
  <2> QED
    BY <1>t, <2>1, NowhereAfterPanic
<1>6. ASSUME NEW t \in Threads, InsertMapping(t) \/ RefuseOverlap(t) \/ RemoveMapping(t)
      PROVE  Goal
  <2>1. pc[t] = "body" /\ clean' = clean
    BY <1>6 DEF InsertMapping, RefuseOverlap, RemoveMapping, Panic, Abort, ROOT
  <2>2. CallOf(t).pc \in Closing
    BY <1>t, <1>p, <2>1, OrdinaryCalls
  <2>3. CASE Panic(t)
    BY <1>t, <2>1, <2>3, NowhereAfterPanic
  <2>4. CASE Goto(t, "unlock") /\ under' = under
    <3>1. \A u \in Threads \ {t} : CallOf(u).pc' = CallOf(u).pc
      <4>1. \A u \in Threads \ {t} : pc'[u] = pc[u]
        BY <1>t, <2>4 DEF Goto, ThreadTypes
      <4> QED
        BY <2>4, <4>1 DEF CallOf, Ordinary
    <3> QED
      BY <2>1, <2>2, <3>1
  <2> QED
    BY <1>6, <2>3, <2>4 DEF InsertMapping, RefuseOverlap, RemoveMapping
<1>7. ASSUME NEW t \in Threads, StartAccess(t) \/ (Access(t) /\ EndAccess(t)) PROVE Goal
  <2>1. clean' = clean /\ map' = map
    BY <1>7 DEF StartAccess, Access, ROOT
  <2>2. CallsStay
    BY <1>7, <1>t, AccessStarts, AccessEnds DEF Access
  <2>3. Closing \subseteq InCall
    BY DEF Closing, InCall, InRoot
  <2> QED
    BY <2>1, <2>2, <2>3 DEF CallsStay
<1>8. ASSUME NEW t \in Threads,
             \/ (Access(t) /\ ~EndAccess(t)) \/ handle_sigbus(t) \/ Replace(t) \/ StoreState(t)
             \/ ReturnFromHandler(t)
      PROVE  Goal
  <2>1. clean' = clean /\ map' = map /\ under' = under
    BY <1>8 DEF Access, handle_sigbus, Replace, StoreState, ReturnFromHandler, Abort, ROOT
  <2>2. CASE \E why : Abort(why)
    <3>1. \A u \in Threads : pc'[u] = "dead"
      BY <2>2 DEF Abort
    <3> QED
      BY <2>1, <3>1 DEF CallOf, Ordinary, Closing
  <2>3. CASE \E q \in {"sigbus", "lookup", "fix_addr", "err_addr", "err", "done", "access"} :
               Goto(t, q)
    BY <1>t, <1>p, <2>1, <2>3, Elsewhere
  <2>4. \A q \in Stores : NextStore[q] \in {"fix_addr", "err_addr", "err", "done"}
    BY NextStoreFacts DEF Stores
  <2> QED
    BY <1>8, <2>2, <2>3, <2>4, NextStoreFacts
       DEF Access, handle_sigbus, Replace, StoreState, ReturnFromHandler
<1>9. ASSUME Environment PROVE Goal
  BY <1>9 DEF Environment, Truncate, IOError, Lengthen, ROOT, CallOf, Ordinary
<1>10. Goal
  <2> HIDE DEF Goal
  <2> QED
    BY <1>1, <1>2, <1>3, <1>4, <1>5, <1>6, <1>7, <1>8, <1>9 DEF Next, Step, NewWork
<1> QED
  BY <1>10

\* A closure that panics leaves the root poisoned, and nothing is built on what
\* it has left behind: neither by other threads nor by the drops that unwinding
\* calls.
THEOREM PoisonedForEver == Spec => PoisonIsFinal
<1>1. IInv /\ [Next]_vars =>
        [/\ \A t \in Threads : pc[t] = "body" /\ pc'[t] = "panicked" => RootIsPoisoned'
         /\ RootIsPoisoned => RootIsPoisoned' /\ map' = map]_vars
  <2> SUFFICES ASSUME IInv, Next
               PROVE  /\ \A t \in Threads :
                           pc[t] = "body" /\ pc'[t] = "panicked" => RootIsPoisoned'
                      /\ RootIsPoisoned => RootIsPoisoned' /\ map' = map
    BY DEF vars
  <2>t. ThreadTypes /\ ThreadTypes'
    BY TypeParts, InvStep DEF IInv
  <2>p. {"create", "body", "unlock"} \subseteq InCall /\ "create" \in InOnce
        /\ Closing = {"body", "unlock"} /\ Closing \subseteq InLock
    BY DEF InCall, InOnce, InRoot, Closing, InLock
  <2>1. ASSUME NEW u \in Threads, pc[u] = "create" PROVE clean
    <3>1. CallOf(u).pc = "create"
      BY <2>1, <2>t, <2>p, OrdinaryCalls
    <3> QED
      BY <3>1 DEF IInv, OnceIsInOrder
  <2>2. ASSUME NEW u \in Threads, pc[u] \in Closing PROVE CallOf(u).pc = pc[u]
    BY <2>2, <2>t, <2>p, OrdinaryCalls
  <2>3. ASSUME RootIsPoisoned PROVE RootIsPoisoned' /\ map' = map
    <3>1. ~clean /\ \A u \in Threads : CallOf(u).pc \notin Closing
      BY <2>3, <2>p DEF RootIsPoisoned
    <3>2. \A u \in Threads : pc[u] \notin {"create", "body", "unlock"}
      BY <2>1, <2>2, <2>p, <3>1
    <3>3. ~clean' /\ map' = map /\ \A u \in Threads : CallOf(u).pc' \notin Closing
      BY <3>1, <3>2, RootSteps
    <3> QED
      BY <2>p, <3>3 DEF RootIsPoisoned
  <2>4. ASSUME NEW t \in Threads, pc[t] = "body", pc'[t] = "panicked"
        PROVE  RootIsPoisoned'
    <3>1. CallOf(t).pc = "body"
      BY <2>4, <2>2, <2>p
    <3>2. holder = t /\ ~clean
      BY <2>p, <3>1 DEF IInv, LockIsHeld
    <3>3. \A u \in Threads \ {t} : CallOf(u).pc \notin Closing
      BY <2>p, <3>2 DEF IInv, LockIsHeld
    <3>4. \A u \in Threads : pc[u] \notin {"create", "unlock"}
      BY <2>1, <2>2, <2>4, <2>p, <3>2, <3>3
    <3>5. ~clean' /\ \A u \in Threads \ {t} : CallOf(u).pc' \notin Closing
      BY <3>2, <3>3, <3>4, RootSteps
    <3>6. CallOf(t).pc' = "panicked"
      BY <2>4, <2>t, OrdinaryCalls, PointFacts DEF ThreadTypes, CallOf, Ordinary
    <3> QED
      BY <2>p, <3>5, <3>6 DEF RootIsPoisoned
  <2> QED
    BY <2>3, <2>4
<1> QED
  BY <1>1, Inductive, PTL DEF Spec, PoisonIsFinal

\* Without signal handlers of the program that access mappings, no change of a
\* file ever ends the process; without panics nothing at all does.
THEOREM NothingAborts ==
  ASSUME Handlers = FALSE
  PROVE  Spec => [](aborted # "no" => Panics /\ aborted = "panic while unwinding")
<1>1. Init => \A t \in Threads : Ordinary(t)
  BY DEF Init, Ordinary
<1>2. (\A t \in Threads : Ordinary(t)) /\ TypeOK /\ [Next]_vars
        => (\A t \in Threads : Ordinary(t))'
  <2> SUFFICES ASSUME \A t \in Threads : Ordinary(t), TypeOK, [Next]_vars,
                      NEW t \in Threads, under'[t] # <<>>
               PROVE  FALSE
    BY DEF Ordinary
  <2>1. under' # under
    BY DEF Ordinary
  <2>2. ASSUME NEW u \in Threads, StartAccess(u) PROVE FALSE
    BY <2>1, <2>2 DEF StartAccess
  <2>3. ASSUME NEW u \in Threads, Access(u) PROVE FALSE
    BY <2>1, <2>3 DEF Access, EndAccess
  <2>4. ASSUME NEW u \in Threads, register_mmap(u) \/ DropGuard(u) PROVE FALSE
    BY <2>1, <2>4 DEF register_mmap, DropGuard
  <2>5. ASSUME NEW u \in Threads,
               \/ install_signal_handler(u) \/ FirstLook(u) \/ SecondLook(u)
               \/ CreateRoot(u) \/ SetFlag(u) \/ ReturnError(u)
        PROVE  FALSE
    BY <2>1, <2>5 DEF install_signal_handler, FirstLook, SecondLook, CreateRoot, SetFlag,
                      ReturnError
  <2>6. ASSUME NEW u \in Threads,
               \/ with_root(u) \/ InsertMapping(u) \/ RefuseOverlap(u) \/ Unlock(u)
               \/ ProgramPanics(u) \/ Caught(u)
        PROVE  FALSE
    BY <2>1, <2>6 DEF with_root, InsertMapping, RefuseOverlap, Unlock, ProgramPanics, Caught
  <2>10. ASSUME NEW u \in Threads, RefusePoisoned(u) \/ RemoveMapping(u) \/ ClosurePanics(u)
         PROVE  FALSE
    BY <2>1, <2>10 DEF RefusePoisoned, RemoveMapping, ClosurePanics, Panic, Abort
  <2>7. ASSUME NEW u \in Threads,
               handle_sigbus(u) \/ Replace(u) \/ StoreState(u) \/ ReturnFromHandler(u)
        PROVE  FALSE
    BY <2>1, <2>7 DEF handle_sigbus, Abort, Replace, StoreState, ReturnFromHandler
  <2>8. ASSUME Environment PROVE FALSE
    BY <2>1, <2>8 DEF Environment, Truncate, IOError, Lengthen
  <2>9. CASE UNCHANGED vars
    BY <2>1, <2>9 DEF vars
  <2> QED
    BY <2>2, <2>3, <2>4, <2>5, <2>6, <2>7, <2>8, <2>9, <2>10 DEF Next, Step, NewWork
<1>3. (\A t \in Threads : Ordinary(t)) /\ AccessesSurvive
        => (aborted # "no" => Panics /\ aborted = "panic while unwinding")
  BY DEF AccessesSurvive
<1> QED
  BY <1>1, <1>2, <1>3, TypeCorrect, FaultsAreRepaired, PTL DEF Spec

-----------------------------------------------------------------------------
(* The map follows Registry *)

\* The lengths are what Registry keeps; the owners are only MmapCatch's.
Lengths == [s \in DOMAIN map |-> [len |-> map[s].len]]

Addressed == INSTANCE Registry WITH Ranges <- Regions, map <- Lengths

LEMMA SameDomain == DOMAIN Lengths = DOMAIN map
BY DEF Lengths

LEMMA SameOverlap ==
  ASSUME NEW r
  PROVE  Addressed!lookup_overlap(Lengths, r.start, r.len) = Overlap(r)
BY DEF Lengths, Overlap, lookup_overlap, LastUpTo,
       Addressed!lookup_overlap, Addressed!LastUpTo

\* The map in ROOT is changed as Registry says and in no other way, however the
\* calls of the threads, their handlers, panics and aborts interleave: a
\* registration looks for overlaps in the map into which it inserts, and ROOT is
\* not written again (TryOnce) over a map that has entries.
THEOREM MapFollowsRegistry == Spec => Addressed!Spec
<1>1. Init => Addressed!Init
  BY DEF Init, Addressed!Init, Lengths
<1>2. IInv /\ [Next]_vars => [Addressed!Next]_Lengths
  <2> SUFFICES ASSUME IInv, [Next]_vars, map' # map
               PROVE  [Addressed!Next]_Lengths
    BY DEF Lengths
  <2>1. PICK t \in Threads :
          CreateRoot(t) \/ (pc[t] = "body" /\ (Insert(t) \/ Remove(t)))
    <3>1. ~Environment /\ ~UNCHANGED vars
      BY DEF vars, Environment, ROOT, Truncate, IOError, Lengthen
    <3>2. PICK t \in Threads :
            Step(t) \/ NewWork(t) \/ ClosurePanics(t) \/ ProgramPanics(t) \/ Caught(t)
      BY <3>1 DEF Next
    <3>3. ~NewWork(t) /\ ~ProgramPanics(t) /\ ~Caught(t)
      BY DEF NewWork, register_mmap, DropGuard, StartAccess, ProgramPanics, Caught, ROOT
    <3>4. /\ ~install_signal_handler(t) /\ ~FirstLook(t) /\ ~SecondLook(t)
          /\ ~SetFlag(t) /\ ~ReturnError(t) /\ ~with_root(t) /\ ~Unlock(t)
          /\ ~RefuseOverlap(t) /\ ~RefusePoisoned(t)
      BY DEF install_signal_handler, FirstLook, SecondLook, SetFlag, ReturnError,
             with_root, Unlock, RefuseOverlap, RefusePoisoned, ROOT
    <3>5. /\ ~Access(t) /\ ~handle_sigbus(t) /\ ~Replace(t) /\ ~StoreState(t)
          /\ ~ReturnFromHandler(t)
      BY DEF Access, handle_sigbus, Replace, StoreState, ReturnFromHandler, ROOT
    <3>6. InsertMapping(t) \/ RemoveMapping(t) \/ ClosurePanics(t)
            => pc[t] = "body" /\ (Insert(t) \/ Remove(t))
      BY DEF InsertMapping, RemoveMapping, ClosurePanics
    <3> QED
      BY <3>2, <3>3, <3>4, <3>5, <3>6 DEF Step
  <2>2. CASE CreateRoot(t)
    <3>1. pc[t] = "create" /\ map' = <<>>
      BY <2>2 DEF CreateRoot
    <3>2. CallOf(t).pc = "create"
      BY <3>1 DEF IInv, TypeOK, CallOf, Ordinary, InHandler, Stores
    <3>3. DOMAIN map = {}
      BY <3>2 DEF IInv, OnceIsInOrder
    <3> QED
      BY <3>1, <3>3 DEF Lengths
  <2>3. CASE pc[t] = "body" /\ Insert(t)
    <3> DEFINE r == arg[t].region
    <3>0. r \in Regions
      <4>1. pc[t] \in InCall
        BY <2>3 DEF InCall, InRoot
      <4> QED
        BY <4>1 DEF IInv, TypeOK, Calls
    <3>1. /\ r \in Regions /\ Overlap(r) = {}
          /\ map' = [s \in DOMAIN map \cup {r.start} |->
                       IF s = r.start THEN NewMapping(t, r) ELSE map[s]]
      BY <2>3, <3>0 DEF Insert
    <3>2. Lengths' = [s \in DOMAIN Lengths \cup {r.start} |->
                        IF s = r.start THEN [len |-> r.len] ELSE Lengths[s]]
      <4> HIDE DEF r
      <4> QED
        BY <3>1 DEF Lengths, NewMapping
    <3>3. Addressed!Register(r)
      BY <3>1, <3>2, SameOverlap DEF Addressed!Register
    <3> QED
      BY <3>1, <3>3 DEF Addressed!Next
  <2>4. CASE Remove(t)
    <3> DEFINE start == arg[t].region.start
    <3>1. map' = [s \in DOMAIN map \ {start} |-> map[s]]
      BY <2>4 DEF Remove
    <3> HIDE DEF start
    <3>2. Lengths' = [s \in DOMAIN Lengths \ {start} |-> Lengths[s]]
      BY <3>1 DEF Lengths
    <3>3. CASE start \in DOMAIN map
      BY <3>2, <3>3, SameDomain DEF Addressed!Next, Addressed!Drop
    <3>4. CASE start \notin DOMAIN map
      <4>1. DOMAIN Lengths' = DOMAIN Lengths /\ Lengths' = Lengths
        BY <3>1, <3>4 DEF Lengths
      <4> QED
        BY <4>1
    <3> QED
      BY <3>3, <3>4
  <2> QED
    BY <2>1, <2>2, <2>3, <2>4
<1> QED
  BY <1>1, <1>2, Inductive, PTL DEF Spec, Addressed!Spec

=============================================================================
