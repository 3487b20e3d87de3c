--------------------------- MODULE PipeFenceProofs ---------------------------
(***************************************************************************)
(* PipeLock on weak memory: the guard's owner has seen every access to the *)
(* item, and the two fences leave no reader behind, for any number of      *)
(* threads and calls and every capacity of the pipe.                       *)
(***************************************************************************)
EXTENDS PipeFence, FiniteSetTheorems, TLAPS

-----------------------------------------------------------------------------
(* Views and modification orders *)

LEMMA MaxOfTwo ==
  ASSUME NEW a \in Int, NEW b \in Int
  PROVE  Max({a, b}) = IF a >= b THEN a ELSE b
<1> DEFINE m == IF a >= b THEN a ELSE b
           IsMax(x) == x \in {a, b} /\ \A y \in {a, b} : x >= y
<1>1. IsMax(m) /\ \A x : IsMax(x) => x = m
  OBVIOUS
<1>2. Max({a, b}) = CHOOSE x \in {a, b} : \A y \in {a, b} : x >= y
  BY Zenon DEF Max
<1> QED
  BY <1>1, <1>2

\* A join has seen what either view has seen, and no more.
LEMMA JoinIsView ==
  ASSUME Len(held) \in Nat, Len(waiters) \in Nat, item \in Nat,
         NEW v \in Views, NEW w \in Views
  PROVE  /\ Join(v, w) \in Views
         /\ Join(v, w).held = IF v.held >= w.held THEN v.held ELSE w.held
         /\ Join(v, w).waiters = IF v.waiters >= w.waiters THEN v.waiters ELSE w.waiters
         /\ Join(v, w).waiters >= v.waiters /\ Join(v, w).waiters >= w.waiters
         /\ Join(v, w).item >= v.item /\ Join(v, w).item >= w.item
<1>1. /\ DOMAIN v = {"held", "waiters", "item"}
      /\ {v.held, w.held, v.waiters, w.waiters, v.item, w.item} \subseteq Int
  BY DEF Views
<1>2. Join(v, w) = [location \in {"held", "waiters", "item"} |->
                      Max({v[location], w[location]})]
  BY <1>1 DEF Join
<1>3. /\ Join(v, w).held = Max({v.held, w.held})
      /\ Join(v, w).waiters = Max({v.waiters, w.waiters})
      /\ Join(v, w).item = Max({v.item, w.item})
  BY <1>2
<1>4. /\ Max({v.held, w.held}) = IF v.held >= w.held THEN v.held ELSE w.held
      /\ Max({v.waiters, w.waiters}) = IF v.waiters >= w.waiters THEN v.waiters ELSE w.waiters
      /\ Max({v.item, w.item}) = IF v.item >= w.item THEN v.item ELSE w.item
  BY <1>1, MaxOfTwo
<1>5. Join(v, w) = [held |-> Join(v, w).held, waiters |-> Join(v, w).waiters,
                    item |-> Join(v, w).item]
  BY <1>2
<1>6. /\ v.held \in 1 .. Len(held) /\ w.held \in 1 .. Len(held)
      /\ v.waiters \in 1 .. Len(waiters) /\ w.waiters \in 1 .. Len(waiters)
      /\ v.item \in 0 .. item /\ w.item \in 0 .. item
  BY DEF Views
<1>7. /\ Join(v, w).held \in 1 .. Len(held)
      /\ Join(v, w).waiters \in 1 .. Len(waiters)
      /\ Join(v, w).item \in 0 .. item
  BY <1>3, <1>4, <1>6
<1>8. Join(v, w) \in Views
  BY <1>5, <1>7 DEF Views
<1> QED
  BY <1>3, <1>4, <1>6, <1>8

\* A write extends the modification order at its end.
LEMMA AppendIsLast ==
  ASSUME NEW S, NEW s \in Seq(S), NEW e \in S
  PROVE  /\ Append(s, e) \in Seq(S)
         /\ Len(Append(s, e)) = Len(s) + 1
         /\ Last(Append(s, e)) = e
         /\ Append(s, e)[Len(s) + 1] = e
         /\ \A n \in 1 .. Len(s) : Append(s, e)[n] = s[n]
BY DEF Last

LEMMA LastInSeq ==
  ASSUME NEW S, NEW s \in Seq(S), Len(s) > 0
  PROVE  Last(s) = s[Len(s)] /\ Last(s) \in S /\ Len(s) \in Nat \ {0}
BY DEF Last

-----------------------------------------------------------------------------
(* Types *)

Entries == [tid : Threads \cup {NoTid}, view : Views]

LEMMA SeqGrows ==
  ASSUME NEW S, NEW T, S \subseteq T, NEW s \in Seq(S)
  PROVE  s \in Seq(T)
OBVIOUS

\* What TypeOK says of the modification orders.
LEMMA OrdersHaveLast ==
  ASSUME TypeOK
  PROVE  /\ Len(held) \in Nat \ {0} /\ Last(held) = held[Len(held)]
         /\ Last(held) \in Entries
         /\ \A n \in 1 .. Len(held) : held[n] \in Entries
         /\ Len(waiters) \in Nat \ {0} /\ Last(waiters) = waiters[Len(waiters)]
         /\ \A n \in 1 .. Len(waiters) : waiters[n] \in Nat
<1>1. held \in Seq(Entries) /\ Len(held) > 0 /\ waiters \in Seq(Nat) /\ Len(waiters) > 0
  BY DEF TypeOK, Entries
<1>2. /\ \A n \in 1 .. Len(held) : held[n] \in Entries
      /\ \A n \in 1 .. Len(waiters) : waiters[n] \in Nat
  BY <1>1
<1> QED
  BY <1>1, <1>2, LastInSeq

\* Views stay views while memory grows.
LEMMA ViewsGrow ==
  ASSUME TypeOK, Len(held') \in Nat, Len(waiters') \in Nat, item' \in Nat,
         Len(held) <= Len(held'), Len(waiters) <= Len(waiters'), item <= item'
  PROVE  /\ Views \subseteq Views'
         /\ Entries \subseteq Entries'
<1>1. Views \subseteq Views'
  <2>1. Len(held) \in Nat /\ Len(waiters) \in Nat /\ item \in Nat
    BY OrdersHaveLast DEF TypeOK
  <2>2. /\ 1 .. Len(held) \subseteq 1 .. Len(held')
        /\ 1 .. Len(waiters) \subseteq 1 .. Len(waiters')
        /\ 0 .. item \subseteq 0 .. item'
    BY <2>1
  <2> QED
    BY <2>2 DEF Views
<1> QED
  BY <1>1 DEF Entries

LEMMA ExchangeIsTaking ==
  ASSUME TypeOK, NEW t \in Threads, Exchange(t)
  PROVE  /\ Last(held).tid = NoTid
         /\ held' \in Seq(Entries) /\ Len(held') = Len(held) + 1
         /\ Last(held').tid = t /\ Last(held').view = Last(held).view
         /\ Last(held') = held'[Len(held) + 1]
         /\ \A n \in 1 .. Len(held) : held'[n] = held[n]
         /\ seen' = [seen EXCEPT ![t] = seen'[t]]
         /\ seen'[t] \in [held : 1 .. Len(held) + 1, waiters : 1 .. Len(waiters),
                          item : 0 .. item]
         /\ seen'[t].held = Len(held) + 1
         /\ seen'[t].waiters >= seen[t].waiters
         /\ seen'[t].item >= seen[t].item /\ seen'[t].item >= Last(held).view.item
<1> DEFINE last == Last(held)
           joined == Join(seen[t], last.view)
<1>1. last \in Entries /\ last.view \in Views /\ seen[t] \in Views
      /\ Len(held) \in Nat \ {0} /\ Len(waiters) \in Nat /\ item \in Nat
  BY OrdersHaveLast DEF TypeOK, Entries
<1>2. /\ joined \in Views
      /\ joined.waiters >= seen[t].waiters /\ joined.item >= seen[t].item
      /\ joined.item >= last.view.item
  BY <1>1, JoinIsView
<1>3. /\ last.tid = NoTid
      /\ held' = Append(held, [tid |-> t, view |-> last.view])
      /\ seen' = [seen EXCEPT ![t] = [joined EXCEPT !.held = Len(held) + 1]]
  BY DEF Exchange
<1> HIDE DEF joined, last
<1>4. [tid |-> t, view |-> last.view] \in Entries /\ held \in Seq(Entries)
  BY <1>1 DEF Entries, TypeOK
<1>5. /\ held' \in Seq(Entries) /\ Len(held') = Len(held) + 1
      /\ Last(held') = [tid |-> t, view |-> last.view]
      /\ held'[Len(held) + 1] = [tid |-> t, view |-> last.view]
      /\ \A n \in 1 .. Len(held) : held'[n] = held[n]
  BY <1>3, <1>4, AppendIsLast
<1>6. seen'[t] = [joined EXCEPT !.held = Len(held) + 1]
      /\ seen' = [seen EXCEPT ![t] = seen'[t]]
  BY <1>3 DEF TypeOK
<1>7. /\ seen'[t] \in [held : 1 .. Len(held) + 1, waiters : 1 .. Len(waiters),
                       item : 0 .. item]
      /\ seen'[t].held = Len(held) + 1
      /\ seen'[t].waiters = joined.waiters /\ seen'[t].item = joined.item
  BY SMTT(30), <1>1, <1>2, <1>6 DEF Views
<1> QED
  BY <1>2, <1>3, <1>5, <1>6, <1>7 DEF last

LEMMA LoadIsLooking ==
  ASSUME TypeOK, NEW t \in Threads, NEW n \in DOMAIN held, LoadHolder(t, n)
  PROVE  /\ n \in 1 .. Len(held) /\ n >= seen[t].held
         /\ seen' = [seen EXCEPT ![t] = seen'[t]]
         /\ seen'[t] \in Views /\ seen'[t].held = n
         /\ seen'[t].waiters = seen[t].waiters /\ seen'[t].item = seen[t].item
<1>1. n \in 1 .. Len(held) /\ seen[t] \in Views /\ seen[t].held \in 1 .. Len(held)
  <2>1. held \in Seq(Entries) /\ seen[t] \in Views
    BY DEF TypeOK, Entries
  <2> QED
    BY <2>1 DEF Views
<1>2. n >= seen[t].held /\ seen' = [seen EXCEPT ![t].held = n]
  BY <1>1 DEF LoadHolder
<1>3. seen'[t] = [seen[t] EXCEPT !.held = n] /\ seen' = [seen EXCEPT ![t] = seen'[t]]
  BY <1>2 DEF TypeOK
<1> QED
  BY <1>1, <1>2, <1>3 DEF Views

LEMMA SetIsAppending ==
  ASSUME TypeOK, NEW t \in Threads, NEW value \in Nat, SetWaiters(t, value)
  PROVE  /\ waiters' \in Seq(Nat) /\ Len(waiters') = Len(waiters) + 1
         /\ Last(waiters') = value /\ waiters'[Len(waiters) + 1] = value
         /\ \A n \in 1 .. Len(waiters) : waiters'[n] = waiters[n]
         /\ seen' = [seen EXCEPT ![t] = seen'[t]]
         /\ seen'[t] \in [held : 1 .. Len(held), waiters : 1 .. Len(waiters) + 1,
                          item : 0 .. item]
         /\ seen'[t].held = seen[t].held /\ seen'[t].waiters = Len(waiters) + 1
         /\ seen'[t].item = seen[t].item
<1>1. /\ waiters' \in Seq(Nat) /\ Len(waiters') = Len(waiters) + 1
      /\ Last(waiters') = value /\ waiters'[Len(waiters) + 1] = value
      /\ \A n \in 1 .. Len(waiters) : waiters'[n] = waiters[n]
  BY AppendIsLast DEF SetWaiters, TypeOK
<1>2. seen[t] \in Views /\ Len(waiters) \in Nat /\ item \in Nat
  BY OrdersHaveLast DEF TypeOK
<1>3. seen'[t] = [seen[t] EXCEPT !.waiters = Len(waiters) + 1]
      /\ seen' = [seen EXCEPT ![t] = seen'[t]]
  BY <1>1 DEF SetWaiters, TypeOK
<1>4. /\ seen'[t].held = seen[t].held /\ seen'[t].waiters = Len(waiters) + 1
      /\ seen'[t].item = seen[t].item
  BY <1>2, <1>3 DEF Views
<1>5. seen'[t] \in [held : 1 .. Len(held), waiters : 1 .. Len(waiters) + 1, item : 0 .. item]
  BY <1>2, <1>3 DEF Views
<1> QED
  BY <1>1, <1>3, <1>4, <1>5

LEMMA MutexIsJoining ==
  ASSUME TypeOK, NEW t \in Threads, PipeMutex(t)
  PROVE  /\ piped' \in Views /\ seen' = [seen EXCEPT ![t] = piped']
         /\ piped'.held = IF seen[t].held >= piped.held THEN seen[t].held ELSE piped.held
         /\ piped'.waiters >= seen[t].waiters /\ piped'.item >= seen[t].item
<1>1. seen[t] \in Views /\ piped \in Views
      /\ Len(held) \in Nat /\ Len(waiters) \in Nat /\ item \in Nat
  BY OrdersHaveLast DEF TypeOK
<1>2. piped' = Join(seen[t], piped) /\ seen' = [seen EXCEPT ![t] = piped']
  BY DEF PipeMutex
<1> QED
  BY <1>1, <1>2, JoinIsView

LEMMA SwapIsFreeing ==
  ASSUME TypeOK, NEW t \in Threads, Swap(t)
  PROVE  /\ held' \in Seq(Entries') /\ Len(held') = Len(held) + 1
         /\ Last(held').tid = NoTid /\ Last(held').view.item = item'
         /\ Last(held') = held'[Len(held) + 1]
         /\ \A n \in 1 .. Len(held) : held'[n] = held[n]
         /\ item' = item + 1
         /\ seen' = [seen EXCEPT ![t] = seen'[t]] /\ seen'[t] \in Views'
         /\ seen'[t].held = Len(held) + 1 /\ seen'[t].item = item'
         /\ seen'[t].waiters = seen[t].waiters
<1> DEFINE view == [seen[t] EXCEPT !.held = Len(held) + 1, !.item = item + 1]
<1>1. seen[t] \in Views /\ held \in Seq(Entries)
      /\ Len(held) \in Nat \ {0} /\ Len(waiters) \in Nat /\ item \in Nat
  BY OrdersHaveLast DEF TypeOK, Entries
<1>2. /\ view.held = Len(held) + 1 /\ view.item = item + 1
      /\ view.waiters = seen[t].waiters
      /\ view \in [held : 1 .. Len(held) + 1, waiters : 1 .. Len(waiters),
                   item : 0 .. item + 1]
  <2>1. seen[t] \in [held : 1 .. Len(held), waiters : 1 .. Len(waiters), item : 0 .. item]
    BY <1>1 DEF Views
  <2>2. /\ view.held = Len(held) + 1 /\ view.item = item + 1
        /\ view.waiters = seen[t].waiters
    BY <2>1
  <2>3. view \in [held : 1 .. Len(held) + 1, waiters : 1 .. Len(waiters),
                  item : 0 .. item + 1]
    <3> DEFINE moved == [seen[t] EXCEPT !.held = Len(held) + 1]
    <3>1. moved \in [held : 1 .. Len(held) + 1, waiters : 1 .. Len(waiters),
                     item : 0 .. item]
      BY <1>1, <2>1
    <3>2. view = [moved EXCEPT !.item = item + 1]
      BY <2>1
    <3> HIDE DEF moved, view
    <3>3. moved \in [held : 1 .. Len(held) + 1, waiters : 1 .. Len(waiters),
                     item : 0 .. item + 1]
      BY <1>1, <3>1
    <3> QED
      BY <1>1, <3>2, <3>3
  <2> QED
    BY <2>2, <2>3
<1>3. /\ item' = item + 1 /\ waiters' = waiters
      /\ held' = Append(held, [tid |-> NoTid, view |-> view])
      /\ seen' = [seen EXCEPT ![t] = view]
  BY DEF Swap, Carried
<1> HIDE DEF view
<1>4. Len(held') = Len(held) + 1
  BY <1>1, <1>3
<1>5. view \in Views'
  BY <1>1, <1>2, <1>3, <1>4 DEF Views
<1>6. Entries \subseteq Entries'
  BY <1>1, <1>3, <1>4, ViewsGrow
<1>7. [tid |-> NoTid, view |-> view] \in Entries' /\ held \in Seq(Entries')
  <2>1. [tid |-> NoTid, view |-> view] \in Entries'
    BY <1>5 DEF Entries
  <2>2. held \in Seq(Entries)
    BY DEF TypeOK, Entries
  <2> QED
    BY <1>6, <2>1, <2>2, SeqGrows
<1>8. /\ held' \in Seq(Entries') /\ Last(held') = [tid |-> NoTid, view |-> view]
      /\ held'[Len(held) + 1] = [tid |-> NoTid, view |-> view]
      /\ \A n \in 1 .. Len(held) : held'[n] = held[n]
  BY <1>3, <1>7, AppendIsLast
<1>9. seen'[t] = view /\ seen' = [seen EXCEPT ![t] = seen'[t]]
  BY <1>3 DEF TypeOK
<1> QED
  BY <1>2, <1>3, <1>4, <1>5, <1>8, <1>9

\* A step of t whose effects are typed against the memory before it, or after.
Grown(t) ==
  /\ held' \in Seq(Entries) \cup Seq(Entries') /\ Len(held') >= Len(held)
  /\ waiters' \in Seq(Nat) /\ Len(waiters') >= Len(waiters)
  /\ item' \in Nat /\ item' >= item /\ pipe' \in 0 .. Capacity /\ calls' \in 0 .. MaxCalls
  /\ seen' = [seen EXCEPT ![t] = seen'[t]] /\ seen'[t] \in Views \cup Views'
  /\ fenced' \in Views \cup Views' /\ piped' \in Views \cup Views'
  /\ pc' \in [Threads -> Points] /\ contended' \in [Threads -> BOOLEAN]

LEMMA TypeParts ==
  ASSUME TypeOK, NEW t \in Threads, Grown(t)
  PROVE  TypeOK'
<1> USE DEF Grown
<1>1. Len(held) \in Nat \ {0} /\ Len(waiters) \in Nat \ {0} /\ item \in Nat
  BY OrdersHaveLast DEF TypeOK
<1>2. Len(held') \in Nat /\ Len(waiters') \in Nat
  OBVIOUS
<1>3. Views \subseteq Views' /\ Entries \subseteq Entries'
  BY <1>1, <1>2, ViewsGrow
<1>4. held' \in Seq(Entries') /\ Len(held') > 0 /\ Len(waiters') > 0
  BY <1>1, <1>2, <1>3, SeqGrows
<1>5. held' \in Seq([tid : Threads \cup {NoTid}, view : Views'])
  BY <1>4 DEF Entries
<1>6. seen' \in [Threads -> Views'] /\ fenced' \in Views' /\ piped' \in Views'
  BY <1>3 DEF TypeOK
<1> QED
  BY <1>4, <1>5, <1>6 DEF TypeOK

LEMMA TypeOfPoints ==
  {"idle", "announce", "announced", "try", "read", "won", "giveup",
   "cs", "swapped", "check", "write"} = Points
BY DEF Points

LEMMA InitTypes == Init => TypeOK
<1> SUFFICES ASSUME Init PROVE TypeOK
  OBVIOUS
<1>1. held = <<[tid |-> NoTid, view |-> Unseen]>> /\ waiters = <<0>> /\ item = 0
  BY DEF Init
<1>2. Len(held) = 1 /\ Len(waiters) = 1
  BY <1>1
<1>3. Unseen \in Views
  BY <1>1, <1>2 DEF Unseen, Views
<1>4. held \in Seq([tid : Threads \cup {NoTid}, view : Views]) /\ waiters \in Seq(Nat)
  BY <1>1, <1>3
<1> QED
  BY <1>1, <1>2, <1>3, <1>4, PipeFenceAssumption DEF Init, TypeOK, Points

LEMMA TypeStep == TypeOK /\ CountIsExact /\ [Next]_vars => TypeOK'
<1> SUFFICES ASSUME TypeOK, CountIsExact, [Next]_vars PROVE TypeOK'
  OBVIOUS
<1> USE TypeOfPoints
<1>0. /\ held \in Seq(Entries) /\ Len(held) \in Nat \ {0}
      /\ waiters \in Seq(Nat) /\ Len(waiters) \in Nat \ {0}
      /\ item \in Nat /\ pipe \in 0 .. Capacity /\ calls \in 0 .. MaxCalls
      /\ seen \in [Threads -> Views] /\ fenced \in Views /\ piped \in Views
      /\ pc \in [Threads -> Points] /\ contended \in [Threads -> BOOLEAN]
  BY OrdersHaveLast DEF TypeOK, Entries
<1>1. ASSUME NEW t \in Threads, lock(t) PROVE TypeOK'
  <2> DEFINE rest == /\ UNCHANGED <<waiters, item, pipe, fenced, piped, contended>>
                     /\ calls' = calls + 1 /\ calls < MaxCalls
  <2>0. rest /\ calls' \in 0 .. MaxCalls
    BY <1>0, <1>1, PipeFenceAssumption DEF lock
  <2>1. CASE Exchange(t) /\ Goto(t, "cs")
    <3>1. seen'[t] \in Views'
      BY <2>0, <2>1, ExchangeIsTaking DEF Views
    <3>9. Grown(t)
      BY <1>0, <2>0, <2>1, <3>1, ExchangeIsTaking DEF Grown, Goto
    <3> QED
      BY <3>9, TypeParts
  <2>2. ASSUME NEW n \in DOMAIN held, LoadHolder(t, n), UNCHANGED held,
               Goto(t, IF held[n].tid = t THEN "idle" ELSE "announce")
        PROVE  TypeOK'
    <3>1. pc' \in [Threads -> Points]
      BY <1>0, <2>2 DEF Goto
    <3>9. Grown(t)
      BY <1>0, <2>0, <2>2, <3>1, LoadIsLooking DEF Grown
    <3> QED
      BY <3>9, TypeParts
  <2> QED
    BY <1>1, <2>1, <2>2 DEF lock
<1>2. ASSUME NEW t \in Threads, Announce(t) PROVE TypeOK'
  <2>1. Last(waiters) + 1 \in Nat /\ SetWaiters(t, Last(waiters) + 1)
    BY <1>2, OrdersHaveLast DEF Announce
  <2>2. seen'[t] \in Views'
    BY <1>2, <2>1, SetIsAppending DEF Announce, Views
  <2>3. pc' \in [Threads -> Points]
    BY <1>0, <1>2 DEF Announce, Goto
  <2>9. Grown(t)
    BY <1>0, <1>2, <2>1, <2>2, <2>3, SetIsAppending DEF Grown, Announce
  <2> QED
    BY <2>9, TypeParts
<1>3. ASSUME NEW t \in Threads, Fence(t) PROVE TypeOK'
  <2>1. fenced' \in Views /\ seen' = [seen EXCEPT ![t] = fenced'] /\ seen'[t] = fenced'
    BY <1>0, <1>3, JoinIsView DEF Fence
  <2>2. pc' \in [Threads -> Points] /\ contended' \in [Threads -> BOOLEAN]
    BY <1>0, <1>3 DEF Fence, Goto
  <2>3. /\ held' = held /\ waiters' = waiters /\ item' = item
        /\ pipe' = pipe /\ piped' = piped /\ calls' = calls
    BY <1>3 DEF Fence, memory
  <2>7. /\ held' \in Seq(Entries) \cup Seq(Entries') /\ Len(held') >= Len(held)
        /\ waiters' \in Seq(Nat) /\ Len(waiters') >= Len(waiters)
        /\ item' \in Nat /\ item' >= item
    BY <1>0, <2>1, <2>2, <2>3
  <2>8. /\ seen' = [seen EXCEPT ![t] = seen'[t]] /\ seen'[t] \in Views \cup Views'
        /\ fenced' \in Views \cup Views' /\ piped' \in Views \cup Views'
    BY <1>0, <2>1, <2>2, <2>3
  <2>9. Grown(t)
    BY <1>0, <2>1, <2>2, <2>3, <2>7, <2>8 DEF Grown
  <2> QED
    BY <2>9, TypeParts
<1>4. ASSUME NEW t \in Threads, TryLock(t) PROVE TypeOK'
  <2>1. CASE Exchange(t) /\ Goto(t, "won")
    <3>1. seen'[t] \in Views'
      BY <1>4, <2>1, ExchangeIsTaking DEF Views, TryLock
    <3>9. Grown(t)
      BY <1>0, <1>4, <2>1, <3>1, ExchangeIsTaking DEF Grown, Goto, TryLock
    <3> QED
      BY <3>9, TypeParts
  <2>2. ASSUME NEW n \in DOMAIN held, LoadHolder(t, n), UNCHANGED held,
               NEW point \in Points, Goto(t, point)
        PROVE  TypeOK'
    <3>9. Grown(t)
      BY <1>0, <1>4, <2>2, LoadIsLooking DEF Grown, Goto, TryLock
    <3> QED
      BY <3>9, TypeParts
  <2> QED
    BY <1>4, <2>1, <2>2 DEF TryLock
<1>5. ASSUME NEW t \in Threads, Withdraw(t) PROVE TypeOK'
  <2>1. t \in Announced
    BY <1>5 DEF Withdraw, Announced
  <2>2. Cardinality(Announced) \in Nat \ {0}
    BY <2>1, FS_EmptySet, FS_CardinalityType DEF CountIsExact
  <2>3. Last(waiters) - 1 \in Nat /\ SetWaiters(t, Last(waiters) - 1)
    BY <1>5, <2>2 DEF Withdraw, CountIsExact
  <2>4. seen'[t] \in Views'
    BY <1>5, <2>3, SetIsAppending DEF Withdraw, Views
  <2>5. pc' \in [Threads -> Points] /\ contended' \in [Threads -> BOOLEAN]
    BY <1>0, <1>5 DEF Withdraw, Goto
  <2>9. Grown(t)
    BY <1>0, <1>5, <2>3, <2>4, <2>5, SetIsAppending DEF Grown, Withdraw
  <2> QED
    BY <2>9, TypeParts
<1>6. ASSUME NEW t \in Threads, read(t) PROVE TypeOK'
  <2>1. pipe' \in 0 .. Capacity /\ pc' \in [Threads -> Points]
    BY <1>0, <1>6, PipeFenceAssumption DEF read, Goto
  <2>2. piped' \in Views /\ seen' = [seen EXCEPT ![t] = piped'] /\ seen'[t] = piped'
    BY <1>0, <1>6, MutexIsJoining DEF read
  <2>9. Grown(t)
    BY <1>0, <1>6, <2>1, <2>2 DEF Grown, read, memory
  <2> QED
    BY <2>9, TypeParts
<1>7. ASSUME NEW t \in Threads, Swap(t) PROVE TypeOK'
  <2>1. held' \in Seq(Entries') /\ Len(held') = Len(held) + 1 /\ seen'[t] \in Views'
        /\ seen' = [seen EXCEPT ![t] = seen'[t]]
    BY <1>7, SwapIsFreeing
  <2>2. pc' \in [Threads -> Points] /\ contended' \in [Threads -> BOOLEAN]
    BY <1>0, <1>7 DEF Swap, Goto
  <2>3. /\ waiters' = waiters /\ item' = item + 1
        /\ pipe' = pipe /\ fenced' = fenced /\ piped' = piped /\ calls' = calls
    BY <1>7 DEF Swap
  <2>7. /\ held' \in Seq(Entries) \cup Seq(Entries') /\ Len(held') >= Len(held)
        /\ waiters' \in Seq(Nat) /\ Len(waiters') >= Len(waiters)
        /\ item' \in Nat /\ item' >= item
    BY <1>0, <2>1, <2>2, <2>3
  <2>8. /\ seen' = [seen EXCEPT ![t] = seen'[t]] /\ seen'[t] \in Views \cup Views'
        /\ fenced' \in Views \cup Views' /\ piped' \in Views \cup Views'
    BY <1>0, <2>1, <2>2, <2>3
  <2>9. Grown(t)
    BY <1>0, <2>1, <2>2, <2>3, <2>7, <2>8 DEF Grown
  <2> QED
    BY <2>9, TypeParts
<1>8. ASSUME NEW t \in Threads, CheckWaiters(t) PROVE TypeOK'
  <2>1. PICK n \in seen[t].waiters .. Len(waiters) :
              /\ seen' = [seen EXCEPT ![t].waiters = n]
              /\ IF waiters[n] > 0 THEN Goto(t, "write") /\ UNCHANGED contended
                                   ELSE Leave(t)
    BY <1>8 DEF CheckWaiters
  <2>2. seen[t] \in Views /\ seen'[t] = [seen[t] EXCEPT !.waiters = n]
        /\ seen' = [seen EXCEPT ![t] = seen'[t]]
    BY <1>0, <2>1
  <2>3. seen'[t] \in Views
    <3>1. n \in 1 .. Len(waiters)
      <4>1. seen[t].waiters \in 1 .. Len(waiters) /\ Len(waiters) \in Nat
        BY <1>0, <2>2 DEF Views
      <4> QED
        BY <2>1, <4>1
    <3> QED
      BY <2>2, <3>1 DEF Views
  <2>4. pc' \in [Threads -> Points] /\ contended' \in [Threads -> BOOLEAN]
    BY <1>0, <2>1 DEF Leave, Goto
  <2>5. /\ held' = held /\ waiters' = waiters /\ item' = item
        /\ pipe' = pipe /\ fenced' = fenced /\ piped' = piped /\ calls' = calls
    BY <1>8 DEF CheckWaiters, memory
  <2>7. /\ held' \in Seq(Entries) \cup Seq(Entries') /\ Len(held') >= Len(held)
        /\ waiters' \in Seq(Nat) /\ Len(waiters') >= Len(waiters)
        /\ item' \in Nat /\ item' >= item
    BY <1>0, <2>2, <2>3, <2>4, <2>5
  <2>8. /\ seen' = [seen EXCEPT ![t] = seen'[t]] /\ seen'[t] \in Views \cup Views'
        /\ fenced' \in Views \cup Views' /\ piped' \in Views \cup Views'
    BY <1>0, <2>2, <2>3, <2>4, <2>5
  <2>9. Grown(t)
    BY <1>0, <2>2, <2>3, <2>4, <2>5, <2>7, <2>8 DEF Grown
  <2> QED
    BY <2>9, TypeParts
<1>9. ASSUME NEW t \in Threads, write(t) PROVE TypeOK'
  <2>1. pipe' \in 0 .. Capacity
    BY <1>0, <1>9, PipeFenceAssumption DEF write
  <2>2. pc' \in [Threads -> Points] /\ contended' \in [Threads -> BOOLEAN]
    BY <1>0, <1>9 DEF write, Leave, Goto
  <2>3. piped' \in Views /\ seen' = [seen EXCEPT ![t] = piped'] /\ seen'[t] = piped'
    BY <1>0, <1>9, MutexIsJoining DEF write
  <2>9. Grown(t)
    BY <1>0, <1>9, <2>1, <2>2, <2>3 DEF Grown, write, memory
  <2> QED
    BY <2>9, TypeParts
<1>10. CASE UNCHANGED vars
  BY <1>10 DEF vars, memory, TypeOK, Views
<1> QED
  BY <1>1, <1>2, <1>3, <1>4, <1>5, <1>6, <1>7, <1>8, <1>9, <1>10 DEF Next, Step

-----------------------------------------------------------------------------
(* What all steps have in common *)

\* The parts of IInv about the guard and about those who wait.
GuardParts == HolderIsLast /\ GuardSeesItem /\ FreeCarriesItem /\ NeverItsOwn
WaitParts == FenceShowsWaiters /\ FenceShowsSwap /\ OneSeesTheOther
             /\ ReaderSawHolder /\ FreeIsNoticed

InRange ==
  /\ Len(held) \in Nat \ {0} /\ Len(waiters) \in Nat \ {0} /\ item \in Nat
  /\ pipe \in Nat
  /\ \A t \in Threads : /\ seen[t].held \in 1 .. Len(held)
                        /\ seen[t].waiters \in 1 .. Len(waiters)
                        /\ seen[t].item \in 0 .. item
  /\ fenced.held \in 1 .. Len(held) /\ fenced.waiters \in 1 .. Len(waiters)
  /\ piped.held \in 1 .. Len(held)

LEMMA ViewsInRange == (TypeOK => InRange) /\ (TypeOK' => InRange')
<1>1. TypeOK => InRange
  <2> SUFFICES ASSUME TypeOK PROVE InRange
    OBVIOUS
  <2>1. /\ Len(held) \in Nat \ {0} /\ Len(waiters) \in Nat \ {0} /\ item \in Nat
        /\ pipe \in Nat
    BY OrdersHaveLast, PipeFenceAssumption DEF TypeOK
  <2>2. seen \in [Threads -> Views] /\ fenced \in Views /\ piped \in Views
    BY DEF TypeOK
  <2> QED
    BY <2>1, <2>2 DEF InRange, Views
<1>2. TypeOK' => InRange'
  BY <1>1, PTL
<1> QED
  BY <1>1, <1>2

LEMMA ViewsAreNumbers ==
  ASSUME InRange
  PROVE  piped.held \in Nat /\ \A t \in Threads : seen[t].held \in Nat
BY DEF InRange

\* While holder_tid and the item stay, the guard stays too.
LEMMA GuardStays ==
  ASSUME TypeOK, TypeOK', GuardParts, NEW t \in Threads,
         held' = held, item' = item,
         \A u \in Threads \ {t} : pc'[u] = pc[u] /\ seen'[u] = seen[u],
         seen'[t].held >= seen[t].held, seen'[t].item >= seen[t].item,
         pc'[t] # "giveup", pc'[t] \in {"won", "cs"} <=> pc[t] \in {"won", "cs"}
  PROVE  GuardParts'
<1>1. /\ seen[t].held \in Nat /\ seen'[t].held \in Nat
      /\ seen[t].item \in 0 .. item /\ seen'[t].item \in 0 .. item
      /\ Len(held) \in Nat
  BY SMTT(30), ViewsInRange DEF InRange
<1>2. HolderIsLast' /\ FreeCarriesItem'
  BY DEF GuardParts, HolderIsLast, FreeCarriesItem
<1>3. GuardSeesItem'
  BY <1>1 DEF GuardParts, GuardSeesItem
<1>4. NeverItsOwn'
  BY <1>1 DEF GuardParts, NeverItsOwn
<1> QED
  BY <1>2, <1>3, <1>4 DEF GuardParts

\* The calls that are counted, if t alone moves.
LEMMA CountStays ==
  ASSUME CountIsExact, NEW t \in Threads, waiters' = waiters,
         \A u \in Threads \ {t} : pc'[u] = pc[u],
         pc[t] \in {"announced", "try", "read", "won", "giveup"}
           <=> pc'[t] \in {"announced", "try", "read", "won", "giveup"}
  PROVE  CountIsExact'
<1>1. Announced' = Announced
  BY DEF Announced
<1> QED
  BY <1>1 DEF CountIsExact

\* Somebody who is counted other than t.
LEMMA AnotherCounts ==
  ASSUME CountIsExact, NEW t \in Announced, NEW u \in Announced, t # u
  PROVE  Last(waiters) - 1 > 0
<1>1. /\ IsFiniteSet(Announced \ {t})
      /\ Cardinality(Announced \ {t}) = Cardinality(Announced) - 1
  BY FS_RemoveElement DEF CountIsExact
<1>2. u \in Announced \ {t}
  OBVIOUS
<1>3. Cardinality(Announced \ {t}) \in Nat \ {0} /\ Cardinality(Announced) \in Nat
  BY <1>1, <1>2, FS_EmptySet, FS_CardinalityType DEF CountIsExact
<1> QED
  BY <1>1, <1>3 DEF CountIsExact

-----------------------------------------------------------------------------
(* Steps that take the lock *)

LEMMA TakeStep ==
  ASSUME IInv, TypeOK', NEW t \in Threads, Exchange(t),
         UNCHANGED <<waiters, item, pipe, fenced, piped>>,
         \/ pc[t] = "idle" /\ Goto(t, "cs")
         \/ pc[t] = "try" /\ Goto(t, "won")
  PROVE  IInv'
<1> USE DEF IInv
<1>1. /\ Last(held).tid = NoTid /\ Last(held).view.item = item
      /\ Len(held') = Len(held) + 1
      /\ Last(held').tid = t /\ Last(held') = held'[Len(held) + 1]
      /\ \A n \in 1 .. Len(held) : held'[n] = held[n]
      /\ seen' = [seen EXCEPT ![t] = seen'[t]]
      /\ seen'[t].held = Len(held) + 1
      /\ seen'[t].item >= item
  BY ExchangeIsTaking DEF FreeCarriesItem
<1>2. /\ pc'[t] \in {"won", "cs"}
      /\ pc[t] \notin {"won", "cs"}
      /\ \A u \in Threads \ {t} : pc'[u] = pc[u] /\ seen'[u] = seen[u]
  BY <1>1 DEF Goto, TypeOK
<1>3. /\ Len(held) \in Nat \ {0} /\ Len(waiters) \in Nat \ {0} /\ item \in Nat
      /\ \A u \in Threads : /\ seen[u].held \in 1 .. Len(held)
                            /\ seen[u].item \in 0 .. item
                            /\ seen'[u].item \in 0 .. item
  BY ViewsInRange DEF InRange
<1>4. t # NoTid /\ Last(held').tid # NoTid
  BY <1>1, PipeFenceAssumption
<1>5. \A u \in Threads : pc[u] \notin {"won", "cs"}
  BY <1>1, PipeFenceAssumption DEF HolderIsLast
<1>6. HolderIsLast'
  BY <1>1, <1>2, <1>5 DEF HolderIsLast
<1>7. GuardSeesItem'
  BY <1>1, <1>2, <1>3, <1>5 DEF GuardSeesItem
<1>8. FreeCarriesItem' /\ OneSeesTheOther' /\ FreeIsNoticed'
  BY <1>4 DEF FreeCarriesItem, OneSeesTheOther, FreeIsNoticed
<1>9. NeverItsOwn'
  <2> SUFFICES ASSUME NEW u \in Threads
               PROVE  /\ pc'[u] # "giveup"
                      /\ pc'[u] \notin {"won", "cs"} =>
                           \A n \in seen'[u].held .. Len(held') : held'[n].tid # u
    BY DEF NeverItsOwn
  <2>1. CASE u = t
    BY <1>2, <2>1
  <2>2. ASSUME u # t, NEW n \in seen[u].held .. Len(held) + 1 PROVE held'[n].tid # u
    <3>1. n \in seen[u].held .. Len(held) \/ n = Len(held) + 1
      BY <1>3, <2>2
    <3>2. CASE n \in seen[u].held .. Len(held)
      <4>1. n \in 1 .. Len(held)
        BY <1>3, <3>2
      <4> QED
        BY <1>1, <1>5, <3>2, <4>1 DEF NeverItsOwn
    <3>3. CASE n = Len(held) + 1
      BY <1>1, <2>2, <3>3
    <3> QED
      BY <3>1, <3>2, <3>3
  <2> QED
    BY <1>1, <1>2, <2>1, <2>2 DEF NeverItsOwn
<1>10. CountIsExact'
  BY <1>2, CountStays DEF Goto, TypeOK
<1>11. FenceShowsWaiters' /\ FenceShowsSwap'
  BY <1>2 DEF FenceShowsWaiters, FenceShowsSwap, ShowsWaiters
<1>12. ReaderSawHolder'
  BY SMTT(30), <1>1, <1>2, <1>3 DEF ReaderSawHolder
<1> QED
  BY <1>6, <1>7, <1>8, <1>9, <1>10, <1>11, <1>12

-----------------------------------------------------------------------------
(* Steps of a locker *)

\* The call that finds a value other than a free lock.
LEMMA LookStep ==
  ASSUME IInv, TypeOK', NEW t \in Threads, NEW n \in DOMAIN held, LoadHolder(t, n),
         UNCHANGED <<memory, pipe, fenced, piped>>, pc[t] = "idle",
         NEW point \in {"idle", "announce"}, Goto(t, point)
  PROVE  IInv'
<1> USE DEF IInv
<1>1. /\ seen'[t].held >= seen[t].held /\ seen'[t].item = seen[t].item
      /\ \A u \in Threads \ {t} : pc'[u] = pc[u] /\ seen'[u] = seen[u]
      /\ pc'[t] = point
  BY LoadIsLooking DEF Goto, TypeOK
<1>2. /\ held' = held /\ waiters' = waiters /\ item' = item /\ pipe' = pipe
      /\ fenced' = fenced /\ piped' = piped
  BY DEF memory
<1>3. GuardParts'
  <2>1. seen[t].item \in Nat
    BY ViewsInRange DEF InRange
  <2>2. seen'[t].item >= seen[t].item
    BY <1>1, <2>1
  <2>3. pc'[t] # "giveup" /\ pc'[t] \notin {"won", "cs"} /\ pc[t] \notin {"won", "cs"}
    BY <1>1
  <2> QED
    BY <1>1, <1>2, <2>2, <2>3, GuardStays DEF GuardParts
<1>4. CountIsExact'
  BY <1>1, <1>2, CountStays
<1>5. FenceShowsWaiters' /\ FenceShowsSwap'
  BY <1>1, <1>2 DEF FenceShowsWaiters, FenceShowsSwap, ShowsWaiters
<1>6. OneSeesTheOther' /\ ReaderSawHolder'
  BY <1>1, <1>2 DEF OneSeesTheOther, ReaderSawHolder, SeesFree, ShowsWaiters
<1>7. FreeIsNoticed'
  BY <1>1, <1>2 DEF FreeIsNoticed, SeesFree
<1> QED
  BY <1>3, <1>4, <1>5, <1>6, <1>7 DEF GuardParts

LEMMA AnnounceStep == ASSUME IInv, TypeOK', NEW t \in Threads, Announce(t) PROVE IInv'
<1>0. Last(waiters) \in Nat /\ waiters \in Seq(Nat) /\ Len(waiters) \in Nat
  <2>1. TypeOK
    BY DEF IInv
  <2>2. Len(waiters) \in Nat \ {0} /\ Last(waiters) = waiters[Len(waiters)]
    BY <2>1, OrdersHaveLast
  <2>3. waiters \in Seq(Nat)
    BY <2>1 DEF TypeOK
  <2> QED
    BY <2>2, <2>3
<1> USE DEF IInv
<1>1. /\ Len(waiters') = Len(waiters) + 1
      /\ Last(waiters') = Last(waiters) + 1
      /\ waiters'[Len(waiters) + 1] = Last(waiters) + 1
      /\ \A n \in 1 .. Len(waiters) : waiters'[n] = waiters[n]
      /\ seen'[t].held = seen[t].held /\ seen'[t].waiters = Len(waiters) + 1
      /\ seen'[t].item = seen[t].item
      /\ seen' = [seen EXCEPT ![t] = seen'[t]]
  BY <1>0, SetIsAppending DEF Announce
<1>2. /\ pc[t] = "announce" /\ pc'[t] = "announced"
      /\ \A u \in Threads \ {t} : pc'[u] = pc[u] /\ seen'[u] = seen[u]
      /\ held' = held /\ item' = item /\ pipe' = pipe
      /\ fenced' = fenced /\ piped' = piped
  BY <1>1 DEF Announce, Goto, TypeOK
<1>3. InRange
  BY ViewsInRange
<1>4. GuardParts'
  BY SMTT(30), <1>1, <1>2, <1>3, GuardStays DEF GuardParts, InRange
<1>5. CountIsExact'
  <2>1. Announced' = Announced \cup {t} /\ t \notin Announced
    BY <1>2 DEF Announced
  <2> QED
    BY <1>1, <2>1, FS_AddElement DEF CountIsExact
\* Whatever showed somebody waiting still does.
<1>6. ASSUME NEW first \in 1 .. Len(waiters),
             \A n \in first .. Len(waiters) : waiters[n] > 0
      PROVE  \A n \in first .. Len(waiters') : waiters'[n] > 0
  <2>1. \A n \in first .. Len(waiters) + 1 :
          n = Len(waiters) + 1 \/ n \in (first .. Len(waiters)) \cap (1 .. Len(waiters))
    BY <1>0
  <2> QED
    BY SMTT(30), <1>0, <1>1, <1>6, <2>1
<1>7. FenceShowsWaiters' /\ FenceShowsSwap'
  <2>1. ASSUME NEW u \in Threads, pc'[u] = "announced" PROVE ShowsWaiters(seen[u])'
    <3>1. CASE u = t
      BY <1>0, <1>1, <3>1 DEF ShowsWaiters
    <3>2. CASE u # t
      BY <1>2, <1>3, <1>6, <2>1, <3>2 DEF FenceShowsWaiters, ShowsWaiters, InRange
    <3> QED
      BY <3>1, <3>2
  <2>2. ASSUME NEW u \in Threads, pc'[u] \in {"try", "read"} PROVE ShowsWaiters(fenced)'
    BY <1>2, <1>3, <1>6, <2>2 DEF FenceShowsWaiters, ShowsWaiters, InRange
  <2>3. FenceShowsSwap'
    BY <1>2 DEF FenceShowsSwap
  <2> QED
    BY <2>1, <2>2, <2>3 DEF FenceShowsWaiters
<1>8. OneSeesTheOther'
  <2> SUFFICES ASSUME Last(held).tid = NoTid, NEW v \in Threads, NEW u \in Threads,
                      pc'[u] = "check", seen'[u].held = Len(held),
                      pc'[v] \in {"try", "read"}, seen'[v].held # Len(held)
               PROVE  ShowsWaiters(seen[u])'
    BY <1>2 DEF OneSeesTheOther, SeesFree
  <2>1. u # t /\ v # t
    BY <1>2
  <2>2. ShowsWaiters(seen[u])
    BY <1>2, <2>1 DEF OneSeesTheOther, SeesFree
  <2> QED
    BY <1>2, <1>3, <1>6, <2>1, <2>2 DEF ShowsWaiters, InRange
<1>9. ReaderSawHolder'
  BY <1>2 DEF ReaderSawHolder
<1>10. FreeIsNoticed'
  BY <1>1, <1>2 DEF FreeIsNoticed, SeesFree
<1> QED
  BY <1>4, <1>5, <1>7, <1>8, <1>9, <1>10 DEF GuardParts

\* Nobody gives up: only the new holder of the lock withdraws.
LEMMA WithdrawStep == ASSUME IInv, TypeOK', NEW t \in Threads, Withdraw(t) PROVE IInv'
<1> USE DEF IInv
<1>0. waiters \in Seq(Nat) /\ Len(waiters) \in Nat /\ t \in Announced
      /\ Cardinality(Announced) \in Nat \ {0} /\ Last(waiters) - 1 \in Nat
  <2>1. t \in Announced
    BY DEF Withdraw, Announced
  <2>2. Cardinality(Announced) \in Nat \ {0}
    BY <2>1, FS_EmptySet, FS_CardinalityType DEF CountIsExact
  <2> QED
    BY SMTT(30), <2>1, <2>2, OrdersHaveLast DEF TypeOK, CountIsExact
<1>1. /\ Len(waiters') = Len(waiters) + 1
      /\ Last(waiters') = Last(waiters) - 1
      /\ waiters'[Len(waiters) + 1] = Last(waiters) - 1
      /\ \A n \in 1 .. Len(waiters) : waiters'[n] = waiters[n]
      /\ seen'[t].held = seen[t].held /\ seen'[t].waiters = Len(waiters) + 1
      /\ seen'[t].item = seen[t].item
      /\ seen' = [seen EXCEPT ![t] = seen'[t]]
  BY <1>0, SetIsAppending DEF Withdraw
<1>2. /\ pc[t] = "won" /\ pc'[t] = "cs"
      /\ \A u \in Threads \ {t} : pc'[u] = pc[u] /\ seen'[u] = seen[u]
      /\ held' = held /\ item' = item /\ pipe' = pipe
      /\ fenced' = fenced /\ piped' = piped
  BY <1>1 DEF Withdraw, Goto, TypeOK, NeverItsOwn
<1>3. InRange
  BY ViewsInRange
<1>4. GuardParts'
  BY <1>1, <1>2, <1>3, GuardStays DEF GuardParts, InRange
<1>5. CountIsExact'
  <2>1. Announced' = Announced \ {t}
    BY <1>2 DEF Announced
  <2> QED
    BY <1>0, <1>1, <2>1, FS_RemoveElement DEF CountIsExact
\* As long as somebody else waits, the count is positive.
<1>6. ASSUME NEW u \in Threads, pc'[u] \in {"announced", "try", "read"},
             NEW first \in 1 .. Len(waiters),
             \A n \in first .. Len(waiters) : waiters[n] > 0
      PROVE  \A n \in first .. Len(waiters') : waiters'[n] > 0
  <2>1. u # t /\ u \in Announced
    BY <1>2, <1>6 DEF Announced
  <2>2. Last(waiters) - 1 > 0
    BY <1>0, <2>1, AnotherCounts
  <2>3. \A n \in first .. Len(waiters) + 1 :
          n = Len(waiters) + 1 \/ n \in (first .. Len(waiters)) \cap (1 .. Len(waiters))
    BY <1>0
  <2> QED
    BY <1>0, <1>1, <1>6, <2>2, <2>3
<1>7. FenceShowsWaiters' /\ FenceShowsSwap'
  <2>1. ASSUME NEW u \in Threads, pc'[u] = "announced" PROVE ShowsWaiters(seen[u])'
    BY <1>2, <1>3, <1>6, <2>1 DEF FenceShowsWaiters, ShowsWaiters, InRange
  <2>2. ASSUME NEW u \in Threads, pc'[u] \in {"try", "read"} PROVE ShowsWaiters(fenced)'
    BY <1>2, <1>3, <1>6, <2>2 DEF FenceShowsWaiters, ShowsWaiters, InRange
  <2>3. FenceShowsSwap'
    BY <1>2 DEF FenceShowsSwap
  <2> QED
    BY <2>1, <2>2, <2>3 DEF FenceShowsWaiters
<1>8. Last(held').tid # NoTid
  BY <1>2, PipeFenceAssumption DEF HolderIsLast
<1>9. ReaderSawHolder'
  BY <1>2 DEF ReaderSawHolder
<1>10. FreeIsNoticed' /\ OneSeesTheOther'
  BY <1>8 DEF FreeIsNoticed, OneSeesTheOther
<1> QED
  BY <1>4, <1>5, <1>7, <1>9, <1>10 DEF GuardParts

\* A try that fails: who has seen the lock free tries again.
LEMMA TryStep ==
  ASSUME IInv, TypeOK', NEW t \in Threads, pc[t] = "try",
         NEW n \in DOMAIN held, LoadHolder(t, n), UNCHANGED <<memory, pipe, fenced, piped>>,
         Goto(t, CASE held[n].tid = NoTid -> "try"
                   [] held[n].tid = t     -> "giveup"
                   [] OTHER               -> "read")
  PROVE  IInv'
<1> USE DEF IInv
<1>1. /\ n \in 1 .. Len(held) /\ n >= seen[t].held
      /\ seen'[t].held = n /\ seen'[t].item = seen[t].item
      /\ \A u \in Threads \ {t} : pc'[u] = pc[u] /\ seen'[u] = seen[u]
  BY LoadIsLooking DEF Goto, TypeOK
<1>2. /\ held' = held /\ waiters' = waiters /\ item' = item /\ pipe' = pipe
      /\ fenced' = fenced /\ piped' = piped
  BY DEF memory
<1>3. InRange /\ Last(held) = held[Len(held)]
  BY ViewsInRange, OrdersHaveLast
<1>4. n \in seen[t].held .. Len(held)
  BY <1>1, <1>3 DEF InRange
<1>5. held[n].tid # t
  BY <1>4 DEF NeverItsOwn
<1>6. pc'[t] = IF held[n].tid = NoTid THEN "try" ELSE "read"
  BY <1>5 DEF Goto, TypeOK
<1>7. Last(held).tid = NoTid /\ SeesFree(t) => n = Len(held) /\ pc'[t] = "try"
  BY <1>1, <1>3, <1>4, <1>6 DEF SeesFree
<1>8. GuardParts'
  BY <1>1, <1>2, <1>3, <1>6, GuardStays DEF GuardParts, InRange
<1>9. CountIsExact'
  BY <1>1, <1>2, <1>6, CountStays
<1>10. FenceShowsWaiters' /\ FenceShowsSwap'
  BY <1>1, <1>2, <1>6 DEF FenceShowsWaiters, FenceShowsSwap, ShowsWaiters
<1>11. OneSeesTheOther'
  <2> SUFFICES ASSUME Last(held).tid = NoTid, NEW v \in Threads, NEW u \in Threads,
                      pc'[u] = "check", seen'[u].held = Len(held),
                      pc'[v] \in {"try", "read"}, seen'[v].held # Len(held)
               PROVE  ShowsWaiters(seen[u])'
    BY <1>2 DEF OneSeesTheOther, SeesFree
  <2>1. u # t
    BY <1>6
  <2>2. pc[v] \in {"try", "read"} /\ ~SeesFree(v)
    BY <1>1, <1>7 DEF SeesFree
  <2>3. ShowsWaiters(seen[u])
    BY <1>1, <2>1, <2>2 DEF OneSeesTheOther, SeesFree
  <2> QED
    BY <1>1, <1>2, <2>1, <2>3 DEF ShowsWaiters
<1>12. ReaderSawHolder'
  BY <1>1, <1>2, <1>6 DEF ReaderSawHolder
<1>13. FreeIsNoticed'
  <2> SUFFICES ASSUME Last(held).tid = NoTid PROVE FreeIsNoticed'
    BY <1>2 DEF FreeIsNoticed
  <2>1. ASSUME NEW u \in Threads, SeesFree(u), pc[u] \in {"try", "swapped", "check", "write"}
        PROVE  SeesFree(u)' /\ pc'[u] \in {"try", "swapped", "check", "write"}
    BY <1>1, <1>2, <1>7, <2>1 DEF SeesFree
  <2>2. ASSUME NEW u \in Threads, pc'[u] \in {"try", "read"},
               \A v \in Threads : pc[v] \in {"try", "read"} => SeesFree(v)
        PROVE  SeesFree(u)'
    BY <1>1, <1>2, <1>7, <2>2 DEF SeesFree
  <2> QED
    BY <1>2, <2>1, <2>2 DEF FreeIsNoticed
<1> QED
  BY <1>8, <1>9, <1>10, <1>11, <1>12, <1>13 DEF GuardParts

\* A byte shows its reader what its writer has seen.
LEMMA ReadStep == ASSUME IInv, TypeOK', NEW t \in Threads, read(t) PROVE IInv'
<1> USE DEF IInv
<1>0. InRange /\ InRange'
  BY ViewsInRange
<1>1. /\ pc[t] = "read" /\ pc'[t] = "try" /\ pipe > 0
      /\ held' = held /\ waiters' = waiters /\ item' = item /\ fenced' = fenced
      /\ seen' = [seen EXCEPT ![t] = piped'] /\ seen'[t] = piped'
      /\ seen'[t].held >= seen[t].held /\ seen'[t].held >= piped.held
      /\ seen'[t].item >= seen[t].item
      /\ \A u \in Threads \ {t} : pc'[u] = pc[u] /\ seen'[u] = seen[u]
  <2>1. /\ pc[t] = "read" /\ pipe > 0 /\ PipeMutex(t)
        /\ held' = held /\ waiters' = waiters /\ item' = item /\ fenced' = fenced
        /\ pc' = [pc EXCEPT ![t] = "try"]
    BY DEF read, memory, Goto
  <2>2. /\ seen' = [seen EXCEPT ![t] = piped']
        /\ piped'.held = IF seen[t].held >= piped.held THEN seen[t].held ELSE piped.held
        /\ piped'.item >= seen[t].item
    BY <2>1, MutexIsJoining
  <2>3. seen[t].held \in Nat /\ piped.held \in Nat
    BY <1>0, ViewsAreNumbers
  <2>4. piped'.held >= seen[t].held /\ piped'.held >= piped.held
    BY <2>2, <2>3
  <2>5. pc'[t] = "try" /\ seen'[t] = piped'
        /\ \A u \in Threads \ {t} : pc'[u] = pc[u] /\ seen'[u] = seen[u]
    BY <2>1, <2>2 DEF TypeOK
  <2> QED
    BY <2>1, <2>2, <2>4, <2>5
<1>2. seen'[t].held \in 1 .. Len(held) /\ seen[t].held \in 1 .. Len(held)
  BY <1>0, <1>1 DEF InRange
<1>3. SeesFree(t) \/ piped.held = Len(held) => SeesFree(t)'
  BY <1>0, <1>1, <1>2 DEF SeesFree, InRange
<1>4. GuardParts'
  BY <1>1, GuardStays DEF GuardParts
<1>5. CountIsExact'
  BY <1>1, CountStays
<1>6. FenceShowsWaiters' /\ FenceShowsSwap'
  BY <1>1 DEF FenceShowsWaiters, FenceShowsSwap, ShowsWaiters
<1>7. OneSeesTheOther'
  <2> SUFFICES ASSUME Last(held).tid = NoTid, NEW v \in Threads, NEW u \in Threads,
                      pc'[u] = "check", seen'[u].held = Len(held),
                      pc'[v] \in {"try", "read"}, seen'[v].held # Len(held)
               PROVE  ShowsWaiters(seen[u])'
    BY <1>1 DEF OneSeesTheOther, SeesFree
  <2>1. u # t /\ pc[v] \in {"try", "read"} /\ ~SeesFree(v)
    BY <1>1, <1>3 DEF SeesFree
  <2>2. ShowsWaiters(seen[u])
    BY <1>1, <2>1 DEF OneSeesTheOther, SeesFree
  <2> QED
    BY <1>1, <2>1, <2>2 DEF ShowsWaiters
<1>8. ReaderSawHolder'
  BY <1>1 DEF ReaderSawHolder
<1>9. FreeIsNoticed'
  <2> SUFFICES ASSUME Last(held).tid = NoTid PROVE FreeIsNoticed'
    BY <1>1 DEF FreeIsNoticed
  <2>1. ~SeesFree(t)
    BY <1>1, OrdersHaveLast DEF ReaderSawHolder, SeesFree
  <2>2. CASE \E u \in Threads : SeesFree(u) /\ pc[u] \in {"try", "swapped", "check", "write"}
    BY <1>1, <2>2 DEF FreeIsNoticed, SeesFree
  <2>3. CASE piped.held = Len(held)
    BY <1>1, <1>3, <2>3 DEF FreeIsNoticed
  <2> QED
    BY <1>1, <2>1, <2>2, <2>3 DEF FreeIsNoticed
<1> QED
  BY <1>4, <1>5, <1>6, <1>7, <1>8, <1>9 DEF GuardParts

\* F1 and F2: whichever comes second shows what happened before the first.
LEMMA FenceStep == ASSUME IInv, TypeOK', NEW t \in Threads, Fence(t) PROVE IInv'
<1> USE DEF IInv
<1>0. InRange /\ InRange'
  BY ViewsInRange
<1>1. /\ held' = held /\ waiters' = waiters /\ item' = item
      /\ pipe' = pipe /\ piped' = piped
      /\ fenced' = Join(seen[t], fenced) /\ seen' = [seen EXCEPT ![t] = fenced']
  BY DEF Fence, memory
<1>2. /\ seen[t] \in Views /\ fenced \in Views /\ Len(held) \in Nat
      /\ Len(waiters) \in Nat /\ item \in Nat
  BY <1>0 DEF TypeOK, InRange
<1>3. /\ fenced'.held >= seen[t].held /\ fenced'.held >= fenced.held
      /\ fenced'.waiters >= seen[t].waiters /\ fenced'.waiters >= fenced.waiters
      /\ fenced'.item >= seen[t].item
  BY SMTT(30), <1>0, <1>1, <1>2, JoinIsView DEF InRange
<1>4. /\ seen'[t] = fenced'
      /\ \A u \in Threads \ {t} : pc'[u] = pc[u] /\ seen'[u] = seen[u]
      /\ \/ pc[t] = "announced" /\ pc'[t] = "try"
         \/ pc[t] = "swapped" /\ pc'[t] = "check"
  BY <1>1 DEF Fence, Goto, TypeOK
<1>5. /\ Len(held) \in Nat /\ Len(waiters) \in Nat
      /\ fenced.held \in 1 .. Len(held) /\ fenced'.held \in 1 .. Len(held)
      /\ fenced.waiters \in 1 .. Len(waiters) /\ fenced'.waiters \in 1 .. Len(waiters)
      /\ \A u \in Threads : /\ seen[u].held \in 1 .. Len(held)
                            /\ seen[u].waiters \in 1 .. Len(waiters)
  BY <1>0, <1>1 DEF InRange
\* The views that the fence joins show somebody waiting.
<1>6. /\ ShowsWaiters(fenced) => ShowsWaiters(fenced)'
      /\ ShowsWaiters(seen[t]) => ShowsWaiters(fenced)'
  BY <1>1, <1>3, <1>5 DEF ShowsWaiters
<1>7. GuardParts'
  BY <1>1, <1>3, <1>4, GuardStays DEF GuardParts
<1>8. CountIsExact'
  BY <1>1, <1>4, CountStays
<1>9. FenceShowsWaiters'
  <2>1. ASSUME NEW u \in Threads, pc'[u] = "announced" PROVE ShowsWaiters(seen[u])'
    BY <1>1, <1>4, <2>1 DEF FenceShowsWaiters, ShowsWaiters
  <2>2. ASSUME NEW u \in Threads, pc'[u] \in {"try", "read"} PROVE ShowsWaiters(fenced)'
    BY <1>4, <1>6, <2>2 DEF FenceShowsWaiters
  <2> QED
    BY <2>1, <2>2 DEF FenceShowsWaiters
<1>10. FenceShowsSwap'
  BY <1>3, <1>4, <1>5 DEF FenceShowsSwap
<1>11. OneSeesTheOther'
  <2> SUFFICES ASSUME Last(held).tid = NoTid, NEW v \in Threads, NEW u \in Threads,
                      pc'[u] = "check", seen'[u].held = Len(held),
                      pc'[v] \in {"try", "read"}, seen'[v].held # Len(held)
               PROVE  ShowsWaiters(seen[u])'
    BY <1>1 DEF OneSeesTheOther, SeesFree
  <2>1. CASE u = t
    <3>1. pc[v] \in {"try", "read"}
      BY <1>4, <2>1
    <3>2. ShowsWaiters(fenced)'
      BY <1>6, <3>1 DEF FenceShowsWaiters
    <3> QED
      BY <1>4, <2>1, <3>2 DEF ShowsWaiters
  <2>2. CASE u # t
    <3>1. fenced'.held = Len(held)
      BY <1>3, <1>4, <1>5, <2>2 DEF FenceShowsSwap
    <3>2. v # t
      BY <1>4, <3>1
    <3>3. ShowsWaiters(seen[u])
      BY <1>4, <2>2, <3>2 DEF OneSeesTheOther, SeesFree
    <3> QED
      BY <1>1, <1>4, <2>2, <3>3 DEF ShowsWaiters
  <2> QED
    BY <2>1, <2>2
<1>12. ReaderSawHolder'
  BY <1>1, <1>4 DEF ReaderSawHolder
<1>13. FreeIsNoticed'
  <2> SUFFICES ASSUME Last(held).tid = NoTid PROVE FreeIsNoticed'
    BY <1>1 DEF FreeIsNoticed
  <2>1. ASSUME NEW u \in Threads, SeesFree(u), pc[u] \in {"try", "swapped", "check", "write"}
        PROVE  SeesFree(u)' /\ pc'[u] \in {"try", "swapped", "check", "write"}
    BY <1>1, <1>3, <1>4, <1>5, <2>1 DEF SeesFree
  <2>2. ASSUME fenced.held = Len(held),
               \A v \in Threads : pc[v] \in {"try", "read"} => SeesFree(v)
        PROVE  /\ fenced'.held = Len(held)
               /\ \A v \in Threads : pc'[v] \in {"try", "read"} => SeesFree(v)'
    BY <1>1, <1>3, <1>4, <1>5, <2>2 DEF SeesFree
  <2> QED
    BY <1>1, <2>1, <2>2 DEF FreeIsNoticed
<1> QED
  BY <1>7, <1>8, <1>9, <1>10, <1>11, <1>12, <1>13 DEF GuardParts

-----------------------------------------------------------------------------
(* Steps of an unlocker *)

LEMMA SwapStep == ASSUME IInv, TypeOK', NEW t \in Threads, Swap(t) PROVE IInv'
<1> USE DEF IInv
<1>0. InRange
  BY ViewsInRange
<1>1. /\ Len(held') = Len(held) + 1
      /\ Last(held').tid = NoTid /\ Last(held').view.item = item'
      /\ Last(held') = held'[Len(held) + 1]
      /\ \A n \in 1 .. Len(held) : held'[n] = held[n]
      /\ seen' = [seen EXCEPT ![t] = seen'[t]]
      /\ seen'[t].held = Len(held) + 1
  BY SwapIsFreeing
<1>2. /\ pc[t] = "cs" /\ pc'[t] \in {"write", "swapped"}
      /\ waiters' = waiters /\ fenced' = fenced
      /\ \A u \in Threads \ {t} : pc'[u] = pc[u] /\ seen'[u] = seen[u]
  BY <1>1 DEF Swap, Goto, TypeOK
<1>3. \A u \in Threads \ {t} : pc[u] \notin {"won", "cs"}
  BY <1>2 DEF HolderIsLast
<1>4. \A u \in Threads : pc'[u] \notin {"won", "cs"}
  BY <1>2, <1>3
<1>5. HolderIsLast' /\ GuardSeesItem' /\ FreeCarriesItem'
  BY <1>1, <1>4, PipeFenceAssumption DEF HolderIsLast, GuardSeesItem, FreeCarriesItem
<1>6. NeverItsOwn'
  <2> SUFFICES ASSUME NEW u \in Threads
               PROVE  /\ pc'[u] # "giveup"
                      /\ \A n \in seen'[u].held .. Len(held') : held'[n].tid # u
    BY DEF NeverItsOwn
  <2>1. pc'[u] # "giveup"
    BY <1>2 DEF NeverItsOwn
  <2>2. ASSUME NEW n \in seen'[u].held .. Len(held) + 1 PROVE held'[n].tid # u
    <3>1. CASE n = Len(held) + 1
      BY <1>1, <3>1, PipeFenceAssumption
    <3>2. CASE n # Len(held) + 1
      <4>1. u # t /\ n \in seen[u].held .. Len(held) /\ n \in 1 .. Len(held)
        BY <1>0, <1>1, <1>2, <2>2, <3>2 DEF InRange
      <4> QED
        BY <1>1, <1>3, <4>1 DEF NeverItsOwn
    <3> QED
      BY <3>1, <3>2
  <2> QED
    BY <1>1, <2>1, <2>2
<1>7. CountIsExact'
  BY <1>2, CountStays
<1>8. FenceShowsWaiters' /\ FenceShowsSwap'
  BY <1>2 DEF FenceShowsWaiters, FenceShowsSwap, ShowsWaiters
<1>9. OneSeesTheOther'
  BY <1>0, <1>1, <1>2 DEF OneSeesTheOther, SeesFree, InRange
<1>10. ReaderSawHolder'
  BY <1>0, <1>1, <1>2 DEF ReaderSawHolder, InRange
<1>11. FreeIsNoticed'
  BY <1>1, <1>2 DEF FreeIsNoticed, SeesFree
<1> QED
  BY <1>5, <1>6, <1>7, <1>8, <1>9, <1>10, <1>11

\* The count: who finds nobody waiting has shown the swap to all that will wait.
LEMMA CheckStep == ASSUME IInv, TypeOK', NEW t \in Threads, CheckWaiters(t) PROVE IInv'
<1> USE DEF IInv
<1>0. InRange
  BY ViewsInRange
<1>1. PICK n \in seen[t].waiters .. Len(waiters) :
        /\ seen' = [seen EXCEPT ![t].waiters = n]
        /\ IF waiters[n] > 0 THEN Goto(t, "write") /\ UNCHANGED contended
                             ELSE Leave(t)
  BY DEF CheckWaiters
<1>2. /\ held' = held /\ waiters' = waiters /\ item' = item
      /\ pipe' = pipe /\ fenced' = fenced /\ piped' = piped /\ pc[t] = "check"
  BY DEF CheckWaiters, memory
<1>3. /\ pc'[t] = IF waiters[n] > 0 THEN "write" ELSE "idle"
      /\ \A u \in Threads \ {t} : pc'[u] = pc[u] /\ seen'[u] = seen[u]
  BY <1>1 DEF Goto, Leave, TypeOK
<1>4. seen'[t].held = seen[t].held /\ seen'[t].item = seen[t].item
  <2>1. seen[t] \in [held : 1 .. Len(held), waiters : 1 .. Len(waiters), item : 0 .. item]
        /\ seen'[t] = [seen[t] EXCEPT !.waiters = n]
    BY <1>1 DEF TypeOK, Views
  <2> QED
    BY <2>1
<1>5. GuardParts'
  BY <1>0, <1>2, <1>3, <1>4, GuardStays DEF GuardParts, InRange
<1>6. CountIsExact'
  BY <1>2, <1>3, CountStays
<1>7. FenceShowsWaiters' /\ FenceShowsSwap'
  BY <1>2, <1>3 DEF FenceShowsWaiters, FenceShowsSwap, ShowsWaiters
<1>8. OneSeesTheOther'
  BY <1>2, <1>3 DEF OneSeesTheOther, SeesFree, ShowsWaiters
<1>9. ReaderSawHolder'
  BY <1>2, <1>3 DEF ReaderSawHolder
<1>10. FreeIsNoticed'
  <2> SUFFICES ASSUME Last(held).tid = NoTid PROVE FreeIsNoticed'
    BY <1>2 DEF FreeIsNoticed
  <2>1. ASSUME NEW u \in Threads, SeesFree(u), pc[u] \in {"try", "swapped", "check", "write"},
               u # t \/ waiters[n] > 0
        PROVE  SeesFree(u)' /\ pc'[u] \in {"try", "swapped", "check", "write"}
    BY <1>2, <1>3, <1>4, <2>1 DEF SeesFree
  <2>2. ASSUME SeesFree(t), ~(waiters[n] > 0)
        PROVE  /\ fenced'.held = Len(held)
               /\ \A v \in Threads : pc'[v] \in {"try", "read"} => SeesFree(v)'
    <3>1. ~ShowsWaiters(seen[t])
      BY <1>1, <2>2 DEF ShowsWaiters
    <3>2. fenced.held = Len(held)
      BY <1>0, <1>2, <2>2 DEF FenceShowsSwap, SeesFree, InRange
    <3>3. ASSUME NEW v \in Threads, pc'[v] \in {"try", "read"} PROVE SeesFree(v)'
      <4>1. v # t /\ pc[v] \in {"try", "read"}
        BY <1>3, <3>3
      <4>2. SeesFree(v)
        BY <1>2, <2>2, <3>1, <4>1 DEF OneSeesTheOther
      <4> QED
        BY <1>2, <1>3, <4>1, <4>2 DEF SeesFree
    <3> QED
      BY <1>2, <3>2, <3>3
  <2>3. ASSUME \A v \in Threads : pc[v] \in {"try", "read"} => SeesFree(v)
        PROVE  \A v \in Threads : pc'[v] \in {"try", "read"} => SeesFree(v)'
    BY <1>2, <1>3, <2>3 DEF SeesFree
  <2> QED
    BY <1>2, <2>1, <2>2, <2>3 DEF FreeIsNoticed
<1> QED
  BY <1>5, <1>6, <1>7, <1>8, <1>9, <1>10 DEF GuardParts

\* The byte, or the one that is in the pipe already, shows the swap.
LEMMA WriteStep == ASSUME IInv, TypeOK', NEW t \in Threads, write(t) PROVE IInv'
<1> USE DEF IInv
<1>0. InRange /\ InRange'
  BY ViewsInRange
<1>1. /\ held' = held /\ waiters' = waiters /\ item' = item /\ fenced' = fenced
      /\ pc[t] = "write" /\ pipe' = (IF pipe < Capacity THEN pipe + 1 ELSE pipe)
  BY DEF write, memory
<1>2. /\ piped' \in Views /\ seen' = [seen EXCEPT ![t] = piped']
      /\ piped'.held = IF seen[t].held >= piped.held THEN seen[t].held ELSE piped.held
      /\ piped'.item >= seen[t].item
  BY MutexIsJoining DEF write
<1>3. /\ pc'[t] = "idle" /\ seen'[t] = piped'
      /\ \A u \in Threads \ {t} : pc'[u] = pc[u] /\ seen'[u] = seen[u]
  BY <1>2 DEF write, Leave, Goto, TypeOK
<1>4. /\ Len(held) \in Nat /\ seen[t].held \in 1 .. Len(held)
      /\ piped.held \in 1 .. Len(held)
  BY <1>0 DEF InRange
<1>5. pipe' > 0 /\ (pipe > 0 => pipe' > 0)
  BY <1>0, <1>1, PipeFenceAssumption DEF InRange
<1>6. /\ piped'.held >= seen[t].held /\ piped'.held \in 1 .. Len(held)
      /\ SeesFree(t) \/ piped.held = Len(held) => piped'.held = Len(held)
  BY <1>2, <1>4 DEF SeesFree
<1>7. GuardParts'
  BY <1>1, <1>2, <1>3, <1>6, GuardStays DEF GuardParts
<1>8. CountIsExact'
  BY <1>1, <1>3, CountStays
<1>9. FenceShowsWaiters' /\ FenceShowsSwap'
  BY <1>1, <1>3 DEF FenceShowsWaiters, FenceShowsSwap, ShowsWaiters
<1>10. OneSeesTheOther'
  BY <1>1, <1>3 DEF OneSeesTheOther, SeesFree, ShowsWaiters
<1>11. ReaderSawHolder'
  BY <1>1, <1>3 DEF ReaderSawHolder
<1>12. FreeIsNoticed'
  <2> SUFFICES ASSUME Last(held).tid = NoTid PROVE FreeIsNoticed'
    BY <1>1 DEF FreeIsNoticed
  <2>1. ASSUME NEW u \in Threads \ {t}, SeesFree(u),
               pc[u] \in {"try", "swapped", "check", "write"}
        PROVE  SeesFree(u)' /\ pc'[u] \in {"try", "swapped", "check", "write"}
    BY <1>1, <1>3, <2>1 DEF SeesFree
  <2>2. ASSUME \A v \in Threads : pc[v] \in {"try", "read"} => SeesFree(v)
        PROVE  \A v \in Threads : pc'[v] \in {"try", "read"} => SeesFree(v)'
    BY <1>1, <1>3, <2>2 DEF SeesFree
  <2> QED
    BY <1>1, <1>5, <1>6, <2>1, <2>2 DEF FreeIsNoticed
<1> QED
  BY <1>7, <1>8, <1>9, <1>10, <1>11, <1>12 DEF GuardParts

-----------------------------------------------------------------------------
(* The theorems *)

LEMMA InitInv == Init => IInv
<1> SUFFICES ASSUME Init PROVE IInv
  OBVIOUS
<1>1. /\ held = <<[tid |-> NoTid, view |-> Unseen]>> /\ waiters = <<0>> /\ item = 0
      /\ fenced = Unseen /\ pc = [t \in Threads |-> "idle"]
      /\ seen = [t \in Threads |-> Unseen] /\ Unseen.held = 1 /\ Unseen.item = 0
  BY DEF Init, Unseen
<1>2. /\ Len(held) = 1 /\ Last(held) = held[1] /\ held[1].tid = NoTid
      /\ held[1].view = Unseen /\ Last(waiters) = 0
  BY <1>1 DEF Last
<1>3. CountIsExact
  <2>1. Announced = {}
    BY <1>1 DEF Announced
  <2> QED
    BY <1>2, <2>1, FS_EmptySet DEF CountIsExact
<1>4. GuardSeesItem /\ HolderIsLast /\ FreeCarriesItem
  BY <1>1, <1>2, PipeFenceAssumption DEF GuardSeesItem, HolderIsLast, FreeCarriesItem
<1>5. NeverItsOwn
  <2>1. \A n \in 1 .. Len(held) : n = 1
    BY <1>2
  <2> QED
    BY <1>1, <1>2, <2>1, PipeFenceAssumption DEF NeverItsOwn
<1>6. FenceShowsWaiters /\ FenceShowsSwap /\ OneSeesTheOther /\ ReaderSawHolder
  BY <1>1 DEF FenceShowsWaiters, FenceShowsSwap, OneSeesTheOther, ReaderSawHolder
<1>7. FreeIsNoticed
  BY <1>1, <1>2 DEF FreeIsNoticed
<1> QED
  BY <1>3, <1>4, <1>5, <1>6, <1>7, InitTypes DEF IInv

LEMMA InvStep == IInv /\ [Next]_vars => IInv'
<1> SUFFICES ASSUME IInv, [Next]_vars PROVE IInv'
  OBVIOUS
<1>0. TypeOK'
  BY TypeStep DEF IInv
<1>1. ASSUME NEW t \in Threads, lock(t) PROVE IInv'
  <2>1. CASE Exchange(t) /\ Goto(t, "cs")
    BY <1>0, <1>1, <2>1, TakeStep DEF lock
  <2>2. ASSUME NEW n \in DOMAIN held, LoadHolder(t, n), UNCHANGED held,
               Goto(t, IF held[n].tid = t THEN "idle" ELSE "announce")
        PROVE  IInv'
    <3>1. UNCHANGED <<memory, pipe, fenced, piped>> /\ pc[t] = "idle"
      BY <1>1, <2>2 DEF lock, memory
    <3>2. PICK point \in {"idle", "announce"} : Goto(t, point)
      BY <2>2
    <3> QED
      BY <1>0, <2>2, <3>1, <3>2, LookStep
  <2> QED
    BY <1>1, <2>1, <2>2 DEF lock
<1>2. ASSUME NEW t \in Threads, TryLock(t) PROVE IInv'
  <2>1. CASE Exchange(t) /\ Goto(t, "won")
    BY <1>0, <1>2, <2>1, TakeStep DEF TryLock
  <2>2. ASSUME NEW n \in DOMAIN held, LoadHolder(t, n), UNCHANGED held,
               Goto(t, CASE held[n].tid = NoTid -> "try"
                         [] held[n].tid = t     -> "giveup"
                         [] OTHER               -> "read")
        PROVE  IInv'
    <3>1. UNCHANGED <<memory, pipe, fenced, piped>> /\ pc[t] = "try"
      BY <1>2, <2>2 DEF TryLock, memory
    <3> QED
      BY <1>0, <2>2, <3>1, TryStep
  <2> QED
    BY <1>2, <2>1, <2>2 DEF TryLock
<1>3. CASE UNCHANGED vars
  <2>1. /\ held' = held /\ waiters' = waiters /\ pipe' = pipe /\ item' = item
        /\ seen' = seen /\ fenced' = fenced /\ piped' = piped /\ pc' = pc
    BY <1>3 DEF vars, memory
  <2>2. GuardParts'
    BY <2>1 DEF IInv, GuardParts, HolderIsLast, GuardSeesItem, FreeCarriesItem, NeverItsOwn
  <2>3. CountIsExact'
    BY <2>1 DEF IInv, CountIsExact, Announced
  <2>4. FenceShowsWaiters' /\ FenceShowsSwap'
    BY <2>1 DEF IInv, FenceShowsWaiters, FenceShowsSwap, ShowsWaiters
  <2>5. OneSeesTheOther' /\ ReaderSawHolder' /\ FreeIsNoticed'
    BY <2>1 DEF IInv, OneSeesTheOther, ShowsWaiters, SeesFree, ReaderSawHolder,
                FreeIsNoticed
  <2> QED
    BY <1>0, <2>2, <2>3, <2>4, <2>5 DEF IInv, GuardParts
<1> QED
  BY <1>0, <1>1, <1>2, <1>3, AnnounceStep, FenceStep, WithdrawStep, ReadStep,
     SwapStep, CheckStep, WriteStep DEF Next, Step

\* IInv holds in every state: the views of fences and pipe, and what they show.
THEOREM Inductive == FairSpec => []IInv
BY InitInv, InvStep, PTL DEF FairSpec

\* No view of any thread is ever ahead of memory, and the count stays positive.
THEOREM TypeCorrect == FairSpec => []TypeOK
<1>1. IInv => TypeOK
  BY DEF IInv
<1> QED
  BY <1>1, Inductive, PTL

\* "There are no &mut concurrent accesses": on weak memory too, whoever has the
\* guard has seen every earlier access through guards.
THEOREM GuardIsSynchronised == FairSpec => []GuardSeesItem
<1>1. IInv => GuardSeesItem
  BY DEF IInv
<1> QED
  BY <1>1, Inductive, PTL

\* "If a locker waits on the pipe, an unlocker will always see and wake them",
\* however old the values of holder_tid and waiters that either of them reads.
THEOREM FencesWakeReaders == FairSpec => []NoLostWakeup
<1>1. IInv => NoLostWakeup
  <2> SUFFICES ASSUME IInv, Blocked # {}, Last(held).tid = NoTid
               PROVE  \E t \in Threads \ Blocked : pc[t] \in {"swapped", "check", "write", "try"}
    BY DEF NoLostWakeup
  <2>1. PICK t \in Threads : pc[t] = "read" /\ pipe = 0
    BY DEF Blocked
  <2>2. ~SeesFree(t)
    BY <2>1, OrdersHaveLast DEF IInv, ReaderSawHolder, SeesFree
  <2>3. PICK u \in Threads : pc[u] \in {"try", "swapped", "check", "write"}
    BY <2>1, <2>2 DEF IInv, FreeIsNoticed
  <2> QED
    BY <2>3 DEF Blocked
<1> QED
  BY <1>1, Inductive, PTL

\* Err(Recursive), decided by the first look at holder_tid (pipe.rs:209) or by
\* one in the loop (pipe.rs:238).
Refused(t) ==
  \/ lock(t) /\ pc'[t] = "idle"
  \/ TryLock(t) /\ pc'[t] = "giveup"

\* The tid that a thread reads, however old the value, is never left over from
\* its own earlier critical section, so that nobody is told of a recursion that
\* there is not: no handlers run here, and no call is refused.
THEOREM NobodyIsRefused == FairSpec => [][\A t \in Threads : ~Refused(t)]_vars
<1>1. ASSUME IInv, NEW t \in Threads, NEW n \in DOMAIN held, LoadHolder(t, n),
             pc[t] \notin {"won", "cs"}
      PROVE  held[n].tid # t
  BY <1>1 DEF IInv, NeverItsOwn, LoadHolder
<1>2. ASSUME IInv, NEW t \in Threads, lock(t) PROVE pc'[t] # "idle"
  <2>1. CASE Goto(t, "cs")
    BY <1>2, <2>1 DEF Goto, IInv, TypeOK
  <2>2. ASSUME NEW n \in DOMAIN held, LoadHolder(t, n),
               Goto(t, IF held[n].tid = t THEN "idle" ELSE "announce")
        PROVE  pc'[t] # "idle"
    <3>1. held[n].tid # t
      BY <1>1, <1>2, <2>2 DEF lock
    <3>2. pc' = [pc EXCEPT ![t] = "announce"] /\ pc \in [Threads -> Points]
      BY <1>2, <2>2, <3>1 DEF Goto, IInv, TypeOK
    <3> QED
      BY <3>2
  <2> QED
    BY <1>2, <2>1, <2>2 DEF lock
<1>3. ASSUME IInv, NEW t \in Threads, TryLock(t) PROVE pc'[t] # "giveup"
  <2>1. CASE Goto(t, "won")
    BY <1>3, <2>1 DEF Goto, IInv, TypeOK
  <2>2. ASSUME NEW n \in DOMAIN held, LoadHolder(t, n),
               Goto(t, CASE held[n].tid = NoTid -> "try"
                         [] held[n].tid = t     -> "giveup"
                         [] OTHER               -> "read")
        PROVE  pc'[t] # "giveup"
    <3>1. held[n].tid # t
      BY <1>1, <1>3, <2>2 DEF TryLock
    <3>2. /\ pc' = [pc EXCEPT ![t] = IF held[n].tid = NoTid THEN "try" ELSE "read"]
          /\ pc \in [Threads -> Points]
      BY <1>3, <2>2, <3>1 DEF Goto, IInv, TypeOK
    <3> QED
      BY <3>2
  <2> QED
    BY <1>3, <2>1, <2>2 DEF TryLock
<1>4. IInv => [\A t \in Threads : ~Refused(t)]_vars
  BY <1>2, <1>3 DEF Refused
<1> QED
  BY <1>4, Inductive, PTL

\* Old values let two threads believe that the lock is free; only one takes it.
THEOREM OneHolder ==
  FairSpec => [](\A t, u \in Threads :
                   pc[t] \in {"won", "cs"} /\ pc[u] \in {"won", "cs"} => t = u)
<1>1. IInv => \A t, u \in Threads :
                pc[t] \in {"won", "cs"} /\ pc[u] \in {"won", "cs"} => t = u
  BY DEF IInv, HolderIsLast
<1> QED
  BY <1>1, Inductive, PTL

=============================================================================
