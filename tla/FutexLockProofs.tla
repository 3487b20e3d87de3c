--------------------------- MODULE FutexLockProofs ---------------------------
(***************************************************************************)
(* Proofs about FutexLock for every set of threads, every depth of nested  *)
(* handlers and every fate of guards: the inductive invariant IInv, the    *)
(* safety properties that follow from it, the lost-wakeup argument, and    *)
(* the refinement of SignalLock.                                           *)
(***************************************************************************)
EXTENDS FutexLock, TLAPS

LEMMA WordFacts ==
  /\ Unlocked \in Words
  /\ \A t \in Threads, b \in BOOLEAN : [tid |-> t, waiters |-> b] \in Words
  /\ \A w \in Words : /\ w.tid \in Threads \cup {NoTid}
                     /\ w.waiters \in BOOLEAN
                     /\ w.tid = NoTid => w = Unlocked
BY FutexLockAssumption DEF Words, Unlocked

(* What an update of the running frame's program point and word does. *)

LEMMA GotoFacts ==
  ASSUME TypeOK, NEW t \in Threads, NEW p \in Points, Goto(t, p)
  PROVE  /\ pc' \in [Threads -> [Frames -> Points]]
         /\ \A u \in Threads, e \in Frames :
              pc'[u][e] = IF u = t /\ e = depth[t] THEN p ELSE pc[u][e]
<1>1. depth[t] \in Frames
  BY DEF TypeOK
<1> QED
  BY <1>1 DEF TypeOK, Goto

LEMMA SeeFacts ==
  ASSUME TypeOK, NEW t \in Threads, NEW w \in Words, See(t, w)
  PROVE  /\ word' \in [Threads -> [Frames -> Words]]
         /\ \A u \in Threads, e \in Frames :
              word'[u][e] = IF u = t /\ e = depth[t] THEN w ELSE word[u][e]
<1>1. depth[t] \in Frames
  BY DEF TypeOK
<1> QED
  BY <1>1 DEF TypeOK, See
\* FUTEX_WAKE moves two frames of two threads at once.
Woken(t, u) == pc' = [pc EXCEPT ![t][depth[t]] = "idle", ![u][depth[u]] = "load"]

LEMMA WakeFacts ==
  ASSUME TypeOK, NEW t \in Threads, NEW u \in Threads, t # u, Woken(t, u)
  PROVE  /\ pc' \in [Threads -> [Frames -> Points]]
         /\ \A v \in Threads, e \in Frames :
              pc'[v][e] = IF v = t /\ e = depth[t] THEN "idle"
                          ELSE IF v = u /\ e = depth[u] THEN "load"
                          ELSE pc[v][e]
<1> DEFINE ft == [pc[t] EXCEPT ![depth[t]] = "idle"]
           fu == [pc[u] EXCEPT ![depth[u]] = "load"]
<1>1. depth[t] \in Frames /\ depth[u] \in Frames /\ "idle" \in Points /\ "load" \in Points
  BY DEF TypeOK, Points
<1>2. pc' = [v \in Threads |-> IF v = t THEN ft ELSE IF v = u THEN fu ELSE pc[v]]
  BY DEF TypeOK, Woken
<1>3. ft \in [Frames -> Points] /\ fu \in [Frames -> Points]
  BY <1>1 DEF TypeOK
<1>4. pc' \in [Threads -> [Frames -> Points]]
  BY <1>2, <1>3 DEF TypeOK
<1>5. ASSUME NEW v \in Threads, NEW e \in Frames
      PROVE  pc'[v][e] = IF v = t /\ e = depth[t] THEN "idle"
                         ELSE IF v = u /\ e = depth[u] THEN "load"
                         ELSE pc[v][e]
  <2>1. pc[t] \in [Frames -> Points] /\ pc[u] \in [Frames -> Points]
    BY DEF TypeOK
  <2>2. /\ v = t => pc'[v][e] = ft[e]
        /\ v = u => pc'[v][e] = fu[e]
        /\ v # t /\ v # u => pc'[v][e] = pc[v][e]
    BY <1>2
  <2>3. /\ ft[e] = IF e = depth[t] THEN "idle" ELSE pc[t][e]
        /\ fu[e] = IF e = depth[u] THEN "load" ELSE pc[u][e]
    BY <1>1, <2>1
  <2> QED
    BY <2>2, <2>3
<1> QED
  BY <1>4, <1>5

-----------------------------------------------------------------------------
(* Types *)

LEMMA InitType == Init => TypeOK
BY FutexLockAssumption
DEF Init, TypeOK, Unlocked, Words, Points, Frames

LEMMA TypeStep == TypeOK /\ [Next]_vars => TypeOK'
<1> SUFFICES ASSUME TypeOK, [Next]_vars PROVE TypeOK'
  OBVIOUS
<1>1. CASE UNCHANGED vars
  BY <1>1 DEF TypeOK, vars
<1>2. ASSUME NEW t \in Threads, raw_lock(t) PROVE TypeOK'
  <2>1. CASE Goto(t, "cs") /\ futex' = [tid |-> t, waiters |-> FALSE] /\ UNCHANGED word
    BY <1>2, <2>1, GotoFacts DEF TypeOK, raw_lock, Words, Points
  <2>2. CASE Goto(t, "contended") /\ See(t, futex) /\ UNCHANGED futex
    BY <1>2, <2>2, GotoFacts, SeeFacts DEF TypeOK, raw_lock, Points
  <2> QED
    BY <1>2, <2>1, <2>2 DEF raw_lock
<1>3. ASSUME NEW t \in Threads, ReturnRecursive(t) PROVE TypeOK'
  <2>1. Unlocked \in Words
    BY DEF Unlocked, Words
  <2> QED
    BY <1>3, <2>1, GotoFacts, SeeFacts DEF TypeOK, ReturnRecursive, Points
<1>4. ASSUME NEW t \in Threads, TakeContended(t) PROVE TypeOK'
  <2>1. CASE /\ futex' = [tid |-> t, waiters |-> TRUE]
             /\ Goto(t, "cs")
             /\ UNCHANGED word
    BY <1>4, <2>1, WordFacts, GotoFacts DEF TypeOK, TakeContended, Points
  <2>2. CASE See(t, futex) /\ UNCHANGED <<futex, pc>>
    BY <1>4, <2>2, SeeFacts DEF TypeOK, TakeContended
  <2> QED
    BY <1>4, <2>1, <2>2 DEF TakeContended
<1>5. ASSUME NEW t \in Threads, SetWaiters(t) PROVE TypeOK'
  <2>1. futex' \in Words
    <3>1. CASE futex = Seen(t) /\ futex' = [tid |-> futex.tid, waiters |-> TRUE]
      <4>1. futex.tid \in Threads
        <5>1. futex \in Words /\ futex.tid # NoTid
          BY <1>5, <3>1 DEF SetWaiters, TypeOK
        <5> QED
          BY <5>1 DEF Words, Unlocked
      <4> QED
        BY <3>1, <4>1, WordFacts
    <3>2. CASE UNCHANGED futex
      BY <3>2 DEF TypeOK
    <3> QED
      BY <1>5, <3>1, <3>2 DEF SetWaiters
  <2>2. word' \in [Threads -> [Frames -> Words]]
    BY <1>5, <2>1, SeeFacts DEF SetWaiters, TypeOK
  <2> QED
    BY <1>5, <2>1, <2>2 DEF TypeOK, SetWaiters
<1>6. ASSUME NEW t \in Threads, futex_wait(t) PROVE TypeOK'
  BY <1>6, GotoFacts DEF TypeOK, futex_wait, Points
<1>7. ASSUME NEW t \in Threads, SpuriousWakeup(t) PROVE TypeOK'
  BY <1>7, GotoFacts DEF TypeOK, SpuriousWakeup, Points
<1>8. ASSUME NEW t \in Threads, Reload(t) PROVE TypeOK'
  BY <1>8, GotoFacts, SeeFacts DEF TypeOK, Reload, Points
<1>9. ASSUME NEW t \in Threads, raw_unlock(t), kept' \in [Threads -> BOOLEAN]
      PROVE  TypeOK'
  BY <1>9, GotoFacts DEF TypeOK, raw_unlock, Points, Unlocked, Words
<1>10. ASSUME NEW t \in Threads, raw_unlock_wake(t) PROVE TypeOK'
  <2>1. CASE Goto(t, "idle")
    BY <1>10, <2>1, GotoFacts DEF TypeOK, raw_unlock_wake, Points
  <2>2. ASSUME NEW u \in Asleep, Woken(t, u) PROVE TypeOK'
    <3>1. u \in Threads /\ u # t
      BY <1>10, <2>2 DEF raw_unlock_wake, Asleep, At
    <3>2. pc' \in [Threads -> [Frames -> Points]]
      BY <1>10, <2>2, <3>1, WakeFacts
    <3> QED
      BY <1>10, <3>2 DEF TypeOK, raw_unlock_wake
  <2> QED
    BY <1>10, <2>1, <2>2 DEF raw_unlock_wake, Woken
<1>11. ASSUME NEW t \in Threads, Escape(t) PROVE TypeOK'
  BY <1>11, GotoFacts DEF TypeOK, Escape, Points
<1>12. ASSUME NEW t \in Threads, Signal(t) PROVE TypeOK'
  <2>1. pc' \in [Threads -> [Frames -> Points]]
    BY <1>12, GotoFacts DEF TypeOK, Signal, Points
  <2>2. depth' \in [Threads -> Frames]
    BY <1>12, FutexLockAssumption DEF TypeOK, Signal, Frames
  <2> QED
    BY <1>12, <2>1, <2>2 DEF TypeOK, Signal
<1>13. ASSUME NEW t \in Threads, HandlerReturn(t) PROVE TypeOK'
  BY <1>13, FutexLockAssumption DEF TypeOK, HandlerReturn, Frames
<1>14. ASSUME NEW t \in Threads, DropGuard(t) PROVE TypeOK'
  BY <1>9, <1>14 DEF DropGuard, TypeOK
<1>15. ASSUME NEW t \in Threads, DropKept(t) PROVE TypeOK'
  BY <1>9, <1>15 DEF DropKept, TypeOK
<1> QED
  BY <1>1, <1>2, <1>3, <1>4, <1>5, <1>6, <1>7, <1>8, <1>10, <1>11, <1>12,
     <1>13, <1>14, <1>15 DEF Next, Step, NewWork

\* Every variable keeps its type: the words the lock and its callers can hold,
\* the points a frame can be at, at most MaxDepth nested handlers.
THEOREM TypeCorrect == Spec => []TypeOK
BY InitType, TypeStep, PTL DEF Spec
-----------------------------------------------------------------------------
(* The inductive invariant *)

LEMMA InitInv == Init => IInv
<1> SUFFICES ASSUME Init PROVE IInv
  OBVIOUS
<1>1. TypeOK
  BY InitType
<1> QED
  BY <1>1, FutexLockAssumption DEF Init, IInv, FramesNest, WordNamesHolder,
     NoAbort, SleepersWait, OwnGuardIsSeen, HoldsGuard, Unlocked, Frames

LEMMA InvStep ==
  ASSUME IInv, [Next]_vars
  PROVE  IInv'
<1>0. TypeOK /\ TypeOK'
  BY TypeStep DEF IInv
<1>d. \A t \in Threads : depth[t] \in Frames
  BY <1>0 DEF TypeOK
<1>1. CASE UNCHANGED vars
  BY <1>1 DEF IInv, vars, TypeOK, FramesNest, WordNamesHolder, HoldsGuard,
     NoAbort, SleepersWait, OwnGuardIsSeen
<1>2. ASSUME NEW t \in Threads, raw_lock(t) PROVE IInv'
  <2>1. CASE /\ futex = Unlocked
             /\ futex' = [tid |-> t, waiters |-> FALSE]
             /\ Goto(t, "cs")
             /\ UNCHANGED word
    <3>1. \A u \in Threads, e \in Frames :
            pc'[u][e] = IF u = t /\ e = depth[t] THEN "cs" ELSE pc[u][e]
      BY <1>0, <1>2, <2>1, GotoFacts DEF raw_lock, Points
    <3>3. FramesNest'
      BY <1>d, <1>2, <2>1, <3>1 DEF IInv, FramesNest, raw_lock, At, Frames
    <3>4. WordNamesHolder'
      BY <1>d, <1>2, <2>1, <3>1, FutexLockAssumption
      DEF IInv, WordNamesHolder, HoldsGuard, raw_lock, At, Unlocked
    <3>5. NoAbort'
      BY <1>2, <2>1, <3>1 DEF IInv, NoAbort, raw_lock, At
    <3>6. SleepersWait'
      BY <1>d, <1>2, <2>1, <3>1, FutexLockAssumption
      DEF IInv, SleepersWait, FramesNest, raw_lock, At, Seen, Unlocked
    <3>7. OwnGuardIsSeen'
      BY <1>d, <1>2, <2>1, <3>1
      DEF IInv, OwnGuardIsSeen, FramesNest, WordNamesHolder, HoldsGuard, raw_lock, At, Frames
    <3> QED
      BY <1>0, <3>3, <3>4, <3>5, <3>6, <3>7 DEF IInv
  <2>2. CASE /\ Goto(t, "contended")
             /\ See(t, futex)
             /\ UNCHANGED futex
    <3>1. \A u \in Threads, e \in Frames :
            pc'[u][e] = IF u = t /\ e = depth[t] THEN "contended" ELSE pc[u][e]
      BY <1>0, <1>2, <2>2, GotoFacts DEF raw_lock, Points
    <3>2. \A u \in Threads, e \in Frames :
            word'[u][e] = IF u = t /\ e = depth[t] THEN futex ELSE word[u][e]
      BY <1>0, <1>2, <2>2, SeeFacts, WordFacts DEF raw_lock, TypeOK
    <3>3. FramesNest'
      BY <1>d, <1>2, <2>2, <3>1, <3>2 DEF IInv, FramesNest, raw_lock, At, Frames
    <3>4. WordNamesHolder'
      BY <1>d, <1>2, <2>2, <3>1, <3>2, FutexLockAssumption
      DEF IInv, WordNamesHolder, HoldsGuard, raw_lock, At, Unlocked
    <3>5. NoAbort'
      BY <1>2, <2>2, <3>1, <3>2 DEF IInv, NoAbort, raw_lock, At
    <3>6. SleepersWait'
      BY <1>d, <1>2, <2>2, <3>1, <3>2, FutexLockAssumption
      DEF IInv, SleepersWait, FramesNest, raw_lock, At, Seen, Unlocked
    <3>7. OwnGuardIsSeen'
      BY <1>d, <1>2, <2>2, <3>1, <3>2
      DEF IInv, OwnGuardIsSeen, FramesNest, WordNamesHolder, HoldsGuard, raw_lock, At, Frames
    <3> QED
      BY <1>0, <3>3, <3>4, <3>5, <3>6, <3>7 DEF IInv
  <2> QED
    BY <1>2, <2>1, <2>2 DEF raw_lock
<1>3. ASSUME NEW t \in Threads, ReturnRecursive(t) PROVE IInv'
  <2>1. \A u \in Threads, e \in Frames :
          pc'[u][e] = IF u = t /\ e = depth[t] THEN "idle" ELSE pc[u][e]
    BY <1>0, <1>3, GotoFacts DEF ReturnRecursive, Points
  <2>2. \A u \in Threads, e \in Frames :
          word'[u][e] = IF u = t /\ e = depth[t] THEN Unlocked ELSE word[u][e]
    BY <1>0, <1>3, SeeFacts, WordFacts DEF ReturnRecursive, TypeOK
  <2>3. FramesNest'
    BY <1>d, <1>3, <2>1, <2>2 DEF IInv, FramesNest, ReturnRecursive, At, Frames
  <2>4. WordNamesHolder'
    BY <1>d, <1>3, <2>1, <2>2, FutexLockAssumption
    DEF IInv, WordNamesHolder, HoldsGuard, ReturnRecursive, At, Unlocked
  <2>5. NoAbort'
    BY <1>3, <2>1, <2>2 DEF IInv, NoAbort, ReturnRecursive, At
  <2>6. SleepersWait'
    BY <1>d, <1>3, <2>1, <2>2, FutexLockAssumption
    DEF IInv, SleepersWait, FramesNest, ReturnRecursive, At, Seen, Unlocked
  <2>7. OwnGuardIsSeen'
    BY <1>d, <1>3, <2>1, <2>2
    DEF IInv, OwnGuardIsSeen, FramesNest, WordNamesHolder, HoldsGuard, ReturnRecursive, At, Frames
  <2> QED
    BY <1>0, <2>3, <2>4, <2>5, <2>6, <2>7 DEF IInv
<1>4. ASSUME NEW t \in Threads, TakeContended(t) PROVE IInv'
  <2>1. CASE /\ futex = Unlocked
             /\ futex' = [tid |-> t, waiters |-> TRUE]
             /\ Goto(t, "cs")
             /\ UNCHANGED word
    <3>1. \A u \in Threads, e \in Frames :
            pc'[u][e] = IF u = t /\ e = depth[t] THEN "cs" ELSE pc[u][e]
      BY <1>0, <1>4, <2>1, GotoFacts DEF TakeContended, Points
    <3>3. FramesNest'
      BY <1>d, <1>4, <2>1, <3>1 DEF IInv, FramesNest, TakeContended, At, Frames
    <3>4. WordNamesHolder'
      BY <1>d, <1>4, <2>1, <3>1, FutexLockAssumption
      DEF IInv, WordNamesHolder, HoldsGuard, TakeContended, At, Unlocked
    <3>5. NoAbort'
      BY <1>4, <2>1, <3>1 DEF IInv, NoAbort, TakeContended, At
    <3>6. SleepersWait'
      BY <1>d, <1>4, <2>1, <3>1, FutexLockAssumption
      DEF IInv, SleepersWait, FramesNest, TakeContended, At, Seen, Unlocked
    <3>7. OwnGuardIsSeen'
      BY <1>d, <1>4, <2>1, <3>1
      DEF IInv, OwnGuardIsSeen, FramesNest, WordNamesHolder, HoldsGuard, TakeContended, At, Frames
    <3> QED
      BY <1>0, <3>3, <3>4, <3>5, <3>6, <3>7 DEF IInv
  <2>2. CASE /\ futex # Unlocked
             /\ See(t, futex)
             /\ UNCHANGED <<futex, pc>>
    <3>2. \A u \in Threads, e \in Frames :
            word'[u][e] = IF u = t /\ e = depth[t] THEN futex ELSE word[u][e]
      BY <1>0, <1>4, <2>2, SeeFacts, WordFacts DEF TakeContended, TypeOK
    <3>3. FramesNest'
      BY <1>d, <1>4, <2>2, <3>2 DEF IInv, FramesNest, TakeContended, At, Frames
    <3>4. WordNamesHolder'
      BY <1>d, <1>4, <2>2, <3>2, FutexLockAssumption
      DEF IInv, WordNamesHolder, HoldsGuard, TakeContended, At, Unlocked
    <3>5. NoAbort'
      BY <1>4, <2>2, <3>2 DEF IInv, NoAbort, TakeContended, At
    <3>6. SleepersWait'
      BY <1>d, <1>4, <2>2, <3>2, FutexLockAssumption
      DEF IInv, SleepersWait, FramesNest, TakeContended, At, Seen, Unlocked
    <3>7. OwnGuardIsSeen'
      BY <1>d, <1>4, <2>2, <3>2
      DEF IInv, OwnGuardIsSeen, FramesNest, WordNamesHolder, HoldsGuard, TakeContended, At, Frames
    <3> QED
      BY <1>0, <3>3, <3>4, <3>5, <3>6, <3>7 DEF IInv
  <2> QED
    BY <1>4, <2>1, <2>2 DEF TakeContended
<1>5. ASSUME NEW t \in Threads, SetWaiters(t) PROVE IInv'
  <2>1. CASE /\ futex = Seen(t)
             /\ futex' = [tid |-> futex.tid, waiters |-> TRUE]
             /\ See(t, futex')
    <3>2. \A u \in Threads, e \in Frames :
            word'[u][e] = IF u = t /\ e = depth[t] THEN futex' ELSE word[u][e]
      BY <1>0, <1>5, <2>1, SeeFacts, WordFacts DEF SetWaiters, TypeOK
    <3>3. FramesNest'
      BY <1>d, <1>5, <2>1, <3>2 DEF IInv, FramesNest, SetWaiters, At, Frames
    <3>4. WordNamesHolder'
      BY <1>d, <1>5, <2>1, <3>2, FutexLockAssumption
      DEF IInv, WordNamesHolder, HoldsGuard, SetWaiters, At, Unlocked
    <3>5. NoAbort'
      BY <1>5, <2>1, <3>2 DEF IInv, NoAbort, SetWaiters, At
    <3>6. SleepersWait'
      BY <1>d, <1>5, <2>1, <3>2, FutexLockAssumption
      DEF IInv, SleepersWait, FramesNest, SetWaiters, At, Seen, Unlocked
    <3>7. OwnGuardIsSeen'
      BY <1>d, <1>5, <2>1, <3>2
      DEF IInv, OwnGuardIsSeen, FramesNest, WordNamesHolder, HoldsGuard, SetWaiters, At, Frames
    <3> QED
      BY <1>0, <3>3, <3>4, <3>5, <3>6, <3>7 DEF IInv
  <2>2. CASE /\ futex # Seen(t)
             /\ See(t, futex)
             /\ UNCHANGED futex
    <3>2. \A u \in Threads, e \in Frames :
            word'[u][e] = IF u = t /\ e = depth[t] THEN futex ELSE word[u][e]
      BY <1>0, <1>5, <2>2, SeeFacts, WordFacts DEF SetWaiters, TypeOK
    <3>3. FramesNest'
      BY <1>d, <1>5, <2>2, <3>2 DEF IInv, FramesNest, SetWaiters, At, Frames
    <3>4. WordNamesHolder'
      BY <1>d, <1>5, <2>2, <3>2, FutexLockAssumption
      DEF IInv, WordNamesHolder, HoldsGuard, SetWaiters, At, Unlocked
    <3>5. NoAbort'
      BY <1>5, <2>2, <3>2 DEF IInv, NoAbort, SetWaiters, At
    <3>6. SleepersWait'
      BY <1>d, <1>5, <2>2, <3>2, FutexLockAssumption
      DEF IInv, SleepersWait, FramesNest, SetWaiters, At, Seen, Unlocked
    <3>7. OwnGuardIsSeen'
      BY <1>d, <1>5, <2>2, <3>2
      DEF IInv, OwnGuardIsSeen, FramesNest, WordNamesHolder, HoldsGuard, SetWaiters, At, Frames
    <3> QED
      BY <1>0, <3>3, <3>4, <3>5, <3>6, <3>7 DEF IInv
  <2> QED
    BY <1>5, <2>1, <2>2 DEF SetWaiters
<1>6. ASSUME NEW t \in Threads, futex_wait(t) PROVE IInv'
  <2>1. CASE /\ futex = Seen(t)
             /\ Goto(t, "asleep")
    <3>1. \A u \in Threads, e \in Frames :
            pc'[u][e] = IF u = t /\ e = depth[t] THEN "asleep" ELSE pc[u][e]
      BY <1>0, <1>6, <2>1, GotoFacts DEF futex_wait, Points
    <3>3. FramesNest'
      BY <1>d, <1>6, <2>1, <3>1 DEF IInv, FramesNest, futex_wait, At, Frames
    <3>4. WordNamesHolder'
      BY <1>d, <1>6, <2>1, <3>1, FutexLockAssumption
      DEF IInv, WordNamesHolder, HoldsGuard, futex_wait, At, Unlocked
    <3>5. NoAbort'
      BY <1>6, <2>1, <3>1 DEF IInv, NoAbort, futex_wait, At
    <3>6. SleepersWait'
      BY <1>d, <1>6, <2>1, <3>1, FutexLockAssumption
      DEF IInv, SleepersWait, FramesNest, futex_wait, At, Seen, Unlocked
    <3>7. OwnGuardIsSeen'
      BY <1>d, <1>6, <2>1, <3>1
      DEF IInv, OwnGuardIsSeen, FramesNest, WordNamesHolder, HoldsGuard, futex_wait, At, Frames
    <3> QED
      BY <1>0, <3>3, <3>4, <3>5, <3>6, <3>7 DEF IInv
  <2>2. CASE /\ futex # Seen(t)
             /\ Goto(t, "load")
    <3>1. \A u \in Threads, e \in Frames :
            pc'[u][e] = IF u = t /\ e = depth[t] THEN "load" ELSE pc[u][e]
      BY <1>0, <1>6, <2>2, GotoFacts DEF futex_wait, Points
    <3>3. FramesNest'
      BY <1>d, <1>6, <2>2, <3>1 DEF IInv, FramesNest, futex_wait, At, Frames
    <3>4. WordNamesHolder'
      BY <1>d, <1>6, <2>2, <3>1, FutexLockAssumption
      DEF IInv, WordNamesHolder, HoldsGuard, futex_wait, At, Unlocked
    <3>5. NoAbort'
      BY <1>6, <2>2, <3>1 DEF IInv, NoAbort, futex_wait, At
    <3>6. SleepersWait'
      BY <1>d, <1>6, <2>2, <3>1, FutexLockAssumption
      DEF IInv, SleepersWait, FramesNest, futex_wait, At, Seen, Unlocked
    <3>7. OwnGuardIsSeen'
      BY <1>d, <1>6, <2>2, <3>1
      DEF IInv, OwnGuardIsSeen, FramesNest, WordNamesHolder, HoldsGuard, futex_wait, At, Seen, Frames
    <3> QED
      BY <1>0, <3>3, <3>4, <3>5, <3>6, <3>7 DEF IInv
  <2> QED
    BY <1>6, <2>1, <2>2 DEF futex_wait
<1>7. ASSUME NEW t \in Threads, SpuriousWakeup(t) PROVE IInv'
  <2>1. \A u \in Threads, e \in Frames :
          pc'[u][e] = IF u = t /\ e = depth[t] THEN "load" ELSE pc[u][e]
    BY <1>0, <1>7, GotoFacts DEF SpuriousWakeup, Points
  <2>3. FramesNest'
    BY <1>d, <1>7, <2>1 DEF IInv, FramesNest, SpuriousWakeup, At, Frames
  <2>4. WordNamesHolder'
    BY <1>d, <1>7, <2>1, FutexLockAssumption
    DEF IInv, WordNamesHolder, HoldsGuard, SpuriousWakeup, At, Unlocked
  <2>5. NoAbort'
    BY <1>7, <2>1 DEF IInv, NoAbort, SpuriousWakeup, At
  <2>6. SleepersWait'
    BY <1>d, <1>7, <2>1, FutexLockAssumption
    DEF IInv, SleepersWait, FramesNest, SpuriousWakeup, At, Seen, Unlocked
  <2>7. OwnGuardIsSeen'
    BY <1>d, <1>7, <2>1
    DEF IInv, OwnGuardIsSeen, FramesNest, WordNamesHolder, HoldsGuard, SpuriousWakeup, At, Frames
  <2> QED
    BY <1>0, <2>3, <2>4, <2>5, <2>6, <2>7 DEF IInv
<1>8. ASSUME NEW t \in Threads, Reload(t) PROVE IInv'
  <2>1. \A u \in Threads, e \in Frames :
          pc'[u][e] = IF u = t /\ e = depth[t] THEN "contended" ELSE pc[u][e]
    BY <1>0, <1>8, GotoFacts DEF Reload, Points
  <2>2. \A u \in Threads, e \in Frames :
          word'[u][e] = IF u = t /\ e = depth[t] THEN futex ELSE word[u][e]
    BY <1>0, <1>8, SeeFacts, WordFacts DEF Reload, TypeOK
  <2>3. FramesNest'
    BY <1>d, <1>8, <2>1, <2>2 DEF IInv, FramesNest, Reload, At, Frames
  <2>4. WordNamesHolder'
    BY <1>d, <1>8, <2>1, <2>2, FutexLockAssumption
    DEF IInv, WordNamesHolder, HoldsGuard, Reload, At, Unlocked
  <2>5. NoAbort'
    BY <1>8, <2>1, <2>2 DEF IInv, NoAbort, Reload, At
  <2>6. SleepersWait'
    BY <1>d, <1>8, <2>1, <2>2, FutexLockAssumption
    DEF IInv, SleepersWait, FramesNest, Reload, At, Seen, Unlocked
  <2>7. OwnGuardIsSeen'
    BY <1>d, <1>8, <2>1, <2>2
    DEF IInv, OwnGuardIsSeen, FramesNest, WordNamesHolder, HoldsGuard, Reload, At, Frames
  <2> QED
    BY <1>0, <2>3, <2>4, <2>5, <2>6, <2>7 DEF IInv
<1>9. ASSUME NEW t \in Threads, DropGuard(t) PROVE IInv'
  <2>1. \A u \in Threads, e \in Frames :
          pc'[u][e] = IF u = t /\ e = depth[t]
                      THEN IF futex.tid # t THEN "abort"
                           ELSE IF futex.waiters THEN "wake" ELSE "idle"
                      ELSE pc[u][e]
    BY <1>0, <1>9, GotoFacts DEF DropGuard, Points, raw_unlock
  <2>2. futex.tid = t
    BY <1>d, <1>9 DEF IInv, WordNamesHolder, HoldsGuard, DropGuard, At
  <2>3. FramesNest'
    BY <1>d, <1>9, <2>1, <2>2 DEF IInv, FramesNest, DropGuard, raw_unlock, At, Frames
  <2>4. WordNamesHolder'
    BY <1>d, <1>9, <2>1, <2>2, FutexLockAssumption
    DEF IInv, WordNamesHolder, HoldsGuard, DropGuard, raw_unlock, At, Unlocked
  <2>5. NoAbort'
    BY <1>9, <2>1, <2>2 DEF IInv, NoAbort, DropGuard, raw_unlock, At
  <2>6. SleepersWait'
    BY <1>d, <1>9, <2>1, <2>2, FutexLockAssumption
    DEF IInv, SleepersWait, FramesNest, DropGuard, raw_unlock, At, Seen, Unlocked
  <2>7. OwnGuardIsSeen'
    BY <1>d, <1>9, <2>1, <2>2
    DEF IInv, OwnGuardIsSeen, FramesNest, WordNamesHolder, HoldsGuard, DropGuard, raw_unlock, At, Frames
  <2> QED
    BY <1>0, <2>3, <2>4, <2>5, <2>6, <2>7 DEF IInv
<1>10. ASSUME NEW t \in Threads, DropKept(t) PROVE IInv'
  <2>1. \A u \in Threads, e \in Frames :
          pc'[u][e] = IF u = t /\ e = depth[t]
                      THEN IF futex.tid # t THEN "abort"
                           ELSE IF futex.waiters THEN "wake" ELSE "idle"
                      ELSE pc[u][e]
    BY <1>0, <1>10, GotoFacts DEF DropKept, Points, raw_unlock
  <2>2. futex.tid = t
    BY <1>d, <1>10 DEF IInv, WordNamesHolder, HoldsGuard, DropKept, At
  <2>k. \A u \in Threads : kept'[u] <=> kept[u] /\ u # t
    BY <1>0, <1>10 DEF DropKept, TypeOK
  <2>3. FramesNest'
    BY <1>d, <1>10, <2>1, <2>2, <2>k DEF IInv, FramesNest, DropKept, raw_unlock, At, Frames
  <2>4. WordNamesHolder'
    BY <1>d, <1>10, <2>1, <2>2, <2>k, FutexLockAssumption
    DEF IInv, WordNamesHolder, HoldsGuard, DropKept, raw_unlock, At, Unlocked
  <2>5. NoAbort'
    BY <1>10, <2>1, <2>2, <2>k DEF IInv, NoAbort, DropKept, raw_unlock, At
  <2>6. SleepersWait'
    BY <1>d, <1>10, <2>1, <2>2, <2>k, FutexLockAssumption
    DEF IInv, SleepersWait, FramesNest, DropKept, raw_unlock, At, Seen, Unlocked
  <2>7. OwnGuardIsSeen'
    BY <1>d, <1>10, <2>1, <2>2, <2>k
    DEF IInv, OwnGuardIsSeen, FramesNest, WordNamesHolder, HoldsGuard, DropKept, raw_unlock, At, Frames
  <2> QED
    BY <1>0, <2>3, <2>4, <2>5, <2>6, <2>7 DEF IInv
<1>11. ASSUME NEW t \in Threads, raw_unlock_wake(t) PROVE IInv'
  <2>1. ASSUME NEW u \in Asleep,
               pc' = [pc EXCEPT ![t][depth[t]] = "idle", ![u][depth[u]] = "load"]
        PROVE  IInv'
    <3>1. u \in Threads /\ u # t /\ pc[u][depth[u]] = "asleep"
      BY <1>11 DEF raw_unlock_wake, Asleep, At
    <3>0. Woken(t, u)
      BY <2>1 DEF Woken
    <3>2. \A v \in Threads, e \in Frames :
            pc'[v][e] = IF v = t /\ e = depth[t] THEN "idle"
                        ELSE IF v = u /\ e = depth[u] THEN "load"
                        ELSE pc[v][e]
      BY <1>0, <3>0, <3>1, WakeFacts
    <3>3. FramesNest'
      BY <1>d, <1>11, <3>1, <3>2 DEF IInv, FramesNest, raw_unlock_wake, At, Frames
    <3>4. WordNamesHolder'
      BY <1>d, <1>11, <3>1, <3>2 DEF IInv, WordNamesHolder, HoldsGuard, raw_unlock_wake, At
    <3>5. NoAbort'
      BY <1>11, <3>2 DEF IInv, NoAbort, raw_unlock_wake
    <3>6. SleepersWait'
      BY <1>11, <3>2 DEF IInv, SleepersWait, raw_unlock_wake
    <3>7. OwnGuardIsSeen'
      BY <1>d, <1>11, <3>1, <3>2 DEF IInv, OwnGuardIsSeen, FramesNest, raw_unlock_wake, At, Frames
    <3> QED
      BY <1>0, <3>3, <3>4, <3>5, <3>6, <3>7 DEF IInv
  <2>2. CASE /\ Asleep = {}
             /\ Goto(t, "idle")
    <3>1. \A u \in Threads, e \in Frames :
            pc'[u][e] = IF u = t /\ e = depth[t] THEN "idle" ELSE pc[u][e]
      BY <1>0, <1>11, <2>2, GotoFacts DEF raw_unlock_wake, Points
    <3>3. FramesNest'
      BY <1>d, <1>11, <2>2, <3>1 DEF IInv, FramesNest, raw_unlock_wake, At, Frames
    <3>4. WordNamesHolder'
      BY <1>d, <1>11, <2>2, <3>1, FutexLockAssumption
      DEF IInv, WordNamesHolder, HoldsGuard, raw_unlock_wake, At, Unlocked
    <3>5. NoAbort'
      BY <1>11, <2>2, <3>1 DEF IInv, NoAbort, raw_unlock_wake, At
    <3>6. SleepersWait'
      BY <1>d, <1>11, <2>2, <3>1, FutexLockAssumption
      DEF IInv, SleepersWait, FramesNest, raw_unlock_wake, At, Seen, Unlocked
    <3>7. OwnGuardIsSeen'
      BY <1>d, <1>11, <2>2, <3>1
      DEF IInv, OwnGuardIsSeen, FramesNest, WordNamesHolder, HoldsGuard, raw_unlock_wake, At, Frames
    <3> QED
      BY <1>0, <3>3, <3>4, <3>5, <3>6, <3>7 DEF IInv
  <2> QED
    BY <1>11, <2>1, <2>2 DEF raw_unlock_wake
<1>12. ASSUME NEW t \in Threads, Escape(t) PROVE IInv'
  <2>1. \A u \in Threads, e \in Frames :
          pc'[u][e] = IF u = t /\ e = depth[t] THEN "idle" ELSE pc[u][e]
    BY <1>0, <1>12, GotoFacts DEF Escape, Points
  <2>k. \A u \in Threads : kept'[u] <=> kept[u] \/ u = t
    BY <1>0, <1>12 DEF Escape, TypeOK
  <2>3. FramesNest'
    BY <1>d, <1>12, <2>1, <2>k DEF IInv, FramesNest, Escape, At, Frames
  <2>4. WordNamesHolder'
    BY <1>d, <1>12, <2>1, <2>k, FutexLockAssumption
    DEF IInv, WordNamesHolder, HoldsGuard, Escape, At, Unlocked
  <2>5. NoAbort'
    BY <1>12, <2>1, <2>k DEF IInv, NoAbort, Escape, At
  <2>6. SleepersWait'
    BY <1>d, <1>12, <2>1, <2>k, FutexLockAssumption
    DEF IInv, SleepersWait, FramesNest, Escape, At, Seen, Unlocked
  <2>7. OwnGuardIsSeen'
    BY <1>d, <1>12, <2>1, <2>k
    DEF IInv, OwnGuardIsSeen, FramesNest, WordNamesHolder, HoldsGuard, Escape, At, Frames
  <2> QED
    BY <1>0, <2>3, <2>4, <2>5, <2>6, <2>7 DEF IInv
<1>13. ASSUME NEW t \in Threads, Signal(t) PROVE IInv'
  <2>1. CASE /\ At(t) = "asleep"
             /\ Goto(t, "load")
    <3>1. \A u \in Threads, e \in Frames :
            pc'[u][e] = IF u = t /\ e = depth[t] THEN "load" ELSE pc[u][e]
      BY <1>0, <1>13, <2>1, GotoFacts DEF Signal, Points
    <3>3. FramesNest'
      BY <1>d, <1>13, <2>1, <3>1 DEF IInv, FramesNest, Signal, At, Frames
    <3>4. WordNamesHolder'
      BY <1>d, <1>13, <2>1, <3>1, FutexLockAssumption
      DEF IInv, WordNamesHolder, HoldsGuard, Signal, At, Unlocked
    <3>5. NoAbort'
      BY <1>13, <2>1, <3>1 DEF IInv, NoAbort, Signal, At
    <3>6. SleepersWait'
      BY <1>d, <1>13, <2>1, <3>1, FutexLockAssumption
      DEF IInv, SleepersWait, FramesNest, Signal, At, Seen, Unlocked
    <3>7. OwnGuardIsSeen'
      BY <1>d, <1>13, <2>1, <3>1
      DEF IInv, OwnGuardIsSeen, FramesNest, WordNamesHolder, HoldsGuard, Signal, At, Frames
    <3> QED
      BY <1>0, <3>3, <3>4, <3>5, <3>6, <3>7 DEF IInv
  <2>2. CASE /\ At(t) = "asleep"
             /\ Goto(t, "contended")
    <3>1. \A u \in Threads, e \in Frames :
            pc'[u][e] = IF u = t /\ e = depth[t] THEN "contended" ELSE pc[u][e]
      BY <1>0, <1>13, <2>2, GotoFacts DEF Signal, Points
    <3>3. FramesNest'
      BY <1>d, <1>13, <2>2, <3>1 DEF IInv, FramesNest, Signal, At, Frames
    <3>4. WordNamesHolder'
      BY <1>d, <1>13, <2>2, <3>1, FutexLockAssumption
      DEF IInv, WordNamesHolder, HoldsGuard, Signal, At, Unlocked
    <3>5. NoAbort'
      BY <1>13, <2>2, <3>1 DEF IInv, NoAbort, Signal, At
    <3>6. SleepersWait'
      BY <1>d, <1>13, <2>2, <3>1, FutexLockAssumption
      DEF IInv, SleepersWait, FramesNest, Signal, At, Seen, Unlocked
    <3>7. OwnGuardIsSeen'
      BY <1>d, <1>13, <2>2, <3>1
      DEF IInv, OwnGuardIsSeen, SleepersWait, FramesNest, WordNamesHolder, HoldsGuard, Signal, At, Frames
    <3> QED
      BY <1>0, <3>3, <3>4, <3>5, <3>6, <3>7 DEF IInv
  <2>3. CASE /\ At(t) # "asleep"
             /\ UNCHANGED pc
    <3>3. FramesNest'
      BY <1>d, <1>13, <2>3 DEF IInv, FramesNest, Signal, At, Frames
    <3>4. WordNamesHolder'
      BY <1>d, <1>13, <2>3, FutexLockAssumption
      DEF IInv, WordNamesHolder, HoldsGuard, Signal, At, Unlocked
    <3>5. NoAbort'
      BY <1>13, <2>3 DEF IInv, NoAbort, Signal, At
    <3>6. SleepersWait'
      BY <1>d, <1>13, <2>3, FutexLockAssumption
      DEF IInv, SleepersWait, FramesNest, Signal, At, Seen, Unlocked
    <3>7. OwnGuardIsSeen'
      BY <1>d, <1>13, <2>3
      DEF IInv, OwnGuardIsSeen, FramesNest, WordNamesHolder, HoldsGuard, Signal, At, Frames
    <3> QED
      BY <1>0, <3>3, <3>4, <3>5, <3>6, <3>7 DEF IInv
  <2> QED
    BY <1>13, <2>1, <2>2, <2>3 DEF Signal
<1>14. ASSUME NEW t \in Threads, HandlerReturn(t) PROVE IInv'
  <2>3. FramesNest'
    BY <1>d, <1>14 DEF IInv, FramesNest, HandlerReturn, At, Frames
  <2>4. WordNamesHolder'
    BY <1>d, <1>14, FutexLockAssumption
    DEF IInv, WordNamesHolder, HoldsGuard, HandlerReturn, At, Unlocked
  <2>5. NoAbort'
    BY <1>14 DEF IInv, NoAbort, HandlerReturn, At
  <2>6. SleepersWait'
    BY <1>d, <1>14, FutexLockAssumption
    DEF IInv, SleepersWait, FramesNest, HandlerReturn, At, Seen, Unlocked
  <2>7. OwnGuardIsSeen'
    BY <1>d, <1>14
    DEF IInv, OwnGuardIsSeen, FramesNest, WordNamesHolder, HoldsGuard, HandlerReturn, At, Frames
  <2> QED
    BY <1>0, <2>3, <2>4, <2>5, <2>6, <2>7 DEF IInv
<1> QED
  BY <1>1, <1>2, <1>3, <1>4, <1>5, <1>6, <1>7, <1>8, <1>9, <1>10, <1>11, <1>12,
     <1>13, <1>14 DEF Next, Step, NewWork
THEOREM Inductive == Spec => []IInv
<1>1. IInv /\ [Next]_vars => IInv'
  BY InvStep
<1> QED
  BY InitInv, <1>1, PTL DEF Spec

-----------------------------------------------------------------------------
(* Safety *)

\* At most one live guard, over all threads, all their nested handlers and the
\* guards that escaped: Deref's "We exclusively hold the lock".
THEOREM Exclusion == Spec => []MutualExclusion
<1>1. IInv => MutualExclusion
  BY DEF IInv, WordNamesHolder, HoldsGuard, MutualExclusion
<1> QED
  BY <1>1, Inductive, PTL

\* The assertion of raw_unlock never fires: the tid cached in a guard is the
\* holder's tid in the word that the unlock swaps out.
THEOREM UnlockByHolder == Spec => []NoAbort
<1>1. IInv => NoAbort
  BY DEF IInv
<1> QED
  BY <1>1, Inductive, PTL

\* A thread that holds a guard is never asleep in futex_wait: the contended
\* loop compares the tid with its own on every update of its copy.
THEOREM ReentrancyNeverSleeps == Spec => []NeverSleepsOnOwnGuard
<1>1. IInv => NeverSleepsOnOwnGuard
  <2> SUFFICES ASSUME IInv, NEW t \in Asleep PROVE ~HoldsGuard(t) /\ futex.tid # t
    BY DEF NeverSleepsOnOwnGuard
  <2>1. t \in Threads /\ depth[t] \in Frames /\ pc[t][depth[t]] = "asleep"
    BY DEF Asleep, At, IInv, TypeOK
  <2>2. futex.tid # t
    BY <2>1 DEF IInv, SleepersWait
  <2> QED
    BY <2>1, <2>2 DEF IInv, WordNamesHolder
<1> QED
  BY <1>1, Inductive, PTL

\* Err(Recursive) is returned only by a thread that holds a guard, unless a
\* kept guard is dropped by a handler between the look at the word and the
\* return.
THEOREM RecursiveOnlyToHolder ==
  ASSUME GuardEscapes # "kept"
  PROVE  Spec => RecursiveIsTrue
<1>1. ASSUME IInv, NEW t \in Threads, ReturnRecursive(t)
      PROVE  HoldsGuard(t)
  <2>1. depth[t] \in Frames /\ pc[t][depth[t]] = "contended" /\ word[t][depth[t]].tid = t
    BY <1>1 DEF ReturnRecursive, At, Seen, IInv, TypeOK
  <2> QED
    BY <1>1, <2>1 DEF IInv, OwnGuardIsSeen, HoldsGuard
<1>2. IInv /\ [Next]_vars => [\A t \in Threads : ReturnRecursive(t) => HoldsGuard(t)]_vars
  BY <1>1
<1> QED
  BY <1>2, Inductive, PTL DEF Spec, RecursiveIsTrue
-----------------------------------------------------------------------------
(* No lost wakeup *)

LEMMA InitAwake == Init => NoLostWakeup
<1> SUFFICES ASSUME Init PROVE Asleep = {}
  BY DEF NoLostWakeup
<1>1. 0 \in Frames
  BY FutexLockAssumption DEF Frames
<1>2. ASSUME NEW t \in Threads PROVE At(t) = "idle"
  <2>1. depth[t] = 0
    BY DEF Init
  <2>2. pc[t] = [d \in Frames |-> "idle"]
    BY DEF Init
  <2> QED
    BY <1>1, <2>1, <2>2 DEF At
<1> QED
  BY <1>2 DEF Asleep

\* A frame that read another tid, or is about to read the word, did not
\* interrupt the holder: it finds its own tid there only after a leak.
LEMMA OwnTidMeansLeak ==
  ASSUME IInv, NEW t \in Threads, futex.tid = t,
         \/ At(t) = "load"
         \/ At(t) = "contended" /\ Seen(t).tid # t
  PROVE  kept[t]
<1>1. depth[t] \in Frames
  BY DEF IInv, TypeOK
<1>2. ASSUME NEW e \in Frames PROVE pc[t][e] # "cs"
  <2>1. CASE e < depth[t]
    BY <1>1, <2>1 DEF IInv, OwnGuardIsSeen, At, Seen
  <2>2. CASE e = depth[t]
    BY <2>2 DEF At
  <2>3. CASE e > depth[t]
    BY <2>3 DEF IInv, FramesNest
  <2> QED
    BY <1>1, <2>1, <2>2, <2>3 DEF Frames
<1> QED
  BY <1>2 DEF IInv, WordNamesHolder, HoldsGuard

LEMMA AwakeStep ==
  ASSUME GuardEscapes # "kept", IInv, NoLostWakeup, [Next]_vars
  PROVE  NoLostWakeup'
<1>0. TypeOK /\ TypeOK'
  BY TypeStep DEF IInv
<1>d. \A t \in Threads : depth[t] \in Frames
  BY <1>0 DEF TypeOK
<1>1. CASE UNCHANGED vars
  BY <1>1 DEF vars, NoLostWakeup, Asleep, At, Responsible
<1>2. ASSUME NEW t \in Threads, raw_lock(t) PROVE NoLostWakeup'
  <2>1. CASE /\ futex = Unlocked
             /\ futex' = [tid |-> t, waiters |-> FALSE]
             /\ Goto(t, "cs")
             /\ UNCHANGED word
    <3>1. \A u \in Threads, e \in Frames :
            pc'[u][e] = IF u = t /\ e = depth[t] THEN "cs" ELSE pc[u][e]
      BY <1>0, <1>2, <2>1, GotoFacts DEF raw_lock, Points
    <3> QED
      BY <1>d, <1>2, <2>1, <3>1
      DEF NoLostWakeup, Asleep, Responsible, raw_lock, At, Seen, Unlocked
  <2>2. CASE /\ Goto(t, "contended")
             /\ See(t, futex)
             /\ UNCHANGED futex
    <3>1. \A u \in Threads, e \in Frames :
            pc'[u][e] = IF u = t /\ e = depth[t] THEN "contended" ELSE pc[u][e]
      BY <1>0, <1>2, <2>2, GotoFacts DEF raw_lock, Points
    <3>2. \A u \in Threads, e \in Frames :
            word'[u][e] = IF u = t /\ e = depth[t] THEN futex ELSE word[u][e]
      BY <1>0, <1>2, <2>2, SeeFacts, WordFacts DEF raw_lock, TypeOK
    <3> QED
      BY <1>d, <1>2, <2>2, <3>1, <3>2
      DEF NoLostWakeup, Asleep, Responsible, raw_lock, At, Seen, Unlocked
  <2> QED
    BY <1>2, <2>1, <2>2 DEF raw_lock
<1>3. ASSUME NEW t \in Threads, ReturnRecursive(t) PROVE NoLostWakeup'
  <2>1. \A u \in Threads, e \in Frames :
          pc'[u][e] = IF u = t /\ e = depth[t] THEN "idle" ELSE pc[u][e]
    BY <1>0, <1>3, GotoFacts DEF ReturnRecursive, Points
  <2>2. \A u \in Threads, e \in Frames :
          word'[u][e] = IF u = t /\ e = depth[t] THEN Unlocked ELSE word[u][e]
    BY <1>0, <1>3, SeeFacts, WordFacts DEF ReturnRecursive, TypeOK
  <2> QED
    BY <1>d, <1>3, <2>1, <2>2
    DEF NoLostWakeup, Asleep, Responsible, ReturnRecursive, At, Seen
<1>4. ASSUME NEW t \in Threads, TakeContended(t) PROVE NoLostWakeup'
  <2>1. CASE /\ futex = Unlocked
             /\ futex' = [tid |-> t, waiters |-> TRUE]
             /\ Goto(t, "cs")
             /\ UNCHANGED word
    <3>1. \A u \in Threads, e \in Frames :
            pc'[u][e] = IF u = t /\ e = depth[t] THEN "cs" ELSE pc[u][e]
      BY <1>0, <1>4, <2>1, GotoFacts DEF TakeContended, Points
    <3> QED
      BY <1>d, <1>4, <2>1, <3>1
      DEF NoLostWakeup, Asleep, Responsible, TakeContended, At, Seen, Unlocked
  <2>2. CASE /\ futex # Unlocked
             /\ See(t, futex)
             /\ UNCHANGED <<futex, pc>>
    <3>2. \A u \in Threads, e \in Frames :
            word'[u][e] = IF u = t /\ e = depth[t] THEN futex ELSE word[u][e]
      BY <1>0, <1>4, <2>2, SeeFacts, WordFacts DEF TakeContended, TypeOK
    <3>3. futex.tid = t => kept[t]
      BY <1>4, <2>2, OwnTidMeansLeak, FutexLockAssumption DEF TakeContended, Unlocked
    <3> QED
      BY <1>d, <1>4, <2>2, <3>2, <3>3
      DEF NoLostWakeup, Asleep, Responsible, TakeContended, At, Seen, Unlocked
  <2> QED
    BY <1>4, <2>1, <2>2 DEF TakeContended
<1>5. ASSUME NEW t \in Threads, SetWaiters(t) PROVE NoLostWakeup'
  <2>1. CASE /\ futex = Seen(t)
             /\ futex' = [tid |-> futex.tid, waiters |-> TRUE]
             /\ See(t, futex')
    <3>2. \A u \in Threads, e \in Frames :
            word'[u][e] = IF u = t /\ e = depth[t] THEN futex' ELSE word[u][e]
      BY <1>0, <1>5, <2>1, SeeFacts, WordFacts DEF SetWaiters, TypeOK
    <3> QED
      BY <1>d, <1>5, <2>1, <3>2
      DEF NoLostWakeup, Asleep, Responsible, SetWaiters, At, Seen
  <2>2. CASE /\ futex # Seen(t)
             /\ See(t, futex)
             /\ UNCHANGED futex
    <3>2. \A u \in Threads, e \in Frames :
            word'[u][e] = IF u = t /\ e = depth[t] THEN futex ELSE word[u][e]
      BY <1>0, <1>5, <2>2, SeeFacts, WordFacts DEF SetWaiters, TypeOK
    <3>3. futex.tid = t => kept[t]
      BY <1>5, <2>2, OwnTidMeansLeak DEF SetWaiters
    <3> QED
      BY <1>d, <1>5, <2>2, <3>2, <3>3
      DEF NoLostWakeup, Asleep, Responsible, SetWaiters, At, Seen
  <2> QED
    BY <1>5, <2>1, <2>2 DEF SetWaiters
<1>6. ASSUME NEW t \in Threads, futex_wait(t) PROVE NoLostWakeup'
  <2>1. CASE /\ futex = Seen(t)
             /\ Goto(t, "asleep")
    <3>1. \A u \in Threads, e \in Frames :
            pc'[u][e] = IF u = t /\ e = depth[t] THEN "asleep" ELSE pc[u][e]
      BY <1>0, <1>6, <2>1, GotoFacts DEF futex_wait, Points
    <3> QED
      BY <1>d, <1>6, <2>1, <3>1
      DEF NoLostWakeup, Asleep, Responsible, futex_wait, At, Seen
  <2>2. CASE /\ futex # Seen(t)
             /\ Goto(t, "load")
    <3>1. \A u \in Threads, e \in Frames :
            pc'[u][e] = IF u = t /\ e = depth[t] THEN "load" ELSE pc[u][e]
      BY <1>0, <1>6, <2>2, GotoFacts DEF futex_wait, Points
    <3> QED
      BY <1>d, <1>6, <2>2, <3>1
      DEF NoLostWakeup, Asleep, Responsible, futex_wait, At, Seen
  <2> QED
    BY <1>6, <2>1, <2>2 DEF futex_wait
<1>7. ASSUME NEW t \in Threads, SpuriousWakeup(t) PROVE NoLostWakeup'
  <2>1. \A u \in Threads, e \in Frames :
          pc'[u][e] = IF u = t /\ e = depth[t] THEN "load" ELSE pc[u][e]
    BY <1>0, <1>7, GotoFacts DEF SpuriousWakeup, Points
  <2> QED
    BY <1>d, <1>7, <2>1
    DEF NoLostWakeup, Asleep, Responsible, SpuriousWakeup, At, Seen
<1>8. ASSUME NEW t \in Threads, Reload(t) PROVE NoLostWakeup'
  <2>1. \A u \in Threads, e \in Frames :
          pc'[u][e] = IF u = t /\ e = depth[t] THEN "contended" ELSE pc[u][e]
    BY <1>0, <1>8, GotoFacts DEF Reload, Points
  <2>2. \A u \in Threads, e \in Frames :
          word'[u][e] = IF u = t /\ e = depth[t] THEN futex ELSE word[u][e]
    BY <1>0, <1>8, SeeFacts, WordFacts DEF Reload, TypeOK
  <2>3. futex.tid = t => kept[t]
    BY <1>8, OwnTidMeansLeak DEF Reload
  <2> QED
    BY <1>d, <1>8, <2>1, <2>2, <2>3
    DEF NoLostWakeup, Asleep, Responsible, Reload, At, Seen
<1>9. ASSUME NEW t \in Threads, DropGuard(t) PROVE NoLostWakeup'
  <2>1. \A u \in Threads, e \in Frames :
          pc'[u][e] = IF u = t /\ e = depth[t]
                      THEN IF futex.tid # t THEN "abort"
                           ELSE IF futex.waiters THEN "wake" ELSE "idle"
                      ELSE pc[u][e]
    BY <1>0, <1>9, GotoFacts DEF DropGuard, Points, raw_unlock
  <2>2. futex.tid = t
    BY <1>d, <1>9 DEF IInv, WordNamesHolder, HoldsGuard, DropGuard, At
  <2> QED
    BY <1>d, <1>9, <2>1, <2>2
    DEF NoLostWakeup, Asleep, Responsible, DropGuard, raw_unlock, At, Seen
<1>10. ASSUME NEW t \in Threads, raw_unlock_wake(t) PROVE NoLostWakeup'
  <2>1. ASSUME NEW u \in Asleep,
               pc' = [pc EXCEPT ![t][depth[t]] = "idle", ![u][depth[u]] = "load"]
        PROVE  NoLostWakeup'
    <3>1. u \in Threads /\ u # t /\ pc[u][depth[u]] = "asleep"
      BY <1>10 DEF raw_unlock_wake, Asleep, At
    <3>2. pc'[u][depth[u]] = "load"
      <4>0. Woken(t, u)
        BY <2>1 DEF Woken
      <4>1. \A v \in Threads, e \in Frames :
              pc'[v][e] = IF v = t /\ e = depth[t] THEN "idle"
                          ELSE IF v = u /\ e = depth[u] THEN "load"
                          ELSE pc[v][e]
        BY <1>0, <4>0, <3>1, WakeFacts
      <4> QED
        BY <1>d, <3>1, <4>1
    <3>3. depth' = depth
      BY <1>10 DEF raw_unlock_wake
    <3>4. u \notin Asleep'
      BY <3>2, <3>3 DEF Asleep, At
    <3>5. pc'[u][depth[u]] \in {"wake", "load"}
      BY <3>2
    <3> QED
      BY <1>d, <3>1, <3>4, <3>5 DEF NoLostWakeup, Responsible
  <2>2. CASE /\ Asleep = {}
             /\ Goto(t, "idle")
    <3>1. \A u \in Threads, e \in Frames :
            pc'[u][e] = IF u = t /\ e = depth[t] THEN "idle" ELSE pc[u][e]
      BY <1>0, <1>10, <2>2, GotoFacts DEF raw_unlock_wake, Points
    <3> QED
      BY <1>d, <1>10, <2>2, <3>1
      DEF NoLostWakeup, Asleep, Responsible, raw_unlock_wake, At, Seen
  <2> QED
    BY <1>10, <2>1, <2>2 DEF raw_unlock_wake
<1>11. ASSUME NEW t \in Threads, Escape(t) PROVE NoLostWakeup'
  <2>1. \A u \in Threads, e \in Frames :
          pc'[u][e] = IF u = t /\ e = depth[t] THEN "idle" ELSE pc[u][e]
    BY <1>0, <1>11, GotoFacts DEF Escape, Points
  <2> QED
    BY <1>d, <1>11, <2>1
    DEF NoLostWakeup, Asleep, Responsible, Escape, At, Seen
<1>12. ASSUME NEW t \in Threads, Signal(t) PROVE NoLostWakeup'
  <2>1. CASE /\ At(t) = "asleep"
             /\ Goto(t, "load")
    <3>1. \A u \in Threads, e \in Frames :
            pc'[u][e] = IF u = t /\ e = depth[t] THEN "load" ELSE pc[u][e]
      BY <1>0, <1>12, <2>1, GotoFacts DEF Signal, Points
    <3> QED
      BY <1>d, <1>12, <2>1, <3>1
      DEF NoLostWakeup, Asleep, Responsible, Signal, At, Seen
  <2>2. CASE /\ At(t) = "asleep"
             /\ Goto(t, "contended")
    <3>1. \A u \in Threads, e \in Frames :
            pc'[u][e] = IF u = t /\ e = depth[t] THEN "contended" ELSE pc[u][e]
      BY <1>0, <1>12, <2>2, GotoFacts DEF Signal, Points
    <3>2. word[t][depth[t]].tid # t
      BY <1>d, <2>2 DEF IInv, SleepersWait, At
    <3> QED
      BY <1>d, <1>12, <2>2, <3>1, <3>2
      DEF NoLostWakeup, Asleep, Responsible, Signal, At, Seen
  <2>3. CASE /\ At(t) # "asleep"
             /\ UNCHANGED pc
    <3>1. depth'[t] \in Frames /\ depth'[t] > depth[t]
      BY <1>0, <1>d, <1>12 DEF Signal, TypeOK, Frames
    <3>2. At(t)' = "idle"
      BY <2>3, <3>1 DEF IInv, FramesNest, At
    <3>3. Asleep' = Asleep
      BY <1>0, <1>12, <2>3, <3>2 DEF Asleep, At, Signal, TypeOK
    <3> QED
      BY <1>12, <2>3, <3>3 DEF NoLostWakeup, Responsible, Signal
  <2> QED
    BY <1>12, <2>1, <2>2, <2>3 DEF Signal
<1>13. ASSUME NEW t \in Threads, HandlerReturn(t) PROVE NoLostWakeup'
  <2>1. depth'[t] \in Frames /\ depth'[t] < depth[t]
    BY <1>0, <1>d, <1>13 DEF HandlerReturn, TypeOK, Frames
  <2>2. At(t)' # "asleep"
    BY <1>13, <2>1 DEF IInv, FramesNest, At, HandlerReturn
  <2>3. Asleep' = Asleep
    BY <1>0, <1>13, <2>2 DEF Asleep, At, HandlerReturn, TypeOK
  <2> QED
    BY <1>13, <2>3 DEF NoLostWakeup, Responsible, HandlerReturn
<1> QED
  BY <1>1, <1>2, <1>3, <1>4, <1>5, <1>6, <1>7, <1>8, <1>9, <1>10, <1>11, <1>12,
     <1>13 DEF Next, Step, NewWork, DropKept

\* The argument written in raw_unlock_wake: whoever sleeps, the holder will
\* see FUTEX_WAITERS or some thread that is awake is bound to wake a sleeper,
\* however signals interrupt the code between the swap and the system call.
THEOREM SleepersAreNotLost ==
  ASSUME GuardEscapes # "kept"
  PROVE  Spec => []NoLostWakeup
<1>1. IInv /\ NoLostWakeup /\ [Next]_vars => NoLostWakeup'
  BY AwakeStep
<1> QED
  BY InitAwake, Inductive, <1>1, PTL DEF Spec

-----------------------------------------------------------------------------
(* Refinement of SignalLock *)

\* The points of lock() and drop() as the promise sees them.
LEMMA CallFacts ==
  ASSUME NEW t \in Threads, NEW w \in Words
  PROVE  /\ CallAt(t, "idle", w) = "idle" /\ CallAt(t, "wake", w) = "idle"
         /\ CallAt(t, "asleep", w) = "locking" /\ CallAt(t, "load", w) = "locking"
         /\ CallAt(t, "contended", w) = IF w.tid = t THEN "refused" ELSE "locking"
         /\ CallAt(t, "cs", w) = "holding"
         /\ \A p \in Points : CallAt(t, p, w) = "holding" <=> p = "cs"
BY DEF CallAt, Points

\* A change of what one running frame is doing, seen from outside.
LEMMA AbstractMove ==
  ASSUME NEW t \in Threads, depth[t] \in Frames, NEW c,
         \A u \in Threads, e \in Frames :
           CallAt(u, pc'[u][e], word'[u][e]) =
             IF u = t /\ e = depth[t] THEN c ELSE CallAt(u, pc[u][e], word[u][e])
  PROVE  /\ Abstract!Becomes(t, c)
         /\ CallAt(t, At(t), Seen(t)) = c => UNCHANGED AbstractCall
         /\ Abstract!Top(t) = CallAt(t, At(t), Seen(t))
<1>2. AbstractCall' = [u \in Threads |-> [e \in Frames |-> CallAt(u, pc'[u][e], word'[u][e])]]
  BY DEF AbstractCall
<1>3. AbstractCall' = [AbstractCall EXCEPT ![t][depth[t]] = c]
  BY <1>2 DEF AbstractCall
<1>4. CallAt(t, At(t), Seen(t)) = c => UNCHANGED AbstractCall
  BY <1>2 DEF AbstractCall, At, Seen
<1>5. Abstract!Top(t) = CallAt(t, At(t), Seen(t))
  BY DEF Abstract!Top, AbstractCall, At, Seen
<1> QED
  BY <1>3, <1>4, <1>5 DEF Abstract!Becomes

LEMMA SameGuards ==
  ASSUME TypeOK
  PROVE  \A t \in Threads : Abstract!HoldsGuard(t) <=> HoldsGuard(t)
<1>1. \A t \in Threads, d \in Frames : AbstractCall[t][d] = "holding" <=> pc[t][d] = "cs"
  BY CallFacts DEF AbstractCall, TypeOK
<1> QED
  BY <1>1 DEF Abstract!HoldsGuard, Abstract!Frames, HoldsGuard, Frames

LEMMA InitRefines == Init => Abstract!Init
<1> SUFFICES ASSUME Init PROVE Abstract!Init
  OBVIOUS
<1>1. \A t \in Threads, d \in Frames : CallAt(t, pc[t][d], word[t][d]) = "idle"
  BY CallFacts, WordFacts DEF Init
<1>2. AbstractCall = [t \in Threads |-> [d \in Frames |-> "idle"]]
  BY <1>1 DEF AbstractCall
<1> QED
  BY <1>2 DEF Init, Abstract!Init, Abstract!Frames, Frames

LEMMA StepRefines ==
  ASSUME IInv, [Next]_vars
  PROVE  [Abstract!Next]_(Abstract!vars)
<1> USE DEF Abstract!vars
<1>t. /\ TypeOK
      /\ \A t \in Threads : depth[t] \in Frames /\ Seen(t) \in Words
      /\ \A t \in Threads, d \in Frames : pc[t][d] \in Points /\ word[t][d] \in Words
  BY DEF IInv, TypeOK, Seen
<1>p. \A p \in {"idle", "contended", "asleep", "load", "cs", "wake", "abort"} : p \in Points
  BY DEF Points
\* A move of the running frame alone, with or without a look at the word.
<1>m. ASSUME NEW t \in Threads, NEW q \in Points, NEW w \in Words, Goto(t, q),
             See(t, w) \/ (UNCHANGED word /\ w = Seen(t))
      PROVE  /\ Abstract!Becomes(t, CallAt(t, q, w))
             /\ CallAt(t, At(t), Seen(t)) = CallAt(t, q, w) => UNCHANGED AbstractCall
  <2>1. \A u \in Threads, e \in Frames :
          pc'[u][e] = IF u = t /\ e = depth[t] THEN q ELSE pc[u][e]
    BY <1>m, <1>t, GotoFacts
  <2>2. \A u \in Threads, e \in Frames :
          word'[u][e] = IF u = t /\ e = depth[t] THEN w ELSE word[u][e]
    BY <1>m, <1>t, SeeFacts DEF Seen
  <2>3. \A u \in Threads, e \in Frames :
          CallAt(u, pc'[u][e], word'[u][e]) =
            IF u = t /\ e = depth[t] THEN CallAt(t, q, w) ELSE CallAt(u, pc[u][e], word[u][e])
    BY <2>1, <2>2
  <2> QED
    BY <2>3, <1>t, AbstractMove
<1>v. \A t \in Threads : Abstract!Top(t) = CallAt(t, At(t), Seen(t))
  BY <1>t DEF Abstract!Top, AbstractCall, At, Seen
<1>a. ASSUME NEW t \in Threads, futex = Unlocked, Goto(t, "cs"),
             \/ At(t) = "idle"
             \/ At(t) = "contended" /\ Seen(t).tid # t,
             UNCHANGED <<word, depth, kept>>
      PROVE  Abstract!Acquire(t)
  <2>1. \A u \in Threads : ~Abstract!HoldsGuard(u)
    BY <1>a, <1>t, SameGuards, FutexLockAssumption DEF IInv, WordNamesHolder, Unlocked
  <2>2. CallAt(t, At(t), Seen(t)) \in {"idle", "locking"}
    BY <1>a, <1>t, CallFacts
  <2>3. Abstract!Becomes(t, "holding")
    BY <1>a, <1>t, <1>p, <1>m, CallFacts
  <2> QED
    BY <2>1, <2>2, <2>3, <1>a, <1>v DEF Abstract!Acquire
\* A look at the word that makes the frame wait on or be refused.
<1>l. ASSUME NEW t \in Threads, Goto(t, "contended") \/ (At(t) = "contended" /\ UNCHANGED pc),
             See(t, futex),
             \/ At(t) \in {"idle", "load"}
             \/ At(t) = "contended" /\ Seen(t).tid # t,
             UNCHANGED <<depth, kept>>
      PROVE  Abstract!Wait(t) \/ Abstract!Refuse(t) \/ UNCHANGED Abstract!vars
  <2>0. Goto(t, "contended")
    BY <1>l, <1>t DEF Goto, At, TypeOK
  <2>1. futex \in Words
    BY <1>t DEF TypeOK
  <2>2. /\ Abstract!Becomes(t, CallAt(t, "contended", futex))
        /\ CallAt(t, At(t), Seen(t)) = CallAt(t, "contended", futex) => UNCHANGED AbstractCall
    BY <2>0, <2>1, <1>l, <1>m, <1>p
  <2>3. CallAt(t, "contended", futex) = IF futex.tid = t THEN "refused" ELSE "locking"
    BY <2>1, CallFacts
  <2>4. CallAt(t, At(t), Seen(t)) = IF At(t) = "idle" THEN "idle" ELSE "locking"
    BY <1>l, <1>t, CallFacts
  <2>5. CASE futex.tid = t
    <3>1. Abstract!HoldsGuard(t)
      BY <2>5, <1>t, SameGuards DEF IInv, WordNamesHolder
    <3> QED
      BY <2>2, <2>3, <2>4, <2>5, <3>1, <1>l, <1>v DEF Abstract!Refuse
  <2>6. CASE futex.tid # t
    BY <2>2, <2>3, <2>4, <2>6, <1>l, <1>v DEF Abstract!Wait
  <2> QED
    BY <2>5, <2>6
<1>1. CASE UNCHANGED vars
  BY <1>1 DEF vars, AbstractCall
<1>2. ASSUME NEW t \in Threads, raw_lock(t)
      PROVE  Abstract!Next \/ UNCHANGED Abstract!vars
  BY <1>2, <1>a, <1>l DEF raw_lock, Abstract!Next
<1>3. ASSUME NEW t \in Threads, ReturnRecursive(t) PROVE Abstract!ReturnRecursive(t)
  <2>1. CallAt(t, At(t), Seen(t)) = "refused" /\ CallAt(t, "idle", Unlocked) = "idle"
    BY <1>3, <1>t, CallFacts, WordFacts DEF ReturnRecursive
  <2>2. Abstract!Becomes(t, "idle")
    BY <2>1, <1>3, <1>m, <1>p, WordFacts DEF ReturnRecursive
  <2> QED
    BY <2>1, <2>2, <1>3, <1>v DEF ReturnRecursive, Abstract!ReturnRecursive
<1>4. ASSUME NEW t \in Threads, TakeContended(t)
      PROVE  Abstract!Next \/ UNCHANGED Abstract!vars
  <2>1. At(t) = "contended" /\ Seen(t).tid # t /\ UNCHANGED <<depth, kept>>
    BY <1>4, FutexLockAssumption DEF TakeContended, Unlocked
  <2> QED
    BY <1>4, <2>1, <1>a, <1>l DEF TakeContended, Abstract!Next
<1>5. ASSUME NEW t \in Threads, SetWaiters(t)
      PROVE  Abstract!Next \/ UNCHANGED Abstract!vars
  <2>1. At(t) = "contended" /\ Seen(t).tid # t /\ UNCHANGED <<pc, depth, kept>>
    BY <1>5 DEF SetWaiters
  <2>2. CASE futex = Seen(t) /\ See(t, [tid |-> futex.tid, waiters |-> TRUE])
    <3> DEFINE w == [tid |-> futex.tid, waiters |-> TRUE]
    <3>1. w \in Words /\ w.tid # t
      <4>1. futex.tid \in Threads \ {t}
        <5>1. futex \in Words /\ futex.tid # NoTid /\ futex.tid # t
          BY <1>5, <2>2 DEF SetWaiters, TypeOK, IInv
        <5> QED
          BY <5>1 DEF Words, Unlocked
      <4> QED
        BY <4>1, WordFacts
    <3>2. Goto(t, "contended")
      BY <2>1, <1>t DEF Goto, At, TypeOK
    <3>3. CallAt(t, At(t), Seen(t)) = "locking" /\ CallAt(t, "contended", w) = "locking"
      BY <3>1, <2>1, <1>t, CallFacts
    <3> QED
      BY <3>1, <3>2, <3>3, <2>1, <2>2, <1>m, <1>p
  <2>3. CASE See(t, futex)
    BY <2>1, <2>3, <1>l DEF Abstract!Next
  <2> QED
    BY <1>5, <2>2, <2>3 DEF SetWaiters
<1>6. ASSUME NEW t \in Threads, futex_wait(t) \/ SpuriousWakeup(t)
      PROVE  UNCHANGED Abstract!vars
  <2>1. PICK q \in {"asleep", "load"} : Goto(t, q)
    BY <1>6 DEF futex_wait, SpuriousWakeup
  <2>2. /\ UNCHANGED <<word, depth, kept>>
        /\ At(t) = "asleep" \/ (At(t) = "contended" /\ Seen(t).tid # t)
    BY <1>6 DEF futex_wait, SpuriousWakeup
  <2>3. CallAt(t, At(t), Seen(t)) = "locking" /\ CallAt(t, q, Seen(t)) = "locking"
    BY <2>1, <2>2, <1>t, CallFacts
  <2> QED
    BY <2>1, <2>2, <2>3, <1>m, <1>t, <1>p
<1>7. ASSUME NEW t \in Threads, Reload(t)
      PROVE  Abstract!Next \/ UNCHANGED Abstract!vars
  BY <1>7, <1>l DEF Reload, Abstract!Next
<1>8. ASSUME NEW t \in Threads, raw_unlock(t), HoldsGuard(t), At(t) \in {"idle", "cs"}
      PROVE  /\ Abstract!Becomes(t, "idle")
             /\ At(t) = "idle" => UNCHANGED AbstractCall
             /\ Abstract!Top(t) = IF At(t) = "idle" THEN "idle" ELSE "holding"
             /\ UNCHANGED depth
  <2>1. futex.tid = t
    BY <1>8 DEF IInv, WordNamesHolder
  <2>2. PICK q \in {"wake", "idle"} : Goto(t, q)
    BY <2>1, <1>8 DEF raw_unlock
  <2>3. /\ CallAt(t, q, Seen(t)) = "idle"
        /\ CallAt(t, At(t), Seen(t)) = IF At(t) = "idle" THEN "idle" ELSE "holding"
    BY <2>2, <1>8, <1>t, CallFacts
  <2>4. UNCHANGED <<word, depth>>
    BY <1>8 DEF raw_unlock
  <2>5. /\ Abstract!Becomes(t, CallAt(t, q, Seen(t)))
        /\ CallAt(t, At(t), Seen(t)) = CallAt(t, q, Seen(t)) => UNCHANGED AbstractCall
    BY <2>2, <2>4, <1>m, <1>t, <1>p
  <2> QED
    BY <2>3, <2>4, <2>5, <1>v
<1>9. ASSUME NEW t \in Threads, DropGuard(t) PROVE Abstract!Release(t)
  <2>1. HoldsGuard(t) /\ At(t) = "cs" /\ raw_unlock(t) /\ UNCHANGED kept
    BY <1>9, <1>t DEF DropGuard, HoldsGuard, At
  <2> QED
    BY <2>1, <1>8 DEF Abstract!Release
<1>10. ASSUME NEW t \in Threads, DropKept(t) PROVE Abstract!ReleaseKept(t)
  <2>1. HoldsGuard(t) /\ At(t) = "idle" /\ raw_unlock(t)
    BY <1>10 DEF DropKept, HoldsGuard
  <2>2. GuardEscapes = "kept" /\ kept[t] /\ kept' = [kept EXCEPT ![t] = FALSE]
    BY <1>10 DEF DropKept
  <2> QED
    BY <2>1, <2>2, <1>8 DEF Abstract!ReleaseKept
<1>11. ASSUME NEW t \in Threads, raw_unlock_wake(t) PROVE UNCHANGED Abstract!vars
  <2>0. At(t) = "wake" /\ UNCHANGED <<word, depth, kept>>
    BY <1>11 DEF raw_unlock_wake
  <2>1. ASSUME NEW u \in Asleep,
               pc' = [pc EXCEPT ![t][depth[t]] = "idle", ![u][depth[u]] = "load"]
        PROVE  UNCHANGED AbstractCall
    <3>1. u \in Threads /\ u # t /\ pc[u][depth[u]] = "asleep" /\ pc[t][depth[t]] = "wake"
      BY <2>0 DEF Asleep, At
    <3>0. Woken(t, u)
      BY <2>1 DEF Woken
    <3>2. \A v \in Threads, e \in Frames :
            pc'[v][e] = IF v = t /\ e = depth[t] THEN "idle"
                        ELSE IF v = u /\ e = depth[u] THEN "load"
                        ELSE pc[v][e]
      BY <1>t, <3>0, <3>1, WakeFacts
    <3>3. \A v \in Threads, e \in Frames :
            CallAt(v, pc'[v][e], word'[v][e]) = CallAt(v, pc[v][e], word[v][e])
      BY <3>1, <3>2, <2>0, <1>t, CallFacts
    <3> QED
      BY <3>3 DEF AbstractCall
  <2>2. CASE Goto(t, "idle")
    BY <2>0, <2>2, <1>t, <1>p, <1>m, CallFacts
  <2> QED
    BY <1>11, <2>0, <2>1, <2>2 DEF raw_unlock_wake
<1>12. ASSUME NEW t \in Threads, Escape(t) PROVE Abstract!Escape(t)
  <2>1. CallAt(t, At(t), Seen(t)) = "holding" /\ CallAt(t, "idle", Seen(t)) = "idle"
    BY <1>12, <1>t, CallFacts DEF Escape
  <2>2. Abstract!Becomes(t, "idle")
    BY <2>1, <1>12, <1>t, <1>p, <1>m DEF Escape
  <2> QED
    BY <2>1, <2>2, <1>12, <1>v DEF Escape, Abstract!Escape
<1>13. ASSUME NEW t \in Threads, Signal(t) PROVE Abstract!Signal(t)
  <2>1. UNCHANGED AbstractCall
    <3>1. CASE UNCHANGED pc
      BY <1>13, <3>1 DEF Signal, AbstractCall
    <3>2. ASSUME NEW q \in {"load", "contended"}, At(t) = "asleep", Goto(t, q)
          PROVE  UNCHANGED AbstractCall
      <4>1. Seen(t).tid # t
        BY <3>2, <1>t DEF IInv, SleepersWait, At, Seen
      <4>2. CallAt(t, At(t), Seen(t)) = "locking" /\ CallAt(t, q, Seen(t)) = "locking"
        BY <3>2, <4>1, <1>t, CallFacts
      <4>3. UNCHANGED word
        BY <1>13 DEF Signal
      <4> QED
        BY <3>2, <4>2, <4>3, <1>t, <1>p, <1>m
    <3> QED
      BY <1>13, <3>1, <3>2 DEF Signal
  <2> QED
    BY <1>13, <2>1 DEF Signal, Abstract!Signal
<1>14. ASSUME NEW t \in Threads, HandlerReturn(t) PROVE Abstract!HandlerReturn(t)
  <2>1. UNCHANGED AbstractCall
    BY <1>14 DEF HandlerReturn, AbstractCall
  <2>2. Abstract!Top(t) = "idle"
    BY <1>14, <1>t, <1>v, CallFacts DEF HandlerReturn
  <2> QED
    BY <1>14, <2>1, <2>2 DEF HandlerReturn, Abstract!HandlerReturn
<1> QED
  BY <1>1, <1>2, <1>3, <1>4, <1>5, <1>6, <1>7, <1>9, <1>10, <1>11, <1>12, <1>13, <1>14
  DEF Next, Step, NewWork, Abstract!Next

\* Whatever FutexLock does is something SignalLock promises: it takes the lock
\* only when nobody has a guard, and refuses a call only to a thread that has
\* one when the call looks at the word.
THEOREM Refinement == Spec => ImplementsSignalLock
BY Inductive, InitRefines, StepRefines, PTL DEF Spec, ImplementsSignalLock, Abstract!Spec

=============================================================================
