-------------------------- MODULE SignalLockProofs --------------------------
(***************************************************************************)
(* What the promise of SignalLock amounts to, for any set of threads, any  *)
(* depth of nested handlers and any fate of guards.  FutexLock and         *)
(* PipeLock are proved to implement SignalLock, so that the theorems of    *)
(* this module hold of both.                                               *)
(***************************************************************************)
EXTENDS SignalLock, TLAPS

Calls == {"idle", "locking", "refused", "holding"}

CallsAreTyped ==
  /\ depth \in [Threads -> Frames]
  /\ call \in [Threads -> [Frames -> Calls]]
  /\ kept \in [Threads -> BOOLEAN]

\* A frame that does not exist yet, or no longer, has nothing to do with the lock.
OnlyFramesCall == \A t \in Threads, d \in Frames : d > depth[t] => call[t][d] = "idle"

\* There is one guard at a time: of one thread, and that thread has it in one
\* frame or stored, not in two places.
OneGuard ==
  /\ \A t, u \in Threads : HoldsGuard(t) /\ HoldsGuard(u) => t = u
  /\ \A t \in Threads, d, e \in Frames :
       call[t][d] = "holding" /\ call[t][e] = "holding" => d = e
  /\ \A t \in Threads, d \in Frames : call[t][d] = "holding" => ~kept[t]

\* The guard that a refused frame ran into is still there when it returns: it was
\* leaked, or belongs to a frame that this one has interrupted.
RefusedBelow ==
  \A t \in Threads, d \in Frames :
    call[t][d] = "refused" => \/ kept[t]
                              \/ \E e \in Frames : e < d /\ call[t][e] = "holding"

PromiseInv ==
  /\ CallsAreTyped /\ OnlyFramesCall /\ OneGuard
  /\ GuardEscapes # "kept" => RefusedBelow

-----------------------------------------------------------------------------

\* What a step of the running frame's call does.
LEMMA BecomesFacts ==
  ASSUME CallsAreTyped, NEW t \in Threads, NEW v \in Calls, Becomes(t, v)
  PROVE  /\ call' \in [Threads -> [Frames -> Calls]]
         /\ \A u \in Threads, e \in Frames :
              call'[u][e] = IF u = t /\ e = depth[t] THEN v ELSE call[u][e]
<1>1. depth[t] \in Frames
  BY DEF CallsAreTyped
<1> QED
  BY <1>1 DEF CallsAreTyped, Becomes

\* The frames above the running one stay as they are.
LEMMA NestingStays ==
  ASSUME MaxDepth \in Nat, CallsAreTyped, OnlyFramesCall, NEW t \in Threads,
         depth' = depth,
         \A u \in Threads, e \in Frames :
           u # t \/ e # depth[t] => call'[u][e] = call[u][e]
  PROVE  OnlyFramesCall'
<1>1. depth[t] \in Frames /\ ~(depth[t] > depth[t])
  BY DEF CallsAreTyped, Frames
<1> QED
  BY <1>1 DEF OnlyFramesCall

\* A call that has no guard and gets none, and is not refused: it waits, or
\* returns Err(Recursive).
LEMMA OrdinaryStep ==
  ASSUME MaxDepth \in Nat, PromiseInv, NEW t \in Threads, NEW v \in {"idle", "locking"},
         Becomes(t, v), Top(t) # "holding", depth' = depth, kept' = kept
  PROVE  PromiseInv'
<1>0. CallsAreTyped /\ v \in Calls /\ depth[t] \in Frames
  BY DEF PromiseInv, Calls, CallsAreTyped
<1>1. /\ call' \in [Threads -> [Frames -> Calls]]
      /\ \A u \in Threads, e \in Frames :
           call'[u][e] = IF u = t /\ e = depth[t] THEN v ELSE call[u][e]
  BY <1>0, BecomesFacts
<1>2. \A u \in Threads, e \in Frames : call'[u][e] = "holding" <=> call[u][e] = "holding"
  BY <1>1 DEF Top
<1>3. \A u \in Threads : HoldsGuard(u)' <=> HoldsGuard(u)
  BY <1>2 DEF HoldsGuard
<1>4. CallsAreTyped'
  BY <1>0, <1>1 DEF CallsAreTyped
<1>5. OnlyFramesCall'
  <2>1. \A u \in Threads, e \in Frames :
          u # t \/ e # depth[t] => call'[u][e] = call[u][e]
    BY <1>1
  <2> QED
    BY <1>0, <2>1, NestingStays DEF PromiseInv
<1>6. OneGuard'
  BY <1>2, <1>3 DEF PromiseInv, OneGuard
<1>7. RefusedBelow => RefusedBelow'
  BY <1>1, <1>2 DEF RefusedBelow
<1> QED
  BY <1>4, <1>5, <1>6, <1>7 DEF PromiseInv

\* The running frame gives its guard away: it drops it, or stores it.  No frame
\* above it exists that could have been refused because of it.
LEMMA GuardLeaves ==
  ASSUME MaxDepth \in Nat, PromiseInv, NEW t \in Threads, Becomes(t, "idle"),
         Top(t) = "holding", depth' = depth,
         kept' \in [Threads -> BOOLEAN], \A u \in Threads \ {t} : kept'[u] = kept[u]
  PROVE  PromiseInv'
<1>0. CallsAreTyped /\ "idle" \in Calls /\ depth[t] \in Frames
      /\ call[t][depth[t]] = "holding"
  BY DEF PromiseInv, Calls, CallsAreTyped, Top
<1>1. /\ call' \in [Threads -> [Frames -> Calls]]
      /\ \A u \in Threads, e \in Frames :
           call'[u][e] = IF u = t /\ e = depth[t] THEN "idle" ELSE call[u][e]
  BY <1>0, BecomesFacts
<1>2. HoldsGuard(t) /\ ~kept[t]
  BY <1>0 DEF HoldsGuard, PromiseInv, OneGuard
<1>3. \A u \in Threads : HoldsGuard(u) <=> u = t
  BY <1>2 DEF PromiseInv, OneGuard
<1>4. \A u \in Threads, e \in Frames : call'[u][e] # "holding"
  BY <1>0, <1>1, <1>3 DEF HoldsGuard, PromiseInv, OneGuard
<1>5. \A u \in Threads \ {t} : ~kept'[u]
  BY <1>3 DEF HoldsGuard
<1>6. CallsAreTyped'
  BY <1>0, <1>1 DEF CallsAreTyped
<1>7. OnlyFramesCall'
  <2>1. \A u \in Threads, e \in Frames :
          u # t \/ e # depth[t] => call'[u][e] = call[u][e]
    BY <1>1
  <2> QED
    BY <1>0, <2>1, NestingStays DEF PromiseInv
<1>8. OneGuard'
  BY <1>4, <1>5 DEF OneGuard, HoldsGuard
<1>9. RefusedBelow => RefusedBelow'
  <2> SUFFICES ASSUME RefusedBelow, NEW u \in Threads, NEW d \in Frames,
                      call'[u][d] = "refused"
               PROVE  FALSE
    BY DEF RefusedBelow
  <2>1. call[u][d] = "refused"
    BY <1>1
  <2>2. u = t
    BY <1>3, <2>1 DEF RefusedBelow, HoldsGuard
  <2>3. PICK e \in Frames : e < d /\ call[t][e] = "holding"
    BY <1>2, <2>1, <2>2 DEF RefusedBelow
  <2>4. e = depth[t]
    BY <1>0, <2>3 DEF PromiseInv, OneGuard
  <2>5. d > depth[t]
    BY <2>3, <2>4 DEF Frames
  <2> QED
    BY <2>1, <2>2, <2>5 DEF PromiseInv, OnlyFramesCall
<1> QED
  BY <1>6, <1>7, <1>8, <1>9 DEF PromiseInv

LEMMA AcquireStep ==
  ASSUME MaxDepth \in Nat, PromiseInv, NEW t \in Threads, Acquire(t)
  PROVE  PromiseInv'
<1>0. /\ CallsAreTyped /\ "holding" \in Calls /\ depth[t] \in Frames
      /\ Becomes(t, "holding") /\ depth' = depth /\ kept' = kept
      /\ \A u \in Threads : ~HoldsGuard(u)
  BY DEF PromiseInv, Calls, CallsAreTyped, Acquire
<1>1. /\ call' \in [Threads -> [Frames -> Calls]]
      /\ \A u \in Threads, e \in Frames :
           call'[u][e] = IF u = t /\ e = depth[t] THEN "holding" ELSE call[u][e]
  BY <1>0, BecomesFacts
<1>2. \A u \in Threads, e \in Frames :
        ~kept[u] /\ (call'[u][e] = "holding" <=> (u = t /\ e = depth[t]))
  BY <1>0, <1>1 DEF HoldsGuard
<1>3. CallsAreTyped'
  BY <1>0, <1>1 DEF CallsAreTyped, PromiseInv
<1>4. OnlyFramesCall'
  <2>1. \A u \in Threads, e \in Frames :
          u # t \/ e # depth[t] => call'[u][e] = call[u][e]
    BY <1>1
  <2> QED
    BY <1>0, <2>1, NestingStays DEF PromiseInv
<1>5. OneGuard'
  BY <1>0, <1>2 DEF OneGuard, HoldsGuard
\* Nobody has a guard, so nobody is refused.
<1>6. RefusedBelow => RefusedBelow'
  BY <1>0, <1>1 DEF RefusedBelow, HoldsGuard
<1> QED
  BY <1>3, <1>4, <1>5, <1>6 DEF PromiseInv

LEMMA RefuseStep ==
  ASSUME MaxDepth \in Nat, PromiseInv, NEW t \in Threads, Refuse(t)
  PROVE  PromiseInv'
<1>0. /\ CallsAreTyped /\ "refused" \in Calls /\ depth[t] \in Frames
      /\ Becomes(t, "refused") /\ depth' = depth /\ kept' = kept
      /\ HoldsGuard(t) /\ call[t][depth[t]] # "holding"
  BY DEF PromiseInv, Calls, CallsAreTyped, Refuse, Top
<1>1. /\ call' \in [Threads -> [Frames -> Calls]]
      /\ \A u \in Threads, e \in Frames :
           call'[u][e] = IF u = t /\ e = depth[t] THEN "refused" ELSE call[u][e]
  BY <1>0, BecomesFacts
<1>2. \A u \in Threads, e \in Frames : call'[u][e] = "holding" <=> call[u][e] = "holding"
  BY <1>0, <1>1
<1>3. \A u \in Threads : HoldsGuard(u)' <=> HoldsGuard(u)
  BY <1>0, <1>2 DEF HoldsGuard
<1>4. CallsAreTyped'
  BY <1>0, <1>1 DEF CallsAreTyped, PromiseInv
<1>5. OnlyFramesCall'
  <2>1. \A u \in Threads, e \in Frames :
          u # t \/ e # depth[t] => call'[u][e] = call[u][e]
    BY <1>1
  <2> QED
    BY <1>0, <2>1, NestingStays DEF PromiseInv
<1>6. OneGuard'
  BY <1>0, <1>2, <1>3 DEF PromiseInv, OneGuard
<1>7. kept[t] \/ \E e \in Frames : e < depth[t] /\ call[t][e] = "holding"
  <2>1. CASE kept[t]
    BY <2>1
  <2>2. ASSUME NEW e \in Frames, call[t][e] = "holding"
        PROVE  e < depth[t]
    <3>1. ~(e > depth[t]) /\ e # depth[t]
      BY <1>0, <2>2 DEF PromiseInv, OnlyFramesCall
    <3> QED
      BY <1>0, <3>1 DEF Frames
  <2> QED
    BY <1>0, <2>1, <2>2 DEF HoldsGuard
<1>8. RefusedBelow => RefusedBelow'
  BY <1>0, <1>1, <1>2, <1>7 DEF RefusedBelow
<1> QED
  BY <1>4, <1>5, <1>6, <1>8 DEF PromiseInv

\* A signal arrives, or a handler returns.
LEMMA DepthStep ==
  ASSUME MaxDepth \in Nat, PromiseInv, NEW t \in Threads, Signal(t) \/ HandlerReturn(t)
  PROVE  PromiseInv'
<1>0. /\ depth \in [Threads -> Frames] /\ depth[t] \in Frames
      /\ call' = call /\ kept' = kept
  BY DEF PromiseInv, CallsAreTyped, Signal, HandlerReturn
<1>1. PICK d \in Frames :
        /\ depth' = [depth EXCEPT ![t] = d]
        /\ d = depth[t] + 1 \/ (d = depth[t] - 1 /\ call[t][depth[t]] = "idle")
  <2>1. CASE Signal(t)
    <3>1. depth[t] + 1 \in Frames /\ depth' = [depth EXCEPT ![t] = depth[t] + 1]
      BY <1>0, <2>1 DEF Signal, Frames
    <3> QED
      BY <3>1
  <2>2. CASE HandlerReturn(t)
    <3>1. /\ depth[t] - 1 \in Frames /\ depth' = [depth EXCEPT ![t] = depth[t] - 1]
          /\ call[t][depth[t]] = "idle"
      BY <1>0, <2>2 DEF HandlerReturn, Frames, Top
    <3> QED
      BY <3>1
  <2> QED
    BY <2>1, <2>2
<1>2. /\ depth' \in [Threads -> Frames]
      /\ \A u \in Threads : depth'[u] = IF u = t THEN d ELSE depth[u]
  BY <1>0, <1>1
<1>3. CallsAreTyped'
  BY <1>0, <1>2 DEF PromiseInv, CallsAreTyped
<1>4. OnlyFramesCall'
  <2> SUFFICES ASSUME NEW u \in Threads, NEW e \in Frames, e > depth'[u]
               PROVE  call[u][e] = "idle"
    BY <1>0 DEF OnlyFramesCall
  <2>1. CASE u # t
    BY <1>2, <2>1 DEF PromiseInv, OnlyFramesCall
  <2>2. CASE u = t
    <3>1. e > depth[t] \/ (e = depth[t] /\ call[t][depth[t]] = "idle")
      BY <1>0, <1>1, <1>2, <2>2 DEF Frames
    <3> QED
      BY <2>2, <3>1 DEF PromiseInv, OnlyFramesCall
  <2> QED
    BY <2>1, <2>2
<1>5. OneGuard' /\ (RefusedBelow => RefusedBelow')
  BY <1>0 DEF PromiseInv, OneGuard, RefusedBelow, HoldsGuard
<1> QED
  BY <1>3, <1>4, <1>5 DEF PromiseInv

\* A guard that was stored is dropped; only programs that keep guards do that,
\* and of them RefusedBelow is not said.
LEMMA ReleaseKeptStep ==
  ASSUME MaxDepth \in Nat, PromiseInv, NEW t \in Threads, ReleaseKept(t)
  PROVE  PromiseInv'
<1>0. /\ depth' = depth /\ call' = call /\ GuardEscapes = "kept"
      /\ kept' = [kept EXCEPT ![t] = FALSE] /\ kept \in [Threads -> BOOLEAN]
  BY DEF ReleaseKept, PromiseInv, CallsAreTyped
<1>1. kept' \in [Threads -> BOOLEAN] /\ \A u \in Threads : kept'[u] => kept[u]
  BY <1>0
<1>2. CallsAreTyped' /\ OnlyFramesCall'
  BY <1>0, <1>1 DEF PromiseInv, CallsAreTyped, OnlyFramesCall
<1>3. \A u \in Threads : HoldsGuard(u)' => HoldsGuard(u)
  BY <1>0, <1>1 DEF HoldsGuard
<1>4. OneGuard'
  BY <1>0, <1>1, <1>3 DEF PromiseInv, OneGuard
<1> QED
  BY <1>0, <1>2, <1>4 DEF PromiseInv

-----------------------------------------------------------------------------

LEMMA InitPromise == ASSUME MaxDepth \in Nat, Init PROVE PromiseInv
<1>1. /\ \A t \in Threads : depth[t] = 0 /\ ~kept[t]
      /\ \A t \in Threads, d \in Frames : call[t][d] = "idle"
  BY DEF Init
<1>2. CallsAreTyped
  BY DEF Init, CallsAreTyped, Calls, Frames
<1> QED
  BY <1>1, <1>2 DEF PromiseInv, OnlyFramesCall, OneGuard, RefusedBelow, HoldsGuard

LEMMA PromiseStep == ASSUME MaxDepth \in Nat, PromiseInv, [Next]_vars PROVE PromiseInv'
<1>1. CASE UNCHANGED vars
  <2>1. depth' = depth /\ call' = call /\ kept' = kept
    BY <1>1 DEF vars
  <2> QED
    BY <2>1 DEF PromiseInv, CallsAreTyped, OnlyFramesCall, OneGuard, RefusedBelow,
                HoldsGuard
<1>2. ASSUME NEW t \in Threads, Wait(t) PROVE PromiseInv'
  BY <1>2, OrdinaryStep DEF Wait
<1>3. ASSUME NEW t \in Threads, ReturnRecursive(t) PROVE PromiseInv'
  BY <1>3, OrdinaryStep DEF ReturnRecursive
<1>4. ASSUME NEW t \in Threads, Release(t) PROVE PromiseInv'
  BY <1>4, GuardLeaves DEF Release, PromiseInv, CallsAreTyped
<1>5. ASSUME NEW t \in Threads, Escape(t) PROVE PromiseInv'
  <2>1. kept' \in [Threads -> BOOLEAN] /\ \A u \in Threads \ {t} : kept'[u] = kept[u]
    BY <1>5 DEF Escape, PromiseInv, CallsAreTyped
  <2> QED
    BY <1>5, <2>1, GuardLeaves DEF Escape
<1> QED
  BY <1>1, <1>2, <1>3, <1>4, <1>5, AcquireStep, RefuseStep, ReleaseKeptStep, DepthStep
  DEF Next

\* "SignalLock is a mutex that is safe for use in signal handlers" (lib.rs:42):
\* whatever callers do with guards, at most one exists, over all threads and the
\* handlers that interrupt them.
THEOREM PromiseOfOneGuard ==
  ASSUME MaxDepth \in Nat
  PROVE  Spec => []OneGuard
<1>1. Init => PromiseInv
  BY InitPromise
<1>2. PromiseInv /\ [Next]_vars => PromiseInv'
  BY PromiseStep
<1>3. PromiseInv => OneGuard
  BY DEF PromiseInv
<1> QED
  BY <1>1, <1>2, <1>3, PTL DEF Spec

\* "This thread already holds the lock" (lib.rs:272): Err(Recursive) is true when
\* lock() returns it, not only when it is decided, for programs that do not store
\* guards: the guard was leaked on this thread, or is held by code that the call
\* has interrupted, and waiting for that code would be waiting for ever.
THEOREM PromiseOfRefusal ==
  ASSUME MaxDepth \in Nat, GuardEscapes # "kept"
  PROVE  Spec => []RefusedBelow
<1>1. Init => PromiseInv
  BY InitPromise
<1>2. PromiseInv /\ [Next]_vars => PromiseInv'
  BY PromiseStep
<1>3. PromiseInv => RefusedBelow
  BY DEF PromiseInv
<1> QED
  BY <1>1, <1>2, <1>3, PTL DEF Spec

=============================================================================
