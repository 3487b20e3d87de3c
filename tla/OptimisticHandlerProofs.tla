----------------------- MODULE OptimisticHandlerProofs -----------------------
(***************************************************************************)
(* Proofs about OptimisticHandler for every set of threads, on any lock    *)
(* that keeps the promises of SignalLock.                                  *)
(***************************************************************************)
EXTENDS OptimisticHandler, TLAPS

LEMMA FramesAre == Frames = {0, 1}
BY HandlerIsNotNested DEF Frames

\* What a step of the running frame's call and place does.
LEMMA BecomesFacts ==
  ASSUME TypeOK, NEW t \in Threads,
         NEW v \in {"idle", "locking", "refused", "holding"}, Becomes(t, v)
  PROVE  /\ call' \in [Threads -> [Frames -> {"idle", "locking", "refused", "holding"}]]
         /\ \A u \in Threads, e \in Frames :
              call'[u][e] = IF u = t /\ e = depth[t] THEN v ELSE call[u][e]
<1>1. depth[t] \in Frames
  BY DEF TypeOK
<1> QED
  BY <1>1 DEF TypeOK, Becomes

LEMMA GotoFacts ==
  ASSUME TypeOK, NEW t \in Threads, NEW p \in Places, Goto(t, p)
  PROVE  /\ at' \in [Threads -> [Frames -> Places]]
         /\ \A u \in Threads, e \in Frames :
              at'[u][e] = IF u = t /\ e = depth[t] THEN p ELSE at[u][e]
<1>1. depth[t] \in Frames
  BY DEF TypeOK
<1> QED
  BY <1>1 DEF TypeOK, Goto

LEMMA InitInv == ProgramInit => IInv
<1> SUFFICES ASSUME ProgramInit PROVE IInv
  OBVIOUS
<1>1. \A t \in Threads, d \in Frames :
        depth[t] = 0 /\ ~kept[t] /\ at[t][d] = "outside" /\ call[t][d] = "idle"
  BY DEF ProgramInit, Init
<1>2. TypeOK
  BY FramesAre DEF ProgramInit, Init, TypeOK, Places
<1> QED
  BY <1>1, <1>2, FramesAre
  DEF ProgramInit, IInv, FramesOfThread, RefusedBySection, NoSignalForgotten

LEMMA InvStep ==
  ASSUME IInv, [ProgramNext]_programAndLock
  PROVE  IInv'
<1> USE FramesAre DEF IInv
<1>t. /\ TypeOK
      /\ \A t \in Threads : depth[t] \in {0, 1}
      /\ \A p \in {"outside", "section", "check", "thing", "did", "panicked",
                   "handler", "defer", "return"} : p \in Places
  BY DEF TypeOK, Places
<1>1. CASE UNCHANGED programAndLock
  BY <1>1 DEF programAndLock, lockVars, programVars, TypeOK, FramesOfThread,
              RefusedBySection, NoSignalForgotten
<1>2. ASSUME NEW t \in Threads, lock(t) PROVE IInv'
  <2>1. /\ UNCHANGED <<depth, kept, SIGNAL_DEFERRED, at, owed>>
        /\ Top(t) \in {"idle", "locking"}
        /\ Running(t) \in {"section", "thing", "handler"}
    BY <1>2 DEF lock, Wait, Acquire, Refuse, programVars
  <2>2. PICK v \in {"locking", "holding", "refused"} :
          Becomes(t, v) /\ (v = "refused" => HoldsGuard(t))
    BY <1>2 DEF lock, Wait, Acquire, Refuse
  <2>3. /\ call' \in [Threads -> [Frames -> {"idle", "locking", "refused", "holding"}]]
        /\ \A u \in Threads, e \in Frames :
             call'[u][e] = IF u = t /\ e = depth[t] THEN v ELSE call[u][e]
    BY <2>2, <1>t, BecomesFacts
  <2>4. TypeOK'
    BY <2>1, <2>3 DEF TypeOK
  <2>5. FramesOfThread'
    BY <2>1, <2>3, <1>t DEF FramesOfThread, Running
  <2>6. RefusedBySection'
    <3>1. v = "refused" => depth[t] = 1 /\ call[t][0] = "holding" /\ at[t][1] = "handler"
      BY <2>1, <2>2, <1>t DEF HoldsGuard, FramesOfThread, Top, Running
    <3>2. depth[t] = 0 => at[t][0] \in {"section", "thing"}
      BY <2>1, <1>t DEF FramesOfThread, Running
    <3> QED
      BY <2>1, <2>3, <3>1, <3>2, <1>t DEF RefusedBySection, Top
  <2>7. NoSignalForgotten'
    BY <2>1 DEF NoSignalForgotten
  <2> QED
    BY <2>4, <2>5, <2>6, <2>7
<1>3. ASSUME NEW t \in Threads, Recursive(t) PROVE IInv'
  <2>1. /\ depth[t] = 1 /\ call[t][1] = "refused" /\ at[t][1] = "handler"
        /\ UNCHANGED <<depth, kept, SIGNAL_DEFERRED, owed>>
    BY <1>3, <1>t DEF Recursive, ReturnRecursive, Top, RefusedBySection
  <2>2. Goto(t, "defer") /\ Becomes(t, "idle")
    BY <1>3, <2>1 DEF Recursive, ReturnRecursive, Running
  <2>3. /\ at' \in [Threads -> [Frames -> Places]]
        /\ \A u \in Threads, e \in Frames :
             at'[u][e] = IF u = t /\ e = 1 THEN "defer" ELSE at[u][e]
    BY <2>1, <2>2, <1>t, GotoFacts
  <2>4. /\ call' \in [Threads -> [Frames -> {"idle", "locking", "refused", "holding"}]]
        /\ \A u \in Threads, e \in Frames :
             call'[u][e] = IF u = t /\ e = 1 THEN "idle" ELSE call[u][e]
    BY <2>1, <2>2, <1>t, BecomesFacts
  <2>5. TypeOK'
    BY <2>1, <2>3, <2>4 DEF TypeOK
  <2>6. FramesOfThread'
    BY <2>1, <2>3, <2>4, <1>t DEF FramesOfThread
  <2>7. RefusedBySection'
    BY <2>1, <2>3, <2>4, <1>t DEF RefusedBySection
  <2>8. NoSignalForgotten'
    BY <2>1, <2>3 DEF NoSignalForgotten
  <2> QED
    BY <2>5, <2>6, <2>7, <2>8
<1>4. ASSUME NEW t \in Threads, unlock(t) PROVE IInv'
  <2>1. /\ UNCHANGED <<depth, kept, SIGNAL_DEFERRED, owed>>
        /\ call[t][depth[t]] = "holding" /\ Becomes(t, "idle")
        /\ at[t][depth[t]] \in {"section", "did"}
    BY <1>4 DEF unlock, Release, Top, Running
  <2>2. PICK p \in {"check", "return"} :
          p = (IF depth[t] = 0 THEN "check" ELSE "return") /\ Goto(t, p)
    BY <1>4 DEF unlock, AfterUnlock
  <2>3. /\ at' \in [Threads -> [Frames -> Places]]
        /\ \A u \in Threads, e \in Frames :
             at'[u][e] = IF u = t /\ e = depth[t] THEN p ELSE at[u][e]
    BY <2>2, <1>t, GotoFacts
  <2>4. /\ call' \in [Threads -> [Frames -> {"idle", "locking", "refused", "holding"}]]
        /\ \A u \in Threads, e \in Frames :
             call'[u][e] = IF u = t /\ e = depth[t] THEN "idle" ELSE call[u][e]
    BY <2>1, <1>t, BecomesFacts
  <2>5. TypeOK'
    BY <2>1, <2>3, <2>4 DEF TypeOK
  <2>6. FramesOfThread'
    BY <2>1, <2>2, <2>3, <2>4, <1>t DEF FramesOfThread
  \* Frame 0 runs, so that no handler of t relies on its guard.
  <2>7. depth[t] = 0 => call[t][1] # "refused" /\ at[t][1] # "defer"
    BY DEF FramesOfThread, RefusedBySection
  <2>8. RefusedBySection'
    BY <2>1, <2>2, <2>3, <2>4, <2>7, <1>t DEF RefusedBySection
  <2>9. NoSignalForgotten'
    BY <2>1, <2>2, <2>3, <1>t DEF NoSignalForgotten
  <2> QED
    BY <2>5, <2>6, <2>8, <2>9
<1>5. ASSUME NEW t \in Threads, normal_code(t) PROVE IInv'
  <2>1. /\ depth[t] = 0 /\ at[t][0] = "outside" /\ Goto(t, "section")
        /\ UNCHANGED <<depth, kept, call, SIGNAL_DEFERRED, owed>>
    BY <1>5 DEF normal_code, Running, lockVars
  <2>2. /\ at' \in [Threads -> [Frames -> Places]]
        /\ \A u \in Threads, e \in Frames :
             at'[u][e] = IF u = t /\ e = 0 THEN "section" ELSE at[u][e]
    BY <2>1, <1>t, GotoFacts
  <2>3. TypeOK'
    BY <2>1, <2>2 DEF TypeOK
  <2>4. FramesOfThread'
    BY <2>1, <2>2, <1>t DEF FramesOfThread
  <2>5. RefusedBySection'
    BY <2>1, <2>2, <1>t DEF RefusedBySection
  <2>6. NoSignalForgotten'
    BY <2>1, <2>2, <1>t DEF NoSignalForgotten
  <2> QED
    BY <2>3, <2>4, <2>5, <2>6
<1>6. ASSUME NEW t \in Threads, do_the_thing(t) PROVE IInv'
  <2>1. /\ call[t][depth[t]] = "holding" /\ at[t][depth[t]] \in {"thing", "handler"}
        /\ Goto(t, "did") /\ owed' = FALSE
        /\ UNCHANGED <<depth, kept, call, SIGNAL_DEFERRED>>
    BY <1>6 DEF do_the_thing, Running, Top, lockVars
  <2>2. /\ at' \in [Threads -> [Frames -> Places]]
        /\ \A u \in Threads, e \in Frames :
             at'[u][e] = IF u = t /\ e = depth[t] THEN "did" ELSE at[u][e]
    BY <2>1, <1>t, GotoFacts
  <2>3. TypeOK'
    BY <2>1, <2>2 DEF TypeOK
  <2>4. FramesOfThread'
    BY <2>1, <2>2, <1>t DEF FramesOfThread
  <2>5. RefusedBySection'
    BY <2>1, <2>2, <1>t DEF RefusedBySection
  <2>6. NoSignalForgotten'
    BY <2>1, <2>2, <1>t DEF NoSignalForgotten
  <2> QED
    BY <2>3, <2>4, <2>5, <2>6
<1>7. ASSUME NEW t \in Threads, CheckDeferred(t) PROVE IInv'
  <2>1. /\ at[t][depth[t]] = "check" /\ SIGNAL_DEFERRED' = FALSE
        /\ UNCHANGED <<depth, kept, call, owed>>
    BY <1>7 DEF CheckDeferred, Running, lockVars
  <2>2. depth[t] = 0
    BY <2>1, <1>t DEF FramesOfThread
  <2>3. PICK p \in {"thing", "outside"} :
          p = (IF SIGNAL_DEFERRED THEN "thing" ELSE "outside") /\ Goto(t, p)
    BY <1>7 DEF CheckDeferred
  <2>4. /\ at' \in [Threads -> [Frames -> Places]]
        /\ \A u \in Threads, e \in Frames :
             at'[u][e] = IF u = t /\ e = 0 THEN p ELSE at[u][e]
    BY <2>2, <2>3, <1>t, GotoFacts
  <2>5. TypeOK' /\ FramesOfThread'
    <3>1. TypeOK'
      BY <2>1, <2>4 DEF TypeOK
    <3>2. FramesOfThread'
      BY <2>1, <2>2, <2>3, <2>4, <1>t DEF FramesOfThread
    <3> QED
      BY <3>1, <3>2
  <2>6. RefusedBySection'
    <3>1. call[t][0] # "holding"
      BY <2>1, <2>2 DEF RefusedBySection
    <3> QED
      BY <2>1, <2>4, <3>1, <1>t DEF RefusedBySection
  <2>7. NoSignalForgotten'
    BY <2>1, <2>2, <2>3, <2>4, <1>t DEF NoSignalForgotten
  <2> QED
    BY <2>5, <2>6, <2>7
<1>8. ASSUME NEW t \in Threads, defer(t) PROVE IInv'
  <2>1. /\ at[t][depth[t]] = "defer" /\ SIGNAL_DEFERRED' = TRUE /\ owed' = TRUE
        /\ Goto(t, "return") /\ UNCHANGED <<depth, kept, call>>
    BY <1>8 DEF defer, Running, lockVars
  <2>2. depth[t] = 1
    BY <2>1, <1>t DEF FramesOfThread
  <2>3. /\ at' \in [Threads -> [Frames -> Places]]
        /\ \A u \in Threads, e \in Frames :
             at'[u][e] = IF u = t /\ e = 1 THEN "return" ELSE at[u][e]
    BY <2>1, <2>2, <1>t, GotoFacts
  <2>4. TypeOK' /\ FramesOfThread' /\ RefusedBySection'
    <3>1. TypeOK'
      BY <2>1, <2>3 DEF TypeOK
    <3>2. FramesOfThread'
      BY <2>1, <2>2, <2>3, <1>t DEF FramesOfThread
    <3>3. call[t][1] # "refused"
      BY <2>1, <2>2 DEF RefusedBySection
    <3>4. RefusedBySection'
      BY <2>1, <2>3, <3>3, <1>t DEF RefusedBySection
    <3> QED
      BY <3>1, <3>2, <3>4
  <2>5. at'[t][0] \in {"section", "thing", "did"}
    BY <2>1, <2>2, <2>3, <1>t DEF RefusedBySection
  <2>6. NoSignalForgotten'
    BY <2>1, <2>5 DEF NoSignalForgotten
  <2> QED
    BY <2>4, <2>6
<1>9. ASSUME NEW t \in Threads, signal_handler(t) PROVE IInv'
  <2>0. depth[t] = 0 /\ depth[t] + 1 = 1
    BY <1>9, <1>t, HandlerIsNotNested DEF signal_handler, Signal
  <2>1. /\ depth' = [depth EXCEPT ![t] = 1]
        /\ at' = [at EXCEPT ![t][1] = "handler"]
        /\ UNCHANGED <<kept, call, SIGNAL_DEFERRED, owed>>
    BY <1>9, <2>0 DEF signal_handler, Signal
  <2>2. /\ at' \in [Threads -> [Frames -> Places]]
        /\ \A u \in Threads, e \in Frames :
             at'[u][e] = IF u = t /\ e = 1 THEN "handler" ELSE at[u][e]
        /\ depth' \in [Threads -> Frames]
        /\ \A u \in Threads : depth'[u] = IF u = t THEN 1 ELSE depth[u]
    BY <2>1, <1>t DEF TypeOK
  <2>3. TypeOK' /\ FramesOfThread' /\ NoSignalForgotten'
    BY <2>1, <2>2, <1>t DEF TypeOK, FramesOfThread, NoSignalForgotten
  <2>4. RefusedBySection'
    BY <2>0, <2>1, <2>2, <1>t DEF FramesOfThread, RefusedBySection
  <2> QED
    BY <2>3, <2>4
<1>10. ASSUME NEW t \in Threads, signal_return(t) PROVE IInv'
  <2>0. depth[t] = 1 /\ depth[t] - 1 = 0
    BY <1>10, <1>t DEF signal_return, HandlerReturn
  <2>1. /\ depth' = [depth EXCEPT ![t] = 0]
        /\ at[t][1] = "return" /\ call[t][1] = "idle" /\ Goto(t, "outside")
        /\ UNCHANGED <<kept, call, SIGNAL_DEFERRED, owed>>
    BY <1>10, <2>0 DEF signal_return, HandlerReturn, Running, Top
  <2>2. /\ at' \in [Threads -> [Frames -> Places]]
        /\ \A u \in Threads, e \in Frames :
             at'[u][e] = IF u = t /\ e = 1 THEN "outside" ELSE at[u][e]
        /\ depth' \in [Threads -> Frames]
        /\ \A u \in Threads : depth'[u] = IF u = t THEN 0 ELSE depth[u]
    BY <2>0, <2>1, <1>t, GotoFacts DEF TypeOK
  <2>3. TypeOK' /\ FramesOfThread' /\ NoSignalForgotten'
    BY <2>1, <2>2, <1>t DEF TypeOK, FramesOfThread, NoSignalForgotten
  <2>4. RefusedBySection'
    BY <2>1, <2>2, <1>t DEF RefusedBySection
  <2> QED
    BY <2>3, <2>4
<1> QED
  BY <1>1, <1>2, <1>3, <1>4, <1>5, <1>6, <1>7, <1>8, <1>9, <1>10
  DEF ProgramNext, ProgramStep, NewWork

\* What ties the handler of a thread to the section that it interrupted and the
\* flag to the code that will look at it: every step preserves IInv.
THEOREM Inductive == FairProgram => []IInv
BY InitInv, InvStep, PTL DEF FairProgram

\* Places and calls stay within their types; handlers nest no deeper than 1.
THEOREM TypeCorrect == FairProgram => []TypeOK
<1>1. IInv => TypeOK
  BY DEF IInv
<1> QED
  BY <1>1, Inductive, PTL

\* "Tell our thread to do it as soon as it unlocks": between the store of a
\* handler's deferral and do_the_thing some thread is always bound to look at
\* SIGNAL_DEFERRED or to do the thing.
THEOREM DeferralsAreKept == FairProgram => []NoSignalForgotten
<1>1. IInv => NoSignalForgotten
  BY DEF IInv
<1> QED
  BY <1>1, Inductive, PTL

\* The unwraps of normal_code never panic.
THEOREM UnwrapsAreSafe == FairProgram => []OrdinaryCodeIsNotRefused
<1>1. IInv => OrdinaryCodeIsNotRefused
  BY DEF IInv, FramesOfThread, OrdinaryCodeIsNotRefused
<1> QED
  BY <1>1, Inductive, PTL

-----------------------------------------------------------------------------
(* What the program has from the lock's promise *)

Promise == INSTANCE SignalLockProofs

\* The program does nothing with the lock that SignalLock does not allow.
LEMMA UsesTheLock == FairProgram => Promise!Spec
<1>1. ProgramInit => Promise!Init
  BY DEF ProgramInit, Init, Promise!Init, Promise!Frames, Frames
<1>2. [ProgramNext]_programAndLock => [Promise!Next]_(Promise!vars)
  <2> SUFFICES ASSUME [ProgramNext]_programAndLock
               PROVE  [Promise!Next]_(Promise!vars)
    OBVIOUS
  <2>1. [Next]_vars
    BY DEF programAndLock, lockVars, vars, ProgramNext, ProgramStep, NewWork, Next, lock,
           Recursive, unlock, do_the_thing, CheckDeferred, defer, signal_return,
           normal_code, signal_handler
  <2> QED
    BY <2>1 DEF Next, Promise!Next, vars, Promise!vars, Wait, Promise!Wait, Acquire,
                Promise!Acquire, Refuse, Promise!Refuse, ReturnRecursive,
                Promise!ReturnRecursive, Release, Promise!Release, Escape, Promise!Escape,
                ReleaseKept, Promise!ReleaseKept, Signal, Promise!Signal, HandlerReturn,
                Promise!HandlerReturn, Top, Promise!Top, Becomes, Promise!Becomes,
                HoldsGuard, Promise!HoldsGuard, Frames, Promise!Frames
<1> QED
  BY <1>1, <1>2, PTL DEF FairProgram, Promise!Spec

\* Whoever does the thing, ordinary code or a handler, is the only one with a
\* guard: no other thread, and no other frame of its own, is in between.
Exclusively ==
  [][\A t \in Threads : do_the_thing(t) =>
       \A u \in Threads, d \in Frames :
         call[u][d] = "holding" => u = t /\ d = depth[t]]_programAndLock

THEOREM TheThingIsExclusive == FairProgram => Exclusively
<1>1. MaxDepth \in Nat
  BY HandlerIsNotNested
<1>2. Promise!Spec => []Promise!OneGuard
  BY <1>1, Promise!PromiseOfOneGuard
<1>3. IInv /\ Promise!OneGuard =>
        \A t \in Threads : do_the_thing(t) =>
          \A u \in Threads, d \in Frames :
            call[u][d] = "holding" => u = t /\ d = depth[t]
  <2> SUFFICES ASSUME IInv, Promise!OneGuard, NEW t \in Threads, do_the_thing(t),
                      NEW u \in Threads, NEW d \in Frames, call[u][d] = "holding"
               PROVE  u = t /\ d = depth[t]
    OBVIOUS
  <2>1. call[t][depth[t]] = "holding" /\ depth[t] \in Frames
    BY DEF do_the_thing, Top, IInv, TypeOK
  <2>2. Promise!HoldsGuard(t) /\ Promise!HoldsGuard(u)
    BY <2>1 DEF Promise!HoldsGuard, Promise!Frames, Frames
  <2> QED
    BY <2>1, <2>2 DEF Promise!OneGuard, Promise!Frames, Frames
<1> QED
  BY <1>2, <1>3, UsesTheLock, Inductive, PTL DEF Exclusively

=============================================================================
