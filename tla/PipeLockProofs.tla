--------------------------- MODULE PipeLockProofs ---------------------------
(***************************************************************************)
(* Proofs about PipeLock for every finite set of threads, every depth of   *)
(* nested handlers, every size of the pipe and every fate of guards: the   *)
(* inductive invariant IInv, the safety properties that follow from it,    *)
(* and that every step of the lock is one that SignalLock promises.        *)
(***************************************************************************)
EXTENDS PipeLock, FiniteSetTheorems, TLAPS

\* The running frame of t goes to q and no other frame moves.
Moved(t, q) ==
  \A u \in Threads, e \in Frames :
    pc'[u][e] = IF u = t /\ e = depth[t] THEN q ELSE pc[u][e]

LEMMA GotoFacts ==
  ASSUME TypeOK, NEW t \in Threads, NEW q \in Points, Goto(t, q)
  PROVE  pc' \in [Threads -> [Frames -> Points]] /\ Moved(t, q)
<1>1. depth[t] \in Frames
  BY DEF TypeOK
<1> QED
  BY <1>1 DEF TypeOK, Goto, Moved

LEMMA SetContendedType ==
  ASSUME TypeOK, NEW t \in Threads, NEW flag \in BOOLEAN, SetContended(t, flag)
  PROVE  contended' \in [Threads -> [Frames -> BOOLEAN]]
<1>1. depth[t] \in Frames
  BY DEF TypeOK
<1> QED
  BY <1>1 DEF TypeOK, SetContended

-----------------------------------------------------------------------------
(* Types, relative to the count: that waiters -= 1 never wraps is part of  *)
(* the inductive invariant, and so waiters \in Nat is added there.         *)

\* TypeOK' without its conjunct on waiters.
NextTypes ==
  /\ holder_tid' \in Threads \cup {NoTid}
  /\ pipe' \in 0 .. Capacity
  /\ pc' \in [Threads -> [Frames -> Points]]
  /\ contended' \in [Threads -> [Frames -> BOOLEAN]]
  /\ depth' \in [Threads -> Frames]
  /\ kept' \in [Threads -> KeptGuards]
  /\ errno' \in [Threads -> Errors]
  /\ saved' \in [Threads -> [Frames -> Errors]]

LEMMA TypeStep ==
  ASSUME TypeOK, [Next]_vars
  PROVE  NextTypes
<1> USE DEF ERRNO
<1>p. \A p \in {"idle", "announce", "refused", "cs", "swapped", "write", "unwritten",
                "abort", "try", "read", "interrupted", "unread", "won", "giveup"} :
        p \in Points
  BY DEF Points, Announced
<1>1. CASE UNCHANGED vars
  BY <1>1 DEF TypeOK, NextTypes, vars
<1>2. ASSUME NEW t \in Threads, lock(t) PROVE NextTypes
  BY <1>2, <1>p, GotoFacts DEF TypeOK, NextTypes, lock, Exchange, IsCaller
<1>3. ASSUME NEW t \in Threads, ReturnRecursive(t) PROVE NextTypes
  BY <1>3, <1>p, GotoFacts DEF TypeOK, NextTypes, ReturnRecursive
<1>4. ASSUME NEW t \in Threads, Announce(t) PROVE NextTypes
  BY <1>4, <1>p, GotoFacts DEF TypeOK, NextTypes, Announce
<1>5. ASSUME NEW t \in Threads, TryLock(t) PROVE NextTypes
  BY <1>5, <1>p, GotoFacts DEF TypeOK, NextTypes, TryLock, Exchange, IsCaller
<1>6. ASSUME NEW t \in Threads, Withdraw(t) PROVE NextTypes
  BY <1>6, <1>p, GotoFacts, SetContendedType DEF TypeOK, NextTypes, Withdraw
<1>7. ASSUME NEW t \in Threads, read(t) PROVE NextTypes
  <2>1. pipe' \in 0 .. Capacity
    BY <1>7, PipeLockAssumption DEF TypeOK, read
  <2> QED
    BY <1>7, <2>1, <1>p, GotoFacts DEF TypeOK, NextTypes, read
<1>8. ASSUME NEW t \in Threads, ReadFails(t) PROVE NextTypes
  BY <1>8, <1>p, GotoFacts DEF TypeOK, NextTypes, ReadFails, Errors
<1>9. ASSUME NEW t \in Threads, CheckReadErrno(t) PROVE NextTypes
  BY <1>9, <1>p, GotoFacts DEF TypeOK, NextTypes, CheckReadErrno, Errors
<1>10. ASSUME NEW t \in Threads, DropGuard(t) PROVE NextTypes
  BY <1>10, <1>p, GotoFacts DEF TypeOK, NextTypes, DropGuard, Swap
<1>11. ASSUME NEW t \in Threads, DropKept(t) PROVE NextTypes
  <2>1. contended' \in [Threads -> [Frames -> BOOLEAN]]
    BY <1>11, SetContendedType DEF DropKept
  <2> QED
    BY <1>11, <2>1, <1>p, GotoFacts DEF TypeOK, NextTypes, DropKept, Swap, KeptGuards
<1>12. ASSUME NEW t \in Threads, CheckWaiters(t) PROVE NextTypes
  BY <1>12, <1>p, GotoFacts, SetContendedType DEF TypeOK, NextTypes, CheckWaiters, Leave
<1>13. ASSUME NEW t \in Threads, write(t) PROVE NextTypes
  <2>1. pipe' \in 0 .. Capacity
    BY <1>13, PipeLockAssumption DEF TypeOK, write
  <2> QED
    BY <1>13, <2>1, <1>p, GotoFacts, SetContendedType
    DEF TypeOK, NextTypes, write, Leave, Errors
<1>14. ASSUME NEW t \in Threads, CheckWriteErrno(t) PROVE NextTypes
  <2>1. errno' \in [Threads -> Errors]
    BY <1>14 DEF TypeOK, CheckWriteErrno, Errors
  <2>2. errno[t] \in Errors
    BY DEF TypeOK
  <2> QED
    BY <1>14, <2>1, <2>2, <1>p, GotoFacts, SetContendedType
    DEF TypeOK, NextTypes, CheckWriteErrno, Leave, Errors
<1>15. ASSUME NEW t \in Threads, Escape(t) PROVE NextTypes
  BY <1>15, <1>p, GotoFacts, SetContendedType
  DEF TypeOK, NextTypes, Escape, Leave, KeptGuards
<1>16. ASSUME NEW t \in Threads, Signal(t) PROVE NextTypes
  <2>1. depth' \in [Threads -> Frames] /\ depth[t] + 1 \in Frames
    BY <1>16, PipeLockAssumption DEF TypeOK, Signal, Frames
  <2>2. saved' \in [Threads -> [Frames -> Errors]]
    BY <1>16, <2>1 DEF TypeOK, Signal
  <2> QED
    BY <1>16, <2>1, <2>2, <1>p, GotoFacts DEF TypeOK, NextTypes, Signal
<1>17. ASSUME NEW t \in Threads, HandlerReturn(t) PROVE NextTypes
  <2>1. depth' \in [Threads -> Frames] /\ depth[t] \in Frames
    BY <1>17, PipeLockAssumption DEF TypeOK, HandlerReturn, Frames
  <2>2. saved' \in [Threads -> [Frames -> Errors]] /\ errno' \in [Threads -> Errors]
    BY <1>17, <2>1 DEF TypeOK, HandlerReturn, Restored, Errors
  <2> QED
    BY <1>17, <2>1, <2>2 DEF TypeOK, NextTypes, HandlerReturn
<1> QED
  BY <1>1, <1>2, <1>3, <1>4, <1>5, <1>6, <1>7, <1>8, <1>9, <1>10, <1>11, <1>12,
     <1>13, <1>14, <1>15, <1>16, <1>17 DEF Next, Step, NewWork

-----------------------------------------------------------------------------
(* Counting the announced frames *)

AnnouncedFrames == {f \in Threads \X Frames : pc[f[1]][f[2]] \in Announced}

LEMMA FramesAreFinite == \A F \in SUBSET (Threads \X Frames) : IsFiniteSet(F)
<1>1. IsFiniteSet(Frames)
  BY FS_Interval, PipeLockAssumption DEF Frames
<1>2. IsFiniteSet(Threads \X Frames)
  BY <1>1, FS_Product, PipeLockAssumption
<1> QED
  BY <1>2, FS_Subset

\* waiters -= 1 finds at least the caller in the count, and no other change.
LEMMA CountFacts ==
  ASSUME NEW t \in Threads, depth[t] \in Frames, NEW q, Moved(t, q), WaitersAreCounted
  PROVE  /\ (At(t) \in Announced <=> q \in Announced) /\ waiters' = waiters
              => WaitersAreCounted'
         /\ At(t) \notin Announced /\ q \in Announced /\ waiters' = waiters + 1
              => WaitersAreCounted'
         /\ At(t) \in Announced /\ q \notin Announced /\ waiters' = waiters - 1
              => WaitersAreCounted'
<1> DEFINE me == <<t, depth[t]>>
<1>0. me \in Threads \X Frames /\ IsFiniteSet(AnnouncedFrames)
  BY FramesAreFinite DEF AnnouncedFrames
<1>1. \A f \in Threads \X Frames :
        /\ f = <<f[1], f[2]>> /\ f[1] \in Threads /\ f[2] \in Frames
        /\ pc'[f[1]][f[2]] = IF f = me THEN q ELSE pc[f[1]][f[2]]
  BY DEF Moved
<1>2. AnnouncedFrames' = {f \in Threads \X Frames : pc'[f[1]][f[2]] \in Announced}
  BY DEF AnnouncedFrames
<1>3. waiters = Cardinality(AnnouncedFrames)
  BY DEF WaitersAreCounted, AnnouncedFrames
<1>4. WaitersAreCounted' <=> waiters' = Cardinality(AnnouncedFrames')
  BY DEF WaitersAreCounted, AnnouncedFrames
<1>5. me \in AnnouncedFrames <=> At(t) \in Announced
  BY <1>0 DEF AnnouncedFrames, At
<1>6. CASE At(t) \in Announced <=> q \in Announced
  <2>1. AnnouncedFrames' = AnnouncedFrames
    BY <1>0, <1>1, <1>2, <1>5, <1>6 DEF AnnouncedFrames
  <2> QED
    BY <2>1, <1>3, <1>4, <1>6
<1>7. CASE At(t) \notin Announced /\ q \in Announced
  <2>1. AnnouncedFrames' = AnnouncedFrames \cup {me}
    BY <1>0, <1>1, <1>2, <1>5, <1>7 DEF AnnouncedFrames
  <2>2. me \notin AnnouncedFrames
    BY <1>5, <1>7
  <2>3. Cardinality(AnnouncedFrames') = Cardinality(AnnouncedFrames) + 1
    BY <2>1, <2>2, <1>0, FS_AddElement
  <2> QED
    BY <2>3, <1>3, <1>4, <1>7
<1>8. CASE At(t) \in Announced /\ q \notin Announced
  <2>1. AnnouncedFrames' = AnnouncedFrames \ {me}
    BY <1>0, <1>1, <1>2, <1>5, <1>8 DEF AnnouncedFrames
  <2>2. me \in AnnouncedFrames
    BY <1>5, <1>8
  <2>3. Cardinality(AnnouncedFrames') = Cardinality(AnnouncedFrames) - 1
    BY <2>1, <2>2, <1>0, FS_RemoveElement
  <2> QED
    BY <2>3, <1>3, <1>4, <1>8
<1> QED
  BY <1>6, <1>7, <1>8

\* Nobody waits uncounted: what an unlocker concludes from waiters = 0.
LEMMA NoneAnnounced ==
  ASSUME WaitersAreCounted, waiters = 0
  PROVE  \A t \in Threads, d \in Frames : pc[t][d] \notin Announced
<1>1. Cardinality(AnnouncedFrames) = 0
  BY DEF WaitersAreCounted, AnnouncedFrames
<1>2. AnnouncedFrames = {}
  BY <1>1, FramesAreFinite, FS_EmptySet DEF AnnouncedFrames
<1>3. ASSUME NEW t \in Threads, NEW d \in Frames, pc[t][d] \in Announced PROVE FALSE
  <2>1. <<t, d>> \in AnnouncedFrames
    BY <1>3 DEF AnnouncedFrames
  <2> QED
    BY <2>1, <1>2
<1> QED
  BY <1>3

-----------------------------------------------------------------------------
(* What a move of the running frame does to the other parts of IInv *)

LEMMA NestFacts ==
  ASSUME NEW t \in Threads, NEW q, Moved(t, q), UNCHANGED depth,
         depth \in [Threads -> Frames], FramesNest
  PROVE  FramesNest'
BY DEF Moved, FramesNest, Frames

\* Moves that neither take nor give up the guard.
LEMMA GuardFacts ==
  ASSUME NEW t \in Threads, depth[t] \in Frames, NEW q, Moved(t, q),
         At(t) \in {"won", "cs"} <=> q \in {"won", "cs"},
         UNCHANGED <<holder_tid, kept>>,
         HolderHasGuard, OneGuard
  PROVE  HolderHasGuard' /\ OneGuard'
<1>1. \A u \in Threads, e \in Frames : Owns(u, e)' <=> Owns(u, e)
  BY DEF Moved, Owns, At
<1> QED
  BY <1>1 DEF HolderHasGuard, OneGuard, HoldsGuard

LEMMA TakeFacts ==
  ASSUME NEW t \in Threads, depth[t] \in Frames, NEW q \in {"won", "cs"}, Moved(t, q),
         holder_tid = NoTid, holder_tid' = t, UNCHANGED kept,
         HolderHasGuard, OneGuard
  PROVE  HolderHasGuard' /\ OneGuard'
<1>1. \A u \in Threads, e \in Frames : Owns(u, e)' <=> (u = t /\ e = depth[t]) \/ Owns(u, e)
  BY DEF Moved, Owns
<1>2. \A u \in Threads : ~HoldsGuard(u)
  BY PipeLockAssumption DEF HolderHasGuard
<1>3. \A u \in Threads : kept'[u] = "none" /\ \A e \in Frames : ~Owns(u, e)
  BY <1>2 DEF HoldsGuard
<1> QED
  BY <1>1, <1>3 DEF HolderHasGuard, OneGuard, HoldsGuard

\* The guard is dropped, by the frame that took it or from where it was kept.
LEMMA DropFacts ==
  ASSUME NEW t \in Threads, depth[t] \in Frames, NEW q, q \notin {"won", "cs"},
         Moved(t, q),
         holder_tid' = NoTid, kept \in [Threads -> KeptGuards],
         \/ At(t) = "cs" /\ UNCHANGED kept
         \/ kept[t] # "none" /\ kept' = [kept EXCEPT ![t] = "none"],
         HolderHasGuard, OneGuard
  PROVE  HolderHasGuard' /\ OneGuard'
<1>1. holder_tid = t
  BY DEF HolderHasGuard, HoldsGuard, Owns, At
<1>2. \A u \in Threads, e \in Frames :
        Owns(u, e)' <=> ~(u = t /\ e = depth[t]) /\ Owns(u, e)
  BY DEF Moved, Owns
<1>3. \A u \in Threads : kept'[u] = "none" /\ \A e \in Frames : ~Owns(u, e)'
  <2>1. ASSUME NEW u \in Threads, u # t
        PROVE  kept[u] = "none" /\ kept'[u] = kept[u] /\ \A e \in Frames : ~Owns(u, e)
    BY <2>1, <1>1 DEF HolderHasGuard, HoldsGuard
  <2>2. CASE At(t) = "cs" /\ UNCHANGED kept
    <3>1. Owns(t, depth[t])
      BY <2>2 DEF Owns, At
    <3> QED
      BY <2>1, <2>2, <3>1, <1>2 DEF OneGuard
  <2>3. CASE kept[t] # "none" /\ kept' = [kept EXCEPT ![t] = "none"]
    BY <2>1, <2>3, <1>2 DEF OneGuard
  <2> QED
    BY <2>2, <2>3
<1> QED
  BY <1>3, PipeLockAssumption DEF HolderHasGuard, OneGuard, HoldsGuard

LEMMA EscapeFacts ==
  ASSUME NEW t \in Threads, depth[t] \in Frames, NEW q, q \notin {"won", "cs"},
         Moved(t, q),
         At(t) = "cs", UNCHANGED holder_tid, kept \in [Threads -> KeptGuards],
         NEW g \in KeptGuards \ {"none"}, kept' = [kept EXCEPT ![t] = g],
         HolderHasGuard, OneGuard
  PROVE  HolderHasGuard' /\ OneGuard'
<1>1. Owns(t, depth[t]) /\ HoldsGuard(t)
  BY DEF Owns, HoldsGuard, At
<1>2. \A u \in Threads, e \in Frames :
        Owns(u, e)' <=> ~(u = t /\ e = depth[t]) /\ Owns(u, e)
  BY DEF Moved, Owns
<1>3. \A e \in Frames : ~Owns(t, e)'
  BY <1>1, <1>2 DEF OneGuard
<1>4. \A u \in Threads : kept'[u] = IF u = t THEN g ELSE kept[u]
  OBVIOUS
<1> QED
  BY <1>1, <1>2, <1>3, <1>4 DEF HolderHasGuard, OneGuard, HoldsGuard

\* Calls that do not fail, and the two that do.
LEMMA ErrnoFacts ==
  ASSUME NEW t \in Threads, NEW q, Moved(t, q), UNCHANGED <<depth, saved>>,
         \A u \in Threads : u # t => errno'[u] = errno[u],
         q = "unread" => errno'[t] = "EINTR",
         q = "unwritten" => errno'[t] = "EAGAIN",
         ErrnoIsTheCalls
  PROVE  ErrnoIsTheCalls'
BY DEF Moved, ErrnoIsTheCalls, ErrnoOf

\* Readers stay covered while the frames that have to look after them go on to
\* another such point, and as soon as a running frame is at one.
Awake == {"swapped", "write", "try", "interrupted", "unread"}

LEMMA CoverFacts ==
  ASSUME NEW t \in Threads, depth[t] \in Frames, NEW q, Moved(t, q), q # "read",
         At(t) \in Awake => q \in Awake,
         UNCHANGED <<holder_tid, pipe>>, ReadersAreCovered
  PROVE  ReadersAreCovered'
<1> SUFFICES ASSUME holder_tid' = NoTid, pipe' = 0,
                    NEW u \in Threads, NEW e \in Frames, pc'[u][e] = "read"
             PROVE  \E v \in Threads, f \in Frames : Responsible(v, f)'
  BY DEF ReadersAreCovered
<1>1. pc[u][e] = "read"
  BY DEF Moved
<1>2. PICK v \in Threads, f \in Frames : Responsible(v, f)
  BY <1>1 DEF ReadersAreCovered
<1>3. Responsible(v, f)'
  BY <1>2 DEF Responsible, Moved, At, Awake
<1> QED
  BY <1>3

LEMMA RunningCovers ==
  ASSUME NEW t \in Threads, depth[t] \in Frames, NEW q \in Awake, Moved(t, q), FramesNest
  PROVE  ReadersAreCovered'
<1>1. PICK d \in Frames : d = depth[t]
  OBVIOUS
<1>2. Responsible(t, d)'
  BY <1>1 DEF Responsible, Moved, Awake, FramesNest, Frames
<1> QED
  BY <1>2 DEF ReadersAreCovered

-----------------------------------------------------------------------------
(* The inductive invariant *)

LEMMA InitInv == Init => IInv
<1> SUFFICES ASSUME Init PROVE IInv
  OBVIOUS
<1>1. TypeOK
  BY PipeLockAssumption
  DEF Init, TypeOK, Points, Announced, KeptGuards, Errors, Frames
<1>2. WaitersAreCounted
  <2>1. AnnouncedFrames = {}
    BY DEF Init, AnnouncedFrames, Announced
  <2> QED
    BY <2>1, FS_EmptySet DEF Init, WaitersAreCounted, AnnouncedFrames
<1> QED
  BY <1>1, <1>2, PipeLockAssumption
  DEF Init, IInv, LockInv, FramesNest, HolderHasGuard, HoldsGuard, Owns, OneGuard,
      ErrnoIsTheCalls, NoAbort, ReadersAreCovered

\* What a step of the lock does to the parts of IInv.
Preserved == LockInv' /\ (ReadersAreCovered => ReadersAreCovered')

LEMMA InvStep ==
  ASSUME LockInv, [Next]_vars
  PROVE  Preserved
<1> USE DEF ERRNO, LockInv, Preserved
<1>t. TypeOK /\ NextTypes
  BY TypeStep
<1>d. /\ \A t \in Threads : depth[t] \in Frames /\ errno[t] \in Errors
      /\ depth \in [Threads -> Frames]
      /\ kept \in [Threads -> KeptGuards]
  BY <1>t DEF TypeOK
<1>p. \A p \in {"idle", "announce", "refused", "cs", "swapped", "write", "unwritten",
                "abort", "try", "read", "interrupted", "unread", "won", "giveup"} :
        p \in Points
  BY DEF Points, Announced
<1>n. WaitersAreCounted' => TypeOK'
  <2>1. waiters' = Cardinality(AnnouncedFrames') <=> WaitersAreCounted'
    BY DEF WaitersAreCounted, AnnouncedFrames
  <2>2. IsFiniteSet(AnnouncedFrames')
    BY FramesAreFinite DEF AnnouncedFrames
  <2> QED
    BY <1>t, <2>1, <2>2, FS_CardinalityType DEF TypeOK, NextTypes
<1>1. CASE UNCHANGED vars
  BY <1>1 DEF vars, TypeOK, FramesNest, HolderHasGuard, HoldsGuard, Owns, OneGuard,
     ErrnoIsTheCalls, ErrnoOf, NoAbort, WaitersAreCounted, ReadersAreCovered, Responsible
<1>2. ASSUME NEW t \in Threads, lock(t) PROVE Preserved
  <2>1. CASE Exchange(t) /\ Goto(t, "cs")
    <3>1. Moved(t, "cs") /\ UNCHANGED <<depth, kept, waiters, errno, saved>>
      BY <1>2, <2>1, <1>t, <1>p, GotoFacts DEF lock
    <3>2. FramesNest' /\ ErrnoIsTheCalls'
      BY <3>1, <1>d, NestFacts, ErrnoFacts
    <3>3. HolderHasGuard' /\ OneGuard'
      BY <3>1, <2>1, <1>d, TakeFacts DEF Exchange
    <3>4. NoAbort'
      BY <3>1 DEF NoAbort, Moved
    <3>5. WaitersAreCounted'
      BY <3>1, <1>2, <1>d, CountFacts DEF lock, Announced
    <3>6. ReadersAreCovered => ReadersAreCovered'
      BY <2>1, PipeLockAssumption DEF ReadersAreCovered, Exchange
    <3> QED
      BY <1>n, <3>2, <3>3, <3>4, <3>5, <3>6
  <2>2. ASSUME NEW q \in {"refused", "announce"}, Goto(t, q), UNCHANGED holder_tid
        PROVE  Preserved
    <3>1. Moved(t, q) /\ UNCHANGED <<depth, kept, waiters, errno, saved, pipe>>
      BY <1>2, <2>2, <1>t, <1>p, GotoFacts DEF lock
    <3>2. FramesNest' /\ ErrnoIsTheCalls'
      BY <3>1, <1>d, NestFacts, ErrnoFacts
    <3>3. HolderHasGuard' /\ OneGuard'
      BY <3>1, <2>2, <1>2, <1>d, GuardFacts DEF lock
    <3>4. NoAbort'
      BY <3>1 DEF NoAbort, Moved
    <3>5. WaitersAreCounted'
      BY <3>1, <1>2, <1>d, CountFacts DEF lock, Announced
    <3>6. ReadersAreCovered => ReadersAreCovered'
      BY <3>1, <2>2, <1>2, <1>d, CoverFacts DEF lock, Awake
    <3> QED
      BY <1>n, <3>2, <3>3, <3>4, <3>5, <3>6
  <2> QED
    BY <1>2, <2>1, <2>2 DEF lock
<1>3. ASSUME NEW t \in Threads, ReturnRecursive(t) PROVE Preserved
  <2>1. Moved(t, "idle") /\ UNCHANGED <<holder_tid, depth, kept, waiters, errno, saved, pipe>>
    BY <1>3, <1>t, <1>p, GotoFacts DEF ReturnRecursive
  <2>2. FramesNest' /\ ErrnoIsTheCalls'
    BY <2>1, <1>d, NestFacts, ErrnoFacts
  <2>3. HolderHasGuard' /\ OneGuard'
    BY <2>1, <1>3, <1>d, GuardFacts DEF ReturnRecursive
  <2>4. NoAbort'
    BY <2>1 DEF NoAbort, Moved
  <2>5. WaitersAreCounted'
    BY <2>1, <1>3, <1>d, CountFacts DEF ReturnRecursive, Announced
  <2>6. ReadersAreCovered => ReadersAreCovered'
    BY <2>1, <1>3, <1>d, CoverFacts DEF ReturnRecursive, Awake
  <2> QED
    BY <1>n, <2>2, <2>3, <2>4, <2>5, <2>6
<1>4. ASSUME NEW t \in Threads, Announce(t) PROVE Preserved
  <2>1. Moved(t, "try") /\ UNCHANGED <<holder_tid, depth, kept, errno, saved, pipe>>
    BY <1>4, <1>t, <1>p, GotoFacts DEF Announce
  <2>2. FramesNest' /\ ErrnoIsTheCalls'
    BY <2>1, <1>d, NestFacts, ErrnoFacts
  <2>3. HolderHasGuard' /\ OneGuard'
    BY <2>1, <1>4, <1>d, GuardFacts DEF Announce
  <2>4. NoAbort'
    BY <2>1 DEF NoAbort, Moved
  <2>5. WaitersAreCounted'
    BY <2>1, <1>4, <1>d, CountFacts DEF Announce, Announced, Counted
  <2>6. ReadersAreCovered => ReadersAreCovered'
    BY <2>1, <1>d, RunningCovers DEF Awake
  <2> QED
    BY <1>n, <2>2, <2>3, <2>4, <2>5, <2>6
<1>5. ASSUME NEW t \in Threads, TryLock(t) PROVE Preserved
  <2>1. CASE Exchange(t) /\ Goto(t, "won")
    <3>1. Moved(t, "won") /\ UNCHANGED <<depth, kept, waiters, errno, saved>>
      BY <1>5, <2>1, <1>t, <1>p, GotoFacts DEF TryLock
    <3>2. FramesNest' /\ ErrnoIsTheCalls'
      BY <3>1, <1>d, NestFacts, ErrnoFacts
    <3>3. HolderHasGuard' /\ OneGuard'
      BY <3>1, <2>1, <1>d, TakeFacts DEF Exchange
    <3>4. NoAbort'
      BY <3>1 DEF NoAbort, Moved
    <3>5. WaitersAreCounted'
      BY <3>1, <1>5, <1>d, CountFacts DEF TryLock, Announced
    <3>6. ReadersAreCovered => ReadersAreCovered'
      BY <2>1, PipeLockAssumption DEF ReadersAreCovered, Exchange
    <3> QED
      BY <1>n, <3>2, <3>3, <3>4, <3>5, <3>6
  <2>2. ASSUME NEW q \in {"giveup", "read"}, Goto(t, q), UNCHANGED holder_tid,
               holder_tid # NoTid
        PROVE  Preserved
    <3>1. Moved(t, q) /\ UNCHANGED <<depth, kept, waiters, errno, saved>>
      BY <1>5, <2>2, <1>t, <1>p, GotoFacts DEF TryLock
    <3>2. FramesNest' /\ ErrnoIsTheCalls'
      BY <3>1, <1>d, NestFacts, ErrnoFacts
    <3>3. HolderHasGuard' /\ OneGuard'
      BY <3>1, <2>2, <1>5, <1>d, GuardFacts DEF TryLock
    <3>4. NoAbort'
      BY <3>1 DEF NoAbort, Moved
    <3>5. WaitersAreCounted'
      BY <3>1, <1>5, <1>d, CountFacts DEF TryLock, Announced
    <3>6. ReadersAreCovered => ReadersAreCovered'
      BY <2>2 DEF ReadersAreCovered
    <3> QED
      BY <1>n, <3>2, <3>3, <3>4, <3>5, <3>6
  <2> QED
    BY <1>5, <2>1, <2>2 DEF TryLock
<1>6. ASSUME NEW t \in Threads, Withdraw(t) PROVE Preserved
  <2>1. PICK q \in {"cs", "idle"} :
          /\ q = IF At(t) = "won" THEN "cs" ELSE "idle"
          /\ Moved(t, q)
          /\ UNCHANGED <<holder_tid, depth, kept, errno, saved, pipe>>
    BY <1>6, <1>t, <1>p, GotoFacts DEF Withdraw
  <2>2. FramesNest' /\ ErrnoIsTheCalls'
    BY <2>1, <1>d, NestFacts, ErrnoFacts
  <2>3. HolderHasGuard' /\ OneGuard'
    BY <2>1, <1>6, <1>d, GuardFacts DEF Withdraw
  <2>4. NoAbort'
    BY <2>1 DEF NoAbort, Moved
  <2>5. WaitersAreCounted'
    BY <2>1, <1>6, <1>d, CountFacts DEF Withdraw, Announced, Uncounted
  <2>6. ReadersAreCovered => ReadersAreCovered'
    BY <2>1, <1>6, <1>d, CoverFacts DEF Withdraw, Awake
  <2> QED
    BY <1>n, <2>2, <2>3, <2>4, <2>5, <2>6
<1>7. ASSUME NEW t \in Threads, read(t) PROVE Preserved
  <2>1. Moved(t, "try") /\ UNCHANGED <<holder_tid, depth, kept, waiters, errno, saved>>
    BY <1>7, <1>t, <1>p, GotoFacts DEF read
  <2>2. FramesNest' /\ ErrnoIsTheCalls'
    BY <2>1, <1>d, NestFacts, ErrnoFacts
  <2>3. HolderHasGuard' /\ OneGuard'
    BY <2>1, <1>7, <1>d, GuardFacts DEF read
  <2>4. NoAbort'
    BY <2>1 DEF NoAbort, Moved
  <2>5. WaitersAreCounted'
    BY <2>1, <1>7, <1>d, CountFacts DEF read, Announced
  <2>6. ReadersAreCovered => ReadersAreCovered'
    BY <2>1, <1>d, RunningCovers DEF Awake
  <2> QED
    BY <1>n, <2>2, <2>3, <2>4, <2>5, <2>6
<1>8. ASSUME NEW t \in Threads, ReadFails(t) PROVE Preserved
  <2>1. Moved(t, "unread") /\ UNCHANGED <<holder_tid, depth, kept, waiters, saved>>
    BY <1>8, <1>t, <1>p, GotoFacts DEF ReadFails
  <2>2. \A u \in Threads : errno'[u] = IF u = t THEN "EINTR" ELSE errno[u]
    BY <1>8, <1>t DEF ReadFails, TypeOK
  <2>3. FramesNest' /\ ErrnoIsTheCalls'
    BY <2>1, <2>2, <1>d, NestFacts, ErrnoFacts
  <2>4. HolderHasGuard' /\ OneGuard'
    BY <2>1, <1>8, <1>d, GuardFacts DEF ReadFails
  <2>5. NoAbort'
    BY <2>1 DEF NoAbort, Moved
  <2>6. WaitersAreCounted'
    BY <2>1, <1>8, <1>d, CountFacts DEF ReadFails, Announced
  <2>7. ReadersAreCovered => ReadersAreCovered'
    BY <2>1, <1>d, RunningCovers DEF Awake
  <2> QED
    BY <1>n, <2>3, <2>4, <2>5, <2>6, <2>7
<1>9. ASSUME NEW t \in Threads, CheckReadErrno(t) PROVE Preserved
  <2>0. errno[t] = "EINTR"
    BY <1>9, <1>d DEF CheckReadErrno, ErrnoIsTheCalls, ErrnoOf, At
  <2>1. Moved(t, "try") /\ UNCHANGED <<holder_tid, depth, kept, waiters, saved>>
    BY <1>9, <2>0, <1>t, <1>p, GotoFacts DEF CheckReadErrno
  <2>2. \A u \in Threads : u # t => errno'[u] = errno[u]
    BY <1>9, <1>t DEF CheckReadErrno, TypeOK
  <2>3. FramesNest' /\ ErrnoIsTheCalls'
    BY <2>1, <2>2, <1>d, NestFacts, ErrnoFacts
  <2>4. HolderHasGuard' /\ OneGuard'
    BY <2>1, <1>9, <1>d, GuardFacts DEF CheckReadErrno
  <2>5. NoAbort'
    BY <2>1 DEF NoAbort, Moved
  <2>6. WaitersAreCounted'
    BY <2>1, <1>9, <1>d, CountFacts DEF CheckReadErrno, Announced
  <2>7. ReadersAreCovered => ReadersAreCovered'
    BY <2>1, <1>d, RunningCovers DEF Awake
  <2> QED
    BY <1>n, <2>3, <2>4, <2>5, <2>6, <2>7
<1>10. ASSUME NEW t \in Threads, Swap(t), At(t) \in {"cs", "idle"},
              \/ At(t) = "cs" /\ UNCHANGED kept
              \/ kept[t] # "none" /\ kept' = [kept EXCEPT ![t] = "none"]
       PROVE  Preserved
  <2>0. holder_tid = t
    BY <1>10, <1>d DEF HolderHasGuard, HoldsGuard, Owns, At
  <2>1. Moved(t, "swapped") /\ UNCHANGED <<depth, waiters, errno, saved>>
    BY <1>10, <2>0, <1>t, <1>p, GotoFacts DEF Swap
  <2>2. FramesNest' /\ ErrnoIsTheCalls'
    BY <2>1, <1>d, NestFacts, ErrnoFacts
  <2>3. HolderHasGuard' /\ OneGuard'
    <3>1. holder_tid' = NoTid
      BY <1>10 DEF Swap
    <3> QED
      BY <2>1, <3>1, <1>10, <1>d, DropFacts
  <2>4. NoAbort'
    BY <2>1 DEF NoAbort, Moved
  <2>5. WaitersAreCounted'
    BY <2>1, <1>10, <1>d, CountFacts DEF Announced
  <2>6. ReadersAreCovered => ReadersAreCovered'
    BY <2>1, <1>d, RunningCovers DEF Awake
  <2> QED
    BY <1>n, <2>2, <2>3, <2>4, <2>5, <2>6
<1>11. ASSUME NEW t \in Threads, DropGuard(t) \/ DropKept(t) PROVE Preserved
  BY <1>10, <1>11 DEF DropGuard, DropKept
<1>12. ASSUME NEW t \in Threads, CheckWaiters(t) PROVE Preserved
  <2>1. PICK q \in {"write", "idle"} :
          /\ q = IF MustWake(t) THEN "write" ELSE "idle"
          /\ Moved(t, q)
          /\ UNCHANGED <<holder_tid, depth, kept, waiters, errno, saved, pipe>>
    BY <1>12, <1>t, <1>p, GotoFacts DEF CheckWaiters, Leave
  <2>2. FramesNest' /\ ErrnoIsTheCalls'
    BY <2>1, <1>d, NestFacts, ErrnoFacts
  <2>3. HolderHasGuard' /\ OneGuard'
    BY <2>1, <1>12, <1>d, GuardFacts DEF CheckWaiters
  <2>4. NoAbort'
    BY <2>1 DEF NoAbort, Moved
  <2>5. WaitersAreCounted'
    BY <2>1, <1>12, <1>d, CountFacts DEF CheckWaiters, Announced
  <2>6. ReadersAreCovered => ReadersAreCovered'
    <3>1. CASE MustWake(t)
      BY <3>1, <2>1, <1>d, RunningCovers DEF Awake
    <3>2. CASE ~MustWake(t)
      <4>1. waiters = 0
        BY <3>2, <1>t DEF MustWake, TypeOK
      <4>2. \A u \in Threads, e \in Frames : pc[u][e] # "read"
        BY <4>1, NoneAnnounced DEF Announced
      <4> QED
        BY <3>2, <4>2, <2>1 DEF ReadersAreCovered, Moved
    <3> QED
      BY <3>1, <3>2
  <2> QED
    BY <1>n, <2>2, <2>3, <2>4, <2>5, <2>6
<1>13. ASSUME NEW t \in Threads, write(t) PROVE Preserved
  <2>1. PICK q \in {"unwritten", "idle"} :
          /\ Moved(t, q)
          /\ q = "unwritten" => errno' = [errno EXCEPT ![t] = "EAGAIN"]
          /\ q = "idle" => UNCHANGED errno
          /\ UNCHANGED <<holder_tid, depth, kept, waiters, saved>>
    BY <1>13, <1>t, <1>p, GotoFacts DEF write, Leave
  <2>2. /\ \A u \in Threads : u # t => errno'[u] = errno[u]
        /\ q = "unwritten" => errno'[t] = "EAGAIN"
    BY <2>1, <1>t DEF TypeOK
  <2>3. FramesNest' /\ ErrnoIsTheCalls'
    BY <2>1, <2>2, <1>d, NestFacts, ErrnoFacts
  <2>4. HolderHasGuard' /\ OneGuard'
    BY <2>1, <1>13, <1>d, GuardFacts DEF write
  <2>5. NoAbort'
    BY <2>1 DEF NoAbort, Moved
  <2>6. WaitersAreCounted'
    BY <2>1, <1>13, <1>d, CountFacts DEF write, Announced
  <2>7. ReadersAreCovered => ReadersAreCovered'
    <3>1. pipe' # 0
      BY <1>13, <1>t, PipeLockAssumption DEF write, TypeOK
    <3> QED
      BY <3>1 DEF ReadersAreCovered
  <2> QED
    BY <1>n, <2>3, <2>4, <2>5, <2>6, <2>7
<1>14. ASSUME NEW t \in Threads, CheckWriteErrno(t) PROVE Preserved
  <2>0. errno[t] = "EAGAIN"
    BY <1>14, <1>d DEF CheckWriteErrno, ErrnoIsTheCalls, ErrnoOf, At
  <2>1. Moved(t, "idle") /\ UNCHANGED <<holder_tid, depth, kept, waiters, saved, pipe>>
    BY <1>14, <2>0, <1>t, <1>p, GotoFacts DEF CheckWriteErrno, Leave
  <2>2. \A u \in Threads : u # t => errno'[u] = errno[u]
    BY <1>14, <1>t DEF CheckWriteErrno, TypeOK
  <2>3. FramesNest' /\ ErrnoIsTheCalls'
    BY <2>1, <2>2, <1>d, NestFacts, ErrnoFacts
  <2>4. HolderHasGuard' /\ OneGuard'
    BY <2>1, <1>14, <1>d, GuardFacts DEF CheckWriteErrno
  <2>5. NoAbort'
    BY <2>1 DEF NoAbort, Moved
  <2>6. WaitersAreCounted'
    BY <2>1, <1>14, <1>d, CountFacts DEF CheckWriteErrno, Announced
  <2>7. ReadersAreCovered => ReadersAreCovered'
    BY <2>1, <1>14, <1>d, CoverFacts DEF CheckWriteErrno, Awake
  <2> QED
    BY <1>n, <2>3, <2>4, <2>5, <2>6, <2>7
<1>15. ASSUME NEW t \in Threads, Escape(t) PROVE Preserved
  <2>1. Moved(t, "idle") /\ UNCHANGED <<holder_tid, depth, waiters, errno, saved, pipe>>
    BY <1>15, <1>t, <1>p, GotoFacts DEF Escape, Leave
  <2>2. FramesNest' /\ ErrnoIsTheCalls'
    BY <2>1, <1>d, NestFacts, ErrnoFacts
  <2>3. HolderHasGuard' /\ OneGuard'
    <3> DEFINE g == IF contended[t][depth[t]] THEN "contended" ELSE "uncontended"
    <3>1. g \in KeptGuards \ {"none"}
      BY DEF KeptGuards
    <3>2. kept' = [kept EXCEPT ![t] = g] /\ At(t) = "cs"
      BY <1>15 DEF Escape
    <3> HIDE DEF g
    <3> QED
      BY <2>1, <3>1, <3>2, <1>d, EscapeFacts
  <2>4. NoAbort'
    BY <2>1 DEF NoAbort, Moved
  <2>5. WaitersAreCounted'
    BY <2>1, <1>15, <1>d, CountFacts DEF Escape, Announced
  <2>6. ReadersAreCovered => ReadersAreCovered'
    BY <2>1, <1>15, <1>d, CoverFacts DEF Escape, Awake
  <2> QED
    BY <1>n, <2>2, <2>3, <2>4, <2>5, <2>6
<1>16. ASSUME NEW t \in Threads, Signal(t) PROVE Preserved
  <2>1. PICK q \in Points :
          /\ q = At(t) \/ (At(t) = "read" /\ q = "interrupted")
          /\ Moved(t, q)
          /\ UNCHANGED <<holder_tid, kept, waiters, errno, pipe>>
    <3>1. CASE UNCHANGED pc
      <4>1. PICK q \in Points : q = At(t)
        BY <1>t, <1>d DEF At, TypeOK
      <4>2. Moved(t, q)
        BY <3>1, <4>1 DEF Moved, At
      <4>3. UNCHANGED <<holder_tid, kept, waiters, errno, pipe>>
        BY <1>16 DEF Signal
      <4> QED
        BY <4>1, <4>2, <4>3
    <3>2. CASE At(t) = "read" /\ Goto(t, "interrupted")
      BY <3>2, <1>16, <1>t, <1>p, GotoFacts DEF Signal
    <3> QED
      BY <3>1, <3>2, <1>16 DEF Signal
  <2>2. /\ depth[t] + 1 \in Frames
        /\ \A u \in Threads : depth'[u] = IF u = t THEN depth[t] + 1 ELSE depth[u]
    BY <1>16, <1>t, <1>d, PipeLockAssumption DEF Signal, TypeOK, Frames
  <2>3. \A u \in Threads, e \in Frames :
          saved'[u][e] = IF u = t /\ e = depth[t] + 1 THEN errno[t] ELSE saved[u][e]
    BY <1>16, <1>t, <2>2 DEF Signal, TypeOK
  <2>4. FramesNest'
    BY <2>1, <2>2, <1>d DEF FramesNest, Moved, Frames
  <2>5. ErrnoIsTheCalls'
    <3>1. \A u \in Threads, e \in Frames :
            pc'[u][e] \in {"unread", "unwritten"} => pc'[u][e] = pc[u][e] /\ e <= depth[u]
      BY <2>1, <1>d DEF FramesNest, Moved, At, Frames
    <3>2. ASSUME NEW u \in Threads, NEW e \in Frames, e <= depth[u]
          PROVE  (ErrnoOf(u, e))' = ErrnoOf(u, e)
      <4>1. CASE e = depth[u]
        BY <4>1, <2>1, <2>2, <2>3, <1>d DEF ErrnoOf, Frames
      <4>2. CASE e < depth[u]
        <5>1. e + 1 \in Frames /\ e + 1 <= depth[u] /\ depth[u] \in Int /\ e \in Int
          BY <4>2, <1>d, PipeLockAssumption DEF Frames
        <5>2. saved'[u][e + 1] = saved[u][e + 1]
          BY <5>1, <2>3, <1>d DEF Frames
        <5>3. e # depth[u] /\ e # depth'[u]
          BY <5>1, <4>2, <2>2
        <5> QED
          BY <5>2, <5>3 DEF ErrnoOf
      <4> QED
        BY <3>2, <4>1, <4>2, <1>d, PipeLockAssumption DEF Frames
    <3> QED
      BY <3>1, <3>2 DEF ErrnoIsTheCalls
  <2>6. HolderHasGuard' /\ OneGuard'
    BY <2>1, <1>d, GuardFacts
  <2>7. NoAbort'
    BY <2>1, <1>16 DEF NoAbort, Moved, Signal
  <2>8. WaitersAreCounted'
    BY <2>1, <1>d, CountFacts DEF Announced
  <2>9. ReadersAreCovered => ReadersAreCovered'
    <3>1. CASE q = At(t)
      BY <3>1, <2>1 DEF ReadersAreCovered, Responsible, Moved, At
    <3>2. CASE q = "interrupted"
      BY <3>2, <2>1, <1>d, RunningCovers DEF Awake
    <3> QED
      BY <2>1, <3>1, <3>2
  <2> QED
    BY <1>n, <2>4, <2>5, <2>6, <2>7, <2>8, <2>9
<1>17. ASSUME NEW t \in Threads, HandlerReturn(t) PROVE Preserved
  <2>1. UNCHANGED <<holder_tid, kept, waiters, pipe, pc>>
    BY <1>17 DEF HandlerReturn
  <2>2. /\ depth[t] > 0 /\ depth[t] - 1 \in Frames
        /\ \A u \in Threads : depth'[u] = IF u = t THEN depth[t] - 1 ELSE depth[u]
    BY <1>17, <1>t, <1>d, PipeLockAssumption DEF HandlerReturn, TypeOK, Frames
  <2>3. /\ \A u \in Threads, e \in Frames :
             saved'[u][e] = IF u = t /\ e = depth[t] THEN "none" ELSE saved[u][e]
        /\ \A u \in Threads :
             errno'[u] = IF u = t THEN saved[t][depth[t]] ELSE errno[u]
    BY <1>17, <1>t, <1>d DEF HandlerReturn, TypeOK, Restored
  <2>4. FramesNest'
    BY <1>17, <2>1, <2>2, <1>d DEF FramesNest, HandlerReturn, At, Frames
  <2>5. ErrnoIsTheCalls'
    <3>1. \A u \in Threads, e \in Frames :
            pc[u][e] \in {"unread", "unwritten"} =>
              e <= depth'[u] /\ (ErrnoOf(u, e))' = ErrnoOf(u, e)
      <4>1. At(t) = "idle"
        BY <1>17 DEF HandlerReturn
      <4>2. \A u \in Threads, e \in Frames :
              pc[u][e] \in {"unread", "unwritten"} => e <= depth[u] /\ (u = t => e < depth[t])
        BY <4>1, <1>d DEF FramesNest, At, Frames
      <4>3. ASSUME NEW u \in Threads, NEW e \in Frames, e <= depth[u], u = t => e < depth[t]
            PROVE  e <= depth'[u] /\ (ErrnoOf(u, e))' = ErrnoOf(u, e)
        <5>1. CASE u # t
          <6>1. e # depth[u] => e + 1 \in Frames
            BY <4>3, <1>d, PipeLockAssumption DEF Frames
          <6> QED
            BY <6>1, <5>1, <4>3, <2>2, <2>3 DEF ErrnoOf
        <5>2. CASE u = t
          <6>1. e + 1 \in Frames /\ depth[t] \in Int /\ e \in Int
            BY <5>2, <4>3, <1>d, PipeLockAssumption DEF Frames
          <6> QED
            BY <6>1, <5>2, <4>3, <2>2, <2>3 DEF ErrnoOf
        <5> QED
          BY <5>1, <5>2
      <4> QED
        BY <4>2, <4>3
    <3> QED
      BY <3>1, <2>1 DEF ErrnoIsTheCalls
  <2>6. HolderHasGuard' /\ OneGuard'
    BY <2>1 DEF HolderHasGuard, OneGuard, HoldsGuard, Owns
  <2>7. NoAbort' /\ WaitersAreCounted' /\ (ReadersAreCovered => ReadersAreCovered')
    BY <2>1 DEF NoAbort, WaitersAreCounted, ReadersAreCovered, Responsible
  <2> QED
    BY <1>n, <2>4, <2>5, <2>6, <2>7
<1> QED
  BY <1>1, <1>2, <1>3, <1>4, <1>5, <1>6, <1>7, <1>8, <1>9, <1>11, <1>12, <1>13,
     <1>14, <1>15, <1>16, <1>17 DEF Next, Step, NewWork

\* The facts about the lock that every operation relies on, whoever interrupts
\* it: PipeLock's operations preserve IInv.
THEOREM Inductive == Spec => []IInv
<1>1. IInv /\ [Next]_vars => IInv'
  BY InvStep DEF IInv, Preserved
<1> QED
  BY <1>1, InitInv, PTL DEF Spec

\* Every variable keeps its type; the u32 count never wraps below zero.
THEOREM TypeCorrect == Spec => []TypeOK
<1>1. IInv => TypeOK
  BY DEF IInv, LockInv
<1> QED
  BY <1>1, Inductive, PTL

\* Never two live guards: compare_exchange(0, tid) and the swap in unlock()
\* exclude all other threads, and the handlers of the own one.
THEOREM Exclusion == Spec => []MutualExclusion
<1>1. IInv => MutualExclusion
  BY PipeLockAssumption
  DEF IInv, LockInv, MutualExclusion, HolderHasGuard, OneGuard, HoldsGuard
<1> QED
  BY <1>1, Inductive, PTL

\* unlock() swaps out its caller's tid, and EINTR from read() and EAGAIN from
\* write() are still in errno when the code looks, whatever handlers did.
THEOREM NeverAborts == Spec => []NoAbort
<1>1. IInv => NoAbort
  BY DEF IInv, LockInv
<1> QED
  BY <1>1, Inductive, PTL

\* waiters is the number of calls between waiters += 1 and waiters -= 1.
THEOREM CountIsExact == Spec => []WaitersAreCounted
<1>1. IInv => WaitersAreCounted
  BY DEF IInv, LockInv
<1> QED
  BY <1>1, Inductive, PTL

\* A thread blocked in read() is always covered: by the holder of the lock, who
\* will find it counted, or by a thread that is not blocked.
THEOREM ReadersAreNotLost == Spec => []NoLostWakeup
<1>1. ASSUME IInv PROVE NoLostWakeup
  <2> SUFFICES ASSUME NEW b \in Blocked, holder_tid = NoTid
               PROVE  \E t \in Threads \ Blocked, d \in Frames :
                        pc[t][d] \in {"swapped", "write", "try", "interrupted", "unread"}
    BY DEF NoLostWakeup
  <2>1. \A t \in Threads : depth[t] \in Frames
    BY <1>1 DEF IInv, LockInv, TypeOK
  <2>2. PICK t \in Threads, d \in Frames : Responsible(t, d)
    BY <1>1, <2>1 DEF IInv, LockInv, ReadersAreCovered, Blocked, At
  <2>3. t \notin Blocked
    BY <1>1, <2>1, <2>2, PipeLockAssumption
    DEF IInv, LockInv, FramesNest, Responsible, Blocked, At, Frames
  <2> QED
    BY <2>2, <2>3 DEF Responsible
<1> QED
  BY <1>1, Inductive, PTL

-----------------------------------------------------------------------------
(* No thread blocks on its own guard, as long as guards do not escape *)

\* A call that reads the pipe did not interrupt code with the guard, and a
\* handler that took the guard meanwhile has dropped it.
NoGuardBelow ==
  /\ \A t \in Threads : kept[t] = "none"
  /\ \A t \in Threads, d, e \in Frames : pc[t][d] = "read" /\ e < d => ~Owns(t, e)

LEMMA NoGuardBelowStep ==
  ASSUME GuardEscapes = "never", IInv, NoGuardBelow, [Next]_vars
  PROVE  NoGuardBelow'
<1> USE DEF ERRNO
<1>t. /\ TypeOK
      /\ \A t \in Threads : depth[t] \in Frames /\ errno[t] \in Errors
  BY DEF IInv, LockInv, TypeOK
<1>p. \A p \in {"idle", "announce", "refused", "cs", "swapped", "write", "unwritten",
                "abort", "try", "read", "interrupted", "unread", "won", "giveup"} :
        p \in Points
  BY DEF Points, Announced
<1>1. CASE UNCHANGED vars
  BY <1>1 DEF vars, NoGuardBelow, Owns
<1>2. ASSUME NEW t \in Threads, NEW q \in Points, Moved(t, q),
             q = "read" => At(t) = "read" \/ holder_tid # t, UNCHANGED kept
      PROVE  NoGuardBelow'
  <2>1. \A e \in Frames : holder_tid # t => ~Owns(t, e)
    BY DEF IInv, LockInv, HolderHasGuard, HoldsGuard
  <2>2. \A d \in Frames : d > depth[t] => pc[t][d] = "idle"
    BY DEF IInv, LockInv, FramesNest
  <2> QED
    BY <1>2, <2>1, <2>2, <1>t DEF NoGuardBelow, Moved, Owns, At, Frames
<1>3. ASSUME NEW t \in Threads, UNCHANGED pc, UNCHANGED kept
      PROVE  NoGuardBelow'
  BY <1>3 DEF NoGuardBelow, Owns
<1>4. ASSUME NEW t \in Threads, lock(t) PROVE NoGuardBelow'
  BY <1>4, <1>2, <1>t, <1>p, GotoFacts DEF lock
<1>5. ASSUME NEW t \in Threads, TryLock(t) PROVE NoGuardBelow'
  <2>1. CASE Goto(t, "won")
    BY <1>5, <2>1, <1>2, <1>t, <1>p, GotoFacts DEF TryLock
  <2>2. CASE Goto(t, IF IsCaller(t) THEN "giveup" ELSE "read")
    BY <1>5, <2>2, <1>2, <1>t, <1>p, GotoFacts DEF TryLock, IsCaller
  <2> QED
    BY <1>5, <2>1, <2>2 DEF TryLock
<1>6. ASSUME NEW t \in Threads, ReturnRecursive(t) \/ Announce(t) \/ Withdraw(t)
      PROVE  NoGuardBelow'
  BY <1>6, <1>2, <1>t, <1>p, GotoFacts DEF ReturnRecursive, Announce, Withdraw
<1>7. ASSUME NEW t \in Threads, read(t) \/ ReadFails(t) \/ CheckReadErrno(t)
      PROVE  NoGuardBelow'
  BY <1>7, <1>2, <1>t, <1>p, GotoFacts DEF read, ReadFails, CheckReadErrno
<1>8. ASSUME NEW t \in Threads, DropGuard(t) \/ CheckWaiters(t)
      PROVE  NoGuardBelow'
  BY <1>8, <1>2, <1>t, <1>p, GotoFacts DEF DropGuard, Swap, CheckWaiters, Leave
<1>9. ASSUME NEW t \in Threads, write(t) \/ CheckWriteErrno(t)
      PROVE  NoGuardBelow'
  <2>1. UNCHANGED kept
    BY <1>9 DEF write, CheckWriteErrno
  <2>2. PICK q \in {"idle", "unwritten", "write", "abort"} : Goto(t, q)
    BY <1>9, <1>t DEF write, CheckWriteErrno, Leave, Errors
  <2> QED
    BY <2>1, <2>2, <1>2, <1>t, <1>p, GotoFacts
<1>10. ASSUME NEW t \in Threads, Signal(t) \/ HandlerReturn(t) PROVE NoGuardBelow'
  <2>1. UNCHANGED kept /\ (UNCHANGED pc \/ Goto(t, "interrupted"))
    BY <1>10 DEF Signal, HandlerReturn
  <2> QED
    BY <2>1, <1>2, <1>3, <1>t, <1>p, GotoFacts
<1> QED
  BY <1>1, <1>4, <1>5, <1>6, <1>7, <1>8, <1>9, <1>10
  DEF Next, Step, NewWork, DropKept, Escape

\* What a thread that is blocked does not have.
BlockedHoldsNothing == \A t \in Blocked : ~HoldsGuard(t) /\ holder_tid # t

\* Err(Recursive) instead of a deadlock: what a leaked guard breaks in PipeLock
\* holds as long as every guard is dropped by the frame that took it; no thread
\* then blocks on its own guard even for a moment.
THEOREM OwnGuardNeverBlocks ==
  ASSUME GuardEscapes = "never"
  PROVE  Spec => [](BlockedHoldsNothing /\ NeverSleepsOnOwnGuard)
<1>1. Init => NoGuardBelow
  BY DEF Init, NoGuardBelow
<1>2. IInv /\ NoGuardBelow /\ [Next]_vars => NoGuardBelow'
  BY NoGuardBelowStep
<1>3. IInv /\ NoGuardBelow => BlockedHoldsNothing
  <2> SUFFICES ASSUME IInv, NoGuardBelow, NEW t \in Blocked
               PROVE  ~HoldsGuard(t) /\ holder_tid # t
    BY DEF BlockedHoldsNothing
  <2>1. t \in Threads /\ depth[t] \in Frames /\ pc[t][depth[t]] = "read"
    BY DEF IInv, LockInv, TypeOK, Blocked, At
  <2>2. ASSUME NEW e \in Frames PROVE ~Owns(t, e)
    <3>1. CASE e < depth[t]
      BY <3>1, <2>1 DEF NoGuardBelow
    <3>2. CASE e = depth[t]
      BY <3>2, <2>1 DEF Owns
    <3>3. CASE e > depth[t]
      BY <3>3, <2>1 DEF IInv, LockInv, FramesNest, Owns
    <3> QED
      BY <2>1, <3>1, <3>2, <3>3 DEF Frames
  <2>3. ~HoldsGuard(t)
    BY <2>1, <2>2 DEF HoldsGuard, NoGuardBelow
  <2> QED
    BY <2>1, <2>3 DEF IInv, LockInv, HolderHasGuard
<1>4. BlockedHoldsNothing => NeverSleepsOnOwnGuard
  BY DEF BlockedHoldsNothing, NeverSleepsOnOwnGuard
<1> QED
  BY <1>1, <1>2, <1>3, <1>4, Inductive, PTL DEF Spec

-----------------------------------------------------------------------------
(* Refinement of SignalLock *)

\* A move of the running frame, seen from outside.
LEMMA AbstractMove ==
  ASSUME NEW t \in Threads, depth[t] \in Frames, NEW q, Moved(t, q)
  PROVE  /\ Abstract!Becomes(t, CallAt(q))
         /\ CallAt(At(t)) = CallAt(q) => UNCHANGED AbstractCall
         /\ Abstract!Top(t) = CallAt(At(t))
<1>1. \A u \in Threads, e \in Frames :
        CallAt(pc'[u][e]) = IF u = t /\ e = depth[t] THEN CallAt(q) ELSE CallAt(pc[u][e])
  BY DEF Moved
<1>2. AbstractCall' = [u \in Threads |-> [e \in Frames |-> CallAt(pc'[u][e])]]
  BY DEF AbstractCall
<1> HIDE DEF CallAt
<1>3. AbstractCall' = [AbstractCall EXCEPT ![t][depth[t]] = CallAt(q)]
  BY <1>1, <1>2 DEF AbstractCall
<1>4. CallAt(At(t)) = CallAt(q) => UNCHANGED AbstractCall
  BY <1>1, <1>2 DEF AbstractCall, At
<1>5. Abstract!Top(t) = CallAt(At(t))
  BY DEF Abstract!Top, AbstractCall, At
<1> QED
  BY <1>3, <1>4, <1>5 DEF Abstract!Becomes

\* The points of lock() and drop() as the promise sees them.
LEMMA CallFacts ==
  /\ \A p \in {"idle", "swapped", "write", "unwritten"} : CallAt(p) = "idle"
  /\ \A p \in {"announce", "try", "read", "interrupted", "unread"} : CallAt(p) = "locking"
  /\ \A p \in {"refused", "giveup"} : CallAt(p) = "refused"
  /\ \A p \in Points : CallAt(p) = "holding" <=> p \in {"won", "cs"}
  /\ CallAt("abort") = "aborted"
BY DEF CallAt, Points, Announced

LEMMA SameGuards ==
  ASSUME TypeOK
  PROVE  \A t \in Threads : Abstract!HoldsGuard(t) <=> HoldsGuard(t)
<1>1. \A t \in Threads, d \in Frames : AbstractCall[t][d] = "holding" <=> Owns(t, d)
  BY CallFacts DEF AbstractCall, Owns, TypeOK
<1>2. \A t \in Threads : AbstractKept[t] <=> kept[t] # "none"
  BY DEF AbstractKept
<1> QED
  BY <1>1, <1>2 DEF Abstract!HoldsGuard, Abstract!Frames, HoldsGuard, Frames

LEMMA InitRefines == Init => Abstract!Init
<1> SUFFICES ASSUME Init PROVE Abstract!Init
  OBVIOUS
<1>1. \A t \in Threads, d \in Frames : CallAt(pc[t][d]) = "idle"
  BY CallFacts DEF Init
<1>2. AbstractCall = [t \in Threads |-> [d \in Frames |-> "idle"]]
  BY <1>1 DEF AbstractCall
<1>3. AbstractKept = [t \in Threads |-> FALSE]
  BY DEF Init, AbstractKept
<1> QED
  BY <1>2, <1>3 DEF Init, Abstract!Init, Abstract!Frames, Frames

LEMMA StepRefines ==
  ASSUME LockInv, [Next]_vars
  PROVE  [Abstract!Next]_(Abstract!vars)
<1> USE DEF ERRNO, Abstract!vars
<1>t. TypeOK /\ \A t \in Threads : depth[t] \in Frames /\ errno[t] \in Errors
  BY DEF LockInv, TypeOK
<1>p. \A p \in {"idle", "announce", "refused", "cs", "swapped", "write", "unwritten",
                "abort", "try", "read", "interrupted", "unread", "won", "giveup"} :
        p \in Points
  BY DEF Points, Announced
<1>k. UNCHANGED kept => UNCHANGED AbstractKept
  BY DEF AbstractKept
<1>s. ASSUME NEW t \in Threads, NEW q \in Points, Moved(t, q),
             CallAt(At(t)) = CallAt(q), UNCHANGED <<depth, kept>>
      PROVE  UNCHANGED Abstract!vars
  BY <1>s, <1>k, <1>t, AbstractMove
<1>a. ASSUME NEW t \in Threads, NEW q \in {"won", "cs"}, Moved(t, q), Exchange(t),
             At(t) \in {"idle", "try"}, UNCHANGED <<depth, kept>>
      PROVE  Abstract!Acquire(t)
  <2>1. \A u \in Threads : ~Abstract!HoldsGuard(u)
    BY <1>a, <1>t, SameGuards, PipeLockAssumption DEF LockInv, HolderHasGuard, Exchange
  <2>2. CallAt(At(t)) \in {"idle", "locking"} /\ CallAt(q) = "holding"
    BY <1>a, <1>p, CallFacts
  <2> QED
    BY <2>1, <2>2, <1>a, <1>k, <1>t, AbstractMove DEF Abstract!Acquire
<1>r. ASSUME NEW t \in Threads, NEW q \in {"refused", "giveup"}, Moved(t, q), IsCaller(t),
             At(t) \in {"idle", "try"}, UNCHANGED <<depth, kept>>
      PROVE  Abstract!Refuse(t)
  <2>1. Abstract!HoldsGuard(t)
    BY <1>r, <1>t, SameGuards DEF LockInv, HolderHasGuard, IsCaller
  <2>2. CallAt(At(t)) \in {"idle", "locking"} /\ CallAt(q) = "refused"
    BY <1>r, CallFacts
  <2> QED
    BY <2>1, <2>2, <1>r, <1>k, <1>t, AbstractMove DEF Abstract!Refuse
<1>1. CASE UNCHANGED vars
  BY <1>1 DEF vars, AbstractCall, AbstractKept
<1>2. ASSUME NEW t \in Threads, lock(t)
      PROVE  Abstract!Acquire(t) \/ Abstract!Refuse(t) \/ Abstract!Wait(t)
  <2>0. At(t) = "idle" /\ UNCHANGED <<depth, kept>>
    BY <1>2 DEF lock
  <2>1. CASE Exchange(t) /\ Goto(t, "cs")
    BY <2>0, <2>1, <1>a, <1>t, <1>p, GotoFacts
  <2>2. CASE IsCaller(t) /\ Goto(t, "refused")
    BY <2>0, <2>2, <1>r, <1>t, <1>p, GotoFacts
  <2>3. CASE Goto(t, "announce")
    <3>1. Moved(t, "announce")
      BY <2>3, <1>t, <1>p, GotoFacts
    <3>2. CallAt("idle") = "idle" /\ CallAt("announce") = "locking"
      BY CallFacts
    <3> QED
      BY <3>1, <3>2, <2>0, <1>k, <1>t, AbstractMove DEF Abstract!Wait
  <2> QED
    BY <1>2, <2>1, <2>2, <2>3 DEF lock
<1>3. ASSUME NEW t \in Threads, ReturnRecursive(t) PROVE Abstract!ReturnRecursive(t)
  <2>1. Moved(t, "idle") /\ At(t) = "refused" /\ UNCHANGED <<depth, kept>>
    BY <1>3, <1>t, <1>p, GotoFacts DEF ReturnRecursive
  <2>2. CallAt("refused") = "refused" /\ CallAt("idle") = "idle"
    BY CallFacts
  <2> QED
    BY <2>1, <2>2, <1>k, <1>t, AbstractMove DEF Abstract!ReturnRecursive
<1>4. ASSUME NEW t \in Threads, Announce(t) PROVE UNCHANGED Abstract!vars
  <2>1. Moved(t, "try") /\ At(t) = "announce" /\ UNCHANGED <<depth, kept>>
    BY <1>4, <1>t, <1>p, GotoFacts DEF Announce
  <2> QED
    BY <2>1, <1>s, <1>p, CallFacts
<1>5. ASSUME NEW t \in Threads, TryLock(t)
      PROVE  Abstract!Acquire(t) \/ Abstract!Refuse(t) \/ UNCHANGED Abstract!vars
  <2>0. At(t) = "try" /\ UNCHANGED <<depth, kept>>
    BY <1>5 DEF TryLock
  <2>1. CASE Exchange(t) /\ Goto(t, "won")
    BY <2>0, <2>1, <1>a, <1>t, <1>p, GotoFacts
  <2>2. CASE IsCaller(t) /\ Goto(t, "giveup")
    BY <2>0, <2>2, <1>r, <1>t, <1>p, GotoFacts
  <2>3. CASE Goto(t, "read")
    BY <2>0, <2>3, <1>s, <1>t, <1>p, GotoFacts, CallFacts
  <2> QED
    BY <1>5, <2>1, <2>2, <2>3 DEF TryLock
<1>6. ASSUME NEW t \in Threads, Withdraw(t)
      PROVE  Abstract!ReturnRecursive(t) \/ UNCHANGED Abstract!vars
  <2>0. UNCHANGED <<depth, kept>>
    BY <1>6 DEF Withdraw
  <2>1. CASE At(t) = "won" /\ Goto(t, "cs")
    BY <2>0, <2>1, <1>s, <1>t, <1>p, GotoFacts, CallFacts
  <2>2. CASE At(t) = "giveup" /\ Goto(t, "idle")
    <3>1. CallAt("giveup") = "refused" /\ CallAt("idle") = "idle" /\ Moved(t, "idle")
      BY <2>2, <1>t, <1>p, GotoFacts, CallFacts
    <3> QED
      BY <3>1, <2>0, <2>2, <1>k, <1>t, AbstractMove DEF Abstract!ReturnRecursive
  <2> QED
    BY <1>6, <2>1, <2>2 DEF Withdraw
<1>7. ASSUME NEW t \in Threads, read(t) \/ ReadFails(t) \/ CheckReadErrno(t)
      PROVE  UNCHANGED Abstract!vars
  <2>0. At(t) = "unread" => errno[t] = "EINTR"
    BY <1>t DEF LockInv, ErrnoIsTheCalls, ErrnoOf, At
  <2>1. PICK q \in {"try", "unread"} : Moved(t, q)
    BY <1>7, <2>0, <1>t, <1>p, GotoFacts DEF read, ReadFails, CheckReadErrno
  <2>2. At(t) \in {"read", "interrupted", "unread"} /\ UNCHANGED <<depth, kept>>
    BY <1>7 DEF read, ReadFails, CheckReadErrno
  <2> QED
    BY <2>1, <2>2, <1>s, <1>p, CallFacts
<1>8. ASSUME NEW t \in Threads, DropGuard(t) PROVE Abstract!Release(t)
  <2>0. holder_tid = t
    BY <1>8, <1>t DEF LockInv, HolderHasGuard, HoldsGuard, Owns, At, DropGuard
  <2>1. Moved(t, "swapped") /\ At(t) = "cs" /\ UNCHANGED <<depth, kept>>
    BY <1>8, <2>0, <1>t, <1>p, GotoFacts DEF DropGuard, Swap
  <2>2. CallAt("cs") = "holding" /\ CallAt("swapped") = "idle"
    BY <1>p, CallFacts
  <2> QED
    BY <2>1, <2>2, <1>k, <1>t, AbstractMove DEF Abstract!Release
<1>9. ASSUME NEW t \in Threads, DropKept(t) PROVE Abstract!ReleaseKept(t)
  <2>0. holder_tid = t
    BY <1>9, <1>t DEF LockInv, HolderHasGuard, HoldsGuard, DropKept
  <2>1. Moved(t, "swapped") /\ At(t) = "idle" /\ UNCHANGED depth
    BY <1>9, <2>0, <1>t, <1>p, GotoFacts DEF DropKept, Swap
  <2>2. CallAt("idle") = "idle" /\ CallAt("swapped") = "idle"
    BY CallFacts
  <2>3. AbstractKept[t] /\ AbstractKept' = [AbstractKept EXCEPT ![t] = FALSE]
    BY <1>9, <1>t DEF AbstractKept, DropKept, TypeOK
  <2>4. GuardEscapes = "kept"
    BY <1>9 DEF DropKept
  <2> QED
    BY <2>1, <2>2, <2>3, <2>4, <1>t, AbstractMove DEF Abstract!ReleaseKept
<1>10. ASSUME NEW t \in Threads, CheckWaiters(t) \/ write(t) \/ CheckWriteErrno(t)
       PROVE  UNCHANGED Abstract!vars
  <2>0. At(t) = "unwritten" => errno[t] = "EAGAIN"
    BY <1>t DEF LockInv, ErrnoIsTheCalls, ErrnoOf, At
  <2>1. PICK q \in {"write", "unwritten", "idle"} : Moved(t, q)
    BY <1>10, <2>0, <1>t, <1>p, GotoFacts DEF CheckWaiters, write, CheckWriteErrno, Leave
  <2>2. At(t) \in {"swapped", "write", "unwritten"} /\ UNCHANGED <<depth, kept>>
    BY <1>10 DEF CheckWaiters, write, CheckWriteErrno
  <2> QED
    BY <2>1, <2>2, <1>s, <1>p, CallFacts
<1>11. ASSUME NEW t \in Threads, Escape(t) PROVE Abstract!Escape(t)
  <2>1. Moved(t, "idle") /\ At(t) = "cs" /\ UNCHANGED depth
    BY <1>11, <1>t, <1>p, GotoFacts DEF Escape, Leave
  <2>2. CallAt("cs") = "holding" /\ CallAt("idle") = "idle"
    BY <1>p, CallFacts
  <2>3. AbstractKept' = [AbstractKept EXCEPT ![t] = TRUE]
    BY <1>11, <1>t DEF AbstractKept, Escape, TypeOK
  <2>4. GuardEscapes # "never"
    BY <1>11 DEF Escape
  <2> QED
    BY <2>1, <2>2, <2>3, <2>4, <1>t, AbstractMove DEF Abstract!Escape
<1>12. ASSUME NEW t \in Threads, Signal(t) PROVE Abstract!Signal(t)
  <2>1. UNCHANGED AbstractCall
    <3>1. CASE UNCHANGED pc
      BY <3>1 DEF AbstractCall
    <3>2. CASE At(t) = "read" /\ Goto(t, "interrupted")
      BY <3>2, <1>t, <1>p, GotoFacts, CallFacts, AbstractMove
    <3> QED
      BY <1>12, <3>1, <3>2 DEF Signal
  <2> QED
    BY <1>12, <2>1, <1>k DEF Signal, Abstract!Signal
<1>13. ASSUME NEW t \in Threads, HandlerReturn(t) PROVE Abstract!HandlerReturn(t)
  <2>1. UNCHANGED AbstractCall
    BY <1>13 DEF HandlerReturn, AbstractCall
  <2>2. Abstract!Top(t) = "idle"
    BY <1>13, <1>t, CallFacts DEF HandlerReturn, At, Abstract!Top, AbstractCall
  <2> QED
    BY <1>13, <2>1, <2>2, <1>k DEF HandlerReturn, Abstract!HandlerReturn
<1> QED
  BY <1>1, <1>2, <1>3, <1>4, <1>5, <1>6, <1>7, <1>8, <1>9, <1>10, <1>11, <1>12, <1>13
  DEF Next, Step, NewWork, Abstract!Next

\* Whatever PipeLock does is something SignalLock promises: it takes the lock
\* only when nobody has a guard, and refuses a call only to a thread that has
\* one, with any number of threads and nested handlers.
THEOREM Refinement == Spec => ImplementsSignalLock
<1>1. IInv => LockInv
  BY DEF IInv
<1> QED
  BY <1>1, Inductive, InitRefines, StepRefines, PTL
  DEF Spec, ImplementsSignalLock, Abstract!Spec

-----------------------------------------------------------------------------
(* After fork(): the lock of one process, whose pipe others use, too *)

\* Processes that have been forked from this one write bytes and read them, as
\* the child of PipeFork does; everything else in the lock is private.
OthersUseThePipe ==
  /\ pipe' \in 0 .. Capacity
  /\ UNCHANGED <<holder_tid, waiters, pc, contended, depth, kept, errno, saved>>

SharedPipeSpec == Init /\ [][Next \/ OthersUseThePipe]_vars

LEMMA OthersKeepLockInv ==
  ASSUME LockInv, OthersUseThePipe
  PROVE  LockInv'
BY DEF LockInv, OthersUseThePipe, TypeOK, FramesNest, HolderHasGuard, HoldsGuard, Owns,
       OneGuard, ErrnoIsTheCalls, ErrnoOf, NoAbort, WaitersAreCounted

LEMMA SharedInductive == SharedPipeSpec => []LockInv
<1>1. Init => LockInv
  BY InitInv DEF IInv
<1>2. LockInv /\ [Next \/ OthersUseThePipe]_vars => LockInv'
  BY InvStep, OthersKeepLockInv DEF Preserved
<1> QED
  BY <1>1, <1>2, PTL DEF SharedPipeSpec

\* What pipe_fork shows to be lost with the pipe, wakeups, is all that is lost:
\* however many processes use it, within each of them there is one guard at most,
\* the count is exact and no look at errno goes wrong.
THEOREM ForkLosesOnlyWakeups ==
  SharedPipeSpec => [](MutualExclusion /\ NoAbort /\ WaitersAreCounted)
<1>1. LockInv => MutualExclusion /\ NoAbort /\ WaitersAreCounted
  BY PipeLockAssumption
  DEF LockInv, MutualExclusion, HolderHasGuard, OneGuard, HoldsGuard
<1> QED
  BY <1>1, SharedInductive, PTL

\* And each process has from its copy of the lock what SignalLock promises.
THEOREM SharedPipeRefinement == SharedPipeSpec => ImplementsSignalLock
<1>1. LockInv /\ OthersUseThePipe => UNCHANGED Abstract!vars
  BY DEF OthersUseThePipe, Abstract!vars, AbstractKept, AbstractCall
<1>2. LockInv /\ [Next \/ OthersUseThePipe]_vars => [Abstract!Next]_(Abstract!vars)
  BY <1>1, StepRefines
<1> QED
  BY <1>2, SharedInductive, InitRefines, PTL
  DEF SharedPipeSpec, ImplementsSignalLock, Abstract!Spec

-----------------------------------------------------------------------------
(* What callers can rely on, by the theorems about SignalLock *)

Promise == INSTANCE SignalLockProofs WITH kept <- AbstractKept, call <- AbstractCall

\* Promise and Abstract are the same instance of SignalLock.
LEMMA SamePromise == Abstract!Spec => Promise!Spec
<1>1. Abstract!Init => Promise!Init
  BY DEF Abstract!Init, Promise!Init, Abstract!Frames, Promise!Frames
<1>2. [Abstract!Next]_(Abstract!vars) => [Promise!Next]_(Promise!vars)
  BY DEF Abstract!Next, Promise!Next, Abstract!vars, Promise!vars,
         Abstract!Wait, Promise!Wait, Abstract!Acquire, Promise!Acquire,
         Abstract!Refuse, Promise!Refuse,
         Abstract!ReturnRecursive, Promise!ReturnRecursive,
         Abstract!Release, Promise!Release, Abstract!Escape, Promise!Escape,
         Abstract!ReleaseKept, Promise!ReleaseKept, Abstract!Signal, Promise!Signal,
         Abstract!HandlerReturn, Promise!HandlerReturn, Abstract!Top, Promise!Top,
         Abstract!Becomes, Promise!Becomes, Abstract!HoldsGuard, Promise!HoldsGuard,
         Abstract!Frames, Promise!Frames
<1> QED
  BY <1>1, <1>2, PTL DEF Abstract!Spec, Promise!Spec

\* A call that is about to return Err(Recursive) (pipe.rs:210 and 240) ran into a
\* guard that was leaked on its thread, or that a frame it has interrupted holds.
RefusedBelowOwner ==
  \A t \in Threads, d \in Frames :
    pc[t][d] \in {"refused", "giveup"}
      => kept[t] # "none" \/ \E e \in Frames : e < d /\ Owns(t, e)

THEOREM RefusalsAreTrue ==
  ASSUME GuardEscapes # "kept"
  PROVE  Spec => []RefusedBelowOwner
<1>1. MaxDepth \in Nat
  BY PipeLockAssumption
<1>2. Promise!Spec => []Promise!RefusedBelow
  BY <1>1, Promise!PromiseOfRefusal
<1>3. TypeOK /\ Promise!RefusedBelow => RefusedBelowOwner
  <2> SUFFICES ASSUME TypeOK, Promise!RefusedBelow, NEW t \in Threads, NEW d \in Frames,
                      pc[t][d] \in {"refused", "giveup"}
               PROVE  kept[t] # "none" \/ \E e \in Frames : e < d /\ Owns(t, e)
    BY DEF RefusedBelowOwner
  <2>1. \A e \in Frames : pc[t][e] \in Points /\ AbstractCall[t][e] = CallAt(pc[t][e])
    BY DEF TypeOK, AbstractCall
  <2>2. AbstractCall[t][d] = "refused"
    BY <2>1 DEF CallAt
  <2>3. AbstractKept[t] \/ \E e \in Frames : e < d /\ AbstractCall[t][e] = "holding"
    BY <2>2 DEF Promise!RefusedBelow, Promise!Frames, Frames
  <2>4. \A e \in Frames : AbstractCall[t][e] = "holding" => Owns(t, e)
    BY <2>1 DEF CallAt, Owns, Points, Announced
  <2>5. AbstractKept[t] <=> kept[t] # "none"
    BY DEF AbstractKept
  <2> QED
    BY <2>3, <2>4, <2>5
<1> QED
  BY <1>2, <1>3, TypeCorrect, Refinement, SamePromise, PTL DEF ImplementsSignalLock

=============================================================================
