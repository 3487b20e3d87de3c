------------------------------- MODULE PipeFork -------------------------------
(***************************************************************************)
(* A PipeLock in a program that has forked (signal_lock/src/pipe.rs).      *)
(* Parent and child each have a copy of holder_tid and waiters, but the    *)
(* descriptors in the copies refer to one pipe.  A behaviour starts after  *)
(* fork(), with the lock free in both processes; each then runs threads of *)
(* its own, which take the steps of PipeLock.                              *)
(***************************************************************************)
EXTENDS Naturals

CONSTANTS
  ParentThreads, ChildThreads,
  NoTid,     \* holder_tid of a free lock
  Capacity   \* how many bytes the pipe holds

VARIABLES
  pipe,      \* bytes in the pipe that both processes read and write
  p_tid, p_waiters, p_pc, p_contended, p_depth, p_kept, p_errno, p_saved,
  c_tid, c_waiters, c_pc, c_contended, c_depth, c_kept, c_errno, c_saved

parentVars == <<p_tid, p_waiters, p_pc, p_contended, p_depth, p_kept, p_errno, p_saved>>
childVars  == <<c_tid, c_waiters, c_pc, c_contended, c_depth, c_kept, c_errno, c_saved>>
vars == <<pipe, parentVars, childVars>>

\* No signals and no escaping guards: they are not needed to lose a wakeup.
Parent == INSTANCE PipeLock WITH
  Threads <- ParentThreads, MaxDepth <- 0, GuardEscapes <- "never",
  holder_tid <- p_tid, waiters <- p_waiters, pc <- p_pc, contended <- p_contended,
  depth <- p_depth, kept <- p_kept, errno <- p_errno, saved <- p_saved

Child == INSTANCE PipeLock WITH
  Threads <- ChildThreads, MaxDepth <- 0, GuardEscapes <- "never",
  holder_tid <- c_tid, waiters <- c_waiters, pc <- c_pc, contended <- c_contended,
  depth <- c_depth, kept <- c_kept, errno <- c_errno, saved <- c_saved

Init == Parent!Init /\ Child!Init

Next ==
  \/ Parent!Next /\ UNCHANGED childVars
  \/ Child!Next /\ UNCHANGED parentVars

Spec == Init /\ [][Next]_vars

\* "If a locker waits on the pipe, an unlocker will always see and wake them",
\* in each of the two processes: the byte that an unlocker of one writes for
\* its own waiter is not lost to a waiter of the other.
NoLostWakeupAfterFork == Parent!NoLostWakeup /\ Child!NoLostWakeup

=============================================================================
