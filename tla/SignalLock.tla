----------------------------- MODULE SignalLock -----------------------------
(***************************************************************************)
(* What SignalLock promises its callers (signal_lock/src/lib.rs), whatever *)
(* primitive implements it: a mutex that may be taken in signal handlers   *)
(* and that answers Err(Recursive) when the calling thread already holds   *)
(* it.  FutexLock and PipeLock are checked to implement this module.       *)
(*                                                                         *)
(* A thread runs a stack of frames.  Frame 0 is its ordinary code, frame   *)
(* d > 0 a signal handler that interrupted frame d - 1; only the topmost   *)
(* frame, depth[t], takes steps.                                           *)
(***************************************************************************)
EXTENDS Naturals

CONSTANTS
  Threads,       \* the threads that share the lock
  MaxDepth,      \* bound: how many handlers may be nested on one thread
  GuardEscapes   \* what may happen to a guard besides being dropped at the
                 \* end of its scope: "never" (nothing), "forgotten"
                 \* (mem::forget, the guard is leaked), "kept" (it is stored
                 \* and dropped later by the same thread)

VARIABLES
  depth,  \* depth[t]: the topmost frame of thread t
  call,   \* call[t][d]: what frame d of t is doing with the lock
  kept    \* kept[t]: a guard of t outlived the frame that took it

vars == <<depth, call, kept>>

Frames == 0 .. MaxDepth

\* The call of t's running frame, and the step of that call to v.
Top(t) == call[t][depth[t]]
Becomes(t, v) == call' = [call EXCEPT ![t][depth[t]] = v]

\* A live guard of thread t: at most one exists, over all threads.
HoldsGuard(t) == kept[t] \/ \E d \in Frames : call[t][d] = "holding"

Init ==
  /\ depth = [t \in Threads |-> 0]
  /\ call = [t \in Threads |-> [d \in Frames |-> "idle"]]
  /\ kept = [t \in Threads |-> FALSE]

\* lock() has to wait.
Wait(t) ==
  /\ Top(t) = "idle"
  /\ Becomes(t, "locking")
  /\ UNCHANGED <<depth, kept>>

\* lock() returns Ok(guard), at once or after having waited.
Acquire(t) ==
  /\ Top(t) \in {"idle", "locking"}
  /\ \A u \in Threads : ~HoldsGuard(u)
  /\ Becomes(t, "holding")
  /\ UNCHANGED <<depth, kept>>

\* lock() finds that the calling thread holds the lock, whether at its first
\* look or after having waited, and only then ...
Refuse(t) ==
  /\ Top(t) \in {"idle", "locking"}
  /\ HoldsGuard(t)
  /\ Becomes(t, "refused")
  /\ UNCHANGED <<depth, kept>>

\* ... returns Err(Recursive): "This thread already holds the lock."
ReturnRecursive(t) ==
  /\ Top(t) = "refused"
  /\ Becomes(t, "idle")
  /\ UNCHANGED <<depth, kept>>

\* The guard is dropped.
Release(t) ==
  /\ Top(t) = "holding"
  /\ Becomes(t, "idle")
  /\ UNCHANGED <<depth, kept>>

\* The guard outlives the frame that took it.
Escape(t) ==
  /\ GuardEscapes # "never"
  /\ Top(t) = "holding"
  /\ Becomes(t, "idle")
  /\ kept' = [kept EXCEPT ![t] = TRUE]
  /\ UNCHANGED depth

ReleaseKept(t) ==
  /\ GuardEscapes = "kept"
  /\ kept[t]
  /\ Top(t) = "idle"
  /\ kept' = [kept EXCEPT ![t] = FALSE]
  /\ UNCHANGED <<depth, call>>

\* A signal is delivered to t; its handler runs on top of the current frame.
Signal(t) ==
  /\ depth[t] < MaxDepth
  /\ depth' = [depth EXCEPT ![t] = @ + 1]
  /\ UNCHANGED <<call, kept>>

HandlerReturn(t) ==
  /\ depth[t] > 0
  /\ Top(t) = "idle"
  /\ depth' = [depth EXCEPT ![t] = @ - 1]
  /\ UNCHANGED <<call, kept>>

Next == \E t \in Threads :
  \/ Wait(t) \/ Acquire(t) \/ Refuse(t) \/ ReturnRecursive(t) \/ Release(t)
  \/ Escape(t) \/ ReleaseKept(t)
  \/ Signal(t) \/ HandlerReturn(t)

Spec == Init /\ [][Next]_vars

=============================================================================
