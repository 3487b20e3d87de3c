------------------------------ MODULE PipeLock ------------------------------
(***************************************************************************)
(* PipeLock (signal_lock/src/pipe.rs): a mutex on the holder's tid, with a *)
(* count of waiters and a pipe.  A locker that fails counts itself, looks  *)
(* again and reads a byte; an unlocker frees the lock, looks at the count  *)
(* and writes a byte.  Nothing ties a byte to a waiter.                    *)
(*                                                                         *)
(* The actions are the atomic operations and the system calls, as in       *)
(* FutexLock, and the two looks at errno, which handlers share with the    *)
(* code that they interrupt.  Memory is sequentially consistent here       *)
(* (PipeFence is about the two fences).  A weak exchange that fails        *)
(* spuriously in the loop starts the same iteration again: a stutter.      *)
(***************************************************************************)
EXTENDS Naturals, FiniteSets

CONSTANTS
  Threads,       \* the threads, named by their tids
  NoTid,         \* holder_tid of a free lock
  MaxDepth,      \* bound: how many handlers may be nested on one thread
  Capacity,      \* how many bytes the pipe holds
  GuardEscapes   \* "never", "forgotten" or "kept", as in SignalLock

ASSUME PipeLockAssumption ==
  /\ NoTid \notin Threads
  /\ IsFiniteSet(Threads)
  /\ MaxDepth \in Nat
  /\ Capacity \in Nat \ {0}
  /\ GuardEscapes \in {"never", "forgotten", "kept"}

VARIABLES
  holder_tid,  \* the thread that holds the lock
  waiters,     \* how many calls of lock() have announced themselves
  pipe,        \* bytes in the pipe
  pc,          \* pc[t][d]: where frame d of thread t is in lock() or drop()
  contended,   \* contended[t][d]: the flag in the guard of frame d of t
  depth,       \* depth[t]: t's running frame; the handlers nested on t
  kept,        \* kept[t]: the guard of t that outlived its frame, if any
  errno,       \* errno[t]: why the last system call of t failed
  saved        \* saved[t][d]: errno, as the handler in frame d found it

ERRNO == <<errno, saved>>
vars == <<holder_tid, waiters, pipe, pc, contended, depth, kept, errno, saved>>

Frames == 0 .. MaxDepth

(***************************************************************************)
(* Program points.  lock(): "announce" before waiters += 1, "try" at the   *)
(* exchange in lock_contended's loop, "read" at the read of the pipe,      *)
(* "interrupted" before it fails with EINTR, "unread" before errno is      *)
(* looked at, "won" and "giveup" before waiters -= 1 on the two ways out,  *)
(* "refused" where the fast path found the caller's own tid, "cs" with the *)
(* guard.  unlock(): "swapped" after the swap, "write" before the write,   *)
(* "unwritten" before errno is looked at, "abort" in abort!().             *)
(***************************************************************************)
Announced == {"try", "read", "interrupted", "unread", "won", "giveup"}
Points == Announced \cup
  {"idle", "announce", "refused", "cs", "swapped", "write", "unwritten", "abort"}
Errors == {"none", "EINTR", "EAGAIN"}

\* A guard that escaped, by its contended flag.
KeptGuards == {"none", "uncontended", "contended"}

At(t) == pc[t][depth[t]]
Goto(t, point) == pc' = [pc EXCEPT ![t][depth[t]] = point]
SetContended(t, flag) ==
  contended' = [contended EXCEPT ![t][depth[t]] = flag]

\* The frame is done with the lock, and with the guard it had.
Leave(t) == Goto(t, "idle") /\ SetContended(t, FALSE)

Init ==
  /\ holder_tid = NoTid
  /\ waiters = 0
  /\ pipe = 0
  /\ pc = [t \in Threads |-> [d \in Frames |-> "idle"]]
  /\ contended = [t \in Threads |-> [d \in Frames |-> FALSE]]
  /\ depth = [t \in Threads |-> 0]
  /\ kept = [t \in Threads |-> "none"]
  /\ errno = [t \in Threads |-> "none"]
  /\ saved = [t \in Threads |-> [d \in Frames |-> "none"]]

-----------------------------------------------------------------------------
(* Faulty variants of the operations below, as in FutexLock. *)

\* Stores where the code compares and exchanges.
Exchange_Store(t) == holder_tid' = t

\* Takes any holder for the caller.
IsCaller_AnyHolder(t) == holder_tid # NoTid

\* Never sees that the caller has the lock.
IsCaller_Never(t) == FALSE

\* Waits uncounted.
Counted_Not == waiters

\* Stays counted when it returns Recursive.
Uncounted_NotOnError(t) == IF At(t) = "won" THEN waiters - 1 ELSE waiters

\* Wakes only if the lock was contended when it was taken.
MustWake_FlagOnly(t) == contended[t][depth[t]]

\* Handlers that leave their own errors behind.
Restored_Not(t) == errno[t]

-----------------------------------------------------------------------------
(* Locking *)

\* compare_exchange(0, tid) where it succeeds.
Exchange(t) == holder_tid = NoTid /\ holder_tid' = t

IsCaller(t) == holder_tid = t

\* waiters += 1 and waiters -= 1.
Counted == waiters + 1
Uncounted(t) == waiters - 1

\* The fast path takes a free lock, refuses a reentrant call, or goes on to
\* lock_contended; a spurious failure goes there with the lock free.
lock(t) ==
  /\ At(t) = "idle"
  /\ \/ Exchange(t) /\ Goto(t, "cs")
     \/ /\ Goto(t, IF IsCaller(t) THEN "refused" ELSE "announce")
        /\ UNCHANGED holder_tid
  /\ UNCHANGED <<waiters, pipe, contended, depth, kept, ERRNO>>

ReturnRecursive(t) ==
  /\ At(t) = "refused"
  /\ Goto(t, "idle")
  /\ UNCHANGED <<holder_tid, waiters, pipe, contended, depth, kept, ERRNO>>

\* waiters += 1, then the fence.
Announce(t) ==
  /\ At(t) = "announce"
  /\ waiters' = Counted
  /\ Goto(t, "try")
  /\ UNCHANGED <<holder_tid, pipe, contended, depth, kept, ERRNO>>

\* One iteration of the loop, up to the read.
TryLock(t) ==
  /\ At(t) = "try"
  /\ \/ Exchange(t) /\ Goto(t, "won")
     \/ /\ holder_tid # NoTid
        /\ Goto(t, IF IsCaller(t) THEN "giveup" ELSE "read")
        /\ UNCHANGED holder_tid
  /\ UNCHANGED <<waiters, pipe, contended, depth, kept, ERRNO>>

\* waiters -= 1, and the guard or the error is returned.
Withdraw(t) ==
  /\ At(t) \in {"won", "giveup"}
  /\ waiters' = Uncounted(t)
  /\ IF At(t) = "won" THEN SetContended(t, TRUE) /\ Goto(t, "cs")
                      ELSE UNCHANGED contended /\ Goto(t, "idle")
  /\ UNCHANGED <<holder_tid, pipe, depth, kept, ERRNO>>

\* read() blocks while the pipe is empty ...
read(t) ==
  /\ At(t) = "read"
  /\ pipe > 0
  /\ pipe' = pipe - 1
  /\ Goto(t, "try")
  /\ UNCHANGED <<holder_tid, waiters, contended, depth, kept, ERRNO>>

\* ... and fails once the handler that interrupted it has returned.
ReadFails(t) ==
  /\ At(t) = "interrupted"
  /\ errno' = [errno EXCEPT ![t] = "EINTR"]
  /\ Goto(t, "unread")
  /\ UNCHANGED <<holder_tid, waiters, pipe, contended, depth, kept, saved>>

\* EINTR is tried again, anything else aborts.  What errno says is forgotten
\* here and below: nobody looks at it again before the next failure.
CheckReadErrno(t) ==
  /\ At(t) = "unread"
  /\ IF errno[t] = "EINTR" THEN Goto(t, "try") /\ UNCHANGED waiters
                           ELSE Goto(t, "abort") /\ waiters' = waiters - 1
  /\ errno' = [errno EXCEPT ![t] = "none"]
  /\ UNCHANGED <<holder_tid, pipe, contended, depth, kept, saved>>

-----------------------------------------------------------------------------
(* Unlocking *)

\* The swap and the debug assertion on the previous holder.
Swap(t) ==
  /\ holder_tid' = NoTid
  /\ Goto(t, IF holder_tid # t THEN "abort" ELSE "swapped")
  /\ UNCHANGED <<waiters, pipe, depth, ERRNO>>

DropGuard(t) ==
  /\ At(t) = "cs"
  /\ Swap(t)
  /\ UNCHANGED <<contended, kept>>

DropKept(t) ==
  /\ GuardEscapes = "kept"
  /\ kept[t] # "none"
  /\ At(t) = "idle"
  /\ Swap(t)
  /\ SetContended(t, kept[t] = "contended")
  /\ kept' = [kept EXCEPT ![t] = "none"]

\* A guard that was contended wakes without looking at waiters.
MustWake(t) == contended[t][depth[t]] \/ waiters > 0

CheckWaiters(t) ==
  /\ At(t) = "swapped"
  /\ IF MustWake(t) THEN Goto(t, "write") /\ UNCHANGED contended
                    ELSE Leave(t)
  /\ UNCHANGED <<holder_tid, waiters, pipe, depth, kept, ERRNO>>

\* The write does not block: it fails with EAGAIN if the pipe is full ...
write(t) ==
  /\ At(t) = "write"
  /\ \/ /\ pipe < Capacity
        /\ pipe' = pipe + 1
        /\ Leave(t) /\ UNCHANGED errno
     \/ /\ pipe = Capacity
        /\ errno' = [errno EXCEPT ![t] = "EAGAIN"]
        /\ Goto(t, "unwritten") /\ UNCHANGED <<pipe, contended>>
  /\ UNCHANGED <<holder_tid, waiters, depth, kept, saved>>

\* ... which is as good as a byte.
CheckWriteErrno(t) ==
  /\ At(t) = "unwritten"
  /\ CASE errno[t] = "EINTR"  -> Goto(t, "write") /\ UNCHANGED contended
       [] errno[t] = "EAGAIN" -> Leave(t)
       [] OTHER               -> Goto(t, "abort") /\ UNCHANGED contended
  /\ errno' = [errno EXCEPT ![t] = "none"]
  /\ UNCHANGED <<holder_tid, waiters, pipe, depth, kept, saved>>

Escape(t) ==
  /\ GuardEscapes # "never"
  /\ At(t) = "cs"
  /\ Leave(t)
  /\ kept' = [kept EXCEPT ![t] = IF contended[t][depth[t]] THEN "contended"
                                                            ELSE "uncontended"]
  /\ UNCHANGED <<holder_tid, waiters, pipe, depth, ERRNO>>

-----------------------------------------------------------------------------
(* Signals *)

\* A signal that finds the thread in read(): after the handler the read fails
\* with EINTR, or it is restarted (SA_RESTART), which is also what a signal just
\* before the system call looks like.  The handler saves errno first.
Signal(t) ==
  /\ depth[t] < MaxDepth
  /\ At(t) # "abort"
  /\ depth' = [depth EXCEPT ![t] = @ + 1]
  /\ \/ At(t) = "read" /\ Goto(t, "interrupted")
     \/ UNCHANGED pc
  /\ saved' = [saved EXCEPT ![t][depth[t] + 1] = errno[t]]
  /\ UNCHANGED <<holder_tid, waiters, pipe, contended, kept, errno>>

\* What errno is when the handler of t's running frame has returned.
Restored(t) == saved[t][depth[t]]

HandlerReturn(t) ==
  /\ depth[t] > 0
  /\ At(t) = "idle"
  /\ depth' = [depth EXCEPT ![t] = @ - 1]
  /\ errno' = [errno EXCEPT ![t] = Restored(t)]
  /\ saved' = [saved EXCEPT ![t][depth[t]] = "none"]
  /\ UNCHANGED <<holder_tid, waiters, pipe, pc, contended, kept>>

-----------------------------------------------------------------------------

Step(t) ==
  \/ ReturnRecursive(t) \/ Announce(t) \/ TryLock(t) \/ Withdraw(t)
  \/ read(t) \/ ReadFails(t) \/ CheckReadErrno(t)
  \/ DropGuard(t) \/ CheckWaiters(t) \/ write(t) \/ CheckWriteErrno(t)
  \/ HandlerReturn(t)

NewWork(t) == lock(t) \/ Signal(t)

Next == \E t \in Threads : Step(t) \/ NewWork(t) \/ DropKept(t) \/ Escape(t)

Spec == Init /\ [][Next]_vars

\* Every thread that can take a step is scheduled, and drops its guards; the
\* kernel does not favour some reader of the pipe for ever.
FairSpec == Spec /\ \A t \in Threads : WF_vars(Step(t)) /\ WF_vars(DropKept(t))

-----------------------------------------------------------------------------
(* Properties *)

TypeOK ==
  /\ holder_tid \in Threads \cup {NoTid}
  /\ waiters \in Nat
  /\ pipe \in 0 .. Capacity
  /\ pc \in [Threads -> [Frames -> Points]]
  /\ contended \in [Threads -> [Frames -> BOOLEAN]]
  /\ depth \in [Threads -> Frames]
  /\ kept \in [Threads -> KeptGuards]
  /\ errno \in [Threads -> Errors]
  /\ saved \in [Threads -> [Frames -> Errors]]

\* lock() returns the guard after the decrement, but owns the lock before it.
Owns(t, d) == pc[t][d] \in {"won", "cs"}

HoldsGuard(t) == kept[t] # "none" \/ \E d \in Frames : Owns(t, d)

\* "Safety: We exclusively hold the lock." (Deref of the guard): never two
\* live guards, of two threads or of a handler and the code it interrupted.
MutualExclusion ==
  \A t, u \in Threads, d, e \in Frames :
    /\ Owns(t, d) /\ Owns(u, e) => t = u /\ d = e
    /\ kept[t] # "none" /\ kept[u] # "none" => t = u
    /\ ~(kept[t] # "none" /\ Owns(u, e))

\* "The guard is !Send, so this should be impossible": unlock's assertion that
\* it swaps out its own tid never fails; and neither look at errno sees an error
\* of some handler's own lock() or drop(), say a full pipe in place of EINTR.
NoAbort == \A t \in Threads, d \in Frames : pc[t][d] # "abort"

\* The count an unlocker reads is exact through every way into and out of
\* lock_contended, nested calls included: it never drifts, so it neither hides
\* a waiter nor, as the code subtracts from a u32, wraps below zero.
WaitersAreCounted ==
  waiters = Cardinality({f \in Threads \X Frames : pc[f[1]][f[2]] \in Announced})

\* The threads that are blocked in read().
Blocked == {t \in Threads : At(t) = "read" /\ pipe = 0}

\* "Therefore, the Locker can't wait without being woken": while a thread is
\* blocked, the lock is held, and its holder will find waiters > 0, or a thread
\* that is not blocked is past the swap, about to write, or about to try.
NoLostWakeup ==
  Blocked # {} =>
    \/ holder_tid # NoTid
    \/ \E t \in Threads \ Blocked, d \in Frames :
         pc[t][d] \in {"swapped", "write", "try", "interrupted", "unread"}

\* Err(Recursive) instead of a deadlock: no thread is blocked in read() on a
\* lock that it holds itself while no other thread is about to write a byte.
NeverSleepsOnOwnGuard ==
  \A t \in Blocked : HoldsGuard(t) =>
    \E u \in Threads \ {t}, d \in Frames : pc[u][d] \in {"swapped", "write"}

\* Once no thread calls lock() and no signal arrives any more, every call,
\* every drop and every handler finishes, whatever bytes are left in the pipe
\* and whoever reads them, unless a thread is blocked on its own kept guard.
\* No handler ever waits for the code underneath it.
AllReturn ==
  <>[][~ \E t \in Threads : NewWork(t)]_vars
    => \/ <>[](\A t \in Threads : depth[t] = 0 /\ At(t) = "idle")
       \/ <>[](\E t \in Blocked : kept[t] # "none")

\* What a frame is doing, seen from outside: it has left lock() once it cannot
\* but return, and has given up the guard with the swap.
CallAt(point) ==
  CASE point \in {"idle", "swapped", "write", "unwritten"} -> "idle"
    [] point \in {"announce", "try", "read", "interrupted", "unread"} -> "locking"
    [] point \in {"refused", "giveup"} -> "refused"
    [] point \in {"won", "cs"} -> "holding"
    [] point = "abort" -> "aborted"

\* PipeLock keeps the promises of SignalLock, step by step.
AbstractKept == [t \in Threads |-> kept[t] # "none"]
AbstractCall == [t \in Threads |-> [d \in Frames |-> CallAt(pc[t][d])]]
Abstract == INSTANCE SignalLock WITH kept <- AbstractKept, call <- AbstractCall

ImplementsSignalLock == Abstract!Spec

-----------------------------------------------------------------------------
(* The inductive invariant behind the safety properties *)

\* Frames that are not running yet do nothing.
FramesNest ==
  \A t \in Threads, d \in Frames : d > depth[t] => pc[t][d] = "idle"

\* holder_tid names the thread with the guard, in a frame or kept, and a
\* thread never has a second one.
HolderHasGuard == \A t \in Threads : HoldsGuard(t) <=> holder_tid = t

OneGuard ==
  \A t \in Threads, d, e \in Frames :
    Owns(t, d) => kept[t] = "none" /\ (Owns(t, e) => d = e)

\* errno as frame d of t will find it once the handlers above have returned.
ErrnoOf(t, d) == IF d = depth[t] THEN errno[t] ELSE saved[t][d + 1]

ErrnoIsTheCalls ==
  \A t \in Threads, d \in Frames :
    /\ pc[t][d] = "unread" => ErrnoOf(t, d) = "EINTR"
    /\ pc[t][d] = "unwritten" => ErrnoOf(t, d) = "EAGAIN"

\* A frame that will write a byte if somebody waits, or will try the lock, and
\* that no reader has interrupted.
Responsible(t, d) ==
  /\ pc[t][d] \in {"swapped", "write", "try", "interrupted", "unread"}
  /\ \A e \in Frames : e > d => pc[t][e] # "read"

\* NoLostWakeup for readers that a handler has interrupted, too: when it
\* returns they are blocked at once.
ReadersAreCovered ==
  holder_tid = NoTid /\ pipe = 0 /\ (\E t \in Threads, d \in Frames : pc[t][d] = "read")
    => \E t \in Threads, d \in Frames : Responsible(t, d)

\* Every part but the types is about several steps of several frames: what
\* each operation of the lock may rely on, whoever interrupts it and where.
\* Nothing of it depends on the bytes in the pipe.
LockInv ==
  /\ TypeOK
  /\ FramesNest
  /\ HolderHasGuard
  /\ OneGuard
  /\ ErrnoIsTheCalls
  /\ NoAbort
  /\ WaitersAreCounted

\* That readers are woken does.
IInv == LockInv /\ ReadersAreCovered

=============================================================================
