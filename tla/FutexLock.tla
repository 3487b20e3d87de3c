------------------------------ MODULE FutexLock ------------------------------
(***************************************************************************)
(* FutexLock (signal_lock/src/futex.rs): a mutex on one futex word that    *)
(* packs the holder's tid with the FUTEX_WAITERS bit, taken and released   *)
(* by threads and by the signal handlers that interrupt them.  The actions *)
(* are the atomic operations and system calls of the code, so a signal may *)
(* arrive between any two of them; memory is sequentially consistent.      *)
(*                                                                         *)
(* compare_exchange_weak may fail although the word holds the expected     *)
(* value.  In the contended loop that failure rereads the same word and    *)
(* starts the same iteration again: a stuttering step of this module.      *)
(***************************************************************************)
EXTENDS Naturals

CONSTANTS
  Threads,       \* the threads, named by their tids
  Interruptible, \* those that do not block all signals
  NoTid,         \* the tid bits of a free lock
  MaxDepth,      \* bound: how many handlers may be nested on one thread
  GuardEscapes   \* "never", "forgotten" or "kept", as in SignalLock

ASSUME FutexLockAssumption ==
  /\ Interruptible \subseteq Threads
  /\ NoTid \notin Threads
  /\ MaxDepth \in Nat
  /\ GuardEscapes \in {"never", "forgotten", "kept"}

VARIABLES
  futex,  \* the lock's word
  pc,     \* pc[t][d]: where frame d of thread t is in lock() or in drop()
  word,   \* word[t][d]: the frame's local copy of the lock's word
  depth,  \* depth[t]: t's running frame; the handlers nested on t
  kept    \* kept[t]: a guard of t outlived the frame that took it

vars == <<futex, pc, word, depth, kept>>

Frames == 0 .. MaxDepth
\* A free lock never has FUTEX_WAITERS.
Unlocked == [tid |-> NoTid, waiters |-> FALSE]
Words == {Unlocked} \cup [tid : Threads, waiters : BOOLEAN]

(***************************************************************************)
(* Program points.  "contended" is the head of raw_lock_contended's loop,  *)
(* "asleep" is a thread queued by futex_wait, "load" the point where the   *)
(* wait has returned and the word is about to be reloaded, "cs" a frame    *)
(* that owns the guard, "wake" the point in raw_unlock_wake between the    *)
(* swap and the system call, "abort" the debug assertion of raw_unlock.    *)
(***************************************************************************)
Points == {"idle", "contended", "asleep", "load", "cs", "wake", "abort"}

At(t) == pc[t][depth[t]]
Seen(t) == word[t][depth[t]]
Goto(t, point) == pc' = [pc EXCEPT ![t][depth[t]] = point]
See(t, w) == word' = [word EXCEPT ![t][depth[t]] = w]

Asleep == {t \in Threads : At(t) = "asleep"}

Init ==
  /\ futex = Unlocked
  /\ pc = [t \in Threads |-> [d \in Frames |-> "idle"]]
  /\ word = [t \in Threads |-> [d \in Frames |-> Unlocked]]
  /\ depth = [t \in Threads |-> 0]
  /\ kept = [t \in Threads |-> FALSE]

-----------------------------------------------------------------------------
(* Faulty variants of the operations below.  No specification uses them; put *)
(* in the place of their originals they show what each property notices.     *)

\* Answers Recursive to whoever finds the lock held.
ReturnRecursive_AnyHolder(t) ==
  /\ At(t) = "contended"
  /\ Seen(t).tid # NoTid
  /\ Goto(t, "idle")
  /\ See(t, Unlocked)
  /\ UNCHANGED <<futex, depth, kept>>

\* Stores where the code compares and exchanges.
TakeContended_Store(t) ==
  /\ At(t) = "contended"
  /\ Seen(t) = Unlocked
  /\ futex' = [tid |-> t, waiters |-> TRUE]
  /\ Goto(t, "cs")
  /\ UNCHANGED <<word, depth, kept>>

\* fetch_or: sets the flag on whatever the word is by now.
SetWaiters_FetchOr(t) ==
  /\ At(t) = "contended"
  /\ Seen(t).tid \notin {t, NoTid}
  /\ ~Seen(t).waiters
  /\ futex' = [tid |-> futex.tid, waiters |-> TRUE]
  /\ See(t, futex')
  /\ UNCHANGED <<pc, depth, kept>>

\* Waits without looking for its own tid.
futex_wait_OwnTid(t) ==
  /\ At(t) = "contended"
  /\ Seen(t).tid # NoTid
  /\ Seen(t).waiters
  /\ Goto(t, IF futex = Seen(t) THEN "asleep" ELSE "load")
  /\ UNCHANGED <<futex, word, depth, kept>>

\* Queues without comparing the word.
futex_wait_NoCompare(t) ==
  /\ At(t) = "contended"
  /\ Seen(t).tid \notin {t, NoTid}
  /\ Seen(t).waiters
  /\ Goto(t, "asleep")
  /\ UNCHANGED <<futex, word, depth, kept>>

\* Wakes nobody.
raw_unlock_wake_Nobody(t) ==
  /\ At(t) = "wake"
  /\ Goto(t, "idle")
  /\ UNCHANGED <<futex, word, depth, kept>>

\* Clears the tid and leaves the flag where it is.
raw_unlock_KeepsFlag(t) ==
  /\ futex' = [tid |-> NoTid, waiters |-> futex.waiters]
  /\ Goto(t, IF futex.tid # t THEN "abort"
             ELSE IF futex.waiters THEN "wake" ELSE "idle")
  /\ UNCHANGED <<word, depth>>

-----------------------------------------------------------------------------
(* Locking *)

\* The fast path takes a free lock; otherwise, and when the weak exchange
\* fails spuriously, the frame enters the contended loop with what it read.
raw_lock(t) ==
  /\ At(t) = "idle"
  /\ \/ /\ futex = Unlocked
        /\ futex' = [tid |-> t, waiters |-> FALSE]
        /\ Goto(t, "cs")
        /\ UNCHANGED word
     \/ /\ Goto(t, "contended")
        /\ See(t, futex)
        /\ UNCHANGED futex
  /\ UNCHANGED <<depth, kept>>

ReturnRecursive(t) ==
  /\ At(t) = "contended"
  /\ Seen(t).tid = t
  /\ Goto(t, "idle")
  /\ See(t, Unlocked)
  /\ UNCHANGED <<futex, depth, kept>>

\* A lock taken after contention keeps FUTEX_WAITERS: others may be asleep.
TakeContended(t) ==
  /\ At(t) = "contended"
  /\ Seen(t) = Unlocked
  /\ \/ /\ futex = Unlocked
        /\ futex' = [tid |-> t, waiters |-> TRUE]
        /\ Goto(t, "cs")
        /\ UNCHANGED word
     \/ /\ futex # Unlocked
        /\ See(t, futex)
        /\ UNCHANGED <<futex, pc>>
  /\ UNCHANGED <<depth, kept>>

\* The loop goes on with the flag in its copy, at the futex_wait below.
SetWaiters(t) ==
  /\ At(t) = "contended"
  /\ Seen(t).tid \notin {t, NoTid}
  /\ ~Seen(t).waiters
  /\ \/ /\ futex = Seen(t)
        /\ futex' = [tid |-> futex.tid, waiters |-> TRUE]
        /\ See(t, futex')
     \/ /\ futex # Seen(t)
        /\ See(t, futex)
        /\ UNCHANGED futex
  /\ UNCHANGED <<pc, depth, kept>>

\* FUTEX_WAIT: the kernel compares and queues atomically, or says EAGAIN.
futex_wait(t) ==
  /\ At(t) = "contended"
  /\ Seen(t).tid \notin {t, NoTid}
  /\ Seen(t).waiters
  /\ Goto(t, IF futex = Seen(t) THEN "asleep" ELSE "load")
  /\ UNCHANGED <<futex, word, depth, kept>>

SpuriousWakeup(t) ==
  /\ At(t) = "asleep"
  /\ Goto(t, "load")
  /\ UNCHANGED <<futex, word, depth, kept>>

Reload(t) ==
  /\ At(t) = "load"
  /\ See(t, futex)
  /\ Goto(t, "contended")
  /\ UNCHANGED <<futex, depth, kept>>

-----------------------------------------------------------------------------
(* Unlocking *)

\* The swap, the debug assertion on the previous word, and the choice to
\* wake.
raw_unlock(t) ==
  /\ futex' = Unlocked
  /\ Goto(t, IF futex.tid # t THEN "abort"
             ELSE IF futex.waiters THEN "wake" ELSE "idle")
  /\ UNCHANGED <<word, depth>>

DropGuard(t) ==
  /\ At(t) = "cs"
  /\ raw_unlock(t)
  /\ UNCHANGED kept

DropKept(t) ==
  /\ GuardEscapes = "kept"
  /\ kept[t]
  /\ At(t) = "idle"
  /\ raw_unlock(t)
  /\ kept' = [kept EXCEPT ![t] = FALSE]

\* FUTEX_WAKE of one sleeper, if there is one.
raw_unlock_wake(t) ==
  /\ At(t) = "wake"
  /\ \/ \E u \in Asleep :
          pc' = [pc EXCEPT ![t][depth[t]] = "idle", ![u][depth[u]] = "load"]
     \/ Asleep = {} /\ Goto(t, "idle")
  /\ UNCHANGED <<futex, word, depth, kept>>

\* The guard outlives its scope.
Escape(t) ==
  /\ GuardEscapes # "never"
  /\ At(t) = "cs"
  /\ Goto(t, "idle")
  /\ kept' = [kept EXCEPT ![t] = TRUE]
  /\ UNCHANGED <<futex, word, depth>>

-----------------------------------------------------------------------------
(* Signals *)

\* A sleeper leaves the futex's queue to run the handler; after it the wait
\* fails with EINTR, or is issued again if the handler has SA_RESTART.
Signal(t) ==
  /\ t \in Interruptible
  /\ depth[t] < MaxDepth
  /\ At(t) # "abort"
  /\ depth' = [depth EXCEPT ![t] = @ + 1]
  /\ \/ At(t) = "asleep" /\ \E point \in {"load", "contended"} : Goto(t, point)
     \/ At(t) # "asleep" /\ UNCHANGED pc
  /\ UNCHANGED <<futex, word, kept>>

HandlerReturn(t) ==
  /\ depth[t] > 0
  /\ At(t) = "idle"
  /\ depth' = [depth EXCEPT ![t] = @ - 1]
  /\ UNCHANGED <<futex, pc, word, kept>>

-----------------------------------------------------------------------------

\* What a thread does by itself once it is in lock(), in drop() or in a
\* handler, as opposed to the calls and signals that start new work.
Step(t) ==
  \/ ReturnRecursive(t) \/ TakeContended(t) \/ SetWaiters(t)
  \/ futex_wait(t) \/ Reload(t)
  \/ DropGuard(t) \/ raw_unlock_wake(t) \/ HandlerReturn(t)

NewWork(t) == raw_lock(t) \/ Signal(t)

Next == \E t \in Threads :
  \/ Step(t) \/ NewWork(t)
  \/ SpuriousWakeup(t) \/ DropKept(t) \/ Escape(t)

Spec == Init /\ [][Next]_vars

\* Every thread is scheduled again and again, and drops its guards, the kept
\* ones too.
FairSpec ==
  Spec /\ \A t \in Threads : WF_vars(Step(t)) /\ WF_vars(DropKept(t))

-----------------------------------------------------------------------------
(* Properties *)

TypeOK ==
  /\ futex \in Words
  /\ pc \in [Threads -> [Frames -> Points]]
  /\ word \in [Threads -> [Frames -> Words]]
  /\ depth \in [Threads -> Frames]
  /\ kept \in [Threads -> BOOLEAN]

HoldsGuard(t) == kept[t] \/ \E d \in Frames : pc[t][d] = "cs"

\* "Safety: We exclusively hold the lock." (Deref of the guard): never two
\* live guards, each of which dereferences to &mut T; not of two threads, and
\* not of a handler and the code it interrupted.
MutualExclusion ==
  \A t, u \in Threads, d, e \in Frames :
    /\ pc[t][d] = "cs" /\ pc[u][e] = "cs" => t = u /\ d = e
    /\ kept[t] /\ kept[u] => t = u
    /\ ~(kept[t] /\ pc[u][e] = "cs")

\* "This shouldn't happen": raw_unlock's assertion that the word it swaps out
\* carries the tid cached in the guard never fails.
NoAbort == \A t \in Threads, d \in Frames : pc[t][d] # "abort"

\* Err(Recursive) instead of a deadlock: a thread is never put to sleep, and
\* never stays asleep, while a guard of its own keeps the lock taken.
NeverSleepsOnOwnGuard == \A t \in Asleep : ~HoldsGuard(t) /\ futex.tid # t

\* A frame that will wake a sleeper, or will take the lock with FUTEX_WAITERS
\* set and so wake one when it unlocks.
Responsible(t, d) ==
  \/ pc[t][d] \in {"wake", "load"}
  \/ pc[t][d] = "contended" /\ word[t][d].tid # t

\* The argument in raw_unlock_wake: a sleeper is always somebody's business.
\* Either the holder sees FUTEX_WAITERS when it unlocks, or a thread that is
\* itself awake is responsible; so a thread whose handler fell asleep between
\* the swap and the wake is never the only one that could wake itself.  A
\* forgotten guard excuses: nobody can be woken to take that lock.
NoLostWakeup ==
  Asleep # {} =>
    \/ futex.waiters
    \/ \E t \in Threads : kept[t]
    \/ \E t \in Threads \ Asleep, d \in Frames : Responsible(t, d)

\* Recursive is the truth: the call that returns it was made by a thread that
\* still holds a guard, whatever else happened since it read the word.
RecursiveIsTrue ==
  [][\A t \in Threads : ReturnRecursive(t) => HoldsGuard(t)]_vars

\* Once no thread calls lock() and no signal arrives any more, every call,
\* every drop and every handler finishes, unless it waits for a guard that
\* another thread has leaked.  With kept guards and three threads this fails:
\* the wakeup that NoLostWakeup then misses is not made up for.
AllReturn ==
  <>[][~ \E t \in Threads : NewWork(t)]_vars
    => <>[](\A t \in Threads : \/ depth[t] = 0 /\ At(t) = "idle"
                               \/ \E u \in Threads \ {t} : kept[u])

\* What a frame of t is doing, seen from outside: it is refused once its copy
\* of the word says so, and has given up the guard with the swap.
CallAt(t, point, w) ==
  CASE point \in {"idle", "wake"} -> "idle"
    [] point = "contended" /\ w.tid = t -> "refused"
    [] (point = "contended" /\ w.tid # t) \/ point \in {"asleep", "load"} -> "locking"
    [] point = "cs" -> "holding"
    [] OTHER -> "aborted"

\* FutexLock keeps the promises of SignalLock, step by step.
AbstractCall ==
  [t \in Threads |-> [d \in Frames |-> CallAt(t, pc[t][d], word[t][d])]]
Abstract == INSTANCE SignalLock WITH call <- AbstractCall

ImplementsSignalLock == Abstract!Spec

-----------------------------------------------------------------------------
(* The inductive invariant *)

\* Only frames up to depth[t] run, and only the topmost one can be asleep.
FramesNest ==
  \A t \in Threads, d \in Frames :
    /\ d > depth[t] => pc[t][d] = "idle"
    /\ pc[t][d] = "asleep" => d = depth[t]

\* The tid in the word is the tid of the thread with the guard, which has one.
WordNamesHolder ==
  \A t \in Threads :
    /\ futex.tid = t <=> HoldsGuard(t)
    /\ \A d, e \in Frames : pc[t][d] = "cs" /\ pc[t][e] = "cs" => d = e
    /\ \A d \in Frames : ~(kept[t] /\ pc[t][d] = "cs")

\* A sleeper checked the word: the lock is another thread's, and still is not
\* its own.
SleepersWait ==
  \A t \in Threads, d \in Frames : pc[t][d] = "asleep" =>
    /\ word[t][d].tid \notin {t, NoTid}
    /\ futex.tid # t

\* A frame that goes on waiting did not interrupt a frame with the guard; one
\* that is about to return Recursive did, or the guard has been leaked.
OwnGuardIsSeen ==
  \A t \in Threads, d \in Frames :
    /\ \/ pc[t][d] \in {"asleep", "load"}
       \/ pc[t][d] = "contended" /\ word[t][d].tid # t
       => \A e \in Frames : e < d => pc[t][e] # "cs"
    /\ /\ GuardEscapes # "kept"
       /\ pc[t][d] = "contended"
       /\ word[t][d].tid = t
       => kept[t] \/ \E e \in Frames : e < d /\ pc[t][e] = "cs"

IInv ==
  /\ TypeOK
  /\ FramesNest
  /\ WordNamesHolder
  /\ NoAbort
  /\ SleepersWait
  /\ OwnGuardIsSeen

=============================================================================
