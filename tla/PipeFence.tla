------------------------------ MODULE PipeFence ------------------------------
(***************************************************************************)
(* PipeLock's "tricky memory model stuff" (signal_lock/src/pipe.rs): the   *)
(* lock of PipeLock, without signals, on memory that is not sequentially   *)
(* consistent.                                                             *)
(*                                                                         *)
(* holder_tid and waiters are kept with their modification orders; all     *)
(* writes are read-modify-writes, which extend the order at its end.  A    *)
(* load, also that of an exchange that fails, may return any value from    *)
(* the last one that its thread has seen onwards.  A view says what has    *)
(* been seen: a Release write carries the view of its thread, an Acquire   *)
(* read of it takes that over, and SeqCst fences exchange views with the   *)
(* fences before them.  Left out, as in most such models, are loads that   *)
(* return values written later.                                            *)
(***************************************************************************)
EXTENDS Naturals, SequencesExt

CONSTANTS
  Threads,
  NoTid,      \* holder_tid of a free lock
  Capacity,   \* how many bytes the pipe holds
  MaxCalls    \* bound: how often lock() is called, by all threads together

ASSUME PipeFenceAssumption ==
  /\ NoTid \notin Threads
  /\ Capacity \in Nat \ {0}
  /\ MaxCalls \in Nat

VARIABLES
  held,       \* the values of holder_tid, with the view each one carries
  waiters,    \* the values of waiters
  item,       \* how often the item under the lock has been accessed
  pipe,       \* bytes in the pipe
  seen,       \* seen[t]: the view of thread t
  fenced,     \* the view of the SeqCst fences so far
  piped,      \* the view of the pipe's mutex
  pc,         \* pc[t]: where t is in lock() or drop()
  contended,  \* contended[t]: the flag in t's guard
  calls       \* how many calls of lock() there have been

memory == <<held, waiters, item>>
vars == <<held, waiters, item, pipe, seen, fenced, piped, pc, contended, calls>>

(***************************************************************************)
(* Program points, as in PipeLock; "announced" and "swapped" are before    *)
(* the two fences, "check" is before the load of waiters.                  *)
(***************************************************************************)
Points == {"idle", "announce", "announced", "try", "read", "won", "giveup",
           "cs", "swapped", "check", "write"}

Goto(t, point) == pc' = [pc EXCEPT ![t] = point]

\* How much of each location has been seen.
Unseen == [held |-> 1, waiters |-> 1, item |-> 0]
Join(v, w) == [location \in DOMAIN v |-> Max({v[location], w[location]})]

Init ==
  /\ held = <<[tid |-> NoTid, view |-> Unseen]>> /\ waiters = <<0>> /\ item = 0
  /\ pipe = 0
  /\ seen = [t \in Threads |-> Unseen] /\ fenced = Unseen /\ piped = Unseen
  /\ pc = [t \in Threads |-> "idle"]
  /\ contended = [t \in Threads |-> FALSE]
  /\ calls = 0

-----------------------------------------------------------------------------
(* Faulty variants of the operations below, as in FutexLock. *)

\* No fence in lock_contended.
Fence_UnlockerOnly(t) ==
  /\ pc[t] \in {"announced", "swapped"}
  /\ \/ pc[t] = "announced" /\ Goto(t, "try") /\ UNCHANGED <<seen, fenced>>
     \/ /\ pc[t] = "swapped" /\ Goto(t, "check")
        /\ fenced' = Join(seen[t], fenced)
        /\ seen' = [seen EXCEPT ![t] = fenced']
  /\ UNCHANGED <<memory, pipe, piped, contended, calls>>

\* A load and a store in place of a fetch_add: another thread's may be lost.
SetWaiters_LoadStore(t, value) ==
  /\ waiters' = Append(waiters, waiters[seen[t].waiters] + value - Last(waiters))
  /\ seen' = [seen EXCEPT ![t].waiters = Len(waiters')]

\* A Relaxed swap, which carries nothing over.
Carried_Relaxed(view) == Unseen

\* A full pipe is noticed without a look at the pipe's mutex.
PipeMutex_NotIfFull(t) ==
  IF pc[t] = "write" /\ pipe = Capacity THEN UNCHANGED <<seen, piped>>
  ELSE /\ piped' = Join(seen[t], piped)
       /\ seen' = [seen EXCEPT ![t] = piped']

-----------------------------------------------------------------------------
(* Accesses *)

\* A successful exchange of holder_tid, with Acquire.
Exchange(t) ==
  LET last == Last(held)
      n == Len(held) + 1
  IN  /\ last.tid = NoTid
      /\ held' = Append(held, [tid |-> t, view |-> last.view])
      /\ seen' = [seen EXCEPT ![t] = [Join(@, last.view) EXCEPT !.held = n]]

\* A failed one is a Relaxed load; a weak one may fail on a free lock too.
LoadHolder(t, n) ==
  /\ n \in seen[t].held .. Len(held)
  /\ seen' = [seen EXCEPT ![t].held = n]

\* fetch_add and fetch_sub, Relaxed.
SetWaiters(t, value) ==
  /\ waiters' = Append(waiters, value)
  /\ seen' = [seen EXCEPT ![t].waiters = Len(waiters')]

\* What the swap's Release attaches to the free lock.
Carried(view) == view

\* Reader and writers of the pipe take the same mutex, the kernel's or
\* LoomPipe's, also if the pipe is full.
PipeMutex(t) ==
  /\ piped' = Join(seen[t], piped)
  /\ seen' = [seen EXCEPT ![t] = piped']

-----------------------------------------------------------------------------
(* Locking *)

lock(t) ==
  /\ pc[t] = "idle" /\ calls < MaxCalls
  /\ calls' = calls + 1
  /\ \/ Exchange(t) /\ Goto(t, "cs")
     \/ /\ \E n \in DOMAIN held :
             LoadHolder(t, n) /\ Goto(t, IF held[n].tid = t THEN "idle" ELSE "announce")
        /\ UNCHANGED held
  /\ UNCHANGED <<waiters, item, pipe, fenced, piped, contended>>

Announce(t) ==
  /\ pc[t] = "announce"
  /\ SetWaiters(t, Last(waiters) + 1)
  /\ Goto(t, "announced")
  /\ UNCHANGED <<held, item, pipe, fenced, piped, contended, calls>>

\* F1 and F2 of the comment.
Fence(t) ==
  /\ \/ pc[t] = "announced" /\ Goto(t, "try")
     \/ pc[t] = "swapped" /\ Goto(t, "check")
  /\ fenced' = Join(seen[t], fenced)
  /\ seen' = [seen EXCEPT ![t] = fenced']
  /\ UNCHANGED <<memory, pipe, piped, contended, calls>>

TryLock(t) ==
  /\ pc[t] = "try"
  /\ \/ Exchange(t) /\ Goto(t, "won")
     \/ /\ \E n \in DOMAIN held :
             /\ LoadHolder(t, n)
             /\ Goto(t, CASE held[n].tid = NoTid -> "try"
                          [] held[n].tid = t     -> "giveup"
                          [] OTHER               -> "read")
        /\ UNCHANGED held
  /\ UNCHANGED <<waiters, item, pipe, fenced, piped, contended, calls>>

Withdraw(t) ==
  /\ pc[t] \in {"won", "giveup"}
  /\ SetWaiters(t, Last(waiters) - 1)
  /\ contended' = [contended EXCEPT ![t] = (pc[t] = "won")]
  /\ Goto(t, IF pc[t] = "won" THEN "cs" ELSE "idle")
  /\ UNCHANGED <<held, item, pipe, fenced, piped, calls>>

read(t) ==
  /\ pc[t] = "read" /\ pipe > 0
  /\ pipe' = pipe - 1
  /\ PipeMutex(t)
  /\ Goto(t, "try")
  /\ UNCHANGED <<memory, fenced, contended, calls>>

-----------------------------------------------------------------------------
(* Unlocking *)

\* The last access through the guard, then the swap; a contended guard wakes
\* without fence and without looking.
Swap(t) ==
  LET view == [seen[t] EXCEPT !.held = Len(held) + 1, !.item = item + 1] IN
  /\ pc[t] = "cs"
  /\ item' = item + 1
  /\ held' = Append(held, [tid |-> NoTid, view |-> Carried(view)])
  /\ seen' = [seen EXCEPT ![t] = view]
  /\ Goto(t, IF contended[t] THEN "write" ELSE "swapped")
  /\ UNCHANGED <<waiters, pipe, fenced, piped, contended, calls>>

\* Leaving drop(), and with it the guard.
Leave(t) == Goto(t, "idle") /\ contended' = [contended EXCEPT ![t] = FALSE]

CheckWaiters(t) ==
  /\ pc[t] = "check"
  /\ \E n \in seen[t].waiters .. Len(waiters) :
       /\ seen' = [seen EXCEPT ![t].waiters = n]
       /\ IF waiters[n] > 0 THEN Goto(t, "write") /\ UNCHANGED contended
                            ELSE Leave(t)
  /\ UNCHANGED <<memory, pipe, fenced, piped, calls>>

write(t) ==
  /\ pc[t] = "write"
  /\ pipe' = IF pipe < Capacity THEN pipe + 1 ELSE pipe
  /\ PipeMutex(t)
  /\ Leave(t)
  /\ UNCHANGED <<memory, fenced, calls>>

-----------------------------------------------------------------------------

Step(t) ==
  \/ Announce(t) \/ Fence(t) \/ TryLock(t) \/ Withdraw(t) \/ read(t)
  \/ Swap(t) \/ CheckWaiters(t) \/ write(t)

Next == \E t \in Threads : Step(t) \/ lock(t)

\* As for PipeLock; a thread that tries again and again also sees newer values
\* in the end.
FairSpec == Init /\ [][Next]_vars /\ \A t \in Threads : WF_vars(Step(t))

-----------------------------------------------------------------------------
(* Properties *)

Views == [held : 1 .. Len(held), waiters : 1 .. Len(waiters), item : 0 .. item]

\* No view is ahead of memory, and none is lost by its own thread.
TypeOK ==
  /\ held \in Seq([tid : Threads \cup {NoTid}, view : Views]) /\ Len(held) > 0
  /\ waiters \in Seq(Nat) /\ Len(waiters) > 0
  /\ item \in Nat /\ pipe \in 0 .. Capacity /\ calls \in 0 .. MaxCalls
  /\ seen \in [Threads -> Views] /\ fenced \in Views /\ piped \in Views
  /\ pc \in [Threads -> Points]
  /\ contended \in [Threads -> BOOLEAN]

\* "There are no &mut concurrent accesses": whoever has the guard has seen all
\* earlier accesses through guards, hence none of them races with its own.
GuardSeesItem ==
  \A t \in Threads : pc[t] \in {"won", "cs"} => seen[t].item = item

\* The threads that are blocked in read().
Blocked == {t \in Threads : pc[t] = "read" /\ pipe = 0}

\* "If a locker waits on the pipe, an unlocker will always see and wake them":
\* while a thread is blocked, somebody has the lock or is on the way to seeing
\* the count, to writing, or to trying.
NoLostWakeup ==
  Blocked # {} =>
    \/ Last(held).tid # NoTid
    \/ \E t \in Threads \ Blocked : pc[t] \in {"swapped", "check", "write", "try"}

\* "Therefore, the Locker can't wait without being woken": all calls return,
\* although every look at holder_tid and at waiters may be out of date.
AllReturn == <>[](\A t \in Threads : pc[t] = "idle")

-----------------------------------------------------------------------------
(* The inductive invariant *)

\* The last value of holder_tid names the thread that has the lock.
HolderIsLast == \A t \in Threads : pc[t] \in {"won", "cs"} <=> Last(held).tid = t

\* A free lock carries all accesses to the item, for the next one to acquire.
FreeCarriesItem == Last(held).tid = NoTid => Last(held).view.item = item

\* However old the value that a thread reads, it is not its own tid from an
\* earlier critical section: no call is taken for a nested one.
NeverItsOwn ==
  \A t \in Threads :
    /\ pc[t] # "giveup"
    /\ pc[t] \notin {"won", "cs"} =>
         \A n \in seen[t].held .. Len(held) : held[n].tid # t

\* The calls between their announcement and their withdrawal.
Announced == {t \in Threads : pc[t] \in {"announced", "try", "read", "won", "giveup"}}
CountIsExact == IsFiniteSet(Announced) /\ Last(waiters) = Cardinality(Announced)

\* A look at waiters from this view on finds somebody waiting.
ShowsWaiters(view) == \A n \in view.waiters .. Len(waiters) : waiters[n] > 0

\* F1 before F2: the unlocker's fence shows the announcement.
FenceShowsWaiters ==
  \A t \in Threads :
    /\ pc[t] = "announced" => ShowsWaiters(seen[t])
    /\ pc[t] \in {"try", "read"} => ShowsWaiters(fenced)

\* F2 before F1: the locker's fence shows the swap.
FenceShowsSwap == \A t \in Threads : pc[t] = "check" => seen[t].held <= fenced.held

SeesFree(t) == seen[t].held = Len(held)

\* One of the two has to see the other.
OneSeesTheOther ==
  Last(held).tid = NoTid =>
    \A t, u \in Threads : pc[u] = "check" /\ SeesFree(u) /\ pc[t] \in {"try", "read"}
                            => SeesFree(t) \/ ShowsWaiters(seen[u])

\* A thread that waits has read that somebody holds the lock.
ReaderSawHolder == \A t \in Threads : pc[t] = "read" => held[seen[t].held].tid # NoTid

\* A free lock has somebody who saw it become free and who will try, write or
\* look for waiters; or there is a byte that shows it to its reader; or all that
\* try, and all that will, see it.
FreeIsNoticed ==
  Last(held).tid = NoTid =>
    \/ \E t \in Threads : SeesFree(t) /\ pc[t] \in {"try", "swapped", "check", "write"}
    \/ pipe > 0 /\ piped.held = Len(held)
    \/ /\ fenced.held = Len(held)
       /\ \A t \in Threads : pc[t] \in {"try", "read"} => SeesFree(t)

IInv ==
  /\ TypeOK /\ GuardSeesItem /\ HolderIsLast /\ FreeCarriesItem /\ NeverItsOwn
  /\ CountIsExact /\ FenceShowsWaiters /\ FenceShowsSwap /\ OneSeesTheOther
  /\ ReaderSawHolder /\ FreeIsNoticed

=============================================================================
