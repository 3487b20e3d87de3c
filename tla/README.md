# signal-crates in TLA+

Specifications, model-checking configurations and proofs for the two crates of
this repository:

* `signal_lock`, mutexes that may be taken in signal handlers, and
* `mmapcatch`, a SIGBUS handler that keeps a program alive when a file it has
  mapped is truncated. It shares its state with the handler under a `SignalLock`.

They are written from the Rust code. The PlusCal specifications in the
repository's own `tla/` directory are not used.

## 1. The system

| part | state | operations | interacts with |
|---|---|---|---|
| `SignalLock` (lib.rs) | the wrapped lock | `new`, `lock`, guard drop | the lock chosen for the platform |
| `FutexLock` (futex.rs) | one word: holder's tid and FUTEX_WAITERS | `lock`, guard drop | kernel futex queue, signals |
| `PipeLock` (pipe.rs) | `holder_tid`, `waiters`, a pipe | `lock`, guard drop | kernel pipe, signals |
| `Root`, `Guard`, `with_root`, `handle_sigbus` (mmapcatch) | address map, `cleanly_unlocked`, one `State` per registration | `register_mmap`, guard drop, the handler, the Guard's getters | `SignalLock`, `mmap`, the page table, the files |
| `TryOnce`, `StaticRoot` (mmapcatch) | `init`, a mutex, the lock's memory | `get`, `get_or_init` | called by `with_root` and by the handler |
| gettid selection (lib.rs) | a function pointer | set once before `main` | read by every `lock()` |
| `StderrWriter`, `abort!` (lib.rs) | a buffer | `write_str`, `flush` | called before `abort()` |
| `SaveRestoreErrno` (mmapcatch) | the thread's `errno` | saved and restored around a handler | the code interrupted, which may be about to look at `errno` |
| optimistic_handler (example) | `SIGNAL_DEFERRED` | `normal_code`, `signal_handler` | `SignalLock`, signals |
| `LoomPipe` (pipe.rs) | a count, a mutex, a condvar | `read`, `write` | stands for the pipe in loom tests |
| fake futex, fake signals | test doubles for kernel objects | | loom and miri tests |

What is hard about it, and what makes each part correct:

* A **thread is not one process**. A signal handler runs on top of any
  instruction of `lock()` or of the guard's drop and may call `lock()` on the
  same lock, and a handler may be interrupted by another. The code underneath
  does not go on until the handler has returned. A handler that waits for what
  the code underneath would have done waits for ever.
* **FutexLock**: at most one guard; no wakeup is lost between the check, the
  flag, the system call and the wake; `Err(Recursive)` exactly when the thread
  has a guard, however old the copy of the word is on which the decision rests.
* **PipeLock**: the same, with two variables and bytes that are addressed to
  nobody. The count of waiters must be exact on every way out of the loop. The
  two variables are Relaxed where they meet, and two fences order them. `errno`
  is looked at after a system call, with a handler possibly in between. After
  `fork()` the variables are private and the pipe is shared.
* **mmapcatch**: an access to a registered mapping never kills the process; the
  handler never maps over another mapping; what a `Guard` reports is true at
  every moment, although the handler stores it piece by piece; lookups that
  inspect one entry are right; a panic leaves nothing half-made in use; `ROOT`
  is written once and before anybody uses it.
* **The example**: a signal that is deferred to ordinary code is acted on, by
  this thread or another, and never cleared with an older one.

`PROJECT.json` lists the hazards line by line, with the properties that watch
them.

## 2. Modules

```
SignalLock                what both locks promise (abstract)
  ^ implemented by          ^ used by
FutexLock   PipeLock      OptimisticHandler   the example, on SignalLock's actions
                ^ two of
            PipeFork      PipeLock in parent and child, with one pipe
PipeFence                 PipeLock's accesses on weakly ordered memory
AddrMap                   the lookups of mmapcatch's address map (operators)
  ^ used by
Registry    MmapCatch     (SignalLock abstracted to its holder); MmapCatch
                          implements Registry

SignalLockProofs          theorems about the promise
  ^ carried over by
PipeLockProofs, OptimisticHandlerProofs     theorems about the module each is
FutexLockProofs, PipeFenceProofs,           named after; RegistryProofs and
RegistryProofs, MmapCatchProofs             MmapCatchProofs use AddrMapProofs
AddrMapProofs
MCFutexLock, MCMmapCatch, MCRegistry        instances for TLC, where a .cfg
                                            needs symmetry or sets of records
```

**Threads, frames, signals.** In SignalLock, FutexLock and PipeLock a thread is a stack of
frames. Frame 0 is its ordinary code and frame *d* a handler that interrupted
frame *d - 1*; only frame `depth[t]` takes steps, and `Signal(t)` may push a
frame between any two of them. An action is one atomic operation or one system
call of the code together with the local computation up to the next one. The
constant `GuardEscapes` says what callers do with guards apart from dropping
them where they took them: nothing ("never"), `mem::forget` ("forgotten", the
leak the comment in `raw_lock_contended` speaks of), or storing the guard and
dropping it later on the same thread ("kept"). The modules describe one lock.

**FutexLock.** `futex` is the lock's word as a record of tid and waiters bit,
`word[t][d]` the local variable `word`, `pc[t][d]` the place in the code.
`raw_lock` is the fast path, `ReturnRecursive`, `TakeContended`, `SetWaiters`,
`futex_wait` and `Reload` are the parts of `raw_lock_contended`, `raw_unlock`
and `raw_unlock_wake` are themselves. The kernel compares and queues in one
step. A signal takes a sleeper off the queue; the wait then fails with EINTR, or
is issued again after a handler with SA_RESTART, and both are allowed. The debug
assertion of `raw_unlock` leads to the point "abort".

**PipeLock.** `holder_tid`, `waiters` and the number of bytes in the pipe, the
guard's `contended` flag, and `pc`. `lock` is the fast path with the check for
the caller's own tid, `Announce` is `waiters += 1`, `TryLock` one iteration of
the loop, `Withdraw` is `waiters -= 1` on either way out, `read`, `Swap`,
`CheckWaiters` and `write` are as in the code. The write never blocks, and adds
nothing to a full pipe. A signal that arrives in `read()` makes it fail with
EINTR after the handler, or restarts it. `errno[t]` belongs to the thread, not
to the frame: a system call that fails sets it, the code looks at it in a step
of its own (`CheckReadErrno`, `CheckWriteErrno`), and in between a handler may
run its own `lock()` and drop. `Signal` and `HandlerReturn` save and restore it
as `SaveRestoreErrno` and the handler of the example do.

**PipeFence** is what the comment "TRICKY MEMORY MODEL STUFF" in pipe.rs is
about: the same lock, without signals, with the memory orders of the code. Each
of the two atomics is the sequence of its values; a load, and an exchange that
fails, may return any value from the last one that the thread has seen onwards.
A view records what has been seen of each location. The Release swap attaches
its thread's view to the value, the Acquire exchange takes it over, a SeqCst
fence exchanges views with the fences before it, and readers and writers of the
pipe meet in its mutex (`LoomPipe`'s; the kernel's pipe has one too, and it is
taken also by a write that finds the pipe full, on which the result rests).
`item` counts accesses under the lock, so that a guard that has not seen an
earlier access is visible. All writes to the atomics are read-modify-writes, so
they extend the sequence at its end. The model leaves out loads of values
written later, and orders less than C++20 does elsewhere (no synchronisation
through Relaxed writes and fences), so that what holds here holds there but
for such loads.

**PipeFork** is two instances of PipeLock, the parent's and the child's, on one
`pipe`. It starts after `fork()` with the lock free in both; each process then
has threads of its own.

**OptimisticHandler** extends SignalLock: what a frame does with the lock are
SignalLock's own actions, `at` says where it is in `normal_code` or
`signal_handler`, and `owed` is a history variable, true from a deferral until
somebody runs `do_the_thing`. The program stands for any use of the pattern:
several threads, and signals at any step in place of `raise`. A signal is
blocked while its handler runs (`sa_flags` has no SA_NODEFER), so `MaxDepth` is 1.

**compare_exchange_weak** may fail although the word is as expected. On the fast
path this is modelled (the frame goes to the contended path with a free lock);
in the loops a spurious failure repeats the same iteration and is a stuttering
step.

**AddrMap, Registry.** The map from start addresses to mappings, and the lookups
with the comparisons of the code: only the last entry at or below an address is
inspected. `Registry` is the map's life under the lock, for arbitrary ranges. MmapCatch
implements it (`MapFollowsRegistry`, section 5).

**MmapCatch.** `register_mmap` and `Guard::drop` run through `install` (only the
first), `TryOnce`, and `lock`, `body` and `unlock` of `with_root`. `TryOnce` is
`FirstLook` (the Acquire load), `SecondLook` (the mutex and the second load),
`CreateRoot` (which may fail) and `SetFlag`; `written` says that `ROOT`'s memory
holds a lock, whatever the flag says. An access that faults runs through the
handler, with the system call and each store into the `State` as a step of its
own. `page` says what each page is: the file's, anonymous and zero, or anonymous
and written to. `broken` are the file pages whose access raises SIGBUS; the
environment truncates, lengthens and (with `IOErrors`) breaks single pages. A
thread may have any number of Guards.

A panic in a closure (`ClosurePanics`, before or after its change of the map)
and the failing assertions of `Guard::drop` leave `clean` false. On such a root
`with_root` takes the lock, finds it poisoned and panics (point "poisoned",
`RefusePoisoned`). A thread that panics, there or in the program's own code, is
"panicked": the Guards on its stack are dropped by calls of their own (operation
"unwind"), the others live on, until the panic is caught. A panic in such a drop
ends the process (`Panic`). With `Handlers`, a signal handler of the program may
interrupt any of these calls, also one that has just found the root poisoned, and
access a mapping; `under` is the call underneath. `ROOT`'s
lock is what `SignalLock` promises: free, or held by a thread. A guard is only
dropped when nobody is accessing its mapping (an access after the drop is no
longer registered). `si_code` is not modelled: it is one more store, before
`fix_addr`.

The parts of a module headed "Faulty variants" are not used by any
specification. Each replaces one operation by a plausible mistake and makes one
property fail; `PROJECT.json` pairs them under "mutants".

## 3. What the runs check

All runs use small sets of model values; `t1, t2, t3` are threads.

| run | instance | shows |
|---|---|---|
| futex_nested | 3 threads, one with 2 nested handlers, leaked guards, fair | exclusion, no failed assertion, no sleep on one's own guard, no lost wakeup, true `Recursive`, every call, drop and handler ends unless another thread has leaked the guard, the proofs' invariant |
| futex_kept | 3 threads, two with 1 handler each, kept guards | FutexLock implements SignalLock |
| futex_kept_wake | 3 threads with 1 handler each, kept guards | **violated**: a wakeup is lost (finding 1) |
| pipe_kept | 2 threads, 1 handler each, kept guards, a pipe of 1 byte, fair | exclusion, exact count, no lost wakeup, `errno` is never a handler's, every call, drop and handler ends, PipeLock implements SignalLock, the proofs' invariant |
| pipe_leak | 2 threads, leaked guards | **violated**: a thread blocks for ever on its own leaked guard (finding 2) |
| pipe_fence | 3 threads, 3 calls of `lock()`, 1 byte, fair | on weakly ordered memory: the item is protected, no lost wakeup, every call ends, the proofs' invariant |
| pipe_fork | 2 threads in each of two processes, 2 bytes | **violated**: a byte is read by the wrong process (finding 4) |
| optimistic | 3 threads, 1 handler each, fair | no deferred signal is forgotten, the unwraps never panic, the program comes to rest with nothing owed, the proofs' invariant |
| mmap_two | 2 threads, 2 adjacent mappings (2 pages, 1 page), writes | accesses survive, guards own their entries, repairs stay within the mapping |
| mmap_live | 2 threads, 1 mapping of 2 pages, reads, I/O errors, panics and unwinding, accesses from handlers, fair | `ROOT` is written once and before use, what a Guard reports is true, a poisoned root is final, only a fault inside `with_root` and a panic while unwinding kill, calls and accesses end, the proofs' invariant |
| mmap_lost_write | 2 threads, 1 mapping | **violated**: finding 3 |
| registry | all 36 ranges in 8 addresses | no overlap; one entry decides |

**Bounds.** `MaxDepth` 2 lets a handler interrupt a handler that interrupted
ordinary code, so that a frame below, in the middle and on top can each be at a
different point of the lock; a third level repeats the second, as a frame only
depends on whether some frame below it has the guard. Three threads give a
holder, a waiter and a woken thread, or two waiters and a waker, which is what an
argument about wakeups needs: all runs of FutexLock have three, and PipeLock is
run with three in pipe_fence, where bytes are stolen. Not every thread of
FutexLock needs handlers of its own for that, and `Interruptible` says which ones
signals may interrupt; a handler on one thread meets the others at every point.
Two threads with a handler each are up to four calls at once, and their number is
not bounded. Pipe capacity 1
puts the full pipe within reach. `MaxCalls` bounds the sequences of values in
PipeFence: three calls are a holder and two waiters, or a waiter, its waker and a
third that takes the lock in between; the instance stops when they are used up,
hence CHECK_DEADLOCK FALSE. (With four calls and a pipe of two bytes,
3.2 million states, the properties hold as well.) A page of two addresses gives faults at a page's start and within it; a
mapping of three addresses ends within a page. Two threads give the handler
every interleaving with a second fault, a registration, a drop and a reader of
the Guard, which is just a reader of `state`. Accesses are
writes in mmap_two and reads in mmap_live (`Ops`): a write differs from a read only
in the mark "written", which nothing but finding 3 looks at. Both threads may register the one mapping in turn, and a thread may unwind with
a Guard that was made before a closure of another thread panicked; Guards of two
mappings on one thread are in mmap_two, and in the proofs. `waiters` needs no bound because
there is one call per frame.

**Fairness.** The specifications for liveness add weak fairness of `Step(t)`,
the steps of a thread that is in a call, a drop or a handler, and for the locks
of `DropKept(t)`: the scheduler runs every thread and callers drop their guards.
Nothing is assumed of new calls, signals, spurious wakeups, or of the order in which the kernel wakes sleepers.
The locks are unfair ("Both locks are unfair", signal_lock/README.adoc:98), so
no lock acquisition is promised while others keep calling. `AllReturn` and
`AllEnd` therefore speak of runs in which calls and signals eventually stop: then
everything finishes. For FutexLock the guards of that run may be leaked, and the
property has the exception that this makes: a call waits for ever if another
thread has leaked the guard it waits for. It is not claimed for kept guards, where
finding 1 makes it false with three threads. For the reader of the pipe and for the queue for `ROOT`'s
lock, weak fairness is enough for the same reason. Spurious failures of the weak
exchange are taken not to go on for ever. In PipeFence a thread that tries again
and again must in the end see a newer value, which weak fairness gives because
its view only grows. `AllReturn` of PipeLock has one exception, finding 2 with a
guard that is kept: a thread that blocks on its own guard cannot drop it.

**Refinement.** `ImplementsSignalLock` maps each frame's program point to
"idle", "locking", "refused", "holding" or "aborted". A frame is "refused" from
the moment it has read its own tid, which is when the answer is decided: with
kept guards a handler may drop the guard between that read and the return, and
`Recursive` is then returned by a thread that no longer has one. That is why
`RecursiveIsTrue` is checked and proved for guards that are not kept. For PipeLock
the same is proved from SignalLock (`RefusalsAreTrue`, section 5). The runs check
the refinement of both locks on their instances; `Refinement` in FutexLockProofs
and in PipeLockProofs proves it.

## 4. Findings

1. **FutexLock, lost wakeup with a kept guard** (`futex_kept_wake`;
   futex.rs:160). The comment in `raw_unlock_wake` argues that the duty to wake
   is always with somebody. A woken waiter whose handler takes the free lock by
   the fast path and keeps the guard then reads its own tid and returns
   `Recursive`, passing the duty to nobody; the word has no FUTEX_WAITERS, so
   dropping the guard wakes nobody, and another thread sleeps on a free lock.
   It needs a guard that leaves the handler that took it and is dropped later.
2. **PipeLock, sleeping on one's own guard** (`pipe_leak`; pipe.rs:246). A
   handler interrupts a waiter that has looked at `holder_tid` and is about to
   read. It takes the lock, which has been freed meanwhile, and leaks the guard.
   That alone is harmless: the byte written for the waiter is in the pipe or on
   its way, the waiter wakes, sees its own tid and returns `Recursive`. But bytes
   are addressed to nobody. If another waiter, or a `lock()` in the handler
   itself, has read that byte, the waiter blocks with an empty pipe on a lock that
   its own thread holds, and nobody will ever unlock and write again. The property
   counts only such permanent blocks: it excuses a blocked thread as long as
   another one is between the swap and the write of an unlock, and a thread is
   blocked only while the pipe is empty. FutexLock has no such
   state (`ReentrancyNeverSleeps` is proved), since the kernel compares the word.
3. **Anonymous pages do not remain** (`mmap_lost_write`; mmapcatch lib.rs:428).
   Two threads that fault on the same page both map it; what the first wrote in
   between is lost. A later fault on a lower page does the same, with one thread
   only, since it maps everything from there to the end of the mapping. The
   documentation says "the anonymous pages will remain".
4. **PipeLock, lost wakeup after `fork()`** (`pipe_fork`; pipe.rs:246). The
   argument in pipe.rs ties every waiter to an unlocker through `holder_tid` and
   `waiters`, which each process has for itself; the bytes are shared. A waiter of
   the child that waits for the child's lock reads the byte that the parent wrote
   for its own waiter, and waits again. The parent's waiter stays blocked on a
   free lock until somebody else in the parent unlocks. tests/fork.rs drops guards
   after a fork, which works; it does not lock. FutexLock has no
   such state: its queue belongs to the word, which is private too.

Not a finding, but worth knowing: the documentation of `is_err` speaks of "the
problematic pages", while the handler replaces everything from the faulting page
to the end of the mapping (`Fixed`). That is right for a truncated file; after an
I/O error on one page, readable pages behind it become zeros too. And the
conversion from `PipeNewError` to `RegisterError` swaps `PipeFailed` and
`FcntlFailed` (lib.rs:218-219), which reading shows and no behaviour depends on.

## 5. What is proved

For every value of the constants, where the modules' own assumptions hold:
`NoTid` is not a thread, `MaxDepth` is a natural number, a pipe holds at least
one byte, starts, lengths and page sizes are positive, no two of the mappings share
a page (`mmap` gives out whole pages), and for PipeLock, which counts its
waiters, the threads are finitely many. `MaxDepth` is 1 in
OptimisticHandler and `MaxCalls` is any number in PipeFence. Where a theorem needs
more, it says so with ASSUME.

Each proof has the same shape: an inductive invariant `IInv`, which is also an
invariant of a run; a lemma that every action preserves it (`InvStep`), for
the larger modules from lemmas for single actions and single parts; and the
properties that the runs check as its consequences. What follows says why the
properties are not inductive by themselves.

**SignalLock** (`SignalLockProofs`). `PromiseOfOneGuard`: at most one guard
exists, over all threads, frames and stored guards. `PromiseOfRefusal`, unless
guards are kept: what a refused call ran into is still there when it returns. The
argument is that a guard which caused a refusal belongs to a frame below, which
does not run before the refused one has returned, or was leaked. These say
what the abstract module amounts to; the refinements carry them over.

**FutexLock** (`FutexLockProofs`). `Exclusion`, `UnlockByHolder`,
`ReentrancyNeverSleeps`, `Refinement`; `RecursiveOnlyToHolder` and
`SleepersAreNotLost` for guards that are not "kept". Finding 1 shows that the
second needs this; the refinement paragraph above says why the first does.
`MutualExclusion` follows only if the
word says who has the guard (`WordNamesHolder`), and that is preserved by
`raw_unlock` only because the word carries the dropping thread's tid, which it
does as long as nobody else changes it: `SetWaiters` exchanges against a copy, so
the tid cannot change, and a free lock never has FUTEX_WAITERS (`Words`, part of
`TypeOK`), so `TakeContended`'s test for a word of zero sees every free lock.
`NeverSleepsOnOwnGuard` needs that a sleeper's copy names another thread
(`SleepersWait`) and that a frame that may wait did not interrupt one with the
guard (`OwnGuardIsSeen`). `FramesNest` says that only the running frame can be
asleep. `NoLostWakeup` is then inductive relative to `IInv`: the interesting
cases are the wake, where the sleeper that is woken becomes responsible itself,
and a responsible thread that falls asleep, which it only does when it has just
compared the word and found FUTEX_WAITERS set.

**PipeLock** (`PipeLockProofs`). `Exclusion`, `NeverAborts`, `CountIsExact`,
`ReadersAreNotLost` and `Refinement` for any fate of guards; `OwnGuardNeverBlocks`
if no guard escapes, which finding 2 shows to be necessary: a blocked thread then
has no guard at all, not even one whose unlock is under way; `RefusalsAreTrue` if
none is kept, which is `PromiseOfRefusal` seen through the refinement mapping.
`holder_tid` names the thread with the guard (`HolderHasGuard`), and a thread
never has two (`OneGuard`). `NoAbort` needs to know `errno` at a frame that is not
running: `ErrnoOf` finds it where the handler above has saved it. The count is a
cardinality over all frames, of which each step moves at most one in or out.
`NoLostWakeup` speaks of blocked threads; `ReadersAreCovered` also of readers
that a handler has interrupted, which are blocked as soon as it returns, and it
rests on a responsible frame not having a reader on top of it. The interesting
case is again the responsible frame that goes to sleep: it has read that the lock
is held, so that the premise is false.
All of `IInv` but `ReadersAreCovered` (`LockInv`) holds whatever the pipe contains.
This gives `ForkLosesOnlyWakeups` and `SharedPipeRefinement`: let other processes
write and read the pipe at any time (`OthersUseThePipe`, all that a step of the
child is for the parent in PipeFork), and the lock of each process still keeps
exclusion, its count and SignalLock's promise. What finding 4 loses is wakeups.

**PipeFence** (`PipeFenceProofs`). `GuardIsSynchronised`, `FencesWakeReaders`,
`NobodyIsRefused` (a thread never takes an old value of `holder_tid` for its own
guard, on the fast path or in the loop) and `OneHolder`. This is the
argument of the comment in pipe.rs, made precise. Each fence of a locker comes
before one of an unlocker or after it: in the first case the unlocker cannot
read the count from before the announcement (`FenceShowsWaiters`), in the
second the locker cannot read `holder_tid` from before the swap
(`FenceShowsSwap`). So of a locker and an unlocker at least one sees the other
(`OneSeesTheOther`). What remains is a locker that is woken for nothing and waits
again: it reads `holder_tid` after the pipe's mutex, by which the byte carries
the writer's view, so that a free lock is always noticed by somebody
(`FreeIsNoticed`). This is where the proof uses that a write which finds the pipe
full takes the mutex too.

**OptimisticHandler** (`OptimisticHandlerProofs`). `DeferralsAreKept`,
`UnwrapsAreSafe` and `TheThingIsExclusive`. A handler
that is refused has interrupted the critical section of its own thread
(`RefusedBySection`), and that section does not end before the handler has
returned, so that the flag is set before the look at it. The program only uses
SignalLock's actions, hence the three hold on either lock, and exclusion is
`PromiseOfOneGuard` applied to it.

**AddrMap, Registry** (`AddrMapProofs`, `RegistryProofs`). `LookupAddr` and
`LookupOverlap`: on a map without overlaps, the one entry that the code inspects
is the right one. `NoOverlap` and `OneEntryDecides` depend on each other: on a map
without overlaps the last entry at or below an address is the only one that can
contain it, hence a refused registration is exactly one that overlaps, hence the
map stays without overlaps.

**MmapCatch** (`MmapCatchProofs`). `FaultsAreRepaired`, `RootIsWrittenOnce`,
`EntriesAreOwned`, `ErrorsAreExplained`, `OnlyItsOwnPages`, `PoisonedForEver`,
and, for programs without handlers that access mappings, `NothingAborts`: they die
of nothing but a panic while unwinding. Everything hangs on the lock: a closure and a handler are never inside it together, not on
one thread either (`LockIsHeld`), and a closure has set `cleanly_unlocked` to
false for its time. That nobody uses `ROOT` unwritten is the order within
`TryOnce` (`OnceIsInOrder`), of which at most one thread is between the second
look and the store of the flag. A fault finds its mapping since the guard of
an accessed mapping lives (`AccessesAreGuarded`) and its entry with it. `ErrIsExplained`
needs what each of the handler's three stores may rely on (`StoresAreInOrder`),
including those of a second thread that faults on the same page, and page
arithmetic for any page size (`PageFacts`). `GuardsOwnTheirEntries` needs
`DropsAreInOrder`: a thread that drops a Guard, by a call or by unwinding, has no
other one of the same mapping, so that its drops remove one entry each.
`PoisonIsFinal` rests on the lock alone: who leaves a closure by a panic was the
only one in it, and who comes later finds the root poisoned (`RootSteps`).
`PanicsAreMeant` says that without panics nothing is poisoned and nobody unwinds.
`MapFollowsRegistry` connects the two models of the map: seen without its owners it
changes as Registry says, and in no other way, so that what is proved of Registry
holds in the concurrent program. This needs `OnceIsInOrder` too, since creating ROOT
a second time would empty the map.

**Model-checked only**: liveness (`AllReturn`, `AllEnd`, `AllHandled`), since
fairness and ENABLED are beyond the prover. The runs that expect a violation are
counterexamples and need no proof.

## 6. Not modelled

* **Loads of values written later** (load buffering): PipeFence executes each
  thread in program order. FutexLock is a single word and needs no order between
  locations but that of the item, which is PipeLock's Acquire and Release again.
* **fork with the lock held.** The guard's cached tid lets the child drop its
  copy (tests/fork.rs); a child that calls `lock()` on what another thread of the
  parent held waits for ever, as with any mutex.
* **gettid's choice of implementation**, made once before `main`. Two threads
  have different tids at any time; a tid that is used again after its thread has
  died with a leaked guard is, for the lock, the same thread.
* **Errors that abort**: futex, read and write errors other than EAGAIN and
  EINTR, MAP_FAILED, sysconf and sigaction failures. That a handler may leave
  another `errno` behind is modelled in PipeLock only (futex.rs:38 looks too).
* **Accesses while a thread unwinds.** A destructor that reads a mapping behaves
  as ordinary code does; "panicked" threads only drop Guards. A panic that nobody
  catches ends the thread, with its remaining Guards dropped or leaked.
* **Empty mappings and mappings at the end of the address space**, where
  `addr + len` would wrap: `register_mmap` requires a real mapping.
* **SIGBUS that was sent or belongs to no mapping**: the handler aborts, after
  `parse_sigbus` has looked at one `siginfo_t`.
* **Which system call of `pipe()` failed**, and the closing of descriptors.
  `StaticRoot::drop` never runs.
* **The fake futex and the fake signals**, test doubles that allow fewer
  behaviours than the kernel: signals at `fake_signal_check_interrupt` only, a
  futex as a mutex and a condvar.
* `StderrWriter` and the `std::sync::Mutex` impl (sequential code without state
  that outlives a call), `park.rs` (unfinished, not compiled), tests, benchmarks
  and build files.

## 7. Plan

In place: all modules of section 2, with a proof of every safety invariant, action
property and refinement that a passing run checks. Left:

* MmapCatch on SignalLock: that its `holder` follows the promise, as it does in
  OptimisticHandler. The SIGBUS handler drops the lock's guard and returns in one
  step of the model, which are two of SignalLock's, so it needs a step in between;
  and an abort ends all frames at once, so the statement is about behaviours up to
  an abort.
