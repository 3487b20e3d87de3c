------------------------------ MODULE MmapCatch ------------------------------
(***************************************************************************)
(* mmapcatch: registered file mappings survive truncation and I/O errors.  *)
(* Threads register a mapping, access it, and drop its guard; an access to *)
(* a page that the file cannot provide raises SIGBUS, and the handler,     *)
(* under the SignalLock around Root, replaces the mapping from that page   *)
(* on with zero-filled anonymous pages and records what it did.            *)
(*                                                                         *)
(* The lock is used as SignalLock promises it: free, or held by a thread.  *)
(* sa_mask is full, so a handler is not interrupted.                       *)
(***************************************************************************)
EXTENDS AddrMap, FiniteSets

CONSTANTS
  Threads,
  NoTid,      \* nobody, as the holder of the lock
  Regions,    \* the file mappings of the program: [start, len], in bytes
  PageSize,
  Ops,        \* how the program accesses mappings: "read", "write"
  IOErrors,   \* may single pages fail, besides truncation?
  Panics,     \* may the program, and a closure run by with_root, panic?
  Handlers    \* may the program's signal handlers access mappings?

PageOf(addr) == addr \div PageSize
PageStart(addr) == addr - (addr % PageSize)
PagesOf(start, len) == PageOf(start) .. PageOf(start + len - 1)
RegionPages(r) == PagesOf(r.start, r.len)
Pages == UNION {RegionPages(r) : r \in Regions}
Addresses == UNION {Bytes(r.start, r.len) : r \in Regions}

\* mmap returns page-aligned ranges that share no page, never at address 0.
ASSUME MmapCatchAssumption ==
  /\ NoTid \notin Threads
  /\ PageSize \in Nat \ {0}
  /\ Ops \subseteq {"read", "write"}
  /\ {IOErrors, Panics, Handlers} \subseteq BOOLEAN
  /\ \A r \in Regions :
       /\ r.start \in Nat \ {0} /\ r.len \in Nat \ {0}
       /\ PageStart(r.start) = r.start
       /\ \A s \in Regions : r # s => RegionPages(r) \cap RegionPages(s) = {}

VARIABLES
  installed,  \* the SIGBUS handler is installed
  once,       \* ROOT's TryOnce: init
  written,    \* ROOT's memory holds a SignalLock
  holder,     \* the thread that holds ROOT's SignalLock
  clean,      \* root.cleanly_unlocked
  map,        \* root.map: start -> [len, owner]; owner tells whose State
  guard,      \* guard[t]: the regions whose Guards thread t holds
  state,      \* state[t][s]: the State shared by t's Guard and the Mapping at s
  page,       \* page[p]: "file", or anonymous: "zero" or "written"
  broken,     \* the file pages whose access raises SIGBUS
  pc,         \* pc[t]: where thread t is
  arg,        \* arg[t]: the call or the access thread t works on
  under,      \* under[t]: the call that a handler of the program interrupted
  aborted     \* why the process aborted, or "no"

Once == <<installed, once, written>>
ROOT == <<Once, holder, clean, map>>
pages == <<page, broken>>
vars == <<installed, once, written, holder, clean, map, guard, state, page,
          broken, pc, arg, under, aborted>>

Starts == {r.start : r \in Regions}

\* A State as register_mmap creates it; address 0 stands for none.
NewState == [err |-> FALSE, err_addr |-> 0, fix_addr |-> 0]

\* A Guard is dropped by its owner, or by a panic that unwinds past it.
Drops == {"drop", "unwind"}
Calls == [op : {"register", "drop", "unwind"}, region : Regions]
Accesses == [op : Ops, region : Regions, addr : Addresses]

(***************************************************************************)
(* Program points.  register_mmap and Guard::drop run "install", "init"    *)
(* (the first look at TryOnce's flag), "mutex" (before its mutex),         *)
(* "create" and "flag" (with the mutex), then "lock", "body" (the closure) *)
(* and "unlock" of with_root, or "poisoned", or end in "error".  A thread  *)
(* that unwinds is "panicked" between the drops of its Guards.             *)
(* An access runs "access" and, if it faults, the handler: "sigbus" (about *)
(* to lock), "lookup", "fix_addr", "err_addr", "err" (the stores), "done". *)
(***************************************************************************)
InOnce == {"create", "flag"}
InRoot == {"lock", "body", "unlock", "poisoned"}
InCall == {"install", "init", "mutex"} \cup InOnce \cup InRoot
Stores == {"fix_addr", "err_addr", "err"}
InHandler == {"sigbus", "lookup", "done"} \cup Stores
Points == {"idle", "error", "access", "panicked", "dead"} \cup InCall \cup InHandler

Goto(t, point) == pc' = [pc EXCEPT ![t] = point]
Finish(t, point) == Goto(t, point) /\ arg' = [arg EXCEPT ![t] = <<>>]

\* A drop that unwinding has called goes back to the unwinding.
Return(t) == Finish(t, IF arg[t].op = "unwind" THEN "panicked" ELSE "idle")

Init ==
  /\ installed = FALSE /\ once = FALSE /\ written = FALSE
  /\ holder = NoTid /\ clean = TRUE /\ map = <<>>
  /\ guard = [t \in Threads |-> {}]
  /\ state = [t \in Threads |-> [s \in Starts |-> NewState]]
  /\ page = [p \in Pages |-> "file"] /\ broken = {}
  /\ pc = [t \in Threads |-> "idle"]
  /\ arg = [t \in Threads |-> <<>>]
  /\ under = [t \in Threads |-> <<>>]
  /\ aborted = "no"

\* An access starts from ordinary code that is idle, or from a handler of the
\* program, in the middle of a call; afterwards that goes on.
Ordinary(t) == under[t] = <<>>
EndAccess(t) ==
  IF Ordinary(t) THEN Finish(t, "idle") /\ UNCHANGED under
  ELSE /\ Goto(t, under[t].pc)
       /\ arg' = [arg EXCEPT ![t] = under[t].arg]
       /\ under' = [under EXCEPT ![t] = <<>>]

\* The call t is in, also while a handler of the program interrupts it.
CallOf(t) == IF Ordinary(t) THEN [pc |-> pc[t], arg |-> arg[t]] ELSE under[t]

-----------------------------------------------------------------------------
(* Faulty variants of the operations below, as in FutexLock. *)

\* Creates the lock again without a second look at the flag.
MustCreate_Always == TRUE

\* Registers without looking for an overlap.
Overlap_Ignored(r) == {}

\* Keeps the last address as the length.
NewMapping_LastAddress(t, r) == [len |-> r.start + r.len - 1, owner |-> t]

\* Works on a poisoned root.
Poisoned_Ignored == FALSE

\* Forgets to take the part before the fault off the length.
Fixed_WholeLength(addr, start, len) == PagesOf(PageStart(addr), len)

\* Rounds the address of the fault up to a page.
Fixed_RoundedUp(addr, start, len) ==
  LET fix_start == PageStart(addr + PageSize - 1)
  IN  PagesOf(fix_start, len - (fix_start - start))

\* Sets err with the first store.
NextStore_ErrFirst == [lookup |-> "err", err |-> "fix_addr",
                       fix_addr |-> "err_addr", err_addr |-> "done"]

-----------------------------------------------------------------------------
(* register_mmap and Guard::drop *)

register_mmap(t) ==
  /\ pc[t] = "idle"
  /\ \E r \in Regions : arg' = [arg EXCEPT ![t] = [op |-> "register", region |-> r]]
  /\ Goto(t, "install")
  /\ UNCHANGED <<ROOT, guard, state, pages, under, aborted>>

\* Once::call_once
install_signal_handler(t) ==
  /\ pc[t] = "install"
  /\ installed' = TRUE
  /\ Goto(t, "init")
  /\ UNCHANGED <<once, written, holder, clean, map, guard, state, pages, arg, under, aborted>>

\* TryOnce: the flag is looked at, then under the mutex again.
FirstLook(t) ==
  /\ pc[t] = "init"
  /\ Goto(t, IF once THEN "lock" ELSE "mutex")
  /\ UNCHANGED <<ROOT, guard, state, pages, arg, under, aborted>>

MustCreate == ~once
SecondLook(t) ==
  /\ pc[t] = "mutex"
  /\ \A u \in Threads : CallOf(u).pc \notin InOnce
  /\ Goto(t, IF MustCreate THEN "create" ELSE "lock")
  /\ UNCHANGED <<ROOT, guard, state, pages, arg, under, aborted>>

\* SignalLock::new is written to ROOT, or fails to get its pipe: the mutex is
\* free again, and a later call tries again.
CreateRoot(t) ==
  /\ pc[t] = "create"
  /\ \/ /\ written' = TRUE /\ holder' = NoTid /\ clean' = TRUE /\ map' = <<>>
        /\ Goto(t, "flag")
     \/ Goto(t, "error") /\ UNCHANGED <<written, holder, clean, map>>
  /\ UNCHANGED <<installed, once, guard, state, pages, arg, under, aborted>>

SetFlag(t) ==
  /\ pc[t] = "flag"
  /\ once' = TRUE
  /\ Goto(t, "lock")
  /\ UNCHANGED <<installed, written, holder, clean, map, guard, state, pages, arg, under, aborted>>

ReturnError(t) ==
  /\ pc[t] = "error"
  /\ Return(t)
  /\ UNCHANGED <<ROOT, guard, state, pages, under, aborted>>

\* A Guard is dropped when nobody accesses its mapping.
DropGuard(t) ==
  /\ pc[t] \in {"idle", "panicked"}
  /\ \E r \in guard[t] :
       /\ \A u \in Threads : pc[u] \in {"access"} \cup InHandler => arg[u].region # r
       /\ arg' = [arg EXCEPT ![t] =
                    [op |-> IF pc[t] = "idle" THEN "drop" ELSE "unwind", region |-> r]]
       /\ guard' = [guard EXCEPT ![t] = @ \ {r}]
  /\ Goto(t, "init")
  /\ UNCHANGED <<ROOT, state, pages, under, aborted>>

Poisoned == ~clean

\* with_root: lock, refuse a poisoned root, poison it for the closure's time.
with_root(t) ==
  /\ pc[t] = "lock" /\ holder = NoTid
  /\ holder' = t /\ clean' = FALSE
  /\ Goto(t, IF Poisoned THEN "poisoned" ELSE "body")
  /\ UNCHANGED <<Once, map, guard, state, pages, arg, under, aborted>>

\* The process is gone.
Abort(why) ==
  /\ aborted' = why
  /\ pc' = [u \in Threads |-> "dead"]
  /\ UNCHANGED <<Once, holder, clean, guard, state, pages, arg, under>>

\* A panic under the lock unwinds: the lock's guard is dropped and the root
\* stays poisoned.  A panic in a drop that unwinding has called aborts.
Panic(t) ==
  IF arg[t].op = "unwind" THEN Abort("panic while unwinding")
  ELSE /\ holder' = NoTid
       /\ Finish(t, "panicked")
       /\ UNCHANGED <<Once, clean, guard, state, pages, under, aborted>>

RefusePoisoned(t) ==
  /\ pc[t] = "poisoned"
  /\ Panic(t)
  /\ UNCHANGED map

\* Code of the program panics, or catches a panic; Guards that are not on the
\* stack live on.
ProgramPanics(t) ==
  /\ Panics
  /\ pc[t] = "idle"
  /\ Goto(t, "panicked")
  /\ UNCHANGED <<ROOT, guard, state, pages, arg, under, aborted>>

Caught(t) ==
  /\ pc[t] = "panicked"
  /\ Goto(t, "idle")
  /\ UNCHANGED <<ROOT, guard, state, pages, arg, under, aborted>>

Overlap(r) == lookup_overlap(map, r.start, r.len)
NewMapping(t, r) == [len |-> r.len, owner |-> t]

\* The closures' changes of the map.
Insert(t) ==
  LET r == arg[t].region IN
  /\ arg[t].op = "register" /\ Overlap(r) = {}
  /\ map' = [s \in DOMAIN map \cup {r.start} |->
               IF s = r.start THEN NewMapping(t, r) ELSE map[s]]

Remove(t) ==
  /\ arg[t].op \in Drops
  /\ map' = [s \in DOMAIN map \ {arg[t].region.start} |-> map[s]]

InsertMapping(t) ==
  LET r == arg[t].region IN
  /\ pc[t] = "body"
  /\ Insert(t)
  /\ guard' = [guard EXCEPT ![t] = @ \cup {r}]
  /\ state' = [state EXCEPT ![t][r.start] = NewState]
  /\ Goto(t, "unlock")
  /\ UNCHANGED <<Once, holder, clean, pages, arg, under, aborted>>

\* Err(Overlap)
RefuseOverlap(t) ==
  /\ pc[t] = "body" /\ arg[t].op = "register"
  /\ Overlap(arg[t].region) # {}
  /\ Goto(t, "unlock")
  /\ UNCHANGED <<ROOT, guard, state, pages, arg, under, aborted>>

\* expect("addr in ROOT"), then the assertion that the entry is the guard's own.
\* With the entry and the Guard the State is gone.
RemoveMapping(t) ==
  LET r == arg[t].region IN
  /\ pc[t] = "body"
  /\ Remove(t)
  /\ IF r.start \in DOMAIN map /\ map[r.start].owner = t
       THEN /\ Goto(t, "unlock")
            /\ state' = [state EXCEPT ![t][r.start] = NewState]
            /\ UNCHANGED <<Once, holder, clean, guard, pages, arg, under, aborted>>
       ELSE Panic(t)

\* A closure panics before or after its change of the map.
ClosurePanics(t) ==
  /\ Panics
  /\ pc[t] = "body"
  /\ Panic(t)
  /\ UNCHANGED map \/ Insert(t) \/ Remove(t)

Unlock(t) ==
  /\ pc[t] = "unlock"
  /\ clean' = TRUE
  /\ holder' = NoTid
  /\ Return(t)
  /\ UNCHANGED <<Once, map, guard, state, pages, under, aborted>>

-----------------------------------------------------------------------------
(* Accesses and the SIGBUS handler *)

\* Any thread may access a mapping while its guard lives, in ordinary code or
\* in a signal handler that interrupts one of the calls above.
StartAccess(t) ==
  /\ \/ pc[t] = "idle" /\ UNCHANGED under
     \/ /\ Handlers /\ Ordinary(t) /\ pc[t] \in InCall
        /\ under' = [under EXCEPT ![t] = [pc |-> pc[t], arg |-> arg[t]]]
  /\ \E r \in UNION {guard[u] : u \in Threads}, op \in Ops :
       \E a \in Bytes(r.start, r.len) :
         arg' = [arg EXCEPT ![t] = [op |-> op, region |-> r, addr |-> a]]
  /\ Goto(t, "access")
  /\ UNCHANGED <<ROOT, guard, state, pages, aborted>>

\* The load or store; a fault of the handler's page is retried after it.
Access(t) ==
  LET p == PageOf(arg[t].addr) IN
  /\ pc[t] = "access"
  /\ IF page[p] = "file" /\ p \in broken
       THEN Goto(t, "sigbus") /\ UNCHANGED <<page, arg, under>>
       ELSE /\ EndAccess(t)
            /\ page' = IF page[p] = "zero" /\ arg[t].op = "write"
                         THEN [page EXCEPT ![p] = "written"] ELSE page
  /\ UNCHANGED <<ROOT, guard, state, broken, aborted>>

\* Taking the lock in the handler; without handler the signal kills.
handle_sigbus(t) ==
  /\ pc[t] = "sigbus"
  /\ IF ~installed THEN Abort("default action") /\ UNCHANGED map
     ELSE IF ~once THEN Abort("some other sigbus") /\ UNCHANGED map
     ELSE IF holder = t THEN Abort("recursive sigbus") /\ UNCHANGED map
     ELSE /\ holder = NoTid
          /\ holder' = t
          /\ Goto(t, "lookup")
          /\ UNCHANGED <<Once, clean, map, guard, state, pages, arg, under, aborted>>

\* mmap(MAP_FIXED) from the page of the fault to the end of the mapping.
Fixed(addr, start, len) ==
  LET fix_offset == PageStart(addr) - start
  IN  PagesOf(PageStart(addr), len - fix_offset)

\* The handler's stores into the State of the mapping, in their order.
NextStore == [lookup |-> "fix_addr", fix_addr |-> "err_addr",
              err_addr |-> "err", err |-> "done"]

Replace(t) ==
  LET found == lookup_addr(map, arg[t].addr) IN
  /\ pc[t] = "lookup"
  /\ IF found = {} THEN Abort("some other sigbus") /\ UNCHANGED map
     ELSE /\ \E s \in found : page' =
               [p \in Pages |->
                  IF p \in Fixed(arg[t].addr, s, map[s].len) THEN "zero" ELSE page[p]]
          /\ Goto(t, NextStore["lookup"])
          /\ UNCHANGED <<ROOT, guard, state, broken, arg, under, aborted>>

StoreState(t) ==
  LET addr  == arg[t].addr
      value == [fix_addr |-> PageStart(addr), err_addr |-> addr, err |-> TRUE]
  IN
  /\ pc[t] \in Stores
  /\ \E s \in lookup_addr(map, addr) :
       state' = [state EXCEPT ![map[s].owner][s][pc[t]] = value[pc[t]]]
  /\ Goto(t, NextStore[pc[t]])
  /\ UNCHANGED <<ROOT, guard, pages, arg, under, aborted>>

ReturnFromHandler(t) ==
  /\ pc[t] = "done"
  /\ holder' = NoTid
  /\ Goto(t, "access")
  /\ UNCHANGED <<Once, clean, map, guard, state, pages, arg, under, aborted>>

-----------------------------------------------------------------------------
(* The files, changed by anyone *)

\* The file of r is cut to some page, or a page of it cannot be read.
Truncate(r) ==
  /\ \E p \in RegionPages(r) : broken' = broken \cup {q \in RegionPages(r) : q >= p}
  /\ UNCHANGED <<ROOT, guard, state, page, pc, arg, under, aborted>>

IOError(r) ==
  /\ IOErrors
  /\ \E p \in RegionPages(r) : broken' = broken \cup {p}
  /\ UNCHANGED <<ROOT, guard, state, page, pc, arg, under, aborted>>

\* The file is whole again.
Lengthen(r) ==
  /\ broken' = broken \ RegionPages(r)
  /\ UNCHANGED <<ROOT, guard, state, page, pc, arg, under, aborted>>

-----------------------------------------------------------------------------

Step(t) ==
  \/ install_signal_handler(t) \/ FirstLook(t) \/ SecondLook(t) \/ CreateRoot(t)
  \/ SetFlag(t) \/ ReturnError(t) \/ with_root(t) \/ RefusePoisoned(t)
  \/ InsertMapping(t) \/ RefuseOverlap(t) \/ RemoveMapping(t) \/ Unlock(t)
  \/ Access(t) \/ handle_sigbus(t) \/ Replace(t) \/ StoreState(t) \/ ReturnFromHandler(t)

NewWork(t) == register_mmap(t) \/ DropGuard(t) \/ StartAccess(t)

Environment == \E r \in Regions : Truncate(r) \/ IOError(r) \/ Lengthen(r)

Next ==
  \/ \E t \in Threads : Step(t) \/ NewWork(t) \/ ClosurePanics(t)
                         \/ ProgramPanics(t) \/ Caught(t)
  \/ Environment

Spec == Init /\ [][Next]_vars

\* Threads are scheduled; the lock is only as fair as SignalLock, see AllEnd.
FairSpec == Spec /\ \A t \in Threads : WF_vars(Step(t))

-----------------------------------------------------------------------------
(* Properties *)

States == [err : BOOLEAN, err_addr : Addresses \cup {0}, fix_addr : Addresses \cup {0}]

TypeOK ==
  /\ {installed, once, written, clean} \subseteq BOOLEAN
  /\ holder \in Threads \cup {NoTid}
  /\ \A s \in DOMAIN map : \E r \in Regions :
       s = r.start /\ map[s] \in [len : {r.len}, owner : Threads]
  /\ guard \in [Threads -> SUBSET Regions]
  /\ state \in [Threads -> [Starts -> States]]
  /\ pc \in [Threads -> Points]
  /\ arg \in [Threads -> {<<>>} \cup Calls \cup Accesses]
  /\ under \in [Threads -> {<<>>} \cup [pc : InCall, arg : Calls]]
  /\ \A t \in Threads :
       /\ pc[t] \in InCall \cup {"error"} => arg[t] \in Calls
       /\ pc[t] \in {"access"} \cup InHandler => arg[t] \in Accesses
       /\ ~Ordinary(t) => pc[t] \in {"access", "dead"} \cup InHandler
  /\ page \in [Pages -> {"file", "zero", "written"}]
  /\ broken \subseteq Pages

InLock == {"body", "unlock", "poisoned"}

\* A closure has panicked and nothing runs under the lock that could clean up.
RootIsPoisoned == ~clean /\ \A t \in Threads : CallOf(t).pc \notin {"body", "unlock"}

\* An access to a mapping whose guard lives never kills the process, whatever
\* happens to the file: the handler is installed and ROOT initialised before
\* the guard exists, and the entry is found until nobody can fault any more.
\* The one exception is a handler of the program that interrupts with_root on
\* the thread that holds ROOT's lock, whose faults cannot be repaired.  Besides,
\* a panicking program dies when Guard::drop panics too, on a root that a
\* closure has left poisoned.
AccessesSurvive ==
  \/ aborted = "no"
  \/ /\ aborted = "recursive sigbus"
     /\ \E t \in Threads : ~Ordinary(t) /\ under[t].pc \in InLock
  \/ /\ aborted = "panic while unwinding"
     /\ Panics /\ RootIsPoisoned
     /\ \E t \in Threads : arg[t] \in Calls /\ arg[t].op = "unwind"

\* "root is initialized and there are no &mut concurrent accesses", and "ptr is
\* valid and uninitialized and there are no concurrent accesses yet": whoever
\* is past TryOnce has a ROOT that was written, and it is written only once.
RootIsSafe ==
  \A t \in Threads :
    /\ CallOf(t).pc = "create" => ~written /\ ~once
    /\ CallOf(t).pc \in InRoot \/ pc[t] \in InHandler => written /\ once

\* Thread t is going to remove the entry of r.
Dropping(t, r) ==
  /\ CallOf(t).pc \in {"init", "mutex", "lock", "body"}
  /\ CallOf(t).arg \in [op : Drops, region : {r}]

\* expect("addr in ROOT") and the assertion after it: the entry at a guard's
\* address is that guard's own, however registrations, drops, panics and
\* unwinding interleave.
GuardsOwnTheirEntries ==
  \A t \in Threads, r \in Regions :
    r \in guard[t] \/ Dropping(t, r) =>
      r.start \in DOMAIN map /\ map[r.start] = [len |-> r.len, owner |-> t]

\* What is_err, err_addr and fix_addr show: once err is set, both addresses are
\* those of pages of this mapping that have been replaced.  The handler stores
\* err last, and a later fault updates the addresses one by one.
ErrIsExplained ==
  \A t \in Threads : \A r \in guard[t] : state[t][r.start].err =>
    \A a \in {state[t][r.start].err_addr, state[t][r.start].fix_addr} :
      a \in Bytes(r.start, r.len) /\ page[PageOf(a)] # "file"

\* The handler's MAP_FIXED never reaches beyond the mapping that faulted: a
\* page changes to anonymous only by a fault in its own region, which has a
\* live guard ("without risk of unmapping unrelated mappings").
OnlyTheFaultingMapping ==
  [][\A r \in Regions :
       (\E p \in RegionPages(r) : page[p] = "file" /\ page'[p] # "file")
       => /\ \E t \in Threads : pc[t] = "lookup" /\ arg[t].region = r
          /\ \E t \in Threads : r \in guard[t]]_vars

\* "Root was poisoned": a closure that panics, before or after its change,
\* leaves the root poisoned, and from then on no thread, and no drop of an
\* unwinding thread, changes the map: a half-made update is not built upon.
PoisonIsFinal ==
  [][/\ \A t \in Threads : pc[t] = "body" /\ pc'[t] = "panicked" => RootIsPoisoned'
     /\ RootIsPoisoned => RootIsPoisoned' /\ map' = map]_vars

\* Once no call and no access starts any more, all of them end: a fault never
\* loops and nobody waits for ever for ROOT's lock.
AllEnd ==
  <>[][~ \E t \in Threads : NewWork(t)]_vars
    => <>[](\A t \in Threads : pc[t] \in {"idle", "panicked", "dead"})

\* "the anonymous pages will remain": what was written to one is not lost.
AnonymousPagesRemain ==
  [][\A p \in Pages : page[p] = "written" => page'[p] = "written"]_vars

-----------------------------------------------------------------------------
(* The inductive invariant *)

Looking == Stores \cup {"lookup", "done"}

\* A process ends as a whole.
DeadTogether == \A t \in Threads : pc[t] = "dead" <=> aborted # "no"

\* ROOT's lock is held by with_root, which has poisoned the root or found it
\* poisoned, or by a handler; never by both, not even on one thread.
LockIsHeld ==
  \A t \in Threads :
    /\ CallOf(t).pc \in InLock => holder = t /\ ~clean /\ pc[t] \notin Looking
    /\ pc[t] \in Looking => holder = t
    /\ holder = t => CallOf(t).pc \in InLock \/ pc[t] \in Looking \cup {"dead"}

\* At most one thread is about to create ROOT or to set the flag; until then
\* nobody is past TryOnce, nothing is registered and no closure has run.
OnceIsInOrder ==
  /\ once => written
  /\ ~clean => written
  /\ DOMAIN map # {} => once /\ installed
  /\ written /\ ~once /\ aborted = "no" => \E t \in Threads : CallOf(t).pc = "flag"
  /\ \A t \in Threads :
       /\ CallOf(t).pc = "create" => ~written
       /\ CallOf(t).pc \in InOnce =>
            ~once /\ \A u \in Threads \ {t} : CallOf(u).pc \notin InOnce
       /\ CallOf(t).pc = "flag" => written
       /\ CallOf(t).pc \in InRoot => once
       /\ CallOf(t).pc \in InCall \ {"install"} => installed

\* Who is dropping a Guard has none of that mapping; only registrations install
\* the handler and create ROOT.
DropsAreInOrder ==
  \A t \in Threads :
    /\ \A r \in Regions : Dropping(t, r) => r \notin guard[t]
    /\ CallOf(t).pc \in {"install"} \cup InOnce => CallOf(t).arg.op = "register"

\* What is accessed lies in a mapping whose guard lives.
AccessesAreGuarded ==
  \A t \in Threads : pc[t] \in {"access"} \cup InHandler =>
    /\ arg[t].addr \in Bytes(arg[t].region.start, arg[t].region.len)
    /\ \E u \in Threads : arg[t].region \in guard[u]

\* An address in r whose page has been replaced.
Replaced(r, addr) == addr \in Bytes(r.start, r.len) /\ page[PageOf(addr)] # "file"

\* The addresses of a State were stored for the mapping r, and err after them.
Explains(r, s) ==
  /\ \A a \in {s.err_addr, s.fix_addr} : a = 0 \/ Replaced(r, a)
  /\ s.err => 0 \notin {s.err_addr, s.fix_addr}

\* What the store that t is about to make, into the State of its mapping, needs.
StoreFollows(t, s) ==
  /\ pc[t] # "fix_addr" => s.fix_addr # 0
  /\ pc[t] = "err" => s.err_addr # 0

\* The handler replaces, then stores fix_addr, err_addr and err; each address
\* in a State was stored for the mapping of that State.
StoresAreInOrder ==
  /\ \A t \in Threads : \A r \in guard[t] : Explains(r, state[t][r.start])
  /\ \A t \in Threads : pc[t] \in Stores =>
       /\ Replaced(arg[t].region, arg[t].addr)
       /\ \A u \in Threads : arg[t].region \in guard[u] =>
            StoreFollows(t, state[u][arg[t].region.start])

\* Without panics nobody unwinds, and no root is poisoned.
PanicsAreMeant ==
  /\ RootIsPoisoned => Panics
  /\ \A t \in Threads :
       /\ pc[t] = "panicked" => Panics
       /\ CallOf(t).pc \in InCall \cup {"error"} /\ CallOf(t).arg.op = "unwind" => Panics

IInv ==
  /\ TypeOK /\ DeadTogether /\ AccessesSurvive /\ LockIsHeld /\ OnceIsInOrder
  /\ DropsAreInOrder /\ GuardsOwnTheirEntries /\ AccessesAreGuarded
  /\ StoresAreInOrder /\ PanicsAreMeant

=============================================================================
