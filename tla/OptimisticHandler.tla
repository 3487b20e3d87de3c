--------------------------- MODULE OptimisticHandler ---------------------------
(***************************************************************************)
(* The pattern that signal_lock is made for                                *)
(* (signal_lock/examples/optimistic_handler.rs): a signal handler takes    *)
(* the lock and acts, or is told Recursive and defers to the code that it  *)
(* interrupted, which looks at SIGNAL_DEFERRED after its critical section. *)
(*                                                                         *)
(* The program runs on any lock that keeps the promises of SignalLock:     *)
(* what a frame does with the lock are SignalLock's own actions.  Any      *)
(* number of threads runs normal_code.                                     *)
(***************************************************************************)
EXTENDS SignalLock

\* The signal is blocked while its handler runs (no SA_NODEFER).
ASSUME HandlerIsNotNested == MaxDepth = 1

VARIABLES
  SIGNAL_DEFERRED,
  at,     \* at[t][d]: where frame d of thread t is
  owed    \* history: a signal was deferred, and nobody did the thing since

lockVars == <<depth, call, kept>>
programVars == <<SIGNAL_DEFERRED, at, owed>>

(***************************************************************************)
(* normal_code: "outside", "section" (locking and in the critical          *)
(* section), "check" (the swap of SIGNAL_DEFERRED), "thing" (locking again *)
(* and before do_the_thing), "did", "panicked" at an unwrap.               *)
(* signal_handler: "handler" (locking and before do_the_thing), "did",     *)
(* "defer" before the store, "return".                                     *)
(***************************************************************************)
Places == {"outside", "section", "check", "thing", "did", "panicked",
           "handler", "defer", "return"}

Running(t) == at[t][depth[t]]
Goto(t, place) == at' = [at EXCEPT ![t][depth[t]] = place]

ProgramInit ==
  /\ Init
  /\ SIGNAL_DEFERRED = FALSE
  /\ at = [t \in Threads |-> [d \in Frames |-> "outside"]]
  /\ owed = FALSE

-----------------------------------------------------------------------------
(* Faulty variants of the operations below, as in FutexLock. *)

\* "if" in place of "while": looks once.
AfterUnlock_Once(place) == IF place = "section" THEN "check" ELSE "outside"

\* After each of its critical sections ordinary code looks for deferred signals.
AfterUnlock(place) == "check"

\* The handler returns without having dropped its guard.
unlock_NotInHandler(t) ==
  /\ Running(t) \in {"section", "did"}
  /\ IF depth[t] = 0 THEN Release(t) /\ Goto(t, AfterUnlock(Running(t)))
     ELSE /\ Becomes(t, "idle") /\ kept' = [kept EXCEPT ![t] = TRUE]
          /\ Goto(t, "return") /\ UNCHANGED depth
  /\ UNCHANGED <<SIGNAL_DEFERRED, owed>>

\* Registered with SA_NODEFER: the handler may be interrupted by itself.
signal_handler_Nodefer(t) ==
  /\ depth' = [depth EXCEPT ![t] = @ + 1]
  /\ at' = [at EXCEPT ![t][depth[t] + 1] = "handler"]
  /\ UNCHANGED <<call, kept, SIGNAL_DEFERRED, owed>>

\* Resets the flag whether or not somebody else's signal has set it.
defer_Toggle(t) ==
  /\ Running(t) = "defer"
  /\ SIGNAL_DEFERRED' = ~SIGNAL_DEFERRED /\ owed' = TRUE
  /\ Goto(t, "return")
  /\ UNCHANGED lockVars

-----------------------------------------------------------------------------
(* The lock *)

lock(t) ==
  /\ Running(t) \in {"section", "thing", "handler"}
  /\ Wait(t) \/ Acquire(t) \/ Refuse(t)
  /\ UNCHANGED programVars

\* Err(Recursive): the handler defers, ordinary code unwraps.
Recursive(t) ==
  /\ ReturnRecursive(t)
  /\ Goto(t, IF Running(t) = "handler" THEN "defer" ELSE "panicked")
  /\ UNCHANGED <<SIGNAL_DEFERRED, owed>>

unlock(t) ==
  /\ Running(t) \in {"section", "did"}
  /\ Release(t)
  /\ Goto(t, IF depth[t] = 0 THEN AfterUnlock(Running(t)) ELSE "return")
  /\ UNCHANGED <<SIGNAL_DEFERRED, owed>>

-----------------------------------------------------------------------------
(* The program *)

normal_code(t) ==
  /\ depth[t] = 0 /\ Running(t) = "outside"
  /\ Goto(t, "section")
  /\ UNCHANGED <<lockVars, SIGNAL_DEFERRED, owed>>

do_the_thing(t) ==
  /\ Top(t) = "holding" /\ Running(t) \in {"thing", "handler"}
  /\ owed' = FALSE
  /\ Goto(t, "did")
  /\ UNCHANGED <<lockVars, SIGNAL_DEFERRED>>

\* while SIGNAL_DEFERRED.swap(false)
CheckDeferred(t) ==
  /\ Running(t) = "check"
  /\ SIGNAL_DEFERRED' = FALSE
  /\ Goto(t, IF SIGNAL_DEFERRED THEN "thing" ELSE "outside")
  /\ UNCHANGED <<lockVars, owed>>

defer(t) ==
  /\ Running(t) = "defer"
  /\ SIGNAL_DEFERRED' = TRUE /\ owed' = TRUE
  /\ Goto(t, "return")
  /\ UNCHANGED lockVars

signal_handler(t) ==
  /\ Running(t) # "panicked"
  /\ Signal(t)
  /\ at' = [at EXCEPT ![t][depth[t] + 1] = "handler"]
  /\ UNCHANGED <<SIGNAL_DEFERRED, owed>>

signal_return(t) ==
  /\ Running(t) = "return"
  /\ HandlerReturn(t)
  /\ Goto(t, "outside")
  /\ UNCHANGED <<SIGNAL_DEFERRED, owed>>

-----------------------------------------------------------------------------

ProgramStep(t) ==
  \/ lock(t) \/ Recursive(t) \/ unlock(t) \/ do_the_thing(t) \/ CheckDeferred(t)
  \/ defer(t) \/ signal_return(t)

NewWork(t) == normal_code(t) \/ signal_handler(t)

ProgramNext == \E t \in Threads : ProgramStep(t) \/ NewWork(t)

programAndLock == <<lockVars, programVars>>

\* Threads are scheduled, and so are their handlers; the lock is unfair.
FairProgram ==
  /\ ProgramInit /\ [][ProgramNext]_programAndLock
  /\ \A t \in Threads : WF_programAndLock(ProgramStep(t))

-----------------------------------------------------------------------------
(* Properties *)

TypeOK ==
  /\ depth \in [Threads -> Frames] /\ kept \in [Threads -> BOOLEAN]
  /\ call \in [Threads -> [Frames -> {"idle", "locking", "refused", "holding"}]]
  /\ at \in [Threads -> [Frames -> Places]]
  /\ SIGNAL_DEFERRED \in BOOLEAN /\ owed \in BOOLEAN

\* "Tell our thread to do it as soon as it unlocks": a deferred signal is
\* always somebody's to act on.  The flag is set and some thread has yet to
\* look at it after its critical section, or a thread that has cleared it has
\* yet to do the thing; never is a new deferral cleared with an older one.
NoSignalForgotten ==
  owed =>
    \/ SIGNAL_DEFERRED /\ \E t \in Threads : at[t][0] \in {"section", "thing", "did", "check"}
    \/ \E t \in Threads : at[t][0] = "thing"

\* The unwraps in normal_code: ordinary code is never told Recursive, by its
\* own handlers or by itself.
OrdinaryCodeIsNotRefused == \A t \in Threads : at[t][0] # "panicked"

\* Once no signal arrives and no thread enters normal_code any more, every
\* deferred signal has been acted on and every thread is outside.
AllHandled ==
  <>[][~ \E t \in Threads : NewWork(t)]_programAndLock
    => <>[](~owed /\ \A t \in Threads : depth[t] = 0 /\ Running(t) = "outside")

-----------------------------------------------------------------------------
(* The inductive invariant *)

\* normal_code runs in frame 0 and the handler in frame 1, with no call left
\* open once it has returned.
FramesOfThread ==
  \A t \in Threads :
    /\ ~kept[t]
    /\ at[t][0] \in {"outside", "section", "check", "thing", "did"}
    /\ at[t][1] \in {"outside", "handler", "did", "defer", "return"}
    /\ depth[t] = 0 => call[t][1] = "idle" /\ at[t][1] = "outside"

\* A handler that is refused has interrupted the critical section of its own
\* thread, which it leaves only after the handler; and only a handler is.
RefusedBySection ==
  \A t \in Threads :
    /\ call[t][0] # "refused"
    /\ call[t][0] = "holding" => at[t][0] \in {"section", "thing", "did"}
    /\ call[t][1] = "refused" => at[t][1] = "handler"
    /\ call[t][1] = "refused" \/ at[t][1] = "defer" => call[t][0] = "holding"

IInv ==
  /\ TypeOK
  /\ FramesOfThread
  /\ RefusedBySection
  /\ NoSignalForgotten

=============================================================================
