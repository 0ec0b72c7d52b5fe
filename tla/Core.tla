-------------------------------- MODULE Core --------------------------------
(***************************************************************************)
(* The core of the Metamod plugin, metamod_plugin/src/core/type.cxx: the   *)
(* list of injected modules, the container and the bindings that exist     *)
(* while the core is loaded (they come and go together and are one flag    *)
(* here), the modules that are loaded, and the calls inject, load, unload  *)
(* and invalidate.                                                         *)
(*                                                                         *)
(* load runs a loader of each module; one that is a coroutine may still be *)
(* pending when it returns, and has until the last loader has returned to  *)
(* finish.  Loaders, unloaders, coroutines being stopped and handlers of   *)
(* the container are code of the modules, and any of them may call the     *)
(* core again, so the calls form a stack.                                  *)
(*                                                                         *)
(* A definition marked as a slip is a plausible mistake in the definition  *)
(* after it.  No action uses it: it replaces that definition when the      *)
(* properties are tested for being able to fail.                           *)
(***************************************************************************)
EXTENDS Sequences, Naturals

CONSTANTS
    MaxModules, \* bound on the modules ever injected
    MaxDepth,   \* calls of load and unload inside one another; 1 when the
                \* modules never make one from a callback
    Cascade     \* stopping the coroutine of one loader may let another finish

ASSUME ModulesAssumption == MaxModules \in Nat
ASSUME DepthAssumption == MaxDepth \in Nat
ASSUME CascadeAssumption == Cascade \in BOOLEAN

VARIABLES
    bad,        \* bad_
    lock,       \* lock_
    container,  \* container_ and bindings_ hold something
    injected,   \* number of modules in injected_
    loaded,     \* loaded_, modules by their place in injected_
    calls       \* calls of load and unload on the stack, the innermost first

vars == <<bad, lock, container, injected, loaded, calls>>

Modules == 1..MaxModules

(* A call: what it is, where it stands, and its locals.  A load has called *)
(* the loaders up to next; tasks says what became of each; loaded is its   *)
(* own list, from which both kinds of call unload.                         *)
Call(kind, modules) ==
    [ op |-> kind,
      at |-> IF kind = "load" THEN "loop" ELSE "walk",
      next |-> 1,
      last |-> IF kind = "load" THEN injected ELSE 0,
      tasks |-> [m \in Modules |-> "queued"],
      loaded |-> modules,
      walked |-> modules # <<>>,
      failed |-> FALSE ]

\* How the loader of a module returns: with nothing left to wait for, with a
\* coroutine that it has started, or with an exception.
Outcomes == {"loaded", "pending", "throws"}

\* Where a call waits for code of a module.
Callbacks == {"loader", "unwinding", "unloader", "teardown"}

Within == Len(calls) > 0
Here == Head(calls)
At(where) == Within /\ Here.at = where
UserRuns == IF Within THEN Here.at \in Callbacks ELSE TRUE

\* The innermost call becomes c; the innermost call returns.
Continue(c) == calls' = <<c>> \o Tail(calls)
Return == calls' = Tail(calls)

\* ScopedLock: the constructor tests the flag, the destructor clears it.
\* Neither sets it.
Acquire == ~lock /\ UNCHANGED lock
Release == lock' = FALSE

Init ==
    /\ bad = FALSE
    /\ lock = FALSE
    /\ container = FALSE
    /\ injected = 0
    /\ loaded = <<>>
    /\ calls = <<>>

----------------------------------------------------------------------------
(* What the features of the plugin, its modules and Metamod may call.  A    *)
(* call that is refused throws and changes nothing.                         *)

Inject ==
    /\ UserRuns
    /\ ~bad
    /\ ~container
    /\ injected < MaxModules
    /\ ~lock /\ Release
    /\ injected' = injected + 1
    /\ UNCHANGED <<bad, container, loaded, calls>>

\* Slip: the modules go at once, whoever is using them.
InvalidateAtOnce ==
    /\ UserRuns
    /\ ~bad
    /\ bad' = TRUE
    /\ injected' = 0
    /\ UNCHANGED <<lock, container, loaded, calls>>

Invalidate ==
    /\ UserRuns
    /\ ~bad
    /\ bad' = TRUE
    /\ injected' = IF lock \/ container THEN injected ELSE 0
    /\ UNCHANGED <<lock, container, loaded, calls>>

Load ==
    /\ UserRuns
    /\ Len(calls) < MaxDepth
    /\ ~bad
    /\ ~container
    /\ Acquire
    /\ container' = TRUE
    /\ calls' = <<Call("load", <<>>)>> \o calls
    /\ UNCHANGED <<bad, injected, loaded>>

Unload ==
    /\ UserRuns
    /\ Len(calls) < MaxDepth
    /\ container
    /\ Acquire
    /\ loaded' = <<>>
    /\ calls' = <<Call("unload", loaded)>> \o calls
    /\ UNCHANGED <<bad, container, injected>>

----------------------------------------------------------------------------
(* load.                                                                    *)

CallLoader ==
    /\ At("loop")
    /\ Here.next <= Here.last
    /\ Continue([Here EXCEPT !.at = "loader"])
    /\ UNCHANGED <<bad, lock, container, injected, loaded>>

\* The loader of a module returns.  It is done, or it has started a coroutine
\* that waits, or it failed: the exception leaves the loop.
LoaderReturns(outcome) ==
    /\ At("loader")
    /\ Continue([Here EXCEPT
         !.at = IF outcome = "throws" THEN "stopping" ELSE "loop",
         !.next = @ + 1,
         !.tasks[Here.next] = outcome,
         !.loaded = IF outcome = "loaded" THEN <<Here.next>> \o @ ELSE @])
    /\ UNCHANGED <<bad, lock, container, injected, loaded>>

\* Slip: a loader that finishes late is moved to the end of the list.
TaskEndsLast(k, m, outcome) ==
    /\ UserRuns
    /\ calls[k].tasks[m] = "pending"
    /\ outcome = "loaded" => calls[k].at # "unwinding"
    /\ calls' = [calls EXCEPT
         ![k].tasks[m] = outcome,
         ![k].loaded = IF outcome = "loaded" THEN @ \o <<m>> ELSE @]
    /\ UNCHANGED <<bad, lock, container, injected, loaded>>

\* A pending loader of the k-th call finishes, fails or is cancelled while code
\* of some module runs.  One that finishes is moved, by the handler pinned on
\* its future, from the queue of the loop to the list.  Once load has left the
\* loop by an exception that queue is gone: what becomes of the list is open.
TaskEnds(k, m, outcome) ==
    /\ UserRuns
    /\ calls[k].tasks[m] = "pending"
    /\ IF outcome = "loaded" /\ calls[k].at = "unwinding"
       THEN /\ Cascade
            /\ \E list \in {calls[k].loaded, <<m>> \o calls[k].loaded} :
                 calls' = [calls EXCEPT ![k].tasks[m] = "dangling",
                                        ![k].loaded = list]
       ELSE calls' = [calls EXCEPT
              ![k].tasks[m] = outcome,
              ![k].loaded = IF outcome = "loaded" THEN <<m>> \o @ ELSE @]
    /\ UNCHANGED <<bad, lock, container, injected, loaded>>

AllFinished(c) == \A m \in 1..c.last : c.tasks[m] = "loaded"

\* Slip: a loader that is still pending does not count as stuck.
LoadSucceedsStuck ==
    /\ At("loop")
    /\ Here.next > Here.last
    /\ \A m \in 1..Here.last : Here.tasks[m] \in {"loaded", "pending"}
    /\ loaded' = Here.loaded
    /\ Return
    /\ Release
    /\ UNCHANGED <<bad, container, injected>>

LoadSucceeds ==
    /\ At("loop")
    /\ Here.next > Here.last
    /\ AllFinished(Here)
    /\ loaded' = Here.loaded
    /\ Return
    /\ Release
    /\ UNCHANGED <<bad, container, injected>>

\* Slip: a loader that is still pending keeps load waiting.
LoadFailsUnlessStuck ==
    /\ At("loop")
    /\ Here.next > Here.last
    /\ \E m \in 1..Here.last : Here.tasks[m] \in {"failed", "cancelled"}
    /\ Continue([Here EXCEPT !.at = "stopping"])
    /\ UNCHANGED <<bad, lock, container, injected, loaded>>

\* Some loader is stuck, has failed or was cancelled: load throws.
LoadFails ==
    /\ At("loop")
    /\ Here.next > Here.last
    /\ ~AllFinished(Here)
    /\ Continue([Here EXCEPT !.at = "stopping"])
    /\ UNCHANGED <<bad, lock, container, injected, loaded>>

IsPending(m) == Here.tasks[m] = "pending"

\* The pending loaders are stopped in turn, and unwind.
StopTask ==
    /\ At("stopping")
    /\ \E m \in Modules :
         /\ IsPending(m)
         /\ \A t \in 1..(m - 1) : ~IsPending(t)
         /\ Continue([Here EXCEPT !.at = "unwinding", !.tasks[m] = "cancelled"])
    /\ UNCHANGED <<bad, lock, container, injected, loaded>>

UnwindingEnds ==
    /\ At("unwinding")
    /\ Continue([Here EXCEPT !.at = "stopping"])
    /\ UNCHANGED <<bad, lock, container, injected, loaded>>

AllStopped ==
    /\ At("stopping")
    /\ \A m \in Modules : ~IsPending(m)
    /\ Continue([Here EXCEPT !.at = "walk"])
    /\ UNCHANGED <<bad, lock, container, injected, loaded>>

----------------------------------------------------------------------------
(* Unloading, at the end of unload and of a load that failed.  A module     *)
(* without an unloader is one whose unloader does nothing.                  *)

CallUnloader ==
    /\ At("walk")
    /\ Here.loaded # <<>>
    /\ Continue([Here EXCEPT !.at = "unloader"])
    /\ UNCHANGED <<bad, lock, container, injected, loaded>>

\* An unloader that throws makes the core bad, and the others still run.
UnloaderReturns(throws) ==
    /\ At("unloader")
    /\ bad' = (bad \/ (throws /\ Here.op = "load"))
    /\ Continue([Here EXCEPT !.at = "walk",
                             !.loaded = Tail(@),
                             !.failed = @ \/ throws])
    /\ UNCHANGED <<lock, container, injected, loaded>>

\* unload assigns bad_, when it had anything to unload.  Then, in both, the
\* bindings and the container go; the container calls its handlers last.
TearDown ==
    /\ At("walk")
    /\ Here.loaded = <<>>
    /\ bad' = IF Here.op = "unload" /\ Here.walked THEN Here.failed ELSE bad
    /\ container' = FALSE
    /\ Continue([Here EXCEPT !.at = "teardown"])
    /\ UNCHANGED <<lock, injected, loaded>>

TeardownEnds ==
    /\ At("teardown")
    /\ injected' = IF bad THEN 0 ELSE injected
    /\ Return
    /\ Release
    /\ UNCHANGED <<bad, container, loaded>>

Client == Inject \/ Invalidate \/ Load \/ Unload

Library ==
    \/ CallLoader \/ LoadSucceeds \/ LoadFails
    \/ StopTask \/ AllStopped
    \/ CallUnloader \/ TearDown

\* Code of a module that the core called returns, or ends a pending loader.
Callback ==
    \/ \E o \in Outcomes : LoaderReturns(o)
    \/ UnwindingEnds
    \/ \E throws \in BOOLEAN : UnloaderReturns(throws)
    \/ TeardownEnds

Completion ==
    \E k \in 1..Len(calls), m \in Modules,
       o \in {"loaded", "failed", "cancelled"} : TaskEnds(k, m, o)

\* A bad core that is down refuses every call for ever.
Refusing == bad /\ ~container /\ ~Within /\ UNCHANGED vars

Next == Client \/ Library \/ Callback \/ Completion \/ Refusing

Spec == Init /\ [][Next]_vars

(* The core's own code runs on and the code it calls returns.  Nothing      *)
(* makes a loader that waits ever finish.                                   *)
Fairness == WF_vars(Library) /\ WF_vars(Callback)

FairSpec == Spec /\ Fairness

----------------------------------------------------------------------------
(* Properties.                                                              *)

\* Types of the core's fields and of the calls on the stack.
TypeOK ==
    /\ bad \in BOOLEAN
    /\ lock \in BOOLEAN
    /\ container \in BOOLEAN
    /\ injected \in 0..MaxModules
    /\ loaded \in Seq(Modules) /\ Len(loaded) <= MaxModules
    /\ Len(calls) <= MaxDepth
    /\ \A k \in 1..Len(calls) :
         /\ calls[k].op \in {"load", "unload"}
         /\ calls[k].at \in Callbacks \cup {"loop", "stopping", "walk"}
         /\ calls[k].next \in 1..(MaxModules + 1)
         /\ calls[k].last \in 0..MaxModules
         /\ calls[k].loaded \in Seq(Modules)
         /\ Len(calls[k].loaded) <= MaxModules

\* Whatever load and unload still have to call exists: no module they point to
\* is erased from the injected list before they are done with it.
ModulesExist ==
    /\ \A i \in DOMAIN loaded : loaded[i] <= injected
    /\ \A k \in 1..Len(calls) :
         /\ \A i \in DOMAIN calls[k].loaded : calls[k].loaded[i] <= injected
         /\ calls[k].at \in {"loop", "loader"} => calls[k].last <= injected

\* Between two calls the core is up with every injected module loaded, each of
\* them once, or down with none; a bad one that is down has let them all go.
AllOrNothing ==
    ~Within =>
        IF container
        THEN /\ Len(loaded) = injected
             /\ \A m \in 1..injected : \E i \in DOMAIN loaded : loaded[i] = m
        ELSE /\ loaded = <<>>
             /\ bad => injected = 0

\* load and unload implement the promise of the core to its modules: all of
\* them or none, and the last one loaded is the first one unloaded.
Mode ==
    IF ~Within THEN (IF container THEN "up" ELSE "down")
    ELSE IF Here.at \in {"loop", "loader"} THEN "raising" ELSE "lowering"

Promise == INSTANCE AbstractCore WITH
    mode <- Mode,
    up <- IF Within THEN Here.loaded ELSE loaded

ImplementsPromise == Promise!Spec

\* Every call returns: a loader that waits for something nobody does is found
\* out and stopped, and no exception keeps the core from coming down.
CallsReturn == Within ~> ~Within

\* load, unload and inject do not run inside one another: that is the error
\* "bad core state: locked".
NeverReentered == Len(calls) <= 1

\* A core that was found bad stays bad: inject and load refuse it from then on.
InvalidationSticks == [][bad => bad']_bad

\* A handler only moves its module out of a queue that still exists.
QueueOutlivesHandlers ==
    \A k \in 1..Len(calls), m \in Modules : calls[k].tasks[m] # "dangling"
=============================================================================
