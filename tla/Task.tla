-------------------------------- MODULE Task --------------------------------
(***************************************************************************)
(* The coroutine task of library/include/p5/lambda/utils/async/task: its   *)
(* promise (phase, suspended flag, reference count and the future of its   *)
(* result), the Task handles that share it, the child coroutine that       *)
(* await_transform wraps round every co_await of the body, and the futures *)
(* the body awaits.                                                        *)
(*                                                                         *)
(* One thread runs it all, and everything re-enters: settling a future     *)
(* calls its handlers, a handler resumes the body, the body starts, stops, *)
(* copies or drops the task and settles further futures.  The control      *)
(* stack is therefore explicit: what each call on it still has to do is    *)
(* the name it carries there.  Futures keep the contract of module         *)
(* AbstractFuture: a settled one calls each handler that is not withdrawn  *)
(* before its turn, once.                                                  *)
(*                                                                         *)
(* A definition marked as a slip is a plausible mistake in the definition  *)
(* after it.  No action uses it: it replaces that definition when the      *)
(* properties are tested for being able to fail.                           *)
(***************************************************************************)
EXTENDS Naturals

CONSTANTS
    Futures,    \* the futures the body may await
    Result,     \* the future of the task's own result
    MaxHandles, \* bound on the Task objects that share the coroutine
    MaxDepth    \* bound on the control stack

ASSUME HandlesAssumption == MaxHandles \in Nat \ {0}
ASSUME DepthAssumption == MaxDepth \in Nat

VARIABLES
    alive,      \* the coroutine frame, with the promise in it, exists
    phase,      \* state_.phase
    suspended,  \* state_.suspended
    references, \* state_.references
    handles,    \* Task objects whose coroutine_ is not null
    result,     \* how the promise's future is settled, "none" before
    child,      \* what the child coroutine waits for: a future, Never or None
    settled,    \* the awaited futures that are settled
    waiting,    \* waiting[f]: the handlers future f still has to call
    depth,      \* height of the control stack
    stack       \* stack[k]: what the k-th call on it is doing

CONSTANTS
    Never,      \* the child waits for something nobody will resume
    None        \* there is no child, or no call

\* The names of the futures are told from each other and from the rest.
ASSUME FuturesAssumption ==
    /\ Result \notin Futures
    /\ Never # None
    /\ \A x \in {Never, None} : x \notin Futures \cup {Result}
    /\ \A x \in Futures \cup {Result, Never, None} :
         x \notin {"body", "finish", "unlink", "watcher"}

promise == <<phase, suspended, references, result>>
control == <<depth, stack>>
vars == <<alive, promise, handles, child, settled, waiting, control>>

Levels == 1..MaxDepth
AllFutures == Futures \cup {Result}
Handlers == {"promise", "child", "watch"}
Calls == {"body", "finish", "unlink", "watcher"} \cup AllFutures

Top == IF depth = 0 THEN None ELSE stack[depth]

\* User code runs outside every call, in the body, or in a handler of its own.
UserRuns == Top \in {None, "body", "watcher"}

Push(c) ==
    /\ depth < MaxDepth
    /\ depth' = depth + 1
    /\ stack' = [stack EXCEPT ![depth + 1] = c]

\* Calls c, and d from it.
PushBoth(c, d) ==
    /\ depth + 1 < MaxDepth
    /\ depth' = depth + 2
    /\ stack' = [stack EXCEPT ![depth + 1] = c, ![depth + 2] = d]

Pop ==
    /\ depth' = depth - 1
    /\ stack' = [stack EXCEPT ![depth] = None]

\* The body is over and its promise goes on with the final suspension.
Finish ==
    /\ stack' = [stack EXCEPT ![depth] = "finish"]
    /\ UNCHANGED depth

\* As Finish, once the handlers of the result have been called.
FinishAfterNotifying ==
    /\ depth < MaxDepth
    /\ depth' = depth + 1
    /\ stack' = [stack EXCEPT ![depth] = "finish", ![depth + 1] = Result]

\* The coroutine has been created and wrapped in its first Task: initial_suspend
\* has suspended it, and the promise's own handler is pinned on its future.
Init ==
    /\ alive = TRUE
    /\ phase = "Initial"
    /\ suspended = TRUE
    /\ references = 1
    /\ handles = 1
    /\ result = "none"
    /\ child = None
    /\ settled = {}
    /\ waiting = [f \in AllFutures |-> IF f = Result THEN {"promise"} ELSE {}]
    /\ depth = 0
    /\ stack = [k \in Levels |-> None]

----------------------------------------------------------------------------
(* What user code may call.                                                 *)

\* Task::start, up to the body: await_resume of the initial suspension.
Start ==
    /\ UserRuns
    /\ handles > 0
    /\ suspended
    /\ phase = "Initial"
    /\ result = "none"
    /\ suspended' = FALSE
    /\ phase' = "Started"
    /\ Push("body")
    /\ UNCHANGED <<alive, references, handles, result, child, settled, waiting>>

\* Task::stop, or cancel through any front of the task's future.
Stop ==
    /\ UserRuns
    /\ alive
    /\ result = "none"
    /\ result' = "cancelled"
    /\ Push(Result)
    /\ UNCHANGED <<alive, phase, suspended, references, handles, child, settled, waiting>>

\* The copy constructor.
Copy ==
    /\ UserRuns
    /\ handles \in 1..(MaxHandles - 1)
    /\ handles' = handles + 1
    /\ references' = references + 1
    /\ UNCHANGED <<alive, phase, suspended, result, child, settled, waiting, control>>

\* Slip: the last handle drops its reference before it cancels.
UnlinkCountsFirst ==
    /\ UserRuns
    /\ handles > 0
    /\ handles' = handles - 1
    /\ references' = references - 1
    /\ IF references > 1
       THEN UNCHANGED <<result, control>>
       ELSE IF result = "none"
       THEN result' = "cancelled" /\ PushBoth("unlink", Result)
       ELSE Push("unlink") /\ UNCHANGED result
    /\ UNCHANGED <<alive, phase, suspended, child, settled, waiting>>

\* Task::unlink, which the destructor and both assignments call.  The last
\* handle cancels the future and looks at the promise again afterwards.
Unlink ==
    /\ UserRuns
    /\ handles > 0
    /\ handles' = handles - 1
    /\ IF references > 1
       THEN references' = references - 1 /\ UNCHANGED <<result, control>>
       ELSE /\ UNCHANGED references
            /\ IF result = "none"
               THEN result' = "cancelled" /\ PushBoth("unlink", Result)
               ELSE Push("unlink") /\ UNCHANGED result
    /\ UNCHANGED <<alive, phase, suspended, child, settled, waiting>>

\* Somebody subscribes to a future, and somebody withdraws that subscription.
Watch(f) ==
    /\ UserRuns
    /\ IF f = Result THEN alive /\ result = "none" ELSE f \notin settled
    /\ waiting' = [waiting EXCEPT ![f] = @ \cup {"watch"}]
    /\ UNCHANGED <<alive, promise, handles, child, settled, control>>

Unwatch(f) ==
    /\ UserRuns
    /\ "watch" \in waiting[f]
    /\ waiting' = [waiting EXCEPT ![f] = @ \ {"watch"}]
    /\ UNCHANGED <<alive, promise, handles, child, settled, control>>

\* The owner of an awaited future sets, fails, cancels or drops it.
Settle(f) ==
    /\ UserRuns
    /\ f \in Futures \ settled
    /\ settled' = settled \cup {f}
    /\ Push(f)
    /\ UNCHANGED <<alive, promise, handles, child, waiting>>

----------------------------------------------------------------------------
(* The coroutine.                                                           *)

\* Destroying the frame, or leaving a co_await by an exception, destroys the
\* child coroutine; its awaiter withdraws its subscription.
WithoutChild == [f \in AllFutures |-> waiting[f] \ {"child"}]

\* Slip: the child subscribes without asking whether f is settled.
AwaitLate(f) ==
    /\ Top = "body"
    /\ phase = "Started" /\ result = "none" /\ references > 0
    /\ suspended' = TRUE
    /\ child' = f
    /\ waiting' = [waiting EXCEPT ![f] = @ \cup {"child"}]
    /\ Pop
    /\ UNCHANGED <<alive, phase, references, handles, result, settled>>

\* co_await f in the body, f not settled: await_suspend of the wrapper lets the
\* child run, which subscribes.  Awaiting a settled future comes back at once;
\* a cancelled task and one without handles throw before they suspend.
Await(f) ==
    /\ Top = "body"
    /\ phase = "Started" /\ result = "none" /\ references > 0
    /\ f \notin settled
    /\ suspended' = TRUE
    /\ child' = f
    /\ waiting' = [waiting EXCEPT ![f] = @ \cup {"child"}]
    /\ Pop
    /\ UNCHANGED <<alive, phase, references, handles, result, settled>>

\* Slip: a task that was stopped while it ran may still suspend.
AwaitUnchecked ==
    /\ Top = "body"
    /\ phase = "Started" /\ references > 0
    /\ suspended' = TRUE
    /\ child' = Never
    /\ Pop
    /\ UNCHANGED <<alive, phase, references, handles, result, settled, waiting>>

\* co_await suspend_always: only stopping the task resumes it.
AwaitNever ==
    /\ Top = "body"
    /\ phase = "Started" /\ result = "none" /\ references > 0
    /\ suspended' = TRUE
    /\ child' = Never
    /\ Pop
    /\ UNCHANGED <<alive, phase, references, handles, result, settled, waiting>>

\* Slip: the future is set although it was cancelled while the body ran.
BodyEndsAnyway(outcome) ==
    /\ Top = "body"
    /\ result' = outcome
    /\ FinishAfterNotifying
    /\ UNCHANGED <<alive, phase, suspended, references, handles, child, settled, waiting>>

\* co_return, or an exception that leaves the body.  return_value sets the
\* future and unhandled_exception fails it; if it is cancelled, both leave it.
BodyEnds(outcome) ==
    /\ Top = "body"
    /\ IF result = "none"
       THEN result' = outcome /\ FinishAfterNotifying
       ELSE Finish /\ UNCHANGED result
    /\ UNCHANGED <<alive, phase, suspended, references, handles, child, settled, waiting>>

\* Slip: the final suspension ignores the reference count.
FinalSuspendAlways ==
    /\ Top = "finish"
    /\ phase' = "Finished" /\ suspended' = TRUE
    /\ Pop
    /\ UNCHANGED <<alive, references, handles, result, child, settled, waiting>>

\* final_suspend: nobody holds the coroutine any more, so it runs off its end
\* and frees itself, or it stays suspended there.
FinalSuspend ==
    /\ Top = "finish"
    /\ IF references > 0
       THEN phase' = "Finished" /\ suspended' = TRUE /\ UNCHANGED alive
       ELSE alive' = FALSE /\ UNCHANGED <<phase, suspended>>
    /\ Pop
    /\ UNCHANGED <<references, handles, result, child, settled, waiting>>

\* The rest of unlink, after the future's handlers have been called.
UnlinkEnds ==
    /\ Top = "unlink"
    /\ IF suspended
       THEN /\ alive' = FALSE /\ child' = None /\ waiting' = WithoutChild
            /\ UNCHANGED references
       ELSE /\ references' = 0
            /\ UNCHANGED <<alive, child, waiting>>
    /\ Pop
    /\ UNCHANGED <<phase, suspended, handles, result, settled>>

----------------------------------------------------------------------------
(* A settled future calls its handlers.                                     *)

Notifying(f) == Top = f

\* The handler of somebody else, after the promise's, which came first.
NotifyWatcher(f) ==
    /\ Notifying(f)
    /\ "watch" \in waiting[f]
    /\ "promise" \notin waiting[f]
    /\ waiting' = [waiting EXCEPT ![f] = @ \ {"watch"}]
    /\ Push("watcher")
    /\ UNCHANGED <<alive, promise, handles, child, settled>>

\* Slip: the body resumes with its flag still set.
NotifyChildKeepsFlag(f) ==
    /\ Notifying(f)
    /\ "child" \in waiting[f]
    /\ waiting' = [waiting EXCEPT ![f] = @ \ {"child"}]
    /\ child' = None
    /\ Push("body")
    /\ UNCHANGED <<alive, phase, suspended, references, handles, result, settled>>

\* The child resumes, ends, and transfers to the body: await_resume.
NotifyChild(f) ==
    /\ Notifying(f)
    /\ "child" \in waiting[f]
    /\ waiting' = [waiting EXCEPT ![f] = @ \ {"child"}]
    /\ child' = None
    /\ suspended' = FALSE
    /\ Push("body")
    /\ UNCHANGED <<alive, phase, references, handles, result, settled>>

\* Slip: the child's subscription survives the child.
NotifyKeepsChild ==
    /\ Notifying(Result)
    /\ "promise" \in waiting[Result]
    /\ waiting' = [waiting EXCEPT ![Result] = @ \ {"promise"}]
    /\ IF ~suspended \/ phase = "Finished"
       THEN UNCHANGED <<suspended, child, control>>
       ELSE /\ suspended' = FALSE
            /\ child' = None
            /\ Push(IF phase = "Initial" THEN "finish" ELSE "body")
    /\ UNCHANGED <<alive, phase, references, handles, result, settled>>

\* The promise's own handler: a task that is stopped where it is suspended is
\* resumed there and finds the cancellation.  Before its start that ends it;
\* in a co_await the exception unwinds the child and reaches the body.
NotifyPromise ==
    /\ Notifying(Result)
    /\ "promise" \in waiting[Result]
    /\ IF ~suspended \/ phase = "Finished"
       THEN /\ waiting' = [waiting EXCEPT ![Result] = @ \ {"promise"}]
            /\ UNCHANGED <<suspended, child, control>>
       ELSE /\ waiting' = [WithoutChild EXCEPT ![Result] = @ \ {"promise"}]
            /\ suspended' = FALSE
            /\ child' = None
            /\ Push(IF phase = "Initial" THEN "finish" ELSE "body")
    /\ UNCHANGED <<alive, phase, references, handles, result, settled>>

NotifyDone(f) ==
    /\ Notifying(f)
    /\ waiting[f] = {}
    /\ Pop
    /\ UNCHANGED <<alive, promise, handles, child, settled, waiting>>

WatcherReturns ==
    /\ Top = "watcher"
    /\ Pop
    /\ UNCHANGED <<alive, promise, handles, child, settled, waiting>>

Client ==
    \/ Start \/ Stop \/ Copy \/ Unlink
    \/ \E f \in AllFutures : Watch(f) \/ Unwatch(f)
    \/ \E f \in Futures : Settle(f)

BodyStep ==
    \/ \E f \in Futures : Await(f)
    \/ AwaitNever
    \/ \E o \in {"value", "exception"} : BodyEnds(o)

Library ==
    \/ FinalSuspend
    \/ UnlinkEnds
    \/ \E f \in AllFutures : NotifyWatcher(f) \/ NotifyDone(f)
    \/ \E f \in Futures : NotifyChild(f)
    \/ NotifyPromise

\* Nothing more can happen: the frame is gone and the awaited futures settled.
Over == ~alive /\ depth = 0 /\ settled = Futures /\ UNCHANGED vars

Next == Client \/ BodyStep \/ Library \/ WatcherReturns \/ Over

Spec == Init /\ [][Next]_vars

(* The library's code runs on, and neither the body nor a handler runs for  *)
(* ever.  Nobody is bound to settle, to stop or to drop anything.           *)
Fairness ==
    /\ WF_vars(Library)
    /\ WF_vars(BodyStep)
    /\ WF_vars(WatcherReturns)

FairSpec == Spec /\ Fairness

----------------------------------------------------------------------------
(* Properties.                                                              *)

\* The state Task::state reports while the handle is linked.
TaskState ==
    CASE result = "cancelled"                        -> "Cancelled"
      [] phase = "Initial" /\ result = "none"        -> "Initial"
      [] phase = "Started" /\ result = "none"        -> "Started"
      [] phase # "Initial" /\ result \in {"value", "exception"} -> "Finished"
      [] OTHER                                       -> "Bad"

\* Types of the promise, the futures and the control stack.
TypeOK ==
    /\ alive \in BOOLEAN
    /\ phase \in {"Initial", "Started", "Finished"}
    /\ suspended \in BOOLEAN
    /\ references \in 0..MaxHandles
    /\ handles \in 0..MaxHandles
    /\ result \in {"none", "value", "exception", "cancelled"}
    /\ child \in Futures \cup {Never, None}
    /\ settled \in SUBSET Futures
    /\ waiting \in [AllFutures -> SUBSET Handlers]
    /\ depth \in 0..MaxDepth
    /\ stack \in [Levels -> Calls \cup {None}]

OnStack(C) == {k \in 1..depth : stack[k] \in C}
Running == OnStack({"body", "finish"})

\* The flag tells the truth: the coroutine is marked suspended exactly while no
\* call on the stack is running it, and no two calls run it at once.  resume
\* and destroy, which only look at the flag, never hit a running coroutine.
SuspendedIsTrue ==
    /\ alive => (suspended <=> Running = {})
    /\ \A j, k \in Running : j = k

\* Whatever still has to touch the promise finds it alive: the calls on the
\* stack that will, every Task handle, the child that will resume the body, and
\* the promise's handler, which keeps a bare this.
NoUseAfterDestroy ==
    ~alive =>
        /\ OnStack({"body", "finish", "unlink"}) = {}
        /\ handles = 0
        /\ child = None
        /\ "promise" \notin waiting[Result]
        /\ \A f \in AllFutures : "child" \notin waiting[f]

\* A child is resumed by the future it waits for and by no other, and one that
\* was destroyed is resumed by nobody.
ChildIsSubscribed ==
    /\ \A f \in AllFutures : "child" \in waiting[f] <=> child = f
    /\ child # None => suspended /\ phase = "Started"

\* The reference count is the number of handles, but for the last handle, which
\* keeps its count until its unlink has looked at the promise again.
ReferencesCountHandles ==
    alive => \/ references = handles
             \/ handles = 0 /\ references = 1 /\ OnStack({"unlink"}) # {}

\* What the promise keeps about the others is right at every point of every
\* re-entrant call: who will resume it, and how many handles there are.
LinksAreTrue == TypeOK /\ ChildIsSubscribed /\ ReferencesCountHandles

\* No task is left behind between two calls from outside: without a handle the
\* frame is gone, and a task whose future is settled, by itself or by a stop,
\* has run to its end rather than stay suspended half-way.
NothingLeftBehind ==
    depth = 0 =>
        /\ handles = 0 <=> ~alive
        /\ alive => (result # "none" <=> phase = "Finished")
        /\ child \notin settled

\* A task only moves forward, Initial, Started, Finished or Cancelled, and keeps
\* the state it ended in, as the assertions of the task's tests expect; and a
\* linked one is never in state Bad, at no point of any re-entrant call.
MovesForward ==
    [][ /\ TaskState \in {"Finished", "Cancelled"} => TaskState' = TaskState
        /\ TaskState = "Started" => TaskState' # "Initial"
        /\ handles' > 0 => TaskState' # "Bad" ]_vars

\* A task that is settled, by itself or by a stop, comes to its end, and one
\* without handles gives its frame back.
TaskComesToItsEnd ==
    /\ (result # "none") ~> (phase = "Finished" \/ ~alive)
    /\ (handles = 0) ~> ~alive

\* A settled future resumes the body that awaits it.
AwaiterIsResumed == \A f \in Futures : (child = f /\ f \in settled) ~> (child # f)
=============================================================================
