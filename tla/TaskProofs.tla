----------------------------- MODULE TaskProofs -----------------------------
(***************************************************************************)
(* Proofs about the coroutine task: its typing, its safety invariants and  *)
(* that it only moves forward, for any awaited futures and any bounds.     *)
(*                                                                         *)
(* None of the invariants holds alone.  What a call on the control stack   *)
(* may still do to the promise depends on the calls below it, so the       *)
(* inductive invariant says of each kind of call when it is there, and of  *)
(* the promise which call it is waiting for.                               *)
(***************************************************************************)
EXTENDS Task, TLAPS

\* The stack has one call at each level up to its height, and none above.
StackIsFull == \A k \in Levels : stack[k] = None <=> k > depth

\* An unsettled result has the promise's handler pinned and nobody notifying;
\* one that is settled calls that handler before anything else runs.
ResultIsTold ==
    /\ result = "none" => /\ "promise" \in waiting[Result]
                          /\ OnStack({Result}) = {} /\ OnStack({"finish"}) = {}
    /\ "promise" \in waiting[Result] /\ result # "none" => Top = Result

\* A settled future keeps handlers only while it is calling them.
SettledAreTold == \A f \in settled : waiting[f] # {} => OnStack({f}) # {}

\* The last handle is being unlinked by at most one call, which holds the one
\* reference there is and has settled the result; without handles, somebody is
\* about to free the frame.
LastUnlink ==
    /\ \A j, k \in OnStack({"unlink"}) : j = k
    /\ OnStack({"unlink"}) # {} => handles = 0 /\ references = 1 /\ result # "none"
    /\ alive /\ handles = 0 => Running # {} \/ OnStack({"unlink"}) # {}

\* How the phase and the result agree; a task that is settled and not finished
\* is running, or about to be resumed by its own handler.
PhaseFollowsResult ==
    /\ phase = "Finished" => result # "none"
    /\ OnStack({"body"}) # {} \/ result \in {"value", "exception"} => phase # "Initial"
    /\ alive /\ result # "none" /\ phase # "Finished" =>
          Running # {} \/ "promise" \in waiting[Result]

Inv ==
    /\ TypeOK
    /\ StackIsFull
    /\ SuspendedIsTrue
    /\ NoUseAfterDestroy
    /\ ChildIsSubscribed
    /\ ReferencesCountHandles
    /\ ResultIsTold
    /\ SettledAreTold
    /\ LastUnlink
    /\ PhaseFollowsResult

\* The names of calls are told from each other and from None.
LEMMA NamesDiffer ==
    /\ None \notin Calls /\ None \notin AllFutures
    /\ None \notin {"body", "finish", "unlink", "watcher"}
    /\ Result \notin {"body", "finish", "unlink", "watcher"}
    /\ Futures \cap {"body", "finish", "unlink", "watcher", Result} = {}
    /\ Calls \cup {None} = AllFutures \cup {"body", "finish", "unlink", "watcher", None}
BY FuturesAssumption DEF Calls, AllFutures

----------------------------------------------------------------------------
(* The control stack: which calls are on it after a step.                   *)

\* The stack is typed and full.
StackOK ==
    /\ depth \in 0..MaxDepth
    /\ stack \in [Levels -> Calls \cup {None}]
    /\ StackIsFull

\* A call that is pushed is on top of those that were there.
LEMMA Pushed ==
    ASSUME StackOK, NEW c \in Calls, Push(c)
    PROVE  /\ StackOK' /\ Top' = c
           /\ \A C : OnStack(C)' = IF c \in C THEN OnStack(C) \cup {depth'} ELSE OnStack(C)
BY DepthAssumption, NamesDiffer DEF StackOK, StackIsFull, Push, Levels, Top, OnStack

\* So are two, the second from the first.
LEMMA PushedBoth ==
    ASSUME StackOK, NEW c \in Calls, NEW d \in Calls, PushBoth(c, d)
    PROVE  /\ StackOK' /\ Top' = d
           /\ \A C : OnStack(C)' = OnStack(C)
                        \cup (IF c \in C THEN {depth + 1} ELSE {})
                        \cup (IF d \in C THEN {depth + 2} ELSE {})
<1>1. /\ depth' = depth + 2 /\ depth + 1 < MaxDepth
      /\ depth \in Nat /\ MaxDepth \in Nat
      /\ stack \in [Levels -> Calls \cup {None}]
      /\ stack' = [stack EXCEPT ![depth + 1] = c, ![depth + 2] = d]
  BY DepthAssumption DEF StackOK, PushBoth
<1>2. \A k \in Levels : stack'[k] = IF k = depth + 2 THEN d
                                    ELSE IF k = depth + 1 THEN c ELSE stack[k]
  BY <1>1 DEF Levels
<1>3. depth' \in 0..MaxDepth /\ stack' \in [Levels -> Calls \cup {None}]
  BY <1>1 DEF Levels
<1>4. StackIsFull' /\ Top' = d
  BY <1>1, <1>2, NamesDiffer DEF StackOK, StackIsFull, Levels, Top
<1>5. ASSUME NEW C
      PROVE  OnStack(C)' = OnStack(C) \cup (IF c \in C THEN {depth + 1} ELSE {})
                                     \cup (IF d \in C THEN {depth + 2} ELSE {})
  <2>1. \A k : k \in OnStack(C)' <=> k \in 1..(depth + 2) /\ stack'[k] \in C
    BY <1>1 DEF OnStack
  <2>2. 1..(depth + 2) \subseteq Levels
    BY <1>1 DEF Levels
  <2> QED
    BY <1>1, <1>2, <2>1, <2>2 DEF OnStack
<1> QED
  BY <1>3, <1>4, <1>5 DEF StackOK

\* A call that returns leaves those below it.
LEMMA Popped ==
    ASSUME StackOK, Pop, Top # None
    PROVE  /\ StackOK'
           /\ \A C : OnStack(C)' = IF Top \in C THEN OnStack(C) \ {depth} ELSE OnStack(C)
           /\ \A C : depth \in OnStack(C) <=> Top \in C
<1>1. /\ depth \in 1..MaxDepth /\ MaxDepth \in Nat
      /\ stack \in [Levels -> Calls \cup {None}]
      /\ depth' = depth - 1 /\ stack' = [stack EXCEPT ![depth] = None]
  BY DepthAssumption DEF StackOK, Pop, Top
<1>2. depth' \in 0..MaxDepth /\ stack' \in [Levels -> Calls \cup {None}]
  <2>1. depth' \in 0..MaxDepth
    BY <1>1
  <2>2. stack' \in [Levels -> Calls \cup {None}]
    BY <1>1
  <2> QED
    BY <2>1, <2>2
<1>3. StackIsFull'
  BY <1>1 DEF StackOK, StackIsFull, Levels
<1>4. \A C : depth \in OnStack(C) <=> Top \in C
  BY <1>1 DEF Top, OnStack
<1>5. \A C : OnStack(C)' = OnStack(C) \ {depth}
  BY <1>1 DEF OnStack, Levels
<1> QED
  BY <1>2, <1>3, <1>4, <1>5 DEF StackOK

\* The body on top of the stack turns into its final suspension.
LEMMA Finished ==
    ASSUME StackOK, Finish, Top # None
    PROVE  /\ StackOK' /\ Top' = "finish"
           /\ \A C : OnStack(C)' = IF "finish" \in C THEN OnStack(C) \cup {depth}
                                   ELSE OnStack(C) \ {depth}
           /\ \A C : depth \in OnStack(C) <=> Top \in C
BY DepthAssumption, NamesDiffer
DEF StackOK, StackIsFull, Finish, Levels, Top, OnStack, Calls

\* It does so while the handlers of its result are called.
LEMMA FinishedAfter ==
    ASSUME StackOK, FinishAfterNotifying, Top # None
    PROVE  /\ StackOK' /\ Top' = Result
           /\ \A C : OnStack(C)' = (IF "finish" \in C THEN OnStack(C) \cup {depth}
                                   ELSE OnStack(C) \ {depth})
                                   \cup (IF Result \in C THEN {depth + 1} ELSE {})
           /\ \A C : depth \in OnStack(C) <=> Top \in C
BY DepthAssumption, NamesDiffer
DEF StackOK, StackIsFull, FinishAfterNotifying, Levels, Top, OnStack, Calls, AllFutures

\* A step that leaves the control stack alone.
LEMMA StackStays ==
    ASSUME UNCHANGED control
    PROVE  Top' = Top /\ Running' = Running /\ \A C : OnStack(C)' = OnStack(C)
BY DEF control, Top, Running, OnStack

LEMMA StackTyped == Inv => StackOK
BY DEF Inv, TypeOK, StackOK

\* The calls that will touch the promise, one kind at a time.
LEMMA Touching ==
    /\ OnStack({"body", "finish", "unlink"}) = Running \cup OnStack({"unlink"})
    /\ OnStack({"body", "finish", "unlink"})' = Running' \cup OnStack({"unlink"})'
    /\ Running = OnStack({"body"}) \cup OnStack({"finish"})
    /\ Running' = OnStack({"body"})' \cup OnStack({"finish"})'
BY DEF OnStack, Running

----------------------------------------------------------------------------
(* What the invariant says where it is used.                                *)

\* While a call runs the coroutine, it is the only one, the frame is there, and
\* there is no child.
LEMMA OneRuns ==
    ASSUME Inv, NEW k \in Running
    PROVE  alive /\ ~suspended /\ child = None /\ Running = {k}
<1>1. alive
  BY Touching DEF Inv, NoUseAfterDestroy
<1> QED
  BY <1>1 DEF Inv, SuspendedIsTrue, ChildIsSubscribed

\* A Task handle keeps the frame, and the count is right while there is one.
LEMMA HandlesAreCounted ==
    Inv /\ handles > 0 => alive /\ references = handles /\ OnStack({"unlink"}) = {}
BY DEF Inv, TypeOK, NoUseAfterDestroy, ReferencesCountHandles, LastUnlink

\* Nothing happens between the settling of a result and the promise's handler.
LEMMA PromiseIsTold ==
    Inv /\ result # "none" /\ Top # Result => "promise" \notin waiting[Result]
BY DEF Inv, ResultIsTold

\* User code does not run in a future that is calling its handlers.
LEMMA UserIsNoFuture == UserRuns => Top \notin AllFutures
BY NamesDiffer DEF UserRuns, AllFutures

\* A settled future that is still calling its handlers does not drop any, and
\* nobody subscribes to it any more.
LEMMA StillTold ==
    ASSUME SettledAreTold, settled' = settled,
           \A g \in settled : waiting[g] = {} => waiting'[g] = {},
           \A g \in settled : OnStack({g}) \subseteq OnStack({g})' \/ waiting[g] = {}
    PROVE  SettledAreTold'
<1> SUFFICES ASSUME NEW g \in settled, waiting'[g] # {} PROVE OnStack({g})' # {}
  BY DEF SettledAreTold
<1>1. waiting[g] # {} /\ OnStack({g}) # {}
  BY DEF SettledAreTold
<1> QED
  BY <1>1

\* A step that touches neither the promise nor the calls that will.
LEMMA Bystander ==
    ASSUME Inv, TypeOK', StackIsFull', ResultIsTold', SettledAreTold',
           UNCHANGED <<alive, phase, suspended, references, handles, result, child>>,
           UNCHANGED <<OnStack({"body"}), OnStack({"finish"}), OnStack({"unlink"})>>,
           \A f \in AllFutures : /\ "child" \in waiting'[f] <=> "child" \in waiting[f]
                                 /\ "promise" \in waiting'[f] <=> "promise" \in waiting[f]
    PROVE  Inv'
<1>1. Running' = Running
  BY Touching
<1>2. SuspendedIsTrue' /\ ReferencesCountHandles' /\ LastUnlink'
  BY <1>1 DEF Inv, SuspendedIsTrue, ReferencesCountHandles, LastUnlink
<1>3. NoUseAfterDestroy' /\ ChildIsSubscribed'
  BY <1>1, Touching DEF Inv, NoUseAfterDestroy, ChildIsSubscribed, AllFutures
<1>4. PhaseFollowsResult'
  BY <1>1 DEF Inv, PhaseFollowsResult, AllFutures
<1> QED
  BY <1>2, <1>3, <1>4 DEF Inv

----------------------------------------------------------------------------
(* The initial state, and what user code calls.                             *)

LEMMA InitInv == Init => Inv
<1> SUFFICES ASSUME Init PROVE Inv
  OBVIOUS
<1>1. \A C : OnStack(C) = {}
  BY DEF Init, OnStack
<1>2. TypeOK
  BY HandlesAssumption, DepthAssumption DEF Init, TypeOK, AllFutures, Handlers
<1>3. StackIsFull
  BY DEF Init, StackIsFull, Levels
<1>4. SuspendedIsTrue /\ NoUseAfterDestroy /\ ReferencesCountHandles
  BY <1>1 DEF Init, SuspendedIsTrue, Running, NoUseAfterDestroy, ReferencesCountHandles
<1>5. ChildIsSubscribed
  BY NamesDiffer, FuturesAssumption DEF Init, ChildIsSubscribed, AllFutures
<1>6. ResultIsTold /\ SettledAreTold /\ LastUnlink /\ PhaseFollowsResult
  BY <1>1
  DEF Init, ResultIsTold, SettledAreTold, LastUnlink, PhaseFollowsResult, Running, AllFutures
<1> QED
  BY <1>2, <1>3, <1>4, <1>5, <1>6 DEF Inv

\* The first resumption: the flag falls as the body is called.
LEMMA StartInv == Inv /\ Start => Inv'
<1> SUFFICES ASSUME Inv, Start PROVE Inv'
  OBVIOUS
<1>1. /\ alive /\ suspended /\ phase = "Initial" /\ result = "none"
      /\ suspended' = FALSE /\ phase' = "Started" /\ Push("body")
      /\ UNCHANGED <<alive, references, handles, result, child, settled, waiting>>
  BY HandlesAreCounted DEF Start
<1>2. /\ StackOK' /\ Top' = "body"
      /\ \A C : OnStack(C)' = IF "body" \in C THEN OnStack(C) \cup {depth'} ELSE OnStack(C)
  BY <1>1, Pushed, StackTyped DEF Calls
<1>3. /\ Running' = Running \cup {depth'}
      /\ UNCHANGED <<OnStack({"finish"}), OnStack({"unlink"}), OnStack({Result})>>
      /\ \A g \in Futures : OnStack({g})' = OnStack({g})
  BY <1>2, NamesDiffer DEF Running
<1>4. Running = {} /\ child = None
  BY <1>1 DEF Inv, SuspendedIsTrue, ChildIsSubscribed
<1>5. TypeOK' /\ StackIsFull'
  BY <1>1, <1>2 DEF Inv, TypeOK, StackOK
<1>6. SuspendedIsTrue' /\ NoUseAfterDestroy'
  BY <1>1, <1>3, <1>4 DEF SuspendedIsTrue, NoUseAfterDestroy
<1>7. ChildIsSubscribed'
  BY <1>1, <1>4 DEF Inv, ChildIsSubscribed
<1>8. ReferencesCountHandles' /\ LastUnlink' /\ ResultIsTold'
  BY <1>1, <1>3 DEF Inv, ReferencesCountHandles, LastUnlink, ResultIsTold
<1>9. SettledAreTold'
  BY <1>1, <1>3, StillTold DEF Inv, TypeOK
<1>10. PhaseFollowsResult'
  BY <1>1 DEF Inv, PhaseFollowsResult
<1> QED
  BY <1>5, <1>6, <1>7, <1>8, <1>9, <1>10 DEF Inv

\* A result that is settled from outside has its own handler to call next.
LEMMA StopInv == Inv /\ Stop => Inv'
<1> SUFFICES ASSUME Inv, Stop PROVE Inv'
  OBVIOUS
<1>1. /\ alive /\ result = "none" /\ result' = "cancelled" /\ Push(Result)
      /\ UNCHANGED <<alive, phase, suspended, references, handles, child, settled, waiting>>
  BY DEF Stop
<1>2. /\ StackOK' /\ Top' = Result
      /\ \A C : OnStack(C)' = IF Result \in C THEN OnStack(C) \cup {depth'} ELSE OnStack(C)
  BY <1>1, Pushed, StackTyped DEF Calls, AllFutures
<1>3. /\ UNCHANGED <<Running, OnStack({"body"}), OnStack({"unlink"})>>
      /\ \A g \in Futures : OnStack({g})' = OnStack({g})
  BY <1>2, NamesDiffer DEF Running
<1>4. "promise" \in waiting[Result]
  BY <1>1 DEF Inv, ResultIsTold
<1>5. TypeOK' /\ StackIsFull'
  BY <1>1, <1>2 DEF Inv, TypeOK, StackOK
<1>6. SuspendedIsTrue' /\ NoUseAfterDestroy' /\ ChildIsSubscribed'
  BY <1>1, <1>3 DEF Inv, SuspendedIsTrue, NoUseAfterDestroy, ChildIsSubscribed
<1>7. ReferencesCountHandles' /\ LastUnlink'
  BY <1>1, <1>3 DEF Inv, ReferencesCountHandles, LastUnlink
<1>8. ResultIsTold'
  BY <1>1, <1>2 DEF ResultIsTold
<1>9. SettledAreTold'
  BY <1>1, <1>3, StillTold DEF Inv, TypeOK
<1>10. PhaseFollowsResult'
  BY <1>1, <1>3, <1>4 DEF Inv, PhaseFollowsResult
<1> QED
  BY <1>5, <1>6, <1>7, <1>8, <1>9, <1>10 DEF Inv

\* A copy is made from a handle, so the count is right and there is no unlink.
LEMMA CopyInv == Inv /\ Copy => Inv'
<1> SUFFICES ASSUME Inv, Copy PROVE Inv'
  OBVIOUS
<1>1. /\ alive /\ references = handles /\ OnStack({"unlink"}) = {}
      /\ handles \in 1..(MaxHandles - 1) /\ MaxHandles \in Nat
      /\ handles' = handles + 1 /\ references' = references + 1
      /\ UNCHANGED <<alive, phase, suspended, result, child, settled, waiting, control>>
  BY HandlesAreCounted, HandlesAssumption DEF Copy
<1>2. Top' = Top /\ Running' = Running /\ \A C : OnStack(C)' = OnStack(C)
  BY <1>1, StackStays
<1>3. TypeOK' /\ StackIsFull'
  BY <1>1 DEF Inv, TypeOK, StackIsFull, control
<1>4. SuspendedIsTrue' /\ NoUseAfterDestroy' /\ ChildIsSubscribed'
  BY <1>1, <1>2 DEF Inv, SuspendedIsTrue, NoUseAfterDestroy, ChildIsSubscribed
<1>5. ReferencesCountHandles' /\ LastUnlink'
  BY <1>1, <1>2 DEF ReferencesCountHandles, LastUnlink
<1>6. ResultIsTold' /\ SettledAreTold' /\ PhaseFollowsResult'
  BY <1>1, <1>2 DEF Inv, ResultIsTold, SettledAreTold, PhaseFollowsResult
<1> QED
  BY <1>3, <1>4, <1>5, <1>6 DEF Inv

\* The last handle cancels, and keeps its reference for the rest of unlink.
LEMMA UnlinkInv == Inv /\ Unlink => Inv'
<1> SUFFICES ASSUME Inv, Unlink PROVE Inv'
  OBVIOUS
<1>1. /\ alive /\ references = handles /\ OnStack({"unlink"}) = {}
      /\ handles \in 1..MaxHandles /\ handles' = handles - 1 /\ MaxHandles \in Nat
      /\ UNCHANGED <<alive, phase, suspended, child, settled, waiting>>
  BY HandlesAreCounted, HandlesAssumption DEF Unlink, Inv, TypeOK
<1>2. Top \notin AllFutures
  BY UserIsNoFuture DEF Unlink
<1>3. CASE references > 1
  <2>1. references' = references - 1 /\ UNCHANGED <<result, control>>
    BY <1>3 DEF Unlink
  <2>2. (\A C : OnStack(C)' = OnStack(C)) /\ Top' = Top /\ Running' = Running
    BY <2>1 DEF control, OnStack, Top, Running
  <2>3. TypeOK' /\ StackIsFull'
    BY <1>1, <1>3, <2>1 DEF Inv, TypeOK, StackIsFull, control
  <2>4. /\ SuspendedIsTrue' /\ NoUseAfterDestroy' /\ ChildIsSubscribed'
        /\ ReferencesCountHandles'
    BY <1>1, <2>1, <2>2
    DEF Inv, SuspendedIsTrue, NoUseAfterDestroy, ChildIsSubscribed, ReferencesCountHandles
  <2>5. ResultIsTold' /\ SettledAreTold' /\ PhaseFollowsResult'
    BY <1>1, <2>1, <2>2 DEF Inv, ResultIsTold, SettledAreTold, PhaseFollowsResult
  <2>6. LastUnlink'
    BY <1>1, <1>3, <2>1, <2>2 DEF LastUnlink
  <2> QED
    BY <2>3, <2>4, <2>5, <2>6 DEF Inv
<1>4. CASE ~(references > 1) /\ result = "none"
  <2>1. /\ references = 1 /\ handles' = 0 /\ references' = references
        /\ result' = "cancelled" /\ PushBoth("unlink", Result)
    BY <1>1, <1>4 DEF Unlink
  <2>2. /\ StackOK' /\ Top' = Result
        /\ \A C : OnStack(C)' = OnStack(C)
                     \cup (IF "unlink" \in C THEN {depth + 1} ELSE {})
                     \cup (IF Result \in C THEN {depth + 2} ELSE {})
    BY <2>1, PushedBoth, StackTyped DEF Calls, AllFutures
  <2>3. /\ UNCHANGED <<Running, OnStack({"body"}), OnStack({"finish"})>>
        /\ OnStack({"unlink"})' = {depth + 1}
        /\ \A g \in Futures : OnStack({g})' = OnStack({g})
    BY <1>1, <2>2, NamesDiffer DEF Running
  <2>4. "promise" \in waiting[Result]
    BY <1>4 DEF Inv, ResultIsTold
  <2>5. TypeOK' /\ StackIsFull'
    BY <1>1, <2>1, <2>2 DEF Inv, TypeOK, StackOK
  <2>6. /\ SuspendedIsTrue' /\ NoUseAfterDestroy' /\ ChildIsSubscribed'
        /\ ReferencesCountHandles'
    BY <1>1, <2>1, <2>3
    DEF Inv, SuspendedIsTrue, NoUseAfterDestroy, ChildIsSubscribed, ReferencesCountHandles
  <2>7. ResultIsTold'
    BY <2>1, <2>2 DEF ResultIsTold
  <2>8. SettledAreTold'
    BY <1>1, <2>3, StillTold DEF Inv, TypeOK
  <2>9. LastUnlink'
    BY <2>1, <2>3 DEF LastUnlink
  <2>10. PhaseFollowsResult'
    BY <1>1, <2>1, <2>3, <2>4 DEF Inv, PhaseFollowsResult
  <2> QED
    BY <2>5, <2>6, <2>7, <2>8, <2>9, <2>10 DEF Inv
<1>5. CASE ~(references > 1) /\ result # "none"
  <2>1. /\ references = 1 /\ handles' = 0 /\ UNCHANGED <<references, result>>
        /\ Push("unlink")
    BY <1>1, <1>5 DEF Unlink
  <2>2. /\ StackOK' /\ Top' = "unlink"
        /\ \A C : OnStack(C)' = IF "unlink" \in C THEN OnStack(C) \cup {depth'} ELSE OnStack(C)
    BY <2>1, Pushed, StackTyped DEF Calls
  <2>3. /\ UNCHANGED <<Running, OnStack({"body"}), OnStack({"finish"})>>
        /\ OnStack({"unlink"})' = {depth'}
        /\ \A g \in Futures : OnStack({g})' = OnStack({g})
    BY <1>1, <2>2, NamesDiffer DEF Running
  <2>4. "promise" \notin waiting[Result]
    BY <1>2, <1>5, PromiseIsTold DEF AllFutures
  <2>5. TypeOK' /\ StackIsFull'
    BY <1>1, <2>1, <2>2 DEF Inv, TypeOK, StackOK
  <2>6. /\ SuspendedIsTrue' /\ NoUseAfterDestroy' /\ ChildIsSubscribed'
        /\ ReferencesCountHandles'
    BY <1>1, <2>1, <2>3
    DEF Inv, SuspendedIsTrue, NoUseAfterDestroy, ChildIsSubscribed, ReferencesCountHandles
  <2>7. ResultIsTold'
    BY <1>1, <1>5, <2>1, <2>4 DEF ResultIsTold
  <2>8. SettledAreTold'
    BY <1>1, <2>3, StillTold DEF Inv, TypeOK
  <2>9. LastUnlink'
    BY <1>5, <2>1, <2>3 DEF LastUnlink
  <2>10. PhaseFollowsResult'
    BY <1>1, <2>1, <2>3 DEF Inv, PhaseFollowsResult
  <2> QED
    BY <2>5, <2>6, <2>7, <2>8, <2>9, <2>10 DEF Inv
<1> QED
  BY <1>3, <1>4, <1>5

\* Subscriptions of others come and go only while the future is not settled, or
\* they are withdrawn.
LEMMA WatchInv ==
    ASSUME NEW f \in AllFutures, Inv, Watch(f) \/ Unwatch(f)
    PROVE  Inv'
<1>1. /\ UNCHANGED <<alive, phase, suspended, references, handles, result, child, settled>>
      /\ UNCHANGED control
  BY DEF Watch, Unwatch, promise
<1>2. Top' = Top /\ Running' = Running /\ \A C : OnStack(C)' = OnStack(C)
  BY <1>1, StackStays
<1>3. /\ waiting' \in [AllFutures -> SUBSET Handlers]
      /\ \A g \in AllFutures : waiting'[g] \ {"watch"} = waiting[g] \ {"watch"}
      /\ \A g \in settled : waiting'[g] \subseteq waiting[g]
  <2>1. CASE Watch(f)
    <3>1. f \notin settled
      BY <2>1, FuturesAssumption DEF Inv, TypeOK, Watch
    <3> QED
      BY <2>1, <3>1 DEF Inv, TypeOK, Watch, Handlers
  <2>2. CASE Unwatch(f)
    BY <2>2 DEF Inv, TypeOK, Unwatch
  <2> QED
    BY <2>1, <2>2
<1>4. TypeOK' /\ StackIsFull'
  BY <1>1, <1>3 DEF Inv, TypeOK, StackIsFull, control
<1>5. ResultIsTold'
  BY <1>1, <1>2, <1>3 DEF Inv, ResultIsTold, AllFutures
<1>6. SettledAreTold'
  BY <1>1, <1>2, <1>3, StillTold DEF Inv
<1> QED
  BY <1>1, <1>2, <1>3, <1>4, <1>5, <1>6, Bystander

\* A future that is settled calls its handlers from now on.
LEMMA SettleInv ==
    ASSUME NEW f \in Futures, Inv, Settle(f)
    PROVE  Inv'
<1>1. /\ settled' = settled \cup {f} /\ Push(f)
      /\ UNCHANGED <<alive, phase, suspended, references, handles, result, child, waiting>>
  BY DEF Settle, promise
<1>2. /\ StackOK' /\ Top' = f
      /\ \A C : OnStack(C)' = IF f \in C THEN OnStack(C) \cup {depth'} ELSE OnStack(C)
  BY <1>1, Pushed, StackTyped DEF Calls, AllFutures
<1>3. /\ UNCHANGED <<OnStack({"body"}), OnStack({"finish"}), OnStack({"unlink"})>>
      /\ OnStack({Result})' = OnStack({Result})
      /\ OnStack({f})' # {} /\ \A g \in Futures : OnStack({g}) \subseteq OnStack({g})'
  BY <1>2, NamesDiffer
<1>4. TypeOK' /\ StackIsFull'
  BY <1>1, <1>2 DEF Inv, TypeOK, StackOK
<1>5. ResultIsTold'
  <2>1. result # "none" => "promise" \notin waiting[Result]
    BY PromiseIsTold, UserIsNoFuture DEF Settle, AllFutures
  <2> QED
    BY <1>1, <1>3, <2>1 DEF Inv, ResultIsTold
<1>6. SettledAreTold'
  <2> SUFFICES ASSUME NEW g \in settled', waiting'[g] # {} PROVE OnStack({g})' # {}
    BY DEF SettledAreTold
  <2>1. CASE g = f
    BY <1>3, <2>1
  <2>2. CASE g # f
    <3>1. OnStack({g}) # {} /\ g \in Futures
      BY <1>1, <2>2 DEF Inv, SettledAreTold, TypeOK
    <3> QED
      BY <1>3, <3>1
  <2> QED
    BY <2>1, <2>2
<1> QED
  BY <1>1, <1>3, <1>4, <1>5, <1>6, Bystander

----------------------------------------------------------------------------
(* The coroutine.                                                           *)

\* The body suspends in a co_await, and it was the only call that ran.
LEMMA BodySuspends ==
    ASSUME Inv, Top = "body", Pop, references > 0, result = "none",
           suspended' = TRUE,
           UNCHANGED <<alive, phase, references, handles, result, settled>>,
           child' \in Futures \cup {Never}, phase = "Started",
           child' \notin settled,
           waiting' = [f \in AllFutures |-> waiting[f] \cup IF f = child' THEN {"child"} ELSE {}]
    PROVE  Inv'
<1>1. /\ StackOK'
      /\ \A C : OnStack(C)' = IF Top \in C THEN OnStack(C) \ {depth} ELSE OnStack(C)
      /\ \A C : depth \in OnStack(C) <=> Top \in C
  BY Popped, StackTyped, NamesDiffer
<1>2. /\ Running' = Running \ {depth} /\ depth \in Running
      /\ UNCHANGED <<OnStack({"finish"}), OnStack({"unlink"}), OnStack({Result})>>
      /\ \A g \in Futures : OnStack({g})' = OnStack({g})
  BY <1>1, NamesDiffer DEF Running
<1>3. alive /\ child = None /\ Running' = {}
  BY <1>2, OneRuns
<1>4. child' # None /\ Result # child'
  BY FuturesAssumption
<1>5. \A f \in AllFutures : "child" \notin waiting[f]
  BY <1>3, NamesDiffer DEF Inv, ChildIsSubscribed
<1>6. TypeOK' /\ StackIsFull'
  BY <1>1 DEF Inv, TypeOK, StackOK, Handlers
<1>7. SuspendedIsTrue' /\ NoUseAfterDestroy'
  BY <1>3 DEF SuspendedIsTrue, NoUseAfterDestroy
<1>8. ChildIsSubscribed'
  BY <1>4, <1>5 DEF ChildIsSubscribed
<1>9. ReferencesCountHandles'
  BY <1>2 DEF Inv, ReferencesCountHandles
<1>10. ResultIsTold'
  BY <1>2, <1>4 DEF Inv, ResultIsTold, AllFutures
<1>11. SettledAreTold'
  BY <1>2, StillTold DEF Inv, TypeOK, AllFutures
<1>12. LastUnlink'
  <2>1. handles = 0 => OnStack({"unlink"}) # {}
    BY <1>3 DEF Inv, ReferencesCountHandles
  <2> QED
    BY <1>2, <2>1 DEF Inv, LastUnlink
<1>13. PhaseFollowsResult'
  BY DEF PhaseFollowsResult
<1> QED
  BY <1>6, <1>7, <1>8, <1>9, <1>10, <1>11, <1>12, <1>13 DEF Inv

LEMMA AwaitInv ==
    ASSUME NEW f \in Futures, Inv, Await(f)
    PROVE  Inv'
<1>1. waiting' = [g \in AllFutures |-> waiting[g] \cup IF g = child' THEN {"child"} ELSE {}]
  BY DEF Inv, TypeOK, Await
<1> QED
  BY <1>1, BodySuspends DEF Await

LEMMA AwaitNeverInv == Inv /\ AwaitNever => Inv'
<1> SUFFICES ASSUME Inv, AwaitNever PROVE Inv'
  OBVIOUS
<1>1. waiting' = [g \in AllFutures |-> waiting[g] \cup IF g = child' THEN {"child"} ELSE {}]
  BY FuturesAssumption DEF Inv, TypeOK, AwaitNever, AllFutures
<1>2. child' \notin settled
  BY FuturesAssumption DEF Inv, TypeOK, AwaitNever
<1> QED
  BY <1>1, <1>2, BodySuspends DEF AwaitNever

\* The body ends: it settles the result, unless that is cancelled already.
LEMMA BodyEndsInv ==
    ASSUME NEW o \in {"value", "exception"}, Inv, BodyEnds(o)
    PROVE  Inv'
<1>1. StackOK /\ Top = "body" /\ Top # None
  BY StackTyped, NamesDiffer DEF BodyEnds
<1>2. UNCHANGED <<alive, phase, suspended, references, handles, child, settled, waiting>>
  BY DEF BodyEnds
<1>3. depth \in OnStack({"body"}) /\ \A C : depth \in OnStack(C) <=> Top \in C
  BY <1>1, DepthAssumption DEF StackOK, OnStack, Top
<1>4. alive /\ ~suspended /\ child = None /\ Running = {depth} /\ phase # "Initial"
  BY <1>3, Touching, OneRuns DEF Inv, PhaseFollowsResult
<1>5. CASE result = "none"
  <2>1. result' = o /\ FinishAfterNotifying
    BY <1>5 DEF BodyEnds
  <2>2. /\ StackOK' /\ Top' = Result
        /\ \A C : OnStack(C)' = (IF "finish" \in C THEN OnStack(C) \cup {depth}
                                 ELSE OnStack(C) \ {depth})
                                \cup (IF Result \in C THEN {depth + 1} ELSE {})
    BY <1>1, <2>1, FinishedAfter
  <2>3. /\ Running' = Running /\ OnStack({"unlink"})' = OnStack({"unlink"})
        /\ \A g \in Futures : OnStack({g})' = OnStack({g})
    <3>1. OnStack({"body", "finish"})' = OnStack({"body", "finish"})
      <4>1. OnStack({"body", "finish"}) = {depth} /\ Result \notin {"body", "finish"}
        BY <1>4, NamesDiffer DEF Running
      <4> QED
        BY <2>2, <4>1
    <3>2. ASSUME NEW C, "body" \notin C, "finish" \notin C, Result \notin C
          PROVE  OnStack(C)' = OnStack(C)
      <4>1. depth \notin OnStack(C)
        BY <1>1, <1>3, <3>2
      <4> QED
        BY <2>2, <3>2, <4>1
    <3>3. OnStack({"unlink"})' = OnStack({"unlink"})
      BY <3>2, NamesDiffer
    <3>4. \A g \in Futures : OnStack({g})' = OnStack({g})
      BY <3>2, NamesDiffer
    <3> QED
      BY <3>1, <3>3, <3>4 DEF Running
  <2>4. "promise" \in waiting[Result]
    BY <1>5 DEF Inv, ResultIsTold
  <2>5. TypeOK' /\ StackIsFull'
    BY <1>2, <2>1, <2>2 DEF Inv, TypeOK, StackOK
  <2>6. /\ SuspendedIsTrue' /\ NoUseAfterDestroy' /\ ChildIsSubscribed'
        /\ ReferencesCountHandles'
    BY <1>2, <1>4, <2>3
    DEF Inv, SuspendedIsTrue, NoUseAfterDestroy, ChildIsSubscribed, ReferencesCountHandles
  <2>7. ResultIsTold'
    BY <2>1, <2>2 DEF ResultIsTold
  <2>8. SettledAreTold'
    BY <1>2, <2>3, StillTold DEF Inv, TypeOK
  <2>9. LastUnlink'
    BY <1>2, <2>1, <2>3 DEF Inv, LastUnlink
  <2>10. PhaseFollowsResult'
    BY <1>2, <1>4, <2>1, <2>3 DEF PhaseFollowsResult
  <2> QED
    BY <2>5, <2>6, <2>7, <2>8, <2>9, <2>10 DEF Inv
<1>6. CASE result # "none"
  <2>1. result' = result /\ Finish
    BY <1>6 DEF BodyEnds
  <2>2. /\ StackOK' /\ Top' = "finish"
        /\ \A C : OnStack(C)' = IF "finish" \in C THEN OnStack(C) \cup {depth}
                                ELSE OnStack(C) \ {depth}
    BY <1>1, <2>1, Finished
  <2>3. /\ Running' = Running /\ OnStack({"unlink"})' = OnStack({"unlink"})
        /\ \A g \in Futures : OnStack({g})' = OnStack({g})
    <3>1. OnStack({"body", "finish"})' = OnStack({"body", "finish"})
      <4>1. OnStack({"body", "finish"}) = {depth} /\ Result \notin {"body", "finish"}
        BY <1>4, NamesDiffer DEF Running
      <4> QED
        BY <2>2, <4>1
    <3>2. ASSUME NEW C, "body" \notin C, "finish" \notin C, Result \notin C
          PROVE  OnStack(C)' = OnStack(C)
      <4>1. depth \notin OnStack(C)
        BY <1>1, <1>3, <3>2
      <4> QED
        BY <2>2, <3>2, <4>1
    <3>3. OnStack({"unlink"})' = OnStack({"unlink"})
      BY <3>2, NamesDiffer
    <3>4. \A g \in Futures : OnStack({g})' = OnStack({g})
      BY <3>2, NamesDiffer
    <3> QED
      BY <3>1, <3>3, <3>4 DEF Running
  <2>4. "promise" \notin waiting[Result]
    BY <1>1, <1>6, PromiseIsTold, NamesDiffer
  <2>5. TypeOK' /\ StackIsFull'
    BY <1>2, <2>1, <2>2 DEF Inv, TypeOK, StackOK
  <2>6. /\ SuspendedIsTrue' /\ NoUseAfterDestroy' /\ ChildIsSubscribed'
        /\ ReferencesCountHandles'
    BY <1>2, <1>4, <2>3
    DEF Inv, SuspendedIsTrue, NoUseAfterDestroy, ChildIsSubscribed, ReferencesCountHandles
  <2>7. ResultIsTold'
    BY <1>2, <1>6, <2>1, <2>4 DEF ResultIsTold
  <2>8. SettledAreTold'
    BY <1>2, <2>3, StillTold DEF Inv, TypeOK
  <2>9. LastUnlink'
    BY <1>2, <2>1, <2>3 DEF Inv, LastUnlink
  <2>10. PhaseFollowsResult'
    BY <1>2, <1>4, <1>6, <2>1, <2>3 DEF PhaseFollowsResult
  <2> QED
    BY <2>5, <2>6, <2>7, <2>8, <2>9, <2>10 DEF Inv
<1> QED
  BY <1>5, <1>6

\* The coroutine stays at its end, or frees itself when nobody holds it.
LEMMA FinalSuspendInv == Inv /\ FinalSuspend => Inv'
<1> SUFFICES ASSUME Inv, FinalSuspend PROVE Inv'
  OBVIOUS
<1>1. StackOK /\ Pop /\ Top = "finish" /\ Top # None
  BY StackTyped, NamesDiffer DEF FinalSuspend
<1>2. /\ StackOK'
      /\ \A C : OnStack(C)' = IF Top \in C THEN OnStack(C) \ {depth} ELSE OnStack(C)
      /\ \A C : depth \in OnStack(C) <=> Top \in C
  BY <1>1, Popped
<1>3. TypeOK' /\ StackIsFull'
  BY <1>2 DEF Inv, TypeOK, FinalSuspend, StackOK
<1>4. /\ OnStack({"finish"})' = OnStack({"finish"}) \ {depth}
      /\ UNCHANGED <<OnStack({"body"}), OnStack({"unlink"}), OnStack({Result})>>
      /\ \A g \in Futures : OnStack({g})' = OnStack({g})
      /\ depth \in OnStack({"finish"})
  BY <1>1, <1>2, NamesDiffer
<1>5. /\ alive /\ ~suspended /\ child = None
      /\ Running = {depth} /\ Running' = {}
  BY <1>1, <1>2, <1>4, Touching, OneRuns DEF Running
<1>6. result # "none" /\ "promise" \notin waiting[Result]
  <2>1. result # "none"
    BY <1>4 DEF Inv, ResultIsTold
  <2> QED
    BY <1>1, <2>1, PromiseIsTold, NamesDiffer
<1>7. \A f \in AllFutures : "child" \notin waiting[f]
  BY <1>5, NamesDiffer DEF Inv, ChildIsSubscribed
<1>8. references = 0 => handles = 0 /\ OnStack({"unlink"}) = {}
  BY <1>5 DEF Inv, ReferencesCountHandles, LastUnlink
<1>9. references \in Nat /\ handles \in Nat
  BY DEF Inv, TypeOK
<1>10. SuspendedIsTrue'
  BY <1>5 DEF SuspendedIsTrue, FinalSuspend
<1>11. NoUseAfterDestroy'
  <2> SUFFICES ASSUME ~alive' PROVE NoUseAfterDestroy'
    BY DEF NoUseAfterDestroy
  <2>1. references = 0 /\ UNCHANGED <<handles, child, waiting>>
    <3>1. references > 0 => alive' = alive
      BY DEF FinalSuspend
    <3>2. ~(references > 0)
      BY <1>5, <3>1
    <3> QED
      BY <1>9, <3>2 DEF FinalSuspend
  <2>2. OnStack({"body", "finish", "unlink"})' = {}
    BY <1>4, <1>5, <1>8, <2>1, Touching
  <2> QED
    BY <1>5, <1>6, <1>7, <1>8, <2>1, <2>2 DEF NoUseAfterDestroy
<1>12. ChildIsSubscribed'
  BY <1>5, <1>7, NamesDiffer DEF ChildIsSubscribed, FinalSuspend
<1>13. ReferencesCountHandles'
  BY <1>4 DEF Inv, ReferencesCountHandles, FinalSuspend
<1>14. ResultIsTold'
  BY <1>6 DEF ResultIsTold, FinalSuspend
<1>15. SettledAreTold'
  BY <1>4, StillTold DEF Inv, TypeOK, FinalSuspend
<1>16. LastUnlink'
  <2>1. alive' /\ handles = 0 => OnStack({"unlink"}) # {}
    BY <1>5, <1>9 DEF Inv, ReferencesCountHandles, FinalSuspend
  <2> QED
    BY <1>4, <2>1 DEF Inv, LastUnlink, FinalSuspend
<1>17. PhaseFollowsResult'
  BY <1>4, <1>6 DEF Inv, PhaseFollowsResult, FinalSuspend
<1> QED
  BY <1>3, <1>10, <1>11, <1>12, <1>13, <1>14, <1>15, <1>16, <1>17 DEF Inv

\* The rest of unlink frees a suspended coroutine, and lets a running one go.
LEMMA UnlinkEndsInv == Inv /\ UnlinkEnds => Inv'
<1> SUFFICES ASSUME Inv, UnlinkEnds PROVE Inv'
  OBVIOUS
<1>1. StackOK /\ Pop /\ Top = "unlink" /\ Top # None
  BY StackTyped, NamesDiffer DEF UnlinkEnds
<1>2. /\ StackOK'
      /\ \A C : OnStack(C)' = IF Top \in C THEN OnStack(C) \ {depth} ELSE OnStack(C)
      /\ \A C : depth \in OnStack(C) <=> Top \in C
  BY <1>1, Popped
<1>3. /\ UNCHANGED <<Running, OnStack({"body"}), OnStack({"finish"}), OnStack({Result})>>
      /\ \A g \in Futures : OnStack({g})' = OnStack({g})
      /\ depth \in OnStack({"unlink"})
      /\ OnStack({"unlink"})' = OnStack({"unlink"}) \ {depth}
  BY <1>1, <1>2, NamesDiffer DEF Running
<1>4. /\ OnStack({"unlink"})' = {}
      /\ handles = 0 /\ references = 1 /\ result # "none"
  BY <1>3 DEF Inv, LastUnlink
<1>5. alive /\ "promise" \notin waiting[Result]
  <2>1. alive
    BY <1>3, Touching DEF Inv, NoUseAfterDestroy
  <2> QED
    BY <1>1, <1>4, <2>1, PromiseIsTold, NamesDiffer
<1>6. CASE suspended
  <2>1. /\ alive' = FALSE /\ child' = None /\ waiting' = WithoutChild
        /\ UNCHANGED <<phase, suspended, references, handles, result, settled>>
    BY <1>6 DEF UnlinkEnds
  <2>2. \A f \in AllFutures : waiting'[f] = waiting[f] \ {"child"}
    BY <2>1 DEF WithoutChild
  <2>3. Running = {}
    BY <1>5, <1>6 DEF Inv, SuspendedIsTrue
  <2>4. TypeOK' /\ StackIsFull'
    <3>1. waiting' \in [AllFutures -> SUBSET Handlers]
      BY <2>1 DEF Inv, TypeOK, WithoutChild
    <3> QED
      BY <1>2, <2>1, <3>1 DEF Inv, TypeOK, StackOK
  <2>5. SuspendedIsTrue'
    BY <1>3, <2>1, <2>3 DEF SuspendedIsTrue
  <2>6. NoUseAfterDestroy'
    BY <1>3, <1>4, <1>5, <2>1, <2>2, <2>3, Touching DEF NoUseAfterDestroy, AllFutures
  <2>7. ChildIsSubscribed'
    BY <2>1, <2>2, NamesDiffer DEF ChildIsSubscribed
  <2>8. ReferencesCountHandles' /\ LastUnlink'
    BY <1>4, <2>1 DEF ReferencesCountHandles, LastUnlink
  <2>9. ResultIsTold'
    BY <1>4, <1>5, <2>1, <2>2 DEF ResultIsTold, AllFutures
  <2>10. SettledAreTold'
    BY <1>3, <2>1, <2>2, StillTold DEF Inv, TypeOK, AllFutures
  <2>11. PhaseFollowsResult'
    BY <1>3, <2>1 DEF Inv, PhaseFollowsResult
  <2> QED
    BY <2>4, <2>5, <2>6, <2>7, <2>8, <2>9, <2>10, <2>11 DEF Inv
<1>7. CASE ~suspended
  <2>1. /\ references' = 0
        /\ UNCHANGED <<alive, phase, suspended, handles, result, child, settled, waiting>>
    BY <1>7 DEF UnlinkEnds
  <2>2. Running # {}
    BY <1>5, <1>7 DEF Inv, SuspendedIsTrue
  <2>3. TypeOK' /\ StackIsFull'
    BY <1>2, <2>1, HandlesAssumption DEF Inv, TypeOK, StackOK
  <2>4. SuspendedIsTrue' /\ NoUseAfterDestroy'
    BY <1>3, <1>5, <2>1 DEF Inv, SuspendedIsTrue, NoUseAfterDestroy
  <2>5. ChildIsSubscribed'
    BY <2>1 DEF Inv, ChildIsSubscribed
  <2>6. ReferencesCountHandles' /\ LastUnlink'
    BY <1>3, <1>4, <2>1, <2>2 DEF ReferencesCountHandles, LastUnlink
  <2>7. ResultIsTold'
    BY <1>4, <1>5, <2>1 DEF ResultIsTold
  <2>8. SettledAreTold'
    BY <1>3, <2>1, StillTold DEF Inv, TypeOK
  <2>9. PhaseFollowsResult'
    BY <1>3, <2>1 DEF Inv, PhaseFollowsResult
  <2> QED
    BY <2>3, <2>4, <2>5, <2>6, <2>7, <2>8, <2>9 DEF Inv
<1> QED
  BY <1>6, <1>7

----------------------------------------------------------------------------
(* A settled future calls its handlers.                                     *)

LEMMA NotifyWatcherInv ==
    ASSUME NEW f \in AllFutures, Inv, NotifyWatcher(f)
    PROVE  Inv'
<1>1. /\ Top = f /\ "promise" \notin waiting[f] /\ Push("watcher")
      /\ waiting' = [waiting EXCEPT ![f] = @ \ {"watch"}]
      /\ UNCHANGED <<alive, phase, suspended, references, handles, result, child, settled>>
  BY DEF NotifyWatcher, Notifying, promise
<1>2. /\ StackOK' /\ Top' = "watcher"
      /\ \A C : OnStack(C)' = IF "watcher" \in C THEN OnStack(C) \cup {depth'} ELSE OnStack(C)
  BY <1>1, Pushed, StackTyped DEF Calls
<1>3. /\ UNCHANGED <<OnStack({"body"}), OnStack({"finish"}), OnStack({"unlink"})>>
      /\ OnStack({Result})' = OnStack({Result})
      /\ \A g \in Futures : OnStack({g})' = OnStack({g})
  BY <1>2, NamesDiffer
<1>4. /\ waiting' \in [AllFutures -> SUBSET Handlers]
      /\ \A g \in AllFutures : /\ waiting'[g] \subseteq waiting[g]
                               /\ waiting[g] \ {"watch"} = waiting'[g] \ {"watch"}
  BY <1>1 DEF Inv, TypeOK
<1>5. TypeOK' /\ StackIsFull'
  BY <1>1, <1>2, <1>4 DEF Inv, TypeOK, StackOK
<1>6. ResultIsTold'
  <2>1. result # "none" => "promise" \notin waiting[Result]
    BY <1>1, PromiseIsTold
  <2> QED
    BY <1>1, <1>3, <1>4, <2>1 DEF Inv, ResultIsTold, AllFutures
<1>7. SettledAreTold'
  BY <1>1, <1>3, <1>4, StillTold DEF Inv, TypeOK, AllFutures
<1> QED
  BY <1>1, <1>3, <1>4, <1>5, <1>6, <1>7, Bystander

\* The child ends and the body runs again, which nobody else does.
LEMMA NotifyChildInv ==
    ASSUME NEW f \in Futures, Inv, NotifyChild(f)
    PROVE  Inv'
<1>1. Push("body") /\ Top = f
  BY DEF NotifyChild, Notifying
<1>2. /\ StackOK' /\ Top' = "body"
      /\ \A C : OnStack(C)' = IF "body" \in C THEN OnStack(C) \cup {depth'} ELSE OnStack(C)
  BY <1>1, Pushed, StackTyped DEF Calls
<1>3. /\ OnStack({"body"})' = OnStack({"body"}) \cup {depth'}
      /\ Running' = Running \cup {depth'}
      /\ UNCHANGED <<OnStack({"finish"}), OnStack({"unlink"}), OnStack({Result})>>
      /\ \A g \in Futures : OnStack({g})' = OnStack({g})
  BY <1>2, NamesDiffer DEF Running
<1>4. /\ child = f /\ suspended /\ phase = "Started"
      /\ alive /\ Running = {}
  <2>1. child = f
    BY DEF Inv, ChildIsSubscribed, NotifyChild, AllFutures
  <2>2. child # None
    BY <2>1, FuturesAssumption
  <2>3. alive
    BY <2>2 DEF Inv, NoUseAfterDestroy
  <2> QED
    BY <2>1, <2>2, <2>3 DEF Inv, ChildIsSubscribed, SuspendedIsTrue
<1>5. /\ ~suspended' /\ child' = None
      /\ UNCHANGED <<alive, phase, references, handles, result, settled>>
      /\ \A g \in AllFutures : waiting'[g] = IF g = f THEN waiting[g] \ {"child"} ELSE waiting[g]
  BY DEF Inv, TypeOK, NotifyChild
<1>6. result # "none" => "promise" \notin waiting[Result]
  BY <1>1, PromiseIsTold, FuturesAssumption
<1>7. TypeOK' /\ StackIsFull'
  <2>1. waiting' \in [AllFutures -> SUBSET Handlers]
    BY DEF Inv, TypeOK, NotifyChild
  <2> QED
    BY <1>2, <2>1 DEF Inv, TypeOK, NotifyChild, StackOK
<1>8. SuspendedIsTrue'
  BY <1>3, <1>4, <1>5 DEF SuspendedIsTrue
<1>9. NoUseAfterDestroy'
  BY <1>4, <1>5 DEF NoUseAfterDestroy
<1>10. ChildIsSubscribed'
  BY <1>4, <1>5, NamesDiffer DEF Inv, ChildIsSubscribed
<1>11. ReferencesCountHandles'
  BY <1>3, <1>5 DEF Inv, ReferencesCountHandles
<1>12. ResultIsTold'
  BY <1>3, <1>5, <1>6, FuturesAssumption DEF Inv, ResultIsTold, AllFutures
<1>13. SettledAreTold'
  BY <1>3, <1>5, StillTold DEF Inv, TypeOK, AllFutures
<1>14. LastUnlink'
  BY <1>3, <1>5 DEF Inv, LastUnlink
<1>15. PhaseFollowsResult'
  BY <1>3, <1>4, <1>5 DEF Inv, PhaseFollowsResult
<1> QED
  BY <1>7, <1>8, <1>9, <1>10, <1>11, <1>12, <1>13, <1>14, <1>15 DEF Inv

\* The promise's own handler resumes a task that is stopped where it is suspended.
LEMMA NotifyPromiseInv == Inv /\ NotifyPromise => Inv'
<1> SUFFICES ASSUME Inv, NotifyPromise PROVE Inv'
  OBVIOUS
<1>1. /\ Top = Result /\ "promise" \in waiting[Result]
      /\ UNCHANGED <<alive, phase, references, handles, result, settled>>
  BY DEF NotifyPromise, Notifying
<1>2. alive /\ result # "none"
  <2>1. depth \in OnStack({Result})
    BY <1>1, NamesDiffer, DepthAssumption DEF Inv, TypeOK, OnStack, Top, AllFutures
  <2> QED
    BY <1>1, <2>1 DEF Inv, NoUseAfterDestroy, ResultIsTold
<1>3. CASE ~suspended \/ phase = "Finished"
  <2>1. /\ waiting' = [waiting EXCEPT ![Result] = @ \ {"promise"}]
        /\ UNCHANGED <<suspended, child, control>>
    BY <1>3 DEF NotifyPromise
  <2>2. (\A C : OnStack(C)' = OnStack(C)) /\ Top' = Top /\ Running' = Running
    BY <2>1 DEF control, OnStack, Top, Running
  <2>3. \A g \in AllFutures :
           waiting'[g] = IF g = Result THEN waiting[g] \ {"promise"} ELSE waiting[g]
    BY <2>1 DEF Inv, TypeOK
  <2>4. TypeOK' /\ StackIsFull'
    BY <1>1, <2>1 DEF Inv, TypeOK, StackIsFull, control
  <2>5. SuspendedIsTrue' /\ NoUseAfterDestroy' /\ ReferencesCountHandles' /\ LastUnlink'
    BY <1>1, <1>2, <2>1, <2>2
    DEF Inv, SuspendedIsTrue, NoUseAfterDestroy, ReferencesCountHandles, LastUnlink
  <2>6. ChildIsSubscribed'
    BY <1>1, <2>1, <2>3 DEF Inv, ChildIsSubscribed
  <2>7. ResultIsTold'
    BY <1>1, <1>2, <2>3 DEF ResultIsTold, AllFutures
  <2>8. SettledAreTold'
    BY <1>1, <2>2, <2>3, StillTold DEF Inv, TypeOK, AllFutures
  <2>9. PhaseFollowsResult'
    BY <1>1, <1>2, <1>3, <2>1, <2>2 DEF Inv, PhaseFollowsResult, SuspendedIsTrue
  <2> QED
    BY <2>4, <2>5, <2>6, <2>7, <2>8, <2>9 DEF Inv
<1>4. CASE suspended /\ phase # "Finished"
  <2> DEFINE c == IF phase = "Initial" THEN "finish" ELSE "body"
  <2>1. /\ suspended' = FALSE /\ child' = None /\ Push(c)
        /\ waiting' = [WithoutChild EXCEPT ![Result] = @ \ {"promise"}]
    BY <1>4 DEF NotifyPromise
  <2>2. /\ StackOK' /\ Top' = c
        /\ \A C : OnStack(C)' = IF c \in C THEN OnStack(C) \cup {depth'} ELSE OnStack(C)
    BY <2>1, Pushed, StackTyped DEF Calls
  <2>3. /\ Running' = Running \cup {depth'}
        /\ OnStack({"unlink"})' = OnStack({"unlink"})
        /\ phase = "Initial" => OnStack({"body"})' = OnStack({"body"})
        /\ \A g \in Futures : OnStack({g})' = OnStack({g})
    BY <2>2, NamesDiffer DEF Running
  <2>4. \A g \in AllFutures :
           waiting'[g] = waiting[g] \ (IF g = Result THEN {"promise", "child"} ELSE {"child"})
    BY <2>1 DEF WithoutChild, AllFutures
  <2>5. Running = {}
    BY <1>2, <1>4 DEF Inv, SuspendedIsTrue
  <2>6. TypeOK' /\ StackIsFull'
    <3>1. waiting' \in [AllFutures -> SUBSET Handlers]
      BY <2>1 DEF Inv, TypeOK, WithoutChild
    <3> QED
      BY <1>1, <2>1, <2>2, <3>1 DEF Inv, TypeOK, StackOK
  <2>7. SuspendedIsTrue' /\ NoUseAfterDestroy'
    BY <1>1, <1>2, <2>1, <2>3, <2>5 DEF SuspendedIsTrue, NoUseAfterDestroy
  <2>8. ChildIsSubscribed'
    BY <2>1, <2>4, NamesDiffer DEF ChildIsSubscribed
  <2>9. ReferencesCountHandles' /\ LastUnlink'
    BY <1>1, <2>3 DEF Inv, ReferencesCountHandles, LastUnlink
  <2>10. ResultIsTold'
    BY <1>1, <1>2, <2>4 DEF ResultIsTold, AllFutures
  <2>11. SettledAreTold'
    BY <1>1, <2>3, <2>4, StillTold DEF Inv, TypeOK, AllFutures
  <2>12. PhaseFollowsResult'
    BY <1>1, <1>2, <2>3 DEF Inv, PhaseFollowsResult
  <2> QED
    BY <2>6, <2>7, <2>8, <2>9, <2>10, <2>11, <2>12 DEF Inv
<1> QED
  BY <1>3, <1>4

\* A call that touches nothing but its own place on the stack returns.
LEMMA CallReturns ==
    ASSUME Inv, Pop, Top # None, Top \notin {"body", "finish", "unlink"},
           Top \in settled => waiting[Top] = {},
           Top = Result => "promise" \notin waiting[Result],
           UNCHANGED <<alive, phase, suspended, references, handles, result, child,
                       settled, waiting>>
    PROVE  Inv'
<1>1. /\ StackOK'
      /\ \A C : OnStack(C)' = IF Top \in C THEN OnStack(C) \ {depth} ELSE OnStack(C)
  BY Popped, StackTyped
<1>2. /\ UNCHANGED <<OnStack({"body"}), OnStack({"finish"}), OnStack({"unlink"})>>
      /\ OnStack({Result})' \subseteq OnStack({Result})
      /\ \A g \in settled : Top # g => OnStack({g})' = OnStack({g})
  BY <1>1
<1>3. TypeOK' /\ StackIsFull'
  BY <1>1 DEF Inv, TypeOK, StackOK
<1>4. ResultIsTold'
  <2>1. result # "none" => "promise" \notin waiting[Result]
    BY PromiseIsTold
  <2> QED
    BY <1>2, <2>1 DEF Inv, ResultIsTold
<1>5. SettledAreTold'
  <2>1. \A g \in settled : OnStack({g}) \subseteq OnStack({g})' \/ waiting[g] = {}
    BY <1>2
  <2> QED
    BY <2>1, StillTold DEF Inv
<1> QED
  BY <1>2, <1>3, <1>4, <1>5, Bystander

LEMMA NotifyDoneInv ==
    ASSUME NEW f \in AllFutures, Inv, NotifyDone(f)
    PROVE  Inv'
<1>1. Top = f /\ waiting[f] = {} /\ Pop
  BY DEF NotifyDone, Notifying
<1>2. Top # None /\ Top \notin {"body", "finish", "unlink"}
  BY <1>1, NamesDiffer DEF AllFutures
<1> QED
  BY <1>1, <1>2, CallReturns DEF NotifyDone, promise

LEMMA WatcherReturnsInv == Inv /\ WatcherReturns => Inv'
<1> SUFFICES ASSUME Inv, WatcherReturns PROVE Inv'
  OBVIOUS
<1>1. Top = "watcher" /\ Top # None /\ Top \notin AllFutures /\ Pop
  BY NamesDiffer DEF WatcherReturns, AllFutures
<1>2. Top \notin settled /\ Top # Result
  BY <1>1 DEF Inv, TypeOK, AllFutures
<1> QED
  BY <1>1, <1>2, CallReturns DEF WatcherReturns, promise

----------------------------------------------------------------------------
(* The theorems.                                                            *)

LEMMA StutterInv == Inv /\ UNCHANGED vars => Inv'
<1> SUFFICES ASSUME Inv, UNCHANGED vars PROVE Inv'
  OBVIOUS
<1>1. UNCHANGED <<alive, phase, suspended, references, handles, result, child, settled,
                  waiting, depth, stack>>
  BY DEF vars, promise, control
<1>2. (\A C : OnStack(C)' = OnStack(C)) /\ Top' = Top /\ Running' = Running
  BY <1>1 DEF OnStack, Top, Running
<1> QED
  BY <1>1, <1>2
  DEF Inv, TypeOK, StackIsFull, SuspendedIsTrue, NoUseAfterDestroy, ChildIsSubscribed,
      ReferencesCountHandles, ResultIsTold, SettledAreTold, LastUnlink, PhaseFollowsResult

LEMMA NextInv == Inv /\ [Next]_vars => Inv'
<1> SUFFICES ASSUME Inv, [Next]_vars PROVE Inv'
  OBVIOUS
<1>1. CASE Client
  BY <1>1, StartInv, StopInv, CopyInv, UnlinkInv, WatchInv, SettleInv DEF Client
<1>2. CASE BodyStep
  BY <1>2, AwaitInv, AwaitNeverInv, BodyEndsInv DEF BodyStep
<1>3. CASE Library
  BY <1>3, FinalSuspendInv, UnlinkEndsInv, NotifyWatcherInv, NotifyDoneInv, NotifyChildInv,
     NotifyPromiseInv DEF Library
<1>4. CASE WatcherReturns
  BY <1>4, WatcherReturnsInv
<1>5. CASE Over \/ UNCHANGED vars
  BY <1>5, StutterInv DEF Over
<1> QED
  BY <1>1, <1>2, <1>3, <1>4, <1>5 DEF Next

\* The invariant holds in every behaviour of the task, with or without fairness.
THEOREM Invariance == Spec => []Inv
<1> QED
  BY InitInv, NextInv, PTL DEF Spec

\* The flag that resume and destroy look at, state_.suspended, is set exactly
\* while no call on the control stack is running the coroutine, and at most one
\* is, for any number of futures, handles and nested calls.
THEOREM TheFlagIsTrue == Spec => []SuspendedIsTrue
<1>1. Inv => SuspendedIsTrue
  BY DEF Inv
<1> QED
  BY <1>1, Invariance, PTL

\* No call, handle, child or handler is left that would touch the promise once
\* its frame is gone.
THEOREM NothingDangles == Spec => []NoUseAfterDestroy
<1>1. Inv => NoUseAfterDestroy
  BY DEF Inv
<1> QED
  BY <1>1, Invariance, PTL

\* The state is typed, a child is subscribed to the future it waits for and to no
\* other, and the reference count is the number of handles, but for the last
\* one that is being unlinked.
THEOREM LinksStayTrue == Spec => []LinksAreTrue
<1>1. Inv => LinksAreTrue
  BY DEF Inv, LinksAreTrue
<1> QED
  BY <1>1, Invariance, PTL

\* Between two calls from outside, when the control stack is empty, the frame is
\* there as long as a handle is, a settled task has run to its end, and no child
\* waits for a future that is settled.
THEOREM NoneIsLeftBehind == Spec => []NothingLeftBehind
<1>1. ASSUME Inv, depth = 0
      PROVE  /\ handles = 0 <=> ~alive
             /\ alive => (result # "none" <=> phase = "Finished")
             /\ child \notin settled
  <2>1. Running = {} /\ \A C : OnStack(C) = {}
    BY <1>1 DEF Running, OnStack
  <2>2. Top # Result
    BY <1>1, NamesDiffer DEF Top, AllFutures
  <2>3. handles = 0 <=> ~alive
    BY <1>1, <2>1 DEF Inv, NoUseAfterDestroy, LastUnlink
  <2>4. alive => (result # "none" <=> phase = "Finished")
    BY <1>1, <2>1, <2>2 DEF Inv, PhaseFollowsResult, ResultIsTold
  <2>5. child \notin settled
    <3> SUFFICES ASSUME child \in settled PROVE FALSE
      OBVIOUS
    <3>1. "child" \in waiting[child]
      BY <1>1 DEF Inv, TypeOK, ChildIsSubscribed, AllFutures
    <3> QED
      BY <1>1, <2>1, <3>1 DEF Inv, SettledAreTold
  <2> QED
    BY <2>3, <2>4, <2>5
<1>2. Inv => NothingLeftBehind
  BY <1>1 DEF NothingLeftBehind
<1> QED
  BY <1>2, Invariance, PTL

\* What a step may do to the state that Task::state reports.
LEMMA StateSteps ==
    ASSUME Inv, [Next]_vars
    PROVE  /\ result # "none" => result' = result
           /\ phase # "Initial" => phase' # "Initial"
<1>1. CASE Client
  BY <1>1 DEF Client, Start, Stop, Copy, Unlink, Watch, Unwatch, Settle, promise
<1>2. CASE BodyStep
  BY <1>2 DEF BodyStep, Await, AwaitNever, BodyEnds
<1>3. CASE Library
  BY <1>3 DEF Library, FinalSuspend, UnlinkEnds, NotifyWatcher, NotifyDone, NotifyChild,
              NotifyPromise, promise
<1>4. CASE WatcherReturns \/ Over \/ UNCHANGED vars
  BY <1>4 DEF WatcherReturns, Over, vars, promise
<1> QED
  BY <1>1, <1>2, <1>3, <1>4 DEF Next

\* A task keeps the state it ended in, never returns to its initial one, and is
\* never in the state that is none, whatever is called from within its handlers.
THEOREM TasksMoveForward == Spec => MovesForward
<1> DEFINE Moves == /\ TaskState \in {"Finished", "Cancelled"} => TaskState' = TaskState
                    /\ TaskState = "Started" => TaskState' # "Initial"
                    /\ handles' > 0 => TaskState' # "Bad"
<1>1. Inv /\ [Next]_vars => [Moves]_vars
  <2> SUFFICES ASSUME Inv, [Next]_vars PROVE Moves
    OBVIOUS
  <2>1. /\ result # "none" => result' = result
        /\ phase # "Initial" => phase' # "Initial"
    BY StateSteps
  <2>2. /\ phase' = "Finished" => result' # "none"
        /\ result' \in {"value", "exception"} => phase' # "Initial"
    BY NextInv DEF Inv, PhaseFollowsResult
  <2>3. /\ result \in {"none", "value", "exception", "cancelled"}
        /\ result' \in {"none", "value", "exception", "cancelled"}
        /\ phase' \in {"Initial", "Started", "Finished"}
    BY NextInv DEF Inv, TypeOK
  <2> QED
    BY <2>1, <2>2, <2>3 DEF TaskState
<1> QED
  BY <1>1, Invariance, PTL DEF Spec, MovesForward
=============================================================================
