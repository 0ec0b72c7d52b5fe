--------------------------- MODULE ChannelProofs ---------------------------
(***************************************************************************)
(* Proofs about the event channel, for every number of subscriptions and   *)
(* every depth of nested dispatches: its invariants, that a cancelled      *)
(* subscription never comes back, and that the list with its lock and its  *)
(* iterators implements AbstractChannel.                                   *)
(***************************************************************************)
EXTENDS Channel, TLAPS

\* The invariant is inductive as the four properties stand together: the
\* iterators stay valid because only the outermost walk erases, which takes
\* LockHeldByOutermost, and the lock is released by the right frame because
\* the flags of the frames say which one owns it.
Inv == TypeOK /\ PointersMatch /\ IteratorsValid /\ LockHeldByOutermost

LEMMA InitInv == Init => Inv
<1> SUFFICES ASSUME Init PROVE Inv
  OBVIOUS
<1>1. TypeOK
  <2>1. EndOfList \in 1..EndOfList /\ 1 \in 1..EndOfList /\ 0 \in 0..MaxDepth
    BY SubsAssumption, DepthAssumption DEF EndOfList
  <2> QED
    BY <2>1 DEF Init, TypeOK
<1>2. PointersMatch
  BY DEF Init, PointersMatch, Live
<1>3. 1..depth = {}
  BY DEF Init
<1>4. IteratorsValid /\ LockHeldByOutermost
  BY <1>3 DEF Init, IteratorsValid, LockHeldByOutermost
<1> QED
  BY <1>1, <1>2, <1>4 DEF Inv

----------------------------------------------------------------------------
(* The steps of a client.                                                   *)

LEMMA SubscribeInv == Inv /\ Subscribe => Inv'
  BY SubsAssumption, DepthAssumption
  DEF Subscribe, ClientRuns, frames, Inv, TypeOK, PointersMatch, IteratorsValid,
      LockHeldByOutermost, Subs, Frames, EndOfList, Live

LEMMA PinInv == ASSUME NEW s \in Subs PROVE Inv /\ Pin(s) => Inv'
  BY SubsAssumption, DepthAssumption
  DEF Pin, frames, Inv, TypeOK, PointersMatch, IteratorsValid,
      LockHeldByOutermost, Subs, Frames, EndOfList, Live

LEMMA UnpinInv == ASSUME NEW s \in Subs PROVE Inv /\ Unpin(s) => Inv'
  BY SubsAssumption, DepthAssumption
  DEF Unpin, frames, Inv, TypeOK, PointersMatch, IteratorsValid,
      LockHeldByOutermost, Subs, Frames, EndOfList, Live

LEMMA CancelInv == ASSUME NEW s \in Subs PROVE Inv /\ Cancel(s) => Inv'
  BY SubsAssumption, DepthAssumption
  DEF Cancel, frames, Inv, TypeOK, PointersMatch, IteratorsValid,
      LockHeldByOutermost, Subs, Frames, EndOfList, Live

LEMMA ReleaseInv == ASSUME NEW s \in Subs PROVE Inv /\ Release(s) => Inv'
  BY SubsAssumption, DepthAssumption
  DEF Release, frames, Inv, TypeOK, PointersMatch, IteratorsValid,
      LockHeldByOutermost, Subs, Frames, EndOfList, Live

LEMMA DestroyInv == Inv /\ Destroy => Inv'
  BY SubsAssumption, DepthAssumption
  DEF Destroy, frames, Inv, TypeOK, PointersMatch, IteratorsValid,
      LockHeldByOutermost, Subs, Frames, EndOfList, Live

----------------------------------------------------------------------------
(* The steps of the walk.                                                   *)

LEMMA BeginDispatchInv == Inv /\ BeginDispatch => Inv'
<1> SUFFICES ASSUME Inv, BeginDispatch PROVE Inv'
  OBVIOUS
<1> USE SubsAssumption, DepthAssumption DEF Inv
<1>1. PICK j \in Subs : Follows(0, j) /\ at' = [at EXCEPT ![depth + 1] = j]
  BY DEF BeginDispatch
<1>2. j \in items
  BY <1>1 DEF Follows, Subs, EndOfList
<1>3. depth + 1 \in Frames /\ depth' = depth + 1 /\ ~calling'
  BY DEF BeginDispatch, TypeOK, Frames
<1>4. /\ owner' \in [Frames -> BOOLEAN]
      /\ owner'[depth + 1] = ~lock
      /\ \A k \in Frames : k # depth + 1 => owner'[k] = owner[k]
  BY <1>3, Zenon DEF BeginDispatch, TypeOK
<1>5. at' \in [Frames -> 1..EndOfList]
  BY <1>1, <1>3 DEF TypeOK, Subs, EndOfList
<1>6. TypeOK'
  <2>1. depth' \in 0..MaxDepth
    BY <1>3 DEF TypeOK, Frames
  <2> QED
    BY <1>4, <1>5, <2>1 DEF BeginDispatch, pool, TypeOK
<1>7. PointersMatch'
  BY DEF BeginDispatch, pool, PointersMatch, Live
<1>8. IteratorsValid'
  BY <1>1, <1>2, <1>3
  DEF BeginDispatch, ClientRuns, pool, IteratorsValid, TypeOK, Frames
<1>9. LockHeldByOutermost'
  <2>1. \A k \in 1..depth' : owner'[k] <=> k = 1
    BY <1>3, <1>4 DEF LockHeldByOutermost, TypeOK, Frames
  <2> QED
    BY <2>1, <1>3 DEF BeginDispatch, LockHeldByOutermost, TypeOK, Frames
<1> QED
  BY <1>6, <1>7, <1>8, <1>9

LEMMA CallHandlerInv == Inv /\ CallHandler => Inv'
  BY SubsAssumption, DepthAssumption
  DEF CallHandler, Walking, pool, Inv, TypeOK, PointersMatch,
      IteratorsValid, LockHeldByOutermost, Subs, Frames, EndOfList, Live

LEMMA HandlerReturnsInv == Inv /\ HandlerReturns => Inv'
<1> SUFFICES ASSUME Inv, HandlerReturns PROVE Inv'
  OBVIOUS
<1> USE SubsAssumption, DepthAssumption DEF Inv
<1>1. PICK j \in 1..EndOfList :
        Follows(at[depth], j) /\ at' = [at EXCEPT ![depth] = j]
  BY DEF HandlerReturns
<1>2. depth \in Frames /\ depth' = depth /\ ~calling'
  BY DEF HandlerReturns, TypeOK, Frames, LockHeldByOutermost
<1>3. TypeOK'
  BY <1>1, <1>2 DEF HandlerReturns, pool, TypeOK
<1>4. PointersMatch'
  BY DEF HandlerReturns, pool, PointersMatch, Live
<1>5. IteratorsValid'
  BY <1>1, <1>2
  DEF HandlerReturns, Follows, pool, IteratorsValid, TypeOK, Frames, EndOfList
<1>6. LockHeldByOutermost'
  BY <1>2 DEF HandlerReturns, LockHeldByOutermost
<1> QED
  BY <1>3, <1>4, <1>5, <1>6

LEMMA SweepInv == Inv /\ Sweep => Inv'
<1> SUFFICES ASSUME Inv, Sweep PROVE Inv'
  OBVIOUS
<1> USE SubsAssumption, DepthAssumption DEF Inv
<1>1. PICK j \in 1..EndOfList :
        Follows(at[depth], j) /\ at' = [at EXCEPT ![depth] = j]
  BY DEF Sweep
<1>2. depth = 1 /\ depth \in Frames
  BY DEF Sweep, Walking, TypeOK, Frames, LockHeldByOutermost
<1>3. TypeOK'
  BY <1>1, <1>2 DEF Sweep, TypeOK
<1>4. PointersMatch'
  BY DEF Sweep, Dead, PointersMatch, Live
<1>5. IteratorsValid'
  BY <1>1, <1>2
  DEF Sweep, Walking, Follows, IteratorsValid, TypeOK, Frames, EndOfList
<1>6. LockHeldByOutermost'
  BY DEF Sweep, LockHeldByOutermost
<1> QED
  BY <1>3, <1>4, <1>5, <1>6

LEMMA EndDispatchInv == Inv /\ EndDispatch => Inv'
  BY SubsAssumption, DepthAssumption
  DEF EndDispatch, Walking, pool, Inv, TypeOK, PointersMatch,
      IteratorsValid, LockHeldByOutermost, Subs, Frames, EndOfList, Live

LEMMA StutterInv == Inv /\ UNCHANGED vars => Inv'
  BY DEF vars, pool, frames, Inv, TypeOK, PointersMatch,
         IteratorsValid, LockHeldByOutermost, Live

LEMMA NextInv == Inv /\ [Next]_vars => Inv'
<1> SUFFICES ASSUME Inv, [Next]_vars PROVE Inv'
  OBVIOUS
<1>1. CASE Client
  BY <1>1, SubscribeInv, PinInv, UnpinInv, CancelInv, ReleaseInv,
     BeginDispatchInv, DestroyInv DEF Client
<1>2. CASE Walk
  BY <1>2, CallHandlerInv, SweepInv, EndDispatchInv, StutterInv DEF Walk, Spin
<1>3. CASE HandlerReturns
  BY <1>3, HandlerReturnsInv
<1>4. CASE Gone \/ UNCHANGED vars
  BY <1>4, StutterInv DEF Gone
<1> QED
  BY <1>1, <1>2, <1>3, <1>4 DEF Next

\* Inv holds in every reachable state.
THEOREM Invariance == Spec => []Inv
  BY InitInv, NextInv, PTL DEF Spec

\* Every variable keeps its type.
THEOREM Typing == Spec => []TypeOK
  BY Invariance, PTL DEF Inv

\* No pointer between an item and its subscription dangles.
THEOREM PointersNeverDangle == Spec => []PointersMatch
  BY Invariance, PTL DEF Inv

\* No walk ever stands on an item that was erased.
THEOREM IteratorsStayValid == Spec => []IteratorsValid
  BY Invariance, PTL DEF Inv

\* The lock belongs to the outermost walk and nobody else.
THEOREM LockDiscipline == Spec => []LockHeldByOutermost
  BY Invariance, PTL DEF Inv

\* No pointer, no iterator and no lock of a walk is ever a stale one, whatever
\* handlers do to the list between two of its steps.
THEOREM WalkStaysSound == Spec => []WalkIsSound
  BY PointersNeverDangle, IteratorsStayValid, LockDiscipline, PTL DEF WalkIsSound

----------------------------------------------------------------------------
(* Cancelling is final.                                                     *)

\* A step makes at most the subscription it creates live.
LEMMA LiveGrowsByNext == Inv /\ [Next]_vars => Live' \subseteq Live \cup {next}
<1> SUFFICES ASSUME Inv, [Next]_vars PROVE Live' \subseteq Live \cup {next}
  OBVIOUS
<1>1. CASE Client
  <2>1. CASE \E s \in Subs : Pin(s)
    BY <2>1 DEF Pin, Live, Inv, PointersMatch
  <2>2. CASE ~ \E s \in Subs : Pin(s)
    BY <1>1, <2>2
    DEF Client, Subscribe, Unpin, Cancel, Release, BeginDispatch, Destroy,
        pool, Live
  <2> QED
    BY <2>1, <2>2
<1>2. CASE Walk \/ HandlerReturns \/ Gone \/ UNCHANGED vars
  BY <1>2 DEF Walk, CallHandler, Sweep, Spin, EndDispatch, HandlerReturns, Gone,
              vars, pool, Live
<1> QED
  BY <1>1, <1>2 DEF Next

\* NoRevival, for any number of subscriptions.
THEOREM CancelIsFinal == Spec => NoRevival
<1>1. Inv /\ [Next]_vars
        => [\A s \in Subs : s < next /\ s \notin Live => s \notin Live']_vars
  BY LiveGrowsByNext, SubsAssumption DEF Inv, TypeOK, Subs
<1> QED
  BY <1>1, Invariance, PTL DEF Spec, NoRevival

----------------------------------------------------------------------------
(* The channel implements its promise.                                      *)

LEMMA InitRefines == Init => Promise!Init
  BY DEF Init, Promise!Init, Live, Pending, Ahead, Frames, Promise!Frames

\* The client's steps.  A pin, an unpin, and the release of a pinned item
\* leave what is live alone, so they stutter.
LEMMA SubscribeRefines == Inv /\ Subscribe => Promise!Subscribe
<1> SUFFICES ASSUME Inv, Subscribe PROVE Promise!Subscribe
  OBVIOUS
<1> USE SubsAssumption, DepthAssumption DEF Inv
<1>1. Live' = Live \cup {next}
  BY DEF Subscribe, Live
<1>2. \A k \in 1..depth : at[k] \in items /\ at[k] < next
  BY DEF Subscribe, ClientRuns, IteratorsValid, PointersMatch, TypeOK, Frames
<1>3. Pending' = [k \in Frames |->
                    IF k <= depth THEN Pending[k] \cup {next} ELSE Pending[k]]
  <2>1. ASSUME NEW k \in 1..depth PROVE Ahead(k)' = Ahead(k) \cup {next}
    <3>1. at[k] < next /\ next \notin Live /\ (k = depth => calling)
      BY <1>2 DEF Subscribe, ClientRuns, PointersMatch, TypeOK
    <3> QED
      BY <1>1, <3>1 DEF Subscribe, frames, Ahead
  <2>2. \A k \in Frames : k <= depth => k \in 1..depth
    BY DEF Frames, TypeOK
  <2> QED
    BY <2>1, <2>2 DEF Subscribe, frames, Pending
<1> QED
  BY <1>1, <1>3 DEF Subscribe, ClientRuns, frames, Promise!Subscribe,
     Promise!ClientRuns, Promise!Frames, Frames

\* Taking s out of what is live takes it out of everything pending.
LEMMA DropRefines ==
    ASSUME NEW s \in Subs, Inv, ClientRuns, s \in Live, Live' = Live \ {s},
           UNCHANGED <<alive, next, depth, at, calling>>
    PROVE  Promise!Drop(s)
<1>1. Pending' = [k \in Frames |-> Pending[k] \ {s}]
  BY DEF Pending, Ahead
<1> QED
  BY <1>1 DEF Promise!Drop, Promise!ClientRuns, ClientRuns, Promise!Frames, Frames

LEMMA SameLiveRefines ==
    ASSUME Live' = Live, UNCHANGED <<alive, next, depth, at, calling>>
    PROVE  UNCHANGED Promise!vars
  BY DEF Promise!vars, Pending, Ahead

LEMMA CancelRefines == ASSUME NEW s \in Subs PROVE Inv /\ Cancel(s) => Promise!Drop(s)
<1> SUFFICES ASSUME Inv, Cancel(s) PROVE Promise!Drop(s)
  OBVIOUS
<1>1. s \in Live /\ Live' = Live \ {s}
  BY DEF Cancel, Live, Inv, PointersMatch
<1> QED
  BY <1>1, DropRefines DEF Cancel, frames

LEMMA ReleaseRefines ==
    ASSUME NEW s \in Subs
    PROVE  Inv /\ Release(s) => Promise!Drop(s) \/ UNCHANGED Promise!vars
<1> SUFFICES ASSUME Inv, Release(s) PROVE Promise!Drop(s) \/ UNCHANGED Promise!vars
  OBVIOUS
<1>1. CASE s \in linked /\ s \notin pinned
  <2>1. s \in Live /\ Live' = Live \ {s}
    BY <1>1 DEF Release, Live, Inv, PointersMatch
  <2> QED
    BY <2>1, DropRefines DEF Release, frames
<1>2. CASE s \notin linked \/ s \in pinned
  <2>1. Live' = Live
    BY <1>2 DEF Release, Live
  <2> QED
    BY <2>1, SameLiveRefines DEF Release, frames
<1> QED
  BY <1>1, <1>2

LEMMA PinRefines ==
    ASSUME NEW s \in Subs
    PROVE  Inv /\ (Pin(s) \/ Unpin(s)) => UNCHANGED Promise!vars
<1> SUFFICES ASSUME Inv, Pin(s) \/ Unpin(s) PROVE UNCHANGED Promise!vars
  OBVIOUS
<1>1. Live' = Live
  BY DEF Pin, Unpin, Live, Inv, PointersMatch
<1> QED
  BY <1>1, SameLiveRefines DEF Pin, Unpin, frames

LEMMA DestroyRefines == Inv /\ Destroy => Promise!Close
<1> SUFFICES ASSUME Inv, Destroy PROVE Promise!Close
  OBVIOUS
<1>1. Live' = {} /\ Pending' = Pending
  BY DEF Destroy, Live, Pending, frames, Inv, TypeOK, Frames
<1> QED
  BY <1>1 DEF Destroy, frames, Promise!Close

\* The walk's steps.
LEMMA BeginRefines == Inv /\ BeginDispatch => Promise!Begin
<1> SUFFICES ASSUME Inv, BeginDispatch PROVE Promise!Begin
  OBVIOUS
<1> USE SubsAssumption, DepthAssumption DEF Inv
<1>1. PICK j \in Subs : Follows(0, j) /\ at' = [at EXCEPT ![depth + 1] = j]
  BY DEF BeginDispatch
<1>2. /\ Live' = Live /\ ~calling'
      /\ depth + 1 \in Frames /\ depth' = depth + 1 /\ depth \in Nat
  BY DEF BeginDispatch, pool, Live, TypeOK, Frames
<1>3. PICK d \in Frames : d = depth + 1
  BY <1>2
<1>4. at'[d] = j /\ \A k \in 1..depth : at'[k] = at[k]
  BY <1>1, <1>2, <1>3 DEF TypeOK, Frames
<1>5. Ahead(d)' = Live
  <2>1. \A s \in Live : s \in Nat /\ (j < s \/ j = s)
    BY <1>1 DEF Follows, TypeOK, PointersMatch, Live, Subs
  <2> QED
    BY <1>2, <1>3, <1>4, <2>1 DEF Ahead
<1>6. ASSUME NEW k \in 1..depth PROVE Ahead(k)' = Ahead(k)
  BY <1>2, <1>4 DEF Ahead, BeginDispatch, ClientRuns
<1>7. Pending' = [Pending EXCEPT ![d] = Live]
  <2>1. \A k \in Frames : k <= depth' => k = d \/ k \in 1..depth
    BY <1>2, <1>3 DEF Frames
  <2>2. \A k \in Frames : k # d => (k <= depth' <=> k <= depth)
    BY <1>2, <1>3 DEF Frames
  <2>3. \A k \in Frames : k <= depth => k \in 1..depth
    BY <1>2 DEF Frames
  <2>4. d <= depth'
    BY <1>2, <1>3
  <2> QED
    BY <1>5, <1>6, <2>1, <2>2, <2>3, <2>4 DEF Pending
<1> QED
  BY <1>2, <1>3, <1>7 DEF BeginDispatch, ClientRuns, pool,
     Promise!Begin, Promise!ClientRuns, Frames

LEMMA CallRefines == Inv /\ CallHandler => Promise!Deliver(at[depth])
<1> SUFFICES ASSUME Inv, CallHandler PROVE Promise!Deliver(at[depth])
  OBVIOUS
<1> USE SubsAssumption, DepthAssumption DEF Inv
<1>1. depth \in Frames /\ Live' = Live /\ depth > 0 /\ ~calling /\ calling'
  BY DEF CallHandler, Walking, pool, Live, TypeOK, Frames
<1>2. Ahead(depth)' = Ahead(depth) \ {at[depth]}
  BY <1>1 DEF CallHandler, Ahead, TypeOK, Live, Subs
<1>3. ASSUME NEW k \in Frames, k # depth PROVE Ahead(k)' = Ahead(k)
  BY <1>1, <1>3 DEF CallHandler, Ahead
<1>4. Pending' = [Pending EXCEPT ![depth] = @ \ {at[depth]}]
  BY <1>1, <1>2, <1>3 DEF CallHandler, Pending, TypeOK, Frames
<1>5. Pending[depth] = Ahead(depth)
  BY <1>1 DEF Pending, Frames
<1>6. at[depth] \in Ahead(depth) /\ \A t \in Ahead(depth) : at[depth] <= t
  BY <1>1 DEF CallHandler, Ahead, TypeOK, Live, Subs
<1> QED
  BY <1>1, <1>4, <1>5, <1>6 DEF CallHandler, pool, Promise!Deliver

\* Moving the innermost iterator past its item passes no live item.
LEMMA AdvanceKeepsPending ==
    ASSUME Inv, depth > 0, NEW j \in 1..EndOfList, Follows(at[depth], j),
           at' = [at EXCEPT ![depth] = j], ~calling',
           Live' = Live, depth' = depth,
           calling \/ at[depth] \notin Live
    PROVE  Pending' = Pending
<1> USE SubsAssumption, DepthAssumption DEF Inv
<1>1. depth \in Frames /\ at'[depth] = j /\ \A k \in Frames : k # depth => at'[k] = at[k]
  BY DEF TypeOK, Frames
<1>2. Ahead(depth)' = Ahead(depth)
  <2>1. \A s \in Live : at[depth] < s <=> j <= s
    BY DEF Follows, TypeOK, PointersMatch, Subs, Frames, EndOfList
  <2>2. \A s \in Live : j <= s <=> j < s \/ j = s
    BY DEF TypeOK, Live, Subs, EndOfList
  <2> QED
    BY <1>1, <2>1, <2>2 DEF Ahead
<1>3. ASSUME NEW k \in Frames, k # depth PROVE Ahead(k)' = Ahead(k)
  BY <1>1, <1>3 DEF Ahead
<1> QED
  BY <1>1, <1>2, <1>3 DEF Pending

LEMMA ReturnRefines == Inv /\ HandlerReturns => Promise!Return
  BY AdvanceKeepsPending
  DEF HandlerReturns, pool, Live, Inv, LockHeldByOutermost, Promise!Return

LEMMA SweepRefines == Inv /\ Sweep => UNCHANGED Promise!vars
<1> SUFFICES ASSUME Inv, Sweep PROVE UNCHANGED Promise!vars
  OBVIOUS
<1>1. PICK j \in 1..EndOfList :
        Follows(at[depth], j) /\ at' = [at EXCEPT ![depth] = j]
  BY DEF Sweep
<1>2. /\ depth > 0 /\ ~calling' /\ at[depth] \notin Live /\ Live' = Live
      /\ UNCHANGED <<alive, next, depth, calling>>
  BY DEF Sweep, Walking, Dead, Live
<1>3. Pending' = Pending
  BY <1>1, <1>2, AdvanceKeepsPending
<1> QED
  BY <1>2, <1>3 DEF Promise!vars

LEMMA EndRefines == Inv /\ EndDispatch => Promise!End
<1> SUFFICES ASSUME Inv, EndDispatch PROVE Promise!End
  OBVIOUS
<1> USE SubsAssumption, DepthAssumption DEF Inv
<1>1. /\ depth \in Frames /\ depth' = depth - 1 /\ ~calling
      /\ Live' = Live /\ at' = at /\ (depth > 1 => calling')
  <2>1. depth > 1 => calling'
    BY Zenon DEF EndDispatch
  <2> QED
    BY <2>1 DEF EndDispatch, Walking, pool, Live, TypeOK, Frames
<1>2. Ahead(depth) = {}
  <2>1. at[depth] = EndOfList /\ \A s \in Live : ~(EndOfList <= s)
    BY DEF EndDispatch, TypeOK, Live, Subs, EndOfList
  <2>2. \A s \in Live : s \in Nat
    BY DEF TypeOK, Live, Subs
  <2> QED
    BY <2>1, <2>2 DEF Ahead, EndOfList
<1>3. ASSUME NEW k \in 1..(depth - 1) PROVE Ahead(k)' = Ahead(k)
  <2>1. k # depth /\ (k = depth' => calling')
    BY <1>1 DEF Frames
  <2> QED
    BY <1>1, <2>1 DEF Ahead
<1>4. Pending' = Pending
  <2>1. \A k \in Frames : k <= depth - 1 => k \in 1..(depth - 1) /\ k <= depth
    BY <1>1 DEF Frames
  <2>2. \A k \in Frames : ~(k <= depth - 1) /\ k <= depth => k = depth
    BY <1>1 DEF Frames
  <2> QED
    BY <1>1, <1>2, <1>3, <2>1, <2>2 DEF Pending
<1>5. Pending[depth] = {}
  BY <1>1, <1>2 DEF Pending, Frames
<1> QED
  BY <1>1, <1>4, <1>5 DEF EndDispatch, Walking, pool, Promise!End

LEMMA NextRefines == Inv /\ [Next]_vars => [Promise!Next]_(Promise!vars)
<1> SUFFICES ASSUME Inv, [Next]_vars PROVE [Promise!Next]_(Promise!vars)
  OBVIOUS
<1>1. CASE Client
  BY <1>1, SubscribeRefines, PinRefines, CancelRefines, ReleaseRefines,
     BeginRefines, DestroyRefines DEF Client, Promise!Next, Subs
<1>2. CASE Walk
  <2>1. CallHandler => at[depth] \in 1..MaxSubs
    BY DEF CallHandler, Live, Inv, TypeOK, Subs
  <2>2. Spin => UNCHANGED Promise!vars
    BY SameLiveRefines DEF Spin, vars, pool, frames, Live
  <2> QED
    BY <1>2, <2>1, <2>2, CallRefines, SweepRefines, EndRefines
    DEF Walk, Promise!Next
<1>3. CASE HandlerReturns
  BY <1>3, ReturnRefines DEF Promise!Next
<1>4. CASE Gone \/ UNCHANGED vars
  BY <1>4, SameLiveRefines DEF Gone, vars, pool, frames, Live
<1> QED
  BY <1>1, <1>2, <1>3, <1>4 DEF Next

\* A channel calls exactly the handlers its promise says, in that order.
THEOREM Refinement == Spec => ImplementsPromise
  BY InitRefines, NextRefines, Invariance, PTL DEF Spec, ImplementsPromise, Promise!Spec
=============================================================================
