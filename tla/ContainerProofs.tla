--------------------------- MODULE ContainerProofs ---------------------------
(***************************************************************************)
(* Proofs about a node of the container over its channel.  Every step of   *)
(* the node takes one step of the channel or none, so the channel's        *)
(* invariant carries over.  That no wake-up is lost needs more: while the  *)
(* node is ready, each coroutine that still waits is ahead of some walk on *)
(* the stack, and no walk but the innermost stands on one that waits.      *)
(***************************************************************************)
EXTENDS Container, ChannelProofs

NodeTypes ==
    /\ hosted \in BOOLEAN
    /\ going \in BOOLEAN
    /\ locked \in BOOLEAN
    /\ present \in BOOLEAN
    /\ link \in SUBSET Locks
    /\ fixed \in SUBSET Locks

AwaitersSubscribe == awaiting \subseteq held \cap driven

\* A handler that is running called nobody before it decided.
OuterDecided == \A k \in 1..(depth - 1) : at[k] \notin awaiting

\* Whoever waits for a node that is ready is still ahead of a walk.
AheadOfWalk ==
    Ready => \A s \in awaiting :
        \E k \in 1..depth : at[k] < s \/ (k = depth /\ at[k] = s)

Waiters == AwaitersSubscribe /\ OuterDecided /\ AheadOfWalk

CInv == Inv /\ NodeTypes /\ OneOwner /\ Waiters

----------------------------------------------------------------------------
(* The channel under the node.                                              *)

\* Every step of the node is a step of its channel or leaves it alone.
LEMMA ChannelStep == AwaitersSubscribe /\ Inv /\ [CNext]_allVars => [Next]_vars
<1> SUFFICES ASSUME AwaitersSubscribe, Inv, [CNext]_allVars PROVE [Next]_vars
  OBVIOUS
<1>1. Notify => [Next]_vars
  BY DEF Notify, Next, Client
<1>2. CASE \E l \in Locks :
        \/ TakeLock(l) \/ Assign(l) \/ FixLock(l) \/ UnfixLock(l)
        \/ UnlinkLock(l) \/ ReleaseLock(l)
  BY <1>1, <1>2 DEF TakeLock, Assign, FixLock, UnfixLock, UnlinkLock,
                    ReleaseLock, FreeNode
<1>3. CASE Watch \/ Await \/ CSubscription
  BY <1>3 DEF Watch, Await, CSubscription, Next, Client
<1>4. CASE Drop \/ CGone \/ UNCHANGED allVars
  BY <1>4 DEF Drop, CGone, Gone, allVars
<1>5. CASE Wake
  BY <1>5 DEF Wake, Deciding, AwaitersSubscribe, Inv, TypeOK, Next, Client
<1>6. CASE CWalk \/ CReturns
  BY <1>6 DEF CWalk, CReturns, Next
<1>7. CASE EndNode \/ EndChannel
  BY <1>1, <1>7 DEF EndNode, EndChannel, Next, Client
<1> QED
  BY <1>2, <1>3, <1>4, <1>5, <1>6, <1>7 DEF CNext, CClient, Library

LEMMA ChannelInv == CInv /\ [CNext]_allVars => Inv'
  BY ChannelStep, NextInv DEF CInv, Waiters

----------------------------------------------------------------------------
(* The lock objects.                                                        *)

LEMMA OwnerInv == CInv /\ [CNext]_allVars => NodeTypes' /\ OneOwner'
<1> SUFFICES ASSUME CInv, [CNext]_allVars PROVE NodeTypes' /\ OneOwner'
  OBVIOUS
<1> USE DEF CInv, NodeTypes, OneOwner
<1>1. ASSUME NEW l \in Locks,
             \/ TakeLock(l) \/ Assign(l) \/ FixLock(l) \/ UnfixLock(l)
             \/ UnlinkLock(l) \/ ReleaseLock(l)
      PROVE  NodeTypes' /\ OneOwner'
  <2>1. CASE TakeLock(l)
    BY <2>1 DEF TakeLock
  <2>2. CASE Assign(l)
    BY <2>2 DEF Assign, Linked
  <2>3. CASE FixLock(l) \/ UnfixLock(l)
    BY <2>3 DEF FixLock, UnfixLock, Linked
  <2>4. CASE UnlinkLock(l)
    BY <2>4 DEF UnlinkLock, FreeNode, Linked
  <2>5. CASE ReleaseLock(l)
    BY <2>5 DEF ReleaseLock, FreeNode, Linked
  <2> QED
    BY <1>1, <2>1, <2>2, <2>3, <2>4, <2>5
<1>2. CASE Drop
  BY <1>2 DEF Drop
<1>3. CASE EndNode
  BY <1>3 DEF EndNode
<1>4. CASE UNCHANGED node
  BY <1>4 DEF node
<1>5. Watch \/ Await \/ CSubscription \/ CWalk \/ Wake \/ EndChannel \/ CReturns
      \/ CGone \/ UNCHANGED allVars => UNCHANGED node
  BY DEF Watch, Await, CSubscription, CWalk, Wake, EndChannel, CReturns, CGone,
         allVars, cvars
<1> QED
  BY <1>1, <1>2, <1>3, <1>4, <1>5 DEF CNext, CClient, Library

----------------------------------------------------------------------------
(* The coroutines that wait.                                                *)

\* Client code never runs in a handler that has yet to decide.
LEMMA DispatchKeepsWaiters ==
    ASSUME CInv, ~Deciding, ClientRuns, Notify, UNCHANGED awaiting
    PROVE  Waiters'
<1> USE SubsAssumption, DepthAssumption DEF CInv, Inv
<1>1. CASE items = {}
  <2>1. awaiting = {}
    BY <1>1 DEF Waiters, AwaitersSubscribe, PointersMatch, Live
  <2> QED
    BY <1>1, <2>1 DEF Waiters, AwaitersSubscribe, OuterDecided, AheadOfWalk
<1>2. CASE items # {}
  <2>1. BeginDispatch
    BY <1>2 DEF Notify
  <2>2. PICK j \in Subs : Follows(0, j) /\ at' = [at EXCEPT ![depth + 1] = j]
    BY <2>1 DEF BeginDispatch
  <2>3. /\ depth \in Nat /\ depth' = depth + 1 /\ depth + 1 \in Frames
        /\ UNCHANGED <<held, driven>>
        /\ at'[depth + 1] = j
        /\ \A k \in 1..depth : at'[k] = at[k]
    BY <2>1, <2>2 DEF BeginDispatch, pool, TypeOK, Frames
  <2>4. AwaitersSubscribe'
    BY <2>3 DEF Waiters, AwaitersSubscribe
  <2>5. OuterDecided'
    BY <2>3 DEF Waiters, OuterDecided, Deciding, ClientRuns
  <2>6. \A s \in awaiting : s \in Nat /\ j <= s
    BY <2>2 DEF Waiters, AwaitersSubscribe, PointersMatch, Live, TypeOK,
                Follows, Subs
  <2>7. AheadOfWalk'
    BY <2>3, <2>6 DEF AheadOfWalk, Subs
  <2> QED
    BY <2>4, <2>5, <2>7 DEF Waiters
<1> QED
  BY <1>1, <1>2

\* A step that moves no walk and lets nobody new wait for a node that is ready.
LEMMA QuietKeepsWaiters ==
    ASSUME CInv, AwaitersSubscribe', UNCHANGED <<depth, at>>,
           awaiting' \subseteq awaiting, Ready' => Ready
    PROVE  Waiters'
  BY DEF CInv, Waiters, OuterDecided, AheadOfWalk

\* The walk goes on: it passes nobody that waits.
LEMMA AdvanceKeepsWaiters ==
    ASSUME CInv, depth > 0, NEW j \in 1..EndOfList, Follows(at[depth], j),
           at' = [at EXCEPT ![depth] = j],
           UNCHANGED <<depth, held, driven, cvars>>,
           Ready => at[depth] \notin awaiting
    PROVE  Waiters'
<1> USE SubsAssumption, DepthAssumption DEF CInv, Inv
<1>1. /\ depth \in Frames /\ at'[depth] = j
      /\ \A k \in 1..(depth - 1) : at'[k] = at[k]
  BY DEF TypeOK, Frames
<1>2. AwaitersSubscribe' /\ OuterDecided' /\ Ready' = Ready
  BY <1>1 DEF Waiters, AwaitersSubscribe, OuterDecided, Ready, cvars, node
<1>3. ASSUME Ready, NEW s \in awaiting
      PROVE  \E k \in 1..depth : at'[k] < s \/ (k = depth /\ at'[k] = s)
  <2>1. s \in items /\ s \in Nat
    BY DEF Waiters, AwaitersSubscribe, PointersMatch, Live, TypeOK, Subs
  <2>2. PICK k \in 1..depth : at[k] < s \/ (k = depth /\ at[k] = s)
    BY <1>3 DEF Waiters, AheadOfWalk
  <2>3. CASE k = depth
    <3>1. at[depth] < s
      BY <1>3, <2>2, <2>3
    <3>2. j <= s
      BY <2>1, <3>1 DEF Follows
    <3>3. j < s \/ j = s
      BY <2>1, <3>2 DEF EndOfList
    <3> QED
      BY <1>1, <3>3 DEF Frames
  <2>4. CASE k # depth
    BY <1>1, <2>2, <2>4
  <2> QED
    BY <2>3, <2>4
<1>4. AheadOfWalk'
  BY <1>2, <1>3 DEF AheadOfWalk, cvars
<1> QED
  BY <1>2, <1>4 DEF Waiters

LEMMA LocksKeepWaiters ==
    ASSUME CInv, NEW l \in Locks,
           \/ TakeLock(l) \/ Assign(l) \/ FixLock(l) \/ UnfixLock(l)
           \/ UnlinkLock(l) \/ ReleaseLock(l)
    PROVE  Waiters'
<1>1. ~Deciding /\ ClientRuns /\ UNCHANGED <<awaiting, going>>
  BY DEF TakeLock, Assign, FixLock, UnfixLock, UnlinkLock, ReleaseLock, CClientRuns
<1>2. CASE Notify
  BY <1>1, <1>2, DispatchKeepsWaiters
<1>3. CASE UNCHANGED <<vars, present>>
  BY <1>1, <1>3, QuietKeepsWaiters
  DEF vars, pool, frames, Ready, CInv, Waiters, AwaitersSubscribe
<1> QED
  BY <1>2, <1>3 DEF TakeLock, Assign, FixLock, UnfixLock, UnlinkLock,
                    ReleaseLock, FreeNode

LEMMA SubscribeKeepsWaiters == CInv /\ (Watch \/ Await) => Waiters'
<1> SUFFICES ASSUME CInv, Watch \/ Await PROVE Waiters'
  OBVIOUS
<1> USE SubsAssumption, DepthAssumption DEF CInv, Inv
<1>1. /\ Subscribe /\ UNCHANGED node
      /\ awaiting' = awaiting \/ (~Ready /\ awaiting' = awaiting \cup {next})
  BY DEF Watch, Await, cvars
<1>2. /\ held' = held \cup {next} /\ driven' = driven \cup {next}
      /\ UNCHANGED <<depth, at, going, present>>
  BY <1>1 DEF Subscribe, frames, node
<1>3. AwaitersSubscribe'
  BY <1>1, <1>2 DEF Waiters, AwaitersSubscribe
<1>4. \A k \in 1..(depth - 1) : at[k] # next
  BY DEF IteratorsValid, PointersMatch, TypeOK
<1>5. OuterDecided'
  BY <1>1, <1>2, <1>4 DEF Waiters, OuterDecided
<1>6. AheadOfWalk'
  BY <1>1, <1>2 DEF Waiters, AheadOfWalk, Ready
<1> QED
  BY <1>3, <1>5, <1>6 DEF Waiters

LEMMA SubscriptionKeepsWaiters == CInv /\ CSubscription => Waiters'
<1> SUFFICES ASSUME CInv, CSubscription PROVE Waiters'
  OBVIOUS
<1>1. PICK s \in Subs : \/ s \notin awaiting /\ (Pin(s) \/ Unpin(s) \/ Cancel(s))
                        \/ Release(s)
  BY DEF CSubscription
<1>2. /\ UNCHANGED <<depth, at, going, present>>
      /\ awaiting' = awaiting \cap held'
  BY <1>1 DEF CSubscription, Pin, Unpin, Cancel, Release, frames, node
<1>3. AwaitersSubscribe'
  BY <1>1, <1>2 DEF Pin, Unpin, Cancel, Release, CInv, Waiters, AwaitersSubscribe
<1> QED
  BY <1>2, <1>3, QuietKeepsWaiters DEF Ready

LEMMA WakeKeepsWaiters == CInv /\ Wake => Waiters'
<1> SUFFICES ASSUME CInv, Wake PROVE Waiters'
  OBVIOUS
<1>1. /\ UNCHANGED <<depth, at, going, present>>
      /\ held' = held \ {at[depth]}
      /\ driven \ {at[depth]} \subseteq driven'
      /\ awaiting' = awaiting \ {at[depth]}
  BY DEF Wake, Release, frames, node
<1>2. AwaitersSubscribe'
  BY <1>1 DEF CInv, Waiters, AwaitersSubscribe
<1> QED
  BY <1>1, <1>2, QuietKeepsWaiters DEF Ready

LEMMA ReturnKeepsWaiters == CInv /\ CReturns => Waiters'
<1> SUFFICES ASSUME CInv, CReturns PROVE Waiters'
  OBVIOUS
<1>1. PICK j \in 1..EndOfList :
        Follows(at[depth], j) /\ at' = [at EXCEPT ![depth] = j]
  BY DEF CReturns, HandlerReturns
<1>2. /\ depth > 0 /\ UNCHANGED <<depth, held, driven, cvars>>
      /\ Ready => at[depth] \notin awaiting
  BY DEF CReturns, HandlerReturns, Deciding, pool, CInv, Inv, LockHeldByOutermost
<1> QED
  BY <1>1, <1>2, AdvanceKeepsWaiters

LEMMA WalkKeepsWaiters == CInv /\ CWalk => Waiters'
<1> SUFFICES ASSUME CInv, CWalk PROVE Waiters'
  OBVIOUS
<1> USE SubsAssumption, DepthAssumption
<1>0. UNCHANGED cvars /\ Ready' = Ready
  BY DEF CWalk, cvars, node, Ready
<1>1. CASE CallHandler \/ Spin
  <2>1. UNCHANGED <<depth, at, held, driven>>
    BY <1>1 DEF CallHandler, Spin, vars, pool, frames
  <2> QED
    BY <1>0, <2>1, QuietKeepsWaiters DEF CInv, Waiters, AwaitersSubscribe, cvars
<1>2. CASE Sweep
  <2>1. PICK j \in 1..EndOfList :
          Follows(at[depth], j) /\ at' = [at EXCEPT ![depth] = j]
    BY <1>2 DEF Sweep
  <2>2. depth > 0 /\ UNCHANGED <<depth, held, driven>> /\ at[depth] \notin awaiting
    BY <1>2 DEF Sweep, Walking, Dead, Live, CInv, Waiters, AwaitersSubscribe
  <2> QED
    BY <1>0, <2>1, <2>2, AdvanceKeepsWaiters
<1>3. CASE EndDispatch
  <2>1. /\ depth \in Nat /\ depth > 0 /\ at[depth] = EndOfList
        /\ depth' = depth - 1 /\ UNCHANGED <<at, held, driven, awaiting>>
    BY <1>0, <1>3 DEF EndDispatch, Walking, pool, cvars, CInv, Inv, TypeOK
  <2>2. \A s \in awaiting : s \in Nat /\ s < EndOfList
    BY DEF CInv, Inv, TypeOK, Waiters, AwaitersSubscribe, Subs, EndOfList
  <2>3. AwaitersSubscribe' /\ OuterDecided'
    BY <2>1 DEF CInv, Waiters, AwaitersSubscribe, OuterDecided
  <2>4. ASSUME Ready, NEW s \in awaiting
        PROVE  \E k \in 1..(depth - 1) : at[k] < s
    <3>1. PICK k \in 1..depth : at[k] < s \/ (k = depth /\ at[k] = s)
      BY <2>4 DEF CInv, Waiters, AheadOfWalk
    <3>2. k # depth
      BY <2>1, <2>2, <3>1 DEF EndOfList
    <3> QED
      BY <2>1, <3>1, <3>2
  <2>5. AheadOfWalk'
    BY <1>0, <2>1, <2>4 DEF AheadOfWalk
  <2> QED
    BY <2>3, <2>5 DEF Waiters
<1> QED
  BY <1>1, <1>2, <1>3 DEF CWalk, Walk

LEMMA GoingKeepsWaiters == CInv /\ (Drop \/ EndNode \/ EndChannel) => Waiters'
<1> SUFFICES ASSUME CInv, Drop \/ EndNode \/ EndChannel PROVE Waiters'
  OBVIOUS
<1>1. CASE Drop
  BY <1>1, QuietKeepsWaiters
  DEF Drop, vars, pool, frames, Ready, CInv, Waiters, AwaitersSubscribe
<1>2. CASE EndNode
  <2>1. Notify /\ ClientRuns /\ UNCHANGED awaiting
    BY <1>2 DEF EndNode, ClientRuns
  <2>2. ~Deciding
    BY <1>2 DEF EndNode, Deciding, CInv, Inv, LockHeldByOutermost
  <2> QED
    BY <2>1, <2>2, DispatchKeepsWaiters
<1>3. CASE EndChannel
  <2>1. depth = 0 /\ Ready /\ UNCHANGED <<awaiting, depth>>
    BY <1>3 DEF EndChannel, Destroy, Ready, frames, cvars
  <2>2. awaiting = {}
    BY <2>1 DEF CInv, Waiters, AheadOfWalk
  <2> QED
    BY <2>1, <2>2 DEF Waiters, AwaitersSubscribe, OuterDecided, AheadOfWalk
<1> QED
  BY <1>1, <1>2, <1>3

LEMMA StutterKeepsWaiters == CInv /\ UNCHANGED allVars => Waiters'
  BY QuietKeepsWaiters
  DEF allVars, vars, pool, frames, cvars, node, Ready, CInv, Waiters,
      AwaitersSubscribe

LEMMA WaitersInv == CInv /\ [CNext]_allVars => Waiters'
  BY LocksKeepWaiters, SubscribeKeepsWaiters, SubscriptionKeepsWaiters,
     WakeKeepsWaiters, ReturnKeepsWaiters, WalkKeepsWaiters, GoingKeepsWaiters,
     StutterKeepsWaiters
  DEF CNext, CClient, Library, CGone, Gone, allVars

----------------------------------------------------------------------------
(* The theorems.                                                            *)

LEMMA CInitInv == CInit => CInv
<1> SUFFICES ASSUME CInit PROVE CInv
  OBVIOUS
<1>1. Inv
  BY InitInv DEF CInit
<1>2. NodeTypes
  BY Zenon DEF CInit, NodeTypes
<1>3. OneOwner /\ Waiters
  BY DEF CInit, OneOwner, Waiters, AwaitersSubscribe, OuterDecided, AheadOfWalk
<1> QED
  BY <1>1, <1>2, <1>3 DEF CInv

\* CInv holds in every reachable state.
THEOREM CInvariance == CSpec => []CInv
<1>1. CInv /\ [CNext]_allVars => CInv'
  BY ChannelInv, OwnerInv, WaitersInv DEF CInv
<1> QED
  BY <1>1, CInitInv, PTL DEF CSpec

\* Every variable keeps its type.
THEOREM ContainerTyping == CSpec => []CTypeOK
<1>1. CInv => CTypeOK
  BY DEF CInv, NodeTypes, Waiters, AwaitersSubscribe, Inv, TypeOK, CTypeOK
<1> QED
  BY <1>1, CInvariance, PTL

\* One lock at most may change the value, and none is there without a lock.
THEOREM OneOwnerOfNode == CSpec => []OneOwner
  BY CInvariance, PTL DEF CInv

\* No coroutine is left waiting for a value that is there or a node that is gone.
THEOREM NoWakeUpIsLost == CSpec => []NoneWaitsInVain
<1>1. CInv => NoneWaitsInVain
  BY DEF CInv, Waiters, AwaitersSubscribe, AheadOfWalk, NoneWaitsInVain
<1> QED
  BY <1>1, CInvariance, PTL

\* The channel of a node outlives every walk of it, with its pointers sound.
THEOREM ContainerKeepsChannelSound == CSpec => []ChannelStaysSound
<1>1. CInv => ChannelStaysSound
  BY DEF CInv, Inv, ChannelStaysSound
<1> QED
  BY <1>1, CInvariance, PTL
=============================================================================
