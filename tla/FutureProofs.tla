---------------------------- MODULE FutureProofs ----------------------------
(***************************************************************************)
(* Proofs about the future over its channel.  Every step of a future takes *)
(* one step of the channel or none, so the channel's invariant carries     *)
(* over; what is new is that the channel is walked only after it was moved *)
(* out, once, which keeps its walk from nesting.                           *)
(***************************************************************************)
EXTENDS Future, ChannelProofs

\* The channel leaves the context exactly when the future is settled, and it
\* is walked only after that.
OneWalk ==
    /\ content \in Contents \cup {"none"}
    /\ moved \in BOOLEAN
    /\ moved <=> content # "none"
    /\ depth > 0 => moved
    /\ depth <= 1

FInv == Inv /\ OneWalk /\ issuer \in BOOLEAN /\ kept \in BOOLEAN

LEMMA FInitInv == FInit => FInv
<1> SUFFICES ASSUME FInit PROVE FInv
  OBVIOUS
<1>1. Inv
  BY InitInv DEF FInit
<1>2. depth = 0
  BY DEF FInit, Init
<1> QED
  <2>1. /\ content = "none" /\ ~moved /\ moved \in BOOLEAN
        /\ issuer \in BOOLEAN /\ kept \in BOOLEAN
    BY Zenon DEF FInit
  <2> QED
    BY <1>1, <1>2, <2>1 DEF FInv, OneWalk

\* Settling an unsettled future starts the one walk there is.
LEMMA TakeChannelInv ==
    ASSUME FInv, content = "none", content' \in Contents, TakeChannel
    PROVE  Inv' /\ OneWalk'
<1>1. depth = 0 /\ ~moved
  BY DEF FInv, OneWalk, Inv, TypeOK
<1>2. [Next]_vars /\ moved' /\ moved' \in BOOLEAN /\ depth' <= 1
  BY <1>1 DEF TakeChannel, Next, Client, BeginDispatch, vars, pool, frames
<1>3. Inv'
  BY <1>2, NextInv DEF FInv
<1> QED
  BY <1>2, <1>3 DEF OneWalk, Contents

\* A step of the channel that starts no dispatch nests none.
LEMMA ChannelStepInv ==
    ASSUME FInv, UNCHANGED <<content, moved>>,
           [Next]_vars, depth' = depth \/ depth' = depth - 1
    PROVE  Inv' /\ OneWalk'
<1>1. Inv'
  BY NextInv DEF FInv
<1>2. depth \in Nat /\ depth' \in Nat
  BY <1>1, DepthAssumption DEF FInv, Inv, TypeOK
<1> QED
  BY <1>1, <1>2 DEF FInv, OneWalk

LEMMA FNextInv == FInv /\ [FNext]_allVars => FInv'
<1> SUFFICES ASSUME FInv, [FNext]_allVars PROVE FInv'
  OBVIOUS
<1>1. ASSUME NEW c \in {"value", "exception"}, SetByIssuer(c) PROVE FInv'
  <2>1. Inv' /\ OneWalk'
    BY <1>1, TakeChannelInv DEF SetByIssuer, Contents
  <2> QED
    BY <1>1, <2>1 DEF SetByIssuer, FInv
<1>2. CASE CancelByFront
  <2>1. Inv' /\ OneWalk'
    BY <1>2, TakeChannelInv DEF CancelByFront, Contents
  <2> QED
    BY <1>2, <2>1 DEF CancelByFront, FInv
<1>3. CASE DropIssuer
  <2>1. CASE content = "none"
    <3>1. Inv' /\ OneWalk'
      BY <1>3, <2>1, TakeChannelInv DEF DropIssuer, Contents
    <3> QED
      BY <1>3, <3>1 DEF DropIssuer, FInv
  <2>2. CASE content # "none"
    <3>1. UNCHANGED <<vars, content, moved, kept>> /\ ~issuer'
      BY <1>3, <2>2 DEF DropIssuer
    <3>2. Inv' /\ OneWalk'
      BY <3>1, ChannelStepInv DEF vars, frames
    <3> QED
      BY <1>3, <3>1, <3>2 DEF DropIssuer, FInv
  <2> QED
    BY <2>1, <2>2
<1>4. CASE FSubscribe \/ FSubscription
  <2>1. Client /\ UNCHANGED fvars
    BY <1>4 DEF FSubscribe, FSubscription, Client
  <2>2. depth' = depth
    BY <1>4 DEF FSubscribe, FSubscription, Subscribe, Pin, Unpin, Cancel, Release, frames
  <2>3. Inv' /\ OneWalk'
    BY <2>1, <2>2, ChannelStepInv DEF Next, fvars
  <2> QED
    BY <2>1, <2>3 DEF fvars, FInv
<1>5. CASE FWalk \/ FReturns
  <2>1. /\ Walk \/ Destroy \/ HandlerReturns
        /\ UNCHANGED <<content, moved, issuer>> /\ kept' \in BOOLEAN
    BY <1>5 DEF FWalk, FReturns, DestroyTemporary, fvars, FInv
  <2>2. depth' = depth \/ depth' = depth - 1
    BY <2>1 DEF Walk, CallHandler, Sweep, Spin, EndDispatch, Destroy,
                HandlerReturns, vars, frames
  <2>3. Inv' /\ OneWalk'
    BY <2>1, <2>2, ChannelStepInv DEF Next, Client
  <2> QED
    BY <2>1, <2>3 DEF FInv
<1>6. CASE FGone \/ UNCHANGED allVars
  <2>1. UNCHANGED <<vars, fvars>>
    BY <1>6 DEF FGone, Gone, allVars
  <2>2. Inv' /\ OneWalk'
    BY <2>1, ChannelStepInv DEF fvars, vars, frames
  <2> QED
    BY <2>1, <2>2 DEF fvars, FInv
<1> QED
  BY <1>1, <1>2, <1>3, <1>4, <1>5, <1>6 DEF FNext

\* FInv holds in every reachable state.
THEOREM FInvariance == FSpec => []FInv
  BY FInitInv, FNextInv, PTL DEF FSpec

\* Every variable keeps its type.
THEOREM FutureTyping == FSpec => []FTypeOK
<1>1. FInv => FTypeOK
  BY DEF FInv, OneWalk, Inv, FTypeOK
<1> QED
  BY <1>1, FInvariance, PTL

\* The walk of a future's channel never nests.
THEOREM FutureNeverNested == FSpec => []NeverNested
<1>1. FInv => NeverNested
  BY DEF FInv, OneWalk, NeverNested
<1> QED
  BY <1>1, FInvariance, PTL

\* A handler of a future never finds it waiting: it is settled, or it was settled and
\* its driver is gone.
THEOREM WokenFindsSettledOrGone == FSpec => []WokenSeesSettledOrGone
<1>1. FInv => WokenSeesSettledOrGone
  BY DEF FInv, OneWalk, Inv, LockHeldByOutermost, WokenSeesSettledOrGone, FrontState,
         Contents
<1> QED
  BY <1>1, FInvariance, PTL

\* Nothing a future's user does corrupts its channel.
THEOREM FutureKeepsChannelSound == FSpec => []ChannelStaysSound
<1>1. FInv => ChannelStaysSound
  BY DEF FInv, Inv, ChannelStaysSound
<1> QED
  BY <1>1, FInvariance, PTL

----------------------------------------------------------------------------
(* The future implements its contract.  The channel's own refinement says   *)
(* what a step does to what is live and pending.                            *)

LEMMA FInitRefines == FInit => Contract!Init
  BY DEF FInit, Init, Contract!Init, Waiting, Live

\* Settling leaves the same handlers waiting.
LEMMA SettleRefines ==
    ASSUME FInv, content = "none", content' \in Contents, TakeChannel
    PROVE  Contract!Settle(content')
<1>1. depth = 0 /\ ~moved /\ moved'
  BY DEF FInv, OneWalk, Inv, TypeOK, TakeChannel
<1>2. CASE items = {}
  <2>1. UNCHANGED vars /\ Live = {}
    BY <1>2 DEF TakeChannel, FInv, Inv, PointersMatch
  <2> QED
    BY <1>1, <2>1 DEF Contract!Settle, Waiting, vars, pool, frames
<1>3. CASE items # {}
  <2>1. BeginDispatch /\ Promise!Begin
    BY <1>3, BeginRefines DEF TakeChannel, FInv
  <2>2. depth' = 1 /\ 1 \in Frames
    BY <1>1, <2>1, DepthAssumption DEF BeginDispatch, Frames
  <2>3. Pending'[1] = Live
    BY <1>1, <2>1, <2>2 DEF Promise!Begin, Pending
  <2>4. UNCHANGED <<next, alive>> /\ (calling' <=> calling)
    BY <1>1, <2>1 DEF BeginDispatch, FInv, Inv, LockHeldByOutermost
  <2>5. calling = FALSE /\ calling' = FALSE
    BY <1>1, <2>1 DEF BeginDispatch, FInv, Inv, LockHeldByOutermost, TypeOK
  <2> QED
    BY <1>1, <2>2, <2>3, <2>4, <2>5 DEF Contract!Settle, Waiting
<1> QED
  BY <1>2, <1>3

\* Calls on subscriptions withdraw one waiting handler or none.
LEMMA SubscriptionRefines ==
    FInv /\ FSubscription
      => (\E s \in Subs : Contract!Withdraw(s)) \/ UNCHANGED Contract!vars
<1> SUFFICES ASSUME FInv, FSubscription
             PROVE  (\E s \in Subs : Contract!Withdraw(s)) \/ UNCHANGED Contract!vars
  OBVIOUS
<1>1. UNCHANGED <<content, moved, alive, next, depth, calling>>
  BY DEF FSubscription, fvars, Pin, Unpin, Cancel, Release, frames
<1>2. PICK s \in Subs : Promise!Drop(s) \/ UNCHANGED Promise!vars
  BY PinRefines, CancelRefines, ReleaseRefines DEF FSubscription, FInv
<1>3. CASE UNCHANGED Promise!vars
  BY <1>1, <1>3 DEF Promise!vars, Contract!vars, Waiting
<1>4. CASE Promise!Drop(s)
  <2>1. Live' = Live \ {s} /\ (1 \in Frames => Pending'[1] = Pending[1] \ {s})
    BY <1>4 DEF Promise!Drop, Promise!Frames, Frames
  <2>2. depth = 1 => 1 \in Frames
    BY DEF FInv, Inv, TypeOK, Frames
  <2>3. Waiting' = Waiting \ {s}
    BY <1>1, <2>1, <2>2 DEF Waiting
  <2> QED
    BY <1>1, <2>3 DEF Contract!Withdraw, Contract!vars
<1> QED
  BY <1>2, <1>3, <1>4

LEMMA FWalkRefines ==
    FInv /\ (FWalk \/ FReturns)
      => (\E s \in Subs : Contract!Notify(s)) \/ Contract!Return
           \/ Contract!Close \/ UNCHANGED Contract!vars
<1> SUFFICES ASSUME FInv, FWalk \/ FReturns
             PROVE  (\E s \in Subs : Contract!Notify(s)) \/ Contract!Return
                      \/ Contract!Close \/ UNCHANGED Contract!vars
  OBVIOUS
<1> USE DEF FInv, OneWalk
<1>1. depth > 0 => depth = 1 /\ 1 \in Frames /\ moved
  BY DEF Inv, TypeOK, Frames
<1>2. CASE CallHandler /\ UNCHANGED fvars
  <2>1. Promise!Deliver(at[depth]) /\ depth = 1 /\ at[1] \in Subs
    BY <1>1, <1>2, CallRefines DEF CallHandler, Walking, Inv, TypeOK, Live
  <2>2. Pending[1] = Waiting /\ Waiting' = Waiting \ {at[1]}
    BY <1>1, <1>2, <2>1 DEF Promise!Deliver, Waiting, fvars, Pending
  <2>3. Contract!Notify(at[1])
    BY <1>1, <1>2, <2>1, <2>2 DEF Promise!Deliver, Contract!Notify, fvars
  <2> QED
    BY <2>1, <2>3
<1>3. CASE (Sweep \/ Spin) /\ UNCHANGED fvars
  <2>1. UNCHANGED Promise!vars
    BY <1>3, SweepRefines, SameLiveRefines DEF Spin, vars, pool, frames, Live
  <2> QED
    BY <1>3, <2>1 DEF Promise!vars, Contract!vars, Waiting, fvars
<1>4. CASE EndDispatch /\ UNCHANGED fvars
  <2>1. Promise!End /\ depth = 1 /\ depth' = 0
    BY <1>1, <1>4, EndRefines DEF EndDispatch, Walking
  <2>2. Waiting = {} /\ Waiting' = {}
    BY <1>1, <1>4, <2>1 DEF Promise!End, Waiting, fvars
  <2>3. calling = FALSE /\ calling' = (depth > 1)
    BY <2>1, Zenon DEF Promise!End, Inv, TypeOK
  <2>4. (depth > 1) = FALSE
    BY <2>1
  <2>5. calling' = calling
    BY <2>3, <2>4, Zenon
  <2> QED
    BY <1>4, <2>1, <2>2, <2>5 DEF Promise!End, Contract!vars, fvars
<1>5. CASE FReturns
  <2>1. Promise!Return
    BY <1>5, ReturnRefines DEF FReturns
  <2> QED
    BY <1>5, <2>1 DEF FReturns, Promise!Return, Contract!Return, Waiting, fvars
<1>6. CASE DestroyTemporary
  BY <1>1, <1>6
  DEF DestroyTemporary, Destroy, frames, Waiting, Contract!Close, Inv, LockHeldByOutermost
<1> QED
  BY <1>2, <1>3, <1>4, <1>5, <1>6 DEF FWalk, Walk

LEMMA FNextRefines == FInv /\ [FNext]_allVars => [Contract!Next]_(Contract!vars)
<1> SUFFICES ASSUME FInv, [FNext]_allVars PROVE [Contract!Next]_(Contract!vars)
  OBVIOUS
<1>1. ASSUME NEW c \in {"value", "exception"}, SetByIssuer(c)
      PROVE  Contract!Next
  BY <1>1, SettleRefines DEF SetByIssuer, Contents, Contract!Next, Contract!Contents
<1>2. CASE CancelByFront
  BY <1>2, SettleRefines DEF CancelByFront, Contents, Contract!Next, Contract!Contents
<1>3. CASE DropIssuer
  <2>1. CASE content = "none"
    BY <1>3, <2>1, SettleRefines
    DEF DropIssuer, Contents, Contract!Next, Contract!Contents
  <2>2. CASE content # "none"
    BY <1>3, <2>2
    DEF DropIssuer, Contract!vars, Waiting, Pending, Ahead, Live, vars, pool, frames
  <2> QED
    BY <2>1, <2>2
<1>4. CASE FSubscribe
  <2>1. ~moved /\ ~moved'
    BY <1>4 DEF FSubscribe, fvars, FInv, OneWalk
  <2>2. Contract!Subscribe
    BY <1>4, <2>1
    DEF FSubscribe, Subscribe, frames, fvars, Contract!Subscribe, Waiting, Live
  <2> QED
    BY <2>2 DEF Contract!Next
<1>5. CASE FSubscription
  BY <1>5, SubscriptionRefines DEF Contract!Next, Subs
<1>6. CASE FWalk \/ FReturns
  BY <1>6, FWalkRefines DEF Contract!Next, Subs
<1>7. CASE FGone \/ UNCHANGED allVars
  BY <1>7 DEF FGone, Gone, allVars, vars, pool, frames, fvars,
              Contract!vars, Waiting, Pending, Ahead, Live
<1> QED
  BY <1>1, <1>2, <1>3, <1>4, <1>5, <1>6, <1>7 DEF FNext

\* A future notifies whom it should, once, in order, and after it is settled.
THEOREM FutureRefinement == FSpec => ImplementsContract
  BY FInitRefines, FNextRefines, FInvariance, PTL
  DEF FSpec, ImplementsContract, Contract!Spec
=============================================================================
