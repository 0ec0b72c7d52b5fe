---------------------------- MODULE BindingsProofs ----------------------------
(***************************************************************************)
(* Proofs about the bindings over their channel, for every number of       *)
(* hooks, every set of targets and every depth of nested events: Metamod   *)
(* reads the strongest answer to its own event.                            *)
(***************************************************************************)
EXTENDS Bindings, ChannelProofs

EventTypes ==
    /\ point \in [Subs -> Points \cup {NoPoint}]
    /\ event \in [Frames -> Points \cup {NoPoint}]
    /\ meta \in [Frames -> Ignored..Supercede]
    /\ current \in Unset..Supercede
    /\ heard \in [Frames -> SUBSET (Ignored..Supercede)]
    /\ \A k \in Frames : k <= depth => event[k] # NoPoint

\* What each event on the stack has been answered so far.
AnsweredSoFar ==
    \A k \in 1..depth :
        /\ IsStrongest(meta[k], heard[k])
        /\ heard[k] \subseteq Answers(event[k])

BInv == Inv /\ EventTypes /\ AnsweredSoFar

\* Steps of the channel that move no event.
BQuiet == BSubscription \/ Unbind \/ Skips \/ BWalk \/ BGone \/ UNCHANGED allVars

\* Every step of the bindings is a step of their channel or leaves it alone.
LEMMA BChannelStep == [BNext]_allVars => [Next]_vars
  BY DEF BNext, Bind, Raise, BSubscription, Unbind, RaiseUnheard, Skips, BWalk,
         EventEnds, HookAnswers, BGone, Next, Client, Walk, allVars

LEMMA BChannelInv == BInv /\ [BNext]_allVars => Inv'
  BY BChannelStep, NextInv DEF BInv

LEMMA StrengthsAreNumbers ==
    /\ Unset = 0 /\ Ignored = 1 /\ Handled = 2 /\ Override = 3 /\ Supercede = 4
    /\ \A p : Answers(p) \subseteq Unset..Supercede
  BY DEF Unset, Ignored, Handled, Override, Supercede, Answers

LEMMA DepthIsBounded == Inv => depth \in Nat /\ 1..depth \subseteq Frames
  BY DepthAssumption DEF Inv, TypeOK, Frames

LEMMA QuietKeepsAnswers == BInv /\ BQuiet => EventTypes' /\ AnsweredSoFar'
<1> SUFFICES ASSUME BInv, BQuiet PROVE EventTypes' /\ AnsweredSoFar'
  OBVIOUS
<1>1. UNCHANGED bvars /\ depth' = depth
  BY DEF BQuiet, BSubscription, Pin, Unpin, Cancel, Release, Unbind, Destroy,
         Skips, HandlerReturns, BWalk, CallHandler, Sweep, Spin, BGone, Gone,
         allVars, vars, frames
<1> QED
  BY <1>1 DEF bvars, answering, BInv, EventTypes, AnsweredSoFar

LEMMA BindKeepsAnswers ==
    ASSUME BInv, NEW p \in Points, Bind(p)
    PROVE  EventTypes' /\ AnsweredSoFar'
  BY SubsAssumption
  DEF Bind, Subscribe, frames, answering, BInv, Inv, TypeOK, EventTypes, AnsweredSoFar

LEMMA PairsAreNotEmpty == \A p \in Points : p # NoPoint
  BY DEF Points, NoPoint

LEMMA RaiseKeepsAnswers ==
    ASSUME BInv, NEW p \in Points, Raise(p)
    PROVE  EventTypes' /\ AnsweredSoFar'
<1>1. depth \in Nat /\ depth' = depth + 1 /\ depth + 1 \in Frames
  BY DepthAssumption DEF Raise, BeginDispatch, BInv, Inv, TypeOK, Frames
<1>2. EventTypes'
  BY <1>1, PairsAreNotEmpty, StrengthsAreNumbers
  DEF Raise, BInv, EventTypes, Frames
<1>3. ASSUME NEW k \in 1..(depth + 1)
      PROVE  IsStrongest(meta'[k], heard'[k]) /\ heard'[k] \subseteq Answers(event'[k])
  <2>1. CASE k = depth + 1
    BY <1>1, <2>1 DEF Raise, BInv, EventTypes, IsStrongest
  <2>2. CASE k \in 1..depth
    BY <1>1, <2>2, DepthIsBounded DEF Raise, BInv, EventTypes, AnsweredSoFar
  <2> QED
    BY <1>1, <2>1, <2>2
<1> QED
  BY <1>1, <1>2, <1>3 DEF AnsweredSoFar

LEMMA UnheardKeepsAnswers == BInv /\ RaiseUnheard => EventTypes' /\ AnsweredSoFar'
  BY StrengthsAreNumbers
  DEF RaiseUnheard, vars, frames, BInv, EventTypes, AnsweredSoFar

\* The one step that changes an answer.
LEMMA AnswerKeepsAnswers ==
    ASSUME BInv, NEW a \in Unset..Supercede, HookAnswers(a)
    PROVE  EventTypes' /\ AnsweredSoFar'
<1> USE StrengthsAreNumbers
<1>1. depth \in 1..depth /\ depth \in Frames /\ depth' = depth
      /\ 1..depth \subseteq Frames /\ a \in Answers(event[depth])
  BY DepthIsBounded, DepthAssumption
  DEF HookAnswers, HandlerReturns, BInv, Inv, TypeOK, LockHeldByOutermost, Frames
<1>2. EventTypes'
  BY <1>1 DEF HookAnswers, BInv, EventTypes
<1>3. IsStrongest(meta'[depth], heard'[depth])
      /\ heard'[depth] \subseteq Answers(event[depth])
  <2>1. /\ meta[depth] \in 1..4
        /\ heard[depth] \subseteq 1..4
        /\ IsStrongest(meta[depth], heard[depth])
        /\ heard[depth] \subseteq Answers(event[depth])
    BY <1>1 DEF BInv, EventTypes, AnsweredSoFar
  <2>2. meta'[depth] = IF a > meta[depth] THEN a ELSE meta[depth]
    BY <1>1 DEF HookAnswers, BInv, EventTypes
  <2>3. heard'[depth] = IF a = Unset THEN heard[depth] ELSE heard[depth] \cup {a}
    BY <1>1 DEF HookAnswers, BInv, EventTypes
  <2> QED
    BY <1>1, <2>1, <2>2, <2>3 DEF IsStrongest
<1>4. ASSUME NEW k \in 1..depth, k # depth
      PROVE  meta'[k] = meta[k] /\ heard'[k] = heard[k]
  BY <1>1, <1>4 DEF HookAnswers, BInv, EventTypes
<1> QED
  BY <1>1, <1>2, <1>3, <1>4 DEF AnsweredSoFar, BInv, HookAnswers

LEMMA EndKeepsAnswers == BInv /\ EventEnds => EventTypes' /\ AnsweredSoFar'
<1> SUFFICES ASSUME BInv, EventEnds PROVE EventTypes' /\ AnsweredSoFar'
  OBVIOUS
<1>1. depth \in Frames /\ depth' = depth - 1 /\ 1..depth' \subseteq 1..depth
      /\ depth \notin 1..depth' /\ 1..depth \subseteq Frames
  BY DepthIsBounded, DepthAssumption
  DEF EventEnds, EndDispatch, Walking, BInv, Inv, TypeOK, Frames
<1>2. EventTypes'
  BY <1>1, StrengthsAreNumbers DEF EventEnds, BInv, EventTypes, Frames
<1>3. ASSUME NEW k \in 1..depth'
      PROVE  meta'[k] = meta[k] /\ heard'[k] = heard[k] /\ event'[k] = event[k]
  BY <1>1 DEF EventEnds, BInv, EventTypes
<1> QED
  BY <1>1, <1>2, <1>3 DEF AnsweredSoFar, BInv

LEMMA BInitInv == BInit => BInv
<1> SUFFICES ASSUME BInit PROVE BInv
  OBVIOUS
<1>1. Inv
  BY InitInv DEF BInit
<1>2. depth = 0
  BY DEF BInit, Init
<1>3. EventTypes
  BY <1>2, StrengthsAreNumbers, DepthAssumption DEF BInit, EventTypes, Frames
<1>4. AnsweredSoFar
  BY <1>2 DEF AnsweredSoFar
<1> QED
  BY <1>1, <1>3, <1>4 DEF BInv

LEMMA BNextInv == BInv /\ [BNext]_allVars => BInv'
<1> SUFFICES ASSUME BInv, [BNext]_allVars PROVE BInv'
  OBVIOUS
<1>1. ASSUME NEW p \in Points, Bind(p) \/ Raise(p)
      PROVE  EventTypes' /\ AnsweredSoFar'
  BY <1>1, BindKeepsAnswers, RaiseKeepsAnswers
<1>2. ASSUME NEW a \in Unset..Supercede, HookAnswers(a)
      PROVE  EventTypes' /\ AnsweredSoFar'
  BY <1>2, AnswerKeepsAnswers
<1>3. EventTypes' /\ AnsweredSoFar'
  BY <1>1, <1>2, QuietKeepsAnswers, UnheardKeepsAnswers, EndKeepsAnswers
  DEF BNext, BQuiet
<1> QED
  BY <1>3, BChannelInv DEF BInv

\* BInv holds in every reachable state.
THEOREM BInvariance == BSpec => []BInv
  BY BInitInv, BNextInv, PTL DEF BSpec

\* Every variable keeps its type.
THEOREM BindingsTyping == BSpec => []BTypeOK
<1>1. BInv => BTypeOK
  BY DEF BInv, Inv, EventTypes, BTypeOK
<1> QED
  BY <1>1, BInvariance, PTL

\* A step that ends a dispatch ends an event, and hands its answer over.
LEMMA EndAnswers ==
    ASSUME BInv, [BNext]_allVars, depth' < depth
    PROVE  /\ IsStrongest(current', heard[depth])
           /\ event[depth][2] = "after" => current' < Supercede
<1> USE StrengthsAreNumbers
<1>1. EventEnds
  <2>1. depth \in Nat
    BY DepthIsBounded DEF BInv
  <2> QED
    BY <2>1
    DEF BNext, Bind, Subscribe, Raise, BeginDispatch, BSubscription, Pin, Unpin,
        Cancel, Release, Unbind, Destroy, RaiseUnheard, Skips, HookAnswers,
        HandlerReturns, BWalk, CallHandler, Sweep, Spin, BGone, Gone, allVars,
        vars, frames
<1>2. depth \in 1..depth /\ depth \in Frames
  BY <1>1, DepthIsBounded, DepthAssumption
  DEF EventEnds, EndDispatch, Walking, BInv, Inv, TypeOK, Frames
<1>3. /\ current' = meta[depth]
      /\ IsStrongest(meta[depth], heard[depth])
      /\ heard[depth] \subseteq Answers(event[depth])
  BY <1>1, <1>2 DEF EventEnds, BInv, AnsweredSoFar
<1>4. event[depth][2] = "after" => Answers(event[depth]) = Unset..Override
  BY DEF Answers
<1> QED
  BY <1>3, <1>4 DEF IsStrongest

\* Metamod reads the strongest answer of the hooks of its own event.
THEOREM EventsAreAnswered == BSpec => EventIsAnswered
<1>1. BInv /\ [BNext]_allVars
        => [depth' < depth =>
              /\ IsStrongest(current', heard[depth])
              /\ event[depth][2] = "after" => current' < Supercede]_allVars
  BY EndAnswers
<1> QED
  BY <1>1, BInvariance, PTL DEF BSpec, EventIsAnswered
=============================================================================
