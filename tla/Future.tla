------------------------------- MODULE Future -------------------------------
(***************************************************************************)
(* future::Driver of library/src/utils/async.cxx over a channel of its     *)
(* own, with the issuer that owns the driver and the fronts that watch it  *)
(* through a weak pointer.  The driver's context holds the channel until   *)
(* the future is settled; set, exception, cancel and ~Driver first settle, *)
(* then move the channel into a temporary, dispatch it and destroy it.     *)
(*                                                                         *)
(* The context creates its channel at the first subscription.  A channel   *)
(* that is absent and one that is empty behave alike, so it is there from  *)
(* the start.  The channel is the one of module Channel, step by step.     *)
(***************************************************************************)
EXTENDS Channel

VARIABLES
    content,    \* what the context holds
    moved,      \* the channel was taken out of the context
    issuer,     \* the issuer, which owns the driver, exists
    kept        \* a front that is cancelling keeps the driver alive

fvars == <<content, moved, issuer, kept>>
allVars == <<vars, fvars>>

Contents == {"value", "exception", "cancelled"}

\* future::State as a front reports it: Bad when the driver is gone.
FrontState ==
    IF issuer \/ kept
    THEN CASE content = "none"      -> "Initial"
           [] content = "cancelled" -> "Cancelled"
           [] OTHER                 -> "Ready"
    ELSE "Bad"

FInit ==
    /\ Init
    /\ content = "none"
    /\ moved = FALSE
    /\ issuer = TRUE
    /\ kept = FALSE

\* Between the end of the dispatch and the end of the full expression that
\* holds the temporary channel nobody else runs.
FClientRuns == ClientRuns /\ ~(moved /\ alive /\ depth = 0)

\* exchange(context_.channel, nullopt)->dispatch(): an empty list is refused.
TakeChannel ==
    /\ moved' = TRUE
    /\ IF items = {} THEN UNCHANGED vars ELSE BeginDispatch

\* Slip: the handlers are told before the context says how it was settled.
SetAfterDispatch(c) ==
    \/ /\ FClientRuns
       /\ issuer
       /\ content = "none"
       /\ ~moved
       /\ TakeChannel
       /\ UNCHANGED <<content, issuer, kept>>
    \/ /\ moved
       /\ ~alive
       /\ content = "none"
       /\ content' = c
       /\ UNCHANGED <<vars, moved, issuer, kept>>

\* Slip: the channel stays in the context, and a settled future is set again.
SetInPlace(c) ==
    /\ FClientRuns
    /\ alive
    /\ issuer
    /\ content' = c
    /\ TakeChannel
    /\ UNCHANGED <<issuer, kept>>

\* Issuer::set, Issuer::exception, and the driver's set and exception.
SetByIssuer(c) ==
    /\ FClientRuns
    /\ issuer
    /\ content = "none"
    /\ content' = c
    /\ TakeChannel
    /\ UNCHANGED <<issuer, kept>>

\* Front::cancel, which Issuer::cancel calls too: the weak pointer is locked
\* for the length of the call.
CancelByFront ==
    /\ FClientRuns
    /\ issuer
    /\ content = "none"
    /\ content' = "cancelled"
    /\ kept' = TRUE
    /\ TakeChannel
    /\ UNCHANGED issuer

\* Slip: the temporary channel is destroyed without being dispatched.
DropIssuerSilently ==
    /\ FClientRuns
    /\ issuer
    /\ issuer' = FALSE
    /\ IF content = "none"
       THEN content' = "cancelled" /\ moved' = TRUE /\ UNCHANGED vars
       ELSE UNCHANGED <<vars, content, moved>>
    /\ UNCHANGED kept

\* The issuer is destroyed or reassigned.  Unless a front keeps it, the driver
\* goes with it, and an unsettled one cancels.
DropIssuer ==
    /\ FClientRuns
    /\ issuer
    /\ issuer' = FALSE
    /\ IF content = "none"
       THEN content' = "cancelled" /\ TakeChannel
       ELSE UNCHANGED <<vars, content, moved>>
    /\ UNCHANGED kept

\* Front::subscribe on a future that is not settled.  On a settled one the
\* handler is called at once and no subscription is made.
FSubscribe ==
    /\ FClientRuns
    /\ issuer
    /\ content = "none"
    /\ Subscribe
    /\ UNCHANGED fvars

FSubscription ==
    /\ FClientRuns
    /\ \E s \in Subs : Pin(s) \/ Unpin(s) \/ Cancel(s) \/ Release(s)
    /\ UNCHANGED fvars

\* Slip: the temporary is let go only when a front was cancelling.
DestroyForFrontOnly ==
    /\ moved /\ alive /\ depth = 0 /\ kept
    /\ Destroy
    /\ kept' = FALSE
    /\ UNCHANGED <<content, moved, issuer>>

\* The full expression ends: the temporary channel goes, and with it the
\* shared pointer of a front that was cancelling.
DestroyTemporary ==
    /\ moved
    /\ Destroy
    /\ kept' = FALSE
    /\ UNCHANGED <<content, moved, issuer>>

FWalk == (Walk /\ UNCHANGED fvars) \/ DestroyTemporary

FReturns == HandlerReturns /\ UNCHANGED fvars

FGone == Gone /\ UNCHANGED fvars

FNext ==
    \/ \E c \in {"value", "exception"} : SetByIssuer(c)
    \/ CancelByFront
    \/ DropIssuer
    \/ FSubscribe
    \/ FSubscription
    \/ FWalk
    \/ FReturns
    \/ FGone

FSpec == FInit /\ [][FNext]_allVars

\* As for the channel: the calls end, and every handler returns.
FFairSpec == FSpec /\ WF_allVars(FWalk) /\ WF_allVars(FReturns)

----------------------------------------------------------------------------
(* Properties.                                                              *)

\* The type of the context, and of the channel under it.
FTypeOK ==
    /\ TypeOK
    /\ content \in Contents \cup {"none"}
    /\ moved \in BOOLEAN
    /\ issuer \in BOOLEAN
    /\ kept \in BOOLEAN

\* Whoever a future wakes finds it settled, or gone after it was settled.  While the
\* driver is there, await_resume of a coroutine that waited has the value or the exception
\* to take.  When the issuer was dropped, to cancel the future or by a handler
\* called earlier for the same settlement, the driver may be gone: then await_resume
\* throws BadState ("empty driver pointer"), also if a value had been set.
WokenSeesSettledOrGone ==
    calling => FrontState \in {"Ready", "Cancelled"} \/ (FrontState = "Bad" /\ content # "none")

\* The channel of a future is never dispatched from one of its own handlers,
\* so the walk that a nested dispatch cannot finish never starts here.
NeverNested == depth <= 1

\* Pointers, iterators and lock of the channel stay sound although its owner
\* and the future's handlers settle, cancel and drop in any order.
ChannelStaysSound == PointersMatch /\ IteratorsValid /\ LockHeldByOutermost

\* A settled future calls its handlers and lets go of every subscription.
SettledIsClosed == (content # "none") ~> (~alive /\ linked = {})

\* Before the settlement all that is live waits, then what the walk has ahead.
Waiting == IF ~moved THEN Live ELSE IF depth = 1 THEN Pending[1] ELSE {}

Contract == INSTANCE AbstractFuture WITH
    waiting <- Waiting,
    busy <- calling,
    closed <- ~alive

\* The driver, the moved channel and its walk implement the future.
ImplementsContract == Contract!Spec
=============================================================================
