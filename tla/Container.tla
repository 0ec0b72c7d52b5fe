------------------------------ MODULE Container ------------------------------
(***************************************************************************)
(* One node of the container of library/include/p5/lambda/utils/container: *)
(* the value of one type, the exclusive lock that guards who may set it,   *)
(* and the channel that is dispatched whenever it is set or taken away.    *)
(* Lock objects set and clear the value; pointers read it, watch it, and   *)
(* are awaited by coroutines.                                              *)
(*                                                                         *)
(* Nodes share nothing, so one is enough.  The channel is the one of       *)
(* module Channel, step by step.  A node creates it at the first           *)
(* subscription, and one that is absent behaves like one that is empty,    *)
(* so it is there from the start.  Lock objects hold the node weakly, but  *)
(* by a shared pointer for the length of each call: a container that goes  *)
(* from inside a handler leaves its node to the call that is on the stack. *)
(*                                                                         *)
(* A definition marked as a slip is a plausible mistake in the definition  *)
(* after it.  No action uses it: it replaces that definition when the      *)
(* properties are tested for being able to fail.                           *)
(***************************************************************************)
EXTENDS Channel

CONSTANT Locks      \* the Lock objects there may be at a time

VARIABLES
    hosted,     \* the container still has its driver, and so the node
    going,      \* ~Node has begun: every weak pointer to the node is expired
    locked,     \* context_.lock
    present,    \* context_.payload holds a pointer
    link,       \* the locks whose node_ is set
    fixed,      \* those of them whose pinned_ is set
    awaiting    \* subscriptions of coroutines that wait in co_await

node == <<hosted, going, locked, present, link, fixed>>
cvars == <<node, awaiting>>
allVars == <<vars, cvars>>

CInit ==
    /\ Init
    /\ hosted = TRUE
    /\ going = FALSE
    /\ locked = FALSE
    /\ present = FALSE
    /\ link = {}
    /\ fixed = {}
    /\ awaiting = {}

\* Await_ready: the node is gone, or it holds a value.
Ready == going \/ present

\* The handler of a coroutine that waits runs, and has not decided yet.
Deciding == calling /\ at[depth] \in awaiting

\* The node is being destroyed, by a statement that nobody interrupts but the
\* handlers it calls.
Destroying == depth = 0 /\ ~hosted /\ alive

CClientRuns == ClientRuns /\ ~Deciding /\ ~Destroying

\* Node::payload: the value changes, then the channel is dispatched; an empty
\* list is refused.
Notify == IF items = {} THEN UNCHANGED vars ELSE BeginDispatch

----------------------------------------------------------------------------
(* Lock objects.  What they do once the node is gone changes nothing.       *)

Linked(l) == l \in link /\ ~going

\* Container::lock.  A node that is locked throws "resource busy".
TakeLock(l) ==
    /\ CClientRuns
    /\ hosted
    /\ l \notin link
    /\ ~locked
    /\ locked' = TRUE
    /\ link' = link \cup {l}
    /\ UNCHANGED <<vars, hosted, going, present, fixed, awaiting>>

\* Slip: the value is there, and nobody is told.
AssignSilently(l) ==
    /\ CClientRuns
    /\ Linked(l)
    /\ present' = TRUE
    /\ UNCHANGED <<vars, hosted, going, locked, link, fixed, awaiting>>

\* Lock::assign and Lock::emplace, also when a value is there already.
Assign(l) ==
    /\ CClientRuns
    /\ Linked(l)
    /\ present' = TRUE
    /\ Notify
    /\ UNCHANGED <<hosted, going, locked, link, fixed, awaiting>>

FixLock(l) ==
    /\ CClientRuns
    /\ Linked(l)
    /\ fixed' = fixed \cup {l}
    /\ UNCHANGED <<vars, hosted, going, locked, present, link, awaiting>>

UnfixLock(l) ==
    /\ CClientRuns
    /\ Linked(l)
    /\ fixed' = fixed \ {l}
    /\ UNCHANGED <<vars, hosted, going, locked, present, link, awaiting>>

\* The lock frees the node and takes the value out of it.
FreeNode ==
    /\ locked' = FALSE
    /\ present' = FALSE
    /\ Notify

\* Slip: a pinned lock that goes frees the node, and leaves the value.
UnlinkFrees(l) ==
    /\ CClientRuns
    /\ Linked(l)
    /\ link' = link \ {l}
    /\ IF l \in fixed
       THEN locked' = FALSE /\ UNCHANGED <<vars, present>>
       ELSE FreeNode
    /\ fixed' = fixed \ {l}
    /\ UNCHANGED <<hosted, going, awaiting>>

\* Lock::unlink, the destructor, and the assignment of another lock.  A pinned
\* lock leaves the node as it is, locked for good.
UnlinkLock(l) ==
    /\ CClientRuns
    /\ Linked(l)
    /\ link' = link \ {l}
    /\ IF l \in fixed
       THEN UNCHANGED <<vars, locked, present>>
       ELSE FreeNode
    /\ fixed' = fixed \ {l}
    /\ UNCHANGED <<hosted, going, awaiting>>

\* Lock::release, pinned or not.
ReleaseLock(l) ==
    /\ CClientRuns
    /\ Linked(l)
    /\ link' = link \ {l}
    /\ fixed' = fixed \ {l}
    /\ FreeNode
    /\ UNCHANGED <<hosted, going, awaiting>>

----------------------------------------------------------------------------
(* Pointers.                                                                *)

\* Pointer::subscribe.
Watch ==
    /\ CClientRuns
    /\ ~going
    /\ Subscribe
    /\ UNCHANGED cvars

\* co_await of a pointer that is not ready.
Await ==
    /\ CClientRuns
    /\ ~Ready
    /\ Subscribe
    /\ awaiting' = awaiting \cup {next}
    /\ UNCHANGED node

\* What the owner of a subscription does with it.  That of a coroutine is its
\* awaiter's own, which only lets go of it, with the frame.
CSubscription ==
    /\ CClientRuns
    /\ \E s \in Subs :
         \/ s \notin awaiting /\ (Pin(s) \/ Unpin(s) \/ Cancel(s))
         \/ Release(s)
    /\ awaiting' = awaiting \cap held'
    /\ UNCHANGED node

\* The handler of a coroutine that waits: unless the node is ready it returns;
\* otherwise it lets go of its subscription and resumes the coroutine.
Wake ==
    /\ Deciding
    /\ Ready
    /\ Release(at[depth])
    /\ awaiting' = awaiting \ {at[depth]}
    /\ UNCHANGED node

CReturns ==
    /\ Deciding => ~Ready
    /\ HandlerReturns
    /\ UNCHANGED cvars

----------------------------------------------------------------------------
(* The container and its node go.                                           *)

\* Container::unlink, or the end of the container.
Drop ==
    /\ CClientRuns
    /\ hosted
    /\ hosted' = FALSE
    /\ UNCHANGED <<vars, going, locked, present, link, fixed, awaiting>>

\* Slip: the channel goes without being dispatched.
EndNodeSilently ==
    /\ ~hosted
    /\ ~going
    /\ depth = 0
    /\ going' = TRUE
    /\ UNCHANGED <<vars, hosted, locked, present, link, fixed, awaiting>>

\* ~Node, when the last call that held the node has returned: it dispatches the
\* channel once more.
EndNode ==
    /\ ~hosted
    /\ ~going
    /\ depth = 0
    /\ going' = TRUE
    /\ Notify
    /\ UNCHANGED <<hosted, locked, present, link, fixed, awaiting>>

\* The rest of ~Node.
EndChannel ==
    /\ going
    /\ Destroy
    /\ UNCHANGED cvars

CWalk == Walk /\ UNCHANGED cvars

Library == CWalk \/ Wake \/ EndNode \/ EndChannel

CGone == Gone /\ ~hosted /\ UNCHANGED cvars

CClient ==
    \/ \E l \in Locks :
         \/ TakeLock(l) \/ Assign(l) \/ FixLock(l) \/ UnfixLock(l)
         \/ UnlinkLock(l) \/ ReleaseLock(l)
    \/ Watch \/ Await \/ CSubscription
    \/ Drop

CNext == CClient \/ Library \/ CReturns \/ CGone

CSpec == CInit /\ [][CNext]_allVars

(* The library's calls go on, and every handler returns, however many calls *)
(* it makes before: between two of them its own return is possible again.   *)
CFairness ==
    /\ WF_allVars(Library)
    /\ \A k \in Frames : SF_allVars(depth = k /\ CReturns)

CFairSpec == CSpec /\ CFairness

----------------------------------------------------------------------------
(* Properties.                                                              *)

\* Types of the node's context and of the locks, and of the channel under it.
CTypeOK ==
    /\ TypeOK
    /\ hosted \in BOOLEAN
    /\ going \in BOOLEAN
    /\ locked \in BOOLEAN
    /\ present \in BOOLEAN
    /\ link \in SUBSET Locks
    /\ fixed \in SUBSET Locks
    /\ awaiting \in SUBSET Subs

\* A value is in the node only under its lock, and one lock at most may change
\* it, however handlers lock, assign and release inside one another.
OneOwner ==
    /\ \A l, m \in link : l = m
    /\ fixed \subseteq link
    /\ link # {} => locked
    /\ present => locked

\* No wake-up is lost: when no call is on the stack, a coroutine waits only
\* for a node that holds no value, and none waits for a node that is gone.
NoneWaitsInVain ==
    /\ awaiting \subseteq held \cap driven
    /\ depth = 0 /\ Ready => awaiting = {}

\* The channel of a node survives its node's calls: it is not destroyed while
\* it is walked, and its pointers, iterators and lock stay sound although
\* handlers lock, assign and release the node and drop the container.
ChannelStaysSound == PointersMatch /\ IteratorsValid /\ LockHeldByOutermost

\* Whoever waits for the value of a container that goes is told so, and the
\* node goes with it, unless a nested walk stands still.
WaitersAreTold == ~hosted ~> ((awaiting = {} /\ ~alive) \/ StandsStill)
=============================================================================
