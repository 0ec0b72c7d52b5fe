------------------------------ MODULE Channel ------------------------------
(***************************************************************************)
(* The event channel of library/src/utils/async.cxx: a std::list of items, *)
(* each with a pinned flag, a back pointer to the driver of the            *)
(* subscription that owns it and a handler; a lock that is set while the   *)
(* list is being walked; and the walk itself, channel::Driver::dispatch.   *)
(* There is one thread.  What interleaves is re-entrance: a handler may    *)
(* subscribe, pin, cancel or drop subscriptions, and dispatch the same     *)
(* channel again, between two steps of the walk that called it.            *)
(*                                                                         *)
(* Items are numbered in the order of insertion, which is at the end, so   *)
(* the list is the set of its items in increasing order and an iterator is *)
(* a number, EndOfList being std::end.                                     *)
(*                                                                         *)
(* A definition marked as a slip is a plausible mistake in the definition  *)
(* after it.  No action uses it: it replaces that definition when the      *)
(* properties are tested for being able to fail.                           *)
(***************************************************************************)
EXTENDS Naturals

CONSTANTS
    MaxSubs,    \* bound on the subscriptions ever made on the channel
    MaxDepth    \* bound on the dispatches nested in one another

ASSUME SubsAssumption == MaxSubs \in Nat
ASSUME DepthAssumption == MaxDepth \in Nat

VARIABLES
    alive,      \* the channel driver exists
    next,       \* number of the next item
    items,      \* the items in the list
    pinned,     \* the items whose pinned flag is set
    driven,     \* the items whose driver pointer is not null
    linked,     \* the subscription drivers that hold a reference to their item
    held,       \* the subscription drivers some handle still owns
    lock,       \* Pool::lock
    depth,      \* dispatch calls on the stack
    at,         \* at[k]: iterator_ of the k-th of them
    owner,      \* owner[k]: its local lock_
    calling     \* the innermost one is inside item_.handler(event)

pool == <<items, pinned, driven, linked, held>>
frames == <<lock, depth, at, owner, calling>>
vars == <<alive, next, pool, frames>>

Subs == 1..MaxSubs
Frames == 1..MaxDepth
EndOfList == MaxSubs + 1

\* The items dispatch calls: those that fail this test are only swept.
Live == pinned \cup driven
Dead == items \ Live

\* j is the iterator that follows i, or the first one when i is 0.
Follows(i, j) ==
    /\ j \in items \cup {EndOfList}
    /\ i < j
    /\ \A t \in items : i < t => j <= t

\* Code other than the walk runs between dispatches or inside a handler.
ClientRuns == depth = 0 \/ calling

Init ==
    /\ alive = TRUE
    /\ next = 1
    /\ items = {} /\ pinned = {} /\ driven = {} /\ linked = {} /\ held = {}
    /\ lock = FALSE
    /\ depth = 0
    /\ at = [k \in Frames |-> EndOfList]
    /\ owner = [k \in Frames |-> FALSE]
    /\ calling = FALSE

----------------------------------------------------------------------------
(* Calls the owner of the channel and of the subscriptions may make.        *)

Subscribe ==
    /\ ClientRuns
    /\ alive
    /\ next <= MaxSubs
    /\ next' = next + 1
    /\ items' = items \cup {next}
    /\ driven' = driven \cup {next}
    /\ linked' = linked \cup {next}
    /\ held' = held \cup {next}
    /\ UNCHANGED <<alive, pinned, frames>>

Pin(s) ==
    /\ ClientRuns
    /\ s \in held \cap linked
    /\ pinned' = pinned \cup {s}
    /\ UNCHANGED <<alive, next, items, driven, linked, held, frames>>

Unpin(s) ==
    /\ ClientRuns
    /\ s \in held \cap linked
    /\ pinned' = pinned \ {s}
    /\ UNCHANGED <<alive, next, items, driven, linked, held, frames>>

\* Slip: cancel erases the item even while the list is being walked.
CancelErasesUnderLock(s) ==
    /\ ClientRuns
    /\ s \in held \cap linked
    /\ linked' = linked \ {s}
    /\ pinned' = pinned \ {s}
    /\ driven' = driven \ {s}
    /\ items' = items \ {s}
    /\ UNCHANGED <<alive, next, held, frames>>

\* Slip: cancel copies the reference instead of taking it.
CancelKeepsReference(s) ==
    /\ ClientRuns
    /\ s \in held \cap linked
    /\ lock
    /\ pinned' = pinned \ {s}
    /\ driven' = driven \ {s}
    /\ UNCHANGED <<alive, next, items, linked, held, frames>>

\* Subscription::cancel.  Under the lock the item is only disarmed; the walk
\* that holds the lock is the one that may erase it.
Cancel(s) ==
    /\ ClientRuns
    /\ s \in held \cap linked
    /\ linked' = linked \ {s}
    /\ pinned' = pinned \ {s}
    /\ driven' = driven \ {s}
    /\ items' = IF lock THEN items ELSE items \ {s}
    /\ UNCHANGED <<alive, next, held, frames>>

\* The last handle goes: subscription::Driver::~Driver.  A pinned item stays.
Release(s) ==
    /\ ClientRuns
    /\ s \in held
    /\ held' = held \ {s}
    /\ linked' = linked \ {s}
    /\ driven' = IF s \in linked THEN driven \ {s} ELSE driven
    /\ items' = IF s \notin linked \/ lock \/ s \in pinned
                THEN items
                ELSE items \ {s}
    /\ UNCHANGED <<alive, next, pinned, frames>>

\* channel::Driver::~Driver.  Nobody may destroy a channel that is being walked.
Destroy ==
    /\ alive
    /\ depth = 0
    /\ alive' = FALSE
    /\ linked' = linked \ driven
    /\ items' = {} /\ pinned' = {} /\ driven' = {}
    /\ UNCHANGED <<next, held, frames>>

----------------------------------------------------------------------------
(* channel::Driver::dispatch, one step per test of the loop.                *)

\* An empty list is refused before anything changes, so that is no step.
BeginDispatch ==
    /\ ClientRuns
    /\ alive
    /\ depth < MaxDepth
    /\ items # {}
    /\ depth' = depth + 1
    /\ \E j \in Subs : Follows(0, j) /\ at' = [at EXCEPT ![depth + 1] = j]
    /\ owner' = [owner EXCEPT ![depth + 1] = ~lock]
    /\ lock' = TRUE
    /\ calling' = FALSE
    /\ UNCHANGED <<alive, next, pool>>

Walking == depth > 0 /\ ~calling

\* Slip: dispatch calls every item of the list.
CallDeadToo ==
    /\ Walking
    /\ at[depth] \in items
    /\ calling' = TRUE
    /\ UNCHANGED <<alive, next, pool, lock, depth, at, owner>>

CallHandler ==
    /\ Walking
    /\ at[depth] \in Live
    /\ calling' = TRUE
    /\ UNCHANGED <<alive, next, pool, lock, depth, at, owner>>

\* Slip: only the branch that erases moves the iterator.
HandlerReturnsStays ==
    /\ calling
    /\ calling' = FALSE
    /\ UNCHANGED <<alive, next, pool, lock, depth, at, owner>>

\* A handler that throws returns here too: the exception is swallowed.
HandlerReturns ==
    /\ calling
    /\ \E j \in 1..EndOfList :
         Follows(at[depth], j) /\ at' = [at EXCEPT ![depth] = j]
    /\ calling' = FALSE
    /\ UNCHANGED <<alive, next, pool, lock, depth, owner>>

\* Slip: dead items are stepped over and never erased.
SweepSkips ==
    /\ Walking
    /\ at[depth] \in Dead
    /\ owner[depth]
    /\ \E j \in 1..EndOfList :
         Follows(at[depth], j) /\ at' = [at EXCEPT ![depth] = j]
    /\ UNCHANGED <<alive, next, pool, lock, depth, owner, calling>>

Sweep ==
    /\ Walking
    /\ at[depth] \in Dead
    /\ owner[depth]
    /\ items' = items \ {at[depth]}
    /\ \E j \in 1..EndOfList :
         Follows(at[depth], j) /\ at' = [at EXCEPT ![depth] = j]
    /\ UNCHANGED <<alive, next, pinned, driven, linked, held,
                   lock, depth, owner, calling>>

\* A nested walk neither erases a dead item nor steps over it.
Spin ==
    /\ Walking
    /\ at[depth] \in Dead
    /\ ~owner[depth]
    /\ UNCHANGED vars

EndDispatch ==
    /\ Walking
    /\ at[depth] = EndOfList
    /\ depth' = depth - 1
    /\ lock' = (lock /\ ~owner[depth])
    /\ owner' = [owner EXCEPT ![depth] = FALSE]
    /\ calling' = (depth > 1)
    /\ UNCHANGED <<alive, next, pool, at>>

Client ==
    \/ Subscribe
    \/ \E s \in Subs : Pin(s) \/ Unpin(s) \/ Cancel(s) \/ Release(s)
    \/ BeginDispatch
    \/ Destroy

Walk == CallHandler \/ Sweep \/ Spin \/ EndDispatch

\* The channel and every handle to it are gone: nothing is left to do.
Gone == ~alive /\ held = {} /\ UNCHANGED vars

Next == Client \/ Walk \/ HandlerReturns \/ Gone

Spec == Init /\ [][Next]_vars

(* The walk is straight-line code and every handler returns, also one that  *)
(* dispatches now and then.  Nothing makes a client call anything.          *)
Fairness ==
    /\ WF_vars(Walk)
    /\ \A k \in Frames : SF_vars(depth = k /\ HandlerReturns)

FairSpec == Spec /\ Fairness

----------------------------------------------------------------------------
(* Properties.                                                              *)

\* Types of the variables: items, subscription drivers and stack frames.
TypeOK ==
    /\ alive \in BOOLEAN
    /\ next \in 1..EndOfList
    /\ items \in SUBSET Subs
    /\ pinned \in SUBSET Subs
    /\ driven \in SUBSET Subs
    /\ linked \in SUBSET Subs
    /\ held \in SUBSET Subs
    /\ lock \in BOOLEAN
    /\ depth \in 0..MaxDepth
    /\ at \in [Frames -> 1..EndOfList]
    /\ owner \in [Frames -> BOOLEAN]
    /\ calling \in BOOLEAN

\* The two pointers between an item and its subscription never dangle: an
\* item has a driver exactly when that driver still refers to it, the driver
\* object is still owned by a handle, and the item is in the list.  pin,
\* cancel and ~Driver dereference the first, dispatch and ~Driver the second.
PointersMatch ==
    /\ linked = driven
    /\ linked \subseteq held
    /\ Live \subseteq items
    /\ \A s \in items : s < next
    /\ ~alive => items = {}

\* Every dispatch on the stack stands on an item that is still in the list,
\* whatever handlers cancelled or swept below it: only the innermost walk may
\* be past the last item, and only while it is not inside a handler.
IteratorsValid ==
    \A k \in 1..depth :
        /\ at[k] \in items \cup {EndOfList}
        /\ k < depth \/ calling => at[k] \in items

\* The lock is set exactly while some dispatch is on the stack, the outermost
\* one alone owns it, and a channel being walked has not been destroyed.
LockHeldByOutermost ==
    /\ lock <=> depth > 0
    /\ \A k \in 1..depth : owner[k] <=> k = 1
    /\ calling => depth > 0
    /\ depth > 0 => alive

\* Whatever handlers do to the list between two steps of the walks above them, no
\* pointer, no iterator and no lock of a walk is ever a stale one.
WalkIsSound == PointersMatch /\ IteratorsValid /\ LockHeldByOutermost

\* A subscription that was cancelled or dropped never comes back: no later pin
\* or unpin reaches an item that is waiting in the list to be swept.
NoRevival == [][\A s \in Subs : s < next /\ s \notin Live => s \notin Live']_vars

\* Between two handlers the loop of dispatch always gets somewhere: to the next
\* handler or out of the loop.
LoopAdvances ==
    \A k \in Frames : (depth = k /\ ~calling) ~> (calling \/ depth < k)

\* The walk stands for ever on a dead item, as a nested one may.
StandsStill == Walking /\ at[depth] \in Dead /\ ~owner[depth]

\* Provided that every handler returns, a dispatch goes on for ever for one of two
\* reasons only: a nested walk stands still on an item that was cancelled, or again and
\* again something is subscribed, which lengthens the list that is walked.  Wherever
\* a dispatch is, it ends unless one of the two happens from there on, however handlers
\* pin, cancel, drop and dispatch.  Nothing in the code ends a dispatch whose handlers
\* subscribe anew each time they are called; MaxSubs ends it in the instance, and so
\* no claim is made while new numbers are still given out.
DispatchTerminates ==
    \A n \in 1..EndOfList :
        (depth > 0 /\ next = n) ~> (depth = 0 \/ next > n \/ StandsStill)

\* An item cancelled ahead of the outermost walk does not outlive that walk.
DeadItemsAreSwept ==
    \A s \in Subs :
        (depth = 1 /\ ~calling /\ s \in Dead /\ at[1] <= s) ~> (s \notin items \/ StandsStill)

\* The list, the lock and the iterators implement the promise of a channel.
\* A frame still has to call the live items after its iterator, and the one
\* under it when the handler of that one has not started.
Ahead(k) ==
    {s \in Live : at[k] < s \/ (at[k] = s /\ k = depth /\ ~calling)}

Pending == [k \in Frames |-> IF k <= depth THEN Ahead(k) ELSE {}]

Promise == INSTANCE AbstractChannel WITH
    open <- alive,
    live <- Live,
    pending <- Pending

ImplementsPromise == Promise!Spec
=============================================================================
