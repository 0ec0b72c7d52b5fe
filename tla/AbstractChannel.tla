-------------------------- MODULE AbstractChannel --------------------------
(***************************************************************************)
(* What an event channel of p5::lambda::utils::async promises, with no     *)
(* list, no iterator and no lock.  A dispatch calls, in subscription       *)
(* order, every subscription that is live when its turn comes: the ones    *)
(* made while the dispatch is running are included, the ones cancelled     *)
(* before their turn are not.  Handlers may subscribe, cancel and dispatch *)
(* the channel again, so dispatches form a stack.                          *)
(*                                                                         *)
(* Subscriptions are numbered in the order in which they are made.         *)
(***************************************************************************)
EXTENDS Naturals

CONSTANTS
    MaxSubs,    \* bound on the subscriptions ever made
    MaxDepth    \* bound on the dispatches nested in one another

VARIABLES
    open,       \* the channel exists
    next,       \* number of the next subscription
    live,       \* the subscriptions a dispatch has to call
    depth,      \* dispatches in progress, each inside a handler of the one below
    pending,    \* pending[k]: what dispatch k still has to call
    calling     \* a handler of the innermost dispatch is running

vars == <<open, next, live, depth, pending, calling>>

Frames == 1..MaxDepth

Init ==
    /\ open = TRUE
    /\ next = 1
    /\ live = {}
    /\ depth = 0
    /\ pending = [k \in Frames |-> {}]
    /\ calling = FALSE

\* Code other than the dispatch loop runs between dispatches or in a handler.
ClientRuns == depth = 0 \/ calling

Subscribe ==
    /\ ClientRuns
    /\ open
    /\ next <= MaxSubs
    /\ next' = next + 1
    /\ live' = live \cup {next}
    /\ pending' = [k \in Frames |->
                     IF k <= depth THEN pending[k] \cup {next} ELSE pending[k]]
    /\ UNCHANGED <<open, depth, calling>>

Drop(s) ==
    /\ ClientRuns
    /\ s \in live
    /\ live' = live \ {s}
    /\ pending' = [k \in Frames |-> pending[k] \ {s}]
    /\ UNCHANGED <<open, next, depth, calling>>

Begin ==
    /\ ClientRuns
    /\ open
    /\ depth < MaxDepth
    /\ depth' = depth + 1
    /\ pending' = [pending EXCEPT ![depth + 1] = live]
    /\ calling' = FALSE
    /\ UNCHANGED <<open, next, live>>

Deliver(s) ==
    /\ depth > 0
    /\ ~calling
    /\ s \in pending[depth]
    /\ \A t \in pending[depth] : s <= t
    /\ pending' = [pending EXCEPT ![depth] = @ \ {s}]
    /\ calling' = TRUE
    /\ UNCHANGED <<open, next, live, depth>>

Return ==
    /\ calling
    /\ calling' = FALSE
    /\ UNCHANGED <<open, next, live, depth, pending>>

End ==
    /\ depth > 0
    /\ ~calling
    /\ pending[depth] = {}
    /\ depth' = depth - 1
    /\ calling' = (depth > 1)
    /\ UNCHANGED <<open, next, live, pending>>

Close ==
    /\ open
    /\ depth = 0
    /\ open' = FALSE
    /\ live' = {}
    /\ UNCHANGED <<next, depth, pending, calling>>

Next ==
    \/ Subscribe
    \/ \E s \in 1..MaxSubs : Drop(s) \/ Deliver(s)
    \/ Begin
    \/ Return
    \/ End
    \/ Close

Spec == Init /\ [][Next]_vars
=============================================================================
