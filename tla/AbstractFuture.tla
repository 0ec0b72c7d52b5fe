--------------------------- MODULE AbstractFuture ---------------------------
(***************************************************************************)
(* What a future of p5::lambda::utils::async promises.  It is settled at   *)
(* most once, with a value, an exception or a cancellation; dropping an    *)
(* unsettled issuer cancels it.  Every handler that was subscribed before  *)
(* that and not withdrawn is called exactly once, after the settlement and *)
(* in the order of subscription; then the future is done with handlers.    *)
(* A handler subscribed later is called at once and does not wait.         *)
(***************************************************************************)
EXTENDS Naturals

CONSTANT MaxSubs    \* bound on the subscriptions that wait

VARIABLES
    content,    \* how the future is settled, "none" before it is
    next,       \* number of the next subscription
    waiting,    \* subscriptions whose handler is still to be called
    busy,       \* a handler is running
    closed      \* every handler has been called

vars == <<content, next, waiting, busy, closed>>

Contents == {"value", "exception", "cancelled"}

Init ==
    /\ content = "none"
    /\ next = 1
    /\ waiting = {}
    /\ busy = FALSE
    /\ closed = FALSE

Subscribe ==
    /\ content = "none"
    /\ next <= MaxSubs
    /\ next' = next + 1
    /\ waiting' = waiting \cup {next}
    /\ UNCHANGED <<content, busy, closed>>

Withdraw(s) ==
    /\ s \in waiting
    /\ waiting' = waiting \ {s}
    /\ UNCHANGED <<content, next, busy, closed>>

Settle(c) ==
    /\ content = "none"
    /\ content' = c
    /\ UNCHANGED <<next, waiting, busy, closed>>

Notify(s) ==
    /\ content # "none"
    /\ ~busy
    /\ s \in waiting
    /\ \A t \in waiting : s <= t
    /\ waiting' = waiting \ {s}
    /\ busy' = TRUE
    /\ UNCHANGED <<content, next, closed>>

Return ==
    /\ busy
    /\ busy' = FALSE
    /\ UNCHANGED <<content, next, waiting, closed>>

Close ==
    /\ content # "none"
    /\ ~busy
    /\ waiting = {}
    /\ ~closed
    /\ closed' = TRUE
    /\ UNCHANGED <<content, next, waiting, busy>>

Next ==
    \/ Subscribe
    \/ \E s \in 1..MaxSubs : Withdraw(s) \/ Notify(s)
    \/ \E c \in Contents : Settle(c)
    \/ Return
    \/ Close

Spec == Init /\ [][Next]_vars
=============================================================================
