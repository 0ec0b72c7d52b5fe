------------------------------- MODULE Bindings -------------------------------
(***************************************************************************)
(* The bindings of the plugin, metamod_plugin/src/core/bindings.cxx: all   *)
(* hooks of all modules subscribe to one channel, the one of module        *)
(* Channel, and Metamod raises events on it, before and after a function   *)
(* of the game or of the engine runs.  A hook is bound to one target and   *)
(* one phase, and skips the events of the others.  The hooks of an event   *)
(* answer, and the strongest answer is what Metamod reads from its globals *)
(* when the event has ended.                                               *)
(*                                                                         *)
(* What a hook does may raise an event again, inside the one it is called  *)
(* for.  No function that can be hooked returns a value, so the merging of *)
(* returned values is left out.                                            *)
(*                                                                         *)
(* A definition marked as a slip is a plausible mistake in the definition  *)
(* after it.  No action uses it: it replaces that definition when the      *)
(* properties are tested for being able to fail.                           *)
(***************************************************************************)
EXTENDS Channel

CONSTANT Targets    \* the functions that can be hooked

VARIABLES
    point,      \* what each hook is bound to: key_ and the phase of its handler
    event,      \* the point each dispatch on the stack was raised for
    meta,       \* state_.meta of each of them
    current,    \* globals_->current
    heard       \* history: what the hooks answered to each of the events

answering == <<event, meta, current, heard>>
bvars == <<point, answering>>
allVars == <<vars, bvars>>

Points == Targets \X {"before", "after"}

\* metamod::plugin::HookResult, in its order.
Unset == 0
Ignored == 1
Handled == 2
Override == 3
Supercede == 4

\* The answers a hook may give: binding::phase::Traits::Meta.  One that throws,
\* or gives none of them, leaves state_ unset.
Answers(p) == Unset .. (IF p[2] = "before" THEN Supercede ELSE Override)

NoPoint == <<>>

BInit ==
    /\ Init
    /\ point = [s \in Subs |-> NoPoint]
    /\ event = [k \in Frames |-> NoPoint]
    /\ meta = [k \in Frames |-> Ignored]
    /\ current = Unset
    /\ heard = [k \in Frames |-> {}]

\* action_handler goes on to the hook's own code.
Matches == point[at[depth]] = event[depth]

BClientRuns == depth = 0 \/ (calling /\ Matches)

----------------------------------------------------------------------------
(* Code of the modules, between events and inside hooks.                    *)

\* Bindings::inject.
Bind(p) ==
    /\ BClientRuns
    /\ Subscribe
    /\ point' = [point EXCEPT ![next] = p]
    /\ UNCHANGED answering

BSubscription ==
    /\ BClientRuns
    /\ \E s \in Subs : Pin(s) \/ Unpin(s) \/ Cancel(s) \/ Release(s)
    /\ UNCHANGED bvars

\* unload resets the bindings.
Unbind ==
    /\ BClientRuns
    /\ Destroy
    /\ UNCHANGED bvars

----------------------------------------------------------------------------
(* Events: Executor_::execute and target_handler.  Without bindings nothing *)
(* happens.                                                                 *)

Raise(p) ==
    /\ BClientRuns
    /\ BeginDispatch
    /\ event' = [event EXCEPT ![depth + 1] = p]
    /\ meta' = [meta EXCEPT ![depth + 1] = Ignored]
    /\ heard' = [heard EXCEPT ![depth + 1] = {}]
    /\ UNCHANGED <<point, current>>

\* The channel refuses to dispatch an empty list, and the event is over.
RaiseUnheard ==
    /\ BClientRuns
    /\ alive
    /\ items = {}
    /\ current' = Ignored
    /\ UNCHANGED <<vars, point, event, meta, heard>>

\* A hook that is bound to something else returns.
Skips ==
    /\ calling
    /\ ~Matches
    /\ HandlerReturns
    /\ UNCHANGED bvars

\* Slip: the answer is kept where Metamod reads it.
AnswersInPlace(a) ==
    /\ calling
    /\ Matches
    /\ a \in Answers(event[depth])
    /\ HandlerReturns
    /\ current' = IF a > current THEN a ELSE current
    /\ meta' = [meta EXCEPT ![depth] = current']
    /\ heard' = IF a = Unset THEN heard ELSE [heard EXCEPT ![depth] = @ \cup {a}]
    /\ UNCHANGED <<point, event>>

\* A hook returns, and response_ keeps the stronger of its answer and what the
\* hooks before it said.
HookAnswers(a) ==
    /\ calling
    /\ Matches
    /\ a \in Answers(event[depth])
    /\ HandlerReturns
    /\ meta' = IF a > meta[depth] THEN [meta EXCEPT ![depth] = a] ELSE meta
    /\ heard' = IF a = Unset THEN heard ELSE [heard EXCEPT ![depth] = @ \cup {a}]
    /\ UNCHANGED <<point, event, current>>

BWalk ==
    /\ CallHandler \/ Sweep \/ Spin
    /\ UNCHANGED bvars

\* dispatch returns, and the answer goes to Metamod.
EventEnds ==
    /\ EndDispatch
    /\ current' = meta[depth]
    /\ event' = [event EXCEPT ![depth] = NoPoint]
    /\ meta' = [meta EXCEPT ![depth] = Ignored]
    /\ heard' = [heard EXCEPT ![depth] = {}]
    /\ UNCHANGED point

BGone == Gone /\ UNCHANGED bvars

BNext ==
    \/ \E p \in Points : Bind(p) \/ Raise(p)
    \/ BSubscription \/ Unbind
    \/ RaiseUnheard
    \/ Skips \/ BWalk \/ EventEnds
    \/ \E a \in Unset..Supercede : HookAnswers(a)
    \/ BGone

BSpec == BInit /\ [][BNext]_allVars

----------------------------------------------------------------------------
(* Properties.                                                              *)

\* Types of the hooks, of the events on the stack and of their answers.
BTypeOK ==
    /\ TypeOK
    /\ point \in [Subs -> Points \cup {NoPoint}]
    /\ event \in [Frames -> Points \cup {NoPoint}]
    /\ meta \in [Frames -> Ignored..Supercede]
    /\ current \in Unset..Supercede
    /\ heard \in [Frames -> SUBSET (Ignored..Supercede)]
    /\ \A k \in Frames : k <= depth => event[k] # NoPoint

IsStrongest(a, answers) ==
    /\ a \in answers \cup {Ignored}
    /\ \A b \in answers : b <= a

\* What Metamod reads after an event is the strongest answer of its own hooks,
\* whatever events were raised inside it, and no hook bound to an "after" makes
\* it skip a function that has already run.
EventIsAnswered ==
    [][depth' < depth =>
         /\ IsStrongest(current', heard[depth])
         /\ event[depth][2] = "after" => current' < Supercede]_allVars
=============================================================================
