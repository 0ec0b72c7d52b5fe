------------------------------- MODULE KSearch -------------------------------
(***************************************************************************)
(* The search for dependency loops that ends _init of kconfiglib.py.  It   *)
(* is a depth-first search over the dependents; Python iterates over a set *)
(* in no particular order, and the model in every order.  A frame of the   *)
(* stack is a call of _check_dep_loop_sym or _check_dep_loop_choice that   *)
(* has not returned.                                                       *)
(***************************************************************************)
EXTENDS KWorld

VARIABLES
    visited,        \* item -> 0, 1 or 2
    stack,          \* the calls, the innermost last
    next,           \* the number of the next symbol to start from
    verdict         \* "search", "accepted", or "loop"

loopVars == <<w, visited, stack, next, verdict>>

\* Symbols and choices have names of their own, and refer to each other; "" is
\* the choice of a symbol that is in none.
Whole(x) ==
    /\ DOMAIN x.syms \cap DOMAIN x.choices = {} /\ "" \notin ItemsOf(x)
    /\ x.order \in Seq(DOMAIN x.syms)
    /\ x.dependents \in [ItemsOf(x) -> SUBSET ItemsOf(x)]
    /\ \A s \in DOMAIN x.syms : x.syms[s].choice \in DOMAIN x.choices \cup {""}
    /\ \A c \in DOMAIN x.choices : x.choices[c].syms \in Seq(DOMAIN x.syms)

ASSUME WorldsAssumption == \A t \in DOMAIN Worlds : Worlds[t].ok => Whole(Worlds[t])

SymFrame(s, ignore_choice) ==
    [item |-> s, todo |-> w.dependents[s], syms |-> <<>>, skip |-> "",
     choice |-> IF ignore_choice THEN "" ELSE w.syms[s].choice]
ChoiceFrame(c, skip) ==
    [item |-> c, todo |-> {}, choice |-> "", syms |-> w.choices[c].syms, skip |-> skip]

LoopInit ==
    /\ \E t \in DOMAIN Worlds : w = Worlds[t] /\ w.ok
    /\ visited = [i \in ItemsOf(w) |-> 0]
    /\ stack = <<>>
    /\ next = 1
    /\ verdict = "search"

Searching == verdict = "search" /\ stack # <<>>
TopCall == stack[Len(stack)]
WithTop(frame) == [stack EXCEPT ![Len(stack)] = frame]

\* A call on frame.item from the frames on calls.
Call(calls, frame) ==
    \/ /\ visited[frame.item] = 0
       /\ visited' = [visited EXCEPT ![frame.item] = 1]
       /\ stack' = Append(calls, frame)
       /\ UNCHANGED verdict
    \/ /\ visited[frame.item] = 1
       /\ verdict' = "loop"
       /\ stack' = Append(calls, frame)
       /\ UNCHANGED visited
    \/ /\ visited[frame.item] = 2
       /\ stack' = calls
       /\ UNCHANGED <<visited, verdict>>

StartFrom ==
    /\ verdict = "search" /\ stack = <<>> /\ next <= Len(w.order)
    /\ Call(<<>>, SymFrame(w.order[next], FALSE))
    /\ next' = next + 1
    /\ UNCHANGED w

VisitDependent ==
    /\ Searching
    /\ \E d \in TopCall.todo :
         Call(WithTop([TopCall EXCEPT !.todo = @ \ {d}]),
              IF IsChoiceOf(w, d) THEN ChoiceFrame(d, "") ELSE SymFrame(d, FALSE))
    /\ UNCHANGED <<w, next>>

VisitChoice ==
    /\ Searching
    /\ TopCall.todo = {} /\ TopCall.choice # ""
    /\ Call(WithTop([TopCall EXCEPT !.choice = ""]), ChoiceFrame(TopCall.choice, TopCall.item))
    /\ UNCHANGED <<w, next>>

VisitChoiceSym ==
    /\ Searching
    /\ TopCall.syms # <<>>
    /\ LET calls == WithTop([TopCall EXCEPT !.syms = Tail(@)])
           s == Head(TopCall.syms)
       IN  IF s = TopCall.skip THEN stack' = calls /\ UNCHANGED <<visited, verdict>>
           ELSE Call(calls, SymFrame(s, TRUE))
    /\ UNCHANGED <<w, next>>

\* Everything was walked.
Leave ==
    /\ Searching
    /\ TopCall.todo = {} /\ TopCall.choice = "" /\ TopCall.syms = <<>>
    /\ visited' = [visited EXCEPT ![TopCall.item] = 2]
    /\ stack' = SubSeq(stack, 1, Len(stack) - 1)
    /\ UNCHANGED <<w, next, verdict>>

Accept ==
    /\ verdict = "search" /\ stack = <<>> /\ next > Len(w.order)
    /\ verdict' = "accepted"
    /\ UNCHANGED <<w, visited, stack, next>>

LoopNext == StartFrom \/ VisitDependent \/ VisitChoice \/ VisitChoiceSym \/ Leave \/ Accept

LoopSpec == LoopInit /\ [][LoopNext]_loopVars

----------------------------------------------------------------------------
(* The loop that _found_dep_loop collects on the way back.                  *)

FoundDepLoop ==
    LET last == stack[Len(stack)].item
        at == CHOOSE i \in 1..(Len(stack) - 1) : stack[i].item = last
    IN  [i \in 1..(Len(stack) - at + 1) |-> stack[at + i - 1].item]

----------------------------------------------------------------------------
(* Properties.                                                              *)

\* Where the search goes on from an item: to the dependents of a symbol, and to the
\* symbols of a choice.  (The dependents of a choice are found as its symbols.)
Followed(x, i) == IF IsChoiceOf(x, i) THEN SymsOf(x, i) ELSE x.dependents[i]

\* Each item in the set is followed by another one in it.
Circular(x, S) == \A i \in S : Followed(x, i) \cap S # {}

\* "Once a symbol/choice and all its dependencies (or dependents in this case) have
\* been checked recursively without detecting any loops", it is "not part of a
\* dependency loop": when a file is accepted, no loop through dependents, and from
\* choices to their symbols, can be reached that has a defined symbol in it.
AcceptedHasNoLoop ==
    verdict = "accepted" =>
      \A S \in SUBSET ItemsOf(w) : Circular(w, S) => S \cap Defined(w) = {}

\* A symbol also leads to its choice.
Leads(x, a, b) == b \in Followed(x, a) \/ (~IsChoiceOf(x, a) /\ b = x.syms[a].choice)

\* "If we run into a symbol/choice X with _visited already set to 1, there's a
\* dependency loop": what is reported begins and ends with the same item, and each
\* item in it leads to the next.
ReportedLoopIsClosed ==
    verdict = "loop" =>
      LET loop == FoundDepLoop
      IN   /\ Len(loop) > 1 /\ loop[1] = loop[Len(loop)]
          /\ \A i \in 1..(Len(loop) - 1) : Leads(w, loop[i], loop[i + 1])
=============================================================================
