-------------------------------- MODULE KLoop --------------------------------
(***************************************************************************)
(* What the search for dependency loops is for: a file that it accepts can *)
(* be evaluated, unless its choices or MODULES are of a kind that the      *)
(* search does not follow, and a loop that it reports is one.              *)
(***************************************************************************)
EXTENDS KEval, KSearch

LOCAL INSTANCE SequencesExt
LOCAL INSTANCE FiniteSets

----------------------------------------------------------------------------
(* What an evaluation may need: a cell of one kind for each cached          *)
(* attribute, whatever the values are.                                      *)

ValCell(x, i) == IF IsChoiceOf(x, i) THEN <<"vis", i>> ELSE <<"val", i>>

NeededBy(x, cell) ==
    LET i == cell[2]
        choice == IsChoiceOf(x, i)
        typed(t) == IF t = "tristate" THEN {<<"val", MODULES>>} ELSE {}
        prompts == IF choice THEN x.choices[i].prompts ELSE x.syms[i].prompts
        type == IF choice THEN x.choices[i].type ELSE x.syms[i].type
        up == IF choice \/ x.syms[i].choice = "" THEN "" ELSE x.syms[i].choice
    IN  CASE cell[1] = "vis" ->
               {ValCell(x, j) : j \in ReachedBy(ToSet(prompts))} \cup typed(type)
               \cup (IF up = "" THEN {} ELSE {<<"vis", up>>})
          [] cell[1] = "val" ->
               {<<"vis", i>>} \cup {ValCell(x, j) : j \in SymReads(x.syms[i])} \cup typed(type)
               \cup (IF up = "" THEN {} ELSE {<<"sel", up>>})
          [] cell[1] = "sel" ->
               {<<"vis", i>>} \cup {<<"vis", s>> : s \in ToSet(x.choices[i].syms)}
               \cup {ValCell(x, j) : j \in ReachedBy(Conds(x.choices[i].defaults))}

CellsOf(x) == ({"vis", "val"} \X Defined(x)) \cup ({"vis", "sel"} \X DOMAIN x.choices)

RECURSIVE NeededFrom(_, _)
NeededFrom(x, cells) ==
    LET more == UNION {NeededBy(x, c) : c \in cells \cap CellsOf(x)}
    IN  IF more \subseteq cells THEN cells ELSE NeededFrom(x, cells \cup more)

EvaluationEndsIn(x) == \A c \in CellsOf(x) : c \notin NeededFrom(x, NeededBy(x, c))

----------------------------------------------------------------------------
(* Where the search is enough: what it does not follow leads to no loop.    *)

\* What is computed anew when an item is: its dependents, and for a symbol of a
\* choice the other symbols, one of which may be selected instead.
Onward(x, i) ==
    x.dependents[i] \cup (IF IsChoiceOf(x, i) \/ x.syms[i].choice = "" THEN {}
                          ELSE SymsOf(x, x.syms[i].choice) \ {i})

RECURSIVE Reaching(_, _)
Reaching(x, items) ==
    LET more == UNION {Onward(x, i) : i \in items}
    IN  IF more \subseteq items THEN items ELSE Reaching(x, items \cup more)

Affected(x, i) == Reaching(x, x.dependents[i])

\* The choice depends on nothing that lies in it or is computed from it, and no symbol of
\* it on another one, be it by way of other items and choices.
Apart(x, c) ==
    /\ c \notin Affected(x, c)
    /\ \A s \in SymsOf(x, c) : Affected(x, s) \cap SymsOf(x, c) = {}

\* Two symbols that alone lead to the choice: whichever the search comes through, it
\* goes on to the other one while the first is on the stack.
PairAlone(x, c) ==
    /\ Cardinality(SymsOf(x, c)) <= 2
    /\ x.dependents[c] \subseteq SymsOf(x, c)
    /\ \A i \in ItemsOf(x) : c \notin x.dependents[i]

\* The type of a tristate item depends on MODULES, which the search does not know.
ModulesIsApart(x) ==
    \A i \in ItemsOf(x) :
      (IF IsChoiceOf(x, i) THEN x.choices[i].type ELSE x.syms[i].type) = "tristate"
        => MODULES \notin Reaching(x, {i})

\* A symbol that is in two choices belongs to the last one, and a search that comes
\* through it does not go on to the other.
InOneChoice(x) == \A c \in DOMAIN x.choices : \A s \in SymsOf(x, c) : x.syms[s].choice = c

SearchIsEnough(x) ==
    /\ ModulesIsApart(x) /\ InOneChoice(x)
    /\ \A c \in DOMAIN x.choices : Apart(x, c) \/ PairAlone(x, c)


=============================================================================
