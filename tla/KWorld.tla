-------------------------------- MODULE KWorld -------------------------------
(***************************************************************************)
(* What a Kconfig file declares, once it is parsed and finished: a tree,   *)
(* the symbols and choices, and who depends on whom.  It does not change.  *)
(***************************************************************************)
EXTENDS Naturals, Sequences

CONSTANT Worlds     \* the Kconfig files that an object is made from, with the World of each

VARIABLE w          \* the world of the file at hand

IsChoiceOf(x, name) == name \in DOMAIN x.choices
ItemsOf(x) == DOMAIN x.syms \cup DOMAIN x.choices
Defined(x) == {x.order[i] : i \in 1..Len(x.order)}
SymsOf(x, c) == {x.choices[c].syms[i] : i \in 1..Len(x.choices[c].syms)}

\* The comparison of values with auto.conf can be relied on, for these user values:
\* what source files see of a symbol does not change without its file being touched.
\* The operators are Seen, OldValsContents and ToTouch of KFiles.
ChangesAreTouched(x, users, SeenOf(_, _), AutoOf(_, _), TouchedOf(_, _, _)) ==
    \A u, v \in users :
        /\ SeenOf(x, u) = [s \in Defined(x) |-> SeenOf(x, u)[s]]
        /\ LET touched == TouchedOf(x, u, AutoOf(x, v)) IN
           \A s \in Defined(x) :
             SeenOf(x, u)[s] # SeenOf(x, v)[s] => \E i \in 1..Len(touched) : touched[i] = s

\* What is written for some user values gives the same values when a new object reads it.
RoundTrips(x, users, Made(_), Read(_, _, _), ContentsOf(_, _), ValuesIn(_, _)) ==
    \A u \in users : ValuesIn(x, Read(x, Made(x), ContentsOf(x, u)).user) = ValuesIn(x, u)
=============================================================================
