------------------------------- MODULE KValues -------------------------------
(***************************************************************************)
(* A Kconfig object of kconfiglib.py in use: user values are set and       *)
(* removed in any order, and attributes of symbols and choices are read in *)
(* between, which fills their caches.  An assignment invalidates the       *)
(* caches of what depends on it, and no more than that.                    *)
(*                                                                         *)
(* _was_set is left out: only a load of a file reads it, and resets it     *)
(* first (KFiles).                                                         *)
(***************************************************************************)
EXTENDS KLoop, KUser

LOCAL INSTANCE SequencesExt
LOCAL INSTANCE FiniteSets

CONSTANTS
    SearchedOnly,   \* the accepted files that cannot be evaluated: reading a value of
                    \* theirs ends in a RecursionError, so they are not used
    Attrs,          \* the attributes that are read from outside
    MaxTouched      \* bound: how many user values are set at the same time

VARIABLES
    user,           \* the user values of symbols, the modes and selections of choices
    cache           \* the filled cells

valueVars == <<user, cache>>

ValuesInit == user = NoUser(w) /\ cache = NoCells

HasCachedVis(i) == <<"vis", i>> \in DOMAIN cache
HasPrompt(s) == w.syms[s].prompts # <<>>

----------------------------------------------------------------------------
(* Invalidation.                                                            *)

\* The items that are invalidated with those in items: the dependents of each,
\* as far as they have a cached visibility.
RECURSIVE RecInvalidated(_)
RecInvalidated(items) ==
    LET more == {d \in UNION {w.invalidates[i] : i \in items} : HasCachedVis(d)} \ items
    IN  IF more = {} THEN items ELSE RecInvalidated(items \cup more)

\* To invalidate MODULES is to invalidate everything.
RecInvalidate(i) ==
    LET reached == RecInvalidated({i})
        items == IF MODULES \in reached THEN Defined(w) \cup DOMAIN w.choices ELSE reached
    IN  [c \in {c \in DOMAIN cache : c[2] \notin items} |-> cache[c]]

RecInvalidateIfHasPrompt(s) == IF HasPrompt(s) THEN RecInvalidate(s) ELSE cache

----------------------------------------------------------------------------
(* Assignments.                                                             *)

\* A choice symbol that is set again may become the selection.
SameValue(s, v) == user.val[s] = <<v>> /\ w.syms[s].choice = ""

SetValue(s, v) ==
    LET c == w.syms[s].choice IN
    /\ ValidFor(w.syms[s].type, v)
    /\ IF SameValue(s, v) THEN UNCHANGED valueVars
       ELSE /\ user' = Assigned(w, user, s, v)
            /\ cache' = IF c # "" /\ v = 2 THEN RecInvalidate(c) ELSE RecInvalidateIfHasPrompt(s)

UnsetValue(s) ==
    /\ user.val[s] # <<>>
    /\ user' = [user EXCEPT !.val[s] = <<>>]
    /\ cache' = RecInvalidateIfHasPrompt(s)

ChoiceSetValue(c, v) ==
    /\ ValidFor(w.choices[c].type, v)
    /\ IF user.mode[c] = <<v>> THEN UNCHANGED valueVars
       ELSE /\ user' = ModeAssigned(user, c, v)
            /\ cache' = RecInvalidate(c)

ChoiceUnsetValue(c) ==
    /\ user.mode[c] # <<>> \/ user.sel[c] # ""
    /\ user' = [user EXCEPT !.mode[c] = <<>>, !.sel[c] = ""]
    /\ cache' = RecInvalidate(c)

\* Each symbol with a user value and a prompt is invalidated, then each choice
\* that was touched.
UnsetValues ==
    LET syms == {s \in Defined(w) : user.val[s] # <<>> /\ HasPrompt(s)}
        choices == {c \in DOMAIN w.choices : user.mode[c] # <<>> \/ user.sel[c] # ""}
        reached == RecInvalidated(syms \cup choices)
        items == IF MODULES \in reached THEN Defined(w) \cup DOMAIN w.choices ELSE reached
    IN  /\ user # NoUser(w)
        /\ user' = NoUser(w)
        /\ cache' = [c \in {c \in DOMAIN cache : c[2] \notin items} |-> cache[c]]

----------------------------------------------------------------------------
(* Reading an attribute.                                                    *)

AttrsOf(i) == Attrs \cap (IF IsChoiceOf(w, i) THEN {"vis", "assign", "sel"}
                          ELSE {"vis", "tri", "str", "assign"})

Read(attr, i) ==
    /\ cache' = Get([w |-> w, user |-> user, cache |-> cache], attr, i).new @@ cache
    /\ UNCHANGED user

Ready == verdict = "accepted" /\ w.file \notin SearchedOnly

Touched(u) == Cardinality({s \in Defined(w) : u.val[s] # <<>>})
              + Cardinality({c \in DOMAIN w.choices : u.mode[c] # <<>>})

Use ==
    \/ \E s \in Defined(w) :
         \/ \E v \in ValuesFor(w.syms[s].type) : SetValue(s, v) /\ Touched(user') <= MaxTouched
         \/ UnsetValue(s)
         \/ \E attr \in AttrsOf(s) : Read(attr, s)
    \/ \E c \in DOMAIN w.choices :
         \/ \E v \in 0..2 : ChoiceSetValue(c, v) /\ Touched(user') <= MaxTouched
         \/ ChoiceUnsetValue(c)
         \/ \E attr \in AttrsOf(c) : Read(attr, c)
    \/ UnsetValues

----------------------------------------------------------------------------
(* Properties.                                                              *)

\* What depends on the user values alone is checked where nothing is cached: the
\* same user values are reached there, and CachesFresh covers the other states.
Uncached == Ready /\ cache = NoCells
BoolSyms == {s \in Defined(w) : w.syms[s].type \in BoolTri}
Plain == {s \in BoolSyms : w.syms[s].choice = ""}

\* Every cached attribute, and _write_to_conf with it, is what a computation
\* from scratch would give, although an invalidation stops at items whose
\* visibility is not cached.
CachesFresh ==
    Ready => \A c \in DOMAIN cache :
      IF c[1] = "conf"
      THEN (<<"str", c[2]>> \in DOMAIN cache \/ <<"tri", c[2]>> \in DOMAIN cache)
             => cache[c] = Written(w, user, c[2])
      ELSE cache[c] = Get(Fresh(w, user), c[1], c[2]).v

\* m is offered for a symbol that is visible in m and selected to m, although an imply
\* to y makes it y.
OfferedMIsY(s) ==
    /\ w.syms[s].choice = "" /\ Vis(w, user, s) = 1
    /\ ValueOf(w, user, w.syms[s].rev) = 1 /\ ValueOf(w, user, w.syms[s].weak) = 2

\* y is offered for a symbol of a choice that is not in y mode, when a select or an
\* imply, which have no effect there, is y, or when a place of it outside the choice
\* makes it visible.
OfferedYIsNot(s) ==
    w.syms[s].choice # "" /\ ChoiceTri(Fresh(w, user), w.syms[s].choice).v # 2

\* A value that is offered for assignment is the value that the symbol has once it is
\* assigned, but for two cases: m is y where visibility and selects are m and an imply
\* is y, and y is not y in a choice that is not in y mode, but m or n.
\* "the tristate user values that can currently be assigned to the symbol".
AssignableTakesEffect ==
    Uncached => \A s \in BoolSyms : \A v \in Assignable(w, user, s) :
      Tri(w, Assigned(w, user, s, v), s) =
        CASE v = 1 /\ OfferedMIsY(s) -> 2
          [] v = 2 /\ OfferedYIsNot(s) -> IF Vis(w, user, s) = 1 THEN 1 ELSE 0
          [] OTHER -> v

\* In y mode exactly one of the visible symbols of a choice is y, and it is the
\* selection; in m mode none is.
ChoiceIsExclusive ==
    Uncached => \A c \in DOMAIN w.choices :
      LET x == Fresh(w, user)
          mode == ChoiceTri(x, c).v
          syms == ToSet(w.choices[c].syms)
          yes == {s \in syms : Tri(w, user, s) = 2}
          visible == {s \in syms : Vis(w, user, s) > 0}
      IN  CASE mode = 2 -> yes = {Selection(x, c).v} \ {""} /\ (visible # {} => yes # {})
            [] mode = 1 -> \A s \in yes : w.syms[s].choice # c
            [] OTHER -> \A s \in syms : w.syms[s].choice = c => Tri(w, user, s) = 0

\* A symbol that is selected has at least the value of what selects it, limited
\* by the condition of the select, and a symbol that is not selected is n when
\* its dependencies are.
SelectsAndDependenciesHold ==
    Uncached => \A s \in Plain :
      LET sym == w.syms[s] IN
      /\ \A i \in DOMAIN sym.selects :
           sym.selects[i][1] \in Plain =>
             Tri(w, user, sym.selects[i][1])
               >= MinOf(Tri(w, user, s), ValueOf(w, user, sym.selects[i][2]))
      /\ ValueOf(w, user, sym.rev) = 0 /\ ValueOf(w, user, sym.dep) = 0 => Tri(w, user, s) = 0

\* The nodes below a node, each with the nodes it is below.
RECURSIVE NodesBelow(_, _)
NodesBelow(node, above) ==
    UNION {{<<above, node.list[i]>>} \cup NodesBelow(node.list[i], Append(above, node.list[i])) :
             i \in DOMAIN node.list}

\* A symbol or a choice that is visible is in menus and choices that are visible,
\* so that a user can get at it.
VisibleIsReachable ==
    Uncached => \A n \in NodesBelow(w.tree, <<>>) :
      LET node == n[2] IN
      /\ (IsSymbol(node) \/ IsChoice(node)) /\ node.prompt # <<>>
      /\ ValueOf(w, user, node.prompt[1]) > 0
      => \A i \in DOMAIN n[1] :
           LET menu == n[1][i] IN
           /\ menu.item[1] = "menu" =>
                ValueOf(w, user, menu.prompt[1]) > 0 /\ ValueOf(w, user, menu.visibility) > 0
           /\ IsChoice(menu) => Vis(w, user, menu.item[2]) > 0

=============================================================================
