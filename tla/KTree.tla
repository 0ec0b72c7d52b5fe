-------------------------------- MODULE KTree --------------------------------
(***************************************************************************)
(* What _init of kconfiglib.py makes of the menu nodes once they are       *)
(* parsed: dependencies are propagated, implicit menus created, 'if' nodes *)
(* removed, and the properties of nodes collected in their symbols and     *)
(* choices.  The result is a world: the finished tree, a record for each   *)
(* symbol and each choice, and who depends on whom.                        *)
(*                                                                         *)
(* _finalize_node works on a linked list in place; here it takes the       *)
(* siblings from a node on, and returns the finished node, the siblings    *)
(* that are left, and a log of the nodes whose properties it has collected,*)
(* in the order in which it did so.                                        *)
(***************************************************************************)
EXTENDS KParse

LOCAL INSTANCE Folds
LOCAL INSTANCE SequencesExt
LOCAL INSTANCE FiniteSets

----------------------------------------------------------------------------
(* The tree.                                                                *)

\* Slip: the condition of a prompt is not restricted by 'visible if'.
PropagateToIgnoresVisible(node, basedep, visible_if) ==
    LET dep == MakeAnd(node.dep, basedep) IN
    [node EXCEPT !.dep = dep, !.prompt = [i \in DOMAIN @ |-> MakeAnd(@[i], dep)]]

PropagateTo(node, basedep, visible_if) ==
    LET dep == MakeAnd(node.dep, basedep)
        onLast(props) == [i \in DOMAIN props |->
                            [props[i] EXCEPT ![Len(props[i])] = MakeAnd(@, dep)]]
        limit == IF IsSymbol(node) \/ IsChoice(node) THEN MakeAnd(visible_if, dep) ELSE dep
    IN  [node EXCEPT !.dep = dep,
                     !.prompt = [i \in DOMAIN @ |-> MakeAnd(@[i], limit)],
                     !.defaults = onLast(@), !.ranges = onLast(@),
                     !.selects = onLast(@), !.implies = onLast(@)]

\* A choice stands in for its own dependencies.
PropagateDeps(node, visible_if) ==
    LET basedep == IF IsChoice(node) THEN Item(node.item[2]) ELSE node.dep
    IN  [i \in DOMAIN node.list |-> PropagateTo(node.list[i], basedep, visible_if)]

AutoMenuDep(node1, node2) ==
    ExprDependsOn(IF node2.prompt # <<>> THEN node2.prompt[1] ELSE node2.dep, node1.item[2])

\* The children of a node without a prompt move up, to come after it.
RECURSIVE Flatten(_)
Flatten(nodes) ==
    IF nodes = <<>> THEN <<>>
    ELSE LET node == Head(nodes) IN
         IF node.list # <<>> /\ node.prompt = <<>> /\ ~IsChoice(node)
         THEN <<[node EXCEPT !.list = <<>>]>> \o Flatten(node.list \o Tail(nodes))
         ELSE <<node>> \o Flatten(Tail(nodes))

RemoveIfs(nodes) == SelectSeq(nodes, LAMBDA node : node.item[1] # "if")

RECURSIVE FinalizeNode(_, _), Absorb(_, _, _, _, _), FinalizeList(_, _, _, _)

\* The siblings that depend on a symbol become its implicit menu, each finished
\* with the implicit menu of its own.
Absorb(node, rest, taken, log, visible_if) ==
    IF rest # <<>> /\ AutoMenuDep(node, Head(rest))
    THEN LET r == FinalizeNode(rest, visible_if)
         IN  Absorb(node, r.rest, Append(taken, r.node), log \o r.log, visible_if)
    ELSE [taken |-> taken, rest |-> rest, log |-> log]

FinalizeList(rest, done, log, visible_if) ==
    IF rest = <<>> THEN [taken |-> done, rest |-> <<>>, log |-> log]
    ELSE LET r == FinalizeNode(rest, visible_if)
         IN  FinalizeList(r.rest, Append(done, r.node), log \o r.log, visible_if)

FinalizeNode(siblings, visible_if) ==
    LET node == Head(siblings)
        limit == IF node.item[1] = "menu" THEN MakeAnd(visible_if, node.visibility)
                 ELSE visible_if
        inner == IF IsSymbol(node)
                 THEN Absorb(node, Tail(siblings), <<>>, <<node>>, visible_if)
                 ELSE FinalizeList(PropagateDeps(node, limit), <<>>, <<>>, limit)
        whole == [node EXCEPT !.list = RemoveIfs(Flatten(inner.taken))]
    IN  [node |-> whole,
         rest |-> IF IsSymbol(node) THEN inner.rest ELSE Tail(siblings),
         log |-> IF IsChoice(node) THEN Append(inner.log, whole) ELSE inner.log]

----------------------------------------------------------------------------
(* Symbols and choices.                                                     *)

\* A symbol that no file defines, and a choice, before their first node.
NewSym == [type |-> "unknown", prompts |-> <<>>, defaults |-> <<>>, ranges |-> <<>>,
           selects |-> <<>>, implies |-> <<>>, rev |-> No, weak |-> No, dep |-> No,
           choice |-> ""]
NewChoice == [type |-> "unknown", prompts |-> <<>>, defaults |-> <<>>, syms |-> <<>>,
              dep |-> No, optional |-> FALSE]

SymIn(syms, name) == IF name \in DOMAIN syms THEN syms[name] ELSE NewSym
ChoiceIn(choices, name) == IF name \in DOMAIN choices THEN choices[name] ELSE NewChoice

ReverseDep(was, sym, cond) == MakeOr(was, MakeAnd(Item(sym), cond))

AddPropsToSym(syms, node) ==
    LET name == node.item[2]
        was == SymIn(syms, name)
        now == [was EXCEPT !.dep = MakeOr(@, node.dep),
                           !.prompts = @ \o node.prompt,
                           !.defaults = @ \o node.defaults, !.ranges = @ \o node.ranges,
                           !.selects = @ \o node.selects, !.implies = @ \o node.implies]
        select(ss, p) == (p[1] :> [SymIn(ss, p[1]) EXCEPT !.rev = ReverseDep(@, name, p[2])]) @@ ss
        imply(ss, p) == (p[1] :> [SymIn(ss, p[1]) EXCEPT !.weak = ReverseDep(@, name, p[2])]) @@ ss
    IN  FoldLeft(imply, FoldLeft(select, (name :> now) @@ syms, node.selects), node.implies)

\* Every symbol in the menu of the choice is one of its symbols.  The first type
\* found there is the type of a choice that has none, and of every symbol in it
\* that has none.
FinalizeChoice(w, node) ==
    LET name == node.item[2]
        was == ChoiceIn(w.choices, name)
        here == SelectSeq(node.list, IsSymbol)
        syms == was.syms \o [i \in DOMAIN here |-> here[i].item[2]]
        typeOf(s) == w.syms[s].type
        typed == SelectSeq(syms, LAMBDA s : typeOf(s) # "unknown")
        type == IF was.type = "unknown" /\ typed # <<>> THEN typeOf(typed[1]) ELSE was.type
        mine == {here[i].item[2] : i \in DOMAIN here}
        adopted == [s \in DOMAIN w.syms |->
                      [w.syms[s] EXCEPT
                         !.choice = IF s \in mine THEN name ELSE @,
                         !.type = IF s \in ToSet(syms) /\ @ = "unknown" THEN type ELSE @]]
        now == [was EXCEPT !.dep = MakeOr(@, node.dep), !.prompts = @ \o node.prompt,
                           !.defaults = @ \o node.defaults, !.syms = syms, !.type = type]
    IN  [syms |-> adopted, choices |-> (name :> now) @@ w.choices]

\* The symbols with the types that were parsed, and with the values that the
\* names of constants stand for.
Typed(g) ==
    [s \in (DOMAIN g.types \ ToSet(g.choices)) \cup ToSet(g.defined) \cup TriNames \cup {MODULES} |->
       [NewSym EXCEPT !.type = IF s \in TriNames THEN "tristate" ELSE TypeIn(g, s)]]

TypedChoices(g) ==
    [c \in ToSet(g.choices) |->
       [NewChoice EXCEPT !.type = TypeIn(g, c), !.optional = c \in g.optional]]

Collect(log, g) ==
    LET add(w, node) == IF IsChoice(node) THEN FinalizeChoice(w, node)
                        ELSE [w EXCEPT !.syms = AddPropsToSym(@, node)]
    IN  FoldLeft(add, [syms |-> Typed(g), choices |-> TypedChoices(g)], log)

----------------------------------------------------------------------------
(* Checks, and who depends on whom.                                         *)

Reached(e) == ExprItems(e) \ TriNames
ReachedBy(exprs) == UNION {Reached(e) : e \in exprs}
Conds(props) == {props[i][Len(props[i])] : i \in DOMAIN props}
Vals(props, k) == {props[i][k] : i \in DOMAIN props}

\* What a symbol, and a choice, is computed from.
SymReads(s) ==
    ReachedBy(ToSet(s.prompts) \cup Vals(s.defaults, 1) \cup Conds(s.defaults)
              \cup {s.rev, s.weak, s.dep} \cup Vals(s.ranges, 1) \cup Vals(s.ranges, 2)
              \cup Conds(s.ranges))
ChoiceReads(c) == ReachedBy(ToSet(c.prompts) \cup Conds(c.defaults))

\* item -> the items whose value or visibility is computed from it
BuildDep(syms, choices, defined) ==
    [x \in DOMAIN syms \cup DOMAIN choices |->
       {s \in defined : x \in SymReads(syms[s])}
       \cup {c \in DOMAIN choices : x \in ChoiceReads(choices[c])}]

\* Slip: the symbols of a choice are thought not to matter to it.
AddNoChoiceDeps(dependents, choices) == dependents

\* The selection of a choice depends on its symbols.  This comes after the search
\* for loops, which would find one in every choice.
AddChoiceDeps(dependents, choices) ==
    [x \in DOMAIN dependents |->
       dependents[x] \cup {c \in DOMAIN choices : x \in ToSet(choices[c].syms)}]

\* The errors of the sanity checks; what they only warn of is left out.
CheckSymSanity(syms) ==
    \A s \in DOMAIN syms :
      syms[s].type \in {"string", "int", "hex"} =>
        \A i \in DOMAIN syms[s].defaults : IsLeaf(syms[s].defaults[i][1])
CheckChoiceSanity(choices) ==
    \A c \in DOMAIN choices : \A i \in DOMAIN choices[c].defaults :
        IsLeaf(choices[c].defaults[i][1])

\* Names that are only mentioned are symbols without a definition.
Mentioned(syms, choices) ==
    UNION {SymReads(syms[s]) : s \in DOMAIN syms}
    \cup UNION {ChoiceReads(choices[c]) \cup ReachedBy(Vals(choices[c].defaults, 1)) :
                  c \in DOMAIN choices}

RECURSIVE OrderedUnique(_)
OrderedUnique(seq) ==
    IF seq = <<>> THEN <<>>
    ELSE LET front == OrderedUnique(Front(seq))
         IN  IF Contains(front, Last(seq)) THEN front ELSE Append(front, Last(seq))

\* The world of a Kconfig file, as _init makes it, but for the search for loops.
World(file) ==
    LET top == TopNode(file)
        fin == FinalizeNode(<<top.node>>, Yes)
        all == Collect(fin.log, top.g)
        extra == (Mentioned(all.syms, all.choices) \cup TriNames)
                   \ (DOMAIN all.syms \cup DOMAIN all.choices)
        syms == all.syms @@ [s \in extra |-> NewSym]
        dependents == BuildDep(syms, all.choices, ToSet(top.g.defined))
    IN  IF ~top.ok THEN [ok |-> FALSE]
        ELSE [file |-> file,
              ok |-> CheckSymSanity(all.syms) /\ CheckChoiceSanity(all.choices),
              tree |-> fin.node, g |-> top.g, syms |-> syms, choices |-> all.choices,
              order |-> OrderedUnique(top.g.defined),
              choice_order |-> OrderedUnique(top.g.choices),
              dependents |-> dependents,
              invalidates |-> AddChoiceDeps(dependents, all.choices)]
=============================================================================
