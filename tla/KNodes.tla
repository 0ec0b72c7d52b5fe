-------------------------------- MODULE KNodes -------------------------------
(***************************************************************************)
(* Menu nodes as menuconfig.py and guiconfig.py look at them: which of     *)
(* them are visible, what can be assigned there, and which are shown.      *)
(***************************************************************************)
EXTENDS KFiles

LOCAL INSTANCE SequencesExt

RECURSIVE NodeBelow(_, _)
NodeBelow(node, place) ==
    IF place = <<>> THEN node ELSE NodeBelow(node.list[Head(place)], Tail(place))
NodeIn(w, p) == NodeBelow(w.tree, p)

LOCAL Name(w, p) == NodeIn(w, p).item[2]

\* The nodes below a node, each before its children.
RECURSIVE PlacesBelow(_, _)
PlacesBelow(node, p) ==
    FlattenSeq([i \in DOMAIN node.list |->
                  <<Append(p, i)>> \o PlacesBelow(node.list[i], Append(p, i))])
Below(w) == PlacesBelow(w.tree, Top)

\* sc.nodes: the nodes of a symbol or a choice, in the order of the files.
NodesOf(w, item) == SelectSeq(Below(w), LAMBDA p : NodeIn(w, p).item = item)

\* _parent_menu: an ancestor that is shown as a menu of its own.
RECURSIVE ParentMenu(_, _)
ParentMenu(w, p) ==
    IF NodeIn(w, Front(p)).is_menuconfig THEN Front(p) ELSE ParentMenu(w, Front(p))

\* The nodes with one of these names, as a search lists them: sorted by what they are.
\* The order of names is left out.
Matches(w, names) ==
    LET of(kind) == SelectSeq(Below(w), LAMBDA p : NodeIn(w, p).item[1] = kind /\ Name(w, p) \in names)
    IN  of("sym") \o of("choice") \o of("menu") \o of("comment")

----------------------------------------------------------------------------
(* For the user values u.                                                   *)

\* _visible.
Visible(w, u, p) ==
    LET node == NodeIn(w, p) IN
    /\ node.prompt # <<>> /\ ValueOf(w, u, node.prompt[1]) > 0
    /\ node.item[1] = "menu" => ValueOf(w, u, node.visibility) > 0

\* sc.str_value, as far as assignments are compared with it.
StrOf(w, u, p) ==
    IF IsChoice(NodeIn(w, p)) THEN TriStr[ChoiceTri(Fresh(w, u), Name(w, p)).v + 1]
    ELSE Str(w, u, Name(w, p))
TriAt(w, u, p) ==
    IF IsChoice(NodeIn(w, p)) THEN ChoiceTri(Fresh(w, u), Name(w, p)).v ELSE Tri(w, u, Name(w, p))
AssignableAt(w, u, p) == SelectSeq(<<0, 1, 2>>, LAMBDA v : v \in Assignable(w, u, Name(w, p)))
InYModeChoice(w, u, p) ==
    IsSymbol(NodeIn(w, p)) /\ w.syms[Name(w, p)].choice # "" /\ Vis(w, u, Name(w, p)) = 2
SelectionOf(w, u, c) == Get(Fresh(w, u), "sel", c).v

\* A string that is well-formed and in the range that applies.  Ranges are those of
\* the first condition that holds.
CheckValid(w, u, s, str) ==
    w.syms[s].type \in {"int", "hex"} =>
      LET type == w.syms[s].type
          range == ActiveRange(Fresh(w, u), s).v
      IN  /\ IsNumeral(str, type)
          /\ range # <<>> => Clamp(Numerals[type][str], range) = Numerals[type][str]
EntriesAt(w, u, p) == {str \in Strings : CheckValid(w, u, Name(w, p), str)}

\* _needs_save: the file that was just loaded is not what would be saved.
NeedsSave(w, k) ==
    \/ k.missing # <<>>
    \/ \E s \in ToSet(w.order) :
         LET val == k.user.val[s] IN
         CASE val = <<>> -> ConfigString(w, k.user, s) # <<>>
           [] val # <<>> /\ w.syms[s].type \in BoolTri -> Tri(w, k.user, s) # val[1]
           [] OTHER -> Str(w, k.user, s) # val[1]

----------------------------------------------------------------------------
(* Which nodes menuconfig.py shows.                                         *)

\* An invisible symbol is shown if something below it is.
RECURSIVE ShownBelow(_, _, _, _)
ShownBelow(w, u, all, p) ==
    LET part(c) ==
          LET below == ShownBelow(w, u, all, c)
              indented == IF NodeIn(w, c).is_menuconfig THEN <<>> ELSE below
          IN  IF all \/ Visible(w, u, c) THEN <<c>> \o indented
              ELSE IF IsSymbol(NodeIn(w, c)) /\ below # <<>> THEN <<c>> \o indented
              ELSE <<>>
    IN  FlattenSeq([i \in DOMAIN NodeIn(w, p).list |-> part(Append(p, i))])

\* below is what is shown below each of the places of a choice, of which here is one.
\* A symbol is shown once, at this place if it is there, or else at the first.
Gathered(w, below, here) ==
    LET item(q) == NodeIn(w, q).item
        symbols(nodes) == {item(q) : q \in {q \in ToSet(nodes) : IsSymbol(NodeIn(w, q))}}
        taken(i) == symbols(below[here]) \cup UNION {symbols(below[j]) : j \in 1..(i - 1)}
        first(i, q) == below[i][SelectInSeq(below[i], LAMBDA r : item(r) = item(q))]
        new(i) == SelectSeq(below[i], LAMBDA q :
                    IsSymbol(NodeIn(w, q)) => item(q) \notin taken(i) /\ q = first(i, q))
    IN  FlattenSeq([i \in DOMAIN below |-> IF i = here THEN below[i] ELSE new(i)])

_shown_nodes(w, u, all, p) ==
    IF IsChoice(NodeIn(w, p))
    THEN LET places == NodesOf(w, NodeIn(w, p).item)
         IN  Gathered(w, [i \in DOMAIN places |-> ShownBelow(w, u, all, places[i])],
                      SelectInSeq(places, LAMBDA q : q = p))
    ELSE ShownBelow(w, u, all, p)
=============================================================================
