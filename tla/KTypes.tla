-------------------------------- MODULE KTypes -------------------------------
(***************************************************************************)
(* The kinds of menu nodes, and the types of values.                       *)
(***************************************************************************)
EXTENDS Naturals, Sequences

BoolTri == {"bool", "tristate"}
TriStr == <<"n", "m", "y">>

IsSymbol(node) == node.item[1] = "sym"
IsChoice(node) == node.item[1] = "choice"

\* A menu node is known by its place: the positions of its ancestors and of itself
\* among their siblings.  This is the node at the top.
Top == <<>>
=============================================================================
