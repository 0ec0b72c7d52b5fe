------------------------------- MODULE KExpr -------------------------------
(***************************************************************************)
(* Expressions of the configuration language, from kconfiglib.py: how they *)
(* are made, parsed from tokens, printed, split and searched.              *)
(*                                                                         *)
(* An expression is <<"item", name>> for a symbol or a choice, <<"not",    *)
(* e>>, or <<op, e1, e2>> with op "and", "or" or a relation.  A token is a *)
(* pair of its class, which is "kw", "op", "sym" or "str", and its word.   *)
(*                                                                         *)
(* A definition marked as a slip is a plausible mistake in the definition  *)
(* after it, and is used by no action.                                     *)
(***************************************************************************)
EXTENDS Naturals, Sequences

Item(name) == <<"item", name>>

\* The constant symbols n, m and y.
No == Item("n")
Mod == Item("m")
Yes == Item("y")
TriNames == {"n", "m", "y"}
TriOfName(name) == CASE name = "n" -> 0 [] name = "m" -> 1 [] name = "y" -> 2
MODULES == "MODULES"

Relations == {"=", "!=", "<", "<=", ">", ">="}
Kw(word) == <<"kw", word>>
Op(word) == <<"op", word>>
Sym(word) == <<"sym", word>>
EOL == <<"eol", "">>
Const(word) == <<"const", word>>
IsSym(t) == t[1] \in {"sym", "const"}
IsRelation(t) == t[1] = "op" /\ t[2] \in Relations
IsLeaf(e) == e[1] = "item"

MakeAnd(e1, e2) ==
    CASE e1 = Yes -> e2
      [] e2 = Yes -> e1
      [] No \in {e1, e2} -> No
      [] OTHER -> <<"and", e1, e2>>

MakeOr(e1, e2) ==
    CASE e1 = No -> e2
      [] e2 = No -> e1
      [] Yes \in {e1, e2} -> Yes
      [] OTHER -> <<"or", e1, e2>>

----------------------------------------------------------------------------
(* The recursive descent parser.  A result is the expression and the index  *)
(* of the next token; an error is the expression Malformed.                 *)

Malformed == <<"malformed">>
At(ts, i) == IF i <= Len(ts) THEN ts[i] ELSE EOL
Parsed(e, i) == [e |-> e, i |-> i]
Bad(i) == Parsed(Malformed, i)
IsBad(r) == r.e = Malformed
Combine(op, l, r) == IF IsBad(l) \/ IsBad(r) THEN Bad(r.i) ELSE Parsed(<<op, l.e, r.e>>, r.i)

RECURSIVE ParseExpr(_, _, _), ParseAndExpr(_, _, _), ParseFactor(_, _, _)

\* A symbol or a relation, '!' factor, or '(' expr ')'.
ParseFactor(ts, i, transform) ==
    LET t == At(ts, i) IN
    CASE IsSym(t) /\ IsRelation(At(ts, i + 1)) ->
           IF IsSym(At(ts, i + 2))
           THEN Parsed(<<ts[i + 1][2], Item(t[2]), Item(ts[i + 2][2])>>, i + 3)
           ELSE Bad(i)
      [] IsSym(t) /\ ~IsRelation(At(ts, i + 1)) ->
           Parsed(IF transform /\ t[2] = "m" THEN <<"and", Mod, Item(MODULES)>> ELSE Item(t[2]),
                  i + 1)
      [] t = Op("!") ->
           LET r == ParseFactor(ts, i + 1, transform)
           IN  IF IsBad(r) THEN r ELSE Parsed(<<"not", r.e>>, r.i)
      [] t = Op("(") ->
           LET r == ParseExpr(ts, i + 1, transform)
           IN  IF ~IsBad(r) /\ At(ts, r.i) = Op(")") THEN Parsed(r.e, r.i + 1) ELSE Bad(i)
      [] OTHER -> Bad(i)

ParseAndExpr(ts, i, transform) ==
    LET factor == ParseFactor(ts, i, transform) IN
    IF IsBad(factor) \/ At(ts, factor.i) # Op("&&") THEN factor
    ELSE Combine("and", factor, ParseAndExpr(ts, factor.i + 1, transform))

ParseExpr(ts, i, transform) ==
    LET and_expr == ParseAndExpr(ts, i, transform) IN
    IF IsBad(and_expr) \/ At(ts, and_expr.i) # Op("||") THEN and_expr
    ELSE Combine("or", and_expr, ParseExpr(ts, and_expr.i + 1, transform))

\* Parsing must end where the line does.
ExpectExprAndEol(ts, i) ==
    LET r == ParseExpr(ts, i, TRUE) IN IF At(ts, r.i) = EOL THEN r ELSE Bad(i)

\* An optional 'if' with its condition, up to the end of the line.
ParseCond(ts, i) ==
    CASE At(ts, i) = Kw("if") -> ExpectExprAndEol(ts, i + 1)
      [] At(ts, i) = EOL -> Parsed(Yes, i)
      [] OTHER -> Bad(i)

----------------------------------------------------------------------------
(* Printing and taking apart.                                               *)

RECURSIVE ExprStr(_)


Parenthesize(e, op) == IF e[1] = op THEN <<Op("(")>> \o ExprStr(e) \o <<Op(")")>> ELSE ExprStr(e)

\* The tokens of expr_str.
ExprStr(e) ==
    CASE IsLeaf(e) -> <<Sym(e[2])>>
      [] e[1] = "and" -> Parenthesize(e[2], "or") \o <<Op("&&")>> \o Parenthesize(e[3], "or")
      [] e[1] = "or" -> Parenthesize(e[2], "and") \o <<Op("||")>> \o Parenthesize(e[3], "and")
      [] e[1] = "not" /\ IsLeaf(e[2]) -> <<Op("!")>> \o ExprStr(e[2])
      [] e[1] = "not" /\ ~IsLeaf(e[2]) -> <<Op("!"), Op("(")>> \o ExprStr(e[2]) \o <<Op(")")>>
      [] e[1] \in Relations -> <<Sym(e[2][2]), Op(e[1]), Sym(e[3][2])>>

\* The names of the symbols and choices in an expression.
RECURSIVE ExprItems(_)
ExprItems(e) ==
    CASE IsLeaf(e) -> {e[2]}
      [] e[1] = "not" -> ExprItems(e[2])
      [] OTHER -> ExprItems(e[2]) \cup ExprItems(e[3])

\* The operands of op at the top level, from left to right.
RECURSIVE SplitExpr(_, _)
SplitExpr(e, op) == IF e[1] = op THEN SplitExpr(e[2], op) \o SplitExpr(e[3], op) ELSE <<e>>

\* expr_depends_symbol() of mconf.c as reimplemented: what makes an implicit
\* menu.  'and' binds more tightly than 'or' in Python, so that a comparison
\* with y counts whatever the relation.
RECURSIVE ExprDependsOn(_, _)
ExprDependsOn(e, s) ==
    CASE IsLeaf(e) -> e[2] = s
      [] e[1] \in {"=", "!="} ->
           \E i \in {2, 3} :
             /\ e[i] = Item(s)
             /\ \/ e[1] = "=" /\ e[5 - i] = Mod
                \/ e[5 - i] = Yes
                \/ e[1] = "!=" /\ e[5 - i] = No
      [] e[1] = "and" -> ExprDependsOn(e[2], s) \/ ExprDependsOn(e[3], s)
      [] OTHER -> FALSE
============================================================================
