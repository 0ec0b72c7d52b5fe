------------------------------- MODULE KParse -------------------------------
(***************************************************************************)
(* From the lines of Kconfig files to menu nodes: _tokenize, _parse_block  *)
(* and _parse_props of kconfiglib.py.  A line is a sequence of lexemes,    *)
(* which are pairs: <<"word", w>>, <<"quoted", w>>, <<"op", o>>, and       *)
(* <<"more", w>> for a line indented under a help text.  Characters, and   *)
(* the wording of warnings, are left out; a KconfigError is ok = FALSE.    *)
(*                                                                         *)
(* The linked list of nodes that the parser builds is a sequence here, and *)
(* what it stores in symbols and in the Kconfig object is the record g.    *)
(***************************************************************************)
EXTENDS KExpr, KTypes, TLC

CONSTANTS
    Files,          \* the Kconfig files: name -> sequence of lines
    Environment     \* the environment variables that are set, with their values

Types == {"bool", "tristate", "int", "hex", "string"}
DefTypes == [def_bool |-> "bool", def_tristate |-> "tristate", def_int |-> "int",
             def_hex |-> "hex", def_string |-> "string"]
StringLex == Types \cup {"choice", "comment", "mainmenu", "menu", "prompt", "source", "osource"}
Keywords == StringLex \cup DOMAIN DefTypes \cup
    {"config", "menuconfig", "endmenu", "if", "endif", "endchoice", "depends", "on", "select",
     "imply", "default", "range", "visible", "option", "optional", "help", "env",
     "defconfig_list", "modules", "allnoconfig_y"}

----------------------------------------------------------------------------
(* _tokenize: what a word or a string is depends on the token before it.    *)

IsKeyword(l) == l[1] = "word" /\ l[2] \in Keywords
AfterStringLex(ls, i) == i > 1 /\ IsKeyword(ls[i - 1]) /\ ls[i - 1][2] \in StringLex

Token(ls, i) ==
    CASE ls[i][1] = "op" -> ls[i]
      [] IsKeyword(ls[i]) -> Kw(ls[i][2])
      [] ls[i][1] = "word" /\ ~IsKeyword(ls[i]) ->
           CASE AfterStringLex(ls, i) -> <<"str", ls[i][2]>>
             [] ls[i][2] \in TriNames -> Const(ls[i][2])
             [] OTHER -> Sym(ls[i][2])
      [] OTHER ->
           IF AfterStringLex(ls, i) \/ ls[1] = <<"word", "option">>
           THEN <<"str", ls[i][2]>>
           ELSE Const(ls[i][2])

\* Everything up to a comment.  A line that starts with no keyword is an error.
Tokenize(ls) ==
    LET hash == {i \in DOMAIN ls : ls[i] = Op("#")}
        end == IF hash = {} THEN Len(ls) ELSE (CHOOSE i \in hash : \A j \in hash : i <= j) - 1
    IN  [i \in 1..end |-> Token(ls, i)]

BadStart(ls) == Tokenize(ls) # <<>> /\ ~IsKeyword(ls[1])

----------------------------------------------------------------------------
(* Nodes, and the state of the parser.                                      *)

Node(item, is_menuconfig, prompt) ==
    [item |-> item, is_menuconfig |-> is_menuconfig, prompt |-> prompt, dep |-> Yes,
     visibility |-> Yes, defaults |-> <<>>, ranges |-> <<>>, selects |-> <<>>,
     implies |-> <<>>, list |-> <<>>]

NoTypes == [x \in {} |-> "unknown"]
StartG == [types |-> NoTypes, optional |-> {}, defined |-> <<>>, choices |-> <<>>,
           env |-> {}, defconfig |-> {}, allnoconfig |-> {}]

TypeIn(g, name) == IF name \in DOMAIN g.types THEN g.types[name] ELSE "unknown"
SetType(g, name, type) == [g EXCEPT !.types = (name :> type) @@ @]

----------------------------------------------------------------------------
(* Properties of a node.                                                    *)

\* The result of a property line.
Done(node, g) == [node |-> node, g |-> g, is |-> "prop"]
NotProp(node, g) == [node |-> node, g |-> g, is |-> "other"]
Fail(node, g) == [node |-> node, g |-> g, is |-> "error"]

\* The last prompt of a location is the one that counts.
ParsePrompt(node, g, ts) ==
    LET cond == ParseCond(ts, 3) IN
    IF At(ts, 2)[1] # "str" \/ IsBad(cond) THEN Fail(node, g)
    ELSE Done([node EXCEPT !.prompt = <<cond.e>>], g)

AddDefault(node, g, ts) ==
    LET val == ParseExpr(ts, 2, FALSE)
        cond == ParseCond(ts, val.i)
    IN  IF IsBad(val) \/ IsBad(cond) THEN Fail(node, g)
        ELSE Done([node EXCEPT !.defaults = Append(@, <<val.e, cond.e>>)], g)

\* select and imply: a symbol that is no constant, for symbols only.
ReverseProp(node, g, ts) ==
    LET cond == ParseCond(ts, 3)
        pair == <<At(ts, 2)[2], cond.e>>
    IN  IF ~IsSymbol(node) \/ At(ts, 2)[1] # "sym" \/ IsBad(cond) THEN Fail(node, g)
        ELSE IF ts[1] = Kw("select")
        THEN Done([node EXCEPT !.selects = Append(@, pair)], g)
        ELSE Done([node EXCEPT !.implies = Append(@, pair)], g)

OptionProp(node, g, ts) ==
    CASE At(ts, 2) = Kw("env") ->
           LET var == At(ts, 4)[2]
               set == var \in DOMAIN Environment
           IN  IF At(ts, 3) # Op("=") \/ At(ts, 4)[1] # "str" \/ At(ts, 5) # EOL
               THEN Fail(node, g)
               ELSE Done(IF set
                         THEN [node EXCEPT !.defaults =
                                 Append(@, <<Item(Environment[var]), Yes>>)]
                         ELSE node,
                         [g EXCEPT !.env = @ \cup {node.item[2]}])
      [] At(ts, 2) = Kw("defconfig_list") ->
           Done(node, IF g.defconfig = {} THEN [g EXCEPT !.defconfig = {node.item[2]}] ELSE g)
      [] At(ts, 2) = Kw("modules") -> Done(node, g)
      [] At(ts, 2) = Kw("allnoconfig_y") ->
           IF IsSymbol(node) THEN Done(node, [g EXCEPT !.allnoconfig = @ \cup {node.item[2]}])
           ELSE Fail(node, g)
      [] OTHER -> Fail(node, g)

\* One turn of the loop of _parse_props.
Prop(node, g, ts) ==
    LET word == ts[1][2]
        expr(i) == ExpectExprAndEol(ts, i)
    IN
    CASE word \in Types ->
           LET typed == SetType(g, node.item[2], word)
           IN  IF At(ts, 2) = EOL THEN Done(node, typed) ELSE ParsePrompt(node, typed, ts)
      [] word = "depends" ->
           IF At(ts, 2) # Kw("on") \/ IsBad(expr(3)) THEN Fail(node, g)
           ELSE Done([node EXCEPT !.dep = MakeAnd(@, expr(3).e)], g)
      [] word \in {"select", "imply"} -> ReverseProp(node, g, ts)
      [] word = "default" -> AddDefault(node, g, ts)
      [] word \in DOMAIN DefTypes ->
           AddDefault(node, SetType(g, node.item[2], DefTypes[word]), ts)
      [] word = "prompt" -> ParsePrompt(node, g, ts)
      [] word = "range" ->
           LET cond == ParseCond(ts, 4)
           IN  IF ~IsSym(At(ts, 2)) \/ ~IsSym(At(ts, 3)) \/ IsBad(cond) THEN Fail(node, g)
               ELSE Done([node EXCEPT !.ranges =
                            Append(@, <<Item(ts[2][2]), Item(ts[3][2]), cond.e>>)], g)
      [] word = "visible" ->
           IF At(ts, 2) # Kw("if") \/ IsBad(expr(3)) THEN Fail(node, g)
           ELSE Done([node EXCEPT !.visibility = MakeAnd(@, expr(3).e)], g)
      [] word = "option" -> OptionProp(node, g, ts)
      [] word = "optional" ->
           IF ~IsChoice(node) THEN Fail(node, g)
           ELSE Done(node, [g EXCEPT !.optional = @ \cup {node.item[2]}])
      [] OTHER -> NotProp(node, g)

\* A help text goes on as long as the lines are indented under the first.
RECURSIVE AfterHelp(_, _)
AfterHelp(lines, i) ==
    IF i <= Len(lines) /\ lines[i] # <<>> /\ lines[i][1][1] = "more"
    THEN AfterHelp(lines, i + 1)
    ELSE i

\* The line that is no property is left to the block.
RECURSIVE ParseProps(_, _, _, _)
ParseProps(lines, i, node, g) ==
    LET ts == Tokenize(lines[i])
        r == Prop(node, g, ts)
    IN
    IF i > Len(lines) THEN [node |-> node, g |-> g, i |-> i, ok |-> TRUE]
    ELSE IF ts = <<>> THEN ParseProps(lines, i + 1, node, g)
    ELSE IF BadStart(lines[i]) THEN [node |-> node, g |-> g, i |-> i, ok |-> FALSE]
    ELSE IF ts[1] = Kw("help") THEN ParseProps(lines, AfterHelp(lines, i + 1), node, g)
    ELSE IF r.is = "prop" THEN ParseProps(lines, i + 1, r.node, r.g)
    ELSE [node |-> r.node, g |-> r.g, i |-> i, ok |-> r.is = "other"]

----------------------------------------------------------------------------
(* Blocks.                                                                  *)

Block(nodes, g, i, ok) == [nodes |-> nodes, g |-> g, i |-> i, ok |-> ok]

\* A choice without a name is known by its number.
ChoiceId(g) == "choice" \o ToString(Len(g.choices) + 1)

\* The node that a line opens, with what it does to g.
Opened(ts, g) ==
    CASE ts[1][2] \in {"config", "menuconfig"} ->
           [node |-> Node(<<"sym", At(ts, 2)[2]>>, ts[1][2] = "menuconfig", <<>>),
            g |-> [g EXCEPT !.defined = Append(@, At(ts, 2)[2])],
            ok |-> At(ts, 2)[1] = "sym" /\ At(ts, 3) = EOL]
      [] ts[1][2] = "menu" ->
           [node |-> Node(<<"menu", At(ts, 2)[2]>>, TRUE, <<Yes>>), g |-> g,
            ok |-> At(ts, 2)[1] = "str" /\ At(ts, 3) = EOL]
      [] ts[1][2] = "comment" ->
           [node |-> Node(<<"comment", At(ts, 2)[2]>>, FALSE, <<Yes>>), g |-> g,
            ok |-> At(ts, 2)[1] = "str" /\ At(ts, 3) = EOL]
      [] ts[1][2] = "choice" ->
           LET name == IF At(ts, 2) = EOL THEN ChoiceId(g) ELSE At(ts, 2)[2]
           IN  [node |-> Node(<<"choice", name>>, TRUE, <<>>),
                g |-> [g EXCEPT !.choices = Append(@, name)],
                ok |-> At(ts, 2) = EOL \/ (At(ts, 2)[1] = "str" /\ At(ts, 3) = EOL)]
      [] ts[1][2] = "if" ->
           LET dep == ExpectExprAndEol(ts, 2)
           IN  [node |-> [Node(<<"if", "">>, FALSE, <<>>) EXCEPT !.dep = dep.e], g |-> g,
                ok |-> ~IsBad(dep)]

Ends == [menu |-> "endmenu", choice |-> "endchoice", if |-> "endif"]
Openers == {"config", "menuconfig", "menu", "comment", "choice", "if"}

\* The lines of a file from line i on, up to the end token, or to the end of the
\* file when there is none.  path is the files that are being read.
RECURSIVE ParseBlock(_, _, _, _, _)

\* A sourced file is a block of its own.  An optional source may be missing.
Source(ts, path, g) ==
    LET name == At(ts, 2)[2] IN
    IF At(ts, 2)[1] # "str" \/ At(ts, 3) # EOL THEN Block(<<>>, g, 1, FALSE)
    ELSE IF name \notin DOMAIN Files THEN Block(<<>>, g, 1, ts[1] = Kw("osource"))
    ELSE IF \E k \in DOMAIN path : path[k] = name THEN Block(<<>>, g, 1, FALSE)
    ELSE ParseBlock(1, "", Append(path, name), g, <<>>)

\* Properties and the children of the node that line i opens.
WholeNode(i, path, g, ts) ==
    LET lines == Files[path[Len(path)]]
        start == Opened(ts, g)
        props == IF ts[1] = Kw("if")
                 THEN [node |-> start.node, g |-> start.g, i |-> i + 1, ok |-> TRUE]
                 ELSE ParseProps(lines, i + 1, start.node, start.g)
        inner == ParseBlock(props.i, Ends[ts[1][2]], path, props.g, <<>>)
    IN
    IF ~start.ok \/ ~props.ok THEN Block(<<>>, g, i, FALSE)
    ELSE IF ts[1][2] \notin DOMAIN Ends THEN Block(<<props.node>>, props.g, props.i, TRUE)
    ELSE Block(<<[props.node EXCEPT !.list = inner.nodes]>>, inner.g, inner.i, inner.ok)

ParseBlock(i, end, path, g, nodes) ==
    LET lines == Files[path[Len(path)]]
        ts == Tokenize(lines[i])
        whole == WholeNode(i, path, g, ts)
        sourced == Source(ts, path, g)
    IN
    IF i > Len(lines) THEN Block(nodes, g, i, end = "")
    ELSE IF ts = <<>> THEN ParseBlock(i + 1, end, path, g, nodes)
    ELSE IF BadStart(lines[i]) THEN Block(nodes, g, i, FALSE)
    ELSE IF ts[1][2] = end THEN Block(nodes, g, i + 1, At(ts, 2) = EOL)
    ELSE IF ts[1][2] \in Openers THEN
        IF whole.ok THEN ParseBlock(whole.i, end, path, whole.g, nodes \o whole.nodes) ELSE whole
    ELSE IF ts[1][2] \in {"source", "osource"} THEN
        IF sourced.ok THEN ParseBlock(i + 1, end, path, sourced.g, nodes \o sourced.nodes)
        ELSE sourced
    ELSE IF ts[1][2] = "mainmenu" THEN
        IF At(ts, 2)[1] = "str" /\ At(ts, 3) = EOL
        THEN ParseBlock(i + 1, end, path, g, nodes) ELSE Block(nodes, g, i, FALSE)
    ELSE Block(nodes, g, i, FALSE)

\* The top node, with everything the files define below it.
TopNode(file) ==
    LET r == ParseBlock(1, "", <<file>>, StartG, <<>>)
    IN  [node |-> [Node(<<"menu", "top">>, TRUE, <<Yes>>) EXCEPT !.list = r.nodes],
         g |-> r.g, ok |-> r.ok]
=============================================================================
