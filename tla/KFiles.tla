-------------------------------- MODULE KFiles -------------------------------
(***************************************************************************)
(* The files that kconfiglib.py writes, and reads again.  A file is a      *)
(* sequence of lines, and a line a tuple: <<"set", s, v>>, <<"unset", s>>  *)
(* for "# CONFIG_s is not set", <<"title", t>> and <<"end", t>> for the    *)
(* comments around a menu, and <<"define", s, v>> in a C header.  The      *)
(* values are computed from scratch here; that the cached ones are the     *)
(* same is CachesFresh of KValues.                                         *)
(***************************************************************************)
EXTENDS KUser

LOCAL INSTANCE SequencesExt

ConfigString(w, user, s) ==
    LET val == Str(w, user, s) IN
    IF ~Written(w, user, s) THEN <<>>
    ELSE IF w.syms[s].type \in BoolTri /\ val = "n" THEN << <<"unset", s>> >>
    ELSE << <<"set", s, val>> >>

AllLines(w, Lines(_)) == FlattenSeq([i \in DOMAIN w.order |-> Lines(w.order[i])])

----------------------------------------------------------------------------
(* Contents.                                                                *)

\* In the order of the menu nodes; a symbol appears where it is first defined.
\* so is what was written so far, and the symbols that were passed.
RECURSIVE ConfigBelow(_, _, _, _)
ConfigBelow(w, user, node, so) ==
    LET holds(e) == ValueOf(w, user, e) > 0
        titled(n) == n.item[1] \in {"menu", "comment"} /\ holds(n.dep) /\ holds(n.visibility)
        visit(a, n) ==
          LET name == n.item[2]
              own == CASE IsSymbol(n) /\ name \notin a.passed -> ConfigString(w, user, name)
                       [] titled(n) -> << <<"title", name>> >>
                       [] OTHER -> <<>>
              below == ConfigBelow(w, user, n,
                         [lines |-> a.lines \o own,
                          passed |-> IF IsSymbol(n) THEN a.passed \cup {name} ELSE a.passed])
          IN  IF n.item[1] = "menu" /\ titled(n) /\ n.list # <<>>
              THEN [below EXCEPT !.lines = Append(@, <<"end", name>>)]
              ELSE below
    IN  FoldLeft(visit, so, node.list)

ConfigContents(w, user) ==
    ConfigBelow(w, user, w.tree, [lines |-> <<>>, passed |-> {}]).lines

\* Whether a symbol must be in a minimal configuration: it can be changed, it has
\* not its default, and it is not what its choice selects by default.
Minimal(w, user, s) ==
    LET c == w.syms[s].choice IN
    /\ c # "" \/ Vis(w, user, s) > ValueOf(w, user, w.syms[s].rev)
    /\ Str(w, user, s) # StrDefault(w, user, s)
    /\ ~(/\ c # "" /\ ~w.choices[c].optional
         /\ SelectionFromDefaults(Fresh(w, user), c, 1).v = s
         /\ w.syms[s].type = "bool" /\ Tri(w, user, s) = 2)

MinConfigContents(w, user) ==
    AllLines(w, LAMBDA s : IF Minimal(w, user, s) THEN ConfigString(w, user, s) ELSE <<>>)

\* What a source file sees of a symbol: nothing at all when it is n.
AutoconfLine(w, user, s) ==
    IF ~Written(w, user, s) \/ (w.syms[s].type \in BoolTri /\ Tri(w, user, s) = 0) THEN <<>>
    ELSE << <<"define", s, Str(w, user, s)>> >>

AutoconfContents(w, user) == AllLines(w, LAMBDA s : AutoconfLine(w, user, s))

OldValsContents(w, user) ==
    AllLines(w, LAMBDA s : IF w.syms[s].type \in BoolTri /\ Tri(w, user, s) = 0 THEN <<>>
                           ELSE ConfigString(w, user, s))

----------------------------------------------------------------------------
(* Loading.  load is the user values, the items that were set by it, and    *)
(* the assignments to symbols that are not defined.                         *)

\* The mode of a choice is inferred from the values that its symbols get.
InferMode(w, load, s, v) ==
    LET c == w.syms[s].choice IN
    IF c # "" /\ v # 0 /\ ValidFor(w.choices[c].type, v)
    THEN [load EXCEPT !.user = ModeAssigned(@, c, v), !.was_set = @ \cup {c}]
    ELSE load

SetFromLine(w, load, s, v) ==
    LET c == w.syms[s].choice
        selects == c # "" /\ v = 2
    IN  [load EXCEPT !.user = Assigned(w, @, s, v),
                     !.was_set = @ \cup {s} \cup (IF selects THEN {c} ELSE {})]

LoadLine(w, load, line) ==
    LET s == line[2]
        str == IF line[1] = "set" THEN line[3] ELSE "n"
        defined == s \in ToSet(w.order)
        type == w.syms[s].type
        v == IF type \in BoolTri THEN TriOfName(str) ELSE str
    IN  IF line[1] \notin {"set", "unset"} THEN load
        ELSE IF ~defined THEN [load EXCEPT !.missing = Append(@, <<s, str>>)]
        ELSE IF line[1] = "unset" /\ type \notin BoolTri THEN load
        ELSE IF type \in BoolTri /\ str \notin TriNames THEN load
        ELSE IF ~ValidFor(type, v) THEN load
        ELSE SetFromLine(w, IF type \in BoolTri THEN InferMode(w, load, s, v) ELSE load, s, v)

\* When the configuration is replaced, what was not set is unset.
UnsetOthers(load) ==
    [val |-> [s \in DOMAIN load.user.val |-> IF s \in load.was_set THEN load.user.val[s] ELSE <<>>],
     mode |-> [c \in DOMAIN load.user.mode |-> IF c \in load.was_set THEN load.user.mode[c] ELSE <<>>],
     sel |-> [c \in DOMAIN load.user.sel |-> IF c \in load.was_set THEN load.user.sel[c] ELSE ""]]

\* st is the user values and the missing symbols of a Kconfig object.
LoadConfig(w, st, lines, replace) ==
    LET start == [user |-> st.user, was_set |-> {}, missing |-> IF replace THEN <<>> ELSE st.missing]
        load == FoldLeft(LAMBDA a, line : LoadLine(w, a, line), start, lines)
    IN  [user |-> IF replace THEN UnsetOthers(load) ELSE load.user, missing |-> load.missing]

LoadReplacing(w, st, lines) == LoadConfig(w, st, lines, TRUE)

NewObject(w) == [user |-> NoUser(w), missing |-> <<>>]

----------------------------------------------------------------------------
(* What the programs around it do with an object.                           *)

OldName(name) == name \o ".old"

ValuesOf(w, user) == [s \in ToSet(w.order) |-> Str(w, user, s)]

\* The values as JSON.  The text ends with a brace that is missing when it was cut
\* short.
JsonLines(w, user) == AllLines(w, LAMBDA s : << <<"json", s, Str(w, user, s)>> >>) \o << <<"}">> >>

\* The user values after any one assignment.
EditedUsers(w, user) ==
    UNION {{ItemAssigned(w, user, i, v) :
              v \in IF i \in ToSet(w.order) /\ w.syms[i].type \notin BoolTri
                    THEN Strings ELSE Assignable(w, user, i)} :
           i \in ToSet(w.order) \cup DOMAIN w.choices}

\* setconfig.py: the assignments in their order; an error as soon as one is not
\* valid, or does not show in the value.
Apply(w, user, arguments) ==
    LET set(a, arg) ==
          LET type == w.syms[arg[1]].type
              v == IF type \in BoolTri THEN TriOfName(arg[2]) ELSE arg[2]
              now == Assigned(w, a.user, arg[1], v)
          IN  IF ~a.ok \/ ~ValidFor(type, v) THEN [a EXCEPT !.ok = FALSE]
              ELSE [user |-> now, ok |-> Str(w, now, arg[1]) = arg[2]]
    IN  FoldLeft(set, [user |-> user, ok |-> TRUE], arguments)

\* What source files see of the symbols.
Seen(w, user) == [s \in ToSet(w.order) |-> AutoconfLine(w, user, s)]

----------------------------------------------------------------------------
(* sync_deps.                                                               *)

\* The value of a symbol in auto.conf, the last one if there are more.  Of a symbol
\* that is no longer defined, the file is touched at once.
OldVal(lines, s) ==
    LET set == SelectSeq(lines, LAMBDA line : line[2] = s)
    IN  IF set = <<>> THEN <<>> ELSE <<Last(set)[3]>>

\* Slip: a symbol that is no longer written counts as unchanged.
ChangedIfWritten(w, user, lines, s) ==
    LET old == OldVal(lines, s)
        val == Str(w, user, s)
    IN  /\ Written(w, user, s)
        /\ ~(old = <<>> /\ w.syms[s].type \in BoolTri /\ val = "n")
        /\ <<val>> # old

\* Whether a source file sees a value that is not the one in auto.conf.
Changed(w, user, lines, s) ==
    LET old == OldVal(lines, s)
        val == Str(w, user, s)
    IN  IF Written(w, user, s)
        THEN ~(old = <<>> /\ w.syms[s].type \in BoolTri /\ val = "n") /\ <<val>> # old
        ELSE old # <<>>

\* The symbols whose files are touched, when lines is what auto.conf holds.
ToTouch(w, user, lines) == SelectSeq(w.order, LAMBDA s : Changed(w, user, lines, s))
=============================================================================
