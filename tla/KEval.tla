-------------------------------- MODULE KEval --------------------------------
(***************************************************************************)
(* The values of symbols and choices, as the properties of Symbol and      *)
(* Choice in kconfiglib.py compute them, with the caches they fill.        *)
(*                                                                         *)
(* A cell <<attr, item>> is one cached attribute: "vis", "tri", "str",     *)
(* "assign" or "sel"; "conf" is _write_to_conf, which is stored along with *)
(* the value.  An evaluation reads a context x: the world x.w, what the    *)
(* user has set x.user, and the filled cells x.cache.  It returns its      *)
(* value v and the cells it fills, new.  A cell that is read twice is      *)
(* computed twice here and once in the code, to the same value.            *)
(*                                                                         *)
(* A string value is a string; Numerals says which of them are numbers.    *)
(***************************************************************************)
EXTENDS KTree

LOCAL INSTANCE SequencesExt

CONSTANTS
    Numerals,       \* "int", "hex" and "any" -> the strings that are numbers in
                    \* that notation -> their values; only natural numbers occur
    Words,          \* the strings that are compared with < and >, in their order
    Get(_, _, _),   \* how a cached attribute is read: it is GetCached below
    ExprValue(_, _) \* the value of an expression: it is expr_value below; with these two
                    \* the recursion of values and expressions is closed by the instance

NoCells == [c \in {} |-> 0]
NoUser(w) == [val |-> [s \in DOMAIN w.syms |-> <<>>],
              mode |-> [c \in DOMAIN w.choices |-> <<>>],
              sel |-> [c \in DOMAIN w.choices |-> ""]]
Fresh(w, user) == [w |-> w, user |-> user, cache |-> NoCells]

\* A value, and one that is computed from another.
Ret(v) == [v |-> v, new |-> NoCells]
Bind(a, F(_)) == LET b == F(a.v) IN [v |-> b.v, new |-> b.new @@ a.new]

MinOf(a, b) == IF a < b THEN a ELSE b
MaxOf(a, b) == IF a > b THEN a ELSE b
IsNumeral(str, type) == str \in DOMAIN Numerals[type]
NumeralOf(num, type) == CHOOSE str \in DOMAIN Numerals[type] : Numerals[type][str] = num

RECURSIVE ActiveDefault(_, _, _)

----------------------------------------------------------------------------
(* Types and modes, which are not cached.                                   *)

Modules(x) == Get(x, "tri", MODULES)

ChoiceType(x, c) ==
    LET type == x.w.choices[c].type IN
    IF type # "tristate" THEN Ret(type)
    ELSE Bind(Modules(x), LAMBDA m : Ret(IF m = 0 THEN "bool" ELSE type))

\* The mode of a choice.
ChoiceTri(x, c) ==
    LET user == x.user.mode[c]
        least == IF x.w.choices[c].optional THEN 0 ELSE 1
        val == IF user # <<>> THEN MaxOf(least, user[1]) ELSE least
    IN  Bind(Get(x, "vis", c), LAMBDA vis :
          IF MinOf(val, vis) # 1 THEN Ret(MinOf(val, vis))
          ELSE Bind(ChoiceType(x, c), LAMBDA type : Ret(IF type = "bool" THEN 2 ELSE 1)))

SymType(x, s) ==
    LET sym == x.w.syms[s] IN
    IF sym.type # "tristate" THEN Ret(sym.type)
    ELSE Bind(IF sym.choice = "" THEN Ret(0) ELSE ChoiceTri(x, sym.choice), LAMBDA mode :
           IF mode = 2 THEN Ret("bool")
           ELSE Bind(Modules(x), LAMBDA m : Ret(IF m = 0 THEN "bool" ELSE "tristate")))

----------------------------------------------------------------------------
(* Expressions.                                                             *)

TriOf(x, name) ==
    IF name \in TriNames THEN Ret(TriOfName(name))
    ELSE IF name \in DOMAIN x.w.choices THEN ChoiceTri(x, name)
    ELSE Get(x, "tri", name)

TypeOf(x, name) == IF name \in DOMAIN x.w.syms THEN x.w.syms[name].type ELSE "unknown"

\* _sym_to_num: a number, or -1 for what is none.
SymToNum(x, name) ==
    LET type == TypeOf(x, name)
        as == IF type \in {"int", "hex"} THEN type ELSE "any"
    IN  IF type \in BoolTri THEN TriOf(x, name)
        ELSE Bind(Get(x, "str", name), LAMBDA str :
               Ret(IF IsNumeral(str, as) THEN Numerals[as][str] ELSE 0 - 1))

Place(str) == IF \E i \in DOMAIN Words : Words[i] = str
              THEN CHOOSE i \in DOMAIN Words : Words[i] = str ELSE 0

Holds(rel, a, b) ==
    CASE rel = "=" -> a = b   [] rel = "!=" -> a # b
      [] rel = "<" -> a < b   [] rel = "<=" -> a <= b
      [] rel = ">" -> a > b   [] rel = ">=" -> a >= b

\* Numbers are compared as numbers unless both sides are strings.
Related(x, rel, s1, s2) ==
    LET strings == Bind(Get(x, "str", s1), LAMBDA a :
                     Bind(Get(x, "str", s2), LAMBDA b :
                       Ret(IF rel \in {"=", "!="} THEN Holds(rel, a, b)
                           ELSE Holds(rel, Place(a), Place(b)))))
    IN  IF TypeOf(x, s1) = "string" /\ TypeOf(x, s2) = "string" THEN strings
        ELSE Bind(SymToNum(x, s1), LAMBDA a :
               IF a < 0 THEN strings
               ELSE Bind(SymToNum(x, s2), LAMBDA b :
                      IF b < 0 THEN strings ELSE Ret(Holds(rel, a, b))))

expr_value(x, e) ==
    LET left == ExprValue(x, e[2])
        right == ExprValue(x, e[3])
    IN  CASE IsLeaf(e) -> TriOf(x, e[2])
          [] e[1] = "and" ->
               Bind(left, LAMBDA a :
                 IF a = 0 THEN Ret(0) ELSE Bind(right, LAMBDA b : Ret(MinOf(a, b))))
          [] e[1] = "or" ->
               Bind(left, LAMBDA a :
                 IF a = 2 THEN Ret(2) ELSE Bind(right, LAMBDA b : Ret(MaxOf(a, b))))
          [] e[1] = "not" -> Bind(left, LAMBDA a : Ret(2 - a))
          [] OTHER ->
               Bind(Related(x, e[1], e[2][2], e[3][2]), LAMBDA is : Ret(IF is THEN 2 ELSE 0))

\* The first of the properties whose condition, its last part, is not n: its
\* number and the value of the condition; <<0, 0>> if there is none.
ActiveDefault(x, props, i) ==
    IF i > Len(props) THEN Ret(<<0, 0>>)
    ELSE Bind(ExprValue(x, Last(props[i])), LAMBDA cond :
           IF cond > 0 THEN Ret(<<i, cond>>) ELSE ActiveDefault(x, props, i + 1))

----------------------------------------------------------------------------
(* Visibility.                                                              *)

RECURSIVE Highest(_, _, _)
Highest(x, exprs, vis) ==
    IF exprs = <<>> THEN Ret(vis)
    ELSE Bind(ExprValue(x, Head(exprs)), LAMBDA a : Highest(x, Tail(exprs), MaxOf(vis, a)))

\* m stands for y unless the type is tristate.
Promoted(x, type, vis) ==
    IF vis # 1 THEN Ret(vis) ELSE Bind(type, LAMBDA t : Ret(IF t = "tristate" THEN 1 ELSE 2))

ChoiceVisibility(x, c) ==
    Bind(Highest(x, x.w.choices[c].prompts, 0), LAMBDA vis : Promoted(x, ChoiceType(x, c), vis))

\* In a choice, m and y need the mode of the choice.
SymVisibility(x, s) ==
    LET sym == x.w.syms[s]
        c == sym.choice
        mode == ChoiceTri(x, c)
        boolOfTri == c # "" /\ x.w.choices[c].type = "tristate" /\ sym.type # "tristate"
        triOf(vis) == c # "" /\ sym.type = "tristate" /\ vis = 1
        rest(vis) == IF ~triOf(vis) THEN Promoted(x, SymType(x, s), vis)
                     ELSE Bind(mode, LAMBDA m :
                            IF m = 2 THEN Ret(0) ELSE Promoted(x, SymType(x, s), vis))
    IN  Bind(Highest(x, sym.prompts, 0), LAMBDA vis :
          IF ~boolOfTri THEN rest(vis)
          ELSE Bind(mode, LAMBDA m : IF m # 2 THEN Ret(0) ELSE rest(vis)))

----------------------------------------------------------------------------
(* Values of bool and tristate symbols.                                     *)

\* A value with what it makes of _write_to_conf.
Conf(val, conf) == Ret([val |-> val, conf |-> conf])

\* The first default that applies, and a weak reverse dependency.
FromDefaults(x, sym, vis) ==
    LET default == Bind(ActiveDefault(x, sym.defaults, 1), LAMBDA d :
                     IF d[1] = 0 THEN Ret(0)
                     ELSE Bind(ExprValue(x, sym.defaults[d[1]][1]), LAMBDA a : Ret(MinOf(a, d[2]))))
        implied == Bind(ExprValue(x, sym.weak), LAMBDA weak :
                     IF weak = 0 THEN Ret(0)
                     ELSE Bind(ExprValue(x, sym.dep), LAMBDA dep :
                            Ret(IF dep > 0 THEN weak ELSE 0)))
    IN  Bind(default, LAMBDA val : Bind(implied, LAMBDA weak :
          Conf(MaxOf(val, weak), vis > 0 \/ val > 0 \/ weak > 0)))

\* What a warning about a select that exceeds the direct dependencies reads.
RECURSIVE WarnedSelects(_, _, _)
WarnedSelects(x, selects, dep) ==
    IF selects = <<>> THEN Ret(0)
    ELSE LET select == Head(selects)
             selecting == SplitExpr(select, "and")[1][2]
         IN  Bind(ExprValue(x, select), LAMBDA a :
               Bind(IF a <= dep THEN Ret("") ELSE Get(x, "str", selecting), LAMBDA str :
                 Bind(IF a <= dep THEN Ret(0) ELSE ExprValue(x, x.w.syms[selecting].dep), LAMBDA d :
                   WarnedSelects(x, Tail(selects), dep))))

WarnSelectUnsatisfiedDeps(x, sym) ==
    Bind(ExprValue(x, sym.dep), LAMBDA dep : WarnedSelects(x, SplitExpr(sym.rev, "or"), dep))

\* Slip: a select is limited by the direct dependencies.
SelectedObeysDeps(x, sym, was) ==
    Bind(ExprValue(x, sym.rev), LAMBDA rev : Bind(ExprValue(x, sym.dep), LAMBDA dep :
      Conf(MaxOf(was.val, MinOf(rev, dep)), was.conf \/ MinOf(rev, dep) > 0)))

\* Reverse dependencies take precedence over everything.
Selected(x, sym, was) ==
    Bind(ExprValue(x, sym.rev), LAMBDA rev :
      IF rev = 0 THEN Ret(was)
      ELSE Bind(ExprValue(x, sym.dep), LAMBDA dep :
             Bind(IF dep < rev THEN WarnSelectUnsatisfiedDeps(x, sym) ELSE Ret(0), LAMBDA z :
               Conf(MaxOf(was.val, rev), TRUE))))

NonChoiceTri(x, s, vis) ==
    LET sym == x.w.syms[s]
        user == x.user.val[s]
    IN  Bind(IF vis > 0 /\ user # <<>> THEN Conf(MinOf(user[1], vis), TRUE)
             ELSE FromDefaults(x, sym, vis), LAMBDA own :
          Bind(Selected(x, sym, own), LAMBDA r :
            IF r.val # 1 THEN Ret(r)
            ELSE Bind(SymType(x, s), LAMBDA type :
                   IF type = "bool" THEN Conf(2, r.conf)
                   ELSE Bind(ExprValue(x, sym.weak), LAMBDA weak :
                          Conf(IF weak = 2 THEN 2 ELSE 1, r.conf)))))

ChoiceSymTri(x, s, vis) ==
    LET user == x.user.val[s] IN
    IF vis = 2
    THEN Bind(Get(x, "sel", x.w.syms[s].choice), LAMBDA sel : Conf(IF sel = s THEN 2 ELSE 0, TRUE))
    ELSE Conf(IF vis > 0 /\ user \notin {<<>>, <<0>>} THEN 1 ELSE 0, vis > 0)

\* Also stores _write_to_conf.
WithConf(s, a) == Bind(a, LAMBDA r : [v |-> r.val, new |-> <<"conf", s>> :> r.conf])

TriValue(x, s) ==
    IF x.w.syms[s].type \notin BoolTri THEN Ret(0)
    ELSE Bind(Get(x, "vis", s), LAMBDA vis :
           WithConf(s, IF x.w.syms[s].choice = "" THEN NonChoiceTri(x, s, vis)
                       ELSE ChoiceSymTri(x, s, vis)))

----------------------------------------------------------------------------
(* Values of the other symbols.                                             *)

\* The range in effect, <<>> if there is none.  What is no number counts as 0.
ActiveRange(x, s) ==
    LET sym == x.w.syms[s]
        bound(str) == IF IsNumeral(str, sym.type) THEN Numerals[sym.type][str] ELSE 0
    IN  Bind(ActiveDefault(x, sym.ranges, 1), LAMBDA r :
          IF r[1] = 0 THEN Ret(<<>>)
          ELSE Bind(Get(x, "str", sym.ranges[r[1]][1][2]), LAMBDA low :
                 Bind(Get(x, "str", sym.ranges[r[1]][2][2]), LAMBDA high :
                   Ret(<<bound(low), bound(high)>>))))

\* The default that applies; _write_to_conf is set by it.
StrFromDefaults(x, s, vis) ==
    LET sym == x.w.syms[s] IN
    Bind(ActiveDefault(x, sym.defaults, 1), LAMBDA d :
      IF d[1] = 0 THEN Conf("", vis > 0)
      ELSE Bind(Get(x, "str", sym.defaults[d[1]][1][2]), LAMBDA str : Conf(str, TRUE)))

Clamp(num, range) ==
    IF num < range[1] THEN range[1] ELSE IF num > range[2] THEN range[2] ELSE num

\* A user value outside the range is ignored; a default is clamped, and so is
\* the absence of one.
NumValue(x, s, vis) ==
    LET type == x.w.syms[s].type
        user == x.user.val[s]
        num(str) == IF IsNumeral(str, type) THEN Numerals[type][str] ELSE 0
        clamped(r, range) ==
            IF range = <<>> \/ Clamp(num(r.val), range) = num(r.val) THEN Ret(r)
            ELSE Conf(NumeralOf(Clamp(num(r.val), range), type), r.conf)
    IN  Bind(ActiveRange(x, s), LAMBDA range :
          IF vis > 0 /\ user # <<>>
               /\ (range # <<>> => Clamp(num(user[1]), range) = num(user[1]))
          THEN Conf(user[1], TRUE)
          ELSE Bind(StrFromDefaults(x, s, vis), LAMBDA r : clamped(r, range)))

StringValue(x, s, vis) ==
    IF vis > 0 /\ x.user.val[s] # <<>> THEN Conf(x.user.val[s][1], TRUE)
    ELSE StrFromDefaults(x, s, vis)

\* A symbol that comes from the environment, or names the defconfig, is not written.
StrValue(x, s) ==
    LET type == x.w.syms[s].type
        hidden == s \in x.w.g.env \cup x.w.g.defconfig
    IN  CASE type \in BoolTri -> Bind(Get(x, "tri", s), LAMBDA a : Ret(TriStr[a + 1]))
          [] type = "unknown" -> Ret(s)
          [] OTHER ->
               Bind(Get(x, "vis", s), LAMBDA vis :
                 WithConf(s, Bind(IF type = "string" THEN StringValue(x, s, vis)
                                  ELSE NumValue(x, s, vis), LAMBDA r :
                               Conf(r.val, r.conf /\ ~hidden))))

----------------------------------------------------------------------------
(* What can be assigned, and the selection of a choice.                     *)

\* Slip: an imply is thought to be a default, which leaves m alone.
PromotesTypeOnly(x, s) == Bind(SymType(x, s), LAMBDA type : Ret(type = "bool"))

\* m becomes y: in a symbol that is bool at the moment, or implied to y.
PromotesM(x, s) ==
    Bind(SymType(x, s), LAMBDA type :
      IF type = "bool" THEN Ret(TRUE)
      ELSE Bind(ExprValue(x, x.w.syms[s].weak), LAMBDA weak : Ret(weak = 2)))

SymAssignable(x, s) ==
    LET sym == x.w.syms[s]
        promoted == PromotesM(x, s)
        full(rev) == Bind(promoted, LAMBDA p :
                       Ret(CASE rev = 0 /\ p -> {0, 2} [] rev = 0 /\ ~p -> {0, 1, 2}
                             [] rev = 1 /\ p -> {2}    [] rev = 1 /\ ~p -> {1, 2}))
        atM(rev) == IF rev = 1 THEN Ret({1})
                    ELSE Bind(ExprValue(x, sym.weak), LAMBDA weak :
                           Ret(IF weak = 2 THEN {0, 2} ELSE {0, 1}))
    IN  IF sym.type \notin BoolTri THEN Ret({})
        ELSE Bind(Get(x, "vis", s), LAMBDA vis :
               IF vis = 0 THEN Ret({})
               ELSE Bind(ExprValue(x, sym.rev), LAMBDA rev :
                      IF vis = 2 /\ sym.choice # "" THEN Ret({2})
                      ELSE IF rev = 2 THEN Ret({2})
                      ELSE IF vis = 2 THEN full(rev) ELSE atM(rev)))

ChoiceAssignable(x, c) ==
    LET low == IF x.w.choices[c].optional THEN {0} ELSE {} IN
    Bind(Get(x, "vis", c), LAMBDA vis :
      CASE vis = 0 -> Ret({})
        [] vis = 1 -> Ret(low \cup {1})
        [] vis = 2 -> Bind(ChoiceType(x, c), LAMBDA type :
                        Ret(low \cup (IF type = "bool" THEN {2} ELSE {1, 2}))))

RECURSIVE FirstVisible(_, _), SelectionFromDefaults(_, _, _)
FirstVisible(x, syms) ==
    IF syms = <<>> THEN Ret("")
    ELSE Bind(Get(x, "vis", Head(syms)), LAMBDA vis :
           IF vis > 0 THEN Ret(Head(syms)) ELSE FirstVisible(x, Tail(syms)))

\* The first default that applies and is visible, or the first visible symbol.
SelectionFromDefaults(x, c, i) ==
    LET defaults == x.w.choices[c].defaults IN
    IF i > Len(defaults) THEN FirstVisible(x, x.w.choices[c].syms)
    ELSE Bind(ExprValue(x, defaults[i][2]), LAMBDA cond :
           IF cond = 0 THEN SelectionFromDefaults(x, c, i + 1)
           ELSE Bind(Get(x, "vis", defaults[i][1][2]), LAMBDA vis :
                  IF vis > 0 THEN Ret(defaults[i][1][2]) ELSE SelectionFromDefaults(x, c, i + 1)))

\* Slip: the selection of the user stands, visible or not.
UserSelection(x, c) ==
    Bind(ChoiceTri(x, c), LAMBDA mode :
      IF mode # 2 THEN Ret("")
      ELSE IF x.user.sel[c] = "" THEN SelectionFromDefaults(x, c, 1)
      ELSE Ret(x.user.sel[c]))

Selection(x, c) ==
    LET user == x.user.sel[c] IN
    Bind(ChoiceTri(x, c), LAMBDA mode :
      IF mode # 2 THEN Ret("")
      ELSE IF user = "" THEN SelectionFromDefaults(x, c, 1)
      ELSE Bind(Get(x, "vis", user), LAMBDA vis :
             IF vis > 0 THEN Ret(user) ELSE SelectionFromDefaults(x, c, 1)))

----------------------------------------------------------------------------
(* A cached attribute: its value, computed only if it is not there.         *)

Computed(x, attr, item) ==
    LET choice == item \in DOMAIN x.w.choices IN
    CASE attr = "vis" -> IF choice THEN ChoiceVisibility(x, item) ELSE SymVisibility(x, item)
      [] attr = "tri" -> TriValue(x, item)
      [] attr = "str" -> StrValue(x, item)
      [] attr = "sel" -> Selection(x, item)
      [] attr = "assign" -> IF choice THEN ChoiceAssignable(x, item) ELSE SymAssignable(x, item)

GetCached(x, attr, item) ==
    LET cell == <<attr, item>>
        a == Computed(x, attr, item)
    IN  IF cell \in DOMAIN x.cache THEN Ret(x.cache[cell])
        ELSE IF attr \in {"tri", "str"} /\ item \in TriNames
             THEN Ret(IF attr = "tri" THEN TriOfName(item) ELSE item)
        ELSE [v |-> a.v, new |-> (cell :> a.v) @@ a.new]

----------------------------------------------------------------------------
(* What the rest of the program asks for, from scratch.                     *)

Tri(w, user, s) == TriOf(Fresh(w, user), s).v
Str(w, user, s) == Get(Fresh(w, user), "str", s).v
Vis(w, user, item) == Get(Fresh(w, user), "vis", item).v
Assignable(w, user, item) == Get(Fresh(w, user), "assign", item).v
ValueOf(w, user, e) == ExprValue(Fresh(w, user), e).v

\* Whether the symbol appears in .config.
Written(w, user, s) ==
    LET new == Get(Fresh(w, user), "str", s).new
    IN  <<"conf", s>> \in DOMAIN new /\ new[<<"conf", s>>]

\* The value that a symbol would have without a user value, for write_min_config.
StrDefault(w, user, s) ==
    LET x == Fresh(w, user)
        sym == w.syms[s]
        d == ActiveDefault(x, sym.defaults, 1).v
        val == IF d[1] = 0 THEN 0 ELSE MinOf(ValueOf(w, user, sym.defaults[d[1]][1]), d[2])
        most == MaxOf(ValueOf(w, user, sym.rev), MaxOf(ValueOf(w, user, sym.weak), val))
    IN  CASE sym.type \in BoolTri /\ sym.choice # "" -> "n"
          [] sym.type \in BoolTri /\ sym.choice = "" ->
               IF most = 1 /\ SymType(x, s).v = "bool" THEN "y" ELSE TriStr[most + 1]
          [] sym.type \in {"string", "int", "hex"} ->
               IF d[1] = 0 THEN "" ELSE Str(w, user, sym.defaults[d[1]][1][2])
          [] OTHER -> ""
=============================================================================
