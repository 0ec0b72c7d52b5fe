-------------------------------- MODULE KUser --------------------------------
(***************************************************************************)
(* What an assignment makes of the user values of symbols and choices, in  *)
(* set_value and unset_value of kconfiglib.py.  The caches are left to     *)
(* KValues.                                                                *)
(***************************************************************************)
EXTENDS KEval

CONSTANT Strings        \* the values that are given to int, hex and string symbols

\* The form of a value that a symbol or a choice of a type accepts.
ValidFor(type, v) ==
    CASE type = "bool" -> v \in {0, 2}
      [] type = "tristate" -> v \in {0, 1, 2}
      [] type \in {"int", "hex"} -> IsNumeral(v, type)
      [] type = "string" -> TRUE
      [] OTHER -> FALSE

ValuesFor(type) == IF type \in BoolTri THEN {0, 1, 2} ELSE Strings

\* A choice symbol that is set to y is what the user selected.
Assigned(w, user, s, v) ==
    LET c == w.syms[s].choice IN
    [user EXCEPT !.val[s] = <<v>>, !.sel = IF c # "" /\ v = 2 THEN [@ EXCEPT ![c] = s] ELSE @]

ModeAssigned(user, c, v) == [user EXCEPT !.mode[c] = <<v>>]

\* set_value of a symbol or of a choice.
ItemAssigned(w, user, i, v) ==
    IF i \in DOMAIN w.choices THEN ModeAssigned(user, i, v) ELSE Assigned(w, user, i, v)
=============================================================================
