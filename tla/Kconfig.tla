------------------------------- MODULE Kconfig -------------------------------
(***************************************************************************)
(* A Kconfig object from its construction on: its files are parsed, its    *)
(* menu nodes finished and its dependencies searched for loops, and then   *)
(* its values are set and read.                                            *)
(***************************************************************************)
EXTENDS KValues, KTexts

vars == <<loopVars, valueVars>>

Init == LoopInit /\ ValuesInit

Next ==
    \/ LoopNext /\ UNCHANGED valueVars
    \/ Ready /\ Use /\ UNCHANGED loopVars

Spec == Init /\ [][Next]_vars
=============================================================================
