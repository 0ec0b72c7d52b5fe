---------------------------- MODULE AbstractCore ----------------------------
(***************************************************************************)
(* What the core of the plugin promises to the modules injected into it.   *)
(* It is down, or it is up with every module loaded; on the way up modules *)
(* finish loading one at a time, and on the way down, whether it had       *)
(* arrived or not, those that had are unloaded in the reverse order, each  *)
(* of them once, before the core is down again.                            *)
(***************************************************************************)
EXTENDS Sequences, Naturals

CONSTANT MaxModules     \* bound on the modules ever injected

VARIABLES
    mode,       \* where the core stands
    up          \* the modules that are loaded, the last one first

Modules == 1..MaxModules

Init == mode = "down" /\ up = <<>>

Raise ==
    /\ mode = "down"
    /\ mode' = "raising"
    /\ UNCHANGED up

Load(m) ==
    /\ mode = "raising"
    /\ \A i \in DOMAIN up : up[i] # m
    /\ up' = <<m>> \o up
    /\ UNCHANGED mode

Arrive ==
    /\ mode = "raising"
    /\ mode' = "up"
    /\ UNCHANGED up

Lower ==
    /\ mode \in {"raising", "up"}
    /\ mode' = "lowering"
    /\ UNCHANGED up

Unload ==
    /\ mode = "lowering"
    /\ up # <<>>
    /\ up' = Tail(up)
    /\ UNCHANGED mode

Rest ==
    /\ mode = "lowering"
    /\ up = <<>>
    /\ mode' = "down"
    /\ UNCHANGED up

Next ==
    \/ Raise \/ Arrive \/ Lower \/ Unload \/ Rest
    \/ \E m \in Modules : Load(m)

Spec == Init /\ [][Next]_<<mode, up>>
=============================================================================
