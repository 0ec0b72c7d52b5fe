------------------------------- MODULE Session -------------------------------
(***************************************************************************)
(* A directory with a Kconfig file, and one of the tools at work in it:    *)
(* the utility and the build, the menu in a terminal, or the window.       *)
(***************************************************************************)
EXTENDS KUtility, KMenu, KNodes, KTexts

CONSTANT ToolFor            \* which of the tools works on which text

LOCAL INSTANCE SequencesExt

VARIABLE win

Gui == INSTANCE KGui

vars == <<storeVars, utilityVars, ui, win>>

\* The files that a menu starts with: none; an old one that assigns to a symbol that is
\* no longer there; or one whose lines are in another order than they are written in.
FilesAtStart(x) ==
    LET config(lines) == ".config" :> lines
        old == config(<< <<"set", IF x.file = "window" THEN "C2" ELSE "E", "y">>,
                         <<"set", "GONE", "y">> >>)
        reordered == config(Reverse(ConfigContents(x, NewObject(x).user)))
    IN  CASE x.file = "screen" -> {old}
          [] x.file = "picks" -> {[name \in {} |-> <<>>], reordered}
          [] x.file = "window" -> {old, reordered}

Init ==
    \E t \in DOMAIN Worlds :
      /\ w = Worlds[t]
      /\ ui = Closed(IF ToolFor[t] = "menu" THEN "start" ELSE "closed")
      /\ win = Gui!Closed(IF ToolFor[t] = "window" THEN "start" ELSE "closed")
      /\ IF ToolFor[t] = "utility" THEN UtilityInit
         ELSE kconf = NewObject(w) /\ disk \in FilesAtStart(w) /\ proc = Idle /\ build = NewBuild

Next ==
    \/ ToolFor[w.file] = "utility" /\ UtilityNext /\ UNCHANGED <<ui, win>>
    \/ MenuNext /\ UNCHANGED <<utilityVars, win>>
    \/ Gui!GuiNext /\ UNCHANGED <<utilityVars, ui>>

Spec == Init /\ [][Next]_vars

----------------------------------------------------------------------------
\* The rows of the window are the ones that the values call for: see KGui.
TreeShowsTheMenu == Gui!TreeShowsTheMenu

\* Neither of the two interfaces loses changes: see KMenu and KGui.
NothingUnsavedIsLost == MenuLosesNothing /\ Gui!WindowLosesNothing
=============================================================================
