-------------------------------- MODULE KMenu --------------------------------
(***************************************************************************)
(* menuconfig.py: a menu in a terminal, where values are changed, and      *)
(* configurations are saved and loaded.  What is drawn is left out; which  *)
(* nodes are shown, and which of them are on the screen, is not.           *)
(*                                                                         *)
(* An operation takes and returns the state of the interface together with *)
(* the user values, as m below.  An index that is not found raises an      *)
(* exception, which ends the program.                                      *)
(***************************************************************************)
EXTENDS KView, KScreen

CONSTANT Screens            \* the heights that the terminal may have

VARIABLE ui

ASSUME ScreensAssumption == Screens \subseteq Nat

Has(nodes, p) == \E i \in 1..Len(nodes) : nodes[i] = p
Least(S) == CHOOSE i \in S : \A j \in S : i <= j

\* The index of a node in a list, counted from 0, or -1.
Index(nodes, p) == IF Has(nodes, p) THEN Least({i \in 1..Len(nodes) : nodes[i] = p}) - 1 ELSE -1

Selected_(m) == m.shown[m.sel + 1]
Shown(m) == ShownIn(w, m.user, m.all, m.menu)

----------------------------------------------------------------------------
(* Entering and leaving menus.                                              *)

\* The first node of the selected symbol that is shown.
_select_selected_choice_sym(m) ==
    LET s == SelectedIn(w, m.user, NameAt(m.menu))
        nodes == PlacesOf(w, <<"sym", s>>)
        there == {i \in 1..Len(nodes) : Has(m.shown, nodes[i])}
    IN  IF s = "" \/ there = {} THEN m
        ELSE _center_vertically([m EXCEPT !.sel = Index(m.shown, nodes[Least(there)])])

\* A menu that would be empty cannot be entered.
Enterable(m, p) == NodeAt(p).is_menuconfig /\ ShownIn(w, m.user, m.all, p) # <<>>

_enter_menu(m, p) ==
    LET in == [m EXCEPT !.rows = Append(@, m.sel - m.scroll), !.menu = p,
                        !.shown = ShownIn(w, m.user, m.all, p), !.sel = 0, !.scroll = 0]
    IN  IF ~Enterable(m, p) THEN m
        ELSE IF IsChoice(NodeAt(p)) THEN _select_selected_choice_sym(in) ELSE in

\* The entry of the menu appears on the row where it was, if that is known.
_leave_menu(m) ==
    LET parent == MenuOf(w, m.menu)
        shown == ShownIn(w, m.user, m.all, parent)
        i == Index(shown, m.menu)
        out == [m EXCEPT !.shown = shown, !.sel = i, !.menu = parent]
    IN  IF m.menu = Top THEN m
        ELSE IF i < 0 THEN Raised(m)
        ELSE IF m.rows = <<>> THEN _center_vertically(out)
        ELSE Placed([out EXCEPT !.rows = SubSeq(@, 1, Len(@) - 1)], shown, i,
                    AtMost(m.height - 1, m.rows[Len(m.rows)]))

\* When show-all is turned off, the closest node before the selected one is selected
\* that is still shown, or else the closest after it.
_toggle_show_all(m) ==
    LET all == ~m.all
        shown == ShownIn(w, m.user, all, m.menu)
        back == {k \in 0..m.sel : Has(shown, m.shown[m.sel + 1 - k])}
        ahead == {k \in 1..(Len(m.shown) - m.sel - 1) : Has(shown, m.shown[m.sel + 1 + k])}
        p == IF back # {} THEN m.shown[m.sel + 1 - Least(back)] ELSE m.shown[m.sel + 1 + Least(ahead)]
    IN  IF back = {} /\ ahead = {} THEN [m EXCEPT !.all = TRUE]
        ELSE Placed([m EXCEPT !.all = all], shown, Index(shown, p), m.sel - m.scroll)

----------------------------------------------------------------------------
(* Changing values.                                                         *)

Showing(m, shown) == Reselected(m, shown, Index(shown, Selected_(m)))
_update_menu(m) == Showing(m, Shown(m))

_set_val(m, p, v) ==
    LET str == IF TypeAt(p) \in BoolTri THEN TriStr[v + 1] ELSE v
    IN  IF str = StrIn(w, m.user, p) THEN m
        ELSE _update_menu([m EXCEPT !.user = SetIn(w, @, NameAt(p), v),
                                    !.changed = TRUE, !.done = @ + 1])

_changeable(m, p) ==
    /\ IsItem(p)
    /\ NodeAt(p).prompt # <<>> /\ CondIn(w, m.user, NodeAt(p).prompt[1]) > 0
    /\ \/ TypeAt(p) \notin BoolTri
       \/ Len(OfferedIn(w, m.user, p)) > 1
       \/ YModeIn(w, m.user, p)

\* What a toggle makes of a value: the next one that can be assigned.
Toggled(m, p) ==
    LET values == OfferedIn(w, m.user, p)
        i == Index(values, TriIn(w, m.user, p))
    IN  IF i < 0 /\ Len(values) # 1 THEN Raised(m)
        ELSE _set_val(m, p, values[((i + 1) % Len(values)) + 1])

\* The outcomes of changing a node: one for each string that may be entered.
Entered(m, p) == {_set_val(m, p, s) : s \in EntriesIn(w, m.user, p)}

\* A selection in a choice leads back to the menu that the choice is in.
_change_node(m, p) ==
    LET left(n) == IF /\ n.mode # "raised" /\ YModeIn(w, n.user, p)
                      /\ NodeAt(p).list = <<>> THEN _leave_menu(n) ELSE n
    IN  IF ~_changeable(m, p) THEN {m}
        ELSE {left(n) : n \in IF TypeAt(p) \in BoolTri THEN {Toggled(m, p)}
                              ELSE {m} \cup Entered(m, p)}

_set_sel_node_tri_val(m, v) ==
    LET p == Selected_(m)
    IN  IF IsItem(p) /\ Has(OfferedIn(w, m.user, p), v) THEN _set_val(m, p, v) ELSE m

----------------------------------------------------------------------------
(* Jumping to a node that was searched for.                                 *)

\* A non-empty menu or choice is jumped into.  What would not be shown is shown by
\* turning show-all on, and off again if something else can be selected.
_jump_to(m, node) ==
    LET into == (IsChoice(NodeAt(node)) \/ ItemOf(node)[1] = "menu") /\ NodeAt(node).list # <<>>
        menu == IF into THEN node ELSE MenuOf(w, node)
        p == IF into THEN Children(node)[1] ELSE node
        all == m.all \/ ~Has(ShownIn(w, m.user, m.all, menu), p)
        shown == ShownIn(w, m.user, all, menu)
        there == [m EXCEPT !.rows = <<>>, !.menu = menu, !.all = all, !.shown = shown,
                           !.sel = Index(shown, p)]
        seen == _center_vertically(IF into /\ ~m.all /\ all THEN _toggle_show_all(there) ELSE there)
    IN  IF there.sel < 0 THEN Raised(m)
        ELSE IF into /\ IsChoice(NodeAt(menu)) THEN _select_selected_choice_sym(seen) ELSE seen

\* What a search may find, which is nothing for a regular expression that is not one.
Searched == {FoundBy(w, names) : names \in Searches}

NoJump == [matches |-> <<>>, sel |-> 0, scroll |-> 0, screen |-> 0]

----------------------------------------------------------------------------
(* Keys.                                                                    *)

m0 == [f \in DOMAIN ui \cup {"user"} |-> IF f = "user" THEN user ELSE ui[f]]
In(mode) == ui.mode = mode
Become(m) ==
    \E n \in {m} : /\ ui' = [f \in DOMAIN ui |-> n[f]]
                  /\ kconf' = [user |-> n.user, missing |-> kconf.missing]

MoveKey ==
    /\ In("menu")
    /\ \/ Become(_select_next_menu_entry(m0)) \/ Become(_select_prev_menu_entry(m0))
       \/ Become(Page(_select_next_menu_entry, m0)) \/ Become(Page(_select_prev_menu_entry, m0))
       \/ Become(_select_last_menu_entry(m0)) \/ Become(_select_first_menu_entry(m0))
    /\ UNCHANGED <<w, disk>>

\* Space prefers to change the node, return to enter it.
SpaceKey ==
    /\ In("menu") /\ ui.done < MaxDone[w.file]
    /\ IF _changeable(m0, Selected_(ui)) THEN \E m \in _change_node(m0, Selected_(ui)) : Become(m)
       ELSE Become(_enter_menu(m0, Selected_(ui)))
    /\ UNCHANGED <<w, disk>>

ReturnKey ==
    /\ In("menu") /\ ui.done < MaxDone[w.file]
    /\ IF Enterable(m0, Selected_(ui)) THEN Become(_enter_menu(m0, Selected_(ui)))
       ELSE \E m \in _change_node(m0, Selected_(ui)) : Become(m)
    /\ UNCHANGED <<w, disk>>

TriKey ==
    /\ In("menu") /\ ui.done < MaxDone[w.file]
    /\ \E v \in {0, 1, 2} : Become(_set_sel_node_tri_val(m0, v))
    /\ UNCHANGED <<w, disk>>

LeaveKey ==
    /\ In("menu") /\ ui.menu # Top
    /\ Become(_leave_menu(m0))
    /\ UNCHANGED <<w, disk>>

ShowAllKey ==
    /\ In("menu")
    /\ Become(_toggle_show_all(m0))
    /\ UNCHANGED <<w, disk>>

ShowHelpKey ==
    /\ In("menu") /\ ui.done < MaxDone[w.file]
    /\ Become(_resize_main([m0 EXCEPT !.help = ~@, !.done = @ + 1]))
    /\ UNCHANGED <<w, disk>>

ResizeKey ==
    /\ In("menu") /\ ui.done < MaxDone[w.file]
    /\ \E screen \in Screens : Become(_resize_main([m0 EXCEPT !.screen = screen, !.done = @ + 1]))
    /\ UNCHANGED <<w, disk>>

----------------------------------------------------------------------------
(* The dialog for jumps.  The main display only learns of a new size of the *)
(* terminal when the dialog is left.                                        *)

JumpDialog ==
    /\ In("menu") /\ ui.done < MaxDone[w.file]
    /\ \E matches \in Searched :
         ui' = [ui EXCEPT !.mode = "jump", !.done = @ + 1,
                          !.jump = [NoJump EXCEPT !.matches = matches, !.screen = ui.screen]]
    /\ UNCHANGED storeVars

\* Bounds the position in a list without matches.
LostAt == 1

JumpMove ==
    /\ In("jump") /\ ui.jump.sel \in -LostAt..(LostAt + Len(ui.jump.matches))
    /\ \/ Become(select_next_match(m0)) \/ Become(select_prev_match(m0))
       \/ Become(Page(select_next_match, m0)) \/ Become(Page(select_prev_match, m0))
       \/ Become(select_last_match(m0)) \/ Become(select_first_match(m0))
    /\ UNCHANGED <<w, disk>>

JumpSearch ==
    /\ In("jump")
    /\ \E matches \in Searched \ {ui.jump.matches} :
         ui' = [ui EXCEPT !.jump = [NoJump EXCEPT !.matches = matches, !.screen = ui.jump.screen]]
    /\ UNCHANGED storeVars

JumpResize ==
    /\ In("jump")
    /\ \E screen \in Screens : Become(_resize_jump_to_dialog([m0 EXCEPT !.jump.screen = screen]))
    /\ UNCHANGED <<w, disk>>

LeaveJump(m) ==
    LET closed == [m EXCEPT !.screen = ui.jump.screen, !.jump = NoJump]
    IN  IF m.mode = "raised" THEN closed ELSE _resize_main([closed EXCEPT !.mode = "menu"])

JumpTo ==
    /\ In("jump") /\ ui.jump.matches # <<>>
    /\ Become(LeaveJump(_jump_to(m0, ui.jump.matches[ui.jump.sel + 1])))
    /\ UNCHANGED <<w, disk>>

JumpCancel ==
    /\ In("jump")
    /\ Become(LeaveJump(m0))
    /\ UNCHANGED <<w, disk>>

----------------------------------------------------------------------------
(* Files.                                                                   *)

\* Unsaved changes are only given up when the user says so.  The selected node must
\* be shown with the new values.
AfterLoad(object, name) ==
    LET m == [m0 EXCEPT !.user = object.user, !.conf = name, !.done = @ + 1,
                        !.changed = Unsaved(w, object)]
        all == ui.all \/ ~Has(Shown(m), Selected_(ui))
    IN  _update_menu([m EXCEPT !.all = all])

_load_dialog ==
    /\ In("menu") /\ ui.done < MaxDone[w.file]
    /\ \E name \in FileNames \cap DOMAIN disk :
       \E object \in {Read(w, kconf, disk[name])} :
       \E m \in {AfterLoad(object, name)} :
           ui' = [f \in DOMAIN ui |-> m[f]] /\ kconf' = object
    /\ UNCHANGED <<w, disk>>

\* A file that cannot be opened is reported, and its name asked for again.
SaveKey ==
    /\ In("menu") /\ ui.done < MaxDone[w.file]
    /\ \E name \in FileNames, lines \in {ConfigOf(w, user)} :
         \/ /\ disk' = Saved(disk, name, lines)
            /\ ui' = [ui EXCEPT !.conf = name, !.changed = FALSE, !.done = @ + 1]
         \/ /\ disk' = SaveFailed(disk, name, lines)
            /\ ui' = [ui EXCEPT !.done = @ + 1]
    /\ UNCHANGED <<w, kconf>>

SaveMinimalKey ==
    /\ In("menu") /\ ui.done < MaxDone[w.file]
    /\ \E name \in FileNames, lines \in {MinConfigOf(w, user)} :
         /\ disk' = Put(disk, name, lines)
         /\ ui' = [ui EXCEPT !.minconf = name, !.done = @ + 1]
    /\ UNCHANGED <<w, kconf>>

\* The interface before it is started and after it is closed.
Closed(mode) ==
    [menu |-> Top, shown |-> <<>>, sel |-> 0, scroll |-> 0, rows |-> <<>>, all |-> FALSE,
     help |-> FALSE, screen |-> 0, height |-> 0, conf |-> ".config", minconf |-> "defconfig",
     changed |-> FALSE, mode |-> mode, jump |-> NoJump, done |-> 0]

\* Without changes there is nothing to ask.
_quit_dialog ==
    LET leave(mode) == ui' = [Closed(mode) EXCEPT !.conf = ui.conf] IN
    /\ In("menu")
    /\ IF ~ui.changed THEN leave("unchanged") /\ UNCHANGED disk
       ELSE \/ leave("not saved") /\ UNCHANGED disk
            \/ \E lines \in {ConfigOf(w, user)} :
                 \/ leave("saved") /\ disk' = Saved(disk, ui.conf, lines)
                 \/ /\ ui.done < MaxDone[w.file]
                    /\ ui' = [ui EXCEPT !.done = @ + 1]
                    /\ disk' = SaveFailed(disk, ui.conf, lines)
    /\ UNCHANGED <<w, kconf>>

\* The configuration is loaded, and everything is shown if nothing is visible.
\* Nothing is started on a configuration without a node.
MenuStart ==
    /\ In("start")
    /\ \E object \in {Loaded(Made(w), ".config")}, screen \in Screens :
       \E all \in {ShownIn(w, object.user, FALSE, Top) = <<>>} :
         /\ ShownIn(w, object.user, all, Top) # <<>>
         /\ kconf' = object
         /\ ui' = _resize_main([Closed("menu") EXCEPT
                    !.shown = ShownIn(w, object.user, all, Top), !.all = all,
                    !.screen = screen, !.changed = Outdated(".config", object)])
    /\ UNCHANGED <<w, disk>>

MenuNext ==
    \/ MenuStart
    \/ MoveKey \/ SpaceKey \/ ReturnKey \/ TriKey \/ LeaveKey
    \/ ShowAllKey \/ ShowHelpKey \/ ResizeKey
    \/ JumpDialog \/ JumpMove \/ JumpSearch \/ JumpResize \/ JumpTo \/ JumpCancel
    \/ _load_dialog \/ SaveKey \/ SaveMinimalKey \/ _quit_dialog

\* Whatever files there are.
MenuSpec ==
    /\ ui = Closed("start") /\ \E t \in DOMAIN Worlds : w = Worlds[t]
    /\ [][MenuNext]_<<storeVars, ui>>

----------------------------------------------------------------------------
(* Properties.                                                              *)

\* The nodes on display are the ones that the values call for, the selected one is
\* among them, and on the screen; the match that return would jump to is on the
\* screen too.  So it is after any sequence of keys, loads and sizes.
ScreenIsRight ==
    /\ In("menu") =>
         /\ ui.shown = ShownIn(w, user, ui.all, ui.menu)
         /\ NodeOnScreen(ui)
    /\ In("jump") => MatchOnScreen(ui)

\* "If False, we don't bother showing the save-and-quit dialog": when it is not shown,
\* the values in memory are in the file, however they got there, or in the old file
\* after a save that failed.  When the dialog saves, they are in the file itself.
MenuLosesNothing ==
    /\ ui.mode = "unchanged" => ReadsAs(KeptUnder(ui.conf), user)
    /\ ui.mode = "saved" => ReadsAs(ui.conf, user)
=============================================================================
