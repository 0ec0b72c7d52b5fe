--------------------------------- MODULE KGui --------------------------------
(***************************************************************************)
(* guiconfig.py: a window with a tree of the menus, either all of them or  *)
(* one at a time.  The tree is a widget that keeps what it was given; menus *)
(* are put into it when they are opened, and all that is in it is detached, *)
(* labelled and attached again when a value changes.                       *)
(*                                                                         *)
(* An operation takes and returns the state of the window together with    *)
(* the user values, as g below.  An exception does not end the program but *)
(* the operation, with the display as it then is: failed says so until the *)
(* next update.  Scrolling is left out, except that it needs some row.     *)
(***************************************************************************)
EXTENDS KView, KNodes

LOCAL INSTANCE SequencesExt

VARIABLE win

Nothing == <<0>>        \* the place of no node
Places == {Top} \cup ToSet(Below(w))
Ancestors(p) == [i \in 1..(Len(p) - 1) |-> SubSeq(p, 1, i)]     \* without the top node
IsMenu(p) == NodeAt(p).list # <<>> /\ ~IsSymbol(NodeAt(p))

----------------------------------------------------------------------------
(* Which nodes are shown, and how.                                          *)

\* An invisible symbol is shown if something below it is.  The menu of a menu symbol
\* is only part of the menu around it if all menus are on display.
RECURSIVE ShownRec(_, _, _, _)
ShownRec(u, all, full, p) ==
    LET part(c) ==
          LET below == IF IsSymbol(NodeAt(c)) THEN ShownRec(u, all, full, c) ELSE <<>>
              inner == IF full \/ ~NodeAt(c).is_menuconfig THEN below ELSE <<>>
          IN  IF all \/ Visible(w, u, c) \/ below # <<>> THEN <<c>> \o inner ELSE <<>>
    IN  FlattenSeq([i \in DOMAIN Children(p) |-> part(Children(p)[i])])

_shown_full_nodes(g, p) == ShownRec(g.user, g.all, TRUE, p)
_shown_menu_nodes(g, p) == ShownRec(g.user, g.all, FALSE, p)

\* The node whose prompt is shown for the selection of a choice: the one at this
\* place of the choice if it is there.  No selection, "", has no nodes.
PromptedNodes(s) == SelectSeq(PlacesOf(w, <<"sym", s>>), LAMBDA q : NodeAt(q).prompt # <<>>)
Preferred(nodes, p) ==
    LET here == SelectSeq(nodes, LAMBDA q : Front(q) = p)
    IN  IF nodes = <<>> THEN Nothing ELSE IF here # <<>> THEN here[1] ELSE nodes[1]
SelectionShown(u, p) == Preferred(PromptedNodes(SelectedIn(w, u, NameAt(p))), p)

\* What a label tells of the values: whether one is new, what it is, which symbol is
\* selected, and whether a menu can be entered.
_node_str(g, p) ==
    LET node == NodeAt(p)
        of == IF IsSymbol(node) THEN w.syms[NameAt(p)].choice ELSE ""
    IN  [new |-> /\ IsSymbol(node) /\ node.prompt # <<>> /\ TypeAt(p) # "unknown"
                 /\ g.user.val[NameAt(p)] = <<>>
                 /\ of # "" => ChoiceTri(Fresh(w, g.user), of).v # 2,
         value |-> IF IsSymbol(node) /\ TypeAt(p) \in {"string", "int", "hex"}
                   THEN StrIn(w, g.user, p) ELSE "",
         selected |-> IF IsChoice(node) /\ TriIn(w, g.user, p) = 2
                      THEN SelectionShown(g.user, p) ELSE Nothing,
         arrow |-> IF ~(g.single /\ node.is_menuconfig) THEN ""
                   ELSE IF _shown_menu_nodes(g, p) # <<>> THEN "--->" ELSE "----"]

_img_tag(u, p) ==
    LET type == IF IsChoice(NodeAt(p)) THEN ChoiceType(Fresh(w, u), NameAt(p)).v
                ELSE SymType(Fresh(w, u), NameAt(p)).v
        values == OfferedIn(w, u, p)
        str == StrIn(w, u, p)
    IN  IF ~IsItem(p) \/ TypeAt(p) = "unknown" THEN <<"">>
        ELSE IF TypeAt(p) \notin BoolTri THEN <<"edit">>
        ELSE IF YModeIn(w, u, p)
             THEN <<IF SelectedIn(w, u, w.syms[NameAt(p)].choice) = NameAt(p)
                    THEN "selected" ELSE "not-selected">>
        ELSE IF Len(values) <= 1 THEN IF IsChoice(NodeAt(p)) THEN <<"">> ELSE <<str, "locked">>
        ELSE IF type = "bool" THEN <<str, "bool">>
        ELSE IF values = <<1, 2>> THEN <<str, "my">>
        ELSE <<str, "tri">>

Label(g, p) == [text |-> _node_str(g, p), image |-> _img_tag(g.user, p),
                invisible |-> g.all /\ ~Visible(w, g.user, p)]
JumpLabel(g, p) == [Label(g, p) EXCEPT !.invisible = ~Visible(w, g.user, p)]

----------------------------------------------------------------------------
(* The widget.  In single-menu mode the current menu is the root, Top.      *)

\* The rows that can be seen by scrolling.
RECURSIVE RowsBelow(_, _)
RowsBelow(g, p) ==
    FlattenSeq([i \in DOMAIN g.kids[p] |->
      LET c == g.kids[p][i] IN <<c>> \o (IF c \in g.open THEN RowsBelow(g, c) ELSE <<>>)])
Rows(g) == ToSet(RowsBelow(g, Top))

\* The items that one is attached below.
RECURSIVE Above(_, _)
Above(g, p) ==
    IF Len(p) < 2 \/ ~Contains(g.kids[Front(p)], p) THEN {}
    ELSE {Front(p)} \cup Above(g, Front(p))

\* see() opens what an item is attached below.  What is selected is only described.
_select(g, p) == [g EXCEPT !.focus = p, !.open = @ \cup Above(g, p)]

\* _add_to_tree, for a sequence of nodes: each becomes the last of its parent.  Nodes
\* that are only probed for are attached as they are.
Attached(g, nodes, probed, root) ==
    LET moved == nodes \o probed
        under(p) == SelectSeq(moved, LAMBDA q :
                      (IF Front(q) = root THEN Top ELSE Front(q)) = p)
    IN  [g EXCEPT
           !.kids = [p \in DOMAIN @ |-> SelectSeq(@[p], LAMBDA q : ~Contains(moved, q)) \o under(p)],
           !.labels = [p \in DOMAIN @ |-> IF Contains(nodes, p) THEN Label(g, p) ELSE @[p]]]

\* The nodes of a menu and of the open menus in it.
RECURSIVE Unfolded(_, _)
Unfolded(g, shown) ==
    FlattenSeq([i \in DOMAIN shown |->
      <<shown[i]>> \o (IF IsMenu(shown[i]) /\ shown[i] \in g.open
                       THEN Unfolded(g, _shown_full_nodes(g, shown[i])) ELSE <<>>)])
OpenNodes(g, menu) == Unfolded(g, _shown_full_nodes(g, menu))

\* A closed menu gets its first node, so that it can be opened.
FirstNodes(g, nodes) ==
    FlattenSeq([i \in DOMAIN nodes |->
      IF ~IsMenu(nodes[i]) \/ nodes[i] \in g.open THEN <<>>
      ELSE LET shown == _shown_menu_nodes(g, nodes[i]) IN IF shown = <<>> THEN shown ELSE <<shown[1]>>])
WithNodes(g, nodes) == Attached(g, nodes, FirstNodes(g, nodes), Top)
_build_full_tree(g, menu) == WithNodes(g, OpenNodes(g, menu))

_build_menu_tree(g) == Attached(g, _shown_menu_nodes(g, g.menu), <<>>, g.menu)

_update_tree(g) ==
    LET detached == [g EXCEPT !.kids = [p \in DOMAIN @ |-> <<>>], !.failed = FALSE]
    IN  IF g.single THEN _build_menu_tree(detached) ELSE _build_full_tree(detached, Top)

\* Slip: a menu is opened with what it had before.
ToggledOpenAsItWas(g, p) ==
    [g EXCEPT !.open = IF p \in g.open THEN @ \ {p} ELSE @ \cup {p}]

_tree_toggle_open(g, p) ==
    IF p \in g.open THEN [g EXCEPT !.open = @ \ {p}]
    ELSE LET built == IF IsSymbol(NodeAt(p)) THEN g ELSE _build_full_tree(g, p)
         IN  [built EXCEPT !.open = @ \cup {p}]

----------------------------------------------------------------------------
(* Changing values.                                                         *)

_update_jump_to_display(g) ==
    IF g.mode # "jump" THEN g
    ELSE [g EXCEPT !.jump.rows = g.jump.matches,
                   !.jump.labels = [i \in DOMAIN g.jump.matches |-> JumpLabel(g, g.jump.matches[i])]]

\* Some row must be there, for the scroll to be kept.
_set_val(g, p, v) ==
    LET str == IF TypeAt(p) \in BoolTri THEN TriStr[v + 1] ELSE v
        new == [g EXCEPT !.user = SetIn(w, @, NameAt(p), v), !.changed = TRUE, !.done = @ + 1]
    IN  IF str = StrIn(w, g.user, p) THEN g
        ELSE IF g.kids[Top] = <<>> THEN [new EXCEPT !.failed = TRUE]
        ELSE _update_jump_to_display(_update_tree(new))

_changeable(g, p) ==
    /\ IsItem(p)
    /\ NodeAt(p).prompt # <<>> /\ CondIn(w, g.user, NodeAt(p).prompt[1]) > 0
    /\ \/ TypeAt(p) \notin BoolTri
       \/ Len(OfferedIn(w, g.user, p)) > 1
       \/ YModeIn(w, g.user, p)

\* The outcomes of changing a node.  Strings are asked for, and a value that is not
\* one of those that can be assigned raises an exception.
_change_node(g, p) ==
    LET values == OfferedIn(w, g.user, p)
        i == SelectInSeq(values, LAMBDA v : v = TriIn(w, g.user, p))
    IN  IF ~_changeable(g, p) THEN {g}
        ELSE IF TypeAt(p) \notin BoolTri
             THEN {g} \cup {_set_val(g, p, s) : s \in EntriesIn(w, g.user, p)}
        ELSE IF i = 0 /\ Len(values) # 1 THEN {g}
        ELSE {_set_val(g, p, values[(i % Len(values)) + 1])}

_tree_set_val(g, p, v) ==
    IF IsItem(p) /\ v \in ToSet(OfferedIn(w, g.user, p)) THEN _set_val(g, p, v) ELSE g

----------------------------------------------------------------------------
(* Menus one at a time, and jumps.                                          *)

_enter_menu(g, menu) == _update_tree([g EXCEPT !.menu = menu])

_select_first(g) == _select(g, g.kids[Top][1])
_enter_menu_and_select_first(g, menu) ==
    _select_first(_enter_menu(g, menu))

_single_menu_mode_menu(g, p) ==
    g.single /\ NodeAt(p).is_menuconfig /\ _shown_menu_nodes(g, p) # <<>>

_leave_menu(g) ==
    IF g.menu = Top THEN g
    ELSE _select(_enter_menu(g, MenuOf(w, g.menu)), g.menu)

\* The menus from the first closed one down are put into the tree.
_load_parents(g, p) ==
    LET parents == Ancestors(p)
        i == SelectInSeq(parents, LAMBDA q : q \notin g.open)
    IN  IF i = 0 THEN g
        ELSE FoldLeft(LAMBDA a, q : IF IsSymbol(NodeAt(q)) THEN a ELSE _build_full_tree(a, q),
                      g, SubSeq(parents, i, Len(parents)))

_jump_to(g, p) ==
    _select(IF g.single THEN _enter_menu(g, MenuOf(w, p)) ELSE _load_parents(g, p), p)

\* Any row may be the one in the middle of the window, if the selected one is not
\* to be seen.
_loc_ref_item(g) == Rows(g)

\* The window jumps to that row in the other mode.
_do_tree_mode(g) ==
    LET other == [g EXCEPT !.single = ~@, !.done = @ + 1]
        at(p) == _jump_to(IF other.single THEN other ELSE _update_tree(other), p)
    IN  IF g.kids[Top] = <<>> THEN {[other EXCEPT !.failed = TRUE]}
        ELSE {at(p) : p \in _loc_ref_item(g)}

\* _vis_loc_ref_item finds no row that stays.
NoneStays(g, p) ==
    \A q \in UNION {ToSet(g.kids[a]) : a \in {Top} \cup Above(g, p)} : g.labels[q].invisible

\* Show-all stays on if nothing would be left.
_do_showall(g) ==
    LET other == [g EXCEPT !.all = ~@]
    IN  IF _shown_menu_nodes(other, IF g.single THEN g.menu ELSE Top) = <<>>
        THEN {[g EXCEPT !.all = TRUE]}
        ELSE (IF \E p \in _loc_ref_item(g) : NoneStays(g, p)
                THEN {[other EXCEPT !.failed = TRUE]} ELSE {})
             \cup (IF \E p \in _loc_ref_item(g) : ~NoneStays(g, p)
                   THEN {_update_tree(other)} ELSE {})
             \cup (IF g.kids[Top] = <<>> THEN {[other EXCEPT !.failed = TRUE]} ELSE {})

----------------------------------------------------------------------------
(* The main window.                                                         *)

g0 == win @@ [user |-> user]
In(mode) == win.mode = mode
Become(g) ==
    \E n \in {g} : /\ win' = [f \in DOMAIN win |-> n[f]]
                  /\ kconf' = [user |-> n.user, missing |-> kconf.missing]
                  /\ UNCHANGED <<w, disk>>

\* A row is selected with the mouse or the arrow keys.
Browse == In("main") /\ \E p \in Rows(win) : Become(_select(g0, p))

\* The widget has the focus on an item that is opened, and tells before it is open;
\* _tree_open then puts the menu into the tree.  That an item is open below which there
\* never is anything is left out.
OpenItem(g, p) ==
    LET built == IF g.single \/ IsSymbol(NodeAt(p)) THEN g ELSE _build_full_tree(g, p)
    IN  [built EXCEPT !.focus = p, !.open = IF NodeAt(p).list = <<>> THEN @ ELSE @ \cup {p}]

Indicator ==
    /\ In("main")
    /\ \E p \in Rows(win) :
         /\ win.kids[p] # <<>>
         /\ Become(IF p \in win.open THEN [g0 EXCEPT !.open = @ \ {p}, !.focus = p]
                   ELSE OpenItem(g0, p))

_tree_click ==
    /\ In("main") /\ win.done < MaxDone[w.file]
    /\ \E p \in Rows(win) : \E g \in _change_node(_select(g0, p), p) : Become(g)

_tree_enter ==
    LET p == win.focus IN
    /\ In("main") /\ win.done < MaxDone[w.file] /\ p # Nothing
    /\ IF win.kids[p] # <<>> THEN Become(_tree_toggle_open(g0, p))
       ELSE IF _single_menu_mode_menu(g0, p) THEN Become(_enter_menu_and_select_first(g0, p))
       ELSE \E g \in _change_node(g0, p) : Become(g)

_tree_toggle ==
    LET p == win.focus IN
    /\ In("main") /\ win.done < MaxDone[w.file] /\ p # Nothing
    /\ IF _changeable(g0, p) THEN \E g \in _change_node(g0, p) : Become(g)
       ELSE IF _single_menu_mode_menu(g0, p) THEN Become(_enter_menu_and_select_first(g0, p))
       ELSE win.kids[p] # <<>> /\ Become(_tree_toggle_open(g0, p))

\* By default the key closes an open item, or else goes to the one above it.
_tree_left_key ==
    LET p == win.focus IN
    /\ In("main")
    /\ IF win.single THEN Become(_leave_menu(g0))
       ELSE /\ p # Nothing
            /\ IF p \in win.open /\ win.kids[p] # <<>> THEN Become([g0 EXCEPT !.open = @ \ {p}])
               ELSE Above(win, p) # {} /\ Become(_select(g0, Front(p)))

\* By default the key opens an item.
_tree_right_key ==
    LET p == win.focus IN
    /\ In("main") /\ p # Nothing
    /\ IF _single_menu_mode_menu(g0, p) THEN Become(_enter_menu_and_select_first(g0, p))
       ELSE Become(OpenItem(g0, p))

TriKey ==
    /\ In("main") /\ win.done < MaxDone[w.file] /\ win.focus # Nothing
    /\ \E v \in {0, 1, 2} : Become(_tree_set_val(g0, win.focus, v))

ShowAll == In("main") /\ \E g \in _do_showall(g0) : Become(g)

TreeMode == In("main") /\ win.done < MaxDone[w.file] /\ \E g \in _do_tree_mode(g0) : Become(g)

----------------------------------------------------------------------------
(* The dialog for jumps, in which values are changed too.                   *)

NoJump == [matches |-> <<>>, rows |-> <<>>, labels |-> <<>>, sel |-> Nothing, focus |-> Nothing]

_jump_to_dialog ==
    /\ In("main") /\ win.done < MaxDone[w.file]
    /\ Become([g0 EXCEPT !.mode = "jump", !.jump = NoJump, !.done = @ + 1])

\* The widget keeps the focus where it was if there is no match.
_update_jump_to_matches ==
    /\ In("jump")
    /\ \E names \in Searches : \E matches \in {FoundBy(w, names)} :
       LET first == IF matches = <<>> THEN Nothing ELSE matches[1] IN
         Become(_update_jump_to_display(
           [g0 EXCEPT !.jump.matches = matches, !.jump.sel = first,
                      !.jump.focus = IF matches = <<>> THEN @ ELSE first]))

\* A regular expression that is not one clears the tree, and no more.
BadExpression ==
    /\ In("jump")
    /\ Become([g0 EXCEPT !.jump.rows = <<>>, !.jump.labels = <<>>, !.jump.sel = Nothing])

JumpBrowse ==
    /\ In("jump")
    /\ \E p \in ToSet(win.jump.rows) : Become([g0 EXCEPT !.jump.sel = p, !.jump.focus = p])

\* A click on an image, space, or n, m or y.
JumpChange ==
    /\ In("jump") /\ win.done <= MaxDone[w.file]
    /\ \/ \E p \in ToSet(win.jump.rows) :
          \E g \in _change_node([g0 EXCEPT !.jump.sel = p, !.jump.focus = p], p) : Become(g)
       \/ win.jump.focus # Nothing /\ \E g \in _change_node(g0, win.jump.focus) : Become(g)
       \/ win.jump.focus # Nothing /\ \E v \in {0, 1, 2} : Become(_tree_set_val(g0, win.jump.focus, v))

\* What would not be shown is shown by turning show-all on.
JumpToSelected ==
    LET p == win.jump.sel
        all == win.all \/ ~Contains(_shown_menu_nodes(g0, MenuOf(w, p)), p)
        shown == [g0 EXCEPT !.all = all, !.mode = "main", !.jump = NoJump]
    IN  /\ In("jump") /\ p # Nothing
        /\ Become(_jump_to(IF all /\ ~win.all /\ ~win.single THEN _update_tree(shown) ELSE shown, p))

JumpCancel == In("jump") /\ Become([g0 EXCEPT !.mode = "main", !.jump = NoJump])

----------------------------------------------------------------------------
(* Files.                                                                   *)

\* Unsaved changes are only given up when the user says so.
_open ==
    /\ In("main") /\ win.done < MaxDone[w.file]
    /\ \E name \in FileNames \cap DOMAIN disk :
       \E object \in {Read(w, kconf, disk[name])} :
       \E g \in {[g0 EXCEPT !.user = object.user, !.conf = name, !.done = @ + 1,
                            !.changed = Unsaved(w, object)]} :
       \E n \in {_update_tree([g EXCEPT !.all = @ \/ (g.single /\ _shown_menu_nodes(g, g.menu) = <<>>)])} :
         win' = [f \in DOMAIN win |-> n[f]] /\ kconf' = object
    /\ UNCHANGED <<w, disk>>

\* Slip: that the file could not be written goes unnoticed.
SaveNeverFails(name, saved) ==
    \E lines \in {ConfigOf(w, user)} :
      /\ disk' \in {Saved(disk, name, lines), SaveFailed(disk, name, lines)}
      /\ win' = saved

\* _save and _save_as: a file that cannot be opened is reported.  Only the first of
\* the two takes note that the configuration is saved.
Save(name, saved) ==
    \E lines \in {ConfigOf(w, user)} :
      \/ disk' = Saved(disk, name, lines) /\ win' = saved
      \/ disk' = SaveFailed(disk, name, lines) /\ win' = [win EXCEPT !.done = @ + 1]

_save ==
    /\ In("main") /\ win.done < MaxDone[w.file]
    /\ Save(win.conf, [win EXCEPT !.changed = FALSE, !.done = @ + 1])
    /\ UNCHANGED <<w, kconf>>

_save_as ==
    /\ In("main") /\ win.done < MaxDone[w.file]
    /\ \E name \in FileNames : Save(name, [win EXCEPT !.conf = name, !.done = @ + 1])
    /\ UNCHANGED <<w, kconf>>

_save_minimal ==
    /\ In("main") /\ win.done < MaxDone[w.file]
    /\ \E name \in FileNames, lines \in {MinConfigOf(w, user)} :
         /\ disk' = Put(disk, name, lines)
         /\ win' = [win EXCEPT !.minconf = name, !.done = @ + 1]
    /\ UNCHANGED <<w, kconf>>

\* The window before it is there and after it is gone.
Closed(mode) ==
    [kids |-> <<>>, labels |-> <<>>, open |-> {}, focus |-> Nothing,
     single |-> FALSE, all |-> FALSE, menu |-> Top, conf |-> ".config", minconf |-> "defconfig",
     changed |-> FALSE, failed |-> FALSE, mode |-> mode, jump |-> NoJump, done |-> 0]

\* Without changes there is nothing to ask.
_on_quit ==
    LET leave(mode) == [Closed(mode) EXCEPT !.conf = win.conf] IN
    /\ In("main")
    /\ IF ~win.changed THEN win' = leave("unchanged") /\ UNCHANGED disk
       ELSE \/ win' = leave("not saved") /\ UNCHANGED disk
            \/ win.done < MaxDone[w.file] /\ Save(win.conf, leave("saved"))
    /\ UNCHANGED <<w, kconf>>

\* menuconfig(): everything is shown if nothing is visible, and the first row selected.
GuiStart ==
    /\ In("start")
    /\ \E object \in {Loaded(Made(w), ".config")} :
       \E g \in {[Closed("main") EXCEPT !.kids = [p \in Places |-> <<>>],
                    !.labels = [p \in Places \ {Top} |-> Nothing],
                    !.changed = Outdated(".config", object)] @@ [user |-> object.user]} :
       \E n \in {_update_tree([g EXCEPT !.all = _shown_menu_nodes(g, Top) = <<>>])} :
         /\ n.kids[Top] # <<>>
         /\ kconf' = object
         /\ win' = [f \in DOMAIN win |-> _select(n, n.kids[Top][1])[f]]
    /\ UNCHANGED <<w, disk>>

GuiNext ==
    \/ GuiStart
    \/ Browse \/ Indicator \/ _tree_click \/ _tree_enter \/ _tree_toggle
    \/ _tree_left_key \/ _tree_right_key \/ TriKey \/ ShowAll \/ TreeMode
    \/ _jump_to_dialog \/ _update_jump_to_matches \/ BadExpression \/ JumpBrowse
    \/ JumpChange \/ JumpToSelected \/ JumpCancel
    \/ _open \/ _save \/ _save_as \/ _save_minimal \/ _on_quit

----------------------------------------------------------------------------
(* Properties.                                                              *)

\* The rows that the values, the open items and the mode call for.
RECURSIVE FullRows(_, _)
FullRows(g, menu) ==
    LET shown == _shown_full_nodes(g, menu)
        unfolded(p) == \A i \in (Len(menu) + 1)..(Len(p) - 1) : SubSeq(p, 1, i) \in g.open
        seen == SelectSeq(shown, unfolded)
    IN  FlattenSeq([i \in DOMAIN seen |->
          <<seen[i]>> \o (IF IsMenu(seen[i]) /\ seen[i] \in g.open
                          THEN FullRows(g, seen[i]) ELSE <<>>)])

MenuRows(g) ==
    SelectSeq(_shown_menu_nodes(g, g.menu), LAMBDA p :
      \A i \in (Len(g.menu) + 1)..(Len(p) - 1) : SubSeq(p, 1, i) \in g.open)

\* Menus are put into the tree when they are opened, jumped into or updated, and
\* items keep what they were given.  Still the tree has the rows that the values call
\* for, each with the label that they call for, and a menu can be opened if there is
\* something in it; so have the matches of a search.
TreeShowsTheMenu ==
    win.mode \in {"main", "jump"} /\ ~win.failed =>
      /\ RowsBelow(win, Top) = IF win.single THEN MenuRows(g0) ELSE FullRows(g0, Top)
      /\ \A p \in Rows(win) :
           /\ win.labels[p] = Label(g0, p)
           /\ ~win.single /\ IsMenu(p) => (win.kids[p] = <<>>) = (_shown_menu_nodes(g0, p) = <<>>)
      /\ \A i \in DOMAIN win.jump.rows : win.jump.labels[i] = JumpLabel(g0, win.jump.rows[i])

\* "If False, we don't bother showing the save-and-quit dialog": as in KMenu.
WindowLosesNothing ==
    /\ win.mode = "unchanged" => ReadsAs(KeptUnder(win.conf), user)
    /\ win.mode = "saved" => ReadsAs(win.conf, user)
=============================================================================
