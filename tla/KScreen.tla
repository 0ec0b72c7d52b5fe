------------------------------- MODULE KScreen -------------------------------
(***************************************************************************)
(* The list of nodes of menuconfig.py, and the list of matches of its      *)
(* dialog for jumps: which entry is selected, and which ones are on the    *)
(* screen.  m is the state of the interface, as in KMenu.                  *)
(***************************************************************************)
EXTENDS Integers, Sequences

_SHOW_HELP_HEIGHT == 8
_SCROLL_OFFSET == 5
MainHelpHeight == 5
JumpHelpHeight == 5

AtLeast(low, n) == IF n < low THEN low ELSE n
AtMost(high, n) == IF n > high THEN high ELSE n
Raised(m) == [m EXCEPT !.mode = "raised"]

\* The height of the window with the nodes, and of the one with the matches of a search.
MenuHeight(m) ==
    AtLeast(1, m.screen - (IF m.help THEN _SHOW_HELP_HEIGHT ELSE MainHelpHeight) - 3)
MatchesHeight(m) == AtLeast(1, m.jump.screen - JumpHelpHeight - 4)

_max_scroll(nodes, height) == AtLeast(0, Len(nodes) - height)

----------------------------------------------------------------------------
(* The nodes.                                                               *)

_center_vertically(m) ==
    [m EXCEPT !.scroll = AtMost(_max_scroll(m.shown, m.height), AtLeast(0, m.sel - m.height \div 2))]

\* Slip: the scroll stays.
ResizeKeepsScroll(m) == [m EXCEPT !.height = MenuHeight(m)]

\* The scroll only changes when the selected node would fall off the end.
_resize_main(m) ==
    LET height == MenuHeight(m)
    IN  [m EXCEPT !.height = height,
                  !.scroll = IF m.sel - @ >= height THEN m.sel - height + 1 ELSE @]

_select_next_menu_entry(m) ==
    IF m.sel >= Len(m.shown) - 1 THEN m
    ELSE [m EXCEPT !.sel = @ + 1,
                   !.scroll = IF /\ m.sel + 1 >= @ + m.height - _SCROLL_OFFSET
                                 /\ @ < _max_scroll(m.shown, m.height) THEN @ + 1 ELSE @]

_select_prev_menu_entry(m) ==
    IF m.sel = 0 THEN m
    ELSE [m EXCEPT !.sel = @ - 1,
                   !.scroll = IF m.sel - 1 < @ + _SCROLL_OFFSET THEN AtLeast(0, @ - 1) ELSE @]

_select_last_menu_entry(m) ==
    [m EXCEPT !.sel = Len(m.shown) - 1, !.scroll = _max_scroll(m.shown, m.height)]

_select_first_menu_entry(m) == [m EXCEPT !.sel = 0, !.scroll = 0]

\* Other nodes are shown, the i-th of which is selected, if possible on this row.
Placed(m, shown, i, row) ==
    [m EXCEPT !.shown = shown, !.sel = i, !.scroll = AtLeast(0, i - row)]

\* The selected node stays selected, on the same row if possible.
Reselected(m, shown, i) ==
    IF i < 0 THEN Raised(m) ELSE Placed(m, shown, i, m.sel - m.scroll)

----------------------------------------------------------------------------
(* The matches of a search.  The positions in a list of no matches are      *)
(* harmless.                                                                *)

select_next_match(m) ==
    LET j == m.jump IN
    IF j.sel = Len(j.matches) - 1 THEN m
    ELSE [m EXCEPT !.jump.sel = @ + 1,
                   !.jump.scroll = IF /\ j.sel + 1 >= @ + MatchesHeight(m) - _SCROLL_OFFSET
                                      /\ @ < _max_scroll(j.matches, MatchesHeight(m))
                                   THEN @ + 1 ELSE @]

select_prev_match(m) ==
    LET j == m.jump IN
    IF j.sel = 0 THEN m
    ELSE [m EXCEPT !.jump.sel = @ - 1,
                   !.jump.scroll = IF j.sel - 1 < @ + _SCROLL_OFFSET THEN AtLeast(0, @ - 1) ELSE @]

_resize_jump_to_dialog(m) ==
    LET j == m.jump
    IN  [m EXCEPT !.jump.scroll = IF j.sel - @ >= MatchesHeight(m)
                                  THEN j.sel - MatchesHeight(m) + 1 ELSE @]

select_last_match(m) ==
    [m EXCEPT !.jump.sel = Len(m.jump.matches) - 1,
              !.jump.scroll = _max_scroll(m.jump.matches, MatchesHeight(m))]

select_first_match(m) == [m EXCEPT !.jump.sel = 0, !.jump.scroll = 0]

\* One key moves by six entries, _PG_JUMP.
Page(Move(_), m) == Move(Move(Move(Move(Move(Move(m))))))

----------------------------------------------------------------------------
\* The selected entry is one of the list, and on the screen.
OnScreen(list, sel, scroll, height) ==
    /\ sel \in 0..(Len(list) - 1)
    /\ scroll >= 0 /\ sel - scroll \in 0..(height - 1)

NodeOnScreen(m) == OnScreen(m.shown, m.sel, m.scroll, m.height)

\* The match that return would jump to.
MatchOnScreen(m) ==
    m.jump.matches # <<>> => OnScreen(m.jump.matches, m.jump.sel, m.jump.scroll, MatchesHeight(m))
=============================================================================
