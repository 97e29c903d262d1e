-------------------------------- MODULE Window --------------------------------
(***************************************************************************)
(* A window of window.c in use: the owner of its list sets the contents    *)
(* and removes rows, the user moves and searches, the terminal is resized, *)
(* and update_window of ui_curses.c draws the rows again when the window   *)
(* says that it changed.  All of it happens in the main thread.            *)
(***************************************************************************)
EXTENDS WindowOps

CONSTANTS
    MaxRows,      \* bound on the rows of a list
    NrRows,       \* the heights that a window may be given
    MaxStep,      \* bound on the rows of one window_up or window_down
    StackValues   \* what sel_nr of window_set_sel may be before it is counted

ASSUME SizesAssumption ==
    /\ MaxRows \in Nat /\ NrRows \subseteq Int /\ MaxStep \in Nat
    /\ StackValues \subseteq Int

VARIABLES
    w,       \* the struct window and the length of its list
    screen,  \* what the last update_window has drawn
    doubt    \* history: what window.c may have lost, see LosesSelection

vars == <<w, screen, doubt>>

Init ==
    /\ w = NewWindow
    /\ screen = View(w)
    /\ doubt = "none"

(* What takes the selection or top off the screen, because window.c counts *)
(* in an uninitialised variable (window_set_sel), or goes forward without  *)
(* looking for the end of the list (window_goto_pos): only when the list   *)
(* ends above the line it goes to.                                         *)
LosesSelection(op) ==
    \/ op \in {"load", "search"}
    \/ op = "page_bottom" /\ w.top + (w.nr_rows - 1) > w.n
    \/ op = "page_middle" /\ w.top + w.nr_rows \div 2 > w.n

(* window_goto_bottom asks for a redraw only when the selection moved.     *)
MovesRowsOnly(op) == op = "goto_bottom" /\ w.sel = w.n

(* In doubt are "rows", what is drawn until the next redraw, or the        *)
(* "selection", and with it all that is computed from it, until the list   *)
(* is replaced.                                                            *)
DoubtAfter(op) ==
    CASE op \in {"set_empty", "set_contents"} -> "none"
      [] LosesSelection(op) -> "selection"
      [] MovesRowsOnly(op) /\ doubt = "none" -> "rows"
      [] OTHER -> doubt

Do(op, new) == w' = new /\ doubt' = DoubtAfter(op) /\ UNCHANGED screen

-----------------------------------------------------------------------------
(* The owner of the list.                                                  *)

Empty == Do("set_empty", SetEmpty(w))
Contents == \E n \in 0 .. MaxRows : Do("set_contents", SetContents(w, n))
Vanish == \E p \in 1 .. w.n : Do("row_vanishes", RowVanishes(w, p))

(* browser_up and browser_reload: load a list, then select a row of it.    *)
Load ==
    \E n \in 0 .. MaxRows : \E p \in 1 .. n : \E init \in StackValues :
        Do("load", SetSel(SetContents(w, n), p, init))

(* A search selects a row wherever the window is.                          *)
Search ==
    \E p \in 1 .. w.n : \E init \in StackValues :
        Do("search", SetSel(w, p, init))

Resize == \E n \in NrRows : Do("resize", SetNrRows(w, n))

-----------------------------------------------------------------------------
(* The user.                                                               *)

MoveUp == \E rows \in 1 .. MaxStep : Do("up", Up(w, rows))
MoveDown == \E rows \in 1 .. MaxStep : Do("down", Down(w, rows))

Jump ==
    \/ Do("goto_top", GotoTop(w))
    \/ Do("goto_bottom", GotoBottom(w))

Page ==
    \/ Do("page_up", PageUp(w))
    \/ Do("half_page_up", HalfPageUp(w))
    \/ Do("page_down", PageDown(w))
    \/ Do("half_page_down", HalfPageDown(w))

Scroll ==
    \/ Do("scroll_down", ScrollDown(w))
    \/ Do("scroll_up", ScrollUp(w))

Pick ==
    \/ Do("page_top", PageTop(w))
    \/ Do("page_bottom", PageBottom(w))
    \/ Do("page_middle", PageMiddle(w))

Redraw ==
    /\ w.changed
    /\ w' = [w EXCEPT !.changed = FALSE]
    /\ screen' = View(w)
    /\ doubt' = IF doubt = "rows" THEN "none" ELSE doubt

Next == \/ Empty \/ Contents \/ Vanish \/ Load \/ Search \/ Resize
        \/ MoveUp \/ MoveDown \/ Jump \/ Page \/ Scroll \/ Pick
        \/ Redraw

Spec == Init /\ [][Next]_vars

-----------------------------------------------------------------------------
(* The iterators point to rows of the list, or to its head: window_up,     *)
(* window_row_vanishes and the others count no further.  Whether the rows  *)
(* are still allocated is not said: a row leaves the list in the step in   *)
(* which window_row_vanishes takes the iterators off it.                   *)
TypeOK == w \in Windows /\ doubt \in {"none", "rows", "selection"}

(* A window with rows shows some of them and has one selected, and that is *)
(* on the screen, after every sequence of functions of window.c but the    *)
(* ones that LosesSelection names, which TopNotEmpty is about.             *)
SelVisible == doubt # "selection" => Visible(w)

(* What window_set_sel asserts: a list with a row to select is shown from  *)
(* one of its rows on.                                                     *)
TopNotEmpty == w.n > 0 => w.top # 0

(* Whatever moved the rows or the selection has told update_window, but    *)
(* for a window_goto_bottom that found the last row selected.              *)
ScreenCurrent == doubt = "none" /\ ~w.changed => screen = View(w)

(* The user cannot scroll past the end: no movement leaves more empty lines*)
(* at the bottom than there were.                                          *)
EmptyLines(win) == Greater(0, win.top + win.nr_rows - 1 - win.n)
NoNewEmptyLines ==
    [][/\ doubt # "selection"
       /\ MoveUp \/ MoveDown \/ Jump \/ Page \/ Scroll
       => w'.top = 1 \/ EmptyLines(w') <= EmptyLines(w)]_vars

(* A step of window_up or window_down that moves the selection leaves      *)
(* scroll_offset rows, or half a window, between it and the edge it moved  *)
(* towards, where the list has as many.                                    *)
OffsetKept ==
    [][doubt # "selection" =>
       /\ MoveUp /\ w'.sel # w.sel =>
            w'.sel - w'.top >= Lesser(NrAbove(w, w'.sel),
                                      Lesser(ScrollOffset, w.nr_rows \div 2))
       /\ MoveDown /\ w'.sel # w.sel =>
            w'.top + w.nr_rows - 1 - w'.sel >=
                Lesser(NrBelow(w, w'.sel),
                       Lesser(ScrollOffset, (w.nr_rows - 1) \div 2))]_vars
=============================================================================
