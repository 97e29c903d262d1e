------------------------------ MODULE WindowOps ------------------------------
(***************************************************************************)
(* window.c: a view of nr_rows lines on a list of n rows that somebody     *)
(* else owns.  An iterator is a position: 0 is the list head, p > 0 the    *)
(* p-th row.  get_next and get_prev go round through the head and return 0 *)
(* exactly when they arrive there.  Every function of window.c is an       *)
(* operator from the window to the window it leaves.                       *)
(*                                                                         *)
(* window_new leaves the callback selectable NULL and nothing sets it, so  *)
(* every row is selectable, and the loops that look for a selectable row   *)
(* end where they begin.                                                   *)
(*                                                                         *)
(* A definition under the comment "Fault" is no part of the model: it is   *)
(* the definition after it with a plausible bug.                           *)
(***************************************************************************)
EXTENDS Integers

CONSTANT ScrollOffset      \* the option scroll_offset

ASSUME ScrollOffsetAssumption == ScrollOffset \in Nat

(* head is FALSE for a window without a list (head.data0 = NULL); changed  *)
(* asks update_window to draw the window again.                            *)
NewWindow == [n |-> 0, head |-> FALSE, top |-> 0, sel |-> 0,
              nr_rows |-> 1, changed |-> TRUE]

Positions(w) == 0 .. w.n

(* The iterators point into the list.                                      *)
Windows ==
    {w \in [n : Nat, head : BOOLEAN, top : Nat, sel : Nat,
            nr_rows : Nat \ {0}, changed : BOOLEAN] :
        /\ w.top \in Positions(w) /\ w.sel \in Positions(w)
        /\ w.n > 0 => w.head}

(* What update_window shows: from top on, with sel highlighted.            *)
View(w) == [n |-> w.n, top |-> w.top, sel |-> w.sel, nr_rows |-> w.nr_rows]

(* A window with rows shows some of them, and the selected one.            *)
Visible(w) ==
    w.n > 0 => w.top # 0 /\ w.sel \in w.top .. w.top + w.nr_rows - 1

Lesser(a, b) == IF a < b THEN a ELSE b
Greater(a, b) == IF a > b THEN a ELSE b

-----------------------------------------------------------------------------
(* Iterators.                                                              *)

Forward(w, p, k) == (p + k) % (w.n + 1)      \* k calls of get_next
Back(w, p, k) == (p - k) % (w.n + 1)         \* k calls of get_prev
Distance(w, p, q) == (q - p) % (w.n + 1)     \* calls of get_next from p to q

(* How often get_prev and get_next return 1 from p on.                     *)
NrAbove(w, p) == IF p = 0 THEN w.n ELSE p - 1
NrBelow(w, p) == w.n - p

(* New places for the iterators.                                           *)
Moved(w, top, sel) == [w EXCEPT !.top = top, !.sel = sel]

(* sel_changed() when sel is not what it was in old.                       *)
SelChanged(w) == [w EXCEPT !.changed = TRUE]
SelChangedFrom(old, w) == IF w.sel # old.sel THEN SelChanged(w) ELSE w

-----------------------------------------------------------------------------
(* Contents and size.                                                      *)

SetEmpty(w) ==
    SelChanged([w EXCEPT !.n = 0, !.head = FALSE, !.top = 0, !.sel = 0])

SetContents(w, n) ==
    LET first == IF n = 0 THEN 0 ELSE 1
    IN  SelChanged([w EXCEPT !.n = n, !.head = TRUE,
                             !.top = first, !.sel = first])

(* window_changed: the loop that should fill empty lines at the bottom     *)
(* compares the wrong way round and never runs.                            *)
WindowChanged(w) ==
    IF ~w.head THEN w
    ELSE [w EXCEPT !.changed = TRUE,
                   !.top = IF w.sel < w.top THEN w.sel
                           ELSE Greater(w.top, w.sel - w.nr_rows + 1)]

SetNrRows(w, nr_rows) ==
    IF nr_rows < 1 THEN w
    ELSE SelChanged(WindowChanged([w EXCEPT !.nr_rows = nr_rows]))

(* Fault: only the selection leaves the row that vanishes.                 *)
RowVanishesUnderTop(w, p) ==
    LET sel == IF w.sel # p THEN w.sel ELSE IF p < w.n THEN p + 1 ELSE p - 1
        Shift(q) == IF q > p THEN q - 1 ELSE q
    IN  [w EXCEPT !.n = @ - 1, !.top = Shift(@), !.sel = Shift(sel),
                  !.changed = TRUE]

(* window_row_vanishes for row p, followed by the list_del of its owner:   *)
(* top and sel leave the row for the next one, or the one before, or the   *)
(* head; the iterators of the rows after p become positions one less.      *)
RowVanishes(w, p) ==
    LET Leave(q) == IF q # p THEN q ELSE IF p < w.n THEN p + 1 ELSE p - 1
        Shift(q) == IF q > p THEN q - 1 ELSE q
    IN  [w EXCEPT !.n = @ - 1, !.top = Shift(Leave(@)), !.sel = Shift(Leave(@)),
                  !.changed = TRUE]

-----------------------------------------------------------------------------
(* Moving the selection.                                                   *)

Up(w, rows) ==
    LET buffer == Distance(w, w.top, w.sel)
        sel_up == Lesser(rows, NrAbove(w, w.sel))
        sel == Back(w, w.sel, sel_up)
        upper_bound == Lesser(IF sel_up = 0 THEN buffer + rows ELSE ScrollOffset,
                              w.nr_rows \div 2)
        actual_offset == Lesser(upper_bound, NrAbove(w, sel))
        top_up == Greater(0, actual_offset + sel_up - buffer)
        new == Moved(w, Back(w, w.top, top_up), sel)
    IN  IF sel_up > 0 \/ actual_offset > 0 THEN SelChanged(new) ELSE new

(* Fault: the last line is not among those between sel and the bottom.     *)
DownOffByOne(w, rows) ==
    LET buffer == w.nr_rows - Distance(w, w.top, w.sel)
        sel_down == Lesser(rows, NrBelow(w, w.sel))
        sel == w.sel + sel_down
        actual_offset == Lesser(Lesser(ScrollOffset, (w.nr_rows - 1) \div 2),
                                NrBelow(w, sel))
        top_down == Greater(0, actual_offset + sel_down - buffer)
    IN  SelChanged(Moved(w, Forward(w, w.top, top_down), sel))

Down(w, rows) ==
    LET buffer == w.nr_rows - 1 - Distance(w, w.top, w.sel)
        sel_down == Lesser(rows, NrBelow(w, w.sel))
        sel == w.sel + sel_down
        upper_bound == Lesser(IF sel_down = 0 THEN buffer + rows ELSE ScrollOffset,
                              (w.nr_rows - 1) \div 2)
        actual_offset == Greater(0, Lesser(upper_bound, NrBelow(w, sel)))
        top_down == Greater(0, actual_offset + sel_down - buffer)
        new == Moved(w, Forward(w, w.top, top_down), sel)
    IN  IF sel_down > 0 \/ actual_offset > 0 THEN SelChanged(new) ELSE new

(* window_set_sel: sel_nr starts from whatever is on the stack, and top_nr *)
(* from 0 whatever row is at the top.                                      *)
SetSel(w, p, sel_nr_init) ==
    LET sel_nr == sel_nr_init + p - 1
        off_up == Lesser(ScrollOffset, w.nr_rows \div 2)
        off_down == Lesser(ScrollOffset, (w.nr_rows - 1) \div 2)
        lines_below == w.nr_rows - 1 - sel_nr
        below == NrBelow(w, p)
        scrolled == Greater(0, - lines_below)
        offset_missing ==       \* and the rows after those already counted
            CASE lines_below <= 0 -> Lesser(off_down, below)
              [] lines_below > 0 /\ lines_below <= below ->
                    Lesser(off_down - lines_below, below - lines_below)
              [] OTHER -> 0
    IN  IF p = w.sel THEN w
        ELSE SelChanged(Moved(w,
                IF sel_nr < off_up THEN Forward(w, 0, 1)
                ELSE Forward(w, w.top, scrolled + Greater(0, offset_missing)),
                p))

-----------------------------------------------------------------------------
(* Jumps and pages.                                                        *)

GotoTop(w) ==
    LET first == Forward(w, 0, 1)
    IN  SelChangedFrom(w, Moved(w, first, first))

GotoBottom(w) ==
    SelChangedFrom(w, Moved(w, Greater(Lesser(1, w.n), w.n - w.nr_rows + 1),
                            w.n))

(* sel and top move up together, until one of them is the first row.       *)
LinesUp(w, lines) ==
    LET k == Lesser(lines, Lesser(NrAbove(w, w.sel), NrAbove(w, w.top)))
    IN  SelChanged(Moved(w, Back(w, w.top, k), Back(w, w.sel, k)))

WindowBottom(w) == w.top + Lesser(w.nr_rows - 1, NrBelow(w, w.top))

(* Fault: the window moves down as long as sel can.                        *)
LinesDownPastEnd(w, lines) ==
    LET k == Lesser(lines, NrBelow(w, w.sel))
    IN  SelChanged(Moved(w, Forward(w, w.top, k), w.sel + k))

(* sel, top and the row on the last line move down together.               *)
LinesDown(w, lines) ==
    LET k == Lesser(lines, Lesser(NrBelow(w, w.sel),
                                  NrBelow(w, WindowBottom(w))))
    IN  SelChanged(Moved(w, Forward(w, w.top, k), w.sel + k))

PageUp(w) == LinesUp(w, w.nr_rows - 1)
HalfPageUp(w) == LinesUp(w, (w.nr_rows - 1) \div 2)
PageDown(w) == LinesDown(w, w.nr_rows - 1)
HalfPageDown(w) == LinesDown(w, (w.nr_rows - 1) \div 2)

(* Fault: the window is drawn again only when the selection moves.         *)
ScrollDownSilently(w) ==
    IF NrBelow(w, WindowBottom(w)) = 0 \/ NrBelow(w, w.top) = 0 THEN w
    ELSE SelChangedFrom(w, Moved(w, w.top + 1,
            IF w.top = w.sel THEN Forward(w, w.sel, 1) ELSE w.sel))

ScrollDown(w) ==
    IF NrBelow(w, WindowBottom(w)) = 0 \/ NrBelow(w, w.top) = 0 THEN w
    ELSE SelChanged(Moved(w, w.top + 1,
            IF w.top = w.sel THEN Forward(w, w.sel, 1) ELSE w.sel))

(* Fault: the first of the two definitions of window_scroll_up.            *)
ScrollUpForward(w) ==
    IF NrAbove(w, w.top) = 0 THEN w
    ELSE SelChanged(Moved(w, Back(w, w.top, 1),
            IF WindowBottom(w) = w.sel THEN Forward(w, w.sel, 1) ELSE w.sel))

(* The second definition of window_scroll_up.                              *)
ScrollUp(w) ==
    IF NrAbove(w, w.top) = 0 THEN w
    ELSE SelChanged(Moved(w, Back(w, w.top, 1),
            IF WindowBottom(w) = w.sel THEN Back(w, w.sel, 1) ELSE w.sel))

(* window_goto_pos does not look at what get_next returns.                 *)
GotoPos(w, pos) ==
    SelChangedFrom(w, Moved(w, w.top, Forward(w, w.top, pos)))

PageTop(w) == GotoPos(w, 0)
PageBottom(w) == GotoPos(w, w.nr_rows - 1)
PageMiddle(w) == GotoPos(w, w.nr_rows \div 2)
=============================================================================
