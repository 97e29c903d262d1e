----------------------------- MODULE WindowProofs -----------------------------
(***************************************************************************)
(* For every length of list, height of window and scroll_offset: the       *)
(* iterators of a window point into its list, the selection stays on the   *)
(* screen, the screen shows the window or is about to be drawn again, and  *)
(* a movement keeps scroll_offset and leaves no new empty lines.           *)
(***************************************************************************)
EXTENDS Window, WindowOpsProofs

(* Every step but those that set the selection to a row of their own       *)
(* choice keeps the window as Keeps says.                                  *)

(* What every step of a window that is shown properly preserves.           *)
Proper == TypeOK /\ SelVisible

(* A new window is shown properly.                                         *)
LEMMA InitProper == Init => Proper /\ ScreenCurrent
BY NewWindowVisible DEF Init, Proper, TypeOK, SelVisible, ScreenCurrent,
                        NewWindow, View

(* What is in doubt after a step, whatever the step.                       *)
LEMMA DoubtTyped == TypeOK /\ [Next]_vars => doubt' \in {"none", "rows", "selection"}
<1> SUFFICES ASSUME TypeOK, [Next]_vars PROVE doubt' \in {"none", "rows", "selection"}
  OBVIOUS
<1>1. doubt \in {"none", "rows", "selection"}
  BY DEF TypeOK
<1>2. \A op : DoubtAfter(op) \in {"none", "rows", "selection"}
  BY <1>1 DEF DoubtAfter
<1>3. CASE Redraw
  BY <1>1, <1>3 DEF Redraw
<1>4. CASE UNCHANGED vars
  BY <1>1, <1>4 DEF vars
<1> QED
  BY <1>2, <1>3, <1>4 DEF Next, Do, Empty, Contents, Vanish, Load, Search,
     Resize, MoveUp, MoveDown, Jump, Page, Scroll, Pick

(* For every instance, whatever the operations: no iterator outlives its   *)
(* row or its list.                                                        *)
LEMMA NextTyped == TypeOK /\ [Next]_vars => TypeOK'
<1> SUFFICES ASSUME TypeOK, [Next]_vars PROVE w' \in Windows
  BY DoubtTyped DEF TypeOK
<1>0. w \in Windows
  BY DEF TypeOK
<1> USE DEF Do
<1>1. CASE Empty
  BY <1>0, <1>1, SetEmptyVisible DEF Empty
<1>2. CASE Contents
  BY <1>0, <1>2, SetContentsVisible, SizesAssumption DEF Contents
<1>3. CASE Vanish
  BY <1>0, <1>3, RowVanishesKeeps DEF Vanish
<1>4. CASE Load
  <2>0. PICK n \in 0 .. MaxRows : \E p \in 1 .. n : \E init \in StackValues :
            w' = SetSel(SetContents(w, n), p, init)
    BY <1>4 DEF Load
  <2>1. PICK p \in 1 .. n, init \in StackValues :
            w' = SetSel(SetContents(w, n), p, init)
    BY <2>0
  <2>2. n \in Nat /\ init \in Int
    BY <2>1, SizesAssumption
  <2> DEFINE v == SetContents(w, n)
  <2>3. v \in Windows /\ v.n = n
    BY <1>0, <2>2, SetContentsVisible
  <2> HIDE DEF v
  <2>4. p \in Positions(v)
    BY <2>2, <2>3, WindowFields
  <2> QED
    BY <2>1, <2>2, <2>3, <2>4, SetSelWindow DEF v
<1>5. CASE Search
  <2>1. PICK p \in 1 .. w.n, init \in StackValues : w' = SetSel(w, p, init)
    BY <1>5 DEF Search
  <2>2. p \in Positions(w) /\ init \in Int
    BY <1>0, <2>1, SizesAssumption, WindowFields
  <2> QED
    BY <1>0, <2>1, <2>2, SetSelWindow
<1>6. CASE Resize
  BY <1>0, <1>6, SetNrRowsKeeps, SizesAssumption DEF Resize, Keeps
<1>7. CASE MoveUp
  BY <1>0, <1>7, UpKeeps, SizesAssumption DEF MoveUp, Keeps
<1>8. CASE MoveDown
  BY <1>0, <1>8, DownKeeps, SizesAssumption DEF MoveDown, Keeps
<1>9. CASE Jump
  BY <1>0, <1>9, GotoTopKeeps, GotoBottomVisible DEF Jump, Keeps
<1>10. CASE Page
  <2>1. w.nr_rows - 1 \in Nat /\ (w.nr_rows - 1) \div 2 \in Nat
    BY <1>0, WindowFields
  <2> QED
    BY <1>0, <1>10, <2>1, LinesUpKeeps, LinesDownKeeps
    DEF Page, PageUp, HalfPageUp, PageDown, HalfPageDown, Keeps
<1>11. CASE Scroll
  BY <1>0, <1>11, ScrollDownKeeps, ScrollUpKeeps DEF Scroll, Keeps
<1>12. CASE Pick
  <2>1. w.nr_rows - 1 \in Int /\ w.nr_rows \div 2 \in Int
    BY <1>0, WindowFields
  <2> QED
    BY <1>0, <1>12, <2>1, PageTopKeeps, GotoPosWindow
    DEF Pick, Keeps, PageBottom, PageMiddle
<1>13. CASE Redraw
  BY <1>0, <1>13, RedrawnWindow DEF Redraw
<1>14. CASE UNCHANGED vars
  BY <1>0, <1>14 DEF vars
<1> QED
  BY <1>1, <1>2, <1>3, <1>4, <1>5, <1>6, <1>7, <1>8, <1>9, <1>10, <1>11,
     <1>12, <1>13, <1>14 DEF Next

(* TypeOK of Window.tla: the iterators of a window point into its list.    *)
THEOREM TypeCorrect == Spec => []TypeOK
<1>1. Init => TypeOK
  BY InitProper DEF Proper
<1> QED
  BY <1>1, NextTyped, PTL DEF Spec

-----------------------------------------------------------------------------
(* What is not in doubt after a step was not in doubt before, unless the   *)
(* step gave the window a new list.                                        *)
LEMMA DoubtGrows ==
    ASSUME NEW op
    PROVE  /\ DoubtAfter(op) # "selection" =>
                 \/ op \in {"set_empty", "set_contents"}
                 \/ ~LosesSelection(op) /\ doubt # "selection"
           /\ DoubtAfter(op) = "none" =>
                 \/ op \in {"set_empty", "set_contents"}
                 \/ /\ ~LosesSelection(op) /\ ~MovesRowsOnly(op)
                    /\ doubt = "none"
BY DEF DoubtAfter, LosesSelection, MovesRowsOnly

(* window_page_bottom and window_page_middle within the list, and every    *)
(* other function that is not said to lose it, keep the selection visible. *)
LEMMA NextVisible == Proper /\ [Next]_vars => SelVisible'
<1> SUFFICES ASSUME Proper, [Next]_vars, doubt' # "selection"
             PROVE  Visible(w)'
  BY DEF SelVisible
<1>0. w \in Windows /\ (doubt # "selection" => Visible(w)) /\ w.n \in Nat
      /\ w.top \in Nat /\ w.nr_rows \in Nat \ {0}
  BY WindowFields DEF Proper, TypeOK, SelVisible
<1> USE DEF Do
<1>1. CASE Empty
  BY <1>0, <1>1, SetEmptyVisible DEF Empty
<1>2. CASE Contents
  BY <1>0, <1>2, SetContentsVisible, SizesAssumption DEF Contents
<1>3. CASE Vanish
  BY <1>0, <1>3, RowVanishesKeeps, DoubtGrows DEF Vanish
<1>4. CASE Load \/ Search
  BY <1>4, DoubtGrows DEF Load, Search, LosesSelection
<1>5. CASE Resize
  BY <1>0, <1>5, SetNrRowsKeeps, SizesAssumption, DoubtGrows DEF Resize, Keeps
<1>6. CASE MoveUp
  BY <1>0, <1>6, UpKeeps, SizesAssumption, DoubtGrows DEF MoveUp, Keeps
<1>7. CASE MoveDown
  BY <1>0, <1>7, DownKeeps, SizesAssumption, DoubtGrows DEF MoveDown, Keeps
<1>8. CASE Jump
  BY <1>0, <1>8, GotoTopKeeps, GotoBottomVisible, DoubtGrows DEF Jump, Keeps
<1>9. CASE Page
  <2>1. w.nr_rows - 1 \in Nat /\ (w.nr_rows - 1) \div 2 \in Nat
    BY <1>0
  <2>2. doubt # "selection"
    BY <1>9, DoubtGrows DEF Page
  <2> QED
    BY <1>0, <1>9, <2>1, <2>2, LinesUpKeeps, LinesDownKeeps
    DEF Page, PageUp, HalfPageUp, PageDown, HalfPageDown, Keeps
<1>10. CASE Scroll
  BY <1>0, <1>10, ScrollDownKeeps, ScrollUpKeeps, DoubtGrows DEF Scroll, Keeps
<1>11. CASE Pick
  <2>1. \/ w' = PageTop(w) /\ doubt' = DoubtAfter("page_top")
        \/ w' = PageBottom(w) /\ doubt' = DoubtAfter("page_bottom")
        \/ w' = PageMiddle(w) /\ doubt' = DoubtAfter("page_middle")
    BY <1>11 DEF Pick
  <2>2. Keeps(w, w') /\ Visible(w)
    BY <1>0, <2>1, PickKeeps, DoubtGrows DEF LosesSelection
  <2> QED
    BY <2>2 DEF Keeps
<1>12. CASE Redraw
  BY <1>0, <1>12, RedrawnWindow DEF Redraw
<1>13. CASE UNCHANGED vars
  BY <1>0, <1>13 DEF vars
<1> QED
  BY <1>1, <1>2, <1>3, <1>4, <1>5, <1>6, <1>7, <1>8, <1>9, <1>10, <1>11,
     <1>12, <1>13 DEF Next

(* SelVisible of Window.tla: no sequence of moves, deletions and resizes   *)
(* loses the selection, and no other than the named ones do.               *)
THEOREM SelectionVisible == Spec => []SelVisible
<1>1. Init => Proper
  BY InitProper
<1>2. Proper /\ [Next]_vars => Proper'
  BY NextTyped, NextVisible DEF Proper
<1>3. Proper => SelVisible
  BY DEF Proper
<1> QED
  BY <1>1, <1>2, <1>3, PTL DEF Spec

(* The operations change the window with its flag set, or not at all.      *)
LEMMA NextCurrent == Proper /\ ScreenCurrent /\ [Next]_vars => ScreenCurrent'
<1> SUFFICES ASSUME Proper, ScreenCurrent, [Next]_vars, doubt' = "none"
             PROVE  ScreenCurrent'
  BY DEF ScreenCurrent
<1>0. w \in Windows /\ (doubt = "none" => Visible(w)) /\ w.n \in Nat
      /\ w.top \in Nat /\ w.nr_rows \in Nat \ {0}
  BY WindowFields DEF Proper, TypeOK, SelVisible
<1>1. ASSUME w'.changed, UNCHANGED screen PROVE ScreenCurrent'
  BY <1>1 DEF ScreenCurrent
<1>2. ASSUME doubt = "none", Keeps(w, w'), UNCHANGED screen PROVE ScreenCurrent'
  BY <1>0, <1>2 DEF Keeps, Quiet, ScreenCurrent
<1> USE DEF Do
<1>3. CASE Empty
  BY <1>0, <1>1, <1>3, SetEmptyVisible DEF Empty
<1>4. CASE Contents
  BY <1>0, <1>1, <1>4, SetContentsVisible, SizesAssumption DEF Contents
<1>5. CASE Vanish
  BY <1>0, <1>1, <1>5, RowVanishesKeeps DEF Vanish
<1>6. CASE Load \/ Search
  BY <1>6, DoubtGrows DEF Load, Search, LosesSelection
<1>7. CASE Resize
  BY <1>0, <1>2, <1>7, SetNrRowsKeeps, SizesAssumption, DoubtGrows DEF Resize
<1>8. CASE MoveUp
  BY <1>0, <1>2, <1>8, UpKeeps, SizesAssumption, DoubtGrows DEF MoveUp
<1>9. CASE MoveDown
  BY <1>0, <1>2, <1>9, DownKeeps, SizesAssumption, DoubtGrows DEF MoveDown
<1>10. CASE Jump
  <2>1. CASE w' = GotoTop(w) /\ doubt' = DoubtAfter("goto_top") /\ UNCHANGED screen
    BY <1>0, <1>2, <2>1, GotoTopKeeps, DoubtGrows
  <2>2. CASE w' = GotoBottom(w) /\ doubt' = DoubtAfter("goto_bottom")
             /\ UNCHANGED screen
    <3>1. w.sel # w.n
      BY <2>2, DoubtGrows DEF MovesRowsOnly
    <3> QED
      BY <1>0, <1>1, <2>2, <3>1, GotoBottomChanges
  <2> QED
    BY <1>10, <2>1, <2>2 DEF Jump
<1>11. CASE Page
  <2>1. w.nr_rows - 1 \in Nat /\ (w.nr_rows - 1) \div 2 \in Nat
    BY <1>0
  <2>2. doubt = "none" /\ UNCHANGED screen
    BY <1>11, DoubtGrows DEF Page
  <2> QED
    BY <1>0, <1>2, <1>11, <2>1, <2>2, LinesUpKeeps, LinesDownKeeps
    DEF Page, PageUp, HalfPageUp, PageDown, HalfPageDown
<1>12. CASE Scroll
  BY <1>0, <1>2, <1>12, ScrollDownKeeps, ScrollUpKeeps, DoubtGrows DEF Scroll
<1>13. CASE Pick
  <2>1. /\ UNCHANGED screen
        /\ \/ w' = PageTop(w) /\ doubt' = DoubtAfter("page_top")
           \/ w' = PageBottom(w) /\ doubt' = DoubtAfter("page_bottom")
           \/ w' = PageMiddle(w) /\ doubt' = DoubtAfter("page_middle")
    BY <1>13 DEF Pick
  <2>2. Keeps(w, w') /\ doubt = "none"
    BY <1>0, <2>1, PickKeeps, DoubtGrows DEF LosesSelection
  <2> QED
    BY <1>2, <2>1, <2>2
<1>14. CASE Redraw
  BY <1>0, <1>14, RedrawnWindow DEF Redraw, ScreenCurrent
<1>15. CASE UNCHANGED vars
  BY <1>15 DEF vars, ScreenCurrent
<1> QED
  BY <1>3, <1>4, <1>5, <1>6, <1>7, <1>8, <1>9, <1>10, <1>11, <1>12, <1>13,
     <1>14, <1>15 DEF Next

(* ScreenCurrent of Window.tla: what the user sees is the window, or is    *)
(* about to be drawn.                                                      *)
THEOREM ScreenIsCurrent == Spec => []ScreenCurrent
<1> DEFINE IInv == Proper /\ ScreenCurrent
<1>1. Init => IInv
  BY InitProper
<1>2. IInv /\ [Next]_vars => IInv'
  BY NextTyped, NextVisible, NextCurrent DEF Proper
<1>3. IInv => ScreenCurrent
  OBVIOUS
<1> HIDE DEF IInv
<1> QED
  BY <1>1, <1>2, <1>3, PTL DEF Spec

-----------------------------------------------------------------------------
(* A window of the same list and height has no more empty lines when it    *)
(* has not gone down past the end.                                         *)
LEMMA EmptyLinesKept ==
    ASSUME NEW v \in Windows, NEW r \in Windows, r.n = v.n, NoEmptier(v, r)
    PROVE  r.top = 1 \/ EmptyLines(r) <= EmptyLines(v)
<1> DEFINE below == r.top + r.nr_rows - 1 - r.n
           before == v.top + v.nr_rows - 1 - v.n
<1>1. below \in Int /\ before \in Int
  BY WindowFields
<1>2. r.top = 1 \/ below <= before \/ below <= 0
  BY WindowFields DEF NoEmptier
<1> HIDE DEF below, before
<1>3. r.top = 1 \/ Greater(0, below) <= Greater(0, before)
  BY <1>1, <1>2 DEF Greater
<1> QED
  BY <1>3 DEF EmptyLines, below, before

(* The steps of NoNewEmptyLines move within the list.                      *)
LEMMA MovementNoEmptier ==
    ASSUME Proper, doubt # "selection", MoveUp \/ MoveDown \/ Jump \/ Page \/ Scroll
    PROVE  w' \in Windows /\ w'.n = w.n /\ NoEmptier(w, w')
<1>0. w \in Windows /\ Visible(w) /\ w.nr_rows \in Nat \ {0}
  BY WindowFields DEF Proper, TypeOK, SelVisible
<1> USE DEF Do
<1>1. CASE MoveUp
  BY <1>0, <1>1, UpKeeps, SizesAssumption DEF MoveUp, Keeps
<1>2. CASE MoveDown
  BY <1>0, <1>2, DownKeeps, SizesAssumption DEF MoveDown, Keeps
<1>3. CASE Jump
  BY <1>0, <1>3, GotoTopKeeps, GotoBottomVisible, JumpNoEmptier DEF Jump, Keeps
<1>4. CASE Page
  <2>1. w.nr_rows - 1 \in Nat /\ (w.nr_rows - 1) \div 2 \in Nat
    BY <1>0
  <2>2. \E lines \in Nat : w' = LinesUp(w, lines) \/ w' = LinesDown(w, lines)
    BY <1>4, <2>1 DEF Page, PageUp, HalfPageUp, PageDown, HalfPageDown
  <2>3. PICK lines \in Nat : w' = LinesUp(w, lines) \/ w' = LinesDown(w, lines)
    BY <2>2
  <2>4. Keeps(w, w') /\ NoEmptier(w, w')
    BY <1>0, <2>3, LinesUpKeeps, LinesDownKeeps, LinesNoEmptier
  <2> QED
    BY <2>4 DEF Keeps
<1>5. CASE Scroll
  BY <1>0, <1>5, ScrollDownKeeps, ScrollUpKeeps, ScrollNoEmptier DEF Scroll, Keeps
<1> QED
  BY <1>1, <1>2, <1>3, <1>4, <1>5

(* A window that is shown properly is so after every step.                 *)
LEMMA ProperCorrect == Spec => []Proper
<1>1. Proper /\ [Next]_vars => Proper'
  BY NextTyped, NextVisible DEF Proper
<1> QED
  BY <1>1, InitProper, PTL DEF Spec

(* NoNewEmptyLines of Window.tla: the user cannot scroll past the end of   *)
(* the list, however short the list and high the window.                   *)
THEOREM NoNewEmptyLinesCorrect == Spec => NoNewEmptyLines
<1> DEFINE Step ==
        /\ doubt # "selection"
        /\ MoveUp \/ MoveDown \/ Jump \/ Page \/ Scroll
        => w'.top = 1 \/ EmptyLines(w') <= EmptyLines(w)
<1>1. Proper => Step
  BY MovementNoEmptier, EmptyLinesKept DEF Proper, TypeOK
<1>2. Proper => [Step]_vars
  BY <1>1
<1> QED
  BY <1>2, ProperCorrect, PTL DEF NoNewEmptyLines

(* OffsetKept of Window.tla: a step that moves the selection towards an    *)
(* edge keeps scroll_offset rows, or half a window, before it.             *)
THEOREM OffsetKeptCorrect == Spec => OffsetKept
<1> DEFINE Step ==
        doubt # "selection" =>
        /\ MoveUp /\ w'.sel # w.sel =>
             w'.sel - w'.top >= Lesser(NrAbove(w, w'.sel),
                                       Lesser(ScrollOffset, w.nr_rows \div 2))
        /\ MoveDown /\ w'.sel # w.sel =>
             w'.top + w.nr_rows - 1 - w'.sel >=
                 Lesser(NrBelow(w, w'.sel),
                        Lesser(ScrollOffset, (w.nr_rows - 1) \div 2))
<1>1. ASSUME Proper, doubt # "selection"
      PROVE  /\ MoveUp /\ w'.sel # w.sel => OffsetAbove(w, w')
             /\ MoveDown /\ w'.sel # w.sel => OffsetBelow(w, w')
  <2>0. w \in Windows /\ Visible(w)
    BY <1>1 DEF Proper, TypeOK, SelVisible
  <2>1. MoveUp /\ w'.sel # w.sel => OffsetAbove(w, w')
    BY <2>0, UpKeeps, SizesAssumption DEF MoveUp, Do
  <2>2. MoveDown /\ w'.sel # w.sel => OffsetBelow(w, w')
    BY <2>0, DownKeeps, SizesAssumption DEF MoveDown, Do
  <2> QED
    BY <2>1, <2>2
<1>2. Proper => [Step]_vars
  BY <1>1 DEF OffsetAbove, OffsetBelow
<1> QED
  BY <1>2, ProperCorrect, PTL DEF OffsetKept
=============================================================================
