--------------------------- MODULE WindowOpsProofs ---------------------------
(***************************************************************************)
(* What each function of window.c keeps, for every window and argument:    *)
(* its iterators stay in the list (Windows), a selection that was on the   *)
(* screen stays there, and the flag is set when anything moves (Keeps).    *)
(***************************************************************************)
EXTENDS WindowOps, TLAPS

(* Iterators that do not pass the head are plain sums and differences.     *)
LEMMA ForwardInside ==
    ASSUME NEW v \in Windows, NEW p \in Int, NEW k \in Int, p + k \in 0 .. v.n
    PROVE  Forward(v, p, k) = p + k
BY DEF Forward, Windows

(* The same backwards.                                                     *)
LEMMA BackInside ==
    ASSUME NEW v \in Windows, NEW p \in Int, NEW k \in Int, p - k \in 0 .. v.n
    PROVE  Back(v, p, k) = p - k
BY DEF Back, Windows

(* How far sel is below top.                                               *)
LEMMA DistanceInside ==
    ASSUME NEW v \in Windows, v.top <= v.sel
    PROVE  Distance(v, v.top, v.sel) = v.sel - v.top
BY DEF Distance, Windows, Positions

(* They never leave the list.                                              *)
LEMMA IteratorRange ==
    ASSUME NEW v \in Windows, NEW p \in Int, NEW k \in Int
    PROVE  /\ Forward(v, p, k) \in Positions(v)
           /\ Back(v, p, k) \in Positions(v)
           /\ Distance(v, p, k) \in Positions(v)
BY DEF Forward, Back, Distance, Windows, Positions

(* What is known of a window.                                              *)
LEMMA WindowFields ==
    ASSUME NEW v \in Windows
    PROVE  /\ v.n \in Nat /\ v.nr_rows \in Nat \ {0}
           /\ v.top \in Nat /\ v.top <= v.n /\ v.sel \in Nat /\ v.sel <= v.n
           /\ v.head \in BOOLEAN /\ v.changed \in BOOLEAN
           /\ v.n > 0 => v.head
           /\ Positions(v) = 0 .. v.n
BY DEF Windows, Positions

(* New places in the list make a window that differs in nothing else.      *)
LEMMA MovedWindow ==
    ASSUME NEW v \in Windows, NEW t \in Positions(v), NEW s \in Positions(v)
    PROVE  /\ Moved(v, t, s) \in Windows
           /\ Moved(v, t, s).top = t /\ Moved(v, t, s).sel = s
           /\ Moved(v, t, s).n = v.n
           /\ Moved(v, t, s).nr_rows = v.nr_rows
           /\ Moved(v, t, s).changed = v.changed
<1> DEFINE u == [v EXCEPT !.top = t]
           m == [u EXCEPT !.sel = s]
<1>1. /\ u \in Windows /\ u.top = t /\ u.sel = v.sel /\ u.n = v.n
      /\ u.nr_rows = v.nr_rows /\ u.changed = v.changed
  BY DEF Windows, Positions
<1>2. Moved(v, t, s) = m
  BY DEF Moved
<1> HIDE DEF u
<1>3. /\ m \in Windows /\ m.top = u.top /\ m.sel = s /\ m.n = u.n
      /\ m.nr_rows = u.nr_rows /\ m.changed = u.changed
  BY <1>1 DEF Windows, Positions
<1> HIDE DEF m
<1> QED
  BY <1>1, <1>2, <1>3

(* The other assignments to the fields of a window, one field at a time.   *)
Records == [n : Nat, head : BOOLEAN, top : Nat, sel : Nat,
            nr_rows : Nat \ {0}, changed : BOOLEAN]

(* A new list with top and sel on the same place of it.                    *)
OnList(v, n, h, t) == [v EXCEPT !.n = n, !.head = h, !.top = t, !.sel = t]

(* Such a window has the new places.                                       *)
LEMMA ContentsRecord ==
    ASSUME NEW v \in Windows, NEW n \in Nat, NEW h \in BOOLEAN, NEW t \in 0 .. n,
           n # 0 => h = TRUE
    PROVE  /\ OnList(v, n, h, t) \in Windows /\ OnList(v, n, h, t).n = n
           /\ OnList(v, n, h, t).top = t /\ OnList(v, n, h, t).sel = t
           /\ OnList(v, n, h, t).nr_rows = v.nr_rows
<1> DEFINE u1 == [v EXCEPT !.n = n]
           u2 == [u1 EXCEPT !.head = h]
           u3 == [u2 EXCEPT !.top = t]
           u4 == [u3 EXCEPT !.sel = t]
<1>0. v \in Records
  BY DEF Windows, Records
<1>1. u1 \in Records /\ u1.n = n /\ u1.nr_rows = v.nr_rows
  BY <1>0 DEF Records
<1> HIDE DEF u1
<1>2. u2 \in Records /\ u2.n = n /\ u2.head = h /\ u2.nr_rows = v.nr_rows
  BY <1>1 DEF Records
<1> HIDE DEF u2
<1>3. u3 \in Records /\ u3.n = n /\ u3.head = h /\ u3.top = t /\ u3.nr_rows = v.nr_rows
  BY <1>2 DEF Records
<1> HIDE DEF u3
<1>4. u4 \in Records /\ u4.n = n /\ u4.head = h /\ u4.top = t /\ u4.sel = t /\ u4.nr_rows = v.nr_rows
  BY <1>3 DEF Records
<1> HIDE DEF u4
<1>5. u4 \in Windows
  BY <1>4 DEF Records, Windows, Positions
<1>6. OnList(v, n, h, t) = u4
  BY DEF OnList, u1, u2, u3, u4
<1> QED
  BY <1>4, <1>5, <1>6

(* A shorter list and new places in it.                                    *)
LEMMA ShrunkRecord ==
    ASSUME NEW v \in Windows, NEW n \in Nat, NEW t \in 0 .. n, NEW s \in 0 .. n,
           n <= v.n
    PROVE  LET r == [v EXCEPT !.n = n, !.top = t, !.sel = s, !.changed = TRUE]
           IN  /\ r \in Windows /\ r.n = n /\ r.top = t /\ r.sel = s
               /\ r.nr_rows = v.nr_rows /\ r.changed
<1> DEFINE u1 == [v EXCEPT !.n = n]
           u2 == [u1 EXCEPT !.top = t]
           u3 == [u2 EXCEPT !.sel = s]
           u4 == [u3 EXCEPT !.changed = TRUE]
<1>0. v \in Records /\ (v.n > 0 => v.head)
  BY DEF Windows, Records
<1>1. u1 \in Records /\ u1.n = n /\ u1.nr_rows = v.nr_rows /\ u1.head = v.head
  BY <1>0 DEF Records
<1> HIDE DEF u1
<1>2. u2 \in Records /\ u2.n = n /\ u2.top = t /\ u2.nr_rows = v.nr_rows
      /\ u2.head = v.head
  BY <1>1 DEF Records
<1> HIDE DEF u2
<1>3. u3 \in Records /\ u3.n = n /\ u3.top = t /\ u3.sel = s
      /\ u3.nr_rows = v.nr_rows /\ u3.head = v.head
  BY <1>2 DEF Records
<1> HIDE DEF u3
<1>4. u4 \in Records /\ u4.n = n /\ u4.top = t /\ u4.sel = s
      /\ u4.nr_rows = v.nr_rows /\ u4.changed /\ u4.head = v.head
  BY <1>3 DEF Records
<1> HIDE DEF u4
<1>5. u4 \in Windows
  BY <1>0, <1>4, WindowFields DEF Records, Windows, Positions
<1>6. [v EXCEPT !.n = n, !.top = t, !.sel = s, !.changed = TRUE] = u4
  BY DEF u1, u2, u3, u4
<1> QED
  BY <1>4, <1>5, <1>6

(* sel_changed changes the flag only.                                      *)
LEMMA SelChangedWindow ==
    ASSUME NEW v \in Windows
    PROVE  /\ SelChanged(v) \in Windows
           /\ SelChanged(v).top = v.top /\ SelChanged(v).sel = v.sel
           /\ SelChanged(v).n = v.n
           /\ SelChanged(v).nr_rows = v.nr_rows
           /\ SelChanged(v).changed = TRUE
BY DEF Windows, Positions, SelChanged

-----------------------------------------------------------------------------
(* What an operation of the user keeps: the window and its list, and, if   *)
(* the selection was on the screen, that it is, and that the window is to  *)
(* be drawn again when anything has moved.                                 *)
Quiet(v, r) == ~r.changed => ~v.changed /\ View(r) = View(v)
Keeps(v, r) ==
    r \in Windows /\ r.n = v.n /\ (Visible(v) => Visible(r) /\ Quiet(v, r))

(* The height stays, and the window does not go down past the end of the   *)
(* list.                                                                   *)
NoEmptier(v, r) ==
    /\ r.nr_rows = v.nr_rows
    /\ r.top <= v.top \/ r.top = 1 \/ r.top + v.nr_rows - 1 <= v.n

(* scroll_offset rows, or half a window, are between sel and the edge that *)
(* it moves towards, where there are as many.                              *)
OffsetAbove(v, r) ==
    r.sel - r.top >= Lesser(NrAbove(v, r.sel),
                            Lesser(ScrollOffset, v.nr_rows \div 2))
OffsetBelow(v, r) ==
    r.top + v.nr_rows - 1 - r.sel >=
        Lesser(NrBelow(v, r.sel), Lesser(ScrollOffset, (v.nr_rows - 1) \div 2))

(* New places that keep the selection on the screen.                       *)
LEMMA MovedKeeps ==
    ASSUME NEW v \in Windows, NEW t \in Positions(v), NEW s \in Positions(v),
           Visible(v) => (v.n > 0 => t # 0 /\ s \in t .. t + v.nr_rows - 1)
    PROVE  Keeps(v, SelChanged(Moved(v, t, s)))
<1> DEFINE m == Moved(v, t, s)
           r == SelChanged(m)
<1>1. m \in Windows /\ m.top = t /\ m.sel = s /\ m.n = v.n /\ m.nr_rows = v.nr_rows
  BY MovedWindow
<1> HIDE DEF m
<1>2. /\ r \in Windows /\ r.top = t /\ r.sel = s /\ r.n = v.n
      /\ r.nr_rows = v.nr_rows /\ r.changed
  BY <1>1, SelChangedWindow
<1> HIDE DEF r
<1>3. Visible(v) => Visible(r)
  BY <1>2 DEF Visible
<1>4. Keeps(v, r)
  BY <1>2, <1>3 DEF Keeps, Quiet
<1> QED
  BY <1>4 DEF r, m

(* The same where the window is drawn again only when something has moved. *)
LEMMA MovedQuietly ==
    ASSUME NEW v \in Windows, NEW t \in Positions(v), NEW s \in Positions(v),
           Visible(v) => /\ v.n > 0 => t # 0 /\ s \in t .. t + v.nr_rows - 1
                         /\ t = v.top /\ s = v.sel
    PROVE  Keeps(v, Moved(v, t, s))
BY MovedWindow DEF Keeps, Quiet, Visible, View

(* window_up keeps the selection on the screen and the screen current, and *)
(* scroll_offset rows above a selection that it moves.                     *)
LEMMA UpKeeps ==
    ASSUME NEW v \in Windows, NEW rows \in Nat \ {0}
    PROVE  /\ Keeps(v, Up(v, rows))
           /\ Visible(v) => NoEmptier(v, Up(v, rows))
           /\ Visible(v) /\ Up(v, rows).sel # v.sel => OffsetAbove(v, Up(v, rows))
<1> DEFINE buffer == Distance(v, v.top, v.sel)
           sel_up == Lesser(rows, NrAbove(v, v.sel))
           sel == Back(v, v.sel, sel_up)
           upper_bound == Lesser(IF sel_up = 0 THEN buffer + rows ELSE ScrollOffset,
                                 v.nr_rows \div 2)
           actual_offset == Lesser(upper_bound, NrAbove(v, sel))
           top_up == Greater(0, actual_offset + sel_up - buffer)
           top == Back(v, v.top, top_up)
<1>1. /\ sel_up \in Nat /\ sel_up <= NrAbove(v, v.sel) /\ sel_up <= rows
      /\ sel_up = 0 => NrAbove(v, v.sel) = 0
  BY WindowFields DEF Lesser, NrAbove
<1>2. sel \in Positions(v) /\ buffer \in Nat
  BY <1>1, WindowFields, IteratorRange
<1> HIDE DEF buffer, sel_up
<1>3. /\ upper_bound \in Nat /\ 2 * upper_bound <= v.nr_rows
      /\ actual_offset \in Nat /\ actual_offset <= upper_bound
      /\ actual_offset <= NrAbove(v, sel)
  BY <1>1, <1>2, WindowFields, ScrollOffsetAssumption DEF Lesser, NrAbove
<1>0. sel_up # 0 => actual_offset = Lesser(NrAbove(v, sel),
                                          Lesser(ScrollOffset, v.nr_rows \div 2))
  <2> DEFINE half == v.nr_rows \div 2
             above == NrAbove(v, sel)
  <2>1. half \in Int /\ above \in Int /\ ScrollOffset \in Int
    BY <1>2, WindowFields, ScrollOffsetAssumption DEF NrAbove
  <2>2. sel_up # 0 => actual_offset = Lesser(Lesser(ScrollOffset, half), above)
    OBVIOUS
  <2> HIDE DEF half, above
  <2>3. Lesser(Lesser(ScrollOffset, half), above)
            = Lesser(above, Lesser(ScrollOffset, half))
    BY <2>1 DEF Lesser
  <2> QED
    BY <2>2, <2>3 DEF half, above
<1> HIDE DEF upper_bound
<1>4. top_up \in Nat /\ top \in Positions(v)
  <2>1. top_up \in Nat
    BY <1>1, <1>2, <1>3 DEF Greater
  <2> QED
    BY <2>1, WindowFields, IteratorRange
<1>5. ASSUME Visible(v), v.n > 0
      PROVE  /\ top # 0 /\ sel \in top .. top + v.nr_rows - 1
             /\ sel_up = 0 /\ actual_offset = 0 => top = v.top /\ sel = v.sel
             /\ top <= v.top /\ sel - top >= actual_offset
             /\ sel_up = 0 => sel = v.sel
  <2>1. v.top # 0 /\ v.top <= v.sel /\ v.sel <= v.top + v.nr_rows - 1
    BY <1>5, WindowFields DEF Visible
  <2>2. buffer = v.sel - v.top
    BY <2>1, DistanceInside DEF buffer
  <2>3. sel_up <= v.sel - 1 /\ sel = v.sel - sel_up
    <3>1. sel_up <= v.sel - 1
      BY <1>1, <2>1, WindowFields DEF NrAbove
    <3> QED
      BY <3>1, <1>1, WindowFields, BackInside
  <2>4. actual_offset <= sel - 1
    BY <1>1, <1>3, <2>1, <2>3, WindowFields DEF NrAbove
  <2> HIDE DEF sel, actual_offset
  <2>5. top_up <= v.top - 1 /\ top = v.top - top_up
    <3>1. top_up <= v.top - 1
      BY <1>1, <1>3, <2>1, <2>2, <2>3, <2>4, WindowFields, SMTT(60) DEF Greater
    <3> QED
      BY <3>1, <1>4, WindowFields, BackInside
  <2>6. /\ top_up = 0 => actual_offset + sel_up <= buffer
        /\ top_up # 0 => top_up = actual_offset + sel_up - buffer
    BY <1>1, <1>2, <1>3 DEF Greater
  <2> HIDE DEF top_up, top
  <2>7. actual_offset <= v.nr_rows - 1
    BY <1>3, WindowFields
  <2>8. top # 0 /\ top <= sel /\ sel <= top + v.nr_rows - 1
    <3>1. /\ v.top \in Int /\ v.sel \in Int /\ v.nr_rows \in Int
          /\ actual_offset \in Int /\ sel_up \in Int /\ top_up \in Int
      BY <1>1, <1>3, <1>4, WindowFields
    <3>2. CASE top_up = 0
      BY <1>1, <1>3, <2>1, <2>2, <2>3, <2>5, <2>6, <3>1, <3>2
    <3>3. CASE top_up # 0
      BY <1>1, <1>3, <2>2, <2>3, <2>4, <2>5, <2>6, <2>7, <3>1, <3>3
    <3> QED
      BY <3>2, <3>3
  <2>9. sel_up = 0 /\ actual_offset = 0 => top = v.top /\ sel = v.sel
    BY <1>4, <2>1, <2>2, <2>3, <2>5, <2>6, WindowFields
  <2>10. top <= v.top /\ sel - top >= actual_offset /\ (sel_up = 0 => sel = v.sel)
    <3>1. /\ v.top \in Int /\ v.sel \in Int
          /\ actual_offset \in Int /\ sel_up \in Int /\ top_up \in Nat
      BY <1>1, <1>3, <1>4, WindowFields
    <3>2. top_up >= actual_offset + sel_up - buffer
      BY <2>1, <2>2, <2>6, <3>1
    <3> QED
      BY <2>2, <2>3, <2>5, <3>1, <3>2
  <2> QED
    BY <1>2, <1>4, <2>8, <2>9, <2>10, WindowFields
<1>6. ASSUME v.n = 0
      PROVE  sel_up = 0 /\ actual_offset = 0 => top = v.top /\ sel = v.sel
  BY <1>2, <1>4, <1>6, WindowFields
<1>7. Up(v, rows) = IF sel_up > 0 \/ actual_offset > 0
                    THEN SelChanged(Moved(v, top, sel)) ELSE Moved(v, top, sel)
  BY DEF Up, sel_up, buffer, upper_bound
<1> HIDE DEF top, sel, actual_offset
<1>10. /\ Up(v, rows).top = top /\ Up(v, rows).sel = sel
       /\ Up(v, rows).nr_rows = v.nr_rows
  <2> DEFINE m == Moved(v, top, sel)
  <2>1. m \in Windows /\ m.top = top /\ m.sel = sel /\ m.nr_rows = v.nr_rows
    BY <1>2, <1>4, MovedWindow
  <2>2. Up(v, rows) \in {m, SelChanged(m)}
    BY <1>7
  <2> HIDE DEF m
  <2> QED
    BY <2>1, <2>2, SelChangedWindow
<1>11. ASSUME Visible(v)
       PROVE  /\ NoEmptier(v, Up(v, rows))
              /\ Up(v, rows).sel # v.sel => OffsetAbove(v, Up(v, rows))
  <2>1. CASE v.n = 0
    BY <1>2, <1>4, <1>10, <2>1, WindowFields DEF NoEmptier
  <2>2. CASE v.n > 0
    <3>1. /\ top <= v.top /\ sel - top >= actual_offset
          /\ sel_up = 0 => sel = v.sel
      BY <1>5, <1>11, <2>2
    <3>2. NoEmptier(v, Up(v, rows))
      BY <1>10, <3>1 DEF NoEmptier
    <3>3. sel # v.sel => sel - top >= Lesser(NrAbove(v, sel),
                                             Lesser(ScrollOffset, v.nr_rows \div 2))
      BY <1>0, <3>1
    <3> QED
      BY <1>10, <3>2, <3>3 DEF OffsetAbove
  <2> QED
    BY <2>1, <2>2, WindowFields
<1>8. CASE sel_up > 0 \/ actual_offset > 0
  BY <1>2, <1>4, <1>5, <1>7, <1>8, <1>11, MovedKeeps
<1>9. CASE ~(sel_up > 0 \/ actual_offset > 0)
  <2>1. sel_up = 0 /\ actual_offset = 0
    BY <1>9, <1>1, <1>3
  <2>2. Visible(v) => /\ v.n > 0 => top # 0 /\ sel \in top .. top + v.nr_rows - 1
                      /\ top = v.top /\ sel = v.sel
    BY <2>1, <1>5, <1>6, WindowFields
  <2> QED
    BY <1>2, <1>4, <1>7, <1>9, <1>11, <2>2, MovedQuietly
<1> QED
  BY <1>8, <1>9

(* window_down does so too, with the rows below.                           *)
LEMMA DownKeeps ==
    ASSUME NEW v \in Windows, NEW rows \in Nat \ {0}
    PROVE  /\ Keeps(v, Down(v, rows))
           /\ Visible(v) => NoEmptier(v, Down(v, rows))
           /\ Visible(v) /\ Down(v, rows).sel # v.sel => OffsetBelow(v, Down(v, rows))
<1> DEFINE distance == Distance(v, v.top, v.sel)
           buffer == v.nr_rows - 1 - distance
           sel_down == Lesser(rows, NrBelow(v, v.sel))
           sel == v.sel + sel_down
           upper_bound == Lesser(IF sel_down = 0 THEN buffer + rows
                                 ELSE ScrollOffset, (v.nr_rows - 1) \div 2)
           actual_offset == Greater(0, Lesser(upper_bound, NrBelow(v, sel)))
           top_down == Greater(0, actual_offset + sel_down - buffer)
           top == Forward(v, v.top, top_down)
<1>1. /\ sel_down \in Nat /\ sel_down <= v.n - v.sel /\ sel_down <= rows
      /\ sel_down = 0 => v.sel = v.n
  BY WindowFields DEF Lesser, NrBelow
<1>2. sel \in Positions(v) /\ sel \in Nat /\ sel <= v.n /\ distance \in Nat
  BY <1>1, WindowFields, IteratorRange
<1> HIDE DEF distance, sel_down
<1>3. /\ upper_bound \in Int /\ 2 * upper_bound <= v.nr_rows - 1
      /\ actual_offset \in Nat /\ 2 * actual_offset <= v.nr_rows - 1
      /\ actual_offset <= v.n - sel
  <2>1. upper_bound \in Int /\ 2 * upper_bound <= v.nr_rows - 1
    <3> DEFINE half == (v.nr_rows - 1) \div 2
               wanted == IF sel_down = 0 THEN buffer + rows ELSE ScrollOffset
    <3>1. half \in Int /\ 2 * half <= v.nr_rows - 1
      BY WindowFields
    <3>2. wanted \in Int
      BY <1>1, <1>2, WindowFields, ScrollOffsetAssumption
    <3> HIDE DEF half, wanted
    <3>3. Lesser(wanted, half) \in Int /\ Lesser(wanted, half) <= half
      BY <3>1, <3>2 DEF Lesser
    <3>4. upper_bound = Lesser(wanted, half)
      BY DEF wanted, half
    <3> QED
      BY <3>1, <3>3, <3>4, WindowFields
  <2>2. NrBelow(v, sel) \in Nat /\ NrBelow(v, sel) = v.n - sel
    BY <1>2, WindowFields DEF NrBelow
  <2> HIDE DEF upper_bound, sel
  <2>3. /\ actual_offset \in Nat /\ actual_offset <= v.n - sel
        /\ actual_offset = 0 \/ actual_offset <= upper_bound
    BY <2>1, <2>2 DEF Lesser, Greater
  <2> QED
    BY <2>1, <2>3, WindowFields
<1>0. sel_down # 0 => actual_offset = Lesser(NrBelow(v, sel),
                                            Lesser(ScrollOffset, (v.nr_rows - 1) \div 2))
  <2> DEFINE half == (v.nr_rows - 1) \div 2
             below == NrBelow(v, sel)
  <2>1. half \in Nat /\ below \in Nat /\ ScrollOffset \in Nat
    BY <1>2, WindowFields, ScrollOffsetAssumption DEF NrBelow
  <2>2. sel_down # 0 => actual_offset = Greater(0, Lesser(Lesser(ScrollOffset, half), below))
    OBVIOUS
  <2> HIDE DEF half, below
  <2>3. Greater(0, Lesser(Lesser(ScrollOffset, half), below))
            = Lesser(below, Lesser(ScrollOffset, half))
    BY <2>1 DEF Lesser, Greater
  <2> QED
    BY <2>2, <2>3 DEF half, below
<1> HIDE DEF upper_bound
<1>4. top_down \in Nat /\ top \in Positions(v)
  <2>1. top_down \in Nat
    BY <1>1, <1>2, <1>3, WindowFields DEF Greater
  <2> QED
    BY <2>1, WindowFields, IteratorRange
<1>5. ASSUME Visible(v), v.n > 0
      PROVE  /\ top # 0 /\ sel \in top .. top + v.nr_rows - 1
             /\ sel_down = 0 /\ actual_offset = 0 => top = v.top /\ sel = v.sel
             /\ top <= v.top \/ top + v.nr_rows - 1 <= v.n
             /\ top + v.nr_rows - 1 - sel >= actual_offset
  <2>1. v.top # 0 /\ v.top <= v.sel /\ v.sel <= v.top + v.nr_rows - 1
    BY <1>5, WindowFields DEF Visible
  <2>2. distance = v.sel - v.top
    BY <2>1, DistanceInside DEF distance
  <2>3. /\ top_down = 0 => actual_offset + sel_down <= buffer
        /\ top_down # 0 => top_down = actual_offset + sel_down - buffer
    BY <1>1, <1>2, <1>3, WindowFields DEF Greater
  <2>4. /\ v.top \in Int /\ v.sel \in Int /\ v.nr_rows \in Int /\ v.n \in Int
        /\ actual_offset \in Int /\ sel_down \in Int /\ top_down \in Int
    BY <1>1, <1>3, <1>4, WindowFields
  <2> HIDE DEF top_down, actual_offset
  <2>5. v.top + top_down <= v.n
    <3>1. CASE top_down = 0
      BY <3>1, WindowFields
    <3>2. CASE top_down # 0
      BY <1>3, <2>2, <2>3, <2>4, <3>2
    <3> QED
      BY <3>1, <3>2
  <2>6. top = v.top + top_down
    BY <1>4, <2>5, WindowFields, ForwardInside
  <2> HIDE DEF top
  <2>7. top # 0 /\ top <= sel /\ sel <= top + v.nr_rows - 1
    <3>1. CASE top_down = 0
      BY <1>1, <1>3, <2>1, <2>2, <2>3, <2>4, <2>6, <3>1
    <3>2. CASE top_down # 0
      <4>1. top_down = actual_offset + sel_down - (v.nr_rows - 1 - (v.sel - v.top))
        BY <2>2, <2>3, <3>2
      <4>2. top = actual_offset + sel - (v.nr_rows - 1)
        BY <2>4, <2>6, <4>1
      <4>3. top >= v.top + 1 /\ top \in Int
        BY <1>4, <2>4, <2>6, <3>2
      <4>4. actual_offset <= v.nr_rows - 1 /\ actual_offset >= 0
        BY <1>3, <2>4
      <4> HIDE DEF sel
      <4>5. sel \in Int /\ v.top > 0
        BY <1>2, <2>1, WindowFields
      <4>6. v.nr_rows \in Int /\ v.top \in Int /\ actual_offset \in Int
        BY <2>4, Zenon
      <4> QED
        BY <4>2, <4>3, <4>4, <4>5, <4>6
    <3> QED
      BY <3>1, <3>2
  <2>8. sel_down = 0 /\ actual_offset = 0 => top = v.top /\ sel = v.sel
    BY <1>4, <2>1, <2>2, <2>3, <2>4, <2>6
  <2>9. top + v.nr_rows - 1 - sel >= actual_offset
    <3>1. top_down >= actual_offset + sel_down - buffer
      BY <1>4, <2>2, <2>3, <2>4
    <3> QED
      BY <2>2, <2>4, <2>6, <3>1
  <2>10. top <= v.top \/ top + v.nr_rows - 1 <= v.n
    <3>1. CASE top_down = 0
      BY <2>4, <2>6, <3>1
    <3>2. CASE top_down # 0
      <4>1. top + v.nr_rows - 1 = actual_offset + sel
        BY <2>2, <2>3, <2>4, <2>6, <3>2
      <4> HIDE DEF sel
      <4> QED
        BY <1>2, <1>3, <2>4, <4>1
    <3> QED
      BY <3>1, <3>2
  <2> QED
    BY <1>2, <1>4, <2>7, <2>8, <2>9, <2>10, WindowFields
<1>6. ASSUME v.n = 0
      PROVE  sel_down = 0 /\ actual_offset = 0 => top = v.top /\ sel = v.sel
  BY <1>2, <1>4, <1>6, WindowFields
<1>7. Down(v, rows) = IF sel_down > 0 \/ actual_offset > 0
                      THEN SelChanged(Moved(v, top, sel)) ELSE Moved(v, top, sel)
  BY DEF Down, sel_down, distance, upper_bound
<1> HIDE DEF top, sel, actual_offset
<1>10. /\ Down(v, rows).top = top /\ Down(v, rows).sel = sel
       /\ Down(v, rows).nr_rows = v.nr_rows
  <2> DEFINE m == Moved(v, top, sel)
  <2>1. m \in Windows /\ m.top = top /\ m.sel = sel /\ m.nr_rows = v.nr_rows
    BY <1>2, <1>4, MovedWindow
  <2>2. Down(v, rows) \in {m, SelChanged(m)}
    BY <1>7
  <2> HIDE DEF m
  <2> QED
    BY <2>1, <2>2, SelChangedWindow
<1>11. ASSUME Visible(v)
       PROVE  /\ NoEmptier(v, Down(v, rows))
              /\ Down(v, rows).sel # v.sel => OffsetBelow(v, Down(v, rows))
  <2>1. CASE v.n = 0
    BY <1>2, <1>4, <1>10, <2>1, WindowFields DEF NoEmptier
  <2>2. CASE v.n > 0
    <3>1. /\ top <= v.top \/ top + v.nr_rows - 1 <= v.n
          /\ top + v.nr_rows - 1 - sel >= actual_offset
      BY <1>5, <1>11, <2>2
    <3>2. NoEmptier(v, Down(v, rows))
      BY <1>10, <3>1 DEF NoEmptier
    <3>3. sel # v.sel => sel_down # 0
      BY WindowFields DEF sel
    <3>4. sel # v.sel => top + v.nr_rows - 1 - sel >=
              Lesser(NrBelow(v, sel), Lesser(ScrollOffset, (v.nr_rows - 1) \div 2))
      BY <1>0, <3>1, <3>3
    <3> QED
      BY <1>10, <3>2, <3>4 DEF OffsetBelow
  <2> QED
    BY <2>1, <2>2, WindowFields
<1>8. CASE sel_down > 0 \/ actual_offset > 0
  BY <1>2, <1>4, <1>5, <1>7, <1>8, <1>11, MovedKeeps
<1>9. CASE ~(sel_down > 0 \/ actual_offset > 0)
  <2>1. sel_down = 0 /\ actual_offset = 0
    BY <1>9, <1>1, <1>3
  <2>2. Visible(v) => /\ v.n > 0 => top # 0 /\ sel \in top .. top + v.nr_rows - 1
                      /\ top = v.top /\ sel = v.sel
    BY <2>1, <1>5, <1>6, WindowFields
  <2> QED
    BY <1>2, <1>4, <1>7, <1>9, <1>11, <2>2, MovedQuietly
<1> QED
  BY <1>8, <1>9

(* window_page_up and window_half_page_up.                                 *)
LEMMA LinesUpKeeps ==
    ASSUME NEW v \in Windows, NEW lines \in Nat
    PROVE  Keeps(v, LinesUp(v, lines))
<1> DEFINE k == Lesser(lines, Lesser(NrAbove(v, v.sel), NrAbove(v, v.top)))
           top == Back(v, v.top, k)
           sel == Back(v, v.sel, k)
<1>1. k \in Nat /\ k <= NrAbove(v, v.sel) /\ k <= NrAbove(v, v.top)
  BY WindowFields DEF Lesser, NrAbove
<1> HIDE DEF k
<1>2. top \in Positions(v) /\ sel \in Positions(v)
  BY <1>1, WindowFields, IteratorRange
<1>3. ASSUME Visible(v), v.n > 0
      PROVE  top # 0 /\ sel \in top .. top + v.nr_rows - 1
  <2>1. v.top # 0 /\ v.top <= v.sel /\ v.sel <= v.top + v.nr_rows - 1
    BY <1>3, WindowFields DEF Visible
  <2>2. k <= v.top - 1 /\ k <= v.sel - 1
    BY <1>1, <2>1, WindowFields DEF NrAbove
  <2>3. top = v.top - k /\ sel = v.sel - k
    BY <1>1, <2>2, WindowFields, BackInside
  <2> QED
    BY <1>1, <2>1, <2>2, <2>3, WindowFields
<1>4. LinesUp(v, lines) = SelChanged(Moved(v, top, sel))
  BY DEF LinesUp, k
<1> HIDE DEF top, sel
<1> QED
  BY <1>2, <1>3, <1>4, MovedKeeps

(* The row on the last line that shows one.                                *)
LEMMA WindowBottomRange ==
    ASSUME NEW v \in Windows
    PROVE  /\ WindowBottom(v) \in Nat
           /\ v.top <= WindowBottom(v) /\ WindowBottom(v) <= v.n
           /\ WindowBottom(v) <= v.top + v.nr_rows - 1
           /\ WindowBottom(v) = v.n \/ WindowBottom(v) = v.top + v.nr_rows - 1
BY WindowFields DEF WindowBottom, Lesser, NrBelow

(* window_page_down and window_half_page_down.                             *)
LEMMA LinesDownKeeps ==
    ASSUME NEW v \in Windows, NEW lines \in Nat
    PROVE  Keeps(v, LinesDown(v, lines))
<1> DEFINE bot == WindowBottom(v)
           k == Lesser(lines, Lesser(NrBelow(v, v.sel), NrBelow(v, bot)))
           top == Forward(v, v.top, k)
           sel == v.sel + k
<1>1. bot \in Nat /\ v.top <= bot /\ bot <= v.n
  BY WindowBottomRange
<1> HIDE DEF bot
<1>2. k \in Nat /\ k <= v.n - v.sel /\ k <= v.n - bot
  BY <1>1, WindowFields DEF Lesser, NrBelow
<1> HIDE DEF k
<1>3. top \in Positions(v) /\ sel \in Positions(v)
  BY <1>2, WindowFields, IteratorRange
<1>4. top = v.top + k
  BY <1>1, <1>2, WindowFields, ForwardInside
<1>5. ASSUME Visible(v), v.n > 0
      PROVE  top # 0 /\ sel \in top .. top + v.nr_rows - 1
  BY <1>2, <1>4, <1>5, WindowFields DEF Visible
<1>6. LinesDown(v, lines) = SelChanged(Moved(v, top, sel))
  BY DEF LinesDown, k, bot
<1> HIDE DEF top, sel
<1> QED
  BY <1>3, <1>5, <1>6, MovedKeeps

(* window_goto_top calls sel_changed only when the selection moves, and    *)
(* then it was the first row already, with nothing above it.               *)
LEMMA GotoTopKeeps ==
    ASSUME NEW v \in Windows
    PROVE  Keeps(v, GotoTop(v))
<1> DEFINE first == Forward(v, 0, 1)
           m == Moved(v, first, first)
<1>1. first \in Positions(v) /\ first \in Nat
  BY WindowFields, IteratorRange
<1>2. v.n > 0 => first = 1
  BY WindowFields, ForwardInside
<1> HIDE DEF first
<1>3. GotoTop(v) = IF first # v.sel THEN SelChanged(m) ELSE m
  BY <1>1, MovedWindow DEF GotoTop, SelChangedFrom, first
<1>4. v.n > 0 => first # 0 /\ first \in first .. first + v.nr_rows - 1
  BY <1>2, WindowFields
<1> HIDE DEF m
<1>5. CASE first # v.sel
  BY <1>1, <1>3, <1>4, <1>5, MovedKeeps DEF m
<1>6. CASE first = v.sel
  <2>1. Visible(v) => first = v.top
    BY <1>1, <1>2, <1>6, WindowFields DEF Visible
  <2> QED
    BY <1>1, <1>3, <1>4, <1>6, <2>1, MovedQuietly DEF m
<1> QED
  BY <1>5, <1>6

(* window_goto_bottom leaves the last row selected on the last line; it    *)
(* may move top without a call of sel_changed.                             *)
LEMMA GotoBottomVisible ==
    ASSUME NEW v \in Windows
    PROVE  /\ GotoBottom(v) \in Windows /\ Visible(GotoBottom(v))
           /\ GotoBottom(v).n = v.n
<1> DEFINE top == Greater(Lesser(1, v.n), v.n - v.nr_rows + 1)
           m == Moved(v, top, v.n)
<1>1. /\ top \in Positions(v) /\ v.n \in Positions(v)
      /\ v.n > 0 => top # 0 /\ v.n \in top .. top + v.nr_rows - 1
  BY WindowFields DEF Greater, Lesser
<1> HIDE DEF top
<1>2. /\ m \in Windows /\ m.top = top /\ m.sel = v.n /\ m.n = v.n
      /\ m.nr_rows = v.nr_rows
  BY <1>1, MovedWindow
<1>3. GotoBottom(v) = IF m.sel # v.sel THEN SelChanged(m) ELSE m
  BY DEF GotoBottom, SelChangedFrom, top
<1> HIDE DEF m
<1>4. CASE m.sel # v.sel
  BY <1>1, <1>2, <1>3, <1>4, SelChangedWindow DEF Visible
<1>5. CASE m.sel = v.sel
  BY <1>1, <1>2, <1>3, <1>5 DEF Visible
<1> QED
  BY <1>4, <1>5

(* window_goto_bottom asks for a redraw when it moves the selection.       *)
LEMMA GotoBottomChanges ==
    ASSUME NEW v \in Windows, v.sel # v.n
    PROVE  GotoBottom(v).changed
<1> DEFINE top == Greater(Lesser(1, v.n), v.n - v.nr_rows + 1)
           m == Moved(v, top, v.n)
<1>1. top \in Positions(v) /\ v.n \in Positions(v)
  BY WindowFields DEF Greater, Lesser, Positions
<1> HIDE DEF top
<1>2. m \in Windows /\ m.sel = v.n
  BY <1>1, MovedWindow
<1>3. GotoBottom(v) = IF m.sel # v.sel THEN SelChanged(m) ELSE m
  BY DEF GotoBottom, SelChangedFrom, top
<1> HIDE DEF m
<1> QED
  BY <1>2, <1>3, SelChangedWindow

(* window_scroll_down.                                                     *)
LEMMA ScrollDownKeeps ==
    ASSUME NEW v \in Windows
    PROVE  Keeps(v, ScrollDown(v))
<1>1. CASE NrBelow(v, WindowBottom(v)) = 0 \/ NrBelow(v, v.top) = 0
  BY <1>1 DEF ScrollDown, Keeps, Quiet
<1>2. CASE ~(NrBelow(v, WindowBottom(v)) = 0 \/ NrBelow(v, v.top) = 0)
  <2> DEFINE top == v.top + 1
             sel == IF v.top = v.sel THEN Forward(v, v.sel, 1) ELSE v.sel
  <2>1. v.top < v.n
    BY <1>2, WindowFields DEF NrBelow
  <2>2. v.top = v.sel => sel = v.sel + 1
    BY <2>1, WindowFields, ForwardInside
  <2>3. v.top # v.sel => sel = v.sel
    OBVIOUS
  <2>4. ScrollDown(v) = SelChanged(Moved(v, top, sel))
    BY <1>2 DEF ScrollDown
  <2> HIDE DEF sel
  <2>5. top \in Positions(v) /\ sel \in Positions(v)
    BY <2>1, <2>2, <2>3, WindowFields
  <2>6. Visible(v) => (v.n > 0 => top # 0 /\ sel \in top .. top + v.nr_rows - 1)
    BY <2>1, <2>2, <2>3, WindowFields DEF Visible
  <2> HIDE DEF top
  <2> QED
    BY <2>4, <2>5, <2>6, MovedKeeps
<1> QED
  BY <1>1, <1>2

(* window_scroll_up, the second definition.                                *)
LEMMA ScrollUpKeeps ==
    ASSUME NEW v \in Windows
    PROVE  Keeps(v, ScrollUp(v))
<1>1. CASE NrAbove(v, v.top) = 0
  BY <1>1 DEF ScrollUp, Keeps, Quiet
<1>2. CASE NrAbove(v, v.top) # 0
  <2> DEFINE bottom == WindowBottom(v)
             top == Back(v, v.top, 1)
             sel == IF bottom = v.sel THEN Back(v, v.sel, 1) ELSE v.sel
  <2>1. top \in Positions(v) /\ sel \in Positions(v)
    BY WindowFields, IteratorRange
  <2>2. ScrollUp(v) = SelChanged(Moved(v, top, sel))
    BY <1>2 DEF ScrollUp
  <2>3. ASSUME Visible(v), v.n > 0
        PROVE  top # 0 /\ sel \in top .. top + v.nr_rows - 1
    <3>1. v.top >= 2 /\ v.top <= v.sel /\ v.sel <= v.top + v.nr_rows - 1
      BY <1>2, <2>3, WindowFields DEF Visible, NrAbove
    <3>2. top = v.top - 1
      BY <3>1, WindowFields, BackInside
    <3>3. bottom = v.sel => sel = v.sel - 1
      BY <3>1, WindowFields, BackInside
    <3>4. bottom # v.sel => sel = v.sel /\ v.sel <= v.top + v.nr_rows - 2
      BY <3>1, WindowFields, WindowBottomRange
    <3> HIDE DEF top, sel, bottom
    <3> QED
      BY <3>1, <3>2, <3>3, <3>4, WindowFields
  <2> HIDE DEF top, sel
  <2> QED
    BY <2>1, <2>2, <2>3, MovedKeeps
<1> QED
  BY <1>1, <1>2

(* window_goto_pos selects a row of the list or its head.                  *)
LEMMA GotoPosWindow ==
    ASSUME NEW v \in Windows, NEW pos \in Int
    PROVE  GotoPos(v, pos) \in Windows /\ GotoPos(v, pos).n = v.n
<1> DEFINE m == Moved(v, v.top, Forward(v, v.top, pos))
<1>1. m \in Windows /\ m.n = v.n
  <2>1. /\ Forward(v, v.top, pos) \in Positions(v)
        /\ v.top \in Positions(v)
    BY WindowFields, IteratorRange
  <2> QED
    BY <2>1, MovedWindow
<1> HIDE DEF m
<1>2. GotoPos(v, pos) \in {m, SelChanged(m)}
  BY DEF GotoPos, SelChangedFrom, m
<1> QED
  BY <1>1, <1>2, SelChangedWindow

(* window_page_top selects the first line.                                 *)
LEMMA PageTopKeeps ==
    ASSUME NEW v \in Windows
    PROVE  Keeps(v, PageTop(v))
<1> DEFINE m == Moved(v, v.top, v.top)
<1>1. Forward(v, v.top, 0) = v.top /\ v.top \in Positions(v)
  BY WindowFields, ForwardInside
<1>2. PageTop(v) = IF m.sel # v.sel THEN SelChanged(m) ELSE m
  BY <1>1 DEF PageTop, GotoPos, SelChangedFrom
<1>3. m.sel = v.top
  BY <1>1, MovedWindow
<1> HIDE DEF m
<1>4. Visible(v) => (v.n > 0 => v.top # 0 /\ v.top \in v.top .. v.top + v.nr_rows - 1)
  BY WindowFields DEF Visible
<1>5. CASE m.sel # v.sel
  BY <1>1, <1>2, <1>4, <1>5, MovedKeeps DEF m
<1>6. CASE m.sel = v.sel
  BY <1>1, <1>2, <1>3, <1>4, <1>6, MovedQuietly DEF m
<1> QED
  BY <1>5, <1>6

(* window_set_sel, with whatever sel_nr the stack holds, leaves iterators  *)
(* of the list.                                                            *)
LEMMA SetSelWindow ==
    ASSUME NEW v \in Windows, NEW p \in Positions(v), NEW init \in Int
    PROVE  /\ SetSel(v, p, init) \in Windows /\ SetSel(v, p, init).n = v.n
           /\ SetSel(v, p, init).sel = p
<1> DEFINE sel_nr == init + p - 1
           off_up == Lesser(ScrollOffset, v.nr_rows \div 2)
           off_down == Lesser(ScrollOffset, (v.nr_rows - 1) \div 2)
           lines_below == v.nr_rows - 1 - sel_nr
           below == NrBelow(v, p)
           scrolled == Greater(0, - lines_below)
           offset_missing ==
               CASE lines_below <= 0 -> Lesser(off_down, below)
                 [] lines_below > 0 /\ lines_below <= below ->
                       Lesser(off_down - lines_below, below - lines_below)
                 [] OTHER -> 0
           down == scrolled + Greater(0, offset_missing)
           top == IF sel_nr < off_up THEN Forward(v, 0, 1)
                  ELSE Forward(v, v.top, down)
           m == Moved(v, top, p)
<1>1. off_down \in Int
  BY WindowFields, ScrollOffsetAssumption DEF Lesser
<1>2. lines_below \in Int /\ below \in Int
  BY WindowFields DEF NrBelow
<1> HIDE DEF off_down, lines_below, below
<1>3. offset_missing \in Int /\ scrolled \in Int
  BY <1>1, <1>2 DEF Lesser, Greater
<1> HIDE DEF offset_missing, scrolled
<1>4. down \in Int
  BY <1>3 DEF Greater
<1> HIDE DEF down
<1>5. top \in Positions(v)
  BY <1>4, WindowFields, IteratorRange
<1>6. m \in Windows /\ m.n = v.n /\ m.sel = p
  BY <1>5, MovedWindow
<1>7. SetSel(v, p, init) = IF p = v.sel THEN v ELSE SelChanged(m)
  BY DEF SetSel, off_down, lines_below, below, offset_missing, scrolled, down
<1> HIDE DEF m
<1> QED
  BY <1>6, <1>7, SelChangedWindow

-----------------------------------------------------------------------------
(* The owner's operations and the terminal's.                              *)

(* window_new.                                                             *)
LEMMA NewWindowVisible ==
    NewWindow \in Windows /\ Visible(NewWindow)
BY DEF NewWindow, Windows, Positions, Visible

(* window_set_empty.                                                       *)
LEMMA SetEmptyVisible ==
    ASSUME NEW v \in Windows
    PROVE  /\ SetEmpty(v) \in Windows /\ Visible(SetEmpty(v))
           /\ SetEmpty(v).changed
<1> DEFINE h == FALSE
           u == OnList(v, 0, h, 0)
<1>2. SetEmpty(v) = SelChanged(u)
  BY DEF SetEmpty, OnList
<1>0. 0 \in Nat /\ 0 \in 0 .. 0 /\ h \in BOOLEAN /\ (0 # 0 => h = TRUE)
  OBVIOUS
<1> HIDE DEF h
<1>1. u \in Windows /\ u.n = 0
  BY <1>0, ContentsRecord
<1> HIDE DEF u
<1>3. /\ SelChanged(u) \in Windows /\ SelChanged(u).n = 0
      /\ SelChanged(u).changed
  BY <1>1, SelChangedWindow
<1> QED
  BY <1>2, <1>3 DEF Visible

(* window_set_contents shows and selects the first row.                    *)
LEMMA SetContentsVisible ==
    ASSUME NEW v \in Windows, NEW n \in Nat
    PROVE  /\ SetContents(v, n) \in Windows /\ Visible(SetContents(v, n))
           /\ SetContents(v, n).changed /\ SetContents(v, n).n = n
           /\ n > 0 => SetContents(v, n).sel = 1
<1> DEFINE first == IF n = 0 THEN 0 ELSE 1
           h == TRUE
           u == OnList(v, n, h, first)
           r == SelChanged(u)
<1>1. first \in 0 .. n /\ (n > 0 => first = 1)
  OBVIOUS
<1>2. SetContents(v, n) = r
  BY DEF SetContents, OnList
<1>0. n \in Nat /\ h \in BOOLEAN /\ h = TRUE
  OBVIOUS
<1> HIDE DEF first, h
<1>3. /\ u \in Windows /\ u.n = n /\ u.top = first /\ u.sel = first
      /\ u.nr_rows = v.nr_rows
  <2>1. first \in 0 .. n
    BY <1>1
  <2>2. u \in Windows
    BY <1>0, <2>1, ContentsRecord
  <2>3. u.n = n
    BY <1>0, <2>1, ContentsRecord
  <2>4. u.top = first
    BY <1>0, <2>1, ContentsRecord
  <2>5. u.sel = first
    BY <1>0, <2>1, ContentsRecord
  <2>6. u.nr_rows = v.nr_rows
    BY DEF OnList, Windows
  <2> QED
    BY <2>2, <2>3, <2>4, <2>5, <2>6
<1> HIDE DEF u
<1>4. /\ r \in Windows /\ r.n = n /\ r.top = first /\ r.sel = first
      /\ r.nr_rows = v.nr_rows /\ r.changed
  BY <1>3, SelChangedWindow
<1> HIDE DEF r
<1>5. v.nr_rows \in Nat \ {0}
  BY WindowFields
<1> QED
  BY <1>1, <1>2, <1>4, <1>5 DEF Visible

(* window_row_vanishes.                                                    *)
LEMMA RowVanishesKeeps ==
    ASSUME NEW v \in Windows, NEW p \in 1 .. v.n
    PROVE  /\ RowVanishes(v, p) \in Windows
           /\ RowVanishes(v, p).changed /\ RowVanishes(v, p).n = v.n - 1
           /\ Visible(v) => Visible(RowVanishes(v, p))
<1> DEFINE Leave(q) == IF q # p THEN q ELSE IF p < v.n THEN p + 1 ELSE p - 1
           Shift(q) == IF q > p THEN q - 1 ELSE q
           top == Shift(Leave(v.top))
           sel == Shift(Leave(v.sel))
           n == v.n - 1
           r == [v EXCEPT !.n = n, !.top = top, !.sel = sel, !.changed = TRUE]
<1>1. v.n \in Nat /\ p \in Nat /\ 1 <= p /\ p <= v.n
  BY WindowFields
<1>2. top \in 0 .. v.n - 1 /\ sel \in 0 .. v.n - 1
  BY <1>1, WindowFields
<1>3. Visible(v) /\ v.n - 1 > 0 =>
         top # 0 /\ top <= sel /\ sel <= top + v.nr_rows - 1
  BY <1>1, WindowFields DEF Visible
<1>4. RowVanishes(v, p) = r
  BY DEF RowVanishes
<1> HIDE DEF top, sel
<1>5. /\ r \in Windows /\ r.n = v.n - 1 /\ r.top = top /\ r.sel = sel
      /\ r.nr_rows = v.nr_rows /\ r.changed
  <2>1. n \in Nat /\ n <= v.n /\ top \in 0 .. n /\ sel \in 0 .. n
    BY <1>1, <1>2
  <2> HIDE DEF n
  <2>2. /\ r \in Windows /\ r.n = n /\ r.top = top /\ r.sel = sel
        /\ r.nr_rows = v.nr_rows /\ r.changed
    BY <2>1, ShrunkRecord
  <2> HIDE DEF r
  <2> QED
    BY <2>2 DEF n
<1> HIDE DEF r
<1>6. Visible(v) => Visible(r)
  BY <1>2, <1>3, <1>5, WindowFields DEF Visible
<1> QED
  BY <1>4, <1>5, <1>6

(* A new height moves top as far as the selection needs.                   *)
LEMMA SetNrRowsKeeps ==
    ASSUME NEW v \in Windows, NEW rows \in Int
    PROVE  Keeps(v, SetNrRows(v, rows))
<1>1. CASE rows < 1
  BY <1>1 DEF SetNrRows, Keeps, Quiet
<1>2. CASE rows >= 1
  <2> DEFINE u == [v EXCEPT !.nr_rows = rows]
             top == IF u.sel < u.top THEN u.sel
                    ELSE Greater(u.top, u.sel - u.nr_rows + 1)
             d == [u EXCEPT !.changed = TRUE]
             c == [d EXCEPT !.top = top]
  <2>1. /\ u \in Windows /\ u.nr_rows = rows /\ u.n = v.n
        /\ u.top = v.top /\ u.sel = v.sel /\ u.head = v.head
    BY <1>2 DEF Windows, Positions
  <2>2. SetNrRows(v, rows) = SelChanged(IF ~u.head THEN u ELSE c)
    BY <1>2 DEF SetNrRows, WindowChanged
  <2> HIDE DEF u
  <2>3. /\ top \in Positions(u)
        /\ v.top # 0 /\ v.top <= v.sel =>
              top # 0 /\ top <= v.sel /\ v.sel <= top + rows - 1
    BY <2>1, WindowFields, <1>2 DEF Greater
  <2> HIDE DEF top
  <2>4. /\ c \in Windows /\ c.n = v.n /\ c.top = top /\ c.sel = v.sel
        /\ c.nr_rows = rows
    <3>1. d \in Windows /\ d.n = v.n /\ d.sel = v.sel /\ d.nr_rows = rows
      BY <2>1 DEF Windows, Positions
    <3>2. top \in Positions(d)
      BY <2>1, <2>3, <3>1, WindowFields
    <3> HIDE DEF d
    <3> QED
      BY <3>1, <3>2 DEF Windows, Positions
  <2> HIDE DEF c
  <2>5. CASE ~u.head
    <3>1. v.n = 0
      BY <2>1, <2>5, WindowFields
    <3>2. SelChanged(u) \in Windows /\ SelChanged(u).n = 0 /\ SelChanged(u).changed
      BY <2>1, <3>1, SelChangedWindow
    <3> QED
      BY <2>2, <2>5, <3>1, <3>2 DEF Keeps, Quiet, Visible
  <2>6. CASE u.head
    <3> DEFINE r == SelChanged(c)
    <3>1. /\ r \in Windows /\ r.changed /\ r.n = v.n /\ r.top = top
          /\ r.sel = v.sel /\ r.nr_rows = rows
      BY <2>4, SelChangedWindow
    <3>2. SetNrRows(v, rows) = r
      BY <2>2, <2>6
    <3> HIDE DEF r
    <3>3. Visible(v) => Visible(r)
      BY <2>1, <2>3, <3>1, WindowFields DEF Visible
    <3> QED
      BY <3>1, <3>2, <3>3 DEF Keeps, Quiet
  <2> QED
    BY <2>5, <2>6
<1> QED
  BY <1>1, <1>2

(* update_window clears the flag only.                                     *)
LEMMA RedrawnWindow ==
    ASSUME NEW v \in Windows
    PROVE  LET r == [v EXCEPT !.changed = FALSE]
           IN  /\ r \in Windows /\ r.n = v.n /\ r.sel = v.sel
               /\ View(r) = View(v) /\ (Visible(v) => Visible(r))
BY DEF Windows, Positions, View, Visible

(* window_page_bottom and window_page_middle keep the selection when the   *)
(* list reaches to the line they go to.                                    *)
LEMMA GotoPosKeeps ==
    ASSUME NEW v \in Windows, NEW pos \in Nat,
           pos < v.nr_rows, v.top + pos <= v.n
    PROVE  Keeps(v, GotoPos(v, pos))
<1> DEFINE m == Moved(v, v.top, v.top + pos)
<1>1. CASE v.top = 0
  <2>1. Forward(v, v.top, pos) \in Positions(v) /\ v.top \in Positions(v)
    BY WindowFields, IteratorRange
  <2> DEFINE k == Moved(v, v.top, Forward(v, v.top, pos))
  <2>2. k \in Windows /\ k.top = 0 /\ k.n = v.n
    BY <1>1, <2>1, MovedWindow
  <2>3. CASE v.n > 0
    <3>1. ~Visible(v)
      BY <1>1, <2>3 DEF Visible
    <3> QED
      BY <3>1, GotoPosWindow DEF Keeps
  <2>4. CASE ~(v.n > 0)
    <3>1. v.n = 0 /\ v.sel = 0 /\ Positions(v) = {0}
      BY <2>4, WindowFields DEF Positions
    <3>2. GotoPos(v, pos) = k
      <4>1. k.sel = v.sel
        BY <2>1, <3>1, MovedWindow
      <4> QED
        BY <4>1 DEF GotoPos, SelChangedFrom
    <3>3. Forward(v, v.top, pos) = v.sel
      BY <2>1, <3>1
    <3>4. v.top \in Positions(v) /\ v.sel \in Positions(v) /\ ~(v.n > 0)
      BY WindowFields, <2>4
    <3> HIDE DEF k
    <3>5. Keeps(v, Moved(v, v.top, v.sel))
      BY <3>4, MovedQuietly
    <3> QED
      BY <3>2, <3>3, <3>5 DEF k
  <2> QED
    BY <2>3, <2>4
<1>2. CASE v.top # 0
  <2>1. Forward(v, v.top, pos) = v.top + pos
    BY <1>2, WindowFields, ForwardInside
  <2>2. v.top \in Positions(v) /\ v.top + pos \in Positions(v)
    BY <1>2, WindowFields DEF Positions
  <2>3. GotoPos(v, pos) = IF m.sel # v.sel THEN SelChanged(m) ELSE m
    BY <2>1 DEF GotoPos, SelChangedFrom
  <2>4. m.sel = v.top + pos
    BY <2>2, MovedWindow
  <2> HIDE DEF m
  <2>5. v.top + pos \in v.top .. v.top + v.nr_rows - 1
    BY <1>2, WindowFields
  <2>6. CASE m.sel # v.sel
    BY <1>2, <2>2, <2>3, <2>5, <2>6, MovedKeeps DEF m
  <2>7. CASE m.sel = v.sel
    BY <1>2, <2>2, <2>3, <2>4, <2>5, <2>7, MovedQuietly DEF m
  <2> QED
    BY <2>6, <2>7
<1> QED
  BY <1>1, <1>2

(* Picking a line keeps the window when it does not lose the selection.    *)
LEMMA PickKeeps ==
    ASSUME NEW v \in Windows
    PROVE  /\ Keeps(v, PageTop(v))
           /\ v.top + (v.nr_rows - 1) <= v.n => Keeps(v, PageBottom(v))
           /\ v.top + v.nr_rows \div 2 <= v.n => Keeps(v, PageMiddle(v))
<1>1. /\ v.nr_rows - 1 \in Nat /\ v.nr_rows - 1 < v.nr_rows
      /\ v.nr_rows \div 2 \in Nat /\ v.nr_rows \div 2 < v.nr_rows
  BY WindowFields
<1> QED
  BY <1>1, PageTopKeeps, GotoPosKeeps DEF PageBottom, PageMiddle

-----------------------------------------------------------------------------
(* No other movement of the user leaves new empty lines either.            *)

(* The same with sel_changed or without it.                                *)
LEMMA MovedNoEmptier ==
    ASSUME NEW v \in Windows, NEW t \in Positions(v), NEW s \in Positions(v),
           t <= v.top \/ t = 1 \/ t + v.nr_rows - 1 <= v.n,
           NEW r \in {Moved(v, t, s), SelChanged(Moved(v, t, s))}
    PROVE  NoEmptier(v, r)
<1> DEFINE m == Moved(v, t, s)
<1>1. m \in Windows /\ m.top = t /\ m.nr_rows = v.nr_rows
  BY MovedWindow
<1> HIDE DEF m
<1>2. r.top = t /\ r.nr_rows = v.nr_rows
  BY <1>1, SelChangedWindow DEF m
<1> QED
  BY <1>2 DEF NoEmptier

(* window_goto_top and window_goto_bottom.                                 *)
LEMMA JumpNoEmptier ==
    ASSUME NEW v \in Windows
    PROVE  NoEmptier(v, GotoTop(v)) /\ NoEmptier(v, GotoBottom(v))
<1>1. NoEmptier(v, GotoTop(v))
  <2> DEFINE first == Forward(v, 0, 1)
  <2>1. first \in Positions(v)
    BY WindowFields, IteratorRange
  <2>2. first <= v.top \/ first = 1
    <3>1. CASE v.n = 0
      BY <2>1, <3>1, WindowFields DEF Positions
    <3>2. CASE v.n > 0
      BY <3>2, WindowFields, ForwardInside
    <3> QED
      BY <3>1, <3>2, WindowFields
  <2>3. GotoTop(v) \in {Moved(v, first, first), SelChanged(Moved(v, first, first))}
    BY DEF GotoTop, SelChangedFrom
  <2> HIDE DEF first
  <2> QED
    BY <2>1, <2>2, <2>3, MovedNoEmptier
<1>2. NoEmptier(v, GotoBottom(v))
  <2> DEFINE top == Greater(Lesser(1, v.n), v.n - v.nr_rows + 1)
  <2>1. /\ top \in Positions(v) /\ v.n \in Positions(v)
        /\ top <= v.top \/ top = 1 \/ top + v.nr_rows - 1 <= v.n
    BY WindowFields DEF Greater, Lesser, Positions
  <2>2. GotoBottom(v) \in {Moved(v, top, v.n), SelChanged(Moved(v, top, v.n))}
    BY DEF GotoBottom, SelChangedFrom
  <2> HIDE DEF top
  <2> QED
    BY <2>1, <2>2, MovedNoEmptier
<1> QED
  BY <1>1, <1>2

(* window_page_up and window_page_down, and the half pages.                *)
LEMMA LinesNoEmptier ==
    ASSUME NEW v \in Windows, Visible(v), NEW lines \in Nat
    PROVE  NoEmptier(v, LinesUp(v, lines)) /\ NoEmptier(v, LinesDown(v, lines))
<1>0. v.n > 0 => v.top # 0
  BY DEF Visible
<1>1. NoEmptier(v, LinesUp(v, lines))
  <2> DEFINE k == Lesser(lines, Lesser(NrAbove(v, v.sel), NrAbove(v, v.top)))
             top == Back(v, v.top, k)
             sel == Back(v, v.sel, k)
  <2>1. k \in Nat /\ k <= NrAbove(v, v.top)
    BY WindowFields DEF Lesser, NrAbove
  <2> HIDE DEF k
  <2>2. top \in Positions(v) /\ sel \in Positions(v)
    BY <2>1, WindowFields, IteratorRange
  <2>3. top <= v.top
    <3>1. CASE v.n = 0
      BY <2>2, <3>1, WindowFields DEF Positions
    <3>2. CASE v.n > 0
      <4>1. k <= v.top - 1
        BY <1>0, <2>1, <3>2, WindowFields DEF NrAbove
      <4>2. top = v.top - k
        BY <2>1, <4>1, WindowFields, BackInside
      <4> QED
        BY <2>1, <4>2, WindowFields
    <3> QED
      BY <3>1, <3>2, WindowFields
  <2>4. LinesUp(v, lines) = SelChanged(Moved(v, top, sel))
    BY DEF LinesUp, k
  <2> HIDE DEF top, sel
  <2> QED
    BY <2>2, <2>3, <2>4, MovedNoEmptier
<1>2. NoEmptier(v, LinesDown(v, lines))
  <2> DEFINE bot == WindowBottom(v)
             k == Lesser(lines, Lesser(NrBelow(v, v.sel), NrBelow(v, bot)))
             top == Forward(v, v.top, k)
             sel == v.sel + k
  <2>1. /\ bot \in Nat /\ v.top <= bot /\ bot <= v.n
        /\ bot = v.n \/ bot = v.top + v.nr_rows - 1
    BY WindowBottomRange
  <2> HIDE DEF bot
  <2>2. k \in Nat /\ k <= v.n - v.sel /\ k <= v.n - bot
    BY <2>1, WindowFields DEF Lesser, NrBelow
  <2> HIDE DEF k
  <2>3. top = v.top + k
    BY <2>1, <2>2, WindowFields, ForwardInside
  <2>4. top \in Positions(v) /\ sel \in Positions(v)
    BY <2>2, WindowFields, IteratorRange
  <2>5. top <= v.top \/ top + v.nr_rows - 1 <= v.n
    BY <2>1, <2>2, <2>3, WindowFields
  <2>6. LinesDown(v, lines) = SelChanged(Moved(v, top, sel))
    BY DEF LinesDown, k, bot
  <2> HIDE DEF top, sel
  <2> QED
    BY <2>4, <2>5, <2>6, MovedNoEmptier
<1> QED
  BY <1>1, <1>2

(* window_scroll_down stops when the last row is on the last line, and     *)
(* window_scroll_up when the first one is on the first.                    *)
LEMMA ScrollNoEmptier ==
    ASSUME NEW v \in Windows, Visible(v)
    PROVE  NoEmptier(v, ScrollDown(v)) /\ NoEmptier(v, ScrollUp(v))
<1>1. NoEmptier(v, ScrollDown(v))
  <2>1. CASE NrBelow(v, WindowBottom(v)) = 0 \/ NrBelow(v, v.top) = 0
    BY <2>1, WindowFields DEF ScrollDown, NoEmptier
  <2>2. CASE ~(NrBelow(v, WindowBottom(v)) = 0 \/ NrBelow(v, v.top) = 0)
    <3> DEFINE top == v.top + 1
               sel == IF v.top = v.sel THEN Forward(v, v.sel, 1) ELSE v.sel
               bottom == WindowBottom(v)
    <3>1. bottom \in Nat /\ bottom < v.n /\ bottom = v.top + v.nr_rows - 1
      BY <2>2, WindowFields, WindowBottomRange DEF NrBelow
    <3>2. ScrollDown(v) = SelChanged(Moved(v, top, sel))
      BY <2>2 DEF ScrollDown
    <3> HIDE DEF bottom
    <3>3. v.top < v.n
      BY <2>2, WindowFields DEF NrBelow
    <3>4. top \in Positions(v) /\ sel \in Positions(v)
      BY <3>3, WindowFields, IteratorRange
    <3>5. top + v.nr_rows - 1 <= v.n
      BY <3>1, WindowFields
    <3> HIDE DEF top, sel
    <3> QED
      BY <3>2, <3>4, <3>5, MovedNoEmptier
  <2> QED
    BY <2>1, <2>2
<1>2. NoEmptier(v, ScrollUp(v))
  <2>1. CASE NrAbove(v, v.top) = 0
    BY <2>1, WindowFields DEF ScrollUp, NoEmptier
  <2>2. CASE NrAbove(v, v.top) # 0
    <3> DEFINE top == Back(v, v.top, 1)
               sel == IF WindowBottom(v) = v.sel THEN Back(v, v.sel, 1) ELSE v.sel
    <3>1. top \in Positions(v) /\ sel \in Positions(v)
      BY WindowFields, IteratorRange
    <3>2. v.top >= 1
      BY <2>2, WindowFields DEF NrAbove, Visible
    <3>3. top = v.top - 1
      BY <3>2, WindowFields, BackInside
    <3>4. ScrollUp(v) = SelChanged(Moved(v, top, sel))
      BY <2>2 DEF ScrollUp
    <3>5. top <= v.top
      BY <3>3, WindowFields
    <3> HIDE DEF top, sel
    <3> QED
      BY <3>1, <3>4, <3>5, MovedNoEmptier
  <2> QED
    BY <2>1, <2>2
<1> QED
  BY <1>1, <1>2
=============================================================================
