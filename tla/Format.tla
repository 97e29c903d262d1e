------------------------------- MODULE Format -------------------------------
(***************************************************************************)
(* format_str of ui_curses.c, which fits a text into a field of the screen:*)
(* short texts are filled with blanks, long ones end in an ellipsis.       *)
(* A character is its width, and a position in buf the number of columns   *)
(* in front of it.                                                         *)
(***************************************************************************)
EXTENDS Integers

CONSTANT FieldWidths  \* the widths that fields have
ASSUME FieldWidthsAssumption == FieldWidths \subseteq Nat

VARIABLES
    writing,           \* where format_str is
    field,             \* the width it was asked for
    width,             \* what is left of it
    d,                 \* the position in buf
    ellipsis_pos,      \* where the ellipsis goes, should the text be too long
    cut_double_width,  \* it covers half of a character
    text               \* history: the columns of text seen

fields == <<field, text>>
format_vars == <<writing, fields, width, d, ellipsis_pos, cut_double_width>>

FormatInit ==
    /\ writing = "idle"
    /\ field = 0 /\ width = 0 /\ text = 0
    /\ d = 0 /\ ellipsis_pos = 0 /\ cut_double_width = FALSE

FormatStr ==
    /\ writing # "loop" /\ writing' = "loop"
    /\ field' \in FieldWidths /\ width' = field' /\ text' = 0
    /\ d' = 0 /\ ellipsis_pos' = 0 /\ cut_double_width' = FALSE

(* Fault: the double-width character that does not leave three columns.    *)
EllipsisSingle(w) ==
    /\ ellipsis_pos' = IF width = 3 THEN d ELSE ellipsis_pos
    /\ UNCHANGED cut_double_width

(* The last place that leaves room for the ellipsis.                       *)
Ellipsis(w) ==
    /\ ellipsis_pos' = CASE width = 3 -> d
                         [] width = 4 /\ w = 2 -> d + 1
                         [] OTHER -> ellipsis_pos
    /\ cut_double_width' = (cut_double_width \/ (width = 4 /\ w = 2))

(* One round of the loop with a character of width w.                      *)
FormatChar(w) ==
    /\ writing = "loop"
    /\ Ellipsis(w)
    /\ width' = width - w /\ text' = text + w
    /\ \/ width' < 0 /\ writing' = "cut" /\ d' = ellipsis_pos' + 3
       \/ width' >= 0 /\ d' = d + w /\ UNCHANGED writing
    /\ UNCHANGED field

(* The end of the text: blanks.                                            *)
FormatEnd ==
    /\ writing = "loop" /\ writing' = "whole"
    /\ d' = d + width
    /\ UNCHANGED <<fields, width, ellipsis_pos, cut_double_width>>

FormatNext == FormatStr \/ FormatEnd \/ \E w \in 0 .. 2 : FormatChar(w)

FormatSpec == FormatInit /\ [][FormatNext]_format_vars

(* The field is filled exactly, a text that fits is shown whole, and one   *)
(* that is cut gives up no column that the ellipsis does not need: only    *)
(* half a double-width character becomes a blank.  A field narrower than   *)
(* the ellipsis is overrun by it.                                          *)
FieldFilled ==
    /\ writing = "whole" => d = field /\ text <= field
    /\ writing = "cut" => d = (IF field < 3 THEN 3 ELSE field) /\ text > field
=============================================================================
