----------------------------- MODULE MCHelpers -----------------------------
(* The helpers that are called from everywhere, one of them in a behaviour:*)
(* format_str, scale_samples, ape_read_tags and ape_parse_one.             *)
EXTENDS Format, Scale, Ape

VARIABLE helper

helpers_vars == <<helper, format_vars, scale_vars, ape_vars>>

(* The preamble begins with a symbol that comes again in it.  The files    *)
(* have it at the beginning, in the middle, behind a part of itself, cut   *)
(* off, and at the end.                                                    *)
MCPreamble == <<"A", "P", "A", "G">>
MCFiles ==
    LET x(n) == [k \in 1 .. n |-> "x"]
    IN  {<<>>, <<"A">>, MCPreamble \o x(6), x(3) \o MCPreamble \o x(4),
         <<"A", "P">> \o MCPreamble \o x(4),
         <<"A", "P", "A">> \o MCPreamble \o x(3) \o MCPreamble \o x(2),
         x(7) \o <<"A", "P", "A">>, x(4) \o MCPreamble, x(2) \o MCPreamble \o x(1)}

Init ==
    /\ helper \in {"format", "scale", "search", "items"}
    /\ FormatInit /\ ScaleInit /\ ApeInit

FormatStep ==
    /\ helper = "format" /\ FormatNext /\ UNCHANGED <<scale_vars, ape_vars>>
ScaleStep ==
    /\ helper = "scale" /\ ScaleNext /\ UNCHANGED <<format_vars, ape_vars>>
SearchStep ==
    /\ helper = "search"
    /\ \/ ReadTags \/ FindFooter \/ ReadBuffer \/ MatchSymbol \/ ReadFound
       \/ SeekTag \/ Return
    /\ UNCHANGED <<format_vars, scale_vars>>
ItemsStep ==
    /\ helper = "items"
    /\ ParseOne \/ ParseItem \/ ParseEnd
    /\ UNCHANGED <<format_vars, scale_vars>>

Next ==
    /\ FormatStep \/ ScaleStep \/ SearchStep \/ ItemsStep
    /\ UNCHANGED helper

Spec == Init /\ [][Next]_helpers_vars
=============================================================================
