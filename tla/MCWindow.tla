------------------------------- MODULE MCWindow -------------------------------
(* Values of the constants of Window that a configuration cannot write.    *)
EXTENDS Window

(* sel_nr may be anything: a little less and a little more than 0.         *)
MCStackValues == {-2, 0, 3}
=============================================================================
