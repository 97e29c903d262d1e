------------------------------- MODULE MCRemote -------------------------------
(* Answers of no line, one line and two lines, in pieces of up to three    *)
(* bytes; commands that fit their buffer.  MCLong and MCUnended, in the    *)
(* place of one of them, make client and server wait for each other.       *)
EXTENDS Remote

MCAnswers == {<<>>, <<"x", "n">>, <<"x", "x", "n", "x", "n">>}
MCShort == {<< <<"x">> >>, << <<"x", "x">>, <<"x">>, <<"x", "x">> >>}
MCShortInput == {<< <<"x", "n">>, <<"n">>, <<"x", "x", "n">> >>}
MCLong == {<< <<"x", "x", "x">> >>}
MCUnended == {<< <<"x", "n">>, <<"x">> >>}
MCNothing == {}
=============================================================================
