-------------------------------- MODULE Remote --------------------------------
(***************************************************************************)
(* main.c: cmus-remote sends commands over a socket, one line each, and    *)
(* reads the answer to one before it sends the next.  An answer ends with  *)
(* an empty line; the socket is a stream and may deliver it in any pieces. *)
(* The server, which is not in src/, answers each line it has completed.   *)
(* With a password, the first command is the password, and the empty       *)
(* answer says that it was right.                                          *)
(*                                                                         *)
(* The text of commands and answers is abstracted to "x", a newline is     *)
(* "n".                                                                    *)
(*                                                                         *)
(* A definition under the comment "Fault" is no part of the model: it is   *)
(* the definition after it with a plausible bug.                           *)
(***************************************************************************)
EXTENDS Integers, SequencesExt

CONSTANTS
    LineSize,     \* the size of the buffers of send_cmd and of fgets
    ReadSize,     \* the size of the buffer of read_answer
    Arguments,    \* what may be on the command line: sequences of commands
    Inputs,       \* what may be on stdin: sequences of lines
    Answers,      \* what the server may answer, without the empty line
    ServerQuits   \* whether the server may end, or the connection to it break

Bytes == {"x", "n"}
Newline == <<"n">>

(* A command holds no newline, a line one at its end or, if it is the last,*)
(* none, and an answer no empty line.                                      *)
ASSUME RemoteAssumption ==
    /\ LineSize \in Nat \ {0, 1} /\ ReadSize \in Nat \ {0}
    /\ Arguments \subseteq Seq(Seq({"x"}))
    /\ Inputs \subseteq Seq(Seq(Bytes) \ {<<>>})
    /\ \A lines \in Inputs : \A i \in DOMAIN lines :
           \A k \in 1 .. Len(lines[i]) - 1 : lines[i][k] = "x"
    /\ \A a \in Answers \ {<<>>} :
           /\ a \in Seq(Bytes)
           /\ a[1] = "x" /\ a[Len(a)] = "n"
           /\ \A i \in 1 .. Len(a) - 1 : a[i] = "x" \/ a[i + 1] = "x"
    /\ ServerQuits \in BOOLEAN

VARIABLES
    todo,     \* the lines that are still to be written
    login,    \* the line under way, or the next one, is the password
    pc,       \* what the client is about to do
    len,      \* bytes of this answer that have been read
    got_nl,   \* whether the last piece of it ended with a newline
    out,      \* what has been written to stdout
    failed,   \* read() has failed: the connection is of no more use
    up,       \* on the way to the server
    partial,  \* the line that the server has not got the end of
    down,     \* on the way to the client
    closed,   \* the server has ended, or the connection to it is broken
    answered, \* the text of all answers
    refused   \* the server did not accept the password

client == <<todo, login, pc, len, got_nl, out, failed>>
server == <<partial, closed, answered, refused>>
vars == <<client, server, up, down>>

Shorter(a, b) == IF a < b THEN a ELSE b

(* vsnprintf: a command that does not fit loses its end, and its newline.  *)
Formatted(command) ==
    LET line == command \o Newline
    IN  SubSeq(line, 1, Shorter(LineSize - 1, Len(line)))

(* fgets: a line that does not fit comes in pieces; a command fits.        *)
Piece(line) == SubSeq(line, 1, Shorter(LineSize - 1, Len(line)))
Remainder(line) == SubSeq(line, Len(Piece(line)) + 1, Len(line))

(* What main writes: commands made from arguments, or the lines of stdin.  *)
Lines ==
    {[i \in DOMAIN arguments |-> Formatted(arguments[i])] : arguments \in Arguments}
    \cup Inputs

Password == Formatted(<<"x">>)

Init ==
    /\ login \in BOOLEAN
    /\ \E lines \in Lines :
          todo = IF login THEN <<Password>> \o lines ELSE lines
    /\ pc = "send" /\ len = 0 /\ got_nl = FALSE /\ out = <<>>
    /\ failed = FALSE
    /\ up = <<>> /\ partial = <<>> /\ down = <<>>
    /\ closed = FALSE /\ answered = <<>> /\ refused = FALSE

-----------------------------------------------------------------------------
(* The client.                                                             *)

(* write_line: without a server the write fails, or it succeeds because it *)
(* is the first since the server ended.                                    *)
WriteLine ==
    /\ pc = "send" /\ todo # <<>>
    /\ \/ closed /\ pc' = "died" /\ UNCHANGED <<todo, len, got_nl, up>>
       \/ /\ ~failed
          /\ up' = up \o Piece(Head(todo))
          /\ todo' = IF Remainder(Head(todo)) = <<>> THEN Tail(todo)
                     ELSE <<Remainder(Head(todo))>> \o Tail(todo)
          /\ pc' = "read" /\ len' = 0 /\ got_nl' = FALSE
    /\ UNCHANGED <<login, out, failed, down, server>>

Finish ==
    /\ pc = "send" /\ todo = <<>>
    /\ pc' = "done"
    /\ UNCHANGED <<todo, login, len, got_nl, out, failed, up, down, server>>

(* Fault: any answer will do.                                              *)
ReturnsAlways(total) ==
    /\ login' = FALSE
    /\ pc' = "send"

(* read_answer returns the length of the answer: that to the password has  *)
(* to be 1.                                                                *)
Returns(total) ==
    /\ login' = FALSE
    /\ pc' = IF login /\ total # 1 THEN "died" ELSE "send"

(* Fault: a piece that ends with a newline ends the answer.                *)
EndsAtNewline(buf, total) == buf[Len(buf)] = "n"

(* Fault: the newline at the end of the piece before is forgotten.         *)
EndsInOnePiece(buf, total) ==
    \/ total = 1 /\ buf[1] = "n"
    \/ Len(buf) > 1 /\ buf[Len(buf)] = "n" /\ buf[Len(buf) - 1] = "n"

(* The piece is the newline that ends the answer.                          *)
OnlyNewline(buf, total) == (got_nl \/ total = 1) /\ buf[1] = "n"

(* The piece buf, with which total bytes have been read, is the last.      *)
EndsAnswer(buf, total) ==
    \/ OnlyNewline(buf, total)
    \/ Len(buf) > 1 /\ buf[Len(buf)] = "n" /\ buf[Len(buf) - 1] = "n"

(* Fault: the empty line is shown, too.                                    *)
PrintedWithEnd(buf, total) == IF OnlyNewline(buf, total) THEN <<>> ELSE buf

(* What goes to stdout: not the newline that ends the answer.              *)
Printed(buf, total) ==
    IF ~EndsAnswer(buf, total) THEN buf
    ELSE IF OnlyNewline(buf, total) THEN <<>>
    ELSE SubSeq(buf, 1, Len(buf) - 1)

(* One turn of the loop in read_answer.                                    *)
ReadPiece ==
    /\ pc = "read" /\ down # <<>>
    /\ \E rc \in 1 .. Shorter(ReadSize, Len(down)) :
          LET buf == SubSeq(down, 1, rc)
          IN  /\ down' = SubSeq(down, rc + 1, Len(down))
              /\ len' = len + rc
              /\ out' = out \o Printed(buf, len + rc)
              /\ IF EndsAnswer(buf, len + rc)
                 THEN Returns(len + rc) /\ UNCHANGED got_nl
                 ELSE got_nl' = (buf[rc] = "n") /\ UNCHANGED <<login, pc>>
    /\ UNCHANGED <<todo, failed, up, server>>

(* read() fails, before the answer or in the middle of it, and what was on *)
(* the way is lost: the client warns, and goes on as if the answer ended.  *)
ReadFails ==
    /\ pc = "read" /\ closed
    /\ failed' = TRUE /\ down' = <<>>
    /\ Returns(len)
    /\ UNCHANGED <<todo, len, got_nl, out, up, server>>

ReadEof ==
    /\ pc = "read" /\ down = <<>> /\ closed
    /\ pc' = "died"
    /\ UNCHANGED <<todo, login, len, got_nl, out, failed, up, down, server>>

-----------------------------------------------------------------------------
(* The server.                                                             *)

ServerReads ==
    /\ ~closed /\ up # <<>>
    /\ up' = Tail(up)
    /\ IF Head(up) = "n"
       THEN \E answer \in Answers :
               /\ down' = down \o answer \o Newline
               /\ answered' = answered \o answer
               /\ partial' = <<>>
               /\ refused' = (refused \/ (login /\ answer # <<>>))
       ELSE /\ partial' = Append(partial, Head(up))
            /\ UNCHANGED <<down, answered, refused>>
    /\ UNCHANGED <<client, closed>>

ServerEnds ==
    /\ ServerQuits /\ ~closed
    /\ closed' = TRUE
    /\ UNCHANGED <<client, partial, answered, refused, up, down>>

Over == pc \in {"done", "died"}

(* Nothing is left to do.                                                  *)
Ended == Over /\ UNCHANGED vars

Client == WriteLine \/ Finish \/ ReadPiece \/ ReadFails \/ ReadEof
Next == Client \/ ServerReads \/ ServerEnds \/ Ended
Spec == Init /\ [][Next]_vars

(* Both processes run; the server reads what it is sent.                   *)
FairSpec == Spec /\ WF_vars(Client) /\ WF_vars(ServerReads)

-----------------------------------------------------------------------------
(* What is in the variables and on the wire: text and newlines only, and a *)
(* line that the server waits for the end of (sockets and buffers of       *)
(* main.c).                                                                *)
TypeOK ==
    /\ todo \in Seq(Seq(Bytes)) /\ pc \in {"send", "read", "done", "died"}
    /\ login \in BOOLEAN /\ len \in Nat /\ got_nl \in BOOLEAN
    /\ out \in Seq(Bytes) /\ up \in Seq(Bytes) /\ down \in Seq(Bytes)
    /\ partial \in Seq({"x"}) /\ answered \in Seq(Bytes)
    /\ {closed, refused, failed} \subseteq BOOLEAN

(* A command is sent when the answer to the one before has been read to    *)
(* its end, however the stream was cut (read_answer): a byte left over     *)
(* would be taken for the next answer, and all later ones be shifted.      *)
InStep == pc = "send" /\ ~failed => up = <<>> /\ partial = <<>> /\ down = <<>>

(* The user is shown the text of the answers and nothing else, not the     *)
(* empty line that ends each, and all of it before the next command, until *)
(* a read fails: then the last answer may be cut, and the client may end   *)
(* as if it were not (main.c:34-37, main's return 0).                      *)
ShowsAnswers ==
    /\ IsPrefix(out, answered)
    /\ pc \in {"send", "done"} /\ ~failed => out = answered

(* After a refused password nothing more is sent.  remote_connect returns  *)
(* 1 for it only if the read fails behind the first byte of the refusal,   *)
(* which read_answer then returns the length of.                           *)
Accepted == ~login /\ pc # "died"
NoCommandRefused ==
    refused => /\ up = <<>> /\ partial = <<>>
               /\ Accepted => failed /\ Len(out) = 1

(* cmus-remote ends: no command waits for an answer for ever               *)
(* (read_answer).                                                          *)
Finishes == <>Over
=============================================================================
