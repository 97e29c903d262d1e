----------------------------- MODULE RemoteProofs -----------------------------
(***************************************************************************)
(* Whatever the buffers, commands and answers: the client is in step with  *)
(* the server, shows the answers, and sends nothing after a refusal.  The  *)
(* invariant follows the answer under way: what has been read of it, what  *)
(* is still in the socket, and that together they are all of it, until a   *)
(* read fails, at any place of the answer, and no other is tried.          *)
(***************************************************************************)
EXTENDS Remote, SequenceTheorems, TLAPS

(* Only the end of a line may be a newline.                                *)
IsLine(l) == l \in Seq(Bytes) /\ \A k \in 1 .. Len(l) - 1 : l[k] = "x"

(* An answer without the empty line that ends it.                          *)
IsAnswer(a) ==
    /\ a \in Seq(Bytes)
    /\ a # <<>> => /\ a[1] = "x" /\ a[Len(a)] = "n"
                   /\ \A i \in 1 .. Len(a) - 1 : a[i] = "x" \/ a[i + 1] = "x"

WireType ==
    /\ todo \in Seq(Seq(Bytes) \ {<<>>})
    /\ \A i \in 1 .. Len(todo) : IsLine(todo[i])
    /\ IsLine(up)
    /\ down \in Seq(Bytes) /\ out \in Seq(Bytes) /\ answered \in Seq(Bytes)
    /\ len \in Nat /\ got_nl \in BOOLEAN /\ failed \in BOOLEAN
    /\ pc \in {"send", "read", "done", "died"}

(* Nothing is under way.                                                   *)
Quiet == up = <<>> /\ partial = <<>> /\ down = <<>>

(* Before the answer to the password, nothing is shown.                    *)
Waiting ==
    /\ down = <<>> /\ len = 0 /\ ~got_nl
    /\ out = answered /\ ~refused
    /\ login => out = <<>>

(* The answer a is read: its first len bytes are shown.                    *)
Answering(a, before) ==
    /\ IsAnswer(a) /\ before \in Seq(Bytes)
    /\ up = <<>> /\ partial = <<>>
    /\ len <= Len(a)
    /\ down = SubSeq(a \o Newline, len + 1, Len(a) + 1)
    /\ got_nl <=> (len > 0 /\ a[len] = "n")
    /\ out = before \o SubSeq(a, 1, len)
    /\ answered = before \o a
    /\ login => before = <<>>
    /\ refused => login /\ a # <<>>

(* Something of the text of the answers may be missing.                    *)
ShownInv == \E rest \in Seq(Bytes) : answered = out \o rest

FailedInv == failed => closed /\ pc # "read"

(* Between two commands.                                                   *)
SendInv ==
    pc \in {"send", "done"} /\ ~failed =>
        Quiet /\ out = answered /\ ~refused /\ (login => out = <<>>)

ReadInv == pc = "read" => Waiting \/ \E a, before : Answering(a, before)

RemoteInv ==
    WireType /\ ShownInv /\ FailedInv /\ SendInv /\ ReadInv /\ NoCommandRefused

-----------------------------------------------------------------------------
(* Lines and answers.                                                      *)

(* The newline is a sequence of one byte.                                  *)
LEMMA NewlineIs ==
    Newline \in Seq(Bytes) /\ Len(Newline) = 1 /\ Newline[1] = "n"
BY DEF Newline, Bytes

(* A part of a sequence of bytes.                                          *)
LEMMA Cut ==
    ASSUME NEW s \in Seq(Bytes), NEW m \in Nat \ {0}, NEW j \in Nat,
           m <= j + 1, j <= Len(s)
    PROVE  /\ SubSeq(s, m, j) \in Seq(Bytes)
           /\ Len(SubSeq(s, m, j)) = j - m + 1
           /\ \A k \in 1 .. j - m + 1 : SubSeq(s, m, j)[k] = s[m + k - 1]
<1>1. \A k \in m .. j : s[k] \in Bytes
  BY ElementOfSeq
<1>2. /\ SubSeq(s, m, j) \in Seq(Bytes)
      /\ Len(SubSeq(s, m, j)) = IF m <= j THEN j - m + 1 ELSE 0
      /\ \A k \in 1 .. j - m + 1 : SubSeq(s, m, j)[k] = s[m + k - 1]
  BY <1>1, SubSeqProperties
<1> QED
  BY <1>2

(* The same, of the n bytes behind the first i.                            *)
LEMMA CutBehind ==
    ASSUME NEW s, s \in Seq(Bytes), NEW i \in Nat, NEW n \in Nat,
           i + n <= Len(s),
           NEW t, t = SubSeq(s, i + 1, i + n)
    PROVE  /\ t \in Seq(Bytes) /\ Len(t) = n
           /\ \A k \in 1 .. n : t[k] = s[i + k]
<1> DEFINE m == i + 1
           j == i + n
<1>1. m \in Nat \ {0} /\ j \in Nat /\ m <= j + 1 /\ j <= Len(s)
      /\ j - m + 1 = n
  OBVIOUS
<1>2. \A k \in 1 .. n : m + k - 1 = i + k
  OBVIOUS
<1>3. t = SubSeq(s, m, j)
  OBVIOUS
<1> HIDE DEF m, j
<1>4. /\ SubSeq(s, m, j) \in Seq(Bytes)
      /\ Len(SubSeq(s, m, j)) = j - m + 1
      /\ \A k \in 1 .. j - m + 1 : SubSeq(s, m, j)[k] = s[m + k - 1]
  BY <1>1, Cut
<1> QED
  BY <1>1, <1>2, <1>3, <1>4

(* A piece of a line is a line, and so is what follows it.                 *)
LEMMA PartOfLine ==
    ASSUME NEW l, IsLine(l), NEW i \in 1 .. Len(l) + 1, NEW j \in 0 .. Len(l)
    PROVE  IsLine(SubSeq(l, i, j))
<1>1. l \in Seq(Bytes)
  BY DEF IsLine
<1>2. CASE i <= j
  <2>1. /\ SubSeq(l, i, j) \in Seq(Bytes)
        /\ Len(SubSeq(l, i, j)) = j - i + 1
        /\ \A k \in 1 .. j - i + 1 : SubSeq(l, i, j)[k] = l[i + k - 1]
    BY <1>1, <1>2
  <2> QED
    BY <2>1 DEF IsLine
<1>3. CASE i > j
  <2>1. SubSeq(l, i, j) = <<>>
    BY <1>1, <1>3
  <2> QED
    BY <2>1 DEF IsLine
<1> QED
  BY <1>1, <1>2, <1>3

(* What one read returns of a line, and what it leaves, are lines.         *)
LEMMA PieceIs ==
    ASSUME NEW l, IsLine(l), l # <<>>
    PROVE  /\ IsLine(Piece(l)) /\ Piece(l) # <<>>
           /\ IsLine(Remainder(l))
<1>1. l \in Seq(Bytes) /\ Len(l) \in Nat /\ Len(l) > 0
  BY DEF IsLine
<1> DEFINE n == Shorter(LineSize - 1, Len(l))
<1>2. LineSize - 1 \in Nat /\ LineSize - 1 > 0
  BY RemoteAssumption
<1>3. n \in 1 .. Len(l)
  BY <1>1, <1>2 DEF Shorter
<1> HIDE DEF n
<1>4. Piece(l) = SubSeq(l, 1, n)
  BY DEF Piece, n
<1>5. Len(Piece(l)) = n
  BY <1>1, <1>3, <1>4
<1>6. IsLine(Piece(l))
  BY <1>1, <1>3, <1>4, PartOfLine
<1>7. IsLine(Remainder(l))
  BY <1>1, <1>3, <1>5, PartOfLine DEF Remainder
<1> QED
  BY <1>3, <1>5, <1>6, <1>7

(* A command that vsnprintf has written.                                   *)
LEMMA FormattedIs ==
    ASSUME NEW c \in Seq({"x"})
    PROVE  IsLine(Formatted(c)) /\ Formatted(c) # <<>>
<1> DEFINE line == c \o Newline
<1>1. c \in Seq(Bytes) /\ Len(c) \in Nat /\ \A k \in 1 .. Len(c) : c[k] = "x"
  BY DEF Bytes
<1>2. line \in Seq(Bytes) /\ Len(line) = Len(c) + 1
      /\ \A k \in 1 .. Len(c) : line[k] = "x"
  <2>1. /\ line \in Seq(Bytes) /\ Len(line) = Len(c) + Len(Newline)
        /\ \A k \in 1 .. Len(c) + Len(Newline) :
              line[k] = IF k <= Len(c) THEN c[k] ELSE Newline[k - Len(c)]
    BY <1>1, NewlineIs, ConcatProperties
  <2> HIDE DEF line
  <2> QED
    BY <1>1, <2>1, NewlineIs
<1> HIDE DEF line
<1>3. IsLine(line) /\ line # <<>>
  BY <1>1, <1>2 DEF IsLine
<1>4. Formatted(c) = Piece(line)
  BY DEF Formatted, Piece, line
<1> QED
  BY <1>3, <1>4, PieceIs

(* All the answers of the server end as an answer does.                    *)
LEMMA AnswersAre == \A a \in Answers : IsAnswer(a)
<1>1. IsAnswer(<<>>)
  BY DEF IsAnswer
<1>2. \A a \in Answers \ {<<>>} : IsAnswer(a)
  BY RemoteAssumption DEF IsAnswer
<1> QED
  BY <1>1, <1>2

(* What main wants to write.                                               *)
LEMMA LinesAre ==
    ASSUME NEW lines \in Lines
    PROVE  lines \in Seq(Seq(Bytes) \ {<<>>})
           /\ \A i \in 1 .. Len(lines) : IsLine(lines[i])
<1>1. CASE lines \in Inputs
  BY <1>1, RemoteAssumption DEF IsLine
<1>2. ASSUME NEW arguments \in Arguments,
             lines = [i \in DOMAIN arguments |-> Formatted(arguments[i])]
      PROVE  /\ lines \in Seq(Seq(Bytes) \ {<<>>})
             /\ \A i \in 1 .. Len(lines) : IsLine(lines[i])
  <2>1. arguments \in Seq(Seq({"x"}))
    BY RemoteAssumption
  <2>2. \A i \in 1 .. Len(arguments) : arguments[i] \in Seq({"x"})
    BY <2>1
  <2>3. DOMAIN arguments = 1 .. Len(arguments) /\ Len(arguments) \in Nat
    BY <2>1
  <2>4. \A i \in 1 .. Len(arguments) :
           /\ lines[i] = Formatted(arguments[i])
           /\ IsLine(lines[i]) /\ lines[i] \in Seq(Bytes) \ {<<>>}
    BY <1>2, <2>2, <2>3, FormattedIs DEF IsLine
  <2>5. lines = [i \in 1 .. Len(arguments) |-> lines[i]]
    BY <1>2, <2>3
  <2>6. lines \in Seq(Seq(Bytes) \ {<<>>}) /\ Len(lines) = Len(arguments)
    BY <2>3, <2>4, <2>5
  <2> QED
    BY <2>4, <2>6
<1> QED
  BY <1>1, <1>2 DEF Lines

-----------------------------------------------------------------------------
(* The end of an answer.                                                   *)

(* A whole answer, as it is in the socket.                                 *)
LEMMA FullAnswer ==
    ASSUME NEW a, IsAnswer(a)
    PROVE  /\ a \in Seq(Bytes) /\ Len(a) \in Nat
           /\ a \o Newline \in Seq(Bytes) /\ Len(a \o Newline) = Len(a) + 1
           /\ \A i \in 1 .. Len(a) : (a \o Newline)[i] = a[i]
           /\ (a \o Newline)[Len(a) + 1] = "n"
<1>1. a \in Seq(Bytes) /\ Len(a) \in Nat
  BY DEF IsAnswer
<1>2. /\ a \o Newline \in Seq(Bytes)
      /\ Len(a \o Newline) = Len(a) + Len(Newline)
      /\ \A i \in 1 .. Len(a) + Len(Newline) :
            (a \o Newline)[i] = IF i <= Len(a) THEN a[i]
                                               ELSE Newline[i - Len(a)]
  BY <1>1, NewlineIs, ConcatProperties
<1> QED
  BY <1>1, <1>2, NewlineIs

(* What is left of f behind its first n bytes, and the first c of s.       *)
LEMMA RestIs ==
    ASSUME NEW f, f \in Seq(Bytes), NEW n \in Nat, NEW r \in Nat,
           n + r = Len(f),
           NEW rest, rest = SubSeq(f, n + 1, Len(f))
    PROVE  /\ rest \in Seq(Bytes) /\ Len(rest) = r
           /\ \A i \in 1 .. r : rest[i] = f[n + i]
<1> DEFINE m == n + 1
           j == Len(f)
<1>1. /\ m \in Nat \ {0} /\ j \in Nat /\ m <= j + 1 /\ j <= Len(f)
      /\ j - m + 1 = r
  OBVIOUS
<1>2. \A k \in 1 .. r : m + k - 1 = n + k
  OBVIOUS
<1>3. rest = SubSeq(f, m, j)
  BY Zenon
<1> HIDE DEF m, j
<1>4. /\ SubSeq(f, m, j) \in Seq(Bytes)
      /\ Len(SubSeq(f, m, j)) = j - m + 1
      /\ \A k \in 1 .. j - m + 1 : SubSeq(f, m, j)[k] = f[m + k - 1]
  BY <1>1, Cut
<1> QED
  BY <1>1, <1>2, <1>3, <1>4

(* The first bytes of a message are its own.                               *)
LEMMA FrontIs ==
    ASSUME NEW s, s \in Seq(Bytes), NEW c \in Nat, c <= Len(s),
           NEW t, t = SubSeq(s, 1, c)
    PROVE  /\ t \in Seq(Bytes) /\ Len(t) = c
           /\ \A i \in 1 .. c : t[i] = s[i]
<1>1. /\ SubSeq(s, 1, c) \in Seq(Bytes)
      /\ Len(SubSeq(s, 1, c)) = c - 1 + 1
      /\ \A k \in 1 .. c - 1 + 1 : SubSeq(s, 1, c)[k] = s[1 + k - 1]
  <2>1. 1 \in Nat \ {0} /\ 1 <= c + 1
    OBVIOUS
  <2> QED
    BY <2>1, Cut
<1>2. c - 1 + 1 = c /\ \A k \in 1 .. c : 1 + k - 1 = k
  OBVIOUS
<1> QED
  BY <1>1, <1>2

(* A piece of c bytes of the r bytes that are left of f.                   *)
LEMMA PieceOf ==
    ASSUME NEW f, f \in Seq(Bytes), NEW n \in Nat, NEW r \in Nat,
           n + r = Len(f),
           NEW rest, rest = SubSeq(f, n + 1, Len(f)),
           NEW c \in 1 .. r,
           NEW buf, buf = SubSeq(rest, 1, c)
    PROVE  /\ rest \in Seq(Bytes) /\ Len(rest) = r
           /\ buf \in Seq(Bytes) /\ Len(buf) = c
           /\ \A i \in 1 .. c : buf[i] = f[n + i]
           /\ buf = SubSeq(f, n + 1, n + c)
           /\ SubSeq(rest, c + 1, Len(rest)) = SubSeq(f, n + c + 1, Len(f))
<1>0. Len(f) \in Nat /\ c \in Nat
  OBVIOUS
<1>1. /\ rest \in Seq(Bytes) /\ Len(rest) = r
      /\ \A i \in 1 .. r : rest[i] = f[n + i]
  BY RestIs
<1>2. /\ buf \in Seq(Bytes) /\ Len(buf) = c
      /\ \A i \in 1 .. c : buf[i] = f[n + i]
  <2>1. c <= Len(rest)
    BY <1>1
  <2>2. /\ buf \in Seq(Bytes) /\ Len(buf) = c
        /\ \A i \in 1 .. c : buf[i] = rest[i]
    BY <1>0, <1>1, <2>1, FrontIs
  <2>3. \A i \in 1 .. c : i \in 1 .. r
    BY <1>0
  <2> QED
    BY <1>1, <2>2, <2>3
<1>3. buf = SubSeq(f, n + 1, n + c)
  <2> DEFINE t == SubSeq(f, n + 1, n + c)
  <2>1. n + c <= Len(f)
    BY <1>0
  <2>2. t \in Seq(Bytes) /\ Len(t) = c /\ \A i \in 1 .. c : t[i] = f[n + i]
    BY <1>0, <2>1, CutBehind
  <2> HIDE DEF t
  <2>3. buf = t
    BY <1>2, <2>2, SeqEqual
  <2> QED
    BY <2>3 DEF t
<1>4. SubSeq(rest, c + 1, Len(rest)) = SubSeq(f, n + c + 1, Len(f))
  <2> DEFINE m == r - c
             k == n + c
             s == SubSeq(rest, c + 1, c + m)
             t == SubSeq(f, k + 1, k + m)
  <2>1. m \in Nat /\ k \in Nat
    BY <1>0
  <2>2. c + m = r /\ k + m = n + r
    BY <1>0
  <2>3. c + m = Len(rest) /\ k + m = Len(f)
    BY <1>1, <2>2, Zenon
  <2> HIDE DEF m, k
  <2>4. c + m <= Len(rest) /\ k + m <= Len(f)
    BY <1>0, <1>1, <2>3
  <2>5. s \in Seq(Bytes) /\ Len(s) = m /\ \A i \in 1 .. m : s[i] = rest[c + i]
    BY <1>0, <1>1, <2>1, <2>4, CutBehind
  <2>6. t \in Seq(Bytes) /\ Len(t) = m /\ \A i \in 1 .. m : t[i] = f[k + i]
    BY <1>0, <2>1, <2>4, CutBehind
  <2> HIDE DEF s, t
  <2>7. \A i \in 1 .. m : c + i \in 1 .. r /\ n + (c + i) = k + i
    BY <1>0 DEF m, k
  <2>8. \A i \in 1 .. m : s[i] = t[i]
    BY <1>1, <2>5, <2>6, <2>7
  <2>9. s = t
    BY <2>5, <2>6, <2>8, SeqEqual
  <2> QED
    BY <2>9, <2>3, Zenon DEF s, t, k
<1> QED
  BY <1>1, <1>2, <1>3, <1>4

(* The piece ends the answer exactly when it is the last.                  *)
LEMMA EndIsRecognised ==
    ASSUME NEW a, IsAnswer(a), NEW n \in 0 .. Len(a),
           NEW rc \in 1 .. Len(a) + 1 - n,
           NEW buf, buf \in Seq(Bytes), Len(buf) = rc,
           \A i \in 1 .. rc : buf[i] = (a \o Newline)[n + i],
           got_nl <=> (n > 0 /\ a[n] = "n")
    PROVE  /\ EndsAnswer(buf, n + rc) <=> n + rc = Len(a) + 1
           /\ OnlyNewline(buf, n + rc) => rc = 1
           /\ n + rc = Len(a) + 1 /\ rc = 1 => OnlyNewline(buf, n + rc)
<1> DEFINE full == a \o Newline
<1>1. /\ a \in Seq(Bytes) /\ Len(a) \in Nat
      /\ \A i \in 1 .. Len(a) : full[i] = a[i]
      /\ full[Len(a) + 1] = "n"
  BY FullAnswer
<1>2. Len(a) > 0 => /\ a[1] = "x" /\ a[Len(a)] = "n"
                    /\ \A i \in 1 .. Len(a) - 1 : a[i] = "x" \/ a[i + 1] = "x"
  BY <1>1 DEF IsAnswer
<1>3. \A i \in 1 .. rc : buf[i] = full[n + i]
  OBVIOUS
<1> HIDE DEF full
<1>4. "x" # "n"
  OBVIOUS
(* Two newlines in a row are there at the end only, and a newline in front *)
(* is the whole answer.                                                    *)
<1>5. ASSUME NEW i \in 1 .. Len(a), full[i] = "n", full[i + 1] = "n"
      PROVE  i = Len(a)
  <2>1. CASE i < Len(a)
    <3>1. i \in 1 .. Len(a) - 1 /\ i + 1 \in 1 .. Len(a)
      BY <1>1, <2>1
    <3>2. a[i] = "n" /\ a[i + 1] = "n"
      BY <1>1, <1>5, <3>1
    <3> QED
      BY <1>1, <1>2, <1>4, <3>1, <3>2
  <2> QED
    BY <1>1, <2>1
<1>6. full[1] = "n" => Len(a) = 0
  BY <1>1, <1>2, <1>4
<1>7. n > 0 => (got_nl <=> full[n] = "n")
  BY <1>1
<1>8. n = 0 => ~got_nl
  OBVIOUS
<1>9. ASSUME OnlyNewline(buf, n + rc)
      PROVE  rc = 1 /\ n + rc = Len(a) + 1
  <2>1. full[n + 1] = "n"
    BY <1>3, <1>9 DEF OnlyNewline
  <2>2. CASE got_nl
    <3>1. n > 0 /\ full[n] = "n"
      BY <1>7, <1>8, <2>2
    <3>2. n = Len(a)
      BY <1>5, <2>1, <3>1
    <3> QED
      BY <1>1, <3>2
  <2>3. CASE n + rc = 1
    <3>1. n = 0 /\ rc = 1
      BY <1>1, <2>3
    <3> QED
      BY <1>6, <2>1, <3>1
  <2> QED
    BY <1>9, <2>2, <2>3 DEF OnlyNewline
<1>10. ASSUME rc > 1, buf[rc] = "n", buf[rc - 1] = "n"
       PROVE  n + rc = Len(a) + 1
  <2>1. full[n + rc] = "n" /\ full[n + rc - 1] = "n"
    BY <1>1, <1>3, <1>10
  <2>2. n + rc - 1 \in 1 .. Len(a) /\ (n + rc - 1) + 1 = n + rc
    BY <1>1, <1>10
  <2>3. n + rc - 1 = Len(a)
    BY <1>5, <2>1, <2>2
  <2> QED
    BY <1>1, <2>3
<1>11. ASSUME n + rc = Len(a) + 1, rc = 1
       PROVE  OnlyNewline(buf, n + rc)
  <2>1. n = Len(a) /\ buf[1] = "n"
    BY <1>1, <1>3, <1>11
  <2>2. n > 0 => got_nl
    BY <1>1, <1>2, <1>7, <2>1
  <2> QED
    BY <1>1, <1>11, <2>1, <2>2 DEF OnlyNewline
<1>12. ASSUME n + rc = Len(a) + 1, rc > 1
       PROVE  buf[rc] = "n" /\ buf[rc - 1] = "n"
  <2>1. buf[rc] = full[Len(a) + 1] /\ buf[rc - 1] = full[Len(a)]
    <3>1. rc \in 1 .. rc /\ rc - 1 \in 1 .. rc /\ n + (rc - 1) = Len(a)
      BY <1>1, <1>12
    <3> QED
      BY <1>3, <1>12, <3>1
  <2>2. Len(a) > 0
    BY <1>1, <1>12
  <2> QED
    BY <1>1, <1>2, <2>1, <2>2
<1>13. rc = 1 \/ rc > 1
  BY <1>1
<1> QED
  BY <1>9, <1>10, <1>11, <1>12, <1>13 DEF EndsAnswer

(* What is printed of a piece: its bytes of the answer's text.             *)
LEMMA PiecePrinted ==
    ASSUME NEW a, IsAnswer(a), NEW n \in 0 .. Len(a),
           NEW rc \in 1 .. Len(a) + 1 - n,
           NEW buf, buf \in Seq(Bytes), Len(buf) = rc,
           \A i \in 1 .. rc : buf[i] = (a \o Newline)[n + i],
           EndsAnswer(buf, n + rc) <=> n + rc = Len(a) + 1,
           OnlyNewline(buf, n + rc) => rc = 1,
           n + rc = Len(a) + 1 /\ rc = 1 => OnlyNewline(buf, n + rc),
           NEW d \in Nat, d = (IF n + rc = Len(a) + 1 THEN rc - 1 ELSE rc)
    PROVE  Printed(buf, n + rc) = SubSeq(a, n + 1, n + d)
<1>1. /\ a \in Seq(Bytes) /\ Len(a) \in Nat
      /\ \A i \in 1 .. Len(a) : (a \o Newline)[i] = a[i]
  BY FullAnswer
<1>2. rc \in Nat /\ n \in Nat /\ n + d <= Len(a) /\ d <= rc
  BY <1>1
<1> DEFINE t == SubSeq(a, n + 1, n + d)
<1>3. t \in Seq(Bytes) /\ Len(t) = d /\ \A i \in 1 .. d : t[i] = a[n + i]
  BY <1>1, <1>2, CutBehind
<1> HIDE DEF t
<1>4. \A i \in 1 .. d : buf[i] = t[i]
  <2>1. \A i \in 1 .. d : i \in 1 .. rc /\ n + i \in 1 .. Len(a)
    BY <1>1, <1>2
  <2> QED
    BY <1>1, <1>3, <2>1
<1>5. CASE n + rc # Len(a) + 1
  <2>1. Printed(buf, n + rc) = buf
    BY <1>5 DEF Printed
  <2>2. d = rc
    BY <1>5
  <2> QED
    BY <1>3, <1>4, <2>1, <2>2, SeqEqual DEF t
<1>6. CASE n + rc = Len(a) + 1 /\ rc = 1
  <2>1. Printed(buf, n + rc) = <<>>
    BY <1>6 DEF Printed
  <2>2. d = 0
    BY <1>6
  <2>3. t = <<>>
    BY <1>3, <2>2, EmptySeq
  <2> QED
    BY <2>1, <2>3 DEF t
<1>7. CASE n + rc = Len(a) + 1 /\ rc # 1
  <2> DEFINE s == SubSeq(buf, 1, Len(buf) - 1)
  <2>1. Printed(buf, n + rc) = s
    BY <1>7 DEF Printed
  <2>2. d = rc - 1 /\ Len(buf) - 1 = d
    BY <1>7
  <2>3. s = SubSeq(buf, 0 + 1, 0 + d)
    BY <1>2, <2>2
  <2>4. s \in Seq(Bytes) /\ Len(s) = d /\ \A i \in 1 .. d : s[i] = buf[0 + i]
    <3>1. 0 + d <= Len(buf)
      BY <1>2
    <3> HIDE DEF s
    <3> QED
      BY <2>3, <3>1, CutBehind
  <2> HIDE DEF s
  <2>5. \A i \in 1 .. d : s[i] = t[i]
    BY <1>2, <1>4, <2>4
  <2>6. s = t
    BY <1>3, <2>4, <2>5, SeqEqual
  <2> QED
    BY <2>1, <2>6 DEF t
<1> QED
  BY <1>5, <1>6, <1>7 DEF t

-----------------------------------------------------------------------------
(* The steps.                                                              *)

(* The invariant holds before the first command.                           *)
LEMMA Beginning == Init => RemoteInv
<1> SUFFICES ASSUME Init PROVE RemoteInv
  OBVIOUS
<1>1. Password \in Seq(Bytes) \ {<<>>} /\ IsLine(Password)
  <2>1. <<"x">> \in Seq({"x"})
    OBVIOUS
  <2> QED
    BY <2>1, FormattedIs DEF Password, IsLine
<1>2. PICK lines \in Lines :
         todo = IF login THEN <<Password>> \o lines ELSE lines
  BY DEF Init
<1>3. /\ lines \in Seq(Seq(Bytes) \ {<<>>})
      /\ \A i \in 1 .. Len(lines) : IsLine(lines[i])
  BY LinesAre
<1>4. /\ todo \in Seq(Seq(Bytes) \ {<<>>})
      /\ \A i \in 1 .. Len(todo) : IsLine(todo[i])
  <2>1. CASE login
    <3> DEFINE first == <<Password>>
    <3>1. /\ first \in Seq(Seq(Bytes) \ {<<>>}) /\ Len(first) = 1
          /\ first[1] = Password
      BY <1>1
    <3>2. todo = first \o lines
      BY <1>2, <2>1
    <3> HIDE DEF first
    <3>3. /\ todo \in Seq(Seq(Bytes) \ {<<>>})
          /\ Len(todo) = Len(first) + Len(lines)
          /\ \A i \in 1 .. Len(first) + Len(lines) :
                todo[i] = IF i <= Len(first) THEN first[i]
                                             ELSE lines[i - Len(first)]
      BY <1>3, <3>1, <3>2, ConcatProperties
    <3>4. \A i \in 1 .. 1 + Len(lines) : IF i <= 1 THEN i = 1
                                         ELSE i - 1 \in 1 .. Len(lines)
      BY <1>3
    <3> QED
      BY <1>1, <1>3, <3>1, <3>3, <3>4
  <2>2. CASE ~login
    BY <1>2, <1>3, <2>2
  <2> QED
    BY <2>1, <2>2
<1>5. <<>> \in Seq(Bytes) /\ IsLine(<<>>)
  BY DEF IsLine
<1>6. ShownInv
  <2>1. <<>> \o <<>> = <<>>
    BY <1>5, ConcatEmptySeq
  <2> QED
    BY <1>5, <2>1 DEF Init, ShownInv
<1> QED
  BY <1>4, <1>5, <1>6 DEF Init, RemoteInv, WireType, Quiet, FailedInv, SendInv,
     ReadInv, NoCommandRefused

(* Sending a command keeps the invariant.                                  *)
LEMMA WriteKeeps == ASSUME RemoteInv, WriteLine PROVE RemoteInv'
<1> USE DEF server
<1>1. pc = "send" /\ todo # <<>> /\ WireType /\ ShownInv /\ FailedInv
      /\ NoCommandRefused
  BY DEF WriteLine, RemoteInv
<1>2. UNCHANGED <<login, out, failed, down, partial, closed, answered, refused>>
  BY DEF WriteLine
<1>4. ShownInv'
  BY <1>1, <1>2 DEF ShownInv
<1>5. CASE closed /\ pc' = "died" /\ UNCHANGED <<todo, len, got_nl, up>>
  <2>1. WireType' /\ FailedInv' /\ SendInv' /\ ReadInv'
    BY <1>1, <1>2, <1>5 DEF WireType, FailedInv, SendInv, ReadInv
  <2>2. NoCommandRefused'
    BY <1>1, <1>2, <1>5 DEF NoCommandRefused, Accepted
  <2> QED
    BY <1>4, <2>1, <2>2 DEF RemoteInv
<1>3. CASE /\ ~failed
           /\ up' = up \o Piece(Head(todo))
           /\ todo' = IF Remainder(Head(todo)) = <<>> THEN Tail(todo)
                      ELSE <<Remainder(Head(todo))>> \o Tail(todo)
           /\ pc' = "read" /\ len' = 0 /\ got_nl' = FALSE
  <2>1. Quiet /\ out = answered /\ ~refused /\ (login => out = <<>>)
    BY <1>1, <1>3 DEF RemoteInv, SendInv
  <2> DEFINE line == todo[1]
  <2>2. /\ line = Head(todo) /\ line \in Seq(Bytes) \ {<<>>} /\ IsLine(line)
        /\ Tail(todo) \in Seq(Seq(Bytes) \ {<<>>})
        /\ Len(Tail(todo)) = Len(todo) - 1 /\ Len(todo) \in Nat \ {0}
        /\ \A i \in 1 .. Len(Tail(todo)) : Tail(todo)[i] = todo[i + 1]
    BY <1>1, HeadTailProperties DEF WireType
  <2> HIDE DEF line
  <2>3. /\ IsLine(Piece(line)) /\ Piece(line) \in Seq(Bytes)
        /\ IsLine(Remainder(line)) /\ Remainder(line) \in Seq(Bytes)
    BY <2>2, PieceIs DEF IsLine
  <2>4. up' = up \o Piece(line) /\ up = <<>>
    BY <1>3, <2>1, <2>2 DEF Quiet
  <2>5. IsLine(up')
    BY <2>3, <2>4, ConcatEmptySeq
  <2>6. \A i \in 1 .. Len(Tail(todo)) : IsLine(Tail(todo)[i])
    <3>1. \A i \in 1 .. Len(Tail(todo)) : i + 1 \in 1 .. Len(todo)
      BY <2>2
    <3> QED
      BY <1>1, <2>2, <3>1 DEF WireType
  <2>7. /\ todo' \in Seq(Seq(Bytes) \ {<<>>})
        /\ \A i \in 1 .. Len(todo') : IsLine(todo'[i])
    <3>1. CASE Remainder(line) = <<>>
      <4>1. todo' = Tail(todo)
        BY <1>3, <2>2, <3>1
      <4> QED
        BY <2>2, <2>6, <4>1
    <3>2. CASE Remainder(line) # <<>>
      <4> DEFINE first == <<Remainder(line)>>
                 left == Tail(todo)
      <4>1. todo' = first \o left
        BY <1>3, <2>2, <3>2
      <4>2. /\ first \in Seq(Seq(Bytes) \ {<<>>}) /\ Len(first) = 1
            /\ first[1] = Remainder(line)
        BY <2>3, <3>2
      <4>3. left \in Seq(Seq(Bytes) \ {<<>>}) /\ Len(left) \in Nat
            /\ \A i \in 1 .. Len(left) : IsLine(left[i])
        BY <2>2, <2>6
      <4> HIDE DEF first, left
      <4>4. /\ todo' \in Seq(Seq(Bytes) \ {<<>>})
            /\ Len(todo') = Len(first) + Len(left)
            /\ \A i \in 1 .. Len(first) + Len(left) :
                  todo'[i] = IF i <= Len(first) THEN first[i]
                                                ELSE left[i - Len(first)]
        BY <4>1, <4>2, <4>3, ConcatProperties
      <4>5. \A i \in 1 .. 1 + Len(left) : IF i <= 1 THEN i = 1
                                          ELSE i - 1 \in 1 .. Len(left)
        BY <4>3
      <4> QED
        BY <2>3, <4>2, <4>3, <4>4, <4>5
    <3> QED
      BY <3>1, <3>2
  <2>8. pc' = "read" /\ len' = 0 /\ got_nl' = FALSE
    BY <1>3
  <2>9. WireType'
    BY <1>1, <1>2, <2>5, <2>7, <2>8 DEF WireType
  <2>10. Waiting'
    BY <1>2, <2>1, <2>8 DEF Waiting, Quiet
  <2>11. FailedInv' /\ SendInv' /\ ReadInv' /\ NoCommandRefused'
    BY <1>2, <1>3, <2>1, <2>8, <2>10
       DEF FailedInv, SendInv, ReadInv, NoCommandRefused
  <2> QED
    BY <1>4, <2>9, <2>11 DEF RemoteInv
<1> QED
  BY <1>3, <1>5 DEF WriteLine

(* Ending after the last command keeps the invariant.                      *)
LEMMA FinishKeeps == ASSUME RemoteInv, Finish PROVE RemoteInv'
<1>1. /\ pc = "send" /\ pc' = "done"
      /\ UNCHANGED <<todo, login, len, got_nl, out, failed, up, down, partial,
                     closed, answered, refused>>
  BY DEF Finish, server
<1>2. WireType' /\ ShownInv' /\ FailedInv'
  BY <1>1 DEF RemoteInv, WireType, ShownInv, FailedInv
<1>3. SendInv' /\ ReadInv'
  BY <1>1 DEF RemoteInv, SendInv, ReadInv, Quiet
<1>4. NoCommandRefused'
  BY <1>1 DEF RemoteInv, NoCommandRefused, Accepted
<1> QED
  BY <1>2, <1>3, <1>4 DEF RemoteInv

(* A read that finds the end keeps the invariant.                          *)
LEMMA EofKeeps == ASSUME RemoteInv, ReadEof PROVE RemoteInv'
<1>1. /\ pc' = "died"
      /\ UNCHANGED <<todo, login, len, got_nl, out, failed, up, down, partial,
                     closed, answered, refused>>
  BY DEF ReadEof, server
<1>2. WireType' /\ ShownInv' /\ FailedInv'
  BY <1>1 DEF RemoteInv, WireType, ShownInv, FailedInv
<1>3. SendInv' /\ ReadInv'
  BY <1>1 DEF SendInv, ReadInv
<1>4. NoCommandRefused'
  BY <1>1 DEF RemoteInv, NoCommandRefused, Accepted
<1> QED
  BY <1>2, <1>3, <1>4 DEF RemoteInv

(* A read that fails keeps the invariant: a refusal is taken for the right *)
(* answer if one byte of it was read.                                      *)
LEMMA FailureKeeps == ASSUME RemoteInv, ReadFails PROVE RemoteInv'
<1>1. /\ pc = "read" /\ closed /\ failed' = TRUE /\ down' = <<>>
      /\ login' = FALSE
      /\ pc' = IF login /\ len # 1 THEN "died" ELSE "send"
      /\ UNCHANGED <<todo, len, got_nl, out, up, partial, closed, answered,
                     refused>>
  BY DEF ReadFails, Returns, server
<1>2. WireType' /\ ShownInv'
  BY <1>1 DEF RemoteInv, WireType, ShownInv
<1>3. FailedInv' /\ SendInv' /\ ReadInv'
  BY <1>1 DEF FailedInv, SendInv, ReadInv
<1>4. ASSUME refused, pc' # "died"
      PROVE  Len(out) = 1
  <2>1. PICK a, before : Answering(a, before)
    BY <1>1, <1>4 DEF RemoteInv, ReadInv, Waiting
  <2>2. /\ login /\ len = 1 /\ 1 <= Len(a) /\ a \in Seq(Bytes)
        /\ before = <<>> /\ out = before \o SubSeq(a, 1, 1)
    BY <1>1, <1>4, <2>1 DEF Answering, IsAnswer
  <2>3. SubSeq(a, 1, 1) \in Seq(Bytes) /\ Len(SubSeq(a, 1, 1)) = 1
    BY <2>2, FrontIs
  <2>4. <<>> \o SubSeq(a, 1, 1) = SubSeq(a, 1, 1)
    BY <2>3, ConcatEmptySeq
  <2> QED
    BY <2>2, <2>3, <2>4
<1>5. NoCommandRefused'
  BY <1>1, <1>4 DEF RemoteInv, NoCommandRefused, Accepted
<1> QED
  BY <1>2, <1>3, <1>5 DEF RemoteInv

(* What is missing of an answer of which k bytes are shown.                *)
LEMMA Missing ==
    ASSUME NEW a \in Seq(Bytes), NEW before \in Seq(Bytes), NEW k \in Nat,
           k <= Len(a)
    PROVE  \E rest \in Seq(Bytes) :
              before \o a = (before \o SubSeq(a, 1, k)) \o rest
<1> DEFINE shown == SubSeq(a, 1, k)
           rest == SubSeq(a, k + 1, Len(a))
<1>1. shown \in Seq(Bytes) /\ rest \in Seq(Bytes)
  <2>1. Len(a) \in Nat /\ k + 1 \in Nat \ {0} /\ k + 1 <= Len(a) + 1
    OBVIOUS
  <2> QED
    BY <2>1, Cut
<1>2. shown \o rest = a
  <2>1. SubSeq(a, 1, Len(a)) = a
    BY SubSeqFull
  <2>2. /\ 1 \in 1 .. Len(a) + 1 /\ k \in 1 - 1 .. Len(a)
        /\ Len(a) \in k .. Len(a)
    OBVIOUS
  <2>3. shown \o rest = SubSeq(a, 1, Len(a))
    BY <2>2, ConcatAdjacentSubSeq
  <2> QED
    BY <2>1, <2>3, Zenon
<1> HIDE DEF shown, rest
<1>3. (before \o shown) \o rest = before \o (shown \o rest)
  BY <1>1, ConcatAssociative
<1>4. before \o a = (before \o shown) \o rest
  BY <1>2, <1>3, Zenon
<1> QED
  BY <1>1, <1>4, Zenon DEF shown

(* A piece that is read goes on with the answer, or ends it.               *)
LEMMA PieceKeeps == ASSUME RemoteInv, ReadPiece PROVE RemoteInv'
<1>1. /\ pc = "read" /\ down # <<>> /\ WireType /\ FailedInv /\ ReadInv
      /\ UNCHANGED <<todo, failed, up, server>>
  BY DEF ReadPiece, RemoteInv
<1>2. PICK a, before : Answering(a, before)
  BY <1>1 DEF ReadInv, Waiting
<1> DEFINE full == a \o Newline
<1>3. PICK rc \in 1 .. Shorter(ReadSize, Len(down)) :
         LET buf == SubSeq(down, 1, rc)
         IN  /\ down' = SubSeq(down, rc + 1, Len(down))
             /\ len' = len + rc
             /\ out' = out \o Printed(buf, len + rc)
             /\ IF EndsAnswer(buf, len + rc)
                THEN Returns(len + rc) /\ UNCHANGED got_nl
                ELSE got_nl' = (buf[rc] = "n") /\ UNCHANGED <<login, pc>>
  BY DEF ReadPiece
<1> DEFINE buf == SubSeq(down, 1, rc)
<1>4. /\ IsAnswer(a) /\ a \in Seq(Bytes) /\ Len(a) \in Nat
      /\ full \in Seq(Bytes) /\ Len(full) = Len(a) + 1
      /\ \A i \in 1 .. Len(a) : full[i] = a[i]
      /\ len \in 0 .. Len(a)
      /\ down = SubSeq(full, len + 1, Len(full))
      /\ before \in Seq(Bytes)
  <2>1. /\ IsAnswer(a) /\ len <= Len(a) /\ before \in Seq(Bytes)
        /\ down = SubSeq(a \o Newline, len + 1, Len(a) + 1)
    BY <1>2, Zenon DEF Answering
  <2>2. len \in Nat
    BY <1>1, Zenon DEF WireType
  <2>3. full = a \o Newline
    BY DEF full
  <2> HIDE DEF full
  <2>4. /\ a \in Seq(Bytes) /\ Len(a) \in Nat
        /\ full \in Seq(Bytes) /\ Len(full) = Len(a) + 1
        /\ \A i \in 1 .. Len(a) : full[i] = a[i]
    BY <2>1, <2>3, FullAnswer, Zenon
  <2>5. down = SubSeq(full, len + 1, Len(full))
    BY <2>1, <2>3, <2>4, Zenon
  <2>6. len \in 0 .. Len(a)
    BY <2>1, <2>2, <2>4
  <2> QED
    BY <2>1, <2>4, <2>5, <2>6, Zenon
<1> DEFINE r == Len(a) + 1 - len
<1>5. r \in Nat /\ len + r = Len(full)
  BY <1>4
<1>6. len \in Nat
  BY <1>4
<1> HIDE DEF full, buf, r
<1>7. Len(down) = r
  <2>1. down = SubSeq(full, len + 1, len + r)
    BY <1>4, <1>5, Zenon
  <2>2. len + r <= Len(full)
    BY <1>4, <1>5
  <2> QED
    BY <1>4, <1>5, <1>6, <2>1, <2>2, CutBehind
<1>8. rc \in 1 .. r
  <2>1. ReadSize \in Nat
    BY RemoteAssumption
  <2> QED
    BY <1>3, <1>5, <1>7, <2>1 DEF Shorter
<1>9. /\ buf \in Seq(Bytes) /\ Len(buf) = rc
      /\ \A i \in 1 .. rc : buf[i] = full[len + i]
      /\ SubSeq(down, rc + 1, Len(down)) =
            SubSeq(full, len + rc + 1, Len(full))
  <2>1. buf = SubSeq(down, 1, rc)
    BY DEF buf
  <2>2. full \in Seq(Bytes) /\ down = SubSeq(full, len + 1, Len(full))
    BY <1>4, Zenon
  <2> HIDE DEF buf
  <2>3. /\ buf \in Seq(Bytes) /\ Len(buf) = rc
        /\ \A i \in 1 .. rc : buf[i] = full[len + i]
        /\ SubSeq(down, rc + 1, Len(down)) =
              SubSeq(full, len + rc + 1, Len(full))
    BY <1>5, <1>6, <1>8, <2>1, <2>2, PieceOf
  <2> QED
    BY <2>3, Zenon
<1>10. /\ EndsAnswer(buf, len + rc) <=> len + rc = Len(a) + 1
       /\ OnlyNewline(buf, len + rc) => rc = 1
       /\ len + rc = Len(a) + 1 /\ rc = 1 => OnlyNewline(buf, len + rc)
  <2>1. got_nl <=> (len > 0 /\ a[len] = "n")
    BY <1>2 DEF Answering
  <2>2. rc \in 1 .. Len(a) + 1 - len
    BY <1>8 DEF r
  <2>3. \A i \in 1 .. rc : buf[i] = (a \o Newline)[len + i]
    BY <1>9 DEF full
  <2> QED
    BY <1>4, <1>9, <2>1, <2>2, <2>3, EndIsRecognised
<1> DEFINE d == IF len + rc = Len(a) + 1 THEN rc - 1 ELSE rc
<1>11. d \in Nat /\ len + d <= Len(a)
  <2>1. rc \in Nat \ {0} /\ len + rc <= Len(a) + 1
    BY <1>4, <1>5, <1>8 DEF r
  <2>2. Len(a) \in Nat /\ len \in Nat
    BY <1>4
  <2>3. CASE len + rc = Len(a) + 1
    <3>1. d = rc - 1
      BY <2>3
    <3> HIDE DEF d
    <3> QED
      BY <2>1, <2>2, <2>3, <3>1
  <2>4. CASE len + rc # Len(a) + 1
    <3>1. d = rc
      BY <2>4
    <3> HIDE DEF d
    <3> QED
      BY <2>1, <2>2, <2>4, <3>1
  <2> QED
    BY <2>3, <2>4
<1> HIDE DEF d
<1>12. Printed(buf, len + rc) = SubSeq(a, len + 1, len + d)
  <2>1. rc \in 1 .. Len(a) + 1 - len
    BY <1>8 DEF r
  <2>2. \A i \in 1 .. rc : buf[i] = (a \o Newline)[len + i]
    BY <1>9 DEF full
  <2>3. d = (IF len + rc = Len(a) + 1 THEN rc - 1 ELSE rc)
    BY DEF d
  <2>4. Len(buf) = rc /\ buf \in Seq(Bytes)
    BY <1>9
  <2> QED
    BY <1>4, <1>9, <1>10, <1>11, <2>1, <2>2, <2>3, <2>4, PiecePrinted
<1>13. out' = before \o SubSeq(a, 1, len + d)
  <2> DEFINE shown == SubSeq(a, 1, len)
             more == SubSeq(a, len + 1, len + d)
  <2>1. out' = (before \o shown) \o more
    BY <1>2, <1>3, <1>12 DEF Answering, buf
  <2>2. shown \in Seq(Bytes) /\ more \in Seq(Bytes)
    BY <1>4, <1>6, <1>11, Cut
  <2>3. shown \o more = SubSeq(a, 1, len + d)
    <3>1. /\ 1 \in 1 .. Len(a) + 1 /\ len \in 1 - 1 .. Len(a)
          /\ len + d \in len .. Len(a)
      BY <1>4, <1>11
    <3> QED
      BY <1>4, <3>1, ConcatAdjacentSubSeq
  <2> HIDE DEF shown, more
  <2>4. (before \o shown) \o more = before \o (shown \o more)
    BY <1>4, <2>2, ConcatAssociative
  <2> QED
    BY <2>1, <2>3, <2>4, Zenon
<1>14. down' = SubSeq(full, len + rc + 1, Len(full)) /\ len' = len + rc
  BY <1>3, <1>9
<1>15. down' \in Seq(Bytes) /\ out' \in Seq(Bytes) /\ len' \in Nat
  <2>1. down' \in Seq(Bytes)
    <3>1. len + rc + 1 \in Nat \ {0} /\ Len(full) \in Nat
          /\ len + rc + 1 <= Len(full) + 1
      BY <1>4, <1>5, <1>8
    <3> QED
      BY <1>4, <1>14, <3>1, Cut
  <2>2. SubSeq(a, 1, len + d) \in Seq(Bytes)
    BY <1>4, <1>6, <1>11, Cut
  <2>3. out' \in Seq(Bytes)
    BY <1>4, <1>13, <2>2, ConcatProperties
  <2> QED
    BY <1>6, <1>8, <1>14, <2>1, <2>3
<1>18. ShownInv'
  <2>1. len + d \in Nat
    BY <1>6, <1>11
  <2>2. \E rest \in Seq(Bytes) :
           before \o a = (before \o SubSeq(a, 1, len + d)) \o rest
    BY <1>4, <1>11, <2>1, Missing
  <2>3. answered' = before \o a
    BY <1>1, <1>2, Zenon DEF Answering, server
  <2> QED
    BY <1>13, <2>2, <2>3, Zenon DEF ShownInv
<1>19. /\ up' = <<>> /\ partial' = <<>> /\ ~failed'
       /\ UNCHANGED <<closed, refused>>
  BY <1>1, <1>2 DEF Answering, FailedInv, server
<1>20. FailedInv'
  BY <1>19 DEF FailedInv
<1>16. CASE EndsAnswer(buf, len + rc)
  <2>1. len + rc = Len(a) + 1 /\ len + d = Len(a)
    BY <1>4, <1>8, <1>10, <1>16 DEF d
  <2>2. Returns(len + rc) /\ UNCHANGED got_nl
    BY <1>3, <1>16 DEF buf
  <2>3. down' = <<>>
    BY <1>4, <1>14, <2>1, SubSeqEmpty
  <2>4. out' = answered'
    <3>1. SubSeq(a, 1, len + d) = a
      BY <1>4, <2>1, SubSeqFull
    <3>2. answered' = before \o a
      BY <1>1, <1>2, Zenon DEF Answering, server
    <3> QED
      BY <1>13, <3>1, <3>2, Zenon
  <2>5. refused => pc' = "died"
    <3>1. refused => login /\ Len(a) # 0
      BY <1>2, <1>4, EmptySeq DEF Answering
    <3> QED
      BY <1>4, <2>1, <2>2, <3>1 DEF Returns
  <2>6. pc' \in {"send", "died"} /\ login' = FALSE
    BY <2>2 DEF Returns
  <2>8. WireType'
    BY <1>1, <1>15, <2>2, <2>6 DEF WireType, server
  <2>9. SendInv'
    BY <1>19, <2>3, <2>4, <2>5, <2>6 DEF SendInv, Quiet
  <2>10. ReadInv' /\ NoCommandRefused'
    BY <1>19, <2>5, <2>6 DEF ReadInv, NoCommandRefused, Accepted
  <2> QED
    BY <1>18, <1>20, <2>8, <2>9, <2>10 DEF RemoteInv
<1>17. CASE ~EndsAnswer(buf, len + rc)
  <2>1. len + rc <= Len(a) /\ d = rc /\ rc \in Nat /\ rc > 0
    <3>1. d = rc
      BY <1>10, <1>17 DEF d
    <3> QED
      BY <1>4, <1>5, <1>8, <1>11, <3>1
  <2>2. got_nl' = (buf[rc] = "n") /\ UNCHANGED <<login, pc>>
    BY <1>3, <1>17 DEF buf
  <2>3. got_nl' <=> (len' > 0 /\ a[len'] = "n")
    <3>1. rc \in 1 .. rc /\ len + rc \in 1 .. Len(a) /\ len + rc > 0
      BY <1>4, <2>1
    <3> QED
      BY <1>4, <1>9, <1>14, <2>2, <3>1
  <2>4. WireType'
    BY <1>1, <1>15, <2>2 DEF WireType, server
  <2>5. /\ down' = SubSeq(a \o Newline, len' + 1, Len(a) + 1)
        /\ out' = before \o SubSeq(a, 1, len')
        /\ len' <= Len(a)
    BY <1>4, <1>13, <1>14, <2>1 DEF full
  <2>6. Answering(a, before)'
    BY <1>1, <1>2, <2>2, <2>3, <2>5 DEF Answering, server
  <2>7. SendInv' /\ ReadInv'
    BY <1>1, <2>2, <2>6 DEF SendInv, ReadInv
  <2>8. refused => login
    BY <1>2, Zenon DEF Answering
  <2>9. NoCommandRefused'
    BY <1>19, <2>2, <2>8 DEF NoCommandRefused, Accepted
  <2> QED
    BY <1>18, <1>20, <2>4, <2>7, <2>9 DEF RemoteInv
<1> QED
  BY <1>16, <1>17

(* The server answers a whole command only.                                *)
LEMMA ServerKeeps == ASSUME RemoteInv, ServerReads PROVE RemoteInv'
<1>1. ~closed /\ up # <<>> /\ WireType /\ up' = Tail(up)
      /\ UNCHANGED <<client, closed>>
  BY DEF ServerReads, RemoteInv
<1>2. /\ up \in Seq(Bytes) /\ Len(up) \in Nat \ {0} /\ Head(up) = up[1]
      /\ Tail(up) \in Seq(Bytes) /\ Len(Tail(up)) = Len(up) - 1
      /\ \A i \in 1 .. Len(Tail(up)) : Tail(up)[i] = up[i + 1]
  BY <1>1, HeadTailProperties DEF WireType, IsLine
<1>3. IsLine(up')
  <2>1. \A k \in 1 .. Len(Tail(up)) - 1 : k + 1 \in 1 .. Len(up) - 1
                                           /\ k \in 1 .. Len(Tail(up))
    BY <1>2
  <2> QED
    BY <1>1, <1>2, <2>1 DEF WireType, IsLine
<1>4. pc \notin {"send", "done"} /\ FailedInv' /\ SendInv'
  BY <1>1 DEF RemoteInv, Quiet, SendInv, FailedInv, client
<1>5. pc = "read" => Waiting
  BY <1>1 DEF RemoteInv, ReadInv, Answering
<1>8. ~refused
  BY <1>1 DEF RemoteInv, NoCommandRefused
<1>9. UNCHANGED <<todo, login, pc, len, got_nl, out, failed>>
  BY <1>1 DEF client
<1>6. CASE Head(up) = "n"
  <2>1. PICK answer \in Answers :
           /\ down' = down \o answer \o Newline
           /\ answered' = answered \o answer
           /\ partial' = <<>>
           /\ refused' = (refused \/ (login /\ answer # <<>>))
    BY <1>6 DEF ServerReads
  <2>2. IsAnswer(answer) /\ answer \in Seq(Bytes)
    BY AnswersAre DEF IsAnswer
  <2>3. down \o answer \in Seq(Bytes) /\ answered' \in Seq(Bytes)
    BY <1>1, <2>1, <2>2, ConcatProperties DEF WireType
  <2>4. down' \in Seq(Bytes)
    BY <2>1, <2>3, NewlineIs, ConcatProperties
  <2>5. WireType'
    BY <1>1, <1>3, <2>3, <2>4 DEF WireType, client
  <2>6. up' = <<>>
    <3>1. Len(up) = 1
      <4>1. Len(up) > 1 => 1 \in 1 .. Len(up) - 1
        BY <1>2
      <4> QED
        BY <1>1, <1>2, <1>6, <4>1 DEF WireType, IsLine
    <3> QED
      BY <1>1, <1>2, <3>1, EmptySeq
  <2>7. ASSUME pc = "read"
        PROVE  (\E a, before : Answering(a, before))'
    <3>0. PICK shown : shown = answered
      OBVIOUS
    <3>1. Waiting
      BY <1>5, <2>7
    <3>2. answer \o Newline \in Seq(Bytes)
          /\ Len(answer \o Newline) = Len(answer) + 1
      BY <2>2, FullAnswer
    <3>3. down' = answer \o Newline
      BY <2>1, <2>2, <3>1, ConcatEmptySeq DEF Waiting
    <3>4. down' = SubSeq(answer \o Newline, 1, Len(answer) + 1)
      BY <3>2, <3>3, SubSeqFull
    <3>5. SubSeq(answer, 1, 0) = <<>> /\ out \o <<>> = out
      BY <1>1, SubSeqEmpty, ConcatEmptySeq DEF WireType
    <3>6. len' = 0 /\ ~got_nl' /\ out' = answered /\ ~refused /\ login' = login
      BY <1>1, <3>1 DEF Waiting, client
    <3>7. /\ IsAnswer(answer) /\ shown \in Seq(Bytes)
          /\ up' = <<>> /\ partial' = <<>>
      BY <1>1, <2>1, <2>2, <2>6, <3>0 DEF WireType
    <3>8. /\ 0 <= Len(answer)
          /\ down' = SubSeq(answer \o Newline, 0 + 1, Len(answer) + 1)
          /\ ~got_nl' /\ ~(0 > 0)
      BY <2>2, <3>4, <3>6
    <3>9. /\ out' = shown \o SubSeq(answer, 1, 0)
          /\ answered' = shown \o answer
      BY <1>1, <2>1, <3>0, <3>1, <3>5 DEF Waiting, client
    <3>10. (refused' => login' /\ answer # <<>>) /\ (login' => shown = <<>>)
      BY <2>1, <3>0, <3>1, <3>6 DEF Waiting
    <3>11. /\ len' <= Len(answer)
           /\ down' = SubSeq(answer \o Newline, len' + 1, Len(answer) + 1)
           /\ got_nl' <=> (len' > 0 /\ answer[len'] = "n")
           /\ out' = shown \o SubSeq(answer, 1, len')
      BY <3>6, <3>8, <3>9, Zenon
    <3>12. Answering(answer, shown)'
      BY <3>7, <3>9, <3>10, <3>11 DEF Answering
    <3> QED
      BY <3>12
  <2>8. ReadInv'
    BY <1>9, <2>7 DEF ReadInv
  <2>9. ShownInv'
    <3>1. PICK rest \in Seq(Bytes) : answered = out \o rest
      BY DEF RemoteInv, ShownInv
    <3>2. rest \o answer \in Seq(Bytes)
      BY <2>2, ConcatProperties
    <3>3. (out \o rest) \o answer = out \o (rest \o answer)
      BY <1>1, <2>2, ConcatAssociative DEF WireType
    <3>4. answered' = out' \o (rest \o answer)
      BY <1>9, <2>1, <3>1, <3>3, Zenon
    <3> QED
      BY <3>2, <3>4, Zenon DEF ShownInv
  <2>10. refused' => pc = "died" \/ login
    BY <1>8, <2>1
  <2>11. refused' => ~Accepted'
    BY <1>9, <2>10 DEF Accepted
  <2>12. NoCommandRefused'
    BY <2>1, <2>6, <2>11 DEF NoCommandRefused
  <2> QED
    BY <1>4, <2>5, <2>8, <2>9, <2>12 DEF RemoteInv
<1>7. CASE Head(up) # "n"
  <2>1. UNCHANGED <<down, answered, refused>>
    BY <1>7 DEF ServerReads
  <2>2. WireType'
    BY <1>1, <1>3, <2>1 DEF WireType, client
  <2>3. pc = "read" => Waiting'
    BY <1>1, <1>5, <2>1 DEF Waiting, client
  <2>4. ReadInv' /\ ShownInv' /\ NoCommandRefused'
    BY <1>8, <1>9, <2>1, <2>3
       DEF RemoteInv, ReadInv, ShownInv, NoCommandRefused
  <2> QED
    BY <1>4, <2>2, <2>4 DEF RemoteInv
<1> QED
  BY <1>6, <1>7

(* The end of the server and stuttering keep the invariant.                *)
LEMMA RestKeeps ==
    ASSUME RemoteInv, ServerEnds \/ UNCHANGED vars PROVE RemoteInv'
<1>1. /\ UNCHANGED <<todo, login, pc, len, got_nl, out, failed>>
      /\ UNCHANGED <<partial, answered, refused, up, down>>
      /\ closed => closed'
  BY DEF ServerEnds, vars, server, client
<1>2. WireType' /\ ShownInv' /\ FailedInv'
  BY <1>1 DEF RemoteInv, WireType, ShownInv, FailedInv
<1>3. Waiting => Waiting'
  BY <1>1 DEF Waiting
<1>4. \A a, before : Answering(a, before) => Answering(a, before)'
  BY <1>1 DEF Answering
<1>5. ReadInv'
  BY <1>1, <1>3, <1>4 DEF RemoteInv, ReadInv
<1>6. SendInv' /\ NoCommandRefused'
  BY <1>1 DEF RemoteInv, SendInv, Quiet, NoCommandRefused, Accepted
<1> QED
  BY <1>2, <1>5, <1>6 DEF RemoteInv

(* Every step keeps the invariant.                                         *)
LEMMA RemoteStep == RemoteInv /\ [Next]_vars => RemoteInv'
BY WriteKeeps, FinishKeeps, EofKeeps, FailureKeeps, PieceKeeps, ServerKeeps,
   RestKeeps DEF Next, Client, Ended

(* In every behaviour, the answer under way is followed, until a read of   *)
(* read_answer fails.                                                      *)
THEOREM AlwaysRemoteInv == Spec => []RemoteInv
BY Beginning, RemoteStep, PTL DEF Spec

(* read_answer leaves nothing of an answer in the socket, for buffers of   *)
(* any size, any commands and answers, and any cuts of the stream, as long *)
(* as no read fails.                                                       *)
THEOREM AlwaysInStep == Spec => []InStep
<1>1. RemoteInv => InStep
  BY DEF RemoteInv, SendInv, InStep, Quiet
<1> QED
  BY <1>1, AlwaysRemoteInv, PTL

(* read_answer writes the text of the answers to stdout and nothing else,  *)
(* and all of it before the next command, as long as no read fails.        *)
THEOREM AlwaysShowsAnswers == Spec => []ShowsAnswers
<1>1. ASSUME RemoteInv
      PROVE  IsPrefix(out, answered)
  <2>1. out \in Seq(Bytes) /\ answered \in Seq(Bytes)
    BY <1>1 DEF RemoteInv, WireType
  <2>2. PICK rest \in Seq(Bytes) : answered = out \o rest
    BY <1>1 DEF RemoteInv, ShownInv
  <2>3. Len(out) \in Nat /\ Len(rest) \in Nat
        /\ Len(answered) = Len(out) + Len(rest)
        /\ \A i \in 1 .. Len(out) : answered[i] = out[i]
    <3>1. /\ Len(out \o rest) = Len(out) + Len(rest)
          /\ \A i \in 1 .. Len(out) + Len(rest) :
                (out \o rest)[i] = IF i <= Len(out) THEN out[i]
                                                    ELSE rest[i - Len(out)]
      BY <2>1, ConcatProperties
    <3>2. Len(out) \in Nat /\ Len(rest) \in Nat
      BY <2>1
    <3> QED
      BY <2>2, <3>1, <3>2
  <2> DEFINE s == SubSeq(out, 1, Len(out))
             t == SubSeq(answered, 1, Len(out))
  <2>4. s \in Seq(Bytes) /\ Len(s) = Len(out)
        /\ \A i \in 1 .. Len(out) : s[i] = out[i]
    BY <2>1, <2>3, FrontIs
  <2>5. t \in Seq(Bytes) /\ Len(t) = Len(out)
        /\ \A i \in 1 .. Len(out) : t[i] = answered[i]
    BY <2>1, <2>3, FrontIs
  <2> HIDE DEF s, t
  <2>6. s = t
    BY <2>3, <2>4, <2>5, SeqEqual
  <2>7. Len(out) <= Len(answered)
    BY <2>3
  <2> QED
    BY <2>6, <2>7 DEF IsPrefix, s, t
<1>2. RemoteInv => ShowsAnswers
  BY <1>1 DEF RemoteInv, SendInv, ShowsAnswers
<1> QED
  BY <1>2, AlwaysRemoteInv, PTL

(* After a refused password main sends nothing more, wherever the refusal  *)
(* was cut and wherever a read failed; remote_connect returns 1 only when  *)
(* exactly one byte of it had been read.                                   *)
THEOREM NeverACommandRefused == Spec => []NoCommandRefused
<1>1. RemoteInv => NoCommandRefused
  BY DEF RemoteInv
<1> QED
  BY <1>1, AlwaysRemoteInv, PTL
=============================================================================
