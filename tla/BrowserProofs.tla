----------------------------- MODULE BrowserProofs -----------------------------
(***************************************************************************)
(* The browser, for every tree of files, every order in which a directory  *)
(* is read, every playlist, and every height of the window.                *)
(***************************************************************************)
EXTENDS Browser, WindowOpsProofs, SequenceTheorems

-----------------------------------------------------------------------------
(* Sequences.                                                              *)

(* A path is its parent and its name.                                      *)
LEMMA FrontLast ==
    ASSUME NEW S, NEW p \in Seq(S), p # <<>>
    PROVE  /\ Len(p) \in Nat /\ Len(p) > 0
           /\ Front(p) \in Seq(S) /\ Last(p) \in S
           /\ Len(Front(p)) = Len(p) - 1
           /\ p = Append(Front(p), Last(p))
<1>1. Len(p) \in Nat /\ Len(p) > 0 /\ \A i \in 1 .. Len(p) : p[i] \in S
  BY EmptySeq, ElementOfSeq
<1>2. PICK m : m = Len(p) - 1 /\ m \in Nat
  BY <1>1
<1>3. /\ Front(p) \in Seq(S) /\ Len(Front(p)) = m
      /\ \A i \in 1 .. m : Front(p)[i] = p[i]
  <2>1. Front(p) = SubSeq(p, 1, m)
    BY <1>2 DEF Front
  <2>2. \A i \in 1 .. m : p[i] \in S
    BY <1>1, <1>2
  <2>3. /\ SubSeq(p, 1, m) \in Seq(S)
        /\ Len(SubSeq(p, 1, m)) = IF 1 <= m THEN m - 1 + 1 ELSE 0
        /\ \A i \in 1 .. m - 1 + 1 : SubSeq(p, 1, m)[i] = p[1 + i - 1]
    BY <1>2, <2>2, SubSeqProperties
  <2> QED
    BY <1>2, <2>1, <2>3
<1>4. Last(p) = p[m + 1] /\ Last(p) \in S
  BY <1>1, <1>2 DEF Last
<1> DEFINE f == Front(p)
           l == Last(p)
           a == Append(f, l)
<1>5. /\ a \in Seq(S) /\ Len(a) = m + 1
      /\ \A i \in 1 .. m : a[i] = f[i]
      /\ a[m + 1] = l
  BY <1>3, <1>4, AppendProperties
<1> HIDE DEF f, l, a
<1>6. p = a
  <2>1. Len(p) = Len(a) /\ Len(p) = m + 1
    BY <1>1, <1>2, <1>5
  <2>2. \A i \in 1 .. Len(p) : p[i] = a[i]
    BY <1>2, <1>3, <1>4, <1>5, <2>1 DEF f, l
  <2> QED
    BY <1>5, <2>1, <2>2, SeqEqual
<1> QED
  BY <1>1, <1>2, <1>3, <1>4, <1>6 DEF f, l, a

(* Two sequences of known lengths, one behind the other.                   *)
LEMMA Joined ==
    ASSUME NEW S, NEW s1 \in Seq(S), NEW s2 \in Seq(S), NEW k, NEW m,
           Len(s1) = k, Len(s2) = m
    PROVE  /\ s1 \o s2 \in Seq(S) /\ Len(s1 \o s2) = k + m
           /\ \A i \in 1 .. k : (s1 \o s2)[i] = s1[i]
           /\ \A i \in 1 .. m : (s1 \o s2)[k + i] = s2[i]
<1>1. k \in Nat /\ m \in Nat
  BY LenProperties
<1>2. /\ s1 \o s2 \in Seq(S) /\ Len(s1 \o s2) = k + m
      /\ \A i \in 1 .. k + m :
            (s1 \o s2)[i] = IF i <= k THEN s1[i] ELSE s2[i - k]
  BY ConcatProperties
<1>3. \A i \in 1 .. k : (s1 \o s2)[i] = s1[i]
  BY <1>1, <1>2
<1>4. \A i \in 1 .. m : (s1 \o s2)[k + i] = s2[i]
  <2> TAKE i \in 1 .. m
  <2>1. k + i \in 1 .. k + m /\ ~(k + i <= k) /\ k + i - k = i
    BY <1>1
  <2> QED
    BY <1>2, <2>1
<1> QED
  BY <1>2, <1>3, <1>4, Zenon

(* Some entries of a sequence, in the same order.                          *)
LEMMA Piece ==
    ASSUME NEW S, NEW s \in Seq(S), NEW k \in Nat, NEW m \in Nat,
           k >= 1, k <= m + 1, m <= Len(s)
    PROVE  /\ SubSeq(s, k, m) \in Seq(S) /\ Len(SubSeq(s, k, m)) = m - k + 1
           /\ \A i \in 1 .. m - k + 1 : SubSeq(s, k, m)[i] = s[k + i - 1]
<1>1. \A i \in k .. m : s[i] \in S
  BY LenProperties, ElementOfSeq
<1>2. /\ SubSeq(s, k, m) \in Seq(S)
      /\ Len(SubSeq(s, k, m)) = IF k <= m THEN m - k + 1 ELSE 0
      /\ \A i \in 1 .. m - k + 1 : SubSeq(s, k, m)[i] = s[k + i - 1]
  BY <1>1, SubSeqProperties
<1> QED
  BY <1>2

(* What InsertAt makes of a sequence.                                      *)
LEMMA Inserted ==
    ASSUME NEW S, NEW s \in Seq(S), NEW k \in 1 .. Len(s) + 1, NEW e \in S
    PROVE  /\ InsertAt(s, k, e) \in Seq(S)
           /\ Len(InsertAt(s, k, e)) = Len(s) + 1
           /\ \A i \in 1 .. k - 1 : InsertAt(s, k, e)[i] = s[i]
           /\ InsertAt(s, k, e)[k] = e
           /\ \A i \in k .. Len(s) : InsertAt(s, k, e)[i + 1] = s[i]
<1>1. Len(s) \in Nat
  BY LenProperties
<1>2. PICK n, m : n = Len(s) /\ n \in Nat /\ m = k - 1 /\ m \in Nat /\ m <= n
  BY <1>1
<1>3. k \in Nat /\ k >= 1 /\ k <= n + 1 /\ k = m + 1
  BY <1>1, <1>2
<1> DEFINE front == SubSeq(s, 1, m)
           one == <<e>>
           rest == SubSeq(s, k, n)
           q == front \o one
           r == q \o rest
<1>4. /\ front \in Seq(S) /\ Len(front) = m
      /\ \A i \in 1 .. m : front[i] = s[i]
  <2>1. /\ front \in Seq(S) /\ Len(front) = m - 1 + 1
        /\ \A i \in 1 .. m - 1 + 1 : front[i] = s[1 + i - 1]
    BY <1>2, Piece
  <2> HIDE DEF front
  <2> QED
    BY <1>2, <2>1
<1>5. /\ rest \in Seq(S) /\ Len(rest) = n - m
      /\ \A i \in 1 .. n - m : rest[i] = s[m + i]
  <2>1. /\ rest \in Seq(S) /\ Len(rest) = n - k + 1
        /\ \A i \in 1 .. n - k + 1 : rest[i] = s[k + i - 1]
    BY <1>2, <1>3, Piece
  <2> HIDE DEF rest
  <2> QED
    BY <1>2, <1>3, <2>1
<1>6. InsertAt(s, k, e) = r
  BY <1>2, Zenon DEF InsertAt
<1> HIDE DEF front, one, rest
<1>7. /\ q \in Seq(S) /\ Len(q) = m + 1
      /\ \A i \in 1 .. m : q[i] = front[i]
      /\ q[m + 1] = e
  <2>1. q = Append(front, e)
    BY <1>4, AppendIsConcat DEF one
  <2> QED
    BY <1>4, <2>1, AppendProperties
<1> HIDE DEF q
<1>8. /\ r \in Seq(S) /\ Len(r) = (m + 1) + (n - m)
      /\ \A i \in 1 .. m + 1 : r[i] = q[i]
      /\ \A i \in 1 .. n - m : r[(m + 1) + i] = rest[i]
  BY <1>5, <1>7, Joined
<1> HIDE DEF r
<1>9. \A i \in 1 .. k - 1 : r[i] = s[i]
  BY <1>2, <1>3, <1>4, <1>7, <1>8
<1>10. r[k] = e
  BY <1>2, <1>3, <1>7, <1>8
<1>11. \A i \in k .. Len(s) : r[i + 1] = s[i]
  <2> TAKE i \in k .. Len(s)
  <2>1. PICK j \in 1 .. n - m : i = m + j
    BY <1>2, <1>3
  <2>2. r[(m + 1) + j] = rest[j] /\ rest[j] = s[m + j]
    BY <1>5, <1>8
  <2>3. (m + 1) + j = i + 1
    BY <1>2, <2>1
  <2> QED
    BY <2>1, <2>2, <2>3
<1>12. Len(r) = Len(s) + 1
  BY <1>2, <1>8
<1> QED
  BY <1>6, <1>8, <1>9, <1>10, <1>11, <1>12

(* What RemoveAt makes of one.                                             *)
LEMMA Removed ==
    ASSUME NEW S, NEW s \in Seq(S), NEW k \in 1 .. Len(s)
    PROVE  /\ RemoveAt(s, k) \in Seq(S) /\ Len(RemoveAt(s, k)) = Len(s) - 1
           /\ \A i \in 1 .. k - 1 : RemoveAt(s, k)[i] = s[i]
           /\ \A i \in k .. Len(s) - 1 : RemoveAt(s, k)[i] = s[i + 1]
<1>1. Len(s) \in Nat
  BY LenProperties
<1>2. PICK n, m, l : /\ n = Len(s) /\ n \in Nat /\ m = k - 1 /\ m \in Nat
                     /\ l = k + 1 /\ l \in Nat /\ m < n /\ k \in Nat
  BY <1>1
<1> DEFINE front == SubSeq(s, 1, m)
           rest == SubSeq(s, l, n)
           r == front \o rest
<1>3. /\ front \in Seq(S) /\ Len(front) = m
      /\ \A i \in 1 .. m : front[i] = s[i]
  <2>1. /\ front \in Seq(S) /\ Len(front) = m - 1 + 1
        /\ \A i \in 1 .. m - 1 + 1 : front[i] = s[1 + i - 1]
    BY <1>2, Piece
  <2> HIDE DEF front
  <2> QED
    BY <1>2, <2>1
<1>4. /\ rest \in Seq(S) /\ Len(rest) = n - k
      /\ \A i \in 1 .. n - k : rest[i] = s[k + i]
  <2>1. /\ rest \in Seq(S) /\ Len(rest) = n - l + 1
        /\ \A i \in 1 .. n - l + 1 : rest[i] = s[l + i - 1]
    BY <1>2, Piece
  <2> HIDE DEF rest
  <2> QED
    BY <1>2, <2>1
<1>5. RemoveAt(s, k) = r
  BY <1>2, Zenon DEF RemoveAt
<1> HIDE DEF front, rest
<1>6. /\ r \in Seq(S) /\ Len(r) = m + (n - k)
      /\ \A i \in 1 .. m : r[i] = front[i]
      /\ \A i \in 1 .. n - k : r[m + i] = rest[i]
  BY <1>3, <1>4, Joined
<1> HIDE DEF r
<1>7. \A i \in 1 .. k - 1 : r[i] = s[i]
  BY <1>2, <1>3, <1>6
<1>8. \A i \in k .. Len(s) - 1 : r[i] = s[i + 1]
  <2> TAKE i \in k .. Len(s) - 1
  <2>1. PICK j \in 1 .. n - k : i = m + j
    BY <1>2
  <2>2. r[m + j] = rest[j] /\ rest[j] = s[k + j]
    BY <1>4, <1>6
  <2>3. k + j = i + 1
    BY <1>2, <2>1
  <2> QED
    BY <2>1, <2>2, <2>3
<1>9. Len(r) = Len(s) - 1
  BY <1>2, <1>6
<1> QED
  BY <1>5, <1>6, <1>7, <1>8, <1>9

-----------------------------------------------------------------------------
(* The invariants.                                                         *)

(* A load that is going on: browser_up loads the parent of browser_dir and *)
(* wants the name it leaves.                                               *)
LoadInv ==
    /\ load.at = "idle" => load = Idle
    /\ load.at # "read" => unread = {}
    /\ load.at \in {"open", "read"} => load.name \in Dirs
    /\ load.at = "map" => load.name \notin Dirs /\ Last(load.name) \in PlaylistNames
    /\ load.why = "up" =>
          /\ browser_dir # Root
          /\ load.name = Front(browser_dir) /\ load.want = Last(browser_dir)

(* A window with rows is on the list, unless the list was freed under it.  *)
WindowInv ==
    IF load.at = "read" THEN stale \/ w.n = 0
    ELSE stale \/ w.n = 0 \/ w.n = Len(list)

(* Only directories are called "../".                                      *)
Proper(e) == e.type = "dir" \/ e.name # DotDot
NamesInv == (\A i \in DOMAIN list : Proper(list[i])) /\ (\A e \in unread : Proper(e))

BrowserInv == TypeOK /\ LoadInv /\ WindowInv /\ NamesInv /\ Root \in fs

(* While a directory is read: no name comes twice.                         *)
UnreadInv ==
    load.at = "read" =>
        /\ \A e \in unread : e.type # "line"
        /\ \A e, f \in unread : e.name = f.name => e = f
        /\ \A i \in DOMAIN list : list[i].type # "line"
        /\ \A i \in DOMAIN list : \A e \in unread : list[i].name # e.name

(* The row that browser_reload wants is selected until the list is freed.  *)
ReloadInv ==
    load.why = "reload" =>
        /\ load.name = browser_dir
        /\ w.sel = 0 => load.want = None
        /\ load.at # "read" /\ load.want # None =>
              w.sel \in DOMAIN list /\ list[w.sel].name = load.want

(* Where no directory refuses to be searched and files change between the  *)
(* loads only, a load that has begun to free the list succeeds.            *)
OnListInv ==
    /\ load.at \in {"open", "map", "read"} => load.name \in fs
    /\ load.at # "read" => ~stale /\ w.n = Len(list)

(* Each row has its full name, in the directory that its list is of.       *)
RowsInv ==
    /\ load.at # "read" /\ load.why \in {"cd", "reload"} =>
          \A i \in DOMAIN list : list[i].from = FullName(browser_dir, list[i])
    /\ load.at = "read" =>
          /\ \A i \in DOMAIN list : list[i].from = FullName(load.name, list[i])
          /\ \A e \in unread : e.from = FullName(load.name, e)
    /\ load.why = "init" => load.name \in fs

-----------------------------------------------------------------------------
(* Paths and directories.                                                  *)

(* What the assumption on the paths says of a path and of its parent.     *)
LEMMA PathFacts ==
    /\ Dirs \subseteq Paths /\ Root \in Dirs
    /\ \A p \in Paths : p \in Seq(Names)
    /\ \A p \in Paths : p # Root =>
          /\ Front(p) \in Dirs /\ Last(p) \in Names /\ Front(p) # p
          /\ p = Append(Front(p), Last(p))
<1>1. /\ Dirs \subseteq Paths /\ Root \in Dirs
      /\ \A p \in Paths : p \in Seq(Names)
      /\ \A p \in Paths : p # Root => Front(p) \in Dirs /\ Last(p) \in Names
  BY PathsAssumption
<1>2. ASSUME NEW p \in Paths, p # Root
      PROVE  Front(p) # p /\ p = Append(Front(p), Last(p))
  <2>1. p \in Seq(Names) /\ p # <<>>
    BY <1>1, <1>2 DEF Root
  <2>2. /\ Len(p) \in Nat /\ Len(Front(p)) = Len(p) - 1
        /\ p = Append(Front(p), Last(p))
    BY <2>1, FrontLast
  <2> QED
    BY <2>2
<1> QED
  BY <1>1, <1>2

(* The root is always there.                                               *)
LEMMA RootFound == ASSUME Root \in fs PROVE Errno(Root) = "ok"
<1>1. Len(Root) = 0
  BY DEF Root
<1>2. Ancestors(Root) = {}
  <2>1. 0 .. Len(Root) - 1 = {}
    BY <1>1
  <2> QED
    BY <2>1 DEF Ancestors
<1> QED
  BY <1>2 DEF Errno, Reachable

(* A path is there if a system call on it succeeds.                       *)
LEMMA ErrnoFacts ==
    ASSUME NEW p
    PROVE  /\ Errno(p) \in {"ok", "ENOENT", "EACCES"}
           /\ Errno(p) = "ok" => p \in fs
           /\ Errno(p) = "ENOENT" => p \notin fs
BY DEF Errno

(* What a directory lists: each name once, under its full name.            *)
LEMMA ListedFacts ==
    ASSUME NEW d \in Dirs, fs \subseteq Paths
    PROVE  /\ \A e \in Listed(d) :
                 /\ e \in Entries /\ e.type # "line" /\ Proper(e)
                 /\ e.from = FullName(d, e)
           /\ \A e, f \in Listed(d) : e.name = f.name => e = f
<1> DEFINE Of(p) == [type |-> IF p \in Dirs THEN "dir" ELSE "file",
                     name |-> Last(p), from |-> p]
           Parent == [type |-> "dir", name |-> DotDot, from |-> Front(d)]
<1>1. d \in Paths /\ d \in Seq(Names)
  BY PathFacts
<1>2. \A e \in Listed(d) :
         \/ e = Parent /\ d # Root
         \/ \E p \in fs : p # Root /\ Front(p) = d /\ e = Of(p)
  BY DEF Listed
<1>3. ASSUME NEW p \in fs, p # Root, Front(p) = d
      PROVE  /\ Of(p) \in Entries /\ Of(p).type # "line" /\ Of(p).name \in Names
             /\ Of(p).name # DotDot /\ p = Append(d, Of(p).name)
             /\ Of(p).from = p
  <2>1. p \in Seq(Names) /\ Last(p) \in Names /\ p = Append(d, Last(p))
    BY <1>3, PathFacts
  <2> QED
    BY <2>1, NamesAssumption DEF Entries
<1>4. d # Root => Parent \in Entries
  <2>1. d # Root => Front(d) \in Seq(Names)
    BY <1>1, PathFacts
  <2> QED
    BY <2>1 DEF Entries
<1>5. Parent.type = "dir" /\ Parent.name = DotDot /\ Parent.from = Front(d)
  OBVIOUS
<1> HIDE DEF Parent
<1>6. ASSUME NEW e \in Listed(d)
      PROVE  /\ e \in Entries /\ e.type # "line" /\ Proper(e)
             /\ e.from = FullName(d, e)
  <2>1. CASE e = Parent /\ d # Root
    BY <1>4, <1>5, <2>1 DEF Proper, FullName
  <2>2. CASE \E p \in fs : p # Root /\ Front(p) = d /\ e = Of(p)
    <3>1. PICK p \in fs : p # Root /\ Front(p) = d /\ e = Of(p)
      BY <2>2
    <3>2. /\ e \in Entries /\ e.type # "line" /\ e.name # DotDot
          /\ p = Append(d, e.name) /\ e.from = p
      BY <1>3, <3>1
    <3> QED
      BY <3>2 DEF Proper, FullName
  <2> QED
    BY <1>2, <1>6, <2>1, <2>2
<1>7. ASSUME NEW e \in Listed(d), NEW f \in Listed(d), e.name = f.name
      PROVE  e = f
  <2>1. CASE e.name = DotDot
    <3>1. \A g \in Listed(d) : g.name = DotDot => g = Parent
      BY <1>2, <1>3
    <3> QED
      BY <1>7, <2>1, <3>1
  <2>2. CASE e.name # DotDot
    <3>1. PICK p \in fs : p # Root /\ Front(p) = d /\ e = Of(p)
      BY <1>2, <1>5, <2>2
    <3>2. PICK q \in fs : q # Root /\ Front(q) = d /\ f = Of(q)
      BY <1>2, <1>5, <1>7, <2>2
    <3>3. p = Append(d, e.name) /\ q = Append(d, f.name)
      BY <1>3, <3>1, <3>2
    <3>4. p = q
      BY <1>7, <3>3
    <3> QED
      BY <3>1, <3>2, <3>4
  <2> QED
    BY <2>1, <2>2
<1> QED
  BY <1>6, <1>7

(* What a playlist holds: the parent and its lines.                        *)
LEMMA PlaylistFacts ==
    ASSUME NEW p \in Paths, p \notin Dirs, Last(p) \in PlaylistNames
    PROVE  /\ ReadPlaylist(p) \in Seq(Entries)
           /\ \A i \in DOMAIN ReadPlaylist(p) :
                 /\ Proper(ReadPlaylist(p)[i])
                 /\ ReadPlaylist(p)[i].from = FullName(p, ReadPlaylist(p)[i])
                 /\ i > 1 => ReadPlaylist(p)[i].type = "line"
<1> DEFINE lines == PlaylistLines[p]
           parent == [type |-> "dir", name |-> DotDot, from |-> Front(p)]
           one == <<parent>>
           Line(i) == [type |-> "line", name |-> lines[i], from |-> <<lines[i]>>]
           rest == [i \in DOMAIN lines |-> Line(i)]
           r == one \o rest
<1>1. lines \in Seq(Names)
  BY PathsAssumption
<1>2. PICK n : n = Len(lines) /\ n \in Nat
  BY <1>1, LenProperties
<1>3. DOMAIN lines = 1 .. n /\ \A i \in 1 .. n : lines[i] \in Names
  BY <1>1, <1>2, LenProperties, ElementOfSeq
<1>4. p \in Seq(Names) /\ Front(p) \in Seq(Names)
  <2>1. p # Root
    BY PathFacts
  <2> QED
    BY <2>1, PathFacts
<1> HIDE DEF lines
<1>5. parent \in Entries
  BY <1>4 DEF Entries
<1>6. \A i \in 1 .. n :
         /\ Line(i) \in Entries /\ Line(i).type = "line" /\ Line(i).name # DotDot
         /\ Line(i).from = <<Line(i).name>>
  <2> TAKE i \in 1 .. n
  <2>1. lines[i] \in Names /\ lines[i] # DotDot
    BY <1>3, NamesAssumption
  <2>2. <<lines[i]>> \in Seq(Names)
    BY <2>1
  <2> QED
    BY <2>1, <2>2 DEF Entries
<1>7. parent.type = "dir" /\ parent.name = DotDot /\ parent.from = Front(p)
  OBVIOUS
<1> HIDE DEF parent, Line
<1>8. rest \in Seq(Entries) /\ Len(rest) = n /\ \A i \in 1 .. n : rest[i] = Line(i)
  <2>1. rest \in [1 .. n -> Entries]
    BY <1>3, <1>6
  <2>2. rest \in Seq(Entries) /\ Len(rest) = n
    BY <1>2, <2>1, SeqDef, LenProperties
  <2> QED
    BY <1>3, <2>2
<1>9. one \in Seq(Entries) /\ Len(one) = 1 /\ one[1] = parent
  BY <1>5
<1> HIDE DEF one, rest
<1>10. /\ r \in Seq(Entries) /\ Len(r) = 1 + n /\ r[1] = parent
       /\ \A i \in 1 .. n : r[1 + i] = rest[i]
  <2>1. PICK k \in Nat : k = 1
    OBVIOUS
  <2>2. Len(one) = k
    BY <1>9, <2>1
  <2>3. /\ r \in Seq(Entries) /\ Len(r) = k + n
        /\ \A i \in 1 .. k : r[i] = one[i]
        /\ \A i \in 1 .. n : r[k + i] = rest[i]
    BY <1>8, <1>9, <2>2, Joined
  <2> HIDE DEF r
  <2> QED
    BY <1>9, <2>1, <2>3
<1> HIDE DEF r
<1>11. \A i \in 1 .. 1 + n :
          /\ Proper(r[i]) /\ r[i].from = FullName(p, r[i])
          /\ i > 1 => r[i].type = "line"
  <2> TAKE i \in 1 .. 1 + n
  <2>1. CASE i = 1
    <3>1. r[i] = parent
      BY <1>10, <2>1
    <3> QED
      BY <1>7, <2>1, <3>1 DEF Proper, FullName
  <2>2. CASE i > 1
    <3>1. PICK j \in 1 .. n : i = 1 + j
      BY <1>2, <2>2
    <3>2. r[i] = Line(j)
      BY <1>8, <1>10, <3>1
    <3> QED
      BY <1>6, <3>2 DEF Proper, FullName
  <2> QED
    BY <1>2, <2>1, <2>2
<1>12. DOMAIN r = 1 .. 1 + n
  BY <1>10, LenProperties
<1>13. CASE lines = <<>>
  <2>1. ReadPlaylist(p) = <<>>
    BY <1>13, Zenon DEF ReadPlaylist, lines
  <2> QED
    BY <2>1
<1>14. CASE lines # <<>>
  <2>1. ReadPlaylist(p) = r
    BY <1>14, Zenon DEF ReadPlaylist, lines, r, one, rest, parent, Line
  <2> QED
    BY <1>10, <1>11, <1>12, <2>1
<1> QED
  BY <1>13, <1>14

-----------------------------------------------------------------------------
(* The parts of a load.                                                    *)

(* The insertion makes room for an entry, and moves no other past one.     *)
LEMMA InsertKeeps ==
    ASSUME NEW e \in Entries, list \in Seq(Entries), InsertEntry(e)
    PROVE  \E k \in 1 .. Len(list) + 1 :
              /\ list' \in Seq(Entries) /\ Len(list') = Len(list) + 1
              /\ \A i \in 1 .. k - 1 : list'[i] = list[i]
              /\ list'[k] = e
              /\ \A i \in k .. Len(list) : list'[i + 1] = list[i]
              /\ \A i \in k .. Len(list) : EntryLess(e, list[i])
              /\ k > 1 => ~EntryLess(e, list[k - 1])
<1>1. Len(list) \in Nat
  BY LenProperties
<1>2. PICK at \in 0 .. Len(list) :
         /\ \A i \in at + 1 .. Len(list) : EntryLess(e, list[i])
         /\ at > 0 => ~EntryLess(e, list[at])
         /\ list' = InsertAt(list, at + 1, e)
  BY Zenon DEF InsertEntry
<1>3. PICK k \in 1 .. Len(list) + 1 : k = at + 1 /\ k - 1 = at
  BY <1>1, <1>2
<1>4. list' = InsertAt(list, k, e)
  BY <1>2, <1>3
<1>5. /\ list' \in Seq(Entries) /\ Len(list') = Len(list) + 1
      /\ \A i \in 1 .. k - 1 : list'[i] = list[i]
      /\ list'[k] = e
      /\ \A i \in k .. Len(list) : list'[i + 1] = list[i]
  <2> DEFINE new == InsertAt(list, k, e)
  <2>1. /\ new \in Seq(Entries) /\ Len(new) = Len(list) + 1
        /\ \A i \in 1 .. k - 1 : new[i] = list[i]
        /\ new[k] = e
        /\ \A i \in k .. Len(list) : new[i + 1] = list[i]
    BY Inserted
  <2>2. list' = new
    BY <1>4
  <2> HIDE DEF new
  <2> QED
    BY <2>1, <2>2
<1>6. /\ \A i \in k .. Len(list) : EntryLess(e, list[i])
      /\ k > 1 => ~EntryLess(e, list[k - 1])
  <2>1. \A i \in k .. Len(list) : EntryLess(e, list[i])
    BY <1>2, <1>3
  <2>2. k > 1 => at > 0
    BY <1>3
  <2> QED
    BY <1>2, <1>3, <2>1, <2>2
<1> QED
  BY <1>3, <1>5, <1>6

(* All entries of the new list are old ones, or the new one.               *)
LEMMA InsertedFrom ==
    ASSUME NEW e \in Entries, list \in Seq(Entries), InsertEntry(e)
    PROVE  /\ list' \in Seq(Entries)
           /\ \A i \in DOMAIN list' :
                 list'[i] = e \/ \E j \in DOMAIN list : list'[i] = list[j]
<1>1. PICK k \in 1 .. Len(list) + 1 :
         /\ list' \in Seq(Entries) /\ Len(list') = Len(list) + 1
         /\ \A i \in 1 .. k - 1 : list'[i] = list[i]
         /\ list'[k] = e
         /\ \A i \in k .. Len(list) : list'[i + 1] = list[i]
  BY InsertKeeps
<1>2. /\ Len(list) \in Nat /\ DOMAIN list = 1 .. Len(list)
      /\ DOMAIN list' = 1 .. Len(list')
  BY <1>1, LenProperties
<1>3. ASSUME NEW i \in DOMAIN list'
      PROVE  list'[i] = e \/ \E j \in DOMAIN list : list'[i] = list[j]
  <2>1. CASE i \in 1 .. k - 1
    <3>1. i \in DOMAIN list
      BY <1>2, <2>1
    <3> QED
      BY <1>1, <2>1, <3>1
  <2>2. CASE i = k
    BY <1>1, <2>2
  <2>3. CASE i > k
    <3> DEFINE j == i - 1
    <3>1. i \in 1 .. Len(list) + 1 /\ k \in 1 .. Len(list) + 1
      BY <1>1, <1>2
    <3>2. j \in k .. Len(list) /\ j \in DOMAIN list /\ i = j + 1
      BY <1>2, <2>3, <3>1
    <3> HIDE DEF j
    <3> QED
      BY <1>1, <3>2
  <2> QED
    BY <1>1, <1>2, <2>1, <2>2, <2>3
<1> QED
  BY <1>1, <1>3

(* The window after a load is on the new list, and the row that the load   *)
(* wants is selected, if there is one.                                     *)
LEMMA ReselectWindow ==
    ASSUME NEW entries \in Seq(Entries), w \in Windows, Reselect(entries)
    PROVE  /\ w' \in Windows /\ w'.n = Len(entries)
           /\ load.want \in {entries[i].name : i \in DOMAIN entries} =>
                 w'.sel \in DOMAIN entries /\ entries[w'.sel].name = load.want
<1> DEFINE n == Len(entries)
           new == SetContents(w, n)
           found == {i \in DOMAIN entries : entries[i].name = load.want}
<1>1. n \in Nat /\ DOMAIN entries = 1 .. n
  BY LenProperties
<1> HIDE DEF n
<1>2. new \in Windows /\ new.n = n
  BY <1>1, SetContentsVisible
<1>3. \/ found = {} /\ w' = new
      \/ \E i \in found, init \in StackValues : w' = SetSel(new, i, init)
  BY Zenon DEF Reselect, n
<1> HIDE DEF new
<1>4. CASE found = {} /\ w' = new
  BY <1>2, <1>4 DEF n
<1>5. CASE \E i \in found, init \in StackValues : w' = SetSel(new, i, init)
  <2>1. PICK i \in found, init \in StackValues : w' = SetSel(new, i, init)
    BY <1>5
  <2>2. i \in DOMAIN entries /\ entries[i].name = load.want /\ init \in Int
    BY <2>1, BrowserAssumption
  <2>3. i \in Positions(new)
    BY <1>1, <1>2, <2>2 DEF Positions
  <2>4. w' \in Windows /\ w'.n = new.n /\ w'.sel = i
    BY <1>2, <2>1, <2>2, <2>3, SetSelWindow
  <2> QED
    BY <1>2, <2>2, <2>4 DEF n
<1> QED
  BY <1>3, <1>4, <1>5

(* A load that begins, and one that has ended.                             *)
LEMMA StartFacts ==
    ASSUME NEW name \in Seq(Names), NEW why \in {"init", "cd", "up", "reload"},
           NEW want \in Names \cup {DotDot, None}, Start(name, why, want)
    PROVE  /\ load' \in Loads /\ load'.at = "stat" /\ load'.name = name
           /\ load'.why = why /\ load'.want = want
<1>1. load' = [at |-> "stat", name |-> name, why |-> why, want |-> want]
  BY DEF Start
<1>2. [at |-> "stat", name |-> name, why |-> why, want |-> want] \in Loads
  BY DEF Loads
<1> QED
  BY <1>1, <1>2

(* What load is between the functions.                                    *)
LEMMA IdleFacts ==
    /\ Idle \in Loads /\ Idle.at = "idle" /\ Idle.why = "cd" /\ Idle.want = None
    /\ Idle.name = Root
BY PathFacts DEF Idle, Loads

(* A load that fails ends, or goes on from the beginning; only browser_up  *)
(* on a directory that is gone moves browser_dir, to the one above.        *)
LEMMA FailKeeps ==
    ASSUME BrowserInv, NEW errno, LoadFails(errno)
    PROVE  /\ load' \in Loads /\ load'.at \in {"idle", "stat"}
           /\ load'.at = "idle" => load' = Idle
           /\ browser_dir' \in Paths
           /\ load'.why = "up" =>
                 /\ browser_dir' # Root
                 /\ load'.name = Front(browser_dir')
                 /\ load'.want = Last(browser_dir')
           /\ load'.why # "reload"
           /\ load'.why = "init" => load'.name = Root
           /\ \/ browser_dir' = browser_dir
              \/ /\ load.why = "up" /\ errno = "ENOENT"
                 /\ browser_dir' = load.name
                 /\ load'.at = "idle" => load.name = Root
           /\ load.why = "up" /\ errno = "ENOENT" => browser_dir' = load.name
<1>1. browser_dir \in Paths /\ load \in Loads
  BY DEF BrowserInv, TypeOK
<1>2. CASE load.why = "up" /\ errno = "ENOENT"
  <2>1. /\ browser_dir' = load.name
        /\ IF load.name = Root THEN load' = Idle
           ELSE Start(Front(load.name), "up", Last(load.name))
    BY <1>2 DEF LoadFails
  <2>2. load.name \in Paths
    BY <1>1, <1>2, PathFacts DEF BrowserInv, LoadInv
  <2>3. CASE load.name = Root
    <3>1. load' = Idle
      BY <2>1, <2>3
    <3> QED
      BY <1>2, <2>1, <2>2, <2>3, <3>1, IdleFacts
  <2>4. CASE load.name # Root
    <3>1. Start(Front(load.name), "up", Last(load.name))
      BY <2>1, <2>4
    <3>2. Front(load.name) \in Seq(Names) /\ Last(load.name) \in Names
      BY <2>2, <2>4, PathFacts
    <3>3. /\ load' \in Loads /\ load'.at = "stat" /\ load'.name = Front(load.name)
          /\ load'.why = "up" /\ load'.want = Last(load.name)
      BY <3>1, <3>2, StartFacts
    <3> QED
      BY <1>2, <2>1, <2>2, <2>4, <3>3
  <2> QED
    BY <2>3, <2>4
<1>3. CASE ~(load.why = "up" /\ errno = "ENOENT")
  <2>1. GiveUp
    BY <1>3 DEF LoadFails
  <2>2. browser_dir' = browser_dir
    BY <2>1 DEF GiveUp
  <2>3. Start(Root, "init", None) \/ load' = Idle
    BY <2>1 DEF GiveUp
  <2>4. CASE Start(Root, "init", None)
    <3>1. /\ load' \in Loads /\ load'.at = "stat" /\ load'.name = Root
          /\ load'.why = "init"
      BY <2>4, PathFacts, StartFacts
    <3> QED
      BY <1>1, <1>3, <2>2, <3>1
  <2>5. CASE load' = Idle
    BY <1>1, <1>3, <2>2, <2>5, IdleFacts
  <2> QED
    BY <2>3, <2>4, <2>5
<1> QED
  BY <1>2, <1>3

-----------------------------------------------------------------------------
(* BrowserInv is inductive.                                                *)

(* A load that fails changes nothing else.                                 *)
LEMMA FailInv ==
    ASSUME BrowserInv, NEW errno, LoadFails(errno), unread = {},
           UNCHANGED <<fs, show_hidden, list, unread, w, stale, call>>
    PROVE  BrowserInv'
<1>1. /\ TypeOK /\ LoadInv /\ WindowInv /\ NamesInv /\ Root \in fs
  BY DEF BrowserInv
<1>2. /\ load' \in Loads /\ load'.at \in {"idle", "stat"}
      /\ load'.at = "idle" => load' = Idle
      /\ browser_dir' \in Paths
      /\ load'.why = "up" =>
            /\ browser_dir' # Root
            /\ load'.name = Front(browser_dir') /\ load'.want = Last(browser_dir')
  BY FailKeeps
<1>3. TypeOK'
  BY <1>1, <1>2 DEF TypeOK
<1>4. LoadInv'
  BY <1>2 DEF LoadInv
<1>5. WindowInv'
  BY <1>1, <1>2 DEF WindowInv
<1>6. NamesInv'
  BY <1>1 DEF NamesInv
<1> QED
  BY <1>1, <1>3, <1>4, <1>5, <1>6 DEF BrowserInv

(* One that succeeds puts the window on the list.                          *)
LEMMA SucceedInv ==
    ASSUME BrowserInv, NEW entries \in Seq(Entries), LoadSucceeds(entries),
           unread = {}, load.name \in Paths, list' = entries,
           \A i \in DOMAIN entries : Proper(entries[i]),
           UNCHANGED <<fs, show_hidden, unread, call>>
    PROVE  BrowserInv'
<1>1. TypeOK /\ Root \in fs
  BY DEF BrowserInv
<1>2. /\ Reselect(entries) /\ stale' = FALSE /\ browser_dir' = load.name
      /\ load' = Idle
  BY DEF LoadSucceeds
<1>3. w' \in Windows /\ w'.n = Len(entries)
  BY <1>1, <1>2, ReselectWindow DEF TypeOK
<1>4. TypeOK'
  BY <1>1, <1>2, <1>3, IdleFacts DEF TypeOK
<1>5. LoadInv'
  BY <1>2, IdleFacts DEF LoadInv
<1>6. WindowInv'
  BY <1>2, <1>3, IdleFacts DEF WindowInv
<1>7. NamesInv'
  BY DEF NamesInv
<1> QED
  BY <1>1, <1>4, <1>5, <1>6, <1>7 DEF BrowserInv

(* A function that begins a load does nothing else to the browser.         *)
LEMMA StartInv ==
    ASSUME BrowserInv, load.at = "idle", load' \in Loads, load'.at = "stat",
           load'.why = "up" => /\ browser_dir # Root
                               /\ load'.name = Front(browser_dir)
                               /\ load'.want = Last(browser_dir),
           call' \in Seq(Names),
           UNCHANGED <<fs, show_hidden, browser_dir, list, unread, w, stale>>
    PROVE  BrowserInv'
<1>1. TypeOK /\ LoadInv /\ WindowInv /\ NamesInv /\ Root \in fs
  BY DEF BrowserInv
<1>2. TypeOK'
  BY <1>1 DEF TypeOK
<1>3. LoadInv'
  BY <1>1 DEF LoadInv
<1>4. WindowInv'
  BY <1>1 DEF WindowInv
<1>5. NamesInv'
  BY <1>1 DEF NamesInv
<1> QED
  BY <1>1, <1>2, <1>3, <1>4, <1>5 DEF BrowserInv

(* One that moves in the window only.                                      *)
LEMMA MoveInv ==
    ASSUME BrowserInv, w' \in Windows, w'.n = w.n,
           UNCHANGED <<fs, show_hidden, browser_dir, list, unread, stale, load, call>>
    PROVE  BrowserInv'
<1>1. TypeOK /\ LoadInv /\ WindowInv /\ NamesInv /\ Root \in fs
  BY DEF BrowserInv
<1>2. TypeOK'
  BY <1>1 DEF TypeOK
<1>3. LoadInv'
  BY <1>1 DEF LoadInv
<1>4. WindowInv'
  BY <1>1 DEF WindowInv
<1>5. NamesInv'
  BY <1>1 DEF NamesInv
<1> QED
  BY <1>1, <1>2, <1>3, <1>4, <1>5 DEF BrowserInv

(* The window of the first load is empty.                                  *)
LEMMA InitWindow ==
    /\ SetNrRows(NewWindow, NrRows) \in Windows
    /\ SetNrRows(NewWindow, NrRows).n = 0
<1>1. NewWindow \in Windows /\ NewWindow.n = 0
  BY NewWindowVisible DEF NewWindow
<1>2. Keeps(NewWindow, SetNrRows(NewWindow, NrRows))
  BY <1>1, SetNrRowsKeeps, BrowserAssumption
<1> QED
  BY <1>1, <1>2 DEF Keeps

(* It holds while browser_init begins.                                    *)
LEMMA BrowserInvInit == Init => BrowserInv
<1> SUFFICES ASSUME Init PROVE BrowserInv
  OBVIOUS
<1> USE DEF Init
<1>1. PICK cwd \in Dirs :
         load = [at |-> "stat", name |-> cwd, why |-> "init", want |-> None]
  OBVIOUS
<1>2. cwd \in Seq(Names) /\ Root \in Paths /\ Root \in Seq(Names)
  BY PathFacts
<1>3. load \in Loads /\ load.at = "stat" /\ load.why = "init"
  BY <1>1, <1>2 DEF Loads
<1>4. list = <<>> /\ list \in Seq(Entries) /\ DOMAIN list = {}
  OBVIOUS
<1>5. TypeOK
  BY <1>2, <1>3, <1>4, InitWindow DEF TypeOK
<1>6. LoadInv
  BY <1>3 DEF LoadInv
<1>7. WindowInv
  BY <1>3, InitWindow DEF WindowInv
<1>8. NamesInv
  BY <1>4 DEF NamesInv
<1> QED
  BY <1>2, <1>5, <1>6, <1>7, <1>8 DEF BrowserInv

(* The selected row, while the window is on the list.                      *)
LEMMA SelectedFacts ==
    ASSUME BrowserInv, load.at # "read", ~stale, w.sel # 0
    PROVE  /\ w.n = Len(list) /\ w.sel \in 1 .. Len(list)
           /\ w.sel \in DOMAIN list /\ w.sel \in 1 .. w.n
           /\ Selected \in Entries /\ Proper(Selected)
<1>1. w \in Windows /\ list \in Seq(Entries) /\ WindowInv /\ NamesInv
  BY DEF BrowserInv, TypeOK
<1>2. Len(list) \in Nat /\ DOMAIN list = 1 .. Len(list)
  BY <1>1, LenProperties
<1>3. w.n \in Nat /\ w.sel \in Nat /\ w.sel <= w.n
  BY <1>1, WindowFields
<1>4. w.n = Len(list)
  BY <1>1, <1>3 DEF WindowInv
<1>5. w.sel \in 1 .. Len(list) /\ w.sel \in 1 .. w.n
  BY <1>2, <1>3, <1>4
<1>6. Selected \in Entries
  BY <1>1, <1>5, ElementOfSeq DEF Selected
<1>7. Proper(Selected)
  BY <1>1, <1>2, <1>5 DEF NamesInv, Selected
<1> QED
  BY <1>2, <1>4, <1>5, <1>6, <1>7

(* The file system.                                                        *)
LEMMA RootKept ==
    ASSUME BrowserInv, RemovePath \/ CreatePath
    PROVE  fs' \subseteq Paths /\ Root \in fs'
<1>1. fs \subseteq Paths /\ Root \in fs
  BY DEF BrowserInv, TypeOK
<1>2. CASE RemovePath
  <2>1. PICK p \in fs \ {Root} : fs' = {q \in fs : ~IsPrefix(p, q)}
    BY <1>2, Zenon DEF RemovePath
  <2>2. p \in Seq(Names) /\ p # <<>>
    BY <1>1, <2>1, PathFacts DEF Root
  <2>3. Len(p) > 0 /\ Len(p) \in Nat
    BY <2>2, FrontLast
  <2>4. Len(Root) = 0
    BY DEF Root
  <2>5. ~IsPrefix(p, Root)
    BY <2>3, <2>4 DEF IsPrefix
  <2> QED
    BY <1>1, <2>1, <2>5
<1>3. CASE CreatePath
  BY <1>1, <1>3 DEF CreatePath
<1> QED
  BY <1>2, <1>3

(* What other programs do to the files.                                   *)
LEMMA FileSystemInv ==
    ASSUME BrowserInv, RemovePath \/ CreatePath \/ ToggleHidden
    PROVE  BrowserInv'
<1>1. TypeOK /\ LoadInv /\ WindowInv /\ NamesInv /\ Root \in fs
  BY DEF BrowserInv
<1>2. UNCHANGED <<browser_dir, list, unread, w, stale, load, call>>
  BY DEF RemovePath, CreatePath, ToggleHidden
<1>3. fs' \subseteq Paths /\ Root \in fs' /\ show_hidden' \in BOOLEAN
  <2>1. CASE RemovePath \/ CreatePath
    <3>1. show_hidden' = show_hidden
      BY <2>1 DEF RemovePath, CreatePath
    <3> QED
      BY <1>1, <2>1, <3>1, RootKept DEF TypeOK
  <2>2. CASE ToggleHidden
    BY <1>1, <2>2 DEF ToggleHidden, TypeOK
  <2> QED
    BY <2>1, <2>2
<1>4. TypeOK'
  BY <1>1, <1>2, <1>3 DEF TypeOK
<1>5. LoadInv'
  BY <1>1, <1>2 DEF LoadInv
<1>6. WindowInv'
  BY <1>1, <1>2 DEF WindowInv
<1>7. NamesInv'
  BY <1>1, <1>2 DEF NamesInv
<1> QED
  BY <1>3, <1>4, <1>5, <1>6, <1>7 DEF BrowserInv

(* The system calls.                                                       *)
LEMMA StatInv == ASSUME BrowserInv, Stat PROVE BrowserInv'
<1> DEFINE errno == Errno(load.name)
           Continue(at) == load' = [load EXCEPT !.at = at] /\ UNCHANGED browser_dir
<1>1. TypeOK /\ LoadInv /\ WindowInv /\ NamesInv /\ Root \in fs
  BY DEF BrowserInv
<1>2. load.at = "stat" /\ UNCHANGED <<fs, show_hidden, list, unread, w, stale, call>>
  BY DEF Stat
<1>3. unread = {} /\ load \in Loads
  BY <1>1, <1>2 DEF LoadInv, TypeOK
<1>4. \/ \E e \in {"ENOTDIR", errno} : LoadFails(e)
      \/ load.name \in Dirs /\ Continue("open")
      \/ load.name \notin Dirs /\ Last(load.name) \in PlaylistNames /\ Continue("map")
  BY DEF Stat
<1>5. CASE \E e \in {"ENOTDIR", errno} : LoadFails(e)
  BY <1>2, <1>3, <1>5, FailInv
<1>6. ASSUME NEW at \in {"open", "map"}, Continue(at),
             IF at = "open" THEN load.name \in Dirs
             ELSE load.name \notin Dirs /\ Last(load.name) \in PlaylistNames
      PROVE  BrowserInv'
  <2>1. /\ load' \in Loads /\ load'.at = at /\ load'.name = load.name
        /\ load'.why = load.why /\ load'.want = load.want
        /\ browser_dir' = browser_dir
    BY <1>3, <1>6 DEF Loads
  <2>2. TypeOK'
    BY <1>1, <1>2, <2>1 DEF TypeOK
  <2>3. LoadInv'
    BY <1>1, <1>2, <1>3, <1>6, <2>1 DEF LoadInv
  <2>4. WindowInv'
    BY <1>1, <1>2, <1>6, <2>1 DEF WindowInv
  <2>5. NamesInv'
    BY <1>1, <1>2 DEF NamesInv
  <2> QED
    BY <1>1, <1>2, <2>2, <2>3, <2>4, <2>5 DEF BrowserInv
<1> QED
  BY <1>4, <1>5, <1>6

(* opendir.                                                               *)
LEMMA OpenDirInv == ASSUME BrowserInv, OpenDir PROVE BrowserInv'
<1>1. TypeOK /\ LoadInv /\ WindowInv /\ NamesInv /\ Root \in fs
  BY DEF BrowserInv
<1>2. load.at = "open" /\ UNCHANGED <<fs, show_hidden, w, call>>
  BY DEF OpenDir
<1>3. /\ unread = {} /\ load \in Loads /\ load.name \in Dirs /\ w \in Windows
      /\ w.n \in Nat
  BY <1>1, <1>2, WindowFields DEF LoadInv, TypeOK
<1>4. \/ \E e : LoadFails(e) /\ UNCHANGED <<list, unread, stale>>
      \/ /\ list' = <<>> /\ unread' = Listed(load.name)
         /\ stale' = (stale \/ w.n > 0)
         /\ load' = [load EXCEPT !.at = "read"]
         /\ UNCHANGED browser_dir
  BY Zenon DEF OpenDir
<1>5. CASE \E e : LoadFails(e) /\ UNCHANGED <<list, unread, stale>>
  BY <1>2, <1>3, <1>5, FailInv
<1>6. CASE /\ list' = <<>> /\ unread' = Listed(load.name)
           /\ stale' = (stale \/ w.n > 0)
           /\ load' = [load EXCEPT !.at = "read"]
           /\ UNCHANGED browser_dir
  <2>1. /\ load' \in Loads /\ load'.at = "read" /\ load'.name = load.name
        /\ load'.why = load.why /\ load'.want = load.want
    BY <1>3, <1>6 DEF Loads
  <2>2. /\ list' \in Seq(Entries) /\ DOMAIN list' = {}
        /\ \A e \in unread' : e \in Entries /\ Proper(e)
    BY <1>1, <1>3, <1>6, ListedFacts DEF TypeOK
  <2>3. TypeOK'
    <3>1. stale' \in BOOLEAN
      BY <1>6
    <3> QED
      BY <1>1, <1>2, <1>6, <2>1, <2>2, <3>1 DEF TypeOK
  <2>4. LoadInv'
    BY <1>1, <1>2, <1>3, <1>6, <2>1 DEF LoadInv
  <2>5. stale' \/ w'.n = 0
    <3>1. w.n > 0 \/ w'.n = 0
      BY <1>2, <1>3
    <3> QED
      BY <1>6, <3>1, Zenon
  <2>6. WindowInv'
    BY <2>1, <2>5 DEF WindowInv
  <2>7. NamesInv'
    BY <2>2 DEF NamesInv
  <2> QED
    BY <1>1, <1>2, <2>3, <2>4, <2>6, <2>7 DEF BrowserInv
<1> QED
  BY <1>4, <1>5, <1>6

(* readdir, stat and the insertion.                                        *)
LEMMA ReadEntryInv == ASSUME BrowserInv, ReadEntry PROVE BrowserInv'
<1>1. TypeOK /\ LoadInv /\ WindowInv /\ NamesInv /\ Root \in fs
  BY DEF BrowserInv
<1>2. /\ load.at = "read"
      /\ UNCHANGED <<fs, show_hidden, browser_dir, w, stale, load, call>>
  BY DEF ReadEntry
<1>3. PICK e \in unread :
         unread' = unread \ {e} /\ (InsertEntry(e) \/ UNCHANGED list)
  BY Zenon DEF ReadEntry
<1>4. e \in Entries /\ Proper(e) /\ list \in Seq(Entries)
  BY <1>1, <1>3 DEF TypeOK, NamesInv
<1>5. list' \in Seq(Entries) /\ \A i \in DOMAIN list' : Proper(list'[i])
  <2>1. CASE UNCHANGED list
    BY <1>1, <1>4, <2>1 DEF NamesInv
  <2>2. CASE InsertEntry(e)
    <3>1. /\ list' \in Seq(Entries)
          /\ \A i \in DOMAIN list' :
                list'[i] = e \/ \E j \in DOMAIN list : list'[i] = list[j]
      BY <1>4, <2>2, InsertedFrom
    <3> QED
      BY <1>1, <1>4, <3>1 DEF NamesInv
  <2> QED
    BY <1>3, <2>1, <2>2
<1>6. TypeOK'
  BY <1>1, <1>2, <1>3, <1>5 DEF TypeOK
<1>7. LoadInv'
  BY <1>1, <1>2 DEF LoadInv
<1>8. WindowInv'
  BY <1>1, <1>2 DEF WindowInv
<1>9. NamesInv'
  BY <1>1, <1>3, <1>5 DEF NamesInv
<1> QED
  BY <1>1, <1>2, <1>6, <1>7, <1>8, <1>9 DEF BrowserInv

(* chdir, after the last entry.                                           *)
LEMMA ChangeDirInv == ASSUME BrowserInv, ChangeDir PROVE BrowserInv'
<1>1. /\ load.at = "read" /\ unread = {}
      /\ UNCHANGED <<fs, show_hidden, list, unread, call>>
      /\ \/ LoadSucceeds(list)
         \/ \E e : LoadFails(e) /\ UNCHANGED <<w, stale>>
  BY Zenon DEF ChangeDir
<1>2. /\ load.name \in Paths /\ list \in Seq(Entries)
      /\ \A i \in DOMAIN list : Proper(list[i])
  BY <1>1, PathFacts DEF BrowserInv, TypeOK, LoadInv, NamesInv
<1>3. CASE LoadSucceeds(list)
  BY <1>1, <1>2, <1>3, SucceedInv
<1>4. CASE \E e : LoadFails(e) /\ UNCHANGED <<w, stale>>
  BY <1>1, <1>4, FailInv
<1> QED
  BY <1>1, <1>3, <1>4

(* The playlist is read.                                                  *)
LEMMA MapPlaylistInv == ASSUME BrowserInv, MapPlaylist PROVE BrowserInv'
<1> DEFINE entries == ReadPlaylist(load.name)
<1>1. /\ load.at = "map" /\ UNCHANGED <<fs, show_hidden, unread, call>>
      /\ \/ /\ Errno(load.name) = "ok"
            /\ list' = entries /\ LoadSucceeds(entries)
         \/ \E e : LoadFails(e) /\ UNCHANGED <<list, w, stale>>
  BY Zenon DEF MapPlaylist
<1>2. /\ unread = {} /\ load.name \notin Dirs /\ Last(load.name) \in PlaylistNames
      /\ fs \subseteq Paths
  BY <1>1 DEF BrowserInv, TypeOK, LoadInv
<1>3. CASE /\ Errno(load.name) = "ok"
           /\ list' = entries /\ LoadSucceeds(entries)
  <2>1. load.name \in Paths
    BY <1>2, <1>3, ErrnoFacts
  <2>2. entries \in Seq(Entries) /\ \A i \in DOMAIN entries : Proper(entries[i])
    BY <1>2, <2>1, PlaylistFacts
  <2> HIDE DEF entries
  <2> QED
    BY <1>1, <1>2, <1>3, <2>1, <2>2, SucceedInv
<1>4. CASE \E e : LoadFails(e) /\ UNCHANGED <<list, w, stale>>
  BY <1>1, <1>2, <1>4, FailInv
<1> QED
  BY <1>1, <1>3, <1>4

(* The functions of the browser.                                           *)
LEMMA GoUpFacts ==
    ASSUME BrowserInv, GoUp
    PROVE  /\ load' \in Loads /\ load'.at = "stat" /\ load'.why = "up"
           /\ load'.name = Front(browser_dir) /\ load'.want = Last(browser_dir)
           /\ browser_dir # Root /\ call' = call
<1>1. /\ browser_dir # Root /\ call' = call
      /\ Start(Front(browser_dir), "up", Last(browser_dir))
  BY DEF GoUp
<1>2. browser_dir \in Paths
  BY DEF BrowserInv, TypeOK
<1>3. Front(browser_dir) \in Seq(Names) /\ Last(browser_dir) \in Names
  BY <1>1, <1>2, PathFacts
<1> QED
  BY <1>1, <1>3, StartFacts

(* The name of a selected row that is no parent makes a path with          *)
(* browser_dir.                                                            *)
LEMMA FullPath ==
    ASSUME BrowserInv, NEW name \in Names
    PROVE  /\ Append(browser_dir, name) \in Seq(Names)
           /\ Append(browser_dir, name) # Root
<1>1. browser_dir \in Seq(Names)
  BY PathFacts DEF BrowserInv, TypeOK
<1>2. /\ Append(browser_dir, name) \in Seq(Names)
      /\ Len(Append(browser_dir, name)) = Len(browser_dir) + 1
      /\ Len(browser_dir) \in Nat
  BY <1>1, AppendProperties, LenProperties
<1>3. Len(Root) = 0
  BY DEF Root
<1> QED
  BY <1>2, <1>3

(* What browser_enter does with the row.                                   *)
LEMMA EnterFacts ==
    ASSUME BrowserInv, BrowserEnter
    PROVE  /\ call' \in Seq(Names)
           /\ \/ GoUp
              \/ /\ call' = call
                 /\ load' \in Loads /\ load'.at = "stat" /\ load'.why = "cd"
              \/ /\ load' = load
                 /\ call' = FullName(browser_dir, Selected)
<1> DEFINE name == Selected.name
<1>1. HasSel
  BY DEF BrowserEnter
<1>2. Selected \in Entries /\ Proper(Selected) /\ call \in Seq(Names)
  BY <1>1, SelectedFacts DEF HasSel, Ready, BrowserInv, TypeOK
<1>3. /\ name \in Names \cup {DotDot} /\ Selected.type \in {"dir", "file", "line"}
      /\ Selected.type = "dir" \/ name # DotDot
  BY <1>2 DEF Entries, Proper
<1>4. \/ GoUp
      \/ name # DotDot /\ Start(Append(browser_dir, name), "cd", None) /\ call' = call
      \/ /\ Selected.type = "file" /\ call' = Append(browser_dir, name)
         /\ load' = load
      \/ Selected.type = "line" /\ call' = <<name>> /\ load' = load
  BY DEF BrowserEnter
<1>5. CASE GoUp
  BY <1>2, <1>5, GoUpFacts
<1>6. CASE name # DotDot /\ Start(Append(browser_dir, name), "cd", None) /\ call' = call
  <2>1. Append(browser_dir, name) \in Seq(Names)
    BY <1>3, <1>6, FullPath
  <2> QED
    BY <1>2, <1>6, <2>1, StartFacts
<1>7. CASE /\ Selected.type = "file" /\ call' = Append(browser_dir, name)
           /\ load' = load
  <2>1. name # DotDot
    BY <1>3, <1>7
  <2>2. Append(browser_dir, name) \in Seq(Names)
    BY <1>3, <2>1, FullPath
  <2> QED
    BY <1>7, <2>1, <2>2 DEF FullName
<1>8. CASE Selected.type = "line" /\ call' = <<name>> /\ load' = load
  <2>1. name # DotDot
    BY <1>3, <1>8
  <2>2. <<name>> \in Seq(Names)
    BY <1>3, <2>1
  <2> QED
    BY <1>8, <2>1, <2>2 DEF FullName
<1> QED
  BY <1>4, <1>5, <1>6, <1>7, <1>8

(* What browser_delete does with it.                                       *)
LEMMA DeleteFacts ==
    ASSUME BrowserInv, BrowserDelete
    PROVE  /\ call' = FullName(browser_dir, Selected) /\ call' \in Seq(Names)
           /\ Selected.name \in Names
           /\ fs' \subseteq fs /\ Root \in fs'
           /\ w' \in Windows /\ w'.n = w.n - 1
           /\ w.n = Len(list) /\ list' = RemoveAt(list, w.sel)
           /\ w.sel \in 1 .. Len(list)
<1>1. /\ HasSel /\ Selected.type = "file"
      /\ w' = RowVanishes(w, w.sel) /\ list' = RemoveAt(list, w.sel)
      /\ call' = Append(browser_dir, Selected.name)
      /\ fs' = fs \ {Append(browser_dir, Selected.name)}
  BY DEF BrowserDelete
<1>2. /\ Selected \in Entries /\ Proper(Selected) /\ w.n = Len(list)
      /\ w.sel \in 1 .. w.n /\ w.sel \in 1 .. Len(list)
  BY <1>1, SelectedFacts DEF HasSel, Ready
<1>3. Selected.name \in Names /\ Selected.name # DotDot
  BY <1>1, <1>2 DEF Entries, Proper
<1>4. /\ Append(browser_dir, Selected.name) \in Seq(Names)
      /\ Append(browser_dir, Selected.name) # Root
  BY <1>3, FullPath
<1>5. w \in Windows /\ Root \in fs
  BY DEF BrowserInv, TypeOK
<1>6. w' \in Windows /\ w'.n = w.n - 1
  BY <1>1, <1>2, <1>5, RowVanishesKeeps
<1> QED
  BY <1>1, <1>2, <1>3, <1>4, <1>5, <1>6 DEF FullName

(* browser_enter.                                                         *)
LEMMA EnterInv == ASSUME BrowserInv, BrowserEnter PROVE BrowserInv'
<1>1. /\ load.at = "idle"
      /\ UNCHANGED <<fs, show_hidden, browser_dir, list, unread, w, stale>>
  BY DEF BrowserEnter, HasSel, Ready
<1>2. call' \in Seq(Names)
  BY EnterFacts
<1>3. \/ GoUp
      \/ load' \in Loads /\ load'.at = "stat" /\ load'.why = "cd"
      \/ load' = load
  BY EnterFacts
<1>4. CASE GoUp
  BY <1>1, <1>2, <1>4, GoUpFacts, StartInv
<1>5. CASE load' \in Loads /\ load'.at = "stat" /\ load'.why = "cd"
  BY <1>1, <1>2, <1>5, StartInv
<1>6. CASE load' = load
  <2>1. TypeOK /\ LoadInv /\ WindowInv /\ NamesInv /\ Root \in fs
    BY DEF BrowserInv
  <2>2. TypeOK'
    BY <1>1, <1>2, <1>6, <2>1 DEF TypeOK
  <2>3. LoadInv'
    BY <1>1, <1>6, <2>1 DEF LoadInv
  <2>4. WindowInv'
    BY <1>1, <1>6, <2>1 DEF WindowInv
  <2>5. NamesInv'
    BY <1>1, <2>1 DEF NamesInv
  <2> QED
    BY <1>1, <2>1, <2>2, <2>3, <2>4, <2>5 DEF BrowserInv
<1> QED
  BY <1>3, <1>4, <1>5, <1>6

(* The rows that stay.                                                     *)
LEMMA DeletedFrom ==
    ASSUME BrowserInv, BrowserDelete
    PROVE  /\ list' \in Seq(Entries) /\ Len(list') = Len(list) - 1
           /\ \A i \in DOMAIN list' : \E j \in DOMAIN list : list'[i] = list[j]
<1>1. list \in Seq(Entries)
  BY DEF BrowserInv, TypeOK
<1>2. list' = RemoveAt(list, w.sel) /\ w.sel \in 1 .. Len(list)
  BY DeleteFacts
<1> DEFINE k == w.sel
           r == RemoveAt(list, k)
<1>3. /\ r \in Seq(Entries) /\ Len(r) = Len(list) - 1
      /\ \A i \in 1 .. k - 1 : r[i] = list[i]
      /\ \A i \in k .. Len(list) - 1 : r[i] = list[i + 1]
  BY <1>1, <1>2, Removed
<1>4. list' = r /\ k \in 1 .. Len(list)
  BY <1>2
<1> HIDE DEF r, k
<1>5. /\ Len(list) \in Nat /\ DOMAIN list = 1 .. Len(list)
      /\ DOMAIN r = 1 .. Len(list) - 1
  BY <1>1, <1>3, LenProperties
<1>6. \A i \in DOMAIN r : \E j \in DOMAIN list : r[i] = list[j]
  <2> TAKE i \in DOMAIN r
  <2>1. CASE i < k
    BY <1>3, <1>4, <1>5, <2>1
  <2>2. CASE i >= k
    <3>1. r[i] = list[i + 1] /\ i + 1 \in DOMAIN list
      BY <1>3, <1>4, <1>5, <2>2
    <3> QED
      BY <3>1
  <2> QED
    BY <1>4, <1>5, <2>1, <2>2
<1> QED
  BY <1>3, <1>4, <1>6

(* browser_delete.                                                        *)
LEMMA DeleteInv == ASSUME BrowserInv, BrowserDelete PROVE BrowserInv'
<1>1. TypeOK /\ LoadInv /\ WindowInv /\ NamesInv /\ list \in Seq(Entries)
  BY DEF BrowserInv, TypeOK
<1>2. /\ load.at = "idle"
      /\ UNCHANGED <<show_hidden, browser_dir, unread, stale, load>>
  BY DEF BrowserDelete, HasSel, Ready
<1>3. /\ call' \in Seq(Names) /\ fs' \subseteq fs /\ Root \in fs'
      /\ w' \in Windows /\ w'.n = w.n - 1 /\ w.n = Len(list)
  BY DeleteFacts
<1>4. /\ list' \in Seq(Entries) /\ Len(list') = Len(list) - 1
      /\ \A i \in DOMAIN list' : \E j \in DOMAIN list : list'[i] = list[j]
  BY DeletedFrom
<1>5. TypeOK'
  BY <1>1, <1>2, <1>3, <1>4 DEF TypeOK
<1>6. LoadInv'
  BY <1>1, <1>2 DEF LoadInv
<1>7. w'.n = Len(list') /\ load'.at # "read"
  BY <1>2, <1>3, <1>4
<1>8. WindowInv'
  BY <1>7 DEF WindowInv
<1>9. NamesInv'
  BY <1>1, <1>2, <1>4 DEF NamesInv
<1> QED
  BY <1>3, <1>5, <1>6, <1>8, <1>9 DEF BrowserInv

(* What browser_reload begins.                                             *)
LEMMA ReloadFacts ==
    ASSUME BrowserInv, BrowserReload
    PROVE  /\ load' \in Loads /\ load'.at = "stat" /\ load'.why = "reload"
           /\ load'.name = browser_dir
           /\ load'.want = IF w.sel = 0 THEN None ELSE Selected.name
<1>1. /\ load.at = "idle" /\ ~stale
      /\ Start(browser_dir, "reload", IF w.sel = 0 THEN None ELSE Selected.name)
  BY DEF BrowserReload, Ready
<1>2. browser_dir \in Seq(Names)
  BY PathFacts DEF BrowserInv, TypeOK
<1>3. CASE w.sel = 0
  BY <1>1, <1>2, <1>3, StartFacts
<1>4. CASE w.sel # 0
  <2>1. Selected.name \in Names \cup {DotDot}
    BY <1>1, <1>4, SelectedFacts DEF Entries
  <2> QED
    BY <1>1, <1>2, <1>4, <2>1, StartFacts
<1> QED
  BY <1>3, <1>4

(* Every movement leaves a window on the same list.                        *)
LEMMA MoveFacts ==
    ASSUME BrowserInv, Move \/ Redraw
    PROVE  /\ w' \in Windows /\ w'.n = w.n
           /\ load.at = "idle" /\ ~stale
           /\ UNCHANGED <<fs, show_hidden, browser_dir, list, unread, stale, load, call>>
<1>1. w \in Windows
  BY DEF BrowserInv, TypeOK
<1>2. CASE Redraw
  BY <1>1, <1>2, RedrawnWindow DEF Redraw, Ready
<1>3. CASE Move
  <2>1. \/ w' \in {Up(w, 1), Down(w, 1), GotoTop(w), GotoBottom(w), PageBottom(w)}
        \/ \E p \in 1 .. w.n, init \in StackValues : w' = SetSel(w, p, init)
    BY <1>3 DEF Move
  <2>2. 1 \in Nat \ {0} /\ w.nr_rows - 1 \in Int
    BY <1>1, WindowFields
  <2>3. /\ Keeps(w, Up(w, 1)) /\ Keeps(w, Down(w, 1)) /\ Keeps(w, GotoTop(w))
        /\ GotoBottom(w) \in Windows /\ GotoBottom(w).n = w.n
        /\ PageBottom(w) \in Windows /\ PageBottom(w).n = w.n
    BY <1>1, <2>2, UpKeeps, DownKeeps, GotoTopKeeps, GotoBottomVisible,
       GotoPosWindow DEF PageBottom
  <2>4. ASSUME NEW p \in 1 .. w.n, NEW init \in StackValues, w' = SetSel(w, p, init)
        PROVE  w' \in Windows /\ w'.n = w.n
    <3>1. p \in Positions(w) /\ init \in Int
      BY <1>1, WindowFields, BrowserAssumption
    <3> QED
      BY <1>1, <2>4, <3>1, SetSelWindow
  <2>5. w' \in Windows /\ w'.n = w.n
    BY <2>1, <2>3, <2>4 DEF Keeps
  <2> QED
    BY <1>3, <2>5 DEF Move, Ready
<1> QED
  BY <1>2, <1>3

(* What :cd begins.                                                       *)
LEMMA ChdirFacts ==
    ASSUME BrowserChdir
    PROVE  load' \in Loads /\ load'.at = "stat" /\ load'.why = "cd"
<1>1. PICK name \in Paths : Start(name, "cd", None)
  BY DEF BrowserChdir
<1>2. name \in Seq(Names)
  BY PathFacts
<1> QED
  BY <1>1, <1>2, StartFacts

(* Every step keeps the invariant.                                         *)
LEMMA BrowserInvNext == BrowserInv /\ [Next]_vars => BrowserInv'
<1> SUFFICES ASSUME BrowserInv, [Next]_vars PROVE BrowserInv'
  OBVIOUS
<1>1. call \in Seq(Names) /\ w \in Windows
  BY DEF BrowserInv, TypeOK
<1>2. CASE Loading
  BY <1>2, StatInv, OpenDirInv, ReadEntryInv, ChangeDirInv, MapPlaylistInv DEF Loading
<1>3. CASE BrowserChdir
  BY <1>1, <1>3, ChdirFacts, StartInv DEF BrowserChdir, Ready
<1>4. CASE BrowserUp
  BY <1>1, <1>4, GoUpFacts, StartInv DEF BrowserUp, Ready
<1>5. CASE BrowserEnter
  BY <1>5, EnterInv
<1>6. CASE BrowserDelete
  BY <1>6, DeleteInv
<1>7. CASE BrowserReload
  BY <1>1, <1>7, ReloadFacts, StartInv DEF BrowserReload, Ready
<1>8. CASE Move \/ Redraw
  BY <1>8, MoveFacts, MoveInv
<1>9. CASE RemovePath \/ CreatePath \/ ToggleHidden
  BY <1>9, FileSystemInv
<1>10. CASE UNCHANGED vars
  BY <1>1, <1>10, MoveInv DEF vars
<1> QED
  BY <1>2, <1>3, <1>4, <1>5, <1>6, <1>7, <1>8, <1>9, <1>10 DEF Next

(* So it holds always.                                                    *)
LEMMA BrowserInvariant == Spec => []BrowserInv
BY BrowserInvInit, BrowserInvNext, PTL DEF Spec

(* Every variable of the browser has its type: top and sel of the window   *)
(* are rows of the list that it was given last, or its head, after any     *)
(* load, deletion or search, whatever other programs do to the files.      *)
THEOREM BrowserTypeCorrect == Spec => []TypeOK
<1>1. BrowserInv => TypeOK
  BY DEF BrowserInv
<1> QED
  BY <1>1, BrowserInvariant, PTL

-----------------------------------------------------------------------------
(* The window between the functions.                                       *)

(* Where every directory may be searched, a path is there or is not.       *)
LEMMA Searchable ==
    ASSUME NoSearch = {}, NEW p
    PROVE  Errno(p) = IF p \in fs THEN "ok" ELSE "ENOENT"
<1>1. Ancestors(p) \cap NoSearch = {}
  OBVIOUS
<1>2. Ancestors(p) \cap NoSearch \cap fs = {}
  OBVIOUS
<1> QED
  BY <1>1, <1>2 DEF Errno, Reachable

(* A directory or a playlist that is there is loaded, once it is found to  *)
(* be one.                                                                 *)
LEMMA FoundIsLoaded ==
    ASSUME NoSearch = {}, load.name \in fs
    PROVE  /\ ChangeDir => LoadSucceeds(list)
           /\ MapPlaylist =>
                 /\ list' = ReadPlaylist(load.name)
                 /\ LoadSucceeds(ReadPlaylist(load.name))
           /\ OpenDir => \/ load.name \in NoRead
                         \/ /\ list' = <<>> /\ unread' = Listed(load.name)
                            /\ load' = [load EXCEPT !.at = "read"]
                            /\ UNCHANGED browser_dir
<1>1. Errno(load.name) = "ok" /\ load.name \notin NoSearch
  BY Searchable
<1>2. ChangeDir => LoadSucceeds(list)
  BY <1>1 DEF ChangeDir
<1>3. MapPlaylist => /\ list' = ReadPlaylist(load.name)
                     /\ LoadSucceeds(ReadPlaylist(load.name))
  BY <1>1, Zenon DEF MapPlaylist
<1>4. OpenDir => \/ load.name \in NoRead
                 \/ /\ list' = <<>> /\ unread' = Listed(load.name)
                    /\ load' = [load EXCEPT !.at = "read"]
                    /\ UNCHANGED browser_dir
  BY <1>1, Zenon DEF OpenDir
<1> QED
  BY <1>2, <1>3, <1>4

(* What the first system call of a load leads to.                         *)
LEMMA StatKinds ==
    ASSUME BrowserInv, Stat
    PROVE  /\ load.at = "stat" /\ unread = {}
           /\ UNCHANGED <<fs, show_hidden, list, unread, w, stale, call>>
           /\ \/ Errno(load.name) # "ok" /\ LoadFails(Errno(load.name))
              \/ load.name \notin Dirs /\ Errno(load.name) = "ok" /\ LoadFails("ENOTDIR")
              \/ /\ load.name \in fs /\ browser_dir' = browser_dir
                 /\ load'.at \in {"open", "map"} /\ load'.name = load.name
                 /\ load'.why = load.why /\ load'.want = load.want
<1> DEFINE Continue(at) == load' = [load EXCEPT !.at = at] /\ UNCHANGED browser_dir
<1>1. load.at = "stat" /\ load \in Loads /\ LoadInv
  BY DEF Stat, BrowserInv, TypeOK
<1>2. UNCHANGED <<fs, show_hidden, list, unread, w, stale, call>> /\ unread = {}
  BY <1>1 DEF Stat, LoadInv
<1>3. \/ Errno(load.name) # "ok" /\ LoadFails(Errno(load.name))
      \/ load.name \notin Dirs /\ Errno(load.name) = "ok" /\ LoadFails("ENOTDIR")
      \/ Errno(load.name) = "ok" /\ \E at \in {"open", "map"} : Continue(at)
  BY DEF Stat
<1>4. ASSUME Errno(load.name) = "ok", NEW at \in {"open", "map"}, Continue(at)
      PROVE  /\ load.name \in fs /\ browser_dir' = browser_dir
             /\ load'.at \in {"open", "map"} /\ load'.name = load.name
             /\ load'.why = load.why /\ load'.want = load.want
  <2>1. load.name \in fs
    BY <1>4, ErrnoFacts
  <2> QED
    BY <1>1, <1>4, <2>1 DEF Loads
<1> QED
  BY <1>1, <1>2, <1>3, <1>4

(* A load of a directory that may be searched, once begun, ends with the   *)
(* window on its list.                                                     *)
LEMMA OnListInit == Init => OnListInv
<1> SUFFICES ASSUME Init PROVE OnListInv
  OBVIOUS
<1>1. load.at = "stat" /\ ~stale /\ w.n = 0 /\ Len(list) = 0
  BY InitWindow DEF Init
<1> QED
  BY <1>1 DEF OnListInv

(* Every step keeps it on the list.                                       *)
LEMMA OnListNext ==
    ASSUME ~Interference, NoSearch = {}
    PROVE  BrowserInv /\ OnListInv /\ [Next]_vars => OnListInv'
<1> SUFFICES ASSUME BrowserInv, OnListInv, [Next]_vars PROVE OnListInv'
  OBVIOUS
<1>1. /\ w \in Windows /\ list \in Seq(Entries) /\ load \in Loads /\ LoadInv
      /\ load.at = "idle" => load = Idle
  BY DEF BrowserInv, TypeOK, LoadInv
<1>2. CASE Stat
  <2>1. /\ load.at = "stat" /\ UNCHANGED <<fs, list, w, stale>>
        /\ \/ \E e : LoadFails(e)
           \/ /\ load.name \in fs /\ load'.at \in {"open", "map"}
              /\ load'.name = load.name
    BY <1>2, StatKinds
  <2>2. ASSUME NEW e, LoadFails(e) PROVE load'.at \in {"idle", "stat"}
    BY <2>2, FailKeeps
  <2> QED
    BY <2>1, <2>2 DEF OnListInv
<1>3. CASE OpenDir
  <2>1. /\ load.at = "open" /\ UNCHANGED <<fs, w>>
        /\ \/ \E e : LoadFails(e) /\ UNCHANGED <<list, unread, stale>>
           \/ load' = [load EXCEPT !.at = "read"]
    BY <1>3, Zenon DEF OpenDir
  <2>2. CASE \E e : LoadFails(e) /\ UNCHANGED <<list, unread, stale>>
    <3>1. load'.at \in {"idle", "stat"}
      BY <2>2, FailKeeps
    <3> QED
      BY <2>1, <2>2, <3>1 DEF OnListInv
  <2>3. CASE load' = [load EXCEPT !.at = "read"]
    <3>1. load'.at = "read" /\ load'.name = load.name
      BY <1>1, <2>3 DEF Loads
    <3> QED
      BY <2>1, <3>1 DEF OnListInv
  <2> QED
    BY <2>1, <2>2, <2>3
<1>4. CASE ReadEntry
  <2>1. load.at = "read" /\ UNCHANGED <<fs, load>>
    BY <1>4 DEF ReadEntry
  <2> QED
    BY <2>1 DEF OnListInv
<1>5. ASSUME NEW entries \in Seq(Entries), LoadSucceeds(entries), list' = entries
      PROVE  OnListInv'
  <2>1. w'.n = Len(entries) /\ stale' = FALSE /\ load'.at = "idle"
    BY <1>1, <1>5, ReselectWindow, IdleFacts DEF LoadSucceeds
  <2> QED
    BY <1>5, <2>1 DEF OnListInv
<1>6. CASE ChangeDir
  <2>1. load.at = "read" /\ list' = list
    BY <1>6 DEF ChangeDir
  <2>2. load.name \in fs
    BY <2>1 DEF OnListInv
  <2> QED
    BY <1>1, <1>5, <1>6, <2>1, <2>2, FoundIsLoaded
<1>7. CASE MapPlaylist
  <2>1. load.at = "map"
    BY <1>7 DEF MapPlaylist
  <2>2. load.name \in fs /\ load.name \notin Dirs /\ Last(load.name) \in PlaylistNames
    BY <1>1, <2>1 DEF OnListInv, LoadInv
  <2>3. ReadPlaylist(load.name) \in Seq(Entries)
    BY <2>2, PlaylistFacts DEF BrowserInv, TypeOK
  <2> QED
    BY <1>5, <1>7, <2>2, <2>3, FoundIsLoaded
<1>8. ASSUME load'.at \in {"stat", "idle"}, load.at # "read",
             UNCHANGED <<list, w, stale>>
      PROVE  OnListInv'
  BY <1>8 DEF OnListInv
<1>9. CASE BrowserChdir \/ BrowserUp \/ BrowserReload
  <2>1. load.at = "idle" /\ UNCHANGED <<list, w, stale>>
    BY <1>9 DEF BrowserChdir, BrowserUp, BrowserReload, Ready
  <2>2. load'.at = "stat"
    BY <1>9, ChdirFacts, GoUpFacts, ReloadFacts DEF BrowserUp
  <2> QED
    BY <1>8, <2>1, <2>2
<1>10. CASE BrowserEnter
  <2>1. load.at = "idle" /\ UNCHANGED <<list, w, stale>>
    BY <1>10 DEF BrowserEnter, HasSel, Ready
  <2>2. load'.at = "stat" \/ load' = load
    BY <1>10, EnterFacts, GoUpFacts
  <2> QED
    BY <1>8, <2>1, <2>2
<1>11. CASE BrowserDelete
  <2>1. load.at = "idle" /\ load' = load /\ ~stale /\ ~stale'
    BY <1>11 DEF BrowserDelete, HasSel, Ready
  <2>2. /\ w'.n = w.n - 1 /\ w.n = Len(list) /\ list' = RemoveAt(list, w.sel)
        /\ w.sel \in 1 .. Len(list)
    BY <1>11, DeleteFacts
  <2>3. Len(RemoveAt(list, w.sel)) = Len(list) - 1
    BY <1>1, <2>2, Removed
  <2> QED
    BY <2>1, <2>2, <2>3 DEF OnListInv
<1>12. CASE Move \/ Redraw
  <2>1. w'.n = w.n /\ load.at = "idle" /\ UNCHANGED <<list, stale, load>>
    BY <1>12, MoveFacts
  <2> QED
    BY <2>1 DEF OnListInv
<1>13. CASE RemovePath \/ CreatePath \/ ToggleHidden
  <2>1. load.at = "idle" /\ UNCHANGED <<list, w, stale, load>>
    BY <1>13 DEF RemovePath, CreatePath, ToggleHidden, FileSystemFree, Ready
  <2> QED
    BY <1>8, <2>1
<1>14. CASE UNCHANGED vars
  BY <1>14 DEF vars, OnListInv
<1> QED
  BY <1>2, <1>3, <1>4, <1>6, <1>7, <1>9, <1>10, <1>11, <1>12, <1>13, <1>14
     DEF Next, Loading

(* Where every directory that can be read can be searched, and the files   *)
(* do not change in the middle of a load, the window is on the list        *)
(* whenever the user can act: browser_load frees the list only after the   *)
(* last system call that can fail.                                         *)
THEOREM WindowOnListCorrect ==
    ASSUME ~Interference, NoSearch = {}
    PROVE  Spec => []WindowOnList
<1>1. OnListInv => WindowOnList
  BY DEF OnListInv, WindowOnList, Ready
<1>2. Init => BrowserInv /\ OnListInv
  BY BrowserInvInit, OnListInit
<1>3. (BrowserInv /\ OnListInv) /\ [Next]_vars => (BrowserInv /\ OnListInv)'
  BY BrowserInvNext, OnListNext
<1> QED
  BY <1>1, <1>2, <1>3, PTL DEF Spec

-----------------------------------------------------------------------------
(* The rows and the directory.                                             *)

(* Before the first load there are no rows.                               *)
LEMMA RowsInit == Init => RowsInv
<1> SUFFICES ASSUME Init PROVE RowsInv
  OBVIOUS
<1>1. load.at = "stat" /\ load.why = "init" /\ load.name \in Dirs
  BY DEF Init
<1>2. load.name \in fs
  BY <1>1, PathFacts DEF Init
<1> QED
  BY <1>1, <1>2 DEF RowsInv

(* The rows are kept with their directory.                                 *)
LEMMA SameRows ==
    ASSUME RowsInv, load.at # "read", load.why \in {"cd", "reload"},
           load'.at # "read", load'.why # "init",
           UNCHANGED <<browser_dir, list>>
    PROVE  RowsInv'
BY DEF RowsInv

(* Every step keeps the rows with the directory.                          *)
LEMMA RowsNext ==
    ASSUME ~Interference, NoSearch = {}, NoRead = {}
    PROVE  BrowserInv /\ OnListInv /\ RowsInv /\ [Next]_vars => RowsInv'
<1> SUFFICES ASSUME BrowserInv, OnListInv, RowsInv, [Next]_vars PROVE RowsInv'
  OBVIOUS
<1>1. /\ list \in Seq(Entries) /\ load \in Loads /\ LoadInv /\ fs \subseteq Paths
      /\ load.at = "idle" => load.why = "cd"
      /\ Root \in fs /\ browser_dir \in Paths
  BY IdleFacts DEF BrowserInv, TypeOK, LoadInv
<1>2. CASE Stat
  <2>1. /\ load.at = "stat" /\ unread = {} /\ UNCHANGED <<fs, list, unread>>
        /\ \/ Errno(load.name) # "ok" /\ LoadFails(Errno(load.name))
           \/ load.name \notin Dirs /\ Errno(load.name) = "ok" /\ LoadFails("ENOTDIR")
           \/ /\ load.name \in fs /\ browser_dir' = browser_dir
              /\ load'.at \in {"open", "map"} /\ load'.name = load.name
              /\ load'.why = load.why
    BY <1>2, StatKinds
  <2>2. CASE /\ load.name \in fs /\ browser_dir' = browser_dir
             /\ load'.at \in {"open", "map"} /\ load'.name = load.name
             /\ load'.why = load.why
    BY <2>1, <2>2 DEF RowsInv
  <2>3. CASE Errno(load.name) # "ok" /\ LoadFails(Errno(load.name))
    <3>1. load.name \notin fs /\ Errno(load.name) = "ENOENT"
      BY <2>3, Searchable
    <3>2. load.why # "init" /\ load.name # Root
      BY <1>1, <3>1 DEF RowsInv
    <3>3. CASE load.why = "up"
      <4>1. Start(Front(load.name), "up", Last(load.name))
        BY <2>3, <3>1, <3>2, <3>3 DEF LoadFails
      <4>2. load'.at = "stat" /\ load'.why = "up"
        BY <4>1 DEF Start
      <4> QED
        BY <4>2 DEF RowsInv
    <3>4. CASE load.why \in {"cd", "reload"}
      <4>1. load' = Idle /\ UNCHANGED browser_dir
        BY <2>3, <3>4 DEF LoadFails, GiveUp
      <4> QED
        BY <2>1, <3>4, <4>1, SameRows, IdleFacts
    <3> QED
      BY <1>1, <3>2, <3>3, <3>4 DEF Loads
  <2>4. CASE load.name \notin Dirs /\ Errno(load.name) = "ok" /\ LoadFails("ENOTDIR")
    <3>1. load.name # Root
      BY <2>4, PathFacts
    <3>2. GiveUp
      BY <2>4 DEF LoadFails
    <3>3. CASE load.why = "init"
      <4>1. Start(Root, "init", None)
        BY <3>1, <3>2, <3>3 DEF GiveUp
      <4>2. load'.at = "stat" /\ load'.why = "init" /\ load'.name = Root
        BY <4>1 DEF Start
      <4> QED
        BY <1>1, <2>1, <4>2 DEF RowsInv
    <3>4. CASE load.why = "up"
      <4>1. load.name \in Dirs
        BY <1>1, <3>4, PathFacts DEF LoadInv
      <4> QED
        BY <2>4, <4>1
    <3>5. CASE load.why \in {"cd", "reload"}
      <4>1. load' = Idle /\ UNCHANGED browser_dir
        BY <3>2, <3>5 DEF GiveUp
      <4> QED
        BY <2>1, <3>5, <4>1, SameRows, IdleFacts
    <3> QED
      BY <1>1, <3>3, <3>4, <3>5 DEF Loads
  <2> QED
    BY <2>1, <2>2, <2>3, <2>4
<1>3. CASE OpenDir
  <2>1. load.at = "open" /\ UNCHANGED fs
    BY <1>3 DEF OpenDir
  <2>2. load.name \in fs /\ load.name \in Dirs
    BY <1>1, <2>1 DEF OnListInv, LoadInv
  <2>3. /\ list' = <<>> /\ unread' = Listed(load.name)
        /\ load' = [load EXCEPT !.at = "read"]
    BY <1>3, <2>2, FoundIsLoaded
  <2>4. load'.at = "read" /\ load'.name = load.name /\ load'.why = load.why
    BY <1>1, <2>3 DEF Loads
  <2>5. \A e \in unread' : e.from = FullName(load.name, e)
    BY <1>1, <2>2, <2>3, ListedFacts
  <2>6. DOMAIN list' = {}
    BY <2>3
  <2> QED
    BY <2>1, <2>2, <2>4, <2>5, <2>6 DEF RowsInv
<1>4. CASE ReadEntry
  <2>1. load.at = "read" /\ UNCHANGED <<fs, load, browser_dir>>
    BY <1>4 DEF ReadEntry
  <2>2. PICK e \in unread :
           unread' = unread \ {e} /\ (InsertEntry(e) \/ UNCHANGED list)
    BY <1>4, Zenon DEF ReadEntry
  <2>3. /\ \A i \in DOMAIN list : list[i].from = FullName(load.name, list[i])
        /\ \A f \in unread : f.from = FullName(load.name, f)
    BY <2>1 DEF RowsInv
  <2>4. \A i \in DOMAIN list' : list'[i].from = FullName(load.name, list'[i])
    <3>1. CASE UNCHANGED list
      BY <2>3, <3>1
    <3>2. CASE InsertEntry(e)
      <4>1. e \in Entries
        BY <2>2 DEF BrowserInv, TypeOK
      <4>2. \A i \in DOMAIN list' : list'[i] = e \/ \E j \in DOMAIN list : list'[i] = list[j]
        BY <1>1, <3>2, <4>1, InsertedFrom
      <4> QED
        BY <2>2, <2>3, <4>2
    <3> QED
      BY <2>2, <3>1, <3>2
  <2>5. load'.name = load.name /\ load'.why = load.why /\ load'.at = "read"
    BY <2>1
  <2>6. load.why = "init" => load.name \in fs
    BY DEF RowsInv
  <2> QED
    BY <2>1, <2>2, <2>3, <2>4, <2>5, <2>6 DEF RowsInv
<1>5. CASE ChangeDir
  <2>1. load.at = "read" /\ list' = list
    BY <1>5 DEF ChangeDir
  <2>2. load.name \in fs
    BY <2>1 DEF OnListInv
  <2>3. browser_dir' = load.name /\ load' = Idle
    BY <1>5, <2>2, FoundIsLoaded DEF LoadSucceeds
  <2>4. \A i \in DOMAIN list : list[i].from = FullName(load.name, list[i])
    BY <2>1 DEF RowsInv
  <2> QED
    BY <2>1, <2>3, <2>4, IdleFacts DEF RowsInv
<1>6. CASE MapPlaylist
  <2>1. load.at = "map"
    BY <1>6 DEF MapPlaylist
  <2>2. load.name \in fs /\ load.name \notin Dirs /\ Last(load.name) \in PlaylistNames
    BY <1>1, <2>1 DEF OnListInv, LoadInv
  <2>3. /\ browser_dir' = load.name /\ load' = Idle
        /\ list' = ReadPlaylist(load.name)
    BY <1>6, <2>2, FoundIsLoaded DEF LoadSucceeds
  <2>4. \A i \in DOMAIN ReadPlaylist(load.name) :
           ReadPlaylist(load.name)[i].from
               = FullName(load.name, ReadPlaylist(load.name)[i])
    BY <1>1, <2>2, PlaylistFacts
  <2> QED
    BY <2>3, <2>4, IdleFacts DEF RowsInv
<1>7. CASE BrowserChdir \/ BrowserUp \/ BrowserReload
  <2>1. load.at = "idle" /\ UNCHANGED <<list, browser_dir>>
    BY <1>7 DEF BrowserChdir, BrowserUp, BrowserReload, Ready
  <2>2. load'.at = "stat" /\ load'.why # "init"
    BY <1>7, ChdirFacts, GoUpFacts, ReloadFacts DEF BrowserUp
  <2> QED
    BY <1>1, <2>1, <2>2, SameRows
<1>8. CASE BrowserEnter
  <2>1. load.at = "idle" /\ UNCHANGED <<list, browser_dir>>
    BY <1>8 DEF BrowserEnter, HasSel, Ready
  <2>2. load'.at \in {"idle", "stat"} /\ load'.why # "init"
    BY <1>1, <1>8, <2>1, EnterFacts, GoUpFacts
  <2> QED
    BY <1>1, <2>1, <2>2, SameRows
<1>9. CASE BrowserDelete
  <2>1. load.at = "idle" /\ load' = load /\ browser_dir' = browser_dir
    BY <1>9 DEF BrowserDelete, HasSel, Ready
  <2>2. \A i \in DOMAIN list' : \E j \in DOMAIN list : list'[i] = list[j]
    BY <1>9, DeletedFrom
  <2>3. \A i \in DOMAIN list : list[i].from = FullName(browser_dir, list[i])
    BY <1>1, <2>1 DEF RowsInv
  <2>4. \A i \in DOMAIN list' : list'[i].from = FullName(browser_dir', list'[i])
    BY <2>1, <2>2, <2>3
  <2> QED
    BY <1>1, <2>1, <2>4 DEF RowsInv
<1>10. CASE Move \/ Redraw \/ RemovePath \/ CreatePath \/ ToggleHidden
  <2>1. load.at = "idle" /\ UNCHANGED <<list, browser_dir, load>>
    BY <1>10, MoveFacts DEF RemovePath, CreatePath, ToggleHidden, FileSystemFree, Ready
  <2> QED
    BY <1>1, <2>1, SameRows
<1>11. CASE UNCHANGED vars
  BY <1>11 DEF vars, RowsInv
<1> QED
  BY <1>2, <1>3, <1>4, <1>5, <1>6, <1>7, <1>8, <1>9, <1>10, <1>11
     DEF Next, Loading

(* Where moreover every directory can be read, the rows the user sees are  *)
(* those of browser_dir whenever the user can act: the full name that      *)
(* browser_enter and browser_delete put together from the two is the path  *)
(* that the row was made for.                                              *)
THEOREM RowsOfDirCorrect ==
    ASSUME ~Interference, NoSearch = {}, NoRead = {}
    PROVE  Spec => []RowsOfDir
<1> DEFINE Inv == BrowserInv /\ OnListInv /\ RowsInv
<1>1. Inv => RowsOfDir
  BY IdleFacts DEF BrowserInv, LoadInv, RowsInv, RowsOfDir, Ready
<1>2. Init => Inv
  BY BrowserInvInit, OnListInit, RowsInit
<1>3. Inv /\ [Next]_vars => Inv'
  BY BrowserInvNext, OnListNext, RowsNext
<1> QED
  BY <1>1, <1>2, <1>3, PTL DEF Spec

(* Under the same conditions a path is played or deleted only if it is the *)
(* one that the selected row was made for.                                 *)
THEOREM ActsOnSelectedCorrect ==
    ASSUME ~Interference, NoSearch = {}, NoRead = {}
    PROVE  Spec => ActsOnSelected
<1> DEFINE Step == call' # call => call' = Selected.from
<1>1. BrowserInv /\ RowsOfDir /\ [Next]_vars => [Step]_vars
  <2> SUFFICES ASSUME BrowserInv, RowsOfDir, [Next]_vars, call' # call
               PROVE  call' = Selected.from
    OBVIOUS
  <2>1. BrowserEnter \/ BrowserDelete
    BY DEF Next, Loading, Stat, OpenDir, ReadEntry, ChangeDir, MapPlaylist,
           BrowserChdir, BrowserUp, GoUp, BrowserReload, Move, Redraw,
           RemovePath, CreatePath, ToggleHidden, vars
  <2>2. call' = FullName(browser_dir, Selected)
    BY <2>1, EnterFacts, DeleteFacts DEF GoUp
  <2>3. HasSel
    BY <2>1 DEF BrowserEnter, BrowserDelete
  <2>4. load.at = "idle" /\ w.sel \in DOMAIN list
    BY <2>3, SelectedFacts DEF HasSel, Ready
  <2>5. list[w.sel].from = FullName(browser_dir, list[w.sel])
    BY <2>4 DEF RowsOfDir, Ready
  <2> QED
    BY <2>2, <2>5 DEF Selected
<1>2. Spec => []RowsOfDir
  BY RowsOfDirCorrect
<1> QED
  BY <1>1, <1>2, BrowserInvariant, PTL DEF Spec, ActsOnSelected

-----------------------------------------------------------------------------
(* The order of a directory.                                               *)

OfDir(e) == e \in Entries /\ e.type # "line"

(* entry_cmp on entries of different names: an entry goes behind the one   *)
(* that it is not less than, and before those it is less than.             *)
LEMMA LessOrNot ==
    ASSUME NEW e, NEW x, OfDir(e), OfDir(x), e.name # x.name
    PROVE  /\ EntryLess(e, x) => Ordered(e, x)
           /\ ~EntryLess(e, x) => Ordered(x, e)
<1>1. /\ e.type \in {"dir", "file"} /\ x.type \in {"dir", "file"}
      /\ e.name \in Names \cup {DotDot} /\ x.name \in Names \cup {DotDot}
  BY DEF OfDir, Entries
<1>2. EntryLess(e, x) => Ordered(e, x)
  BY <1>1 DEF EntryLess, Ordered
<1>3. ASSUME ~EntryLess(e, x) PROVE Ordered(x, e)
  <2>1. CASE e.type = x.type
    <3>1. DotDot \notin {e.name, x.name} /\ ~(Rank[e.name] < Rank[x.name])
      BY <1>3, <2>1 DEF EntryLess
    <3>2. e.name \in Names /\ x.name \in Names
      BY <1>1, <3>1
    <3>3. /\ Rank[e.name] \in Nat /\ Rank[x.name] \in Nat
          /\ Rank[e.name] # Rank[x.name]
      BY <3>2, NamesAssumption
    <3>4. Rank[x.name] < Rank[e.name]
      BY <3>1, <3>3
    <3> QED
      BY <2>1, <3>4 DEF Ordered
  <2>2. CASE e.type # x.type
    BY <1>1, <1>3, <2>2 DEF EntryLess, Ordered
  <2> QED
    BY <2>1, <2>2
<1> QED
  BY <1>2, <1>3

(* The order goes through an entry that is no parent, and the parent is no *)
(* entry behind which a directory goes.                                    *)
LEMMA OrderedThrough ==
    ASSUME NEW a, NEW b, NEW e, OfDir(a), OfDir(b), OfDir(e),
           Ordered(a, b), Ordered(b, e), ~EntryLess(e, b)
    PROVE  Ordered(a, e)
<1>1. /\ a.type \in {"dir", "file"} /\ b.type \in {"dir", "file"}
      /\ e.type \in {"dir", "file"}
      /\ a.name \in Names \cup {DotDot} /\ b.name \in Names \cup {DotDot}
      /\ e.name \in Names \cup {DotDot}
  BY DEF OfDir, Entries
<1>2. CASE a.type = e.type
  <2>1. b.type = a.type
    BY <1>1, <1>2 DEF Ordered
  <2>2. b.name # DotDot
    BY <1>1, <1>2, <2>1 DEF EntryLess
  <2>3. ASSUME DotDot \notin {a.name, e.name}
        PROVE  Rank[a.name] < Rank[e.name]
    <3>1. Rank[a.name] < Rank[b.name] /\ Rank[b.name] < Rank[e.name]
      BY <1>2, <2>1, <2>2, <2>3 DEF Ordered
    <3>2. Rank[a.name] \in Nat /\ Rank[b.name] \in Nat /\ Rank[e.name] \in Nat
      BY <1>1, <2>2, <2>3, NamesAssumption
    <3> QED
      BY <3>1, <3>2
  <2> QED
    BY <1>2, <2>3 DEF Ordered
<1>3. CASE a.type # e.type
  <2>1. a.type = "dir" /\ e.type = "file"
    BY <1>1, <1>3 DEF Ordered
  <2> QED
    BY <2>1 DEF Ordered
<1> QED
  BY <1>2, <1>3

(* The insertion keeps the order.                                          *)
LEMMA InsertSorted ==
    ASSUME NEW e, OfDir(e), list \in Seq(Entries), InsertEntry(e), Sorted,
           \A i \in DOMAIN list : list[i].type # "line" /\ list[i].name # e.name
    PROVE  Sorted'
<1>1. e \in Entries
  BY DEF OfDir
<1>2. PICK k \in 1 .. Len(list) + 1 :
         /\ list' \in Seq(Entries) /\ Len(list') = Len(list) + 1
         /\ \A i \in 1 .. k - 1 : list'[i] = list[i]
         /\ list'[k] = e
         /\ \A i \in k .. Len(list) : list'[i + 1] = list[i]
         /\ \A i \in k .. Len(list) : EntryLess(e, list[i])
         /\ k > 1 => ~EntryLess(e, list[k - 1])
  BY <1>1, InsertKeeps
<1>3. /\ Len(list) \in Nat /\ DOMAIN list = 1 .. Len(list)
      /\ DOMAIN list' = 1 .. Len(list) + 1
  BY <1>2, LenProperties
<1>4. \A i \in DOMAIN list : OfDir(list[i]) /\ list[i].name # e.name
  BY <1>3, ElementOfSeq DEF OfDir
<1>5. \A i, j \in DOMAIN list : i < j => Ordered(list[i], list[j])
  BY DEF Sorted
<1>6. ASSUME NEW i \in DOMAIN list, i < k PROVE Ordered(list[i], e)
  <2>1. PICK l \in DOMAIN list : l = k - 1
    BY <1>2, <1>3, <1>6
  <2>2. ~EntryLess(e, list[l])
    BY <1>2, <1>3, <1>6, <2>1
  <2>3. Ordered(list[l], e)
    BY <1>4, <2>2, LessOrNot
  <2>4. CASE i = l
    BY <2>3, <2>4
  <2>5. CASE i # l
    <3>1. i < l
      BY <1>3, <1>6, <2>1, <2>5
    <3>2. Ordered(list[i], list[l])
      BY <1>5, <3>1
    <3> QED
      BY <1>4, <2>2, <2>3, <3>2, OrderedThrough
  <2> QED
    BY <2>4, <2>5
<1>7. ASSUME NEW j \in k .. Len(list) PROVE Ordered(e, list[j])
  <2>1. j \in DOMAIN list /\ EntryLess(e, list[j])
    BY <1>2, <1>3
  <2> QED
    BY <1>4, <2>1, LessOrNot
<1>8. ASSUME NEW i \in DOMAIN list', NEW j \in DOMAIN list', i < j
      PROVE  Ordered(list'[i], list'[j])
  <2>1. i \in Int /\ j \in Int /\ k \in Int
    BY <1>3
  <2>2. CASE j < k
    <3>1. /\ i \in DOMAIN list /\ j \in DOMAIN list
          /\ i \in 1 .. k - 1 /\ j \in 1 .. k - 1
      BY <1>3, <1>8, <2>2
    <3>2. list'[i] = list[i] /\ list'[j] = list[j]
      BY <1>2, <3>1
    <3> QED
      BY <1>5, <1>8, <3>1, <3>2
  <2>3. CASE j = k
    <3>1. i \in DOMAIN list /\ i \in 1 .. k - 1
      BY <1>3, <1>8, <2>3
    <3>2. list'[i] = list[i] /\ list'[j] = e
      BY <1>2, <2>3, <3>1
    <3> QED
      BY <1>6, <1>8, <2>3, <3>1, <3>2
  <2>4. CASE j > k
    <3>1. PICK m : m = j - 1 /\ m \in k .. Len(list) /\ m \in DOMAIN list /\ m + 1 = j
      BY <1>3, <2>1, <2>4
    <3>2. list'[j] = list[m]
      BY <1>2, <3>1
    <3>3. CASE i < k
      <4>1. i \in DOMAIN list /\ i \in 1 .. k - 1 /\ i < m
        BY <1>3, <3>1, <3>3
      <4>2. list'[i] = list[i]
        BY <1>2, <4>1
      <4> QED
        BY <1>5, <3>1, <3>2, <4>1, <4>2
    <3>4. CASE i = k
      BY <1>2, <1>7, <3>1, <3>2, <3>4
    <3>5. CASE i > k
      <4>1. PICK l : l = i - 1 /\ l \in k .. Len(list) /\ l \in DOMAIN list /\ l + 1 = i
        BY <1>3, <2>1, <3>5
      <4>2. list'[i] = list[l] /\ l < m
        BY <1>2, <1>8, <2>1, <3>1, <4>1
      <4> QED
        BY <1>5, <3>1, <3>2, <4>1, <4>2
    <3> QED
      BY <2>1, <3>3, <3>4, <3>5
  <2> QED
    BY <2>1, <2>2, <2>3, <2>4
<1> QED
  BY <1>8 DEF Sorted

(* readdir gives no name twice, so the names of the list and of what is    *)
(* still to come stay apart.                                               *)
LEMMA SortedInit == Init => UnreadInv /\ Sorted
<1> SUFFICES ASSUME Init PROVE UnreadInv /\ Sorted
  OBVIOUS
<1>1. load.at = "stat" /\ DOMAIN list = {}
  BY DEF Init
<1> QED
  BY <1>1 DEF UnreadInv, Sorted

(* Every step keeps the order.                                            *)
LEMMA SortedNext == BrowserInv /\ UnreadInv /\ Sorted /\ [Next]_vars
                        => UnreadInv' /\ Sorted'
<1> SUFFICES ASSUME BrowserInv, UnreadInv, Sorted, [Next]_vars
             PROVE  UnreadInv' /\ Sorted'
  OBVIOUS
<1>1. /\ list \in Seq(Entries) /\ unread \subseteq Entries /\ fs \subseteq Paths
      /\ load \in Loads /\ LoadInv
  BY DEF BrowserInv, TypeOK
<1>2. ASSUME load'.at # "read", list' = list PROVE UnreadInv' /\ Sorted'
  BY <1>2 DEF UnreadInv, Sorted
<1>3. ASSUME NEW e, LoadFails(e) PROVE load'.at # "read"
  BY <1>3, FailKeeps
<1>4. CASE Stat
  <2>1. load'.at # "read" /\ list' = list
    BY <1>3, <1>4, StatKinds
  <2> QED
    BY <1>2, <2>1
<1>5. CASE OpenDir
  <2>1. /\ load.at = "open"
        /\ \/ \E e : LoadFails(e) /\ UNCHANGED <<list, unread, stale>>
           \/ list' = <<>> /\ unread' = Listed(load.name)
    BY <1>5, Zenon DEF OpenDir
  <2>2. CASE \E e : LoadFails(e) /\ UNCHANGED <<list, unread, stale>>
    BY <1>2, <1>3, <2>2
  <2>3. CASE list' = <<>> /\ unread' = Listed(load.name)
    <3>1. load.name \in Dirs
      BY <1>1, <2>1 DEF LoadInv
    <3>2. /\ \A e \in unread' : e.type # "line"
          /\ \A e, f \in unread' : e.name = f.name => e = f
      BY <1>1, <2>3, <3>1, ListedFacts
    <3>3. DOMAIN list' = {}
      BY <2>3
    <3> QED
      BY <3>2, <3>3 DEF UnreadInv, Sorted
  <2> QED
    BY <2>1, <2>2, <2>3
<1>6. CASE ReadEntry
  <2>1. load.at = "read" /\ load' = load
    BY <1>6 DEF ReadEntry
  <2>2. PICK e \in unread :
           unread' = unread \ {e} /\ (InsertEntry(e) \/ UNCHANGED list)
    BY <1>6, Zenon DEF ReadEntry
  <2>3. /\ \A f \in unread : f.type # "line"
        /\ \A f, g \in unread : f.name = g.name => f = g
        /\ \A i \in DOMAIN list : list[i].type # "line"
        /\ \A i \in DOMAIN list : \A f \in unread : list[i].name # f.name
    BY <2>1 DEF UnreadInv
  <2>4. CASE UNCHANGED list
    BY <2>2, <2>3, <2>4 DEF UnreadInv, Sorted
  <2>5. CASE InsertEntry(e)
    <3>1. OfDir(e)
      BY <1>1, <2>2, <2>3 DEF OfDir
    <3>2. \A i \in DOMAIN list' :
             list'[i] = e \/ \E j \in DOMAIN list : list'[i] = list[j]
      BY <1>1, <2>5, <3>1, InsertedFrom DEF OfDir
    <3>3. /\ \A i \in DOMAIN list' : list'[i].type # "line"
          /\ \A i \in DOMAIN list' : \A f \in unread' : list'[i].name # f.name
      BY <2>2, <2>3, <3>2
    <3>4. Sorted'
      BY <1>1, <2>2, <2>3, <2>5, <3>1, InsertSorted
    <3> QED
      BY <2>2, <2>3, <3>3, <3>4 DEF UnreadInv
  <2> QED
    BY <2>2, <2>4, <2>5
<1>7. CASE ChangeDir
  <2>1. /\ list' = list
        /\ \/ LoadSucceeds(list)
           \/ \E e : LoadFails(e)
    BY <1>7, Zenon DEF ChangeDir
  <2>2. load'.at # "read"
    BY <1>3, <2>1, IdleFacts DEF LoadSucceeds
  <2> QED
    BY <1>2, <2>1, <2>2
<1>8. CASE MapPlaylist
  <2> DEFINE entries == ReadPlaylist(load.name)
  <2>1. /\ load.at = "map"
        /\ \/ /\ Errno(load.name) = "ok"
              /\ list' = entries /\ LoadSucceeds(entries)
           \/ \E e : LoadFails(e) /\ UNCHANGED <<list, w, stale>>
    BY <1>8, Zenon DEF MapPlaylist
  <2>2. CASE \E e : LoadFails(e) /\ UNCHANGED <<list, w, stale>>
    BY <1>2, <1>3, <2>2
  <2>3. CASE /\ Errno(load.name) = "ok"
             /\ list' = entries /\ LoadSucceeds(entries)
    <3>1. load.name \in Paths /\ load.name \notin Dirs /\ Last(load.name) \in PlaylistNames
      BY <1>1, <2>1, <2>3, ErrnoFacts DEF LoadInv
    <3>2. /\ entries \in Seq(Entries)
          /\ \A i \in DOMAIN entries : i > 1 => entries[i].type = "line"
      BY <3>1, PlaylistFacts
    <3>3. load'.at = "idle"
      BY <2>3, IdleFacts DEF LoadSucceeds
    <3> HIDE DEF entries
    <3>4. DOMAIN entries = 1 .. Len(entries) /\ Len(entries) \in Nat
      BY <3>2, LenProperties
    <3>5. \A i, j \in DOMAIN entries : i < j => j > 1
      BY <3>4
    <3> QED
      BY <2>3, <3>2, <3>3, <3>5 DEF UnreadInv, Sorted
  <2> QED
    BY <2>1, <2>2, <2>3
<1>9. CASE BrowserChdir \/ BrowserUp \/ BrowserReload
  <2>1. load'.at # "read" /\ list' = list
    BY <1>9, ChdirFacts, GoUpFacts, ReloadFacts
       DEF BrowserChdir, BrowserUp, BrowserReload
  <2> QED
    BY <1>2, <2>1
<1>10. CASE BrowserEnter
  <2>1. load.at = "idle" /\ list' = list
    BY <1>10 DEF BrowserEnter, HasSel, Ready
  <2>2. load'.at # "read"
    BY <1>10, <2>1, EnterFacts, GoUpFacts
  <2> QED
    BY <1>2, <2>1, <2>2
<1>11. CASE BrowserDelete
  <2>1. load.at = "idle" /\ load' = load
    BY <1>11 DEF BrowserDelete, HasSel, Ready
  <2>2. list' = RemoveAt(list, w.sel) /\ w.sel \in 1 .. Len(list)
    BY <1>11, DeleteFacts
  <2> DEFINE k == w.sel
             r == RemoveAt(list, k)
  <2>3. /\ r \in Seq(Entries) /\ Len(r) = Len(list) - 1
        /\ \A i \in 1 .. k - 1 : r[i] = list[i]
        /\ \A i \in k .. Len(list) - 1 : r[i] = list[i + 1]
    BY <1>1, <2>2, Removed
  <2>4. list' = r /\ k \in 1 .. Len(list)
    BY <2>2
  <2> HIDE DEF r, k
  <2>5. /\ Len(list) \in Nat /\ DOMAIN list = 1 .. Len(list)
        /\ DOMAIN r = 1 .. Len(list) - 1
    BY <1>1, <2>3, LenProperties
  <2> DEFINE Old(i) == IF i < k THEN i ELSE i + 1
  <2>6. \A i \in DOMAIN r : Old(i) \in DOMAIN list /\ r[i] = list[Old(i)]
    BY <2>3, <2>4, <2>5
  <2>7. \A i, j \in DOMAIN r : i < j => Old(i) < Old(j)
    BY <2>4, <2>5
  <2> HIDE DEF Old
  <2>8. \A i, j \in DOMAIN r : i < j /\ r[j].type # "line" => Ordered(r[i], r[j])
    BY <2>6, <2>7 DEF Sorted
  <2> QED
    BY <2>1, <2>4, <2>8 DEF UnreadInv, Sorted
<1>12. CASE Move \/ Redraw \/ RemovePath \/ CreatePath \/ ToggleHidden
  <2>1. UNCHANGED <<list, unread, load>>
    BY <1>12, MoveFacts DEF RemovePath, CreatePath, ToggleHidden
  <2> QED
    BY <2>1 DEF UnreadInv, Sorted
<1>13. CASE UNCHANGED vars
  BY <1>13 DEF vars, UnreadInv, Sorted
<1> QED
  BY <1>4, <1>5, <1>6, <1>7, <1>8, <1>9, <1>10, <1>11, <1>12, <1>13
     DEF Next, Loading

(* In whatever order readdir gives the entries, and whatever happens to    *)
(* the files meanwhile, the insertion leaves the directories before the    *)
(* files, each in the order of their names and none twice.                 *)
THEOREM SortedCorrect == Spec => []Sorted
<1> DEFINE Inv == BrowserInv /\ UnreadInv /\ Sorted
<1>1. Init => Inv
  BY BrowserInvInit, SortedInit
<1>2. Inv /\ [Next]_vars => Inv'
  BY BrowserInvNext, SortedNext
<1> QED
  BY <1>1, <1>2, PTL DEF Spec

-----------------------------------------------------------------------------
(* The selection.                                                          *)

(* The outcomes of a system call.                                          *)
LEMMA LoadingKinds ==
    ASSUME BrowserInv, Loading
    PROVE  \/ load'.at # "idle" /\ load'.name = load.name /\ load'.why = load.why
              /\ load'.want = load.want /\ UNCHANGED <<browser_dir, w>>
              /\ (load'.at # "read" => list' = list /\ load.at # "read")
           \/ /\ \E e : /\ LoadFails(e)
                        /\ e = "ENOENT" => Errno(load.name) = "ENOENT"
              /\ UNCHANGED <<list, w, stale>>
           \/ \E entries \in Seq(Entries) :
                 LoadSucceeds(entries) /\ list' = entries
<1>1. /\ list \in Seq(Entries) /\ load \in Loads /\ LoadInv /\ fs \subseteq Paths
  BY DEF BrowserInv, TypeOK
<1>2. CASE Stat
  BY <1>2, StatKinds
<1>3. CASE OpenDir
  <2> DEFINE errno == IF load.name \in NoRead /\ Errno(load.name) = "ok"
                      THEN "EACCES" ELSE Errno(load.name)
  <2>1. /\ w' = w
        /\ \/ LoadFails(errno) /\ UNCHANGED <<list, stale>>
           \/ load' = [load EXCEPT !.at = "read"] /\ UNCHANGED browser_dir
    BY <1>3, Zenon DEF OpenDir
  <2>2. errno = "ENOENT" => Errno(load.name) = "ENOENT"
    OBVIOUS
  <2> HIDE DEF errno
  <2>3. CASE load' = [load EXCEPT !.at = "read"] /\ UNCHANGED browser_dir
    <3>1. /\ load'.at = "read" /\ load'.name = load.name
          /\ load'.why = load.why /\ load'.want = load.want
      BY <1>1, <2>3 DEF Loads
    <3> QED
      BY <2>1, <2>3, <3>1
  <2> QED
    BY <2>1, <2>2, <2>3
<1>4. CASE ReadEntry
  BY <1>4 DEF ReadEntry
<1>5. CASE ChangeDir
  <2> DEFINE errno == IF load.name \in NoSearch /\ Errno(load.name) = "ok"
                      THEN "EACCES" ELSE Errno(load.name)
  <2>1. /\ list' = list
        /\ \/ LoadFails(errno) /\ UNCHANGED <<w, stale>>
           \/ LoadSucceeds(list)
    BY <1>5, Zenon DEF ChangeDir
  <2>2. errno = "ENOENT" => Errno(load.name) = "ENOENT"
    OBVIOUS
  <2> HIDE DEF errno
  <2> QED
    BY <1>1, <2>1, <2>2
<1>6. CASE MapPlaylist
  <2>1. /\ load.at = "map"
        /\ \/ LoadFails(Errno(load.name)) /\ UNCHANGED <<list, w, stale>>
           \/ /\ Errno(load.name) = "ok" /\ list' = ReadPlaylist(load.name)
              /\ LoadSucceeds(ReadPlaylist(load.name))
    BY <1>6, Zenon DEF MapPlaylist
  <2>2. CASE Errno(load.name) = "ok"
    <3>1. load.name \in Paths /\ load.name \notin Dirs /\ Last(load.name) \in PlaylistNames
      BY <1>1, <2>1, <2>2, ErrnoFacts DEF LoadInv
    <3>2. ReadPlaylist(load.name) \in Seq(Entries)
      BY <3>1, PlaylistFacts
    <3> QED
      BY <2>1, <3>2
  <2> QED
    BY <2>1, <2>2
<1> QED
  BY <1>2, <1>3, <1>4, <1>5, <1>6 DEF Loading

(* browser_init is no reload.                                             *)
LEMMA ReloadInit == Init => ReloadInv
BY DEF Init, ReloadInv

(* The row that a reload wants stays selected.                            *)
LEMMA ReloadNext == BrowserInv /\ ReloadInv /\ [Next]_vars => ReloadInv'
<1> SUFFICES ASSUME BrowserInv, ReloadInv, [Next]_vars PROVE ReloadInv'
  OBVIOUS
<1>1. load.at = "idle" => load.why = "cd"
  BY IdleFacts DEF BrowserInv, LoadInv
<1>2. ASSUME load'.why # "reload" PROVE ReloadInv'
  BY <1>2 DEF ReloadInv
<1>3. CASE Loading
  <2>1. ASSUME NEW e, LoadFails(e) PROVE load'.why # "reload"
    BY <2>1, FailKeeps
  <2>2. ASSUME NEW entries, LoadSucceeds(entries) PROVE load'.why # "reload"
    BY <2>2, IdleFacts DEF LoadSucceeds
  <2>3. ASSUME load'.name = load.name, load'.why = load.why, load'.want = load.want,
               UNCHANGED <<browser_dir, w>>,
               load'.at # "read" => list' = list /\ load.at # "read"
        PROVE  ReloadInv'
    BY <2>3 DEF ReloadInv
  <2> QED
    BY <1>2, <1>3, <2>1, <2>2, <2>3, LoadingKinds
<1>4. CASE BrowserReload
  <2>1. /\ load'.name = browser_dir
        /\ load'.want = IF w.sel = 0 THEN None ELSE Selected.name
    BY <1>4, ReloadFacts
  <2>2. /\ load.at = "idle" /\ ~stale /\ UNCHANGED <<browser_dir, list, w>>
    BY <1>4 DEF BrowserReload, Ready
  <2>3. w.sel # 0 => w.sel \in DOMAIN list
    BY <2>2, SelectedFacts
  <2> QED
    BY <2>1, <2>2, <2>3 DEF ReloadInv, Selected
<1>5. CASE BrowserChdir \/ BrowserUp \/ BrowserEnter
  <2>1. load'.why # "reload"
    BY <1>1, <1>5, ChdirFacts, GoUpFacts, EnterFacts
       DEF BrowserUp, BrowserEnter, HasSel, Ready
  <2> QED
    BY <1>2, <2>1
<1>6. CASE BrowserDelete \/ Move \/ Redraw
  <2>1. load.at = "idle" /\ load' = load
    BY <1>6, MoveFacts DEF BrowserDelete, HasSel, Ready
  <2> QED
    BY <1>1, <1>2, <2>1
<1>7. CASE RemovePath \/ CreatePath \/ ToggleHidden
  <2>1. UNCHANGED <<browser_dir, list, w, load>>
    BY <1>7 DEF RemovePath, CreatePath, ToggleHidden
  <2> QED
    BY <2>1 DEF ReloadInv
<1>8. CASE UNCHANGED vars
  BY <1>8 DEF vars, ReloadInv
<1> QED
  BY <1>3, <1>4, <1>5, <1>6, <1>7, <1>8 DEF Next

(* A load that ends has selected the row it wants, or has changed nothing. *)
LEMMA CameSelected ==
    ASSUME BrowserInv, ReloadInv, Loading, load'.at = "idle", ~stale',
           load.why # "cd", browser_dir' = load.name,
           NEW came,
           came = IF load.why = "up" /\ browser_dir # Root THEN Last(browser_dir)
                  ELSE IF load.why = "reload" THEN load.want ELSE None,
           came \in {list'[i].name : i \in DOMAIN list'}
    PROVE  list'[w'.sel].name = came
<1>1. /\ w \in Windows /\ load \in Loads /\ LoadInv /\ WindowInv /\ Root \in fs
      /\ browser_dir \in Paths /\ list' \in Seq(Entries)
  BY BrowserInvNext DEF BrowserInv, TypeOK, Next
<1>2. \A i \in DOMAIN list' : list'[i].name # None
  <2>1. \A i \in DOMAIN list' : list'[i] \in Entries
    BY <1>1, LenProperties, ElementOfSeq
  <2>2. None \notin Names \cup {DotDot}
    BY NamesAssumption DEF None, DotDot
  <2> QED
    BY <2>1, <2>2 DEF Entries
<1>3. came # None
  BY <1>2
<1>4. load.why \in {"up", "reload"} /\ came = load.want
  BY <1>1, <1>3 DEF LoadInv
<1>5. CASE \E entries \in Seq(Entries) : LoadSucceeds(entries) /\ list' = entries
  BY <1>1, <1>4, <1>5, ReselectWindow DEF LoadSucceeds
<1>6. ASSUME NEW e, LoadFails(e), e = "ENOENT" => Errno(load.name) = "ENOENT",
             UNCHANGED <<list, w, stale>>
      PROVE  list'[w'.sel].name = came
  <2>1. CASE load.why = "up"
    <3>1. browser_dir' # browser_dir
      BY <1>1, <2>1, PathFacts DEF LoadInv
    <3>2. e = "ENOENT" /\ load.name = Root
      BY <1>6, <3>1, FailKeeps
    <3> QED
      BY <1>1, <1>6, <3>2, RootFound
  <2>2. CASE load.why = "reload"
    <3>1. w.sel # 0
      BY <1>3, <1>4, <2>2 DEF ReloadInv
    <3>2. w.n # 0
      BY <1>1, <3>1, WindowFields
    <3>3. load.at # "read"
      BY <1>1, <1>6, <3>2 DEF WindowInv
    <3> QED
      BY <1>3, <1>4, <1>6, <2>2, <3>3 DEF ReloadInv
  <2> QED
    BY <1>4, <2>1, <2>2
<1> QED
  BY <1>5, <1>6, LoadingKinds

(* When browser_up has gone up, over directories that are gone as well,    *)
(* the entry that the user came through is selected, and after             *)
(* browser_reload the entry that was selected, if the new list has it,     *)
(* whatever other programs do to the files in the middle of the load.      *)
THEOREM SelectionKeptCorrect == Spec => SelectionKept
<1> DEFINE Step ==
        (Loading /\ load'.at = "idle" /\ ~stale') =>
          LET came == IF load.why = "up" /\ browser_dir # Root THEN Last(browser_dir)
                      ELSE IF load.why = "reload" THEN load.want
                      ELSE None
          IN  came \in {list'[i].name : i \in DOMAIN list'}
                  /\ load.why # "cd" /\ browser_dir' = load.name =>
              list'[w'.sel].name = came
<1>1. BrowserInv /\ ReloadInv => Step
  BY CameSelected
<1>2. Init => BrowserInv /\ ReloadInv
  BY BrowserInvInit, ReloadInit
<1>3. (BrowserInv /\ ReloadInv) /\ [Next]_vars => (BrowserInv /\ ReloadInv)'
  BY BrowserInvNext, ReloadNext
<1>4. BrowserInv /\ ReloadInv /\ [Next]_vars => [Step]_vars
  BY <1>1
<1> QED
  BY <1>2, <1>3, <1>4, PTL DEF Spec, SelectionKept

=============================================================================
