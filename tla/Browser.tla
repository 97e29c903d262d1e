-------------------------------- MODULE Browser --------------------------------
(***************************************************************************)
(* browser.c: the list of the files of a directory, or of the lines of a   *)
(* playlist, in a window of window.c.  Everything runs in the main thread; *)
(* other programs change the file system meanwhile.  A load is a step for  *)
(* each of its system calls, since they may do so in between.              *)
(*                                                                         *)
(* A path is a sequence of names.  A path keeps its kind for as long as    *)
(* it is in use.                                                           *)
(*                                                                         *)
(* A definition under the comment "Fault" is no part of the model: it is   *)
(* the definition after it with a plausible bug.                           *)
(***************************************************************************)
EXTENDS WindowOps, SequencesExt

CONSTANTS
    Names,          \* the names of files, directories and playlist lines
    Paths,          \* the paths that other programs create and remove
    Dirs,           \* those that are directories
    PlaylistNames,  \* the names for which cmus_is_playlist answers yes
    Shown,          \* names of other files that normal_filter lets through
    HiddenNames,    \* names with a dot in front
    Rank,           \* the order of strcmp
    PlaylistLines,  \* the lines of each playlist; <<>>: an empty file
    NoRead,         \* directories that may be searched but not read
    NoSearch,       \* directories that may be read but not searched
    Interference,   \* whether the file system changes in the middle of a load
    StackValues,    \* see SetSel
    NrRows          \* the height of the window

Root == <<>>
DotDot == "../"
None == "none"

ASSUME NamesAssumption ==
    /\ DotDot \notin Names /\ None \notin Names
    /\ PlaylistNames \subseteq Names /\ HiddenNames \subseteq Names
    /\ Shown \subseteq Names
    /\ \A n \in Names : Rank[n] \in Nat
    /\ \A m, n \in Names : Rank[m] = Rank[n] => m = n
ASSUME PathsAssumption ==
    /\ Paths \subseteq Seq(Names) /\ Dirs \subseteq Paths /\ Root \in Dirs
    /\ \A p \in Paths \ {Root} :
           Last(p) \in Names /\ Front(p) \in Dirs
    /\ \A p \in Paths \ Dirs :
           Last(p) \in PlaylistNames => PlaylistLines[p] \in Seq(Names)
    /\ NoRead \subseteq Dirs \ {Root} /\ NoSearch \subseteq Dirs \ {Root}
ASSUME BrowserAssumption ==
    Interference \in BOOLEAN /\ StackValues \subseteq Int /\ NrRows \in Nat \ {0}

VARIABLES
    fs,           \* the paths that exist
    show_hidden,  \* the option
    browser_dir,
    list,         \* the entries of browser_head
    unread,       \* the entries that dir_read has not given yet
    w,            \* browser_win
    stale,        \* top or sel points to an entry that has been freed
    load,         \* the load that is going on
    call          \* the last path handed to cmus_play_file or unlink

vars == <<fs, show_hidden, browser_dir, list, unread, w, stale, load, call>>

(* from is the path that an entry was made for.                            *)
Entries == [type : {"dir", "file", "line"}, name : Names \cup {DotDot},
            from : Seq(Names)]

(* A load of name, from browser_init, browser_up, browser_reload or another*)
(* function; browser_up and browser_reload select the entry with the name  *)
(* want afterwards.                                                        *)
Idle == [at |-> "idle", name |-> Root, why |-> "cd", want |-> None]
Loads == [at : {"idle", "stat", "open", "map", "read"}, name : Seq(Names),
          why : {"init", "cd", "up", "reload"},
          want : Names \cup {DotDot, None}]

-----------------------------------------------------------------------------
(* The file system.                                                        *)

Ancestors(p) == {SubSeq(p, 1, k) : k \in 0 .. Len(p) - 1}
Reachable(p) == Ancestors(p) \cap NoSearch = {}

(* The errno of a system call on p that asks for no permission on p.       *)
Errno(p) == IF p \in fs THEN (IF Reachable(p) THEN "ok" ELSE "EACCES")
            ELSE (IF Ancestors(p) \cap NoSearch \cap fs = {} THEN "ENOENT" ELSE "EACCES")

(* normal_filter and hidden_filter, for the entries with a name of their   *)
(* own; "." passes neither and ".." both.                                  *)
Filter(p) ==
    \/ show_hidden
    \/ /\ Last(p) \notin HiddenNames
       /\ p \in Dirs \/ Last(p) \in PlaylistNames \/ Last(p) \in Shown

(* The directory entries that are not filtered out.  dir_read stats each   *)
(* entry, which a directory that may not be searched does not allow.       *)
Listed(d) ==
    IF d \notin fs \/ d \in NoSearch THEN {}
    ELSE {[type |-> IF p \in Dirs THEN "dir" ELSE "file",
           name |-> Last(p), from |-> p] :
              p \in {q \in fs \ {Root} : Front(q) = d /\ Filter(q)}}
         \cup (IF d = Root THEN {}
               ELSE {[type |-> "dir", name |-> DotDot, from |-> Front(d)]})

(* entry_cmp(a, b) < 0: so is the parent to every directory, and every     *)
(* directory to the parent.                                                *)
EntryLess(a, b) ==
    \/ a.type = "dir" /\ b.type # "dir"
    \/ /\ a.type = "dir" <=> b.type = "dir"
       /\ DotDot \notin {a.name, b.name} => Rank[a.name] < Rank[b.name]

(* Fault: the comparison has its arguments the wrong way round.            *)
InsertEntryReversed(e) ==
    \E at \in 0 .. Len(list) :
        /\ \A i \in at + 1 .. Len(list) : EntryLess(list[i], e)
        /\ at > 0 => ~EntryLess(list[at], e)
        /\ list' = InsertAt(list, at + 1, e)

(* Behind the last entry that e is not less than.                          *)
InsertEntry(e) ==
    \E at \in 0 .. Len(list) :
        /\ \A i \in at + 1 .. Len(list) : EntryLess(e, list[i])
        /\ at > 0 => ~EntryLess(e, list[at])
        /\ list' = InsertAt(list, at + 1, e)

(* Fault: a line is taken for a file.                                      *)
ReadPlaylistFiles(p) ==
    IF PlaylistLines[p] = <<>> THEN <<>>
    ELSE <<[type |-> "dir", name |-> DotDot, from |-> Front(p)]>> \o
         [i \in DOMAIN PlaylistLines[p] |->
              [type |-> "file", name |-> PlaylistLines[p][i],
               from |-> <<PlaylistLines[p][i]>>]]

(* The list of a playlist: an empty one has not even the parent.           *)
ReadPlaylist(p) ==
    IF PlaylistLines[p] = <<>> THEN <<>>
    ELSE <<[type |-> "dir", name |-> DotDot, from |-> Front(p)]>> \o
         [i \in DOMAIN PlaylistLines[p] |->
              [type |-> "line", name |-> PlaylistLines[p][i],
               from |-> <<PlaylistLines[p][i]>>]]

-----------------------------------------------------------------------------
(* The system calls of do_browser_load and what follows them.              *)

Start(name, why, want) ==
    load' = [at |-> "stat", name |-> name, why |-> why, want |-> want]

(* browser_init loads the root instead, the others leave things as they are*)
GiveUp ==
    /\ IF load.why = "init" /\ load.name # Root THEN Start(Root, "init", None)
       ELSE load' = Idle
    /\ UNCHANGED browser_dir

(* Fault: browser_up goes on with the directory it came from.              *)
LoadFailsInPlace(errno) ==
    IF load.why = "up" /\ errno = "ENOENT"
    THEN Start(Front(browser_dir), "up", Last(browser_dir)) /\ UNCHANGED browser_dir
    ELSE GiveUp

(* Fault: it still looks for the name it started with.                     *)
LoadFailsWithOldName(errno) ==
    IF load.why = "up" /\ errno = "ENOENT"
    THEN /\ browser_dir' = load.name
         /\ IF load.name = Root THEN load' = Idle
            ELSE Start(Front(load.name), "up", load.want)
    ELSE GiveUp

(* browser_up calls itself for the directory above one that is gone.       *)
LoadFails(errno) ==
    IF load.why = "up" /\ errno = "ENOENT"
    THEN /\ browser_dir' = load.name
         /\ IF load.name = Root THEN load' = Idle
            ELSE Start(Front(load.name), "up", Last(load.name))
    ELSE GiveUp

(* The contents are set and the first entry with the name want is selected.*)
Reselect(entries) ==
    LET new == SetContents(w, Len(entries))
        found == {i \in DOMAIN entries : entries[i].name = load.want}
    IN  \/ found = {} /\ w' = new
        \/ \E i \in found, init \in StackValues :
              /\ \A j \in found : i <= j
              /\ w' = SetSel(new, i, init)

(* Fault: the window is not told.                                          *)
LoadSucceedsSilently(entries) ==
    /\ UNCHANGED <<w, stale>>
    /\ browser_dir' = load.name
    /\ load' = Idle

(* Fault: browser_dir is still the directory before.                       *)
LoadSucceedsElsewhere(entries) ==
    /\ Reselect(entries)
    /\ stale' = FALSE
    /\ UNCHANGED browser_dir
    /\ load' = Idle

LoadSucceeds(entries) ==
    /\ Reselect(entries)
    /\ stale' = FALSE
    /\ browser_dir' = load.name
    /\ load' = Idle

Stat ==
    /\ load.at = "stat"
    /\ LET errno == Errno(load.name)
           Continue(at) == load' = [load EXCEPT !.at = at] /\ UNCHANGED browser_dir
       IN  IF errno # "ok" THEN LoadFails(errno)
           ELSE IF load.name \in Dirs THEN Continue("open")
           ELSE IF Last(load.name) \in PlaylistNames THEN Continue("map")
           ELSE LoadFails("ENOTDIR")
    /\ UNCHANGED <<fs, show_hidden, list, unread, w, stale, call>>

(* The list is freed while the window has its iterators.                   *)
OpenDir ==
    /\ load.at = "open"
    /\ LET errno == IF load.name \in NoRead /\ Errno(load.name) = "ok"
                    THEN "EACCES" ELSE Errno(load.name)
       IN  IF errno = "ok"
           THEN /\ list' = <<>>
                /\ unread' = Listed(load.name)
                /\ stale' = (stale \/ w.n > 0)
                /\ load' = [load EXCEPT !.at = "read"]
                /\ UNCHANGED browser_dir
           ELSE LoadFails(errno) /\ UNCHANGED <<list, unread, stale>>
    /\ UNCHANGED <<fs, show_hidden, w, call>>

(* The next entry, in any order, unless it is gone by now.  One that has   *)
(* come after opendir is not given.                                        *)
ReadEntry ==
    /\ load.at = "read"
    /\ \E e \in unread :
          /\ unread' = unread \ {e}
          /\ IF e \in Listed(load.name) THEN InsertEntry(e) ELSE UNCHANGED list
    /\ UNCHANGED <<fs, show_hidden, browser_dir, w, stale, load, call>>

ChangeDir ==
    /\ load.at = "read" /\ unread = {}
    /\ LET errno == IF load.name \in NoSearch /\ Errno(load.name) = "ok"
                    THEN "EACCES" ELSE Errno(load.name)
       IN  IF errno = "ok" THEN LoadSucceeds(list)
           ELSE LoadFails(errno) /\ UNCHANGED <<w, stale>>
    /\ UNCHANGED <<fs, show_hidden, list, unread, call>>

MapPlaylist ==
    /\ load.at = "map"
    /\ LET errno == Errno(load.name)
           entries == ReadPlaylist(load.name)
       IN  IF errno = "ok" THEN list' = entries /\ LoadSucceeds(entries)
           ELSE LoadFails(errno) /\ UNCHANGED <<list, w, stale>>
    /\ UNCHANGED <<fs, show_hidden, unread, call>>

-----------------------------------------------------------------------------
(* The functions of the browser.                                           *)

Ready == load.at = "idle"
Selected == list[w.sel]

(* A row is selected, and its entry may be looked at.                      *)
HasSel == Ready /\ ~stale /\ w.sel # 0

(* :cd *)
BrowserChdir ==
    /\ Ready
    /\ \E name \in Paths : Start(name, "cd", None)
    /\ UNCHANGED <<fs, show_hidden, browser_dir, list, unread, w, stale, call>>

GoUp ==
    /\ browser_dir # Root
    /\ Start(Front(browser_dir), "up", Last(browser_dir))
    /\ UNCHANGED call

BrowserUp ==
    /\ Ready
    /\ GoUp
    /\ UNCHANGED <<fs, show_hidden, browser_dir, list, unread, w, stale>>

(* A directory or a playlist is loaded, anything else is played.           *)
BrowserEnter ==
    /\ HasSel
    /\ LET full == Append(browser_dir, Selected.name)
       IN  \/ Selected.name = DotDot /\ GoUp
           \/ /\ Selected.name # DotDot
              /\ \/ Selected.type = "dir"
                 \/ Selected.type = "file" /\ Selected.name \in PlaylistNames
              /\ Start(full, "cd", None)
              /\ UNCHANGED call
           \/ /\ Selected.type = "file" /\ Selected.name \notin PlaylistNames
              /\ call' = full
              /\ UNCHANGED load
           \/ /\ Selected.type = "line"
              /\ call' = <<Selected.name>>
              /\ UNCHANGED load
    /\ UNCHANGED <<fs, show_hidden, browser_dir, list, unread, w, stale>>

(* The user has said yes.                                                  *)
BrowserDelete ==
    /\ HasSel
    /\ Selected.type = "file"
    /\ LET full == Append(browser_dir, Selected.name)
       IN  /\ Errno(full) = "ok" /\ full \notin Dirs
           /\ fs' = fs \ {full}
           /\ call' = full
    /\ w' = RowVanishes(w, w.sel)
    /\ list' = RemoveAt(list, w.sel)
    /\ UNCHANGED <<show_hidden, browser_dir, unread, stale, load>>

BrowserReload ==
    /\ Ready /\ ~stale
    /\ Start(browser_dir, "reload", IF w.sel = 0 THEN None ELSE Selected.name)
    /\ UNCHANGED <<fs, show_hidden, browser_dir, list, unread, w, stale, call>>

(* The user moves or searches, in ways that Window.tla has more of.        *)
Move ==
    /\ Ready /\ ~stale
    /\ w.n > 0
    /\ w' \in {Up(w, 1), Down(w, 1), GotoTop(w), GotoBottom(w), PageBottom(w)}
              \cup {SetSel(w, p, init) : p \in 1 .. w.n, init \in StackValues}
    /\ UNCHANGED <<fs, show_hidden, browser_dir, list, unread, stale, load, call>>

Redraw ==
    /\ Ready /\ ~stale
    /\ w.changed
    /\ w' = [w EXCEPT !.changed = FALSE]
    /\ UNCHANGED <<fs, show_hidden, browser_dir, list, unread, stale, load, call>>

-----------------------------------------------------------------------------
(* Others.                                                                 *)

FileSystemFree == Ready \/ Interference

RemovePath ==
    /\ FileSystemFree
    /\ \E p \in fs \ {Root} : fs' = {q \in fs : ~IsPrefix(p, q)}
    /\ UNCHANGED <<show_hidden, browser_dir, list, unread, w, stale, load, call>>

CreatePath ==
    /\ FileSystemFree
    /\ \E p \in Paths \ fs : Front(p) \in fs /\ fs' = fs \cup {p}
    /\ UNCHANGED <<show_hidden, browser_dir, list, unread, w, stale, load, call>>

ToggleHidden ==
    /\ Ready
    /\ show_hidden' = ~show_hidden
    /\ UNCHANGED <<fs, browser_dir, list, unread, w, stale, load, call>>

(* browser_init loads the working directory, or the root when that fails.  *)
(* The window is there from the beginning: before its contents are set, it *)
(* is empty either way.                                                    *)
Init ==
    /\ fs = Paths
    /\ show_hidden = FALSE
    /\ browser_dir = Root
    /\ list = <<>> /\ unread = {}
    /\ w = SetNrRows(NewWindow, NrRows) /\ stale = FALSE
    /\ \E cwd \in Dirs :
          load = [at |-> "stat", name |-> cwd, why |-> "init", want |-> None]
    /\ call = Root

Loading == Stat \/ OpenDir \/ ReadEntry \/ ChangeDir \/ MapPlaylist

Next == \/ Loading
        \/ BrowserChdir \/ BrowserUp \/ BrowserEnter \/ BrowserDelete
        \/ BrowserReload \/ Move \/ Redraw
        \/ RemovePath \/ CreatePath \/ ToggleHidden

Spec == Init /\ [][Next]_vars

(* The main thread does not stop in the middle of a function.              *)
FairSpec == Spec /\ WF_vars(Loading)

-----------------------------------------------------------------------------
(* Every variable is of its type; top and sel of the window point to rows  *)
(* of the list or to its head, after any load, deletion or search.         *)
TypeOK ==
    /\ fs \subseteq Paths /\ show_hidden \in BOOLEAN /\ browser_dir \in Paths
    /\ list \in Seq(Entries) /\ unread \subseteq Entries
    /\ w \in Windows /\ stale \in BOOLEAN
    /\ load \in Loads /\ call \in Seq(Names)

(* Between the calls of the browser the window is on the list: no iterator *)
(* points to an entry that browser_load has freed.                         *)
WindowOnList == Ready => ~stale /\ w.n = Len(list)

(* The rows shown are entries of browser_dir, so that the full name of a   *)
(* row, as the functions put it together, is the path it was made for.     *)
FullName(d, e) ==
    IF e.name = DotDot THEN Front(d)
    ELSE IF e.type = "line" THEN <<e.name>>
    ELSE Append(d, e.name)
RowsOfDir ==
    Ready => \A i \in DOMAIN list : list[i].from = FullName(browser_dir, list[i])

(* What is played or deleted is what the row stands for.                   *)
ActsOnSelected == [][call' # call => call' = Selected.from]_vars

(* The file that goes is the one that the row was made for.                *)
DeletesSelected == [][BrowserDelete => fs \ fs' = {Selected.from}]_vars

(* Directories before files, each in the order of their names and none     *)
(* twice, however the directory is read; the parent is somewhere among the *)
(* directories.  A playlist is in its own order.                           *)
Ordered(a, b) ==
    \/ a.type = "dir" /\ b.type = "file"
    \/ /\ a.type = b.type
       /\ DotDot \notin {a.name, b.name} => Rank[a.name] < Rank[b.name]
Sorted ==
    \A i, j \in DOMAIN list :
        i < j /\ list[j].type # "line" => Ordered(list[i], list[j])

(* Going up, over directories that are gone as well, selects the entry the *)
(* user came through, and a reload the entry that was selected.            *)
SelectionKept ==
    [][(Loading /\ load'.at = "idle" /\ ~stale') =>
          LET came == IF load.why = "up" /\ browser_dir # Root THEN Last(browser_dir)
                      ELSE IF load.why = "reload" THEN load.want
                      ELSE None
          IN  came \in {list'[i].name : i \in DOMAIN list'}
                  /\ load.why # "cd" /\ browser_dir' = load.name =>
              list'[w'.sel].name = came]_vars

(* Every load ends, however often browser_up calls itself.                 *)
LoadEnds == load.at # "idle" ~> load.at = "idle"
=============================================================================
