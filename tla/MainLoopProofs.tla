--------------------------- MODULE MainLoopProofs ---------------------------
(***************************************************************************)
(* Whatever the views and environments: what has changed is on the         *)
(* screen when the main thread goes to wait, and windows of another size   *)
(* than the terminal's are asked to be resized.  The invariant has a part  *)
(* for the title and status lines, one for the windows, one for the last   *)
(* line and one for the size; most actions leave most parts alone.         *)
(***************************************************************************)
EXTENDS MainLoop, TLAPS

Infos == [player : PlayerStates, changed : SUBSET Fields, error : BOOLEAN]

LoopType ==
    /\ player \in PlayerStates
    /\ priv \in Infos /\ info \in Infos
    /\ behind \subseteq Fields /\ old \in [Lines -> SUBSET Fields]
    /\ signals \in [running : BOOLEAN, ctrl_c : BOOLEAN, resize : BOOLEAN]
    /\ term \in [read : BOOLEAN, layout : BOOLEAN, lost : BOOLEAN]
    /\ view \in Views

(* The flags that make update() draw a line.                               *)
Flags == [title  |-> {"file", "metadata"},
          status |-> {"file", "position", "status"}]

(* What was published since the copy is flagged for the next one, and a    *)
(* line is old only in such a field, or is about to be drawn.              *)
LinesInv ==
    /\ \A l \in Lines : old[l] \subseteq Shows[l]
    /\ \A l \in Lines :
          behind \cap Shows[l] # {} => priv.changed \cap Flags[l] # {}
    /\ \A l \in Lines :
          \/ main = "redraw"
          \/ signals.resize
          \/ old[l] \subseteq behind
          \/ main = "draw" /\ info.changed \cap Flags[l] # {}

(* A window of the view that is not drawn as it is has its flag set.       *)
WindowsInv ==
    /\ oldWin \cap ViewWindows[view] \subseteq changed
    /\ main \in {"wait", "select"} => oldWin \cap ViewWindows[view] = {}

BottomInv == main \notin {"redraw", "query"} => bottom = Bottom(mode, msg)

SizeInv ==
    /\ main \in {"resize", "resized"} => signals.resize
    /\ main = "resized" /\ ~term.read => term.lost
    /\ ResizePending

LoopInv == LoopType /\ LinesInv /\ WindowsInv /\ BottomInv /\ SizeInv

-----------------------------------------------------------------------------
(* Publishing.                                                             *)

(* Flags that get every line drawn that shows one of the fields.           *)
Covers(flags, fs) ==
    \A l \in Lines : fs \cap Shows[l] # {} => flags \cap Flags[l] # {}

(* Something is published, with flags that get it drawn.                   *)
Published ==
    \E flags \in SUBSET Fields, fs \in SUBSET Fields, p \in PlayerStates,
       e \in BOOLEAN :
          Covers(flags, fs) /\ Publish(flags, fs, p, e)

(* What the player publishes has its type.                                 *)
LEMMA PublishType ==
    ASSUME LoopType, Published
    PROVE  /\ priv' \in Infos /\ info' \in Infos
           /\ behind' \subseteq Fields /\ old' \in [Lines -> SUBSET Fields]
<1>1. PICK flags \in SUBSET Fields, fs \in SUBSET Fields, p \in PlayerStates,
           e \in BOOLEAN : Publish(flags, fs, p, e)
  BY DEF Published
<1> QED
  BY <1>1 DEF LoopType, Publish, Infos

(* The flags of each field get the lines drawn that show it.               *)
LEMMA FlagsCover ==
    /\ Covers({"position"}, {"position"})
    /\ Covers({"metadata"}, {"metadata"})
    /\ Covers({"file"}, {"file", "metadata"})
    /\ Covers({"status"}, {"status", "position"})
<1>1. \A l \in Lines : l = "title" \/ l = "status"
  BY DEF Lines
<1>2. /\ Shows["title"] = {"file", "metadata"}
      /\ Shows["status"] = {"file", "status", "position"}
      /\ Flags["title"] = {"file", "metadata"}
      /\ Flags["status"] = {"file", "position", "status"}
  BY DEF Shows, Flags
<1> QED
  BY <1>1, <1>2 DEF Covers

(* So do the flags of several fields together.                             *)
LEMMA CoversBoth ==
    ASSUME NEW f1, NEW fs1, NEW f2, NEW fs2, Covers(f1, fs1), Covers(f2, fs2)
    PROVE  Covers(f1 \cup f2, fs1 \cup fs2)
BY DEF Covers

(* Each function that publishes does.                                      *)
LEMMA Publishers ==
    ASSUME LoopType
    PROVE  /\ PublishPosition => Published
           /\ PublishMetadata => Published
           /\ PublishFile => Published
           /\ \A p \in PlayerStates : PublishStatus(p) => Published
           /\ \A p \in PlayerStates : PublishError(p) => Published
<1>1. priv.player \in PlayerStates
  BY DEF LoopType, Infos
<1>2. {{"position"}, {"metadata"}, {"file"}, {"status"}, {"file", "metadata"},
       {"status", "position"}} \subseteq SUBSET Fields
  BY DEF Fields
<1>3. PublishPosition => Published
  BY <1>1, <1>2, FlagsCover DEF PublishPosition, Published
<1>4. PublishMetadata => Published
  BY <1>1, <1>2, FlagsCover DEF PublishMetadata, Published
<1>5. PublishFile => Published
  BY <1>1, <1>2, FlagsCover DEF PublishFile, Published
<1>6. ASSUME NEW p \in PlayerStates, PublishStatus(p) PROVE Published
  BY <1>2, <1>6, FlagsCover DEF PublishStatus, Published
<1>7. ASSUME NEW p \in PlayerStates, PublishError(p) PROVE Published
  BY <1>2, <1>7, FlagsCover DEF PublishError, Published
<1> QED
  BY <1>3, <1>4, <1>5, <1>6, <1>7

(* The threads of the player change what is published, and no more.        *)
LEMMA ThreadsPublish ==
    ASSUME LoopType, PlayerThreads
    PROVE  /\ player' \in PlayerStates
           /\ UNCHANGED <<main, signals, term, view_vars, line_vars, rest>>
           /\ UNCHANGED info_vars \/ Published
<1>1. player \in PlayerStates
  BY DEF LoopType
<1>2. {"stopped", "playing", "reopening", "reading"} \subseteq PlayerStates
  BY DEF PlayerStates, Statuses, Away
<1>3. ThreadStep =>
         UNCHANGED <<main, signals, term, view_vars, line_vars, rest>>
  BY DEF ThreadStep
<1>4. CASE Consume
  BY <1>1, <1>2, <1>3, <1>4, Publishers DEF Consume
<1>5. CASE Reopen
  BY <1>1, <1>2, <1>3, <1>5, Publishers DEF Reopen
<1>6. CASE Produce
  BY <1>1, <1>3, <1>6, Publishers DEF Produce, player_vars
<1>7. CASE EndOfFile
  BY <1>1, <1>2, <1>3, <1>7, Publishers DEF EndOfFile
<1>8. CASE OpenTrack
  BY <1>1, <1>3, <1>8, Publishers DEF OpenTrack
<1>9. CASE NoTrack
  BY <1>2, <1>3, <1>9, Publishers DEF NoTrack
<1>10. CASE ChangeFormat
  BY <1>1, <1>2, <1>3, <1>10, Publishers DEF ChangeFormat
<1>11. CASE Prebuffer
  BY <1>1, <1>3, <1>11, Publishers DEF Prebuffer
<1>12. CASE NextTrackShown
  BY <1>1, <1>3, <1>12, Publishers DEF NextTrackShown
<1> QED
  BY <1>4, <1>5, <1>6, <1>7, <1>8, <1>9, <1>10, <1>11, <1>12
     DEF PlayerThreads, NextTrack

(* So do the player_* functions.                                           *)
LEMMA CommandPublishes ==
    ASSUME LoopType, PlayerCommand
    PROVE  /\ player' \in PlayerStates
           /\ UNCHANGED <<signals, term, view_vars, line_vars>>
           /\ Published
<1>1. player' \in PlayerStates
  BY DEF PlayerCommand, PlayerStates
<1>2. UNCHANGED <<signals, term, view_vars, line_vars>>
  BY DEF PlayerCommand
<1>3. PICK more \in SUBSET {"file", "metadata"}, error \in BOOLEAN :
         Publish({"status"} \cup more,
                 {"status", "position"} \cup more
                    \cup (IF "file" \in more THEN {"metadata"} ELSE {}),
                 player', error)
  BY DEF PlayerCommand
<1>4. more \in {{}, {"metadata"}, {"file"}, {"file", "metadata"}}
  OBVIOUS
<1>5. DEFINE fields == more \cup (IF "file" \in more THEN {"metadata"} ELSE {})
<1>6. Covers(more, fields)
  <2>1. CASE more = {}
    <3>1. fields = {}
      BY <2>1
    <3> QED
      BY <3>1 DEF Covers
  <2>2. CASE more = {"metadata"}
    <3>1. fields = {"metadata"}
      BY <2>2
    <3> QED
      BY <2>2, <3>1, FlagsCover
  <2>3. CASE more = {"file"}
    <3>1. fields = {"file", "metadata"}
      BY <2>3
    <3> QED
      BY <2>3, <3>1, FlagsCover
  <2>4. CASE more = {"file", "metadata"}
    <3>1. fields = {"file", "metadata"} \cup {"metadata"}
      BY <2>4
    <3>2. more = {"file"} \cup {"metadata"}
      BY <2>4
    <3> QED
      BY <3>1, <3>2, FlagsCover, CoversBoth
  <2> QED
    BY <1>4, <2>1, <2>2, <2>3, <2>4
<1>7. Covers({"status"} \cup more, {"status", "position"} \cup fields)
  BY <1>6, FlagsCover, CoversBoth
<1>8. /\ {"status"} \cup more \in SUBSET Fields
      /\ {"status", "position"} \cup fields \in SUBSET Fields
  BY DEF Fields
<1>9. {"status", "position"} \cup fields =
         {"status", "position"} \cup more
            \cup (IF "file" \in more THEN {"metadata"} ELSE {})
  OBVIOUS
<1>10. Publish({"status"} \cup more, {"status", "position"} \cup fields,
               player', error)
  BY <1>3, <1>9
<1>11. Published
  <2> HIDE DEF fields
  <2> QED
    BY <1>1, <1>7, <1>8, <1>10 DEF Published
<1> QED
  BY <1>1, <1>2, <1>11

-----------------------------------------------------------------------------
(* Types.                                                                  *)

(* The steps that publish nothing, by what they may change of the rest.    *)
Screen == \/ Top \/ ReadSize \/ Resize \/ Draw \/ Wait
Round == \/ SelectReturns \/ SelectTimesOut \/ Woken \/ Interrupt \/ Dispatch
         \/ EditLine \/ ScreenCommand \/ PlayerCommandLocks \/ Query
         \/ LeaveLine \/ Answer

(* What draws keeps the types.                                             *)
LEMMA ScreenType == ASSUME LoopType, Screen PROVE LoopType'
<1> USE DEF LoopType, Infos
<1>1. CASE Top
  BY <1>1 DEF Top, player_vars, view_vars
<1>2. CASE ReadSize
  BY <1>2 DEF ReadSize, player_vars, info_vars, view_vars
<1>3. CASE Resize
  <2>1. /\ signals' = [signals EXCEPT !.resize = FALSE]
        /\ term' = [term EXCEPT !.layout = term.read]
        /\ old' = Shows /\ UNCHANGED <<player, priv, info, behind, view>>
    BY <1>3 DEF Resize, player_vars
  <2>2. Shows \in [Lines -> SUBSET Fields]
    BY DEF Shows, Lines, Fields
  <2>3. signals' \in [running : BOOLEAN, ctrl_c : BOOLEAN, resize : BOOLEAN]
    BY <2>1
  <2>4. term' \in [read : BOOLEAN, layout : BOOLEAN, lost : BOOLEAN]
    BY <2>1
  <2> QED
    BY <2>1, <2>2, <2>3, <2>4
<1>4. CASE Draw
  <2>1. /\ info' = [info EXCEPT !.changed = {}]
        /\ UNCHANGED <<player, priv, behind, signals, term, view>>
    BY <1>4 DEF Draw, player_vars
  <2>2. PICK library \in env.library :
           old' = [title  |-> IF NeedsTitle THEN TitleDrawn ELSE old["title"],
                   status |-> IF NeedsStatus(library) THEN StatusDrawn
                                                      ELSE old["status"]]
    BY <1>4 DEF Draw
  <2>3. TitleDrawn \subseteq Fields /\ StatusDrawn \subseteq Fields
    BY DEF TitleDrawn, StatusDrawn
  <2>4. old' \in [Lines -> SUBSET Fields]
    BY <2>2, <2>3 DEF Lines
  <2> QED
    BY <2>1, <2>4
<1>5. CASE Wait
  BY <1>5 DEF Wait, CopyKept, PlayerStates, Statuses, player_vars, view_vars
<1> QED
  BY <1>1, <1>2, <1>3, <1>4, <1>5 DEF Screen

(* What a round may do to the two lines: the status line is drawn again.   *)
LinesMayBeDrawn ==
    /\ UNCHANGED <<priv, info, behind>>
    /\ \/ UNCHANGED old
       \/ old' = [old EXCEPT !["status"] = StatusDrawn]

(* A status line that is drawn is up to date, or an error is shown.        *)
LEMMA StatuslineUpdate ==
    ASSUME UpdateStatusline
    PROVE  /\ old' = [old EXCEPT !["status"] = StatusDrawn]
           /\ ShowMessage("error") \/ UNCHANGED line_vars
BY DEF UpdateStatusline

(* So it is after the volume was read, unless that did not change.         *)
LEMMA MixerUpdate ==
    ASSUME ReadMixer
    PROVE  /\ UNCHANGED old \/ old' = [old EXCEPT !["status"] = StatusDrawn]
           /\ ShowMessage("error") \/ UNCHANGED line_vars
BY StatuslineUpdate DEF ReadMixer

(* A round leaves player and size alone, and takes one flag back.          *)
LEMMA RoundLines ==
    ASSUME Round
    PROVE  /\ LinesMayBeDrawn
           /\ UNCHANGED <<player, term>>
           /\ \/ UNCHANGED signals
              \/ signals' = [signals EXCEPT !.ctrl_c = FALSE]
<1> USE DEF LinesMayBeDrawn, info_vars, player_vars
<1>1. CASE SelectReturns
  BY <1>1, MixerUpdate DEF SelectReturns
<1>2. CASE SelectTimesOut
  BY <1>2 DEF SelectTimesOut
<1>3. CASE Woken
  BY <1>3, MixerUpdate DEF Woken
<1>4. CASE Interrupt
  BY <1>4 DEF Interrupt
<1>5. CASE Dispatch
  BY <1>5, StatuslineUpdate DEF Dispatch, HandleMixer, HandleStdin, HandleJob,
     HandleNext, HandleClient
<1>6. CASE EditLine \/ ScreenCommand \/ PlayerCommandLocks \/ Query
  BY <1>6 DEF EditLine, ScreenCommand, PlayerCommandLocks, Query
<1>7. CASE LeaveLine \/ Answer
  BY <1>7 DEF LeaveLine, Answer
<1> QED
  BY <1>1, <1>2, <1>3, <1>4, <1>5, <1>6, <1>7 DEF Round

(* Of the windows, a round sets a flag, or shows another view.             *)
LEMMA RoundWindows ==
    ASSUME Round
    PROVE  \/ UNCHANGED view_vars
           \/ /\ main \in {"dispatch", "command"}
              /\ \/ \E win \in Windows : MoveWindow(win)
                 \/ \E v \in Views : SetView(v)
<1> USE DEF view_vars
<1>1. CASE SelectReturns
  BY <1>1 DEF SelectReturns
<1>2. CASE SelectTimesOut
  BY <1>2 DEF SelectTimesOut
<1>3. CASE Woken \/ Interrupt
  BY <1>3 DEF Woken, Interrupt
<1>4. CASE Dispatch
  BY <1>4 DEF Dispatch, HandleMixer, HandleStdin, HandleJob, HandleNext,
     HandleClient, Turn, MoveWindow
<1>5. CASE ScreenCommand
  BY <1>5 DEF ScreenCommand
<1>6. CASE EditLine \/ PlayerCommandLocks \/ Query
  BY <1>6 DEF EditLine, PlayerCommandLocks, Query
<1>7. CASE LeaveLine \/ Answer
  BY <1>7 DEF LeaveLine, Answer
<1> QED
  BY <1>1, <1>2, <1>3, <1>4, <1>5, <1>6, <1>7 DEF Round

(* Where it is, before and after.                                          *)
LEMMA RoundPlaces ==
    ASSUME Round
    PROVE  /\ main \in {"select", "woken", "interrupt", "interrupted", "dispatch",
                        "command", "entered", "query"}
           /\ main' \in {"top", "woken", "interrupt", "interrupted", "dispatch",
                         "command", "entered", "query", "locked"}
<1> USE DEF Finish, Back, Turn
<1>1. CASE SelectReturns \/ SelectTimesOut
  BY <1>1 DEF SelectReturns, SelectTimesOut
<1>2. CASE Woken \/ Interrupt
  BY <1>2 DEF Woken, Interrupt
<1>3. CASE Dispatch
  BY <1>3 DEF Dispatch, HandleMixer, HandleStdin, HandleJob, HandleNext,
     HandleClient
<1>4. CASE ScreenCommand
  BY <1>4 DEF ScreenCommand, CommandEnds
<1>5. CASE EditLine \/ PlayerCommandLocks \/ Query
  BY <1>5 DEF EditLine, PlayerCommandLocks, Query
<1>6. CASE LeaveLine
  BY <1>6 DEF LeaveLine
<1>7. CASE Answer
  BY <1>7 DEF Answer, CommandEnds
<1> QED
  BY <1>1, <1>2, <1>3, <1>4, <1>5, <1>6, <1>7 DEF Round

(* A round of the main loop keeps the types.                               *)
LEMMA RoundType == ASSUME LoopType, Round PROVE LoopType'
<1>1. LinesMayBeDrawn /\ UNCHANGED <<player, term>>
      /\ \/ UNCHANGED signals
         \/ signals' = [signals EXCEPT !.ctrl_c = FALSE]
  BY RoundLines
<1>2. view' \in Views
  BY RoundWindows DEF LoopType, view_vars, MoveWindow, SetView
<1>3. StatusDrawn \subseteq Fields
  BY DEF LoopType, StatusDrawn
<1>4. old' \in [Lines -> SUBSET Fields]
  BY <1>1, <1>3 DEF LoopType, LinesMayBeDrawn
<1>5. signals' \in [running : BOOLEAN, ctrl_c : BOOLEAN, resize : BOOLEAN]
  BY <1>1 DEF LoopType
<1> QED
  BY <1>1, <1>2, <1>4, <1>5 DEF LoopType, LinesMayBeDrawn

-----------------------------------------------------------------------------
(* The title and status lines.                                             *)

(* A step outside of drawing that does not forget that it has to resize.   *)
LEMMA LinesStay ==
    ASSUME LinesInv, main \notin {"draw", "redraw"}, LinesMayBeDrawn,
           old \in [Lines -> SUBSET Fields],
           signals.resize => signals'.resize
    PROVE  LinesInv'
<1>1. \A l \in Lines : signals.resize \/ old[l] \subseteq behind
  BY DEF LinesInv
<1>2. \A l \in Lines :
         /\ old'[l] \subseteq Shows[l]
         /\ old[l] \subseteq behind => old'[l] \subseteq behind
  BY DEF LinesInv, LinesMayBeDrawn, StatusDrawn
<1> QED
  BY <1>1, <1>2 DEF LinesInv, LinesMayBeDrawn

(* Nor does one that does not touch them.                                  *)
LEMMA LinesKept ==
    ASSUME LinesInv, UNCHANGED <<main, info_vars>>,
           signals.resize => signals'.resize
    PROVE  LinesInv'
BY DEF LinesInv, info_vars

(* What is published has the flags that get it drawn.                      *)
LEMMA LinesPublish ==
    ASSUME LinesInv, LoopType, Published, UNCHANGED signals,
           main' = main \/ main \notin {"draw", "redraw"}
    PROVE  LinesInv'
<1>1. PICK flags \in SUBSET Fields, fs \in SUBSET Fields, p \in PlayerStates,
           e \in BOOLEAN : Covers(flags, fs) /\ Publish(flags, fs, p, e)
  BY DEF Published
<1>2. /\ priv'.changed = priv.changed \cup flags /\ behind' = behind \cup fs
      /\ \A l \in Lines : old'[l] = old[l] \cup (fs \cap Shows[l])
      /\ UNCHANGED info
  BY <1>1 DEF Publish
<1> QED
  BY <1>1, <1>2 DEF LinesInv, Covers

(* What draws leaves no line old that it was to draw.                      *)
LEMMA ScreenLines == ASSUME LoopType, LinesInv, SizeInv, Screen PROVE LinesInv'
<1>0. /\ old \in [Lines -> SUBSET Fields] /\ priv \in Infos /\ info \in Infos
      /\ signals \in [running : BOOLEAN, ctrl_c : BOOLEAN, resize : BOOLEAN]
  BY DEF LoopType
<1>1. CASE Top
  <2>1. main = "top" /\ UNCHANGED <<old, signals>>
    BY <1>1 DEF Top
  <2>2. CASE signals.running
    <3>1. /\ main' = IF signals.resize THEN "resize" ELSE "draw"
          /\ info' = priv /\ behind' = {}
      BY <1>1, <2>2 DEF Top
    <3>2. ASSUME NEW l \in Lines
          PROVE  \/ signals.resize \/ old[l] \subseteq {}
                 \/ priv.changed \cap Flags[l] # {}
      BY <2>1 DEF LinesInv
    <3> QED
      BY <2>1, <3>1, <3>2 DEF LinesInv
  <2>3. CASE ~signals.running
    <3>1. main' = "ended" /\ UNCHANGED <<info, priv, behind>>
      BY <1>1, <2>3 DEF Top
    <3> QED
      BY <2>1, <3>1 DEF LinesInv
  <2> QED
    BY <2>2, <2>3
<1>2. CASE ReadSize
  BY <1>2 DEF ReadSize, info_vars, LinesInv, SizeInv
<1>3. CASE Resize
  BY <1>3 DEF Resize, LinesInv
<1>4. CASE Draw
  <2>1. /\ main \in {"draw", "redraw"} /\ main' = "wait"
        /\ UNCHANGED <<priv, behind, signals>>
    BY <1>4 DEF Draw
  <2>2. PICK library \in env.library :
           old' = [title  |-> IF NeedsTitle THEN TitleDrawn ELSE old["title"],
                   status |-> IF NeedsStatus(library) THEN StatusDrawn
                                                      ELSE old["status"]]
    BY <1>4 DEF Draw
  <2>3. /\ TitleDrawn \subseteq behind /\ TitleDrawn \subseteq Shows["title"]
        /\ StatusDrawn \subseteq behind /\ StatusDrawn \subseteq Shows["status"]
    BY DEF TitleDrawn, StatusDrawn, Shows
  <2>4. Lines = {"title", "status"} /\ \A l \in Lines : old[l] \subseteq Shows[l]
    BY DEF Lines, LinesInv
  <2>5. ~NeedsTitle => signals.resize \/ old["title"] \subseteq behind
    BY <2>4 DEF LinesInv, NeedsTitle, Flags
  <2>6. ~NeedsStatus(library) => signals.resize \/ old["status"] \subseteq behind
    BY <2>4 DEF LinesInv, NeedsStatus, Flags
  <2>7. \A l \in Lines : /\ old'[l] \subseteq Shows[l]
                         /\ signals.resize \/ old'[l] \subseteq behind
    BY <2>2, <2>3, <2>4, <2>5, <2>6
  <2> QED
    BY <2>1, <2>7 DEF LinesInv
<1>5. CASE Wait
  BY <1>5 DEF Wait, LinesInv
<1> QED
  BY <1>1, <1>2, <1>3, <1>4, <1>5 DEF Screen

(* Who else there is: signals and time.                                    *)
LEMMA SignalEffect ==
    ASSUME LoopType, Signal
    PROVE  /\ UNCHANGED <<player_vars, info_vars, view_vars, line_vars>>
           /\ main' = IF main = "select" THEN "woken" ELSE main
           /\ signals' \in [running : BOOLEAN, ctrl_c : BOOLEAN, resize : BOOLEAN]
           /\ \/ UNCHANGED term /\ signals'.resize = signals.resize
              \/ /\ signals'.resize
                 /\ term' = [read |-> FALSE, layout |-> FALSE,
                             lost |-> main = "resized"]
BY DEF LoopType, Signal

(* The steps, by what they can disturb.                                    *)
LEMMA StepKinds ==
    ASSUME [Next]_vars
    PROVE  \/ Screen \/ Round \/ PlayerThreads \/ PlayerCommand \/ Signal
           \/ TwoSecondsPass \/ UNCHANGED vars
BY DEF Next, Loop, Command, Screen, Round

(* Every step keeps the types.                                             *)
LEMMA StepType == ASSUME LoopType, [Next]_vars PROVE LoopType'
<1>1. CASE Screen
  BY <1>1, ScreenType
<1>2. CASE Round
  BY <1>2, RoundType
<1>3. CASE PlayerThreads
  <2>1. /\ player' \in PlayerStates
        /\ UNCHANGED <<main, signals, term, view_vars>>
        /\ UNCHANGED info_vars \/ Published
    BY <1>3, ThreadsPublish
  <2>2. CASE UNCHANGED info_vars
    BY <2>1, <2>2 DEF info_vars, LoopType, view_vars
  <2>3. CASE Published
    BY <2>1, <2>3, PublishType DEF LoopType, view_vars
  <2> QED
    BY <2>1, <2>2, <2>3
<1>4. CASE PlayerCommand
  BY <1>4, CommandPublishes, PublishType DEF LoopType, view_vars
<1>5. CASE Signal
  <2>1. /\ UNCHANGED <<player, priv, info, behind, old, view>>
        /\ signals' \in [running : BOOLEAN, ctrl_c : BOOLEAN, resize : BOOLEAN]
    BY <1>5, SignalEffect DEF player_vars, info_vars, view_vars
  <2>2. term' \in [read : BOOLEAN, layout : BOOLEAN, lost : BOOLEAN]
    <3>1. CASE UNCHANGED term
      BY <3>1 DEF LoopType
    <3>2. CASE term' = [read |-> FALSE, layout |-> FALSE,
                        lost |-> main = "resized"]
      <4>1. (main = "resized") \in BOOLEAN
        OBVIOUS
      <4> QED
        BY <3>2, <4>1
    <3> QED
      BY <1>5, <3>1, <3>2, SignalEffect
  <2> QED
    BY <2>1, <2>2 DEF LoopType
<1>6. CASE TwoSecondsPass
  BY <1>6 DEF TwoSecondsPass, LoopType, player_vars, info_vars, view_vars
<1>7. CASE UNCHANGED vars
  BY <1>7 DEF vars, LoopType, player_vars, info_vars, view_vars
<1> QED
  BY <1>1, <1>2, <1>3, <1>4, <1>5, <1>6, <1>7, StepKinds

(* No step leaves a line old that nothing will draw.                       *)
LEMMA StepLines ==
    ASSUME LoopType, LinesInv, SizeInv, [Next]_vars PROVE LinesInv'
<1>0. /\ old \in [Lines -> SUBSET Fields]
      /\ signals \in [running : BOOLEAN, ctrl_c : BOOLEAN, resize : BOOLEAN]
  BY DEF LoopType
<1>1. CASE Screen
  BY <1>1, ScreenLines
<1>2. CASE Round
  BY <1>0, <1>2, RoundLines, RoundPlaces, LinesStay
<1>3. CASE PlayerThreads
  <2>1. /\ UNCHANGED <<main, signals>>
        /\ UNCHANGED info_vars \/ Published
    BY <1>3, ThreadsPublish
  <2>2. CASE UNCHANGED info_vars
    BY <2>1, <2>2, LinesKept
  <2>3. CASE Published
    BY <2>1, <2>3, LinesPublish
  <2> QED
    BY <2>1, <2>2, <2>3
<1>4. CASE PlayerCommand
  <2>1. main = "command"
    BY <1>4 DEF PlayerCommand
  <2> QED
    BY <1>4, <2>1, CommandPublishes, LinesPublish
<1>5. CASE Signal
  <2>1. /\ UNCHANGED info_vars /\ (main' = main \/ main = "select")
        /\ signals.resize => signals'.resize
    BY <1>5, SignalEffect
  <2> QED
    BY <1>0, <2>1, LinesKept, LinesStay DEF LinesMayBeDrawn, info_vars
<1>6. CASE TwoSecondsPass
  BY <1>6, LinesKept DEF TwoSecondsPass
<1>7. CASE UNCHANGED vars
  BY <1>7, LinesKept DEF vars
<1> QED
  BY <1>1, <1>2, <1>3, <1>4, <1>5, <1>6, <1>7, StepKinds

-----------------------------------------------------------------------------
(* The windows.                                                            *)

(* Steps that leave the views alone leave their flags right.               *)
LEMMA WindowsStay ==
    ASSUME WindowsInv, UNCHANGED view_vars,
           main' \in {"wait", "select"} => main \in {"wait", "select"}
    PROVE  WindowsInv'
BY DEF WindowsInv, view_vars

(* No step makes a window old without raising its flag.                    *)
LEMMA StepWindows == ASSUME LoopType, WindowsInv, [Next]_vars PROVE WindowsInv'
<1>1. CASE Top
  BY <1>1, WindowsStay DEF Top
<1>2. CASE ReadSize
  BY <1>2, WindowsStay DEF ReadSize
<1>3. CASE Resize
  BY <1>3 DEF Resize, WindowsInv
<1>4. CASE Draw
  <2>1. main' = "wait" /\ view' = view
    BY <1>4 DEF Draw
  <2>2. PICK library \in env.library :
           oldWin' = oldWin \ (IF NeedsView THEN DrawnWindows(view, FALSE)
                                            ELSE {})
    BY <1>4 DEF Draw
  <2>3. oldWin' \cap ViewWindows[view] = {}
    BY <2>2 DEF WindowsInv, NeedsView, DrawnWindows
  <2> QED
    BY <2>1, <2>3 DEF WindowsInv
<1>5. CASE Wait
  BY <1>5, WindowsStay DEF Wait
<1>6. CASE Round
  <2>1. main' \notin {"wait", "select"}
    BY <1>6, RoundPlaces
  <2>2. CASE UNCHANGED view_vars
    BY <2>1, <2>2, WindowsStay
  <2>3. ASSUME NEW win \in Windows, MoveWindow(win)
        PROVE  WindowsInv'
    BY <2>1, <2>3 DEF MoveWindow, WindowsInv
  <2>4. ASSUME NEW v \in Views, SetView(v)
        PROVE  WindowsInv'
    <3>1. CASE v = view
      BY <2>1, <2>4, <3>1 DEF SetView, WindowsInv
    <3>2. CASE v # view
      BY <2>1, <2>4, <3>2 DEF SetView, DrawnWindows, WindowsInv
    <3> QED
      BY <3>1, <3>2
  <2> QED
    BY <1>6, <2>2, <2>3, <2>4, RoundWindows
<1>7. CASE PlayerThreads
  BY <1>7, ThreadsPublish, WindowsStay
<1>8. CASE PlayerCommand
  <2>1. main' \notin {"wait", "select"}
    BY <1>8 DEF PlayerCommand, CommandEnds, Back
  <2> QED
    BY <1>8, <2>1, WindowsStay DEF PlayerCommand
<1>9. CASE Signal
  BY <1>9, WindowsStay DEF Signal
<1>10. CASE TwoSecondsPass
  BY <1>10, WindowsStay DEF TwoSecondsPass, view_vars
<1>11. CASE UNCHANGED vars
  BY <1>11, WindowsStay DEF vars
<1> QED
  BY <1>1, <1>2, <1>3, <1>4, <1>5, <1>6, <1>7, <1>8, <1>9, <1>10, <1>11,
     StepKinds DEF Screen

-----------------------------------------------------------------------------
(* The last line.                                                          *)

(* Steps that leave the command line alone leave the last line right.      *)
LEMMA BottomStays ==
    ASSUME BottomInv, UNCHANGED line_vars, main \notin {"redraw", "query"}
    PROVE  BottomInv'
BY DEF BottomInv, line_vars, Bottom

(* A message that is shown is what the last line holds.                    *)
LEMMA MessageShown ==
    ASSUME NEW m \in {"info", "error"}, ShowMessage(m)
    PROVE  BottomInv'
BY DEF ShowMessage, BottomInv, Bottom

(* The message goes from the last line with the error.                     *)
LEMMA ClearErrorShown ==
    ASSUME BottomInv, ClearError, main \notin {"redraw", "query"}
    PROVE  BottomInv'
BY DEF ClearError, BottomInv, line_vars, Bottom

(* The last line shows mode and message after every step.                  *)
LEMMA StepBottom == ASSUME LoopType, BottomInv, [Next]_vars PROVE BottomInv'
<1>1. CASE Top \/ ReadSize \/ Wait
  BY <1>1, BottomStays DEF Top, ReadSize, Wait
<1>2. CASE Resize
  BY <1>2 DEF Resize, BottomInv
<1>3. CASE Draw
  <2>1. CASE ShowMessage("error")
    BY <2>1, MessageShown
  <2>2. CASE /\ bottom' = IF main = "redraw" THEN Bottom(mode, msg) ELSE bottom
             /\ UNCHANGED <<mode, msg, recent>>
    <3>1. main \in {"draw", "redraw"}
      BY <1>3 DEF Draw
    <3> QED
      BY <2>2, <3>1 DEF BottomInv, Bottom
  <2> QED
    BY <1>3, <2>1, <2>2 DEF Draw
<1>4. CASE SelectReturns
  BY <1>4, BottomStays, MessageShown, MixerUpdate DEF SelectReturns
<1>5. CASE SelectTimesOut
  BY <1>5, BottomStays DEF SelectTimesOut
<1>6. CASE Woken
  BY <1>6, BottomStays, MessageShown, MixerUpdate DEF Woken
<1>7. CASE Interrupt
  <2>1. main \in {"interrupt", "interrupted"}
    BY <1>7 DEF Interrupt
  <2>2. \/ ClearError \/ ShowMessage("info") \/ UNCHANGED line_vars
        \/ /\ mode' = "normal" /\ bottom' = Bottom("normal", msg)
           /\ UNCHANGED <<msg, recent>>
    BY <1>7 DEF Interrupt
  <2>3. CASE /\ mode' = "normal" /\ bottom' = Bottom("normal", msg)
             /\ UNCHANGED <<msg, recent>>
    BY <2>3 DEF BottomInv, Bottom
  <2> QED
    BY <2>1, <2>2, <2>3, BottomStays, MessageShown, ClearErrorShown
<1>8. CASE Dispatch
  <2>1. main = "dispatch"
    BY <1>8 DEF Dispatch, HandleMixer, HandleStdin, HandleJob, HandleNext,
       HandleClient, Turn
  <2>2. UNCHANGED line_vars \/ ShowMessage("error") \/ ClearError
    BY <1>8, StatuslineUpdate DEF Dispatch, HandleMixer, HandleStdin, HandleJob,
       HandleNext, HandleClient
  <2> QED
    BY <2>1, <2>2, BottomStays, MessageShown, ClearErrorShown
<1>9. CASE ScreenCommand
  <2>1. main = "command"
    BY <1>9 DEF ScreenCommand
  <2>2. \/ UNCHANGED line_vars
        \/ \E m \in {"info", "error"} : ShowMessage(m)
        \/ \E md \in {"command", "search"} : EnterMode(md)
    BY <1>9 DEF ScreenCommand
  <2>3. ASSUME NEW md, EnterMode(md)
        PROVE  BottomInv'
    BY <2>3 DEF EnterMode, BottomInv, Bottom
  <2> QED
    BY <2>1, <2>2, <2>3, BottomStays, MessageShown
<1>10. CASE EditLine
  BY <1>10 DEF EditLine, BottomInv, Bottom
<1>11. CASE LeaveLine
  BY <1>11 DEF LeaveLine, BottomInv, Bottom
<1>12. CASE Answer
  BY <1>12 DEF Answer, BottomInv, Bottom
<1>13. CASE Query
  BY <1>13 DEF Query, BottomInv
<1>14. CASE PlayerCommandLocks
  BY <1>14, BottomStays DEF PlayerCommandLocks
<1>15. CASE PlayerCommand
  BY <1>15, BottomStays DEF PlayerCommand
<1>16. CASE PlayerThreads
  BY <1>16, ThreadsPublish DEF line_vars, BottomInv, Bottom
<1>17. CASE Signal
  BY <1>17 DEF Signal, line_vars, BottomInv, Bottom
<1>18. CASE TwoSecondsPass
  BY <1>18 DEF TwoSecondsPass, BottomInv, Bottom
<1>19. CASE UNCHANGED vars
  BY <1>19 DEF vars, line_vars, BottomInv, Bottom
<1> QED
  BY <1>1, <1>2, <1>3, <1>4, <1>5, <1>6, <1>7, <1>8, <1>9, <1>10, <1>11, <1>12,
     <1>13, <1>14, <1>15, <1>16, <1>17, <1>18, <1>19, StepKinds DEF Screen, Round

-----------------------------------------------------------------------------
(* The size.                                                               *)

(* Steps that leave the size alone keep what is known of it.               *)
LEMMA SizeStays ==
    ASSUME SizeInv, UNCHANGED term, signals'.resize = signals.resize,
           main' \in {"resize", "resized"} => main' = main,
           main = "resized" => main' = main
    PROVE  SizeInv'
BY DEF SizeInv, ResizePending

(* No step forgets that the size is to be read or applied.                 *)
LEMMA StepSize == ASSUME LoopType, SizeInv, [Next]_vars PROVE SizeInv'
<1>0. /\ signals \in [running : BOOLEAN, ctrl_c : BOOLEAN, resize : BOOLEAN]
      /\ term \in [read : BOOLEAN, layout : BOOLEAN, lost : BOOLEAN]
  BY DEF LoopType
<1>1. CASE Top
  <2>1. /\ main = "top" /\ UNCHANGED <<signals, term>>
        /\ main' = "resize" => signals.resize
        /\ main' # "resized"
    BY <1>1 DEF Top
  <2> QED
    BY <2>1 DEF SizeInv, ResizePending
<1>2. CASE ReadSize
  <2>1. signals.resize /\ UNCHANGED signals
    BY <1>2 DEF ReadSize, SizeInv
  <2>2. CASE term' = [term EXCEPT !.read = TRUE] /\ main' = "resized"
    <3>1. term'.read /\ term'.layout = term.layout
      BY <1>0, <2>2
    <3> QED
      BY <2>1, <2>2, <3>1 DEF SizeInv, ResizePending
  <2>3. CASE main' = "draw" /\ UNCHANGED term
    BY <2>1, <2>3 DEF SizeInv, ResizePending
  <2> QED
    BY <1>2, <2>2, <2>3 DEF ReadSize
<1>3. CASE Resize
  <2>1. main = "resized" /\ main' = "redraw"
        /\ term' = [term EXCEPT !.layout = term.read]
    BY <1>3 DEF Resize
  <2>2. term'.layout = term.read /\ term'.lost = term.lost
    BY <1>0, <2>1
  <2> QED
    BY <2>1, <2>2 DEF SizeInv, ResizePending
<1>4. CASE Draw \/ Wait
  BY <1>4, SizeStays DEF Draw, Wait
<1>5. CASE Round
  <2>1. UNCHANGED term /\ signals'.resize = signals.resize
    BY <1>0, <1>5, RoundLines
  <2> QED
    BY <1>5, <2>1, RoundPlaces, SizeStays
<1>6. CASE PlayerThreads
  BY <1>6, ThreadsPublish, SizeStays
<1>7. CASE PlayerCommand
  <2>1. main = "command" /\ main' \notin {"resize", "resized"}
    BY <1>7 DEF PlayerCommand, CommandEnds, Back
  <2> QED
    BY <1>7, <2>1, CommandPublishes, SizeStays
<1>8. CASE Signal
  <2>1. main' = IF main = "select" THEN "woken" ELSE main
    BY <1>8, SignalEffect
  <2>2. CASE UNCHANGED term /\ signals'.resize = signals.resize
    BY <2>1, <2>2, SizeStays
  <2>3. CASE /\ signals'.resize
             /\ term' = [read |-> FALSE, layout |-> FALSE,
                         lost |-> main = "resized"]
    <3>1. term'.lost = (main = "resized")
      BY <2>3
    <3> QED
      BY <2>1, <2>3, <3>1 DEF SizeInv, ResizePending
  <2> QED
    BY <1>8, <2>2, <2>3, SignalEffect
<1>9. CASE TwoSecondsPass
  BY <1>9, SizeStays DEF TwoSecondsPass
<1>10. CASE UNCHANGED vars
  BY <1>10, SizeStays DEF vars
<1> QED
  BY <1>1, <1>2, <1>3, <1>4, <1>5, <1>6, <1>7, <1>8, <1>9, <1>10, StepKinds
     DEF Screen

-----------------------------------------------------------------------------
(* The invariant, and the theorems.                                        *)

(* The invariant holds when the loop begins.                               *)
LEMMA InitInv == Init => LoopInv
<1> SUFFICES ASSUME Init PROVE LoopInv
  OBVIOUS
<1>1. Shows \in [Lines -> SUBSET Fields] /\ "tree" \in Views
  BY ViewsAssumption DEF Shows, Lines, Fields
<1>2. LoopType
  <2>1. priv \in Infos /\ info \in Infos
    <3>1. InfoOf("stopped") \in Infos
      BY DEF InfoOf, Infos, PlayerStates, Statuses
    <3>2. {"status"} \in SUBSET Fields
      BY DEF Fields
    <3> QED
      BY <3>1, <3>2 DEF Init, Infos
  <2> QED
    BY <1>1, <2>1 DEF Init, LoopType, PlayerStates, Statuses, Fields
<1>3. LinesInv
  <2>1. priv.changed = {"status"} /\ behind = {"status"} /\ old = Shows
        /\ signals.resize
    BY DEF Init, InfoOf
  <2>2. \A l \in Lines : {"status"} \cap Shows[l] # {} =>
                            {"status"} \cap Flags[l] # {}
    <3>1. \A l \in Lines : l = "title" \/ l = "status"
      BY DEF Lines
    <3>2. /\ Shows["title"] = {"file", "metadata"}
          /\ Flags["status"] = {"file", "position", "status"}
      BY DEF Shows, Flags
    <3> QED
      BY <3>1, <3>2
  <2> QED
    BY <2>1, <2>2 DEF LinesInv
<1>4. WindowsInv
  BY DEF Init, WindowsInv
<1>5. BottomInv
  BY DEF Init, BottomInv, Bottom
<1>6. SizeInv
  BY DEF Init, SizeInv, ResizePending
<1> QED
  BY <1>2, <1>3, <1>4, <1>5, <1>6 DEF LoopInv

(* Every step keeps the invariant.                                         *)
LEMMA StepInv == LoopInv /\ [Next]_vars => LoopInv'
BY StepType, StepLines, StepWindows, StepBottom, StepSize DEF LoopInv

(* In every behaviour of the main thread the parts of the invariant hold.  *)
THEOREM AlwaysLoopInv == Spec => []LoopInv
BY InitInv, StepInv, PTL DEF Spec

(* update() leaves nothing behind that it had to draw: at select() the     *)
(* lines, the windows of the view and the last line are up to date, for    *)
(* any views, and any order of threads, signals, keys and clients.         *)
THEOREM AlwaysShownBeforeWaiting == Spec => []ShownBeforeWaiting
<1>1. LoopInv => ShownBeforeWaiting
  BY DEF LoopInv, LinesInv, WindowsInv, BottomInv, ShownBeforeWaiting
<1> QED
  BY <1>1, AlwaysLoopInv, PTL

(* needs_to_resize is set as long as the windows have another size than    *)
(* the terminal, but for a signal between the ioctl and the reset.         *)
THEOREM ResizeAlwaysPending == Spec => []ResizePending
<1>1. LoopInv => ResizePending
  BY DEF LoopInv, SizeInv
<1> QED
  BY <1>1, AlwaysLoopInv, PTL
=============================================================================
