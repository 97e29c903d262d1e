------------------------------ MODULE MainLoop ------------------------------
(***************************************************************************)
(* The main thread of ui_curses.c between two returns of select(): it      *)
(* copies player_info, draws what has changed, waits, and handles keys,    *)
(* commands of clients, finished jobs and requests for the next track.     *)
(* The threads of the player publish changes in between (player.c), and    *)
(* signals set flags.  What a line shows is abstracted to the set of fields*)
(* in which it differs from what is published, and a window to whether it  *)
(* is drawn as it is.                                                      *)
(* A definition under the comment "Fault" is the one after it with a       *)
(* plausible bug, and no part of the model.                                *)
(***************************************************************************)
EXTENDS Naturals, FiniteSets

CONSTANTS
    Views,        \* the views that the user changes between
    Environments  \* what there may be in a behaviour: signals, descriptors
                  \* that become ready, kinds of commands, threads of the
                  \* player, mixers, values of play_library

AllViews == {"tree", "sorted", "playlist", "queue", "browser", "filters",
             "help"}

(* The windows that a view shows.                                          *)
ViewWindows ==
    [v \in AllViews |->
        CASE v = "tree" -> {"lib_tree", "lib_track"}
          [] v = "playlist" -> {"pl_list", "pl_tracks"}
          [] OTHER -> {v}]
Windows == UNION {ViewWindows[v] : v \in Views}

ASSUME ViewsAssumption == Views \subseteq AllViews /\ "tree" \in Views

(* Descriptors, and the order in which main_loop handles them.             *)
Descriptors == {"mixer", "client", "stdin", "mpris", "job", "next"}
Rank == [mixer |-> 1, client |-> 2, stdin |-> 3, mpris |-> 4, job |-> 5,
         next |-> 6]

(* The volume is soft_vol's, or a mixer's that has descriptors or that has *)
(* to be polled.                                                           *)
AllMixers == {"soft", "fds", "poll"}

ASSUME EnvironmentsAssumption ==
    Environments \subseteq
        [signals : SUBSET {"quit", "ctrl_c", "winch"},
         ready : SUBSET (Descriptors \ {"next"}),
         commands : SUBSET {"view", "window", "message", "mode", "query", "player"},
         threads : BOOLEAN,
         mixers : SUBSET AllMixers,
         library : SUBSET BOOLEAN]

VARIABLES
    env,      \* what may happen, chosen once
    main,     \* where the main thread is
    player,   \* what the threads of the player do
    request,  \* where the consumer is between one track and the next
    priv,     \* player_info_priv: what the player did when its status was
              \* published, *_changed flags, error_msg
    info,     \* player_info, the copy that is drawn; what nobody reads any
              \* more in this round is cleared
    behind,   \* history: fields published since info was copied
    old,      \* what each line shows differently from what is published
    signals,  \* cmus_running, ctrl_c_pressed, needs_to_resize
    term,     \* whether the size read and the windows' size are the terminal's,
              \* and (history) whether the last SIGWINCH was overwritten
    view,     \* cur_view
    changed,  \* the windows whose changed flag is set
    oldWin,   \* the windows that the screen does not show as they are
    mode,     \* input_mode
    msg,      \* error_buf and msg_is_error
    recent,   \* error_time is less than 2 seconds ago
    bottom,   \* what the last line of the screen shows
    armed,    \* select() has a timeout
    mixer,    \* the mixer in this round
    todo      \* the descriptors select() returned that are not handled yet

player_vars == <<player, request>>
info_vars == <<priv, info, behind, old>>
round_vars == <<armed, mixer, env>>
rest == <<round_vars, todo>>
view_vars == <<view, changed, oldWin>>
line_vars == <<mode, msg, recent, bottom>>
vars == <<main, player_vars, info_vars, signals, term, view_vars, line_vars,
          rest>>

(* The buffer fill is left out: buffer_fill_changed is read by nobody, and *)
(* the status line shows the fill as it was when something else changed.   *)
Fields == {"file", "metadata", "status", "position"}
Lines == {"title", "status"}
Shows == [title  |-> {"file", "metadata"},
          status |-> {"file", "status", "position"}]
Statuses == {"stopped", "playing", "paused"}

(* Without its device the player is "reopening" it, or "reading" on after  *)
(* that has failed: consumer_status is CS_STOPPED, but the producer still  *)
(* fills the buffer.                                                       *)
Away == {"reopening", "reading"}
PlayerStates == Statuses \cup Away
Status(p) == IF p \in Away THEN "stopped" ELSE p

(* Where the consumer is, with both mutexes, when a file has ended.        *)
RequestPlaces == {"none", "asked", "answered", "unopened", "opened",
                  "prebuffer", "broken", "over"}

(* "command" runs a command, of a key or of a client; "entered" leaves the *)
(* command line after one; "query" is in yes_no_query; "locked" waits in   *)
(* player_lock() for the consumer, which waits for the next track; "ended" *)
(* has left the loop.                                                      *)
MainPlaces == {"top", "resize", "resized", "redraw", "draw", "wait", "select",
               "woken", "interrupt", "interrupted", "dispatch", "command",
               "entered", "query", "locked", "ended"}

InfoOf(p) == [player |-> p, changed |-> {}, error |-> FALSE]

(* player_init and init_curses: the first round resizes, and draws all.    *)
Init ==
    /\ main = "top"
    /\ player = "stopped" /\ request = "none"
    /\ priv = [InfoOf("stopped") EXCEPT !.changed = {"status"}]
    /\ info = InfoOf("stopped")
    /\ behind = {"status"}
    /\ old = Shows
    /\ signals = [running |-> TRUE, ctrl_c |-> FALSE, resize |-> TRUE]
    /\ term = [read |-> FALSE, layout |-> FALSE, lost |-> FALSE]
    /\ view = "tree" /\ changed = Windows /\ oldWin = Windows
    /\ mode = "normal" /\ msg = "none" /\ recent = FALSE /\ bottom = "blank"
    /\ armed = FALSE /\ todo = {}
    /\ env \in Environments /\ mixer \in env.mixers

-----------------------------------------------------------------------------
(* The threads of the player, as the user interface sees them.             *)

(* Under player_info_mutex: new values of some fields, and their flags; the*)
(* status is what consumer_status is when the player does p.               *)
Publish(flags, fields, p, error) ==
    /\ priv' = [player |-> p, changed |-> priv.changed \cup flags,
                error |-> priv.error \/ error]
    /\ behind' = behind \cup fields
    /\ old' = [l \in Lines |-> old[l] \cup (fields \cap Shows[l])]
    /\ UNCHANGED info

PublishPosition == Publish({"position"}, {"position"}, priv.player, FALSE)
PublishMetadata == Publish({"metadata"}, {"metadata"}, priv.player, FALSE)
PublishFile == Publish({"file"}, {"file", "metadata"}, priv.player, FALSE)
PublishStatus(p) == Publish({"status"}, {"status", "position"}, p, FALSE)
PublishError(p) == Publish({"status"}, {"status", "position"}, p, TRUE)

ThreadStep ==
    env.threads /\ UNCHANGED <<main, signals, term, view_vars, line_vars, rest>>

(* consumer_loop plays on, or has lost its device and opens it again.      *)
Consume ==
    /\ player = "playing" /\ request = "none"
    /\ \/ PublishPosition /\ UNCHANGED player
       \/ player' = "reopening" /\ UNCHANGED info_vars
    /\ UNCHANGED request /\ ThreadStep

(* _consumer_play of consumer_loop: nobody publishes that it plays again.  *)
Reopen ==
    /\ player = "reopening"
    /\ \/ player' = "playing" /\ UNCHANGED info_vars
       \/ player' = "reading" /\ PublishError("reading")
    /\ UNCHANGED request /\ ThreadStep

(* producer_loop has read something, or failed to.  It does not hold       *)
(* consumer_mutex, and publishes the consumer_status that it finds.        *)
Produce ==
    /\ player \in {"playing"} \cup Away /\ request = "none"
    /\ PublishMetadata \/ PublishError(player)
    /\ UNCHANGED player_vars /\ ThreadStep

(* _consumer_handle_eof: the player stops, plays the file again, or asks   *)
(* the main thread for the next track.                                     *)
EndOfFile ==
    /\ player = "playing" /\ request = "none"
    /\ \/ /\ PublishError("stopped") \/ PublishStatus("stopped")
          /\ player' = "stopped" /\ UNCHANGED request
       \/ request' = "asked" /\ UNCHANGED <<player, info_vars>>
    /\ ThreadStep

(* _producer_play has opened the next track, or has failed to.             *)
OpenTrack ==
    /\ request = "answered"
    /\ \/ request' = "unopened" /\ PublishError(player)
       \/ request' = "opened" /\ PublishFile
    /\ UNCHANGED player /\ ThreadStep

(* The player stops, and shows that there is no track, or one that it does *)
(* not play.                                                               *)
NoTrack ==
    /\ request \in {"answered", "unopened"} /\ request' = "over"
    /\ player' = "stopped" /\ PublishFile
    /\ ThreadStep

(* change_sf of the track that was opened.                                 *)
ChangeFormat ==
    /\ request = "opened"
    /\ \/ request' = "prebuffer" /\ UNCHANGED <<player, info_vars>>
       \/ request' = "over" /\ player' = "stopped" /\ PublishError(player)
    /\ ThreadStep

(* _prebuffer, until there is enough, the file ends, or reading it fails.  *)
Prebuffer ==
    /\ \/ request = "prebuffer" /\ UNCHANGED request /\ PublishMetadata
       \/ request = "prebuffer" /\ request' = "broken" /\ PublishError(player)
       \/ /\ request \in {"prebuffer", "broken"} /\ request' = "over"
          /\ UNCHANGED info_vars \/ (request = "broken" /\ PublishMetadata)
    /\ UNCHANGED player /\ ThreadStep

NextTrackShown ==
    /\ request = "over" /\ request' = "none"
    /\ PublishStatus(player)
    /\ UNCHANGED player /\ ThreadStep

(* The rest of _consumer_handle_eof, once the main thread has answered.    *)
NextTrack ==
    OpenTrack \/ NoTrack \/ ChangeFormat \/ Prebuffer \/ NextTrackShown

-----------------------------------------------------------------------------
(* Signals, and time.                                                      *)

(* The handlers set a flag; a signal during select() ends it with EINTR.   *)
Signal ==
    /\ main # "ended"
    /\ \/ /\ "quit" \in env.signals
          /\ signals' = [signals EXCEPT !.running = FALSE] /\ UNCHANGED term
       \/ /\ "ctrl_c" \in env.signals
          /\ signals' = [signals EXCEPT !.ctrl_c = TRUE] /\ UNCHANGED term
       \/ /\ "winch" \in env.signals
          /\ signals' = [signals EXCEPT !.resize = TRUE]
          /\ term' = [read |-> FALSE, layout |-> FALSE, lost |-> main = "resized"]
    /\ main' = IF main = "select" THEN "woken" ELSE main
    /\ UNCHANGED <<player_vars, info_vars, view_vars, line_vars, rest>>

TwoSecondsPass ==
    /\ recent /\ recent' = FALSE
    /\ UNCHANGED <<main, player_vars, info_vars, signals, term, view_vars, mode,
                   msg, bottom, rest>>

-----------------------------------------------------------------------------
(* Drawing.                                                                *)

(* do_update_commandline: a message hides the command line.                *)
Bottom(md, m) ==
    IF m # "none" THEN m ELSE IF md = "normal" THEN "blank" ELSE md

(* error_msg and info_msg; only the first remembers when.                  *)
ShowMessage(m) ==
    /\ msg' = m /\ bottom' = m
    /\ recent' = (recent \/ m = "error")
    /\ UNCHANGED mode

(* do_update_titleline reads the stream's title and comments as they are   *)
(* now, the rest from the copy.                                            *)
TitleDrawn == behind \cap {"file"}
StatusDrawn == behind \cap Shows["status"]

(* update_statusline, which reports the copied error again each time.      *)
UpdateStatusline ==
    /\ old' = [old EXCEPT !["status"] = StatusDrawn]
    /\ IF info.error THEN ShowMessage("error") ELSE UNCHANGED line_vars

(* do_update_view: which of its windows a view draws.                      *)
DrawnWindows(v, full) ==
    IF full \/ v \notin {"tree", "playlist"} THEN ViewWindows[v]
    ELSE ViewWindows[v] \cap changed

(* Fault: the metadata flag is not looked at.                              *)
NeedsTitleForFile == main = "redraw" \/ "file" \in info.changed

(* What update() decides to draw.                                          *)
NeedsTitle == main = "redraw" \/ info.changed \cap {"file", "metadata"} # {}
(* Fault: the status flag is not looked at.                                *)
NeedsStatusForPosition(library) ==
    \/ main = "redraw"
    \/ info.changed \cap {"file", "position"} # {}
    \/ changed \cap (IF library THEN {"sorted"} ELSE ViewWindows["playlist"]) # {}

NeedsStatus(library) ==
    \/ main = "redraw"
    \/ info.changed \cap {"file", "position", "status"} # {}
    \/ changed \cap (IF library THEN {"sorted"} ELSE ViewWindows["playlist"]) # {}
NeedsSpawn == info.changed \cap {"file", "metadata", "status"} # {}
NeedsView == changed \cap ViewWindows[view] # {}

-----------------------------------------------------------------------------
(* One round of main_loop up to select().                                  *)

(* Fault: cmus_running is not tested.                                      *)
TopWithoutTest ==
    /\ main = "top"
    /\ main' = IF signals.resize THEN "resize" ELSE "draw"
    /\ info' = priv
    /\ priv' = [priv EXCEPT !.changed = {}, !.error = FALSE]
    /\ behind' = {}
    /\ UNCHANGED <<player_vars, old, signals, term, view_vars, line_vars, rest>>

(* The test of cmus_running, and player_info_snapshot.                     *)
Top ==
    /\ main = "top"
    /\ IF ~signals.running
       THEN main' = "ended" /\ UNCHANGED <<info, priv, behind>>
       ELSE /\ main' = IF signals.resize THEN "resize" ELSE "draw"
            /\ info' = priv
            /\ priv' = [priv EXCEPT !.changed = {}, !.error = FALSE]
            /\ behind' = {}
    /\ UNCHANGED <<player_vars, old, signals, term, view_vars, line_vars, rest>>

(* Fault: the flag is cleared when the size could not be read, too.        *)
ReadSizeOnce ==
    /\ main = "resize"
    /\ \/ /\ term' = [term EXCEPT !.read = TRUE] /\ main' = "resized"
          /\ UNCHANGED signals
       \/ /\ signals' = [signals EXCEPT !.resize = FALSE] /\ main' = "draw"
          /\ UNCHANGED term
    /\ UNCHANGED <<player_vars, info_vars, view_vars, line_vars, rest>>

(* get_window_size, which may fail.                                        *)
ReadSize ==
    /\ main = "resize"
    /\ \/ term' = [term EXCEPT !.read = TRUE] /\ main' = "resized"
       \/ main' = "draw" /\ UNCHANGED term
    /\ UNCHANGED <<player_vars, info_vars, signals, view_vars, line_vars, rest>>

(* The new size: window_set_nr_rows sets changed in every window.          *)
Resize ==
    /\ main = "resized" /\ main' = "redraw"
    /\ signals' = [signals EXCEPT !.resize = FALSE]
    /\ term' = [term EXCEPT !.layout = term.read]
    /\ changed' = Windows /\ oldWin' = Windows
    /\ old' = Shows /\ bottom' = "old"
    /\ UNCHANGED <<player_vars, priv, info, behind, view, mode, msg, recent,
                   rest>>

(* The rest of update(): the status program may fail to start; the flag of *)
(* lib_editable's window is cleared whether it is on the screen or not.    *)
Draw ==
    /\ main \in {"draw", "redraw"} /\ main' = "wait"
    /\ \E library \in env.library :
          LET drawn == IF NeedsView THEN DrawnWindows(view, FALSE) ELSE {}
          IN  /\ changed' = (changed \ drawn) \
                                (IF library THEN {"sorted"} ELSE {})
              /\ oldWin' = oldWin \ drawn
              /\ old' = [title  |-> IF NeedsTitle THEN TitleDrawn
                                                  ELSE old["title"],
                         status |-> IF NeedsStatus(library) THEN StatusDrawn
                                                            ELSE old["status"]]
              /\ \/ /\ (NeedsStatus(library) /\ info.error) \/ NeedsSpawn
                    /\ ShowMessage("error")
                 \/ /\ ~(NeedsStatus(library) /\ info.error)
                    /\ bottom' = IF main = "redraw" THEN Bottom(mode, msg)
                                                    ELSE bottom
                    /\ UNCHANGED <<mode, msg, recent>>
    /\ info' = [info EXCEPT !.changed = {}]
    /\ UNCHANGED <<player_vars, priv, behind, signals, term, view, rest>>

(* What is still read of the copy, or told by it: the error that it holds, *)
(* and whether its status was published by a player without its device.    *)
CopyKept == [player  |-> IF info.player \in Away THEN info.player ELSE "stopped",
             changed |-> {}, error |-> info.error]

(* Fault: no timeout, whatever the player does.                            *)
WaitForEver ==
    /\ main = "wait" /\ main' = "select"
    /\ mixer' \in env.mixers /\ armed' = FALSE
    /\ info' = CopyKept
    /\ UNCHANGED <<player_vars, priv, behind, old, signals, term, view_vars, line_vars,
                   todo, env>>

(* The timeout: 100 ms while the copied status is playing, 500 ms when the *)
(* mixer has to be polled, none otherwise.                                 *)
Wait ==
    /\ main = "wait" /\ main' = "select"
    /\ mixer' \in env.mixers
    /\ armed' = (Status(info.player) = "playing" \/ mixer' = "poll")
    /\ info' = CopyKept
    /\ UNCHANGED <<player_vars, priv, behind, old, signals, term, view_vars,
                   line_vars, todo, env>>

-----------------------------------------------------------------------------
(* What follows select().                                                  *)

(* mixer_read_volume after every select() that polls it.                   *)
ReadMixer ==
    \/ UNCHANGED <<old, line_vars>>
    \/ mixer = "poll" /\ UpdateStatusline

Ready == {d \in env.ready : d = "mixer" => mixer = "fds"}
             \cup (IF request = "asked" THEN {"next"} ELSE {})

SelectReturns ==
    /\ main = "select" /\ main' = "dispatch"
    /\ todo' \in SUBSET Ready \ {{}}
    /\ request = "asked" => "next" \in todo'
    /\ ReadMixer
    /\ UNCHANGED <<player_vars, priv, info, behind, signals, term, view_vars,
                   round_vars>>

SelectTimesOut ==
    /\ main = "select" /\ armed /\ request # "asked"
    /\ main' = "woken"
    /\ UNCHANGED <<player_vars, info_vars, signals, term, view_vars, line_vars,
                   rest>>

(* Fault: the message is taken back, and its line is not drawn again.      *)
ClearErrorSilently ==
    IF recent \/ msg = "none" THEN UNCHANGED line_vars
    ELSE msg' = "none" /\ recent' = FALSE /\ UNCHANGED <<mode, bottom>>

(* clear_error: a message stays for 2 seconds after the last error.        *)
ClearError ==
    IF recent \/ msg = "none" THEN UNCHANGED line_vars
    ELSE /\ msg' = "none" /\ recent' = FALSE
         /\ bottom' = Bottom(mode, "none")
         /\ UNCHANGED mode

(* select() gave nothing: look for Ctrl-C.                                 *)
Woken ==
    /\ main = "woken"
    /\ main' = IF signals.ctrl_c THEN "interrupt" ELSE "top"
    /\ ReadMixer
    /\ UNCHANGED <<player_vars, priv, info, behind, signals, term, view_vars, rest>>

First(d) == d \in todo /\ \A e \in todo : Rank[d] <= Rank[e]
Turn(d) == main = "dispatch" /\ First(d)
Back(left) == IF left = {} THEN "top" ELSE "dispatch"
Finish(d) == todo' = todo \ {d} /\ main' = Back(todo \ {d})

HandleMixer ==
    /\ Turn("mixer") /\ Finish("mixer")
    /\ UpdateStatusline
    /\ UNCHANGED <<player_vars, priv, info, behind, signals, term, view_vars,
                   round_vars>>

(* u_getch: a key, or nothing after all.                                   *)
HandleStdin ==
    /\ Turn("stdin")
    /\ \/ Finish("stdin") /\ UNCHANGED line_vars
       \/ main' = "command" /\ ClearError /\ UNCHANGED todo
    /\ UNCHANGED <<player_vars, info_vars, signals, term, view_vars, round_vars>>

(* job_handle: the library has grown.                                      *)
HandleJob ==
    /\ Turn("job") /\ Finish("job")
    /\ \E win \in Windows : changed' = changed \cup {win} /\ oldWin' = oldWin \cup {win}
    /\ UNCHANGED <<player_vars, info_vars, signals, term, view, line_vars, round_vars>>

(* Fault: the answer is left to the next round.                            *)
HandleNextLater ==
    /\ Turn("next") /\ Finish("next")
    /\ UNCHANGED <<player_vars, info_vars, signals, term, view_vars, line_vars,
                   round_vars>>

(* cmus_provide_next_track.                                                *)
HandleNext ==
    /\ Turn("next") /\ Finish("next")
    /\ request' = IF request = "asked" THEN "answered" ELSE request
    /\ UNCHANGED <<player, info_vars, signals, term, view_vars, line_vars, round_vars>>

(* server_serve, mpris_process: a command, or the end of a connection.     *)
HandleClient ==
    /\ \E d \in {"client", "mpris"} :
          Turn(d) /\ (Finish(d) \/ (main' = "command" /\ UNCHANGED todo))
    /\ UNCHANGED <<player_vars, info_vars, signals, term, view_vars, line_vars,
                   round_vars>>

Dispatch ==
    HandleMixer \/ HandleStdin \/ HandleJob \/ HandleNext \/ HandleClient

(* handle_ch(0x03): takes the message back, then leaves the command line,  *)
(* or says how to quit.                                                    *)
Interrupt ==
    /\ \/ /\ main = "interrupt" /\ main' = "interrupted"
          /\ ClearError /\ UNCHANGED signals
       \/ /\ main = "interrupted" /\ main' = "top"
          /\ signals' = [signals EXCEPT !.ctrl_c = FALSE]
          /\ \/ mode = "normal" /\ ShowMessage("info")
             \/ mode = "normal" /\ UNCHANGED line_vars
             \/ /\ mode # "normal" /\ mode' = "normal"
                /\ bottom' = Bottom("normal", msg)
                /\ UNCHANGED <<msg, recent>>
    /\ UNCHANGED <<player_vars, info_vars, term, view_vars, rest>>

-----------------------------------------------------------------------------
(* A command: the effects that the user interface has to show.             *)

Serving == CHOOSE d \in todo : First(d)
Typed == Serving = "stdin" /\ mode # "normal"

(* A command typed on the command line still has to leave it.              *)
CommandEnds ==
    IF Typed THEN main' = "entered" /\ UNCHANGED todo
    ELSE todo' = todo \ {Serving} /\ main' = Back(todo \ {Serving})

(* Fault: a view that is shown draws only what has changed meanwhile.      *)
SetViewPartly(v) ==
    LET drawn == IF v = view THEN {} ELSE DrawnWindows(v, FALSE)
    IN  /\ view' = v /\ changed' = changed \ drawn
        /\ oldWin' = (oldWin \cup (Windows \ ViewWindows[v])) \ drawn

(* set_view: a view that is shown is drawn in full.                        *)
SetView(v) ==
    LET drawn == IF v = view THEN {} ELSE DrawnWindows(v, TRUE)
    IN  /\ view' = v /\ changed' = changed \ drawn
        /\ oldWin' = (oldWin \cup (Windows \ ViewWindows[v])) \ drawn

(* sel_changed, and the commands that change a list.                       *)
MoveWindow(win) ==
    /\ changed' = changed \cup {win} /\ oldWin' = oldWin \cup {win}
    /\ UNCHANGED view

EnterMode(md) ==
    /\ mode' = md /\ msg' = "none" /\ recent' = FALSE
    /\ bottom' = Bottom(md, "none")

(* A key that is no command: it is part of a line, or ends it.             *)
EditLine ==
    /\ main = "command" /\ Typed
    /\ mode' \in {mode, "normal"} /\ bottom' = Bottom(mode', msg)
    /\ todo' = todo \ {"stdin"} /\ main' = Back(todo')
    /\ UNCHANGED <<player_vars, info_vars, signals, term, view_vars, msg, recent,
                   round_vars>>

(* The line that update_commandline draws once the command has run.        *)
LeaveLine ==
    /\ main = "entered"
    /\ mode' = "normal" /\ bottom' = Bottom("normal", msg)
    /\ todo' = todo \ {"stdin"} /\ main' = Back(todo')
    /\ UNCHANGED <<player_vars, info_vars, signals, term, view_vars, msg, recent,
                   round_vars>>

ScreenCommand ==
    /\ main = "command" /\ CommandEnds
    /\ \/ UNCHANGED <<view_vars, line_vars>>
       \/ /\ \/ "view" \in env.commands /\ \E v \in Views : SetView(v)
             \/ "window" \in env.commands /\ \E win \in Windows : MoveWindow(win)
          /\ UNCHANGED line_vars
       \/ /\ "message" \in env.commands
          /\ \E m \in {"info", "error"} : ShowMessage(m)
          /\ UNCHANGED view_vars
       \/ /\ "mode" \in env.commands /\ mode = "normal"
          /\ \E md \in {"command", "search"} : EnterMode(md)
          /\ UNCHANGED view_vars
    /\ UNCHANGED <<player_vars, info_vars, signals, term, round_vars>>

(* A player_* function, between player_lock() and player_unlock(): the     *)
(* consumer holds its mutex while it opens the device or asks for a track. *)
(* A new file and the comments read while prebuffering are published on    *)
(* the way; a read may fail there, and the player plays what it has.       *)
PlayerCommand ==
    /\ "player" \in env.commands
    /\ main = "command" /\ request = "none" /\ player # "reopening"
    /\ CommandEnds
    /\ player' \in Statuses
    /\ \E more \in SUBSET {"file", "metadata"}, error \in BOOLEAN :
          /\ "metadata" \in more => player' = "playing"
          /\ player' = "paused" => player = "playing" /\ more = {} /\ ~error
          /\ Publish({"status"} \cup more,
                     {"status", "position"} \cup more
                        \cup (IF "file" \in more THEN {"metadata"} ELSE {}),
                     player', error)
    /\ UNCHANGED <<request, signals, term, view_vars, line_vars, round_vars>>

PlayerCommandLocks ==
    /\ "player" \in env.commands
    /\ main = "command" /\ request = "asked" /\ main' = "locked"
    /\ UNCHANGED <<player_vars, info_vars, signals, term, view_vars, line_vars,
                   rest>>

(* yes_no_query draws over the line, and waits for a key for ever.         *)
Query ==
    /\ "query" \in env.commands
    /\ main = "command" /\ main' = "query"
    /\ bottom' = "query"
    /\ UNCHANGED <<player_vars, info_vars, signals, term, view_vars, mode, msg,
                   recent, rest>>

Answer ==
    /\ main = "query" /\ CommandEnds
    /\ bottom' = Bottom(mode, msg)
    /\ UNCHANGED <<player_vars, info_vars, signals, term, view_vars, mode, msg,
                   recent, round_vars>>

Command == EditLine \/ ScreenCommand \/ PlayerCommand \/ PlayerCommandLocks \/ Query

-----------------------------------------------------------------------------

Loop == \/ Top \/ ReadSize \/ Resize \/ Draw \/ Wait \/ Woken \/ Interrupt
        \/ Dispatch \/ Command \/ LeaveLine
PlayerThreads == Consume \/ Reopen \/ Produce \/ EndOfFile \/ NextTrack

Next ==
    \/ Loop \/ SelectReturns \/ SelectTimesOut \/ Answer
    \/ PlayerThreads \/ Signal \/ TwoSecondsPass

Spec == Init /\ [][Next]_vars

(* The main thread runs; select() returns when its time is over or when a  *)
(* descriptor is ready, however often signals interrupt it; opening the    *)
(* device returns, and a consumer that has its answer loads the track.     *)
(* Nobody has to type, nothing has to play on, and ioctl() may fail for    *)
(* ever.                                                                   *)
Fairness ==
    /\ WF_vars(Loop)
    /\ SF_vars(SelectReturns /\ request = "asked")
    /\ WF_vars(SelectTimesOut)
    /\ WF_vars(Reopen)
    /\ WF_vars(NextTrack /\ request' # request)

FairSpec == Spec /\ Fairness

-----------------------------------------------------------------------------
(* Properties.                                                             *)

TypeOK ==
    /\ main \in MainPlaces
    /\ player \in PlayerStates
    /\ request \in RequestPlaces
    /\ {priv, info} \subseteq [player : PlayerStates, changed : SUBSET Fields,
                               error : BOOLEAN]
    /\ behind \subseteq Fields /\ old \in [Lines -> SUBSET Fields]
    /\ signals \in [running : BOOLEAN, ctrl_c : BOOLEAN, resize : BOOLEAN]
    /\ term \in [read : BOOLEAN, layout : BOOLEAN, lost : BOOLEAN]
    /\ view \in Views
    /\ changed \subseteq Windows /\ oldWin \subseteq Windows
    /\ mode \in {"normal", "command", "search"}
    /\ msg \in {"none", "info", "error"}
    /\ recent \in BOOLEAN /\ armed \in BOOLEAN
    /\ bottom \in {"blank", "old", "query", "info", "error", "command", "search"}
    /\ todo \subseteq Descriptors
    /\ main \in {"dispatch", "command", "entered"} => todo # {}

(* When the main thread is about to wait, everything on the screen is as   *)
(* it is, or was published since player_info was copied: the title and     *)
(* status lines, the windows of the view, and the last line.  As long as   *)
(* the terminal's size cannot be read, it may not be.                      *)
ShownBeforeWaiting ==
    main \in {"wait", "select"} /\ ~signals.resize =>
        /\ \A l \in Lines : old[l] \subseteq behind
        /\ oldWin \cap ViewWindows[view] = {}
        /\ bottom = Bottom(mode, msg)

(* Windows of another size than the terminal are asked to be resized, but  *)
(* after a SIGWINCH between the ioctl and the reset of needs_to_resize.    *)
ResizePending ==
    ~term.layout =>
        signals.resize \/ main = "resized" \/ term.lost

(* Where the main thread stops until a user comes, or for ever.  The main  *)
(* thread is Unaware when it waits without a timeout on a status that was  *)
(* published while the player was without its device: player_error says    *)
(* "stopped" even if the device is then opened again, and nobody publishes *)
(* that the player plays on.                                               *)
Stuck == main \in {"query", "locked", "ended"}
Idle == main = "select" /\ ~armed
Unaware == Idle /\ info.player \in Away

(* What a thread of the player publishes is copied: select() has a timeout *)
(* whenever a thread may publish something, but for what is published      *)
(* after an error of a player without its device.                          *)
ChangesPickedUp ==
    \A f \in Fields : (f \in behind) ~> (f \notin behind \/ Stuck \/ Unaware)

(* An error of the player reaches the screen, unless the main thread waits *)
(* beside a player that it takes to have stopped.                          *)
ErrorShown == priv.error ~> (bottom = "error" \/ Stuck \/ Unaware)

(* The consumer, which holds its mutex, gets the next track.               *)
RequestAnswered == (request = "asked") ~> (request # "asked" \/ Stuck)

(* A SIGHUP or SIGTERM ends the program, unless nothing wakes select() up: *)
(* one between the test of cmus_running and select() is not noticed.       *)
QuitSeen == ~signals.running ~> Stuck \/ Idle
=============================================================================
