------------------------------ MODULE PlayerOps ------------------------------
(***************************************************************************)
(* The bodies of the static helpers of player.c, as functions of the state *)
(* they share: a record s holds what consumer_mutex, producer_mutex and    *)
(* player_info_mutex protect.  A helper that can end in one state only is  *)
(* an expression; one whose end depends on an input or output plug-in, on  *)
(* a read or on an option is the set of the states it can end in.  The     *)
(* module Player says which thread runs them, and under which locks.       *)
(* A definition under the comment "Fault" is no part of the model: it is   *)
(* the definition after it with a plausible bug, which shows that a        *)
(* property can fail.                                                      *)
(***************************************************************************)
EXTENDS Integers

CONSTANTS
    Tracks,        \* what a struct track_info stands for
    NoTrack,       \* the NULL track_info
    Remote,        \* the tracks for which ip_is_remote() is true
    Formats,       \* normalised sample formats with their channel map
    NoFormat,      \* buffer_sf as it is statically initialised
    Format,        \* the format set_buffer_sf() computes for a track
    NrChunks,      \* buffer_nr_chunks
    PrebufChunks,  \* chunks in 250 ms of sound, at least 1
    ReadErrors     \* TRUE \in ReadErrors: ip_read() may fail for good

ASSUME TracksAssumption ==
    /\ NoTrack \notin Tracks
    /\ Remote \subseteq Tracks
ASSUME FormatAssumption ==
    /\ NoFormat \notin Formats
    /\ Format \in [Tracks -> Formats]
ASSUME ChunksAssumption ==
    /\ NrChunks \in Nat
    /\ PrebufChunks \in 1 .. NrChunks
ASSUME ReadErrorsAssumption == ReadErrors \subseteq BOOLEAN

ProducerStatuses == {"unloaded", "stopped", "playing", "paused"}
ConsumerStatuses == {"stopped", "playing", "paused"}

(* One struct input_plugin: allocated by ip_new, open after ip_open; the   *)
(* pointer is never set back to NULL, so it dangles after ip_delete.       *)
PluginStates == {"null", "new", "open", "freed"}

(* The output device behind op_open, op_pause, op_unpause and op_close.    *)
DeviceStates == {"closed", "running", "paused"}

State == [producer_status : ProducerStatuses,
          consumer_status : ConsumerStatuses,
          ip              : PluginStates,
          file            : Tracks \cup {NoTrack},  \* ip's file name
          eof             : BOOLEAN,                \* ip_eof(ip)
          device          : DeviceStates,
          device_sf       : Formats \cup {NoFormat},
          buffer_sf       : Formats \cup {NoFormat},
          filled          : 0 .. NrChunks,          \* filled chunks
          partial         : BOOLEAN,                \* bytes in the next one
          data            : Tracks \cup {NoTrack},  \* whose bytes they are
          ti              : Tracks \cup {NoTrack},  \* player_info_priv.ti
          status          : ConsumerStatuses,       \* player_info_priv.status
          refs            : [Tracks -> Int],        \* references player.c holds
          waiting         : SUBSET {"producer", "consumer"}]

InitialState ==
    [producer_status |-> "unloaded", consumer_status |-> "stopped",
     ip |-> "null", file |-> NoTrack, eof |-> FALSE,
     device |-> "closed", device_sf |-> NoFormat, buffer_sf |-> NoFormat,
     filled |-> 0, partial |-> FALSE, data |-> NoTrack,
     ti |-> NoTrack, status |-> "stopped",
     refs |-> [t \in Tracks |-> 0], waiting |-> {}]

IpIsRemote(s) == s.file \in Remote

-----------------------------------------------------------------------------
(* Condition variables: pthread_cond_broadcast empties the wait queue.     *)

ProducerStatusUpdate(s, status) ==
    [s EXCEPT !.producer_status = status, !.waiting = @ \ {"producer"}]

ConsumerStatusUpdate(s, status) ==
    [s EXCEPT !.consumer_status = status, !.waiting = @ \ {"consumer"}]

(* Fault: the producer is not woken when its buffer is emptied.            *)
ResetBufferSilently(s) ==
    [s EXCEPT !.filled = 0, !.partial = FALSE, !.data = NoTrack]

ResetBuffer(s) ==
    [s EXCEPT !.filled = 0, !.partial = FALSE, !.data = NoTrack,
              !.waiting = @ \ {"producer"}]

-----------------------------------------------------------------------------
(* player_info_priv: what the user interface will be told.                 *)

Ref(s, t) == IF t = NoTrack THEN s ELSE [s EXCEPT !.refs[t] = @ + 1]
Unref(s, t) == IF t = NoTrack THEN s ELSE [s EXCEPT !.refs[t] = @ - 1]

(* Fault: the track that was shown before is not unreferenced.             *)
FileChangedLeaking(s, t) == [s EXCEPT !.ti = t]

FileChanged(s, t) == [Unref(s, s.ti) EXCEPT !.ti = t]

PlayerError(s) == [s EXCEPT !.status = s.consumer_status]
PlayerStatusChanged(s) == [s EXCEPT !.status = s.consumer_status]

-----------------------------------------------------------------------------
(* The producer's side: the input plug-in and the buffer.                  *)

IpNew(s, t) == [s EXCEPT !.ip = "new", !.file = t, !.eof = FALSE]
IpOpen(s) == [s EXCEPT !.ip = "open", !.eof = FALSE]
IpClose(s) == [s EXCEPT !.ip = "new"]
IpDelete(s) == [s EXCEPT !.ip = "freed"]

(* ip_seek to the start: on failure the plug-in stays where it is.         *)
SeekStart(s) == [s EXCEPT !.eof = FALSE]

(* Fault: the buffer is not reset.                                         *)
ProducerStopKeepingBuffer(s) ==
    IF s.producer_status \in {"playing", "paused"}
    THEN ProducerStatusUpdate(IpClose(s), "stopped")
    ELSE s

ProducerStop(s) ==
    IF s.producer_status \in {"playing", "paused"}
    THEN ResetBuffer(ProducerStatusUpdate(IpClose(s), "stopped"))
    ELSE s

ProducerUnload(s) ==
    LET stopped == ProducerStop(s)
    IN  IF stopped.producer_status = "stopped"
        THEN ProducerStatusUpdate(IpDelete(stopped), "unloaded")
        ELSE stopped

(* Fault: the result of ip_open is not looked at.                          *)
PlayStoppedUnchecked(s) ==
    {ProducerStatusUpdate(q, "playing")
        : q \in {IpOpen(s), IpDelete(PlayerError(s))}}

(* _producer_play with a file loaded: ip_open may fail.                    *)
PlayStopped(s) ==
    {ProducerStatusUpdate(IpOpen(s), "playing"),
     ProducerStatusUpdate(IpDelete(PlayerError(s)), "unloaded")}

(* _producer_play with nothing loaded: the main thread picks the next      *)
(* track, if there is one, and opens it.                                   *)
PlayNext(s, t) ==
    LET fresh == IpNew(Ref(s, t), t)
    IN  {FileChanged(ProducerStatusUpdate(IpOpen(fresh), "playing"), t),
         FileChanged(Unref(IpDelete(PlayerError(fresh)), t), NoTrack)}

ProducerPlay(s) ==
    CASE s.producer_status = "unloaded" ->
            {s} \cup UNION {PlayNext(s, t) : t \in Tracks}
      [] s.producer_status = "playing" -> {s, ResetBuffer(SeekStart(s))}
      [] s.producer_status = "stopped" -> PlayStopped(s)
      [] s.producer_status = "paused"  -> {ProducerStatusUpdate(s, "playing")}

(* Fault: the second pause does not resume.                                *)
ProducerPauseOneWay(s) ==
    IF s.producer_status = "playing" THEN ProducerStatusUpdate(s, "paused")
                                     ELSE s

ProducerPause(s) ==
    CASE s.producer_status = "playing" -> ProducerStatusUpdate(s, "paused")
      [] s.producer_status = "paused"  -> ProducerStatusUpdate(s, "playing")
      [] OTHER -> s

ProducerSetFile(s, t) ==
    FileChanged(ProducerStatusUpdate(IpNew(ProducerUnload(Ref(s, t)), t),
                                     "stopped"), t)

-----------------------------------------------------------------------------
(* Reading into the buffer: ip_read followed by buffer_fill.               *)

(* buffer_fill(0) closes the chunk that is being written.                  *)
Flush(s) ==
    IF s.partial THEN [s EXCEPT !.filled = @ + 1, !.partial = FALSE] ELSE s

(* Some bytes: the chunk being written is now full, or not yet.            *)
ReadData(s) ==
    IF s.eof THEN {}
    ELSE {[s EXCEPT !.filled = @ + 1, !.partial = FALSE, !.data = s.file],
          [s EXCEPT !.partial = TRUE, !.data = s.file]}

(* Fault: the chunk being written is not closed at the end of the file.    *)
ReadEndKeepingPartial(s) == [s EXCEPT !.eof = TRUE]

(* ip_read returned 0: the end of the file.                                *)
ReadEnd(s) == Flush([s EXCEPT !.eof = TRUE])

(* ip_read failed for another reason than EAGAIN.                          *)
ReadError(s) ==
    IF TRUE \in ReadErrors
    THEN {Flush([PlayerError(s) EXCEPT !.eof = e]) : e \in {s.eof, TRUE}}
    ELSE {}

(* Fault: the loop does not look at the number of filled chunks.           *)
PrebufferMoreUnlimited(s) == ReadData(s)

(* One round of the loop of _prebuffer, as the states after it from which  *)
(* the loop goes on and those in which it ends.                            *)
PrebufferLimit(s) == IF IpIsRemote(s) THEN NrChunks ELSE PrebufChunks
PrebufferMore(s) == IF s.filled < PrebufferLimit(s) THEN ReadData(s) ELSE {}
PrebufferEnd(s) ==
    IF s.filled < PrebufferLimit(s) THEN {ReadEnd(s)} \cup ReadError(s)
                                    ELSE {s}

-----------------------------------------------------------------------------
(* The consumer's side: the output device.                                 *)

SetBufferSf(s) == [s EXCEPT !.buffer_sf = Format[s.file]]

OpOpen(s) == [s EXCEPT !.device = "running", !.device_sf = s.buffer_sf]
OpClose(s) == [s EXCEPT !.device = "closed"]
OpPause(s) == [s EXCEPT !.device = "paused"]
OpUnpause(s) == [s EXCEPT !.device = "running"]

ConsumerPlay(s) ==
    CASE s.consumer_status = "playing" -> {s}
      [] s.consumer_status = "stopped" ->
            LET set == SetBufferSf(s)
            IN  {ConsumerStatusUpdate(OpOpen(set), "playing"), PlayerError(set)}
      [] s.consumer_status = "paused" ->
            {ConsumerStatusUpdate(OpUnpause(s), "playing")}

(* _consumer_stop and _consumer_drain_and_stop: they differ in op_drop,    *)
(* which throws away what the device has buffered.                         *)
ConsumerStop(s) ==
    IF s.consumer_status \in {"playing", "paused"}
    THEN ConsumerStatusUpdate(OpClose(s), "stopped")
    ELSE s

ConsumerPause(s) ==
    CASE s.consumer_status = "playing" ->
            ConsumerStatusUpdate(OpPause(s), "paused")
      [] s.consumer_status = "paused" ->
            ConsumerStatusUpdate(OpUnpause(s), "playing")
      [] OTHER -> s

(* Fault: the device is not reopened.                                      *)
ChangeSfKeepingDevice(s) ==
    {ConsumerStatusUpdate(
        IF s.consumer_status = "paused" THEN OpUnpause(SetBufferSf(s))
                                        ELSE SetBufferSf(s),
        "playing")}

(* change_sf: reopen the device when the new file has another format.      *)
ChangeSf(s) ==
    LET set == SetBufferSf(s)
    IN  IF set.buffer_sf # s.buffer_sf
        THEN {ConsumerStatusUpdate(OpOpen(OpClose(set)), "playing"),
              ProducerStop(ConsumerStatusUpdate(PlayerError(OpClose(set)),
                                                "stopped"))}
        ELSE {ConsumerStatusUpdate(
                IF s.consumer_status = "paused" THEN OpUnpause(set) ELSE set,
                "playing")}

(* The device is gone: op_buffer_space or op_write failed.                 *)
DeviceLost(s) == ConsumerStatusUpdate(OpClose(s), "stopped")

-----------------------------------------------------------------------------
(* Both sides together, under player_lock().                               *)

(* _producer_play, then _consumer_play or, when that fails, _producer_stop.*)
OpenDeviceOrStop(s) ==
    {IF c.consumer_status # "playing" THEN ProducerStop(c) ELSE c
        : c \in ConsumerPlay(s)}

StartPlayback(s) ==
    UNION {IF p.producer_status = "playing" THEN OpenDeviceOrStop(p) ELSE {p}
              : p \in ProducerPlay(s)}

Stop(s) == PlayerStatusChanged(ProducerStop(ConsumerStop(s)))

Play(s) ==
    IF s.producer_status = "playing" /\ IpIsRemote(s) THEN {s}
    ELSE {PlayerStatusChanged(IF p.producer_status = "playing" THEN p
                                                          ELSE ConsumerStop(p))
             : p \in StartPlayback(s)}

Pause(s) ==
    IF s.consumer_status = "stopped"
    THEN {PlayerStatusChanged(p) : p \in StartPlayback(s)}
    ELSE {PlayerStatusChanged(ConsumerPause(ProducerPause(s)))}

(* player_set_file and player_play_file, up to _prebuffer.  The first      *)
(* leaves a stopped player stopped, the second starts it.                  *)
LoadAndPlay(s, t) ==
    UNION {IF p.producer_status = "unloaded" THEN {ConsumerStop(p)}
           ELSE IF p.consumer_status = "stopped" THEN OpenDeviceOrStop(p)
           ELSE ChangeSf(p)
              : p \in ProducerPlay(ProducerSetFile(s, t))}

(* Fault: a stopped player starts.                                         *)
SetFileStarting(s, t) == {PlayerStatusChanged(p) : p \in LoadAndPlay(s, t)}

SetFile(s, t) ==
    {PlayerStatusChanged(p)
        : p \in IF s.consumer_status = "stopped" THEN {ProducerSetFile(s, t)}
                                                 ELSE LoadAndPlay(s, t)}

PlayFile(s, t) == {PlayerStatusChanged(p) : p \in LoadAndPlay(s, t)}

(* player_seek stops where the file ends: it may start playing, but the    *)
(* new position is computed and dropped.                                   *)
Seek(s) ==
    IF s.consumer_status = "stopped"
    THEN {IF p.consumer_status = "playing" THEN PlayerStatusChanged(p) ELSE p
             : p \in StartPlayback(s)}
    ELSE {s}

(* Fault: the error that ended the stream is not reported.                 *)
EofRemoteSilently(s) == ConsumerStop(ProducerStop(s))

(* _consumer_handle_eof without the next track: a lost stream, a repeated  *)
(* file, or the end of the only one.                                       *)
EofRemote(s) == PlayerError(ConsumerStop(ProducerStop(s)))

EofRepeat(s, cont) ==
    IF cont THEN {ResetBuffer(SeekStart(s)), ResetBuffer(s)}
            ELSE {Stop(s)}

(* _consumer_handle_eof once cmus_get_next_track has answered t, up to     *)
(* _prebuffer, or up to its end when the next file does not play.          *)
LoadNext(s, t) ==
    ProducerStatusUpdate(IpNew(ProducerUnload(s), t), "stopped")

PlayLoaded(s, t) ==
    UNION {IF p.producer_status = "unloaded"
           THEN {FileChanged(Unref(ConsumerStop(p), t), NoTrack)}
           ELSE ChangeSf(FileChanged(p, t)) : p \in PlayStopped(s)}

EofNext(s, t, cont) ==
    CASE t = NoTrack ->
            {PlayerStatusChanged(
                FileChanged(ConsumerStop(ProducerUnload(s)), NoTrack))}
      [] t # NoTrack /\ ~cont ->
            {PlayerStatusChanged(
                FileChanged(ConsumerStop(LoadNext(Ref(s, t), t)), t))}
      [] t # NoTrack /\ cont ->
            {IF p.producer_status = "playing" THEN p ELSE PlayerStatusChanged(p)
                : p \in PlayLoaded(LoadNext(Ref(s, t), t), t)}
=============================================================================
