--------------------------- MODULE TransportProofs ---------------------------
(***************************************************************************)
(* The player core implements the transport: Init gives its initial state, *)
(* and every step of a thread is one of its steps or a stutter.  The first *)
(* part says what the functions of player.c make of the status and the     *)
(* track; the second goes through the actions.                             *)
(***************************************************************************)
EXTENDS PlayerProofs, PlayerTransport

Track(s) == IF s.producer_status = "unloaded" THEN NoTrack ELSE s.file

(* What an attempt to play t may come to.                                  *)
Attempted(r, t) ==
    \/ r.consumer_status \in {"playing", "stopped"} /\ Track(r) = t
    \/ r.consumer_status = "stopped" /\ Track(r) = NoTrack

-----------------------------------------------------------------------------
(* The functions of player.c.                                              *)

(* _producer_stop keeps the track.                                         *)
LEMMA ProducerStopTrack ==
    ASSUME NEW s, ProducerInv(s)
    PROVE  Track(ProducerStop(s)) = Track(s)
<1>1. s \in State
  BY DEF ProducerInv
<1>2. CASE s.producer_status \in {"playing", "paused"}
  <2> DEFINE r == ProducerStop(s)
  <2>1. r.producer_status = "stopped" /\ r.file = s.file
    BY <1>2, ProducerStopLemma DEF ProducerActive
  <2> HIDE DEF r
  <2> QED
    BY <1>2, <2>1 DEF Track, r
<1>3. CASE s.producer_status \notin {"playing", "paused"}
  BY <1>3 DEF ProducerStop, Track
<1> QED
  BY <1>2, <1>3

(* player_play with a device that opens or not.                            *)
LEMMA OpenDeviceOrStopTrack ==
    ASSUME NEW s, StateInv(s), s.producer_status = "playing",
           NEW r \in OpenDeviceOrStop(s)
    PROVE  /\ Track(r) = s.file
           /\ r.consumer_status \in {"playing", "stopped"}
           /\ s.consumer_status # "stopped" => r.consumer_status = "playing"
<1>1. PICK c \in ConsumerPlay(s) :
         r = IF c.consumer_status # "playing" THEN ProducerStop(c) ELSE c
  BY DEF OpenDeviceOrStop
<1>2. /\ StateInv(c) /\ SameProducer(s, c)
      /\ c.consumer_status \in {"playing", "stopped"}
      /\ s.consumer_status # "stopped" => c.consumer_status = "playing"
  BY ConsumerPlayLemma
<1>3. Track(c) = s.file
  BY <1>2 DEF Track, SameProducer
<1>4. CASE c.consumer_status = "playing"
  BY <1>1, <1>2, <1>3, <1>4
<1>5. CASE c.consumer_status = "stopped"
  <2>1. r = ProducerStop(c)
    BY <1>1, <1>5
  <2>2. Track(r) = s.file
    BY <1>2, <1>3, <2>1, ProducerStopTrack DEF StateInv
  <2>3. r.consumer_status = "stopped"
    BY <1>2, <1>5, <2>1, ProducerStopLemma DEF StateInv, SameDevice
  <2> QED
    BY <1>2, <1>5, <2>2, <2>3
<1> QED
  BY <1>2, <1>4, <1>5

(* Starting the player, from a standstill or not.                          *)
LEMMA StartPlaybackTrack ==
    ASSUME NEW s, Settled(s), NEW r \in StartPlayback(s)
    PROVE  /\ s.consumer_status = "stopped" =>
                 \/ Track(s) # NoTrack /\ Attempted(r, Track(s))
                 \/ /\ Track(s) = NoTrack
                    /\ \/ r.consumer_status = "stopped" /\ Track(r) = NoTrack
                       \/ \E t \in Tracks : Attempted(r, t)
           /\ s.consumer_status # "stopped" =>
                 r.consumer_status = "playing" /\ Track(r) = Track(s)
<1>0. s.producer_status # "unloaded" => s.file \in Tracks
  BY DEF Settled, StateInv, ProducerInv, PluginInv
<1>1. PICK p \in ProducerPlay(s) :
         r \in IF p.producer_status = "playing" THEN OpenDeviceOrStop(p) ELSE {p}
  BY DEF StartPlayback
<1>2. /\ StateInv(p) /\ SameDevice(s, p)
      /\ p.producer_status \in {"playing", "unloaded"}
      /\ s.producer_status # "unloaded" => p.file = s.file
      /\ s.producer_status \in {"playing", "paused"} =>
            p.producer_status = "playing"
  BY StartableLemma
<1>3. p.producer_status = "playing" => p.file \in Tracks
  BY <1>2 DEF StateInv, ProducerInv, PluginInv
<1>4. p.consumer_status = s.consumer_status
  BY <1>2 DEF SameDevice
<1>5. NoTrack \notin Tracks
  BY TracksAssumption
<1>6. CASE p.producer_status = "playing"
  <2>1. /\ Track(r) = p.file /\ r.consumer_status \in {"playing", "stopped"}
        /\ s.consumer_status # "stopped" => r.consumer_status = "playing"
    BY <1>1, <1>2, <1>4, <1>6, OpenDeviceOrStopTrack
  <2>2. CASE s.producer_status = "unloaded"
    <3>1. s.consumer_status = "stopped"
      BY <2>2 DEF Settled, Agree, StateInv, ProducerInv, State, ConsumerStatuses
    <3> QED
      BY <1>3, <1>6, <2>1, <2>2, <3>1 DEF Track, Attempted
  <2>3. CASE s.producer_status # "unloaded"
    <3>1. Track(s) = p.file /\ p.file # NoTrack
      BY <1>0, <1>2, <1>5, <2>3 DEF Track
    <3> QED
      BY <2>1, <3>1 DEF Attempted
  <2> QED
    BY <2>2, <2>3
<1>7. CASE p.producer_status = "unloaded"
  <2>1. r = p /\ Track(r) = NoTrack
    BY <1>1, <1>7 DEF Track
  <2>2. s.consumer_status = "stopped"
    BY <1>2, <1>7 DEF Settled, Agree, StateInv, ProducerInv, State,
       ConsumerStatuses
  <2> QED
    BY <1>4, <2>1, <2>2 DEF Attempted
<1> QED
  BY <1>2, <1>6, <1>7

(* A report changes neither.                                               *)
LEMMA ReportTrack ==
    ASSUME NEW s \in State, NEW r \in {PlayerError(s), PlayerStatusChanged(s)}
    PROVE  Track(r) = Track(s) /\ r.consumer_status = s.consumer_status
BY DEF State, PlayerError, PlayerStatusChanged, Track

(* _consumer_stop stops the player, and keeps the track.                   *)
LEMMA ConsumerStopTrack ==
    ASSUME NEW s, ProducerInv(s), DeviceInv(s)
    PROVE  /\ ConsumerStop(s).consumer_status = "stopped"
           /\ Track(ConsumerStop(s)) = Track(s)
<1> DEFINE c == ConsumerStop(s)
<1>1. SameProducer(s, c) /\ c.consumer_status = "stopped"
  BY ConsumerStopLemma
<1> HIDE DEF c
<1>2. Track(c) = Track(s)
  BY <1>1 DEF SameProducer, Track
<1> QED
  BY <1>1, <1>2 DEF c

(* player_stop.                                                            *)
LEMMA StopTrack ==
    ASSUME NEW s, StateInv(s)
    PROVE  Stop(s).consumer_status = "stopped" /\ Track(Stop(s)) = Track(s)
<1> DEFINE c == ConsumerStop(s)
           p == ProducerStop(c)
<1>1. StateInv(c) /\ c.consumer_status = "stopped" /\ Track(c) = Track(s)
  BY ConsumerStopLemma, ConsumerStopTrack DEF StateInv
<1> HIDE DEF c
<1>2. p \in State /\ p.consumer_status = "stopped" /\ Track(p) = Track(s)
  BY <1>1, ProducerStopLemma, ProducerStopTrack
     DEF StateInv, ProducerInv, SameDevice
<1> HIDE DEF p
<1>3. Stop(s) = PlayerStatusChanged(p)
  BY DEF Stop, c, p
<1> QED
  BY <1>2, <1>3, ReportTrack

(* player_pause of a player that is not stopped.                           *)
LEMMA PauseTrack ==
    ASSUME NEW s, Settled(s), s.consumer_status # "stopped", NEW r \in Pause(s)
    PROVE  /\ Track(r) = Track(s)
           /\ s.consumer_status = "playing" => r.consumer_status = "paused"
           /\ s.consumer_status = "paused" => r.consumer_status = "playing"
<1> DEFINE p == ProducerPause(s)
           c == ConsumerPause(p)
<1>1. s \in State
  BY DEF Settled, StateInv, ProducerInv
<1>2. p \in State /\ p.consumer_status = s.consumer_status /\ Track(p) = Track(s)
  <2>1. p \in State
    BY <1>1, ProducerStatusUpdateType DEF ProducerPause, ProducerStatuses
  <2>2. p.consumer_status = s.consumer_status /\ p.file = s.file
    BY <1>1 DEF State, ProducerPause, ProducerStatusUpdate
  <2>3. p.producer_status = "unloaded" <=> s.producer_status = "unloaded"
    BY <1>1 DEF State, ProducerPause, ProducerStatusUpdate
  <2> HIDE DEF p
  <2> QED
    BY <2>1, <2>2, <2>3 DEF Track
<1> HIDE DEF p
<1>3. /\ c \in State /\ Track(c) = Track(p)
      /\ p.consumer_status = "playing" => c.consumer_status = "paused"
      /\ p.consumer_status = "paused" => c.consumer_status = "playing"
  <2>1. c \in State
    BY <1>2, ConsumerStatusUpdateType, DeviceType
       DEF ConsumerPause, ConsumerStatuses
  <2>2. /\ c.producer_status = p.producer_status /\ c.file = p.file
        /\ p.consumer_status = "playing" => c.consumer_status = "paused"
        /\ p.consumer_status = "paused" => c.consumer_status = "playing"
    BY <1>2 DEF State, ConsumerPause, ConsumerStatusUpdate, OpPause, OpUnpause
  <2> HIDE DEF c
  <2> QED
    BY <2>1, <2>2 DEF Track
<1> HIDE DEF c
<1>4. r = PlayerStatusChanged(c)
  BY DEF Pause, c, p
<1> QED
  BY <1>2, <1>3, <1>4, ReportTrack

(* change_sf keeps the file, and plays or stops.                           *)
LEMMA ChangeSfTrack ==
    ASSUME NEW s, ProducerInv(s), DeviceInv(s), s.consumer_status # "stopped",
           s.producer_status = "playing", NEW r \in ChangeSf(s)
    PROVE  Attempted(r, s.file)
<1>0. s \in State /\ s.file \in Tracks
  BY DEF ProducerInv, PluginInv
<1>1. BothPlaying(r) \/ BothStopped(r)
  BY ChangeSfLemma
<1>2. r.file = s.file
  <2> DEFINE set == SetBufferSf(s)
             shut == OpClose(set)
             q == ConsumerStatusUpdate(PlayerError(shut), "stopped")
  <2>1. set \in State /\ set.file = s.file
    BY <1>0, SetBufferSfType DEF State, SetBufferSf
  <2>2. \/ r = ConsumerStatusUpdate(OpOpen(shut), "playing")
        \/ r = ProducerStop(q)
        \/ r = ConsumerStatusUpdate(OpUnpause(set), "playing")
        \/ r = ConsumerStatusUpdate(set, "playing")
    BY DEF ChangeSf
  <2> HIDE DEF set
  <2>3. shut \in State /\ shut.file = s.file
    BY <2>1, DeviceType DEF State, OpClose
  <2> HIDE DEF shut
  <2>4. q \in State /\ q.file = s.file
    BY <2>3, PlayerErrorType, ConsumerStatusUpdateType
       DEF State, ConsumerStatuses, ConsumerStatusUpdate, PlayerError
  <2> HIDE DEF q
  <2>5. CASE r = ConsumerStatusUpdate(OpOpen(shut), "playing")
    BY <2>3, <2>5 DEF State, ConsumerStatusUpdate, OpOpen
  <2>6. CASE r = ProducerStop(q)
    BY <2>4, <2>6 DEF State, ProducerStop, ResetBuffer, ProducerStatusUpdate,
       IpClose
  <2>7. CASE r \in {ConsumerStatusUpdate(OpUnpause(set), "playing"),
                    ConsumerStatusUpdate(set, "playing")}
    BY <2>1, <2>7 DEF State, ConsumerStatusUpdate, OpUnpause
  <2> QED
    BY <2>2, <2>5, <2>6, <2>7
<1> QED
  BY <1>1, <1>2 DEF BothPlaying, BothStopped, Attempted, Track
(* player_play_file and player_set_file, up to _prebuffer.                 *)
LEMMA LoadAndPlayTrack ==
    ASSUME NEW s, Settled(s), NEW t \in Tracks, NEW r \in LoadAndPlay(s, t)
    PROVE  Attempted(r, t)
<1> DEFINE l == ProducerSetFile(s, t)
<1>1. /\ ProducerInv(l) /\ SameDevice(s, l)
      /\ l.file = t /\ l.producer_status = "stopped"
  BY ProducerSetFileLemma DEF Settled, StateInv
<1> HIDE DEF l
<1>2. PICK p \in ProducerPlay(l) :
         r \in IF p.producer_status = "unloaded" THEN {ConsumerStop(p)}
               ELSE IF p.consumer_status = "stopped" THEN OpenDeviceOrStop(p)
               ELSE ChangeSf(p)
  BY DEF LoadAndPlay, l
<1>3. /\ ProducerInv(p) /\ SameDevice(l, p) /\ p.file = t
      /\ p.producer_status \in {"playing", "unloaded"} /\ DeviceInv(p)
  BY <1>1, ProducerPlayLemma, SameDeviceInv DEF Settled, StateInv
<1>4. CASE p.producer_status = "unloaded"
  BY <1>2, <1>3, <1>4, ConsumerStopTrack DEF Attempted, Track
<1>5. CASE p.producer_status = "playing" /\ p.consumer_status = "stopped"
  <2>1. StateInv(p)
    BY <1>3, <1>5 DEF StateInv, DeviceInv, FormatInv
  <2> QED
    BY <1>2, <1>3, <1>5, <2>1, OpenDeviceOrStopTrack DEF Attempted
<1>6. CASE p.producer_status = "playing" /\ p.consumer_status # "stopped"
  BY <1>2, <1>3, <1>6, ChangeSfTrack
<1> QED
  BY <1>3, <1>4, <1>5, <1>6

(* player_play_file, and player_set_file of a player that is not stopped.  *)
LEMMA PlayFileTrack ==
    ASSUME NEW s, Settled(s), NEW t \in Tracks, NEW r \in PlayFile(s, t)
    PROVE  Attempted(r, t)
<1>1. PICK p \in LoadAndPlay(s, t) : r = PlayerStatusChanged(p)
  BY DEF PlayFile
<1>2. p \in State
  BY LoadAndPlayLemma DEF Settled, StateInv, ProducerInv
<1> QED
  BY <1>1, <1>2, LoadAndPlayTrack, ReportTrack DEF Attempted

(* player_set_file loads the track if stopped, and else tries to play it.  *)
LEMMA SetFileTrack ==
    ASSUME NEW s, Settled(s), NEW t \in Tracks, NEW r \in SetFile(s, t)
    PROVE  /\ s.consumer_status = "stopped" =>
                 r.consumer_status = "stopped" /\ Track(r) = t
           /\ s.consumer_status # "stopped" => Attempted(r, t)
<1>1. CASE s.consumer_status = "stopped"
  <2> DEFINE l == ProducerSetFile(s, t)
  <2>1. /\ l \in State /\ l.consumer_status = "stopped"
        /\ l.file = t /\ l.producer_status = "stopped"
    BY <1>1, ProducerSetFileLemma
       DEF Settled, StateInv, ProducerInv, SameDevice
  <2>2. r = PlayerStatusChanged(l)
    BY <1>1 DEF SetFile
  <2> HIDE DEF l
  <2> QED
    BY <1>1, <2>1, <2>2, ReportTrack DEF Track
<1>2. CASE s.consumer_status # "stopped"
  BY <1>2, PlayFileTrack DEF SetFile, PlayFile
<1> QED
  BY <1>1, <1>2

(* player_play and player_seek of a player that is not stopped.            *)
LEMMA PlayTrack ==
    ASSUME NEW s, Settled(s), s.consumer_status # "stopped", NEW r \in Play(s)
    PROVE  r.consumer_status = "playing" /\ Track(r) = Track(s)
<1>1. CASE s.producer_status = "playing" /\ IpIsRemote(s)
  <2>1. r = s
    BY <1>1 DEF Play
  <2>2. s.consumer_status \in {"playing", "paused"}
    BY DEF Settled, StateInv, ProducerInv, State, ConsumerStatuses
  <2> QED
    BY <1>1, <2>1, <2>2 DEF Settled, Agree
<1>2. CASE ~(s.producer_status = "playing" /\ IpIsRemote(s))
  <2>1. PICK p \in StartPlayback(s) :
           r = PlayerStatusChanged(IF p.producer_status = "playing" THEN p
                                                              ELSE ConsumerStop(p))
    BY <1>2 DEF Play
  <2>2. p.consumer_status = "playing" /\ Track(p) = Track(s)
    BY StartPlaybackTrack
  <2>3. Settled(p) /\ p.producer_status = "playing" /\ p \in State
    BY <2>2, StartPlaybackLemma
       DEF Settled, Agree, StateInv, ProducerInv, BothPlaying, BothStopped
  <2> QED
    BY <2>1, <2>2, <2>3, ReportTrack
<1> QED
  BY <1>1, <1>2

(* Starting a stopped player, by any of the three functions that do it.    *)
Started(s, r) ==
    \/ Track(s) # NoTrack /\ Attempted(r, Track(s))
    \/ /\ Track(s) = NoTrack
       /\ \/ r.consumer_status = "stopped" /\ Track(r) = NoTrack
          \/ \E t \in Tracks : Attempted(r, t)

(* From stopped, play, pause and seek start the loaded track or fail.      *)
LEMMA StartTrack ==
    ASSUME NEW s, Settled(s), s.consumer_status = "stopped",
           NEW r \in Play(s) \cup Pause(s) \cup Seek(s)
    PROVE  Started(s, r)
<1>1. CASE \E p \in StartPlayback(s) :
              r \in {p, PlayerStatusChanged(p), PlayerStatusChanged(ConsumerStop(p))}
  <2>1. PICK p \in StartPlayback(s) :
           r \in {p, PlayerStatusChanged(p), PlayerStatusChanged(ConsumerStop(p))}
    BY <1>1
  <2>2. Settled(p) /\ p \in State /\ Started(s, p)
    BY StartPlaybackLemma, StartPlaybackTrack
       DEF Settled, StateInv, ProducerInv, Started
  <2>3. /\ ConsumerStop(p) \in State
        /\ ConsumerStop(p).consumer_status = "stopped"
        /\ Track(ConsumerStop(p)) = Track(p)
    BY <2>2, ConsumerStopLemma, ConsumerStopTrack
       DEF Settled, StateInv, ProducerInv
  <2>4. /\ Track(r) = Track(p)
        /\ r.consumer_status \in {p.consumer_status, "stopped"}
    BY <2>1, <2>2, <2>3, ReportTrack
  <2> QED
    BY <2>2, <2>4 DEF Started, Attempted
<1>2. CASE r = s /\ s.producer_status = "playing"
  <2>1. Track(s) = s.file /\ s.file # NoTrack
    BY <1>2, TracksAssumption
       DEF Track, Settled, StateInv, ProducerInv, PluginInv
  <2> QED
    BY <1>2, <2>1 DEF Started, Attempted
<1> QED
  BY <1>1, <1>2 DEF Play, Pause, Seek

-----------------------------------------------------------------------------
(* The end of a file.                                                      *)

(* The same file again, or the end of the only one.                        *)
LEMMA EofTrack ==
    ASSUME NEW s, Settled(s), BothPlaying(s), NEW cont \in BOOLEAN,
           NEW r \in {EofRemote(s)} \cup EofRepeat(s, cont)
    PROVE  Attempted(r, Track(s))
<1>0. s \in State /\ StateInv(s)
  BY DEF Settled, StateInv, ProducerInv
<1>1. CASE r = EofRemote(s)
  <2> DEFINE p == ProducerStop(s)
             c == ConsumerStop(p)
  <2>1. ProducerInv(p) /\ SameDevice(s, p) /\ Track(p) = Track(s)
    BY <1>0, ProducerStopLemma, ProducerStopTrack DEF StateInv
  <2>2. DeviceInv(p)
    BY <1>0, <2>1, SameDeviceInv DEF StateInv
  <2> HIDE DEF p
  <2>3. c \in State /\ c.consumer_status = "stopped" /\ Track(c) = Track(s)
    BY <2>1, <2>2, ConsumerStopLemma, ConsumerStopTrack DEF StateInv, ProducerInv
  <2> HIDE DEF c
  <2>4. r = PlayerError(c)
    BY <1>1 DEF EofRemote, c, p
  <2> QED
    BY <2>3, <2>4, ReportTrack DEF Attempted
<1>2. CASE r \in {ResetBuffer(SeekStart(s)), ResetBuffer(s)}
  <2>1. /\ r.consumer_status = s.consumer_status /\ r.file = s.file
        /\ r.producer_status = s.producer_status
    BY <1>0, <1>2 DEF State, ResetBuffer, SeekStart
  <2> QED
    BY <2>1 DEF Attempted, Track, BothPlaying
<1>3. CASE r = Stop(s)
  BY <1>0, <1>3, StopTrack DEF Attempted
<1> QED
  BY <1>1, <1>2, <1>3 DEF EofRepeat

(* file_changed and the references change neither status nor track.        *)
LEMMA ShowTrack ==
    ASSUME NEW s \in State, NEW t \in Tracks \cup {NoTrack},
           NEW r \in {FileChanged(s, t), Ref(s, t), Unref(s, t)}
    PROVE  Track(r) = Track(s) /\ r.consumer_status = s.consumer_status
<1>1. /\ r.producer_status = s.producer_status /\ r.file = s.file
      /\ r.consumer_status = s.consumer_status
  BY DEF State, FileChanged, Ref, Unref
<1> QED
  BY <1>1 DEF Track

(* Another file in the place of the old, and its start.                    *)
LEMMA PlayLoadedTrack ==
    ASSUME NEW s, ProducerInv(s), DeviceInv(s), s.producer_status = "stopped",
           s.consumer_status = "playing", NEW t \in Tracks, s.file = t,
           NEW r \in PlayLoaded(s, t)
    PROVE  Attempted(r, t)
<1>1. PICK p \in PlayStopped(s) :
         r \in IF p.producer_status = "unloaded"
               THEN {FileChanged(Unref(ConsumerStop(p), t), NoTrack)}
               ELSE ChangeSf(FileChanged(p, t))
  BY DEF PlayLoaded
<1>2. /\ ProducerInv(p) /\ SameDevice(s, p) /\ p.file = t
      /\ p.producer_status \in {"playing", "unloaded"} /\ DeviceInv(p)
      /\ p \in State
  BY PlayStoppedLemma, SameDeviceInv DEF ProducerInv
<1>3. CASE p.producer_status = "unloaded"
  <2> DEFINE c == ConsumerStop(p)
  <2>1. c \in State /\ c.consumer_status = "stopped" /\ Track(c) = NoTrack
    BY <1>2, <1>3, ConsumerStopLemma, ConsumerStopTrack
       DEF StateInv, ProducerInv, Track
  <2>2. r = FileChanged(Unref(c, t), NoTrack)
    BY <1>1, <1>3
  <2> HIDE DEF c
  <2>3. Unref(c, t) \in State
    BY <2>1, RefType
  <2> QED
    BY <2>1, <2>2, <2>3, ShowTrack DEF Attempted
<1>4. CASE p.producer_status = "playing"
  <2> DEFINE f == FileChanged(p, t)
  <2>1. ProducerInv(f) /\ SameDevice(p, f) /\ SameProducer(p, f)
    <3>1. f \in State
      BY <1>2, FileChangedType
    <3>2. SameDevice(p, f) /\ SameProducer(p, f)
      BY <1>2 DEF State, FileChanged, Unref, SameDevice, SameProducer
    <3> QED
      BY <1>2, <3>1, <3>2, SameProducerInv
  <2>2. r \in ChangeSf(f)
    BY <1>1, <1>4
  <2> HIDE DEF f
  <2>3. /\ DeviceInv(f) /\ f.consumer_status # "stopped" /\ f.file = t
        /\ f.producer_status = "playing"
    BY <1>2, <1>4, <2>1, SameDeviceInv DEF SameDevice, SameProducer
  <2> QED
    BY <2>1, <2>2, <2>3, ChangeSfTrack
<1> QED
  BY <1>2, <1>3, <1>4

(* _consumer_handle_eof once cmus_get_next_track() has answered.           *)
LEMMA EofNextTrack ==
    ASSUME NEW s, Settled(s), BothPlaying(s),
           NEW t \in Tracks \cup {NoTrack}, NEW cont \in BOOLEAN,
           NEW r \in EofNext(s, t, cont)
    PROVE  \E x \in Tracks : Attempted(r, x)
<1>0. ProducerInv(s) /\ DeviceInv(s) /\ s.file \in Tracks
  BY DEF Settled, StateInv, ProducerInv, PluginInv, BothPlaying
<1>1. CASE t = NoTrack
  <2> DEFINE u == ProducerUnload(s)
             c == ConsumerStop(u)
             f == FileChanged(c, NoTrack)
  <2>1. ProducerInv(u) /\ DeviceInv(u) /\ u.producer_status = "unloaded"
    BY <1>0, ProducerUnloadLemma, SameDeviceInv
  <2> HIDE DEF u
  <2>2. c \in State /\ c.consumer_status = "stopped" /\ Track(c) = NoTrack
    BY <2>1, ConsumerStopLemma, ConsumerStopTrack
       DEF StateInv, ProducerInv, Track
  <2> HIDE DEF c
  <2>3. f \in State /\ f.consumer_status = "stopped" /\ Track(f) = NoTrack
    BY <2>2, FileChangedType, ShowTrack
  <2> HIDE DEF f
  <2>4. r = PlayerStatusChanged(f)
    BY <1>1 DEF EofNext, f, c, u
  <2> QED
    BY <1>0, <2>3, <2>4, ReportTrack DEF Attempted
<1>2. CASE t # NoTrack
  <2> DEFINE l == LoadNext(Ref(s, t), t)
  <2>1. /\ ProducerInv(l) /\ DeviceInv(l) /\ l.consumer_status = "playing"
        /\ l.file = t /\ l.producer_status = "stopped" /\ t \in Tracks
    <3>1. ProducerInv(Ref(s, t)) /\ SameDevice(s, Ref(s, t)) /\ t \in Tracks
      BY <1>0, <1>2, RefLemma
    <3>2. /\ ProducerInv(l) /\ SameDevice(Ref(s, t), l)
          /\ l.file = t /\ l.producer_status = "stopped"
      BY <3>1, LoadNextLemma
    <3>3. SameDevice(s, l) /\ l.consumer_status = "playing"
      BY <3>1, <3>2 DEF SameDevice, BothPlaying
    <3> QED
      BY <1>0, <3>1, <3>2, <3>3, SameDeviceInv
  <2>2. /\ ~cont => r = PlayerStatusChanged(FileChanged(ConsumerStop(l), t))
        /\ cont => \E p \in PlayLoaded(l, t) : r = p \/ r = PlayerStatusChanged(p)
    BY <1>2 DEF EofNext
  <2> HIDE DEF l
  <2>3. CASE ~cont
    <3> DEFINE c == ConsumerStop(l)
               f == FileChanged(c, t)
    <3>1. c \in State /\ c.consumer_status = "stopped" /\ Track(c) = t
      BY <2>1, ConsumerStopLemma, ConsumerStopTrack
         DEF StateInv, ProducerInv, Track
    <3> HIDE DEF c
    <3>2. f \in State /\ f.consumer_status = "stopped" /\ Track(f) = t
      BY <3>1, FileChangedType, ShowTrack
    <3> HIDE DEF f
    <3>3. r = PlayerStatusChanged(f)
      BY <2>2, <2>3 DEF f, c
    <3> QED
      BY <2>1, <3>2, <3>3, ReportTrack DEF Attempted
  <2>4. CASE cont
    <3>1. PICK p \in PlayLoaded(l, t) : r = p \/ r = PlayerStatusChanged(p)
      BY <2>2, <2>4
    <3>2. Attempted(p, t) /\ p \in State
      BY <2>1, <3>1, PlayLoadedTrack, PlayLoadedLemma
         DEF Settled, StateInv, ProducerInv
    <3> QED
      BY <2>1, <3>1, <3>2, ReportTrack DEF Attempted
  <2> QED
    BY <2>3, <2>4
<1> QED
  BY <1>1, <1>2
-----------------------------------------------------------------------------
(* The steps.                                                              *)

Seen == <<SeenStatus, SeenTrack, SeenPlayed, SeenRequest, running>>

TransportStep == [Transport!TransportNext]_(Transport!transport_vars)

(* The track that is seen is that of the record.                           *)
LEMMA SeenTrackIs == SeenTrack = Track(pl)
BY DEF SeenTrack, Track

(* A step that leaves alone what Transport shows is no step of it.         *)
LEMMA StutterStep ==
    ASSUME UNCHANGED Seen
    PROVE  TransportStep
BY DEF Seen, TransportStep, Transport!transport_vars

(* A step that changes at most how much there is to play.                  *)
LEMMA SoundStep ==
    ASSUME UNCHANGED <<SeenStatus, SeenTrack, SeenRequest, running>>
    PROVE  TransportStep
BY DEF SeenPlayed, TransportStep, Transport!TransportNext, Transport!Sound

(* A read, or a chunk that the device took.                                *)
LEMMA SameSeen ==
    ASSUME UNCHANGED <<cons, main, call, running>>,
           SameDevice(pl, pl'), SameStatuses(pl, pl')
    PROVE  TransportStep
<1>1. UNCHANGED <<SeenStatus, SeenTrack, SeenRequest>>
  BY DEF SameDevice, SameStatuses, SeenStatus, SeenTrack, SeenRequest
<1> QED
  BY <1>1, SoundStep

(* The main thread asks.                                                   *)
LEMMA AskStep ==
    ASSUME main \in {"idle", "checked"}, UNCHANGED <<pl, cons, running>>,
           main' = "lock_c", call' \in Transport!Requests
    PROVE  TransportStep
<1>1. UNCHANGED <<SeenStatus, SeenTrack, SeenPlayed>>
  BY DEF SeenStatus, SeenTrack, SeenPlayed
<1>2. SeenRequest = NoCall /\ SeenRequest' = call'
  BY DEF SeenRequest
<1> QED
  BY <1>1, <1>2 DEF TransportStep, Transport!TransportNext, Transport!Ask,
     Transport!None, NoCall

(* The begin of a call is what Transport sees as a request.                *)
LEMMA BeginStep ==
    ASSUME CallDirect \/ CallPause \/ CallPausePlayback
    PROVE  TransportStep
<1>1. CASE CallDirect
  <2>1. call' \in Transport!Requests
    <3>1. PICK op \in Calls \ {"pause", "pause_playback"} :
             \/ /\ op \notin {"set_file", "play_file"}
                /\ call' = [op |-> op, ti |-> NoTrack]
             \/ /\ op \in {"set_file", "play_file"}
                /\ \E t \in Tracks : call' = [op |-> op, ti |-> t]
      BY <1>1 DEF CallDirect, BeginCall
    <3>2. op \in AllCalls \ {"pause", "pause_playback"}
      BY CallsAssumption
    <3>3. CASE op \in {"set_file", "play_file"}
      BY <3>1, <3>3 DEF Transport!Requests
    <3>4. CASE op \in {"play", "stop", "seek", "exit"}
      BY <3>1, <3>4 DEF Transport!Requests
    <3> QED
      BY <3>2, <3>3, <3>4 DEF AllCalls
  <2>2. main = "idle" /\ main' = "lock_c" /\ UNCHANGED <<pl, cons, running>>
    BY <1>1 DEF CallDirect, BeginCall
  <2> QED
    BY <2>1, <2>2, AskStep
<1>2. CASE CallPause
  <2>1. call' \in {[op |-> o, ti |-> NoTrack] : o \in {"stop", "pause"}}
    BY <1>2 DEF CallPause, PauseCheck, BeginCall
  <2>2. /\ main \in {"idle", "checked"} /\ main' = "lock_c"
        /\ UNCHANGED <<pl, cons, running>>
    BY <1>2 DEF CallPause, PauseCheck, BeginCall
  <2> QED
    BY <2>1, <2>2, AskStep DEF Transport!Requests
<1>3. CASE CallPausePlayback
  <2>1. UNCHANGED Seen
    BY <1>3 DEF CallPausePlayback, Seen, SeenStatus, SeenTrack, SeenPlayed,
       SeenRequest
  <2> QED
    BY <2>1, StutterStep
<1> QED
  BY <1>1, <1>2, <1>3

(* A call with both mutexes is what the command asks for, whatever the     *)
(* threads have done since it began.                                       *)
LEMMA ObeyStep ==
    ASSUME main = "lock_p", main' \notin {"lock_c", "lock_p"},
           call.op \in AllCalls \ {"exit", "pause_playback"},
           running, running', cons # "reopen", cons' # "reopen",
           Transport!Obey
    PROVE  TransportStep
<1>1. SeenRequest = call /\ SeenRequest' = NoCall
  BY DEF SeenRequest
<1>2. SeenRequest.op # "none" /\ SeenRequest.op # "exit"
  BY <1>1 DEF AllCalls
<1>3. SeenRequest # Transport!None
  BY <1>2 DEF Transport!None
<1>4. Transport!Execute
  BY <1>1, <1>2, <1>3 DEF Transport!Execute, Transport!None, NoCall, SeenPlayed
<1> QED
  BY <1>4 DEF TransportStep, Transport!TransportNext

(* What is seen of an attempt to play t.                                   *)
LEMMA AttemptSeen ==
    ASSUME cons' # "reopen", NEW t, Attempted(pl', t)
    PROVE  Transport!Loaded(t)
<1>1. SeenStatus' = pl'.consumer_status /\ SeenTrack' = Track(pl')
  BY DEF SeenStatus, SeenTrack, Track
<1> QED
  BY <1>1 DEF Attempted, Transport!Loaded

(* A start of the player is the Start of Transport.                        *)
LEMMA StartedSeen ==
    ASSUME cons' # "reopen", Started(pl, pl')
    PROVE  Transport!Start
<1>1. SeenStatus' = pl'.consumer_status /\ SeenTrack' = Track(pl')
  BY DEF SeenStatus, SeenTrack, Track
<1>2. SeenTrack = Track(pl)
  BY SeenTrackIs
<1> QED
  BY <1>1, <1>2, AttemptSeen DEF Started, Transport!Start, Transport!Becomes

(* Each function the main thread runs is one step or none.                 *)
LEMMA RunCallStep ==
    ASSUME IInv, RunCall \/ RunSeek
    PROVE  TransportStep
<1>1. /\ main = "lock_p" /\ pmutex = "free" /\ UNCHANGED <<cons, running>>
      /\ main' \notin {"lock_c", "lock_p"}
      /\ call.op \in AllCalls \ {"exit", "pause_playback"}
  BY DEF RunCall, RunSeek, Unlock, HoldFor, AllCalls
<1>2. Settled(pl) /\ running /\ running' /\ cons # "reopen" /\ cons' # "reopen"
  BY <1>1, MainAlone DEF HoldsConsumer
<1>3. /\ SeenStatus = pl.consumer_status /\ SeenTrack = Track(pl)
      /\ SeenStatus' = pl'.consumer_status /\ SeenTrack' = Track(pl')
      /\ SeenRequest = call
  BY <1>1, <1>2 DEF SeenStatus, SeenTrack, Track, SeenRequest
<1>4. pl.consumer_status \in {"stopped", "playing", "paused"}
  BY <1>2 DEF Settled, StateInv, ProducerInv, State, ConsumerStatuses
<1>5. CASE RunSeek
  <2>1. call.op = "seek" /\ pl' \in Seek(pl)
    BY <1>5 DEF RunSeek
  <2>2. CASE pl.consumer_status = "stopped"
    <3>1. Transport!Start
      BY <1>2, <2>1, <2>2, StartTrack, StartedSeen
    <3>2. Transport!Obey
      BY <1>3, <2>1, <2>2, <3>1 DEF Transport!Obey
    <3> QED
      BY <1>1, <1>2, <3>2, ObeyStep
  <2>3. CASE pl.consumer_status # "stopped"
    <3>1. UNCHANGED pl
      BY <2>1, <2>3 DEF Seek
    <3>2. Transport!Becomes(SeenStatus)
      BY <1>3, <3>1 DEF Transport!Becomes
    <3>3. Transport!Obey
      BY <1>3, <2>1, <2>3, <3>2 DEF Transport!Obey
    <3> QED
      BY <1>1, <1>2, <3>3, ObeyStep
  <2> QED
    BY <2>2, <2>3
<1>6. CASE RunCall
  <2>1. pl' \in CallBody(pl)
    BY <1>6 DEF RunCall
  <2>2. CASE call.op = "stop"
    <3>1. pl' = Stop(pl)
      BY <2>1, <2>2 DEF CallBody
    <3>2. Transport!Becomes("stopped")
      BY <1>2, <1>3, <3>1, StopTrack DEF Settled, Transport!Becomes
    <3>3. Transport!Obey
      BY <1>3, <2>2, <3>2 DEF Transport!Obey
    <3> QED
      BY <1>1, <1>2, <3>3, ObeyStep
  <2>3. CASE call.op \in {"play", "pause"} /\ pl.consumer_status = "stopped"
    <3>1. pl' \in Play(pl) \cup Pause(pl)
      BY <2>1, <2>3 DEF CallBody
    <3>2. Transport!Start
      BY <1>2, <2>3, <3>1, StartTrack, StartedSeen
    <3>3. Transport!Obey
      BY <1>3, <2>3, <3>2 DEF Transport!Obey
    <3> QED
      BY <1>1, <1>2, <3>3, ObeyStep
  <2>4. CASE call.op = "play" /\ pl.consumer_status # "stopped"
    <3>1. pl' \in Play(pl)
      BY <2>1, <2>4 DEF CallBody
    <3>2. Transport!Becomes("playing")
      BY <1>2, <1>3, <2>4, <3>1, PlayTrack DEF Transport!Becomes
    <3>3. Transport!Obey
      BY <1>3, <2>4, <3>2 DEF Transport!Obey
    <3> QED
      BY <1>1, <1>2, <3>3, ObeyStep
  <2>5. CASE call.op = "pause" /\ pl.consumer_status # "stopped"
    <3>1. pl' \in Pause(pl)
      BY <2>1, <2>5 DEF CallBody
    <3>2. /\ pl.consumer_status = "playing" => Transport!Becomes("paused")
          /\ pl.consumer_status = "paused" => Transport!Becomes("playing")
      BY <1>2, <1>3, <2>5, <3>1, PauseTrack DEF Transport!Becomes
    <3>3. Transport!Obey
      BY <1>3, <1>4, <2>5, <3>2 DEF Transport!Obey
    <3> QED
      BY <1>1, <1>2, <3>3, ObeyStep
  <2>6. CASE call.op = "set_file"
    <3>1. pl' \in SetFile(pl, call.ti) /\ call.ti \in Tracks
      BY <2>1, <2>6 DEF CallBody, IInv, LockInv
    <3>2. /\ pl.consumer_status = "stopped" =>
                SeenStatus' = "stopped" /\ SeenTrack' = call.ti
          /\ pl.consumer_status # "stopped" => Transport!Loaded(call.ti)
      BY <1>2, <1>3, <3>1, SetFileTrack, AttemptSeen
    <3>3. Transport!Obey
      BY <1>3, <2>6, <3>2 DEF Transport!Obey
    <3> QED
      BY <1>1, <1>2, <3>3, ObeyStep
  <2>7. CASE call.op = "play_file"
    <3>1. pl' \in PlayFile(pl, call.ti) /\ call.ti \in Tracks
      BY <2>1, <2>7 DEF CallBody, IInv, LockInv
    <3>2. Transport!Loaded(call.ti)
      BY <1>2, <3>1, PlayFileTrack, AttemptSeen
    <3>3. Transport!Obey
      BY <1>3, <2>7, <3>2 DEF Transport!Obey
    <3> QED
      BY <1>1, <1>2, <3>3, ObeyStep
  <2> QED
    BY <1>6, <2>2, <2>3, <2>4, <2>5, <2>6, <2>7 DEF RunCall, AllCalls
<1> QED
  BY <1>5, <1>6
(* player_exit.                                                            *)
LEMMA RunExitStep ==
    ASSUME IInv, RunExit
    PROVE  TransportStep
<1>1. /\ main = "lock_p" /\ pmutex = "free" /\ UNCHANGED <<cons, call>>
      /\ main' = "join" /\ call.op = "exit" /\ running' = FALSE
      /\ pl' = [pl EXCEPT !.waiting = {}]
  BY DEF RunExit, WakeBoth
<1>2. pl \in State /\ cons # "reopen"
  BY <1>1, MainAlone DEF Settled, StateInv, ProducerInv, HoldsConsumer
<1>3. UNCHANGED <<SeenStatus, SeenTrack>>
  <2>1. /\ pl'.consumer_status = pl.consumer_status /\ pl'.file = pl.file
        /\ pl'.producer_status = pl.producer_status
    BY <1>1, <1>2 DEF State
  <2> QED
    BY <1>1, <2>1 DEF SeenStatus, SeenTrack
<1>4. SeenRequest = call /\ SeenRequest' = NoCall
  BY <1>1 DEF SeenRequest
<1>5. SeenRequest.op = "exit" /\ SeenRequest # Transport!None
  BY <1>1, <1>4 DEF Transport!None
<1>6. Transport!Becomes(SeenStatus)
  BY <1>3 DEF Transport!Becomes
<1>7. Transport!Obey
  BY <1>5, <1>6 DEF Transport!Obey
<1>8. Transport!Execute
  BY <1>1, <1>4, <1>5, <1>7
     DEF Transport!Execute, Transport!None, NoCall, SeenPlayed
<1> QED
  BY <1>8 DEF TransportStep, Transport!TransportNext

(* The steps that leave the record and what it means as they are.          *)
LEMMA HiddenStep ==
    ASSUME LockConsumer \/ Join \/ ProvideNextTrack \/ ConsumerWrite
           \/ ConsumerStarved \/ Terminated
    PROVE  TransportStep
<1>1. /\ UNCHANGED <<pl, running>>
      /\ \/ UNCHANGED cons
         \/ cons # "reopen" /\ cons' # "reopen"
      /\ \/ UNCHANGED <<main, call>>
         \/ main = "lock_c" /\ main' = "lock_p" /\ UNCHANGED call
         \/ main = "join" /\ main' = "done"
  BY DEF LockConsumer, Join, ProvideNextTrack, ConsumerWrite, ConsumerStarved,
     ConsumerUnlock, AfterSleep, Terminated, vars
<1>2. UNCHANGED Seen
  BY <1>1 DEF Seen, SeenStatus, SeenTrack, SeenPlayed, SeenRequest
<1> QED
  BY <1>2, StutterStep

(* _prebuffer in the main thread.                                          *)
LEMMA MainPrebufferStep ==
    ASSUME IInv, MainPrebuffer
    PROVE  TransportStep
<1>1. /\ main = "prebuffer" /\ main' \in {"prebuffer", "idle"}
      /\ UNCHANGED <<running, cons>>
      /\ pl' \in PrebufferMore(pl) \cup PrebufferEnd(pl)
  BY DEF MainPrebuffer, Unlock
<1>2. ProducerInv(pl) /\ pl.producer_status = "playing"
  BY <1>1 DEF IInv, PlayerInv, StateInv, PlaceInv, BothPlaying
<1>3. SameDevice(pl, pl') /\ SameStatuses(pl, pl')
  BY <1>1, <1>2, PrebufferLemma
<1>4. UNCHANGED <<SeenStatus, SeenTrack, SeenRequest>>
  BY <1>1, <1>3 DEF SameDevice, SameStatuses, SeenStatus, SeenTrack, SeenRequest
<1> QED
  BY <1>1, <1>4, SoundStep

(* The consumer closes a device that is gone, and opens it again or not.   *)
LEMMA DeviceLostSeen ==
    ASSUME IInv, pl' = DeviceLost(pl), cons' = "reopen", cons # "reopen",
           pl.consumer_status = "playing", UNCHANGED <<main, call, running>>
    PROVE  TransportStep
<1>1. SameProducer(pl, pl')
  BY DeviceLostLemma DEF IInv, PlayerInv, StateInv
<1>2. UNCHANGED Seen
  BY <1>1 DEF SameProducer, Seen, SeenStatus, SeenTrack, SeenPlayed, SeenRequest
<1> QED
  BY <1>2, StutterStep

(* So is the reopening of a device with another format.                    *)
LEMMA ReopenStep ==
    ASSUME IInv, ConsumerReopen
    PROVE  TransportStep
<1>1. /\ cons = "reopen" /\ cons' = "loop" /\ pl' \in ConsumerPlay(pl)
      /\ UNCHANGED <<main, call, running>>
  BY DEF ConsumerReopen
<1>2. StateInv(pl) /\ pl.producer_status = "playing"
  BY <1>1 DEF IInv, PlayerInv, PlaceInv
<1>3. SameProducer(pl, pl') /\ pl'.consumer_status \in {"playing", "stopped"}
  BY <1>1, <1>2, ConsumerPlayLemma
<1>4. /\ SeenStatus = "playing" /\ SeenStatus' = pl'.consumer_status
      /\ UNCHANGED <<SeenTrack, SeenPlayed, SeenRequest>>
  BY <1>1, <1>3 DEF SameProducer, SeenStatus, SeenTrack, SeenPlayed, SeenRequest
<1>5. CASE pl'.consumer_status = "playing"
  BY <1>1, <1>4, <1>5, StutterStep DEF Seen
<1>6. CASE pl'.consumer_status = "stopped"
  BY <1>1, <1>4, <1>6 DEF TransportStep, Transport!TransportNext,
     Transport!DeviceLost, Transport!Becomes
<1> QED
  BY <1>3, <1>5, <1>6

(* The consumer takes what the buffer holds.                               *)
LEMMA ConsumeStep ==
    ASSUME IInv, ConsumerConsume
    PROVE  TransportStep
<1>1. /\ cons = "consume" /\ UNCHANGED <<main, call, running>>
      /\ pl \in State /\ pl.consumer_status = "playing"
  BY DEF ConsumerConsume, IInv, PlaceInv, HoldsConsumer, BothPlaying, PlayerInv,
     StateInv, ProducerInv
<1>2. CASE pl' = DeviceLost(pl) /\ cons' = "reopen"
  BY <1>1, <1>2, DeviceLostSeen
<1>3. CASE pl' \in {pl, [pl EXCEPT !.filled = @ - 1]} /\ cons' = "write"
  <2>1. /\ pl'.consumer_status = pl.consumer_status /\ pl'.file = pl.file
        /\ pl'.producer_status = pl.producer_status
    BY <1>1, <1>3 DEF State
  <2>2. UNCHANGED <<SeenStatus, SeenTrack, SeenRequest>>
    BY <1>1, <1>3, <2>1 DEF SeenStatus, SeenTrack, SeenRequest
  <2> QED
    BY <1>1, <2>2, SoundStep
<1> QED
  BY <1>2, <1>3 DEF ConsumerConsume

(* The head of consumer_loop.                                              *)
LEMMA ConsumerBeginStep ==
    ASSUME IInv, ConsumerBegin
    PROVE  TransportStep
<1>1. /\ cons = "loop" /\ UNCHANGED <<main, call, running>>
      /\ ProducerInv(pl) /\ DeviceInv(pl) /\ pl \in State
  BY DEF ConsumerBegin, IInv, PlayerInv, StateInv, ProducerInv
<1>2. CASE ~running /\ pl' = ConsumerStop(pl) /\ cons' = "done"
  <2>1. /\ pl'.consumer_status = "stopped" /\ SameProducer(pl, pl')
    BY <1>1, <1>2, ConsumerStopLemma
  <2>2. /\ SeenStatus' = "stopped"
        /\ UNCHANGED <<SeenTrack, SeenPlayed, SeenRequest>>
    BY <1>1, <1>2, <2>1
       DEF SameProducer, SeenStatus, SeenTrack, SeenPlayed, SeenRequest
  <2>3. SeenPlayed' \in BOOLEAN
    BY DEF SeenPlayed
  <2>4. Transport!Quit
    BY <1>1, <1>2, <2>2, <2>3 DEF Transport!Quit
  <2> QED
    BY <2>4 DEF TransportStep, Transport!TransportNext
<1>3. CASE pl' = [pl EXCEPT !.waiting = @ \cup {"consumer"}] /\ UNCHANGED cons
  <2>1. /\ pl'.consumer_status = pl.consumer_status /\ pl'.file = pl.file
        /\ pl'.producer_status = pl.producer_status
    BY <1>1, <1>3 DEF State
  <2>2. UNCHANGED <<SeenStatus, SeenTrack, SeenRequest>>
    BY <1>1, <1>3, <2>1 DEF SeenStatus, SeenTrack, SeenRequest
  <2> QED
    BY <1>1, <2>2, SoundStep
<1>4. CASE /\ pl.consumer_status = "playing"
           /\ pl' = DeviceLost(pl) /\ cons' = "reopen"
  BY <1>1, <1>4, DeviceLostSeen
<1>5. CASE UNCHANGED pl /\ cons' = "write"
  <2>1. UNCHANGED Seen
    BY <1>1, <1>5 DEF Seen, SeenStatus, SeenTrack, SeenPlayed, SeenRequest
  <2> QED
    BY <2>1, StutterStep
<1> QED
  BY <1>2, <1>3, <1>4, <1>5 DEF ConsumerBegin, ConsumerHasWork

(* What the consumer does at the end of a file is the end of the track.    *)
LEMMA EndStep ==
    ASSUME cons \notin {"reopen"}, cons' # "reopen", UNCHANGED <<main, call, running>>,
           pl.consumer_status = "playing", SeenPlayed,
           NEW t \in Tracks, Attempted(pl', t)
    PROVE  TransportStep
<1>1. SeenStatus = "playing" /\ UNCHANGED SeenRequest /\ SeenPlayed' \in BOOLEAN
  BY DEF SeenStatus, SeenRequest, SeenPlayed
<1>2. Transport!Loaded(t)
  BY AttemptSeen
<1>3. Transport!EndOfTrack
  BY <1>1, <1>2 DEF Transport!EndOfTrack
<1> QED
  BY <1>3 DEF TransportStep, Transport!TransportNext

(* And the change to the next track at the end of a file.                  *)
LEMMA ConsumerEofStep ==
    ASSUME IInv, ConsumerEof \/ ConsumerNext \/ ConsumerPrebuffer
    PROVE  TransportStep
<1>1. /\ cons \in {"starved", "reply", "prebuffer"}
      /\ cons' # "reopen" /\ UNCHANGED <<main, call, running>>
  BY DEF ConsumerEof, AtEof, ConsumerNext, ConsumerPrebuffer, ConsumerUnlock,
     ConsumerHold
<1>2. running /\ Settled(pl) /\ BothPlaying(pl) /\ pl \in State
      /\ ProducerInv(pl) /\ pl.file \in Tracks
  BY <1>1 DEF IInv, LockInv, PlaceInv, HoldsConsumer, PlayerInv, Settled,
     StateInv, ProducerInv, PluginInv, BothPlaying
<1>3. CASE ConsumerEof
  <2>1. SeenPlayed
    BY <1>2, <1>3 DEF ConsumerEof, AtEof, SeenPlayed, ProducerInv, BufferInv
  <2>2. CASE \/ pl' = EofRemote(pl)
             \/ \E cont \in Cont : pl' \in EofRepeat(pl, cont)
    <3>1. \E cont \in BOOLEAN : pl' \in {EofRemote(pl)} \cup EofRepeat(pl, cont)
      BY <2>2, OptionsAssumption
    <3>2. Attempted(pl', pl.file)
      BY <1>2, <3>1, EofTrack DEF Track, BothPlaying
    <3> QED
      BY <1>1, <1>2, <2>1, <3>2, EndStep DEF BothPlaying
  <2>3. CASE UNCHANGED pl
    <3>1. UNCHANGED Seen
      BY <1>1, <2>3 DEF Seen, SeenStatus, SeenTrack, SeenPlayed, SeenRequest
    <3> QED
      BY <3>1, StutterStep
  <2> QED
    BY <1>3, <2>2, <2>3 DEF ConsumerEof
<1>4. CASE ConsumerNext
  <2>1. cons = "reply" /\ \E cont \in Cont : pl' \in EofNext(pl, reply, cont)
    BY <1>4 DEF ConsumerNext
  <2>2. SeenPlayed /\ reply \in Tracks \cup {NoTrack}
    BY <2>1 DEF IInv, PlaceInv, ControlOK, SeenPlayed
  <2>3. \E t \in Tracks : Attempted(pl', t)
    BY <1>2, <2>1, <2>2, OptionsAssumption, EofNextTrack
  <2> QED
    BY <1>1, <1>2, <2>2, <2>3, EndStep DEF BothPlaying
<1>5. CASE ConsumerPrebuffer
  <2>1. PICK p \in PrebufferMore(pl) \cup PrebufferEnd(pl) :
           pl' = p \/ pl' = PlayerStatusChanged(p)
    BY <1>5 DEF ConsumerPrebuffer
  <2>2. p \in State /\ SameDevice(pl, p) /\ SameStatuses(pl, p)
    BY <1>2, PrebufferLemma DEF BothPlaying, ProducerInv
  <2>3. pl'.consumer_status = pl.consumer_status /\ Track(pl') = Track(pl)
    BY <2>1, <2>2, ReportTrack DEF SameDevice, SameStatuses, Track
  <2>4. UNCHANGED <<SeenStatus, SeenTrack, SeenRequest>>
    BY <1>1, <2>3 DEF Track, SeenStatus, SeenTrack, SeenRequest
  <2> QED
    BY <1>1, <2>4, SoundStep
<1> QED
  BY <1>3, <1>4, <1>5

(* The producer only fills the buffer, and ends with the program.          *)
LEMMA ProducerTransportStep ==
    ASSUME IInv, ProducerStep
    PROVE  TransportStep
<1>1. /\ UNCHANGED <<cons, main, call, running>>
      /\ ProducerInv(pl) /\ pl \in State
  BY DEF ProducerStep, ProducerBegin, ProducerRead, IInv, PlayerInv, StateInv,
     ProducerInv
<1>2. CASE ~running /\ pl' = ProducerUnload(pl)
  <2>1. SameDevice(pl, pl') /\ pl'.producer_status = "unloaded"
    BY <1>1, <1>2, ProducerUnloadLemma
  <2>2. /\ SeenTrack' = NoTrack /\ UNCHANGED <<SeenStatus, SeenRequest>>
        /\ SeenPlayed' \in BOOLEAN
    BY <1>1, <2>1 DEF SameDevice, SeenStatus, SeenTrack, SeenPlayed, SeenRequest
  <2>3. Transport!Quit
    BY <1>1, <1>2, <2>2 DEF Transport!Quit
  <2> QED
    BY <2>3 DEF TransportStep, Transport!TransportNext
<1>3. CASE pl' = [pl EXCEPT !.waiting = @ \cup {"producer"}] \/ UNCHANGED pl
  <2>1. /\ pl'.consumer_status = pl.consumer_status /\ pl'.file = pl.file
        /\ pl'.producer_status = pl.producer_status
    BY <1>1, <1>3 DEF State
  <2>2. UNCHANGED <<SeenStatus, SeenTrack, SeenRequest>>
    BY <1>1, <2>1 DEF SeenStatus, SeenTrack, SeenRequest
  <2> QED
    BY <1>1, <2>2, SoundStep
<1>4. CASE /\ prod \in {"first", "second"} /\ pl.filled < NrChunks
           /\ pl' \in {ReadEnd(pl)} \cup ReadError(pl) \cup ReadData(pl)
  <2>1. pl.producer_status = "playing"
    BY <1>4 DEF IInv, PlaceInv
  <2>2. SameDevice(pl, pl') /\ SameStatuses(pl, pl')
    BY <1>1, <1>4, <2>1, ReadLemma
  <2> QED
    BY <1>1, <2>2, SameSeen
<1> QED
  BY <1>2, <1>3, <1>4 DEF ProducerStep, ProducerBegin, ProducerRead

-----------------------------------------------------------------------------
(* The refinement.                                                         *)

(* The player begins where Transport does.                                 *)
LEMMA InitTransport == Init => Transport!TransportInit
<1> SUFFICES ASSUME Init PROVE Transport!TransportInit
  OBVIOUS
<1>1. /\ pl.consumer_status = "stopped" /\ pl.producer_status = "unloaded"
      /\ pl.eof = FALSE /\ main = "idle" /\ cons = "loop" /\ running = TRUE
  BY DEF Init, InitialState
<1>2. /\ SeenStatus = "stopped" /\ SeenTrack = NoTrack /\ SeenPlayed = FALSE
      /\ SeenRequest = NoCall
  BY <1>1 DEF SeenStatus, SeenTrack, SeenPlayed, SeenRequest
<1> QED
  BY <1>1, <1>2 DEF Transport!TransportInit, Transport!None, NoCall

(* Every step of the player is one of Transport or none.                   *)
LEMMA NextTransport == IInv /\ [Next]_vars => TransportStep
<1> SUFFICES ASSUME IInv, [Next]_vars PROVE TransportStep
  OBVIOUS
<1>1. CASE CallDirect \/ CallPause \/ CallPausePlayback
  BY <1>1, BeginStep
<1>2. CASE MainStep
  BY <1>2, HiddenStep, RunCallStep, RunExitStep, MainPrebufferStep DEF MainStep
<1>3. CASE ConsumerStep
  BY <1>3, HiddenStep, ConsumerBeginStep, ReopenStep, ConsumeStep,
     ConsumerEofStep DEF ConsumerStep
<1>4. CASE ProducerStep
  BY <1>4, ProducerTransportStep
<1>5. CASE Terminated
  BY <1>5, HiddenStep
<1>6. CASE UNCHANGED vars
  <2>1. UNCHANGED Seen
    BY <1>6 DEF vars, Seen, SeenStatus, SeenTrack, SeenPlayed, SeenRequest
  <2> QED
    BY <2>1, StutterStep
<1> QED
  BY <1>1, <1>2, <1>3, <1>4, <1>5, <1>6 DEF Next

(* The three threads together are the transport: every player_* function   *)
(* takes effect in one step on the state it finds, and by itself the player*)
(* stops, starts or changes the track only at the end of a track that was  *)
(* played, or when it loses its device.                                    *)
THEOREM PlayerIsTransport == Spec => IsTransport
<1>1. Init => Transport!TransportInit
  BY InitTransport
<1>2. IInv /\ [Next]_vars => [Transport!TransportNext]_(Transport!transport_vars)
  BY NextTransport DEF TransportStep
<1> QED
  BY <1>1, <1>2, Invariant, PTL DEF Spec, IsTransport, Transport!TransportSpec

(* A paused player keeps its file, its place in it and what it has         *)
(* buffered, whatever the threads do, until it is told otherwise.          *)
THEOREM PausedAlwaysKeepsPlace == Spec => PausedKeepsPlace
<1> DEFINE Kept == running /\ pl.consumer_status = "paused" /\ main' = main =>
                      /\ pl'.consumer_status = "paused" /\ pl'.file = pl.file
                      /\ <<pl'.filled, pl'.partial, pl'.eof>> =
                         <<pl.filled, pl.partial, pl.eof>>
<1>1. IInv /\ [Next]_vars => [Kept]_vars
  <2> SUFFICES ASSUME IInv, Next, running, pl.consumer_status = "paused",
                      main' = main
               PROVE  Kept
    OBVIOUS
  <2>1. /\ pl \in State /\ pl.producer_status = "paused"
        /\ cons \notin HoldsConsumer /\ prod \notin {"first", "second"}
        /\ main # "prebuffer"
    BY DEF IInv, PlayerInv, Agree, StateInv, ProducerInv, PlaceInv, BothPlaying,
       HoldsConsumer
  <2>2. \/ UNCHANGED pl
        \/ pl' = [pl EXCEPT !.waiting = @ \cup {"consumer"}]
        \/ pl' = [pl EXCEPT !.waiting = @ \cup {"producer"}]
    <3>1. CASE CallDirect \/ CallPause \/ CallPausePlayback \/ Terminated
      BY <3>1 DEF CallDirect, CallPause, CallPausePlayback, Terminated, vars
    <3>2. CASE MainStep
      BY <2>1, <3>2 DEF MainStep, LockConsumer, RunCall, RunSeek, RunExit, Join,
         MainPrebuffer, ProvideNextTrack, Unlock, HoldFor
    <3>3. CASE ConsumerStep
      BY <2>1, <3>3 DEF ConsumerStep, ConsumerBegin, ConsumerHasWork,
         ConsumerReopen, ConsumerWrite, ConsumerConsume, ConsumerStarved,
         ConsumerEof, AtEof, ConsumerNext, ConsumerPrebuffer, HoldsConsumer
    <3>4. CASE ProducerStep
      BY <2>1, <3>4 DEF ProducerStep, ProducerBegin, ProducerHasWork, ProducerRead
    <3> QED
      BY <3>1, <3>2, <3>3, <3>4 DEF Next
  <2> QED
    BY <2>1, <2>2 DEF State
<1> QED
  BY <1>1, Invariant, PTL DEF Spec, PausedKeepsPlace
=============================================================================
