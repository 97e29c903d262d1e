---------------------------- MODULE PlayerProofs ----------------------------
(***************************************************************************)
(* The safety of the player core, for every set of tracks, every buffer    *)
(* size and every choice of calls and options.  The inductive invariant    *)
(* has four parts: what the fields of the shared record say of each other  *)
(* on the producer's side (ProducerInv) and on the consumer's (DeviceInv,  *)
(* FormatInv), who holds which mutex at which place (LockInv), and what a  *)
(* thread may rely on between two of its steps (PlaceInv).  There is one   *)
(* lemma per operator of PlayerOps, then one step per action of Player.    *)
(***************************************************************************)
EXTENDS Player, TLAPS

ProducerActive(s) == s.producer_status \in {"playing", "paused"}

PluginInv(s) ==
    /\ s.producer_status = "unloaded" => s.ip \in {"null", "freed"}
    /\ s.producer_status = "stopped" => s.ip = "new"
    /\ ProducerActive(s) => s.ip = "open"
    /\ s.producer_status # "unloaded" => s.file \in Tracks

BufferInv(s) ==
    /\ s.filled > 0 \/ s.partial => ProducerActive(s) /\ s.data = s.file
    /\ s.partial => s.filled < NrChunks /\ ~s.eof

ProducerInv(s) == s \in State /\ PluginInv(s) /\ BufferInv(s)

DeviceInv(s) ==
    /\ s.device = "closed" <=> s.consumer_status = "stopped"
    /\ s.device = "paused" <=> s.consumer_status = "paused"
    /\ s.device # "closed" => s.device_sf = s.buffer_sf

FormatInv(s) ==
    s.device # "closed" => s.file \in Tracks /\ s.buffer_sf = Format[s.file]

StateInv(s) == ProducerInv(s) /\ DeviceInv(s) /\ FormatInv(s)

Agree(s) ==
    /\ s.consumer_status = "playing" => s.producer_status = "playing"
    /\ s.consumer_status = "paused" <=> s.producer_status = "paused"

(* The frames: an operator of one side leaves the other side alone.        *)
SameDevice(s, r) ==
    /\ r.consumer_status = s.consumer_status
    /\ r.device = s.device
    /\ r.device_sf = s.device_sf
    /\ r.buffer_sf = s.buffer_sf

SameProducer(s, r) ==
    /\ r.producer_status = s.producer_status
    /\ r.ip = s.ip
    /\ r.file = s.file
    /\ r.eof = s.eof
    /\ r.filled = s.filled
    /\ r.partial = s.partial
    /\ r.data = s.data

-----------------------------------------------------------------------------
(* The elementary operators stay in State.                                 *)

(* An empty buffer is a buffer.                                            *)
LEMMA ZeroFilled == 0 \in 0 .. NrChunks
BY ChunksAssumption

(* _producer_status_update.                                                *)
LEMMA ProducerStatusUpdateType ==
    ASSUME NEW s \in State, NEW status \in ProducerStatuses
    PROVE  ProducerStatusUpdate(s, status) \in State
BY DEF State, ProducerStatusUpdate

(* _consumer_status_update.                                                *)
LEMMA ConsumerStatusUpdateType ==
    ASSUME NEW s \in State, NEW status \in ConsumerStatuses
    PROVE  ConsumerStatusUpdate(s, status) \in State
BY DEF State, ConsumerStatusUpdate

(* reset_buffer.                                                           *)
LEMMA ResetBufferType ==
    ASSUME NEW s \in State
    PROVE  ResetBuffer(s) \in State
BY ZeroFilled DEF State, ResetBuffer

(* Taking and giving up a reference to a track.                            *)
LEMMA RefType ==
    ASSUME NEW s \in State, NEW t \in Tracks \cup {NoTrack}
    PROVE  Ref(s, t) \in State /\ Unref(s, t) \in State
BY DEF State, Ref, Unref

(* file_changed.                                                           *)
LEMMA FileChangedType ==
    ASSUME NEW s \in State, NEW t \in Tracks \cup {NoTrack}
    PROVE  FileChanged(s, t) \in State
<1>1. Unref(s, s.ti) \in State
  BY RefType DEF State
<1> QED
  BY <1>1 DEF State, FileChanged

(* player_error and _player_status_changed.                                *)
LEMMA PlayerErrorType ==
    ASSUME NEW s \in State
    PROVE  PlayerError(s) \in State /\ PlayerStatusChanged(s) \in State
BY DEF State, PlayerError, PlayerStatusChanged

(* ip_new.                                                                 *)
LEMMA IpNewType ==
    ASSUME NEW s \in State, NEW t \in Tracks
    PROVE  IpNew(s, t) \in State
BY DEF State, PluginStates, IpNew

(* The other calls of the input plug-in.                                   *)
LEMMA PluginType ==
    ASSUME NEW s \in State
    PROVE  /\ IpOpen(s) \in State
           /\ IpClose(s) \in State
           /\ IpDelete(s) \in State
           /\ SeekStart(s) \in State
BY DEF State, PluginStates, IpOpen, IpClose, IpDelete, SeekStart

(* The calls of the output plug-in.                                        *)
LEMMA DeviceType ==
    ASSUME NEW s \in State
    PROVE  /\ OpOpen(s) \in State
           /\ OpClose(s) \in State
           /\ OpPause(s) \in State
           /\ OpUnpause(s) \in State
BY DEF State, DeviceStates, OpOpen, OpClose, OpPause, OpUnpause

(* set_buffer_sf.                                                          *)
LEMMA SetBufferSfType ==
    ASSUME NEW s \in State, s.file \in Tracks
    PROVE  SetBufferSf(s) \in State
BY FormatAssumption DEF State, SetBufferSf

(* What the parts of the invariant depend on.                              *)
LEMMA SameProducerInv ==
    ASSUME NEW s, NEW r \in State, ProducerInv(s), SameProducer(s, r)
    PROVE  ProducerInv(r)
BY DEF ProducerInv, PluginInv, BufferInv, ProducerActive, SameProducer

(* The device part depends on the device only.                             *)
LEMMA SameDeviceInv ==
    ASSUME NEW s, NEW r, DeviceInv(s), SameDevice(s, r)
    PROVE  DeviceInv(r)
BY DEF DeviceInv, SameDevice

(* The format part depends on the device and the loaded file.              *)
LEMMA SameFormatInv ==
    ASSUME NEW s, NEW r, FormatInv(s), SameDevice(s, r), r.file = s.file
    PROVE  FormatInv(r)
BY DEF FormatInv, SameDevice

-----------------------------------------------------------------------------
(* The producer's operators.                                               *)

(* _producer_stop leaves no sound in the buffer and the plug-in closed.    *)
LEMMA ProducerStopLemma ==
    ASSUME NEW s, ProducerInv(s)
    PROVE  LET r == ProducerStop(s)
           IN  /\ ProducerInv(r) /\ SameDevice(s, r)
               /\ r.file = s.file
               /\ r.producer_status \in {"unloaded", "stopped"}
               /\ ProducerActive(s) => r.producer_status = "stopped"
               /\ r.filled = 0 /\ ~r.partial
<1> DEFINE r == ProducerStop(s)
<1>1. r \in State
  BY ProducerStatusUpdateType, ResetBufferType, PluginType
     DEF ProducerInv, ProducerStop, ProducerStatuses
<1>2. /\ PluginInv(r) /\ BufferInv(r) /\ SameDevice(s, r) /\ r.file = s.file
      /\ r.producer_status \in {"unloaded", "stopped"}
      /\ ProducerActive(s) => r.producer_status = "stopped"
      /\ r.filled = 0 /\ ~r.partial
  BY ChunksAssumption
     DEF State, ProducerStatuses, ProducerInv, PluginInv, BufferInv, SameDevice,
         ProducerActive, ProducerStop, ResetBuffer, ProducerStatusUpdate, IpClose
<1> QED
  BY <1>1, <1>2 DEF ProducerInv

(* _producer_unload deletes the plug-in as well.                           *)
LEMMA ProducerUnloadLemma ==
    ASSUME NEW s, ProducerInv(s)
    PROVE  LET r == ProducerUnload(s)
           IN  /\ ProducerInv(r) /\ SameDevice(s, r)
               /\ r.file = s.file
               /\ r.producer_status = "unloaded"
               /\ r.filled = 0 /\ ~r.partial
<1> DEFINE q == ProducerStop(s)
           r == ProducerUnload(s)
<1>1. /\ ProducerInv(q) /\ SameDevice(s, q) /\ q.file = s.file
      /\ q.producer_status \in {"unloaded", "stopped"}
      /\ q.filled = 0 /\ ~q.partial
  BY ProducerStopLemma
<1>2. r \in State
  BY <1>1, ProducerStatusUpdateType, PluginType
     DEF ProducerInv, ProducerUnload, ProducerStatuses
<1>3. /\ PluginInv(r) /\ BufferInv(r) /\ SameDevice(q, r) /\ r.file = q.file
      /\ r.producer_status = "unloaded"
      /\ r.filled = 0 /\ ~r.partial
  <2> HIDE DEF q
  <2>1. r = IF q.producer_status = "stopped"
            THEN ProducerStatusUpdate(IpDelete(q), "unloaded") ELSE q
    BY DEF q, ProducerUnload
  <2> HIDE DEF r
  <2> QED
    BY <1>1, <2>1 DEF State, ProducerInv, PluginInv, BufferInv, SameDevice,
       ProducerActive, ProducerStatusUpdate, IpDelete
<1> QED
  BY <1>1, <1>2, <1>3 DEF ProducerInv, SameDevice

(* _producer_play of a stopped file opens it or unloads it.                *)
LEMMA PlayStoppedLemma ==
    ASSUME NEW s, ProducerInv(s), s.producer_status = "stopped",
           NEW r \in PlayStopped(s)
    PROVE  /\ ProducerInv(r) /\ SameDevice(s, r)
           /\ r.file = s.file /\ r.file \in Tracks
           /\ r.producer_status \in {"playing", "unloaded"}
<1>1. r \in State
  BY ProducerStatusUpdateType, PluginType, PlayerErrorType
     DEF ProducerInv, PlayStopped, ProducerStatuses
<1> QED
  BY <1>1
     DEF State, ProducerInv, PluginInv, BufferInv, SameDevice, ProducerActive,
         PlayStopped, ProducerStatusUpdate, IpOpen, IpDelete, PlayerError

(* _producer_play without a file loads and opens the next one.             *)
LEMMA PlayNextLemma ==
    ASSUME NEW s, ProducerInv(s), s.producer_status = "unloaded",
           NEW t \in Tracks, NEW r \in PlayNext(s, t)
    PROVE  /\ ProducerInv(r) /\ SameDevice(s, r)
           /\ r.producer_status \in {"playing", "unloaded"}
<1> DEFINE fresh == IpNew(Ref(s, t), t)
<1>1. fresh \in State
  BY RefType, IpNewType DEF ProducerInv
<1>2. /\ fresh.file = t /\ fresh.ip = "new" /\ ~fresh.eof
      /\ fresh.producer_status = "unloaded" /\ SameDevice(s, fresh)
      /\ fresh.filled = s.filled /\ fresh.partial = s.partial
  BY DEF ProducerInv, State, IpNew, Ref, SameDevice
<1>3. /\ PluginInv(s) /\ BufferInv(s)
  BY DEF ProducerInv
<1> HIDE DEF fresh
<1>4. \/ r = FileChanged(ProducerStatusUpdate(IpOpen(fresh), "playing"), t)
      \/ r = FileChanged(Unref(IpDelete(PlayerError(fresh)), t), NoTrack)
  BY DEF PlayNext, fresh
<1>5. r \in State
  BY <1>1, <1>4, FileChangedType, ProducerStatusUpdateType, PluginType,
     PlayerErrorType, RefType DEF ProducerStatuses
<1>6. /\ SameDevice(fresh, r) /\ r.file = fresh.file
      /\ r.filled = fresh.filled /\ r.partial = fresh.partial
      /\ \/ r.producer_status = "playing" /\ r.ip = "open"
         \/ r.producer_status = "unloaded" /\ r.ip = "freed"
  <2>1. CASE r = FileChanged(ProducerStatusUpdate(IpOpen(fresh), "playing"), t)
    BY <1>1, <1>2, <2>1
       DEF State, SameDevice, FileChanged, Unref, ProducerStatusUpdate, IpOpen
  <2>2. CASE r = FileChanged(Unref(IpDelete(PlayerError(fresh)), t), NoTrack)
    BY <1>1, <1>2, <2>2
       DEF State, SameDevice, FileChanged, Unref, IpDelete, PlayerError
  <2> QED
    BY <1>4, <2>1, <2>2
<1>7. s.filled = 0 /\ ~s.partial
  BY <1>3 DEF BufferInv, ProducerActive, ProducerInv, State
<1> QED
  BY <1>2, <1>5, <1>6, <1>7
     DEF ProducerInv, PluginInv, BufferInv, SameDevice, ProducerActive

(* _producer_play of a playing file goes back to its start.                *)
LEMMA SeekStartLemma ==
    ASSUME NEW s, ProducerInv(s), s.producer_status = "playing",
           NEW r \in {s, ResetBuffer(s), ResetBuffer(SeekStart(s))}
    PROVE  /\ ProducerInv(r) /\ SameDevice(s, r)
           /\ r.file = s.file /\ r.producer_status = "playing"
<1>1. r \in State
  BY ResetBufferType, PluginType DEF ProducerInv
<1>2. PluginInv(s) /\ BufferInv(s) /\ s \in State
  BY DEF ProducerInv
<1>3. CASE r = s
  BY <1>2, <1>3 DEF ProducerInv, SameDevice
<1>4. CASE r = ResetBuffer(s)
  BY <1>1, <1>2, <1>4 DEF State, ProducerInv, PluginInv, BufferInv, SameDevice,
     ProducerActive, ResetBuffer
<1>5. CASE r = ResetBuffer(SeekStart(s))
  BY <1>1, <1>2, <1>5 DEF State, ProducerInv, PluginInv, BufferInv, SameDevice,
     ProducerActive, ResetBuffer, SeekStart
<1> QED
  BY <1>3, <1>4, <1>5

(* A producer in a file may be paused and go on.                           *)
LEMMA SetProducerStatusLemma ==
    ASSUME NEW s, ProducerInv(s), ProducerActive(s),
           NEW status \in {"playing", "paused"}
    PROVE  LET r == ProducerStatusUpdate(s, status)
           IN  /\ ProducerInv(r) /\ SameDevice(s, r)
               /\ r.file = s.file /\ r.producer_status = status
<1>1. ProducerStatusUpdate(s, status) \in State
  BY ProducerStatusUpdateType DEF ProducerInv, ProducerStatuses
<1> QED
  BY <1>1 DEF State, ProducerInv, PluginInv, BufferInv, SameDevice,
     ProducerActive, ProducerStatusUpdate

(* _producer_play ends with a file that plays or with none.                *)
LEMMA ProducerPlayLemma ==
    ASSUME NEW s, ProducerInv(s), NEW r \in ProducerPlay(s)
    PROVE  /\ ProducerInv(r) /\ SameDevice(s, r)
           /\ r.producer_status \in {"playing", "unloaded"}
           /\ s.producer_status # "unloaded" => r.file = s.file
           /\ s.producer_status \in {"playing", "paused"} =>
                 r.producer_status = "playing"
<1>1. CASE s.producer_status = "unloaded"
  <2>1. r = s \/ \E t \in Tracks : r \in PlayNext(s, t)
    BY <1>1 DEF ProducerPlay
  <2> QED
    BY <1>1, <2>1, PlayNextLemma DEF SameDevice
<1>2. CASE s.producer_status = "playing"
  BY <1>2, SeekStartLemma DEF ProducerPlay
<1>3. CASE s.producer_status = "stopped"
  BY <1>3, PlayStoppedLemma DEF ProducerPlay
<1>4. CASE s.producer_status = "paused"
  BY <1>4, SetProducerStatusLemma DEF ProducerPlay, ProducerActive
<1> QED
  BY <1>1, <1>2, <1>3, <1>4 DEF ProducerInv, State, ProducerStatuses

(* Loading another file, once the old one is unloaded.                     *)
LEMMA IpNewLemma ==
    ASSUME NEW s, ProducerInv(s), s.producer_status = "unloaded",
           NEW t \in Tracks
    PROVE  LET r == ProducerStatusUpdate(IpNew(s, t), "stopped")
           IN  /\ ProducerInv(r) /\ SameDevice(s, r)
               /\ r.file = t /\ r.producer_status = "stopped"
<1>1. ProducerStatusUpdate(IpNew(s, t), "stopped") \in State
  BY IpNewType, ProducerStatusUpdateType DEF ProducerInv, ProducerStatuses
<1> QED
  BY <1>1 DEF State, ProducerInv, PluginInv, BufferInv, SameDevice,
     ProducerActive, ProducerStatusUpdate, IpNew

(* References and reports are no part of the invariant.                    *)
LEMMA RefLemma ==
    ASSUME NEW s, ProducerInv(s), NEW t \in Tracks \cup {NoTrack},
           NEW r \in {Ref(s, t), Unref(s, t), FileChanged(s, t),
                      PlayerError(s), PlayerStatusChanged(s)}
    PROVE  ProducerInv(r) /\ SameDevice(s, r) /\ SameProducer(s, r)
<1>1. r \in State
  BY RefType, FileChangedType, PlayerErrorType DEF ProducerInv
<1>2. SameDevice(s, r) /\ SameProducer(s, r)
  <2>1. CASE r = Ref(s, t) \/ r = Unref(s, t)
    BY <2>1 DEF ProducerInv, State, SameDevice, SameProducer, Ref, Unref
  <2>2. CASE r = FileChanged(s, t)
    BY <2>2
       DEF ProducerInv, State, SameDevice, SameProducer, FileChanged, Unref
  <2>3. CASE r = PlayerError(s) \/ r = PlayerStatusChanged(s)
    BY <2>3 DEF ProducerInv, State, SameDevice, SameProducer, PlayerError,
       PlayerStatusChanged
  <2> QED
    BY <2>1, <2>2, <2>3
<1> QED
  BY <1>1, <1>2, SameProducerInv

(* _consumer_handle_eof puts the next file in the place of the old.        *)
LEMMA LoadNextLemma ==
    ASSUME NEW s, ProducerInv(s), NEW t \in Tracks
    PROVE  LET r == LoadNext(s, t)
           IN  /\ ProducerInv(r) /\ SameDevice(s, r)
               /\ r.file = t /\ r.producer_status = "stopped"
<1> DEFINE q == ProducerUnload(s)
<1>1. ProducerInv(q) /\ SameDevice(s, q) /\ q.producer_status = "unloaded"
  BY ProducerUnloadLemma
<1> HIDE DEF q
<1>2. LoadNext(s, t) = ProducerStatusUpdate(IpNew(q, t), "stopped")
  BY DEF LoadNext, q
<1> QED
  BY <1>1, <1>2, IpNewLemma DEF SameDevice

(* _producer_set_file unloads the old file and keeps the new one stopped.  *)
LEMMA ProducerSetFileLemma ==
    ASSUME NEW s, ProducerInv(s), NEW t \in Tracks
    PROVE  LET r == ProducerSetFile(s, t)
           IN  /\ ProducerInv(r) /\ SameDevice(s, r)
               /\ r.file = t /\ r.producer_status = "stopped"
<1> DEFINE q == Ref(s, t)
           l == LoadNext(q, t)
<1>1. ProducerInv(q) /\ SameDevice(s, q)
  BY RefLemma
<1> HIDE DEF q
<1>2. /\ ProducerInv(l) /\ SameDevice(q, l)
      /\ l.file = t /\ l.producer_status = "stopped"
  BY <1>1, LoadNextLemma
<1>3. ProducerSetFile(s, t) = FileChanged(l, t)
  BY DEF ProducerSetFile, LoadNext, q
<1> HIDE DEF l
<1>4. /\ ProducerInv(FileChanged(l, t)) /\ SameDevice(l, FileChanged(l, t))
      /\ SameProducer(l, FileChanged(l, t))
  BY <1>2, RefLemma
<1> QED
  BY <1>1, <1>2, <1>3, <1>4 DEF SameDevice, SameProducer

-----------------------------------------------------------------------------
(* Reading into the buffer.                                                *)

SameStatuses(s, r) ==
    /\ r.producer_status = s.producer_status
    /\ r.file = s.file
    /\ r.ip = s.ip

(* buffer_fill(0) turns a partial chunk into a full one.                   *)
LEMMA FlushLemma ==
    ASSUME NEW s, s \in State, PluginInv(s), s.producer_status = "playing",
           s.filled < NrChunks, s.filled > 0 \/ s.partial => s.data = s.file
    PROVE  LET r == Flush(s)
           IN  /\ ProducerInv(r) /\ SameDevice(s, r) /\ SameStatuses(s, r)
               /\ r.filled >= s.filled
<1>1. s.filled + 1 \in 0 .. NrChunks
  BY ChunksAssumption DEF State
<1>2. Flush(s) \in State
  BY <1>1 DEF State, Flush
<1> QED
  BY <1>1, <1>2 DEF State, Flush, ProducerInv, PluginInv, BufferInv, SameDevice,
     SameStatuses, ProducerActive

(* One ip_read and what is done with its result.                           *)
LEMMA ReadLemma ==
    ASSUME NEW s, ProducerInv(s), s.producer_status = "playing",
           s.filled < NrChunks,
           NEW r \in {ReadEnd(s)} \cup ReadError(s) \cup ReadData(s)
    PROVE  /\ ProducerInv(r) /\ SameDevice(s, r) /\ SameStatuses(s, r)
           /\ r.filled >= s.filled
<1>0. s \in State /\ PluginInv(s) /\ BufferInv(s)
  BY DEF ProducerInv
<1>1. CASE r = ReadEnd(s)
  <2> DEFINE q == [s EXCEPT !.eof = TRUE]
  <2>1. q \in State /\ SameDevice(s, q) /\ SameStatuses(s, q)
    BY <1>0 DEF State, SameDevice, SameStatuses
  <2>2. PluginInv(q) /\ q.producer_status = "playing" /\ q.filled = s.filled
    BY <1>0 DEF State, PluginInv, ProducerActive
  <2>3. q.filled > 0 \/ q.partial => q.data = q.file
    BY <1>0 DEF State, BufferInv
  <2> HIDE DEF q
  <2>4. r = Flush(q)
    BY <1>1 DEF ReadEnd, q
  <2> QED
    BY <2>1, <2>2, <2>3, <2>4, FlushLemma DEF SameDevice, SameStatuses
<1>2. CASE r \in ReadError(s)
  <2>1. PICK e \in {s.eof, TRUE} : r = Flush([PlayerError(s) EXCEPT !.eof = e])
    BY <1>2 DEF ReadError
  <2> DEFINE q == [PlayerError(s) EXCEPT !.eof = e]
  <2>2. e \in BOOLEAN
    BY <1>0 DEF State
  <2>3. q \in State
    BY <1>0, <2>2, PlayerErrorType DEF State
  <2>4. SameDevice(s, q) /\ SameStatuses(s, q)
    BY <1>0 DEF State, SameDevice, SameStatuses, PlayerError
  <2>5. /\ PluginInv(q) /\ q.producer_status = "playing"
        /\ q.filled = s.filled
    BY <1>0 DEF State, PluginInv, ProducerActive, PlayerError
  <2>6. q.filled > 0 \/ q.partial => q.data = q.file
    BY <1>0 DEF State, BufferInv, PlayerError
  <2> HIDE DEF q
  <2>7. r = Flush(q)
    BY <2>1 DEF q
  <2> QED
    BY <2>3, <2>4, <2>5, <2>6, <2>7, FlushLemma DEF SameDevice, SameStatuses
<1>3. CASE r = [s EXCEPT !.filled = @ + 1, !.partial = FALSE, !.data = s.file]
  <2>1. s.filled + 1 \in 0 .. NrChunks
    BY <1>0, ChunksAssumption DEF State
  <2>2. s.file \in Tracks \cup {NoTrack}
    BY <1>0 DEF State
  <2>3. [s EXCEPT !.filled = @ + 1, !.partial = FALSE, !.data = s.file] \in State
    BY <1>0, <2>1, <2>2 DEF State
  <2>4. PluginInv(r) /\ SameDevice(s, r) /\ SameStatuses(s, r)
    BY <1>0, <1>3 DEF State, PluginInv, SameDevice, SameStatuses, ProducerActive
  <2>5. r.filled = s.filled + 1 /\ ~r.partial /\ r.data = r.file
    BY <1>0, <1>3 DEF State
  <2>6. r.filled >= s.filled
    BY <1>0, <2>5 DEF State
  <2> QED
    BY <1>3, <2>3, <2>4, <2>5, <2>6
       DEF ProducerInv, BufferInv, ProducerActive, SameStatuses
<1>4. CASE ~s.eof /\ r = [s EXCEPT !.partial = TRUE, !.data = s.file]
  <2>1. s.file \in Tracks \cup {NoTrack}
    BY <1>0 DEF State
  <2>2. [s EXCEPT !.partial = TRUE, !.data = s.file] \in State
    BY <1>0, <2>1 DEF State
  <2>3. PluginInv(r) /\ SameDevice(s, r) /\ SameStatuses(s, r)
    BY <1>0, <1>4 DEF State, PluginInv, SameDevice, SameStatuses, ProducerActive
  <2>4. r.filled = s.filled /\ r.data = r.file /\ ~r.eof
    BY <1>0, <1>4 DEF State
  <2>5. r.filled >= s.filled
    BY <1>0, <2>4 DEF State
  <2> QED
    BY <1>4, <2>2, <2>3, <2>4, <2>5
       DEF ProducerInv, BufferInv, ProducerActive, SameStatuses
<1> QED
  BY <1>1, <1>2, <1>3, <1>4 DEF ReadData

(* One round of _prebuffer.                                                *)
LEMMA PrebufferLemma ==
    ASSUME NEW s, ProducerInv(s), s.producer_status = "playing",
           NEW r \in PrebufferMore(s) \cup PrebufferEnd(s)
    PROVE  ProducerInv(r) /\ SameDevice(s, r) /\ SameStatuses(s, r)
<1>1. CASE s.filled < PrebufferLimit(s)
  <2>1. s.filled < NrChunks
    BY <1>1, ChunksAssumption DEF PrebufferLimit, ProducerInv, State
  <2>2. r \in {ReadEnd(s)} \cup ReadError(s) \cup ReadData(s)
    BY <1>1 DEF PrebufferMore, PrebufferEnd
  <2> QED
    BY <2>1, <2>2, ReadLemma
<1>2. CASE ~(s.filled < PrebufferLimit(s))
  BY <1>2 DEF PrebufferMore, PrebufferEnd, SameDevice, SameStatuses
<1> QED
  BY <1>1, <1>2

-----------------------------------------------------------------------------
(* The consumer's operators.                                               *)

(* set_buffer_sf takes the format of the loaded file.                      *)
LEMMA SetBufferSfLemma ==
    ASSUME NEW s, s \in State, s.file \in Tracks
    PROVE  LET r == SetBufferSf(s)
           IN  /\ r \in State /\ SameProducer(s, r)
               /\ r.buffer_sf = Format[r.file]
               /\ r.consumer_status = s.consumer_status /\ r.device = s.device
               /\ r.device_sf = s.device_sf
BY SetBufferSfType DEF State, SetBufferSf, SameProducer

(* Opening the device, in the format that set_buffer_sf() computed.        *)
LEMMA OpOpenLemma ==
    ASSUME NEW s, ProducerInv(s), s.file \in Tracks,
           s.buffer_sf = Format[s.file]
    PROVE  LET r == ConsumerStatusUpdate(OpOpen(s), "playing")
           IN  StateInv(r) /\ SameProducer(s, r) /\ r.consumer_status = "playing"
<1> DEFINE r == ConsumerStatusUpdate(OpOpen(s), "playing")
<1>1. r \in State
  BY ConsumerStatusUpdateType, DeviceType DEF ProducerInv, ConsumerStatuses
<1>2. /\ SameProducer(s, r) /\ DeviceInv(r) /\ FormatInv(r)
      /\ r.consumer_status = "playing"
  BY DEF ProducerInv, State, SameProducer, DeviceInv, FormatInv,
     ConsumerStatusUpdate, OpOpen
<1> QED
  BY <1>1, <1>2, SameProducerInv DEF StateInv

(* _consumer_stop closes the device.                                       *)
LEMMA ConsumerStopLemma ==
    ASSUME NEW s, ProducerInv(s), DeviceInv(s)
    PROVE  LET r == ConsumerStop(s)
           IN  StateInv(r) /\ SameProducer(s, r) /\ r.consumer_status = "stopped"
<1> DEFINE r == ConsumerStop(s)
<1>1. r \in State
  BY ConsumerStatusUpdateType, DeviceType
     DEF ProducerInv, ConsumerStop, ConsumerStatuses
<1>2. /\ SameProducer(s, r) /\ DeviceInv(r) /\ FormatInv(r)
      /\ r.consumer_status = "stopped"
  BY DEF ProducerInv, State, ConsumerStatuses, SameProducer, DeviceInv,
     FormatInv, ConsumerStop, ConsumerStatusUpdate, OpClose
<1> QED
  BY <1>1, <1>2, SameProducerInv DEF StateInv

(* A device that op_write lost is closed, and its status stopped.          *)
LEMMA DeviceLostLemma ==
    ASSUME NEW s, ProducerInv(s)
    PROVE  LET r == DeviceLost(s)
           IN  StateInv(r) /\ SameProducer(s, r) /\ r.consumer_status = "stopped"
<1> DEFINE r == DeviceLost(s)
<1>1. r \in State
  BY ConsumerStatusUpdateType, DeviceType
     DEF ProducerInv, DeviceLost, ConsumerStatuses
<1>2. /\ SameProducer(s, r) /\ DeviceInv(r) /\ FormatInv(r)
      /\ r.consumer_status = "stopped"
  BY DEF ProducerInv, State, SameProducer, DeviceInv, FormatInv, DeviceLost,
     ConsumerStatusUpdate, OpClose
<1> QED
  BY <1>1, <1>2, SameProducerInv DEF StateInv

(* op_unpause goes with the status playing.                                *)
LEMMA OpUnpauseLemma ==
    ASSUME NEW s, StateInv(s), s.consumer_status # "stopped"
    PROVE  LET r == ConsumerStatusUpdate(OpUnpause(s), "playing")
           IN  StateInv(r) /\ SameProducer(s, r) /\ r.consumer_status = "playing"
<1> DEFINE r == ConsumerStatusUpdate(OpUnpause(s), "playing")
<1>1. r \in State
  BY ConsumerStatusUpdateType, DeviceType
     DEF StateInv, ProducerInv, ConsumerStatuses
<1>2. /\ SameProducer(s, r) /\ DeviceInv(r) /\ FormatInv(r)
      /\ r.consumer_status = "playing"
  BY DEF StateInv, ProducerInv, State, SameProducer, DeviceInv, FormatInv,
     ConsumerStatusUpdate, OpUnpause
<1> QED
  BY <1>1, <1>2, SameProducerInv DEF StateInv

(* op_pause goes with the status paused.                                   *)
LEMMA OpPauseLemma ==
    ASSUME NEW s, StateInv(s), s.consumer_status # "stopped"
    PROVE  LET r == ConsumerStatusUpdate(OpPause(s), "paused")
           IN  StateInv(r) /\ SameProducer(s, r) /\ r.consumer_status = "paused"
<1> DEFINE r == ConsumerStatusUpdate(OpPause(s), "paused")
<1>1. r \in State
  BY ConsumerStatusUpdateType, DeviceType
     DEF StateInv, ProducerInv, ConsumerStatuses
<1>2. /\ SameProducer(s, r) /\ DeviceInv(r) /\ FormatInv(r)
      /\ r.consumer_status = "paused"
  BY DEF StateInv, ProducerInv, State, SameProducer, DeviceInv, FormatInv,
     ConsumerStatusUpdate, OpPause
<1> QED
  BY <1>1, <1>2, SameProducerInv DEF StateInv

(* References and reports leave the device alone too.                      *)
LEMMA ReportLemma ==
    ASSUME NEW s, StateInv(s), NEW t \in Tracks \cup {NoTrack},
           NEW r \in {Ref(s, t), Unref(s, t), FileChanged(s, t),
                      PlayerError(s), PlayerStatusChanged(s)}
    PROVE  StateInv(r) /\ SameDevice(s, r) /\ SameProducer(s, r)
<1>1. ProducerInv(r) /\ SameDevice(s, r) /\ SameProducer(s, r)
  BY RefLemma DEF StateInv
<1> QED
  BY <1>1, SameDeviceInv, SameFormatInv DEF StateInv, SameProducer

(* _consumer_play opens the device in the format of the loaded file.       *)
LEMMA ConsumerPlayLemma ==
    ASSUME NEW s, StateInv(s), s.producer_status = "playing",
           NEW r \in ConsumerPlay(s)
    PROVE  /\ StateInv(r) /\ SameProducer(s, r)
           /\ r.consumer_status \in {"playing", "stopped"}
           /\ s.consumer_status # "stopped" => r.consumer_status = "playing"
<1>0. s \in State /\ s.file \in Tracks
  BY DEF StateInv, ProducerInv, PluginInv
<1>1. CASE s.consumer_status = "playing"
  BY <1>1 DEF ConsumerPlay, SameProducer
<1>2. CASE s.consumer_status = "stopped"
  <2> DEFINE set == SetBufferSf(s)
  <2>1. /\ set \in State /\ SameProducer(s, set)
        /\ set.buffer_sf = Format[set.file]
        /\ set.consumer_status = s.consumer_status /\ set.device = s.device
    BY <1>0, SetBufferSfLemma
  <2>2. ProducerInv(set)
    BY <2>1, SameProducerInv DEF StateInv
  <2>3. set.device = "closed"
    BY <1>2, <2>1 DEF StateInv, DeviceInv
  <2>4. StateInv(set)
    BY <1>2, <2>1, <2>2, <2>3 DEF StateInv, DeviceInv, FormatInv
  <2> HIDE DEF set
  <2>5. \/ r = ConsumerStatusUpdate(OpOpen(set), "playing")
        \/ r = PlayerError(set)
    BY <1>2 DEF ConsumerPlay, set
  <2>6. CASE r = ConsumerStatusUpdate(OpOpen(set), "playing")
    <3>1. set.file \in Tracks
      BY <1>0, <2>1 DEF SameProducer
    <3>2. StateInv(r) /\ SameProducer(set, r) /\ r.consumer_status = "playing"
      BY <2>1, <2>2, <2>6, <3>1, OpOpenLemma
    <3> QED
      BY <1>2, <2>1, <3>2 DEF SameProducer
  <2>7. CASE r = PlayerError(set)
    <3>1. /\ StateInv(PlayerError(set)) /\ SameDevice(set, PlayerError(set))
          /\ SameProducer(set, PlayerError(set))
      BY <2>4, ReportLemma
    <3> QED
      BY <1>2, <2>1, <2>7, <3>1 DEF SameProducer, SameDevice
  <2> QED
    BY <2>5, <2>6, <2>7
<1>3. CASE s.consumer_status = "paused"
  BY <1>3, OpUnpauseLemma DEF ConsumerPlay
<1> QED
  BY <1>0, <1>1, <1>2, <1>3 DEF State, ConsumerStatuses

(* What holds between two handlers, while the player runs.                 *)
Settled(s) == StateInv(s) /\ Agree(s)

BothPlaying(s) == s.producer_status = "playing" /\ s.consumer_status = "playing"
BothStopped(s) == s.producer_status = "stopped" /\ s.consumer_status = "stopped"

(* Stopping the producer of a stopped device settles the player.           *)
LEMMA ProducerStopSettles ==
    ASSUME NEW s, StateInv(s), s.consumer_status = "stopped"
    PROVE  LET r == ProducerStop(s)
           IN  /\ Settled(r) /\ r.consumer_status = "stopped"
               /\ s.producer_status \in {"playing", "paused"} => BothStopped(r)
<1> DEFINE r == ProducerStop(s)
<1>1. /\ ProducerInv(r) /\ SameDevice(s, r) /\ r.file = s.file
      /\ r.producer_status \in {"unloaded", "stopped"}
      /\ ProducerActive(s) => r.producer_status = "stopped"
  BY ProducerStopLemma DEF StateInv
<1> HIDE DEF r
<1>2. StateInv(r)
  BY <1>1, SameDeviceInv, SameFormatInv DEF StateInv
<1> QED
  BY <1>1, <1>2
     DEF Settled, Agree, SameDevice, BothStopped, ProducerActive, r

(* change_sf reopens the device or stops both halves.                      *)
LEMMA ChangeSfLemma ==
    ASSUME NEW s, ProducerInv(s), DeviceInv(s), s.consumer_status # "stopped",
           s.producer_status = "playing", NEW r \in ChangeSf(s)
    PROVE  Settled(r) /\ (BothPlaying(r) \/ BothStopped(r))
<1> DEFINE set == SetBufferSf(s)
           shut == OpClose(set)
<1>0. s \in State /\ s.file \in Tracks
  BY DEF ProducerInv, PluginInv
<1>1. /\ set \in State /\ SameProducer(s, set)
      /\ set.buffer_sf = Format[set.file]
      /\ set.consumer_status = s.consumer_status /\ set.device = s.device
      /\ set.device_sf = s.device_sf
  BY <1>0, SetBufferSfLemma
<1>2. ProducerInv(set)
  BY <1>1, SameProducerInv
<1> HIDE DEF set
<1>3. shut \in State
  BY <1>1, DeviceType
<1>4. /\ SameProducer(set, shut) /\ shut.buffer_sf = set.buffer_sf
  BY <1>1 DEF State, SameProducer, OpClose
<1>5. /\ ProducerInv(shut) /\ shut.buffer_sf = Format[shut.file]
      /\ shut.file \in Tracks /\ shut.producer_status = "playing"
  BY <1>0, <1>1, <1>2, <1>3, <1>4, SameProducerInv DEF SameProducer
<1>6. CASE r = ConsumerStatusUpdate(OpOpen(shut), "playing")
  <2>1. StateInv(r) /\ SameProducer(shut, r) /\ r.consumer_status = "playing"
    BY <1>5, <1>6, OpOpenLemma
  <2> QED
    BY <1>5, <2>1 DEF SameProducer, Settled, Agree, BothPlaying
<1>7. CASE r = ProducerStop(ConsumerStatusUpdate(PlayerError(shut), "stopped"))
  <2> DEFINE q == ConsumerStatusUpdate(PlayerError(shut), "stopped")
  <2>1. q \in State
    BY <1>3, PlayerErrorType, ConsumerStatusUpdateType DEF ConsumerStatuses
  <2>2. SameProducer(shut, q) /\ q.consumer_status = "stopped"
    BY <1>3 DEF State, SameProducer, ConsumerStatusUpdate, PlayerError
  <2>3. q.device = "closed"
    BY <1>1 DEF State, ConsumerStatusUpdate, PlayerError, OpClose
  <2>4. StateInv(q)
    BY <1>5, <2>1, <2>2, <2>3, SameProducerInv
       DEF StateInv, DeviceInv, FormatInv
  <2>5. q.producer_status = "playing"
    BY <1>5, <2>2 DEF SameProducer
  <2> HIDE DEF q
  <2>6. r = ProducerStop(q)
    BY <1>7 DEF q
  <2> QED
    BY <2>2, <2>4, <2>5, <2>6, ProducerStopSettles
<1>8. CASE /\ set.buffer_sf = s.buffer_sf
           /\ r = ConsumerStatusUpdate(IF s.consumer_status = "paused"
                                       THEN OpUnpause(set) ELSE set, "playing")
  <2>1. StateInv(set)
    BY <1>0, <1>1, <1>2, <1>8
       DEF StateInv, DeviceInv, FormatInv, SameProducer
  <2>2. CASE s.consumer_status = "paused"
    <3>1. StateInv(r) /\ SameProducer(set, r) /\ r.consumer_status = "playing"
      BY <1>1, <1>8, <2>1, <2>2, OpUnpauseLemma
    <3> QED
      BY <1>1, <3>1 DEF SameProducer, Settled, Agree, BothPlaying
  <2>3. CASE s.consumer_status = "playing"
    <3>1. r = ConsumerStatusUpdate(set, "playing")
      BY <1>8, <2>3
    <3>2. r \in State
      BY <1>1, <3>1, ConsumerStatusUpdateType DEF ConsumerStatuses
    <3>3. SameProducer(set, r) /\ SameDevice(set, r)
      BY <1>1, <2>3, <3>1
         DEF State, SameProducer, SameDevice, ConsumerStatusUpdate
    <3>4. StateInv(r)
      BY <2>1, <3>2, <3>3, SameProducerInv, SameDeviceInv, SameFormatInv
         DEF StateInv, SameProducer
    <3> QED
      BY <1>1, <2>3, <3>3, <3>4
         DEF SameProducer, SameDevice, Settled, Agree, BothPlaying
  <2> QED
    BY <1>0, <2>2, <2>3 DEF State, ConsumerStatuses
<1> QED
  BY <1>6, <1>7, <1>8 DEF ChangeSf, set, shut

(* player_play stops the producer when the device does not open.           *)
LEMMA OpenDeviceOrStopLemma ==
    ASSUME NEW s, StateInv(s), s.producer_status = "playing",
           NEW r \in OpenDeviceOrStop(s)
    PROVE  Settled(r) /\ (BothPlaying(r) \/ BothStopped(r))
<1>1. PICK c \in ConsumerPlay(s) :
         r = IF c.consumer_status # "playing" THEN ProducerStop(c) ELSE c
  BY DEF OpenDeviceOrStop
<1>2. /\ StateInv(c) /\ SameProducer(s, c)
      /\ c.consumer_status \in {"playing", "stopped"}
  BY ConsumerPlayLemma
<1>3. c.producer_status = "playing"
  BY <1>2 DEF SameProducer
<1>4. CASE c.consumer_status = "playing"
  BY <1>1, <1>2, <1>3, <1>4 DEF Settled, Agree, BothPlaying
<1>5. CASE c.consumer_status = "stopped"
  BY <1>1, <1>2, <1>3, <1>5, ProducerStopSettles
<1> QED
  BY <1>2, <1>4, <1>5

(* What _producer_play leaves is as consistent as what it found.           *)
LEMMA StartableLemma ==
    ASSUME NEW s, Settled(s), NEW p \in ProducerPlay(s)
    PROVE  /\ StateInv(p) /\ SameDevice(s, p)
           /\ p.producer_status \in {"playing", "unloaded"}
           /\ s.producer_status # "unloaded" => p.file = s.file
           /\ s.producer_status \in {"playing", "paused"} =>
                 p.producer_status = "playing"
<1>2. /\ ProducerInv(p) /\ SameDevice(s, p)
      /\ p.producer_status \in {"playing", "unloaded"}
      /\ s.producer_status # "unloaded" => p.file = s.file
      /\ s.producer_status \in {"playing", "paused"} =>
            p.producer_status = "playing"
  BY ProducerPlayLemma DEF Settled, StateInv
<1>3. StateInv(p)
  <2>1. DeviceInv(p)
    BY <1>2, SameDeviceInv DEF Settled, StateInv
  <2>2. CASE s.producer_status = "unloaded"
    <3>1. p.device = "closed"
      BY <1>2, <2>2
         DEF Settled, Agree, StateInv, ProducerInv, State, ConsumerStatuses,
             DeviceInv, SameDevice
    <3> QED
      BY <1>2, <2>1, <3>1 DEF StateInv, FormatInv
  <2>3. CASE s.producer_status # "unloaded"
    BY <1>2, <2>1, <2>3, SameFormatInv DEF Settled, StateInv
  <2> QED
    BY <2>2, <2>3
<1> QED
  BY <1>2, <1>3

(* player_pause starts a stopped player.                                   *)
LEMMA StartPlaybackLemma ==
    ASSUME NEW s, Settled(s), NEW r \in StartPlayback(s)
    PROVE  /\ Settled(r)
           /\ \/ BothPlaying(r) \/ BothStopped(r)
              \/ r.producer_status = "unloaded" /\ r.consumer_status = "stopped"
<1>1. PICK p \in ProducerPlay(s) :
         r \in IF p.producer_status = "playing" THEN OpenDeviceOrStop(p) ELSE {p}
  BY DEF StartPlayback
<1>2. /\ StateInv(p) /\ SameDevice(s, p)
      /\ p.producer_status \in {"playing", "unloaded"}
      /\ s.producer_status \in {"playing", "paused"} =>
            p.producer_status = "playing"
  BY StartableLemma
<1>4. CASE p.producer_status = "playing"
  BY <1>1, <1>2, <1>4, OpenDeviceOrStopLemma
<1>5. CASE p.producer_status = "unloaded"
  <2>1. r = p
    BY <1>1, <1>5
  <2>2. p.consumer_status = "stopped"
    BY <1>2, <1>5 DEF Settled, Agree, StateInv, ProducerInv, State,
       ConsumerStatuses, SameDevice
  <2> QED
    BY <1>2, <1>5, <2>1, <2>2 DEF Settled, Agree
<1> QED
  BY <1>2, <1>4, <1>5

(* Reporting changes nothing that the invariant speaks of.                 *)
LEMMA StatusChangedSettled ==
    ASSUME NEW s, Settled(s),
           NEW r \in {s, PlayerStatusChanged(s), PlayerError(s)}
    PROVE  Settled(r) /\ SameDevice(s, r) /\ SameProducer(s, r)
<1>1. CASE r = s
  BY <1>1 DEF SameDevice, SameProducer
<1>2. CASE r \in {PlayerStatusChanged(s), PlayerError(s)}
  <2>1. StateInv(r) /\ SameDevice(s, r) /\ SameProducer(s, r)
    BY <1>2, ReportLemma DEF Settled
  <2> QED
    BY <2>1 DEF Settled, Agree, SameDevice, SameProducer
<1> QED
  BY <1>1, <1>2

(* Closing the device of a producer that does not play.                    *)
LEMMA ConsumerStopSettled ==
    ASSUME NEW s, Settled(s),
           s.producer_status \in {"unloaded", "stopped"}
    PROVE  LET r == ConsumerStop(s)
           IN  /\ Settled(r) /\ SameProducer(s, r)
               /\ r.consumer_status = "stopped"
<1>1. /\ StateInv(ConsumerStop(s)) /\ SameProducer(s, ConsumerStop(s))
      /\ ConsumerStop(s).consumer_status = "stopped"
  BY ConsumerStopLemma DEF Settled, StateInv
<1> QED
  BY <1>1 DEF Settled, Agree, SameProducer

(* player_stop.                                                            *)
LEMMA StopLemma ==
    ASSUME NEW s, StateInv(s)
    PROVE  LET r == Stop(s)
           IN  Settled(r) /\ r.consumer_status = "stopped"
<1> DEFINE c == ConsumerStop(s)
           p == ProducerStop(c)
<1>1. StateInv(c) /\ c.consumer_status = "stopped"
  BY ConsumerStopLemma DEF StateInv
<1> HIDE DEF c
<1>2. Settled(p) /\ p.consumer_status = "stopped"
  BY <1>1, ProducerStopSettles
<1> HIDE DEF p
<1>3. Stop(s) = PlayerStatusChanged(p)
  BY DEF Stop, p, c
<1> QED
  BY <1>2, <1>3, StatusChangedSettled DEF SameDevice

(* player_play.                                                            *)
LEMMA PlayLemma ==
    ASSUME NEW s, Settled(s), NEW r \in Play(s)
    PROVE  Settled(r)
<1>1. CASE s.producer_status = "playing" /\ IpIsRemote(s)
  BY <1>1 DEF Play
<1>2. CASE ~(s.producer_status = "playing" /\ IpIsRemote(s))
  <2>1. PICK p \in StartPlayback(s) :
           r = PlayerStatusChanged(IF p.producer_status = "playing" THEN p
                                                          ELSE ConsumerStop(p))
    BY <1>2 DEF Play
  <2>2. /\ Settled(p)
        /\ p.producer_status \in {"playing", "stopped", "unloaded"}
    BY StartPlaybackLemma DEF BothPlaying, BothStopped
  <2>3. CASE p.producer_status = "playing"
    BY <2>1, <2>2, <2>3, StatusChangedSettled
  <2>4. CASE p.producer_status # "playing"
    <3>1. Settled(ConsumerStop(p))
      BY <2>2, <2>4, ConsumerStopSettled
    <3> QED
      BY <2>1, <2>4, <3>1, StatusChangedSettled
  <2> QED
    BY <2>3, <2>4
<1> QED
  BY <1>1, <1>2

(* player_pause.                                                           *)
LEMMA PauseLemma ==
    ASSUME NEW s, Settled(s), NEW r \in Pause(s)
    PROVE  Settled(r)
<1>1. CASE s.consumer_status = "stopped"
  BY <1>1, StartPlaybackLemma, StatusChangedSettled DEF Pause
<1>2. CASE s.consumer_status = "playing"
  <2> DEFINE p == ProducerStatusUpdate(s, "paused")
             q == ConsumerStatusUpdate(OpPause(p), "paused")
  <2>1. /\ StateInv(s) /\ s.producer_status = "playing"
    BY <1>2 DEF Settled, Agree
  <2>2. /\ ProducerInv(p) /\ SameDevice(s, p) /\ p.file = s.file
        /\ p.producer_status = "paused"
    BY <2>1, SetProducerStatusLemma DEF StateInv, ProducerActive
  <2> HIDE DEF p
  <2>3. StateInv(p) /\ p.consumer_status = "playing"
    BY <1>2, <2>1, <2>2, SameDeviceInv, SameFormatInv DEF StateInv, SameDevice
  <2>4. StateInv(q) /\ SameProducer(p, q) /\ q.consumer_status = "paused"
    BY <2>3, OpPauseLemma
  <2> HIDE DEF q
  <2>5. Settled(q)
    BY <2>2, <2>4 DEF Settled, Agree, SameProducer
  <2>6. r = PlayerStatusChanged(q)
    BY <1>2, <2>1, <2>3 DEF Pause, ProducerPause, ConsumerPause, p, q
  <2> QED
    BY <2>5, <2>6, StatusChangedSettled
<1>3. CASE s.consumer_status = "paused"
  <2> DEFINE p == ProducerStatusUpdate(s, "playing")
             q == ConsumerStatusUpdate(OpUnpause(p), "playing")
  <2>1. /\ StateInv(s) /\ s.producer_status = "paused"
    BY <1>3 DEF Settled, Agree
  <2>2. /\ ProducerInv(p) /\ SameDevice(s, p) /\ p.file = s.file
        /\ p.producer_status = "playing"
    BY <2>1, SetProducerStatusLemma DEF StateInv, ProducerActive
  <2> HIDE DEF p
  <2>3. StateInv(p) /\ p.consumer_status = "paused"
    BY <1>3, <2>1, <2>2, SameDeviceInv, SameFormatInv DEF StateInv, SameDevice
  <2>4. StateInv(q) /\ SameProducer(p, q) /\ q.consumer_status = "playing"
    BY <2>3, OpUnpauseLemma
  <2> HIDE DEF q
  <2>5. Settled(q)
    BY <2>2, <2>4 DEF Settled, Agree, SameProducer
  <2>6. r = PlayerStatusChanged(q)
    BY <1>3, <2>1, <2>3 DEF Pause, ProducerPause, ConsumerPause, p, q
  <2> QED
    BY <2>5, <2>6, StatusChangedSettled
<1> QED
  BY <1>1, <1>2, <1>3 DEF Settled, StateInv, ProducerInv, State, ConsumerStatuses

(* A producer that has just been told to play another file.                *)
LEMMA LoadAndPlayLemma ==
    ASSUME NEW s, Settled(s), NEW t \in Tracks, NEW r \in LoadAndPlay(s, t)
    PROVE  Settled(r) /\ (BothPlaying(r) \/ r.producer_status # "playing")
<1> DEFINE l == ProducerSetFile(s, t)
<1>1. /\ ProducerInv(l) /\ SameDevice(s, l)
      /\ l.file = t /\ l.producer_status = "stopped"
  BY ProducerSetFileLemma DEF Settled, StateInv
<1> HIDE DEF l
<1>2. PICK p \in ProducerPlay(l) :
         r \in IF p.producer_status = "unloaded" THEN {ConsumerStop(p)}
               ELSE IF p.consumer_status = "stopped" THEN OpenDeviceOrStop(p)
               ELSE ChangeSf(p)
  BY DEF LoadAndPlay, l
<1>3. /\ ProducerInv(p) /\ SameDevice(l, p)
      /\ p.producer_status \in {"playing", "unloaded"}
  BY <1>1, ProducerPlayLemma
<1>4. DeviceInv(p)
  BY <1>1, <1>3, SameDeviceInv DEF Settled, StateInv
<1>5. CASE p.producer_status = "unloaded"
  <2>1. r = ConsumerStop(p)
    BY <1>2, <1>5
  <2>2. StateInv(r) /\ SameProducer(p, r) /\ r.consumer_status = "stopped"
    BY <1>3, <1>4, <2>1, ConsumerStopLemma
  <2> QED
    BY <1>5, <2>2 DEF Settled, Agree, SameProducer
<1>6. CASE p.producer_status = "playing" /\ p.consumer_status = "stopped"
  <2>1. StateInv(p)
    BY <1>3, <1>4, <1>6 DEF StateInv, DeviceInv, FormatInv
  <2> QED
    BY <1>2, <1>6, <2>1, OpenDeviceOrStopLemma DEF BothStopped
<1>7. CASE p.producer_status = "playing" /\ p.consumer_status # "stopped"
  BY <1>2, <1>3, <1>4, <1>7, ChangeSfLemma DEF BothStopped
<1> QED
  BY <1>3, <1>5, <1>6, <1>7

(* player_play_file and player_set_file.                                   *)
LEMMA PlayFileLemma ==
    ASSUME NEW s, Settled(s), NEW t \in Tracks,
           NEW r \in PlayFile(s, t) \cup SetFile(s, t)
    PROVE  Settled(r) /\ (BothPlaying(r) \/ r.producer_status # "playing")
<1>1. CASE \E p \in LoadAndPlay(s, t) : r = PlayerStatusChanged(p)
  <2>1. PICK p \in LoadAndPlay(s, t) : r = PlayerStatusChanged(p)
    BY <1>1
  <2>2. Settled(p) /\ (BothPlaying(p) \/ p.producer_status # "playing")
    BY LoadAndPlayLemma
  <2>3. Settled(r) /\ SameDevice(p, r) /\ SameProducer(p, r)
    BY <2>1, <2>2, StatusChangedSettled
  <2> QED
    BY <2>2, <2>3 DEF BothPlaying, SameDevice, SameProducer
<1>2. CASE /\ s.consumer_status = "stopped"
           /\ r = PlayerStatusChanged(ProducerSetFile(s, t))
  <2> DEFINE l == ProducerSetFile(s, t)
  <2>1. /\ ProducerInv(l) /\ SameDevice(s, l) /\ l.producer_status = "stopped"
    BY ProducerSetFileLemma DEF Settled, StateInv
  <2> HIDE DEF l
  <2>2. DeviceInv(l) /\ l.consumer_status = "stopped"
    BY <1>2, <2>1, SameDeviceInv DEF Settled, StateInv, SameDevice
  <2>3. Settled(l)
    BY <2>1, <2>2 DEF Settled, StateInv, Agree, DeviceInv, FormatInv
  <2>4. r = PlayerStatusChanged(l)
    BY <1>2 DEF l
  <2>5. Settled(r) /\ SameProducer(l, r)
    BY <2>3, <2>4, StatusChangedSettled
  <2> QED
    BY <2>1, <2>5 DEF SameProducer
<1> QED
  BY <1>1, <1>2 DEF PlayFile, SetFile

(* player_seek.                                                            *)
LEMMA SeekLemma ==
    ASSUME NEW s, Settled(s), NEW r \in Seek(s)
    PROVE  Settled(r)
<1>1. CASE s.consumer_status = "stopped"
  <2>1. PICK p \in StartPlayback(s) :
           r = IF p.consumer_status = "playing" THEN PlayerStatusChanged(p) ELSE p
    BY <1>1 DEF Seek
  <2>2. Settled(p)
    BY StartPlaybackLemma
  <2> QED
    BY <2>1, <2>2, StatusChangedSettled
<1>2. CASE s.consumer_status # "stopped"
  BY <1>2 DEF Seek
<1> QED
  BY <1>1, <1>2

(* _consumer_handle_eof at the end of a stream.                            *)
LEMMA EofRemoteLemma ==
    ASSUME NEW s, Settled(s)
    PROVE  Settled(EofRemote(s)) /\ EofRemote(s).consumer_status = "stopped"
<1> DEFINE p == ProducerStop(s)
           c == ConsumerStop(p)
<1>1. /\ ProducerInv(p) /\ SameDevice(s, p)
      /\ p.producer_status \in {"unloaded", "stopped"}
  BY ProducerStopLemma DEF Settled, StateInv
<1> HIDE DEF p
<1>2. DeviceInv(p)
  BY <1>1, SameDeviceInv DEF Settled, StateInv
<1>3. StateInv(c) /\ SameProducer(p, c) /\ c.consumer_status = "stopped"
  BY <1>1, <1>2, ConsumerStopLemma
<1> HIDE DEF c
<1>4. Settled(c)
  BY <1>1, <1>3 DEF Settled, Agree, SameProducer
<1>5. EofRemote(s) = PlayerError(c)
  BY DEF EofRemote, c, p
<1> QED
  BY <1>3, <1>4, <1>5, StatusChangedSettled DEF SameDevice

(* _consumer_handle_eof with player_repeat_current.                        *)
LEMMA EofRepeatLemma ==
    ASSUME NEW s, Settled(s), BothPlaying(s), NEW cont \in BOOLEAN,
           NEW r \in EofRepeat(s, cont)
    PROVE  Settled(r)
<1>1. CASE cont
  <2>1. /\ ProducerInv(r) /\ SameDevice(s, r)
        /\ r.file = s.file /\ r.producer_status = "playing"
    BY <1>1, SeekStartLemma DEF EofRepeat, Settled, StateInv, BothPlaying
  <2>2. StateInv(r)
    BY <2>1, SameDeviceInv, SameFormatInv DEF Settled, StateInv
  <2> QED
    BY <2>1, <2>2 DEF Settled, Agree, BothPlaying, SameDevice
<1>2. CASE ~cont
  BY <1>2, StopLemma DEF EofRepeat, Settled
<1> QED
  BY <1>1, <1>2

(* _consumer_handle_eof with another file to play.                         *)
LEMMA PlayLoadedLemma ==
    ASSUME NEW s, ProducerInv(s), DeviceInv(s), s.producer_status = "stopped",
           s.consumer_status = "playing", NEW t \in Tracks,
           NEW r \in PlayLoaded(s, t)
    PROVE  Settled(r) /\ (BothPlaying(r) \/ r.producer_status # "playing")
<1>1. PICK p \in PlayStopped(s) :
         r \in IF p.producer_status = "unloaded"
               THEN {FileChanged(Unref(ConsumerStop(p), t), NoTrack)}
               ELSE ChangeSf(FileChanged(p, t))
  BY DEF PlayLoaded
<1>2. /\ ProducerInv(p) /\ SameDevice(s, p)
      /\ p.producer_status \in {"playing", "unloaded"}
  BY PlayStoppedLemma
<1>3. DeviceInv(p) /\ p.consumer_status = "playing"
  BY <1>2, SameDeviceInv DEF SameDevice
<1>4. CASE p.producer_status = "unloaded"
  <2> DEFINE c == ConsumerStop(p)
             d == Unref(c, t)
  <2>1. StateInv(c) /\ SameProducer(p, c) /\ c.consumer_status = "stopped"
    BY <1>2, <1>3, ConsumerStopLemma
  <2>2. r = FileChanged(d, NoTrack)
    BY <1>1, <1>4
  <2> HIDE DEF c
  <2>3. StateInv(d) /\ SameDevice(c, d) /\ SameProducer(c, d)
    BY <2>1, ReportLemma
  <2> HIDE DEF d
  <2>4. StateInv(r) /\ SameDevice(d, r) /\ SameProducer(d, r)
    BY <2>2, <2>3, ReportLemma
  <2> QED
    BY <1>4, <2>1, <2>3, <2>4 DEF Settled, Agree, SameDevice, SameProducer
<1>5. CASE p.producer_status = "playing"
  <2> DEFINE f == FileChanged(p, t)
  <2>1. ProducerInv(f) /\ SameDevice(p, f) /\ SameProducer(p, f)
    BY <1>2, RefLemma
  <2>2. r \in ChangeSf(f)
    BY <1>1, <1>5
  <2> HIDE DEF f
  <2>3. /\ DeviceInv(f) /\ f.producer_status = "playing"
        /\ f.consumer_status # "stopped"
    BY <1>3, <1>5, <2>1, SameDeviceInv DEF SameDevice, SameProducer
  <2> QED
    BY <2>1, <2>2, <2>3, ChangeSfLemma DEF BothStopped
<1> QED
  BY <1>2, <1>4, <1>5

(* Closing the device under a producer that does not play.                 *)
LEMMA CloseSettles ==
    ASSUME NEW s, ProducerInv(s), DeviceInv(s),
           s.producer_status \in {"unloaded", "stopped"},
           NEW t \in Tracks \cup {NoTrack}
    PROVE  LET r == PlayerStatusChanged(FileChanged(ConsumerStop(s), t))
           IN  Settled(r) /\ r.producer_status # "playing"
<1> DEFINE c == ConsumerStop(s)
           f == FileChanged(c, t)
           r == PlayerStatusChanged(f)
<1>1. StateInv(c) /\ SameProducer(s, c) /\ c.consumer_status = "stopped"
  BY ConsumerStopLemma
<1> HIDE DEF c
<1>2. StateInv(f) /\ SameDevice(c, f) /\ SameProducer(c, f)
  BY <1>1, ReportLemma
<1> HIDE DEF f
<1>3. StateInv(r) /\ SameDevice(f, r) /\ SameProducer(f, r)
  BY <1>2, ReportLemma
<1> HIDE DEF r
<1>4. Settled(r) /\ r.producer_status # "playing"
  BY <1>1, <1>2, <1>3 DEF Settled, Agree, SameDevice, SameProducer
<1> QED
  BY <1>4 DEF c, f, r

(* _consumer_handle_eof with an answer from cmus_get_next_track().         *)
LEMMA EofNextLemma ==
    ASSUME NEW s, Settled(s), BothPlaying(s),
           NEW t \in Tracks \cup {NoTrack}, NEW cont \in BOOLEAN,
           NEW r \in EofNext(s, t, cont)
    PROVE  Settled(r) /\ (BothPlaying(r) \/ r.producer_status # "playing")
<1>1. CASE t = NoTrack
  <2> DEFINE u == ProducerUnload(s)
  <2>1. /\ ProducerInv(u) /\ SameDevice(s, u)
        /\ u.producer_status = "unloaded"
    BY ProducerUnloadLemma DEF Settled, StateInv
  <2>2. r = PlayerStatusChanged(FileChanged(ConsumerStop(u), NoTrack))
    BY <1>1 DEF EofNext
  <2> HIDE DEF u
  <2>3. DeviceInv(u)
    BY <2>1, SameDeviceInv DEF Settled, StateInv
  <2> QED
    BY <2>1, <2>2, <2>3, CloseSettles
<1>2. CASE t # NoTrack
  <2> DEFINE u == Ref(s, t)
             l == LoadNext(u, t)
  <2>1. StateInv(u) /\ SameDevice(s, u)
    BY ReportLemma DEF Settled
  <2> HIDE DEF u
  <2>2. ProducerInv(l) /\ SameDevice(u, l) /\ l.producer_status = "stopped"
    BY <1>2, <2>1, LoadNextLemma DEF StateInv
  <2>3. /\ ~cont => r = PlayerStatusChanged(FileChanged(ConsumerStop(l), t))
        /\ cont => \E p \in PlayLoaded(l, t) : r = p \/ r = PlayerStatusChanged(p)
    BY <1>2 DEF EofNext, u
  <2> HIDE DEF l
  <2>4. DeviceInv(l) /\ l.consumer_status = "playing"
    BY <2>1, <2>2, SameDeviceInv DEF StateInv, SameDevice, BothPlaying
  <2>5. CASE ~cont
    BY <2>2, <2>3, <2>4, <2>5, CloseSettles
  <2>6. CASE cont
    <3>1. PICK p \in PlayLoaded(l, t) : r = p \/ r = PlayerStatusChanged(p)
      BY <2>3, <2>6
    <3>2. Settled(p) /\ (BothPlaying(p) \/ p.producer_status # "playing")
      BY <1>2, <2>2, <2>4, PlayLoadedLemma
    <3>3. CASE r = p
      BY <3>2, <3>3
    <3>4. CASE r = PlayerStatusChanged(p)
      <4>1. Settled(r) /\ SameDevice(p, r) /\ SameProducer(p, r)
        BY <3>2, <3>4, StatusChangedSettled
      <4> QED
        BY <3>2, <4>1 DEF BothPlaying, SameDevice, SameProducer
    <3> QED
      BY <3>1, <3>3, <3>4
  <2> QED
    BY <2>5, <2>6
<1> QED
  BY <1>1, <1>2

-----------------------------------------------------------------------------
(* The inductive invariant.                                                *)

HoldsConsumer == {"write", "consume", "starved", "reopen", "request", "reply",
                  "prebuffer"}
HoldsBoth == {"request", "reply", "prebuffer"}

(* Who holds which mutex where; after player_exit nobody holds any.        *)
LockInv ==
    /\ prod \in {"first", "second"} <=> pmutex = "producer"
    /\ cons \in HoldsConsumer <=> cmutex = "consumer"
    /\ cons \in HoldsBoth <=> pmutex = "consumer"
    /\ main \in {"lock_p", "prebuffer"} => cmutex = "main"
    /\ main = "prebuffer" => pmutex = "main"
    /\ ~running => /\ cmutex = "free" /\ pmutex = "free"
                   /\ main \in {"join", "done"}
    /\ call.op \in {"set_file", "play_file"} => call.ti \in Tracks

(* What a thread relies on between two of its steps.                       *)
PlaceInv ==
    /\ prod \in {"first", "second"} => pl.producer_status = "playing"
    /\ cons \in HoldsConsumer \ {"reopen"} => BothPlaying(pl)
    /\ cons = "reopen" => /\ pl.consumer_status = "stopped"
                          /\ pl.producer_status = "playing"
    /\ cons = "consume" => pl.filled > 0
    /\ cons \in {"consume", "starved"} => space > 0
    /\ cons \in {"request", "reply"} => pl.filled = 0 /\ ~pl.partial /\ pl.eof
    /\ main = "prebuffer" => BothPlaying(pl)

ControlOK ==
    /\ cmutex \in Threads \cup {"free"} /\ pmutex \in Threads \cup {"free"}
    /\ running \in BOOLEAN
    /\ main \in MainPlaces
    /\ call \in [op : AllCalls \cup {"none"}, ti : Tracks \cup {NoTrack}]
    /\ cons \in ConsPlaces /\ space \in Nat
    /\ prod \in ProdPlaces
    /\ reply \in Tracks \cup {NoTrack}

PlayerInv == StateInv(pl) /\ (running => Agree(pl))

IInv == ControlOK /\ PlayerInv /\ LockInv /\ PlaceInv

(* The static initialisers satisfy the invariant.                          *)
LEMMA InitInv == Init => IInv
<1> SUFFICES ASSUME Init PROVE IInv
  OBVIOUS
<1>1. pl = InitialState
  BY DEF Init
<1>2. pl \in State
  BY <1>1, ZeroFilled DEF InitialState, State, ProducerStatuses,
     ConsumerStatuses, PluginStates, DeviceStates
<1>3. PluginInv(pl) /\ BufferInv(pl) /\ DeviceInv(pl) /\ FormatInv(pl) /\ Agree(pl)
  BY <1>1 DEF InitialState, PluginInv, BufferInv, DeviceInv, FormatInv, Agree,
     ProducerActive
<1>4. PlayerInv
  BY <1>2, <1>3 DEF PlayerInv, StateInv, ProducerInv
<1>5. ControlOK
  BY DEF Init, ControlOK, NoCall, Threads, MainPlaces, ConsPlaces, ProdPlaces,
     AllCalls
<1>6. LockInv /\ PlaceInv
  BY DEF Init, LockInv, PlaceInv, NoCall, HoldsConsumer, HoldsBoth
<1> QED
  BY <1>4, <1>5, <1>6 DEF IInv

(* The main thread moves without touching the player.                      *)
LEMMA BeginCallInv ==
    ASSUME IInv, CallDirect \/ CallPause \/ CallPausePlayback
    PROVE  IInv'
<1>1. /\ UNCHANGED <<pl, cmutex, pmutex, running, cons, space, prod, reply>>
      /\ main \in {"idle", "checked"} /\ main' \in {"lock_c", "checked"}
      /\ call' \in [op : AllCalls \cup {"none"}, ti : Tracks \cup {NoTrack}]
      /\ call'.op \in {"set_file", "play_file"} => call'.ti \in Tracks
  <2>1. CASE CallDirect
    BY <2>1, CallsAssumption DEF CallDirect, BeginCall, AllCalls
  <2>2. CASE CallPause
    BY <2>2 DEF CallPause, PauseCheck, BeginCall, AllCalls
  <2>3. CASE CallPausePlayback
    BY <2>3 DEF CallPausePlayback, AllCalls
  <2> QED
    BY <2>1, <2>2, <2>3
<1>2. ControlOK'
  BY <1>1 DEF IInv, ControlOK, MainPlaces
<1>3. PlayerInv'
  BY <1>1 DEF IInv, PlayerInv
<1>4. LockInv' /\ PlaceInv'
  BY <1>1 DEF IInv, LockInv, PlaceInv
<1> QED
  BY <1>2, <1>3, <1>4 DEF IInv

(* player_lock takes consumer_mutex first.                                 *)
LEMMA LockConsumerInv ==
    ASSUME IInv, LockConsumer
    PROVE  IInv'
<1>1. ControlOK' /\ PlayerInv'
  BY DEF IInv, LockConsumer, ControlOK, PlayerInv, MainPlaces, Threads
<1>2. LockInv' /\ PlaceInv'
  BY DEF IInv, LockConsumer, LockInv, PlaceInv, ControlOK
<1> QED
  BY <1>1, <1>2 DEF IInv

(* While the main thread runs a function under both mutexes, the other two *)
(* hold none, so PlaceInv asks nothing of them.                            *)
LEMMA MainAlone ==
    ASSUME IInv, main = "lock_p", pmutex = "free"
    PROVE  /\ Settled(pl) /\ running /\ cmutex = "main"
           /\ cons \notin HoldsConsumer /\ prod \notin {"first", "second"}
BY DEF IInv, PlayerInv, LockInv, Settled, ControlOK

(* The functions of the main thread that take both mutexes.                *)
LEMMA CallBodyLemma ==
    ASSUME IInv, main = "lock_p", pmutex = "free",
           call.op \in AllCalls \ {"seek", "exit", "pause_playback"},
           NEW r \in CallBody(pl)
    PROVE  Settled(r) /\ (Prebuffers(r) => BothPlaying(r))
<1>0. Settled(pl)
  BY MainAlone
<1>1. CASE call.op = "stop"
  BY <1>0, <1>1, StopLemma DEF CallBody, Prebuffers, Settled
<1>2. CASE call.op = "play"
  <2>1. Settled(r)
    BY <1>0, <1>2, PlayLemma DEF CallBody
  <2> QED
    BY <1>2, <2>1 DEF Prebuffers, Settled, Agree, BothPlaying
<1>3. CASE call.op = "pause"
  <2>1. Settled(r)
    BY <1>0, <1>3, PauseLemma DEF CallBody
  <2> QED
    BY <1>3, <2>1 DEF Prebuffers, Settled, Agree, BothPlaying
<1>4. CASE call.op \in {"set_file", "play_file"}
  <2>1. call.ti \in Tracks
    BY <1>4 DEF IInv, LockInv
  <2>2. r \in PlayFile(pl, call.ti) \cup SetFile(pl, call.ti)
    BY <1>4 DEF CallBody
  <2>3. Settled(r) /\ (BothPlaying(r) \/ r.producer_status # "playing")
    BY <1>0, <2>1, <2>2, PlayFileLemma
  <2> QED
    BY <1>4, <2>3 DEF Prebuffers
<1> QED
  BY <1>1, <1>2, <1>3, <1>4 DEF AllCalls

(* Such a function, from lock to unlock.                                   *)
LEMMA RunCallInv ==
    ASSUME IInv, RunCall
    PROVE  IInv'
<1>1. /\ main = "lock_p" /\ pmutex = "free"
      /\ UNCHANGED <<running, cons, space, prod, reply>>
  BY DEF RunCall
<1>2. /\ running /\ cmutex = "main"
      /\ cons \notin HoldsConsumer /\ prod \notin {"first", "second"}
  BY <1>1, MainAlone
<1>3. Settled(pl') /\ (Prebuffers(pl') => BothPlaying(pl'))
  BY <1>1, CallBodyLemma DEF RunCall
<1>4. \/ /\ cmutex' = "free" /\ pmutex' = "free" /\ main' = "idle"
         /\ call' = NoCall
      \/ /\ cmutex' = "main" /\ pmutex' = "main" /\ main' = "prebuffer"
         /\ call' = call /\ BothPlaying(pl')
  BY <1>3 DEF RunCall, Unlock, HoldFor
<1>5. PlayerInv'
  BY <1>3 DEF PlayerInv, Settled
<1>6. ControlOK'
  BY <1>1, <1>4 DEF IInv, ControlOK, NoCall, MainPlaces, Threads, AllCalls
<1>7. LockInv'
  BY <1>1, <1>2, <1>4 DEF IInv, LockInv, NoCall, HoldsBoth, HoldsConsumer
<1>8. PlaceInv'
  BY <1>1, <1>2, <1>4 DEF PlaceInv, HoldsConsumer
<1> QED
  BY <1>5, <1>6, <1>7, <1>8 DEF IInv

(* player_seek, which may keep the mutexes.                                *)
LEMMA RunSeekInv ==
    ASSUME IInv, RunSeek
    PROVE  IInv'
<1>1. /\ main = "lock_p" /\ pmutex = "free"
      /\ UNCHANGED <<running, cons, space, prod, reply>>
      /\ pl' \in Seek(pl)
      /\ main' = "idle" /\ call' = NoCall
      /\ \/ cmutex' = "free" /\ pmutex' = "free"
         \/ cmutex' = "main" /\ pmutex' = "main"
  BY DEF RunSeek, Unlock
<1>2. /\ Settled(pl) /\ running /\ cmutex = "main"
      /\ cons \notin HoldsConsumer /\ prod \notin {"first", "second"}
  BY <1>1, MainAlone
<1>3. PlayerInv'
  BY <1>1, <1>2, SeekLemma DEF PlayerInv, Settled
<1>4. ControlOK'
  BY <1>1 DEF IInv, ControlOK, NoCall, MainPlaces, Threads, AllCalls
<1>5. LockInv'
  BY <1>1, <1>2 DEF IInv, LockInv, NoCall, HoldsBoth, HoldsConsumer
<1>6. PlaceInv'
  BY <1>1, <1>2 DEF PlaceInv, HoldsConsumer
<1> QED
  BY <1>3, <1>4, <1>5, <1>6 DEF IInv

(* A broadcast moves threads between places without mutexes.               *)
LEMMA WaitersLemma ==
    ASSUME NEW s, StateInv(s), NEW w \in SUBSET {"producer", "consumer"}
    PROVE  LET r == [s EXCEPT !.waiting = w]
           IN  StateInv(r) /\ SameDevice(s, r) /\ SameProducer(s, r)
<1> DEFINE r == [s EXCEPT !.waiting = w]
<1>1. r \in State /\ SameDevice(s, r) /\ SameProducer(s, r)
  BY DEF StateInv, ProducerInv, State, SameDevice, SameProducer
<1> QED
  BY <1>1, SameProducerInv, SameDeviceInv, SameFormatInv
     DEF StateInv, SameProducer

(* player_exit tells the threads to end.                                   *)
LEMMA RunExitInv ==
    ASSUME IInv, RunExit
    PROVE  IInv'
<1>1. /\ main = "lock_p" /\ pmutex = "free" /\ running' = FALSE
      /\ pl' = [pl EXCEPT !.waiting = {}]
      /\ cmutex' = "free" /\ main' = "join"
      /\ UNCHANGED <<pmutex, call, cons, space, prod, reply>>
  BY DEF RunExit, WakeBoth
<1>2. /\ Settled(pl)
      /\ cons \notin HoldsConsumer /\ prod \notin {"first", "second"}
  BY <1>1, MainAlone
<1>3. PlayerInv'
  BY <1>1, <1>2, WaitersLemma DEF PlayerInv, Settled
<1>4. ControlOK'
  BY <1>1 DEF IInv, ControlOK, MainPlaces
<1>5. LockInv'
  BY <1>1, <1>2 DEF IInv, LockInv, HoldsBoth, HoldsConsumer
<1>6. PlaceInv'
  BY <1>1, <1>2 DEF PlaceInv, HoldsConsumer
<1> QED
  BY <1>3, <1>4, <1>5, <1>6 DEF IInv

(* player_exit waits for them.                                             *)
LEMMA JoinInv ==
    ASSUME IInv, Join
    PROVE  IInv'
<1>1. ControlOK' /\ PlayerInv'
  BY DEF IInv, Join, ControlOK, PlayerInv, MainPlaces, NoCall, AllCalls
<1>2. LockInv' /\ PlaceInv'
  BY DEF IInv, Join, LockInv, PlaceInv, NoCall
<1> QED
  BY <1>1, <1>2 DEF IInv

(* A round of _prebuffer keeps both halves as they were.                   *)
LEMMA PrebufferSettled ==
    ASSUME NEW s, Settled(s), BothPlaying(s),
           NEW r \in PrebufferMore(s) \cup PrebufferEnd(s)
    PROVE  Settled(r) /\ BothPlaying(r)
<1>1. ProducerInv(r) /\ SameDevice(s, r) /\ SameStatuses(s, r)
  BY PrebufferLemma DEF Settled, StateInv, BothPlaying
<1>2. StateInv(r)
  BY <1>1, SameDeviceInv, SameFormatInv DEF Settled, StateInv, SameStatuses
<1> QED
  BY <1>1, <1>2 DEF Settled, Agree, BothPlaying, SameDevice, SameStatuses

(* _prebuffer in the main thread.                                          *)
LEMMA MainPrebufferInv ==
    ASSUME IInv, MainPrebuffer
    PROVE  IInv'
<1>1. /\ main = "prebuffer" /\ UNCHANGED <<running, cons, space, prod, reply>>
      /\ pl' \in PrebufferMore(pl) \cup PrebufferEnd(pl)
      /\ \/ UNCHANGED <<cmutex, pmutex, main, call>>
         \/ /\ cmutex' = "free" /\ pmutex' = "free" /\ main' = "idle"
            /\ call' = NoCall
  BY DEF MainPrebuffer, Unlock
<1>2. /\ running /\ Settled(pl) /\ BothPlaying(pl)
      /\ cmutex = "main" /\ pmutex = "main"
      /\ cons \notin HoldsConsumer /\ prod \notin {"first", "second"}
  BY <1>1 DEF IInv, PlayerInv, LockInv, PlaceInv, Settled, ControlOK
<1>3. Settled(pl') /\ BothPlaying(pl')
  BY <1>1, <1>2, PrebufferSettled
<1>4. PlayerInv'
  BY <1>3 DEF PlayerInv, Settled
<1>5. ControlOK'
  BY <1>1 DEF IInv, ControlOK, NoCall, MainPlaces, Threads, AllCalls
<1>6. LockInv'
  BY <1>1, <1>2 DEF IInv, LockInv, NoCall, HoldsBoth, HoldsConsumer
<1>7. PlaceInv'
  BY <1>1, <1>2, <1>3 DEF PlaceInv, HoldsConsumer
<1> QED
  BY <1>4, <1>5, <1>6, <1>7 DEF IInv

(* The main loop answers cmus_get_next_track.                              *)
LEMMA ProvideNextTrackInv ==
    ASSUME IInv, ProvideNextTrack
    PROVE  IInv'
<1>1. ControlOK' /\ PlayerInv'
  BY DEF IInv, ProvideNextTrack, ControlOK, PlayerInv, ConsPlaces
<1>2. LockInv' /\ PlaceInv'
  BY DEF IInv, ProvideNextTrack, LockInv, PlaceInv, HoldsConsumer, HoldsBoth
<1> QED
  BY <1>1, <1>2 DEF IInv

-----------------------------------------------------------------------------
(* The consumer thread.                                                    *)

(* The top of consumer_loop.                                               *)
LEMMA ConsumerBeginInv ==
    ASSUME IInv, ConsumerBegin
    PROVE  IInv'
<1>0. /\ cons = "loop" /\ cmutex = "free" /\ StateInv(pl)
      /\ UNCHANGED <<pmutex, running, main, call, prod, reply>>
      /\ running => Agree(pl)
  BY DEF ConsumerBegin, IInv, PlayerInv
<1>1. CASE /\ ~running /\ pl' = ConsumerStop(pl) /\ cons' = "done"
           /\ UNCHANGED <<cmutex, space>>
  <2>1. StateInv(pl') /\ SameProducer(pl, pl')
    BY <1>0, <1>1, ConsumerStopLemma DEF StateInv
  <2>2. ControlOK' /\ PlayerInv'
    BY <1>0, <1>1, <2>1 DEF IInv, ControlOK, PlayerInv, ConsPlaces
  <2>3. LockInv'
    BY <1>0, <1>1 DEF IInv, LockInv, HoldsConsumer, HoldsBoth
  <2>4. PlaceInv'
    BY <1>0, <1>1, <2>1
       DEF IInv, LockInv, PlaceInv, SameProducer, HoldsConsumer, ControlOK
  <2> QED
    BY <2>2, <2>3, <2>4 DEF IInv
<1>2. CASE /\ pl' = [pl EXCEPT !.waiting = @ \cup {"consumer"}]
           /\ UNCHANGED <<cmutex, cons, space>>
  <2>1. StateInv(pl') /\ SameDevice(pl, pl') /\ SameProducer(pl, pl')
    <3>1. pl.waiting \cup {"consumer"} \in SUBSET {"producer", "consumer"}
      BY <1>0 DEF StateInv, ProducerInv, State
    <3> QED
      BY <1>0, <1>2, <3>1, WaitersLemma
  <2>2. ControlOK' /\ PlayerInv'
    BY <1>0, <1>2, <2>1
       DEF IInv, ControlOK, PlayerInv, Agree, SameDevice, SameProducer
  <2>3. LockInv'
    BY <1>0, <1>2 DEF IInv, LockInv
  <2>4. PlaceInv'
    BY <1>0, <1>2, <2>1
       DEF IInv, PlaceInv, BothPlaying, SameDevice, SameProducer
  <2> QED
    BY <2>2, <2>3, <2>4 DEF IInv
<1>3. CASE /\ running /\ pl.consumer_status = "playing" /\ pl' = DeviceLost(pl)
           /\ cmutex' = "consumer" /\ cons' = "reopen" /\ UNCHANGED space
  <2>1. /\ StateInv(pl') /\ SameProducer(pl, pl')
        /\ pl'.consumer_status = "stopped"
    BY <1>0, <1>3, DeviceLostLemma DEF StateInv
  <2>2. pl'.producer_status = "playing"
    BY <1>0, <1>3, <2>1 DEF Agree, SameProducer
  <2>3. ControlOK' /\ PlayerInv'
    BY <1>0, <1>3, <2>1, <2>2
       DEF IInv, ControlOK, PlayerInv, Agree, ConsPlaces, Threads
  <2>4. LockInv'
    BY <1>0, <1>3 DEF IInv, LockInv, HoldsConsumer, HoldsBoth, ControlOK
  <2>5. PlaceInv'
    BY <1>0, <1>3, <2>1, <2>2
       DEF IInv, LockInv, PlaceInv, SameProducer, HoldsConsumer
  <2> QED
    BY <2>3, <2>4, <2>5 DEF IInv
<1>4. CASE /\ running /\ pl.consumer_status = "playing" /\ UNCHANGED pl
           /\ cmutex' = "consumer" /\ cons' = "write"
           /\ space' \in 0 .. MaxSpace
  <2>1. BothPlaying(pl)
    BY <1>0, <1>4 DEF Agree, BothPlaying
  <2>2. ControlOK' /\ PlayerInv'
    BY <1>0, <1>4, BoundsAssumption
       DEF IInv, ControlOK, PlayerInv, ConsPlaces, Threads
  <2>3. LockInv'
    BY <1>0, <1>4 DEF IInv, LockInv, HoldsConsumer, HoldsBoth, ControlOK
  <2>4. PlaceInv'
    BY <1>0, <1>4, <2>1 DEF IInv, PlaceInv
  <2> QED
    BY <2>2, <2>3, <2>4 DEF IInv
<1> QED
  BY <1>1, <1>2, <1>3, <1>4 DEF ConsumerBegin, ConsumerHasWork

(* The device is lost and opened again.                                    *)
LEMMA ConsumerReopenInv ==
    ASSUME IInv, ConsumerReopen
    PROVE  IInv'
<1>1. /\ cons = "reopen" /\ cmutex = "consumer" /\ StateInv(pl) /\ running
      /\ pl.producer_status = "playing"
      /\ pl' \in ConsumerPlay(pl) /\ cmutex' = "free" /\ cons' = "loop"
      /\ UNCHANGED <<space, pmutex, running, main, call, prod, reply>>
  BY DEF ConsumerReopen, IInv, PlayerInv, LockInv, PlaceInv, HoldsConsumer,
     ControlOK
<1>2. /\ StateInv(pl') /\ SameProducer(pl, pl')
      /\ pl'.consumer_status \in {"playing", "stopped"}
  BY <1>1, ConsumerPlayLemma
<1>3. ControlOK' /\ PlayerInv'
  BY <1>1, <1>2
     DEF IInv, ControlOK, PlayerInv, Agree, SameProducer, ConsPlaces, Threads
<1>4. LockInv'
  BY <1>1 DEF IInv, LockInv, HoldsConsumer, HoldsBoth
<1>5. PlaceInv'
  BY <1>1, <1>2 DEF IInv, LockInv, PlaceInv, SameProducer, HoldsConsumer
<1> QED
  BY <1>3, <1>4, <1>5 DEF IInv

(* op_write.                                                               *)
LEMMA ConsumerWriteInv ==
    ASSUME IInv, ConsumerWrite
    PROVE  IInv'
<1>1. /\ cons = "write" /\ cmutex = "consumer" /\ BothPlaying(pl) /\ running
      /\ UNCHANGED <<pl, space, pmutex, running, main, call, prod, reply>>
      /\ space \in Nat
  BY DEF ConsumerWrite, IInv, LockInv, PlaceInv, HoldsConsumer, ControlOK
<1>2. \/ cmutex' = "free" /\ cons' \in {"loop", "hung"}
      \/ cmutex' = cmutex /\ cons' = "starved" /\ space > 0
      \/ cmutex' = cmutex /\ cons' = "consume" /\ space > 0 /\ pl.filled > 0
  BY <1>1 DEF ConsumerWrite, AfterSleep
<1>3. ControlOK' /\ PlayerInv'
  BY <1>1, <1>2 DEF IInv, ControlOK, PlayerInv, ConsPlaces, Threads
<1>4. LockInv'
  BY <1>1, <1>2 DEF IInv, LockInv, HoldsConsumer, HoldsBoth
<1>5. PlaceInv'
  BY <1>1, <1>2 DEF IInv, PlaceInv, HoldsConsumer
<1> QED
  BY <1>3, <1>4, <1>5 DEF IInv

(* buffer_consume of a full chunk.                                         *)
LEMMA TakeChunkLemma ==
    ASSUME NEW s, StateInv(s), s.filled > 0
    PROVE  LET r == [s EXCEPT !.filled = @ - 1]
           IN  StateInv(r) /\ SameDevice(s, r) /\ SameStatuses(s, r)
<1> DEFINE r == [s EXCEPT !.filled = @ - 1]
<1>0. s \in State /\ PluginInv(s) /\ BufferInv(s)
  BY DEF StateInv, ProducerInv
<1>1. s.filled - 1 \in 0 .. NrChunks /\ s.filled \in 0 .. NrChunks
  BY <1>0, ChunksAssumption DEF State
<1>2. r \in State
  BY <1>0, <1>1 DEF State
<1>3. SameDevice(s, r) /\ SameStatuses(s, r) /\ PluginInv(r)
  BY <1>0 DEF State, SameDevice, SameStatuses, PluginInv, ProducerActive
<1>4. /\ r.filled = s.filled - 1 /\ r.partial = s.partial /\ r.eof = s.eof
      /\ r.data = s.data
  BY <1>0 DEF State
<1>5. BufferInv(r)
  BY <1>0, <1>1, <1>3, <1>4, ChunksAssumption
     DEF BufferInv, SameStatuses, ProducerActive
<1> QED
  BY <1>2, <1>3, <1>5, SameDeviceInv, SameFormatInv
     DEF StateInv, ProducerInv, SameStatuses

(* consumer_loop consumes what it has written.                             *)
LEMMA ConsumerConsumeInv ==
    ASSUME IInv, ConsumerConsume
    PROVE  IInv'
<1>1. /\ cons = "consume" /\ cmutex = "consumer" /\ BothPlaying(pl) /\ running
      /\ StateInv(pl) /\ Agree(pl) /\ pl.filled > 0 /\ space > 0
      /\ UNCHANGED <<cmutex, pmutex, running, main, call, prod, reply>>
      /\ main # "prebuffer"
  BY DEF ConsumerConsume, IInv, PlayerInv, LockInv, PlaceInv, HoldsConsumer,
     ControlOK
<1>2. CASE pl' = DeviceLost(pl) /\ cons' = "reopen" /\ UNCHANGED space
  <2>1. /\ StateInv(pl') /\ SameProducer(pl, pl')
        /\ pl'.consumer_status = "stopped"
    BY <1>1, <1>2, DeviceLostLemma DEF StateInv
  <2>2. pl'.producer_status = "playing"
    BY <1>1, <2>1 DEF BothPlaying, SameProducer
  <2>3. ControlOK' /\ PlayerInv'
    BY <1>1, <1>2, <2>1, <2>2 DEF IInv, ControlOK, PlayerInv, Agree, ConsPlaces
  <2>4. LockInv'
    BY <1>1, <1>2 DEF IInv, LockInv, HoldsConsumer, HoldsBoth
  <2>5. PlaceInv'
    BY <1>1, <1>2, <2>1, <2>2 DEF IInv, PlaceInv, HoldsConsumer
  <2> QED
    BY <2>3, <2>4, <2>5 DEF IInv
<1>3. CASE /\ pl' \in {pl, [pl EXCEPT !.filled = @ - 1]}
           /\ space' \in 0 .. space - 1 /\ cons' = "write"
  <2>1. StateInv(pl') /\ SameDevice(pl, pl') /\ SameStatuses(pl, pl')
    BY <1>1, <1>3, TakeChunkLemma DEF SameDevice, SameStatuses
  <2>2. BothPlaying(pl') /\ Agree(pl')
    BY <1>1, <2>1 DEF BothPlaying, Agree, SameDevice, SameStatuses
  <2>3. ControlOK' /\ PlayerInv'
    BY <1>1, <1>3, <2>1, <2>2 DEF IInv, ControlOK, PlayerInv, ConsPlaces
  <2>4. LockInv'
    BY <1>1, <1>3 DEF IInv, LockInv, HoldsConsumer, HoldsBoth
  <2>5. PlaceInv'
    BY <1>1, <1>3, <2>2 DEF IInv, PlaceInv, BothPlaying
  <2> QED
    BY <2>3, <2>4, <2>5 DEF IInv
<1> QED
  BY <1>2, <1>3 DEF ConsumerConsume

(* consumer_loop finds no data and looks for the end of the file.          *)
LEMMA ConsumerStarvedInv ==
    ASSUME IInv, ConsumerStarved
    PROVE  IInv'
<1>1. /\ cons = "starved" /\ cmutex = "consumer" /\ pmutex = "free"
      /\ BothPlaying(pl) /\ space > 0 /\ running
      /\ UNCHANGED <<pl, space, running, main, call, prod, reply>>
  BY DEF ConsumerStarved, IInv, LockInv, PlaceInv, HoldsConsumer, ControlOK
<1>2. \/ cmutex' = "free" /\ pmutex' = "free" /\ cons' \in {"loop", "hung"}
      \/ cmutex' = cmutex /\ pmutex' = pmutex /\ cons' = "consume" /\ pl.filled > 0
  BY <1>1 DEF ConsumerStarved, ConsumerUnlock, AfterSleep
<1>3. ControlOK' /\ PlayerInv'
  BY <1>1, <1>2 DEF IInv, ControlOK, PlayerInv, ConsPlaces, Threads
<1>4. LockInv'
  BY <1>1, <1>2 DEF IInv, LockInv, HoldsConsumer, HoldsBoth
<1>5. PlaceInv'
  BY <1>1, <1>2 DEF IInv, PlaceInv, HoldsConsumer
<1> QED
  BY <1>3, <1>4, <1>5 DEF IInv

(* A step of the consumer that ends with both mutexes free.                *)
LEMMA ConsumerReleases ==
    ASSUME IInv, cmutex = "consumer", pmutex \in {"free", "consumer"},
           Settled(pl'), cons' = "loop", cmutex' = "free", pmutex' = "free",
           UNCHANGED <<space, running, main, call, prod>>,
           reply' \in Tracks \cup {NoTrack}
    PROVE  IInv'
<1>1. main # "prebuffer" /\ prod \notin {"first", "second"}
  BY DEF IInv, LockInv
<1>2. ControlOK' /\ PlayerInv'
  BY DEF IInv, ControlOK, PlayerInv, Settled, ConsPlaces, Threads
<1>3. LockInv'
  BY <1>1 DEF IInv, LockInv, HoldsConsumer, HoldsBoth
<1>4. PlaceInv'
  BY <1>1 DEF PlaceInv, HoldsConsumer
<1> QED
  BY <1>2, <1>3, <1>4 DEF IInv

(* _consumer_handle_eof until it asks for a track.                         *)
LEMMA ConsumerEofInv ==
    ASSUME IInv, ConsumerEof
    PROVE  IInv'
<1>1. /\ cons = "starved" /\ cmutex = "consumer" /\ pmutex = "free"
      /\ Settled(pl) /\ BothPlaying(pl) /\ running
      /\ pl.filled = 0 /\ pl.eof
      /\ UNCHANGED <<space, running, main, call, prod, reply>>
      /\ reply \in Tracks \cup {NoTrack}
  BY DEF ConsumerEof, AtEof, IInv, PlayerInv, LockInv, PlaceInv, HoldsConsumer,
     ControlOK, Settled
<1>2. CASE pl' = EofRemote(pl) /\ ConsumerUnlock("loop")
  BY <1>1, <1>2, EofRemoteLemma, ConsumerReleases DEF ConsumerUnlock
<1>3. CASE /\ \E cont \in Cont : pl' \in EofRepeat(pl, cont)
           /\ ConsumerUnlock("loop")
  <2>1. Settled(pl')
    BY <1>1, <1>3, EofRepeatLemma, OptionsAssumption
  <2> QED
    BY <1>1, <1>3, <2>1, ConsumerReleases DEF ConsumerUnlock
<1>4. CASE ConsumerHold("request") /\ UNCHANGED pl
  <2>1. ~pl.partial
    BY <1>1 DEF Settled, StateInv, ProducerInv, BufferInv
  <2>2. ControlOK' /\ PlayerInv'
    BY <1>1, <1>4
       DEF IInv, ConsumerHold, ControlOK, PlayerInv, ConsPlaces, Threads
  <2>3. LockInv'
    BY <1>1, <1>4 DEF IInv, ConsumerHold, LockInv, HoldsConsumer, HoldsBoth
  <2>4. PlaceInv'
    BY <1>1, <1>4, <2>1 DEF IInv, ConsumerHold, PlaceInv, HoldsConsumer
  <2> QED
    BY <2>2, <2>3, <2>4 DEF IInv
<1> QED
  BY <1>2, <1>3, <1>4 DEF ConsumerEof

(* A step of the consumer that ends in _prebuffer.                         *)
LEMMA ConsumerPrebuffers ==
    ASSUME IInv, cons \in HoldsBoth,
           Settled(pl'), BothPlaying(pl'), cons' = "prebuffer",
           UNCHANGED <<cmutex, pmutex, space, running, main, call, prod>>,
           reply' \in Tracks \cup {NoTrack}
    PROVE  IInv'
<1>1. main # "prebuffer" /\ prod \notin {"first", "second"}
  BY DEF IInv, LockInv
<1>2. ControlOK' /\ PlayerInv'
  BY DEF IInv, ControlOK, PlayerInv, Settled, ConsPlaces
<1>3. LockInv'
  BY DEF IInv, LockInv, HoldsConsumer, HoldsBoth
<1>4. PlaceInv'
  BY <1>1 DEF PlaceInv
<1> QED
  BY <1>2, <1>3, <1>4 DEF IInv

(* _consumer_handle_eof with the answer.                                   *)
LEMMA ConsumerNextInv ==
    ASSUME IInv, ConsumerNext
    PROVE  IInv'
<1>1. /\ cons = "reply" /\ cmutex = "consumer" /\ pmutex = "consumer"
      /\ Settled(pl) /\ BothPlaying(pl) /\ running
      /\ reply \in Tracks \cup {NoTrack} /\ reply' = NoTrack
      /\ UNCHANGED <<space, running, main, call, prod>>
  BY DEF ConsumerNext, IInv, PlayerInv, LockInv, PlaceInv, HoldsConsumer,
     HoldsBoth, ControlOK, Settled
<1>2. PICK cont \in Cont : pl' \in EofNext(pl, reply, cont)
  BY DEF ConsumerNext
<1>3. Settled(pl') /\ (BothPlaying(pl') \/ pl'.producer_status # "playing")
  BY <1>1, <1>2, EofNextLemma, OptionsAssumption
<1>4. CASE pl'.producer_status = "playing"
  <2>1. cons' = "prebuffer" /\ UNCHANGED <<cmutex, pmutex>>
    BY <1>1, <1>4 DEF ConsumerNext, ConsumerHold
  <2> QED
    BY <1>1, <1>3, <1>4, <2>1, ConsumerPrebuffers DEF HoldsBoth
<1>5. CASE pl'.producer_status # "playing"
  <2>1. cons' = "loop" /\ cmutex' = "free" /\ pmutex' = "free"
    BY <1>5 DEF ConsumerNext, ConsumerUnlock
  <2> QED
    BY <1>1, <1>3, <2>1, ConsumerReleases
<1> QED
  BY <1>4, <1>5

(* _prebuffer in the consumer.                                             *)
LEMMA ConsumerPrebufferInv ==
    ASSUME IInv, ConsumerPrebuffer
    PROVE  IInv'
<1>1. /\ cons = "prebuffer" /\ cmutex = "consumer" /\ pmutex = "consumer"
      /\ Settled(pl) /\ BothPlaying(pl) /\ reply \in Tracks \cup {NoTrack}
      /\ UNCHANGED <<space, running, main, call, prod, reply>>
  BY DEF ConsumerPrebuffer, IInv, PlayerInv, LockInv, PlaceInv, HoldsConsumer,
     HoldsBoth, ControlOK, Settled
<1>2. CASE pl' \in PrebufferMore(pl) /\ UNCHANGED <<cmutex, pmutex, cons>>
  <2>1. Settled(pl') /\ BothPlaying(pl')
    BY <1>1, <1>2, PrebufferSettled
  <2> QED
    BY <1>1, <1>2, <2>1, ConsumerPrebuffers DEF HoldsBoth
<1>3. CASE /\ \E p \in PrebufferEnd(pl) : pl' = PlayerStatusChanged(p)
           /\ ConsumerUnlock("loop")
  <2>1. PICK p \in PrebufferEnd(pl) : pl' = PlayerStatusChanged(p)
    BY <1>3
  <2>2. Settled(p)
    BY <1>1, PrebufferSettled
  <2>3. Settled(pl')
    BY <2>1, <2>2, StatusChangedSettled
  <2> QED
    BY <1>1, <1>3, <2>3, ConsumerReleases DEF ConsumerUnlock
<1> QED
  BY <1>2, <1>3 DEF ConsumerPrebuffer

-----------------------------------------------------------------------------
(* The producer thread.                                                    *)

(* The top of producer_loop.                                               *)
LEMMA ProducerBeginInv ==
    ASSUME IInv, ProducerBegin
    PROVE  IInv'
<1>0. /\ prod = "loop" /\ pmutex = "free" /\ StateInv(pl)
      /\ UNCHANGED <<cmutex, running, main, call, cons, space, reply>>
      /\ running => Agree(pl)
  BY DEF ProducerBegin, IInv, PlayerInv
<1>1. CASE ~running /\ pl' = ProducerUnload(pl) /\ prod' = "done" /\ UNCHANGED pmutex
  <2>1. ProducerInv(pl') /\ SameDevice(pl, pl') /\ pl'.file = pl.file
    BY <1>0, <1>1, ProducerUnloadLemma DEF StateInv
  <2>2. StateInv(pl')
    BY <1>0, <2>1, SameDeviceInv, SameFormatInv DEF StateInv
  <2>3. ControlOK' /\ PlayerInv'
    BY <1>0, <1>1, <2>2 DEF IInv, ControlOK, PlayerInv, ProdPlaces
  <2>4. LockInv'
    BY <1>0, <1>1 DEF IInv, LockInv
  <2>5. PlaceInv'
    BY <1>0, <1>1
       DEF IInv, LockInv, PlaceInv, HoldsConsumer, ControlOK
  <2> QED
    BY <2>3, <2>4, <2>5 DEF IInv
<1>2. CASE /\ pl' = [pl EXCEPT !.waiting = @ \cup {"producer"}]
           /\ UNCHANGED <<pmutex, prod>>
  <2>1. StateInv(pl') /\ SameDevice(pl, pl') /\ SameProducer(pl, pl')
    <3>1. pl.waiting \cup {"producer"} \in SUBSET {"producer", "consumer"}
      BY <1>0 DEF StateInv, ProducerInv, State
    <3> QED
      BY <1>0, <1>2, <3>1, WaitersLemma
  <2>2. ControlOK' /\ PlayerInv'
    BY <1>0, <1>2, <2>1
       DEF IInv, ControlOK, PlayerInv, Agree, SameDevice, SameProducer
  <2>3. LockInv'
    BY <1>0, <1>2 DEF IInv, LockInv
  <2>4. PlaceInv'
    BY <1>0, <1>2, <2>1
       DEF IInv, PlaceInv, BothPlaying, SameDevice, SameProducer
  <2> QED
    BY <2>2, <2>3, <2>4 DEF IInv
<1>3. CASE /\ running /\ pl.producer_status = "playing" /\ UNCHANGED pl
           /\ pmutex' = "producer" /\ prod' = "first"
  <2>1. ControlOK' /\ PlayerInv'
    BY <1>0, <1>3 DEF IInv, ControlOK, PlayerInv, ProdPlaces, Threads
  <2>2. LockInv'
    BY <1>0, <1>3 DEF IInv, LockInv, HoldsBoth, ControlOK
  <2>3. PlaceInv'
    BY <1>0, <1>3 DEF IInv, PlaceInv
  <2> QED
    BY <2>1, <2>2, <2>3 DEF IInv
<1> QED
  BY <1>1, <1>2, <1>3 DEF ProducerBegin, ProducerHasWork

(* producer_loop fills the buffer.                                         *)
LEMMA ProducerReadInv ==
    ASSUME IInv, ProducerRead
    PROVE  IInv'
<1>1. /\ prod \in {"first", "second"} /\ pmutex = "producer" /\ running
      /\ StateInv(pl) /\ Agree(pl) /\ pl.producer_status = "playing"
      /\ UNCHANGED <<cmutex, running, main, call, cons, space, reply>>
      /\ main # "prebuffer" /\ cons \notin HoldsBoth
  BY DEF ProducerRead, IInv, PlayerInv, LockInv, PlaceInv, ControlOK
<1>2. /\ \/ pl' = pl
         \/ /\ pl.filled < NrChunks
            /\ pl' \in {ReadEnd(pl)} \cup ReadError(pl) \cup ReadData(pl)
      /\ \/ pmutex' = "free" /\ prod' \in {"loop", "hung"}
         \/ pmutex' = pmutex /\ prod' = "second"
  BY <1>1 DEF ProducerRead, ProducerSleep, AfterSleep
<1>3. /\ ProducerInv(pl') /\ SameDevice(pl, pl') /\ SameStatuses(pl, pl')
      /\ pl'.filled >= pl.filled
  <2>1. pl.filled >= pl.filled
    BY <1>1 DEF StateInv, ProducerInv, State
  <2>2. CASE pl' = pl
    BY <1>1, <2>1, <2>2 DEF StateInv, SameDevice, SameStatuses
  <2>3. CASE pl' # pl
    BY <1>1, <1>2, <2>3, ReadLemma DEF StateInv
  <2> QED
    BY <2>2, <2>3
<1>4. StateInv(pl')
  BY <1>1, <1>3, SameDeviceInv, SameFormatInv DEF StateInv, SameStatuses
<1>5. ControlOK' /\ PlayerInv'
  BY <1>1, <1>2, <1>3, <1>4 DEF IInv, ControlOK, PlayerInv, ProdPlaces, Threads,
     Agree, SameDevice, SameStatuses
<1>6. LockInv'
  BY <1>1, <1>2 DEF IInv, LockInv, HoldsBoth
<1>7. PlaceInv'
  <2>1. pl'.filled \in Int /\ pl.filled \in Int
    BY <1>1, <1>3, ChunksAssumption DEF StateInv, ProducerInv, State
  <2>2. pl.filled > 0 => pl'.filled > 0
    BY <1>3, <2>1
  <2> QED
    BY <1>1, <1>3, <2>2
       DEF IInv, PlaceInv, BothPlaying, SameDevice, SameStatuses, HoldsBoth,
           HoldsConsumer
<1> QED
  BY <1>5, <1>6, <1>7 DEF IInv

-----------------------------------------------------------------------------
(* Every step keeps the invariant.                                         *)
LEMMA NextInv == IInv /\ [Next]_vars => IInv'
<1> SUFFICES ASSUME IInv, [Next]_vars PROVE IInv'
  OBVIOUS
<1>1. CASE CallDirect \/ CallPause \/ CallPausePlayback
  BY <1>1, BeginCallInv
<1>2. CASE MainStep
  BY <1>2, LockConsumerInv, RunCallInv, RunSeekInv, RunExitInv, JoinInv,
     MainPrebufferInv, ProvideNextTrackInv DEF MainStep
<1>3. CASE ConsumerStep
  BY <1>3, ConsumerBeginInv, ConsumerReopenInv, ConsumerWriteInv,
     ConsumerConsumeInv, ConsumerStarvedInv, ConsumerEofInv, ConsumerNextInv,
     ConsumerPrebufferInv DEF ConsumerStep
<1>4. CASE ProducerStep
  BY <1>4, ProducerBeginInv, ProducerReadInv DEF ProducerStep
<1>5. CASE UNCHANGED vars
  BY <1>5 DEF vars, IInv, ControlOK, PlayerInv, LockInv, PlaceInv
<1> QED
  BY <1>1, <1>2, <1>3, <1>4, <1>5 DEF Next, Terminated

(* The inductive invariant holds in every reachable state.                 *)
THEOREM Invariant == Spec => []IInv
<1>1. Init => IInv
  BY InitInv
<1>2. IInv /\ [Next]_vars => IInv'
  BY NextInv
<1> QED
  BY <1>1, <1>2, PTL DEF Spec

(* Every variable keeps its type: no chunk count leaves 0 .. NrChunks, no  *)
(* status, place or lock holder leaves its set.                            *)
THEOREM TypeCorrect == Spec => []TypeOK
<1>1. IInv => TypeOK
  BY DEF IInv, ControlOK, PlayerInv, StateInv, ProducerInv, TypeOK
<1> QED
  BY <1>1, Invariant, PTL

(* The two halves of the player never disagree about who plays.            *)
THEOREM StatusesAlwaysAgree == Spec => []StatusesAgree
<1>1. IInv => StatusesAgree
  BY DEF IInv, PlayerInv, Agree, StatusesAgree
<1> QED
  BY <1>1, Invariant, PTL

(* An open device always runs in the format of the file that plays.        *)
THEOREM DeviceAlwaysMatches == Spec => []DeviceMatches
<1>1. IInv => DeviceMatches
  BY DEF IInv, PlayerInv, StateInv, DeviceInv, FormatInv, DeviceMatches
<1> QED
  BY <1>1, Invariant, PTL

(* The buffer never holds sound of a file that is no longer loaded.        *)
THEOREM BufferAlwaysBelongs == Spec => []BufferBelongs
<1>1. IInv => BufferBelongs
  BY DEF IInv, PlayerInv, StateInv, ProducerInv, BufferInv, ProducerActive,
     BufferBelongs
<1> QED
  BY <1>1, Invariant, PTL

(* The next track is only asked for once this one was played to its end,   *)
(* and nothing is read while the answer is awaited.                        *)
THEOREM TailAlwaysPlayed == Spec => []TailPlayed
<1>1. IInv => TailPlayed
  BY DEF IInv, PlaceInv, TailPlayed
<1> QED
  BY <1>1, Invariant, PTL

(* Whoever uses the input plug-in, with or without its mutex, uses one     *)
(* that is open.                                                           *)
THEOREM PluginAlwaysOpen == Spec => []UsedPluginOpen
<1>1. IInv => UsedPluginOpen
  BY DEF IInv, PlayerInv, StateInv, ProducerInv, PluginInv, ProducerActive,
     PlaceInv, HoldsConsumer, BothPlaying, UsedPluginOpen
<1> QED
  BY <1>1, Invariant, PTL

(* The assertions of _prebuffer and of the buffer are never hit.           *)
THEOREM AssertionsHold == Spec => []NoBugOn
<1>1. IInv => NoBugOn
  BY DEF IInv, PlaceInv, HoldsConsumer, BothPlaying, NoBugOn
<1> QED
  BY <1>1, Invariant, PTL

-----------------------------------------------------------------------------
(***************************************************************************)
(* What the player tells others: the threads that wait on its condition    *)
(* variables (Wakes), the track and the references it holds for the user   *)
(* interface (Owes, Shown), and the status it shows.  The operators that   *)
(* neither take a track nor give one up are Quiet: they broadcast to those *)
(* who wait, never make anyone wait, and keep the track.  All of it rests  *)
(* on the invariant above.                                                 *)
(***************************************************************************)


Wakes(s) ==
    /\ "consumer" \in s.waiting => s.consumer_status # "playing"
    /\ "producer" \in s.waiting => s.producer_status # "playing" \/ s.eof

(* The references that are held: one to the track that is shown, and one to*)
(* t, which an operator has in its hands.                                  *)
Owes(s, t) ==
    \A x \in Tracks : s.refs[x] = (IF x = s.ti THEN 1 ELSE 0)
                                  + (IF x = t THEN 1 ELSE 0)

Shown(s) == s.producer_status # "unloaded" => s.ti = s.file

Quiet(s, r) ==
    /\ r.waiting \subseteq s.waiting
    /\ r.ti = s.ti /\ r.refs = s.refs
    /\ r.producer_status # "unloaded" =>
          s.producer_status # "unloaded" /\ r.file = s.file

Reported(s) == s.status = s.consumer_status

Honest(s) ==
    \/ Reported(s)
    \/ s.status = "stopped" /\ s.consumer_status = "playing"

(* A report shows the status there is.                                     *)
LEMMA ReportReported ==
    ASSUME NEW q \in State, NEW r \in {PlayerError(q), PlayerStatusChanged(q)}
    PROVE  Reported(r)
BY DEF State, PlayerError, PlayerStatusChanged, Reported

(* One quiet operator after another.                                       *)
LEMMA QuietTwice ==
    ASSUME NEW s, NEW q, NEW r, Quiet(s, q), Quiet(q, r)
    PROVE  Quiet(s, r)
BY DEF Quiet

-----------------------------------------------------------------------------
(* The quiet operators.                                                    *)

(* Reports change only the status that is shown.                           *)
LEMMA ErrorQuiet ==
    ASSUME NEW s \in State, Wakes(s),
           NEW r \in {s, PlayerError(s), PlayerStatusChanged(s)}
    PROVE  Quiet(s, r) /\ Wakes(r)
BY DEF State, PlayerError, PlayerStatusChanged, Quiet, Wakes

(* _producer_stop, which may stop what was stopped.                        *)
LEMMA ProducerStopQuiet ==
    ASSUME NEW s \in State, Wakes(s)
    PROVE  Quiet(s, ProducerStop(s)) /\ Wakes(ProducerStop(s))
BY DEF State, ProducerStop, ResetBuffer, ProducerStatusUpdate, IpClose, Quiet,
   Wakes

(* _producer_unload.                                                       *)
LEMMA ProducerUnloadQuiet ==
    ASSUME NEW s, ProducerInv(s), Wakes(s)
    PROVE  Quiet(s, ProducerUnload(s)) /\ Wakes(ProducerUnload(s))
<1> DEFINE q == ProducerStop(s)
<1>1. q \in State /\ Quiet(s, q) /\ Wakes(q)
  BY ProducerStopLemma, ProducerStopQuiet DEF ProducerInv
<1> HIDE DEF q
<1>2. ProducerUnload(s) = IF q.producer_status = "stopped"
                          THEN ProducerStatusUpdate(IpDelete(q), "unloaded")
                          ELSE q
  BY DEF ProducerUnload, q
<1>3. Quiet(q, ProducerUnload(s)) /\ Wakes(ProducerUnload(s))
  BY <1>1, <1>2 DEF State, ProducerStatusUpdate, IpDelete, Quiet, Wakes
<1> QED
  BY <1>1, <1>3, QuietTwice

(* _producer_play of a file that is loaded.                                *)
LEMMA PlayLoadedQuiet ==
    ASSUME NEW s, ProducerInv(s), Wakes(s), s.producer_status # "unloaded",
           NEW r \in ProducerPlay(s)
    PROVE  Quiet(s, r) /\ Wakes(r)
<1>1. s \in State
  BY DEF ProducerInv
<1>2. CASE r = ProducerStatusUpdate(IpOpen(s), "playing")
  BY <1>1, <1>2 DEF State, ProducerStatusUpdate, IpOpen, Quiet, Wakes
<1>3. CASE r = ProducerStatusUpdate(IpDelete(PlayerError(s)), "unloaded")
  BY <1>1, <1>3
     DEF State, ProducerStatusUpdate, IpDelete, PlayerError, Quiet, Wakes
<1>4. CASE r = s
  BY <1>4 DEF Quiet
<1>5. CASE r = ResetBuffer(SeekStart(s))
  BY <1>1, <1>5 DEF State, ResetBuffer, SeekStart, Quiet, Wakes
<1>6. CASE r = ProducerStatusUpdate(s, "playing")
  BY <1>1, <1>6 DEF State, ProducerStatusUpdate, Quiet, Wakes
<1>7. \/ r \in {s, ResetBuffer(SeekStart(s))}
      \/ r \in PlayStopped(s)
      \/ r = ProducerStatusUpdate(s, "playing")
  BY <1>1 DEF ProducerPlay, State, ProducerStatuses
<1> QED
  BY <1>2, <1>3, <1>4, <1>5, <1>6, <1>7 DEF PlayStopped

(* _producer_pause.                                                        *)
LEMMA ProducerPauseQuiet ==
    ASSUME NEW s \in State, Wakes(s)
    PROVE  Quiet(s, ProducerPause(s)) /\ Wakes(ProducerPause(s))
BY DEF State, ProducerPause, ProducerStatusUpdate, Quiet, Wakes

(* _consumer_status_update, whatever was done to the device before it.     *)
LEMMA ConsumerUpdateQuiet ==
    ASSUME NEW s \in State, Wakes(s), NEW status \in ConsumerStatuses,
           NEW d \in {s, OpClose(s), OpPause(s), OpUnpause(s), OpOpen(s)}
    PROVE  LET r == ConsumerStatusUpdate(d, status)
           IN  Quiet(s, r) /\ Wakes(r)
<1>0. d \in State
  BY DeviceType
<1>1. /\ d.waiting = s.waiting /\ d.ti = s.ti /\ d.refs = s.refs
      /\ d.producer_status = s.producer_status /\ d.file = s.file /\ d.eof = s.eof
  <2>1. CASE d = s
    BY <2>1
  <2>2. CASE d = OpClose(s)
    BY <2>2 DEF State, OpClose
  <2>3. CASE d = OpPause(s)
    BY <2>3 DEF State, OpPause
  <2>4. CASE d = OpUnpause(s)
    BY <2>4 DEF State, OpUnpause
  <2>5. CASE d = OpOpen(s)
    BY <2>5 DEF State, OpOpen
  <2> QED
    BY <2>1, <2>2, <2>3, <2>4, <2>5
<1> DEFINE r == ConsumerStatusUpdate(d, status)
<1>2. /\ r.waiting = d.waiting \ {"consumer"} /\ r.ti = d.ti /\ r.refs = d.refs
      /\ r.producer_status = d.producer_status /\ r.file = d.file /\ r.eof = d.eof
  BY <1>0 DEF State, ConsumerStatusUpdate
<1> HIDE DEF r
<1>3. Quiet(s, r) /\ Wakes(r)
  BY <1>1, <1>2 DEF Quiet, Wakes
<1> QED
  BY <1>3 DEF r

(* _consumer_stop, _consumer_pause and a lost device.                      *)
LEMMA ConsumerQuiet ==
    ASSUME NEW s \in State, Wakes(s),
           NEW r \in {ConsumerStop(s), ConsumerPause(s), DeviceLost(s)}
    PROVE  Quiet(s, r) /\ Wakes(r)
<1>1. \/ r = s
      \/ r = ConsumerStatusUpdate(OpClose(s), "stopped")
      \/ r = ConsumerStatusUpdate(OpPause(s), "paused")
      \/ r = ConsumerStatusUpdate(OpUnpause(s), "playing")
  BY DEF ConsumerStop, ConsumerPause, DeviceLost
<1>2. CASE r = s
  BY <1>2 DEF Quiet
<1> QED
  BY <1>1, <1>2, ConsumerUpdateQuiet DEF ConsumerStatuses

(* set_buffer_sf.                                                          *)
LEMMA SetBufferSfQuiet ==
    ASSUME NEW s \in State, Wakes(s), s.file \in Tracks
    PROVE  /\ SetBufferSf(s) \in State
           /\ Quiet(s, SetBufferSf(s)) /\ Wakes(SetBufferSf(s))
BY SetBufferSfType DEF State, SetBufferSf, Quiet, Wakes

(* _consumer_play.                                                         *)
LEMMA ConsumerPlayQuiet ==
    ASSUME NEW s \in State, Wakes(s), s.file \in Tracks, NEW r \in ConsumerPlay(s)
    PROVE  Quiet(s, r) /\ Wakes(r)
<1> DEFINE set == SetBufferSf(s)
<1>1. set \in State /\ Quiet(s, set) /\ Wakes(set)
  BY SetBufferSfQuiet
<1>2. \/ r = s
      \/ r = ConsumerStatusUpdate(OpOpen(set), "playing")
      \/ r = PlayerError(set)
      \/ r = ConsumerStatusUpdate(OpUnpause(s), "playing")
  BY DEF ConsumerPlay, State, ConsumerStatuses
<1> HIDE DEF set
<1>3. CASE r \in {s, ConsumerStatusUpdate(OpUnpause(s), "playing")}
  BY <1>3, ConsumerUpdateQuiet DEF ConsumerStatuses, Quiet
<1>4. CASE r \in {ConsumerStatusUpdate(OpOpen(set), "playing"), PlayerError(set)}
  <2>1. Quiet(set, r) /\ Wakes(r)
    BY <1>1, <1>4, ConsumerUpdateQuiet, ErrorQuiet DEF ConsumerStatuses
  <2> QED
    BY <1>1, <2>1, QuietTwice
<1> QED
  BY <1>2, <1>3, <1>4

(* A read, and a round of _prebuffer.                                      *)
LEMMA ReadQuiet ==
    ASSUME NEW s \in State, Wakes(s),
           NEW r \in {ReadEnd(s)} \cup ReadError(s) \cup ReadData(s)
    PROVE  Quiet(s, r) /\ Wakes(r)
<1>1. CASE r = ReadEnd(s)
  BY <1>1 DEF State, ReadEnd, Flush, Quiet, Wakes
<1>2. CASE r \in ReadError(s)
  <2>1. PICK e \in {s.eof, TRUE} : r = Flush([PlayerError(s) EXCEPT !.eof = e])
    BY <1>2 DEF ReadError
  <2> DEFINE q == [PlayerError(s) EXCEPT !.eof = e]
  <2>2. Quiet(s, q) /\ Wakes(q)
    BY DEF State, PlayerError, Quiet, Wakes
  <2>3. q \in State
    BY PlayerErrorType DEF State
  <2> HIDE DEF q
  <2>4. Quiet(q, Flush(q)) /\ Wakes(Flush(q))
    BY <2>2, <2>3 DEF State, Flush, Quiet, Wakes
  <2>5. r = Flush(q)
    BY <2>1 DEF q
  <2> QED
    BY <2>2, <2>4, <2>5, QuietTwice
<1>3. CASE r = [s EXCEPT !.filled = @ + 1, !.partial = FALSE, !.data = s.file]
  BY <1>3 DEF State, Quiet, Wakes
<1>4. CASE r = [s EXCEPT !.partial = TRUE, !.data = s.file]
  BY <1>4 DEF State, Quiet, Wakes
<1> QED
  BY <1>1, <1>2, <1>3, <1>4 DEF ReadData

(* A round of _prebuffer.                                                  *)
LEMMA PrebufferQuiet ==
    ASSUME NEW s \in State, Wakes(s),
           NEW r \in PrebufferMore(s) \cup PrebufferEnd(s)
    PROVE  Quiet(s, r) /\ Wakes(r)
<1>1. r = s \/ r \in {ReadEnd(s)} \cup ReadError(s) \cup ReadData(s)
  BY DEF PrebufferMore, PrebufferEnd
<1> QED
  BY <1>1, ReadQuiet DEF Quiet

(* player_play stops the producer when the device does not open.           *)
LEMMA OpenDeviceOrStopQuiet ==
    ASSUME NEW s, StateInv(s), s.producer_status = "playing", Wakes(s),
           NEW r \in OpenDeviceOrStop(s)
    PROVE  Quiet(s, r) /\ Wakes(r)
<1>1. PICK c \in ConsumerPlay(s) :
         r = IF c.consumer_status # "playing" THEN ProducerStop(c) ELSE c
  BY DEF OpenDeviceOrStop
<1>2. c \in State /\ s \in State /\ s.file \in Tracks
  BY ConsumerPlayLemma DEF StateInv, ProducerInv, PluginInv
<1>3. Quiet(s, c) /\ Wakes(c)
  BY <1>2, ConsumerPlayQuiet
<1>4. Quiet(c, r) /\ Wakes(r)
  BY <1>1, <1>2, <1>3, ProducerStopQuiet DEF Quiet
<1> QED
  BY <1>3, <1>4, QuietTwice

(* change_sf.                                                              *)
LEMMA ChangeSfQuiet ==
    ASSUME NEW s \in State, s.file \in Tracks, Wakes(s), NEW r \in ChangeSf(s)
    PROVE  Quiet(s, r) /\ Wakes(r)
<1> DEFINE set == SetBufferSf(s)
           shut == OpClose(set)
           q == ConsumerStatusUpdate(PlayerError(shut), "stopped")
<1>1. set \in State /\ Quiet(s, set) /\ Wakes(set)
  BY SetBufferSfQuiet
<1>2. \/ r = ConsumerStatusUpdate(OpOpen(shut), "playing")
      \/ r = ProducerStop(q)
      \/ r = ConsumerStatusUpdate(OpUnpause(set), "playing")
      \/ r = ConsumerStatusUpdate(set, "playing")
  BY DEF ChangeSf
<1> HIDE DEF set
<1>3. shut \in State /\ Quiet(set, shut) /\ Wakes(shut)
  BY <1>1, DeviceType DEF State, OpClose, Quiet, Wakes
<1> HIDE DEF shut
<1>4. CASE r = ConsumerStatusUpdate(OpOpen(shut), "playing")
  <2>1. Quiet(shut, r) /\ Wakes(r)
    BY <1>3, <1>4, ConsumerUpdateQuiet DEF ConsumerStatuses
  <2> QED
    BY <1>1, <1>3, <2>1, QuietTwice
<1>5. CASE r = ProducerStop(q)
  <2>1. /\ PlayerError(shut) \in State
        /\ Quiet(shut, PlayerError(shut)) /\ Wakes(PlayerError(shut))
    BY <1>3, ErrorQuiet, PlayerErrorType
  <2>2. q \in State /\ Quiet(PlayerError(shut), q) /\ Wakes(q)
    BY <2>1, ConsumerUpdateQuiet, ConsumerStatusUpdateType DEF ConsumerStatuses
  <2> HIDE DEF q
  <2>3. Quiet(q, r) /\ Wakes(r)
    BY <1>5, <2>2, ProducerStopQuiet
  <2> QED
    BY <1>1, <1>3, <2>1, <2>2, <2>3, QuietTwice
<1>6. CASE r \in {ConsumerStatusUpdate(OpUnpause(set), "playing"),
                  ConsumerStatusUpdate(set, "playing")}
  <2>1. Quiet(set, r) /\ Wakes(r)
    BY <1>1, <1>6, ConsumerUpdateQuiet DEF ConsumerStatuses
  <2> QED
    BY <1>1, <2>1, QuietTwice
<1> QED
  BY <1>2, <1>4, <1>5, <1>6

-----------------------------------------------------------------------------
(* The operators that change the track.                                    *)

Tells(s) == Wakes(s) /\ Owes(s, NoTrack) /\ Shown(s)

(* After a quiet operator the player tells what it told.                   *)
LEMMA QuietTells ==
    ASSUME NEW s, NEW r, Tells(s), Quiet(s, r), Wakes(r)
    PROVE  Tells(r) /\ r.waiting \subseteq s.waiting
BY DEF Tells, Quiet, Owes, Shown

(* track_info_ref: the track is in the player's hands.                     *)
LEMMA RefOwes ==
    ASSUME NEW s \in State, Owes(s, NoTrack), NEW t \in Tracks
    PROVE  LET r == Ref(s, t)
           IN  /\ Owes(r, t) /\ r.waiting = s.waiting
               /\ r.producer_status = s.producer_status
               /\ r.consumer_status = s.consumer_status /\ r.eof = s.eof
BY TracksAssumption DEF State, Ref, Owes

(* file_changed with that track: the old one is given up.                  *)
LEMMA FileChangedOwes ==
    ASSUME NEW s \in State, NEW t \in Tracks \cup {NoTrack}, Owes(s, t)
    PROVE  LET r == FileChanged(s, t)
           IN  /\ Owes(r, NoTrack) /\ r.waiting = s.waiting /\ r.ti = t
               /\ r.producer_status = s.producer_status /\ r.file = s.file
               /\ r.consumer_status = s.consumer_status /\ r.eof = s.eof
<1> DEFINE q == Unref(s, s.ti)
           r == FileChanged(s, t)
<1>0. s.refs \in [Tracks -> Int] /\ s.ti \in Tracks \cup {NoTrack}
  BY DEF State
<1>1. /\ q \in State /\ q.waiting = s.waiting
      /\ q.producer_status = s.producer_status /\ q.file = s.file
      /\ q.consumer_status = s.consumer_status /\ q.eof = s.eof
  BY <1>0, RefType DEF State, Unref
<1>2. \A x \in Tracks : q.refs[x] = IF x = s.ti THEN s.refs[x] - 1 ELSE s.refs[x]
  BY <1>0, TracksAssumption DEF State, Unref
<1> HIDE DEF q
<1>3. r = [q EXCEPT !.ti = t]
  BY DEF FileChanged, q
<1>4. /\ r.ti = t /\ r.refs = q.refs /\ r.waiting = q.waiting
      /\ r.producer_status = q.producer_status /\ r.file = q.file
      /\ r.consumer_status = q.consumer_status /\ r.eof = q.eof
  BY <1>1, <1>3 DEF State
<1> HIDE DEF r
<1>5. Owes(r, NoTrack)
  <2> SUFFICES ASSUME NEW x \in Tracks
               PROVE  r.refs[x] = (IF x = r.ti THEN 1 ELSE 0)
                                  + (IF x = NoTrack THEN 1 ELSE 0)
    BY DEF Owes
  <2>1. s.refs[x] = (IF x = s.ti THEN 1 ELSE 0) + (IF x = t THEN 1 ELSE 0)
    BY DEF Owes
  <2>2. x # NoTrack
    BY TracksAssumption
  <2> QED
    BY <1>0, <1>2, <1>4, <2>1, <2>2
<1>6. /\ Owes(r, NoTrack) /\ r.waiting = s.waiting /\ r.ti = t
      /\ r.producer_status = s.producer_status /\ r.file = s.file
      /\ r.consumer_status = s.consumer_status /\ r.eof = s.eof
  BY <1>1, <1>4, <1>5
<1> QED
  BY <1>6 DEF r

(* The track is given back when it cannot be played.                       *)
LEMMA UnrefOwes ==
    ASSUME NEW s \in State, NEW t \in Tracks, Owes(s, t)
    PROVE  LET r == Unref(s, t)
           IN  /\ Owes(r, NoTrack) /\ r.waiting = s.waiting
               /\ r.producer_status = s.producer_status
               /\ r.consumer_status = s.consumer_status /\ r.eof = s.eof
<1> DEFINE r == Unref(s, t)
<1>1. s.refs \in [Tracks -> Int] /\ t # NoTrack
  BY TracksAssumption DEF State
<1>2. /\ r.ti = s.ti /\ r.waiting = s.waiting
      /\ r.producer_status = s.producer_status
      /\ r.consumer_status = s.consumer_status /\ r.eof = s.eof
  BY <1>1 DEF State, Unref
<1>3. \A x \in Tracks : r.refs[x] = IF x = t THEN s.refs[x] - 1 ELSE s.refs[x]
  BY <1>1 DEF State, Unref
<1> HIDE DEF r
<1>4. Owes(r, NoTrack)
  <2> SUFFICES ASSUME NEW x \in Tracks
               PROVE  r.refs[x] = (IF x = r.ti THEN 1 ELSE 0)
                                  + (IF x = NoTrack THEN 1 ELSE 0)
    BY DEF Owes
  <2>1. s.refs[x] = (IF x = s.ti THEN 1 ELSE 0) + (IF x = t THEN 1 ELSE 0)
    BY DEF Owes
  <2>2. x # NoTrack
    BY TracksAssumption
  <2> QED
    BY <1>1, <1>2, <1>3, <2>1, <2>2
<1> QED
  BY <1>2, <1>4 DEF r

Told(s, r) == Tells(r) /\ r.waiting \subseteq s.waiting

(* _producer_play without a file.                                          *)
LEMMA PlayNextTold ==
    ASSUME NEW s, ProducerInv(s), s.producer_status = "unloaded", Tells(s),
           NEW t \in Tracks, NEW r \in PlayNext(s, t)
    PROVE  Told(s, r)
<1> DEFINE u == Ref(s, t)
           fresh == IpNew(u, t)
           opened == ProducerStatusUpdate(IpOpen(fresh), "playing")
           failed == IpDelete(PlayerError(fresh))
<1>1. s \in State /\ Wakes(s) /\ Owes(s, NoTrack)
  BY DEF ProducerInv, Tells
<1>2. /\ u \in State /\ Owes(u, t) /\ u.waiting = s.waiting
      /\ u.producer_status = "unloaded"
      /\ u.consumer_status = s.consumer_status
  BY <1>1, RefType, RefOwes
<1> HIDE DEF u
<1>3. /\ fresh \in State /\ Owes(fresh, t) /\ fresh.waiting = s.waiting
      /\ fresh.producer_status = "unloaded" /\ fresh.file = t
      /\ fresh.consumer_status = s.consumer_status
  BY <1>2, IpNewType DEF State, IpNew, Owes
<1>4. r = FileChanged(opened, t) \/ r = FileChanged(Unref(failed, t), NoTrack)
  BY DEF PlayNext, u
<1> HIDE DEF fresh
<1>5. CASE r = FileChanged(opened, t)
  <2>1. opened \in State
    BY <1>3, ProducerStatusUpdateType, PluginType DEF ProducerStatuses
  <2>2. /\ Owes(opened, t) /\ opened.waiting = s.waiting \ {"producer"}
        /\ opened.file = t /\ opened.consumer_status = s.consumer_status
    BY <1>3 DEF State, ProducerStatusUpdate, IpOpen, Owes
  <2> HIDE DEF opened
  <2>3. /\ Owes(r, NoTrack) /\ r.waiting = opened.waiting /\ r.ti = t
        /\ r.file = opened.file /\ r.consumer_status = opened.consumer_status
    BY <1>5, <2>1, <2>2, FileChangedOwes
  <2> QED
    BY <1>1, <2>2, <2>3 DEF Told, Tells, Wakes, Shown
<1>6. CASE r = FileChanged(Unref(failed, t), NoTrack)
  <2> DEFINE d == Unref(failed, t)
  <2>1. failed \in State
    BY <1>3, PlayerErrorType, PluginType
  <2>2. /\ Owes(failed, t) /\ failed.waiting = s.waiting
        /\ failed.producer_status = "unloaded"
        /\ failed.consumer_status = s.consumer_status
    BY <1>3 DEF State, IpDelete, PlayerError, Owes
  <2> HIDE DEF failed
  <2>3. /\ d \in State /\ Owes(d, NoTrack) /\ d.waiting = s.waiting
        /\ d.producer_status = "unloaded"
        /\ d.consumer_status = s.consumer_status
    BY <2>1, <2>2, RefType, UnrefOwes
  <2> HIDE DEF d
  <2>4. /\ Owes(r, NoTrack) /\ r.waiting = s.waiting
        /\ r.producer_status = "unloaded"
        /\ r.consumer_status = s.consumer_status
    BY <1>6, <2>3, FileChangedOwes DEF d
  <2> QED
    BY <1>1, <2>4 DEF Told, Tells, Wakes, Shown
<1> QED
  BY <1>4, <1>5, <1>6

(* _producer_play.                                                         *)
LEMMA ProducerPlayTold ==
    ASSUME NEW s, ProducerInv(s), Tells(s), NEW r \in ProducerPlay(s)
    PROVE  Told(s, r)
<1>1. CASE s.producer_status = "unloaded"
  <2>1. r = s \/ \E t \in Tracks : r \in PlayNext(s, t)
    BY <1>1 DEF ProducerPlay
  <2> QED
    BY <1>1, <2>1, PlayNextTold DEF Told
<1>2. CASE s.producer_status # "unloaded"
  <2>1. Quiet(s, r) /\ Wakes(r)
    BY <1>2, PlayLoadedQuiet DEF Tells
  <2> QED
    BY <2>1, QuietTells DEF Told
<1> QED
  BY <1>1, <1>2

(* player_pause and player_play start a player.                            *)
LEMMA StartPlaybackTold ==
    ASSUME NEW s, Settled(s), Tells(s), NEW r \in StartPlayback(s)
    PROVE  Told(s, r)
<1>1. PICK p \in ProducerPlay(s) :
         r \in IF p.producer_status = "playing" THEN OpenDeviceOrStop(p) ELSE {p}
  BY DEF StartPlayback
<1>2. Told(s, p)
  BY ProducerPlayTold DEF Settled, StateInv
<1>3. CASE p.producer_status = "playing"
  <2>1. StateInv(p)
    BY <1>1, <1>3, StartableLemma
  <2>2. Quiet(p, r) /\ Wakes(r)
    BY <1>1, <1>2, <1>3, <2>1, OpenDeviceOrStopQuiet DEF Told, Tells
  <2> QED
    BY <1>2, <2>2, QuietTells DEF Told
<1>4. CASE p.producer_status # "playing"
  BY <1>1, <1>2, <1>4
<1> QED
  BY <1>3, <1>4

(* Loading another file in the place of the old.                           *)
LEMMA LoadNextOwes ==
    ASSUME NEW s, ProducerInv(s), Wakes(s), NEW t \in Tracks, Owes(s, t)
    PROVE  LET r == LoadNext(s, t)
           IN  Owes(r, t) /\ Wakes(r) /\ r.waiting \subseteq s.waiting
<1> DEFINE q == ProducerUnload(s)
           n == IpNew(q, t)
           r == ProducerStatusUpdate(n, "stopped")
<1>1. /\ q \in State /\ Wakes(q) /\ Owes(q, t) /\ q.waiting \subseteq s.waiting
  BY ProducerUnloadLemma, ProducerUnloadQuiet DEF ProducerInv, Quiet, Owes
<1> HIDE DEF q
<1>2. /\ n \in State /\ Owes(n, t) /\ n.waiting = q.waiting
      /\ n.consumer_status = q.consumer_status
  BY <1>1, IpNewType DEF State, IpNew, Owes
<1> HIDE DEF n
<1>3. Owes(r, t) /\ Wakes(r) /\ r.waiting \subseteq s.waiting
  BY <1>1, <1>2 DEF State, ProducerStatusUpdate, Owes, Wakes
<1> QED
  BY <1>3 DEF LoadNext, n, q

(* The same once a reference to it was taken.                              *)
LEMMA RefLoadNext ==
    ASSUME NEW s, ProducerInv(s), Tells(s), NEW t \in Tracks
    PROVE  LET r == LoadNext(Ref(s, t), t)
           IN  /\ Owes(r, t) /\ Wakes(r) /\ r.waiting \subseteq s.waiting
               /\ ProducerInv(r) /\ SameDevice(s, r)
               /\ r.file = t /\ r.producer_status = "stopped"
<1> DEFINE u == Ref(s, t)
           r == LoadNext(u, t)
<1>1. ProducerInv(u) /\ SameDevice(s, u) /\ SameProducer(s, u)
  BY RefLemma
<1>2. Owes(u, t) /\ Wakes(u) /\ u.waiting = s.waiting
  BY RefOwes DEF ProducerInv, Tells, Wakes
<1> HIDE DEF u
<1>3. /\ ProducerInv(r) /\ SameDevice(u, r)
      /\ r.file = t /\ r.producer_status = "stopped"
  BY <1>1, LoadNextLemma
<1>4. Owes(r, t) /\ Wakes(r) /\ r.waiting \subseteq u.waiting
  BY <1>1, <1>2, LoadNextOwes
<1> HIDE DEF r
<1>5. /\ Owes(r, t) /\ Wakes(r) /\ r.waiting \subseteq s.waiting
      /\ ProducerInv(r) /\ SameDevice(s, r)
      /\ r.file = t /\ r.producer_status = "stopped"
  BY <1>1, <1>2, <1>3, <1>4 DEF SameDevice
<1> QED
  BY <1>5 DEF r, u

(* _producer_set_file.                                                     *)
LEMMA ProducerSetFileTold ==
    ASSUME NEW s, ProducerInv(s), Tells(s), NEW t \in Tracks
    PROVE  Told(s, ProducerSetFile(s, t))
<1> DEFINE l == LoadNext(Ref(s, t), t)
           r == FileChanged(l, t)
<1>1. /\ Owes(l, t) /\ Wakes(l) /\ l.waiting \subseteq s.waiting
      /\ l \in State /\ l.file = t /\ l.producer_status = "stopped"
  BY RefLoadNext DEF ProducerInv
<1> HIDE DEF l
<1>2. Told(s, r)
  BY <1>1, FileChangedOwes DEF Told, Tells, Wakes, Shown
<1> QED
  BY <1>2 DEF ProducerSetFile, LoadNext, l

-----------------------------------------------------------------------------
(* The player_* functions and the end of a file.                           *)

(* A quiet operator at the end.                                            *)
LEMMA QuietTold ==
    ASSUME NEW s, NEW q, NEW r, Told(s, q), Quiet(q, r), Wakes(r)
    PROVE  Told(s, r)
BY QuietTells DEF Told

(* A report at the end.                                                    *)
LEMMA ErrorTold ==
    ASSUME NEW s, NEW q \in State, Told(s, q),
           NEW r \in {PlayerError(q), PlayerStatusChanged(q)}
    PROVE  Told(s, r) /\ Reported(r)
BY ErrorQuiet, ReportReported, QuietTold DEF Told, Tells

(* _consumer_stop at the end.                                              *)
LEMMA ConsumerStopTold ==
    ASSUME NEW s, NEW q \in State, Told(s, q)
    PROVE  Told(s, ConsumerStop(q))
BY ConsumerQuiet, QuietTold DEF Told, Tells

(* player_stop.                                                            *)
LEMMA StopTold ==
    ASSUME NEW s, StateInv(s), Tells(s)
    PROVE  Told(s, Stop(s)) /\ Reported(Stop(s))
<1> DEFINE c == ConsumerStop(s)
           p == ProducerStop(c)
<1>1. c \in State /\ Told(s, c) /\ ProducerInv(c)
  BY ConsumerStopLemma, ConsumerStopTold DEF StateInv, ProducerInv, Told
<1> HIDE DEF c
<1>2. p \in State /\ Told(s, p)
  BY <1>1, ProducerStopLemma, ProducerStopQuiet, QuietTold
     DEF ProducerInv, Told, Tells
<1> HIDE DEF p
<1>3. Stop(s) = PlayerStatusChanged(p)
  BY DEF Stop, p, c
<1> QED
  BY <1>2, <1>3, ErrorTold

(* player_play and player_pause.                                           *)
LEMMA PlayPauseTold ==
    ASSUME NEW s, Settled(s), Tells(s), NEW r \in Play(s) \cup Pause(s)
    PROVE  Told(s, r) /\ (r = s \/ Reported(r))
<1>1. CASE r = s
  BY <1>1 DEF Told
<1>2. CASE \E p \in StartPlayback(s) :
              r \in {PlayerStatusChanged(p), PlayerStatusChanged(ConsumerStop(p))}
  <2>1. PICK p \in StartPlayback(s) :
           r \in {PlayerStatusChanged(p), PlayerStatusChanged(ConsumerStop(p))}
    BY <1>2
  <2>2. StateInv(p) /\ Told(s, p)
    BY StartPlaybackLemma, StartPlaybackTold DEF Settled
  <2>3. p \in State /\ ConsumerStop(p) \in State
    BY <2>2, ConsumerStopLemma DEF StateInv, ProducerInv
  <2>4. Told(s, ConsumerStop(p))
    BY <2>2, <2>3, ConsumerStopTold
  <2> QED
    BY <2>1, <2>2, <2>3, <2>4, ErrorTold
<1>3. CASE s.consumer_status # "stopped"
           /\ r = PlayerStatusChanged(ConsumerPause(ProducerPause(s)))
  <2> DEFINE p == ProducerPause(s)
             c == ConsumerPause(p)
  <2>1. s \in State
    BY DEF Settled, StateInv, ProducerInv
  <2>2. p \in State /\ Quiet(s, p) /\ Wakes(p)
    BY <2>1, ProducerPauseQuiet, ProducerStatusUpdateType
       DEF Tells, ProducerPause, ProducerStatuses
  <2> HIDE DEF p
  <2>3. c \in State /\ Quiet(p, c) /\ Wakes(c)
    BY <2>2, ConsumerQuiet, ConsumerStatusUpdateType, DeviceType
       DEF ConsumerPause, ConsumerStatuses
  <2> HIDE DEF c
  <2>4. Told(s, c)
    BY <2>2, <2>3, QuietTells, QuietTwice DEF Told
  <2> QED
    BY <1>3, <2>3, <2>4, ErrorTold DEF c, p
<1> QED
  BY <1>1, <1>2, <1>3 DEF Play, Pause

(* player_play_file and player_set_file.                                   *)
LEMMA LoadAndPlayTold ==
    ASSUME NEW s, Settled(s), Tells(s), NEW t \in Tracks,
           NEW r \in LoadAndPlay(s, t)
    PROVE  Told(s, r)
<1> DEFINE l == ProducerSetFile(s, t)
<1>1. /\ ProducerInv(l) /\ SameDevice(s, l)
      /\ l.file = t /\ l.producer_status = "stopped" /\ Told(s, l)
  BY ProducerSetFileLemma, ProducerSetFileTold DEF Settled, StateInv
<1> HIDE DEF l
<1>2. PICK p \in ProducerPlay(l) :
         r \in IF p.producer_status = "unloaded" THEN {ConsumerStop(p)}
               ELSE IF p.consumer_status = "stopped" THEN OpenDeviceOrStop(p)
               ELSE ChangeSf(p)
  BY DEF LoadAndPlay, l
<1>3. /\ ProducerInv(p) /\ SameDevice(l, p) /\ p.file = t
      /\ p.producer_status \in {"playing", "unloaded"}
      /\ p \in State /\ DeviceInv(p)
  BY <1>1, ProducerPlayLemma, SameDeviceInv DEF ProducerInv, Settled, StateInv
<1>4. Told(s, p)
  <2>1. Told(l, p)
    BY <1>1, ProducerPlayTold DEF Told
  <2> QED
    BY <1>1, <2>1 DEF Told
<1>5. CASE p.producer_status = "unloaded"
  BY <1>2, <1>3, <1>4, <1>5, ConsumerStopTold
<1>6. CASE p.producer_status = "playing" /\ p.consumer_status = "stopped"
  <2>1. StateInv(p)
    BY <1>3, <1>6 DEF StateInv, DeviceInv, FormatInv
  <2>2. Quiet(p, r) /\ Wakes(r)
    BY <1>2, <1>4, <1>6, <2>1, OpenDeviceOrStopQuiet DEF Told, Tells
  <2> QED
    BY <1>4, <2>2, QuietTold
<1>7. CASE p.producer_status = "playing" /\ p.consumer_status # "stopped"
  <2>1. Quiet(p, r) /\ Wakes(r)
    BY <1>2, <1>3, <1>4, <1>7, ChangeSfQuiet DEF Told, Tells
  <2> QED
    BY <1>4, <2>1, QuietTold
<1> QED
  BY <1>3, <1>5, <1>6, <1>7

(* With the report at their end.                                           *)
LEMMA SetFileTold ==
    ASSUME NEW s, Settled(s), Tells(s), NEW t \in Tracks,
           NEW r \in PlayFile(s, t) \cup SetFile(s, t)
    PROVE  Told(s, r) /\ Reported(r)
<1>1. CASE \E p \in LoadAndPlay(s, t) : r = PlayerStatusChanged(p)
  <2>1. PICK p \in LoadAndPlay(s, t) : r = PlayerStatusChanged(p)
    BY <1>1
  <2>2. p \in State /\ Told(s, p)
    BY LoadAndPlayLemma, LoadAndPlayTold DEF Settled, StateInv, ProducerInv
  <2> QED
    BY <2>1, <2>2, ErrorTold
<1>2. CASE r = PlayerStatusChanged(ProducerSetFile(s, t))
  <2>1. ProducerSetFile(s, t) \in State /\ Told(s, ProducerSetFile(s, t))
    BY ProducerSetFileLemma, ProducerSetFileTold
       DEF Settled, StateInv, ProducerInv
  <2> QED
    BY <1>2, <2>1, ErrorTold
<1> QED
  BY <1>1, <1>2 DEF PlayFile, SetFile

(* player_seek.                                                            *)
LEMMA SeekTold ==
    ASSUME NEW s, Settled(s), Tells(s), NEW r \in Seek(s)
    PROVE  Told(s, r)
<1>1. CASE r = s
  BY <1>1 DEF Told
<1>2. CASE \E p \in StartPlayback(s) : r \in {PlayerStatusChanged(p), p}
  <2>1. PICK p \in StartPlayback(s) : r \in {PlayerStatusChanged(p), p}
    BY <1>2
  <2>2. p \in State /\ Told(s, p)
    BY StartPlaybackLemma, StartPlaybackTold DEF Settled, StateInv, ProducerInv
  <2>3. CASE r = p
    BY <2>2, <2>3
  <2>4. CASE r = PlayerStatusChanged(p)
    BY <2>2, <2>4, ErrorTold
  <2> QED
    BY <2>1, <2>3, <2>4
<1> QED
  BY <1>1, <1>2 DEF Seek

(* A stream that ends, and a file that is repeated.                        *)
LEMMA EofTold ==
    ASSUME NEW s, Settled(s), BothPlaying(s), Tells(s), NEW cont \in BOOLEAN,
           NEW r \in {EofRemote(s)} \cup EofRepeat(s, cont), Honest(s)
    PROVE  Told(s, r) /\ Honest(r)
<1>0. s \in State /\ StateInv(s)
  BY DEF Settled, StateInv, ProducerInv
<1>1. CASE r = EofRemote(s)
  <2> DEFINE p == ProducerStop(s)
             c == ConsumerStop(p)
  <2>1. ProducerInv(p) /\ SameDevice(s, p) /\ Quiet(s, p) /\ Wakes(p)
    BY <1>0, ProducerStopLemma, ProducerStopQuiet DEF StateInv, Tells
  <2>2. p \in State /\ DeviceInv(p) /\ Told(s, p)
    BY <1>0, <2>1, SameDeviceInv, QuietTells DEF StateInv, ProducerInv, Told
  <2> HIDE DEF p
  <2>3. c \in State /\ Told(s, c)
    BY <2>1, <2>2, ConsumerStopLemma, ConsumerStopTold DEF StateInv, ProducerInv
  <2> HIDE DEF c
  <2>4. r = PlayerError(c)
    BY <1>1 DEF EofRemote, c, p
  <2> QED
    BY <2>3, <2>4, ErrorTold DEF Honest
<1>2. CASE r \in EofRepeat(s, TRUE)
  <2>1. r \in {ResetBuffer(SeekStart(s)), ResetBuffer(s)}
    BY <1>2 DEF EofRepeat
  <2>2. ASSUME r = ResetBuffer(SeekStart(s)) PROVE Told(s, r)
    <3>1. r \in ProducerPlay(s)
      BY <2>2 DEF ProducerPlay, BothPlaying
    <3> QED
      BY <1>0, <3>1, ProducerPlayTold DEF StateInv
  <2>3. ASSUME r = ResetBuffer(s) PROVE Told(s, r)
    <3>1. Quiet(s, r) /\ Wakes(r)
      BY <1>0, <2>3 DEF State, ResetBuffer, Quiet, Wakes, Tells
    <3> QED
      BY <3>1, QuietTells DEF Told
  <2>4. r.status = s.status /\ r.consumer_status = s.consumer_status
    BY <1>0, <2>1 DEF State, ResetBuffer, SeekStart
  <2> QED
    BY <2>1, <2>2, <2>3, <2>4 DEF Honest, Reported
<1>3. CASE r \in EofRepeat(s, FALSE)
  BY <1>0, <1>3, StopTold DEF EofRepeat, Honest
<1> QED
  BY <1>1, <1>2, <1>3

(* _consumer_handle_eof with another file to play.                         *)
LEMMA PlayLoadedTold ==
    ASSUME NEW o, NEW s, ProducerInv(s), DeviceInv(s),
           s.producer_status = "stopped",
           NEW t \in Tracks, s.file = t, Owes(s, t), Wakes(s),
           s.waiting \subseteq o.waiting, NEW r \in PlayLoaded(s, t)
    PROVE  Told(o, r)
<1>1. PICK p \in PlayStopped(s) :
         r \in IF p.producer_status = "unloaded"
               THEN {FileChanged(Unref(ConsumerStop(p), t), NoTrack)}
               ELSE ChangeSf(FileChanged(p, t))
  BY DEF PlayLoaded
<1>2. p \in ProducerPlay(s)
  BY DEF ProducerPlay
<1>3. /\ ProducerInv(p) /\ SameDevice(s, p) /\ p.file = t
      /\ Quiet(s, p) /\ Wakes(p)
  BY <1>2, PlayStoppedLemma, PlayLoadedQuiet
<1>4. p \in State /\ DeviceInv(p) /\ Owes(p, t) /\ p.waiting \subseteq o.waiting
  BY <1>3, SameDeviceInv DEF ProducerInv, Quiet, Owes
<1>5. CASE p.producer_status = "unloaded"
  <2> DEFINE c == ConsumerStop(p)
             d == Unref(c, t)
  <2>1. /\ c \in State /\ Quiet(p, c) /\ Wakes(c) /\ SameProducer(p, c)
    BY <1>3, <1>4, ConsumerStopLemma, ConsumerQuiet DEF StateInv, ProducerInv
  <2>2. Owes(c, t) /\ c.producer_status = "unloaded" /\ c.waiting \subseteq o.waiting
    BY <1>4, <1>5, <2>1 DEF Quiet, Owes, SameProducer
  <2>3. r = FileChanged(d, NoTrack)
    BY <1>1, <1>5
  <2> HIDE DEF c
  <2>4. /\ d \in State /\ Owes(d, NoTrack) /\ d.waiting = c.waiting
        /\ d.producer_status = "unloaded"
        /\ d.consumer_status = c.consumer_status
    BY <2>1, <2>2, RefType, UnrefOwes
  <2> HIDE DEF d
  <2>5. /\ Owes(r, NoTrack) /\ r.waiting = d.waiting
        /\ r.producer_status = "unloaded"
        /\ r.consumer_status = d.consumer_status
    BY <2>3, <2>4, FileChangedOwes
  <2> QED
    BY <2>1, <2>2, <2>4, <2>5 DEF Told, Tells, Wakes, Shown
<1>6. CASE p.producer_status # "unloaded"
  <2> DEFINE f == FileChanged(p, t)
  <2>1. /\ Owes(f, NoTrack) /\ f.waiting = p.waiting /\ f.ti = t
        /\ f.producer_status = p.producer_status /\ f.file = p.file
        /\ f.consumer_status = p.consumer_status /\ f.eof = p.eof
        /\ f \in State
    BY <1>4, FileChangedOwes, FileChangedType
  <2>2. r \in ChangeSf(f)
    BY <1>1, <1>6
  <2> HIDE DEF f
  <2>3. Told(o, f) /\ f.file \in Tracks
    BY <1>3, <1>4, <2>1 DEF Told, Tells, Wakes, Shown
  <2>4. Quiet(f, r) /\ Wakes(r)
    BY <2>1, <2>2, <2>3, ChangeSfQuiet DEF Told, Tells
  <2> QED
    BY <2>3, <2>4, QuietTold
<1> QED
  BY <1>5, <1>6

(* _consumer_handle_eof without starting the next file.                    *)
LEMMA CloseTold ==
    ASSUME NEW o, NEW s, ProducerInv(s), DeviceInv(s), Wakes(s),
           NEW t \in Tracks \cup {NoTrack}, Owes(s, t),
           s.producer_status # "unloaded" => s.file = t,
           s.waiting \subseteq o.waiting
    PROVE  /\ Told(o, FileChanged(ConsumerStop(s), t))
           /\ FileChanged(ConsumerStop(s), t) \in State
<1> DEFINE c == ConsumerStop(s)
           f == FileChanged(c, t)
<1>1. c \in State /\ Quiet(s, c) /\ Wakes(c) /\ SameProducer(s, c)
  BY ConsumerStopLemma, ConsumerQuiet DEF StateInv, ProducerInv
<1>2. Owes(c, t)
  BY <1>1 DEF Quiet, Owes
<1> HIDE DEF c
<1>3. f \in State /\ Told(o, f)
  BY <1>1, <1>2, FileChangedOwes, FileChangedType
     DEF Told, Tells, Wakes, Shown, Quiet, SameProducer
<1> QED
  BY <1>3 DEF c

(* _consumer_handle_eof with an answer from cmus_get_next_track().         *)
LEMMA EofNextTold ==
    ASSUME NEW s, Settled(s), BothPlaying(s), Tells(s),
           NEW t \in Tracks \cup {NoTrack}, NEW cont \in BOOLEAN,
           NEW r \in EofNext(s, t, cont)
    PROVE  Told(s, r)
<1>0. ProducerInv(s) /\ DeviceInv(s)
  BY DEF Settled, StateInv
<1> SUFFICES \E q \in State : Told(s, q) /\ (r = q \/ r = PlayerStatusChanged(q))
  BY ErrorTold
<1>1. CASE t = NoTrack
  <2> DEFINE u == ProducerUnload(s)
  <2>1. /\ ProducerInv(u) /\ SameDevice(s, u)
        /\ u.producer_status = "unloaded" /\ Quiet(s, u) /\ Wakes(u)
    BY <1>0, ProducerUnloadLemma, ProducerUnloadQuiet DEF Tells
  <2>2. DeviceInv(u) /\ Owes(u, t) /\ u.waiting \subseteq s.waiting
    BY <1>0, <1>1, <2>1, SameDeviceInv DEF Quiet, Tells, Owes
  <2>3. r = PlayerStatusChanged(FileChanged(ConsumerStop(u), t))
    BY <1>1 DEF EofNext
  <2> HIDE DEF u
  <2> QED
    BY <2>1, <2>2, <2>3, CloseTold
<1>2. CASE t # NoTrack
  <2> DEFINE l == LoadNext(Ref(s, t), t)
  <2>1. /\ Owes(l, t) /\ Wakes(l) /\ l.waiting \subseteq s.waiting
        /\ ProducerInv(l) /\ SameDevice(s, l)
        /\ l.file = t /\ l.producer_status = "stopped"
    BY <1>0, <1>2, RefLoadNext
  <2>2. DeviceInv(l) /\ l.consumer_status = "playing"
    BY <1>0, <2>1, SameDeviceInv DEF SameDevice, BothPlaying
  <2>3. /\ ~cont => r = PlayerStatusChanged(FileChanged(ConsumerStop(l), t))
        /\ cont => \E p \in PlayLoaded(l, t) : r = p \/ r = PlayerStatusChanged(p)
    BY <1>2 DEF EofNext
  <2> HIDE DEF l
  <2>4. CASE ~cont
    BY <2>1, <2>2, <2>3, <2>4, CloseTold
  <2>5. CASE cont
    <3>1. PICK p \in PlayLoaded(l, t) : r = p \/ r = PlayerStatusChanged(p)
      BY <2>3, <2>5
    <3>2. Told(s, p)
      BY <1>2, <2>1, <2>2, PlayLoadedTold
    <3>3. p \in State
      BY <1>2, <2>1, <2>2, PlayLoadedLemma DEF Settled, StateInv, ProducerInv
    <3> QED
      BY <3>1, <3>2, <3>3
  <2> QED
    BY <2>4, <2>5
<1> QED
  BY <1>1, <1>2

-----------------------------------------------------------------------------
(* The status that is shown.                                               *)

(* A player that is started from a standstill does not show more than that.*)
LEMMA ProducerPlayHonest ==
    ASSUME NEW s, ProducerInv(s), s.consumer_status = "stopped",
           s.status = "stopped", NEW r \in ProducerPlay(s)
    PROVE  r.status = "stopped"
<1>1. s \in State
  BY DEF ProducerInv
<1>2. CASE s.producer_status = "unloaded"
  <2>1. r = s \/ \E t \in Tracks : r \in PlayNext(s, t)
    BY <1>2 DEF ProducerPlay
  <2>2. CASE r = s
    BY <2>2
  <2>3. CASE \E t \in Tracks : r \in PlayNext(s, t)
    <3>1. PICK t \in Tracks : r \in PlayNext(s, t)
      BY <2>3
    <3> DEFINE fresh == IpNew(Ref(s, t), t)
               opened == ProducerStatusUpdate(IpOpen(fresh), "playing")
               failed == IpDelete(PlayerError(fresh))
    <3>2. /\ fresh \in State /\ fresh.status = "stopped"
          /\ fresh.consumer_status = "stopped"
      <4>1. /\ Ref(s, t) \in State /\ Ref(s, t).status = "stopped"
            /\ Ref(s, t).consumer_status = "stopped"
        BY <1>1, RefType DEF State, Ref
      <4> QED
        BY <4>1, IpNewType DEF State, IpNew
    <3>3. r = FileChanged(opened, t) \/ r = FileChanged(Unref(failed, t), NoTrack)
      BY <3>1 DEF PlayNext
    <3> HIDE DEF fresh
    <3>4. opened \in State /\ opened.status = "stopped"
      <4>1. IpOpen(fresh) \in State /\ IpOpen(fresh).status = "stopped"
        BY <3>2, PluginType DEF State, IpOpen
      <4> QED
        BY <4>1, ProducerStatusUpdateType
           DEF State, ProducerStatuses, ProducerStatusUpdate
    <3>5. failed \in State /\ failed.status = "stopped"
      BY <3>2, PlayerErrorType, PluginType DEF State, IpDelete, PlayerError
    <3> HIDE DEF opened, failed
    <3>6. Unref(failed, t) \in State /\ Unref(failed, t).status = "stopped"
      BY <3>5, RefType DEF State, Unref
    <3>7. \A x \in State, y \in Tracks \cup {NoTrack} :
             FileChanged(x, y).status = x.status
      BY DEF State, FileChanged, Unref
    <3> QED
      BY <3>3, <3>4, <3>6, <3>7
  <2> QED
    BY <2>1, <2>2, <2>3
<1>3. CASE s.producer_status # "unloaded"
  <2>1. \/ r \in {s, ResetBuffer(SeekStart(s))}
        \/ r \in PlayStopped(s)
        \/ r = ProducerStatusUpdate(s, "playing")
    BY <1>1, <1>3 DEF ProducerPlay, State, ProducerStatuses
  <2>2. CASE r \in {s, ResetBuffer(SeekStart(s))}
    BY <1>1, <2>2 DEF State, ResetBuffer, SeekStart
  <2>3. CASE r \in PlayStopped(s)
    BY <1>1, <2>3
       DEF State, PlayStopped, ProducerStatusUpdate, IpOpen, IpDelete, PlayerError
  <2>4. CASE r = ProducerStatusUpdate(s, "playing")
    BY <1>1, <2>4 DEF State, ProducerStatusUpdate
  <2> QED
    BY <2>1, <2>2, <2>3, <2>4
<1> QED
  BY <1>2, <1>3

(* _consumer_play, whether or not the device opens.                        *)
LEMMA ConsumerPlayHonest ==
    ASSUME NEW s \in State, s.file \in Tracks, s.consumer_status = "stopped",
           s.status \in {"playing", "stopped"}, NEW r \in ConsumerPlay(s)
    PROVE  /\ Honest(r) /\ r.consumer_status \in {"playing", "stopped"}
           /\ s.status = "stopped" => r.status = "stopped"
<1> DEFINE set == SetBufferSf(s)
<1>1. /\ set \in State /\ set.consumer_status = "stopped"
      /\ set.status = s.status
  BY SetBufferSfType DEF State, SetBufferSf
<1>2. \/ r = ConsumerStatusUpdate(OpOpen(set), "playing")
      \/ r = PlayerError(set)
  BY DEF ConsumerPlay
<1> HIDE DEF set
<1>3. CASE r = ConsumerStatusUpdate(OpOpen(set), "playing")
  <2>1. r.status = s.status /\ r.consumer_status = "playing"
    BY <1>1, <1>3 DEF State, ConsumerStatusUpdate, OpOpen
  <2> QED
    BY <2>1 DEF Honest, Reported
<1>4. CASE r = PlayerError(set)
  <2>1. r.status = "stopped" /\ r.consumer_status = "stopped"
    BY <1>1, <1>4 DEF State, PlayerError
  <2> QED
    BY <2>1 DEF Honest, Reported
<1> QED
  BY <1>2, <1>3, <1>4

(* player_seek of a stopped player starts it, and may not report it.       *)
LEMMA StartPlaybackHonest ==
    ASSUME NEW s, Settled(s), s.consumer_status = "stopped",
           s.status = "stopped", NEW r \in StartPlayback(s)
    PROVE  Honest(r)
<1>1. PICK p \in ProducerPlay(s) :
         r \in IF p.producer_status = "playing" THEN OpenDeviceOrStop(p) ELSE {p}
  BY DEF StartPlayback
<1>2. /\ StateInv(p) /\ p.consumer_status = "stopped" /\ p.status = "stopped"
      /\ p \in State
  BY StartableLemma, ProducerPlayHonest
     DEF Settled, StateInv, ProducerInv, SameDevice
<1>3. CASE p.producer_status = "playing"
  <2>1. PICK c \in ConsumerPlay(p) :
           r = IF c.consumer_status # "playing" THEN ProducerStop(c) ELSE c
    BY <1>1, <1>3 DEF OpenDeviceOrStop
  <2>2. /\ StateInv(c) /\ c.status = "stopped"
        /\ c.consumer_status \in {"playing", "stopped"}
    BY <1>2, <1>3, ConsumerPlayLemma, ConsumerPlayHonest
       DEF StateInv, ProducerInv, PluginInv
  <2>3. CASE c.consumer_status = "playing"
    BY <2>1, <2>2, <2>3 DEF Honest
  <2>4. CASE c.consumer_status = "stopped"
    <3>1. r = ProducerStop(c) /\ c \in State
      BY <2>1, <2>2, <2>4 DEF StateInv, ProducerInv
    <3>2. r.status = "stopped" /\ r.consumer_status = "stopped"
      BY <2>2, <2>4, <3>1 DEF State, ProducerStop, ResetBuffer,
         ProducerStatusUpdate, IpClose
    <3> QED
      BY <3>2 DEF Honest, Reported
  <2> QED
    BY <2>2, <2>3, <2>4
<1>4. CASE p.producer_status # "playing"
  BY <1>1, <1>2, <1>4 DEF Honest, Reported
<1> QED
  BY <1>3, <1>4

(* player_seek.                                                            *)
LEMMA SeekHonest ==
    ASSUME NEW s, Settled(s), Honest(s), NEW r \in Seek(s)
    PROVE  Honest(r)
<1>1. CASE s.consumer_status = "stopped"
  <2>1. PICK p \in StartPlayback(s) :
           r = IF p.consumer_status = "playing" THEN PlayerStatusChanged(p) ELSE p
    BY <1>1 DEF Seek
  <2>2. s.status = "stopped"
    BY <1>1 DEF Honest, Reported
  <2>3. Honest(p) /\ p \in State
    BY <1>1, <2>2, StartPlaybackHonest, StartPlaybackLemma
       DEF Settled, StateInv, ProducerInv
  <2> QED
    BY <2>1, <2>3, ReportReported DEF Honest
<1>2. CASE s.consumer_status # "stopped"
  BY <1>2 DEF Seek
<1> QED
  BY <1>1, <1>2

(* The next file is loaded without a report.                               *)
LEMMA LoadNextStatus ==
    ASSUME NEW s \in State, NEW t \in Tracks
    PROVE  LoadNext(Ref(s, t), t).status = s.status
<1> DEFINE u == Ref(s, t)
           q == ProducerStop(u)
<1>1. u \in State /\ u.status = s.status
  BY RefType DEF State, Ref
<1> HIDE DEF u
<1>2. q \in State /\ q.status = u.status
  <2> DEFINE c == IpClose(u)
             p == ProducerStatusUpdate(c, "stopped")
  <2>1. c \in State /\ c.status = u.status
    BY <1>1, PluginType DEF State, IpClose
  <2>2. p \in State /\ p.status = c.status
    BY <2>1, ProducerStatusUpdateType
       DEF State, ProducerStatuses, ProducerStatusUpdate
  <2>3. q = ResetBuffer(p) \/ q = u
    BY DEF ProducerStop
  <2> HIDE DEF c, p
  <2>4. ResetBuffer(p) \in State /\ ResetBuffer(p).status = p.status
    BY <2>2, ResetBufferType DEF State, ResetBuffer
  <2> QED
    BY <1>1, <2>1, <2>2, <2>3, <2>4
<1> HIDE DEF q
<1>3. /\ ProducerUnload(u) \in State
      /\ ProducerUnload(u).status = q.status
  <2>1. \/ ProducerUnload(u) = ProducerStatusUpdate(IpDelete(q), "unloaded")
        \/ ProducerUnload(u) = q
    BY DEF ProducerUnload, q
  <2>2. IpDelete(q) \in State /\ IpDelete(q).status = q.status
    BY <1>2, PluginType DEF State, IpDelete
  <2>3. /\ ProducerStatusUpdate(IpDelete(q), "unloaded") \in State
        /\ ProducerStatusUpdate(IpDelete(q), "unloaded").status = q.status
    BY <2>2, ProducerStatusUpdateType
       DEF State, ProducerStatuses, ProducerStatusUpdate
  <2> QED
    BY <1>2, <2>1, <2>3
<1>4. LoadNext(u, t).status = ProducerUnload(u).status
  BY <1>3 DEF State, LoadNext, IpNew, ProducerStatusUpdate
<1> QED
  BY <1>1, <1>2, <1>3, <1>4 DEF u

(* Nor is one reported when it starts in a device that plays.              *)
LEMMA PlayLoadedStatus ==
    ASSUME NEW s \in State, NEW t \in Tracks, s.file \in Tracks,
           NEW r \in PlayLoaded(s, t), r.producer_status = "playing"
    PROVE  r.status = s.status /\ r.consumer_status = "playing"
<1>1. PICK p \in PlayStopped(s) :
         r \in IF p.producer_status = "unloaded"
               THEN {FileChanged(Unref(ConsumerStop(p), t), NoTrack)}
               ELSE ChangeSf(FileChanged(p, t))
  BY DEF PlayLoaded
<1>2. CASE p = ProducerStatusUpdate(IpDelete(PlayerError(s)), "unloaded")
  <2> DEFINE c == ConsumerStop(p)
             d == Unref(c, t)
  <2>1. p \in State /\ p.producer_status = "unloaded"
    BY <1>2 DEF State, ProducerStatuses, PluginStates, ProducerStatusUpdate,
       IpDelete, PlayerError, ConsumerStatuses
  <2>2. c \in State /\ c.producer_status = "unloaded"
    <3>1. OpClose(p) \in State /\ OpClose(p).producer_status = "unloaded"
      BY <2>1, DeviceType DEF State, OpClose
    <3>2. /\ ConsumerStatusUpdate(OpClose(p), "stopped") \in State
          /\ ConsumerStatusUpdate(OpClose(p), "stopped").producer_status
                = "unloaded"
      BY <3>1, ConsumerStatusUpdateType
         DEF State, ConsumerStatuses, ConsumerStatusUpdate
    <3> QED
      BY <2>1, <3>2 DEF ConsumerStop
  <2>3. r = FileChanged(d, NoTrack)
    BY <1>1, <2>1
  <2> HIDE DEF c
  <2>4. d \in State /\ d.producer_status = "unloaded"
    BY <2>2, RefType DEF State, Unref
  <2> HIDE DEF d
  <2>5. r.producer_status = "unloaded"
    BY <2>3, <2>4 DEF State, FileChanged, Unref
  <2> QED
    BY <2>5
<1>3. CASE p = ProducerStatusUpdate(IpOpen(s), "playing")
  <2> DEFINE f == FileChanged(p, t)
             set == SetBufferSf(f)
             q == ConsumerStatusUpdate(PlayerError(OpClose(set)), "stopped")
  <2>1. /\ p \in State /\ p.producer_status = "playing" /\ p.file = s.file
        /\ p.status = s.status
    BY <1>3 DEF State, ProducerStatuses, PluginStates, ProducerStatusUpdate, IpOpen
  <2>2. f \in State
    BY <2>1, FileChangedType
  <2>3. f.producer_status = "playing" /\ f.status = p.status /\ f.file = p.file
    BY <2>1 DEF State, FileChanged, Unref
  <2>4. r \in ChangeSf(f)
    BY <1>1, <2>1
  <2> HIDE DEF f
  <2>5. /\ set \in State
        /\ set.producer_status = "playing" /\ set.status = f.status
    BY <2>1, <2>2, <2>3, SetBufferSfType DEF State, SetBufferSf
  <2>6. \/ r = ConsumerStatusUpdate(OpOpen(OpClose(set)), "playing")
        \/ r = ProducerStop(q)
        \/ r = ConsumerStatusUpdate(OpUnpause(set), "playing")
        \/ r = ConsumerStatusUpdate(set, "playing")
    BY <2>4 DEF ChangeSf
  <2> HIDE DEF set
  <2>7. CASE r = ProducerStop(q)
    <3>1. q \in State /\ q.producer_status = "playing"
      BY <2>5 DEF State, ConsumerStatuses, DeviceStates, ConsumerStatusUpdate,
         PlayerError, OpClose
    <3> HIDE DEF q
    <3>2. r.producer_status = "stopped"
      BY <2>7, <3>1 DEF State, ProducerStop, ResetBuffer, ProducerStatusUpdate,
         IpClose
    <3> QED
      BY <3>2
  <2>8. CASE r \in {ConsumerStatusUpdate(OpOpen(OpClose(set)), "playing"),
                    ConsumerStatusUpdate(OpUnpause(set), "playing"),
                    ConsumerStatusUpdate(set, "playing")}
    <3>1. r.status = set.status /\ r.consumer_status = "playing"
      BY <2>5, <2>8 DEF State, ConsumerStatusUpdate, OpOpen, OpClose, OpUnpause
    <3> QED
      BY <2>1, <2>3, <2>5, <3>1
  <2> QED
    BY <2>6, <2>7, <2>8
<1> QED
  BY <1>2, <1>3 DEF PlayStopped

(* _consumer_handle_eof reports before or after _prebuffer.                *)
LEMMA EofNextHonest ==
    ASSUME NEW s, Settled(s), BothPlaying(s), Honest(s),
           NEW t \in Tracks \cup {NoTrack}, NEW cont \in BOOLEAN,
           NEW r \in EofNext(s, t, cont)
    PROVE  Honest(r)
<1>0. ProducerInv(s) /\ DeviceInv(s) /\ s \in State
  BY DEF Settled, StateInv, ProducerInv
<1>1. CASE t = NoTrack
  <2> DEFINE u == ProducerUnload(s)
  <2>1. ProducerInv(u) /\ SameDevice(s, u)
    BY <1>0, ProducerUnloadLemma
  <2>2. r = PlayerStatusChanged(FileChanged(ConsumerStop(u), NoTrack))
    BY <1>1 DEF EofNext
  <2> HIDE DEF u
  <2>3. DeviceInv(u)
    BY <1>0, <2>1, SameDeviceInv
  <2>4. ConsumerStop(u) \in State
    BY <2>1, <2>3, ConsumerStopLemma DEF StateInv, ProducerInv
  <2> QED
    BY <2>2, <2>4, FileChangedType, ReportReported DEF Honest
<1>2. CASE t # NoTrack
  <2> DEFINE l == LoadNext(Ref(s, t), t)
  <2>1. /\ ProducerInv(Ref(s, t)) /\ SameDevice(s, Ref(s, t))
        /\ t \in Tracks /\ l.status = s.status
    BY <1>0, <1>2, RefLemma, LoadNextStatus
  <2>2. /\ ProducerInv(l) /\ SameDevice(Ref(s, t), l)
        /\ l.file = t /\ l.producer_status = "stopped"
    BY <2>1, LoadNextLemma
  <2>3. /\ ~cont => r = PlayerStatusChanged(FileChanged(ConsumerStop(l), t))
        /\ cont => \E p \in PlayLoaded(l, t) :
              \/ r = p /\ p.producer_status = "playing"
              \/ r = PlayerStatusChanged(p)
    BY <1>2 DEF EofNext
  <2> HIDE DEF l
  <2>4. DeviceInv(l) /\ l.consumer_status = "playing" /\ l \in State
    BY <1>0, <2>1, <2>2, SameDeviceInv DEF SameDevice, BothPlaying, ProducerInv
  <2>5. CASE ~cont
    <3>1. ConsumerStop(l) \in State
      BY <2>2, <2>4, ConsumerStopLemma DEF StateInv, ProducerInv
    <3> QED
      BY <2>3, <2>5, <3>1, FileChangedType, ReportReported DEF Honest
  <2>6. CASE cont
    <3>1. PICK p \in PlayLoaded(l, t) :
             \/ r = p /\ p.producer_status = "playing"
             \/ r = PlayerStatusChanged(p)
      BY <2>3, <2>6
    <3>2. CASE r = p /\ p.producer_status = "playing"
      <4>1. r.status = l.status /\ r.consumer_status = "playing"
        BY <2>1, <2>2, <2>4, <3>2, PlayLoadedStatus
      <4>2. s.consumer_status = "playing"
        BY DEF BothPlaying
      <4> QED
        BY <2>1, <4>1, <4>2 DEF Honest, Reported
    <3>3. CASE r = PlayerStatusChanged(p)
      <4>1. p \in State
        BY <2>1, <2>2, <2>4, PlayLoadedLemma DEF Settled, StateInv, ProducerInv
      <4> QED
        BY <3>3, <4>1, ReportReported DEF Honest
    <3> QED
      BY <3>1, <3>2, <3>3
  <2> QED
    BY <2>5, <2>6
<1> QED
  BY <1>1, <1>2

(* A read may report an error, and so the status there is.                 *)
LEMMA ReadHonest ==
    ASSUME NEW s \in State, Honest(s),
           NEW r \in {ReadEnd(s)} \cup ReadError(s) \cup ReadData(s)
    PROVE  Honest(r)
<1>1. CASE r = ReadEnd(s)
  BY <1>1 DEF State, ReadEnd, Flush, Honest, Reported
<1>2. CASE r \in ReadError(s)
  <2>1. PICK e \in {s.eof, TRUE} : r = Flush([PlayerError(s) EXCEPT !.eof = e])
    BY <1>2 DEF ReadError
  <2> DEFINE q == [PlayerError(s) EXCEPT !.eof = e]
  <2>2. q \in State
    BY PlayerErrorType DEF State
  <2>3. q.status = q.consumer_status
    BY DEF State, PlayerError
  <2> HIDE DEF q
  <2>4. r = Flush(q)
    BY <2>1 DEF q
  <2> QED
    BY <2>2, <2>3, <2>4 DEF State, Flush, Honest, Reported
<1>3. CASE r = [s EXCEPT !.filled = @ + 1, !.partial = FALSE, !.data = s.file]
  BY <1>3 DEF State, Honest, Reported
<1>4. CASE r = [s EXCEPT !.partial = TRUE, !.data = s.file]
  BY <1>4 DEF State, Honest, Reported
<1> QED
  BY <1>1, <1>2, <1>3, <1>4 DEF ReadData

(* While the consumer reopens the device, an error shows it stopped.       *)
LEMMA ReadStopped ==
    ASSUME NEW s \in State, s.consumer_status = "stopped",
           s.status \in {"playing", "stopped"},
           NEW r \in {ReadEnd(s)} \cup ReadError(s) \cup ReadData(s)
    PROVE  r.status \in {"playing", "stopped"}
<1>1. CASE r = ReadEnd(s)
  BY <1>1 DEF State, ReadEnd, Flush
<1>2. CASE r \in ReadError(s)
  <2>1. PICK e \in {s.eof, TRUE} : r = Flush([PlayerError(s) EXCEPT !.eof = e])
    BY <1>2 DEF ReadError
  <2> DEFINE q == [PlayerError(s) EXCEPT !.eof = e]
  <2>2. q \in State /\ q.status = "stopped"
    BY PlayerErrorType DEF State, PlayerError
  <2> HIDE DEF q
  <2>3. r = Flush(q)
    BY <2>1 DEF q
  <2> QED
    BY <2>2, <2>3 DEF State, Flush
<1>3. CASE r = [s EXCEPT !.filled = @ + 1, !.partial = FALSE, !.data = s.file]
  BY <1>3 DEF State
<1>4. CASE r = [s EXCEPT !.partial = TRUE, !.data = s.file]
  BY <1>4 DEF State
<1> QED
  BY <1>1, <1>2, <1>3, <1>4 DEF ReadData

(* A round of _prebuffer.                                                  *)
LEMMA PrebufferHonest ==
    ASSUME NEW s \in State, Honest(s),
           NEW r \in PrebufferMore(s) \cup PrebufferEnd(s)
    PROVE  Honest(r)
<1>1. r = s \/ r \in {ReadEnd(s)} \cup ReadError(s) \cup ReadData(s)
  BY DEF PrebufferMore, PrebufferEnd
<1> QED
  BY <1>1, ReadHonest

-----------------------------------------------------------------------------
(* The invariant, on top of IInv.                                          *)

StatusInv ==
    running => IF cons = "reopen" THEN pl.status \in {"playing", "stopped"}
                                  ELSE Honest(pl)

TellInv == Tells(pl) /\ (pl.waiting # {} => running) /\ StatusInv

(* A step of a running player that leaves it telling the truth.            *)
LEMMA ToldStep ==
    ASSUME TellInv, Told(pl, pl'), UNCHANGED running, cons' # "reopen", Honest(pl')
    PROVE  TellInv'
BY DEF TellInv, StatusInv, Told

(* A step that leaves what is told as it is.                               *)
LEMMA SilentStep ==
    ASSUME TellInv, UNCHANGED <<pl, running>>, cons' # "reopen", cons # "reopen"
    PROVE  TellInv'
BY DEF TellInv, StatusInv, Tells, Wakes, Owes, Shown, Honest, Reported

(* What was told stays told when only the waiting threads are woken.       *)
LEMMA RunningTells ==
    ASSUME IInv, TellInv
    PROVE  /\ pl \in State /\ StateInv(pl) /\ Tells(pl) /\ Wakes(pl)
           /\ running => Settled(pl)
BY DEF IInv, TellInv, PlayerInv, StateInv, ProducerInv, Tells, Settled

(* A player_* function that takes both mutexes.                            *)
LEMMA RunCallTells ==
    ASSUME IInv, TellInv, RunCall
    PROVE  TellInv'
<1>1. /\ main = "lock_p" /\ pmutex = "free" /\ pl' \in CallBody(pl)
      /\ call.op \in AllCalls \ {"seek", "exit", "pause_playback"}
      /\ UNCHANGED <<running, cons>>
  BY DEF RunCall
<1>2. Settled(pl) /\ running /\ cons \notin HoldsConsumer
  BY <1>1, MainAlone
<1>3. Tells(pl) /\ Honest(pl) /\ StateInv(pl)
  BY <1>2 DEF TellInv, StatusInv, HoldsConsumer, Settled
<1>4. CASE call.op = "stop"
  <2>1. pl' = Stop(pl)
    BY <1>1, <1>4 DEF CallBody
  <2>2. Told(pl, pl') /\ Reported(pl')
    BY <1>3, <2>1, StopTold
  <2> QED
    BY <1>1, <1>2, <2>2, ToldStep DEF Honest, HoldsConsumer
<1>5. CASE call.op \in {"play", "pause"}
  <2>1. pl' \in Play(pl) \cup Pause(pl)
    BY <1>1, <1>5 DEF CallBody
  <2>2. Told(pl, pl') /\ (pl' = pl \/ Reported(pl'))
    BY <1>2, <1>3, <2>1, PlayPauseTold
  <2> QED
    BY <1>1, <1>2, <1>3, <2>2, ToldStep DEF Honest, HoldsConsumer
<1>6. CASE call.op \in {"set_file", "play_file"}
  <2>1. call.ti \in Tracks
    BY <1>6 DEF IInv, LockInv
  <2>2. pl' \in PlayFile(pl, call.ti) \cup SetFile(pl, call.ti)
    BY <1>1, <1>6 DEF CallBody
  <2>3. Told(pl, pl') /\ Reported(pl')
    BY <1>2, <1>3, <2>1, <2>2, SetFileTold
  <2> QED
    BY <1>1, <1>2, <2>3, ToldStep DEF Honest, HoldsConsumer
<1> QED
  BY <1>1, <1>4, <1>5, <1>6 DEF AllCalls

(* The other steps of the main thread.                                     *)
LEMMA MainTells ==
    ASSUME IInv, TellInv, MainStep
    PROVE  TellInv'
<1>1. CASE LockConsumer
  BY <1>1 DEF LockConsumer, TellInv, StatusInv, Tells, Wakes, Owes, Shown,
     Honest, Reported
<1>2. CASE RunCall
  BY <1>2, RunCallTells
<1>3. CASE RunSeek
  <2>1. /\ main = "lock_p" /\ pmutex = "free" /\ pl' \in Seek(pl)
        /\ UNCHANGED <<running, cons>>
    BY <1>3 DEF RunSeek
  <2>2. Settled(pl) /\ running /\ cons \notin HoldsConsumer
    BY <2>1, MainAlone
  <2>3. Tells(pl) /\ Honest(pl)
    BY <2>2 DEF TellInv, StatusInv, HoldsConsumer
  <2>4. Told(pl, pl') /\ Honest(pl')
    BY <2>1, <2>2, <2>3, SeekTold, SeekHonest
  <2> QED
    BY <2>1, <2>2, <2>4, ToldStep DEF HoldsConsumer
<1>4. CASE RunExit
  <2>1. pl' = [pl EXCEPT !.waiting = {}] /\ running' = FALSE
    BY <1>4 DEF RunExit, WakeBoth
  <2>2. Quiet(pl, pl') /\ Wakes(pl') /\ pl'.waiting = {}
    BY <2>1, RunningTells DEF State, Quiet, Wakes
  <2> QED
    BY <2>1, <2>2, QuietTells, RunningTells DEF TellInv, StatusInv
<1>5. CASE Join
  BY <1>5 DEF Join, TellInv, StatusInv, Tells, Wakes, Owes, Shown,
     Honest, Reported
<1>6. CASE MainPrebuffer
  <2>1. /\ main = "prebuffer" /\ UNCHANGED <<running, cons>>
        /\ pl' \in PrebufferMore(pl) \cup PrebufferEnd(pl)
    BY <1>6 DEF MainPrebuffer
  <2>2. running /\ cons \notin HoldsConsumer
    BY <2>1 DEF IInv, LockInv, ControlOK
  <2>3. pl \in State /\ Tells(pl) /\ Honest(pl) /\ Wakes(pl)
    BY <2>2, RunningTells DEF TellInv, StatusInv, HoldsConsumer
  <2>4. Told(pl, pl') /\ Honest(pl')
    BY <2>1, <2>3, PrebufferQuiet, PrebufferHonest, QuietTells DEF Told
  <2> QED
    BY <2>1, <2>2, <2>4, ToldStep DEF HoldsConsumer
<1>7. CASE ProvideNextTrack
  BY <1>7, SilentStep DEF ProvideNextTrack
<1> QED
  BY <1>1, <1>2, <1>3, <1>4, <1>5, <1>6, <1>7 DEF MainStep

(* The consumer loop, apart from the end of a file.                        *)
LEMMA ConsumerTells ==
    ASSUME IInv, TellInv,
           \/ ConsumerBegin \/ ConsumerReopen \/ ConsumerWrite
           \/ ConsumerConsume \/ ConsumerStarved
    PROVE  TellInv'
<1>0. UNCHANGED running
  BY DEF ConsumerBegin, ConsumerReopen, ConsumerWrite, ConsumerConsume,
     ConsumerStarved
<1>1. CASE ConsumerBegin
  <2>0. cons = "loop"
    BY <1>1 DEF ConsumerBegin
  <2>1. CASE ~running /\ pl' = ConsumerStop(pl)
    <3>1. Quiet(pl, pl') /\ Wakes(pl')
      BY <2>1, RunningTells, ConsumerQuiet
    <3> QED
      BY <1>0, <2>1, <3>1, QuietTells, RunningTells DEF TellInv, StatusInv
  <2>2. CASE /\ running /\ pl.consumer_status # "playing" /\ UNCHANGED cons
             /\ pl' = [pl EXCEPT !.waiting = @ \cup {"consumer"}]
    <3>1. /\ pl'.waiting = pl.waiting \cup {"consumer"} /\ pl'.ti = pl.ti
          /\ pl'.refs = pl.refs /\ pl'.status = pl.status
          /\ pl'.consumer_status = pl.consumer_status /\ pl'.eof = pl.eof
          /\ pl'.producer_status = pl.producer_status /\ pl'.file = pl.file
      BY <2>2, RunningTells DEF State
    <3> QED
      BY <1>0, <2>0, <2>2, <3>1 DEF TellInv, StatusInv, Tells, Wakes, Owes, Shown,
         Honest, Reported
  <2>3. CASE /\ running /\ pl.consumer_status = "playing"
             /\ \/ pl' = DeviceLost(pl) /\ cons' = "reopen"
                \/ UNCHANGED pl /\ cons' = "write"
    <3>1. CASE pl' = DeviceLost(pl) /\ cons' = "reopen"
      <4>1. Quiet(pl, pl') /\ Wakes(pl')
        BY <3>1, RunningTells, ConsumerQuiet
      <4>2. pl'.status = pl.status
        BY <3>1, RunningTells DEF State, DeviceLost, ConsumerStatusUpdate, OpClose
      <4>3. pl.status \in {"playing", "stopped"}
        BY <2>0, <2>3 DEF TellInv, StatusInv, Honest, Reported
      <4> QED
        BY <1>0, <2>3, <3>1, <4>1, <4>2, <4>3, QuietTells, RunningTells
           DEF TellInv, StatusInv
    <3>2. CASE UNCHANGED pl /\ cons' = "write"
      BY <1>0, <2>0, <3>2, SilentStep
    <3> QED
      BY <2>3, <3>1, <3>2
  <2> QED
    BY <1>1, <2>1, <2>2, <2>3 DEF ConsumerBegin, ConsumerHasWork
<1>2. CASE ConsumerReopen
  <2>1. /\ cons = "reopen" /\ pl' \in ConsumerPlay(pl) /\ cons' = "loop"
    BY <1>2 DEF ConsumerReopen
  <2>2. /\ running /\ pl.consumer_status = "stopped" /\ pl.file \in Tracks
        /\ pl.status \in {"playing", "stopped"}
    BY <2>1, RunningTells DEF IInv, LockInv, PlaceInv, HoldsConsumer, TellInv,
       StatusInv, ControlOK, StateInv, ProducerInv, PluginInv
  <2>3. Quiet(pl, pl') /\ Wakes(pl') /\ Honest(pl')
    BY <2>1, <2>2, RunningTells, ConsumerPlayQuiet, ConsumerPlayHonest
  <2> QED
    BY <1>0, <2>1, <2>3, RunningTells, QuietTells, ToldStep DEF Told
<1>3. CASE ConsumerWrite
  BY <1>0, <1>3, SilentStep DEF ConsumerWrite, AfterSleep
<1>4. CASE ConsumerConsume
  <2>0. cons = "consume"
    BY <1>4 DEF ConsumerConsume
  <2>1. running /\ pl.consumer_status = "playing"
    BY <2>0 DEF IInv, LockInv, PlaceInv, HoldsConsumer, BothPlaying, ControlOK
  <2>2. CASE pl' = DeviceLost(pl) /\ cons' = "reopen"
    <3>1. Quiet(pl, pl') /\ Wakes(pl')
      BY <2>2, RunningTells, ConsumerQuiet
    <3>2. pl'.status = pl.status
      BY <2>2, RunningTells DEF State, DeviceLost, ConsumerStatusUpdate, OpClose
    <3>3. pl.status \in {"playing", "stopped"}
      BY <2>0, <2>1 DEF TellInv, StatusInv, Honest, Reported
    <3> QED
      BY <1>0, <2>1, <2>2, <3>1, <3>2, <3>3, QuietTells, RunningTells
         DEF TellInv, StatusInv
  <2>3. CASE pl' \in {pl, [pl EXCEPT !.filled = @ - 1]} /\ cons' = "write"
    <3>1. Honest(pl)
      BY <2>0, <2>1 DEF TellInv, StatusInv
    <3>2. Quiet(pl, pl') /\ Wakes(pl') /\ Honest(pl')
      BY <2>3, <3>1, RunningTells DEF State, Quiet, Wakes, Honest, Reported
    <3> QED
      BY <1>0, <2>3, <3>2, RunningTells, QuietTells, ToldStep DEF Told
  <2> QED
    BY <1>4, <2>2, <2>3 DEF ConsumerConsume
<1>5. CASE ConsumerStarved
  BY <1>0, <1>5, SilentStep DEF ConsumerStarved, ConsumerUnlock, AfterSleep
<1> QED
  BY <1>1, <1>2, <1>3, <1>4, <1>5

(* The end of a file.                                                      *)
LEMMA ConsumerEofTells ==
    ASSUME IInv, TellInv, ConsumerEof \/ ConsumerNext \/ ConsumerPrebuffer
    PROVE  TellInv'
<1>0. UNCHANGED running /\ cons \in HoldsConsumer \ {"reopen"}
  BY DEF ConsumerEof, AtEof, ConsumerNext, ConsumerPrebuffer, HoldsConsumer
<1>1. /\ running /\ Settled(pl) /\ BothPlaying(pl) /\ Tells(pl) /\ Honest(pl)
      /\ Wakes(pl) /\ pl \in State /\ reply \in Tracks \cup {NoTrack}
  BY <1>0, RunningTells DEF IInv, LockInv, PlaceInv, TellInv, StatusInv,
     HoldsConsumer, ControlOK
<1>2. CASE ConsumerEof
  <2>1. CASE /\ cons' = "loop"
             /\ \/ pl' = EofRemote(pl)
                \/ \E cont \in Cont : pl' \in EofRepeat(pl, cont)
    <3>1. \E cont \in BOOLEAN : pl' \in {EofRemote(pl)} \cup EofRepeat(pl, cont)
      BY <2>1, OptionsAssumption
    <3>2. Told(pl, pl') /\ Honest(pl')
      BY <1>1, <3>1, EofTold
    <3> QED
      BY <1>0, <2>1, <3>2, ToldStep
  <2>2. CASE UNCHANGED pl /\ cons' = "request"
    BY <1>0, <2>2, SilentStep
  <2> QED
    BY <1>2, <2>1, <2>2 DEF ConsumerEof, ConsumerUnlock, ConsumerHold
<1>3. CASE ConsumerNext
  <2>1. /\ \E cont \in Cont : pl' \in EofNext(pl, reply, cont)
        /\ cons' \in {"prebuffer", "loop"}
    BY <1>3 DEF ConsumerNext, ConsumerUnlock, ConsumerHold
  <2>2. Told(pl, pl') /\ Honest(pl')
    BY <1>1, <2>1, OptionsAssumption, EofNextTold, EofNextHonest
  <2> QED
    BY <1>0, <2>1, <2>2, ToldStep
<1>4. CASE ConsumerPrebuffer
  <2>1. PICK p \in PrebufferMore(pl) \cup PrebufferEnd(pl) :
           pl' = p \/ pl' = PlayerStatusChanged(p)
    BY <1>4 DEF ConsumerPrebuffer
  <2>2. cons' # "reopen"
    BY <1>0, <1>4 DEF ConsumerPrebuffer, ConsumerUnlock
  <2>3. p \in State
    BY <1>1, PrebufferSettled DEF Settled, StateInv, ProducerInv
  <2>4. Told(pl, p) /\ Honest(p)
    BY <1>1, PrebufferQuiet, PrebufferHonest, QuietTells DEF Told
  <2>5. Told(pl, pl') /\ Honest(pl')
    BY <2>1, <2>3, <2>4, ErrorTold, ReportReported DEF Honest
  <2> QED
    BY <1>0, <2>2, <2>5, ToldStep
<1> QED
  BY <1>2, <1>3, <1>4
(* The producer thread.                                                    *)
LEMMA ProducerTells ==
    ASSUME IInv, TellInv, ProducerStep
    PROVE  TellInv'
<1>0. UNCHANGED <<running, cons>>
  BY DEF ProducerStep, ProducerBegin, ProducerRead
<1>1. CASE ProducerBegin /\ ~running
  <2>1. pl' = ProducerUnload(pl)
    BY <1>1 DEF ProducerBegin
  <2>2. Quiet(pl, pl') /\ Wakes(pl')
    BY <2>1, RunningTells, ProducerUnloadQuiet DEF StateInv
  <2> QED
    BY <1>0, <1>1, <2>2, QuietTells, RunningTells DEF TellInv, StatusInv
<1>2. CASE ProducerBegin /\ running
  <2>1. CASE pl' = [pl EXCEPT !.waiting = @ \cup {"producer"}]
             /\ ~ProducerHasWork(pl)
    <3>1. /\ pl'.waiting = pl.waiting \cup {"producer"} /\ pl'.ti = pl.ti
          /\ pl'.refs = pl.refs /\ pl'.status = pl.status
          /\ pl'.consumer_status = pl.consumer_status /\ pl'.eof = pl.eof
          /\ pl'.producer_status = pl.producer_status /\ pl'.file = pl.file
      BY <2>1, RunningTells DEF State
    <3>2. pl.producer_status # "playing" \/ pl.eof
      BY <2>1, RunningTells DEF State, ProducerHasWork
    <3> QED
      BY <1>0, <1>2, <3>1, <3>2 DEF TellInv, StatusInv, Tells, Wakes, Owes,
         Shown, Honest, Reported
  <2>2. CASE UNCHANGED pl
    BY <1>0, <2>2 DEF TellInv, StatusInv, Tells, Wakes, Owes, Shown, Honest,
       Reported
  <2> QED
    BY <1>2, <2>1, <2>2 DEF ProducerBegin
<1>3. CASE ProducerRead
  <2>1. pl' \in {pl, ReadEnd(pl)} \cup ReadError(pl) \cup ReadData(pl)
    BY <1>3 DEF ProducerRead
  <2>2. CASE UNCHANGED pl
    BY <1>0, <2>2 DEF TellInv, StatusInv, Tells, Wakes, Owes, Shown, Honest,
       Reported
  <2>3. CASE pl' \in {ReadEnd(pl)} \cup ReadError(pl) \cup ReadData(pl)
    <3>1. Quiet(pl, pl') /\ Wakes(pl')
      BY <2>3, RunningTells, ReadQuiet
    <3>2. running /\ cons # "reopen" => Honest(pl')
      BY <2>3, RunningTells, ReadHonest DEF TellInv, StatusInv
    <3>3. running /\ cons = "reopen" => pl'.status \in {"playing", "stopped"}
      BY <2>3, RunningTells, ReadStopped
         DEF TellInv, StatusInv, IInv, PlaceInv, ControlOK
    <3> QED
      BY <1>0, <3>1, <3>2, <3>3, QuietTells, RunningTells DEF TellInv, StatusInv
  <2> QED
    BY <2>1, <2>2, <2>3
<1> QED
  BY <1>1, <1>2, <1>3 DEF ProducerStep

(* The main thread asks for something.                                     *)
LEMMA BeginTells ==
    ASSUME IInv, TellInv, \/ CallDirect \/ CallPause \/ CallPausePlayback
                          \/ Terminated
    PROVE  TellInv'
<1>1. UNCHANGED <<pl, running, cons>>
  BY DEF CallDirect, CallPause, CallPausePlayback, Terminated, vars
<1> QED
  BY <1>1 DEF TellInv, StatusInv, Tells, Wakes, Owes, Shown, Honest, Reported

(* At the start nothing is held and nobody waits.                          *)
LEMMA InitTells == Init => TellInv
<1> SUFFICES ASSUME Init PROVE TellInv
  OBVIOUS
<1>1. /\ pl.waiting = {} /\ pl.ti = NoTrack
      /\ \A t \in Tracks : pl.refs[t] = 0
      /\ pl.producer_status = "unloaded"
      /\ pl.status = "stopped" /\ pl.consumer_status = "stopped"
  BY DEF Init, InitialState
<1>2. \A t \in Tracks : t # NoTrack
  BY TracksAssumption
<1>3. cons = "loop"
  BY DEF Init
<1> QED
  BY <1>1, <1>2, <1>3 DEF TellInv, StatusInv, Tells, Wakes, Owes, Shown, Honest,
     Reported

(* Every step keeps what the threads tell each other.                      *)
LEMMA TellNextInv == IInv /\ TellInv /\ [Next]_vars => TellInv'
<1> SUFFICES ASSUME IInv, TellInv, [Next]_vars PROVE TellInv'
  OBVIOUS
<1>1. CASE CallDirect \/ CallPause \/ CallPausePlayback \/ Terminated
  BY <1>1, BeginTells
<1>2. CASE MainStep
  BY <1>2, MainTells
<1>3. CASE ConsumerStep
  BY <1>3, ConsumerTells, ConsumerEofTells DEF ConsumerStep
<1>4. CASE ProducerStep
  BY <1>4, ProducerTells
<1>5. CASE UNCHANGED vars
  BY <1>5 DEF vars, TellInv, StatusInv, Tells, Wakes, Owes, Shown, Honest,
     Reported
<1> QED
  BY <1>1, <1>2, <1>3, <1>4, <1>5 DEF Next

(* What the player tells others is true in every reachable state.          *)
THEOREM ToldInvariant == Spec => []TellInv
<1>1. IInv /\ TellInv /\ [Next]_vars => (IInv /\ TellInv)'
  BY NextInv, TellNextInv
<1>2. Init => IInv /\ TellInv
  BY InitInv, InitTells
<1> QED
  BY <1>1, <1>2, PTL DEF Spec

(* The track that is shown is the one that is loaded, and the player holds *)
(* exactly one reference to it: metadata_changed() relies on it, and none  *)
(* leaks when a file does not open or the next track arrives.              *)
THEOREM TiAlwaysMatches == Spec => []TiMatches
<1>1. TellInv => TiMatches
  <2> SUFFICES ASSUME TellInv PROVE TiMatches
    OBVIOUS
  <2>1. \A t \in Tracks : pl.refs[t] = IF t = pl.ti THEN 1 ELSE 0
    BY TracksAssumption DEF TellInv, Tells, Owes
  <2> QED
    BY <2>1 DEF TiMatches, TellInv, Tells, Shown
<1> QED
  BY <1>1, ToldInvariant, PTL

(* No broadcast is missing: neither thread sleeps on its condition variable*)
(* while it has work, nor when the program ends.                           *)
THEOREM NoWakeupLost == Spec => []NoLostWakeup
<1>1. TellInv => NoLostWakeup
  BY DEF TellInv, Tells, Wakes, NoLostWakeup
<1> QED
  BY <1>1, ToldInvariant, PTL

(* Whatever fails, the status that is shown is that of the player, or      *)
(* "stopped" for one that plays.                                           *)
THEOREM StatusNeverTooHigh == Spec => []StatusNeverOverstated
<1>1. TellInv => StatusNeverOverstated
  BY DEF TellInv, StatusInv, Honest, Reported, StatusNeverOverstated
<1> QED
  BY <1>1, ToldInvariant, PTL

-----------------------------------------------------------------------------
(* Who waits for whom.                                                     *)

(* x cannot go on before y has done something: given back a mutex, answered*)
(* the request for a track, or ended.                                      *)
WaitsFor(x, y) ==
    \/ x = "main" /\ main = "lock_c" /\ y = cmutex
    \/ x = "main" /\ main = "lock_p" /\ y = pmutex
    \/ x = "main" /\ main = "join" /\ y = "consumer" /\ cons # "done"
    \/ x = "main" /\ main = "join" /\ y = "producer" /\ prod # "done"
    \/ x = "consumer" /\ cons = "loop" /\ "consumer" \notin pl.waiting /\ y = cmutex
    \/ x = "consumer" /\ cons = "starved" /\ y = pmutex
    \/ x = "consumer" /\ cons = "request" /\ main # "idle" /\ y = "main"
    \/ x = "producer" /\ prod = "loop" /\ "producer" \notin pl.waiting /\ y = pmutex

(* No thread waits for itself, and no two or three for each other.         *)
NoCircle ==
    /\ \A x, y \in Threads : WaitsFor(x, y) => x # y /\ ~WaitsFor(y, x)
    /\ \A x, y, z \in Threads :
          WaitsFor(x, y) /\ WaitsFor(y, z) => ~WaitsFor(z, x)

(* What the main thread holds, where no player_seek has run.               *)
MainHolds ==
    /\ cmutex = "main" => main \in {"lock_p", "prebuffer"}
    /\ pmutex = "main" => main = "prebuffer"
    /\ main \in {"join", "done"} => ~running
    /\ call.op # "seek"

(* The functions of the main thread give back what they took.              *)
LEMMA MainStepHolds ==
    ASSUME IInv, MainHolds, MainStep
    PROVE  MainHolds'
<1>1. CASE LockConsumer
  BY <1>1 DEF LockConsumer, MainHolds, IInv, LockInv
<1>2. CASE RunCall
  BY <1>2 DEF RunCall, HoldFor, Unlock, NoCall, MainHolds, IInv, LockInv
<1>3. CASE RunSeek
  BY <1>3 DEF RunSeek, MainHolds
<1>4. CASE RunExit
  BY <1>4 DEF RunExit, MainHolds
<1>5. CASE Join
  BY <1>5 DEF Join, MainHolds, NoCall
<1>6. CASE MainPrebuffer
  BY <1>6 DEF MainPrebuffer, Unlock, NoCall, MainHolds, IInv, LockInv
<1>7. CASE ProvideNextTrack
  BY <1>7 DEF ProvideNextTrack, MainHolds
<1> QED
  BY <1>1, <1>2, <1>3, <1>4, <1>5, <1>6, <1>7 DEF MainStep

(* The others never take a mutex for it.                                   *)
LEMMA OtherStepHolds ==
    ASSUME MainHolds, ConsumerStep \/ ProducerStep
    PROVE  MainHolds'
<1>1. /\ UNCHANGED <<main, call, running>>
      /\ cmutex' \in {cmutex, "free", "consumer"}
      /\ pmutex' \in {pmutex, "free", "consumer", "producer"}
  <2>1. CASE ConsumerBegin
    BY <2>1 DEF ConsumerBegin
  <2>2. CASE ConsumerReopen \/ ConsumerWrite \/ ConsumerConsume
    BY <2>2 DEF ConsumerReopen, ConsumerWrite, ConsumerConsume
  <2>3. CASE ConsumerStarved
    BY <2>3 DEF ConsumerStarved, ConsumerUnlock
  <2>4. CASE ConsumerEof
    BY <2>4 DEF ConsumerEof, ConsumerUnlock, ConsumerHold
  <2>5. CASE ConsumerNext \/ ConsumerPrebuffer
    BY <2>5 DEF ConsumerNext, ConsumerPrebuffer, ConsumerUnlock, ConsumerHold
  <2>6. CASE ProducerBegin \/ ProducerRead
    BY <2>6 DEF ProducerBegin, ProducerRead, ProducerSleep
  <2> QED
    BY <2>1, <2>2, <2>3, <2>4, <2>5, <2>6 DEF ConsumerStep, ProducerStep
<1> QED
  BY <1>1 DEF MainHolds

(* Without player_seek the main thread holds a mutex only where it goes on *)
(* to give it back.                                                        *)
LEMMA MainHoldsNext ==
    ASSUME "seek" \notin Calls, IInv, MainHolds, [Next]_vars
    PROVE  MainHolds'
<1>1. CASE CallDirect
  BY <1>1 DEF CallDirect, BeginCall, MainHolds
<1>2. CASE CallPause
  BY <1>2 DEF CallPause, PauseCheck, BeginCall, MainHolds
<1>3. CASE CallPausePlayback
  BY <1>3 DEF CallPausePlayback, MainHolds
<1>4. CASE Terminated \/ UNCHANGED vars
  BY <1>4 DEF Terminated, vars, MainHolds
<1> QED
  BY <1>1, <1>2, <1>3, <1>4, MainStepHolds, OtherStepHolds DEF Next

(* Whoever is waited for waits for the producer at most, or for a main     *)
(* thread that waits for nobody.                                           *)
LEMMA WaitedFor ==
    ASSUME IInv, MainHolds, ~CircularWait, NEW x \in Threads, NEW y \in Threads
    PROVE  /\ WaitsFor(x, "producer") => ~WaitsFor("producer", y)
           /\ WaitsFor(x, "main") => (WaitsFor("main", y) => y = "producer")
           /\ WaitsFor(x, "consumer") =>
                 (WaitsFor("consumer", y) =>
                     y = "producer" \/ (y = "main" /\ ~WaitsFor("main", x)))
<1>1. /\ LockInv /\ MainHolds /\ ~CircularWait
      /\ y # "free" /\ x # "free"
      /\ x \in {"main", "consumer", "producer"} /\ y \in {"main", "consumer", "producer"}
  BY DEF IInv, Threads
<1> QED
  BY <1>1 DEF LockInv, MainHolds, CircularWait, WaitsFor, HoldsConsumer, HoldsBoth

(* But for the circular wait that a request for the next track makes, no   *)
(* threads of the player wait for each other in a circle: consumer_mutex is*)
(* taken before producer_mutex, and nobody who holds both waits for more.  *)
(* player_seek, which returns with both, is left out.                      *)
THEOREM NoOtherCircle ==
    ASSUME "seek" \notin Calls
    PROVE  Spec => [](~CircularWait => NoCircle)
<1>1. Init => MainHolds
  BY DEF Init, MainHolds, NoCall
<1>2. IInv /\ MainHolds /\ [Next]_vars => MainHolds'
  BY MainHoldsNext
<1>3. IInv /\ MainHolds => (~CircularWait => NoCircle)
  <2> SUFFICES ASSUME IInv, MainHolds, ~CircularWait PROVE NoCircle
    OBVIOUS
  <2> QED
    BY WaitedFor DEF NoCircle, Threads
<1> QED
  BY <1>1, <1>2, <1>3, Invariant, PTL DEF Spec
=============================================================================
