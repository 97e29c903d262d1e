------------------------------- MODULE Player -------------------------------
(***************************************************************************)
(* The player core of player.c: the main thread, which calls the player_*  *)
(* functions and answers requests for the next track, the producer thread, *)
(* which reads the input plug-in into the buffer, and the consumer thread, *)
(* which writes the buffer to the output device and decides what happens   *)
(* at the end of a file.                                                   *)
(*                                                                         *)
(* A step is what a thread does between two points where another thread    *)
(* can act on what it sees: taking a mutex, sleeping, waiting, one read,   *)
(* one write, and the moments where player.c looks at shared state without *)
(* its mutex.  What runs under both mutexes and calls nobody is one step.  *)
(***************************************************************************)
EXTENDS PlayerOps, FiniteSets

CONSTANTS
    Calls,          \* the player_* functions that the main thread calls
    Cont,           \* values player_cont may have when it is read
    Repeat,         \* values player_repeat_current may have when it is read
    MaxSpace,       \* bound on op_buffer_space, in writes
    SleepOutcomes   \* TRUE: ms_sleep returns; FALSE: it calls itself for ever

AllCalls == {"play", "stop", "pause", "pause_playback", "set_file",
             "play_file", "seek", "exit"}

ASSUME CallsAssumption == Calls \subseteq AllCalls
ASSUME OptionsAssumption == Cont \subseteq BOOLEAN /\ Repeat \subseteq BOOLEAN
ASSUME BoundsAssumption == MaxSpace \in Nat /\ SleepOutcomes \subseteq BOOLEAN

VARIABLES
    pl,        \* the shared record of PlayerOps
    cmutex,    \* who holds consumer_mutex
    pmutex,    \* who holds producer_mutex
    running,   \* consumer_running and producer_running, written together
    main,      \* where the main thread is
    call,      \* the player_* function it is in, and its track argument
    cons,      \* where the consumer thread is
    space,     \* its local variable of that name, counted in writes
    prod,      \* where the producer thread is
    reply      \* the answer to cmus_get_next_track

vars == <<pl, cmutex, pmutex, running, main, call, cons, space, prod, reply>>

Threads == {"main", "consumer", "producer"}
NoCall == [op |-> "none", ti |-> NoTrack]

(* Where the threads can be.  The main thread is "idle" in the select loop *)
(* of the user interface; "starved" is the consumer that found no data and *)
(* wants producer_mutex; it is in cmus_get_next_track from "request" to    *)
(* "reply"; "first" and "second" are the rounds of producer_loop; a thread *)
(* whose ms_sleep never returns is "hung".                                 *)
MainPlaces == {"idle", "checked", "lock_c", "lock_p", "prebuffer", "join",
               "done"}
ConsPlaces == {"loop", "write", "consume", "starved", "reopen", "request",
               "reply", "prebuffer", "done", "hung"}
ProdPlaces == {"loop", "first", "second", "done", "hung"}

Init ==
    /\ pl = InitialState
    /\ cmutex = "free" /\ pmutex = "free"
    /\ running = TRUE
    /\ main = "idle" /\ call = NoCall
    /\ cons = "loop" /\ space = 0
    /\ prod = "loop"
    /\ reply = NoTrack

-----------------------------------------------------------------------------
(* The main thread.                                                        *)

(* A function that starts by taking both mutexes.                          *)
BeginCall(op, ti) ==
    /\ main' = "lock_c"
    /\ call' = [op |-> op, ti |-> ti]

CallDirect ==
    /\ main = "idle"
    /\ \E op \in Calls \ {"pause", "pause_playback"} :
          \/ op \notin {"set_file", "play_file"} /\ BeginCall(op, NoTrack)
          \/ /\ op \in {"set_file", "play_file"}
             /\ \E t \in Tracks : BeginCall(op, t)
    /\ UNCHANGED <<pl, cmutex, pmutex, running, cons, space, prod, reply>>

(* The test that player_pause makes before it takes a mutex: pausing a     *)
(* stream stops it.  ip may point to freed memory: any answer then.        *)
PauseCheck ==
    \E remote \in IF pl.ip = "freed" THEN BOOLEAN ELSE {IpIsRemote(pl)} :
        IF pl.ip # "null" /\ remote /\ pl.consumer_status = "playing"
        THEN BeginCall("stop", NoTrack)
        ELSE BeginCall("pause", NoTrack)

CallPause ==
    /\ \/ main = "idle" /\ "pause" \in Calls
       \/ main = "checked"
    /\ PauseCheck
    /\ UNCHANGED <<pl, cmutex, pmutex, running, cons, space, prod, reply>>

(* player_pause_playback looks at consumer_status without the mutex.       *)
CallPausePlayback ==
    /\ main = "idle" /\ "pause_playback" \in Calls
    /\ pl.consumer_status = "playing"
    /\ main' = "checked"
    /\ call' = [op |-> "pause_playback", ti |-> NoTrack]
    /\ UNCHANGED <<pl, cmutex, pmutex, running, cons, space, prod, reply>>

(* Fault: only producer_mutex is taken.                                    *)
LockProducerOnly ==
    /\ main = "lock_c"
    /\ main' = "lock_p"
    /\ UNCHANGED <<pl, cmutex, pmutex, running, call, cons, space, prod, reply>>

(* player_lock(): consumer_mutex first, then producer_mutex.               *)
LockConsumer ==
    /\ main = "lock_c" /\ cmutex = "free"
    /\ cmutex' = "main"
    /\ main' = "lock_p"
    /\ UNCHANGED <<pl, pmutex, running, call, cons, space, prod, reply>>

Unlock ==
    /\ cmutex' = "free" /\ pmutex' = "free"
    /\ main' = "idle" /\ call' = NoCall

HoldFor(place) ==
    /\ cmutex' = "main" /\ pmutex' = "main"
    /\ main' = place /\ UNCHANGED call

(* Which functions end with _prebuffer, given the state s they reached.    *)
Prebuffers(s) ==
    CASE call.op \in {"play", "pause"} ->
            pl.consumer_status = "stopped" /\ s.consumer_status = "playing"
      [] call.op \in {"set_file", "play_file"} -> s.producer_status = "playing"
      [] OTHER -> FALSE

CallBody(s) ==
    CASE call.op = "stop"      -> {Stop(s)}
      [] call.op = "play"      -> Play(s)
      [] call.op = "pause"     -> Pause(s)
      [] call.op = "set_file"  -> SetFile(s, call.ti)
      [] call.op = "play_file" -> PlayFile(s, call.ti)

RunCall ==
    /\ main = "lock_p" /\ pmutex = "free"
    /\ call.op \in AllCalls \ {"seek", "exit", "pause_playback"}
    /\ pl' \in CallBody(pl)
    /\ IF Prebuffers(pl') THEN HoldFor("prebuffer") ELSE Unlock
    /\ UNCHANGED <<running, cons, space, prod, reply>>

(* player_seek: the returns that unlock are those of a device that cannot  *)
(* be opened, a file without duration and a seek that is too short; every  *)
(* other way through falls off the end of the function with both mutexes   *)
(* held, back into the select loop.                                        *)
RunSeek ==
    /\ main = "lock_p" /\ pmutex = "free"
    /\ call.op = "seek"
    /\ pl' \in Seek(pl)
    /\ LET noDevice == /\ pl'.consumer_status = "stopped"
                       /\ pl'.producer_status = "stopped"
           seekable == pl'.consumer_status # "stopped"
       IN  \/ (noDevice \/ seekable) /\ Unlock
           \/ /\ ~noDevice
              /\ cmutex' = "main" /\ pmutex' = "main"
              /\ main' = "idle" /\ call' = NoCall
    /\ UNCHANGED <<running, cons, space, prod, reply>>

(* Fault: the producer is not told.                                        *)
WakeConsumer(s) == [s EXCEPT !.waiting = @ \ {"consumer"}]

(* player_exit: tell both threads to end, and join them.                   *)
WakeBoth(s) == [s EXCEPT !.waiting = {}]

RunExit ==
    /\ main = "lock_p" /\ pmutex = "free"
    /\ call.op = "exit"
    /\ running' = FALSE
    /\ pl' = WakeBoth(pl)
    /\ cmutex' = "free"
    /\ main' = "join"
    /\ UNCHANGED <<pmutex, call, cons, space, prod, reply>>

Join ==
    /\ main = "join" /\ cons = "done" /\ prod = "done"
    /\ main' = "done" /\ call' = NoCall
    /\ UNCHANGED <<pl, cmutex, pmutex, running, cons, space, prod, reply>>

MainPrebuffer ==
    /\ main = "prebuffer"
    /\ \/ pl' \in PrebufferMore(pl) /\ UNCHANGED <<cmutex, pmutex, main, call>>
       \/ pl' \in PrebufferEnd(pl) /\ Unlock
    /\ UNCHANGED <<running, cons, space, prod, reply>>

(* The select loop sees cmus_next_track_request_fd and answers.            *)
ProvideNextTrack ==
    /\ main = "idle" /\ cons = "request"
    /\ reply' \in Tracks \cup {NoTrack}
    /\ cons' = "reply"
    /\ UNCHANGED <<pl, cmutex, pmutex, running, main, call, space, prod>>

-----------------------------------------------------------------------------
(* The consumer thread.                                                    *)

AfterSleep == {IF returns THEN "loop" ELSE "hung" : returns \in SleepOutcomes}

ConsumerHasWork(s) == s.consumer_status = "playing"

(* consumer_lock() and what consumer_loop does before it has data to look  *)
(* for: end, wait, or ask the device how much it takes.                    *)
ConsumerBegin ==
    /\ cons = "loop" /\ cmutex = "free" /\ "consumer" \notin pl.waiting
    /\ CASE ~running ->
              /\ pl' = ConsumerStop(pl)
              /\ cons' = "done"
              /\ UNCHANGED <<cmutex, space>>
         [] running /\ ~ConsumerHasWork(pl) ->
              /\ pl' = [pl EXCEPT !.waiting = @ \cup {"consumer"}]
              /\ UNCHANGED <<cmutex, cons, space>>
         [] OTHER ->
              /\ cmutex' = "consumer"
              /\ \/ /\ pl' = DeviceLost(pl)
                    /\ cons' = "reopen"
                    /\ UNCHANGED space
                 \/ /\ space' \in 0 .. MaxSpace
                    /\ cons' = "write"
                    /\ UNCHANGED pl
    /\ UNCHANGED <<pmutex, running, main, call, prod, reply>>

(* _consumer_play after the device was lost; the producer may have run     *)
(* since consumer_status became CS_STOPPED.                                *)
ConsumerReopen ==
    /\ cons = "reopen"
    /\ pl' \in ConsumerPlay(pl)
    /\ cmutex' = "free" /\ cons' = "loop"
    /\ UNCHANGED <<space, pmutex, running, main, call, prod, reply>>

(* The head of the write loop: the device is full, there is nothing to     *)
(* read, or rpos now points into the first filled chunk.                   *)
ConsumerWrite ==
    /\ cons = "write"
    /\ \/ /\ space = 0
          /\ cmutex' = "free" /\ cons' \in AfterSleep
       \/ /\ space # 0 /\ pl.filled = 0
          /\ cons' = "starved" /\ UNCHANGED cmutex
       \/ /\ space # 0 /\ pl.filled > 0
          /\ cons' = "consume" /\ UNCHANGED cmutex
    /\ UNCHANGED <<pl, space, pmutex, running, main, call, prod, reply>>

(* op_write fails, or takes all or a part of the first filled chunk.       *)
ConsumerConsume ==
    /\ cons = "consume"
    /\ \/ /\ pl' = DeviceLost(pl)
          /\ cons' = "reopen" /\ UNCHANGED space
       \/ /\ pl' \in {pl, [pl EXCEPT !.filled = @ - 1]}
          /\ space' \in 0 .. space - 1
          /\ cons' = "write"
    /\ UNCHANGED <<cmutex, pmutex, running, main, call, prod, reply>>

ConsumerUnlock(place) ==
    /\ cmutex' = "free" /\ pmutex' = "free" /\ cons' = place

ConsumerHold(place) ==
    /\ pmutex' = "consumer" /\ cons' = place /\ UNCHANGED cmutex

(* No data: look again under producer_mutex, and handle the end of file.   *)
ConsumerStarved ==
    /\ cons = "starved" /\ pmutex = "free"
    /\ \/ /\ pl.producer_status # "playing"
          /\ ConsumerUnlock("loop") /\ UNCHANGED pl
       \/ /\ pl.producer_status = "playing" /\ pl.filled > 0
          /\ cons' = "consume" /\ UNCHANGED <<pl, cmutex, pmutex>>
       \/ /\ pl.producer_status = "playing" /\ pl.filled = 0 /\ ~pl.eof
          /\ \E place \in AfterSleep : ConsumerUnlock(place)
          /\ UNCHANGED pl
    /\ UNCHANGED <<space, running, main, call, prod, reply>>

AtEof ==
    /\ cons = "starved" /\ pmutex = "free"
    /\ pl.producer_status = "playing" /\ pl.filled = 0 /\ pl.eof

(* _consumer_handle_eof, up to cmus_get_next_track.                        *)
ConsumerEof ==
    /\ AtEof
    /\ \/ /\ IpIsRemote(pl)
          /\ pl' = EofRemote(pl) /\ ConsumerUnlock("loop")
       \/ /\ ~IpIsRemote(pl) /\ TRUE \in Repeat
          /\ \E cont \in Cont : pl' \in EofRepeat(pl, cont)
          /\ ConsumerUnlock("loop")
       \/ /\ ~IpIsRemote(pl) /\ FALSE \in Repeat
          /\ ConsumerHold("request") /\ UNCHANGED pl
    /\ UNCHANGED <<space, running, main, call, prod, reply>>

(* _consumer_handle_eof after cmus_get_next_track.                         *)
ConsumerNext ==
    /\ cons = "reply"
    /\ \E cont \in Cont : pl' \in EofNext(pl, reply, cont)
    /\ IF pl'.producer_status = "playing" THEN ConsumerHold("prebuffer")
                                          ELSE ConsumerUnlock("loop")
    /\ reply' = NoTrack
    /\ UNCHANGED <<space, running, main, call, prod>>

(* Its _prebuffer, and the _player_status_changed that follows.            *)
ConsumerPrebuffer ==
    /\ cons = "prebuffer"
    /\ \/ /\ pl' \in PrebufferMore(pl)
          /\ UNCHANGED <<cmutex, pmutex, cons>>
       \/ /\ \E p \in PrebufferEnd(pl) : pl' = PlayerStatusChanged(p)
          /\ ConsumerUnlock("loop")
    /\ UNCHANGED <<space, running, main, call, prod, reply>>

-----------------------------------------------------------------------------
(* The producer thread.                                                    *)

(* Fault: a paused producer reads on.                                      *)
ProducerHasWorkPaused(s) ==
    s.producer_status \in {"playing", "paused"} /\ ~s.eof

ProducerHasWork(s) == s.producer_status = "playing" /\ ~s.eof

(* producer_lock() and the tests before the first read.                    *)
ProducerBegin ==
    /\ prod = "loop" /\ pmutex = "free" /\ "producer" \notin pl.waiting
    /\ CASE ~running ->
              /\ pl' = ProducerUnload(pl)
              /\ prod' = "done"
              /\ UNCHANGED pmutex
         [] running /\ ~ProducerHasWork(pl) ->
              /\ pl' = [pl EXCEPT !.waiting = @ \cup {"producer"}]
              /\ UNCHANGED <<pmutex, prod>>
         [] OTHER ->
              /\ pmutex' = "producer" /\ prod' = "first"
              /\ UNCHANGED pl
    /\ UNCHANGED <<cmutex, running, main, call, cons, space, reply>>

(* Fault: the producer sleeps with its mutex held.                         *)
ProducerSleepLocked ==
    UNCHANGED pmutex /\ prod' \in AfterSleep

ProducerSleep ==
    /\ pmutex' = "free" /\ prod' \in AfterSleep

(* One round: a full buffer, EAGAIN, the end of the file and an error end  *)
(* in a sleep; the second round that read something ends without one.      *)
ProducerRead ==
    /\ prod \in {"first", "second"}
    /\ \/ UNCHANGED pl /\ ProducerSleep
       \/ /\ pl.filled < NrChunks
          /\ pl' \in {ReadEnd(pl)} \cup ReadError(pl)
          /\ ProducerSleep
       \/ /\ pl.filled < NrChunks
          /\ pl' \in ReadData(pl)
          /\ IF prod = "first" THEN prod' = "second" /\ UNCHANGED pmutex
                               ELSE prod' = "loop" /\ pmutex' = "free"
    /\ UNCHANGED <<cmutex, running, main, call, cons, space, reply>>

-----------------------------------------------------------------------------
(* The program is over when player_exit has joined both threads.           *)
Terminated == main = "done" /\ UNCHANGED vars

MainStep == \/ LockConsumer \/ RunCall \/ RunSeek \/ RunExit \/ Join
            \/ MainPrebuffer \/ ProvideNextTrack
ConsumerStep == \/ ConsumerBegin \/ ConsumerReopen \/ ConsumerWrite
                \/ ConsumerConsume \/ ConsumerStarved \/ ConsumerEof
                \/ ConsumerNext \/ ConsumerPrebuffer
ProducerStep == ProducerBegin \/ ProducerRead

Next == \/ CallDirect \/ CallPause \/ CallPausePlayback
        \/ MainStep \/ ConsumerStep \/ ProducerStep \/ Terminated

Spec == Init /\ [][Next]_vars

(* Every thread that can run does, and a thread that waits for a mutex gets*)
(* it: whoever holds one gives it back and sleeps at least 10 ms, or waits *)
(* on a condition variable, before it asks again.  The main thread answers *)
(* a request when it is in its select loop; nothing makes it call.         *)
Fairness == SF_vars(MainStep) /\ SF_vars(ConsumerStep) /\ SF_vars(ProducerStep)

FairSpec == Spec /\ Fairness

-----------------------------------------------------------------------------
(* Every variable is of its type; the buffer holds at most NrChunks chunks,*)
(* however the prebuffering, the reads and the writes follow each other.   *)
TypeOK ==
    /\ pl \in State
    /\ cmutex \in Threads \cup {"free"} /\ pmutex \in Threads \cup {"free"}
    /\ running \in BOOLEAN
    /\ main \in MainPlaces
    /\ call \in [op : AllCalls \cup {"none"}, ti : Tracks \cup {NoTrack}]
    /\ cons \in ConsPlaces /\ space \in Nat
    /\ prod \in ProdPlaces
    /\ reply \in Tracks \cup {NoTrack}

(* The two halves of the player agree: while it runs, the device plays     *)
(* only what the producer reads, and one is paused exactly when the other  *)
(* is.                                                                     *)
StatusesAgree ==
    running => /\ pl.consumer_status = "playing" => pl.producer_status = "playing"
               /\ pl.consumer_status = "paused" <=> pl.producer_status = "paused"

(* The device is open, and paused, exactly when consumer_status says so,   *)
(* and whenever it is open it runs in the format of the file that plays,   *)
(* through every failed open, lost device and change of file.              *)
DeviceMatches ==
    /\ pl.device = "closed" <=> pl.consumer_status = "stopped"
    /\ pl.device = "paused" <=> pl.consumer_status = "paused"
    /\ pl.device # "closed" => /\ pl.device_sf = pl.buffer_sf
                               /\ pl.device_sf = Format[pl.file]

(* What is in the buffer was read from the file that is loaded: no sound   *)
(* of the previous file is ever played after a change, and a stopped or    *)
(* unloaded producer leaves nothing behind.                                *)
BufferBelongs ==
    pl.filled > 0 \/ pl.partial =>
        /\ pl.producer_status \in {"playing", "paused"}
        /\ pl.data = pl.file

(* The next track is asked for only when the last byte of this one has     *)
(* been played, and no byte arrives while the answer is awaited.           *)
TailPlayed ==
    cons \in {"request", "reply"} => pl.filled = 0 /\ ~pl.partial /\ pl.eof

(* A plug-in that is read, or asked for its format without producer_mutex  *)
(* (in _consumer_play after a lost device), is open.                       *)
UsedPluginOpen ==
    \/ prod \in {"first", "second"} \/ cons \in {"reopen", "prebuffer"}
    \/ main = "prebuffer"
    => pl.ip = "open"

(* The assertions: _prebuffer runs with the producer playing, and the      *)
(* chunk that consumer_loop gives back with buffer_consume is still there. *)
NoBugOn ==
    /\ main = "prebuffer" \/ cons = "prebuffer" => pl.producer_status = "playing"
    /\ cons = "consume" => pl.filled > 0 /\ space > 0

(* player_info_priv.ti is the track whose file is loaded, which            *)
(* metadata_changed() relies on, and the player holds one reference to it  *)
(* and none to any other track.                                            *)
TiMatches ==
    /\ pl.producer_status # "unloaded" => pl.ti = pl.file
    /\ \A t \in Tracks : pl.refs[t] = IF t = pl.ti THEN 1 ELSE 0

(* Nobody sleeps on a condition variable when what it waits for is true:   *)
(* every change that could end a wait is broadcast.                        *)
NoLostWakeup ==
    /\ "consumer" \in pl.waiting => running /\ pl.consumer_status # "playing"
    /\ "producer" \in pl.waiting =>
          running /\ (pl.producer_status # "playing" \/ pl.eof)

(* The status shown to the user is that of the player, except while the    *)
(* consumer reopens a lost device.                                         *)
StatusReported ==
    running /\ cons # "reopen" => pl.status = pl.consumer_status

(* Even a read error cannot make the player show more than it does: the    *)
(* one wrong status is "stopped" shown for a player that plays.            *)
StatusNeverOverstated ==
    running /\ cons # "reopen" =>
        \/ pl.status = pl.consumer_status
        \/ pl.status = "stopped" /\ pl.consumer_status = "playing"

(* A paused player keeps its place: only a player_* function moves it.     *)
PausedKeepsPlace ==
    [][running /\ pl.consumer_status = "paused" /\ main' = main =>
          /\ pl'.consumer_status = "paused" /\ pl'.file = pl.file
          /\ <<pl'.filled, pl'.partial, pl'.eof>> =
             <<pl.filled, pl.partial, pl.eof>>]_vars

(* The consumer waits for the next track with both mutexes held, and the   *)
(* main thread that should provide it waits for them.                      *)
CircularWait == cons = "request" /\ main \in {"lock_c", "lock_p"}

(* Every call comes back, unless it meets the circular wait.               *)
CallReturns == main = "lock_c" ~> main \in {"idle", "done"} \/ CircularWait

(* player_stop stops the player.                                           *)
StopTakesEffect ==
    main = "lock_c" /\ call.op = "stop" ~> pl.consumer_status = "stopped"

(* player_exit gets both threads to end.                                   *)
ExitCompletes == main = "join" ~> main = "done"
=============================================================================
