------------------------------ MODULE Transport ------------------------------
(***************************************************************************)
(* What player.c promises to its user: a transport that is stopped, plays  *)
(* or is paused, with a track or none, which obeys one command at a time,  *)
(* each in one step, and does by itself only what the end of a track or a  *)
(* lost device makes it do.  Of threads, buffer, plug-ins and mutexes there*)
(* is nothing here; Player refines this.                                   *)
(***************************************************************************)
CONSTANTS Tracks, NoTrack

VARIABLES
    status,   \* "stopped", "playing" or "paused"
    track,    \* the track that is loaded, or NoTrack
    played,   \* it was played as far as it could be read
    request,  \* the command that was given and is not yet obeyed
    over      \* the program is ending

transport_vars == <<status, track, played, request, over>>

None == [op |-> "none", ti |-> NoTrack]
Requests == [op : {"play", "stop", "pause", "seek", "exit"}, ti : {NoTrack}]
            \cup [op : {"set_file", "play_file"}, ti : Tracks]

TransportInit ==
    /\ status = "stopped" /\ track = NoTrack
    /\ played = FALSE /\ request = None /\ over = FALSE

(* What can come of an attempt to play t: its file cannot be opened, or the*)
(* device cannot.                                                          *)
Loaded(t) == <<status', track'>> \in
    {<<"playing", t>>, <<"stopped", t>>, <<"stopped", NoTrack>>}

Becomes(s) == status' = s /\ track' = track

(* Starting takes the track that is loaded, or any when none is.           *)
Start ==
    \/ track # NoTrack /\ Loaded(track)
    \/ track = NoTrack /\ (Becomes("stopped") \/ \E t \in Tracks : Loaded(t))

Obey ==
    CASE request.op = "stop" -> Becomes("stopped")
      [] request.op \in {"play", "pause", "seek"} /\ status = "stopped" -> Start
      [] request.op = "play" /\ status # "stopped" -> Becomes("playing")
      [] request.op = "pause" /\ status = "playing" -> Becomes("paused")
      [] request.op = "pause" /\ status = "paused" -> Becomes("playing")
      [] request.op = "seek" /\ status # "stopped" -> Becomes(status)
      [] request.op = "set_file" /\ status = "stopped" ->
            status' = "stopped" /\ track' = request.ti
      [] request.op = "set_file" /\ status # "stopped" -> Loaded(request.ti)
      [] request.op = "play_file" -> Loaded(request.ti)
      [] request.op = "exit" -> Becomes(status)

Ask ==
    /\ request = None /\ request' \in Requests
    /\ UNCHANGED <<status, track, played, over>>

Execute ==
    /\ request # None /\ request' = None
    /\ Obey
    /\ over' = (request.op = "exit")
    /\ played' \in BOOLEAN

Sound ==
    /\ played' \in BOOLEAN
    /\ UNCHANGED <<status, track, request, over>>

(* At the end of a track: that track again, another one, none, or the one  *)
(* or another without playing it.                                          *)
EndOfTrack ==
    /\ status = "playing" /\ played
    /\ \E t \in Tracks : Loaded(t)
    /\ played' \in BOOLEAN /\ UNCHANGED <<request, over>>

DeviceLost ==
    /\ status = "playing" /\ Becomes("stopped")
    /\ UNCHANGED <<played, request, over>>

(* When the program ends, first or last the sound, and the track.          *)
Quit ==
    /\ over
    /\ status' \in {status, "stopped"} /\ track' \in {track, NoTrack}
    /\ played' \in BOOLEAN /\ UNCHANGED <<request, over>>

TransportNext ==
    Ask \/ Execute \/ Sound \/ EndOfTrack \/ DeviceLost \/ Quit

TransportSpec == TransportInit /\ [][TransportNext]_transport_vars
=============================================================================
