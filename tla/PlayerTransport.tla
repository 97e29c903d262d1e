--------------------------- MODULE PlayerTransport ---------------------------
(* The player core as the transport that its user sees.                    *)
EXTENDS Player

(* While the consumer tries to open a lost device again the player still   *)
(* plays, and a producer that has unloaded its file has no track.          *)
SeenStatus == IF cons = "reopen" THEN "playing" ELSE pl.consumer_status
SeenTrack == IF pl.producer_status = "unloaded" THEN NoTrack ELSE pl.file
SeenPlayed == pl.eof /\ pl.filled = 0 /\ ~pl.partial

(* A call is a command that is not yet obeyed until it has both mutexes.   *)
SeenRequest == IF main \in {"lock_c", "lock_p"} THEN call ELSE NoCall

Transport == INSTANCE Transport WITH
    status <- SeenStatus, track <- SeenTrack, played <- SeenPlayed,
    request <- SeenRequest, over <- ~running

(* However the three threads interleave, every player_* function takes     *)
(* effect in one step, on the state that is there when it has its mutexes, *)
(* and by itself the player stops, starts or changes tracks only at the end*)
(* of a track that was played as far as it could be read, or when it loses *)
(* its device.                                                             *)
IsTransport == Transport!TransportSpec
=============================================================================
