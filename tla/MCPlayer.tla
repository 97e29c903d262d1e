------------------------------ MODULE MCPlayer ------------------------------
(* Instances of Player for TLC: two files t and u whose formats differ, and*)
(* a stream r that shares the format of t.                                 *)
EXTENDS PlayerTransport, TLC

CONSTANTS t, u, r, stereo, surround

MCTracks == {t, u, r}
MCFormats == {stereo, surround}
MCFormat == t :> stereo @@ u :> surround @@ r :> stereo

(* One file is enough where only the order of steps matters.               *)
MCOneTrack == {t}
MCOneFormat == t :> stereo
=============================================================================
