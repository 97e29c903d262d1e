----------------------------- MODULE MCMainLoop -----------------------------
(* MainLoop with environments for the player with commands and queries, the*)
(* player with clients, resizes and a mixer that is polled, the screen and *)
(* its size, the last line.                                                *)
EXTENDS MainLoop

PlayerEnvironment ==
    [signals |-> {}, ready |-> {"stdin"},
     commands |-> {"player", "query"}, threads |-> TRUE,
     mixers |-> {"fds"}, library |-> {FALSE}]
PollEnvironment ==
    [signals |-> {"winch"}, ready |-> {"client"},
     commands |-> {"player"}, threads |-> TRUE,
     mixers |-> {"poll"}, library |-> {FALSE}]
ScreenEnvironment ==
    [signals |-> {"winch", "quit"}, ready |-> {"stdin", "client", "job"},
     commands |-> {"view", "window", "message"}, threads |-> FALSE,
     mixers |-> {"fds", "poll"}, library |-> BOOLEAN]
LineEnvironment ==
    [signals |-> {"ctrl_c", "winch"}, ready |-> {"mixer", "stdin", "mpris"},
     commands |-> {"message", "mode", "query"}, threads |-> FALSE,
     mixers |-> {"fds", "poll"}, library |-> BOOLEAN]

TestEnvironments == {PlayerEnvironment, PollEnvironment, ScreenEnvironment,
                     LineEnvironment}
=============================================================================
