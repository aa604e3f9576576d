----------------------------- MODULE MCPollLoop -----------------------------
(* Two agents: the hints of the server are none and one longer sleep.        *)
EXTENDS PollLoop

MCHints == {0, 2}
=============================================================================
