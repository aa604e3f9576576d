-------------------------- MODULE MCPollReconcile --------------------------
(* An orchestrator and a worker that share one room and one state directory. *)
EXTENDS PollReconcile

CONSTANTS orch, wrk, r1

MCFileOrder == <<orch, wrk>>
MCHolds == [s \in {orch, wrk} |-> {r1}]
=============================================================================
