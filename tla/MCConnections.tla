--------------------------- MODULE MCConnections ---------------------------
(***************************************************************************)
(* The goroutines of a connection of the job centre's proto server and     *)
(* of a session of the speed daemon with its heartbeats.  A behaviour      *)
(* drives one of them, part, and leaves the other in its initial state,    *)
(* where none of its goroutines runs.                                      *)
(*                                                                         *)
(* proto: a peer with two requests, which may be at the worker and at the  *)
(* reader at once, and a second peer, which only comes and goes.           *)
(* heartbeats: three messages, and an ID of one bit, so that it wraps.     *)
(***************************************************************************)
EXTENDS ConnHandler, Heartbeat

CONSTANTS c1, c2

MCMaxRequests == [c \in Conns |-> IF c = c1 THEN 2 ELSE 0]

VARIABLE part

MCInit == /\ part \in {"proto", "heartbeat"}
          /\ Init /\ HeartbeatInit

MCNext ==
  /\ \/ part = "proto" /\ Next /\ UNCHANGED heartbeatVars
     \/ part = "heartbeat" /\ HeartbeatNext /\ UNCHANGED vars
  /\ UNCHANGED part

MCSpec == /\ MCInit
          /\ [][MCNext]_<<vars, heartbeatVars, part>>
          /\ Fairness /\ HeartbeatFairness
=============================================================================
