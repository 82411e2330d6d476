------------------------------- MODULE MCLrcp -------------------------------
(***************************************************************************)
(* The receiving half of a session, and the server with its sessions.  A   *)
(* behaviour drives one of them and leaves the other in its initial state, *)
(* where none of its goroutines runs.                                      *)
(*                                                                         *)
(* session: four bytes with two line ends, two datagrams at once.          *)
(* server: two sessions of one number, so that the close of the first may  *)
(* meet the second, and two datagrams at once.                             *)
(***************************************************************************)
EXTENDS LrcpReceive, LrcpServer

VARIABLE part  \* what a behaviour drives

MCInit == /\ part \in {"session", "server"}
          /\ Init /\ ServerInit

MCNext ==
  /\ \/ part = "session" /\ Next /\ UNCHANGED serverVars
     \/ part = "server" /\ ServerNext /\ UNCHANGED vars
  /\ UNCHANGED part

MCSpec == /\ MCInit
          /\ [][MCNext]_<<vars, serverVars, part>>
          /\ Fairness /\ ServerFairness
=============================================================================
