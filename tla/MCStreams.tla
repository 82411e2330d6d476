----------------------------- MODULE MCStreams -----------------------------
(***************************************************************************)
(* The sending half of an LRCP session, and the servers that copy or       *)
(* answer a TCP stream.  A behaviour drives one of them and leaves the     *)
(* other in its initial state, where none of its goroutines runs.          *)
(*                                                                         *)
(* session: two lines, two acks at once.                                   *)
(* servers: three items of a client, or at the proxy two of the client     *)
(* and one of the upstream chat server.                                    *)
(***************************************************************************)
EXTENDS LrcpSend, StreamServers

VARIABLE part  \* what a behaviour drives

MCMaxItems ==
  [g \in Programs |-> [client |-> IF g = "mob" THEN 2 ELSE 3,
                       upstream |-> IF g = "mob" THEN 1 ELSE 0]]

MCInit == /\ part \in {"session", "servers"}
          /\ Init /\ StreamInit

MCNext ==
  /\ \/ part = "session" /\ Next /\ UNCHANGED streamVars
     \/ part = "servers" /\ StreamNext /\ UNCHANGED vars
  /\ UNCHANGED part

MCSpec == /\ MCInit
          /\ [][MCNext]_<<vars, streamVars, part>>
          /\ Fairness /\ StreamFairness
=============================================================================
