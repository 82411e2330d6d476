--------------------------- MODULE MCSpeedTickets ---------------------------
(* A road with two cameras, 61 miles apart, and a dispatcher.  From 82800 to *)
(* 86400, the next day, that is 61 miles per hour, one above the limit; to   *)
(* 86600 it is 57.8.  Both cameras may also see a car at the same time.      *)
EXTENDS SpeedTickets

CONSTANTS s1, s2, s3, p1, p2

Seen(p, time) == [plate |-> p, timestamp |-> time]

MCPeers ==
  [s \in Sessions |->
    [cameras |-> CASE s = s1 -> {[road |-> 1, mile |-> 0, limit |-> 60]}
                   [] s = s2 -> {[road |-> 1, mile |-> 61, limit |-> 60]}
                   [] s = s3 -> {},
     messages |-> CASE s = s1 -> {Seen(p1, 86400), Seen(p1, 86600), Seen(p2, 86400)}
                    [] s = s2 -> {Seen(p1, 82800), Seen(p1, 86400), Seen(p2, 82800)}
                    [] s = s3 -> {},
     dispatchers |-> IF s = s3 THEN {{1}} ELSE {}]]
=============================================================================
