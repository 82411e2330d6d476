--------------------------- MODULE MCConnHandler ---------------------------
(* Small instances of ConnHandler: a peer with two requests, which may be  *)
(* at the worker and at the reader at once, and maybe a second peer, which  *)
(* only comes and goes.                                                    *)
EXTENDS ConnHandler

CONSTANTS c1, c2

MCMaxRequests == [c \in Conns |-> IF c = c1 THEN 2 ELSE 0]
=============================================================================
