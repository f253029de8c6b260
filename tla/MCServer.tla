------------------------------ MODULE MCServer ------------------------------
(***************************************************************************)
(* Server for TLC.                                                         *)
(***************************************************************************)
EXTENDS Server

CONSTANTS c1, c2

\* One client detaches, the other sends what is no request.
MCOps == [c \in Clients |-> {"quit", IF c = c1 THEN "detach" ELSE "bad"}]

\* One client pipelines two requests.
MCMaxRequests == [c \in Clients |-> IF c = c1 THEN 2 ELSE 1]

=============================================================================
