----------------------------- MODULE MCSession -----------------------------
(* An instance of Session for TLC: the clients' server and requests.        *)
EXTENDS Session

CONSTANTS c1, c2

\* Two clients of the first server; the others wait for none.
MCHome == [c \in Clients |-> 1]

\* The first client makes a second request, which waits until the first has
\* left the channel; the second client only starts and ends.
MCRequests == [c \in Clients |-> IF c = c1 THEN 2 ELSE 0]
=============================================================================
