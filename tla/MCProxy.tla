------------------------------- MODULE MCProxy -------------------------------
(* Instances of Proxy for TLC: fan-out orders and the clients' commands.    *)
EXTENDS Proxy

\* A map of the servers may iterate in any fixed order: here, backwards.
MCOrder == [k \in 1 .. N |-> N - k]

\* The first client sends k commands, the others only receive.
MCOneCommand   == [c \in 1 .. NumClients |-> IF c = 1 THEN <<1>> ELSE <<>>]
MCTwoCommands  == [c \in 1 .. NumClients |-> IF c = 1 THEN <<1, 2>> ELSE <<>>]
MCFourCommands == [c \in 1 .. NumClients |-> IF c = 1 THEN <<1, 2, 3, 4>> ELSE <<>>]
=============================================================================
