------------------------------ MODULE MCElection ------------------------------
EXTENDS Election

MCPriority == [s \in Nodes |-> 0]

\* Any set of links breaks.
MCBreakages == SUBSET AllLinks \ {{}}
====
