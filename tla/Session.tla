------------------------------ MODULE Session ------------------------------
(***************************************************************************)
(* The clients on top of Network: a client connects to its server, waits   *)
(* for the start signal, sends requests at the rate of a list of intervals *)
(* without waiting for responses, records both, and ends with the last     *)
(* interval.  A server acknowledges every command, to its client 1, and    *)
(* may answer it, to the client that sent it, in any order (what happens   *)
(* between a request and these messages is the subject of the other        *)
(* modules).  A client here is the client program, which connects once.    *)
(***************************************************************************)
EXTENDS Network

CONSTANTS
  NumIntervals,  \* length of the list of intervals, requests in the config
                 \* (with an empty list a client ends on its start signal)
  MaxRequests,   \* MaxRequests[c]: bound on the requests of client c
  Capacity       \* requests that fit between a client and the server: the
                 \* channel of the writer, the connection and the channel
                 \* of the reader

ASSUME SessionAssumption ==
  /\ NumIntervals \in Nat \ {0} /\ MaxRequests \in [Clients -> Nat]
  /\ Capacity \in Nat \ {0}

None == -1   \* no command id

VARIABLES
  phase,     \* phase[c]: "off", "waiting", "running", "sending" or "done"
  interval,  \* interval[c]: intervals begun
  next_request_id,
  request_data,         \* request_data[c]: one row for each request
  final_request_count,  \* final_request_count[c], -1 for None
  response_count,
  pending    \* pending[s]: <<kind, client id, command id>> of the messages
             \* that commands of s still give rise to

clientVars == <<phase, interval, next_request_id, request_data,
                final_request_count, response_count, pending>>
vars == <<netVars, clientVars>>

Init ==
  /\ NetInit
  /\ phase = [c \in Clients |-> "off"]
  /\ interval = [c \in Clients |-> 0]
  /\ next_request_id = [c \in Clients |-> 0]
  /\ request_data = [c \in Clients |-> <<>>]
  /\ final_request_count = [c \in Clients |-> -1]
  /\ response_count = [c \in Clients |-> 0]
  /\ pending = [s \in Servers |-> {}]

-----------------------------------------------------------------------------
(* ClientData.  A row is the command it was made for, or None for the      *)
(* default row, and whether it has a response.                             *)

Row(cmd, response) == [cmd |-> cmd, response |-> response]

new_request(rows, cmd) == Append(rows, Row(cmd, FALSE))

\* Vec::resize: rows behind the n-th are dropped, missing rows are default.
resize(rows, n) ==
  [i \in 1 .. n |-> IF i <= Len(rows) THEN rows[i] ELSE Row(None, FALSE)]

\* The row of command id is the one with the index id.
new_response(rows, id) ==
  [resize(rows, id + 1) EXCEPT ![id + 1].response = TRUE]

\* request_count is what the client compares itself with.
request_count(rows) == Len(rows)

\* Mutant: the client waits for the responses to its requests.
run_finishedAnswered(c, rows, final) ==
  final # -1 /\ response_count[c] >= final
\* Client::run_finished.
run_finished(c, rows, final) == final # -1 /\ request_count(rows) >= final

-----------------------------------------------------------------------------
(* Client::run.                                                            *)

\* Network::new of the client.
Connect(c) ==
  /\ phase[c] = "off"
  /\ ConnectClient(c)
  /\ phase' = [phase EXCEPT ![c] = "waiting"]
  /\ UNCHANGED <<interval, next_request_id, request_data, final_request_count,
                 response_count, pending>>

HasMessage(c) == wire[<<Home[c], c>>] # <<>> /\ Reads(c, Home[c])
Message(c) == Head(wire[<<Home[c], c>>])

\* The first message starts the client.
Start(c) ==
  /\ phase[c] = "waiting" /\ HasMessage(c) /\ Message(c) = StartSignal
  /\ wire' = Taken(Home[c], c)
  /\ phase' = [phase EXCEPT ![c] = "running"]
  /\ interval' = [interval EXCEPT ![c] = 1]
  /\ UNCHANGED <<boot, link, arrived, slots, ids, promised, faults,
                 next_request_id, request_data, final_request_count,
                 response_count, pending>>

\* The arm of the responses.  Whatever is not a start signal counts as the
\* response to the command with its id, acknowledgements too.
HandleServerMessage(c) ==
  /\ phase[c] = "running" /\ HasMessage(c)
  /\ wire' = Taken(Home[c], c)
  /\ LET id == Message(c)[2]
         is_response == Message(c) # StartSignal
     IN /\ request_data' = [request_data EXCEPT ![c] =
                              IF is_response THEN new_response(@, id) ELSE @]
        /\ response_count' = [response_count EXCEPT ![c] =
                                IF is_response THEN @ + 1 ELSE @]
  /\ LET finished == run_finished(c, request_data'[c], final_request_count[c])
     IN /\ phase' = [phase EXCEPT ![c] = IF finished THEN "done" ELSE @]
        /\ link' = [link EXCEPT ![<<c, Home[c]>>] =
                      IF finished THEN "broken" ELSE @]
  /\ UNCHANGED <<boot, arrived, slots, ids, promised, faults, interval,
                 next_request_id, final_request_count, pending>>

\* The arm of request_interval: the loop turns to send_request.
Request(c) ==
  /\ phase[c] = "running" /\ final_request_count[c] = -1
  /\ next_request_id[c] < MaxRequests[c]
  /\ phase' = [phase EXCEPT ![c] = "sending"]
  /\ UNCHANGED <<netVars, interval, next_request_id, request_data,
                 final_request_count, response_count, pending>>

\* send_request awaits room in the channel of the writer, or fails when the
\* writer has ended; the request is recorded in both cases.
SendRequest(c) ==
  /\ phase[c] = "sending"
  /\ Up(c, Home[c]) => Len(wire[<<c, Home[c]>>]) < Capacity
  /\ Send(c, {Home[c]}, <<"Append", next_request_id[c]>>)
  /\ request_data' = [request_data EXCEPT ![c] =
                        new_request(@, next_request_id[c])]
  /\ next_request_id' = [next_request_id EXCEPT ![c] = @ + 1]
  /\ phase' = [phase EXCEPT ![c] = "running"]
  /\ UNCHANGED <<boot, link, arrived, slots, ids, promised, faults, interval,
                 final_request_count, response_count, pending>>

\* The arm of next_interval: the next interval, or the end of the run, which
\* closes the connection.
NextInterval(c) ==
  /\ phase[c] = "running" /\ interval[c] < NumIntervals
  /\ interval' = [interval EXCEPT ![c] = @ + 1]
  /\ UNCHANGED <<netVars, phase, next_request_id, request_data,
                 final_request_count, response_count, pending>>

LastInterval(c) ==
  /\ phase[c] = "running" /\ interval[c] = NumIntervals
  /\ final_request_count' = [final_request_count EXCEPT ![c] =
                               request_count(request_data[c])]
  /\ IF run_finished(c, request_data[c], final_request_count'[c])
     THEN phase' = [phase EXCEPT ![c] = "done"] /\ Disconnect(c, Home[c])
     ELSE UNCHANGED <<phase, link, wire>>
  /\ UNCHANGED <<boot, arrived, slots, ids, promised, faults, interval,
                 next_request_id, request_data, response_count, pending>>

-----------------------------------------------------------------------------
(* The server of a client.                                                 *)

\* handle_client_messages: the reader of a connection adds the client's id.
\* The task of the command pushes an acknowledgement, and a response is due
\* when the command is decided.
HandleRequest(c) ==
  /\ boot[Home[c]] \in {"establishing", "running"}
  /\ wire[<<c, Home[c]>>] # <<>> /\ Reads(Home[c], c)
  /\ pending' = [pending EXCEPT ![Home[c]] =
                   @ \cup {<<kind, client_id[c], Head(wire[<<c, Home[c]>>])[2]>> :
                              kind \in {"Ack", "Response"}}]
  /\ wire' = Taken(c, Home[c])
  /\ UNCHANGED <<boot, link, arrived, slots, ids, promised, faults, phase,
                 interval, next_request_id, request_data, final_request_count,
                 response_count>>

\* send_outgoing_msgs sends every acknowledgement to client 1,
\* update_database_and_respond a result to the client of the command.
Receiver(req) == IF req[1] = "Ack" THEN 1 ELSE req[2]

\* An acknowledgement or a response is handed to send_to_client.
Respond(s) ==
  \E req \in pending[s] :
    LET to == IF Receiver(req) \in DOMAIN client_connections[s]
              THEN {client_connections[s][Receiver(req)]} ELSE {}
    IN /\ pending' = [pending EXCEPT ![s] = @ \ {req}]
       /\ Send(s, to, <<req[1], req[3]>>)
       /\ EmptySlots(s, to)
       /\ UNCHANGED <<boot, link, arrived, ids, promised, faults, phase,
                      interval, next_request_id, request_data,
                      final_request_count, response_count>>

\* The steps of the network that no client takes part in.
NetStep(s) ==
  \/ Boot(s) \/ AddConnection(s) \/ TakeoverTick(s)
  \/ \E x \in Servers : ConnectPeer(s, x) \/ HandleStartSignal(x, s)
  \/ \E x \in Processes : Register(x, s)

\* The steps of a client that its program takes without fail.
ClientStep(c) ==
  Connect(c) \/ Start(c) \/ HandleServerMessage(c) \/ SendRequest(c)
    \/ NextInterval(c) \/ LastInterval(c)

Next ==
  \/ \E s \in Servers : NetStep(s) /\ UNCHANGED clientVars
  \/ \E l \in Connections : Break(l[1], l[2]) /\ UNCHANGED clientVars
  \/ \E c \in Clients : ClientStep(c) \/ Request(c) \/ HandleRequest(c)
  \/ \E s \in Servers : Respond(s)

Spec == Init /\ [][Next]_vars

\* Processes are started, connections are tried again every second until
\* they are made, handshakes and messages arrive on connections that hold,
\* servers read what clients send, and intervals end (the loop gets to
\* next_interval although the other arms come first, because requests are
\* further apart than the turns of the loop).  Nothing is assumed of
\* requests, acknowledgements and responses.
FairSpec ==
  /\ Spec
  /\ \A s \in Servers : WF_vars(NetStep(s) /\ UNCHANGED clientVars)
  /\ \A c \in Clients : WF_vars(ClientStep(c)) /\ WF_vars(HandleRequest(c))

-----------------------------------------------------------------------------
(* Properties.                                                             *)

\* A row of the saved results with a response is the row of the request that
\* was answered: the mean of the differences is the latency that
\* CLOCK_BENCHMARK_README.md takes from the file.  (It is not: client 1
\* records the acknowledgements of everybody's commands, and new_response
\* drops the rows of later requests, so that their own responses meet a
\* default row or the row of another request.)
LatencyOfRequests ==
  \A c \in Clients : \A i \in DOMAIN request_data[c] :
    request_data[c][i].response => request_data[c][i].cmd = i - 1

\* Every client gets its start signal and every server leaves
\* establish_initial_leader, unless a connection breaks or a start signal is
\* lost behind a handshake.
EveryoneStarts ==
  <>(\/ breaks > 0 \/ swallowed # {}
     \/ /\ \A s \in Servers : boot[s] = "running"
        /\ \A c \in Clients : phase[c] \in {"running", "sending", "done"})

\* A client that has started ends and saves its results, even if its
\* connection breaks while it waits for room in the channel, and responses
\* never come.
ClientFinishes ==
  \A c \in Clients : phase[c] \in {"running", "sending"} ~> phase[c] = "done"

=============================================================================
