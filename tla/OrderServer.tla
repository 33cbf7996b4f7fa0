----------------------------- MODULE OrderServer -----------------------------
(***************************************************************************)
(* The exchange's order entry (exchange/src/order_server.rs) driven by the *)
(* exchange main loop (exchange/src/main.rs): each iteration polls the    *)
(* server, which accepts the pending connections, reads each connection's *)
(* socket, cuts its byte accumulator into fixed-size ClientRequest        *)
(* records, numbers them with the FIFO sequencer and drops the            *)
(* connections that hit end of stream; the loop then answers every        *)
(* request with send_response to the ClientId it came in on.              *)
(*                                                                         *)
(* Clients are client-side sockets that connect, write whole request      *)
(* records and close, concurrently with the server.  A request is the     *)
(* record [sock, n]: the n-th request written on socket sock.  On the     *)
(* wire it is RecordSize byte tokens <<request, i>>; decoding RecordSize  *)
(* tokens yields the request they came from, or a garbled record (n = 0)  *)
(* when they do not form one record.  The matching engine is abstracted:  *)
(* the response to a request is the request it answers.                   *)
(***************************************************************************)
EXTENDS Naturals, Sequences, SequencesExt, FiniteSets

CONSTANTS
    Sockets,       \* client-side sockets; each connects at most once
    Declared,      \* Sockets -> the client_id each client puts in its requests
    MaxReqs,       \* requests a socket writes (model bound)
    RecordSize,    \* CLIENT_REQUEST_SIZE (42 bytes), fewer tokens here
    ShortSends     \* may a client's non-blocking send write less than a record?

VARIABLES
    conn,            \* client side of each socket: "idle", "connected", "closed"
    wire,            \* bytes written on the socket and not yet read by the server
    written,         \* requests each socket has written, in order (history)
    backlog,         \* connected sockets the listener has not accepted yet
    clients,         \* OrderServer.clients: ClientId -> [sock, buf]
    next_client_id,  \* OrderServer.next_client_id
    next_seq,        \* FifoSequencer.next_seq
    running,         \* the exchange's running flag
    refused,         \* sockets accepted and then dropped by set_nonblocking failing
    owner,           \* ClientId -> the socket it was given to (history)
    emitted,         \* ClientId -> requests sequenced under it (history)
    delivered        \* socket -> requests whose response was sent on it (history)

vars == <<conn, wire, written, backlog, clients, next_client_id, next_seq, running,
          refused, owner, emitted, delivered>>
clientVars == <<conn, wire, written>>

Ids == 1..Cardinality(Sockets)
Request == [sock : Sockets, n : 0..MaxReqs]
Token == Request \X (1..RecordSize)

\* The bytes of a request record (ClientRequest::as_bytes).
Bytes(r) == [i \in 1..RecordSize |-> <<r, i>>]
StreamOf(rs) == FlattenSeq([k \in 1..Len(rs) |-> Bytes(rs[k])])

\* ClientRequest::from_bytes on a full-size slice: a packed struct has
\* alignment 1, so it never fails; misframed bytes decode as a request
\* nobody wrote.
Decode(b) == IF \A i \in 1..RecordSize : b[i] = <<b[1][1], i>>
             THEN b[1][1] ELSE [sock |-> b[1][1].sock, n |-> 0]

(***************************************************************************)
(* ClientConnection::receive after try_recv: parse the accumulator.        *)
(***************************************************************************)
\* Seeded faults: the loop condition off by one; a drain of one byte.
RECURSIVE ParseLoopStrict(_, _)
ParseLoopStrict(b, out) ==
    IF Len(b) > RecordSize
    THEN ParseLoopStrict(SubSeq(b, RecordSize + 1, Len(b)),
                         Append(out, Decode(SubSeq(b, 1, RecordSize))))
    ELSE [reqs |-> out, buf |-> b]

RECURSIVE ParseLoopDrainOne(_, _)
ParseLoopDrainOne(b, out) ==
    IF Len(b) >= RecordSize
    THEN ParseLoopDrainOne(SubSeq(b, 2, Len(b)), Append(out, Decode(SubSeq(b, 1, RecordSize))))
    ELSE [reqs |-> out, buf |-> b]

\* while recv_buffer.len() >= SIZE { push(from_bytes(..SIZE)); drain(..SIZE) }
RECURSIVE ParseLoop(_, _)
ParseLoop(b, out) ==
    IF Len(b) >= RecordSize
    THEN ParseLoop(SubSeq(b, RecordSize + 1, Len(b)), Append(out, Decode(SubSeq(b, 1, RecordSize))))
    ELSE [reqs |-> out, buf |-> b]

\* The SequencedRequests of one connection's requests: sequencer.next()
\* for each, in the order parsed, the first being next_seq.
Sequenced(next_seq0, id, reqs) ==
    [k \in 1..Len(reqs) |-> [seq |-> next_seq0 + k - 1, client_id |-> id, request |-> reqs[k]]]

\* receive() on the connection of ClientId id, try_recv having returned the
\* first n bytes on the wire (n = 0: WouldBlock).  End of stream, the empty
\* read, is an error: the connection is scheduled for removal.
Receive(acc, id, n) ==
    LET c == acc.clients[id]
        eof == conn[c.sock] = "closed" /\ wire[c.sock] = <<>>
        p == ParseLoop(c.buf \o SubSeq(wire[c.sock], 1, n), <<>>)
        srs == Sequenced(acc.seq, id, p.reqs)
    IN IF eof
       THEN [acc EXCEPT !.disconnected = @ \cup {id}]
       ELSE [acc EXCEPT !.clients[id].buf = p.buf, !.reqs = @ \o srs,
                        !.seq = @ + Len(p.reqs)]

(***************************************************************************)
(* OrderServer::accept_connections: accept until WouldBlock.  Each        *)
(* accepted socket takes next_client_id; a socket whose set_nonblocking   *)
(* fails is dropped with its id burnt.  HashMap::insert replaces an entry *)
(* under the same id.                                                     *)
(***************************************************************************)
\* Seeded fault: the id counter not advanced.
AcceptOneNoAdvance(acc, s) ==
    LET id == acc.next_id
    IN IF s \in acc.fails
       THEN [acc EXCEPT !.refused = @ \cup {s}]
       ELSE [acc EXCEPT !.clients = (id :> [sock |-> s, buf |-> <<>>]) @@ @,
                        !.owner = (id :> s) @@ @]

\* ClientConnection::new: the socket and an empty accumulator.
NewConnection(s) == [sock |-> s, buf |-> <<>>]

AcceptOne(acc, s) ==
    LET id == acc.next_id
    IN IF s \in acc.fails
       THEN [acc EXCEPT !.next_id = @ + 1, !.refused = @ \cup {s}]
       ELSE [acc EXCEPT !.next_id = @ + 1,
                        !.clients = (id :> NewConnection(s)) @@ @,
                        !.owner = (id :> s) @@ @]

\* The ClientId send_response is given for a sequenced request.
\* Seeded fault: the client_id the request declares.
RouteIdDeclared(sr) == Declared[sr.request.sock]

RouteId(sr) == sr.client_id

\* send_response(client_id, response): Err (only logged) when the client is
\* no longer connected.
SendResponse(live, d, sr) ==
    LET id == RouteId(sr)
    IN IF id \in DOMAIN live THEN [d EXCEPT ![live[id].sock] = Append(@, sr.request)] ELSE d

\* The bytes try_recv took from each socket, given the amount per ClientId.
Taken(cs, take, s) ==
    IF \E id \in DOMAIN cs : cs[id].sock = s
    THEN take[CHOOSE id \in DOMAIN cs : cs[id].sock = s] ELSE 0

(***************************************************************************)
(* One iteration of the exchange main loop: order_server.poll(), then for *)
(* each request, in sequence order, process_request and send_response.    *)
(* poll visits the connections in HashMap order (any order), and try_recv *)
(* returns any part of what has arrived.                                  *)
(***************************************************************************)
ServeLoop ==
    /\ running
    /\ \E fails \in SUBSET ToSet(backlog) :
       LET a == FoldLeft(AcceptOne, [clients |-> clients, next_id |-> next_client_id,
                                     fails |-> fails, refused |-> refused, owner |-> owner],
                         backlog)
       IN \E order \in SetToSeqs(DOMAIN a.clients),
             take \in [DOMAIN a.clients -> 0..(RecordSize * MaxReqs)] :
          /\ \A id \in DOMAIN a.clients : take[id] <= Len(wire[a.clients[id].sock])
          /\ LET r == FoldLeft(LAMBDA acc, id : Receive(acc, id, take[id]),
                               [clients |-> a.clients, seq |-> next_seq, reqs |-> <<>>,
                                disconnected |-> {}],
                               order)
                 requests == SortSeq(r.reqs, LAMBDA x, y : x.seq < y.seq)
                 live == [id \in DOMAIN r.clients \ r.disconnected |-> r.clients[id]]
             IN /\ clients' = live
                /\ next_client_id' = a.next_id
                /\ refused' = a.refused
                /\ owner' = a.owner
                /\ next_seq' = r.seq
                /\ wire' = [s \in Sockets |->
                               SubSeq(wire[s], Taken(a.clients, take, s) + 1, Len(wire[s]))]
                /\ backlog' = <<>>
                /\ emitted' = FoldLeft(LAMBDA e, sr : [e EXCEPT ![sr.client_id] = Append(@, sr.request)],
                                       emitted, requests)
                /\ delivered' = FoldLeft(LAMBDA d, sr : SendResponse(live, d, sr), delivered, requests)
    /\ UNCHANGED <<conn, written, running>>

\* Ctrl-C: the loop ends and order_server.disconnect_all() drops every
\* connection.
Shutdown ==
    /\ running
    /\ running' = FALSE
    /\ clients' = <<>>
    /\ UNCHANGED <<clientVars, backlog, next_client_id, next_seq, refused, owner, emitted, delivered>>

(***************************************************************************)
(* Clients (the trading side's OrderGateway).                             *)
(***************************************************************************)
\* TcpSocket::connect; the connection waits in the listen backlog.
Connect(s) ==
    /\ conn[s] = "idle"
    /\ conn' = [conn EXCEPT ![s] = "connected"]
    /\ backlog' = Append(backlog, s)
    /\ UNCHANGED <<wire, written, clients, next_client_id, next_seq, running, refused, owner,
                   emitted, delivered>>

\* TcpSocket::send of a record on the gateway's non-blocking socket: the
\* bytes that reach the stream.  The whole record, or with ShortSends any
\* prefix of it (none: WouldBlock), as the kernel's send buffer allows.
SentBytes(r) ==
    IF ShortSends THEN {SubSeq(Bytes(r), 1, k) : k \in 0..RecordSize} ELSE {Bytes(r)}

\* send_new_order / send_cancel: the request is built and sent, send's
\* result ignored; the gateway counts the request as written either way.
Write(s) ==
    /\ conn[s] = "connected" /\ Len(written[s]) < MaxReqs
    /\ LET r == [sock |-> s, n |-> Len(written[s]) + 1]
       IN /\ written' = [written EXCEPT ![s] = Append(@, r)]
          /\ \E b \in SentBytes(r) : wire' = [wire EXCEPT ![s] = @ \o b]
    /\ UNCHANGED <<conn, backlog, clients, next_client_id, next_seq, running, refused, owner,
                   emitted, delivered>>

\* The client closes its socket; the server reads end of stream after the
\* bytes already sent.
Close(s) ==
    /\ conn[s] = "connected"
    /\ conn' = [conn EXCEPT ![s] = "closed"]
    /\ UNCHANGED <<wire, written, backlog, clients, next_client_id, next_seq, running, refused,
                   owner, emitted, delivered>>

Init ==
    /\ conn = [s \in Sockets |-> "idle"]
    /\ wire = [s \in Sockets |-> <<>>]
    /\ written = [s \in Sockets |-> <<>>]
    /\ backlog = <<>>
    /\ clients = <<>>
    /\ next_client_id = 1
    /\ next_seq = 1
    /\ running = TRUE
    /\ refused = {}
    /\ owner = <<>>
    /\ emitted = [id \in Ids |-> <<>>]
    /\ delivered = [s \in Sockets |-> <<>>]

Next == ServeLoop \/ Shutdown \/ \E s \in Sockets : Connect(s) \/ Write(s) \/ Close(s)

\* A loop iteration changes the state exactly when a connection waits in
\* the backlog, or some connection has bytes in flight or has been closed
\* (the accumulator never holds a whole record between polls, StreamsFramed
\* and TypeOK).  This is ENABLED <<ServeLoop>>_vars, spelt out.
ServeLoopEnabled ==
    /\ running
    /\ \/ backlog # <<>>
       \/ \E id \in DOMAIN clients :
             wire[clients[id].sock] # <<>> \/ conn[clients[id].sock] = "closed"

\* The main loop polls continuously while running (weak fairness of
\* ServeLoop); clients and Ctrl-C are free to act or not.
Spec == Init /\ [][Next]_vars /\ ([]<>~ServeLoopEnabled \/ []<><<ServeLoop>>_vars)

(***************************************************************************)
(* Properties.                                                             *)
(***************************************************************************)
TypeOK ==
    /\ conn \in [Sockets -> {"idle", "connected", "closed"}]
    /\ wire \in [Sockets -> Seq(Token)] /\ written \in [Sockets -> Seq(Request)]
    /\ DOMAIN clients \subseteq 1..(next_client_id - 1)
    /\ \A id \in DOMAIN clients :
          clients[id].sock \in Sockets /\ clients[id].buf \in Seq(Token)
          /\ Len(clients[id].buf) < RecordSize
    /\ next_seq = 1 + Len(FlattenSeq([id \in Ids |-> emitted[id]]))
    /\ running \in BOOLEAN /\ refused \subseteq Sockets

(* The byte stream of every connection is cut at record boundaries: for   *)
(* each connected ClientId, the records sequenced under it, then its      *)
(* accumulator, then the bytes still in flight, are exactly the bytes its *)
(* socket has written.  So every request the server emits is one the      *)
(* client wrote, whole, under the right ClientId and in the order written, *)
(* however try_recv splits the stream across polls and however the polls *)
(* interleave the connections.                                            *)
StreamsFramed ==
    \A id \in DOMAIN clients :
        LET s == clients[id].sock
        IN StreamOf(emitted[id]) \o clients[id].buf \o wire[s] = StreamOf(written[s])

(* Responses go back on the connection the request arrived on: the        *)
(* responses sent on each socket answer exactly the requests sequenced    *)
(* under its ClientId, in order, whatever client_id the requests declare  *)
(* and whoever else has connected or left meanwhile.                      *)
ResponsesReachSender ==
    \A id \in DOMAIN owner : delivered[owner[id]] = emitted[id]

\* The requests sequenced for socket s so far.
Served(s) ==
    IF \E id \in DOMAIN owner : owner[id] = s
    THEN Len(emitted[CHOOSE id \in DOMAIN owner : owner[id] = s]) ELSE 0

(* Every request a client writes is eventually sequenced, also when the   *)
(* client closes right after writing it (the bytes are read before end of *)
(* stream), unless the server dropped the connection on accept or shut    *)
(* down.                                                                  *)
AllRequestsSequenced ==
    \A s \in Sockets, k \in 1..MaxReqs :
        Len(written[s]) >= k ~> (Served(s) >= k \/ s \in refused \/ ~running)

(* Spec 4.6: the gateway writes each request, and the order server decodes *)
(* the accumulator record by record, discarding a byte to resync on a     *)
(* decode failure.  So the matching engine is only handed requests some   *)
(* client wrote: every request sequenced under a ClientId is one its      *)
(* socket's gateway sent, never a record cut from the bytes of two.      *)
RequestsWereWritten ==
    \A id \in DOMAIN owner : \A k \in 1..Len(emitted[id]) :
        emitted[id][k] \in ToSet(written[owner[id]])

=============================================================================
