------------------------- MODULE Rfc5780Transports -------------------------
(***************************************************************************)
(* run_rfc5780_test (src/tests/rfc5780_test.cpp): the machine of Rfc5780   *)
(* over the session that --transport selects.  Over UDP it is Rfc5780 as   *)
(* it stands.  Over TCP or TLS a TcpSession (src/utils/stun_utils.cpp)     *)
(* opens a connection of its own for every request and closes it when the  *)
(* answer is there; at the other end is a thread per connection,           *)
(* handle_stream_client (src_ser/main.cpp).  A stream loses and reorders   *)
(* nothing, but a read may return any part of what has been sent.          *)
(*                                                                         *)
(* contacts, network and sends are of no use to a stream and keep their    *)
(* initial values.  The NAT remembers a mapping for a while after its      *)
(* connection has ended.                                                   *)
(***************************************************************************)
EXTENDS Rfc5780

CONSTANTS
  Units,       \* the length of a message, as reads can tell its parts apart
  NoConnection

ASSUME UnitsAssumption == Units \in Nat \ {0}

VARIABLES
  transport,   \* udp or stream; never changes
  stuck,       \* the TcpSession's local_bind_ names a port
  connection,  \* the request's own, or NoConnection: the endpoint the NAT has
               \* given it (outside), the node that accepted it (rx), and how
               \* much of the request is on its way (up) and in the thread's
               \* tcp_buffer, of the answer on its way (down) and in buffer
  broken       \* an exception has ended the test

streamVars == <<transport, stuck, connection, broken>>
allVars == <<vars, streamVars>>

\* Any one port stands for all that a datagram session may keep.
UdpPort == CHOOSE p \in LocalPorts : TRUE

\* Filtering is for datagrams only, and a socket that is connected knows its
\* address.
TestInit ==
  /\ Init
  /\ \/ transport = "udp" /\ stuck = FALSE /\ port = UdpPort
     \/ /\ transport = "stream" /\ stuck \in BOOLEAN
        /\ scope \in {"BindingOnly", "Mapping"} /\ bind = "address"
  /\ connection = NoConnection /\ broken = FALSE

Datagrams == transport = "udp" /\ UNCHANGED streamVars

-----------------------------------------------------------------------------
(* TcpSession::request. *)

Requesting == /\ transport = "stream" /\ ~ broken
              /\ request # NoRequest /\ connection = NoConnection

\* Bind to local_bind_ or to any port, connect, send.
Open ==
  /\ Requesting
  /\ \E p \in IF stuck THEN {port} ELSE LocalPorts,
        rx \in ReceivingNodes(deployment, request.to) :
       /\ port' = p
       /\ connection' = [outside |-> External(behavior, p, request.to), rx |-> rx,
                         up |-> Units, tcpBuffer |-> 0, down |-> 0, buffer |-> 0]
  /\ UNCHANGED <<rigidVars, contacts, network, tid, request, sends, fsmVars, transport, broken>>

\* Faulty variant, for mutation: every connection binds to what --local said.
ConnectUnbound == Open /\ UNCHANGED stuck

\* The port is noted for the requests to come.
Connect == Open /\ stuck' = TRUE

\* connect_with_timeout, the handshake or the sending throws: unlike a datagram
\* that is not answered, this is no result.
BreakOff ==
  /\ Requesting
  /\ ~ timely
  /\ broken' = TRUE
  /\ UNCHANGED <<vars, transport, stuck, connection>>

\* What the answer says, and whom the connection was made to.
Answer == [remote |-> request.to,
           mapped |-> MappedAddress(deployment, connection.outside),
           other  |-> OtherAddress(deployment, connection.rx)]

\* The connection is closed before got_response is called.
Closed == /\ connection' = NoConnection
          /\ UNCHANGED <<rigidVars, contacts, network, port, transport, stuck, broken>>

\* Faulty variant, for mutation: a part of the answer ends the request.
ClientReadsOnce ==
  /\ connection # NoConnection
  /\ \E n \in 1..connection.down :
       GotResponse(IF n = Units THEN Answer ELSE NoResponse) /\ Closed

\* recv into the buffer; a message that parse_message finds incomplete is waited
\* for further.
ClientReads ==
  /\ connection # NoConnection
  /\ \E n \in 1..connection.down :
       IF connection.buffer + n = Units
       THEN GotResponse(Answer) /\ Closed
       ELSE /\ connection' = [connection EXCEPT !.down = @ - n, !.buffer = @ + n]
            /\ UNCHANGED <<vars, transport, stuck, broken>>

\* Nothing to read within the timeout, which starts again with every read, or
\* the end of the stream.
NoAnswer ==
  /\ connection # NoConnection
  /\ ~ timely
  /\ GotResponse(NoResponse)
  /\ Closed

-----------------------------------------------------------------------------
(* handle_stream_client. *)

\* recv appends to tcp_buffer; a Binding request is answered once it is there,
\* on its own connection, and taken out.
ServerReads ==
  /\ connection # NoConnection
  /\ \E n \in 1..connection.up :
       connection' =
         IF connection.tcpBuffer + n = Units
         THEN [connection EXCEPT !.up = 0, !.tcpBuffer = 0, !.down = Units]
         ELSE [connection EXCEPT !.up = @ - n, !.tcpBuffer = @ + n]
  /\ UNCHANGED <<vars, transport, stuck, broken>>

-----------------------------------------------------------------------------

StreamOver == /\ transport = "stream"
              /\ broken \/ phase = "Done"
              /\ UNCHANGED allVars

TestNext == \/ Next /\ Datagrams
            \/ Connect \/ BreakOff \/ ClientReads \/ NoAnswer \/ ServerReads
            \/ StreamOver

\* The session keeps running.  Over UDP it sends, and its deadline passes whatever
\* the network does; over a stream the attempt to connect and the wait for the
\* next bytes end.
TestSpec ==
  /\ TestInit /\ [][TestNext]_allVars
  /\ WF_allVars(Send /\ UNCHANGED fsmVars /\ Datagrams)
  /\ WF_allVars(Unanswered /\ Datagrams)
  /\ WF_allVars(Connect \/ BreakOff)
  /\ WF_allVars(NoAnswer)

\* Every test ends, with a result or with an exception, whatever the network and
\* the server do.  (Where `timely` holds the deadline itself waits for the
\* network, of which nothing is assumed.)
Terminates == timely \/ <>(broken \/ phase = "Done")

(* Why the verdicts are sound: the inductive invariant. *)

Connection == [outside : ClientEp, rx : Node, up : Nat, tcpBuffer : Nat,
               down : Nat, buffer : Nat]

\* Every connection of a test comes from the inside port that the verdicts so
\* far speak of, and carries what the NAT and the accepting node make of it.
StreamInv ==
  /\ transport \in {"udp", "stream"}
  /\ transport = "udp" => connection = NoConnection
  /\ transport = "stream" =>
       /\ network = {}
       /\ phase \notin {"FilteringTest2", "FilteringTest3"}
       /\ scope \in {"BindingOnly", "Mapping"}
       /\ phase # "BindingTest" \/ connection # NoConnection => stuck
  /\ connection # NoConnection =>
       /\ connection \in Connection
       /\ request # NoRequest
       /\ connection.outside = External(behavior, port, request.to)
       /\ connection.rx \in ReceivingNodes(deployment, request.to)

TestInv == IInv /\ TimelyInv /\ StreamInv /\ (transport = "udp" => AnswerComes)
=============================================================================
