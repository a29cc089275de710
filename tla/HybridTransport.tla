-------------------------- MODULE HybridTransport --------------------------
(***************************************************************************)
(* The reliable datagram protocol of hybrid_transport.c between two ends   *)
(* that both run it: numbered packets over UDP, which may lose, repeat and *)
(* reorder them, and over one TCP connection, which does not, but whose    *)
(* reader does not look for the boundary between two packets.              *)
(*                                                                         *)
(* One action per call of the interface.  ht_process_events() is one       *)
(* action per packet it takes and ht_send_data() one per packet it makes:  *)
(* the packets such a call did not see are as if they came later.          *)
(*                                                                         *)
(* A time stamp is its age in ticks, saturated past the largest limit.     *)
(* Both ends start connected: ht_create_connection() and ht_connect() run  *)
(* back to back (their failures are in Forwarder!HtSockets).               *)
(***************************************************************************)
EXTENDS Integers, Sequences

CONSTANTS
  Mode,               \* conn->mode: "udp", "tcp" or "hybrid" (also "auto")
  TcpOpens,           \* may the TCP connection be established, or not be
  FirstSequences,     \* what rand() may give for the first sequence number
  SequenceModulus,    \* 2^32
  TimeModulus,        \* 2^32, of a difference of two times
  MaxPayload,         \* HT_MAX_PAYLOAD_SIZE, in bytes
  ReadSize,           \* buffer_size of ht_recv_data(), in bytes
  RetransmitTimeout,  \* conn->retransmit_timeout, in ticks
  MaxRetransmit,      \* conn->max_retransmit
  HeartbeatInterval,  \* HT_HEARTBEAT_INTERVAL, in ticks
  IdleLimit,          \* the literal 30000 of ht_handle_timeout(), in ticks
  Limit,              \* per end, the bytes to send: bounds the model
  MaxPackets,         \* per end, the sequence numbers it may use: bounds the model
  MaxStored,          \* entries of a receive buffer: bounds the model
  TcpRoom,            \* packets the TCP connection holds each way
  Merging             \* whether one recv() may take several packets off TCP

Nodes   == {1, 2}
Peer(n) == 3 - n

ASSUME HybridAssumption ==
  /\ Mode \in {"udp", "tcp", "hybrid"}
  /\ TcpOpens \in (SUBSET BOOLEAN) \ {{}}
  /\ SequenceModulus \in Nat \ {0}
  /\ FirstSequences \subseteq 0 .. SequenceModulus - 1
  /\ MaxPayload \in Nat \ {0} /\ ReadSize \in Nat \ {0}
  /\ RetransmitTimeout \in Nat /\ HeartbeatInterval \in Nat /\ IdleLimit \in Nat
  /\ TimeModulus \in Nat /\ TimeModulus > IdleLimit + 1
  /\ MaxRetransmit \in Nat
  /\ Limit \in [Nodes -> Nat]
  /\ MaxPackets \in [Nodes -> 0 .. SequenceModulus]
  /\ MaxStored \in Nat /\ TcpRoom \in Nat /\ Merging \in BOOLEAN

VARIABLES
  phase,           \* "connected"; "draining": closed by the peer within a call
                   \* of ht_process_events; "down"; "destroyed"
  first_sequence,  \* history: the first number an end gave
  send_sequence,
  recv_sequence,
  send_buffer,     \* per end, unacknowledged packets, newest first
  recv_buffer,     \* per end, packets kept for ht_recv_data(), newest first
  last_activity,
  last_heartbeat,
  accepted,        \* history: bytes ht_send_data() reported as sent
  unpacked,        \* history: bytes of the packets ht_recv_data() took, cut ones whole
  delivered,       \* history: bytes ht_recv_data() returned
  udp,             \* per end, the datagrams that may still arrive at it
  tcp,             \* per end, the packets on their way to it over TCP
  tcp_open         \* whether the TCP connection was established

clocks  == <<last_activity, last_heartbeat>>
history == <<first_sequence, accepted, unpacked, delivered>>
net     == <<udp, tcp>>
vars == <<phase, first_sequence, send_sequence, recv_sequence, send_buffer,
          recv_buffer, last_activity, last_heartbeat, accepted, unpacked,
          delivered, udp, tcp, tcp_open>>

-----------------------------------------------------------------------------
Smaller(m, n) == IF m <= n THEN m ELSE n
Positions(s)  == 1 .. Len(s)

\* The entries of list s at the positions in P, in their order.
Pick(s, P) ==
  LET picked[i \in 0 .. Len(s)] ==
        IF i = 0 THEN <<>>
        ELSE IF i \in P THEN Append(picked[i - 1], s[i]) ELSE picked[i - 1]
  IN picked[Len(s)]

Packet(type, sequence, ack, payload) ==
  [type |-> type, sequence |-> sequence, ack |-> ack, payload |-> payload]

\* An entry's bookkeeping apart, what is sent again is the packet itself.
DataPacket(entry) == Packet("DATA", entry.sequence, 0, entry.payload)

Init ==
  /\ phase = [n \in Nodes |-> "connected"]
  /\ first_sequence \in [Nodes -> FirstSequences]
  /\ send_sequence = first_sequence
  /\ recv_sequence = [n \in Nodes |-> 0]
  /\ send_buffer = [n \in Nodes |-> <<>>]
  /\ recv_buffer = [n \in Nodes |-> <<>>]
  /\ last_activity = [n \in Nodes |-> 0]
  /\ last_heartbeat = [n \in Nodes |-> 0]
  /\ accepted = [n \in Nodes |-> 0]
  /\ unpacked = [n \in Nodes |-> <<>>]
  /\ delivered = [n \in Nodes |-> <<>>]
  /\ udp = [n \in Nodes |-> {}]
  /\ tcp = [n \in Nodes |-> <<>>]
  /\ tcp_open \in IF Mode = "udp" THEN {FALSE} ELSE TcpOpens

Used(n)      == (send_sequence[n] - first_sequence[n]) % SequenceModulus
CanNumber(n) == Used(n) < MaxPackets[n]
TakeNumber(n) ==
  /\ CanNumber(n)
  /\ send_sequence' = [send_sequence EXCEPT ![n] = (@ + 1) % SequenceModulus]

-----------------------------------------------------------------------------
(* ht_send_packet() *)

CanUdp == Mode # "tcp"
TcpSpace(n) == IF tcp_open /\ phase[Peer(n)] # "destroyed"
               THEN TcpRoom - Len(tcp[Peer(n)]) ELSE 0
CanTcp(n) == TcpSpace(n) > 0

\* Through the preferred channel, through the other one if that fails.
Route(n, use_tcp) ==
  LET fallback == IF use_tcp THEN CanUdp ELSE CanTcp(n)
  IN IF use_tcp /\ CanTcp(n) THEN "tcp"
     ELSE IF ~use_tcp /\ CanUdp THEN "udp"
     ELSE IF ~fallback THEN "none"
     ELSE IF use_tcp THEN "udp" ELSE "tcp"

ShouldUseTcp == CASE Mode = "tcp" -> {TRUE}
                  [] Mode = "udp" -> {FALSE}
                  [] OTHER        -> BOOLEAN   \* a random decision

Transmit(n, route, packet) ==
  /\ tcp' = IF route = "tcp" THEN [tcp EXCEPT ![Peer(n)] = Append(@, packet)] ELSE tcp
  /\ udp' = IF route = "udp" THEN [udp EXCEPT ![Peer(n)] = @ \cup {packet}] ELSE udp

-----------------------------------------------------------------------------
(* ht_send_data() *)

Entry(n, payload) == [sequence |-> send_sequence[n], payload |-> payload,
                      age |-> 0, retransmit_count |-> 0]
BufferedLast(list, entry) == Append(list, entry)   \* fault: at the wrong end
Buffered(list, entry)     == <<entry>> \o list

\* The next `size` bytes go out as one packet, kept until acknowledged.  When
\* neither channel takes it the call ends, its sequence number spent.
SendData(n, size) ==
  /\ phase[n] = "connected"
  /\ accepted[n] + size <= Limit[n]
  /\ TakeNumber(n)
  /\ \E use_tcp \in ShouldUseTcp :
       LET payload == [i \in 1 .. size |-> accepted[n] + i]
           packet  == Packet("DATA", send_sequence[n], 0, payload)
           route   == Route(n, use_tcp)
       IN /\ Transmit(n, route, packet)
          /\ IF route = "none"
             THEN UNCHANGED <<send_buffer, accepted, last_activity>>
             ELSE /\ send_buffer' = [send_buffer EXCEPT ![n] =
                                      Buffered(@, Entry(n, payload))]
                  /\ accepted' = [accepted EXCEPT ![n] = @ + size]
                  /\ last_activity' = [last_activity EXCEPT ![n] = 0]
  /\ UNCHANGED <<phase, first_sequence, recv_sequence, recv_buffer,
                 last_heartbeat, unpacked, delivered, tcp_open>>

-----------------------------------------------------------------------------
(* ht_recv_data() *)

\* The scan goes through the list once, from the newest entry, and takes the
\* next expected packet wherever it meets it: Taken[k] is the position of the
\* k-th packet taken, past the end when there is none.
TakenBy(matches(_, _), n) ==
  LET list == recv_buffer[n]
      none == Len(list) + 1
      expected(k) == (recv_sequence[n] + k - 1) % SequenceModulus
      taken[k \in 0 .. none] ==
        IF k = 0 THEN 0
        ELSE LET later == {i \in Positions(list) :
                             i > taken[k - 1] /\ matches(list[i].sequence, expected(k))}
             IN IF later = {} THEN none
                ELSE CHOOSE i \in later : \A j \in later : i <= j
  IN taken

RecvDataBy(matches(_, _), n) ==
  LET list  == recv_buffer[n]
      taken == TakenBy(matches, n)
      bytes[k \in 0 .. Len(list)] ==
        IF k = 0 THEN <<>>
        ELSE IF taken[k] \in Positions(list)
             THEN bytes[k - 1] \o list[taken[k]].payload ELSE bytes[k - 1]
      \* the loop runs while the buffer is not full
      calls == {k \in Positions(list) :
                  taken[k] \in Positions(list) /\ Len(bytes[k - 1]) < ReadSize}
      gone  == {taken[k] : k \in calls}
      count == IF calls = {} THEN 0 ELSE CHOOSE k \in calls : \A j \in calls : j <= k
  IN /\ phase[n] = "connected"
     /\ calls # {}
     /\ unpacked' = [unpacked EXCEPT ![n] = @ \o bytes[count]]
     /\ delivered' = [delivered EXCEPT ![n] =
          @ \o SubSeq(bytes[count], 1, Smaller(ReadSize, Len(bytes[count])))]
     /\ recv_sequence' = [recv_sequence EXCEPT ![n] = (@ + count) % SequenceModulus]
     /\ recv_buffer' = [recv_buffer EXCEPT ![n] = Pick(list, Positions(list) \ gone)]
     /\ UNCHANGED <<phase, first_sequence, send_sequence, send_buffer, clocks,
                    accepted, net, tcp_open>>

Exactly(sequence, expected) == sequence = expected
AtLeast(sequence, expected) == sequence >= expected

RecvDataUnordered(n) == RecvDataBy(AtLeast, n)   \* fault: any later packet will do
RecvData(n)          == RecvDataBy(Exactly, n)

-----------------------------------------------------------------------------
(* ht_process_events() *)

\* A data packet is acknowledged on the channel it came by, whether or not the
\* acknowledgement gets through, and kept whether or not it is a repetition.
TakeData(n, packet) ==
  /\ Len(recv_buffer[n]) < MaxStored
  /\ TakeNumber(n)
  /\ recv_buffer' = [recv_buffer EXCEPT ![n] =
       <<[sequence |-> packet.sequence, payload |-> packet.payload]>> \o @]
  /\ UNCHANGED <<phase, send_buffer>>

RemoveFirst(list, sequence) ==
  LET at == {i \in Positions(list) : list[i].sequence = sequence}
  IN Pick(list, {i \in Positions(list) : i \notin at \/ \E j \in at : j < i})

TakeAck(n, packet) ==
  /\ send_buffer' = [send_buffer EXCEPT ![n] = RemoveFirst(@, packet.ack)]
  /\ UNCHANGED <<phase, recv_buffer, send_sequence>>

TakeHeartbeat == UNCHANGED <<phase, recv_buffer, send_buffer, send_sequence>>

TakeClose(n) ==
  /\ phase' = [phase EXCEPT ![n] = "draining"]
  /\ UNCHANGED <<recv_buffer, send_buffer, send_sequence>>

AckOfNext(n, packet) ==   \* fault: acknowledges the packet after
  Packet("ACK", send_sequence[n], (packet.sequence + 1) % SequenceModulus, <<>>)
AckOf(n, packet) == Packet("ACK", send_sequence[n], packet.sequence, <<>>)

TakePacket(n, packet) ==
  /\ phase[n] \in {"connected", "draining"}
  /\ \/ packet.type = "DATA"      /\ TakeData(n, packet)
     \/ packet.type = "ACK"       /\ TakeAck(n, packet)
     \/ packet.type = "HEARTBEAT" /\ TakeHeartbeat
     \/ packet.type = "CONTROL"   /\ TakeClose(n)
  /\ last_activity' = [last_activity EXCEPT ![n] = 0]
  /\ UNCHANGED <<history, recv_sequence, last_heartbeat, tcp_open>>

\* A datagram that stays may arrive again; one never taken was lost.
ProcessUdp(n) ==
  \E packet \in udp[n], stays \in BOOLEAN :
    /\ TakePacket(n, packet)
    /\ udp' = [m \in Nodes |->
                 IF m = n THEN IF stays THEN udp[m] ELSE udp[m] \ {packet}
                 ELSE IF packet.type = "DATA" THEN udp[m] \cup {AckOf(n, packet)}
                 ELSE udp[m]]
    /\ UNCHANGED tcp

\* One recv() takes all that is queued, up to the size of one packet; what
\* came along behind the first packet is not looked at again.
ProcessTcp(n) ==
  /\ tcp[n] # <<>>
  /\ \E count \in 1 .. (IF Merging THEN Len(tcp[n]) ELSE 1) :
       LET packet == Head(tcp[n])
       IN /\ TakePacket(n, packet)
          /\ tcp' = [m \in Nodes |->
                       IF m = n THEN SubSeq(tcp[m], count + 1, Len(tcp[m]))
                       ELSE IF packet.type = "DATA" /\ CanTcp(n)
                            THEN Append(tcp[m], AckOf(n, packet))
                       ELSE tcp[m]]
  /\ UNCHANGED udp

\* ht_process_events() returns after the peer's close; later calls do nothing.
StopDraining(n) ==
  /\ phase[n] = "draining"
  /\ phase' = [phase EXCEPT ![n] = "down"]
  /\ UNCHANGED <<history, send_sequence, recv_sequence, send_buffer, recv_buffer,
                 clocks, net, tcp_open>>

-----------------------------------------------------------------------------
(* ht_handle_timeout() *)

Due(entry)       == entry.age > RetransmitTimeout
ExhaustedLate(entry) == entry.retransmit_count > MaxRetransmit   \* fault
Exhausted(entry) == entry.retransmit_count >= MaxRetransmit
Resends(list)    == {i \in Positions(list) : Due(list[i]) /\ ~Exhausted(list[i])}
Drops(list)      == {i \in Positions(list) : Due(list[i]) /\ Exhausted(list[i])}

\* The loop moves prev only past entries that are not due, so that dropping an
\* entry also unlinks the entries sent again between prev and it.
Unlinked(list) ==
  Drops(list) \cup
  {i \in Resends(list) : \E d \in Drops(list) :
     i < d /\ \A j \in i .. d : Due(list[j])}

ResentUncounted(entry) == [entry EXCEPT !.age = 0]   \* fault: no limit
Resent(entry) == [entry EXCEPT !.age = 0, !.retransmit_count = @ + 1]

AfterResend(list) ==
  Pick([i \in Positions(list) |->
          IF i \in Resends(list) THEN Resent(list[i]) ELSE list[i]],
       Positions(list) \ Unlinked(list))

\* What the loop sends again, over TCP while that takes it, then over UDP.
ResentPackets(n) ==
  LET again == Pick(send_buffer[n], Resends(send_buffer[n]))
  IN [i \in Positions(again) |-> DataPacket(again[i])]

\* uint32_t time_diff_ms() of a time stamp `age` ticks ago.
TimeDiff(age) == age % TimeModulus

StampedAlways(n, sends) == 0   \* fault: a send that failed counts as activity
Stamped(n, sends)       == IF sends THEN 0 ELSE last_activity[n]

HandleTimeout(n) ==
  LET again == ResentPackets(n)
      byTcp == Smaller(Len(again), TcpSpace(n))
      tcp1  == tcp[Peer(n)] \o SubSeq(again, 1, byTcp)
      udp1  == udp[Peer(n)] \cup
               IF CanUdp THEN {again[i] : i \in (byTcp + 1) .. Len(again)} ELSE {}
      beat  == Packet("HEARTBEAT", send_sequence[n], 0, <<>>)
      due   == TimeDiff(last_heartbeat[n]) > HeartbeatInterval
      room  == TcpSpace(n) > byTcp
      beats == due /\ (CanUdp \/ room)
      sends == beats \/ byTcp > 0 \/ (CanUdp /\ again # <<>>)
  IN /\ phase[n] = "connected"
     /\ send_buffer' = [send_buffer EXCEPT ![n] = AfterResend(@)]
     /\ IF due THEN TakeNumber(n) ELSE UNCHANGED send_sequence
     /\ udp' = [udp EXCEPT ![Peer(n)] =
                  IF due /\ CanUdp THEN udp1 \cup {beat} ELSE udp1]
     /\ tcp' = [tcp EXCEPT ![Peer(n)] =
                  IF beats /\ ~CanUdp THEN Append(tcp1, beat) ELSE tcp1]
     /\ last_heartbeat' = IF beats THEN [last_heartbeat EXCEPT ![n] = 0]
                                   ELSE last_heartbeat
     /\ last_activity' = [last_activity EXCEPT ![n] = Stamped(n, sends)]
     \* `now` was read on entry: a packet sent since may bear a later time
     /\ \E activity \in {last_activity'[n]} \cup (IF sends THEN {-1} ELSE {}) :
          phase' = IF TimeDiff(activity) > IdleLimit
                   THEN [phase EXCEPT ![n] = "down"] ELSE phase
  /\ UNCHANGED <<history, recv_sequence, recv_buffer, tcp_open>>

-----------------------------------------------------------------------------
(* ht_disconnect() followed by ht_destroy_connection() *)

\* The close notice goes through both channels under one number.
Disconnect(n) ==
  /\ phase[n] = "connected"
  /\ TakeNumber(n)
  /\ LET notice == Packet("CONTROL", send_sequence[n], 0, <<>>)
     IN /\ udp' = IF CanUdp THEN [udp EXCEPT ![Peer(n)] = @ \cup {notice}] ELSE udp
        /\ tcp' = IF CanTcp(n) THEN [tcp EXCEPT ![Peer(n)] = Append(@, notice)] ELSE tcp
  /\ phase' = [phase EXCEPT ![n] = "destroyed"]
  /\ send_buffer' = [send_buffer EXCEPT ![n] = <<>>]
  /\ recv_buffer' = [recv_buffer EXCEPT ![n] = <<>>]
  /\ UNCHANGED <<history, recv_sequence, clocks, tcp_open>>

\* A connection that is down is destroyed without a word.
Destroy(n) ==
  /\ phase[n] = "down"
  /\ phase' = [phase EXCEPT ![n] = "destroyed"]
  /\ send_buffer' = [send_buffer EXCEPT ![n] = <<>>]
  /\ recv_buffer' = [recv_buffer EXCEPT ![n] = <<>>]
  /\ UNCHANGED <<history, send_sequence, recv_sequence, clocks, net, tcp_open>>

-----------------------------------------------------------------------------
Older(age, cap) == Smaller(age + 1, cap)

Tick ==
  /\ last_activity' = [n \in Nodes |-> Older(last_activity[n], IdleLimit + 1)]
  /\ last_heartbeat' = [n \in Nodes |-> Older(last_heartbeat[n], HeartbeatInterval + 1)]
  /\ send_buffer' = [n \in Nodes |->
       [i \in Positions(send_buffer[n]) |->
          [send_buffer[n][i] EXCEPT !.age = Older(@, RetransmitTimeout + 1)]]]
  /\ UNCHANGED <<phase, history, send_sequence, recv_sequence, recv_buffer, net,
                 tcp_open>>

Next ==
  \/ \E n \in Nodes :
       \/ \E size \in 1 .. MaxPayload : SendData(n, size)
       \/ RecvData(n) \/ ProcessUdp(n) \/ ProcessTcp(n) \/ StopDraining(n)
       \/ HandleTimeout(n) \/ Disconnect(n) \/ Destroy(n)
  \/ Tick

Spec == Init /\ [][Next]_vars
\* While select() keeps returning, every pass of the forwarder makes the calls.
TrafficSpec == Spec /\ WF_vars(Tick) /\ \A n \in Nodes : WF_vars(HandleTimeout(n))

-----------------------------------------------------------------------------
(* Properties *)

Stream(k) == [i \in 1 .. k |-> i]
Numbers   == 0 .. SequenceModulus - 1
Listed(list, sequence) == \E i \in Positions(list) : list[i].sequence = sequence
InFlightTo(n) == udp[n] \cup {tcp[n][i] : i \in Positions(tcp[n])}
Open(n) == phase[n] \in {"connected", "draining"}

TypeOK ==
  /\ phase \in [Nodes -> {"connected", "draining", "down", "destroyed"}]
  /\ first_sequence \in [Nodes -> Numbers]
  /\ send_sequence \in [Nodes -> Numbers]
  /\ recv_sequence \in [Nodes -> Numbers]
  /\ \A n \in Nodes :
       /\ \A i \in Positions(send_buffer[n]) :
            /\ send_buffer[n][i].sequence \in Numbers
            /\ Len(send_buffer[n][i].payload) \in 1 .. MaxPayload
            /\ send_buffer[n][i].age \in 0 .. RetransmitTimeout + 1
            /\ send_buffer[n][i].retransmit_count \in 0 .. MaxRetransmit
       /\ Len(recv_buffer[n]) <= MaxStored
       /\ Len(tcp[n]) <= TcpRoom
       /\ accepted[n] \in 0 .. Limit[n]
  /\ last_activity \in [Nodes -> 0 .. IdleLimit + 1]
  /\ last_heartbeat \in [Nodes -> 0 .. HeartbeatInterval + 1]
  /\ tcp_open \in BOOLEAN

\* The packets ht_recv_data() has taken hold what the peer handed to
\* ht_send_data(), from its start, in order, without a hole or a repetition,
\* whatever the network did to the packets and whichever channel a repetition
\* came by.  (Of a packet that a short read cuts the rest is not returned, and
\* lost: ImplementsStream says what the caller sees then.)
DeliveredInOrder == \A n \in Nodes : unpacked[n] = Stream(Len(unpacked[n]))

\* An acknowledgement on its way to n is of a packet its peer holds or has
\* delivered, so that the copy n drops on it is not the last one.
AckMeansStored ==
  \A n \in Nodes : \A packet \in InFlightTo(n) :
    (packet.type = "ACK" /\ Open(Peer(n))) =>
       \/ packet.ack < recv_sequence[Peer(n)]
       \/ Listed(recv_buffer[Peer(n)], packet.ack)

\* An older unacknowledged packet was sent again at least as often as a newer
\* one, and waits at least as long when as often: the list gives up from its
\* far end, whatever the order of calls, ticks and acknowledgements.
OlderFirst ==
  \A n \in Nodes : \A i, j \in Positions(send_buffer[n]) : i < j =>
    LET newer == send_buffer[n][i]
        older == send_buffer[n][j]
    IN \/ older.retransmit_count > newer.retransmit_count
       \/ /\ older.retransmit_count = newer.retransmit_count
          /\ older.age >= newer.age

\* While calls keep coming, no packet waits for ever to be acknowledged: it is
\* acknowledged, given up, or the connection ends.
NoneWaitsForever ==
  \A n \in Nodes : \A s \in Numbers :
    Listed(send_buffer[n], s) ~> (~Listed(send_buffer[n], s) \/ phase[n] # "connected")

\* The connection of an end whose peer is gone comes down in the end.
PeerLossNoticed ==
  \A n \in Nodes : (phase[Peer(n)] = "destroyed") ~> (phase[n] # "connected")

-----------------------------------------------------------------------------
(* What the transport implements *)

Transport == INSTANCE HtStream WITH
  Ends     <- Nodes,
  Other    <- Peer,
  MaxChunk <- MaxPayload,
  up       <- {n \in Nodes : phase[n] = "connected"}

\* The program above the transport sees two ends that accept bytes and give
\* them up in order, at most once, and neither after the end went down: loss,
\* repetition, reordering, two channels and retransmission do not show, other
\* than by bytes that never come.
ImplementsStream == Transport!Spec
=============================================================================
