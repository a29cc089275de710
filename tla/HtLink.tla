------------------------------- MODULE HtLink -------------------------------
(***************************************************************************)
(* The sockets below hybrid_transport.c: the checksum, and                 *)
(* ht_recv_packet() as ht_process_events() repeats it, with what errno     *)
(* still holds when a call returns 0, which does not set it.               *)
(*                                                                         *)
(* A packet is the bytes its checksum is taken of; the field that says how *)
(* many they are is intact, and a wrong magic number is a damaged byte.    *)
(* The network damages one byte of a packet at most.                       *)
(***************************************************************************)
EXTENDS Integers, Sequences

CONSTANTS
  Byte,        \* the values of a byte: 0 .. 255
  PacketSize,  \* bytes of a packet
  Modulus,     \* of the checksum: 2^32
  QueueRoom    \* packets a socket holds: bounds the model

ASSUME LinkAssumption ==
  /\ {PacketSize, Modulus, QueueRoom} \subseteq Nat
  /\ Modulus > 0 /\ Modulus % 2 = 0
  /\ Byte \subseteq 0 .. Modulus - 1

VARIABLES
  at,         \* "outside" of ht_recv_packet(), at its "udp" or its "tcp" part, "verify"
  errno,      \* "again" or "other"
  in_hand,    \* the packet received and not yet verified
  from_tcp,
  accepted,   \* history: the last packet that was found sound
  udp_queue, tcp_queue,
  tcp_end     \* "no", "eof" or "reset"

netVars  == <<udp_queue, tcp_queue, tcp_end>>
linkVars == <<at, errno, in_hand, from_tcp, accepted, netVars>>

ShiftLeft(c)  == (2 * c) % Modulus   \* fault: the highest bit falls out
RotateLeft(c) == ((2 * c) % Modulus) + ((2 * c) \div Modulus)

ht_calculate_checksum(bytes) ==
  LET sum[i \in 0 .. Len(bytes)] ==
        IF i = 0 THEN 0 ELSE RotateLeft((sum[i - 1] + bytes[i]) % Modulus)
  IN sum[Len(bytes)]

Packets == [1 .. PacketSize -> Byte]
NoPacket == [bytes |-> <<>>, checksum |-> 0, original |-> <<>>]
Empty    == [NoPacket EXCEPT !.checksum = 1]   \* a datagram without a byte
Failure  == [NoPacket EXCEPT !.checksum = 2]   \* an error that recvfrom() reports once

\* `original` is what was sent, for the properties to compare.
Sent(bytes) == [bytes |-> bytes, checksum |-> ht_calculate_checksum(bytes),
                original |-> bytes]

LinkInit ==
  /\ at = "outside"
  /\ errno = "other"
  /\ in_hand = NoPacket /\ from_tcp = FALSE
  /\ accepted = NoPacket
  /\ udp_queue = <<>> /\ tcp_queue = <<>> /\ tcp_end = "no"

-----------------------------------------------------------------------------
(* ht_recv_packet() *)

Receive ==
  /\ at = "outside"
  /\ at' = "udp" /\ from_tcp' = FALSE
  /\ UNCHANGED <<errno, in_hand, accepted, netVars>>

UdpEmptyEnds ==   \* fault: EAGAIN is an error like the others
  /\ at = "udp" /\ udp_queue = <<>>
  /\ errno' = "again"
  /\ at' = "outside"
  /\ UNCHANGED <<in_hand, from_tcp, accepted, netVars>>

UdpEmpty ==
  /\ at = "udp" /\ udp_queue = <<>>
  /\ errno' = "again"
  /\ at' = "tcp"
  /\ UNCHANGED <<in_hand, from_tcp, accepted, netVars>>

\* An empty datagram: whether TCP is looked at depends on an errno of before.
UdpZero ==
  /\ at = "udp" /\ udp_queue # <<>> /\ Head(udp_queue) = Empty
  /\ udp_queue' = Tail(udp_queue)
  /\ at' = IF errno = "again" THEN "tcp" ELSE "outside"
  /\ UNCHANGED <<errno, in_hand, from_tcp, accepted, tcp_queue, tcp_end>>

UdpFails ==
  /\ at = "udp" /\ udp_queue # <<>> /\ Head(udp_queue) = Failure
  /\ udp_queue' = Tail(udp_queue)
  /\ errno' = "other"
  /\ at' = "outside"
  /\ UNCHANGED <<in_hand, from_tcp, accepted, tcp_queue, tcp_end>>

UdpPacket ==
  /\ at = "udp" /\ udp_queue # <<>> /\ Head(udp_queue) \notin {Empty, Failure}
  /\ in_hand' = Head(udp_queue)
  /\ udp_queue' = Tail(udp_queue)
  /\ at' = "verify"
  /\ UNCHANGED <<errno, from_tcp, accepted, tcp_queue, tcp_end>>

\* Nothing there; or the end of the connection, which sets no errno; or a reset,
\* which is reported once.
TcpNothing ==
  /\ at = "tcp" /\ tcp_queue = <<>>
  /\ errno' = CASE tcp_end = "no"    -> "again"
                [] tcp_end = "eof"   -> errno
                [] tcp_end = "reset" -> "other"
  /\ tcp_end' = IF tcp_end = "reset" THEN "eof" ELSE tcp_end
  /\ at' = "outside"
  /\ UNCHANGED <<in_hand, from_tcp, accepted, udp_queue, tcp_queue>>

TcpPacket ==
  /\ at = "tcp" /\ tcp_queue # <<>>
  /\ in_hand' = Head(tcp_queue) /\ from_tcp' = TRUE
  /\ tcp_queue' = Tail(tcp_queue)
  /\ at' = "verify"
  /\ UNCHANGED <<errno, accepted, udp_queue, tcp_end>>

Sound(packet) == packet.checksum = ht_calculate_checksum(packet.bytes)

\* A sound packet is handled, which may send and so set errno, and the next one
\* is looked for; after one that is not the call of ht_process_events() ends.
Verify ==
  /\ at = "verify"
  /\ IF Sound(in_hand)
     THEN /\ accepted' = in_hand
          /\ at' = "udp" /\ from_tcp' = FALSE
          /\ errno' \in {errno, "again", "other"}
     ELSE /\ at' = "outside"
          /\ UNCHANGED <<accepted, from_tcp, errno>>
  /\ in_hand' = NoPacket
  /\ UNCHANGED netVars

Receiving ==
  \/ Receive \/ UdpEmpty \/ UdpZero \/ UdpFails \/ UdpPacket
  \/ TcpNothing \/ TcpPacket \/ Verify

-----------------------------------------------------------------------------
(* The rest of the program, the peer and the network *)

OtherCalls ==
  /\ at = "outside"
  /\ errno' \in {"again", "other"} \ {errno}
  /\ UNCHANGED <<at, in_hand, from_tcp, accepted, netVars>>

Arrives ==
  /\ \/ /\ Len(udp_queue) < QueueRoom
        /\ \E bytes \in Packets : udp_queue' = Append(udp_queue, Sent(bytes))
        /\ UNCHANGED tcp_queue
     \/ /\ Len(udp_queue) < QueueRoom
        /\ \E event \in {Empty, Failure} : udp_queue' = Append(udp_queue, event)
        /\ UNCHANGED tcp_queue
     \/ /\ Len(tcp_queue) < QueueRoom /\ tcp_end = "no"
        /\ \E bytes \in Packets : tcp_queue' = Append(tcp_queue, Sent(bytes))
        /\ UNCHANGED udp_queue
  /\ UNCHANGED <<at, errno, in_hand, from_tcp, accepted, tcp_end>>

Damage ==
  /\ \E i \in 1 .. Len(udp_queue), k \in 1 .. PacketSize, byte \in Byte :
       /\ udp_queue[i] \notin {Empty, Failure} /\ udp_queue[i].bytes = udp_queue[i].original
       /\ udp_queue' = [udp_queue EXCEPT ![i].bytes[k] = byte]
  /\ UNCHANGED <<at, errno, in_hand, from_tcp, accepted, tcp_queue, tcp_end>>

TcpEnds ==
  /\ tcp_end = "no" /\ tcp_end' \in {"eof", "reset"}
  /\ UNCHANGED <<at, errno, in_hand, from_tcp, accepted, udp_queue, tcp_queue>>

LinkNext == Receiving \/ OtherCalls \/ Arrives \/ Damage \/ TcpEnds

LinkSpec == LinkInit /\ [][LinkNext]_linkVars

-----------------------------------------------------------------------------
(* Properties *)

\* A packet with one damaged byte is never handled: two sums that differ once
\* differ to the end, as a rotation loses nothing.
DamageFound == accepted.bytes = accepted.original

\* Empty datagrams, socket errors, damaged packets and a stale errno may end a
\* call before its TCP part, but once UDP is quiet and calls go on, TCP is read
\* again and again as long as it has packets.
TcpServed ==
  <>[](udp_queue = <<>>) /\ []<>(tcp_queue # <<>>) =>
    []<>(at = "verify" /\ from_tcp)
=============================================================================
