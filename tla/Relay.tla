------------------------------- MODULE Relay -------------------------------
(***************************************************************************)
(* The bytes under the event loop: forward_data() of rdp_forwarder.c, run  *)
(* by the forwarding pass for one direction of one connection after the    *)
(* other, between sockets whose kernel buffers are bounded.                *)
(*                                                                         *)
(* A flow is one direction of a connection.  Flow 2p-1 carries the bytes   *)
(* of the client of connection p to its target and flow 2p those of the    *)
(* target back, which is the order in which a pass serves them.  Byte n of *)
(* a flow is the number n, so a byte lost, repeated or out of place shows. *)
(*                                                                         *)
(* The set of connections is fixed at the start and only shrinks: accept   *)
(* and fast reconnect are the subject of module Forwarder, and             *)
(* enable_fast_reconnect is off here.  Time is kept as the age of each     *)
(* connection's last_activity, saturated just past connection_timeout.     *)
(***************************************************************************)
EXTENDS Integers, Sequences

CONSTANTS
  Pairs,       \* connections at the start
  Limit,       \* per flow, the bytes its source may write: bounds the model
  BufferSize,  \* config.buffer_size
  KernelBuf,   \* room of a socket buffer, in bytes
  ConnTimeout, \* config.connection_timeout, in seconds
  Resets       \* whether a peer may reset its connection

Flows      == 1 .. 2 * Pairs
PairOf(f)  == (f + 1) \div 2
Reverse(f) == IF f % 2 = 1 THEN f + 1 ELSE f - 1

ASSUME RelayAssumption ==
  /\ Pairs \in Nat \ {0}
  /\ Limit \in [Flows -> Nat]
  /\ BufferSize \in Nat \ {0}
  /\ KernelBuf \in Nat \ {0}
  /\ ConnTimeout \in Nat
  /\ Resets \in BOOLEAN

VARIABLES
  pc,          \* "select", "recv" (between two flows of a pass) or "send"
  at,          \* the flow the pass has come to
  ready,       \* the flows whose source select() reported readable
  alive,       \* the connections in the table
  buffer,      \* forward_data()'s buffer, bytes_read long
  bytes_sent,  \* forward_data()'s local of that name
  counted,     \* per flow, conn->bytes_sent or conn->bytes_received
  idle,        \* per connection, the seconds since conn->last_activity
  written,     \* per flow, how many bytes the source wrote
  inq,         \* per flow, received by the kernel and not read
  outq,        \* per flow, handed to the kernel and not read by the destination
  got,         \* per flow, what the destination has read
  eof,         \* the flows whose source has ended its stream
  reset        \* the flows whose source has reset its connection

loopVars == <<pc, at, ready, alive, buffer, bytes_sent, counted, idle>>
vars == <<pc, at, ready, alive, buffer, bytes_sent, counted, idle, written, inq,
          outq, got, eof, reset>>

-----------------------------------------------------------------------------
Init ==
  /\ pc = "select"
  /\ at = 1
  /\ ready = {}
  /\ alive = 1 .. Pairs
  /\ buffer = <<>>
  /\ bytes_sent = 0
  /\ counted = [f \in Flows |-> 0]
  /\ idle = [p \in 1 .. Pairs |-> 0]
  /\ written = [f \in Flows |-> 0]
  /\ inq = [f \in Flows |-> <<>>]
  /\ outq = [f \in Flows |-> <<>>]
  /\ got = [f \in Flows |-> <<>>]
  /\ eof = {}
  /\ reset = {}

Smaller(m, n) == IF m <= n THEN m ELSE n
First(n, s)   == SubSeq(s, 1, n)
Rest(n, s)    == SubSeq(s, n + 1, Len(s))

-----------------------------------------------------------------------------
(* The peers *)

\* A source writes its next byte while the forwarder's kernel has room for it.
PeerWrites(f) ==
  /\ PairOf(f) \in alive
  /\ f \notin eof \cup reset
  /\ written[f] < Limit[f]
  /\ Len(inq[f]) < KernelBuf
  /\ written' = [written EXCEPT ![f] = @ + 1]
  /\ inq' = [inq EXCEPT ![f] = Append(@, written[f] + 1)]
  /\ UNCHANGED <<loopVars, outq, got, eof, reset>>

\* A destination reads a byte, also one that was on its way at the close.
PeerReads(f) ==
  /\ outq[f] # <<>>
  /\ got' = [got EXCEPT ![f] = Append(@, Head(outq[f]))]
  /\ outq' = [outq EXCEPT ![f] = Tail(@)]
  /\ UNCHANGED <<loopVars, written, inq, eof, reset>>

PeerEnds(f) ==
  /\ PairOf(f) \in alive
  /\ f \notin eof \cup reset
  /\ eof' = eof \cup {f}
  /\ UNCHANGED <<loopVars, written, inq, outq, got, reset>>

\* The source of f resets; what was on its way to it is lost.
PeerResets(f) ==
  /\ Resets
  /\ PairOf(f) \in alive
  /\ f \notin reset
  /\ reset' = reset \cup {f}
  /\ outq' = [outq EXCEPT ![Reverse(f)] = <<>>]
  /\ UNCHANGED <<loopVars, written, inq, got, eof>>

-----------------------------------------------------------------------------
(* The forwarding pass *)

Readable(f) == PairOf(f) \in alive /\ (inq[f] # <<>> \/ f \in eof \cup reset)

SelectReturns ==
  /\ pc = "select"
  /\ \E f \in Flows : Readable(f)
  /\ ready' = {f \in Flows : Readable(f)}
  /\ pc' = "recv"
  /\ at' = 1
  /\ UNCHANGED <<alive, buffer, bytes_sent, counted, idle, written, inq, outq,
                 got, eof, reset>>

\* cleanup_connection(): close() of a socket with unread bytes resets it, and
\* what was on its way to that peer is lost; otherwise it still arrives.
CloseAll(p) ==
  /\ alive' = alive \ {p}
  /\ inq' = [f \in Flows |-> IF PairOf(f) = p THEN <<>> ELSE inq[f]]
  /\ outq' = [f \in Flows |->
                IF PairOf(f) = p /\ inq[Reverse(f)] # <<>> THEN <<>> ELSE outq[f]]

Served == ready' = ready \ {at} /\ at' = at + 1 /\ pc' = "recv"

\* The pass has come to the first flow of a connection that was idle too long.
\* This is tested before either socket is read, whatever select() reported.
Expired ==
  /\ pc = "recv"
  /\ at \in Flows /\ at % 2 = 1
  /\ PairOf(at) \in alive
  /\ idle[PairOf(at)] > ConnTimeout

\* Both sockets are closed, with what they still held unread.
TimedOut ==
  /\ Expired
  /\ CloseAll(PairOf(at))
  /\ Served
  /\ UNCHANGED <<buffer, bytes_sent, counted, idle, written, got, eof, reset>>

SkipFlow ==
  /\ pc = "recv"
  /\ ~Expired
  /\ at \in Flows
  /\ at \notin ready \/ PairOf(at) \notin alive
  /\ Served
  /\ UNCHANGED <<alive, buffer, bytes_sent, counted, idle, written, inq, outq,
                 got, eof, reset>>

AtFlow(f) ==
  pc = "recv" /\ ~Expired /\ at = f /\ f \in ready /\ PairOf(f) \in alive

RecvTakes(f, taken, left) ==
  /\ AtFlow(f)
  /\ inq[f] # <<>>
  /\ buffer' = taken
  /\ inq' = [inq EXCEPT ![f] = left]
  /\ bytes_sent' = 0
  /\ pc' = "send"
  /\ UNCHANGED <<at, ready, alive, counted, idle, written, outq, got, eof,
                 reset>>

RecvOverruns(f) ==   \* fault: more than the buffer holds
  RecvTakes(f, inq[f], <<>>)

RecvTruncates(f) ==   \* fault: what does not fit the buffer is thrown away
  RecvTakes(f, First(Smaller(BufferSize, Len(inq[f])), inq[f]), <<>>)

\* recv() into the buffer of buffer_size bytes.
Recv(f) ==
  LET bytes_read == Smaller(BufferSize, Len(inq[f]))
  IN RecvTakes(f, First(bytes_read, inq[f]), Rest(bytes_read, inq[f]))

RecvEndsFirst(f) ==   \* fault: the end is acted on before the bytes ahead of it
  /\ AtFlow(f)
  /\ f \in eof \cup reset
  /\ CloseAll(PairOf(f))
  /\ Served
  /\ UNCHANGED <<buffer, bytes_sent, counted, idle, written, got, eof, reset>>

\* recv() returned 0 or an error: the connection is cleaned up.
RecvEnds(f) ==
  /\ AtFlow(f)
  /\ inq[f] = <<>>
  /\ f \in eof \cup reset
  /\ CloseAll(PairOf(f))
  /\ Served
  /\ UNCHANGED <<buffer, bytes_sent, counted, idle, written, got, eof, reset>>

\* The kernel takes some of the bytes from position `first` of the buffer on.
\* With no room send() gives EAGAIN and the loop sleeps a millisecond: a stutter.
SendFrom(f, first) ==
  /\ pc = "send"
  /\ at = f
  /\ bytes_sent < Len(buffer)
  /\ Reverse(f) \notin reset
  /\ \E sent \in 1 .. Smaller(Len(buffer) - bytes_sent, KernelBuf - Len(outq[f])) :
       /\ outq' = [outq EXCEPT ![f] = @ \o SubSeq(buffer, first + 1, first + sent)]
       /\ bytes_sent' = bytes_sent + sent
  /\ UNCHANGED <<pc, at, ready, alive, buffer, counted, idle, written, inq, got,
                 eof, reset>>

SendFromStart(f) == SendFrom(f, 0)   \* fault: buffer for buffer + bytes_sent
Send(f)          == SendFrom(f, bytes_sent)

\* send() failed on a reset connection.
SendFails(f) ==
  /\ pc = "send"
  /\ at = f
  /\ bytes_sent < Len(buffer)
  /\ Reverse(f) \in reset
  /\ CloseAll(PairOf(f))
  /\ Served
  /\ UNCHANGED <<buffer, bytes_sent, counted, idle, written, got, eof, reset>>

SendDoneIf(f, done, count) ==
  /\ pc = "send"
  /\ at = f
  /\ done
  /\ counted' = [counted EXCEPT ![f] = @ + count]
  /\ idle' = [idle EXCEPT ![PairOf(f)] = 0]
  /\ Served
  /\ UNCHANGED <<alive, buffer, bytes_sent, written, inq, outq, got, eof, reset>>

SendDoneRoom(f) ==   \* fault: what is left is given up when the kernel is full
  SendDoneIf(f, bytes_sent = Len(buffer) \/ Len(outq[f]) = KernelBuf, Len(buffer))
SendDoneCapacity(f) ==   \* fault: buffer_size is counted for bytes_read
  SendDoneIf(f, bytes_sent = Len(buffer), BufferSize)

\* The whole chunk is handed over and counted, and the connection is not idle.
SendDone(f) == SendDoneIf(f, bytes_sent = Len(buffer), Len(buffer))

PassEnd ==
  /\ pc = "recv"
  /\ at \notin Flows
  /\ pc' = "select"
  /\ UNCHANGED <<at, ready, alive, buffer, bytes_sent, counted, idle, written, inq,
                 outq, got, eof, reset>>

\* A second passes for the connections in the table.
Tick ==
  /\ idle' = [p \in 1 .. Pairs |-> IF p \in alive THEN Smaller(idle[p] + 1, ConnTimeout + 1)
                                                 ELSE idle[p]]
  /\ UNCHANGED <<pc, at, ready, alive, buffer, bytes_sent, counted, written, inq, outq,
                 got, eof, reset>>

Loop ==
  \/ SelectReturns
  \/ TimedOut \/ SkipFlow
  \/ \E f \in Flows : \/ Recv(f) \/ RecvEnds(f)
                      \/ Send(f) \/ SendFails(f) \/ SendDone(f)
  \/ PassEnd

Next ==
  \/ Loop
  \/ Tick
  \/ \E f \in Flows : \/ PeerWrites(f) \/ PeerReads(f)
                      \/ PeerEnds(f) \/ PeerResets(f)

Spec == Init /\ [][Next]_vars

\* The loop is one thread that is always scheduled; nothing is asked of the peers.
LoopSpec == Spec /\ WF_vars(Loop)

\* Every destination keeps reading what has arrived.
FairSpec == LoopSpec /\ \A f \in Flows : WF_vars(PeerReads(f))

-----------------------------------------------------------------------------
(* Properties *)

Stream(n) == [i \in 1 .. n |-> i]

TypeOK ==
  /\ pc \in {"select", "recv", "send"}
  /\ at \in 1 .. 2 * Pairs + 1
  /\ ready \subseteq Flows
  /\ alive \subseteq 1 .. Pairs
  /\ buffer \in Seq(Nat) /\ Len(buffer) <= BufferSize
  /\ bytes_sent \in 0 .. Len(buffer)
  /\ counted \in [Flows -> Nat]
  /\ idle \in [1 .. Pairs -> 0 .. ConnTimeout + 1]
  /\ written \in [Flows -> Nat]
  /\ inq \in [Flows -> Seq(Nat)]
  /\ outq \in [Flows -> Seq(Nat)]
  /\ got \in [Flows -> Seq(Nat)]
  /\ eof \subseteq Flows /\ reset \subseteq Flows
  /\ \A f \in Flows : Len(inq[f]) <= KernelBuf /\ Len(outq[f]) <= KernelBuf

\* What forward_data() holds of a flow: read from the source, not yet sent.
InHand(f) == IF pc = "send" /\ at = f THEN Rest(bytes_sent, buffer) ELSE <<>>

\* No byte is lost while the connection lives: what the destination has, what
\* the kernel holds for it, what forward_data() holds and what the kernel holds
\* for forward_data() together are what the source wrote, in that order.  Bears
\* on the partial sends and the EAGAIN retry of forward_data(), on a chunk
\* smaller than what is queued, and on an end or an error met in mid-transfer.
Conserved ==
  \A f \in Flows : (PairOf(f) \in alive /\ Reverse(f) \notin reset) =>
    got[f] \o outq[f] \o InHand(f) \o inq[f] = Stream(written[f])

\* However a connection ends, each peer has read a prefix of what the other
\* wrote: nothing repeated, nothing out of place, no hole.
DeliveredInOrder ==
  \A f \in Flows : got[f] \o outq[f] = Stream(Len(got[f]) + Len(outq[f]))

\* The byte counters of a connection, which the statistics and every log line
\* of the connection print, count each byte once: outside a transfer they are
\* exactly what was taken from the source.
CountersExact ==
  \A f \in Flows : PairOf(f) \in alive =>
    counted[f] + (IF pc = "send" /\ at = f THEN Len(buffer) ELSE 0)
      = written[f] - Len(inq[f])

\* While destinations keep reading, every byte written arrives unless its
\* connection is closed: neither the wait for room in a send buffer nor the
\* traffic of the other flows can hold it up for ever.
Arrives ==
  \A f \in Flows : \A n \in 1 .. Limit[f] :
    (written[f] = n /\ PairOf(f) \in alive)
      ~> (Len(got[f]) >= n \/ PairOf(f) \notin alive)

\* The last bytes before an orderly close arrive, when the other side was
\* silent: the close is acted on after them, and closing the sockets does not
\* take them back.  The exception is a connection that had been idle longer
\* than connection_timeout when they came: the pass they start closes it before
\* it reads them.
TailArrives ==
  \A f \in Flows :
    (f \in eof /\ PairOf(f) \in alive)
      ~> \/ Len(got[f]) = written[f]
         \/ PairOf(f) \notin alive /\ idle[PairOf(f)] > ConnTimeout
         \/ written[Reverse(f)] > 0 \/ Reverse(f) \in eof
         \/ {f, Reverse(f)} \cap reset # {}

\* The comment of configure_tcp_socket() has it that a send does not wait
\* without end (socket_timeout "avoids blocking indefinitely").
SendEnds == (pc = "send") ~> (pc # "send")

-----------------------------------------------------------------------------
(* What the relay implements *)

\* A flow ends with its connection, and with a destination that has reset.
Ended(f) == PairOf(f) \notin alive \/ Reverse(f) \in reset
OnItsWay(f) == outq[f] \o InHand(f) \o inq[f]

Pipe == INSTANCE BytePipe WITH
  pipe <- [f \in Flows |-> IF Reverse(f) \in reset THEN <<>> ELSE OnItsWay(f)],
  cut  <- {f \in Flows : Ended(f)}

\* The relay is a byte pipe per direction, cut when the connection is closed
\* or reset: forward_data() adds nothing to what a direct connection shows.
ImplementsPipe == Pipe!Spec
=============================================================================
