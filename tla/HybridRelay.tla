---------------------------- MODULE HybridRelay ----------------------------
(***************************************************************************)
(* forward_data_hybrid() of rdp_forwarder.c under the event loop: one      *)
(* entry whose target is reached over the hybrid transport, its client's   *)
(* socket with bounded kernel buffers, and HtStream for the transport.     *)
(*                                                                         *)
(* End 1 of the stream is the forwarder, end 2 the target.  Byte n of a    *)
(* source is the number n.  select() watches the client's socket and those *)
(* of the other connections, never the transport's own: that is how it     *)
(* comes to return without this client being ready (SelectWoken).          *)
(*                                                                         *)
(* What ht_process_events() and ht_handle_timeout() do at the end of each  *)
(* call shows as steps of the stream, which may come later here.           *)
(***************************************************************************)
EXTENDS Integers, Sequences, FiniteSets

CONSTANTS
  ClientLimit,   \* bytes the client may write: bounds the model
  TargetLimit,   \* bytes the target may write: bounds the model
  BufferSize,    \* the literal 8192 of forward_data_hybrid()
  KernelBuf,     \* room of a socket buffer, in bytes
  ConnTimeout    \* config.connection_timeout

ASSUME HybridRelayAssumption ==
  /\ ClientLimit \in Nat /\ TargetLimit \in Nat
  /\ BufferSize \in Nat \ {0} /\ KernelBuf \in Nat \ {0}
  /\ ConnTimeout \in Nat

VARIABLES
  pc,             \* "select", "client", "poll" or "send"
  client_ready,   \* the client's bit in select()'s answer
  alive,          \* whether the entry is in the table
  buffer,         \* what ht_recv_data() gave, while it is sent to the client
  sent_now,       \* the local bytes_sent of forward_data_hybrid()
  bytes_sent,     \* conn->bytes_sent
  bytes_received, \* conn->bytes_received
  last_activity,  \* an age, as in Forwarder
  written,        \* how many bytes the client wrote
  inq,            \* received by the kernel from the client and not read
  outq,           \* handed to the kernel for the client and not read by it
  got,            \* what the client has read
  client_end,     \* "no", "eof" or "reset"
  taken,          \* history: the client's bytes the transport took, in its order
  accepted, delivered, up   \* of the stream

connVars   == <<alive, bytes_sent, bytes_received, last_activity>>
clientVars == <<written, inq, outq, got, client_end>>
callVars   == <<buffer, sent_now>>
streamVars == <<accepted, delivered, up>>
vars == <<pc, client_ready, connVars, callVars, clientVars, taken, streamVars>>

Peer(n) == 3 - n
Stream  == INSTANCE HtStream WITH
  Ends <- {1, 2}, Other <- Peer, MaxChunk <- BufferSize

Smaller(m, n) == IF m <= n THEN m ELSE n
Rest(n, s)    == SubSeq(s, n + 1, Len(s))

Init ==
  /\ pc = "select"
  /\ client_ready = FALSE
  /\ alive = TRUE
  /\ buffer = <<>> /\ sent_now = 0
  /\ bytes_sent = 0 /\ bytes_received = 0
  /\ last_activity = 0
  /\ written = 0 /\ inq = <<>> /\ outq = <<>> /\ got = <<>>
  /\ client_end = "no"
  /\ taken = <<>>
  /\ Stream!Init

-----------------------------------------------------------------------------
(* The loop *)

Readable == inq # <<>> \/ client_end # "no"

SelectReturns ==
  /\ pc = "select" /\ alive
  /\ Readable
  /\ client_ready' = TRUE
  /\ pc' = "client"
  /\ UNCHANGED <<connVars, callVars, clientVars, taken, streamVars>>

\* Another connection or a new client wakes it.
SelectWoken ==
  /\ pc = "select" /\ alive
  /\ client_ready' = Readable
  /\ pc' = "client"
  /\ UNCHANGED <<connVars, callVars, clientVars, taken, streamVars>>

\* cleanup_connection(): ht_disconnect() ends the stream at this end, and close()
\* of a socket with unread bytes takes back what was on its way to the client.
CleanUp ==
  /\ alive' = FALSE
  /\ up' = up \ {1}
  /\ inq' = <<>>
  /\ outq' = IF inq # <<>> THEN <<>> ELSE outq
  /\ pc' = "select"
  /\ UNCHANGED <<client_ready, bytes_sent, bytes_received, last_activity, callVars,
                 written, got, client_end, taken, accepted, delivered>>

Idle == last_activity > ConnTimeout

TimedOut == pc = "client" /\ Idle /\ CleanUp

ClientQuiet ==
  /\ pc = "client" /\ ~Idle /\ ~client_ready
  /\ pc' = "poll"
  /\ UNCHANGED <<client_ready, connVars, callVars, clientVars, taken, streamVars>>

AtClient == pc = "client" /\ ~Idle /\ client_ready

TouchedAlways(count) == 0   \* fault: any call counts as activity
\* last_activity, when count bytes were transferred.
Touched(count) == IF count > 0 THEN 0 ELSE last_activity

FromClientKeeping(left(_, _)) ==
  /\ AtClient
  /\ inq # <<>>
  /\ LET read == Smaller(BufferSize, Len(inq))
     IN \E count \in 0 .. (IF 1 \in up THEN read ELSE 0) :
          /\ inq' = left(count, read)
          /\ taken' = taken \o SubSeq(inq, 1, count)
          /\ bytes_sent' = bytes_sent + count
          /\ last_activity' = Touched(count)
          /\ IF count > 0 THEN Stream!Accept(1, count) ELSE UNCHANGED streamVars
  /\ pc' = "poll"
  /\ UNCHANGED <<client_ready, alive, bytes_received, callVars, written, outq, got,
                 client_end>>

FromClientRepeats ==   \* fault: what was sent in part is kept from its start
  FromClientKeeping(LAMBDA count, read : IF count < read THEN inq ELSE Rest(read, inq))

\* recv(), then ht_send_data(), which may take a part of the bytes or none: the
\* rest is forgotten, and neither is an error.
FromClient == FromClientKeeping(LAMBDA count, read : Rest(read, inq))

\* recv() returned 0, which is returned and taken for success.
FromClientEof ==
  /\ AtClient
  /\ inq = <<>> /\ client_end = "eof"
  /\ last_activity' = Touched(0)
  /\ pc' = "poll"
  /\ UNCHANGED <<client_ready, alive, bytes_sent, bytes_received, callVars,
                 clientVars, taken, streamVars>>

FromClientReset ==
  /\ AtClient
  /\ inq = <<>> /\ client_end = "reset"
  /\ CleanUp

-----------------------------------------------------------------------------
(* The way back: ht_recv_data() is polled once a pass *)

PollEmpty ==
  /\ pc = "poll"
  /\ pc' = "select"
  /\ UNCHANGED <<client_ready, connVars, callVars, clientVars, taken, streamVars>>

PollUpTo(room) ==
  /\ pc = "poll"
  /\ \E S \in SUBSET Stream!Coming(1) :
       /\ Cardinality(S) \in 1 .. room
       /\ Stream!Deliver(1, S)
       /\ buffer' = Stream!Ascending(S)
  /\ sent_now' = 0
  /\ pc' = "send"
  /\ UNCHANGED <<client_ready, connVars, clientVars, taken>>

PollOverruns == PollUpTo(BufferSize + 1)   \* fault: one byte beyond the buffer
Poll         == PollUpTo(BufferSize)

SendingFrom(first) ==
  /\ pc = "send"
  /\ sent_now < Len(buffer)
  /\ client_end # "reset"
  /\ \E sent \in 1 .. Smaller(Len(buffer) - sent_now, KernelBuf - Len(outq)) :
       /\ outq' = outq \o SubSeq(buffer, first + 1, first + sent)
       /\ sent_now' = sent_now + sent
  /\ UNCHANGED <<pc, client_ready, connVars, buffer, written, inq, got, client_end,
                 taken, streamVars>>

SendAgain == SendingFrom(0)          \* fault: buffer for buffer + bytes_sent
Send      == SendingFrom(sent_now)

SendEndsCounting(count) ==
  /\ pc = "send"
  /\ sent_now = Len(buffer) \/ (client_end # "reset" /\ Len(outq) = KernelBuf)
  /\ bytes_received' = bytes_received + count
  /\ last_activity' = Touched(sent_now)
  /\ buffer' = <<>> /\ sent_now' = 0
  /\ pc' = "select"
  /\ UNCHANGED <<client_ready, alive, bytes_sent, clientVars, taken, streamVars>>

SendEndsAll == SendEndsCounting(Len(buffer))   \* fault: bytes_read is counted
\* All is sent, or EAGAIN: the rest of the buffer is forgotten.
SendEnds == SendEndsCounting(sent_now)

SendFails ==
  /\ pc = "send"
  /\ sent_now < Len(buffer)
  /\ client_end = "reset"
  /\ CleanUp

Loop ==
  \/ SelectReturns \/ TimedOut
  \/ ClientQuiet \/ FromClient \/ FromClientEof \/ FromClientReset
  \/ PollEmpty \/ Poll \/ Send \/ SendEnds \/ SendFails

-----------------------------------------------------------------------------
(* The client, the target, the transport below, the clock *)

ClientWrites ==
  /\ alive /\ client_end = "no"
  /\ written < ClientLimit /\ Len(inq) < KernelBuf
  /\ written' = written + 1
  /\ inq' = Append(inq, written + 1)
  /\ UNCHANGED <<pc, client_ready, connVars, callVars, outq, got, client_end, taken,
                 streamVars>>

ClientReads ==
  /\ outq # <<>> /\ client_end # "reset"
  /\ got' = Append(got, Head(outq))
  /\ outq' = Tail(outq)
  /\ UNCHANGED <<pc, client_ready, connVars, callVars, written, inq, client_end,
                 taken, streamVars>>

\* After eof the client may still read, or have closed: then it resets.
ClientEnds ==
  /\ alive
  /\ \/ client_end = "no" /\ client_end' \in {"eof", "reset"}
     \/ client_end = "eof" /\ client_end' = "reset"
  /\ outq' = IF client_end' = "reset" THEN <<>> ELSE outq
  /\ UNCHANGED <<pc, client_ready, connVars, callVars, written, inq, got, taken,
                 streamVars>>

TargetMoves ==
  /\ \/ accepted[2] < TargetLimit /\ Stream!Accept(2, 1)
     \/ \E k \in Stream!Coming(2) : Stream!Deliver(2, {k})
  /\ UNCHANGED <<pc, client_ready, connVars, callVars, clientVars, taken>>

TransportGoesDown ==
  /\ \E n \in up : Stream!GoDown(n)
  /\ UNCHANGED <<pc, client_ready, connVars, callVars, clientVars, taken>>

Tick ==
  /\ last_activity' = Smaller(last_activity + 1, ConnTimeout + 1)
  /\ UNCHANGED <<pc, client_ready, alive, bytes_sent, bytes_received, callVars,
                 clientVars, taken, streamVars>>

Next ==
  \/ Loop \/ SelectWoken
  \/ ClientWrites \/ ClientReads \/ ClientEnds
  \/ TargetMoves \/ TransportGoesDown \/ Tick

Spec == Init /\ [][Next]_vars

\* The one thread is always scheduled and time passes; nothing is asked of the
\* client, the target, the network or the other connections.
FairSpec == Spec /\ WF_vars(Loop) /\ WF_vars(Tick)

-----------------------------------------------------------------------------
(* Properties *)

Rising(s) == \A i, j \in 1 .. Len(s) : i < j => s[i] < s[j]

TypeOK ==
  /\ pc \in {"select", "client", "poll", "send"}
  /\ client_ready \in BOOLEAN /\ alive \in BOOLEAN
  /\ buffer \in Seq(1 .. TargetLimit) /\ Len(buffer) <= BufferSize
  /\ sent_now \in 0 .. Len(buffer)
  /\ bytes_sent \in 0 .. ClientLimit /\ bytes_received \in 0 .. TargetLimit
  /\ last_activity \in 0 .. ConnTimeout + 1
  /\ written \in 0 .. ClientLimit
  /\ Len(inq) <= KernelBuf /\ Len(outq) <= KernelBuf
  /\ client_end \in {"no", "eof", "reset"}
  /\ up \subseteq {1, 2}
  /\ accepted \in [{1, 2} -> Nat] /\ Len(taken) = accepted[1]

\* What the target has read, as bytes of the client.
TargetGot == [i \in 1 .. Len(delivered[2]) |-> taken[delivered[2][i]]]

\* Across the two hops each side reads bytes of the other in the order they were
\* written and none twice, whatever the transport refused, a full client buffer
\* cut off or the network dropped: what is lost leaves a hole and nothing worse.
EndToEndOrder == Rising(TargetGot \o inq) /\ Rising(got \o outq \o Rest(sent_now, buffer))

\* The counters of the entry are what the two sides were really given: not what
\* was read from the other one and thrown away.
CountersHonest ==
  alive => /\ bytes_sent = accepted[1]
           /\ client_end # "reset" => bytes_received + sent_now = Len(got) + Len(outq)

\* A client that has ended is given up, although its end is taken for success:
\* its socket keeps waking the loop, nothing is transferred, and the idle timeout
\* closes the entry once the target has nothing more to say.
EndedClientRemoved == (client_end # "no") ~> ~alive

\* A transport that is down is given up as long as select() keeps returning, even
\* if the client keeps sending, whose bytes are swallowed until then.
DeadTransportRemoved == []<>(pc = "client") => ((1 \notin up) ~> ~alive)
=============================================================================
