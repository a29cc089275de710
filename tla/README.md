# A TLA+ model of rdp_forwarder

`rdp_forwarder` accepts RDP clients on one port and relays each to a target
host.  It is one process with one thread: `main()` in `rdp_forwarder.c` loops
around a `select()` without a timeout.  `hybrid_transport.c` is a second way to
the target, a reliable protocol over UDP with TCP as a helper.

These modules state what the program promises, check it with TLC on small
instances, prove every safety property of those runs with TLAPS for all
instances, and show with a counterexample each where the code does not do what
its own documents and comments say.

## 1. Inventory

| Component | State | Operations | What is hard | What makes it correct |
|---|---|---|---|---|
| Event loop and connection table (`rdp_forwarder.c` 926-1239, 510-551) | `connections[]`, `connection_count`, `running`, the `fd_set` of the pass | accept, forward, time out, clean up, signal, shut down | the table is compacted while it is scanned; descriptor numbers return within a pass; readiness is read long before it is used | no leak, no double close, each ready descriptor served once, ends noticed, timeouts enforced |
| Fast reconnect (714-767, 865-924, 992-1003, 1037-1066) | flags of an entry: `client_disconnected`, `target_ready`, `reconnect_attempts`, `use_hybrid_transport` | keep, redial, reuse | long sequences of disconnect, redial and reuse | flags agree with the sockets; a standby target is not lost or handed over dead |
| Data relay (614-684) | a buffer, the byte counters, kernel socket buffers, the time of the last transfer | recv a chunk, send all of it, close what is idle | partial sends, full buffers, ends and errors in mid-transfer | a byte pipe in each direction; exact counters |
| Hybrid relay (770-862) | the same with an `ht_conn` | create, forward, poll | what `ht_send_data` refuses, what the client does not take; a transport whose sockets `select()` does not watch | order across both hops, counters of what was handed on, dead ends given up |
| Hybrid transport (`hybrid_transport.c`) | sequence numbers, list of unacknowledged packets, list of received packets, two time stamps, statistics | send, receive, process events, handle timeouts, disconnect | loss, repetition, reordering, two channels, wrap of unsigned differences | delivered once and in order; given up only when due |
| Transport statistics and checksum (50-61, 275-306, 442-461) | round trip times, packet counters | measure, reset, sum | an average in whole numbers, a reset with packets out | average between its extremes, no packet lost twice, damage found |
| Connection states and error log (345-441) | `state`, `last_error`, `error_count` | set, describe | none: they only feed the log | not modelled (section 5) |
| Traffic statistics (300-345, 755-767) | counters of entries, totals | add, reset, sum | counters vanish with their entry or pass to a reused one | each byte charged to the client that the entry serves or served last |
| Configuration (150-300, 929-955) | `config` | defaults, command line, file | precedence, lines in error, lines read in pieces, texts longer than their field, remarks, numbers that are none | each option is what the code takes from the last line that gives it one |
| Scripts, service, Makefile | none | start, stop, observe | none | not modelled |

The components share the process's memory and call each other directly; the
only concurrency inside the process is the signal handler.  The world outside
runs at its own pace: clients, the target, the network, the clock, the
operator.  So the interleavings that matter are the loop's steps with theirs.

## 2. Modules

| Module | What it is |
|---|---|
| `SessionTable` | abstract: the connection table as a list of sessions |
| `Forwarder` | the event loop, the table and the fast reconnect; implements `SessionTable` |
| `ForwarderClaims` | what is said of the loop and not so |
| `ForwarderProofs`, `SessionProofs` | theorems about `Forwarder` |
| `BytePipe` | abstract: a direction of a connection as a pipe of bytes |
| `Relay`, `MCRelay` | `forward_data()` under the loop, byte by byte; implements `BytePipe`; its bounds |
| `RelayProofs` | theorems about `Relay` |
| `HtStream` | abstract: what the hybrid transport promises, a stream with holes |
| `HybridTransport`, `MCHybrid` | two ends of the hybrid protocol; implements `HtStream`; its bounds |
| `HybridProofs` | theorems about `HybridTransport` |
| `HybridClaims` | what is said of the protocol and not so |
| `HybridRelay`, `HybridRelayProofs` | `forward_data_hybrid()` under the loop, over `HtStream`; theorems about it |
| `HtLink` | `ht_recv_packet()`: the sockets below the protocol, `errno`, the checksum |
| `HtStats`, `StatsProofs` | round trip times and loss counters; theorems about them |
| `ConnBooks` | counters and reports of the connections |
| `ConfigLoad` | defaults, command line and file |
| `ConfigClaims` | what the README shows of the file and is not so |
| `PartsProofs` | theorems about `HtLink`, `ConfigLoad` and `ConnBooks` |
| `MCParts` | those four machines in one run |
| `DataLemmas` | what several proofs need: induction, recursive definitions, sequences as queues, sets in ascending order |

Definitions named `...Skips...`, `...Leaks...` and the like, each with a comment
"fault:", are single plausible bugs: replacing the definition below them by one
must break a property.  They are part of no specification.

### Forwarder

One action per branch of the loop; `pc` says where it is.

| Code | Actions |
|---|---|
| `while (running)`, cleanup after it | `Top`, `Shutdown` |
| scan 992-1003, `try_reconnect_target` | `ScanSkip`, `TryReconnectTarget`, `ScanEnd` |
| 1005-1027 | `EnterSelect`, `SelectReturns` |
| 1029-1152 | `NoAccept`, `AcceptFails`, `AcceptReuse`, `AcceptNew`, `AcceptRejects` |
| 1155-1223, client side | `TimedOut`, `ClientQuiet`, `ClientToTarget`, `ClientToHybrid`, `ClientEofKept`, `ClientEofDropped`, `ClientEofHybrid`, `ClientReset` |
| the same, target side | `TargetQuiet`, `TargetToClient`, `TargetLost`, `HybridToClient` |
| `send()` loop 648-667 in `forward_data()` | `SentToTarget`, `SentToClient`, `SendFails` |
| `cleanup_connection` and `i--` | `Cleanup`, `Drop` |
| outside | `ClientArrives`, `PeerActs`, `Signal`, `Tick` |

`connections` is the array up to `connection_count`, counted from 1.  An entry
keeps the nine fields the control flow reads; `state`, the start time and the
byte counters only feed the log.  `forward_data()` is two steps, the `recv()` and
the end of the `send()` loop: between them the code repeats `send()` on `EAGAIN` for
as long as the destination does not read, and looks neither at `running` nor at
any other connection.  Descriptors are numbers given out lowest
first, as the kernel does, because a number that returns within a pass is one
of the hazards.  A socket is what `recv()` would report of it.  Time stamps are
ages, saturated just past the last limit they are compared with.

### Relay and BytePipe

The forwarding pass again, but with a fixed set of connections and every byte:
flow `2p-1` is client to target of connection `p`, flow `2p` the way back, in the
order a pass serves them.  Byte `n` of a flow is the number `n`.  `send()` takes
any positive part that fits the kernel's buffer; without room the code sleeps
and tries again, a stutter.  `close()` of a socket with unread bytes resets it,
which the kernel does and which may take back what was on its way.
The idle timeout is tested when the pass comes to a connection, before either of
its sockets is read (`Expired`, `TimedOut`), and `Tick` ages the connections.
`enable_fast_reconnect` is off here; keeping an entry is `Forwarder`'s subject.
`BytePipe` is what the relay promises, and `ImplementsPipe` the refinement: what
is on its way is the kernel's send buffer, then what `forward_data()` holds, then
the kernel's receive buffer.

### SessionTable

A session is a client and the connections that lead to its target; the table is
a list of them.  `Forwarder` maps an entry to `SessionOf(entry)` and is over when
`pc` is `"exit"`.  Descriptors are only names here and are reused, but a name that
comes into the list is in no session: that is what makes the implementation more
than a renaming, since the code gets it from `cleanup_connection()` closing
exactly what the entry holds.  `Begin` asks that no session is ready, `Join` takes
the oldest that is, `Leave` keeps the target or loses it, `End` closes the gap.

### HybridRelay and HtStream

`HtStream` has two ends that accept bytes while they are up and give up bytes of
the other end in order, each at most once, with holes.  `HybridTransport`
implements it (`ImplementsStream`, byte by byte of each packet, reads shorter than
a packet included), and `HybridRelay` uses it in place of the protocol.  What
`ht_process_events()` and `ht_handle_timeout()` do at the end of each call of
`forward_data_hybrid()` are steps of the stream that may come at any time.
`SelectWoken` is `select()` returning for another connection: the sockets of the
transport are not in the set, so that without it the entry would never be polled.
The client's bytes go through a kernel buffer, may be read and refused by the
transport, and what the client does not take is cut off.

### HtLink, HtStats, ConnBooks, ConfigLoad

Small machines that share nothing.  `HtLink` has one action per branch of
`ht_recv_packet()`, with `errno` as a variable because the code reads it after calls
that do not set it.  A packet is its bytes, the network damages one of them.
`HtStats` counts the packets out by how often they were sent again; the
acknowledged one may be any.  `ConnBooks` sees the events of the loop as the
counters of an entry do, and keeps a ledger of every byte to compare them with;
an entry bears the number of the client it serves or, on standby, served last,
whose counters it keeps.  `ConfigLoad` reads a file in the pieces `fgets()` makes of
it.  A text is a token with its length and what `atoi()` and `atof()` make of it,
`NaN` included; `Kept` is what `strncpy()` leaves of it and of a remark behind it,
`Less` the comparison of floats, which no `NaN` passes, and after a `strcpy()` of an
argument too long for its field the stage is "undefined" and nothing more is said.
`MCParts` puts the four in one run, each behaviour moving one of them, so that
their states add up and do not multiply.

### HybridTransport

One action per call of the interface (`SendData` and `ProcessUdp`/`ProcessTcp`
one per packet, as their loops do one per round).  Both ends run the same code;
the program itself has only the client's end, so that the other end is an
assumption: that it speaks this protocol as the code does.  UDP to an end is a
set from which a packet may be taken, taken and left (repetition), or never be
taken (loss).  TCP is a queue of packets; one `recv()` takes the first and any
number of those behind it, which are not looked at again.  `Unlinked` says in
one formula what the loop over the list with its `prev` pointer removes.

A partial `send()` on the TCP channel, a damaged packet and one whose checksum
fails are lost packets here; how they are found is in `HtLink`.  `malloc()` does
not fail.

## 3. Runs

All runs pass or are violated as said; `CHECK_DEADLOCK FALSE` is set only where
the system really may come to rest (connections that have ended).

| Run | Bounds | What it shows |
|---|---|---|
| `fwd_keep` | 2 clients, 6 descriptors, targets kept | types, ownership, flags, each bit served once, numbers bounded, no stale bit, standby kept |
| `fwd_redial` | 2 clients, 3 descriptors, data, ends and resets, targets closed with their client and one attempt to redial a target over the hybrid transport; fair, destinations keep reading | each bit served once when descriptors run out and entries come back over another transport; ends noticed; one connection's traffic enforces the other's timeout, also of an entry that has lost every socket; shutdown on the next event; `SessionTable` implemented |
| `relay` | 1 connection, 4 bytes and 1 byte, chunk 2, kernel buffers of 3, an idle timeout of 1, resets, fair readers | bytes conserved and in order, exact counters, `BytePipe` implemented; every byte of a live connection arrives, the last before a close too unless the idle timeout comes first |
| `ht_order` | 3 bytes one way, in two packets or three, reads of 1 byte, 3 numbers for the sender and 2 for the other end, UDP and TCP, one retransmission | order, meaning of an acknowledgement, order of the list, `HtStream` implemented |
| `ht_live` | TCP only, fair calls, numbers modulo 2 | each packet acknowledged or given up; the peer's loss noticed |
| `hybrid_relay` | 3 bytes each way, buffer of 2, kernel buffers of 2, fair loop | order across both hops, honest counters, an ended client and a dead transport given up |
| `parts` | 3 pieces of a file, with a mode, a negative number, an address that just fits and a longer text that is no number, each with a remark and without; 2 entries, 3 clients, 3 bytes; packets of 3 bits with a sum of 3 bits, one per socket; round trips up to 3, 4 packets, 2 retransmissions | the last line wins; bytes charged to their client, reports of the clients in the table; damage found, TCP served once UDP is quiet; average between its extremes, losses counted once |

Why the bounds are enough.  The table's hazards need an entry before, at and
after the one that goes; with two places and reuse of the freed one each role
occurs.  Six descriptors are all that two clients can hold over TCP (two each)
plus spares, three are too few for two connections, so that both the free and
the exhausted case occur.  Limits of 0 to 2 on ages give before, at and past each
limit.  In `relay` a chunk is smaller than the stream and may not fit
the kernel's buffer, so that a chunk is cut, waits and resumes.  In `ht_order`
two packets are enough for a reordering, a repetition and a list whose entries
differ in age and count, and a packet of two bytes read one at a time is cut with
another behind it.
In `hybrid_relay` three bytes pass a buffer of two and a kernel buffer of two, so
that a call is filled, refused or cut off and others follow.  In `parts` a value
can be set, set wrongly and set again; a client can leave an entry to a second
one and a third can take the place of a cleaned-up one; a damaged byte passes
every bit of the sum, the carry included; with round trips from 0 to 3 the
division by 8 cuts at every step, and a packet can be sent again, given up and
forgotten by a reset.  The proofs remove these bounds for every safety property; for the liveness
properties the runs are what there is.

### Fairness

`FairSpec` of `Forwarder` has two parts.  `Scheduled`: the thread runs and time
passes.  `DestinationsRead`: no `send()` waits for ever, its destination reads or
breaks off.  The first is the kernel's; the second is an assumption about the
peers that the code does nothing to ensure, and `EofNoticed`, `TimeoutUnderTraffic`
and `ShutdownOnEvent` are promises under it: one destination that stops reading
holds the whole program in the `send()` loop, signals included, as `claim_send` shows.
Nothing is asked of the operator, nor that clients come.  `select()` with nothing
ready is not enabled, so fairness does not wake it: `TimeoutUnderTraffic` therefore
names the return of `select()` in the property, and `ShutdownOnEvent` a client's call
for a signal that came between the test of `running` and `select()`: the wait until
then is in the code, and the property does not exclude it.  `Relay` assumes the
thread and the readers, nothing of the clock.  `HybridRelay` asks for the loop and the
clock only: `EndedClientRemoved` rests on the ended client's own descriptor, which
stays readable and keeps `select()` returning, and `DeadTransportRemoved` names its
assumption, that `select()` keeps returning.  In `parts`, `Receiving` is fair: the
forwarder calls `ht_process_events()` in every pass, which is the same assumption.  `TrafficSpec` of `HybridTransport` has
`ht_handle_timeout()` called again and again, which the forwarder does once per
pass: it holds while `select()` keeps returning, and is an assumption on the caller.

### Findings

Each is a run that TLC must find violated.

| Run | The program does | and is said to |
|---|---|---|
| `claim_standby` | loses a standby target to the first byte it sends | keep it alive |
| `claim_send` | waits without end for one reader, serving nobody | not block without end |
| `claim_config` | ignores the README's own line `transport_mode=hybrid   # ...` | set the mode by it |
| `claim_ht_gap` | waits for a number an acknowledgement took | be highly reliable |
| `claim_ht_unlink` | drops packets not yet exhausted with an older one that is | drop after the maximum of retransmissions |

What else was met while modelling.  The models translate it, no run asserts it.

- A signal between the test of `running` and `select()` is not acted on before
  some descriptor is ready (`rdp_forwarder.c:973`); `ShutdownOnEvent` is what holds.
- The command line's address is set before the file is loaded, so that a file
  that names one overrides it (lines 939-948); `CHANGELOG.md:20` says that the old
  command line still works.
- The README's examples of the configuration have remarks behind the values
  (`README.md:60-98`), and the loader does not cut them off.  A number is read up to
  its remark and so is right; a mode with one is no mode (`claim_config`); a text
  keeps of it what the field has room for, so that an address of 15 characters
  comes out bare and a shorter one does not.
- `udp_preference=nan` is kept as it is: neither comparison of the clamp holds for
  it (lines 265-267).
- An address on the command line of 16 characters or more is copied over the fields
  behind `target_ip` (line 945).
- A line of more than 255 characters is read in pieces, the later ones like lines
  of their own: the tail of a long comment may set a value.
- A negative `max_clients` is not refused but makes `malloc()` fail.
- The byte totals of a report fall when a connection is cleaned up or reused.
- `ht_should_use_tcp()` looks at a loss rate that only the copy `ht_get_stats()`
  makes ever gets (`hybrid_transport.c:290-295`).
- The end of the TCP channel is not noticed by `ht_recv_packet()`: `recv()` gives 0 and
  the `errno` of an earlier call decides (line 410).
- Over the hybrid transport, what the client's socket does not take at once is
  dropped (`rdp_forwarder.c:836-840`), and what the client sends while the transport
  is down is read and dropped (line 822); `hybrid_relay` shows that this leaves holes
  only, and that the entry goes with the idle timeout.
- An idle table waits in `select()` for ever, so neither the idle timeout nor a
  retry is acted on before some descriptor is ready (`rdp_forwarder.c:1023`).
- A connection idle for longer than `connection_timeout` is closed before its sockets
  are read (line 1160 comes before `recv()`), by the very bytes or end that woke
  `select()`: these are lost.  `TailArrives` names this exception.
- The state of an entry stays `ACTIVE` after its client has left, through standby and
  into the next client's time; `CLIENT_DISCONNECTED` is set only on the way to
  `cleanup_connection()` and `RECONNECTING` never, against the comments at lines
  30-33 and `FAST_RECONNECT.md:5`.  Only the log shows it.
- The grace of a leaving client counts from the last transfer, although the
  comment at line 638 speaks of the age of the connection.
- `accept()` may bind a client to a standby target whose end `select()` has
  already reported; the pass then drops both (line 1040): a `Join` that an `End`
  follows in `SessionTable`.
- A redial opens the hybrid transport and accept hands it to the next client,
  although line 1102 has it disabled (lines 892-898).
- A hybrid end numbers from `rand()` and its peer waits for 0, so nothing is
  delivered unless the random number is 0 (`hybrid_transport.c:141-142`).
- A packet that does not fit the rest of the caller's buffer is cut (line 545);
  at the real sizes it takes seven packets received before their turn.  `ht_order`
  cuts packets and shows that the packets themselves are still taken without a hole.
- A packet sent after `now` was read makes the unsigned difference of line 744
  wrap, and a connection in use is given up.
- Over UDP its own heartbeats keep an end from noticing that the peer is gone
  (line 372); `ht_live` shows that over TCP it notices.
- The windows are declared and never looked at.

## 4. Proofs

Every safety property that a passing run checks, invariant, action property or
refinement, is a theorem, for every value of the constants that satisfies the
`ASSUME` of its module.  These ask that numbers are numbers and sizes not zero,
and beyond that:

- `Forwarder`: a table and a backlog of at least one place.  Any number of
  descriptors, any configuration.
- `HtStats`: a round trip so short (under 2^29 ms, six days) that the weighted
  sum of line 283 fits 32 bits.
- `HtLink`: the sum's modulus is even (the code's is 2^32), so that the bit the
  rotation takes from the front has a place at the end.
- `HybridTransport`: first numbers below the modulus of the sequence numbers.
  Three theorems have one more hypothesis, `NumbersLast`, treated below.

| Theorem | For every value of the constants |
|---|---|
| `ForwarderProofs` `TypeCorrect` | `TypeOK` is invariant |
| `DescriptorsOwned` | `FdOwnership` is invariant |
| `FlagsTruthful` | `EntryConsistent` is invariant |
| `BitsNameTheOld` | `NoStaleBit`: no step of the accept phase opens a descriptor the answer names |
| `StandbyTargetsKept` | `StandbyKept`: no step but a timeout or the shutdown closes a quiet standby target |
| `PassServesOnce` | `ServedOnce`: no pass serves an entry twice, though cleanup moves entries under it |
| `FdNumbersBounded` | `FdNumberBound`: descriptor numbers stay within what the table can hold |
| `SessionProofs` `SessionsImplemented` | `ImplementsSessions`: the loop implements `SessionTable` |
| `RelayProofs` `RelayTyped` | `TypeOK` of `Relay` is invariant |
| `NothingLost` | `Conserved`: each byte written is in one place on the way, read, or lost to a reset |
| `PrefixDelivered` | `DeliveredInOrder`: what was read is a prefix of what was written |
| `EachByteCountedOnce` | `CountersExact`: partial sends and all, a byte is counted once |
| `PipePerDirection` | `ImplementsPipe`: each direction implements `BytePipe` |
| `HybridProofs` `TransportTyped` | `TypeOK` of `HybridTransport` is invariant |
| `OldestGivenUpFirst` | `OlderFirst`: the list of unacknowledged packets is in order of count and age |
| `BytesInOrder` | `DeliveredInOrder`: what is taken are the first bytes accepted, in order (`NumbersLast`) |
| `AcknowledgedIsKept` | `AckMeansStored`: what is acknowledged is held or was delivered (`NumbersLast`) |
| `TransportIsStream` | `ImplementsStream`: the protocol implements `HtStream` (`NumbersLast`) |
| `HybridRelayProofs` `HybridTyped` | `TypeOK` of `HybridRelay` is invariant |
| `OrderAcrossBothHops` | `EndToEndOrder`: order and no repetition across client, relay and transport |
| `CountersCountDeliveries` | `CountersHonest`: the counters count what was handed on |
| `StatsProofs` `AverageStays` | `AverageBetween` is invariant of `HtStats` |
| `LossBooksBalance` | `LossAccounted`: no packet is counted lost twice, resets included |
| `PartsProofs` `DamageNeverAccepted` | `DamageFound`: a packet with one damaged byte never passes, whatever the width of a sum and of a packet |
| `ConfigTyped` | `ConfigTypeOK`: the mode is one of the four, the preference between 0 and 1 or a `NaN`, whatever the texts of the file and what numbers they are read as |
| `LastLinesWin` | `LastLineWins`: each option has what the code takes from its last line, cut and clamped, for files and texts of any length |
| `CountersFollowTheClient` | `ChargedToPresentClient`: counters are the bytes of the client served now or, on standby, last |
| `ReportsArePresent` | `ReportIsOfPresent`: a report sums the clients in the table and no others |

### The loop and its table

`TypeOK` is inductive once one adds that a set bit of the listening socket means
a waiting client (`BacklogReady`): together, `TypeInv`.  `FdOwnership` is not
inductive alone: that a reused entry forgets no client socket, and a redialled
one no target, rests on its flags, so it is proved together with
`EntryConsistent`, as `OwnInv`.  Nearly every step replaces one entry, drops some
of its sockets and adds free ones; lemma `ReplaceEntry` says once what that
preserves, `CleanupKeeps` and `AppendKeeps` treat the two steps that change the
length of the table.  The two action properties follow from `OwnInv`,
`BitsNameTheOld` with one more invariant: while the answer of `select()` is
fresh it names open descriptors (`BitsOpen`), by `NoDangling` when it is built.

`ServedOnce` speaks of the pass; that a pass begins with nothing served
(`ServedIdle`) is the rest of its invariant.  What is served and not yet passed
by lies before the index, since cleanup takes the index back by the place it
closes.  `FdNumberBound` is a count: the kernel gives out the lowest free
number, so that all below it are open, each open descriptor has a seat of its
own (its entry and its role there, by `FdOwnership`), and lemma `SeatsSuffice`
is the pigeonhole.  It needs that `ht_connect()` opens at most two sockets, and
none in TCP mode (`SmallHt`).

`Book` is the list of sessions the table stands for.  Three facts carry the
refinement: a free descriptor is new to every session (`FreeIsFresh`, from
`NoDangling`); the entries found reusable are the sessions that are ready
(`ReadyIs`, from the truth of the flags); and without fast reconnect no entry
ever waits for a client (`NobodyWaits`, an invariant of its own), or `AcceptNew`
would dial beside a target held ready.  Then each action has a lemma naming the
abstract step it is.

### The relay

`RelayInv` adds to the four invariants that the transfer in hand is of a
connection still in the table (`Sending`) and that nothing is on its way to a
peer that has reset its connection (`ResetEmpties`), or a close would take bytes
back twice.  Each action moves bytes from one sequence to the next, so the work
is the algebra of `\o` and `SubSeq`: lemmas of `DataLemmas` on the first part and
the rest of a sequence.  For the refinement a write is a `Put`, a read a `Get`, what
`recv()` and `send()` do a stutter, since a chunk in hand is still on its way, and
a reset or a close a `Cut` of the flows it ends.

### The relay over the hybrid transport

`HybridInv` has one part per direction: of the client's bytes, those the transport
took come before those to be read (`ToTarget`); of the target's, those the client
has, will have and those in the buffer are some of those the transport gave up
(`ToClient`); all of them rising.  `StreamSound` is what `HtStream` gives.  Holes
can come at each hop, so that the argument is that a part of a rising sequence
rises, never that anything is complete.

### The hybrid protocol

`TypeInv` holds the types of lists, packets and queues that `TypeOK` leaves out.
What the loops over the lists do is said by selections: `Selects(f, t, s, ...)`
has `t` as those elements of `s` that a rising `f` points at.  `OlderFirst` is that
the list is `Ranked`, and a selection of a ranked list is ranked; acknowledgement
and giving up are selections, and a retransmission keeps the ranks: of two
packets of one count the older is due if the younger is, and where the counts
differ the younger one's can at most come up to the older one's.

`NumInv` is the invariant the delivery rests on.  `Known(n)` are the packets
of end `n` anywhere: on their way, in the peer's list, in its own list.  The side
is `Sound` when each of them is a stretch of the accepted bytes with a number
from the first to the last used, equal numbers mean equal packets, consecutive
numbers mean stretches that abut, and the number the peer waits for starts at
what it has taken.  Lemma `Walk` then follows `ht_recv_data()`'s scan through its
list: the packets it takes one after the other bring the bytes that follow.

`NumbersLast` is the hypothesis of this part: no end sends so many packets,
heartbeats included, that its numbers come round to 0.  The code wraps them (modulo 2^32) without a look at
what is out, and its peer waits for 0: after the wrap an old packet of the same
number could be taken for a new one, and equal numbers would no longer mean
equal packets.  The first number is `rand()`, at most 2^31 - 1, so the theorems
are about connections of fewer than 2^31 packets; the modulus and the number of
packets are free otherwise.  `ht_order` satisfies it, with a first number of 0.

`AckMeansStored` needs two facts of each action: an end keeps what it holds until
it is delivered (`HoldsOn`), and an acknowledgement is only written for a packet
in the list (`AcksFrom`).  The refinement maps what is taken from the list in one
call to an interval of bytes, which as a set in ascending order is what
`HtStream` gives up.

### Statistics, checksum, configuration, books

`AverageBetween` needs to know that the two extremes are in order and within 32
bits, and that there are none before the first measurement (`RttInv`).
`AverageWithin` is the arithmetic: a weighted mean cut to a whole number does not
fall below a whole bound.  `LossInv` sums the packets out over their counts of
retransmissions; `OneChanged` and `FewerLeft` say what a packet that changes its
count, and packets that leave, do to the sum.

`DamageFound`: adding a byte to a running sum and rotating it are both injective
modulo an even number, so two packets that differ in one byte differ in their
sums from that byte to the end (`OneByteShows`).  `LinkInv` says that what the queues
hold are packets of which one byte at most was changed.

`ConfigInv` reads each option off the last of the lines that set it; a line
appended either is that line or changes nothing.  It says nothing of what the
configuration is after the overrun of line 945, except that no step of the model
follows it.  `BooksInv` has the ledger and the entries `Agree`: the counters of an
entry are what the ledger has of its client, and no two entries share a client.

### Induction

The induction theorems of the library take an operator as their parameter, which
the provers cannot instantiate.  `DataLemmas` states induction by a set instead
(`InductionSet`: a set with 0 and every successor has all naturals), from the
library's well-foundedness of `<`, and `RecursionDefines` from it: a recursive
function over `0 .. n` exists and has the values its equation says.  That is what
the sums, the checksum, the fold over a file's lines and the walks over lists are
proved with.

### Model-checked only

The liveness properties: `EofNoticed`, `TimeoutUnderTraffic`, `ShutdownOnEvent`,
`Arrives`, `TailArrives`, `EndedClientRemoved`, `DeadTransportRemoved`, `TcpServed`,
`NoneWaitsForever` and `PeerLossNoticed`.  They rest on fairness, which is out of
the prover's reach.  `ht_live` runs with numbers modulo 2, so that they come round,
of which the theorems with `NumbersLast` say nothing.

## 5. Not modelled, and why

- The scripts, the service file and the Makefile: input and output only.
- `is_client_socket_alive()`, which nothing calls; the `state` of an entry, `last_error`
  and `error_count`, which only the log reads; wording and layout of the log.
- The end of a standby target over the hybrid transport, whose sockets `select()` does
  not watch, in `Forwarder`; its idle timeout is what removes the entry.
- The signal handler's call of `log_message()` (line 145): what two calls of the C
  library's output in one another do is undefined, not a state of this program.
- How long `connect()` to the target blocks the loop (line 604): it is one step.
- A clock that steps back: ages only grow here.  After such a step every
  deadline moves by as much, and the deadlines' properties hold from then on.
- Damage to the size field of a packet, which decides what the sum is taken of;
  failures of `malloc()`; more than one damaged byte, which no such sum can find.
- The first connect of the hybrid transport: `Forwarder` has its outcome, the
  sockets it can end with (`HtSockets`).  The random choice of
  `ht_should_use_tcp()` is a choice in `HybridTransport`.

## 6. Plan

What is left, the most important first.

1. One statement for the whole hybrid path: `HybridRelay` is proved over `HtStream`
   and `HybridTransport` implements `HtStream`, but that the two together keep the
   order is composed here in words only.
2. What holds past the wrap of the sequence numbers: order, as long as less than
   the modulus is out or in a list, would need a bound on what the network still
   holds, which UDP does not give.
3. Shorter proofs for `HybridProofs`, whose lemmas on one end's step repeat the
   same frame for the other end.
4. Safety halves of the liveness properties, such as that an entry past its
   timeout is not served before it is closed.
