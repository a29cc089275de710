----------------------------- MODULE Forwarder -----------------------------
(***************************************************************************)
(* The event loop of rdp_forwarder.c: one thread that accepts clients,     *)
(* pairs each with a connection to the target host, and relays between the *)
(* two, around one blocking select() per iteration.                        *)
(*                                                                         *)
(* The state is the global connection table, the readiness bits select()   *)
(* left in readfds, the program point of the loop, and the sockets as the  *)
(* kernel sees them.  File descriptors are numbers the kernel hands out    *)
(* lowest first, so that a number closed in a pass can come back in it.    *)
(*                                                                         *)
(* What travels on a socket is abstracted to what recv() would report;     *)
(* bytes and their order are the subject of module Relay.  forward_data()  *)
(* is two steps, recv() and the loop around send(): while the destination  *)
(* takes nothing the only thread stays in the second, and looks neither at *)
(* another connection nor at running.  Time is kept as the age of each     *)
(* time stamp, saturated just past the largest value the code compares it  *)
(* with.                                                                   *)
(***************************************************************************)
EXTENDS Integers

CONSTANTS
  MaxClients,      \* config.max_clients
  MaxFd,           \* descriptors the process may hold besides its own (EMFILE)
  MaxBacklog,      \* clients waiting in the listen queue: bounds the model
  PeerEvents,      \* what the other end of a socket may do: bounds the model
  EnableFast,      \* config.enable_fast_reconnect
  KeepTargetAlive, \* config.keep_target_alive
  TransportMode,   \* config.transport_mode: "tcp", "udp", "hybrid" or "auto"
  MaxAttempts,     \* config.max_reconnect_attempts
  ReconnectDelay,  \* config.reconnect_delay, in milliseconds
  ConnTimeout,     \* config.connection_timeout, in seconds
  Grace            \* the literal 5 of forward_data, in seconds

ASSUME TableAssumption ==
  /\ MaxClients \in Nat \ {0}
  /\ MaxFd \in Nat
  /\ MaxBacklog \in Nat \ {0}
  /\ PeerEvents \subseteq {"data", "eof", "reset"}

ASSUME ConfigAssumption ==
  /\ EnableFast \in BOOLEAN
  /\ KeepTargetAlive \in BOOLEAN
  /\ TransportMode \in {"tcp", "udp", "hybrid", "auto"}
  /\ MaxAttempts \in Nat
  /\ ReconnectDelay \in Nat
  /\ ConnTimeout \in Nat
  /\ Grace \in Nat

VARIABLES
  pc,               \* where the loop of main() is
  idx,              \* the loop variable i of the scan and of the forwarding pass
  running,          \* cleared by the signal handler
  connection_count,
  connections,      \* connection_pair_t connections[0 .. connection_count-1], from 1
  readfds,          \* the fd_set: what is watched, then what select() left set
  served,           \* history: descriptors recv() was called on in this pass
  sock,             \* per descriptor, what the kernel holds for it
  backlog           \* completed handshakes accept() has not taken yet

vars == <<pc, idx, running, connection_count, connections, readfds, served,
          sock, backlog>>
tableVars == <<connection_count, connections>>

-----------------------------------------------------------------------------
(* Descriptors *)

NoFd     == -1
ListenFd == 0
FDs      == 1 .. MaxFd
Lowest(S) == {fd \in S : \A other \in S : fd <= other}

\* "empty": recv() gives EAGAIN; "data"; "eof": recv() gives 0; "reset": an error.
SockState == {"closed", "empty", "data", "eof", "reset"}

Free == {fd \in FDs : sock[fd] = "closed"}
Open(s, S)  == [fd \in FDs |-> IF fd \in S THEN "empty"  ELSE s[fd]]
Close(s, S) == [fd \in FDs |-> IF fd \in S THEN "closed" ELSE s[fd]]
Consume(s, read) == [s EXCEPT ![read] = "empty"]

\* send() fails on descriptor -1 (EBADF) and on a connection the peer reset;
\* elsewhere it succeeds in the end, or the loop around it goes on (EAGAIN).
SendOk(fd) == fd # NoFd /\ sock[fd] # "reset"

(* Entries of the table *)

DelaySeconds == ReconnectDelay \div 1000
IdleCap      == 1 + IF ConnTimeout > Grace THEN ConnTimeout ELSE Grace

Entry == [client_fd             : FDs \cup {NoFd},
          target_fd             : FDs \cup {NoFd},
          ht_conn               : SUBSET FDs,   \* its sockets; {} is NULL
          use_hybrid_transport  : BOOLEAN,
          client_disconnected   : BOOLEAN,
          target_ready          : BOOLEAN,
          reconnect_attempts    : 0 .. MaxAttempts,
          last_activity         : 0 .. IdleCap,
          disconnect_time       : 0 .. DelaySeconds]

FdsOf(e)     == ({e.client_fd, e.target_fd} \cup e.ht_conn) \ {NoFd}
TcpFds(e)    == {e.client_fd, e.target_fd} \ {NoFd}
HasTarget(e) == e.target_fd # NoFd \/ e.use_hybrid_transport
Slots        == 1 .. connection_count
TcpSockets   == UNION {TcpFds(connections[i]) : i \in Slots}

-----------------------------------------------------------------------------
Init ==
  /\ pc = "top"
  /\ idx = 1
  /\ running = TRUE
  /\ connection_count = 0
  /\ connections = [i \in 1 .. 0 |-> {}]
  /\ readfds = {}
  /\ served = {}
  /\ sock = [fd \in FDs |-> "closed"]
  /\ backlog = 0

Goto(label, i) == pc' = label /\ idx' = i

CleanupLeaksTarget(i) ==   \* fault: the target's socket stays open
  /\ sock' = Close(sock, {connections[i].client_fd})
  /\ connection_count' = connection_count - 1
  /\ connections' = [j \in 1 .. (connection_count - 1) |->
                       IF j < i THEN connections[j] ELSE connections[j + 1]]

\* cleanup_connection(): both sockets and the hybrid connection are closed and
\* the entries behind it move down one place.
Cleanup(i) ==
  /\ sock' = Close(sock, FdsOf(connections[i]))
  /\ connection_count' = connection_count - 1
  /\ connections' = [j \in 1 .. (connection_count - 1) |->
                       IF j < i THEN connections[j] ELSE connections[j + 1]]

SetEntry(i, e) ==
  /\ connections' = [connections EXCEPT ![i] = e]
  /\ UNCHANGED connection_count

-----------------------------------------------------------------------------
(* Top of the loop, and the fast-reconnect scan before select() *)

Top ==
  /\ pc = "top"
  /\ running
  /\ Goto(IF EnableFast THEN "scan" ELSE "select", 1)
  /\ UNCHANGED <<running, tableVars, readfds, served, sock, backlog>>

ShutdownSkipsFirst ==   \* fault: i > 0 ends the loop one entry early
  /\ pc = "top"
  /\ ~running
  /\ Goto("exit", 1)
  /\ sock' = Close(sock, UNION {FdsOf(connections[i]) : i \in Slots \ {1}})
  /\ connection_count' = 0
  /\ connections' = [i \in 1 .. 0 |-> {}]
  /\ UNCHANGED <<running, readfds, served, backlog>>

\* The loop has seen running == 0: every connection is cleaned up, last first.
Shutdown ==
  /\ pc = "top"
  /\ ~running
  /\ Goto("exit", 1)
  /\ sock' = Close(sock, UNION {FdsOf(connections[i]) : i \in Slots})
  /\ connection_count' = 0
  /\ connections' = [i \in 1 .. 0 |-> {}]
  /\ UNCHANGED <<running, readfds, served, backlog>>

WantsReconnect(e) ==
  /\ e.client_disconnected
  /\ ~e.target_ready
  /\ e.disconnect_time >= DelaySeconds

ScanSkip ==
  /\ pc = "scan"
  /\ idx <= connection_count
  /\ \/ ~WantsReconnect(connections[idx])
     \/ connections[idx].reconnect_attempts >= MaxAttempts   \* "giving up"
  /\ Goto("scan", idx + 1)
  /\ UNCHANGED <<running, tableVars, readfds, served, sock, backlog>>

\* The socket sets ht_connect() can end with; a TCP connect that fails at once
\* leaves the connection UDP only.  {} when it cannot get the descriptors.
HtSockets ==
  {fds \in SUBSET Free : \E u \in Lowest(Free) :
     IF TransportMode = "udp"
     THEN fds = {u}
     ELSE \E t \in Lowest(Free \ {u}) : fds = {u} \/ fds = {u, t}}

\* try_reconnect_target(): the hybrid transport first unless the mode is TCP,
\* plain TCP when that gave nothing.
TryReconnectTarget ==
  /\ pc = "scan"
  /\ idx <= connection_count
  /\ WantsReconnect(connections[idx])
  /\ connections[idx].reconnect_attempts < MaxAttempts
  /\ LET e == [connections[idx] EXCEPT !.reconnect_attempts = @ + 1]
         hybrid == TransportMode # "tcp" /\ HtSockets # {}
     IN \/ /\ hybrid
           /\ \E fds \in HtSockets :
                /\ SetEntry(idx, [e EXCEPT !.ht_conn = fds,
                                           !.use_hybrid_transport = TRUE,
                                           !.target_ready = TRUE])
                /\ sock' = Open(sock, fds)
        \/ /\ ~hybrid
           /\ \E fd \in Lowest(Free) :
                /\ SetEntry(idx, [e EXCEPT !.target_fd = fd,
                                           !.target_ready = TRUE])
                /\ sock' = Open(sock, {fd})
        \/ /\ ~hybrid   \* the target refuses or no descriptor is left
           /\ SetEntry(idx, e)
           /\ UNCHANGED sock
  /\ Goto("scan", idx + 1)
  /\ UNCHANGED <<running, readfds, served, backlog>>

ScanEnd ==
  /\ pc = "scan"
  /\ idx > connection_count
  /\ Goto("select", 1)
  /\ UNCHANGED <<running, tableVars, readfds, served, sock, backlog>>

-----------------------------------------------------------------------------
(* select() *)

EnterSelectOn(watched) ==
  /\ pc = "select"
  /\ Goto("waiting", 1)
  /\ readfds' = watched \cup {ListenFd}
  /\ UNCHANGED <<running, tableVars, served, sock, backlog>>

EnterSelectUpToGap ==   \* fault: break for continue at an entry without a client
  EnterSelectOn(UNION {TcpFds(connections[i]) : i \in
                  {j \in Slots : \A k \in 1 .. j : connections[k].client_fd # NoFd}})

\* FD_ZERO and FD_SET, then the call: no timeout is given.
EnterSelect == EnterSelectOn(TcpSockets)

Readable(fd) == IF fd = ListenFd THEN backlog > 0
                                 ELSE sock[fd] \in {"data", "eof", "reset"}

SelectReturns ==
  /\ pc = "waiting"
  /\ \E fd \in readfds : Readable(fd)
  /\ Goto("accept", 1)
  /\ readfds' = {fd \in readfds : Readable(fd)}
  /\ UNCHANGED <<running, tableVars, served, sock, backlog>>

-----------------------------------------------------------------------------
(* The listening socket *)

NoAccept ==
  /\ pc = "accept"
  /\ ListenFd \notin readfds
  /\ Goto("client", 1)
  /\ UNCHANGED <<running, tableVars, readfds, served, sock, backlog>>

Accepting ==
  /\ pc = "accept"
  /\ ListenFd \in readfds
  /\ Goto("client", 1)
  /\ UNCHANGED <<running, readfds, served>>

\* accept() fails for want of a descriptor; the client stays in the queue.
AcceptFails ==
  /\ Accepting
  /\ Free = {}
  /\ UNCHANGED <<tableVars, sock, backlog>>

Reusable(i) == connections[i].client_disconnected /\ connections[i].target_ready
Standby     == {i \in Slots : EnableFast /\ Reusable(i)}

ResetForReuseKeepsFlag(e) ==   \* fault: the entry still counts as client-less
  [e EXCEPT !.target_ready = FALSE, !.disconnect_time = 0,
            !.reconnect_attempts = 0, !.last_activity = 0]

\* reset_connection_for_reuse()
ResetForReuse(e) ==
  [e EXCEPT !.client_disconnected = FALSE,
            !.target_ready = FALSE,
            !.disconnect_time = 0,
            !.reconnect_attempts = 0,
            !.last_activity = 0]

AcceptReuseRedials ==   \* fault: a fresh target gets the number just closed
  /\ Accepting
  /\ backlog' = backlog - 1
  /\ \E i \in Lowest(Standby), fd \in Lowest(Free) :
       /\ SetEntry(i, ResetForReuse([connections[i] EXCEPT !.client_fd = fd]))
       /\ sock' = Open(sock, {fd} \cup FdsOf(connections[i]))

AcceptReuseAny ==   \* fault: no break: the last standby entry is taken
  /\ Accepting
  /\ backlog' = backlog - 1
  /\ \E i \in Standby, fd \in Lowest(Free) :
       /\ \A j \in Standby : j <= i
       /\ SetEntry(i, ResetForReuse([connections[i] EXCEPT !.client_fd = fd]))
       /\ sock' = Open(sock, {fd})

\* Fast reconnect: the first standby entry takes the new client.
AcceptReuse ==
  /\ Accepting
  /\ backlog' = backlog - 1
  /\ \E i \in Lowest(Standby), fd \in Lowest(Free) :
       /\ SetEntry(i, ResetForReuse([connections[i] EXCEPT !.client_fd = fd]))
       /\ sock' = Open(sock, {fd})

NewEntry(client, target) ==
  [client_fd |-> client, target_fd |-> target, ht_conn |-> {},
   use_hybrid_transport |-> FALSE, client_disconnected |-> FALSE,
   target_ready |-> FALSE, reconnect_attempts |-> 0, last_activity |-> 0,
   disconnect_time |-> 0]

AcceptNewUpTo(limit) ==
  /\ Accepting
  /\ backlog' = backlog - 1
  /\ Standby = {}
  /\ connection_count < limit
  /\ \E client \in Lowest(Free) : \E target \in Lowest(Free \ {client}) :
       /\ connections' = [j \in 1 .. (connection_count + 1) |->
                            IF j <= connection_count THEN connections[j]
                                                     ELSE NewEntry(client, target)]
       /\ connection_count' = connection_count + 1
       /\ sock' = Open(sock, {client, target})

AcceptNewOneMore == AcceptNewUpTo(MaxClients + 1)   \* fault: <= for <
AcceptNew        == AcceptNewUpTo(MaxClients)

AcceptRejectsLeaks ==   \* fault: the rejected client is not closed
  /\ Accepting
  /\ backlog' = backlog - 1
  /\ Free # {}
  /\ Standby = {}
  /\ sock' = Open(sock, Lowest(Free))
  /\ UNCHANGED tableVars

\* The table is full, the target refuses, or no descriptor is left for it: the
\* accepted socket is closed again and the entry being filled is not counted.
AcceptRejects ==
  /\ Accepting
  /\ backlog' = backlog - 1
  /\ Free # {}
  /\ Standby = {}
  /\ UNCHANGED <<tableVars, sock>>

-----------------------------------------------------------------------------
(* The forwarding pass.  "client": the timeout check and the client's bit of   *)
(* entry idx; "target": its target's bit.  After cleanup_connection(i) the     *)
(* code does i--, so that idx then names the entry that moved into its place.  *)

E == connections[idx]

InPass(label) == pc = label /\ idx <= connection_count

PassEnd ==
  /\ pc = "client"
  /\ idx > connection_count
  /\ Goto("top", 1)
  /\ readfds' = {}       \* out of scope
  /\ served' = {}
  /\ UNCHANGED <<running, tableVars, sock, backlog>>

\* fault: an entry without a client is swept at once
IdleOrAlone(e)  == e.last_activity > ConnTimeout \/ e.client_disconnected
\* fault: an entry without a client never expires
IdleIfPaired(e) == e.last_activity > ConnTimeout /\ ~e.client_disconnected
Idle(e)         == e.last_activity > ConnTimeout

TimedOut ==
  /\ InPass("client")
  /\ Idle(E)
  /\ Cleanup(idx)
  /\ Goto("client", idx)
  /\ UNCHANGED <<running, readfds, served, backlog>>

ClientQuiet ==
  /\ InPass("client")
  /\ ~Idle(E)
  /\ E.client_fd \notin readfds
  /\ Goto("target", idx)
  /\ UNCHANGED <<running, tableVars, readfds, served, sock, backlog>>

\* recv() on the client's socket reports outcome.
ClientRecv(outcome) ==
  /\ InPass("client")
  /\ ~Idle(E)
  /\ E.client_fd \in readfds
  /\ sock[E.client_fd] = outcome
  /\ served' = served \cup {E.client_fd}
  /\ UNCHANGED <<running, readfds, backlog>>

DropNoStepBack == Cleanup(idx) /\ Goto("client", idx + 1)   \* fault: no i--

\* Every path that sets connection_error ends in cleanup_connection().
Drop == Cleanup(idx) /\ Goto("client", idx)

Touched(e) == [e EXCEPT !.last_activity = 0]

\* forward_data(): recv() has the bytes, send() does not yet have them all.
ClientToTarget ==
  /\ ClientRecv("data")
  /\ ~E.use_hybrid_transport
  /\ sock' = Consume(sock, E.client_fd)
  /\ Goto("to_target", idx)
  /\ UNCHANGED tableVars

\* forward_data_hybrid(): ht_send_data() may send nothing, which is no error.
ClientToHybrid ==
  /\ ClientRecv("data")
  /\ E.use_hybrid_transport
  /\ \E sent \in BOOLEAN :
       SetEntry(idx, IF sent THEN Touched(E) ELSE E)
  /\ sock' = Consume(sock, E.client_fd)
  /\ Goto("target", idx)

\* handle_client_disconnect()
DisconnectedEntry(e) ==
  LET d == [e EXCEPT !.client_fd = NoFd, !.client_disconnected = TRUE,
                     !.disconnect_time = 0, !.reconnect_attempts = 0]
  IN IF KeepTargetAlive
     THEN [d EXCEPT !.target_ready = TRUE]
     ELSE [d EXCEPT !.target_fd = NoFd, !.ht_conn = {},
                    !.target_ready = FALSE, !.use_hybrid_transport = FALSE]

ClientEofKept ==
  /\ ClientRecv("eof")
  /\ ~E.use_hybrid_transport
  /\ EnableFast
  /\ E.last_activity > Grace
  /\ SetEntry(idx, DisconnectedEntry(E))
  /\ sock' = Close(sock, FdsOf(E) \ FdsOf(DisconnectedEntry(E)))
  /\ Goto("client", idx + 1)

ClientEofDropped ==
  /\ ClientRecv("eof")
  /\ ~E.use_hybrid_transport
  /\ ~EnableFast \/ E.last_activity <= Grace
  /\ Drop

\* forward_data_hybrid() returns recv()'s 0, which the loop takes for success.
ClientEofHybrid ==
  /\ ClientRecv("eof")
  /\ E.use_hybrid_transport
  /\ Goto("target", idx)
  /\ UNCHANGED <<tableVars, sock>>

ClientReset ==
  /\ ClientRecv("reset")
  /\ Drop

TargetQuiet ==
  /\ InPass("target")
  /\ ~E.use_hybrid_transport
  /\ E.target_fd \notin readfds
  /\ Goto("client", idx + 1)
  /\ UNCHANGED <<running, tableVars, readfds, served, sock, backlog>>

TargetRecv(outcomes) ==
  /\ InPass("target")
  /\ ~E.use_hybrid_transport
  /\ E.target_fd \in readfds
  /\ sock[E.target_fd] \in outcomes
  /\ served' = served \cup {E.target_fd}
  /\ UNCHANGED <<running, readfds, backlog>>

TargetToClient ==
  /\ TargetRecv({"data"})
  /\ sock' = Consume(sock, E.target_fd)
  /\ Goto("to_client", idx)
  /\ UNCHANGED tableVars

TargetLost ==
  /\ TargetRecv({"eof", "reset"})
  /\ Drop

\* The destination has taken the last of the bytes.
Sent(label) ==
  /\ InPass(label)
  /\ SetEntry(idx, Touched(E))
  /\ UNCHANGED <<running, readfds, served, sock, backlog>>

SentToTarget == Sent("to_target") /\ SendOk(E.target_fd) /\ Goto("target", idx)
SentToClient == Sent("to_client") /\ SendOk(E.client_fd) /\ Goto("client", idx + 1)

SendFails ==
  /\ \/ InPass("to_target") /\ ~SendOk(E.target_fd)
     \/ InPass("to_client") /\ ~SendOk(E.client_fd)
  /\ Drop
  /\ UNCHANGED <<running, readfds, served, backlog>>

\* ht_recv_data() is polled whatever select() said; what it fails to deliver is
\* an error only when the send to the client fails.
HybridToClient ==
  /\ InPass("target")
  /\ E.use_hybrid_transport
  /\ \/ /\ Goto("client", idx + 1)
        /\ UNCHANGED <<tableVars, sock>>
     \/ /\ SendOk(E.client_fd)
        /\ SetEntry(idx, Touched(E))
        /\ Goto("client", idx + 1)
        /\ UNCHANGED sock
     \/ /\ ~SendOk(E.client_fd)
        /\ Drop
  /\ UNCHANGED <<running, readfds, served, backlog>>

-----------------------------------------------------------------------------
(* The world around the loop *)

ClientArrives ==
  /\ pc # "exit"
  /\ backlog < MaxBacklog
  /\ backlog' = backlog + 1
  /\ UNCHANGED <<pc, idx, running, tableVars, readfds, served, sock>>

\* A peer sends or closes once what it sent is read, and resets at any moment.
PeerActs(fd) ==
  /\ \E event \in PeerEvents :
       /\ sock[fd] \in {"empty"} \cup (IF event = "reset" THEN {"data", "eof"} ELSE {})
       /\ sock' = [sock EXCEPT ![fd] = event]
  /\ UNCHANGED <<pc, idx, running, tableVars, readfds, served, backlog>>

\* SIGTERM or SIGINT: select() is interrupted only if the process is in it.
Signal ==
  /\ running
  /\ running' = FALSE
  /\ IF pc = "waiting" THEN pc' = "top" /\ readfds' = {}
                        ELSE UNCHANGED <<pc, readfds>>
  /\ UNCHANGED <<idx, tableVars, served, sock, backlog>>

Older(age, bound) == IF age < bound THEN age + 1 ELSE age

\* A second passes.
Tick ==
  /\ connections' = [i \in Slots |->
       [connections[i] EXCEPT
          !.last_activity = Older(@, IdleCap),
          !.disconnect_time =
             IF connections[i].client_disconnected THEN Older(@, DelaySeconds)
                                                   ELSE @]]
  /\ UNCHANGED <<pc, idx, running, connection_count, readfds, served, sock, backlog>>

-----------------------------------------------------------------------------
\* What the thread does by itself once it is scheduled.
Steps ==
  \/ Top \/ Shutdown
  \/ ScanSkip \/ TryReconnectTarget \/ ScanEnd
  \/ EnterSelect \/ SelectReturns
  \/ NoAccept \/ AcceptFails \/ AcceptReuse \/ AcceptNew \/ AcceptRejects
  \/ PassEnd \/ TimedOut
  \/ ClientQuiet \/ ClientToTarget \/ ClientToHybrid
  \/ ClientEofKept \/ ClientEofDropped \/ ClientEofHybrid \/ ClientReset
  \/ TargetQuiet \/ TargetToClient \/ TargetLost \/ HybridToClient
  \/ SendFails

\* What it cannot do before the destination reads.
Sends == SentToTarget \/ SentToClient

Loop == Steps \/ Sends

World ==
  \/ ClientArrives
  \/ \E fd \in TcpSockets : PeerActs(fd)
  \/ Signal
  \/ Tick

Next == Loop \/ World

Spec == Init /\ [][Next]_vars

\* One thread that the kernel keeps scheduling, and a clock that keeps running.
Scheduled == WF_vars(Steps) /\ WF_vars(Tick)

\* An assumption about the two ends, which the code does nothing to ensure: a
\* destination does not leave a send() waiting for ever, it reads or it breaks
\* off.  Module Relay's claim SendEnds is what becomes of the loop without it.
DestinationsRead == WF_vars(Sends)

\* Nothing else is assumed of the clients, the target or the operator.
FairSpec == Spec /\ Scheduled /\ DestinationsRead

-----------------------------------------------------------------------------
(* Properties *)

(* Types of the state.  The table never outgrows the max_clients entries       *)
(* main() allocates for it.                                                    *)
TypeOK ==
  /\ pc \in {"top", "scan", "select", "waiting", "accept", "client", "to_target",
             "target", "to_client", "exit"}
  /\ idx \in 1 .. (MaxClients + 1)
  /\ running \in BOOLEAN
  /\ connection_count \in 0 .. MaxClients
  /\ connections \in [Slots -> Entry]
  /\ readfds \subseteq FDs \cup {ListenFd}
  /\ served \subseteq FDs
  /\ sock \in [FDs -> SockState]
  /\ backlog \in 0 .. MaxBacklog

NoLeak     == \A fd \in FDs : sock[fd] # "closed" =>
                \E i \in Slots : fd \in FdsOf(connections[i])
NoDangling == \A i \in Slots : \A fd \in FdsOf(connections[i]) : sock[fd] # "closed"
NoSharing  == \A i, j \in Slots :
                i # j => FdsOf(connections[i]) \cap FdsOf(connections[j]) = {}
OneRole(e) == /\ e.client_fd # NoFd => e.client_fd \notin {e.target_fd} \cup e.ht_conn
              /\ e.target_fd \notin e.ht_conn

(* Every open descriptor belongs to exactly one entry, in one role, and no     *)
(* entry names a closed one: accept, connect, cleanup_connection, the hand     *)
(* over to standby and the reuse leak nothing, close nothing twice and never   *)
(* let two entries share a socket.                                             *)
FdOwnership ==
  NoLeak /\ NoDangling /\ NoSharing /\ \A i \in Slots : OneRole(connections[i])

(* The flags of an entry tell the truth about its descriptors: an entry with   *)
(* a client has a target to relay to, a standby entry (target_ready) has a     *)
(* target and no client, an entry waiting for a new target holds nothing.      *)
Truthful(e) ==
  /\ e.client_disconnected <=> e.client_fd = NoFd
  /\ e.use_hybrid_transport <=> e.ht_conn # {}
  /\ e.use_hybrid_transport => e.target_fd = NoFd
  /\ e.client_disconnected => (e.target_ready <=> HasTarget(e))
  /\ ~e.client_disconnected => HasTarget(e) /\ ~e.target_ready
EntryConsistent == \A i \in Slots : Truthful(connections[i])

(* A pass serves every descriptor select() reported exactly once, although     *)
(* cleanup_connection() shifts the table under the loop: whatever was ready in *)
(* the entries already passed has been read, nothing ahead has.  Only the      *)
(* target of a client that just left may wait for the next iteration.          *)
ServedOnce ==
  pc \in {"client", "to_target", "target", "to_client"} =>
    /\ \A i \in Slots : i < idx /\ ~connections[i].client_disconnected =>
         TcpFds(connections[i]) \cap readfds \subseteq served
    /\ \A i \in Slots : i > idx \/ (i = idx /\ pc = "client") =>
         TcpFds(connections[i]) \cap served = {}
    /\ pc # "client" /\ idx <= connection_count =>
         /\ {E.client_fd} \cap readfds \subseteq served
         /\ E.target_fd \in served <=> pc = "to_client"

(* Descriptor numbers are bounded by the size of the table, however often      *)
(* clients come and go: with no leak, what is open never exceeds the sockets   *)
(* max_clients entries can hold.  (Whether that is below the 1024 bits of an   *)
(* fd_set is up to max_clients, which the code does not limit.)                *)
FdNumberBound ==
  \A fd \in FDs : sock[fd] # "closed" =>
    fd <= MaxClients * (IF TransportMode = "tcp" THEN 2 ELSE 3)

(* A descriptor opened while select()'s answer is still in use is not one of   *)
(* those the answer names, even when it gets the number of one just closed: a  *)
(* bit is never taken for another connection's.  Accepting reads nothing, so a *)
(* socket that becomes empty in that step is a new one.                        *)
NoStaleBit ==
  [][pc = "accept" =>
       \A fd \in FDs : sock[fd] # "empty" /\ sock'[fd] = "empty" => fd \notin readfds]_vars

(* A standby target that stays quiet, in this pass too, is given up only when  *)
(* its entry has been idle too long or the forwarder shuts down: no scan, no   *)
(* rejected client and no other connection's failure costs it.                 *)
StandbyKept ==
  [][\A i \in Standby : LET e == connections[i] IN
       /\ e.target_fd \notin served \cup {NoFd}
       /\ sock[e.target_fd] = "empty"
       /\ sock'[e.target_fd] = "closed"
       => e.last_activity > ConnTimeout \/ ~running]_vars

\* A socket whose other end closed in order.  (A client whose target is on the
\* hybrid transport is HybridRelay's: its end is not acted on.)
Ended(fd) ==
  /\ sock[fd] = "eof"
  /\ \E i \in Slots : ~connections[i].use_hybrid_transport /\ fd \in TcpFds(connections[i])

(* Provided destinations keep reading, a TCP connection that ended in order is *)
(* closed in the end, whichever entry it is in: standby entries ahead of it,   *)
(* other connections' traffic, ends and timeouts in the same pass, and what    *)
(* cleanup_connection() moves, cannot make the loop miss it for good.          *)
EofNoticed == \A fd \in FDs : Ended(fd) ~> ~Ended(fd)

Expired(i) == i \in Slots /\ connections[i].last_activity > ConnTimeout

(* Provided destinations keep reading, connection_timeout is enforced as long  *)
(* as select() keeps returning, for an entry that has lost all its sockets     *)
(* (target not kept, attempts used up) too: its slot is free again.            *)
TimeoutUnderTraffic ==
  []<>(pc = "accept") => \A i \in 1 .. MaxClients : Expired(i) ~> ~Expired(i)

(* Provided destinations keep reading, a signal ends the loop with every       *)
(* socket closed: at the end of the pass it falls in, at once when it          *)
(* interrupts select(), and when it falls between the test of running and      *)
(* select(), where it is lost, as soon as a client calls.                      *)
ShutdownOnEvent ==
  ~running /\ (pc \notin {"scan", "select", "waiting"} \/ backlog > 0)
    ~> pc = "exit" /\ \A fd \in FDs : sock[fd] = "closed"
-----------------------------------------------------------------------------
(* What the loop implements *)

SessionOf(e) == [client |-> e.client_fd,
                 target |-> ({e.target_fd} \cup e.ht_conn) \ {NoFd}]

Sessions == INSTANCE SessionTable WITH
  Names       <- FDs,
  NoClient    <- NoFd,
  MaxSessions <- MaxClients,
  sessions    <- [i \in Slots |-> SessionOf(connections[i])],
  over        <- (pc = "exit")

(* Seen from its users the loop is a list of sessions: whatever happens, a     *)
(* step begins, ends or changes one of them, a client that comes is bound to   *)
(* the target of the oldest session that has one ready, as it is, and no new   *)
(* one is dialled while there is such a session.  Neither the compaction of    *)
(* the table in the middle of a pass nor the return of descriptor numbers      *)
(* shows.                                                                      *)
ImplementsSessions == Sessions!Spec
=============================================================================
