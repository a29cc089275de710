-------------------------- MODULE ForwarderProofs --------------------------
(***************************************************************************)
(* Machine-checked proofs about module Forwarder, for every value of its   *)
(* constants: any number of clients and descriptors, any configuration and *)
(* any behaviour of the peers.                                             *)
(***************************************************************************)
EXTENDS Forwarder, FiniteSetTheorems, TLAPS

-----------------------------------------------------------------------------
(* Types of the operators the actions are built from *)

LEMMA Constants ==
  /\ MaxClients \in Nat /\ MaxClients > 0
  /\ MaxFd \in Nat
  /\ ConnTimeout \in Nat /\ Grace \in Nat /\ MaxAttempts \in Nat
  /\ IdleCap \in Nat /\ DelaySeconds \in Nat
  /\ NoFd \notin FDs /\ ListenFd \notin FDs /\ NoFd # ListenFd
BY TableAssumption, ConfigAssumption DEF IdleCap, DelaySeconds, NoFd, ListenFd, FDs

LEMMA EntryFields ==
  ASSUME NEW e \in Entry
  PROVE  /\ e.client_fd \in FDs \cup {NoFd}
         /\ e.target_fd \in FDs \cup {NoFd}
         /\ e.ht_conn \in SUBSET FDs
         /\ FdsOf(e) \subseteq FDs
         /\ TcpFds(e) \subseteq FDs
BY DEF Entry, FdsOf, TcpFds

LEMMA LowestIn == ASSUME NEW S PROVE Lowest(S) \subseteq S
BY DEF Lowest

LEMMA SockTypes ==
  ASSUME sock \in [FDs -> SockState], NEW S
  PROVE  /\ Open(sock, S) \in [FDs -> SockState]
         /\ Close(sock, S) \in [FDs -> SockState]
BY DEF Open, Close, SockState

LEMMA HtSocketsIn ==
  ASSUME NEW fds \in HtSockets
  PROVE  fds \subseteq Free /\ fds \subseteq FDs /\ fds # {}
BY DEF HtSockets, Free

LEMMA EntryUpdates ==
  ASSUME NEW e \in Entry
  PROVE  /\ Touched(e) \in Entry
         /\ DisconnectedEntry(e) \in Entry
         /\ \A fd \in FDs : ResetForReuse([e EXCEPT !.client_fd = fd]) \in Entry
<1>0. 0 \in 0 .. IdleCap /\ 0 \in 0 .. DelaySeconds /\ 0 \in 0 .. MaxAttempts
  BY Constants
<1>1. Touched(e) \in Entry
  BY <1>0 DEF Touched, Entry
<1>2. DisconnectedEntry(e) \in Entry
  BY <1>0 DEF DisconnectedEntry, Entry
<1>3. ASSUME NEW fd \in FDs PROVE ResetForReuse([e EXCEPT !.client_fd = fd]) \in Entry
  BY <1>0 DEF ResetForReuse, Entry
<1> QED BY <1>1, <1>2, <1>3

LEMMA NewEntryType ==
  ASSUME NEW client \in FDs, NEW target \in FDs
  PROVE  NewEntry(client, target) \in Entry
BY Constants DEF NewEntry, Entry

LEMMA CleanupType ==
  ASSUME TypeOK, NEW i \in Slots, Cleanup(i)
  PROVE  /\ connection_count' \in 0 .. MaxClients
         /\ connection_count' = connection_count - 1
         /\ connections' \in [Slots' -> Entry]
         /\ sock' \in [FDs -> SockState]
BY SockTypes, Constants DEF TypeOK, Cleanup, Slots

LEMMA SetEntryType ==
  ASSUME TypeOK, NEW i \in Slots, NEW e \in Entry, SetEntry(i, e)
  PROVE  connections' \in [Slots' -> Entry] /\ connection_count' = connection_count
BY DEF TypeOK, SetEntry, Slots

-----------------------------------------------------------------------------
(* Type correctness.  accept() takes a client off the queue: that there is one *)
(* rests on select() having reported the listening socket, and on nobody else  *)
(* taking clients between the two.                                             *)

BacklogReady == pc = "accept" /\ ListenFd \in readfds => backlog > 0

\* What the actions outside the table leave to show.
Control ==
  /\ pc \in {"top", "scan", "select", "waiting", "accept", "client", "to_target",
             "target", "to_client", "exit"}
  /\ idx \in 1 .. (MaxClients + 1)
  /\ running \in BOOLEAN
  /\ readfds \subseteq FDs \cup {ListenFd}
  /\ served \subseteq FDs
  /\ backlog \in 0 .. MaxBacklog

Table ==
  /\ connection_count \in 0 .. MaxClients
  /\ connections \in [Slots -> Entry]
  /\ sock \in [FDs -> SockState]

TypeInv == Control /\ Table /\ BacklogReady

LEMMA TypeParts == TypeOK <=> Control /\ Table
BY DEF TypeOK, Control, Table

LEMMA TypeInit == Init => TypeInv
<1> SUFFICES ASSUME Init PROVE TypeInv
  OBVIOUS
<1>1. Control
  BY Constants, TableAssumption DEF Init, Control
<1>2. Table
  BY Constants DEF Init, Table, Slots, SockState
<1>3. BacklogReady
  BY DEF Init, BacklogReady
<1> QED BY <1>1, <1>2, <1>3 DEF TypeInv

LEMMA UnchangedTable ==
  ASSUME Table, UNCHANGED <<connection_count, connections, sock>>
  PROVE  Table'
BY DEF Table, Slots

LEMMA DropTable ==
  ASSUME TypeOK, idx \in Slots, Drop
  PROVE  Table' /\ pc' = "client" /\ idx' = idx
BY CleanupType, TypeParts DEF Drop, Goto, Table

LEMMA EType == ASSUME TypeOK, idx <= connection_count
               PROVE  idx \in Slots /\ E \in Entry
BY DEF TypeOK, Slots, E

LEMMA EntryStep ==   \* one entry and the sockets change, the count does not
  ASSUME TypeOK, NEW i \in Slots, NEW e \in Entry, SetEntry(i, e),
         sock' \in [FDs -> SockState]
  PROVE  Table'
BY SetEntryType, TypeParts DEF Table, Slots

LEMMA LoopControl ==   \* the loop's own variables, whatever the action
  ASSUME TypeInv, Loop PROVE Control' /\ BacklogReady'
<1> USE Constants DEF TypeInv, Table, Control, BacklogReady, Goto, vars
<1>1. CASE Top BY <1>1 DEF Top
<1>2. CASE Shutdown BY <1>2 DEF Shutdown
<1>3. CASE ScanSkip BY <1>3 DEF ScanSkip
<1>4. CASE TryReconnectTarget
  <2>1. /\ pc' = "scan" /\ idx' = idx + 1 /\ idx <= connection_count
        /\ UNCHANGED <<running, readfds, served, backlog>>
    BY <1>4 DEF TryReconnectTarget
  <2> QED BY <2>1
<1>5. CASE ScanEnd BY <1>5 DEF ScanEnd
<1>6. CASE EnterSelect
  <2>1. TcpSockets \subseteq FDs
    BY EntryFields DEF TcpSockets
  <2> QED BY <1>6, <2>1 DEF EnterSelect, EnterSelectOn
<1>7. CASE SelectReturns BY <1>7 DEF SelectReturns, Readable
<1>8. CASE NoAccept \/ AcceptFails \/ AcceptReuse \/ AcceptNew \/ AcceptRejects
  <2>1. /\ pc = "accept" /\ pc' = "client" /\ idx' = 1
        /\ UNCHANGED <<running, readfds, served>>
    BY <1>8 DEF NoAccept, AcceptFails, AcceptReuse, AcceptNew, AcceptNewUpTo,
                AcceptRejects, Accepting
  <2>2. backlog' = backlog \/ (ListenFd \in readfds /\ backlog' = backlog - 1)
    BY <1>8 DEF NoAccept, AcceptFails, AcceptReuse, AcceptNew, AcceptNewUpTo,
                AcceptRejects, Accepting
  <2>3. backlog' \in 0 .. MaxBacklog
    BY <2>1, <2>2, TableAssumption
  <2> QED BY <2>1, <2>3
<1>9. CASE PassEnd BY <1>9 DEF PassEnd
<1>10. CASE TimedOut BY <1>10 DEF TimedOut, InPass
<1>11. CASE ClientQuiet BY <1>11 DEF ClientQuiet, InPass
<1>12. ASSUME NEW outcome, ClientRecv(outcome)
       PROVE  /\ readfds' = readfds /\ running' = running /\ backlog' = backlog
              /\ served' \subseteq FDs
              /\ idx <= connection_count
  BY <1>12 DEF ClientRecv, InPass, Slots, E, Entry
<1>13. CASE ClientToTarget \/ ClientToHybrid \/ ClientEofKept \/ ClientEofDropped
              \/ ClientEofHybrid \/ ClientReset
  BY <1>12, <1>13 DEF ClientToTarget, ClientToHybrid, ClientEofKept,
     ClientEofDropped, ClientEofHybrid, ClientReset, Drop
<1>14. CASE TargetQuiet BY <1>14 DEF TargetQuiet, InPass
<1>15. ASSUME NEW outcomes, TargetRecv(outcomes)
       PROVE  /\ readfds' = readfds /\ running' = running /\ backlog' = backlog
              /\ served' \subseteq FDs
              /\ idx <= connection_count
  BY <1>15 DEF TargetRecv, InPass, Slots, E, Entry
<1>16. CASE TargetToClient \/ TargetLost
  BY <1>15, <1>16 DEF TargetToClient, TargetLost, Drop
<1>17. CASE SentToTarget \/ SentToClient
  BY <1>17 DEF SentToTarget, SentToClient, Sent, InPass
<1>18. CASE SendFails BY <1>18 DEF SendFails, InPass, Drop
<1>19. CASE HybridToClient BY <1>19 DEF HybridToClient, InPass, Drop
<1> QED BY <1>1, <1>2, <1>3, <1>4, <1>5, <1>6, <1>7, <1>8, <1>9, <1>10, <1>11,
           <1>13, <1>14, <1>16, <1>17, <1>18, <1>19 DEF Loop, Steps, Sends

LEMMA LoopTable ==   \* the table and the sockets, whatever the action
  ASSUME TypeInv, Loop PROVE Table'
<1> TypeOK /\ Table
  BY TypeParts DEF TypeInv
<1>1. CASE \/ Top \/ ScanSkip \/ ScanEnd \/ EnterSelect \/ SelectReturns \/ NoAccept
           \/ AcceptFails \/ AcceptRejects \/ PassEnd \/ ClientQuiet
           \/ ClientEofHybrid \/ TargetQuiet
  <2>1. UNCHANGED <<connection_count, connections, sock>>
    BY <1>1 DEF tableVars, Top, ScanSkip, ScanEnd, EnterSelect, EnterSelectOn,
         SelectReturns, NoAccept, AcceptFails, AcceptRejects, PassEnd, ClientQuiet,
         ClientEofHybrid, TargetQuiet
  <2> QED BY <2>1, UnchangedTable
<1>2. CASE Shutdown
  BY <1>2, SockTypes, Constants DEF Shutdown, Table, Slots
<1>3. CASE TryReconnectTarget
  <2>0. idx <= connection_count /\ connections[idx].reconnect_attempts < MaxAttempts
    BY <1>3 DEF TryReconnectTarget
  <2>1. idx \in Slots
    BY <2>0, EType
  <2> DEFINE e == [connections[idx] EXCEPT !.reconnect_attempts = @ + 1]
  <2>2. e \in Entry
    BY <2>0, <2>1, Constants DEF Table, Entry
  <2>3. CASE \E fds \in HtSockets :
                /\ SetEntry(idx, [e EXCEPT !.ht_conn = fds,
                                           !.use_hybrid_transport = TRUE,
                                           !.target_ready = TRUE])
                /\ sock' = Open(sock, fds)
    <3> PICK fds \in HtSockets :
                /\ SetEntry(idx, [e EXCEPT !.ht_conn = fds,
                                           !.use_hybrid_transport = TRUE,
                                           !.target_ready = TRUE])
                /\ sock' = Open(sock, fds)
      BY <2>3
    <3>1. [e EXCEPT !.ht_conn = fds, !.use_hybrid_transport = TRUE,
                    !.target_ready = TRUE] \in Entry
      <4> HIDE DEF e
      <4> QED BY <2>2, HtSocketsIn DEF Entry
    <3> QED BY <2>1, <3>1, SockTypes, EntryStep DEF Table
  <2>4. CASE \E fd \in Lowest(Free) :
                /\ SetEntry(idx, [e EXCEPT !.target_fd = fd, !.target_ready = TRUE])
                /\ sock' = Open(sock, {fd})
    <3> PICK fd \in Lowest(Free) :
                /\ SetEntry(idx, [e EXCEPT !.target_fd = fd, !.target_ready = TRUE])
                /\ sock' = Open(sock, {fd})
      BY <2>4
    <3>1. [e EXCEPT !.target_fd = fd, !.target_ready = TRUE] \in Entry
      <4> HIDE DEF e
      <4> QED BY <2>2, LowestIn DEF Entry, Free
    <3> QED BY <2>1, <3>1, SockTypes, EntryStep DEF Table
  <2>5. CASE SetEntry(idx, e) /\ UNCHANGED sock
    BY <2>1, <2>2, <2>5, EntryStep DEF Table
  <2> QED BY <1>3, <2>3, <2>4, <2>5 DEF TryReconnectTarget
<1>4. CASE AcceptReuse
  <2> PICK i \in Lowest(Standby), fd \in Lowest(Free) :
        /\ SetEntry(i, ResetForReuse([connections[i] EXCEPT !.client_fd = fd]))
        /\ sock' = Open(sock, {fd})
    BY <1>4 DEF AcceptReuse
  <2>1. i \in Slots /\ fd \in FDs
    BY LowestIn DEF Standby, Free
  <2>2. ResetForReuse([connections[i] EXCEPT !.client_fd = fd]) \in Entry
    BY <2>1, EntryUpdates DEF Table
  <2> QED BY <2>1, <2>2, SockTypes, EntryStep DEF Table
<1>5. CASE AcceptNew
  <2> PICK client \in Lowest(Free) : \E target \in Lowest(Free \ {client}) :
       /\ connections' = [j \in 1 .. (connection_count + 1) |->
                            IF j <= connection_count THEN connections[j]
                                                     ELSE NewEntry(client, target)]
       /\ connection_count' = connection_count + 1
       /\ sock' = Open(sock, {client, target})
    BY <1>5 DEF AcceptNew, AcceptNewUpTo
  <2> PICK target \in Lowest(Free \ {client}) :
       /\ connections' = [j \in 1 .. (connection_count + 1) |->
                            IF j <= connection_count THEN connections[j]
                                                     ELSE NewEntry(client, target)]
       /\ connection_count' = connection_count + 1
       /\ sock' = Open(sock, {client, target})
    OBVIOUS
  <2>1. client \in FDs /\ target \in FDs
    BY LowestIn DEF Free
  <2>2. NewEntry(client, target) \in Entry
    BY <2>1, NewEntryType
  <2>3. connection_count < MaxClients
    BY <1>5 DEF AcceptNew, AcceptNewUpTo
  <2>4. sock' \in [FDs -> SockState]
    BY SockTypes DEF Table
  <2>5. connection_count' \in 0 .. MaxClients
    BY <2>3, Constants DEF Table
  <2>6. connections' \in [1 .. (connection_count + 1) -> Entry]
    BY <2>2, Constants DEF Table, Slots
  <2> QED BY <2>4, <2>5, <2>6 DEF Table, Slots
<1>6. CASE TimedOut
  <2>1. idx \in Slots
    BY <1>6, EType DEF TimedOut, InPass
  <2> QED BY <1>6, <2>1, CleanupType DEF TimedOut, Table
<1>7. ASSUME NEW outcome, ClientRecv(outcome)
      PROVE  idx \in Slots /\ E \in Entry /\ E.client_fd \in FDs
  BY <1>7, EType, EntryFields, Constants DEF ClientRecv, InPass, TypeOK
<1>8. CASE ClientToTarget
  <2>1. E.client_fd \in FDs
    BY <1>7, <1>8 DEF ClientToTarget
  <2> QED BY <1>8, <2>1 DEF ClientToTarget, Consume, Table, SockState, tableVars, Slots
<1>9. CASE ClientToHybrid
  <2>1. idx \in Slots /\ E \in Entry /\ E.client_fd \in FDs
    BY <1>7, <1>9 DEF ClientToHybrid
  <2>2. sock' \in [FDs -> SockState]
    BY <2>1, <1>9 DEF ClientToHybrid, Consume, Table, SockState
  <2>3. CASE SetEntry(idx, Touched(E))
    BY <2>1, <2>2, <2>3, EntryUpdates, EntryStep
  <2>4. CASE SetEntry(idx, E)
    BY <2>1, <2>2, <2>4, EntryStep
  <2> QED BY <1>9, <2>3, <2>4 DEF ClientToHybrid
<1>10. CASE ClientEofKept
  <2>1. idx \in Slots /\ E \in Entry
    BY <1>7, <1>10 DEF ClientEofKept
  <2> QED BY <2>1, <1>10, EntryUpdates, EntryStep, SockTypes DEF ClientEofKept, Table
<1>11. CASE ClientEofDropped \/ ClientReset
  BY <1>7, <1>11, DropTable DEF ClientEofDropped, ClientReset
<1>12. ASSUME NEW outcomes, TargetRecv(outcomes)
      PROVE  idx \in Slots /\ E \in Entry /\ E.target_fd \in FDs
  BY <1>12, EType, EntryFields, Constants DEF TargetRecv, InPass, TypeOK
<1>13. CASE TargetToClient
  <2>1. E.target_fd \in FDs
    BY <1>12, <1>13 DEF TargetToClient
  <2> QED BY <1>13, <2>1 DEF TargetToClient, Consume, Table, SockState, tableVars, Slots
<1>14. CASE TargetLost
  BY <1>12, <1>14, DropTable DEF TargetLost
<1>15. CASE HybridToClient
  <2>1. idx \in Slots /\ E \in Entry
    BY <1>15, EType DEF HybridToClient, InPass
  <2>2. CASE Drop
    BY <2>1, <2>2, DropTable
  <2>3. CASE SetEntry(idx, Touched(E)) /\ UNCHANGED sock
    BY <2>1, <2>3, EntryUpdates, EntryStep DEF Table
  <2>4. CASE UNCHANGED <<tableVars, sock>>
    BY <2>4, UnchangedTable DEF tableVars
  <2> QED BY <1>15, <2>2, <2>3, <2>4 DEF HybridToClient
<1>16. CASE SentToTarget \/ SentToClient
  <2>1. /\ idx \in Slots /\ E \in Entry
        /\ SetEntry(idx, Touched(E)) /\ UNCHANGED sock
    BY <1>16, EType DEF SentToTarget, SentToClient, Sent, InPass
  <2> QED BY <2>1, EntryUpdates, EntryStep DEF Table
<1>17. CASE SendFails
  BY <1>17, EType, DropTable DEF SendFails, InPass
<1> QED BY <1>1, <1>2, <1>3, <1>4, <1>5, <1>6, <1>8, <1>9, <1>10, <1>11, <1>13,
           <1>14, <1>15, <1>16, <1>17 DEF Loop, Steps, Sends

LEMMA OlderIn == ASSUME NEW bound \in Nat, NEW age \in 0 .. bound
                 PROVE  Older(age, bound) \in 0 .. bound
BY DEF Older

LEMMA WorldType ==   \* the clients, the peers, the operator and the clock
  ASSUME TypeInv, World PROVE TypeInv'
<1> Control /\ Table /\ BacklogReady
  BY DEF TypeInv
<1>1. CASE ClientArrives
  BY <1>1, UnchangedTable, TableAssumption
  DEF ClientArrives, Control, BacklogReady, TypeInv, tableVars
<1>2. ASSUME NEW fd \in TcpSockets, PeerActs(fd) PROVE TypeInv'
  <2>1. sock' \in [FDs -> SockState]
    BY <1>2, TableAssumption DEF PeerActs, Table, SockState
  <2>2. Table'
    BY <1>2, <2>1 DEF PeerActs, Table, tableVars, Slots
  <2> QED BY <1>2, <2>2 DEF PeerActs, Control, BacklogReady, TypeInv
<1>3. CASE Signal
  BY <1>3, UnchangedTable
  DEF Signal, Control, BacklogReady, TypeInv, tableVars
<1>4. CASE Tick
  <2> DEFINE Aged(e) ==
        [e EXCEPT !.last_activity = Older(@, IdleCap),
                  !.disconnect_time = IF e.client_disconnected
                                      THEN Older(@, DelaySeconds) ELSE @]
  <2>1. ASSUME NEW e \in Entry PROVE Aged(e) \in Entry
    <3>1. Older(e.last_activity, IdleCap) \in 0 .. IdleCap
      BY OlderIn, Constants DEF Entry
    <3>2. Older(e.disconnect_time, DelaySeconds) \in 0 .. DelaySeconds
      BY OlderIn, Constants DEF Entry
    <3> QED BY <3>1, <3>2 DEF Entry
  <2>2. connections' = [i \in Slots |-> Aged(connections[i])]
    BY <1>4 DEF Tick
  <2>3. connections' \in [Slots -> Entry]
    <3> HIDE DEF Aged
    <3> QED BY <2>1, <2>2 DEF Table
  <2>4. Table'
    BY <1>4, <2>3 DEF Tick, Table, Slots
  <2> QED BY <1>4, <2>4 DEF Tick, Control, BacklogReady, TypeInv
<1> QED BY <1>1, <1>2, <1>3, <1>4 DEF World

LEMMA TypeStep == TypeInv /\ [Next]_vars => TypeInv'
<1> SUFFICES ASSUME TypeInv, [Next]_vars PROVE TypeInv'
  OBVIOUS
<1>1. CASE Loop
  BY <1>1, LoopControl, LoopTable DEF TypeInv
<1>2. CASE World
  BY <1>2, WorldType
<1>3. CASE UNCHANGED vars
  BY <1>3, UnchangedTable DEF vars, TypeInv, Control, BacklogReady
<1> QED BY <1>1, <1>2, <1>3 DEF Next

(* Every reachable state is well typed: the table never holds more than       *)
(* max_clients entries, and the loop variable never runs past their end.      *)
THEOREM TypeCorrect == Spec => []TypeOK
<1>1. Init => TypeInv
  BY TypeInit
<1>2. TypeInv /\ [Next]_vars => TypeInv'
  BY TypeStep
<1>3. TypeInv => TypeOK
  BY TypeParts DEF TypeInv
<1> QED BY <1>1, <1>2, <1>3, PTL DEF Spec

-----------------------------------------------------------------------------
(* Descriptors and flags.  FdOwnership is not inductive alone: that a reused   *)
(* or redialled entry forgets no socket rests on its flags (a standby entry    *)
(* has no client, an entry to be redialled has no target), which is            *)
(* EntryConsistent; and neither holds of an entry outside its type.            *)

OwnInv == TypeInv /\ FdOwnership /\ EntryConsistent

LEMMA EntryFdsDisjointParts ==
  ASSUME NEW e \in Entry
  PROVE  FdsOf(e) = TcpFds(e) \cup e.ht_conn
BY Constants DEF FdsOf, TcpFds, Entry

\* One entry drops the sockets gone and gains the sockets new; the rest is as before.
Replaced(i, e, gone, new) ==
  /\ i \in Slots /\ e \in Entry /\ SetEntry(i, e)
  /\ gone \subseteq FdsOf(connections[i]) /\ new \subseteq Free
  /\ FdsOf(e) = (FdsOf(connections[i]) \ gone) \cup new
  /\ \A fd \in FDs : sock'[fd] # "closed" <=>
                         fd \in new \/ (sock[fd] # "closed" /\ fd \notin gone)
  /\ OneRole(e) /\ Truthful(e)

LEMMA ReplaceEntry ==
  ASSUME OwnInv, NEW i, NEW e, NEW gone, NEW new, Replaced(i, e, gone, new)
  PROVE  FdOwnership' /\ EntryConsistent'
<1> /\ i \in Slots /\ e \in Entry /\ SetEntry(i, e)
    /\ gone \subseteq FdsOf(connections[i]) /\ new \subseteq Free
    /\ FdsOf(e) = (FdsOf(connections[i]) \ gone) \cup new
    /\ \A fd \in FDs : sock'[fd] # "closed" <=>
                           fd \in new \/ (sock[fd] # "closed" /\ fd \notin gone)
    /\ OneRole(e) /\ Truthful(e)
  BY DEF Replaced
<1>1. Slots' = Slots /\ connections'[i] = e
      /\ \A j \in Slots : j # i => connections'[j] = connections[j]
  BY DEF SetEntry, Slots, OwnInv, TypeInv, Table
<1>2. \A j \in Slots : FdsOf(connections[j]) \subseteq FDs \ Free
  BY EntryFields DEF OwnInv, TypeInv, Table, FdOwnership, NoDangling, Free
<1>3. \A j \in Slots : j # i => FdsOf(connections[j]) \cap FdsOf(connections[i]) = {}
  BY DEF OwnInv, FdOwnership, NoSharing
<1>4. FdsOf(e) \subseteq FDs
  BY EntryFields
<1>5. NoLeak'
  <2> SUFFICES ASSUME NEW fd \in FDs, sock'[fd] # "closed"
               PROVE  \E j \in Slots : fd \in FdsOf(connections'[j])
    BY <1>1 DEF NoLeak, FdsOf
  <2>1. CASE fd \in new
    BY <1>1, <2>1
  <2>2. CASE sock[fd] # "closed" /\ fd \notin gone
    <3> PICK j \in Slots : fd \in FdsOf(connections[j])
      BY <2>2 DEF OwnInv, FdOwnership, NoLeak
    <3> QED BY <1>1, <2>2
  <2> QED BY <2>1, <2>2
<1>6. NoDangling'
  <2> SUFFICES ASSUME NEW j \in Slots, NEW fd \in FdsOf(connections'[j])
               PROVE  sock'[fd] # "closed"
    BY <1>1 DEF NoDangling, FdsOf
  <2>1. CASE j = i
    BY <1>1, <1>2, <1>4, <2>1 DEF Free
  <2>2. CASE j # i
    BY <1>1, <1>2, <1>3, <2>2 DEF Free
  <2> QED BY <2>1, <2>2
<1>7. NoSharing'
  <2> SUFFICES ASSUME NEW j \in Slots, NEW k \in Slots, j # k
               PROVE  FdsOf(connections'[j]) \cap FdsOf(connections'[k]) = {}
    BY <1>1 DEF NoSharing, FdsOf
  <2>1. FdsOf(connections[j]) \cap FdsOf(connections[k]) = {}
    BY DEF OwnInv, FdOwnership, NoSharing
  <2>2. \A m \in Slots : FdsOf(connections[m]) \cap new = {}
    BY <1>2
  <2> QED BY <1>1, <2>1, <2>2
<1>8. \A j \in Slots : OneRole(connections'[j]) /\ Truthful(connections'[j])
  BY <1>1 DEF OwnInv, FdOwnership, EntryConsistent
<1> QED BY <1>1, <1>5, <1>6, <1>7, <1>8
        DEF FdOwnership, EntryConsistent, OneRole, Truthful, HasTarget

\* An entry is cleaned up, the ones behind it move down.
LEMMA CleanupKeeps ==
  ASSUME OwnInv, NEW i \in Slots, Cleanup(i)
  PROVE  FdOwnership' /\ EntryConsistent'
<1> DEFINE from(j) == IF j < i THEN j ELSE j + 1
<1>1. /\ Slots' = 1 .. (connection_count - 1)
      /\ \A j \in Slots' : from(j) \in Slots /\ from(j) # i
                           /\ connections'[j] = connections[from(j)]
      /\ \A j, k \in Slots' : j # k => from(j) # from(k)
  BY DEF Cleanup, Slots, OwnInv, TypeInv, Table
<1>2. \A k \in Slots : k # i => \E j \in Slots' : connections'[j] = connections[k]
  <2> SUFFICES ASSUME NEW k \in Slots, k # i
               PROVE  \E j \in Slots' : connections'[j] = connections[k]
    OBVIOUS
  <2>0. /\ connection_count \in Int
        /\ i \in Int /\ 1 <= i /\ i <= connection_count
        /\ k \in Int /\ 1 <= k /\ k <= connection_count
    BY DEF Slots, OwnInv, TypeInv, Table
  <2>1. CASE k < i
    <3>1. k \in 1 .. (connection_count - 1) /\ from(k) = k
      BY <2>0, <2>1
    <3> QED BY <3>1, <1>1
  <2>2. CASE k > i
    <3>1. k - 1 \in 1 .. (connection_count - 1) /\ from(k - 1) = k
      BY <2>0, <2>2
    <3> QED BY <3>1, <1>1
  <2> QED BY <2>0, <2>1, <2>2
<1> HIDE DEF from
<1>3. \A fd \in FDs : sock'[fd] # "closed" <=>
                        sock[fd] # "closed" /\ fd \notin FdsOf(connections[i])
  BY DEF Cleanup, Close
<1>4. \A j \in Slots : FdsOf(connections[j]) \subseteq FDs
  BY EntryFields DEF OwnInv, TypeInv, Table
<1>5. NoLeak'
  <2> SUFFICES ASSUME NEW fd \in FDs, sock'[fd] # "closed"
               PROVE  \E j \in Slots' : fd \in FdsOf(connections'[j])
    BY DEF NoLeak, FdsOf
  <2> PICK k \in Slots : fd \in FdsOf(connections[k])
    BY <1>3 DEF OwnInv, FdOwnership, NoLeak
  <2> QED BY <1>2, <1>3
<1>6. NoDangling'
  <2> SUFFICES ASSUME NEW j \in Slots', NEW fd \in FdsOf(connections'[j])
               PROVE  sock'[fd] # "closed"
    BY DEF NoDangling, FdsOf
  <2> QED BY <1>1, <1>3, <1>4 DEF OwnInv, FdOwnership, NoDangling, NoSharing
<1>7. NoSharing'
  <2> SUFFICES ASSUME NEW j \in Slots', NEW k \in Slots', j # k
               PROVE  FdsOf(connections'[j]) \cap FdsOf(connections'[k]) = {}
    BY DEF NoSharing, FdsOf
  <2> QED BY <1>1 DEF OwnInv, FdOwnership, NoSharing
<1>8. \A j \in Slots' : OneRole(connections'[j]) /\ Truthful(connections'[j])
  BY <1>1 DEF OwnInv, FdOwnership, EntryConsistent
<1> QED BY <1>5, <1>6, <1>7, <1>8
        DEF FdOwnership, EntryConsistent, OneRole, Truthful, HasTarget

\* A new entry is appended with two sockets just opened.
LEMMA AppendKeeps ==
  ASSUME OwnInv, AcceptNew
  PROVE  FdOwnership' /\ EntryConsistent'
<1> PICK client \in Lowest(Free) : \E target \in Lowest(Free \ {client}) :
     /\ connections' = [j \in 1 .. (connection_count + 1) |->
                          IF j <= connection_count THEN connections[j]
                                                   ELSE NewEntry(client, target)]
     /\ connection_count' = connection_count + 1
     /\ sock' = Open(sock, {client, target})
  BY DEF AcceptNew, AcceptNewUpTo
<1> PICK target \in Lowest(Free \ {client}) :
     /\ connections' = [j \in 1 .. (connection_count + 1) |->
                          IF j <= connection_count THEN connections[j]
                                                   ELSE NewEntry(client, target)]
     /\ connection_count' = connection_count + 1
     /\ sock' = Open(sock, {client, target})
  OBVIOUS
<1> DEFINE e == NewEntry(client, target)
           last == connection_count + 1
<1>1. /\ client \in Free /\ target \in Free /\ client # target
      /\ client # NoFd /\ target # NoFd
  BY Constants DEF Lowest, Free
<1>2. FdsOf(e) = {client, target} /\ OneRole(e) /\ Truthful(e)
  BY <1>1 DEF NewEntry, FdsOf, OneRole, Truthful, HasTarget
<1>3. /\ Slots' = Slots \cup {last} /\ last \notin Slots
      /\ connections'[last] = e
      /\ \A j \in Slots : connections'[j] = connections[j]
  BY DEF Slots, OwnInv, TypeInv, Table
<1> HIDE DEF e, last
<1>4. \A fd \in FDs : sock'[fd] # "closed" <=>
                        sock[fd] # "closed" \/ fd \in {client, target}
  BY DEF Open
<1>5. \A j \in Slots : FdsOf(connections[j]) \subseteq FDs \ Free
  BY EntryFields DEF OwnInv, TypeInv, Table, FdOwnership, NoDangling, Free
<1>6. NoLeak'
  <2> SUFFICES ASSUME NEW fd \in FDs, sock'[fd] # "closed"
               PROVE  \E j \in Slots' : fd \in FdsOf(connections'[j])
    BY DEF NoLeak, FdsOf
  <2>1. CASE fd \in {client, target}
    BY <1>2, <1>3, <2>1
  <2>2. CASE sock[fd] # "closed"
    BY <1>3, <2>2 DEF OwnInv, FdOwnership, NoLeak
  <2> QED BY <1>4, <2>1, <2>2
<1>7. NoDangling'
  <2> SUFFICES ASSUME NEW j \in Slots', NEW fd \in FdsOf(connections'[j])
               PROVE  sock'[fd] # "closed"
    BY DEF NoDangling, FdsOf
  <2>1. CASE j = last
    BY <1>1, <1>2, <1>3, <1>4, <2>1 DEF Free
  <2>2. CASE j \in Slots
    BY <1>3, <1>4, <1>5, <2>2 DEF Free
  <2> QED BY <1>3, <2>1, <2>2
<1>8. NoSharing'
  <2> SUFFICES ASSUME NEW j \in Slots', NEW k \in Slots', j # k
               PROVE  FdsOf(connections'[j]) \cap FdsOf(connections'[k]) = {}
    BY DEF NoSharing, FdsOf
  <2>1. CASE j \in Slots /\ k \in Slots
    BY <1>3, <2>1 DEF OwnInv, FdOwnership, NoSharing
  <2>2. CASE j = last \/ k = last
    BY <1>1, <1>2, <1>3, <1>5, <2>2
  <2> QED BY <1>3, <2>1, <2>2
<1>9. \A j \in Slots' : OneRole(connections'[j]) /\ Truthful(connections'[j])
  BY <1>2, <1>3 DEF OwnInv, FdOwnership, EntryConsistent
<1> QED BY <1>6, <1>7, <1>8, <1>9
        DEF FdOwnership, EntryConsistent, OneRole, Truthful, HasTarget

\* Nothing happens to the ownership of a descriptor, whatever else changes.
LEMMA SameOwnership ==
  ASSUME OwnInv, connection_count' = connection_count,
         \A i \in Slots : /\ FdsOf(connections'[i]) = FdsOf(connections[i])
                          /\ OneRole(connections'[i]) /\ Truthful(connections'[i]),
         \A fd \in FDs : sock'[fd] # "closed" <=> sock[fd] # "closed"
  PROVE  FdOwnership' /\ EntryConsistent'
<1>1. Slots' = Slots
  BY DEF Slots
<1>2. \A i \in Slots : FdsOf(connections[i]) \subseteq FDs
  BY EntryFields DEF OwnInv, TypeInv, Table
<1>3. NoLeak' /\ NoDangling' /\ NoSharing'
  BY <1>1, <1>2 DEF OwnInv, FdOwnership, NoLeak, NoDangling, NoSharing, FdsOf
<1> QED BY <1>1, <1>3
        DEF FdOwnership, EntryConsistent, OneRole, Truthful, HasTarget

LEMMA SameTable ==
  ASSUME OwnInv, UNCHANGED tableVars,
         \A fd \in FDs : sock'[fd] # "closed" <=> sock[fd] # "closed"
  PROVE  FdOwnership' /\ EntryConsistent'
BY SameOwnership DEF tableVars, OwnInv, FdOwnership, EntryConsistent

LEMMA TouchedKeeps ==   \* a transfer: one entry is fresh again, one socket is read
  ASSUME OwnInv, NEW i \in Slots,
         SetEntry(i, Touched(connections[i])) \/ SetEntry(i, connections[i]),
         \A fd \in FDs : sock'[fd] # "closed" <=> sock[fd] # "closed"
  PROVE  FdOwnership' /\ EntryConsistent'
<1>1. connections[i] \in Entry
  BY DEF OwnInv, TypeInv, Table
<1>2. /\ FdsOf(Touched(connections[i])) = FdsOf(connections[i])
      /\ OneRole(Touched(connections[i])) <=> OneRole(connections[i])
      /\ Truthful(Touched(connections[i])) <=> Truthful(connections[i])
  BY <1>1 DEF Touched, FdsOf, OneRole, Truthful, HasTarget, Entry
<1>3. /\ connection_count' = connection_count
      /\ \A j \in Slots : j # i => connections'[j] = connections[j]
      /\ connections'[i] \in {Touched(connections[i]), connections[i]}
  BY DEF SetEntry, OwnInv, TypeInv, Table
<1>4. \A j \in Slots : OneRole(connections[j]) /\ Truthful(connections[j])
  BY DEF OwnInv, FdOwnership, EntryConsistent
<1>5. \A j \in Slots : /\ FdsOf(connections'[j]) = FdsOf(connections[j])
                       /\ OneRole(connections'[j]) /\ Truthful(connections'[j])
  BY <1>2, <1>3, <1>4
<1> QED BY <1>3, <1>5, SameOwnership

\* try_reconnect_target() works on an entry that holds nothing at all.
LEMMA RedialKeeps ==
  ASSUME OwnInv, TryReconnectTarget
  PROVE  FdOwnership' /\ EntryConsistent'
<1> DEFINE c == connections[idx]
           e == [c EXCEPT !.reconnect_attempts = @ + 1]
<1>1. idx \in Slots /\ c \in Entry /\ WantsReconnect(c)
  BY EType, TypeParts DEF TryReconnectTarget, OwnInv, TypeInv, Table
<1>2. /\ c.client_fd = NoFd /\ c.target_fd = NoFd /\ c.ht_conn = {}
      /\ c.client_disconnected /\ ~c.use_hybrid_transport /\ ~c.target_ready
  BY <1>1 DEF WantsReconnect, OwnInv, EntryConsistent, Truthful, HasTarget
<1>3. /\ e.client_fd = NoFd /\ e.target_fd = NoFd /\ e.ht_conn = {}
      /\ e.client_disconnected = TRUE /\ e.use_hybrid_transport = FALSE
      /\ e.target_ready = FALSE /\ e.reconnect_attempts \in 0 .. MaxAttempts
      /\ e \in Entry
  <2>1. c.reconnect_attempts \in 0 .. MaxAttempts /\ c.reconnect_attempts < MaxAttempts
    BY <1>1 DEF TryReconnectTarget, Entry
  <2> QED BY <1>1, <1>2, <2>1, Constants DEF Entry
<1>4. FdsOf(c) = {}
  BY <1>2 DEF FdsOf
<1>5. CASE \E fds \in HtSockets :
             /\ SetEntry(idx, [e EXCEPT !.ht_conn = fds,
                                        !.use_hybrid_transport = TRUE,
                                        !.target_ready = TRUE])
             /\ sock' = Open(sock, fds)
  <2> PICK fds \in HtSockets :
             /\ SetEntry(idx, [e EXCEPT !.ht_conn = fds,
                                        !.use_hybrid_transport = TRUE,
                                        !.target_ready = TRUE])
             /\ sock' = Open(sock, fds)
    BY <1>5
  <2> DEFINE f == [e EXCEPT !.ht_conn = fds, !.use_hybrid_transport = TRUE,
                            !.target_ready = TRUE]
  <2>1. fds \subseteq Free /\ fds \subseteq FDs /\ fds # {}
    BY HtSocketsIn
  <2>2. /\ f \in Entry /\ f.client_fd = NoFd /\ f.target_fd = NoFd /\ f.ht_conn = fds
        /\ f.client_disconnected = TRUE /\ f.use_hybrid_transport = TRUE
        /\ f.target_ready = TRUE
    <3> HIDE DEF e
    <3> QED BY <1>3, <2>1 DEF Entry
  <2>3. SetEntry(idx, f)
    OBVIOUS
  <2> HIDE DEF e, f
  <2>4. FdsOf(f) = (FdsOf(c) \ {}) \cup fds /\ OneRole(f) /\ Truthful(f)
    BY <1>4, <2>1, <2>2, Constants DEF FdsOf, OneRole, Truthful, HasTarget
  <2>5. \A fd \in FDs : sock'[fd] # "closed" <=>
                          fd \in fds \/ (sock[fd] # "closed" /\ fd \notin {})
    BY DEF Open
  <2>6. Replaced(idx, f, {}, fds)
    BY <1>1, <2>1, <2>2, <2>3, <2>4, <2>5 DEF Replaced
  <2> QED BY <2>6, ReplaceEntry
<1>6. CASE \E fd \in Lowest(Free) :
             /\ SetEntry(idx, [e EXCEPT !.target_fd = fd, !.target_ready = TRUE])
             /\ sock' = Open(sock, {fd})
  <2> PICK fd \in Lowest(Free) :
             /\ SetEntry(idx, [e EXCEPT !.target_fd = fd, !.target_ready = TRUE])
             /\ sock' = Open(sock, {fd})
    BY <1>6
  <2> DEFINE f == [e EXCEPT !.target_fd = fd, !.target_ready = TRUE]
  <2>1. fd \in Free /\ fd \in FDs /\ fd # NoFd
    BY LowestIn, Constants DEF Free
  <2>2. /\ f \in Entry /\ f.client_fd = NoFd /\ f.target_fd = fd /\ f.ht_conn = {}
        /\ f.client_disconnected = TRUE /\ f.use_hybrid_transport = FALSE
        /\ f.target_ready = TRUE
    <3> HIDE DEF e
    <3> QED BY <1>3, <2>1 DEF Entry
  <2>3. SetEntry(idx, f)
    OBVIOUS
  <2> HIDE DEF e, f
  <2>4. FdsOf(f) = (FdsOf(c) \ {}) \cup {fd} /\ OneRole(f) /\ Truthful(f)
    BY <1>4, <2>1, <2>2 DEF FdsOf, OneRole, Truthful, HasTarget
  <2>5. \A x \in FDs : sock'[x] # "closed" <=>
                          x \in {fd} \/ (sock[x] # "closed" /\ x \notin {})
    BY DEF Open
  <2>6. Replaced(idx, f, {}, {fd})
    BY <1>1, <2>1, <2>2, <2>3, <2>4, <2>5 DEF Replaced
  <2> QED BY <2>6, ReplaceEntry
<1>7. CASE SetEntry(idx, e) /\ UNCHANGED sock
  <2> HIDE DEF e
  <2>1. FdsOf(e) = (FdsOf(c) \ {}) \cup {} /\ OneRole(e) /\ Truthful(e)
    BY <1>3, <1>4 DEF FdsOf, OneRole, Truthful, HasTarget
  <2>2. Replaced(idx, e, {}, {})
    BY <1>1, <1>3, <1>7, <2>1 DEF Replaced
  <2> QED BY <2>2, ReplaceEntry
<1> QED BY <1>5, <1>6, <1>7 DEF TryReconnectTarget

\* A standby entry has no client for the new one to replace.
LEMMA ReuseKeeps ==
  ASSUME OwnInv, AcceptReuse
  PROVE  FdOwnership' /\ EntryConsistent'
<1> PICK i \in Lowest(Standby), fd \in Lowest(Free) :
      /\ SetEntry(i, ResetForReuse([connections[i] EXCEPT !.client_fd = fd]))
      /\ sock' = Open(sock, {fd})
  BY DEF AcceptReuse
<1> DEFINE c == connections[i]
           f == ResetForReuse([c EXCEPT !.client_fd = fd])
<1>1. i \in Slots /\ c \in Entry /\ Reusable(i)
  BY LowestIn DEF Standby, OwnInv, TypeInv, Table
<1>2. fd \in Free /\ fd \in FDs /\ fd # NoFd
  BY LowestIn, Constants DEF Free
<1>3. c.client_fd = NoFd /\ HasTarget(c) /\ OneRole(c) /\ Truthful(c)
  BY <1>1 DEF Reusable, OwnInv, FdOwnership, EntryConsistent, Truthful
<1>4. fd \notin FdsOf(c)
  BY <1>1, <1>2 DEF OwnInv, FdOwnership, NoDangling, Free
<1>5. f \in Entry
  BY <1>1, <1>2, EntryUpdates
<1>6. /\ f.client_fd = fd /\ f.target_fd = c.target_fd /\ f.ht_conn = c.ht_conn
      /\ f.client_disconnected = FALSE /\ f.target_ready = FALSE
      /\ f.use_hybrid_transport = c.use_hybrid_transport
  BY <1>1 DEF ResetForReuse, Entry
<1>7. SetEntry(i, f)
  OBVIOUS
<1> HIDE DEF f
<1>8. FdsOf(f) = (FdsOf(c) \ {}) \cup {fd}
  BY <1>2, <1>3, <1>6 DEF FdsOf
<1>9. OneRole(f) /\ Truthful(f)
  BY <1>2, <1>3, <1>4, <1>6 DEF OneRole, Truthful, HasTarget, FdsOf
<1>10. \A x \in FDs : sock'[x] # "closed" <=>
                        x \in {fd} \/ (sock[x] # "closed" /\ x \notin {})
  BY DEF Open
<1>11. Replaced(i, f, {}, {fd})
  BY <1>1, <1>2, <1>5, <1>7, <1>8, <1>9, <1>10 DEF Replaced
<1> QED BY <1>11, ReplaceEntry

\* The client's own socket is closed, the target's only if it is not kept.
LEMMA DisconnectKeeps ==
  ASSUME OwnInv, ClientEofKept
  PROVE  FdOwnership' /\ EntryConsistent'
<1> DEFINE f == DisconnectedEntry(E)
           gone == FdsOf(E) \ FdsOf(f)
<1>1. idx \in Slots /\ E \in Entry /\ f \in Entry
  BY EType, EntryUpdates, TypeParts
  DEF ClientEofKept, ClientRecv, InPass, OwnInv, TypeInv
<1>2. E.client_fd # NoFd /\ ~E.use_hybrid_transport
  BY Constants DEF ClientEofKept, ClientRecv, OwnInv, TypeInv, Control
<1>3. OneRole(E) /\ Truthful(E)
  BY <1>1 DEF OwnInv, FdOwnership, EntryConsistent, E
<1>4. E.target_fd # NoFd /\ E.ht_conn = {}
  BY <1>2, <1>3 DEF Truthful, HasTarget
<1>5. /\ f.client_fd = NoFd /\ f.client_disconnected = TRUE /\ f.ht_conn = {}
      /\ f.use_hybrid_transport = FALSE
      /\ \/ f.target_fd = E.target_fd /\ f.target_ready = TRUE
         \/ f.target_fd = NoFd /\ f.target_ready = FALSE
  BY <1>1, <1>2, <1>4 DEF DisconnectedEntry, Entry
<1>6. SetEntry(idx, f) /\ sock' = Close(sock, gone)
  BY DEF ClientEofKept
<1> HIDE DEF f
<1>7. FdsOf(f) \subseteq FdsOf(E) /\ OneRole(f) /\ Truthful(f)
  BY <1>4, <1>5 DEF FdsOf, OneRole, Truthful, HasTarget
<1>8. FdsOf(f) = (FdsOf(connections[idx]) \ gone) \cup {}
  BY <1>7 DEF E
<1>9. \A x \in FDs : sock'[x] # "closed" <=>
                        x \in {} \/ (sock[x] # "closed" /\ x \notin gone)
  BY <1>6 DEF Close
<1>10. Replaced(idx, f, gone, {})
  BY <1>1, <1>6, <1>7, <1>8, <1>9 DEF Replaced, E
<1> HIDE DEF gone
<1> QED BY <1>10, ReplaceEntry

LEMMA OwnStep == OwnInv /\ [Next]_vars => FdOwnership' /\ EntryConsistent'
<1> SUFFICES ASSUME OwnInv, [Next]_vars PROVE FdOwnership' /\ EntryConsistent'
  OBVIOUS
<1> TypeInv /\ TypeOK /\ Table
  BY TypeParts DEF OwnInv, TypeInv
<1>1. ASSUME UNCHANGED <<tableVars, sock>> PROVE FdOwnership' /\ EntryConsistent'
  BY <1>1, SameTable
<1>2. CASE \/ Top \/ ScanSkip \/ ScanEnd \/ EnterSelect \/ SelectReturns \/ NoAccept
           \/ AcceptFails \/ AcceptRejects \/ PassEnd \/ ClientQuiet
           \/ ClientEofHybrid \/ TargetQuiet \/ ClientArrives \/ Signal
           \/ UNCHANGED vars
  <2>1. UNCHANGED <<tableVars, sock>>
    BY <1>2 DEF vars, tableVars, Top, ScanSkip, ScanEnd, EnterSelect, EnterSelectOn,
         SelectReturns, NoAccept, AcceptFails, AcceptRejects, PassEnd, ClientQuiet,
         ClientEofHybrid, TargetQuiet, ClientArrives, Signal
  <2> QED BY <2>1, <1>1
<1>3. CASE Shutdown
  <2>1. Slots' = {}
    BY <1>3 DEF Shutdown, Slots
  <2>2. \A fd \in FDs : sock'[fd] = "closed"
    BY <1>3 DEF Shutdown, Close, OwnInv, FdOwnership, NoLeak
  <2> QED BY <2>1, <2>2 DEF FdOwnership, NoLeak, NoDangling, NoSharing, EntryConsistent
<1>4. ASSUME idx <= connection_count, Drop PROVE FdOwnership' /\ EntryConsistent'
  BY <1>4, EType, CleanupKeeps DEF Drop
<1>5. CASE TimedOut
  BY <1>5, EType, CleanupKeeps DEF TimedOut, InPass
<1>6. ASSUME NEW outcome, ClientRecv(outcome), outcome # "closed"
      PROVE  /\ idx <= connection_count /\ idx \in Slots /\ E.client_fd \in FDs
             /\ \A fd \in FDs :
                  Consume(sock, E.client_fd)[fd] # "closed" <=> sock[fd] # "closed"
  BY <1>6, EType, EntryFields, Constants
  DEF ClientRecv, InPass, TypeOK, Consume
<1>7. CASE ClientToTarget
  BY <1>6, <1>7, SameTable DEF ClientToTarget
<1>8. CASE ClientToHybrid
  <2>1. SetEntry(idx, Touched(E)) \/ SetEntry(idx, E)
    BY <1>8 DEF ClientToHybrid
  <2> QED BY <1>6, <1>8, <2>1, TouchedKeeps DEF ClientToHybrid, E
<1>9. CASE ClientEofDropped \/ ClientReset
  BY <1>4, <1>6, <1>9 DEF ClientEofDropped, ClientReset
<1>10. ASSUME NEW outcomes, TargetRecv(outcomes), "closed" \notin outcomes
      PROVE  /\ idx <= connection_count /\ idx \in Slots /\ E.target_fd \in FDs
             /\ \A fd \in FDs :
                  Consume(sock, E.target_fd)[fd] # "closed" <=> sock[fd] # "closed"
  BY <1>10, EType, EntryFields, Constants
  DEF TargetRecv, InPass, TypeOK, Consume
<1>11. CASE TargetToClient
  BY <1>10, <1>11, SameTable DEF TargetToClient
<1>12. CASE TargetLost
  BY <1>4, <1>10, <1>12 DEF TargetLost
<1>13. CASE HybridToClient
  <2>1. idx <= connection_count /\ idx \in Slots
    BY <1>13, EType DEF HybridToClient, InPass
  <2>2. CASE SetEntry(idx, Touched(E)) /\ UNCHANGED sock
    BY <2>1, <2>2, TouchedKeeps DEF E
  <2> QED BY <1>1, <1>4, <1>13, <2>1, <2>2 DEF HybridToClient
<1>14. ASSUME NEW fd \in TcpSockets, PeerActs(fd) PROVE FdOwnership' /\ EntryConsistent'
  <2>1. \A x \in FDs : sock'[x] # "closed" <=> sock[x] # "closed"
    BY <1>14, TableAssumption DEF PeerActs, Table
  <2> QED BY <1>14, <2>1, SameTable DEF PeerActs
<1>15. CASE Tick
  <2>1. \A i \in Slots : LET c == connections[i]  d == connections'[i] IN
          /\ d.client_fd = c.client_fd /\ d.target_fd = c.target_fd
          /\ d.ht_conn = c.ht_conn /\ d.use_hybrid_transport = c.use_hybrid_transport
          /\ d.client_disconnected = c.client_disconnected
          /\ d.target_ready = c.target_ready
    BY <1>15 DEF Tick, Table, Entry
  <2>2. \A i \in Slots : OneRole(connections[i]) /\ Truthful(connections[i])
    BY DEF OwnInv, FdOwnership, EntryConsistent
  <2>3. \A i \in Slots : /\ FdsOf(connections'[i]) = FdsOf(connections[i])
                         /\ OneRole(connections'[i]) /\ Truthful(connections'[i])
    BY <2>1, <2>2 DEF FdsOf, OneRole, Truthful, HasTarget
  <2> QED BY <1>15, <2>3, SameOwnership DEF Tick
<1>16. CASE SentToTarget \/ SentToClient
  <2>1. idx \in Slots /\ SetEntry(idx, Touched(E)) /\ UNCHANGED sock
    BY <1>16, EType DEF SentToTarget, SentToClient, Sent, InPass
  <2> QED BY <2>1, TouchedKeeps DEF E
<1>17. CASE SendFails
  BY <1>4, <1>17 DEF SendFails, InPass
<1> QED BY <1>2, <1>3, <1>5, <1>7, <1>8, <1>9, <1>11, <1>12, <1>13, <1>14, <1>15,
           <1>16, <1>17,
           AppendKeeps, RedialKeeps, ReuseKeeps, DisconnectKeeps
        DEF Next, Loop, Steps, Sends, World

LEMMA OwnInitially == Init => FdOwnership /\ EntryConsistent
BY DEF Init, FdOwnership, NoLeak, NoDangling, NoSharing, EntryConsistent, Slots

LEMMA OwnInvariant == Spec => []OwnInv
<1>1. Init => OwnInv
  BY TypeInit, OwnInitially DEF OwnInv
<1>2. OwnInv /\ [Next]_vars => OwnInv'
  BY TypeStep, OwnStep DEF OwnInv
<1> QED BY <1>1, <1>2, PTL DEF Spec

(* Nothing leaks and nothing is shared: every open descriptor belongs to one  *)
(* entry in one role, and no entry names a closed one.                        *)
THEOREM DescriptorsOwned == Spec => []FdOwnership
<1>1. OwnInv => FdOwnership
  BY DEF OwnInv
<1> QED BY <1>1, OwnInvariant, PTL

(* The flags of every entry agree with the sockets it holds.                  *)
THEOREM FlagsTruthful == Spec => []EntryConsistent
<1>1. OwnInv => EntryConsistent
  BY DEF OwnInv
<1> QED BY <1>1, OwnInvariant, PTL

-----------------------------------------------------------------------------
(* What a single step may do *)

\* While select()'s answer is fresh it names only descriptors that are open.
BitsOpen == pc \in {"waiting", "accept"} =>
              \A fd \in readfds : fd = ListenFd \/ sock[fd] # "closed"

LEMMA WatchedAreOpen == OwnInv => \A fd \in TcpSockets : fd \in FDs /\ sock[fd] # "closed"
<1> SUFFICES ASSUME OwnInv, NEW i \in Slots, NEW fd \in TcpFds(connections[i])
             PROVE  fd \in FDs /\ sock[fd] # "closed"
  BY DEF TcpSockets
<1>1. connections[i] \in Entry
  BY TypeParts DEF OwnInv, TypeInv, Table
<1> QED BY <1>1, EntryFields DEF OwnInv, FdOwnership, NoDangling, TcpFds, FdsOf

LEMMA BitsStep == OwnInv /\ BitsOpen /\ [Next]_vars => BitsOpen'
<1> SUFFICES ASSUME OwnInv, BitsOpen, [Next]_vars, pc' \in {"waiting", "accept"}
             PROVE  \A fd \in readfds' : fd = ListenFd \/ sock'[fd] # "closed"
  BY DEF BitsOpen
<1>1. CASE UNCHANGED vars
  BY <1>1 DEF vars, BitsOpen
<1>2. CASE Loop
  <2>1. EnterSelect \/ SelectReturns
    BY <1>2 DEF Loop, Steps, Sends, Goto, Top, Shutdown, ScanSkip, TryReconnectTarget, ScanEnd,
       NoAccept, Accepting, AcceptFails, AcceptReuse, AcceptNew, AcceptNewUpTo,
       AcceptRejects, PassEnd, TimedOut, ClientQuiet, ClientToTarget, ClientToHybrid,
       ClientEofKept, ClientEofDropped, ClientEofHybrid, ClientReset, TargetQuiet,
       TargetToClient, TargetLost, SentToTarget, SentToClient, SendFails,
       HybridToClient, Drop
  <2>2. CASE EnterSelect
    BY <2>2, WatchedAreOpen DEF EnterSelect, EnterSelectOn
  <2>3. CASE SelectReturns
    BY <2>3 DEF SelectReturns, BitsOpen
  <2> QED BY <2>1, <2>2, <2>3
<1>3. CASE World
  <2>1. pc' = pc /\ readfds' = readfds
    BY <1>3 DEF World, ClientArrives, PeerActs, Signal, Tick
  <2>2. \A fd \in readfds : sock[fd] # "closed" => sock'[fd] # "closed"
    <3>1. CASE ClientArrives \/ Signal \/ Tick
      BY <3>1 DEF ClientArrives, Signal, Tick
    <3>2. CASE \E fd \in TcpSockets : PeerActs(fd)
      BY <3>2, TypeParts, TableAssumption DEF PeerActs, OwnInv, TypeInv, Table
    <3> QED BY <1>3, <3>1, <3>2 DEF World
  <2> QED BY <2>1, <2>2 DEF BitsOpen
<1> QED BY <1>1, <1>2, <1>3 DEF Next

(* A descriptor opened while accepting is not one select()'s answer names.    *)
THEOREM BitsNameTheOld == Spec => NoStaleBit
<1> DEFINE Fresh == pc = "accept" =>
      \A fd \in FDs : sock[fd] # "empty" /\ sock'[fd] = "empty" => fd \notin readfds
<1>1. Init => BitsOpen
  BY DEF Init, BitsOpen
<1>2. OwnInv /\ BitsOpen /\ [Next]_vars => [Fresh]_vars
  <2> SUFFICES ASSUME OwnInv, BitsOpen, Next, pc = "accept",
                      NEW fd \in FDs, sock[fd] # "empty", sock'[fd] = "empty"
               PROVE  fd \notin readfds
    OBVIOUS
  <2> sock \in [FDs -> SockState] /\ fd # ListenFd
    BY TypeParts, Constants DEF OwnInv, TypeInv, Table
  <2>1. sock[fd] = "closed" => fd \notin readfds
    BY DEF BitsOpen
  <2>2. CASE Loop
    <3>1. AcceptReuse \/ AcceptNew \/ UNCHANGED sock
      BY <2>2 DEF Loop, Steps, Sends, Goto, Top, Shutdown, ScanSkip, TryReconnectTarget, ScanEnd,
         EnterSelect, EnterSelectOn, SelectReturns,
         NoAccept, Accepting, AcceptFails, AcceptRejects, PassEnd, TimedOut, InPass,
         ClientQuiet, ClientRecv, ClientToTarget, ClientToHybrid,
         ClientEofKept, ClientEofDropped, ClientEofHybrid, ClientReset, TargetQuiet,
         TargetRecv, TargetToClient, TargetLost, SentToTarget, SentToClient, Sent,
         SendFails, HybridToClient
    <3>2. ASSUME NEW S \in SUBSET Free, sock' = Open(sock, S) PROVE fd \notin readfds
      BY <2>1, <3>2 DEF Open, Free
    <3>3. CASE AcceptReuse
      <4>1. PICK new \in Lowest(Free) : sock' = Open(sock, {new})
        BY <3>3 DEF AcceptReuse
      <4> QED BY <3>2, <4>1, LowestIn
    <3>4. CASE AcceptNew
      <4>1. PICK client \in Lowest(Free) : \E target \in Lowest(Free \ {client}) :
              sock' = Open(sock, {client, target})
        BY <3>4 DEF AcceptNew, AcceptNewUpTo
      <4>2. PICK target \in Lowest(Free \ {client}) : sock' = Open(sock, {client, target})
        BY <4>1
      <4>3. {client, target} \in SUBSET Free
        BY LowestIn
      <4> QED BY <3>2, <4>2, <4>3
    <3> QED BY <3>1, <3>3, <3>4
  <2>3. CASE World
    BY <2>3, TableAssumption DEF World, ClientArrives, PeerActs, Signal, Tick
  <2> QED BY <2>2, <2>3 DEF Next
<1> QED BY <1>1, <1>2, BitsStep, OwnInvariant, PTL DEF Spec, NoStaleBit

\* Where the socket of one entry ends up closed by what is done to another.
LEMMA OthersKeepTheirs ==
  ASSUME OwnInv, NEW i \in Slots, NEW j \in Slots, i # j
  PROVE  /\ FdsOf(connections[i]) \cap FdsOf(connections[j]) = {}
         /\ connections[j].target_fd # NoFd =>
              connections[j].target_fd \notin FdsOf(connections[i])
BY DEF OwnInv, FdOwnership, NoSharing, FdsOf

(* Between recv() and send() the entry at hand has the side it was read from. *)
InHand ==
  /\ pc = "to_target" /\ idx <= connection_count => E.client_fd # NoFd
  /\ pc = "to_client" /\ idx <= connection_count => E.target_fd \in served

LEMMA InHandStep == OwnInv /\ InHand /\ [Next]_vars => InHand'
<1> SUFFICES ASSUME OwnInv, InHand, [Next]_vars,
                    pc' \in {"to_target", "to_client"}, idx' <= connection_count'
             PROVE  /\ pc' = "to_target" => E'.client_fd # NoFd
                    /\ pc' = "to_client" => E'.target_fd \in served'
  BY DEF InHand
<1> TypeInv /\ TypeOK /\ Table
  BY TypeParts DEF OwnInv, TypeInv
<1>1. CASE UNCHANGED vars
  BY <1>1 DEF vars, InHand, E
<1>2. CASE Loop
  <2>1. ClientToTarget \/ TargetToClient
    BY <1>2 DEF Loop, Steps, Sends, Goto, Top, Shutdown, ScanSkip, TryReconnectTarget,
       ScanEnd, EnterSelect, EnterSelectOn, SelectReturns,
       NoAccept, Accepting, AcceptFails, AcceptReuse, AcceptNew, AcceptNewUpTo,
       AcceptRejects, PassEnd, TimedOut, ClientQuiet, ClientToHybrid,
       ClientEofKept, ClientEofDropped, ClientEofHybrid, ClientReset, TargetQuiet,
       TargetLost, SentToTarget, SentToClient, SendFails, HybridToClient, Drop
  <2>2. CASE ClientToTarget
    BY <2>2, Constants
    DEF ClientToTarget, ClientRecv, Goto, tableVars, E, TypeOK
  <2>3. CASE TargetToClient
    BY <2>3 DEF TargetToClient, TargetRecv, Goto, tableVars, E
  <2> QED BY <2>1, <2>2, <2>3
<1>3. CASE World
  <2>1. pc' = pc /\ idx' = idx /\ served' = served /\ connection_count' = connection_count
    BY <1>3 DEF World, ClientArrives, PeerActs, Signal, Tick, tableVars
  <2>2. idx \in Slots
    BY <2>1, EType
  <2>3. E'.client_fd = E.client_fd /\ E'.target_fd = E.target_fd
    <3>1. CASE Tick
      BY <2>1, <2>2, <3>1 DEF Tick, E, Table, Entry
    <3>2. CASE UNCHANGED tableVars
      BY <2>1, <3>2 DEF tableVars, E
    <3> QED BY <1>3, <3>1, <3>2 DEF World, ClientArrives, PeerActs, Signal
  <2> QED BY <2>1, <2>3 DEF InHand
<1> QED BY <1>1, <1>2, <1>3 DEF Next

(* A quiet standby target is closed only by the idle timeout or the shutdown. *)
THEOREM StandbyTargetsKept == Spec => StandbyKept
<1> DEFINE Kept == \A i \in Standby : LET e == connections[i] IN
       /\ e.target_fd \notin served \cup {NoFd}
       /\ sock[e.target_fd] = "empty"
       /\ sock'[e.target_fd] = "closed"
       => e.last_activity > ConnTimeout \/ ~running
<1>1. OwnInv /\ InHand /\ [Next]_vars => [Kept]_vars
  <2>0. OwnInv => \A i \in Standby :
          connections[i].last_activity \in Nat /\ ConnTimeout \in Nat
    BY TypeParts, Constants DEF OwnInv, TypeInv, Table, Entry, Standby
  <2> SUFFICES ASSUME OwnInv, InHand, Next, NEW i \in Standby,
                      NEW t, t = connections[i].target_fd, t # NoFd, t \notin served,
                      sock[t] = "empty", sock'[t] = "closed",
                      connections[i].last_activity <= ConnTimeout, running
               PROVE  FALSE
    BY <2>0
  <2> TypeInv /\ TypeOK /\ Table
    BY TypeParts DEF OwnInv, TypeInv
  <2>1. /\ i \in Slots /\ connections[i] \in Entry /\ t \in FDs
        /\ connections[i].client_fd = NoFd /\ ~connections[i].use_hybrid_transport
        /\ connections[i].last_activity \in Nat
    BY Constants, EntryFields
    DEF Standby, Reusable, OwnInv, EntryConsistent, Truthful, Table, Entry
  <2>2. \A j \in Slots : j # i => t \notin FdsOf(connections[j])
    BY <2>1, OthersKeepTheirs
  <2>3. \A S : sock' = Close(sock, S) => t \in S
    BY <2>1 DEF Close
  <2>4. \A S : sock' # Open(sock, S)
    BY <2>1 DEF Open
  <2>5. \A fd : sock' # Consume(sock, fd)
    BY <2>1 DEF Consume, Table
  <2>6. ASSUME idx <= connection_count, idx # i PROVE ~Cleanup(idx)
    <3>1. idx \in Slots
      BY <2>6, EType
    <3> QED BY <2>2, <2>3, <2>6, <3>1 DEF Cleanup
  <2>7. ASSUME NEW outcome, ClientRecv(outcome)
        PROVE  idx <= connection_count /\ idx \in Slots /\ idx # i
    <3>1. idx <= connection_count /\ idx \in Slots
      BY <2>7, EType DEF ClientRecv, InPass
    <3>2. E.client_fd \in readfds /\ NoFd \notin readfds
      BY <2>7, Constants DEF ClientRecv, TypeOK
    <3> QED BY <2>1, <3>1, <3>2 DEF E
  <2>8. ~Top /\ ~Shutdown /\ ~ScanSkip /\ ~ScanEnd /\ ~EnterSelect /\ ~SelectReturns
    BY <2>1 DEF Top, Shutdown, ScanSkip, ScanEnd, EnterSelect, EnterSelectOn, SelectReturns
  <2>9. ~TryReconnectTarget
    BY <2>1, <2>4 DEF TryReconnectTarget
  <2>10. ~NoAccept /\ ~AcceptFails /\ ~AcceptReuse /\ ~AcceptNew /\ ~AcceptRejects
    BY <2>1, <2>4 DEF NoAccept, AcceptFails, AcceptReuse, AcceptNew, AcceptNewUpTo,
                      AcceptRejects
  <2>11. ~TimedOut
    <3>1. idx = i => ~Idle(E)
      BY <2>1, Constants DEF Idle, E
    <3> QED BY <2>6, <3>1 DEF TimedOut, InPass
  <2>12. ~PassEnd /\ ~ClientQuiet /\ ~TargetQuiet /\ ~ClientEofHybrid
    BY <2>1 DEF PassEnd, ClientQuiet, TargetQuiet, ClientEofHybrid
  <2>13. ~ClientToTarget /\ ~ClientToHybrid /\ ~ClientEofDropped /\ ~ClientReset
    BY <2>5, <2>6, <2>7 DEF ClientToTarget, ClientToHybrid, ClientEofDropped,
                            ClientReset, Drop
  <2>14. ~ClientEofKept
    BY <2>2, <2>3, <2>7 DEF ClientEofKept, E
  <2>15. ~TargetToClient /\ ~TargetLost
    <3>1. ASSUME NEW outcomes, TargetRecv(outcomes), "empty" \notin outcomes
          PROVE  idx <= connection_count /\ idx # i
      BY <2>1, <3>1 DEF TargetRecv, InPass, E
    <3> QED BY <2>5, <2>6, <3>1 DEF TargetToClient, TargetLost, Drop
  <2>16. ~HybridToClient
    <3>1. HybridToClient => idx <= connection_count /\ idx # i
      BY <2>1 DEF HybridToClient, InPass, E
    <3> QED BY <2>1, <2>6, <3>1 DEF HybridToClient, Drop
  <2>17. ~SentToTarget /\ ~SentToClient
    BY <2>1 DEF SentToTarget, SentToClient, Sent
  <2>18. ~SendFails
    <3>1. SendFails => idx <= connection_count /\ idx # i
      BY <2>1 DEF SendFails, InPass, InHand, E
    <3> QED BY <2>6, <3>1 DEF SendFails, Drop
  <2>19. ~World
    <3>1. ~ClientArrives /\ ~Signal /\ ~Tick
      BY <2>1 DEF ClientArrives, Signal, Tick
    <3>2. ASSUME NEW fd, PeerActs(fd) PROVE FALSE
      <4>1. PICK event \in PeerEvents : sock' = [sock EXCEPT ![fd] = event]
        BY <3>2 DEF PeerActs
      <4> QED BY <2>1, <4>1, TableAssumption DEF Table
    <3> QED BY <3>1, <3>2 DEF World
  <2> QED BY <2>8, <2>9, <2>10, <2>11, <2>12, <2>13, <2>14, <2>15, <2>16, <2>17,
          <2>18, <2>19
          DEF Next, Loop, Steps, Sends
<1>2. Init => InHand
  BY DEF Init, InHand
<1> QED BY <1>1, <1>2, InHandStep, OwnInvariant, PTL DEF Spec, StandbyKept

-----------------------------------------------------------------------------
(* A pass serves everything once.  ServedOnce speaks of the pass only; that a *)
(* pass begins with nothing served is the rest of its inductive invariant.    *)

AtEntry    == {"to_target", "target", "to_client"}
InThePass  == pc \in {"client"} \cup AtEntry
ServedIdle == ~InThePass => served = {}

\* What the pass looks at in an entry.
SameTcp(c, d) ==
  /\ d.client_fd = c.client_fd /\ d.target_fd = c.target_fd
  /\ d.client_disconnected = c.client_disconnected

LEMMA Disjoint ==
  ASSUME OwnInv, NEW i \in Slots, NEW j \in Slots, i # j
  PROVE  TcpFds(connections[i]) \cap TcpFds(connections[j]) = {}
BY DEF OwnInv, FdOwnership, NoSharing, FdsOf, TcpFds

\* The entry at idx is cleaned up: the next one is the first one not served yet.
LEMMA ServedDrop ==
  ASSUME OwnInv, ServedOnce, InThePass, idx <= connection_count, Drop,
         readfds' = readfds, NEW S \in SUBSET TcpFds(E), served' = served \cup S
  PROVE  ServedOnce' /\ ServedIdle'
<1>1. idx \in Slots /\ pc' = "client" /\ idx' = idx /\ Cleanup(idx)
  BY EType, TypeParts DEF Drop, Goto, OwnInv, TypeInv
<1>2. /\ connection_count \in Nat /\ idx \in Nat /\ Slots = 1 .. connection_count
      /\ Slots' = 1 .. (connection_count - 1)
      /\ \A j \in Slots' : connections'[j] = IF j < idx THEN connections[j]
                                                       ELSE connections[j + 1]
  BY <1>1 DEF Cleanup, Slots, OwnInv, TypeInv, Table, Control
<1>3. ASSUME NEW i \in Slots', i < idx, ~connections'[i].client_disconnected
      PROVE  TcpFds(connections'[i]) \cap readfds \subseteq served'
  <2>1. i \in Slots /\ connections'[i] = connections[i]
    BY <1>2, <1>3
  <2> QED BY <1>3, <2>1 DEF ServedOnce, InThePass, AtEntry
<1>4. ASSUME NEW i \in Slots', ~(i < idx)
      PROVE  TcpFds(connections'[i]) \cap served' = {}
  <2>1. i + 1 \in Slots /\ i + 1 > idx /\ connections'[i] = connections[i + 1]
    BY <1>2, <1>4
  <2>2. TcpFds(connections[i + 1]) \cap served = {}
    BY <2>1 DEF ServedOnce, InThePass, AtEntry
  <2>3. TcpFds(connections[i + 1]) \cap TcpFds(connections[idx]) = {}
    <3>1. i + 1 # idx
      BY <1>2, <2>1
    <3> QED BY <1>1, <2>1, <3>1, Disjoint
  <2> QED BY <2>1, <2>2, <2>3 DEF E
<1>5. \A i \in Slots' : i \in Nat
  BY <1>2
<1>6. \A i \in Slots' : i < idx' /\ ~connections'[i].client_disconnected =>
        TcpFds(connections'[i]) \cap readfds' \subseteq served'
  BY <1>1, <1>3
<1>7. \A i \in Slots' : i > idx' \/ (i = idx' /\ pc' = "client") =>
        TcpFds(connections'[i]) \cap served' = {}
  BY <1>1, <1>2, <1>4, <1>5
<1>8. ServedIdle'
  BY <1>1 DEF ServedIdle, InThePass, AtEntry
<1> QED BY <1>1, <1>6, <1>7, <1>8 DEF ServedOnce, TcpFds

\* The pass goes on within the entry at idx, or past it.
LEMMA ServedOn ==
  ASSUME OwnInv, ServedOnce, InThePass, idx \in Slots,
         readfds' = readfds, connection_count' = connection_count,
         \A j \in Slots : j # idx => SameTcp(connections[j], connections'[j]),
         NEW S \in SUBSET TcpFds(E), served' = served \cup S,
         \/ /\ pc' \in AtEntry /\ idx' = idx
            /\ SameTcp(E, connections'[idx])
            /\ {E.client_fd} \cap readfds \subseteq served'
            /\ E.target_fd \in served' <=> pc' = "to_client"
         \/ /\ pc' = "client" /\ idx' = idx + 1
            /\ \/ connections'[idx].client_disconnected
               \/ /\ SameTcp(E, connections'[idx])
                  /\ TcpFds(E) \cap readfds \subseteq served'
  PROVE  ServedOnce' /\ ServedIdle'
<1>1. Slots' = Slots /\ Slots \subseteq Nat /\ idx \in Nat
  BY DEF Slots
<1>2. \A j \in Slots : j # idx => TcpFds(connections'[j]) = TcpFds(connections[j])
  BY DEF SameTcp, TcpFds
<1>3. ASSUME NEW i \in Slots', i < idx', ~connections'[i].client_disconnected
      PROVE  TcpFds(connections'[i]) \cap readfds' \subseteq served'
  <2>1. CASE i = idx
    BY <1>1, <1>3, <2>1 DEF SameTcp, TcpFds
  <2>2. CASE i # idx
    <3>1. i \in Slots /\ i < idx /\ ~connections[i].client_disconnected
      BY <1>1, <1>3, <2>2 DEF SameTcp
    <3> QED BY <1>2, <2>2, <3>1 DEF ServedOnce, InThePass, AtEntry
  <2> QED BY <2>1, <2>2
<1>4. ASSUME NEW i \in Slots', i > idx' \/ (i = idx' /\ pc' = "client")
      PROVE  TcpFds(connections'[i]) \cap served' = {}
  <2>1. i \in Slots /\ i > idx /\ i # idx
    <3>1. i \in Nat /\ idx \in Nat /\ i \in Slots
      BY <1>1, <1>4
    <3>2. CASE pc' \in AtEntry /\ idx' = idx
      BY <1>4, <3>1, <3>2 DEF AtEntry
    <3>3. CASE idx' = idx + 1
      BY <1>4, <3>1, <3>3
    <3> QED BY <3>1, <3>2, <3>3
  <2>2. TcpFds(connections[i]) \cap served = {}
    BY <2>1 DEF ServedOnce, InThePass, AtEntry
  <2>3. TcpFds(connections[i]) \cap TcpFds(connections[idx]) = {}
    BY <1>1, <2>1, Disjoint
  <2> QED BY <1>1, <1>2, <2>1, <2>2, <2>3 DEF E
<1>5. pc' # "client" /\ idx' <= connection_count' =>
        /\ {connections'[idx'].client_fd} \cap readfds' \subseteq served'
        /\ connections'[idx'].target_fd \in served' <=> pc' = "to_client"
  BY DEF SameTcp
<1>6. ServedIdle'
  BY DEF ServedIdle, InThePass, AtEntry
<1> QED BY <1>3, <1>4, <1>5, <1>6 DEF ServedOnce, TcpFds, E

\* Nothing the pass looks at changes.
LEMMA ServedSame ==
  ASSUME TypeOK, ServedOnce, ServedIdle, connection_count' = connection_count,
         \A j \in Slots : SameTcp(connections[j], connections'[j]),
         served' = served, idx' = idx,
         \/ pc' = pc /\ readfds' = readfds
         \/ ~InThePass /\ ~InThePass'
  PROVE  ServedOnce' /\ ServedIdle'
<1>1. Slots' = Slots
  BY DEF Slots
<1>2. \A j \in Slots : TcpFds(connections'[j]) = TcpFds(connections[j])
  BY DEF SameTcp, TcpFds
<1>3. ServedIdle'
  BY DEF ServedIdle, InThePass, AtEntry
<1>4. CASE ~InThePass'
  BY <1>3, <1>4 DEF ServedOnce, InThePass, AtEntry
<1>5. CASE pc' = pc /\ readfds' = readfds /\ InThePass
  <2>1. \A i \in Slots' : i < idx' /\ ~connections'[i].client_disconnected =>
          TcpFds(connections'[i]) \cap readfds' \subseteq served'
    BY <1>1, <1>2, <1>5 DEF ServedOnce, SameTcp, InThePass, AtEntry
  <2>2. \A i \in Slots' : i > idx' \/ (i = idx' /\ pc' = "client") =>
          TcpFds(connections'[i]) \cap served' = {}
    BY <1>1, <1>2, <1>5 DEF ServedOnce, InThePass, AtEntry
  <2>3. ASSUME pc' # "client", idx' <= connection_count'
        PROVE  /\ {connections'[idx'].client_fd} \cap readfds' \subseteq served'
               /\ connections'[idx'].target_fd \in served' <=> pc' = "to_client"
    <3>1. idx \in Slots
      BY <2>3, EType
    <3> QED BY <1>5, <2>3, <3>1 DEF ServedOnce, SameTcp, E, InThePass, AtEntry
  <2> QED BY <1>3, <2>1, <2>2, <2>3 DEF ServedOnce, TcpFds, E
<1> QED BY <1>4, <1>5 DEF InThePass

\* recv() on the client's socket, and the pass goes on to the target.
LEMMA ServedClient ==
  ASSUME OwnInv, ServedOnce, pc = "client", idx <= connection_count,
         NEW S \in SUBSET {E.client_fd}, S \subseteq FDs, served' = served \cup S,
         {E.client_fd} \cap readfds \subseteq S
  PROVE  /\ idx \in Slots /\ E \in Entry /\ S \subseteq TcpFds(E)
         /\ {E.client_fd} \cap readfds \subseteq served'
         /\ E.target_fd \notin served'
<1>1. idx \in Slots /\ E \in Entry /\ served \subseteq FDs
  BY EType, TypeParts DEF OwnInv, TypeInv, Control
<1>2. S \subseteq TcpFds(E)
  BY Constants DEF TcpFds
<1>3. TcpFds(E) \cap served = {} /\ OneRole(E)
  BY <1>1 DEF ServedOnce, OwnInv, FdOwnership, E
<1>4. E.target_fd \notin served \cup S
  BY <1>1, <1>2, <1>3, Constants DEF TcpFds, OneRole
<1> QED BY <1>1, <1>2, <1>4

LEMMA ServedStep ==
  ASSUME OwnInv, ServedOnce, ServedIdle, [Next]_vars
  PROVE  ServedOnce' /\ ServedIdle'
<1> TypeInv /\ TypeOK /\ Table /\ Control /\ served \subseteq FDs
  BY TypeParts DEF OwnInv, TypeInv, Control
<1> DEFINE Goal == ServedOnce' /\ ServedIdle'
<1>1. CASE Top \/ Shutdown \/ ScanSkip \/ TryReconnectTarget \/ ScanEnd \/ EnterSelect
             \/ SelectReturns \/ PassEnd
  <2>1. ~InThePass'
    BY <1>1 DEF InThePass, AtEntry, Goto, Top, Shutdown, ScanSkip, TryReconnectTarget, ScanEnd, EnterSelect,
                EnterSelectOn, SelectReturns, PassEnd
  <2>2. served' = {}
    BY <1>1 DEF ServedIdle, InThePass, AtEntry, Top, Shutdown, ScanSkip, TryReconnectTarget,
                ScanEnd, EnterSelect, EnterSelectOn, SelectReturns, PassEnd
  <2> QED BY <2>1, <2>2 DEF ServedOnce, ServedIdle, InThePass, AtEntry
<1>2. CASE NoAccept \/ AcceptFails \/ AcceptReuse \/ AcceptNew \/ AcceptRejects
  <2>1. pc' = "client" /\ idx' = 1 /\ served' = {}
    BY <1>2 DEF Goto, ServedIdle, InThePass, AtEntry, NoAccept, Accepting, AcceptFails,
                AcceptReuse, AcceptNew, AcceptNewUpTo, AcceptRejects
  <2>2. \A i \in Slots' : ~(i < 1)
    BY DEF Slots
  <2> QED BY <2>1, <2>2 DEF ServedOnce, ServedIdle, InThePass, AtEntry
<1>3. CASE ClientArrives \/ Signal \/ UNCHANGED vars
  <2>1. UNCHANGED <<connection_count, connections, served, idx>>
    BY <1>3 DEF ClientArrives, Signal, vars, tableVars
  <2>2. \/ pc' = pc /\ readfds' = readfds
        \/ ~InThePass /\ ~InThePass'
    BY <1>3 DEF ClientArrives, Signal, vars, InThePass, AtEntry
  <2> QED BY <2>1, <2>2, ServedSame DEF SameTcp
<1>4. CASE \E fd \in TcpSockets : PeerActs(fd)
  BY <1>4, ServedSame DEF PeerActs, SameTcp, tableVars
<1>5. CASE Tick
  <2>1. \A j \in Slots : SameTcp(connections[j], connections'[j])
    BY <1>5 DEF Tick, SameTcp, Table, Entry
  <2> QED BY <1>5, <2>1, ServedSame DEF Tick
<1>6. CASE TimedOut
  <2>1. idx <= connection_count /\ Drop /\ readfds' = readfds /\ served' = served \cup {}
        /\ InThePass
    BY <1>6 DEF TimedOut, InPass, Drop, InThePass
  <2> QED BY <2>1, ServedDrop
<1>7. ASSUME UNCHANGED tableVars
      PROVE  /\ connection_count' = connection_count
             /\ \A j \in Slots : SameTcp(connections[j], connections'[j])
  BY <1>7 DEF tableVars, SameTcp
<1>8. ASSUME NEW e \in Entry, idx \in Slots, SetEntry(idx, e)
      PROVE  /\ connection_count' = connection_count /\ connections'[idx] = e
             /\ \A j \in Slots : j # idx => SameTcp(connections[j], connections'[j])
  BY <1>8 DEF SetEntry, SameTcp, Table
<1>9. CASE ClientQuiet
  <2>1. /\ pc = "client" /\ idx <= connection_count /\ E.client_fd \notin readfds
        /\ pc' = "target" /\ idx' = idx /\ readfds' = readfds /\ served' = served \cup {}
        /\ UNCHANGED tableVars
    BY <1>9 DEF ClientQuiet, InPass, Goto
  <2>2. idx \in Slots /\ E.target_fd \notin served'
        /\ {E.client_fd} \cap readfds \subseteq served'
    <3>1. /\ {} \in SUBSET {E.client_fd} /\ {} \subseteq FDs
          /\ {E.client_fd} \cap readfds \subseteq {}
      BY <2>1
    <3> QED BY <2>1, <3>1, ServedClient
  <2> QED BY <1>7, <2>1, <2>2, ServedOn DEF InThePass, AtEntry, E
<1>10. ASSUME NEW outcome, ClientRecv(outcome)
       PROVE  /\ pc = "client" /\ InThePass /\ idx <= connection_count /\ idx \in Slots
              /\ E \in Entry /\ {E.client_fd} \in SUBSET TcpFds(E)
              /\ readfds' = readfds /\ served' = served \cup {E.client_fd}
              /\ {E.client_fd} \cap readfds \subseteq served'
              /\ E.target_fd \notin served'
  <2>1. /\ pc = "client" /\ idx <= connection_count /\ E.client_fd \in readfds
        /\ readfds' = readfds /\ served' = served \cup {E.client_fd}
    BY <1>10 DEF ClientRecv, InPass
  <2>2. {E.client_fd} \subseteq FDs
    BY <2>1, EType, EntryFields, Constants DEF Control
  <2>3. {E.client_fd} \in SUBSET {E.client_fd}
        /\ {E.client_fd} \cap readfds \subseteq {E.client_fd}
    OBVIOUS
  <2> QED BY <2>1, <2>2, <2>3, ServedClient DEF InThePass
<1>11. ASSUME NEW outcome, ClientRecv(outcome), pc' \in {"target", "to_target"},
              idx' = idx,
              \/ SetEntry(idx, Touched(E)) \/ SetEntry(idx, E) \/ UNCHANGED tableVars
       PROVE  Goal
  <2>1. idx \in Slots /\ E \in Entry /\ Touched(E) \in Entry
    BY <1>10, <1>11, EntryUpdates
  <2>2. SameTcp(E, E) /\ SameTcp(E, Touched(E))
    BY <2>1 DEF SameTcp, Touched, Entry
  <2>3. /\ connection_count' = connection_count /\ SameTcp(E, connections'[idx])
        /\ \A j \in Slots : j # idx => SameTcp(connections[j], connections'[j])
    <3>1. CASE SetEntry(idx, Touched(E))
      BY <1>8, <2>1, <2>2, <3>1
    <3>2. CASE SetEntry(idx, E)
      BY <1>8, <2>1, <2>2, <3>2
    <3>3. CASE UNCHANGED tableVars
      BY <1>7, <2>1, <3>3 DEF E
    <3> QED BY <1>11, <3>1, <3>2, <3>3
  <2> QED BY <1>10, <1>11, <2>1, <2>3, ServedOn DEF AtEntry
<1>12. ASSUME NEW outcome, ClientRecv(outcome), Drop PROVE Goal
  BY <1>10, <1>12, ServedDrop
<1>13. CASE ClientToTarget
  BY <1>11, <1>13 DEF ClientToTarget, Goto
<1>14. CASE ClientToHybrid
  <2>1. SetEntry(idx, Touched(E)) \/ SetEntry(idx, E)
    BY <1>14 DEF ClientToHybrid
  <2> QED BY <1>11, <1>14, <2>1 DEF ClientToHybrid, Goto
<1>15. CASE ClientEofHybrid
  BY <1>11, <1>15 DEF ClientEofHybrid, Goto
<1>16. CASE ClientEofDropped \/ ClientReset
  BY <1>12, <1>16 DEF ClientEofDropped, ClientReset
<1>17. CASE ClientEofKept
  <2>1. ClientRecv("eof") /\ SetEntry(idx, DisconnectedEntry(E))
        /\ pc' = "client" /\ idx' = idx + 1
    BY <1>17 DEF ClientEofKept, Goto
  <2>2. idx \in Slots /\ E \in Entry /\ DisconnectedEntry(E) \in Entry
    BY <1>10, <2>1, EntryUpdates
  <2>3. DisconnectedEntry(E).client_disconnected
    BY <2>2 DEF DisconnectedEntry, Entry
  <2> QED BY <1>8, <1>10, <2>1, <2>2, <2>3, ServedOn
<1>18. ASSUME NEW label \in AtEntry, InPass(label)
       PROVE  /\ InThePass /\ idx <= connection_count /\ idx \in Slots /\ E \in Entry
              /\ {E.client_fd} \cap readfds \subseteq served
              /\ E.target_fd \in served <=> label = "to_client"
              /\ NoFd \notin readfds
  BY <1>18, EType, Constants DEF InPass, InThePass, AtEntry, ServedOnce, Control
<1> "target" \in AtEntry /\ "to_target" \in AtEntry /\ "to_client" \in AtEntry
  BY DEF AtEntry
<1>19. ASSUME NEW label \in AtEntry, InPass(label), pc' = "client", idx' = idx + 1,
              readfds' = readfds,
              NEW S \in SUBSET TcpFds(E), served' = served \cup S,
              {E.target_fd} \cap readfds \subseteq served',
              \/ SetEntry(idx, Touched(E)) \/ UNCHANGED tableVars
       PROVE  Goal
  <2>1. idx \in Slots /\ E \in Entry /\ Touched(E) \in Entry
    BY <1>18, <1>19, EntryUpdates
  <2>2. SameTcp(E, E) /\ SameTcp(E, Touched(E))
    BY <2>1 DEF SameTcp, Touched, Entry
  <2>3. /\ connection_count' = connection_count /\ SameTcp(E, connections'[idx])
        /\ \A j \in Slots : j # idx => SameTcp(connections[j], connections'[j])
    <3>1. CASE SetEntry(idx, Touched(E))
      BY <1>8, <2>1, <2>2, <3>1
    <3>2. CASE UNCHANGED tableVars
      BY <1>7, <2>1, <3>2 DEF E
    <3> QED BY <1>19, <3>1, <3>2
  <2>4. TcpFds(E) \cap readfds \subseteq served'
    BY <1>18, <1>19 DEF TcpFds
  <2> QED BY <1>18, <1>19, <2>3, <2>4, ServedOn
<1>20. CASE TargetQuiet
  <2>1. InPass("target") /\ pc' = "client" /\ idx' = idx + 1 /\ readfds' = readfds
        /\ served' = served \cup {} /\ {E.target_fd} \cap readfds \subseteq served'
        /\ UNCHANGED tableVars
    BY <1>20 DEF TargetQuiet, Goto
  <2> QED BY <1>19, <2>1
<1>21. ASSUME NEW outcomes, TargetRecv(outcomes)
       PROVE  /\ InPass("target") /\ readfds' = readfds
              /\ served' = served \cup {E.target_fd}
              /\ {E.target_fd} \in SUBSET TcpFds(E)
  <2>1. InPass("target") /\ readfds' = readfds /\ served' = served \cup {E.target_fd}
        /\ E.target_fd \in readfds
    BY <1>21 DEF TargetRecv
  <2> QED BY <1>18, <2>1 DEF TcpFds
<1>22. CASE TargetToClient
  <2>1. /\ connection_count' = connection_count /\ SameTcp(E, connections'[idx])
        /\ \A j \in Slots : j # idx => SameTcp(connections[j], connections'[j])
    BY <1>7, <1>18, <1>21, <1>22 DEF TargetToClient, E
  <2>2. pc' = "to_client" /\ idx' = idx
    BY <1>22 DEF TargetToClient, Goto
  <2> QED BY <1>18, <1>21, <1>22, <2>1, <2>2, ServedOn DEF TargetToClient
<1>23. CASE TargetLost
  BY <1>18, <1>21, <1>23, ServedDrop DEF TargetLost
<1>24. CASE HybridToClient
  <2>1. /\ InPass("target") /\ E.use_hybrid_transport /\ readfds' = readfds
        /\ served' = served \cup {}
    BY <1>24 DEF HybridToClient
  <2>2. {E.target_fd} \cap readfds \subseteq served'
    BY <1>18, <2>1 DEF OwnInv, EntryConsistent, Truthful, E
  <2>3. CASE Drop
    BY <1>18, <2>1, <2>3, ServedDrop
  <2>4. CASE Goto("client", idx + 1) /\ (SetEntry(idx, Touched(E)) \/ UNCHANGED tableVars)
    BY <1>19, <2>1, <2>2, <2>4 DEF Goto
  <2> QED BY <1>24, <2>3, <2>4 DEF HybridToClient
<1>25. CASE SentToTarget
  <2>1. /\ InPass("to_target") /\ readfds' = readfds /\ served' = served \cup {}
        /\ SetEntry(idx, Touched(E)) /\ pc' = "target" /\ idx' = idx
    BY <1>25 DEF SentToTarget, Sent, Goto
  <2>2. idx \in Slots /\ E \in Entry /\ Touched(E) \in Entry
    BY <1>18, <2>1, EntryUpdates
  <2>3. SameTcp(E, Touched(E))
    BY <2>2 DEF SameTcp, Touched, Entry
  <2>4. /\ connection_count' = connection_count /\ SameTcp(E, connections'[idx])
        /\ \A j \in Slots : j # idx => SameTcp(connections[j], connections'[j])
    BY <1>8, <2>1, <2>2, <2>3
  <2> QED BY <1>18, <2>1, <2>4, ServedOn
<1>26. CASE SentToClient
  <2>1. /\ InPass("to_client") /\ readfds' = readfds /\ served' = served \cup {}
        /\ SetEntry(idx, Touched(E)) /\ pc' = "client" /\ idx' = idx + 1
    BY <1>26 DEF SentToClient, Sent, Goto
  <2>2. {E.target_fd} \cap readfds \subseteq served'
    BY <1>18, <2>1
  <2> QED BY <1>19, <2>1, <2>2
<1>27. CASE SendFails
  <2>1. /\ Drop /\ readfds' = readfds /\ served' = served \cup {}
        /\ \E label \in AtEntry : InPass(label)
    BY <1>27 DEF SendFails
  <2> QED BY <1>18, <2>1, ServedDrop
<1> QED BY <1>1, <1>2, <1>3, <1>4, <1>5, <1>6, <1>9, <1>13, <1>14, <1>15, <1>16, <1>17,
           <1>20, <1>22, <1>23, <1>24, <1>25, <1>26, <1>27 DEF Next, Loop, Steps, Sends, World

(* A pass serves every descriptor select() reported exactly once, although    *)
(* cleanup_connection() shifts the table under the loop variable.             *)
THEOREM PassServesOnce == Spec => []ServedOnce
<1>1. Init => ServedOnce /\ ServedIdle
  BY DEF Init, ServedOnce, ServedIdle, InThePass, AtEntry
<1>2. OwnInv /\ ServedOnce /\ ServedIdle /\ [Next]_vars => ServedOnce' /\ ServedIdle'
  BY ServedStep
<1> QED BY <1>1, <1>2, OwnInvariant, PTL DEF Spec

-----------------------------------------------------------------------------
(* Descriptor numbers.  The kernel hands out the lowest free number, so what  *)
(* is open when a number is handed out is everything below it; and the open   *)
(* descriptors are no more than the seats the entries of the table have.      *)

SeatsOf == IF TransportMode = "tcp" THEN 2 ELSE 3

\* ht_connect() opens a UDP and at most one TCP socket, and none in TCP mode.
HtSmall(e) ==
  /\ TransportMode = "tcp" => e.ht_conn = {}
  /\ \A x, y, z \in e.ht_conn : x = y \/ y = z \/ x = z

SmallHt == \A i \in Slots : HtSmall(connections[i])

\* Every descriptor has a seat of its own: its entry's number and its role there.
LEMMA SeatsSuffice ==
  ASSUME NEW n \in Nat, NEW count \in 0 .. MaxClients, NEW c \in [1 .. count -> Entry],
         \A i \in 1 .. count : HtSmall(c[i]) /\ Truthful(c[i]),
         \A fd \in 1 .. n : \E i \in 1 .. count : fd \in FdsOf(c[i])
  PROVE  n <= MaxClients * SeatsOf
<1> DEFINE owner(fd) == CHOOSE i \in 1 .. count : fd \in FdsOf(c[i])
           first(i)  == CHOOSE x : x \in c[i].ht_conn
           role(fd)  == IF fd = c[owner(fd)].client_fd THEN 1
                        ELSE IF fd = c[owner(fd)].target_fd \/ fd = first(owner(fd)) THEN 2
                        ELSE 3
           seat(fd)  == SeatsOf * (owner(fd) - 1) + role(fd)
<1>1. \A fd \in 1 .. n : owner(fd) \in 1 .. count /\ fd \in FdsOf(c[owner(fd)])
  OBVIOUS
<1>2. \A i \in 1 .. count : c[i].ht_conn # {} => first(i) \in c[i].ht_conn
  OBVIOUS
<1>3. /\ SeatsOf \in {2, 3} /\ MaxClients \in Nat /\ count \in Nat /\ count <= MaxClients
  BY Constants DEF SeatsOf
<1>4. ASSUME NEW fd \in 1 .. n PROVE role(fd) \in 1 .. SeatsOf
  <2>1. CASE SeatsOf = 3
    BY <2>1
  <2>2. CASE SeatsOf = 2
    <3>1. c[owner(fd)].ht_conn = {}
      BY <1>1, <2>2 DEF SeatsOf, HtSmall
    <3>2. fd = c[owner(fd)].client_fd \/ fd = c[owner(fd)].target_fd
      BY <1>1, <3>1 DEF FdsOf
    <3> QED BY <2>2, <3>2
  <2> QED BY <1>3, <2>1, <2>2
<1>5. ASSUME NEW a \in 1 .. n, NEW b \in 1 .. n, owner(a) = owner(b), role(a) = role(b)
      PROVE  a = b
  <2> DEFINE i == owner(a)   e == c[i]
  <2>1. /\ i \in 1 .. count /\ a \in FdsOf(e) /\ b \in FdsOf(e) /\ i = owner(b)
    BY <1>1, <1>5
  <2>2. HtSmall(e) /\ Truthful(e) /\ (e.ht_conn # {} => first(i) \in e.ht_conn)
    BY <1>2, <2>1
  <2>3. (IF a = e.client_fd THEN 1
         ELSE IF a = e.target_fd \/ a = first(i) THEN 2 ELSE 3)
        = (IF b = e.client_fd THEN 1
           ELSE IF b = e.target_fd \/ b = first(i) THEN 2 ELSE 3)
    BY <1>5, <2>1, Zenon
  <2>4. a # NoFd /\ b # NoFd
    BY <2>1 DEF FdsOf
  <2> DEFINE other == first(i)
  <2> HIDE DEF role, owner, first, i, e, other
  <2>0. \/ a = e.client_fd /\ b = e.client_fd
        \/ /\ a # e.client_fd /\ b # e.client_fd
           /\ \/ a \in {e.target_fd, other} /\ b \in {e.target_fd, other}
              \/ a \notin {e.target_fd, other} /\ b \notin {e.target_fd, other}
    BY <2>3 DEF other
  <2>5. CASE e.ht_conn = {}
    <3>1. a \in {e.client_fd, e.target_fd} /\ b \in {e.client_fd, e.target_fd}
      BY <2>1, <2>5 DEF FdsOf
    <3> QED BY <2>0, <3>1
  <2>6. CASE e.ht_conn # {}
    <3>1. e.target_fd = NoFd
      BY <2>2, <2>6 DEF Truthful
    <3>2. /\ a = e.client_fd \/ a \in e.ht_conn
          /\ b = e.client_fd \/ b \in e.ht_conn
      BY <2>1, <2>4, <3>1 DEF FdsOf
    <3>3. \A x, y, z \in e.ht_conn : x = y \/ y = z \/ x = z
      BY <2>2 DEF HtSmall
    <3>4. other \in e.ht_conn
      BY <2>2, <2>6 DEF other
    <3> QED BY <2>0, <2>4, <3>1, <3>2, <3>3, <3>4
  <2> QED BY <2>5, <2>6
<1> HIDE DEF owner, role
<1>6. ASSUME NEW fd \in 1 .. n PROVE seat(fd) \in 1 .. SeatsOf * count
  <2>1. owner(fd) \in 1 .. count /\ role(fd) \in 1 .. SeatsOf
    BY <1>1, <1>4
  <2>2. CASE SeatsOf = 2
    BY <1>3, <2>1, <2>2
  <2>3. CASE SeatsOf = 3
    BY <1>3, <2>1, <2>3
  <2> QED BY <1>3, <2>2, <2>3
<1>7. ASSUME NEW a \in 1 .. n, NEW b \in 1 .. n, seat(a) = seat(b) PROVE a = b
  <2>1. /\ owner(a) \in 1 .. count /\ role(a) \in 1 .. SeatsOf
        /\ owner(b) \in 1 .. count /\ role(b) \in 1 .. SeatsOf
    BY <1>1, <1>4
  <2>2. owner(a) = owner(b) /\ role(a) = role(b)
    <3>1. CASE SeatsOf = 2
      BY <1>3, <1>7, <2>1, <3>1
    <3>2. CASE SeatsOf = 3
      BY <1>3, <1>7, <2>1, <3>2
    <3> QED BY <1>3, <3>1, <3>2
  <2> QED BY <1>5, <2>2
<1> HIDE DEF seat
<1> DEFINE f == [fd \in 1 .. n |-> seat(fd)]   seats == SeatsOf * count
<1>8. seats \in Nat /\ seats <= MaxClients * SeatsOf
  <2>1. CASE SeatsOf = 2
    BY <1>3, <2>1
  <2>2. CASE SeatsOf = 3
    BY <1>3, <2>2
  <2> QED BY <1>3, <2>1, <2>2
<1>9. f \in [1 .. n -> 1 .. seats] /\ \A a, b \in 1 .. n : a # b => f[a] # f[b]
  BY <1>6, <1>7
<1> HIDE DEF f, seats
<1>10. /\ IsFiniteSet(1 .. n) /\ Cardinality(1 .. n) = n
       /\ IsFiniteSet(1 .. seats) /\ Cardinality(1 .. seats) = seats
  <2>1. /\ IsFiniteSet(1 .. n) /\ Cardinality(1 .. n) = IF 1 > n THEN 0 ELSE n - 1 + 1
    BY FS_Interval
  <2>2. /\ IsFiniteSet(1 .. seats)
        /\ Cardinality(1 .. seats) = IF 1 > seats THEN 0 ELSE seats - 1 + 1
    BY <1>8, FS_Interval
  <2> QED BY <1>8, <2>1, <2>2
<1>11. \A g \in [1 .. n -> 1 .. seats] :
         Cardinality(1 .. seats) < Cardinality(1 .. n) =>
           \E a, b \in 1 .. n : a # b /\ g[a] = g[b]
  BY <1>10, FS_PigeonHole
<1>12. n <= seats
  BY <1>8, <1>9, <1>10, <1>11
<1>13. MaxClients * SeatsOf \in Nat
  BY <1>3
<1> QED BY <1>8, <1>12, <1>13

\* Sockets are opened lowest first: below a new one everything is open.
LEMMA OpenPacked ==
  ASSUME NEW u \in Lowest(Free), NEW S,
         S = {u} \/ \E t \in Lowest(Free \ {u}) : S = {u, t},
         sock' = Open(sock, S), NEW fd \in FDs,
         sock[fd] = "closed", sock'[fd] # "closed", NEW x \in 1 .. fd
  PROVE  sock'[x] # "closed"
<1>1. fd \in S /\ u \in Free /\ \A y \in Free : u <= y
  BY DEF Open, Lowest
<1>2. x \in FDs /\ (x \in S => sock'[x] # "closed")
      /\ (sock[x] # "closed" => sock'[x] # "closed")
  <2>1. x \in FDs
    BY Constants DEF FDs
  <2> QED BY <2>1 DEF Open
<1>3. ASSUME x \in Free PROVE x \in S
  <2>1. u \in Int /\ x \in Int /\ fd \in Int /\ x <= fd /\ u <= x
    BY <1>1, <1>3 DEF Free, FDs
  <2>2. CASE fd = u
    BY <1>1, <2>1, <2>2
  <2>3. CASE fd # u /\ x # u
    <3>1. PICK t \in Lowest(Free \ {u}) : S = {u, t}
      BY <1>1, <2>3
    <3>2. fd = t /\ t <= x
      BY <1>1, <1>3, <2>3, <3>1 DEF Lowest
    <3> QED BY <2>1, <3>1, <3>2
  <2>4. u \in S
    OBVIOUS
  <2> QED BY <2>2, <2>3, <2>4
<1> QED BY <1>2, <1>3 DEF Free

\* What is opened in a step, and in which order.
LEMMA OpensLowest ==
  ASSUME OwnInv, [Next]_vars, NEW fd \in FDs, sock[fd] = "closed", sock'[fd] # "closed"
  PROVE  \A x \in 1 .. fd : sock'[x] # "closed"
<1> TypeInv /\ TypeOK /\ Table /\ Control
  BY TypeParts DEF OwnInv, TypeInv
<1>1. \A S : sock' # Close(sock, S)
  BY DEF Close
<1>2. ~(UNCHANGED sock)
  OBVIOUS
<1>3. ASSUME NEW read \in FDs, sock[read] # "closed" PROVE sock' # Consume(sock, read)
  BY <1>3 DEF Consume, Table
<1>4. ~Drop
  BY <1>1 DEF Drop, Cleanup
<1>5. CASE \/ Top \/ Shutdown \/ ScanSkip \/ ScanEnd \/ EnterSelect \/ SelectReturns
           \/ NoAccept \/ AcceptFails \/ AcceptRejects \/ PassEnd \/ TimedOut
           \/ ClientQuiet \/ ClientEofKept \/ ClientEofDropped \/ ClientEofHybrid
           \/ ClientReset \/ TargetQuiet \/ TargetLost \/ HybridToClient
           \/ SentToTarget \/ SentToClient \/ SendFails
           \/ ClientArrives \/ Signal \/ Tick \/ UNCHANGED vars
  BY <1>1, <1>2, <1>4, <1>5
  DEF Top, Shutdown, ScanSkip, ScanEnd, EnterSelect, EnterSelectOn, SelectReturns,
      NoAccept, AcceptFails, AcceptRejects, PassEnd, TimedOut, Cleanup, ClientQuiet,
      ClientEofKept, ClientEofDropped, ClientEofHybrid, ClientReset, TargetQuiet,
      TargetLost, HybridToClient, SentToTarget, SentToClient, Sent, SendFails,
      ClientArrives, Signal, Tick, vars
<1>6. ~ClientToTarget /\ ~ClientToHybrid
  <2>1. ASSUME ClientRecv("data") PROVE E.client_fd \in FDs /\ sock[E.client_fd] # "closed"
    BY <2>1, EType, EntryFields, Constants DEF ClientRecv, InPass, Control
  <2> QED BY <1>3, <1>4, <2>1 DEF ClientToTarget, ClientToHybrid
<1>7. ~TargetToClient
  <2>1. ASSUME TargetRecv({"data"}) PROVE E.target_fd \in FDs /\ sock[E.target_fd] # "closed"
    BY <2>1, EType, EntryFields, Constants DEF TargetRecv, InPass, Control
  <2> QED BY <1>3, <2>1 DEF TargetToClient
<1>8. ASSUME NEW other, PeerActs(other) PROVE FALSE
  <2>1. PICK event \in PeerEvents :
          /\ sock[other] \in {"empty"} \cup (IF event = "reset" THEN {"data", "eof"} ELSE {})
          /\ sock' = [sock EXCEPT ![other] = event]
    BY <1>8 DEF PeerActs
  <2>2. other # fd
    BY <2>1
  <2> QED BY <2>1, <2>2 DEF Table
<1>9. CASE AcceptReuse
  <2>1. PICK new \in Lowest(Free) : sock' = Open(sock, {new})
    BY <1>9 DEF AcceptReuse
  <2> QED BY <2>1, OpenPacked
<1>10. CASE AcceptNew
  <2>1. PICK client \in Lowest(Free) : \E target \in Lowest(Free \ {client}) :
          sock' = Open(sock, {client, target})
    BY <1>10 DEF AcceptNew, AcceptNewUpTo
  <2>2. PICK target \in Lowest(Free \ {client}) : sock' = Open(sock, {client, target})
    BY <2>1
  <2> QED BY <2>2, OpenPacked
<1>11. CASE TryReconnectTarget
  <2>1. \/ \E fds \in HtSockets : sock' = Open(sock, fds)
        \/ \E new \in Lowest(Free) : sock' = Open(sock, {new})
    BY <1>2, <1>11 DEF TryReconnectTarget
  <2>2. CASE \E new \in Lowest(Free) : sock' = Open(sock, {new})
    <3>1. PICK new \in Lowest(Free) : sock' = Open(sock, {new})
      BY <2>2
    <3> QED BY <3>1, OpenPacked
  <2>3. CASE \E fds \in HtSockets : sock' = Open(sock, fds)
    <3>1. PICK fds \in HtSockets : sock' = Open(sock, fds)
      BY <2>3
    <3>2. PICK u \in Lowest(Free) :
            IF TransportMode = "udp"
            THEN fds = {u}
            ELSE \E t \in Lowest(Free \ {u}) : fds = {u} \/ fds = {u, t}
      BY DEF HtSockets
    <3>3. fds = {u} \/ \E t \in Lowest(Free \ {u}) : fds = {u, t}
      BY <3>2
    <3> QED BY <3>1, <3>3, OpenPacked
  <2> QED BY <2>1, <2>2, <2>3
<1> QED BY <1>5, <1>6, <1>7, <1>8, <1>9, <1>10, <1>11 DEF Next, Loop, Steps, Sends, World

LEMMA SmallHtStep ==
  ASSUME OwnInv, SmallHt, [Next]_vars
  PROVE  SmallHt'
<1> TypeInv /\ TypeOK /\ Table /\ Control
  BY TypeParts DEF OwnInv, TypeInv
<1>1. ASSUME connection_count' = connection_count,
             \A i \in Slots : connections'[i].ht_conn \in {connections[i].ht_conn, {}}
      PROVE  SmallHt'
  BY <1>1 DEF SmallHt, HtSmall, Slots
<1>2. ASSUME UNCHANGED tableVars PROVE SmallHt'
  BY <1>1, <1>2 DEF tableVars
<1>3. ASSUME NEW i \in Slots, NEW e, SetEntry(i, e), HtSmall(e) PROVE SmallHt'
  <2>1. connection_count' = connection_count /\ connections' = [connections EXCEPT ![i] = e]
    BY <1>3 DEF SetEntry
  <2>2. \A j \in Slots : connections'[j] \in {connections[j], e}
    BY <2>1 DEF Table
  <2> QED BY <1>3, <2>1, <2>2 DEF SmallHt, HtSmall, Slots
<1>4. ASSUME NEW i \in Slots, Cleanup(i) PROVE SmallHt'
  <2>1. \A j \in Slots' : \E k \in Slots : connections'[j] = connections[k]
    BY <1>4 DEF Cleanup, Slots, Table
  <2> QED BY <2>1 DEF SmallHt, HtSmall
<1>5. ASSUME idx <= connection_count, Drop PROVE SmallHt'
  BY <1>4, <1>5, EType DEF Drop
<1>6. ASSUME idx <= connection_count
      PROVE  /\ idx \in Slots /\ HtSmall(E) /\ HtSmall(Touched(E))
             /\ HtSmall(DisconnectedEntry(E))
  <2>1. idx \in Slots /\ E \in Entry
    BY <1>6, EType
  <2>2. HtSmall(E)
    BY <2>1 DEF SmallHt, E
  <2>3. /\ Touched(E).ht_conn = E.ht_conn
        /\ DisconnectedEntry(E).ht_conn \in {E.ht_conn, {}}
    BY <2>1 DEF Touched, DisconnectedEntry, Entry
  <2> QED BY <2>1, <2>2, <2>3 DEF HtSmall
<1>7. CASE \/ Top \/ ScanSkip \/ ScanEnd \/ EnterSelect \/ SelectReturns \/ NoAccept
           \/ AcceptFails \/ AcceptRejects \/ PassEnd \/ ClientQuiet
           \/ ClientEofHybrid \/ TargetQuiet \/ ClientToTarget \/ TargetToClient
           \/ ClientArrives \/ Signal \/ UNCHANGED vars
  <2>1. UNCHANGED tableVars
    BY <1>7 DEF vars, tableVars, Top, ScanSkip, ScanEnd, EnterSelect, EnterSelectOn,
         SelectReturns, NoAccept, AcceptFails, AcceptRejects, PassEnd, ClientQuiet,
         ClientEofHybrid, TargetQuiet, ClientToTarget, TargetToClient, ClientArrives,
         Signal
  <2> QED BY <1>2, <2>1
<1>8. CASE Shutdown
  BY <1>8 DEF Shutdown, SmallHt, Slots
<1>9. CASE TimedOut
  BY <1>4, <1>6, <1>9 DEF TimedOut, InPass
<1>10. CASE ClientToHybrid \/ ClientEofKept \/ ClientEofDropped \/ ClientReset
  <2>1. idx <= connection_count
    BY <1>10 DEF ClientToHybrid, ClientEofKept, ClientEofDropped,
                 ClientReset, ClientRecv, InPass
  <2>2. \/ Drop \/ SetEntry(idx, Touched(E)) \/ SetEntry(idx, E)
        \/ SetEntry(idx, DisconnectedEntry(E))
    BY <1>10 DEF ClientToHybrid, ClientEofKept, ClientEofDropped, ClientReset
  <2> QED BY <1>3, <1>5, <1>6, <2>1, <2>2
<1>11. CASE TargetLost \/ HybridToClient \/ SentToTarget \/ SentToClient \/ SendFails
  <2>1. idx <= connection_count
    BY <1>11 DEF TargetLost, HybridToClient, TargetRecv, SentToTarget, SentToClient,
                 Sent, SendFails, InPass
  <2>2. Drop \/ SetEntry(idx, Touched(E)) \/ UNCHANGED tableVars
    BY <1>11 DEF TargetLost, HybridToClient, SentToTarget, SentToClient, Sent, SendFails
  <2> QED BY <1>2, <1>3, <1>5, <1>6, <2>1, <2>2
<1>12. CASE \E fd \in TcpSockets : PeerActs(fd)
  BY <1>2, <1>12 DEF PeerActs
<1>13. CASE Tick
  <2>1. /\ connection_count' = connection_count
        /\ \A i \in Slots : connections'[i].ht_conn = connections[i].ht_conn
    BY <1>13 DEF Tick, Table, Entry
  <2> QED BY <1>1, <2>1
<1>14. CASE AcceptReuse
  <2>1. PICK i \in Lowest(Standby), fd \in Lowest(Free) :
          SetEntry(i, ResetForReuse([connections[i] EXCEPT !.client_fd = fd]))
    BY <1>14 DEF AcceptReuse
  <2>2. i \in Slots /\ connections[i] \in Entry /\ HtSmall(connections[i])
    BY LowestIn DEF Standby, SmallHt, Table
  <2>3. ResetForReuse([connections[i] EXCEPT !.client_fd = fd]).ht_conn
          = connections[i].ht_conn
    BY <2>2 DEF ResetForReuse, Entry
  <2>4. HtSmall(ResetForReuse([connections[i] EXCEPT !.client_fd = fd]))
    BY <2>2, <2>3 DEF HtSmall
  <2> QED BY <1>3, <2>1, <2>2, <2>4
<1>15. CASE AcceptNew
  <2>1. \E client, target :
          /\ connection_count' = connection_count + 1
          /\ connections' = [j \in 1 .. (connection_count + 1) |->
                               IF j <= connection_count THEN connections[j]
                                                        ELSE NewEntry(client, target)]
    BY <1>15 DEF AcceptNew, AcceptNewUpTo
  <2>2. \A j \in Slots' : connections'[j].ht_conn = {} \/
                          (j \in Slots /\ connections'[j] = connections[j])
    BY <2>1 DEF Slots, Table, NewEntry
  <2> QED BY <2>2 DEF SmallHt, HtSmall
<1>16. CASE TryReconnectTarget
  <2> DEFINE e == [connections[idx] EXCEPT !.reconnect_attempts = @ + 1]
  <2>1. idx \in Slots /\ connections[idx] \in Entry /\ HtSmall(connections[idx])
    BY <1>16, EType DEF TryReconnectTarget, Table, SmallHt
  <2>2. e.ht_conn = connections[idx].ht_conn /\ DOMAIN e = DOMAIN connections[idx]
    BY <2>1 DEF Entry
  <2>3. "ht_conn" \in DOMAIN e /\ "target_fd" \in DOMAIN e /\ "target_ready" \in DOMAIN e
        /\ "use_hybrid_transport" \in DOMAIN e
    BY <2>1, <2>2 DEF Entry
  <2>4. CASE SetEntry(idx, e)
    BY <1>3, <2>1, <2>2, <2>4 DEF HtSmall
  <2>5. CASE \E fd \in Lowest(Free) :
               SetEntry(idx, [e EXCEPT !.target_fd = fd, !.target_ready = TRUE])
    <3>1. PICK fd \in Lowest(Free) :
            SetEntry(idx, [e EXCEPT !.target_fd = fd, !.target_ready = TRUE])
      BY <2>5
    <3> HIDE DEF e
    <3>2. [e EXCEPT !.target_fd = fd, !.target_ready = TRUE].ht_conn = e.ht_conn
      BY <2>3
    <3>3. HtSmall([e EXCEPT !.target_fd = fd, !.target_ready = TRUE])
      BY <2>1, <2>2, <3>2 DEF HtSmall
    <3> QED BY <1>3, <2>1, <3>1, <3>3
  <2>6. CASE TransportMode # "tcp" /\
             \E fds \in HtSockets :
               SetEntry(idx, [e EXCEPT !.ht_conn = fds, !.use_hybrid_transport = TRUE,
                                       !.target_ready = TRUE])
    <3>1. PICK fds \in HtSockets :
            SetEntry(idx, [e EXCEPT !.ht_conn = fds, !.use_hybrid_transport = TRUE,
                                    !.target_ready = TRUE])
      BY <2>6
    <3> HIDE DEF e
    <3> DEFINE g == [e EXCEPT !.ht_conn = fds, !.use_hybrid_transport = TRUE,
                              !.target_ready = TRUE]
    <3>2. g.ht_conn = fds
      BY <2>3
    <3>3. \E u, t : fds = {u} \/ fds = {u, t}
      BY DEF HtSockets
    <3> HIDE DEF g
    <3>4. HtSmall(g)
      BY <2>6, <3>2, <3>3 DEF HtSmall
    <3> QED BY <1>3, <2>1, <3>1, <3>4 DEF g
  <2> QED BY <1>16, <2>4, <2>5, <2>6 DEF TryReconnectTarget
<1> QED BY <1>7, <1>8, <1>9, <1>10, <1>11, <1>12, <1>13, <1>14, <1>15, <1>16
        DEF Next, Loop, Steps, Sends, World

LEMMA FdNumberStep ==
  ASSUME OwnInv, OwnInv', SmallHt', FdNumberBound, [Next]_vars
  PROVE  FdNumberBound'
<1> SUFFICES ASSUME NEW fd \in FDs, sock'[fd] # "closed"
             PROVE  fd <= MaxClients * SeatsOf
  BY DEF FdNumberBound, SeatsOf
<1>1. CASE sock[fd] # "closed"
  BY <1>1 DEF FdNumberBound, SeatsOf
<1>2. CASE sock[fd] = "closed"
  <2>1. \A x \in 1 .. fd : sock'[x] # "closed"
    BY <1>2, OpensLowest
  <2>2. fd \in Nat /\ \A x \in 1 .. fd : x \in FDs
    BY Constants DEF FDs
  <2>3. /\ connection_count' \in 0 .. MaxClients
        /\ connections' \in [1 .. connection_count' -> Entry]
    BY DEF OwnInv, TypeInv, Table, Slots
  <2>4. \A i \in 1 .. connection_count' : HtSmall(connections'[i]) /\ Truthful(connections'[i])
    BY DEF OwnInv, EntryConsistent, SmallHt, Slots, HtSmall, Truthful, HasTarget
  <2>5. \A x \in 1 .. fd : \E i \in 1 .. connection_count' : x \in FdsOf(connections'[i])
    BY <2>1, <2>2 DEF OwnInv, FdOwnership, NoLeak, Slots, FdsOf
  <2> QED BY <2>2, <2>3, <2>4, <2>5, SeatsSuffice
<1> QED BY <1>1, <1>2

(* Descriptor numbers never exceed the sockets max_clients entries can hold,  *)
(* in whichever order connections come, end and are dialled again: FD_SET on  *)
(* the fixed-size set is safe for every max_clients that leaves them below    *)
(* FD_SETSIZE.                                                                *)
THEOREM FdNumbersBounded == Spec => []FdNumberBound
<1>1. Init => SmallHt /\ FdNumberBound
  BY DEF Init, SmallHt, FdNumberBound, Slots
<1>2. OwnInv /\ SmallHt /\ [Next]_vars => SmallHt'
  BY SmallHtStep
<1>3. OwnInv /\ OwnInv' /\ SmallHt' /\ FdNumberBound /\ [Next]_vars => FdNumberBound'
  BY FdNumberStep
<1> QED BY <1>1, <1>2, <1>3, OwnInvariant, PTL DEF Spec

=============================================================================
