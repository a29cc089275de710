--------------------------- MODULE SessionProofs ----------------------------
(***************************************************************************)
(* Machine-checked proof that the event loop implements the list of        *)
(* sessions of module SessionTable, for every value of the constants.      *)
(*                                                                         *)
(* The mapping rests on the ownership invariant of ForwarderProofs, which  *)
(* makes a descriptor that is free new to every session, and on the flags  *)
(* of an entry telling the truth about its sockets, which makes the        *)
(* entries the code finds reusable the sessions that are ready.            *)
(***************************************************************************)
EXTENDS ForwarderProofs, SequenceTheorems

Book == [i \in Slots |-> SessionOf(connections[i])]

-----------------------------------------------------------------------------
(* Facts about the mapping *)

LEMMA LengthOf ==
  ASSUME NEW n \in Nat, NEW T, NEW s \in [1 .. n -> T]
  PROVE  s \in Seq(T) /\ Len(s) = n
<1>1. s \in Seq(T)
  BY SeqDef
<1> QED BY <1>1, LenProperties

LEMMA AppendIs ==
  ASSUME NEW n \in Nat, NEW T, NEW s \in [1 .. n -> T], NEW x \in T
  PROVE  Append(s, x) = [j \in 1 .. (n + 1) |-> IF j <= n THEN s[j] ELSE x]
<1>1. s \in Seq(T) /\ Len(s) = n
  BY LengthOf
<1>2. /\ Append(s, x) \in Seq(T) /\ Len(Append(s, x)) = n + 1
      /\ \A j \in 1 .. n : Append(s, x)[j] = s[j]
      /\ Append(s, x)[n + 1] = x
  BY <1>1, AppendProperties
<1>3. Append(s, x) \in [1 .. (n + 1) -> T]
  BY <1>2, LenProperties
<1>4. \A j \in 1 .. (n + 1) : Append(s, x)[j] = IF j <= n THEN s[j] ELSE x
  BY <1>2
<1> QED BY <1>3, <1>4

LEMMA SessionIn ==
  ASSUME NEW e \in Entry
  PROVE  /\ SessionOf(e) \in Sessions!Session
         /\ {SessionOf(e).client} \cup SessionOf(e).target = FdsOf(e) \cup {e.client_fd}
BY EntryFields DEF SessionOf, Sessions!Session, Entry, FdsOf, NoFd, FDs

LEMMA BookType ==
  ASSUME Table
  PROVE  /\ Book \in [Slots -> Sessions!Session]
         /\ Book \in Seq(Sessions!Session)
         /\ Len(Book) = connection_count
         /\ Sessions!Places = Slots
<1>1. Book \in [Slots -> Sessions!Session]
  BY SessionIn DEF Table, Book
<1>2. Book \in Seq(Sessions!Session) /\ Len(Book) = connection_count
  BY <1>1, LengthOf, Constants DEF Table, Slots
<1>3. Sessions!Places = Slots
  BY <1>2 DEF Sessions!Places, Book, Slots
<1> QED BY <1>1, <1>2, <1>3

LEMMA FreeIsFresh == OwnInv => Free \subseteq Sessions!Fresh
<1> SUFFICES ASSUME OwnInv, NEW fd \in Free, fd \in Sessions!InUse PROVE FALSE
  BY DEF Sessions!Fresh, Free
<1> Table
  BY DEF OwnInv, TypeInv
<1>1. PICK i \in Slots : fd \in {Book[i].client} \cup Book[i].target
  BY BookType DEF Sessions!InUse, Book
<1>2. fd \in FdsOf(connections[i])
  BY <1>1, SessionIn, Constants DEF Book, Table, Free, FdsOf
<1> QED BY <1>2 DEF OwnInv, FdOwnership, NoDangling, Free

LEMMA ReadyIs ==
  OwnInv => Sessions!Ready = {i \in Slots : Reusable(i)}
<1> SUFFICES ASSUME OwnInv PROVE Sessions!Ready = {i \in Slots : Reusable(i)}
  OBVIOUS
<1> Table
  BY DEF OwnInv, TypeInv
<1>1. ASSUME NEW i \in Slots
      PROVE  Reusable(i) <=> Book[i].client = NoFd /\ Book[i].target # {}
  <2>1. connections[i] \in Entry /\ Truthful(connections[i])
    BY DEF Table, OwnInv, EntryConsistent
  <2> QED BY <2>1, EntryFields, Constants
          DEF Reusable, Book, SessionOf, Truthful, HasTarget, Entry
<1> QED BY <1>1, BookType DEF Sessions!Ready, Book

LEMMA EntrySet ==
  ASSUME Table, NEW i \in Slots, NEW e \in Entry, SetEntry(i, e)
  PROVE  Book' = [Book EXCEPT ![i] = SessionOf(e)]
<1>1. Slots' = Slots /\ \A j \in Slots : connections'[j] = IF j = i THEN e ELSE connections[j]
  BY DEF SetEntry, Slots, Table
<1> QED BY <1>1 DEF Book

LEMMA EntryKept ==
  ASSUME Table, NEW i \in Slots, NEW e \in Entry, SetEntry(i, e),
         SessionOf(e) = SessionOf(connections[i])
  PROVE  Book' = Book
BY EntrySet, BookType DEF Book

LEMMA Stutters ==
  ASSUME Book' = Book, (pc' = "exit") = (pc = "exit")
  PROVE  UNCHANGED Sessions!sessionVars
BY DEF Book, Sessions!sessionVars

-----------------------------------------------------------------------------
(* What a step of the code is a step of the list *)

Implements == [Sessions!Next]_Sessions!sessionVars

LEMMA StutterStep ==
  ASSUME Book' = Book, (pc' = "exit") = (pc = "exit") PROVE Implements
BY Stutters DEF Implements

LEMMA SameTableStutters ==
  ASSUME UNCHANGED tableVars, (pc' = "exit") = (pc = "exit") PROVE Implements
<1>1. Book' = Book
  BY DEF Book, Slots, tableVars
<1> QED BY <1>1, StutterStep

LEMMA TouchStutters ==
  ASSUME Table, NEW i \in Slots, NEW e \in Entry, SetEntry(i, e),
         e.client_fd = connections[i].client_fd,
         e.target_fd = connections[i].target_fd,
         e.ht_conn = connections[i].ht_conn,
         pc # "exit", pc' # "exit"
  PROVE  Implements
<1>1. SessionOf(e) = SessionOf(connections[i])
  BY DEF SessionOf
<1> QED BY <1>1, EntryKept, StutterStep

LEMMA CleanupEnds ==
  ASSUME Table, NEW i \in Slots, Cleanup(i), pc # "exit", pc' # "exit"
  PROVE  Implements
<1>1. Book' = [j \in 1 .. (Len(Book) - 1) |-> IF j < i THEN Book[j] ELSE Book[j + 1]]
  BY BookType, Constants DEF Cleanup, Book, Slots, Table
<1>2. Sessions!End(i)
  BY <1>1 DEF Sessions!End, Book
<1> QED BY <1>2, BookType DEF Implements, Sessions!Next

LEMMA AcceptBegins ==
  ASSUME OwnInv, Standby = {}, \A i \in Slots : ~Reusable(i), AcceptNew
  PROVE  Implements
<1> Table
  BY DEF OwnInv, TypeInv
<1>1. PICK client \in Lowest(Free) : \E target \in Lowest(Free \ {client}) :
       /\ connections' = [j \in 1 .. (connection_count + 1) |->
                            IF j <= connection_count THEN connections[j]
                                                     ELSE NewEntry(client, target)]
       /\ connection_count' = connection_count + 1
  BY DEF AcceptNew, AcceptNewUpTo
<1>2. PICK target \in Lowest(Free \ {client}) :
       /\ connections' = [j \in 1 .. (connection_count + 1) |->
                            IF j <= connection_count THEN connections[j]
                                                     ELSE NewEntry(client, target)]
       /\ connection_count' = connection_count + 1
  BY <1>1
<1>3. client \in Free /\ target \in Free /\ target # client
  BY LowestIn
<1>4. client \in Sessions!Fresh /\ target \in Sessions!Fresh \ {client}
  BY <1>3, FreeIsFresh
<1>5. SessionOf(NewEntry(client, target)) = [client |-> client, target |-> {target}]
  BY <1>3, Constants DEF SessionOf, NewEntry, Free
<1>6. Book' = Append(Book, [client |-> client, target |-> {target}])
  <2>1. Append(Book, [client |-> client, target |-> {target}]) =
          [j \in 1 .. (connection_count + 1) |->
             IF j <= connection_count THEN Book[j]
                                      ELSE [client |-> client, target |-> {target}]]
    <3>1. [client |-> client, target |-> {target}] \in Sessions!Session
      BY <1>3 DEF Sessions!Session, Free
    <3>2. connection_count \in Nat /\ Book \in [1 .. connection_count -> Sessions!Session]
      BY BookType, Constants DEF Table, Slots
    <3> QED BY <3>1, <3>2, AppendIs
  <2>2. Slots' = 1 .. (connection_count + 1)
    BY <1>2 DEF Slots
  <2>3. \A j \in Slots' : SessionOf(connections'[j]) =
          IF j <= connection_count THEN Book[j]
                                   ELSE [client |-> client, target |-> {target}]
    <3>1. \A j \in 1 .. (connection_count + 1) : connections'[j] =
            IF j <= connection_count THEN connections[j] ELSE NewEntry(client, target)
      BY <1>2
    <3>2. \A j \in 1 .. (connection_count + 1) :
            j <= connection_count => Book[j] = SessionOf(connections[j])
      BY Constants DEF Book, Slots, Table
    <3> QED BY <1>5, <2>2, <3>1, <3>2
  <2>4. Book' = [j \in Slots' |-> SessionOf(connections'[j])]
    BY DEF Book, SessionOf
  <2> QED BY <2>1, <2>2, <2>3, <2>4
<1>7. Sessions!Ready = {}
  BY ReadyIs
<1>8. Len(Book) < MaxClients /\ pc = "accept" /\ pc' = "client"
  BY BookType DEF AcceptNew, AcceptNewUpTo, Accepting, Goto
<1>9. Sessions!Begin
  BY <1>4, <1>6, <1>7, <1>8 DEF Sessions!Begin, Book
<1> QED BY <1>9 DEF Implements, Sessions!Next

LEMMA ReuseJoins == OwnInv /\ AcceptReuse => Implements
<1> SUFFICES ASSUME OwnInv, AcceptReuse PROVE Implements
  OBVIOUS
<1> Table
  BY DEF OwnInv, TypeInv
<1>1. PICK i \in Lowest(Standby), fd \in Lowest(Free) :
         SetEntry(i, ResetForReuse([connections[i] EXCEPT !.client_fd = fd]))
  BY DEF AcceptReuse
<1> DEFINE e == ResetForReuse([connections[i] EXCEPT !.client_fd = fd])
<1>2. /\ i \in Slots /\ fd \in FDs /\ fd \in Sessions!Fresh
      /\ connections[i] \in Entry /\ e \in Entry
  BY LowestIn, FreeIsFresh, EntryUpdates DEF Standby, Free, Table
<1>3. i \in Sessions!Ready /\ \A j \in Sessions!Ready : i <= j
  BY ReadyIs DEF Standby, Lowest
<1>4. SessionOf(e) = [client |-> fd, target |-> Book[i].target]
  BY <1>2 DEF ResetForReuse, SessionOf, Book, Entry
<1>5. Book' = [Book EXCEPT ![i] = [client |-> fd, target |-> Book[i].target]]
  <2> HIDE DEF e
  <2> QED BY <1>1, <1>2, <1>4, EntrySet DEF e
<1>6. pc = "accept" /\ pc' = "client"
  BY DEF AcceptReuse, Accepting, Goto
<1>7. Sessions!Join
  BY <1>2, <1>3, <1>5, <1>6 DEF Sessions!Join, Sessions!Change, Book
<1> QED BY <1>7 DEF Implements, Sessions!Next

LEMMA RedialSteps == OwnInv /\ TryReconnectTarget => Implements
<1> SUFFICES ASSUME OwnInv, TryReconnectTarget PROVE Implements
  OBVIOUS
<1> Table /\ TypeOK
  BY TypeParts DEF OwnInv, TypeInv
<1>1. /\ idx <= connection_count /\ WantsReconnect(connections[idx])
      /\ connections[idx].reconnect_attempts < MaxAttempts
      /\ pc = "scan" /\ pc' = "scan"
  BY DEF TryReconnectTarget, Goto
<1>2. idx \in Slots /\ connections[idx] \in Entry /\ Truthful(connections[idx])
  BY <1>1, EType DEF Table, OwnInv, EntryConsistent
<1>3. Book[idx].client = NoFd /\ Book[idx].target = {}
  BY <1>1, <1>2 DEF WantsReconnect, Truthful, HasTarget, Book, SessionOf, Entry
<1> DEFINE e == [connections[idx] EXCEPT !.reconnect_attempts = @ + 1]
<1>4. /\ e \in Entry /\ e.client_fd = NoFd
      /\ e.target_fd = connections[idx].target_fd /\ e.target_fd = NoFd
      /\ e.ht_conn = connections[idx].ht_conn /\ e.ht_conn = {}
  BY <1>1, <1>2, Constants DEF Entry, WantsReconnect, Truthful, HasTarget
<1>5. ASSUME NEW f \in Entry, SetEntry(idx, f), f.client_fd = NoFd,
             SessionOf(f).target \in (SUBSET Free) \ {{}}
      PROVE  Implements
  <2>1. SessionOf(f) = [client |-> NoFd, target |-> SessionOf(f).target]
    BY <1>5 DEF SessionOf
  <2>2. SessionOf(f).target \in (SUBSET Sessions!Fresh) \ {{}}
    BY <1>5, FreeIsFresh
  <2>3. Book' = [Book EXCEPT ![idx] = [client |-> NoFd, target |-> SessionOf(f).target]]
    BY <1>2, <1>5, <2>1, EntrySet
  <2>4. Sessions!Redial(idx)
    BY <1>1, <1>3, <2>2, <2>3 DEF Sessions!Redial, Sessions!Change, Book
  <2> QED BY <1>2, <2>4, BookType DEF Implements, Sessions!Next
<1>6. CASE \E fds \in HtSockets :
             SetEntry(idx, [e EXCEPT !.ht_conn = fds, !.use_hybrid_transport = TRUE,
                                     !.target_ready = TRUE])
  <2> PICK fds \in HtSockets :
             SetEntry(idx, [e EXCEPT !.ht_conn = fds, !.use_hybrid_transport = TRUE,
                                     !.target_ready = TRUE])
    BY <1>6
  <2> DEFINE f == [e EXCEPT !.ht_conn = fds, !.use_hybrid_transport = TRUE,
                            !.target_ready = TRUE]
  <2>1. f \in Entry /\ f.client_fd = NoFd /\ f.target_fd = NoFd /\ f.ht_conn = fds
    <3> HIDE DEF e
    <3> QED BY <1>4, HtSocketsIn DEF Entry
  <2>2. SessionOf(f).target = fds
    <3> HIDE DEF f
    <3> QED BY <2>1, HtSocketsIn, Constants DEF SessionOf
  <2> HIDE DEF f
  <2>3. SetEntry(idx, f)
    BY DEF f
  <2>4. SessionOf(f).target \in (SUBSET Free) \ {{}}
    BY <2>2, HtSocketsIn
  <2> HIDE DEF e
  <2> QED BY <1>5, <2>1, <2>3, <2>4
<1>7. CASE \E fd \in Lowest(Free) :
             SetEntry(idx, [e EXCEPT !.target_fd = fd, !.target_ready = TRUE])
  <2> PICK fd \in Lowest(Free) :
             SetEntry(idx, [e EXCEPT !.target_fd = fd, !.target_ready = TRUE])
    BY <1>7
  <2> DEFINE f == [e EXCEPT !.target_fd = fd, !.target_ready = TRUE]
  <2>0. fd \in Free /\ fd \in FDs /\ fd # NoFd
    BY LowestIn, Constants DEF Free
  <2>1. f \in Entry /\ f.client_fd = NoFd /\ f.target_fd = fd /\ f.ht_conn = {}
    <3> HIDE DEF e
    <3> QED BY <1>4, <2>0 DEF Entry
  <2>2. SessionOf(f).target = {fd}
    <3> HIDE DEF f
    <3> QED BY <2>0, <2>1 DEF SessionOf
  <2> HIDE DEF f
  <2>3. SetEntry(idx, f)
    BY DEF f
  <2>4. SessionOf(f).target \in (SUBSET Free) \ {{}}
    BY <2>0, <2>2
  <2> HIDE DEF e
  <2> QED BY <1>5, <2>1, <2>3, <2>4
<1>8. CASE SetEntry(idx, e)
  <2>1. e.client_fd = connections[idx].client_fd
    BY <1>2, <1>3 DEF Book, SessionOf, Entry
  <2> HIDE DEF e
  <2> QED BY <1>1, <1>2, <1>4, <1>8, <2>1, TouchStutters
<1> QED BY <1>6, <1>7, <1>8 DEF TryReconnectTarget

LEMMA DisconnectLeaves == OwnInv /\ ClientEofKept => Implements
<1> SUFFICES ASSUME OwnInv, ClientEofKept PROVE Implements
  OBVIOUS
<1> Table /\ TypeOK
  BY TypeParts DEF OwnInv, TypeInv
<1>1. /\ idx <= connection_count /\ E.client_fd \in readfds
      /\ SetEntry(idx, DisconnectedEntry(E)) /\ pc = "client" /\ pc' = "client"
  BY DEF ClientEofKept, ClientRecv, InPass, Goto
<1>2. idx \in Slots /\ E \in Entry /\ DisconnectedEntry(E) \in Entry
  BY <1>1, EType, EntryUpdates
<1>3. E.client_fd # NoFd
  BY <1>1, Constants DEF TypeOK
<1>4. /\ SessionOf(DisconnectedEntry(E)).client = NoFd
      /\ SessionOf(DisconnectedEntry(E)).target \in {SessionOf(E).target, {}}
  BY <1>2 DEF DisconnectedEntry, SessionOf, Entry
<1> DEFINE kept == SessionOf(DisconnectedEntry(E)).target
<1>5. SessionOf(DisconnectedEntry(E)) = [client |-> NoFd, target |-> kept]
  BY <1>4 DEF SessionOf
<1>6. Book' = [Book EXCEPT ![idx] = [client |-> NoFd, target |-> kept]]
  BY <1>1, <1>2, <1>5, EntrySet
<1>7. Book[idx].client # NoFd /\ kept \in {Book[idx].target, {}}
  BY <1>2, <1>3, <1>4 DEF Book, E, SessionOf
<1> HIDE DEF kept
<1>8. Sessions!Leave(idx)
  BY <1>1, <1>6, <1>7 DEF Sessions!Leave, Sessions!Change, Book
<1> QED BY <1>2, <1>8, BookType DEF Implements, Sessions!Next

-----------------------------------------------------------------------------
(* Without fast reconnect no entry ever waits for a client, so that the new    *)
(* target AcceptNew dials never stands beside one that is held ready.          *)

NobodyWaits == \A i \in Slots : connections[i].client_disconnected => EnableFast

LEMMA WaitSame == NobodyWaits /\ UNCHANGED tableVars => NobodyWaits'
BY DEF NobodyWaits, tableVars, Slots

LEMMA WaitEntry ==
  ASSUME Table, NobodyWaits, NEW i \in Slots, NEW e, SetEntry(i, e),
         e.client_disconnected => EnableFast
  PROVE  NobodyWaits'
BY DEF NobodyWaits, SetEntry, Slots, Table

LEMMA WaitCleanup ==
  ASSUME Table, NobodyWaits, NEW i \in Slots, Cleanup(i)
  PROVE  NobodyWaits'
BY Constants DEF NobodyWaits, Cleanup, Slots, Table

LEMMA WaitStep == OwnInv /\ NobodyWaits /\ [Next]_vars => NobodyWaits'
<1> SUFFICES ASSUME OwnInv, NobodyWaits, [Next]_vars PROVE NobodyWaits'
  OBVIOUS
<1> Table /\ TypeOK
  BY TypeParts DEF OwnInv, TypeInv
<1>1. CASE \/ Top \/ ScanSkip \/ ScanEnd \/ EnterSelect \/ SelectReturns \/ NoAccept
           \/ AcceptFails \/ AcceptRejects \/ PassEnd \/ ClientQuiet
           \/ ClientEofHybrid \/ TargetQuiet \/ ClientArrives \/ Signal
           \/ ClientToTarget \/ TargetToClient
           \/ UNCHANGED vars \/ \E fd \in TcpSockets : PeerActs(fd)
  <2>1. UNCHANGED tableVars
    BY <1>1 DEF vars, tableVars, Top, ScanSkip, ScanEnd, EnterSelect, EnterSelectOn,
         SelectReturns, NoAccept, AcceptFails, AcceptRejects, PassEnd, ClientQuiet,
         ClientEofHybrid, TargetQuiet, ClientArrives, Signal, PeerActs,
         ClientToTarget, TargetToClient
  <2> QED BY <2>1, WaitSame
<1>2. CASE Shutdown
  BY <1>2 DEF Shutdown, NobodyWaits, Slots
<1>3. ASSUME NEW i \in Slots, NEW e, SetEntry(i, e),
             e.client_disconnected => connections[i].client_disconnected
      PROVE  NobodyWaits'
  BY <1>3, WaitEntry DEF NobodyWaits
<1>4. ASSUME idx <= connection_count, Cleanup(idx) PROVE NobodyWaits'
  BY <1>4, EType, WaitCleanup
<1>5. ASSUME idx <= connection_count, SetEntry(idx, Touched(E)) PROVE NobodyWaits'
  <2>1. Touched(E).client_disconnected = E.client_disconnected
    BY <1>5, EType DEF Touched, Entry
  <2> QED BY <1>3, <1>5, <2>1, EType DEF E
<1>6. CASE TryReconnectTarget
  <2>0. /\ idx <= connection_count /\ idx \in Slots /\ connections[idx] \in Entry
        /\ connections[idx].client_disconnected
    BY <1>6, EType DEF TryReconnectTarget, WantsReconnect, Table
  <2>1. PICK e : SetEntry(idx, e)
    BY <1>6 DEF TryReconnectTarget
  <2> QED BY <1>3, <2>0, <2>1
<1>7. CASE AcceptReuse
  <2>1. PICK i \in Lowest(Standby) : \E e : SetEntry(i, e)
    BY <1>7 DEF AcceptReuse
  <2>2. i \in Slots /\ connections[i].client_disconnected
    BY LowestIn DEF Standby, Reusable
  <2> QED BY <1>3, <2>1, <2>2
<1>8. CASE AcceptNew
  <2>1. PICK client : \E target :
       /\ connections' = [j \in 1 .. (connection_count + 1) |->
                            IF j <= connection_count THEN connections[j]
                                                     ELSE NewEntry(client, target)]
       /\ connection_count' = connection_count + 1
    BY <1>8 DEF AcceptNew, AcceptNewUpTo
  <2>2. PICK target :
       /\ connections' = [j \in 1 .. (connection_count + 1) |->
                            IF j <= connection_count THEN connections[j]
                                                     ELSE NewEntry(client, target)]
       /\ connection_count' = connection_count + 1
    BY <2>1
  <2> QED BY <2>2, Constants DEF NobodyWaits, Slots, Table, NewEntry
<1>9. CASE TimedOut
  BY <1>4, <1>9 DEF TimedOut, InPass
<1>10. ASSUME NEW outcome, ClientRecv(outcome) PROVE idx <= connection_count
  BY <1>10 DEF ClientRecv, InPass
<1>11. CASE SentToTarget \/ SentToClient
  BY <1>5, <1>11 DEF SentToTarget, SentToClient, Sent, InPass
<1>12. CASE ClientToHybrid
  <2>1. SetEntry(idx, Touched(E)) \/ SetEntry(idx, E)
    BY <1>12 DEF ClientToHybrid
  <2>2. idx <= connection_count
    BY <1>10, <1>12 DEF ClientToHybrid
  <2> QED BY <1>3, <1>5, <2>1, <2>2, EType DEF E
<1>13. CASE ClientEofKept
  <2>1. EnableFast /\ SetEntry(idx, DisconnectedEntry(E)) /\ idx <= connection_count
    BY <1>10, <1>13 DEF ClientEofKept
  <2> QED BY <2>1, WaitEntry, EType
<1>14. CASE ClientEofDropped \/ ClientReset
  BY <1>4, <1>10, <1>14 DEF ClientEofDropped, ClientReset, Drop
<1>15. ASSUME NEW outcomes, TargetRecv(outcomes) PROVE idx <= connection_count
  BY <1>15 DEF TargetRecv, InPass
<1>16. CASE TargetLost
  BY <1>4, <1>15, <1>16 DEF TargetLost, Drop
<1>17. CASE HybridToClient
  BY <1>4, <1>5, <1>17, WaitSame DEF HybridToClient, InPass, Drop
<1>18. CASE Tick
  <2>1. Slots' = Slots /\ \A i \in Slots :
          connections'[i].client_disconnected = connections[i].client_disconnected
    BY <1>18 DEF Tick, Table, Entry, Slots
  <2> QED BY <2>1 DEF NobodyWaits
<1>19. CASE SendFails
  BY <1>4, <1>19 DEF SendFails, InPass, Drop
<1> QED BY <1>1, <1>2, <1>6, <1>7, <1>8, <1>9, <1>11, <1>12, <1>13, <1>14, <1>16,
           <1>17, <1>18, <1>19 DEF Next, Loop, Steps, Sends, World

-----------------------------------------------------------------------------
LEMMA InitImplements == Init => Sessions!Init
<1> SUFFICES ASSUME Init PROVE Sessions!Init
  OBVIOUS
<1>1. Book = <<>>
  BY DEF Init, Book, Slots
<1> QED BY <1>1 DEF Sessions!Init, Init, Book

LEMMA StepImplements == OwnInv /\ NobodyWaits /\ [Next]_vars => Implements
<1> SUFFICES ASSUME OwnInv, NobodyWaits, [Next]_vars PROVE Implements
  OBVIOUS
<1> Table /\ TypeOK
  BY TypeParts DEF OwnInv, TypeInv
<1>1. CASE \/ Top \/ ScanSkip \/ ScanEnd \/ EnterSelect \/ SelectReturns \/ NoAccept
           \/ AcceptFails \/ AcceptRejects \/ PassEnd \/ ClientQuiet
           \/ ClientEofHybrid \/ TargetQuiet \/ ClientArrives \/ Signal
           \/ ClientToTarget \/ TargetToClient
           \/ UNCHANGED vars \/ \E fd \in TcpSockets : PeerActs(fd)
  <2>1. UNCHANGED tableVars
    BY <1>1 DEF vars, tableVars, Top, ScanSkip, ScanEnd, EnterSelect, EnterSelectOn,
         SelectReturns, NoAccept, AcceptFails, AcceptRejects, PassEnd, ClientQuiet,
         ClientEofHybrid, TargetQuiet, ClientArrives, Signal, PeerActs,
         ClientToTarget, TargetToClient
  <2>2. (pc' = "exit") = (pc = "exit")
    BY <1>1 DEF vars, Goto, Top, ScanSkip, ScanEnd, EnterSelect, EnterSelectOn,
         SelectReturns, NoAccept, Accepting, AcceptFails, AcceptRejects, PassEnd,
         InPass, ClientQuiet, ClientRecv, ClientEofHybrid, TargetQuiet, ClientArrives,
         Signal, PeerActs, ClientToTarget, TargetToClient, TargetRecv
  <2> QED BY <2>1, <2>2, SameTableStutters
<1>2. CASE Shutdown
  <2>1. Book' = <<>> /\ pc' = "exit"
    BY <1>2 DEF Shutdown, Goto, Book, Slots
  <2>2. Sessions!EndAll
    BY <2>1 DEF Sessions!EndAll, Book
  <2> QED BY <2>2 DEF Implements, Sessions!Next
<1>3. ASSUME idx <= connection_count, Cleanup(idx), pc # "exit", pc' # "exit"
      PROVE  Implements
  BY <1>3, EType, CleanupEnds
<1>4. ASSUME idx <= connection_count, SetEntry(idx, Touched(E)), pc # "exit", pc' # "exit"
      PROVE  Implements
  <2>1. /\ Touched(E) \in Entry /\ idx \in Slots
        /\ Touched(E).client_fd = connections[idx].client_fd
        /\ Touched(E).target_fd = connections[idx].target_fd
        /\ Touched(E).ht_conn = connections[idx].ht_conn
    BY <1>4, EType, EntryUpdates DEF Touched, Entry, E
  <2> QED BY <1>4, <2>1, TouchStutters
<1>5. CASE AcceptNew
  <2>1. Standby = {}
    BY <1>5 DEF AcceptNew, AcceptNewUpTo
  <2>2. \A i \in Slots : ~Reusable(i)
    BY <2>1 DEF Standby, NobodyWaits, Reusable
  <2> QED BY <1>5, <2>1, <2>2, AcceptBegins
<1>6. CASE TimedOut
  BY <1>3, <1>6 DEF TimedOut, InPass, Goto
<1>7. ASSUME NEW outcome, ClientRecv(outcome)
      PROVE  idx <= connection_count /\ pc = "client"
  BY <1>7 DEF ClientRecv, InPass
<1>8. CASE SentToTarget \/ SentToClient
  BY <1>4, <1>8 DEF SentToTarget, SentToClient, Sent, InPass, Goto
<1>9. CASE ClientToHybrid
  <2>1. SetEntry(idx, Touched(E)) \/ SetEntry(idx, E)
    BY <1>9 DEF ClientToHybrid
  <2>2. idx <= connection_count /\ pc = "client" /\ pc' = "target"
    BY <1>7, <1>9 DEF ClientToHybrid, Goto
  <2>3. CASE SetEntry(idx, E)
    <3>1. idx \in Slots /\ E \in Entry /\ E = connections[idx]
      BY <2>2, EType DEF E
    <3> QED BY <2>2, <2>3, <3>1, TouchStutters
  <2> QED BY <1>4, <2>1, <2>2, <2>3
<1>10. CASE ClientEofDropped \/ ClientReset
  BY <1>3, <1>7, <1>10 DEF ClientEofDropped, ClientReset, Drop, Goto
<1>11. ASSUME NEW outcomes, TargetRecv(outcomes)
       PROVE  idx <= connection_count /\ pc = "target"
  BY <1>11 DEF TargetRecv, InPass
<1>12. CASE TargetLost
  BY <1>3, <1>11, <1>12 DEF TargetLost, Drop, Goto
<1>13. CASE HybridToClient
  <2>1. idx <= connection_count /\ pc = "target" /\ pc' = "client"
    BY <1>13 DEF HybridToClient, InPass, Drop, Goto
  <2>2. UNCHANGED tableVars \/ SetEntry(idx, Touched(E)) \/ Cleanup(idx)
    BY <1>13 DEF HybridToClient, Drop
  <2> QED BY <1>3, <1>4, <2>1, <2>2, SameTableStutters
<1>14. CASE Tick
  <2>1. \A i \in Slots : SessionOf(connections'[i]) = SessionOf(connections[i])
    BY <1>14 DEF Tick, Table, Entry, SessionOf
  <2>2. Slots' = Slots /\ pc' = pc
    BY <1>14 DEF Tick, Slots
  <2>3. Book' = [i \in Slots' |-> SessionOf(connections'[i])]
    BY DEF Book, SessionOf
  <2>4. Book' = Book
    BY <2>1, <2>2, <2>3 DEF Book
  <2> QED BY <2>2, <2>4, StutterStep
<1>15. CASE SendFails
  BY <1>3, <1>15 DEF SendFails, InPass, Drop, Goto
<1> QED BY <1>1, <1>2, <1>5, <1>6, <1>8, <1>9, <1>10, <1>12, <1>13, <1>14, <1>15,
           RedialSteps, ReuseJoins, DisconnectLeaves DEF Next, Loop, Steps, Sends, World

(* The event loop is a list of sessions: each of its steps begins, ends or     *)
(* changes one of them or leaves the list alone, whatever the descriptors, the *)
(* readiness bits and the compaction of the table did in between.              *)
THEOREM SessionsImplemented == Spec => ImplementsSessions
<1>1. Init => NobodyWaits
  BY DEF Init, NobodyWaits, Slots
<1>2. OwnInv /\ NobodyWaits /\ [Next]_vars => NobodyWaits'
  BY WaitStep
<1>3. OwnInv /\ NobodyWaits /\ [Next]_vars => [Sessions!Next]_Sessions!sessionVars
  BY StepImplements DEF Implements
<1> QED BY <1>1, <1>2, <1>3, InitImplements, OwnInvariant, PTL
        DEF Spec, ImplementsSessions, Sessions!Spec
=============================================================================
