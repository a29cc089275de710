---------------------------- MODULE HybridProofs ----------------------------
(***************************************************************************)
(* Machine-checked proofs about module HybridTransport, for every mode,    *)
(* every limit and size, any number of packets, channels that lose,        *)
(* repeat and reorder, and any readings of the clock.                      *)
(***************************************************************************)
EXTENDS HybridTransport, DataLemmas

-----------------------------------------------------------------------------
(* Walking a list *)

\* f lists the positions of s up to m that are in P, and t what is there.
Selects(f, t, s, m, P) ==
  /\ Len(t) <= m
  /\ f \in [1 .. Len(t) -> 1 .. m]
  /\ \A i \in 1 .. Len(t) : f[i] \in P /\ t[i] = s[f[i]]
  /\ \A i, j \in 1 .. Len(t) : i < j => f[i] < f[j]
  /\ \A k \in 1 .. m : k \in P => \E i \in 1 .. Len(t) : f[i] = k

Selection(t, s, m, P) == \E f : Selects(f, t, s, m, P)

LEMMA SelectsMore ==
  ASSUME NEW S, NEW s \in Seq(S), NEW t \in Seq(S), NEW P, NEW m \in 1 .. Len(s),
         Selection(t, s, m - 1, P)
  PROVE  /\ m \in P => Selection(Append(t, s[m]), s, m, P)
         /\ m \notin P => Selection(t, s, m, P)
<1>0. Len(s) \in Nat /\ Len(t) \in Nat /\ m \in Nat /\ m - 1 \in Nat
  BY LenProperties
<1>1. PICK f : Selects(f, t, s, m - 1, P)
  BY DEF Selection
<1>2. /\ Len(t) <= m - 1
      /\ f \in [1 .. Len(t) -> 1 .. m - 1]
      /\ \A i \in 1 .. Len(t) : f[i] \in P /\ t[i] = s[f[i]]
      /\ \A i, j \in 1 .. Len(t) : i < j => f[i] < f[j]
      /\ \A k \in 1 .. m - 1 : k \in P => \E i \in 1 .. Len(t) : f[i] = k
  BY <1>1 DEF Selects
<1>3. ASSUME m \in P PROVE Selection(Append(t, s[m]), s, m, P)
  <2> DEFINE n == Len(t)
             u == Append(t, s[m])
             g == [i \in 1 .. n + 1 |-> IF i = n + 1 THEN m ELSE f[i]]
  <2>1. /\ Len(u) = n + 1 /\ u[n + 1] = s[m]
        /\ \A i \in 1 .. n : u[i] = t[i]
    <3>1. s[m] \in S
      BY ElementOfSeq
    <3> QED BY <3>1, AppendProperties
  <2>2. \A i \in 1 .. n + 1 : i # n + 1 => i \in 1 .. n
    BY <1>0
  <2>3. /\ g[n + 1] = m /\ \A i \in 1 .. n : g[i] = f[i] /\ f[i] \in 1 .. m - 1
    BY <1>0, <1>2
  <2>4. g \in [1 .. n + 1 -> 1 .. m]
    <3>1. ASSUME NEW i \in 1 .. n + 1 PROVE g[i] \in 1 .. m
      <4> HIDE DEF g
      <4>1. CASE i = n + 1
        BY <1>0, <2>3, <4>1
      <4>2. CASE i # n + 1
        <5>1. g[i] \in 1 .. m - 1
          BY <2>2, <2>3, <4>2
        <5> QED BY <1>0, <5>1
      <4> QED BY <4>1, <4>2
    <3> QED BY <3>1
  <2> HIDE DEF u, g
  <2>5. \A i \in 1 .. n + 1 : g[i] \in P /\ u[i] = s[g[i]]
    BY <1>2, <1>3, <2>1, <2>2, <2>3
  <2>6. \A i, j \in 1 .. n + 1 : i < j => g[i] < g[j]
    <3> SUFFICES ASSUME NEW i \in 1 .. n + 1, NEW j \in 1 .. n + 1, i < j
                 PROVE  g[i] < g[j]
      OBVIOUS
    <3>1. i \in 1 .. n
      BY <1>0
    <3>2. CASE j = n + 1
      BY <1>0, <2>3, <3>1, <3>2
    <3>3. CASE j # n + 1
      BY <1>2, <2>2, <2>3, <3>1, <3>3
    <3> QED BY <3>2, <3>3
  <2>7. ASSUME NEW k \in 1 .. m, k \in P PROVE \E i \in 1 .. n + 1 : g[i] = k
    <3>1. CASE k = m
      BY <1>0, <2>3, <3>1
    <3>2. CASE k # m
      <4>1. k \in 1 .. m - 1
        BY <1>0, <3>2
      <4>2. PICK i \in 1 .. n : f[i] = k
        BY <1>2, <2>7, <4>1
      <4> QED BY <1>0, <2>3, <4>2
    <3> QED BY <3>1, <3>2
  <2>8. Len(u) <= m
    BY <1>0, <1>2, <2>1
  <2>9. Selects(g, u, s, m, P)
    BY <2>1, <2>4, <2>5, <2>6, <2>7, <2>8 DEF Selects
  <2> QED BY <2>9 DEF Selection, u
<1>4. ASSUME m \notin P PROVE Selection(t, s, m, P)
  <2>1. f \in [1 .. Len(t) -> 1 .. m]
    BY <1>0, <1>2
  <2>2. \A k \in 1 .. m : k \in P => k \in 1 .. m - 1
    BY <1>0, <1>4
  <2>3. Len(t) <= m
    BY <1>0, <1>2
  <2>4. Selects(f, t, s, m, P)
    BY <1>2, <2>1, <2>2, <2>3 DEF Selects
  <2> QED BY <2>4 DEF Selection
<1> QED BY <1>3, <1>4

\* What Pick() computes: the chosen entries, all of them, in their order.
LEMMA PickSelects ==
  ASSUME NEW S, NEW s \in Seq(S), NEW P
  PROVE  Pick(s, P) \in Seq(S) /\ Selection(Pick(s, P), s, Len(s), P)
<1>0. Len(s) \in Nat /\ <<>> \in Seq(S) /\ \A i \in 1 .. Len(s) : s[i] \in S
  BY LenProperties, EmptySeq, ElementOfSeq
<1> DEFINE n == Len(s)
           next(i, t) == IF i \in P THEN Append(t, s[i]) ELSE t
           step == [i \in 1 .. n |-> [t \in Seq(S) |-> next(i, t)]]
           body(g) == [i \in 0 .. n |->
                         IF i = 0 THEN <<>>
                         ELSE IF i \in P THEN Append(g[i - 1], s[i]) ELSE g[i - 1]]
           run == CHOOSE g : g = body(g)
<1>1. \A i \in 1 .. n : \A t \in Seq(S) : next(i, t) \in Seq(S)
  BY <1>0, AppendProperties
<1>2. step \in [1 .. n -> [Seq(S) -> Seq(S)]]
  BY <1>1
<1>3. \A i \in 1 .. n : \A t \in Seq(S) : step[i][t] = next(i, t)
  OBVIOUS
<1> HIDE DEF step
<1>4. PICK h \in [0 .. n -> Seq(S)] :
        h[0] = <<>> /\ \A i \in 1 .. n : h[i] = step[i][h[i - 1]]
  <2>1. PICK g : Follows(g, n, Seq(S), <<>>, step)
    BY <1>0, <1>2, RecursionDefines
  <2> QED BY <2>1 DEF Follows
<1>5. \A i \in 1 .. n : h[i] = next(i, h[i - 1])
  <2> SUFFICES ASSUME NEW i \in 1 .. n PROVE h[i] = next(i, h[i - 1])
    OBVIOUS
  <2>1. i - 1 \in 0 .. n
    BY <1>0
  <2>2. h[i - 1] \in Seq(S)
    BY <2>1
  <2> HIDE DEF next
  <2> QED BY <1>3, <1>4, <2>2
<1>6. h = body(h)
  <2>1. \A i \in 0 .. n : h[i] = IF i = 0 THEN <<>>
                                 ELSE IF i \in P THEN Append(h[i - 1], s[i]) ELSE h[i - 1]
    <3> SUFFICES ASSUME NEW i \in 0 .. n
                 PROVE  h[i] = IF i = 0 THEN <<>>
                               ELSE IF i \in P THEN Append(h[i - 1], s[i]) ELSE h[i - 1]
      OBVIOUS
    <3>1. CASE i = 0
      BY <1>4, <3>1
    <3>2. CASE i # 0
      <4>1. i \in 1 .. n
        BY <1>0, <3>2
      <4> QED BY <1>5, <3>2, <4>1
    <3> QED BY <3>1, <3>2
  <2> QED BY <2>1
<1>7. run = body(run)
  BY <1>6
<1>8. Pick(s, P) = run[n]
  BY DEF Pick
<1> HIDE DEF run
<1>9. run[0] = <<>> /\ \A i \in 1 .. n : run[i] = next(i, run[i - 1])
  <2>1. \A i \in 0 .. n : run[i] = body(run)[i]
    BY <1>7
  <2>2. 0 \in 0 .. n /\ \A i \in 1 .. n : i \in 0 .. n /\ i # 0
    BY <1>0
  <2>3. run[0] = <<>>
    BY <2>1, <2>2
  <2>4. ASSUME NEW i \in 1 .. n PROVE run[i] = next(i, run[i - 1])
    <3>1. run[i] = body(run)[i]
      BY <2>1, <2>2
    <3>2. body(run)[i] = next(i, run[i - 1])
      BY <2>2
    <3> QED BY <3>1, <3>2
  <2> QED BY <2>3, <2>4
<1> HIDE DEF next
<1> DEFINE T == {i \in 0 .. n : run[i] \in Seq(S) /\ Selection(run[i], s, i, P)}
<1>10. 0 \in T
  <2>1. Selects(<<>>, <<>>, s, 0, P)
    BY DEF Selects
  <2>2. Selection(<<>>, s, 0, P)
    BY <2>1 DEF Selection
  <2>3. run[0] \in Seq(S) /\ Selection(run[0], s, 0, P)
    BY <1>0, <1>9, <2>2
  <2>4. 0 \in 0 .. n
    BY <1>0
  <2> QED BY <2>3, <2>4
<1>11. ASSUME NEW i \in 1 .. n, i - 1 \in T PROVE i \in T
  <2>1. run[i] \in Seq(S)
    BY <1>1, <1>9, <1>11
  <2>2. run[i - 1] \in Seq(S) /\ Selection(run[i - 1], s, i - 1, P)
    BY <1>11
  <2>3. Selection(run[i], s, i, P)
    BY <1>9, <2>2, SelectsMore DEF next
  <2>4. i \in 0 .. n
    BY <1>0
  <2> QED BY <2>1, <2>3, <2>4
<1>12. n \in T
  <2> HIDE DEF T
  <2>1. 0 .. n \subseteq T
    BY <1>0, <1>10, <1>11, InductionUpTo
  <2> QED BY <1>0, <2>1
<1> QED BY <1>8, <1>12

-----------------------------------------------------------------------------
(* The types, those of the packets included *)

Payloads == {p \in Seq(Nat) : Len(p) \in 1 .. MaxPayload}
Held     == [sequence : Numbers, payload : Payloads]
Unacked  == [sequence : Numbers, payload : Payloads,
             age : 0 .. RetransmitTimeout + 1, retransmit_count : 0 .. MaxRetransmit]
Packets  == [type : {"DATA", "ACK", "HEARTBEAT", "CONTROL"},
             sequence : Numbers, ack : Numbers, payload : Seq(Nat)]
Wire     == {p \in Packets : p.type = "DATA" => p.payload \in Payloads}

PhaseTypes ==
  /\ phase \in [Nodes -> {"connected", "draining", "down", "destroyed"}]
  /\ tcp_open \in BOOLEAN
NumberTypes ==
  /\ first_sequence \in [Nodes -> Numbers]
  /\ send_sequence \in [Nodes -> Numbers]
  /\ recv_sequence \in [Nodes -> Numbers]
ListTypes ==
  /\ send_buffer \in [Nodes -> Seq(Unacked)]
  /\ recv_buffer \in [Nodes -> Seq(Held)]
  /\ \A n \in Nodes : Len(recv_buffer[n]) <= MaxStored
NetTypes ==
  /\ udp \in [Nodes -> SUBSET Wire]
  /\ tcp \in [Nodes -> Seq(Wire)]
  /\ \A n \in Nodes : Len(tcp[n]) <= TcpRoom
ClockTypes ==
  /\ last_activity \in [Nodes -> 0 .. IdleLimit + 1]
  /\ last_heartbeat \in [Nodes -> 0 .. HeartbeatInterval + 1]
ByteTypes ==
  /\ accepted \in [Nodes -> Nat]
  /\ \A n \in Nodes : accepted[n] <= Limit[n]
  /\ unpacked \in [Nodes -> Seq(Nat)]
  /\ delivered \in [Nodes -> Seq(Nat)]

TypeInv ==
  PhaseTypes /\ NumberTypes /\ ListTypes /\ NetTypes /\ ClockTypes /\ ByteTypes

LEMMA PeerFacts ==
  ASSUME NEW n \in Nodes
  PROVE  /\ Peer(n) \in Nodes /\ Peer(n) # n /\ Peer(Peer(n)) = n
         /\ \A m \in Nodes : m = n \/ m = Peer(n)
BY DEF Nodes, Peer

LEMMA NumberFacts ==
  /\ SequenceModulus \in Nat \ {0} /\ 0 \in Numbers /\ Numbers \subseteq Nat
  /\ \A k \in Nat : k % SequenceModulus \in Numbers
<1>1. SequenceModulus \in Nat \ {0}
  BY HybridAssumption
<1>2. \A k \in Nat : k % SequenceModulus \in 0 .. SequenceModulus - 1
  BY <1>1
<1> QED BY <1>1, <1>2 DEF Numbers

LEMMA TypesGiveOK == TypeInv => TypeOK
<1> SUFFICES ASSUME TypeInv PROVE TypeOK
  OBVIOUS
<1> USE DEF TypeInv, PhaseTypes, NumberTypes, ListTypes, NetTypes, ClockTypes, ByteTypes
<1>1. ASSUME NEW n \in Nodes, NEW i \in Positions(send_buffer[n])
      PROVE  send_buffer[n][i] \in Unacked
  <2>1. send_buffer[n] \in Seq(Unacked)
    OBVIOUS
  <2> QED BY <1>1, <2>1, ElementOfSeq DEF Positions
<1>2. ASSUME NEW n \in Nodes
      PROVE  /\ \A i \in Positions(send_buffer[n]) :
                  /\ send_buffer[n][i].sequence \in Numbers
                  /\ Len(send_buffer[n][i].payload) \in 1 .. MaxPayload
                  /\ send_buffer[n][i].age \in 0 .. RetransmitTimeout + 1
                  /\ send_buffer[n][i].retransmit_count \in 0 .. MaxRetransmit
             /\ Len(recv_buffer[n]) <= MaxStored
             /\ Len(tcp[n]) <= TcpRoom
             /\ accepted[n] \in 0 .. Limit[n]
  <2>1. accepted[n] \in Nat /\ Limit[n] \in Nat /\ accepted[n] <= Limit[n]
    BY HybridAssumption
  <2>2. accepted[n] \in 0 .. Limit[n]
    BY <2>1
  <2> QED BY <1>1, <2>2 DEF Unacked, Payloads
<1> QED BY <1>2 DEF TypeOK

LEMMA TypesInitially == Init => TypeInv
<1> SUFFICES ASSUME Init PROVE TypeInv
  OBVIOUS
<1>1. PhaseTypes
  BY HybridAssumption DEF Init, PhaseTypes
<1>2. NumberTypes
  BY HybridAssumption, NumberFacts DEF Init, NumberTypes, Numbers
<1>3. ListTypes
  BY HybridAssumption, EmptySeq DEF Init, ListTypes
<1>4. NetTypes
  BY HybridAssumption, EmptySeq DEF Init, NetTypes
<1>5. ClockTypes
  BY HybridAssumption DEF Init, ClockTypes
<1>6. ByteTypes
  BY HybridAssumption, EmptySeq DEF Init, ByteTypes
<1> QED BY <1>1, <1>2, <1>3, <1>4, <1>5, <1>6 DEF TypeInv

LEMMA NumberTaken ==
  ASSUME TypeInv, NEW n \in Nodes, TakeNumber(n)
  PROVE  send_sequence' \in [Nodes -> Numbers]
<1>1. send_sequence \in [Nodes -> Numbers]
  BY DEF TypeInv, NumberTypes
<1>2. send_sequence[n] + 1 \in Nat
  <2>1. send_sequence[n] \in Nat
    BY <1>1, NumberFacts
  <2> QED BY <2>1
<1>3. (send_sequence[n] + 1) % SequenceModulus \in Numbers
  BY <1>2, NumberFacts
<1> QED BY <1>1, <1>3 DEF TakeNumber

\* A packet put on a channel that has room for it.
LEMMA SentTypes ==
  ASSUME TypeInv, NEW n \in Nodes, NEW packet \in Wire, NEW use_tcp \in BOOLEAN,
         Transmit(n, Route(n, use_tcp), packet)
  PROVE  NetTypes'
<1>1. /\ udp \in [Nodes -> SUBSET Wire] /\ tcp \in [Nodes -> Seq(Wire)]
      /\ \A m \in Nodes : Len(tcp[m]) <= TcpRoom
      /\ Peer(n) \in Nodes /\ TcpRoom \in Nat
  BY PeerFacts, HybridAssumption DEF TypeInv, NetTypes
<1>2. udp' \in [Nodes -> SUBSET Wire]
  BY <1>1 DEF Transmit
<1>3. ASSUME Route(n, use_tcp) = "tcp"
      PROVE  tcp' \in [Nodes -> Seq(Wire)] /\ \A m \in Nodes : Len(tcp'[m]) <= TcpRoom
  <2>1. CanTcp(n)
    BY <1>3 DEF Route
  <2>2. TcpRoom - Len(tcp[Peer(n)]) > 0
    BY <2>1 DEF CanTcp, TcpSpace
  <2>3. /\ Append(tcp[Peer(n)], packet) \in Seq(Wire)
        /\ Len(Append(tcp[Peer(n)], packet)) = Len(tcp[Peer(n)]) + 1
        /\ Len(tcp[Peer(n)]) \in Nat
    BY <1>1, AppendProperties, LenProperties
  <2>4. tcp' = [tcp EXCEPT ![Peer(n)] = Append(tcp[Peer(n)], packet)]
    BY <1>3 DEF Transmit
  <2> QED BY <1>1, <2>2, <2>3, <2>4
<1>4. ASSUME Route(n, use_tcp) # "tcp" PROVE tcp' = tcp
  BY <1>4 DEF Transmit
<1> QED BY <1>1, <1>2, <1>3, <1>4 DEF NetTypes

\* The bytes from a + 1 on.
Stretch(a, size) == [i \in 1 .. size |-> a + i]

LEMMA StretchTypes ==
  ASSUME NEW a \in Nat, NEW size \in Nat
  PROVE  Stretch(a, size) \in Seq(Nat) /\ Len(Stretch(a, size)) = size
<1>1. \A i \in 1 .. size : a + i \in Nat
  OBVIOUS
<1> QED BY <1>1 DEF Stretch

LEMMA SendDataTypes ==
  ASSUME TypeInv, NEW n \in Nodes, NEW size \in 1 .. MaxPayload, SendData(n, size)
  PROVE  TypeInv'
<1>1. accepted[n] \in Nat /\ size \in Nat /\ Limit[n] \in Nat
  BY HybridAssumption DEF TypeInv, ByteTypes
<1> DEFINE payload == [i \in 1 .. size |-> accepted[n] + i]
           packet  == Packet("DATA", send_sequence[n], 0, payload)
<1>2. payload \in Payloads
  <2>1. payload = Stretch(accepted[n], size)
    BY DEF Stretch
  <2> QED BY <1>1, <2>1, StretchTypes DEF Payloads
<1>3. send_sequence[n] \in Numbers
  BY DEF TypeInv, NumberTypes
<1>4. packet \in Wire
  BY <1>2, <1>3, NumberFacts DEF Packet, Wire, Packets, Payloads
<1>5. PICK use_tcp \in ShouldUseTcp :
        /\ Transmit(n, Route(n, use_tcp), packet)
        /\ IF Route(n, use_tcp) = "none"
           THEN UNCHANGED <<send_buffer, accepted, last_activity>>
           ELSE /\ send_buffer' = [send_buffer EXCEPT ![n] = Buffered(@, Entry(n, payload))]
                /\ accepted' = [accepted EXCEPT ![n] = @ + size]
                /\ last_activity' = [last_activity EXCEPT ![n] = 0]
  BY DEF SendData
<1>6. use_tcp \in BOOLEAN
  BY <1>5 DEF ShouldUseTcp
<1> HIDE DEF payload, packet
<1>7. NetTypes'
  BY <1>4, <1>5, <1>6, SentTypes
<1>8. /\ accepted[n] + size <= Limit[n] /\ TakeNumber(n)
      /\ UNCHANGED <<phase, first_sequence, recv_sequence, recv_buffer,
                     last_heartbeat, unpacked, delivered, tcp_open>>
  BY DEF SendData
<1>9. PhaseTypes' /\ NumberTypes'
  BY <1>8, NumberTaken DEF TypeInv, PhaseTypes, NumberTypes
<1>10. Entry(n, payload) \in Unacked
  BY <1>2, <1>3, HybridAssumption DEF Entry, Unacked
<1>11. Buffered(send_buffer[n], Entry(n, payload)) \in Seq(Unacked)
  <2>1. <<Entry(n, payload)>> \in Seq(Unacked) /\ send_buffer[n] \in Seq(Unacked)
    BY <1>10 DEF TypeInv, ListTypes
  <2> QED BY <2>1, ConcatProperties DEF Buffered
<1>12. ListTypes'
  <2>1. send_buffer' \in [Nodes -> Seq(Unacked)]
    BY <1>5, <1>11 DEF TypeInv, ListTypes
  <2> QED BY <1>8, <2>1 DEF TypeInv, ListTypes
<1>13. ClockTypes'
  <2>1. 0 \in 0 .. IdleLimit + 1
    BY HybridAssumption
  <2> QED BY <1>5, <1>8, <2>1 DEF TypeInv, ClockTypes
<1>14. ByteTypes'
  <2>1. accepted[n] + size \in Nat
    BY <1>1
  <2>2. accepted' \in [Nodes -> Nat] /\ \A m \in Nodes : accepted'[m] <= Limit[m]
    BY <1>5, <1>8, <2>1 DEF TypeInv, ByteTypes
  <2> QED BY <1>8, <2>2 DEF TypeInv, ByteTypes
<1> QED BY <1>7, <1>9, <1>12, <1>13, <1>14 DEF TypeInv

-----------------------------------------------------------------------------
(* The scan of ht_recv_data() *)

LEMMA LeastExists ==
  \A n \in Nat : \A Q \in SUBSET (1 .. n) : Q # {} => \E i \in Q : \A j \in Q : i <= j
<1> SUFFICES ASSUME NEW n \in Nat
             PROVE  \A Q \in SUBSET (1 .. n) : Q # {} => \E i \in Q : \A j \in Q : i <= j
  OBVIOUS
<1> DEFINE T == {m \in 0 .. n : \A Q \in SUBSET (1 .. m) :
                   Q # {} => \E i \in Q : \A j \in Q : i <= j}
<1>1. 0 \in T
  <2>1. \A Q \in SUBSET (1 .. 0) : Q = {}
    OBVIOUS
  <2>2. 0 \in 0 .. n
    OBVIOUS
  <2>3. \A Q \in SUBSET (1 .. 0) : Q # {} => \E i \in Q : \A j \in Q : i <= j
    BY <2>1
  <2> QED BY <2>2, <2>3
<1>2. ASSUME NEW m \in 1 .. n, m - 1 \in T PROVE m \in T
  <2> SUFFICES ASSUME NEW Q \in SUBSET (1 .. m), Q # {}
               PROVE  \E i \in Q : \A j \in Q : i <= j
    OBVIOUS
  <2> DEFINE rest == Q \ {m}
  <2>1. rest \in SUBSET (1 .. (m - 1))
    OBVIOUS
  <2>2. CASE rest = {}
    <3>1. m \in Q /\ \A j \in Q : j = m
      BY <2>2
    <3>2. \A j \in Q : m <= j
      BY <3>1
    <3> QED BY <3>1, <3>2
  <2>3. CASE rest # {}
    <3>1. PICK i \in rest : \A j \in rest : i <= j
      <4> HIDE DEF rest
      <4> QED BY <1>2, <2>1, <2>3
    <3>2. i \in Q /\ i <= m
      OBVIOUS
    <3>3. \A j \in Q : i <= j
      BY <3>1, <3>2
    <3> QED BY <3>2, <3>3
  <2> QED BY <2>2, <2>3
<1>3. n \in T
  <2> HIDE DEF T
  <2>1. 0 .. n \subseteq T
    BY <1>1, <1>2, InductionUpTo
  <2> QED BY <2>1
<1> QED BY <1>3

LEMMA GreatestExists ==
  \A n \in Nat : \A Q \in SUBSET (1 .. n) : Q # {} => \E i \in Q : \A j \in Q : j <= i
<1> SUFFICES ASSUME NEW n \in Nat, NEW Q \in SUBSET (1 .. n), Q # {}
             PROVE  \E i \in Q : \A j \in Q : j <= i
  OBVIOUS
<1> DEFINE mirror == {k \in 1 .. n : n + 1 - k \in Q}
<1>1. mirror \in SUBSET (1 .. n) /\ mirror # {}
  <2>1. PICK k \in Q : TRUE
    OBVIOUS
  <2>2. n + 1 - k \in 1 .. n /\ n + 1 - (n + 1 - k) = k
    OBVIOUS
  <2> QED BY <2>2
<1>2. PICK k \in mirror : \A j \in mirror : k <= j
  <2> HIDE DEF mirror
  <2> QED BY <1>1, LeastExists
<1>3. n + 1 - k \in Q /\ k \in 1 .. n
  OBVIOUS
<1>4. ASSUME NEW j \in Q PROVE j <= n + 1 - k
  <2>1. n + 1 - j \in 1 .. n /\ n + 1 - (n + 1 - j) = j
    OBVIOUS
  <2>2. k <= n + 1 - j
    BY <1>2, <2>1
  <2> QED BY <1>3, <2>2
<1> QED BY <1>3, <1>4

\* The positions after i of a list at which number s stands.
Later(list, i, s) == {j \in Positions(list) : j > i /\ list[j].sequence = s}
NextAt(list, i, s) ==
  IF Later(list, i, s) = {} THEN Len(list) + 1
  ELSE CHOOSE j \in Later(list, i, s) : \A k \in Later(list, i, s) : j <= k

LEMMA NextAtIs ==
  ASSUME NEW list \in Seq(Held), NEW i \in Nat, NEW s
  PROVE  /\ NextAt(list, i, s) \in 1 .. Len(list) + 1
         /\ NextAt(list, i, s) \in Positions(list) =>
              i < NextAt(list, i, s) /\ list[NextAt(list, i, s)].sequence = s
<1>0. Len(list) \in Nat
  BY LenProperties
<1> DEFINE later == Later(list, i, s)
<1>1. later \in SUBSET (1 .. Len(list))
  BY DEF Later, Positions
<1>2. CASE later = {}
  BY <1>0, <1>2 DEF NextAt, Positions
<1>3. CASE later # {}
  <2>1. NextAt(list, i, s) \in later
    <3>1. \E j \in later : \A k \in later : j <= k
      <4> HIDE DEF later
      <4> QED BY <1>0, <1>1, <1>3, LeastExists
    <3>2. NextAt(list, i, s) = CHOOSE j \in later : \A k \in later : j <= k
      BY <1>3 DEF NextAt
    <3> HIDE DEF later
    <3> QED BY <3>1, <3>2
  <2>2. /\ NextAt(list, i, s) \in 1 .. Len(list)
        /\ i < NextAt(list, i, s) /\ list[NextAt(list, i, s)].sequence = s
    BY <2>1 DEF Later, Positions
  <2> QED BY <1>0, <2>2
<1> QED BY <1>2, <1>3

Expected(n, k) == (recv_sequence[n] + k - 1) % SequenceModulus
TakenOf(n) ==
  CHOOSE g : g = [k \in 0 .. Len(recv_buffer[n]) + 1 |->
                    IF k = 0 THEN 0
                    ELSE NextAt(recv_buffer[n], g[k - 1], Expected(n, k))]
BytesOf(n) ==
  CHOOSE g : g = [k \in 0 .. Len(recv_buffer[n]) |->
                    IF k = 0 THEN <<>>
                    ELSE IF TakenOf(n)[k] \in Positions(recv_buffer[n])
                         THEN g[k - 1] \o recv_buffer[n][TakenOf(n)[k]].payload
                         ELSE g[k - 1]]
CallsOf(n) ==
  {k \in Positions(recv_buffer[n]) :
     /\ TakenOf(n)[k] \in Positions(recv_buffer[n])
     /\ Len(BytesOf(n)[k - 1]) < ReadSize}
CountOf(n) ==
  IF CallsOf(n) = {} THEN 0 ELSE CHOOSE k \in CallsOf(n) : \A j \in CallsOf(n) : j <= k

\* The same by these names.
LEMMA RecvDataIs ==
  ASSUME NEW n \in Nodes, RecvData(n)
  PROVE  LET bytes == BytesOf(n)[CountOf(n)]
         IN /\ phase[n] = "connected"
            /\ CallsOf(n) # {}
            /\ unpacked' = [unpacked EXCEPT ![n] = @ \o bytes]
            /\ delivered' = [delivered EXCEPT ![n] =
                 @ \o SubSeq(bytes, 1, Smaller(ReadSize, Len(bytes)))]
            /\ recv_sequence' = [recv_sequence EXCEPT ![n] =
                 (@ + CountOf(n)) % SequenceModulus]
            /\ recv_buffer' = [recv_buffer EXCEPT ![n] =
                 Pick(recv_buffer[n], Positions(recv_buffer[n])
                        \ {TakenOf(n)[k] : k \in CallsOf(n)})]
            /\ UNCHANGED <<phase, first_sequence, send_sequence, send_buffer, clocks,
                           accepted, net, tcp_open>>
<1>1. TakenBy(Exactly, n) = TakenOf(n)
  BY DEF TakenBy, TakenOf, Exactly, NextAt, Later, Expected
<1>2. RecvDataBy(Exactly, n)
  BY DEF RecvData
<1> QED BY <1>2 DEF RecvDataBy, BytesOf, CallsOf, CountOf, TakenBy, TakenOf, Exactly, NextAt, Later, Expected

LEMMA TakenIs ==
  ASSUME NEW n \in Nodes, recv_buffer[n] \in Seq(Held)
  PROVE  /\ TakenOf(n) \in [0 .. Len(recv_buffer[n]) + 1 -> Nat]
         /\ \A k \in 1 .. Len(recv_buffer[n]) :
              TakenOf(n)[k] = NextAt(recv_buffer[n], TakenOf(n)[k - 1], Expected(n, k))
<1> DEFINE list == recv_buffer[n]
           m == Len(list) + 1
           step == [k \in 1 .. m |-> [i \in Nat |-> NextAt(list, i, Expected(n, k))]]
           body(g) == [k \in 0 .. m |->
                         IF k = 0 THEN 0 ELSE NextAt(list, g[k - 1], Expected(n, k))]
           run == TakenOf(n)
<1>0. list \in Seq(Held) /\ Len(list) \in Nat /\ m \in Nat
  BY LenProperties
<1>1. \A k \in 1 .. m : \A i \in Nat : NextAt(list, i, Expected(n, k)) \in Nat
  <2> SUFFICES ASSUME NEW k \in 1 .. m, NEW i \in Nat
               PROVE  NextAt(list, i, Expected(n, k)) \in Nat
    OBVIOUS
  <2>1. NextAt(list, i, Expected(n, k)) \in 1 .. Len(list) + 1
    <3> HIDE DEF list
    <3> QED BY <1>0, NextAtIs
  <2> QED BY <1>0, <2>1
<1>2. step \in [1 .. m -> [Nat -> Nat]]
  BY <1>1
<1>3. \A k \in 1 .. m : \A i \in Nat : step[k][i] = NextAt(list, i, Expected(n, k))
  OBVIOUS
<1> HIDE DEF step
<1>4. PICK h \in [0 .. m -> Nat] : h[0] = 0 /\ \A k \in 1 .. m : h[k] = step[k][h[k - 1]]
  <2>1. PICK g : Follows(g, m, Nat, 0, step)
    BY <1>0, <1>2, RecursionDefines
  <2> QED BY <2>1 DEF Follows
<1>5. \A k \in 1 .. m : k - 1 \in 0 .. m /\ h[k - 1] \in Nat
  BY <1>0, <1>4
<1>6. \A k \in 1 .. m : h[k] = NextAt(list, h[k - 1], Expected(n, k))
  BY <1>3, <1>4, <1>5
<1>7. h = body(h)
  <2>1. ASSUME NEW k \in 0 .. m
        PROVE  h[k] = IF k = 0 THEN 0 ELSE NextAt(list, h[k - 1], Expected(n, k))
    <3>1. CASE k = 0
      BY <1>4, <3>1
    <3>2. CASE k # 0
      <4>1. k \in 1 .. m
        BY <1>0, <3>2
      <4> QED BY <1>6, <3>2, <4>1
    <3> QED BY <3>1, <3>2
  <2> QED BY <2>1
<1>8. run = body(run)
  BY <1>7 DEF TakenOf
<1> HIDE DEF run
<1>9. \A k \in 0 .. m : run[k] = body(run)[k]
  BY <1>8
<1>10. run[0] = 0
  BY <1>0, <1>9
<1>11. \A k \in 1 .. m : run[k] = NextAt(list, run[k - 1], Expected(n, k))
  <2> SUFFICES ASSUME NEW k \in 1 .. m
               PROVE  run[k] = NextAt(list, run[k - 1], Expected(n, k))
    OBVIOUS
  <2>1. k \in 0 .. m /\ k # 0
    BY <1>0
  <2>2. run[k] = body(run)[k]
    BY <1>9, <2>1
  <2> QED BY <2>1, <2>2
<1> DEFINE T == {k \in 0 .. m : run[k] \in Nat}
<1>12. 0 \in T
  BY <1>0, <1>10
<1>13. ASSUME NEW k \in 1 .. m, k - 1 \in T PROVE k \in T
  <2>1. run[k] \in Nat
    <3>1. run[k] = NextAt(list, run[k - 1], Expected(n, k)) /\ run[k - 1] \in Nat
      BY <1>11, <1>13
    <3> HIDE DEF list, m
    <3> QED BY <1>1, <3>1
  <2> QED BY <1>0, <2>1
<1>14. 0 .. m \subseteq T
  <2> HIDE DEF T
  <2> QED BY <1>0, <1>12, <1>13, InductionUpTo
<1>15. run \in [0 .. m -> Nat]
  BY <1>8, <1>14
<1>16. \A k \in 1 .. Len(list) : k \in 1 .. m
  BY <1>0
<1> QED BY <1>11, <1>15, <1>16 DEF run

LEMMA BytesIs ==
  ASSUME NEW n \in Nodes, recv_buffer[n] \in Seq(Held)
  PROVE  /\ BytesOf(n) \in [0 .. Len(recv_buffer[n]) -> Seq(Nat)]
         /\ BytesOf(n)[0] = <<>>
         /\ \A k \in 1 .. Len(recv_buffer[n]) : TakenOf(n)[k] \in Positions(recv_buffer[n]) =>
              BytesOf(n)[k] = BytesOf(n)[k - 1] \o recv_buffer[n][TakenOf(n)[k]].payload
<1> DEFINE list == recv_buffer[n]
           m == Len(list)
           taken == TakenOf(n)
           next(k, b) == IF taken[k] \in Positions(list)
                         THEN b \o list[taken[k]].payload ELSE b
           step == [k \in 1 .. m |-> [b \in Seq(Nat) |-> next(k, b)]]
           body(g) == [k \in 0 .. m |->
                         IF k = 0 THEN <<>>
                         ELSE IF taken[k] \in Positions(list)
                              THEN g[k - 1] \o list[taken[k]].payload ELSE g[k - 1]]
           run == BytesOf(n)
<1>0. list \in Seq(Held) /\ m \in Nat /\ <<>> \in Seq(Nat)
  BY LenProperties, EmptySeq
<1>1. \A k \in 1 .. m : \A b \in Seq(Nat) : next(k, b) \in Seq(Nat)
  <2> SUFFICES ASSUME NEW k \in 1 .. m, NEW b \in Seq(Nat), taken[k] \in Positions(list)
               PROVE  b \o list[taken[k]].payload \in Seq(Nat)
    OBVIOUS
  <2> HIDE DEF list, taken
  <2>1. list[taken[k]] \in Held
    BY <1>0, ElementOfSeq DEF Positions
  <2>2. list[taken[k]].payload \in Seq(Nat)
    BY <2>1 DEF Held, Payloads
  <2> QED BY <2>2, ConcatProperties
<1>2. step \in [1 .. m -> [Seq(Nat) -> Seq(Nat)]]
  <2> HIDE DEF next
  <2> QED BY <1>1
<1>3. \A k \in 1 .. m : \A b \in Seq(Nat) : step[k][b] = next(k, b)
  <2> HIDE DEF next
  <2> QED OBVIOUS
<1> HIDE DEF step
<1>4. PICK h \in [0 .. m -> Seq(Nat)] :
        h[0] = <<>> /\ \A k \in 1 .. m : h[k] = step[k][h[k - 1]]
  <2>1. PICK g : Follows(g, m, Seq(Nat), <<>>, step)
    BY <1>0, <1>2, RecursionDefines
  <2> QED BY <2>1 DEF Follows
<1>5. \A k \in 1 .. m : k - 1 \in 0 .. m /\ h[k - 1] \in Seq(Nat)
  <2>1. \A k \in 1 .. m : k - 1 \in 0 .. m
    BY <1>0
  <2> HIDE DEF m
  <2> QED BY <1>4, <2>1
<1>6. \A k \in 1 .. m : h[k] = next(k, h[k - 1])
  <2> HIDE DEF next
  <2> QED BY <1>3, <1>4, <1>5
<1>7. h = body(h)
  <2>1. ASSUME NEW k \in 0 .. m
        PROVE  h[k] = IF k = 0 THEN <<>>
                      ELSE IF taken[k] \in Positions(list)
                           THEN h[k - 1] \o list[taken[k]].payload ELSE h[k - 1]
    <3>1. CASE k = 0
      BY <1>4, <3>1
    <3>2. CASE k # 0
      <4>1. k \in 1 .. m
        BY <1>0, <3>2
      <4> QED BY <1>6, <3>2, <4>1
    <3> QED BY <3>1, <3>2
  <2> QED BY <2>1
<1>8. run = body(run)
  BY <1>7 DEF BytesOf
<1> HIDE DEF run
<1>9. \A k \in 0 .. m : run[k] = body(run)[k]
  BY <1>8
<1>10. run[0] = <<>>
  <2>1. 0 \in 0 .. m
    BY <1>0
  <2>2. run[0] = body(run)[0]
    BY <1>9, <2>1
  <2> HIDE DEF m
  <2> QED BY <2>1, <2>2
<1>11. \A k \in 1 .. m : run[k] = next(k, run[k - 1])
  <2> SUFFICES ASSUME NEW k \in 1 .. m PROVE run[k] = next(k, run[k - 1])
    OBVIOUS
  <2>1. k \in 0 .. m /\ k # 0
    BY <1>0
  <2>2. run[k] = body(run)[k]
    BY <1>9, <2>1
  <2> QED BY <2>1, <2>2
<1> DEFINE T == {k \in 0 .. m : run[k] \in Seq(Nat)}
<1>12. 0 \in T
  <2>1. 0 \in 0 .. m
    BY <1>0
  <2> HIDE DEF m
  <2> QED BY <1>0, <1>10, <2>1
<1>13. ASSUME NEW k \in 1 .. m, k - 1 \in T PROVE k \in T
  <2>1. run[k] \in Seq(Nat)
    <3>1. run[k] = next(k, run[k - 1]) /\ run[k - 1] \in Seq(Nat)
      BY <1>11, <1>13
    <3> HIDE DEF list, m, next
    <3> QED BY <1>1, <3>1
  <2> QED BY <1>0, <2>1
<1>14. 0 .. m \subseteq T
  <2> HIDE DEF T
  <2> QED BY <1>0, <1>12, <1>13, InductionUpTo
<1>15. run \in [0 .. m -> Seq(Nat)]
  BY <1>8, <1>14
<1> QED BY <1>10, <1>11, <1>15 DEF run

\* What one call of ht_recv_data() takes: packets with the numbers expected,
\* from as many places in the list, and their bytes one after the other.
LEMMA RecvTakes ==
  ASSUME NEW n \in Nodes, recv_buffer[n] \in Seq(Held), CallsOf(n) # {}
  PROVE  /\ CountOf(n) \in 1 .. Len(recv_buffer[n])
         /\ \A k \in CallsOf(n) : k \in 1 .. CountOf(n)
         /\ \A k \in 1 .. CountOf(n) :
              /\ TakenOf(n)[k] \in Positions(recv_buffer[n])
              /\ recv_buffer[n][TakenOf(n)[k]].sequence = Expected(n, k)
              /\ BytesOf(n)[k] = BytesOf(n)[k - 1] \o recv_buffer[n][TakenOf(n)[k]].payload
<1> DEFINE list == recv_buffer[n]
           m == Len(list)
           taken == TakenOf(n)
           calls == CallsOf(n)
           count == CountOf(n)
<1>0. list \in Seq(Held) /\ m \in Nat
  BY LenProperties
<1>1. /\ taken \in [0 .. m + 1 -> Nat]
      /\ \A k \in 1 .. m : taken[k] = NextAt(list, taken[k - 1], Expected(n, k))
  BY TakenIs
<1>2. calls \in SUBSET (1 .. m) /\ \A k \in calls : taken[k] \in Positions(list)
  BY DEF CallsOf, Positions
<1>3. count \in calls /\ \A k \in calls : k <= count
  <2>1. count = CHOOSE k \in calls : \A j \in calls : j <= k
    BY DEF CountOf
  <2>2. calls # {}
    OBVIOUS
  <2> HIDE DEF calls, count
  <2>3. \E k \in calls : \A j \in calls : j <= k
    BY <1>0, <1>2, <2>2, GreatestExists
  <2> QED BY <2>1, <2>3
<1>4. count \in 1 .. m /\ \A k \in calls : k \in 1 .. count
  <2> HIDE DEF calls, count, m
  <2> QED BY <1>0, <1>2, <1>3
<1>5. ASSUME NEW k \in 1 .. m, k - 1 # 0, taken[k] \in Positions(list)
      PROVE  taken[k - 1] \in Positions(list)
  <2>1. k - 1 \in 1 .. m /\ k - 1 \in 0 .. m + 1
    BY <1>0, <1>5
  <2>2. taken[k - 1] \in 1 .. m + 1 /\ taken[k] > taken[k - 1]
    <3>1. taken[k - 1] = NextAt(list, taken[k - 2], Expected(n, k - 1)) /\ taken[k - 2] \in Nat
      <4>1. k - 2 \in 0 .. m + 1 /\ (k - 1) - 1 = k - 2
        BY <1>0, <1>5
      <4> HIDE DEF taken
      <4> QED BY <1>1, <2>1, <4>1
    <3>2. taken[k] = NextAt(list, taken[k - 1], Expected(n, k)) /\ taken[k - 1] \in Nat
      <4> HIDE DEF taken
      <4> QED BY <1>1, <2>1
    <3> HIDE DEF taken, list
    <3>3. taken[k - 1] \in 1 .. Len(list) + 1
      BY <1>0, <3>1, NextAtIs
    <3>4. taken[k - 1] < taken[k]
      BY <1>0, <1>5, <3>2, NextAtIs
    <3> QED BY <3>3, <3>4
  <2> HIDE DEF taken, list
  <2>3. taken[k] \in 1 .. m
    BY <1>5 DEF Positions
  <2> HIDE DEF m
  <2>4. taken[k - 1] \in 1 .. m
    BY <1>0, <2>2, <2>3
  <2> QED BY <2>4 DEF Positions, m
<1> DEFINE T == {i \in 0 .. count - 1 : taken[count - i] \in Positions(list)}
<1>6. 0 \in T
  BY <1>2, <1>3, <1>4
<1>7. ASSUME NEW i \in 1 .. count - 1, i - 1 \in T PROVE i \in T
  <2> HIDE DEF taken, list, count, m
  <2>1. count - (i - 1) \in 1 .. m /\ (count - (i - 1)) - 1 = count - i /\ count - i # 0
    BY <1>0, <1>4
  <2>2. taken[count - i] \in Positions(list)
    BY <1>5, <1>7, <2>1
  <2> QED BY <1>4, <2>2
<1>8. 0 .. count - 1 \subseteq T
  <2>1. count - 1 \in Nat
    BY <1>4
  <2> HIDE DEF T, count
  <2> QED BY <1>6, <1>7, <2>1, InductionUpTo
<1>9. ASSUME NEW k \in 1 .. count PROVE taken[k] \in Positions(list)
  <2> HIDE DEF taken, list, m, count
  <2>1. count - k \in 0 .. count - 1 /\ count - (count - k) = k
    BY <1>4
  <2> QED BY <1>8, <2>1
<1>10. ASSUME NEW k \in 1 .. count PROVE list[taken[k]].sequence = Expected(n, k)
  <2> HIDE DEF taken, list, count
  <2>1. k \in 1 .. m /\ k - 1 \in 0 .. m + 1
    BY <1>0, <1>4
  <2>2. taken[k] = NextAt(list, taken[k - 1], Expected(n, k)) /\ taken[k - 1] \in Nat
    BY <1>1, <2>1
  <2> QED BY <1>0, <1>9, <2>2, NextAtIs
<1>11. ASSUME NEW k \in 1 .. count
       PROVE  BytesOf(n)[k] = BytesOf(n)[k - 1] \o list[taken[k]].payload
  <2>1. k \in 1 .. m
    <3> HIDE DEF m, count
    <3> QED BY <1>0, <1>4
  <2> QED BY <1>9, <2>1, BytesIs
<1> QED BY <1>4, <1>9, <1>10, <1>11

-----------------------------------------------------------------------------
(* Each action keeps the types *)

LEMMA Shortened ==
  ASSUME NEW S, NEW s \in Seq(S), NEW P
  PROVE  /\ Pick(s, P) \in Seq(S) /\ Len(Pick(s, P)) <= Len(s)
         /\ \A i \in 1 .. Len(Pick(s, P)) : \E k \in 1 .. Len(s) : Pick(s, P)[i] = s[k]
<1>1. Pick(s, P) \in Seq(S) /\ Selection(Pick(s, P), s, Len(s), P)
  BY PickSelects
<1>2. PICK f : Selects(f, Pick(s, P), s, Len(s), P)
  BY <1>1 DEF Selection
<1> QED BY <1>1, <1>2 DEF Selects

LEMMA RecvDataTypes ==
  ASSUME TypeInv, NEW n \in Nodes, RecvData(n)
  PROVE  TypeInv'
<1> DEFINE list  == recv_buffer[n]
           gone  == {TakenOf(n)[k] : k \in CallsOf(n)}
           count == CountOf(n)
           bytes == BytesOf(n)[count]
           given == SubSeq(bytes, 1, Smaller(ReadSize, Len(bytes)))
<1>1. list \in Seq(Held) /\ Len(list) \in Nat /\ Len(list) <= MaxStored
  BY LenProperties DEF TypeInv, ListTypes
<1>2. /\ CallsOf(n) # {}
      /\ unpacked' = [unpacked EXCEPT ![n] = @ \o bytes]
      /\ delivered' = [delivered EXCEPT ![n] = @ \o given]
      /\ recv_sequence' = [recv_sequence EXCEPT ![n] = (@ + count) % SequenceModulus]
      /\ recv_buffer' = [recv_buffer EXCEPT ![n] = Pick(list, Positions(list) \ gone)]
      /\ UNCHANGED <<phase, first_sequence, send_sequence, send_buffer, clocks,
                     accepted, net, tcp_open>>
  BY RecvDataIs
<1>3. count \in 1 .. Len(list)
  BY <1>1, <1>2, RecvTakes
<1>4. bytes \in Seq(Nat)
  <2>1. BytesOf(n) \in [0 .. Len(list) -> Seq(Nat)]
    BY <1>1, BytesIs
  <2>2. count \in 0 .. Len(list)
    BY <1>1, <1>3
  <2> HIDE DEF count, list
  <2> QED BY <2>1, <2>2
<1>5. given \in Seq(Nat)
  <2> HIDE DEF bytes
  <2>1. Len(bytes) \in Nat /\ ReadSize \in Nat
    BY <1>4, LenProperties, HybridAssumption
  <2>2. \A i \in 1 .. Smaller(ReadSize, Len(bytes)) : i \in 1 .. Len(bytes)
    BY <2>1 DEF Smaller
  <2>3. \A i \in 1 .. Smaller(ReadSize, Len(bytes)) : bytes[i] \in Nat
    BY <1>4, <2>2, ElementOfSeq
  <2>4. Smaller(ReadSize, Len(bytes)) \in Int /\ 1 \in Int
    BY <2>1 DEF Smaller
  <2> QED BY <2>3, <2>4, SubSeqProperties
<1> HIDE DEF count, bytes, given, gone
<1>6. NumberTypes'
  <2>1. recv_sequence[n] \in Nat
    BY NumberFacts DEF TypeInv, NumberTypes
  <2>2. recv_sequence[n] + count \in Nat
    BY <1>3, <2>1
  <2>3. (recv_sequence[n] + count) % SequenceModulus \in Numbers
    BY <2>2, NumberFacts
  <2> QED BY <1>2, <2>3 DEF TypeInv, NumberTypes
<1>7. ListTypes'
  <2>1. /\ Pick(list, Positions(list) \ gone) \in Seq(Held)
        /\ Len(Pick(list, Positions(list) \ gone)) <= Len(list)
    <3> HIDE DEF list
    <3> QED BY <1>1, Shortened
  <2>2. Len(Pick(list, Positions(list) \ gone)) <= MaxStored
    <3> HIDE DEF list
    <3> QED BY <1>1, <2>1, LenProperties, HybridAssumption
  <2> QED BY <1>2, <2>1, <2>2 DEF TypeInv, ListTypes
<1>8. ByteTypes'
  <2>1. unpacked[n] \o bytes \in Seq(Nat) /\ delivered[n] \o given \in Seq(Nat)
    BY <1>4, <1>5, ConcatProperties DEF TypeInv, ByteTypes
  <2> QED BY <1>2, <2>1 DEF TypeInv, ByteTypes
<1> QED BY <1>2, <1>6, <1>7, <1>8
        DEF TypeInv, PhaseTypes, NetTypes, ClockTypes, clocks, net

\* Of the packet an end takes the handler keeps what it is to keep.
LEMMA TakePacketTypes ==
  ASSUME TypeInv, NEW n \in Nodes, NEW packet \in Wire, TakePacket(n, packet)
  PROVE  PhaseTypes' /\ NumberTypes' /\ ListTypes' /\ ClockTypes' /\ ByteTypes'
<1>1. UNCHANGED <<history, recv_sequence, last_heartbeat, tcp_open>>
      /\ last_activity' = [last_activity EXCEPT ![n] = 0]
  BY DEF TakePacket
<1>2. ClockTypes' /\ ByteTypes'
  <2>1. 0 \in 0 .. IdleLimit + 1
    BY HybridAssumption
  <2> QED BY <1>1, <2>1 DEF TypeInv, ClockTypes, ByteTypes, history
<1>3. CASE packet.type = "DATA" /\ TakeData(n, packet)
  <2>1. [sequence |-> packet.sequence, payload |-> packet.payload] \in Held
    BY <1>3 DEF Wire, Packets, Held
  <2> DEFINE entry == [sequence |-> packet.sequence, payload |-> packet.payload]
             list  == recv_buffer[n]
  <2>2. list \in Seq(Held) /\ Len(list) < MaxStored /\ Len(list) \in Nat
    BY <1>3, LenProperties DEF TypeInv, ListTypes, TakeData
  <2>3. recv_buffer' = [recv_buffer EXCEPT ![n] = <<entry>> \o list]
        /\ TakeNumber(n) /\ UNCHANGED <<phase, send_buffer>>
    BY <1>3 DEF TakeData
  <2> HIDE DEF entry, list
  <2>4. <<entry>> \o list \in Seq(Held) /\ Len(<<entry>> \o list) = 1 + Len(list)
    <3>1. entry \in Held
      BY <2>1 DEF entry
    <3>2. <<entry>> \in Seq(Held) /\ Len(<<entry>>) = 1
      BY <3>1
    <3> QED BY <2>2, <3>2, ConcatProperties
  <2>5. Len(<<entry>> \o list) <= MaxStored
    BY <2>2, <2>4, HybridAssumption
  <2> QED BY <1>1, <1>2, <2>3, <2>4, <2>5, NumberTaken
          DEF TypeInv, PhaseTypes, NumberTypes, ListTypes, history
<1>4. CASE packet.type = "ACK" /\ TakeAck(n, packet)
  <2>1. send_buffer[n] \in Seq(Unacked)
    BY DEF TypeInv, ListTypes
  <2>2. RemoveFirst(send_buffer[n], packet.ack) \in Seq(Unacked)
    BY <2>1, Shortened DEF RemoveFirst
  <2> QED BY <1>1, <1>2, <1>4, <2>2
          DEF TypeInv, PhaseTypes, NumberTypes, ListTypes, TakeAck, history
<1>5. CASE packet.type = "HEARTBEAT" /\ TakeHeartbeat
  BY <1>1, <1>2, <1>5 DEF TypeInv, PhaseTypes, NumberTypes, ListTypes, TakeHeartbeat, history
<1>6. CASE packet.type = "CONTROL" /\ TakeClose(n)
  BY <1>1, <1>2, <1>6 DEF TypeInv, PhaseTypes, NumberTypes, ListTypes, TakeClose, history
<1> QED BY <1>3, <1>4, <1>5, <1>6 DEF TakePacket

LEMMA AckTypes ==
  ASSUME TypeInv, NEW n \in Nodes, NEW packet \in Wire
  PROVE  AckOf(n, packet) \in Wire /\ AckOf(n, packet).type = "ACK"
<1>1. send_sequence[n] \in Numbers /\ packet.sequence \in Numbers /\ <<>> \in Seq(Nat)
  BY EmptySeq DEF TypeInv, NumberTypes, Wire, Packets
<1> QED BY <1>1 DEF AckOf, Packet, Wire, Packets

LEMMA ProcessUdpTypes ==
  ASSUME TypeInv, NEW n \in Nodes, ProcessUdp(n)
  PROVE  TypeInv'
<1>1. PICK packet \in udp[n], stays \in BOOLEAN :
        /\ TakePacket(n, packet)
        /\ udp' = [m \in Nodes |->
                     IF m = n THEN IF stays THEN udp[m] ELSE udp[m] \ {packet}
                     ELSE IF packet.type = "DATA" THEN udp[m] \cup {AckOf(n, packet)}
                     ELSE udp[m]]
        /\ UNCHANGED tcp
  BY DEF ProcessUdp
<1>2. packet \in Wire /\ udp \in [Nodes -> SUBSET Wire]
  BY DEF TypeInv, NetTypes
<1>3. AckOf(n, packet) \in Wire
  BY <1>2, AckTypes
<1>4. udp' \in [Nodes -> SUBSET Wire]
  BY <1>1, <1>2, <1>3
<1>5. NetTypes'
  BY <1>1, <1>4 DEF TypeInv, NetTypes
<1> QED BY <1>1, <1>2, <1>5, TakePacketTypes DEF TypeInv

LEMMA ProcessTcpTypes ==
  ASSUME TypeInv, NEW n \in Nodes, ProcessTcp(n)
  PROVE  TypeInv'
<1>1. PICK count \in 1 .. (IF Merging THEN Len(tcp[n]) ELSE 1) :
        LET packet == Head(tcp[n])
        IN /\ TakePacket(n, packet)
           /\ tcp' = [m \in Nodes |->
                        IF m = n THEN SubSeq(tcp[m], count + 1, Len(tcp[m]))
                        ELSE IF packet.type = "DATA" /\ CanTcp(n)
                             THEN Append(tcp[m], AckOf(n, packet))
                        ELSE tcp[m]]
  BY DEF ProcessTcp
<1> DEFINE packet == Head(tcp[n])
<1>2. /\ tcp \in [Nodes -> Seq(Wire)] /\ TcpRoom \in Nat
      /\ \A m \in Nodes : Len(tcp[m]) <= TcpRoom /\ Len(tcp[m]) \in Nat
  BY LenProperties, HybridAssumption DEF TypeInv, NetTypes
<1>3. packet \in Wire /\ tcp[n] # <<>> /\ UNCHANGED udp
  BY <1>2, HeadTailProperties DEF ProcessTcp
<1>4. AckOf(n, packet) \in Wire
  BY <1>3, AckTypes
<1>5. TakePacket(n, packet)
  BY <1>1
<1>6. count \in Nat /\ count >= 1
  BY <1>2
<1> DEFINE rest == SubSeq(tcp[n], count + 1, Len(tcp[n]))
<1>7. rest \in Seq(Wire) /\ Len(rest) <= TcpRoom
  <2> DEFINE s == tcp[n]
  <2>1. s \in Seq(Wire) /\ Len(s) \in Nat /\ Len(s) <= TcpRoom
    BY <1>2
  <2>2. \A i \in count + 1 .. Len(s) : i \in 1 .. Len(s)
    BY <1>6, <2>1
  <2> HIDE DEF s
  <2>3. \A i \in count + 1 .. Len(s) : s[i] \in Wire
    BY <2>1, <2>2, ElementOfSeq
  <2>4. /\ SubSeq(s, count + 1, Len(s)) \in Seq(Wire)
        /\ Len(SubSeq(s, count + 1, Len(s))) =
             IF count + 1 <= Len(s) THEN Len(s) - (count + 1) + 1 ELSE 0
    BY <1>6, <2>1, <2>3, SubSeqProperties
  <2>5. Len(SubSeq(s, count + 1, Len(s))) <= TcpRoom
    BY <1>2, <1>6, <2>1, <2>4
  <2> QED BY <2>4, <2>5 DEF s
<1>8. CASE packet.type = "DATA" /\ CanTcp(n)
  <2> DEFINE more == Append(tcp[Peer(n)], AckOf(n, packet))
  <2>1. more \in Seq(Wire) /\ Len(more) = Len(tcp[Peer(n)]) + 1
    BY <1>2, <1>4, PeerFacts, AppendProperties
  <2>2. TcpRoom - Len(tcp[Peer(n)]) > 0
    BY <1>8 DEF CanTcp, TcpSpace
  <2>3. Len(more) <= TcpRoom
    BY <1>2, <2>1, <2>2, PeerFacts
  <2>4. tcp' = [m \in Nodes |-> IF m = n THEN rest ELSE more]
    <3>1. \A m \in Nodes : m # n => m = Peer(n)
      BY PeerFacts
    <3> QED BY <1>1, <1>8, <3>1
  <2> HIDE DEF rest, more
  <2> QED BY <1>3, <1>5, <1>7, <2>1, <2>3, <2>4, TakePacketTypes DEF TypeInv, NetTypes
<1>9. CASE ~(packet.type = "DATA" /\ CanTcp(n))
  <2>1. tcp' = [m \in Nodes |-> IF m = n THEN rest ELSE tcp[m]]
    BY <1>1, <1>9
  <2> HIDE DEF rest
  <2> QED BY <1>2, <1>3, <1>5, <1>7, <2>1, TakePacketTypes DEF TypeInv, NetTypes
<1> QED BY <1>8, <1>9

LEMMA ResentTypes ==
  ASSUME NEW entry \in Unacked, ~Exhausted(entry)
  PROVE  Resent(entry) \in Unacked
<1>1. /\ entry.sequence \in Numbers /\ entry.payload \in Payloads
      /\ entry.retransmit_count \in 0 .. MaxRetransmit
      /\ ~(entry.retransmit_count >= MaxRetransmit)
  BY DEF Unacked, Exhausted
<1>2. entry.retransmit_count + 1 \in 0 .. MaxRetransmit /\ 0 \in 0 .. RetransmitTimeout + 1
  BY <1>1, HybridAssumption
<1> QED BY <1>2 DEF Resent, Unacked

\* The list after the loop of ht_handle_timeout(), before what it unlinks goes.
Touched(list) ==
  [i \in Positions(list) |-> IF i \in Resends(list) THEN Resent(list[i]) ELSE list[i]]

LEMMA TouchedTypes ==
  ASSUME NEW list \in Seq(Unacked)
  PROVE  /\ Touched(list) \in Seq(Unacked) /\ Len(Touched(list)) = Len(list)
         /\ \A i \in 1 .. Len(list) : list[i] \in Unacked
<1>1. Len(list) \in Nat /\ \A i \in 1 .. Len(list) : list[i] \in Unacked
  BY LenProperties, ElementOfSeq
<1>2. \A i \in 1 .. Len(list) :
        (IF i \in Resends(list) THEN Resent(list[i]) ELSE list[i]) \in Unacked
  BY <1>1, ResentTypes DEF Resends
<1>3. Touched(list) \in [1 .. Len(list) -> Unacked]
  BY <1>2 DEF Touched, Positions
<1>4. Touched(list) \in Seq(Unacked)
  BY <1>1, <1>3
<1>5. Len(Touched(list)) = Len(list)
  BY <1>1, <1>3, <1>4, LenProperties
<1> QED BY <1>1, <1>4, <1>5

LEMMA AgainTypes ==
  ASSUME TypeInv, NEW n \in Nodes
  PROVE  /\ ResentPackets(n) \in Seq(Wire)
         /\ Len(ResentPackets(n)) \in Nat
         /\ \A i \in 1 .. Len(ResentPackets(n)) :
              \E k \in 1 .. Len(send_buffer[n]) :
                ResentPackets(n)[i] = DataPacket(send_buffer[n][k])
<1> DEFINE list  == send_buffer[n]
           again == Pick(list, Resends(list))
<1>1. list \in Seq(Unacked) /\ Len(list) \in Nat
      /\ \A k \in 1 .. Len(list) : list[k] \in Unacked
  BY LenProperties, ElementOfSeq DEF TypeInv, ListTypes
<1>2. /\ again \in Seq(Unacked) /\ Len(again) \in Nat
      /\ \A i \in 1 .. Len(again) : \E k \in 1 .. Len(list) : again[i] = list[k]
  <2> HIDE DEF list
  <2> QED BY <1>1, Shortened, LenProperties
<1> HIDE DEF again, list
<1>3. \A k \in 1 .. Len(list) : DataPacket(list[k]) \in Wire
  <2> SUFFICES ASSUME NEW k \in 1 .. Len(list) PROVE DataPacket(list[k]) \in Wire
    OBVIOUS
  <2>1. list[k] \in Unacked
    BY <1>1
  <2> QED BY <2>1, NumberFacts DEF DataPacket, Packet, Wire, Packets, Unacked, Payloads
<1> DEFINE packets == [i \in 1 .. Len(again) |-> DataPacket(again[i])]
<1>4. ResentPackets(n) = packets
  BY DEF ResentPackets, again, list, Positions
<1>5. \A i \in 1 .. Len(again) : packets[i] \in Wire /\
        \E k \in 1 .. Len(list) : packets[i] = DataPacket(list[k])
  <2> SUFFICES ASSUME NEW i \in 1 .. Len(again)
               PROVE  packets[i] \in Wire /\
                      \E k \in 1 .. Len(list) : packets[i] = DataPacket(list[k])
    OBVIOUS
  <2>1. PICK k \in 1 .. Len(list) : again[i] = list[k]
    BY <1>2
  <2>2. packets[i] = DataPacket(list[k])
    BY <2>1
  <2> HIDE DEF packets
  <2> QED BY <1>3, <2>2
<1>6. packets \in Seq(Wire) /\ Len(packets) = Len(again)
  <2>1. packets \in [1 .. Len(again) -> Wire]
    BY <1>5
  <2>2. packets \in Seq(Wire)
    BY <1>2, <2>1
  <2> HIDE DEF packets
  <2> QED BY <1>2, <2>1, <2>2, LenProperties
<1> HIDE DEF packets
<1> QED BY <1>2, <1>4, <1>5, <1>6 DEF list

\* What ht_handle_timeout() puts on the channels.
Beat(n)    == Packet("HEARTBEAT", send_sequence[n], 0, <<>>)
ByTcp(n)   == Smaller(Len(ResentPackets(n)), TcpSpace(n))
BeatDue(n) == TimeDiff(last_heartbeat[n]) > HeartbeatInterval
Beats(n)   == BeatDue(n) /\ (CanUdp \/ TcpSpace(n) > ByTcp(n))
TcpAgain(n) == SubSeq(ResentPackets(n), 1, ByTcp(n))
UdpAgain(n) ==
  IF CanUdp THEN {ResentPackets(n)[i] : i \in (ByTcp(n) + 1) .. Len(ResentPackets(n))} ELSE {}
BeatByUdp(n) == IF BeatDue(n) /\ CanUdp THEN {Beat(n)} ELSE {}
BeatByTcp(n) == IF Beats(n) /\ ~CanUdp THEN <<Beat(n)>> ELSE <<>>

LEMMA TimeoutIs ==
  ASSUME TypeInv, NEW n \in Nodes, HandleTimeout(n)
  PROVE  /\ phase[n] = "connected"
         /\ phase' = phase \/ phase' = [phase EXCEPT ![n] = "down"]
         /\ send_buffer' = [send_buffer EXCEPT ![n] = AfterResend(@)]
         /\ TakeNumber(n) \/ UNCHANGED send_sequence
         /\ udp' = [udp EXCEPT ![Peer(n)] = (@ \cup UdpAgain(n)) \cup BeatByUdp(n)]
         /\ tcp' = [tcp EXCEPT ![Peer(n)] = (@ \o TcpAgain(n)) \o BeatByTcp(n)]
         /\ last_heartbeat' = last_heartbeat
              \/ last_heartbeat' = [last_heartbeat EXCEPT ![n] = 0]
         /\ \/ last_activity' = [last_activity EXCEPT ![n] = 0]
            \/ last_activity' = [last_activity EXCEPT ![n] = last_activity[n]]
         /\ UNCHANGED <<history, recv_sequence, recv_buffer, tcp_open>>
<1> DEFINE udp1 == udp[Peer(n)] \cup UdpAgain(n)
           tcp1 == tcp[Peer(n)] \o TcpAgain(n)
<1>1. /\ phase[n] = "connected"
      /\ send_buffer' = [send_buffer EXCEPT ![n] = AfterResend(@)]
      /\ IF BeatDue(n) THEN TakeNumber(n) ELSE UNCHANGED send_sequence
      /\ udp' = [udp EXCEPT ![Peer(n)] =
                   IF BeatDue(n) /\ CanUdp THEN udp1 \cup {Beat(n)} ELSE udp1]
      /\ tcp' = [tcp EXCEPT ![Peer(n)] =
                   IF Beats(n) /\ ~CanUdp THEN Append(tcp1, Beat(n)) ELSE tcp1]
      /\ last_heartbeat' = IF Beats(n) THEN [last_heartbeat EXCEPT ![n] = 0]
                           ELSE last_heartbeat
  BY DEF HandleTimeout, BeatDue, Beats, Beat, ByTcp, TcpAgain, UdpAgain
<1>2. /\ \/ last_activity' = [last_activity EXCEPT ![n] = 0]
         \/ last_activity' = [last_activity EXCEPT ![n] = last_activity[n]]
      /\ phase' = phase \/ phase' = [phase EXCEPT ![n] = "down"]
      /\ UNCHANGED <<history, recv_sequence, recv_buffer, tcp_open>>
  BY DEF HandleTimeout, Stamped
<1>3. /\ tcp[Peer(n)] \in Seq(Wire) /\ TcpAgain(n) \in Seq(Wire) /\ Beat(n) \in Wire
  <2>1. tcp[Peer(n)] \in Seq(Wire) /\ send_sequence[n] \in Numbers
    BY PeerFacts DEF TypeInv, NetTypes, NumberTypes
  <2>2. Beat(n) \in Wire
    BY <2>1, NumberFacts, EmptySeq DEF Beat, Packet, Wire, Packets
  <2>3. TcpAgain(n) \in Seq(Wire)
    <3> DEFINE again == ResentPackets(n)
               space == TcpSpace(n)
    <3>1. again \in Seq(Wire) /\ Len(again) \in Nat
      BY AgainTypes
    <3>2. space \in Int
      BY <2>1, LenProperties, HybridAssumption DEF TcpSpace
    <3> HIDE DEF again, space
    <3>3. Smaller(Len(again), space) \in Int /\ Smaller(Len(again), space) <= Len(again)
      BY <3>1, <3>2 DEF Smaller
    <3>4. \A i \in 1 .. Smaller(Len(again), space) : i \in 1 .. Len(again)
      BY <3>1, <3>3
    <3>5. \A i \in 1 .. Smaller(Len(again), space) : again[i] \in Wire
      BY <3>1, <3>4, ElementOfSeq
    <3>6. SubSeq(again, 1, Smaller(Len(again), space)) \in Seq(Wire)
      BY <3>3, <3>5, SubSeqProperties
    <3> QED BY <3>6 DEF TcpAgain, ByTcp, again, space
  <2> QED BY <2>1, <2>2, <2>3
<1>4. tcp1 \in Seq(Wire)
  BY <1>3, ConcatProperties
<1>5. tcp' = [tcp EXCEPT ![Peer(n)] = tcp1 \o BeatByTcp(n)]
  <2> HIDE DEF tcp1
  <2>1. Append(tcp1, Beat(n)) = tcp1 \o <<Beat(n)>> /\ tcp1 \o <<>> = tcp1
    BY <1>3, <1>4, AppendIsConcat, ConcatEmptySeq
  <2> QED BY <1>1, <2>1 DEF BeatByTcp
<1>6. udp' = [udp EXCEPT ![Peer(n)] = udp1 \cup BeatByUdp(n)]
  BY <1>1 DEF BeatByUdp
<1> QED BY <1>1, <1>2, <1>5, <1>6

\* There is room on TCP for what ht_handle_timeout() puts there.
LEMMA TimeoutFits ==
  ASSUME TypeInv, NEW n \in Nodes
  PROVE  LET queue == (tcp[Peer(n)] \o TcpAgain(n)) \o BeatByTcp(n)
         IN /\ queue \in Seq(Wire) /\ Len(queue) <= TcpRoom
            /\ TcpAgain(n) \in Seq(Wire) /\ BeatByTcp(n) \in Seq(Wire)
            /\ Beat(n) \in Wire
            /\ \A i \in 1 .. Len(TcpAgain(n)) :
                 \E k \in 1 .. Len(send_buffer[n]) :
                   TcpAgain(n)[i] = DataPacket(send_buffer[n][k])
<1> DEFINE s     == tcp[Peer(n)]
           again == ResentPackets(n)
           space == TcpSpace(n)
           size  == Smaller(Len(again), space)
<1>1. /\ s \in Seq(Wire) /\ Len(s) \in Nat /\ Len(s) <= TcpRoom /\ TcpRoom \in Nat
      /\ send_sequence[n] \in Numbers
  BY PeerFacts, LenProperties, HybridAssumption DEF TypeInv, NetTypes, NumberTypes
<1>2. /\ again \in Seq(Wire) /\ Len(again) \in Nat
      /\ \A i \in 1 .. Len(again) : \E k \in 1 .. Len(send_buffer[n]) :
           again[i] = DataPacket(send_buffer[n][k])
  BY AgainTypes
<1>3. space \in Nat /\ space <= TcpRoom - Len(s)
  <2>1. space = TcpRoom - Len(s) \/ space = 0
    BY DEF TcpSpace
  <2> HIDE DEF space, s
  <2> QED BY <1>1, <2>1
<1>4. Beat(n) \in Wire
  BY <1>1, NumberFacts, EmptySeq DEF Beat, Packet, Wire, Packets
<1>5. TcpAgain(n) = SubSeq(again, 1, size) /\ ByTcp(n) = size
  BY DEF TcpAgain, ByTcp
<1> HIDE DEF s, again, space
<1>6. size \in Nat /\ size <= Len(again) /\ size <= space
  BY <1>2, <1>3 DEF Smaller
<1> HIDE DEF size
<1>7. \A i \in 1 .. size : i \in 1 .. Len(again) /\ again[i] \in Wire
  <2>1. \A i \in 1 .. size : i \in 1 .. Len(again)
    BY <1>2, <1>6
  <2> QED BY <1>2, <2>1, ElementOfSeq
<1>8. /\ TcpAgain(n) \in Seq(Wire) /\ Len(TcpAgain(n)) = size
      /\ \A i \in 1 .. size : TcpAgain(n)[i] = again[i]
  <2>1. /\ SubSeq(again, 1, size) \in Seq(Wire)
        /\ Len(SubSeq(again, 1, size)) = IF 1 <= size THEN size - 1 + 1 ELSE 0
        /\ \A i \in 1 .. size - 1 + 1 : SubSeq(again, 1, size)[i] = again[1 + i - 1]
    BY <1>6, <1>7, SubSeqProperties
  <2>2. size - 1 + 1 = size /\ \A i \in 1 .. size : 1 + i - 1 = i
    BY <1>6
  <2> QED BY <1>5, <1>6, <2>1, <2>2
<1>9. /\ BeatByTcp(n) \in Seq(Wire) /\ Len(BeatByTcp(n)) \in Nat
      /\ Len(s) + size + Len(BeatByTcp(n)) <= TcpRoom
  <2>1. CASE Beats(n) /\ ~CanUdp
    <3>1. BeatByTcp(n) = <<Beat(n)>> /\ <<Beat(n)>> \in Seq(Wire) /\ Len(<<Beat(n)>>) = 1
      BY <1>4, <2>1 DEF BeatByTcp
    <3>2. space > size
      BY <1>5, <2>1 DEF Beats, space
    <3> QED BY <1>1, <1>3, <1>6, <3>1, <3>2
  <2>2. CASE ~(Beats(n) /\ ~CanUdp)
    <3>1. BeatByTcp(n) = <<>> /\ <<>> \in Seq(Wire) /\ Len(<<>>) = 0
      BY <2>2, EmptySeq DEF BeatByTcp
    <3> QED BY <1>1, <1>3, <1>6, <3>1
  <2> QED BY <2>1, <2>2
<1> DEFINE start == s \o TcpAgain(n)
           queue == start \o BeatByTcp(n)
<1>10. start \in Seq(Wire) /\ Len(start) = Len(s) + size
  BY <1>1, <1>8, ConcatProperties
<1>11. queue \in Seq(Wire) /\ Len(queue) = Len(start) + Len(BeatByTcp(n))
  <2> HIDE DEF start
  <2> QED BY <1>9, <1>10, ConcatProperties
<1>12. Len(queue) <= TcpRoom
  <2> HIDE DEF start, queue
  <2> QED BY <1>9, <1>10, <1>11
<1>13. \A i \in 1 .. Len(TcpAgain(n)) : \E k \in 1 .. Len(send_buffer[n]) :
         TcpAgain(n)[i] = DataPacket(send_buffer[n][k])
  BY <1>2, <1>7, <1>8
<1>14. queue = (tcp[Peer(n)] \o TcpAgain(n)) \o BeatByTcp(n)
  BY DEF s
<1> HIDE DEF queue
<1> QED BY <1>4, <1>8, <1>9, <1>11, <1>12, <1>13, <1>14

LEMMA UdpAgainTypes ==
  ASSUME TypeInv, NEW n \in Nodes
  PROVE  /\ UdpAgain(n) \subseteq Wire
         /\ \A p \in UdpAgain(n) : \E k \in 1 .. Len(send_buffer[n]) :
              p = DataPacket(send_buffer[n][k])
<1> SUFFICES ASSUME NEW p \in UdpAgain(n)
             PROVE  /\ p \in Wire
                    /\ \E k \in 1 .. Len(send_buffer[n]) : p = DataPacket(send_buffer[n][k])
  OBVIOUS
<1> DEFINE again == ResentPackets(n)
           space == TcpSpace(n)
<1>1. /\ again \in Seq(Wire) /\ Len(again) \in Nat
      /\ \A i \in 1 .. Len(again) : \E k \in 1 .. Len(send_buffer[n]) :
           again[i] = DataPacket(send_buffer[n][k])
  BY AgainTypes
<1>2. space \in Nat
  <2>1. tcp[Peer(n)] \in Seq(Wire) /\ Len(tcp[Peer(n)]) <= TcpRoom /\ TcpRoom \in Nat
    BY PeerFacts, HybridAssumption DEF TypeInv, NetTypes
  <2> QED BY <2>1, LenProperties DEF TcpSpace
<1>3. PICK i \in (ByTcp(n) + 1) .. Len(again) : p = again[i]
  BY DEF UdpAgain
<1>4. ByTcp(n) \in Nat
  <2>1. ByTcp(n) = Smaller(Len(again), space)
    BY DEF ByTcp
  <2> HIDE DEF again, space
  <2> QED BY <1>1, <1>2, <2>1 DEF Smaller
<1> HIDE DEF again
<1>5. i \in 1 .. Len(again)
  BY <1>1, <1>3, <1>4
<1> QED BY <1>1, <1>3, <1>5, ElementOfSeq

LEMMA HandleTimeoutTypes ==
  ASSUME TypeInv, NEW n \in Nodes, HandleTimeout(n)
  PROVE  TypeInv'
<1> DEFINE queue == (tcp[Peer(n)] \o TcpAgain(n)) \o BeatByTcp(n)
           datagrams == (udp[Peer(n)] \cup UdpAgain(n)) \cup BeatByUdp(n)
<1>1. /\ phase' = phase \/ phase' = [phase EXCEPT ![n] = "down"]
      /\ send_buffer' = [send_buffer EXCEPT ![n] = AfterResend(@)]
      /\ TakeNumber(n) \/ UNCHANGED send_sequence
      /\ udp' = [udp EXCEPT ![Peer(n)] = datagrams]
      /\ tcp' = [tcp EXCEPT ![Peer(n)] = queue]
      /\ last_heartbeat' = last_heartbeat
           \/ last_heartbeat' = [last_heartbeat EXCEPT ![n] = 0]
      /\ \/ last_activity' = [last_activity EXCEPT ![n] = 0]
         \/ last_activity' = [last_activity EXCEPT ![n] = last_activity[n]]
      /\ UNCHANGED <<history, recv_sequence, recv_buffer, tcp_open>>
  BY TimeoutIs
<1>2. queue \in Seq(Wire) /\ Len(queue) <= TcpRoom /\ Beat(n) \in Wire
  BY TimeoutFits
<1>3. Peer(n) \in Nodes
  BY PeerFacts
<1>4. datagrams \in SUBSET Wire
  BY <1>2, <1>3, UdpAgainTypes DEF BeatByUdp, TypeInv, NetTypes
<1> HIDE DEF queue, datagrams
<1>5. NetTypes'
  BY <1>1, <1>2, <1>3, <1>4 DEF TypeInv, NetTypes
<1>6. AfterResend(send_buffer[n]) \in Seq(Unacked)
  <2> DEFINE list == send_buffer[n]
  <2>1. list \in Seq(Unacked)
    BY DEF TypeInv, ListTypes
  <2>2. AfterResend(list) = Pick(Touched(list), Positions(list) \ Unlinked(list))
    BY DEF AfterResend, Touched
  <2> HIDE DEF list
  <2>3. Touched(list) \in Seq(Unacked)
    BY <2>1, TouchedTypes
  <2>4. AfterResend(list) \in Seq(Unacked)
    BY <2>2, <2>3, Shortened
  <2> QED BY <2>4 DEF list
<1>7. ListTypes'
  BY <1>1, <1>6 DEF TypeInv, ListTypes
<1>8. PhaseTypes'
  BY <1>1 DEF TypeInv, PhaseTypes
<1>9. NumberTypes'
  BY <1>1, NumberTaken DEF TypeInv, NumberTypes, history
<1>10. ClockTypes'
  <2>1. 0 \in 0 .. IdleLimit + 1 /\ 0 \in 0 .. HeartbeatInterval + 1
    BY HybridAssumption
  <2>2. last_activity' \in [Nodes -> 0 .. IdleLimit + 1]
    BY <1>1, <2>1 DEF TypeInv, ClockTypes
  <2>3. last_heartbeat' \in [Nodes -> 0 .. HeartbeatInterval + 1]
    BY <1>1, <2>1 DEF TypeInv, ClockTypes
  <2> QED BY <2>2, <2>3 DEF ClockTypes
<1>11. ByteTypes'
  BY <1>1 DEF TypeInv, ByteTypes, history
<1> QED BY <1>5, <1>7, <1>8, <1>9, <1>10, <1>11 DEF TypeInv

LEMMA EndTypes ==
  ASSUME TypeInv, NEW n \in Nodes, Disconnect(n) \/ Destroy(n) \/ StopDraining(n)
  PROVE  TypeInv'
<1>0. MaxStored \in Nat /\ <<>> \in Seq(Held) /\ <<>> \in Seq(Unacked) /\ Len(<<>>) = 0
  BY HybridAssumption, EmptySeq
<1>1. CASE Disconnect(n)
  <2> DEFINE notice == Packet("CONTROL", send_sequence[n], 0, <<>>)
  <2>1. notice \in Wire
    <3>1. send_sequence[n] \in Numbers /\ <<>> \in Seq(Nat)
      BY EmptySeq DEF TypeInv, NumberTypes
    <3> QED BY <3>1, NumberFacts DEF Packet, Wire, Packets
  <2>2. /\ udp' = IF CanUdp THEN [udp EXCEPT ![Peer(n)] = @ \cup {notice}] ELSE udp
        /\ tcp' = IF CanTcp(n) THEN [tcp EXCEPT ![Peer(n)] = Append(@, notice)] ELSE tcp
    BY <1>1 DEF Disconnect
  <2> HIDE DEF notice
  <2>3. /\ Peer(n) \in Nodes /\ TcpRoom \in Nat
        /\ tcp[Peer(n)] \in Seq(Wire) /\ Len(tcp[Peer(n)]) \in Nat
    BY PeerFacts, LenProperties, HybridAssumption DEF TypeInv, NetTypes
  <2>4. /\ Append(tcp[Peer(n)], notice) \in Seq(Wire)
        /\ Len(Append(tcp[Peer(n)], notice)) = Len(tcp[Peer(n)]) + 1
    BY <2>1, <2>3, AppendProperties
  <2>5. CanTcp(n) => Len(tcp[Peer(n)]) + 1 <= TcpRoom
    BY <2>3 DEF CanTcp, TcpSpace
  <2>6. NetTypes'
    BY <2>1, <2>2, <2>3, <2>4, <2>5 DEF TypeInv, NetTypes
  <2>7. ListTypes'
    BY <1>0, <1>1 DEF Disconnect, TypeInv, ListTypes
  <2>8. PhaseTypes' /\ NumberTypes' /\ ClockTypes' /\ ByteTypes'
    BY <1>1, NumberTaken
       DEF Disconnect, TypeInv, PhaseTypes, NumberTypes, ClockTypes, ByteTypes, history, clocks
  <2> QED BY <2>6, <2>7, <2>8 DEF TypeInv
<1>2. CASE Destroy(n)
  <2>1. ListTypes'
    BY <1>0, <1>2 DEF Destroy, TypeInv, ListTypes
  <2>2. PhaseTypes' /\ NumberTypes' /\ ClockTypes' /\ ByteTypes' /\ NetTypes'
    BY <1>2 DEF Destroy, TypeInv, PhaseTypes, NumberTypes, ClockTypes, ByteTypes, NetTypes,
                history, clocks, net
  <2> QED BY <2>1, <2>2 DEF TypeInv
<1>3. CASE StopDraining(n)
  BY <1>3 DEF StopDraining, TypeInv, PhaseTypes, NumberTypes, ClockTypes, ByteTypes,
              NetTypes, ListTypes, history, clocks, net
<1> QED BY <1>1, <1>2, <1>3

\* A list a tick later.
Aged(list) ==
  [i \in Positions(list) |-> [list[i] EXCEPT !.age = Older(@, RetransmitTimeout + 1)]]

LEMMA AgedTypes ==
  ASSUME NEW list \in Seq(Unacked)
  PROVE  /\ Aged(list) \in Seq(Unacked) /\ Len(Aged(list)) = Len(list) /\ Len(list) \in Nat
         /\ \A i \in 1 .. Len(list) :
              /\ list[i] \in Unacked
              /\ Aged(list)[i] = [list[i] EXCEPT !.age = Older(@, RetransmitTimeout + 1)]
<1>1. Len(list) \in Nat /\ \A i \in 1 .. Len(list) : list[i] \in Unacked
  BY LenProperties, ElementOfSeq
<1>2. ASSUME NEW e \in Unacked
      PROVE  [e EXCEPT !.age = Older(@, RetransmitTimeout + 1)] \in Unacked
  <2>1. e.age \in 0 .. RetransmitTimeout + 1 /\ RetransmitTimeout \in Nat
    BY HybridAssumption DEF Unacked
  <2>2. Older(e.age, RetransmitTimeout + 1) \in 0 .. RetransmitTimeout + 1
    BY <2>1 DEF Older, Smaller
  <2> QED BY <2>2 DEF Unacked
<1>3. Aged(list) \in [1 .. Len(list) -> Unacked]
  BY <1>1, <1>2 DEF Aged, Positions
<1>4. Aged(list) \in Seq(Unacked)
  BY <1>1, <1>3
<1>5. Len(Aged(list)) = Len(list)
  BY <1>1, <1>3, <1>4, LenProperties
<1> QED BY <1>1, <1>4, <1>5 DEF Aged, Positions

LEMMA TickTypes ==
  ASSUME TypeInv, Tick PROVE TypeInv'
<1>1. send_buffer' = [n \in Nodes |-> Aged(send_buffer[n])]
  BY DEF Tick, Aged
<1>2. \A n \in Nodes : Aged(send_buffer[n]) \in Seq(Unacked)
  BY AgedTypes DEF TypeInv, ListTypes
<1>3. ListTypes'
  BY <1>1, <1>2 DEF Tick, TypeInv, ListTypes
<1>4. ClockTypes'
  <2>1. \A cap \in Nat : \A age \in 0 .. cap : Older(age, cap) \in 0 .. cap
    BY DEF Older, Smaller
  <2>2. IdleLimit + 1 \in Nat /\ HeartbeatInterval + 1 \in Nat
    BY HybridAssumption
  <2>3. \A n \in Nodes : /\ Older(last_activity[n], IdleLimit + 1) \in 0 .. IdleLimit + 1
                         /\ Older(last_heartbeat[n], HeartbeatInterval + 1)
                              \in 0 .. HeartbeatInterval + 1
    BY <2>1, <2>2 DEF TypeInv, ClockTypes
  <2> QED BY <2>3 DEF Tick, ClockTypes
<1> QED BY <1>3, <1>4 DEF Tick, TypeInv, PhaseTypes, NumberTypes, ByteTypes, NetTypes, history, net

LEMMA TypeStep == TypeInv /\ [Next]_vars => TypeInv'
<1> SUFFICES ASSUME TypeInv, [Next]_vars PROVE TypeInv'
  OBVIOUS
<1>1. CASE UNCHANGED vars
  BY <1>1 DEF vars, TypeInv, PhaseTypes, NumberTypes, ClockTypes, ByteTypes, NetTypes,
              ListTypes
<1>2. CASE Tick
  BY <1>2, TickTypes
<1>3. ASSUME NEW n \in Nodes, NEW size \in 1 .. MaxPayload, SendData(n, size) PROVE TypeInv'
  BY <1>3, SendDataTypes
<1>4. ASSUME NEW n \in Nodes, RecvData(n) \/ ProcessUdp(n) \/ ProcessTcp(n) \/ HandleTimeout(n)
      PROVE  TypeInv'
  BY <1>4, RecvDataTypes, ProcessUdpTypes, ProcessTcpTypes, HandleTimeoutTypes
<1>5. ASSUME NEW n \in Nodes, Disconnect(n) \/ Destroy(n) \/ StopDraining(n)
      PROVE  TypeInv'
  BY <1>5, EndTypes
<1> QED BY <1>1, <1>2, <1>3, <1>4, <1>5 DEF Next

LEMMA TypeInvariant == Spec => []TypeInv
BY TypesInitially, TypeStep, PTL DEF Spec

\* Whatever the network and the clock do, the lists hold packets that were sent,
\* within the limits of their ages and counts, and neither a receive list nor
\* the TCP connection outgrows its room.
THEOREM TransportTyped == Spec => []TypeOK
BY TypeInvariant, TypesGiveOK, PTL

-----------------------------------------------------------------------------
(* The order of the unacknowledged packets *)

Behind(newer, older) ==
  \/ older.retransmit_count > newer.retransmit_count
  \/ /\ older.retransmit_count = newer.retransmit_count
     /\ older.age >= newer.age

Ranked(list) == \A i, j \in 1 .. Len(list) : i < j => Behind(list[i], list[j])

LEMMA OlderFirstIs == OlderFirst <=> \A n \in Nodes : Ranked(send_buffer[n])
BY DEF OlderFirst, Ranked, Behind, Positions

LEMMA CountsAndAges ==
  ASSUME NEW e \in Unacked
  PROVE  /\ e.retransmit_count \in Nat /\ e.retransmit_count <= MaxRetransmit
         /\ e.age \in Nat /\ MaxRetransmit \in Nat /\ RetransmitTimeout \in Nat
BY HybridAssumption DEF Unacked

LEMMA PickRanked ==
  ASSUME NEW list \in Seq(Unacked), Ranked(list), NEW P
  PROVE  Ranked(Pick(list, P))
<1>1. PICK f : Selects(f, Pick(list, P), list, Len(list), P)
  BY PickSelects DEF Selection
<1> DEFINE t == Pick(list, P)
<1> SUFFICES ASSUME NEW i \in 1 .. Len(t), NEW j \in 1 .. Len(t), i < j
             PROVE  Behind(t[i], t[j])
  BY DEF Ranked
<1>2. /\ f[i] \in 1 .. Len(list) /\ f[j] \in 1 .. Len(list) /\ f[i] < f[j]
      /\ t[i] = list[f[i]] /\ t[j] = list[f[j]]
  BY <1>1 DEF Selects
<1> HIDE DEF t
<1> QED BY <1>2 DEF Ranked

LEMMA BufferedRanked ==
  ASSUME NEW list \in Seq(Unacked), Ranked(list), NEW e \in Unacked,
         e.retransmit_count = 0, e.age = 0
  PROVE  Ranked(Buffered(list, e))
<1> DEFINE t == <<e>> \o list
<1>1. /\ Len(list) \in Nat /\ Len(t) = 1 + Len(list) /\ t[1] = e
      /\ \A i \in 2 .. Len(list) + 1 : t[i] = list[i - 1]
  <2>1. <<e>> \in Seq(Unacked) /\ Len(<<e>>) = 1 /\ <<e>>[1] = e /\ Len(list) \in Nat
    BY LenProperties
  <2>2. /\ Len(t) = 1 + Len(list)
        /\ \A i \in 1 .. 1 + Len(list) : t[i] = IF i <= 1 THEN <<e>>[i] ELSE list[i - 1]
    BY <2>1, ConcatProperties
  <2> HIDE DEF t
  <2> QED BY <2>1, <2>2
<1> HIDE DEF t
<1> SUFFICES ASSUME NEW i \in 1 .. Len(t), NEW j \in 1 .. Len(t), i < j
             PROVE  Behind(t[i], t[j])
  BY DEF Ranked, Buffered, t
<1>2. j \in 2 .. Len(list) + 1 /\ j - 1 \in 1 .. Len(list)
  BY <1>1
<1>3. t[j] = list[j - 1] /\ t[j] \in Unacked
  <2>1. list[j - 1] \in Unacked
    BY <1>2, ElementOfSeq
  <2> QED BY <1>1, <1>2, <2>1
<1>4. CASE i = 1
  <2>1. t[i] = e
    BY <1>1, <1>4
  <2>2. t[j].retransmit_count \in Nat /\ t[j].age \in Nat
    BY <1>3, CountsAndAges
  <2> QED BY <2>1, <2>2 DEF Behind
<1>5. CASE i # 1
  <2>1. i \in 2 .. Len(list) + 1 /\ i - 1 \in 1 .. Len(list) /\ i - 1 < j - 1
    BY <1>1, <1>2, <1>5
  <2>2. t[i] = list[i - 1]
    BY <1>1, <2>1
  <2> QED BY <1>2, <1>3, <2>1, <2>2 DEF Ranked
<1> QED BY <1>4, <1>5

\* Sending again and leaving alone keep one packet behind another.
LEMMA TouchedRanked ==
  ASSUME NEW list \in Seq(Unacked), Ranked(list)
  PROVE  Ranked(Touched(list))
<1>1. Len(Touched(list)) = Len(list) /\ Len(list) \in Nat
      /\ \A i \in 1 .. Len(list) : list[i] \in Unacked
  BY TouchedTypes, LenProperties
<1> SUFFICES ASSUME NEW i \in 1 .. Len(list), NEW j \in 1 .. Len(list), i < j
             PROVE  Behind(Touched(list)[i], Touched(list)[j])
  BY <1>1 DEF Ranked
<1> DEFINE a == list[i]
           b == list[j]
           a1 == Touched(list)[i]
           b1 == Touched(list)[j]
<1>2. /\ a.retransmit_count \in Nat /\ a.retransmit_count <= MaxRetransmit /\ a.age \in Nat
      /\ b.retransmit_count \in Nat /\ b.retransmit_count <= MaxRetransmit /\ b.age \in Nat
      /\ MaxRetransmit \in Nat /\ RetransmitTimeout \in Nat
  BY <1>1, CountsAndAges
<1>3. Behind(a, b)
  BY DEF Ranked
<1>4. /\ i \in Resends(list) =>
           /\ a.age > RetransmitTimeout /\ ~(a.retransmit_count >= MaxRetransmit)
           /\ a1.age = 0 /\ a1.retransmit_count = a.retransmit_count + 1
      /\ i \notin Resends(list) =>
           /\ ~(a.age > RetransmitTimeout) \/ a.retransmit_count >= MaxRetransmit
           /\ a1 = a
  <2>1. a \in Unacked
    BY <1>1
  <2>2. a1 = IF i \in Resends(list) THEN Resent(a) ELSE a
    BY DEF Touched, Positions
  <2>3. Resent(a).age = 0 /\ Resent(a).retransmit_count = a.retransmit_count + 1
    BY <2>1 DEF Resent, Unacked
  <2>4. i \in Resends(list) <=> a.age > RetransmitTimeout /\ ~(a.retransmit_count >= MaxRetransmit)
    BY DEF Resends, Due, Exhausted, Positions
  <2> HIDE DEF a, a1
  <2> QED BY <2>2, <2>3, <2>4
<1>5. /\ j \in Resends(list) =>
           /\ b.age > RetransmitTimeout /\ ~(b.retransmit_count >= MaxRetransmit)
           /\ b1.age = 0 /\ b1.retransmit_count = b.retransmit_count + 1
      /\ j \notin Resends(list) =>
           /\ ~(b.age > RetransmitTimeout) \/ b.retransmit_count >= MaxRetransmit
           /\ b1 = b
  <2>1. b \in Unacked
    BY <1>1
  <2>2. b1 = IF j \in Resends(list) THEN Resent(b) ELSE b
    BY DEF Touched, Positions
  <2>3. Resent(b).age = 0 /\ Resent(b).retransmit_count = b.retransmit_count + 1
    BY <2>1 DEF Resent, Unacked
  <2>4. j \in Resends(list) <=> b.age > RetransmitTimeout /\ ~(b.retransmit_count >= MaxRetransmit)
    BY DEF Resends, Due, Exhausted, Positions
  <2> HIDE DEF b, b1
  <2> QED BY <2>2, <2>3, <2>4
<1> HIDE DEF a, b, a1, b1
<1>6. Behind(a1, b1)
  <2>1. CASE i \in Resends(list) /\ j \in Resends(list)
    BY <1>2, <1>3, <1>4, <1>5, <2>1 DEF Behind
  <2>2. CASE i \in Resends(list) /\ j \notin Resends(list)
    BY <1>2, <1>3, <1>4, <1>5, <2>2 DEF Behind
  <2>3. CASE i \notin Resends(list) /\ j \in Resends(list)
    BY <1>2, <1>3, <1>4, <1>5, <2>3 DEF Behind
  <2>4. CASE i \notin Resends(list) /\ j \notin Resends(list)
    BY <1>3, <1>4, <1>5, <2>4
  <2> QED BY <2>1, <2>2, <2>3, <2>4
<1> QED BY <1>6 DEF a1, b1

LEMMA AgedRanked ==
  ASSUME NEW list \in Seq(Unacked), Ranked(list)
  PROVE  Ranked(Aged(list))
<1> SUFFICES ASSUME NEW i \in 1 .. Len(list), NEW j \in 1 .. Len(list), i < j
             PROVE  Behind(Aged(list)[i], Aged(list)[j])
  BY AgedTypes DEF Ranked
<1>1. /\ list[i] \in Unacked /\ list[j] \in Unacked
      /\ Aged(list)[i] = [list[i] EXCEPT !.age = Older(@, RetransmitTimeout + 1)]
      /\ Aged(list)[j] = [list[j] EXCEPT !.age = Older(@, RetransmitTimeout + 1)]
  BY AgedTypes
<1>2. /\ Aged(list)[i].retransmit_count = list[i].retransmit_count
      /\ Aged(list)[j].retransmit_count = list[j].retransmit_count
      /\ Aged(list)[i].age = Older(list[i].age, RetransmitTimeout + 1)
      /\ Aged(list)[j].age = Older(list[j].age, RetransmitTimeout + 1)
  BY <1>1 DEF Unacked
<1>3. Behind(list[i], list[j])
  BY DEF Ranked
<1>4. list[i].age \in Nat /\ list[j].age \in Nat /\ RetransmitTimeout + 1 \in Nat
  BY <1>1, CountsAndAges
<1>5. \A cap, x, y \in Nat : x >= y => Older(x, cap) >= Older(y, cap)
  BY DEF Older, Smaller
<1>6. list[j].age >= list[i].age =>
        Older(list[j].age, RetransmitTimeout + 1) >= Older(list[i].age, RetransmitTimeout + 1)
  BY <1>4, <1>5
<1> QED BY <1>2, <1>3, <1>6 DEF Behind

LEMMA OlderStep ==
  ASSUME TypeInv, OlderFirst, [Next]_vars PROVE OlderFirst'
<1> DEFINE Kept == \A n \in Nodes : Ranked(send_buffer'[n])
<1>0. \A n \in Nodes : Ranked(send_buffer[n]) /\ send_buffer[n] \in Seq(Unacked)
  BY OlderFirstIs DEF TypeInv, ListTypes
<1>1. send_buffer \in [Nodes -> Seq(Unacked)]
  BY DEF TypeInv, ListTypes
<1>2. ASSUME NEW n \in Nodes, NEW list,
             send_buffer' = [send_buffer EXCEPT ![n] = list], Ranked(list)
      PROVE  Kept
  BY <1>0, <1>1, <1>2
<1>3. ASSUME UNCHANGED send_buffer PROVE Kept
  BY <1>0, <1>3
<1>4. Ranked(<<>>)
  BY DEF Ranked
<1>5. ASSUME UNCHANGED vars PROVE Kept
  BY <1>3, <1>5 DEF vars
<1>6. ASSUME Tick PROVE Kept
  <2>1. send_buffer' = [n \in Nodes |-> Aged(send_buffer[n])]
    BY <1>6 DEF Tick, Aged
  <2> QED BY <1>0, <2>1, AgedRanked
<1>7. ASSUME NEW n \in Nodes, NEW size \in 1 .. MaxPayload, SendData(n, size) PROVE Kept
  <2> DEFINE payload == [i \in 1 .. size |-> accepted[n] + i]
             e == Entry(n, payload)
  <2>1. UNCHANGED send_buffer
          \/ send_buffer' = [send_buffer EXCEPT ![n] = Buffered(send_buffer[n], e)]
    BY <1>7 DEF SendData
  <2>2. e \in Unacked /\ e.retransmit_count = 0 /\ e.age = 0
    <3>1. accepted[n] \in Nat /\ size \in Nat /\ send_sequence[n] \in Numbers
      BY HybridAssumption DEF TypeInv, ByteTypes, NumberTypes
    <3>2. payload = Stretch(accepted[n], size)
      BY DEF Stretch
    <3>3. payload \in Payloads
      BY <3>1, <3>2, StretchTypes DEF Payloads
    <3> HIDE DEF payload
    <3> QED BY <3>1, <3>3, HybridAssumption DEF Entry, Unacked
  <2> HIDE DEF e
  <2>3. Ranked(Buffered(send_buffer[n], e))
    BY <1>0, <2>2, BufferedRanked
  <2> QED BY <1>2, <1>3, <2>1, <2>3
<1>8. ASSUME NEW n \in Nodes, RecvData(n) PROVE Kept
  BY <1>3, <1>8, RecvDataIs
<1>9. ASSUME NEW n \in Nodes, NEW packet, TakePacket(n, packet) PROVE Kept
  <2>1. UNCHANGED send_buffer
          \/ send_buffer' = [send_buffer EXCEPT ![n] = RemoveFirst(send_buffer[n], packet.ack)]
    BY <1>9 DEF TakePacket, TakeData, TakeAck, TakeHeartbeat, TakeClose
  <2>2. Ranked(RemoveFirst(send_buffer[n], packet.ack))
    BY <1>0, PickRanked DEF RemoveFirst
  <2> QED BY <1>2, <1>3, <2>1, <2>2
<1>10. ASSUME NEW n \in Nodes, ProcessUdp(n) \/ ProcessTcp(n) PROVE Kept
  BY <1>9, <1>10 DEF ProcessUdp, ProcessTcp
<1>11. ASSUME NEW n \in Nodes, HandleTimeout(n) PROVE Kept
  <2> DEFINE list == send_buffer[n]
  <2>1. send_buffer' = [send_buffer EXCEPT ![n] = AfterResend(list)]
    BY <1>11, TimeoutIs
  <2>2. AfterResend(list) = Pick(Touched(list), Positions(list) \ Unlinked(list))
    BY DEF AfterResend, Touched
  <2>3. list \in Seq(Unacked) /\ Ranked(list)
    BY <1>0
  <2> HIDE DEF list
  <2>4. Touched(list) \in Seq(Unacked) /\ Ranked(Touched(list))
    BY <2>3, TouchedTypes, TouchedRanked
  <2>5. Ranked(AfterResend(list))
    BY <2>2, <2>4, PickRanked
  <2> QED BY <1>2, <2>1, <2>5
<1>12. ASSUME NEW n \in Nodes, Disconnect(n) \/ Destroy(n) \/ StopDraining(n) PROVE Kept
  <2>1. UNCHANGED send_buffer \/ send_buffer' = [send_buffer EXCEPT ![n] = <<>>]
    BY <1>12 DEF Disconnect, Destroy, StopDraining
  <2> QED BY <1>2, <1>3, <1>4, <2>1
<1>13. Kept
  <2> HIDE DEF Kept
  <2> QED BY <1>5, <1>6, <1>7, <1>8, <1>10, <1>11, <1>12 DEF Next
<1> QED BY <1>13 DEF OlderFirst, Ranked, Behind, Positions

\* The list of unacknowledged packets ages from its far end: what is older was
\* sent again at least as often, whatever acknowledgements took out of it.
THEOREM OldestGivenUpFirst == Spec => []OlderFirst
<1>1. Init => OlderFirst
  <2>1. Init => \A n \in Nodes : Ranked(send_buffer[n])
    BY DEF Init, Ranked
  <2> QED BY <2>1, OlderFirstIs
<1>2. TypeInv /\ OlderFirst /\ [Next]_vars => OlderFirst'
  BY OlderStep
<1> QED BY <1>1, <1>2, TypeInvariant, PTL DEF Spec

-----------------------------------------------------------------------------
(* Numbers and bytes *)

\* No end uses so many numbers that they come round to 0.  The code wraps them
\* without a look at what is still out, and the first one is at most 2^31 - 1:
\* what follows is about connections of fewer than 2^31 packets.
NumbersLast ==
  \A n \in Nodes : \A first \in FirstSequences : first + MaxPackets[n] < SequenceModulus

Item(x) == [sequence |-> x.sequence, payload |-> x.payload]

StartOf(x) == x.payload[1] - 1
EndOf(x)   == StartOf(x) + Len(x.payload)

\* What is known of the packets one end sends: those on their way to its peer,
\* in the list of the peer and in its own list.
Elements(s)     == {s[i] : i \in 1 .. Len(s)}
Items(S)        == {Item(x) : x \in S}
DataOf(packets) == {p \in packets : p.type = "DATA"}
Known(n) ==
  Items(DataOf(InFlightTo(Peer(n)))) \cup Items(Elements(recv_buffer[Peer(n)]))
    \cup Items(Elements(send_buffer[n]))

\* A packet is a stretch of the bytes accepted so far; the newest number has the
\* last of them, and the number the peer waits for the first one it lacks.
Placed(x, first, send, total, next, count) ==
  /\ x.sequence \in first .. send - 1
  /\ StartOf(x) \in Nat
  /\ x.payload = Stretch(StartOf(x), Len(x.payload))
  /\ EndOf(x) <= total
  /\ x.sequence = send - 1 => EndOf(x) = total
  /\ x.sequence = next => StartOf(x) = count

Consistent(x, y) ==
  /\ x.sequence = y.sequence => x = y
  /\ x.sequence + 1 = y.sequence => EndOf(x) = StartOf(y)

Sound(K, first, send, total, next, count) ==
  /\ first <= send
  /\ \A x \in K : Placed(x, first, send, total, next, count)
  /\ \A x, y \in K : Consistent(x, y)
  /\ next <= send
  /\ next = send => count = total
  /\ count <= total

SoundSide(n) ==
  LET m     == Peer(n)
      count == Len(unpacked[m])
  IN /\ send_sequence[n] <= first_sequence[n] + MaxPackets[n]
     /\ Sound(Known(n), first_sequence[n], send_sequence[n], accepted[n],
              recv_sequence[m], count)
     /\ unpacked[m] = Stretch(0, count)
     /\ \A i \in 1 .. Len(delivered[m]) : delivered[m][i] <= count

NumInv ==
  /\ first_sequence \in [Nodes -> FirstSequences]
  /\ \A n \in Nodes : SoundSide(n)

LEMMA SoundFewer ==
  ASSUME NEW K, NEW first \in Nat, NEW send \in Nat, NEW total \in Nat, NEW next \in Nat,
         NEW count \in Nat, Sound(K, first, send, total, next, count),
         NEW K2 \in SUBSET K, NEW send2 \in {send, send + 1}
  PROVE  Sound(K2, first, send2, total, next, count)
<1>1. CASE send2 = send
  BY <1>1 DEF Sound
<1>2. CASE send2 = send + 1
  <2>1. ASSUME NEW x \in K2 PROVE Placed(x, first, send2, total, next, count)
    <3>1. Placed(x, first, send, total, next, count)
      BY DEF Sound
    <3>2. x.sequence \in first .. send - 1
      BY <3>1 DEF Placed
    <3>3. x.sequence \in first .. send2 - 1 /\ x.sequence # send2 - 1
      BY <1>2, <3>2
    <3> QED BY <3>1, <3>3 DEF Placed
  <2>2. first <= send2 /\ next <= send2 /\ next # send2 /\ count <= total
    BY <1>2 DEF Sound
  <2> QED BY <2>1, <2>2 DEF Sound
<1> QED BY <1>1, <1>2

LEMMA StretchPlace ==
  ASSUME NEW a \in Nat, NEW size \in Nat \ {0}, NEW x, x.payload = Stretch(a, size)
  PROVE  StartOf(x) = a /\ EndOf(x) = a + size /\ Len(x.payload) = size
<1>1. Len(x.payload) = size
  BY StretchTypes
<1>2. x.payload[1] = a + 1
  BY DEF Stretch
<1> QED BY <1>1, <1>2 DEF StartOf, EndOf

LEMMA SoundMore ==
  ASSUME NEW K, NEW first \in Nat, NEW send \in Nat, NEW total \in Nat, NEW next \in Nat,
         NEW count \in Nat, Sound(K, first, send, total, next, count),
         NEW x, NEW size \in Nat \ {0},
         x.sequence = send, x.payload = Stretch(total, size),
         NEW K2 \in SUBSET (K \cup {x})
  PROVE  Sound(K2, first, send + 1, total + size, next, count)
<1>1. StartOf(x) = total /\ EndOf(x) = total + size /\ Len(x.payload) = size
  BY StretchPlace
<1>2. /\ first <= send /\ next <= send /\ count <= total
      /\ next = send => count = total
  BY DEF Sound
<1>3. Placed(x, first, send + 1, total + size, next, count)
  BY <1>1, <1>2 DEF Placed
<1>4. ASSUME NEW y \in K
      PROVE  /\ Placed(y, first, send + 1, total + size, next, count)
             /\ Consistent(x, y) /\ Consistent(y, x)
  <2>1. Placed(y, first, send, total, next, count)
    BY DEF Sound
  <2>2. /\ y.sequence \in first .. send - 1 /\ StartOf(y) \in Nat /\ EndOf(y) <= total
        /\ y.sequence = send - 1 => EndOf(y) = total
    BY <2>1 DEF Placed
  <2>3. y.sequence \in first .. (send + 1) - 1 /\ y.sequence # (send + 1) - 1
    BY <2>2
  <2>4. EndOf(y) <= total + size
    <3>1. EndOf(y) \in Int
      <4>1. Len(y.payload) \in Nat
        <5>1. y.payload = Stretch(StartOf(y), Len(y.payload))
          BY <2>1 DEF Placed
        <5> QED BY <2>2, <5>1
      <4> QED BY <2>2, <4>1 DEF EndOf
    <3> QED BY <2>2, <3>1
  <2>5. Placed(y, first, send + 1, total + size, next, count)
    BY <2>1, <2>3, <2>4 DEF Placed
  <2>6. x.sequence # y.sequence /\ x.sequence + 1 # y.sequence
    BY <2>2
  <2>7. y.sequence + 1 = x.sequence => EndOf(y) = StartOf(x)
    BY <1>1, <2>2
  <2> QED BY <2>5, <2>6, <2>7 DEF Consistent
<1>5. Consistent(x, x)
  BY DEF Consistent
<1>6. \A y, z \in K2 : Consistent(y, z)
  <2>1. \A y, z \in K : Consistent(y, z)
    BY DEF Sound
  <2> QED BY <1>4, <1>5, <2>1
<1>7. \A y \in K2 : Placed(y, first, send + 1, total + size, next, count)
  BY <1>3, <1>4
<1>8. first <= send + 1 /\ next <= send + 1 /\ next # send + 1 /\ count <= total + size
  BY <1>2
<1> QED BY <1>6, <1>7, <1>8 DEF Sound

LEMMA StretchConcat ==
  ASSUME NEW a \in Nat, NEW p \in Nat, NEW q \in Nat
  PROVE  Stretch(a, p) \o Stretch(a + p, q) = Stretch(a, p + q)
<1> DEFINE s == Stretch(a, p)
           t == Stretch(a + p, q)
           u == Stretch(a, p + q)
           st == s \o t
<1>1. /\ s \in Seq(Nat) /\ Len(s) = p /\ t \in Seq(Nat) /\ Len(t) = q
      /\ u \in Seq(Nat) /\ Len(u) = p + q
  <2>1. a + p \in Nat /\ p + q \in Nat
    OBVIOUS
  <2> QED BY <2>1, StretchTypes
<1>2. /\ \A i \in 1 .. p : s[i] = a + i
      /\ \A i \in 1 .. q : t[i] = (a + p) + i
      /\ \A i \in 1 .. p + q : u[i] = a + i
  BY DEF Stretch
<1> HIDE DEF s, t, u
<1>3. /\ st \in Seq(Nat) /\ Len(st) = p + q
      /\ \A i \in 1 .. p + q : st[i] = IF i <= p THEN s[i] ELSE t[i - p]
  BY <1>1, ConcatProperties
<1> HIDE DEF st
<1>4. ASSUME NEW i \in 1 .. p + q PROVE st[i] = u[i]
  <2>1. CASE i <= p
    <3>1. i \in 1 .. p
      BY <2>1
    <3> QED BY <1>2, <1>3, <2>1, <3>1
  <2>2. CASE ~(i <= p)
    <3>1. i - p \in 1 .. q /\ (a + p) + (i - p) = a + i
      BY <2>2
    <3> QED BY <1>2, <1>3, <2>2, <3>1
  <2> QED BY <2>1, <2>2
<1>5. st = u
  BY <1>1, <1>3, <1>4, SeqEqual
<1> QED BY <1>5 DEF st, s, t, u

LEMMA SmallMod ==
  ASSUME NEW k \in Nat, k < SequenceModulus PROVE k % SequenceModulus = k
BY HybridAssumption

\* One stretch after another.
LEMMA StretchStep ==
  ASSUME NEW a \in Nat, NEW p \in Nat, NEW q \in Nat, NEW b, NEW y, NEW z,
         b = Stretch(a, p), y = Stretch(a + p, q), z = b \o y
  PROVE  z = Stretch(a, p + q) /\ Len(z) = p + q /\ p + q \in Nat
<1>1. z = Stretch(a, p + q)
  BY StretchConcat
<1>2. p + q \in Nat
  OBVIOUS
<1> QED BY <1>1, <1>2, StretchTypes

LEMMA StretchFromStart ==
  ASSUME NEW p \in Nat, NEW q \in Nat
  PROVE  Stretch(0, p) \o Stretch(p, q) = Stretch(0, p + q)
<1> DEFINE m == 0 + p
           r == 0 + (p + q)
<1>1. m = p /\ 0 \in Nat
  OBVIOUS
<1>2. Stretch(0, p) \o Stretch(m, q) = Stretch(0, p + q)
  BY <1>1, StretchConcat
<1> QED BY <1>1, <1>2

\* The packets of xs come one after the other, and bytes has what they bring.
InTurn(xs, bytes, n, K, next) ==
  /\ xs \in [1 .. n -> K]
  /\ bytes[0] = <<>>
  /\ \A k \in 1 .. n : /\ xs[k].sequence = (next + k - 1) % SequenceModulus
                       /\ bytes[k] = bytes[k - 1] \o xs[k].payload

Filled(xs, bytes, n, next, count) ==
  \A k \in 0 .. n :
    /\ Len(bytes[k]) \in Nat /\ bytes[k] = Stretch(count, Len(bytes[k]))
    /\ k # 0 => /\ xs[k].sequence = next + k - 1
                /\ EndOf(xs[k]) = count + Len(bytes[k])

\* Packets taken one after the other, each the one expected, have the bytes that
\* follow those taken before.
LEMMA Walk ==
  ASSUME NEW K \in SUBSET Held, NEW first \in Nat, NEW send \in Nat, NEW total \in Nat,
         NEW next \in Nat, NEW count \in Nat,
         Sound(K, first, send, total, next, count), send < SequenceModulus,
         NEW n \in Nat, NEW xs, NEW bytes, InTurn(xs, bytes, n, K, next)
  PROVE  Filled(xs, bytes, n, next, count)
<1> DEFINE Good(k) ==
             /\ Len(bytes[k]) \in Nat /\ bytes[k] = Stretch(count, Len(bytes[k]))
             /\ k # 0 => /\ xs[k].sequence = next + k - 1
                         /\ EndOf(xs[k]) = count + Len(bytes[k])
           T == {k \in 0 .. n : Good(k)}
<1>0. /\ xs \in [1 .. n -> K] /\ bytes[0] = <<>>
      /\ \A k \in 1 .. n : /\ xs[k].sequence = (next + k - 1) % SequenceModulus
                           /\ bytes[k] = bytes[k - 1] \o xs[k].payload
  BY DEF InTurn
<1>1. 0 \in T
  <2>1. Stretch(count, 0) = <<>>
    BY DEF Stretch
  <2>2. Len(bytes[0]) = 0 /\ bytes[0] = <<>>
    BY <1>0
  <2>3. 0 \in 0 .. n
    OBVIOUS
  <2>4. Good(0)
    BY <2>1, <2>2
  <2> HIDE DEF Good
  <2> QED BY <2>3, <2>4
<1>2. ASSUME NEW k \in 1 .. n, k - 1 \in T PROVE k \in T
  <2> DEFINE x == xs[k]
             w == xs[k - 1]
             size == Len(bytes[k - 1])
  <2>1. /\ size \in Nat /\ bytes[k - 1] = Stretch(count, size)
        /\ k - 1 # 0 => /\ w.sequence = next + (k - 1) - 1
                        /\ EndOf(w) = count + size
    BY <1>2
  <2>2. /\ x \in K /\ x \in Held /\ Placed(x, first, send, total, next, count)
        /\ k - 1 # 0 => w \in K /\ Placed(w, first, send, total, next, count)
    <3>1. k - 1 # 0 => k - 1 \in 1 .. n
      OBVIOUS
    <3> QED BY <1>0, <3>1 DEF Sound
  <2>3. next + k - 1 \in Nat /\ next + k - 1 <= send
    <3>1. CASE k = 1
      BY <3>1 DEF Sound
    <3>2. CASE k # 1
      <4>1. w.sequence \in first .. send - 1 /\ w.sequence = next + (k - 1) - 1
        BY <2>1, <2>2, <3>2 DEF Placed
      <4> QED BY <4>1
    <3> QED BY <3>1, <3>2
  <2>4. x.sequence = next + k - 1
    <3>1. x.sequence = (next + k - 1) % SequenceModulus
      BY <1>0
    <3>2. next + k - 1 < SequenceModulus
      BY <2>3, HybridAssumption
    <3> QED BY <2>3, <3>1, <3>2, SmallMod
  <2>5. StartOf(x) = count + size
    <3>1. CASE k = 1
      <4>1. size = 0
        BY <1>0, <3>1
      <4>2. x.sequence = next
        BY <2>4, <3>1
      <4> HIDE DEF x, size
      <4> QED BY <2>2, <4>1, <4>2 DEF Placed
    <3>2. CASE k # 1
      <4>1. w.sequence + 1 = x.sequence /\ w \in K /\ EndOf(w) = count + size
        BY <2>1, <2>2, <2>4, <3>2
      <4>2. Consistent(w, x)
        BY <2>2, <4>1 DEF Sound
      <4> HIDE DEF x, w, size
      <4> QED BY <4>1, <4>2 DEF Consistent
    <3> QED BY <3>1, <3>2
  <2>6. Len(x.payload) \in Nat
    BY <2>2, LenProperties DEF Held, Payloads
  <2>7. x.payload = Stretch(count + size, Len(x.payload))
    BY <2>2, <2>5 DEF Placed
  <2>8. bytes[k] = bytes[k - 1] \o x.payload
    BY <1>0
  <2> DEFINE b == bytes[k - 1]
             z == bytes[k]
             y == x.payload
             q == Len(y)
  <2>9. z = Stretch(count, size + q)
    <3>1. size \in Nat /\ q \in Nat /\ b = Stretch(count, size)
          /\ y = Stretch(count + size, q) /\ z = b \o y
      BY <2>1, <2>6, <2>7, <2>8
    <3> HIDE DEF size, b, z, y, q, Good, T
    <3>2. Stretch(count, size) \o Stretch(count + size, q) = Stretch(count, size + q)
      BY <3>1, StretchConcat
    <3> QED BY <3>1, <3>2
  <2>10. Len(z) = size + q /\ size + q \in Nat
    <3>1. size \in Nat /\ q \in Nat
      BY <2>1, <2>6
    <3> HIDE DEF size, b, z, y, q, Good, T
    <3>2. size + q \in Nat
      BY <3>1
    <3>3. Len(Stretch(count, size + q)) = size + q
      BY <3>2, StretchTypes
    <3> QED BY <2>9, <3>2, <3>3
  <2>11. EndOf(x) = count + Len(z)
    <3>1. EndOf(x) = StartOf(x) + q /\ q \in Nat /\ size \in Nat
      BY <2>1, <2>6 DEF EndOf
    <3> HIDE DEF x, size, b, z, y, q, Good, T
    <3> QED BY <2>5, <2>10, <3>1
  <2>12. Good(k)
    BY <2>4, <2>9, <2>10, <2>11 DEF x
  <2> HIDE DEF Good
  <2> QED BY <2>12
<1>3. 0 .. n \subseteq T
  <2> HIDE DEF T
  <2> QED BY <1>1, <1>2, InductionUpTo
<1>4. \A k \in 0 .. n : Good(k)
  <2> HIDE DEF Good
  <2> QED BY <1>3
<1> QED BY <1>4 DEF Filled

\* After them the next one expected begins where the last one ended.
LEMMA SoundTaken ==
  ASSUME NEW K \in SUBSET Held, NEW first \in Nat, NEW send \in Nat, NEW total \in Nat,
         NEW next \in Nat, NEW count \in Nat,
         Sound(K, first, send, total, next, count),
         NEW n \in Nat, NEW x \in K, NEW size \in Nat, x.sequence = next + n - 1,
         EndOf(x) = count + size,
         NEW K2 \in SUBSET K
  PROVE  /\ Sound(K2, first, send, total, next + n, count + size)
         /\ next + n <= send
<1>1. Placed(x, first, send, total, next, count)
  BY DEF Sound
<1>2. /\ x.sequence \in first .. send - 1 /\ EndOf(x) <= total
      /\ x.sequence = send - 1 => EndOf(x) = total
  BY <1>1 DEF Placed
<1>3. /\ next + n <= send /\ count + size <= total
      /\ next + n = send => count + size = total
  BY <1>2
<1>4. ASSUME NEW y \in K2 PROVE Placed(y, first, send, total, next + n, count + size)
  <2>1. Placed(y, first, send, total, next, count) /\ Consistent(x, y)
    BY DEF Sound
  <2>2. y.sequence = next + n => StartOf(y) = count + size
    <3> SUFFICES ASSUME y.sequence = next + n PROVE StartOf(y) = count + size
      OBVIOUS
    <3>1. x.sequence + 1 = y.sequence
      OBVIOUS
    <3> QED BY <2>1, <3>1 DEF Consistent
  <2> QED BY <2>1, <2>2 DEF Placed
<1>5. \A y, z \in K2 : Consistent(y, z)
  BY DEF Sound
<1>6. first <= send
  BY DEF Sound
<1> QED BY <1>3, <1>4, <1>5, <1>6 DEF Sound

-----------------------------------------------------------------------------
(* What each action does to what is on its way and in the lists *)

LEMMA ElementsOfConcat ==
  ASSUME NEW S, NEW s \in Seq(S), NEW t \in Seq(S)
  PROVE  Elements(s \o t) \subseteq Elements(s) \cup Elements(t)
<1>1. /\ Len(s \o t) = Len(s) + Len(t) /\ Len(s) \in Nat /\ Len(t) \in Nat
      /\ \A i \in 1 .. Len(s) + Len(t) :
           (s \o t)[i] = IF i <= Len(s) THEN s[i] ELSE t[i - Len(s)]
  BY ConcatProperties, LenProperties
<1>2. ASSUME NEW i \in 1 .. Len(s) + Len(t)
      PROVE  (s \o t)[i] \in Elements(s) \cup Elements(t)
  <2>1. CASE i <= Len(s)
    <3>1. i \in 1 .. Len(s) /\ (s \o t)[i] = s[i]
      BY <1>1, <2>1
    <3> QED BY <3>1 DEF Elements
  <2>2. CASE ~(i <= Len(s))
    <3>1. i - Len(s) \in 1 .. Len(t) /\ (s \o t)[i] = t[i - Len(s)]
      BY <1>1, <2>2
    <3> QED BY <3>1 DEF Elements
  <2> QED BY <2>1, <2>2
<1> QED BY <1>1, <1>2 DEF Elements

LEMMA ElementsOfAppend ==
  ASSUME NEW S, NEW s \in Seq(S), NEW x \in S
  PROVE  Elements(Append(s, x)) \subseteq Elements(s) \cup {x}
<1>1. /\ Len(Append(s, x)) = Len(s) + 1 /\ Len(s) \in Nat
      /\ \A i \in 1 .. Len(s) : Append(s, x)[i] = s[i]
      /\ Append(s, x)[Len(s) + 1] = x
  BY AppendProperties, LenProperties
<1>2. \A i \in 1 .. Len(s) + 1 : i # Len(s) + 1 => i \in 1 .. Len(s)
  BY <1>1
<1> QED BY <1>1, <1>2 DEF Elements

\* What the rest of a queue holds, its head apart, was there before.
LEMMA ElementsOfRest ==
  ASSUME NEW S, NEW s \in Seq(S), NEW m \in Nat
  PROVE  Elements(SubSeq(s, m + 1, Len(s))) \subseteq Elements(s)
<1> DEFINE rest == SubSeq(s, m + 1, Len(s))
<1>1. Len(s) \in Nat
  BY LenProperties
<1>2. \A i \in m + 1 .. Len(s) : i \in 1 .. Len(s)
  BY <1>1
<1>3. \A i \in m + 1 .. Len(s) : s[i] \in S
  BY <1>2, ElementOfSeq
<1>4. /\ Len(rest) = IF m + 1 <= Len(s) THEN Len(s) - (m + 1) + 1 ELSE 0
      /\ \A i \in 1 .. Len(s) - (m + 1) + 1 : rest[i] = s[m + 1 + i - 1]
  <2>1. m + 1 \in Int /\ Len(s) \in Int
    BY <1>1
  <2> QED BY <1>3, <2>1, SubSeqProperties
<1> HIDE DEF rest
<1>5. ASSUME NEW i \in 1 .. Len(rest) PROVE rest[i] \in Elements(s)
  <2>1. i \in 1 .. Len(s) - (m + 1) + 1 /\ m + 1 + i - 1 \in 1 .. Len(s)
    BY <1>1, <1>4
  <2> QED BY <1>4, <2>1 DEF Elements
<1> QED BY <1>5 DEF Elements, rest

LEMMA ElementsOfPick ==
  ASSUME NEW S, NEW s \in Seq(S), NEW P
  PROVE  Elements(Pick(s, P)) \subseteq Elements(s)
BY Shortened DEF Elements

\* Sending an entry again and its growing older leave the packet what it was.
LEMMA ItemsOfAged ==
  ASSUME NEW list \in Seq(Unacked)
  PROVE  Items(Elements(Aged(list))) = Items(Elements(list))
<1>1. /\ Len(Aged(list)) = Len(list)
      /\ \A i \in 1 .. Len(list) :
           /\ list[i] \in Unacked
           /\ Aged(list)[i] = [list[i] EXCEPT !.age = Older(@, RetransmitTimeout + 1)]
  BY AgedTypes
<1>2. \A i \in 1 .. Len(list) : Item(Aged(list)[i]) = Item(list[i])
  BY <1>1 DEF Item, Unacked
<1> QED BY <1>1, <1>2 DEF Elements, Items

LEMMA ItemsOfTouched ==
  ASSUME NEW list \in Seq(Unacked)
  PROVE  Items(Elements(AfterResend(list))) \subseteq Items(Elements(list))
<1>1. /\ Touched(list) \in Seq(Unacked) /\ Len(Touched(list)) = Len(list)
      /\ \A i \in 1 .. Len(list) : list[i] \in Unacked
  BY TouchedTypes
<1>2. \A i \in 1 .. Len(list) : Item(Touched(list)[i]) = Item(list[i])
  BY <1>1 DEF Touched, Positions, Resent, Item, Unacked
<1>3. Items(Elements(Touched(list))) = Items(Elements(list))
  BY <1>1, <1>2 DEF Elements, Items
<1>4. AfterResend(list) = Pick(Touched(list), Positions(list) \ Unlinked(list))
  BY DEF AfterResend, Touched
<1>5. Elements(AfterResend(list)) \subseteq Elements(Touched(list))
  BY <1>1, <1>4, ElementsOfPick
<1> QED BY <1>3, <1>5 DEF Items

LEMMA WayIs ==
  ASSUME NEW n
  PROVE  /\ InFlightTo(n) = udp[n] \cup Elements(tcp[n])
         /\ InFlightTo(n)' = udp'[n] \cup Elements(tcp'[n])
BY DEF InFlightTo, Elements, Positions

LEMMA SentOnWay ==
  ASSUME TypeInv, NEW n \in Nodes, NEW packet \in Wire, NEW use_tcp \in BOOLEAN,
         Transmit(n, Route(n, use_tcp), packet)
  PROVE  /\ InFlightTo(Peer(n))' \subseteq InFlightTo(Peer(n)) \cup {packet}
         /\ InFlightTo(n)' = InFlightTo(n)
<1>1. /\ udp \in [Nodes -> SUBSET Wire] /\ tcp \in [Nodes -> Seq(Wire)]
      /\ Peer(n) \in Nodes /\ Peer(n) # n
  BY PeerFacts DEF TypeInv, NetTypes
<1>2. Elements(Append(tcp[Peer(n)], packet)) \subseteq Elements(tcp[Peer(n)]) \cup {packet}
  BY <1>1, ElementsOfAppend
<1>3. udp'[Peer(n)] \subseteq udp[Peer(n)] \cup {packet} /\ udp'[n] = udp[n]
  BY <1>1 DEF Transmit
<1>4. /\ Elements(tcp'[Peer(n)]) \subseteq Elements(tcp[Peer(n)]) \cup {packet}
      /\ tcp'[n] = tcp[n]
  <2>1. CASE Route(n, use_tcp) = "tcp"
    <3>1. tcp' = [tcp EXCEPT ![Peer(n)] = Append(tcp[Peer(n)], packet)]
      BY <2>1 DEF Transmit
    <3>2. tcp'[Peer(n)] = Append(tcp[Peer(n)], packet) /\ tcp'[n] = tcp[n]
      BY <1>1, <3>1
    <3> QED BY <1>2, <3>2
  <2>2. CASE Route(n, use_tcp) # "tcp"
    BY <2>2 DEF Transmit
  <2> QED BY <2>1, <2>2
<1> QED BY <1>3, <1>4, WayIs

LEMMA PassedOn ==
  ASSUME TypeInv, NEW n \in Nodes, ProcessUdp(n) \/ ProcessTcp(n)
  PROVE  \E packet \in InFlightTo(n) :
           /\ packet \in Wire /\ TakePacket(n, packet)
           /\ InFlightTo(n)' \subseteq InFlightTo(n)
           /\ InFlightTo(Peer(n))' \subseteq InFlightTo(Peer(n)) \cup
                (IF packet.type = "DATA" THEN {AckOf(n, packet)} ELSE {})
<1>0. /\ udp \in [Nodes -> SUBSET Wire] /\ tcp \in [Nodes -> Seq(Wire)]
      /\ Peer(n) \in Nodes /\ Peer(n) # n
  BY PeerFacts DEF TypeInv, NetTypes
<1>1. CASE ProcessUdp(n)
  <2>1. PICK packet \in udp[n], stays \in BOOLEAN :
          /\ TakePacket(n, packet)
          /\ udp' = [m \in Nodes |->
                       IF m = n THEN IF stays THEN udp[m] ELSE udp[m] \ {packet}
                       ELSE IF packet.type = "DATA" THEN udp[m] \cup {AckOf(n, packet)}
                       ELSE udp[m]]
          /\ UNCHANGED tcp
    BY <1>1 DEF ProcessUdp
  <2>2. packet \in Wire /\ packet \in InFlightTo(n)
    BY <1>0, WayIs
  <2>3. udp'[n] \subseteq udp[n]
    BY <1>0, <2>1
  <2>4. udp'[Peer(n)] \subseteq udp[Peer(n)] \cup
          (IF packet.type = "DATA" THEN {AckOf(n, packet)} ELSE {})
    BY <1>0, <2>1
  <2>5. tcp' = tcp
    BY <2>1
  <2>6. InFlightTo(n)' \subseteq InFlightTo(n)
    BY <2>3, <2>5, WayIs
  <2>7. InFlightTo(Peer(n))' \subseteq InFlightTo(Peer(n)) \cup
          (IF packet.type = "DATA" THEN {AckOf(n, packet)} ELSE {})
    BY <2>4, <2>5, WayIs
  <2> QED BY <2>1, <2>2, <2>6, <2>7
<1>2. CASE ProcessTcp(n)
  <2> DEFINE packet == Head(tcp[n])
  <2>1. PICK count \in 1 .. (IF Merging THEN Len(tcp[n]) ELSE 1) :
          /\ TakePacket(n, packet)
          /\ tcp' = [m \in Nodes |->
                       IF m = n THEN SubSeq(tcp[m], count + 1, Len(tcp[m]))
                       ELSE IF packet.type = "DATA" /\ CanTcp(n)
                            THEN Append(tcp[m], AckOf(n, packet))
                       ELSE tcp[m]]
    BY <1>2 DEF ProcessTcp
  <2>2. tcp[n] # <<>> /\ tcp[n] \in Seq(Wire) /\ UNCHANGED udp
    BY <1>0, <1>2 DEF ProcessTcp
  <2>3. packet \in Wire /\ packet \in InFlightTo(n)
    <3>1. packet \in Wire /\ Len(tcp[n]) \in Nat /\ Len(tcp[n]) # 0 /\ packet = tcp[n][1]
      BY <2>2, HeadTailProperties, EmptySeq
    <3>2. 1 \in 1 .. Len(tcp[n])
      BY <3>1
    <3>3. packet \in Elements(tcp[n])
      BY <3>1, <3>2 DEF Elements
    <3> QED BY <3>1, <3>3, WayIs
  <2> HIDE DEF packet
  <2>4. count \in Nat
    BY LenProperties, <2>2
  <2>5. tcp'[n] = SubSeq(tcp[n], count + 1, Len(tcp[n]))
    BY <1>0, <2>1
  <2>6. InFlightTo(n)' \subseteq InFlightTo(n)
    <3>1. Elements(tcp'[n]) \subseteq Elements(tcp[n])
      BY <2>2, <2>4, <2>5, ElementsOfRest
    <3> QED BY <2>2, <3>1, WayIs
  <2>7. InFlightTo(Peer(n))' \subseteq InFlightTo(Peer(n)) \cup
          (IF packet.type = "DATA" THEN {AckOf(n, packet)} ELSE {})
    <3>1. CASE packet.type = "DATA" /\ CanTcp(n)
      <4>1. tcp'[Peer(n)] = Append(tcp[Peer(n)], AckOf(n, packet))
        BY <1>0, <2>1, <3>1
      <4>2. AckOf(n, packet) \in Wire /\ tcp[Peer(n)] \in Seq(Wire)
        BY <1>0, <2>3, AckTypes
      <4>3. Elements(tcp'[Peer(n)]) \subseteq Elements(tcp[Peer(n)]) \cup {AckOf(n, packet)}
        BY <4>1, <4>2, ElementsOfAppend
      <4> QED BY <2>2, <3>1, <4>3, WayIs
    <3>2. CASE ~(packet.type = "DATA" /\ CanTcp(n))
      <4>1. tcp'[Peer(n)] = tcp[Peer(n)]
        BY <1>0, <2>1, <3>2
      <4> QED BY <2>2, <4>1, WayIs
    <3> QED BY <3>1, <3>2
  <2> QED BY <2>1, <2>3, <2>6, <2>7
<1> QED BY <1>1, <1>2

LEMMA TimeoutOnWay ==
  ASSUME TypeInv, NEW n \in Nodes, HandleTimeout(n)
  PROVE  /\ InFlightTo(Peer(n))' \subseteq
              InFlightTo(Peer(n)) \cup {DataPacket(e) : e \in Elements(send_buffer[n])}
                \cup {Beat(n)}
         /\ InFlightTo(n)' = InFlightTo(n)
<1> DEFINE start == tcp[Peer(n)] \o TcpAgain(n)
           again == {DataPacket(e) : e \in Elements(send_buffer[n])}
<1>0. /\ udp \in [Nodes -> SUBSET Wire] /\ tcp \in [Nodes -> Seq(Wire)]
      /\ Peer(n) \in Nodes /\ Peer(n) # n
  BY PeerFacts DEF TypeInv, NetTypes
<1>1. /\ udp' = [udp EXCEPT ![Peer(n)] = (@ \cup UdpAgain(n)) \cup BeatByUdp(n)]
      /\ tcp' = [tcp EXCEPT ![Peer(n)] = (@ \o TcpAgain(n)) \o BeatByTcp(n)]
  BY TimeoutIs
<1>2. /\ TcpAgain(n) \in Seq(Wire) /\ BeatByTcp(n) \in Seq(Wire)
      /\ \A i \in 1 .. Len(TcpAgain(n)) :
           \E k \in 1 .. Len(send_buffer[n]) : TcpAgain(n)[i] = DataPacket(send_buffer[n][k])
  BY TimeoutFits
<1>3. /\ Elements(TcpAgain(n)) \subseteq again
      /\ UdpAgain(n) \subseteq again
      /\ BeatByUdp(n) \subseteq {Beat(n)} /\ Elements(BeatByTcp(n)) \subseteq {Beat(n)}
  <2>1. Elements(TcpAgain(n)) \subseteq again
    BY <1>2 DEF Elements
  <2>2. UdpAgain(n) \subseteq again
    BY UdpAgainTypes DEF Elements
  <2>3. BeatByUdp(n) \subseteq {Beat(n)}
    BY DEF BeatByUdp
  <2>4. Elements(BeatByTcp(n)) \subseteq {Beat(n)}
    BY DEF BeatByTcp, Elements
  <2> QED BY <2>1, <2>2, <2>3, <2>4
<1>4. start \in Seq(Wire) /\ Elements(start) \subseteq Elements(tcp[Peer(n)]) \cup Elements(TcpAgain(n))
  BY <1>0, <1>2, ElementsOfConcat, ConcatProperties
<1>5. tcp'[Peer(n)] = start \o BeatByTcp(n) /\ tcp'[n] = tcp[n]
  BY <1>0, <1>1
<1> HIDE DEF start, again
<1>6. Elements(tcp'[Peer(n)]) \subseteq Elements(start) \cup Elements(BeatByTcp(n))
  BY <1>2, <1>4, <1>5, ElementsOfConcat
<1>7. /\ udp'[Peer(n)] = (udp[Peer(n)] \cup UdpAgain(n)) \cup BeatByUdp(n)
      /\ udp'[n] = udp[n]
  BY <1>0, <1>1
<1>8. Elements(tcp'[Peer(n)]) \subseteq (Elements(tcp[Peer(n)]) \cup again) \cup {Beat(n)}
  BY <1>3, <1>4, <1>6
<1>9. udp'[Peer(n)] \subseteq (udp[Peer(n)] \cup again) \cup {Beat(n)}
  BY <1>3, <1>7
<1>10. InFlightTo(Peer(n))' \subseteq (InFlightTo(Peer(n)) \cup again) \cup {Beat(n)}
  BY <1>8, <1>9, WayIs
<1>11. InFlightTo(n)' = InFlightTo(n)
  BY <1>5, <1>7, WayIs
<1> QED BY <1>10, <1>11 DEF again

LEMMA NoticeOnWay ==
  ASSUME TypeInv, NEW n \in Nodes, Disconnect(n)
  PROVE  /\ InFlightTo(Peer(n))' \subseteq
              InFlightTo(Peer(n)) \cup {Packet("CONTROL", send_sequence[n], 0, <<>>)}
         /\ InFlightTo(n)' = InFlightTo(n)
<1> DEFINE notice == Packet("CONTROL", send_sequence[n], 0, <<>>)
<1>0. /\ udp \in [Nodes -> SUBSET Wire] /\ tcp \in [Nodes -> Seq(Wire)]
      /\ Peer(n) \in Nodes /\ Peer(n) # n
  BY PeerFacts DEF TypeInv, NetTypes
<1>1. /\ udp' = IF CanUdp THEN [udp EXCEPT ![Peer(n)] = @ \cup {notice}] ELSE udp
      /\ tcp' = IF CanTcp(n) THEN [tcp EXCEPT ![Peer(n)] = Append(@, notice)] ELSE tcp
  BY DEF Disconnect
<1>2. notice \in Wire
  <2>1. send_sequence[n] \in Numbers /\ <<>> \in Seq(Nat)
    BY EmptySeq DEF TypeInv, NumberTypes
  <2> QED BY <2>1, NumberFacts DEF Packet, Wire, Packets
<1> HIDE DEF notice
<1>3. Elements(Append(tcp[Peer(n)], notice)) \subseteq Elements(tcp[Peer(n)]) \cup {notice}
  BY <1>0, <1>2, ElementsOfAppend
<1>4. udp'[Peer(n)] \subseteq udp[Peer(n)] \cup {notice} /\ udp'[n] = udp[n]
  BY <1>0, <1>1
<1>5. /\ Elements(tcp'[Peer(n)]) \subseteq Elements(tcp[Peer(n)]) \cup {notice}
      /\ tcp'[n] = tcp[n]
  BY <1>0, <1>1, <1>3
<1>6. /\ InFlightTo(Peer(n))' \subseteq InFlightTo(Peer(n)) \cup {notice}
      /\ InFlightTo(n)' = InFlightTo(n)
  BY <1>4, <1>5, WayIs
<1> QED BY <1>6 DEF notice

-----------------------------------------------------------------------------
(* What each action does to what is known *)

LEMMA KnownHas ==
  ASSUME NEW n \in Nodes
  PROVE  /\ Items(DataOf(InFlightTo(Peer(n)))) \subseteq Known(n)
         /\ Items(Elements(recv_buffer[Peer(n)])) \subseteq Known(n)
         /\ Items(Elements(send_buffer[n])) \subseteq Known(n)
         /\ Items(DataOf(InFlightTo(n))) \subseteq Known(Peer(n))
         /\ Items(Elements(recv_buffer[n])) \subseteq Known(Peer(n))
         /\ Items(Elements(send_buffer[Peer(n)])) \subseteq Known(Peer(n))
BY PeerFacts DEF Known

LEMMA KnownHeld ==
  ASSUME TypeInv, NEW n \in Nodes
  PROVE  Known(n) \subseteq Held
<1>1. ASSUME NEW p \in InFlightTo(Peer(n)), p.type = "DATA" PROVE Item(p) \in Held
  <2>1. p \in Wire
    <3>1. udp[Peer(n)] \subseteq Wire /\ tcp[Peer(n)] \in Seq(Wire)
      BY PeerFacts DEF TypeInv, NetTypes
    <3> QED BY <3>1, WayIs, ElementOfSeq DEF Elements
  <2> QED BY <1>1, <2>1 DEF Wire, Packets, Item, Held
<1>2. ASSUME NEW e \in Elements(recv_buffer[Peer(n)]) PROVE Item(e) \in Held
  <2>1. e \in Held
    BY PeerFacts, ElementOfSeq DEF Elements, TypeInv, ListTypes
  <2> QED BY <2>1 DEF Item, Held
<1>3. ASSUME NEW e \in Elements(send_buffer[n]) PROVE Item(e) \in Held
  <2>1. e \in Unacked
    BY ElementOfSeq DEF Elements, TypeInv, ListTypes
  <2> QED BY <2>1 DEF Item, Held, Unacked
<1> QED BY <1>1, <1>2, <1>3 DEF Known, Items, DataOf

LEMMA KnownFrom ==
  ASSUME NEW n \in Nodes, NEW ways, NEW more,
         InFlightTo(Peer(n))' \subseteq InFlightTo(Peer(n)) \cup ways,
         Items(DataOf(ways)) \subseteq Known(n) \cup more,
         Items(Elements(recv_buffer'[Peer(n)])) \subseteq Known(n) \cup more,
         Items(Elements(send_buffer'[n])) \subseteq Known(n) \cup more
  PROVE  Known(n)' \subseteq Known(n) \cup more
<1>1. Known(n)' = Items(DataOf(InFlightTo(Peer(n))'))
                    \cup Items(Elements(recv_buffer'[Peer(n)]))
                    \cup Items(Elements(send_buffer'[n]))
  BY DEF Known
<1>2. Items(DataOf(InFlightTo(Peer(n))')) \subseteq
        Items(DataOf(InFlightTo(Peer(n)))) \cup Items(DataOf(ways))
  BY DEF Items, DataOf
<1> QED BY <1>1, <1>2, KnownHas

LEMMA SidesKnown ==
  ASSUME NEW n \in Nodes, NEW ways,
         InFlightTo(Peer(n))' \subseteq InFlightTo(Peer(n)) \cup ways,
         Items(DataOf(ways)) \subseteq Known(n),
         InFlightTo(n)' \subseteq InFlightTo(n),
         recv_buffer'[Peer(n)] = recv_buffer[Peer(n)],
         send_buffer'[Peer(n)] = send_buffer[Peer(n)],
         Items(Elements(recv_buffer'[n])) \subseteq Known(Peer(n)),
         Items(Elements(send_buffer'[n])) \subseteq Known(n)
  PROVE  \A m \in Nodes : Known(m)' \subseteq Known(m)
<1>1. Known(n)' \subseteq Known(n) \cup {}
  BY KnownFrom, KnownHas
<1>2. Known(Peer(n))' \subseteq Known(Peer(n)) \cup {}
  <2>1. Peer(n) \in Nodes /\ Peer(Peer(n)) = n
    BY PeerFacts
  <2>2. InFlightTo(n)' \subseteq InFlightTo(n) \cup {} /\ Items(DataOf({})) = {}
    BY DEF Items, DataOf
  <2>3. Items(Elements(send_buffer'[Peer(n)])) \subseteq Known(Peer(n))
    BY KnownHas
  <2>4. /\ InFlightTo(Peer(Peer(n)))' \subseteq InFlightTo(Peer(Peer(n))) \cup {}
        /\ Items(Elements(recv_buffer'[Peer(Peer(n))])) \subseteq Known(Peer(n)) \cup {}
    BY <2>1, <2>2
  <2> QED BY <2>1, <2>2, <2>3, <2>4, KnownFrom
<1> QED BY <1>1, <1>2, PeerFacts

LEMMA RecvKnown ==
  ASSUME TypeInv, NEW n \in Nodes, RecvData(n)
  PROVE  \A m \in Nodes : Known(m)' \subseteq Known(m)
<1>1. /\ recv_buffer' = [recv_buffer EXCEPT ![n] =
           Pick(recv_buffer[n], Positions(recv_buffer[n]) \ {TakenOf(n)[k] : k \in CallsOf(n)})]
      /\ send_buffer' = send_buffer /\ udp' = udp /\ tcp' = tcp
  BY RecvDataIs DEF net
<1> DEFINE kept == Positions(recv_buffer[n]) \ {TakenOf(n)[k] : k \in CallsOf(n)}
<1>2. /\ recv_buffer'[n] = Pick(recv_buffer[n], kept) /\ recv_buffer[n] \in Seq(Held)
      /\ recv_buffer'[Peer(n)] = recv_buffer[Peer(n)]
  BY <1>1, PeerFacts DEF TypeInv, ListTypes
<1> HIDE DEF kept
<1>3. Elements(recv_buffer'[n]) \subseteq Elements(recv_buffer[n])
  BY <1>2, ElementsOfPick
<1>4. Items(Elements(recv_buffer'[n])) \subseteq Known(Peer(n))
  BY <1>3, KnownHas DEF Items
<1>5. /\ InFlightTo(Peer(n))' = InFlightTo(Peer(n)) /\ InFlightTo(n)' = InFlightTo(n)
  BY <1>1, WayIs
<1>6. Items(DataOf({})) = {}
  BY DEF Items, DataOf
<1>7. Items(Elements(send_buffer'[n])) \subseteq Known(n)
  BY <1>1, KnownHas
<1>8. send_buffer'[Peer(n)] = send_buffer[Peer(n)]
  BY <1>1
<1>9. InFlightTo(Peer(n))' \subseteq InFlightTo(Peer(n)) \cup {}
  BY <1>5
<1> QED BY <1>2, <1>4, <1>5, <1>6, <1>7, <1>8, <1>9, SidesKnown

LEMMA PacketKnown ==
  ASSUME TypeInv, NEW n \in Nodes, ProcessUdp(n) \/ ProcessTcp(n)
  PROVE  \A m \in Nodes : Known(m)' \subseteq Known(m)
<1>1. PICK packet \in InFlightTo(n) :
        /\ packet \in Wire /\ TakePacket(n, packet)
        /\ InFlightTo(n)' \subseteq InFlightTo(n)
        /\ InFlightTo(Peer(n))' \subseteq InFlightTo(Peer(n)) \cup
             (IF packet.type = "DATA" THEN {AckOf(n, packet)} ELSE {})
  BY PassedOn
<1> DEFINE ways == IF packet.type = "DATA" THEN {AckOf(n, packet)} ELSE {}
<1>2. Items(DataOf(ways)) = {}
  BY <1>1, AckTypes DEF Items, DataOf
<1>3. /\ Peer(n) # n /\ recv_buffer[n] \in Seq(Held) /\ send_buffer[n] \in Seq(Unacked)
      /\ recv_buffer \in [Nodes -> Seq(Held)] /\ send_buffer \in [Nodes -> Seq(Unacked)]
  BY PeerFacts DEF TypeInv, ListTypes
<1>4. /\ Items(Elements(recv_buffer'[n])) \subseteq Known(Peer(n))
      /\ recv_buffer'[Peer(n)] = recv_buffer[Peer(n)]
  <2>1. CASE packet.type = "DATA" /\ TakeData(n, packet)
    <3> DEFINE entry == Item(packet)
               list  == recv_buffer[n]
    <3>1. recv_buffer' = [recv_buffer EXCEPT ![n] = <<entry>> \o list]
      BY <2>1 DEF TakeData, Item
    <3>2. entry \in Held /\ list \in Seq(Held)
      BY <1>1, <1>3, <2>1 DEF Wire, Packets, Held, Item
    <3>3. entry \in Known(Peer(n)) /\ Item(entry) = entry
      <4>1. entry \in Items(DataOf(InFlightTo(n)))
        BY <1>1, <2>1 DEF Items, DataOf
      <4> QED BY <4>1, KnownHas DEF Item
    <3> HIDE DEF entry, list
    <3>4. recv_buffer'[n] = <<entry>> \o list /\ recv_buffer'[Peer(n)] = recv_buffer[Peer(n)]
      BY <1>3, <3>1
    <3>5. <<entry>> \in Seq(Held) /\ Elements(<<entry>>) = {entry}
      <4>1. <<entry>> \in Seq(Held) /\ Len(<<entry>>) = 1 /\ <<entry>>[1] = entry
        BY <3>2
      <4> QED BY <4>1 DEF Elements
    <3>6. Elements(<<entry>> \o list) \subseteq {entry} \cup Elements(list)
      BY <3>2, <3>5, ElementsOfConcat
    <3>7. Items(Elements(list)) \subseteq Known(Peer(n))
      BY KnownHas DEF list
    <3>8. Items(Elements(recv_buffer'[n])) \subseteq Known(Peer(n))
      BY <3>3, <3>4, <3>6, <3>7 DEF Items
    <3> QED BY <3>4, <3>8
  <2>2. CASE recv_buffer' = recv_buffer
    BY <2>2, KnownHas
  <2> QED BY <1>1, <2>1, <2>2 DEF TakePacket, TakeAck, TakeHeartbeat, TakeClose
<1>5. /\ Items(Elements(send_buffer'[n])) \subseteq Known(n)
      /\ send_buffer'[Peer(n)] = send_buffer[Peer(n)]
  <2>1. CASE TakeAck(n, packet)
    <3>1. send_buffer' = [send_buffer EXCEPT ![n] = RemoveFirst(send_buffer[n], packet.ack)]
      BY <2>1 DEF TakeAck
    <3>2. Elements(RemoveFirst(send_buffer[n], packet.ack)) \subseteq Elements(send_buffer[n])
      BY <1>3, ElementsOfPick DEF RemoveFirst
    <3>3. /\ send_buffer'[n] = RemoveFirst(send_buffer[n], packet.ack)
          /\ send_buffer'[Peer(n)] = send_buffer[Peer(n)]
      BY <1>3, <3>1
    <3>4. Items(Elements(send_buffer'[n])) \subseteq Items(Elements(send_buffer[n]))
      BY <3>2, <3>3 DEF Items
    <3> QED BY <3>3, <3>4, KnownHas
  <2>2. CASE send_buffer' = send_buffer
    BY <2>2, KnownHas
  <2> QED BY <1>1, <2>1, <2>2 DEF TakePacket, TakeData, TakeHeartbeat, TakeClose
<1>6. InFlightTo(Peer(n))' \subseteq InFlightTo(Peer(n)) \cup ways
  BY <1>1
<1> HIDE DEF ways
<1> QED BY <1>1, <1>2, <1>4, <1>5, <1>6, SidesKnown

LEMMA TimeoutKnown ==
  ASSUME TypeInv, NEW n \in Nodes, HandleTimeout(n)
  PROVE  \A m \in Nodes : Known(m)' \subseteq Known(m)
<1> DEFINE ways == {DataPacket(e) : e \in Elements(send_buffer[n])} \cup {Beat(n)}
<1>1. /\ InFlightTo(Peer(n))' \subseteq InFlightTo(Peer(n)) \cup ways
      /\ InFlightTo(n)' = InFlightTo(n)
  BY TimeoutOnWay
<1>2. Items(DataOf(ways)) \subseteq Items(Elements(send_buffer[n]))
  BY DEF Items, DataOf, Item, DataPacket, Packet, Beat
<1>3. /\ send_buffer' = [send_buffer EXCEPT ![n] = AfterResend(@)]
      /\ recv_buffer' = recv_buffer
  BY TimeoutIs
<1>4. /\ send_buffer'[n] = AfterResend(send_buffer[n]) /\ send_buffer[n] \in Seq(Unacked)
      /\ send_buffer'[Peer(n)] = send_buffer[Peer(n)]
  BY <1>3, PeerFacts DEF TypeInv, ListTypes
<1>5. Items(Elements(send_buffer'[n])) \subseteq Known(n)
  BY <1>4, ItemsOfTouched, KnownHas
<1>6. Items(DataOf(ways)) \subseteq Known(n)
  BY <1>2, KnownHas
<1>7. /\ Items(Elements(recv_buffer'[n])) \subseteq Known(Peer(n))
      /\ recv_buffer'[Peer(n)] = recv_buffer[Peer(n)]
  BY <1>3, KnownHas
<1> HIDE DEF ways
<1> QED BY <1>1, <1>4, <1>5, <1>6, <1>7, SidesKnown

LEMMA EndKnown ==
  ASSUME TypeInv, NEW n \in Nodes, Disconnect(n) \/ Destroy(n) \/ StopDraining(n)
  PROVE  \A m \in Nodes : Known(m)' \subseteq Known(m)
<1> DEFINE ways == {Packet("CONTROL", send_sequence[n], 0, <<>>)}
<1>1. Items(DataOf(ways)) = {}
  BY DEF Items, DataOf, Packet
<1>2. /\ InFlightTo(Peer(n))' \subseteq InFlightTo(Peer(n)) \cup ways
      /\ InFlightTo(n)' = InFlightTo(n)
  <2>1. CASE Disconnect(n)
    BY <2>1, NoticeOnWay
  <2>2. CASE Destroy(n) \/ StopDraining(n)
    <3>1. udp' = udp /\ tcp' = tcp
      BY <2>2 DEF Destroy, StopDraining, net
    <3>2. InFlightTo(Peer(n))' = InFlightTo(Peer(n)) /\ InFlightTo(n)' = InFlightTo(n)
      BY <3>1, WayIs
    <3> QED BY <3>2
  <2> QED BY <2>1, <2>2
<1>3. \/ recv_buffer' = recv_buffer /\ send_buffer' = send_buffer
      \/ /\ recv_buffer' = [recv_buffer EXCEPT ![n] = <<>>]
         /\ send_buffer' = [send_buffer EXCEPT ![n] = <<>>]
  BY DEF Disconnect, Destroy, StopDraining
<1>4. /\ recv_buffer \in [Nodes -> Seq(Held)] /\ send_buffer \in [Nodes -> Seq(Unacked)]
      /\ Peer(n) # n
  BY PeerFacts DEF TypeInv, ListTypes
<1>5. Items(Elements(<<>>)) = {}
  BY DEF Items, Elements
<1>6. /\ Items(Elements(recv_buffer'[n])) \subseteq Known(Peer(n))
      /\ Items(Elements(send_buffer'[n])) \subseteq Known(n)
      /\ recv_buffer'[Peer(n)] = recv_buffer[Peer(n)]
      /\ send_buffer'[Peer(n)] = send_buffer[Peer(n)]
  <2>1. CASE recv_buffer' = recv_buffer /\ send_buffer' = send_buffer
    BY <2>1, KnownHas
  <2>2. CASE /\ recv_buffer' = [recv_buffer EXCEPT ![n] = <<>>]
             /\ send_buffer' = [send_buffer EXCEPT ![n] = <<>>]
    <3>1. /\ recv_buffer'[n] = <<>> /\ send_buffer'[n] = <<>>
          /\ recv_buffer'[Peer(n)] = recv_buffer[Peer(n)]
          /\ send_buffer'[Peer(n)] = send_buffer[Peer(n)]
      BY <1>4, <2>2
    <3>2. /\ Items(Elements(recv_buffer'[n])) = {}
          /\ Items(Elements(send_buffer'[n])) = {}
      BY <1>5, <3>1
    <3> QED BY <3>1, <3>2
  <2> QED BY <1>3, <2>1, <2>2
<1> HIDE DEF ways
<1>7. Items(DataOf(ways)) \subseteq Known(n)
  BY <1>1
<1> QED BY <1>2, <1>6, <1>7, SidesKnown

LEMMA TickKnown ==
  ASSUME TypeInv, Tick
  PROVE  \A m \in Nodes : Known(m)' = Known(m)
<1> SUFFICES ASSUME NEW m \in Nodes PROVE Known(m)' = Known(m)
  OBVIOUS
<1>1. /\ send_buffer' = [n \in Nodes |-> Aged(send_buffer[n])]
      /\ recv_buffer' = recv_buffer /\ udp' = udp /\ tcp' = tcp
  BY DEF Tick, Aged, net
<1>2. Items(Elements(send_buffer'[m])) = Items(Elements(send_buffer[m]))
  <2>1. send_buffer'[m] = Aged(send_buffer[m]) /\ send_buffer[m] \in Seq(Unacked)
    BY <1>1 DEF TypeInv, ListTypes
  <2> QED BY <2>1, ItemsOfAged
<1>3. InFlightTo(Peer(m))' = InFlightTo(Peer(m))
  BY <1>1, WayIs
<1> QED BY <1>1, <1>2, <1>3 DEF Known

-----------------------------------------------------------------------------
(* The numbers and the bytes stay in order *)

LEMMA SideFacts ==
  ASSUME TypeInv, NumInv, NumbersLast, NEW n \in Nodes
  PROVE  /\ first_sequence[n] \in Nat /\ send_sequence[n] \in Nat
         /\ recv_sequence[Peer(n)] \in Nat /\ accepted[n] \in Nat
         /\ unpacked[Peer(n)] \in Seq(Nat) /\ Len(unpacked[Peer(n)]) \in Nat
         /\ delivered[Peer(n)] \in Seq(Nat)
         /\ MaxPackets[n] \in Nat
         /\ first_sequence[n] + MaxPackets[n] < SequenceModulus
         /\ send_sequence[n] <= first_sequence[n] + MaxPackets[n]
         /\ SequenceModulus \in Nat /\ send_sequence[n] < SequenceModulus
         /\ first_sequence[n] <= send_sequence[n]
         /\ Known(n) \in SUBSET Held
         /\ Sound(Known(n), first_sequence[n], send_sequence[n], accepted[n],
                  recv_sequence[Peer(n)], Len(unpacked[Peer(n)]))
         /\ unpacked[Peer(n)] = Stretch(0, Len(unpacked[Peer(n)]))
         /\ \A i \in 1 .. Len(delivered[Peer(n)]) :
              delivered[Peer(n)][i] <= Len(unpacked[Peer(n)])
<1>1. /\ first_sequence[n] \in Nat /\ send_sequence[n] \in Nat
      /\ recv_sequence[Peer(n)] \in Nat /\ accepted[n] \in Nat
      /\ unpacked[Peer(n)] \in Seq(Nat) /\ delivered[Peer(n)] \in Seq(Nat)
  BY PeerFacts, NumberFacts DEF TypeInv, NumberTypes, ByteTypes
<1>2. /\ SequenceModulus \in Nat /\ MaxPackets[n] \in 0 .. SequenceModulus
      /\ send_sequence[n] < SequenceModulus
  <2>1. SequenceModulus \in Nat /\ MaxPackets[n] \in 0 .. SequenceModulus
    BY HybridAssumption
  <2>2. send_sequence[n] \in 0 .. SequenceModulus - 1
    BY DEF TypeInv, NumberTypes, Numbers
  <2> QED BY <2>1, <2>2
<1>3. first_sequence[n] + MaxPackets[n] < SequenceModulus
  BY DEF NumInv, NumbersLast
<1>4. SoundSide(n)
  BY DEF NumInv
<1>5. first_sequence[n] <= send_sequence[n]
  BY <1>4 DEF SoundSide, Sound
<1>6. Len(unpacked[Peer(n)]) \in Nat
  BY <1>1, LenProperties
<1> QED BY <1>1, <1>2, <1>3, <1>4, <1>5, <1>6, KnownHeld DEF SoundSide

LEMMA NumberGiven ==
  ASSUME TypeInv, NumInv, NumbersLast, NEW n \in Nodes, TakeNumber(n)
  PROVE  /\ send_sequence'[n] = send_sequence[n] + 1
         /\ send_sequence'[Peer(n)] = send_sequence[Peer(n)]
         /\ send_sequence'[n] <= first_sequence[n] + MaxPackets[n]
<1> DEFINE used == send_sequence[n] - first_sequence[n]
<1>1. used \in Nat /\ used < SequenceModulus
  BY SideFacts
<1>2. used % SequenceModulus < MaxPackets[n]
  BY DEF TakeNumber, CanNumber, Used
<1> HIDE DEF used
<1>3. used < MaxPackets[n]
  BY <1>1, <1>2, SmallMod
<1>4. /\ send_sequence[n] + 1 \in Nat /\ send_sequence[n] + 1 < SequenceModulus
      /\ send_sequence[n] + 1 <= first_sequence[n] + MaxPackets[n]
  BY <1>3, SideFacts DEF used
<1>5. send_sequence' = [send_sequence EXCEPT ![n] = (@ + 1) % SequenceModulus]
      /\ send_sequence \in [Nodes -> Numbers]
  BY DEF TakeNumber, TypeInv, NumberTypes
<1>6. (send_sequence[n] + 1) % SequenceModulus = send_sequence[n] + 1
  BY <1>4, SmallMod
<1> QED BY <1>4, <1>5, <1>6, PeerFacts

\* A side that sends and is given nothing, though it may use a number up.
LEMMA SideKept ==
  ASSUME TypeInv, NumInv, NumbersLast, NEW n \in Nodes,
         Known(n)' \subseteq Known(n),
         send_sequence'[n] \in {send_sequence[n], send_sequence[n] + 1},
         send_sequence'[n] <= first_sequence[n] + MaxPackets[n],
         first_sequence' = first_sequence,
         accepted'[n] = accepted[n],
         recv_sequence'[Peer(n)] = recv_sequence[Peer(n)],
         unpacked'[Peer(n)] = unpacked[Peer(n)],
         delivered'[Peer(n)] = delivered[Peer(n)]
  PROVE  SoundSide(n)'
<1>1. Sound(Known(n)', first_sequence[n], send_sequence'[n], accepted[n],
            recv_sequence[Peer(n)], Len(unpacked[Peer(n)]))
  <2> DEFINE K    == Known(n)
             K2   == Known(n)'
             send == send_sequence[n]
             to   == send_sequence'[n]
             c    == Len(unpacked[Peer(n)])
  <2>1. /\ first_sequence[n] \in Nat /\ send \in Nat /\ accepted[n] \in Nat
        /\ recv_sequence[Peer(n)] \in Nat /\ c \in Nat
        /\ Sound(K, first_sequence[n], send, accepted[n], recv_sequence[Peer(n)], c)
        /\ K2 \in SUBSET K /\ to \in {send, send + 1}
    BY SideFacts
  <2> HIDE DEF K, K2, send, to, c
  <2>2. Sound(K2, first_sequence[n], to, accepted[n], recv_sequence[Peer(n)], c)
    BY <2>1, SoundFewer
  <2> QED BY <2>2 DEF K2, to, c
<1> QED BY <1>1, SideFacts DEF SoundSide

\* What keeps both sides so.
LEMMA SidesKept ==
  ASSUME TypeInv, NumInv, NumbersLast, NEW n \in Nodes,
         \A m \in Nodes : Known(m)' \subseteq Known(m),
         TakeNumber(n) \/ send_sequence' = send_sequence,
         UNCHANGED <<history, recv_sequence>>
  PROVE  NumInv'
<1>1. /\ first_sequence' = first_sequence /\ accepted' = accepted
      /\ unpacked' = unpacked /\ delivered' = delivered /\ recv_sequence' = recv_sequence
  BY DEF history
<1>2. ASSUME NEW m \in Nodes PROVE SoundSide(m)'
  <2>1. CASE send_sequence' = send_sequence
    BY <1>1, <2>1, SideFacts, SideKept
  <2>2. CASE TakeNumber(n)
    <3>1. CASE m = n
      BY <1>1, <2>2, <3>1, NumberGiven, SideKept
    <3>2. CASE m = Peer(n)
      <4>1. send_sequence'[m] = send_sequence[m]
        BY <2>2, <3>2, NumberGiven
      <4> QED BY <1>1, <4>1, SideFacts, SideKept
    <3> QED BY <3>1, <3>2, PeerFacts
  <2> QED BY <2>1, <2>2
<1> QED BY <1>1, <1>2 DEF NumInv

LEMMA QuietNumbers ==
  ASSUME TypeInv, NumInv, NumbersLast, NEW n \in Nodes,
         \/ ProcessUdp(n) \/ ProcessTcp(n) \/ HandleTimeout(n)
         \/ Disconnect(n) \/ Destroy(n) \/ StopDraining(n)
  PROVE  NumInv'
<1>1. \A m \in Nodes : Known(m)' \subseteq Known(m)
  BY PacketKnown, TimeoutKnown, EndKnown
<1>2. /\ TakeNumber(n) \/ send_sequence' = send_sequence
      /\ UNCHANGED <<history, recv_sequence>>
  <2>1. CASE ProcessUdp(n) \/ ProcessTcp(n)
    <3>1. PICK packet \in InFlightTo(n) : TakePacket(n, packet)
      BY <2>1, PassedOn
    <3> QED BY <3>1 DEF TakePacket, TakeData, TakeAck, TakeHeartbeat, TakeClose
  <2>2. CASE HandleTimeout(n)
    BY <2>2, TimeoutIs
  <2>3. CASE Disconnect(n) \/ Destroy(n) \/ StopDraining(n)
    BY <2>3 DEF Disconnect, Destroy, StopDraining
  <2> QED BY <2>1, <2>2, <2>3
<1> QED BY <1>1, <1>2, SidesKept

LEMMA TickNumbers ==
  ASSUME TypeInv, NumInv, NumbersLast, Tick
  PROVE  NumInv'
<1>1. UNCHANGED <<history, send_sequence, recv_sequence>>
  BY DEF Tick
<1>2. \A m \in Nodes : Known(m)' \subseteq Known(m)
  BY TickKnown
<1>3. 1 \in Nodes
  BY DEF Nodes
<1> QED BY <1>1, <1>2, <1>3, SidesKept

\* The packet ht_send_data() makes, if a channel takes it, is the only new one.
LEMMA SendKnown ==
  ASSUME TypeInv, NEW n \in Nodes, NEW size \in 1 .. MaxPayload, SendData(n, size)
  PROVE  /\ Known(Peer(n))' \subseteq Known(Peer(n))
         /\ \/ /\ Known(n)' \subseteq Known(n)
               /\ accepted' = accepted
            \/ /\ Known(n)' \subseteq Known(n) \cup
                    {[sequence |-> send_sequence[n], payload |-> Stretch(accepted[n], size)]}
               /\ accepted' = [accepted EXCEPT ![n] = @ + size]
<1> DEFINE payload == [i \in 1 .. size |-> accepted[n] + i]
           packet  == Packet("DATA", send_sequence[n], 0, payload)
           new     == [sequence |-> send_sequence[n], payload |-> Stretch(accepted[n], size)]
<1>1. PICK use_tcp \in ShouldUseTcp :
        /\ Transmit(n, Route(n, use_tcp), packet)
        /\ IF Route(n, use_tcp) = "none"
           THEN UNCHANGED <<send_buffer, accepted, last_activity>>
           ELSE /\ send_buffer' = [send_buffer EXCEPT ![n] = Buffered(@, Entry(n, payload))]
                /\ accepted' = [accepted EXCEPT ![n] = @ + size]
                /\ last_activity' = [last_activity EXCEPT ![n] = 0]
  BY DEF SendData
<1>2. use_tcp \in BOOLEAN
  BY <1>1 DEF ShouldUseTcp
<1>3. payload \in Payloads /\ Item(packet) = new /\ Item(Entry(n, payload)) = new
  <2>1. payload = Stretch(accepted[n], size)
    BY DEF Stretch
  <2>2. payload \in Payloads
    <3>1. accepted[n] \in Nat /\ size \in Nat
      BY DEF TypeInv, ByteTypes
    <3> QED BY <2>1, <3>1, StretchTypes DEF Payloads
  <2> HIDE DEF payload
  <2> QED BY <2>1, <2>2 DEF Item, Packet, Entry
<1> HIDE DEF payload, new
<1>4. packet \in Wire /\ Entry(n, payload) \in Unacked
  <2>1. send_sequence[n] \in Numbers
    BY DEF TypeInv, NumberTypes
  <2> QED BY <1>3, <2>1, NumberFacts, HybridAssumption
          DEF Packet, Wire, Packets, Payloads, Entry, Unacked
<1> HIDE DEF packet
<1>5. /\ recv_buffer' = recv_buffer /\ send_buffer[n] \in Seq(Unacked)
      /\ send_buffer \in [Nodes -> Seq(Unacked)] /\ Peer(n) \in Nodes
      /\ Peer(n) # n /\ Peer(Peer(n)) = n
  BY PeerFacts DEF SendData, TypeInv, ListTypes
<1>6. /\ InFlightTo(Peer(n))' \subseteq InFlightTo(Peer(n)) \cup {packet}
      /\ InFlightTo(n)' = InFlightTo(n)
  BY <1>1, <1>2, <1>4, SentOnWay
<1>7. Items(DataOf({packet})) \subseteq {new} /\ Items(DataOf({})) = {}
  BY <1>3 DEF Items, DataOf
<1>8. /\ send_buffer'[Peer(n)] = send_buffer[Peer(n)]
  BY <1>1, <1>5
<1>9. Known(Peer(n))' \subseteq Known(Peer(n)) \cup {}
  <2>1. /\ InFlightTo(Peer(Peer(n)))' \subseteq InFlightTo(Peer(Peer(n))) \cup {}
        /\ Items(Elements(recv_buffer'[Peer(Peer(n))])) \subseteq Known(Peer(n)) \cup {}
        /\ Items(Elements(send_buffer'[Peer(n)])) \subseteq Known(Peer(n)) \cup {}
        /\ Items(DataOf({})) \subseteq Known(Peer(n)) \cup {}
    BY <1>5, <1>6, <1>7, <1>8, KnownHas
  <2> QED BY <1>5, <2>1, KnownFrom
<1>10. Items(Elements(recv_buffer'[Peer(n)])) \subseteq Known(n)
  BY <1>5, KnownHas
<1>11. CASE Route(n, use_tcp) = "none"
  <2>1. udp' = udp /\ tcp' = tcp /\ send_buffer' = send_buffer /\ accepted' = accepted
    BY <1>1, <1>11 DEF Transmit
  <2>2. InFlightTo(Peer(n))' = InFlightTo(Peer(n))
    BY <2>1, WayIs
  <2>3. Known(n)' = Known(n)
    BY <1>5, <2>1, <2>2 DEF Known
  <2> QED BY <1>9, <2>1, <2>3
<1>12. CASE Route(n, use_tcp) # "none"
  <2> DEFINE entry == Entry(n, payload)
             list  == send_buffer[n]
  <2>1. /\ send_buffer' = [send_buffer EXCEPT ![n] = <<entry>> \o list]
        /\ accepted' = [accepted EXCEPT ![n] = @ + size]
    BY <1>1, <1>12 DEF Buffered
  <2>2. entry \in Unacked /\ list \in Seq(Unacked) /\ Item(entry) = new
    BY <1>3, <1>4, <1>5
  <2> HIDE DEF entry, list
  <2>3. send_buffer'[n] = <<entry>> \o list
    BY <1>5, <2>1
  <2>4. <<entry>> \in Seq(Unacked) /\ Elements(<<entry>>) = {entry}
    <3>1. <<entry>> \in Seq(Unacked) /\ Len(<<entry>>) = 1 /\ <<entry>>[1] = entry
      BY <2>2
    <3> QED BY <3>1 DEF Elements
  <2>5. Elements(<<entry>> \o list) \subseteq {entry} \cup Elements(list)
    BY <2>2, <2>4, ElementsOfConcat
  <2>6. Items(Elements(list)) \subseteq Known(n)
    BY KnownHas DEF list
  <2>7. Items(Elements(send_buffer'[n])) \subseteq Known(n) \cup {new}
    BY <2>2, <2>3, <2>5, <2>6 DEF Items
  <2>8. Known(n)' \subseteq Known(n) \cup {new}
    BY <1>6, <1>7, <1>10, <2>7, KnownFrom
  <2> QED BY <1>9, <2>1, <2>8 DEF new
<1> QED BY <1>11, <1>12

LEMMA SendNumbers ==
  ASSUME TypeInv, NumInv, NumbersLast,
         NEW n \in Nodes, NEW size \in 1 .. MaxPayload, SendData(n, size)
  PROVE  NumInv'
<1> DEFINE new == [sequence |-> send_sequence[n], payload |-> Stretch(accepted[n], size)]
<1>1. /\ first_sequence' = first_sequence /\ recv_sequence' = recv_sequence
      /\ unpacked' = unpacked /\ delivered' = delivered /\ TakeNumber(n)
  BY DEF SendData
<1>2. /\ Known(Peer(n))' \subseteq Known(Peer(n))
      /\ \/ /\ Known(n)' \subseteq Known(n)
            /\ accepted' = accepted
         \/ /\ Known(n)' \subseteq Known(n) \cup {new}
            /\ accepted' = [accepted EXCEPT ![n] = @ + size]
  BY SendKnown
<1>3. /\ send_sequence'[n] = send_sequence[n] + 1
      /\ send_sequence'[Peer(n)] = send_sequence[Peer(n)]
      /\ send_sequence'[n] <= first_sequence[n] + MaxPackets[n]
  BY <1>1, NumberGiven
<1>4. /\ Peer(n) \in Nodes /\ Peer(n) # n /\ accepted \in [Nodes -> Nat]
  BY PeerFacts DEF TypeInv, ByteTypes
<1>5. SoundSide(Peer(n))'
  <2>1. accepted'[Peer(n)] = accepted[Peer(n)]
    BY <1>2, <1>4
  <2>2. /\ recv_sequence'[Peer(Peer(n))] = recv_sequence[Peer(Peer(n))]
        /\ unpacked'[Peer(Peer(n))] = unpacked[Peer(Peer(n))]
        /\ delivered'[Peer(Peer(n))] = delivered[Peer(Peer(n))]
    BY <1>1
  <2>3. send_sequence'[Peer(n)] <= first_sequence[Peer(n)] + MaxPackets[Peer(n)]
    BY <1>3, <1>4, SideFacts
  <2> QED BY <1>1, <1>2, <1>3, <1>4, <2>1, <2>2, <2>3, SideKept
<1>6. SoundSide(n)'
  <2>1. CASE Known(n)' \subseteq Known(n) /\ accepted' = accepted
    BY <1>1, <1>3, <2>1, SideKept
  <2>2. CASE /\ Known(n)' \subseteq Known(n) \cup {new}
             /\ accepted' = [accepted EXCEPT ![n] = @ + size]
    <3>1. accepted'[n] = accepted[n] + size
      BY <1>4, <2>2
    <3>2. new.sequence = send_sequence[n] /\ new.payload = Stretch(accepted[n], size)
      OBVIOUS
    <3>3. size \in Nat \ {0}
      OBVIOUS
    <3> HIDE DEF new
    <3>4. Sound(Known(n)', first_sequence[n], send_sequence[n] + 1, accepted[n] + size,
                recv_sequence[Peer(n)], Len(unpacked[Peer(n)]))
      BY <2>2, <3>2, <3>3, SideFacts, SoundMore
    <3> QED BY <1>1, <1>3, <3>1, <3>4, SideFacts DEF SoundSide
  <2> QED BY <1>2, <2>1, <2>2
<1>7. \A m \in Nodes : SoundSide(m)'
  BY <1>5, <1>6, PeerFacts
<1> QED BY <1>1, <1>7 DEF NumInv

\* What ht_recv_data() takes are the packets with the next numbers, and their
\* bytes the ones that follow.
LEMMA RecvSound ==
  ASSUME TypeInv, NumInv, NumbersLast, NEW n \in Nodes, RecvData(n)
  PROVE  LET p     == Peer(n)
             c     == Len(unpacked[n])
             next  == recv_sequence[n]
             count == CountOf(n)
             bytes == BytesOf(n)[count]
         IN /\ count \in Nat \ {0} /\ next + count <= send_sequence[p]
            /\ \A k \in CallsOf(n) :
                 recv_buffer[n][TakenOf(n)[k]].sequence < next + count
            /\ Len(bytes) \in Nat /\ bytes = Stretch(c, Len(bytes))
            /\ recv_sequence' = [recv_sequence EXCEPT ![n] = next + count]
            /\ Sound(Known(p)', first_sequence[p], send_sequence[p], accepted[p],
                     next + count, c + Len(bytes))
<1> DEFINE p     == Peer(n)
           c     == Len(unpacked[n])
           next  == recv_sequence[n]
           count == CountOf(n)
           bytes == BytesOf(n)
           list  == recv_buffer[n]
           taken == TakenOf(n)
           K     == Known(p)
           xs    == [k \in 1 .. count |-> Item(list[taken[k]])]
           first == first_sequence[p]
           send  == send_sequence[p]
           total == accepted[p]
<1>1. p \in Nodes /\ Peer(p) = n
  BY PeerFacts
<1>2. /\ first \in Nat /\ send \in Nat /\ total \in Nat /\ next \in Nat /\ c \in Nat
      /\ send < SequenceModulus /\ K \in SUBSET Held
      /\ Sound(K, first, send, total, next, c)
  BY <1>1, SideFacts
<1>3. list \in Seq(Held) /\ Len(list) \in Nat
  BY LenProperties DEF TypeInv, ListTypes
<1>4. /\ CallsOf(n) # {}
      /\ recv_sequence' = [recv_sequence EXCEPT ![n] = (@ + count) % SequenceModulus]
  BY RecvDataIs
<1>5. /\ count \in 1 .. Len(list)
      /\ \A k \in CallsOf(n) : k \in 1 .. count
      /\ \A k \in 1 .. count :
           /\ taken[k] \in Positions(list)
           /\ list[taken[k]].sequence = Expected(n, k)
           /\ bytes[k] = bytes[k - 1] \o list[taken[k]].payload
  BY <1>3, <1>4, RecvTakes
<1>6. bytes[0] = <<>>
  BY <1>3, BytesIs
<1>7. \A k \in 1 .. count : Item(list[taken[k]]) \in K
  <2>1. Items(Elements(list)) \subseteq K
    BY <1>1, KnownHas
  <2> QED BY <1>5, <2>1 DEF Items, Elements, Positions
<1> HIDE DEF list, taken, bytes, count, K
<1>8. /\ xs \in [1 .. count -> K]
      /\ \A k \in 1 .. count :
           /\ xs[k].sequence = (next + k - 1) % SequenceModulus
           /\ xs[k].sequence = list[taken[k]].sequence
           /\ bytes[k] = bytes[k - 1] \o xs[k].payload
  BY <1>5, <1>7 DEF Item, Expected
<1> HIDE DEF xs, p, c, next, first, send, total
<1>9. count \in Nat /\ count >= 1
  BY <1>3, <1>5
<1>10. \A k \in 0 .. count :
         /\ Len(bytes[k]) \in Nat /\ bytes[k] = Stretch(c, Len(bytes[k]))
         /\ k # 0 => /\ xs[k].sequence = next + k - 1
                     /\ EndOf(xs[k]) = c + Len(bytes[k])
  <2>1. InTurn(xs, bytes, count, K, next)
    BY <1>6, <1>8 DEF InTurn
  <2>2. Filled(xs, bytes, count, next, c)
    BY <1>2, <1>9, <2>1, Walk
  <2> QED BY <2>2 DEF Filled
<1>11. count \in 0 .. count /\ count # 0 /\ count \in 1 .. count
  BY <1>9
<1>12. /\ Len(bytes[count]) \in Nat /\ bytes[count] = Stretch(c, Len(bytes[count]))
       /\ xs[count].sequence = next + count - 1
       /\ EndOf(xs[count]) = c + Len(bytes[count])
       /\ xs[count] \in K
  BY <1>8, <1>10, <1>11
<1>13. Known(p)' \subseteq K
  BY <1>1, RecvKnown DEF K
<1>14. /\ Sound(Known(p)', first, send, total, next + count, c + Len(bytes[count]))
       /\ next + count <= send
  <2> DEFINE K2   == Known(p)'
             x    == xs[count]
             size == Len(bytes[count])
  <2>1. K2 \in SUBSET K /\ x \in K /\ size \in Nat
        /\ x.sequence = next + count - 1 /\ EndOf(x) = c + size
    BY <1>12, <1>13
  <2> HIDE DEF K2, x, size
  <2>2. /\ Sound(K2, first, send, total, next + count, c + size)
        /\ next + count <= send
    BY <1>2, <1>9, <2>1, SoundTaken
  <2> QED BY <2>2 DEF K2, size
<1>15. (next + count) % SequenceModulus = next + count
  <2>1. next + count \in Nat /\ next + count < SequenceModulus /\ SequenceModulus \in Nat
    BY <1>2, <1>9, <1>14, HybridAssumption
  <2> QED BY <2>1, SmallMod
<1>16. \A k \in CallsOf(n) : list[taken[k]].sequence < next + count
  <2> SUFFICES ASSUME NEW k \in CallsOf(n)
               PROVE  list[taken[k]].sequence < next + count
    OBVIOUS
  <2>1. k \in 1 .. count /\ k \in 0 .. count /\ k # 0
    BY <1>5, <1>9
  <2>2. list[taken[k]].sequence = next + k - 1
    BY <1>8, <1>10, <2>1
  <2> QED BY <1>2, <1>9, <2>1, <2>2
<1>17. recv_sequence' = [recv_sequence EXCEPT ![n] = next + count]
  BY <1>4, <1>15 DEF next
<1>18. count \in Nat \ {0}
  BY <1>9
<1> QED BY <1>12, <1>14, <1>16, <1>17, <1>18, Zenon
        DEF p, c, next, count, bytes, list, taken, first, send, total

LEMMA RecvNumbers ==
  ASSUME TypeInv, NumInv, NumbersLast, NEW n \in Nodes, RecvData(n)
  PROVE  NumInv'
<1> DEFINE p     == Peer(n)
           c     == Len(unpacked[n])
           count == CountOf(n)
           bytes == BytesOf(n)[count]
           size  == Len(bytes)
           given == SubSeq(bytes, 1, Smaller(ReadSize, Len(bytes)))
<1>1. /\ unpacked' = [unpacked EXCEPT ![n] = @ \o bytes]
      /\ delivered' = [delivered EXCEPT ![n] = @ \o given]
      /\ first_sequence' = first_sequence /\ send_sequence' = send_sequence
      /\ accepted' = accepted
  BY RecvDataIs
<1>2. /\ size \in Nat /\ bytes = Stretch(c, size)
      /\ recv_sequence' = [recv_sequence EXCEPT ![n] = recv_sequence[n] + count]
      /\ Sound(Known(p)', first_sequence[p], send_sequence[p], accepted[p],
               recv_sequence[n] + count, c + size)
  BY RecvSound
<1>3. /\ p \in Nodes /\ p # n /\ Peer(p) = n
      /\ unpacked \in [Nodes -> Seq(Nat)] /\ delivered \in [Nodes -> Seq(Nat)]
      /\ recv_sequence \in [Nodes -> Numbers]
  BY PeerFacts DEF TypeInv, ByteTypes, NumberTypes
<1>4. /\ c \in Nat /\ unpacked[n] = Stretch(0, c) /\ delivered[n] \in Seq(Nat)
      /\ \A i \in 1 .. Len(delivered[n]) : delivered[n][i] <= c
      /\ send_sequence[p] <= first_sequence[p] + MaxPackets[p]
  BY <1>3, SideFacts
<1> HIDE DEF p, c, count, bytes, size
<1>5. unpacked'[n] = Stretch(0, c + size) /\ Len(unpacked'[n]) = c + size
  <2>1. unpacked'[n] = Stretch(0, c) \o Stretch(c, size)
    BY <1>1, <1>2, <1>3, <1>4
  <2>2. Stretch(0, c) \o Stretch(c, size) = Stretch(0, c + size)
    BY <1>2, <1>4, StretchFromStart
  <2>3. Len(Stretch(0, c + size)) = c + size
    <3>1. c + size \in Nat
      BY <1>2, <1>4
    <3> QED BY <3>1, StretchTypes
  <2> QED BY <2>1, <2>2, <2>3
<1>6. /\ given \in Seq(Nat) /\ Len(given) \in Nat
      /\ \A i \in 1 .. Len(given) : given[i] <= c + size
  <2>1. bytes \in Seq(Nat) /\ Len(bytes) = size /\ \A i \in 1 .. size : bytes[i] = c + i
    <3>1. Stretch(c, size) \in Seq(Nat) /\ Len(Stretch(c, size)) = size
      BY <1>2, <1>4, StretchTypes
    <3> QED BY <1>2, <3>1 DEF Stretch
  <2> DEFINE m == Smaller(ReadSize, Len(bytes))
  <2>2. m \in Nat /\ m <= size
    BY <1>2, <2>1, HybridAssumption DEF Smaller
  <2> HIDE DEF m
  <2>3. \A i \in 1 .. m : i \in 1 .. Len(bytes) /\ bytes[i] \in Nat
    <3>1. \A i \in 1 .. m : i \in 1 .. Len(bytes)
      BY <1>2, <2>1, <2>2
    <3> QED BY <2>1, <3>1, ElementOfSeq
  <2>4. /\ SubSeq(bytes, 1, m) \in Seq(Nat)
        /\ Len(SubSeq(bytes, 1, m)) = IF 1 <= m THEN m - 1 + 1 ELSE 0
        /\ \A i \in 1 .. m - 1 + 1 : SubSeq(bytes, 1, m)[i] = bytes[1 + i - 1]
    BY <2>2, <2>3, SubSeqProperties
  <2>5. m - 1 + 1 = m /\ \A i \in 1 .. m : 1 + i - 1 = i
    BY <2>2
  <2>6. Len(SubSeq(bytes, 1, m)) = m /\ \A i \in 1 .. m : SubSeq(bytes, 1, m)[i] = bytes[i]
    BY <2>2, <2>4, <2>5
  <2>7. \A i \in 1 .. m : bytes[i] <= c + size
    BY <1>2, <1>4, <2>1, <2>2
  <2> QED BY <2>2, <2>4, <2>6, <2>7 DEF m
<1> HIDE DEF given
<1>7. \A i \in 1 .. Len(delivered'[n]) : delivered'[n][i] <= c + size
  <2> DEFINE d == delivered[n]
  <2>1. delivered'[n] = d \o given
    BY <1>1, <1>3
  <2>2. d \in Seq(Nat) /\ Len(d) \in Nat /\ \A i \in 1 .. Len(d) : d[i] <= c /\ d[i] \in Nat
    BY <1>4, LenProperties, ElementOfSeq
  <2> HIDE DEF d
  <2>3. /\ Len(d \o given) = Len(d) + Len(given)
        /\ \A i \in 1 .. Len(d) + Len(given) :
             (d \o given)[i] = IF i <= Len(d) THEN d[i] ELSE given[i - Len(d)]
    BY <1>6, <2>2, ConcatProperties
  <2> SUFFICES ASSUME NEW i \in 1 .. Len(d) + Len(given)
               PROVE  (d \o given)[i] <= c + size
    BY <2>1, <2>3
  <2>4. CASE i <= Len(d)
    <3>1. i \in 1 .. Len(d) /\ (d \o given)[i] = d[i]
      BY <2>3, <2>4
    <3> QED BY <1>2, <1>4, <2>2, <3>1
  <2>5. CASE ~(i <= Len(d))
    <3>1. i - Len(d) \in 1 .. Len(given) /\ (d \o given)[i] = given[i - Len(d)]
      BY <1>6, <2>2, <2>3, <2>5
    <3> QED BY <1>6, <3>1
  <2> QED BY <2>4, <2>5
<1>8. recv_sequence'[n] = recv_sequence[n] + count
  BY <1>2, <1>3
<1>9. SoundSide(p)'
  BY <1>1, <1>2, <1>3, <1>4, <1>5, <1>7, <1>8 DEF SoundSide
<1>10. SoundSide(n)'
  <2>1. /\ unpacked'[p] = unpacked[p] /\ delivered'[p] = delivered[p]
        /\ recv_sequence'[p] = recv_sequence[p]
    BY <1>1, <1>2, <1>3
  <2>2. Known(n)' \subseteq Known(n)
    BY RecvKnown
  <2>3. p = Peer(n)
    BY DEF p
  <2> QED BY <1>1, <2>1, <2>2, <2>3, SideFacts, SideKept
<1>11. \A m \in Nodes : m = n \/ m = p
  BY PeerFacts DEF p
<1> QED BY <1>1, <1>9, <1>10, <1>11 DEF NumInv

LEMMA NumbersInitially == Init /\ NumbersLast => NumInv
<1> SUFFICES ASSUME Init, NumbersLast PROVE NumInv
  OBVIOUS
<1>1. first_sequence \in [Nodes -> FirstSequences]
  BY DEF Init
<1>2. ASSUME NEW n \in Nodes PROVE SoundSide(n)
  <2>1. Peer(n) \in Nodes
    BY PeerFacts
  <2>2. /\ send_sequence[n] = first_sequence[n] /\ recv_sequence[Peer(n)] = 0
        /\ accepted[n] = 0 /\ unpacked[Peer(n)] = <<>> /\ delivered[Peer(n)] = <<>>
        /\ udp[Peer(n)] = {} /\ tcp[Peer(n)] = <<>>
        /\ recv_buffer[Peer(n)] = <<>> /\ send_buffer[n] = <<>>
    BY <2>1 DEF Init
  <2>3. Elements(<<>>) = {}
    BY DEF Elements
  <2>4. Known(n) = {}
    BY <2>2, <2>3, WayIs DEF Known, Items, DataOf
  <2>5. first_sequence[n] \in Nat /\ MaxPackets[n] \in Nat
    <3>1. first_sequence[n] \in FirstSequences
      BY <1>1
    <3>2. FirstSequences \subseteq 0 .. SequenceModulus - 1
      BY HybridAssumption
    <3>3. MaxPackets[n] \in 0 .. SequenceModulus /\ SequenceModulus \in Nat
      BY HybridAssumption
    <3>4. first_sequence[n] \in 0 .. SequenceModulus - 1
      BY <3>1, <3>2
    <3>5. first_sequence[n] \in Nat
      BY <3>3, <3>4
    <3>6. MaxPackets[n] \in Nat
      BY <3>3
    <3> QED BY <3>5, <3>6
  <2>6. Len(<<>>) = 0 /\ <<>> = Stretch(0, 0)
    BY DEF Stretch
  <2>7. Sound({}, first_sequence[n], first_sequence[n], 0, 0, 0)
    BY <2>5 DEF Sound
  <2> QED BY <2>2, <2>4, <2>5, <2>6, <2>7 DEF SoundSide
<1> QED BY <1>1, <1>2 DEF NumInv

LEMMA NumbersStep ==
  ASSUME TypeInv, NumInv, NumbersLast, [Next]_vars
  PROVE  NumInv'
<1>1. CASE UNCHANGED vars
  <2>1. \A m \in Nodes : Known(m)' \subseteq Known(m)
    <3>1. /\ udp' = udp /\ tcp' = tcp /\ recv_buffer' = recv_buffer
          /\ send_buffer' = send_buffer
      BY <1>1 DEF vars
    <3>2. \A m \in Nodes : InFlightTo(Peer(m))' = InFlightTo(Peer(m))
      BY <3>1, WayIs
    <3> QED BY <3>1, <3>2 DEF Known
  <2>2. UNCHANGED <<history, send_sequence, recv_sequence>> /\ 1 \in Nodes
    BY <1>1 DEF vars, history, Nodes
  <2> QED BY <2>1, <2>2, SidesKept
<1>2. CASE Tick
  BY <1>2, TickNumbers
<1>3. ASSUME NEW n \in Nodes, NEW size \in 1 .. MaxPayload, SendData(n, size) PROVE NumInv'
  BY <1>3, SendNumbers
<1>4. ASSUME NEW n \in Nodes, RecvData(n) PROVE NumInv'
  BY <1>4, RecvNumbers
<1>5. ASSUME NEW n \in Nodes,
             \/ ProcessUdp(n) \/ ProcessTcp(n) \/ HandleTimeout(n)
             \/ Disconnect(n) \/ Destroy(n) \/ StopDraining(n)
      PROVE  NumInv'
  BY <1>5, QuietNumbers
<1> QED BY <1>1, <1>2, <1>3, <1>4, <1>5 DEF Next

LEMMA NumbersInvariant == NumbersLast => (Spec => [](TypeInv /\ NumInv))
<1> SUFFICES ASSUME NumbersLast PROVE Spec => [](TypeInv /\ NumInv)
  OBVIOUS
<1>1. Init => TypeInv /\ NumInv
  BY TypesInitially, NumbersInitially
<1>2. TypeInv /\ NumInv /\ [Next]_vars => (TypeInv /\ NumInv)'
  BY TypeStep, NumbersStep
<1> QED BY <1>1, <1>2, PTL DEF Spec

\* Loss, repetition, reordering, two channels and any number of retransmissions
\* notwithstanding, what ht_recv_data() takes is the bytes the peer handed to
\* ht_send_data(), from the first on, without a hole: as long as no end uses so
\* many sequence numbers that they come round.
THEOREM BytesInOrder == NumbersLast => (Spec => []DeliveredInOrder)
<1> SUFFICES ASSUME NumbersLast PROVE Spec => []DeliveredInOrder
  OBVIOUS
<1>1. TypeInv /\ NumInv => DeliveredInOrder
  <2> SUFFICES ASSUME TypeInv, NumInv, NEW n \in Nodes
               PROVE  unpacked[n] = Stream(Len(unpacked[n]))
    BY DEF DeliveredInOrder
  <2>1. Peer(n) \in Nodes /\ Peer(Peer(n)) = n
    BY PeerFacts
  <2>2. unpacked[n] = Stretch(0, Len(unpacked[n]))
    BY <2>1, SideFacts
  <2>3. \A k : Stretch(0, k) = Stream(k)
    BY DEF Stretch, Stream
  <2> QED BY <2>2, <2>3
<1> QED BY <1>1, NumbersInvariant, PTL

-----------------------------------------------------------------------------
(* Acknowledgements *)

\* An end does not come back, and what it holds it keeps until it is delivered.
HoldsOn(m) ==
  /\ Open(m)' => Open(m)
  /\ recv_sequence'[m] >= recv_sequence[m]
  /\ \A a \in Numbers : Listed(recv_buffer[m], a) /\ Open(m)' =>
       a < recv_sequence'[m] \/ Listed(recv_buffer'[m], a)

AcksFrom(m) ==
  \A packet \in InFlightTo(m)' : packet.type = "ACK" =>
    packet \in InFlightTo(m) \/ Listed(recv_buffer'[Peer(m)], packet.ack)

LEMMA AcksKept ==
  ASSUME TypeInv, AckMeansStored, \A m \in Nodes : HoldsOn(m) /\ AcksFrom(m),
         recv_sequence' \in [Nodes -> Nat]
  PROVE  AckMeansStored'
<1> SUFFICES ASSUME NEW n \in Nodes, NEW packet \in InFlightTo(n)',
                    packet.type = "ACK", Open(Peer(n))'
             PROVE  \/ packet.ack < recv_sequence'[Peer(n)]
                    \/ Listed(recv_buffer'[Peer(n)], packet.ack)
  BY DEF AckMeansStored
<1>1. CASE packet \in InFlightTo(n)
  <2>1. Peer(n) \in Nodes /\ HoldsOn(Peer(n))
    BY PeerFacts
  <2>2. Open(Peer(n))
    BY <2>1 DEF HoldsOn
  <2>3. \/ packet.ack < recv_sequence[Peer(n)]
        \/ Listed(recv_buffer[Peer(n)], packet.ack)
    BY <1>1, <2>2 DEF AckMeansStored
  <2>4. packet \in Wire
    <3>1. udp[n] \subseteq Wire /\ tcp[n] \in Seq(Wire)
      BY DEF TypeInv, NetTypes
    <3> QED BY <1>1, <3>1, WayIs, ElementOfSeq DEF Elements
  <2>5. packet.ack \in Numbers /\ packet.ack \in Nat
    BY <2>4, NumberFacts DEF Wire, Packets
  <2>6. recv_sequence[Peer(n)] \in Nat /\ recv_sequence'[Peer(n)] \in Nat
    BY <2>1, NumberFacts DEF TypeInv, NumberTypes
  <2>7. recv_sequence'[Peer(n)] >= recv_sequence[Peer(n)]
    BY <2>1 DEF HoldsOn
  <2>8. CASE packet.ack < recv_sequence[Peer(n)]
    BY <2>5, <2>6, <2>7, <2>8
  <2>9. CASE Listed(recv_buffer[Peer(n)], packet.ack)
    BY <2>1, <2>5, <2>9 DEF HoldsOn
  <2> QED BY <2>3, <2>8, <2>9
<1>2. CASE packet \notin InFlightTo(n)
  BY <1>2 DEF AcksFrom
<1> QED BY <1>1, <1>2

\* Where neither end loses a packet it holds.
LEMMA HoldsAll ==
  ASSUME TypeInv, NEW n \in Nodes, recv_sequence' = recv_sequence,
         \/ phase' = phase
         \/ phase' = [phase EXCEPT ![n] = "draining"] /\ Open(n)
         \/ phase' = [phase EXCEPT ![n] = "down"]
         \/ phase' = [phase EXCEPT ![n] = "destroyed"],
         Open(n)' => \A a \in Numbers :
                       Listed(recv_buffer[n], a) => Listed(recv_buffer'[n], a),
         recv_buffer'[Peer(n)] = recv_buffer[Peer(n)]
  PROVE  \A m \in Nodes : HoldsOn(m)
<1> SUFFICES ASSUME NEW m \in Nodes PROVE HoldsOn(m)
  OBVIOUS
<1>1. recv_sequence'[m] >= recv_sequence[m]
  <2>1. recv_sequence[m] \in Nat
    BY NumberFacts DEF TypeInv, NumberTypes
  <2> QED BY <2>1
<1>2. Open(m)' => Open(m)
  BY DEF Open, TypeInv, PhaseTypes
<1>3. \A a \in Numbers : Listed(recv_buffer[m], a) /\ Open(m)' => Listed(recv_buffer'[m], a)
  <2>1. CASE m = n
    BY <2>1
  <2>2. CASE m = Peer(n)
    BY <2>2
  <2> QED BY <2>1, <2>2, PeerFacts
<1> QED BY <1>1, <1>2, <1>3 DEF HoldsOn

LEMMA AcksAsBefore ==
  ASSUME NEW n \in Nodes, NEW ways, \A p \in ways : p.type # "ACK",
         InFlightTo(Peer(n))' \subseteq InFlightTo(Peer(n)) \cup ways,
         InFlightTo(n)' \subseteq InFlightTo(n)
  PROVE  \A m \in Nodes : AcksFrom(m)
BY PeerFacts DEF AcksFrom

LEMMA SendAcks ==
  ASSUME TypeInv, AckMeansStored, NEW n \in Nodes, NEW size \in 1 .. MaxPayload,
         SendData(n, size)
  PROVE  AckMeansStored'
<1>1. PICK use_tcp \in ShouldUseTcp :
        Transmit(n, Route(n, use_tcp), Packet("DATA", send_sequence[n], 0,
                                             [i \in 1 .. size |-> accepted[n] + i]))
  BY DEF SendData
<1> DEFINE payload == [i \in 1 .. size |-> accepted[n] + i]
           packet  == Packet("DATA", send_sequence[n], 0, payload)
<1>2. use_tcp \in BOOLEAN
  BY <1>1 DEF ShouldUseTcp
<1>3. payload \in Payloads
  <2>1. payload = Stretch(accepted[n], size)
    BY DEF Stretch
  <2>2. accepted[n] \in Nat /\ size \in Nat
    BY DEF TypeInv, ByteTypes
  <2> HIDE DEF payload
  <2> QED BY <2>1, <2>2, StretchTypes DEF Payloads
<1> HIDE DEF payload
<1>4. packet \in Wire /\ packet.type = "DATA"
  <2>1. send_sequence[n] \in Numbers
    BY DEF TypeInv, NumberTypes
  <2> QED BY <1>3, <2>1, NumberFacts DEF Packet, Wire, Packets, Payloads
<1>5. Transmit(n, Route(n, use_tcp), packet)
  BY <1>1 DEF payload
<1> HIDE DEF packet
<1>6. /\ InFlightTo(Peer(n))' \subseteq InFlightTo(Peer(n)) \cup {packet}
      /\ InFlightTo(n)' = InFlightTo(n)
  BY <1>2, <1>4, <1>5, SentOnWay
<1>7. \A m \in Nodes : AcksFrom(m)
  BY <1>4, <1>6, AcksAsBefore
<1>8. recv_sequence' = recv_sequence /\ recv_buffer' = recv_buffer /\ phase' = phase
  BY DEF SendData
<1>9. \A m \in Nodes : HoldsOn(m)
  BY <1>8, HoldsAll
<1>10. recv_sequence' \in [Nodes -> Nat]
  BY <1>8, NumberFacts DEF TypeInv, NumberTypes
<1> QED BY <1>7, <1>9, <1>10, AcksKept

LEMMA TimeoutAcks ==
  ASSUME TypeInv, AckMeansStored, NEW n \in Nodes, HandleTimeout(n)
  PROVE  AckMeansStored'
<1> DEFINE ways == {DataPacket(e) : e \in Elements(send_buffer[n])} \cup {Beat(n)}
<1>1. /\ InFlightTo(Peer(n))' \subseteq InFlightTo(Peer(n)) \cup ways
      /\ InFlightTo(n)' = InFlightTo(n)
  BY TimeoutOnWay
<1>2. \A p \in ways : p.type # "ACK"
  BY DEF DataPacket, Packet, Beat
<1> HIDE DEF ways
<1>3. \A m \in Nodes : AcksFrom(m)
  BY <1>1, <1>2, AcksAsBefore
<1>4. /\ recv_sequence' = recv_sequence /\ recv_buffer' = recv_buffer
      /\ phase' = phase \/ phase' = [phase EXCEPT ![n] = "down"]
  BY TimeoutIs
<1>5. \A m \in Nodes : HoldsOn(m)
  BY <1>4, HoldsAll
<1>6. recv_sequence' \in [Nodes -> Nat]
  BY <1>4, NumberFacts DEF TypeInv, NumberTypes
<1> QED BY <1>3, <1>5, <1>6, AcksKept

LEMMA EndAcks ==
  ASSUME TypeInv, AckMeansStored, NEW n \in Nodes,
         Disconnect(n) \/ Destroy(n) \/ StopDraining(n)
  PROVE  AckMeansStored'
<1> DEFINE ways == {Packet("CONTROL", send_sequence[n], 0, <<>>)}
<1>1. /\ InFlightTo(Peer(n))' \subseteq InFlightTo(Peer(n)) \cup ways
      /\ InFlightTo(n)' = InFlightTo(n)
  <2>1. CASE Disconnect(n)
    BY <2>1, NoticeOnWay
  <2>2. CASE Destroy(n) \/ StopDraining(n)
    <3>1. udp' = udp /\ tcp' = tcp
      BY <2>2 DEF Destroy, StopDraining, net
    <3>2. InFlightTo(Peer(n))' = InFlightTo(Peer(n)) /\ InFlightTo(n)' = InFlightTo(n)
      BY <3>1, WayIs
    <3> QED BY <3>2
  <2> QED BY <2>1, <2>2
<1>2. \A p \in ways : p.type # "ACK"
  BY DEF Packet
<1> HIDE DEF ways
<1>3. \A m \in Nodes : AcksFrom(m)
  BY <1>1, <1>2, AcksAsBefore
<1>4. /\ phase \in [Nodes -> {"connected", "draining", "down", "destroyed"}]
      /\ Peer(n) # n /\ Peer(n) \in Nodes /\ recv_buffer \in [Nodes -> Seq(Held)]
  BY PeerFacts DEF TypeInv, PhaseTypes, ListTypes
<1>5. /\ recv_sequence' = recv_sequence
      /\ recv_buffer'[Peer(n)] = recv_buffer[Peer(n)]
      /\ \/ phase' = [phase EXCEPT ![n] = "down"]
         \/ phase' = [phase EXCEPT ![n] = "destroyed"]
      /\ ~Open(n)'
  BY <1>4 DEF Disconnect, Destroy, StopDraining, Open
<1>6. \A m \in Nodes : HoldsOn(m)
  BY <1>5, HoldsAll
<1>7. recv_sequence' \in [Nodes -> Nat]
  BY <1>5, NumberFacts DEF TypeInv, NumberTypes
<1> QED BY <1>3, <1>6, <1>7, AcksKept

\* The packet acknowledged was put in the list in the same step.
LEMMA PacketAcks ==
  ASSUME TypeInv, AckMeansStored, NEW n \in Nodes, ProcessUdp(n) \/ ProcessTcp(n)
  PROVE  AckMeansStored'
<1>1. PICK packet \in InFlightTo(n) :
        /\ packet \in Wire /\ TakePacket(n, packet)
        /\ InFlightTo(n)' \subseteq InFlightTo(n)
        /\ InFlightTo(Peer(n))' \subseteq InFlightTo(Peer(n)) \cup
             (IF packet.type = "DATA" THEN {AckOf(n, packet)} ELSE {})
  BY PassedOn
<1>2. /\ Peer(n) # n /\ recv_buffer[n] \in Seq(Held)
      /\ recv_buffer \in [Nodes -> Seq(Held)] /\ Peer(n) \in Nodes /\ Peer(Peer(n)) = n
  BY PeerFacts DEF TypeInv, ListTypes
<1>3. /\ recv_sequence' = recv_sequence /\ Open(n)
      /\ phase' = phase \/ phase' = [phase EXCEPT ![n] = "draining"]
  BY <1>1 DEF TakePacket, TakeData, TakeAck, TakeHeartbeat, TakeClose, Open
<1>4. /\ recv_buffer'[Peer(n)] = recv_buffer[Peer(n)]
      /\ \A a \in Numbers : Listed(recv_buffer[n], a) => Listed(recv_buffer'[n], a)
      /\ packet.type = "DATA" => Listed(recv_buffer'[n], packet.sequence)
  <2>1. CASE packet.type = "DATA" /\ TakeData(n, packet)
    <3> DEFINE entry == Item(packet)
               list  == recv_buffer[n]
    <3>1. recv_buffer' = [recv_buffer EXCEPT ![n] = <<entry>> \o list]
      BY <2>1 DEF TakeData, Item
    <3>2. entry \in Held /\ list \in Seq(Held) /\ entry.sequence = packet.sequence
      BY <1>1, <1>2, <2>1 DEF Wire, Packets, Held, Item
    <3> HIDE DEF entry, list
    <3>3. recv_buffer'[n] = <<entry>> \o list /\ recv_buffer'[Peer(n)] = recv_buffer[Peer(n)]
      BY <1>2, <3>1
    <3>4. <<entry>> \in Seq(Held) /\ Len(<<entry>>) = 1 /\ <<entry>>[1] = entry
          /\ Len(list) \in Nat
      BY <3>2, LenProperties
    <3> DEFINE t == <<entry>> \o list
    <3>5. /\ Len(t) = 1 + Len(list)
          /\ \A i \in 1 .. 1 + Len(list) : t[i] = IF i <= 1 THEN <<entry>>[i] ELSE list[i - 1]
      BY <3>2, <3>4, ConcatProperties
    <3> HIDE DEF t
    <3>6. 1 \in 1 .. Len(t) /\ t[1] = entry
      BY <3>4, <3>5
    <3>7. \A i \in 1 .. Len(list) : i + 1 \in 1 .. Len(t) /\ t[i + 1] = list[i]
      <4>1. \A i \in 1 .. Len(list) : /\ i + 1 \in 1 .. 1 + Len(list) /\ ~(i + 1 <= 1)
                                      /\ (i + 1) - 1 = i
        BY <3>4
      <4> QED BY <3>5, <4>1
    <3>8. Listed(t, packet.sequence)
      BY <3>2, <3>6 DEF Listed, Positions
    <3>9. \A a \in Numbers : Listed(list, a) => Listed(t, a)
      BY <3>7 DEF Listed, Positions
    <3> QED BY <3>3, <3>8, <3>9 DEF t, list
  <2>2. CASE packet.type # "DATA" /\ recv_buffer' = recv_buffer
    BY <2>2
  <2> QED BY <1>1, <2>1, <2>2 DEF TakePacket, TakeAck, TakeHeartbeat, TakeClose
<1>5. AcksFrom(n)
  BY <1>1 DEF AcksFrom
<1>6. AcksFrom(Peer(n))
  BY <1>1, <1>2, <1>4 DEF AcksFrom, AckOf, Packet
<1>7. \A m \in Nodes : HoldsOn(m)
  BY <1>3, <1>4, HoldsAll
<1>8. recv_sequence' \in [Nodes -> Nat]
  BY <1>3, NumberFacts DEF TypeInv, NumberTypes
<1>9. \A m \in Nodes : AcksFrom(m)
  BY <1>5, <1>6, PeerFacts
<1> QED BY <1>7, <1>8, <1>9, AcksKept

LEMMA TickAcks ==
  ASSUME TypeInv, AckMeansStored, Tick
  PROVE  AckMeansStored'
<1>1. /\ udp' = udp /\ tcp' = tcp /\ recv_buffer' = recv_buffer
      /\ recv_sequence' = recv_sequence /\ phase' = phase
  BY DEF Tick, net
<1>2. \A m \in Nodes : InFlightTo(m)' = InFlightTo(m)
  BY <1>1, WayIs
<1> QED BY <1>1, <1>2 DEF AckMeansStored, Open, Listed

\* A packet that leaves the list has its number behind the next one expected.
LEMMA RecvAcks ==
  ASSUME TypeInv, NumInv, NumbersLast, AckMeansStored, NEW n \in Nodes, RecvData(n)
  PROVE  AckMeansStored'
<1> DEFINE list == recv_buffer[n]
           gone == {TakenOf(n)[k] : k \in CallsOf(n)}
           kept == Positions(list) \ gone
           next == recv_sequence[n] + CountOf(n)
<1>1. /\ recv_buffer' = [recv_buffer EXCEPT ![n] = Pick(list, kept)]
      /\ phase' = phase /\ udp' = udp /\ tcp' = tcp
  BY RecvDataIs DEF net
<1>2. /\ recv_sequence' = [recv_sequence EXCEPT ![n] = next]
      /\ CountOf(n) \in Nat
      /\ \A k \in CallsOf(n) : list[TakenOf(n)[k]].sequence < next
  BY RecvSound
<1>3. /\ recv_buffer \in [Nodes -> Seq(Held)] /\ recv_sequence \in [Nodes -> Nat]
      /\ list \in Seq(Held)
  BY NumberFacts DEF TypeInv, ListTypes, NumberTypes
<1>4. recv_buffer'[n] = Pick(list, kept) /\ recv_sequence'[n] = next /\ next \in Nat
      /\ next >= recv_sequence[n]
  BY <1>1, <1>2, <1>3
<1>5. ASSUME NEW a \in Numbers, Listed(list, a)
      PROVE  a < next \/ Listed(Pick(list, kept), a)
  <2>1. PICK i \in 1 .. Len(list) : list[i].sequence = a
    BY <1>5 DEF Listed, Positions
  <2>2. CASE i \in gone
    <3>1. PICK k \in CallsOf(n) : i = TakenOf(n)[k]
      BY <2>2
    <3> QED BY <1>2, <2>1, <3>1
  <2>3. CASE i \notin gone
    <3>1. i \in kept
      BY <2>3 DEF Positions
    <3> HIDE DEF list, kept
    <3>2. PICK f : Selects(f, Pick(list, kept), list, Len(list), kept)
      BY <1>3, PickSelects DEF Selection
    <3>3. PICK j \in 1 .. Len(Pick(list, kept)) : f[j] = i
      BY <3>1, <3>2 DEF Selects
    <3>4. Pick(list, kept)[j] = list[i]
      BY <3>2, <3>3 DEF Selects
    <3> QED BY <2>1, <3>4 DEF Listed, Positions
  <2> QED BY <2>2, <2>3
<1> HIDE DEF list, kept, next, gone
<1>6. HoldsOn(n)
  <2>1. Open(n)' => Open(n)
    BY <1>1 DEF Open
  <2> QED BY <1>4, <1>5, <2>1 DEF HoldsOn, list
<1>7. HoldsOn(Peer(n))
  <2>1. /\ recv_sequence'[Peer(n)] = recv_sequence[Peer(n)] /\ recv_sequence[Peer(n)] \in Nat
        /\ recv_buffer'[Peer(n)] = recv_buffer[Peer(n)]
    BY <1>1, <1>2, <1>3, PeerFacts
  <2>2. Open(Peer(n))' => Open(Peer(n))
    BY <1>1 DEF Open
  <2> QED BY <2>1, <2>2 DEF HoldsOn
<1>8. \A m \in Nodes : HoldsOn(m)
  BY <1>6, <1>7, PeerFacts
<1>9. \A m \in Nodes : InFlightTo(m)' = InFlightTo(m)
  BY <1>1, WayIs
<1>10. \A m \in Nodes : AcksFrom(m)
  BY <1>9 DEF AcksFrom
<1>11. recv_sequence' \in [Nodes -> Nat]
  BY <1>2, <1>3, <1>4
<1> QED BY <1>8, <1>10, <1>11, AcksKept

\* An acknowledgement on its way to an end is of a packet its peer has in its
\* list or delivered, so that the end may forget its copy: the end that wrote it
\* put the packet in its list first, ht_recv_data() takes a packet out of there
\* only by moving the number it expects past it, and a list that is thrown away
\* is that of an end which is gone.
THEOREM AcknowledgedIsKept == NumbersLast => (Spec => []AckMeansStored)
<1> SUFFICES ASSUME NumbersLast PROVE Spec => []AckMeansStored
  OBVIOUS
<1>1. Init => AckMeansStored
  <2> SUFFICES ASSUME Init PROVE AckMeansStored
    OBVIOUS
  <2>1. \A n \in Nodes : udp[n] = {} /\ tcp[n] = <<>>
    BY DEF Init
  <2>2. Elements(<<>>) = {}
    BY DEF Elements
  <2>3. \A n \in Nodes : InFlightTo(n) = {}
    BY <2>1, <2>2, WayIs
  <2> QED BY <2>3 DEF AckMeansStored
<1>2. ASSUME TypeInv, NumInv, AckMeansStored, [Next]_vars PROVE AckMeansStored'
  <2>1. CASE UNCHANGED vars
    <3>1. /\ udp' = udp /\ tcp' = tcp /\ recv_buffer' = recv_buffer
          /\ recv_sequence' = recv_sequence /\ phase' = phase
      BY <2>1 DEF vars
    <3>2. \A m \in Nodes : InFlightTo(m)' = InFlightTo(m)
      BY <3>1, WayIs
    <3> QED BY <1>2, <3>1, <3>2 DEF AckMeansStored, Open, Listed
  <2>2. CASE Tick
    BY <1>2, <2>2, TickAcks
  <2>3. ASSUME NEW n \in Nodes, NEW size \in 1 .. MaxPayload, SendData(n, size)
        PROVE  AckMeansStored'
    BY <1>2, <2>3, SendAcks
  <2>4. ASSUME NEW n \in Nodes, RecvData(n) PROVE AckMeansStored'
    BY <1>2, <2>4, RecvAcks
  <2>5. ASSUME NEW n \in Nodes, ProcessUdp(n) \/ ProcessTcp(n) PROVE AckMeansStored'
    BY <1>2, <2>5, PacketAcks
  <2>6. ASSUME NEW n \in Nodes, HandleTimeout(n) PROVE AckMeansStored'
    BY <1>2, <2>6, TimeoutAcks
  <2>7. ASSUME NEW n \in Nodes, Disconnect(n) \/ Destroy(n) \/ StopDraining(n)
        PROVE  AckMeansStored'
    BY <1>2, <2>7, EndAcks
  <2> QED BY <1>2, <2>1, <2>2, <2>3, <2>4, <2>5, <2>6, <2>7 DEF Next
<1> QED BY <1>1, <1>2, NumbersInvariant, PTL DEF Spec

-----------------------------------------------------------------------------
(* The transport implements the stream *)

Up == {n \in Nodes : phase[n] = "connected"}

\* The numbers of an interval in ascending order.
LEMMA AscendingInterval ==
  ASSUME NEW c \in Nat, NEW m \in Nat
  PROVE  Transport!Ascending((c + 1) .. (c + m)) = Stretch(c, m)
<1> DEFINE S == (c + 1) .. (c + m)
           upto(k) == {j \in S : j <= k}
<1>1. Cardinality(S) = m
  <2>1. c + 1 \in Int /\ c + m \in Int
    OBVIOUS
  <2>2. Cardinality(S) = IF c + 1 > c + m THEN 0 ELSE c + m - (c + 1) + 1
    BY <2>1, FS_Interval
  <2> HIDE DEF S
  <2> QED BY <2>2
<1>2. ASSUME NEW k \in S PROVE Cardinality(upto(k)) = k - c
  <2>1. upto(k) = (c + 1) .. k /\ c + 1 \in Int /\ k \in Int
    OBVIOUS
  <2>2. Cardinality((c + 1) .. k) = IF c + 1 > k THEN 0 ELSE k - (c + 1) + 1
    BY <2>1, FS_Interval
  <2>3. k >= c + 1
    OBVIOUS
  <2> HIDE DEF upto, S
  <2> QED BY <2>1, <2>2, <2>3
<1>3. ASSUME NEW i \in 1 .. m
      PROVE  (CHOOSE k \in S : Cardinality(upto(k)) = i) = c + i
  <2>1. c + i \in S /\ (c + i) - c = i
    OBVIOUS
  <2>2. \A k \in S : k - c = i => k = c + i
    OBVIOUS
  <2>3. Cardinality(upto(c + i)) = i
    BY <1>2, <2>1
  <2>4. \A k \in S : Cardinality(upto(k)) = i => k = c + i
    <3> HIDE DEF upto, S
    <3> QED BY <1>2, <2>2
  <2> HIDE DEF upto, S
  <2> QED BY <2>1, <2>3, <2>4
<1>4. [i \in 1 .. Cardinality(S) |-> CHOOSE k \in S : Cardinality(upto(k)) = i] = Stretch(c, m)
  <2> HIDE DEF upto, S
  <2> QED BY <1>1, <1>3 DEF Stretch
<1>5. Transport!Ascending(S) =
        [i \in 1 .. Cardinality(S) |-> CHOOSE k \in S : Cardinality(upto(k)) = i]
  BY DEF Transport!Ascending, Cardinality, Transport!Cardinality
<1> QED BY <1>4, <1>5

\* An end that leaves the connection, in whatever way, goes down.
LEMMA DownIs ==
  ASSUME TypeInv, NEW n \in Nodes, NEW x, x # "connected",
         phase' = [phase EXCEPT ![n] = x], accepted' = accepted, delivered' = delivered
  PROVE  Transport!Next
<1>1. phase \in [Nodes -> {"connected", "draining", "down", "destroyed"}]
  BY DEF TypeInv, PhaseTypes
<1>2. Up' = Up \ {n}
  BY <1>1 DEF Up
<1>3. Transport!GoDown(n)
  BY <1>2 DEF Transport!GoDown, Up
<1> QED BY <1>3 DEF Transport!Next

LEMMA StaysUp ==
  ASSUME phase' = phase, accepted' = accepted, delivered' = delivered
  PROVE  UNCHANGED Transport!streamVars
BY DEF Transport!streamVars

LEMMA SendStreams ==
  ASSUME TypeInv, NEW n \in Nodes, NEW size \in 1 .. MaxPayload, SendData(n, size)
  PROVE  [Transport!Next]_(Transport!streamVars)
<1>1. /\ phase' = phase /\ delivered' = delivered /\ n \in Up
      /\ accepted' = accepted \/ accepted' = [accepted EXCEPT ![n] = @ + size]
  BY DEF SendData, Up
<1>2. CASE accepted' = accepted
  BY <1>1, <1>2, StaysUp
<1>3. CASE accepted' = [accepted EXCEPT ![n] = @ + size]
  <2>1. Up' = Up
    BY <1>1 DEF Up
  <2>2. Transport!Accept(n, size)
    BY <1>1, <1>3, <2>1 DEF Transport!Accept, Up
  <2> QED BY <2>2 DEF Transport!Next
<1> QED BY <1>1, <1>2, <1>3

LEMMA RecvStreams ==
  ASSUME TypeInv, NumInv, NumbersLast, NEW n \in Nodes, RecvData(n)
  PROVE  [Transport!Next]_(Transport!streamVars)
<1> DEFINE p     == Peer(n)
           c     == Len(unpacked[n])
           count == CountOf(n)
           bytes == BytesOf(n)[count]
           size  == Len(bytes)
           m     == Smaller(ReadSize, Len(bytes))
           S     == (c + 1) .. (c + m)
<1>1. /\ delivered' = [delivered EXCEPT ![n] = @ \o SubSeq(bytes, 1, m)]
      /\ phase' = phase /\ accepted' = accepted /\ phase[n] = "connected"
  BY RecvDataIs
<1>2. /\ size \in Nat /\ bytes = Stretch(c, size)
      /\ Sound(Known(p)', first_sequence[p], send_sequence[p], accepted[p],
               recv_sequence[n] + count, c + size)
  BY RecvSound
<1>3. c + size <= accepted[p]
  BY <1>2 DEF Sound
<1>4. /\ p \in Nodes /\ Peer(p) = n
  BY PeerFacts
<1>5. /\ c \in Nat /\ delivered[n] \in Seq(Nat) /\ accepted[p] \in Nat
      /\ \A i \in 1 .. Len(delivered[n]) : delivered[n][i] <= c
  BY <1>4, SideFacts
<1> HIDE DEF c, count, bytes, size
<1>6. m \in Nat /\ m <= size
  BY <1>2, HybridAssumption DEF Smaller, size
<1> HIDE DEF m
<1>7. SubSeq(bytes, 1, m) = Stretch(c, m)
  <2>1. bytes \in Seq(Nat) /\ Len(bytes) = size /\ \A i \in 1 .. size : bytes[i] = c + i
    <3>1. Stretch(c, size) \in Seq(Nat) /\ Len(Stretch(c, size)) = size
      BY <1>2, <1>5, StretchTypes
    <3> QED BY <1>2, <3>1 DEF Stretch
  <2>2. \A i \in 1 .. m : i \in 1 .. Len(bytes) /\ bytes[i] \in Nat
    <3>1. \A i \in 1 .. m : i \in 1 .. Len(bytes)
      BY <1>2, <1>6, <2>1
    <3> QED BY <2>1, <3>1, ElementOfSeq
  <2> DEFINE given == SubSeq(bytes, 1, m)
  <2>3. /\ given \in Seq(Nat)
        /\ Len(given) = IF 1 <= m THEN m - 1 + 1 ELSE 0
        /\ \A i \in 1 .. m - 1 + 1 : given[i] = bytes[1 + i - 1]
    BY <1>6, <2>2, SubSeqProperties
  <2> HIDE DEF given
  <2>4. m - 1 + 1 = m /\ \A i \in 1 .. m : 1 + i - 1 = i
    BY <1>6
  <2>5. Len(given) = m /\ \A i \in 1 .. m : given[i] = c + i
    <3>1. Len(given) = m /\ \A i \in 1 .. m : given[i] = bytes[i]
      BY <1>6, <2>3, <2>4
    <3>2. \A i \in 1 .. m : i \in 1 .. size
      BY <1>2, <1>6
    <3> QED BY <2>1, <3>1, <3>2
  <2>6. /\ Stretch(c, m) \in Seq(Nat) /\ Len(Stretch(c, m)) = m
        /\ \A i \in 1 .. m : Stretch(c, m)[i] = c + i
    <3>1. Stretch(c, m) \in Seq(Nat) /\ Len(Stretch(c, m)) = m
      BY <1>5, <1>6, StretchTypes
    <3> QED BY <3>1 DEF Stretch
  <2>7. given = Stretch(c, m)
    BY <2>3, <2>5, <2>6, SeqEqual
  <2> QED BY <2>7 DEF given
<1>8. Transport!LastOf(n) \in Nat /\ Transport!LastOf(n) <= c
  <2> DEFINE d == delivered[n]
  <2>1. d = <<>> \/ Len(d) \in 1 .. Len(d)
    BY <1>5, LenProperties, EmptySeq
  <2>2. Transport!LastOf(n) = IF d = <<>> THEN 0 ELSE d[Len(d)]
    BY DEF Transport!LastOf
  <2>3. CASE d = <<>>
    BY <1>5, <2>2, <2>3
  <2>4. CASE d # <<>>
    <3>1. d[Len(d)] \in Nat /\ d[Len(d)] <= c
      BY <1>5, <2>1, <2>4, ElementOfSeq
    <3> QED BY <2>2, <2>4, <3>1
  <2> QED BY <2>3, <2>4
<1>9. S \in SUBSET Transport!Coming(n)
  <2>1. Transport!Coming(n) = (Transport!LastOf(n) + 1) .. accepted[p]
    BY DEF Transport!Coming
  <2> DEFINE last == Transport!LastOf(n)
             all  == accepted[p]
  <2>2. last \in Nat /\ all \in Nat /\ last <= c /\ c + m <= all
    BY <1>2, <1>3, <1>5, <1>6, <1>8
  <2> HIDE DEF last, all
  <2>3. S \subseteq (last + 1) .. all
    BY <1>5, <1>6, <2>2
  <2> QED BY <2>1, <2>3 DEF last, all
<1>10. Transport!Ascending(S) = Stretch(c, m)
  BY <1>5, <1>6, AscendingInterval
<1> HIDE DEF S
<1>11. delivered' = [delivered EXCEPT ![n] = @ \o Transport!Ascending(S)]
  BY <1>1, <1>7, <1>10
<1>12. n \in Up /\ Up' = Up
  BY <1>1 DEF Up
<1>13. Transport!Deliver(n, S)
  BY <1>1, <1>11, <1>12 DEF Transport!Deliver, Up
<1> QED BY <1>9, <1>13 DEF Transport!Next

LEMMA OthersStream ==
  ASSUME TypeInv, NEW n \in Nodes,
         \/ ProcessUdp(n) \/ ProcessTcp(n) \/ HandleTimeout(n)
         \/ Disconnect(n) \/ Destroy(n) \/ StopDraining(n)
  PROVE  [Transport!Next]_(Transport!streamVars)
<1>1. /\ accepted' = accepted /\ delivered' = delivered
      /\ phase' = phase \/ \E x \in {"draining", "down", "destroyed"} :
                             phase' = [phase EXCEPT ![n] = x]
  <2>1. CASE ProcessUdp(n) \/ ProcessTcp(n)
    <3>1. PICK packet \in InFlightTo(n) : TakePacket(n, packet)
      BY <2>1, PassedOn
    <3> QED BY <3>1 DEF TakePacket, TakeData, TakeAck, TakeHeartbeat, TakeClose, history
  <2>2. CASE HandleTimeout(n)
    BY <2>2, TimeoutIs DEF history
  <2>3. CASE Disconnect(n) \/ Destroy(n) \/ StopDraining(n)
    BY <2>3 DEF Disconnect, Destroy, StopDraining, history
  <2> QED BY <2>1, <2>2, <2>3
<1>2. CASE phase' = phase
  BY <1>1, <1>2, StaysUp
<1>3. CASE phase' # phase
  <2>1. PICK x \in {"draining", "down", "destroyed"} : phase' = [phase EXCEPT ![n] = x]
    BY <1>1, <1>3
  <2> QED BY <1>1, <2>1, DownIs
<1> QED BY <1>2, <1>3

\* To the program above it the transport is two ends that accept bytes and give
\* the other's up in order, at most once, and neither after they went down:
\* ht_send_data() accepts, ht_recv_data() delivers the interval that follows,
\* every way out of the connection is a going down, and nothing else shows.
THEOREM TransportIsStream == NumbersLast => (Spec => ImplementsStream)
<1> SUFFICES ASSUME NumbersLast PROVE Spec => ImplementsStream
  OBVIOUS
<1>1. Init => Transport!Init
  BY DEF Init, Transport!Init
<1>2. ASSUME TypeInv, NumInv, [Next]_vars PROVE [Transport!Next]_(Transport!streamVars)
  <2>1. CASE UNCHANGED vars
    BY <2>1, StaysUp DEF vars
  <2>2. CASE Tick
    BY <2>2, StaysUp DEF Tick, history
  <2>3. ASSUME NEW n \in Nodes, NEW size \in 1 .. MaxPayload, SendData(n, size)
        PROVE  [Transport!Next]_(Transport!streamVars)
    BY <1>2, <2>3, SendStreams
  <2>4. ASSUME NEW n \in Nodes, RecvData(n)
        PROVE  [Transport!Next]_(Transport!streamVars)
    BY <1>2, <2>4, RecvStreams
  <2>5. ASSUME NEW n \in Nodes,
               \/ ProcessUdp(n) \/ ProcessTcp(n) \/ HandleTimeout(n)
               \/ Disconnect(n) \/ Destroy(n) \/ StopDraining(n)
        PROVE  [Transport!Next]_(Transport!streamVars)
    BY <1>2, <2>5, OthersStream
  <2> QED BY <1>2, <2>1, <2>2, <2>3, <2>4, <2>5 DEF Next
<1> QED BY <1>1, <1>2, NumbersInvariant, PTL DEF Spec, ImplementsStream, Transport!Spec

=============================================================================
