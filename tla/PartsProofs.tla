---------------------------- MODULE PartsProofs -----------------------------
(***************************************************************************)
(* Machine-checked proofs about the small machines: the checksum and the   *)
(* reading of packets (HtLink), the configuration (ConfigLoad) and the     *)
(* books of the connections (ConnBooks), each by its own specification.    *)
(***************************************************************************)
EXTENDS HtLink, ConfigLoad, ConnBooks, DataLemmas

-----------------------------------------------------------------------------
(* The checksum *)

Word == 0 .. Modulus - 1

\* What a division by the modulus does to a number that is less than twice it.
LEMMA OnceAround ==
  ASSUME NEW s \in Nat, s < 2 * Modulus
  PROVE  /\ s % Modulus = IF s < Modulus THEN s ELSE s - Modulus
         /\ s \div Modulus = IF s < Modulus THEN 0 ELSE 1
BY LinkAssumption

LEMMA RotationLosesNothing ==
  /\ \A c \in Word : RotateLeft(c) \in Word
  /\ \A c, d \in Word : RotateLeft(c) = RotateLeft(d) => c = d
<1>1. PICK half \in Nat : Modulus = 2 * half
  <2>1. Modulus = 2 * (Modulus \div 2) /\ Modulus \div 2 \in Nat
    BY LinkAssumption
  <2> QED BY <2>1
<1>2. \A c \in Word : RotateLeft(c) = IF c < half THEN 2 * c ELSE 2 * c - Modulus + 1
  <2> SUFFICES ASSUME NEW c \in Word
               PROVE  RotateLeft(c) = IF c < half THEN 2 * c ELSE 2 * c - Modulus + 1
    OBVIOUS
  <2>1. c \in Nat /\ 2 * c \in Nat /\ 2 * c < 2 * Modulus /\ Modulus \in Nat
    BY LinkAssumption DEF Word
  <2>2. /\ (2 * c) % Modulus = IF 2 * c < Modulus THEN 2 * c ELSE 2 * c - Modulus
        /\ (2 * c) \div Modulus = IF 2 * c < Modulus THEN 0 ELSE 1
    BY <2>1, OnceAround
  <2>3. 2 * c < Modulus <=> c < half
    BY <1>1, <2>1
  <2>4. CASE c < half
    BY <2>1, <2>2, <2>3, <2>4 DEF RotateLeft
  <2>5. CASE ~(c < half)
    BY <2>1, <2>2, <2>3, <2>5 DEF RotateLeft
  <2> QED BY <2>4, <2>5
<1>3. ASSUME NEW c \in Word PROVE RotateLeft(c) \in Word
  <2>1. c \in Nat /\ c < 2 * half
    BY <1>1 DEF Word
  <2>2. RotateLeft(c) = IF c < half THEN 2 * c ELSE 2 * c - Modulus + 1
    BY <1>2
  <2> QED BY <1>1, <2>1, <2>2 DEF Word
<1>4. ASSUME NEW c \in Word, NEW d \in Word, RotateLeft(c) = RotateLeft(d) PROVE c = d
  <2>1. c \in Nat /\ d \in Nat
    BY DEF Word
  <2>2. /\ RotateLeft(c) = IF c < half THEN 2 * c ELSE 2 * c - Modulus + 1
        /\ RotateLeft(d) = IF d < half THEN 2 * d ELSE 2 * d - Modulus + 1
    BY <1>2
  <2>3. half \in Nat /\ RotateLeft(c) = RotateLeft(d) /\ Modulus = 2 * half
        /\ c < Modulus /\ d < Modulus
    BY <1>1, <1>4 DEF Word
  <2>4. CASE c < half /\ d < half
    BY <2>1, <2>2, <2>3, <2>4
  <2>5. CASE ~(c < half) /\ ~(d < half)
    BY <2>1, <2>2, <2>3, <2>5
  <2>6. CASE c < half /\ ~(d < half)
    BY <2>1, <2>2, <2>3, <2>6
  <2>7. CASE ~(c < half) /\ d < half
    BY <2>1, <2>2, <2>3, <2>7
  <2> QED BY <2>4, <2>5, <2>6, <2>7
<1> QED BY <1>3, <1>4

LEMMA AdditionLosesNothing ==
  /\ \A a, x \in Word : (a + x) % Modulus \in Word
  /\ \A a, b, x \in Word : (a + x) % Modulus = (b + x) % Modulus => a = b
<1>1. \A a, x \in Word :
        (a + x) % Modulus = IF a + x < Modulus THEN a + x ELSE (a + x) - Modulus
  <2> SUFFICES ASSUME NEW a \in Word, NEW x \in Word
               PROVE  (a + x) % Modulus = IF a + x < Modulus THEN a + x ELSE (a + x) - Modulus
    OBVIOUS
  <2>1. a + x \in Nat /\ a + x < 2 * Modulus
    BY LinkAssumption DEF Word
  <2> QED BY <2>1, OnceAround
<1>2. Modulus \in Nat /\ Word \subseteq Nat /\ \A a \in Word : a < Modulus
  BY LinkAssumption DEF Word
<1>3. ASSUME NEW a \in Word, NEW x \in Word PROVE (a + x) % Modulus \in Word
  <2>1. (a + x) % Modulus = IF a + x < Modulus THEN a + x ELSE (a + x) - Modulus
    BY <1>1
  <2> QED BY <1>2, <2>1 DEF Word
<1>4. ASSUME NEW a \in Word, NEW b \in Word, NEW x \in Word,
             (a + x) % Modulus = (b + x) % Modulus
      PROVE  a = b
  <2>1. /\ (a + x) % Modulus = IF a + x < Modulus THEN a + x ELSE (a + x) - Modulus
        /\ (b + x) % Modulus = IF b + x < Modulus THEN b + x ELSE (b + x) - Modulus
    BY <1>1
  <2> DEFINE rest == (a + x) % Modulus
  <2>2. /\ rest = IF a + x < Modulus THEN a + x ELSE (a + x) - Modulus
        /\ rest = IF b + x < Modulus THEN b + x ELSE (b + x) - Modulus
    BY <1>4, <2>1
  <2> HIDE DEF rest
  <2>3. a \in Nat /\ b \in Nat /\ x \in Nat /\ a < Modulus /\ b < Modulus /\ x < Modulus
    BY <1>2
  <2> QED BY <1>2, <2>2, <2>3
<1> QED BY <1>3, <1>4

\* The sum after each byte, as ht_calculate_checksum() comes by it.
Running(bytes) ==
  CHOOSE g : g = [i \in 0 .. Len(bytes) |->
                    IF i = 0 THEN 0 ELSE RotateLeft((g[i - 1] + bytes[i]) % Modulus)]

LEMMA RunningIs ==
  ASSUME NEW bytes \in Packets
  PROVE  /\ ht_calculate_checksum(bytes) = Running(bytes)[PacketSize]
         /\ Running(bytes) \in [0 .. PacketSize -> Word]
         /\ Running(bytes)[0] = 0
         /\ \A i \in 1 .. PacketSize :
              Running(bytes)[i] = RotateLeft((Running(bytes)[i - 1] + bytes[i]) % Modulus)
<1>1. PacketSize \in Nat /\ Len(bytes) = PacketSize /\ 0 \in Word
  BY LinkAssumption DEF Packets, Word
<1>2. \A i \in 1 .. PacketSize : bytes[i] \in Word
  BY LinkAssumption DEF Packets, Word
<1>3. \A i \in 1 .. PacketSize : \A c \in Word :
        RotateLeft((c + bytes[i]) % Modulus) \in Word
  BY <1>2, RotationLosesNothing, AdditionLosesNothing
<1> DEFINE step == [i \in 1 .. PacketSize |->
                      [c \in Word |-> RotateLeft((c + bytes[i]) % Modulus)]]
<1>4. step \in [1 .. PacketSize -> [Word -> Word]]
  BY <1>3
<1>5. \A i \in 1 .. PacketSize : \A c \in Word :
        step[i][c] = RotateLeft((c + bytes[i]) % Modulus)
  OBVIOUS
<1> HIDE DEF step
<1>6. PICK h \in [0 .. PacketSize -> Word] :
        /\ h[0] = 0
        /\ \A i \in 1 .. PacketSize : h[i] = step[i][h[i - 1]]
  <2>1. PICK g : Follows(g, PacketSize, Word, 0, step)
    BY <1>1, <1>4, RecursionDefines
  <2> QED BY <2>1 DEF Follows
<1>7. \A i \in 1 .. PacketSize : h[i] = RotateLeft((h[i - 1] + bytes[i]) % Modulus)
  <2> SUFFICES ASSUME NEW i \in 1 .. PacketSize
               PROVE  h[i] = RotateLeft((h[i - 1] + bytes[i]) % Modulus)
    OBVIOUS
  <2>1. i - 1 \in 0 .. PacketSize
    BY <1>1
  <2>2. h[i - 1] \in Word
    BY <2>1
  <2> QED BY <1>5, <1>6, <2>2
<1> DEFINE body(g) == [i \in 0 .. PacketSize |->
                         IF i = 0 THEN 0 ELSE RotateLeft((g[i - 1] + bytes[i]) % Modulus)]
<1>8. h = body(h)
  <2>1. \A i \in 0 .. PacketSize :
          h[i] = IF i = 0 THEN 0 ELSE RotateLeft((h[i - 1] + bytes[i]) % Modulus)
    BY <1>1, <1>6, <1>7
  <2> QED BY <2>1
<1> DEFINE run == Running(bytes)
<1>9. run = body(run)
  BY <1>1, <1>8 DEF Running
<1>10. ht_calculate_checksum(bytes) = run[PacketSize]
  BY <1>1 DEF ht_calculate_checksum, Running
<1> HIDE DEF run
<1>11. \A i \in 0 .. PacketSize :
        run[i] = IF i = 0 THEN 0 ELSE RotateLeft((run[i - 1] + bytes[i]) % Modulus)
  BY <1>9
<1>12. 0 .. PacketSize \subseteq {i \in 0 .. PacketSize : run[i] \in Word}
  <2> DEFINE T == {i \in 0 .. PacketSize : run[i] \in Word}
  <2>1. 0 \in T
    BY <1>1, <1>11
  <2>2. ASSUME NEW i \in 1 .. PacketSize, i - 1 \in T PROVE i \in T
    BY <1>1, <1>3, <1>11, <2>2
  <2> HIDE DEF T
  <2>3. 0 .. PacketSize \subseteq T
    BY <1>1, <2>1, <2>2, InductionUpTo
  <2> QED BY <2>3 DEF T
<1>13. run \in [0 .. PacketSize -> Word]
  BY <1>9, <1>12
<1>14. run[0] = 0 /\ \A i \in 1 .. PacketSize :
         run[i] = RotateLeft((run[i - 1] + bytes[i]) % Modulus)
  BY <1>1, <1>11
<1> QED BY <1>10, <1>13, <1>14 DEF run

\* Two packets that differ in one byte have different checksums.
LEMMA OneByteShows ==
  ASSUME NEW p \in Packets, NEW q \in Packets, NEW k \in 1 .. PacketSize, p[k] # q[k],
         \A j \in 1 .. PacketSize : j # k => p[j] = q[j]
  PROVE  ht_calculate_checksum(p) # ht_calculate_checksum(q)
<1> DEFINE a == Running(p)
           b == Running(q)
<1>1. /\ a \in [0 .. PacketSize -> Word] /\ a[0] = 0
      /\ \A i \in 1 .. PacketSize : a[i] = RotateLeft((a[i - 1] + p[i]) % Modulus)
      /\ ht_calculate_checksum(p) = a[PacketSize]
  BY RunningIs
<1>2. /\ b \in [0 .. PacketSize -> Word] /\ b[0] = 0
      /\ \A i \in 1 .. PacketSize : b[i] = RotateLeft((b[i - 1] + q[i]) % Modulus)
      /\ ht_calculate_checksum(q) = b[PacketSize]
  BY RunningIs
<1> HIDE DEF a, b
<1>3. PacketSize \in Nat
  BY LinkAssumption
<1>4. \A i \in 1 .. PacketSize : p[i] \in Word /\ q[i] \in Word
  BY LinkAssumption DEF Packets, Word
<1> DEFINE T == {i \in 0 .. PacketSize : (i < k => a[i] = b[i]) /\ (k <= i => a[i] # b[i])}
<1>5. 0 \in T
  BY <1>1, <1>2, <1>3
<1>6. ASSUME NEW i \in 1 .. PacketSize, i - 1 \in T PROVE i \in T
  <2>1. a[i - 1] \in Word /\ b[i - 1] \in Word /\ p[i] \in Word /\ q[i] \in Word
    BY <1>1, <1>2, <1>4, <1>6
  <2>2. /\ a[i] = RotateLeft((a[i - 1] + p[i]) % Modulus)
        /\ b[i] = RotateLeft((b[i - 1] + q[i]) % Modulus)
    BY <1>1, <1>2
  <2>3. (a[i - 1] + p[i]) % Modulus \in Word /\ (b[i - 1] + q[i]) % Modulus \in Word
    BY <2>1, AdditionLosesNothing
  <2>4. CASE i < k
    <3>1. a[i - 1] = b[i - 1] /\ p[i] = q[i]
      BY <1>6, <2>4
    <3> QED BY <2>2, <2>4, <3>1
  <2>5. CASE i = k
    <3>1. a[i - 1] = b[i - 1]
      BY <1>6, <2>5
    <3>2. p[i] # q[i]
      BY <2>5
    <3>3. /\ a[i - 1] + p[i] = p[i] + a[i - 1]
          /\ b[i - 1] + q[i] = q[i] + a[i - 1]
      BY <2>1, <3>1 DEF Word
    <3>4. (p[i] + a[i - 1]) % Modulus # (q[i] + a[i - 1]) % Modulus
      BY <2>1, <3>2, AdditionLosesNothing
    <3>41. (a[i - 1] + p[i]) % Modulus # (b[i - 1] + q[i]) % Modulus
      <4> HIDE DEF T
      <4> QED BY <3>1, <3>3, <3>4, Zenon
    <3>5. a[i] # b[i]
      BY <2>2, <2>3, <3>41, RotationLosesNothing
    <3> QED BY <2>5, <3>5
  <2>6. CASE i > k
    <3>1. a[i - 1] # b[i - 1] /\ p[i] = q[i]
      BY <1>6, <2>6
    <3>2. (a[i - 1] + p[i]) % Modulus # (b[i - 1] + q[i]) % Modulus
      BY <2>1, <3>1, AdditionLosesNothing
    <3>3. a[i] # b[i]
      BY <2>2, <2>3, <3>2, RotationLosesNothing
    <3> QED BY <2>6, <3>3
  <2> QED BY <2>4, <2>5, <2>6
<1>7. PacketSize \in T
  <2> HIDE DEF T
  <2>1. 0 .. PacketSize \subseteq T
    BY <1>3, <1>5, <1>6, InductionUpTo
  <2> QED BY <1>3, <2>1
<1> QED BY <1>1, <1>2, <1>3, <1>7

-----------------------------------------------------------------------------
(* ht_recv_packet() *)

\* A packet as it was sent, but for one byte at most.
Genuine ==
  {p \in [bytes : Packets, checksum : Word, original : Packets] :
     /\ p.checksum = ht_calculate_checksum(p.original)
     /\ \A j, k \in 1 .. PacketSize :
          p.bytes[j] # p.original[j] /\ p.bytes[k] # p.original[k] => j = k}

LinkInv ==
  /\ udp_queue \in Seq(Genuine \cup {Empty, Failure})
  /\ tcp_queue \in Seq(Genuine)
  /\ at = "verify" => in_hand \in Genuine
  /\ DamageFound

LEMMA SumIsWord ==
  ASSUME NEW bytes \in Packets PROVE ht_calculate_checksum(bytes) \in Word
<1>1. PacketSize \in 0 .. PacketSize
  BY LinkAssumption
<1> QED BY <1>1, RunningIs

LEMMA SentIsGenuine ==
  ASSUME NEW bytes \in Packets PROVE Sent(bytes) \in Genuine
BY SumIsWord DEF Sent, Genuine

\* What the checksum is for.
LEMMA SoundIsWhole ==
  ASSUME NEW p \in Genuine, Sound(p) PROVE p.bytes = p.original
<1>1. /\ p.bytes \in Packets /\ p.original \in Packets
      /\ ht_calculate_checksum(p.bytes) = ht_calculate_checksum(p.original)
      /\ \A j, k \in 1 .. PacketSize :
           p.bytes[j] # p.original[j] /\ p.bytes[k] # p.original[k] => j = k
  BY DEF Genuine, Sound
<1>2. \A k \in 1 .. PacketSize : p.bytes[k] = p.original[k]
  <2> SUFFICES ASSUME NEW k \in 1 .. PacketSize, p.bytes[k] # p.original[k] PROVE FALSE
    OBVIOUS
  <2>1. \A j \in 1 .. PacketSize : j # k => p.bytes[j] = p.original[j]
    BY <1>1
  <2> QED BY <1>1, <2>1, OneByteShows
<1>3. /\ p.bytes = [k \in 1 .. PacketSize |-> p.bytes[k]]
      /\ p.original = [k \in 1 .. PacketSize |-> p.original[k]]
  BY <1>1 DEF Packets
<1>4. [k \in 1 .. PacketSize |-> p.bytes[k]] = [k \in 1 .. PacketSize |-> p.original[k]]
  BY <1>2
<1> QED BY <1>3, <1>4

LEMMA LinkStep == LinkInv /\ [LinkNext]_linkVars => LinkInv'
<1> SUFFICES ASSUME LinkInv, [LinkNext]_linkVars PROVE LinkInv'
  OBVIOUS
<1> DEFINE Datagram == Genuine \cup {Empty, Failure}
<1>0. /\ udp_queue \in Seq(Datagram) /\ tcp_queue \in Seq(Genuine)
      /\ at = "verify" => in_hand \in Genuine
      /\ accepted.bytes = accepted.original
  BY DEF LinkInv, DamageFound
<1> SUFFICES /\ udp_queue' \in Seq(Datagram) /\ tcp_queue' \in Seq(Genuine)
             /\ at' = "verify" => in_hand' \in Genuine
             /\ accepted'.bytes = accepted'.original
  BY DEF LinkInv, DamageFound
<1>1. udp_queue # <<>> => Head(udp_queue) \in Datagram /\ Tail(udp_queue) \in Seq(Datagram)
  <2> HIDE DEF Datagram
  <2> QED BY <1>0, HeadTailProperties
<1>2. tcp_queue # <<>> => Head(tcp_queue) \in Genuine /\ Tail(tcp_queue) \in Seq(Genuine)
  BY <1>0, HeadTailProperties
<1>3. CASE UNCHANGED linkVars
  BY <1>0, <1>3 DEF linkVars, netVars
<1>4. CASE Receive \/ UdpEmpty \/ OtherCalls \/ TcpEnds
  BY <1>0, <1>4 DEF Receive, UdpEmpty, OtherCalls, TcpEnds, netVars
<1>5. CASE UdpZero \/ UdpFails
  <2>1. /\ udp_queue # <<>> /\ udp_queue' = Tail(udp_queue) /\ at' # "verify"
        /\ UNCHANGED <<accepted, tcp_queue>>
    BY <1>5 DEF UdpZero, UdpFails
  <2> QED BY <1>0, <1>1, <2>1
<1>6. CASE UdpPacket
  <2>1. /\ udp_queue # <<>> /\ udp_queue' = Tail(udp_queue)
        /\ Head(udp_queue) \notin {Empty, Failure} /\ in_hand' = Head(udp_queue)
        /\ UNCHANGED <<accepted, tcp_queue>>
    BY <1>6 DEF UdpPacket
  <2> QED BY <1>0, <1>1, <2>1
<1>7. CASE TcpNothing
  BY <1>0, <1>7 DEF TcpNothing
<1>8. CASE TcpPacket
  BY <1>0, <1>2, <1>8 DEF TcpPacket
<1>9. CASE Verify
  <2>1. UNCHANGED <<udp_queue, tcp_queue>> /\ at' # "verify" /\ in_hand \in Genuine
    BY <1>0, <1>9 DEF Verify, netVars
  <2>2. accepted' = accepted \/ (Sound(in_hand) /\ accepted' = in_hand)
    BY <1>9 DEF Verify
  <2> QED BY <1>0, <2>1, <2>2, SoundIsWhole
<1>10. CASE Arrives
  <2>1. UNCHANGED <<at, in_hand, accepted>>
    BY <1>10 DEF Arrives
  <2>2. \A event \in Datagram : Append(udp_queue, event) \in Seq(Datagram)
    <3> HIDE DEF Datagram
    <3> QED BY <1>0, AppendProperties
  <2>3. \A packet \in Genuine : Append(tcp_queue, packet) \in Seq(Genuine)
    BY <1>0, AppendProperties
  <2>4. \A bytes \in Packets : Sent(bytes) \in Genuine
    BY SentIsGenuine
  <2>5. /\ \/ udp_queue' = udp_queue
           \/ \E bytes \in Packets : udp_queue' = Append(udp_queue, Sent(bytes))
           \/ \E event \in {Empty, Failure} : udp_queue' = Append(udp_queue, event)
        /\ \/ tcp_queue' = tcp_queue
           \/ \E bytes \in Packets : tcp_queue' = Append(tcp_queue, Sent(bytes))
    BY <1>10 DEF Arrives
  <2> QED BY <1>0, <2>1, <2>2, <2>3, <2>4, <2>5
<1>11. CASE Damage
  <2>1. PICK i \in 1 .. Len(udp_queue), k \in 1 .. PacketSize, byte \in Byte :
          /\ udp_queue[i] \notin {Empty, Failure}
          /\ udp_queue[i].bytes = udp_queue[i].original
          /\ udp_queue' = [udp_queue EXCEPT ![i].bytes[k] = byte]
    BY <1>11 DEF Damage
  <2> DEFINE p == udp_queue[i]
             q == [p EXCEPT !.bytes[k] = byte]
  <2>2. p \in Genuine /\ p.bytes = p.original
    <3>1. p \in Datagram
      <4> HIDE DEF Datagram
      <4> QED BY <1>0, ElementOfSeq
    <3> QED BY <2>1, <3>1
  <2>3. udp_queue' = [udp_queue EXCEPT ![i] = q]
    BY <2>1
  <2> HIDE DEF p
  <2>4. q \in Genuine
    <3>1. /\ p \in [bytes : Packets, checksum : Word, original : Packets]
          /\ p.checksum = ht_calculate_checksum(p.original)
      BY <2>2 DEF Genuine
    <3>2. /\ [p.bytes EXCEPT ![k] = byte] \in Packets
          /\ \A j \in 1 .. PacketSize : j # k => [p.bytes EXCEPT ![k] = byte][j] = p.original[j]
      BY <2>2, <3>1 DEF Packets
    <3>3. /\ q \in [bytes : Packets, checksum : Word, original : Packets]
          /\ q.bytes = [p.bytes EXCEPT ![k] = byte]
          /\ q.checksum = p.checksum /\ q.original = p.original
      BY <3>1, <3>2
    <3> HIDE DEF q
    <3> QED BY <3>1, <3>2, <3>3 DEF Genuine
  <2> HIDE DEF q
  <2>5. udp_queue' \in Seq(Datagram)
    <3>1. q \in Datagram
      BY <2>4
    <3> HIDE DEF Datagram
    <3> QED BY <1>0, <2>3, <3>1, ExceptSeq
  <2>6. UNCHANGED <<at, in_hand, accepted, tcp_queue>>
    BY <1>11 DEF Damage
  <2> QED BY <1>0, <2>5, <2>6
<1> QED BY <1>3, <1>4, <1>5, <1>6, <1>7, <1>8, <1>9, <1>10, <1>11 DEF LinkNext, Receiving

(* No packet with a damaged byte passes the checksum of ht_calculate_checksum(), *)
(* whichever byte it is and whatever it became, for packets of any size: adding  *)
(* a byte and rotating lose nothing of a difference.                             *)
THEOREM DamageNeverAccepted == LinkSpec => []DamageFound
<1>1. LinkInit => LinkInv
  BY DEF LinkInit, LinkInv, DamageFound, NoPacket
<1>2. LinkInv => DamageFound
  BY DEF LinkInv
<1> QED BY <1>1, <1>2, LinkStep, PTL DEF LinkSpec

-----------------------------------------------------------------------------
(* The configuration *)

\* The chunks of a kind, and where the last of them stands.
Giving(key) == {c \in Chunk : Gives(c, key)}
Naming == {c \in Giving("transport_mode") : c.text \in ModeNames /\ ~c.remark}
LastIn(s, Kind) == LastOf({i \in 1 .. Len(s) : s[i] \in Kind})

LEMMA LastIs ==
  ASSUME NEW n \in Nat, NEW P \in SUBSET (1 .. n)
  PROVE  /\ LastOf(P) \in P \cup {0} /\ LastOf(P) \in 0 .. n
         /\ \A j \in P : j <= LastOf(P)
<1> DEFINE T == {m \in 0 .. n : \A Q \in SUBSET (1 .. m) :
                   \E i \in Q \cup {0} : \A j \in Q : j <= i}
<1>1. 0 \in T
  OBVIOUS
<1>2. ASSUME NEW m \in 1 .. n, m - 1 \in T PROVE m \in T
  <2> SUFFICES ASSUME NEW Q \in SUBSET (1 .. m)
               PROVE  \E i \in Q \cup {0} : \A j \in Q : j <= i
    OBVIOUS
  <2>1. CASE m \in Q
    <3>1. \A j \in Q : j <= m
      OBVIOUS
    <3> QED BY <2>1, <3>1
  <2>2. CASE m \notin Q
    <3>1. Q \in SUBSET (1 .. (m - 1))
      BY <2>2
    <3> QED BY <1>2, <3>1
  <2> QED BY <2>1, <2>2
<1>3. n \in T
  <2> HIDE DEF T
  <2>1. 0 .. n \subseteq T
    BY <1>1, <1>2, InductionUpTo
  <2> QED BY <2>1
<1>4. \E i \in P \cup {0} : \A j \in P : j <= i
  BY <1>3
<1>5. LastOf(P) \in P \cup {0} /\ \A j \in P : j <= LastOf(P)
  BY <1>4 DEF LastOf
<1>6. \A i \in P \cup {0} : i \in 0 .. n
  OBVIOUS
<1> QED BY <1>5, <1>6

\* A piece read is the last of its kinds, and of the others nothing changes.
LEMMA ReadIsLast ==
  ASSUME NEW s \in Seq(Chunk), NEW c \in Chunk, NEW Kind
  PROVE  /\ LastIn(s, Kind) \in 0 .. Len(s)
         /\ LastIn(Append(s, c), Kind) = IF c \in Kind THEN Len(s) + 1 ELSE LastIn(s, Kind)
         /\ Append(s, c)[Len(s) + 1] = c
         /\ \A i \in 1 .. Len(s) : Append(s, c)[i] = s[i]
<1> DEFINE P == {i \in 1 .. Len(s) : s[i] \in Kind}
           Q == {i \in 1 .. Len(Append(s, c)) : Append(s, c)[i] \in Kind}
<1>1. /\ Len(s) \in Nat /\ Len(Append(s, c)) = Len(s) + 1
      /\ Append(s, c)[Len(s) + 1] = c
      /\ \A i \in 1 .. Len(s) : Append(s, c)[i] = s[i]
  BY AppendProperties, LenProperties
<1>2. P \in SUBSET (1 .. Len(s)) /\ Q \in SUBSET (1 .. (Len(s) + 1))
  BY <1>1
<1>3. Q = IF c \in Kind THEN P \cup {Len(s) + 1} ELSE P
  BY <1>1
<1> HIDE DEF P, Q
<1>4. LastOf(P) \in 0 .. Len(s)
  BY <1>1, <1>2, LastIs
<1>5. LastOf(Q) \in 0 .. (Len(s) + 1) /\ \A j \in Q : j <= LastOf(Q)
  <2>1. Len(s) + 1 \in Nat
    BY <1>1
  <2> QED BY <1>2, <2>1, LastIs
<1>6. c \in Kind => LastOf(Q) = Len(s) + 1
  <2> SUFFICES ASSUME c \in Kind PROVE LastOf(Q) = Len(s) + 1
    OBVIOUS
  <2>1. Len(s) + 1 \in Q
    BY <1>3
  <2>2. Len(s) + 1 <= LastOf(Q) /\ LastOf(Q) \in 0 .. (Len(s) + 1)
    BY <1>5, <2>1
  <2>3. LastOf(Q) \in Nat /\ LastOf(Q) <= Len(s) + 1
    BY <1>1, <2>2
  <2> QED BY <1>1, <2>2, <2>3
<1>7. LastIn(s, Kind) = LastOf(P) /\ LastIn(Append(s, c), Kind) = LastOf(Q)
  BY DEF LastIn, P, Q
<1>8. LastOf(Q) = IF c \in Kind THEN Len(s) + 1 ELSE LastOf(P)
  BY <1>3, <1>6
<1> QED BY <1>1, <1>4, <1>7, <1>8

\* What LastLineWins says of each value, of any pieces read.
AddressIs(c, from, s) ==
  c.target_ip = LET i == LastIn(s, Giving("target_ip"))
                IN IF i > 0 THEN Kept(s[i].text, s[i].remark)
                   ELSE IF from # "none" THEN Kept(from, FALSE)
                   ELSE Defaults.target_ip
CountIs(c, s) ==
  c.max_clients = LET i == LastIn(s, Giving("max_clients"))
                  IN IF i > 0 THEN WholeOf[s[i].text] ELSE Defaults.max_clients
ShareIs(c, s) ==
  c.udp_preference = LET i == LastIn(s, Giving("udp_preference"))
                     IN IF i > 0 THEN Clamped(ShareOf[s[i].text])
                        ELSE Defaults.udp_preference
ModeIs(c, s) ==
  c.transport_mode = LET i == LastIn(s, Naming)
                     IN IF i > 0 THEN s[i].text ELSE Defaults.transport_mode

Configs == [target_ip      : [text : Texts \cup {"default"}, whole : BOOLEAN,
                              remark : BOOLEAN],
            max_clients    : Int,
            transport_mode : ModeNames,
            udp_preference : (0 .. 10) \cup {NaN}]

ConfigInv ==
  /\ stage \in {"start", "loading", "loaded", "exit", "undefined"}
  /\ config \in Configs
  /\ chunks \in Seq(Chunk)
  /\ argument \in Texts \cup {"none"}
  /\ stage = "start" => config = Defaults /\ argument = "none" /\ chunks = <<>>
  /\ AddressIs(config, argument, chunks) /\ CountIs(config, chunks)
  /\ ShareIs(config, chunks) /\ ModeIs(config, chunks)

LEMMA NothingRead == \A Kind : LastIn(<<>>, Kind) = 0
<1> SUFFICES ASSUME NEW Kind PROVE LastIn(<<>>, Kind) = 0
  OBVIOUS
<1>1. {i \in 1 .. Len(<<>>) : <<>>[i] \in Kind} = {}
  OBVIOUS
<1> QED BY <1>1 DEF LastIn, LastOf

\* The clamp leaves a number between 0 and 1, and a NaN as it is.
LEMMA ClampedIs ==
  ASSUME NEW share \in Int \cup {NaN}
  PROVE  /\ Clamped(share) \in (0 .. 10) \cup {NaN}
         /\ share # NaN => Clamped(share) \in 0 .. 10
<1>1. NaN \notin Int
  BY ConfigAssumption
<1>2. CASE share = NaN
  BY <1>2 DEF Clamped, Less
<1>3. CASE share \in Int
  <2>1. /\ Less(share, 0) <=> share < 0
        /\ Less(10, share) <=> 10 < share
    BY <1>1, <1>3 DEF Less
  <2> QED BY <1>3, <2>1 DEF Clamped
<1> QED BY <1>2, <1>3

LEMMA KeptIs ==
  ASSUME NEW text \in Texts, NEW remark \in BOOLEAN
  PROVE  Kept(text, remark) \in [text : Texts \cup {"default"}, whole : BOOLEAN,
                                 remark : BOOLEAN]
BY DEF Kept

\* What a piece does to the configuration.
Read(c, chunk) == IF chunk.form = "assignment" THEN Assigned(c, chunk) ELSE c

\* A value is changed by the pieces that give it one, and only by them.
LEMMA AssignedIs ==
  ASSUME NEW c \in Configs, NEW chunk \in Chunk
  PROVE  /\ Read(c, chunk) \in Configs
         /\ Read(c, chunk).target_ip =
              IF chunk \in Giving("target_ip")
              THEN Kept(chunk.text, chunk.remark) ELSE c.target_ip
         /\ Read(c, chunk).max_clients =
              IF chunk \in Giving("max_clients") THEN WholeOf[chunk.text] ELSE c.max_clients
         /\ Read(c, chunk).udp_preference =
              IF chunk \in Giving("udp_preference")
              THEN Clamped(ShareOf[chunk.text]) ELSE c.udp_preference
         /\ Read(c, chunk).transport_mode =
              IF chunk \in Naming THEN chunk.text ELSE c.transport_mode
<1>1. CASE chunk.form # "assignment"
  BY <1>1 DEF Read, Giving, Gives, Naming
<1>2. CASE chunk.form = "assignment"
  <2>0. Kept(chunk.text, chunk.remark) \in [text : Texts \cup {"default"}, whole : BOOLEAN,
                                           remark : BOOLEAN]
    BY <1>2, KeptIs DEF Chunk
  <2>1. /\ chunk.text \in Texts /\ chunk.remark \in BOOLEAN
        /\ chunk.key \in {"target_ip", "max_clients", "transport_mode",
                          "udp_preference"}
    BY <1>2 DEF Chunk
  <2>2. /\ WholeOf[chunk.text] \in Int
        /\ Clamped(ShareOf[chunk.text]) \in (0 .. 10) \cup {NaN}
    <3>1. WholeOf[chunk.text] \in Int /\ ShareOf[chunk.text] \in Int \cup {NaN}
      BY <2>1, ConfigAssumption
    <3> QED BY <3>1, ClampedIs
  <2>3. \A key : chunk \in Giving(key) <=> chunk.key = key
    BY <1>2 DEF Giving, Gives
  <2>4. chunk \in Naming <=> /\ chunk.key = "transport_mode"
                             /\ chunk.text \in ModeNames /\ ~chunk.remark
    BY <2>3 DEF Naming
  <2>5. CASE chunk.key = "target_ip"
    <3>1. Read(c, chunk) =
            [c EXCEPT !.target_ip = Kept(chunk.text, chunk.remark)]
      BY <1>2, <2>5 DEF Read, Assigned
    <3> QED BY <2>0, <2>3, <2>4, <2>5, <3>1 DEF Configs
  <2>6. CASE chunk.key = "max_clients"
    <3>1. Read(c, chunk) = [c EXCEPT !.max_clients = WholeOf[chunk.text]]
      BY <1>2, <2>6 DEF Read, Assigned
    <3> QED BY <2>2, <2>3, <2>4, <2>6, <3>1 DEF Configs
  <2>7. CASE chunk.key = "transport_mode"
    <3>1. Read(c, chunk) =
            [c EXCEPT !.transport_mode = ModeNamed(@, chunk.text, chunk.remark)]
      BY <1>2, <2>7 DEF Read, Assigned
    <3> QED BY <2>1, <2>3, <2>4, <2>7, <3>1 DEF Configs, ModeNamed
  <2>8. CASE chunk.key = "udp_preference"
    <3>1. Read(c, chunk) = [c EXCEPT !.udp_preference = Clamped(ShareOf[chunk.text])]
      BY <1>2, <2>8 DEF Read, Assigned
    <3> HIDE DEF Clamped
    <3> QED BY <2>2, <2>3, <2>4, <2>8, <3>1 DEF Configs
  <2> QED BY <2>1, <2>5, <2>6, <2>7, <2>8
<1> QED BY <1>1, <1>2

LEMMA ReadKeeps ==
  ASSUME NEW c \in Configs, NEW from, NEW s \in Seq(Chunk), NEW chunk \in Chunk,
         AddressIs(c, from, s), CountIs(c, s), ShareIs(c, s), ModeIs(c, s)
  PROVE  /\ AddressIs(Read(c, chunk), from, Append(s, chunk))
         /\ CountIs(Read(c, chunk), Append(s, chunk))
         /\ ShareIs(Read(c, chunk), Append(s, chunk))
         /\ ModeIs(Read(c, chunk), Append(s, chunk))
<1> DEFINE t == Append(s, chunk)
           d == Read(c, chunk)
<1>1. /\ t[Len(s) + 1] = chunk /\ \A i \in 1 .. Len(s) : t[i] = s[i]
      /\ Len(s) \in Nat
  BY ReadIsLast, LenProperties
<1>2. \A Kind : /\ LastIn(s, Kind) \in 0 .. Len(s)
                /\ LastIn(t, Kind) = IF chunk \in Kind THEN Len(s) + 1 ELSE LastIn(s, Kind)
  BY ReadIsLast
<1>3. /\ d.target_ip = IF chunk \in Giving("target_ip")
                       THEN Kept(chunk.text, chunk.remark) ELSE c.target_ip
      /\ d.max_clients = IF chunk \in Giving("max_clients")
                         THEN WholeOf[chunk.text] ELSE c.max_clients
      /\ d.udp_preference = IF chunk \in Giving("udp_preference")
                            THEN Clamped(ShareOf[chunk.text]) ELSE c.udp_preference
      /\ d.transport_mode = IF chunk \in Naming THEN chunk.text ELSE c.transport_mode
  BY AssignedIs
<1> HIDE DEF t, d
\* Where the last piece of a kind stands in the longer list, and what it is.
<1>4. ASSUME NEW Kind
      PROVE  \/ /\ chunk \in Kind /\ LastIn(t, Kind) > 0
                /\ t[LastIn(t, Kind)] = chunk
             \/ /\ chunk \notin Kind /\ LastIn(t, Kind) = LastIn(s, Kind)
                /\ LastIn(s, Kind) > 0 => t[LastIn(s, Kind)] = s[LastIn(s, Kind)]
  BY <1>1, <1>2
<1>5. AddressIs(d, from, t)
  BY <1>3, <1>4 DEF AddressIs
<1>6. CountIs(d, t)
  BY <1>3, <1>4 DEF CountIs
<1>7. ShareIs(d, t)
  BY <1>3, <1>4 DEF ShareIs
<1>8. ModeIs(d, t)
  BY <1>3, <1>4 DEF ModeIs
<1> QED BY <1>5, <1>6, <1>7, <1>8 DEF t, d

LEMMA AddressOfArgument ==
  ASSUME NEW c, NEW from, NEW s,
         LastIn(s, Giving("target_ip")) = 0, from # "none",
         c.target_ip = Kept(from, FALSE)
  PROVE  AddressIs(c, from, s)
<1> DEFINE last == LastIn(s, Giving("target_ip"))
<1>1. ~(last > 0) /\ last = 0
  OBVIOUS
<1>2. AddressIs(c, from, s) <=>
        c.target_ip = IF last > 0 THEN Kept(s[last].text, s[last].remark)
                      ELSE IF from # "none" THEN Kept(from, FALSE)
                      ELSE Defaults.target_ip
  BY DEF AddressIs
<1> HIDE DEF last
<1> QED BY <1>1, <1>2

LEMMA ConfigStep == ConfigInv /\ [ConfigNext]_configVars => ConfigInv'
<1> SUFFICES ASSUME ConfigInv, [ConfigNext]_configVars PROVE ConfigInv'
  OBVIOUS
<1>1. CASE UNCHANGED configVars
  BY <1>1 DEF configVars, ConfigInv
<1>2. CASE CommandLine
  <2>1. /\ stage' = "loading" /\ chunks' = <<>> /\ chunks = <<>>
        /\ config = Defaults /\ argument = "none" /\ config \in Configs
    BY <1>2 DEF CommandLine, ConfigInv
  <2>2. CASE UNCHANGED <<config, argument>>
    BY <2>1, <2>2 DEF ConfigInv
  <2>3. ASSUME NEW text \in Texts, argument' = text,
               config' = [config EXCEPT !.target_ip = Kept(text, FALSE)]
        PROVE  ConfigInv'
    <3>1. /\ config' \in Configs
          /\ config'.target_ip = Kept(text, FALSE)
          /\ config'.max_clients = config.max_clients
          /\ config'.udp_preference = config.udp_preference
          /\ config'.transport_mode = config.transport_mode
      <4>1. Kept(text, FALSE) \in [text : Texts \cup {"default"}, whole : BOOLEAN,
                                   remark : BOOLEAN]
        BY KeptIs
      <4> QED BY <2>1, <2>3, <4>1 DEF Configs
    <3>2. text # "none"
      BY ConfigAssumption
    <3>3. AddressIs(config', argument', chunks')
      <4>1. LastIn(chunks', Giving("target_ip")) = 0
        BY <2>1, NothingRead
      <4>2. config'.target_ip = Kept(argument', FALSE) /\ argument' # "none"
        BY <2>3, <3>1, <3>2
      <4> QED BY <4>1, <4>2, AddressOfArgument
    <3>4. CountIs(config', chunks') /\ ShareIs(config', chunks') /\ ModeIs(config', chunks')
      BY <2>1, <3>1, NothingRead DEF CountIs, ShareIs, ModeIs
    <3>5. chunks' \in Seq(Chunk)
      BY <2>1, EmptySeq
    <3> QED BY <2>1, <2>3, <3>1, <3>3, <3>4, <3>5 DEF ConfigInv
  <2> QED BY <1>2, <2>2, <2>3 DEF CommandLine
<1>3. CASE ReadChunk
  <2>1. PICK chunk \in Chunk : config' = Read(config, chunk) /\ chunks' = Append(chunks, chunk)
    BY <1>3 DEF ReadChunk, Read
  <2>2. /\ config \in Configs /\ chunks \in Seq(Chunk) /\ stage' = "loading"
        /\ argument' = argument /\ argument \in Texts \cup {"none"}
        /\ AddressIs(config, argument, chunks) /\ CountIs(config, chunks)
        /\ ShareIs(config, chunks) /\ ModeIs(config, chunks)
    BY <1>3 DEF ReadChunk, ConfigInv
  <2>3. /\ AddressIs(config', argument', chunks') /\ CountIs(config', chunks')
        /\ ShareIs(config', chunks') /\ ModeIs(config', chunks')
    BY <2>1, <2>2, ReadKeeps
  <2>4. config' \in Configs /\ chunks' \in Seq(Chunk)
    BY <2>1, <2>2, AssignedIs, AppendProperties
  <2> QED BY <2>2, <2>3, <2>4 DEF ConfigInv
<1>4. CASE LoadEnds
  BY <1>4 DEF LoadEnds, ConfigInv
<1>5. CASE CommandLineOverruns
  BY <1>5 DEF CommandLineOverruns, ConfigInv
<1> QED BY <1>1, <1>2, <1>3, <1>4, <1>5 DEF ConfigNext

LEMMA ConfigInvariant == ConfigSpec => []ConfigInv
<1>1. ConfigInit => ConfigInv
  <2> SUFFICES ASSUME ConfigInit PROVE ConfigInv
    OBVIOUS
  <2>1. stage = "start" /\ config = Defaults /\ argument = "none" /\ chunks = <<>>
    BY DEF ConfigInit
  <2>2. Defaults \in Configs /\ chunks \in Seq(Chunk)
    BY <2>1, EmptySeq DEF Defaults, Configs, ModeNames
  <2>3. AddressIs(config, argument, chunks) /\ CountIs(config, chunks)
        /\ ShareIs(config, chunks) /\ ModeIs(config, chunks)
    BY <2>1, NothingRead DEF AddressIs, CountIs, ShareIs, ModeIs
  <2> QED BY <2>1, <2>2, <2>3 DEF ConfigInv
<1> QED BY <1>1, ConfigStep, PTL DEF ConfigSpec

(* Whatever the lines of the file, load_config() never stores an unknown mode,  *)
(* and leaves a preference between 0 and 1 unless atof() read a NaN.            *)
THEOREM ConfigTyped == ConfigSpec => []ConfigTypeOK
<1>1. ConfigInv => ConfigTypeOK
  BY DEF ConfigInv, ConfigTypeOK, Configs
<1> QED BY <1>1, ConfigInvariant, PTL

(* Each value is what the code takes from the last line that gives it one, for  *)
(* a file of any length: an address what fits of it, a preference what the      *)
(* clamp leaves of it, NaN included; what stands between, in error or unknown,  *)
(* changes nothing.                                                             *)
THEOREM LastLinesWin == ConfigSpec => []LastLineWins
<1>1. ConfigInv => LastLineWins
  <2> SUFFICES ASSUME ConfigInv PROVE LastLineWins
    OBVIOUS
  <2>1. \A i \in 1 .. Len(chunks) : chunks[i] \in Chunk
    BY ElementOfSeq DEF ConfigInv
  <2>2. ASSUME NEW key PROVE LastFor(key) = LastIn(chunks, Giving(key))
    <3>1. {i \in 1 .. Len(chunks) : Gives(chunks[i], key)}
            = {i \in 1 .. Len(chunks) : chunks[i] \in Giving(key)}
      BY <2>1 DEF Giving
    <3> QED BY <3>1 DEF LastFor, LastIn
  <2>3. LastOf({i \in 1 .. Len(chunks) :
                  /\ Gives(chunks[i], "transport_mode")
                  /\ chunks[i].text \in ModeNames /\ ~chunks[i].remark})
          = LastIn(chunks, Naming)
    <3>1. {i \in 1 .. Len(chunks) :
             /\ Gives(chunks[i], "transport_mode")
             /\ chunks[i].text \in ModeNames /\ ~chunks[i].remark}
            = {i \in 1 .. Len(chunks) : chunks[i] \in Naming}
      BY <2>1 DEF Giving, Naming
    <3> QED BY <3>1 DEF LastIn
  <2> QED BY <2>2, <2>3 DEF LastLineWins, ConfigInv, AddressIs, CountIs, ShareIs, ModeIs
<1> QED BY <1>1, ConfigInvariant, PTL

-----------------------------------------------------------------------------
(* The books of the connections *)

Book == [sent : Nat, received : Nat, client : Nat, standby : {"no", "ready", "lost"}]
Move == [client : Nat, way : Directions]

MovedIn(led, Clients, way) ==
  Cardinality({k \in 1 .. Len(led) : led[k].client \in Clients /\ led[k].way = way})

Charged(e, led) == \A way \in Directions : e[way] = MovedIn(led, {e.client}, way)

\* The entries and the ledger agree, after n clients.  No two entries serve one
\* client: what is written for one is written for no other.
Agree(es, led, n) ==
  /\ n \in Nat /\ es \in Seq(Book) /\ led \in Seq(Move)
  /\ \A k \in 1 .. Len(led) : led[k].client <= n
  /\ \A i \in 1 .. Len(es) : es[i].client <= n /\ Charged(es[i], led)
  /\ \A i, j \in 1 .. Len(es) : i # j => es[i].client # es[j].client

BooksInv ==
  /\ Agree(entries, ledger, arrivals)
  /\ closed \in Nat
  /\ DOMAIN stats = {"total_connections", "active_connections", "sent", "received"}
  /\ stats.total_connections = Len(entries) + closed

LEMMA NobodyYet ==
  ASSUME NEW es, NEW led, NEW n, Agree(es, led, n)
  PROVE  \A way \in Directions : MovedIn(led, {n + 1}, way) = 0
<1>1. /\ n \in Nat
      /\ \A k \in 1 .. Len(led) : led[k].client <= n /\ led[k].client \in Nat
  <2>1. \A k \in 1 .. Len(led) : led[k] \in Move
    BY ElementOfSeq DEF Agree
  <2> QED BY <2>1 DEF Agree, Move
<1> SUFFICES ASSUME NEW way \in Directions PROVE MovedIn(led, {n + 1}, way) = 0
  OBVIOUS
<1>2. {k \in 1 .. Len(led) : led[k].client \in {n + 1} /\ led[k].way = way} = {}
  BY <1>1
<1> QED BY <1>2, FS_EmptySet DEF MovedIn

LEMMA AgreeIs ==
  ASSUME NEW es, NEW led, NEW n, Agree(es, led, n)
  PROVE  /\ Len(es) \in Nat /\ Len(led) \in Nat
         /\ \A i \in 1 .. Len(es) : es[i] \in Book
         /\ \A k \in 1 .. Len(led) : led[k] \in Move
BY ElementOfSeq, LenProperties DEF Agree

LEMMA AcceptAgrees ==
  ASSUME NEW es, NEW led, NEW n, Agree(es, led, n)
  PROVE  Agree(Append(es, NewBook(n + 1)), led, n + 1)
<1> DEFINE e == NewBook(n + 1)
           fs == Append(es, e)
<1>1. n \in Nat /\ es \in Seq(Book) /\ e \in Book
  BY DEF Agree, NewBook, Book
<1>2. e.client = n + 1 /\ e.sent = 0 /\ e.received = 0
  BY DEF NewBook
<1> HIDE DEF e
<1>3. /\ fs \in Seq(Book) /\ Len(fs) = Len(es) + 1 /\ fs[Len(es) + 1] = e
      /\ \A i \in 1 .. Len(es) : fs[i] = es[i]
  BY <1>1, AppendProperties
<1> HIDE DEF fs
<1>4. \A k \in 1 .. Len(led) : led[k].client <= n + 1
  <2>1. \A k \in 1 .. Len(led) : led[k].client \in Nat /\ led[k].client <= n
    BY AgreeIs DEF Agree, Move
  <2> QED BY <1>1, <2>1
<1>5. Charged(e, led)
  <2>1. MovedIn(led, {e.client}, "sent") = 0 /\ MovedIn(led, {e.client}, "received") = 0
    BY <1>2, NobodyYet DEF Directions
  <2> QED BY <1>2, <2>1 DEF Charged, Directions
<1>6. \A i \in 1 .. Len(es) : /\ es[i].client \in Nat /\ es[i].client <= n
                              /\ Charged(es[i], led)
  BY AgreeIs DEF Agree, Book
<1>7. Len(es) \in Nat /\ \A i \in 1 .. Len(fs) : i \in 1 .. Len(es) \/ i = Len(es) + 1
  BY <1>3, AgreeIs
<1>8. ASSUME NEW i \in 1 .. Len(fs) PROVE fs[i].client <= n + 1 /\ Charged(fs[i], led)
  <2>1. CASE i \in 1 .. Len(es)
    BY <1>1, <1>3, <1>6, <2>1
  <2>2. CASE i = Len(es) + 1
    BY <1>1, <1>2, <1>3, <1>5, <2>2
  <2> QED BY <1>7, <2>1, <2>2
<1>9. ASSUME NEW i \in 1 .. Len(fs), NEW j \in 1 .. Len(fs), i # j
      PROVE  fs[i].client # fs[j].client
  <2>1. CASE i \in 1 .. Len(es) /\ j \in 1 .. Len(es)
    BY <1>3, <1>9, <2>1 DEF Agree
  <2>2. \A k \in 1 .. Len(es) : es[k].client # n + 1
    BY <1>1, <1>6
  <2>3. CASE i = Len(es) + 1
    BY <1>2, <1>3, <1>7, <1>9, <2>2, <2>3
  <2>4. CASE j = Len(es) + 1
    BY <1>2, <1>3, <1>7, <1>9, <2>2, <2>4
  <2> QED BY <1>7, <2>1, <2>3, <2>4
<1>10. n + 1 \in Nat /\ led \in Seq(Move)
  BY <1>1 DEF Agree
<1>11. Agree(fs, led, n + 1)
  BY <1>3, <1>4, <1>8, <1>9, <1>10 DEF Agree
<1> QED BY <1>11 DEF fs, e

\* One entry written anew.
LEMMA WriteAgrees ==
  ASSUME NEW es, NEW led, NEW n, Agree(es, led, n), NEW m \in Nat, n <= m,
         NEW i \in 1 .. Len(es), NEW e \in Book,
         Charged(e, led), e.client <= m,
         \A j \in 1 .. Len(es) : j # i => e.client # es[j].client
  PROVE  Agree([es EXCEPT ![i] = e], led, m)
<1> DEFINE fs == [es EXCEPT ![i] = e]
<1>1. n \in Nat /\ es \in Seq(Book) /\ led \in Seq(Move)
  BY DEF Agree
<1>2. /\ fs \in Seq(Book) /\ Len(fs) = Len(es) /\ fs[i] = e
      /\ \A j \in 1 .. Len(es) : j # i => fs[j] = es[j]
  BY <1>1, ExceptSeq
<1> HIDE DEF fs
<1>3. \A k \in 1 .. Len(led) : led[k].client <= m
  <2>1. \A k \in 1 .. Len(led) : led[k].client \in Nat /\ led[k].client <= n
    BY AgreeIs DEF Agree, Move
  <2> QED BY <1>1, <2>1
<1>4. \A j \in 1 .. Len(es) : es[j].client <= m /\ Charged(es[j], led)
  <2>1. \A j \in 1 .. Len(es) : es[j].client \in Nat /\ es[j].client <= n
    BY AgreeIs DEF Agree, Book
  <2>2. \A j \in 1 .. Len(es) : Charged(es[j], led)
    BY DEF Agree
  <2> QED BY <1>1, <2>1, <2>2
<1>6. \A j \in 1 .. Len(fs) : fs[j].client <= m /\ Charged(fs[j], led)
  BY <1>2, <1>4
<1>7. \A j, k \in 1 .. Len(fs) : j # k => fs[j].client # fs[k].client
  <2>1. \A j, k \in 1 .. Len(es) : j # k => es[j].client # es[k].client
    BY DEF Agree
  <2> QED BY <1>2, <2>1
<1>8. Agree(fs, led, m)
  BY <1>1, <1>2, <1>3, <1>6, <1>7 DEF Agree
<1> QED BY <1>8 DEF fs

\* What one more byte in the ledger does to the counts.
LEMMA OneMore ==
  ASSUME NEW led \in Seq(Move), NEW move \in Move, NEW Clients, NEW way
  PROVE  /\ MovedIn(led, Clients, way) \in Nat
         /\ MovedIn(Append(led, move), Clients, way) =
              IF move.client \in Clients /\ move.way = way
              THEN MovedIn(led, Clients, way) + 1 ELSE MovedIn(led, Clients, way)
<1> DEFINE P == {k \in 1 .. Len(led) : led[k].client \in Clients /\ led[k].way = way}
           longer == Append(led, move)
           Q == {k \in 1 .. Len(longer) : longer[k].client \in Clients /\ longer[k].way = way}
<1>1. /\ Len(led) \in Nat /\ Len(longer) = Len(led) + 1 /\ longer[Len(led) + 1] = move
      /\ \A k \in 1 .. Len(led) : longer[k] = led[k]
  BY AppendProperties, LenProperties
<1>2. IsFiniteSet(P)
  <2>1. IsFiniteSet(1 .. Len(led)) /\ P \in SUBSET (1 .. Len(led))
    BY <1>1, FS_Interval
  <2> HIDE DEF P
  <2> QED BY <2>1, FS_Subset
<1> HIDE DEF longer
<1>3. Len(led) + 1 \notin P
  BY <1>1
<1>4. Q = IF move.client \in Clients /\ move.way = way THEN P \cup {Len(led) + 1} ELSE P
  BY <1>1
<1>5. MovedIn(led, Clients, way) = Cardinality(P)
      /\ MovedIn(longer, Clients, way) = Cardinality(Q)
  BY DEF MovedIn
<1> HIDE DEF P, Q
<1>6. Cardinality(P) \in Nat /\ Cardinality(P \cup {Len(led) + 1}) = Cardinality(P) + 1
  BY <1>2, <1>3, FS_AddElement, FS_CardinalityType
<1>7. Cardinality(Q) = IF move.client \in Clients /\ move.way = way
                       THEN Cardinality(P) + 1 ELSE Cardinality(P)
  BY <1>4, <1>6
<1> QED BY <1>5, <1>6, <1>7 DEF longer

LEMMA TransferAgrees ==
  ASSUME NEW es, NEW led, NEW n, Agree(es, led, n),
         NEW i \in 1 .. Len(es), NEW way \in Directions, NEW e \in Book, NEW move \in Move,
         move.client = es[i].client, move.way = way, e.client = es[i].client,
         \A w \in Directions : e[w] = IF w = way THEN es[i][w] + 1 ELSE es[i][w]
  PROVE  Agree([es EXCEPT ![i] = e], Append(led, move), n)
<1> DEFINE fs == [es EXCEPT ![i] = e]
           longer == Append(led, move)
<1>1. n \in Nat /\ es \in Seq(Book) /\ led \in Seq(Move) /\ Len(led) \in Nat
  BY AgreeIs DEF Agree
<1>2. /\ fs \in Seq(Book) /\ Len(fs) = Len(es) /\ fs[i] = e
      /\ \A j \in 1 .. Len(es) : j # i => fs[j] = es[j]
  BY <1>1, ExceptSeq
<1>3. /\ longer \in Seq(Move) /\ Len(longer) = Len(led) + 1
      /\ longer[Len(led) + 1] = move /\ \A k \in 1 .. Len(led) : longer[k] = led[k]
  BY <1>1, AppendProperties
<1>4. \A Clients, w : /\ MovedIn(led, Clients, w) \in Nat
                      /\ MovedIn(longer, Clients, w) =
                           IF move.client \in Clients /\ move.way = w
                           THEN MovedIn(led, Clients, w) + 1 ELSE MovedIn(led, Clients, w)
  BY <1>1, OneMore
<1> HIDE DEF fs, longer
<1>6. \A j \in 1 .. Len(es) : /\ es[j] \in Book /\ es[j].client <= n
                              /\ Charged(es[j], led)
  BY AgreeIs DEF Agree
<1>7. \A j, k \in 1 .. Len(es) : j # k => es[j].client # es[k].client
  BY DEF Agree
<1>8. \A k \in 1 .. Len(longer) : longer[k].client <= n
  <2>1. \A k \in 1 .. Len(led) : led[k].client <= n
    BY DEF Agree
  <2>2. move.client <= n
    BY <1>6
  <2>3. \A k \in 1 .. Len(longer) : k \in 1 .. Len(led) \/ k = Len(led) + 1
    BY <1>1, <1>3
  <2> QED BY <1>3, <2>1, <2>2, <2>3
<1>9. Charged(e, longer)
  <2> SUFFICES ASSUME NEW w \in Directions PROVE e[w] = MovedIn(longer, {e.client}, w)
    BY DEF Charged
  <2>1. es[i][w] = MovedIn(led, {e.client}, w)
    <3>1. es[i][w] = MovedIn(led, {es[i].client}, w)
      <4>1. Charged(es[i], led)
        BY <1>6
      <4> QED BY <4>1 DEF Charged
    <3> QED BY <3>1
  <2>2. MovedIn(longer, {e.client}, w) =
          IF w = way THEN MovedIn(led, {e.client}, w) + 1 ELSE MovedIn(led, {e.client}, w)
    BY <1>4
  <2> QED BY <2>1, <2>2
<1>11. ASSUME NEW j \in 1 .. Len(es), j # i PROVE Charged(es[j], longer)
  <2>1. move.client # es[j].client
    BY <1>7, <1>11
  <2>2. \A w \in Directions : MovedIn(longer, {es[j].client}, w) = MovedIn(led, {es[j].client}, w)
    BY <1>4, <2>1
  <2> QED BY <1>6, <2>2 DEF Charged
<1>12. \A j \in 1 .. Len(fs) : fs[j].client <= n /\ Charged(fs[j], longer)
  BY <1>2, <1>6, <1>9, <1>11
<1>13. \A j, k \in 1 .. Len(fs) : j # k => fs[j].client # fs[k].client
  BY <1>2, <1>7
<1>14. Agree(fs, longer, n)
  BY <1>1, <1>2, <1>3, <1>8, <1>12, <1>13 DEF Agree
<1> QED BY <1>14 DEF fs, longer

LEMMA CleanupAgrees ==
  ASSUME NEW es, NEW led, NEW n, Agree(es, led, n), NEW i \in 1 .. Len(es),
         NEW fs, fs = [j \in 1 .. (Len(es) - 1) |-> IF j < i THEN es[j] ELSE es[j + 1]]
  PROVE  Agree(fs, led, n) /\ Len(fs) = Len(es) - 1
<1> DEFINE from(j) == IF j < i THEN j ELSE j + 1
<1>1. Len(es) \in Nat /\ Len(es) - 1 \in Nat /\ \A j \in 1 .. Len(es) : es[j] \in Book
  BY AgreeIs
<1>2. \A j \in 1 .. (Len(es) - 1) : from(j) \in 1 .. Len(es) /\ fs[j] = es[from(j)]
  BY <1>1
<1>3. fs \in Seq(Book) /\ Len(fs) = Len(es) - 1
  <2>1. fs \in [1 .. (Len(es) - 1) -> Book]
    BY <1>1, <1>2
  <2>2. fs \in Seq(Book)
    BY <1>1, <2>1, SeqDef
  <2> QED BY <1>1, <2>1, <2>2, LenProperties
<1>4. \A j, k \in 1 .. (Len(es) - 1) : j # k => from(j) # from(k)
  BY <1>1
<1> HIDE DEF from
<1>5. \A j \in 1 .. Len(fs) : fs[j].client <= n /\ Charged(fs[j], led)
  BY <1>2, <1>3 DEF Agree
<1>6. \A j, k \in 1 .. Len(fs) : j # k => fs[j].client # fs[k].client
  BY <1>2, <1>3, <1>4 DEF Agree
<1> QED BY <1>3, <1>5, <1>6 DEF Agree

\* The sum that print_stats() takes, after each entry.
Summing(es, way) ==
  CHOOSE g : g = [i \in 0 .. Len(es) |-> IF i = 0 THEN 0 ELSE g[i - 1] + es[i][way]]

LEMMA SummingIs ==
  ASSUME NEW es, Len(es) \in Nat, NEW way, \A i \in 1 .. Len(es) : es[i][way] \in Nat
  PROVE  /\ Summing(es, way)[0] = 0
         /\ \A i \in 1 .. Len(es) :
              Summing(es, way)[i] = Summing(es, way)[i - 1] + es[i][way]
<1> DEFINE step == [i \in 1 .. Len(es) |-> [c \in Nat |-> c + es[i][way]]]
<1>1. step \in [1 .. Len(es) -> [Nat -> Nat]] /\ 0 \in Nat
  OBVIOUS
<1>2. \A i \in 1 .. Len(es) : \A c \in Nat : step[i][c] = c + es[i][way]
  OBVIOUS
<1> HIDE DEF step
<1>3. PICK h : Follows(h, Len(es), Nat, 0, step)
  BY <1>1, RecursionDefines
<1>4. \A i \in 1 .. Len(es) : h[i] = h[i - 1] + es[i][way]
  <2> SUFFICES ASSUME NEW i \in 1 .. Len(es) PROVE h[i] = h[i - 1] + es[i][way]
    OBVIOUS
  <2>1. i - 1 \in 0 .. Len(es)
    OBVIOUS
  <2>2. h[i - 1] \in Nat
    BY <2>1, <1>3 DEF Follows
  <2> QED BY <1>2, <1>3, <2>2 DEF Follows
<1> DEFINE body(g) == [i \in 0 .. Len(es) |-> IF i = 0 THEN 0 ELSE g[i - 1] + es[i][way]]
<1>5. h = body(h)
  <2>1. \A i \in 0 .. Len(es) : h[i] = IF i = 0 THEN 0 ELSE h[i - 1] + es[i][way]
    BY <1>3, <1>4 DEF Follows
  <2>2. h \in [0 .. Len(es) -> Nat]
    BY <1>3 DEF Follows
  <2> QED BY <2>1, <2>2
<1> DEFINE run == Summing(es, way)
<1>6. run = body(run)
  BY <1>5 DEF Summing
<1> HIDE DEF run
<1>7. \A i \in 0 .. Len(es) : run[i] = IF i = 0 THEN 0 ELSE run[i - 1] + es[i][way]
  BY <1>6
<1>8. run[0] = 0 /\ \A i \in 1 .. Len(es) : run[i] = run[i - 1] + es[i][way]
  BY <1>7
<1> QED BY <1>8 DEF run

\* A byte of the one is none of the other.
LEMMA OneClientMore ==
  ASSUME NEW led \in Seq(Move), NEW Clients, NEW c, c \notin Clients, NEW way
  PROVE  MovedIn(led, Clients \cup {c}, way) = MovedIn(led, Clients, way) + MovedIn(led, {c}, way)
<1> DEFINE Of(C) == {k \in 1 .. Len(led) : led[k].client \in C /\ led[k].way = way}
           A == Of(Clients)
           B == Of({c})
<1>1. Of(Clients \cup {c}) = A \cup B /\ A \cap B = {}
  OBVIOUS
<1>2. A \in SUBSET (1 .. Len(led)) /\ B \in SUBSET (1 .. Len(led)) /\ IsFiniteSet(1 .. Len(led))
  <2>1. Len(led) \in Nat
    BY LenProperties
  <2> QED BY <2>1, FS_Interval
<1>3. /\ MovedIn(led, Clients \cup {c}, way) = Cardinality(Of(Clients \cup {c}))
      /\ MovedIn(led, Clients, way) = Cardinality(A)
      /\ MovedIn(led, {c}, way) = Cardinality(B)
  BY DEF MovedIn
<1> HIDE DEF Of, A, B
<1>4. IsFiniteSet(A) /\ IsFiniteSet(B)
  BY <1>2, FS_Subset
<1>5. /\ Cardinality(A \cup B) = Cardinality(A) + Cardinality(B) - Cardinality(A \cap B)
      /\ Cardinality(A) \in Nat /\ Cardinality(B) \in Nat
  BY <1>4, FS_Union, FS_CardinalityType
<1>6. Cardinality(A \cap B) = 0
  BY <1>1, FS_EmptySet
<1>7. Cardinality(A \cup B) = Cardinality(A) + Cardinality(B)
  BY <1>5, <1>6
<1> QED BY <1>1, <1>3, <1>7

\* The counters add up to the traffic of the clients in the table.
LEMMA SumIsTraffic ==
  ASSUME NEW es, NEW led, NEW n, Agree(es, led, n), NEW way \in Directions
  PROVE  Summing(es, way)[Len(es)] = MovedIn(led, {es[i].client : i \in 1 .. Len(es)}, way)
<1> DEFINE run == Summing(es, way)
           Upto(i) == {es[j].client : j \in 1 .. i}
<1>1. Len(es) \in Nat /\ led \in Seq(Move)
  BY AgreeIs DEF Agree
<1>2. \A C : MovedIn(led, C, way) \in Nat
  <2>1. \E move : move \in Move
    <3>1. [client |-> 0, way |-> way] \in Move
      BY DEF Move
    <3> QED BY <3>1
  <2> QED BY <1>1, <2>1, OneMore
<1>3. \A i \in 1 .. Len(es) : es[i][way] = MovedIn(led, {es[i].client}, way)
  <2>1. \A i \in 1 .. Len(es) : Charged(es[i], led)
    BY DEF Agree
  <2> QED BY <2>1 DEF Charged
<1>4. /\ run[0] = 0
      /\ \A i \in 1 .. Len(es) : run[i] = run[i - 1] + es[i][way]
  <2>1. \A i \in 1 .. Len(es) : es[i][way] \in Nat
    BY <1>2, <1>3
  <2> QED BY <1>1, <2>1, SummingIs
<1> HIDE DEF run
<1> DEFINE T == {i \in 0 .. Len(es) : run[i] = MovedIn(led, Upto(i), way)}
<1>5. 0 \in T
  <2>1. Upto(0) = {}
    OBVIOUS
  <2>2. MovedIn(led, {}, way) = 0
    <3>1. {k \in 1 .. Len(led) : led[k].client \in {} /\ led[k].way = way} = {}
      OBVIOUS
    <3> QED BY <3>1, FS_EmptySet DEF MovedIn
  <2> HIDE DEF Upto
  <2>3. run[0] = MovedIn(led, Upto(0), way)
    BY <1>4, <2>1, <2>2
  <2> QED BY <1>1, <2>3
<1>6. ASSUME NEW i \in 1 .. Len(es), i - 1 \in T PROVE i \in T
  <2>1. Upto(i) = Upto(i - 1) \cup {es[i].client}
    <3>1. \A j : j \in 1 .. i <=> j \in 1 .. (i - 1) \/ j = i
      OBVIOUS
    <3> QED BY <3>1
  <2>2. es[i].client \notin Upto(i - 1)
    <3>1. \A j \in 1 .. (i - 1) : j \in 1 .. Len(es) /\ j # i
      BY <1>1
    <3> QED BY <3>1 DEF Agree
  <2>3. run[i - 1] = MovedIn(led, Upto(i - 1), way)
    BY <1>6
  <2> HIDE DEF Upto
  <2>4. MovedIn(led, Upto(i), way)
          = MovedIn(led, Upto(i - 1), way) + MovedIn(led, {es[i].client}, way)
    BY <1>1, <2>1, <2>2, OneClientMore
  <2>5. run[i] = MovedIn(led, Upto(i), way)
    BY <1>3, <1>4, <2>3, <2>4
  <2> QED BY <1>1, <2>5
<1>7. Len(es) \in T
  <2> HIDE DEF T
  <2>1. 0 .. Len(es) \subseteq T
    BY <1>1, <1>5, <1>6, InductionUpTo
  <2> QED BY <1>1, <2>1
<1> QED BY <1>7 DEF run

LEMMA EntryIs ==
  ASSUME NEW entry \in Book
  PROVE  /\ \A client \in Nat :
              LET e == ReuseOf(entry, client)
              IN e \in Book /\ e.client = client /\ \A w \in Directions : e[w] = 0
         /\ \A way \in Directions :
              LET e == Counting(entry, way)
              IN /\ e \in Book /\ e.client = entry.client
                 /\ \A w \in Directions : e[w] = IF w = way THEN entry[w] + 1 ELSE entry[w]
<1>1. ASSUME NEW client \in Nat
      PROVE  /\ ReuseOf(entry, client) \in Book /\ ReuseOf(entry, client).client = client
             /\ ReuseOf(entry, client).sent = 0 /\ ReuseOf(entry, client).received = 0
  BY DEF ReuseOf, Book
<1>2. ASSUME NEW way \in Directions
      PROVE  /\ Counting(entry, way) \in Book
             /\ Counting(entry, way).client = entry.client
             /\ Counting(entry, way).sent =
                  IF "sent" = way THEN entry.sent + 1 ELSE entry.sent
             /\ Counting(entry, way).received =
                  IF "received" = way THEN entry.received + 1 ELSE entry.received
  <2>1. CASE way = "sent"
    BY <2>1 DEF Counting, Book
  <2>2. CASE way = "received"
    BY <2>2 DEF Counting, Book
  <2> QED BY <2>1, <2>2 DEF Directions
<1> QED BY <1>1, <1>2 DEF Directions

LEMMA BooksStep == BooksInv /\ [BooksNext]_bookVars => BooksInv'
<1> SUFFICES ASSUME BooksInv, [BooksNext]_bookVars PROVE BooksInv'
  OBVIOUS
<1>0. /\ Agree(entries, ledger, arrivals) /\ closed \in Nat /\ Len(entries) \in Nat
      /\ DOMAIN stats = {"total_connections", "active_connections", "sent", "received"}
      /\ stats.total_connections = Len(entries) + closed
      /\ arrivals \in Nat /\ entries \in Seq(Book) /\ ledger \in Seq(Move)
      /\ \A i \in 1 .. Len(entries) : entries[i] \in Book
  BY AgreeIs DEF BooksInv, Agree
\* Most operations write one entry.
<1>1. ASSUME NEW i \in DOMAIN entries, NEW e \in Book,
             entries' = [entries EXCEPT ![i] = e], UNCHANGED <<stats, closed>>,
             Agree(entries', ledger', arrivals')
      PROVE  BooksInv'
  <2>1. Len(entries') = Len(entries)
    <3>1. i \in 1 .. Len(entries)
      BY <1>0
    <3> QED BY <1>0, <1>1, <3>1, ExceptSeq
  <2> QED BY <1>0, <1>1, <2>1 DEF BooksInv
<1>2. CASE UNCHANGED bookVars
  BY <1>0, <1>2 DEF bookVars, BooksInv
<1>3. CASE BookAccept
  <2>1. /\ entries' = Append(entries, NewBook(arrivals + 1)) /\ arrivals' = arrivals + 1
        /\ stats' = [stats EXCEPT !.total_connections = @ + 1]
        /\ closed' = closed /\ ledger' = ledger
    BY <1>3 DEF BookAccept
  <2>2. Agree(entries', ledger', arrivals')
    BY <1>0, <2>1, AcceptAgrees
  <2>3. Len(entries') = Len(entries) + 1
    <3>1. NewBook(arrivals + 1) \in Book
      BY <1>0 DEF NewBook, Book
    <3> QED BY <1>0, <2>1, <3>1, AppendProperties
  <2>4. stats'.total_connections = stats.total_connections + 1
        /\ DOMAIN stats' = DOMAIN stats
    BY <1>0, <2>1
  <2> QED BY <1>0, <2>1, <2>2, <2>3, <2>4 DEF BooksInv
<1>4. CASE BookReuse
  <2>1. PICK i \in DOMAIN entries : entries' = [entries EXCEPT ![i] = ReuseOf(@, arrivals + 1)]
    BY <1>4 DEF BookReuse, Ready
  <2>2. arrivals' = arrivals + 1 /\ UNCHANGED <<stats, closed, ledger>>
    BY <1>4 DEF BookReuse
  <2> DEFINE e == ReuseOf(entries[i], arrivals + 1)
  <2>3. i \in 1 .. Len(entries) /\ entries[i] \in Book
    BY <1>0
  <2>4. e \in Book /\ e.client = arrivals + 1 /\ \A w \in Directions : e[w] = 0
    <3>1. arrivals + 1 \in Nat
      BY <1>0
    <3> QED BY <2>3, <3>1, EntryIs
  <2>5. entries' = [entries EXCEPT ![i] = e]
    BY <2>1
  <2> HIDE DEF e
  <2>6. Charged(e, ledger)
    <3>1. \A w \in Directions : MovedIn(ledger, {arrivals + 1}, w) = 0
      BY <1>0, NobodyYet
    <3> QED BY <2>4, <3>1 DEF Charged
  <2>7. \A j \in 1 .. Len(entries) : j # i => e.client # entries[j].client
    <3>1. \A j \in 1 .. Len(entries) : entries[j].client <= arrivals
      BY <1>0 DEF Agree
    <3>2. \A j \in 1 .. Len(entries) : entries[j].client \in Nat
      BY <1>0 DEF Book
    <3> QED BY <1>0, <2>4, <3>1, <3>2
  <2>8. Agree(entries', ledger', arrivals')
    <3>1. arrivals + 1 \in Nat /\ arrivals <= arrivals + 1 /\ e.client <= arrivals + 1
      BY <1>0, <2>4
    <3>2. Agree([entries EXCEPT ![i] = e], ledger, arrivals + 1)
      BY <1>0, <2>3, <2>4, <2>6, <2>7, <3>1, WriteAgrees
    <3> QED BY <2>2, <2>5, <3>2
  <2> QED BY <1>1, <2>2, <2>4, <2>5, <2>8
<1>5. CASE BookLeave \/ BookRedial
  <2>1. PICK i \in DOMAIN entries, standby \in {"ready", "lost"} :
          entries' = [entries EXCEPT ![i] = [@ EXCEPT !.standby = standby]]
    BY <1>5 DEF BookLeave, BookRedial, Left
  <2>2. UNCHANGED <<stats, arrivals, closed, ledger>>
    BY <1>5 DEF BookLeave, BookRedial
  <2> DEFINE e == [entries[i] EXCEPT !.standby = standby]
  <2>3. i \in 1 .. Len(entries) /\ entries[i] \in Book
    BY <1>0
  <2>4. /\ e \in Book /\ e.client = entries[i].client
        /\ e.sent = entries[i].sent /\ e.received = entries[i].received
    BY <2>3 DEF Book
  <2>5. entries' = [entries EXCEPT ![i] = e]
    BY <2>1
  <2> HIDE DEF e
  <2>6. /\ Charged(entries[i], ledger) /\ entries[i].client <= arrivals
        /\ \A j \in 1 .. Len(entries) : j # i => entries[i].client # entries[j].client
    BY <1>0, <2>3 DEF Agree
  <2>7. Charged(e, ledger)
    <3>1. e.sent = MovedIn(ledger, {e.client}, "sent")
          /\ e.received = MovedIn(ledger, {e.client}, "received")
      BY <2>4, <2>6 DEF Charged, Directions
    <3> QED BY <3>1 DEF Charged, Directions
  <2>8. Agree(entries', ledger', arrivals')
    <3>1. arrivals <= arrivals /\ e.client <= arrivals
          /\ \A j \in 1 .. Len(entries) : j # i => e.client # entries[j].client
      BY <1>0, <2>4, <2>6
    <3>2. Agree([entries EXCEPT ![i] = e], ledger, arrivals)
      BY <1>0, <2>3, <2>4, <2>7, <3>1, WriteAgrees
    <3> QED BY <2>2, <2>5, <3>2
  <2> QED BY <1>1, <2>2, <2>4, <2>5, <2>8
<1>6. CASE BookTransfer
  <2>1. PICK i \in DOMAIN entries, way \in Directions :
          /\ entries' = [entries EXCEPT ![i] = Counting(@, way)]
          /\ ledger' = Append(ledger, [client |-> entries[i].client, way |-> way])
    BY <1>6 DEF BookTransfer
  <2>2. UNCHANGED <<stats, arrivals, closed>>
    BY <1>6 DEF BookTransfer
  <2> DEFINE old == entries[i]
             e == Counting(old, way)
             move == [client |-> old.client, way |-> way]
  <2>3. i \in 1 .. Len(entries) /\ old \in Book
    BY <1>0
  <2>4. entries' = [entries EXCEPT ![i] = e] /\ ledger' = Append(ledger, move)
    BY <2>1
  <2> HIDE DEF old
  <2>5. move \in Move /\ move.client = old.client /\ move.way = way
    BY <2>3 DEF Book, Move
  <2>6. /\ e \in Book /\ e.client = old.client
        /\ \A w \in Directions : e[w] = IF w = way THEN old[w] + 1 ELSE old[w]
    BY <2>3, EntryIs
  <2> HIDE DEF e, move
  <2>7. Agree(entries', ledger', arrivals')
    <3>1. Agree([entries EXCEPT ![i] = e], Append(ledger, move), arrivals)
      BY <1>0, <2>3, <2>5, <2>6, TransferAgrees DEF old
    <3> QED BY <2>2, <2>4, <3>1
  <2> QED BY <1>1, <2>2, <2>4, <2>6, <2>7
<1>7. CASE BookCleanup
  <2>1. PICK i \in DOMAIN entries :
          entries' = [j \in 1 .. (Len(entries) - 1) |->
                        IF j < i THEN entries[j] ELSE entries[j + 1]]
    BY <1>7 DEF BookCleanup
  <2>2. closed' = closed + 1 /\ UNCHANGED <<stats, arrivals, ledger>>
    BY <1>7 DEF BookCleanup
  <2>3. i \in 1 .. Len(entries)
    BY <1>0
  <2> DEFINE shorter == [j \in 1 .. (Len(entries) - 1) |->
                           IF j < i THEN entries[j] ELSE entries[j + 1]]
  <2>4. Agree(entries', ledger, arrivals) /\ Len(entries') = Len(entries) - 1
    <3>1. \A fs : fs = shorter => Agree(fs, ledger, arrivals) /\ Len(fs) = Len(entries) - 1
      BY <1>0, <2>3, CleanupAgrees
    <3> HIDE DEF shorter
    <3>2. Agree(shorter, ledger, arrivals) /\ Len(shorter) = Len(entries) - 1
      BY <3>1
    <3>3. entries' = shorter
      BY <2>1 DEF shorter
    <3> QED BY <3>2, <3>3
  <2> QED BY <1>0, <2>2, <2>4 DEF BooksInv
<1>8. CASE PrintStats
  <2>1. stats'.total_connections = stats.total_connections /\ DOMAIN stats' = DOMAIN stats
    BY <1>0, <1>8 DEF PrintStats, Summed
  <2> QED BY <1>0, <1>8, <2>1 DEF PrintStats, BooksInv
<1> QED BY <1>2, <1>3, <1>4, <1>5, <1>6, <1>7, <1>8 DEF BooksNext

LEMMA BooksInvariant == BooksSpec => []BooksInv
<1>1. BooksInit => BooksInv
  BY EmptySeq DEF BooksInit, BooksInv, Agree
<1> QED BY <1>1, BooksStep, PTL DEF BooksSpec

(* The counters of an entry are the traffic of the client it serves, or on     *)
(* standby served last, alone, however often reset_connection_for_reuse() gave *)
(* the entry to a new client.                                                  *)
THEOREM CountersFollowTheClient == BooksSpec => []ChargedToPresentClient
<1>1. BooksInv => ChargedToPresentClient
  <2> SUFFICES ASSUME BooksInv PROVE ChargedToPresentClient
    OBVIOUS
  <2>1. DOMAIN entries = 1 .. Len(entries) /\ DOMAIN ledger = 1 .. Len(ledger)
    BY DEF BooksInv, Agree
  <2>2. \A Clients, way : Moved(Clients, way) = MovedIn(ledger, Clients, way)
    BY <2>1 DEF Moved, MovedIn
  <2>3. \A i \in 1 .. Len(entries) : Charged(entries[i], ledger)
    BY DEF BooksInv, Agree
  <2> QED BY <2>1, <2>2, <2>3 DEF Charged, ChargedToPresentClient
<1> QED BY <1>1, BooksInvariant, PTL

(* What print_stats() writes is the traffic of the clients then in the table,  *)
(* each byte once, whatever was reported, reused or cleaned up before.         *)
THEOREM ReportsArePresent == BooksSpec => ReportIsOfPresent
<1>1. ASSUME BooksInv, PrintStats
      PROVE  /\ \A way \in Directions : stats'[way] = Moved(Served, way)
             /\ stats'.total_connections = stats'.active_connections + closed
  <2>1. \A way \in Directions : SumOf(way) = Moved(Served, way)
    <3> SUFFICES ASSUME NEW way \in Directions PROVE SumOf(way) = Moved(Served, way)
      OBVIOUS
    <3>1. SumOf(way) = Summing(entries, way)[Len(entries)]
      BY DEF SumOf, Summing
    <3>2. DOMAIN entries = 1 .. Len(entries) /\ DOMAIN ledger = 1 .. Len(ledger)
      BY <1>1 DEF BooksInv, Agree
    <3>3. Moved(Served, way) = MovedIn(ledger, {entries[i].client : i \in 1 .. Len(entries)}, way)
      BY <3>2 DEF Moved, Served, MovedIn
    <3> QED BY <1>1, <3>1, <3>3, SumIsTraffic DEF BooksInv
  <2>2. /\ stats'.total_connections = stats.total_connections
        /\ stats'.active_connections = Len(entries)
        /\ stats'.sent = SumOf("sent") /\ stats'.received = SumOf("received")
    BY <1>1 DEF PrintStats, Summed, BooksInv
  <2> QED BY <1>1, <2>1, <2>2 DEF BooksInv, Directions
<1>2. BooksInv /\ [BooksNext]_bookVars =>
        [PrintStats => /\ \A way \in Directions : stats'[way] = Moved(Served, way)
                       /\ stats'.total_connections = stats'.active_connections + closed]_bookVars
  BY <1>1
<1> QED BY <1>2, BooksInvariant, PTL DEF BooksSpec, ReportIsOfPresent
=============================================================================
