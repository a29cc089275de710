---------------------------- MODULE RelayProofs -----------------------------
(***************************************************************************)
(* Machine-checked proofs about the data relay: no byte is lost, repeated  *)
(* or put out of place by forward_data(), the byte counters are exact, and *)
(* each direction of a connection is a byte pipe, for every number of      *)
(* connections and bytes and every size of the buffers.                    *)
(***************************************************************************)
EXTENDS Relay, DataLemmas

-----------------------------------------------------------------------------
(* The numbering of the flows *)

LEMMA FlowPairs ==
  ASSUME NEW f \in Flows
  PROVE  /\ Reverse(f) \in Flows /\ Reverse(f) # f
         /\ Reverse(Reverse(f)) = f
         /\ PairOf(f) \in 1 .. Pairs
         /\ PairOf(Reverse(f)) = PairOf(f)
         /\ \A g \in Flows : PairOf(g) = PairOf(f) => g \in {f, Reverse(f)}
<1>1. Pairs \in Nat
  BY RelayAssumption
<1>2. CASE f % 2 = 1
  <2>0. f = 2 * (f \div 2 + 1) - 1 /\ f \div 2 + 1 \in Int
    BY <1>1, <1>2 DEF Flows
  <2>1. PICK k \in Int : f = 2 * k - 1
    BY <2>0
  <2>2. Reverse(f) = 2 * k /\ k \in 1 .. Pairs
    BY <1>1, <1>2, <2>1 DEF Flows, Reverse
  <2>3. Reverse(f) % 2 = 0 /\ PairOf(f) = k /\ PairOf(Reverse(f)) = k
    BY <2>1, <2>2 DEF PairOf
  <2> QED BY <1>1, <2>1, <2>2, <2>3 DEF Flows, Reverse, PairOf
<1>3. CASE f % 2 # 1
  <2>0. f = 2 * (f \div 2) /\ f \div 2 \in Int
    BY <1>1, <1>3 DEF Flows
  <2>1. PICK k \in Int : f = 2 * k
    BY <2>0
  <2>2. Reverse(f) = 2 * k - 1 /\ k \in 1 .. Pairs
    BY <1>1, <1>3, <2>1 DEF Flows, Reverse
  <2>3. Reverse(f) % 2 = 1 /\ PairOf(f) = k /\ PairOf(Reverse(f)) = k
    BY <2>1, <2>2 DEF PairOf
  <2> QED BY <1>1, <2>1, <2>2, <2>3 DEF Flows, Reverse, PairOf
<1> QED BY <1>2, <1>3

-----------------------------------------------------------------------------
(* Sequences *)

LEMMA StreamIs ==
  ASSUME NEW n \in Nat
  PROVE  Stream(n) \in Seq(Nat) /\ Len(Stream(n)) = n
<1>1. Stream(n) \in [1 .. n -> Nat]
  BY DEF Stream
<1>2. Stream(n) \in Seq(Nat)
  BY <1>1, SeqDef
<1> QED BY <1>1, <1>2, LenProperties

\* The next byte of a stream continues it.
LEMMA StreamGrows ==
  ASSUME NEW n \in Nat
  PROVE  Stream(n) \o <<n + 1>> = Stream(n + 1)
<1> DEFINE s == Stream(n) \o <<n + 1>>
           t == Stream(n + 1)
<1>1. /\ <<n + 1>> \in Seq(Nat) /\ Len(<<n + 1>>) = 1 /\ <<n + 1>>[1] = n + 1
      /\ Stream(n) \in Seq(Nat) /\ Len(Stream(n)) = n
      /\ t \in Seq(Nat) /\ Len(t) = n + 1
  BY StreamIs
<1>2. /\ s \in Seq(Nat) /\ Len(s) = n + 1
      /\ \A i \in 1 .. n + 1 : s[i] = IF i <= n THEN Stream(n)[i] ELSE <<n + 1>>[i - n]
  BY <1>1, ConcatProperties
<1>3. \A i \in 1 .. n + 1 : s[i] = t[i]
  BY <1>1, <1>2 DEF Stream
<1> HIDE DEF s, t
<1>4. s = t
  BY <1>1, <1>2, <1>3, SeqEqual
<1> QED BY <1>4 DEF s, t

\* What precedes the rest of a stream is a stream.
LEMMA StreamBegins ==
  ASSUME NEW n \in Nat, NEW s \in Seq(Nat), NEW t \in Seq(Nat), s \o t = Stream(n)
  PROVE  s = Stream(Len(s))
<1>0. /\ Len(s) \in Nat /\ Len(t) \in Nat /\ Len(s \o t) = Len(s) + Len(t)
      /\ \A i \in 1 .. Len(s) + Len(t) :
           (s \o t)[i] = IF i <= Len(s) THEN s[i] ELSE t[i - Len(s)]
  BY ConcatProperties, LenProperties
<1>1. Len(s) + Len(t) = n
  BY <1>0, StreamIs
<1>2. ASSUME NEW i \in 1 .. Len(s) PROVE s[i] = Stream(Len(s))[i]
  <2>1. (s \o t)[i] = s[i] /\ i \in 1 .. n
    BY <1>0, <1>1
  <2>2. Stream(n)[i] = i /\ Stream(Len(s))[i] = i
    BY <2>1 DEF Stream
  <2> QED BY <2>1, <2>2
<1> QED BY <1>0, <1>2, StreamIs, SeqEqual

\* Taking the first n of a sequence leaves the rest of it.
LEMMA FirstAndRest ==
  ASSUME NEW s \in Seq(Nat), NEW n \in 0 .. Len(s)
  PROVE  /\ First(n, s) \in Seq(Nat) /\ Len(First(n, s)) = n
         /\ Rest(n, s) \in Seq(Nat) /\ Len(Rest(n, s)) = Len(s) - n
         /\ First(n, s) \o Rest(n, s) = s
<1>1. Len(s) \in Nat /\ \A i \in 1 .. Len(s) : s[i] \in Nat
  BY LenProperties
<1>2. First(n, s) \in Seq(Nat) /\ Len(First(n, s)) = n
  BY <1>1, SubSeqProperties DEF First
<1>3. Rest(n, s) \in Seq(Nat) /\ Len(Rest(n, s)) = Len(s) - n
  BY <1>1, SubSeqProperties DEF Rest
<1> 1 \in 1 .. Len(s) + 1 /\ n \in 1 - 1 .. Len(s) /\ Len(s) \in n .. Len(s)
  BY <1>1
<1>4. SubSeq(s, 1, n) \o SubSeq(s, n + 1, Len(s)) = SubSeq(s, 1, Len(s))
  BY <1>1, ConcatAdjacentSubSeq
<1> QED BY <1>2, <1>3, <1>4, SubSeqFull DEF First, Rest

\* Handing over the k bytes after the first n leaves the rest after n + k.
LEMMA NextOfRest ==
  ASSUME NEW s \in Seq(Nat), NEW n \in 0 .. Len(s), NEW k \in Nat, n + k <= Len(s)
  PROVE  /\ SubSeq(s, n + 1, n + k) \in Seq(Nat) /\ Len(SubSeq(s, n + 1, n + k)) = k
         /\ SubSeq(s, n + 1, n + k) \o Rest(n + k, s) = Rest(n, s)
<1>1. Len(s) \in Nat /\ \A i \in 1 .. Len(s) : s[i] \in Nat
  BY LenProperties
<1>2. SubSeq(s, n + 1, n + k) \in Seq(Nat) /\ Len(SubSeq(s, n + 1, n + k)) = k
  BY <1>1, SubSeqProperties
<1> /\ n + 1 \in 1 .. Len(s) + 1 /\ n + k \in (n + 1) - 1 .. Len(s)
    /\ Len(s) \in n + k .. Len(s)
  BY <1>1
<1>3. SubSeq(s, n + 1, n + k) \o SubSeq(s, (n + k) + 1, Len(s)) = SubSeq(s, n + 1, Len(s))
  BY <1>1, ConcatAdjacentSubSeq
<1> QED BY <1>2, <1>3 DEF Rest

-----------------------------------------------------------------------------
(* The inductive invariant *)

\* A transfer is of a connection that is still in the table.
Sending == pc = "send" => (at \in Flows /\ PairOf(at) \in alive)

\* Nothing is on its way to a peer that has reset its connection.
ResetEmpties == \A f \in reset : outq[Reverse(f)] = <<>>

RelayInv ==
  /\ TypeOK /\ Sending /\ ResetEmpties
  /\ Conserved /\ DeliveredInOrder /\ CountersExact

LEMMA FlowTypes ==
  ASSUME TypeOK, NEW f \in Flows
  PROVE  /\ inq[f] \in Seq(Nat) /\ outq[f] \in Seq(Nat) /\ got[f] \in Seq(Nat)
         /\ InHand(f) \in Seq(Nat)
         /\ Len(inq[f]) \in Nat /\ Len(outq[f]) \in Nat /\ Len(got[f]) \in Nat
         /\ written[f] \in Nat /\ counted[f] \in Nat
<1>1. inq[f] \in Seq(Nat) /\ outq[f] \in Seq(Nat) /\ got[f] \in Seq(Nat)
  BY DEF TypeOK
<1>2. InHand(f) \in Seq(Nat)
  BY FirstAndRest, EmptySeq DEF TypeOK, InHand
<1> QED BY <1>1, <1>2, LenProperties DEF TypeOK

-----------------------------------------------------------------------------
(* The peers keep the invariant *)

LEMMA WriteKeeps ==
  ASSUME RelayInv, NEW f \in Flows, PeerWrites(f)
  PROVE  RelayInv'
<1>1. TypeOK'
  <2>1. Append(inq[f], written[f] + 1) \in Seq(Nat)
        /\ Len(Append(inq[f], written[f] + 1)) = Len(inq[f]) + 1
    BY FlowTypes, AppendProperties DEF RelayInv
  <2>2. inq' \in [Flows -> Seq(Nat)] /\ written' \in [Flows -> Nat]
    BY <2>1, FlowTypes DEF RelayInv, TypeOK, PeerWrites
  <2>3. \A g \in Flows : Len(inq'[g]) <= KernelBuf
    BY <2>1, FlowTypes, RelayAssumption DEF RelayInv, TypeOK, PeerWrites
  <2> QED BY <2>2, <2>3 DEF RelayInv, TypeOK, PeerWrites, loopVars
<1>2. Sending' /\ ResetEmpties'
  BY DEF RelayInv, Sending, ResetEmpties, PeerWrites, loopVars
<1>3. Conserved'
  <2> SUFFICES ASSUME NEW g \in Flows, (PairOf(g) \in alive /\ Reverse(g) \notin reset)'
               PROVE  (got[g] \o outq[g] \o InHand(g) \o inq[g] = Stream(written[g]))'
    BY DEF Conserved
  <2>1. got[g] \o outq[g] \o InHand(g) \o inq[g] = Stream(written[g])
    BY DEF RelayInv, Conserved, PeerWrites, loopVars
  <2>2. got'[g] = got[g] /\ outq'[g] = outq[g] /\ InHand(g)' = InHand(g)
    BY DEF PeerWrites, loopVars, InHand
  <2>3. CASE g # f
    BY <2>1, <2>2, <2>3 DEF RelayInv, TypeOK, PeerWrites
  <2>4. CASE g = f
    <3> DEFINE a == got[f] \o outq[f] \o InHand(f)
               w == written[f]
    <3>1. inq'[f] = Append(inq[f], w + 1) /\ written'[f] = w + 1
      BY DEF RelayInv, TypeOK, PeerWrites
    <3>2. /\ a \in Seq(Nat) /\ inq[f] \in Seq(Nat) /\ w \in Nat
          /\ <<w + 1>> \in Seq(Nat)
      BY FlowTypes, Regroup DEF RelayInv
    <3>3. a \o inq[f] = Stream(w)
      BY <2>1, <2>4
    <3> HIDE DEF a, w
    <3>4. Append(inq[f], w + 1) = inq[f] \o <<w + 1>>
      BY <3>2, AppendIsConcat
    <3>5. a \o (inq[f] \o <<w + 1>>) = Stream(w + 1)
      <4>1. (a \o inq[f]) \o <<w + 1>> = a \o (inq[f] \o <<w + 1>>)
        BY <3>2, Associative
      <4>2. Stream(w) \o <<w + 1>> = Stream(w + 1)
        BY <3>2, StreamGrows
      <4> QED BY <3>3, <4>1, <4>2
    <3> QED BY <2>2, <2>4, <3>1, <3>4, <3>5 DEF a
  <2> QED BY <2>3, <2>4
<1>4. DeliveredInOrder'
  BY DEF RelayInv, DeliveredInOrder, PeerWrites
<1>5. CountersExact'
  <2>1. Len(Append(inq[f], written[f] + 1)) = Len(inq[f]) + 1
    BY FlowTypes, AppendProperties DEF RelayInv
  <2>2. /\ written' = [written EXCEPT ![f] = @ + 1]
        /\ inq' = [inq EXCEPT ![f] = Append(@, written[f] + 1)]
        /\ UNCHANGED <<pc, at, alive, buffer, counted>>
    BY DEF PeerWrites, loopVars
  <2> SUFFICES ASSUME NEW g \in Flows, PairOf(g) \in alive
               PROVE  counted[g] + (IF pc = "send" /\ at = g THEN Len(buffer) ELSE 0)
                        = written'[g] - Len(inq'[g])
    BY <2>2 DEF CountersExact
  <2>3. counted[g] + (IF pc = "send" /\ at = g THEN Len(buffer) ELSE 0)
          = written[g] - Len(inq[g])
    BY DEF RelayInv, CountersExact
  <2>4. written[g] \in Nat /\ Len(inq[g]) \in Nat
    BY FlowTypes DEF RelayInv
  <2>5. written'[g] - Len(inq'[g]) = written[g] - Len(inq[g])
    BY <2>1, <2>2, <2>4 DEF RelayInv, TypeOK
  <2> QED BY <2>3, <2>5
<1> QED BY <1>1, <1>2, <1>3, <1>4, <1>5 DEF RelayInv

LEMMA ReadKeeps ==
  ASSUME RelayInv, NEW f \in Flows, PeerReads(f)
  PROVE  RelayInv'
<1> DEFINE g1 == Append(got[f], Head(outq[f]))
           o1 == Tail(outq[f])
<1>1. /\ g1 \in Seq(Nat) /\ o1 \in Seq(Nat)
      /\ Len(g1) + Len(o1) = Len(got[f]) + Len(outq[f])
      /\ Len(o1) <= Len(outq[f])
      /\ g1 \o o1 = got[f] \o outq[f]
  <2>1. /\ got[f] \in Seq(Nat) /\ outq[f] \in Seq(Nat) /\ outq[f] # <<>>
        /\ Len(got[f]) \in Nat /\ Len(outq[f]) \in Nat
    BY FlowTypes DEF RelayInv, PeerReads
  <2>2. Head(outq[f]) \in Nat /\ Len(o1) = Len(outq[f]) - 1
    BY <2>1, HeadTailProperties
  <2>3. Len(g1) = Len(got[f]) + 1
    BY <2>1, <2>2, AppendProperties
  <2>4. /\ g1 \in Seq(Nat) /\ o1 \in Seq(Nat)
        /\ g1 \o o1 = got[f] \o outq[f]
    BY <2>1, MoveHead
  <2> HIDE DEF g1, o1
  <2>5. Len(g1) + Len(o1) = Len(got[f]) + Len(outq[f]) /\ Len(o1) <= Len(outq[f])
    BY <2>1, <2>2, <2>3 DEF RelayInv, TypeOK
  <2> QED BY <2>4, <2>5
<1>2. /\ got' = [got EXCEPT ![f] = g1] /\ outq' = [outq EXCEPT ![f] = o1]
      /\ UNCHANGED <<loopVars, written, inq, eof, reset>>
  BY DEF PeerReads
<1> HIDE DEF g1, o1
<1>3. TypeOK'
  <2>1. got' \in [Flows -> Seq(Nat)] /\ outq' \in [Flows -> Seq(Nat)]
    BY <1>1, <1>2 DEF RelayInv, TypeOK
  <2>2. \A g \in Flows : Len(outq'[g]) <= KernelBuf
    BY <1>1, <1>2, FlowTypes, RelayAssumption DEF RelayInv, TypeOK
  <2> QED BY <1>2, <2>1, <2>2 DEF RelayInv, TypeOK, loopVars
<1>4. Sending'
  BY <1>2 DEF RelayInv, Sending, loopVars
<1>5. ResetEmpties'
  <2> SUFFICES ASSUME NEW g \in reset PROVE outq'[Reverse(g)] = <<>>
    BY <1>2 DEF ResetEmpties
  <2>1. outq[Reverse(g)] = <<>> /\ outq[f] # <<>>
    BY DEF RelayInv, ResetEmpties, PeerReads
  <2> QED BY <1>2, <2>1
<1>6. \A g \in Flows : got'[g] \o outq'[g] = got[g] \o outq[g]
  BY <1>1, <1>2 DEF RelayInv, TypeOK
<1>7. Conserved'
  BY <1>2, <1>6 DEF RelayInv, Conserved, InHand, loopVars
<1>8. DeliveredInOrder'
  <2>1. ASSUME NEW g \in Flows
        PROVE  Len(got'[g]) + Len(outq'[g]) = Len(got[g]) + Len(outq[g])
    <3>1. CASE g = f
      <4>1. got'[g] = g1 /\ outq'[g] = o1
        BY <1>2, <3>1 DEF RelayInv, TypeOK
      <4> QED BY <1>1, <3>1, <4>1, Zenon
    <3>2. CASE g # f
      BY <1>2, <3>2 DEF RelayInv, TypeOK
    <3> QED BY <3>1, <3>2
  <2> QED BY <1>6, <2>1 DEF RelayInv, DeliveredInOrder
<1>9. CountersExact'
  BY <1>2 DEF RelayInv, CountersExact, loopVars
<1> QED BY <1>3, <1>4, <1>5, <1>7, <1>8, <1>9 DEF RelayInv

\* What was on its way may be lost: what has been read stays a stream.
LEMMA LossDelivers ==
  ASSUME RelayInv, NEW g \in Flows
  PROVE  got[g] \o <<>> = Stream(Len(got[g]) + Len(<<>>))
<1> DEFINE n == Len(got[g]) + Len(outq[g])
<1> TypeOK
  BY DEF RelayInv
<1>0. /\ got[g] \in Seq(Nat) /\ outq[g] \in Seq(Nat)
      /\ Len(got[g]) \in Nat /\ Len(outq[g]) \in Nat
  BY FlowTypes
<1> n \in Nat
  BY <1>0 DEF TypeOK
<1>1. got[g] \o outq[g] = Stream(n)
  BY DEF RelayInv, DeliveredInOrder
<1> HIDE DEF n
<1>2. got[g] = Stream(Len(got[g]))
  BY <1>0, <1>1, StreamBegins
<1> QED BY <1>0, <1>2, ConcatEmptySeq, EmptySeq, LenProperties

LEMMA EndKeeps ==
  ASSUME RelayInv, NEW f \in Flows, PeerEnds(f)
  PROVE  RelayInv'
BY DEF RelayInv, TypeOK, Sending, ResetEmpties, Conserved, DeliveredInOrder,
       CountersExact, InHand, PeerEnds, loopVars

LEMMA ResetKeeps ==
  ASSUME RelayInv, NEW f \in Flows, PeerResets(f)
  PROVE  RelayInv'
<1>1. /\ outq' = [outq EXCEPT ![Reverse(f)] = <<>>] /\ reset' = reset \cup {f}
      /\ UNCHANGED <<loopVars, written, inq, got, eof>>
  BY DEF PeerResets
<1>2. TypeOK'
  <2>1. <<>> \in Seq(Nat) /\ Len(<<>>) = 0
    BY EmptySeq
  <2>2. outq' \in [Flows -> Seq(Nat)] /\ \A g \in Flows : Len(outq'[g]) <= KernelBuf
    <3>1. /\ outq \in [Flows -> Seq(Nat)] /\ KernelBuf \in Nat
          /\ \A g \in Flows : Len(outq[g]) <= KernelBuf
      BY RelayAssumption DEF RelayInv, TypeOK
    <3>2. \A g \in Flows : outq'[g] \in {<<>>, outq[g]}
      BY <1>1, <3>1
    <3>3. outq' \in [Flows -> Seq(Nat)]
      BY <1>1, <2>1, <3>1
    <3>4. ASSUME NEW g \in Flows PROVE Len(outq'[g]) <= KernelBuf
      <4>1. CASE outq'[g] = <<>>
        BY <2>1, <3>1, <4>1
      <4>2. CASE outq'[g] = outq[g]
        BY <3>1, <4>2
      <4> QED BY <3>2, <4>1, <4>2
    <3> QED BY <3>3, <3>4
  <2> QED BY <1>1, <2>2 DEF RelayInv, TypeOK, loopVars
<1>3. Sending' /\ CountersExact'
  BY <1>1 DEF RelayInv, Sending, CountersExact, loopVars
<1>4. ResetEmpties'
  BY <1>1, FlowPairs DEF RelayInv, TypeOK, ResetEmpties
<1>5. Conserved'
  <2> SUFFICES ASSUME NEW g \in Flows, (PairOf(g) \in alive /\ Reverse(g) \notin reset)'
               PROVE  (got[g] \o outq[g] \o InHand(g) \o inq[g] = Stream(written[g]))'
    BY DEF Conserved
  <2>1. outq'[g] = outq[g]
    BY <1>1, FlowPairs DEF RelayInv, TypeOK
  <2> QED BY <1>1, <2>1 DEF RelayInv, Conserved, InHand, loopVars
<1>6. DeliveredInOrder'
  BY <1>1, LossDelivers DEF RelayInv, TypeOK, DeliveredInOrder
<1> QED BY <1>2, <1>3, <1>4, <1>5, <1>6 DEF RelayInv

-----------------------------------------------------------------------------
(* The forwarding pass keeps the invariant *)

LEMMA SelectKeeps ==
  ASSUME RelayInv, SelectReturns \/ SkipFlow \/ PassEnd
  PROVE  RelayInv'
<1>1. /\ pc # "send" /\ pc' # "send"
      /\ UNCHANGED <<alive, buffer, bytes_sent, counted, idle, written, inq, outq, got,
                     eof, reset>>
  BY DEF SelectReturns, SkipFlow, PassEnd, Served
<1>2. TypeOK'
  <2>1. pc' \in {"select", "recv", "send"} /\ ready' \subseteq Flows
    BY DEF RelayInv, TypeOK, SelectReturns, SkipFlow, PassEnd, Served
  <2>2. at' \in 1 .. 2 * Pairs + 1
    <3>1. at \in 1 .. 2 * Pairs + 1 /\ Pairs \in Nat
      BY RelayAssumption DEF RelayInv, TypeOK
    <3>2. at' \in {1, at} \/ (at \in 1 .. 2 * Pairs /\ at' = at + 1)
      BY DEF SelectReturns, SkipFlow, PassEnd, Served, Flows
    <3> QED BY <3>1, <3>2
  <2> QED BY <1>1, <2>1, <2>2 DEF RelayInv, TypeOK
<1>3. Sending' /\ ResetEmpties' /\ Conserved' /\ DeliveredInOrder' /\ CountersExact'
  BY <1>1 DEF RelayInv, Sending, ResetEmpties, Conserved, DeliveredInOrder,
              CountersExact, InHand
<1> QED BY <1>2, <1>3 DEF RelayInv

\* What recv() takes.
LEMMA ChunkIs ==
  ASSUME TypeOK, NEW f \in Flows
  PROVE  LET bytes_read == Smaller(BufferSize, Len(inq[f]))
             taken == First(bytes_read, inq[f])
             left  == Rest(bytes_read, inq[f])
         IN /\ taken \in Seq(Nat) /\ left \in Seq(Nat)
            /\ Len(taken) <= BufferSize /\ Len(left) <= Len(inq[f])
            /\ Len(taken) + Len(left) = Len(inq[f])
            /\ taken \o left = inq[f]
<1> DEFINE bytes_read == Smaller(BufferSize, Len(inq[f]))
<1>1. inq[f] \in Seq(Nat) /\ Len(inq[f]) \in Nat
  BY FlowTypes
<1>2. bytes_read \in 0 .. Len(inq[f]) /\ bytes_read <= BufferSize
  BY <1>1, RelayAssumption DEF Smaller
<1> HIDE DEF bytes_read
<1>3. /\ First(bytes_read, inq[f]) \in Seq(Nat) /\ Rest(bytes_read, inq[f]) \in Seq(Nat)
      /\ Len(First(bytes_read, inq[f])) = bytes_read
      /\ Len(Rest(bytes_read, inq[f])) = Len(inq[f]) - bytes_read
      /\ First(bytes_read, inq[f]) \o Rest(bytes_read, inq[f]) = inq[f]
  BY <1>1, <1>2, FirstAndRest
<1> QED BY <1>1, <1>2, <1>3 DEF bytes_read

LEMMA RecvKeeps ==
  ASSUME RelayInv, NEW f \in Flows, Recv(f)
  PROVE  RelayInv'
<1> DEFINE taken == First(Smaller(BufferSize, Len(inq[f])), inq[f])
           left  == Rest(Smaller(BufferSize, Len(inq[f])), inq[f])
<1> TypeOK
  BY DEF RelayInv
<1>1. /\ taken \in Seq(Nat) /\ left \in Seq(Nat)
      /\ Len(taken) <= BufferSize /\ Len(left) <= Len(inq[f])
      /\ Len(taken) + Len(left) = Len(inq[f])
      /\ taken \o left = inq[f]
  BY ChunkIs
<1>2. /\ pc = "recv" /\ pc' = "send" /\ at = f /\ PairOf(f) \in alive
      /\ buffer' = taken /\ bytes_sent' = 0 /\ inq' = [inq EXCEPT ![f] = left]
      /\ UNCHANGED <<at, ready, alive, counted, idle, written, outq, got, eof, reset>>
  BY DEF Recv, RecvTakes, AtFlow
<1> HIDE DEF taken, left
<1>3. /\ Len(taken) \in Nat /\ Len(left) \in Nat /\ Len(inq[f]) \in Nat
  BY <1>1, FlowTypes, LenProperties
<1>4. TypeOK'
  <2>1. \A g \in Flows : Len(inq'[g]) <= KernelBuf
    BY <1>1, <1>2, <1>3, RelayAssumption DEF TypeOK
  <2>2. /\ buffer' \in Seq(Nat) /\ Len(buffer') <= BufferSize
        /\ bytes_sent' \in 0 .. Len(buffer')
    BY <1>1, <1>2, <1>3
  <2>3. inq' \in [Flows -> Seq(Nat)]
    BY <1>1, <1>2 DEF TypeOK
  <2> QED BY <1>2, <2>1, <2>2, <2>3 DEF TypeOK
<1>5. Sending' /\ ResetEmpties' /\ DeliveredInOrder'
  BY <1>2 DEF RelayInv, Sending, ResetEmpties, DeliveredInOrder
<1>6. Conserved'
  <2> SUFFICES ASSUME NEW g \in Flows, PairOf(g) \in alive, Reverse(g) \notin reset
               PROVE  (got[g] \o outq[g] \o InHand(g) \o inq[g] = Stream(written[g]))'
    BY <1>2 DEF Conserved
  <2>1. InHand(g) = <<>> /\ got[g] \o outq[g] \o <<>> \o inq[g] = Stream(written[g])
    BY <1>2 DEF RelayInv, Conserved, InHand
  <2>2. CASE g # f
    BY <1>2, <2>1, <2>2 DEF TypeOK, InHand
  <2>3. CASE g = f
    <3> DEFINE a == got[f] \o outq[f]
    <3>1. InHand(f)' = Rest(0, taken) /\ inq'[f] = left
      BY <1>2 DEF TypeOK, InHand
    <3>2. Rest(0, taken) = taken
      BY <1>1, <1>3, SubSeqFull DEF Rest
    <3>3. a \in Seq(Nat) /\ inq[f] \in Seq(Nat)
      BY FlowTypes, ConcatProperties
    <3>4. a \o <<>> = a
      BY <3>3, ConcatEmptySeq
    <3> HIDE DEF a
    <3>5. (a \o taken) \o left = a \o (taken \o left)
      BY <1>1, <3>3, Associative
    <3> QED BY <1>1, <1>2, <2>1, <2>3, <3>1, <3>2, <3>4, <3>5 DEF a
  <2> QED BY <2>2, <2>3
<1>7. CountersExact'
  <2> SUFFICES ASSUME NEW g \in Flows, PairOf(g) \in alive
               PROVE  counted[g] + (IF at = g THEN Len(taken) ELSE 0)
                        = written[g] - Len(inq'[g])
    BY <1>2 DEF CountersExact
  <2>1. counted[g] + 0 = written[g] - Len(inq[g])
    BY <1>2 DEF RelayInv, CountersExact
  <2>2. CASE g = f
    <3>1. inq'[g] = left
      BY <1>2, <2>2 DEF TypeOK
    <3>2. counted[g] \in Nat /\ written[g] \in Nat
      BY DEF TypeOK
    <3>3. counted[f] + Len(taken) = written[f] - Len(left)
      BY <1>1, <1>3, <2>1, <2>2, <3>2
    <3> QED BY <1>2, <2>2, <3>1, <3>3
  <2>3. CASE g # f
    BY <1>2, <2>1, <2>3 DEF TypeOK
  <2> QED BY <2>2, <2>3
<1> QED BY <1>4, <1>5, <1>6, <1>7 DEF RelayInv

LEMMA SendKeeps ==
  ASSUME RelayInv, NEW f \in Flows, Send(f)
  PROVE  RelayInv'
<1> TypeOK
  BY DEF RelayInv
<1>1. PICK sent \in 1 .. Smaller(Len(buffer) - bytes_sent, KernelBuf - Len(outq[f])) :
        /\ outq' = [outq EXCEPT ![f] =
                      @ \o SubSeq(buffer, bytes_sent + 1, bytes_sent + sent)]
        /\ bytes_sent' = bytes_sent + sent
  BY DEF Send, SendFrom
<1>2. /\ pc = "send" /\ at = f /\ Reverse(f) \notin reset /\ PairOf(f) \in alive
      /\ UNCHANGED <<pc, at, ready, alive, buffer, counted, idle, written, inq, got, eof,
                     reset>>
  BY DEF Send, SendFrom, RelayInv, Sending
<1> DEFINE piece == SubSeq(buffer, bytes_sent + 1, bytes_sent + sent)
           o1 == outq[f] \o piece
<1>3. /\ buffer \in Seq(Nat) /\ Len(buffer) \in Nat /\ bytes_sent \in 0 .. Len(buffer)
      /\ outq[f] \in Seq(Nat) /\ Len(outq[f]) \in Nat /\ got[f] \in Seq(Nat)
      /\ Len(got[f]) \in Nat /\ inq[f] \in Seq(Nat)
  BY FlowTypes, LenProperties DEF TypeOK
<1>4. /\ sent \in Nat /\ bytes_sent + sent <= Len(buffer)
      /\ Len(outq[f]) + sent <= KernelBuf
  BY <1>1, <1>3, RelayAssumption DEF Smaller
<1>5. /\ piece \in Seq(Nat) /\ Len(piece) = sent
      /\ piece \o Rest(bytes_sent + sent, buffer) = Rest(bytes_sent, buffer)
      /\ Rest(bytes_sent + sent, buffer) \in Seq(Nat)
  <2>1. bytes_sent \in 0 .. Len(buffer) /\ bytes_sent + sent \in 0 .. Len(buffer)
    BY <1>3, <1>4
  <2> QED BY <1>3, <1>4, <2>1, NextOfRest, FirstAndRest
<1> HIDE DEF piece
<1>6. /\ o1 \in Seq(Nat) /\ Len(o1) = Len(outq[f]) + sent
      /\ outq' = [outq EXCEPT ![f] = o1]
  BY <1>1, <1>3, <1>5, ConcatProperties DEF piece
<1> HIDE DEF o1
<1>7. TypeOK'
  <2>1. outq' \in [Flows -> Seq(Nat)] /\ \A g \in Flows : Len(outq'[g]) <= KernelBuf
    BY <1>4, <1>6, RelayAssumption DEF TypeOK
  <2>2. bytes_sent' \in 0 .. Len(buffer)
    BY <1>1, <1>3, <1>4
  <2> QED BY <1>2, <2>1, <2>2 DEF TypeOK
<1>8. Sending' /\ CountersExact'
  BY <1>2 DEF RelayInv, Sending, CountersExact
<1>9. ResetEmpties'
  <2> SUFFICES ASSUME NEW g \in reset PROVE outq'[Reverse(g)] = <<>>
    BY <1>2 DEF ResetEmpties
  <2>1. Reverse(g) # f /\ Reverse(g) \in Flows
    BY <1>2, FlowPairs DEF TypeOK
  <2> QED BY <1>6, <2>1 DEF TypeOK, RelayInv, ResetEmpties
<1>10. got[f] \o o1 \o Rest(bytes_sent + sent, buffer) \o inq[f] = Stream(written[f])
  <2>1. got[f] \o outq[f] \o Rest(bytes_sent, buffer) \o inq[f] = Stream(written[f])
    BY <1>2 DEF RelayInv, Conserved, InHand
  <2> DEFINE r == Rest(bytes_sent + sent, buffer)
             a == got[f] \o outq[f]
  <2>2. a \in Seq(Nat) /\ r \in Seq(Nat) /\ got[f] \o o1 = a \o piece
    BY <1>3, <1>5, ConcatProperties, Associative DEF o1
  <2>3. a \o (piece \o r) = (a \o piece) \o r
    BY <1>5, <2>2, Associative
  <2> QED BY <1>5, <2>1, <2>2, <2>3
<1>11. Conserved'
  <2> SUFFICES ASSUME NEW g \in Flows, PairOf(g) \in alive, Reverse(g) \notin reset
               PROVE  (got[g] \o outq[g] \o InHand(g) \o inq[g] = Stream(written[g]))'
    BY <1>2 DEF Conserved
  <2>1. CASE g # f
    BY <1>2, <1>6, <2>1 DEF RelayInv, TypeOK, Conserved, InHand
  <2>2. CASE g = f
    <3>1. outq'[f] = o1 /\ InHand(f)' = Rest(bytes_sent + sent, buffer)
      BY <1>1, <1>2, <1>6 DEF TypeOK, InHand
    <3> QED BY <1>2, <1>10, <2>2, <3>1
  <2> QED BY <2>1, <2>2
<1>12. DeliveredInOrder'
  <2> SUFFICES ASSUME NEW g \in Flows
               PROVE  (got[g] \o outq[g] = Stream(Len(got[g]) + Len(outq[g])))'
    BY DEF DeliveredInOrder
  <2>1. CASE g # f
    BY <1>2, <1>6, <2>1 DEF RelayInv, TypeOK, DeliveredInOrder
  <2>2. CASE g = f
    <3> DEFINE s == got[f] \o o1
               t == Rest(bytes_sent + sent, buffer) \o inq[f]
    <3>1. s \in Seq(Nat) /\ t \in Seq(Nat) /\ Len(s) = Len(got[f]) + Len(o1)
      BY <1>3, <1>5, <1>6, ConcatProperties
    <3>2. s \o t = Stream(written[f])
      <4> DEFINE r == Rest(bytes_sent + sent, buffer)
      <4>1. s \in Seq(Nat) /\ r \in Seq(Nat) /\ inq[f] \in Seq(Nat)
        BY <1>3, <1>5, <3>1
      <4> HIDE DEF s
      <4>2. (s \o r) \o inq[f] = s \o (r \o inq[f])
        BY <4>1, Associative
      <4> QED BY <1>10, <4>2 DEF s
    <3> HIDE DEF s, t
    <3>3. s = Stream(Len(s))
      BY <3>1, <3>2, StreamBegins DEF TypeOK
    <3> QED BY <1>2, <1>6, <2>2, <3>1, <3>3 DEF s, TypeOK
  <2> QED BY <2>1, <2>2
<1> QED BY <1>7, <1>8, <1>9, <1>11, <1>12 DEF RelayInv

LEMMA DoneKeeps ==
  ASSUME RelayInv, NEW f \in Flows, SendDone(f)
  PROVE  RelayInv'
<1>1. /\ pc = "send" /\ at = f /\ bytes_sent = Len(buffer) /\ PairOf(f) \in alive
      /\ counted' = [counted EXCEPT ![f] = @ + Len(buffer)]
      /\ idle' = [idle EXCEPT ![PairOf(f)] = 0]
      /\ ready' = ready \ {at} /\ at' = at + 1 /\ pc' = "recv"
      /\ UNCHANGED <<alive, buffer, bytes_sent, written, inq, outq, got, eof, reset>>
  BY DEF SendDone, SendDoneIf, Served, RelayInv, Sending
<1>2. buffer \in Seq(Nat) /\ Len(buffer) \in Nat
  BY LenProperties DEF RelayInv, TypeOK
<1>3. TypeOK'
  <2>1. at' \in 1 .. 2 * Pairs + 1
    BY <1>1, RelayAssumption DEF Flows
  <2>2. counted' \in [Flows -> Nat]
    BY <1>1, <1>2 DEF RelayInv, TypeOK
  <2>3. idle' \in [1 .. Pairs -> 0 .. ConnTimeout + 1]
    <3>1. 0 \in 0 .. ConnTimeout + 1
      BY RelayAssumption
    <3>2. idle \in [1 .. Pairs -> 0 .. ConnTimeout + 1]
      BY DEF RelayInv, TypeOK
    <3> QED BY <1>1, <3>1, <3>2
  <2> QED BY <1>1, <2>1, <2>2, <2>3 DEF RelayInv, TypeOK
<1>4. Sending' /\ ResetEmpties' /\ DeliveredInOrder'
  BY <1>1 DEF RelayInv, Sending, ResetEmpties, DeliveredInOrder
<1>5. Conserved'
  <2>1. Rest(bytes_sent, buffer) = <<>>
    BY <1>1, <1>2, SubSeqEmpty DEF Rest
  <2>2. \A g \in Flows : InHand(g)' = InHand(g)
    BY <1>1, <2>1 DEF InHand
  <2> QED BY <1>1, <2>2 DEF RelayInv, Conserved
<1>6. CountersExact'
  <2> SUFFICES ASSUME NEW g \in Flows, PairOf(g) \in alive
               PROVE  counted'[g] + 0 = written[g] - Len(inq[g])
    BY <1>1 DEF CountersExact
  <2>1. counted[g] + (IF at = g THEN Len(buffer) ELSE 0) = written[g] - Len(inq[g])
    BY <1>1 DEF RelayInv, CountersExact
  <2>2. counted'[g] = counted[g] + (IF at = g THEN Len(buffer) ELSE 0)
    BY <1>1, <1>2 DEF RelayInv, TypeOK
  <2> QED BY <1>1, <1>2, <2>1, <2>2 DEF RelayInv, TypeOK
<1> QED BY <1>3, <1>4, <1>5, <1>6 DEF RelayInv

\* The connection of flow f is cleaned up: recv() or send() failed, or it was
\* idle too long.
Closes(f) == RecvEnds(f) \/ SendFails(f) \/ (at = f /\ TimedOut)

LEMMA CloseKeeps ==
  ASSUME RelayInv, NEW f \in Flows, Closes(f)
  PROVE  RelayInv'
<1> DEFINE p == PairOf(f)
<1> TypeOK
  BY DEF RelayInv
<1>1. /\ at = f /\ pc' = "recv" /\ at' = at + 1 /\ ready' = ready \ {at}
      /\ alive' = alive \ {p}
      /\ inq' = [g \in Flows |-> IF PairOf(g) = p THEN <<>> ELSE inq[g]]
      /\ outq' = [g \in Flows |->
                    IF PairOf(g) = p /\ inq[Reverse(g)] # <<>> THEN <<>> ELSE outq[g]]
      /\ UNCHANGED <<buffer, bytes_sent, counted, idle, written, got, eof, reset>>
  BY DEF Closes, RecvEnds, SendFails, TimedOut, AtFlow, CloseAll, Served
<1>2. \A g \in Flows : outq'[g] \in {<<>>, outq[g]}
  BY <1>1
<1>3. TypeOK'
  <2>1. <<>> \in Seq(Nat) /\ Len(<<>>) = 0 /\ KernelBuf \in Nat
    BY EmptySeq, RelayAssumption
  <2>2. inq' \in [Flows -> Seq(Nat)] /\ \A g \in Flows : Len(inq'[g]) <= KernelBuf
    BY <1>1, <2>1 DEF TypeOK
  <2>3. outq' \in [Flows -> Seq(Nat)] /\ \A g \in Flows : Len(outq'[g]) <= KernelBuf
    BY <1>1, <2>1 DEF TypeOK
  <2>4. at' \in 1 .. 2 * Pairs + 1
    BY <1>1, RelayAssumption DEF Flows
  <2> QED BY <1>1, <2>2, <2>3, <2>4 DEF TypeOK
<1>4. Sending'
  BY <1>1 DEF Sending
<1>5. ResetEmpties'
  BY <1>1, <1>2, FlowPairs DEF TypeOK, RelayInv, ResetEmpties
<1>6. ASSUME NEW g \in Flows, PairOf(g) \in alive'
      PROVE  /\ PairOf(g) \in alive /\ g # f
             /\ inq'[g] = inq[g] /\ outq'[g] = outq[g] /\ InHand(g) = <<>> /\ InHand(g)' = <<>>
  BY <1>1, <1>6 DEF InHand
<1>7. Conserved'
  <2> SUFFICES ASSUME NEW g \in Flows, PairOf(g) \in alive', Reverse(g) \notin reset
               PROVE  (got[g] \o outq[g] \o InHand(g) \o inq[g] = Stream(written[g]))'
    BY <1>1 DEF Conserved
  <2> QED BY <1>1, <1>6 DEF RelayInv, Conserved
<1>8. DeliveredInOrder'
  <2> SUFFICES ASSUME NEW g \in Flows
               PROVE  (got[g] \o outq[g] = Stream(Len(got[g]) + Len(outq[g])))'
    BY DEF DeliveredInOrder
  <2>1. CASE outq'[g] = outq[g]
    BY <1>1, <2>1 DEF RelayInv, DeliveredInOrder
  <2>2. CASE outq'[g] = <<>>
    BY <1>1, <2>2, LossDelivers
  <2> QED BY <1>2, <2>1, <2>2
<1>9. CountersExact'
  <2> SUFFICES ASSUME NEW g \in Flows, PairOf(g) \in alive'
               PROVE  counted[g] + 0 = written[g] - Len(inq'[g])
    BY <1>1 DEF CountersExact
  <2> QED BY <1>1, <1>6 DEF RelayInv, CountersExact
<1> QED BY <1>3, <1>4, <1>5, <1>7, <1>8, <1>9 DEF RelayInv

LEMMA TickKeeps == RelayInv /\ Tick => RelayInv'
<1> SUFFICES ASSUME RelayInv, Tick PROVE RelayInv'
  OBVIOUS
<1>1. /\ \A p \in 1 .. Pairs : idle'[p] \in 0 .. ConnTimeout + 1
      /\ DOMAIN idle' = 1 .. Pairs
  BY RelayAssumption DEF RelayInv, TypeOK, Tick, Smaller
<1>2. idle' \in [1 .. Pairs -> 0 .. ConnTimeout + 1]
  BY <1>1 DEF Tick
<1> QED BY <1>2 DEF Tick, RelayInv, TypeOK, Sending, ResetEmpties, Conserved,
                    DeliveredInOrder, CountersExact, InHand

-----------------------------------------------------------------------------
(* The theorems *)

LEMMA InvInitially == Init => RelayInv
<1> SUFFICES ASSUME Init PROVE RelayInv
  OBVIOUS
<1>1. <<>> \in Seq(Nat) /\ Len(<<>>) = 0 /\ 1 \in 1 .. 2 * Pairs + 1 /\ 0 \in Nat
      /\ BufferSize \in Nat /\ KernelBuf \in Nat
  BY EmptySeq, RelayAssumption
<1>2. Stream(0) = <<>>
  BY StreamIs, EmptySeq
<1>3. <<>> \o <<>> = <<>>
  BY <1>1, ConcatEmptySeq
<1>4. TypeOK
  BY <1>1, RelayAssumption DEF Init, TypeOK
<1>5. Sending /\ ResetEmpties /\ CountersExact
  BY <1>1 DEF Init, Sending, ResetEmpties, CountersExact
<1>6. Conserved
  BY <1>2, <1>3 DEF Init, Conserved, InHand
<1>7. DeliveredInOrder
  BY <1>1, <1>2, <1>3 DEF Init, DeliveredInOrder
<1> QED BY <1>4, <1>5, <1>6, <1>7 DEF RelayInv

LEMMA InvStep == RelayInv /\ [Next]_vars => RelayInv'
<1> SUFFICES ASSUME RelayInv, [Next]_vars PROVE RelayInv'
  OBVIOUS
<1>1. CASE UNCHANGED vars
  BY <1>1 DEF vars, RelayInv, TypeOK, Sending, ResetEmpties, Conserved,
              DeliveredInOrder, CountersExact, InHand
<1>2. CASE SelectReturns \/ SkipFlow \/ PassEnd
  BY <1>2, SelectKeeps
<1>3. ASSUME NEW f \in Flows, Recv(f) \/ Closes(f) \/ Send(f) \/ SendDone(f)
      PROVE  RelayInv'
  BY <1>3, RecvKeeps, CloseKeeps, SendKeeps, DoneKeeps
<1>4. ASSUME NEW f \in Flows, PeerWrites(f) \/ PeerReads(f) \/ PeerEnds(f) \/ PeerResets(f)
      PROVE  RelayInv'
  BY <1>4, WriteKeeps, ReadKeeps, EndKeeps, ResetKeeps
<1>5. CASE Tick
  BY <1>5, TickKeeps
<1>6. TimedOut => \E f \in Flows : Closes(f)
  BY DEF TimedOut, Expired, Closes
<1>7. \A f \in Flows : RecvEnds(f) \/ SendFails(f) => Closes(f)
  BY DEF Closes
<1> QED BY <1>1, <1>2, <1>3, <1>4, <1>5, <1>6, <1>7 DEF Next, Loop

LEMMA RelayInvariant == Spec => []RelayInv
BY InvInitially, InvStep, PTL DEF Spec

\* forward_data() hands its buffer neither more than it holds nor more than the
\* kernel has room for, whatever the sizes and however sends are cut short.
THEOREM RelayTyped == Spec => []TypeOK
<1>1. RelayInv => TypeOK
  BY DEF RelayInv
<1> QED BY RelayInvariant, <1>1, PTL

\* No byte is lost while the connection lives: destination, kernel, buffer of
\* forward_data() and kernel again hold, in that order, all the source wrote.
THEOREM NothingLost == Spec => []Conserved
<1>1. RelayInv => Conserved
  BY DEF RelayInv
<1> QED BY RelayInvariant, <1>1, PTL

\* However a connection ends, each peer has read a prefix of what the other
\* wrote.
THEOREM PrefixDelivered == Spec => []DeliveredInOrder
<1>1. RelayInv => DeliveredInOrder
  BY DEF RelayInv
<1> QED BY RelayInvariant, <1>1, PTL

\* The byte counters of a connection count each byte taken from the source
\* once, through partial sends and chunks smaller than the buffer.
THEOREM EachByteCountedOnce == Spec => []CountersExact
<1>1. RelayInv => CountersExact
  BY DEF RelayInv
<1> QED BY RelayInvariant, <1>1, PTL

-----------------------------------------------------------------------------
(* Each direction of a connection is a byte pipe *)

Line(f)  == IF Reverse(f) \in reset THEN <<>> ELSE OnItsWay(f)
Lines    == [f \in Flows |-> Line(f)]
EndedNow == {f \in Flows : Ended(f)}

Implements == [Pipe!Next]_Pipe!pipeVars

LEMMA LineIs ==
  ASSUME TypeOK, NEW f \in Flows
  PROVE  /\ OnItsWay(f) \in Seq(Nat)
         /\ InHand(f) \o inq[f] \in Seq(Nat)
         /\ OnItsWay(f) = outq[f] \o (InHand(f) \o inq[f])
<1>1. outq[f] \in Seq(Nat) /\ InHand(f) \in Seq(Nat) /\ inq[f] \in Seq(Nat)
  BY FlowTypes
<1>2. InHand(f) \o inq[f] \in Seq(Nat)
  BY <1>1, ConcatProperties
<1>3. outq[f] \o (InHand(f) \o inq[f]) \in Seq(Nat)
  BY <1>1, <1>2, ConcatProperties
<1>4. (outq[f] \o InHand(f)) \o inq[f] = outq[f] \o (InHand(f) \o inq[f])
  BY <1>1, Associative
<1> QED BY <1>2, <1>3, <1>4 DEF OnItsWay

\* A step that moves bytes along, and none to or from the peers.
LEMMA Stutters ==
  ASSUME UNCHANGED <<written, got, alive, reset>>,
         \A f \in Flows : OnItsWay(f)' = OnItsWay(f)
  PROVE  Implements
<1>1. Lines' = Lines /\ EndedNow' = EndedNow
  BY DEF Lines, Line, EndedNow, Ended
<1> QED BY <1>1 DEF Implements, Pipe!pipeVars, Lines, Line, EndedNow

LEMMA WriteIsPut ==
  ASSUME RelayInv, NEW f \in Flows, PeerWrites(f)
  PROVE  Implements
<1> TypeOK
  BY DEF RelayInv
<1>1. /\ PairOf(f) \in alive /\ written' = [written EXCEPT ![f] = @ + 1]
      /\ inq' = [inq EXCEPT ![f] = Append(@, written[f] + 1)]
      /\ UNCHANGED <<loopVars, outq, got, eof, reset>>
  BY DEF PeerWrites
<1>2. EndedNow' = EndedNow
  BY <1>1 DEF EndedNow, Ended, loopVars
<1>3. \A g \in Flows : g # f => OnItsWay(g)' = OnItsWay(g)
  BY <1>1 DEF TypeOK, OnItsWay, InHand, loopVars
<1>4. OnItsWay(f)' = Append(OnItsWay(f), written[f] + 1)
  <2> DEFINE a == outq[f] \o InHand(f)
             x == written[f] + 1
  <2>1. a \in Seq(Nat) /\ inq[f] \in Seq(Nat) /\ x \in Nat /\ <<x>> \in Seq(Nat)
        /\ a \o inq[f] \in Seq(Nat)
    BY FlowTypes, LineIs, ConcatProperties DEF OnItsWay
  <2>2. OnItsWay(f)' = a \o Append(inq[f], x)
    BY <1>1 DEF TypeOK, OnItsWay, InHand, loopVars
  <2> HIDE DEF a, x
  <2>3. Append(inq[f], x) = inq[f] \o <<x>> /\ Append(a \o inq[f], x) = (a \o inq[f]) \o <<x>>
    BY <2>1, AppendIsConcat
  <2>4. (a \o inq[f]) \o <<x>> = a \o (inq[f] \o <<x>>)
    BY <2>1, Associative
  <2>5. OnItsWay(f)' = Append(a \o inq[f], x)
    BY <2>2, <2>3, <2>4
  <2> QED BY <2>5 DEF a, x, OnItsWay
<1>5. f \in EndedNow <=> Reverse(f) \in reset
  BY <1>1 DEF EndedNow, Ended
<1>6. Lines' = IF f \in EndedNow THEN Lines
                                 ELSE [Lines EXCEPT ![f] = Append(@, written[f] + 1)]
  BY <1>1, <1>3, <1>4, <1>5 DEF Lines, Line
<1>7. Pipe!Put(f)
  BY <1>1, <1>2, <1>6 DEF Pipe!Put, Lines, Line, EndedNow
<1> QED BY <1>7 DEF Implements, Pipe!Next

LEMMA ReadIsGet ==
  ASSUME RelayInv, NEW f \in Flows, PeerReads(f)
  PROVE  Implements
<1> TypeOK
  BY DEF RelayInv
<1>1. /\ outq[f] # <<>>
      /\ got' = [got EXCEPT ![f] = Append(@, Head(outq[f]))]
      /\ outq' = [outq EXCEPT ![f] = Tail(@)]
      /\ UNCHANGED <<loopVars, written, inq, eof, reset>>
  BY DEF PeerReads
<1>2. EndedNow' = EndedNow
  BY <1>1 DEF EndedNow, Ended, loopVars
<1>3. \A g \in Flows : g # f => OnItsWay(g)' = OnItsWay(g)
  BY <1>1 DEF TypeOK, OnItsWay, InHand, loopVars
<1>4. Reverse(f) \notin reset
  BY <1>1, FlowPairs DEF RelayInv, ResetEmpties
<1> DEFINE r == InHand(f) \o inq[f]
<1>5. /\ outq[f] \in Seq(Nat) /\ r \in Seq(Nat) /\ OnItsWay(f) = outq[f] \o r
      /\ InHand(f) \in Seq(Nat) /\ inq[f] \in Seq(Nat) /\ Tail(outq[f]) \in Seq(Nat)
  BY <1>1, FlowTypes, LineIs, HeadTailProperties
<1>6. OnItsWay(f)' = Tail(outq[f]) \o r
  <2>1. OnItsWay(f)' = (Tail(outq[f]) \o InHand(f)) \o inq[f]
    BY <1>1 DEF TypeOK, OnItsWay, InHand, loopVars
  <2>2. (Tail(outq[f]) \o InHand(f)) \o inq[f] = Tail(outq[f]) \o (InHand(f) \o inq[f])
    BY <1>5, Associative
  <2> QED BY <2>1, <2>2
<1> HIDE DEF r
<1>7. /\ OnItsWay(f) # <<>> /\ Head(OnItsWay(f)) = Head(outq[f])
      /\ Tail(OnItsWay(f)) = OnItsWay(f)'
  <2>1. /\ outq[f] \o r # <<>> /\ Head(outq[f] \o r) = Head(outq[f])
        /\ Tail(outq[f] \o r) = Tail(outq[f]) \o r
    BY <1>1, <1>5, HeadOfConcat
  <2> QED BY <1>5, <1>6, <2>1
<1>8. /\ Lines[f] = OnItsWay(f)
      /\ Lines' = [Lines EXCEPT ![f] = Tail(@)]
  BY <1>1, <1>3, <1>4, <1>7 DEF Lines, Line
<1>9. Pipe!Get(f)
  BY <1>1, <1>2, <1>7, <1>8 DEF Pipe!Get, Lines, Line, EndedNow
<1> QED BY <1>9 DEF Implements, Pipe!Next

LEMMA ResetIsCut ==
  ASSUME RelayInv, NEW f \in Flows, PeerResets(f)
  PROVE  Implements
<1> TypeOK
  BY DEF RelayInv
<1> DEFINE b == Reverse(f)
<1>1. /\ reset' = reset \cup {f} /\ outq' = [outq EXCEPT ![b] = <<>>]
      /\ UNCHANGED <<loopVars, written, inq, got, eof>>
  BY DEF PeerResets
<1>2. b \in Flows /\ \A g \in Flows : (Reverse(g) = f <=> g = b)
  BY FlowPairs
<1>3. EndedNow' = EndedNow \cup {b}
  BY <1>1, <1>2 DEF EndedNow, Ended, loopVars
<1>4. \A g \in Flows : g # b => Lines'[g] = Lines[g]
  BY <1>1, <1>2 DEF Lines, Line, TypeOK, OnItsWay, InHand, loopVars
<1>5. Lines'[b] = <<>> /\ DOMAIN Lines' = Flows
  BY <1>1, <1>2 DEF Lines, Line
<1>6. Lines[b] \in Seq(Nat)
  BY <1>2, LineIs, EmptySeq DEF Lines, Line
<1>7. Len(Lines'[b]) <= Len(Lines[b]) /\ Lines'[b] = SubSeq(Lines[b], 1, Len(Lines'[b]))
  BY <1>5, <1>6, EmptySeq, SubSeqEmpty, LenProperties
<1>8. Pipe!Cut({b})
  BY <1>1, <1>2, <1>3, <1>4, <1>5, <1>7 DEF Pipe!Cut, Lines, Line, EndedNow
<1> QED BY <1>2, <1>8 DEF Implements, Pipe!Next

LEMMA CloseIsCut ==
  ASSUME RelayInv, NEW f \in Flows, Closes(f)
  PROVE  Implements
<1> TypeOK
  BY DEF RelayInv
<1> DEFINE p == PairOf(f)
           F == {g \in Flows : PairOf(g) = p}
<1>1. /\ at = f /\ pc' = "recv" /\ alive' = alive \ {p}
      /\ inq' = [g \in Flows |-> IF PairOf(g) = p THEN <<>> ELSE inq[g]]
      /\ outq' = [g \in Flows |->
                    IF PairOf(g) = p /\ inq[Reverse(g)] # <<>> THEN <<>> ELSE outq[g]]
      /\ UNCHANGED <<buffer, bytes_sent, counted, written, got, eof, reset>>
  BY DEF Closes, RecvEnds, SendFails, TimedOut, AtFlow, CloseAll, Served
<1>2. EndedNow' = EndedNow \cup F
  BY <1>1 DEF EndedNow, Ended
<1>3. ASSUME NEW g \in Flows \ F PROVE Lines'[g] = Lines[g]
  <2>1. /\ g # f /\ inq'[g] = inq[g] /\ outq'[g] = outq[g]
        /\ InHand(g) = <<>> /\ InHand(g)' = <<>>
    BY <1>1 DEF InHand
  <2> QED BY <1>1, <2>1 DEF Lines, Line, OnItsWay
<1>4. ASSUME NEW g \in F
      PROVE  /\ Len(Lines'[g]) <= Len(Lines[g])
             /\ Lines'[g] = SubSeq(Lines[g], 1, Len(Lines'[g]))
  <2>1. Lines[g] \in Seq(Nat) /\ Len(Lines[g]) \in Nat
    BY LineIs, EmptySeq, LenProperties DEF Lines, Line
  <2>2. CASE Lines'[g] = <<>>
    BY <2>1, <2>2, EmptySeq, SubSeqEmpty
  <2>3. CASE Lines'[g] # <<>>
    <3>1. /\ inq'[g] = <<>> /\ InHand(g)' = <<>> /\ outq'[g] \in {<<>>, outq[g]}
          /\ Reverse(g) \notin reset /\ Lines[g] = OnItsWay(g)
          /\ Lines'[g] = outq'[g] \o <<>> \o <<>>
      BY <1>1, <2>3 DEF Lines, Line, OnItsWay, InHand
    <3>2. outq'[g] \in Seq(Nat)
      BY <3>1, FlowTypes, EmptySeq
    <3>3. Lines'[g] = outq'[g]
      BY <3>1, <3>2, ConcatEmptySeq
    <3>4. Lines'[g] = outq[g]
      BY <2>3, <3>1, <3>3
    <3>5. Lines[g] = outq[g] \o (InHand(g) \o inq[g])
      BY <3>1, LineIs
    <3> QED BY <3>4, <3>5, FirstOfConcat, LineIs, FlowTypes
  <2> QED BY <2>2, <2>3
<1>5. DOMAIN Lines' = Flows /\ F \in SUBSET Flows
  BY DEF Lines
<1> HIDE DEF F
<1>6. Pipe!Cut(F)
  BY <1>1, <1>2, <1>3, <1>4, <1>5 DEF Pipe!Cut, Lines, Line, EndedNow
<1> QED BY <1>5, <1>6 DEF Implements, Pipe!Next

LEMMA StepImplements == RelayInv /\ [Next]_vars => Implements
<1> SUFFICES ASSUME RelayInv, [Next]_vars PROVE Implements
  OBVIOUS
<1> TypeOK
  BY DEF RelayInv
<1>1. CASE UNCHANGED vars
  BY <1>1, Stutters DEF vars, OnItsWay, InHand
<1>2. CASE SelectReturns \/ SkipFlow \/ PassEnd
  <2>1. /\ pc # "send" /\ pc' # "send"
        /\ UNCHANGED <<alive, written, inq, outq, got, reset>>
    BY <1>2 DEF SelectReturns, SkipFlow, PassEnd, Served
  <2> QED BY <2>1, Stutters DEF OnItsWay, InHand
<1>3. ASSUME NEW f \in Flows, Recv(f) PROVE Implements
  <2> DEFINE taken == First(Smaller(BufferSize, Len(inq[f])), inq[f])
             left  == Rest(Smaller(BufferSize, Len(inq[f])), inq[f])
  <2>1. taken \in Seq(Nat) /\ left \in Seq(Nat) /\ taken \o left = inq[f]
    BY ChunkIs
  <2>2. /\ pc = "recv" /\ pc' = "send" /\ at = f /\ at' = at
        /\ buffer' = taken /\ bytes_sent' = 0 /\ inq' = [inq EXCEPT ![f] = left]
        /\ UNCHANGED <<alive, written, outq, got, reset>>
    BY <1>3 DEF Recv, RecvTakes, AtFlow
  <2> HIDE DEF taken, left
  <2>3. Rest(0, taken) = taken /\ outq[f] \in Seq(Nat) /\ outq[f] \o <<>> = outq[f]
    BY <2>1, FlowTypes, SubSeqFull, ConcatEmptySeq DEF Rest
  <2>4. (outq[f] \o taken) \o left = outq[f] \o (taken \o left)
    BY <2>1, <2>3, Associative
  <2>5. ASSUME NEW g \in Flows PROVE OnItsWay(g)' = OnItsWay(g)
    <3>1. CASE g = f
      <4>1. OnItsWay(f)' = (outq[f] \o taken) \o left
        BY <2>2, <2>3 DEF TypeOK, OnItsWay, InHand
      <4>2. OnItsWay(f) = outq[f] \o inq[f]
        BY <2>2, <2>3 DEF OnItsWay, InHand
      <4> QED BY <2>1, <2>4, <3>1, <4>1, <4>2
    <3>2. CASE g # f
      BY <2>2, <3>2 DEF TypeOK, OnItsWay, InHand
    <3> QED BY <3>1, <3>2
  <2> QED BY <2>2, <2>5, Stutters
<1>4. ASSUME NEW f \in Flows, Send(f) PROVE Implements
  <2>1. PICK sent \in 1 .. Smaller(Len(buffer) - bytes_sent, KernelBuf - Len(outq[f])) :
          /\ outq' = [outq EXCEPT ![f] =
                        @ \o SubSeq(buffer, bytes_sent + 1, bytes_sent + sent)]
          /\ bytes_sent' = bytes_sent + sent
    BY <1>4 DEF Send, SendFrom
  <2>2. /\ pc = "send" /\ at = f
        /\ UNCHANGED <<pc, at, alive, buffer, written, inq, got, reset>>
    BY <1>4 DEF Send, SendFrom
  <2> DEFINE piece == SubSeq(buffer, bytes_sent + 1, bytes_sent + sent)
             after == Rest(bytes_sent + sent, buffer)
  <2>3. /\ buffer \in Seq(Nat) /\ bytes_sent \in 0 .. Len(buffer) /\ sent \in Nat
        /\ bytes_sent + sent <= Len(buffer) /\ bytes_sent + sent \in 0 .. Len(buffer)
    <3>1. /\ buffer \in Seq(Nat) /\ Len(buffer) \in Nat /\ bytes_sent \in 0 .. Len(buffer)
          /\ Len(outq[f]) \in Nat
      BY FlowTypes, LenProperties DEF TypeOK
    <3> QED BY <2>1, <3>1, RelayAssumption DEF Smaller
  <2>4. /\ piece \in Seq(Nat) /\ after \in Seq(Nat)
        /\ piece \o after = Rest(bytes_sent, buffer)
    BY <2>3, NextOfRest, FirstAndRest
  <2>5. outq'[f] = outq[f] \o piece /\ outq[f] \in Seq(Nat)
    BY <2>1, FlowTypes DEF TypeOK
  <2> HIDE DEF piece
  <2>6. (outq[f] \o piece) \o after = outq[f] \o (piece \o after)
    BY <2>4, <2>5, Associative
  <2>7. ASSUME NEW g \in Flows PROVE OnItsWay(g)' = OnItsWay(g)
    <3>1. CASE g = f
      <4>1. OnItsWay(f)' = ((outq[f] \o piece) \o after) \o inq[f]
        BY <2>1, <2>2, <2>5 DEF OnItsWay, InHand
      <4>2. OnItsWay(f) = (outq[f] \o Rest(bytes_sent, buffer)) \o inq[f]
        BY <2>2 DEF OnItsWay, InHand
      <4> QED BY <2>4, <2>6, <3>1, <4>1, <4>2
    <3>2. CASE g # f
      BY <2>1, <2>2, <3>2 DEF TypeOK, OnItsWay, InHand
    <3> QED BY <3>1, <3>2
  <2> QED BY <2>2, <2>7, Stutters
<1>5. ASSUME NEW f \in Flows, SendDone(f) PROVE Implements
  <2>1. /\ pc = "send" /\ pc' = "recv" /\ at = f /\ bytes_sent = Len(buffer)
        /\ UNCHANGED <<alive, buffer, bytes_sent, written, inq, outq, got, reset>>
    BY <1>5 DEF SendDone, SendDoneIf, Served
  <2>2. Rest(bytes_sent, buffer) = <<>>
    BY <2>1, SubSeqEmpty, LenProperties DEF TypeOK, Rest
  <2>3. \A g \in Flows : OnItsWay(g)' = OnItsWay(g)
    BY <2>1, <2>2 DEF OnItsWay, InHand
  <2> QED BY <2>1, <2>3, Stutters
<1>6. ASSUME NEW f \in Flows, Closes(f) PROVE Implements
  BY <1>6, CloseIsCut
<1>7. ASSUME NEW f \in Flows, PeerEnds(f) PROVE Implements
  <2>1. UNCHANGED <<pc, at, buffer, bytes_sent, alive, written, inq, outq, got, reset>>
    BY <1>7 DEF PeerEnds, loopVars
  <2> QED BY <2>1, Stutters DEF OnItsWay, InHand
<1>8. ASSUME NEW f \in Flows, PeerWrites(f) \/ PeerReads(f) \/ PeerResets(f)
      PROVE  Implements
  BY <1>8, WriteIsPut, ReadIsGet, ResetIsCut
<1>9. CASE Tick
  <2>1. UNCHANGED <<pc, at, buffer, bytes_sent, alive, written, inq, outq, got, reset>>
    BY <1>9 DEF Tick
  <2> QED BY <2>1, Stutters DEF OnItsWay, InHand
<1>10. TimedOut => \E f \in Flows : Closes(f)
  BY DEF TimedOut, Expired, Closes
<1>11. \A f \in Flows : RecvEnds(f) \/ SendFails(f) => Closes(f)
  BY DEF Closes
<1> QED BY <1>1, <1>2, <1>3, <1>4, <1>5, <1>6, <1>7, <1>8, <1>9, <1>10, <1>11
        DEF Next, Loop

LEMMA InitImplements == Init => Pipe!Init
<1> SUFFICES ASSUME Init PROVE Pipe!Init
  OBVIOUS
<1>1. <<>> \o <<>> = <<>>
  BY EmptySeq, ConcatEmptySeq
<1>2. \A f \in Flows : OnItsWay(f) = <<>>
  BY <1>1 DEF Init, OnItsWay, InHand
<1>3. \A f \in Flows : ~Ended(f)
  BY FlowPairs DEF Init, Ended
<1> QED BY <1>2, <1>3 DEF Init, Pipe!Init

\* Under the event loop each direction of a connection is a first-in first-out
\* pipe of bytes, cut when the connection ends: reading in chunks, sending in
\* pieces, retrying and closing add nothing a peer could tell from a pipe.
THEOREM PipePerDirection == Spec => ImplementsPipe
<1>1. RelayInv /\ [Next]_vars => [Pipe!Next]_Pipe!pipeVars
  BY StepImplements DEF Implements
<1> QED BY <1>1, InitImplements, RelayInvariant, PTL DEF Spec, ImplementsPipe, Pipe!Spec

=============================================================================
