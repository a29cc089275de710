------------------------- MODULE HybridRelayProofs -------------------------
(***************************************************************************)
(* Machine-checked proofs about the relay over the hybrid transport: what  *)
(* each side reads is in the order the other one wrote it, none of it      *)
(* twice, and the counters of the entry count what was really handed over, *)
(* for every number of bytes and every size of the buffers.                *)
(***************************************************************************)
EXTENDS HybridRelay, DataLemmas

-----------------------------------------------------------------------------
(* The inductive invariant *)

Below(s, m) == \A i \in 1 .. Len(s) : s[i] <= m

Control ==
  /\ pc # "select" => alive
  /\ (alive /\ pc # "send") => (buffer = <<>> /\ sent_now = 0)

\* Each end was given some of the bytes the other one accepted, in their order.
StreamSound ==
  /\ delivered \in [{1, 2} -> Seq(Nat)]
  /\ accepted[2] <= TargetLimit
  /\ \A n \in {1, 2} :
       /\ Rising(delivered[n])
       /\ \A i \in 1 .. Len(delivered[n]) : delivered[n][i] \in 1 .. accepted[Peer(n)]

\* Of the client's bytes, those the transport took come before those still to
\* be read, and the rest are gone.
ToTarget ==
  /\ taken \in Seq(Nat) /\ inq \in Seq(Nat)
  /\ Rising(taken \o inq) /\ Below(taken \o inq, written)
  /\ accepted[1] + Len(inq) <= written
  /\ bytes_sent <= accepted[1]

\* Of the target's bytes, those the client has, will have and those in the
\* buffer are some of the bytes the transport gave up.
ToClient ==
  /\ got \in Seq(Nat) /\ outq \in Seq(Nat)
  /\ Rising(got \o outq \o Rest(sent_now, buffer))
  /\ Below(got \o outq \o Rest(sent_now, buffer), Stream!LastOf(1))
  /\ bytes_received + Len(buffer) <= Len(delivered[1])

HybridInv ==
  /\ TypeOK /\ Control /\ StreamSound /\ ToTarget /\ ToClient /\ CountersHonest

-----------------------------------------------------------------------------
(* Rising sequences *)

Ahead(s, t) == \A i \in 1 .. Len(s), j \in 1 .. Len(t) : s[i] < t[j]

LEMMA RisingParts ==
  ASSUME NEW s \in Seq(Nat), NEW t \in Seq(Nat)
  PROVE  Rising(s \o t) <=> Rising(s) /\ Rising(t) /\ Ahead(s, t)
<1> DEFINE st == s \o t
<1>1. /\ Len(s) \in Nat /\ Len(t) \in Nat /\ Len(st) = Len(s) + Len(t)
      /\ \A i \in 1 .. Len(s) + Len(t) :
           st[i] = IF i <= Len(s) THEN s[i] ELSE t[i - Len(s)]
  BY LenProperties, ConcatProperties
<1> HIDE DEF st
<1>2. \A i \in 1 .. Len(s) : i \in 1 .. Len(st) /\ st[i] = s[i]
  BY <1>1
<1>3. \A j \in 1 .. Len(t) : Len(s) + j \in 1 .. Len(st) /\ st[Len(s) + j] = t[j]
  <2> SUFFICES ASSUME NEW j \in 1 .. Len(t)
               PROVE  Len(s) + j \in 1 .. Len(st) /\ st[Len(s) + j] = t[j]
    OBVIOUS
  <2>1. /\ Len(s) + j \in 1 .. Len(s) + Len(t) /\ ~(Len(s) + j <= Len(s))
        /\ (Len(s) + j) - Len(s) = j
    BY <1>1
  <2> QED BY <1>1, <2>1
<1>4. ASSUME Rising(st) PROVE Rising(s) /\ Rising(t) /\ Ahead(s, t)
  <2>1. Rising(s)
    BY <1>2, <1>4 DEF Rising
  <2>2. ASSUME NEW i \in 1 .. Len(t), NEW j \in 1 .. Len(t), i < j PROVE t[i] < t[j]
    <3>1. Len(s) + i < Len(s) + j
      BY <1>1, <2>2
    <3> QED BY <1>3, <1>4, <3>1 DEF Rising
  <2>3. ASSUME NEW i \in 1 .. Len(s), NEW j \in 1 .. Len(t) PROVE s[i] < t[j]
    <3>1. i < Len(s) + j
      BY <1>1
    <3> QED BY <1>2, <1>3, <1>4, <3>1 DEF Rising
  <2> QED BY <2>1, <2>2, <2>3 DEF Rising, Ahead
<1>5. ASSUME Rising(s), Rising(t), Ahead(s, t) PROVE Rising(st)
  <2> SUFFICES ASSUME NEW i \in 1 .. Len(st), NEW j \in 1 .. Len(st), i < j
               PROVE  st[i] < st[j]
    BY DEF Rising
  <2>1. CASE j <= Len(s)
    BY <1>1, <1>2, <1>5, <2>1 DEF Rising
  <2>2. CASE i <= Len(s) /\ ~(j <= Len(s))
    <3>1. j - Len(s) \in 1 .. Len(t) /\ i \in 1 .. Len(s)
      BY <1>1, <2>2
    <3> QED BY <1>1, <1>5, <2>2, <3>1 DEF Ahead
  <2>3. CASE ~(i <= Len(s))
    <3>1. /\ i - Len(s) \in 1 .. Len(t) /\ j - Len(s) \in 1 .. Len(t)
          /\ i - Len(s) < j - Len(s) /\ ~(j <= Len(s))
      BY <1>1, <2>3
    <3> QED BY <1>1, <1>5, <2>3, <3>1 DEF Rising
  <2> QED BY <1>1, <2>1, <2>2, <2>3
<1> QED BY <1>4, <1>5 DEF st

LEMMA BelowParts ==
  ASSUME NEW s \in Seq(Nat), NEW t \in Seq(Nat), NEW m
  PROVE  Below(s \o t, m) <=> Below(s, m) /\ Below(t, m)
<1> DEFINE st == s \o t
<1>1. /\ Len(s) \in Nat /\ Len(t) \in Nat /\ Len(st) = Len(s) + Len(t)
      /\ \A i \in 1 .. Len(s) + Len(t) :
           st[i] = IF i <= Len(s) THEN s[i] ELSE t[i - Len(s)]
  BY LenProperties, ConcatProperties
<1> HIDE DEF st
<1>2. \A i \in 1 .. Len(s) : i \in 1 .. Len(st) /\ st[i] = s[i]
  BY <1>1
<1>3. ASSUME NEW j \in 1 .. Len(t)
      PROVE  Len(s) + j \in 1 .. Len(st) /\ st[Len(s) + j] = t[j]
  <2>1. /\ Len(s) + j \in 1 .. Len(s) + Len(t) /\ ~(Len(s) + j <= Len(s))
        /\ (Len(s) + j) - Len(s) = j
    BY <1>1
  <2> QED BY <1>1, <2>1
<1>4. ASSUME Below(st, m) PROVE Below(s, m) /\ Below(t, m)
  BY <1>2, <1>3, <1>4 DEF Below
<1>5. ASSUME Below(s, m), Below(t, m) PROVE Below(st, m)
  <2> SUFFICES ASSUME NEW i \in 1 .. Len(st) PROVE st[i] <= m
    BY DEF Below
  <2>1. CASE i <= Len(s)
    BY <1>1, <1>5, <2>1 DEF Below
  <2>2. CASE ~(i <= Len(s))
    <3>1. i - Len(s) \in 1 .. Len(t)
      BY <1>1, <2>2
    <3> QED BY <1>1, <1>5, <2>2, <3>1 DEF Below
  <2> QED BY <2>1, <2>2
<1> QED BY <1>4, <1>5 DEF st

\* A piece of a rising sequence.
LEMMA PieceRises ==
  ASSUME NEW s \in Seq(Nat), NEW m \in 1 .. Len(s) + 1, NEW n \in 0 .. Len(s), m <= n + 1
  PROVE  /\ SubSeq(s, m, n) \in Seq(Nat) /\ Len(SubSeq(s, m, n)) = n - m + 1
         /\ Rising(s) => Rising(SubSeq(s, m, n))
         /\ \A i \in 1 .. Len(SubSeq(s, m, n)) :
              /\ SubSeq(s, m, n)[i] = s[m + i - 1]
              /\ m + i - 1 \in 1 .. Len(s)
<1> DEFINE p == SubSeq(s, m, n)
<1>1. /\ Len(s) \in Nat /\ m \in Int /\ n \in Int
      /\ \A i \in m .. n : s[i] \in Nat
  <2>1. Len(s) \in Nat /\ \A i \in 1 .. Len(s) : s[i] \in Nat
    BY LenProperties
  <2> QED BY <2>1
<1>2. p \in Seq(Nat)
  BY <1>1, SubSeqProperties
<1>3. Len(p) = n - m + 1
  BY <1>1, SubSeqProperties
<1>0. \A i \in 1 .. n - m + 1 : p[i] = s[m + i - 1]
  BY <1>1, SubSeqProperties
<1> HIDE DEF p
<1>4. \A i \in 1 .. Len(p) : p[i] = s[m + i - 1] /\ m + i - 1 \in 1 .. Len(s)
  BY <1>0, <1>1, <1>3
<1>5. ASSUME Rising(s), NEW i \in 1 .. Len(p), NEW j \in 1 .. Len(p), i < j
      PROVE  p[i] < p[j]
  <2>1. m + i - 1 < m + j - 1
    BY <1>1, <1>3, <1>5
  <2> QED BY <1>4, <1>5, <2>1 DEF Rising
<1> QED BY <1>2, <1>3, <1>4, <1>5 DEF p, Rising

\* p is some of the elements of s, in rising order.
Part(p, s) ==
  /\ Rising(p)
  /\ \A i \in 1 .. Len(p) : \E j \in 1 .. Len(s) : p[i] = s[j]

LEMMA NothingIsPart ==
  ASSUME NEW s
  PROVE  <<>> \in Seq(Nat) /\ Part(<<>>, s) /\ Rising(<<>>)
BY EmptySeq DEF Part, Rising

LEMMA WholeIsPart ==
  ASSUME NEW s \in Seq(Nat), Rising(s)
  PROVE  Part(s, s)
BY DEF Part

LEMMA PieceIsPart ==
  ASSUME NEW s \in Seq(Nat), Rising(s),
         NEW m \in 1 .. Len(s) + 1, NEW n \in 0 .. Len(s), m <= n + 1
  PROVE  SubSeq(s, m, n) \in Seq(Nat) /\ Part(SubSeq(s, m, n), s)
<1> DEFINE p == SubSeq(s, m, n)
<1>1. /\ p \in Seq(Nat) /\ Rising(p)
      /\ \A i \in 1 .. Len(p) : p[i] = s[m + i - 1] /\ m + i - 1 \in 1 .. Len(s)
  BY PieceRises
<1> HIDE DEF p
<1>2. Part(p, s)
  BY <1>1 DEF Part
<1> QED BY <1>1, <1>2 DEF p

LEMMA PartIsBelow ==
  ASSUME NEW p, NEW s, NEW m, Part(p, s), Below(s, m)
  PROVE  Below(p, m)
BY DEF Part, Below

LEMMA PartsOfConcat ==
  ASSUME NEW s \in Seq(Nat), NEW t \in Seq(Nat), Rising(s \o t),
         NEW p \in Seq(Nat), NEW q \in Seq(Nat), Part(p, s), Part(q, t)
  PROVE  p \o q \in Seq(Nat) /\ Part(p \o q, s \o t)
<1>1. Rising(s) /\ Rising(t) /\ Ahead(s, t)
  BY RisingParts
<1>2. Ahead(p, q)
  BY <1>1 DEF Part, Ahead
<1>3. Rising(p \o q)
  BY <1>2, RisingParts DEF Part
<1> DEFINE st == s \o t   pq == p \o q
<1>4. /\ Len(s) \in Nat /\ Len(t) \in Nat /\ Len(p) \in Nat /\ Len(q) \in Nat
  BY LenProperties
<1>5. /\ Len(st) = Len(s) + Len(t)
      /\ \A i \in 1 .. Len(s) + Len(t) :
           st[i] = IF i <= Len(s) THEN s[i] ELSE t[i - Len(s)]
  BY ConcatProperties
<1>6. pq \in Seq(Nat)
  BY ConcatProperties
<1>7. /\ Len(pq) = Len(p) + Len(q)
      /\ \A i \in 1 .. Len(p) + Len(q) :
           pq[i] = IF i <= Len(p) THEN p[i] ELSE q[i - Len(p)]
  BY ConcatProperties
<1> HIDE DEF st, pq
<1>8. ASSUME NEW i \in 1 .. Len(pq) PROVE \E j \in 1 .. Len(st) : pq[i] = st[j]
  <2>1. CASE i <= Len(p)
    <3>1. PICK j \in 1 .. Len(s) : p[i] = s[j]
      BY <1>4, <1>7, <2>1 DEF Part
    <3>2. st[j] = s[j] /\ j \in 1 .. Len(st)
      BY <1>4, <1>5
    <3>3. pq[i] = p[i]
      BY <1>4, <1>7, <2>1
    <3> QED BY <3>1, <3>2, <3>3
  <2>2. CASE ~(i <= Len(p))
    <3>1. i - Len(p) \in 1 .. Len(q)
      BY <1>4, <1>7, <2>2
    <3>2. PICK j \in 1 .. Len(t) : q[i - Len(p)] = t[j]
      BY <3>1 DEF Part
    <3>3. /\ Len(s) + j \in 1 .. Len(s) + Len(t) /\ ~(Len(s) + j <= Len(s))
          /\ (Len(s) + j) - Len(s) = j
      BY <1>4
    <3>4. st[Len(s) + j] = t[j]
      BY <1>5, <3>3
    <3> QED BY <1>5, <1>7, <2>2, <3>2, <3>3, <3>4
  <2> QED BY <1>4, <1>7, <2>1, <2>2
<1> QED BY <1>3, <1>6, <1>8 DEF Part, st, pq

\* What follows the first n elements is all of them, or nothing.
LEMMA RestIs ==
  ASSUME NEW s \in Seq(Nat)
  PROVE  /\ Rest(0, s) = s
         /\ \A n \in 0 .. Len(s) : Rest(n, s) \in Seq(Nat) /\ Len(Rest(n, s)) = Len(s) - n
<1>1. Len(s) \in Nat
  BY LenProperties
<1>2. ASSUME NEW n \in 0 .. Len(s)
      PROVE  Rest(n, s) \in Seq(Nat) /\ Len(Rest(n, s)) = Len(s) - n
  <2>1. n + 1 \in 1 .. Len(s) + 1 /\ Len(s) \in 0 .. Len(s) /\ n + 1 <= Len(s) + 1
    BY <1>1
  <2>2. /\ SubSeq(s, n + 1, Len(s)) \in Seq(Nat)
        /\ Len(SubSeq(s, n + 1, Len(s))) = Len(s) - (n + 1) + 1
    BY <2>1, PieceRises
  <2> QED BY <1>1, <2>2 DEF Rest
<1>3. Rest(0, s) = s
  <2> DEFINE r == Rest(0, s)
  <2>1. 0 + 1 \in 1 .. Len(s) + 1 /\ Len(s) \in 0 .. Len(s) /\ 0 + 1 <= Len(s) + 1
    BY <1>1
  <2>2. /\ r \in Seq(Nat) /\ Len(r) = Len(s) - (0 + 1) + 1
        /\ \A i \in 1 .. Len(r) : r[i] = s[(0 + 1) + i - 1]
    BY <2>1, PieceRises DEF Rest
  <2> HIDE DEF r
  <2>3. Len(r) = Len(s) /\ \A i \in 1 .. Len(r) : r[i] = s[i]
    BY <1>1, <2>2
  <2>4. r = s
    BY <2>2, <2>3, SeqEqual
  <2> QED BY <2>4 DEF r
<1> QED BY <1>2, <1>3

-----------------------------------------------------------------------------
(* What is left alone stays as it was *)

LEMMA StreamSame ==
  ASSUME StreamSound, UNCHANGED <<accepted, delivered>>
  PROVE  StreamSound'
BY DEF StreamSound, Rising

LEMMA ToTargetSame ==
  ASSUME ToTarget, UNCHANGED <<taken, inq, written, accepted, bytes_sent>>
  PROVE  ToTarget'
BY DEF ToTarget, Rising, Below

LEMMA ToClientSame ==
  ASSUME ToClient, UNCHANGED <<got, outq, sent_now, buffer, delivered, bytes_received>>
  PROVE  ToClient'
<1> DEFINE way == got \o outq \o Rest(sent_now, buffer)
<1>1. way' = way /\ Stream!LastOf(1)' = Stream!LastOf(1)
  BY DEF Rest, Stream!LastOf
<1>2. Rising(way)' /\ Below(way, Stream!LastOf(1))'
  <2>1. Rising(way) /\ Below(way, Stream!LastOf(1))
    BY DEF ToClient
  <2> HIDE DEF way
  <2> QED BY <1>1, <2>1 DEF Rising, Below
<1>3. /\ got' \in Seq(Nat) /\ outq' \in Seq(Nat)
      /\ bytes_received' + Len(buffer') <= Len(delivered'[1])
  BY DEF ToClient
<1> QED BY <1>2, <1>3 DEF ToClient

\* The steps that move no byte.
LEMMA IdleKeeps ==
  ASSUME HybridRelayAssumption, HybridInv,
         SelectReturns \/ SelectWoken \/ ClientQuiet \/ FromClientEof \/ PollEmpty
           \/ Tick
  PROVE  HybridInv'
<1> USE DEF connVars, callVars, clientVars, streamVars
<1>1. UNCHANGED <<alive, buffer, sent_now, bytes_sent, bytes_received, written, inq,
                  outq, got, client_end, taken, accepted, delivered, up>>
  BY DEF SelectReturns, SelectWoken, ClientQuiet, FromClientEof, PollEmpty, Tick
<1>2. TypeOK /\ Control
  BY DEF HybridInv
<1>3. pc' \in {"select", "client", "poll", "send"} /\ client_ready' \in BOOLEAN
  BY <1>2 DEF TypeOK, Readable, SelectReturns, SelectWoken, ClientQuiet, FromClientEof,
              PollEmpty, Tick
<1>4. last_activity' \in 0 .. ConnTimeout + 1
  <2>1. last_activity \in 0 .. ConnTimeout + 1 /\ ConnTimeout \in Nat
    BY <1>2 DEF TypeOK, HybridRelayAssumption
  <2>2. CASE Tick
    BY <2>1, <2>2 DEF Tick, Smaller
  <2>3. CASE ~Tick
    <3>1. last_activity' = last_activity
      BY <2>3 DEF SelectReturns, SelectWoken, ClientQuiet, FromClientEof, PollEmpty,
                  Touched
    <3> QED BY <2>1, <3>1
  <2> QED BY <2>2, <2>3
<1>5. Control'
  BY <1>1, <1>2 DEF Control, SelectReturns, SelectWoken, ClientQuiet, FromClientEof,
                    PollEmpty, Tick, AtClient
<1>6. TypeOK'
  BY <1>1, <1>2, <1>3, <1>4 DEF TypeOK
<1>7. StreamSound' /\ ToTarget' /\ ToClient'
  BY <1>1, StreamSame, ToTargetSame, ToClientSame DEF HybridInv
<1>8. CountersHonest'
  BY <1>1 DEF HybridInv, CountersHonest
<1> QED BY <1>5, <1>6, <1>7, <1>8 DEF HybridInv

LEMMA DownKeeps ==
  ASSUME HybridInv, TransportGoesDown
  PROVE  HybridInv'
<1>1. UNCHANGED <<pc, client_ready, alive, buffer, sent_now, bytes_sent, bytes_received,
                  last_activity, written, inq, outq, got, client_end, taken, accepted,
                  delivered>>
  BY DEF TransportGoesDown, Stream!GoDown, connVars, callVars, clientVars
<1>2. up' \subseteq up
  BY DEF TransportGoesDown, Stream!GoDown
<1>3. TypeOK' /\ Control'
  BY <1>1, <1>2 DEF HybridInv, TypeOK, Control
<1>4. StreamSound' /\ ToTarget' /\ ToClient'
  BY <1>1, StreamSame, ToTargetSame, ToClientSame DEF HybridInv
<1>5. CountersHonest'
  BY <1>1 DEF HybridInv, CountersHonest
<1> QED BY <1>3, <1>4, <1>5 DEF HybridInv

-----------------------------------------------------------------------------
(* The stream *)

LEMMA LastIsGreatest ==
  ASSUME NEW s \in Seq(Nat), Rising(s)
  PROVE  /\ s = <<>> => Len(s) = 0
         /\ s # <<>> => Len(s) \in 1 .. Len(s) /\ s[Len(s)] \in Nat /\ Below(s, s[Len(s)])
<1>1. Len(s) \in Nat /\ \A i \in 1 .. Len(s) : s[i] \in Nat
  BY LenProperties
<1>2. s = <<>> => Len(s) = 0
  BY EmptySeq
<1>3. ASSUME s # <<>>
      PROVE  Len(s) \in 1 .. Len(s) /\ s[Len(s)] \in Nat /\ Below(s, s[Len(s)])
  <2>1. Len(s) \in 1 .. Len(s) /\ s[Len(s)] \in Nat
    BY <1>1, <1>3, EmptySeq
  <2>2. ASSUME NEW i \in 1 .. Len(s) PROVE s[i] <= s[Len(s)]
    BY <1>1, <2>1 DEF Rising
  <2> QED BY <2>1, <2>2 DEF Below
<1> QED BY <1>2, <1>3

\* Both modules mean the same number of elements.
LEMMA SameList ==
  ASSUME NEW S
  PROVE  Stream!Ascending(S) =
           [i \in 1 .. Cardinality(S) |->
              CHOOSE k \in S : Cardinality({j \in S : j <= k}) = i]
BY DEF Stream!Ascending, Cardinality, Stream!Cardinality

LEMMA ComingIs ==
  ASSUME StreamSound, accepted \in [{1, 2} -> Nat], NEW n \in {1, 2},
         NEW S \in SUBSET Stream!Coming(n)
  PROVE  /\ IsFiniteSet(S) /\ S \subseteq Nat
         /\ Stream!LastOf(n) \in Nat /\ Below(delivered[n], Stream!LastOf(n))
         /\ \A k \in S : k \in 1 .. accepted[Peer(n)] /\ Stream!LastOf(n) < k
<1>1. delivered[n] \in Seq(Nat) /\ Rising(delivered[n])
  BY DEF StreamSound
<1>2. Stream!LastOf(n) \in Nat /\ Below(delivered[n], Stream!LastOf(n))
  <2>1. CASE delivered[n] = <<>>
    BY <1>1, <2>1, LastIsGreatest DEF Stream!LastOf, Below
  <2>2. CASE delivered[n] # <<>>
    BY <1>1, <2>2, LastIsGreatest DEF Stream!LastOf
  <2> QED BY <2>1, <2>2
<1>3. Peer(n) \in {1, 2} /\ accepted[Peer(n)] \in Nat
  BY DEF Peer
<1>4. Stream!Coming(n) = (Stream!LastOf(n) + 1) .. accepted[Peer(n)]
  BY DEF Stream!Coming
<1>5. IsFiniteSet((Stream!LastOf(n) + 1) .. accepted[Peer(n)])
  <2>1. Stream!LastOf(n) + 1 \in Int /\ accepted[Peer(n)] \in Int
    BY <1>2, <1>3
  <2> QED BY <2>1, FS_Interval
<1>6. IsFiniteSet(S)
  BY <1>4, <1>5, FS_Subset
<1>7. \A k \in S : k \in Nat /\ k \in 1 .. accepted[Peer(n)] /\ Stream!LastOf(n) < k
  BY <1>2, <1>3, <1>4
<1> QED BY <1>2, <1>6, <1>7

LEMMA DeliverKeeps ==
  ASSUME StreamSound, accepted \in [{1, 2} -> Nat], NEW n \in {1, 2},
         NEW S \in SUBSET Stream!Coming(n), Stream!Deliver(n, S)
  PROVE  /\ StreamSound'
         /\ Stream!Ascending(S) \in Seq(Nat) /\ Rising(Stream!Ascending(S))
         /\ Len(Stream!Ascending(S)) = Cardinality(S)
         /\ \A i \in 1 .. Len(Stream!Ascending(S)) : Stream!Ascending(S)[i] \in S
         /\ delivered'[n] = delivered[n] \o Stream!Ascending(S)
         /\ \A g \in {1, 2} \ {n} : delivered'[g] = delivered[g]
         /\ UNCHANGED <<accepted, up>>
<1> DEFINE B == Stream!Ascending(S)
<1>1. /\ IsFiniteSet(S) /\ S \subseteq Nat
      /\ Stream!LastOf(n) \in Nat /\ Below(delivered[n], Stream!LastOf(n))
      /\ \A k \in S : k \in 1 .. accepted[Peer(n)] /\ Stream!LastOf(n) < k
  BY ComingIs
<1>2. /\ B \in Seq(S) /\ Len(B) = Cardinality(S)
      /\ \A i, j \in 1 .. Cardinality(S) : i < j => B[i] < B[j]
  BY <1>1, AscendingIs, SameList
<1>3. delivered' = [delivered EXCEPT ![n] = delivered[n] \o B] /\ UNCHANGED <<accepted, up>>
  BY DEF Stream!Deliver
<1> HIDE DEF B
<1>4. \A i \in 1 .. Len(B) : B[i] \in S
  BY <1>2, LenProperties
<1>5. B \in Seq(Nat)
  <2>1. Len(B) \in Nat /\ B = [i \in 1 .. Len(B) |-> B[i]]
    BY <1>2, LenProperties
  <2>2. \A i \in 1 .. Len(B) : B[i] \in Nat
    BY <1>1, <1>4
  <2> QED BY <2>1, <2>2, IsASeq
<1>6. Rising(B)
  BY <1>2 DEF Rising
<1>7. delivered \in [{1, 2} -> Seq(Nat)] /\ Rising(delivered[n])
  BY DEF StreamSound
<1>8. /\ delivered'[n] = delivered[n] \o B
      /\ \A g \in {1, 2} \ {n} : delivered'[g] = delivered[g]
  BY <1>3, <1>7
<1>9. delivered[n] \o B \in Seq(Nat)
  BY <1>5, <1>7, ConcatProperties
<1>10. delivered' \in [{1, 2} -> Seq(Nat)]
  BY <1>3, <1>7, <1>9
<1>11. Rising(delivered'[n])
  <2>1. Ahead(delivered[n], B)
    <3> SUFFICES ASSUME NEW i \in 1 .. Len(delivered[n]), NEW j \in 1 .. Len(B)
                 PROVE  delivered[n][i] < B[j]
      BY DEF Ahead
    <3>1. delivered[n][i] <= Stream!LastOf(n) /\ Stream!LastOf(n) < B[j]
      BY <1>1, <1>4 DEF Below
    <3>2. delivered[n][i] \in Nat /\ B[j] \in Nat
      BY <1>1, <1>4, <1>7, LenProperties
    <3> QED BY <1>1, <3>1, <3>2
  <2>2. delivered[n] \in Seq(Nat)
    BY <1>7
  <2> QED BY <1>5, <1>6, <1>7, <1>8, <2>1, <2>2, RisingParts
<1>12. \A i \in 1 .. Len(delivered'[n]) : delivered'[n][i] \in 1 .. accepted[Peer(n)]
  <2> DEFINE d == delivered[n]   e == delivered[n] \o B
  <2>1. /\ Len(d) \in Nat /\ Len(B) \in Nat /\ Len(e) = Len(d) + Len(B)
        /\ \A i \in 1 .. Len(d) + Len(B) :
             e[i] = IF i <= Len(d) THEN d[i] ELSE B[i - Len(d)]
    BY <1>5, <1>7, ConcatProperties, LenProperties
  <2>2. \A i \in 1 .. Len(d) : d[i] \in 1 .. accepted[Peer(n)]
    BY DEF StreamSound
  <2> HIDE DEF d, e
  <2>3. ASSUME NEW i \in 1 .. Len(e) PROVE e[i] \in 1 .. accepted[Peer(n)]
    <3>1. CASE i <= Len(d)
      BY <2>1, <2>2, <3>1
    <3>2. CASE ~(i <= Len(d))
      <4>1. i - Len(d) \in 1 .. Len(B)
        BY <2>1, <3>2
      <4> QED BY <1>1, <1>4, <2>1, <3>2, <4>1
    <3> QED BY <3>1, <3>2
  <2> QED BY <1>8, <2>3 DEF e
<1>13. StreamSound'
  <2>1. \A g \in {1, 2} :
          /\ Rising(delivered[g])
          /\ \A i \in 1 .. Len(delivered[g]) : delivered[g][i] \in 1 .. accepted[Peer(g)]
    BY DEF StreamSound
  <2>2. \A g \in {1, 2} : Rising(delivered'[g])
    BY <1>8, <1>11, <2>1
  <2>3. \A g \in {1, 2} :
          \A i \in 1 .. Len(delivered'[g]) : delivered'[g][i] \in 1 .. accepted'[Peer(g)]
    BY <1>3, <1>8, <1>12, <2>1
  <2>4. accepted'[2] <= TargetLimit
    BY <1>3 DEF StreamSound
  <2> QED BY <1>10, <2>2, <2>3, <2>4 DEF StreamSound, Rising, Peer
<1> QED BY <1>2, <1>3, <1>4, <1>5, <1>6, <1>8, <1>13 DEF B

\* A rising list of numbers from 1 to m is no longer than m.
LEMMA RisingIsShort ==
  ASSUME NEW m \in Nat, NEW s \in Seq(Nat), Rising(s),
         \A i \in 1 .. Len(s) : s[i] \in 1 .. m
  PROVE  Len(s) <= m
<1>1. Len(s) \in Nat /\ s = [i \in 1 .. Len(s) |-> s[i]]
  BY LenProperties
<1>2. s \in [1 .. Len(s) -> 1 .. m]
  BY <1>1
<1>3. /\ IsFiniteSet(1 .. Len(s)) /\ Cardinality(1 .. Len(s)) = Len(s)
      /\ IsFiniteSet(1 .. m) /\ Cardinality(1 .. m) = m
  <2>1. 1 \in Int /\ Len(s) \in Int /\ m \in Int
    BY <1>1
  <2>2. /\ IsFiniteSet(1 .. Len(s))
        /\ Cardinality(1 .. Len(s)) = IF 1 > Len(s) THEN 0 ELSE Len(s) - 1 + 1
    BY <2>1, FS_Interval
  <2>3. /\ IsFiniteSet(1 .. m)
        /\ Cardinality(1 .. m) = IF 1 > m THEN 0 ELSE m - 1 + 1
    BY <2>1, FS_Interval
  <2> QED BY <1>1, <2>2, <2>3
<1>4. ASSUME NEW i \in 1 .. Len(s), NEW j \in 1 .. Len(s), i # j PROVE s[i] # s[j]
  <2>1. s[i] \in Nat /\ s[j] \in Nat /\ (i < j \/ j < i)
    BY <1>1, <1>4
  <2> QED BY <2>1 DEF Rising
<1>5. \A f \in [1 .. Len(s) -> 1 .. m] :
        Cardinality(1 .. m) < Cardinality(1 .. Len(s)) =>
          \E i, j \in 1 .. Len(s) : i # j /\ f[i] = f[j]
  BY <1>3, FS_PigeonHole
<1> QED BY <1>1, <1>2, <1>3, <1>4, <1>5

\* No end is given more bytes than the other one accepted.
LEMMA Counted ==
  ASSUME StreamSound, accepted \in [{1, 2} -> Nat], NEW n \in {1, 2}
  PROVE  Len(delivered[n]) \in Nat /\ Len(delivered[n]) <= accepted[Peer(n)]
<1>1. /\ delivered[n] \in Seq(Nat) /\ Rising(delivered[n])
      /\ \A i \in 1 .. Len(delivered[n]) : delivered[n][i] \in 1 .. accepted[Peer(n)]
      /\ accepted[Peer(n)] \in Nat
  BY DEF StreamSound, Peer
<1> QED BY <1>1, RisingIsShort, LenProperties

LEMMA AcceptKeeps ==
  ASSUME StreamSound, accepted \in [{1, 2} -> Nat], NEW n \in {1, 2}, NEW c \in Nat,
         accepted' = [accepted EXCEPT ![n] = @ + c], UNCHANGED delivered,
         accepted'[2] <= TargetLimit
  PROVE  StreamSound' /\ accepted' \in [{1, 2} -> Nat]
<1>1. accepted' \in [{1, 2} -> Nat] /\ \A g \in {1, 2} : accepted[g] <= accepted'[g]
  OBVIOUS
<1>2. \A g \in {1, 2} :
        \A i \in 1 .. Len(delivered[g]) : delivered[g][i] \in 1 .. accepted'[Peer(g)]
  <2> SUFFICES ASSUME NEW g \in {1, 2}, NEW i \in 1 .. Len(delivered[g])
               PROVE  delivered[g][i] \in 1 .. accepted'[Peer(g)]
    OBVIOUS
  <2>1. delivered[g][i] \in 1 .. accepted[Peer(g)] /\ Peer(g) \in {1, 2}
    BY DEF StreamSound, Peer
  <2> QED BY <1>1, <2>1
<1>3. \A g \in {1, 2} : Rising(delivered[g])
  BY DEF StreamSound
<1> QED BY <1>1, <1>2, <1>3 DEF StreamSound, Rising, Peer

-----------------------------------------------------------------------------
(* The steps that move bytes *)

\* What ToClient says of the way to the client, when bytes leave it.
LEMMA WayThins ==
  ASSUME got \in Seq(Nat), outq \in Seq(Nat), NEW r \in Seq(Nat), NEW m,
         Rising(got \o outq \o r), Below(got \o outq \o r, m),
         NEW p \in Seq(Nat), NEW q \in Seq(Nat), Part(p, outq), Part(q, r)
  PROVE  Rising(got \o p \o q) /\ Below(got \o p \o q, m)
<1>1. got \o outq \in Seq(Nat)
  BY ConcatProperties
<1>2. Rising(got \o outq)
  BY <1>1, RisingParts
<1>3. Part(got, got)
  BY <1>2, RisingParts, WholeIsPart
<1>4. got \o p \in Seq(Nat) /\ Part(got \o p, got \o outq)
  BY <1>2, <1>3, PartsOfConcat
<1>5. Part((got \o p) \o q, (got \o outq) \o r)
  BY <1>1, <1>4, PartsOfConcat
<1> QED BY <1>5, PartIsBelow DEF Part

LEMMA Facts ==
  ASSUME HybridInv
  PROVE  /\ TypeOK /\ Control /\ StreamSound /\ ToTarget /\ ToClient /\ CountersHonest
         /\ accepted \in [{1, 2} -> Nat] /\ accepted[1] \in Nat
         /\ bytes_sent \in Nat /\ bytes_received \in Nat /\ written \in Nat
         /\ buffer \in Seq(Nat) /\ Len(buffer) \in Nat /\ sent_now \in 0 .. Len(buffer)
         /\ Rest(sent_now, buffer) \in Seq(Nat) /\ Len(inq) \in Nat /\ Len(outq) \in Nat
         /\ Len(got) \in Nat /\ Len(delivered[1]) \in Nat
         /\ Len(delivered[1]) <= TargetLimit
<1>1. /\ TypeOK /\ Control /\ StreamSound /\ ToTarget /\ ToClient /\ CountersHonest
  BY DEF HybridInv
<1>2. accepted \in [{1, 2} -> Nat] /\ bytes_sent \in Nat /\ bytes_received \in Nat
      /\ written \in Nat /\ sent_now \in 0 .. Len(buffer)
  BY <1>1 DEF TypeOK
<1>3. buffer \in Seq(Nat)
  <2>1. buffer \in Seq(1 .. TargetLimit)
    BY <1>1 DEF TypeOK
  <2>2. /\ Len(buffer) \in Nat /\ buffer = [i \in 1 .. Len(buffer) |-> buffer[i]]
        /\ \A i \in 1 .. Len(buffer) : buffer[i] \in 1 .. TargetLimit
    BY <2>1, LenProperties
  <2>3. \A i \in 1 .. Len(buffer) : buffer[i] \in Nat
    BY <2>2, HybridRelayAssumption DEF HybridRelayAssumption
  <2> QED BY <2>2, <2>3, IsASeq
<1>4. Rest(sent_now, buffer) \in Seq(Nat)
  BY <1>2, <1>3, RestIs
<1>5. Len(buffer) \in Nat /\ Len(inq) \in Nat /\ Len(outq) \in Nat /\ Len(got) \in Nat
  BY <1>1, <1>3, LenProperties DEF ToTarget, ToClient
<1>6. Len(delivered[1]) \in Nat /\ Len(delivered[1]) <= accepted[Peer(1)]
  BY <1>1, <1>2, Counted
<1>7. Peer(1) = 2 /\ accepted[2] <= TargetLimit /\ accepted[2] \in Nat
      /\ accepted[1] \in Nat
  BY <1>1, <1>2 DEF Peer, StreamSound
<1>8. Len(delivered[1]) <= TargetLimit
  <2>1. Len(delivered[1]) <= accepted[2]
    BY <1>6, <1>7
  <2>2. TargetLimit \in Nat
    BY HybridRelayAssumption DEF HybridRelayAssumption
  <2> QED BY <1>6, <1>7, <2>1, <2>2
<1> QED BY <1>1, <1>2, <1>3, <1>4, <1>5, <1>6, <1>7, <1>8

LEMMA CleanUpKeeps ==
  ASSUME HybridInv, CleanUp
  PROVE  HybridInv'
<1>1. /\ alive' = FALSE /\ pc' = "select" /\ inq' = <<>>
      /\ outq' = outq \/ outq' = <<>>
      /\ up' \subseteq up
      /\ UNCHANGED <<client_ready, bytes_sent, bytes_received, last_activity, buffer,
                     sent_now, written, got, client_end, taken, accepted, delivered>>
  BY DEF CleanUp, callVars
<1>2. /\ TypeOK /\ ToTarget /\ ToClient /\ accepted[1] \in Nat /\ Len(inq) \in Nat
      /\ written \in Nat /\ Rest(sent_now, buffer) \in Seq(Nat)
  BY Facts
<1>3. KernelBuf \in Nat /\ <<>> \in Seq(Nat) /\ Len(<<>>) = 0
  BY HybridRelayAssumption, EmptySeq DEF HybridRelayAssumption
<1>4. TypeOK'
  <2>1. Len(inq') <= KernelBuf /\ Len(outq') <= KernelBuf
    BY <1>1, <1>2, <1>3 DEF TypeOK
  <2> QED BY <1>1, <1>2, <2>1 DEF TypeOK
<1>5. Control' /\ CountersHonest'
  BY <1>1 DEF Control, CountersHonest
<1>6. StreamSound'
  BY <1>1, Facts, StreamSame
<1>7. ToTarget'
  <2>1. Rising(taken \o <<>>) /\ Below(taken \o <<>>, written)
    <3>1. taken \in Seq(Nat) /\ inq \in Seq(Nat) /\ Rising(taken \o inq)
      BY <1>2 DEF ToTarget
    <3>2. Part(taken, taken)
      BY <3>1, RisingParts, WholeIsPart
    <3>3. Part(taken \o <<>>, taken \o inq)
      BY <1>3, <3>1, <3>2, NothingIsPart, PartsOfConcat
    <3> QED BY <1>2, <3>3, PartIsBelow DEF Part, ToTarget
  <2>2. accepted'[1] + Len(inq') <= written'
    BY <1>1, <1>2, <1>3 DEF ToTarget
  <2>3. Rising(taken' \o inq') /\ Below(taken' \o inq', written')
    BY <1>1, <2>1
  <2> QED BY <1>1, <1>2, <1>3, <2>2, <2>3 DEF ToTarget, Rising, Below
<1>8. ToClient'
  <2>1. CASE outq' = outq
    BY <1>1, <2>1, Facts, ToClientSame
  <2>2. CASE outq' = <<>>
    <3> DEFINE r == Rest(sent_now, buffer)   m == Stream!LastOf(1)
    <3>1. /\ got \in Seq(Nat) /\ outq \in Seq(Nat) /\ r \in Seq(Nat)
          /\ Rising(got \o outq \o r) /\ Below(got \o outq \o r, m)
      BY <1>2 DEF ToClient
    <3>2. r' = r /\ m' = m
      BY <1>1 DEF Rest, Stream!LastOf
    <3> HIDE DEF r, m
    <3>3. got \o outq \in Seq(Nat)
      BY <3>1, ConcatProperties
    <3>4. Part(r, r)
      BY <3>1, <3>3, RisingParts, WholeIsPart
    <3>5. Rising(got \o <<>> \o r) /\ Below(got \o <<>> \o r, m)
      BY <1>3, <3>1, <3>4, NothingIsPart, WayThins
    <3>6. (got \o outq \o r)' = got \o <<>> \o r
      BY <1>1, <2>2, <3>2
    <3>7. Rising(got \o outq \o r)' /\ Below(got \o outq \o r, m)'
      BY <3>2, <3>5, <3>6 DEF Rising, Below
    <3> QED BY <1>1, <1>2, <1>3, <2>2, <3>7 DEF ToClient, r, m
  <2> QED BY <1>1, <2>1, <2>2
<1> QED BY <1>4, <1>5, <1>6, <1>7, <1>8 DEF HybridInv

\* The first c elements of a rising queue come before those left when the first r
\* are gone.
LEMMA TakenBeforeLeft ==
  ASSUME NEW s \in Seq(Nat), NEW t \in Seq(Nat), Rising(s \o t),
         NEW r \in 0 .. Len(t), NEW c \in 0 .. r
  PROVE  /\ s \o SubSeq(t, 1, c) \in Seq(Nat) /\ Rest(r, t) \in Seq(Nat)
         /\ Len(s \o SubSeq(t, 1, c)) = Len(s) + c
         /\ Rising((s \o SubSeq(t, 1, c)) \o Rest(r, t))
         /\ \A m : Below(s \o t, m) => Below((s \o SubSeq(t, 1, c)) \o Rest(r, t), m)
<1> DEFINE p == SubSeq(t, 1, c)   q == Rest(r, t)
<1>1. /\ Len(t) \in Nat /\ Len(s) \in Nat
      /\ 1 \in 1 .. Len(t) + 1 /\ c \in 0 .. Len(t) /\ 1 <= c + 1
      /\ r + 1 \in 1 .. Len(t) + 1 /\ Len(t) \in 0 .. Len(t) /\ r + 1 <= Len(t) + 1
  BY LenProperties
<1>2. Rising(s) /\ Rising(t) /\ Ahead(s, t)
  BY RisingParts
<1>3. /\ p \in Seq(Nat) /\ Len(p) = c - 1 + 1 /\ Rising(p)
      /\ \A i \in 1 .. Len(p) : p[i] = t[1 + i - 1] /\ 1 + i - 1 \in 1 .. Len(t)
  BY <1>1, <1>2, PieceRises
<1>4. /\ q \in Seq(Nat) /\ Len(q) = Len(t) - (r + 1) + 1 /\ Rising(q)
      /\ \A i \in 1 .. Len(q) :
           q[i] = t[(r + 1) + i - 1] /\ (r + 1) + i - 1 \in 1 .. Len(t)
  BY <1>1, <1>2, PieceRises DEF Rest
<1> HIDE DEF p, q
<1>5. Ahead(p, q)
  <2> SUFFICES ASSUME NEW i \in 1 .. Len(p), NEW j \in 1 .. Len(q) PROVE p[i] < q[j]
    BY DEF Ahead
  <2>1. 1 + i - 1 < (r + 1) + j - 1
    BY <1>1, <1>3, <1>4
  <2> QED BY <1>2, <1>3, <1>4, <2>1 DEF Rising
<1>6. Ahead(s, p) /\ Ahead(s, q)
  BY <1>2, <1>3, <1>4 DEF Ahead
<1>7. p \o q \in Seq(Nat) /\ Part(p \o q, t)
  <2> DEFINE pq == p \o q
  <2>1. Rising(pq)
    BY <1>3, <1>4, <1>5, RisingParts
  <2>2. /\ pq \in Seq(Nat) /\ Len(pq) = Len(p) + Len(q)
        /\ \A i \in 1 .. Len(p) + Len(q) :
             pq[i] = IF i <= Len(p) THEN p[i] ELSE q[i - Len(p)]
    BY <1>3, <1>4, ConcatProperties
  <2> HIDE DEF pq
  <2>3. Len(p) \in Nat /\ Len(q) \in Nat
    BY <1>3, <1>4, LenProperties
  <2>4. ASSUME NEW i \in 1 .. Len(pq) PROVE \E j \in 1 .. Len(t) : pq[i] = t[j]
    <3>1. CASE i <= Len(p)
      <4>1. i \in 1 .. Len(p) /\ pq[i] = p[i]
        BY <2>2, <2>3, <3>1
      <4> QED BY <1>3, <4>1
    <3>2. CASE ~(i <= Len(p))
      <4>1. i - Len(p) \in 1 .. Len(q) /\ pq[i] = q[i - Len(p)]
        BY <2>2, <2>3, <3>2
      <4> QED BY <1>4, <4>1
    <3> QED BY <3>1, <3>2
  <2> QED BY <2>1, <2>2, <2>4 DEF Part, pq
<1>8. Part(s, s)
  BY <1>2, WholeIsPart
<1>9. Part(s \o (p \o q), s \o t)
  BY <1>7, <1>8, PartsOfConcat
<1>10. (s \o p) \o q = s \o (p \o q)
  BY <1>3, <1>4, Associative
<1>11. s \o p \in Seq(Nat) /\ Len(s \o p) = Len(s) + Len(p)
  BY <1>3, ConcatProperties
<1>12. Rising((s \o p) \o q) /\ \A m : Below(s \o t, m) => Below((s \o p) \o q, m)
  BY <1>9, <1>10, PartIsBelow DEF Part
<1>13. Len(s \o p) = Len(s) + c
  BY <1>1, <1>3, <1>11
<1> QED BY <1>4, <1>11, <1>12, <1>13 DEF p, q

LEMMA FromClientKeeps ==
  ASSUME HybridInv, FromClient
  PROVE  HybridInv'
<1> DEFINE read == Smaller(BufferSize, Len(inq))
<1>1. PICK count \in 0 .. (IF 1 \in up THEN read ELSE 0) :
        /\ inq' = Rest(read, inq)
        /\ taken' = taken \o SubSeq(inq, 1, count)
        /\ bytes_sent' = bytes_sent + count
        /\ last_activity' = Touched(count)
        /\ IF count > 0 THEN Stream!Accept(1, count) ELSE UNCHANGED streamVars
  BY DEF FromClient, FromClientKeeping
<1>2. /\ AtClient /\ pc' = "poll" /\ inq # <<>>
      /\ UNCHANGED <<client_ready, alive, bytes_received, buffer, sent_now, written,
                     outq, got, client_end>>
  BY DEF FromClient, FromClientKeeping, callVars
<1>3. /\ TypeOK /\ Control /\ StreamSound /\ ToTarget /\ ToClient /\ CountersHonest
      /\ accepted \in [{1, 2} -> Nat] /\ accepted[1] \in Nat /\ bytes_sent \in Nat
      /\ Len(inq) \in Nat /\ written \in Nat
  BY Facts
<1>4. read \in 0 .. Len(inq) /\ count \in 0 .. read /\ count \in Nat
  <2>1. read \in 0 .. Len(inq)
    BY <1>3, HybridRelayAssumption DEF HybridRelayAssumption, Smaller
  <2> QED BY <1>1, <1>3, <2>1
<1> HIDE DEF read
<1>5. /\ accepted' = [accepted EXCEPT ![1] = @ + count]
      /\ UNCHANGED <<delivered, up>>
  <2>1. CASE count > 0
    BY <1>1, <2>1 DEF Stream!Accept
  <2>2. CASE ~(count > 0)
    BY <1>1, <1>3, <1>4, <2>2 DEF streamVars
  <2> QED BY <2>1, <2>2
<1>6. accepted'[1] = accepted[1] + count /\ accepted'[2] = accepted[2]
  BY <1>3, <1>5
<1>7. StreamSound' /\ accepted' \in [{1, 2} -> Nat]
  <2>1. accepted'[2] <= TargetLimit
    BY <1>3, <1>6 DEF StreamSound
  <2> QED BY <1>3, <1>4, <1>5, <2>1, AcceptKeeps
<1>8. taken \in Seq(Nat) /\ inq \in Seq(Nat) /\ Rising(taken \o inq)
      /\ Below(taken \o inq, written)
  BY <1>3 DEF ToTarget
<1>9. /\ taken' \in Seq(Nat) /\ inq' \in Seq(Nat) /\ Len(taken') = Len(taken) + count
      /\ Rising(taken' \o inq') /\ Below(taken' \o inq', written)
  BY <1>1, <1>4, <1>8, TakenBeforeLeft
<1>10. Len(inq') = Len(inq) - read
  BY <1>1, <1>4, <1>8, RestIs
<1>11. /\ accepted'[1] + Len(inq') <= written /\ bytes_sent' <= accepted'[1]
       /\ bytes_sent' \in Nat
  <2>1. accepted[1] + Len(inq) <= written /\ bytes_sent <= accepted[1]
    BY <1>3 DEF ToTarget
  <2>2. read \in Nat /\ count <= read /\ read <= Len(inq)
    BY <1>3, <1>4
  <2> QED BY <1>1, <1>3, <1>4, <1>6, <1>10, <2>1, <2>2
<1>12. ToTarget'
  BY <1>2, <1>9, <1>11 DEF ToTarget, Rising, Below
<1>13. ToClient'
  BY <1>2, <1>3, <1>5, ToClientSame
<1>14. Control'
  BY <1>2, <1>3 DEF Control, AtClient
<1>15. CountersHonest'
  <2>1. alive' => bytes_sent' = accepted'[1]
    BY <1>1, <1>2, <1>3, <1>6 DEF CountersHonest
  <2> QED BY <1>2, <1>3, <2>1 DEF CountersHonest
<1>16. TypeOK'
  <2>1. bytes_sent' \in 0 .. ClientLimit
    <3>1. accepted'[1] <= written /\ accepted'[1] \in Nat
      <4>1. Len(inq') \in Nat
        BY <1>9, LenProperties
      <4> QED BY <1>3, <1>7, <1>11, <4>1
    <3>2. written \in 0 .. ClientLimit /\ ClientLimit \in Nat
      BY <1>3, HybridRelayAssumption DEF TypeOK, HybridRelayAssumption
    <3> QED BY <1>11, <3>1, <3>2
  <2>2. last_activity' \in 0 .. ConnTimeout + 1
    BY <1>1, <1>3, HybridRelayAssumption DEF TypeOK, Touched, HybridRelayAssumption
  <2>3. Len(inq') <= KernelBuf
    <3>1. Len(inq) <= KernelBuf /\ KernelBuf \in Nat
      BY <1>3, HybridRelayAssumption DEF TypeOK, HybridRelayAssumption
    <3> QED BY <1>3, <1>4, <1>10, <3>1
  <2>4. Len(taken') = accepted'[1]
    BY <1>3, <1>6, <1>9 DEF TypeOK
  <2> QED BY <1>2, <1>3, <1>5, <1>7, <2>1, <2>2, <2>3, <2>4 DEF TypeOK
<1> QED BY <1>7, <1>12, <1>13, <1>14, <1>15, <1>16 DEF HybridInv

LEMMA PollKeeps ==
  ASSUME HybridInv, Poll
  PROVE  HybridInv'
<1>1. PICK S \in SUBSET Stream!Coming(1) :
        /\ Cardinality(S) \in 1 .. BufferSize
        /\ Stream!Deliver(1, S)
        /\ buffer' = Stream!Ascending(S)
  BY DEF Poll, PollUpTo
<1>2. /\ pc = "poll" /\ sent_now' = 0 /\ pc' = "send"
      /\ UNCHANGED <<client_ready, alive, bytes_sent, bytes_received, last_activity,
                     written, inq, outq, got, client_end, taken>>
  BY DEF Poll, PollUpTo, connVars, clientVars
<1>3. /\ TypeOK /\ Control /\ StreamSound /\ ToTarget /\ ToClient /\ CountersHonest
      /\ accepted \in [{1, 2} -> Nat] /\ bytes_received \in Nat
  BY Facts
<1>4. alive /\ buffer = <<>> /\ sent_now = 0
  BY <1>2, <1>3 DEF Control
<1> DEFINE B == buffer'   d == delivered[1]   e == delivered'[1]   last == Stream!LastOf(1)
<1>5. /\ StreamSound' /\ B \in Seq(Nat) /\ Rising(B) /\ Len(B) = Cardinality(S)
      /\ \A i \in 1 .. Len(B) : B[i] \in S
      /\ e = d \o B
      /\ UNCHANGED <<accepted, up>>
  <2>1. 1 \in {1, 2}
    OBVIOUS
  <2> QED BY <1>1, <1>3, <2>1, DeliverKeeps
<1>6. /\ last \in Nat /\ Below(d, last)
      /\ \A k \in S : k \in 1 .. accepted[Peer(1)] /\ last < k
  BY <1>1, <1>3, ComingIs
<1>7. d \in Seq(Nat) /\ e \in Seq(Nat) /\ Rising(e) /\ Len(e) = Len(d) + Len(B)
  <2>1. d \in Seq(Nat) /\ e \in Seq(Nat) /\ Rising(e)
    BY <1>3, <1>5 DEF StreamSound, Rising
  <2> QED BY <1>5, <2>1, ConcatProperties
<1>8. Len(B) \in Nat /\ Len(d) \in Nat /\ Len(B) \in 1 .. BufferSize
  BY <1>1, <1>5, <1>7, LenProperties
<1>9. Stream!LastOf(1)' = e[Len(e)] /\ Below(e, e[Len(e)]) /\ e[Len(e)] \in Nat
  <2>1. e # <<>>
    BY <1>7, <1>8, HybridRelayAssumption, EmptySeq DEF HybridRelayAssumption
  <2> QED BY <1>7, <2>1, LastIsGreatest DEF Stream!LastOf
<1> HIDE DEF B, d, e, last
<1>10. Rest(sent_now, buffer)' = B
  <2>1. Rest(0, B) = B
    BY <1>5, RestIs
  <2> QED BY <1>2, <2>1 DEF Rest, B
<1> DEFINE Y == got \o outq
<1>11. Y \in Seq(Nat) /\ Rising(Y) /\ Below(Y, last)
  <2>1. Rest(sent_now, buffer) = <<>> /\ <<>> \in Seq(Nat)
    BY <1>4, RestIs, EmptySeq
  <2>2. got \in Seq(Nat) /\ outq \in Seq(Nat) /\ Y \in Seq(Nat)
    BY <1>3, ConcatProperties DEF ToClient
  <2>3. Rising(Y \o <<>>) /\ Below(Y \o <<>>, last)
    BY <1>3, <2>1 DEF ToClient, last
  <2> HIDE DEF Y
  <2> QED BY <2>1, <2>2, <2>3, RisingParts, BelowParts
<1> HIDE DEF Y
<1>12. Rising(Y \o B)
  <2>1. Ahead(Y, B)
    <3> SUFFICES ASSUME NEW i \in 1 .. Len(Y), NEW j \in 1 .. Len(B) PROVE Y[i] < B[j]
      BY DEF Ahead
    <3>1. Y[i] \in Nat /\ B[j] \in Nat
      BY <1>5, <1>11, LenProperties
    <3>2. Y[i] <= last /\ last < B[j]
      BY <1>5, <1>6, <1>11 DEF Below
    <3> QED BY <1>6, <3>1, <3>2
  <2> QED BY <1>5, <1>11, <2>1, RisingParts
<1>13. Below(Y \o B, e[Len(e)])
  <2>1. Below(B, e[Len(e)]) /\ Below(d, e[Len(e)])
    BY <1>5, <1>7, <1>9, BelowParts
  <2>2. Below(Y, e[Len(e)])
    <3>1. last <= e[Len(e)]
      <4>1. 1 \in 1 .. Len(B) /\ B[1] \in S
        BY <1>5, <1>8
      <4>2. last < B[1] /\ B[1] <= e[Len(e)] /\ B[1] \in Nat
        BY <1>5, <1>6, <2>1, <4>1, LenProperties DEF Below
      <4> QED BY <1>6, <1>9, <4>2
    <3>2. \A i \in 1 .. Len(Y) : Y[i] \in Nat /\ Y[i] <= last
      BY <1>11, LenProperties DEF Below
    <3>3. \A i \in 1 .. Len(Y) : Y[i] <= e[Len(e)]
      BY <1>6, <1>9, <3>1, <3>2
    <3> QED BY <3>3 DEF Below
  <2> QED BY <1>5, <1>11, <2>1, <2>2, BelowParts
<1>14. ToClient'
  <2>1. (got \o outq \o Rest(sent_now, buffer))' = Y \o B
    BY <1>2, <1>10 DEF Y
  <2>2. Rising(got \o outq \o Rest(sent_now, buffer))'
    BY <1>12, <2>1 DEF Rising
  <2>3. Below(got \o outq \o Rest(sent_now, buffer), Stream!LastOf(1))'
    BY <1>9, <1>13, <2>1 DEF Below
  <2>4. bytes_received' + Len(buffer') <= Len(delivered'[1])
    <3>1. bytes_received + Len(buffer) <= Len(d) /\ Len(buffer) = 0
      BY <1>3, <1>4 DEF ToClient, d
    <3>2. bytes_received + Len(B) <= Len(e)
      BY <1>3, <1>7, <1>8, <3>1
    <3> QED BY <1>2, <3>2 DEF B, e
  <2> QED BY <1>2, <1>3, <2>2, <2>3, <2>4 DEF ToClient
<1>15. ToTarget'
  BY <1>2, <1>3, <1>5, ToTargetSame
<1>16. Control' /\ CountersHonest'
  BY <1>2, <1>3, <1>4, <1>5 DEF Control, CountersHonest
<1>17. TypeOK'
  <2>1. buffer' \in Seq(1 .. TargetLimit)
    <3>1. Peer(1) = 2 /\ accepted[2] \in Nat /\ accepted[2] <= TargetLimit
          /\ TargetLimit \in Nat
      BY <1>3, HybridRelayAssumption DEF Peer, StreamSound, HybridRelayAssumption
    <3>2. B = [i \in 1 .. Len(B) |-> B[i]]
      BY <1>5, LenProperties
    <3>3. \A i \in 1 .. Len(B) : B[i] \in 1 .. TargetLimit
      <4> SUFFICES ASSUME NEW i \in 1 .. Len(B) PROVE B[i] \in 1 .. TargetLimit
        OBVIOUS
      <4>1. B[i] \in 1 .. accepted[2]
        BY <1>5, <1>6, <3>1
      <4> QED BY <3>1, <4>1
    <3>4. B \in Seq(1 .. TargetLimit)
      <4>1. Len(B) \in Nat
        BY <1>8
      <4>2. [i \in 1 .. Len(B) |-> B[i]] \in Seq(1 .. TargetLimit)
        BY <3>3, <4>1, IsASeq
      <4> QED BY <3>2, <4>2, Zenon
    <3> QED BY <3>4 DEF B
  <2>2. Len(buffer') <= BufferSize /\ sent_now' \in 0 .. Len(buffer')
    BY <1>2, <1>8, HybridRelayAssumption DEF B, HybridRelayAssumption
  <2> QED BY <1>2, <1>3, <1>5, <2>1, <2>2 DEF TypeOK
<1> QED BY <1>5, <1>14, <1>15, <1>16, <1>17 DEF HybridInv

LEMMA CutInTwo ==
  ASSUME NEW s \in Seq(Nat), NEW a \in 0 .. Len(s), NEW b \in a .. Len(s)
  PROVE  /\ SubSeq(s, a + 1, b) \in Seq(Nat) /\ Len(SubSeq(s, a + 1, b)) = b - a
         /\ Rest(b, s) \in Seq(Nat)
         /\ SubSeq(s, a + 1, b) \o Rest(b, s) = Rest(a, s)
<1> DEFINE p == SubSeq(s, a + 1, b)   q == Rest(b, s)   r == Rest(a, s)   pq == p \o q
<1>1. /\ Len(s) \in Nat /\ Len(s) \in 0 .. Len(s)
      /\ a + 1 \in 1 .. Len(s) + 1 /\ b \in 0 .. Len(s) /\ a + 1 <= b + 1
      /\ b + 1 \in 1 .. Len(s) + 1 /\ b + 1 <= Len(s) + 1 /\ a + 1 <= Len(s) + 1
  BY LenProperties
<1>2. /\ p \in Seq(Nat) /\ Len(p) = b - (a + 1) + 1
      /\ \A i \in 1 .. Len(p) : p[i] = s[(a + 1) + i - 1]
  BY <1>1, PieceRises
<1>3. /\ q \in Seq(Nat) /\ Len(q) = Len(s) - (b + 1) + 1
      /\ \A i \in 1 .. Len(q) : q[i] = s[(b + 1) + i - 1]
  BY <1>1, PieceRises DEF Rest
<1>4. /\ r \in Seq(Nat) /\ Len(r) = Len(s) - (a + 1) + 1
      /\ \A i \in 1 .. Len(r) : r[i] = s[(a + 1) + i - 1]
  BY <1>1, PieceRises DEF Rest
<1> HIDE DEF p, q, r
<1>5. /\ pq \in Seq(Nat) /\ Len(pq) = Len(p) + Len(q)
      /\ \A i \in 1 .. Len(p) + Len(q) :
           pq[i] = IF i <= Len(p) THEN p[i] ELSE q[i - Len(p)]
  BY <1>2, <1>3, ConcatProperties
<1> HIDE DEF pq
<1>6. Len(pq) = Len(r) /\ Len(p) = b - a /\ Len(q) = Len(s) - b /\ Len(r) = Len(s) - a
  BY <1>1, <1>2, <1>3, <1>4, <1>5
<1>7. ASSUME NEW i \in 1 .. Len(pq) PROVE pq[i] = r[i]
  <2>1. r[i] = s[a + i]
    <3>1. (a + 1) + i - 1 = a + i
      BY <1>1
    <3> QED BY <1>4, <1>6, <3>1
  <2>2. CASE i <= Len(p)
    <3>1. i \in 1 .. Len(p) /\ pq[i] = p[i] /\ (a + 1) + i - 1 = a + i
      BY <1>1, <1>5, <1>6, <2>2
    <3> QED BY <1>2, <2>1, <3>1
  <2>3. CASE ~(i <= Len(p))
    <3>1. /\ i - Len(p) \in 1 .. Len(q) /\ pq[i] = q[i - Len(p)]
          /\ (b + 1) + (i - Len(p)) - 1 = a + i
      BY <1>1, <1>5, <1>6, <2>3
    <3> QED BY <1>3, <2>1, <3>1
  <2> QED BY <2>2, <2>3
<1>8. pq = r
  BY <1>4, <1>5, <1>6, <1>7, SeqEqual
<1> QED BY <1>2, <1>3, <1>6, <1>8 DEF p, q, r, pq

LEMMA SendKeeps ==
  ASSUME HybridInv, Send
  PROVE  HybridInv'
<1>1. PICK sent \in 1 .. Smaller(Len(buffer) - sent_now, KernelBuf - Len(outq)) :
        /\ outq' = outq \o SubSeq(buffer, sent_now + 1, sent_now + sent)
        /\ sent_now' = sent_now + sent
  BY DEF Send, SendingFrom
<1>2. /\ pc = "send" /\ client_end # "reset"
      /\ UNCHANGED <<pc, client_ready, alive, bytes_sent, bytes_received, last_activity,
                     buffer, written, inq, got, client_end, taken, accepted, delivered,
                     up>>
  BY DEF Send, SendingFrom, connVars, streamVars
<1>3. /\ TypeOK /\ Control /\ StreamSound /\ ToTarget /\ ToClient /\ CountersHonest
      /\ buffer \in Seq(Nat) /\ Len(buffer) \in Nat /\ sent_now \in 0 .. Len(buffer)
      /\ Len(outq) \in Nat /\ Len(got) \in Nat /\ bytes_received \in Nat
      /\ Rest(sent_now, buffer) \in Seq(Nat) /\ KernelBuf \in Nat
  BY Facts, HybridRelayAssumption DEF HybridRelayAssumption
<1>4. /\ sent \in Nat /\ sent_now + sent \in sent_now .. Len(buffer)
      /\ Len(outq) + sent <= KernelBuf
  BY <1>1, <1>3 DEF Smaller
<1> DEFINE p == SubSeq(buffer, sent_now + 1, sent_now + sent)
           q == Rest(sent_now + sent, buffer)
<1>5. /\ p \in Seq(Nat) /\ Len(p) = (sent_now + sent) - sent_now
      /\ q \in Seq(Nat) /\ p \o q = Rest(sent_now, buffer)
  BY <1>3, <1>4, CutInTwo
<1>6. got \in Seq(Nat) /\ outq \in Seq(Nat)
  BY <1>3 DEF ToClient
<1>7. q = Rest(sent_now, buffer)' /\ outq' = outq \o p
  BY <1>1, <1>2 DEF Rest
<1> HIDE DEF p, q
<1>8. outq' \in Seq(Nat) /\ Len(outq') = Len(outq) + sent
  <2>1. outq \o p \in Seq(Nat) /\ Len(outq \o p) = Len(outq) + Len(p)
    BY <1>5, <1>6, ConcatProperties
  <2>2. Len(p) = sent
    BY <1>3, <1>4, <1>5
  <2> QED BY <1>7, <2>1, <2>2
<1>9. got \o (outq \o p) \o q = got \o outq \o Rest(sent_now, buffer)
  <2>1. got \o (outq \o p) = (got \o outq) \o p /\ got \o outq \in Seq(Nat)
    BY <1>5, <1>6, Associative, ConcatProperties
  <2>2. ((got \o outq) \o p) \o q = (got \o outq) \o (p \o q)
    BY <1>5, <2>1, Associative
  <2> QED BY <1>5, <2>1, <2>2, Zenon
<1>10. ToClient'
  <2> DEFINE way == got \o outq \o Rest(sent_now, buffer)   m == Stream!LastOf(1)
  <2>1. way' = way
    BY <1>2, <1>7, <1>9, Zenon
  <2>2. m' = m
    BY <1>2 DEF Stream!LastOf
  <2>3. Rising(way) /\ Below(way, m)
    BY <1>3 DEF ToClient
  <2> HIDE DEF way, m
  <2>4. Rising(way)' /\ Below(way, m)'
    BY <2>1, <2>2, <2>3 DEF Rising, Below
  <2> QED BY <1>2, <1>3, <1>6, <1>8, <2>4 DEF ToClient, way, m
<1>11. StreamSound' /\ ToTarget'
  BY <1>2, <1>3, StreamSame, ToTargetSame
<1>12. Control'
  BY <1>2, <1>3 DEF Control
<1>13. CountersHonest'
  <2>1. alive => /\ bytes_sent = accepted[1]
                 /\ bytes_received + sent_now = Len(got) + Len(outq)
    BY <1>2, <1>3 DEF CountersHonest
  <2>2. ASSUME alive
        PROVE  bytes_received + (sent_now + sent) = Len(got) + (Len(outq) + sent)
    <3>1. bytes_received + sent_now = Len(got) + Len(outq)
      BY <2>1, <2>2, Zenon
    <3>2. /\ bytes_received \in Nat /\ sent_now \in Nat /\ sent \in Nat
          /\ Len(got) \in Nat /\ Len(outq) \in Nat
      BY <1>3, <1>4
    <3> QED BY <3>1, <3>2
  <2> QED BY <1>1, <1>2, <1>8, <2>1, <2>2 DEF CountersHonest
<1>14. TypeOK'
  <2>1. sent_now' \in 0 .. Len(buffer') /\ Len(outq') <= KernelBuf
    BY <1>1, <1>2, <1>3, <1>4, <1>8
  <2> QED BY <1>2, <1>3, <2>1 DEF TypeOK
<1> QED BY <1>10, <1>11, <1>12, <1>13, <1>14 DEF HybridInv

LEMMA SendEndsKeeps ==
  ASSUME HybridInv, SendEnds
  PROVE  HybridInv'
<1>1. /\ bytes_received' = bytes_received + sent_now
      /\ last_activity' = Touched(sent_now)
      /\ buffer' = <<>> /\ sent_now' = 0 /\ pc' = "select" /\ pc = "send"
      /\ UNCHANGED <<client_ready, alive, bytes_sent, written, inq, outq, got,
                     client_end, taken, accepted, delivered, up>>
  BY DEF SendEnds, SendEndsCounting, clientVars, streamVars
<1>2. /\ TypeOK /\ Control /\ StreamSound /\ ToTarget /\ ToClient /\ CountersHonest
      /\ Len(buffer) \in Nat /\ sent_now \in 0 .. Len(buffer)
      /\ Len(outq) \in Nat /\ Len(got) \in Nat /\ bytes_received \in Nat
      /\ Rest(sent_now, buffer) \in Seq(Nat)
      /\ Len(delivered[1]) \in Nat /\ Len(delivered[1]) <= TargetLimit
      /\ TargetLimit \in Nat
  BY Facts, HybridRelayAssumption DEF HybridRelayAssumption
<1>3. <<>> \in Seq(Nat) /\ Len(<<>>) = 0 /\ Rest(0, <<>>) = <<>>
  BY EmptySeq, RestIs
<1>4. /\ bytes_received' + Len(buffer') <= Len(delivered'[1])
      /\ bytes_received' \in 0 .. TargetLimit
  <2>1. bytes_received + Len(buffer) <= Len(delivered[1])
    BY <1>2 DEF ToClient
  <2> QED BY <1>1, <1>2, <1>3, <2>1
<1>5. ToClient'
  <2> DEFINE r == Rest(sent_now, buffer)   m == Stream!LastOf(1)
  <2>1. /\ got \in Seq(Nat) /\ outq \in Seq(Nat) /\ r \in Seq(Nat)
        /\ Rising(got \o outq \o r) /\ Below(got \o outq \o r, m)
    BY <1>2 DEF ToClient
  <2>2. r' = <<>> /\ m' = m
    BY <1>1, <1>3 DEF Rest, Stream!LastOf
  <2> HIDE DEF r, m
  <2>3. got \o outq \in Seq(Nat)
    BY <2>1, ConcatProperties
  <2>4. Rising(got \o outq)
    BY <2>1, <2>3, RisingParts
  <2>5. Part(outq, outq)
    BY <2>1, <2>4, RisingParts, WholeIsPart
  <2>6. Rising(got \o outq \o <<>>) /\ Below(got \o outq \o <<>>, m)
    BY <1>3, <2>1, <2>5, NothingIsPart, WayThins
  <2>7. (got \o outq \o r)' = got \o outq \o <<>>
    BY <1>1, <2>2
  <2>8. Rising(got \o outq \o r)' /\ Below(got \o outq \o r, m)'
    BY <2>2, <2>6, <2>7 DEF Rising, Below
  <2> QED BY <1>1, <1>4, <2>1, <2>8 DEF ToClient, r, m
<1>6. StreamSound' /\ ToTarget'
  BY <1>1, <1>2, StreamSame, ToTargetSame
<1>7. Control'
  BY <1>1, <1>2 DEF Control
<1>8. CountersHonest'
  BY <1>1, <1>2 DEF CountersHonest
<1>9. TypeOK'
  <2>1. buffer' \in Seq(1 .. TargetLimit) /\ Len(buffer') <= BufferSize
        /\ sent_now' \in 0 .. Len(buffer')
    BY <1>1, <1>3, HybridRelayAssumption, EmptySeq DEF HybridRelayAssumption
  <2>2. last_activity' \in 0 .. ConnTimeout + 1
    BY <1>1, <1>2, HybridRelayAssumption DEF TypeOK, Touched, HybridRelayAssumption
  <2> QED BY <1>1, <1>2, <1>4, <2>1, <2>2 DEF TypeOK
<1> QED BY <1>5, <1>6, <1>7, <1>8, <1>9 DEF HybridInv

LEMMA ClientWritesKeeps ==
  ASSUME HybridInv, ClientWrites
  PROVE  HybridInv'
<1>1. /\ written < ClientLimit /\ Len(inq) < KernelBuf
      /\ written' = written + 1 /\ inq' = Append(inq, written + 1)
      /\ UNCHANGED <<pc, client_ready, alive, buffer, sent_now, bytes_sent,
                     bytes_received, last_activity, outq, got, client_end, taken,
                     accepted, delivered, up>>
  BY DEF ClientWrites, connVars, callVars, streamVars
<1>2. /\ TypeOK /\ Control /\ StreamSound /\ ToTarget /\ ToClient /\ CountersHonest
      /\ accepted[1] \in Nat /\ written \in Nat /\ Len(inq) \in Nat
      /\ ClientLimit \in Nat /\ KernelBuf \in Nat
  BY Facts, HybridRelayAssumption DEF HybridRelayAssumption
<1>3. taken \in Seq(Nat) /\ inq \in Seq(Nat)
  BY <1>2 DEF ToTarget
<1> DEFINE w == written + 1   one == <<w>>   both == taken \o inq
<1>4. /\ w \in Nat /\ inq' = inq \o one
      /\ one \in Seq(Nat) /\ Len(one) = 1 /\ one[1] = w
  <2>1. w \in Nat
    BY <1>2
  <2>2. Append(inq, w) = inq \o <<w>>
    BY <1>3, <2>1, AppendIsConcat
  <2> QED BY <1>1, <2>1, <2>2
<1>5. both \in Seq(Nat) /\ Rising(both) /\ Below(both, written)
  BY <1>2, <1>3, ConcatProperties DEF ToTarget
<1> HIDE DEF one, both
<1>6. inq' \in Seq(Nat) /\ Len(inq') = Len(inq) + 1
  <2>1. inq \o one \in Seq(Nat) /\ Len(inq \o one) = Len(inq) + Len(one)
    BY <1>3, <1>4, ConcatProperties
  <2> QED BY <1>4, <2>1
<1>7. taken' \o inq' = both \o one
  BY <1>1, <1>3, <1>4, Associative DEF both
<1> HIDE DEF w
<1>8. Rising(both \o one)
  <2>1. Rising(one)
    BY <1>4 DEF Rising
  <2>2. Ahead(both, one)
    <3> SUFFICES ASSUME NEW i \in 1 .. Len(both), NEW j \in 1 .. Len(one)
                 PROVE  both[i] < one[j]
      BY DEF Ahead
    <3>1. both[i] \in Nat /\ both[i] <= written
      BY <1>5, LenProperties DEF Below
    <3>2. one[j] = written + 1
      BY <1>4 DEF w
    <3> QED BY <1>2, <3>1, <3>2
  <2> QED BY <1>4, <1>5, <2>1, <2>2, RisingParts
<1>9. Below(both \o one, written')
  <2>1. Below(one, written')
    BY <1>1, <1>2, <1>4 DEF Below, w
  <2>2. Below(both, written')
    <3> SUFFICES ASSUME NEW i \in 1 .. Len(both) PROVE both[i] <= written'
      BY DEF Below
    <3>1. both[i] \in Nat /\ both[i] <= written
      BY <1>5, LenProperties DEF Below
    <3> QED BY <1>1, <1>2, <3>1
  <2> QED BY <1>4, <1>5, <2>1, <2>2, BelowParts
<1>10. ToTarget'
  <2>1. Rising(taken \o inq)' /\ Below(taken \o inq, written)'
    BY <1>7, <1>8, <1>9 DEF Rising, Below
  <2>2. accepted'[1] + Len(inq') <= written'
    <3>1. accepted[1] + Len(inq) <= written
      BY <1>2 DEF ToTarget
    <3> QED BY <1>1, <1>2, <1>6, <3>1
  <2> QED BY <1>1, <1>2, <1>6, <2>1, <2>2 DEF ToTarget
<1>11. StreamSound' /\ ToClient'
  BY <1>1, <1>2, StreamSame, ToClientSame
<1>12. Control' /\ CountersHonest'
  BY <1>1, <1>2 DEF Control, CountersHonest
<1>13. TypeOK'
  <2>1. written' \in 0 .. ClientLimit /\ Len(inq') <= KernelBuf
    BY <1>1, <1>2, <1>6
  <2> QED BY <1>1, <1>2, <2>1 DEF TypeOK
<1> QED BY <1>10, <1>11, <1>12, <1>13 DEF HybridInv

LEMMA ClientReadsKeeps ==
  ASSUME HybridInv, ClientReads
  PROVE  HybridInv'
<1>1. /\ outq # <<>> /\ client_end # "reset"
      /\ got' = Append(got, Head(outq)) /\ outq' = Tail(outq)
      /\ UNCHANGED <<pc, client_ready, alive, buffer, sent_now, bytes_sent,
                     bytes_received, last_activity, written, inq, client_end, taken,
                     accepted, delivered, up>>
  BY DEF ClientReads, connVars, callVars, streamVars
<1>2. /\ TypeOK /\ Control /\ StreamSound /\ ToTarget /\ ToClient /\ CountersHonest
      /\ Len(got) \in Nat /\ Len(outq) \in Nat /\ KernelBuf \in Nat
  BY Facts, HybridRelayAssumption DEF HybridRelayAssumption
<1>3. got \in Seq(Nat) /\ outq \in Seq(Nat)
  BY <1>2 DEF ToClient
<1>4. got' \in Seq(Nat) /\ outq' \in Seq(Nat) /\ got' \o outq' = got \o outq
  BY <1>1, <1>3, MoveHead
<1>5. Len(got') = Len(got) + 1 /\ Len(outq') = Len(outq) - 1
  <2>1. Head(outq) \in Nat /\ Len(Tail(outq)) = Len(outq) - 1
    BY <1>1, <1>3, HeadTailProperties
  <2>2. Len(Append(got, Head(outq))) = Len(got) + 1
    BY <1>3, <2>1, AppendProperties
  <2> QED BY <1>1, <2>1, <2>2
<1>6. ToClient'
  <2> DEFINE way == got \o outq \o Rest(sent_now, buffer)   m == Stream!LastOf(1)
  <2>1. way' = way /\ m' = m
    BY <1>1, <1>4 DEF Rest, Stream!LastOf
  <2>2. Rising(way) /\ Below(way, m)
    BY <1>2 DEF ToClient
  <2> HIDE DEF way, m
  <2>3. Rising(way)' /\ Below(way, m)'
    BY <2>1, <2>2 DEF Rising, Below
  <2> QED BY <1>1, <1>2, <1>4, <2>3 DEF ToClient, way, m
<1>7. StreamSound' /\ ToTarget'
  BY <1>1, <1>2, StreamSame, ToTargetSame
<1>8. Control' /\ TypeOK'
  <2>1. Len(outq') <= KernelBuf
    BY <1>2, <1>5 DEF TypeOK
  <2> QED BY <1>1, <1>2, <2>1 DEF Control, TypeOK
<1>9. CountersHonest'
  <2>1. Len(got') + Len(outq') = Len(got) + Len(outq)
    BY <1>2, <1>5
  <2> QED BY <1>1, <1>2, <2>1 DEF CountersHonest
<1> QED BY <1>6, <1>7, <1>8, <1>9 DEF HybridInv

LEMMA ClientEndsKeeps ==
  ASSUME HybridInv, ClientEnds
  PROVE  HybridInv'
<1>1. /\ client_end' \in {"eof", "reset"} /\ client_end # "reset"
      /\ outq' = IF client_end' = "reset" THEN <<>> ELSE outq
      /\ UNCHANGED <<pc, client_ready, alive, buffer, sent_now, bytes_sent,
                     bytes_received, last_activity, written, inq, got, taken,
                     accepted, delivered, up>>
  BY DEF ClientEnds, connVars, callVars, streamVars
<1>2. /\ TypeOK /\ Control /\ StreamSound /\ ToTarget /\ ToClient /\ CountersHonest
      /\ Rest(sent_now, buffer) \in Seq(Nat) /\ KernelBuf \in Nat
  BY Facts, HybridRelayAssumption DEF HybridRelayAssumption
<1>3. <<>> \in Seq(Nat) /\ Len(<<>>) = 0
  BY EmptySeq
<1>4. ToClient'
  <2>1. CASE outq' = outq
    BY <1>1, <1>2, <2>1, ToClientSame
  <2>2. CASE outq' = <<>>
    <3> DEFINE r == Rest(sent_now, buffer)   m == Stream!LastOf(1)
    <3>1. /\ got \in Seq(Nat) /\ outq \in Seq(Nat) /\ r \in Seq(Nat)
          /\ Rising(got \o outq \o r) /\ Below(got \o outq \o r, m)
      BY <1>2 DEF ToClient
    <3>2. r' = r /\ m' = m
      BY <1>1 DEF Rest, Stream!LastOf
    <3> HIDE DEF r, m
    <3>3. got \o outq \in Seq(Nat)
      BY <3>1, ConcatProperties
    <3>4. Part(r, r)
      BY <3>1, <3>3, RisingParts, WholeIsPart
    <3>5. Rising(got \o <<>> \o r) /\ Below(got \o <<>> \o r, m)
      BY <1>3, <3>1, <3>4, NothingIsPart, WayThins
    <3>6. (got \o outq \o r)' = got \o <<>> \o r
      BY <1>1, <2>2, <3>2
    <3>7. Rising(got \o outq \o r)' /\ Below(got \o outq \o r, m)'
      BY <3>2, <3>5, <3>6 DEF Rising, Below
    <3> QED BY <1>1, <1>2, <1>3, <2>2, <3>7 DEF ToClient, r, m
  <2> QED BY <1>1, <2>1, <2>2
<1>5. StreamSound' /\ ToTarget'
  BY <1>1, <1>2, StreamSame, ToTargetSame
<1>6. Control' /\ CountersHonest'
  BY <1>1, <1>2 DEF Control, CountersHonest
<1>7. TypeOK'
  <2>1. Len(outq') <= KernelBuf
    BY <1>1, <1>2, <1>3 DEF TypeOK
  <2> QED BY <1>1, <1>2, <2>1 DEF TypeOK
<1> QED BY <1>4, <1>5, <1>6, <1>7 DEF HybridInv

LEMMA TargetKeeps ==
  ASSUME HybridInv, TargetMoves
  PROVE  HybridInv'
<1>1. UNCHANGED <<pc, client_ready, alive, buffer, sent_now, bytes_sent, bytes_received,
                  last_activity, written, inq, outq, got, client_end, taken>>
  BY DEF TargetMoves, connVars, callVars, clientVars
<1>2. /\ TypeOK /\ Control /\ StreamSound /\ ToTarget /\ ToClient /\ CountersHonest
      /\ accepted \in [{1, 2} -> Nat] /\ accepted[1] \in Nat
  BY Facts
<1>3. CASE accepted[2] < TargetLimit /\ Stream!Accept(2, 1)
  <2>1. /\ accepted' = [accepted EXCEPT ![2] = @ + 1] /\ UNCHANGED <<delivered, up>>
    BY <1>3 DEF Stream!Accept
  <2>2. accepted'[1] = accepted[1] /\ accepted'[2] = accepted[2] + 1
    BY <1>2, <2>1
  <2>3. accepted'[2] <= TargetLimit
    BY <1>2, <1>3, <2>2, HybridRelayAssumption DEF HybridRelayAssumption
  <2>4. StreamSound' /\ accepted' \in [{1, 2} -> Nat]
    BY <1>2, <2>1, <2>3, AcceptKeeps
  <2>5. TypeOK' /\ Control' /\ CountersHonest'
    BY <1>1, <1>2, <2>1, <2>2, <2>4 DEF TypeOK, Control, CountersHonest
  <2>6. ToTarget'
    BY <1>1, <1>2, <2>2 DEF ToTarget, Rising, Below
  <2>7. ToClient'
    BY <1>1, <1>2, <2>1, ToClientSame
  <2> QED BY <2>4, <2>5, <2>6, <2>7 DEF HybridInv
<1>4. CASE \E k \in Stream!Coming(2) : Stream!Deliver(2, {k})
  <2>1. PICK k \in Stream!Coming(2) : Stream!Deliver(2, {k})
    BY <1>4
  <2>2. {k} \in SUBSET Stream!Coming(2) /\ 2 \in {1, 2}
    BY <2>1
  <2>3. /\ StreamSound' /\ UNCHANGED <<accepted, up>>
        /\ \A g \in {1, 2} \ {2} : delivered'[g] = delivered[g]
    BY <1>2, <2>1, <2>2, DeliverKeeps
  <2>4. TypeOK' /\ Control' /\ CountersHonest'
    BY <1>1, <1>2, <2>3 DEF TypeOK, Control, CountersHonest
  <2>5. ToTarget'
    BY <1>1, <1>2, <2>3, ToTargetSame
  <2>6. ToClient'
    <3> DEFINE way == got \o outq \o Rest(sent_now, buffer)   m == Stream!LastOf(1)
    <3>1. way' = way /\ m' = m /\ delivered'[1] = delivered[1]
      BY <1>1, <2>3 DEF Rest, Stream!LastOf
    <3>2. Rising(way) /\ Below(way, m)
      BY <1>2 DEF ToClient
    <3> HIDE DEF way, m
    <3>3. Rising(way)' /\ Below(way, m)'
      BY <3>1, <3>2 DEF Rising, Below
    <3>4. bytes_received' + Len(buffer') <= Len(delivered'[1])
      BY <1>1, <1>2, <3>1 DEF ToClient
    <3> QED BY <1>1, <1>2, <3>3, <3>4 DEF ToClient, way, m
  <2> QED BY <2>3, <2>4, <2>5, <2>6 DEF HybridInv
<1> QED BY <1>3, <1>4 DEF TargetMoves

-----------------------------------------------------------------------------
(* The invariant and what follows from it *)

LEMMA HybridInitially ==
  ASSUME Init
  PROVE  HybridInv
<1>1. /\ pc = "select" /\ client_ready = FALSE /\ alive = TRUE /\ buffer = <<>>
      /\ sent_now = 0 /\ bytes_sent = 0 /\ bytes_received = 0 /\ last_activity = 0
      /\ written = 0 /\ inq = <<>> /\ outq = <<>> /\ got = <<>> /\ client_end = "no"
      /\ taken = <<>>
      /\ accepted = [n \in {1, 2} |-> 0] /\ delivered = [n \in {1, 2} |-> <<>>]
      /\ up = {1, 2}
  BY DEF Init, Stream!Init
<1>2. /\ ClientLimit \in Nat /\ TargetLimit \in Nat /\ BufferSize \in Nat
      /\ KernelBuf \in Nat /\ ConnTimeout \in Nat
  BY HybridRelayAssumption DEF HybridRelayAssumption
<1>3. <<>> \in Seq(Nat) /\ <<>> \in Seq(1 .. TargetLimit) /\ Len(<<>>) = 0
  BY EmptySeq
<1>4. Rising(<<>>) /\ \A m : Below(<<>>, m)
  BY <1>3 DEF Rising, Below
<1>5. <<>> \o <<>> = <<>> /\ Rest(0, <<>>) = <<>>
  <2>1. <<>> \o <<>> = <<>>
    BY <1>3, ConcatEmptySeq
  <2> QED BY <1>3, <2>1, RestIs
<1>6. accepted[1] = 0 /\ accepted[2] = 0 /\ delivered[1] = <<>> /\ delivered[2] = <<>>
  BY <1>1
<1>7. TypeOK
  <2>1. /\ pc \in {"select", "client", "poll", "send"}
        /\ client_ready \in BOOLEAN /\ alive \in BOOLEAN
        /\ client_end \in {"no", "eof", "reset"} /\ up \subseteq {1, 2}
    BY <1>1
  <2>2. buffer \in Seq(1 .. TargetLimit) /\ Len(buffer) = 0
    BY <1>1, <1>3
  <2>3. Len(inq) = 0 /\ Len(outq) = 0 /\ Len(taken) = 0
    BY <1>1, <1>3
  <2>4. /\ Len(buffer) <= BufferSize /\ sent_now \in 0 .. Len(buffer)
        /\ Len(inq) <= KernelBuf /\ Len(outq) <= KernelBuf
    BY <1>1, <1>2, <2>2, <2>3
  <2>5. /\ bytes_sent \in 0 .. ClientLimit /\ bytes_received \in 0 .. TargetLimit
        /\ last_activity \in 0 .. ConnTimeout + 1 /\ written \in 0 .. ClientLimit
    BY <1>1, <1>2
  <2>6. accepted \in [{1, 2} -> Nat] /\ Len(taken) = accepted[1]
    BY <1>1, <1>6, <2>3
  <2> QED BY <2>1, <2>2, <2>4, <2>5, <2>6 DEF TypeOK
<1>8. Control
  BY <1>1 DEF Control
<1>9. StreamSound
  <2>1. delivered \in [{1, 2} -> Seq(Nat)]
    BY <1>1, <1>3
  <2>2. \A n \in {1, 2} :
          /\ Rising(delivered[n])
          /\ \A i \in 1 .. Len(delivered[n]) : delivered[n][i] \in 1 .. accepted[Peer(n)]
    BY <1>3, <1>4, <1>6
  <2> QED BY <1>2, <1>6, <2>1, <2>2 DEF StreamSound
<1>10. ToTarget
  BY <1>1, <1>3, <1>4, <1>5, <1>6 DEF ToTarget
<1>11. ToClient
  BY <1>1, <1>3, <1>4, <1>5, <1>6 DEF ToClient
<1>12. CountersHonest
  BY <1>1, <1>3, <1>6 DEF CountersHonest
<1> QED BY <1>7, <1>8, <1>9, <1>10, <1>11, <1>12 DEF HybridInv

LEMMA HybridStep ==
  ASSUME HybridInv, [Next]_vars
  PROVE  HybridInv'
<1>1. CASE UNCHANGED vars
  <2>1. UNCHANGED <<pc, client_ready, alive, buffer, sent_now, bytes_sent,
                    bytes_received, last_activity, written, inq, outq, got, client_end,
                    taken, accepted, delivered, up>>
    BY <1>1 DEF vars, connVars, callVars, clientVars, streamVars
  <2>2. StreamSound' /\ ToTarget' /\ ToClient'
    BY <2>1, Facts, StreamSame, ToTargetSame, ToClientSame
  <2>3. TypeOK' /\ Control' /\ CountersHonest'
    BY <2>1, Facts DEF TypeOK, Control, CountersHonest
  <2> QED BY <2>2, <2>3 DEF HybridInv
<1>2. CASE SelectReturns \/ SelectWoken \/ ClientQuiet \/ FromClientEof \/ PollEmpty
             \/ Tick
  BY <1>2, IdleKeeps, HybridRelayAssumption
<1>3. CASE TimedOut \/ FromClientReset \/ SendFails
  BY <1>3, CleanUpKeeps DEF TimedOut, FromClientReset, SendFails
<1>4. CASE FromClient
  BY <1>4, FromClientKeeps
<1>5. CASE Poll
  BY <1>5, PollKeeps
<1>6. CASE Send
  BY <1>6, SendKeeps
<1>7. CASE SendEnds
  BY <1>7, SendEndsKeeps
<1>8. CASE ClientWrites
  BY <1>8, ClientWritesKeeps
<1>9. CASE ClientReads
  BY <1>9, ClientReadsKeeps
<1>10. CASE ClientEnds
  BY <1>10, ClientEndsKeeps
<1>11. CASE TargetMoves
  BY <1>11, TargetKeeps
<1>12. CASE TransportGoesDown
  BY <1>12, DownKeeps
<1> QED BY <1>1, <1>2, <1>3, <1>4, <1>5, <1>6, <1>7, <1>8, <1>9, <1>10, <1>11, <1>12
        DEF Next, Loop

LEMMA HybridInvariant ==
  Spec => []HybridInv
<1>1. Init => HybridInv
  BY HybridInitially
<1>2. HybridInv /\ [Next]_vars => HybridInv'
  BY HybridStep
<1> QED BY <1>1, <1>2, PTL DEF Spec

\* The buffer of one call holds what recv() may put there, the kernel's queues
\* stay within their room, and the byte counters never exceed what was written.
THEOREM HybridTyped ==
  Spec => []TypeOK
<1>1. HybridInv => TypeOK
  BY DEF HybridInv
<1> QED BY <1>1, HybridInvariant, PTL

\* The order holds in every state the invariant describes: the target reads the
\* client's bytes through two selections, each of which keeps the order.
LEMMA InvGivesOrder ==
  ASSUME HybridInv
  PROVE  EndToEndOrder
<1>1. /\ TypeOK /\ StreamSound /\ ToTarget /\ ToClient /\ accepted[1] \in Nat
  BY Facts
<1>2. /\ taken \in Seq(Nat) /\ inq \in Seq(Nat) /\ Len(taken) = accepted[1]
      /\ Rising(taken) /\ Rising(inq) /\ Ahead(taken, inq)
  BY <1>1, RisingParts DEF ToTarget, TypeOK
<1> DEFINE d == delivered[2]   G == TargetGot
<1>3. /\ d \in Seq(Nat) /\ Rising(d) /\ Len(d) \in Nat
      /\ \A i \in 1 .. Len(d) : d[i] \in 1 .. Len(taken)
  <2>1. Peer(2) = 1
    BY DEF Peer
  <2>2. /\ d \in Seq(Nat) /\ Rising(d)
        /\ \A i \in 1 .. Len(d) : d[i] \in 1 .. accepted[Peer(2)]
    BY <1>1 DEF StreamSound
  <2> HIDE DEF d
  <2> QED BY <1>2, <2>1, <2>2, LenProperties
<1>4. G = [i \in 1 .. Len(d) |-> taken[d[i]]]
  BY DEF TargetGot
<1> HIDE DEF d, G
<1>5. \A i \in 1 .. Len(d) : taken[d[i]] \in Nat
  BY <1>2, <1>3, LenProperties
<1>6. /\ G \in Seq(Nat) /\ Len(G) = Len(d)
      /\ \A i \in 1 .. Len(G) : G[i] = taken[d[i]]
  <2>1. G \in Seq(Nat)
    BY <1>3, <1>4, <1>5, IsASeq
  <2>2. Len(G) = Len(d)
    BY <1>3, <1>4, <2>1, LenProperties
  <2> QED BY <1>4, <2>1, <2>2
<1>7. Rising(G)
  <2> SUFFICES ASSUME NEW i \in 1 .. Len(G), NEW j \in 1 .. Len(G), i < j
               PROVE  G[i] < G[j]
    BY DEF Rising
  <2>1. d[i] \in 1 .. Len(taken) /\ d[j] \in 1 .. Len(taken) /\ d[i] < d[j]
    BY <1>3, <1>6 DEF Rising
  <2> QED BY <1>2, <1>6, <2>1 DEF Rising
<1>8. Ahead(G, inq)
  BY <1>2, <1>3, <1>6 DEF Ahead
<1>9. Rising(G \o inq)
  BY <1>2, <1>6, <1>7, <1>8, RisingParts
<1> QED BY <1>1, <1>9 DEF EndToEndOrder, ToClient, G

\* Across the two hops neither side ever reads a byte of the other out of order
\* or twice, whatever was refused, cut off or dropped on the way.
THEOREM OrderAcrossBothHops ==
  Spec => []EndToEndOrder
<1>1. HybridInv => EndToEndOrder
  BY InvGivesOrder
<1> QED BY <1>1, HybridInvariant, PTL

\* The byte counters of an entry count what the transport took and what the
\* client's socket took, not what was read and thrown away.
THEOREM CountersCountDeliveries ==
  Spec => []CountersHonest
<1>1. HybridInv => CountersHonest
  BY DEF HybridInv
<1> QED BY <1>1, HybridInvariant, PTL

=============================================================================
