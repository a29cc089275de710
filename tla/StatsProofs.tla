---------------------------- MODULE StatsProofs -----------------------------
(***************************************************************************)
(* Machine-checked proofs about module HtStats, for every longest round    *)
(* trip that leaves room in 32 bits and any number of retransmissions.     *)
(***************************************************************************)
EXTENDS HtStats, DataLemmas

-----------------------------------------------------------------------------
(* The average *)

\* Nothing measured, as after a reset, or an average between the two extremes.
\* The 0 that stands for no average is a value of one as well: then the shortest
\* round trip was 0, and the next one is again taken as it is.
RttInv ==
  \/ rtt_min = Uint32 - 1 /\ rtt_max = 0 /\ rtt_avg = 0
  \/ /\ rtt_min \in 0 .. RttLimit /\ rtt_max \in 0 .. RttLimit /\ rtt_avg \in Int
     /\ rtt_min <= rtt_avg /\ rtt_avg <= rtt_max

\* The truncating average of two numbers within bounds stays within them, as
\* the product does not wrap.
LEMMA AverageWithin ==
  ASSUME NEW low \in 0 .. RttLimit, NEW high \in 0 .. RttLimit,
         NEW avg \in low .. high, NEW rtt \in low .. high
  PROVE  MovingAverage(avg, rtt) \in low .. high
<1> DEFINE sum == avg * 7 + rtt
<1>1. sum \in Nat /\ 8 * low <= sum /\ sum <= 8 * high /\ sum < Uint32
  BY StatsAssumption
<1>2. sum % Uint32 = sum
  BY <1>1, StatsAssumption
<1>3. sum \div 8 \in low .. high
  <2> HIDE DEF sum
  <2> QED BY <1>1
<1> QED BY <1>2, <1>3 DEF MovingAverage

LEMMA UpdateKeeps ==
  ASSUME RttInv, NEW rtt \in 0 .. RttLimit, ht_update_rtt(rtt) PROVE RttInv'
<1>0. RttLimit < Uint32 - 1 \/ RttLimit = 0
  BY StatsAssumption
<1>1. CASE rtt_min = Uint32 - 1 /\ rtt_max = 0 /\ rtt_avg = 0
  <2>1. rtt_min' = rtt /\ rtt_max' = rtt /\ rtt_avg' = rtt
    BY <1>0, <1>1, StatsAssumption DEF ht_update_rtt
  <2> QED BY <2>1 DEF RttInv
<1>2. CASE /\ rtt_min \in 0 .. RttLimit /\ rtt_max \in 0 .. RttLimit /\ rtt_avg \in Int
           /\ rtt_min <= rtt_avg /\ rtt_avg <= rtt_max
  <2>1. /\ rtt_min' \in 0 .. RttLimit /\ rtt_max' \in 0 .. RttLimit
        /\ rtt_min' <= rtt_min /\ rtt_min' <= rtt
        /\ rtt_max <= rtt_max' /\ rtt <= rtt_max'
    BY <1>2, StatsAssumption DEF ht_update_rtt
  <2>2. rtt_avg \in rtt_min' .. rtt_max' /\ rtt \in rtt_min' .. rtt_max'
    BY <1>2, <2>1, StatsAssumption
  <2>3. rtt_avg' \in rtt_min' .. rtt_max'
    BY <2>1, <2>2, AverageWithin DEF ht_update_rtt
  <2> QED BY <2>1, <2>3, StatsAssumption DEF RttInv
<1> QED BY <1>1, <1>2 DEF RttInv

LEMMA RttStep == RttInv /\ [StatsNext]_statVars => RttInv'
<1> SUFFICES ASSUME RttInv, [StatsNext]_statVars PROVE RttInv'
  OBVIOUS
<1>1. CASE UNCHANGED statVars \/ Send \/ SendAgain \/ GiveUp
  <2>1. UNCHANGED rttVars
    BY <1>1 DEF statVars, Send, SendAgain, GiveUp, GiveUpLeaving
  <2> QED BY <2>1 DEF RttInv, rttVars
<1>2. CASE Acknowledged
  BY <1>2, UpdateKeeps DEF Acknowledged
<1>3. CASE ht_reset_stats
  BY <1>3 DEF ht_reset_stats, RttInv
<1> QED BY <1>1, <1>2, <1>3 DEF StatsNext

(* The average round trip lies between the shortest and the longest one, after *)
(* any number of measurements and resets: ht_update_rtt()'s division rounds    *)
(* down, and yet never below the shortest.                                     *)
THEOREM AverageStays == StatsSpec => []AverageBetween
<1>1. StatsInit => RttInv
  BY DEF StatsInit, RttInv
<1>2. RttInv => AverageBetween
  BY StatsAssumption DEF RttInv, AverageBetween
<1> QED BY <1>1, <1>2, RttStep, PTL DEF StatsSpec

-----------------------------------------------------------------------------
(* The sum of the packets that are out *)

Levels == -1 .. MaxRetransmit
SumsOf(f) == CHOOSE g : g = [c \in Levels |-> IF c = -1 THEN 0 ELSE g[c - 1] + f[c]]
TotalOf(f) == SumsOf(f)[MaxRetransmit]

LEMMA OutIsTotal == Out = TotalOf(unacknowledged)
BY DEF Out, TotalOf, SumsOf, Levels

\* There are partial sums, which the recursive definition takes for granted.
LEMMA SumsExist ==
  ASSUME NEW f \in [Counts -> Nat]
  PROVE  \E g \in [Levels -> Nat] :
           g = [c \in Levels |-> IF c = -1 THEN 0 ELSE g[c - 1] + f[c]]
<1> DEFINE Upto(n) == -1 .. (n - 1)
           Fits(g, n) == /\ g \in [Upto(n) -> Nat]
                         /\ g[-1] = 0
                         /\ \A c \in Upto(n) : c # -1 => g[c] = g[c - 1] + f[c]
           T == {n \in Nat : n <= MaxRetransmit + 1 => \E g : Fits(g, n)}
<1>0. MaxRetransmit \in Nat
  BY StatsAssumption
<1>1. 0 \in T
  <2>1. Fits([c \in Upto(0) |-> 0], 0)
    OBVIOUS
  <2> QED BY <2>1
<1>2. ASSUME NEW n \in Nat, n \in T PROVE n + 1 \in T
  <2> HIDE DEF Fits
  <2> SUFFICES ASSUME n + 1 <= MaxRetransmit + 1 PROVE \E g : Fits(g, n + 1)
    OBVIOUS
  <2>1. n <= MaxRetransmit + 1 /\ n \in Counts
    BY <1>0 DEF Counts
  <2>2. PICK g : Fits(g, n)
    BY <1>2, <2>1
  <2> USE DEF Fits
  <2>3. f[n] \in Nat /\ g[n - 1] \in Nat
    BY <2>1, <2>2
  <2> DEFINE h == [c \in Upto(n + 1) |-> IF c = n THEN g[n - 1] + f[n] ELSE g[c]]
  <2>4. h \in [Upto(n + 1) -> Nat]
    <3>1. \A c \in Upto(n + 1) : c # n => c \in Upto(n)
      OBVIOUS
    <3> QED BY <2>2, <2>3, <3>1
  <2>5. h[-1] = 0
    BY <2>2
  <2>6. ASSUME NEW c \in Upto(n + 1), c # -1 PROVE h[c] = h[c - 1] + f[c]
    <3>1. c - 1 \in Upto(n) /\ c - 1 \in Upto(n + 1) /\ c - 1 # n
      BY <2>6
    <3>2. h[c - 1] = g[c - 1]
      BY <3>1
    <3>3. CASE c = n
      BY <3>2, <3>3
    <3>4. CASE c # n
      <4>1. c \in Upto(n)
        BY <3>4
      <4> QED BY <2>2, <2>6, <3>2, <3>4, <4>1
    <3> QED BY <3>3, <3>4
  <2>7. Fits(h, n + 1)
    BY <2>4, <2>5, <2>6
  <2> QED BY <2>7
<1>3. MaxRetransmit + 1 \in T
  <2> HIDE DEF T
  <2>1. Nat \subseteq T
    BY <1>1, <1>2, InductionSet
  <2> QED BY <1>0, <2>1
<1>4. PICK g : Fits(g, MaxRetransmit + 1)
  <2> HIDE DEF Fits
  <2> QED BY <1>0, <1>3
<1>5. Upto(MaxRetransmit + 1) = Levels
  BY <1>0 DEF Levels
<1>6. g \in [Levels -> Nat]
  BY <1>4, <1>5
<1>7. g = [c \in Levels |-> IF c = -1 THEN 0 ELSE g[c - 1] + f[c]]
  <2>1. \A c \in Levels : g[c] = IF c = -1 THEN 0 ELSE g[c - 1] + f[c]
    BY <1>4, <1>5
  <2> QED BY <1>6, <2>1
<1> QED BY <1>6, <1>7

LEMMA SumsAre ==
  ASSUME NEW f \in [Counts -> Nat]
  PROVE  /\ SumsOf(f) \in [Levels -> Nat] /\ SumsOf(f)[-1] = 0
         /\ \A c \in Counts : SumsOf(f)[c] = SumsOf(f)[c - 1] + f[c]
         /\ TotalOf(f) \in Nat
<1>0. MaxRetransmit \in Nat
  BY StatsAssumption
<1> DEFINE g == SumsOf(f)
<1>1. g = [c \in Levels |-> IF c = -1 THEN 0 ELSE g[c - 1] + f[c]]
  BY SumsExist DEF SumsOf
<1>2. \A c \in Levels : g[c] = IF c = -1 THEN 0 ELSE g[c - 1] + f[c]
  <2> HIDE DEF g
  <2> QED BY <1>1
<1>3. -1 \in Levels /\ MaxRetransmit \in Levels
      /\ \A c \in Counts : c \in Levels /\ c # -1
  BY <1>0 DEF Levels, Counts
<1> DEFINE T == {n \in Nat : n <= MaxRetransmit + 1 => g[n - 1] \in Nat}
<1> HIDE DEF g
<1>4. 0 \in T
  BY <1>2, <1>3
<1>5. ASSUME NEW n \in Nat, n \in T PROVE n + 1 \in T
  <2> SUFFICES ASSUME n + 1 <= MaxRetransmit + 1 PROVE g[(n + 1) - 1] \in Nat
    OBVIOUS
  <2>1. n \in Counts /\ g[n - 1] \in Nat
    BY <1>0, <1>5 DEF Counts
  <2>2. g[n] = g[n - 1] + f[n] /\ f[n] \in Nat
    BY <1>2, <1>3, <2>1
  <2> QED BY <2>1, <2>2
<1>6. ASSUME NEW c \in Levels PROVE g[c] \in Nat
  <2>1. Nat \subseteq T
    <3> HIDE DEF T
    <3> QED BY <1>4, <1>5, InductionSet
  <2>2. c + 1 \in Nat /\ c + 1 <= MaxRetransmit + 1 /\ (c + 1) - 1 = c
    BY <1>0 DEF Levels
  <2> QED BY <2>1, <2>2
<1>7. g \in [Levels -> Nat]
  BY <1>1, <1>6
<1>8. g[-1] = 0 /\ g[MaxRetransmit] \in Nat /\ \A c \in Counts : g[c] = g[c - 1] + f[c]
  BY <1>2, <1>3, <1>6
<1> QED BY <1>7, <1>8 DEF g, TotalOf

LEMMA OneChanged ==
  ASSUME NEW f \in [Counts -> Nat], NEW h \in [Counts -> Nat], NEW k \in Counts,
         \A c \in Counts : c # k => h[c] = f[c]
  PROVE  TotalOf(h) = TotalOf(f) - f[k] + h[k]
<1> DEFINE a == SumsOf(f)
           b == SumsOf(h)
<1>1. h \in [Counts -> Nat] /\ \A c \in Counts : c # k => h[c] = f[c]
  OBVIOUS
<1>2. /\ a \in [Levels -> Nat] /\ a[-1] = 0
      /\ \A c \in Counts : a[c] = a[c - 1] + f[c]
  BY SumsAre
<1>3. /\ b \in [Levels -> Nat] /\ b[-1] = 0
      /\ \A c \in Counts : b[c] = b[c - 1] + h[c]
  BY <1>1, SumsAre
<1> HIDE DEF a, b
<1>4. MaxRetransmit \in Nat /\ k \in Nat /\ k <= MaxRetransmit /\ f[k] \in Nat /\ h[k] \in Nat
  BY StatsAssumption DEF Counts
<1> DEFINE T == {n \in Nat : n <= MaxRetransmit + 1 =>
                   b[n - 1] = IF n - 1 >= k THEN a[n - 1] - f[k] + h[k] ELSE a[n - 1]}
<1>5. 0 \in T
  BY <1>2, <1>3, <1>4
<1>6. ASSUME NEW n \in Nat, n \in T PROVE n + 1 \in T
  <2> SUFFICES ASSUME n + 1 <= MaxRetransmit + 1
               PROVE  b[n] = IF n >= k THEN a[n] - f[k] + h[k] ELSE a[n]
    BY DEF T
  <2>1. n \in Counts /\ n - 1 \in Levels /\ n \in Levels
    BY <1>4 DEF Counts, Levels
  <2>2. a[n] = a[n - 1] + f[n] /\ b[n] = b[n - 1] + h[n]
    BY <1>2, <1>3, <2>1
  <2>3. a[n - 1] \in Nat /\ b[n - 1] \in Nat /\ f[n] \in Nat /\ h[n] \in Nat
    BY <1>1, <1>2, <1>3, <2>1
  <2>4. b[n - 1] = IF n - 1 >= k THEN a[n - 1] - f[k] + h[k] ELSE a[n - 1]
    BY <1>4, <1>6
  <2>5. CASE n = k
    BY <1>1, <1>4, <2>2, <2>3, <2>4, <2>5
  <2>6. CASE n # k
    <3>1. h[n] = f[n]
      BY <1>1, <2>1, <2>6
    <3> QED BY <1>4, <2>2, <2>3, <2>4, <2>6, <3>1
  <2> QED BY <2>5, <2>6
<1>7. MaxRetransmit + 1 \in T
  <2> HIDE DEF T
  <2>1. Nat \subseteq T
    BY <1>5, <1>6, InductionSet
  <2> QED BY <1>4, <2>1
<1>8. b[MaxRetransmit] = a[MaxRetransmit] - f[k] + h[k]
  BY <1>4, <1>7
<1> QED BY <1>8 DEF a, b, TotalOf

\* Fewer of every kind, and the last kind fewer by so many, are fewer by as many.
LEMMA FewerLeft ==
  ASSUME NEW f \in [Counts -> Nat], NEW h \in [Counts -> Nat],
         \A c \in Counts : h[c] <= f[c]
  PROVE  TotalOf(h) + (f[MaxRetransmit] - h[MaxRetransmit]) <= TotalOf(f)
<1> DEFINE a == SumsOf(f)
           b == SumsOf(h)
<1>2. /\ a \in [Levels -> Nat] /\ a[-1] = 0
      /\ \A c \in Counts : a[c] = a[c - 1] + f[c]
  BY SumsAre
<1>3. /\ b \in [Levels -> Nat] /\ b[-1] = 0
      /\ \A c \in Counts : b[c] = b[c - 1] + h[c]
  BY SumsAre
<1> HIDE DEF a, b
<1>4. MaxRetransmit \in Nat /\ MaxRetransmit \in Counts
  BY StatsAssumption DEF Counts
<1> DEFINE T == {n \in Nat : n <= MaxRetransmit + 1 => b[n - 1] <= a[n - 1]}
<1>5. 0 \in T
  BY <1>2, <1>3
<1>6. ASSUME NEW n \in Nat, n \in T PROVE n + 1 \in T
  <2> SUFFICES ASSUME n + 1 <= MaxRetransmit + 1 PROVE b[n] <= a[n]
    BY DEF T
  <2>1. n \in Counts /\ n - 1 \in Levels
    BY <1>4 DEF Counts, Levels
  <2>2. a[n] = a[n - 1] + f[n] /\ b[n] = b[n - 1] + h[n] /\ h[n] <= f[n]
    BY <1>2, <1>3, <2>1
  <2>3. a[n - 1] \in Nat /\ b[n - 1] \in Nat /\ f[n] \in Nat /\ h[n] \in Nat
    BY <1>2, <1>3, <2>1
  <2>4. b[n - 1] <= a[n - 1]
    BY <1>4, <1>6
  <2> QED BY <2>2, <2>3, <2>4
<1>7. b[MaxRetransmit - 1] <= a[MaxRetransmit - 1]
  <2> HIDE DEF T
  <2>1. Nat \subseteq T
    BY <1>5, <1>6, InductionSet
  <2>2. MaxRetransmit \in T
    BY <1>4, <2>1
  <2> QED BY <1>4, <2>2 DEF T
<1>8. /\ a[MaxRetransmit] = a[MaxRetransmit - 1] + f[MaxRetransmit]
      /\ b[MaxRetransmit] = b[MaxRetransmit - 1] + h[MaxRetransmit]
      /\ f[MaxRetransmit] \in Nat /\ h[MaxRetransmit] \in Nat
  BY <1>2, <1>3, <1>4
<1>9. a[MaxRetransmit - 1] \in Nat /\ b[MaxRetransmit - 1] \in Nat
  <2>1. MaxRetransmit - 1 \in Levels
    BY <1>4 DEF Levels
  <2> QED BY <1>2, <1>3, <2>1
<1>10. b[MaxRetransmit] + (f[MaxRetransmit] - h[MaxRetransmit]) <= a[MaxRetransmit]
  BY <1>7, <1>8, <1>9
<1> QED BY <1>10 DEF a, b, TotalOf

-----------------------------------------------------------------------------
(* The loss rate *)

\* What is out are numbers of packets, and the books of the packets balance.
LossInv ==
  /\ unacknowledged \in [Counts -> Nat]
  /\ packets_sent \in Nat /\ packets_lost \in Nat /\ packets_retransmitted \in Nat
  /\ forgotten \in Nat
  /\ packets_lost + packets_retransmitted + TotalOf(unacknowledged)
       <= packets_sent + forgotten

LEMMA NoneIsNothing == TotalOf([c \in Counts |-> 0]) = 0
<1> DEFINE f == [c \in Counts |-> 0]
           a == SumsOf(f)
<1>1. f \in [Counts -> Nat] /\ \A c \in Counts : f[c] = 0
  OBVIOUS
<1> HIDE DEF f
<1>2. /\ a \in [Levels -> Nat] /\ a[-1] = 0
      /\ \A c \in Counts : a[c] = a[c - 1] + f[c]
  BY <1>1, SumsAre
<1> HIDE DEF a
<1>3. MaxRetransmit \in Nat
  BY StatsAssumption
<1> DEFINE T == {n \in Nat : n <= MaxRetransmit + 1 => a[n - 1] = 0}
<1>4. 0 \in T
  BY <1>2
<1>5. ASSUME NEW n \in Nat, n \in T PROVE n + 1 \in T
  <2> SUFFICES ASSUME n + 1 <= MaxRetransmit + 1 PROVE a[n] = 0
    BY DEF T
  <2>1. n \in Counts
    BY <1>3 DEF Counts
  <2> QED BY <1>1, <1>2, <1>3, <1>5, <2>1
<1>6. a[MaxRetransmit] = 0
  <2> HIDE DEF T
  <2>1. Nat \subseteq T
    BY <1>4, <1>5, InductionSet
  <2>2. MaxRetransmit + 1 \in T
    BY <1>3, <2>1
  <2> QED BY <1>3, <2>2 DEF T
<1> QED BY <1>6 DEF a, f, TotalOf

LEMMA LossStep == LossInv /\ [StatsNext]_statVars => LossInv'
<1> SUFFICES ASSUME LossInv, [StatsNext]_statVars PROVE LossInv'
  OBVIOUS
<1> USE DEF LossInv
<1>0. /\ TotalOf(unacknowledged) \in Nat /\ MaxRetransmit \in Nat
      /\ 0 \in Counts /\ MaxRetransmit \in Counts
  BY SumsAre, StatsAssumption DEF Counts
<1>1. CASE UNCHANGED statVars
  BY <1>1 DEF statVars, countVars
<1>2. CASE Send
  <2>1. /\ packets_sent' = packets_sent + 1 /\ packets_lost' = packets_lost
        /\ packets_retransmitted' = packets_retransmitted /\ forgotten' = forgotten
        /\ \/ unacknowledged' = unacknowledged
           \/ unacknowledged' = [unacknowledged EXCEPT ![0] = @ + 1]
    BY <1>2 DEF Send
  <2>2. /\ unacknowledged' \in [Counts -> Nat]
        /\ TotalOf(unacknowledged') <= TotalOf(unacknowledged) + 1
        /\ TotalOf(unacknowledged') \in Nat
    <3>1. CASE unacknowledged' = unacknowledged
      BY <1>0, <3>1
    <3>2. CASE unacknowledged' = [unacknowledged EXCEPT ![0] = @ + 1]
      <4> DEFINE up == [unacknowledged EXCEPT ![0] = @ + 1]
      <4>1. /\ unacknowledged' = up /\ up \in [Counts -> Nat]
            /\ up[0] = unacknowledged[0] + 1 /\ unacknowledged[0] \in Nat
            /\ \A c \in Counts : c # 0 => up[c] = unacknowledged[c]
        BY <1>0, <3>2
      <4> HIDE DEF up
      <4>2. TotalOf(up) = TotalOf(unacknowledged) - unacknowledged[0] + up[0]
        BY <1>0, <4>1, OneChanged
      <4> QED BY <1>0, <4>1, <4>2
    <3> QED BY <2>1, <3>1, <3>2
  <2> QED BY <1>0, <2>1, <2>2
<1>3. CASE Acknowledged
  <2>1. PICK c \in Counts : /\ unacknowledged[c] > 0
                            /\ unacknowledged' = [unacknowledged EXCEPT ![c] = @ - 1]
    BY <1>3 DEF Acknowledged
  <2> DEFINE less == [unacknowledged EXCEPT ![c] = @ - 1]
  <2>2. /\ unacknowledged' = less /\ less \in [Counts -> Nat]
        /\ less[c] = unacknowledged[c] - 1 /\ unacknowledged[c] \in Nat
        /\ \A d \in Counts : d # c => less[d] = unacknowledged[d]
    BY <2>1
  <2> HIDE DEF less
  <2>3. TotalOf(less) = TotalOf(unacknowledged) - unacknowledged[c] + less[c]
    BY <2>2, OneChanged
  <2>4. packets_lost' = packets_lost /\ packets_retransmitted' = packets_retransmitted
        /\ packets_sent' = packets_sent /\ forgotten' = forgotten
    BY <1>3 DEF Acknowledged, countVars
  <2>5. TotalOf(less) = TotalOf(unacknowledged) - 1
    BY <1>0, <2>2, <2>3
  <2> QED BY <1>0, <2>2, <2>4, <2>5
<1>4. CASE SendAgain
  <2>1. PICK c \in Counts \ {MaxRetransmit}, sent \in {0, 1} :
          /\ unacknowledged[c] > 0
          /\ unacknowledged' = [unacknowledged EXCEPT ![c] = @ - 1, ![c + 1] = @ + 1]
          /\ packets_sent' = packets_sent + sent
          /\ packets_retransmitted' = packets_retransmitted + sent
    BY <1>4 DEF SendAgain
  <2>2. packets_lost' = packets_lost /\ forgotten' = forgotten
    BY <1>4 DEF SendAgain
  <2>3. c + 1 \in Counts /\ c + 1 # c
    BY <1>0, <2>1 DEF Counts
  <2> DEFINE less == [unacknowledged EXCEPT ![c] = @ - 1]
  <2>4. /\ less \in [Counts -> Nat]
        /\ less[c] = unacknowledged[c] - 1 /\ unacknowledged[c] \in Nat
        /\ \A d \in Counts : d # c => less[d] = unacknowledged[d]
    BY <2>1
  <2>5. /\ unacknowledged' \in [Counts -> Nat]
        /\ unacknowledged'[c + 1] = less[c + 1] + 1
        /\ \A d \in Counts : d # c + 1 => unacknowledged'[d] = less[d]
    BY <2>1, <2>3, <2>4
  <2> HIDE DEF less
  <2>6. TotalOf(less) = TotalOf(unacknowledged) - unacknowledged[c] + less[c]
    BY <2>4, OneChanged
  <2>7. TotalOf(unacknowledged') = TotalOf(less) - less[c + 1] + unacknowledged'[c + 1]
    BY <2>3, <2>4, <2>5, OneChanged
  <2>8. TotalOf(unacknowledged') = TotalOf(unacknowledged)
    <3>1. less[c + 1] \in Nat /\ TotalOf(less) \in Nat
      BY <2>3, <2>4, SumsAre
    <3> QED BY <1>0, <2>4, <2>5, <2>6, <2>7, <3>1
  <2> QED BY <1>0, <2>1, <2>2, <2>5, <2>8
<1>5. CASE GiveUp
  <2>1. PICK left \in [Counts -> 0 .. MaxSends] :
          /\ \A c \in Counts : left[c] <= unacknowledged[c]
          /\ left[MaxRetransmit] <= unacknowledged[MaxRetransmit] - 1
          /\ unacknowledged' = left
    BY <1>5 DEF GiveUp, GiveUpLeaving
  <2>2. left \in [Counts -> Nat]
    BY StatsAssumption
  <2>3. TotalOf(left) + (unacknowledged[MaxRetransmit] - left[MaxRetransmit])
          <= TotalOf(unacknowledged)
    BY <2>1, <2>2, FewerLeft
  <2>4. /\ left[MaxRetransmit] \in Nat /\ unacknowledged[MaxRetransmit] \in Nat
        /\ TotalOf(left) \in Nat
    BY <1>0, <2>2, SumsAre
  <2>5. TotalOf(left) + 1 <= TotalOf(unacknowledged)
    BY <1>0, <2>1, <2>3, <2>4
  <2>6. packets_lost' = packets_lost + 1
        /\ UNCHANGED <<packets_sent, packets_retransmitted, forgotten>>
    BY <1>5 DEF GiveUp, GiveUpLeaving
  <2>7. TotalOf(unacknowledged') = TotalOf(left) /\ unacknowledged' \in [Counts -> Nat]
    BY <2>1, <2>2
  <2> QED BY <1>0, <2>4, <2>5, <2>6, <2>7
<1>6. CASE ht_reset_stats
  BY <1>0, <1>6, OutIsTotal DEF ht_reset_stats
<1> QED BY <1>1, <1>2, <1>3, <1>4, <1>5, <1>6 DEF StatsNext

(* Lost, sent again and still out never add up to more packets than were sent, *)
(* those out at the last ht_reset_stats() added: the rate of ht_get_stats()    *)
(* counts no packet lost twice, even when the loop that drops one unlinks      *)
(* others with it.                                                             *)
THEOREM LossBooksBalance == StatsSpec => []LossAccounted
<1>1. StatsInit => LossInv
  <2> SUFFICES ASSUME StatsInit PROVE LossInv
    OBVIOUS
  <2>1. unacknowledged \in [Counts -> Nat] /\ TotalOf(unacknowledged) = 0
    BY NoneIsNothing DEF StatsInit
  <2> QED BY <2>1 DEF StatsInit, LossInv
<1>2. LossInv => LossAccounted
  BY OutIsTotal DEF LossInv, LossAccounted
<1> QED BY <1>1, <1>2, LossStep, PTL DEF StatsSpec
=============================================================================
