------------------------------ MODULE HtStats -------------------------------
(***************************************************************************)
(* What hybrid_transport.c measures of one connection: the round trip      *)
(* times, and the counters its loss rate is made of.                       *)
(***************************************************************************)
EXTENDS Integers

CONSTANTS
  RttLimit,     \* the longest round trip
  Uint32,       \* 2^32
  MaxRetransmit,
  MaxSends      \* packets that may be sent, and be out: bounds the model

\* A round trip of 2^29 ms or more makes avg * 7 + rtt wrap.
ASSUME StatsAssumption ==
  /\ RttLimit \in Nat /\ Uint32 \in Nat
  /\ 8 * RttLimit < Uint32
  /\ MaxRetransmit \in Nat /\ MaxSends \in Nat

VARIABLES
  rtt_min, rtt_max, rtt_avg,
  packets_sent, packets_lost, packets_retransmitted,
  unacknowledged,   \* of send_buffer: for each number of sends again, how many
  forgotten         \* history: how many packets were out at the last reset

rttVars   == <<rtt_min, rtt_max, rtt_avg>>
countVars == <<packets_sent, packets_lost, packets_retransmitted>>
statVars  == <<rttVars, countVars, unacknowledged, forgotten>>

Counts == 0 .. MaxRetransmit

StatsInit ==
  /\ rtt_min = Uint32 - 1 /\ rtt_max = 0 /\ rtt_avg = 0
  /\ packets_sent = 0 /\ packets_lost = 0 /\ packets_retransmitted = 0
  /\ unacknowledged = [c \in Counts |-> 0]
  /\ forgotten = 0

MovingByParts(avg, rtt) == (avg * 7) \div 8 + rtt \div 8   \* fault: cut off twice
MovingAverage(avg, rtt) == ((avg * 7 + rtt) % Uint32) \div 8

\* An average of 0 counts as none.
ht_update_rtt(rtt) ==
  /\ rtt_min' = IF rtt < rtt_min THEN rtt ELSE rtt_min
  /\ rtt_max' = IF rtt > rtt_max THEN rtt ELSE rtt_max
  /\ rtt_avg' = IF rtt_avg = 0 THEN rtt ELSE MovingAverage(rtt_avg, rtt)

Out == LET sum[c \in -1 .. MaxRetransmit] ==
             IF c = -1 THEN 0 ELSE sum[c - 1] + unacknowledged[c]
       IN sum[MaxRetransmit]

\* A data packet goes out and is kept; heartbeats and the like only count.
Send ==
  /\ packets_sent < MaxSends
  /\ packets_sent' = packets_sent + 1
  /\ \/ UNCHANGED unacknowledged
     \/ Out < MaxSends /\ unacknowledged' = [unacknowledged EXCEPT ![0] = @ + 1]
  /\ UNCHANGED <<rttVars, packets_lost, packets_retransmitted, forgotten>>

\* The time is measured from the last send, whichever one was acknowledged.
Acknowledged ==
  /\ \E c \in Counts :
       /\ unacknowledged[c] > 0
       /\ unacknowledged' = [unacknowledged EXCEPT ![c] = @ - 1]
  /\ \E rtt \in 0 .. RttLimit : ht_update_rtt(rtt)
  /\ UNCHANGED <<countVars, forgotten>>

\* A failed send counts as one of the entry's sends, not of the statistics.
SendAgain ==
  /\ packets_sent < MaxSends
  /\ \E c \in Counts \ {MaxRetransmit}, sent \in {0, 1} :
       /\ unacknowledged[c] > 0
       /\ unacknowledged' = [unacknowledged EXCEPT ![c] = @ - 1, ![c + 1] = @ + 1]
       /\ packets_sent' = packets_sent + sent
       /\ packets_retransmitted' = packets_retransmitted + sent
  /\ UNCHANGED <<rttVars, packets_lost, forgotten>>

\* The loop that drops an entry may unlink entries sent again along with it.
GiveUpLeaving(least) ==
  /\ unacknowledged[MaxRetransmit] > 0
  /\ \E left \in [Counts -> 0 .. MaxSends] :
       /\ left[0] = unacknowledged[0]
       /\ \A c \in Counts : left[c] <= unacknowledged[c]
       /\ left[MaxRetransmit] <= unacknowledged[MaxRetransmit] - least
       /\ unacknowledged' = left
  /\ packets_lost < MaxSends
  /\ packets_lost' = packets_lost + 1
  /\ UNCHANGED <<rttVars, packets_sent, packets_retransmitted, forgotten>>

GiveUpKeeps == GiveUpLeaving(0)   \* fault: the entry may stay in the list
GiveUp      == GiveUpLeaving(1)

ht_reset_stats ==
  /\ rtt_min' = Uint32 - 1 /\ rtt_max' = 0 /\ rtt_avg' = 0
  /\ packets_sent' = 0 /\ packets_lost' = 0 /\ packets_retransmitted' = 0
  /\ forgotten' = Out
  /\ UNCHANGED unacknowledged

StatsNext ==
  \/ Send \/ Acknowledged \/ SendAgain \/ GiveUp \/ ht_reset_stats

StatsSpec == StatsInit /\ [][StatsNext]_statVars

-----------------------------------------------------------------------------
(* Properties *)

\* The average lies between the shortest and the longest round trip, through the
\* truncating division, the 0 that stands for none, and a reset at any moment.
AverageBetween == rtt_max > 0 => rtt_min <= rtt_avg /\ rtt_avg <= rtt_max

\* The loss rate of ht_get_stats() is one at most, but for the packets that were
\* out when the statistics were reset: a packet is counted lost once, after it
\* was counted sent, and what was sent again as well.
LossAccounted ==
  packets_lost + packets_retransmitted + Out <= packets_sent + forgotten
=============================================================================
