------------------------------ MODULE HtStream ------------------------------
(***************************************************************************)
(* What the hybrid transport promises the program above it, without        *)
(* packets, numbers or timers: two ends, each of which accepts bytes while *)
(* it is up and is given bytes the other end accepted, in their order and  *)
(* each at most once.  Bytes may be missing, at any place.                 *)
(***************************************************************************)
EXTENDS Integers, Sequences, FiniteSets

CONSTANTS
  Ends,         \* the two ends
  Other(_),     \* the other one of them
  MaxChunk      \* bytes that one step may accept

VARIABLES
  accepted,     \* per end, how many bytes it took: byte k of it is the number k
  delivered,    \* per end, the bytes of the other end it gave up, in order
  up            \* the ends that still send and receive

streamVars == <<accepted, delivered, up>>

Ascending(S) ==
  [i \in 1 .. Cardinality(S) |->
     CHOOSE k \in S : Cardinality({j \in S : j <= k}) = i]

Init ==
  /\ accepted = [n \in Ends |-> 0]
  /\ delivered = [n \in Ends |-> <<>>]
  /\ up = Ends

LastOf(n) == IF delivered[n] = <<>> THEN 0 ELSE delivered[n][Len(delivered[n])]

Accept(n, count) ==
  /\ n \in up
  /\ accepted' = [accepted EXCEPT ![n] = @ + count]
  /\ UNCHANGED <<delivered, up>>

\* The bytes that may come next at n.
Coming(n) == (LastOf(n) + 1) .. accepted[Other(n)]

Deliver(n, S) ==
  /\ n \in up
  /\ delivered' = [delivered EXCEPT ![n] = @ \o Ascending(S)]
  /\ UNCHANGED <<accepted, up>>

GoDown(n) ==
  /\ up' = up \ {n}
  /\ UNCHANGED <<accepted, delivered>>

Next ==
  \E n \in Ends :
    \/ \E count \in 1 .. MaxChunk : Accept(n, count)
    \/ \E S \in SUBSET Coming(n) : Deliver(n, S)
    \/ GoDown(n)

Spec == Init /\ [][Next]_streamVars
=============================================================================
