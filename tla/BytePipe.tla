----------------------------- MODULE BytePipe ------------------------------
(***************************************************************************)
(* What the relay promises the two ends of a connection: each direction is *)
(* a first-in first-out pipe of bytes, which may be cut but never         *)
(* reordered, thinned or repeated.  Byte n of a flow is the number n.      *)
(***************************************************************************)
EXTENDS Integers, Sequences

CONSTANT Flows

VARIABLES
  written,  \* per flow, how many bytes its source has written
  pipe,     \* per flow, the bytes on their way
  got,      \* per flow, what its destination has read
  cut       \* the flows that will carry nothing new

pipeVars == <<written, pipe, got, cut>>

Stream(n) == [i \in 1 .. n |-> i]

Init ==
  /\ written = [f \in Flows |-> 0]
  /\ pipe = [f \in Flows |-> <<>>]
  /\ got = [f \in Flows |-> <<>>]
  /\ cut = {}

\* A source does not see a cut at once: what it still writes is lost.
Put(f) ==
  /\ written' = [written EXCEPT ![f] = @ + 1]
  /\ pipe' = IF f \in cut THEN pipe
                          ELSE [pipe EXCEPT ![f] = Append(@, written[f] + 1)]
  /\ UNCHANGED <<got, cut>>

Get(f) ==
  /\ pipe[f] # <<>>
  /\ got' = [got EXCEPT ![f] = Append(@, Head(pipe[f]))]
  /\ pipe' = [pipe EXCEPT ![f] = Tail(@)]
  /\ UNCHANGED <<written, cut>>

\* A cut loses a tail of what is on its way.
Cut(F) ==
  /\ cut' = cut \cup F
  /\ DOMAIN pipe' = Flows
  /\ \A f \in F : /\ Len(pipe'[f]) <= Len(pipe[f])
                  /\ pipe'[f] = SubSeq(pipe[f], 1, Len(pipe'[f]))
  /\ \A f \in Flows \ F : pipe'[f] = pipe[f]
  /\ UNCHANGED <<written, got>>

Next ==
  \/ \E f \in Flows : Put(f) \/ Get(f)
  \/ \E F \in SUBSET Flows : Cut(F)

Spec == Init /\ [][Next]_pipeVars
=============================================================================
