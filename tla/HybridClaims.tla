---------------------------- MODULE HybridClaims ---------------------------
(***************************************************************************)
(* What the documents and the comments of the repository say of the hybrid *)
(* transport and the code does not do: each property is refuted by a run.  *)
(***************************************************************************)
EXTENDS MCHybrid

BothConnected == \A n \in Nodes : phase[n] = "connected"

\* README.md calls the transport highly reliable: while both ends are
\* connected, the packet a receiver waits for is one it holds, one its peer
\* still keeps for sending again, or the next one its peer will number.
NextCanArrive ==
  BothConnected => \A n \in Nodes :
    \/ recv_sequence[n] = send_sequence[Peer(n)]
    \/ Listed(recv_buffer[n], recv_sequence[n])
    \/ Listed(send_buffer[Peer(n)], recv_sequence[n])

\* The comment of ht_handle_timeout() on what it drops: a packet leaves the
\* list for want of an acknowledgement only when it was sent again as often as
\* max_retransmit allows.
OnlyExhaustedAreDropped ==
  [][\A n \in Nodes : \A i \in Positions(send_buffer[n]) :
       LET entry == send_buffer[n][i]
       IN (phase'[n] # "destroyed" /\ ~Listed(send_buffer'[n], entry.sequence)) =>
            \/ Exhausted(entry)
            \/ \E packet \in InFlightTo(n) :
                 packet.type = "ACK" /\ packet.ack = entry.sequence]_vars
=============================================================================
