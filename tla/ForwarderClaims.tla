-------------------------- MODULE ForwarderClaims --------------------------
(***************************************************************************)
(* What a document of the repository says of the event loop and the loop   *)
(* does not do: the run claim_standby violates it, README.md tells how.    *)
(***************************************************************************)
EXTENDS Forwarder

(* FAST_RECONNECT.md:5: the target's connection is kept alive while the client *)
(* is gone.  One byte from the target ends it: the relay sends to descriptor   *)
(* -1 and takes the error for a lost connection.                               *)
StandbyMayTalk ==
  [][\A i \in Standby : LET e == connections[i] IN
       /\ e.target_fd # NoFd
       /\ sock[e.target_fd] \in {"empty", "data"}
       /\ sock'[e.target_fd] = "closed"
       => e.last_activity > ConnTimeout \/ ~running]_vars
=============================================================================
