---------------------------- MODULE SessionTable ----------------------------
(***************************************************************************)
(* What the connection table promises its users, without the event loop:   *)
(* a list of sessions, oldest first, each of which binds a client to the   *)
(* connections that lead to its target.  A step concerns one session and   *)
(* leaves every other one as it is, in its place.                          *)
(***************************************************************************)
EXTENDS Integers, Sequences

CONSTANTS
  Names,        \* of the connections that exist at a time
  NoClient,     \* stands for the client of a session that has lost its own
  MaxSessions

VARIABLES
  sessions,     \* a sequence of [client, target]; target {} is a lost one
  over          \* no session will begin any more

sessionVars == <<sessions, over>>

Session == [client : Names \cup {NoClient}, target : SUBSET Names]
Places  == 1 .. Len(sessions)

InUse == UNION {{sessions[i].client} \cup sessions[i].target : i \in Places}
Fresh == Names \ InUse

\* Sessions that wait for a client with their target at hand.
Ready == {i \in Places : sessions[i].client = NoClient /\ sessions[i].target # {}}

Init ==
  /\ sessions = <<>>
  /\ over = FALSE

Change(i, s) == sessions' = [sessions EXCEPT ![i] = s] /\ UNCHANGED over

\* Nobody gets a new target while one is held ready.
Begin ==
  /\ ~over
  /\ Ready = {}
  /\ Len(sessions) < MaxSessions
  /\ \E client \in Fresh : \E target \in Fresh \ {client} :
       sessions' = Append(sessions, [client |-> client, target |-> {target}])
  /\ UNCHANGED over

\* The oldest session that is ready gets the next client, on the same target.
Join ==
  /\ \E i \in Ready, client \in Fresh :
       /\ \A j \in Ready : i <= j
       /\ Change(i, [client |-> client, target |-> sessions[i].target])

Leave(i) ==
  /\ sessions[i].client # NoClient
  /\ \E kept \in {sessions[i].target, {}} :
       Change(i, [client |-> NoClient, target |-> kept])

Redial(i) ==
  /\ sessions[i].client = NoClient /\ sessions[i].target = {}
  /\ \E target \in (SUBSET Fresh) \ {{}} :
       Change(i, [client |-> NoClient, target |-> target])

End(i) ==
  /\ sessions' = [j \in 1 .. (Len(sessions) - 1) |->
                    IF j < i THEN sessions[j] ELSE sessions[j + 1]]
  /\ UNCHANGED over

EndAll ==
  /\ sessions' = <<>>
  /\ over' = TRUE

Next ==
  \/ Begin \/ Join \/ EndAll
  \/ \E i \in Places : Leave(i) \/ Redial(i) \/ End(i)

Spec == Init /\ [][Next]_sessionVars
=============================================================================
