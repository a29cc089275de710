------------------------------- MODULE MCParts ------------------------------
(***************************************************************************)
(* Four machines that share nothing with one another, checked in one run:  *)
(* a behaviour is one of them moving while the others stand still.         *)
(***************************************************************************)
EXTENDS ConfigLoad, ConnBooks, HtLink, HtStats, TLC

VARIABLE part   \* the machine that moves

partVars == <<part, configVars, bookVars, linkVars, statVars>>

Init ==
  /\ part \in {"config", "books", "link", "stats"}
  /\ ConfigInit /\ BooksInit /\ LinkInit /\ StatsInit

LinkMoves(A) ==
  /\ part = "link" /\ A
  /\ UNCHANGED <<part, configVars, bookVars, statVars>>

Next ==
  \/ /\ part = "config" /\ ConfigNext
     /\ UNCHANGED <<part, bookVars, linkVars, statVars>>
  \/ /\ part = "books" /\ BooksNext
     /\ UNCHANGED <<part, configVars, linkVars, statVars>>
  \/ LinkMoves(LinkNext)
  \/ /\ part = "stats" /\ StatsNext
     /\ UNCHANGED <<part, configVars, bookVars, linkVars>>

\* The loop keeps calling ht_process_events().
Spec == Init /\ [][Next]_partVars /\ WF_partVars(LinkMoves(Receiving))

\* A mode, a negative number, an address that just fits, and a text that does
\* not, in which atof() sees no number.
ValueTexts   == {"udp", "-3", "192.168.192.100", "nan and so forth"}
ValueLengths == "udp" :> 3 @@ "-3" :> 2 @@ "192.168.192.100" :> 15 @@ "nan and so forth" :> 16
WholeNumbers == "udp" :> 0 @@ "-3" :> -3 @@ "192.168.192.100" :> 192
                  @@ "nan and so forth" :> 0
Shares       == "udp" :> 0 @@ "-3" :> -30 @@ "192.168.192.100" :> 1922
                  @@ "nan and so forth" :> NaN
TwoValues    == {0, 1}
=============================================================================
