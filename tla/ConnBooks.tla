----------------------------- MODULE ConnBooks ------------------------------
(***************************************************************************)
(* What rdp_forwarder.c counts of its connections: the two byte counters   *)
(* of each entry, and the statistics of the program.                       *)
(* What the loop does to the sockets is in Forwarder; here are the same    *)
(* events as the books see them.                                           *)
(*                                                                         *)
(* Bytes are counted one at a time.  An entry bears the number of the      *)
(* client it serves or served last.                                        *)
(***************************************************************************)
EXTENDS Integers, Sequences, FiniteSets

CONSTANTS
  MaxEntries,    \* config.max_clients
  MaxArrivals,   \* clients that may come: bounds the model
  MaxTransfers   \* bytes that may be moved: bounds the model

ASSUME BooksAssumption == {MaxEntries, MaxArrivals, MaxTransfers} \subseteq Nat

VARIABLES
  entries,    \* connections[0 .. connection_count - 1]
  stats,
  arrivals,   \* history: clients that were bound to an entry
  closed,     \* history: entries that were cleaned up
  ledger      \* history: every byte moved, in its order

bookVars == <<entries, stats, arrivals, closed, ledger>>

Directions == {"sent", "received"}

BooksInit ==
  /\ entries = <<>>
  /\ stats = [total_connections |-> 0, active_connections |-> 0,
              sent |-> 0, received |-> 0]
  /\ arrivals = 0 /\ closed = 0
  /\ ledger = <<>>

NewBook(client) ==
  [sent |-> 0, received |-> 0, client |-> client, standby |-> "no"]

Ready == {i \in DOMAIN entries : entries[i].standby = "ready"}

\* Without a target the entry is not kept: the next one takes its place.
BookAccept ==
  /\ Ready = {}
  /\ Len(entries) < MaxEntries
  /\ arrivals < MaxArrivals
  /\ entries' = Append(entries, NewBook(arrivals + 1))
  /\ stats' = [stats EXCEPT !.total_connections = @ + 1]
  /\ arrivals' = arrivals + 1
  /\ UNCHANGED <<closed, ledger>>

ReuseKeepsCounters(entry, client) ==   \* fault: they go on from the former client's
  [entry EXCEPT !.client = client, !.standby = "no"]
ReuseOf(entry, client) ==
  [entry EXCEPT !.client = client, !.standby = "no", !.sent = 0, !.received = 0]

BookReuse ==
  /\ arrivals < MaxArrivals
  /\ \E i \in Ready :
       /\ \A j \in Ready : i <= j
       /\ entries' = [entries EXCEPT ![i] = ReuseOf(@, arrivals + 1)]
  /\ arrivals' = arrivals + 1
  /\ UNCHANGED <<stats, closed, ledger>>

\* handle_client_disconnect() leaves the counters to the next client.
Left(entry, kept) == [entry EXCEPT !.standby = IF kept THEN "ready" ELSE "lost"]

BookLeave ==
  /\ \E i \in DOMAIN entries, keep_target_alive \in BOOLEAN :
       /\ entries[i].standby = "no"
       /\ entries' = [entries EXCEPT ![i] = Left(@, keep_target_alive)]
  /\ UNCHANGED <<stats, arrivals, closed, ledger>>

BookRedial ==
  /\ \E i \in DOMAIN entries :
       /\ entries[i].standby = "lost"
       /\ entries' = [entries EXCEPT ![i] = [@ EXCEPT !.standby = "ready"]]
  /\ UNCHANGED <<stats, arrivals, closed, ledger>>

Counting(entry, way) == [entry EXCEPT ![way] = @ + 1]

BookTransfer ==
  /\ Len(ledger) < MaxTransfers
  /\ \E i \in DOMAIN entries, way \in Directions :
       LET entry == entries[i]
       IN /\ entry.standby = "no"
          /\ entries' = [entries EXCEPT ![i] = Counting(@, way)]
          /\ ledger' = Append(ledger, [client |-> entry.client, way |-> way])
  /\ UNCHANGED <<stats, arrivals, closed>>

BookCleanup ==
  /\ \E i \in DOMAIN entries :
       entries' = [j \in 1 .. (Len(entries) - 1) |->
                     IF j < i THEN entries[j] ELSE entries[j + 1]]
  /\ closed' = closed + 1
  /\ UNCHANGED <<stats, arrivals, ledger>>

\* The sum of one counter over all entries.
SumOf(way) ==
  LET sum[i \in 0 .. Len(entries)] ==
        IF i = 0 THEN 0 ELSE sum[i - 1] + entries[i][way]
  IN sum[Len(entries)]

SummedOnTop ==   \* fault: the sums do not begin at zero
  [stats EXCEPT !.active_connections = Len(entries),
                !.sent = @ + SumOf("sent"), !.received = @ + SumOf("received")]
Summed ==
  [stats EXCEPT !.active_connections = Len(entries),
                !.sent = SumOf("sent"), !.received = SumOf("received")]

PrintStats ==
  /\ stats' = Summed
  /\ UNCHANGED <<entries, arrivals, closed, ledger>>

BooksNext ==
  \/ BookAccept \/ BookReuse \/ BookLeave \/ BookRedial \/ BookTransfer \/ BookCleanup
  \/ PrintStats

BooksSpec == BooksInit /\ [][BooksNext]_bookVars

-----------------------------------------------------------------------------
(* Properties *)

Moved(Clients, way) ==
  Cardinality({k \in DOMAIN ledger : ledger[k].client \in Clients /\ ledger[k].way = way})

Served == {entries[i].client : i \in DOMAIN entries}

\* The counters of an entry are the traffic of the client it serves now, or, on
\* standby, served last: former clients of a reused entry are not included.
ChargedToPresentClient ==
  \A i \in DOMAIN entries : \A way \in Directions :
    entries[i][way] = Moved({entries[i].client}, way)

\* A report gives the traffic of the clients in the table at that moment (of a
\* standby entry, of the one it served last), each byte once, however many
\* reports there were before and whichever entries were cleaned up or reused
\* since; its connections are those that began, fewer clients than came, and
\* those of them that are left.
ReportIsOfPresent ==
  [][PrintStats =>
       /\ \A way \in Directions : stats'[way] = Moved(Served, way)
       /\ stats'.total_connections = stats'.active_connections + closed]_bookVars
=============================================================================
