------------------------------ MODULE MCRelay ------------------------------
(* Relay for TLC: three configurations, with and without a file store. *)
EXTENDS Relay

\* A new client of a server without a store, and queues of one.
RamServer == [store |-> FALSE, firstRun |-> TRUE, lateResets |-> TRUE,
              ringSize |-> 1, queueMax |-> 1, journalKeep |-> 9]
\* A client that has a cursor, and a server with a store.
StoreServer == [store |-> TRUE, firstRun |-> FALSE, lateResets |-> TRUE,
                ringSize |-> 2, queueMax |-> 4, journalKeep |-> 9]
\* A client without a cursor, and a server with a store.
FirstSession == [StoreServer EXCEPT !.firstRun = TRUE, !.lateResets = FALSE,
                                       !.queueMax = 2]
All == {RamServer, StoreServer, FirstSession}
Stored == {StoreServer}
=============================================================================
