----------------------------- MODULE MCInbound -----------------------------
(* Inbound for TLC: two messages of one or two parts, few slots. *)
EXTENDS Inbound, TLC

CONSTANTS a, b
ThreeParts == {[msg |-> a, seq |-> 1], [msg |-> a, seq |-> 2], [msg |-> b, seq |-> 1]}
TwoSlots == 0 .. 1
ThreeSlots == 0 .. 2
Total(m, n) == a :> m @@ b :> n

\* A message of two parts, which may be flushed as a partial one, and one of one.
Ram == [store |-> FALSE, pdu_mode |-> TRUE, strategy |-> "cmti",
        total |-> Total(2, 1), reports |-> {}, seenMax |-> 9, duplicates |-> FALSE,
        capacity |-> 3, maxArrivals |-> 2, maxFaults |-> 1, faultKinds |-> {}]
\* The same in files: a disk that fails, status reports, a table of one hash.
Files == [Ram EXCEPT !.store = TRUE, !.strategy = "poll", !.reports = {b},
                     !.seenMax = 1, !.duplicates = TRUE, !.faultKinds = {"disk"}]
\* Direct delivery: of one message, which may come through the SIM as well, of
\* two messages, and with a store.
Direct == [Ram EXCEPT !.strategy = "cmt", !.total = Total(2, 0)]
DirectTwo == [Direct EXCEPT !.total = Total(1, 1), !.capacity = 1,
                            !.faultKinds = {"link", "restart"}]
DirectFiles == [Direct EXCEPT !.store = TRUE, !.seenMax = 1, !.faultKinds = {"disk"}]
\* Two messages of which a part is missing, and one flush of them.
Stale == [Direct EXCEPT !.store = TRUE, !.total = Total(2, 2), !.capacity = 1,
                         !.faultKinds = {"link"}]
\* Commands that take each other's answers, without and with a store.
Mixed == [Ram EXCEPT !.total = Total(1, 1), !.reports = {b}, !.faultKinds = {"command"}]
MixedFiles == [Mixed EXCEPT !.store = TRUE, !.reports = {}]
\* Text mode, without and with a store.
Text == [Ram EXCEPT !.pdu_mode = FALSE, !.reports = {b}, !.faultKinds = {"restart"}]
TextFiles == [Text EXCEPT !.store = TRUE, !.faultKinds = {"command", "disk"}]
\* Nothing fails, but a slot is used again while an old index of it is kept.
Reuse == [Files EXCEPT !.reports = {}, !.maxArrivals = 3, !.faultKinds = {}]
All == {Files, Direct, DirectTwo, DirectFiles, Stale, Mixed, MixedFiles, Text, TextFiles, Reuse}

\* Two messages, three slots, a modem that announces nothing, and nothing fails.
NoFaults == {[Ram EXCEPT !.strategy = "poll", !.maxArrivals = 3]}
=============================================================================
