----------------------------- MODULE MCLitePool -----------------------------
EXTENDS LitePool

\* The first query is bound to the first server, the second to none.
StickyOf == [q \in Queries |-> IF q = "q1" THEN "A" ELSE None]

\* A configuration of one server that is asked twice and may fail twice, or one
\* of two servers that are asked once and fail once.
MCInit ==
  /\ Init
  /\ IF dialer["B"] = "idle"
     THEN dialer["A"] = "start" /\ tries["A"] = Attempts /\ faults = 0
          /\ \A q \in Queries : qpc[q] = "idle"
     ELSE dialer["A"] = "start" /\ tries["A"] = 1 /\ faults = 1
          /\ qpc["q1"] = "idle" /\ qpc["q2"] = "done"
MCSpec == MCInit /\ [][Next]_vars /\ Fairness
=============================================================================
