----------------------------- MODULE MCFollow -----------------------------
EXTENDS FollowProperties, TLC

Budget(n, k) ==
  [f \in Faults \cup {"old", "more", "segments"} |->
     IF f = "segments" THEN n ELSE IF f \in k THEN 1 ELSE 0]

\* A tab that loads and loses its connection, also while a stream expires; tabs without
\* a cursor beside a bus that drops or reorders and a storage that fails, or after a
\* prune; and one with another thread's stream for a cursor.
SomeStarts ==
  {<<Budget(2, {"cut"}), "hydrate">>,
   <<Budget(1, {"cut", "expire"}), "hydrate">>,
   <<Budget(2, {"drop", "storage"}), "none">>,
   <<Budget(2, {"more"}), "none">>,
   <<Budget(1, {"old", "prune", "expire"}), "none">>,
   <<Budget(1, {"notice", "more"}), "foreign">>}

OneCut == {<<Budget(2, {"cut"}), "hydrate">>}
NoFault == {<<Budget(1, {}), "hydrate">>}
===========================================================================
