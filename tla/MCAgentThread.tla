--------------------------- MODULE MCAgentThread ---------------------------
EXTENDS AgentThreadProperties, TLC

Budget(turns, steps, k) ==
  [f \in Faults \cup {"turns", "steps", "edit"} |->
     IF f = "turns" THEN turns ELSE IF f = "steps" THEN steps ELSE IF f \in k THEN 1 ELSE 0]

\* A tab on the thread beside another tab that sends, a step that fails, a connection that
\* drops, comes back or closes, a stream that is gone, a request that is answered or
\* stopped, a send that is refused, an edit, and a visit to another thread.
SomeStarts ==
  {<<Budget(1, 1, {"fail", "drop", "resend"}), Home>>,
   <<Budget(1, 0, {"park", "stop", "close"}), Home>>,
   <<Budget(2, 0, {"drop", "gone"}), Home>>,
   <<Budget(2, 0, {"edit", "refuse"}), Home>>,
   <<Budget(1, 1, {"switch", "fail"}), Home>>,
   <<[Budget(1, 0, {}) EXCEPT !["switch"] = 2], Home>>,
   <<Budget(1, 0, {"fail", "refuse"}), NoThread>>}

OneDrop == {<<Budget(1, 0, {"drop"}), Home>>}
===========================================================================
