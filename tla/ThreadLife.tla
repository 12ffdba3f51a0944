------------------------------ MODULE ThreadLife ------------------------------
(***************************************************************************)
(* What the thread row promises, whoever writes it.  A thread has one run  *)
(* at a time.  Each run gets the thread once, from a thread that is not    *)
(* going; only that run's life moves it from there; and an ended run has   *)
(* ended for good: the next change is another run's.                       *)
(***************************************************************************)
CONSTANT Runs

VARIABLES
  state,  \* the thread's state
  owner,  \* the run it belongs to
  spent   \* the runs that have had it

vars == <<state, owner, spent>>

Going == {"QUEUED", "RUNNING", "WAITING_FOR_INPUT"}
Ended == {"COMPLETED", "FAILED", "CANCELLED"}

Init ==
  /\ state \in {"IDLE"} \cup Ended
  /\ owner \notin Runs
  /\ spent = {}

\* A run that never had the thread takes it.
Admit(r) ==
  /\ state \notin Going /\ r \notin spent
  /\ state' = "QUEUED" /\ owner' = r /\ spent' = spent \cup {r}

\* The life of the run that has it: picked up, sent back to wait for a retry,
\* parked on an approval, resumed; and ended, from wherever it was, by its own
\* finish, a failure, a stop, or the sweep that moves it to what its record says.
Edges ==
  {<<"QUEUED", "RUNNING">>, <<"RUNNING", "QUEUED">>,
   <<"RUNNING", "WAITING_FOR_INPUT">>, <<"WAITING_FOR_INPUT", "RUNNING">>}
  \cup Going \X Ended

Move ==
  /\ <<state, state'>> \in Edges
  /\ UNCHANGED <<owner, spent>>

Next == Move \/ \E r \in Runs : Admit(r)

Spec == Init /\ [][Next]_vars
===============================================================================
