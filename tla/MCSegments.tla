---------------------------- MODULE MCSegments ----------------------------
EXTENDS SegmentsProperties, TLC

CONSTANTS s1, s2

Budget(k) == [f \in Faults \cup Bounds |-> IF f \in DOMAIN k THEN k[f] ELSE 0]

\* A long segment without a fault, and shorter ones with a fault or two.
SomeBudgets ==
  {Budget([part |-> 3, step |-> 1]),
   Budget([part |-> 2, sub |-> 1]),
   Budget([part |-> 1, sub |-> 1, cut |-> 1]),
   Budget([part |-> 1, sub |-> 1, append |-> 1]),
   Budget([cut |-> 1, death |-> 1, giveup |-> 1]),
   Budget([part |-> 1, lapse |-> 1, giveup |-> 1]),
   Budget([part |-> 1, record |-> 1]),
   Budget([cut |-> 1, open |-> 1, death |-> 1]),
   Budget([open |-> 2, death |-> 1]),
   Budget([death |-> 1, overlap |-> 1]),
   Budget([cut |-> 1, death |-> 1, stop |-> 1]),
   Budget([cut |-> 1, overlap |-> 1]),
   Budget([cut |-> 1, close |-> 1, death |-> 1]),
   Budget([cut |-> 1, record |-> 1, death |-> 1])}

\* The second sweep moves where sweeps may overlap.
MaySweep(s) == s = s1 \/ budget.overlap > 0 \/ "overlap" \in happened
MCSweep(s) == MaySweep(s) /\ Sweep(s)
SecondSweep == \A s \in Sweepers : MaySweep(s) \/ sweep'[s] = sweep[s]

MCSpec ==
  /\ Init /\ [][Next /\ SecondSweep]_vars
  /\ \A d \in Deliveries : WF_vars(Progress(d))
  /\ \A s \in Sweepers : WF_vars(MCSweep(s))

===========================================================================
