--------------------------- MODULE MCRunLifecycle ---------------------------
(***************************************************************************)
(* RunLifecycle on small instances: how many events of each kind a run of  *)
(* TLC lets happen, and the symmetry of its workers.                       *)
(***************************************************************************)
EXTENDS RunLifecycleProperties, TLC

CONSTANTS c1, c2, r1, r2

\* At most n of each event named, none of the others.
Up(f) == [e \in Events |-> IF e \in DOMAIN f THEN f[e] ELSE 0]

\* Two sends: with a stop; with a failure; with workers that crash.
PairLimits ==
  {Up([stop |-> 1]), Up([error |-> 1, fault |-> 1]), Up([death |-> 2, reclaim |-> 2])}

\* One send: deliveries and retries; a park; leases that lapse; dispatches that
\* are slow or killed; a stop whose process dies.
FaultLimits ==
  {Up([error |-> 2]), Up([error |-> 1, dup |-> 1]),
   Up([park |-> 1, reclaim |-> 1, dup |-> 1]),
   Up([lapse |-> 1, dup |-> 1, reclaim |-> 1]),
   Up([slow |-> 1, kill |-> 1, death |-> 1, reclaim |-> 2]),
   Up([stop |-> 1, death |-> 1, reclaim |-> 1])}

\* The safety run takes both.
SafetyLimits == PairLimits \cup FaultLimits

\* For liveness: everything a sweep repairs, and a park nobody answers.
LiveLimits ==
  {Up([error |-> 1, death |-> 1, reclaim |-> 1]),
   Up([stop |-> 1, death |-> 1, reclaim |-> 1]),
   Up([park |-> 1, reclaim |-> 1])}

\* For the disagreements: a stop.
StopLimits == {Up([stop |-> 1])}

\* One call, or two, each with a run id of its own.
OneCall == (c1 :> {r1})
OwnIds  == (c1 :> {r1}) @@ (c2 :> {r2})

\* Workers are alike; so are two calls, each with its run.
WorkerSymmetry == Permutations(Workers)
PairSymmetry ==
  {p @@ q : p \in Permutations(Workers),
            q \in {(c1 :> c1) @@ (c2 :> c2) @@ (r1 :> r1) @@ (r2 :> r2),
                   (c1 :> c2) @@ (c2 :> c1) @@ (r1 :> r2) @@ (r2 :> r1)}}

\* The faults of FaultLimits come to one send; the other call never begins.
OneSends == Cardinality({c \in Calls : call[c].pc # "idle"}) <= 1
MCSpec == Init /\ [][Next /\ (allowed \in FaultLimits => OneSends')]_vars
=============================================================================
