----------------------------- MODULE Migrations -----------------------------
\* The admin store's schema (admin/migrations/runner.ts): processes that start together,
\* some of an older release, bring one database up to date, each in one transaction, and
\* behind a gate that every admin call waits at. Statements fail, processes die.
EXTENDS Naturals, Sequences

CONSTANTS
  Dialects,    \* "sqlite", "postgres"
  Processes,
  Releases,    \* per process, how many migrations its release has
  MaxRuns,     \* bounds the runs of the migrations in a process
  Nobody

VARIABLES
  dialect,
  ledger,    \* agentic_migrations as committed: the versions, in the order applied
  seen,      \* per process, the versions it read in the ledger
  added,     \* per process, the versions its transaction has applied
  lockedBy,  \* the transaction that holds the dialect's lock
  phase,     \* per process: "idle", "begun", "locked" or "files" of its transaction
  gate,      \* per process: "running", "open", or "failed" with the wait not over, "due"
  runs,      \* per process, the runs so far
  early      \* an admin call reached the store before the schema it needs

migVars == <<dialect, ledger, seen, added, lockedBy, phase, gate, runs, early>>

MigInit ==
  /\ dialect \in Dialects
  /\ ledger = <<>>
  /\ seen = [p \in Processes |-> {}]
  /\ added = [p \in Processes |-> <<>>]
  /\ lockedBy = Nobody
  /\ phase = [p \in Processes |-> "idle"]
  /\ gate = [p \in Processes |-> "running"]
  /\ runs = [p \in Processes |-> 1]
  /\ early = FALSE

Turns(p, s) == phase' = [phase EXCEPT ![p] = s]
Gates(p, g) == gate' = [gate EXCEPT ![p] = g]

\* What the next transaction may take: with this mutant Postgres has no advisory lock.
LockFreely == dialect = "postgres" \/ lockedBy = Nobody                      \* mutant
LockFree == lockedBy = Nobody

\* BEGIN. sqlite's BEGIN IMMEDIATE takes the write lock with it.
Begin(p) ==
  /\ phase[p] = "idle" /\ gate[p] = "running"
  /\ IF dialect = "sqlite"
     THEN LockFree /\ lockedBy' = p /\ Turns(p, "locked")
     ELSE UNCHANGED lockedBy /\ Turns(p, "begun")
  /\ UNCHANGED <<dialect, ledger, seen, added, gate, runs, early>>

\* Postgres: the advisory lock, held to the end of the transaction.
Lock(p) ==
  /\ phase[p] = "begun" /\ LockFree
  /\ lockedBy' = p /\ Turns(p, "locked")
  /\ UNCHANGED <<dialect, ledger, seen, added, gate, runs, early>>

\* The ledger's table, the repair of an old database, and what the ledger carries.
ReadLedger(p) ==
  /\ phase[p] = "locked" /\ Turns(p, "files")
  /\ seen' = [seen EXCEPT ![p] = {ledger[i] : i \in DOMAIN ledger}]
  /\ added' = [added EXCEPT ![p] = <<>>]
  /\ UNCHANGED <<dialect, ledger, lockedBy, gate, runs, early>>

Missing(p) ==
  {v \in 1..Releases[p] : v \notin seen[p] /\ \A i \in DOMAIN added[p] : added[p][i] # v}

\* The first file the ledger does not carry: its statements, and its line.
Apply(p) ==
  /\ phase[p] = "files"
  /\ \E v \in Missing(p) :
       /\ \A u \in Missing(p) : v <= u
       /\ added' = [added EXCEPT ![p] = Append(@, v)]
  /\ UNCHANGED <<dialect, ledger, seen, lockedBy, phase, gate, runs, early>>

Unlocks(p) == lockedBy' = IF lockedBy = p THEN Nobody ELSE lockedBy

\* COMMIT: everything the transaction did shows at once, and the gate opens.
Commit(p) ==
  /\ phase[p] = "files" /\ Missing(p) = {}
  /\ ledger' = ledger \o added[p]
  /\ Unlocks(p) /\ Turns(p, "idle") /\ Gates(p, "open")
  /\ UNCHANGED <<dialect, seen, added, runs, early>>

\* A statement fails: the transaction is rolled back, and the gate keeps the error.
Fails(p) ==
  /\ phase[p] # "idle" \/ gate[p] = "running"
  /\ Unlocks(p) /\ Turns(p, "idle") /\ Gates(p, "failed")
  /\ UNCHANGED <<dialect, ledger, seen, added, runs, early>>

\* The process dies, and another of its release starts in its place.
Dies(p) ==
  /\ runs[p] < MaxRuns
  /\ Unlocks(p) /\ Turns(p, "idle") /\ Gates(p, "running")
  /\ runs' = [runs EXCEPT ![p] = @ + 1]
  /\ UNCHANGED <<dialect, ledger, seen, added, early>>

WaitEnds(p) ==
  /\ gate[p] = "failed" /\ Gates(p, "due")
  /\ UNCHANGED <<dialect, ledger, seen, added, lockedBy, phase, runs, early>>

\* An admin call at the gate (whenReady): through, once the schema is there; or, after a
\* failure and its wait, the call that runs the migrations again. Others wait or are told
\* the last error.
Calls(p) ==
  \/ /\ gate[p] = "open"
     /\ early' = (early \/ \E v \in 1..Releases[p] : \A i \in DOMAIN ledger : ledger[i] # v)
     /\ UNCHANGED <<dialect, ledger, seen, added, lockedBy, phase, gate, runs>>
  \/ /\ gate[p] = "due" /\ runs[p] < MaxRuns /\ Gates(p, "running")
     /\ runs' = [runs EXCEPT ![p] = @ + 1]
     /\ UNCHANGED <<dialect, ledger, seen, added, lockedBy, phase, early>>

MigNext ==
  \E p \in Processes :
    \/ Begin(p) \/ Lock(p) \/ ReadLedger(p) \/ Apply(p) \/ Commit(p)
    \/ Fails(p) \/ Dies(p) \/ WaitEnds(p) \/ Calls(p)

-----------------------------------------------------------------------------
\* However many processes start, of whatever release, and wherever one fails or dies, the
\* database has had each migration once and in order, all of a run or none of it; and no
\* admin call reaches a schema older than its code (runner.ts:98 and 171).
SchemaInOrder ==
  /\ \A i \in DOMAIN ledger : ledger[i] = i
  /\ \E p \in Processes : Len(ledger) \in {0, Releases[p]}
  /\ ~early
=============================================================================
