----------------------------- MODULE RunListing -----------------------------
\* A sweep pages through the run records that match a filter (runtime.ts, eachRun), over
\* the listing of an admin store: newest first by start time, then by id, with the last
\* run of a page as the cursor of the next. Meanwhile runs stop matching (they are settled
\* or end), and new ones start. Postgres keeps a start time to the microsecond, and the
\* cursor a client holds is a Date, to the millisecond.
EXTENDS Integers, FiniteSets, Sequences, Functions

CONSTANTS
  AdminKinds,   \* the stores to check
  RunIds,       \* run ids, naturals: ids compare
  Millis,       \* the milliseconds in which the first runs started
  Micros,       \* the microseconds of one of them that Postgres tells apart
  PageSize      \* SWEEP_PAGE

VARIABLES
  admin,     \* the store
  started,   \* per run on record, its start time <<millisecond, microsecond>>
  matching,  \* the runs that match the filter
  stayed,    \* those that have matched ever since the sweep began
  cursor,    \* the sweep's cursor: a start time and an id; or NoCursor
  visits,    \* the runs the sweep called its function for, in order
  sweeping   \* whether it is under way

listVars == <<admin, started, matching, stayed, cursor, visits, sweeping>>
NoCursor == [at |-> <<0, 0>>, id |-> 0]
Times(kind) == Millis \X (IF kind = "postgres" THEN Micros ELSE {0})

Earlier(a, b) == a[1] < b[1] \/ (a[1] = b[1] /\ a[2] < b[2])
Newer(i, j) == Earlier(started[j], started[i]) \/ (started[i] = started[j] /\ i > j)

\* The cursor is RunRecord.startedAt, a Date.
ToDate(t) == <<t[1], 0>>

\* RunFilter.before: startedAt < c.startedAt, or the same and a lower id. With this mutant
\* the id is left out of it.
BeforeByTime(i, c) == Earlier(started[i], c.at)                              \* mutant
Before(i, c) == Earlier(started[i], c.at) \/ (started[i] = c.at /\ i < c.id)

ListInit ==
  /\ admin \in AdminKinds
  /\ started \in UNION {[S -> Times(admin)] : S \in SUBSET RunIds}
  /\ matching = DOMAIN started
  /\ stayed = matching
  /\ cursor = NoCursor
  /\ visits = <<>>
  /\ sweeping = TRUE

\* RunFilter: what matches, and sorts after the cursor.
MemoryMatches == {i \in matching : cursor = NoCursor \/ Before(i, cursor)}
SqliteWhere == MemoryMatches      \* the same, as a WHERE clause
PostgresWhere == MemoryMatches    \* the cursor as a comparison of rows

\* runs.list: newest first, one page of it.
PageOf(listed) ==
  {page \in [1..(IF Cardinality(listed) < PageSize THEN Cardinality(listed) ELSE PageSize) -> listed] :
     /\ \A m, n \in DOMAIN page : m < n => Newer(page[m], page[n])
     /\ \A n \in DOMAIN page, i \in listed \ Range(page) : Newer(page[n], i)}

\* eachRun: the function is called for each run of the page, and may settle it or not.
Pages(list) ==
  /\ sweeping
  /\ visits' = visits \o list
  /\ IF Len(list) < PageSize
     THEN sweeping' = FALSE /\ UNCHANGED cursor
     ELSE /\ cursor' = [at |-> ToDate(started[list[Len(list)]]), id |-> list[Len(list)]]
          /\ UNCHANGED sweeping
  /\ UNCHANGED <<admin, started, matching, stayed>>

MemoryLists == admin = "memory" /\ \E page \in PageOf(MemoryMatches) : Pages(page)
SqliteLists == admin = "sqlite" /\ \E page \in PageOf(SqliteWhere) : Pages(page)
PostgresLists == admin = "postgres" /\ \E page \in PageOf(PostgresWhere) : Pages(page)

\* A run stops matching: a worker, a stop or the sweep itself settles it, or
\* its thread is deleted.
Leaves(i) ==
  /\ i \in matching
  /\ matching' = matching \ {i} /\ stayed' = stayed \ {i}
  /\ UNCHANGED <<admin, started, cursor, visits, sweeping>>

\* A run starts now, not before any other.
StartsAt(i, t) ==
  /\ sweeping /\ i \notin DOMAIN started
  /\ \A j \in DOMAIN started : ~Earlier(t, started[j])
  /\ started' = [j \in DOMAIN started \cup {i} |-> IF j = i THEN t ELSE started[j]]
  /\ matching' = matching \cup {i}
  /\ UNCHANGED <<admin, stayed, cursor, visits, sweeping>>

\* The process's clock, or the database's.
MemoryStarts(i) == admin = "memory" /\ \E ms \in Millis : StartsAt(i, <<ms, 0>>)
SqliteStarts(i) == admin = "sqlite" /\ \E ms \in Millis : StartsAt(i, <<ms, 0>>)
PostgresStarts(i) == admin = "postgres" /\ \E t \in Millis \X Micros : StartsAt(i, t)

\* One the sweep may have passed comes to match.
Comes(i) ==
  /\ sweeping /\ i \in DOMAIN started \ matching
  /\ matching' = matching \cup {i}
  /\ UNCHANGED <<admin, started, stayed, cursor, visits, sweeping>>

ListNext ==
  \/ MemoryLists \/ SqliteLists \/ PostgresLists
  \/ \E i \in RunIds :
       Leaves(i) \/ Comes(i) \/ MemoryStarts(i) \/ SqliteStarts(i) \/ PostgresStarts(i)

ListSpec == ListInit /\ [][ListNext]_listVars

-----------------------------------------------------------------------------
\* A sweep that ended called its function for every run that matched the filter all along,
\* and for none twice, whatever started, ended or was deleted meanwhile (runtime.ts:132,
\* "Call fn for every run the filter matches"; ports/admin.ts:149, RunFilter.before).
SweepCovers ==
  /\ ~sweeping => stayed \subseteq Range(visits)
  /\ \A m, n \in DOMAIN visits : m # n => visits[m] # visits[n]
=============================================================================
