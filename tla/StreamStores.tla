---------------------------- MODULE StreamStores ----------------------------
(***************************************************************************)
(* The stores behind the run streams port: one stream, its writer, whoever *)
(* closes it, whoever deletes it, and a reader, over each adapter.         *)
(*                                                                         *)
(*   memory   MemoryRunStreams (adapters/memory.ts)                        *)
(*   sqlite   SqliteRunStreams (adapters/sqlite.ts)                        *)
(*   prisma   PrismaRunStreams (adapters/prisma.ts)                        *)
(*   redis    ScriptedRunStreams (adapters/stream-scripts.ts), Redis's and *)
(*            Upstash's                                                    *)
(*   flow     FlowStreams (adapters/flow.ts)                               *)
(*                                                                         *)
(* What they all promise is RunStreams.  A stream id is a run and a number *)
(* that is never used again (core/segment.ts), so no id is opened anew     *)
(* once it is gone.                                                        *)
(***************************************************************************)
EXTENDS Naturals, Sequences, SequencesExt

CONSTANTS
  Kinds,     \* the adapters looked at
  MaxItems   \* bound on the events appended

Port == INSTANCE RunStreams

VARIABLES
  kind,       \* the adapter
  row,        \* the stream's row, or object: "none", "open" or "closed"
  kept,       \* its events, the end as 0
  over,       \* its time is over, and it is still there
  dropped,    \* it was deleted
  holder,     \* prisma: the transactions that have the row's lock
  pending,    \* what a transaction writes
  doomed,     \* prisma: the events a delete's transaction has deleted
  sending,    \* flow: the batches an append has still to make
  told,       \* the events the writer was given an offset for
  next,       \* the next event
  reader,     \* where the reader stands
  cursor,     \* the last offset it has
  page,       \* the items of its page it has not given out
  sawClosed,  \* the page's row was closed
  woken,      \* the reader's wake-up has fired
  got,        \* what it has given out
  log,        \* the stream's events, as they were when it was last there
  torn        \* the stream went between a page's two reads

store == <<kind, row, kept, over, dropped, holder, pending, doomed, sending, told, next>>
reading == <<reader, cursor, page, sawClosed, woken, got, torn>>
vars == <<store, reading, log>>

End == 0

Gone == dropped \/ over

\* The stream the port's callers see.
Stream ==
  IF row = "none" THEN Port!NoStream
  ELSE IF Gone THEN [state |-> "gone", items |-> <<>>]
  ELSE [state |-> row, items |-> kept]

Init ==
  /\ kind \in Kinds
  /\ row = "none"
  /\ kept = <<>>
  /\ over = FALSE
  /\ dropped = FALSE
  /\ holder = {}
  /\ pending = [who \in {"writer", "closer"} |-> <<>>]
  /\ doomed = <<>>
  /\ sending = 0
  /\ told = {}
  /\ next = 1
  /\ reader = "off"
  /\ cursor = 0
  /\ page = <<>>
  /\ sawClosed = FALSE
  /\ woken = FALSE
  /\ got = <<>>
  /\ log = <<>>
  /\ torn = FALSE

Logged == log' = IF row' = "none" \/ dropped' THEN log ELSE kept'

\* Whoever waits in this process is woken.
Wakes == woken' = (woken \/ reader = "wait")

Fresh(n) == [i \in 1..n |-> next + i - 1]

---------------------------------------------------------------------------
(* The writer's side *)

\* open: a stream that is there is left as it is.
Opens ==
  /\ row' = IF row = "none" THEN "open" ELSE row
  /\ ~Gone
  /\ UNCHANGED <<kind, kept, over, dropped, holder, pending, doomed, sending, told, next, reading>>
  /\ Logged

MemoryOpens == kind = "memory" /\ Opens
SqliteOpens == kind = "sqlite" /\ Opens    \* INSERT ... ON CONFLICT DO NOTHING
PrismaOpens == kind = "prisma" /\ Opens    \* a create; one that is there already is left
ScriptOpens == kind = "redis" /\ Opens
FlowOpens == kind = "flow" /\ Opens

\* append where the check of the stream and the write are one step.
AppendsAtOnce(n) ==
  /\ Port!CanAppend(Stream)
  /\ next + n - 1 <= MaxItems
  /\ kept' = kept \o Fresh(n)
  /\ told' = told \cup ToSet(Fresh(n))
  /\ next' = next + n
  /\ Wakes
  /\ UNCHANGED <<kind, row, over, dropped, holder, pending, doomed, sending,
                 reader, cursor, page, sawClosed, got, torn>>
  /\ Logged

MemoryAppends(n) == kind = "memory" /\ AppendsAtOnce(n)    \* no await
SqliteAppends(n) == kind = "sqlite" /\ AppendsAtOnce(n)    \* one transaction
ScriptAppends(n) == kind = "redis" /\ AppendsAtOnce(n)     \* one script

\* flow takes so many items a call, so one append may be several: a close can come between.
FlowAppends(n) ==
  /\ kind = "flow"
  /\ sending = 0
  /\ next + n - 1 <= MaxItems
  /\ sending' = n
  /\ UNCHANGED <<kind, row, kept, over, dropped, holder, pending, doomed, told, next, reading, log>>

FlowBatch ==
  /\ kind = "flow"
  /\ sending > 0
  /\ IF Port!CanAppend(Stream)
     THEN /\ kept' = Append(kept, next)
          /\ next' = next + 1
          /\ sending' = sending - 1
          /\ told' = IF sending = 1 THEN 1..next ELSE told
          /\ Wakes
     ELSE /\ sending' = 0          \* it throws: the batches before it stay
          /\ UNCHANGED <<kept, next, told, woken>>
  /\ UNCHANGED <<kind, row, over, dropped, holder, pending, doomed,
                 reader, cursor, page, sawClosed, got, torn>>
  /\ Logged

CanLockAnyway == Port!CanAppend(Stream)   \* mutant

\* prisma's no-op UPDATE of an open row takes the row's lock: a transaction
\* waits for the one that has it, and looks at the row again.
CanLock == holder = {} /\ Port!CanAppend(Stream)

Lock(who, written) ==
  /\ kind = "prisma"
  /\ who \notin holder
  /\ CanLock
  /\ holder' = holder \cup {who}
  /\ pending' = [pending EXCEPT ![who] = written]
  /\ UNCHANGED <<kind, row, kept, over, dropped, doomed, sending, told, next, reading, log>>

PrismaAppend(n) == next + n - 1 <= MaxItems /\ Lock("writer", Fresh(n))

PrismaClose == Lock("closer", <<End>>)

Commit(who) ==
  /\ who \in holder
  /\ kept' = kept \o pending[who]
  /\ row' = IF who = "closer" THEN "closed" ELSE row
  /\ told' = IF who = "writer" THEN told \cup ToSet(pending[who]) ELSE told
  /\ next' = IF who = "writer" THEN next + Len(pending[who]) ELSE next
  /\ holder' = holder \ {who}
  /\ Wakes
  /\ UNCHANGED <<kind, over, dropped, pending, doomed, sending, reader, cursor, page, sawClosed, got, torn>>
  /\ Logged

\* The worker dies, or the transaction is given up.
RollsBack(who) ==
  /\ who \in holder
  /\ holder' = holder \ {who}
  /\ UNCHANGED <<kind, row, kept, over, dropped, pending, doomed, sending, told, next, reading, log>>

\* close where it is one step: the end item, and no append after it.
Closes ==
  /\ row = "open" /\ ~Gone
  /\ row' = "closed"
  /\ kept' = Append(kept, End)
  /\ Wakes
  /\ UNCHANGED <<kind, over, dropped, holder, pending, doomed, sending, told, next,
                 reader, cursor, page, sawClosed, got, torn>>
  /\ Logged

MemoryCloses == kind = "memory" /\ Closes
SqliteCloses == kind = "sqlite" /\ Closes
ScriptCloses == kind = "redis" /\ Closes
FlowCloses == kind = "flow" /\ Closes

\* The grace window, or the stream's lifetime, is over; a sweep comes later.
Expires ==
  /\ row # "none" /\ ~Gone
  /\ over' = TRUE
  /\ UNCHANGED <<kind, row, kept, dropped, holder, pending, doomed, sending, told, next, reading, log>>

\* A sweep of what is over, or the delete of the thread.
Removes(left) ==
  /\ row # "none" /\ ~dropped
  /\ dropped' = TRUE
  /\ kept' = left
  /\ Wakes
  /\ UNCHANGED <<kind, row, over, holder, pending, doomed, sending, told, next,
                 reader, cursor, page, sawClosed, got, log, torn>>

\* memory drops the stream's object: a reader that has it keeps what it holds.
MemoryDrops == kind = "memory" /\ Removes(kept)
SqliteRemoves == kind = "sqlite" /\ Removes(<<>>)
ScriptDeletes == kind = "redis" /\ Removes(<<>>)
FlowDeletes == kind = "flow" /\ Removes(<<>>)

\* prisma deletes the events, then the row, whose lock it must wait for.
DeletesEvents ==
  /\ kind = "prisma"
  /\ row # "none" /\ ~dropped
  /\ doomed = <<>>
  /\ kept # <<>>
  /\ doomed' = kept
  /\ UNCHANGED <<kind, row, kept, over, dropped, holder, pending, sending, told, next, reading, log>>

DeletesRow ==
  /\ kind = "prisma"
  /\ row # "none" /\ ~dropped
  /\ holder = {}
  /\ doomed # <<>> \/ kept = <<>>
  /\ dropped' = TRUE
  /\ kept' = SubSeq(kept, Len(doomed) + 1, Len(kept))
  /\ Wakes
  /\ UNCHANGED <<kind, row, over, holder, pending, doomed, sending, told, next,
                 reader, cursor, page, sawClosed, got, log, torn>>

---------------------------------------------------------------------------
(* The reader *)

Starts ==
  /\ reader = "off"
  /\ reader' = "look"
  /\ cursor' \in 0..Len(Stream.items)
  /\ got' = SubSeq(log, 1, cursor')
  /\ UNCHANGED <<store, page, sawClosed, woken, log, torn>>

Finds(where) == reader' = IF Gone \/ row = "none" THEN "gone" ELSE where

AtRest(closed) == IF closed THEN "ended" ELSE "wait"

AfterOrAt(s, offset) == SubSeq(s, IF offset = 0 THEN 1 ELSE offset, Len(s))   \* mutant

\* The items after an offset.
After(s, offset) == SubSeq(s, offset + 1, Len(s))

\* A page read in one step, and where the reader goes with it.
LooksAtOnce(where) ==
  /\ reader = "look"
  /\ Finds(where)
  /\ page' = After(kept, cursor)
  /\ sawClosed' = (row = "closed")
  /\ woken' = FALSE
  /\ UNCHANGED <<store, cursor, got, log, torn>>

\* memory gives out of the live object, and waits at once when there is nothing to give.
MemoryLooks ==
  /\ kind = "memory"
  /\ LooksAtOnce(IF After(kept, cursor) = <<>> THEN AtRest(row = "closed") ELSE "give")

ScriptLooks == kind = "redis" /\ LooksAtOnce("give")
FlowLooks == kind = "flow" /\ LooksAtOnce("give")

\* sqlite and prisma read the row, then the events: another process may come between.
LooksAtRow ==
  /\ reader = "look"
  /\ Finds("row")
  /\ sawClosed' = (row = "closed")
  /\ UNCHANGED <<store, cursor, page, woken, got, log, torn>>

LooksAtEvents ==
  /\ reader = "row"
  /\ reader' = "give"
  /\ page' = IF dropped THEN <<>> ELSE After(kept, cursor)
  /\ torn' = (torn \/ dropped)
  /\ UNCHANGED <<store, cursor, sawClosed, woken, got, log>>

SqlitePages == kind = "sqlite" /\ (LooksAtRow \/ LooksAtEvents)
PrismaPages == kind = "prisma" /\ (LooksAtRow \/ LooksAtEvents)

\* What the reader has before it: memory sees what was added since.
Before == IF kind = "memory" THEN After(kept, cursor) ELSE page

SeesEnd == IF kind = "memory" THEN row = "closed" ELSE sawClosed

Gives ==
  /\ reader = "give"
  /\ Before # <<>>
  /\ got' = Append(got, Head(Before))
  /\ cursor' = cursor + 1
  /\ page' = Tail(Before)
  /\ reader' = IF Head(Before) = End THEN "ended"
               ELSE IF kind # "memory" /\ Len(Before) = 1 THEN "look"
               ELSE "give"
  /\ UNCHANGED <<store, sawClosed, woken, log, torn>>

\* Nothing to give: past the end there is nothing to wait for.
Waits ==
  /\ reader = "give"
  /\ Before = <<>>
  /\ reader' = AtRest(SeesEnd)
  /\ woken' = FALSE
  /\ UNCHANGED <<store, cursor, page, sawClosed, got, log, torn>>

LooksAgain ==
  /\ reader = "wait"
  /\ reader' = "look"
  /\ UNCHANGED <<store, cursor, page, sawClosed, woken, got, log, torn>>

MemoryWakes == kind = "memory" /\ woken /\ LooksAgain

\* Woken by its own process, or by the poll that stands in for the others.
SqliteWakes == kind = "sqlite" /\ LooksAgain
PrismaWakes == kind = "prisma" /\ LooksAgain
FlowWakes == kind = "flow" /\ LooksAgain

\* redis: one blocking XREAD for all the process waits for, or the end of its poll.
TailWakes == kind = "redis" /\ LooksAgain

---------------------------------------------------------------------------

Memory ==
  \/ MemoryOpens \/ MemoryCloses \/ MemoryDrops \/ MemoryLooks \/ MemoryWakes
  \/ \E n \in 1..2 : MemoryAppends(n)

Sqlite ==
  \/ SqliteOpens \/ SqliteCloses \/ SqliteRemoves \/ SqlitePages \/ SqliteWakes
  \/ \E n \in 1..2 : SqliteAppends(n)

Prisma ==
  \/ PrismaOpens \/ PrismaClose \/ DeletesEvents \/ DeletesRow \/ PrismaPages \/ PrismaWakes
  \/ \E n \in 1..2 : PrismaAppend(n)
  \/ \E who \in {"writer", "closer"} : Commit(who) \/ RollsBack(who)

Scripted ==
  \/ ScriptOpens \/ ScriptCloses \/ ScriptDeletes \/ ScriptLooks \/ TailWakes
  \/ \E n \in 1..2 : ScriptAppends(n)

Flow ==
  \/ FlowOpens \/ FlowBatch \/ FlowCloses \/ FlowDeletes \/ FlowLooks \/ FlowWakes
  \/ \E n \in 1..2 : FlowAppends(n)

Next == Memory \/ Sqlite \/ Prisma \/ Scripted \/ Flow \/ Expires \/ Starts \/ Gives \/ Waits

Spec == Init /\ [][Next]_vars

---------------------------------------------------------------------------

KeepsContract ==
  \/ Stream' = Port!Opened(Stream)
  \/ Port!CanAppend(Stream) /\ \E n \in 1..2 : Stream' = Port!Appended(Stream, Fresh(n))
  \/ Stream.state = "open" /\ Stream' = Port!Closed(Stream, End)
  \/ Stream.state \in {"open", "closed"} /\ Stream' = Port!Expired(Stream)

\* Over every adapter, whatever the interleaving of append, close, expiry and
\* delete, the stream the callers see changes only as the port says: it is
\* opened once, grows at its end, is closed by one end item that stays the last,
\* and goes (ports/streams.ts:36-48).
StreamsKeepContract == [][KeepsContract]_Stream

\* A reader gives out the stream from its cursor, each item once and none
\* skipped; it ends only after the end item; and an event whose offset the writer
\* was given is in the stream while it is there.  Left out: an sqlite or prisma page whose stream
\* was deleted between its two reads (adapters/prisma.ts:467-474).
ReadsExact ==
  /\ IsPrefix(got, log)
  /\ reader = "ended" /\ ~torn => got # <<>> /\ Last(got) = End
  /\ row # "none" /\ ~Gone => told \subseteq ToSet(Stream.items)
===========================================================================
