---------------------------- MODULE RunStreams ----------------------------
(***************************************************************************)
(* The run streams port: short-lived logs, one per segment of a run.       *)
(* What an adapter promises (ports/streams.ts) is written here once, as    *)
(* operators on the value of one stream, and used by Segments (the         *)
(* worker's side) and Follow (the reader's side).                          *)
(*                                                                         *)
(* An offset is an item's place in the stream.  The end, when there is     *)
(* one, is the last item.                                                  *)
(***************************************************************************)
EXTENDS Naturals, Sequences

NoStream == [state |-> "absent", items |-> <<>>]

\* Opening a stream that exists is a no-op.
Opened(s) == IF s.state = "absent" THEN [state |-> "open", items |-> <<>>] ELSE s

\* An append to a stream that is closed or gone throws and writes nothing.
CanAppend(s) == s.state = "open"

Appended(s, events) == [s EXCEPT !.items = @ \o events]

\* Closing a closed stream is a no-op; closing one that is gone throws.
Closed(s, end) ==
  IF s.state = "open"
  THEN [state |-> "closed", items |-> Append(s.items, end)]
  ELSE s

\* The grace window of a closed stream, or the lifetime of an open one, is over.
Expired(s) == [state |-> "gone", items |-> <<>>]

Snapshot(s) == s.state \in {"open", "closed"}
===========================================================================
