------------------------------ MODULE RunLedger ------------------------------
\* What a run has spent (core/usage.ts): a provider's report is sorted into the four
\* counters, a price is put on the call, its row is stored, and the call is booked on the
\* ledger that the main agent and its nested runs share. A segment's ledger starts from
\* the rows of the segments before it, which a park, a retry or a death ended.
\*
\* Providers are external: how they report is modelled from what attributeTokens reads.
EXTENDS UsageTotals

CONSTANTS
  Bookers,      \* the agents of a run that may book a call at one time
  Splits,       \* what a call took: fresh, read and written prompt tokens, and its output
  MaxSegments,  \* bounds the segments of the run
  MaxCalls      \* bounds the calls of the run

VARIABLES
  spending,   \* the ledger, or NoLedger between segments
  booking,    \* per booker, NoBooking or the call it is storing
  segments,   \* segments begun
  made,       \* calls priced
  unread,     \* a segment began without the run's rows
  unstored    \* a call's row was not stored

ledgerVars == <<spending, booking, segments, made, unread, unstored>>
NoLedger  == [tokens |-> 0, cost |-> 0, currency |-> "none"]
NoBooking == [row |-> <<>>, filled |-> <<>>, real |-> <<>>]

LedgerInit ==
  /\ spending = NoLedger
  /\ booking = [b \in Bookers |-> NoBooking]
  /\ segments = 0 /\ made = 0
  /\ unread = FALSE /\ unstored = FALSE

---------------------------------------------------------------------------
(* What the providers report. *)

Absent == -1
Pick(first, second) == IF first # Absent THEN first ELSE IF second # Absent THEN second ELSE 0

Report == [input |-> Absent, noCache |-> Absent, cacheRead |-> Absent, cacheWrite |-> Absent,
           openai |-> Absent, anthropicRead |-> Absent, anthropicWrite |-> Absent, output |-> 0]

\* The SDK's own split, whose input counts everything in and which may leave the uncached
\* count out; with it, or before there was one, what the provider's metadata says: OpenAI
\* counts the cached tokens in its input, Anthropic beside it.
Reports(real) ==
  LET all == real.fresh + real.read + real.write
      told == [Report EXCEPT !.output = real.out]
      metadata == [told EXCEPT !.anthropicRead = real.read, !.anthropicWrite = real.write]
      split == [metadata EXCEPT !.input = all, !.cacheRead = real.read, !.cacheWrite = real.write]
  IN  {[split EXCEPT !.noCache = real.fresh], split, [metadata EXCEPT !.input = real.fresh]}
      \cup IF real.write = 0
           THEN {[told EXCEPT !.input = real.fresh + real.read, !.openai = real.read]} ELSE {}

HasDetails(u) == u.cacheRead # Absent \/ u.noCache # Absent

NotBelowZero(n) == IF n < 0 THEN 0 ELSE n

\* inputDetails: the writes are on a line of their own.
Fresh(u) ==
  IF u.noCache # Absent THEN u.noCache
  ELSE NotBelowZero(Pick(u.input, Absent) - Pick(u.cacheRead, Absent) - Pick(u.cacheWrite, Absent))

\* attributeTokens: the metadata is not read where the SDK gave its split.
Attributed(u) ==
  LET cached == IF HasDetails(u) THEN Pick(u.cacheRead, Absent)
                ELSE Pick(u.openai, Absent) + Pick(u.anthropicRead, Absent)
      fresh == IF HasDetails(u) THEN Fresh(u)
               ELSE IF Pick(u.openai, Absent) > 0 THEN NotBelowZero(u.input - u.openai)
               ELSE Pick(u.input, Absent)
  IN  [input |-> fresh, cached |-> cached, output |-> u.output, total |-> fresh + cached + u.output]

CacheWrites(u) == Pick(u.cacheWrite, u.anthropicWrite)

Filled(u) ==
  LET a == Attributed(u)
  IN  [fresh |-> a.input, read |-> a.cached, write |-> CacheWrites(u), out |-> a.output, total |-> a.total]

---------------------------------------------------------------------------
(* RunLedger.record *)

Spending == spending # NoLedger

\* A price in the currency the run is in, or the first; in another it is dropped. A pricer
\* that throws or says nothing leaves the call unpriced.
Priced(l, c, tokens) ==
  LET held == c = "" \/ spending.currency \notin {"", c}
  IN  [line |-> l, currency |-> IF held THEN "" ELSE c, cost |-> IF held THEN 0 ELSE 2 ^ made,
       tokens |-> tokens, run |-> "run"]

\* The currency is settled as the price comes, before the row is stored.
Prices(b) ==
  /\ Spending /\ booking[b] = NoBooking
  /\ made < MaxCalls
  /\ \E l \in UsageLines, c \in Currencies \cup {""}, real \in Splits : \E u \in Reports(real) :
       LET filled == Filled(u)
           row == Priced(l, c, filled.total)
       IN  /\ booking' = [booking EXCEPT ![b] = [row |-> row, filled |-> filled, real |-> real]]
           /\ spending' = [spending EXCEPT !.currency = IF @ = "" THEN c ELSE @]
  /\ made' = made + 1
  /\ UNCHANGED <<segments, unread, unstored, rows>>

Booked(row) == [spending EXCEPT !.tokens = @ + row.tokens, !.cost = @ + row.cost]

\* store: a row that cannot be written is logged, and booked all the same.
Stores(b) ==
  /\ Spending /\ booking[b] # NoBooking
  /\ \/ Records(booking[b].row) /\ UNCHANGED unstored
     \/ unstored' = TRUE /\ UNCHANGED rows
  /\ spending' = Booked(booking[b].row)
  /\ booking' = [booking EXCEPT ![b] = NoBooking]
  /\ UNCHANGED <<segments, made, unread>>

---------------------------------------------------------------------------
(* Segments. *)

\* A segment ends with its calls booked; a worker that dies may have stored one that it
\* never booked.
SegmentEnds ==
  /\ Spending
  /\ spending' = NoLedger
  /\ booking' = [b \in Bookers |-> NoBooking]
  /\ \/ UNCHANGED rows
     \/ \E b \in Bookers : booking[b] # NoBooking /\ Records(booking[b].row)
  /\ UNCHANGED <<segments, made, unread, unstored>>

OfRun == SelectSeq(rows, LAMBDA row : row.run = "run")
Bill == Totals([i \in DOMAIN OfRun |-> Single(OfRun[i])])

\* mutant: the caps carry over, the currency does not
SeededCaps == [tokens |-> Bill.tokens, cost |-> Bill.cost, currency |-> ""]
Seeded == [tokens |-> Bill.tokens, cost |-> Bill.cost, currency |-> Bill.currency]

\* seedRunLedger: a read that fails is logged, and the segment counts from zero.
Seeds ==
  /\ ~Spending
  /\ segments < MaxSegments
  /\ segments' = segments + 1
  /\ \/ spending' = Seeded /\ UNCHANGED unread
     \/ spending' = [NoLedger EXCEPT !.currency = ""] /\ unread' = TRUE
  /\ UNCHANGED <<booking, made, unstored, rows>>

LedgerNext ==
  \/ \E b \in Bookers : Prices(b) \/ Stores(b)
  \/ SegmentEnds
  \/ Seeds

---------------------------------------------------------------------------
(* A token is in one counter, whichever way the provider reports it: a cached prompt is  *)
(* not billed as fresh as well, nor a cache write twice (usage.ts:40-58, 74-78).         *)
TokensCountedOnce ==
  \A b \in Bookers : booking[b] # NoBooking =>
    LET f == booking[b].filled
        real == booking[b].real
    IN  /\ [fresh |-> f.fresh, read |-> f.read, write |-> f.write, out |-> f.out] = real
        /\ f.total = real.fresh + real.read + real.out

\* With no call on its way, the ledger that the caps are checked against is the run's bill,
\* across parks, retries and deaths, and the bill is in one currency. A row that was not
\* stored is missing from the bill only; where the rows could not be read the caps count
\* from zero (usage.ts:229-238, 268-272).
LedgerIsBill ==
  ~unread =>
    /\ Len(Bill.costs) <= 1
    /\ Spending /\ (\A b \in Bookers : booking[b] = NoBooking) =>
         /\ spending.tokens >= Bill.tokens /\ spending.cost >= Bill.cost
         /\ ~unstored => /\ spending.tokens = Bill.tokens /\ spending.cost = Bill.cost
                         /\ spending.currency \in {Bill.currency, ""} \/ Bill.currency = ""
=============================================================================
