----------------------------- MODULE UsageTotals -----------------------------
\* What a thread cost (core/usage.ts UsageMerger, sumUsage): an adapter that cannot group
\* merges the usage rows one by one (adapters/memory.ts); one that can merges what the
\* database grouped by agent, model and currency (adapters/sqlite.ts, adapters/prisma.ts).
\* Both must come to the same totals, and never add two currencies.
EXTENDS Naturals, Sequences, SequencesExt, FiniteSetsExt

CONSTANTS
  UsageLines,   \* agent and model
  Currencies,
  MaxRows       \* bounds the rows

VARIABLE rows   \* the recorded calls: line, currency ("" unpriced), cost, tokens, run ("" for none)

usageVars == <<rows>>

UsageInit == rows = <<>>

Records(row) == rows' = Append(rows, row)

\* Each call costs another power of two, so a sum names its calls.
CostIn(c) == IF c = "" THEN 0 ELSE 2 ^ Len(rows)

\* recordCall: a call the platform made on its own account, priced in c or not at all.
RecordCall(l, c) ==
  /\ Len(rows) < MaxRows
  /\ Records([line |-> l, currency |-> c, cost |-> CostIn(c), tokens |-> 2 ^ Len(rows), run |-> ""])

UsageNext == \E l \in UsageLines, c \in Currencies \cup {""} : RecordCall(l, c)

emptyTotals == [cost |-> 0, currency |-> "", unpriced |-> 0, tokens |-> 0, costs |-> <<>>, lines |-> <<>>]

\* One group: its line and currency, its cost and tokens, its calls and how many had no price.
GroupOf(line, currency, cost, tokens, calls) ==
  [line |-> line, currency |-> currency, cost |-> cost, tokens |-> tokens, calls |-> calls,
   unpriced |-> IF currency = "" THEN calls ELSE 0]

\* The first line of the group's agent and model that is in its currency, or in none, or
\* any when the group has none; 0 when there is none.
LineOf(lines, g) ==
  LET same == {i \in DOMAIN lines : lines[i].line = g.line}
      fits == {i \in same : g.currency = "" \/ lines[i].currency \in {g.currency, ""}}
  IN  IF fits = {} THEN 0 ELSE Min(fits)

MergedLines(lines, g) ==
  LET at == LineOf(lines, g)
  IN  IF at = 0
      THEN Append(lines, [line |-> g.line, currency |-> g.currency, cost |-> g.cost, calls |-> g.calls])
      ELSE [lines EXCEPT ![at] =
             [line |-> g.line, currency |-> IF @.currency = "" THEN g.currency ELSE @.currency,
              cost |-> @.cost + g.cost, calls |-> @.calls + g.calls]]

MergedCosts(costs, g) ==
  LET at == {i \in DOMAIN costs : costs[i].currency = g.currency}
      priced == g.calls - g.unpriced
  IN  IF g.currency = "" THEN costs
      ELSE IF at = {} THEN Append(costs, [currency |-> g.currency, cost |-> g.cost, calls |-> priced])
      ELSE [costs EXCEPT ![Min(at)] =
             [currency |-> g.currency, cost |-> @.cost + g.cost, calls |-> @.calls + priced]]

\* UsageMerger.add: the cost is summed in the first currency seen, and calls priced in
\* another count as unpriced there.
Merged(out, g) ==
  LET main == IF out.currency = "" THEN g.currency ELSE out.currency
      foreign == g.currency # "" /\ g.currency # main
  IN  [cost |-> out.cost + (IF foreign THEN 0 ELSE g.cost),
       currency |-> main,
       unpriced |-> out.unpriced + g.unpriced + (IF foreign THEN g.calls - g.unpriced ELSE 0),
       tokens |-> out.tokens + g.tokens,
       costs |-> MergedCosts(out.costs, g),
       lines |-> MergedLines(out.lines, g)]

Totals(groups) == FoldLeft(Merged, emptyTotals, groups)

\* sumUsage: every row is a group of one call.
Single(row) == GroupOf(row.line, row.currency, row.cost, row.tokens, 1)
sumUsage == Totals([i \in DOMAIN rows |-> Single(rows[i])])

\* GROUP BY agentId, agentName, model, modelId, costCurrency ORDER BY MIN(createdAt). The
\* rows' times are taken to differ.
RowsLike(i) == {j \in DOMAIN rows : rows[j].line = rows[i].line /\ rows[j].currency = rows[i].currency}
FirstOfGroup(i) == i = Min(RowsLike(i))
LedBy == SetToSortSeq({i \in DOMAIN rows : FirstOfGroup(i)}, <)
GroupLedBy(i) ==
  GroupOf(rows[i].line, rows[i].currency,
          MapThenSumSet(LAMBDA j : rows[j].cost, RowsLike(i)),
          MapThenSumSet(LAMBDA j : rows[j].tokens, RowsLike(i)), Cardinality(RowsLike(i)))

SqliteTotal == Totals([n \in DOMAIN LedBy |-> GroupLedBy(LedBy[n])])

\* groupBy has no order of its own: the groups are sorted by their first row.
PrismaTotal ==
  LET groups == {[first |-> i, group |-> GroupLedBy(i)] : i \in {j \in DOMAIN rows : FirstOfGroup(j)}}
      sorted == SetToSortSeq(groups, LAMBDA g, h : g.first < h.first)
  IN  Totals([n \in DOMAIN sorted |-> sorted[n].group])

\* Every adapter gives the same bill, to the line (usage.ts:307-317): whichever way the
\* rows reach the merge, currencies keep apart, each call is on one line, and a line's or
\* a currency's cost is what its own calls cost.
TotalsAgree ==
  LET t == sumUsage
      CostOf(c) == MapThenSumSet(LAMBDA j : rows[j].cost, {j \in DOMAIN rows : rows[j].currency = c})
      Sum(s, Of(_)) == MapThenSumSet(LAMBDA i : Of(s[i]), DOMAIN s)
  IN  /\ SqliteTotal = t /\ PrismaTotal = t
      /\ Sum(t.lines, LAMBDA l : l.calls) = Len(rows)
      /\ t.tokens = MapThenSumSet(LAMBDA j : rows[j].tokens, DOMAIN rows)
      /\ \A i \in DOMAIN t.costs : t.costs[i].cost = CostOf(t.costs[i].currency)
      /\ t.cost = CostOf(t.currency)
      /\ \A i, j \in DOMAIN t.lines : i # j => t.lines[i].line # t.lines[j].line \/ t.lines[i].currency # t.lines[j].currency
      /\ \A c \in Currencies : Sum(t.lines, LAMBDA l : IF l.currency = c THEN l.cost ELSE 0) = CostOf(c)
=============================================================================
