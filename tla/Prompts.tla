------------------------------- MODULE Prompts -------------------------------
\* What of a thread's history goes to the model: the latest compaction summary and the
\* turns after the last one it covers (core/messages.ts, promptHistory), with the tool
\* calls that no result answered closed and the results without a call dropped
\* (repairDanglingToolCalls). Compactions (core/context.ts, compactContext) read the
\* history, call a model, and append their summary, while turns come in, an edit deletes
\* the last of them, and another compaction does the same.
EXTENDS Naturals, Sequences, SequencesExt, FiniteSetsExt

CONSTANTS
  CallIds,       \* tool call ids
  Compactors,    \* compactions that may be under way at once
  MaxTurns,      \* bounds the messages ever appended
  MaxSummaries   \* of which summaries

VARIABLES
  history,   \* the main agent's messages, in order
  minted,    \* messages appended so far, which are their ids
  compact    \* per compaction, NoCompact or the summary it is about to append

promptVars == <<history, minted, compact>>
NoCompact == [covers |-> 0, told |-> {}]

\* A message: its role, the calls an assistant turn makes or the results a tool turn
\* brings, and for a summary the last message it covers and those its text is made of.
Message(role, calls) == [id |-> minted + 1, role |-> role, calls |-> calls, covers |-> 0, told |-> {}]
IsSummary(m) == m.role = "summary"
Ids(ms) == {ms[i].id : i \in DOMAIN ms}

PromptInit ==
  /\ history = <<>> /\ minted = 0
  /\ compact = [c \in Compactors |-> NoCompact]

-----------------------------------------------------------------------------
\* promptHistory: the latest summary, then what came after the last message it covers, no
\* summary among it; everything, if that message is not there.
After(ms, id) ==
  LET at == {i \in DOMAIN ms : ms[i].id = id}
  IN  IF at = {} THEN ms ELSE SubSeq(ms, (CHOOSE i \in at : TRUE) + 1, Len(ms))

PromptHistory(ms) ==
  LET summaries == {i \in DOMAIN ms : IsSummary(ms[i])}
      latest == ms[Max(summaries)]
      rest == SelectSeq(After(ms, latest.covers), LAMBDA m : ~IsSummary(m))
  IN  IF summaries = {} THEN ms
      ELSE IF latest.covers \in Ids(ms) THEN <<latest>> \o rest ELSE rest

\* dropOrphanResults: a result whose call has not appeared yet goes, and a tool turn that
\* has none left.
CallsIn(ms) == UNION {IF ms[i].role = "assistant" THEN ms[i].calls ELSE {} : i \in DOMAIN ms}
DropOrphans(ms) ==
  LET kept(i) ==
        IF ms[i].role # "tool" THEN ms[i]
        ELSE [ms[i] EXCEPT !.calls = @ \cap CallsIn(SubSeq(ms, 1, i - 1))]
      gone(m) == m.role = "tool" /\ m.calls = {}
  IN  SelectSeq([i \in DOMAIN ms |-> kept(i)], LAMBDA m : ~gone(m))

\* The tool turns right after a message, and the calls of it they leave open.
Block(ms, i) == {j \in DOMAIN ms : j > i /\ \A k \in i + 1..j : ms[k].role = "tool"}
Open(ms, i) ==
  IF ms[i].role # "assistant" THEN {}
  ELSE ms[i].calls \ UNION {ms[j].calls : j \in Block(ms, i)}

\* repairDanglingToolCalls: a turn with the missing results goes after the block.
Closes(ms, j) ==
  LET owner == {i \in DOMAIN ms : Open(ms, i) # {} /\ j = Max(Block(ms, i) \cup {i})}
  IN  IF owner = {} THEN <<ms[j]>>
      ELSE <<ms[j], [ms[j] EXCEPT !.id = 0, !.role = "tool", !.covers = 0, !.told = {},
                                  !.calls = UNION {Open(ms, i) : i \in owner}]>>
Repair(input) ==
  LET ms == DropOrphans(input)
  IN  FlattenSeq([j \in DOMAIN ms |-> Closes(ms, j)])

-----------------------------------------------------------------------------
Appends(m) == history' = Append(history, m) /\ minted' = minted + 1

\* Turns of any kind come in: a user's, an answer with or without calls, a batch of
\* results, late ones after the next turn among them.
Turn(role, calls) ==
  /\ minted < MaxTurns
  /\ Appends(Message(role, calls))
  /\ UNCHANGED compact

\* An edit deletes a user turn and everything after it.
Edits(i) ==
  /\ history[i].role = "user"
  /\ history' = SubSeq(history, 1, i - 1)
  /\ UNCHANGED <<minted, compact>>

\* Where the tail starts: the first user turn from there on, or the last before it.
UserTurnAtOrAfter(ms, start) ==
  LET users == {i \in DOMAIN ms : ms[i].role = "user"}
  IN  IF users = {} THEN Len(ms) + 1
      ELSE IF \E i \in users : i >= start THEN Min({i \in users : i >= start})
      ELSE Max(users)

\* The last turn of what is summarized; with this mutant, the turn after it.
CoversNext(older, tail) ==                                                   \* mutant
  IF tail # <<>> THEN Head(tail).id ELSE 0
CoversUpTo(older, tail) ==
  LET turns == SelectSeq(older, LAMBDA m : ~IsSummary(m))
  IN  IF turns = <<>> THEN 0 ELSE Last(turns).id

\* compactContext up to the model's answer: the history is cut where the tail's share of
\* the budget starts, wherever that is, and what is older goes into the summary.
Compacts(c) ==
  /\ compact[c] = NoCompact
  /\ Cardinality({i \in DOMAIN history : IsSummary(history[i])}) < MaxSummaries
  /\ \E start \in 1..Len(history) + 1 :
       LET ms == PromptHistory(history)
           cut == UserTurnAtOrAfter(ms, start)
           older == SubSeq(ms, 1, cut - 1)
           tail == SubSeq(ms, cut, Len(ms))
       IN  /\ start <= Len(ms) + 1
           /\ CoversUpTo(older, tail) # 0
           /\ compact' = [compact EXCEPT ![c] =
                [covers |-> CoversUpTo(older, tail),
                 told |-> Ids(older) \cup UNION {older[i].told : i \in DOMAIN older}]]
  /\ UNCHANGED <<history, minted>>

\* The summary is appended, whatever became of the history meanwhile; or its model call
\* throws, and nothing is.
Summarizes(c) ==
  /\ compact[c] # NoCompact
  /\ compact' = [compact EXCEPT ![c] = NoCompact]
  /\ Appends([Message("summary", {}) EXCEPT !.covers = compact[c].covers, !.told = compact[c].told])

GivesUp(c) ==
  /\ compact[c] # NoCompact
  /\ compact' = [compact EXCEPT ![c] = NoCompact]
  /\ UNCHANGED <<history, minted>>

PromptNext ==
  \/ \E role \in {"user", "assistant", "tool"} :
       \E calls \in SUBSET CallIds :
         /\ role = "user" => calls = {}
         /\ role = "tool" => calls # {}
         /\ Turn(role, calls)
  \/ \E i \in DOMAIN history : Edits(i)
  \/ \E c \in Compactors : Compacts(c) \/ Summarizes(c) \/ GivesUp(c)

-----------------------------------------------------------------------------
\* Nothing of a conversation is lost to the model, and nothing it may not see is sent.
\* Every turn on record is in the prompt or in the text of its summary, however compactions,
\* turns and edits overlap; no turn is in both; and after the repair every call has its
\* result before the next turn, no result is without an earlier call, and repairing again
\* changes nothing (messages.ts, "Idempotent").
PromptIsWhole ==
  LET prompt == PromptHistory(history)
      told == UNION {prompt[i].told : i \in DOMAIN prompt}
      sent == Repair(prompt)
      turns == {history[i].id : i \in {j \in DOMAIN history : ~IsSummary(history[j])}}
  IN  /\ turns \subseteq Ids(prompt) \cup told
      /\ Ids(prompt) \cap told = {}
      /\ \A i \in DOMAIN sent :
           /\ Open(sent, i) = {}
           /\ sent[i].role = "tool" => sent[i].calls \subseteq CallsIn(SubSeq(sent, 1, i - 1))
      /\ Repair(sent) = sent
=============================================================================
