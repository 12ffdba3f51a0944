---------------------------- MODULE SummaryRounds ----------------------------
\* How a compaction writes its summary (core/context.ts, summarizeLines): the history's
\* lines go to the compaction model in chunks that fit it, and the partial summaries are
\* merged in rounds until one is left.  A line is its place and its length in characters,
\* and how many UTF-16 units each of them takes.
EXTENDS Naturals, Sequences, SequencesExt

CONSTANTS
  Limit,       \* summaryChunkTokens
  Lengths,     \* of the history's lines and of the model's answers
  UnitsPer,    \* UTF-16 units a character takes
  MaxLines     \* bounds the history

VARIABLES
  lines,    \* this round's lines
  chunks,   \* this round's calls, each the places of its lines and its tokens
  parts,    \* the answers so far
  round     \* 0 before, 1 for the history, then the merges

roundVars == <<lines, chunks, parts, round>>

RoundInit == lines = <<>> /\ chunks = <<>> /\ parts = <<>> /\ round = 0

Marker == 15   \* the characters that stand for what was cut

\* About four units a token, rounded up.
LineTokens(l) == (l.chars * l.units + l.mark + 3) \div 4

\* trimMiddle counts tokens by units and keeps characters.
TrimMiddle(l, limit) ==
  IF LineTokens(l) <= limit \/ 4 * limit >= l.chars THEN l
  ELSE [l EXCEPT !.chars = 2 * ((limit * 4) \div 2), !.mark = Marker]

NewChunk == [places |-> <<>>, tokens |-> 0]

\* chunkLines. A line that does not fit starts the next chunk.
Packed(out, raw) ==
  LET l == TrimMiddle(raw, Limit)
      t == LineTokens(l)
      full == out.current.tokens > 0 /\ out.current.tokens + t > Limit
      into == IF full THEN NewChunk ELSE out.current
  IN  [done |-> IF full THEN Append(out.done, out.current) ELSE out.done,
       current |-> [places |-> Append(into.places, l.place), tokens |-> into.tokens + t]]

ChunkLines(ls) ==
  LET all == FoldLeft(Packed, [done |-> <<>>, current |-> NewChunk], ls)
  IN  IF all.current.tokens > 0 \/ all.done = <<>> THEN Append(all.done, all.current) ELSE all.done

Line(place, chars, units) == [place |-> place, chars |-> chars, units |-> units, mark |-> 0]

Starts(ls) ==
  /\ round = 0
  /\ round' = 1 /\ lines' = ls /\ chunks' = ChunkLines(ls) /\ parts' = <<>>

\* summaryCall: an answer of any length, or a throw, which fails the compaction.
Answers(chars, units) ==
  /\ round > 0 /\ Len(parts) < Len(chunks)
  /\ parts' = Append(parts, Line(Len(parts) + 1, chars, units))
  /\ UNCHANGED <<lines, chunks, round>>

Throws ==
  /\ round > 0 /\ Len(parts) < Len(chunks)
  /\ round' = 0 /\ lines' = <<>> /\ chunks' = <<>> /\ parts' = <<>>

\* A third of a chunk per part.
TrimmedParts == [i \in DOMAIN parts |-> TrimMiddle(parts[i], Limit \div 3)]

\* One answer is the summary; more are merged.
Merges ==
  /\ round > 0 /\ Len(parts) = Len(chunks) /\ Len(parts) > 1
  /\ lines' = TrimmedParts /\ chunks' = ChunkLines(TrimmedParts)
  /\ parts' = <<>> /\ round' = round + 1

RoundNext ==
  \/ \E n \in 1..MaxLines : \E size \in [1..n -> Lengths \X UnitsPer] :
       Starts([i \in 1..n |-> Line(i, size[i][1], size[i][2])])
  \/ \E c \in Lengths, u \in UnitsPer : Answers(c, u)
  \/ Throws \/ Merges

\* Every line is in one call of its round, in order, and no call is larger than the model
\* takes, but for the marks of what was cut; a merge has at most half as many calls as it
\* has parts, so the rounds end (context.ts:200-242).
RoundsEnd ==
  /\ round > 0 =>
       /\ FlattenSeq([i \in DOMAIN chunks |-> chunks[i].places]) = [i \in DOMAIN lines |-> i]
       /\ \A i \in DOMAIN chunks : chunks[i].tokens <= Limit + (Marker + 3) \div 4
  /\ round > 1 => 2 * Len(chunks) <= Len(lines) + 1
=============================================================================
