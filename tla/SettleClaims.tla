---------------------------- MODULE SettleClaims ----------------------------
\* Settling one ended run (core/settle.ts, settleRun): several settlers, the worker that
\* finished it, a stop, the late-settle sweep, claim its record in an admin store
\* (claimSettle, endSettle), and the one that wins calls the application's hook. The
\* store may fail a call, also after it did what it was asked; settlers die.
EXTENDS Naturals

CONSTANTS
  ClaimKinds,    \* the admin stores
  Settlers,      \* settlers, each with its own token
  Unclaimed,     \* no token
  ClaimTries,    \* the attempts of a claim and of a mark
  MaxFaults,     \* bounds the failures, deaths and slow hooks
  MaxBills       \* bounds the hooks that succeed before the sweep comes again

VARIABLES
  holds,      \* the admin store
  token,      \* settleToken
  claimedAt,  \* settlingAt: "none", "fresh", or "stale" once SETTLE_CLAIM_TTL_MS are over
  settled,    \* settledAt is set
  at,         \* per settler: "start", "reads", "hook", "marks", "told", "skipped", "dead"
  tries,      \* per settler, the attempts of its call
  failed,     \* per settler, whether the hook threw
  bills,      \* the times the hook succeeded
  outlived,   \* a claim went stale under a hook that was running
  unmarked,   \* a settler's mark was not written
  faults

settleVars ==
  <<holds, token, claimedAt, settled, at, tries, failed, bills, outlived, unmarked, faults>>

SettleInit ==
  /\ holds \in ClaimKinds
  /\ token = Unclaimed /\ claimedAt = "none" /\ settled = FALSE
  /\ at = [s \in Settlers |-> "start"]
  /\ tries = [s \in Settlers |-> 0]
  /\ failed = [s \in Settlers |-> FALSE]
  /\ bills = 0 /\ outlived = FALSE /\ unmarked = FALSE /\ faults = 0

To(s, p) == at' = [at EXCEPT ![s] = p]
Fault == faults < MaxFaults /\ faults' = faults + 1

\* claimSettle's condition: not settled, and no claim or a stale one. With this mutant a
\* settled run can be claimed.
ClaimableAgain == claimedAt # "fresh"                                        \* mutant
Claimable == ~settled /\ claimedAt # "fresh"

Takes(s) ==
  IF Claimable THEN token' = s /\ claimedAt' = "fresh" ELSE UNCHANGED <<token, claimedAt>>

\* The claim, and where its answer takes the settler.
Claim(s, p) ==
  /\ at[s] = "start" /\ Takes(s) /\ To(s, p)
  /\ tries' = [tries EXCEPT ![s] = 0]
  /\ UNCHANGED <<holds, settled, failed, bills, outlived, unmarked, faults>>

MemoryClaims(s) == holds = "memory" /\ Claim(s, IF Claimable THEN "hook" ELSE "skipped")

\* UPDATE ... RETURNING: the row that was written.
PostgresClaims(s) == holds = "postgres" /\ Claim(s, IF Claimable THEN "hook" ELSE "skipped")

\* sqlite writes, then reads the token back.
SqliteClaims(s) == holds = "sqlite" /\ Claim(s, "reads")

ReadsBack(s) ==
  /\ at[s] = "reads"
  /\ To(s, IF token = s THEN "hook" ELSE "skipped")
  /\ UNCHANGED <<holds, token, claimedAt, settled, tries, failed, bills, outlived, unmarked, faults>>

\* The claim throws, whether or not the store took it; after the last attempt the run
\* stays unsettled for the sweep.
ClaimThrows(s) ==
  /\ at[s] = "start" /\ Fault
  /\ Takes(s) \/ UNCHANGED <<token, claimedAt>>
  /\ tries' = [tries EXCEPT ![s] = @ + 1]
  /\ To(s, IF tries[s] + 1 = ClaimTries THEN "skipped" ELSE "start")
  /\ UNCHANGED <<holds, settled, failed, bills, outlived, unmarked>>

\* The hook does its work and returns; or it throws, and did not: a hook that throws after
\* its work is called again, and has to be idempotent (settle.ts:48).
Hook(s) ==
  /\ at[s] = "hook" /\ To(s, "marks")
  /\ \/ bills' = bills + 1 /\ UNCHANGED <<failed, faults>>
     \/ Fault /\ failed' = [failed EXCEPT ![s] = TRUE] /\ UNCHANGED bills
  /\ UNCHANGED <<holds, token, claimedAt, settled, tries, outlived, unmarked>>

\* endSettle: only the token's holder writes, the mark or, for a hook that threw, nothing
\* but the end of the claim.
Mark(s) ==
  /\ at[s] = "marks" /\ To(s, "told")
  /\ IF token = s
     THEN /\ token' = Unclaimed /\ claimedAt' = "none"
          /\ settled' = (settled \/ ~failed[s])
     ELSE UNCHANGED <<token, claimedAt, settled>>
  /\ UNCHANGED <<holds, tries, failed, bills, outlived, unmarked, faults>>

MemoryMarks(s) == holds = "memory" /\ Mark(s)
SqliteMarks(s) == holds = "sqlite" /\ Mark(s)
PostgresMarks(s) == holds = "postgres" /\ Mark(s)

\* The mark cannot be written: the claim lapses and the sweep may settle the run again.
MarkFails(s) ==
  /\ at[s] = "marks" /\ Fault /\ To(s, "told")
  /\ unmarked' = TRUE
  /\ UNCHANGED <<holds, token, claimedAt, settled, tries, failed, bills, outlived>>

Dies(s) ==
  /\ at[s] \in {"start", "reads", "hook", "marks"} /\ Fault /\ To(s, "dead")
  /\ unmarked' = (unmarked \/ at[s] = "marks")
  /\ UNCHANGED <<holds, token, claimedAt, settled, tries, failed, bills, outlived>>

\* Ten minutes pass. A settler that still holds the claim has a slow hook.
Lapse ==
  /\ claimedAt = "fresh" /\ claimedAt' = "stale"
  /\ outlived' = (outlived \/ (token # Unclaimed /\ at[token] \in {"reads", "hook", "marks"}))
  /\ UNCHANGED <<holds, token, settled, at, tries, failed, bills, unmarked, faults>>

\* The sweep comes again to a run that is not settled.
Retries(s) ==
  /\ at[s] \in {"told", "skipped"} /\ ~settled /\ To(s, "start")
  /\ failed' = [failed EXCEPT ![s] = FALSE]
  /\ tries' = [tries EXCEPT ![s] = 0]
  /\ bills < MaxBills
  /\ UNCHANGED <<holds, token, claimedAt, settled, bills, outlived, unmarked, faults>>

SettleNext ==
  \/ \E s \in Settlers :
       \/ MemoryClaims(s) \/ SqliteClaims(s) \/ ReadsBack(s) \/ PostgresClaims(s)
       \/ ClaimThrows(s) \/ Hook(s)
       \/ MemoryMarks(s) \/ SqliteMarks(s) \/ PostgresMarks(s) \/ MarkFails(s)
       \/ Dies(s) \/ Retries(s)
  \/ Lapse

-----------------------------------------------------------------------------
\* A run's settle hook is called with effect once (settle.ts:38, "Run the spec's onSettle
\* for a run, once"), unless a hook outlived its claim or its mark was not written, which
\* settle.ts:49 allows; a run marked as settled has been; and while somebody is between
\* its claim and its mark, nobody else is.
SettledOnce ==
  /\ settled => bills >= 1
  /\ ~outlived /\ ~unmarked => bills <= 1
  /\ ~outlived => \A s, u \in Settlers : at[s] = "hook" /\ at[u] = "hook" => s = u
=============================================================================
