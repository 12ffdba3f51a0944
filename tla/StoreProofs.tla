---------------------------- MODULE StoreProofs -----------------------------
\* Why the schema moves on in order, why a thread's record keeps one entry per seq and mints
\* none twice, why a delete that went through leaves only what runs at work wrote, and why a
\* sweep visits what matched, for all values of the constants.
\*
\* The ledger is 1, 2, ... up to some version.  Whoever has read it holds the lock, so what
\* it read is still there when it commits (ReadsStand), and what it applied goes on where
\* the ledger ends.  A gate that opened saw its release's last version in (OpenIsThere).
\*
\* The old rows a prune takes are the record's first, so an append that has read a top finds
\* every seq above it taken until the highest (SeqsHold).  A delete finds by the record every
\* stream but those of runs at work and those that were never named (StreamsHold), and
\* who is at work once it has looked is known (UseHolds): what is written after the cascade
\* is written by them (GoneHolds).
\*
\* A sweep's visits go from newer to older; its cursor is the last of them (CursorStands), and
\* what it has not visited sorts after that (RestIsAhead).
EXTENDS Migrations, ThreadStore, RunListing, SequenceTheorems, FiniteSetTheorems, TLAPS

PlainMigrations ==
  Processes # {} /\ Nobody \notin Processes /\ Releases \in [Processes -> Nat]

MigType ==
  /\ ledger \in Seq(Nat)
  /\ seen \in [Processes -> SUBSET Nat]
  /\ added \in [Processes -> Seq(Nat)]
  /\ phase \in [Processes -> {"idle", "begun", "locked", "files"}]
  /\ gate \in [Processes -> {"running", "open", "failed", "due"}]

InOrder == \A i \in DOMAIN ledger : ledger[i] = i

\* All of a run or none of it.
Whole == Len(ledger) = 0 \/ \E p \in Processes : Len(ledger) = Releases[p]

HasLock == \A p \in Processes : phase[p] \in {"locked", "files"} => lockedBy = p

ReadsStand ==
  \A p \in Processes :
    phase[p] = "files" =>
      /\ seen[p] = 1..Len(ledger)
      /\ \A i \in 1..Len(added[p]) : added[p][i] = Len(ledger) + i
      /\ Len(added[p]) = 0 \/ Len(ledger) + Len(added[p]) <= Releases[p]

OpenIsThere == \A p \in Processes : gate[p] = "open" => Releases[p] <= Len(ledger)

MigInv ==
  MigType /\ InOrder /\ Whole /\ HasLock /\ ReadsStand /\ OpenIsThere /\ early = FALSE

MigSpec == MigInit /\ [][MigNext]_migVars

-----------------------------------------------------------------------------

\* Initially: nothing is in the ledger and nobody is in a transaction.
LEMMA MigStarts == ASSUME PlainMigrations, MigInit PROVE MigInv
<1>1. MigType
  BY DEF MigInit, MigType
<1>2. InOrder /\ Whole /\ HasLock /\ ReadsStand /\ OpenIsThere /\ early = FALSE
  BY DEF MigInit, InOrder, Whole, HasLock, ReadsStand, OpenIsThere
<1>. QED  BY <1>1, <1>2 DEF MigInv

\* What is left to apply is what comes after the ledger and what was applied.
LEMMA MissingIs ==
  ASSUME PlainMigrations, MigInv, NEW p \in Processes, phase[p] = "files"
  PROVE  Missing(p) = (Len(ledger) + Len(added[p]) + 1)..Releases[p]
<1>. DEFINE n == Len(ledger)
            k == Len(added[p])
<1>1. n \in Nat /\ k \in Nat /\ Releases[p] \in Nat /\ DOMAIN added[p] = 1..k
  BY DEF MigInv, MigType, PlainMigrations
<1>2. seen[p] = 1..n /\ \A i \in 1..k : added[p][i] = n + i
  BY DEF MigInv, ReadsStand
<1>3. ASSUME NEW v \in 1..Releases[p]
      PROVE  (\A i \in 1..k : added[p][i] # v) <=> v \notin (n + 1)..(n + k)
  <2>1. ASSUME v \in (n + 1)..(n + k)
        PROVE  \E i \in 1..k : added[p][i] = v
    <3>1. v - n \in 1..k /\ n + (v - n) = v
      BY <1>1, <2>1
    <3>. QED  BY <1>2, <3>1
  <2>2. ASSUME NEW i \in 1..k, added[p][i] = v
        PROVE  v \in (n + 1)..(n + k)
    BY <1>1, <1>2, <2>2
  <2>. QED  BY <2>1, <2>2
<1>4. ASSUME NEW v
      PROVE  v \in Missing(p) <=> v \in (n + k + 1)..Releases[p]
  <2>1. v \in Missing(p) <=>
          v \in 1..Releases[p] /\ v \notin 1..n /\ \A i \in 1..k : added[p][i] # v
    BY <1>1, <1>2 DEF Missing
  <2>2. CASE v \in 1..Releases[p]
    <3>1. (\A i \in 1..k : added[p][i] # v) <=> v \notin (n + 1)..(n + k)
      BY <1>3, <2>2
    <3>2. (v \notin 1..n /\ v \notin (n + 1)..(n + k)) <=> v \in (n + k + 1)..Releases[p]
      BY <1>1, <2>2
    <3>. QED  BY <2>1, <2>2, <3>1, <3>2
  <2>3. CASE v \notin 1..Releases[p]
    <3>1. v \notin (n + k + 1)..Releases[p]
      BY <1>1, <2>3
    <3>. QED  BY <2>1, <2>3, <3>1
  <2>. QED  BY <2>2, <2>3
<1>. QED  BY <1>4

\* A step that leaves the ledger as it is and takes nobody past the lock: what the gate,
\* a begin or an end of a transaction do.
LEMMA Aside ==
  ASSUME PlainMigrations, MigInv, NEW p \in Processes,
         UNCHANGED <<ledger, seen, added, early>>,
         NEW s \in {"idle", "begun", "locked"}, phase' = [phase EXCEPT ![p] = s],
         NEW g \in {"running", "failed", "due", "open"}, gate' = [gate EXCEPT ![p] = g],
         g = "open" => gate[p] = "open",
         s = "locked" => lockedBy' = p,
         \A q \in Processes : q # p /\ lockedBy = q => lockedBy' = q
  PROVE  MigInv'
<1>1. /\ phase'[p] = s /\ \A q \in Processes : q # p => phase'[q] = phase[q]
      /\ gate'[p] = g /\ \A q \in Processes : q # p => gate'[q] = gate[q]
  BY DEF MigInv, MigType
<1>2. MigType'
  BY DEF MigInv, MigType
<1>3. InOrder' /\ Whole' /\ (early = FALSE)'
  BY DEF MigInv, InOrder, Whole
<1>4. HasLock'
  BY <1>1 DEF MigInv, HasLock
<1>5. ReadsStand'
  BY <1>1 DEF MigInv, ReadsStand
<1>6. OpenIsThere'
  BY <1>1 DEF MigInv, OpenIsThere
<1>. QED  BY <1>2, <1>3, <1>4, <1>5, <1>6 DEF MigInv

LEMMA ReadLedgerKeeps ==
  ASSUME PlainMigrations, MigInv, NEW p \in Processes, ReadLedger(p)
  PROVE  MigInv'
<1>1. /\ phase[p] = "locked" /\ phase' = [phase EXCEPT ![p] = "files"]
      /\ seen' = [seen EXCEPT ![p] = {ledger[i] : i \in DOMAIN ledger}]
      /\ added' = [added EXCEPT ![p] = <<>>]
      /\ UNCHANGED <<ledger, lockedBy, gate, early>>
  BY DEF ReadLedger, Turns
<1>2. {ledger[i] : i \in DOMAIN ledger} = 1..Len(ledger)
  <2>1. DOMAIN ledger = 1..Len(ledger)
    BY LenProperties DEF MigInv, MigType
  <2>2. \A i \in DOMAIN ledger : ledger[i] = i
    BY DEF MigInv, InOrder
  <2>. QED  BY <2>1, <2>2, Zenon
<1>3. seen'[p] = 1..Len(ledger) /\ added'[p] = <<>> /\ Len(added'[p]) = 0
  BY <1>1, <1>2 DEF MigInv, MigType
<1>4. \A q \in Processes : q # p => phase'[q] = phase[q] /\ seen'[q] = seen[q] /\ added'[q] = added[q]
  BY <1>1 DEF MigInv, MigType
<1>5. MigType'
  <2>1. 1..Len(ledger) \in SUBSET Nat /\ <<>> \in Seq(Nat)
    BY DEF MigInv, MigType
  <2>. QED  BY <1>1, <1>2, <2>1 DEF MigInv, MigType
<1>6. InOrder' /\ Whole' /\ OpenIsThere' /\ (early = FALSE)'
  BY <1>1 DEF MigInv, InOrder, Whole, OpenIsThere
<1>7. HasLock'
  BY <1>1, <1>4 DEF MigInv, HasLock
<1>8. ReadsStand'
  <2>1. ASSUME NEW q \in Processes, phase'[q] = "files"
        PROVE  /\ seen'[q] = 1..Len(ledger)
               /\ \A i \in 1..Len(added'[q]) : added'[q][i] = Len(ledger) + i
               /\ Len(added'[q]) = 0 \/ Len(ledger) + Len(added'[q]) <= Releases[q]
    <3>1. CASE q = p
      BY <1>3, <3>1
    <3>2. CASE q # p
      BY <1>4, <2>1, <3>2 DEF MigInv, ReadsStand
    <3>. QED  BY <3>1, <3>2
  <2>. QED  BY <1>1, <2>1 DEF ReadsStand
<1>. QED  BY <1>5, <1>6, <1>7, <1>8 DEF MigInv

LEMMA ApplyKeeps ==
  ASSUME PlainMigrations, MigInv, NEW p \in Processes, Apply(p)
  PROVE  MigInv'
<1>. DEFINE n == Len(ledger)
            k == Len(added[p])
<1>1. phase[p] = "files" /\ UNCHANGED <<ledger, seen, lockedBy, phase, gate, early>>
  BY DEF Apply
<1>2. n \in Nat /\ k \in Nat /\ Releases[p] \in Nat /\ added[p] \in Seq(Nat)
  BY DEF MigInv, MigType, PlainMigrations
<1>3. PICK v \in Missing(p) : /\ \A u \in Missing(p) : v <= u
                              /\ added' = [added EXCEPT ![p] = Append(added[p], v)]
  BY DEF Apply
<1>4. v = n + k + 1 /\ v <= Releases[p]
  <2>1. v \in (n + k + 1)..Releases[p]
    BY <1>1, MissingIs
  <2>2. n + k + 1 \in Missing(p)
    BY <1>1, <1>2, <2>1, MissingIs
  <2>3. v <= n + k + 1
    BY <1>3, <2>2, Zenon
  <2>. QED  BY <1>2, <2>1, <2>3
<1>5. /\ added'[p] = Append(added[p], v)
      /\ \A q \in Processes : q # p => added'[q] = added[q]
  BY <1>3 DEF MigInv, MigType
<1>6. /\ added'[p] \in Seq(Nat) /\ Len(added'[p]) = k + 1
      /\ \A i \in 1..(k + 1) : added'[p][i] = IF i = k + 1 THEN v ELSE added[p][i]
  BY <1>2, <1>4, <1>5
<1>7. MigType'
  BY <1>1, <1>3, <1>5, <1>6 DEF MigInv, MigType
<1>8. InOrder' /\ Whole' /\ HasLock' /\ OpenIsThere' /\ (early = FALSE)'
  BY <1>1 DEF MigInv, InOrder, Whole, HasLock, OpenIsThere
<1>9. ReadsStand'
  <2>1. \A i \in 1..(k + 1) : added'[p][i] = n + i
    <3>1. \A i \in 1..k : added[p][i] = n + i
      BY <1>1 DEF MigInv, ReadsStand
    <3>2. ASSUME NEW i \in 1..(k + 1)
          PROVE  added'[p][i] = n + i
      <4>1. added'[p][i] = IF i = k + 1 THEN v ELSE added[p][i]
        BY <1>6, Zenon
      <4>2. CASE i = k + 1
        BY <1>2, <1>4, <4>1, <4>2
      <4>3. CASE i # k + 1
        <5>1. i \in 1..k
          BY <1>2, <4>3
        <5>. QED  BY <3>1, <4>1, <4>3, <5>1, Zenon
      <4>. QED  BY <4>2, <4>3
    <3>. QED  BY <3>2
  <2>2. n + (k + 1) <= Releases[p]
    BY <1>2, <1>4
  <2>3. ASSUME NEW q \in Processes, phase[q] = "files"
        PROVE  /\ seen[q] = 1..n
               /\ \A i \in 1..Len(added'[q]) : added'[q][i] = n + i
               /\ Len(added'[q]) = 0 \/ n + Len(added'[q]) <= Releases[q]
    <3>1. CASE q = p
      <4>1. seen[p] = 1..n
        BY <1>1 DEF MigInv, ReadsStand
      <4>2. Len(added'[p]) = k + 1
        BY <1>6
      <4>3. \A i \in 1..Len(added'[p]) : added'[p][i] = n + i
        BY <2>1, <4>2, Zenon
      <4>4. n + Len(added'[p]) <= Releases[p]
        BY <2>2, <4>2, Zenon
      <4>. QED  BY <3>1, <4>1, <4>3, <4>4, Zenon
    <3>2. CASE q # p
      BY <1>5, <2>3, <3>2 DEF MigInv, ReadsStand
    <3>. QED  BY <3>1, <3>2
  <2>. QED  BY <1>1, <2>3 DEF ReadsStand
<1>. QED  BY <1>7, <1>8, <1>9 DEF MigInv

\* Everybody else is out of the ledger while one commits.
LEMMA CommitKeeps ==
  ASSUME PlainMigrations, MigInv, NEW p \in Processes, Commit(p)
  PROVE  MigInv'
<1>. DEFINE n == Len(ledger)
            k == Len(added[p])
<1>1. /\ phase[p] = "files" /\ phase' = [phase EXCEPT ![p] = "idle"]
      /\ gate' = [gate EXCEPT ![p] = "open"] /\ ledger' = ledger \o added[p]
      /\ UNCHANGED <<seen, added, early>> /\ Missing(p) = {}
      /\ lockedBy' = IF lockedBy = p THEN Nobody ELSE lockedBy
  BY DEF Commit, Turns, Gates, Unlocks
<1>2. n \in Nat /\ k \in Nat /\ Releases[p] \in Nat /\ ledger \in Seq(Nat) /\ added[p] \in Seq(Nat)
  BY DEF MigInv, MigType, PlainMigrations
<1>3. /\ ledger' \in Seq(Nat) /\ Len(ledger') = n + k
      /\ \A i \in 1..(n + k) : ledger'[i] = IF i <= n THEN ledger[i] ELSE added[p][i - n]
  BY <1>1, <1>2
<1>4. \A i \in 1..k : added[p][i] = n + i
  BY <1>1 DEF MigInv, ReadsStand
<1>5. Releases[p] <= n + k
  <2>1. (n + k + 1)..Releases[p] = {}
    BY <1>1, MissingIs
  <2>2. ASSUME n + k < Releases[p]
        PROVE  FALSE
    <3>1. n + k + 1 \in (n + k + 1)..Releases[p]
      BY <1>2, <2>2
    <3>. QED  BY <2>1, <3>1
  <2>. QED  BY <1>2, <2>2
<1>6. /\ phase'[p] = "idle" /\ gate'[p] = "open"
      /\ \A q \in Processes : q # p => phase'[q] = phase[q] /\ gate'[q] = gate[q] /\ phase[q] \notin {"locked", "files"}
  BY <1>1 DEF MigInv, MigType, HasLock
<1>7. MigType'
  BY <1>1, <1>3 DEF MigInv, MigType
<1>8. InOrder'
  <2>1. ASSUME NEW i \in 1..(n + k)
        PROVE  ledger'[i] = i
    <3>1. CASE i <= n
      <4>1. i \in DOMAIN ledger
        BY <1>2, <3>1
      <4>. QED  BY <1>3, <3>1, <4>1 DEF MigInv, InOrder
    <3>2. CASE n < i
      <4>1. i - n \in 1..k /\ n + (i - n) = i
        BY <1>2, <3>2
      <4>2. added[p][i - n] = i
        BY <1>4, <4>1
      <4>3. ~(i <= n)
        BY <1>2, <3>2
      <4>. QED  BY <1>3, <4>2, <4>3
    <3>. QED  BY <1>2, <3>1, <3>2
  <2>. QED  BY <1>3, <2>1 DEF InOrder
<1>9. Whole'
  <2>1. CASE k = 0
    BY <1>2, <1>3, <2>1 DEF MigInv, Whole
  <2>2. CASE k # 0
    <3>1. n + k <= Releases[p]
      BY <1>1, <2>2 DEF MigInv, ReadsStand
    <3>2. Len(ledger') = Releases[p]
      <4>1. n + k = Releases[p]
        <5>1. n + k \in Int /\ Releases[p] \in Int
          BY <1>2
        <5>2. \A a, b \in Int : a <= b /\ b <= a => a = b
          OBVIOUS
        <5>. QED  BY <1>5, <3>1, <5>1, <5>2, Zenon
      <4>. QED  BY <1>3, <4>1, Zenon
    <3>. QED  BY <3>2 DEF Whole
  <2>. QED  BY <2>1, <2>2
<1>10. HasLock' /\ ReadsStand'
  BY <1>6 DEF HasLock, ReadsStand
<1>11. OpenIsThere'
  <2>1. \A q \in Processes : Releases[q] \in Nat
    BY DEF PlainMigrations
  <2>. QED  BY <1>2, <1>3, <1>5, <1>6, <2>1 DEF MigInv, OpenIsThere
<1>. QED  BY <1>1, <1>7, <1>8, <1>9, <1>10, <1>11 DEF MigInv

LEMMA CallsKeep ==
  ASSUME PlainMigrations, MigInv, NEW p \in Processes, Calls(p)
  PROVE  MigInv'
<1>1. CASE /\ gate[p] = "open"
           /\ early' = (early \/ \E v \in 1..Releases[p] : \A i \in DOMAIN ledger : ledger[i] # v)
           /\ UNCHANGED <<ledger, seen, added, lockedBy, phase, gate>>
  <2>1. \A v \in 1..Releases[p] : v \in DOMAIN ledger /\ ledger[v] = v
    <3>1. Releases[p] \in Nat /\ Len(ledger) \in Nat /\ DOMAIN ledger = 1..Len(ledger) /\ Releases[p] <= Len(ledger)
      BY <1>1 DEF PlainMigrations, MigInv, MigType, OpenIsThere
    <3>. QED  BY <3>1 DEF MigInv, InOrder
  <2>2. early' = FALSE
    BY <1>1, <2>1 DEF MigInv
  <2>. QED
    BY <1>1, <2>2 DEF MigInv, MigType, InOrder, Whole, HasLock, ReadsStand, OpenIsThere
<1>2. CASE gate[p] = "due" /\ Gates(p, "running") /\ UNCHANGED <<ledger, seen, added, lockedBy, phase, early>>
  BY <1>2 DEF Gates, MigInv, MigType, InOrder, Whole, HasLock, ReadsStand, OpenIsThere
<1>. QED  BY <1>1, <1>2 DEF Calls

LEMMA MigStays ==
  ASSUME PlainMigrations, MigInv, [MigNext]_migVars
  PROVE  MigInv'
<1>. USE DEF Turns, Gates, Unlocks
<1>1. ASSUME NEW p \in Processes, Begin(p) \/ Lock(p) \/ Fails(p) \/ Dies(p) \/ WaitEnds(p)
      PROVE  MigInv'
  <2>1. gate \in [Processes -> {"running", "open", "failed", "due"}] /\ gate = [gate EXCEPT ![p] = gate[p]]
        /\ phase = [phase EXCEPT ![p] = phase[p]]
    BY DEF MigInv, MigType
  <2>2. CASE Begin(p)
    <3>1. lockedBy' = p \/ (lockedBy' = lockedBy /\ phase' = [phase EXCEPT ![p] = "begun"])
      BY <2>2 DEF Begin
    <3>2. \A q \in Processes : q # p /\ lockedBy = q => lockedBy' = q
      BY <2>2 DEF Begin, LockFree, PlainMigrations
    <3>3. gate' = [gate EXCEPT ![p] = "running"] /\ UNCHANGED <<ledger, seen, added, early>>
      BY <2>1, <2>2 DEF Begin
    <3>4. \E s \in {"begun", "locked"} : phase' = [phase EXCEPT ![p] = s] /\ (s = "locked" => lockedBy' = p)
      BY <2>2 DEF Begin
    <3>. QED  BY <3>2, <3>3, <3>4, Aside
  <2>3. CASE Lock(p)
    <3>1. \A q \in Processes : q # p /\ lockedBy = q => lockedBy' = q
      BY <2>3 DEF Lock, LockFree, PlainMigrations
    <3>2. \E g \in {"running", "open", "failed", "due"} : g = gate[p] /\ gate' = [gate EXCEPT ![p] = g]
      BY <2>1, <2>3 DEF Lock
    <3>. QED  BY <2>3, <3>1, <3>2, Aside DEF Lock
  <2>4. CASE Fails(p)
    BY <2>4, Aside DEF Fails
  <2>5. CASE Dies(p)
    BY <2>5, Aside DEF Dies
  <2>6. CASE WaitEnds(p)
    BY <2>6 DEF WaitEnds, MigInv, MigType, InOrder, Whole, HasLock, ReadsStand, OpenIsThere
  <2>. QED  BY <1>1, <2>2, <2>3, <2>4, <2>5, <2>6
<1>2. CASE UNCHANGED migVars
  BY <1>2 DEF migVars, MigInv, MigType, InOrder, Whole, HasLock, ReadsStand, OpenIsThere
<1>. QED
  BY <1>1, <1>2, ReadLedgerKeeps, ApplyKeeps, CommitKeeps, CallsKeep DEF MigNext

\* The schema moves on in order, all of a run or none of it, and is there before the calls
\* that need it (runner.ts:98 and 171).
THEOREM SchemaMovesOn ==
  ASSUME PlainMigrations
  PROVE  MigSpec => []SchemaInOrder
<1>1. MigInit => MigInv
  BY MigStarts
<1>2. MigInv /\ [MigNext]_migVars => MigInv'
  BY MigStays
<1>3. MigInv => SchemaInOrder
  <2>1. Whole => \E p \in Processes : Len(ledger) \in {0, Releases[p]}
    BY DEF PlainMigrations, Whole
  <2>. QED  BY <2>1 DEF MigInv, InOrder, SchemaInOrder
<1>. QED  BY <1>1, <1>2, <1>3, PTL DEF MigSpec

-----------------------------------------------------------------------------
(* The thread's rows *)

\* A bounded set of naturals has a highest member.  The strict subsets of a finite set are
\* well-founded: of the sets of what is not below some member, one has none of them in it.
LEMMA MaxOfBounded ==
  ASSUME NEW S \in SUBSET Nat, S # {}, NEW n \in Nat, \A x \in S : x <= n
  PROVE  Max(S) \in S /\ \A x \in S : x <= Max(S)
<1>. DEFINE From(m) == {x \in S : x >= m}
            T == {From(m) : m \in S}
            R == StrictSubsetOrdering(S)
<1>1. T \subseteq FiniteSubsetsOf(S) /\ T # {}
  <2>1. IsFiniteSet(S)
    BY FS_BoundedSetOfNaturals
  <2>2. ASSUME NEW m \in S PROVE From(m) \in SUBSET S /\ IsFiniteSet(From(m))
    BY <2>1, FS_Subset
  <2>. QED  BY <2>2 DEF FiniteSubsetsOf
<1>2. IsWellFoundedOn(R, FiniteSubsetsOf(S))
  BY FS_StrictSubsetOrderingWellFounded
<1>3. PICK U \in T : \A V \in T : <<V, U>> \notin R
  <2>. HIDE DEF T, R
  <2>. QED  BY <1>1, <1>2, WFMin
<1>4. PICK m \in S : U = From(m)
  OBVIOUS
<1>5. ASSUME NEW x \in S, x > m PROVE FALSE
  <2>1. From(x) \subseteq From(m) /\ m \in From(m) /\ m \notin From(x)
    <3>1. m \in Nat /\ x \in Nat /\ ~(m >= x) /\ m >= m
      BY <1>5
    <3>2. \A y \in S : y >= x => y >= m
      BY <1>5
    <3>. QED  BY <3>1, <3>2
  <2>2. <<From(x), U>> \in R
    BY <1>4, <2>1 DEF StrictSubsetOrdering
  <2>. QED  BY <1>3, <2>2
<1>6. \E z \in S : \A x \in S : z >= x
  BY <1>5
<1>7. Max(S) \in S /\ \A x \in S : Max(S) >= x
  BY <1>6 DEF Max
<1>. QED  BY <1>7

Kinds == {Old, Kept, Ended, "app"}

Steps == {"new", "claimed", "installed", "turn", "turned", "queued", "over"} \cup InSegment

\* The record, the appends and the rest have their types.  Only the two first entries are old.
RecordType ==
  /\ entries \in SUBSET [seq : Nat, type : Kinds, run : Runs \cup {0}]
  /\ \E n \in Nat : \A e \in entries : e.seq <= n
  /\ \A e \in entries : e.type = Old => e.seq <= 2
  /\ highest \in Nat

WriterType ==
  writer \in [Writers -> [at : {"idle", "top", "done", "threw"}, top : Nat, tries : Nat,
                         type : Kinds \ {Old}, run : Runs \cup {0}]]

\* Until the newest entry goes, the record holds the highest seq given and, above the top an
\* append has read, every seq up to it.
SeqsHold ==
  /\ ~again
  /\ highest # 0 =>
       /\ highest >= 2
       /\ \E e \in entries : e.seq = highest
       /\ \A e \in entries : e.seq <= highest
       /\ \A w \in Writers : writer[w].at = "top" =>
            /\ writer[w].top \in 2..highest
            /\ \A n \in Nat : writer[w].top < n /\ n <= highest => \E e \in entries : e.seq = n

RecordInv ==
  /\ RecordType /\ WriterType /\ SeqsHold /\ OneEntryPerSeq
  /\ \A e \in pruning : e.type = Old

-----------------------------------------------------------------------------

\* The highest seq is one no entry of the record is above.
LEMMA TopBounds ==
  ASSUME RecordType
  PROVE  /\ TopOf(entries) \in Nat
         /\ \A e \in entries : e.seq <= TopOf(entries)
         /\ TopOf(entries) = 0 \/ \E e \in entries : e.seq = TopOf(entries)
<1>. DEFINE S == {e.seq : e \in entries} \cup {0}
<1>1. PICK n \in Nat : \A e \in entries : e.seq <= n
  BY DEF RecordType
<1>2. S \in SUBSET Nat /\ S # {} /\ \A x \in S : x <= n
  BY <1>1 DEF RecordType
<1>3. Max(S) \in S /\ \A x \in S : x <= Max(S)
  <2>. HIDE DEF S
  <2>. QED  BY <1>2, MaxOfBounded
<1>4. TopOf(entries) = Max(S)
  BY DEF TopOf
<1>5. \A e \in entries : e.seq \in S
  OBVIOUS
<1>. QED  BY <1>2, <1>3, <1>4, <1>5

\* While the newest entry is there, the highest seq is its.
LEMMA TopIsHighest ==
  ASSUME RecordType, SeqsHold, highest # 0
  PROVE  TopOf(entries) = highest
<1>1. /\ TopOf(entries) \in Nat
      /\ \A e \in entries : e.seq <= TopOf(entries)
      /\ TopOf(entries) = 0 \/ \E e \in entries : e.seq = TopOf(entries)
  BY TopBounds
<1>2. PICK e \in entries : e.seq = highest
  BY DEF SeqsHold
<1>3. highest \in Nat /\ highest <= TopOf(entries) /\ \A x \in entries : x.seq <= highest
  BY <1>1, <1>2 DEF RecordType, SeqsHold
<1>. QED  BY <1>1, <1>3

LEMMA HigherOf == ASSUME NEW m \in Nat, NEW n \in Nat PROVE Max({m, n}) = IF m < n THEN n ELSE m
<1>. DEFINE S == {m, n}
<1>1. S \in SUBSET Nat /\ S # {} /\ m + n \in Nat /\ \A x \in S : x <= m + n
  OBVIOUS
<1>2. Max(S) \in S /\ \A x \in S : x <= Max(S)
  <2>. HIDE DEF S
  <2>. QED  BY <1>1, MaxOfBounded
<1>. QED  BY <1>2

\* An entry put at a seq that is free, the next one while the newest entry is there, leaves one
\* entry per seq and repeats none.
LEMMA PutKeeps ==
  ASSUME RecordType, SeqsHold, OneEntryPerSeq,
         NEW s \in Nat, NEW type \in Kinds \ {Old}, NEW r \in Runs \cup {0},
         \A e \in entries : e.seq # s, highest # 0 => s = highest + 1, Put(s, type, r)
  PROVE  /\ RecordType' /\ OneEntryPerSeq' /\ ~again'
         /\ entries \subseteq entries'
         /\ \A e \in entries' \ entries : e.run = r
         /\ \E e \in entries' : e.type = type /\ e.run = r /\ e.seq = s
         /\ highest = 0 => highest' = 0
         /\ highest # 0 => highest' = highest + 1
<1>. DEFINE new == [seq |-> s, type |-> type, run |-> r]
<1>1. entries' = entries \cup {new}
  BY DEF Put
<1>2. new \in [seq : Nat, type : Kinds, run : Runs \cup {0}] /\ new.seq = s
      /\ new.type = type /\ new.run = r
  OBVIOUS
<1>3. highest \in Nat /\ ~again
  BY DEF RecordType, SeqsHold
<1>4. highest = 0 => highest' = 0 /\ ~again'
  BY <1>3 DEF Put
<1>5. highest # 0 => highest' = highest + 1 /\ ~again'
  <2>1. highest # 0 => Max({highest, s}) = highest + 1 /\ ~(s <= highest)
    BY <1>3, HigherOf
  <2>. QED  BY <1>3, <2>1 DEF Put
<1>6. RecordType'
  <2>1. entries' \in SUBSET [seq : Nat, type : Kinds, run : Runs \cup {0}]
    BY <1>1, <1>2 DEF RecordType
  <2>2. PICK n \in Nat : \A e \in entries : e.seq <= n
    BY DEF RecordType
  <2>3. \A e \in entries' : e.seq <= n + s
    <3>1. \A e \in entries : e.seq \in Nat
      BY DEF RecordType
    <3>. QED  BY <1>1, <1>2, <2>2, <3>1
  <2>4. n + s \in Nat /\ \A e \in entries' : e.type = Old => e.seq <= 2
    BY <1>1, <1>2 DEF RecordType
  <2>. QED  BY <1>3, <1>4, <1>5, <2>1, <2>3, <2>4 DEF RecordType
<1>7. OneEntryPerSeq'
  BY <1>1, <1>2 DEF OneEntryPerSeq
<1>8. (\A e \in entries' \ entries : e.run = r) /\ new \in entries'
  BY <1>1, <1>2
<1>. QED  BY <1>1, <1>2, <1>4, <1>5, <1>6, <1>7, <1>8

\* What a put or a read of the top does to the appends keeps what SeqsHold says of them.
LEMMA SeqsStand ==
  ASSUME RecordInv, RecordType', WriterType', ~again', NEW w \in Writers,
         \/ UNCHANGED <<entries, highest>>
         \/ /\ entries \subseteq entries'
            /\ highest = 0 => highest' = 0
            /\ highest # 0 => highest' = highest + 1 /\ \E e \in entries' : e.seq = highest + 1
            /\ highest # 0 => \A e \in entries' : e.seq <= highest + 1,
         \A u \in Writers \ {w} : writer'[u] = writer[u],
         writer'[w].at = "top" => UNCHANGED <<entries, highest>> /\ writer'[w].top = TopOf(entries)
  PROVE  SeqsHold'
<1>1. CASE UNCHANGED <<entries, highest>>
  <2>1. SUFFICES ASSUME highest # 0, NEW u \in Writers, writer'[u].at = "top"
                 PROVE  /\ writer'[u].top \in 2..highest
                        /\ \A n \in Nat : writer'[u].top < n /\ n <= highest => \E e \in entries : e.seq = n
    BY <1>1 DEF SeqsHold, RecordInv
  <2>2. CASE u = w
    <3>1. writer'[u].top = highest
      BY <2>1, <2>2, TopIsHighest DEF RecordInv
    <3>. QED  BY <2>1, <3>1 DEF RecordInv, RecordType, SeqsHold
  <2>3. CASE u # w
    BY <2>1, <2>3 DEF RecordInv, SeqsHold
  <2>. QED  BY <2>2, <2>3
<1>2. CASE ~UNCHANGED <<entries, highest>>
  <2>1. writer'[w].at # "top" /\ highest \in Nat
    BY <1>2 DEF RecordInv, RecordType
  <2>2. SUFFICES ASSUME highest # 0, highest' = highest + 1
                 PROVE  SeqsHold'
    BY <1>2 DEF SeqsHold
  <2>3. ASSUME NEW u \in Writers, writer'[u].at = "top"
        PROVE  /\ writer'[u].top \in 2..highest'
               /\ \A n \in Nat : writer'[u].top < n /\ n <= highest' => \E e \in entries' : e.seq = n
    <3>1. u # w /\ writer'[u] = writer[u]
      BY <2>1, <2>3
    <3>2. /\ writer[u].top \in 2..highest
          /\ \A n \in Nat : writer[u].top < n /\ n <= highest => \E e \in entries : e.seq = n
      BY <2>2, <2>3, <3>1 DEF RecordInv, SeqsHold
    <3>3. \A n \in Nat : n <= highest + 1 => n <= highest \/ n = highest + 1
      BY <2>1
    <3>4. writer'[u].top \in 2..highest'
      BY <2>1, <2>2, <3>1, <3>2
    <3>5. ASSUME NEW n \in Nat, writer'[u].top < n, n <= highest' PROVE \E e \in entries' : e.seq = n
      <4>1. CASE n <= highest
        <5>1. PICK e \in entries : e.seq = n
          BY <3>1, <3>2, <3>5, <4>1
        <5>. QED  BY <1>2, <5>1
      <4>2. CASE n = highest + 1
        BY <1>2, <2>2, <4>2
      <4>. QED  BY <2>2, <3>3, <3>5, <4>1, <4>2
    <3>. QED  BY <3>4, <3>5
  <2>4. highest' >= 2 /\ (\E e \in entries' : e.seq = highest') /\ \A e \in entries' : e.seq <= highest'
    BY <1>2, <2>1, <2>2 DEF RecordInv, SeqsHold
  <2>. QED  BY <2>3, <2>4 DEF SeqsHold
<1>. QED  BY <1>1, <1>2

\* An append puts its entry above the record, or has read the top it will put it on.
LEMMA AppendsKeep ==
  ASSUME RecordInv, NEW w \in Writers, NEW type \in Kinds \ {Old}, NEW r \in Runs \cup {0},
         Appends(w, type, r)
  PROVE  /\ RecordType' /\ WriterType' /\ SeqsHold' /\ OneEntryPerSeq'
         /\ entries \subseteq entries'
         /\ \A e \in entries' \ entries : e.run = r
         /\ db = "prisma" => entries' = entries
         /\ \A u \in Writers \ {w} : writer'[u] = writer[u]
         /\ writer'[w].at \in {"top", "done"}
         /\ writer'[w].at = "top" => writer'[w].type = type /\ writer'[w].run = r
         /\ writer'[w].at = "done" => \E e \in entries' : e.type = type /\ e.run = r
<1>1. /\ TopOf(entries) \in Nat /\ \A e \in entries : e.seq <= TopOf(entries)
      /\ highest # 0 => TopOf(entries) = highest
  BY TopBounds, TopIsHighest DEF RecordInv
<1>2. CASE AppendsAtOnce(w, type, r) /\ db # "prisma"
  <2>1. TopOf(entries) + 1 \in Nat /\ \A e \in entries : e.seq # TopOf(entries) + 1
    BY <1>1 DEF RecordInv, RecordType
  <2>2. Put(TopOf(entries) + 1, type, r)
    BY <1>2 DEF AppendsAtOnce
  <2>3. /\ RecordType' /\ OneEntryPerSeq' /\ ~again' /\ entries \subseteq entries'
        /\ \A e \in entries' \ entries : e.run = r
        /\ \E e \in entries' : e.type = type /\ e.run = r /\ e.seq = TopOf(entries) + 1
        /\ highest = 0 => highest' = 0
        /\ highest # 0 => highest' = highest + 1
    BY <1>1, <2>1, <2>2, PutKeeps DEF RecordInv
  <2>4. /\ WriterType' /\ writer'[w].at = "done"
        /\ \A u \in Writers \ {w} : writer'[u] = writer[u]
    BY <1>2 DEF AppendsAtOnce, RecordInv, WriterType, NoWriter, Kinds, Old, Kept, Ended
  <2>5. highest # 0 => \A e \in entries' : e.seq <= highest + 1
    BY <1>1, <2>2 DEF Put, RecordInv, RecordType
  <2>6. SeqsHold'
    BY <1>1, <2>3, <2>4, <2>5, SeqsStand
  <2>. QED  BY <1>2, <2>3, <2>4, <2>6
<1>3. CASE PrismaAppends(w, type, r)
  <2>1. /\ WriterType' /\ writer'[w].at = "top" /\ writer'[w].type = type /\ writer'[w].run = r
        /\ writer'[w].top = TopOf(entries)
        /\ \A u \in Writers \ {w} : writer'[u] = writer[u]
    BY <1>1, <1>3 DEF PrismaAppends, RecordInv, WriterType
  <2>2. RecordType' /\ OneEntryPerSeq' /\ ~again' /\ UNCHANGED <<entries, highest>>
    BY <1>3 DEF PrismaAppends, RecordInv, RecordType, OneEntryPerSeq, SeqsHold
  <2>3. SeqsHold'
    BY <2>1, <2>2, SeqsStand
  <2>. QED  BY <2>1, <2>2, <2>3
<1>. QED  BY <1>2, <1>3 DEF Appends, MemoryAppends, SqliteAppends

\* An insert puts the entry above the top that was read, if its seq is free and the thread is there.
LEMMA InsertsKeep ==
  ASSUME RecordInv, NEW w \in Writers, Inserts(w)
  PROVE  /\ RecordType' /\ WriterType' /\ SeqsHold' /\ OneEntryPerSeq'
         /\ entries \subseteq entries'
         /\ ~row.there => entries' = entries
         /\ \A u \in Writers \ {w} : writer'[u] = writer[u]
         /\ writer'[w].at \in {"top", "done", "threw"}
         /\ writer'[w].at = "top" => writer'[w].type = writer[w].type /\ writer'[w].run = writer[w].run
         /\ writer'[w].at = "done" =>
              \E e \in entries' : e.type = writer[w].type /\ e.run = writer[w].run
<1>. DEFINE me == writer[w]
            taken == \E e \in entries : e.seq = me.top + 1
<1>1. me.top \in Nat /\ me.top + 1 \in Nat /\ me.type \in Kinds \ {Old} /\ me.run \in Runs \cup {0}
      /\ me.at = "top"
  BY DEF RecordInv, WriterType, Inserts
<1>2. TopOf(entries) \in Nat
  BY TopBounds DEF RecordInv
<1>3. CASE ~row.there \/ (taken /\ me.tries = Tries)
  <2>1. writer' = [writer EXCEPT ![w] = [NoWriter EXCEPT !.at = "threw"]]
        /\ UNCHANGED <<entries, highest, again>>
    BY <1>3 DEF Inserts
  <2>2. WriterType' /\ writer'[w].at = "threw" /\ \A u \in Writers \ {w} : writer'[u] = writer[u]
    BY <2>1 DEF RecordInv, WriterType, NoWriter, Kinds, Old, Kept, Ended
  <2>3. RecordType' /\ OneEntryPerSeq' /\ ~again'
    BY <2>1 DEF RecordInv, RecordType, OneEntryPerSeq, SeqsHold
  <2>. QED  BY <2>1, <2>2, <2>3, SeqsStand
<1>4. CASE row.there /\ taken /\ me.tries # Tries
  <2>1. writer' = [writer EXCEPT ![w].top = TopOf(entries), ![w].tries = @ + 1]
        /\ UNCHANGED <<entries, highest, again>>
    BY <1>4 DEF Inserts
  <2>2. /\ WriterType' /\ \A u \in Writers \ {w} : writer'[u] = writer[u]
        /\ writer'[w].at = "top" /\ writer'[w].top = TopOf(entries)
        /\ writer'[w].type = me.type /\ writer'[w].run = me.run
    BY <1>1, <1>2, <2>1 DEF RecordInv, WriterType
  <2>3. RecordType' /\ OneEntryPerSeq' /\ ~again'
    BY <2>1 DEF RecordInv, RecordType, OneEntryPerSeq, SeqsHold
  <2>. QED  BY <1>4, <2>1, <2>2, <2>3, SeqsStand
<1>5. CASE row.there /\ ~taken
  <2>1. writer' = [writer EXCEPT ![w] = [NoWriter EXCEPT !.at = "done"]]
        /\ Put(me.top + 1, me.type, me.run)
    BY <1>5 DEF Inserts
  <2>2. ASSUME highest # 0 PROVE me.top + 1 = highest + 1
    <3>1. /\ highest \in Nat /\ me.top <= highest
          /\ \A n \in Nat : me.top < n /\ n <= highest => \E e \in entries : e.seq = n
      BY <1>1, <2>2 DEF RecordInv, SeqsHold, RecordType
    <3>2. ~(me.top + 1 <= highest)
      <4>1. me.top < me.top + 1
        BY <1>1
      <4>. QED  BY <1>1, <1>5, <3>1, <4>1
    <3>. QED  BY <1>1, <3>1, <3>2
  <2>3. /\ RecordType' /\ OneEntryPerSeq' /\ ~again' /\ entries \subseteq entries'
        /\ \E e \in entries' : e.type = me.type /\ e.run = me.run /\ e.seq = me.top + 1
        /\ highest = 0 => highest' = 0
        /\ highest # 0 => highest' = highest + 1
    <3>. HIDE DEF me
    <3>. QED  BY <1>1, <1>5, <2>1, <2>2, PutKeeps DEF RecordInv
  <2>4. WriterType' /\ writer'[w].at = "done" /\ \A u \in Writers \ {w} : writer'[u] = writer[u]
    BY <2>1 DEF RecordInv, WriterType, NoWriter, Kinds, Old, Kept, Ended
  <2>5. highest # 0 => \A e \in entries' : e.seq <= highest + 1
    BY <1>1, <2>1, <2>2 DEF Put, RecordInv, RecordType, SeqsHold
  <2>6. SeqsHold'
    BY <2>2, <2>3, <2>4, <2>5, SeqsStand
  <2>. QED  BY <1>5, <2>3, <2>4, <2>6
<1>. QED  BY <1>3, <1>4, <1>5

\* Rows that are old or all there are may go: the record then starts over, or its newest entry stays.
LEMMA TakesKeep ==
  ASSUME RecordInv, NEW some, Takes(some), UNCHANGED <<writer, again>>,
         some = entries \/ \A e \in some : e.type = Old
  PROVE  RecordType' /\ WriterType' /\ SeqsHold' /\ OneEntryPerSeq'
<1>1. entries' = entries \ some /\ highest' \in {0, highest}
      /\ (highest' # 0 => \E e \in entries' : e.seq = highest)
  BY DEF Takes
<1>2. RecordType' /\ WriterType' /\ OneEntryPerSeq'
  BY <1>1 DEF RecordInv, RecordType, WriterType, OneEntryPerSeq
<1>3. ASSUME highest' # 0 PROVE SeqsHold'
  <2>1. highest' = highest /\ highest # 0
    BY <1>1, <1>3
  <2>2. \A e \in entries \ entries' : e.type = Old /\ e.seq <= 2
    BY <1>1, <1>3 DEF RecordInv, RecordType
  <2>3. ASSUME NEW w \in Writers, writer[w].at = "top", NEW n \in Nat, writer[w].top < n, n <= highest
        PROVE  \E e \in entries' : e.seq = n
    <3>1. writer[w].top \in 2..highest /\ \E e \in entries : e.seq = n
      BY <2>1, <2>3 DEF RecordInv, SeqsHold
    <3>2. ~(n <= 2)
      BY <2>3, <3>1 DEF RecordInv, RecordType
    <3>. QED  BY <2>2, <3>1, <3>2
  <2>. QED  BY <1>1, <1>3, <2>1, <2>3 DEF RecordInv, SeqsHold
<1>4. ASSUME highest' = 0 PROVE SeqsHold'
  <2>1. ~again'
    BY DEF RecordInv, SeqsHold
  <2>. QED  BY <1>4, <2>1 DEF SeqsHold
<1>. QED  BY <1>2, <1>3, <1>4

\* An append that has come back is forgotten.
LEMMA ReturnsKeep ==
  ASSUME RecordInv, NEW w \in Writers, Returns(w), UNCHANGED <<entries, highest, again>>
  PROVE  /\ RecordType' /\ WriterType' /\ SeqsHold' /\ OneEntryPerSeq'
         /\ writer'[w].at = "idle"
         /\ \A u \in Writers \ {w} : writer'[u] = writer[u]
<1>1. /\ WriterType' /\ writer'[w].at = "idle"
      /\ \A u \in Writers \ {w} : writer'[u] = writer[u]
  BY DEF Returns, RecordInv, WriterType, NoWriter, Kinds, Old, Kept, Ended
<1>2. RecordType' /\ OneEntryPerSeq' /\ ~again'
  BY DEF RecordInv, RecordType, OneEntryPerSeq, SeqsHold
<1>. QED  BY <1>1, <1>2, SeqsStand

\* A batch is of old rows.
LEMMA BatchIsOld == \A some \in Batches : \A e \in some : e.type = Old
  BY DEF Batches, Prunable

LEMMA RecordStarts == Init => RecordInv
<1>. SUFFICES ASSUME Init PROVE RecordInv
  OBVIOUS
<1>1. PICK types \in [1..2 -> {Old, Kept}] :
        entries = {[seq |-> i, type |-> types[i], run |-> 0] : i \in 1..2}
  BY DEF Init
<1>2. RecordType /\ OneEntryPerSeq /\ \A e \in entries : e.seq <= 2
  <2>1. \A e \in entries : e.seq <= 2
    BY <1>1
  <2>2. entries \in SUBSET [seq : Nat, type : Kinds, run : Runs \cup {0}] /\ OneEntryPerSeq
    BY <1>1 DEF Kinds, OneEntryPerSeq
  <2>. QED  BY <2>1, <2>2 DEF RecordType, Init
<1>3. \E e \in entries : e.seq = 2
  <2>1. 2 \in 1..2 /\ [seq |-> 2, type |-> types[2], run |-> 0].seq = 2
    OBVIOUS
  <2>. QED  BY <1>1, <2>1
<1>4. WriterType /\ SeqsHold
  BY <1>2, <1>3 DEF Init, WriterType, SeqsHold, NoWriter, Kinds, Old, Kept, Ended
<1>. QED  BY <1>2, <1>4 DEF RecordInv, Init

\* The worker's appends are of its run; the app's are its own.
LEMMA RecordStays == ASSUME 0 \notin Runs, RecordInv, [Next]_vars PROVE RecordInv'
<1>0. "worker" \in Writers /\ "app" \in Writers /\ "app" \in Kinds \ {Old} /\ Kept \in Kinds \ {Old}
      /\ Ended \in Kinds \ {Old}
  BY DEF Writers, Kinds, Old, Kept, Ended
<1>1. CASE UNCHANGED <<entries, highest, again, writer, pruning>>
  BY <1>1 DEF RecordInv, RecordType, WriterType, SeqsHold, OneEntryPerSeq
<1>2. ASSUME NEW w \in Writers, Inserts(w) PROVE RecordInv'
  <2>1. UNCHANGED pruning
    BY <1>2 DEF Inserts
  <2>2. RecordType' /\ WriterType' /\ SeqsHold' /\ OneEntryPerSeq'
    BY <1>2, InsertsKeep
  <2>. QED  BY <2>1, <2>2 DEF RecordInv
<1>3. CASE Publishes
  BY <1>0, <1>3, AppendsKeep DEF RecordInv, Publishes
<1>4. CASE AppReturns
  BY <1>0, <1>4, ReturnsKeep DEF RecordInv, AppReturns, store, marks
<1>5. CASE Prunes
  <2>1. CASE MemoryPrunes
    BY <1>5, <2>1, TakesKeep, BatchIsOld DEF RecordInv, Prunes, MemoryPrunes
  <2>2. CASE SqlitePrunes \/ PrismaPrunes
    BY <1>5, <2>2, BatchIsOld DEF Prunes, SqlitePrunes, PrismaPrunes, RecordInv, RecordType, WriterType,
       SeqsHold, OneEntryPerSeq
  <2>. QED  BY <1>5, <2>1, <2>2 DEF Prunes
<1>6. CASE PruneDeletes
  BY <1>6, TakesKeep DEF RecordInv, PruneDeletes
<1>7. CASE Cascades
  <2>1. Takes(entries) /\ UNCHANGED <<writer, again, pruning>>
    BY <1>7 DEF Cascades, MemoryDeletes, SqliteDeletes, PrismaDeletes, Cascade
  <2>. QED  BY <2>1, TakesKeep DEF RecordInv
<1>8. ASSUME NEW r \in Runs, Opens(r) PROVE RecordInv'
  BY <1>0, <1>8, AppendsKeep DEF RecordInv, Opens
<1>9. ASSUME NEW r \in Runs, Goes(r) PROVE RecordInv'
  BY <1>0, <1>9, ReturnsKeep DEF RecordInv, Goes
<1>10. ASSUME NEW r \in Runs, Closes(r) PROVE RecordInv'
  BY <1>0, <1>1, <1>10, AppendsKeep DEF RecordInv, Closes
<1>11. ASSUME NEW r \in Runs, Finishes(r) PROVE RecordInv'
  BY <1>0, <1>11, ReturnsKeep DEF RecordInv, Finishes, store, marks
<1>12. ASSUME NEW r \in Runs, Claims(r) \/ Installs(r) \/ Checks(r) \/ SavesTurn(r) \/ Skips(r) \/ Begins(r)
                              \/ Ends(r)
       PROVE  RecordInv'
  BY <1>1, <1>12 DEF Claims, Installs, Checks, SavesTurn, Skips, Begins, Ends, marks
<1>13. CASE Stops \/ StopWrites \/ Deletes \/ ClosesRecords \/ NamesStreams \/ DeletesRest \/ DeleteDies
  BY <1>1, <1>13 DEF Stops, StopWrites, Deletes, ClosesRecords, NamesStreams, DeletesRest, DeleteDies,
     store, marks
<1>14. CASE UNCHANGED vars
  BY <1>1, <1>14 DEF vars, store, marks
<1>. QED
  BY <1>2, <1>3, <1>4, <1>5, <1>6, <1>7, <1>8, <1>9, <1>10, <1>11, <1>12, <1>13, <1>14 DEF Next

-----------------------------------------------------------------------------

RunType ==
  /\ row \in [there : BOOLEAN, state : {"IDLE", "ENDED"} \cup Active, run : Runs \cup {0}]
  /\ records \in [Runs -> {"none", "open", "closed"}]
  /\ at \in [Runs -> Steps]
  /\ stopping \in Runs \cup {0}
  /\ streams \subseteq Runs /\ late \subseteq Runs

\* A delete has looked at the thread's state and has not died since.
Looked == deleting \in {"records", "streams", "cascade", "rest", "deleted"}

\* Whoever is at work after the delete looked is late, the run of a thread in use among them.
UseHolds ==
  /\ deleting \in {"records", "streams", "cascade"} => row.there
  /\ deleting \in {"rest", "deleted"} => ~row.there
  /\ Looked =>
       /\ \A r \in Runs : AtWork(r) \/ stopping = r => r \in late
       /\ row.there /\ row.state \in Active => row.run \in late

\* The record names the run's stream.
Named(r) == \E e \in entries : e.type = Kept /\ e.run = r

\* One run is in its segment, and while its stream is not named the append that will is its own.
SegmentHolds ==
  /\ \A r, s \in Runs : at[r] \in InSegment /\ at[s] \in InSegment => r = s
  /\ \A r \in Runs : at[r] = "opened" =>
       /\ writer["worker"].at \in {"top", "done", "threw"}
       /\ writer["worker"].at = "top" => writer["worker"].run = r /\ writer["worker"].type = Kept
       /\ writer["worker"].at = "done" /\ row.there => Named(r)

StreamsHold ==
  row.there => \A r \in streams : Named(r) \/ r \in unnamed \/ at[r] = "opened"

\* What is left of the thread, from the read of the record on, is of late runs.
GoneHolds ==
  /\ deleting \in {"cascade", "rest"} => streams \subseteq named \cup late \cup unnamed
  /\ deleting \in {"rest", "deleted"} =>
       /\ {e.run : e \in entries} \cup messages \cup bills \subseteq late
       /\ db = "prisma" => entries = {} /\ messages = {} /\ bills = {}
  /\ deleting = "deleted" =>
       /\ streams \subseteq late \cup unnamed
       /\ hot \subseteq late
       /\ \A r \in Runs : records[r] # "none" => r \in late

ThreadInv == RecordInv /\ RunType /\ UseHolds /\ SegmentHolds /\ StreamsHold /\ GoneHolds

-----------------------------------------------------------------------------

LEMMA ThreadStarts == Init => ThreadInv
<1>. SUFFICES ASSUME Init PROVE ThreadInv
  OBVIOUS
<1>1. RunType
  BY DEF Init, RunType, Steps
<1>2. UseHolds /\ SegmentHolds /\ StreamsHold /\ GoneHolds
  BY DEF Init, UseHolds, SegmentHolds, StreamsHold, GoneHolds, Looked, InSegment
<1>. QED  BY <1>1, <1>2, RecordStarts DEF ThreadInv

LEMMA TypesStay == ASSUME RunType, [Next]_vars PROVE RunType'
<1>1. CASE UNCHANGED <<row, records, at, stopping, streams, late>>
  BY <1>1 DEF RunType
<1>2. ASSUME NEW r \in Runs, Claims(r) PROVE RunType'
  BY <1>2 DEF Moves, MemoryMoves, SqliteMoves, PrismaMoves, Transition,
       RunType, Claims, Steps, Active
<1>3. ASSUME NEW r \in Runs, Installs(r) \/ Checks(r) \/ SavesTurn(r) \/ Skips(r) PROVE RunType'
  BY <1>3 DEF RunType, Installs, Checks, SavesTurn, Skips, Steps, Closed, marks
<1>4. ASSUME NEW r \in Runs, Begins(r) PROVE RunType'
  BY <1>4 DEF Moves, MemoryMoves, SqliteMoves, PrismaMoves, Transition,
       RunType, Begins, Steps, InSegment, Active, marks
<1>5. ASSUME NEW r \in Runs, Opens(r) \/ Goes(r) \/ Closes(r) \/ Finishes(r) PROVE RunType'
  BY <1>5 DEF RunType, Opens, Goes, Closes, Finishes, Steps, InSegment, Closed, store, marks
<1>6. ASSUME NEW r \in Runs, Ends(r) PROVE RunType'
  <2>1. CASE Has(r, "RUNNING")
    BY <1>6, <2>1 DEF Moves, MemoryMoves, SqliteMoves, PrismaMoves, Transition,
       RunType, Ends, Steps, InSegment, marks
  <2>2. CASE ~Has(r, "RUNNING")
    BY <1>6, <2>2 DEF RunType, Ends, Steps, InSegment, marks
  <2>. QED  BY <2>1, <2>2
<1>7. CASE Stops \/ StopWrites
  BY <1>7 DEF RunType, Stops, StopWrites, Closed, marks
<1>8. CASE Deletes \/ ClosesRecords \/ NamesStreams \/ DeletesRest \/ DeleteDies
  BY <1>8 DEF RunType, Deletes, ClosesRecords, NamesStreams, DeletesRest, DeleteDies, store, marks
<1>9. CASE Cascades
  BY <1>9 DEF RunType, Cascades, MemoryDeletes, SqliteDeletes, PrismaDeletes, Cascade
<1>10. CASE (\E w \in Writers : Inserts(w)) \/ Publishes \/ AppReturns \/ Prunes \/ PruneDeletes \/ UNCHANGED vars
  BY <1>1, <1>10 DEF Inserts, Publishes, AppReturns, Prunes, PruneDeletes, vars, store, marks
<1>. QED  BY <1>2, <1>3, <1>4, <1>5, <1>6, <1>7, <1>8, <1>9, <1>10 DEF Next

\* A run comes to work on a thread that is there, and it is then the thread's.
LEMMA UseStays == ASSUME 0 \notin Runs, ThreadInv, [Next]_vars PROVE UseHolds'
<1>0. RunType /\ UseHolds
  BY DEF ThreadInv
<1>1. CASE UNCHANGED <<row, at, stopping, late>> /\ (deleting' = deleting \/ deleting' = "no")
  BY <1>0, <1>1 DEF UseHolds, Looked, AtWork
<1>2. ASSUME NEW r \in Runs, Claims(r) PROVE UseHolds'
  <2>1. /\ row.there /\ row'.there /\ row'.run = r
        /\ deleting \notin {"rest", "deleted"}
    BY <1>0, <1>2 DEF Moves, MemoryMoves, SqliteMoves, PrismaMoves, Transition,
       RunType, UseHolds, Claims
  <2>2. CASE Midway
    BY <1>0, <1>2, <2>1, <2>2 DEF RunType, UseHolds, Looked, Claims, AtWork, Midway
  <2>3. CASE ~Midway
    BY <1>2, <2>1, <2>3 DEF UseHolds, Looked, Claims, Midway
  <2>. QED  BY <2>2, <2>3
<1>3. ASSUME NEW r \in Runs, Installs(r) \/ Checks(r) \/ SavesTurn(r) \/ Skips(r) \/ Opens(r) \/ Goes(r)
                             \/ Closes(r) \/ Finishes(r)
      PROVE  UseHolds'
  <2>1. /\ UNCHANGED <<row, stopping, late, deleting>>
        /\ \A s \in Runs \ {r} : at'[s] = at[s]
        /\ AtWork(r) \/ at'[r] = "over"
    BY <1>0, <1>3 DEF RunType, Installs, Checks, SavesTurn, Skips, Opens, Goes, Closes, Finishes, AtWork,
       store, marks
  <2>. QED  BY <1>0, <2>1 DEF UseHolds, Looked, AtWork
<1>4. ASSUME NEW r \in Runs, Begins(r) PROVE UseHolds'
  <2>1. /\ UNCHANGED <<stopping, late, deleting>>
        /\ \A s \in Runs \ {r} : at'[s] = at[s]
        /\ row.there /\ row.state \in Active /\ row.run \in {0, r}
        /\ row'.there /\ row'.run = r
    BY <1>0, <1>4 DEF Moves, MemoryMoves, SqliteMoves, PrismaMoves, Transition,
       RunType, Begins, Active, marks
  <2>2. Looked => r \in late
    BY <1>0, <2>1 DEF UseHolds, RunType
  <2>. QED  BY <1>0, <2>1, <2>2 DEF UseHolds, Looked, AtWork
<1>5. ASSUME NEW r \in Runs, Ends(r) PROVE UseHolds'
  <2>1. /\ UNCHANGED <<stopping, late, deleting>>
        /\ \A s \in Runs \ {r} : at'[s] = at[s]
        /\ AtWork(r)
    BY <1>0, <1>5 DEF RunType, Ends, AtWork, marks
  <2>2. row'.there = row.there /\ (row'.state \in Active => row' = row)
    <3>1. CASE Has(r, "RUNNING")
      BY <1>0, <1>5, <3>1 DEF Moves, MemoryMoves, SqliteMoves, PrismaMoves, Transition,
       Ends, RunType, Active
    <3>2. CASE ~Has(r, "RUNNING")
      BY <1>5, <3>2 DEF Ends
    <3>. QED  BY <3>1, <3>2
  <2>. QED  BY <1>0, <2>1, <2>2 DEF UseHolds, Looked, AtWork
<1>6. CASE Stops
  <2>1. /\ UNCHANGED <<at, late, deleting>> /\ stopping' = row.run
        /\ row.there /\ row.state \in Active /\ row'.there /\ row'.state = "ENDED"
    BY <1>0, <1>6 DEF RunType, Stops, marks
  <2>. QED  BY <1>0, <2>1 DEF UseHolds, Looked, AtWork, Active
<1>7. CASE StopWrites
  <2>1. UNCHANGED <<row, at, late, deleting>> /\ stopping' = 0
    BY <1>7 DEF StopWrites, marks
  <2>. QED  BY <1>0, <2>1 DEF UseHolds, Looked, AtWork
<1>8. CASE Deletes
  BY <1>8 DEF Deletes, UseHolds, Looked, AtWork, store
<1>9. CASE ClosesRecords \/ NamesStreams \/ DeletesRest
  BY <1>0, <1>9 DEF ClosesRecords, NamesStreams, DeletesRest, UseHolds, Looked, AtWork, store, marks
<1>10. CASE Cascades
  BY <1>0, <1>10 DEF Cascades, MemoryDeletes, SqliteDeletes, PrismaDeletes, Cascade, UseHolds, Looked, AtWork,
     RunType
<1>11. CASE DeleteDies
  BY <1>11 DEF DeleteDies, UseHolds, Looked
<1>12. CASE (\E w \in Writers : Inserts(w)) \/ Publishes \/ AppReturns \/ Prunes \/ PruneDeletes \/ UNCHANGED vars
  BY <1>1, <1>12 DEF Inserts, Publishes, AppReturns, Prunes, PruneDeletes, vars, store, marks
<1>. QED
  BY <1>2, <1>3, <1>4, <1>5, <1>6, <1>7, <1>8, <1>9, <1>10, <1>11, <1>12 DEF Next

\* The record only gains entries that name a stream, until it goes with the thread.
LEMMA NamesStay ==
  ASSUME ThreadInv, [Next]_vars
  PROVE  row'.there => row.there /\ \A r : Named(r) => Named(r)'
<1>1. CASE UNCHANGED <<entries, row>>
  BY <1>1 DEF Named
<1>2. CASE entries \subseteq entries' /\ row'.there = row.there
  BY <1>2 DEF Named
<1>3. CASE UNCHANGED row /\ \A e \in entries \ entries' : e.type = Old
  BY <1>3 DEF Named, Kept, Old
<1>4. ASSUME NEW r \in Runs, Claims(r) \/ Begins(r) PROVE UNCHANGED entries /\ row'.there = row.there
  BY <1>4 DEF Moves, MemoryMoves, SqliteMoves, PrismaMoves, Transition, Claims, Begins, marks,
     ThreadInv, RunType
<1>5. ASSUME NEW r \in Runs, Ends(r) PROVE UNCHANGED entries /\ row'.there = row.there
  BY <1>5 DEF Moves, MemoryMoves, SqliteMoves, PrismaMoves, Transition, Ends, marks, ThreadInv, RunType
<1>6. ASSUME NEW r \in Runs, Opens(r) \/ Closes(r) PROVE entries \subseteq entries' /\ UNCHANGED row
  BY <1>6 DEF Opens, Closes, Appends, MemoryAppends, SqliteAppends, AppendsAtOnce, PrismaAppends, Put
<1>7. ASSUME NEW w \in Writers, Inserts(w) PROVE entries \subseteq entries' /\ UNCHANGED row
  BY <1>7 DEF Inserts, Put
<1>8. CASE Publishes
  <2>1. entries \subseteq entries' /\ UNCHANGED row
    BY <1>8 DEF Publishes, Appends, MemoryAppends, SqliteAppends, AppendsAtOnce, PrismaAppends, Put
  <2>. QED  BY <1>2, <2>1
<1>9. CASE Prunes
  <2>1. UNCHANGED row /\ \A e \in entries \ entries' : e.type = Old
    BY <1>9, BatchIsOld DEF Prunes, MemoryPrunes, SqlitePrunes, PrismaPrunes, Takes
  <2>. QED  BY <1>3, <2>1
<1>10. CASE PruneDeletes
  <2>1. UNCHANGED row /\ \A e \in entries \ entries' : e.type = Old
    BY <1>10 DEF PruneDeletes, Takes, ThreadInv, RecordInv
  <2>. QED  BY <1>3, <2>1
<1>11. CASE Stops
  <2>1. UNCHANGED entries /\ row'.there = row.there
    BY <1>11 DEF Stops, ThreadInv, RunType
  <2>. QED  BY <1>2, <2>1
<1>12. CASE Cascades
  BY <1>12 DEF Cascades, MemoryDeletes, SqliteDeletes, PrismaDeletes, Cascade, ThreadInv, RunType
<1>13. ASSUME NEW r \in Runs, Installs(r) \/ Checks(r) \/ SavesTurn(r) \/ Skips(r) \/ Goes(r) \/ Finishes(r)
       PROVE  UNCHANGED <<entries, row>>
  BY <1>13 DEF Installs, Checks, SavesTurn, Skips, Goes, Finishes, store, marks
<1>14. CASE AppReturns \/ StopWrites \/ Deletes \/ ClosesRecords \/ NamesStreams \/ DeletesRest \/ DeleteDies
            \/ UNCHANGED vars
  <2>1. UNCHANGED <<entries, row>>
    BY <1>14 DEF AppReturns, StopWrites, Deletes, ClosesRecords, NamesStreams, DeletesRest, DeleteDies, vars,
       store, marks
  <2>. QED  BY <1>1, <2>1
<1>. QED
  BY <1>1, <1>2, <1>4, <1>5, <1>6, <1>7, <1>8, <1>9, <1>10, <1>11, <1>12, <1>13, <1>14 DEF Next

\* A worker picks a job up while no other is in its segment: the delete removes the lock, but
\* then the thread is gone.
LEMMA SegmentStays == ASSUME 0 \notin Runs, ThreadInv, [Next]_vars PROVE SegmentHolds'
<1>0. RunType /\ UseHolds /\ SegmentHolds /\ RecordInv /\ "worker" \in Writers
  BY DEF ThreadInv, Writers
<1>00. row'.there => row.there /\ \A r : Named(r) => Named(r)'
  BY NamesStay
<1>1. CASE UNCHANGED <<at, writer>>
  BY <1>0, <1>00, <1>1 DEF SegmentHolds
<1>2. ASSUME NEW r \in Runs, Claims(r) \/ Installs(r) \/ Checks(r) \/ SavesTurn(r) \/ Skips(r)
      PROVE  SegmentHolds'
  <2>1. /\ UNCHANGED writer /\ at'[r] \notin InSegment
        /\ \A s \in Runs \ {r} : at'[s] = at[s]
    BY <1>0, <1>2 DEF RunType, Claims, Installs, Checks, SavesTurn, Skips, InSegment, marks
  <2>. QED  BY <1>0, <1>00, <2>1 DEF SegmentHolds, InSegment
<1>3. ASSUME NEW r \in Runs, Begins(r) PROVE SegmentHolds'
  <2>1. /\ UNCHANGED writer /\ at'[r] = "begun" /\ row.there /\ Unlocked(r)
        /\ \A s \in Runs \ {r} : at'[s] = at[s]
    BY <1>0, <1>3 DEF RunType, Begins, Moves, MemoryMoves, SqliteMoves, PrismaMoves, Transition, marks
  <2>2. \A s \in Runs \ {r} : at[s] \notin InSegment
    BY <1>0, <2>1 DEF Unlocked, UseHolds
  <2>. QED  BY <1>0, <1>00, <2>1, <2>2 DEF SegmentHolds
<1>4. ASSUME NEW r \in Runs, Opens(r) PROVE SegmentHolds'
  <2>1. at[r] = "begun" /\ at' = [at EXCEPT ![r] = "opened"] /\ Appends("worker", Kept, r)
    BY <1>4 DEF Opens
  <2>2. /\ writer'["worker"].at \in {"top", "done"}
        /\ writer'["worker"].at = "top" => writer'["worker"].type = Kept /\ writer'["worker"].run = r
        /\ writer'["worker"].at = "done" => Named(r)'
    <3>1. Kept \in Kinds \ {Old} /\ r \in Runs \cup {0}
      BY DEF Kinds, Old, Kept, Ended
    <3>. QED  BY <1>0, <2>1, <3>1, AppendsKeep DEF Named
  <2>3. \A s \in Runs \ {r} : at'[s] = at[s] /\ at[s] \notin InSegment
    BY <1>0, <2>1 DEF RunType, SegmentHolds, InSegment
  <2>4. at'[r] = "opened"
    BY <1>0, <2>1 DEF RunType
  <2>. QED  BY <2>2, <2>3, <2>4 DEF SegmentHolds, InSegment
<1>5. ASSUME NEW r \in Runs, Goes(r) \/ Ends(r) \/ Closes(r) \/ Finishes(r) PROVE SegmentHolds'
  <2>1. at[r] \in InSegment /\ at'[r] # "opened" /\ \A s \in Runs \ {r} : at'[s] = at[s]
    BY <1>0, <1>5 DEF RunType, Goes, Ends, Closes, Finishes, InSegment
  <2>2. \A s \in Runs \ {r} : at'[s] \notin InSegment
    BY <1>0, <2>1 DEF SegmentHolds
  <2>3. \A s \in Runs : at'[s] # "opened"
    BY <2>1, <2>2 DEF InSegment
  <2>. QED  BY <2>2, <2>3 DEF SegmentHolds
<1>6. ASSUME NEW w \in Writers, Inserts(w) PROVE SegmentHolds'
  <2>1. UNCHANGED <<at, row>> /\ writer[w].at = "top"
    BY <1>6 DEF Inserts
  <2>2. /\ \A u \in Writers \ {w} : writer'[u] = writer[u]
        /\ writer'[w].at \in {"top", "done", "threw"}
        /\ writer'[w].at = "top" => writer'[w].type = writer[w].type /\ writer'[w].run = writer[w].run
        /\ writer'[w].at = "done" =>
             \E e \in entries' : e.type = writer[w].type /\ e.run = writer[w].run
    BY <1>0, <1>6, InsertsKeep
  <2>3. CASE w = "worker"
    BY <1>0, <2>1, <2>2, <2>3 DEF SegmentHolds, Named
  <2>4. CASE w # "worker"
    BY <1>0, <1>00, <2>1, <2>2, <2>4 DEF SegmentHolds
  <2>. QED  BY <2>3, <2>4
<1>7. CASE Publishes \/ AppReturns
  <2>0. "app" \in Writers /\ "worker" \in Writers \ {"app"} /\ "app" \in Kinds \ {Old} /\ 0 \in Runs \cup {0}
    BY DEF Writers, Kinds, Old
  <2>1. UNCHANGED at /\ writer'["worker"] = writer["worker"]
    <3>1. CASE Publishes
      BY <1>0, <2>0, <3>1, AppendsKeep DEF Publishes
    <3>2. CASE AppReturns
      BY <1>0, <2>0, <3>2 DEF AppReturns, Returns, RecordInv, WriterType
    <3>. QED  BY <1>7, <3>1, <3>2
  <2>. QED  BY <1>0, <1>00, <2>1 DEF SegmentHolds
<1>8. CASE Prunes \/ PruneDeletes \/ Stops \/ StopWrites \/ Deletes \/ ClosesRecords \/ NamesStreams \/ Cascades
           \/ DeletesRest \/ DeleteDies \/ UNCHANGED vars
  BY <1>1, <1>8 DEF Prunes, PruneDeletes, Stops, StopWrites, Deletes, ClosesRecords, NamesStreams, Cascades,
     DeletesRest, DeleteDies, vars
<1>. QED  BY <1>2, <1>3, <1>4, <1>5, <1>6, <1>7, <1>8 DEF Next

\* A segment whose stream the record does not name when its step is done is marked unnamed.
LEMMA StreamsStay == ASSUME ThreadInv, [Next]_vars PROVE StreamsHold'
<1>0. RunType /\ SegmentHolds /\ StreamsHold
  BY DEF ThreadInv
<1>00. row'.there => row.there /\ \A r : Named(r) => Named(r)'
  BY NamesStay
<1>1. CASE streams' \subseteq streams /\ unnamed \subseteq unnamed' /\ \A r \in Runs : at[r] = "opened" => at'[r] = "opened"
  BY <1>0, <1>00, <1>1 DEF StreamsHold, RunType
<1>2. ASSUME NEW r \in Runs, Opens(r) PROVE StreamsHold'
  <2>1. /\ streams' = streams \cup {r} /\ UNCHANGED unnamed
        /\ at'[r] = "opened" /\ \A s \in Runs \ {r} : at'[s] = at[s]
    BY <1>0, <1>2 DEF RunType, Opens
  <2>. QED  BY <1>0, <1>00, <2>1 DEF StreamsHold, RunType
<1>3. ASSUME NEW r \in Runs, Goes(r) PROVE StreamsHold'
  <2>1. /\ UNCHANGED <<streams, row, entries>> /\ at[r] = "opened"
        /\ writer["worker"].at \in {"done", "threw"}
        /\ unnamed' = IF writer["worker"].at = "threw" THEN unnamed \cup {r} ELSE unnamed
        /\ \A s \in Runs \ {r} : at'[s] = at[s]
    BY <1>0, <1>3 DEF RunType, Goes
  <2>2. row.there => Named(r) \/ r \in unnamed'
    BY <1>0, <2>1 DEF SegmentHolds
  <2>. QED  BY <1>0, <1>00, <2>1, <2>2 DEF StreamsHold, RunType
<1>4. ASSUME NEW r \in Runs, Claims(r) \/ Installs(r) \/ Checks(r) \/ SavesTurn(r) \/ Skips(r) \/ Begins(r)
                             \/ Ends(r) \/ Closes(r) \/ Finishes(r)
      PROVE  StreamsHold'
  <2>1. UNCHANGED <<streams, unnamed>> /\ at[r] # "opened" /\ \A s \in Runs \ {r} : at'[s] = at[s]
    BY <1>0, <1>4 DEF RunType, Claims, Installs, Checks, SavesTurn, Skips, Begins, Ends, Closes, Finishes, store,
       marks
  <2>. QED  BY <1>1, <2>1
<1>5. CASE (\E w \in Writers : Inserts(w)) \/ Publishes \/ AppReturns \/ Prunes \/ PruneDeletes \/ Stops \/ StopWrites
           \/ Deletes \/ ClosesRecords \/ NamesStreams \/ Cascades \/ DeletesRest \/ DeleteDies \/ UNCHANGED vars
  <2>1. streams' \subseteq streams /\ UNCHANGED <<unnamed, at>>
    BY <1>5 DEF Inserts, Publishes, AppReturns, Prunes, PruneDeletes, Stops, StopWrites, Deletes, ClosesRecords,
       NamesStreams, Cascades, DeletesRest, DeleteDies, vars, store, marks
  <2>. QED  BY <1>1, <2>1
<1>. QED  BY <1>2, <1>3, <1>4, <1>5 DEF Next

\* What is written after the cascade is written by a run at work, which is late; prisma refuses it.
LEMMA GoneStays == ASSUME 0 \notin Runs, ThreadInv, [Next]_vars PROVE GoneHolds'
<1>0. RunType /\ UseHolds /\ SegmentHolds /\ StreamsHold /\ GoneHolds /\ RecordInv
  BY DEF ThreadInv
<1>1. CASE UNCHANGED <<db, entries, messages, bills, records, streams, hot, deleting, named, unnamed>>
           /\ late \subseteq late'
  BY <1>0, <1>1 DEF GoneHolds
<1>2. ASSUME NEW r \in Runs, Claims(r) \/ Begins(r) \/ Ends(r) PROVE GoneHolds'
  <2>1. UNCHANGED <<db, entries, messages, bills, records, streams, hot, deleting, named, unnamed>>
        /\ late \subseteq late'
    BY <1>2 DEF Claims, Begins, Ends, marks
  <2>. QED  BY <1>1, <2>1
<1>3. ASSUME NEW r \in Runs, AtWork(r),
             UNCHANGED <<db, deleting, named, late>>,
             entries' = entries \/ (db # "prisma" /\ \A e \in entries' \ entries : e.run = r),
             messages' \subseteq messages \cup {r}, bills' \subseteq bills \cup {r},
             streams' \subseteq streams \cup {r}, hot' \subseteq hot \cup {r}, unnamed \subseteq unnamed',
             \A s \in Runs \ {r} : records'[s] = records[s],
             db = "prisma" /\ ~row.there => UNCHANGED <<messages, bills>>
      PROVE  GoneHolds'
  <2>1. Looked => r \in late
    BY <1>0, <1>3 DEF UseHolds
  <2>2. deleting \in {"rest", "deleted"} => ~row.there
    BY <1>0 DEF UseHolds
  <2>3. deleting \in {"cascade", "rest"} => streams' \subseteq named \cup late \cup unnamed'
    BY <1>0, <1>3, <2>1 DEF GoneHolds, Looked
  <2>4. ASSUME deleting \in {"rest", "deleted"}
        PROVE  /\ {e.run : e \in entries'} \cup messages' \cup bills' \subseteq late
               /\ db = "prisma" => entries' = {} /\ messages' = {} /\ bills' = {}
    BY <1>0, <1>3, <2>1, <2>2, <2>4 DEF GoneHolds, Looked
  <2>5. ASSUME deleting = "deleted"
        PROVE  /\ streams' \subseteq late \cup unnamed'
               /\ hot' \subseteq late
               /\ \A s \in Runs : records'[s] # "none" => s \in late
    BY <1>0, <1>3, <2>1, <2>5 DEF GoneHolds, Looked
  <2>. QED  BY <1>3, <2>3, <2>4, <2>5 DEF GoneHolds
<1>4. ASSUME NEW r \in Runs, Installs(r) \/ Checks(r) \/ SavesTurn(r) PROVE GoneHolds'
  <2>1. /\ AtWork(r)
        /\ UNCHANGED <<db, deleting, named, late, entries, bills, streams, unnamed>>
        /\ messages' \subseteq messages \cup {r} /\ hot' \subseteq hot \cup {r}
        /\ \A s \in Runs \ {r} : records'[s] = records[s]
        /\ db = "prisma" /\ ~row.there => UNCHANGED messages
    BY <1>0, <1>4 DEF RunType, Installs, Checks, SavesTurn, AtWork, Says, MemorySays, SqliteSays, PrismaSays, Closed,
       marks
  <2>. QED  BY <1>3, <2>1
<1>5. ASSUME NEW r \in Runs, Skips(r) PROVE GoneHolds'
  <2>1. /\ UNCHANGED <<db, deleting, named, late, entries, messages, bills, streams, hot, unnamed>>
        /\ \A s \in Runs : records[s] = "none" => records'[s] = "none"
    BY <1>0, <1>5 DEF RunType, Skips, Closed, marks
  <2>. QED  BY <1>0, <2>1 DEF GoneHolds
<1>6. ASSUME NEW r \in Runs, Opens(r) \/ Closes(r) PROVE GoneHolds'
  <2>1. /\ AtWork(r)
        /\ UNCHANGED <<db, deleting, named, late, messages, bills, unnamed>>
        /\ streams' \subseteq streams \cup {r} /\ hot' \subseteq hot \cup {r}
        /\ \A s \in Runs \ {r} : records'[s] = records[s]
    BY <1>0, <1>6 DEF RunType, Opens, Closes, AtWork, Closed
  <2>2. entries' = entries \/ (db # "prisma" /\ \A e \in entries' \ entries : e.run = r)
    <3>1. "worker" \in Writers /\ Kept \in Kinds \ {Old} /\ Ended \in Kinds \ {Old} /\ r \in Runs \cup {0}
      BY DEF Writers, Kinds, Old, Kept, Ended
    <3>2. entries' = entries \/ Appends("worker", Kept, r) \/ Appends("worker", Ended, r)
      BY <1>6 DEF Opens, Closes
    <3>. QED  BY <1>0, <3>1, <3>2, AppendsKeep
  <2>. QED  BY <1>3, <2>1, <2>2
<1>7. ASSUME NEW r \in Runs, Goes(r) PROVE GoneHolds'
  <2>1. /\ AtWork(r)
        /\ UNCHANGED <<db, deleting, named, late, entries, streams, hot, records>>
        /\ unnamed \subseteq unnamed'
        /\ messages' \subseteq messages \cup {r} /\ bills' \subseteq bills \cup {r}
        /\ db = "prisma" /\ ~row.there => UNCHANGED <<messages, bills>>
    BY <1>0, <1>7 DEF RunType, Goes, AtWork, Says, MemorySays, SqliteSays, PrismaSays, Bills, MemoryBills,
       SqliteBills, PrismaBills
  <2>. QED  BY <1>3, <2>1
<1>8. ASSUME NEW r \in Runs, Finishes(r) PROVE GoneHolds'
  <2>1. UNCHANGED <<db, entries, messages, bills, records, streams, hot, deleting, named, unnamed, late>>
    BY <1>8 DEF Finishes, store, marks
  <2>. QED  BY <1>1, <2>1
<1>9. CASE StopWrites
  <2>1. /\ UNCHANGED <<db, entries, messages, bills, streams, deleting, named, unnamed, late>>
        /\ hot' = hot \cup {stopping} /\ stopping \in Runs
        /\ \A s \in Runs : records[s] = "none" => records'[s] = "none"
    BY <1>0, <1>9 DEF RunType, StopWrites, Closed, marks
  <2>2. Looked => stopping \in late
    BY <1>0, <2>1 DEF UseHolds
  <2>. QED  BY <1>0, <2>1, <2>2 DEF GoneHolds, Looked
<1>10. ASSUME NEW w \in Writers, Inserts(w) PROVE GoneHolds'
  <2>1. UNCHANGED <<db, row, messages, bills, records, streams, hot, deleting, named, unnamed, late>>
        /\ (~row.there => entries' = entries)
    BY <1>0, <1>10, InsertsKeep DEF Inserts
  <2>. QED  BY <1>0, <2>1 DEF GoneHolds, UseHolds
<1>11. CASE Publishes \/ AppReturns \/ Prunes \/ PruneDeletes
  <2>1. UNCHANGED <<db, row, messages, bills, records, streams, hot, deleting, named, unnamed, late>>
        /\ (~row.there => entries' \subseteq entries)
    BY <1>11 DEF Publishes, AppReturns, Prunes, PruneDeletes, MemoryPrunes, SqlitePrunes, PrismaPrunes, Takes,
       store, marks
  <2>. QED  BY <1>0, <2>1 DEF GoneHolds, UseHolds
<1>12. CASE Deletes \/ ClosesRecords \/ DeleteDies
  BY <1>12 DEF Deletes, ClosesRecords, DeleteDies, GoneHolds
<1>13. CASE NamesStreams
  <2>1. /\ row.there /\ UNCHANGED <<streams, late, unnamed>>
        /\ deleting = "streams" /\ deleting' = "cascade"
        /\ named' = {e.run : e \in {x \in entries : x.type = Kept}} \ {0}
    BY <1>0, <1>13 DEF NamesStreams, UseHolds, store, marks
  <2>2. ASSUME NEW r \in streams PROVE r \in named' \cup late \cup unnamed
    <3>1. r \in Runs /\ r # 0 /\ (Named(r) \/ r \in unnamed \/ at[r] = "opened")
      BY <1>0, <2>1 DEF RunType, StreamsHold
    <3>2. at[r] = "opened" => r \in late
      BY <1>0, <2>1, <3>1 DEF UseHolds, Looked, AtWork
    <3>. QED  BY <2>1, <3>1, <3>2 DEF Named
  <2>. QED  BY <2>1, <2>2 DEF GoneHolds
<1>14. CASE Cascades
  <2>1. /\ deleting = "cascade" /\ deleting' = "rest"
        /\ UNCHANGED <<streams, named, late, unnamed>>
        /\ entries' = {} /\ messages' = {} /\ bills' = {}
    BY <1>14 DEF Cascades, MemoryDeletes, SqliteDeletes, PrismaDeletes, Cascade, Takes
  <2>. QED  BY <1>0, <2>1 DEF GoneHolds
<1>15. CASE DeletesRest
  <2>1. /\ deleting = "rest" /\ deleting' = "deleted"
        /\ UNCHANGED <<db, entries, messages, bills, late, unnamed>>
        /\ streams' = streams \ named /\ hot' \subseteq late
        /\ records' = [r \in Runs |-> "none"]
    BY <1>15 DEF DeletesRest, marks
  <2>. QED  BY <1>0, <2>1 DEF GoneHolds
<1>16. CASE Stops \/ UNCHANGED vars
  BY <1>1, <1>16 DEF Stops, vars, store, marks
<1>. QED
  BY <1>2, <1>4, <1>5, <1>6, <1>7, <1>8, <1>9, <1>10, <1>11, <1>12, <1>13, <1>14, <1>15, <1>16 DEF Next

\* Entries of a thread never share a seq and no seq is minted twice, on any storage and with
\* any number of runs, stops, prunes and deletes that die, until the newest entry is
\* pruned; and a delete that went through leaves nothing behind but what runs wrote that
\* were at work under it, the worker of a stopped run among them (core/deleteThread.ts:9-18,
\* core/stop.ts:36).
THEOREM ThreadKeepsAndForgets ==
  ASSUME 0 \notin Runs
  PROVE  Spec => [](OneEntryPerSeq /\ SeqsNeverRepeat /\ DeletedIsGone)
<1>1. Init => ThreadInv
  BY ThreadStarts
<1>2. ThreadInv /\ [Next]_vars => ThreadInv'
  BY RecordStays, TypesStay, UseStays, SegmentStays, StreamsStay, GoneStays DEF ThreadInv
<1>3. ThreadInv => OneEntryPerSeq /\ SeqsNeverRepeat /\ DeletedIsGone
  BY DEF ThreadInv, RecordInv, SeqsHold, GoneHolds, SeqsNeverRepeat, DeletedIsGone
<1>. QED  BY <1>1, <1>2, <1>3, PTL DEF Spec
---------------------------------------------------------------------------
(* A sweep covers what matched *)

\* Run ids are naturals that compare, 0 being none of them, and a store tells start times
\* apart by the millisecond only, as the cursor does.
PlainListing ==
  /\ IsFiniteSet(RunIds) /\ RunIds \subseteq Nat \ {0}
  /\ Millis \subseteq Nat /\ PageSize \in Nat \ {0}
  /\ "postgres" \in AdminKinds => Micros = {0}

ListTypeOK ==
  /\ admin \in AdminKinds
  /\ started \in [DOMAIN started -> Nat \X {0}] /\ DOMAIN started \subseteq RunIds
  /\ matching \subseteq DOMAIN started /\ stayed \subseteq matching
  /\ visits \in Seq(DOMAIN started)
  /\ sweeping \in BOOLEAN

\* The visits go from newer to older.
VisitsInOrder == \A m, n \in 1..Len(visits) : m < n => Newer(visits[m], visits[n])

\* The cursor is the last run visited, and what was not visited sorts after it.
CursorStands ==
  sweeping => IF visits = <<>> THEN cursor = NoCursor
              ELSE cursor = [at |-> started[visits[Len(visits)]], id |-> visits[Len(visits)]]
RestIsAhead ==
  \A i \in stayed : (\E n \in 1..Len(visits) : visits[n] = i)
                       \/ (sweeping /\ (cursor = NoCursor \/ Before(i, cursor)))

ListInv == ListTypeOK /\ VisitsInOrder /\ CursorStands /\ RestIsAhead

\* Start times are ordered, and so are the runs of one start time.
LEMMA TimesCompare ==
  ASSUME NEW a \in Nat \X {0}, NEW b \in Nat \X {0}, NEW c \in Nat \X {0}
  PROVE  /\ Earlier(a, b) /\ Earlier(b, c) => Earlier(a, c)
         /\ ~Earlier(a, a)
         /\ ToDate(a) = a
<1>1. PICK i, j, k \in Nat : a = <<i, 0>> /\ b = <<j, 0>> /\ c = <<k, 0>>
  OBVIOUS
<1>. QED  BY <1>1 DEF Earlier, ToDate

LEMMA NewerOrders ==
  ASSUME PlainListing, ListTypeOK, NEW i \in DOMAIN started, NEW j \in DOMAIN started, NEW k \in DOMAIN started
  PROVE  /\ Newer(i, j) /\ Newer(j, k) => Newer(i, k)
         /\ ~Newer(i, i)
         /\ Before(i, [at |-> started[j], id |-> j]) <=> Newer(j, i)
         /\ [at |-> started[j], id |-> j] # NoCursor
<1>1. i \in Nat /\ j \in Nat /\ k \in Nat /\ j # 0
  BY DEF PlainListing, ListTypeOK
<1>2. started[i] \in Nat \X {0} /\ started[j] \in Nat \X {0} /\ started[k] \in Nat \X {0}
  BY DEF ListTypeOK
<1>. QED  BY <1>1, <1>2, TimesCompare DEF Newer, Before, NoCursor

\* A page that is not full has all there is.
LEMMA ShortPage ==
  ASSUME NEW S, IsFiniteSet(S), NEW page \in [1..Cardinality(S) -> S],
         \A m, n \in DOMAIN page : m # n => page[m] # page[n]
  PROVE  \A i \in S : \E n \in DOMAIN page : page[n] = i
<1>1. Cardinality(S) \in Nat
  BY FS_CardinalityType
<1>. DEFINE T == 1..Cardinality(S)
            R == {page[n] : n \in T}
<1>2. IsFiniteSet(T) /\ Cardinality(T) = Cardinality(S)
  BY <1>1, FS_Interval
<1>3. page \in Injection(T, R) /\ page \in Surjection(T, R)
  BY DEF Injection, IsInjective, Surjection
<1>4. R \subseteq S /\ IsFiniteSet(R) /\ Cardinality(R) <= Cardinality(S)
  BY FS_Subset
<1>5. Cardinality(R) = Cardinality(T)
  <2>1. page \in Bijection(T, R)
    BY <1>3 DEF Bijection
  <2>. QED  BY <1>2, <2>1, FS_Bijection DEF ExistsBijection
<1>6. R = S
  BY <1>2, <1>4, <1>5, FS_Subset
<1>. QED  BY <1>6

LEMMA PagesKeep ==
  ASSUME PlainListing, ListInv,
         NEW page \in PageOf(MemoryMatches), Pages(page)
  PROVE  ListInv'
<1>. DEFINE listed == MemoryMatches
            k == Len(page)
            n == Len(visits)
<1>1. /\ IsFiniteSet(listed) /\ listed \subseteq matching /\ listed \subseteq DOMAIN started
      /\ Cardinality(listed) \in Nat /\ PageSize \in Nat \ {0}
  <2>1. listed \subseteq matching /\ matching \subseteq DOMAIN started /\ DOMAIN started \subseteq RunIds
    BY DEF MemoryMatches, ListInv, ListTypeOK
  <2>2. IsFiniteSet(listed)
    BY <2>1, FS_Subset DEF PlainListing
  <2>. QED  BY <2>1, <2>2, FS_CardinalityType DEF PlainListing
<1>2. /\ page \in Seq(listed) /\ DOMAIN page = 1..k /\ k \in Nat
      /\ k = IF Cardinality(listed) < PageSize THEN Cardinality(listed) ELSE PageSize
      /\ \A i, j \in 1..k : i < j => Newer(page[i], page[j])
      /\ \A i \in 1..k, r \in listed : (\A j \in 1..k : page[j] # r) => Newer(page[i], r)
  BY <1>1 DEF PageOf, Range
<1>3. /\ sweeping /\ visits' = visits \o page
      /\ IF k < PageSize THEN sweeping' = FALSE /\ cursor' = cursor
         ELSE cursor' = [at |-> ToDate(started[page[k]]), id |-> page[k]] /\ sweeping' = sweeping
      /\ UNCHANGED <<admin, started, matching, stayed>>
  BY DEF Pages
<1>. HIDE DEF listed
<1>4. /\ visits \in Seq(DOMAIN started) /\ n \in Nat /\ visits' \in Seq(DOMAIN started)
      /\ Len(visits') = n + k
      /\ \A i \in 1..n : visits'[i] = visits[i]
      /\ \A i \in 1..k : visits'[n + i] = page[i]
  <2>1. visits \in Seq(DOMAIN started) /\ page \in Seq(DOMAIN started)
    BY <1>1, <1>2 DEF ListInv, ListTypeOK
  <2>. QED  BY <1>3, <2>1
<1>5. \A m \in 1..(n + k) : m \in 1..n \/ \E i \in 1..k : m = n + i
  <2>1. \A m \in 1..(n + k) : m \notin 1..n => m - n \in 1..k /\ m = n + (m - n)
    BY <1>2, <1>4
  <2>. QED  BY <2>1
<1>6. \A i \in 1..n, j \in 1..k : Newer(visits[i], page[j])
  <2>. SUFFICES ASSUME NEW i \in 1..n, NEW j \in 1..k PROVE Newer(visits[i], page[j])
    OBVIOUS
  <2>1. visits # <<>> /\ n \in 1..n /\ visits[n] \in DOMAIN started /\ visits[i] \in DOMAIN started
    BY <1>4
  <2>2. cursor = [at |-> started[visits[n]], id |-> visits[n]]
    BY <1>3, <2>1 DEF ListInv, CursorStands
  <2>3. page[j] \in listed /\ page[j] \in DOMAIN started
    BY <1>1, <1>2
  <2>4. Newer(visits[n], page[j])
    BY <2>1, <2>2, <2>3, NewerOrders DEF listed, MemoryMatches, ListInv
  <2>5. i = n \/ Newer(visits[i], visits[n])
    BY <1>4, <2>1 DEF ListInv, VisitsInOrder
  <2>. QED  BY <2>1, <2>3, <2>4, <2>5, NewerOrders DEF ListInv
<1>7. ListTypeOK'
  BY <1>3, <1>4 DEF ListInv, ListTypeOK
<1>8. VisitsInOrder'
  <2>. SUFFICES ASSUME NEW i \in 1..Len(visits'), NEW j \in 1..Len(visits'), i < j
                PROVE  Newer(visits'[i], visits'[j])
    BY <1>3 DEF VisitsInOrder, Newer
  <2>1. CASE j \in 1..n
    <3>1. i \in 1..n
      BY <1>4, <2>1
    <3>. QED  BY <1>4, <2>1, <3>1 DEF ListInv, VisitsInOrder
  <2>2. ASSUME NEW b \in 1..k, j = n + b PROVE Newer(visits'[i], visits'[j])
    <3>1. CASE i \in 1..n
      <4>1. visits'[j] = page[b] /\ visits'[i] = visits[i]
        BY <1>4, <2>2, <3>1
      <4>. QED  BY <1>6, <3>1, <4>1
    <3>2. ASSUME NEW a \in 1..k, i = n + a PROVE Newer(visits'[i], visits'[j])
      <4>1. a < b
        BY <1>2, <1>4, <2>2, <3>2
      <4>. QED  BY <1>2, <1>4, <2>2, <3>2, <4>1
    <3>. QED  BY <1>4, <1>5, <3>1, <3>2
  <2>. QED  BY <1>4, <1>5, <2>1, <2>2
<1>9. CursorStands'
  <2>1. CASE k < PageSize
    BY <1>3, <2>1 DEF CursorStands
  <2>2. CASE ~(k < PageSize)
    <3>1. k \in 1..k /\ page[k] \in DOMAIN started /\ started[page[k]] \in Nat \X {0}
      BY <1>1, <1>2, <2>2 DEF ListInv, ListTypeOK
    <3>2. visits' # <<>> /\ visits'[Len(visits')] = page[k]
      BY <1>2, <1>4, <3>1
    <3>. QED  BY <1>3, <2>2, <3>1, <3>2, TimesCompare DEF CursorStands
  <2>. QED  BY <2>1, <2>2
<1>10. RestIsAhead'
  <2>. SUFFICES ASSUME NEW i \in stayed
                PROVE  \/ \E m \in 1..(n + k) : visits'[m] = i
                       \/ sweeping' /\ (cursor' = NoCursor \/ Before(i, cursor'))
    BY <1>3, <1>4 DEF RestIsAhead, Before
  <2>1. CASE \E m \in 1..n : visits[m] = i
    BY <1>2, <1>4, <2>1
  <2>2. CASE \A m \in 1..n : visits[m] # i
    <3>1. i \in listed /\ i \in DOMAIN started
      BY <1>3, <2>2 DEF ListInv, ListTypeOK, RestIsAhead, listed, MemoryMatches
    <3>2. CASE \E m \in 1..k : page[m] = i
      BY <1>2, <1>4, <3>2
    <3>3. CASE \A m \in 1..k : page[m] # i
      <4>1. ~(k < PageSize)
        <5>1. SUFFICES ASSUME k < PageSize PROVE FALSE
          OBVIOUS
        <5>2. k = Cardinality(listed)
          BY <1>1, <1>2, <5>1
        <5>3. page \in [1..Cardinality(listed) -> listed]
          BY <1>2, <5>2
        <5>4. \A a, b \in DOMAIN page : a # b => page[a] # page[b]
          <6>. SUFFICES ASSUME NEW a \in 1..k, NEW b \in 1..k, a # b PROVE page[a] # page[b]
            BY <1>2
          <6>1. page[a] \in DOMAIN started /\ page[b] \in DOMAIN started
            BY <1>1, <1>2
          <6>2. a < b \/ b < a
            BY <1>2
          <6>. QED  BY <1>2, <6>1, <6>2, NewerOrders DEF ListInv
        <5>. QED  BY <1>1, <1>2, <3>1, <3>3, <5>3, <5>4, ShortPage
      <4>2. k \in 1..k /\ page[k] \in DOMAIN started /\ started[page[k]] \in Nat \X {0}
        BY <1>1, <1>2, <4>1 DEF ListInv, ListTypeOK
      <4>3. Newer(page[k], i)
        BY <1>2, <3>1, <3>3, <4>2
      <4>4. cursor' = [at |-> started[page[k]], id |-> page[k]]
        BY <1>3, <4>1, <4>2, TimesCompare
      <4>. QED  BY <1>3, <3>1, <4>1, <4>2, <4>3, <4>4, NewerOrders DEF ListInv
    <3>. QED  BY <3>2, <3>3
  <2>. QED  BY <2>1, <2>2
<1>. QED  BY <1>7, <1>8, <1>9, <1>10 DEF ListInv

LEMMA StartsKeeps ==
  ASSUME PlainListing, ListInv, NEW i \in RunIds, NEW t \in Nat \X {0}, StartsAt(i, t)
  PROVE  ListInv'
<1>1. /\ DOMAIN started' = DOMAIN started \cup {i} /\ started'[i] = t
      /\ \A j \in DOMAIN started : started'[j] = started[j]
      /\ matching' = matching \cup {i}
      /\ UNCHANGED <<admin, stayed, cursor, visits, sweeping>>
  BY DEF StartsAt
<1>2. started' \in [DOMAIN started' -> Nat \X {0}]
  BY <1>1 DEF StartsAt, ListInv, ListTypeOK
<1>3. visits' \in Seq(DOMAIN started')
  BY <1>1 DEF ListInv, ListTypeOK
<1>4. ListTypeOK'
  BY <1>1, <1>2, <1>3 DEF ListInv, ListTypeOK
<1>5. visits \in Seq(DOMAIN started) /\ Len(visits) \in Nat
  BY DEF ListInv, ListTypeOK
<1>6. VisitsInOrder'
  BY <1>1, <1>5 DEF ListInv, VisitsInOrder, Newer
<1>7. CursorStands'
  BY <1>1, <1>5 DEF ListInv, CursorStands, NoCursor
<1>8. RestIsAhead'
  <2>1. stayed \subseteq DOMAIN started
    BY DEF ListInv, ListTypeOK
  <2>. QED  BY <1>1, <2>1 DEF ListInv, RestIsAhead, Before, NoCursor
<1>. QED  BY <1>4, <1>6, <1>7, <1>8 DEF ListInv

LEMMA ListStays == PlainListing /\ ListInv /\ [ListNext]_listVars => ListInv'
<1>. SUFFICES ASSUME PlainListing, ListInv, [ListNext]_listVars PROVE ListInv'
  OBVIOUS
<1>1. ASSUME NEW page \in PageOf(MemoryMatches), Pages(page) PROVE ListInv'
  BY <1>1, PagesKeep
<1>2. CASE MemoryLists \/ SqliteLists \/ PostgresLists
  BY <1>1, <1>2 DEF MemoryLists, SqliteLists, PostgresLists, SqliteWhere, PostgresWhere
<1>3. ASSUME NEW i \in RunIds, Leaves(i) \/ Comes(i) PROVE ListInv'
  <2>1. /\ UNCHANGED <<admin, started, cursor, visits, sweeping>> /\ stayed' \subseteq stayed
        /\ stayed' \subseteq matching' /\ matching' \subseteq DOMAIN started
    BY <1>3 DEF Leaves, Comes, ListInv, ListTypeOK
  <2>2. ListTypeOK'
    BY <2>1 DEF ListInv, ListTypeOK
  <2>3. VisitsInOrder' /\ CursorStands'
    BY <2>1 DEF ListInv, VisitsInOrder, CursorStands, Newer, NoCursor
  <2>4. RestIsAhead'
    BY <2>1 DEF ListInv, RestIsAhead, Before, NoCursor
  <2>. QED  BY <2>2, <2>3, <2>4 DEF ListInv
<1>4. ASSUME NEW i \in RunIds, MemoryStarts(i) \/ SqliteStarts(i) \/ PostgresStarts(i) PROVE ListInv'
  <2>1. \A ms \in Millis : <<ms, 0>> \in Nat \X {0}
    BY DEF PlainListing
  <2>2. PICK t \in Nat \X {0} : StartsAt(i, t)
    BY <1>4, <2>1 DEF MemoryStarts, SqliteStarts, PostgresStarts, ListInv, ListTypeOK, PlainListing
  <2>. QED  BY <2>2, StartsKeeps
<1>5. CASE UNCHANGED listVars
  BY <1>5 DEF listVars, ListInv, ListTypeOK, VisitsInOrder, CursorStands, RestIsAhead, Newer, Before,
              NoCursor
<1>. QED  BY <1>2, <1>3, <1>4, <1>5 DEF ListNext

LEMMA ListStarts == PlainListing /\ ListInit => ListInv
<1>. SUFFICES ASSUME PlainListing, ListInit PROVE ListInv
  OBVIOUS
<1>1. Times(admin) \subseteq Nat \X {0}
  BY DEF ListInit, Times, PlainListing
<1>2. PICK S \in SUBSET RunIds : started \in [S -> Times(admin)]
  BY DEF ListInit
<1>. QED  BY <1>1, <1>2 DEF ListInit, ListInv, ListTypeOK, VisitsInOrder, CursorStands, RestIsAhead

\* A sweep that ended called its function for every run that matched the filter all along, and
\* for none twice, whatever started, ended or was deleted meanwhile (runtime.ts, eachRun), in
\* every store whose start times are as fine as the cursor's.
THEOREM SweepsCover ==
  ASSUME PlainListing
  PROVE  ListSpec => []SweepCovers
<1>1. ListInv => SweepCovers
  <2>. SUFFICES ASSUME ListInv PROVE SweepCovers
    OBVIOUS
  <2>1. visits \in Seq(DOMAIN started) /\ DOMAIN visits = 1..Len(visits) /\ Len(visits) \in Nat
    BY DEF ListInv, ListTypeOK
  <2>2. ~sweeping => stayed \subseteq Range(visits)
    BY <2>1 DEF ListInv, RestIsAhead, Range
  <2>3. ASSUME NEW m \in DOMAIN visits, NEW n \in DOMAIN visits, m # n PROVE visits[m] # visits[n]
    <3>1. m < n \/ n < m
      BY <2>1, <2>3
    <3>2. visits[m] \in DOMAIN started /\ visits[n] \in DOMAIN started
      BY <2>1
    <3>. QED  BY <2>1, <3>1, <3>2, NewerOrders DEF ListInv, VisitsInOrder
  <2>. QED  BY <2>2, <2>3 DEF SweepCovers
<1>. QED  BY <1>1, ListStarts, ListStays, PTL DEF ListSpec
=============================================================================
