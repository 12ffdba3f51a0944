---------------------------- MODULE AgentsProofs ----------------------------
\* What holds of a run and the agents it nests, for any tree of them: its budget (BudgetInv),
\* that its loops are never all stuck (TreeInv: the line of each depth and the nesting of the
\* loops), that an approved tool runs once (ToolInv: the unwind is the open requests, in their
\* order), that a call has one result (OnceInv: who waits for a park, and which of the calls
\* above a request have their result), and that a nested run's record is RUNNING exactly while
\* it runs or a request waits in it (RecordInv).
EXTENDS NestedRuns, FiniteSetTheorems, WellFoundedInduction, TLAPS

\* A nested run is spawned by an agent that is there already, and there are as many as the
\* calls of the run.
SpawnTree ==
  /\ IsFiniteSet(Nested) /\ IsFiniteSet(Parks)
  /\ Main \notin Nested /\ Nested \cap Parks = {}
  /\ Parent \in [Nested -> Agents]
  /\ Asker \in [Parks -> Agents]
  /\ \E k \in Nat : \E order \in [Agents -> 0..k] : \A n \in Nested : order[Parent[n]] < order[n]

---------------------------------------------------------------------------
(* What holds of every set of naturals and every sequence *)

\* A set of naturals with a member has a least one: the strict subsets of a finite set are
\* well-founded, and of the sets of what is below a member, one has no such set in it.
LEMMA LeastOf ==
  ASSUME NEW S \in SUBSET Nat, S # {}
  PROVE  \E m \in S : \A x \in S : m <= x
<1>1. PICK n \in S : TRUE
  OBVIOUS
<1>. DEFINE Upto(m) == {x \in S : x <= m}
            N == Upto(n)
            T == {Upto(m) : m \in N}
            R == StrictSubsetOrdering(N)
<1>2. T \subseteq FiniteSubsetsOf(N) /\ T # {}
  <2>1. IsFiniteSet(N)
    <3>1. N \in SUBSET Nat /\ n \in Nat
      OBVIOUS
    <3>2. \A x \in N : x <= n
      OBVIOUS
    <3>. HIDE DEF N
    <3>. QED  BY <3>1, <3>2, FS_BoundedSetOfNaturals
  <2>2. ASSUME NEW m \in N PROVE Upto(m) \in SUBSET N /\ IsFiniteSet(Upto(m))
    <3>1. m \in Nat /\ n \in Nat /\ m <= n
      OBVIOUS
    <3>2. \A y \in S : y <= m => y <= n
      BY <3>1
    <3>3. Upto(m) \in SUBSET N
      BY <3>2
    <3>. HIDE DEF N, Upto
    <3>. QED  BY <2>1, <3>3, FS_Subset
  <2>3. n \in N
    BY <1>1
  <2>. QED  BY <2>2, <2>3 DEF FiniteSubsetsOf
<1>3. IsWellFoundedOn(R, FiniteSubsetsOf(N))
  BY FS_StrictSubsetOrderingWellFounded
<1>4. PICK U \in T : \A V \in T : <<V, U>> \notin R
  <2>. HIDE DEF T, R
  <2>. QED  BY <1>2, <1>3, WFMin
<1>5. PICK m \in N : U = Upto(m)
  OBVIOUS
<1>6. ASSUME NEW x \in S, x < m PROVE FALSE
  <2>1. x \in N /\ m \in S
    <3>1. x \in Nat /\ m \in Nat /\ n \in Nat /\ m \in S /\ m <= n
      OBVIOUS
    <3>. QED  BY <1>6, <3>1
  <2>3. \A y \in S : y <= x => y <= m
    <3>1. x \in Nat /\ m \in Nat /\ \A y \in S : y \in Nat
      BY <2>1
    <3>. QED  BY <1>6, <3>1
  <2>4. Upto(x) \subseteq Upto(m) /\ Upto(m) \subseteq N /\ m \in Upto(m) /\ m \notin Upto(x)
    <3>1. Upto(x) \subseteq Upto(m)
      BY <2>3
    <3>2. m \in Nat /\ x \in Nat /\ n \in Nat /\ m <= m /\ ~(m <= x) /\ m <= n
      BY <1>6, <2>1
    <3>3. \A y \in S : y <= m => y <= n
      BY <3>2
    <3>. QED  BY <2>1, <3>1, <3>2, <3>3
  <2>2. <<Upto(x), U>> \in R
    <3>. HIDE DEF N, Upto
    <3>. QED  BY <1>5, <2>4 DEF StrictSubsetOrdering
  <2>. QED  BY <1>4, <2>1, <2>2
<1>. QED  BY <1>5, <1>6

LEMMA Induction ==
  ASSUME NEW T, 0 \in T, \A i \in Nat : i \in T => i + 1 \in T
  PROVE  \A i \in Nat : i \in T
<1>. SUFFICES ASSUME NEW n \in Nat, n \notin T PROVE FALSE
  OBVIOUS
<1>1. PICK m \in Nat \ T : \A x \in Nat \ T : m <= x
  BY LeastOf
<1>2. m - 1 \in Nat /\ m - 1 \in T
  BY <1>1
<1>. QED  BY <1>1, <1>2

\* A bounded set of naturals has a greatest member.
LEMMA GreatestOf ==
  ASSUME NEW S \in SUBSET Nat, S # {}, NEW n \in Nat, \A x \in S : x <= n
  PROVE  \E m \in S : \A x \in S : x <= m
<1>. DEFINE B == {b \in Nat : \A x \in S : x <= b}
<1>1. PICK b \in B : \A x \in B : b <= x
  <2>1. n \in B
    OBVIOUS
  <2>. QED  BY <2>1, LeastOf
<1>2. CASE b \in S
  BY <1>1, <1>2
<1>3. CASE b \notin S
  <2>1. PICK s \in S : TRUE
    OBVIOUS
  <2>2. b - 1 \in B
    BY <1>1, <1>3, <2>1
  <2>. QED  BY <1>1, <2>2
<1>. QED  BY <1>2, <1>3

---------------------------------------------------------------------------
(* The tree of agents *)

\* The frames of each agent are defined: an agent's from its parent's, for all the agents
\* below a height, and for one more height.
LEMMA AboveIs ==
  ASSUME SpawnTree
  PROVE  Above = [x \in Agents |-> IF x = Main THEN <<>> ELSE <<x>> \o Above[Parent[x]]]
<1>0. PICK k \in Nat : \E order \in [Agents -> 0..k] : \A n \in Nested : order[Parent[n]] < order[n]
  BY DEF SpawnTree
<1>1. PICK h \in [Agents -> 0..k] : \A n \in Nested : h[Parent[n]] < h[n]
  BY <1>0
<1>. DEFINE Low(i) == {x \in Agents : h[x] < i}
            T == {i \in Nat : \E g : g = [x \in Low(i) |-> IF x = Main THEN <<>> ELSE <<x>> \o g[Parent[x]]]}
<1>2. 0 \in T
  <2>1. Low(0) = {}
    BY <1>1
  <2>. DEFINE g == [x \in Low(0) |-> <<>>]
  <2>2. g = [x \in Low(0) |-> IF x = Main THEN <<>> ELSE <<x>> \o g[Parent[x]]]
    BY <2>1
  <2>. QED  BY <2>2
<1>3. ASSUME NEW i \in Nat, i \in T PROVE i + 1 \in T
  <2>1. PICK g : g = [x \in Low(i) |-> IF x = Main THEN <<>> ELSE <<x>> \o g[Parent[x]]]
    BY <1>3
  <2>. DEFINE f == [x \in Low(i + 1) |-> IF x = Main THEN <<>> ELSE <<x>> \o g[Parent[x]]]
  <2>2. \A x \in Low(i) : x \in Low(i + 1)
    BY <1>1
  <2>3. \A x \in Low(i) : f[x] = g[x]
    BY <2>1, <2>2
  <2>4. \A x \in Low(i + 1) : x # Main => Parent[x] \in Low(i)
    BY <1>1 DEF SpawnTree, Agents
  <2>5. f = [x \in Low(i + 1) |-> IF x = Main THEN <<>> ELSE <<x>> \o f[Parent[x]]]
    BY <2>3, <2>4
  <2>6. i + 1 \in Nat
    OBVIOUS
  <2>. HIDE DEF f, Low
  <2>. QED  BY <2>5, <2>6
<1>4. k + 1 \in T
  <2>. HIDE DEF T
  <2>. QED  BY <1>1, <1>2, <1>3, Induction
<1>5. Low(k + 1) = Agents
  BY <1>1
<1>6. \E g : g = [x \in Agents |-> IF x = Main THEN <<>> ELSE <<x>> \o g[Parent[x]]]
  BY <1>4, <1>5
<1>. QED  BY <1>6 DEF Above

LEMMA Up ==
  ASSUME SpawnTree
  PROVE  /\ Above[Main] = <<>>
         /\ \A n \in Nested : Above[n] = <<n>> \o Above[Parent[n]] /\ Parent[n] \in Agents
<1>1. Main \in Agents /\ Nested \subseteq Agents /\ Main \notin Nested
  BY DEF SpawnTree, Agents
<1>. QED  BY <1>1, AboveIs DEF SpawnTree

\* The frames of an agent are nested runs, each spawned by the next, the last by the main
\* agent.
Framed(x) ==
  /\ Above[x] \in Seq(Nested)
  /\ x # Main => Above[x] # <<>> /\ Above[x][1] = x
  /\ \A i \in 1..Len(Above[x]) :
       /\ Depth(Above[x][i]) = Depth(x) + 1 - i
       /\ Parent[Above[x][i]] = IF i = Len(Above[x]) THEN Main ELSE Above[x][i + 1]

LEMMA FramesOfNext ==
  ASSUME SpawnTree, NEW n \in Nested, Framed(Parent[n])
  PROVE  Framed(n)
<1>. DEFINE p == Parent[n]
            s == Above[p]
<1>1. /\ Above[n] = <<n>> \o s /\ p \in Agents /\ s \in Seq(Nested)
      /\ p # Main => s # <<>> /\ s[1] = p
      /\ p = Main => s = <<>>
  BY Up DEF Framed
<1>2. \A i \in 1..Len(s) :
        /\ Depth(s[i]) = Depth(p) + 1 - i
        /\ Parent[s[i]] = IF i = Len(s) THEN Main ELSE s[i + 1]
  BY DEF Framed
<1>. HIDE DEF p, s
<1>3. /\ Above[n] \in Seq(Nested) /\ Len(Above[n]) = Len(s) + 1 /\ Len(s) \in Nat
      /\ Above[n][1] = n
      /\ \A i \in 1..Len(s) : Above[n][i + 1] = s[i]
  BY <1>1
<1>4. Depth(n) = Depth(p) + 1 /\ Depth(p) \in Nat
  BY <1>3 DEF Depth, s
<1>5. ASSUME NEW i \in 1..Len(Above[n])
      PROVE  /\ Depth(Above[n][i]) = Depth(n) + 1 - i
             /\ Parent[Above[n][i]] = IF i = Len(Above[n]) THEN Main ELSE Above[n][i + 1]
  <2>1. CASE i = 1
    <3>1. Depth(n) = Depth(n) + 1 - 1
      BY <1>4
    <3>2. s = <<>> <=> p = Main
      BY <1>1
    <3>3. s # <<>> => 1 \in 1..Len(s) /\ Above[n][2] = p
      BY <1>1, <1>3
    <3>4. s = <<>> <=> Len(s) = 0
      BY <1>1
    <3>. QED  BY <1>3, <2>1, <3>1, <3>2, <3>3, <3>4 DEF p
  <2>2. CASE i # 1
    <3>1. PICK j \in 1..Len(s) : i = j + 1
      <4>1. i - 1 \in 1..Len(s)
        BY <1>3, <2>2
      <4>. QED  BY <4>1
    <3>2. Above[n][i] = s[j] /\ (j # Len(s) => Above[n][i + 1] = s[j + 1])
      BY <1>3, <3>1
    <3>3. Depth(s[j]) = Depth(p) + 1 - j /\ Depth(p) + 1 - j = Depth(n) + 1 - i
      BY <1>2, <1>4, <3>1
    <3>4. i = Len(Above[n]) <=> j = Len(s)
      BY <1>3, <3>1
    <3>. QED  BY <1>2, <3>2, <3>3, <3>4
  <2>. QED  BY <2>1, <2>2
<1>. QED  BY <1>3, <1>5 DEF Framed

LEMMA AllFramed ==
  ASSUME SpawnTree
  PROVE  \A x \in Agents : Framed(x)
<1>0. PICK k \in Nat : \E order \in [Agents -> 0..k] : \A n \in Nested : order[Parent[n]] < order[n]
  BY DEF SpawnTree
<1>1. PICK h \in [Agents -> 0..k] : \A n \in Nested : h[Parent[n]] < h[n]
  BY <1>0
<1>. DEFINE T == {i \in Nat : \A x \in Agents : h[x] < i => Framed(x)}
<1>2. 0 \in T
  BY <1>1
<1>3. Framed(Main)
  <2>1. Above[Main] = <<>> /\ Len(<<>>) = 0 /\ <<>> \in Seq(Nested) /\ 1..0 = {}
    BY Up
  <2>. QED  BY <2>1, Zenon DEF Framed
<1>4. ASSUME NEW i \in Nat, i \in T PROVE i + 1 \in T
  <2>. SUFFICES ASSUME NEW x \in Agents, h[x] < i + 1, x # Main PROVE Framed(x)
    BY <1>3
  <2>1. x \in Nested /\ Parent[x] \in Agents
    BY Up DEF Agents
  <2>2. h[Parent[x]] < i
    BY <1>1, <2>1
  <2>. QED  BY <1>4, <2>1, <2>2, FramesOfNext
<1>5. k + 1 \in T
  <2>. HIDE DEF T
  <2>. QED  BY <1>2, <1>4, Induction
<1>. QED  BY <1>1, <1>5

\* A nested run is one deeper than the agent that spawns it.
LEMMA Deeper ==
  ASSUME SpawnTree
  PROVE  /\ \A x \in Agents : Depth(x) \in Nat
         /\ \A n \in Nested : Depth(n) = Depth(Parent[n]) + 1 /\ Parent[n] \in Agents
<1>1. \A x \in Agents : Above[x] \in Seq(Nested)
  BY AllFramed DEF Framed
<1>2. ASSUME NEW n \in Nested PROVE Depth(n) = Depth(Parent[n]) + 1 /\ Parent[n] \in Agents
  <2>. DEFINE s == Above[Parent[n]]
  <2>1. Above[n] = <<n>> \o s /\ Parent[n] \in Agents /\ s \in Seq(Nested)
    BY <1>1, Up
  <2>2. Len(<<n>> \o s) = Len(s) + 1
    BY <2>1
  <2>. QED  BY <2>1, <2>2 DEF Depth
<1>. QED  BY <1>1, <1>2 DEF Depth

\* Below an agent are those it spawns and those below them, and never itself.
LEMMA UnderSteps ==
  ASSUME SpawnTree, NEW x \in Agents, NEW n \in Nested
  PROVE  /\ n \in Under(x) <=> Parent[n] = x \/ Parent[n] \in Under(x)
         /\ x \notin Under(x)
<1>. DEFINE p == Parent[n]
            s == Above[p]
<1>1. /\ Above[n] = <<n>> \o s /\ p \in Agents /\ s \in Seq(Nested)
      /\ p # Main => s # <<>> /\ s[1] = p
      /\ Main \notin Nested
  BY Up, AllFramed DEF Framed, SpawnTree
<1>2. CASE x = Main
  BY <1>1, <1>2 DEF Under, Agents
<1>3. CASE x # Main
  <2>1. (\E i \in DOMAIN Above[n] : Above[n][i] = x) <=> n = x \/ \E i \in DOMAIN s : s[i] = x
    <3>1. /\ DOMAIN Above[n] = 1..Len(s) + 1 /\ DOMAIN s = 1..Len(s) /\ Len(s) \in Nat
          /\ Above[n][1] = n
          /\ \A i \in 1..Len(s) : Above[n][i + 1] = s[i]
      <4>. HIDE DEF p, s
      <4>. QED  BY <1>1
    <3>. HIDE DEF p, s
    <3>2. ASSUME NEW i \in DOMAIN Above[n], i # 1 PROVE \E j \in DOMAIN s : Above[n][i] = s[j]
      <4>1. i - 1 \in 1..Len(s) /\ (i - 1) + 1 = i
        BY <3>1, <3>2
      <4>. QED  BY <3>1, <4>1
    <3>3. ASSUME NEW i \in DOMAIN s PROVE \E j \in DOMAIN Above[n] : Above[n][j] = s[i]
      <4>1. i + 1 \in 1..Len(s) + 1
        BY <3>1
      <4>. QED  BY <3>1, <4>1
    <3>4. 1 \in DOMAIN Above[n] /\ Above[n][1] = n
      BY <3>1
    <3>5. ASSUME NEW i \in DOMAIN Above[n], Above[n][i] = x
          PROVE  n = x \/ \E j \in DOMAIN s : s[j] = x
      BY <3>2, <3>4, <3>5
    <3>6. ASSUME NEW i \in DOMAIN s, s[i] = x PROVE \E j \in DOMAIN Above[n] : Above[n][j] = x
      BY <3>3, <3>6
    <3>. QED  BY <3>4, <3>5, <3>6, Zenon
  <2>2. n = x => ~\E i \in DOMAIN s : s[i] = x
    <3>1. \A i \in DOMAIN s : Depth(s[i]) <= Depth(p) /\ Depth(p) \in Nat
      <4>1. DOMAIN s = 1..Len(s) /\ Len(s) \in Nat /\ Depth(p) \in Nat
        BY <1>1, Deeper
      <4>2. \A i \in 1..Len(s) : Depth(s[i]) = Depth(p) + 1 - i
        BY <1>1, AllFramed DEF Framed
      <4>. HIDE DEF p, s
      <4>. QED  BY <4>1, <4>2
    <3>2. Depth(n) = Depth(p) + 1
      BY Deeper
    <3>. QED  BY <3>1, <3>2
  <2>3. p = x => \E i \in DOMAIN s : s[i] = x
    BY <1>1, <1>3
  <2>4. p = Main => s = <<>>
    BY Up
  <2>5. n \in Under(x) <=> \E i \in DOMAIN s : s[i] = x
    BY <1>3, <2>1, <2>2 DEF Under
  <2>6. p \in Under(x) <=> p # x /\ \E i \in DOMAIN s : s[i] = x
    <3>1. p \in Nested \/ p = Main
      BY <1>1 DEF Agents
    <3>. QED  BY <1>1, <1>3, <2>4, <3>1 DEF Under
  <2>. QED  BY <2>3, <2>5, <2>6 DEF Under
<1>. QED  BY <1>2, <1>3

---------------------------------------------------------------------------
(* Only *)

\* How the first i of a sequence are filtered.
OnlyUpto(s, S) ==
  CHOOSE f : f = [i \in 0..Len(s) |->
    IF i = 0 THEN <<>> ELSE IF s[i] \in S THEN Append(f[i - 1], s[i]) ELSE f[i - 1]]

LEMMA OnlyUptoIs ==
  ASSUME NEW X, NEW s \in Seq(X), NEW S
  PROVE  /\ OnlyUpto(s, S) = [i \in 0..Len(s) |->
              IF i = 0 THEN <<>>
              ELSE IF s[i] \in S THEN Append(OnlyUpto(s, S)[i - 1], s[i]) ELSE OnlyUpto(s, S)[i - 1]]
         /\ Only(s, S) = OnlyUpto(s, S)[Len(s)]
<1>. DEFINE Step(g, i) == IF i = 0 THEN <<>> ELSE IF s[i] \in S THEN Append(g[i - 1], s[i]) ELSE g[i - 1]
            T == {k \in Nat : \E g : g = [i \in 0..k |-> Step(g, i)]}
<1>1. 0 \in T
  <2>. DEFINE g == [i \in 0..0 |-> <<>>]
  <2>1. g = [i \in 0..0 |-> Step(g, i)]
    OBVIOUS
  <2>. QED  BY <2>1
<1>2. ASSUME NEW k \in Nat, k \in T PROVE k + 1 \in T
  <2>1. PICK g : g = [i \in 0..k |-> Step(g, i)]
    BY <1>2
  <2>. DEFINE f == [i \in 0..(k + 1) |-> Step(g, i)]
  <2>2. \A i \in 0..k : f[i] = g[i]
    <3>1. \A i \in 0..k : i \in 0..(k + 1)
      OBVIOUS
    <3>. HIDE DEF Step
    <3>. QED  BY <2>1, <3>1
  <2>3. \A i \in 0..(k + 1) : i # 0 => i - 1 \in 0..k
    OBVIOUS
  <2>4. f = [i \in 0..(k + 1) |-> Step(f, i)]
    BY <2>2, <2>3
  <2>5. k + 1 \in Nat
    OBVIOUS
  <2>. HIDE DEF f, Step
  <2>. QED  BY <2>4, <2>5
<1>3. Len(s) \in T
  <2>. HIDE DEF T
  <2>. QED  BY <1>1, <1>2, Induction
<1>4. \E g : g = [i \in 0..Len(s) |-> Step(g, i)]
  BY <1>3
<1>. QED  BY <1>4 DEF OnlyUpto, Only

\* It has the members that are in the set, each once and in their order.
Picks(t, n, s, S) ==
  \E e \in [DOMAIN t -> 1..n] :
    /\ \A i \in DOMAIN t : t[i] = s[e[i]] /\ t[i] \in S
    /\ \A i, j \in DOMAIN t : i < j => e[i] < e[j]
    /\ \A k \in 1..n : s[k] \in S => \E i \in DOMAIN t : e[i] = k

LEMMA PicksNext ==
  ASSUME NEW X, NEW s \in Seq(X), NEW S, NEW n \in Nat, n < Len(s),
         NEW t \in Seq(X), Picks(t, n, s, S)
  PROVE  LET u == IF s[n + 1] \in S THEN Append(t, s[n + 1]) ELSE t
         IN  u \in Seq(X) /\ Picks(u, n + 1, s, S)
<1>1. PICK e \in [DOMAIN t -> 1..n] :
        /\ \A i \in DOMAIN t : t[i] = s[e[i]] /\ t[i] \in S
        /\ \A i, j \in DOMAIN t : i < j => e[i] < e[j]
        /\ \A k \in 1..n : s[k] \in S => \E i \in DOMAIN t : e[i] = k
  BY DEF Picks
<1>2. DOMAIN t = 1..Len(t) /\ Len(t) \in Nat /\ s[n + 1] \in X
  OBVIOUS
<1>3. CASE s[n + 1] \in S
  <2>. DEFINE u == Append(t, s[n + 1])
              d == [i \in 1..(Len(t) + 1) |-> IF i = Len(t) + 1 THEN n + 1 ELSE e[i]]
  <2>1. /\ u \in Seq(X) /\ DOMAIN u = 1..(Len(t) + 1) /\ u[Len(t) + 1] = s[n + 1]
        /\ \A i \in DOMAIN t : u[i] = t[i] /\ i \in DOMAIN u
    BY <1>2
  <2>2. d \in [DOMAIN u -> 1..(n + 1)]
    BY <1>2, <2>1
  <2>3. \A i \in DOMAIN u : u[i] = s[d[i]] /\ u[i] \in S
    BY <1>1, <1>2, <1>3, <2>1
  <2>4. \A i, j \in DOMAIN u : i < j => d[i] < d[j]
    BY <1>1, <1>2, <2>1
  <2>5. \A k \in 1..(n + 1) : s[k] \in S => \E i \in DOMAIN u : d[i] = k
    <3>. SUFFICES ASSUME NEW k \in 1..(n + 1), s[k] \in S PROVE \E i \in DOMAIN u : d[i] = k
      OBVIOUS
    <3>1. CASE k = n + 1
      BY <1>2, <2>1, <3>1
    <3>2. CASE k \in 1..n
      <4>1. PICK i \in DOMAIN t : e[i] = k
        BY <1>1, <3>2
      <4>. QED  BY <1>2, <2>1, <4>1
    <3>. QED  BY <3>1, <3>2
  <2>. HIDE DEF u, d
  <2>6. Picks(u, n + 1, s, S)
    BY <2>2, <2>3, <2>4, <2>5 DEF Picks
  <2>. QED  BY <1>3, <2>1, <2>6 DEF u
<1>4. CASE s[n + 1] \notin S
  <2>1. e \in [DOMAIN t -> 1..(n + 1)]
    BY <1>1
  <2>2. \A k \in 1..(n + 1) : s[k] \in S => \E i \in DOMAIN t : e[i] = k
    BY <1>1, <1>4
  <2>3. Picks(t, n + 1, s, S)
    BY <1>1, <2>1, <2>2 DEF Picks
  <2>. QED  BY <1>4, <2>3
<1>. QED  BY <1>3, <1>4

LEMMA OnlyPicks ==
  ASSUME NEW X, NEW s \in Seq(X), NEW S
  PROVE  Only(s, S) \in Seq(X) /\ Picks(Only(s, S), Len(s), s, S)
<1>. DEFINE f == OnlyUpto(s, S)
            T == {k \in Nat : k <= Len(s) => f[k] \in Seq(X) /\ Picks(f[k], k, s, S)}
<1>1. 0 \in T
  <2>1. f[0] = <<>>
    BY OnlyUptoIs
  <2>2. DOMAIN <<>> = {} /\ 1..0 = {} /\ <<>> \in Seq(X) /\ <<>> \in [{} -> {}]
    OBVIOUS
  <2>3. Picks(<<>>, 0, s, S)
    BY <2>2 DEF Picks
  <2>. QED  BY <2>1, <2>2, <2>3
<1>2. ASSUME NEW k \in Nat, k \in T PROVE k + 1 \in T
  <2>. SUFFICES ASSUME k + 1 <= Len(s)
       PROVE  f[k + 1] \in Seq(X) /\ Picks(f[k + 1], k + 1, s, S)
    OBVIOUS
  <2>1. f[k] \in Seq(X) /\ Picks(f[k], k, s, S) /\ k < Len(s)
    BY <1>2
  <2>2. f[k + 1] = IF s[k + 1] \in S THEN Append(f[k], s[k + 1]) ELSE f[k]
    <3>1. k + 1 \in 0..Len(s) /\ (k + 1) - 1 = k /\ k + 1 # 0
      BY <2>1
    <3>2. f = [i \in 0..Len(s) |->
                 IF i = 0 THEN <<>> ELSE IF s[i] \in S THEN Append(f[i - 1], s[i]) ELSE f[i - 1]]
      BY OnlyUptoIs
    <3>. HIDE DEF f
    <3>. QED  BY <3>1, <3>2
  <2>. HIDE DEF f
  <2>. QED  BY <2>1, <2>2, PicksNext
<1>3. Len(s) \in T
  <2>. HIDE DEF T
  <2>. QED  BY <1>1, <1>2, Induction
<1>. QED  BY <1>3, OnlyUptoIs
\* Delegation ends at some depth.
LEMMA DepthsEnd ==
  ASSUME SpawnTree
  PROVE  \E k \in Nat : \A x \in Agents : Depth(x) <= k
<1>0. PICK k \in Nat : \E order \in [Agents -> 0..k] : \A n \in Nested : order[Parent[n]] < order[n]
  BY DEF SpawnTree
<1>1. PICK h \in [Agents -> 0..k] : \A n \in Nested : h[Parent[n]] < h[n]
  BY <1>0
<1>. DEFINE T == {i \in Nat : \A x \in Agents : h[x] < i => Depth(x) < i}
<1>2. 0 \in T
  BY <1>1
<1>3. ASSUME NEW i \in Nat, i \in T PROVE i + 1 \in T
  <2>. SUFFICES ASSUME NEW x \in Agents, h[x] < i + 1 PROVE Depth(x) < i + 1
    OBVIOUS
  <2>1. CASE x = Main
    <3>1. Depth(x) = 0
      BY <2>1, Up DEF Depth
    <3>. QED  BY <3>1
  <2>2. CASE x # Main
    <3>1. x \in Nested /\ Parent[x] \in Agents
      BY <2>2, Up DEF Agents
    <3>2. h[Parent[x]] < i
      BY <1>1, <3>1
    <3>3. Depth(Parent[x]) < i
      BY <1>3, <3>1, <3>2
    <3>. QED  BY <3>1, <3>3, Deeper
  <2>. QED  BY <2>1, <2>2
<1>4. k + 1 \in T
  <2>. HIDE DEF T
  <2>. QED  BY <1>2, <1>3, Induction
<1>5. \A x \in Agents : h[x] < k + 1
  BY <1>1
<1>6. \A x \in Agents : Depth(x) < k + 1
  BY <1>4, <1>5
<1>. QED  BY <1>6, Deeper

---------------------------------------------------------------------------
(* The budget of a run *)

LoopStates == {"off", "thinking", "tools", "parked", "done", "failed"}

\* The loops that can still save a step.
AtWork == {x \in Agents : at[x] \in {"thinking", "tools"}}

\* While a worker works its ledger is what the run has spent, so a loop that saves the step
\* which reaches the budget is over; until then there are no more rows than the budget, and no
\* more loops at work than were entered.
BudgetInv ==
  /\ at \in [Agents -> LoopStates]
  /\ rows \in Nat /\ entered \in Nat
  /\ worker = "off" =>
       /\ AtWork = {} /\ live = None
       /\ \A d \in DOMAIN line : line[d] = <<>>
  /\ worker # "off" => ledger = rows
  /\ Cardinality(AtWork) <= entered
  /\ rows + Cardinality(AtWork) < Budget + entered

LEMMA AtWorkIsFinite ==
  ASSUME IsFiniteSet(Nested), BudgetInv
  PROVE  /\ IsFiniteSet(AtWork) /\ Cardinality(AtWork) \in Nat
         /\ AtWork \subseteq Agents
<1>1. IsFiniteSet(Agents)
  BY FS_AddElement DEF Agents
<1>2. AtWork \in SUBSET Agents
  BY DEF AtWork
<1>3. IsFiniteSet(AtWork)
  BY <1>1, <1>2, FS_Subset
<1>. QED  BY <1>2, <1>3, FS_CardinalityType

\* One loop moves.
LEMMA LoopMoves ==
  ASSUME NEW f \in [Agents -> LoopStates], NEW x, NEW s \in LoopStates
  PROVE  [f EXCEPT ![x] = s] \in [Agents -> LoopStates]
<1>. DEFINE D == Agents
            R == LoopStates
<1>1. f \in [D -> R] /\ s \in R
  OBVIOUS
<1>. HIDE DEF D, R
<1>2. [f EXCEPT ![x] = s] \in [D -> R]
  BY <1>1, Zenon
<1>. QED  BY <1>2 DEF D, R

\* Steps that put no agent to work and bill nothing.
LEMMA NobodyEnters ==
  ASSUME IsFiniteSet(Nested), Budget \in Nat, BudgetInv, worker # "off", AtWork' \subseteq AtWork,
         at' \in [Agents -> LoopStates],
         UNCHANGED <<worker, rows, ledger, entered>>
  PROVE  BudgetInv'
<1>1. IsFiniteSet(AtWork) /\ Cardinality(AtWork) \in Nat
  BY AtWorkIsFinite
<1>2. Cardinality(AtWork') \in Nat /\ Cardinality(AtWork') <= Cardinality(AtWork)
  BY <1>1, FS_Subset, FS_CardinalityType
<1>. QED  BY <1>1, <1>2 DEF BudgetInv

\* Steps that put one agent to work, from a worker that works or begins with what was billed.
LEMMA OneEnters ==
  ASSUME IsFiniteSet(Nested), Budget \in Nat, BudgetInv, NEW x,
         AtWork' \subseteq AtWork \cup {x},
         at' \in [Agents -> LoopStates],
         worker' # "off", ledger' = rows, rows' = rows, entered' = entered + 1
  PROVE  BudgetInv'
<1>1. IsFiniteSet(AtWork) /\ Cardinality(AtWork) \in Nat
  BY AtWorkIsFinite
<1>2. /\ IsFiniteSet(AtWork \cup {x}) /\ Cardinality(AtWork \cup {x}) \in Nat
      /\ Cardinality(AtWork \cup {x}) <= Cardinality(AtWork) + 1
  <2>1. /\ IsFiniteSet(AtWork \cup {x})
        /\ Cardinality(AtWork \cup {x}) =
             IF x \in AtWork THEN Cardinality(AtWork) ELSE Cardinality(AtWork) + 1
    BY <1>1, FS_AddElement, Zenon
  <2>. QED  BY <1>1, <2>1
<1>3. Cardinality(AtWork') \in Nat /\ Cardinality(AtWork') <= Cardinality(AtWork) + 1
  BY <1>1, <1>2, FS_Subset, FS_CardinalityType
<1>. QED  BY <1>1, <1>3 DEF BudgetInv

\* A step that is saved: a loop that reaches the budget is over.
LEMMA SavedKeeps ==
  ASSUME IsFiniteSet(Nested), Budget \in Nat, BudgetInv, NEW x \in AtWork, NEW finish,
         Saved(x, finish)
  PROVE  BudgetInv'
<1>. DEFINE n == Cardinality(AtWork)
<1>1. IsFiniteSet(AtWork) /\ n \in Nat /\ x \in Agents /\ worker # "off" /\ ledger = rows
  BY AtWorkIsFinite DEF BudgetInv
<1>2. /\ rows' = rows + 1 /\ ledger' = ledger + 1
      /\ UNCHANGED <<worker, entered>>
      /\ \A y \in Agents : y # x => at'[y] = at[y]
      /\ at' \in [Agents -> LoopStates]
      /\ at'[x] = "thinking" => ~(ledger + 1 >= Budget)
      /\ at'[x] # "tools"
  <2>1. PICK s \in {"parked", "done", "thinking"} :
          /\ at' = [at EXCEPT ![x] = s]
          /\ s = "thinking" => ~(ledger + 1 >= Budget)
    BY Zenon DEF Saved, Exhausted
  <2>2. rows' = rows + 1 /\ ledger' = ledger + 1 /\ UNCHANGED <<worker, entered>>
    BY Zenon DEF Saved, counted
  <2>. QED  BY <1>1, <2>1, <2>2 DEF BudgetInv, LoopStates
<1>3. CASE rows + 1 >= Budget
  <2>1. AtWork' \subseteq AtWork \ {x}
    BY <1>1, <1>2, <1>3 DEF AtWork
  <2>2. IsFiniteSet(AtWork \ {x}) /\ Cardinality(AtWork \ {x}) = n - 1
    BY <1>1, FS_RemoveElement
  <2>3. Cardinality(AtWork') \in Nat /\ Cardinality(AtWork') <= n - 1
    BY <2>1, <2>2, FS_Subset, FS_CardinalityType
  <2>. QED  BY <1>1, <1>2, <2>3 DEF BudgetInv
<1>4. CASE ~(rows + 1 >= Budget)
  <2>1. AtWork' \subseteq AtWork
    BY <1>1, <1>2 DEF AtWork
  <2>2. Cardinality(AtWork') \in Nat /\ Cardinality(AtWork') <= n
    BY <1>1, <2>1, FS_Subset, FS_CardinalityType
  <2>. QED  BY <1>1, <1>2, <1>4, <2>2 DEF BudgetInv
<1>. QED  BY <1>3, <1>4

\* A cut bills each call it ends once at most.
LEMMA CutBills ==
  ASSUME IsFiniteSet(Nested), BudgetInv, NEW x \in Agents, rows' \in Billed(x)
  PROVE  \E k \in Nat :
           rows' = rows + k /\ k <= Cardinality(AtWork \cap (Under(x) \cup {x}))
<1>. DEFINE B == {y \in Under(x) \cup {x} : at[y] \in {"thinking", "tools"}}
<1>1. B = AtWork \cap (Under(x) \cup {x})
  BY DEF AtWork, Under, Agents
<1>2. IsFiniteSet(B) /\ Cardinality(B) \in Nat
  BY <1>1, AtWorkIsFinite, FS_Subset, FS_CardinalityType
<1>4. PICK n \in 0..Cardinality(B) : rows' = rows + n
  BY DEF Billed
<1>. HIDE DEF B
<1>5. n \in Nat /\ n <= Cardinality(B)
  BY <1>2, <1>4
<1>. QED  BY <1>1, <1>4, <1>5, Zenon

\* A nested run that fails takes the loops below it out of work.
LEMMA FailsKeeps ==
  ASSUME IsFiniteSet(Nested), Budget \in Nat, BudgetInv, NEW x \in Agents, Fails(x)
  PROVE  BudgetInv'
<1>. DEFINE n == Cardinality(AtWork)
            C == Under(x) \cup {x}
            b == Cardinality(AtWork \cap C)
<1>1. IsFiniteSet(AtWork) /\ n \in Nat /\ worker # "off" /\ ledger = rows
  BY AtWorkIsFinite DEF BudgetInv, AtWork, Fails
<1>2. ledger' = ledger + (rows' - rows) /\ worker' = worker /\ entered' = entered
  BY DEF Fails
<1>3. at' = [y \in Agents |-> IF y = x THEN "failed" ELSE IF y \in Under(x) THEN "off" ELSE at[y]]
  BY DEF Fails
<1>4. rows' \in Billed(x)
  BY DEF Fails
<1>5. PICK k \in Nat : rows' = rows + k /\ k <= b
  BY <1>4, CutBills
<1>6. at' \in [Agents -> LoopStates]
  <2>1. at \in [Agents -> LoopStates]
    BY DEF BudgetInv
  <2>. QED  BY <1>3, <2>1 DEF LoopStates
<1>7. AtWork' \subseteq AtWork \ C
  BY <1>3 DEF AtWork
<1>8. PICK c \in Nat : c = Cardinality(AtWork') /\ b \in Nat /\ c + b <= n
  <2>1. IsFiniteSet(AtWork \ C) /\ Cardinality(AtWork \ C) = n - b
    BY <1>1, FS_Difference, Zenon
  <2>2. IsFiniteSet(AtWork \cap C)
    BY <1>1, FS_Subset
  <2>3. /\ b \in Nat /\ Cardinality(AtWork') \in Nat
        /\ Cardinality(AtWork') <= n - b
    BY <1>7, <2>1, <2>2, FS_Subset, FS_CardinalityType
  <2>. HIDE DEF n, b, C
  <2>. QED  BY <1>1, <2>3
<1>. HIDE DEF n, b, C
<1>9. rows \in Nat /\ entered \in Nat /\ n <= entered /\ rows + n < Budget + entered
  BY DEF BudgetInv, n
<1>10. rows + k \in Nat /\ rows + k + c < Budget + entered /\ c <= entered
  BY <1>1, <1>5, <1>8, <1>9
<1>11. (rows + k) - rows = k
  BY <1>9
<1>12. ledger' = rows + k
  BY <1>1, <1>2, <1>5, <1>11
<1>. QED  BY <1>1, <1>2, <1>5, <1>6, <1>8, <1>9, <1>10, <1>12 DEF BudgetInv

\* What a worker held is gone: nobody is at work.
LEMMA GoneKeeps ==
  ASSUME IsFiniteSet(Nested), Budget \in Nat, BudgetInv, Gone, entered' = entered,
         rows' \in Nat, rows' <= rows + Cardinality(AtWork)
  PROVE  BudgetInv'
<1>1. Cardinality(AtWork) \in Nat
  BY AtWorkIsFinite
<1>2. AtWork' = {} /\ worker' = "off" /\ live' = None /\ \A d \in DOMAIN line' : line'[d] = <<>>
  BY DEF Gone, AtWork
<1>3. at' \in [Agents -> LoopStates]
  BY DEF Gone, LoopStates
<1>4. Cardinality(AtWork') = 0
  BY <1>2, FS_EmptySet
<1>5. live' = (None)'
  BY <1>2 DEF None
<1>. QED  BY <1>1, <1>2, <1>3, <1>4, <1>5 DEF BudgetInv

\* A spawned or resumed agent is entered by a worker that works.
LEMMA EntersKeep ==
  ASSUME IsFiniteSet(Nested), Budget \in Nat, BudgetInv, NEW x, Enter(x), worker # "off",
         UNCHANGED <<worker, rows, ledger>>
  PROVE  BudgetInv'
<1>1. at' = [at EXCEPT ![x] = "thinking"] /\ entered' = entered + 1
  BY DEF Enter
<1>2. at \in [Agents -> LoopStates]
  BY DEF BudgetInv
<1>4. at' \in [Agents -> LoopStates]
  <2>1. "thinking" \in LoopStates
    BY DEF LoopStates
  <2>2. [at EXCEPT ![x] = "thinking"] \in [Agents -> LoopStates]
    BY <1>2, <2>1, LoopMoves
  <2>. QED  BY <1>1, <2>2, Zenon
<1>5. AtWork' \subseteq AtWork \cup {x}
  BY <1>1, <1>2 DEF AtWork
<1>3. worker' # "off" /\ ledger' = rows /\ rows' = rows
  BY DEF BudgetInv
<1>. QED  BY <1>1, <1>3, <1>4, <1>5, OneEnters

\* The main agent is entered with a ledger that holds what was billed.
LEMMA StartsKeep ==
  ASSUME IsFiniteSet(Nested), Budget \in Nat, BudgetInv, StartLoop,
         worker' # "off", ledger' = rows, rows' = rows
  PROVE  BudgetInv'
<1>1. PICK s \in LoopStates : at' = [at EXCEPT ![Main] = s]
  <2>1. CASE answered
    BY <2>1 DEF StartLoop, LoopStates
  <2>2. CASE ~answered
    BY <2>2 DEF StartLoop, LoopStates
  <2>. QED  BY <2>1, <2>2
<1>2. at \in [Agents -> LoopStates]
  BY DEF BudgetInv
<1>3. entered' = entered + 1
  BY DEF StartLoop
<1>4. at' \in [Agents -> LoopStates]
  <2>1. [at EXCEPT ![Main] = s] \in [Agents -> LoopStates]
    BY <1>2, LoopMoves
  <2>. QED  BY <1>1, <2>1, Zenon
<1>5. AtWork' \subseteq AtWork \cup {Main}
  BY <1>1, <1>2 DEF AtWork
<1>. QED  BY <1>3, <1>4, <1>5, OneEnters

LEMMA AgentsKeepBudget ==
  ASSUME IsFiniteSet(Nested), Budget \in Nat, BudgetInv, Next
  PROVE  BudgetInv'
<1>0. /\ at \in [Agents -> LoopStates] /\ rows \in Nat
      /\ Cardinality(AtWork) \in Nat
  BY AtWorkIsFinite DEF BudgetInv
<1>1. ASSUME NEW x \in Agents, NEW new, Asks(x, new) PROVE BudgetInv'
  <2>1. /\ at[x] = "thinking" /\ at' = [at EXCEPT ![x] = "tools"]
        /\ UNCHANGED <<worker, rows, ledger, entered>>
    BY <1>1 DEF Asks, durable, counted
  <2>2. at' \in [Agents -> LoopStates]
    <3>1. "tools" \in LoopStates
      BY DEF LoopStates
    <3>2. [at EXCEPT ![x] = "tools"] \in [Agents -> LoopStates]
      BY <1>0, <3>1, LoopMoves
    <3>. QED  BY <2>1, <3>2, Zenon
  <2>4. AtWork' \subseteq AtWork
    BY <1>0, <2>1 DEF AtWork
  <2>3. worker # "off"
    BY <2>1 DEF BudgetInv, AtWork
  <2>. QED  BY <2>1, <2>2, <2>3, <2>4, NobodyEnters
<1>2. ASSUME NEW x \in Agents, SavesTools(x) \/ Answers(x) PROVE BudgetInv'
  <2>1. x \in AtWork /\ \E finish : Saved(x, finish)
    BY <1>2 DEF SavesTools, Answers, AtWork
  <2>. QED  BY <2>1, SavedKeeps
<1>3. ASSUME NEW x \in Agents, Fails(x) PROVE BudgetInv'
  BY <1>3, FailsKeeps
<1>4. ASSUME NEW n \in Nested, live[n] = "called" \/ live[n] = "running" PROVE worker # "off"
  BY <1>4 DEF BudgetInv, None, Calls
<1>5. ASSUME NEW n \in Nested, Spawn(n) PROVE BudgetInv'
  <2>1. /\ worker # "off" /\ UNCHANGED <<worker, rows, ledger>>
        /\ Enter(n) \/ UNCHANGED <<at, entered>>
    BY <1>4, <1>5 DEF Spawn, Runs
  <2>2. CASE Enter(n)
    BY <2>1, <2>2, EntersKeep
  <2>3. CASE UNCHANGED <<at, entered>>
    BY <1>0, <2>1, <2>3, NobodyEnters DEF AtWork
  <2>. QED  BY <2>1, <2>2, <2>3
<1>6. ASSUME NEW d \in DOMAIN line, Granted(d) PROVE BudgetInv'
  <2>1. line[d] # <<>> /\ Enter(Head(line[d])) /\ UNCHANGED <<worker, rows, ledger>>
    BY <1>6 DEF Granted, Runs
  <2>2. worker # "off"
    BY <2>1 DEF BudgetInv
  <2>. QED  BY <2>1, <2>2, EntersKeep
<1>7. ASSUME NEW n \in Nested, Returns(n) PROVE BudgetInv'
  <2>1. /\ live[n] = "running" /\ at' = [at EXCEPT ![n] = "off"]
        /\ UNCHANGED <<worker, rows, ledger, entered>>
    BY <1>7 DEF Returns, counted
  <2>2. at' \in [Agents -> LoopStates]
    <3>1. "off" \in LoopStates
      BY DEF LoopStates
    <3>2. [at EXCEPT ![n] = "off"] \in [Agents -> LoopStates]
      BY <1>0, <3>1, LoopMoves
    <3>. QED  BY <2>1, <3>2, Zenon
  <2>4. AtWork' \subseteq AtWork
    BY <1>0, <2>1 DEF AtWork
  <2>. QED  BY <1>4, <2>1, <2>2, <2>4, NobodyEnters
<1>8. ASSUME Begins PROVE BudgetInv'
  BY <1>8, StartsKeep DEF Begins, Seed, durable
<1>9. ASSUME Resumes PROVE BudgetInv'
  <2>1. /\ worker = "off" /\ worker' = "unwind" /\ ledger' = rows
        /\ UNCHANGED <<at, rows, entered>>
    BY <1>9 DEF Resumes, Seed, durable, counted
  <2>2. AtWork' = AtWork
    BY <2>1 DEF AtWork
  <2>. QED  BY <2>1, <2>2 DEF BudgetInv
<1>10. ASSUME Ends \/ ParksAgain \/ Dies PROVE BudgetInv'
  <2>1. Gone /\ UNCHANGED <<rows, entered>>
    BY <1>10 DEF Ends, ParksAgain, Dies, durable, counted
  <2>. QED  BY <1>0, <2>1, GoneKeeps
<1>11. ASSUME MainFails \/ StopsLoop PROVE BudgetInv'
  <2>1. Gone /\ entered' = entered /\ rows' \in Billed(Main)
    BY <1>11 DEF MainFails, StopsLoop
  <2>2. PICK k \in Nat : rows' = rows + k
                         /\ k <= Cardinality(AtWork \cap (Under(Main) \cup {Main}))
    BY <2>1, CutBills DEF Agents
  <2>3. PICK b \in Nat : b <= Cardinality(AtWork) /\ k <= b
    BY <2>2, AtWorkIsFinite, FS_Subset, FS_CardinalityType
  <2>4. rows' \in Nat /\ rows' <= rows + Cardinality(AtWork)
    BY <1>0, <2>2, <2>3
  <2>. QED  BY <2>1, <2>4, GoneKeeps
<1>12. ASSUME ToolRuns \/ ToolKept \/ Lands \/ Clears \/ Hands
              \/ NextPark
       PROVE  BudgetInv'
  <2>1. worker = "unwind" /\ UNCHANGED <<worker, at, rows, ledger, entered>>
    BY <1>12 DEF ToolRuns, ToolKept, Lands, Clears,
                 Hands, NextPark, durable, counted
  <2>. QED  BY <1>0, <2>1, NobodyEnters DEF AtWork
<1>13. ASSUME Reenters PROVE BudgetInv'
  <2>1. worker = "unwind" /\ Enter(Frame) /\ UNCHANGED <<worker, rows, ledger>>
    BY <1>13 DEF Reenters, AtFrame, durable
  <2>. QED  BY <2>1, EntersKeep
<1>14. ASSUME Closes PROVE BudgetInv'
  <2>1. /\ worker = "unwind" /\ at' = [at EXCEPT ![Frame] = "off"]
        /\ UNCHANGED <<worker, rows, ledger, entered>>
    BY <1>14 DEF Closes, AtFrame, counted
  <2>2. at' \in [Agents -> LoopStates]
    <3>1. "off" \in LoopStates
      BY DEF LoopStates
    <3>2. [at EXCEPT ![Frame] = "off"] \in [Agents -> LoopStates]
      BY <1>0, <3>1, LoopMoves
    <3>. QED  BY <2>1, <3>2, Zenon
  <2>4. AtWork' \subseteq AtWork
    BY <1>0, <2>1 DEF AtWork
  <2>. QED  BY <2>1, <2>2, <2>4, NobodyEnters
<1>15. ASSUME Unwound PROVE BudgetInv'
  <2>1. /\ worker = "unwind" /\ worker' = "loop" /\ StartLoop
        /\ UNCHANGED <<rows, ledger>>
    BY <1>15 DEF Unwound
  <2>2. ledger' = rows
    BY <2>1 DEF BudgetInv
  <2>. QED  BY <2>1, <2>2, StartsKeep
<1>16. ASSUME (\E p \in Parks, v \in {"approved", "denied"} : Verdict(p, v)) \/ StopsParked
       PROVE  BudgetInv'
  <2>1. UNCHANGED <<worker, at, live, line, rows, ledger, entered>>
    BY <1>16 DEF Verdict, StopsParked, memory, counted
  <2>2. AtWork' = AtWork /\ (None)' = None
    BY <2>1 DEF AtWork, None
  <2>. QED  BY <2>1, <2>2 DEF BudgetInv
<1>. QED
  BY <1>1, <1>2, <1>3, <1>5, <1>6, <1>7, <1>8, <1>9, <1>10, <1>11, <1>12, <1>13, <1>14, <1>15, <1>16
  DEF Next

LEMMA BudgetStarts == ASSUME Budget \in Nat \ {0}, Init PROVE BudgetInv
<1>1. AtWork = {} /\ at = [x \in Agents |-> "off"] /\ rows = 0 /\ entered = 0
      /\ worker = "off" /\ live = None /\ \A d \in DOMAIN line : line[d] = <<>>
  BY DEF Init, AtWork
<1>2. Cardinality(AtWork) = 0
  BY <1>1, FS_EmptySet
<1>3. at \in [Agents -> LoopStates]
  BY <1>1 DEF LoopStates
<1>. QED  BY <1>1, <1>2, <1>3 DEF BudgetInv

LEMMA BudgetStays ==
  ASSUME IsFiniteSet(Nested), Budget \in Nat, BudgetInv, [Next]_vars
  PROVE  BudgetInv'
<1>1. CASE Next
  BY <1>1, AgentsKeepBudget
<1>2. CASE UNCHANGED vars
  <2>1. UNCHANGED <<at, rows, entered, worker, live, line, ledger>>
    BY <1>2 DEF vars, durable, memory, counted
  <2>2. AtWork' = AtWork /\ None' = None
    BY <2>1 DEF AtWork, None
  <2>. QED  BY <2>1, <2>2 DEF BudgetInv
<1>. QED  BY <1>1, <1>2

\* A run and all the agents it nests have one budget, whatever is spawned, parked, resumed, cut
\* and redelivered: past it, each loop that was entered finishes at most the step it was in
\* (core/usage.ts, RunLedger; core/loop.ts).
THEOREM SpendStaysBounded ==
  ASSUME IsFiniteSet(Nested), Budget \in Nat \ {0}
  PROVE  Spec => []SpendBounded
<1>1. Init => BudgetInv
  BY BudgetStarts
<1>2. BudgetInv /\ [Next]_vars => BudgetInv'
  BY BudgetStays
<1>3. BudgetInv => SpendBounded
  <2>. SUFFICES ASSUME BudgetInv PROVE rows < Budget + entered
    BY DEF SpendBounded
  <2>1. Cardinality(AtWork) \in Nat
    BY AtWorkIsFinite
  <2>. QED  BY <2>1 DEF BudgetInv
<1>. QED  BY <1>1, <1>2, <1>3, PTL DEF Spec

---------------------------------------------------------------------------
(* Nobody is stuck *)

LiveStates == {"none", "called", "queued", "running", "parked", "ok"}
Stages == {"settle", "keep", "land", "clear", "unwind", "hand"}

AgentsTypeOK ==
  /\ worker \in {"off", "loop", "unwind"}
  /\ at \in [Agents -> LoopStates]
  /\ live \in [Calls -> LiveStates]
  /\ \A p \in Parks : live[p] \in {"none", "parked"}
  /\ line \in [1..MaxDepth -> Seq(Nested)]
  /\ requests \in Seq(Parks) /\ box \in Seq(Parks)
  /\ unwind \in Seq([park : Parks, frame : Nat \ {0}, stage : Stages])

\* Who is in line is there once, for its own depth, and who waits for a slot is in line.
InLine ==
  /\ \A d \in 1..MaxDepth : \A i \in DOMAIN line[d] :
       /\ live[line[d][i]] = "queued" /\ Depth(line[d][i]) = d
       /\ \A j \in DOMAIN line[d] : i # j => line[d][i] # line[d][j]
  /\ \A n \in Nested : live[n] = "queued" =>
       Depth(n) \in 1..MaxDepth /\ \E i \in DOMAIN line[Depth(n)] : line[Depth(n)][i] = n

\* A call is live while its agent waits for its tools; a nested run is in a loop while its
\* call runs, or when an unwind entered it again.
Nesting ==
  /\ \A x \in Agents : \A c \in CallsOf(x) : live[c] # "none" => at[x] = "tools"
  /\ \A n \in Nested : live[n] = "running" => at[n] # "off"
  /\ \A n \in Nested : at[n] # "off" => live[n] = "running" \/ (AtFrame /\ n = Frame)

\* An unwind has no loops but the one it entered again and those below; with no worker
\* there are none.
AtWorkBelow ==
  /\ worker = "unwind" => \A x \in Agents : at[x] # "off" => AtFrame /\ x \in Under(Frame) \cup {Frame}
  /\ worker = "off" => /\ \A x \in Agents : at[x] = "off"
                       /\ live = None /\ box = <<>>
                       /\ \A d \in 1..MaxDepth : line[d] = <<>>
  /\ worker # "unwind" => unwind = <<>>

TreeInv == AgentsTypeOK /\ InLine /\ Nesting /\ AtWorkBelow

---------------------------------------------------------------------------
(* An approved tool runs once *)

DurableTypeOK ==
  /\ results \in [Calls -> Nat]
  /\ verdicts \in [Parks -> {"open", "approved", "denied"}]
  /\ ran \in [Parks -> Nat] /\ unsure \in [Parks -> Nat]

\* A call is asked for once.
AskedOnce ==
  /\ \A i, j \in DOMAIN requests : i # j => requests[i] # requests[j]
  /\ \A i, j \in DOMAIN box : i # j => box[i] # box[j]
  /\ \A i \in DOMAIN requests, j \in DOMAIN box : requests[i] # box[j]

\* The unwind has the requests that are open, in the order they were made.
UnwindIsOpen ==
  worker = "unwind" =>
    /\ thread # "RUNNING"
    /\ \A i \in DOMAIN unwind : \E k \in DOMAIN requests : unwind[i].park = requests[k]
    /\ \A i, j \in DOMAIN unwind, k, l \in DOMAIN requests :
         i < j /\ unwind[i].park = requests[k] /\ unwind[j].park = requests[l] => k < l
    /\ \A k \in DOMAIN requests : IsOpen(requests[k]) => \E i \in DOMAIN unwind : unwind[i].park = requests[k]
    /\ \A k \in DOMAIN requests : results[requests[k]] = 0 => verdicts[requests[k]] # "open"

\* A park has its result from "clear" on, and its frames below the one it stands at.
UnwindStands ==
  \A i \in DOMAIN unwind : LET u == unwind[i] IN
    /\ u.stage \in {"settle", "keep", "land"} <=> results[u.park] = 0
    /\ \A k \in DOMAIN Frames(u.park) : k < u.frame => results[Frames(u.park)[k]] # 0
    /\ u.stage = "hand" => u.frame \in DOMAIN Frames(u.park)

\* A tool that has run and has no result is the first that is open, and no loop is before
\* it has one.
Unsettled(p) == ran[p] > 0 /\ results[p] = 0
FirstOpen ==
  \A p \in Parks : Unsettled(p) =>
    /\ worker # "loop" /\ thread # "RUNNING"
    /\ worker = "unwind" => unwind # <<>> /\ Now.park = p
    /\ \E k \in DOMAIN requests : requests[k] = p /\ \A i \in 1..(k - 1) : ~IsOpen(requests[i])
    /\ \A k \in DOMAIN requests : results[requests[k]] = 0 => verdicts[requests[k]] # "open"

\* A tool that has run more often than workers died at it has its output kept or its result.
RanOnce ==
  \A p \in Parks :
    /\ ran[p] <= 1 + unsure[p]
    /\ ran[p] <= unsure[p] \/ p \in kept \/ results[p] # 0
         \/ (worker = "unwind" /\ unwind # <<>> /\ Now.park = p /\ Now.stage = "keep")

ToolInv == DurableTypeOK /\ AskedOnce /\ UnwindIsOpen /\ UnwindStands /\ FirstOpen /\ RanOnce

---------------------------------------------------------------------------
LEMMA OneCaller ==
  ASSUME SpawnTree
  PROVE  /\ \A x, y \in Agents : \A c \in CallsOf(x) : c \in CallsOf(y) => x = y
         /\ \A x \in Agents : CallsOf(x) \subseteq Calls
         /\ \A n \in Nested : n \in CallsOf(Parent[n]) /\ Parent[n] \in Agents /\ n \in Agents /\ n \in Calls
         /\ \A x \in Agents, n \in Nested : n \in CallsOf(x) => Parent[n] = x
         /\ \A p \in Parks : p \in Calls
  BY DEF SpawnTree, CallsOf, Calls, Agents

LEMMA NowIs ==
  ASSUME AgentsTypeOK, unwind # <<>>
  PROVE  /\ Now \in [park : Parks, frame : Nat \ {0}, stage : Stages]
         /\ Now = unwind[1]
         /\ Tail(unwind) \in Seq([park : Parks, frame : Nat \ {0}, stage : Stages])
<1>. DEFINE R == [park : Parks, frame : Nat \ {0}, stage : Stages]
<1>1. unwind \in Seq(R)
  BY DEF AgentsTypeOK
<1>. HIDE DEF R
<1>2. Now \in R /\ Now = unwind[1] /\ Tail(unwind) \in Seq(R)
  BY <1>1 DEF Now
<1>. QED  BY <1>2 DEF R

LEMMA FrameIs ==
  ASSUME SpawnTree, AgentsTypeOK, AtFrame
  PROVE  Frame \in Nested /\ Frame \in Agents
<1>1. Now \in [park : Parks, frame : Nat \ {0}, stage : Stages]
  BY NowIs DEF AtFrame
<1>2. Frames(Now.park) \in Seq(Nested)
  BY <1>1, AllFramed DEF Frames, Framed, SpawnTree
<1>3. Now.frame \in 1..Len(Frames(Now.park))
  BY <1>1, <1>2 DEF AtFrame
<1>. QED  BY <1>2, <1>3 DEF Frame, Agents

LEMMA SameFrame ==
  ASSUME UNCHANGED <<worker, unwind>>
  PROVE  AtFrame' = AtFrame /\ Frame' = Frame
  BY DEF AtFrame, Frame, Now

LEMMA LineStays ==
  ASSUME InLine, line' = line, \A n \in Nested : live[n] = "queued" <=> live'[n] = "queued",
         AgentsTypeOK
  PROVE  InLine'
<1>1. \A d \in 1..MaxDepth : \A i \in DOMAIN line[d] : line[d][i] \in Nested
  BY DEF AgentsTypeOK
<1>. QED  BY <1>1 DEF InLine

LEMMA AsksKeepsTree ==
  ASSUME SpawnTree, TreeInv, NEW x \in Agents, NEW asked \in SUBSET CallsOf(x), Asks(x, asked)
  PROVE  TreeInv'
<1>. USE DEF TreeInv
<1>1. /\ at[x] = "thinking" /\ at' = [at EXCEPT ![x] = "tools"]
      /\ live' = [c \in Calls |-> IF c \notin asked THEN live[c]
                                  ELSE IF c \in Parks THEN "parked" ELSE "called"]
      /\ \A c \in asked : live[c] = "none"
      /\ UNCHANGED <<worker, requests, line, unwind>>
  BY DEF Asks, Fresh, durable
<1>2. box' \in Seq(Parks)
  <2>1. PICK new \in [1..Cardinality(asked \cap Parks) -> asked \cap Parks] : box' = box \o new
    BY DEF Asks
  <2>2. Cardinality(asked \cap Parks) \in Nat
    <3>1. IsFiniteSet(asked \cap Parks)
      BY FS_Subset DEF SpawnTree
    <3>. QED  BY <3>1, FS_CardinalityType
  <2>3. new \in Seq(Parks)
    <3>. DEFINE n == Cardinality(asked \cap Parks)
    <3>1. n \in Nat /\ new \in [1..n -> Parks]
      BY <2>1, <2>2
    <3>. HIDE DEF n
    <3>. QED  BY <3>1
  <2>. QED  BY <2>1, <2>3 DEF AgentsTypeOK
<1>3. AgentsTypeOK'
  <2>1. at' \in [Agents -> LoopStates]
    BY <1>1 DEF AgentsTypeOK, LoopStates
  <2>2. live' \in [Calls -> LiveStates] /\ \A p \in Parks : live'[p] \in {"none", "parked"}
    BY <1>1, OneCaller DEF AgentsTypeOK, LiveStates
  <2>. QED  BY <1>1, <1>2, <2>1, <2>2 DEF AgentsTypeOK
<1>4. \A c \in Calls : (live[c] # "none" => live'[c] = live[c])
                       /\ (live'[c] \in {"queued", "running"} => live[c] = live'[c])
  BY <1>1
<1>5. \A y \in Agents : at'[y] # "off" <=> at[y] # "off"
  BY <1>1 DEF AgentsTypeOK
<1>6. InLine'
  BY <1>1, <1>4, OneCaller, LineStays
<1>7. Nesting'
  <2>1. ASSUME NEW y \in Agents, NEW c \in CallsOf(y), live'[c] # "none" PROVE at'[y] = "tools"
    BY <1>1, <2>1, OneCaller DEF Nesting, AgentsTypeOK
  <2>2. \A n \in Nested : live'[n] = "running" => at'[n] # "off"
    BY <1>4, <1>5, OneCaller DEF Nesting
  <2>3. \A n \in Nested : at'[n] # "off" => live'[n] = "running" \/ (AtFrame' /\ n = Frame')
    BY <1>1, <1>4, <1>5, OneCaller, SameFrame DEF Nesting
  <2>. QED  BY <2>1, <2>2, <2>3 DEF Nesting
<1>8. AtWorkBelow'
  <2>1. worker # "off"
    BY <1>1 DEF AtWorkBelow
  <2>. QED  BY <1>1, <1>5, <2>1, SameFrame DEF AtWorkBelow, Under
<1>. QED  BY <1>3, <1>6, <1>7, <1>8

LEMMA SavedKeepsTree ==
  ASSUME SpawnTree, TreeInv, NEW x \in Agents, SavesTools(x) \/ Answers(x)
  PROVE  TreeInv'
<1>. USE DEF TreeInv
<1>1. PICK s \in {"parked", "done", "thinking"} : at' = [at EXCEPT ![x] = s]
  BY Zenon DEF SavesTools, Answers, Saved
<1>2. /\ at[x] \in {"thinking", "tools"}
      /\ live' = [c \in Calls |-> IF c \in InStep(x) THEN "none" ELSE live[c]]
      /\ \A c \in InStep(x) : live[c] \in {"parked", "ok"}
      /\ UNCHANGED <<worker, line, unwind>>
  <2>1. CASE SavesTools(x)
    BY <2>1 DEF SavesTools, Saved
  <2>2. CASE Answers(x)
    <3>1. InStep(x) = {}
      BY <2>2 DEF Answers, Nesting, InStep
    <3>2. /\ at[x] = "thinking"
          /\ live' = [c \in Calls |-> IF c \in InStep(x) THEN "none" ELSE live[c]]
          /\ UNCHANGED <<worker, line, unwind>>
      BY <2>2 DEF Answers, Saved
    <3>. QED  BY <3>1, <3>2
  <2>. QED  BY <2>1, <2>2
<1>3. requests' \in Seq(Parks) /\ box' \in Seq(Parks)
  <2>1. \/ requests' = requests \o box /\ box' = <<>>
        \/ UNCHANGED <<requests, box>>
    BY Zenon DEF SavesTools, Answers, Saved, Committed
  <2>2. requests \in Seq(Parks) /\ box \in Seq(Parks)
    BY DEF AgentsTypeOK
  <2>3. requests \o box \in Seq(Parks) /\ <<>> \in Seq(Parks)
    BY <2>2
  <2>. QED  BY <2>1, <2>2, <2>3, Zenon
<1>4. AgentsTypeOK'
  <2>1. at' \in [Agents -> LoopStates]
    BY <1>1 DEF AgentsTypeOK, LoopStates
  <2>2. live' \in [Calls -> LiveStates] /\ \A p \in Parks : live'[p] \in {"none", "parked"}
    BY <1>2, OneCaller DEF AgentsTypeOK, LiveStates
  <2>. QED  BY <1>2, <1>3, <2>1, <2>2 DEF AgentsTypeOK
<1>5. \A c \in Calls : /\ live[c] \in {"queued", "running"} => live'[c] = live[c]
                       /\ live'[c] # "none" => live[c] = live'[c] /\ c \notin InStep(x)
  BY <1>2
<1>6. \A y \in Agents : (at'[y] # "off" <=> at[y] # "off") /\ (y # x => at'[y] = at[y])
  BY <1>1, <1>2 DEF AgentsTypeOK
<1>7. InLine'
  BY <1>2, <1>5, OneCaller, LineStays
<1>8. Nesting'
  <2>1. ASSUME NEW y \in Agents, NEW c \in CallsOf(y), live'[c] # "none" PROVE at'[y] = "tools"
    <3>1. c \in Calls /\ live[c] # "none" /\ c \notin InStep(x)
      BY <1>5, <2>1, OneCaller
    <3>2. y # x
      BY <3>1 DEF InStep
    <3>. QED  BY <1>6, <3>1, <3>2 DEF Nesting
  <2>2. \A n \in Nested : live'[n] = "running" => at'[n] # "off"
    BY <1>5, <1>6, OneCaller DEF Nesting
  <2>3. \A n \in Nested : at'[n] # "off" => live'[n] = "running" \/ (AtFrame' /\ n = Frame')
    BY <1>2, <1>5, <1>6, OneCaller, SameFrame DEF Nesting
  <2>. QED  BY <2>1, <2>2, <2>3 DEF Nesting
<1>9. AtWorkBelow'
  <2>1. worker # "off"
    BY <1>2 DEF AtWorkBelow
  <2>. QED  BY <1>2, <1>6, <2>1, SameFrame DEF AtWorkBelow, Under
<1>. QED  BY <1>4, <1>7, <1>8, <1>9

\* A call is entered below the agent that made it.
LEMMA RunsKeepsTree ==
  ASSUME SpawnTree, TreeInv, NEW n \in Nested, live[n] \in {"called", "queued"}, Runs(n),
         line' \in [1..MaxDepth -> Seq(Nested)], UNCHANGED <<worker, requests, box, unwind>>
  PROVE  AgentsTypeOK' /\ Nesting' /\ AtWorkBelow'
<1>. USE DEF TreeInv
<1>1. /\ live' = [live EXCEPT ![n] = "running"]
      /\ at' = [at EXCEPT ![n] = "thinking"]
  BY DEF Runs, Enter
<1>2. at[Parent[n]] = "tools"
  BY OneCaller DEF Nesting
<1>3. worker = "unwind" => AtFrame /\ n \in Under(Frame)
  BY <1>2, OneCaller, FrameIs, UnderSteps DEF AtWorkBelow
<1>4. at[n] = "off"
  <2>1. n \notin Under(n)
    BY UnderSteps, OneCaller
  <2>. QED  BY <1>3, <2>1 DEF Nesting, AtFrame
<1>5. AgentsTypeOK'
  <2>1. at' \in [Agents -> LoopStates]
    BY <1>1 DEF AgentsTypeOK, LoopStates
  <2>2. live' \in [Calls -> LiveStates] /\ \A p \in Parks : live'[p] \in {"none", "parked"}
    BY <1>1, OneCaller DEF AgentsTypeOK, LiveStates, SpawnTree
  <2>. QED  BY <2>1, <2>2 DEF AgentsTypeOK
<1>6. /\ \A c \in Calls : c # n => live'[c] = live[c]
      /\ live'[n] = "running" /\ at'[n] = "thinking"
      /\ \A y \in Agents : y # n => at'[y] = at[y]
  BY <1>1, OneCaller DEF AgentsTypeOK
<1>7. Nesting'
  <2>1. ASSUME NEW y \in Agents, NEW c \in CallsOf(y), live'[c] # "none" PROVE at'[y] = "tools"
    <3>1. y # n
      BY <1>4, <1>6, <2>1, OneCaller, UnderSteps DEF Nesting
    <3>2. CASE c = n
      BY <1>2, <1>6, <3>1, <3>2, OneCaller
    <3>3. CASE c # n
      BY <1>6, <2>1, <3>1, <3>3, OneCaller DEF Nesting
    <3>. QED  BY <3>2, <3>3
  <2>2. \A m \in Nested : live'[m] = "running" => at'[m] # "off"
    BY <1>6, OneCaller DEF Nesting
  <2>3. \A m \in Nested : at'[m] # "off" => live'[m] = "running" \/ (AtFrame' /\ m = Frame')
    BY <1>6, OneCaller, SameFrame DEF Nesting
  <2>. QED  BY <2>1, <2>2, <2>3 DEF Nesting
<1>8. AtWorkBelow'
  <2>1. worker # "off"
    BY <1>2, OneCaller DEF AtWorkBelow
  <2>2. worker = "unwind" => \A x \in Agents : at'[x] # "off" => AtFrame /\ x \in Under(Frame) \cup {Frame}
    BY <1>3, <1>6 DEF AtWorkBelow
  <2>. QED  BY <2>1, <2>2, SameFrame DEF AtWorkBelow, Under
<1>. QED  BY <1>5, <1>7, <1>8

LEMMA SpawnKeepsTree ==
  ASSUME SpawnTree, MaxDepth \in Nat, TreeInv, NEW n \in Nested, Spawn(n)
  PROVE  TreeInv'
<1>. USE DEF TreeInv
<1>1. live[n] = "called" /\ UNCHANGED <<worker, requests, box, unwind>>
  BY DEF Spawn
<1>2. Depth(n) \in Nat \ {0} /\ Parent[n] \in Agents /\ n \in Calls /\ n \notin Parks
  BY Deeper, OneCaller DEF SpawnTree
<1>3. CASE Runs(n) /\ line' = line
  <2>1. AgentsTypeOK' /\ Nesting' /\ AtWorkBelow'
    BY <1>1, <1>3, RunsKeepsTree DEF AgentsTypeOK
  <2>2. InLine'
    BY <1>1, <1>3, LineStays, OneCaller DEF Runs, AgentsTypeOK
  <2>. QED  BY <2>1, <2>2
<1>4. CASE live' = [live EXCEPT ![n] = "ok"] /\ UNCHANGED <<at, line>>
  <2>1. /\ \A c \in Calls : c # n => live'[c] = live[c]
        /\ live'[n] = "ok"
    BY <1>2, <1>4 DEF AgentsTypeOK
  <2>2. AgentsTypeOK'
    BY <1>1, <1>2, <1>4 DEF AgentsTypeOK, LiveStates
  <2>3. InLine'
    BY <1>1, <1>4, <2>1, LineStays, OneCaller
  <2>4. Nesting'
    <3>1. \A y \in Agents : \A c \in CallsOf(y) : live'[c] # "none" => at'[y] = "tools"
      BY <1>1, <1>4, <2>1, OneCaller DEF Nesting
    <3>2. \A m \in Nested : live'[m] = "running" => at'[m] # "off"
      BY <1>4, <2>1, OneCaller DEF Nesting
    <3>3. \A m \in Nested : at'[m] # "off" => live'[m] = "running" \/ (AtFrame' /\ m = Frame')
      BY <1>1, <1>4, <2>1, OneCaller, SameFrame DEF Nesting
    <3>. QED  BY <3>1, <3>2, <3>3 DEF Nesting
  <2>5. AtWorkBelow'
    <3>1. worker # "off"
      BY <1>1, <1>2 DEF AtWorkBelow, None
    <3>. QED  BY <1>1, <1>4, <3>1, SameFrame DEF AtWorkBelow, Under
  <2>. QED  BY <2>2, <2>3, <2>4, <2>5
<1>5. CASE /\ Depth(n) <= MaxDepth
           /\ live' = [live EXCEPT ![n] = "queued"]
           /\ line' = [line EXCEPT ![Depth(n)] = Append(@, n)]
           /\ at' = at
  <2>1. /\ \A c \in Calls : c # n => live'[c] = live[c]
        /\ live'[n] = "queued"
    BY <1>2, <1>5 DEF AgentsTypeOK
  <2>2. Depth(n) \in 1..MaxDepth
    BY <1>2, <1>5
  <2>. DEFINE d == Depth(n)
              s == line[d]
  <2>3. /\ s \in Seq(Nested)
        /\ line'[d] = Append(s, n) /\ line' \in [1..MaxDepth -> Seq(Nested)]
        /\ \A e \in 1..MaxDepth : e # d => line'[e] = line[e]
    <3>. HIDE DEF d
    <3>1. line \in [1..MaxDepth -> Seq(Nested)] /\ d \in 1..MaxDepth
      BY <2>2 DEF AgentsTypeOK, d
    <3>2. line' = [line EXCEPT ![d] = Append(@, n)]
      BY <1>5 DEF d
    <3>3. s \in Seq(Nested) /\ Append(s, n) \in Seq(Nested)
      BY <3>1
    <3>. QED  BY <3>1, <3>2, <3>3
  <2>4. AgentsTypeOK'
    <3>1. live' \in [Calls -> LiveStates] /\ \A p \in Parks : live'[p] \in {"none", "parked"}
      BY <1>2, <1>5, <2>1, OneCaller DEF AgentsTypeOK, LiveStates
    <3>. QED  BY <1>1, <1>5, <2>3, <3>1 DEF AgentsTypeOK
  <2>5. /\ DOMAIN s = 1..Len(s) /\ Len(s) \in Nat /\ DOMAIN Append(s, n) = 1..(Len(s) + 1)
        /\ Append(s, n)[Len(s) + 1] = n
        /\ \A i \in 1..Len(s) : Append(s, n)[i] = s[i] /\ s[i] \in Nested
    BY <2>3
  <2>6. \A i \in 1..Len(s) : live[s[i]] = "queued" /\ Depth(s[i]) = d /\ s[i] # n
    <3>1. \A i \in DOMAIN line[d] : live[line[d][i]] = "queued" /\ Depth(line[d][i]) = d
      BY <2>2 DEF InLine
    <3>. QED  BY <1>1, <2>5, <3>1
  <2>7. InLine'
    <3>1. ASSUME NEW e \in 1..MaxDepth, NEW i \in DOMAIN line'[e]
          PROVE  /\ live'[line'[e][i]] = "queued" /\ Depth(line'[e][i]) = e
                 /\ \A j \in DOMAIN line'[e] : i # j => line'[e][i] # line'[e][j]
      <4>1. CASE e = d
        <5>. HIDE DEF s, d
        <5>1. \A k \in 1..Len(s) : live'[s[k]] = "queued"
          BY <2>1, <2>5, <2>6, OneCaller
        <5>2. \A j, k \in 1..Len(s) : j # k => s[j] # s[k]
          BY <2>2, <2>5 DEF InLine, s, d
        <5>3. i \in 1..(Len(s) + 1) /\ line'[e] = Append(s, n) /\ Depth(n) = d
          BY <2>3, <2>5, <4>1 DEF d
        <5>4. CASE i = Len(s) + 1
          BY <2>1, <2>5, <2>6, <4>1, <5>3, <5>4
        <5>5. CASE i \in 1..Len(s)
          BY <2>5, <2>6, <4>1, <5>1, <5>2, <5>3, <5>5
        <5>. QED  BY <2>5, <5>3, <5>4, <5>5
      <4>2. CASE e # d
        <5>1. line'[e] = line[e] /\ i \in DOMAIN line[e]
          BY <2>3, <3>1, <4>2
        <5>2. /\ live[line[e][i]] = "queued" /\ Depth(line[e][i]) = e /\ line[e][i] \in Nested
              /\ \A j \in DOMAIN line[e] : i # j => line[e][i] # line[e][j]
          BY <5>1 DEF InLine, AgentsTypeOK
        <5>. QED  BY <1>1, <2>1, <5>1, <5>2, OneCaller
      <4>. QED  BY <4>1, <4>2
    <3>2. ASSUME NEW m \in Nested, live'[m] = "queued"
          PROVE  Depth(m) \in 1..MaxDepth /\ \E i \in DOMAIN line'[Depth(m)] : line'[Depth(m)][i] = m
      <4>1. CASE m = n
        <5>1. Len(s) + 1 \in 1..(Len(s) + 1)
          BY <2>5
        <5>. QED  BY <2>2, <2>3, <2>5, <4>1, <5>1
      <4>2. CASE m # n
        <5>1. live[m] = "queued"
          BY <2>1, <3>2, <4>2, OneCaller
        <5>2. Depth(m) \in 1..MaxDepth /\ \E i \in DOMAIN line[Depth(m)] : line[Depth(m)][i] = m
          BY <5>1 DEF InLine
        <5>3. CASE Depth(m) = d
          <6>1. PICK i \in DOMAIN s : s[i] = m
            BY <5>2, <5>3
          <6>2. i \in 1..(Len(s) + 1) /\ Append(s, n)[i] = m
            BY <2>5, <6>1
          <6>. QED  BY <2>3, <2>5, <5>2, <5>3, <6>2
        <5>. QED  BY <2>3, <5>2, <5>3
      <4>. QED  BY <4>1, <4>2
    <3>. QED  BY <3>1, <3>2 DEF InLine
  <2>8. Nesting'
    <3>1. \A y \in Agents : \A c \in CallsOf(y) : live'[c] # "none" => at'[y] = "tools"
      BY <1>1, <1>5, <2>1, OneCaller DEF Nesting
    <3>2. \A m \in Nested : live'[m] = "running" => at'[m] # "off"
      BY <1>5, <2>1, OneCaller DEF Nesting
    <3>3. \A m \in Nested : at'[m] # "off" => live'[m] = "running" \/ (AtFrame' /\ m = Frame')
      BY <1>1, <1>5, <2>1, OneCaller, SameFrame DEF Nesting
    <3>. QED  BY <3>1, <3>2, <3>3 DEF Nesting
  <2>9. AtWorkBelow'
    <3>1. worker # "off"
      BY <1>1, <1>2 DEF AtWorkBelow, None
    <3>. QED  BY <1>1, <1>5, <3>1, SameFrame DEF AtWorkBelow, Under
  <2>. QED  BY <2>4, <2>7, <2>8, <2>9
<1>. QED  BY <1>3, <1>4, <1>5 DEF Spawn

LEMMA GrantedKeepsTree ==
  ASSUME SpawnTree, TreeInv, NEW d \in 1..MaxDepth, Granted(d)
  PROVE  TreeInv'
<1>. USE DEF TreeInv
<1>. DEFINE s == line[d]
            n == Head(s)
            t == Tail(s)
<1>1. /\ s # <<>> /\ Runs(n) /\ UNCHANGED <<worker, requests, box, unwind>>
      /\ line' = [line EXCEPT ![d] = t]
  BY DEF Granted
<1>2. s \in Seq(Nested) /\ line \in [1..MaxDepth -> Seq(Nested)]
  BY DEF AgentsTypeOK
<1>3. /\ DOMAIN s = 1..Len(s) /\ Len(s) \in Nat \ {0} /\ n = s[1] /\ n \in Nested
      /\ t \in Seq(Nested) /\ DOMAIN t = 1..(Len(s) - 1)
      /\ \A i \in 1..(Len(s) - 1) : t[i] = s[i + 1] /\ i + 1 \in 1..Len(s)
      /\ \A i \in 1..Len(s) : s[i] \in Nested
  <2>. HIDE DEF s
  <2>. QED  BY <1>1, <1>2
<1>4. \A i \in 1..Len(s) : live[s[i]] = "queued" /\ Depth(s[i]) = d
                           /\ \A j \in 1..Len(s) : i # j => s[i] # s[j]
  BY <1>3 DEF InLine
<1>. HIDE DEF s, n, t
<1>5. /\ line' \in [1..MaxDepth -> Seq(Nested)] /\ line'[d] = t
      /\ \A e \in 1..MaxDepth : e # d => line'[e] = line[e]
  BY <1>1, <1>2, <1>3
<1>6. live[n] = "queued" /\ Depth(n) = d
  BY <1>3, <1>4
<1>7. AgentsTypeOK' /\ Nesting' /\ AtWorkBelow'
  BY <1>1, <1>3, <1>5, <1>6, RunsKeepsTree
<1>8. /\ \A c \in Calls : c # n => live'[c] = live[c]
      /\ live'[n] = "running"
  BY <1>1, <1>3, OneCaller DEF Runs, AgentsTypeOK
<1>9. InLine'
  <2>1. ASSUME NEW e \in 1..MaxDepth, NEW i \in DOMAIN line'[e]
        PROVE  /\ live'[line'[e][i]] = "queued" /\ Depth(line'[e][i]) = e
               /\ \A j \in DOMAIN line'[e] : i # j => line'[e][i] # line'[e][j]
    <3>1. CASE e = d
      <4>1. i \in 1..(Len(s) - 1) /\ line'[e] = t
        BY <1>3, <1>5, <2>1, <3>1
      <4>2. t[i] = s[i + 1] /\ i + 1 \in 1..Len(s) /\ i + 1 # 1
        BY <1>3, <4>1
      <4>3. t[i] # n /\ t[i] \in Nested /\ live[t[i]] = "queued" /\ Depth(t[i]) = d
        BY <1>3, <1>4, <4>2
      <4>4. ASSUME NEW j \in 1..(Len(s) - 1), i # j PROVE t[i] # t[j]
        <5>1. t[j] = s[j + 1] /\ j + 1 \in 1..Len(s) /\ i + 1 # j + 1
          BY <1>3, <4>1, <4>4
        <5>. QED  BY <1>4, <4>2, <5>1
      <4>. QED  BY <1>3, <1>8, <3>1, <4>1, <4>3, <4>4, OneCaller
    <3>2. CASE e # d
      <4>1. line'[e] = line[e] /\ i \in DOMAIN line[e]
        BY <1>5, <2>1, <3>2
      <4>2. /\ live[line[e][i]] = "queued" /\ Depth(line[e][i]) = e /\ line[e][i] \in Nested
            /\ \A j \in DOMAIN line[e] : i # j => line[e][i] # line[e][j]
        <5>1. line[e] \in Seq(Nested)
          BY DEF AgentsTypeOK
        <5>2. line[e][i] \in Nested
          BY <4>1, <5>1
        <5>. QED  BY <4>1, <5>2 DEF InLine
      <4>3. line[e][i] # n
        BY <1>6, <3>2, <4>2
      <4>. QED  BY <1>8, <4>1, <4>2, <4>3, OneCaller
    <3>. QED  BY <3>1, <3>2
  <2>2. ASSUME NEW m \in Nested, live'[m] = "queued"
        PROVE  Depth(m) \in 1..MaxDepth /\ \E i \in DOMAIN line'[Depth(m)] : line'[Depth(m)][i] = m
    <3>1. live[m] = "queued" /\ m # n
      BY <1>8, <2>2, OneCaller
    <3>2. Depth(m) \in 1..MaxDepth /\ \E i \in DOMAIN line[Depth(m)] : line[Depth(m)][i] = m
      BY <3>1 DEF InLine
    <3>3. CASE Depth(m) = d
      <4>1. PICK i \in 1..Len(s) : s[i] = m
        BY <1>3, <3>2, <3>3 DEF s
      <4>2. i # 1 /\ i - 1 \in 1..(Len(s) - 1) /\ (i - 1) + 1 = i
        BY <1>3, <3>1, <4>1
      <4>3. t[i - 1] = m
        BY <1>3, <4>1, <4>2
      <4>. QED  BY <1>3, <1>5, <3>2, <3>3, <4>2, <4>3
    <3>. QED  BY <1>5, <3>2, <3>3
  <2>. QED  BY <2>1, <2>2 DEF InLine
<1>. QED  BY <1>7, <1>9

LEMMA ReturnsKeepsTree ==
  ASSUME SpawnTree, TreeInv, NEW n \in Nested, Returns(n)
  PROVE  TreeInv'
<1>. USE DEF TreeInv
<1>1. PICK s \in {"parked", "ok"} : live' = [live EXCEPT ![n] = s]
  BY Zenon DEF Returns
<1>2. /\ live[n] = "running" /\ at[n] \in {"parked", "done", "failed"}
      /\ at' = [at EXCEPT ![n] = "off"]
      /\ UNCHANGED <<worker, requests, line, box, unwind>>
  BY DEF Returns
<1>3. /\ \A c \in Calls : c # n => live'[c] = live[c]
      /\ live'[n] = s /\ at'[n] = "off"
      /\ \A y \in Agents : y # n => at'[y] = at[y]
  BY <1>1, <1>2, OneCaller DEF AgentsTypeOK
<1>4. AgentsTypeOK'
  <2>1. at' \in [Agents -> LoopStates]
    BY <1>2 DEF AgentsTypeOK, LoopStates
  <2>2. live' \in [Calls -> LiveStates] /\ \A p \in Parks : live'[p] \in {"none", "parked"}
    <3>1. n \notin Parks /\ n \in Calls /\ s \in LiveStates
      BY OneCaller DEF SpawnTree, LiveStates
    <3>2. \A p \in Parks : live'[p] = live[p]
      BY <1>3, <3>1, OneCaller
    <3>3. live' \in [Calls -> LiveStates]
      BY <1>1, <3>1 DEF AgentsTypeOK
    <3>. QED  BY <3>2, <3>3 DEF AgentsTypeOK
  <2>. QED  BY <1>2, <2>1, <2>2 DEF AgentsTypeOK
<1>5. InLine'
  BY <1>2, <1>3, LineStays, OneCaller
<1>6. Nesting'
  <2>1. ASSUME NEW y \in Agents, NEW c \in CallsOf(y), live'[c] # "none" PROVE at'[y] = "tools"
    <3>1. live[c] # "none" /\ at[y] = "tools"
      BY <1>2, <1>3, <2>1, OneCaller DEF Nesting
    <3>. QED  BY <1>2, <1>3, <3>1
  <2>2. \A m \in Nested : live'[m] = "running" => at'[m] # "off"
    BY <1>3, OneCaller DEF Nesting
  <2>3. \A m \in Nested : at'[m] # "off" => live'[m] = "running" \/ (AtFrame' /\ m = Frame')
    BY <1>2, <1>3, OneCaller, SameFrame DEF Nesting
  <2>. QED  BY <2>1, <2>2, <2>3 DEF Nesting
<1>7. AtWorkBelow'
  <2>1. worker # "off"
    BY <1>2, OneCaller DEF AtWorkBelow
  <2>. QED  BY <1>2, <1>3, <2>1, SameFrame DEF AtWorkBelow, Under
<1>. QED  BY <1>4, <1>5, <1>6, <1>7

\* What a nested run waited for is gone, with all that was below it.
LEMMA FailsKeepsTree ==
  ASSUME SpawnTree, TreeInv, NEW x \in Agents, Fails(x)
  PROVE  TreeInv'
<1>. USE DEF TreeInv
<1>. DEFINE cut == UNION {CallsOf(y) : y \in Under(x) \cup {x}}
<1>1. /\ x # Main /\ at[x] \in {"thinking", "tools"}
      /\ at' = [y \in Agents |-> IF y = x THEN "failed" ELSE IF y \in Under(x) THEN "off" ELSE at[y]]
      /\ live' = [c \in Calls |-> IF c \in cut THEN "none" ELSE live[c]]
      /\ line' = [d \in DOMAIN line |-> Only(line[d], Nested \ Under(x))]
      /\ UNCHANGED <<worker, requests, box, unwind>>
  BY DEF Fails
<1>2. \A n \in Nested : n \in cut <=> n \in Under(x)
  <2>1. ASSUME NEW n \in Nested PROVE n \in cut <=> Parent[n] \in Under(x) \cup {x}
    <3>1. \A y \in Under(x) \cup {x} : y \in Agents
      BY DEF Under, Agents
    <3>2. \A y \in Agents : n \in CallsOf(y) <=> Parent[n] = y
      BY OneCaller
    <3>. QED  BY <3>1, <3>2
  <2>. QED  BY <2>1, UnderSteps
<1>3. \A y \in Agents : \A c \in CallsOf(y) : y \in Under(x) \cup {x} => c \in cut
  OBVIOUS
<1>. HIDE DEF cut
<1>4. /\ \A c \in Calls : live'[c] = live[c] \/ live'[c] = "none"
      /\ \A c \in Calls : c \in cut => live'[c] = "none"
      /\ \A c \in Calls : c \notin cut => live'[c] = live[c]
  BY <1>1
<1>5. AgentsTypeOK'
  <2>1. at' \in [Agents -> LoopStates]
    BY <1>1 DEF AgentsTypeOK, LoopStates
  <2>2. live' \in [Calls -> LiveStates] /\ \A p \in Parks : live'[p] \in {"none", "parked"}
    BY <1>1, OneCaller DEF AgentsTypeOK, LiveStates
  <2>3. line' \in [1..MaxDepth -> Seq(Nested)]
    <3>1. \A d \in 1..MaxDepth : line[d] \in Seq(Nested) /\ DOMAIN line = 1..MaxDepth
      BY DEF AgentsTypeOK
    <3>2. \A d \in 1..MaxDepth : Only(line[d], Nested \ Under(x)) \in Seq(Nested)
      BY <3>1, OnlyPicks
    <3>3. line' = [d \in 1..MaxDepth |-> Only(line[d], Nested \ Under(x))]
      <4>1. DOMAIN line = 1..MaxDepth
        BY DEF AgentsTypeOK
      <4>. QED  BY <1>1, <4>1
    <3>. QED  BY <3>2, <3>3
  <2>. QED  BY <1>1, <2>1, <2>2, <2>3 DEF AgentsTypeOK
<1>6. InLine'
  <2>1. ASSUME NEW d \in 1..MaxDepth
        PROVE  \E e \in [DOMAIN line'[d] -> DOMAIN line[d]] :
                 /\ \A i \in DOMAIN line'[d] : line'[d][i] = line[d][e[i]] /\ line'[d][i] \in Nested \ Under(x)
                 /\ \A i, j \in DOMAIN line'[d] : i # j => e[i] # e[j]
                 /\ \A k \in DOMAIN line[d] : line[d][k] \in Nested \ Under(x) => \E i \in DOMAIN line'[d] : e[i] = k
    <3>. DEFINE s == line[d]
                t == Only(s, Nested \ Under(x))
    <3>1. s \in Seq(Nested) /\ line'[d] = t
      BY <1>1 DEF AgentsTypeOK
    <3>. HIDE DEF s
    <3>2. t \in Seq(Nested) /\ Picks(t, Len(s), s, Nested \ Under(x))
      BY <3>1, OnlyPicks
    <3>. HIDE DEF t
    <3>3. PICK e \in [DOMAIN t -> 1..Len(s)] :
            /\ \A i \in DOMAIN t : t[i] = s[e[i]] /\ t[i] \in Nested \ Under(x)
            /\ \A i, j \in DOMAIN t : i < j => e[i] < e[j]
            /\ \A k \in 1..Len(s) : s[k] \in Nested \ Under(x) => \E i \in DOMAIN t : e[i] = k
      BY <3>2 DEF Picks
    <3>4. DOMAIN t = 1..Len(t) /\ Len(t) \in Nat /\ DOMAIN s = 1..Len(s) /\ Len(s) \in Nat
      BY <3>1, <3>2
    <3>5. \A i, j \in DOMAIN t : i # j => e[i] # e[j]
      BY <3>3, <3>4
    <3>. QED  BY <3>1, <3>3, <3>4, <3>5 DEF s
  <2>2. ASSUME NEW d \in 1..MaxDepth, NEW i \in DOMAIN line'[d]
        PROVE  /\ live'[line'[d][i]] = "queued" /\ Depth(line'[d][i]) = d
               /\ \A j \in DOMAIN line'[d] : i # j => line'[d][i] # line'[d][j]
    <3>1. PICK e \in [DOMAIN line'[d] -> DOMAIN line[d]] :
            /\ \A k \in DOMAIN line'[d] : line'[d][k] = line[d][e[k]] /\ line'[d][k] \in Nested \ Under(x)
            /\ \A k, j \in DOMAIN line'[d] : k # j => e[k] # e[j]
      BY <2>1
    <3>2. \A k \in DOMAIN line[d] : live[line[d][k]] = "queued" /\ Depth(line[d][k]) = d
            /\ \A j \in DOMAIN line[d] : k # j => line[d][k] # line[d][j]
      BY DEF InLine
    <3>. QED  BY <1>2, <1>4, <2>2, <3>1, <3>2, OneCaller
  <2>3. ASSUME NEW m \in Nested, live'[m] = "queued"
        PROVE  Depth(m) \in 1..MaxDepth /\ \E i \in DOMAIN line'[Depth(m)] : line'[Depth(m)][i] = m
    <3>1. live[m] = "queued" /\ m \notin Under(x)
      BY <1>2, <1>4, <2>3, OneCaller
    <3>2. Depth(m) \in 1..MaxDepth /\ \E i \in DOMAIN line[Depth(m)] : line[Depth(m)][i] = m
      BY <3>1 DEF InLine
    <3>. QED  BY <2>1, <3>1, <3>2
  <2>. QED  BY <2>2, <2>3 DEF InLine
<1>7. \A y \in Agents : /\ y = x => at'[y] = "failed"
                        /\ y \in Under(x) /\ y # x => at'[y] = "off"
                        /\ y \notin Under(x) \cup {x} => at'[y] = at[y]
                        /\ at'[y] # "off" => at[y] # "off" /\ (y \notin Under(x) \/ y = x)
  BY <1>1
<1>8. Nesting'
  <2>1. ASSUME NEW y \in Agents, NEW c \in CallsOf(y), live'[c] # "none" PROVE at'[y] = "tools"
    <3>1. c \in Calls /\ c \notin cut
      BY <1>4, <2>1, OneCaller
    <3>2. y \notin Under(x) \cup {x}
      BY <1>3, <3>1
    <3>. QED  BY <1>4, <1>7, <2>1, <3>1, <3>2 DEF Nesting
  <2>2. ASSUME NEW m \in Nested, live'[m] = "running" PROVE at'[m] # "off"
    <3>1. m \notin Under(x) /\ live[m] = "running"
      BY <1>2, <1>4, <2>2, OneCaller
    <3>. QED  BY <1>7, <3>1, OneCaller DEF Nesting
  <2>3. ASSUME NEW m \in Nested, at'[m] # "off"
        PROVE  live'[m] = "running" \/ (AtFrame' /\ m = Frame')
    <3>1. at[m] # "off" /\ m \notin Under(x)
      BY <1>7, <2>3, OneCaller, UnderSteps
    <3>. QED  BY <1>1, <1>2, <1>4, <3>1, OneCaller, SameFrame DEF Nesting
  <2>. QED  BY <2>1, <2>2, <2>3 DEF Nesting
<1>9. AtWorkBelow'
  <2>1. worker # "off"
    BY <1>1 DEF AtWorkBelow
  <2>. QED  BY <1>1, <1>7, <2>1, SameFrame DEF AtWorkBelow, Under
<1>. QED  BY <1>5, <1>6, <1>8, <1>9

LEMMA GoneKeepsTree ==
  ASSUME Gone, requests' \in Seq(Parks)
  PROVE  TreeInv'
<1>1. /\ worker' = "off" /\ at' = [x \in Agents |-> "off"]
      /\ live' = None /\ line' = [d \in 1..MaxDepth |-> <<>>] /\ box' = <<>> /\ unwind' = <<>>
  BY DEF Gone
<1>2. AgentsTypeOK'
  <2>1. \A X : <<>> \in Seq(X)
    OBVIOUS
  <2>2. at' \in [Agents -> LoopStates] /\ live' \in [Calls -> LiveStates]
    BY <1>1 DEF LoopStates, LiveStates, None
  <2>3. \A p \in Parks : live'[p] = "none"
    BY <1>1 DEF None, Calls
  <2>4. line' \in [1..MaxDepth -> Seq(Nested)]
    BY <1>1
  <2>. QED  BY <1>1, <2>1, <2>2, <2>3, <2>4, Zenon DEF AgentsTypeOK
<1>3. InLine'
  <2>1. \A d \in 1..MaxDepth : DOMAIN line'[d] = {}
    BY <1>1
  <2>2. \A n \in Nested : live'[n] = "none"
    BY <1>1 DEF None, Calls
  <2>. QED  BY <2>1, <2>2 DEF InLine
<1>4. Nesting'
  <2>1. \A x \in Agents : \A c \in CallsOf(x) : live'[c] = "none"
    BY <1>1 DEF None, Calls, CallsOf
  <2>2. \A n \in Nested : live'[n] = "none" /\ at'[n] = "off"
    BY <1>1 DEF None, Calls, Agents
  <2>. QED  BY <2>1, <2>2 DEF Nesting
<1>5. AtWorkBelow'
  BY <1>1 DEF AtWorkBelow, None
<1>. QED  BY <1>2, <1>3, <1>4, <1>5 DEF TreeInv

\* While the nested run that an unwind entered waits for no tools, nobody is below it.
LEMMA AloneAtFrame ==
  ASSUME SpawnTree, TreeInv, AtFrame, at[Frame] # "tools"
  PROVE  \A y \in Agents : at[y] # "off" => y = Frame
<1>. SUFFICES ASSUME NEW z \in Agents, at[z] # "off", z # Frame PROVE FALSE
  OBVIOUS
<1>. DEFINE S == {Depth(y) : y \in {x \in Agents : at[x] # "off" /\ x # Frame}}
<1>1. S \subseteq Nat /\ Depth(z) \in S
  BY Deeper
<1>2. PICK m \in S : \A k \in S : m <= k
  <2>. HIDE DEF S
  <2>. QED  BY <1>1, LeastOf
<1>3. PICK y \in Agents : at[y] # "off" /\ y # Frame /\ m = Depth(y)
  BY <1>2
<1>4. y \in Nested /\ y \in Under(Frame)
  BY <1>3, FrameIs DEF TreeInv, AtWorkBelow, Under, AtFrame
<1>5. live[y] = "running"
  BY <1>3, <1>4 DEF TreeInv, Nesting
<1>6. at[Parent[y]] = "tools" /\ Parent[y] \in Agents
  BY <1>4, <1>5, OneCaller DEF TreeInv, Nesting
<1>7. Depth(Parent[y]) \in S
  BY <1>6
<1>8. Depth(y) = Depth(Parent[y]) + 1 /\ Depth(Parent[y]) \in Nat
  BY <1>4, <1>6, Deeper
<1>9. m <= Depth(Parent[y])
  BY <1>2, <1>7
<1>. QED  BY <1>3, <1>8, <1>9

\* With no loop no call is live.
LEMMA NoneIsLive ==
  ASSUME SpawnTree, TreeInv, \A x \in Agents : at[x] # "tools"
  PROVE  \A c \in Calls : live[c] = "none"
<1>1. \A c \in Calls : \E x \in Agents : c \in CallsOf(x)
  BY DEF SpawnTree, Calls, CallsOf
<1>. QED  BY <1>1 DEF TreeInv, Nesting

LEMMA IdleKeepsTree ==
  ASSUME SpawnTree, TreeInv, \A x \in Agents : at[x] # "tools",
         at' \in [Agents -> LoopStates], \A n \in Nested : at'[n] = "off",
         worker' \in {"loop", "unwind"}, worker' = "unwind" => at'[Main] = "off",
         worker' = "loop" => unwind' = <<>>,
         unwind' \in Seq([park : Parks, frame : Nat \ {0}, stage : Stages]),
         UNCHANGED <<live, line, box, requests>>
  PROVE  TreeInv'
<1>1. \A c \in Calls : live[c] = "none"
  BY NoneIsLive
<1>2. AgentsTypeOK'
  BY DEF TreeInv, AgentsTypeOK
<1>3. InLine'
  BY LineStays DEF TreeInv
<1>4. Nesting'
  BY <1>1, OneCaller DEF Nesting
<1>5. AtWorkBelow'
  BY DEF AtWorkBelow, Agents
<1>. QED  BY <1>2, <1>3, <1>4, <1>5 DEF TreeInv

\* A member that is waiting first.
LEMMA FirstIs ==
  ASSUME SpawnTree, NEW p \in Parks, Waiting(p) # {}
  PROVE  /\ First(Waiting(p)) \in Waiting(p)
         /\ First(Waiting(p)) \in 1..Len(Frames(p)) /\ Len(Frames(p)) \in Nat
         /\ \A k \in Waiting(p) : First(Waiting(p)) <= k
<1>1. Frames(p) \in Seq(Nested)
  BY AllFramed DEF Framed, Frames, SpawnTree
<1>2. Waiting(p) \subseteq 1..Len(Frames(p)) /\ Len(Frames(p)) \in Nat
  BY <1>1 DEF Waiting
<1>3. \E m \in Waiting(p) : \A k \in Waiting(p) : m <= k
  BY <1>2, LeastOf
<1>. HIDE DEF Waiting
<1>. QED  BY <1>2, <1>3 DEF First

\* Where an open request is taken up.
Opened(p) == IF results[p] = 0 THEN [park |-> p, frame |-> 1, stage |-> "settle"]
             ELSE [park |-> p, frame |-> First(Waiting(p)), stage |-> "unwind"]

LEMMA OpenIs ==
  ASSUME SpawnTree, requests \in Seq(Parks)
  PROVE  /\ OpenHitls \in Seq([park : Parks, frame : Nat \ {0}, stage : Stages])
         /\ \E e \in [DOMAIN OpenHitls -> DOMAIN requests] :
              /\ \A i \in DOMAIN OpenHitls : IsOpen(requests[e[i]]) /\ OpenHitls[i] = Opened(requests[e[i]])
              /\ \A i, j \in DOMAIN OpenHitls : i < j => e[i] < e[j]
              /\ \A k \in DOMAIN requests : IsOpen(requests[k]) => \E i \in DOMAIN OpenHitls : e[i] = k
<1>. DEFINE S == {p \in Parks : IsOpen(p)}
            t == Only(requests, S)
            R == [park : Parks, frame : Nat \ {0}, stage : Stages]
<1>1. t \in Seq(Parks) /\ Picks(t, Len(requests), requests, S)
  <2>. HIDE DEF S
  <2>. QED  BY OnlyPicks
<1>2. OpenHitls = [i \in DOMAIN t |-> Opened(t[i])]
  BY DEF OpenHitls, Opened
<1>3. ASSUME NEW p \in S PROVE Opened(p) \in R
  <2>1. CASE results[p] = 0
    BY <2>1 DEF Stages, Opened
  <2>2. CASE results[p] # 0
    <3>1. First(Waiting(p)) \in Nat \ {0}
      BY <2>2, FirstIs DEF IsOpen
    <3>. QED  BY <2>2, <3>1 DEF Stages, Opened
  <2>. QED  BY <2>1, <2>2
<1>. HIDE DEF S, t, R
<1>4. PICK e \in [DOMAIN t -> 1..Len(requests)] :
        /\ \A i \in DOMAIN t : t[i] = requests[e[i]] /\ t[i] \in S
        /\ \A i, j \in DOMAIN t : i < j => e[i] < e[j]
        /\ \A k \in 1..Len(requests) : requests[k] \in S => \E i \in DOMAIN t : e[i] = k
  BY <1>1 DEF Picks
<1>5. OpenHitls \in Seq(R)
  <2>1. DOMAIN t = 1..Len(t) /\ Len(t) \in Nat
    BY <1>1
  <2>2. OpenHitls \in [1..Len(t) -> R]
    BY <1>2, <1>3, <1>4, <2>1
  <2>. QED  BY <2>1, <2>2
<1>6. DOMAIN requests = 1..Len(requests) /\ \A k \in DOMAIN requests : requests[k] \in Parks
  OBVIOUS
<1>7. DOMAIN OpenHitls = DOMAIN t /\ \A i \in DOMAIN t : OpenHitls[i] = Opened(requests[e[i]])
  BY <1>2, <1>4
<1>8. \A k \in DOMAIN requests : IsOpen(requests[k]) <=> requests[k] \in S
  BY <1>6 DEF S
<1>9. \A i \in DOMAIN t : IsOpen(requests[e[i]])
  BY <1>4, <1>6, <1>8
<1>10. e \in [DOMAIN OpenHitls -> DOMAIN requests]
  BY <1>6, <1>7
<1>11. \A k \in DOMAIN requests : IsOpen(requests[k]) => \E i \in DOMAIN OpenHitls : e[i] = k
  BY <1>4, <1>6, <1>7, <1>8
<1>12. \A i, j \in DOMAIN OpenHitls : i < j => e[i] < e[j]
  BY <1>4, <1>7
<1>13. \A i \in DOMAIN OpenHitls : IsOpen(requests[e[i]]) /\ OpenHitls[i] = Opened(requests[e[i]])
  BY <1>7, <1>9
<1>. QED  BY <1>5, <1>10, <1>11, <1>12, <1>13, Zenon DEF R

\* A park that is being landed moves on at the head of the unwind.
LEMMA HeadMoves ==
  ASSUME AgentsTypeOK, unwind # <<>>, NEW u \in [park : Parks, frame : Nat \ {0}, stage : Stages]
  PROVE  <<u>> \o Tail(unwind) \in Seq([park : Parks, frame : Nat \ {0}, stage : Stages])
<1>. DEFINE R == [park : Parks, frame : Nat \ {0}, stage : Stages]
<1>1. Tail(unwind) \in Seq(R) /\ u \in R
  BY NowIs
<1>. HIDE DEF R
<1>2. <<u>> \o Tail(unwind) \in Seq(R)
  BY <1>1
<1>. QED  BY <1>2 DEF R

\* Nobody is in a loop while a verdict is settled or a result is handed on.
LEMMA NobodyLoops ==
  ASSUME SpawnTree, TreeInv, worker = "unwind", ~AtFrame
  PROVE  \A x \in Agents : at[x] = "off"
  BY DEF TreeInv, AtWorkBelow

LEMMA UnwindKeepsTree ==
  ASSUME SpawnTree, TreeInv,
         ToolRuns \/ ToolKept \/ Lands \/ Clears \/ Closes \/ Hands \/ NextPark
  PROVE  TreeInv'
<1>. USE DEF TreeInv
<1>1. /\ worker = "unwind" /\ unwind # <<>>
      /\ UNCHANGED <<worker, live, line, box, requests>>
      /\ Closes \/ (at' = at /\ ~AtFrame)
  <2>1. CASE Closes
    BY <2>1, Zenon DEF Closes, AtFrame
  <2>2. CASE ToolRuns \/ ToolKept \/ Lands \/ Clears \/ Hands
    <3>1. /\ worker = "unwind" /\ unwind # <<>>
          /\ Now.stage \in {"settle", "keep", "land", "clear", "hand"}
          /\ UNCHANGED <<at, worker, live, line, box, requests>>
      BY <2>2 DEF ToolRuns, ToolKept, Lands, Clears, Hands
    <3>. QED  BY <3>1 DEF AtFrame
  <2>3. CASE NextPark
    <3>1. /\ worker = "unwind" /\ unwind # <<>>
          /\ Now.frame > Len(Frames(Now.park))
          /\ UNCHANGED <<at, worker, live, line, box, requests>>
      BY <2>3 DEF NextPark, durable
    <3>2. Now.park \in Parks /\ Now.frame \in Nat
      BY <3>1, NowIs
    <3>3. Len(Frames(Now.park)) \in Nat
      BY <3>2, Deeper DEF Depth, Frames, SpawnTree
    <3>. QED  BY <3>1, <3>2, <3>3 DEF AtFrame
  <2>. QED  BY <2>1, <2>2, <2>3
<1>2. Now \in [park : Parks, frame : Nat \ {0}, stage : Stages]
  BY <1>1, NowIs
<1>3. unwind' \in Seq([park : Parks, frame : Nat \ {0}, stage : Stages])
  <2>1. CASE NextPark
    BY <1>1, <2>1, NowIs DEF NextPark
  <2>2. CASE ~NextPark
    <3>1. \E u \in [park : Parks, frame : Nat \ {0}, stage : Stages] : unwind' = <<u>> \o Tail(unwind)
      <4>. DEFINE R == [park : Parks, frame : Nat \ {0}, stage : Stages]
      <4>1. ASSUME NEW w \in Stages PROVE [Now EXCEPT !.stage = w] \in R
        BY <1>2
      <4>2. [Now EXCEPT !.stage = "unwind", !.frame = @ + 1] \in R
        <5>. DEFINE n == Now
        <5>1. n \in R /\ n.frame + 1 \in Nat \ {0}
          BY <1>2
        <5>. HIDE DEF n
        <5>2. [n EXCEPT !.stage = "unwind", !.frame = n.frame + 1] \in R
          BY <5>1 DEF Stages
        <5>. QED  BY <5>2 DEF n
      <4>3. {"keep", "land", "clear", "unwind", "hand"} \subseteq Stages
        BY DEF Stages
      <4>4. /\ [Now EXCEPT !.stage = "keep"] \in R /\ [Now EXCEPT !.stage = "land"] \in R
            /\ [Now EXCEPT !.stage = "clear"] \in R /\ [Now EXCEPT !.stage = "unwind"] \in R
            /\ [Now EXCEPT !.stage = "hand"] \in R
        BY <4>1, <4>3
      <4>. HIDE DEF R
      <4>. SUFFICES \E u \in R : unwind' = <<u>> \o Tail(unwind)
        BY DEF R
      <4>5. \/ unwind' = <<[Now EXCEPT !.stage = "keep"]>> \o Tail(unwind)
            \/ unwind' = <<[Now EXCEPT !.stage = "land"]>> \o Tail(unwind)
            \/ unwind' = <<[Now EXCEPT !.stage = "clear"]>> \o Tail(unwind)
            \/ unwind' = <<[Now EXCEPT !.stage = "unwind"]>> \o Tail(unwind)
            \/ unwind' = <<[Now EXCEPT !.stage = "hand"]>> \o Tail(unwind)
            \/ unwind' = <<[Now EXCEPT !.stage = "unwind", !.frame = @ + 1]>> \o Tail(unwind)
        BY <2>2, ZenonT(60) DEF ToolRuns, ToolKept, Lands, Clears, Closes, Hands
      <4>. QED  BY <4>2, <4>4, <4>5, Zenon
    <3>. QED  BY <1>1, <3>1, HeadMoves
  <2>. QED  BY <2>1, <2>2
<1>4. CASE Closes
  <2>1. AtFrame /\ at[Frame] # "tools" /\ at' = [at EXCEPT ![Frame] = "off"]
    BY <1>4 DEF Closes
  <2>2. \A y \in Agents : at[y] # "tools" /\ at'[y] = "off"
    BY <2>1, AloneAtFrame, FrameIs DEF AgentsTypeOK
  <2>3. at' \in [Agents -> LoopStates]
    BY <2>1 DEF AgentsTypeOK, LoopStates
  <2>. QED  BY <1>1, <1>3, <2>2, <2>3, IdleKeepsTree DEF Agents
<1>5. CASE ~Closes
  <2>1. at' = at /\ ~AtFrame
    BY <1>1, <1>5
  <2>2. \A y \in Agents : at[y] = "off" /\ at'[y] = "off"
    BY <1>1, <2>1, NobodyLoops
  <2>. QED  BY <1>1, <1>3, <2>1, <2>2, IdleKeepsTree DEF Agents, AgentsTypeOK
<1>. QED  BY <1>4, <1>5

LEMMA ReentersKeepsTree ==
  ASSUME SpawnTree, TreeInv, Reenters
  PROVE  TreeInv'
<1>. USE DEF TreeInv
<1>1. /\ AtFrame /\ at[Frame] = "off" /\ at' = [at EXCEPT ![Frame] = "thinking"]
      /\ UNCHANGED <<worker, live, line, box, unwind, requests>>
  BY DEF Reenters, Enter, durable
<1>2. Frame \in Nested /\ Frame \in Agents
  BY <1>1, FrameIs
<1>3. \A y \in Agents : at[y] = "off" /\ (at'[y] # "off" => y = Frame)
  BY <1>1, AloneAtFrame DEF AgentsTypeOK
<1>4. \A c \in Calls : live[c] = "none"
  BY <1>3, NoneIsLive
<1>5. AgentsTypeOK'
  BY <1>1 DEF AgentsTypeOK, LoopStates
<1>6. InLine'
  BY <1>1, LineStays
<1>7. Nesting'
  BY <1>1, <1>3, <1>4, OneCaller, SameFrame DEF Nesting
<1>8. AtWorkBelow'
  <2>1. worker = "unwind"
    BY <1>1 DEF AtFrame
  <2>. QED  BY <1>1, <1>3, <2>1, SameFrame DEF AtWorkBelow, Under
<1>. QED  BY <1>5, <1>6, <1>7, <1>8

LEMMA StartsKeepTree ==
  ASSUME SpawnTree, TreeInv, Begins \/ Resumes \/ Unwound
  PROVE  TreeInv'
<1>. USE DEF TreeInv
<1>1. /\ \A x \in Agents : at[x] = "off"
      /\ UNCHANGED <<live, line, box, requests>>
  <2>1. CASE Unwound
    BY <2>1, NobodyLoops DEF Unwound, AtFrame
  <2>2. CASE Begins \/ Resumes
    BY <2>2 DEF Begins, Resumes, AtWorkBelow, durable
  <2>. QED  BY <2>1, <2>2
<1>2. CASE Begins \/ Unwound
  <2>1. /\ worker' = "loop" /\ unwind' = <<>> /\ StartLoop
    <3>1. CASE Begins
      BY <3>1 DEF Begins, AtWorkBelow
    <3>2. CASE Unwound
      BY <3>2 DEF Unwound
    <3>. QED  BY <1>2, <3>1, <3>2
  <2>2. at' \in [Agents -> LoopStates] /\ \A n \in Nested : at'[n] = "off"
    <3>1. PICK s \in {"done", "thinking"} : at' = [at EXCEPT ![Main] = s]
      BY <2>1, Zenon DEF StartLoop
    <3>. QED  BY <1>1, <3>1 DEF AgentsTypeOK, LoopStates, SpawnTree, Agents
  <2>3. <<>> \in Seq([park : Parks, frame : Nat \ {0}, stage : Stages])
    OBVIOUS
  <2>. QED  BY <1>1, <2>1, <2>2, <2>3, IdleKeepsTree
<1>3. CASE Resumes
  <2>1. worker' = "unwind" /\ unwind' = OpenHitls /\ at' = at
    BY <1>3 DEF Resumes
  <2>2. unwind' \in Seq([park : Parks, frame : Nat \ {0}, stage : Stages])
    BY <2>1, OpenIs DEF AgentsTypeOK
  <2>. QED  BY <1>1, <2>1, <2>2, IdleKeepsTree DEF AgentsTypeOK, Agents
<1>. QED  BY <1>2, <1>3

LEMMA TreeStays ==
  ASSUME SpawnTree, MaxDepth \in Nat, TreeInv, [Next]_vars
  PROVE  TreeInv'
<1>1. ASSUME NEW x \in Agents, NEW asked \in SUBSET CallsOf(x), Asks(x, asked) PROVE TreeInv'
  BY <1>1, AsksKeepsTree
<1>2. ASSUME NEW x \in Agents, SavesTools(x) \/ Answers(x) PROVE TreeInv'
  BY <1>2, SavedKeepsTree
<1>3. ASSUME NEW x \in Agents, Fails(x) PROVE TreeInv'
  BY <1>3, FailsKeepsTree
<1>4. ASSUME NEW n \in Nested, Spawn(n) PROVE TreeInv'
  BY <1>4, SpawnKeepsTree
<1>5. ASSUME NEW n \in Nested, Returns(n) PROVE TreeInv'
  BY <1>5, ReturnsKeepsTree
<1>6. ASSUME NEW d \in DOMAIN line, Granted(d) PROVE TreeInv'
  <2>1. d \in 1..MaxDepth
    BY DEF TreeInv, AgentsTypeOK
  <2>. QED  BY <1>6, <2>1, GrantedKeepsTree
<1>7. ASSUME Begins \/ Resumes \/ Unwound PROVE TreeInv'
  BY <1>7, StartsKeepTree
<1>8. ASSUME Ends \/ ParksAgain \/ Dies \/ MainFails \/ StopsLoop PROVE TreeInv'
  <2>1. requests \in Seq(Parks) /\ box \in Seq(Parks)
    BY DEF TreeInv, AgentsTypeOK
  <2>2. Gone
    BY <1>8 DEF Ends, ParksAgain, Dies, MainFails, StopsLoop
  <2>3. requests' = requests \/ requests' = requests \o box
    BY <1>8 DEF Ends, ParksAgain, Dies, MainFails, StopsLoop, durable
  <2>4. requests \o box \in Seq(Parks)
    BY <2>1
  <2>5. requests' \in Seq(Parks)
    BY <2>1, <2>3, <2>4, Zenon
  <2>. QED  BY <2>2, <2>5, GoneKeepsTree
<1>9. ASSUME ToolRuns \/ ToolKept \/ Lands \/ Clears \/ Closes \/ Hands \/ NextPark PROVE TreeInv'
  BY <1>9, UnwindKeepsTree
<1>10. ASSUME Reenters PROVE TreeInv'
  BY <1>10, ReentersKeepsTree
<1>11. ASSUME UNCHANGED <<worker, at, live, line, box, unwind, requests>> PROVE TreeInv'
  <2>1. AtFrame' = AtFrame /\ Frame' = Frame
    BY <1>11, SameFrame
  <2>. QED  BY <1>11, <2>1 DEF TreeInv, AgentsTypeOK, InLine, Nesting, AtWorkBelow, None, Under
<1>12. ASSUME (\E p \in Parks, v \in {"approved", "denied"} : Verdict(p, v)) \/ StopsParked PROVE TreeInv'
  BY <1>11, <1>12 DEF Verdict, StopsParked, memory
<1>13. ASSUME UNCHANGED vars PROVE TreeInv'
  BY <1>11, <1>13 DEF vars, durable, memory
<1>. QED
  BY <1>1, <1>2, <1>3, <1>4, <1>5, <1>6, <1>7, <1>8, <1>9, <1>10, <1>12, <1>13 DEF Next

LEMMA TreeStarts ==
  ASSUME Init
  PROVE  TreeInv
<1>1. /\ worker = "off" /\ at = [x \in Agents |-> "off"] /\ live = None
      /\ line = [d \in 1..MaxDepth |-> <<>>] /\ box = <<>> /\ unwind = <<>> /\ requests = <<>>
  BY DEF Init
<1>2. AgentsTypeOK
  <2>1. \A X : <<>> \in Seq(X)
    OBVIOUS
  <2>2. at \in [Agents -> LoopStates] /\ live \in [Calls -> LiveStates]
    BY <1>1 DEF LoopStates, LiveStates, None
  <2>3. \A p \in Parks : live[p] = "none"
    BY <1>1 DEF None, Calls
  <2>4. line \in [1..MaxDepth -> Seq(Nested)]
    BY <1>1
  <2>. QED  BY <1>1, <2>1, <2>2, <2>3, <2>4, Zenon DEF AgentsTypeOK
<1>3. InLine
  <2>1. \A d \in 1..MaxDepth : DOMAIN line[d] = {}
    BY <1>1
  <2>2. \A n \in Nested : live[n] = "none"
    BY <1>1 DEF None, Calls
  <2>. QED  BY <2>1, <2>2 DEF InLine
<1>4. Nesting
  BY <1>1 DEF Nesting, None, Calls, CallsOf, Agents
<1>5. AtWorkBelow
  BY <1>1 DEF AtWorkBelow
<1>. QED  BY <1>2, <1>3, <1>4, <1>5 DEF TreeInv

\* Of the agents that wait for their tools take a deepest: no nested run that has a slot at the
\* depth below waits for one itself.
LEMMA SomebodyMoves ==
  ASSUME SpawnTree, MaxDepth \in Nat, MaxConcurrent \in Nat \ {0}, TreeInv
  PROVE  NobodyStuck
<1>. SUFFICES ASSUME NEW z \in Agents, at[z] = "tools",
                     ~\E x \in Agents : at[x] \in {"thinking", "parked", "done", "failed"},
                     ~\E x \in Agents : at[x] = "tools" /\ \A c \in InStep(x) : live[c] \in {"parked", "ok"},
                     ~\E n \in Nested : live[n] = "called",
                     ~\E d \in DOMAIN line : line[d] # <<>> /\ Room(d)
              PROVE  FALSE
  BY DEF NobodyStuck
<1>. USE DEF TreeInv
<1>. DEFINE S == {Depth(y) : y \in {x \in Agents : at[x] = "tools"}}
<1>1. \A x \in Agents : at[x] \in {"off", "tools"}
  BY DEF AgentsTypeOK, LoopStates
<1>2. \E x \in Agents : at[x] = "tools" /\ \A y \in Agents : at[y] = "tools" => Depth(y) <= Depth(x)
  <2>1. S \subseteq Nat /\ S # {}
    BY Deeper
  <2>2. PICK k \in Nat : \A m \in S : m <= k
    BY DepthsEnd
  <2>3. PICK m \in S : \A k2 \in S : k2 <= m
    <3>. HIDE DEF S
    <3>. QED  BY <2>1, <2>2, GreatestOf
  <2>. QED  BY <2>3
<1>3. PICK x \in Agents : at[x] = "tools" /\ \A y \in Agents : at[y] = "tools" => Depth(y) <= Depth(x)
  BY <1>2
<1>4. PICK c \in InStep(x) : live[c] \notin {"parked", "ok"}
  BY <1>3
<1>5. c \in CallsOf(x) /\ live[c] \in {"queued", "running"} /\ c \in Nested /\ Parent[c] = x
  <2>1. c \in CallsOf(x) /\ live[c] # "none" /\ c \in Calls
    BY OneCaller DEF InStep
  <2>2. c \in Nested
    BY <1>4, <2>1 DEF AgentsTypeOK, Calls
  <2>. QED  BY <1>4, <2>1, <2>2, OneCaller DEF AgentsTypeOK, LiveStates
<1>6. Depth(c) = Depth(x) + 1 /\ Depth(x) \in Nat
  BY <1>5, Deeper
<1>7. ASSUME NEW n \in Nested, live[n] = "running", Depth(n) = Depth(c) PROVE FALSE
  <2>1. n \in Agents /\ at[n] = "tools"
    BY <1>1, <1>7, OneCaller DEF Nesting
  <2>. QED  BY <1>3, <1>6, <1>7, <2>1
<1>8. live[c] = "queued"
  BY <1>5, <1>7
<1>9. Depth(c) \in DOMAIN line /\ line[Depth(c)] # <<>>
  BY <1>5, <1>8 DEF InLine, AgentsTypeOK
<1>10. Holders(Depth(c)) = {}
  BY <1>7 DEF Holders
<1>11. Room(Depth(c))
  BY <1>10, FS_EmptySet DEF Room
<1>. QED  BY <1>9, <1>11

\* However deep agents delegate and however few of a depth may run at once, a worker's loops
\* never all wait for each other (core/subagent.ts, RunSlots).
THEOREM NeverStuck ==
  ASSUME SpawnTree, MaxDepth \in Nat, MaxConcurrent \in Nat \ {0}
  PROVE  Spec => []NobodyStuck
<1>1. Init => TreeInv
  BY TreeStarts
<1>2. TreeInv /\ [Next]_vars => TreeInv'
  BY TreeStays
<1>3. TreeInv => NobodyStuck
  BY SomebodyMoves
<1>. QED  BY <1>1, <1>2, <1>3, PTL DEF Spec

---------------------------------------------------------------------------
(* What a step does to a tool that has run *)

LEMMA FramesIn ==
  ASSUME SpawnTree
  PROVE  \A p \in Parks :
           /\ p \in Calls /\ p \notin Nested
           /\ Frames(p) \in Seq(Nested) /\ Len(Frames(p)) \in Nat
           /\ DOMAIN Frames(p) = 1..Len(Frames(p))
           /\ \A k \in DOMAIN Frames(p) : Frames(p)[k] \in Nested /\ Frames(p)[k] \in Calls
<1>. SUFFICES ASSUME NEW p \in Parks
              PROVE  /\ p \in Calls /\ p \notin Nested
                     /\ Frames(p) \in Seq(Nested) /\ Len(Frames(p)) \in Nat
                     /\ DOMAIN Frames(p) = 1..Len(Frames(p))
                     /\ \A k \in DOMAIN Frames(p) : Frames(p)[k] \in Nested /\ Frames(p)[k] \in Calls
  BY Zenon
<1>1. Frames(p) \in Seq(Nested)
  BY AllFramed DEF Framed, Frames, SpawnTree
<1>2. p \in Calls /\ p \notin Nested /\ Nested \subseteq Calls
  BY DEF Calls, SpawnTree
<1>. QED  BY <1>1, <1>2

\* A request that is closed stays closed: results are only added.
LEMMA ClosedStays ==
  ASSUME SpawnTree, results \in [Calls -> Nat], results' \in [Calls -> Nat],
         \A c \in Calls : results[c] <= results'[c]
  PROVE  \A p \in Parks : IsOpen(p)' => IsOpen(p)
<1>. SUFFICES ASSUME NEW p \in Parks, ~IsOpen(p) PROVE ~IsOpen(p)'
  OBVIOUS
<1>1. results[p] # 0 /\ \A i \in DOMAIN Frames(p) : results[Frames(p)[i]] # 0
  BY DEF IsOpen, Waiting
<1>2. results'[p] # 0 /\ \A i \in DOMAIN Frames(p) : results'[Frames(p)[i]] # 0
  BY <1>1, FramesIn
<1>. QED  BY <1>2 DEF IsOpen, Waiting, Frames

\* No park is on an unwind twice.
LEMMA ParksDiffer ==
  ASSUME TreeInv, UnwindIsOpen, worker = "unwind"
  PROVE  \A i, j \in DOMAIN unwind : i # j => unwind[i].park # unwind[j].park
<1>. SUFFICES ASSUME NEW i \in DOMAIN unwind, NEW j \in DOMAIN unwind, i < j,
                     unwind[i].park = unwind[j].park
              PROVE  FALSE
  <2>1. DOMAIN unwind \subseteq Nat
    BY DEF TreeInv, AgentsTypeOK
  <2>. QED  BY <2>1
<1>1. PICK k \in DOMAIN requests : unwind[i].park = requests[k]
  BY DEF UnwindIsOpen
<1>2. k < k
  BY <1>1 DEF UnwindIsOpen
<1>3. k \in Nat
  BY DEF TreeInv, AgentsTypeOK
<1>. QED  BY <1>2, <1>3

LEMMA HeadIs ==
  ASSUME AgentsTypeOK, unwind # <<>>,
         NEW u \in [park : Parks, frame : Nat \ {0}, stage : Stages],
         unwind' = <<u>> \o Tail(unwind)
  PROVE  /\ unwind' # <<>> /\ Now' = u /\ Now = unwind[1] /\ unwind'[1] = u
         /\ 1 \in DOMAIN unwind /\ DOMAIN unwind' = DOMAIN unwind /\ DOMAIN unwind \subseteq Nat
         /\ \A i \in DOMAIN unwind : i # 1 => unwind'[i] = unwind[i]
         /\ \A i \in DOMAIN unwind : unwind[i].park \in Parks
<1>. DEFINE R == [park : Parks, frame : Nat \ {0}, stage : Stages]
<1>0. unwind \in Seq(R) /\ \A r \in R : r.park \in Parks
  BY DEF AgentsTypeOK
<1>. HIDE DEF R
<1>1. /\ unwind' # <<>> /\ Now' = u /\ Now = unwind[1] /\ unwind'[1] = u
      /\ 1 \in DOMAIN unwind /\ DOMAIN unwind' = DOMAIN unwind /\ DOMAIN unwind \subseteq Nat
      /\ \A i \in DOMAIN unwind : i # 1 => unwind'[i] = unwind[i]
      /\ \A i \in DOMAIN unwind : unwind[i] \in R
  BY <1>0 DEF Now
<1>. QED  BY <1>0, <1>1

\* The head of an unwind moves on and its park or its frame gets its result.
LEMMA HeadKeeps ==
  ASSUME SpawnTree, TreeInv, ToolInv, worker = "unwind", unwind # <<>>,
         NEW u \in [park : Parks, frame : Nat \ {0}, stage : Stages],
         unwind' = <<u>> \o Tail(unwind), u.park = Now.park,
         UNCHANGED <<worker, thread, requests, verdicts, box>>,
         results' \in [Calls -> Nat], \A c \in Calls : results[c] <= results'[c],
         \A p \in Parks : p # Now.park => results'[p] = results[p],
         u.stage \in {"settle", "keep", "land"} <=> results'[u.park] = 0,
         \A k \in DOMAIN Frames(u.park) : k < u.frame => results'[Frames(u.park)[k]] # 0,
         u.stage = "hand" => u.frame \in DOMAIN Frames(u.park)
  PROVE  UnwindIsOpen' /\ UnwindStands' /\ AskedOnce'
<1>1. /\ Now = unwind[1] /\ unwind'[1] = u
      /\ 1 \in DOMAIN unwind /\ DOMAIN unwind' = DOMAIN unwind
      /\ \A i \in DOMAIN unwind : i # 1 => unwind'[i] = unwind[i]
      /\ \A i \in DOMAIN unwind : unwind[i].park \in Parks
  BY HeadIs DEF TreeInv
<1>2. \A i \in DOMAIN unwind : unwind'[i].park = unwind[i].park
  BY <1>1
<1>3. \A k \in DOMAIN requests : requests[k] \in Parks
  BY DEF TreeInv, AgentsTypeOK
<1>4. UnwindIsOpen'
  <2>1. \A k \in DOMAIN requests : IsOpen(requests[k])' => IsOpen(requests[k])
    BY <1>3, ClosedStays DEF ToolInv, DurableTypeOK
  <2>2. \A k \in DOMAIN requests : results'[requests[k]] = 0 => results[requests[k]] = 0
    BY <1>3, FramesIn DEF ToolInv, DurableTypeOK
  <2>3. \A i \in DOMAIN unwind' : \E k \in DOMAIN requests' : unwind'[i].park = requests'[k]
    BY <1>1, <1>2 DEF ToolInv, UnwindIsOpen
  <2>4. \A i, j \in DOMAIN unwind', k, l \in DOMAIN requests' :
          i < j /\ unwind'[i].park = requests'[k] /\ unwind'[j].park = requests'[l] => k < l
    <3>. SUFFICES ASSUME NEW i \in DOMAIN unwind, NEW j \in DOMAIN unwind,
                         NEW k \in DOMAIN requests, NEW l \in DOMAIN requests,
                         i < j, unwind'[i].park = requests[k], unwind'[j].park = requests[l]
                  PROVE  k < l
      BY <1>1
    <3>1. unwind[i].park = requests[k] /\ unwind[j].park = requests[l]
      BY <1>2
    <3>. QED  BY <3>1 DEF ToolInv, UnwindIsOpen
  <2>5. \A k \in DOMAIN requests' : IsOpen(requests[k])' => \E i \in DOMAIN unwind' : unwind'[i].park = requests'[k]
    <3>. SUFFICES ASSUME NEW k \in DOMAIN requests, IsOpen(requests[k])
                  PROVE  \E i \in DOMAIN unwind : unwind'[i].park = requests[k]
      BY <1>1, <2>1
    <3>. QED  BY <1>2 DEF ToolInv, UnwindIsOpen
  <2>6. \A k \in DOMAIN requests' : results'[requests'[k]] = 0 => verdicts'[requests'[k]] # "open"
    BY <2>2 DEF ToolInv, UnwindIsOpen
  <2>7. thread' # "RUNNING"
    BY DEF ToolInv, UnwindIsOpen
  <2>. QED  BY <2>3, <2>4, <2>5, <2>6, <2>7 DEF UnwindIsOpen
<1>5. UnwindStands'
  <2>. SUFFICES ASSUME NEW i \in DOMAIN unwind
                PROVE  /\ unwind'[i].stage \in {"settle", "keep", "land"} <=> results'[unwind'[i].park] = 0
                       /\ \A k \in DOMAIN Frames(unwind'[i].park) :
                            k < unwind'[i].frame => results'[Frames(unwind'[i].park)[k]] # 0
                       /\ unwind'[i].stage = "hand" => unwind'[i].frame \in DOMAIN Frames(unwind'[i].park)
    BY <1>1 DEF UnwindStands, Frames
  <2>1. CASE i = 1
    BY <1>1, <2>1
  <2>2. CASE i # 1
    <3>1. unwind'[i] = unwind[i] /\ unwind[i].park # Now.park /\ unwind[i].park \in Parks
      BY <1>1, <2>2, ParksDiffer DEF ToolInv
    <3>2. results'[unwind[i].park] = results[unwind[i].park]
      BY <3>1
    <3>3. \A k \in DOMAIN Frames(unwind[i].park) :
            results[Frames(unwind[i].park)[k]] # 0 => results'[Frames(unwind[i].park)[k]] # 0
      BY <3>1, FramesIn DEF ToolInv, DurableTypeOK
    <3>. QED  BY <3>1, <3>2, <3>3 DEF ToolInv, UnwindStands
  <2>. QED  BY <2>1, <2>2
<1>6. AskedOnce'
  BY DEF ToolInv, AskedOnce
<1>. QED  BY <1>4, <1>5, <1>6

\* A step that runs no tool and adds no request leaves the ones that ran as they stand.
LEMMA FirstStays ==
  ASSUME SpawnTree, TreeInv, ToolInv,
         UNCHANGED <<ran, requests>>, worker' = worker, thread # "RUNNING" => thread' # "RUNNING",
         results' \in [Calls -> Nat], \A c \in Calls : results[c] <= results'[c],
         \A p \in Parks : verdicts[p] # "open" => verdicts'[p] # "open",
         \A p \in Parks : Unsettled(p) /\ worker = "unwind" /\ unwind # <<>> /\ Now.park = p
                            => unwind' # <<>> /\ Now'.park = p
  PROVE  FirstOpen'
<1>. SUFFICES ASSUME NEW p \in Parks, ran[p] > 0, results'[p] = 0
              PROVE  /\ worker # "loop" /\ thread' # "RUNNING"
                     /\ worker = "unwind" => unwind' # <<>> /\ Now'.park = p
                     /\ \E k \in DOMAIN requests : requests[k] = p /\ \A i \in 1..(k - 1) : ~IsOpen(requests[i])'
                     /\ \A k \in DOMAIN requests : results'[requests[k]] = 0 => verdicts'[requests[k]] # "open"
  BY Zenon DEF FirstOpen, Unsettled
<1>1. Unsettled(p)
  BY FramesIn DEF Unsettled, ToolInv, DurableTypeOK
<1>2. requests \in Seq(Parks)
  BY DEF TreeInv, AgentsTypeOK
<1>3. \A k \in DOMAIN requests : requests[k] \in Parks /\ requests[k] \in Calls
  BY <1>2, FramesIn
<1>4. PICK k \in DOMAIN requests : requests[k] = p /\ \A i \in 1..(k - 1) : ~IsOpen(requests[i])
  BY <1>1, Zenon DEF ToolInv, FirstOpen
<1>5. \A i \in 1..(k - 1) : requests[i] \in Parks
  BY <1>2, <1>3
<1>6. \A i \in 1..(k - 1) : ~IsOpen(requests[i])'
  BY <1>4, <1>5, ClosedStays DEF ToolInv, DurableTypeOK
<1>7. \A j \in DOMAIN requests : results'[requests[j]] = 0 => verdicts'[requests[j]] # "open"
  <2>1. \A j \in DOMAIN requests : results'[requests[j]] = 0 => results[requests[j]] = 0
    BY <1>3 DEF ToolInv, DurableTypeOK
  <2>2. \A j \in DOMAIN requests : results[requests[j]] = 0 => verdicts[requests[j]] # "open"
    BY <1>1, Zenon DEF ToolInv, FirstOpen
  <2>. QED  BY <1>3, <2>1, <2>2
<1>8. /\ worker # "loop" /\ thread' # "RUNNING"
      /\ worker = "unwind" => unwind' # <<>> /\ Now'.park = p
  BY <1>1, Zenon DEF ToolInv, FirstOpen
<1>. QED  BY <1>4, <1>6, <1>7, <1>8

\* So does one that runs none, adds no request and leaves the unwind alone, if while there is an
\* unwind no park gets its result.
LEMMA QuietKeepsTools ==
  ASSUME SpawnTree, TreeInv, ToolInv, AskedOnce',
         UNCHANGED <<ran, kept, unsure, requests, worker, unwind>>,
         thread # "RUNNING" => thread' # "RUNNING",
         results' \in [Calls -> Nat], \A c \in Calls : results[c] <= results'[c],
         worker = "unwind" => \A p \in Parks : results'[p] = results[p],
         verdicts' \in [Parks -> {"open", "approved", "denied"}],
         \A p \in Parks : verdicts[p] # "open" => verdicts'[p] # "open"
  PROVE  ToolInv'
<1>. USE DEF ToolInv
<1>1. DurableTypeOK'
  BY DEF DurableTypeOK
<1>2. \A k \in DOMAIN requests : requests[k] \in Parks /\ requests[k] \in Calls
  BY FramesIn DEF TreeInv, AgentsTypeOK
<1>3. UnwindIsOpen'
  <2>1. \A k \in DOMAIN requests : IsOpen(requests[k])' => IsOpen(requests[k])
    BY <1>2, ClosedStays DEF DurableTypeOK
  <2>2. \A k \in DOMAIN requests : results'[requests[k]] = 0 => results[requests[k]] = 0
    BY <1>2 DEF DurableTypeOK
  <2>. QED  BY <1>2, <2>1, <2>2 DEF UnwindIsOpen
<1>4. UnwindStands'
  <2>1. CASE worker # "unwind"
    BY <2>1 DEF TreeInv, AtWorkBelow, UnwindStands
  <2>2. CASE worker = "unwind"
    <3>. SUFFICES ASSUME NEW i \in DOMAIN unwind
                  PROVE  /\ unwind[i].stage \in {"settle", "keep", "land"} <=> results'[unwind[i].park] = 0
                         /\ \A k \in DOMAIN Frames(unwind[i].park) :
                              k < unwind[i].frame => results'[Frames(unwind[i].park)[k]] # 0
                         /\ unwind[i].stage = "hand" => unwind[i].frame \in DOMAIN Frames(unwind[i].park)
      BY DEF UnwindStands, Frames
    <3>1. unwind[i].park \in Parks
      <4>. DEFINE R == [park : Parks, frame : Nat \ {0}, stage : Stages]
      <4>1. unwind \in Seq(R) /\ \A r \in R : r.park \in Parks
        BY DEF TreeInv, AgentsTypeOK
      <4>. HIDE DEF R
      <4>. QED  BY <4>1
    <3>2. results'[unwind[i].park] = results[unwind[i].park]
      BY <2>2, <3>1
    <3>3. \A k \in DOMAIN Frames(unwind[i].park) :
            results[Frames(unwind[i].park)[k]] # 0 => results'[Frames(unwind[i].park)[k]] # 0
      BY <3>1, FramesIn DEF DurableTypeOK
    <3>. QED  BY <3>2, <3>3 DEF UnwindStands
  <2>. QED  BY <2>1, <2>2
<1>5. FirstOpen'
  <2>1. Now' = Now
    BY DEF Now
  <2>. QED  BY <2>1, FirstStays
<1>6. RanOnce'
  <2>1. Now' = Now
    BY DEF Now
  <2>2. \A p \in Parks : results[p] # 0 => results'[p] # 0
    BY FramesIn DEF DurableTypeOK
  <2>. QED  BY <2>1, <2>2 DEF RanOnce
<1>. QED  BY <1>1, <1>3, <1>4, <1>5, <1>6

\* The worker is gone, and with it the unwind.  Whatever ran was kept, or its death is counted.
LEMMA GoneKeepsTools ==
  ASSUME SpawnTree, TreeInv, ToolInv, Gone, UNCHANGED <<ran, kept, results, verdicts>>,
         AskedOnce', unsure' \in [Parks -> Nat], \A p \in Parks : unsure[p] <= unsure'[p],
         \A p \in Parks : worker = "unwind" /\ unwind # <<>> /\ Now.park = p /\ Now.stage = "keep"
                            => unsure'[p] = unsure[p] + 1,
         (requests' = requests /\ thread' = thread) \/ (\A p \in Parks : ~Unsettled(p))
  PROVE  ToolInv'
<1>. USE DEF ToolInv
<1>1. worker' = "off" /\ unwind' = <<>>
  BY DEF Gone
<1>2. DurableTypeOK'
  BY DEF DurableTypeOK
<1>3. UnwindIsOpen' /\ UnwindStands'
  BY <1>1 DEF UnwindIsOpen, UnwindStands
<1>4. FirstOpen'
  <2>1. CASE \A p \in Parks : ~Unsettled(p)
    BY <2>1 DEF FirstOpen, Unsettled
  <2>2. CASE requests' = requests /\ thread' = thread
    <3>. SUFFICES ASSUME NEW p \in Parks, Unsettled(p)'
                  PROVE  /\ worker' # "loop" /\ thread' # "RUNNING"
                         /\ worker' = "unwind" => unwind' # <<>> /\ Now'.park = p
                         /\ \E k \in DOMAIN requests' : requests'[k] = p /\ \A i \in 1..(k - 1) : ~IsOpen(requests[i])'
                         /\ \A k \in DOMAIN requests' : results'[requests'[k]] = 0 => verdicts'[requests'[k]] # "open"
      BY <2>2, Zenon DEF FirstOpen
    <3>1. Unsettled(p)
      BY DEF Unsettled
    <3>2. \A q : IsOpen(q)' = IsOpen(q)
      BY DEF IsOpen, Waiting
    <3>. QED  BY <1>1, <2>2, <3>1, <3>2 DEF FirstOpen
  <2>. QED  BY <2>1, <2>2
<1>5. RanOnce'
  <2>. SUFFICES ASSUME NEW p \in Parks
                PROVE  /\ ran[p] <= 1 + unsure'[p]
                       /\ ran[p] <= unsure'[p] \/ p \in kept \/ results[p] # 0
    BY DEF RanOnce
  <2>1. ran[p] \in Nat /\ unsure[p] \in Nat /\ unsure'[p] \in Nat /\ unsure[p] <= unsure'[p]
    BY DEF DurableTypeOK
  <2>2. /\ ran[p] <= 1 + unsure[p]
        /\ ran[p] <= unsure[p] \/ p \in kept \/ results[p] # 0
             \/ (worker = "unwind" /\ unwind # <<>> /\ Now.park = p /\ Now.stage = "keep")
    BY Zenon DEF RanOnce
  <2>3. CASE worker = "unwind" /\ unwind # <<>> /\ Now.park = p /\ Now.stage = "keep"
    <3>1. unsure'[p] = unsure[p] + 1
      BY <2>3
    <3>. QED  BY <2>1, <2>2, <3>1
  <2>4. CASE ran[p] <= unsure[p] \/ p \in kept \/ results[p] # 0
    BY <2>1, <2>2, <2>4
  <2>. QED  BY <2>2, <2>3, <2>4
<1>. QED  BY <1>2, <1>3, <1>4, <1>5

\* One queue put behind another keeps both, in their order.
LEMMA Joined ==
  ASSUME NEW S, NEW s \in Seq(S), NEW t \in Seq(S), NEW n \in Nat, DOMAIN t = 1..n
  PROVE  /\ DOMAIN (s \o t) = 1..(Len(s) + n)
         /\ \A i \in 1..Len(s) : (s \o t)[i] = s[i]
         /\ \A i \in (Len(s) + 1)..(Len(s) + n) : (s \o t)[i] = t[i - Len(s)] /\ i - Len(s) \in 1..n
<1>1. Len(s) \in Nat /\ Len(t) = n
  OBVIOUS
<1>2. DOMAIN (s \o t) = 1..(Len(s) + n)
  BY <1>1
<1>3. ASSUME NEW i \in 1..Len(s) PROVE (s \o t)[i] = s[i]
  BY <1>1
<1>4. ASSUME NEW i \in (Len(s) + 1)..(Len(s) + n)
      PROVE  (s \o t)[i] = t[i - Len(s)] /\ i - Len(s) \in 1..n
  BY <1>1
<1>. QED  BY <1>2, <1>3, <1>4

\* What goes into the box was not asked for before.
LEMMA AsksOnce ==
  ASSUME SpawnTree, TreeInv, AskedOnce, NEW x \in Agents, NEW asked \in SUBSET CallsOf(x), Asks(x, asked)
  PROVE  AskedOnce'
<1>. DEFINE n == Cardinality(asked \cap Parks)
<1>1. PICK new \in [1..n -> asked \cap Parks] :
        (\A i, j \in DOMAIN new : i # j => new[i] # new[j]) /\ box' = box \o new
  BY DEF Asks
<1>2. requests' = requests /\ asked \cap Asked = {}
  BY DEF Asks, Fresh, durable
<1>3. n \in Nat
  <2>1. IsFiniteSet(asked \cap Parks)
    BY FS_Subset DEF SpawnTree
  <2>. QED  BY <2>1, FS_CardinalityType
<1>. HIDE DEF n
<1>4. box \in Seq(Parks) /\ new \in Seq(Parks) /\ DOMAIN new = 1..n /\ DOMAIN box = 1..Len(box) /\ Len(box) \in Nat
  BY <1>1, <1>3 DEF TreeInv, AgentsTypeOK
<1>5. \A i \in 1..n : new[i] \notin Asked
  BY <1>1, <1>2
<1>6. /\ \A i \in 1..n, j \in DOMAIN box : new[i] # box[j]
      /\ \A i \in 1..n, j \in DOMAIN requests : new[i] # requests[j]
  BY <1>5 DEF Asked
<1>7. /\ DOMAIN box' = 1..(Len(box) + n)
      /\ \A i \in 1..Len(box) : box'[i] = box[i]
      /\ \A i \in (Len(box) + 1)..(Len(box) + n) : box'[i] = new[i - Len(box)] /\ i - Len(box) \in 1..n
  BY <1>1, <1>3, <1>4, Joined
<1>8. \A i \in DOMAIN box' : i \in 1..Len(box) \/ i \in (Len(box) + 1)..(Len(box) + n)
  BY <1>3, <1>4, <1>7
<1>9. ASSUME NEW i \in DOMAIN box', NEW j \in DOMAIN box', i # j PROVE box'[i] # box'[j]
  <2>1. CASE i \in 1..Len(box) /\ j \in 1..Len(box)
    BY <1>4, <1>7, <1>9, <2>1 DEF AskedOnce
  <2>2. CASE i \in 1..Len(box) /\ j \notin 1..Len(box)
    BY <1>4, <1>6, <1>7, <1>8, <2>2
  <2>3. CASE i \notin 1..Len(box) /\ j \in 1..Len(box)
    BY <1>4, <1>6, <1>7, <1>8, <2>3
  <2>4. CASE i \notin 1..Len(box) /\ j \notin 1..Len(box)
    <3>1. /\ box'[i] = new[i - Len(box)] /\ i - Len(box) \in 1..n
          /\ box'[j] = new[j - Len(box)] /\ j - Len(box) \in 1..n
      BY <1>7, <1>8, <2>4
    <3>2. i - Len(box) # j - Len(box)
      BY <1>3, <1>4, <1>7, <1>9
    <3>. QED  BY <1>1, <1>4, <3>1, <3>2
  <2>. QED  BY <2>1, <2>2, <2>3, <2>4
<1>10. ASSUME NEW i \in DOMAIN requests, NEW j \in DOMAIN box' PROVE requests[i] # box'[j]
  <2>1. CASE j \in 1..Len(box)
    BY <1>4, <1>7, <2>1 DEF AskedOnce
  <2>2. CASE j \in (Len(box) + 1)..(Len(box) + n)
    BY <1>6, <1>7, <2>2
  <2>. QED  BY <1>8, <2>1, <2>2
<1>. QED  BY <1>2, <1>9, <1>10 DEF AskedOnce

\* What is written from the box was not written before.
LEMMA WrittenOnce ==
  ASSUME TreeInv, AskedOnce, requests' = requests \o box, box' = <<>>
  PROVE  AskedOnce'
<1>1. /\ requests \in Seq(Parks) /\ box \in Seq(Parks)
      /\ DOMAIN requests = 1..Len(requests) /\ DOMAIN box = 1..Len(box)
      /\ Len(requests) \in Nat /\ Len(box) \in Nat
  BY DEF TreeInv, AgentsTypeOK
<1>2. /\ DOMAIN requests' = 1..(Len(requests) + Len(box)) /\ DOMAIN box' = {}
      /\ \A i \in 1..Len(requests) : requests'[i] = requests[i]
      /\ \A i \in (Len(requests) + 1)..(Len(requests) + Len(box)) :
           requests'[i] = box[i - Len(requests)] /\ i - Len(requests) \in 1..Len(box)
  BY <1>1
<1>3. \A i \in DOMAIN requests' :
        i \in 1..Len(requests) \/ i \in (Len(requests) + 1)..(Len(requests) + Len(box))
  BY <1>1, <1>2
<1>4. ASSUME NEW i \in DOMAIN requests', NEW j \in DOMAIN requests', i # j PROVE requests'[i] # requests'[j]
  <2>1. CASE i \in 1..Len(requests) /\ j \in 1..Len(requests)
    BY <1>1, <1>2, <1>4, <2>1 DEF AskedOnce
  <2>2. CASE i \in 1..Len(requests) /\ j \notin 1..Len(requests)
    BY <1>1, <1>2, <1>3, <2>2 DEF AskedOnce
  <2>3. CASE i \notin 1..Len(requests) /\ j \in 1..Len(requests)
    BY <1>1, <1>2, <1>3, <2>3 DEF AskedOnce
  <2>4. CASE i \notin 1..Len(requests) /\ j \notin 1..Len(requests)
    <3>1. /\ requests'[i] = box[i - Len(requests)] /\ i - Len(requests) \in 1..Len(box)
          /\ requests'[j] = box[j - Len(requests)] /\ j - Len(requests) \in 1..Len(box)
      BY <1>2, <1>3, <2>4
    <3>2. i - Len(requests) # j - Len(requests)
      BY <1>1, <1>2, <1>4
    <3>. QED  BY <1>1, <3>1, <3>2 DEF AskedOnce
  <2>. QED  BY <2>1, <2>2, <2>3, <2>4
<1>. QED  BY <1>2, <1>4 DEF AskedOnce

\* The main agent works in its own loop only.
LEMMA MainLoops ==
  ASSUME SpawnTree, TreeInv, at[Main] # "off"
  PROVE  worker = "loop"
<1>1. Main \in Agents
  BY DEF Agents
<1>2. worker = "unwind" => AtFrame /\ Main \in Under(Frame) \cup {Frame}
  BY <1>1 DEF TreeInv, AtWorkBelow
<1>3. AtFrame => Frame \in Nested /\ Main \notin Under(Frame)
  BY FrameIs DEF TreeInv, Under, SpawnTree
<1>. QED  BY <1>1, <1>2, <1>3 DEF TreeInv, AtWorkBelow, AgentsTypeOK, SpawnTree

LEMMA NoneUnsettled ==
  ASSUME ToolInv, worker = "loop" \/ (worker = "unwind" /\ unwind # <<>> /\ Now.stage \notin {"settle", "keep", "land"}),
         AgentsTypeOK
  PROVE  \A p \in Parks : ~Unsettled(p)
<1>1. CASE worker = "loop"
  BY <1>1 DEF ToolInv, FirstOpen
<1>2. CASE worker = "unwind" /\ unwind # <<>> /\ Now.stage \notin {"settle", "keep", "land"}
  <2>1. 1 \in DOMAIN unwind /\ Now = unwind[1]
    <3>1. \A R : unwind \in Seq(R) /\ unwind # <<>> => 1 \in DOMAIN unwind /\ Head(unwind) = unwind[1]
      OBVIOUS
    <3>. QED  BY <1>2, <3>1 DEF AgentsTypeOK, Now
  <2>2. results[Now.park] # 0
    BY <1>2, <2>1 DEF ToolInv, UnwindStands
  <2>. QED  BY <1>2, <2>2 DEF ToolInv, FirstOpen, Unsettled
<1>. QED  BY <1>1, <1>2

LEMMA SavedKeepsTools ==
  ASSUME SpawnTree, TreeInv, ToolInv, NEW x \in Agents, SavesTools(x) \/ Answers(x)
  PROVE  ToolInv'
<1>. USE DEF TreeInv
<1>1. PICK finish \in {"tool-calls", "stop"} : Saved(x, finish) /\ at[x] \in {"tools", "thinking"}
  BY DEF SavesTools, Answers
<1>2. /\ results' = [c \in Calls |-> IF c \in InStep(x) /\ live[c] # "parked" THEN results[c] + 1 ELSE results[c]]
      /\ Committed(x = Main)
      /\ UNCHANGED <<verdicts, kept, ran, worker, unwind, unsure>>
  BY <1>1, Zenon DEF Saved, counted
<1>3. /\ results' \in [Calls -> Nat] /\ \A c \in Calls : results[c] <= results'[c]
      /\ \A p \in Parks : results'[p] = results[p]
  <2>1. \A p \in Parks : p \in Calls /\ (p \in InStep(x) => live[p] = "parked")
    BY FramesIn DEF AgentsTypeOK, InStep
  <2>. QED  BY <1>2, <2>1 DEF ToolInv, DurableTypeOK
<1>4. CASE x # Main
  <2>1. UNCHANGED <<requests, box, thread>>
    BY <1>2, <1>4 DEF Committed
  <2>2. AskedOnce'
    BY <2>1 DEF ToolInv, AskedOnce
  <2>. QED  BY <1>2, <1>3, <2>1, <2>2, QuietKeepsTools DEF ToolInv, DurableTypeOK
<1>5. CASE x = Main
  <2>1. worker = "loop" /\ unwind = <<>>
    BY <1>1, <1>5, MainLoops DEF AtWorkBelow
  <2>2. \A p \in Parks : ~Unsettled(p)
    BY <2>1, NoneUnsettled
  <2>3. AskedOnce'
    <3>1. CASE requests' = requests \o box /\ box' = <<>>
      BY <3>1, WrittenOnce DEF ToolInv
    <3>2. CASE UNCHANGED <<requests, box>>
      BY <3>2 DEF ToolInv, AskedOnce
    <3>. QED  BY <1>2, <3>1, <3>2 DEF Committed
  <2>4. DurableTypeOK' /\ UnwindIsOpen' /\ UnwindStands'
    BY <1>2, <1>3, <2>1 DEF ToolInv, DurableTypeOK, UnwindIsOpen, UnwindStands
  <2>5. FirstOpen'
    BY <1>2, <1>3, <2>2 DEF FirstOpen, Unsettled
  <2>6. RanOnce'
    BY <1>2, <1>3, <2>1 DEF ToolInv, RanOnce
  <2>. QED  BY <2>3, <2>4, <2>5, <2>6 DEF ToolInv
<1>. QED  BY <1>4, <1>5

LEMMA LoopsKeepTools ==
  ASSUME SpawnTree, TreeInv, ToolInv,
         \/ \E x \in Agents : (\E asked \in SUBSET CallsOf(x) : Asks(x, asked)) \/ Fails(x)
         \/ \E n \in Nested : Spawn(n) \/ Returns(n)
         \/ \E d \in DOMAIN line : Granted(d)
         \/ Reenters
         \/ UNCHANGED vars
  PROVE  ToolInv'
<1>1. UNCHANGED <<ran, kept, unsure, requests, worker, unwind, thread, results, verdicts>>
  BY Zenon DEF Asks, Fails, Spawn, Returns, Granted, Reenters, Enter, vars, durable, memory, counted
<1>2. AskedOnce'
  <2>1. CASE \E x \in Agents : \E asked \in SUBSET CallsOf(x) : Asks(x, asked)
    BY <2>1, AsksOnce DEF ToolInv
  <2>2. CASE ~\E x \in Agents : \E asked \in SUBSET CallsOf(x) : Asks(x, asked)
    <3>1. box' = box
      BY <2>2, Zenon DEF Fails, Spawn, Returns, Granted, Reenters, Enter, vars, memory
    <3>. QED  BY <1>1, <3>1 DEF ToolInv, AskedOnce
  <2>. QED  BY <2>1, <2>2
<1>. QED  BY <1>1, <1>2, QuietKeepsTools DEF ToolInv, DurableTypeOK

LEMMA GoneToolsStay ==
  ASSUME SpawnTree, TreeInv, ToolInv, Ends \/ ParksAgain \/ Dies \/ MainFails \/ StopsLoop
  PROVE  ToolInv'
<1>. USE DEF TreeInv
<1>1. Gone /\ box' = <<>>
  BY Zenon DEF Ends, ParksAgain, Dies, MainFails, StopsLoop, Gone
<1>2. UNCHANGED <<ran, kept, results, verdicts>>
  BY Zenon DEF Ends, ParksAgain, Dies, MainFails, StopsLoop, durable, counted
<1>3. AskedOnce'
  <2>1. CASE ParksAgain
    BY <1>1, <2>1, WrittenOnce DEF ParksAgain, ToolInv
  <2>2. CASE ~ParksAgain
    <3>1. requests' = requests
      BY <2>2, Zenon DEF Ends, Dies, MainFails, StopsLoop, durable
    <3>. QED  BY <1>1, <3>1 DEF ToolInv, AskedOnce
  <2>. QED  BY <2>1, <2>2
<1>4. CASE Dies
  <2>1. unsure' = [p \in Parks |-> IF \E i \in DOMAIN unwind : unwind[i].park = p /\ unwind[i].stage = "keep"
                                   THEN unsure[p] + 1 ELSE unsure[p]]
    BY <1>4 DEF Dies
  <2>2. unwind # <<>> => 1 \in DOMAIN unwind /\ Now = unwind[1]
    <3>1. \A R : unwind \in Seq(R) /\ unwind # <<>> => 1 \in DOMAIN unwind /\ Head(unwind) = unwind[1]
      OBVIOUS
    <3>. QED  BY <3>1 DEF AgentsTypeOK, Now
  <2>3. unsure \in [Parks -> Nat]
    BY DEF ToolInv, DurableTypeOK
  <2>4. /\ unsure' \in [Parks -> Nat] /\ \A p \in Parks : unsure[p] <= unsure'[p]
        /\ \A p \in Parks : worker = "unwind" /\ unwind # <<>> /\ Now.park = p /\ Now.stage = "keep"
                              => unsure'[p] = unsure[p] + 1
    BY <2>1, <2>2, <2>3
  <2>5. requests' = requests /\ thread' = thread
    BY <1>4 DEF Dies, durable
  <2>. QED  BY <1>1, <1>2, <1>3, <2>4, <2>5, GoneKeepsTools
<1>5. CASE ~Dies
  <2>1. unsure' = unsure
    BY <1>5, Zenon DEF Ends, ParksAgain, MainFails, StopsLoop, counted
  <2>2. worker = "loop" \/ (worker = "unwind" /\ unwind # <<>> /\ Now.stage = "unwind")
    BY <1>5, Zenon DEF Ends, ParksAgain, MainFails, StopsLoop, AtFrame
  <2>3. \A p \in Parks : ~Unsettled(p)
    BY <2>2, NoneUnsettled
  <2>4. \A p \in Parks : unsure[p] \in Nat
    BY DEF ToolInv, DurableTypeOK
  <2>5. unsure' \in [Parks -> Nat]
    BY <2>1 DEF ToolInv, DurableTypeOK
  <2>. QED  BY <1>1, <1>2, <1>3, <2>1, <2>2, <2>3, <2>4, <2>5, GoneKeepsTools
<1>. QED  BY <1>4, <1>5

LEMMA OutsideKeepsTools ==
  ASSUME SpawnTree, TreeInv, ToolInv,
         StopsParked \/ \E p \in Parks, v \in {"approved", "denied"} : Verdict(p, v)
  PROVE  ToolInv'
<1>1. CASE StopsParked
  <2>1. /\ worker = "off" /\ thread' = "ENDED"
        /\ UNCHANGED <<ran, kept, unsure, requests, worker, unwind, verdicts, box>>
    BY <1>1 DEF StopsParked, memory
  <2>2. PICK S : results' = [c \in Calls |-> IF c \in S THEN results[c] + 1 ELSE results[c]]
    BY <1>1, Zenon DEF StopsParked
  <2>3. results' \in [Calls -> Nat] /\ \A c \in Calls : results[c] <= results'[c]
    BY <2>2 DEF ToolInv, DurableTypeOK
  <2>4. AskedOnce'
    BY <2>1 DEF ToolInv, AskedOnce
  <2>. QED  BY <2>1, <2>3, <2>4, QuietKeepsTools DEF ToolInv, DurableTypeOK
<1>2. ASSUME NEW p \in Parks, NEW v \in {"approved", "denied"}, Verdict(p, v) PROVE ToolInv'
  <2>1. /\ verdicts[p] = "open" /\ verdicts' = [verdicts EXCEPT ![p] = v]
        /\ UNCHANGED <<ran, kept, unsure, requests, worker, unwind, results, thread, box>>
    BY <1>2 DEF Verdict, memory, counted
  <2>2. /\ verdicts' \in [Parks -> {"open", "approved", "denied"}]
        /\ \A q \in Parks : verdicts[q] # "open" => verdicts'[q] # "open"
    BY <2>1 DEF ToolInv, DurableTypeOK
  <2>3. AskedOnce'
    BY <2>1 DEF ToolInv, AskedOnce
  <2>. QED  BY <2>1, <2>2, <2>3, QuietKeepsTools DEF ToolInv, DurableTypeOK
<1>. QED  BY <1>1, <1>2

LEMMA EntersMainTools ==
  ASSUME SpawnTree, TreeInv, ToolInv, Begins \/ Unwound
  PROVE  ToolInv'
<1>1. /\ worker' = "loop" /\ unwind = <<>> /\ unwind' = <<>>
      /\ UNCHANGED <<results, verdicts, ran, kept, unsure, requests, box>>
      /\ (worker = "off" /\ thread = "RUNNING") \/ worker = "unwind"
  BY DEF Begins, Unwound, durable, TreeInv, AtWorkBelow
<1>2. \A p \in Parks : ~Unsettled(p)
  BY <1>1 DEF ToolInv, FirstOpen
<1>3. DurableTypeOK' /\ AskedOnce' /\ UnwindIsOpen' /\ UnwindStands'
  BY <1>1 DEF ToolInv, DurableTypeOK, AskedOnce, UnwindIsOpen, UnwindStands
<1>4. FirstOpen'
  BY <1>1, <1>2 DEF FirstOpen, Unsettled
<1>5. RanOnce'
  BY <1>1 DEF ToolInv, RanOnce
<1>. QED  BY <1>3, <1>4, <1>5 DEF ToolInv

\* A resumed run unwinds the open requests, the earliest first: a tool that ran is the first.
LEMMA ResumesKeepsTools ==
  ASSUME SpawnTree, TreeInv, ToolInv, Resumes
  PROVE  ToolInv'
<1>. USE DEF ToolInv
<1>1. /\ worker = "off" /\ worker' = "unwind" /\ unwind' = OpenHitls /\ Ready(OpenHitls)
      /\ thread = "WAITING_FOR_INPUT"
      /\ UNCHANGED <<results, verdicts, ran, kept, unsure, requests, box, thread>>
  BY DEF Resumes, durable, counted
<1>2. requests \in Seq(Parks) /\ DOMAIN requests \subseteq Nat /\ \A k \in DOMAIN requests : requests[k] \in Parks
  <2>1. requests \in Seq(Parks)
    BY DEF TreeInv, AgentsTypeOK
  <2>. QED  BY <2>1
<1>3. PICK e \in [DOMAIN OpenHitls -> DOMAIN requests] :
        /\ \A i \in DOMAIN OpenHitls : IsOpen(requests[e[i]]) /\ OpenHitls[i] = Opened(requests[e[i]])
        /\ \A i, j \in DOMAIN OpenHitls : i < j => e[i] < e[j]
        /\ \A k \in DOMAIN requests : IsOpen(requests[k]) => \E i \in DOMAIN OpenHitls : e[i] = k
  BY <1>2, OpenIs
<1>4. OpenHitls \in Seq([park : Parks, frame : Nat \ {0}, stage : Stages])
  BY <1>2, OpenIs
<1>. DEFINE U == OpenHitls
<1>5. DOMAIN U = 1..Len(U) /\ Len(U) \in Nat
  <2>1. \A R : U \in Seq(R) => DOMAIN U = 1..Len(U) /\ Len(U) \in Nat
    OBVIOUS
  <2>. QED  BY <1>4, <2>1
<1>6. \A p : Opened(p).park = p
  BY DEF Opened
<1>7. \A i \in DOMAIN U : e[i] \in DOMAIN requests /\ U[i].park = requests[e[i]] /\ requests[e[i]] \in Parks
  BY <1>2, <1>3, <1>6
<1>8. \A k \in DOMAIN requests : IsOpen(requests[k]) => \E i \in DOMAIN U : e[i] = k /\ U[i].park = requests[k]
  BY <1>3, <1>7
<1>9. \A i \in DOMAIN U, k \in DOMAIN requests : U[i].park = requests[k] => k = e[i]
  BY <1>7 DEF AskedOnce
<1>10. ASSUME NEW k \in DOMAIN requests, results[requests[k]] = 0 PROVE verdicts[requests[k]] # "open"
  <2>1. PICK i \in DOMAIN U : e[i] = k
    BY <1>8, <1>10 DEF IsOpen
  <2>2. U[i] = Opened(requests[k])
    BY <1>3, <2>1
  <2>3. U[i].stage = "settle" /\ U[i].park = requests[k]
    BY <1>10, <2>2 DEF Opened
  <2>. QED  BY <1>1, <2>3 DEF Ready
<1>11. DurableTypeOK' /\ AskedOnce'
  BY <1>1 DEF DurableTypeOK, AskedOnce
<1>12. \A q : IsOpen(q)' = IsOpen(q)
  BY <1>1 DEF IsOpen, Waiting
<1>. HIDE DEF U
<1>13. UnwindIsOpen'
  <2>1. unwind' = U
    BY <1>1 DEF U
  <2>2. \A i, j \in DOMAIN U, k, l \in DOMAIN requests :
          i < j /\ U[i].park = requests[k] /\ U[j].park = requests[l] => k < l
    <3>1. \A i, j \in DOMAIN U : i < j => e[i] < e[j]
      BY <1>3 DEF U
    <3>. QED  BY <1>9, <3>1
  <2>3. \A i \in DOMAIN U : \E k \in DOMAIN requests : U[i].park = requests[k]
    BY <1>7
  <2>4. \A k \in DOMAIN requests : IsOpen(requests[k]) => \E i \in DOMAIN U : U[i].park = requests[k]
    BY <1>8
  <2>. QED  BY <1>1, <1>10, <1>12, <2>1, <2>2, <2>3, <2>4 DEF UnwindIsOpen
<1>14. UnwindStands'
  <2>. SUFFICES ASSUME NEW i \in DOMAIN U
                PROVE  /\ U[i].stage \in {"settle", "keep", "land"} <=> results[U[i].park] = 0
                       /\ \A k \in DOMAIN Frames(U[i].park) : k < U[i].frame => results[Frames(U[i].park)[k]] # 0
                       /\ U[i].stage = "hand" => U[i].frame \in DOMAIN Frames(U[i].park)
    BY <1>1 DEF UnwindStands, Frames, U
  <2>. DEFINE p == requests[e[i]]
  <2>1. p \in Parks /\ IsOpen(p) /\ U[i] = Opened(p) /\ U[i].park = p
    BY <1>3, <1>7 DEF U
  <2>. HIDE DEF p
  <2>2. DOMAIN Frames(p) = 1..Len(Frames(p)) /\ Len(Frames(p)) \in Nat
    BY <2>1, FramesIn
  <2>3. CASE results[p] = 0
    <3>1. U[i].stage = "settle" /\ U[i].frame = 1
      BY <2>1, <2>3 DEF Opened
    <3>. QED  BY <2>1, <2>2, <2>3, <3>1
  <2>4. CASE results[p] # 0
    <3>1. U[i].stage = "unwind" /\ U[i].frame = First(Waiting(p))
      BY <2>1, <2>4 DEF Opened
    <3>2. Waiting(p) # {}
      BY <2>1, <2>4 DEF IsOpen
    <3>3. First(Waiting(p)) \in 1..Len(Frames(p)) /\ \A k \in Waiting(p) : First(Waiting(p)) <= k
      BY <2>1, <3>2, FirstIs
    <3>4. \A k \in DOMAIN Frames(p) : results[Frames(p)[k]] = 0 => First(Waiting(p)) <= k
      BY <3>3 DEF Waiting
    <3>. QED  BY <2>1, <2>2, <2>4, <3>1, <3>3, <3>4
  <2>. QED  BY <2>3, <2>4
<1>15. FirstOpen'
  <2>. SUFFICES ASSUME NEW p \in Parks, Unsettled(p)
                PROVE  /\ U # <<>> /\ Head(U).park = p
                       /\ \E k \in DOMAIN requests : requests[k] = p /\ \A i \in 1..(k - 1) : ~IsOpen(requests[i])
    BY <1>1, <1>10, <1>12 DEF FirstOpen, Unsettled, Now, U
  <2>1. PICK k \in DOMAIN requests : requests[k] = p /\ \A i \in 1..(k - 1) : ~IsOpen(requests[i])
    BY DEF FirstOpen
  <2>2. IsOpen(requests[k])
    BY <2>1 DEF Unsettled, IsOpen
  <2>3. PICK i \in DOMAIN U : e[i] = k
    BY <1>8, <2>2
  <2>4. 1 \in DOMAIN U /\ U # <<>> /\ Head(U) = U[1] /\ i \in Nat /\ (i # 1 => 1 < i)
    BY <1>5, <2>3
  <2>5. e[1] \in DOMAIN requests /\ IsOpen(requests[e[1]]) /\ e[1] \in Nat /\ e[1] >= 1
    BY <1>2, <1>3, <2>4 DEF U
  <2>6. e[1] <= k
    <3>1. i # 1 => e[1] < e[i]
      BY <1>3, <2>3, <2>4 DEF U
    <3>2. k \in Nat
      BY <1>2
    <3>. QED  BY <2>3, <2>5, <3>1, <3>2
  <2>7. e[1] = k
    <3>1. k \in Nat
      BY <1>2
    <3>2. e[1] < k => e[1] \in 1..(k - 1)
      BY <2>5, <3>1
    <3>. QED  BY <2>1, <2>5, <2>6, <3>1, <3>2
  <2>. QED  BY <1>7, <2>1, <2>4, <2>7
<1>16. RanOnce'
  BY <1>1 DEF RanOnce
<1>. QED  BY <1>11, <1>13, <1>14, <1>15, <1>16

\* The park at the head has its result in every stage after "land".
LEMMA HeadStands ==
  ASSUME SpawnTree, TreeInv, ToolInv, worker = "unwind", unwind # <<>>
  PROVE  /\ Now.park \in Parks /\ Now.park \in Calls /\ Now.frame \in Nat \ {0} /\ Now.stage \in Stages
         /\ Now.stage \in {"settle", "keep", "land"} <=> results[Now.park] = 0
         /\ \A k \in DOMAIN Frames(Now.park) : k < Now.frame => results[Frames(Now.park)[k]] # 0
         /\ Now.stage = "hand" => Now.frame \in DOMAIN Frames(Now.park)
<1>1. 1 \in DOMAIN unwind /\ Now = unwind[1]
  <2>1. \A R : unwind \in Seq(R) /\ unwind # <<>> => 1 \in DOMAIN unwind /\ Head(unwind) = unwind[1]
    OBVIOUS
  <2>. QED  BY <2>1 DEF TreeInv, AgentsTypeOK, Now
<1>2. Now.park \in Parks /\ Now.frame \in Nat \ {0} /\ Now.stage \in Stages
  BY NowIs DEF TreeInv
<1>. QED  BY <1>1, <1>2, FramesIn DEF ToolInv, UnwindStands

\* A stage that adds no result and runs no tool.
LEMMA StageKeepsTools ==
  ASSUME SpawnTree, TreeInv, ToolInv, worker = "unwind", unwind # <<>>,
         NEW w \in Stages, unwind' = <<[Now EXCEPT !.stage = w]>> \o Tail(unwind),
         UNCHANGED <<worker, thread, requests, verdicts, box, results, ran, unsure>>,
         w \in {"settle", "keep", "land"} <=> results[Now.park] = 0,
         w = "hand" => Now.frame \in DOMAIN Frames(Now.park),
         \A p \in Parks : p \in kept => p \in kept' \/ results[p] # 0,
         Now.stage = "keep" => Now.park \in kept'
  PROVE  ToolInv'
<1>. USE DEF ToolInv
<1>. DEFINE u == [Now EXCEPT !.stage = w]
<1>1. /\ u \in [park : Parks, frame : Nat \ {0}, stage : Stages]
      /\ u.park = Now.park /\ u.frame = Now.frame /\ u.stage = w
  BY NowIs DEF TreeInv
<1>2. unwind' = <<u>> \o Tail(unwind)
  OBVIOUS
<1>. HIDE DEF u
<1>3. Now' = u /\ unwind' # <<>>
  BY <1>1, <1>2, HeadIs DEF TreeInv
<1>4. /\ Now.stage \in Stages
      /\ \A k \in DOMAIN Frames(Now.park) : k < Now.frame => results[Frames(Now.park)[k]] # 0
  BY HeadStands
<1>5. /\ results' \in [Calls -> Nat] /\ \A c \in Calls : results[c] <= results'[c]
      /\ \A p \in Parks : p # Now.park => results'[p] = results[p]
  BY DEF DurableTypeOK
<1>6. UnwindIsOpen' /\ UnwindStands' /\ AskedOnce'
  BY <1>1, <1>2, <1>4, <1>5, HeadKeeps
<1>7. FirstOpen'
  BY <1>1, <1>3, <1>5, FirstStays
<1>8. RanOnce'
  BY <1>1, <1>3 DEF RanOnce
<1>9. DurableTypeOK'
  BY DEF DurableTypeOK
<1>. QED  BY <1>6, <1>7, <1>8, <1>9

\* The tool whose verdict is settled is the first that is open, and has not run unless its
\* worker died.
LEMMA ToolRunsKeeps ==
  ASSUME SpawnTree, TreeInv, ToolInv, ToolRuns
  PROVE  ToolInv'
<1>. USE DEF ToolInv
<1>. DEFINE p == Now.park
            u == [Now EXCEPT !.stage = "keep"]
<1>1. /\ worker = "unwind" /\ unwind # <<>> /\ Now.stage = "settle" /\ MustRun(p)
      /\ ran' = [ran EXCEPT ![p] = @ + 1]
      /\ unwind' = <<u>> \o Tail(unwind)
      /\ UNCHANGED <<worker, thread, requests, verdicts, box, results, kept, unsure>>
  BY DEF ToolRuns, counted
<1>2. /\ u \in [park : Parks, frame : Nat \ {0}, stage : Stages]
      /\ u.park = p /\ u.frame = Now.frame /\ u.stage = "keep"
  BY <1>1, NowIs DEF TreeInv, Stages
<1>3. /\ p \in Parks /\ p \in Calls /\ results[p] = 0
      /\ \A k \in DOMAIN Frames(p) : k < Now.frame => results[Frames(p)[k]] # 0
  BY <1>1, HeadStands
<1>. HIDE DEF u
<1>4. /\ unwind' # <<>> /\ Now' = u /\ 1 \in DOMAIN unwind /\ Now = unwind[1] /\ DOMAIN unwind \subseteq Nat
  BY <1>1, <1>2, HeadIs DEF TreeInv
<1>. HIDE DEF p
<1>5. /\ results' \in [Calls -> Nat] /\ \A c \in Calls : results[c] <= results'[c]
      /\ \A q \in Parks : q # Now.park => results'[q] = results[q]
  BY <1>1 DEF DurableTypeOK
<1>6. UnwindIsOpen' /\ UnwindStands' /\ AskedOnce'
  BY <1>1, <1>2, <1>3, <1>5, HeadKeeps DEF p
<1>7. p \notin kept
  BY <1>1 DEF MustRun
<1>8. ran[p] <= unsure[p] /\ ran[p] \in Nat /\ unsure[p] \in Nat
  BY <1>1, <1>3, <1>7 DEF RanOnce, DurableTypeOK
<1>9. DurableTypeOK'
  BY <1>1, <1>3 DEF DurableTypeOK
<1>10. RanOnce'
  <2>. SUFFICES ASSUME NEW q \in Parks
                PROVE  /\ ran'[q] <= 1 + unsure[q]
                       /\ ran'[q] <= unsure[q] \/ q \in kept \/ results[q] # 0 \/ (u.park = q /\ u.stage = "keep")
    BY <1>1, <1>4 DEF RanOnce
  <2>1. CASE q = p
    <3>1. ran'[q] = ran[p] + 1
      BY <1>1, <1>3, <2>1 DEF DurableTypeOK
    <3>. QED  BY <1>2, <1>8, <2>1, <3>1
  <2>2. CASE q # p
    <3>1. ran'[q] = ran[q] /\ Now.park # q
      BY <1>1, <2>2 DEF DurableTypeOK, p
    <3>. QED  BY <3>1 DEF RanOnce
  <2>. QED  BY <2>1, <2>2
<1>11. \E k \in DOMAIN requests : requests[k] = p /\ \A i \in 1..(k - 1) : ~IsOpen(requests[i])
  <2>1. PICK k \in DOMAIN requests : p = requests[k]
    BY <1>1, <1>4 DEF UnwindIsOpen, p
  <2>2. requests \in Seq(Parks)
    BY DEF TreeInv, AgentsTypeOK
  <2>3. ASSUME NEW i \in 1..(k - 1), IsOpen(requests[i]) PROVE FALSE
    <3>1. i \in DOMAIN requests /\ i < k /\ k \in Nat /\ i \in Nat
      BY <2>2
    <3>2. PICK j \in DOMAIN unwind : unwind[j].park = requests[i]
      BY <1>1, <2>3, <3>1 DEF UnwindIsOpen
    <3>3. CASE j = 1
      <4>1. requests[i] = requests[k] /\ i # k
        BY <1>4, <2>1, <3>1, <3>2, <3>3 DEF p
      <4>. QED  BY <3>1, <4>1 DEF AskedOnce
    <3>4. CASE j # 1
      <4>1. 1 < j
        <5>1. j \in Nat /\ j # 0
          <6>1. \A R : unwind \in Seq(R) => \A d \in DOMAIN unwind : d \in Nat /\ d # 0
            OBVIOUS
          <6>. QED  BY <6>1 DEF TreeInv, AgentsTypeOK
        <5>. QED  BY <3>4, <5>1
      <4>2. unwind[1].park = requests[k]
        BY <1>4, <2>1 DEF p
      <4>3. k < i
        BY <1>1, <1>4, <3>1, <3>2, <4>1, <4>2 DEF UnwindIsOpen
      <4>. QED  BY <3>1, <4>3
    <3>. QED  BY <3>3, <3>4
  <2>. QED  BY <2>1, <2>3
<1>12. FirstOpen'
  <2>. SUFFICES ASSUME NEW q \in Parks, ran'[q] > 0, results[q] = 0
                PROVE  /\ worker # "loop" /\ thread # "RUNNING"
                       /\ u.park = q
                       /\ \E k \in DOMAIN requests : requests[k] = q /\ \A i \in 1..(k - 1) : ~IsOpen(requests[i])
                       /\ \A k \in DOMAIN requests : results[requests[k]] = 0 => verdicts[requests[k]] # "open"
    <3>1. \A r : IsOpen(r)' = IsOpen(r)
      BY <1>1 DEF IsOpen, Waiting
    <3>. QED  BY <1>1, <1>4, <3>1 DEF FirstOpen, Unsettled
  <2>1. q = p
    <3>. SUFFICES ASSUME q # p PROVE FALSE
      OBVIOUS
    <3>1. ran'[q] = ran[q] /\ Now.park # q
      BY <1>1 DEF DurableTypeOK, p
    <3>. QED  BY <1>1, <3>1 DEF FirstOpen, Unsettled
  <2>. QED  BY <1>1, <1>2, <1>11, <2>1 DEF UnwindIsOpen
<1>. QED  BY <1>6, <1>9, <1>10, <1>12

\* The verdict's result lands, or a frame's is handed up: no other request gets one.
LEMMA ResultKeepsTools ==
  ASSUME SpawnTree, TreeInv, ToolInv, worker = "unwind", unwind # <<>>,
         NEW u \in [park : Parks, frame : Nat \ {0}, stage : Stages], unwind' = <<u>> \o Tail(unwind),
         u.park = Now.park, NEW c \in Calls, results' = [results EXCEPT ![c] = @ + 1],
         c \in Parks => c = Now.park,
         UNCHANGED <<worker, thread, requests, verdicts, box, ran, unsure, kept>>,
         u.stage \notin {"settle", "keep", "land", "hand"}, results'[Now.park] # 0,
         \A k \in DOMAIN Frames(u.park) : k < u.frame => results'[Frames(u.park)[k]] # 0
  PROVE  ToolInv'
<1>. USE DEF ToolInv
<1>1. /\ results' \in [Calls -> Nat] /\ \A d \in Calls : results[d] <= results'[d]
      /\ \A p \in Parks : p # Now.park => results'[p] = results[p]
  BY FramesIn DEF DurableTypeOK
<1>2. UnwindIsOpen' /\ UnwindStands' /\ AskedOnce'
  BY <1>1, HeadKeeps
<1>3. Now' = u /\ unwind' # <<>>
  BY HeadIs DEF TreeInv
<1>4. FirstOpen'
  BY <1>1, <1>3, FirstStays
<1>5. RanOnce'
  <2>1. \A p \in Parks : results[p] # 0 => results'[p] # 0
    BY <1>1, FramesIn DEF DurableTypeOK
  <2>. QED  BY <1>3, <2>1 DEF RanOnce
<1>6. DurableTypeOK'
  BY <1>1 DEF DurableTypeOK
<1>. QED  BY <1>2, <1>4, <1>5, <1>6

LEMMA LandsKeepsTools ==
  ASSUME SpawnTree, TreeInv, ToolInv, Lands
  PROVE  ToolInv'
<1>. DEFINE u == [Now EXCEPT !.stage = "clear"]
<1>1. /\ worker = "unwind" /\ unwind # <<>>
      /\ results' = [results EXCEPT ![Now.park] = @ + 1]
      /\ unwind' = <<u>> \o Tail(unwind)
      /\ UNCHANGED <<worker, thread, requests, verdicts, box, ran, unsure, kept>>
  BY DEF Lands, counted
<1>2. /\ u \in [park : Parks, frame : Nat \ {0}, stage : Stages]
      /\ u.park = Now.park /\ u.frame = Now.frame /\ u.stage = "clear"
  BY <1>1, NowIs DEF TreeInv, Stages
<1>. HIDE DEF u
<1>3. /\ Now.park \in Calls /\ Now.park \in Parks
      /\ \A k \in DOMAIN Frames(Now.park) : k < Now.frame => results[Frames(Now.park)[k]] # 0
  BY <1>1, HeadStands
<1>4. results'[Now.park] # 0 /\ \A c \in Calls : results[c] # 0 => results'[c] # 0
  BY <1>1, <1>3 DEF ToolInv, DurableTypeOK
<1>5. \A k \in DOMAIN Frames(u.park) : k < u.frame => results'[Frames(u.park)[k]] # 0
  BY <1>2, <1>3, <1>4, FramesIn
<1>. QED  BY <1>1, <1>2, <1>3, <1>4, <1>5, ResultKeepsTools

LEMMA HandsKeepsTools ==
  ASSUME SpawnTree, TreeInv, ToolInv, Hands
  PROVE  ToolInv'
<1>. DEFINE n == Now
            u == [n EXCEPT !.stage = "unwind", !.frame = n.frame + 1]
<1>1. /\ worker = "unwind" /\ unwind # <<>> /\ Now.stage = "hand"
      /\ results' = [results EXCEPT ![Frame] = @ + 1]
      /\ unwind' = <<u>> \o Tail(unwind)
      /\ UNCHANGED <<worker, thread, requests, verdicts, box, ran, unsure, kept>>
  BY DEF Hands, counted
<1>2. n \in [park : Parks, frame : Nat \ {0}, stage : Stages] /\ n.frame + 1 \in Nat \ {0}
  BY <1>1, NowIs DEF TreeInv
<1>. HIDE DEF n
<1>3. /\ u \in [park : Parks, frame : Nat \ {0}, stage : Stages]
      /\ u.park = n.park /\ u.frame = n.frame + 1 /\ u.stage = "unwind"
  BY <1>2 DEF Stages
<1>. HIDE DEF u
<1>4. /\ Now.park \in Calls /\ Now.park \in Parks /\ Now.frame \in Nat /\ Now.frame \in DOMAIN Frames(Now.park)
      /\ results[Now.park] # 0
      /\ \A k \in DOMAIN Frames(Now.park) : k < Now.frame => results[Frames(Now.park)[k]] # 0
  BY <1>1, HeadStands
<1>5. Frame \in Nested /\ Frame \in Calls /\ Frame \notin Parks
  BY <1>4, FramesIn DEF Frame
<1>6. results'[Frame] # 0 /\ \A c \in Calls : results[c] # 0 => results'[c] # 0
  BY <1>1, <1>5 DEF ToolInv, DurableTypeOK
<1>7. \A k \in DOMAIN Frames(u.park) : k < u.frame => results'[Frames(u.park)[k]] # 0
  <2>. SUFFICES ASSUME NEW k \in DOMAIN Frames(Now.park), k < Now.frame + 1
                PROVE  results'[Frames(Now.park)[k]] # 0
    BY <1>3 DEF n
  <2>1. k \in Nat /\ Frames(Now.park)[k] \in Calls
    BY <1>4, FramesIn
  <2>2. CASE k = Now.frame
    BY <1>6, <2>2 DEF Frame
  <2>3. CASE k # Now.frame
    BY <1>4, <1>6, <2>1, <2>3
  <2>. QED  BY <2>2, <2>3
<1>8. u.park = Now.park
  BY <1>3 DEF n
<1>. QED  BY <1>1, <1>3, <1>4, <1>5, <1>6, <1>7, <1>8, ResultKeepsTools

LEMMA StagesKeepTools ==
  ASSUME SpawnTree, TreeInv, ToolInv, ToolKept \/ Clears \/ Closes
  PROVE  ToolInv'
<1>1. CASE ToolKept
  <2>1. /\ worker = "unwind" /\ unwind # <<>> /\ Now.stage = "keep" /\ kept' = kept \cup {Now.park}
        /\ unwind' = <<[Now EXCEPT !.stage = "land"]>> \o Tail(unwind)
        /\ UNCHANGED <<worker, thread, requests, verdicts, box, results, ran, unsure>>
    BY <1>1 DEF ToolKept, counted
  <2>2. results[Now.park] = 0
    BY <2>1, HeadStands
  <2>3. "land" \in Stages
    BY DEF Stages
  <2>. QED  BY <2>1, <2>2, <2>3, StageKeepsTools
<1>2. CASE Clears
  <2>1. /\ worker = "unwind" /\ unwind # <<>> /\ Now.stage = "clear" /\ kept' = kept \ {Now.park}
        /\ unwind' = <<[Now EXCEPT !.stage = "unwind"]>> \o Tail(unwind)
        /\ UNCHANGED <<worker, thread, requests, verdicts, box, results, ran, unsure>>
    BY <1>2 DEF Clears, counted
  <2>2. results[Now.park] # 0
    BY <2>1, HeadStands
  <2>3. "unwind" \in Stages
    BY DEF Stages
  <2>. QED  BY <2>1, <2>2, <2>3, StageKeepsTools
<1>3. CASE Closes
  <2>1. /\ worker = "unwind" /\ unwind # <<>> /\ Now.stage = "unwind" /\ Now.frame <= Len(Frames(Now.park))
        /\ unwind' = <<[Now EXCEPT !.stage = "hand"]>> \o Tail(unwind)
        /\ UNCHANGED <<worker, thread, requests, verdicts, box, results, ran, unsure, kept>>
    BY <1>3 DEF Closes, AtFrame, counted
  <2>2. results[Now.park] # 0 /\ Now.park \in Parks /\ Now.frame \in Nat \ {0}
    BY <2>1, HeadStands
  <2>3. Now.frame \in DOMAIN Frames(Now.park)
    BY <2>1, <2>2, FramesIn
  <2>4. "hand" \in Stages
    BY DEF Stages
  <2>. QED  BY <2>1, <2>2, <2>3, <2>4, StageKeepsTools
<1>. QED  BY <1>1, <1>2, <1>3

\* A park whose frames have all been handed their results is open no more.
LEMMA NextParkKeepsTools ==
  ASSUME SpawnTree, TreeInv, ToolInv, NextPark
  PROVE  ToolInv'
<1>. USE DEF ToolInv
<1>1. /\ worker = "unwind" /\ unwind # <<>> /\ Now.stage = "unwind" /\ Now.frame > Len(Frames(Now.park))
      /\ unwind' = Tail(unwind)
      /\ UNCHANGED <<worker, thread, requests, verdicts, box, results, ran, unsure, kept>>
  BY DEF NextPark, durable, counted
<1>2. /\ Now.park \in Parks /\ results[Now.park] # 0 /\ Now.frame \in Nat
      /\ \A k \in DOMAIN Frames(Now.park) : k < Now.frame => results[Frames(Now.park)[k]] # 0
  BY <1>1, HeadStands
<1>3. ~IsOpen(Now.park)
  <2>1. \A k \in DOMAIN Frames(Now.park) : k < Now.frame
    BY <1>1, <1>2, FramesIn
  <2>. QED  BY <1>2, <2>1 DEF IsOpen, Waiting
<1>4. \A p \in Parks : ~Unsettled(p)
  BY <1>1, NoneUnsettled DEF TreeInv
<1>5. /\ Now = unwind[1] /\ DOMAIN unwind = 1..Len(unwind) /\ Len(unwind) \in Nat
      /\ DOMAIN unwind' = 1..(Len(unwind) - 1)
      /\ \A i \in 1..(Len(unwind) - 1) : unwind'[i] = unwind[i + 1] /\ i + 1 \in DOMAIN unwind
  <2>1. \A R : unwind \in Seq(R) /\ unwind # <<>> =>
          /\ Head(unwind) = unwind[1] /\ DOMAIN unwind = 1..Len(unwind) /\ Len(unwind) \in Nat
          /\ DOMAIN Tail(unwind) = 1..(Len(unwind) - 1)
          /\ \A i \in 1..(Len(unwind) - 1) : Tail(unwind)[i] = unwind[i + 1] /\ i + 1 \in DOMAIN unwind
    OBVIOUS
  <2>. QED  BY <1>1, <2>1 DEF TreeInv, AgentsTypeOK, Now
<1>6. \A q : IsOpen(q)' = IsOpen(q)
  BY <1>1 DEF IsOpen, Waiting
<1>7. UnwindIsOpen'
  <2>1. \A i \in DOMAIN unwind' : \E k \in DOMAIN requests : unwind'[i].park = requests[k]
    BY <1>1, <1>5 DEF UnwindIsOpen
  <2>2. \A i, j \in DOMAIN unwind', k, l \in DOMAIN requests :
          i < j /\ unwind'[i].park = requests[k] /\ unwind'[j].park = requests[l] => k < l
    <3>. SUFFICES ASSUME NEW i \in DOMAIN unwind', NEW j \in DOMAIN unwind',
                         NEW k \in DOMAIN requests, NEW l \in DOMAIN requests,
                         i < j, unwind'[i].park = requests[k], unwind'[j].park = requests[l]
                  PROVE  k < l
      BY Zenon
    <3>1. /\ i + 1 \in DOMAIN unwind /\ j + 1 \in DOMAIN unwind /\ i + 1 < j + 1
          /\ unwind[i + 1].park = requests[k] /\ unwind[j + 1].park = requests[l]
      BY <1>5
    <3>. QED  BY <1>1, <3>1 DEF UnwindIsOpen
  <2>3. ASSUME NEW k \in DOMAIN requests, IsOpen(requests[k]) PROVE \E i \in DOMAIN unwind' : unwind'[i].park = requests[k]
    <3>1. PICK j \in DOMAIN unwind : unwind[j].park = requests[k]
      BY <1>1, <2>3 DEF UnwindIsOpen
    <3>2. j # 1
      BY <1>3, <1>5, <2>3, <3>1
    <3>3. j - 1 \in 1..(Len(unwind) - 1) /\ (j - 1) + 1 = j
      BY <1>5, <3>2
    <3>4. unwind'[j - 1] = unwind[j]
      BY <1>5, <3>3
    <3>. QED  BY <1>5, <3>1, <3>3, <3>4
  <2>. QED  BY <1>1, <1>6, <2>1, <2>2, <2>3 DEF UnwindIsOpen
<1>8. UnwindStands'
  <2>. SUFFICES ASSUME NEW i \in DOMAIN unwind'
                PROVE  /\ unwind'[i].stage \in {"settle", "keep", "land"} <=> results[unwind'[i].park] = 0
                       /\ \A k \in DOMAIN Frames(unwind'[i].park) :
                            k < unwind'[i].frame => results[Frames(unwind'[i].park)[k]] # 0
                       /\ unwind'[i].stage = "hand" => unwind'[i].frame \in DOMAIN Frames(unwind'[i].park)
    BY <1>1 DEF UnwindStands, Frames
  <2>1. unwind'[i] = unwind[i + 1] /\ i + 1 \in DOMAIN unwind
    BY <1>5
  <2>. QED  BY <2>1 DEF UnwindStands
<1>9. DurableTypeOK' /\ AskedOnce'
  BY <1>1 DEF DurableTypeOK, AskedOnce
<1>10. FirstOpen'
  BY <1>1, <1>4 DEF FirstOpen, Unsettled
<1>11. RanOnce'
  BY <1>1 DEF RanOnce
<1>. QED  BY <1>7, <1>8, <1>9, <1>10, <1>11

LEMMA ToolsStay ==
  ASSUME SpawnTree, TreeInv, ToolInv, [Next]_vars
  PROVE  ToolInv'
<1>1. ASSUME NEW x \in Agents, SavesTools(x) \/ Answers(x) PROVE ToolInv'
  BY <1>1, SavedKeepsTools
<1>2. ASSUME \/ \E x \in Agents : (\E asked \in SUBSET CallsOf(x) : Asks(x, asked)) \/ Fails(x)
             \/ \E n \in Nested : Spawn(n) \/ Returns(n)
             \/ \E d \in DOMAIN line : Granted(d)
             \/ Reenters
             \/ UNCHANGED vars
      PROVE  ToolInv'
  BY <1>2, LoopsKeepTools
<1>3. ASSUME Begins \/ Unwound PROVE ToolInv'
  BY <1>3, EntersMainTools
<1>4. ASSUME Resumes PROVE ToolInv'
  BY <1>4, ResumesKeepsTools
<1>5. ASSUME Ends \/ ParksAgain \/ Dies \/ MainFails \/ StopsLoop PROVE ToolInv'
  BY <1>5, GoneToolsStay
<1>6. ASSUME StopsParked \/ \E p \in Parks, v \in {"approved", "denied"} : Verdict(p, v) PROVE ToolInv'
  BY <1>6, OutsideKeepsTools
<1>7. ASSUME ToolRuns PROVE ToolInv'
  BY <1>7, ToolRunsKeeps
<1>8. ASSUME ToolKept \/ Clears \/ Closes PROVE ToolInv'
  BY <1>8, StagesKeepTools
<1>9. ASSUME Lands PROVE ToolInv'
  BY <1>9, LandsKeepsTools
<1>10. ASSUME Hands PROVE ToolInv'
  BY <1>10, HandsKeepsTools
<1>11. ASSUME NextPark PROVE ToolInv'
  BY <1>11, NextParkKeepsTools
<1>. QED
  BY <1>1, <1>2, <1>3, <1>4, <1>5, <1>6, <1>7, <1>8, <1>9, <1>10, <1>11, Zenon DEF Next

LEMMA ToolsStart ==
  ASSUME Init
  PROVE  ToolInv
<1>1. /\ results = [c \in Calls |-> 0] /\ requests = <<>> /\ box = <<>> /\ unwind = <<>> /\ worker = "off"
      /\ verdicts = [p \in Parks |-> "open"] /\ ran = [p \in Parks |-> 0] /\ unsure = [p \in Parks |-> 0]
  BY DEF Init
<1>2. DurableTypeOK
  BY <1>1 DEF DurableTypeOK
<1>3. AskedOnce /\ UnwindIsOpen /\ UnwindStands
  BY <1>1 DEF AskedOnce, UnwindIsOpen, UnwindStands
<1>4. FirstOpen /\ RanOnce
  BY <1>1 DEF FirstOpen, Unsettled, RanOnce
<1>. QED  BY <1>2, <1>3, <1>4 DEF ToolInv

\* However often its segment is redelivered an approved tool runs once, and once more only for a
\* worker that died when it had returned and its output was not kept; and until it has its
\* result every other request of the run has its answer (core/engine.ts, resumePendingHitl).
THEOREM ToolsRunOnce ==
  ASSUME SpawnTree, MaxDepth \in Nat
  PROVE  Spec => []ToolRunsOnce
<1>1. Init => TreeInv /\ ToolInv
  BY TreeStarts, ToolsStart
<1>2. TreeInv /\ ToolInv /\ [Next]_vars => (TreeInv /\ ToolInv)'
  BY TreeStays, ToolsStay
<1>3. TreeInv /\ ToolInv => ToolRunsOnce
  BY DEF ToolInv, RanOnce, FirstOpen, Unsettled, ToolRunsOnce
<1>. QED  BY <1>1, <1>2, <1>3, PTL DEF Spec
---------------------------------------------------------------------------
(* A call is answered once *)

\* The nested runs between a call's agent and the main agent, and the call itself.
OnWay(x) == {Above[x][i] : i \in DOMAIN Above[x]}
Chain(p) == OnWay(Asker[p])
Line(p) == {p} \cup Chain(p)
Caller(c) == IF c \in Nested THEN Parent[c] ELSE Asker[c]

IsAsked(p) == \E i \in DOMAIN requests : requests[i] = p
IsBoxed(p) == \E i \in DOMAIN box : box[i] = p

\* What an unwind stands on: the nested run it is at and those above.
Base == IF AtFrame THEN OnWay(Frame) ELSE {}

\* A call of a step in progress is not in the history, nor is a result of it.
LiveIsNew == \A c \in Calls : live[c] # "none" => c \notin called /\ results[c] = 0

\* A request's calls are over, and so a nested run above one is not spawned again.
RequestsAreOver == \A p \in Parks : IsAsked(p) => \A c \in Line(p) : live[c] = "none"

RecordsBegan ==
  /\ record \in [Nested -> {"none", "RUNNING", "COMPLETED", "FAILED", "CANCELLED"}]
  /\ \A p \in Parks : IsAsked(p) \/ IsBoxed(p) => \A n \in Chain(p) : record[n] # "none"
  /\ \A x \in Agents : at[x] # "off" => \A n \in OnWay(x) : record[n] # "none"

\* The results are of calls in the history, or on the way up from a request.
ResultsAreOf ==
  \A c \in Calls : results[c] # 0 => c \in called \/ \E p \in Parks : IsAsked(p) /\ c \in Line(p)

\* Somebody waits for the call: its agent parked with it, and is itself waited for.
Held(x) == at[x] = "parked" \/ (x # Main /\ x \notin Base /\ (live[x] = "parked" \/ x \in called))
Alive(p) ==
  \A c \in Line(p) : \/ c \in Base
                     \/ live[c] \in {"running", "parked"}
                     \/ c \in called /\ results[c] = 0 /\ Held(Caller(c))

\* A park in the box is waited for all the way up, or is under a call that was cut and will
\* never be in the history.
Lost(p) == \E c \in Line(p) : c \notin called /\ live[c] = "none"
BoxStands == \A p \in Parks : IsBoxed(p) => Alive(p) \/ Lost(p)

\* A call above a request has a result only after the request and the calls between; and an
\* unwind has yet to give those from its frame on theirs.
Climbs ==
  \A p \in Parks : IsAsked(p) =>
    \A k \in DOMAIN Frames(p) : results[Frames(p)[k]] # 0 =>
      results[p] # 0 /\ \A j \in 1..k : results[Frames(p)[j]] # 0
Ahead ==
  worker = "unwind" =>
    \A i \in DOMAIN unwind : \A k \in DOMAIN Frames(unwind[i].park) :
      unwind[i].frame <= k => results[Frames(unwind[i].park)[k]] = 0

OnceInv ==
  /\ LiveIsNew /\ RequestsAreOver /\ RecordsBegan /\ ResultsAreOf /\ BoxStands
  /\ Apart => Climbs /\ Ahead /\ EveryCallAnsweredOnce

---------------------------------------------------------------------------
\* What holds of the main agent, and of a nested run when of the one above, holds of all.
LEMMA AgentsFromMain ==
  ASSUME SpawnTree, NEW T, Main \in T, \A n \in Nested : Parent[n] \in T => n \in T
  PROVE  \A x \in Agents : x \in T
<1>0. PICK k \in Nat : \E order \in [Agents -> 0..k] : \A n \in Nested : order[Parent[n]] < order[n]
  BY DEF SpawnTree
<1>1. PICK h \in [Agents -> 0..k] : \A n \in Nested : h[Parent[n]] < h[n]
  BY <1>0
<1>. DEFINE U == {i \in Nat : \A x \in Agents : h[x] < i => x \in T}
<1>2. 0 \in U
  BY <1>1
<1>3. ASSUME NEW i \in Nat, i \in U PROVE i + 1 \in U
  <2>. SUFFICES ASSUME NEW x \in Agents, h[x] < i + 1, x # Main PROVE x \in T
    OBVIOUS
  <2>1. x \in Nested /\ Parent[x] \in Agents
    BY Up DEF Agents
  <2>2. h[Parent[x]] < i
    BY <1>1, <2>1
  <2>. QED  BY <1>3, <2>1, <2>2
<1>4. k + 1 \in U
  <2>. HIDE DEF U
  <2>. QED  BY <1>2, <1>3, Induction
<1>. QED  BY <1>1, <1>4

\* The way up from an agent: itself, and the way from the one that spawned it.
LEMMA WayIs ==
  ASSUME SpawnTree
  PROVE  /\ OnWay(Main) = {}
         /\ \A n \in Nested : OnWay(n) = {n} \cup OnWay(Parent[n])
         /\ \A x \in Agents : OnWay(x) \subseteq Nested
<1>1. OnWay(Main) = {}
  BY Up DEF OnWay
<1>2. ASSUME NEW n \in Nested PROVE OnWay(n) = {n} \cup OnWay(Parent[n])
  <2>. DEFINE s == Above[Parent[n]]
  <2>1. Above[n] = <<n>> \o s /\ s \in Seq(Nested)
    BY Up, AllFramed DEF Framed
  <2>. HIDE DEF s
  <2>2. /\ DOMAIN Above[n] = 1..(Len(s) + 1) /\ Len(s) \in Nat /\ DOMAIN s = 1..Len(s)
        /\ Above[n][1] = n
        /\ \A i \in 1..Len(s) : Above[n][i + 1] = s[i]
    BY <2>1
  <2>3. ASSUME NEW i \in DOMAIN Above[n] PROVE Above[n][i] \in {n} \cup {s[j] : j \in DOMAIN s}
    <3>1. i = 1 \/ (i - 1 \in 1..Len(s) /\ (i - 1) + 1 = i)
      BY <2>2
    <3>. QED  BY <2>2, <3>1
  <2>4. ASSUME NEW j \in DOMAIN s PROVE \E i \in DOMAIN Above[n] : Above[n][i] = s[j]
    <3>1. j + 1 \in 1..(Len(s) + 1)
      BY <2>2
    <3>. QED  BY <2>2, <3>1
  <2>5. 1 \in DOMAIN Above[n]
    BY <2>2
  <2>. QED  BY <2>2, <2>3, <2>4, <2>5 DEF OnWay, s
<1>3. ASSUME NEW x \in Agents PROVE OnWay(x) \subseteq Nested
  <2>1. Above[x] \in Seq(Nested)
    BY AllFramed DEF Framed
  <2>. QED  BY <2>1 DEF OnWay
<1>. QED  BY <1>1, <1>2, <1>3

\* It has the way up from each that is on it, and these are less deep.
LEMMA WayUp ==
  ASSUME SpawnTree
  PROVE  \A x \in Agents : \A y \in OnWay(x) :
           /\ y \in Nested /\ OnWay(y) \subseteq OnWay(x)
           /\ Depth(y) <= Depth(x)
           /\ Parent[y] = Main \/ Parent[y] \in OnWay(x)
<1>. DEFINE T == {x \in Agents : \A y \in OnWay(x) :
                    /\ OnWay(y) \subseteq OnWay(x)
                    /\ Depth(y) <= Depth(x)
                    /\ Parent[y] = Main \/ Parent[y] \in OnWay(x)}
<1>1. Main \in T
  BY WayIs DEF Agents
<1>2. ASSUME NEW n \in Nested, Parent[n] \in T PROVE n \in T
  <2>1. n \in Agents /\ Parent[n] \in Agents /\ OnWay(n) = {n} \cup OnWay(Parent[n])
    BY WayIs, OneCaller
  <2>2. Depth(n) = Depth(Parent[n]) + 1 /\ Depth(n) \in Nat /\ Depth(Parent[n]) \in Nat
    BY <2>1, Deeper
  <2>3. Parent[n] = Main \/ Parent[n] \in OnWay(n)
    <3>1. Parent[n] # Main => Parent[n] \in Nested
      BY <2>1 DEF Agents
    <3>2. Parent[n] \in Nested => Parent[n] \in OnWay(Parent[n])
      BY WayIs
    <3>. QED  BY <2>1, <3>1, <3>2
  <2>4. ASSUME NEW y \in OnWay(Parent[n])
        PROVE  /\ OnWay(y) \subseteq OnWay(n) /\ Depth(y) <= Depth(n)
               /\ Parent[y] = Main \/ Parent[y] \in OnWay(n)
    <3>1. y \in Nested /\ y \in Agents
      BY <2>1, WayIs DEF Agents
    <3>2. Depth(y) \in Nat
      BY <3>1, Deeper
    <3>. QED  BY <1>2, <2>1, <2>2, <3>2
  <2>. QED  BY <2>1, <2>2, <2>3, <2>4
<1>. HIDE DEF T
<1>3. \A x \in Agents : x \in T
  BY <1>1, <1>2, AgentsFromMain
<1>. QED  BY <1>3, WayIs DEF T

\* A call is made by an agent; those of a park's line by the next in it, the last by the main
\* agent.
LEMMA LineIs ==
  ASSUME SpawnTree, NEW p \in Parks
  PROVE  /\ Asker[p] \in Agents /\ Chain(p) \subseteq Nested /\ Line(p) \subseteq Calls
         /\ p \in Line(p) /\ p \notin Nested
         /\ Chain(p) = {Frames(p)[k] : k \in DOMAIN Frames(p)}
         /\ \A c \in Line(p) : /\ Caller(c) \in Agents /\ c \in CallsOf(Caller(c))
                               /\ Caller(c) = Main \/ Caller(c) \in Chain(p)
                               /\ c \in Nested => c \in Chain(p)
<1>1. Asker[p] \in Agents /\ p \notin Nested /\ p \in Calls
  BY DEF SpawnTree, Calls
<1>2. Chain(p) \subseteq Nested
  BY <1>1, WayIs DEF Chain
<1>3. Chain(p) = {Frames(p)[k] : k \in DOMAIN Frames(p)}
  BY DEF Chain, OnWay, Frames
<1>4. ASSUME NEW c \in Line(p)
      PROVE  /\ Caller(c) \in Agents /\ c \in CallsOf(Caller(c))
             /\ Caller(c) = Main \/ Caller(c) \in Chain(p)
             /\ c \in Nested => c \in Chain(p)
  <2>1. CASE c = p
    <3>1. Caller(c) = Asker[p] /\ c \in CallsOf(Asker[p])
      BY <1>1, <2>1 DEF Caller, CallsOf
    <3>2. Asker[p] # Main => Asker[p] \in Nested /\ Asker[p] \in OnWay(Asker[p])
      BY <1>1, WayIs DEF Agents
    <3>. QED  BY <1>1, <2>1, <3>1, <3>2 DEF Chain
  <2>2. CASE c \in Chain(p)
    <3>1. c \in Nested /\ Caller(c) = Parent[c] /\ c \in CallsOf(Parent[c]) /\ Parent[c] \in Agents
      BY <1>2, <2>2, OneCaller DEF Caller
    <3>. QED  BY <1>1, <2>2, <3>1, WayUp DEF Chain
  <2>. QED  BY <1>4, <2>1, <2>2 DEF Line
<1>5. Line(p) \subseteq Calls
  BY <1>1, <1>2 DEF Line, Calls
<1>. QED  BY <1>1, <1>2, <1>3, <1>4, <1>5 DEF Line

\* A park's frames are different nested runs.
LEMMA FramesDiffer ==
  ASSUME SpawnTree, NEW p \in Parks
  PROVE  \A i, j \in DOMAIN Frames(p) : Frames(p)[i] = Frames(p)[j] => i = j
<1>1. /\ Asker[p] \in Agents /\ Depth(Asker[p]) \in Nat
      /\ DOMAIN Frames(p) = 1..Len(Above[Asker[p]]) /\ Len(Above[Asker[p]]) \in Nat
  BY FramesIn, Deeper DEF Frames, SpawnTree
<1>2. \A i \in 1..Len(Above[Asker[p]]) : Depth(Frames(p)[i]) = Depth(Asker[p]) + 1 - i
  BY <1>1, AllFramed DEF Framed, Frames
<1>. QED  BY <1>1, <1>2

\* Somebody is called by each nested run of a park's chain.
LEMMA Below ==
  ASSUME SpawnTree, NEW p \in Parks, NEW n \in Chain(p)
  PROVE  \E c \in Line(p) : Caller(c) = n
<1>. DEFINE T == {x \in Agents : \A y \in OnWay(x) : y = x \/ \E c \in OnWay(x) : Parent[c] = y}
<1>1. Main \in T
  BY WayIs DEF Agents
<1>2. ASSUME NEW m \in Nested, Parent[m] \in T PROVE m \in T
  <2>1. m \in Agents /\ OnWay(m) = {m} \cup OnWay(Parent[m])
    BY WayIs, OneCaller
  <2>. QED  BY <1>2, <2>1
<1>. HIDE DEF T
<1>3. \A x \in Agents : x \in T
  BY <1>1, <1>2, AgentsFromMain
<1>4. Asker[p] \in T /\ p \notin Nested /\ Chain(p) \subseteq Nested
  BY <1>3, LineIs
<1>5. n = Asker[p] \/ \E c \in Chain(p) : Parent[c] = n
  BY <1>4 DEF T, Chain
<1>. QED  BY <1>4, <1>5 DEF Line, Caller

\* Where a line leaves a set of nested runs for the last time.
LEMMA Exit ==
  ASSUME SpawnTree, NEW p \in Parks, NEW B, p \notin B
  PROVE  \E c \in Line(p) : c \notin B /\ (Caller(c) = Main \/ Caller(c) \in B)
<1>. DEFINE S == {Depth(Caller(c)) : c \in Line(p) \ B}
<1>1. \A c \in Line(p) : Caller(c) \in Agents /\ Depth(Caller(c)) \in Nat
  BY LineIs, Deeper
<1>2. S \subseteq Nat /\ S # {}
  BY <1>1, LineIs
<1>3. PICK m \in S : \A k \in S : m <= k
  <2>. HIDE DEF S
  <2>. QED  BY <1>2, LeastOf
<1>4. PICK c \in Line(p) \ B : m = Depth(Caller(c))
  BY <1>3
<1>5. ASSUME Caller(c) # Main, Caller(c) \notin B PROVE FALSE
  <2>1. Caller(c) \in Chain(p) /\ Caller(c) \in Nested /\ Caller(c) \in Line(p)
    BY <1>4, <1>5, LineIs DEF Line
  <2>2. Depth(Caller(Caller(c))) \in S
    BY <1>5, <2>1
  <2>3. Depth(Caller(c)) = Depth(Caller(Caller(c))) + 1 /\ Depth(Caller(Caller(c))) \in Nat
    BY <2>1, Deeper DEF Caller
  <2>4. m <= Depth(Caller(Caller(c)))
    BY <1>3, <2>2
  <2>. QED  BY <1>4, <2>3, <2>4
<1>. QED  BY <1>4, <1>5

\* An agent in a loop is called all the way up, or an unwind entered the nested run it is under.
LEMMA LoopsAreCalled ==
  ASSUME SpawnTree, TreeInv
  PROVE  \A x \in Agents : at[x] # "off" => \A c \in OnWay(x) : c \in Base \/ live[c] = "running"
<1>. DEFINE T == {x \in Agents : at[x] # "off" => \A c \in OnWay(x) : c \in Base \/ live[c] = "running"}
<1>1. Main \in T
  BY WayIs DEF Agents
<1>2. ASSUME NEW n \in Nested, Parent[n] \in T PROVE n \in T
  <2>1. n \in Agents /\ Parent[n] \in Agents /\ n \in CallsOf(Parent[n]) /\ OnWay(n) = {n} \cup OnWay(Parent[n])
    BY WayIs, OneCaller
  <2>2. CASE live[n] = "running"
    <3>1. at[Parent[n]] = "tools"
      BY <2>1, <2>2 DEF TreeInv, Nesting
    <3>. QED  BY <1>2, <2>1, <2>2, <3>1
  <2>3. CASE AtFrame /\ n = Frame
    BY <2>1, <2>3 DEF Base
  <2>4. CASE at[n] = "off"
    BY <2>1, <2>4
  <2>. QED  BY <2>2, <2>3, <2>4 DEF TreeInv, Nesting
<1>. HIDE DEF T
<1>3. \A x \in Agents : x \in T
  BY <1>1, <1>2, AgentsFromMain
<1>. QED  BY <1>3 DEF T

\* What an unwind stands on is on the way up from a request, whose calls are over.
LEMMA BaseIs ==
  ASSUME SpawnTree, TreeInv, ToolInv, RequestsAreOver
  PROVE  /\ \A p \in Parks : p \notin Base
         /\ \A b \in Base : b \in Nested /\ live[b] = "none" /\ (Parent[b] = Main \/ Parent[b] \in Base)
         /\ AtFrame => /\ Now.park \in Parks /\ IsAsked(Now.park)
                       /\ Frame \in Chain(Now.park) /\ Frame \in Base /\ Base \subseteq Chain(Now.park)
                       /\ Base = OnWay(Frame) /\ Frame \in Agents
<1>1. CASE ~AtFrame
  BY <1>1 DEF Base
<1>2. CASE AtFrame
  <2>. DEFINE p == Now.park
  <2>1. worker = "unwind" /\ unwind # <<>> /\ p \in Parks /\ Now = unwind[1] /\ 1 \in DOMAIN unwind
    <3>1. unwind # <<>> /\ worker = "unwind"
      BY <1>2 DEF AtFrame
    <3>2. \A R : unwind \in Seq(R) /\ unwind # <<>> => 1 \in DOMAIN unwind
      OBVIOUS
    <3>. QED  BY <3>1, <3>2, NowIs DEF TreeInv, AgentsTypeOK
  <2>2. IsAsked(p)
    BY <2>1 DEF ToolInv, UnwindIsOpen, IsAsked
  <2>3. Frame \in Nested /\ Frame \in Agents
    BY <1>2, FrameIs DEF TreeInv
  <2>4. Frame \in Chain(p)
    <3>1. Now.frame \in DOMAIN Frames(p)
      <4>1. Now.frame \in Nat \ {0} /\ Now.frame <= Len(Frames(p))
        BY <1>2, <2>1, NowIs DEF TreeInv, AtFrame
      <4>. QED  BY <2>1, <4>1, FramesIn
    <3>. QED  BY <2>1, <3>1, LineIs DEF Frame
  <2>5. OnWay(Frame) \subseteq Chain(p)
    BY <2>1, <2>4, LineIs, WayUp DEF Chain
  <2>6. Base = OnWay(Frame) /\ Frame \in Base
    BY <1>2, <2>3, WayIs DEF Base
  <2>7. \A b \in Base : live[b] = "none"
    BY <2>1, <2>2, <2>5, <2>6 DEF RequestsAreOver, Line
  <2>. HIDE DEF p
  <2>8. \A b \in Base : b \in Nested /\ (Parent[b] = Main \/ Parent[b] \in Base)
    BY <2>3, <2>6, WayUp
  <2>9. \A q \in Parks : q \notin Base
    BY <2>8, LineIs
  <2>. QED  BY <2>1, <2>2, <2>3, <2>4, <2>5, <2>6, <2>7, <2>8, <2>9 DEF p
<1>. QED  BY <1>1, <1>2

\* While no call is live and nobody has parked, nobody waits for a park.
LEMMA NobodyWaits ==
  ASSUME SpawnTree, TreeInv, ToolInv, RequestsAreOver,
         \A x \in Agents : at[x] # "parked", \A c \in Calls : live[c] = "none", NEW p \in Parks
  PROVE  ~Alive(p)
<1>1. PICK c \in Line(p) : c \notin Base /\ (Caller(c) = Main \/ Caller(c) \in Base)
  BY BaseIs, Exit
<1>2. c \in Calls /\ Caller(c) \in Agents
  BY LineIs
<1>. QED  BY <1>1, <1>2 DEF Alive, Held

\* Calls that are asked for are apart when those that were are, and more are not.
LEMMA ApartBefore ==
  ASSUME SpawnTree, TreeInv, RequestsAreOver, Apart',
         called' \subseteq called \cup {c \in Calls : live[c] # "none"},
         requests' = requests \/ requests' = requests \o box
  PROVE  Apart
<1>1. requests \in Seq(Parks) /\ box \in Seq(Parks)
  BY DEF TreeInv, AgentsTypeOK
<1>2. \A i \in DOMAIN requests : i \in DOMAIN requests' /\ requests'[i] = requests[i] /\ requests[i] \in Parks
  BY <1>1
<1>3. \A i, j \in DOMAIN requests' : i # j =>
        ~\E n \in Nested : /\ \E k \in DOMAIN Frames(requests'[i]) : Frames(requests'[i])[k] = n
                           /\ \E k \in DOMAIN Frames(requests'[j]) : Frames(requests'[j])[k] = n
  BY DEF Apart
<1>4. \A i, j \in DOMAIN requests : i # j =>
        ~\E n \in Nested : /\ \E k \in DOMAIN Frames(requests[i]) : Frames(requests[i])[k] = n
                           /\ \E k \in DOMAIN Frames(requests[j]) : Frames(requests[j])[k] = n
  BY <1>2, <1>3
<1>5. ASSUME NEW i \in DOMAIN requests, NEW c \in Line(requests[i]), c \in called' PROVE c \in called
  <2>1. requests[i] \in Parks /\ IsAsked(requests[i])
    BY <1>2 DEF IsAsked
  <2>2. live[c] = "none"
    BY <1>5, <2>1 DEF RequestsAreOver
  <2>. QED  BY <1>5, <2>2
<1>6. ASSUME NEW i \in DOMAIN requests
      PROVE  /\ requests[i] \in called
             /\ \A k \in DOMAIN Frames(requests[i]) : Frames(requests[i])[k] \in called
  <2>1. /\ requests[i] \in called'
        /\ \A k \in DOMAIN Frames(requests[i]) : Frames(requests[i])[k] \in called'
    BY <1>2 DEF Apart, RequestsAreCalls
  <2>2. /\ requests[i] \in Line(requests[i])
        /\ \A k \in DOMAIN Frames(requests[i]) : Frames(requests[i])[k] \in Line(requests[i])
    BY <1>2, LineIs DEF Line
  <2>. QED  BY <1>5, <2>1, <2>2
<1>. QED  BY <1>4, <1>6 DEF Apart, RequestsAreCalls

\* Two requests that are apart share no nested run, and their calls are in the history.
LEMMA ApartIs ==
  ASSUME SpawnTree, TreeInv, Apart, NEW p \in Parks, IsAsked(p)
  PROVE  /\ Line(p) \subseteq called
         /\ \A q \in Parks : IsAsked(q) /\ q # p => Chain(p) \cap Chain(q) = {}
<1>1. PICK i \in DOMAIN requests : requests[i] = p
  BY DEF IsAsked
<1>2. Line(p) \subseteq called
  BY <1>1, LineIs DEF Apart, RequestsAreCalls, Line
<1>3. ASSUME NEW q \in Parks, IsAsked(q), q # p, NEW n \in Chain(p), n \in Chain(q) PROVE FALSE
  <2>1. PICK j \in DOMAIN requests : requests[j] = q
    BY <1>3 DEF IsAsked
  <2>2. n \in Nested /\ (\E k \in DOMAIN Frames(p) : Frames(p)[k] = n) /\ (\E k \in DOMAIN Frames(q) : Frames(q)[k] = n)
    BY <1>3, LineIs
  <2>. QED  BY <1>1, <1>3, <2>1, <2>2 DEF Apart
<1>. QED  BY <1>2, <1>3

RecordStates == {"none", "RUNNING", "COMPLETED", "FAILED", "CANCELLED"}

\* A step that saves nothing and writes no request keeps the rest, if it leaves the box to those
\* who wait for it.
LEMMA HistoryStays ==
  ASSUME SpawnTree, OnceInv, UNCHANGED <<called, results, requests>>,
         \A c \in Calls : live'[c] # "none" => live[c] # "none" \/
           (c \notin called /\ results[c] = 0 /\ \A p \in Parks : IsAsked(p) => c \notin Line(p)),
         record' \in [Nested -> RecordStates], \A n \in Nested : record[n] # "none" => record'[n] # "none",
         \A p \in Parks : IsBoxed(p)' => IsBoxed(p) \/ \A n \in Chain(p) : record'[n] # "none",
         \A x \in Agents : at'[x] # "off" => \A n \in OnWay(x) : record'[n] # "none",
         BoxStands', Apart => Ahead'
  PROVE  OnceInv'
<1>1. \A p : IsAsked(p)' = IsAsked(p)
  BY DEF IsAsked
<1>2. LiveIsNew'
  BY DEF OnceInv, LiveIsNew
<1>3. RequestsAreOver'
  <2>. SUFFICES ASSUME NEW p \in Parks, IsAsked(p), NEW c \in Line(p) PROVE live'[c] = "none"
    BY <1>1 DEF RequestsAreOver
  <2>1. c \in Calls /\ live[c] = "none"
    BY LineIs DEF OnceInv, RequestsAreOver
  <2>. QED  BY <2>1
<1>4. RecordsBegan'
  <2>. SUFFICES ASSUME NEW p \in Parks, IsAsked(p) \/ IsBoxed(p)', NEW n \in Chain(p) PROVE record'[n] # "none"
    BY <1>1 DEF RecordsBegan, RecordStates
  <2>1. n \in Nested
    BY LineIs
  <2>. QED  BY <2>1 DEF OnceInv, RecordsBegan
<1>5. ResultsAreOf'
  BY <1>1 DEF OnceInv, ResultsAreOf
<1>6. Apart' = Apart
  BY DEF Apart, RequestsAreCalls
<1>7. Climbs' = Climbs /\ EveryCallAnsweredOnce' = EveryCallAnsweredOnce
  BY <1>1 DEF Climbs, EveryCallAnsweredOnce
<1>. QED  BY <1>2, <1>3, <1>4, <1>5, <1>6, <1>7 DEF OnceInv

\* An unwind that is left alone has as much ahead of it.
LEMMA AheadStays ==
  ASSUME OnceInv, UNCHANGED <<worker, unwind, results>>
  PROVE  Apart => Ahead'
  BY DEF OnceInv, Ahead

LEMMA BaseStays ==
  ASSUME UNCHANGED <<worker, unwind>>
  PROVE  Base' = Base
  BY SameFrame DEF Base

\* An agent in a loop has its record, and those above it.
LEMMA LoopsBegan ==
  ASSUME SpawnTree, TreeInv, OnceInv, NEW n \in Nested, live[n] # "none"
  PROVE  \A m \in OnWay(n) : m = n \/ (m \in Nested /\ record[m] # "none")
<1>1. Parent[n] \in Agents /\ at[Parent[n]] = "tools" /\ OnWay(n) = {n} \cup OnWay(Parent[n])
  BY OneCaller, WayIs DEF TreeInv, Nesting
<1>2. \A m \in OnWay(Parent[n]) : record[m] # "none" /\ m \in Nested
  BY <1>1, WayIs DEF OnceInv, RecordsBegan
<1>. QED  BY <1>1, <1>2

LEMMA AsksKeepsOnce ==
  ASSUME SpawnTree, TreeInv, ToolInv, OnceInv,
         NEW x \in Agents, NEW asked \in SUBSET CallsOf(x), Asks(x, asked)
  PROVE  OnceInv'
<1>1. /\ at[x] = "thinking" /\ asked \subseteq Fresh(x)
      /\ at' = [at EXCEPT ![x] = "tools"]
      /\ live' = [c \in Calls |-> IF c \notin asked THEN live[c]
                                  ELSE IF c \in Parks THEN "parked" ELSE "called"]
      /\ UNCHANGED <<called, results, requests, record, worker, unwind>>
  BY DEF Asks, durable
<1>2. \A c \in asked : /\ c \in Calls /\ live[c] = "none" /\ c \notin called /\ c \notin Asked
                       /\ (c \in Nested => record[c] = "none")
  BY <1>1, OneCaller DEF Fresh
<1>3. \A p \in Parks : IsBoxed(p)' => IsBoxed(p) \/ p \in asked
  <2>1. PICK new \in [1..Cardinality(asked \cap Parks) -> asked \cap Parks] : box' = box \o new
    BY DEF Asks
  <2>2. Cardinality(asked \cap Parks) \in Nat
    <3>1. IsFiniteSet(asked \cap Parks)
      BY FS_Subset DEF SpawnTree
    <3>. QED  BY <3>1, FS_CardinalityType
  <2>. DEFINE n == Cardinality(asked \cap Parks)
  <2>3. box \in Seq(Parks) /\ new \in Seq(Parks) /\ DOMAIN new = 1..n /\ n \in Nat
    <3>1. box \in Seq(Parks)
      BY DEF TreeInv, AgentsTypeOK
    <3>2. new \in [1..n -> Parks] /\ n \in Nat
      BY <2>2
    <3>. HIDE DEF n
    <3>. QED  BY <3>1, <3>2
  <2>. HIDE DEF n
  <2>4. /\ DOMAIN (box \o new) = 1..(Len(box) + n)
        /\ \A i \in 1..Len(box) : (box \o new)[i] = box[i]
        /\ \A i \in (Len(box) + 1)..(Len(box) + n) : (box \o new)[i] = new[i - Len(box)] /\ i - Len(box) \in 1..n
    BY <2>3, Joined
  <2>5. DOMAIN box = 1..Len(box) /\ Len(box) \in Nat
    BY <2>3
  <2>6. \A i \in 1..(Len(box) + n) : i \in 1..Len(box) \/ i \in (Len(box) + 1)..(Len(box) + n)
    BY <2>3, <2>5
  <2>. SUFFICES ASSUME NEW i \in DOMAIN box' PROVE (\E j \in DOMAIN box : box[j] = box'[i]) \/ box'[i] \in asked
    BY DEF IsBoxed
  <2>7. \A j \in 1..n : new[j] \in asked
    BY <2>1 DEF n
  <2>. QED  BY <2>1, <2>4, <2>5, <2>6, <2>7
<1>4. \A p \in Parks : (IsAsked(p) \/ IsBoxed(p)) => p \in Asked
  BY DEF Asked, IsAsked, IsBoxed
<1>5. ASSUME NEW p \in Parks, IsAsked(p) \/ IsBoxed(p), NEW c \in Line(p), c \in asked PROVE FALSE
  <2>1. c # p
    BY <1>2, <1>4, <1>5
  <2>2. c \in Chain(p) /\ c \in Nested
    BY <2>1, <1>5, LineIs DEF Line
  <2>. QED  BY <1>2, <1>5, <2>2 DEF OnceInv, RecordsBegan
<1>6. ASSUME NEW c \in asked PROVE results[c] = 0
  BY <1>2, <1>5 DEF OnceInv, ResultsAreOf
<1>7. \A c \in Calls : live'[c] # "none" => live[c] # "none" \/
        (c \notin called /\ results[c] = 0 /\ \A p \in Parks : IsAsked(p) => c \notin Line(p))
  BY <1>1, <1>2, <1>5, <1>6
<1>8. record' \in [Nested -> RecordStates]
  BY <1>1 DEF OnceInv, RecordsBegan, RecordStates
<1>9. \A y \in Agents : /\ y # x => at'[y] = at[y]
                        /\ at'[y] # "off" => at[y] # "off"
  BY <1>1 DEF TreeInv, AgentsTypeOK
<1>10. \A y \in Agents : at[y] # "off" => \A n \in OnWay(y) : record[n] # "none"
  BY DEF OnceInv, RecordsBegan
<1>11. ASSUME NEW p \in Parks, p \in asked PROVE Chain(p) = OnWay(x)
  <2>1. Asker[p] = x
    BY <1>11 DEF CallsOf, SpawnTree
  <2>. QED  BY <2>1 DEF Chain
<1>12. BoxStands'
  <2>. SUFFICES ASSUME NEW p \in Parks, IsBoxed(p)' PROVE Alive(p)' \/ Lost(p)'
    BY DEF BoxStands
  <2>0. Base' = Base /\ called' = called /\ results' = results
    BY <1>1, BaseStays
  <2>1. CASE p \in asked
    <3>1. Chain(p) = OnWay(x)
      BY <1>11, <2>1
    <3>2. ASSUME NEW c \in Line(p) PROVE c \in Base \/ live'[c] \in {"running", "parked"}
      <4>1. CASE c = p
        BY <1>1, <2>1, <4>1, LineIs
      <4>2. CASE c \in Chain(p)
        <5>1. c \in Base \/ live[c] = "running"
          BY <1>1, <3>1, <4>2, LoopsAreCalled
        <5>. QED  BY <1>1, <1>2, <5>1, LineIs
      <4>. QED  BY <3>2, <4>1, <4>2 DEF Line
    <3>. QED  BY <2>0, <3>2 DEF Alive
  <2>2. CASE IsBoxed(p) /\ Lost(p)
    <3>1. PICK c \in Line(p) : c \notin called /\ live[c] = "none"
      BY <2>2 DEF Lost
    <3>2. c \notin asked /\ c \in Calls
      BY <1>5, <2>2, LineIs
    <3>. QED  BY <1>1, <3>1, <3>2 DEF Lost
  <2>3. CASE IsBoxed(p) /\ Alive(p)
    <3>1. ASSUME NEW y \in Agents, Held(y), y \in Nested \/ y = Main PROVE Held(y)'
      <4>1. CASE at[y] = "parked"
        BY <1>1, <1>9, <4>1 DEF Held
      <4>2. CASE y # Main /\ y \notin Base /\ (live[y] = "parked" \/ y \in called)
        <5>1. y \in Calls /\ (live[y] = "parked" => live'[y] = "parked")
          BY <1>1, <1>2, <3>1, <4>2, OneCaller
        <5>. QED  BY <2>0, <4>2, <5>1 DEF Held
      <4>. QED  BY <3>1, <4>1, <4>2 DEF Held
    <3>2. ASSUME NEW c \in Line(p)
          PROVE  c \in Base \/ live'[c] \in {"running", "parked"} \/ (c \in called /\ results[c] = 0 /\ Held(Caller(c))')
      <4>1. c \in Calls /\ c \notin asked /\ Caller(c) \in Agents
        BY <1>5, <2>3, LineIs
      <4>2. Caller(c) \in Nested \/ Caller(c) = Main
        BY <4>1 DEF Agents
      <4>. QED  BY <1>1, <2>3, <3>1, <4>1, <4>2 DEF Alive
    <3>. QED  BY <2>0, <3>2 DEF Alive
  <2>. QED  BY <1>3, <2>1, <2>2, <2>3 DEF OnceInv, BoxStands
<1>13. \A p \in Parks : IsBoxed(p)' => IsBoxed(p) \/ \A n \in Chain(p) : record'[n] # "none"
  BY <1>1, <1>3, <1>10, <1>11
<1>14. Apart => Ahead'
  BY <1>1, AheadStays
<1>. QED  BY <1>1, <1>7, <1>8, <1>9, <1>10, <1>12, <1>13, <1>14, HistoryStays

\* A step that ends the calls of the loops it cuts loses the parks under them.
LEMMA FailsKeepsOnce ==
  ASSUME SpawnTree, TreeInv, ToolInv, OnceInv, NEW x \in Agents, Fails(x)
  PROVE  OnceInv'
<1>. DEFINE cut == UNION {CallsOf(y) : y \in Under(x) \cup {x}}
<1>1. /\ x # Main /\ x \in Nested /\ at[x] \in {"thinking", "tools"}
      /\ at' = [y \in Agents |-> IF y = x THEN "failed" ELSE IF y \in Under(x) THEN "off" ELSE at[y]]
      /\ live' = [c \in Calls |-> IF c \in cut THEN "none" ELSE live[c]]
      /\ record' = CutRecords(x)
      /\ UNCHANGED <<called, results, requests, worker, unwind, box>>
  BY DEF Fails, Agents
<1>2. \A n \in Nested : n \in Under(x) => n \in cut
  <2>1. ASSUME NEW n \in Nested, n \in Under(x) PROVE n \in cut
    <3>1. Parent[n] \in Under(x) \cup {x} /\ n \in CallsOf(Parent[n])
      BY <2>1, UnderSteps, OneCaller
    <3>. QED  BY <3>1
  <2>. QED  BY <2>1
<1>. HIDE DEF cut
<1>3. \A c \in Calls : /\ c \in cut => live'[c] = "none"
                       /\ c \notin cut => live'[c] = live[c]
  BY <1>1
<1>4. /\ record' \in [Nested -> RecordStates]
      /\ \A n \in Nested : record[n] # "none" => record'[n] # "none"
  BY <1>1 DEF CutRecords, OnceInv, RecordsBegan, RecordStates
<1>5. \A y \in Agents : at'[y] # "off" => \A n \in OnWay(y) : record'[n] # "none"
  <2>1. \A y \in Agents : at'[y] # "off" => at[y] # "off"
    BY <1>1
  <2>. QED  BY <1>4, <2>1, WayIs DEF OnceInv, RecordsBegan
<1>6. ASSUME NEW y \in Nested, at[y] = "parked", y \in Under(x) PROVE live[y] = "running"
  <2>. SUFFICES ASSUME AtFrame, y = Frame PROVE FALSE
    BY <1>6 DEF TreeInv, Nesting
  <2>1. x \in Under(Frame) \cup {Frame} /\ x # Frame
    BY <1>1, <1>6 DEF TreeInv, AtWorkBelow, AtFrame, Under
  <2>2. Frame \in OnWay(x) /\ x \in OnWay(Frame) /\ Frame \in Agents
    <3>1. Frame # Main
      BY <1>6 DEF SpawnTree
    <3>. QED  BY <1>1, <1>6, <2>1, <3>1 DEF Under, OnWay, Agents
  <2>3. Depth(Frame) <= Depth(x) /\ Depth(x) <= Depth(Frame) /\ Depth(x) \in Nat /\ Depth(Frame) \in Nat
    BY <2>2, WayUp, Deeper
  <2>4. OnWay(x) = {x} \cup OnWay(Parent[x]) /\ Parent[x] \in Agents /\ Depth(x) = Depth(Parent[x]) + 1
    BY <1>1, WayIs, Deeper
  <2>5. Frame \in OnWay(Parent[x])
    BY <2>1, <2>2, <2>4
  <2>6. Depth(Frame) <= Depth(Parent[x]) /\ Depth(Parent[x]) \in Nat
    BY <2>4, <2>5, WayUp, Deeper
  <2>. QED  BY <2>3, <2>4, <2>6
<1>7. BoxStands'
  <2>. SUFFICES ASSUME NEW p \in Parks, IsBoxed(p), ~Lost(p)' PROVE Alive(p)'
    BY <1>1 DEF BoxStands, IsBoxed
  <2>1. Base' = Base /\ called' = called /\ results' = results
    BY <1>1, BaseStays
  <2>2. \A c \in Line(p) : c \in called \/ live'[c] # "none"
    BY <2>1 DEF Lost
  <2>3. \A c \in Line(p) : c \in Calls /\ (live[c] # "none" => c \notin called)
    BY LineIs DEF OnceInv, LiveIsNew
  <2>4. \A c \in Line(p) : live[c] # "none" => live'[c] = live[c]
    BY <1>3, <2>2, <2>3
  <2>5. Alive(p)
    <3>1. \A c \in Line(p) : c \in called \/ live[c] # "none"
      BY <1>3, <2>2, <2>3
    <3>. QED  BY <3>1 DEF OnceInv, BoxStands, Lost
  <2>6. ASSUME NEW y \in Agents, y = Main \/ y \in Chain(p), Held(y) PROVE Held(y)'
    <3>0. y \in Nested => y \in Line(p)
      BY <2>6 DEF Line, SpawnTree
    <3>1. CASE at[y] = "parked"
      <4>1. y # x
        BY <1>1, <3>1
      <4>2. CASE y \in Under(x)
        <5>1. y \in Nested /\ live[y] = "running"
          BY <1>6, <3>1, <4>2 DEF Under
        <5>2. y \in cut /\ live'[y] = "none" /\ y \in Line(p)
          BY <1>2, <1>3, <3>0, <4>2, <5>1, OneCaller
        <5>. QED  BY <2>4, <5>1, <5>2
      <4>3. CASE y \notin Under(x)
        <5>1. at'[y] = "parked"
          BY <1>1, <3>1, <4>1, <4>3
        <5>. QED  BY <5>1 DEF Held
      <4>. QED  BY <4>2, <4>3
    <3>2. CASE y # Main /\ y \notin Base /\ (live[y] = "parked" \/ y \in called)
      <4>1. y \in Line(p)
        BY <2>6, <3>0, <3>2 DEF Agents
      <4>2. live[y] = "parked" => live'[y] = "parked"
        BY <2>4, <4>1
      <4>. QED  BY <2>1, <3>2, <4>2 DEF Held
    <3>. QED  BY <2>6, <3>1, <3>2 DEF Held
  <2>7. ASSUME NEW c \in Line(p)
        PROVE  c \in Base \/ live'[c] \in {"running", "parked"} \/ (c \in called /\ results[c] = 0 /\ Held(Caller(c))')
    <3>1. Caller(c) \in Agents /\ (Caller(c) = Main \/ Caller(c) \in Chain(p))
      BY LineIs
    <3>2. c \in Base \/ live[c] \in {"running", "parked"} \/ (c \in called /\ results[c] = 0 /\ Held(Caller(c)))
      BY <2>5 DEF Alive
    <3>. QED  BY <2>4, <2>6, <3>1, <3>2
  <2>. QED  BY <2>1, <2>7 DEF Alive
<1>8. \A p \in Parks : IsBoxed(p)' => IsBoxed(p)
  BY <1>1 DEF IsBoxed
<1>9. \A c \in Calls : live'[c] # "none" => live[c] # "none"
  BY <1>3
<1>10. Apart => Ahead'
  BY <1>1, AheadStays
<1>. QED  BY <1>1, <1>4, <1>5, <1>7, <1>8, <1>9, <1>10, HistoryStays

\* A call that was not waited for yet runs, gets in line or is refused.
LEMMA CallMovesOnce ==
  ASSUME SpawnTree, TreeInv, ToolInv, OnceInv, NEW n \in Nested, live[n] \in {"called", "queued"},
         NEW s, s # "none", live' = [live EXCEPT ![n] = s],
         \/ UNCHANGED <<at, record>>
         \/ at' = [at EXCEPT ![n] = "thinking"] /\ record' = [record EXCEPT ![n] = "RUNNING"],
         UNCHANGED <<called, results, requests, worker, unwind, box>>
  PROVE  OnceInv'
<1>0. n \in Calls /\ n \in Agents /\ n # Main
  BY OneCaller DEF SpawnTree
<1>1. \A c \in Calls : (c # n => live'[c] = live[c]) /\ (live'[c] # "none" => live[c] # "none")
  BY DEF TreeInv, AgentsTypeOK
<1>2. at[n] = "off"
  <2>. SUFFICES ASSUME at[n] # "off" PROVE FALSE
    OBVIOUS
  <2>1. AtFrame /\ n = Frame
    BY <1>0 DEF TreeInv, Nesting
  <2>2. live[n] = "none"
    BY <2>1, BaseIs DEF OnceInv
  <2>. QED  BY <2>2
<1>3. /\ record' \in [Nested -> RecordStates]
      /\ \A m \in Nested : record[m] # "none" => record'[m] # "none"
      /\ at' # at => record'[n] = "RUNNING"
  BY DEF OnceInv, RecordsBegan, RecordStates
<1>4. \A y \in Agents : y # n => at'[y] = at[y]
  BY DEF TreeInv, AgentsTypeOK
<1>5. \A y \in Agents : at'[y] # "off" => \A m \in OnWay(y) : record'[m] # "none"
  <2>. SUFFICES ASSUME NEW y \in Agents, at'[y] # "off", NEW m \in OnWay(y) PROVE record'[m] # "none"
    OBVIOUS
  <2>1. CASE y = n
    <3>1. m = n \/ (m \in Nested /\ record[m] # "none")
      BY <2>1, LoopsBegan
    <3>2. record'[n] = "RUNNING"
      BY <1>2, <1>3, <2>1
    <3>. QED  BY <1>3, <3>1, <3>2
  <2>2. CASE y # n
    BY <1>3, <1>4, <2>2, WayIs DEF OnceInv, RecordsBegan
  <2>. QED  BY <2>1, <2>2
<1>6. BoxStands'
  <2>. SUFFICES ASSUME NEW p \in Parks, IsBoxed(p) PROVE Alive(p)' \/ Lost(p)'
    BY DEF BoxStands, IsBoxed
  <2>1. Base' = Base
    BY BaseStays
  <2>2. \A c \in Line(p) : c \in Calls /\ Caller(c) \in Agents
    BY LineIs
  <2>3. CASE Lost(p)
    <3>1. PICK c \in Line(p) : c \notin called /\ live[c] = "none"
      BY <2>3 DEF Lost
    <3>2. c # n
      BY <3>1
    <3>. QED  BY <1>1, <2>2, <3>1, <3>2 DEF Lost
  <2>4. CASE Alive(p)
    <3>1. ASSUME NEW y \in Agents, Held(y) PROVE Held(y)'
      <4>1. at[y] = "parked" => at'[y] = "parked"
        BY <1>2, <1>4
      <4>2. y # Main => y \in Calls
        BY OneCaller DEF Agents
      <4>3. y # Main /\ live[y] = "parked" => live'[y] = "parked"
        BY <1>1, <4>2
      <4>. QED  BY <2>1, <3>1, <4>1, <4>3 DEF Held
    <3>2. ASSUME NEW c \in Line(p)
          PROVE  c \in Base \/ live'[c] \in {"running", "parked"} \/ (c \in called /\ results[c] = 0 /\ Held(Caller(c))')
      <4>1. c \in Base \/ live[c] \in {"running", "parked"} \/ (c \in called /\ results[c] = 0 /\ Held(Caller(c)))
        BY <2>4 DEF Alive
      <4>2. live[c] \in {"running", "parked"} => live'[c] = live[c]
        BY <1>1, <2>2
      <4>. QED  BY <2>2, <3>1, <4>1, <4>2
    <3>. QED  BY <2>1, <3>2 DEF Alive
  <2>. QED  BY <2>3, <2>4 DEF OnceInv, BoxStands
<1>7. \A p \in Parks : IsBoxed(p)' => IsBoxed(p)
  BY DEF IsBoxed
<1>8. Apart => Ahead'
  BY AheadStays
<1>. QED  BY <1>1, <1>3, <1>5, <1>6, <1>7, <1>8, HistoryStays

LEMMA SpawnKeepsOnce ==
  ASSUME SpawnTree, TreeInv, ToolInv, OnceInv, NEW n \in Nested, Spawn(n)
  PROVE  OnceInv'
<1>1. live[n] = "called" /\ UNCHANGED <<called, results, requests, worker, unwind, box>>
  BY DEF Spawn
<1>2. \/ live' = [live EXCEPT ![n] = "ok"] /\ UNCHANGED <<at, record>>
      \/ live' = [live EXCEPT ![n] = "queued"] /\ UNCHANGED <<at, record>>
      \/ /\ live' = [live EXCEPT ![n] = "running"]
         /\ at' = [at EXCEPT ![n] = "thinking"] /\ record' = [record EXCEPT ![n] = "RUNNING"]
  BY DEF Spawn, Runs, Enter
<1>. QED  BY <1>1, <1>2, CallMovesOnce

LEMMA GrantedKeepsOnce ==
  ASSUME SpawnTree, TreeInv, ToolInv, OnceInv, NEW d \in 1..MaxDepth, Granted(d)
  PROVE  OnceInv'
<1>. DEFINE n == Head(line[d])
<1>1. n \in Nested /\ live[n] = "queued"
  <2>1. line[d] \in Seq(Nested) /\ line[d] # <<>>
    BY DEF TreeInv, AgentsTypeOK, Granted
  <2>2. n = line[d][1] /\ 1 \in DOMAIN line[d] /\ n \in Nested
    BY <2>1
  <2>. QED  BY <2>2 DEF TreeInv, InLine
<1>2. /\ live' = [live EXCEPT ![n] = "running"]
      /\ at' = [at EXCEPT ![n] = "thinking"] /\ record' = [record EXCEPT ![n] = "RUNNING"]
      /\ UNCHANGED <<called, results, requests, worker, unwind, box>>
  BY DEF Granted, Runs, Enter
<1>. HIDE DEF n
<1>. QED  BY <1>1, <1>2, CallMovesOnce

\* A nested run that returns has parked with a park under it, or has no park under it.
LEMMA ReturnsKeepsOnce ==
  ASSUME SpawnTree, TreeInv, ToolInv, OnceInv, NEW n \in Nested, Returns(n)
  PROVE  OnceInv'
<1>1. PICK s \in {"parked", "ok"} : live' = [live EXCEPT ![n] = s] /\ (at[n] = "parked" => s = "parked")
  BY Zenon DEF Returns
<1>2. /\ live[n] = "running" /\ at[n] \in {"parked", "done", "failed"}
      /\ at' = [at EXCEPT ![n] = "off"] /\ record' = [record EXCEPT ![n] = Closed(n)]
      /\ UNCHANGED <<called, results, requests, worker, unwind, box>>
  BY DEF Returns
<1>3. n \in Calls /\ n \in Agents /\ n # Main /\ n \notin Base /\ n \notin called /\ record[n] # "none"
  <2>1. n \in Calls /\ n \in Agents /\ n # Main
    BY OneCaller DEF SpawnTree
  <2>2. n \in OnWay(n)
    BY WayIs
  <2>. QED  BY <1>2, <2>1, <2>2, BaseIs DEF OnceInv, LiveIsNew, RecordsBegan
<1>4. /\ \A c \in Calls : c # n => live'[c] = live[c]
      /\ live'[n] = s
      /\ \A y \in Agents : (y # n => at'[y] = at[y]) /\ (at'[y] # "off" => at[y] # "off")
  BY <1>1, <1>2, <1>3 DEF TreeInv, AgentsTypeOK
<1>5. /\ record' \in [Nested -> RecordStates]
      /\ \A m \in Nested : record[m] # "none" => record'[m] # "none"
  <2>1. Closed(n) \in RecordStates /\ Closed(n) # "none"
    BY <1>3 DEF Closed, OnceInv, RecordsBegan, RecordStates
  <2>. QED  BY <1>2, <2>1 DEF OnceInv, RecordsBegan, RecordStates
<1>6. \A y \in Agents : at'[y] # "off" => \A m \in OnWay(y) : record'[m] # "none"
  BY <1>4, <1>5, WayIs DEF OnceInv, RecordsBegan
<1>7. BoxStands'
  <2>. SUFFICES ASSUME NEW p \in Parks, IsBoxed(p) PROVE Alive(p)' \/ Lost(p)'
    BY <1>2 DEF BoxStands, IsBoxed
  <2>1. Base' = Base
    BY <1>2, BaseStays
  <2>2. \A c \in Line(p) : c \in Calls /\ Caller(c) \in Agents /\ c \in CallsOf(Caller(c))
                           /\ (c \in Nested => c \in Chain(p))
    BY LineIs
  <2>3. CASE Lost(p)
    <3>1. PICK c \in Line(p) : c \notin called /\ live[c] = "none"
      BY <2>3 DEF Lost
    <3>. QED  BY <1>2, <1>4, <2>2, <3>1 DEF Lost
  <2>4. CASE Alive(p)
    <3>1. ASSUME NEW y \in Agents, Held(y) PROVE Held(y)'
      <4>1. CASE y = n
        <5>1. at[n] = "parked"
          BY <1>2, <1>3, <3>1, <4>1 DEF Held
        <5>. QED  BY <1>1, <1>3, <1>4, <2>1, <4>1, <5>1 DEF Held
      <4>2. CASE y # n
        <5>1. at'[y] = at[y] /\ (y # Main => live'[y] = live[y])
          BY <1>4, <4>2, OneCaller DEF Agents
        <5>. QED  BY <1>2, <2>1, <3>1, <5>1 DEF Held
      <4>. QED  BY <4>1, <4>2
    <3>2. ASSUME n \in Line(p) PROVE at[n] = "parked"
      <4>1. PICK c \in Line(p) : Caller(c) = n
        BY <2>2, <3>2, Below
      <4>2. c \notin Base
        <5>1. c \in Base => c \in Nested /\ Parent[c] = n
          BY <4>1, BaseIs DEF Caller, OnceInv
        <5>. QED  BY <1>3, <5>1, BaseIs DEF OnceInv
      <4>3. live[c] = "none" \/ at[n] = "tools"
        BY <1>3, <2>2, <4>1 DEF TreeInv, Nesting
      <4>4. Held(n)
        BY <1>2, <2>4, <4>1, <4>2, <4>3 DEF Alive
      <4>. QED  BY <1>2, <1>3, <4>4 DEF Held
    <3>3. ASSUME NEW c \in Line(p)
          PROVE  c \in Base \/ live'[c] \in {"running", "parked"} \/ (c \in called /\ results[c] = 0 /\ Held(Caller(c))')
      <4>1. c \in Base \/ live[c] \in {"running", "parked"} \/ (c \in called /\ results[c] = 0 /\ Held(Caller(c)))
        BY <2>4 DEF Alive
      <4>2. c = n => live'[c] = "parked"
        BY <1>1, <1>4, <3>2
      <4>3. c # n => live'[c] = live[c]
        BY <1>4, <2>2
      <4>. QED  BY <2>2, <3>1, <4>1, <4>2, <4>3
    <3>. QED  BY <1>2, <2>1, <3>3 DEF Alive
  <2>. QED  BY <2>3, <2>4 DEF OnceInv, BoxStands
<1>8. \A p \in Parks : IsBoxed(p)' => IsBoxed(p)
  BY <1>2 DEF IsBoxed
<1>9. \A c \in Calls : live'[c] # "none" => live[c] # "none"
  BY <1>2, <1>4
<1>10. Apart => Ahead'
  BY <1>2, AheadStays
<1>. QED  BY <1>2, <1>5, <1>6, <1>7, <1>8, <1>9, <1>10, HistoryStays

\* The box is gone with the worker.
LEMMA GoneKeepsOnce ==
  ASSUME SpawnTree, TreeInv, ToolInv, OnceInv, Ends \/ Dies \/ MainFails \/ StopsLoop
  PROVE  OnceInv'
<1>1. /\ Gone /\ UNCHANGED <<called, results, requests>>
      /\ record' = record \/ record' = CutRecords(Main)
  BY Zenon DEF Ends, Dies, MainFails, StopsLoop, durable
<1>2. worker' = "off" /\ at' = [x \in Agents |-> "off"] /\ live' = None /\ box' = <<>>
  BY <1>1 DEF Gone
<1>3. \A c \in Calls : live'[c] = "none"
  BY <1>2 DEF None
<1>4. /\ record' \in [Nested -> RecordStates]
      /\ \A n \in Nested : record[n] # "none" => record'[n] # "none"
  BY <1>1 DEF CutRecords, OnceInv, RecordsBegan, RecordStates
<1>5. \A p : ~IsBoxed(p)'
  BY <1>2 DEF IsBoxed
<1>6. BoxStands' /\ Ahead'
  BY <1>2, <1>5 DEF BoxStands, Ahead
<1>7. \A x \in Agents : at'[x] = "off"
  BY <1>2
<1>. QED  BY <1>1, <1>3, <1>4, <1>5, <1>6, <1>7, HistoryStays

\* While nobody is in a loop but the nested run that an unwind entered, which has not parked, every
\* park in the box is under a call that was cut.
LEMMA LullStays ==
  ASSUME SpawnTree, TreeInv, ToolInv, OnceInv,
         \A x \in Agents : at[x] \notin {"parked", "tools"}, UNCHANGED <<live, called, box>>
  PROVE  BoxStands'
<1>. SUFFICES ASSUME NEW p \in Parks, IsBoxed(p) PROVE Lost(p)'
  BY DEF BoxStands, IsBoxed
<1>1. Lost(p)
  BY NoneIsLive, NobodyWaits DEF OnceInv, BoxStands
<1>. QED  BY <1>1 DEF Lost

\* The stages of an unwind before and after its nested runs, the entry and the end of one, and
\* the entry of the main agent.
LEMMA StagesKeepOnce ==
  ASSUME SpawnTree, TreeInv, ToolInv, OnceInv,
         ToolRuns \/ ToolKept \/ Clears \/ Closes \/ NextPark \/ Reenters \/ Unwound \/ Begins
  PROVE  OnceInv'
<1>1. UNCHANGED <<called, results, requests, live, box>>
  BY Zenon DEF ToolRuns, ToolKept, Clears, Closes, NextPark, Reenters, Unwound, Begins, durable
<1>2. \A x \in Agents : at[x] \notin {"parked", "tools"}
  <2>1. CASE Begins
    BY <2>1 DEF Begins, TreeInv, AtWorkBelow
  <2>2. CASE Closes \/ Reenters
    <3>1. AtFrame /\ at[Frame] \notin {"parked", "tools"}
      BY <2>2, Zenon DEF Closes, Reenters
    <3>2. \A x \in Agents : at[x] # "off" => x = Frame
      BY <3>1, AloneAtFrame
    <3>. QED  BY <3>1, <3>2
  <2>3. CASE ToolRuns \/ ToolKept \/ Clears \/ Unwound
    <3>1. worker = "unwind" /\ ~AtFrame
      BY <2>3, Zenon DEF ToolRuns, ToolKept, Clears, Unwound, AtFrame
    <3>. QED  BY <3>1, NobodyLoops
  <2>4. CASE NextPark
    <3>1. worker = "unwind" /\ unwind # <<>> /\ Now.frame > Len(Frames(Now.park))
      BY <2>4 DEF NextPark
    <3>2. Now.park \in Parks /\ Now.frame \in Nat
      BY <3>1, NowIs DEF TreeInv
    <3>3. ~AtFrame
      BY <3>1, <3>2, FramesIn DEF AtFrame
    <3>. QED  BY <3>1, <3>3, NobodyLoops
  <2>. QED  BY <2>1, <2>2, <2>3, <2>4
<1>3. BoxStands'
  BY <1>1, <1>2, LullStays
<1>4. \A p \in Parks : IsBoxed(p)' => IsBoxed(p)
  BY <1>1 DEF IsBoxed
<1>5. /\ record' \in [Nested -> RecordStates]
      /\ \A n \in Nested : record[n] # "none" => record'[n] # "none"
  <2>1. CASE Closes
    <3>1. AtFrame /\ at[Frame] # "off" /\ at[Frame] # "parked" /\ record' = [record EXCEPT ![Frame] = Closed(Frame)]
      BY <2>1 DEF Closes
    <3>2. Closed(Frame) \in {"FAILED", "COMPLETED"}
      BY <3>1 DEF Closed
    <3>. QED  BY <3>1, <3>2 DEF OnceInv, RecordsBegan, RecordStates
  <2>2. CASE ~Closes
    <3>1. record' = record
      BY <2>2, Zenon DEF ToolRuns, ToolKept, Clears, NextPark, Reenters, Unwound, Begins, durable
    <3>. QED  BY <3>1 DEF OnceInv, RecordsBegan, RecordStates
  <2>. QED  BY <2>1, <2>2
<1>6. \A x \in Agents : at'[x] # "off" => \A n \in OnWay(x) : record'[n] # "none"
  <2>. SUFFICES ASSUME NEW x \in Agents, at'[x] # "off", NEW n \in OnWay(x) PROVE record[n] # "none" /\ n \in Nested
    BY <1>5
  <2>1. n \in Nested
    BY WayIs
  <2>2. CASE at[x] # "off"
    BY <2>1, <2>2 DEF OnceInv, RecordsBegan
  <2>3. CASE at[x] = "off"
    <3>1. (AtFrame /\ x = Frame) \/ x = Main
      <4>1. CASE Reenters
        BY <2>3, <4>1 DEF Reenters, Enter, TreeInv, AgentsTypeOK
      <4>2. CASE Begins \/ Unwound
        <5>1. \E t : at' = [at EXCEPT ![Main] = t]
          BY <4>2, Zenon DEF Begins, Unwound, StartLoop
        <5>. QED  BY <2>3, <5>1 DEF TreeInv, AgentsTypeOK
      <4>3. CASE Closes
        <5>1. at' = [at EXCEPT ![Frame] = "off"]
          BY <4>3 DEF Closes
        <5>. QED  BY <2>3, <5>1 DEF TreeInv, AgentsTypeOK
      <4>4. CASE ToolRuns \/ ToolKept \/ Clears \/ NextPark
        <5>1. at' = at
          BY <4>4, Zenon DEF ToolRuns, ToolKept, Clears, NextPark
        <5>. QED  BY <2>3, <5>1
      <4>. QED  BY <4>1, <4>2, <4>3, <4>4
    <3>2. CASE x = Main
      BY <3>2, WayIs
    <3>3. CASE AtFrame /\ x = Frame
      <4>1. n \in Chain(Now.park) /\ IsAsked(Now.park) /\ Now.park \in Parks
        BY <3>3, BaseIs DEF OnceInv
      <4>. QED  BY <2>1, <4>1 DEF OnceInv, RecordsBegan
    <3>. QED  BY <3>1, <3>2, <3>3
  <2>. QED  BY <2>2, <2>3
<1>7. Apart => Ahead'
  <2>. SUFFICES ASSUME Ahead, worker' = "unwind" PROVE Ahead'
    BY DEF OnceInv, Ahead
  <2>1. CASE Reenters
    BY <1>1, <2>1, AheadStays DEF Reenters, Ahead
  <2>2. CASE ToolRuns \/ ToolKept \/ Clears \/ Closes
    <3>1. PICK t \in {"keep", "land", "unwind", "hand"} :
            unwind' = <<[Now EXCEPT !.stage = t]>> \o Tail(unwind)
      BY <2>2, Zenon DEF ToolRuns, ToolKept, Clears, Closes
    <3>2. worker = "unwind" /\ unwind # <<>>
      BY <2>2, Zenon DEF ToolRuns, ToolKept, Clears, Closes, AtFrame
    <3>. DEFINE u == [Now EXCEPT !.stage = t]
    <3>3. u \in [park : Parks, frame : Nat \ {0}, stage : Stages] /\ u.park = Now.park /\ u.frame = Now.frame
      BY <3>2, NowIs DEF TreeInv, Stages
    <3>. HIDE DEF u
    <3>4. /\ unwind'[1] = u /\ Now = unwind[1] /\ DOMAIN unwind' = DOMAIN unwind
          /\ \A i \in DOMAIN unwind : i # 1 => unwind'[i] = unwind[i]
      BY <3>1, <3>2, <3>3, HeadIs DEF TreeInv, u
    <3>5. \A i \in DOMAIN unwind : unwind'[i].park = unwind[i].park /\ unwind'[i].frame = unwind[i].frame
      BY <3>3, <3>4
    <3>. QED  BY <1>1, <3>2, <3>4, <3>5 DEF Ahead
  <2>3. CASE NextPark
    <3>1. worker = "unwind" /\ unwind # <<>> /\ unwind' = Tail(unwind)
      BY <2>3 DEF NextPark
    <3>2. \A i \in DOMAIN unwind' : i + 1 \in DOMAIN unwind /\ unwind'[i] = unwind[i + 1]
      <4>1. \A R : unwind \in Seq(R) /\ unwind # <<>> =>
              \A i \in DOMAIN Tail(unwind) : i + 1 \in DOMAIN unwind /\ Tail(unwind)[i] = unwind[i + 1]
        OBVIOUS
      <4>. QED  BY <3>1, <4>1 DEF TreeInv, AgentsTypeOK
    <3>. QED  BY <1>1, <3>1, <3>2 DEF Ahead
  <2>4. CASE Unwound \/ Begins
    BY <2>4 DEF Unwound, Begins
  <2>. QED  BY <2>1, <2>2, <2>3, <2>4
<1>. QED  BY <1>1, <1>3, <1>4, <1>5, <1>6, <1>7, HistoryStays

\* With a request closed up to where it waits, what it waits for has no result.
LEMMA OpenIsAhead ==
  ASSUME SpawnTree, Climbs, NEW p \in Parks, IsAsked(p), IsOpen(p)
  PROVE  \A k \in DOMAIN Frames(p) : Opened(p).frame <= k => results[Frames(p)[k]] = 0
<1>. SUFFICES ASSUME NEW k \in DOMAIN Frames(p), Opened(p).frame <= k, results[Frames(p)[k]] # 0 PROVE FALSE
  OBVIOUS
<1>1. results[p] # 0 /\ \A j \in 1..k : results[Frames(p)[j]] # 0
  BY DEF Climbs
<1>2. Waiting(p) # {} /\ Opened(p).frame = First(Waiting(p))
  BY <1>1 DEF IsOpen, Opened
<1>3. First(Waiting(p)) \in Waiting(p) /\ First(Waiting(p)) \in 1..Len(Frames(p))
  BY <1>2, FirstIs
<1>4. First(Waiting(p)) \in 1..k
  BY <1>2, <1>3, FramesIn
<1>5. results[Frames(p)[First(Waiting(p))]] = 0
  BY <1>3 DEF Waiting
<1>. QED  BY <1>1, <1>4, <1>5

LEMMA ResumesKeepsOnce ==
  ASSUME SpawnTree, TreeInv, ToolInv, OnceInv, Resumes
  PROVE  OnceInv'
<1>1. /\ worker = "off" /\ unwind' = OpenHitls
      /\ UNCHANGED <<called, results, requests, record, live, box, at>>
  BY DEF Resumes, durable
<1>2. /\ \A x \in Agents : at[x] = "off"
      /\ box = <<>>
  BY <1>1 DEF TreeInv, AtWorkBelow
<1>3. BoxStands'
  BY <1>1, <1>2, LullStays
<1>4. Apart => Ahead'
  <2>. SUFFICES ASSUME Climbs PROVE Ahead'
    BY DEF OnceInv
  <2>1. PICK e \in [DOMAIN OpenHitls -> DOMAIN requests] :
          \A i \in DOMAIN OpenHitls : IsOpen(requests[e[i]]) /\ OpenHitls[i] = Opened(requests[e[i]])
    BY OpenIs DEF TreeInv, AgentsTypeOK
  <2>. SUFFICES ASSUME NEW i \in DOMAIN OpenHitls, NEW k \in DOMAIN Frames(OpenHitls[i].park), OpenHitls[i].frame <= k
                PROVE  results[Frames(OpenHitls[i].park)[k]] = 0
    BY <1>1 DEF Ahead
  <2>. DEFINE p == requests[e[i]]
  <2>2. p \in Parks /\ IsAsked(p) /\ IsOpen(p)
    <3>1. requests \in Seq(Parks) /\ e[i] \in DOMAIN requests
      BY <2>1 DEF TreeInv, AgentsTypeOK
    <3>2. p \in Parks
      BY <3>1
    <3>. QED  BY <2>1, <3>1, <3>2 DEF IsAsked
  <2>3. OpenHitls[i] = Opened(p)
    BY <2>1
  <2>. HIDE DEF p
  <2>4. OpenHitls[i].park = p
    BY <2>3 DEF Opened
  <2>. QED  BY <2>2, <2>3, <2>4, OpenIsAhead
<1>5. /\ record' \in [Nested -> RecordStates]
      /\ \A n \in Nested : record[n] # "none" => record'[n] # "none"
  BY <1>1 DEF OnceInv, RecordsBegan, RecordStates
<1>6. \A p \in Parks : IsBoxed(p)' => IsBoxed(p)
  BY <1>1 DEF IsBoxed
<1>. QED  BY <1>1, <1>2, <1>3, <1>4, <1>5, <1>6, HistoryStays

\* A verdict, and a step that changes nothing of the run.
LEMMA VerdictKeepsOnce ==
  ASSUME SpawnTree, OnceInv, (\E p \in Parks, v \in {"approved", "denied"} : Verdict(p, v)) \/ UNCHANGED vars
  PROVE  OnceInv'
<1>1. UNCHANGED <<called, results, requests, record, worker, at, live, box, unwind>>
  BY DEF Verdict, vars, durable, memory
<1>2. Base' = Base
  BY <1>1, BaseStays
<1>3. \A x : Held(x)' = Held(x)
  BY <1>1, <1>2 DEF Held
<1>4. \A p : /\ Alive(p)' = Alive(p) /\ Lost(p)' = Lost(p)
             /\ IsBoxed(p)' = IsBoxed(p) /\ IsAsked(p)' = IsAsked(p)
  BY <1>1, <1>2, <1>3 DEF Alive, Lost, IsBoxed, IsAsked
<1>5. BoxStands' /\ LiveIsNew' /\ RequestsAreOver' /\ RecordsBegan' /\ ResultsAreOf'
  BY <1>1, <1>4 DEF OnceInv, BoxStands, LiveIsNew, RequestsAreOver, RecordsBegan, ResultsAreOf
<1>6. /\ Apart' = Apart /\ Climbs' = Climbs /\ Ahead' = Ahead
      /\ EveryCallAnsweredOnce' = EveryCallAnsweredOnce
  BY <1>1, <1>4 DEF Apart, RequestsAreCalls, Climbs, Ahead, EveryCallAnsweredOnce
<1>. QED  BY <1>5, <1>6 DEF OnceInv

\* Results that are written while nobody is in a loop are of requests' calls that have none.
LEMMA ResultsKeepOnce ==
  ASSUME SpawnTree, TreeInv, ToolInv, OnceInv, \A x \in Agents : at[x] = "off",
         NEW G, results' = [c \in Calls |-> IF c \in G THEN results[c] + 1 ELSE results[c]],
         \A c \in G : \E p \in Parks : IsAsked(p) /\ c \in Line(p),
         Apart => \A c \in G : results[c] = 0,
         Apart => Climbs' /\ Ahead',
         record' \in [Nested -> RecordStates], \A n \in Nested : record[n] # "none" => record'[n] # "none",
         UNCHANGED <<called, requests, live, box, at>>
  PROVE  OnceInv'
<1>1. \A p : IsAsked(p)' = IsAsked(p) /\ IsBoxed(p)' = IsBoxed(p)
  BY DEF IsAsked, IsBoxed
<1>2. \A c \in Calls : live[c] = "none"
  BY NoneIsLive
<1>3. LiveIsNew'
  BY <1>2 DEF LiveIsNew
<1>4. RequestsAreOver'
  BY <1>1 DEF OnceInv, RequestsAreOver
<1>5. RecordsBegan'
  <2>1. \A p \in Parks : Chain(p) \subseteq Nested
    BY LineIs
  <2>. QED  BY <1>1, <2>1 DEF OnceInv, RecordsBegan, RecordStates
<1>6. ResultsAreOf'
  BY <1>1 DEF OnceInv, ResultsAreOf
<1>7. BoxStands'
  BY LullStays
<1>8. Apart' = Apart
  BY DEF Apart, RequestsAreCalls
<1>9. Apart => EveryCallAnsweredOnce'
  <2>. SUFFICES ASSUME Apart, NEW c \in Calls PROVE results'[c] <= 1
    BY DEF EveryCallAnsweredOnce
  <2>1. results[c] <= 1 /\ (c \in G => results[c] = 0) /\ results[c] \in Nat
    BY DEF OnceInv, EveryCallAnsweredOnce, ToolInv, DurableTypeOK
  <2>. QED  BY <2>1
<1>. QED  BY <1>3, <1>4, <1>5, <1>6, <1>7, <1>8, <1>9 DEF OnceInv

LEMMA LandsKeepsOnce ==
  ASSUME SpawnTree, TreeInv, ToolInv, OnceInv, Lands
  PROVE  OnceInv'
<1>. DEFINE p == Now.park
            u == [Now EXCEPT !.stage = "clear"]
<1>1. /\ worker = "unwind" /\ unwind # <<>> /\ Now.stage \in {"land", "settle"}
      /\ results' = [results EXCEPT ![p] = @ + 1]
      /\ unwind' = <<u>> \o Tail(unwind)
      /\ UNCHANGED <<worker, called, requests, live, box, at, record>>
  BY DEF Lands
<1>2. /\ u \in [park : Parks, frame : Nat \ {0}, stage : Stages]
      /\ u.park = p /\ u.frame = Now.frame
  BY <1>1, NowIs DEF TreeInv, Stages
<1>. HIDE DEF u
<1>3. /\ unwind'[1] = u /\ Now = unwind[1] /\ DOMAIN unwind' = DOMAIN unwind /\ 1 \in DOMAIN unwind
      /\ \A i \in DOMAIN unwind : i # 1 => unwind'[i] = unwind[i]
      /\ \A i \in DOMAIN unwind : unwind[i].park \in Parks
  BY <1>1, <1>2, HeadIs DEF TreeInv
<1>4. p \in Parks /\ p \in Calls /\ results[p] = 0
  BY <1>1, HeadStands
<1>5. IsAsked(p) /\ p \in Line(p)
  BY <1>1, <1>3, <1>4, LineIs DEF ToolInv, UnwindIsOpen, IsAsked
<1>. HIDE DEF p
<1>6. \A x \in Agents : at[x] = "off"
  <2>1. ~AtFrame
    BY <1>1 DEF AtFrame
  <2>. QED  BY <1>1, <2>1, NobodyLoops
<1>7. results' = [c \in Calls |-> IF c \in {p} THEN results[c] + 1 ELSE results[c]]
  BY <1>1, <1>4 DEF ToolInv, DurableTypeOK
<1>8. ASSUME NEW q \in Parks, NEW k \in DOMAIN Frames(q) PROVE results'[Frames(q)[k]] = results[Frames(q)[k]]
  BY <1>4, <1>7, FramesIn
<1>9. Climbs => Climbs'
  <2>. SUFFICES ASSUME Climbs, NEW q \in Parks, IsAsked(q), NEW k \in DOMAIN Frames(q), results[Frames(q)[k]] # 0
                PROVE  results'[q] # 0 /\ \A j \in 1..k : results'[Frames(q)[j]] # 0
    BY <1>1, <1>8 DEF Climbs, IsAsked
  <2>1. results[q] # 0 /\ \A j \in 1..k : results[Frames(q)[j]] # 0
    BY DEF Climbs
  <2>2. q # p /\ q \in Calls
    BY <1>4, <2>1, FramesIn
  <2>3. \A j \in 1..k : j \in DOMAIN Frames(q)
    BY FramesIn
  <2>. QED  BY <1>7, <1>8, <2>1, <2>2, <2>3
<1>10. Ahead => Ahead'
  <2>1. \A i \in DOMAIN unwind : unwind'[i].park = unwind[i].park /\ unwind'[i].frame = unwind[i].frame
    BY <1>2, <1>3 DEF p
  <2>. QED  BY <1>1, <1>3, <1>8, <2>1 DEF Ahead
<1>11. /\ record' \in [Nested -> RecordStates]
       /\ \A n \in Nested : record[n] # "none" => record'[n] # "none"
  BY <1>1 DEF OnceInv, RecordsBegan, RecordStates
<1>12. Apart => Climbs' /\ Ahead'
  BY <1>9, <1>10 DEF OnceInv
<1>13. /\ \A c \in {p} : \E q \in Parks : IsAsked(q) /\ c \in Line(q)
       /\ Apart => \A c \in {p} : results[c] = 0
       /\ UNCHANGED <<called, requests, live, box, at>>
  BY <1>1, <1>4, <1>5
<1>. QED  BY <1>6, <1>7, <1>11, <1>12, <1>13, ResultsKeepOnce

\* The frame that gets its result is in no other request's chain.
LEMMA HandsKeepsOnce ==
  ASSUME SpawnTree, TreeInv, ToolInv, OnceInv, Hands
  PROVE  OnceInv'
<1>. DEFINE m == Now
            u == [m EXCEPT !.stage = "unwind", !.frame = m.frame + 1]
            p == m.park
            f == m.frame
<1>1. /\ worker = "unwind" /\ unwind # <<>> /\ m.stage = "hand"
      /\ results' = [results EXCEPT ![Frame] = @ + 1]
      /\ unwind' = <<u>> \o Tail(unwind)
      /\ UNCHANGED <<worker, called, requests, live, box, at, record>>
  BY DEF Hands
<1>2. m \in [park : Parks, frame : Nat \ {0}, stage : Stages] /\ m.frame + 1 \in Nat \ {0}
  BY <1>1, NowIs DEF TreeInv
<1>3. m = Now /\ Frame = Frames(p)[f]
  BY DEF Frame
<1>4. /\ p \in Parks /\ f \in Nat /\ results[p] # 0 /\ f \in DOMAIN Frames(p)
      /\ \A k \in DOMAIN Frames(p) : k < f => results[Frames(p)[k]] # 0
  BY <1>1, HeadStands
<1>. HIDE DEF m
<1>5. /\ u \in [park : Parks, frame : Nat \ {0}, stage : Stages]
      /\ u.park = p /\ u.frame = f + 1
  BY <1>2 DEF Stages
<1>. HIDE DEF u
<1>6. /\ unwind'[1] = u /\ m = unwind[1] /\ DOMAIN unwind' = DOMAIN unwind /\ 1 \in DOMAIN unwind
      /\ \A i \in DOMAIN unwind : i # 1 => unwind'[i] = unwind[i]
      /\ \A i \in DOMAIN unwind : unwind[i].park \in Parks
  BY <1>1, <1>3, <1>5, HeadIs DEF TreeInv
<1>7. \A i \in DOMAIN unwind : IsAsked(unwind[i].park)
  BY <1>1 DEF ToolInv, UnwindIsOpen, IsAsked
<1>8. IsAsked(p)
  BY <1>6, <1>7
<1>. HIDE DEF p, f
<1>9. Frame \in Chain(p) /\ Frame \in Nested /\ Frame \in Calls /\ Frame \in Line(p)
  BY <1>3, <1>4, LineIs, FramesIn DEF Line
<1>10. \A x \in Agents : at[x] = "off"
  <2>1. ~AtFrame
    BY <1>1, <1>3 DEF AtFrame
  <2>. QED  BY <1>1, <2>1, NobodyLoops
<1>11. results' = [c \in Calls |-> IF c \in {Frame} THEN results[c] + 1 ELSE results[c]]
  BY <1>1, <1>9 DEF ToolInv, DurableTypeOK
<1>12. \A q \in Parks : q \in Calls /\ results'[q] = results[q]
  BY <1>9, <1>11, FramesIn
<1>13. \A c \in Calls : results[c] # 0 => results'[c] # 0
  BY <1>11 DEF ToolInv, DurableTypeOK
<1>14. results'[Frame] # 0
  BY <1>9, <1>11 DEF ToolInv, DurableTypeOK
<1>15. ASSUME Apart, NEW q \in Parks, IsAsked(q), NEW k \in DOMAIN Frames(q), q # p \/ k # f
       PROVE  results'[Frames(q)[k]] = results[Frames(q)[k]]
  <2>1. Frames(q)[k] # Frame
    <3>1. CASE q = p
      BY <1>3, <1>4, <1>15, <3>1, FramesDiffer
    <3>2. CASE q # p
      <4>1. Chain(p) \cap Chain(q) = {}
        BY <1>4, <1>8, <1>15, <3>2, ApartIs
      <4>2. Frames(q)[k] \in Chain(q)
        BY LineIs
      <4>. QED  BY <1>9, <4>1, <4>2
    <3>. QED  BY <3>1, <3>2
  <2>. QED  BY <1>11, <2>1, FramesIn
<1>16. Apart => Climbs'
  <2>. SUFFICES ASSUME Apart, Climbs, NEW q \in Parks, IsAsked(q), NEW k \in DOMAIN Frames(q), results'[Frames(q)[k]] # 0
                PROVE  results'[q] # 0 /\ \A j \in 1..k : results'[Frames(q)[j]] # 0
    BY <1>1 DEF OnceInv, Climbs, IsAsked
  <2>0. /\ \A j \in 1..k : j \in DOMAIN Frames(q) /\ Frames(q)[j] \in Calls
        /\ k \in Nat
    BY FramesIn
  <2>1. CASE q = p /\ k = f
    <3>1. ASSUME NEW j \in 1..k PROVE results'[Frames(q)[j]] # 0
      <4>1. CASE j = k
        BY <1>3, <1>14, <2>1, <4>1
      <4>2. CASE j # k
        <5>1. j < f /\ j \in DOMAIN Frames(p)
          BY <2>0, <2>1, <4>2
        <5>. QED  BY <1>4, <1>13, <2>0, <2>1, <5>1
      <4>. QED  BY <4>1, <4>2
    <3>. QED  BY <1>4, <1>12, <2>1, <3>1
  <2>2. CASE q # p \/ k # f
    <3>1. results[Frames(q)[k]] # 0
      BY <1>15, <2>2
    <3>2. results[q] # 0 /\ \A j \in 1..k : results[Frames(q)[j]] # 0
      BY <3>1 DEF Climbs
    <3>. QED  BY <1>12, <1>13, <2>0, <3>2
  <2>. QED  BY <2>1, <2>2
<1>17. Apart => Ahead'
  <2>. SUFFICES ASSUME Apart, Ahead, NEW i \in DOMAIN unwind, NEW k \in DOMAIN Frames(unwind'[i].park), unwind'[i].frame <= k
                PROVE  results'[Frames(unwind'[i].park)[k]] = 0
    BY <1>6 DEF OnceInv, Ahead
  <2>1. CASE i = 1
    <3>1. k \in DOMAIN Frames(p) /\ f + 1 <= k /\ unwind'[i].park = p
      BY <1>5, <1>6, <2>1
    <3>2. k # f /\ f <= k /\ k \in Nat
      BY <1>4, <3>1, FramesIn
    <3>3. results[Frames(p)[k]] = 0
      BY <1>1, <1>6, <3>1, <3>2 DEF Ahead, p, f
    <3>. QED  BY <1>4, <1>8, <1>15, <3>1, <3>2, <3>3
  <2>2. CASE i # 1
    <3>1. unwind'[i] = unwind[i] /\ unwind[i].park # p /\ unwind[i].park \in Parks
      BY <1>1, <1>6, <2>2, ParksDiffer DEF ToolInv, p
    <3>2. results[Frames(unwind[i].park)[k]] = 0
      BY <1>1, <3>1 DEF Ahead
    <3>. QED  BY <1>7, <1>15, <3>1, <3>2
  <2>. QED  BY <2>1, <2>2
<1>18. Apart => \A c \in {Frame} : results[c] = 0
  <2>. SUFFICES ASSUME Ahead PROVE results[Frames(p)[f]] = 0
    BY <1>3 DEF OnceInv
  <2>1. 1 \in DOMAIN unwind /\ unwind[1].park = p /\ unwind[1].frame = f /\ f <= f
    BY <1>4, <1>6 DEF p, f
  <2>. QED  BY <1>1, <1>4, <2>1 DEF Ahead
<1>19. /\ record' \in [Nested -> RecordStates]
       /\ \A n \in Nested : record[n] # "none" => record'[n] # "none"
  BY <1>1 DEF OnceInv, RecordsBegan, RecordStates
<1>. HIDE DEF m
<1>20. \A c \in {Frame} : \E q \in Parks : IsAsked(q) /\ c \in Line(q)
  BY <1>4, <1>8, <1>9
<1>. QED  BY <1>1, <1>10, <1>11, <1>16, <1>17, <1>18, <1>19, <1>20, ResultsKeepOnce

\* What a stop of a parked run gives a result: the open requests that have none, and the calls
\* above an open request that wait.
StopOpen == {p \in Parks : IsAsked(p) /\ IsOpen(p)}
StopAsked == {p \in StopOpen : results[p] = 0}
StopFrom(p) == IF p \in StopAsked THEN DOMAIN Frames(p) ELSE First(Waiting(p))..Len(Frames(p))
StopFrames == UNION {{Frames(p)[i] : i \in StopFrom(p)} : p \in StopOpen}

LEMMA StopIs ==
  ASSUME SpawnTree, TreeInv, StopsParked
  PROVE  /\ worker = "off" /\ thread' = "ENDED"
         /\ results' = [c \in Calls |-> IF c \in StopAsked \cup StopFrames THEN results[c] + 1 ELSE results[c]]
         /\ record' = [n \in Nested |-> IF (\E p \in StopAsked : Asker[p] = n) \/ n \in {Parent[f] : f \in StopFrames}
                                        THEN "CANCELLED" ELSE record[n]]
         /\ UNCHANGED <<called, requests, live, box, at, worker, unwind, lost>>
         /\ \A p \in StopOpen : /\ p \in Parks /\ IsAsked(p) /\ IsOpen(p) /\ p \in Line(p) /\ p \in Calls
                                /\ StopFrom(p) \subseteq DOMAIN Frames(p)
<1>. DEFINE open == {OpenHitls[i].park : i \in DOMAIN OpenHitls}
            asked == {p \in open : results[p] = 0}
            From(p) == IF p \in asked THEN DOMAIN Frames(p) ELSE First(Waiting(p))..Len(Frames(p))
            frames == UNION {{Frames(p)[i] : i \in From(p)} : p \in open}
            closed == {n \in Nested : \E p \in asked : Asker[p] = n} \cup {Parent[f] : f \in frames}
<1>0. /\ worker = "off" /\ thread' = "ENDED"
      /\ results' = [c \in Calls |-> IF c \in asked \cup frames THEN results[c] + 1 ELSE results[c]]
      /\ record' = [n \in Nested |-> IF n \in closed THEN "CANCELLED" ELSE record[n]]
      /\ UNCHANGED <<called, requests, live, box, at, worker, unwind, lost>>
  BY DEF StopsParked, memory
<1>1. open = StopOpen
  <2>1. PICK e \in [DOMAIN OpenHitls -> DOMAIN requests] :
          /\ \A i \in DOMAIN OpenHitls : IsOpen(requests[e[i]]) /\ OpenHitls[i] = Opened(requests[e[i]])
          /\ \A k \in DOMAIN requests : IsOpen(requests[k]) => \E i \in DOMAIN OpenHitls : e[i] = k
    BY OpenIs DEF TreeInv, AgentsTypeOK
  <2>2. \A k \in DOMAIN requests : requests[k] \in Parks
    BY DEF TreeInv, AgentsTypeOK
  <2>3. \A q : Opened(q).park = q
    BY DEF Opened
  <2>4. \A i \in DOMAIN OpenHitls : OpenHitls[i].park = requests[e[i]]
    BY <2>1, <2>3
  <2>. QED  BY <2>1, <2>2, <2>4 DEF IsAsked, StopOpen
<1>2. ASSUME NEW p \in StopOpen
      PROVE  p \in Parks /\ IsAsked(p) /\ IsOpen(p) /\ p \in Line(p) /\ p \in Calls /\ StopFrom(p) \subseteq DOMAIN Frames(p)
  <2>0. p \in Parks /\ IsAsked(p) /\ IsOpen(p)
    BY DEF StopOpen
  <2>1. CASE p \in StopAsked
    BY <2>0, <2>1, LineIs, FramesIn DEF StopFrom
  <2>2. CASE p \notin StopAsked
    <3>1. Waiting(p) # {}
      BY <2>0, <2>2 DEF IsOpen, StopAsked
    <3>2. First(Waiting(p)) \in 1..Len(Frames(p)) /\ Len(Frames(p)) \in Nat /\ DOMAIN Frames(p) = 1..Len(Frames(p))
      BY <2>0, <3>1, FirstIs, FramesIn
    <3>. QED  BY <2>0, <2>2, <3>2, LineIs, FramesIn DEF StopFrom
  <2>. QED  BY <2>1, <2>2
<1>. HIDE DEF open
<1>3. asked = StopAsked /\ \A p : From(p) = StopFrom(p)
  BY <1>1 DEF StopAsked, StopFrom
<1>. HIDE DEF From
<1>4. frames = StopFrames
  BY <1>1, <1>3 DEF StopFrames
<1>5. \A n \in Nested : n \in closed <=> (\E p \in StopAsked : Asker[p] = n) \/ n \in {Parent[f] : f \in StopFrames}
  BY <1>3, <1>4
<1>. HIDE DEF asked, frames, closed
<1>6. record' = [n \in Nested |-> IF (\E p \in StopAsked : Asker[p] = n) \/ n \in {Parent[f] : f \in StopFrames}
                                  THEN "CANCELLED" ELSE record[n]]
  BY <1>0, <1>5
<1>. QED  BY <1>0, <1>2, <1>3, <1>4, <1>6

\* After it every call on the line of a request has a result.
LEMMA StopCloses ==
  ASSUME SpawnTree, TreeInv, ToolInv, StopsParked, NEW q \in Parks, IsAsked(q)
  PROVE  \A c \in Line(q) : results'[c] # 0
<1>. DEFINE G == StopAsked \cup StopFrames
<1>1. /\ results' = [c \in Calls |-> IF c \in G THEN results[c] + 1 ELSE results[c]]
      /\ q \in StopOpen => StopFrom(q) \subseteq DOMAIN Frames(q)
  BY StopIs
<1>2. ASSUME NEW c \in Calls, c \in G \/ results[c] # 0 PROVE results'[c] # 0
  <2>1. results[c] \in Nat
    BY DEF ToolInv, DurableTypeOK
  <2>. HIDE DEF G
  <2>. QED  BY <1>1, <1>2, <2>1
<1>3. q \in G \/ results[q] # 0
  BY DEF IsOpen, StopOpen, StopAsked
<1>4. ASSUME NEW k \in DOMAIN Frames(q) PROVE Frames(q)[k] \in G \/ results[Frames(q)[k]] # 0
  <2>1. CASE q \notin StopOpen
    BY <2>1 DEF IsOpen, Waiting, StopOpen
  <2>2. CASE q \in StopOpen /\ k \in StopFrom(q)
    BY <2>2 DEF StopFrames
  <2>3. CASE q \in StopOpen /\ k \notin StopFrom(q)
    <3>0. DOMAIN Frames(q) = 1..Len(Frames(q)) /\ Len(Frames(q)) \in Nat
      BY FramesIn
    <3>1. q \notin StopAsked
      BY <2>3 DEF StopFrom
    <3>2. Waiting(q) # {}
      BY <2>3, <3>1 DEF IsOpen, StopOpen, StopAsked
    <3>3. First(Waiting(q)) \in 1..Len(Frames(q)) /\ \A j \in Waiting(q) : First(Waiting(q)) <= j
      BY <3>2, FirstIs
    <3>4. ~(First(Waiting(q)) <= k)
      BY <2>3, <3>0, <3>1, <3>3 DEF StopFrom
    <3>5. k \notin Waiting(q)
      BY <3>3, <3>4
    <3>. QED  BY <3>5 DEF Waiting
  <2>. QED  BY <2>1, <2>2, <2>3
<1>. HIDE DEF G
<1>5. \A k \in DOMAIN Frames(q) : results'[Frames(q)[k]] # 0
  BY <1>2, <1>4, FramesIn
<1>. QED  BY <1>2, <1>3, <1>5, LineIs, FramesIn DEF Line

\* A stop of a parked run gives each open request, and each call above it that waits, a result.
LEMMA StopsKeepsOnce ==
  ASSUME SpawnTree, TreeInv, ToolInv, OnceInv, StopsParked
  PROVE  OnceInv'
<1>. DEFINE G == StopAsked \cup StopFrames
<1>1. /\ worker = "off"
      /\ results' = [c \in Calls |-> IF c \in G THEN results[c] + 1 ELSE results[c]]
      /\ UNCHANGED <<called, requests, live, box, at, worker>>
  BY StopIs
<1>2. PICK closed : record' = [n \in Nested |-> IF n \in closed THEN "CANCELLED" ELSE record[n]]
  <2>. DEFINE C == {n \in Nested : (\E p \in StopAsked : Asker[p] = n) \/ n \in {Parent[f] : f \in StopFrames}}
  <2>1. record' = [n \in Nested |-> IF n \in C THEN "CANCELLED" ELSE record[n]]
    BY StopIs
  <2>. QED  BY <2>1
<1>3. \A p \in StopOpen : /\ p \in Parks /\ IsAsked(p) /\ IsOpen(p) /\ p \in Line(p) /\ p \in Calls
                          /\ StopFrom(p) \subseteq DOMAIN Frames(p)
  BY StopIs
<1>4. \A c \in G : \E p \in Parks : IsAsked(p) /\ c \in Line(p)
  <2>1. ASSUME NEW p \in StopOpen, NEW i \in StopFrom(p) PROVE Frames(p)[i] \in Line(p)
    BY <1>3, LineIs DEF Line
  <2>. QED  BY <1>3, <2>1 DEF StopAsked, StopFrames
<1>5. ASSUME Climbs, NEW p \in StopOpen, NEW i \in StopFrom(p) PROVE results[Frames(p)[i]] = 0
  <2>1. i \in DOMAIN Frames(p) /\ p \in Parks
    BY <1>3
  <2>2. CASE p \in StopAsked
    BY <1>3, <1>5, <2>1, <2>2 DEF Climbs, StopAsked
  <2>3. CASE p \notin StopAsked
    <3>0. results[p] # 0
      BY <2>3 DEF StopAsked
    <3>1. Opened(p).frame = First(Waiting(p))
      BY <3>0 DEF Opened
    <3>2. First(Waiting(p)) <= i
      <4>1. Waiting(p) # {}
        BY <1>3, <3>0 DEF IsOpen
      <4>2. First(Waiting(p)) \in 1..Len(Frames(p)) /\ Len(Frames(p)) \in Nat
        BY <2>1, <4>1, FirstIs
      <4>. QED  BY <2>3, <4>2 DEF StopFrom
    <3>. QED  BY <1>3, <1>5, <2>1, <3>1, <3>2, OpenIsAhead
  <2>. QED  BY <2>2, <2>3
<1>6. Apart => \A c \in G : results[c] = 0
  BY <1>5 DEF OnceInv, StopAsked, StopFrames
<1>7. ASSUME NEW q \in Parks, IsAsked(q), NEW k \in DOMAIN Frames(q) PROVE results'[Frames(q)[k]] # 0 /\ results'[q] # 0
  BY <1>7, StopCloses, LineIs DEF Line
<1>8. Climbs' /\ Ahead'
  <2>1. \A q \in Parks : \A k \in DOMAIN Frames(q) : \A j \in 1..k : j \in DOMAIN Frames(q)
    BY FramesIn
  <2>2. \A q : IsAsked(q)' = IsAsked(q)
    BY <1>1 DEF IsAsked
  <2>. HIDE DEF G
  <2>. QED  BY <1>1, <1>7, <2>1, <2>2 DEF Climbs, Ahead
<1>9. /\ record' \in [Nested -> RecordStates]
      /\ \A n \in Nested : record[n] # "none" => record'[n] # "none"
  BY <1>2 DEF OnceInv, RecordsBegan, RecordStates
<1>10. \A x \in Agents : at[x] = "off"
  BY <1>1 DEF TreeInv, AtWorkBelow
<1>. HIDE DEF G
<1>. QED  BY <1>1, <1>4, <1>6, <1>8, <1>9, <1>10, ResultsKeepOnce

\* The last call on the way up is the main agent's.
LEMMA WayEnds ==
  ASSUME SpawnTree
  PROVE  \A n \in Nested : \E d \in OnWay(n) : Parent[d] = Main
<1>. DEFINE T == {x \in Agents : x # Main => \E d \in OnWay(x) : Parent[d] = Main}
<1>1. Main \in T
  BY DEF Agents
<1>2. ASSUME NEW n \in Nested, Parent[n] \in T PROVE n \in T
  BY <1>2, WayIs, OneCaller
<1>. HIDE DEF T
<1>3. \A x \in Agents : x \in T
  BY <1>1, <1>2, AgentsFromMain
<1>. QED  BY <1>3 DEF T, Agents, SpawnTree

\* When the main agent's step can be saved nobody else is in one.
LEMMA MainIsLast ==
  ASSUME SpawnTree, TreeInv, at[Main] # "off", \A c \in InStep(Main) : live[c] # "running"
  PROVE  /\ Base = {} /\ worker = "loop"
         /\ \A c \in Calls : live[c] # "none" => c \in InStep(Main)
<1>1. worker = "loop" /\ Base = {}
  BY MainLoops DEF Base, AtFrame
<1>2. ASSUME NEW c \in Calls, live[c] # "none", c \notin InStep(Main) PROVE FALSE
  <2>1. PICK y \in Agents : c \in CallsOf(y)
    BY DEF SpawnTree, Calls, CallsOf
  <2>2. at[y] = "tools" /\ y # Main /\ y \in Nested
    BY <1>2, <2>1 DEF TreeInv, Nesting, InStep, Agents
  <2>3. PICK d \in OnWay(y) : Parent[d] = Main
    BY <2>2, WayEnds
  <2>4. live[d] = "running" /\ d \in Nested
    BY <1>1, <2>1, <2>2, LoopsAreCalled, WayIs
  <2>5. d \in InStep(Main)
    BY <2>3, <2>4, OneCaller DEF InStep
  <2>. QED  BY <2>4, <2>5
<1>. QED  BY <1>1, <1>2

\* What is written from the box is asked for from then on.
LEMMA WrittenIs ==
  ASSUME TreeInv, requests' = requests \o box
  PROVE  \A p : IsAsked(p)' <=> IsAsked(p) \/ IsBoxed(p)
<1>1. /\ requests \in Seq(Parks) /\ box \in Seq(Parks)
      /\ DOMAIN requests = 1..Len(requests) /\ DOMAIN box = 1..Len(box)
      /\ Len(requests) \in Nat /\ Len(box) \in Nat
  BY DEF TreeInv, AgentsTypeOK
<1>2. /\ DOMAIN requests' = 1..(Len(requests) + Len(box))
      /\ \A i \in 1..Len(requests) : requests'[i] = requests[i]
      /\ \A i \in (Len(requests) + 1)..(Len(requests) + Len(box)) :
           requests'[i] = box[i - Len(requests)] /\ i - Len(requests) \in 1..Len(box)
  BY <1>1, Joined
<1>3. \A i \in DOMAIN requests' :
        i \in 1..Len(requests) \/ i \in (Len(requests) + 1)..(Len(requests) + Len(box))
  BY <1>1, <1>2
<1>4. ASSUME NEW p, IsAsked(p)' PROVE IsAsked(p) \/ IsBoxed(p)
  BY <1>1, <1>2, <1>3, <1>4 DEF IsAsked, IsBoxed
<1>5. ASSUME NEW p, IsAsked(p) PROVE IsAsked(p)'
  <2>1. PICK i \in 1..Len(requests) : requests[i] = p
    BY <1>1, <1>5 DEF IsAsked
  <2>2. i \in DOMAIN requests' /\ requests'[i] = p
    BY <1>1, <1>2, <2>1
  <2>. QED  BY <2>2 DEF IsAsked
<1>6. ASSUME NEW p, IsBoxed(p) PROVE IsAsked(p)'
  <2>1. PICK i \in 1..Len(box) : box[i] = p
    BY <1>1, <1>6 DEF IsBoxed
  <2>2. /\ Len(requests) + i \in (Len(requests) + 1)..(Len(requests) + Len(box))
        /\ (Len(requests) + i) - Len(requests) = i
        /\ Len(requests) + i \in DOMAIN requests'
    BY <1>1, <1>2
  <2>3. requests'[Len(requests) + i] = p
    BY <1>2, <2>1, <2>2
  <2>. QED  BY <2>2, <2>3 DEF IsAsked
<1>. QED  BY <1>4, <1>5, <1>6

\* What ApartIs says of the requests a step leaves.
LEMMA ApartThen ==
  ASSUME SpawnTree, Apart', NEW p \in Parks, IsAsked(p)'
  PROVE  /\ Line(p) \subseteq called'
         /\ \A q \in Parks : IsAsked(q)' /\ q # p => Chain(p) \cap Chain(q) = {}
<1>1. PICK i \in DOMAIN requests' : requests'[i] = p
  BY DEF IsAsked
<1>2. Line(p) \subseteq called'
  <2>1. p \in called' /\ \A k \in DOMAIN Frames(p) : Frames(p)[k] \in called'
    BY <1>1 DEF Apart, RequestsAreCalls
  <2>. QED  BY <2>1, LineIs DEF Line
<1>3. ASSUME NEW q \in Parks, IsAsked(q)', q # p, NEW n \in Chain(p), n \in Chain(q) PROVE FALSE
  <2>1. PICK j \in DOMAIN requests' : requests'[j] = q
    BY <1>3 DEF IsAsked
  <2>2. n \in Nested /\ (\E k \in DOMAIN Frames(p) : Frames(p)[k] = n) /\ (\E k \in DOMAIN Frames(q) : Frames(q)[k] = n)
    BY <1>3, LineIs
  <2>. QED  BY <1>1, <1>3, <2>1, <2>2 DEF Apart
<1>. QED  BY <1>2, <1>3

\* A step is saved: its calls are in the history, and those that did not park have their result.
LEMMA SavedIs ==
  ASSUME SpawnTree, TreeInv, OnceInv, NEW x \in Agents, SavesTools(x) \/ Answers(x)
  PROVE  /\ \A c \in InStep(x) : /\ c \in Calls /\ live[c] \in {"parked", "ok"} /\ c \notin called
                                 /\ results[c] = 0 /\ live'[c] = "none" /\ c \in called'
                                 /\ live[c] = "parked" => results'[c] = 0 /\ at'[x] = "parked"
                                 /\ results'[c] <= 1
         /\ \A c \in Calls : c \notin InStep(x) =>
              live'[c] = live[c] /\ results'[c] = results[c] /\ (c \in called' <=> c \in called)
         /\ \A y \in Agents : (at'[y] # "off" <=> at[y] # "off") /\ (y # x => at'[y] = at[y])
         /\ at[x] \in {"thinking", "tools"}
         /\ called' = called \cup InStep(x)
         /\ Committed(x = Main)
         /\ UNCHANGED <<record, worker, unwind>>
<1>1. PICK finish \in {"tool-calls", "stop"} : Saved(x, finish)
  BY DEF SavesTools, Answers
<1>2. at[x] \in {"thinking", "tools"} /\ \A c \in InStep(x) : live[c] \in {"parked", "ok"}
  <2>1. CASE SavesTools(x)
    BY <2>1 DEF SavesTools
  <2>2. CASE Answers(x)
    BY <2>2 DEF Answers, TreeInv, Nesting, InStep
  <2>. QED  BY <2>1, <2>2
<1>3. PICK s \in {"parked", "done", "thinking"} :
        at' = [at EXCEPT ![x] = s] /\ ((\E c \in InStep(x) : live[c] = "parked") => s = "parked")
  BY <1>1, Zenon DEF Saved
<1>4. /\ called' = called \cup InStep(x)
      /\ Committed(x = Main)
      /\ UNCHANGED <<record, worker, unwind>>
  BY <1>1 DEF Saved
<1>5. live' = [c \in Calls |-> IF c \in InStep(x) THEN "none" ELSE live[c]]
  BY <1>1 DEF Saved
<1>6. results' = [c \in Calls |-> IF c \in InStep(x) /\ live[c] # "parked" THEN results[c] + 1 ELSE results[c]]
  BY <1>1 DEF Saved
<1>7. \A c \in InStep(x) : c \in Calls /\ live[c] # "none"
  BY OneCaller DEF InStep
<1>8. \A y \in Agents : /\ y # x => at'[y] = at[y]
                        /\ at'[y] # "off" <=> at[y] # "off"
  BY <1>2, <1>3 DEF TreeInv, AgentsTypeOK
<1>9. at'[x] = s
  BY <1>3 DEF TreeInv, AgentsTypeOK
<1>10. \A c \in InStep(x) : c \notin called /\ results[c] = 0
  BY <1>7 DEF OnceInv, LiveIsNew
<1>11. \A c \in InStep(x) : results'[c] <= 1 /\ (live[c] = "parked" => results'[c] = 0)
  BY <1>6, <1>7, <1>10
<1>12. \A c \in InStep(x) : live'[c] = "none" /\ c \in called' /\ (live[c] = "parked" => at'[x] = "parked")
  BY <1>3, <1>4, <1>5, <1>7, <1>9
<1>13. \A c \in Calls : c \notin InStep(x) =>
          live'[c] = live[c] /\ results'[c] = results[c] /\ (c \in called' <=> c \in called)
  BY <1>4, <1>5, <1>6
<1>. QED  BY <1>2, <1>4, <1>7, <1>8, <1>10, <1>11, <1>12, <1>13

\* A step that is saved, with the parks it is asked for: the rest of the invariant is of the runs
\* whose requests are apart.
LEMMA SavedStays ==
  ASSUME SpawnTree, TreeInv, OnceInv, NEW x \in Agents, SavesTools(x) \/ Answers(x)
  PROVE  /\ LiveIsNew' /\ RequestsAreOver' /\ RecordsBegan' /\ ResultsAreOf'
         /\ Apart' => Apart /\ Climbs /\ Ahead /\ EveryCallAnsweredOnce'
         /\ \A p \in Parks : IsAsked(p)' => IsAsked(p) \/ (x = Main /\ IsBoxed(p))
<1>1. /\ \A c \in InStep(x) : /\ c \in Calls /\ live[c] \in {"parked", "ok"}
                              /\ live'[c] = "none" /\ c \in called' /\ results'[c] <= 1
      /\ \A c \in Calls : c \notin InStep(x) =>
           live'[c] = live[c] /\ results'[c] = results[c] /\ (c \in called' <=> c \in called)
      /\ \A y \in Agents : at'[y] # "off" <=> at[y] # "off"
      /\ called' = called \cup InStep(x)
      /\ Committed(x = Main)
      /\ UNCHANGED <<record, worker, unwind>>
  BY SavedIs
<1>2. \/ x = Main /\ requests' = requests \o box /\ box' = <<>>
      \/ requests' = requests /\ box' = box /\ (x = Main => box = <<>>)
  BY <1>1 DEF Committed
<1>3. /\ \A p \in Parks : IsAsked(p)' => IsAsked(p) \/ (x = Main /\ IsBoxed(p))
      /\ \A p \in Parks : IsAsked(p) => IsAsked(p)'
      /\ \A p \in Parks : IsBoxed(p)' => IsBoxed(p)
  <2>1. CASE x = Main /\ requests' = requests \o box /\ box' = <<>>
    BY <2>1, WrittenIs DEF IsBoxed
  <2>2. CASE requests' = requests /\ box' = box
    BY <2>2 DEF IsAsked, IsBoxed
  <2>. QED  BY <1>2, <2>1, <2>2
<1>4. x = Main => \A c \in Calls : live'[c] = "none"
  <2>1. ASSUME x = Main PROVE \A c \in Calls : live[c] # "none" => c \in InStep(Main)
    <3>1. at[Main] # "off"
      BY <2>1, SavedIs
    <3>2. \A c \in InStep(Main) : live[c] # "running"
      BY <1>1, <2>1
    <3>. QED  BY <3>1, <3>2, MainIsLast
  <2>. QED  BY <1>1, <2>1
<1>5. LiveIsNew'
  <2>. SUFFICES ASSUME NEW c \in Calls, live'[c] # "none" PROVE c \notin called' /\ results'[c] = 0
    BY DEF LiveIsNew
  <2>1. c \notin InStep(x)
    BY <1>1
  <2>. QED  BY <1>1, <2>1 DEF OnceInv, LiveIsNew
<1>6. RequestsAreOver'
  <2>. SUFFICES ASSUME NEW p \in Parks, IsAsked(p)', NEW c \in Line(p) PROVE live'[c] = "none"
    BY DEF RequestsAreOver
  <2>1. c \in Calls
    BY LineIs
  <2>2. CASE x = Main
    BY <1>4, <2>1, <2>2
  <2>3. CASE x # Main
    <3>1. live[c] = "none"
      BY <1>3, <2>3 DEF OnceInv, RequestsAreOver
    <3>. QED  BY <1>1, <2>1, <3>1
  <2>. QED  BY <2>2, <2>3
<1>7. RecordsBegan'
  <2>1. \A p \in Parks : IsAsked(p)' \/ IsBoxed(p)' => \A n \in Chain(p) : record[n] # "none"
    BY <1>3 DEF OnceInv, RecordsBegan
  <2>2. \A y \in Agents : at'[y] # "off" => \A n \in OnWay(y) : record[n] # "none"
    BY <1>1 DEF OnceInv, RecordsBegan
  <2>3. record' = record /\ record \in [Nested -> {"none", "RUNNING", "COMPLETED", "FAILED", "CANCELLED"}]
    BY <1>1 DEF OnceInv, RecordsBegan
  <2>. QED  BY <2>1, <2>2, <2>3 DEF RecordsBegan
<1>8. ResultsAreOf'
  <2>. SUFFICES ASSUME NEW c \in Calls, results'[c] # 0
                PROVE  c \in called' \/ \E p \in Parks : IsAsked(p)' /\ c \in Line(p)
    BY DEF ResultsAreOf
  <2>1. c \in InStep(x) \/ results[c] # 0
    BY <1>1
  <2>2. results[c] # 0 => c \in called \/ \E p \in Parks : IsAsked(p) /\ c \in Line(p)
    BY DEF OnceInv, ResultsAreOf
  <2>. QED  BY <1>1, <1>3, <2>1, <2>2
<1>9. Apart' => Apart
  <2>1. called' \subseteq called \cup {c \in Calls : live[c] # "none"}
    BY <1>1
  <2>2. requests' = requests \/ requests' = requests \o box
    BY <1>2
  <2>. QED  BY <2>1, <2>2, ApartBefore DEF OnceInv
<1>10. EveryCallAnsweredOnce => EveryCallAnsweredOnce'
  BY <1>1 DEF EveryCallAnsweredOnce
<1>. QED  BY <1>3, <1>5, <1>6, <1>7, <1>8, <1>9, <1>10 DEF OnceInv

\* A nested run's step: no request's call is in it, and the box is left to those who wait.
LEMMA NestedSavedKeepsOnce ==
  ASSUME SpawnTree, TreeInv, ToolInv, OnceInv, NEW x \in Agents, x # Main, SavesTools(x) \/ Answers(x)
  PROVE  OnceInv'
<1>1. /\ \A c \in InStep(x) : /\ c \in Calls /\ live[c] \in {"parked", "ok"} /\ c \notin called
                              /\ results[c] = 0 /\ live'[c] = "none" /\ c \in called'
                              /\ live[c] = "parked" => results'[c] = 0 /\ at'[x] = "parked"
      /\ \A c \in Calls : c \notin InStep(x) =>
           live'[c] = live[c] /\ results'[c] = results[c] /\ (c \in called' <=> c \in called)
      /\ \A y \in Agents : y # x => at'[y] = at[y]
      /\ at[x] \in {"thinking", "tools"}
      /\ called' = called \cup InStep(x)
      /\ Committed(x = Main)
      /\ UNCHANGED <<worker, unwind>>
  BY SavedIs
<1>2. requests' = requests /\ box' = box
  BY <1>1 DEF Committed
<1>3. \A p : IsAsked(p)' = IsAsked(p) /\ IsBoxed(p)' = IsBoxed(p)
  BY <1>2 DEF IsAsked, IsBoxed
<1>4. Base' = Base
  BY <1>1, BaseStays
<1>5. ASSUME NEW y \in Agents, Held(y) PROVE Held(y)'
  <2>1. CASE at[y] = "parked"
    BY <1>1, <2>1 DEF Held
  <2>2. CASE y # Main /\ y \notin Base /\ (live[y] = "parked" \/ y \in called)
    <3>1. y \in Calls
      BY <2>2 DEF Agents, Calls
    <3>2. live'[y] = "parked" \/ y \in called'
      BY <1>1, <2>2, <3>1
    <3>. QED  BY <1>4, <2>2, <3>2 DEF Held
  <2>. QED  BY <1>5, <2>1, <2>2 DEF Held
<1>6. ASSUME NEW p \in Parks, Alive(p) PROVE Alive(p)'
  <2>. SUFFICES ASSUME NEW c \in Line(p)
                PROVE  \/ c \in Base' \/ live'[c] \in {"running", "parked"}
                       \/ c \in called' /\ results'[c] = 0 /\ Held(Caller(c))'
    BY DEF Alive
  <2>0. c \in Calls /\ Caller(c) \in Agents /\ c \in CallsOf(Caller(c))
    BY LineIs
  <2>1. CASE c \in Base
    BY <1>4, <2>1
  <2>2. CASE c \in InStep(x) /\ c \notin Base
    <3>1. Caller(c) = x
      BY <2>0, <2>2, OneCaller DEF InStep
    <3>2. live[c] = "parked"
      BY <1>1, <1>6, <2>2 DEF Alive
    <3>3. c \in called' /\ results'[c] = 0 /\ at'[x] = "parked"
      BY <1>1, <2>2, <3>2
    <3>. QED  BY <3>1, <3>3 DEF Held
  <2>3. CASE c \notin InStep(x) /\ c \notin Base
    <3>1. live'[c] = live[c] /\ results'[c] = results[c] /\ (c \in called' <=> c \in called)
      BY <1>1, <2>0, <2>3
    <3>2. live[c] \in {"running", "parked"} \/ (c \in called /\ results[c] = 0 /\ Held(Caller(c)))
      BY <1>6, <2>3 DEF Alive
    <3>. QED  BY <1>5, <2>0, <3>1, <3>2
  <2>. QED  BY <2>1, <2>2, <2>3
<1>7. ASSUME NEW p \in Parks, Lost(p) PROVE Lost(p)'
  <2>1. PICK c \in Line(p) : c \notin called /\ live[c] = "none"
    BY <1>7 DEF Lost
  <2>2. c \in Calls /\ c \notin InStep(x)
    BY <2>1, LineIs DEF InStep
  <2>. QED  BY <1>1, <2>1, <2>2 DEF Lost
<1>8. BoxStands'
  BY <1>3, <1>6, <1>7 DEF OnceInv, BoxStands
<1>9. ASSUME NEW p \in Parks, IsAsked(p), NEW c \in Line(p) PROVE results'[c] = results[c]
  <2>1. c \in Calls /\ c \notin InStep(x)
    BY <1>9, LineIs DEF OnceInv, RequestsAreOver, InStep
  <2>. QED  BY <1>1, <2>1
<1>10. \A p \in Parks : \A k \in DOMAIN Frames(p) :
         /\ p \in Line(p) /\ Frames(p)[k] \in Line(p)
         /\ \A j \in 1..k : j \in DOMAIN Frames(p)
  BY LineIs, FramesIn DEF Line
<1>11. ASSUME Climbs PROVE Climbs'
  <2>. SUFFICES ASSUME NEW p \in Parks, IsAsked(p), NEW k \in DOMAIN Frames(p), results'[Frames(p)[k]] # 0
                PROVE  results'[p] # 0 /\ \A j \in 1..k : results'[Frames(p)[j]] # 0
    BY <1>3 DEF Climbs
  <2>1. results[p] # 0 /\ \A j \in 1..k : results[Frames(p)[j]] # 0
    BY <1>9, <1>10, <1>11 DEF Climbs
  <2>. QED  BY <1>9, <1>10, <2>1
<1>12. ASSUME Ahead PROVE Ahead'
  <2>1. worker = "unwind" => \A i \in DOMAIN unwind : unwind[i].park \in Parks /\ IsAsked(unwind[i].park)
    BY DEF ToolInv, UnwindIsOpen, IsAsked, TreeInv, AgentsTypeOK
  <2>. QED  BY <1>1, <1>9, <1>10, <1>12, <2>1 DEF Ahead
<1>. QED  BY <1>8, <1>11, <1>12, SavedStays DEF OnceInv

\* What is written with the main agent's step waits for its result, and so does who is above it.
LEMMA MainWrites ==
  ASSUME SpawnTree, TreeInv, OnceInv, SavesTools(Main) \/ Answers(Main), Apart',
         NEW p \in Parks, IsAsked(p)', ~IsAsked(p), NEW c \in Line(p)
  PROVE  results'[c] = 0
<1>0. Main \in Agents
  BY DEF Agents
<1>1. /\ \A d \in InStep(Main) : /\ d \in Calls /\ live[d] \in {"parked", "ok"}
                                 /\ live[d] = "parked" => results'[d] = 0
      /\ \A d \in Calls : d \notin InStep(Main) => results'[d] = results[d]
      /\ at[Main] # "off"
      /\ called' = called \cup InStep(Main)
  BY <1>0, SavedIs
<1>2. /\ Base = {}
      /\ \A d \in Calls : live[d] # "none" => d \in InStep(Main)
  <2>1. \A d \in InStep(Main) : live[d] # "running"
    BY <1>1
  <2>. QED  BY <1>1, <2>1, MainIsLast
<1>3. IsBoxed(p)
  BY <1>0, SavedStays
<1>4. Line(p) \subseteq called'
  BY ApartThen
<1>5. \A d \in InStep(Main) : live[d] # "none"
  BY DEF InStep
<1>6. ~Lost(p)
  BY <1>1, <1>4, <1>5 DEF Lost
<1>7. Alive(p)
  BY <1>3, <1>6 DEF OnceInv, BoxStands
<1>8. c \in Calls
  BY LineIs
<1>9. CASE live[c] = "parked"
  BY <1>1, <1>2, <1>8, <1>9
<1>10. CASE live[c] = "running"
  BY <1>1, <1>2, <1>8, <1>10
<1>11. CASE c \in called /\ results[c] = 0
  <2>1. live[c] = "none"
    BY <1>8, <1>11 DEF OnceInv, LiveIsNew
  <2>2. c \notin InStep(Main)
    BY <2>1 DEF InStep
  <2>. QED  BY <1>1, <1>8, <1>11, <2>2
<1>. QED  BY <1>2, <1>7, <1>9, <1>10, <1>11 DEF Alive

\* The main agent's step: the parks written with it are the calls it, or a nested run under it,
\* parked with, and none above them has a result.
LEMMA MainSavedKeepsOnce ==
  ASSUME SpawnTree, TreeInv, ToolInv, OnceInv, SavesTools(Main) \/ Answers(Main)
  PROVE  OnceInv'
<1>0. Main \in Agents
  BY DEF Agents
<1>1. /\ \A c \in InStep(Main) : /\ c \in Calls /\ live[c] \in {"parked", "ok"}
                                 /\ results[c] = 0
                                 /\ live[c] = "parked" => results'[c] = 0
      /\ \A c \in Calls : c \notin InStep(Main) => results'[c] = results[c]
      /\ at[Main] # "off"
      /\ called' = called \cup InStep(Main)
      /\ Committed(Main = Main)
      /\ worker' = worker
  BY <1>0, SavedIs
<1>2. /\ Base = {} /\ worker = "loop"
      /\ \A c \in Calls : live[c] # "none" => c \in InStep(Main)
  <2>1. \A c \in InStep(Main) : live[c] # "running"
    BY <1>1
  <2>. QED  BY <1>1, <2>1, MainIsLast
<1>3. BoxStands'
  <2>1. box' = <<>>
    BY <1>1 DEF Committed
  <2>. QED  BY <2>1 DEF BoxStands, IsBoxed
<1>4. Ahead'
  BY <1>1, <1>2 DEF Ahead
<1>5. Apart' => Apart /\ Climbs /\ EveryCallAnsweredOnce'
  BY <1>0, SavedStays
<1>6. ASSUME Apart', NEW p \in Parks, IsAsked(p)', ~IsAsked(p), NEW c \in Line(p) PROVE results'[c] = 0
  BY <1>6, MainWrites
<1>7. \A p \in Parks : \A k \in DOMAIN Frames(p) :
         /\ p \in Line(p) /\ Frames(p)[k] \in Line(p) /\ Frames(p)[k] # p
         /\ \A j \in 1..k : j \in DOMAIN Frames(p)
  BY LineIs, FramesIn DEF Line
<1>8. ASSUME NEW p \in Parks, IsAsked(p), NEW c \in Line(p) PROVE results'[c] = results[c]
  <2>1. c \in Calls /\ c \notin InStep(Main)
    BY <1>8, LineIs DEF OnceInv, RequestsAreOver, InStep
  <2>. QED  BY <1>1, <2>1
<1>9. ASSUME Apart' PROVE Climbs'
  <2>. SUFFICES ASSUME NEW p \in Parks, IsAsked(p)', NEW k \in DOMAIN Frames(p), results'[Frames(p)[k]] # 0
                PROVE  results'[p] # 0 /\ \A j \in 1..k : results'[Frames(p)[j]] # 0
    BY DEF Climbs
  <2>1. IsAsked(p)
    BY <1>6, <1>7, <1>9
  <2>2. results[p] # 0 /\ \A j \in 1..k : results[Frames(p)[j]] # 0
    BY <1>5, <1>7, <1>8, <1>9, <2>1 DEF Climbs
  <2>. QED  BY <1>7, <1>8, <2>1, <2>2
<1>. QED  BY <1>0, <1>3, <1>4, <1>5, <1>9, SavedStays DEF OnceInv

\* The parks that a nested run writes when it parks again under an unwind have nothing above them
\* that was answered.
LEMMA ParksAgainKeepsOnce ==
  ASSUME SpawnTree, TreeInv, ToolInv, OnceInv, ParksAgain
  PROVE  OnceInv'
<1>1. /\ AtFrame /\ at[Frame] = "parked"
      /\ requests' = requests \o box /\ Gone
      /\ UNCHANGED <<record, called, results>>
  BY DEF ParksAgain
<1>2. worker' = "off" /\ at' = [x \in Agents |-> "off"] /\ live' = None /\ box' = <<>>
  BY <1>1 DEF Gone
<1>3. \A c \in Calls : live'[c] = "none"
  BY <1>2 DEF None
<1>4. \A p : IsAsked(p)' <=> IsAsked(p) \/ IsBoxed(p)
  BY <1>1, WrittenIs
<1>5. \A c \in Calls : live[c] = "none"
  <2>1. \A x \in Agents : at[x] # "off" => x = Frame
    BY <1>1, AloneAtFrame
  <2>2. \A x \in Agents : at[x] # "tools"
    BY <1>1, <2>1
  <2>. QED  BY <2>2, NoneIsLive
<1>6. LiveIsNew' /\ BoxStands' /\ Ahead'
  BY <1>2, <1>3 DEF LiveIsNew, BoxStands, IsBoxed, Ahead
<1>7. RequestsAreOver'
  BY <1>3, LineIs DEF RequestsAreOver
<1>8. RecordsBegan'
  <2>1. /\ \A p : ~IsBoxed(p)'
        /\ \A x \in Agents : at'[x] = "off"
    BY <1>2 DEF IsBoxed
  <2>2. \A p \in Parks : IsAsked(p)' => \A n \in Chain(p) : record[n] # "none"
    BY <1>4 DEF OnceInv, RecordsBegan
  <2>3. record' = record /\ record \in [Nested -> {"none", "RUNNING", "COMPLETED", "FAILED", "CANCELLED"}]
    BY <1>1 DEF OnceInv, RecordsBegan
  <2>. QED  BY <2>1, <2>2, <2>3 DEF RecordsBegan
<1>9. ResultsAreOf'
  BY <1>1, <1>4 DEF OnceInv, ResultsAreOf
<1>10. Apart' => Apart
  <2>1. called' \subseteq called \cup {c \in Calls : live[c] # "none"}
    BY <1>1
  <2>. QED  BY <1>1, <2>1, ApartBefore DEF OnceInv
<1>11. EveryCallAnsweredOnce' = EveryCallAnsweredOnce
  BY <1>1 DEF EveryCallAnsweredOnce
<1>12. ASSUME Apart', NEW p \in Parks, IsBoxed(p), ~IsAsked(p), NEW c \in Line(p) PROVE results[c] = 0
  <2>1. /\ Now.park \in Parks /\ IsAsked(Now.park) /\ Base \subseteq Chain(Now.park)
        /\ \A q \in Parks : q \notin Base
    BY <1>1, BaseIs DEF OnceInv
  <2>2. Chain(p) \cap Chain(Now.park) = {}
    BY <1>4, <1>12, <2>1, ApartThen
  <2>3. c \notin Base
    BY <2>1, <2>2 DEF Line
  <2>4. Line(p) \subseteq called
    BY <1>1, <1>4, <1>12, ApartThen
  <2>5. Alive(p)
    BY <1>12, <2>4 DEF OnceInv, BoxStands, Lost
  <2>6. c \in Calls /\ live[c] = "none"
    BY <1>5, LineIs
  <2>. QED  BY <2>3, <2>5, <2>6 DEF Alive
<1>13. Apart' => Climbs'
  <2>. SUFFICES ASSUME Apart', Climbs, NEW p \in Parks, IsAsked(p)', NEW k \in DOMAIN Frames(p), results[Frames(p)[k]] # 0
                PROVE  results[p] # 0 /\ \A j \in 1..k : results[Frames(p)[j]] # 0
    BY <1>1, <1>10 DEF OnceInv, Climbs
  <2>1. Frames(p)[k] \in Line(p)
    BY LineIs DEF Line
  <2>2. IsAsked(p)
    BY <1>4, <1>12, <2>1
  <2>. QED  BY <2>2 DEF Climbs
<1>. QED  BY <1>6, <1>7, <1>8, <1>9, <1>10, <1>11, <1>13 DEF OnceInv

LEMMA OnceStays ==
  ASSUME SpawnTree, TreeInv, ToolInv, OnceInv, [Next]_vars
  PROVE  OnceInv'
<1>1. ASSUME NEW x \in Agents, NEW asked \in SUBSET CallsOf(x), Asks(x, asked) PROVE OnceInv'
  BY <1>1, AsksKeepsOnce
<1>2. ASSUME NEW x \in Agents, SavesTools(x) \/ Answers(x) PROVE OnceInv'
  BY <1>2, NestedSavedKeepsOnce, MainSavedKeepsOnce
<1>3. ASSUME NEW x \in Agents, Fails(x) PROVE OnceInv'
  BY <1>3, FailsKeepsOnce
<1>4. ASSUME NEW n \in Nested, Spawn(n) PROVE OnceInv'
  BY <1>4, SpawnKeepsOnce
<1>5. ASSUME NEW n \in Nested, Returns(n) PROVE OnceInv'
  BY <1>5, ReturnsKeepsOnce
<1>6. ASSUME NEW d \in DOMAIN line, Granted(d) PROVE OnceInv'
  <2>1. d \in 1..MaxDepth
    BY DEF TreeInv, AgentsTypeOK
  <2>. QED  BY <1>6, <2>1, GrantedKeepsOnce
<1>7. ASSUME Ends \/ Dies \/ MainFails \/ StopsLoop PROVE OnceInv'
  BY <1>7, GoneKeepsOnce
<1>8. ASSUME ToolRuns \/ ToolKept \/ Clears \/ Closes \/ NextPark \/ Reenters \/ Unwound \/ Begins PROVE OnceInv'
  BY <1>8, StagesKeepOnce
<1>9. ASSUME Resumes PROVE OnceInv'
  BY <1>9, ResumesKeepsOnce
<1>10. ASSUME Lands PROVE OnceInv'
  BY <1>10, LandsKeepsOnce
<1>11. ASSUME Hands PROVE OnceInv'
  BY <1>11, HandsKeepsOnce
<1>12. ASSUME ParksAgain PROVE OnceInv'
  BY <1>12, ParksAgainKeepsOnce
<1>13. ASSUME StopsParked PROVE OnceInv'
  BY <1>13, StopsKeepsOnce
<1>14. ASSUME (\E p \in Parks, v \in {"approved", "denied"} : Verdict(p, v)) \/ UNCHANGED vars PROVE OnceInv'
  BY <1>14, VerdictKeepsOnce
<1>. QED
  BY <1>1, <1>2, <1>3, <1>4, <1>5, <1>6, <1>7, <1>8, <1>9, <1>10, <1>11, <1>12, <1>13, <1>14, Zenon DEF Next

LEMMA OnceStarts ==
  ASSUME SpawnTree, Init
  PROVE  OnceInv
<1>1. /\ results = [c \in Calls |-> 0] /\ called = {} /\ requests = <<>> /\ box = <<>> /\ worker = "off"
      /\ record = [n \in Nested |-> "none"] /\ at = [x \in Agents |-> "off"] /\ live = [c \in Calls |-> "none"]
  BY DEF Init, None
<1>2. \A p : ~IsAsked(p) /\ ~IsBoxed(p)
  BY <1>1 DEF IsAsked, IsBoxed
<1>3. LiveIsNew /\ RequestsAreOver /\ ResultsAreOf /\ BoxStands
  BY <1>1, <1>2 DEF LiveIsNew, RequestsAreOver, ResultsAreOf, BoxStands
<1>4. RecordsBegan
  BY <1>1, <1>2 DEF RecordsBegan
<1>5. Climbs /\ Ahead /\ EveryCallAnsweredOnce
  BY <1>1, <1>2 DEF Climbs, Ahead, EveryCallAnsweredOnce
<1>. QED  BY <1>3, <1>4, <1>5 DEF OnceInv

\* While no two requests of a run wait in one nested run and every request is of a call in the
\* history, no call has two results, though a step, an unwind that was cut and comes again and a
\* stop of a parked run all write them (core/loop.ts, core/engine.ts, core/stop.ts).
THEOREM CallsAnswerOnce ==
  ASSUME SpawnTree, MaxDepth \in Nat
  PROVE  Spec => []CallsAnsweredOnce
<1>1. Init => TreeInv /\ ToolInv /\ OnceInv
  BY TreeStarts, ToolsStart, OnceStarts
<1>2. TreeInv /\ ToolInv /\ OnceInv /\ [Next]_vars => (TreeInv /\ ToolInv /\ OnceInv)'
  BY TreeStays, ToolsStay, OnceStays
<1>3. OnceInv => CallsAnsweredOnce
  BY DEF OnceInv, CallsAnsweredOnce
<1>. QED  BY <1>1, <1>2, <1>3, PTL DEF Spec
---------------------------------------------------------------------------
(* A record is what its nested run does *)

\* A run on which no loop was cut under another, and whose requests share no nested run.
Whole == ~lost /\ Apart

\* A park that a step raised is in the box until the step is saved.
ParksAreBoxed == \A p \in Parks : live[p] = "parked" => IsBoxed(p)

\* A run that works on has no open request, and one that ended no worker.
ThreadStands ==
  /\ thread \in {"RUNNING", "WAITING_FOR_INPUT", "ENDED"}
  /\ thread = "ENDED" => worker = "off"
  /\ thread = "RUNNING" => \A p \in Parks : IsAsked(p) => ~IsOpen(p)

\* A worker in its loop writes a request when the main agent has parked.
MainWaits ==
  worker = "loop" =>
    (thread = "WAITING_FOR_INPUT" <=> at[Main] = "parked") /\ (at[Main] = "parked" => box = <<>>)

\* Under whoever has parked there is a park that has no result.
ParkedForSome ==
  \A x \in Agents : at[x] = "parked" \/ (x # Main /\ live[x] = "parked") =>
    \E p \in Parks : /\ x = Main \/ x \in Chain(p)
                     /\ IsBoxed(p) \/ (x = Main /\ IsAsked(p))

\* An unwind that is not cut leaves no request half way.
NoneHalfWay ==
  \A p \in Parks : IsAsked(p) /\ IsOpen(p) =>
    results[p] = 0 \/ (worker = "unwind" /\ unwind # <<>> /\ Now.park = p)

\* A record is RUNNING for a loop, for a park under it that is not written, and for a request that
\* has not been handed to it.
Handing(n) == worker = "unwind" /\ unwind # <<>> /\ Now.stage = "hand" /\ Frame = n
Delegates(n) ==
  \/ at[n] # "off"
  \/ \E p \in Parks : /\ n \in Chain(p)
                      /\ \/ IsBoxed(p)
                         \/ IsAsked(p) /\ results[n] = 0 /\ thread # "ENDED" /\ ~Handing(n)
RecordsTell == \A n \in Nested : record[n] = "RUNNING" <=> Delegates(n)

RecordInv ==
  /\ ParksAreBoxed /\ ThreadStands
  /\ Whole => /\ \A p \in Parks : IsBoxed(p) => ~Lost(p)
              /\ MainWaits /\ ParkedForSome /\ NoneHalfWay /\ RecordsTell

---------------------------------------------------------------------------
\* A run that is whole was so before: what is lost stays lost, and requests are only added.
LEMMA WholeBefore ==
  ASSUME SpawnTree, TreeInv, OnceInv, [Next]_vars, Whole'
  PROVE  Whole
<1>1. ~lost
  <2>1. ~lost'
    BY DEF Whole
  <2>2. ASSUME NEW x \in Agents, (\E asked \in SUBSET CallsOf(x) : Asks(x, asked)) \/ SavesTools(x) \/ Answers(x) \/ Fails(x)
        PROVE  ~lost
    BY <2>1, <2>2 DEF Asks, SavesTools, Answers, Fails, Saved, counted
  <2>3. ASSUME \/ \E n \in Nested : Spawn(n) \/ Returns(n)
               \/ \E d \in DOMAIN line : Granted(d)
               \/ Begins \/ Resumes \/ Ends
               \/ ToolRuns \/ ToolKept \/ Lands \/ Clears \/ Reenters \/ Closes \/ Hands \/ ParksAgain
               \/ NextPark \/ Unwound \/ StopsParked
               \/ \E p \in Parks, v \in {"approved", "denied"} : Verdict(p, v)
               \/ UNCHANGED vars
        PROVE  ~lost
    <3>1. lost' = lost
      BY <2>3, Zenon DEF Spawn, Returns, Granted, Begins, Resumes, Ends, ToolRuns, ToolKept, Lands, Clears,
            Reenters, Closes, Hands, ParksAgain, NextPark, Unwound, StopsParked, Verdict, vars, counted
    <3>. QED  BY <2>1, <3>1
  <2>4. ASSUME Dies \/ MainFails \/ StopsLoop PROVE ~lost
    BY <2>1, <2>4 DEF Dies, MainFails, StopsLoop
  <2>. QED  BY <2>2, <2>3, <2>4, Zenon DEF Next
<1>2. called' \subseteq called \cup {c \in Calls : live[c] # "none"}
  <2>1. ASSUME NEW x \in Agents, SavesTools(x) \/ Answers(x) PROVE called' = called \cup InStep(x)
    BY <2>1 DEF SavesTools, Answers, Saved
  <2>2. \A x \in Agents : InStep(x) \subseteq {c \in Calls : live[c] # "none"}
    BY OneCaller DEF InStep
  <2>3. ASSUME ~\E x \in Agents : SavesTools(x) \/ Answers(x) PROVE called' = called
    BY <2>3, Zenon DEF Next, vars, durable, Asks, Fails, Spawn, Returns, Granted, Begins, Resumes, Ends, ToolRuns,
          ToolKept, Lands, Clears, Reenters, Closes, Hands, ParksAgain, NextPark, Unwound, StopsParked, Verdict,
          Dies, MainFails, StopsLoop
  <2>. QED  BY <2>1, <2>2, <2>3
<1>3. requests' = requests \/ requests' = requests \o box
  BY Zenon DEF Next, vars, durable, Asks, SavesTools, Answers, Saved, Committed, Fails, Spawn, Returns, Granted,
        Begins, Resumes, Ends, ToolRuns, ToolKept, Lands, Clears, Reenters, Closes, Hands, ParksAgain, NextPark,
        Unwound, StopsParked, Verdict, Dies, MainFails, StopsLoop
<1>4. Apart
  <2>1. Apart'
    BY DEF Whole
  <2>. QED  BY <1>2, <1>3, <2>1, ApartBefore DEF OnceInv
<1>. QED  BY <1>1, <1>4 DEF Whole

\* While a run is whole and nobody waits, the box is empty.
LEMMA NobodyBoxed ==
  ASSUME SpawnTree, TreeInv, ToolInv, OnceInv, RecordInv, Whole, \A x \in Agents : at[x] \notin {"parked", "tools"}
  PROVE  \A p \in Parks : ~IsBoxed(p)
<1>1. \A p \in Parks : ~Alive(p)
  BY NoneIsLive, NobodyWaits DEF OnceInv
<1>. QED  BY <1>1 DEF OnceInv, RecordInv, BoxStands

\* The nested run that an unwind stands at, and those above it, have no result yet.
LEMMA BaseIsAhead ==
  ASSUME SpawnTree, TreeInv, ToolInv, OnceInv, Whole
  PROVE  \A n \in Base : results[n] = 0
<1>. SUFFICES ASSUME AtFrame, NEW n \in Base PROVE results[n] = 0
  BY DEF Base
<1>. DEFINE p == Now.park
<1>1. /\ p \in Parks /\ IsAsked(p) /\ Frame \in Chain(p) /\ Base = OnWay(Frame)
  BY BaseIs DEF OnceInv
<1>2. /\ Now = unwind[1] /\ 1 \in DOMAIN unwind /\ Now.frame \in Nat \ {0} /\ worker = "unwind"
      /\ Now.frame <= Len(Frames(p))
  <2>1. unwind # <<>> /\ worker = "unwind" /\ Now.frame <= Len(Frames(p))
    BY DEF AtFrame
  <2>2. \A R : unwind \in Seq(R) /\ unwind # <<>> => 1 \in DOMAIN unwind
    OBVIOUS
  <2>. QED  BY <2>1, <2>2, NowIs DEF TreeInv, AgentsTypeOK
<1>3. unwind[1].park = p /\ unwind[1].frame = Now.frame
  BY <1>2
<1>. HIDE DEF p
<1>4. \A k \in DOMAIN Frames(p) : Now.frame <= k => results[Frames(p)[k]] = 0
  BY <1>2, <1>3 DEF OnceInv, Whole, Ahead
<1>5. /\ DOMAIN Frames(p) = 1..Len(Frames(p)) /\ Len(Frames(p)) \in Nat
      /\ \A k \in DOMAIN Frames(p) : Depth(Frames(p)[k]) = Depth(Asker[p]) + 1 - k
      /\ Depth(Asker[p]) \in Nat /\ Frame = Frames(p)[Now.frame]
  <2>1. Asker[p] \in Agents
    BY <1>1, LineIs
  <2>2. \A k \in 1..Len(Above[Asker[p]]) : Depth(Frames(p)[k]) = Depth(Asker[p]) + 1 - k
    BY <2>1, AllFramed DEF Framed, Frames
  <2>3. DOMAIN Frames(p) = 1..Len(Frames(p)) /\ Len(Frames(p)) \in Nat /\ Frames(p) = Above[Asker[p]]
    BY <1>1, FramesIn DEF Frames
  <2>. QED  BY <2>1, <2>2, <2>3, Deeper DEF Frame, p
<1>6. n \in Chain(p) /\ Frame \in Agents /\ Depth(n) <= Depth(Frame)
  BY <1>1, BaseIs, WayUp DEF OnceInv, p
<1>7. PICK k \in DOMAIN Frames(p) : Frames(p)[k] = n
  BY <1>1, <1>6, LineIs
<1>8. Now.frame <= k
  <2>1. Now.frame \in DOMAIN Frames(p)
    BY <1>2, <1>5 DEF p
  <2>2. Depth(n) = Depth(Asker[p]) + 1 - k /\ Depth(Frame) = Depth(Asker[p]) + 1 - Now.frame
    BY <1>5, <1>7, <2>1
  <2>. QED  BY <1>2, <1>5, <1>6, <1>7, <2>2
<1>. QED  BY <1>4, <1>7, <1>8

\* A loop that works has a record that runs, as have those it is called under.
LEMMA LoopsRun ==
  ASSUME SpawnTree, TreeInv, ToolInv, OnceInv, RecordInv, Whole, NEW x \in Agents, at[x] # "off"
  PROVE  \A n \in OnWay(x) : record[n] = "RUNNING"
<1>. SUFFICES ASSUME NEW n \in OnWay(x) PROVE n \in Nested /\ Delegates(n)
  BY DEF RecordInv, RecordsTell
<1>1. n \in Nested
  BY WayIs
<1>2. CASE live[n] = "running"
  BY <1>1, <1>2 DEF TreeInv, Nesting, Delegates
<1>3. CASE n \in Base
  <2>1. /\ AtFrame /\ Now.park \in Parks /\ IsAsked(Now.park) /\ n \in Chain(Now.park)
    BY <1>3, BaseIs DEF OnceInv, Base
  <2>2. results[n] = 0 /\ thread # "ENDED" /\ ~Handing(n)
    BY <1>3, <2>1, BaseIsAhead DEF RecordInv, ThreadStands, AtFrame, Handing
  <2>. QED  BY <1>1, <2>1, <2>2 DEF Delegates
<1>. QED  BY <1>2, <1>3, LoopsAreCalled

\* The parks a step raises go into the box, and nothing else.
LEMMA BoxGrows ==
  ASSUME SpawnTree, TreeInv, NEW x \in Agents, NEW asked \in SUBSET CallsOf(x), Asks(x, asked)
  PROVE  \A p \in Parks : IsBoxed(p)' <=> IsBoxed(p) \/ p \in asked
<1>. DEFINE n == Cardinality(asked \cap Parks)
<1>1. PICK new \in [1..n -> asked \cap Parks] :
        (\A i, j \in DOMAIN new : i # j => new[i] # new[j]) /\ box' = box \o new
  BY DEF Asks
<1>2. IsFiniteSet(asked \cap Parks)
  BY FS_Subset DEF SpawnTree
<1>3. n \in Nat
  BY <1>2, FS_CardinalityType
<1>4. \A p \in asked \cap Parks : \E i \in 1..n : new[i] = p
  <2>1. Cardinality(1..n) = n
    <3>. HIDE DEF n
    <3>. QED  BY <1>3, FS_Interval
  <2>2. new \in Injection(1..n, asked \cap Parks)
    <3>. HIDE DEF n
    <3>. QED  BY <1>1 DEF Injection, IsInjective
  <2>3. new \in Surjection(1..n, asked \cap Parks)
    BY <1>2, <2>1, <2>2, FS_Injection
  <2>. QED  BY <2>3 DEF Surjection
<1>. HIDE DEF n
<1>5. box \in Seq(Parks) /\ new \in Seq(Parks) /\ DOMAIN new = 1..n /\ DOMAIN box = 1..Len(box) /\ Len(box) \in Nat
  BY <1>1, <1>3 DEF TreeInv, AgentsTypeOK
<1>6. /\ DOMAIN box' = 1..(Len(box) + n)
      /\ \A i \in 1..Len(box) : box'[i] = box[i]
      /\ \A i \in (Len(box) + 1)..(Len(box) + n) : box'[i] = new[i - Len(box)] /\ i - Len(box) \in 1..n
  BY <1>1, <1>3, <1>5, Joined
<1>7. \A i \in DOMAIN box' : i \in 1..Len(box) \/ i \in (Len(box) + 1)..(Len(box) + n)
  BY <1>3, <1>5, <1>6
<1>8. \A i \in 1..n : new[i] \in asked
  BY <1>1, <1>5
<1>9. ASSUME NEW p \in Parks, IsBoxed(p)' PROVE IsBoxed(p) \/ p \in asked
  BY <1>5, <1>6, <1>7, <1>8, <1>9 DEF IsBoxed
<1>10. ASSUME NEW p \in Parks, IsBoxed(p) PROVE IsBoxed(p)'
  <2>1. PICK i \in 1..Len(box) : box[i] = p
    BY <1>5, <1>10 DEF IsBoxed
  <2>2. i \in DOMAIN box' /\ box'[i] = p
    BY <1>3, <1>5, <1>6, <2>1
  <2>. QED  BY <2>2 DEF IsBoxed
<1>11. ASSUME NEW p \in Parks, p \in asked PROVE IsBoxed(p)'
  <2>1. PICK i \in 1..n : new[i] = p
    BY <1>4, <1>11
  <2>2. /\ Len(box) + i \in (Len(box) + 1)..(Len(box) + n)
        /\ (Len(box) + i) - Len(box) = i
        /\ Len(box) + i \in DOMAIN box'
    BY <1>3, <1>5, <1>6
  <2>3. box'[Len(box) + i] = p
    BY <1>6, <2>1, <2>2
  <2>. QED  BY <2>2, <2>3 DEF IsBoxed
<1>. QED  BY <1>9, <1>10, <1>11

\* A step of the loops leaves the requests alone, and the main agent where it waits.
LEMMA LoopsTell ==
  ASSUME SpawnTree, TreeInv, OnceInv, RecordInv, [Next]_vars,
         UNCHANGED <<called, results, requests, thread, worker, unwind>>,
         worker # "off",
         ParksAreBoxed', at'[Main] = "parked" <=> at[Main] = "parked",
         Whole /\ Whole' /\ at'[Main] = "parked" => box' = box,
         Whole /\ Whole' => (\A p \in Parks : IsBoxed(p)' => ~Lost(p)') /\ ParkedForSome' /\ RecordsTell'
  PROVE  RecordInv'
<1>1. \A p : IsAsked(p)' = IsAsked(p) /\ IsOpen(p)' = IsOpen(p)
  BY DEF IsAsked, IsOpen, Waiting
<1>2. ThreadStands'
  BY <1>1 DEF RecordInv, ThreadStands
<1>3. ASSUME Whole' PROVE Whole /\ MainWaits' /\ NoneHalfWay'
  <2>1. Whole
    BY <1>3, WholeBefore
  <2>2. MainWaits'
    BY <1>3, <2>1 DEF RecordInv, MainWaits
  <2>3. NoneHalfWay'
    BY <1>1, <2>1 DEF RecordInv, NoneHalfWay, Now
  <2>. QED  BY <2>1, <2>2, <2>3
<1>. QED  BY <1>2, <1>3 DEF RecordInv

\* What the model asks for: a park is in the box at once, a call has no record yet.
LEMMA AsksTells ==
  ASSUME SpawnTree, TreeInv, ToolInv, OnceInv, RecordInv,
         NEW x \in Agents, NEW asked \in SUBSET CallsOf(x), Asks(x, asked)
  PROVE  RecordInv'
<1>1. /\ at[x] = "thinking" /\ asked \subseteq Fresh(x)
      /\ at' = [at EXCEPT ![x] = "tools"]
      /\ live' = [c \in Calls |-> IF c \notin asked THEN live[c]
                                  ELSE IF c \in Parks THEN "parked" ELSE "called"]
      /\ UNCHANGED <<called, results, requests, record, thread, worker, unwind>>
  BY DEF Asks, durable
<1>2. [Next]_vars
  BY DEF Next
<1>3. worker # "off"
  BY <1>1 DEF TreeInv, AtWorkBelow
<1>4. \A c \in asked : c \in Calls /\ live[c] = "none"
  BY <1>1, OneCaller DEF Fresh
<1>5. \A c \in Calls : /\ c \notin asked => live'[c] = live[c]
                       /\ c \in asked /\ c \in Parks => live'[c] = "parked"
                       /\ c \in asked /\ c \notin Parks => live'[c] = "called"
                       /\ live[c] # "none" => live'[c] = live[c]
  BY <1>1, <1>4
<1>6. \A y \in Agents : /\ y # x => at'[y] = at[y]
                        /\ at'[y] # "off" <=> at[y] # "off"
                        /\ at'[y] = "parked" <=> at[y] = "parked"
  BY <1>1 DEF TreeInv, AgentsTypeOK
<1>7. \A p \in Parks : p \in Calls /\ (IsBoxed(p)' <=> IsBoxed(p) \/ p \in asked)
  BY BoxGrows, FramesIn
<1>8. ParksAreBoxed'
  BY <1>5, <1>7 DEF RecordInv, ParksAreBoxed
<1>9. ASSUME NEW p \in Parks, p \in asked PROVE Chain(p) = OnWay(x)
  <2>1. Asker[p] = x
    BY <1>9 DEF CallsOf, SpawnTree
  <2>. QED  BY <2>1 DEF Chain
<1>10. ASSUME Whole, NEW p \in Parks, IsBoxed(p)' PROVE ~Lost(p)'
  <2>. SUFFICES ASSUME NEW c \in Line(p) PROVE c \in called \/ live'[c] # "none"
    BY <1>1 DEF Lost
  <2>0. c \in Calls
    BY LineIs
  <2>1. CASE IsBoxed(p)
    BY <1>5, <1>10, <2>0, <2>1 DEF RecordInv, Lost
  <2>2. CASE p \in asked /\ c = p
    BY <1>5, <2>0, <2>2
  <2>3. CASE p \in asked /\ c # p
    <3>1. c \in OnWay(x)
      BY <1>9, <2>3 DEF Line
    <3>2. c \in Base \/ live[c] = "running"
      BY <1>1, <3>1, LoopsAreCalled
    <3>3. ASSUME c \in Base PROVE c \in called
      <4>1. AtFrame /\ Now.park \in Parks /\ IsAsked(Now.park) /\ c \in Chain(Now.park)
        BY <3>3, BaseIs DEF OnceInv, Base
      <4>2. c \in Line(Now.park)
        BY <4>1 DEF Line
      <4>. QED  BY <1>10, <4>1, <4>2, ApartIs DEF Whole
    <3>. QED  BY <1>5, <2>0, <3>2, <3>3
  <2>. QED  BY <1>7, <1>10, <2>1, <2>2, <2>3
<1>11. ASSUME Whole PROVE ParkedForSome'
  <2>. SUFFICES ASSUME NEW y \in Agents, at'[y] = "parked" \/ (y # Main /\ live'[y] = "parked")
                PROVE  \E p \in Parks : (y = Main \/ y \in Chain(p)) /\ (IsBoxed(p)' \/ (y = Main /\ IsAsked(p)'))
    BY DEF ParkedForSome
  <2>1. at[y] = "parked" \/ (y # Main /\ live[y] = "parked")
    <3>1. CASE at'[y] = "parked"
      BY <1>6, <3>1
    <3>2. CASE y # Main /\ live'[y] = "parked"
      <4>1. y \in Nested /\ y \in Calls /\ y \notin Parks
        BY <3>2 DEF Agents, Calls, SpawnTree
      <4>. QED  BY <1>5, <3>2, <4>1
    <3>. QED  BY <3>1, <3>2
  <2>2. PICK p \in Parks : (y = Main \/ y \in Chain(p)) /\ (IsBoxed(p) \/ (y = Main /\ IsAsked(p)))
    BY <1>11, <2>1 DEF RecordInv, ParkedForSome
  <2>. QED  BY <1>1, <1>7, <2>2 DEF IsAsked
<1>12. ASSUME Whole PROVE RecordsTell'
  <2>. SUFFICES ASSUME NEW n \in Nested PROVE record[n] = "RUNNING" <=> Delegates(n)'
    BY <1>1 DEF RecordsTell
  <2>1. record[n] = "RUNNING" <=> Delegates(n)
    BY <1>12 DEF RecordInv, RecordsTell
  <2>2. n \in Agents
    BY DEF Agents
  <2>3. \A p : IsAsked(p)' = IsAsked(p) /\ Handing(n)' = Handing(n)
    BY <1>1 DEF IsAsked, Handing, Frame, Now
  <2>4. Delegates(n) => Delegates(n)'
    BY <1>1, <1>6, <1>7, <2>2, <2>3 DEF Delegates
  <2>5. ASSUME Delegates(n)', ~Delegates(n) PROVE record[n] = "RUNNING"
    <3>1. PICK p \in Parks : n \in Chain(p) /\ p \in asked
      BY <1>1, <1>6, <1>7, <2>2, <2>3, <2>5 DEF Delegates
    <3>2. n \in OnWay(x)
      BY <1>9, <3>1
    <3>. QED  BY <1>1, <1>12, <3>2, LoopsRun
  <2>. QED  BY <2>1, <2>4, <2>5
<1>13. /\ at'[Main] = "parked" <=> at[Main] = "parked"
       /\ Whole /\ Whole' /\ at'[Main] = "parked" => box' = box
  <2>1. Main \in Agents
    BY DEF Agents
  <2>2. at[Main] = "parked" => worker = "loop" /\ x # Main
    BY <1>1, MainLoops
  <2>3. at[Main] # "parked"
    <3>. SUFFICES ASSUME at[Main] = "parked" PROVE FALSE
      OBVIOUS
    <3>1. x \in Nested /\ worker = "loop"
      BY <2>2 DEF Agents
    <3>2. PICK d \in OnWay(x) : Parent[d] = Main
      BY <3>1, WayEnds
    <3>3. d \in Nested /\ (d \in Base \/ live[d] = "running")
      BY <1>1, <3>2, LoopsAreCalled, WayIs
    <3>4. d \in CallsOf(Main) /\ live[d] = "running"
      BY <3>1, <3>2, <3>3, OneCaller DEF Base, AtFrame
    <3>. QED  BY <2>1, <3>4 DEF TreeInv, Nesting
  <2>. QED  BY <1>6, <2>1, <2>3
<1>. QED  BY <1>1, <1>2, <1>3, <1>8, <1>10, <1>11, <1>12, <1>13, LoopsTell

\* A spawn that is called moves on: refused, put in line, or into its loop.
LEMMA CallMovesTells ==
  ASSUME SpawnTree, TreeInv, ToolInv, OnceInv, RecordInv, [Next]_vars,
         NEW n \in Nested, live[n] \in {"called", "queued"},
         NEW s, s \notin {"none", "parked"}, live' = [live EXCEPT ![n] = s],
         \/ UNCHANGED <<at, record>>
         \/ at' = [at EXCEPT ![n] = "thinking"] /\ record' = [record EXCEPT ![n] = "RUNNING"],
         UNCHANGED <<called, results, requests, thread, worker, unwind, box>>
  PROVE  RecordInv'
<1>0. n \in Calls /\ n \in Agents /\ n # Main /\ n \notin Parks /\ at[Parent[n]] = "tools" /\ Parent[n] \in Agents
  BY OneCaller DEF SpawnTree, TreeInv, Nesting
<1>1. \A c \in Calls : /\ c # n => live'[c] = live[c]
                       /\ live[c] # "none" => live'[c] # "none"
                       /\ live'[c] = "parked" => live[c] = "parked"
  BY DEF TreeInv, AgentsTypeOK
<1>2. worker # "off"
  BY <1>0 DEF TreeInv, AtWorkBelow
<1>3. at[n] = "off"
  <2>. SUFFICES ASSUME at[n] # "off" PROVE FALSE
    OBVIOUS
  <2>1. AtFrame /\ n = Frame
    BY <1>0 DEF TreeInv, Nesting
  <2>. QED  BY <2>1, BaseIs DEF OnceInv
<1>4. \A y \in Agents : /\ y # n => at'[y] = at[y]
                        /\ at'[y] = "parked" <=> at[y] = "parked"
  BY <1>3 DEF TreeInv, AgentsTypeOK
<1>5. \A p : IsBoxed(p)' = IsBoxed(p) /\ IsAsked(p)' = IsAsked(p)
  BY DEF IsBoxed, IsAsked
<1>6. ParksAreBoxed'
  BY <1>1, <1>5, FramesIn DEF RecordInv, ParksAreBoxed
<1>7. ASSUME Whole, NEW p \in Parks, IsBoxed(p)' PROVE ~Lost(p)'
  <2>1. \A c \in Line(p) : c \in Calls /\ (c \in called \/ live[c] # "none")
    BY <1>5, <1>7, LineIs DEF RecordInv, Lost
  <2>. QED  BY <1>1, <2>1 DEF Lost
<1>8. ASSUME Whole PROVE ParkedForSome'
  <2>1. \A y \in Agents : at'[y] = "parked" \/ (y # Main /\ live'[y] = "parked") =>
                          at[y] = "parked" \/ (y # Main /\ live[y] = "parked")
    BY <1>1, <1>4 DEF Agents, Calls
  <2>. QED  BY <1>5, <1>8, <2>1 DEF RecordInv, ParkedForSome
<1>9. ASSUME Whole PROVE RecordsTell'
  <2>. SUFFICES ASSUME NEW m \in Nested PROVE record'[m] = "RUNNING" <=> Delegates(m)'
    BY DEF RecordsTell
  <2>1. record[m] = "RUNNING" <=> Delegates(m)
    BY <1>9 DEF RecordInv, RecordsTell
  <2>2. Handing(m)' = Handing(m)
    BY DEF Handing, Frame, Now
  <2>3. CASE UNCHANGED <<at, record>>
    BY <1>5, <2>1, <2>2, <2>3 DEF Delegates
  <2>4. CASE m # n /\ at' = [at EXCEPT ![n] = "thinking"] /\ record' = [record EXCEPT ![n] = "RUNNING"]
    <3>1. record'[m] = record[m]
      BY <2>4 DEF OnceInv, RecordsBegan
    <3>2. at'[m] = at[m]
      BY <1>4, <2>4 DEF Agents
    <3>. QED  BY <1>5, <2>1, <2>2, <3>1, <3>2 DEF Delegates
  <2>5. CASE m = n /\ at' = [at EXCEPT ![n] = "thinking"] /\ record' = [record EXCEPT ![n] = "RUNNING"]
    <3>1. record'[m] = "RUNNING"
      BY <2>5 DEF OnceInv, RecordsBegan
    <3>2. at'[m] # "off"
      BY <1>0, <2>5 DEF TreeInv, AgentsTypeOK
    <3>. QED  BY <3>1, <3>2 DEF Delegates
  <2>. QED  BY <2>3, <2>4, <2>5
<1>10. at'[Main] = "parked" <=> at[Main] = "parked"
  BY <1>4 DEF Agents
<1>. QED  BY <1>2, <1>6, <1>7, <1>8, <1>9, <1>10, LoopsTell

LEMMA SpawnTells ==
  ASSUME SpawnTree, TreeInv, ToolInv, OnceInv, RecordInv, NEW n \in Nested, Spawn(n)
  PROVE  RecordInv'
<1>1. live[n] = "called" /\ UNCHANGED <<called, results, requests, thread, worker, unwind, box>>
  BY DEF Spawn
<1>2. \/ live' = [live EXCEPT ![n] = "ok"] /\ UNCHANGED <<at, record>>
      \/ live' = [live EXCEPT ![n] = "queued"] /\ UNCHANGED <<at, record>>
      \/ /\ live' = [live EXCEPT ![n] = "running"]
         /\ at' = [at EXCEPT ![n] = "thinking"] /\ record' = [record EXCEPT ![n] = "RUNNING"]
  BY DEF Spawn, Runs, Enter
<1>3. [Next]_vars
  BY DEF Next
<1>. QED  BY <1>1, <1>2, <1>3, CallMovesTells

\* The head of a line gets the slot that is free.
LEMMA GrantedTells ==
  ASSUME SpawnTree, TreeInv, ToolInv, OnceInv, RecordInv, NEW d \in 1..MaxDepth, Granted(d), [Next]_vars
  PROVE  RecordInv'
<1>. DEFINE n == Head(line[d])
<1>1. n \in Nested /\ live[n] = "queued"
  <2>1. line[d] \in Seq(Nested) /\ line[d] # <<>>
    BY DEF TreeInv, AgentsTypeOK, Granted
  <2>2. n = line[d][1] /\ 1 \in DOMAIN line[d] /\ n \in Nested
    BY <2>1
  <2>. QED  BY <2>2 DEF TreeInv, InLine
<1>2. /\ live' = [live EXCEPT ![n] = "running"]
      /\ at' = [at EXCEPT ![n] = "thinking"] /\ record' = [record EXCEPT ![n] = "RUNNING"]
      /\ UNCHANGED <<called, results, requests, thread, worker, unwind, box>>
  BY DEF Granted, Runs, Enter
<1>. HIDE DEF n
<1>. QED  BY <1>1, <1>2, CallMovesTells

\* No park that is waited for is under a nested run that is done.
LEMMA DoneIsAlone ==
  ASSUME SpawnTree, TreeInv, OnceInv, RecordInv, Whole,
         NEW n \in Nested, at[n] \in {"done", "failed"}, live[n] = "running" \/ (AtFrame /\ n = Frame), ToolInv
  PROVE  \A p \in Parks : n \in Chain(p) => ~IsBoxed(p)
<1>. SUFFICES ASSUME NEW p \in Parks, n \in Chain(p), IsBoxed(p) PROVE FALSE
  OBVIOUS
<1>0. n \in Agents /\ n \in Calls /\ n # Main
  BY OneCaller DEF SpawnTree
<1>1. PICK c \in Line(p) : Caller(c) = n
  BY Below
<1>2. c \in CallsOf(n) /\ c \in Calls
  BY <1>1, LineIs
<1>3. live[c] = "none"
  BY <1>0, <1>2 DEF TreeInv, Nesting
<1>4. c \notin Base
  <2>. SUFFICES ASSUME c \in Base PROVE FALSE
    OBVIOUS
  <2>1. c \in Nested /\ Parent[c] = n /\ AtFrame
    BY <1>1, BaseIs DEF OnceInv, Caller, Base
  <2>2. n \in Base /\ live[n] = "none"
    BY <1>0, <2>1, BaseIs DEF OnceInv
  <2>3. n = Frame
    BY <2>2
  <2>4. c \in OnWay(Frame) /\ Frame \in Agents
    BY <2>1, BaseIs DEF OnceInv
  <2>5. Depth(c) <= Depth(Frame) /\ Depth(c) = Depth(Frame) + 1 /\ Depth(Frame) \in Nat
    BY <1>0, <2>1, <2>3, <2>4, WayUp, Deeper
  <2>. QED  BY <2>5
<1>5. ~Held(n)
  <2>1. CASE live[n] = "running"
    <3>1. n \notin called
      BY <1>0, <2>1 DEF OnceInv, LiveIsNew
    <3>. QED  BY <2>1, <3>1 DEF Held
  <2>2. CASE AtFrame /\ n = Frame
    BY <2>2, BaseIs DEF OnceInv, Held
  <2>. QED  BY <2>1, <2>2
<1>6. Alive(p)
  BY DEF OnceInv, BoxStands, RecordInv
<1>. QED  BY <1>1, <1>3, <1>4, <1>5, <1>6 DEF Alive

\* A nested run that parked keeps its record; of one that is done nothing waits.
LEMMA ReturnsTells ==
  ASSUME SpawnTree, TreeInv, ToolInv, OnceInv, RecordInv, NEW n \in Nested, Returns(n)
  PROVE  RecordInv'
<1>1. PICK s \in {"parked", "ok"} : live' = [live EXCEPT ![n] = s] /\ (at[n] = "parked" <=> s = "parked")
  BY Zenon DEF Returns
<1>2. /\ live[n] = "running" /\ at[n] \in {"parked", "done", "failed"}
      /\ at' = [at EXCEPT ![n] = "off"] /\ record' = [record EXCEPT ![n] = Closed(n)]
      /\ UNCHANGED <<called, results, requests, thread, worker, unwind, box>>
  BY DEF Returns
<1>0. n \in Calls /\ n \in Agents /\ n # Main /\ n \notin Parks /\ at[Parent[n]] = "tools" /\ Parent[n] \in Agents
  BY <1>2, OneCaller DEF SpawnTree, TreeInv, Nesting
<1>3. worker # "off" /\ [Next]_vars
  BY <1>0 DEF TreeInv, AtWorkBelow, Next
<1>4. /\ \A c \in Calls : c # n => live'[c] = live[c]
      /\ live'[n] = s
      /\ \A y \in Agents : y # n => at'[y] = at[y]
      /\ at'[n] = "off"
  BY <1>0, <1>1, <1>2 DEF TreeInv, AgentsTypeOK
<1>5. \A p : IsBoxed(p)' = IsBoxed(p) /\ IsAsked(p)' = IsAsked(p)
  BY <1>2 DEF IsBoxed, IsAsked
<1>6. ParksAreBoxed'
  BY <1>0, <1>4, <1>5, FramesIn DEF RecordInv, ParksAreBoxed
<1>7. ASSUME Whole, NEW p \in Parks, IsBoxed(p)' PROVE ~Lost(p)'
  <2>1. \A c \in Line(p) : c \in Calls /\ (c \in called \/ live[c] # "none")
    BY <1>5, <1>7, LineIs DEF RecordInv, Lost
  <2>. QED  BY <1>2, <1>4, <2>1 DEF Lost
<1>8. ASSUME Whole PROVE ParkedForSome'
  <2>1. \A y \in Agents : at'[y] = "parked" \/ (y # Main /\ live'[y] = "parked") =>
                          at[y] = "parked" \/ (y # Main /\ live[y] = "parked")
    BY <1>1, <1>4 DEF Agents, Calls
  <2>. QED  BY <1>5, <1>8, <2>1 DEF RecordInv, ParkedForSome
<1>9. ASSUME Whole PROVE RecordsTell'
  <2>. SUFFICES ASSUME NEW m \in Nested PROVE record'[m] = "RUNNING" <=> Delegates(m)'
    BY DEF RecordsTell
  <2>1. record[m] = "RUNNING" <=> Delegates(m)
    BY <1>9 DEF RecordInv, RecordsTell
  <2>2. Handing(m)' = Handing(m)
    BY <1>2 DEF Handing, Frame, Now
  <2>3. CASE m # n
    <3>1. record'[m] = record[m]
      BY <1>2, <2>3 DEF OnceInv, RecordsBegan
    <3>2. at'[m] = at[m]
      BY <1>4, <2>3 DEF Agents
    <3>. QED  BY <1>2, <1>5, <2>1, <2>2, <3>1, <3>2 DEF Delegates
  <2>4. CASE m = n /\ at[n] = "parked"
    <3>1. record'[n] = record[n] /\ record[n] = "RUNNING"
      BY <1>2, <2>1, <2>4 DEF OnceInv, RecordsBegan, Closed, Delegates
    <3>2. PICK p \in Parks : n \in Chain(p) /\ IsBoxed(p)
      BY <1>0, <1>9, <2>4 DEF RecordInv, ParkedForSome
    <3>. QED  BY <1>5, <2>4, <3>1, <3>2 DEF Delegates
  <2>5. CASE m = n /\ at[n] # "parked"
    <3>1. record'[n] # "RUNNING"
      BY <1>2, <2>5 DEF OnceInv, RecordsBegan, Closed
    <3>2. \A p \in Parks : n \in Chain(p) => ~IsBoxed(p)
      BY <1>2, <1>9, <2>5, DoneIsAlone
    <3>3. \A p \in Parks : n \in Chain(p) => ~IsAsked(p)
      BY <1>2 DEF OnceInv, RequestsAreOver, Line
    <3>. QED  BY <1>4, <1>5, <2>5, <3>1, <3>2, <3>3 DEF Delegates
  <2>. QED  BY <2>3, <2>4, <2>5
<1>10. at'[Main] = "parked" <=> at[Main] = "parked"
  BY <1>0, <1>4 DEF Agents
<1>. QED  BY <1>2, <1>3, <1>6, <1>7, <1>8, <1>9, <1>10, LoopsTell

\* The way up reaches an agent by a call that it made.
LEMMA WayBy ==
  ASSUME SpawnTree
  PROVE  \A x \in Agents : \A y \in OnWay(x) : y = x \/ \E c \in OnWay(x) : Parent[c] = y
<1>. DEFINE T == {x \in Agents : \A y \in OnWay(x) : y = x \/ \E c \in OnWay(x) : Parent[c] = y}
<1>1. Main \in T
  BY WayIs DEF Agents
<1>2. ASSUME NEW m \in Nested, Parent[m] \in T PROVE m \in T
  <2>1. m \in Agents /\ OnWay(m) = {m} \cup OnWay(Parent[m])
    BY WayIs, OneCaller
  <2>. QED  BY <1>2, <2>1
<1>. HIDE DEF T
<1>3. \A x \in Agents : x \in T
  BY <1>1, <1>2, AgentsFromMain
<1>. QED  BY <1>3 DEF T

\* Nobody loops under an agent that waits for its model.
LEMMA NobodyUnder ==
  ASSUME SpawnTree, TreeInv, ToolInv, OnceInv, NEW x \in Nested, at[x] = "thinking"
  PROVE  \A y \in Under(x) : at[y] = "off"
<1>. SUFFICES ASSUME NEW y \in Under(x), at[y] # "off" PROVE FALSE
  OBVIOUS
<1>1. y \in Agents /\ y # x /\ x \in OnWay(y) /\ x \in Agents /\ x # Main
  BY DEF Under, OnWay, Agents, SpawnTree
<1>2. PICK c \in OnWay(y) : Parent[c] = x
  BY <1>1, WayBy
<1>3. c \in Nested /\ c \in CallsOf(x) /\ Depth(c) = Depth(x) + 1 /\ Depth(x) \in Nat
  BY <1>1, <1>2, WayIs, OneCaller, Deeper
<1>4. c \in Base
  <2>1. live[c] = "none"
    BY <1>1, <1>3 DEF TreeInv, Nesting
  <2>. QED  BY <1>1, <1>2, <2>1, LoopsAreCalled
<1>5. AtFrame /\ Base = OnWay(Frame) /\ Frame \in Agents
  BY <1>4, BaseIs DEF OnceInv, Base
<1>6. Depth(c) <= Depth(Frame) /\ Depth(Frame) \in Nat
  BY <1>4, <1>5, WayUp, Deeper
<1>7. x \in Under(Frame) \cup {Frame}
  BY <1>1, <1>5 DEF TreeInv, AtWorkBelow, AtFrame
<1>8. Depth(Frame) <= Depth(x)
  <2>1. CASE x = Frame
    BY <1>6, <2>1
  <2>2. CASE x \in Under(Frame)
    <3>1. Frame \in OnWay(x)
      <4>1. Frame # Main
        BY <1>5, BaseIs DEF OnceInv, SpawnTree
      <4>. QED  BY <2>2, <4>1 DEF Under, OnWay
    <3>. QED  BY <1>1, <3>1, WayUp
  <2>. QED  BY <1>7, <2>1, <2>2
<1>. QED  BY <1>3, <1>6, <1>8

\* A nested run that fails while it waits for its model cuts nobody off.
LEMMA FailsTells ==
  ASSUME SpawnTree, TreeInv, ToolInv, OnceInv, RecordInv, NEW x \in Agents, Fails(x)
  PROVE  RecordInv'
<1>. DEFINE cut == UNION {CallsOf(y) : y \in Under(x) \cup {x}}
<1>1. /\ x # Main /\ x \in Nested /\ at[x] \in {"thinking", "tools"}
      /\ at' = [y \in Agents |-> IF y = x THEN "failed" ELSE IF y \in Under(x) THEN "off" ELSE at[y]]
      /\ live' = [c \in Calls |-> IF c \in cut THEN "none" ELSE live[c]]
      /\ record' = CutRecords(x)
      /\ lost' = (lost \/ at[x] = "tools")
      /\ UNCHANGED <<called, results, requests, thread, worker, unwind, box>>
  BY DEF Fails, Agents
<1>2. worker # "off" /\ [Next]_vars
  BY <1>1 DEF TreeInv, AtWorkBelow, Next
<1>3. \A p : IsBoxed(p)' = IsBoxed(p) /\ IsAsked(p)' = IsAsked(p)
  BY <1>1 DEF IsBoxed, IsAsked
<1>4. ParksAreBoxed'
  <2>1. \A p \in Parks : p \in Calls /\ (live'[p] = "parked" => live[p] = "parked")
    <3>. HIDE DEF cut
    <3>. QED  BY <1>1, FramesIn
  <2>. QED  BY <1>3, <2>1 DEF RecordInv, ParksAreBoxed
<1>5. at'[Main] = at[Main]
  BY <1>1 DEF Under, Agents, SpawnTree
<1>6. Whole' => at[x] = "thinking"
  BY <1>1 DEF Whole
<1>7. ASSUME at[x] = "thinking"
      PROVE  /\ \A c \in Calls : live'[c] = live[c]
             /\ \A y \in Agents : y # x => at'[y] = at[y]
             /\ at'[x] = "failed"
             /\ \A n \in Nested : record'[n] = record[n]
  <2>1. \A y \in Under(x) : at[y] = "off" /\ y \in Nested /\ y \in Agents
    BY <1>1, <1>7, NobodyUnder DEF Under, Agents
  <2>2. \A c \in cut : live[c] = "none"
    BY <1>1, <1>7, <2>1 DEF TreeInv, Nesting
  <2>3. \A y \in Agents : y # x => at'[y] = at[y]
    BY <1>1, <2>1
  <2>4. at'[x] = "failed"
    BY <1>1
  <2>5. \A n \in Nested : record'[n] = record[n]
    BY <1>1, <2>1 DEF CutRecords, TreeInv, Nesting
  <2>. HIDE DEF cut
  <2>6. \A c \in Calls : live'[c] = live[c]
    BY <1>1, <2>2
  <2>. QED  BY <2>3, <2>4, <2>5, <2>6
<1>. HIDE DEF cut
<1>8. ASSUME Whole, at[x] = "thinking", NEW p \in Parks, IsBoxed(p)' PROVE ~Lost(p)'
  BY <1>1, <1>3, <1>7, <1>8, LineIs DEF RecordInv, Lost
<1>9. ASSUME Whole, at[x] = "thinking" PROVE ParkedForSome'
  <2>1. \A y \in Agents : at'[y] = "parked" \/ (y # Main /\ live'[y] = "parked") =>
                          at[y] = "parked" \/ (y # Main /\ live[y] = "parked")
    BY <1>7, <1>9 DEF Agents, Calls
  <2>. QED  BY <1>3, <1>9, <2>1 DEF RecordInv, ParkedForSome
<1>10. ASSUME Whole, at[x] = "thinking" PROVE RecordsTell'
  <2>. SUFFICES ASSUME NEW n \in Nested PROVE record[n] = "RUNNING" <=> Delegates(n)'
    BY <1>7, <1>10 DEF RecordsTell
  <2>1. record[n] = "RUNNING" <=> Delegates(n)
    BY <1>10 DEF RecordInv, RecordsTell
  <2>2. Handing(n)' = Handing(n)
    BY <1>1 DEF Handing, Frame, Now
  <2>3. at'[n] # "off" <=> at[n] # "off"
    BY <1>7, <1>10 DEF Agents
  <2>. QED  BY <1>1, <1>3, <2>1, <2>2, <2>3 DEF Delegates
<1>. QED  BY <1>1, <1>2, <1>4, <1>5, <1>6, <1>8, <1>9, <1>10, LoopsTell

\* When a step is saved its agent has parked if a call of it had, and then there is a park under it.
LEMMA SavedParks ==
  ASSUME SpawnTree, TreeInv, OnceInv, RecordInv, NEW x \in Agents, SavesTools(x) \/ Answers(x)
  PROVE  /\ at'[x] = "parked" <=> \E c \in InStep(x) : live[c] = "parked"
         /\ Whole /\ at'[x] = "parked" => \E p \in Parks : (x = Main \/ x \in Chain(p)) /\ IsBoxed(p)
         /\ thread' = IF x = Main /\ box # <<>> THEN "WAITING_FOR_INPUT" ELSE thread
<1>1. PICK finish \in {"tool-calls", "stop"} : Saved(x, finish)
  BY DEF SavesTools, Answers
<1>2. PICK s \in {"parked", "done", "thinking"} :
        at' = [at EXCEPT ![x] = s] /\ ((\E c \in InStep(x) : live[c] = "parked") <=> s = "parked")
  BY <1>1, Zenon DEF Saved
<1>3. at'[x] = s
  BY <1>2 DEF TreeInv, AgentsTypeOK
<1>4. thread' = IF x = Main /\ box # <<>> THEN "WAITING_FOR_INPUT" ELSE thread
  BY <1>1, Zenon DEF Saved, Committed
<1>5. ASSUME Whole, NEW c \in InStep(x), live[c] = "parked"
      PROVE  \E p \in Parks : (x = Main \/ x \in Chain(p)) /\ IsBoxed(p)
  <2>1. c \in CallsOf(x)
    BY DEF InStep
  <2>2. CASE c \in Parks
    <3>1. IsBoxed(c) /\ Asker[c] = x
      BY <1>5, <2>1, <2>2 DEF RecordInv, ParksAreBoxed, CallsOf, SpawnTree
    <3>2. x # Main => x \in Chain(c)
      BY <3>1, WayIs DEF Chain, Agents
    <3>. QED  BY <2>2, <3>1, <3>2
  <2>3. CASE c \in Nested
    <3>1. c \in Agents /\ c # Main /\ Parent[c] = x
      BY <2>1, <2>3, OneCaller DEF SpawnTree
    <3>2. PICK p \in Parks : c \in Chain(p) /\ IsBoxed(p)
      BY <1>5, <3>1 DEF RecordInv, ParkedForSome
    <3>3. x = Main \/ x \in Chain(p)
      BY <3>1, <3>2, LineIs, WayUp DEF Chain
    <3>. QED  BY <3>2, <3>3
  <2>. QED  BY <2>1, <2>2, <2>3 DEF CallsOf
<1>. QED  BY <1>2, <1>3, <1>4, <1>5

\* A step of a nested run is saved: what parked in it is still in the box.
LEMMA NestedSavedTells ==
  ASSUME SpawnTree, TreeInv, ToolInv, OnceInv, RecordInv, NEW x \in Agents, x # Main, SavesTools(x) \/ Answers(x)
  PROVE  RecordInv'
<1>1. /\ \A c \in InStep(x) : live'[c] = "none" /\ c \in called'
      /\ \A c \in Calls : c \notin InStep(x) =>
           live'[c] = live[c] /\ results'[c] = results[c] /\ (c \in called' <=> c \in called)
      /\ \A y \in Agents : (at'[y] # "off" <=> at[y] # "off") /\ (y # x => at'[y] = at[y])
      /\ at[x] \in {"thinking", "tools"}
      /\ called' = called \cup InStep(x)
      /\ Committed(x = Main)
      /\ UNCHANGED <<record, worker, unwind>>
  BY SavedIs
<1>2. requests' = requests /\ box' = box /\ thread' = thread
  BY <1>1 DEF Committed
<1>3. \A p : IsAsked(p)' = IsAsked(p) /\ IsBoxed(p)' = IsBoxed(p)
  BY <1>2 DEF IsAsked, IsBoxed
<1>4. [Next]_vars
  BY DEF Next
<1>5. ASSUME NEW p \in Parks, IsAsked(p), NEW c \in Line(p) PROVE results'[c] = results[c]
  <2>1. c \in Calls /\ c \notin InStep(x)
    BY <1>5, LineIs DEF OnceInv, RequestsAreOver, InStep
  <2>. QED  BY <1>1, <2>1
<1>6. \A p \in Parks : IsAsked(p) => IsOpen(p)' = IsOpen(p) /\ results'[p] = results[p]
  <2>1. \A p \in Parks : p \in Line(p) /\ \A k \in DOMAIN Frames(p) : Frames(p)[k] \in Line(p)
    BY LineIs DEF Line
  <2>. QED  BY <1>5, <2>1 DEF IsOpen, Waiting
<1>7. ParksAreBoxed'
  <2>1. \A p \in Parks : live'[p] = "parked" => live[p] = "parked"
    BY <1>1, FramesIn
  <2>. QED  BY <1>3, <2>1 DEF RecordInv, ParksAreBoxed
<1>8. ThreadStands'
  BY <1>1, <1>2, <1>3, <1>6 DEF RecordInv, ThreadStands
<1>9. ASSUME Whole, NEW p \in Parks, IsBoxed(p)' PROVE ~Lost(p)'
  <2>1. \A c \in Line(p) : c \in Calls /\ (c \in called \/ live[c] # "none")
    BY <1>3, <1>9, LineIs DEF RecordInv, Lost
  <2>2. \A c \in Line(p) : c \in called' \/ live'[c] # "none"
    BY <1>1, <2>1
  <2>. QED  BY <2>2 DEF Lost
<1>10. ASSUME Whole PROVE MainWaits'
  <2>1. at'[Main] = at[Main]
    BY <1>1 DEF Agents
  <2>. QED  BY <1>1, <1>2, <1>10, <2>1 DEF RecordInv, MainWaits
<1>11. ASSUME Whole PROVE ParkedForSome'
  <2>. SUFFICES ASSUME NEW y \in Agents, at'[y] = "parked" \/ (y # Main /\ live'[y] = "parked")
                PROVE  \E p \in Parks : (y = Main \/ y \in Chain(p)) /\ (IsBoxed(p) \/ (y = Main /\ IsAsked(p)))
    BY <1>3 DEF ParkedForSome
  <2>1. CASE y = x /\ at'[y] = "parked"
    BY <1>11, <2>1, SavedParks
  <2>2. CASE ~(y = x /\ at'[y] = "parked")
    <3>1. y # Main => y \in Calls
      BY DEF Agents, Calls
    <3>2. at[y] = "parked" \/ (y # Main /\ live[y] = "parked")
      BY <1>1, <2>2, <3>1
    <3>. QED  BY <1>11, <3>2 DEF RecordInv, ParkedForSome
  <2>. QED  BY <2>1, <2>2
<1>12. ASSUME Whole PROVE NoneHalfWay'
  BY <1>1, <1>3, <1>6, <1>12 DEF RecordInv, NoneHalfWay, Now
<1>13. ASSUME Whole PROVE RecordsTell'
  <2>. SUFFICES ASSUME NEW n \in Nested PROVE record[n] = "RUNNING" <=> Delegates(n)'
    BY <1>1 DEF RecordsTell
  <2>1. record[n] = "RUNNING" <=> Delegates(n)
    BY <1>13 DEF RecordInv, RecordsTell
  <2>2. Handing(n)' = Handing(n)
    BY <1>1 DEF Handing, Frame, Now
  <2>3. at'[n] # "off" <=> at[n] # "off"
    BY <1>1 DEF Agents
  <2>4. \A p \in Parks : n \in Chain(p) /\ IsAsked(p) => results'[n] = results[n]
    BY <1>5 DEF Line
  <2>. QED  BY <1>2, <1>3, <2>1, <2>2, <2>3, <2>4 DEF Delegates
<1>. QED  BY <1>4, <1>7, <1>8, <1>9, <1>10, <1>11, <1>12, <1>13, WholeBefore DEF RecordInv

\* The main agent's step is saved, and the box is written as the requests it holds.
LEMMA MainSavedTells ==
  ASSUME SpawnTree, TreeInv, ToolInv, OnceInv, RecordInv, SavesTools(Main) \/ Answers(Main)
  PROVE  RecordInv'
<1>0. Main \in Agents /\ [Next]_vars
  BY DEF Agents, Next
<1>1. /\ \A c \in InStep(Main) : live'[c] = "none" /\ live[c] \in {"parked", "ok"}
      /\ \A c \in Calls : c \notin InStep(Main) => live'[c] = live[c] /\ results'[c] = results[c]
      /\ \A y \in Agents : (at'[y] # "off" <=> at[y] # "off") /\ (y # Main => at'[y] = at[y])
      /\ at[Main] \in {"thinking", "tools"}
      /\ Committed(Main = Main)
      /\ UNCHANGED <<record, worker, unwind>>
  BY <1>0, SavedIs
<1>2. /\ Base = {} /\ worker = "loop"
      /\ \A c \in Calls : live[c] # "none" => c \in InStep(Main)
  <2>1. \A c \in InStep(Main) : live[c] # "running"
    BY <1>1
  <2>. QED  BY <1>1, <2>1, MainIsLast
<1>3. \A c \in Calls : live'[c] = "none"
  BY <1>1, <1>2
<1>4. /\ box' = <<>> /\ \A p : ~IsBoxed(p)'
      /\ \A p \in Parks : IsAsked(p)' <=> IsAsked(p) \/ IsBoxed(p)
      /\ box = <<>> => requests' = requests
      /\ \A p : IsBoxed(p) => box # <<>>
  <2>1. \/ requests' = requests \o box /\ box' = <<>> /\ box # <<>>
        \/ UNCHANGED <<requests, box>> /\ box = <<>>
    BY <1>1 DEF Committed
  <2>2. CASE requests' = requests \o box /\ box' = <<>> /\ box # <<>>
    BY <2>2, WrittenIs DEF IsBoxed
  <2>3. CASE UNCHANGED <<requests, box>> /\ box = <<>>
    BY <2>3 DEF IsBoxed, IsAsked
  <2>. QED  BY <2>1, <2>2, <2>3
<1>5. thread' = IF box # <<>> THEN "WAITING_FOR_INPUT" ELSE thread
  BY <1>0, SavedParks
<1>6. ASSUME NEW p \in Parks, IsAsked(p), NEW c \in Line(p) PROVE results'[c] = results[c]
  <2>1. c \in Calls /\ c \notin InStep(Main)
    BY <1>6, LineIs DEF OnceInv, RequestsAreOver, InStep
  <2>. QED  BY <1>1, <2>1
<1>7. \A p \in Parks : IsAsked(p) => IsOpen(p)' = IsOpen(p) /\ results'[p] = results[p]
  <2>1. \A p \in Parks : p \in Line(p) /\ \A k \in DOMAIN Frames(p) : Frames(p)[k] \in Line(p)
    BY LineIs DEF Line
  <2>. QED  BY <1>6, <2>1 DEF IsOpen, Waiting
<1>8. ParksAreBoxed'
  BY <1>3, FramesIn DEF ParksAreBoxed
<1>9. ThreadStands'
  <2>1. thread' # "ENDED" /\ thread' \in {"RUNNING", "WAITING_FOR_INPUT", "ENDED"}
    BY <1>2, <1>5 DEF RecordInv, ThreadStands
  <2>2. thread' = "RUNNING" => box = <<>> /\ thread = "RUNNING" /\ \A p \in Parks : IsAsked(p)' = IsAsked(p)
    BY <1>4, <1>5 DEF IsAsked
  <2>3. thread' = "RUNNING" => \A p \in Parks : IsAsked(p)' => ~IsOpen(p)'
    BY <1>7, <2>2 DEF RecordInv, ThreadStands
  <2>. QED  BY <2>1, <2>3 DEF ThreadStands
<1>10. ASSUME Whole, NEW p \in Parks, IsBoxed(p) PROVE at'[Main] = "parked"
  <2>0. PICK c \in Line(p) : c \notin Base /\ (Caller(c) = Main \/ Caller(c) \in Base)
    BY <1>10, BaseIs, Exit DEF OnceInv
  <2>1. Caller(c) = Main
    BY <1>2, <2>0
  <2>2. c \in Calls /\ Caller(c) = Main
    BY <2>0, <2>1, LineIs
  <2>3. Alive(p)
    BY <1>10 DEF OnceInv, BoxStands, RecordInv
  <2>4. live[c] \in {"running", "parked"}
    BY <1>1, <1>2, <2>0, <2>2, <2>3 DEF Alive, Held
  <2>5. c \in InStep(Main) /\ live[c] = "parked"
    BY <1>1, <1>2, <2>2, <2>4
  <2>. QED  BY <1>0, <2>5, SavedParks
<1>11. ASSUME Whole PROVE (at'[Main] = "parked" <=> \E p \in Parks : IsBoxed(p)) /\ (box # <<>> => \E p \in Parks : IsBoxed(p))
  <2>1. box # <<>> => \E p \in Parks : IsBoxed(p)
    <3>1. \A S : box \in Seq(S) /\ box # <<>> => 1 \in DOMAIN box /\ box[1] \in S
      OBVIOUS
    <3>. QED  BY <3>1 DEF TreeInv, AgentsTypeOK, IsBoxed
  <2>2. at'[Main] = "parked" => \E p \in Parks : IsBoxed(p)
    BY <1>0, <1>11, SavedParks
  <2>. QED  BY <1>10, <1>11, <2>1, <2>2
<1>12. ASSUME Whole PROVE MainWaits'
  <2>1. thread = "RUNNING"
    BY <1>1, <1>2, <1>12 DEF RecordInv, ThreadStands, MainWaits
  <2>2. thread' = "WAITING_FOR_INPUT" <=> at'[Main] = "parked"
    BY <1>4, <1>5, <1>11, <1>12, <2>1
  <2>. QED  BY <1>4, <2>2 DEF MainWaits
<1>13. ASSUME Whole PROVE ParkedForSome'
  <2>. SUFFICES ASSUME NEW y \in Agents, at'[y] = "parked" \/ (y # Main /\ live'[y] = "parked")
                PROVE  \E p \in Parks : (y = Main \/ y \in Chain(p)) /\ (IsBoxed(p)' \/ (y = Main /\ IsAsked(p)'))
    BY DEF ParkedForSome
  <2>1. at'[y] = "parked"
    BY <1>3 DEF Agents, Calls
  <2>2. CASE y = Main
    BY <1>4, <1>11, <1>13, <2>1, <2>2
  <2>3. CASE y # Main
    <3>1. y \in Nested /\ at[y] # "off" /\ y \in Calls
      BY <1>1, <2>1, <2>3 DEF Agents, Calls
    <3>2. live[y] = "running"
      BY <1>2, <3>1 DEF TreeInv, Nesting, AtFrame
    <3>. QED  BY <1>1, <1>2, <3>1, <3>2
  <2>. QED  BY <2>2, <2>3
<1>14. ASSUME Whole, Whole' PROVE NoneHalfWay'
  <2>. SUFFICES ASSUME NEW p \in Parks, IsAsked(p)', IsOpen(p)' PROVE results'[p] = 0
    BY DEF NoneHalfWay
  <2>1. CASE IsAsked(p)
    BY <1>2, <1>7, <1>14, <2>1 DEF RecordInv, NoneHalfWay
  <2>2. CASE ~IsAsked(p)
    BY <1>14, <2>2, MainWrites, LineIs DEF Whole
  <2>. QED  BY <2>1, <2>2
<1>15. ASSUME Whole, Whole' PROVE RecordsTell'
  <2>. SUFFICES ASSUME NEW n \in Nested PROVE record[n] = "RUNNING" <=> Delegates(n)'
    BY <1>1 DEF RecordsTell
  <2>1. record[n] = "RUNNING" <=> Delegates(n)
    BY <1>15 DEF RecordInv, RecordsTell
  <2>2. ~Handing(n) /\ ~Handing(n)' /\ thread # "ENDED" /\ thread' # "ENDED"
    BY <1>1, <1>2, <1>5 DEF Handing, RecordInv, ThreadStands
  <2>3. at'[n] # "off" <=> at[n] # "off"
    BY <1>1 DEF Agents
  <2>4. \A p \in Parks : n \in Chain(p) /\ IsAsked(p) => results'[n] = results[n]
    BY <1>6 DEF Line
  <2>5. \A p \in Parks : n \in Chain(p) /\ IsAsked(p)' /\ ~IsAsked(p) => results'[n] = 0
    BY <1>15, MainWrites DEF Line, Whole
  <2>6. Delegates(n) => Delegates(n)'
    <3>1. \A p \in Parks : n \in Chain(p) /\ IsBoxed(p) /\ IsAsked(p) => results[n] = 0
      <4>1. \A p \in Parks : IsBoxed(p) => ~IsAsked(p)
        BY DEF IsBoxed, IsAsked, ToolInv, AskedOnce
      <4>. QED  BY <4>1
    <3>. QED  BY <1>4, <2>2, <2>3, <2>4, <2>5, <3>1 DEF Delegates
  <2>7. Delegates(n)' => Delegates(n)
    BY <1>4, <2>2, <2>3, <2>4 DEF Delegates
  <2>. QED  BY <2>1, <2>6, <2>7
<1>16. Whole' => Whole
  BY <1>0, WholeBefore
<1>. QED  BY <1>4, <1>8, <1>9, <1>12, <1>13, <1>14, <1>15, <1>16 DEF RecordInv

\* The main agent's loop is over: whoever is RUNNING is above a request.
LEMMA EndsTells ==
  ASSUME SpawnTree, TreeInv, ToolInv, OnceInv, RecordInv, Ends
  PROVE  RecordInv'
<1>1. /\ worker = "loop" /\ at[Main] \in {"parked", "done"}
      /\ thread' = IF at[Main] = "done" THEN "ENDED" ELSE thread
      /\ worker' = "off" /\ at' = [x \in Agents |-> "off"] /\ live' = None /\ box' = <<>>
      /\ UNCHANGED <<record, results, requests>>
  BY DEF Ends, Gone
<1>2. Whole' => Whole
  BY WholeBefore DEF Next
<1>3. /\ \A c \in Calls : live'[c] = "none"
      /\ \A p : ~IsBoxed(p)' /\ IsAsked(p)' = IsAsked(p) /\ IsOpen(p)' = IsOpen(p)
  BY <1>1 DEF None, IsBoxed, IsAsked, IsOpen, Waiting
<1>4. ParksAreBoxed'
  BY <1>3, FramesIn DEF ParksAreBoxed
<1>5. ThreadStands'
  BY <1>1, <1>3 DEF RecordInv, ThreadStands
<1>6. MainWaits'
  BY <1>1 DEF MainWaits
<1>7. ParkedForSome'
  <2>1. \A y \in Agents : at'[y] # "parked" /\ (y # Main => live'[y] # "parked")
    BY <1>1, <1>3 DEF Agents, Calls
  <2>. QED  BY <2>1 DEF ParkedForSome
<1>8. Whole => NoneHalfWay'
  BY <1>1, <1>3 DEF RecordInv, NoneHalfWay
<1>9. Main \in Agents /\ Base = {}
  BY <1>1 DEF Agents, Base, AtFrame
<1>10. \A n \in Nested : at[n] = "off"
  <2>. SUFFICES ASSUME NEW n \in Nested, at[n] # "off" PROVE FALSE
    OBVIOUS
  <2>1. PICK d \in OnWay(n) : Parent[d] = Main
    BY WayEnds
  <2>2. d \in Nested /\ live[d] = "running"
    BY <1>9, <2>1, LoopsAreCalled, WayIs DEF Agents
  <2>3. d \in CallsOf(Main)
    BY <2>1, <2>2, OneCaller
  <2>. QED  BY <1>1, <1>9, <2>2, <2>3 DEF TreeInv, Nesting
<1>11. Whole => \A p \in Parks : ~IsBoxed(p)
  <2>1. CASE at[Main] = "parked"
    <3>1. Whole => box = <<>>
      BY <1>1, <2>1 DEF RecordInv, MainWaits
    <3>. QED  BY <3>1 DEF IsBoxed
  <2>2. CASE at[Main] = "done"
    <3>1. \A x \in Agents : at[x] \notin {"parked", "tools"}
      BY <1>10, <2>2 DEF Agents
    <3>. QED  BY <3>1, NobodyBoxed
  <2>. QED  BY <1>1, <2>1, <2>2
<1>12. ASSUME Whole PROVE RecordsTell'
  <2>. SUFFICES ASSUME NEW n \in Nested PROVE record[n] = "RUNNING" <=> Delegates(n)'
    BY <1>1 DEF RecordsTell
  <2>1. record[n] = "RUNNING" <=> Delegates(n)
    BY <1>12 DEF RecordInv, RecordsTell
  <2>2. ~Handing(n) /\ ~Handing(n)' /\ thread # "ENDED" /\ at'[n] = "off" /\ at[n] = "off"
    BY <1>1, <1>10 DEF Handing, RecordInv, ThreadStands, Agents
  <2>3. CASE at[Main] = "parked"
    BY <1>1, <1>3, <1>11, <1>12, <2>1, <2>2, <2>3 DEF Delegates
  <2>4. CASE at[Main] = "done"
    <3>1. thread = "RUNNING" /\ thread' = "ENDED"
      BY <1>1, <1>12, <2>4 DEF RecordInv, ThreadStands, MainWaits
    <3>2. \A p \in Parks : n \in Chain(p) /\ IsAsked(p) => results[n] # 0
      <4>. SUFFICES ASSUME NEW p \in Parks, n \in Chain(p), IsAsked(p) PROVE results[n] # 0
        OBVIOUS
      <4>1. ~IsOpen(p)
        BY <3>1 DEF RecordInv, ThreadStands
      <4>2. PICK k \in DOMAIN Frames(p) : Frames(p)[k] = n
        BY LineIs
      <4>. QED  BY <4>1, <4>2 DEF IsOpen, Waiting
    <3>. QED  BY <1>3, <1>11, <1>12, <2>1, <2>2, <3>1, <3>2 DEF Delegates
  <2>. QED  BY <1>1, <2>3, <2>4
<1>. QED  BY <1>2, <1>3, <1>4, <1>5, <1>6, <1>7, <1>8, <1>12 DEF RecordInv

\* A cut: the run is whole no more.
LEMMA CutTells ==
  ASSUME SpawnTree, TreeInv, RecordInv, Dies \/ MainFails \/ StopsLoop
  PROVE  RecordInv'
<1>1. /\ lost' = TRUE /\ worker' = "off" /\ live' = None
      /\ thread' = thread \/ thread' = "ENDED"
      /\ UNCHANGED <<results, requests>>
  BY DEF Dies, MainFails, StopsLoop, Gone, durable
<1>2. ~Whole'
  BY <1>1 DEF Whole
<1>3. \A c \in Calls : live'[c] = "none"
  BY <1>1 DEF None
<1>4. \A p : IsAsked(p)' = IsAsked(p) /\ IsOpen(p)' = IsOpen(p)
  BY <1>1 DEF IsAsked, IsOpen, Waiting
<1>5. ParksAreBoxed' /\ ThreadStands'
  BY <1>1, <1>3, <1>4, FramesIn DEF RecordInv, ParksAreBoxed, ThreadStands
<1>. QED  BY <1>2, <1>5 DEF RecordInv

\* What parks again shares its nested run with the request that was unwound.
LEMMA ParksAgainTells ==
  ASSUME SpawnTree, TreeInv, ToolInv, OnceInv, RecordInv, ParksAgain
  PROVE  RecordInv'
<1>1. /\ AtFrame /\ at[Frame] = "parked"
      /\ requests' = requests \o box
      /\ worker' = "off" /\ live' = None
      /\ thread' = thread
  BY DEF ParksAgain, Gone
<1>2. \A c \in Calls : live'[c] = "none"
  BY <1>1 DEF None
<1>3. thread # "RUNNING" /\ thread # "ENDED"
  BY <1>1 DEF ToolInv, UnwindIsOpen, RecordInv, ThreadStands, AtFrame
<1>4. ParksAreBoxed' /\ ThreadStands'
  BY <1>1, <1>2, <1>3, FramesIn DEF RecordInv, ParksAreBoxed, ThreadStands
<1>5. ASSUME Whole' PROVE FALSE
  <2>1. Whole
    BY <1>5, WholeBefore DEF Next
  <2>2. \A p \in Parks : IsAsked(p)' <=> IsAsked(p) \/ IsBoxed(p)
    BY <1>1, WrittenIs
  <2>3. PICK q \in Parks : IsAsked(q) /\ Frame \in Chain(q)
    BY <1>1, BaseIs DEF OnceInv
  <2>4. Frame \in Agents /\ Frame # Main
    BY <2>3, LineIs DEF SpawnTree, Agents
  <2>5. PICK p \in Parks : Frame \in Chain(p) /\ IsBoxed(p)
    BY <1>1, <2>1, <2>4 DEF RecordInv, ParkedForSome
  <2>6. p # q
    BY <2>3, <2>5 DEF IsBoxed, IsAsked, ToolInv, AskedOnce
  <2>7. Chain(p) \cap Chain(q) = {}
    BY <1>5, <2>2, <2>3, <2>5, <2>6, ApartThen DEF Whole
  <2>. QED  BY <2>3, <2>5, <2>7
<1>. QED  BY <1>4, <1>5 DEF RecordInv
---------------------------------------------------------------------------
(* While nobody waits the box is empty, and a record runs for a loop or for a request. *)
UnderAsked(n) == \E p \in Parks : n \in Chain(p) /\ IsAsked(p)
Waits(n) == UnderAsked(n) /\ results[n] = 0 /\ thread # "ENDED" /\ ~Handing(n)

\* What a record says then, before a step.
LEMMA LullTold ==
  ASSUME SpawnTree, TreeInv, ToolInv, OnceInv, RecordInv, Whole, \A x \in Agents : at[x] \notin {"parked", "tools"}
  PROVE  \A n \in Nested : record[n] = "RUNNING" <=> at[n] # "off" \/ Waits(n)
<1>1. \A p \in Parks : ~IsBoxed(p)
  BY NobodyBoxed
<1>. QED  BY <1>1 DEF RecordInv, RecordsTell, Delegates, Waits, UnderAsked

\* A step that starts or resumes a run, or unwinds it, needs to tell no more than that.
LEMMA LullTells ==
  ASSUME SpawnTree, TreeInv, ToolInv, OnceInv, RecordInv, [Next]_vars,
         \A x \in Agents : at[x] \notin {"parked", "tools"},
         \A x \in Agents : at'[x] \notin {"parked", "tools"},
         UNCHANGED <<live, box, called, requests>>,
         thread' = thread \/ thread' = "RUNNING", thread' = "ENDED" => worker' = "off",
         \A p \in Parks : IsOpen(p)' => IsOpen(p),
         thread' = "RUNNING" => \A p \in Parks : IsAsked(p) => ~IsOpen(p),
         worker' = "loop" => thread' = "RUNNING",
         Whole => /\ NoneHalfWay'
                  /\ \A n \in Nested : record'[n] = "RUNNING" <=> at'[n] # "off" \/ Waits(n)'
  PROVE  RecordInv'
<1>1. Whole' => Whole
  BY WholeBefore
<1>2. \A c \in Calls : live'[c] = "none"
  BY NoneIsLive
<1>3. /\ \A p : IsAsked(p)' = IsAsked(p) /\ IsBoxed(p)' = IsBoxed(p)
      /\ \A n : UnderAsked(n)' = UnderAsked(n)
  BY DEF IsAsked, IsBoxed, UnderAsked
<1>4. Whole => \A p \in Parks : ~IsBoxed(p)'
  BY <1>3, NobodyBoxed
<1>5. ParksAreBoxed'
  BY <1>2, FramesIn DEF ParksAreBoxed
<1>6. ThreadStands'
  BY <1>3 DEF RecordInv, ThreadStands
<1>7. Main \in Agents /\ Nested \subseteq Calls
  BY DEF Agents, Calls
<1>8. MainWaits'
  <2>1. at'[Main] # "parked"
    BY <1>7
  <2>. QED  BY <2>1 DEF MainWaits
<1>9. ParkedForSome'
  <2>1. \A y \in Agents : y # Main => y \in Calls
    BY DEF Agents, Calls
  <2>2. \A y \in Agents : at'[y] # "parked" /\ (y # Main => live'[y] # "parked")
    BY <1>2, <2>1
  <2>. QED  BY <2>2 DEF ParkedForSome
<1>10. Whole => RecordsTell'
  BY <1>3, <1>4 DEF RecordsTell, Delegates, Waits, UnderAsked
<1>. QED  BY <1>1, <1>4, <1>5, <1>6, <1>8, <1>9, <1>10 DEF RecordInv

\* A run that starts its main loop, and one that takes up its open requests.
LEMMA StartsTell ==
  ASSUME SpawnTree, TreeInv, ToolInv, OnceInv, RecordInv, Begins \/ Resumes \/ Unwound
  PROVE  RecordInv'
<1>1. /\ UNCHANGED <<called, results, requests, live, box, record>>
      /\ \A n \in Nested : at'[n] = at[n]
      /\ at'[Main] \in {at[Main], "done", "thinking"}
  <2>1. UNCHANGED <<called, results, requests, live, box, record>>
    BY Zenon DEF Begins, Resumes, Unwound, durable
  <2>2. at' = at \/ at' = [at EXCEPT ![Main] = "thinking"] \/ at' = [at EXCEPT ![Main] = "done"]
    BY Zenon DEF Begins, Resumes, Unwound, StartLoop
  <2>3. Main \in Agents /\ Main \notin Nested /\ at \in [Agents -> LoopStates]
    BY DEF TreeInv, AgentsTypeOK, Agents, SpawnTree
  <2>4. (\A n \in Nested : at'[n] = at[n]) /\ at'[Main] \in {at[Main], "done", "thinking"}
    BY <2>2, <2>3 DEF Agents
  <2>. QED  BY <2>1, <2>4, Zenon
<1>2. \A x \in Agents : at[x] = "off"
  <2>1. CASE Begins \/ Resumes
    BY <2>1 DEF Begins, Resumes, TreeInv, AtWorkBelow
  <2>2. CASE Unwound
    <3>1. worker = "unwind" /\ ~AtFrame
      BY <2>2 DEF Unwound, AtFrame
    <3>. QED  BY <3>1, NobodyLoops
  <2>. QED  BY <2>1, <2>2
<1>3. \A x \in Agents : at'[x] \notin {"parked", "tools"}
  BY <1>1, <1>2 DEF Agents
<1>4. \A p : IsOpen(p)' = IsOpen(p) /\ IsAsked(p)' = IsAsked(p)
  BY <1>1 DEF IsOpen, Waiting, IsAsked
<1>5. ASSUME Unwound PROVE \A p \in Parks : IsAsked(p) => ~IsOpen(p)
  <2>1. worker = "unwind" /\ unwind = <<>>
    BY <1>5 DEF Unwound
  <2>. QED  BY <2>1 DEF ToolInv, UnwindIsOpen, IsAsked
<1>6. /\ thread' = thread \/ thread' = "RUNNING"
      /\ worker' = "loop" => thread' = "RUNNING"
      /\ thread' # "ENDED"
  BY Zenon DEF Begins, Resumes, Unwound, durable
<1>7. thread' = "RUNNING" => \A p \in Parks : IsAsked(p) => ~IsOpen(p)
  <2>1. CASE Begins
    BY <2>1 DEF Begins, RecordInv, ThreadStands
  <2>2. CASE Resumes
    BY <2>2 DEF Resumes, durable
  <2>. QED  BY <1>5, <2>1, <2>2
<1>8. Whole => NoneHalfWay'
  <2>. SUFFICES ASSUME Whole, NEW p \in Parks, IsAsked(p), IsOpen(p) PROVE results[p] = 0
    BY <1>1, <1>4 DEF NoneHalfWay
  <2>1. worker # "unwind" \/ unwind = <<>>
    BY Zenon DEF Begins, Resumes, Unwound
  <2>. QED  BY <2>1 DEF RecordInv, NoneHalfWay
<1>9. \A n : ~Handing(n) /\ ~Handing(n)'
  <2>1. \A n : ~Handing(n)
    <3>1. (worker # "unwind" \/ unwind = <<>>)
      BY Zenon DEF Begins, Resumes, Unwound
    <3>. QED  BY <3>1 DEF Handing
  <2>2. CASE Begins \/ Unwound
    <3>1. worker' = "loop"
      BY <2>2 DEF Begins, Unwound
    <3>. QED  BY <2>1, <3>1 DEF Handing
  <2>3. CASE Resumes
    <3>1. unwind' = OpenHitls
      BY <2>3 DEF Resumes
    <3>2. unwind' # <<>> => Now'.stage # "hand"
      <4>1. PICK e \in [DOMAIN OpenHitls -> DOMAIN requests] :
              \A i \in DOMAIN OpenHitls : IsOpen(requests[e[i]]) /\ OpenHitls[i] = Opened(requests[e[i]])
        BY OpenIs DEF TreeInv, AgentsTypeOK
      <4>2. \A q : Opened(q).stage # "hand"
        BY DEF Opened
      <4>3. \A i \in DOMAIN OpenHitls : OpenHitls[i].stage # "hand"
        BY <4>1, <4>2
      <4>4. \A R : OpenHitls \in Seq(R) /\ OpenHitls # <<>> => 1 \in DOMAIN OpenHitls /\ Head(OpenHitls) = OpenHitls[1]
        OBVIOUS
      <4>5. unwind' # <<>> => 1 \in DOMAIN OpenHitls /\ Now' = OpenHitls[1]
        BY <3>1, <4>4, OpenIs DEF TreeInv, AgentsTypeOK, Now
      <4>. QED  BY <4>3, <4>5
    <3>. QED  BY <2>1, <3>2 DEF Handing
  <2>. QED  BY <2>2, <2>3
<1>10. thread # "ENDED"
  <2>1. worker # "off" => thread # "ENDED"
    BY DEF RecordInv, ThreadStands
  <2>. QED  BY <2>1 DEF Begins, Resumes, Unwound
<1>11. ASSUME Whole, NEW n \in Nested PROVE record'[n] = "RUNNING" <=> at'[n] # "off" \/ Waits(n)'
  <2>1. record[n] = "RUNNING" <=> at[n] # "off" \/ Waits(n)
    BY <1>2, <1>11, LullTold
  <2>2. UnderAsked(n)' = UnderAsked(n)
    BY <1>4 DEF UnderAsked
  <2>. QED  BY <1>1, <1>6, <1>9, <1>10, <2>1, <2>2 DEF Waits
<1>12. \A x \in Agents : at[x] \notin {"parked", "tools"}
  BY <1>2
<1>13. [Next]_vars
  BY DEF Next
<1>. QED  BY <1>1, <1>3, <1>4, <1>6, <1>7, <1>8, <1>11, <1>12, <1>13, LullTells

\* The head of an unwind moves on: the request it is at stays the one that may be half way.
LEMMA HeadTells ==
  ASSUME SpawnTree, TreeInv, ToolInv, OnceInv, RecordInv, [Next]_vars,
         \A x \in Agents : at[x] \notin {"parked", "tools"},
         \A x \in Agents : at'[x] \notin {"parked", "tools"},
         worker = "unwind", unwind # <<>>,
         NEW u \in [park : Parks, frame : Nat \ {0}, stage : Stages],
         unwind' = <<u>> \o Tail(unwind), u.park = Now.park,
         UNCHANGED <<worker, thread, live, box, called, requests>>,
         results' \in [Calls -> Nat], \A c \in Calls : results[c] <= results'[c],
         \A p \in Parks : p # Now.park => results'[p] = results[p],
         Whole => \A n \in Nested : record'[n] = "RUNNING" <=> at'[n] # "off" \/ Waits(n)'
  PROVE  RecordInv'
<1>1. unwind' # <<>> /\ Now'.park = Now.park
  BY HeadIs DEF TreeInv
<1>2. \A p \in Parks : IsOpen(p)' => IsOpen(p)
  BY ClosedStays DEF ToolInv, DurableTypeOK
<1>3. thread' # "RUNNING" /\ thread' # "ENDED"
  BY DEF ToolInv, UnwindIsOpen, RecordInv, ThreadStands
<1>4. Whole => NoneHalfWay'
  <2>. SUFFICES ASSUME Whole, NEW p \in Parks, IsAsked(p), IsOpen(p)', p # Now.park PROVE results'[p] = 0
    BY <1>1 DEF NoneHalfWay, IsAsked
  <2>1. results[p] = 0
    BY <1>2 DEF RecordInv, NoneHalfWay
  <2>. QED  BY <2>1
<1>. QED  BY <1>2, <1>3, <1>4, LullTells

\* The verdict of a request lands.
LEMMA LandingTells ==
  ASSUME SpawnTree, TreeInv, ToolInv, OnceInv, RecordInv, ToolRuns \/ ToolKept \/ Clears \/ Lands
  PROVE  RecordInv'
<1>1. PICK s \in Stages :
        /\ s # "hand" /\ Now.stage # "hand" /\ Now.stage # "unwind"
        /\ worker = "unwind" /\ unwind # <<>>
        /\ unwind' = <<[Now EXCEPT !.stage = s]>> \o Tail(unwind)
        /\ UNCHANGED <<worker, thread, live, box, called, requests, record, at>>
        /\ results' = results \/ results' = [results EXCEPT ![Now.park] = @ + 1]
  <2>1. CASE ToolRuns
    BY <2>1, Zenon DEF ToolRuns, Stages
  <2>2. CASE ToolKept
    BY <2>2, Zenon DEF ToolKept, Stages
  <2>3. CASE Clears
    BY <2>3, Zenon DEF Clears, Stages
  <2>4. CASE Lands
    BY <2>4, Zenon DEF Lands, Stages
  <2>. QED  BY <2>1, <2>2, <2>3, <2>4
<1>2. [Next]_vars
  BY DEF Next
<1>3. PICK u \in [park : Parks, frame : Nat \ {0}, stage : Stages] :
        u = [Now EXCEPT !.stage = s] /\ u.park = Now.park /\ u.stage = s
  <2>1. \A r \in [park : Parks, frame : Nat \ {0}, stage : Stages] :
          /\ [r EXCEPT !.stage = s] \in [park : Parks, frame : Nat \ {0}, stage : Stages]
          /\ [r EXCEPT !.stage = s].park = r.park
          /\ [r EXCEPT !.stage = s].stage = s
    OBVIOUS
  <2>2. Now \in [park : Parks, frame : Nat \ {0}, stage : Stages]
    BY <1>1, NowIs DEF TreeInv
  <2>. HIDE DEF Now
  <2>. QED  BY <2>1, <2>2
<1>4. unwind' = <<u>> \o Tail(unwind) /\ Now' = u
  BY <1>1, <1>3, HeadIs DEF TreeInv
<1>5. PICK p \in Parks : p = Now.park /\ p \in Calls
  BY <1>1, HeadStands
<1>6. results \in [Calls -> Nat] /\ (results' = results \/ results' = [results EXCEPT ![p] = @ + 1])
  BY <1>1, <1>5 DEF ToolInv, DurableTypeOK
<1>7. /\ results' \in [Calls -> Nat] /\ \A c \in Calls : results[c] <= results'[c]
      /\ \A c \in Calls : c # p => results'[c] = results[c]
  BY <1>5, <1>6
<1>8. \A q \in Parks : q # Now.park => results'[q] = results[q]
  BY <1>5, <1>7 DEF Calls
<1>9. \A n \in Nested : results'[n] = results[n]
  BY <1>5, <1>7, LineIs DEF Calls
<1>10. \A x \in Agents : at[x] = "off" /\ at'[x] = "off"
  <2>1. ~AtFrame
    BY <1>1 DEF AtFrame
  <2>2. \A x \in Agents : at[x] = "off"
    BY <1>1, <2>1, NobodyLoops
  <2>. QED  BY <1>1, <2>2
<1>11. \A n : ~Handing(n) /\ ~Handing(n)'
  BY <1>1, <1>3, <1>4 DEF Handing
<1>12. ASSUME Whole, NEW n \in Nested PROVE record'[n] = "RUNNING" <=> at'[n] # "off" \/ Waits(n)'
  <2>1. record[n] = "RUNNING" <=> at[n] # "off" \/ Waits(n)
    BY <1>10, <1>12, LullTold
  <2>2. UnderAsked(n)' = UnderAsked(n)
    BY <1>1 DEF UnderAsked, IsAsked
  <2>. QED  BY <1>1, <1>9, <1>10, <1>11, <2>1, <2>2 DEF Waits
<1>. HIDE DEF Now
<1>. QED  BY <1>1, <1>2, <1>3, <1>4, <1>7, <1>8, <1>10, <1>12, HeadTells

\* A result is handed to the call above, whose nested run has no RUNNING record any more.
LEMMA HandsTells ==
  ASSUME SpawnTree, TreeInv, ToolInv, OnceInv, RecordInv, Hands
  PROVE  RecordInv'
<1>1. /\ worker = "unwind" /\ unwind # <<>> /\ Now.stage = "hand"
      /\ results' = [results EXCEPT ![Frame] = @ + 1]
      /\ unwind' = <<[Now EXCEPT !.stage = "unwind", !.frame = Now.frame + 1]>> \o Tail(unwind)
      /\ UNCHANGED <<worker, thread, live, box, called, requests, record, at>>
  BY DEF Hands
<1>2. [Next]_vars
  BY DEF Next
<1>3. PICK u \in [park : Parks, frame : Nat \ {0}, stage : Stages] :
        u = [Now EXCEPT !.stage = "unwind", !.frame = Now.frame + 1] /\ u.park = Now.park /\ u.stage = "unwind"
  <2>. DEFINE m == Now
  <2>1. m \in [park : Parks, frame : Nat \ {0}, stage : Stages]
    BY <1>1, NowIs DEF TreeInv
  <2>2. m.frame + 1 \in Nat \ {0} /\ "unwind" \in Stages
    BY <2>1 DEF Stages
  <2>. HIDE DEF m
  <2>3. /\ [m EXCEPT !.stage = "unwind", !.frame = m.frame + 1] \in [park : Parks, frame : Nat \ {0}, stage : Stages]
        /\ [m EXCEPT !.stage = "unwind", !.frame = m.frame + 1].park = m.park
        /\ [m EXCEPT !.stage = "unwind", !.frame = m.frame + 1].stage = "unwind"
    BY <2>1, <2>2
  <2>. QED  BY <2>3 DEF m
<1>4. unwind' = <<u>> \o Tail(unwind) /\ Now' = u
  BY <1>1, <1>3, HeadIs DEF TreeInv
<1>5. PICK f \in Nested : f = Frame /\ f \in Calls /\ f \in Agents
  <2>1. Now.park \in Parks /\ Now.frame \in DOMAIN Frames(Now.park)
    BY <1>1, HeadStands
  <2>. QED  BY <2>1, LineIs DEF Frame, Calls, Agents
<1>6. results \in [Calls -> Nat] /\ results' = [results EXCEPT ![f] = @ + 1]
  BY <1>1, <1>5 DEF ToolInv, DurableTypeOK
<1>7. /\ results' \in [Calls -> Nat] /\ \A c \in Calls : results[c] <= results'[c]
      /\ \A c \in Calls : c # f => results'[c] = results[c]
      /\ results'[f] # 0
  BY <1>5, <1>6
<1>8. \A q \in Parks : results'[q] = results[q]
  <2>1. \A q \in Parks : q \in Calls /\ q # f
    BY <1>5, LineIs DEF Calls
  <2>. QED  BY <1>7, <2>1
<1>10. \A x \in Agents : at[x] = "off" /\ at'[x] = "off"
  <2>1. ~AtFrame
    BY <1>1 DEF AtFrame
  <2>2. \A x \in Agents : at[x] = "off"
    BY <1>1, <2>1, NobodyLoops
  <2>. QED  BY <1>1, <2>2
<1>11. \A n : (Handing(n) <=> n = f) /\ ~Handing(n)'
  BY <1>1, <1>3, <1>4, <1>5 DEF Handing
<1>12. ASSUME Whole, NEW n \in Nested PROVE record'[n] = "RUNNING" <=> at'[n] # "off" \/ Waits(n)'
  <2>1. record[n] = "RUNNING" <=> at[n] # "off" \/ Waits(n)
    BY <1>10, <1>12, LullTold
  <2>2. UnderAsked(n)' = UnderAsked(n)
    BY <1>1 DEF UnderAsked, IsAsked
  <2>3. n # f => results'[n] = results[n]
    BY <1>7 DEF Calls
  <2>4. n \in Agents
    BY DEF Agents
  <2>. QED  BY <1>1, <1>7, <1>10, <1>11, <2>1, <2>2, <2>3, <2>4 DEF Waits
<1>13. \A q \in Parks : q # Now.park => results'[q] = results[q]
  BY <1>8
<1>. HIDE DEF Now
<1>. QED  BY <1>1, <1>2, <1>3, <1>4, <1>7, <1>10, <1>12, <1>13, HeadTells

\* A nested run that an unwind enters again has a record that is RUNNING.
LEMMA ReentersTells ==
  ASSUME SpawnTree, TreeInv, ToolInv, OnceInv, RecordInv, Reenters
  PROVE  RecordInv'
<1>1. /\ AtFrame /\ at[Frame] = "off" /\ worker = "unwind" /\ unwind # <<>> /\ Now.stage = "unwind"
      /\ at' = [at EXCEPT ![Frame] = "thinking"]
      /\ UNCHANGED <<worker, thread, live, box, called, requests, record, results, unwind>>
  BY DEF Reenters, Enter, durable, AtFrame
<1>2. [Next]_vars
  BY DEF Next
<1>3. PICK f \in Nested : f = Frame /\ f \in Agents
  BY <1>1, FrameIs DEF TreeInv
<1>4. /\ \A x \in Agents : at[x] = "off"
      /\ \A x \in Agents : at'[x] = IF x = f THEN "thinking" ELSE "off"
  <2>1. \A x \in Agents : at[x] = "off"
    BY <1>1, AloneAtFrame
  <2>. QED  BY <1>1, <1>3, <2>1 DEF TreeInv, AgentsTypeOK
<1>5. \A n : ~Handing(n) /\ ~Handing(n)'
  BY <1>1 DEF Handing, Now
<1>6. /\ \A p : IsOpen(p)' = IsOpen(p)
      /\ \A n : UnderAsked(n)' = UnderAsked(n)
  BY <1>1 DEF UnderAsked, IsAsked, IsOpen, Waiting
<1>7. thread # "RUNNING" /\ thread # "ENDED"
  BY <1>1 DEF ToolInv, UnwindIsOpen, RecordInv, ThreadStands
<1>8. Whole => NoneHalfWay'
  BY <1>1, <1>6 DEF RecordInv, NoneHalfWay, IsAsked, Now
<1>9. Whole => Waits(f)
  <2>1. UnderAsked(f)
    BY <1>1, <1>3, BaseIs DEF UnderAsked, OnceInv
  <2>2. Whole => results[f] = 0
    BY <1>1, <1>3, BaseIs, BaseIsAhead DEF OnceInv
  <2>. QED  BY <1>5, <1>7, <2>1, <2>2 DEF Waits
<1>10. ASSUME Whole, NEW n \in Nested PROVE record'[n] = "RUNNING" <=> at'[n] # "off" \/ Waits(n)'
  <2>1. record[n] = "RUNNING" <=> at[n] # "off" \/ Waits(n)
    BY <1>4, <1>10, LullTold
  <2>2. n \in Agents
    BY DEF Agents
  <2>3. Waits(n)' = Waits(n)
    BY <1>1, <1>5, <1>6 DEF Waits
  <2>. QED  BY <1>1, <1>4, <1>9, <1>10, <2>1, <2>2, <2>3
<1>11. /\ \A x \in Agents : at[x] \notin {"parked", "tools"}
       /\ \A x \in Agents : at'[x] \notin {"parked", "tools"}
  BY <1>4
<1>. HIDE DEF Now
<1>. QED  BY <1>1, <1>2, <1>6, <1>7, <1>8, <1>10, <1>11, LullTells

\* The record of the nested run at the head is closed before its result is handed on.
LEMMA ClosesTells ==
  ASSUME SpawnTree, TreeInv, ToolInv, OnceInv, RecordInv, Closes
  PROVE  RecordInv'
<1>1. /\ AtFrame /\ at[Frame] \in {"done", "failed"} /\ worker = "unwind" /\ unwind # <<>> /\ Now.stage = "unwind"
      /\ record' = [record EXCEPT ![Frame] = Closed(Frame)]
      /\ at' = [at EXCEPT ![Frame] = "off"]
      /\ unwind' = <<[Now EXCEPT !.stage = "hand"]>> \o Tail(unwind)
      /\ UNCHANGED <<worker, thread, live, box, called, requests, results>>
  BY DEF Closes, AtFrame
<1>2. [Next]_vars
  BY DEF Next
<1>3. PICK u \in [park : Parks, frame : Nat \ {0}, stage : Stages] :
        /\ u = [Now EXCEPT !.stage = "hand"] /\ u.park = Now.park /\ u.frame = Now.frame /\ u.stage = "hand"
  <2>1. \A r \in [park : Parks, frame : Nat \ {0}, stage : Stages] :
          /\ [r EXCEPT !.stage = "hand"] \in [park : Parks, frame : Nat \ {0}, stage : Stages]
          /\ [r EXCEPT !.stage = "hand"].park = r.park
          /\ [r EXCEPT !.stage = "hand"].frame = r.frame
          /\ [r EXCEPT !.stage = "hand"].stage = "hand"
    BY DEF Stages
  <2>. HIDE DEF Now
  <2>. QED  BY <1>1, <2>1, NowIs DEF TreeInv
<1>4. unwind' = <<u>> \o Tail(unwind) /\ Now' = u /\ unwind' # <<>>
  BY <1>1, <1>3, HeadIs DEF TreeInv
<1>5. PICK f \in Nested : f = Frame /\ f \in Agents
  BY <1>1, FrameIs DEF TreeInv
<1>6. Frame' = f
  <2>1. Frame' = Frames(u.park)[u.frame]
    BY <1>4 DEF Frame, Frames
  <2>2. Frame = Frames(Now.park)[Now.frame]
    BY DEF Frame
  <2>. QED  BY <1>3, <1>5, <2>1, <2>2
<1>7. /\ \A x \in Agents : x # f => at[x] = "off"
      /\ at[f] \in {"done", "failed"}
      /\ \A x \in Agents : at'[x] = "off"
  <2>1. \A x \in Agents : at[x] # "off" => x = Frame
    BY <1>1, AloneAtFrame
  <2>. QED  BY <1>1, <1>5, <2>1 DEF TreeInv, AgentsTypeOK
<1>8. \A n : ~Handing(n) /\ (Handing(n)' <=> n = f)
  BY <1>1, <1>3, <1>4, <1>6 DEF Handing
<1>9. /\ record'[f] # "RUNNING"
      /\ \A n \in Nested : n # f => record'[n] = record[n]
  <2>1. record \in [Nested -> RecordStates]
    BY DEF OnceInv, RecordsBegan, RecordStates
  <2>2. record' = [record EXCEPT ![f] = Closed(f)] /\ Closed(f) \in {"FAILED", "COMPLETED"}
    BY <1>1, <1>5, <1>7 DEF Closed
  <2>. QED  BY <1>5, <2>1, <2>2
<1>10. ASSUME Whole, NEW n \in Nested PROVE record'[n] = "RUNNING" <=> at'[n] # "off" \/ Waits(n)'
  <2>0. \A x \in Agents : at[x] \notin {"parked", "tools"}
    BY <1>7
  <2>1. record[n] = "RUNNING" <=> at[n] # "off" \/ Waits(n)
    BY <1>10, <2>0, LullTold
  <2>2. n \in Agents
    BY DEF Agents
  <2>3. UnderAsked(n)' = UnderAsked(n)
    BY <1>1 DEF UnderAsked, IsAsked
  <2>. QED  BY <1>1, <1>7, <1>8, <1>9, <2>1, <2>2, <2>3 DEF Waits
<1>11. /\ \A x \in Agents : at[x] \notin {"parked", "tools"}
       /\ \A x \in Agents : at'[x] \notin {"parked", "tools"}
  BY <1>7
<1>12. results' \in [Calls -> Nat] /\ \A c \in Calls : results[c] <= results'[c]
  BY <1>1 DEF ToolInv, DurableTypeOK
<1>. HIDE DEF Now
<1>. QED  BY <1>1, <1>2, <1>3, <1>4, <1>10, <1>11, <1>12, HeadTells

\* The request at the head is done: the next is not half way.
LEMMA NextTells ==
  ASSUME SpawnTree, TreeInv, ToolInv, OnceInv, RecordInv, NextPark
  PROVE  RecordInv'
<1>1. /\ worker = "unwind" /\ unwind # <<>> /\ Now.stage = "unwind" /\ Now.frame > Len(Frames(Now.park))
      /\ unwind' = Tail(unwind)
      /\ UNCHANGED <<worker, thread, live, box, called, requests, record, results, at>>
  BY DEF NextPark, durable
<1>2. [Next]_vars
  BY DEF Next
<1>3. /\ 1 \in DOMAIN unwind /\ Now = unwind[1]
      /\ unwind' # <<>> => 2 \in DOMAIN unwind /\ Now' = unwind[2]
      /\ \A i \in DOMAIN unwind : unwind[i].park \in Parks /\ IsAsked(unwind[i].park)
  <2>1. \A R : unwind \in Seq(R) /\ unwind # <<>> =>
                 /\ 1 \in DOMAIN unwind /\ Head(unwind) = unwind[1]
                 /\ Tail(unwind) # <<>> => 2 \in DOMAIN unwind /\ Head(Tail(unwind)) = unwind[2]
                 /\ \A i \in DOMAIN unwind : unwind[i] \in R
    OBVIOUS
  <2>2. unwind \in Seq([park : Parks, frame : Nat \ {0}, stage : Stages])
    BY DEF TreeInv, AgentsTypeOK
  <2>3. \A i \in DOMAIN unwind : unwind[i] \in [park : Parks, frame : Nat \ {0}, stage : Stages]
    BY <1>1, <2>1, <2>2
  <2>4. \A i \in DOMAIN unwind : unwind[i].park \in Parks
    BY <2>3
  <2>5. \A i \in DOMAIN unwind : IsAsked(unwind[i].park)
    BY <1>1 DEF ToolInv, UnwindIsOpen, IsAsked
  <2>. QED  BY <1>1, <2>1, <2>2, <2>4, <2>5 DEF Now
<1>4. PICK p \in Parks : p = Now.park
  BY <1>3
<1>5. ~IsOpen(p)
  <2>1. results[p] # 0 /\ Now.frame \in Nat /\ \A k \in DOMAIN Frames(p) : k < Now.frame => results[Frames(p)[k]] # 0
    BY <1>1, <1>4, HeadStands
  <2>2. \A k \in DOMAIN Frames(p) : k \in Nat /\ k < Now.frame
    BY <1>1, <1>4, <2>1, FramesIn
  <2>. QED  BY <2>1, <2>2 DEF IsOpen, Waiting
<1>6. \A x \in Agents : at[x] = "off" /\ at'[x] = "off"
  <2>1. ~AtFrame
    <3>1. Len(Frames(Now.park)) \in Nat /\ Now.frame \in Nat
      BY <1>1, <1>4, HeadStands, FramesIn
    <3>. QED  BY <1>1, <3>1 DEF AtFrame
  <2>2. \A x \in Agents : at[x] = "off"
    BY <1>1, <2>1, NobodyLoops
  <2>. QED  BY <1>1, <2>2
<1>7. \A q : IsOpen(q)' = IsOpen(q) /\ IsAsked(q)' = IsAsked(q)
  BY <1>1 DEF IsOpen, Waiting, IsAsked
<1>8. ASSUME Whole, NEW q \in Parks, IsAsked(q), IsOpen(q) PROVE results[q] = 0
  BY <1>4, <1>5, <1>8 DEF RecordInv, NoneHalfWay
<1>9. Whole => NoneHalfWay'
  BY <1>1, <1>7, <1>8 DEF NoneHalfWay
<1>10. ASSUME Whole, unwind' # <<>> PROVE Now'.stage # "hand"
  <2>. SUFFICES ASSUME unwind[2].stage = "hand" PROVE FALSE
    BY <1>3, <1>10
  <2>1. 2 \in DOMAIN unwind
    BY <1>3, <1>10
  <2>2. PICK q \in Parks : q = unwind[2].park /\ IsAsked(q)
    BY <1>3, <2>1
  <2>3. PICK f : f = unwind[2].frame
    OBVIOUS
  <2>4. results[q] # 0 /\ f \in DOMAIN Frames(q)
    BY <2>1, <2>2, <2>3 DEF ToolInv, UnwindStands
  <2>5. f \in Nat
    BY <2>2, <2>4, FramesIn
  <2>6. results[Frames(q)[f]] = 0
    <3>1. Ahead
      BY <1>10 DEF OnceInv, Whole
    <3>2. \A i \in DOMAIN unwind : \A k \in DOMAIN Frames(unwind[i].park) :
            unwind[i].frame <= k => results[Frames(unwind[i].park)[k]] = 0
      BY <1>1, <3>1 DEF Ahead
    <3>. HIDE DEF Now
    <3>3. f <= f
      BY <2>5
    <3>. QED  BY <2>1, <2>2, <2>3, <2>4, <3>2, <3>3
  <2>7. IsOpen(q)
    BY <2>4, <2>6 DEF IsOpen, Waiting
  <2>. QED  BY <1>8, <1>10, <2>2, <2>4, <2>7
<1>11. \A n : ~Handing(n) /\ (Whole => ~Handing(n)')
  BY <1>1, <1>10 DEF Handing
<1>12. ASSUME Whole, NEW n \in Nested PROVE record'[n] = "RUNNING" <=> at'[n] # "off" \/ Waits(n)'
  <2>1. record[n] = "RUNNING" <=> at[n] # "off" \/ Waits(n)
    BY <1>6, <1>12, LullTold
  <2>2. UnderAsked(n)' = UnderAsked(n)
    BY <1>1 DEF UnderAsked, IsAsked
  <2>3. n \in Agents
    BY DEF Agents
  <2>. QED  BY <1>1, <1>6, <1>11, <1>12, <2>1, <2>2, <2>3 DEF Waits
<1>13. thread # "RUNNING" /\ thread # "ENDED"
  BY <1>1 DEF ToolInv, UnwindIsOpen, RecordInv, ThreadStands
<1>14. /\ \A x \in Agents : at[x] \notin {"parked", "tools"}
       /\ \A x \in Agents : at'[x] \notin {"parked", "tools"}
  BY <1>6
<1>. HIDE DEF Now
<1>. QED  BY <1>1, <1>2, <1>7, <1>9, <1>12, <1>13, <1>14, LullTells

\* A stop of a parked run closes the record of every nested run that a request waits in.
LEMMA StopTells ==
  ASSUME SpawnTree, TreeInv, ToolInv, OnceInv, RecordInv, StopsParked
  PROVE  RecordInv'
<1>1. /\ worker = "off" /\ thread' = "ENDED"
      /\ record' = [n \in Nested |-> IF (\E p \in StopAsked : Asker[p] = n) \/ n \in {Parent[f] : f \in StopFrames}
                                     THEN "CANCELLED" ELSE record[n]]
      /\ UNCHANGED <<called, requests, live, box, at, worker, unwind, lost>>
  BY StopIs
<1>2. [Next]_vars
  BY DEF Next
<1>3. \A x \in Agents : at[x] = "off" /\ at'[x] = "off"
  BY <1>1 DEF TreeInv, AtWorkBelow
<1>4. \A q \in Parks : IsAsked(q) => ~IsOpen(q)'
  <2>. SUFFICES ASSUME NEW q \in Parks, IsAsked(q) PROVE ~IsOpen(q)'
    OBVIOUS
  <2>1. \A c \in Line(q) : results'[c] # 0
    BY StopCloses
  <2>2. q \in Line(q) /\ \A k \in DOMAIN Frames(q) : Frames(q)[k] \in Line(q)
    BY LineIs DEF Line
  <2>. QED  BY <2>1, <2>2 DEF IsOpen, Waiting
<1>5. NoneHalfWay'
  BY <1>1, <1>4 DEF NoneHalfWay, IsAsked
<1>6. ASSUME Whole, NEW n \in Nested, record[n] = "RUNNING"
      PROVE  (\E p \in StopAsked : Asker[p] = n) \/ n \in {Parent[f] : f \in StopFrames}
  <2>0. n \in Agents /\ at[n] = "off"
    BY <1>3 DEF Agents
  <2>1. Waits(n)
    BY <1>3, <1>6, <2>0, LullTold
  <2>2. PICK p \in Parks : n \in Chain(p) /\ IsAsked(p) /\ results[n] = 0
    BY <2>1 DEF Waits, UnderAsked
  <2>3. IsOpen(p)
    <3>1. PICK k \in DOMAIN Frames(p) : Frames(p)[k] = n
      BY <2>2, LineIs
    <3>. QED  BY <2>2, <3>1 DEF IsOpen, Waiting
  <2>4. p \in StopOpen /\ p \in StopAsked
    BY <1>1, <1>6, <2>2, <2>3 DEF RecordInv, NoneHalfWay, StopOpen, StopAsked
  <2>5. PICK c \in Line(p) : Caller(c) = n
    BY <2>2, Below
  <2>6. CASE c = p
    BY <2>4, <2>5, <2>6, LineIs DEF Caller
  <2>7. CASE c # p
    <3>1. c \in Chain(p) /\ c \in Nested
      BY <2>5, <2>7, LineIs DEF Line
    <3>2. PICK k \in DOMAIN Frames(p) : Frames(p)[k] = c
      BY <3>1, LineIs
    <3>3. c \in StopFrames
      BY <2>4, <3>2 DEF StopFrames, StopFrom
    <3>. QED  BY <2>5, <3>1, <3>3 DEF Caller
  <2>. QED  BY <2>6, <2>7
<1>7. ASSUME Whole, NEW n \in Nested PROVE record'[n] = "RUNNING" <=> at'[n] # "off" \/ Waits(n)'
  <2>1. n \in Agents /\ at'[n] = "off"
    BY <1>3 DEF Agents
  <2>2. ~Waits(n)'
    BY <1>1 DEF Waits
  <2>3. record'[n] # "RUNNING"
    <3>1. record[n] = "RUNNING" => (\E p \in StopAsked : Asker[p] = n) \/ n \in {Parent[f] : f \in StopFrames}
      BY <1>6, <1>7
    <3>. QED  BY <1>1, <3>1
  <2>. QED  BY <2>1, <2>2, <2>3
<1>8. \A c \in Calls : live'[c] = "none"
  BY <1>1, <1>3, NoneIsLive
<1>9. Whole' => Whole
  BY <1>2, WholeBefore
<1>10. \A p : ~IsBoxed(p)' /\ IsAsked(p)' = IsAsked(p)
  BY <1>1 DEF TreeInv, AtWorkBelow, IsBoxed, IsAsked
<1>11. ParksAreBoxed' /\ ThreadStands'
  BY <1>1, <1>8, FramesIn DEF ParksAreBoxed, ThreadStands
<1>12. MainWaits'
  BY <1>1 DEF MainWaits
<1>13. ParkedForSome'
  <2>1. \A y \in Agents : y # Main => y \in Calls
    BY DEF Agents, Calls
  <2>2. \A y \in Agents : at'[y] # "parked" /\ (y # Main => live'[y] # "parked")
    BY <1>3, <1>8, <2>1
  <2>. QED  BY <2>2 DEF ParkedForSome
<1>14. Whole => RecordsTell'
  BY <1>1, <1>7, <1>10 DEF RecordsTell, Delegates, Waits, UnderAsked
<1>. QED  BY <1>5, <1>9, <1>10, <1>11, <1>12, <1>13, <1>14 DEF RecordInv

\* A verdict changes no part of it.
LEMMA VerdictTells ==
  ASSUME SpawnTree, RecordInv, (\E p \in Parks, v \in {"approved", "denied"} : Verdict(p, v)) \/ UNCHANGED vars
  PROVE  RecordInv'
<1>1. UNCHANGED <<called, results, requests, record, thread, worker, at, live, box, unwind, lost>>
  BY DEF Verdict, vars, durable, memory, counted
<1>2. \A p : /\ Lost(p)' = Lost(p) /\ IsBoxed(p)' = IsBoxed(p) /\ IsAsked(p)' = IsAsked(p)
             /\ IsOpen(p)' = IsOpen(p)
  BY <1>1 DEF Lost, IsBoxed, IsAsked, IsOpen, Waiting
<1>3. Whole' = Whole
  BY <1>1 DEF Whole, Apart, RequestsAreCalls
<1>4. \A n : Handing(n)' = Handing(n)
  BY <1>1 DEF Handing, Now, Frame
<1>5. ParksAreBoxed' = ParksAreBoxed /\ ThreadStands' = ThreadStands /\ MainWaits' = MainWaits
  BY <1>1, <1>2 DEF ParksAreBoxed, ThreadStands, MainWaits
<1>6. ParkedForSome' = ParkedForSome /\ NoneHalfWay' = NoneHalfWay
  BY <1>1, <1>2 DEF ParkedForSome, NoneHalfWay, Now
<1>7. RecordsTell' = RecordsTell
  BY <1>1, <1>2, <1>4 DEF RecordsTell, Delegates
<1>. QED  BY <1>2, <1>3, <1>5, <1>6, <1>7 DEF RecordInv

\* Every step keeps the records true.
LEMMA RecordsStay ==
  ASSUME SpawnTree, TreeInv, ToolInv, OnceInv, RecordInv, [Next]_vars
  PROVE  RecordInv'
<1>1. ASSUME NEW x \in Agents, NEW asked \in SUBSET CallsOf(x), Asks(x, asked) PROVE RecordInv'
  BY <1>1, AsksTells
<1>2. ASSUME NEW x \in Agents, SavesTools(x) \/ Answers(x) PROVE RecordInv'
  BY <1>2, NestedSavedTells, MainSavedTells
<1>3. ASSUME NEW x \in Agents, Fails(x) PROVE RecordInv'
  BY <1>3, FailsTells
<1>4. ASSUME NEW n \in Nested, Spawn(n) PROVE RecordInv'
  BY <1>4, SpawnTells
<1>5. ASSUME NEW n \in Nested, Returns(n) PROVE RecordInv'
  BY <1>5, ReturnsTells
<1>6. ASSUME NEW d \in DOMAIN line, Granted(d) PROVE RecordInv'
  <2>1. d \in 1..MaxDepth
    BY DEF TreeInv, AgentsTypeOK
  <2>. QED  BY <1>6, <2>1, GrantedTells
<1>7. ASSUME Ends PROVE RecordInv'
  BY <1>7, EndsTells
<1>8. ASSUME Dies \/ MainFails \/ StopsLoop PROVE RecordInv'
  BY <1>8, CutTells
<1>9. ASSUME Begins \/ Resumes \/ Unwound PROVE RecordInv'
  BY <1>9, StartsTell
<1>10. ASSUME ToolRuns \/ ToolKept \/ Clears \/ Lands PROVE RecordInv'
  BY <1>10, LandingTells
<1>11. ASSUME Reenters PROVE RecordInv'
  BY <1>11, ReentersTells
<1>12. ASSUME Closes PROVE RecordInv'
  BY <1>12, ClosesTells
<1>13. ASSUME Hands PROVE RecordInv'
  BY <1>13, HandsTells
<1>14. ASSUME ParksAgain PROVE RecordInv'
  BY <1>14, ParksAgainTells
<1>15. ASSUME NextPark PROVE RecordInv'
  BY <1>15, NextTells
<1>16. ASSUME StopsParked PROVE RecordInv'
  BY <1>16, StopTells
<1>17. ASSUME (\E p \in Parks, v \in {"approved", "denied"} : Verdict(p, v)) \/ UNCHANGED vars PROVE RecordInv'
  BY <1>17, VerdictTells
<1>. QED
  BY <1>1, <1>2, <1>3, <1>4, <1>5, <1>6, <1>7, <1>8, <1>9, <1>10, <1>11, <1>12, <1>13, <1>14, <1>15, <1>16,
     <1>17, Zenon DEF Next

LEMMA RecordsStart ==
  ASSUME SpawnTree, Init
  PROVE  RecordInv
<1>1. /\ requests = <<>> /\ box = <<>> /\ worker = "off" /\ thread = "RUNNING"
      /\ record = [n \in Nested |-> "none"] /\ at = [x \in Agents |-> "off"] /\ live = [c \in Calls |-> "none"]
  BY DEF Init, None
<1>2. \A p : ~IsAsked(p) /\ ~IsBoxed(p)
  BY <1>1 DEF IsAsked, IsBoxed
<1>3. ParksAreBoxed /\ ThreadStands /\ MainWaits /\ NoneHalfWay
  BY <1>1, <1>2, FramesIn DEF ParksAreBoxed, ThreadStands, MainWaits, NoneHalfWay
<1>4. ParkedForSome
  <2>1. \A y \in Agents : y # Main => y \in Calls
    BY DEF Agents, Calls
  <2>2. \A y \in Agents : at[y] # "parked" /\ (y # Main => live[y] # "parked")
    BY <1>1, <2>1
  <2>. QED  BY <2>2 DEF ParkedForSome
<1>5. RecordsTell
  <2>1. \A n \in Nested : at[n] = "off" /\ record[n] # "RUNNING"
    BY <1>1 DEF Agents
  <2>. QED  BY <1>2, <2>1 DEF RecordsTell, Delegates
<1>. QED  BY <1>2, <1>3, <1>4, <1>5 DEF RecordInv

\* With no worker, on a run of which no loop was cut under another and whose requests share no
\* nested run, the records that are RUNNING are those of the nested runs between an open request
\* and the main agent: what parks keeps its record, what an unwind or a stop is done with has it
\* closed (core/subagent.ts, core/engine.ts, core/stop.ts).
THEOREM RecordsStandForParks ==
  ASSUME SpawnTree, MaxDepth \in Nat
  PROVE  Spec => []RecordsMatchParks
<1>1. Init => TreeInv /\ ToolInv /\ OnceInv /\ RecordInv
  BY TreeStarts, ToolsStart, OnceStarts, RecordsStart
<1>2. TreeInv /\ ToolInv /\ OnceInv /\ RecordInv /\ [Next]_vars => (TreeInv /\ ToolInv /\ OnceInv /\ RecordInv)'
  BY TreeStays, ToolsStay, OnceStays, RecordsStay
<1>3. TreeInv /\ ToolInv /\ OnceInv /\ RecordInv => RecordsMatchParks
  <2>. SUFFICES ASSUME TreeInv, ToolInv, OnceInv, RecordInv, worker = "off", ~lost, Apart, NEW n \in Nested
                PROVE  record[n] = "RUNNING" <=>
                         thread = "WAITING_FOR_INPUT" /\ \E i \in DOMAIN requests :
                           /\ results[requests[i]] = 0
                           /\ \E j \in DOMAIN Frames(requests[i]) : Frames(requests[i])[j] = n
    BY DEF RecordsMatchParks
  <2>1. Whole /\ Climbs
    BY DEF Whole, OnceInv
  <2>2. n \in Agents /\ at[n] = "off" /\ box = <<>> /\ ~Handing(n)
    BY DEF TreeInv, AtWorkBelow, Agents, Handing
  <2>3. record[n] = "RUNNING" <=> \E p \in Parks : n \in Chain(p) /\ IsAsked(p) /\ results[n] = 0 /\ thread # "ENDED"
    BY <2>1, <2>2 DEF RecordInv, RecordsTell, Delegates, IsBoxed
  <2>4. ASSUME NEW p \in Parks, n \in Chain(p), IsAsked(p), results[n] = 0, thread # "ENDED"
        PROVE  /\ thread = "WAITING_FOR_INPUT"
               /\ \E i \in DOMAIN requests :
                    /\ results[requests[i]] = 0
                    /\ \E j \in DOMAIN Frames(requests[i]) : Frames(requests[i])[j] = n
    <3>1. PICK j \in DOMAIN Frames(p) : Frames(p)[j] = n
      BY <2>4, LineIs
    <3>2. IsOpen(p)
      BY <2>4, <3>1 DEF IsOpen, Waiting
    <3>3. results[p] = 0
      BY <2>1, <2>4, <3>2 DEF RecordInv, NoneHalfWay
    <3>4. thread = "WAITING_FOR_INPUT"
      BY <2>4, <3>2 DEF RecordInv, ThreadStands
    <3>5. PICK i \in DOMAIN requests : requests[i] = p
      BY <2>4 DEF IsAsked
    <3>. QED  BY <3>1, <3>3, <3>4, <3>5
  <2>5. ASSUME thread = "WAITING_FOR_INPUT", NEW i \in DOMAIN requests, results[requests[i]] = 0,
               NEW j \in DOMAIN Frames(requests[i]), Frames(requests[i])[j] = n
        PROVE  \E p \in Parks : n \in Chain(p) /\ IsAsked(p) /\ results[n] = 0 /\ thread # "ENDED"
    <3>1. PICK p \in Parks : p = requests[i]
      <4>1. \A R : requests \in Seq(R) => requests[i] \in R
        OBVIOUS
      <4>. QED  BY <4>1 DEF TreeInv, AgentsTypeOK
    <3>2. IsAsked(p) /\ n \in Chain(p)
      BY <2>5, <3>1, LineIs DEF IsAsked
    <3>3. results[n] = 0
      BY <2>1, <2>5, <3>1, <3>2 DEF Climbs
    <3>. QED  BY <2>5, <3>2, <3>3
  <2>. QED  BY <2>3, <2>4, <2>5
<1>. QED  BY <1>1, <1>2, <1>3, PTL DEF Spec
=============================================================================
