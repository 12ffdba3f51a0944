---------------------------- MODULE StreamProofs ----------------------------
\* Every adapter of the run streams port keeps the port's contract, and a reader of any of
\* them gives out what the stream holds.
EXTENDS StreamStores, SequenceTheorems, TLAPS

\* An event is a positive number, the end 0.
Item == Nat

StoreTypeOK ==
  /\ row \in {"none", "open", "closed"}
  /\ kept \in Seq(Item) /\ log \in Seq(Item) /\ doomed \in Seq(Item)
  /\ over \in BOOLEAN /\ dropped \in BOOLEAN
  /\ holder \subseteq {"writer", "closer"}
  /\ pending \in [{"writer", "closer"} -> Seq(Item)]
  /\ sending \in Nat /\ next \in Nat \ {0}

\* What is there before the stream is opened, and what is left when it goes.
Lifetime ==
  /\ row = "none" => kept = <<>> /\ log = <<>> /\ ~Gone
  /\ ~dropped \/ kind = "memory" => log = kept
  /\ row = "closed" => log # <<>> /\ log[Len(log)] = End

\* One transaction has the row's lock, nobody closes or deletes the row under it, and what it
\* writes is still next.
Locked ==
  /\ holder # {} => kind = "prisma" /\ row = "open" /\ ~dropped
  /\ \A v, w \in holder : v = w
  /\ "writer" \in holder => \E n \in 1..2 : pending["writer"] = Fresh(n)
  /\ "closer" \in holder => pending["closer"] = <<End>>

\* Every event so far is in the stream while it is there, and offsets are given for these.
Written ==
  /\ told \subseteq 1..(next - 1)
  /\ ~dropped => \A e \in 1..(next - 1) : \E i \in 1..Len(kept) : kept[i] = e

StoreInv == StoreTypeOK /\ Lifetime /\ Locked /\ Written

ReaderTypeOK ==
  /\ reader \in {"off", "look", "row", "give", "wait", "gone", "ended"}
  /\ cursor \in Nat /\ page \in Seq(Item) /\ got \in Seq(Item)
  /\ sawClosed \in BOOLEAN /\ torn \in BOOLEAN

\* The reader has given out the stream up to its cursor.
UpToCursor == cursor <= Len(log) /\ Len(got) = cursor /\ \A i \in 1..cursor : got[i] = log[i]

\* Its page is what comes next; a page without items of a closed stream is at its end.
PageIsNext == kind # "memory" =>
  /\ reader = "give" =>
       /\ cursor + Len(page) <= Len(log)
       /\ \A i \in 1..Len(page) : page[i] = log[cursor + i]
  /\ reader \in {"row", "give"} /\ sawClosed => row = "closed"
  /\ reader = "give" /\ page = <<>> /\ sawClosed /\ ~torn => cursor = Len(log)

EndsAtEnd == reader = "ended" /\ ~torn => got # <<>> /\ got[Len(got)] = End

ReaderInv == ReaderTypeOK /\ UpToCursor /\ PageIsNext /\ EndsAtEnd

StreamInv == StoreInv /\ ReaderInv

LEMMA StreamStarts == Init => StreamInv
<1>. SUFFICES ASSUME Init PROVE StreamInv
  OBVIOUS
<1>. USE DEF Init
<1>1. StoreTypeOK
  <2>1. pending \in [{"writer", "closer"} -> Seq(Item)] /\ <<>> \in Seq(Item)
    BY EmptySeq
  <2>2. row = "none" /\ kept = <<>> /\ log = <<>> /\ doomed = <<>> /\ over = FALSE /\ dropped = FALSE
        /\ holder = {} /\ sending \in Nat /\ next \in Nat \ {0}
    OBVIOUS
  <2>. HIDE DEF Init
  <2>. QED  BY <2>1, <2>2 DEF StoreTypeOK
<1>2. Lifetime /\ Locked
  BY DEF Lifetime, Locked, Gone
<1>3. Written
  BY DEF Written
<1>4. ReaderTypeOK /\ UpToCursor /\ PageIsNext /\ EndsAtEnd
  <2>1. <<>> \in Seq(Item) /\ Len(<<>>) = 0
    BY EmptySeq
  <2>2. /\ reader = "off" /\ cursor = 0 /\ page = <<>> /\ got = <<>> /\ log = <<>>
        /\ sawClosed = FALSE /\ torn = FALSE
    OBVIOUS
  <2>3. Len(got) = 0 /\ Len(log) = 0 /\ got \in Seq(Item) /\ page \in Seq(Item)
    BY <2>1, <2>2
  <2>. HIDE DEF Init
  <2>4. ReaderTypeOK /\ PageIsNext /\ EndsAtEnd
    BY <2>2, <2>3 DEF ReaderTypeOK, PageIsNext, EndsAtEnd
  <2>5. UpToCursor
    <3>1. \A i \in 1..cursor : FALSE
      BY <2>2
    <3>. QED  BY <2>2, <2>3, <3>1 DEF UpToCursor
  <2>. QED  BY <2>4, <2>5
<1>. QED  BY <1>1, <1>2, <1>3, <1>4 DEF StreamInv, StoreInv, ReaderInv

---------------------------------------------------------------------------
\* The writer's side

LEMMA FreshTyped ==
  ASSUME NEW n \in 1..2, next \in Nat \ {0}
  PROVE  /\ Fresh(n) \in Seq(Item) /\ Len(Fresh(n)) = n /\ \A i \in 1..n : Fresh(n)[i] = next + i - 1
         /\ ToSet(Fresh(n)) \subseteq 1..(next + n - 1)
<1>1. Fresh(n) \in Seq(Item) /\ Len(Fresh(n)) = n /\ \A i \in 1..n : Fresh(n)[i] = next + i - 1
  BY DEF Fresh, Item
<1>. QED  BY <1>1 DEF ToSet, Fresh

\* What grows at its end still holds what it held.
LEMMA Grows ==
  ASSUME NEW s \in Seq(Item), NEW t \in Seq(Item)
  PROVE  /\ s \o t \in Seq(Item) /\ Len(s \o t) = Len(s) + Len(t)
         /\ \A i \in 1..Len(s) : (s \o t)[i] = s[i]
         /\ \A i \in 1..Len(t) : (s \o t)[Len(s) + i] = t[i]
  OBVIOUS

\* A step of the store leaves the reader where it is: a stream only grows while it is open.
LEMMA ReaderStays ==
  ASSUME ReaderInv, log \in Seq(Item), log' \in Seq(Item),
         UNCHANGED <<kind, reader, cursor, page, sawClosed, got, torn>>,
         row = "closed" => row' = "closed" /\ log' = log,
         Len(log) <= Len(log'), \A i \in 1..Len(log) : log'[i] = log[i]
  PROVE  ReaderInv'
<1>1. ReaderTypeOK' /\ EndsAtEnd'
  BY DEF ReaderInv, ReaderTypeOK, EndsAtEnd
<1>2. UpToCursor'
  BY DEF ReaderInv, ReaderTypeOK, UpToCursor
<1>3. PageIsNext'
  <2>. SUFFICES ASSUME kind # "memory" PROVE PageIsNext'
    BY DEF PageIsNext
  <2>1. ASSUME reader = "give"
        PROVE  cursor + Len(page) <= Len(log') /\ \A i \in 1..Len(page) : page[i] = log'[cursor + i]
    <3>1. cursor + Len(page) <= Len(log) /\ \A i \in 1..Len(page) : page[i] = log[cursor + i]
      BY <2>1 DEF ReaderInv, PageIsNext
    <3>2. ASSUME NEW i \in 1..Len(page) PROVE cursor + i \in 1..Len(log)
      BY <3>1 DEF ReaderInv, ReaderTypeOK
    <3>. QED  BY <3>1, <3>2 DEF ReaderInv, ReaderTypeOK
  <2>2. reader \in {"row", "give"} /\ sawClosed => row' = "closed" /\ log' = log
    BY DEF ReaderInv, PageIsNext
  <2>. QED  BY <2>1, <2>2 DEF ReaderInv, PageIsNext
<1>. QED  BY <1>1, <1>2, <1>3 DEF ReaderInv

\* n events more, or the end, at the end of a stream that is there and open.
LEMMA Grown ==
  ASSUME StreamInv, row = "open", ~dropped, dropped' = dropped, row' \in {"open", "closed"},
         NEW t \in Seq(Item), kept' = kept \o t, Logged
  PROVE  /\ log = kept /\ log' = kept'
         /\ kept' \in Seq(Item) /\ Len(kept') = Len(kept) + Len(t)
         /\ \A i \in 1..Len(kept) : kept'[i] = kept[i]
         /\ \A i \in 1..Len(t) : kept'[Len(kept) + i] = t[i]
  BY Grows DEF StreamInv, StoreInv, StoreTypeOK, Lifetime, Logged

\* An event that was in it still is.
LEMMA OldStay ==
  ASSUME Written, ~dropped, next \in Nat, Len(kept) \in Nat, Len(kept') \in Nat,
         Len(kept) <= Len(kept'), \A i \in 1..Len(kept) : kept'[i] = kept[i]
  PROVE  \A e \in Nat \ {0} : e < next => \E i \in 1..Len(kept') : kept'[i] = e
<1>. SUFFICES ASSUME NEW e \in Nat \ {0}, e < next PROVE \E i \in 1..Len(kept') : kept'[i] = e
  OBVIOUS
<1>1. PICK i \in 1..Len(kept) : kept[i] = e
  BY DEF Written
<1>. QED  BY <1>1

LEMMA OpensKeeps == StreamInv /\ Opens => StreamInv'
<1>. SUFFICES ASSUME StreamInv, Opens PROVE StreamInv'
  OBVIOUS
<1>1. log' = log
  BY DEF Opens, Logged, StreamInv, StoreInv, Lifetime, Gone
<1>2. StoreInv'
  BY <1>1 DEF Opens, StreamInv, StoreInv, StoreTypeOK, Lifetime, Locked, Written, Gone, Fresh
<1>3. ReaderInv'
  BY <1>1, ReaderStays DEF Opens, reading, StreamInv, StoreInv, StoreTypeOK
<1>. QED  BY <1>2, <1>3 DEF StreamInv

LEMMA AppendsKeeps == ASSUME StreamInv, kind # "prisma", NEW n \in 1..2, AppendsAtOnce(n) PROVE StreamInv'
<1>1. row = "open" /\ ~Gone /\ row' = row /\ Gone' = Gone /\ ~dropped /\ dropped' = dropped
  BY DEF AppendsAtOnce, Port!CanAppend, Stream, Port!NoStream, Gone
<1>2. Fresh(n) \in Seq(Item) /\ Len(Fresh(n)) = n /\ \A i \in 1..n : Fresh(n)[i] = next + i - 1
  BY FreshTyped DEF StreamInv, StoreInv, StoreTypeOK
<1>3. /\ log = kept /\ log' = kept'
      /\ kept' \in Seq(Item) /\ Len(kept') = Len(kept) + n
      /\ \A i \in 1..Len(kept) : kept'[i] = kept[i]
      /\ \A i \in 1..n : kept'[Len(kept) + i] = next + i - 1
  BY <1>1, <1>2, Grown DEF AppendsAtOnce
<1>4. StoreTypeOK' /\ Lifetime'
  BY <1>1, <1>3 DEF AppendsAtOnce, StreamInv, StoreInv, StoreTypeOK, Lifetime
<1>5. Locked'
  BY <1>1 DEF AppendsAtOnce, StreamInv, StoreInv, Locked
<1>6. Written'
  <2>1. told' \subseteq 1..(next' - 1)
    <3>1. ToSet(Fresh(n)) \subseteq 1..(next + n - 1) /\ next' - 1 = next + n - 1 /\ next - 1 <= next + n - 1
      BY FreshTyped DEF AppendsAtOnce, StreamInv, StoreInv, StoreTypeOK
    <3>2. told' = told \cup ToSet(Fresh(n)) /\ told \subseteq 1..(next - 1)
      BY DEF AppendsAtOnce, StreamInv, StoreInv, Written
    <3>3. 1..(next - 1) \subseteq 1..(next + n - 1)
      BY DEF StreamInv, StoreInv, StoreTypeOK
    <3>. QED  BY <3>1, <3>2, <3>3
  <2>2. ASSUME NEW e \in 1..(next' - 1)
        PROVE  \E i \in 1..Len(kept') : kept'[i] = e
    <3>1. CASE e < next
      BY <1>1, <1>3, <3>1, OldStay DEF StreamInv, StoreInv, StoreTypeOK
    <3>2. CASE e >= next
      <4>1. e - next + 1 \in 1..n /\ next + (e - next + 1) - 1 = e /\ Len(kept) \in Nat
        BY <3>2 DEF AppendsAtOnce, StreamInv, StoreInv, StoreTypeOK
      <4>. QED  BY <1>3, <4>1
    <3>. QED  BY <3>1, <3>2 DEF StreamInv, StoreInv, StoreTypeOK, AppendsAtOnce
  <2>. QED  BY <2>1, <2>2 DEF Written
<1>7. ReaderInv'
  BY <1>1, <1>3, ReaderStays DEF AppendsAtOnce, Wakes, StreamInv, StoreInv, StoreTypeOK
<1>. QED  BY <1>4, <1>5, <1>6, <1>7 DEF StreamInv, StoreInv

LEMMA FlowAppendsKeeps == ASSUME StreamInv, NEW n \in 1..2, FlowAppends(n) PROVE StreamInv'
  BY DEF FlowAppends, reading, StreamInv, StoreInv, StoreTypeOK, Lifetime, Locked, Written, Gone, Fresh,
         ReaderInv, ReaderTypeOK, UpToCursor, PageIsNext, EndsAtEnd

LEMMA FlowBatchKeeps == ASSUME StreamInv, FlowBatch PROVE StreamInv'
<1>1. CASE Port!CanAppend(Stream)
  <2>1. row = "open" /\ ~Gone /\ row' = row /\ Gone' = Gone /\ ~dropped /\ dropped' = dropped
    BY <1>1 DEF FlowBatch, Port!CanAppend, Stream, Port!NoStream, Gone
  <2>2. /\ kept' = Append(kept, next) /\ next' = next + 1 /\ sending' = sending - 1 /\ sending > 0
        /\ told' = IF sending = 1 THEN 1..next ELSE told
        /\ kind = "flow"
    BY <1>1 DEF FlowBatch
  <2>3. <<next>> \in Seq(Item) /\ kept' = kept \o <<next>> /\ Len(<<next>>) = 1 /\ <<next>>[1] = next
    BY <2>2 DEF StreamInv, StoreInv, StoreTypeOK, Item
  <2>4. /\ log = kept /\ log' = kept'
        /\ kept' \in Seq(Item) /\ Len(kept') = Len(kept) + 1
        /\ \A i \in 1..Len(kept) : kept'[i] = kept[i]
        /\ kept'[Len(kept) + 1] = next
    <3>1. Logged /\ row' \in {"open", "closed"}
      BY <2>1 DEF FlowBatch
    <3>. HIDE DEF Logged
    <3>2. Len(kept) \in Nat
      BY DEF StreamInv, StoreInv, StoreTypeOK
    <3>. DEFINE t == <<next>>
    <3>3. t \in Seq(Item) /\ Len(t) = 1 /\ t[1] = next /\ kept' = kept \o t
      BY <2>3
    <3>. HIDE DEF t
    <3>4. /\ log = kept /\ log' = kept' /\ kept' \in Seq(Item) /\ Len(kept') = Len(kept) + Len(t)
          /\ \A i \in 1..Len(kept) : kept'[i] = kept[i]
          /\ \A i \in 1..Len(t) : kept'[Len(kept) + i] = t[i]
      BY <2>1, <3>1, <3>3, Grown
    <3>. QED  BY <3>2, <3>3, <3>4
  <2>5. StoreTypeOK' /\ Lifetime'
    BY <2>1, <2>2, <2>4 DEF FlowBatch, StreamInv, StoreInv, StoreTypeOK, Lifetime
  <2>6. Locked'
    BY <2>1, <2>2 DEF FlowBatch, StreamInv, StoreInv, Locked
  <2>7. Written'
    <3>1. told' \subseteq 1..(next' - 1)
      BY <2>2 DEF StreamInv, StoreInv, StoreTypeOK, Written
    <3>2. ASSUME NEW e \in 1..(next' - 1)
          PROVE  \E i \in 1..Len(kept') : kept'[i] = e
      <4>1. CASE e < next
        BY <2>1, <2>4, <4>1, OldStay DEF StreamInv, StoreInv, StoreTypeOK
      <4>2. CASE e = next
        BY <2>4, <4>2 DEF StreamInv, StoreInv, StoreTypeOK
      <4>. QED  BY <2>2, <4>1, <4>2 DEF StreamInv, StoreInv, StoreTypeOK
    <3>. QED  BY <3>1, <3>2 DEF Written
  <2>8. ReaderInv'
    BY <2>1, <2>4, ReaderStays DEF FlowBatch, StreamInv, StoreInv, StoreTypeOK
  <2>. QED  BY <2>5, <2>6, <2>7, <2>8 DEF StreamInv, StoreInv
<1>2. CASE ~Port!CanAppend(Stream)
  <2>1. log' = log /\ UNCHANGED <<row, dropped, kept, told, next>> /\ Gone' = Gone
    BY <1>2 DEF FlowBatch, Logged, StreamInv, StoreInv, Lifetime, Gone
  <2>2. StoreInv'
    BY <1>2, <2>1 DEF FlowBatch, StreamInv, StoreInv, StoreTypeOK, Lifetime, Locked, Written, Fresh
  <2>3. ReaderInv'
    BY <2>1, ReaderStays DEF FlowBatch, StreamInv, StoreInv, StoreTypeOK
  <2>. QED  BY <2>2, <2>3 DEF StreamInv
<1>. QED  BY <1>1, <1>2

LEMMA ClosesKeeps == ASSUME StreamInv, kind # "prisma", Closes PROVE StreamInv'
<1>1. row = "open" /\ row' = "closed" /\ ~Gone /\ Gone' = Gone /\ ~dropped /\ dropped' = dropped
  BY DEF Closes, Gone
<1>2. <<End>> \in Seq(Item) /\ kept' = kept \o <<End>> /\ Len(<<End>>) = 1 /\ <<End>>[1] = End
  BY DEF Closes, End, StreamInv, StoreInv, StoreTypeOK, Item
<1>3. /\ log = kept /\ log' = kept'
      /\ kept' \in Seq(Item) /\ Len(kept') = Len(kept) + 1
      /\ \A i \in 1..Len(kept) : kept'[i] = kept[i]
      /\ kept'[Len(kept) + 1] = End
  <2>1. Logged
    BY DEF Closes
  <2>2. Len(kept) \in Nat
    BY DEF StreamInv, StoreInv, StoreTypeOK
  <2>. DEFINE t == <<End>>
  <2>3. t \in Seq(Item) /\ Len(t) = 1 /\ t[1] = End /\ kept' = kept \o t
    BY <1>2
  <2>. HIDE DEF t
  <2>4. /\ log = kept /\ log' = kept' /\ kept' \in Seq(Item) /\ Len(kept') = Len(kept) + Len(t)
        /\ \A i \in 1..Len(kept) : kept'[i] = kept[i]
        /\ \A i \in 1..Len(t) : kept'[Len(kept) + i] = t[i]
    BY <1>1, <2>1, <2>3, Grown
  <2>. QED  BY <2>2, <2>3, <2>4
<1>4. StoreTypeOK' /\ Lifetime'
  <2>1. Len(kept) \in Nat /\ log' # <<>>
    BY <1>3 DEF StreamInv, StoreInv, StoreTypeOK
  <2>. QED  BY <1>1, <1>3, <2>1 DEF Closes, StreamInv, StoreInv, StoreTypeOK, Lifetime
<1>7. Written'
  BY <1>1, <1>3, OldStay DEF Closes, StreamInv, StoreInv, StoreTypeOK, Written
<1>5. Locked'
  BY <1>1 DEF Closes, StreamInv, StoreInv, Locked
<1>6. ReaderInv'
  BY <1>1, <1>3, ReaderStays DEF Closes, StreamInv, StoreInv, StoreTypeOK
<1>. QED  BY <1>4, <1>5, <1>6, <1>7 DEF StreamInv, StoreInv

\* prisma's transactions.
LEMMA LockKeeps ==
  ASSUME StreamInv, NEW who \in {"writer", "closer"}, NEW w \in Seq(Item), Lock(who, w),
         who = "writer" => \E n \in 1..2 : w = Fresh(n), who = "closer" => w = <<End>>
  PROVE  StreamInv'
<1>1. row = "open" /\ ~Gone /\ holder = {}
  BY DEF Lock, CanLock, Port!CanAppend, Stream, Port!NoStream
<1>2. StoreTypeOK' /\ Lifetime' /\ Written'
  BY DEF Lock, StreamInv, StoreInv, StoreTypeOK, Lifetime, Written, Gone
<1>3. Locked'
  BY <1>1 DEF Lock, StreamInv, StoreInv, StoreTypeOK, Locked, Fresh, Gone
<1>4. ReaderInv'
  BY ReaderStays DEF Lock, reading, StreamInv, StoreInv, StoreTypeOK
<1>. QED  BY <1>2, <1>3, <1>4 DEF StreamInv, StoreInv

LEMMA CommitKeeps == ASSUME StreamInv, NEW who \in {"writer", "closer"}, Commit(who) PROVE StreamInv'
<1>1. /\ row = "open" /\ ~dropped /\ dropped' = dropped /\ kind = "prisma" /\ holder = {who}
      /\ row' \in {"open", "closed"} /\ Gone' = Gone
  BY DEF Commit, StreamInv, StoreInv, Locked, Gone
<1>2. pending[who] \in Seq(Item)
  BY DEF StreamInv, StoreInv, StoreTypeOK
<1>3. /\ log = kept /\ log' = kept'
      /\ kept' \in Seq(Item) /\ Len(kept') = Len(kept) + Len(pending[who])
      /\ \A i \in 1..Len(kept) : kept'[i] = kept[i]
      /\ \A i \in 1..Len(pending[who]) : kept'[Len(kept) + i] = pending[who][i]
  BY <1>1, <1>2, Grown DEF Commit
<1>4. ReaderInv'
  BY <1>1, <1>3, ReaderStays DEF Commit, StreamInv, StoreInv, StoreTypeOK
<1>5. holder' = {} /\ Locked'
  BY <1>1 DEF Commit, Locked
<1>6. CASE who = "writer"
  <2>1. PICK n \in 1..2 : pending["writer"] = Fresh(n)
    BY <1>1, <1>6 DEF StreamInv, StoreInv, Locked
  <2>2. Len(pending[who]) = n /\ \A i \in 1..n : pending[who][i] = next + i - 1
    BY <1>6, <2>1, FreshTyped DEF StreamInv, StoreInv, StoreTypeOK
  <2>3. StoreTypeOK' /\ Lifetime'
    BY <1>1, <1>3, <1>6, <2>2 DEF Commit, StreamInv, StoreInv, StoreTypeOK, Lifetime
  <2>4. told' \subseteq 1..(next' - 1)
    <3>1. ToSet(Fresh(n)) \subseteq 1..(next + n - 1) /\ next' - 1 = next + n - 1 /\ next - 1 <= next + n - 1
      BY <1>6, <2>2, FreshTyped DEF Commit, StreamInv, StoreInv, StoreTypeOK
    <3>2. told' = told \cup ToSet(Fresh(n)) /\ told \subseteq 1..(next - 1)
      BY <1>6, <2>1 DEF Commit, StreamInv, StoreInv, Written
    <3>3. 1..(next - 1) \subseteq 1..(next + n - 1)
      BY DEF StreamInv, StoreInv, StoreTypeOK
    <3>. QED  BY <3>1, <3>2, <3>3
  <2>5. ASSUME NEW e \in 1..(next' - 1)
        PROVE  \E i \in 1..Len(kept') : kept'[i] = e
    <3>1. CASE e < next
      BY <1>1, <1>3, <3>1, OldStay DEF StreamInv, StoreInv, StoreTypeOK
    <3>2. CASE e >= next
      <4>1. e - next + 1 \in 1..n /\ next + (e - next + 1) - 1 = e /\ Len(kept) \in Nat
        BY <1>6, <2>2, <3>2 DEF Commit, StreamInv, StoreInv, StoreTypeOK
      <4>. QED  BY <1>3, <2>2, <4>1
    <3>. QED  BY <3>1, <3>2, <1>6, <2>2 DEF Commit, StreamInv, StoreInv, StoreTypeOK
  <2>. QED  BY <1>4, <1>5, <2>3, <2>4, <2>5 DEF StreamInv, StoreInv, Written
<1>7. CASE who = "closer"
  <2>1. pending["closer"] = <<End>> /\ Len(<<End>>) = 1 /\ <<End>>[1] = End
    BY <1>1, <1>7 DEF StreamInv, StoreInv, Locked
  <2>2. StoreTypeOK' /\ Lifetime'
    BY <1>1, <1>3, <1>7, <2>1 DEF Commit, StreamInv, StoreInv, StoreTypeOK, Lifetime
  <2>3. Written'
    <3>1. UNCHANGED <<told, next>> /\ next \in Nat \ {0} /\ Len(kept) \in Nat /\ Len(kept') = Len(kept) + 1
      BY <1>3, <1>7, <2>1 DEF Commit, StreamInv, StoreInv, StoreTypeOK
    <3>2. \A e \in Nat \ {0} : e < next => \E i \in 1..Len(kept') : kept'[i] = e
      BY <1>1, <1>3, <3>1, OldStay DEF StreamInv, StoreInv
    <3>. QED  BY <3>1, <3>2 DEF StreamInv, StoreInv, Written
  <2>. QED  BY <1>4, <1>5, <2>2, <2>3 DEF StreamInv, StoreInv
<1>. QED  BY <1>6, <1>7

LEMMA RollsBackKeeps == ASSUME StreamInv, NEW who, RollsBack(who) PROVE StreamInv'
<1>1. StoreInv'
  BY DEF RollsBack, StreamInv, StoreInv, StoreTypeOK, Lifetime, Locked, Written, Gone, Fresh
<1>2. ReaderInv'
  BY ReaderStays DEF RollsBack, reading, StreamInv, StoreInv, StoreTypeOK
<1>. QED  BY <1>1, <1>2 DEF StreamInv

\* The stream goes.
LEMMA GoesKeeps == ASSUME StreamInv, Expires \/ DeletesEvents PROVE StreamInv'
<1>1. StoreInv'
  <2>1. StoreTypeOK' /\ Lifetime'
    BY DEF Expires, DeletesEvents, StreamInv, StoreInv, StoreTypeOK, Lifetime, Gone
  <2>2. UNCHANGED <<kind, row, kept, dropped, holder, pending, told, next>>
    BY DEF Expires, DeletesEvents
  <2>3. Locked'
    BY <2>2 DEF StreamInv, StoreInv, Locked, Fresh
  <2>4. Written'
    BY <2>2 DEF StreamInv, StoreInv, Written
  <2>. QED  BY <2>1, <2>3, <2>4 DEF StoreInv
<1>2. ReaderInv'
  BY ReaderStays DEF Expires, DeletesEvents, reading, StreamInv, StoreInv, StoreTypeOK
<1>. QED  BY <1>1, <1>2 DEF StreamInv

LEMMA RemovesKeeps ==
  ASSUME StreamInv, kind # "prisma", NEW left \in Seq(Item), Removes(left),
         kind = "memory" => left = kept
  PROVE  StreamInv'
<1>1. StoreInv'
  BY DEF Removes, StreamInv, StoreInv, StoreTypeOK, Lifetime, Locked, Written, Gone, Fresh
<1>2. ReaderInv'
  BY ReaderStays DEF Removes, StreamInv, StoreInv, StoreTypeOK
<1>. QED  BY <1>1, <1>2 DEF StreamInv

LEMMA DeletesRowKeeps == StreamInv /\ DeletesRow => StreamInv'
<1>. SUFFICES ASSUME StreamInv, DeletesRow PROVE StreamInv'
  OBVIOUS
<1>1. kept' \in Seq(Item)
  BY DEF DeletesRow, StreamInv, StoreInv, StoreTypeOK
<1>2. StoreInv'
  BY <1>1 DEF DeletesRow, StreamInv, StoreInv, StoreTypeOK, Lifetime, Locked, Written, Gone, Fresh
<1>3. ReaderInv'
  BY ReaderStays DEF DeletesRow, StreamInv, StoreInv, StoreTypeOK
<1>. QED  BY <1>2, <1>3 DEF StreamInv

---------------------------------------------------------------------------
\* The reader

\* A step of the reader leaves the store as it is.
LEMMA StoreStays == ASSUME StoreInv, UNCHANGED <<store, log>> PROVE StoreInv'
  BY DEF store, StoreInv, StoreTypeOK, Lifetime, Locked, Written, Gone, Fresh

\* The items after a cursor that is in the stream.
LEMMA AfterCursor ==
  ASSUME NEW s \in Seq(Item), NEW c \in Nat, c <= Len(s)
  PROVE  /\ After(s, c) \in Seq(Item) /\ Len(After(s, c)) = Len(s) - c
         /\ \A i \in 1..(Len(s) - c) : After(s, c)[i] = s[c + i]
  BY DEF After

LEMMA NothingAfter == ASSUME NEW c \in Nat PROVE After(<<>>, c) = <<>>
  BY DEF After

LEMMA StartsKeeps == StreamInv /\ Starts => StreamInv'
<1>. SUFFICES ASSUME StreamInv, Starts PROVE StreamInv'
  OBVIOUS
<1>1. cursor' \in Nat /\ cursor' <= Len(log)
  <2>1. Stream.items = <<>> \/ Stream.items = log
    BY DEF Stream, Port!NoStream, Gone, StreamInv, StoreInv, Lifetime
  <2>2. cursor' \in 0..Len(Stream.items)
    BY DEF Starts
  <2>3. CASE Stream.items = <<>>
    BY <2>2, <2>3 DEF StreamInv, StoreInv, StoreTypeOK
  <2>4. CASE Stream.items = log
    BY <2>2, <2>4 DEF StreamInv, StoreInv, StoreTypeOK
  <2>. QED  BY <2>1, <2>3, <2>4
<1>2. got' \in Seq(Item) /\ Len(got') = cursor' /\ \A i \in 1..cursor' : got'[i] = log[i]
  <2>1. got' = SubSeq(log, 1, cursor') /\ log \in Seq(Item)
    BY DEF Starts, StreamInv, StoreInv, StoreTypeOK
  <2>. DEFINE c == cursor'
  <2>2. c \in Int /\ 1 \in Int /\ c \in Nat
    BY <1>1
  <2>3. \A i \in 1..c : log[i] \in Item
    BY <1>1, <2>1
  <2>. HIDE DEF c
  <2>4. /\ SubSeq(log, 1, c) \in Seq(Item) /\ Len(SubSeq(log, 1, c)) = IF 1 <= c THEN c - 1 + 1 ELSE 0
        /\ \A i \in 1..(c - 1 + 1) : SubSeq(log, 1, c)[i] = log[1 + i - 1]
    BY <2>2, <2>3, SubSeqProperties
  <2>5. Len(SubSeq(log, 1, c)) = c /\ \A i \in 1..c : SubSeq(log, 1, c)[i] = log[i]
    BY <2>2, <2>4
  <2>. QED  BY <2>1, <2>4, <2>5 DEF c
<1>3. ReaderInv'
  BY <1>1, <1>2 DEF Starts, StreamInv, ReaderInv, ReaderTypeOK, UpToCursor, PageIsNext, EndsAtEnd
<1>. QED  BY <1>3, StoreStays DEF Starts, StreamInv

\* A look reads what comes after the cursor, or of a stream that is gone nothing.
LEMMA LooksKeeps ==
  ASSUME StreamInv, MemoryLooks \/ ScriptLooks \/ FlowLooks
  PROVE  StreamInv'
<1>1. UNCHANGED <<store, cursor, got, log, torn>> /\ sawClosed' = (row = "closed") /\ reader = "look"
  BY DEF MemoryLooks, ScriptLooks, FlowLooks, LooksAtOnce
<1>2. page' = After(kept, cursor) /\ reader' \in {"gone", "give", "wait", "ended"}
  BY DEF MemoryLooks, ScriptLooks, FlowLooks, LooksAtOnce, Finds, AtRest
<1>3. page' \in Seq(Item)
  BY <1>2 DEF After, StreamInv, StoreInv, StoreTypeOK, ReaderInv, ReaderTypeOK
<1>4. ASSUME ~Gone, row # "none"
      PROVE  /\ log = kept /\ Len(page') = Len(log) - cursor
             /\ \A i \in 1..Len(page') : page'[i] = log[cursor + i]
  <2>1. log = kept /\ kept \in Seq(Item) /\ cursor \in Nat /\ cursor <= Len(kept)
    BY <1>4 DEF Gone, StreamInv, StoreInv, StoreTypeOK, Lifetime, ReaderInv, ReaderTypeOK, UpToCursor
  <2>2. /\ Len(After(kept, cursor)) = Len(kept) - cursor
        /\ \A i \in 1..(Len(kept) - cursor) : After(kept, cursor)[i] = kept[cursor + i]
    BY <2>1, AfterCursor
  <2>. QED  BY <1>2, <2>1, <2>2
<1>5. reader' # "gone" => ~Gone /\ row # "none"
  BY DEF MemoryLooks, ScriptLooks, FlowLooks, LooksAtOnce, Finds
<1>6. ReaderTypeOK' /\ UpToCursor'
  BY <1>1, <1>2, <1>3 DEF StreamInv, ReaderInv, ReaderTypeOK, UpToCursor, store
<1>7. PageIsNext'
  <2>. SUFFICES ASSUME reader' = "give"
                PROVE  /\ cursor + Len(page') <= Len(log)
                       /\ \A i \in 1..Len(page') : page'[i] = log[cursor + i]
                       /\ page' = <<>> => cursor = Len(log)
    BY <1>1, <1>2 DEF PageIsNext, store
  <2>1. /\ log = kept /\ Len(page') = Len(log) - cursor
        /\ \A i \in 1..Len(page') : page'[i] = log[cursor + i]
    BY <1>4, <1>5
  <2>2. Len(log) \in Nat /\ cursor \in Nat
    BY DEF StreamInv, StoreInv, StoreTypeOK, ReaderInv, ReaderTypeOK
  <2>. QED  BY <2>1, <2>2
<1>8. EndsAtEnd'
  <2>1. SUFFICES ASSUME reader' = "ended", ~torn' PROVE got' # <<>> /\ got'[Len(got')] = End
    BY DEF EndsAtEnd
  <2>2. After(kept, cursor) = <<>> /\ row = "closed"
    BY <2>1 DEF MemoryLooks, ScriptLooks, FlowLooks, LooksAtOnce, Finds, AtRest
  <2>3. cursor = Len(log)
    BY <1>2, <1>4, <1>5, <2>1, <2>2 DEF StreamInv, StoreInv, StoreTypeOK, ReaderInv, ReaderTypeOK, UpToCursor
  <2>. QED  BY <1>1, <2>2, <2>3 DEF StreamInv, StoreInv, StoreTypeOK, Lifetime, ReaderInv, ReaderTypeOK, UpToCursor
<1>. QED  BY <1>1, <1>6, <1>7, <1>8, StoreStays DEF StreamInv, ReaderInv

LEMMA LooksAtRowKeeps == StreamInv /\ LooksAtRow => StreamInv'
<1>. SUFFICES ASSUME StreamInv, LooksAtRow PROVE StreamInv'
  OBVIOUS
<1>1. ReaderInv'
  BY DEF LooksAtRow, Finds, store, StreamInv, ReaderInv, ReaderTypeOK, UpToCursor, PageIsNext, EndsAtEnd
<1>. QED  BY <1>1, StoreStays DEF LooksAtRow, StreamInv

LEMMA LooksAtEventsKeeps == StreamInv /\ kind # "memory" /\ LooksAtEvents => StreamInv'
<1>. SUFFICES ASSUME StreamInv, kind # "memory", LooksAtEvents PROVE StreamInv'
  OBVIOUS
<1>1. /\ UNCHANGED <<store, cursor, sawClosed, got, log>> /\ reader = "row" /\ reader' = "give"
      /\ page' = (IF dropped THEN <<>> ELSE After(kept, cursor)) /\ torn' = (torn \/ dropped)
  BY DEF LooksAtEvents
<1>2. CASE dropped
  <2>1. page' = <<>> /\ torn'
    BY <1>1, <1>2
  <2>2. page' \in Seq(Item) /\ Len(page') = 0 /\ torn' \in BOOLEAN
    BY <2>1, EmptySeq
  <2>3. ReaderTypeOK' /\ UpToCursor' /\ EndsAtEnd'
    BY <1>1, <2>2 DEF StreamInv, ReaderInv, ReaderTypeOK, UpToCursor, EndsAtEnd
  <2>4. PageIsNext'
    BY <1>1, <2>1, <2>2 DEF store, StreamInv, ReaderInv, ReaderTypeOK, UpToCursor, PageIsNext
  <2>. QED  BY <1>1, <2>3, <2>4, StoreStays DEF StreamInv, ReaderInv
<1>3. CASE ~dropped
  <2>1. log = kept /\ cursor <= Len(kept) /\ cursor \in Nat /\ kept \in Seq(Item)
    BY <1>3 DEF StreamInv, StoreInv, StoreTypeOK, Lifetime, ReaderInv, ReaderTypeOK, UpToCursor
  <2>2. /\ page' \in Seq(Item) /\ Len(page') = Len(log) - cursor
        /\ \A i \in 1..(Len(log) - cursor) : page'[i] = log[cursor + i]
    BY <1>1, <1>3, <2>1, AfterCursor
  <2>3. ReaderTypeOK' /\ UpToCursor' /\ EndsAtEnd'
    BY <1>1, <2>2 DEF StreamInv, ReaderInv, ReaderTypeOK, UpToCursor, EndsAtEnd
  <2>4. PageIsNext'
    BY <1>1, <2>1, <2>2 DEF store, StreamInv, ReaderInv, ReaderTypeOK, PageIsNext
  <2>. QED  BY <1>1, <2>3, <2>4, StoreStays DEF StreamInv, ReaderInv
<1>. QED  BY <1>2, <1>3

\* What the reader has before it is the stream after its cursor.
LEMMA BeforeIsNext ==
  ASSUME StreamInv, reader = "give"
  PROVE  /\ Before \in Seq(Item) /\ cursor + Len(Before) <= Len(log)
         /\ \A i \in 1..Len(Before) : Before[i] = log[cursor + i]
         /\ Before = <<>> /\ SeesEnd /\ ~torn => row = "closed" /\ cursor = Len(log)
<1>1. CASE kind = "memory"
  <2>1. log = kept /\ cursor <= Len(kept) /\ cursor \in Nat /\ kept \in Seq(Item) /\ Before = After(kept, cursor)
    BY <1>1 DEF Before, StreamInv, StoreInv, StoreTypeOK, Lifetime, ReaderInv, ReaderTypeOK, UpToCursor
  <2>2. /\ Before \in Seq(Item) /\ Len(Before) = Len(log) - cursor
        /\ \A i \in 1..(Len(log) - cursor) : Before[i] = log[cursor + i]
    BY <2>1, AfterCursor
  <2>. QED  BY <1>1, <2>1, <2>2 DEF SeesEnd
<1>2. CASE kind # "memory"
  BY <1>2 DEF Before, SeesEnd, StreamInv, ReaderInv, ReaderTypeOK, PageIsNext
<1>. QED  BY <1>1, <1>2

LEMMA GivesKeeps == StreamInv /\ Gives => StreamInv'
<1>. SUFFICES ASSUME StreamInv, Gives PROVE StreamInv'
  OBVIOUS
<1>. DEFINE b == Before
<1>1. /\ b # <<>> /\ got' = Append(got, Head(b)) /\ cursor' = cursor + 1 /\ page' = Tail(b)
      /\ reader' = IF Head(b) = End THEN "ended"
                   ELSE IF kind # "memory" /\ Len(b) = 1 THEN "look" ELSE "give"
      /\ UNCHANGED <<store, sawClosed, log, torn>> /\ reader = "give"
  BY DEF Gives
<1>2. b \in Seq(Item) /\ cursor + Len(b) <= Len(log) /\ \A i \in 1..Len(b) : b[i] = log[cursor + i]
  BY <1>1, BeforeIsNext
<1>. HIDE DEF b
<1>3. /\ Len(b) \in Nat \ {0} /\ Head(b) = log[cursor + 1] /\ Head(b) \in Item
      /\ Tail(b) \in Seq(Item) /\ Len(Tail(b)) = Len(b) - 1
      /\ \A i \in 1..(Len(b) - 1) : Tail(b)[i] = b[i + 1]
  BY <1>1, <1>2
<1>4. /\ got' \in Seq(Item) /\ Len(got') = cursor + 1 /\ got'[cursor + 1] = Head(b)
      /\ \A i \in 1..cursor : got'[i] = got[i]
  BY <1>1, <1>3 DEF StreamInv, ReaderInv, ReaderTypeOK, UpToCursor
<1>5. ReaderTypeOK'
  BY <1>1, <1>3, <1>4 DEF StreamInv, ReaderInv, ReaderTypeOK
<1>6. UpToCursor'
  BY <1>1, <1>2, <1>3, <1>4 DEF StreamInv, StoreInv, StoreTypeOK, ReaderInv, ReaderTypeOK, UpToCursor
<1>7. PageIsNext'
  <2>1. ASSUME kind # "memory", reader' = "give"
        PROVE  page' # <<>> /\ cursor' + Len(page') <= Len(log) /\ \A i \in 1..Len(page') : page'[i] = log[cursor' + i]
    <3>1. Len(b) > 1
      BY <1>1, <1>3, <2>1
    <3>2. ASSUME NEW i \in 1..(Len(b) - 1) PROVE Tail(b)[i] = log[cursor + 1 + i]
      <4>1. i + 1 \in 1..Len(b) /\ cursor + (i + 1) = cursor + 1 + i
        BY <1>3 DEF StreamInv, ReaderInv, ReaderTypeOK
      <4>. QED  BY <1>2, <1>3, <4>1
    <3>3. page' = Tail(b) /\ cursor' = cursor + 1 /\ Len(page') = Len(b) - 1 /\ cursor \in Nat
      BY <1>1, <1>3 DEF StreamInv, ReaderInv, ReaderTypeOK
    <3>4. page' # <<>>
      <4>1. Len(page') # 0
        BY <1>3, <3>1, <3>3
      <4>. QED  BY <4>1, EmptySeq
    <3>5. cursor' + Len(page') <= Len(log)
      BY <1>2, <1>3, <3>3
    <3>. QED  BY <3>2, <3>3, <3>4, <3>5
  <2>2. reader' # "row" /\ (kind # "memory" /\ sawClosed => row = "closed")
    BY <1>1 DEF StreamInv, ReaderInv, PageIsNext
  <2>. QED  BY <1>1, <2>1, <2>2 DEF PageIsNext, store
<1>8. EndsAtEnd'
  BY <1>1, <1>4 DEF EndsAtEnd, StreamInv, ReaderInv, ReaderTypeOK
<1>. QED  BY <1>1, <1>5, <1>6, <1>7, <1>8, StoreStays DEF StreamInv, ReaderInv

LEMMA WaitsKeeps == StreamInv /\ Waits => StreamInv'
<1>. SUFFICES ASSUME StreamInv, Waits PROVE StreamInv'
  OBVIOUS
<1>1. UNCHANGED <<store, cursor, page, sawClosed, got, log, torn>> /\ reader' \in {"ended", "wait"}
  BY DEF Waits, AtRest
<1>2. ReaderTypeOK' /\ UpToCursor' /\ PageIsNext'
  BY <1>1 DEF store, StreamInv, ReaderInv, ReaderTypeOK, UpToCursor, PageIsNext
<1>3. EndsAtEnd'
  <2>. SUFFICES ASSUME reader' = "ended", ~torn' PROVE got' # <<>> /\ got'[Len(got')] = End
    BY DEF EndsAtEnd
  <2>1. row = "closed" /\ cursor = Len(log)
    BY <1>1, BeforeIsNext DEF Waits, AtRest
  <2>. QED  BY <1>1, <2>1 DEF StreamInv, StoreInv, StoreTypeOK, Lifetime, ReaderInv, ReaderTypeOK, UpToCursor
<1>. QED  BY <1>1, <1>2, <1>3, StoreStays DEF StreamInv, ReaderInv

LEMMA LooksAgainKeeps == StreamInv /\ LooksAgain => StreamInv'
<1>. SUFFICES ASSUME StreamInv, LooksAgain PROVE StreamInv'
  OBVIOUS
<1>1. ReaderInv'
  BY DEF LooksAgain, store, StreamInv, ReaderInv, ReaderTypeOK, UpToCursor, PageIsNext, EndsAtEnd
<1>. QED  BY <1>1, StoreStays DEF LooksAgain, StreamInv

---------------------------------------------------------------------------
\* Every step.

LEMMA MemoryKeeps == StreamInv /\ Memory => StreamInv'
<1>. SUFFICES ASSUME StreamInv, Memory PROVE StreamInv'
  OBVIOUS
<1>1. CASE MemoryOpens
  BY <1>1, OpensKeeps DEF MemoryOpens
<1>2. CASE MemoryCloses
  BY <1>2, ClosesKeeps DEF MemoryCloses
<1>3. CASE MemoryDrops
  <2>1. kind = "memory" /\ Removes(kept) /\ kept \in Seq(Item)
    BY <1>3 DEF MemoryDrops, StreamInv, StoreInv, StoreTypeOK
  <2>. QED  BY <2>1, RemovesKeeps
<1>4. CASE MemoryLooks
  BY <1>4, LooksKeeps
<1>5. CASE MemoryWakes
  BY <1>5, LooksAgainKeeps DEF MemoryWakes
<1>6. CASE \E n \in 1..2 : MemoryAppends(n)
  BY <1>6, AppendsKeeps DEF MemoryAppends
<1>. QED  BY <1>1, <1>2, <1>3, <1>4, <1>5, <1>6 DEF Memory

LEMMA SqliteKeeps == StreamInv /\ Sqlite => StreamInv'
<1>. SUFFICES ASSUME StreamInv, Sqlite PROVE StreamInv'
  OBVIOUS
<1>1. CASE SqliteOpens
  BY <1>1, OpensKeeps DEF SqliteOpens
<1>2. CASE SqliteCloses
  BY <1>2, ClosesKeeps DEF SqliteCloses
<1>3. CASE SqliteRemoves
  BY <1>3, RemovesKeeps, EmptySeq DEF SqliteRemoves
<1>4. CASE SqlitePages
  BY <1>4, LooksAtRowKeeps, LooksAtEventsKeeps DEF SqlitePages
<1>5. CASE SqliteWakes
  BY <1>5, LooksAgainKeeps DEF SqliteWakes
<1>6. CASE \E n \in 1..2 : SqliteAppends(n)
  BY <1>6, AppendsKeeps DEF SqliteAppends
<1>. QED  BY <1>1, <1>2, <1>3, <1>4, <1>5, <1>6 DEF Sqlite

LEMMA PrismaKeeps == StreamInv /\ Prisma => StreamInv'
<1>. SUFFICES ASSUME StreamInv, Prisma PROVE StreamInv'
  OBVIOUS
<1>1. CASE PrismaOpens
  BY <1>1, OpensKeeps DEF PrismaOpens
<1>2. CASE PrismaClose
  <2>1. <<End>> \in Seq(Item)
    BY DEF End, Item
  <2>. QED  BY <1>2, <2>1, LockKeeps DEF PrismaClose
<1>3. CASE \E n \in 1..2 : PrismaAppend(n)
  <2>1. PICK n \in 1..2 : PrismaAppend(n)
    BY <1>3
  <2>2. Fresh(n) \in Seq(Item)
    BY FreshTyped DEF StreamInv, StoreInv, StoreTypeOK
  <2>. QED  BY <2>1, <2>2, LockKeeps DEF PrismaAppend
<1>4. CASE DeletesEvents
  BY <1>4, GoesKeeps
<1>5. CASE DeletesRow
  BY <1>5, DeletesRowKeeps
<1>6. CASE PrismaPages
  BY <1>6, LooksAtRowKeeps, LooksAtEventsKeeps DEF PrismaPages
<1>7. CASE PrismaWakes
  BY <1>7, LooksAgainKeeps DEF PrismaWakes
<1>8. CASE \E who \in {"writer", "closer"} : Commit(who) \/ RollsBack(who)
  BY <1>8, CommitKeeps, RollsBackKeeps
<1>. QED  BY <1>1, <1>2, <1>3, <1>4, <1>5, <1>6, <1>7, <1>8 DEF Prisma

LEMMA ScriptedKeeps == StreamInv /\ Scripted => StreamInv'
<1>. SUFFICES ASSUME StreamInv, Scripted PROVE StreamInv'
  OBVIOUS
<1>1. CASE ScriptOpens
  BY <1>1, OpensKeeps DEF ScriptOpens
<1>2. CASE ScriptCloses
  BY <1>2, ClosesKeeps DEF ScriptCloses
<1>3. CASE ScriptDeletes
  BY <1>3, RemovesKeeps, EmptySeq DEF ScriptDeletes
<1>4. CASE ScriptLooks
  BY <1>4, LooksKeeps
<1>5. CASE TailWakes
  BY <1>5, LooksAgainKeeps DEF TailWakes
<1>6. CASE \E n \in 1..2 : ScriptAppends(n)
  BY <1>6, AppendsKeeps DEF ScriptAppends
<1>. QED  BY <1>1, <1>2, <1>3, <1>4, <1>5, <1>6 DEF Scripted

LEMMA FlowKeeps == StreamInv /\ Flow => StreamInv'
<1>. SUFFICES ASSUME StreamInv, Flow PROVE StreamInv'
  OBVIOUS
<1>1. CASE FlowOpens
  BY <1>1, OpensKeeps DEF FlowOpens
<1>2. CASE FlowCloses
  BY <1>2, ClosesKeeps DEF FlowCloses
<1>3. CASE FlowDeletes
  BY <1>3, RemovesKeeps, EmptySeq DEF FlowDeletes
<1>4. CASE FlowLooks
  BY <1>4, LooksKeeps
<1>5. CASE FlowWakes
  BY <1>5, LooksAgainKeeps DEF FlowWakes
<1>6. CASE FlowBatch
  BY <1>6, FlowBatchKeeps
<1>7. CASE \E n \in 1..2 : FlowAppends(n)
  BY <1>7, FlowAppendsKeeps
<1>. QED  BY <1>1, <1>2, <1>3, <1>4, <1>5, <1>6, <1>7 DEF Flow

LEMMA StreamSteps == StreamInv /\ [Next]_vars => StreamInv'
<1>. SUFFICES ASSUME StreamInv, [Next]_vars PROVE StreamInv'
  OBVIOUS
<1>1. CASE Memory \/ Sqlite \/ Prisma \/ Scripted \/ Flow
  BY <1>1, MemoryKeeps, SqliteKeeps, PrismaKeeps, ScriptedKeeps, FlowKeeps
<1>2. CASE Expires
  BY <1>2, GoesKeeps
<1>3. CASE Starts \/ Gives \/ Waits
  BY <1>3, StartsKeeps, GivesKeeps, WaitsKeeps
<1>4. CASE UNCHANGED vars
  <2>1. UNCHANGED <<store, log>> /\ UNCHANGED <<kind, reader, cursor, page, sawClosed, got, torn>>
    BY <1>4 DEF vars, reading, store
  <2>2. ReaderInv'
    BY <2>1 DEF store, StreamInv, ReaderInv, ReaderTypeOK, UpToCursor, PageIsNext, EndsAtEnd
  <2>. QED  BY <2>1, <2>2, StoreStays DEF StreamInv
<1>. QED  BY <1>1, <1>2, <1>3, <1>4 DEF Next

\* The invariant says what a reader is promised.
LEMMA InvIsExact == StreamInv => ReadsExact
<1>. SUFFICES ASSUME StreamInv PROVE ReadsExact
  OBVIOUS
<1>1. /\ got \in Seq(Item) /\ log \in Seq(Item) /\ kept \in Seq(Item) /\ cursor \in Nat
      /\ Len(got) = cursor /\ cursor <= Len(log) /\ \A i \in 1..cursor : got[i] = log[i]
  BY DEF StreamInv, StoreInv, StoreTypeOK, ReaderInv, ReaderTypeOK, UpToCursor
<1>2. IsPrefix(got, log)
  <2>1. /\ SubSeq(got, 1, cursor) \in Seq(Item) /\ Len(SubSeq(got, 1, cursor)) = cursor
        /\ \A i \in 1..cursor : SubSeq(got, 1, cursor)[i] = got[i]
    BY <1>1
  <2>2. /\ SubSeq(log, 1, cursor) \in Seq(Item) /\ Len(SubSeq(log, 1, cursor)) = cursor
        /\ \A i \in 1..cursor : SubSeq(log, 1, cursor)[i] = log[i]
    BY <1>1
  <2>3. SubSeq(got, 1, cursor) = SubSeq(log, 1, cursor)
    BY <1>1, <2>1, <2>2, SeqEqual
  <2>. QED  BY <1>1, <2>3 DEF IsPrefix
<1>3. reader = "ended" /\ ~torn => got # <<>> /\ Last(got) = End
  BY DEF StreamInv, ReaderInv, EndsAtEnd, Last
<1>4. ASSUME row # "none", ~Gone PROVE told \subseteq ToSet(Stream.items)
  <2>1. Stream.items = kept /\ ~dropped
    BY <1>4 DEF Stream, Gone
  <2>2. ASSUME NEW e \in told PROVE \E i \in 1..Len(kept) : kept[i] = e
    BY <2>1 DEF StreamInv, StoreInv, Written
  <2>3. ToSet(kept) = {kept[i] : i \in 1..Len(kept)}
    BY <1>1 DEF ToSet
  <2>. QED  BY <2>1, <2>2, <2>3
<1>. QED  BY <1>2, <1>3, <1>4 DEF ReadsExact

\* A reader of any adapter gives out the stream from its cursor, each item once and none
\* skipped, however appends, closes, expiries and deletes come between its reads, and ends only
\* after the end item; what the writer was told is written is in the stream while it is there.
THEOREM ReadersAreExact == Spec => []ReadsExact
<1>. QED  BY StreamStarts, StreamSteps, InvIsExact, PTL DEF Spec

---------------------------------------------------------------------------
\* Each step, as the port says it.

\* A step that leaves the stream's row, items and life alone leaves the stream alone.
LEMMA SameStream == ASSUME UNCHANGED <<row, kept, over, dropped>> PROVE UNCHANGED Stream
  BY DEF Stream, Gone

LEMMA OpensAsPort == ASSUME StreamInv, Opens PROVE KeepsContract
<1>1. CASE row = "none"
  <2>1. kept = <<>> /\ row' = "open" /\ kept' = <<>> /\ ~Gone'
    BY <1>1 DEF Opens, StreamInv, StoreInv, Lifetime, Gone
  <2>. QED  BY <1>1, <2>1 DEF KeepsContract, Stream, Port!NoStream, Port!Opened
<1>2. CASE row # "none"
  <2>1. UNCHANGED Stream
    BY <1>2, SameStream DEF Opens
  <2>2. Stream.state # "absent"
    BY <1>2 DEF Stream, StreamInv, StoreInv, StoreTypeOK
  <2>. QED  BY <2>1, <2>2 DEF KeepsContract, Port!Opened
<1>. QED  BY <1>1, <1>2

\* n events more, in an open stream.
LEMMA AppendsAsPort ==
  ASSUME row = "open", row' = "open", ~Gone, ~Gone', NEW n \in 1..2, kept' = kept \o Fresh(n)
  PROVE  KeepsContract
<1>1. Stream = [state |-> "open", items |-> kept] /\ Stream' = [state |-> "open", items |-> kept \o Fresh(n)]
  BY DEF Stream
<1>2. Stream' = Port!Appended(Stream, Fresh(n))
  BY <1>1 DEF Port!Appended
<1>3. Port!CanAppend(Stream)
  BY <1>1 DEF Port!CanAppend
<1>. QED  BY <1>2, <1>3 DEF KeepsContract

LEMMA ClosesAsPort ==
  ASSUME row = "open", row' = "closed", ~Gone, ~Gone', kept \in Seq(Item), kept' = Append(kept, End)
  PROVE  KeepsContract
  BY DEF Stream, KeepsContract, Port!Closed

\* A stream that goes, or had gone.
LEMMA GoesAsPort == ASSUME StreamInv, row # "none", row' = row, Gone' PROVE KeepsContract \/ UNCHANGED Stream
  BY DEF StreamInv, StoreInv, StoreTypeOK, Stream, KeepsContract, Port!Expired

LEMMA AtOnceAsPort == ASSUME StreamInv, NEW n \in 1..2, AppendsAtOnce(n) PROVE KeepsContract
<1>1. row = "open" /\ ~Gone /\ row' = row /\ ~Gone' /\ kept' = kept \o Fresh(n)
  BY DEF AppendsAtOnce, Port!CanAppend, Stream, Port!NoStream, Gone
<1>. QED  BY <1>1, AppendsAsPort

LEMMA BatchAsPort == ASSUME StreamInv, FlowBatch PROVE KeepsContract \/ UNCHANGED Stream
<1>1. CASE Port!CanAppend(Stream)
  <2>1. row = "open" /\ ~Gone /\ row' = row /\ ~Gone' /\ kept' = Append(kept, next)
    BY <1>1 DEF FlowBatch, Port!CanAppend, Stream, Port!NoStream, Gone
  <2>2. Fresh(1) = <<next>>
    <3>1. next \in Nat
      BY DEF StreamInv, StoreInv, StoreTypeOK
    <3>2. Fresh(1) \in Seq(Nat) /\ Len(Fresh(1)) = 1 /\ Fresh(1)[1] = next
      BY <3>1 DEF Fresh
    <3>3. <<next>> \in Seq(Nat) /\ Len(<<next>>) = 1 /\ <<next>>[1] = next
      BY <3>1
    <3>. QED  BY <3>2, <3>3, SeqEqual
  <2>3. kept' = kept \o Fresh(1)
    <3>1. kept \in Seq(Nat) /\ next \in Nat
      BY DEF StreamInv, StoreInv, StoreTypeOK, Item
    <3>2. Append(kept, next) = kept \o <<next>>
      BY <3>1
    <3>. QED  BY <2>1, <2>2, <3>2
  <2>. QED  BY <2>1, <2>3, AppendsAsPort
<1>2. CASE ~Port!CanAppend(Stream)
  BY <1>2, SameStream DEF FlowBatch
<1>. QED  BY <1>1, <1>2

LEMMA ClosesAtOnceAsPort == ASSUME StreamInv, Closes PROVE KeepsContract
<1>1. row = "open" /\ row' = "closed" /\ ~Gone /\ ~Gone' /\ kept' = Append(kept, End) /\ kept \in Seq(Item)
  BY DEF Closes, Gone, StreamInv, StoreInv, StoreTypeOK
<1>. QED  BY <1>1, ClosesAsPort

LEMMA CommitAsPort ==
  ASSUME StreamInv, NEW who \in {"writer", "closer"}, Commit(who)
  PROVE  KeepsContract \/ UNCHANGED Stream
<1>1. row = "open" /\ ~dropped /\ dropped' = dropped /\ over' = over /\ kept' = kept \o pending[who]
  BY DEF Commit, StreamInv, StoreInv, Locked
<1>2. CASE over
  BY <1>1, <1>2 DEF Stream, Gone, Commit
<1>3. CASE ~over /\ who = "writer"
  <2>1. PICK n \in 1..2 : pending["writer"] = Fresh(n)
    BY <1>3 DEF Commit, StreamInv, StoreInv, Locked
  <2>2. ~Gone /\ ~Gone' /\ row' = "open" /\ kept' = kept \o Fresh(n)
    BY <1>1, <1>3, <2>1 DEF Commit, Gone
  <2>. QED  BY <1>1, <2>2, AppendsAsPort
<1>4. CASE ~over /\ who = "closer"
  <2>1. pending["closer"] = <<End>>
    BY <1>4 DEF Commit, StreamInv, StoreInv, Locked
  <2>2. ~Gone /\ ~Gone' /\ row' = "closed" /\ kept \in Seq(Item)
    BY <1>1, <1>4 DEF Commit, Gone, StreamInv, StoreInv, StoreTypeOK
  <2>3. kept' = Append(kept, End)
    BY <1>1, <1>4, <2>1, <2>2 DEF End, Item
  <2>. QED  BY <1>1, <2>2, <2>3, ClosesAsPort
<1>. QED  BY <1>2, <1>3, <1>4

\* Whoever holds the row's lock or looks changes nothing the callers see.
LEMMA OthersKeepStream ==
  ASSUME \/ \E n \in 1..2 : PrismaAppend(n) \/ FlowAppends(n)
         \/ PrismaClose \/ DeletesEvents
         \/ \E who \in {"writer", "closer"} : RollsBack(who)
         \/ MemoryLooks \/ ScriptLooks \/ FlowLooks \/ SqlitePages \/ PrismaPages
         \/ LooksAgain \/ Starts \/ Gives \/ Waits
  PROVE  UNCHANGED Stream
<1>1. UNCHANGED <<row, kept, over, dropped>>
  BY DEF PrismaAppend, PrismaClose, Lock, FlowAppends, DeletesEvents, RollsBack, MemoryLooks, ScriptLooks,
         FlowLooks, LooksAtOnce, SqlitePages, PrismaPages, LooksAtRow, LooksAtEvents, LooksAgain, Starts,
         Gives, Waits, store
<1>. QED  BY <1>1, SameStream

LEMMA StepsAsPort == StreamInv /\ [Next]_vars => [KeepsContract]_Stream
<1>. SUFFICES ASSUME StreamInv, [Next]_vars PROVE KeepsContract \/ UNCHANGED Stream
  OBVIOUS
<1>1. CASE MemoryOpens \/ SqliteOpens \/ PrismaOpens \/ ScriptOpens \/ FlowOpens
  BY <1>1, OpensAsPort DEF MemoryOpens, SqliteOpens, PrismaOpens, ScriptOpens, FlowOpens
<1>2. CASE \E n \in 1..2 : MemoryAppends(n) \/ SqliteAppends(n) \/ ScriptAppends(n)
  BY <1>2, AtOnceAsPort DEF MemoryAppends, SqliteAppends, ScriptAppends
<1>3. CASE MemoryCloses \/ SqliteCloses \/ ScriptCloses \/ FlowCloses
  BY <1>3, ClosesAtOnceAsPort DEF MemoryCloses, SqliteCloses, ScriptCloses, FlowCloses
<1>4. CASE FlowBatch
  BY <1>4, BatchAsPort
<1>5. CASE \E who \in {"writer", "closer"} : Commit(who)
  BY <1>5, CommitAsPort
<1>6. CASE Expires \/ MemoryDrops \/ SqliteRemoves \/ ScriptDeletes \/ FlowDeletes \/ DeletesRow
  <2>1. row # "none" /\ row' = row /\ Gone'
    BY <1>6 DEF Expires, MemoryDrops, SqliteRemoves, ScriptDeletes, FlowDeletes, Removes, DeletesRow, Gone
  <2>. QED  BY <2>1, GoesAsPort
<1>7. CASE \/ \E n \in 1..2 : PrismaAppend(n) \/ FlowAppends(n)
           \/ PrismaClose \/ DeletesEvents
           \/ \E who \in {"writer", "closer"} : RollsBack(who)
           \/ MemoryLooks \/ ScriptLooks \/ FlowLooks \/ SqlitePages \/ PrismaPages
           \/ MemoryWakes \/ SqliteWakes \/ PrismaWakes \/ FlowWakes \/ TailWakes
           \/ Starts \/ Gives \/ Waits
  BY <1>7, OthersKeepStream DEF MemoryWakes, SqliteWakes, PrismaWakes, FlowWakes, TailWakes
<1>8. CASE UNCHANGED vars
  BY <1>8, SameStream DEF vars, store
<1>. QED  BY <1>1, <1>2, <1>3, <1>4, <1>5, <1>6, <1>7, <1>8
          DEF Next, Memory, Sqlite, Prisma, Scripted, Flow

\* Every step of every adapter, with transactions, batches, expiry and deletes in any order,
\* changes the stream only as the port says: opened once, grown at its end, closed by one end
\* item that stays the last, gone for good.
THEOREM StreamsImplementPort == Spec => StreamsKeepContract
<1>. QED  BY StreamStarts, StreamSteps, StepsAsPort, PTL DEF Spec, StreamsKeepContract
=============================================================================
