----------------------------- MODULE PortProofs -----------------------------
\* Every adapter of KvStores implements KvPort, for any callers, values and number of
\* calls, but for what KvStores!Slips names.  Redis and sqlite compare and write in one
\* step.  MemoryKv compares with what its get() returned a step ago: while the key has not
\* changed since, its call is the port's, and if it has, the call slips.
\*
\* And every adapter of Buses lets in only who will hear what is published, as long as
\* RedisBus's calls come one after another.
\*
\* A run's settle hook has effect once, for any settlers, attempts and number of faults.
\* The claim's token is a lock that may lapse.  While none lapsed under its holder, whoever
\* calls the hook or marks the run holds a fresh claim (Holds), so there is one of them;
\* and while no mark was lost, a hook that had its effect has been marked, or its settler
\* is about to (Counted).
\*
\* And a sandbox is its run's alone, and somebody has its id for as long as it is up.
\*
\* And a queue keeps a job it took until it is withdrawn or handed on, and tells its caller
\* the truth about it.
EXTENDS KvStores, Buses, SettleClaims, Sandboxes, FlowQueue, LocalQueues,
        FiniteSetTheorems, WellFoundedInduction, TLAPS

\* The calls, by what they carry.
Bare == [op : {"del", "incr"}]
Stamped == [op : {"incrWithExpiry"}, ttl : {TRUE}]
Setting == [op : {"set", "setNew"}, value : KvValues, ttl : BOOLEAN]
SettingIf == [op : {"setIf"}, expected : KvValues, value : KvValues, ttl : BOOLEAN]
DeletingIf == [op : {"delIf"}, expected : KvValues]

Entries == [value : Nat \ {0}, expiry : {"never", "ahead", "past"}]
Shown == [value : Nat \ {0}, ttl : BOOLEAN]

KvReads == [value : Nat \cup {Null}, turn : Nat]

\* Values are counters and owners that count from one (Redis takes a counter that comes
\* to 1 for a new one), and Null is no value, entry, read or call.
PlainKv ==
  /\ KvValues \subseteq Nat \ {0}
  /\ Null \notin Nat \cup Entries \cup Shown \cup Calls \cup KvReads

KvInv ==
  /\ cell \in Entries \cup {Null}
  /\ asked \in [KvCallers -> Calls \cup {Null}]
  /\ saw \in [KvCallers -> KvReads \cup {Null}]
  /\ calls \in Nat
  \* Who awaits has read.
  /\ \A c \in KvCallers : asked[c] # Null /\ TwoStep(asked[c]) => saw[c] \in KvReads

-----------------------------------------------------------------------------

\* What the port is shown is Null just when nothing is live.
LEMMA ShownIs ==
  ASSUME PlainKv, cell \in Entries \cup {Null}
  PROVE  /\ View = Null <=> ~Live(cell)
         /\ Live(cell) => /\ cell \in Entries
                          /\ View.value = cell.value
                          /\ View.ttl = (cell.expiry = "ahead")
         /\ Value(cell) = Null <=> ~Live(cell)
         /\ Value(cell) \in Nat \cup {Null}
<1>1. CASE ~Live(cell)
  BY <1>1 DEF View, Value
<1>2. CASE Live(cell)
  <2>1. cell \in Entries /\ cell.value \in Nat \ {0}
    BY <1>2 DEF Live, Entries
  <2>2. View = [value |-> cell.value, ttl |-> cell.expiry = "ahead"] /\ Value(cell) = cell.value
    BY <1>2 DEF View, Value
  <2>3. View \in Shown
    BY <2>1, <2>2 DEF Shown
  <2>. QED  BY <1>2, <2>1, <2>2, <2>3 DEF PlainKv
<1>. QED  BY <1>1, <1>2

\* What a call carries.
LEMMA CallIs ==
  ASSUME PlainKv, NEW k \in Calls
  PROVE  /\ k # Null
         /\ k.op \in {"set", "setNew", "setIf"} => k.value \in Nat \ {0} /\ k.ttl \in BOOLEAN
         /\ k.op \in {"setIf", "delIf"} => k.expected \in Nat \ {0}
<1>1. k \in Bare \cup Stamped \cup Setting \cup SettingIf \cup DeletingIf
  BY DEF Calls, Bare, Stamped, Setting, SettingIf, DeletingIf
<1>. QED  BY <1>1 DEF PlainKv, Bare, Stamped, Setting, SettingIf, DeletingIf

-----------------------------------------------------------------------------

\* Initially: no call is under way.
LEMMA KvStarts == ASSUME PlainKv, KvInit PROVE KvInv
  BY DEF PlainKv, KvInit, KvInv

\* What a compare sees is no more than a value.
LEMMA ComparedIs ==
  ASSUME PlainKv, KvInv, NEW c \in KvCallers, asked[c] # Null
  PROVE  Compared(c) \in Nat \cup {Null}
<1>1. Value(cell) \in Nat \cup {Null}
  BY ShownIs DEF KvInv
<1>2. TwoStep(asked[c]) => saw[c].value \in Nat \cup {Null}
  BY DEF KvInv, KvReads
<1>. QED  BY <1>1, <1>2 DEF Compared

\* What a call leaves behind is an entry, or nothing.
LEMMA CellStays ==
  ASSUME PlainKv, KvInv, NEW c \in KvCallers, Answered(c)
  PROVE  /\ cell' \in Entries \cup {Null}
         /\ asked' = [asked EXCEPT ![c] = Null] /\ saw' = [saw EXCEPT ![c] = Null]
         /\ store' = store /\ calls' = calls
<1>. DEFINE k == asked[c]
<1>1. k \in Calls /\ cell \in Entries \cup {Null} /\ Compared(c) \in Nat \cup {Null}
  BY ComparedIs DEF KvInv, Answered
<1>2. k.op \in {"set", "setNew", "setIf"} => k.value \in Nat \ {0} /\ k.ttl \in BOOLEAN
  BY <1>1, CallIs
<1>3. \A v \in Nat \ {0}, ttl \in BOOLEAN : Kept(v, ttl) \in Entries
  BY DEF Kept, Entries
<1>4. cell # Null => cell \in Entries /\ cell.value \in Nat /\ cell.expiry \in {"never", "ahead", "past"}
  BY <1>1 DEF Entries
<1>5. CASE Set(c)
  BY <1>2, <1>3, <1>5 DEF Set, Returns
<1>6. CASE SetNew(c)
  BY <1>1, <1>2, <1>3, <1>6 DEF SetNew, Returns
<1>7. CASE Del(c)
  BY <1>7 DEF Del, Returns
<1>8. CASE SetIf(c)
  BY <1>1, <1>2, <1>3, <1>8 DEF SetIf, Returns
<1>9. CASE DelIf(c)
  BY <1>1, <1>9 DEF DelIf, Returns
<1>10. CASE Incr(c)
  BY <1>4, <1>10 DEF Incr, Returns, Entries, Live
<1>11. CASE IncrWithExpiry(c)
  BY <1>1, <1>4, <1>11 DEF IncrWithExpiry, Returns, Entries
<1>. QED
  BY <1>5, <1>6, <1>7, <1>8, <1>9, <1>10, <1>11
  DEF Answered, MemorySets, MemoryDels, MemorySetsIf, MemoryDelsIf, MemoryStamps, MemoryIncrs,
      SqliteSets, SqliteDels, SqliteSetsIf, SqliteDelsIf, SqliteStamps, SqliteIncrs,
      RedisSets, RedisScripts, UpstashSets, UpstashScripts

\* Every step keeps the invariant.
LEMMA KvStays ==
  ASSUME PlainKv, KvInv, [KvNext]_kvVars
  PROVE  KvInv'
<1>1. ASSUME NEW c \in KvCallers, NEW k \in Calls, Asks(c, k)
      PROVE  KvInv'
  <2>1. Value(cell) \in Nat \cup {Null}
    BY ShownIs DEF KvInv
  <2>2. [value |-> Value(cell), turn |-> calls] \in KvReads
    BY <2>1 DEF KvInv, KvReads
  <2>. QED  BY <1>1, <2>2 DEF KvInv, Asks, TwoStep
<1>2. ASSUME NEW c \in KvCallers, Answered(c)
      PROVE  KvInv'
  <2>1. /\ cell' \in Entries \cup {Null} /\ store' = store /\ calls' = calls
        /\ asked' = [asked EXCEPT ![c] = Null] /\ saw' = [saw EXCEPT ![c] = Null]
    BY <1>2, CellStays
  <2>. QED  BY <2>1 DEF KvInv, TwoStep
<1>3. CASE Lapses
  <2>1. cell' \in Entries \cup {Null}
    BY <1>3 DEF Lapses, KvInv, Entries
  <2>. QED  BY <1>3, <2>1 DEF Lapses, KvInv, TwoStep
<1>4. CASE Sweeps
  BY <1>4 DEF Sweeps, KvInv, TwoStep
<1>5. CASE UNCHANGED kvVars
  BY <1>5 DEF kvVars, KvInv, TwoStep
<1>. QED  BY <1>1, <1>2, <1>3, <1>4, <1>5 DEF KvNext

-----------------------------------------------------------------------------

\* How a value that is left in the cell shows.
LEMMA KeptShows ==
  ASSUME PlainKv, NEW n \in Nat \ {0}, NEW e \in {"never", "ahead"},
         cell' = [value |-> n, expiry |-> e]
  PROVE  View' = [value |-> n, ttl |-> e = "ahead"]
<1>1. cell' \in Entries /\ cell'.value = n /\ cell'.expiry = e
  BY DEF Entries
<1>2. Live(cell)'
  BY <1>1 DEF PlainKv, Live
<1>. QED  BY <1>1, <1>2 DEF View

\* What a step writes, as the port shows it.
LEMMA WritesShow ==
  ASSUME PlainKv, KvInv, NEW c \in KvCallers, asked[c] # Null
  PROVE  /\ cell' = cell => View' = View
         /\ cell' = Null => View' = Null
         /\ asked[c].op \in {"set", "setNew", "setIf"} /\ cell' = Kept(asked[c].value, asked[c].ttl)
              => View' = Port!Entry(asked[c].value, asked[c].ttl)
<1>. DEFINE k == asked[c]
<1>1. cell' = cell => View' = View
  BY DEF View, Live
<1>2. cell' = Null => View' = Null
  BY DEF View, Live
<1>3. k \in Calls
  BY DEF KvInv
<1>4. ASSUME k.op \in {"set", "setNew", "setIf"}, cell' = Kept(k.value, k.ttl)
      PROVE  View' = Port!Entry(k.value, k.ttl)
  <2>1. k.value \in Nat \ {0} /\ k.ttl \in BOOLEAN
    BY <1>3, <1>4, CallIs
  <2>2. CASE k.ttl
    BY <1>4, <2>1, <2>2, KeptShows DEF Kept, Port!Entry
  <2>3. CASE ~k.ttl
    BY <1>4, <2>1, <2>3, KeptShows DEF Kept, Port!Entry
  <2>. QED  BY <2>1, <2>2, <2>3
<1>. QED  BY <1>1, <1>2, <1>4

\* A call of MemoryKv under which the key changed slips.
LEMMA AnswersLate ==
  ASSUME PlainKv, KvInv, NEW c \in KvCallers, Answered(c), ReadIsOld(c)
  PROVE  Slips(c)
<1>. DEFINE k == asked[c]
            was == saw[c].value
<1>. USE DEF Returns, Done, Count, Port!Done, Port!Count, Port!Told
<1>1. k # Null /\ TwoStep(k) /\ store = "memory" /\ Compared(c) = was
  BY DEF Answered, ReadIsOld, TwoStep, Compared
<1>2. was \in Nat \cup {Null} /\ cell \in Entries \cup {Null}
  BY <1>1, ComparedIs DEF KvInv
<1>3. /\ cell' = cell => View' = View
      /\ cell' = Null => View' = Null
      /\ k.op \in {"set", "setNew", "setIf"} /\ cell' = Kept(k.value, k.ttl)
           => View' = Port!Entry(k.value, k.ttl)
  BY <1>1, WritesShow
<1>4. CASE SetIf(c)
  BY <1>1, <1>3, <1>4 DEF SetIf, Slips, Port!Writes, Port!Declines
<1>5. CASE DelIf(c)
  BY <1>1, <1>3, <1>5 DEF DelIf, Slips, Port!Removes, Port!Declines
<1>6. CASE IncrWithExpiry(c)
  <2>. DEFINE n == IF was = Null THEN 1 ELSE was + 1
              lapses == IF cell = Null THEN "never" ELSE cell.expiry
              e == IF was = Null THEN "ahead" ELSE lapses
  <2>1. cell' = [value |-> n, expiry |-> e] /\ Port!Told(c, Port!Count(n)) /\ k.op = "incrWithExpiry"
    BY <1>1, <1>6 DEF IncrWithExpiry, Server
  <2>2. n \in Nat \ {0} /\ e \in {"never", "ahead", "past"}
    BY <1>2 DEF Entries
  <2>3. View' \in {Null, Port!Entry(n, TRUE), Port!Entry(n, FALSE)}
    <3>1. CASE e = "past"
      BY <2>1, <3>1 DEF View, Live
    <3>2. CASE e = "never"
      BY <2>1, <2>2, <3>2, KeptShows DEF Port!Entry
    <3>3. CASE e = "ahead"
      BY <2>1, <2>2, <3>3, KeptShows DEF Port!Entry
    <3>. QED  BY <2>2, <3>1, <3>2, <3>3
  <2>. QED  BY <1>1, <2>1, <2>3 DEF Slips
<1>. QED
  BY <1>1, <1>4, <1>5, <1>6
  DEF Answered, TwoStep, MemorySets, MemoryDels, MemorySetsIf, MemoryDelsIf, MemoryStamps, MemoryIncrs,
      SqliteSets, SqliteDels, SqliteSetsIf, SqliteDelsIf, SqliteStamps, SqliteIncrs,
      RedisSets, RedisScripts, UpstashSets, UpstashScripts, Set, SetNew, Del, Incr

\* And so does one that counts on in an entry that has expired.
LEMMA CountsInOld ==
  ASSUME PlainKv, KvInv, NEW c \in KvCallers, Answered(c), Incr(c),
         store = "memory", cell # Null, ~Live(cell)
  PROVE  Slips(c)
<1>1. cell.expiry = "past" /\ View = Null /\ asked[c] # Null
  BY DEF Live, View, Answered
<1>2. cell' = [value |-> cell.value + 1, expiry |-> "past"] /\ Port!Told(c, Count(cell.value + 1))
  BY <1>1 DEF Incr, Returns, Port!Told
<1>3. View' = Null
  BY <1>2 DEF View, Live
<1>. QED  BY <1>1, <1>2, <1>3 DEF Slips, Incr

\* Every other call that returns is the port's call, taking effect at this step.
LEMMA AnswersAsPort ==
  ASSUME PlainKv, KvInv, NEW c \in KvCallers, Answered(c), ~ReadIsOld(c),
         ~(Incr(c) /\ store = "memory" /\ cell # Null /\ ~Live(cell))
  PROVE  Port!Next
<1>. DEFINE k == asked[c]
            Told(a) == answer' = [answer EXCEPT ![c] = a] /\ asked' = [asked EXCEPT ![c] = Null]
<1>1. k \in Calls /\ k # Null /\ cell \in Entries \cup {Null} /\ DOMAIN asked = KvCallers
  BY DEF KvInv, Answered
<1>2. /\ View = Null <=> ~Live(cell)
      /\ Live(cell) => cell \in Entries /\ View.value = cell.value /\ View.ttl = (cell.expiry = "ahead")
      /\ Value(cell) = Null <=> ~Live(cell)
      /\ Live(cell) => Value(cell) = cell.value
  BY <1>1, ShownIs DEF Value
<1>3. k.op \in {"setIf", "delIf"} => k.expected \in Nat \ {0} /\ k.expected # Null
  BY <1>1, CallIs DEF PlainKv
<1>4. Compared(c) = Value(cell)
  BY DEF Compared, ReadIsOld
<1>5. cell' = cell => View' = View
  BY <1>1, WritesShow
<1>6. cell' = Null => View' = Null
  BY <1>1, WritesShow
<1>7. k.op \in {"set", "setNew", "setIf"} /\ cell' = Kept(k.value, k.ttl) => View' = Port!Entry(k.value, k.ttl)
  BY <1>1, WritesShow
<1>8. k.op \in {"setIf", "delIf"} => (Value(cell) = k.expected <=> Port!Shows(k.expected))
  BY <1>2, <1>3 DEF Port!Shows
<1>9. SUFFICES Port!Returns(c, k)
  BY <1>1, <1>9 DEF Port!Next
<1>. USE DEF Returns, Done, Count, Port!Done, Port!Count, Port!Told
<1>10. CASE Set(c)
  BY <1>7, <1>10 DEF Set, Port!Returns, Port!Writes
<1>11. CASE SetNew(c)
  BY <1>2, <1>5, <1>7, <1>11 DEF SetNew, Absent, Port!Returns, Port!Writes, Port!Declines
<1>12. CASE Del(c)
  BY <1>6, <1>12 DEF Del, Port!Returns, Port!Removes
<1>13. CASE SetIf(c)
  BY <1>4, <1>5, <1>7, <1>8, <1>13 DEF SetIf, Port!Returns, Port!Writes, Port!Declines
<1>14. CASE DelIf(c)
  <2>1. CASE store = "sqlite"
    \* A row that has expired may go all the same.
    <3>1. ~Live(cell) => View = Null
      BY <1>2
    <3>2. Live(cell) => cell # Null /\ (cell.value = k.expected <=> Port!Shows(k.expected))
      BY <1>2, <1>8, <1>14 DEF Live, DelIf
    <3>3. ~Live(cell) => ~Port!Shows(k.expected)
      BY <1>2 DEF Port!Shows
    <3>. QED
      BY <1>5, <1>6, <1>14, <2>1, <3>1, <3>2, <3>3 DEF DelIf, Port!Returns, Port!Removes, Port!Declines
  <2>2. CASE store # "sqlite"
    BY <1>4, <1>5, <1>6, <1>8, <1>14, <2>2 DEF DelIf, Port!Returns, Port!Removes, Port!Declines
  <2>. QED  BY <2>1, <2>2
<1>15. CASE Incr(c)
  <2>. DEFINE n == IF Live(cell) THEN cell.value + 1 ELSE 1
              e == IF Live(cell) THEN cell.expiry ELSE "never"
  <2>5. store = "memory" => (cell # Null <=> Live(cell))
    BY <1>15 DEF Live
  <2>1. n \in Nat \ {0} /\ e \in {"never", "ahead"}
    BY <1>2 DEF Entries, Live
  <2>2. cell' = [value |-> n, expiry |-> e] /\ Told(Count(n)) /\ k.op = "incr"
    BY <1>15, <2>5 DEF Incr
  <2>3. View' = [value |-> n, ttl |-> e = "ahead"]
    BY <2>1, <2>2, KeptShows
  <2>4. n = (IF View = Null THEN 1 ELSE View.value + 1) /\ (e = "ahead") = (IF View = Null THEN FALSE ELSE View.ttl)
    BY <1>2
  <2>. QED  BY <2>2, <2>3, <2>4 DEF Port!Returns, Port!Counts, Port!Entry
<1>16. CASE IncrWithExpiry(c)
  <2>. DEFINE n == IF Value(cell) = Null THEN 1 ELSE Value(cell) + 1
              new == IF Server THEN n = 1 ELSE Value(cell) = Null
              lapses == IF cell = Null \/ (store # "memory" /\ ~Live(cell)) THEN "never" ELSE cell.expiry
              e == IF new THEN "ahead" ELSE lapses
  <2>1. cell' = [value |-> n, expiry |-> e] /\ Told(Count(n)) /\ k.op = "incrWithExpiry"
    BY <1>4, <1>16 DEF IncrWithExpiry
  \* A counter shows 1 or more, so it comes to 1 only when it was not there.
  <2>2. new <=> ~Live(cell)
    BY <1>2 DEF Entries
  <2>3. Live(cell) => lapses = cell.expiry /\ cell.expiry \in {"never", "ahead"}
    BY <1>2 DEF Entries, Live
  <2>4. n \in Nat \ {0} /\ e \in {"never", "ahead"}
    BY <1>2, <2>2, <2>3 DEF Entries
  <2>5. View' = [value |-> n, ttl |-> e = "ahead"]
    BY <2>1, <2>4, KeptShows
  <2>6. n = (IF View = Null THEN 1 ELSE View.value + 1) /\ (e = "ahead") = (IF View = Null THEN TRUE ELSE View.ttl)
    BY <1>2, <2>2, <2>3
  <2>. QED  BY <2>1, <2>5, <2>6 DEF Port!Returns, Port!Counts, Port!Entry
<1>. QED
  BY <1>10, <1>11, <1>12, <1>13, <1>14, <1>15, <1>16
  DEF Answered, MemorySets, MemoryDels, MemorySetsIf, MemoryDelsIf, MemoryStamps, MemoryIncrs,
      SqliteSets, SqliteDels, SqliteSetsIf, SqliteDelsIf, SqliteStamps, SqliteIncrs,
      RedisSets, RedisScripts, UpstashSets, UpstashScripts

\* Every other step is one of the port's, or changes nothing of what the port shows.
LEMMA StepsAsPort ==
  ASSUME PlainKv, KvInv, [KvNext]_kvVars
  PROVE  [KvStep]_<<View, asked, answer>>
<1>1. cell \in Entries \cup {Null} /\ asked \in [KvCallers -> Calls \cup {Null}]
  BY DEF KvInv
<1>2. ASSUME NEW c \in KvCallers, NEW k \in Calls, Asks(c, k)
      PROVE  Port!Next
  <2>1. asked[c] = Null /\ asked' = [asked EXCEPT ![c] = k] /\ answer' = [answer EXCEPT ![c] = Null]
    BY <1>2 DEF Asks
  <2>2. asked'[c] = k /\ k # Null /\ c \in DOMAIN asked
    BY <1>1, <2>1, CallIs
  \* What a get() drops has expired.
  <2>3. View' = View
    BY <1>2 DEF Asks, View, Live
  <2>4. Port!Issues
    BY <2>1, <2>2, <2>3 DEF Port!Issues
  <2>. QED  BY <2>4 DEF Port!Next
<1>3. ASSUME NEW c \in KvCallers, Answered(c)
      PROVE  KvStep
  BY <1>3, AnswersAsPort, AnswersLate, CountsInOld DEF KvStep
<1>4. CASE Lapses
  <2>1. cell \in Entries /\ cell.expiry = "ahead" /\ Live(cell)
    BY <1>1, <1>4 DEF Lapses, Live
  <2>2. View # Null /\ View.ttl
    BY <1>1, <2>1, ShownIs
  <2>3. ~Live(cell')
    BY <1>4, <2>1 DEF Lapses, Live, Entries
  <2>4. View' = Null
    BY <2>3 DEF View
  <2>5. Port!Expires
    BY <1>4, <2>2, <2>4 DEF Lapses, Port!Expires
  <2>. QED  BY <2>5 DEF Port!Next, KvStep
<1>5. CASE Sweeps
  <2>1. View' = View
    BY <1>5 DEF Sweeps, View, Live
  <2>. QED  BY <1>5, <2>1 DEF Sweeps
<1>6. CASE UNCHANGED kvVars
  BY <1>6 DEF kvVars, View, Live
<1>. QED  BY <1>2, <1>3, <1>4, <1>5, <1>6 DEF KvNext, KvStep

\* The adapters keep the port's contract (ports/kv.ts): every call takes effect once, at
\* one step, on what the key shows then, and its caller is told so; but for MemoryKv's
\* calls under which the key changes, which Slips describes.
THEOREM KvImplementsPort ==
  ASSUME PlainKv
  PROVE  KvSpec => KvKeepsContract
<1>1. KvInit => KvInv
  BY KvStarts
<1>2. KvInv /\ [KvNext]_kvVars => KvInv'
  BY KvStays
<1>3. KvInv /\ [KvNext]_kvVars => [KvStep]_<<View, asked, answer>>
  BY StepsAsPort
<1>. QED  BY <1>1, <1>2, <1>3, PTL DEF KvSpec, KvKeepsContract

---------------------------------------------------------------------------
\* The bus

HandlerStages == {"out", "opening", "waiting", "in", "leaving", "refused"}

BusTypeOK ==
  /\ current \in Channels \cup {0}
  /\ members \in [Channels -> SUBSET Handlers]
  /\ wire \in [Channels -> {"unused", "opening", "open", "failed", "closed"}]
  /\ stage \in [Handlers -> HandlerStages]
  /\ joined \in [Handlers -> Channels \cup {0}]

Carries(k) == wire[k] \in {"opening", "open"}

\* The channel the map names can carry, and who was let in is in its set. A socket that is
\* still opening can fail only while FlowBus has let nobody in.
InIsIn ==
  /\ current # 0 => Carries(current)
  /\ \A h \in Handlers : stage[h] = "in" =>
       /\ current # 0 /\ joined[h] = current /\ h \in members[current]
       /\ bus = "flow" => wire[current] = "open" \/ current \in timedOut

\* Who waits for FlowBus's socket is in its channel's set already, so nobody closes it.
WaitersAreHeld == \A h \in Handlers : stage[h] = "waiting" =>
  /\ bus = "flow" /\ joined[h] # 0 /\ h \in members[joined[h]]
  /\ wire[joined[h]] = "failed" \/ joined[h] = current

\* While RedisBus awaits SUBSCRIBE or UNSUBSCRIBE, nobody else is subscribed.
OneAwaits == \A h \in Handlers : stage[h] \in {"opening", "leaving"} =>
  /\ bus = "redis" /\ joined[h] # 0
  /\ \A g \in Handlers \ {h} : stage[g] \in {"out", "refused"}
  /\ IF stage[h] = "opening" THEN joined[h] = current ELSE current = 0

\* A channel is kept for somebody.
KeptForSomebody == \A k \in Channels : Carries(k) =>
  \/ members[k] # {}
  \/ \E h \in Handlers : joined[h] = k /\ stage[h] \in {"opening", "leaving"}

BusInv == BusTypeOK /\ InIsIn /\ WaitersAreHeld /\ OneAwaits /\ KeptForSomebody

LEMMA BusStarts == BusInit => BusInv
  BY DEF BusInit, BusInv, BusTypeOK, HandlerStages, Carries, InIsIn, WaitersAreHeld, OneAwaits,
         KeptForSomebody, Channels

LEMMA MemoryBusKeeps ==
  ASSUME BusInv, NEW h \in Handlers, MemoryJoins(h) \/ MemoryLeaves(h)
  PROVE  BusInv'
<1>1. CASE MemoryJoins(h)
  <2>. PICK k \in Channels :
         /\ IF current = 0 THEN Unused(k) /\ Wires(k, "open") ELSE k = current /\ UNCHANGED wire
         /\ current' = k /\ Enters(h, k)
         /\ joined' = [joined EXCEPT ![h] = k]
    BY <1>1 DEF MemoryJoins
  <2>. USE <1>1 DEF MemoryJoins, Unused, Wires, Enters, Moves, BusInv
  <2>1. BusTypeOK' /\ InIsIn'
    <3>1. BusTypeOK'
      BY DEF BusTypeOK, HandlerStages, Channels
    <3>2. k # 0 /\ k \in DOMAIN wire /\ bus' = "memory"
      BY DEF BusTypeOK, Channels
    <3>3. Carries(k)'
      BY <3>2 DEF BusTypeOK, Carries, InIsIn
    <3>4. ASSUME NEW g \in Handlers, stage'[g] = "in" PROVE joined'[g] = k /\ g \in members'[k]
      BY <3>2, <3>4 DEF BusTypeOK, InIsIn
    <3>. QED  BY <3>1, <3>2, <3>3, <3>4 DEF InIsIn, Carries
  <2>2. WaitersAreHeld' /\ OneAwaits'
    BY DEF BusTypeOK, HandlerStages, WaitersAreHeld, OneAwaits, Channels
  <2>3. KeptForSomebody'
    BY DEF BusTypeOK, HandlerStages, Carries, OneAwaits, KeptForSomebody, Channels
  <2>. QED  BY <2>1, <2>2, <2>3
<1>2. CASE MemoryLeaves(h)
  <2>. USE <1>2 DEF MemoryLeaves, Quits, Moves, BusInv
  <2>1. BusTypeOK' /\ InIsIn'
    BY DEF BusTypeOK, HandlerStages, Carries, InIsIn, OneAwaits, Channels
  <2>2. WaitersAreHeld' /\ OneAwaits'
    BY DEF BusTypeOK, HandlerStages, InIsIn, WaitersAreHeld, OneAwaits, Channels
  <2>3. KeptForSomebody'
    BY DEF BusTypeOK, HandlerStages, Carries, InIsIn, OneAwaits, KeptForSomebody, Channels
  <2>. QED  BY <2>1, <2>2, <2>3
<1>. QED  BY <1>1, <1>2

LEMMA RedisOpeningKeeps ==
  ASSUME ~BusOverlaps, BusInv, NEW h \in Handlers,
         RedisOpens(h) \/ RedisOpened(h) \/ RedisFails(h)
  PROVE  BusInv'
<1>. USE DEF Quiet, Wires, Enters, Moves, BusInv
<1>1. CASE RedisOpens(h)
  <2>. PICK k \in Channels :
         /\ Unused(k) /\ Wires(k, "opening")
         /\ current' = k
         /\ joined' = [joined EXCEPT ![h] = k]
    BY <1>1 DEF RedisOpens
  <2>. USE <1>1 DEF RedisOpens, Unused
  <2>1. BusTypeOK' /\ InIsIn'
    BY DEF BusTypeOK, HandlerStages, Carries, InIsIn, Channels
  <2>2. WaitersAreHeld' /\ OneAwaits'
    BY DEF BusTypeOK, HandlerStages, InIsIn, WaitersAreHeld, OneAwaits, Channels
  <2>3. KeptForSomebody'
    BY DEF BusTypeOK, HandlerStages, Carries, OneAwaits, KeptForSomebody, Channels
  <2>. QED  BY <2>1, <2>2, <2>3
<1>2. CASE RedisOpened(h)
  <2>. USE <1>2 DEF RedisOpened
  <2>1. BusTypeOK' /\ InIsIn'
    BY DEF BusTypeOK, HandlerStages, Carries, InIsIn, OneAwaits, Channels
  <2>2. WaitersAreHeld' /\ OneAwaits'
    BY DEF BusTypeOK, HandlerStages, InIsIn, WaitersAreHeld, OneAwaits, Channels
  <2>3. KeptForSomebody'
    BY DEF BusTypeOK, HandlerStages, Carries, InIsIn, OneAwaits, KeptForSomebody, Channels
  <2>. QED  BY <2>1, <2>2, <2>3
<1>3. CASE RedisFails(h)
  <2>. USE <1>3 DEF RedisFails
  <2>1. BusTypeOK' /\ InIsIn'
    BY DEF BusTypeOK, HandlerStages, Carries, InIsIn, OneAwaits, Channels
  <2>2. WaitersAreHeld' /\ OneAwaits'
    BY DEF BusTypeOK, HandlerStages, InIsIn, WaitersAreHeld, OneAwaits, Channels
  <2>3. KeptForSomebody'
    BY DEF BusTypeOK, HandlerStages, Carries, InIsIn, OneAwaits, KeptForSomebody, Channels
  <2>. QED  BY <2>1, <2>2, <2>3
<1>. QED  BY <1>1, <1>2, <1>3

LEMMA RedisSharingKeeps ==
  ASSUME ~BusOverlaps, BusInv, NEW h \in Handlers,
         RedisJoins(h) \/ RedisLeaves(h) \/ RedisLeft(h)
  PROVE  BusInv'
<1>. USE DEF Quiet, Enters, Quits, Moves, BusInv
<1>1. CASE RedisJoins(h)
  <2>. USE <1>1 DEF RedisJoins
  <2>1. BusTypeOK' /\ InIsIn'
    BY DEF BusTypeOK, HandlerStages, Carries, InIsIn, Channels
  <2>2. WaitersAreHeld' /\ OneAwaits'
    BY DEF BusTypeOK, HandlerStages, WaitersAreHeld, OneAwaits, Channels
  <2>3. KeptForSomebody'
    BY DEF BusTypeOK, HandlerStages, Carries, KeptForSomebody, Channels
  <2>. QED  BY <2>1, <2>2, <2>3
<1>2. CASE RedisLeaves(h)
  <2>. USE <1>2 DEF RedisLeaves
  <2>1. BusTypeOK' /\ InIsIn'
    <3>1. current # 0 /\ bus = "redis" /\ UNCHANGED <<bus, wire, timedOut, joined>>
      BY DEF InIsIn
    <3>2. BusTypeOK'
      BY <3>1 DEF BusTypeOK, HandlerStages, Channels
    <3>3. ASSUME NEW g \in Handlers, stage'[g] = "in"
          PROVE  g # h /\ stage[g] = "in" /\ current' = current /\ g \in members'[current]
      BY <3>1, <3>3 DEF BusTypeOK, InIsIn
    <3>. QED  BY <3>1, <3>2, <3>3 DEF InIsIn, Carries
  <2>2. WaitersAreHeld' /\ OneAwaits'
    BY DEF BusTypeOK, HandlerStages, InIsIn, WaitersAreHeld, OneAwaits, Channels
  <2>3. KeptForSomebody'
    <3>1. current # 0 /\ joined[h] = current /\ UNCHANGED <<bus, wire, timedOut, joined>>
      BY DEF InIsIn
    <3>2. \A g \in Handlers : stage[g] \in {"opening", "leaving"} => stage'[g] = stage[g]
      BY DEF Moves, BusTypeOK
    <3>3. \A k \in Channels : k # current => members'[k] = members[k]
      BY <3>1 DEF Quits, BusTypeOK
    <3>4. members'[current] # {} \/ stage'[h] = "leaving"
      BY <3>1, BusTypeOK DEF Quits, Moves, BusTypeOK, Channels
    <3>5. \A k \in Channels : Carries(k)' <=> Carries(k)
      BY <3>1 DEF Carries
    <3>. QED  BY <3>1, <3>2, <3>3, <3>4, <3>5 DEF KeptForSomebody
  <2>. QED  BY <2>1, <2>2, <2>3
<1>3. CASE RedisLeft(h)
  <2>. USE <1>3 DEF RedisLeft
  <2>1. BusTypeOK' /\ InIsIn'
    BY DEF BusTypeOK, HandlerStages, Carries, InIsIn, OneAwaits, Channels
  <2>2. WaitersAreHeld' /\ OneAwaits'
    BY DEF BusTypeOK, HandlerStages, InIsIn, WaitersAreHeld, OneAwaits, Channels
  <2>3. KeptForSomebody'
    BY DEF BusTypeOK, HandlerStages, Carries, KeptForSomebody, Channels
  <2>. QED  BY <2>1, <2>2, <2>3
<1>. QED  BY <1>1, <1>2, <1>3

LEMMA FlowSubscribersKeep ==
  ASSUME BusInv, NEW h \in Handlers,
         FlowJoins(h) \/ FlowGoesOn(h) \/ FlowLeaves(h)
  PROVE  BusInv'
<1>. USE DEF Wires, Enters, Quits, Moves, BusInv
<1>1. CASE FlowJoins(h)
  <2>. PICK k \in Channels :
         /\ IF current = 0 THEN Unused(k) /\ Wires(k, "opening") ELSE k = current /\ UNCHANGED wire
         /\ current' = k /\ Enters(h, k)
         /\ joined' = [joined EXCEPT ![h] = k]
    BY <1>1 DEF FlowJoins
  <2>. USE <1>1 DEF FlowJoins, Unused
  <2>1. BusTypeOK' /\ InIsIn'
    BY DEF BusTypeOK, HandlerStages, Carries, InIsIn, Channels
  <2>2. OneAwaits'
    BY DEF BusTypeOK, HandlerStages, OneAwaits
  <2>3. WaitersAreHeld'
    <3>1. k # 0
      BY DEF Channels
    <3>2. ASSUME NEW g \in Handlers, g # h, stage'[g] = "waiting"
          PROVE  /\ joined'[g] = joined[g] /\ joined[g] # 0 /\ g \in members'[joined[g]]
                 /\ wire'[joined[g]] = "failed" \/ joined[g] = k
      BY <3>2 DEF BusTypeOK, WaitersAreHeld
    <3>. QED  BY <3>1, <3>2 DEF BusTypeOK, WaitersAreHeld
  <2>4. KeptForSomebody'
    BY DEF BusTypeOK, HandlerStages, Carries, OneAwaits, KeptForSomebody, Channels
  <2>. QED  BY <2>1, <2>2, <2>3, <2>4
<1>2. CASE FlowGoesOn(h)
  <2>. USE <1>2 DEF FlowGoesOn
  <2>1. /\ joined[h] # 0 /\ h \in members[joined[h]]
        /\ wire[joined[h]] = "failed" \/ joined[h] = current
    BY DEF WaitersAreHeld
  <2>2. CASE wire[joined[h]] = "failed"
    <3>1. /\ Quits(h, joined[h]) /\ Moves(h, "refused")
          /\ UNCHANGED <<bus, current, wire, timedOut, joined>>
      BY <2>2
    <3>2. BusTypeOK'
      BY <3>1 DEF BusTypeOK, HandlerStages
    <3>3. InIsIn'
      BY <2>2, <3>1 DEF BusTypeOK, InIsIn, Carries
    <3>4. WaitersAreHeld' /\ OneAwaits'
      BY <3>1 DEF BusTypeOK, WaitersAreHeld, OneAwaits
    <3>5. KeptForSomebody'
      BY <2>2, <3>1 DEF BusTypeOK, OneAwaits, Carries, KeptForSomebody
    <3>. QED  BY <3>2, <3>3, <3>4, <3>5
  <2>3. CASE wire[joined[h]] # "failed"
    <3>1. /\ joined[h] = current /\ current # 0 /\ h \in members[current]
          /\ wire[current] = "open" \/ current \in timedOut
          /\ Moves(h, "in") /\ UNCHANGED <<bus, current, members, wire, timedOut, joined>>
      BY <2>1, <2>3 DEF InIsIn, Carries
    <3>2. BusTypeOK'
      BY <3>1 DEF BusTypeOK, HandlerStages
    <3>3. InIsIn'
      BY <3>1 DEF BusTypeOK, InIsIn, Carries
    <3>4. WaitersAreHeld' /\ OneAwaits'
      BY <3>1 DEF BusTypeOK, WaitersAreHeld, OneAwaits
    <3>5. KeptForSomebody'
      BY <3>1 DEF BusTypeOK, OneAwaits, Carries, KeptForSomebody
    <3>. QED  BY <3>2, <3>3, <3>4, <3>5
  <2>. QED  BY <2>2, <2>3
<1>3. CASE FlowLeaves(h)
  <2>. USE <1>3 DEF FlowLeaves, Last
  <2>1. BusTypeOK' /\ InIsIn'
    BY DEF BusTypeOK, HandlerStages, Carries, InIsIn, Channels
  <2>2. WaitersAreHeld' /\ OneAwaits'
    BY DEF BusTypeOK, HandlerStages, InIsIn, WaitersAreHeld, OneAwaits, Channels
  <2>3. KeptForSomebody'
    BY DEF BusTypeOK, HandlerStages, Carries, InIsIn, OneAwaits, KeptForSomebody, Channels
  <2>. QED  BY <2>1, <2>2, <2>3
<1>. QED  BY <1>1, <1>2, <1>3

LEMMA FlowSocketKeeps ==
  ASSUME BusInv, NEW k \in Channels,
         FlowOpened(k) \/ FlowTimesOut(k) \/ FlowFailed(k)
  PROVE  BusInv'
<1>. USE DEF Wires, BusInv, BusTypeOK, HandlerStages, Carries
<1>1. CASE FlowOpened(k)
  <2>1. BusTypeOK' /\ InIsIn'
    BY <1>1 DEF FlowOpened, InIsIn
  <2>2. WaitersAreHeld' /\ OneAwaits' /\ KeptForSomebody'
    BY <1>1 DEF FlowOpened, WaitersAreHeld, OneAwaits, KeptForSomebody
  <2>. QED  BY <2>1, <2>2
<1>2. CASE FlowTimesOut(k)
  <2>1. BusTypeOK' /\ InIsIn'
    BY <1>2 DEF FlowTimesOut, InIsIn
  <2>2. WaitersAreHeld' /\ OneAwaits' /\ KeptForSomebody'
    BY <1>2 DEF FlowTimesOut, WaitersAreHeld, OneAwaits, KeptForSomebody
  <2>. QED  BY <2>1, <2>2
<1>3. CASE FlowFailed(k)
  BY <1>3 DEF FlowFailed, InIsIn, WaitersAreHeld, OneAwaits, KeptForSomebody, Channels
<1>. QED  BY <1>1, <1>2, <1>3

BusSpec == BusInit /\ [][BusNext]_busVars

LEMMA BusTurns == ~BusOverlaps /\ BusInv /\ [BusNext]_busVars => BusInv'
<1>. SUFFICES ASSUME ~BusOverlaps, BusInv, [BusNext]_busVars PROVE BusInv'
  OBVIOUS
<1>1. CASE BusNext
  BY <1>1, MemoryBusKeeps, RedisOpeningKeeps, RedisSharingKeeps, FlowSubscribersKeep, FlowSocketKeeps
     DEF BusNext
<1>2. CASE UNCHANGED busVars
  BY <1>2 DEF busVars, BusInv, BusTypeOK, Carries, InIsIn, WaitersAreHeld, OneAwaits, KeptForSomebody
<1>. QED  BY <1>1, <1>2

\* Who was told that it is subscribed, and has not undone it, is in the set that the thread's
\* open channel delivers to, and no channel is kept for nobody (adapters/memory.ts, redis.ts
\* and flow.ts, subscribe), while RedisBus's calls come one after another.
THEOREM BusKeepsSubscribers ==
  ASSUME ~BusOverlaps
  PROVE  BusSpec => []SubscribersAreHeard
<1>1. BusInv => SubscribersAreHeard
  BY DEF BusInv, InIsIn, KeptForSomebody, Carries, SubscribersAreHeard
<1>. QED  BY BusStarts, BusTurns, <1>1, PTL DEF BusSpec

---------------------------------------------------------------------------
(* The settle claim *)

SettleType ==
  /\ holds \in ClaimKinds
  /\ token \in Settlers \cup {Unclaimed}
  /\ claimedAt \in {"none", "fresh", "stale"}
  /\ settled \in BOOLEAN /\ outlived \in BOOLEAN /\ unmarked \in BOOLEAN
  /\ at \in [Settlers -> {"start", "reads", "hook", "marks", "told", "skipped", "dead"}]
  /\ tries \in [Settlers -> Nat]
  /\ failed \in [Settlers -> BOOLEAN]
  /\ bills \in Nat

\* A settled run is nobody's.
SettledIsFree == settled => token = Unclaimed

\* A hook that did not throw had its effect.
Worked ==
  \A s \in Settlers :
    /\ at[s] \in {"start", "reads", "hook"} => ~failed[s]
    /\ at[s] = "marks" /\ ~failed[s] => bills >= 1

Holds ==
  ~outlived =>
    \A s \in Settlers :
      /\ at[s] \in {"hook", "marks"} => token = s /\ claimedAt = "fresh"
      /\ at[s] = "reads" /\ token = s => claimedAt = "fresh"

Counted ==
  ~outlived /\ ~unmarked =>
    \/ bills = 0
    \/ bills = 1 /\ (settled \/ \E s \in Settlers : at[s] = "marks" /\ ~failed[s])

SettleInv ==
  /\ SettleType /\ SettledIsFree /\ Worked /\ Holds /\ Counted
  /\ settled => bills >= 1

SettleSpec == SettleInit /\ [][SettleNext]_settleVars

-----------------------------------------------------------------------------

\* Initially: nobody has claimed the run.
LEMMA SettleStarts == SettleInit => SettleInv
<1>. SUFFICES ASSUME SettleInit PROVE SettleInv
  OBVIOUS
<1>1. SettleType
  BY DEF SettleInit, SettleType
<1>2. SettledIsFree /\ Holds /\ Counted /\ (settled => bills >= 1)
  BY DEF SettleInit, SettledIsFree, Holds, Counted
<1>3. \A s \in Settlers : at[s] = "start" /\ failed[s] = FALSE
  BY DEF SettleInit
<1>. QED  BY <1>1, <1>2, <1>3 DEF SettleInv, Worked

\* A claim is taken only when it was free or stale, so under no settler at work; and one
\* that names the settler when it asked is fresh, whether it took it then or before.
LEMMA TakesFree ==
  ASSUME Unclaimed \notin Settlers, SettleInv, NEW s \in Settlers, Takes(s)
  PROVE  /\ token' \in Settlers \cup {Unclaimed} /\ claimedAt' \in {"none", "fresh", "stale"}
         /\ settled => token' = Unclaimed
         /\ token' = s => claimedAt' = "fresh"
         /\ Claimable => token' = s /\ claimedAt' = "fresh"
         /\ ~outlived =>
              \A u \in Settlers :
                /\ at[u] \in {"hook", "marks"} => token' = u /\ claimedAt' = "fresh"
                /\ at[u] = "reads" /\ token' = u => claimedAt' = "fresh"
<1>1. CASE Claimable
  BY <1>1 DEF Takes, Claimable, SettleInv, SettleType, Holds
<1>2. CASE ~Claimable
  BY <1>2 DEF Takes, Claimable, SettleInv, SettleType, SettledIsFree, Holds
<1>. QED  BY <1>1, <1>2

\* Settlers that have not marked are the same, and so are the bills: what was counted is.
LEMMA StaysCounted ==
  ASSUME SettleInv, NEW s \in Settlers, NEW p, at' = [at EXCEPT ![s] = p], at[s] # "marks",
         UNCHANGED <<settled, failed, bills>>, outlived' = outlived, unmarked' = unmarked
  PROVE  Counted'
<1>1. \A u \in Settlers : at[u] = "marks" => at'[u] = "marks"
  BY DEF SettleInv, SettleType
<1>. QED  BY <1>1 DEF SettleInv, Counted

\* A settler asks for the claim; with its answer it calls the hook only if it has it.
LEMMA ClaimKeeps ==
  ASSUME Unclaimed \notin Settlers, SettleInv, NEW s \in Settlers,
         NEW p \in {"hook", "skipped", "reads"}, p = "hook" => Claimable, Claim(s, p)
  PROVE  SettleInv'
<1>1. Takes(s) /\ at[s] = "start" /\ at' = [at EXCEPT ![s] = p] /\ ~failed[s]
  BY DEF Claim, To, SettleInv, Worked
<1>2. SettleType'
  BY <1>1, TakesFree DEF Claim, SettleInv, SettleType
<1>3. SettledIsFree' /\ (settled => bills >= 1)'
  BY <1>1, TakesFree DEF Claim, SettleInv, SettledIsFree
<1>4. Worked'
  BY <1>1 DEF Claim, SettleInv, SettleType, Worked
<1>5. Holds'
  BY <1>1, TakesFree DEF Claim, SettleInv, SettleType, Holds
<1>6. Counted'
  BY <1>1, StaysCounted DEF Claim
<1>. QED  BY <1>2, <1>3, <1>4, <1>5, <1>6 DEF SettleInv

\* What sqlite reads back is its own claim, or another's.
LEMMA ReadsBackKeeps ==
  ASSUME SettleInv, NEW s \in Settlers, ReadsBack(s)
  PROVE  SettleInv'
<1>1. /\ at[s] = "reads" /\ at' = [at EXCEPT ![s] = IF token = s THEN "hook" ELSE "skipped"]
      /\ UNCHANGED <<holds, token, claimedAt, settled, tries, failed, bills, outlived, unmarked>>
  BY DEF ReadsBack, To
<1>2. SettleType' /\ SettledIsFree' /\ (settled => bills >= 1)'
  BY <1>1 DEF SettleInv, SettleType, SettledIsFree
<1>3. Worked'
  BY <1>1 DEF SettleInv, SettleType, Worked
<1>4. Holds'
  BY <1>1 DEF SettleInv, SettleType, Holds
<1>5. Counted'
  BY <1>1, StaysCounted
<1>. QED  BY <1>2, <1>3, <1>4, <1>5 DEF SettleInv

\* A claim that throws may have been taken.
LEMMA ClaimThrowsKeeps ==
  ASSUME Unclaimed \notin Settlers, SettleInv, NEW s \in Settlers, ClaimThrows(s)
  PROVE  SettleInv'
<1>1. /\ at[s] = "start" /\ ~failed[s]
      /\ \E p \in {"skipped", "start"} : at' = [at EXCEPT ![s] = p]
      /\ tries' = [tries EXCEPT ![s] = @ + 1]
      /\ Takes(s) \/ UNCHANGED <<token, claimedAt>>
      /\ UNCHANGED <<holds, settled, failed, bills, outlived, unmarked>>
  BY DEF ClaimThrows, To, SettleInv, Worked
<1>2. SettleType'
  BY <1>1, TakesFree DEF SettleInv, SettleType
<1>3. SettledIsFree' /\ (settled => bills >= 1)'
  BY <1>1, TakesFree DEF SettleInv, SettledIsFree
<1>4. Worked'
  BY <1>1 DEF SettleInv, SettleType, Worked
<1>5. Holds'
  BY <1>1, TakesFree DEF SettleInv, SettleType, Holds
<1>6. Counted'
  BY <1>1, StaysCounted
<1>. QED  BY <1>2, <1>3, <1>4, <1>5, <1>6 DEF SettleInv

\* Who calls the hook holds the run, so nobody has before it.
LEMMA HookKeeps ==
  ASSUME Unclaimed \notin Settlers, SettleInv, NEW s \in Settlers, Hook(s)
  PROVE  SettleInv'
<1>1. /\ at[s] = "hook" /\ at' = [at EXCEPT ![s] = "marks"] /\ ~failed[s]
      /\ \/ bills' = bills + 1 /\ failed' = failed
         \/ failed' = [failed EXCEPT ![s] = TRUE] /\ bills' = bills
      /\ UNCHANGED <<holds, token, claimedAt, settled, tries, outlived, unmarked>>
  BY DEF Hook, To, SettleInv, Worked
<1>2. SettleType'
  <2>1. bills' \in Nat
    BY <1>1 DEF SettleInv, SettleType
  <2>2. failed' \in [Settlers -> BOOLEAN]
    BY <1>1 DEF SettleInv, SettleType
  <2>3. at' \in [Settlers -> {"start", "reads", "hook", "marks", "told", "skipped", "dead"}]
    BY <1>1 DEF SettleInv, SettleType
  <2>. QED  BY <1>1, <2>1, <2>2, <2>3 DEF SettleInv, SettleType
<1>3. SettledIsFree' /\ (settled => bills >= 1)'
  BY <1>1 DEF SettleInv, SettleType, SettledIsFree
<1>4. at'[s] = "marks" /\ \A u \in Settlers : u # s => at'[u] = at[u]
  BY <1>1 DEF SettleInv, SettleType
<1>5. Worked'
  <2>1. \A u \in Settlers : u # s => failed'[u] = failed[u]
    BY <1>1 DEF SettleInv, SettleType
  <2>2. ~failed'[s] => bills' >= 1
    BY <1>1 DEF SettleInv, SettleType
  <2>3. bills' >= bills
    BY <1>1 DEF SettleInv, SettleType
  <2>. QED  BY <1>2, <1>4, <2>1, <2>2, <2>3 DEF SettleInv, SettleType, Worked
<1>6. Holds'
  BY <1>1, <1>4 DEF SettleInv, Holds
<1>7. Counted'
  <2>. SUFFICES ASSUME ~outlived, ~unmarked
                PROVE  Counted'
    BY <1>1 DEF Counted
  <2>1. ~settled /\ \A u \in Settlers : at[u] # "marks"
    BY <1>1 DEF SettleInv, SettledIsFree, Holds
  <2>2. bills = 0
    BY <2>1 DEF SettleInv, Counted
  <2>3. CASE bills' = bills + 1 /\ failed' = failed
    BY <1>1, <1>4, <2>2, <2>3 DEF Counted
  <2>4. CASE bills' = bills
    BY <2>2, <2>4 DEF Counted
  <2>. QED  BY <1>1, <2>3, <2>4
<1>. QED  BY <1>2, <1>3, <1>5, <1>6, <1>7 DEF SettleInv

\* Only the holder's mark is written: it says that the hook had its effect, or frees the run.
LEMMA MarkKeeps ==
  ASSUME Unclaimed \notin Settlers, SettleInv, NEW s \in Settlers, Mark(s)
  PROVE  SettleInv'
<1>1. /\ at[s] = "marks" /\ at' = [at EXCEPT ![s] = "told"]
      /\ UNCHANGED <<holds, tries, failed, bills, outlived, unmarked>>
  BY DEF Mark, To
<1>2. at' \in [Settlers -> {"start", "reads", "hook", "marks", "told", "skipped", "dead"}]
      /\ at'[s] = "told" /\ \A u \in Settlers : u # s => at'[u] = at[u]
  BY <1>1 DEF SettleInv, SettleType
<1>3. CASE token = s
  <2>1. token' = Unclaimed /\ claimedAt' = "none" /\ settled' = (settled \/ ~failed[s])
    BY <1>3 DEF Mark
  <2>2. SettleType' /\ SettledIsFree'
    BY <1>1, <1>2, <2>1 DEF SettleInv, SettleType, SettledIsFree
  <2>3. (settled => bills >= 1)' /\ Worked'
    BY <1>1, <1>2, <2>1 DEF SettleInv, Worked
  <2>4. ~outlived => \A u \in Settlers : at'[u] \notin {"hook", "marks"}
    BY <1>1, <1>2, <1>3 DEF SettleInv, Holds
  <2>5. Holds'
    BY <1>1, <2>1, <2>4 DEF Holds
  <2>6. Counted'
    <3>1. ~outlived => \A u \in Settlers : at[u] = "marks" => u = s
      BY <1>3 DEF SettleInv, Holds
    <3>. QED  BY <1>1, <2>1, <3>1 DEF SettleInv, Counted
  <2>. QED  BY <2>2, <2>3, <2>5, <2>6 DEF SettleInv
<1>4. CASE token # s
  <2>1. UNCHANGED <<token, claimedAt, settled>>
    BY <1>4 DEF Mark
  <2>2. outlived
    BY <1>1, <1>4 DEF SettleInv, Holds
  <2>3. SettleType' /\ SettledIsFree' /\ Holds' /\ Counted'
    BY <1>1, <1>2, <2>1, <2>2 DEF SettleInv, SettleType, SettledIsFree, Holds, Counted
  <2>4. (settled => bills >= 1)' /\ Worked'
    BY <1>1, <1>2, <2>1 DEF SettleInv, Worked
  <2>. QED  BY <2>3, <2>4 DEF SettleInv
<1>. QED  BY <1>3, <1>4

\* A settler that dies, or whose mark is lost, leaves its claim to lapse.
LEMMA GoneKeeps ==
  ASSUME SettleInv, NEW s \in Settlers, MarkFails(s) \/ Dies(s)
  PROVE  SettleInv'
<1>1. /\ \E p \in {"told", "dead"} : at' = [at EXCEPT ![s] = p]
      /\ UNCHANGED <<holds, token, claimedAt, settled, tries, failed, bills, outlived>>
      /\ unmarked' \in BOOLEAN /\ (unmarked => unmarked')
      /\ unmarked' \/ (unmarked' = unmarked /\ at[s] # "marks")
  BY DEF MarkFails, Dies, To, SettleInv, SettleType
<1>2. SettleType' /\ SettledIsFree' /\ (settled => bills >= 1)'
  BY <1>1 DEF SettleInv, SettleType, SettledIsFree
<1>3. Worked'
  BY <1>1 DEF SettleInv, SettleType, Worked
<1>4. Holds'
  BY <1>1 DEF SettleInv, SettleType, Holds
<1>5. Counted'
  <2>1. CASE unmarked'
    BY <2>1 DEF Counted
  <2>2. CASE unmarked' = unmarked /\ at[s] # "marks"
    BY <1>1, <2>2, StaysCounted
  <2>. QED  BY <1>1, <2>1, <2>2
<1>. QED  BY <1>2, <1>3, <1>4, <1>5 DEF SettleInv

\* A settler that comes again knows nothing of before.
LEMMA RetriesKeeps ==
  ASSUME SettleInv, NEW s \in Settlers, Retries(s)
  PROVE  SettleInv'
<1>1. /\ at[s] \in {"told", "skipped"} /\ at' = [at EXCEPT ![s] = "start"]
      /\ failed' = [failed EXCEPT ![s] = FALSE] /\ tries' = [tries EXCEPT ![s] = 0]
      /\ UNCHANGED <<holds, token, claimedAt, settled, bills, outlived, unmarked>>
  BY DEF Retries, To
<1>2. SettleType' /\ SettledIsFree' /\ (settled => bills >= 1)'
  BY <1>1 DEF SettleInv, SettleType, SettledIsFree
<1>3. /\ at'[s] = "start" /\ ~failed'[s]
      /\ \A u \in Settlers : u # s => at'[u] = at[u] /\ failed'[u] = failed[u]
  BY <1>1 DEF SettleInv, SettleType
<1>4. Worked'
  BY <1>1, <1>3 DEF SettleInv, Worked
<1>5. Holds'
  BY <1>1, <1>3 DEF SettleInv, Holds
<1>6. Counted'
  BY <1>1, <1>3 DEF SettleInv, Counted
<1>. QED  BY <1>2, <1>4, <1>5, <1>6 DEF SettleInv

\* A claim that lapses under a settler at work is what outlived says.
LEMMA LapseKeeps ==
  ASSUME Unclaimed \notin Settlers, SettleInv, Lapse
  PROVE  SettleInv'
<1>1. /\ claimedAt' = "stale"
      /\ outlived' = (outlived \/ (token # Unclaimed /\ at[token] \in {"reads", "hook", "marks"}))
      /\ UNCHANGED <<holds, token, settled, at, tries, failed, bills, unmarked>>
  BY DEF Lapse
<1>2. outlived' \in BOOLEAN /\ (outlived => outlived')
  BY <1>1
<1>3. SettleType' /\ SettledIsFree' /\ Worked' /\ (settled => bills >= 1)'
  BY <1>1, <1>2 DEF SettleInv, SettleType, SettledIsFree, Worked
<1>4. Holds'
  BY <1>1, <1>2 DEF SettleInv, Holds
<1>5. Counted'
  BY <1>1, <1>2 DEF SettleInv, Counted
<1>. QED  BY <1>3, <1>4, <1>5 DEF SettleInv

LEMMA SettleStays ==
  ASSUME Unclaimed \notin Settlers, SettleInv, [SettleNext]_settleVars
  PROVE  SettleInv'
<1>1. ASSUME NEW s \in Settlers, MemoryClaims(s) \/ PostgresClaims(s) \/ SqliteClaims(s)
      PROVE  SettleInv'
  BY <1>1, ClaimKeeps DEF MemoryClaims, PostgresClaims, SqliteClaims
<1>2. ASSUME NEW s \in Settlers, MemoryMarks(s) \/ PostgresMarks(s) \/ SqliteMarks(s)
      PROVE  SettleInv'
  BY <1>2, MarkKeeps DEF MemoryMarks, PostgresMarks, SqliteMarks
<1>3. CASE UNCHANGED settleVars
  BY <1>3 DEF settleVars, SettleInv, SettleType, SettledIsFree, Worked, Holds, Counted
<1>. QED
  BY <1>1, <1>2, <1>3, ReadsBackKeeps, ClaimThrowsKeeps, HookKeeps, GoneKeeps, RetriesKeeps, LapseKeeps
  DEF SettleNext

\* The hook has effect once (settle.ts:38), as far as no claim lapsed under its holder and
\* no mark was lost; a run that is marked was settled, and two settlers never work at once.
THEOREM SettlesOnce ==
  ASSUME Unclaimed \notin Settlers
  PROVE  SettleSpec => []SettledOnce
<1>1. SettleInit => SettleInv
  BY SettleStarts
<1>2. SettleInv /\ [SettleNext]_settleVars => SettleInv'
  BY SettleStays
<1>3. SettleInv => SettledOnce
  BY DEF SettleInv, SettleType, Counted, Holds, SettledOnce
<1>. QED  BY <1>1, <1>2, <1>3, PTL DEF SettleSpec

---------------------------------------------------------------------------
\* The sandboxes

Ids == 1..Len(madeBy)
HasOne == {"connects", "pushes", "writes"}
CallSet == [stage : {"idle", "waits", "uses", "retries"}, id : Nat, again : BOOLEAN]
AcquireSet == [stage : {"none", "reads", "makes"} \cup HasOne, id : Nat]

SandboxTypeOK ==
  /\ kept \in [id : Nat, run : Nat, released : BOOLEAN]
  /\ kept.id = 0 => kept = NoRecord
  /\ kept.id # 0 => kept.id \in Ids
  /\ madeBy \in Seq(Nat) /\ runNo \in Nat
  /\ alive \subseteq Ids
  /\ calling \in [ToolCalls -> CallSet]
  /\ \A c \in ToolCalls : calling[c].stage = "uses" => calling[c].id \in Ids
  /\ acquire \in AcquireSet
  /\ IF acquire.stage \in HasOne THEN acquire.id \in Ids ELSE acquire.id = 0

\* The record names the run its sandbox was made for, and what an acquire has or a call uses
\* was made for the run under way.
MadeForTheRun == PerRun =>
  /\ kept.id # 0 => madeBy[kept.id] = kept.run
  /\ acquire.stage \in HasOne => madeBy[acquire.id] = runNo
  /\ \A c \in ToolCalls : calling[c].stage = "uses" => madeBy[calling[c].id] = runNo

\* Up, and no fault let go of it.
Findable == alive \ orphans

\* An acquire writes its record over one that names no other sandbox somebody must find.
NoneIsLost ==
  /\ Findable \subseteq {kept.id, acquire.id}
  /\ kept.released => kept.id \notin Findable
  /\ acquire.stage \in HasOne \cup {"makes"} => kept.id = acquire.id \/ kept.id \notin Findable
  /\ acquire.stage \in {"connects", "pushes"} => kept.id = acquire.id \/ acquire.id \notin Findable

SandboxInv == SandboxTypeOK /\ MadeForTheRun /\ NoneIsLost

LEMMA SandboxStarts == SandboxInit => SandboxInv
  BY DEF SandboxInit, NoRecord, NoCall, NoAcquire, SandboxInv,
         SandboxTypeOK, CallSet, AcquireSet, MadeForTheRun, NoneIsLost, Ids, HasOne, Findable

\* A destroy ends the sandbox, or lets go of it; of the others it changes nothing.
LEMMA DestroysOne ==
  ASSUME NEW s, Destroys(s)
  PROVE  alive' \subseteq alive /\ Findable' = Findable \ {s}
  BY DEF Destroys, Findable

\* What calls and acquires there are.
LEMMA CallsTyped ==
  /\ NoCall \in CallSet /\ NoAcquire \in AcquireSet
  /\ \A r \in CallSet : /\ [r EXCEPT !.stage = "waits"] \in CallSet
                        /\ [r EXCEPT !.stage = "retries"] \in CallSet
                        /\ \A i \in Nat : [r EXCEPT !.stage = "uses", !.id = i] \in CallSet
  /\ [stage |-> "waits", id |-> 0, again |-> TRUE] \in CallSet
  /\ \A a \in AcquireSet : /\ [a EXCEPT !.stage = "pushes"] \in AcquireSet
                           /\ [a EXCEPT !.stage = "writes"] \in AcquireSet
  /\ [NoAcquire EXCEPT !.stage = "reads"] \in AcquireSet
  /\ \A i \in Nat : \A p \in {"makes"} \cup HasOne : [stage |-> p, id |-> i] \in AcquireSet
  BY DEF NoCall, NoAcquire, CallSet, AcquireSet, HasOne

\* Giving up takes the calls that wait, and no other.
LEMMA GivesUpKeeps ==
  ASSUME calling \in [ToolCalls -> CallSet], GivesUp
  PROVE  /\ calling' \in [ToolCalls -> CallSet]
         /\ \A c \in ToolCalls : calling'[c].stage = "uses" => calling'[c] = calling[c]
  BY CallsTyped DEF GivesUp, NoCall

\* The calls and the acquire move on with the sandboxes that there are.
LEMMA CallsKeep ==
  ASSUME SandboxInv, NEW c \in ToolCalls,
         Wants(c) \/ CallOver(c) \/ Gone(c)
  PROVE  SandboxInv'
<1>. USE DEF SandboxInv
<1>1. \E r \in CallSet : r.stage # "uses" /\ calling' = [calling EXCEPT ![c] = r]
  <2>1. CASE Wants(c)
    <3>1. calling[c] \in CallSet
      BY DEF SandboxTypeOK
    <3>2. \/ calling' = [calling EXCEPT ![c] = [calling[c] EXCEPT !.stage = "waits"]]
          \/ calling' = [calling EXCEPT ![c] = [stage |-> "waits", id |-> 0, again |-> TRUE]]
      BY <2>1 DEF Wants
    <3>3. [calling[c] EXCEPT !.stage = "waits"].stage = "waits"
      BY <3>1 DEF CallSet
    <3>. QED  BY <3>1, <3>2, <3>3, CallsTyped
  <2>2. CASE CallOver(c)
    BY <2>2, CallsTyped DEF CallOver, NoCall
  <2>3. CASE Gone(c)
    <3>1. calling[c] \in CallSet
      BY DEF SandboxTypeOK
    <3>2. calling' = [calling EXCEPT ![c] = NoCall] \/
          calling' = [calling EXCEPT ![c] = [calling[c] EXCEPT !.stage = "retries"]]
      BY <2>3 DEF Gone
    <3>3. [calling[c] EXCEPT !.stage = "retries"].stage = "retries" /\ NoCall.stage = "idle"
      BY <3>1 DEF CallSet, NoCall
    <3>. QED  BY <3>1, <3>2, <3>3, CallsTyped
  <2>. QED  BY <2>1, <2>2, <2>3
<1>2. /\ calling' \in [ToolCalls -> CallSet]
      /\ \A d \in ToolCalls : calling'[d].stage = "uses" => calling'[d] = calling[d]
  BY <1>1 DEF SandboxTypeOK
<1>3. UNCHANGED <<scope, alive, madeBy, orphans, runNo>>
  BY DEF Wants, CallOver, Gone, Runs
<1>4. CASE Wants(c)
  <2>1. /\ acquire' = acquire \/ (acquire.stage = "none" /\ acquire'.stage = "reads" /\ acquire'.id = 0)
        /\ acquire' \in AcquireSet
    <3>1. \/ acquire' = acquire
          \/ acquire = NoAcquire /\ acquire' = [NoAcquire EXCEPT !.stage = "reads"]
      BY <1>4 DEF Wants
    <3>2. acquire \in AcquireSet
      BY DEF SandboxTypeOK
    <3>3. /\ NoAcquire.stage = "none"
          /\ [NoAcquire EXCEPT !.stage = "reads"].stage = "reads"
          /\ [NoAcquire EXCEPT !.stage = "reads"].id = 0
      BY DEF NoAcquire
    <3>. QED  BY <3>1, <3>2, <3>3, CallsTyped
  <2>2. kept' = kept
    BY <1>4 DEF Wants
  <2>3. SandboxTypeOK'
    BY <1>2, <1>3, <2>1, <2>2 DEF SandboxTypeOK, NoRecord, Ids, HasOne
  <2>4. MadeForTheRun' /\ NoneIsLost'
    BY <1>2, <1>3, <2>1, <2>2 DEF SandboxTypeOK, MadeForTheRun, PerRun, NoneIsLost, Findable, HasOne
  <2>. QED  BY <2>3, <2>4
<1>5. CASE CallOver(c) \/ Gone(c)
  <2>1. /\ acquire' = acquire
        /\ kept' = kept \/ (kept' = NoRecord /\ kept.id \notin alive)
    BY <1>5 DEF CallOver, Gone
  <2>2. SandboxTypeOK'
    <3>1. /\ kept' \in [id : Nat, run : Nat, released : BOOLEAN]
          /\ kept'.id = 0 => kept' = NoRecord
          /\ kept'.id # 0 => kept'.id \in Ids
      <4>1. NoRecord \in [id : Nat, run : Nat, released : BOOLEAN] /\ NoRecord.id = 0
        BY DEF NoRecord
      <4>. QED  BY <2>1, <4>1 DEF SandboxTypeOK
    <3>. QED  BY <1>2, <1>3, <2>1, <3>1 DEF SandboxTypeOK, Ids
  <2>3. MadeForTheRun'
    BY <1>2, <1>3, <2>1 DEF MadeForTheRun, PerRun, NoRecord
  <2>4. NoneIsLost'
    BY <1>2, <1>3, <2>1 DEF SandboxTypeOK, NoneIsLost, Findable, NoRecord, Ids, HasOne
  <2>. QED  BY <2>2, <2>3, <2>4
<1>. QED  BY <1>4, <1>5

LEMMA ReadsKeeps == SandboxInv /\ Reads => SandboxInv'
<1>. SUFFICES ASSUME SandboxInv, Reads PROVE SandboxInv'
  OBVIOUS
<1>. USE DEF SandboxInv, Runs
<1>1. CASE Mine /\ acquire' = [stage |-> "connects", id |-> kept.id]
           /\ UNCHANGED <<alive, handled, orphans, ends>>
  <2>1. SandboxTypeOK'
    <3>1. kept.id # 0 /\ kept.id \in Ids /\ kept.id \in Nat
      BY <1>1 DEF Mine, SandboxTypeOK, CallSet, AcquireSet
    <3>2. acquire' \in AcquireSet /\ acquire'.id \in Ids /\ acquire'.stage \in HasOne
      BY <1>1, <3>1, CallsTyped DEF HasOne
    <3>. QED  BY <1>1, <3>2 DEF Reads, SandboxTypeOK, CallSet, AcquireSet, NoRecord, Ids
  <2>2. MadeForTheRun'
    <3>1. kept.id # 0 /\ (PerRun => kept.run = runNo)
      BY <1>1 DEF Mine, Owner, SandboxTypeOK
    <3>2. acquire'.id = kept.id /\ UNCHANGED <<scope, kept, madeBy, calling, runNo>>
      BY <1>1 DEF Reads
    <3>. QED  BY <3>1, <3>2 DEF MadeForTheRun, PerRun
  <2>3. NoneIsLost'
    <3>1. acquire'.id = kept.id /\ kept'.id = kept.id /\ kept' = kept /\ acquire.id = 0
      BY <1>1 DEF Reads, SandboxTypeOK, HasOne
    <3>2. Findable' = Findable /\ 0 \notin Findable
      BY <1>1 DEF Findable, SandboxTypeOK, Ids
    <3>. QED  BY <3>1, <3>2 DEF NoneIsLost
  <2>. QED  BY <2>1, <2>2, <2>3
<1>2. CASE /\ kept = NoRecord \/ kept.released
           /\ acquire' = [stage |-> "makes", id |-> 0]
           /\ UNCHANGED <<alive, handled, orphans, ends>>
  <2>1. SandboxTypeOK'
    BY <1>2 DEF Reads, SandboxTypeOK, CallSet, AcquireSet, NoRecord, Ids, HasOne
  <2>2. MadeForTheRun' /\ NoneIsLost'
    BY <1>2 DEF Reads, SandboxTypeOK, CallSet, AcquireSet, NoRecord, MadeForTheRun, PerRun,
                NoneIsLost, Findable, Ids, HasOne
  <2>. QED  BY <2>1, <2>2
<1>3. CASE /\ kept # NoRecord /\ ~kept.released
           /\ acquire' = [stage |-> "makes", id |-> 0]
           /\ Destroys(kept.id)
  <2>1. alive' \subseteq alive /\ Findable' = Findable \ {kept.id}
    BY <1>3, DestroysOne
  <2>2. SandboxTypeOK'
    BY <1>3, <2>1 DEF Reads, SandboxTypeOK, CallSet, AcquireSet, NoRecord, Ids, HasOne
  <2>3. MadeForTheRun' /\ NoneIsLost'
    BY <1>3, <2>1 DEF Reads, SandboxTypeOK, CallSet, AcquireSet, MadeForTheRun, PerRun, NoneIsLost, HasOne
  <2>. QED  BY <2>2, <2>3
<1>. QED  BY <1>1, <1>2, <1>3 DEF Reads

LEMMA AcquireKeeps == SandboxInv /\ (Connects \/ Pushes) => SandboxInv'
<1>. SUFFICES ASSUME SandboxInv, Connects \/ Pushes PROVE SandboxInv'
  OBVIOUS
<1>. USE DEF SandboxInv, Runs
<1>1. CASE Connects
  <2>1. SandboxTypeOK'
    BY <1>1 DEF Connects, SandboxTypeOK, CallSet, AcquireSet, NoRecord, Ids, HasOne
  <2>2. MadeForTheRun' /\ NoneIsLost'
    BY <1>1 DEF Connects, SandboxTypeOK, CallSet, AcquireSet, MadeForTheRun, PerRun, NoneIsLost,
                Findable, HasOne
  <2>. QED  BY <2>1, <2>2
<1>2. CASE Pushes
  <2>. USE <1>2
  <2>1. /\ calling' \in [ToolCalls -> CallSet]
        /\ \A c \in ToolCalls : calling'[c].stage = "uses" => calling'[c] = calling[c]
    BY GivesUpKeeps DEF Pushes, SandboxTypeOK, CallSet, AcquireSet
  <2>2. /\ acquire' \in AcquireSet
        /\ \/ acquire'.stage = "writes" /\ acquire'.id = acquire.id
           \/ acquire'.stage = "makes" /\ acquire'.id = 0 /\ acquire.id \notin alive
           \/ acquire'.stage = "none" /\ acquire'.id = 0
    <3>1. acquire \in AcquireSet
      BY DEF SandboxTypeOK
    <3>2. \/ acquire' = [acquire EXCEPT !.stage = "writes"]
          \/ acquire' = [stage |-> "makes", id |-> 0] /\ acquire.id \notin alive
          \/ acquire' = NoAcquire
      BY DEF Pushes
    <3>. QED  BY <3>1, <3>2 DEF AcquireSet, NoAcquire, HasOne
  <2>3. /\ acquire.stage = "pushes"
        /\ UNCHANGED <<scope, kept, alive, madeBy, runNo, orphans>>
    BY DEF Pushes
  <2>4. SandboxTypeOK'
    BY <2>1, <2>2, <2>3 DEF SandboxTypeOK, CallSet, AcquireSet, NoRecord, Ids, HasOne
  <2>5. MadeForTheRun' /\ NoneIsLost'
    BY <2>1, <2>2, <2>3 DEF SandboxTypeOK, CallSet, AcquireSet, MadeForTheRun, PerRun, NoneIsLost, Findable, HasOne
  <2>. QED  BY <2>4, <2>5
<1>. QED  BY <1>1, <1>2

LEMMA MakesKeeps == SandboxInv /\ Makes => SandboxInv'
<1>. SUFFICES ASSUME SandboxInv, Makes PROVE SandboxInv'
  OBVIOUS
<1>. DEFINE s == Len(madeBy) + 1
<1>1. /\ acquire.stage = "makes" /\ acquire.id = 0
      /\ madeBy' = Append(madeBy, runNo)
      /\ alive' = alive \cup {s} /\ acquire' = [stage |-> "writes", id |-> s]
      /\ UNCHANGED <<scope, kept, calling, orphans, runNo>>
  BY DEF Makes, Runs, SandboxInv, SandboxTypeOK, CallSet, AcquireSet, HasOne
<1>2. /\ madeBy' \in Seq(Nat) /\ Ids' = Ids \cup {s} /\ s \notin Ids /\ s \in Nat \ {0}
      /\ madeBy'[s] = runNo /\ \A i \in Ids : madeBy'[i] = madeBy[i]
  BY <1>1 DEF Ids, SandboxInv, SandboxTypeOK, CallSet, AcquireSet
<1>. HIDE DEF s
<1>3. SandboxTypeOK'
  <2>1. acquire' \in AcquireSet /\ acquire'.stage \in HasOne /\ acquire'.id \in Ids'
    BY <1>1, <1>2, CallsTyped DEF HasOne
  <2>2. runNo' \in Nat /\ alive' \subseteq Ids' /\ Ids \subseteq Ids'
    BY <1>1, <1>2 DEF SandboxInv, SandboxTypeOK, CallSet, AcquireSet
  <2>. QED  BY <1>1, <1>2, <2>1, <2>2 DEF SandboxInv, SandboxTypeOK, CallSet, AcquireSet, NoRecord
<1>4. MadeForTheRun'
  BY <1>1, <1>2 DEF SandboxInv, SandboxTypeOK, MadeForTheRun, PerRun
<1>5. NoneIsLost'
  <2>1. Findable' \subseteq Findable \cup {s} /\ kept.id # s /\ 0 \notin Findable
    BY <1>1, <1>2 DEF SandboxInv, SandboxTypeOK, Findable, Ids
  <2>2. acquire'.id = s /\ acquire'.stage = "writes" /\ kept' = kept
    BY <1>1
  <2>3. kept.id \notin Findable
    BY <1>1, <2>1 DEF SandboxInv, NoneIsLost
  <2>. QED  BY <1>1, <2>1, <2>2, <2>3 DEF SandboxInv, NoneIsLost
<1>. QED  BY <1>3, <1>4, <1>5 DEF SandboxInv

LEMMA WritesKeeps == SandboxInv /\ Writes => SandboxInv'
<1>. SUFFICES ASSUME SandboxInv, Writes PROVE SandboxInv'
  OBVIOUS
<1>1. /\ acquire.stage \in HasOne /\ acquire.id \in Ids /\ acquire.id \in Nat \ {0}
      /\ kept' = [id |-> acquire.id, run |-> Owner, released |-> FALSE]
      /\ acquire' = NoAcquire
      /\ UNCHANGED <<scope, alive, madeBy, orphans, runNo>>
  <2>1. /\ acquire.stage = "writes"
        /\ kept' = [id |-> acquire.id, run |-> Owner, released |-> FALSE]
        /\ acquire' = NoAcquire
        /\ UNCHANGED <<scope, alive, madeBy, orphans, runNo>>
    BY DEF Writes, Runs
  <2>2. acquire.stage \in HasOne
    BY <2>1 DEF HasOne
  <2>3. acquire.id \in Ids /\ madeBy \in Seq(Nat)
    BY <2>2 DEF SandboxInv, SandboxTypeOK
  <2>. QED  BY <2>1, <2>2, <2>3 DEF Ids
<1>2. /\ calling' \in [ToolCalls -> CallSet]
      /\ \A c \in ToolCalls : calling'[c].stage = "uses" =>
           calling'[c] = calling[c] \/ calling'[c].id = acquire.id
  <2>1. ASSUME NEW r \in CallSet
        PROVE  [r EXCEPT !.stage = "uses", !.id = acquire.id].id = acquire.id
    BY DEF CallSet
  <2>2. calling \in [ToolCalls -> CallSet]
    BY DEF SandboxInv, SandboxTypeOK
  <2>3. calling' = [c \in ToolCalls |-> IF calling[c].stage = "waits"
                    THEN [calling[c] EXCEPT !.stage = "uses", !.id = acquire.id] ELSE calling[c]]
    BY DEF Writes
  <2>. QED  BY <1>1, <2>1, <2>2, <2>3, CallsTyped
<1>3. SandboxTypeOK'
  <2>1. kept' \in [id : Nat, run : Nat, released : BOOLEAN] /\ kept'.id = acquire.id
    BY <1>1 DEF SandboxInv, SandboxTypeOK, Owner
  <2>2. acquire' \in AcquireSet /\ acquire'.stage \notin HasOne /\ acquire'.id = 0
    BY <1>1, CallsTyped DEF HasOne, NoAcquire
  <2>. QED  BY <1>1, <1>2, <2>1, <2>2 DEF SandboxInv, SandboxTypeOK, Ids
<1>4. MadeForTheRun'
  BY <1>1, <1>2 DEF SandboxInv, MadeForTheRun, PerRun, Owner, NoAcquire, HasOne
<1>5. NoneIsLost'
  BY <1>1 DEF SandboxInv, NoneIsLost, Findable, HasOne, NoAcquire
<1>. QED  BY <1>3, <1>4, <1>5 DEF SandboxInv

\* Runs park, end and follow each other while nothing is under way.
LEMMA RunsKeep ==
  SandboxInv /\ (Parks \/ Resumed \/ RunEnds \/ DeletesSandbox) => SandboxInv'
<1>. SUFFICES ASSUME SandboxInv,
                     Parks \/ Resumed \/ RunEnds \/ DeletesSandbox
              PROVE  SandboxInv'
  OBVIOUS
<1>. USE DEF SandboxInv, Runs, NoAcquire, NoCall, Idle, HasOne
<1>1. CASE Resumed
  BY <1>1 DEF Resumed, SandboxTypeOK, CallSet, AcquireSet, MadeForTheRun, PerRun, NoneIsLost, Findable, Ids
<1>2. CASE Parks
  <2>1. CASE Destroys(kept.id) /\ kept' = [kept EXCEPT !.released = TRUE] /\ Mine
    <3>1. alive' \subseteq alive /\ Findable' = Findable \ {kept.id}
      BY <2>1, DestroysOne
    <3>2. SandboxTypeOK'
      BY <1>2, <2>1, <3>1 DEF Parks, Mine, SandboxTypeOK, CallSet, AcquireSet, NoRecord, Ids
    <3>3. MadeForTheRun' /\ NoneIsLost'
      BY <1>2, <2>1, <3>1 DEF Parks, SandboxTypeOK, CallSet, AcquireSet, MadeForTheRun, PerRun, NoneIsLost
    <3>. QED  BY <3>2, <3>3
  <2>2. CASE UNCHANGED <<kept, alive, orphans>>
    BY <1>2, <2>2 DEF Parks, SandboxTypeOK, CallSet, AcquireSet, MadeForTheRun, PerRun, NoneIsLost, Findable, Ids
  <2>. QED  BY <1>2, <2>1, <2>2 DEF Parks
<1>3. CASE RunEnds
  <2>. USE <1>3 DEF RunEnds
  <2>1. CASE Destroys(kept.id) /\ kept' = NoRecord
    <3>1. alive' \subseteq alive /\ Findable' = Findable \ {kept.id}
      BY <2>1, DestroysOne
    <3>2. SandboxTypeOK'
      BY <2>1, <3>1 DEF SandboxTypeOK, CallSet, AcquireSet, NoRecord, Ids
    <3>3. MadeForTheRun'
      BY <2>1 DEF MadeForTheRun, NoRecord
    <3>4. NoneIsLost'
      BY <2>1, <3>1 DEF NoneIsLost, NoRecord
    <3>. QED  BY <3>2, <3>3, <3>4
  <2>2. CASE UNCHANGED <<kept, alive, orphans>>
    BY <2>2 DEF SandboxTypeOK, CallSet, AcquireSet, MadeForTheRun, PerRun, NoneIsLost, Findable, Ids
  <2>. QED  BY <2>1, <2>2
<1>4. CASE DeletesSandbox
  <2>. USE <1>4 DEF DeletesSandbox
  <2>1. alive' \subseteq alive /\ Findable' = Findable \ {kept.id}
    BY DestroysOne
  <2>2. SandboxTypeOK'
    BY <2>1 DEF SandboxTypeOK, CallSet, AcquireSet, NoRecord, Ids
  <2>3. MadeForTheRun' /\ NoneIsLost'
    BY <2>1 DEF SandboxTypeOK, CallSet, AcquireSet, MadeForTheRun, PerRun, NoneIsLost, NoRecord
  <2>. QED  BY <2>2, <2>3
<1>. QED  BY <1>1, <1>2, <1>3, <1>4

\* Sandboxes end, records expire, calls to the provider fail and workers die.
LEMMA EndsKeep ==
  ASSUME SandboxInv,
         Expires \/ Fails \/ WorkerDies \/ \E s \in alive : SandboxEnds(s)
  PROVE  SandboxInv'
<1>. USE DEF SandboxInv, Runs, HasOne
<1>1. ASSUME NEW s \in alive, SandboxEnds(s) PROVE SandboxInv'
  <2>1. alive' \subseteq alive /\ Findable' = Findable \ {s}
    BY <1>1 DEF SandboxEnds, Findable
  <2>2. SandboxTypeOK'
    BY <1>1, <2>1 DEF SandboxEnds, SandboxTypeOK, CallSet, AcquireSet, Ids
  <2>3. MadeForTheRun' /\ NoneIsLost'
    BY <1>1, <2>1 DEF SandboxEnds, SandboxTypeOK, CallSet, AcquireSet, MadeForTheRun, PerRun, NoneIsLost
  <2>. QED  BY <2>2, <2>3
<1>2. CASE Expires
  <2>. USE <1>2 DEF Expires
  <2>1. Findable' = Findable \ {kept.id}
    BY DEF Findable
  <2>2. SandboxTypeOK'
    BY DEF SandboxTypeOK, CallSet, AcquireSet, NoRecord, Ids
  <2>3. MadeForTheRun' /\ NoneIsLost'
    BY <2>1 DEF SandboxTypeOK, CallSet, AcquireSet, MadeForTheRun, PerRun, NoneIsLost, NoRecord, Findable, Ids
  <2>. QED  BY <2>2, <2>3
<1>3. CASE Fails \/ WorkerDies
  <2>. USE <1>3
  <2>1. /\ calling' \in [ToolCalls -> CallSet]
        /\ \A c \in ToolCalls : calling'[c].stage = "uses" => calling'[c] = calling[c]
    <3>1. calling \in [ToolCalls -> CallSet]
      BY DEF SandboxTypeOK
    <3>2. GivesUp \/ calling' = [c \in ToolCalls |-> NoCall]
      BY DEF Fails, WorkerDies
    <3>3. NoCall.stage # "uses"
      BY DEF NoCall
    <3>. QED  BY <3>1, <3>2, <3>3, GivesUpKeeps, CallsTyped
  <2>2. /\ acquire' \in AcquireSet /\ acquire'.stage = "none" /\ acquire'.id = 0
        /\ orphans' = orphans \cup InTheMaking
        /\ UNCHANGED <<scope, kept, alive, madeBy, runNo>>
    BY DEF Fails, WorkerDies, NoAcquire, AcquireSet
  <2>3. Findable' \subseteq Findable \cap {kept.id}
    <3>1. ASSUME NEW s \in Findable, s # kept.id, s \notin InTheMaking PROVE FALSE
      BY <3>1 DEF SandboxTypeOK, CallSet, AcquireSet, NoneIsLost, Findable, InTheMaking, HasOne, Ids
    <3>. QED  BY <2>2, <3>1 DEF Findable
  <2>4. SandboxTypeOK'
    BY <2>1, <2>2 DEF SandboxTypeOK, CallSet, AcquireSet, NoRecord, Ids, HasOne
  <2>5. MadeForTheRun' /\ NoneIsLost'
    BY <2>1, <2>2, <2>3 DEF SandboxTypeOK, CallSet, AcquireSet, MadeForTheRun, PerRun, NoneIsLost, HasOne
  <2>. QED  BY <2>4, <2>5
<1>. QED  BY <1>1, <1>2, <1>3

SandboxSpec == SandboxInit /\ [][SandboxNext]_sandboxVars

LEMMA SandboxTurns == SandboxInv /\ [SandboxNext]_sandboxVars => SandboxInv'
<1>. SUFFICES ASSUME SandboxInv, [SandboxNext]_sandboxVars PROVE SandboxInv'
  OBVIOUS
<1>1. CASE SandboxNext
  BY <1>1, CallsKeep, ReadsKeeps, AcquireKeeps, MakesKeeps, WritesKeeps, RunsKeep, EndsKeep
     DEF SandboxNext
<1>2. CASE UNCHANGED sandboxVars
  BY <1>2 DEF sandboxVars, SandboxInv, SandboxTypeOK, CallSet, AcquireSet, MadeForTheRun, PerRun, NoneIsLost,
              Findable, Ids
<1>. QED  BY <1>1, <1>2

\* With a sandbox per run no tool call works among another run's files, and every sandbox that
\* is up is named by the record or by the acquire about to write it, unless a fault that is
\* only logged let go of it (core/builtin/sandbox.ts, acquire and releaseRunSandbox).
THEOREM SandboxesHaveOwners == SandboxSpec => []SandboxesAreOwned
<1>1. SandboxInv => SandboxesAreOwned
  BY DEF SandboxInv, MadeForTheRun, NoneIsLost, Findable, SandboxesAreOwned
<1>. QED  BY SandboxStarts, SandboxTurns, <1>1, PTL DEF SandboxSpec

---------------------------------------------------------------------------
(* FlowQueue *)

\* A job's key is never the id of a dispatch: an id is a uuid, and a key names what it is for
\* (core/lease.ts, enqueueJob; core/reclaim.ts).
KeysNameNoDispatch == \A i, j \in Jobs : i.key # j.dispatch

Statuses == Active \cup Ended
Answers == {"idle", "start", "ok", "full", "duplicate", "threw"}
FlowRecord ==
  [job: Jobs, status: Statuses, tries: Nat, slept: BOOLEAN, freed: BOOLEAN, told: BOOLEAN]

FlowInv ==
  /\ flowRuns \in Seq(FlowRecord)
  /\ enqueues \in [Callers -> [at: Answers, job: Jobs, tries: {0, 1}]]
  /\ purging \subseteq DOMAIN flowRuns
  /\ EnqueueTellsTruth

\* Flow's runs go on with the jobs they have.
FlowRunsStay ==
  /\ flowRuns' \in Seq(FlowRecord)
  /\ \A r \in DOMAIN flowRuns : r \in DOMAIN flowRuns' /\ flowRuns'[r].job = flowRuns[r].job

LEMMA FlowStarts == Init => FlowInv
<1>. SUFFICES ASSUME Init PROVE FlowInv
  OBVIOUS
<1>1. PICK first \in [Callers -> Jobs] :
        enqueues = [c \in Callers |-> [at |-> "idle", job |-> first[c], tries |-> 0]]
  BY DEF Init
<1>2. enqueues \in [Callers -> [at: Answers, job: Jobs, tries: {0, 1}]]
  BY <1>1 DEF Answers
<1>3. \A c \in Callers : enqueues[c].at = "idle"
  BY <1>1
<1>4. EnqueueTellsTruth
  BY <1>3, Zenon DEF EnqueueTellsTruth
<1>. QED  BY <1>2, <1>4 DEF Init, FlowInv

LEMMA FlowSetStays ==
  ASSUME flowRuns \in Seq(FlowRecord), NEW r \in DOMAIN flowRuns, NEW rec \in FlowRecord,
         rec.job = flowRuns[r].job, flowRuns' = [flowRuns EXCEPT ![r] = rec]
  PROVE  FlowRunsStay
  BY DEF FlowRunsStay, FlowRecord

LEMMA FlowRecordEdits ==
  ASSUME NEW rec \in FlowRecord
  PROVE  /\ \A s \in Statuses : LET new == [rec EXCEPT !.status = s]
                                IN  new \in FlowRecord /\ new.job = rec.job
         /\ LET new == [rec EXCEPT !.freed = TRUE] IN new \in FlowRecord /\ new.job = rec.job
         /\ LET new == [rec EXCEPT !.told = TRUE] IN new \in FlowRecord /\ new.job = rec.job
         /\ LET new == [rec EXCEPT !.status = "sleeping", !.slept = TRUE]
            IN  new \in FlowRecord /\ new.job = rec.job
         /\ LET new == [rec EXCEPT !.status = "sleeping", !.tries = @ + 1]
            IN  new \in FlowRecord /\ new.job = rec.job
         /\ LET new == [rec EXCEPT !.tries = @ + 1] IN new \in FlowRecord /\ new.job = rec.job
         /\ LET new == [rec EXCEPT !.status = "queued", !.tries = 0, !.freed = FALSE, !.told = FALSE]
            IN  new \in FlowRecord /\ new.job = rec.job
<1>. HIDE DEF Statuses
<1>1. "sleeping" \in Statuses /\ "queued" \in Statuses
  BY DEF Statuses, Active
<1>2. rec.tries \in Nat /\ rec.tries + 1 \in Nat
  BY DEF FlowRecord
<1>3. \A s \in Statuses : LET new == [rec EXCEPT !.status = s]
                          IN  new \in FlowRecord /\ new.job = rec.job
  BY DEF FlowRecord
<1>4. LET new == [rec EXCEPT !.freed = TRUE] IN new \in FlowRecord /\ new.job = rec.job
  BY DEF FlowRecord
<1>5. LET new == [rec EXCEPT !.told = TRUE] IN new \in FlowRecord /\ new.job = rec.job
  BY DEF FlowRecord
<1>6. LET new == [rec EXCEPT !.status = "sleeping", !.slept = TRUE]
      IN  new \in FlowRecord /\ new.job = rec.job
  BY <1>1 DEF FlowRecord
<1>7. LET new == [rec EXCEPT !.status = "sleeping", !.tries = @ + 1]
      IN  new \in FlowRecord /\ new.job = rec.job
  BY <1>1, <1>2 DEF FlowRecord
<1>8. LET new == [rec EXCEPT !.tries = @ + 1] IN new \in FlowRecord /\ new.job = rec.job
  BY <1>1, <1>2 DEF FlowRecord
<1>9. LET new == [rec EXCEPT !.status = "queued", !.tries = 0, !.freed = FALSE, !.told = FALSE]
      IN  new \in FlowRecord /\ new.job = rec.job
  BY <1>1 DEF FlowRecord
<1>. QED  BY <1>3, <1>4, <1>5, <1>6, <1>7, <1>8, <1>9, Zenon

LEMMA FlowRunsGoOn ==
  ASSUME flowRuns \in Seq(FlowRecord), NEW r \in DOMAIN flowRuns,
         \/ KeyFreed(r) \/ Step(r) \/ Wake(r) \/ Handled(r) \/ Throws(r) \/ TimesOut(r)
         \/ HandDead(r) \/ Redrive(r) \/ PurgeDead(r)
  PROVE  FlowRunsStay /\ enqueues' = enqueues
<1>1. enqueues' = enqueues
  BY Zenon DEF KeyFreed, Step, Wake, Handled, Throws, TimesOut, HandDead, Redrive, PurgeDead
<1>2. flowRuns[r] \in FlowRecord
  OBVIOUS
<1>3. {"paused", "running", "queued", "done", "failed", "deleted"} \subseteq Statuses
  BY DEF Statuses, Active, Ended
<1>4. ASSUME NEW new \in FlowRecord, new.job = flowRuns[r].job, flowRuns' = [flowRuns EXCEPT ![r] = new]
      PROVE  FlowRunsStay
  BY <1>4, FlowSetStays
<1>5. ASSUME NEW s \in Statuses, flowRuns' = SetStatus(r, s) PROVE FlowRunsStay
  BY <1>2, <1>4, <1>5, FlowRecordEdits, Zenon DEF SetStatus
<1>6. CASE KeyFreed(r)
  BY <1>2, <1>4, <1>6, FlowRecordEdits, Zenon DEF KeyFreed
<1>7. CASE HandDead(r)
  BY <1>2, <1>4, <1>7, FlowRecordEdits, Zenon DEF HandDead
<1>8. CASE Step(r)
  <2>1. CASE flowRuns' = [flowRuns EXCEPT ![r].status = "sleeping", ![r].slept = TRUE]
    <3>1. PICK new \in FlowRecord :
            new = [flowRuns[r] EXCEPT !.status = "sleeping", !.slept = TRUE] /\ new.job = flowRuns[r].job
      BY <1>2, FlowRecordEdits, Zenon
    <3>2. flowRuns' = [flowRuns EXCEPT ![r] = new]
      BY <2>1, <3>1
    <3>. QED  BY <1>1, <1>4, <3>1, <3>2
  <2>. QED  BY <1>3, <1>5, <1>8, <2>1, Zenon DEF Step
<1>9. CASE Throws(r)
  <2>1. CASE flowRuns' = [flowRuns EXCEPT ![r].status = "sleeping", ![r].tries = @ + 1]
    <3>1. PICK new \in FlowRecord :
            new = [flowRuns[r] EXCEPT !.status = "sleeping", !.tries = @ + 1] /\ new.job = flowRuns[r].job
      BY <1>2, FlowRecordEdits, Zenon
    <3>2. flowRuns' = [flowRuns EXCEPT ![r] = new]
      BY <2>1, <3>1
    <3>. QED  BY <1>1, <1>4, <3>1, <3>2
  <2>. QED  BY <1>3, <1>5, <1>9, <2>1, Zenon DEF Throws
<1>10. CASE TimesOut(r)
  BY <1>2, <1>4, <1>10, FlowRecordEdits, Zenon DEF TimesOut
<1>11. CASE Redrive(r)
  <2>1. PICK new \in FlowRecord :
          /\ new = [flowRuns[r] EXCEPT !.status = "queued", !.tries = 0, !.freed = FALSE, !.told = FALSE]
          /\ new.job = flowRuns[r].job
    BY <1>2, FlowRecordEdits, Zenon
  <2>2. flowRuns' = [flowRuns EXCEPT ![r] = new]
    BY <1>11, <2>1 DEF Redrive
  <2>. QED  BY <1>1, <1>4, <2>1, <2>2
<1>12. CASE Wake(r) \/ Handled(r) \/ PurgeDead(r)
  BY <1>3, <1>5, <1>12, Zenon DEF Wake, Handled, PurgeDead
<1>. QED  BY <1>1, <1>6, <1>7, <1>8, <1>9, <1>10, <1>11, <1>12

LEMMA FlowAdmin ==
  ASSUME flowRuns \in Seq(FlowRecord),
         \/ \E key \in {KeyOf(j) : j \in Jobs} : Cancel(key)
         \/ Pause \/ Resume
         \/ \E j \in Jobs : Purge(j.thread)
         \/ PurgeNext /\ purging \subseteq DOMAIN flowRuns
  PROVE  FlowRunsStay /\ enqueues' = enqueues
<1>1. ASSUME NEW r \in DOMAIN flowRuns, flowRuns' = SetStatus(r, "cancelled") PROVE FlowRunsStay
  <2>1. flowRuns[r] \in FlowRecord /\ "cancelled" \in Statuses
    BY DEF Statuses, Ended
  <2>. QED  BY <1>1, <2>1, FlowSetStays, FlowRecordEdits, Zenon DEF SetStatus
<1>2. flowRuns' = flowRuns => FlowRunsStay
  BY DEF FlowRunsStay
<1>3. CASE \E key \in {KeyOf(j) : j \in Jobs} : Cancel(key)
  BY <1>1, <1>3 DEF Cancel, Holders
<1>4. CASE Resume
  <2>1. \A r \in DOMAIN flowRuns :
          LET new == [flowRuns[r] EXCEPT !.status = "queued"]
          IN  new \in FlowRecord /\ new.job = flowRuns[r].job
    <3>1. \A r \in DOMAIN flowRuns : flowRuns[r] \in FlowRecord
      OBVIOUS
    <3>2. "queued" \in Statuses
      BY DEF Statuses, Active
    <3>. QED  BY <3>1, <3>2, FlowRecordEdits, Zenon
  <2>2. flowRuns' \in [DOMAIN flowRuns -> FlowRecord]
    BY <1>4, <2>1 DEF Resume
  <2>3. DOMAIN flowRuns = 1..Len(flowRuns) /\ Len(flowRuns) \in Nat
    OBVIOUS
  <2>. QED  BY <1>4, <2>1, <2>2, <2>3 DEF Resume, FlowRunsStay
<1>5. CASE Pause \/ \E j \in Jobs : Purge(j.thread)
  BY <1>2, <1>5 DEF Pause, Purge
<1>6. CASE PurgeNext /\ purging \subseteq DOMAIN flowRuns
  BY <1>1, <1>2, <1>6 DEF PurgeNext
<1>. QED  BY <1>3, <1>4, <1>5, <1>6

LEMMA FlowStartsOne ==
  ASSUME flowRuns \in Seq(FlowRecord), NEW posted \in Jobs, flowRuns' = Append(flowRuns, Fresh(posted))
  PROVE  FlowRunsStay /\ \E r \in DOMAIN flowRuns' : flowRuns'[r].job = posted
<1>1. Fresh(posted) \in FlowRecord /\ Fresh(posted).job = posted
  BY DEF FlowRecord, Fresh, Statuses, Active
<1>. QED  BY <1>1 DEF FlowRunsStay

LEMMA FlowTurns ==
  ASSUME KeysNameNoDispatch, FlowInv, [Next]_vars
  PROVE  FlowInv'
<1>1. /\ flowRuns \in Seq(FlowRecord) /\ EnqueueTellsTruth /\ purging \subseteq DOMAIN flowRuns
      /\ enqueues \in [Callers -> [at: Answers, job: Jobs, tries: {0, 1}]]
  BY DEF FlowInv
<1>2. ASSUME FlowRunsStay, enqueues' = enqueues, purging' \subseteq DOMAIN flowRuns PROVE FlowInv'
  <2>1. EnqueueTellsTruth'
    BY <1>1, <1>2 DEF EnqueueTellsTruth, FlowRunsStay
  <2>2. purging' \subseteq DOMAIN flowRuns'
    BY <1>2 DEF FlowRunsStay
  <2>. QED  BY <1>1, <1>2, <2>1, <2>2 DEF FlowInv, FlowRunsStay
<1>3. CASE \E r \in DOMAIN flowRuns :
             \/ KeyFreed(r) \/ Step(r) \/ Wake(r) \/ Handled(r) \/ Throws(r) \/ TimesOut(r)
             \/ HandDead(r) \/ Redrive(r) \/ PurgeDead(r)
  <2>1. purging' = purging
    BY <1>3 DEF KeyFreed, Step, Wake, Handled, Throws, TimesOut, HandDead, Redrive, PurgeDead
  <2>. QED  BY <1>1, <1>2, <1>3, <2>1, FlowRunsGoOn
<1>4. CASE \/ \E key \in {KeyOf(j) : j \in Jobs} : Cancel(key)
           \/ Pause \/ Resume \/ (\E j \in Jobs : Purge(j.thread)) \/ PurgeNext
  <2>1. purging' \subseteq DOMAIN flowRuns
    BY <1>1, <1>4 DEF Cancel, Pause, Resume, Purge, PurgeNext, Listed
  <2>. QED  BY <1>1, <1>2, <1>4, <2>1, FlowAdmin
<1>5. ASSUME NEW c \in Callers, Enqueue(c) \/ Start(c) \/ StartThrows(c) PROVE FlowInv'
  <2>. DEFINE posted == enqueues[c].job
              heard == enqueues'[c].at
  <2>1. posted \in Jobs
    BY <1>1
  <2>2. \/ \E a \in Answers : enqueues' = [enqueues EXCEPT ![c].at = a]
        \/ enqueues' = [enqueues EXCEPT ![c].tries = 1]
    BY <1>5 DEF Enqueue, Start, StartThrows, StartAnswer, StillFreed, Answer, Answers
  <2>3. /\ enqueues' \in [Callers -> [at: Answers, job: Jobs, tries: {0, 1}]]
        /\ \A d \in Callers : enqueues'[d].job = enqueues[d].job /\ (d # c => enqueues'[d] = enqueues[d])
    BY <1>1, <2>2
  <2>4. FlowRunsStay /\ purging' = purging
    <3>1. flowRuns' = flowRuns \/ flowRuns' = Append(flowRuns, Fresh(posted))
      BY <1>5 DEF Enqueue, Start, StartThrows, StartAnswer
    <3>2. flowRuns' = flowRuns => FlowRunsStay
      BY <1>1 DEF FlowRunsStay
    <3>3. purging' = purging
      BY <1>5 DEF Enqueue, Start, StartThrows
    <3>. QED  BY <1>1, <2>1, <3>1, <3>2, <3>3, FlowStartsOne
  <2>5. /\ heard = "ok" => \E r \in DOMAIN flowRuns' : flowRuns'[r].job.dispatch = posted.dispatch
        /\ heard = "duplicate" => \E r \in DOMAIN flowRuns' : KeyOf(flowRuns'[r].job) = posted.key
        /\ heard = "full" => IsFresh(posted)
    <3>1. CASE Enqueue(c) \/ StartThrows(c)
      <4>1. heard \in {"start", "threw"} \/ (heard = "full" /\ IsFresh(posted))
        BY <1>1, <3>1 DEF Enqueue, StartThrows, Answer, Refused
      <4>. QED  BY <4>1
    <3>2. CASE Start(c)
      <4>1. CASE flowRuns' = Append(flowRuns, Fresh(posted)) /\ Answer(c, "ok")
        BY <1>1, <2>1, <4>1, FlowStartsOne DEF Answer
      <4>2. CASE /\ \E r \in Holders(KeyOf(posted)) : Going(r)
                 /\ Answer(c, IF HasKey(posted) THEN "duplicate" ELSE "ok")
                 /\ UNCHANGED flowRuns
        <5>1. PICK r \in DOMAIN flowRuns : KeyOf(flowRuns[r].job) = KeyOf(posted)
          BY <4>2 DEF Holders
        <5>2. flowRuns[r].job \in Jobs
          <6>1. flowRuns[r] \in FlowRecord
            BY <1>1
          <6>. QED  BY <6>1 DEF FlowRecord
        <5>3. heard = IF HasKey(posted) THEN "duplicate" ELSE "ok"
          BY <1>1, <4>2 DEF Answer
        <5>4. ~HasKey(posted) => flowRuns[r].job.dispatch = posted.dispatch
          BY <2>1, <5>1, <5>2 DEF KeyOf, KeysNameNoDispatch
        <5>5. HasKey(posted) => KeyOf(flowRuns[r].job) = posted.key
          BY <5>1 DEF KeyOf
        <5>. QED  BY <4>2, <5>1, <5>3, <5>4, <5>5
      <4>3. CASE StillFreed(c)
        <5>1. heard \in {"start", "threw"}
          BY <1>1, <3>2, <4>3 DEF Start, StillFreed, Answer
        <5>. QED  BY <5>1
      <4>. QED  BY <3>2, <4>1, <4>2, <4>3 DEF Start, StartAnswer
    <3>. QED  BY <1>5, <3>1, <3>2
  <2>6. EnqueueTellsTruth'
    <3>. SUFFICES ASSUME NEW d \in Callers
         PROVE LET e == enqueues'[d] IN
               /\ e.at = "ok" => \E r \in DOMAIN flowRuns' : flowRuns'[r].job.dispatch = e.job.dispatch
               /\ e.at = "duplicate" => \E r \in DOMAIN flowRuns' : KeyOf(flowRuns'[r].job) = e.job.key
               /\ e.at = "full" => IsFresh(e.job)
      BY Zenon DEF EnqueueTellsTruth, KeyOf
    <3>1. CASE d = c
      BY <2>3, <2>5, <3>1
    <3>2. CASE d # c
      <4>1. enqueues'[d] = enqueues[d]
        BY <2>3, <3>2
      <4>. QED  BY <1>1, <2>4, <4>1 DEF EnqueueTellsTruth, FlowRunsStay
    <3>. QED  BY <3>1, <3>2
  <2>. QED  BY <1>1, <2>3, <2>4, <2>6 DEF FlowInv, FlowRunsStay
<1>6. CASE UNCHANGED vars
  <2>1. FlowRunsStay
    BY <1>1, <1>6 DEF vars, FlowRunsStay
  <2>. QED  BY <1>1, <1>2, <1>6, <2>1 DEF vars
<1>. QED  BY <1>3, <1>4, <1>5, <1>6 DEF Next

\* A caller of FlowQueue.enqueue hears the truth, whatever ends, lapses, is purged or redriven
\* meanwhile and whatever answer is lost: a job it says it took is in Flow or was found there
\* (adapters/flow.ts, enqueue).
THEOREM FlowTellsTruth == KeysNameNoDispatch => (Spec => []EnqueueTellsTruth)
<1>. SUFFICES ASSUME KeysNameNoDispatch PROVE Spec => []EnqueueTellsTruth
  OBVIOUS
<1>1. FlowInv => EnqueueTellsTruth
  BY DEF FlowInv
<1>. QED  BY FlowStarts, FlowTurns, <1>1, PTL DEF Spec

---------------------------------------------------------------------------
(* Staying *)

\* A set of naturals has a least member.
LEMMA LeastOf ==
  ASSUME NEW S \in SUBSET Nat, S # {}
  PROVE  \E m \in S : \A x \in S : m <= x
<1>1. PICK n \in S : TRUE
  OBVIOUS
<1>. DEFINE Upto(m) == {x \in S : x <= m}
            N == Upto(n)
            T == {Upto(m) : m \in N}
            R == StrictSubsetOrdering(N)
<1>2. T \subseteq FiniteSubsetsOf(N) /\ T # {}
  <2>1. IsFiniteSet(N)
    <3>1. N \in SUBSET Nat /\ n \in Nat
      OBVIOUS
    <3>2. \A x \in N : x <= n
      OBVIOUS
    <3>. HIDE DEF N
    <3>. QED  BY <3>1, <3>2, FS_BoundedSetOfNaturals
  <2>2. ASSUME NEW m \in N PROVE Upto(m) \in SUBSET N /\ IsFiniteSet(Upto(m))
    <3>1. m \in Nat /\ n \in Nat /\ m <= n
      OBVIOUS
    <3>2. \A y \in S : y <= m => y <= n
      BY <3>1
    <3>3. Upto(m) \in SUBSET N
      BY <3>2
    <3>. HIDE DEF N, Upto
    <3>. QED  BY <2>1, <3>3, FS_Subset
  <2>3. n \in N
    BY <1>1
  <2>. QED  BY <2>2, <2>3 DEF FiniteSubsetsOf
<1>3. IsWellFoundedOn(R, FiniteSubsetsOf(N))
  BY FS_StrictSubsetOrderingWellFounded
<1>4. PICK U \in T : \A V \in T : <<V, U>> \notin R
  <2>. HIDE DEF T, R
  <2>. QED  BY <1>2, <1>3, WFMin
<1>5. PICK m \in N : U = Upto(m)
  OBVIOUS
<1>6. ASSUME NEW x \in S, x < m PROVE FALSE
  <2>1. x \in N /\ m \in S
    <3>1. x \in Nat /\ m \in Nat /\ n \in Nat /\ m \in S /\ m <= n
      OBVIOUS
    <3>. QED  BY <1>6, <3>1
  <2>3. \A y \in S : y <= x => y <= m
    <3>1. x \in Nat /\ m \in Nat /\ \A y \in S : y \in Nat
      BY <2>1
    <3>. QED  BY <1>6, <3>1
  <2>4. Upto(x) \subseteq Upto(m) /\ Upto(m) \subseteq N /\ m \in Upto(m) /\ m \notin Upto(x)
    <3>1. Upto(x) \subseteq Upto(m)
      BY <2>3
    <3>2. m \in Nat /\ x \in Nat /\ n \in Nat /\ m <= m /\ ~(m <= x) /\ m <= n
      BY <1>6, <2>1
    <3>3. \A y \in S : y <= m => y <= n
      BY <3>2
    <3>. QED  BY <2>1, <3>1, <3>2, <3>3
  <2>2. <<Upto(x), U>> \in R
    <3>. HIDE DEF N, Upto
    <3>. QED  BY <1>5, <2>4 DEF StrictSubsetOrdering
  <2>. QED  BY <1>4, <2>1, <2>2
<1>. QED  BY <1>5, <1>6

LEMMA Induction ==
  ASSUME NEW T, 0 \in T, \A i \in Nat : i \in T => i + 1 \in T
  PROVE  \A i \in Nat : i \in T
<1>. SUFFICES ASSUME NEW n \in Nat, n \notin T PROVE FALSE
  OBVIOUS
<1>1. PICK m \in Nat \ T : \A x \in Nat \ T : m <= x
  <2>. DEFINE S == Nat \ T
  <2>1. S \in SUBSET Nat /\ S # {}
    OBVIOUS
  <2>. HIDE DEF S
  <2>2. \E m \in S : \A x \in S : m <= x
    BY <2>1, LeastOf
  <2>. QED  BY <2>2 DEF S
<1>2. m - 1 \in Nat /\ m - 1 \in T
  BY <1>1
<1>. QED  BY <1>1, <1>2

\* What stays of the first i jobs.
StayingUpto(js) ==
  CHOOSE f : f = [i \in 0..Len(items) |->
    IF i = 0 THEN <<>> ELSE IF items[i] \in js THEN Append(f[i - 1], items[i]) ELSE f[i - 1]]

LEMMA StayingUptoIs ==
  ASSUME items \in Seq(LocalJobs), NEW js
  PROVE  /\ StayingUpto(js) = [i \in 0..Len(items) |->
              IF i = 0 THEN <<>>
              ELSE IF items[i] \in js THEN Append(StayingUpto(js)[i - 1], items[i])
              ELSE StayingUpto(js)[i - 1]]
         /\ Staying(js) = StayingUpto(js)[Len(items)]
<1>. DEFINE Upto(g, i) == IF i = 0 THEN <<>>
                          ELSE IF items[i] \in js THEN Append(g[i - 1], items[i]) ELSE g[i - 1]
            T == {k \in Nat : \E g : g = [i \in 0..k |-> Upto(g, i)]}
<1>1. 0 \in T
  <2>. DEFINE g == [i \in 0..0 |-> <<>>]
  <2>1. g = [i \in 0..0 |-> Upto(g, i)]
    OBVIOUS
  <2>. QED  BY <2>1
<1>2. ASSUME NEW k \in Nat, k \in T PROVE k + 1 \in T
  <2>1. PICK g : g = [i \in 0..k |-> Upto(g, i)]
    BY <1>2
  <2>. DEFINE f == [i \in 0..(k + 1) |-> Upto(g, i)]
  <2>2. \A i \in 0..k : f[i] = g[i]
    <3>1. \A i \in 0..k : i \in 0..(k + 1)
      OBVIOUS
    <3>. HIDE DEF Upto
    <3>. QED  BY <2>1, <3>1
  <2>3. \A i \in 0..(k + 1) : i # 0 => i - 1 \in 0..k
    OBVIOUS
  <2>4. f = [i \in 0..(k + 1) |-> Upto(f, i)]
    BY <2>2, <2>3
  <2>5. k + 1 \in Nat
    OBVIOUS
  <2>. HIDE DEF f, Upto
  <2>. QED  BY <2>4, <2>5
<1>3. Len(items) \in T
  <2>. HIDE DEF T
  <2>. QED  BY <1>1, <1>2, Induction
<1>4. \E g : g = [i \in 0..Len(items) |-> Upto(g, i)]
  BY <1>3
<1>. QED  BY <1>4, ZenonT(40) DEF StayingUpto, Staying

Distinct(s) == \A i, k \in DOMAIN s : s[i] = s[k] => i = k

LEMMA StayingIs ==
  ASSUME items \in Seq(LocalJobs), NEW js
  PROVE  /\ Staying(js) \in Seq(LocalJobs)
         /\ Range(Staying(js)) = Range(items) \cap js
         /\ Distinct(items) => Distinct(Staying(js))
<1>. DEFINE f == StayingUpto(js)
            Good(s, k) ==
              /\ s \in Seq(LocalJobs)
              /\ Range(s) = {items[i] : i \in 1..k} \cap js
              /\ Distinct(items) => Distinct(s)
            T == {k \in Nat : k <= Len(items) => Good(f[k], k)}
<1>1. 0 \in T
  <2>1. f[0] = <<>>
    BY StayingUptoIs
  <2>2. Good(<<>>, 0)
    BY DEF Range, Distinct
  <2>. QED  BY <2>1, <2>2
<1>2. ASSUME NEW k \in Nat, k \in T PROVE k + 1 \in T
  <2>. SUFFICES ASSUME k + 1 <= Len(items) PROVE Good(f[k + 1], k + 1)
    OBVIOUS
  <2>1. Good(f[k], k) /\ k < Len(items)
    BY <1>2
  <2>2. f[k + 1] = IF items[k + 1] \in js THEN Append(f[k], items[k + 1]) ELSE f[k]
    <3>1. k + 1 \in 0..Len(items) /\ (k + 1) - 1 = k /\ k + 1 # 0
      BY <2>1
    <3>2. f = [i \in 0..Len(items) |->
                 IF i = 0 THEN <<>>
                 ELSE IF items[i] \in js THEN Append(f[i - 1], items[i]) ELSE f[i - 1]]
      BY StayingUptoIs
    <3>. HIDE DEF f
    <3>. QED  BY <3>1, <3>2
  <2>3. ASSUME NEW s, Good(s, k), items[k + 1] \in js PROVE Good(Append(s, items[k + 1]), k + 1)
    <3>. DEFINE u == Append(s, items[k + 1])
    <3>1. /\ s \in Seq(LocalJobs) /\ items[k + 1] \in LocalJobs /\ u \in Seq(LocalJobs)
          /\ DOMAIN s = 1..Len(s) /\ Len(s) \in Nat /\ DOMAIN u = 1..(Len(s) + 1)
          /\ u[Len(s) + 1] = items[k + 1] /\ \A i \in DOMAIN s : u[i] = s[i]
      BY <2>1, <2>3
    <3>2. 1..(k + 1) = 1..k \cup {k + 1} /\ DOMAIN u = DOMAIN s \cup {Len(s) + 1}
      BY <3>1
    <3>3. Range(u) = Range(s) \cup {items[k + 1]}
      <4>. HIDE DEF u
      <4>. QED  BY <3>1, <3>2 DEF Range
    <3>4. Range(u) = {items[i] : i \in 1..(k + 1)} \cap js
      <4>. HIDE DEF u
      <4>. QED  BY <2>3, <3>2, <3>3
    <3>5. ASSUME Distinct(items) PROVE Distinct(u)
      <4>1. items[k + 1] \notin Range(s)
        BY <2>1, <2>3, <3>5 DEF Distinct
      <4>2. Distinct(s)
        BY <2>3, <3>5
      <4>. HIDE DEF u
      <4>. QED  BY <3>1, <3>2, <4>1, <4>2 DEF Distinct, Range
    <3>. QED  BY <3>1, <3>4, <3>5
  <2>4. ASSUME NEW s, Good(s, k), items[k + 1] \notin js PROVE Good(s, k + 1)
    <3>1. 1..(k + 1) = 1..k \cup {k + 1}
      OBVIOUS
    <3>. QED  BY <2>4, <3>1
  <2>. HIDE DEF Good, f
  <2>. QED  BY <2>1, <2>2, <2>3, <2>4
<1>3. Len(items) \in T
  <2>. HIDE DEF T
  <2>. QED  BY <1>1, <1>2, Induction
<1>4. Good(Staying(js), Len(items))
  BY <1>3, StayingUptoIs
<1>5. DOMAIN items = 1..Len(items)
  OBVIOUS
<1>. QED  BY <1>4, <1>5 DEF Range

---------------------------------------------------------------------------
(* LocalQueues *)

\* Delays are not negative, as EnqueueOptions.delaySeconds is (ports/queue.ts).
DelaysAreNat == \A j \in LocalJobs : j.delay \in Nat

Fates == {"new", "waiting", "unbound", "delivered", "withdrawn", "duplicate", "full", "threw"}
Posted(j) == fate[j] \notin {"new", "duplicate", "full"}

LocalTypes ==
  /\ fate \in [LocalJobs -> Fates] /\ due \in [LocalJobs -> Nat] /\ got \in [LocalJobs -> Nat]
  /\ items \in Seq(LocalJobs) /\ unbound \in Seq(LocalJobs)

\* Where a job is, and how often a worker had it, go by what enqueue said of it.
JobStands(j) ==
  /\ fate[j] = "waiting" => j \in Range(items)
  /\ j \in Range(items) =>
       fate[j] = "waiting" \/ (local = "qstash" /\ fate[j] \in {"delivered", "threw"})
  /\ fate[j] = "unbound" => j \in Range(unbound)
  /\ j \in Range(unbound) => fate[j] = "unbound" /\ local = "inline" /\ due[j] = 0
  /\ fate[j] = "delivered" => got[j] > 0
  /\ got[j] > 0 => fate[j] = "delivered" \/ (local = "qstash" /\ fate[j] = "threw")
  /\ local # "qstash" => got[j] <= 1

\* A job that was refused as a duplicate, or will be, has another of its key before it.
KeyTaken(key) == \E i \in LocalJobs : i.key = key /\ Posted(i)
KeysStand ==
  /\ \A j \in LocalJobs : fate[j] = "duplicate" => KeyTaken(j.key)
  /\ \A key \in ids : key # NoKey /\ KeyTaken(key)

\* A timer is of a job that waits, its only one.
TimersStand ==
  /\ \A t \in timers : local = "inline" /\ t[1] \in LocalJobs /\ fate[t[1]] = "waiting"
  /\ \A t, u \in timers : t[1] = u[1] => t = u

LocalInv ==
  /\ LocalTypes /\ Distinct(items) /\ KeysStand /\ TimersStand
  /\ \A j \in LocalJobs : JobStands(j)
  /\ local # "memory" => early = {}

LEMMA LocalStarts == LocalInit => LocalInv
  BY DEF LocalInit, LocalInv, LocalTypes, Distinct, Range, KeysStand, TimersStand, JobStands, Fates

LEMMA KeysKept ==
  ASSUME LocalInv, ids' \subseteq ids,
         \A j \in LocalJobs : Posted(j) => Posted(j)',
         \A j \in LocalJobs : fate'[j] = "duplicate" => fate[j] = "duplicate"
  PROVE  KeysStand'
<1>1. \A key : KeyTaken(key) => KeyTaken(key)'
  BY DEF KeyTaken
<1>. QED  BY <1>1 DEF LocalInv, KeysStand

\* What enqueue says of a job it does not take.
LEMMA LocalAnswers ==
  ASSUME LocalInv, NEW j \in LocalJobs, fate[j] = "new", NEW a \in {"duplicate", "full", "threw"},
         Says(j, a), a = "threw" => local = "qstash", a = "duplicate" => KeyTaken(j.key),
         UNCHANGED <<local, items, timers, due, bound, unbound, got, early, ids>>
  PROVE  LocalInv'
<1>1. fate' = [fate EXCEPT ![j] = a] /\ fate \in [LocalJobs -> Fates] /\ a \in Fates
  BY DEF Says, LocalInv, LocalTypes, Fates
<1>2. LocalTypes'
  BY <1>1 DEF LocalInv, LocalTypes
<1>3. \A i \in LocalJobs : JobStands(i)'
  BY <1>1 DEF LocalInv, LocalTypes, JobStands
<1>4. TimersStand'
  BY <1>1 DEF LocalInv, TimersStand
<1>5. KeysStand'
  <2>1. \A key : KeyTaken(key) => KeyTaken(key)'
    <3>1. \A i \in LocalJobs : Posted(i) => Posted(i)'
      BY <1>1 DEF Posted
    <3>. QED  BY <3>1 DEF KeyTaken
  <2>. QED  BY <1>1, <2>1 DEF LocalInv, KeysStand
<1>. QED  BY <1>2, <1>3, <1>4, <1>5 DEF LocalInv

\* What it says of one it takes.
LEMMA LocalTakes ==
  ASSUME DelaysAreNat, LocalInv, NEW j \in LocalJobs, fate[j] = "new", NEW a \in {"waiting", "threw"},
         Says(j, a), a = "threw" => local = "qstash", Waits(j),
         timers' = timers \/ (local = "inline" /\ timers' = timers \cup {Armed(j, j.delay)}),
         ids' \subseteq ids \cup ({j.key} \ {NoKey}),
         UNCHANGED <<local, bound, unbound, got, early>>
  PROVE  LocalInv'
<1>1. /\ fate' = [fate EXCEPT ![j] = a] /\ fate \in [LocalJobs -> Fates] /\ a \in Fates
      /\ items' = Append(items, j) /\ due' = [due EXCEPT ![j] = j.delay]
  BY DEF Says, Waits, LocalInv, LocalTypes, Fates
<1>2. LocalTypes'
  BY <1>1 DEF LocalInv, LocalTypes, DelaysAreNat
<1>3. /\ items \in Seq(LocalJobs) /\ j \notin Range(items) /\ j \notin Range(unbound)
      /\ got[j] \in Nat /\ got[j] = 0
  <2>1. items \in Seq(LocalJobs) /\ got[j] \in Nat
    BY DEF LocalInv, LocalTypes
  <2>2. JobStands(j)
    BY DEF LocalInv
  <2>. HIDE DEF LocalInv
  <2>. QED  BY <2>1, <2>2 DEF JobStands
<1>4. /\ DOMAIN items = 1..Len(items) /\ Len(items) \in Nat
      /\ DOMAIN items' = DOMAIN items \cup {Len(items) + 1} /\ items'[Len(items) + 1] = j
      /\ \A i \in DOMAIN items : items'[i] = items[i]
  BY <1>1, <1>3
<1>5. Range(items') = Range(items) \cup {j} /\ (Distinct(items) => Distinct(items'))
  BY <1>3, <1>4 DEF Range, Distinct
<1>6. \A i \in LocalJobs : JobStands(i)'
  <2>. SUFFICES ASSUME NEW i \in LocalJobs PROVE JobStands(i)'
    OBVIOUS
  <2>1. CASE i = j
    <3>1. fate'[i] = a /\ got'[i] = 0 /\ i \in Range(items') /\ i \notin Range(unbound')
      BY <1>1, <1>3, <1>5, <2>1
    <3>. QED  BY <3>1 DEF JobStands
  <2>2. CASE i # j
    <3>1. /\ fate'[i] = fate[i] /\ got'[i] = got[i] /\ due'[i] = due[i]
          /\ (i \in Range(items') <=> i \in Range(items)) /\ unbound' = unbound
      BY <1>1, <1>5, <2>2 DEF LocalInv, LocalTypes
    <3>. QED  BY <3>1 DEF LocalInv, JobStands
  <2>. QED  BY <2>1, <2>2
<1>7. TimersStand'
  BY <1>1 DEF LocalInv, TimersStand, Armed
<1>8. KeysStand'
  <2>1. \A i \in LocalJobs : Posted(i) => Posted(i)'
    BY <1>1 DEF Posted
  <2>2. \A key : KeyTaken(key) => KeyTaken(key)'
    BY <2>1 DEF KeyTaken
  <2>3. KeyTaken(j.key)'
    BY <1>1 DEF KeyTaken, Posted
  <2>. QED  BY <1>1, <2>2, <2>3 DEF LocalInv, KeysStand
<1>. QED  BY <1>2, <1>5, <1>6, <1>7, <1>8 DEF LocalInv

LEMMA InlineTakes ==
  ASSUME DelaysAreNat, LocalInv, NEW j \in LocalJobs,
         InlineEnqueue(j) \/ MemoryEnqueue(j) \/ QStashEnqueue(j)
  PROVE  LocalInv'
<1>1. fate[j] = "new"
  BY DEF InlineEnqueue, MemoryEnqueue, QStashEnqueue
<1>2. local # "qstash" /\ Keyed(j.key) # {} => KeyTaken(j.key)
  <2>. SUFFICES ASSUME local # "qstash", NEW i \in Range(items), i.key = j.key PROVE KeyTaken(j.key)
    BY DEF Keyed
  <2>1. i \in LocalJobs
    BY DEF LocalInv, LocalTypes, Range
  <2>2. fate[i] = "waiting"
    BY <2>1 DEF LocalInv, JobStands
  <2>. QED  BY <2>1, <2>2 DEF KeyTaken, Posted
<1>3. j.key \in ids => KeyTaken(j.key)
  BY DEF LocalInv, KeysStand
<1>4. CASE InlineEnqueue(j)
  <2>1. CASE Keyed(j.key) # {}
    BY <1>1, <1>2, <1>4, <2>1, LocalAnswers DEF InlineEnqueue
  <2>2. CASE Keyed(j.key) = {}
    BY <1>1, <1>4, <2>2, LocalTakes DEF InlineEnqueue
  <2>. QED  BY <2>1, <2>2
<1>5. CASE MemoryEnqueue(j)
  <2>1. CASE Keyed(j.key) # {} /\ Says(j, "duplicate") /\ UNCHANGED <<items, due>>
    BY <1>1, <1>2, <1>5, <2>1, LocalAnswers DEF MemoryEnqueue
  <2>2. CASE Says(j, "full") /\ UNCHANGED <<items, due>>
    BY <1>1, <1>5, <2>2, LocalAnswers DEF MemoryEnqueue
  <2>3. CASE Says(j, "waiting") /\ Waits(j)
    BY <1>1, <1>5, <2>3, LocalTakes DEF MemoryEnqueue
  <2>. QED  BY <1>5, <2>1, <2>2, <2>3 DEF MemoryEnqueue
<1>6. CASE QStashEnqueue(j)
  <2>1. CASE j.key \in ids /\ Says(j, "duplicate") /\ UNCHANGED <<items, due, ids>>
    BY <1>1, <1>3, <1>6, <2>1, LocalAnswers DEF QStashEnqueue
  <2>2. CASE Says(j, "threw") /\ UNCHANGED <<items, due, ids>>
    BY <1>1, <1>6, <2>2, LocalAnswers DEF QStashEnqueue
  <2>3. ASSUME NEW a \in {"waiting", "threw"}, Says(j, a), Waits(j), ids' = ids \cup ({j.key} \ {NoKey})
        PROVE  LocalInv'
    BY <1>1, <1>6, <2>3, LocalTakes DEF QStashEnqueue
  <2>. QED  BY <1>6, <2>1, <2>2, <2>3 DEF QStashEnqueue, Says
<1>. QED  BY <1>4, <1>5, <1>6
\* What a job keeps when nothing happens to it.
JobKeeps(j) ==
  /\ fate'[j] = fate[j] /\ got'[j] = got[j] /\ due'[j] = due[j]
  /\ j \in Range(items') <=> j \in Range(items)
  /\ j \in Range(unbound') <=> j \in Range(unbound)

LEMMA JobStill ==
  ASSUME NEW j \in LocalJobs, JobStands(j), JobKeeps(j), local' = local
  PROVE  JobStands(j)'
  BY DEF JobStands, JobKeeps

LEMMA LocalFires ==
  ASSUME LocalInv, NEW j \in LocalJobs, Fires(j)
  PROVE  LocalInv'
<1>1. /\ LocalTypes /\ Distinct(items) /\ KeysStand /\ TimersStand /\ JobStands(j)
      /\ \A i \in LocalJobs : JobStands(i)
      /\ <<j, 0>> \in timers /\ local = "inline" /\ fate[j] = "waiting" /\ early = {}
  <2>1. <<j, 0>>[1] = j
    OBVIOUS
  <2>. QED  BY <2>1 DEF LocalInv, TimersStand, Fires
<1>2. CASE NotDue(j)
  <2>1. /\ timers' = (timers \ {<<j, 0>>}) \cup {Armed(j, due[j])}
        /\ UNCHANGED <<local, fate, items, due, bound, unbound, got, early, ids>>
    BY <1>2 DEF Fires
  <2>2. TimersStand'
    BY <1>1, <2>1 DEF TimersStand, Armed
  <2>3. LocalTypes' /\ Distinct(items)' /\ KeysStand' /\ \A i \in LocalJobs : JobStands(i)'
    BY <1>1, <2>1 DEF LocalTypes, KeysStand, KeyTaken, Posted, JobStands
  <2>. QED  BY <1>1, <2>1, <2>2, <2>3 DEF LocalInv
<1>3. CASE ~NotDue(j)
  <2>1. /\ timers' = timers \ {<<j, 0>>} /\ items' = Staying(LocalJobs \ {j})
        /\ Says(j, IF bound THEN "delivered" ELSE "unbound")
        /\ IF bound THEN Handed({j}) /\ UNCHANGED unbound
           ELSE unbound' = Append(unbound, j) /\ UNCHANGED <<got, early>>
        /\ UNCHANGED <<local, due, bound, ids>>
    BY <1>1, <1>3 DEF Fires, Delivered, Leaves
  <2>2. /\ fate' = [fate EXCEPT ![j] = IF bound THEN "delivered" ELSE "unbound"]
        /\ fate \in [LocalJobs -> Fates] /\ got \in [LocalJobs -> Nat] /\ due \in [LocalJobs -> Nat]
        /\ items \in Seq(LocalJobs) /\ unbound \in Seq(LocalJobs) /\ due[j] = 0
    BY <1>1, <1>3, <2>1 DEF Says, LocalTypes, NotDue
  <2>3. /\ items' \in Seq(LocalJobs) /\ Range(items') = Range(items) \ {j} /\ Distinct(items')
    <3>1. Range(items) \subseteq LocalJobs
      BY <2>2 DEF Range
    <3>. QED  BY <1>1, <2>1, <2>2, <3>1, StayingIs
  <2>4. unbound' \in Seq(LocalJobs) /\ Range(unbound') = IF bound THEN Range(unbound) ELSE Range(unbound) \cup {j}
    <3>1. CASE bound
      BY <2>1, <2>2, <3>1
    <3>2. CASE ~bound
      <4>1. /\ unbound' \in Seq(LocalJobs) /\ DOMAIN unbound' = DOMAIN unbound \cup {Len(unbound) + 1}
            /\ unbound'[Len(unbound) + 1] = j /\ \A i \in DOMAIN unbound : unbound'[i] = unbound[i]
        <5>1. unbound' = Append(unbound, j) /\ unbound \in Seq(LocalJobs)
          BY <2>1, <2>2, <3>2
        <5>. QED  BY <5>1
      <4>. QED  BY <3>2, <4>1 DEF Range
    <3>. QED  BY <3>1, <3>2
  <2>5. /\ got' = IF bound THEN [i \in LocalJobs |-> IF i = j THEN got[i] + 1 ELSE got[i]] ELSE got
        /\ early' = {}
    BY <1>1, <1>3, <2>1 DEF Handed, NotDue
  <2>6. LocalTypes'
    BY <2>1, <2>2, <2>3, <2>4, <2>5 DEF LocalTypes, Fates
  <2>7. \A i \in LocalJobs : JobStands(i)'
    <3>. SUFFICES ASSUME NEW i \in LocalJobs PROVE JobStands(i)'
      OBVIOUS
    <3>1. CASE i = j
      <4>1. got[j] = 0 /\ j \notin Range(unbound)
        BY <1>1, <2>2 DEF JobStands
      <4>2. got'[j] = IF bound THEN 1 ELSE 0
        BY <2>2, <2>5, <4>1
      <4>3. fate'[j] = IF bound THEN "delivered" ELSE "unbound"
        BY <2>2
      <4>4. /\ i \notin Range(items') /\ (i \in Range(unbound') <=> ~bound)
            /\ local' = "inline" /\ due'[i] = 0
        BY <1>1, <2>1, <2>2, <2>3, <2>4, <3>1, <4>1
      <4>. QED  BY <3>1, <4>2, <4>3, <4>4 DEF JobStands
    <3>2. CASE i # j
      <4>1. JobKeeps(i)
        BY <2>1, <2>2, <2>3, <2>4, <2>5, <3>2 DEF JobKeeps
      <4>. QED  BY <1>1, <2>1, <4>1, JobStill
    <3>. QED  BY <3>1, <3>2
  <2>8. TimersStand'
    <3>. SUFFICES ASSUME NEW t \in timers' PROVE fate'[t[1]] = "waiting"
      BY <1>1, <2>1 DEF TimersStand
    <3>1. t \in timers /\ t # <<j, 0>> /\ t[1] \in LocalJobs /\ <<j, 0>>[1] = j
      BY <1>1, <2>1 DEF TimersStand
    <3>2. t[1] # j
      BY <1>1, <3>1 DEF TimersStand
    <3>. QED  BY <1>1, <2>2, <3>1, <3>2 DEF TimersStand
  <2>9. KeysStand'
    <3>1. \A i \in LocalJobs : Posted(i) => Posted(i)'
      BY <2>2 DEF Posted
    <3>2. \A i \in LocalJobs : fate'[i] = "duplicate" => fate[i] = "duplicate"
      BY <2>2
    <3>. QED  BY <2>1, <3>1, <3>2, KeysKept
  <2>. QED  BY <2>3, <2>5, <2>6, <2>7, <2>8, <2>9 DEF LocalInv
<1>. QED  BY <1>2, <1>3

LEMMA LocalBinds ==
  ASSUME LocalInv, Binds
  PROVE  LocalInv'
<1>1. /\ LocalTypes /\ Distinct(items) /\ KeysStand /\ TimersStand /\ early = {} /\ local = "inline"
      /\ \A i \in LocalJobs : JobStands(i)
  BY DEF LocalInv, Binds
<1>2. Range(unbound) \subseteq LocalJobs
  BY <1>1 DEF LocalTypes, Range
<1>3. /\ fate' = [i \in LocalJobs |-> IF i \in Range(unbound) THEN "delivered" ELSE fate[i]]
      /\ got' = [i \in LocalJobs |-> IF i \in Range(unbound) THEN got[i] + 1 ELSE got[i]]
      /\ unbound' = <<>> /\ UNCHANGED <<local, items, timers, due, ids>>
      /\ early' = early \cup {i \in Range(unbound) : due[i] > 0}
  BY DEF Binds, Becomes, Handed
<1>4. \A i \in Range(unbound) : fate[i] = "unbound" /\ due[i] = 0 /\ got[i] = 0 /\ i \notin Range(items)
  <2>. SUFFICES ASSUME NEW i \in Range(unbound)
       PROVE  fate[i] = "unbound" /\ due[i] = 0 /\ got[i] = 0 /\ i \notin Range(items)
    OBVIOUS
  <2>1. i \in LocalJobs /\ JobStands(i) /\ got[i] \in Nat
    BY <1>1, <1>2 DEF LocalTypes
  <2>. QED  BY <1>1, <2>1 DEF JobStands
<1>5. early' = {}
  <2>1. \A i \in Range(unbound) : ~(due[i] > 0)
    BY <1>4
  <2>. QED  BY <1>1, <1>3, <2>1
<1>6. LocalTypes'
  BY <1>1, <1>3 DEF LocalTypes, Fates
<1>7. \A i \in LocalJobs : JobStands(i)'
  <2>. SUFFICES ASSUME NEW i \in LocalJobs PROVE JobStands(i)'
    OBVIOUS
  <2>0. Range(unbound') = {}
    BY <1>3 DEF Range
  <2>1. CASE i \in Range(unbound)
    <3>1. fate'[i] = "delivered" /\ got'[i] = 1
      BY <1>3, <1>4, <2>1
    <3>. QED  BY <1>1, <1>3, <1>4, <2>0, <2>1, <3>1 DEF JobStands
  <2>2. CASE i \notin Range(unbound)
    <3>1. fate'[i] = fate[i] /\ got'[i] = got[i] /\ due'[i] = due[i]
      BY <1>3, <2>2
    <3>2. JobKeeps(i)
      BY <1>3, <2>0, <2>2, <3>1 DEF JobKeeps
    <3>. QED  BY <1>1, <1>3, <3>2, JobStill
  <2>. QED  BY <2>1, <2>2
<1>8. TimersStand'
  BY <1>1, <1>3, <1>4 DEF TimersStand
<1>9. KeysStand'
  <2>1. \A i \in LocalJobs : Posted(i) => Posted(i)'
    BY <1>3 DEF Posted
  <2>2. \A i \in LocalJobs : fate'[i] = "duplicate" => fate[i] = "duplicate"
    BY <1>3
  <2>. QED  BY <1>3, <2>1, <2>2, KeysKept
<1>. QED  BY <1>1, <1>3, <1>5, <1>6, <1>7, <1>8, <1>9 DEF LocalInv
\* Jobs that wait, or wait for a worker, are withdrawn.
LEMMA LocalWithdraws ==
  ASSUME LocalInv, NEW js \in SUBSET LocalJobs, local # "qstash",
         \A j \in js : j \in Range(items) \/ j \in Range(unbound),
         Becomes(js, "withdrawn"), timers' = TimersOf(js),
         items' \in Seq(LocalJobs), unbound' \in Seq(LocalJobs), Distinct(items'),
         Range(items') = Range(items) \ js, Range(unbound') = Range(unbound) \ js,
         UNCHANGED <<local, due, bound, got, early, ids>>
  PROVE  LocalInv'
<1>1. /\ LocalTypes /\ KeysStand /\ TimersStand /\ \A i \in LocalJobs : JobStands(i)
      /\ fate' = [i \in LocalJobs |-> IF i \in js THEN "withdrawn" ELSE fate[i]]
      /\ got \in [LocalJobs -> Nat] /\ fate \in [LocalJobs -> Fates]
  BY DEF LocalInv, LocalTypes, Becomes
<1>2. LocalTypes'
  BY <1>1 DEF LocalTypes, Fates
<1>3. \A i \in LocalJobs : JobStands(i)'
  <2>. SUFFICES ASSUME NEW i \in LocalJobs PROVE JobStands(i)'
    OBVIOUS
  <2>0. JobStands(i)
    BY <1>1
  <2>1. CASE i \in js
    <3>1. got[i] = 0
      BY <1>1, <2>0, <2>1 DEF JobStands
    <3>2. /\ fate'[i] = "withdrawn" /\ got'[i] = 0
          /\ i \notin Range(items') /\ i \notin Range(unbound')
      BY <1>1, <2>1, <3>1
    <3>. QED  BY <3>2 DEF JobStands
  <2>2. CASE i \notin js
    <3>1. JobKeeps(i)
      BY <1>1, <2>2 DEF JobKeeps
    <3>. QED  BY <2>0, <3>1, JobStill
  <2>. QED  BY <2>1, <2>2
<1>4. TimersStand'
  BY <1>1 DEF TimersStand, TimersOf
<1>5. KeysStand'
  <2>1. \A i \in LocalJobs : Posted(i) => Posted(i)'
    BY <1>1 DEF Posted
  <2>2. \A i \in LocalJobs : fate'[i] = "duplicate" => fate[i] = "duplicate"
    BY <1>1
  <2>. QED  BY <2>1, <2>2, KeysKept
<1>. QED  BY <1>2, <1>3, <1>4, <1>5 DEF LocalInv

LEMMA LocalCancels ==
  ASSUME LocalInv, NEW key, InlineCancel(key) \/ MemoryCancel(key)
  PROVE  LocalInv'
<1>1. /\ LocalTypes /\ Distinct(items) /\ TimersStand /\ \A i \in LocalJobs : JobStands(i)
      /\ items \in Seq(LocalJobs) /\ unbound \in Seq(LocalJobs)
  BY DEF LocalInv, LocalTypes
<1>2. /\ local # "qstash" /\ items' = Staying(LocalJobs \ Keyed(key)) /\ Becomes(Keyed(key), "withdrawn")
      /\ UNCHANGED <<local, due, bound, unbound, got, early, ids>>
      /\ timers' = TimersOf(Keyed(key)) \/ (local = "memory" /\ timers' = timers)
  BY DEF InlineCancel, MemoryCancel, Leaves
<1>3. Keyed(key) \subseteq Range(items) /\ Range(items) \subseteq LocalJobs
  BY <1>1 DEF Keyed, Range
<1>4. timers' = TimersOf(Keyed(key))
  <2>1. local = "memory" => timers = {}
    BY <1>1 DEF TimersStand
  <2>. QED  BY <1>2, <2>1 DEF TimersOf
<1>5. items' \in Seq(LocalJobs) /\ Range(items') = Range(items) \ Keyed(key) /\ Distinct(items')
  BY <1>1, <1>2, <1>3, StayingIs
<1>6. \A j \in Range(items) : j \notin Range(unbound)
  BY <1>1, <1>2, <1>3 DEF JobStands
<1>7. Range(unbound') = Range(unbound) \ Keyed(key)
  BY <1>2, <1>3, <1>6
<1>. QED  BY <1>1, <1>2, <1>3, <1>4, <1>5, <1>7, LocalWithdraws

LEMMA LocalClears == ASSUME LocalInv, Clears PROVE LocalInv'
<1>. DEFINE js == Range(items) \cup Range(unbound)
<1>1. /\ LocalTypes /\ TimersStand /\ \A i \in LocalJobs : JobStands(i)
      /\ items \in Seq(LocalJobs) /\ unbound \in Seq(LocalJobs)
  BY DEF LocalInv, LocalTypes
<1>2. /\ local # "qstash" /\ items' = <<>> /\ unbound' = <<>> /\ Becomes(js, "withdrawn")
      /\ timers' = TimersOf(Range(items)) /\ UNCHANGED <<local, due, bound, got, early, ids>>
  BY DEF Clears
<1>3. js \subseteq LocalJobs
  BY <1>1 DEF Range
<1>4. \A j \in Range(unbound) : fate[j] # "waiting"
  BY <1>1, <1>3 DEF JobStands
<1>5. timers' = TimersOf(js)
  BY <1>1, <1>2, <1>4 DEF TimersOf, TimersStand
<1>6. /\ items' \in Seq(LocalJobs) /\ unbound' \in Seq(LocalJobs) /\ Distinct(items')
      /\ Range(items') = {} /\ Range(unbound') = {}
  BY <1>2 DEF Distinct, Range
<1>. QED  BY <1>2, <1>3, <1>5, <1>6, LocalWithdraws

LEMMA LocalDrains == ASSUME LocalInv, Drains PROVE LocalInv'
<1>. DEFINE j == Head(items)
<1>1. /\ LocalTypes /\ Distinct(items) /\ KeysStand /\ TimersStand /\ \A i \in LocalJobs : JobStands(i)
      /\ items \in Seq(LocalJobs) /\ items # <<>>
      /\ got \in [LocalJobs -> Nat] /\ fate \in [LocalJobs -> Fates]
  BY DEF LocalInv, LocalTypes, Drains
<1>2. /\ local = "memory" /\ items' = Tail(items) /\ fate' = [fate EXCEPT ![j] = "delivered"]
      /\ got' = [i \in LocalJobs |-> IF i = j THEN got[i] + 1 ELSE got[i]]
      /\ UNCHANGED <<local, timers, due, unbound, ids>>
  BY DEF Drains, Says, Handed
<1>3. /\ j \in LocalJobs /\ j = items[1] /\ DOMAIN items = 1..Len(items) /\ Len(items) \in Nat \ {0}
      /\ items' \in Seq(LocalJobs) /\ DOMAIN items' = 1..(Len(items) - 1)
      /\ \A i \in DOMAIN items' : items'[i] = items[i + 1]
  BY <1>1, <1>2
<1>4. Range(items') = Range(items) \ {j} /\ Distinct(items')
  <2>1. Distinct(items')
    <3>1. \A i \in DOMAIN items' : i \in Nat /\ i + 1 \in DOMAIN items
      BY <1>3
    <3>2. \A i, k \in DOMAIN items' : i + 1 = k + 1 => i = k
      BY <3>1
    <3>. HIDE DEF j
    <3>. QED  BY <1>1, <1>3, <3>1, <3>2 DEF Distinct
  <2>2. \A i \in DOMAIN items : i # 1 => i - 1 \in DOMAIN items' /\ items'[i - 1] = items[i]
    BY <1>3
  <2>3. \A i \in DOMAIN items' : i + 1 \in DOMAIN items /\ items[i + 1] # j
    <3>1. \A i \in DOMAIN items' : i + 1 \in DOMAIN items /\ i + 1 # 1
      BY <1>3
    <3>2. 1 \in DOMAIN items
      BY <1>3
    <3>. QED  BY <1>1, <1>3, <3>1, <3>2 DEF Distinct
  <2>4. Range(items') \subseteq Range(items) \ {j}
    BY <1>3, <2>3 DEF Range
  <2>5. Range(items) \ {j} \subseteq Range(items')
    BY <1>3, <2>2 DEF Range
  <2>. QED  BY <2>1, <2>4, <2>5
<1>5. fate[j] = "waiting" /\ got[j] = 0 /\ j \notin Range(unbound)
  <2>1. j \in Range(items) /\ JobStands(j) /\ got[j] \in Nat
    <3>1. 1 \in DOMAIN items /\ j = items[1] /\ j \in LocalJobs
      BY <1>3
    <3>. HIDE DEF j
    <3>. QED  BY <1>1, <3>1 DEF Range
  <2>. HIDE DEF j
  <2>. QED  BY <1>2, <2>1 DEF JobStands
<1>. HIDE DEF j
<1>6. LocalTypes'
  BY <1>1, <1>2, <1>3 DEF LocalTypes, Fates
<1>7. \A i \in LocalJobs : JobStands(i)'
  <2>. SUFFICES ASSUME NEW i \in LocalJobs PROVE JobStands(i)'
    OBVIOUS
  <2>1. CASE i = j
    <3>1. /\ fate'[i] = "delivered" /\ got'[i] = 1
          /\ i \notin Range(items') /\ i \notin Range(unbound')
      BY <1>1, <1>2, <1>3, <1>4, <1>5, <2>1
    <3>. QED  BY <3>1 DEF JobStands
  <2>2. CASE i # j
    <3>1. JobKeeps(i)
      BY <1>1, <1>2, <1>4, <2>2 DEF JobKeeps
    <3>. QED  BY <1>1, <1>2, <3>1, JobStill
  <2>. QED  BY <2>1, <2>2
<1>8. TimersStand'
  BY <1>1, <1>2 DEF TimersStand
<1>9. KeysStand'
  <2>1. \A i \in LocalJobs : Posted(i) => Posted(i)'
    BY <1>1, <1>2 DEF Posted
  <2>2. \A i \in LocalJobs : fate'[i] = "duplicate" => fate[i] = "duplicate"
    BY <1>1, <1>2
  <2>. QED  BY <1>2, <2>1, <2>2, KeysKept
<1>. QED  BY <1>2, <1>4, <1>6, <1>7, <1>8, <1>9 DEF LocalInv

LEMMA LocalDelivers == ASSUME LocalInv, NEW j \in LocalJobs, QStashDelivers(j) PROVE LocalInv'
<1>1. /\ LocalTypes /\ Distinct(items) /\ KeysStand /\ TimersStand /\ \A i \in LocalJobs : JobStands(i)
      /\ items \in Seq(LocalJobs) /\ early = {} /\ local = "qstash"
      /\ got \in [LocalJobs -> Nat] /\ fate \in [LocalJobs -> Fates]
  BY DEF LocalInv, LocalTypes, QStashDelivers
<1>2. /\ got' = [i \in LocalJobs |-> IF i = j THEN got[i] + 1 ELSE got[i]]
      /\ early' = early \cup {i \in {j} : due[i] > 0} /\ due[j] = 0 /\ j \in Range(items)
      /\ items' = Staying(LocalJobs \ {j}) \/ items' = items
      /\ UNCHANGED <<local, timers, due, bound, unbound, ids>>
  BY DEF QStashDelivers, Handed, Leaves
<1>3. /\ fate[j] \in {"waiting", "delivered", "threw"}
      /\ fate' = [fate EXCEPT ![j] = IF fate[j] = "threw" THEN "threw" ELSE "delivered"]
  <2>1. fate[j] \in {"waiting", "delivered", "threw"}
    BY <1>1, <1>2 DEF JobStands
  <2>. QED  BY <1>1, <2>1 DEF QStashDelivers, Says
<1>4. early' = {}
  BY <1>1, <1>2
<1>5. /\ items' \in Seq(LocalJobs) /\ Distinct(items')
      /\ Range(items') = Range(items) \ {j} \/ Range(items') = Range(items)
  <2>1. Range(items) \subseteq LocalJobs
    BY <1>1 DEF Range
  <2>2. Range(items) \cap (LocalJobs \ {j}) = Range(items) \ {j}
    BY <2>1
  <2>. QED  BY <1>1, <1>2, <2>2, StayingIs
<1>6. LocalTypes'
  BY <1>1, <1>2, <1>3, <1>5 DEF LocalTypes, Fates
<1>7. \A i \in LocalJobs : JobStands(i)'
  <2>. SUFFICES ASSUME NEW i \in LocalJobs PROVE JobStands(i)'
    OBVIOUS
  <2>1. CASE i = j
    <3>1. fate'[i] \in {"delivered", "threw"} /\ got'[i] > 0 /\ local' = "qstash"
      BY <1>1, <1>2, <1>3, <2>1
    <3>2. i \notin Range(unbound')
      BY <1>1, <1>2 DEF JobStands
    <3>. QED  BY <3>1, <3>2 DEF JobStands
  <2>2. CASE i # j
    <3>1. JobKeeps(i)
      BY <1>1, <1>2, <1>3, <1>5, <2>2 DEF JobKeeps
    <3>. QED  BY <1>1, <1>2, <3>1, JobStill
  <2>. QED  BY <2>1, <2>2
<1>8. TimersStand'
  BY <1>1, <1>2 DEF TimersStand
<1>9. KeysStand'
  <2>1. \A i \in LocalJobs : Posted(i) => Posted(i)'
    BY <1>1, <1>3 DEF Posted
  <2>2. \A i \in LocalJobs : fate'[i] = "duplicate" => fate[i] = "duplicate"
    BY <1>1, <1>3
  <2>. QED  BY <1>2, <2>1, <2>2, KeysKept
<1>. QED  BY <1>4, <1>5, <1>6, <1>7, <1>8, <1>9 DEF LocalInv

LEMMA LocalWaits ==
  ASSUME LocalInv, HandlerReturns \/ TimePasses \/ (\E key : QStashForgets(key)) \/ UNCHANGED localVars
  PROVE  LocalInv'
<1>1. /\ LocalTypes /\ Distinct(items) /\ KeysStand /\ TimersStand /\ \A i \in LocalJobs : JobStands(i)
      /\ due \in [LocalJobs -> Nat]
  BY DEF LocalInv, LocalTypes
<1>2. /\ UNCHANGED <<local, fate, items, unbound, got, early>> /\ ids' \subseteq ids
      /\ due' = due \/ due' = [j \in LocalJobs |-> Less(due[j])]
      /\ timers' = timers \/ timers' = {<<t[1], Less(t[2])>> : t \in timers}
  BY DEF HandlerReturns, TimePasses, QStashForgets, localVars
<1>3. due' \in [LocalJobs -> Nat] /\ \A j \in LocalJobs : due[j] = 0 => due'[j] = 0
  BY <1>1, <1>2 DEF Less
<1>4. LocalTypes'
  BY <1>1, <1>2, <1>3 DEF LocalTypes
<1>5. \A i \in LocalJobs : JobStands(i)'
  BY <1>1, <1>2, <1>3 DEF JobStands
<1>6. TimersStand'
  <2>1. \A t \in timers' : \E u \in timers : t[1] = u[1] /\ (t = u \/ t = <<u[1], Less(u[2])>>)
    BY <1>2
  <2>2. CASE timers' = timers
    BY <1>1, <1>2, <2>2 DEF TimersStand
  <2>3. CASE timers' = {<<t[1], Less(t[2])>> : t \in timers}
    <3>1. ASSUME NEW t \in timers', NEW u \in timers', t[1] = u[1] PROVE t = u
      <4>1. PICK v \in timers, w \in timers : t = <<v[1], Less(v[2])>> /\ u = <<w[1], Less(w[2])>>
        BY <2>3
      <4>2. v[1] = w[1]
        BY <3>1, <4>1
      <4>3. v = w
        BY <1>1, <4>2 DEF TimersStand
      <4>. QED  BY <4>1, <4>3
    <3>2. \A t \in timers' : local' = "inline" /\ t[1] \in LocalJobs /\ fate'[t[1]] = "waiting"
      BY <1>1, <1>2, <2>3 DEF TimersStand
    <3>. QED  BY <3>1, <3>2 DEF TimersStand
  <2>. QED  BY <1>2, <2>2, <2>3
<1>7. KeysStand'
  BY <1>2, KeysKept DEF Posted
<1>. QED  BY <1>1, <1>2, <1>4, <1>5, <1>6, <1>7 DEF LocalInv

LEMMA LocalTurns == DelaysAreNat /\ LocalInv /\ [LocalNext]_localVars => LocalInv'
<1>. SUFFICES ASSUME DelaysAreNat, LocalInv, [LocalNext]_localVars PROVE LocalInv'
  OBVIOUS
<1>. QED  BY InlineTakes, LocalFires, LocalBinds, LocalCancels, LocalClears, LocalDrains,
             LocalDelivers, LocalWaits, Zenon DEF LocalNext

\* Whatever is cancelled, cleared, bound late or delivered twice, a queue keeps a job it took
\* until it is withdrawn or handed on, hands it on once if it is in this process, not before its
\* time, and never after it was withdrawn (adapters/inline.ts, adapters/memory.ts,
\* adapters/qstash.ts).
THEOREM LocalQueuesKeep ==
  DelaysAreNat => (LocalInit /\ [][LocalNext]_localVars => []JobsAreKept)
<1>. SUFFICES ASSUME DelaysAreNat PROVE LocalInit /\ [][LocalNext]_localVars => []JobsAreKept
  OBVIOUS
<1>1. LocalInv => JobsAreKept
  <2>. SUFFICES ASSUME LocalInv, NEW j \in LocalJobs
       PROVE  /\ fate[j] = "waiting" => j \in Range(items)
              /\ fate[j] = "unbound" => j \in Range(unbound)
              /\ fate[j] = "delivered" => got[j] > 0
              /\ local # "qstash" => got[j] <= 1
              /\ fate[j] \in {"withdrawn", "duplicate", "full"} => got[j] = 0
              /\ local # "memory" => j \notin early
              /\ fate[j] = "duplicate" =>
                   \E i \in LocalJobs \ {j} : i.key = j.key /\ fate[i] \notin {"new", "duplicate", "full"}
    BY Zenon DEF JobsAreKept
  <2>1. JobStands(j) /\ KeysStand /\ got[j] \in Nat /\ (local # "memory" => early = {})
    BY DEF LocalInv, LocalTypes
  <2>2. fate[j] = "duplicate" =>
          \E i \in LocalJobs \ {j} : i.key = j.key /\ fate[i] \notin {"new", "duplicate", "full"}
    BY <2>1 DEF KeysStand, KeyTaken, Posted
  <2>. QED  BY <2>1, <2>2 DEF JobStands
<1>. QED  BY LocalStarts, LocalTurns, <1>1, PTL
=============================================================================
