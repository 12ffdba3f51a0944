------------------------------- MODULE KvPort -------------------------------
\* What ports/kv.ts promises of one key, whatever store is behind it: a call takes effect
\* in one step, on the value the key shows at that step, and its caller is told so.
EXTENDS Naturals

CONSTANTS Null

VARIABLES
  view,     \* Null, or the value and whether it is going to expire
  asking,   \* Null, or the call a caller is in
  answers   \* what a caller's last call was told

Shows(e) == view # Null /\ view.value = e
Entry(v, ttl) == [value |-> v, ttl |-> ttl]
Done(b) == [done |-> b]
Count(n) == [count |-> n]
Told(c, a) ==
  answers' = [answers EXCEPT ![c] = a] /\ asking' = [asking EXCEPT ![c] = Null]

Writes(c, k) == view' = Entry(k.value, k.ttl) /\ Told(c, Done(TRUE))
Removes(c) == view' = Null /\ Told(c, Done(TRUE))
Declines(c) == UNCHANGED view /\ Told(c, Done(FALSE))
Counts(c, ttl) ==
  LET n == IF view = Null THEN 1 ELSE view.value + 1
  IN  /\ view' = Entry(n, IF view = Null THEN ttl ELSE view.ttl)
      /\ Told(c, Count(n))

\* Nothing is left of a value that has expired: the port does not say what delIfValue
\* tells a caller that names it.
Returns(c, k) ==
  \/ k.op = "set" /\ Writes(c, k)
  \/ k.op = "setNew" /\ IF view = Null THEN Writes(c, k) ELSE Declines(c)
  \/ k.op = "setIf" /\ IF Shows(k.expected) THEN Writes(c, k) ELSE Declines(c)
  \/ k.op = "del" /\ Removes(c)
  \/ k.op = "delIf" /\ (Shows(k.expected) \/ view = Null) /\ Removes(c)
  \/ k.op = "delIf" /\ ~Shows(k.expected) /\ Declines(c)
  \/ k.op = "incr" /\ Counts(c, FALSE)
  \/ k.op = "incrWithExpiry" /\ Counts(c, TRUE)

Issues ==
  /\ UNCHANGED view
  /\ \E c \in DOMAIN asking :
       /\ asking[c] = Null /\ asking'[c] # Null
       /\ asking' = [asking EXCEPT ![c] = asking'[c]]
       /\ answers' = [answers EXCEPT ![c] = Null]

Expires == view # Null /\ view.ttl /\ view' = Null /\ UNCHANGED <<asking, answers>>

Next ==
  \/ \E c \in DOMAIN asking : asking[c] # Null /\ Returns(c, asking[c])
  \/ Issues
  \/ Expires
=============================================================================
