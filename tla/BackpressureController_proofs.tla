-------------------- MODULE BackpressureController_proofs --------------------
(***************************************************************************)
(* Proofs about the backpressure controller, for every finite set of       *)
(* consumers, every limit and every policy: the bounds on what is pending, *)
(* the watermarks, and the order in which events are dispatched.           *)
(*                                                                         *)
(* All operations but an accepted admission leave the consumers with no    *)
(* more pending than they had; an accepted admission adds one event below  *)
(* the limits, or evicts one first.                                        *)
(***************************************************************************)
EXTENDS BackpressureController, CollectionLemmas

-----------------------------------------------------------------------------
(* The inductive invariant.                                                *)

\* Entries that were never given back come last in a queue, and in the order
\* of their admission.
Sorted(queue) ==
    \A i, j \in DOMAIN queue : i < j /\ ~queue[i].retried => ~queue[j].retried /\ queue[i].id < queue[j].id

\* Ids of the entries to come are not in use.
Known(queue, next) == \A i \in DOMAIN queue : ~queue[i].retried => queue[i].id < next

\* A consumer record in good order.
Good(r, next) ==
    /\ r \in Records /\ IsFiniteSet(r.inFlight)
    /\ Sorted(r.queue) /\ Known(r.queue, next)

Calm(r) == Pending(r) >= HighWatermark => r.state \in {"PAUSED", "FAILED"}

\* What an operation puts in flight is older than what it leaves in the queue.
Dispatches(r, s) ==
    \A x \in s.inFlight \ r.inFlight :
        ~x.retried /\ x.age = 0 => \A i \in DOMAIN s.queue : s.queue[i].id > x.id

BInv ==
    /\ TypeOK
    /\ \A k \in Consumers : Good(consumers[k], nextEntry)
    /\ GlobalBound /\ PausedAtHigh

-----------------------------------------------------------------------------
(* Queues.                                                                 *)

LEMMA RecordParts ==
    ASSUME NEW r \in Records
    PROVE  /\ r.state \in States /\ r.overflow \in OverflowPolicies /\ r.timeout \in TimeoutActions
           /\ r.queue \in Seq(Entries) /\ r.inFlight \in SUBSET Entries
  BY DEF Records

LEMMA PendingType ==
    ASSUME NEW r \in Records, IsFiniteSet(r.inFlight)
    PROVE  Pending(r) \in Nat /\ Len(r.queue) \in Nat /\ Cardinality(r.inFlight) \in Nat
  <1>1. r.queue \in Seq(Entries)
    BY RecordParts
  <1>2. Len(r.queue) \in Nat
    BY <1>1, LenProperties
  <1>3. Cardinality(r.inFlight) \in Nat
    BY FS_CardinalityType
  <1> QED
    BY <1>2, <1>3 DEF Pending

\* The end of a queue is in order.
LEMMA RestSorted ==
    ASSUME NEW q \in Seq(Entries), Sorted(q), NEW next, Known(q, next), NEW n \in Nat
    PROVE  LET p == SubSeq(q, n + 1, Len(q)) IN
           /\ p \in Seq(Entries) /\ Sorted(p) /\ Known(p, next)
           /\ Len(p) = IF n < Len(q) THEN Len(q) - n ELSE 0
           /\ \A i \in DOMAIN p : i + n \in DOMAIN q /\ p[i] = q[i + n]
  <1> DEFINE p == SubSeq(q, n + 1, Len(q))
  <1>1. Len(q) \in Nat
    BY LenProperties
  <1>2. DOMAIN q = 1..Len(q) /\ \A i \in 1..Len(q) : q[i] \in Entries
    BY LenProperties
  <1>3. /\ p \in Seq(Entries)
        /\ Len(p) = IF n + 1 <= Len(q) THEN Len(q) - (n + 1) + 1 ELSE 0
        /\ \A i \in 1..Len(q) - (n + 1) + 1 : p[i] = q[(n + 1) + i - 1]
    <2>1. n + 1 \in Int /\ Len(q) \in Int /\ \A i \in n + 1 .. Len(q) : q[i] \in Entries
      BY <1>1, <1>2
    <2> QED
      BY <2>1, SubSeqProperties
  <1>4. DOMAIN p = 1..Len(p)
    BY <1>3, LenProperties
  <1> HIDE DEF p
  <1>5. Len(p) = IF n < Len(q) THEN Len(q) - n ELSE 0
    <2>1. \A l, k \in Nat : (k + 1 <= l <=> k < l) /\ l - (k + 1) + 1 = l - k
      OBVIOUS
    <2>2. (n + 1 <= Len(q) <=> n < Len(q)) /\ Len(q) - (n + 1) + 1 = Len(q) - n
      BY <1>1, <2>1
    <2> QED
      BY <1>3, <2>2
  <1>7. ASSUME NEW i \in DOMAIN p
        PROVE  i \in Nat /\ i + n \in DOMAIN q /\ p[i] = q[i + n]
    <2>1. n < Len(q)
      BY <1>4, <1>5
    <2>2. i \in 1..Len(q) - n
      BY <1>4, <1>5, <2>1
    <2>3. \A l, k \in Nat : \A j \in 1..l - k :
              j \in Nat /\ j + k \in 1..l /\ j \in 1..l - (k + 1) + 1 /\ (k + 1) + j - 1 = j + k
      OBVIOUS
    <2>4. i \in Nat /\ i + n \in 1..Len(q) /\ i \in 1..Len(q) - (n + 1) + 1 /\ (n + 1) + i - 1 = i + n
      BY <1>1, <2>2, <2>3
    <2> QED
      BY <1>2, <1>3, <2>4
  <1>6. Sorted(p)
    <2> SUFFICES ASSUME NEW i \in DOMAIN p, NEW j \in DOMAIN p, i < j, ~p[i].retried
                 PROVE  ~p[j].retried /\ p[i].id < p[j].id
      BY DEF Sorted
    <2>1. i + n < j + n
      BY <1>7
    <2> QED
      BY <1>7, <2>1 DEF Sorted
  <1>8. Known(p, next)
    BY <1>7 DEF Known
  <1> QED
    BY <1>3, <1>5, <1>6, <1>7, <1>8 DEF p

\* So is a queue without one of its entries.
LEMMA RemovedSorted ==
    ASSUME NEW q \in Seq(Entries), Sorted(q), NEW next, Known(q, next), NEW m \in DOMAIN q
    PROVE  LET p == RemoveAt(q, m) IN
           p \in Seq(Entries) /\ Sorted(p) /\ Known(p, next) /\ Len(p) = Len(q) - 1
  <1> DEFINE p == RemoveAt(q, m)
  <1>1. p \in Seq(Entries) /\ Len(p) = Len(q) - 1 /\ Without(p, q, m)
    BY RemoveAtWithout
  <1> HIDE DEF p
  <1>2. Sorted(p)
    <2> SUFFICES ASSUME NEW i \in DOMAIN p, NEW j \in DOMAIN p, i < j, ~p[i].retried
                 PROVE  ~p[j].retried /\ p[i].id < p[j].id
      BY DEF Sorted
    <2> QED
      BY <1>1 DEF Sorted, Without
  <1>3. Known(p, next)
    BY <1>1 DEF Known, Without
  <1> QED
    BY <1>1, <1>2, <1>3 DEF p

-----------------------------------------------------------------------------
(* What the operations do to the record of a consumer.                     *)

\* s may follow r: nothing more is pending, and what is put in flight is older
\* than what waits.
Follows(r, s, next) == Good(s, next) /\ Pending(s) <= Pending(r) /\ Dispatches(r, s)

LEMMA SameFollows ==
    ASSUME NEW next, NEW r, Good(r, next)
    PROVE  Follows(r, r, next)
  BY PendingType DEF Follows, Good, Dispatches

\* The watermarks change the state alone, and calm the consumer.
LEMMA ReconciledFollows ==
    ASSUME NEW next, NEW r, NEW s, Follows(r, s, next)
    PROVE  /\ Follows(r, Reconciled(s), next) /\ Calm(Reconciled(s))
           /\ Pending(Reconciled(s)) = Pending(s)
  <1> DEFINE st == IF s.state = "FAILED" THEN s.state
                   ELSE IF Pending(s) >= HighWatermark THEN "PAUSED"
                   ELSE IF Pending(s) <= LowWatermark THEN "ACTIVE" ELSE s.state
  <1>1. Reconciled(s) = [s EXCEPT !.state = st]
    BY DEF Reconciled
  <1>2. s \in Records
    BY DEF Follows, Good
  <1>3. st \in States
    BY <1>2, RecordParts DEF States
  <1>4. Pending(s) >= HighWatermark => st \in {"PAUSED", "FAILED"}
    OBVIOUS
  <1> HIDE DEF st
  <1>5. /\ Reconciled(s) \in Records /\ Reconciled(s).state = st
        /\ Reconciled(s).queue = s.queue /\ Reconciled(s).inFlight = s.inFlight
    BY <1>1, <1>2, <1>3 DEF Records
  <1>6. Pending(Reconciled(s)) = Pending(s)
    BY <1>5 DEF Pending
  <1> QED
    BY <1>4, <1>5, <1>6 DEF Follows, Good, Dispatches, Calm

\* Another state, and nothing else.
LEMMA StateFollows ==
    ASSUME NEW next, NEW r, Good(r, next), NEW st \in States
    PROVE  /\ Follows(r, [r EXCEPT !.state = st], next)
           /\ Pending([r EXCEPT !.state = st]) = Pending(r)
           /\ [r EXCEPT !.state = st].state = st
  <1> DEFINE s == [r EXCEPT !.state = st]
  <1>1. s \in Records /\ s.state = st /\ s.queue = r.queue /\ s.inFlight = r.inFlight
    BY DEF Good, Records
  <1>2. Pending(s) = Pending(r)
    BY <1>1 DEF Pending
  <1>3. Pending(r) \in Nat
    BY PendingType DEF Good
  <1> HIDE DEF s
  <1>4. Follows(r, s, next)
    BY <1>1, <1>2, <1>3 DEF Follows, Good, Dispatches
  <1> QED
    BY <1>1, <1>2, <1>4 DEF s

\* A consumer with nothing pending.
LEMMA EmptyFollows ==
    ASSUME NEW next, NEW r, Good(r, next), NEW s \in Records, s.queue = <<>>, s.inFlight = {}
    PROVE  Follows(r, s, next) /\ Pending(s) = 0
  <1>1. IsFiniteSet({}) /\ Cardinality({}) = 0
    BY FS_EmptySet
  <1>2. Len(s.queue) = 0 /\ DOMAIN s.queue = {}
    OBVIOUS
  <1>3. Pending(s) = 0
    BY <1>1, <1>2 DEF Pending
  <1>4. Pending(r) \in Nat
    BY PendingType DEF Good
  <1> QED
    BY <1>1, <1>2, <1>3, <1>4 DEF Follows, Good, Sorted, Known, Dispatches

\* Less in flight.
LEMMA LessFollows ==
    ASSUME NEW next, NEW r, Good(r, next), NEW gone
    PROVE  /\ Follows(r, [r EXCEPT !.inFlight = @ \ gone], next)
           /\ [r EXCEPT !.inFlight = @ \ gone].inFlight = r.inFlight \ gone
  <1> DEFINE s == [r EXCEPT !.inFlight = @ \ gone]
  <1>1. s \in Records /\ s.queue = r.queue /\ s.inFlight = r.inFlight \ gone
    <2>1. r \in Records
      BY DEF Good
    <2>2. r.inFlight \ gone \in SUBSET Entries
      BY <2>1, RecordParts
    <2> QED
      BY <2>1, <2>2 DEF Records
  <1> HIDE DEF s
  <1>2. IsFiniteSet(r.inFlight) /\ r.inFlight \ gone \in SUBSET r.inFlight
    BY DEF Good
  <1>3. IsFiniteSet(s.inFlight) /\ Cardinality(s.inFlight) <= Cardinality(r.inFlight)
    BY <1>1, <1>2, FS_Subset
  <1>4. Pending(s) <= Pending(r)
    <2>1. /\ Len(r.queue) \in Nat /\ Cardinality(r.inFlight) \in Nat /\ Cardinality(s.inFlight) \in Nat
      BY <1>3, PendingType, FS_CardinalityType DEF Good
    <2> QED
      BY <1>1, <1>3, <2>1 DEF Pending
  <1>5. Follows(r, s, next)
    BY <1>1, <1>3, <1>4 DEF Follows, Good, Dispatches
  <1> QED
    BY <1>1, <1>5 DEF s

-----------------------------------------------------------------------------
(* Draining.                                                               *)

\* The entries the first n of a queue are.
FirstOf(q, n) == {q[i] : i \in DOMAIN q \cap 1..n}

LEMMA FirstOfSize ==
    ASSUME NEW q \in Seq(Entries), NEW n \in Nat
    PROVE  /\ IsFiniteSet(FirstOf(q, n)) /\ FirstOf(q, n) \in SUBSET Entries
           /\ Cardinality(FirstOf(q, n)) <= IF n < Len(q) THEN n ELSE Len(q)
  <1> DEFINE m == IF n < Len(q) THEN n ELSE Len(q)
             f == [i \in 1..m |-> q[i]]
  <1>1. Len(q) \in Nat /\ DOMAIN q = 1..Len(q) /\ \A i \in 1..Len(q) : q[i] \in Entries
    BY LenProperties
  <1>2. m \in Nat /\ DOMAIN q \cap 1..n = 1..m
    BY <1>1
  <1> HIDE DEF m
  <1>3. f \in Surjection(1..m, FirstOf(q, n))
    BY <1>2 DEF FirstOf, Surjection
  <1>4. IsFiniteSet(1..m) /\ Cardinality(1..m) = m
    BY <1>2, FS_Interval
  <1>5. IsFiniteSet(FirstOf(q, n)) /\ Cardinality(FirstOf(q, n)) <= m
    <2> HIDE DEF f
    <2> QED
      BY <1>3, <1>4, FS_Surjection
  <1>6. FirstOf(q, n) \in SUBSET Entries
    BY <1>1 DEF FirstOf
  <1> QED
    BY <1>5, <1>6 DEF m

LEMMA DrainFollows ==
    ASSUME NEW next, NEW r, Good(r, next), NEW n \in Nat
    PROVE  Follows(r, [r EXCEPT !.queue = SubSeq(@, n + 1, Len(@)),
                                !.inFlight = @ \cup FirstOf(r.queue, n)], next)
  <1> DEFINE q == r.queue
             p == SubSeq(q, n + 1, Len(q))
             new == FirstOf(q, n)
             s == [r EXCEPT !.queue = p, !.inFlight = @ \cup new]
  <1>1. r \in Records /\ IsFiniteSet(r.inFlight) /\ q \in Seq(Entries) /\ Sorted(q) /\ Known(q, next)
        /\ r.inFlight \in SUBSET Entries
    BY RecordParts DEF Good
  <1>2. /\ p \in Seq(Entries) /\ Sorted(p) /\ Known(p, next)
        /\ Len(p) = IF n < Len(q) THEN Len(q) - n ELSE 0
        /\ \A i \in DOMAIN p : i + n \in DOMAIN q /\ p[i] = q[i + n]
    <2> HIDE DEF q
    <2> QED
      BY <1>1, RestSorted
  <1>3. /\ IsFiniteSet(new) /\ new \in SUBSET Entries
        /\ Cardinality(new) <= IF n < Len(q) THEN n ELSE Len(q)
    BY <1>1, FirstOfSize
  <1>4. \A x \in new : \E i \in DOMAIN q \cap 1..n : x = q[i]
    BY DEF FirstOf
  <1> HIDE DEF p, new
  <1>5. s \in Records /\ s.queue = p /\ s.inFlight = r.inFlight \cup new
    <2>1. r.inFlight \cup new \in SUBSET Entries
      BY <1>1, <1>3
    <2> QED
      BY <1>1, <1>2, <2>1 DEF Records
  <1> HIDE DEF s
  <1>6. /\ IsFiniteSet(s.inFlight)
        /\ Cardinality(s.inFlight) <= Cardinality(r.inFlight) + Cardinality(new)
    <2>1. Cardinality(r.inFlight) \in Nat /\ Cardinality(new) \in Nat
      BY <1>1, <1>3, FS_CardinalityType
    <2>2. IsFiniteSet(r.inFlight \cap new)
      BY <1>1, FS_Intersection
    <2>3. Cardinality(r.inFlight \cap new) \in Nat
      BY <2>2, FS_CardinalityType
    <2>4. /\ IsFiniteSet(r.inFlight \cup new)
          /\ Cardinality(r.inFlight \cup new)
                = Cardinality(r.inFlight) + Cardinality(new) - Cardinality(r.inFlight \cap new)
      BY <1>1, <1>3, FS_Union
    <2> QED
      BY <1>5, <2>1, <2>3, <2>4
  <1>7. Pending(s) <= Pending(r)
    <2>1. Len(q) \in Nat /\ Cardinality(r.inFlight) \in Nat
      BY <1>1, PendingType
    <2>2. Cardinality(s.inFlight) \in Nat /\ Cardinality(new) \in Nat
      BY <1>3, <1>6, FS_CardinalityType
    <2>3. Len(p) + Cardinality(new) <= Len(q)
      BY <1>2, <1>3, <2>1, <2>2
    <2>4. Len(p) \in Nat
      BY <1>2, LenProperties
    <2> QED
      BY <1>5, <1>6, <2>1, <2>2, <2>3, <2>4 DEF Pending
  <1>8. Dispatches(r, s)
    <2> SUFFICES ASSUME NEW x \in s.inFlight \ r.inFlight, ~x.retried,
                        NEW j \in DOMAIN s.queue
                 PROVE  s.queue[j].id > x.id
      BY DEF Dispatches
    <2>1. PICK i \in DOMAIN q \cap 1..n : x = q[i]
      BY <1>4, <1>5
    <2>2. j + n \in DOMAIN q /\ s.queue[j] = q[j + n] /\ j \in Nat /\ j > 0
      BY <1>2, <1>5, LenProperties
    <2>3. i < j + n
      BY <2>1, <2>2
    <2>4. q[i].id < q[j + n].id
      BY <1>1, <2>1, <2>2, <2>3 DEF Sorted
    <2>5. q[i].id \in Nat /\ q[j + n].id \in Nat
      <3>1. q[i] \in Entries /\ q[j + n] \in Entries
        BY <1>1, <2>1, <2>2, LenProperties
      <3> QED
        BY <3>1 DEF Entries
    <2> QED
      BY <2>1, <2>2, <2>4, <2>5
  <1>9. Follows(r, s, next)
    BY <1>2, <1>5, <1>6, <1>7, <1>8 DEF Follows, Good
  <1> QED
    BY <1>9 DEF s, p, new

-----------------------------------------------------------------------------
(* Failing, ticking, growing older.                                        *)

\* An entry that is retried goes to the front, where no order is asked of it.
LEMMA RetriedSorted ==
    ASSUME NEW q \in Seq(Entries), Sorted(q), NEW next, Known(q, next), NEW x \in Entries, x.retried
    PROVE  LET p == <<x>> \o q IN
           p \in Seq(Entries) /\ Sorted(p) /\ Known(p, next) /\ Len(p) = Len(q) + 1
  <1> DEFINE p == <<x>> \o q
  <1>1. Len(q) \in Nat /\ DOMAIN q = 1..Len(q)
    BY LenProperties
  <1>2. <<x>> \in Seq(Entries) /\ Len(<<x>>) = 1 /\ <<x>>[1] = x
    OBVIOUS
  <1>3. /\ p \in Seq(Entries) /\ Len(p) = Len(<<x>>) + Len(q)
        /\ \A i \in 1..Len(<<x>>) + Len(q) : p[i] = IF i <= Len(<<x>>) THEN <<x>>[i] ELSE q[i - Len(<<x>>)]
    BY <1>2, ConcatProperties
  <1>4. DOMAIN p = 1..Len(p)
    BY <1>3, LenProperties
  <1> HIDE DEF p
  <1>5. Len(p) = Len(q) + 1
    BY <1>1, <1>2, <1>3
  <1>6. p[1] = x
    BY <1>1, <1>2, <1>3
  <1>7. ASSUME NEW i \in DOMAIN p, i # 1
        PROVE  i \in Nat /\ i - 1 \in DOMAIN q /\ p[i] = q[i - 1]
    <2>1. i \in 1..Len(q) + 1
      BY <1>4, <1>5
    <2>2. i \in 1..Len(<<x>>) + Len(q) /\ ~(i <= Len(<<x>>))
      BY <1>1, <1>2, <1>7, <2>1
    <2>3. p[i] = q[i - 1]
      BY <1>2, <1>3, <2>2
    <2> QED
      BY <1>1, <1>7, <2>1, <2>3
  <1>8. Sorted(p)
    <2> SUFFICES ASSUME NEW i \in DOMAIN p, NEW j \in DOMAIN p, i < j, ~p[i].retried
                 PROVE  ~p[j].retried /\ p[i].id < p[j].id
      BY DEF Sorted
    <2>1. i # 1
      BY <1>6
    <2>2. j # 1
      BY <1>1, <1>4, <1>5
    <2>3. i - 1 < j - 1
      BY <1>7, <2>1, <2>2
    <2> QED
      BY <1>7, <2>1, <2>2, <2>3 DEF Sorted
  <1>9. Known(p, next)
    BY <1>6, <1>7 DEF Known
  <1> QED
    BY <1>3, <1>5, <1>8, <1>9 DEF p

LEMMA RetryFollows ==
    ASSUME NEW next, NEW r, Good(r, next), NEW x \in r.inFlight, NEW y \in Entries, y.retried,
           NEW st \in States
    PROVE  Follows(r, [r EXCEPT !.inFlight = @ \ {x}, !.queue = <<y>> \o @, !.state = st], next)
  <1> DEFINE p == <<y>> \o r.queue
             s == [r EXCEPT !.inFlight = @ \ {x}, !.queue = p, !.state = st]
  <1>1. /\ r \in Records /\ IsFiniteSet(r.inFlight) /\ r.queue \in Seq(Entries)
        /\ Sorted(r.queue) /\ Known(r.queue, next)
    BY RecordParts DEF Good
  <1>2. p \in Seq(Entries) /\ Sorted(p) /\ Known(p, next) /\ Len(p) = Len(r.queue) + 1
    BY <1>1, RetriedSorted
  <1> HIDE DEF p
  <1>3. s \in Records /\ s.queue = p /\ s.inFlight = r.inFlight \ {x}
    <2>1. r.inFlight \ {x} \in SUBSET Entries
      BY <1>1, RecordParts
    <2> QED
      BY <1>1, <1>2, <2>1 DEF Records
  <1> HIDE DEF s
  <1>4. IsFiniteSet(s.inFlight) /\ Cardinality(s.inFlight) = Cardinality(r.inFlight) - 1
    BY <1>1, <1>3, FS_RemoveElement
  <1>5. Pending(s) = Pending(r) /\ Pending(r) \in Nat
    <2>1. Len(r.queue) \in Nat /\ Cardinality(r.inFlight) \in Nat
      BY <1>1, PendingType
    <2> QED
      BY <1>2, <1>3, <1>4, <2>1 DEF Pending
  <1>6. Follows(r, s, next)
    BY <1>2, <1>3, <1>4, <1>5 DEF Follows, Good, Dispatches
  <1> QED
    BY <1>6 DEF s, p

\* The state and less in flight.
LEMMA LessAndStateFollows ==
    ASSUME NEW next, NEW r, Good(r, next), NEW gone, NEW st \in States
    PROVE  Follows(r, [r EXCEPT !.inFlight = @ \ gone, !.state = st], next)
  <1> DEFINE s == [r EXCEPT !.inFlight = @ \ gone]
  <1>1. Follows(r, s, next)
    BY LessFollows
  <1> HIDE DEF s
  <1>2. /\ Follows(s, [s EXCEPT !.state = st], next)
        /\ Pending([s EXCEPT !.state = st]) = Pending(s)
    BY <1>1, StateFollows DEF Follows
  <1>3. [s EXCEPT !.state = st].inFlight = s.inFlight /\ [s EXCEPT !.state = st].queue = s.queue
    BY <1>1 DEF Follows, Good, Records
  <1>4. Follows(r, [s EXCEPT !.state = st], next)
    BY <1>1, <1>2, <1>3 DEF Follows, Dispatches
  <1>5. [s EXCEPT !.state = st] = [r EXCEPT !.inFlight = @ \ gone, !.state = st]
    BY DEF s, Good, Records
  <1> QED
    BY <1>4, <1>5

LEMMA TimeoutsFollow ==
    ASSUME NEW next, NEW r, Good(r, next)
    PROVE  Follows(r, AfterTimeouts(r), next)
  <1>1. r \in Records /\ r.timeout \in TimeoutActions
    BY RecordParts DEF Good
  <1>2. CASE TimedOut(r) = {}
    BY <1>2, SameFollows DEF AfterTimeouts
  <1>3. CASE TimedOut(r) # {} /\ r.timeout = "MARK_DEGRADED"
    BY <1>3, StateFollows DEF AfterTimeouts, States
  <1>4. CASE TimedOut(r) # {} /\ r.timeout = "PAUSE_CONSUMER"
    BY <1>4, StateFollows DEF AfterTimeouts, States
  <1>5. CASE TimedOut(r) # {} /\ r.timeout = "FAIL_CONSUMER"
    BY <1>5, StateFollows DEF AfterTimeouts, States
  <1>6. CASE TimedOut(r) # {} /\ r.timeout = "DROP_TIMED_OUT"
    BY <1>6, LessFollows DEF AfterTimeouts
  <1>7. r.timeout # "NONE" \/ TimedOut(r) = {}
    BY DEF TimedOut
  <1> QED
    BY <1>1, <1>2, <1>3, <1>4, <1>5, <1>6, <1>7 DEF TimeoutActions

LEMMA OlderEntry ==
    ASSUME NEW x \in Entries
    PROVE  Older(x) \in Entries /\ (Older(x) = x \/ Older(x).age # 0)
  <1> DEFINE a == IF x.age < AckTimeout THEN x.age + 1 ELSE x.age
  <1>1. x.age \in 0..AckTimeout /\ AckTimeout \in Nat
    BY BackpressureAssumption DEF Entries
  <1>2. a \in 0..AckTimeout /\ (a = x.age \/ a # 0)
    BY <1>1
  <1> HIDE DEF a
  <1>3. [x EXCEPT !.age = a] \in Entries /\ [x EXCEPT !.age = a].age = a
    BY <1>2 DEF Entries
  <1>4. a = x.age => [x EXCEPT !.age = a] = x
    BY DEF Entries
  <1>5. Older(x) = [x EXCEPT !.age = a]
    BY DEF Older, a
  <1> QED
    BY <1>2, <1>3, <1>4, <1>5

LEMMA OlderFollows ==
    ASSUME NEW next, NEW r, Good(r, next)
    PROVE  /\ Follows(r, [r EXCEPT !.inFlight = {Older(x) : x \in @}], next)
           /\ [r EXCEPT !.inFlight = {Older(x) : x \in @}].state = r.state
  <1> DEFINE T == {Older(x) : x \in r.inFlight}
             f == [x \in r.inFlight |-> Older(x)]
             s == [r EXCEPT !.inFlight = T]
  <1>1. r \in Records /\ IsFiniteSet(r.inFlight) /\ r.inFlight \in SUBSET Entries
    BY RecordParts DEF Good
  <1>2. T \in SUBSET Entries /\ \A y \in T \ r.inFlight : y.age # 0
    BY <1>1, OlderEntry
  <1>3. f \in Surjection(r.inFlight, T)
    BY DEF Surjection
  <1>4. IsFiniteSet(T) /\ Cardinality(T) <= Cardinality(r.inFlight)
    <2> HIDE DEF f, T
    <2> QED
      BY <1>1, <1>3, FS_Surjection
  <1> HIDE DEF T
  <1>5. s \in Records /\ s.queue = r.queue /\ s.inFlight = T /\ s.state = r.state
    BY <1>1, <1>2 DEF Records
  <1> HIDE DEF s
  <1>6. Pending(s) <= Pending(r)
    <2>1. Len(r.queue) \in Nat /\ Cardinality(r.inFlight) \in Nat /\ Cardinality(T) \in Nat
      BY <1>1, <1>4, PendingType, FS_CardinalityType
    <2> QED
      BY <1>4, <1>5, <2>1 DEF Pending
  <1>7. Follows(r, s, next)
    BY <1>2, <1>4, <1>5, <1>6 DEF Follows, Good, Dispatches
  <1> QED
    BY <1>5, <1>7 DEF s, T

-----------------------------------------------------------------------------
(* What is pending in all.                                                 *)

AllGood(cs, next) == cs \in [Consumers -> Records] /\ \A k \in Consumers : Good(cs[k], next)
PendingOf(cs) == [k \in Consumers |-> Pending(cs[k])]

LEMMA GlobalIsSum == ASSUME NEW cs PROVE GlobalPending(cs) = SumOver(PendingOf(cs), Consumers)
  BY DEF GlobalPending, SumOver, PendingOf

LEMMA GoodPending ==
    ASSUME NEW next, NEW cs, AllGood(cs, next)
    PROVE  /\ IsFiniteSet(Consumers)
           /\ \A k \in Consumers : PendingOf(cs)[k] = Pending(cs[k]) /\ Pending(cs[k]) \in Nat
           /\ GlobalPending(cs) \in Nat
  <1>1. IsFiniteSet(Consumers)
    BY BackpressureAssumption
  <1>2. \A k \in Consumers : PendingOf(cs)[k] = Pending(cs[k]) /\ Pending(cs[k]) \in Nat
    BY PendingType DEF AllGood, Good, PendingOf
  <1>3. SumOver(PendingOf(cs), Consumers) \in Nat
    BY <1>1, <1>2, SumNat
  <1> QED
    BY <1>1, <1>2, <1>3, GlobalIsSum

LEMMA GlobalShrinks ==
    ASSUME NEW next, NEW cs, AllGood(cs, next), NEW more, NEW ds, AllGood(ds, more),
           \A k \in Consumers : Pending(ds[k]) <= Pending(cs[k])
    PROVE  GlobalPending(ds) <= GlobalPending(cs)
  <1> DEFINE f == PendingOf(ds)
             g == PendingOf(cs)
  <1>1. IsFiniteSet(Consumers)
    BY BackpressureAssumption
  <1>2. \A k \in Consumers : f[k] \in Nat /\ g[k] \in Nat /\ f[k] <= g[k]
    BY GoodPending
  <1>3. SumOver(f, Consumers) <= SumOver(g, Consumers)
    <2> HIDE DEF f, g
    <2> QED
      BY <1>1, <1>2, SumMonotone
  <1> QED
    BY <1>3, GlobalIsSum

LEMMA GlobalChange ==
    ASSUME NEW next, NEW cs, AllGood(cs, next), NEW more, NEW ds, AllGood(ds, more),
           NEW k \in Consumers, \A j \in Consumers \ {k} : Pending(ds[j]) = Pending(cs[j])
    PROVE  GlobalPending(ds) + Pending(cs[k]) = GlobalPending(cs) + Pending(ds[k])
  <1> DEFINE f == PendingOf(cs)
             g == PendingOf(ds)
  <1>1. IsFiniteSet(Consumers)
    BY BackpressureAssumption
  <1>2. /\ \A j \in Consumers : f[j] \in Nat /\ g[j] \in Nat
        /\ \A j \in Consumers \ {k} : f[j] = g[j]
        /\ f[k] = Pending(cs[k]) /\ g[k] = Pending(ds[k])
    BY GoodPending
  <1>3. SumOver(g, Consumers) + f[k] = SumOver(f, Consumers) + g[k]
    <2> HIDE DEF f, g
    <2> QED
      BY <1>1, <1>2, SumUpdate
  <1> QED
    BY <1>2, <1>3, GlobalIsSum

-----------------------------------------------------------------------------
(* Eviction.                                                               *)

LEMMA OldestIsQueued ==
    ASSUME NEW r \in Records, r.queue # <<>>
    PROVE  OldestId(r) \in Nat /\ \E i \in DOMAIN r.queue : r.queue[i].id = OldestId(r)
  <1> DEFINE S == {r.queue[i].id : i \in DOMAIN r.queue}
  <1>1. r.queue \in Seq(Entries)
    BY RecordParts
  <1>2. Len(r.queue) \in Nat \ {0}
    BY <1>1, EmptySeq
  <1>3. DOMAIN r.queue = 1..Len(r.queue) /\ \A i \in DOMAIN r.queue : r.queue[i] \in Entries
    BY <1>1, LenProperties
  <1>4. 1 \in DOMAIN r.queue
    BY <1>2, <1>3
  <1>5. S \in SUBSET Nat /\ S # {}
    <2>1. \A x \in Entries : x.id \in Nat
      BY BackpressureAssumption DEF Entries
    <2> QED
      BY <1>3, <1>4, <2>1
  <1>6. Min(S) \in S
    <2> HIDE DEF S
    <2> QED
      BY <1>5, LeastNatural
  <1>7. OldestId(r) = Min(S)
    BY DEF OldestId
  <1> QED
    BY <1>5, <1>6, <1>7

\* One entry of one victim goes.
EvictedFrom(cs, ds, j, next) ==
    /\ AllGood(ds, next)
    /\ \A i \in Consumers \ {j} : ds[i] = cs[i]
    /\ ds[j].state = cs[j].state /\ ds[j].inFlight = cs[j].inFlight
    /\ ds[j].overflow = cs[j].overflow /\ ds[j].timeout = cs[j].timeout
    /\ Pending(ds[j]) = Pending(cs[j]) - 1

LEMMA EvictionTakesOne ==
    ASSUME NEW next, NEW cs, AllGood(cs, next), NEW k \in Consumers, Victims(cs, k) # {}
    PROVE  \E j \in Consumers :
              /\ GlobalPending(cs) >= MaxGlobal \/ j = k
              /\ EvictedFrom(cs, Evicted(cs, k), j, next)
  <1> DEFINE V == Victims(cs, k)
             ids == {OldestId(cs[v]) : v \in V}
             j == CHOOSE v \in V : \A w \in V : OldestId(cs[v]) <= OldestId(cs[w])
             m == CHOOSE i \in DOMAIN cs[j].queue : cs[j].queue[i].id = OldestId(cs[j])
             q == RemoveAt(cs[j].queue, m)
             ds == [cs EXCEPT ![j].queue = q]
  <1>1. V \subseteq Consumers /\ \A v \in V : cs[v] \in Records /\ cs[v].queue # <<>>
        /\ (GlobalPending(cs) >= MaxGlobal \/ v = k)
    BY DEF Victims, AllGood
  <1>2. Evicted(cs, k) = ds
    BY DEF Evicted
  <1>3. ids \in SUBSET Nat /\ ids # {}
    BY <1>1, OldestIsQueued
  <1>4. j \in V
    <2>1. Min(ids) \in ids /\ \A y \in ids : Min(ids) <= y
      <3> HIDE DEF ids
      <3> QED
        BY <1>3, LeastNatural
    <2>2. PICK v \in V : OldestId(cs[v]) = Min(ids)
      BY <2>1
    <2>3. \A w \in V : OldestId(cs[v]) <= OldestId(cs[w])
      BY <2>1, <2>2
    <2> HIDE DEF V, ids
    <2> QED
      BY <2>3
  <1> HIDE DEF V, ids, j
  <1>5. j \in Consumers /\ cs[j] \in Records /\ cs[j].queue # <<>> /\ Good(cs[j], next)
    BY <1>1, <1>4 DEF AllGood
  <1>6. m \in DOMAIN cs[j].queue
    BY <1>5, OldestIsQueued
  <1> HIDE DEF m
  <1>7. q \in Seq(Entries) /\ Sorted(q) /\ Known(q, next) /\ Len(q) = Len(cs[j].queue) - 1
    <2>1. cs[j].queue \in Seq(Entries) /\ Sorted(cs[j].queue) /\ Known(cs[j].queue, next)
      BY <1>5, RecordParts DEF Good
    <2> QED
      BY <1>6, <2>1, RemovedSorted
  <1> HIDE DEF q
  <1>8. /\ [cs[j] EXCEPT !.queue = q] \in Records
        /\ [cs[j] EXCEPT !.queue = q].queue = q
        /\ [cs[j] EXCEPT !.queue = q].state = cs[j].state
        /\ [cs[j] EXCEPT !.queue = q].overflow = cs[j].overflow
        /\ [cs[j] EXCEPT !.queue = q].timeout = cs[j].timeout
        /\ [cs[j] EXCEPT !.queue = q].inFlight = cs[j].inFlight
    BY <1>5, <1>7 DEF Records
  <1>9. /\ ds[j] = [cs[j] EXCEPT !.queue = q] /\ DOMAIN ds = Consumers
        /\ \A i \in Consumers \ {j} : ds[i] = cs[i]
        /\ ds = [i \in Consumers |-> ds[i]]
    BY <1>5 DEF AllGood
  <1> HIDE DEF ds
  <1>10. AllGood(ds, next)
    <2>1. ds \in [Consumers -> Records]
      BY <1>8, <1>9 DEF AllGood
    <2>2. \A i \in Consumers : Good(ds[i], next)
      BY <1>5, <1>7, <1>8, <1>9 DEF AllGood, Good
    <2> QED
      BY <2>1, <2>2 DEF AllGood
  <1>11. Pending(ds[j]) = Pending(cs[j]) - 1
    <2>1. Len(cs[j].queue) \in Nat /\ Cardinality(cs[j].inFlight) \in Nat
      BY <1>5, PendingType DEF Good
    <2> QED
      BY <1>7, <1>8, <1>9, <2>1 DEF Pending
  <1> QED
    BY <1>1, <1>2, <1>4, <1>5, <1>8, <1>9, <1>10, <1>11 DEF EvictedFrom

-----------------------------------------------------------------------------
(* Admission.                                                              *)

LEMMA NewestSorted ==
    ASSUME NEW q \in Seq(Entries), Sorted(q), NEW next \in Nat, Known(q, next),
           NEW x \in Entries, ~x.retried, x.id = next
    PROVE  LET p == Append(q, x) IN
           p \in Seq(Entries) /\ Sorted(p) /\ Known(p, next + 1) /\ Len(p) = Len(q) + 1
  <1> DEFINE p == Append(q, x)
  <1>1. Len(q) \in Nat /\ DOMAIN q = 1..Len(q) /\ \A i \in 1..Len(q) : q[i] \in Entries
    BY LenProperties
  <1>2. /\ p \in Seq(Entries) /\ Len(p) = Len(q) + 1
        /\ \A i \in 1..Len(q) : p[i] = q[i]
        /\ p[Len(q) + 1] = x
    BY AppendProperties
  <1>3. DOMAIN p = 1..Len(p)
    BY <1>2, LenProperties
  <1> HIDE DEF p
  <1>4. \A i \in DOMAIN p : i \in DOMAIN q \/ i = Len(q) + 1
    BY <1>1, <1>2, <1>3
  <1>5. \A y \in Entries : y.id \in Nat
    BY BackpressureAssumption DEF Entries
  <1>6. Sorted(p)
    <2> SUFFICES ASSUME NEW i \in DOMAIN p, NEW j \in DOMAIN p, i < j, ~p[i].retried
                 PROVE  ~p[j].retried /\ p[i].id < p[j].id
      BY DEF Sorted
    <2>1. i \in DOMAIN q /\ p[i] = q[i]
      BY <1>1, <1>2, <1>3
    <2>2. CASE j \in DOMAIN q
      BY <1>1, <1>2, <2>1, <2>2 DEF Sorted
    <2>3. CASE j = Len(q) + 1
      BY <1>1, <1>2, <2>1, <2>3 DEF Known
    <2> QED
      BY <1>4, <2>2, <2>3
  <1>7. Known(p, next + 1)
    <2> SUFFICES ASSUME NEW i \in DOMAIN p, ~p[i].retried
                 PROVE  p[i].id < next + 1
      BY DEF Known
    <2>1. CASE i \in DOMAIN q
      <3>1. q[i].id < next /\ q[i].id \in Nat /\ p[i] = q[i]
        BY <1>1, <1>2, <1>5, <2>1 DEF Known
      <3> QED
        BY <3>1
    <2>2. CASE i = Len(q) + 1
      BY <1>2, <2>2
    <2> QED
      BY <1>4, <2>1, <2>2
  <1> QED
    BY <1>2, <1>6, <1>7 DEF p

LEMMA GoodLater ==
    ASSUME NEW next \in Nat, NEW r, Good(r, next)
    PROVE  Good(r, next + 1)
  <1>1. \A i \in DOMAIN r.queue : r.queue[i].id \in Nat
    <2>1. r.queue \in Seq(Entries)
      BY RecordParts DEF Good
    <2>2. \A y \in Entries : y.id \in Nat
      BY BackpressureAssumption DEF Entries
    <2> QED
      BY <2>1, <2>2, LenProperties
  <1> QED
    BY <1>1 DEF Good, Known

LEMMA PushAddsOne ==
    ASSUME NEW next \in 1..MaxEntries, NEW cs, AllGood(cs, next), NEW k \in Consumers, NEW e \in Events
    PROVE  LET ds == Pushed(cs, k, [id |-> next, event |-> e, retried |-> FALSE, age |-> 0]) IN
           /\ AllGood(ds, next + 1)
           /\ \A j \in Consumers \ {k} : ds[j] = cs[j]
           /\ ds[k].inFlight = cs[k].inFlight
           /\ Pending(ds[k]) = Pending(cs[k]) + 1 /\ Calm(ds[k])
  <1> DEFINE x == [id |-> next, event |-> e, retried |-> FALSE, age |-> 0]
             q == Append(cs[k].queue, x)
             s == [cs[k] EXCEPT !.queue = q]
             ds == [cs EXCEPT ![k] = Reconciled(s)]
  <1>9. Pushed(cs, k, [id |-> next, event |-> e, retried |-> FALSE, age |-> 0]) = ds
    BY DEF Pushed
  <1>1. next \in Nat
    BY BackpressureAssumption
  <1>2. x \in Entries /\ ~x.retried /\ x.id = next
    BY BackpressureAssumption DEF Entries
  <1> HIDE DEF x
  <1>3. /\ cs[k] \in Records /\ IsFiniteSet(cs[k].inFlight) /\ cs[k].queue \in Seq(Entries)
        /\ Sorted(cs[k].queue) /\ Known(cs[k].queue, next)
    BY RecordParts DEF AllGood, Good
  <1>4. q \in Seq(Entries) /\ Sorted(q) /\ Known(q, next + 1) /\ Len(q) = Len(cs[k].queue) + 1
    BY <1>1, <1>2, <1>3, NewestSorted
  <1> HIDE DEF q
  <1>5. s \in Records /\ s.queue = q /\ s.inFlight = cs[k].inFlight
    BY <1>3, <1>4 DEF Records
  <1> HIDE DEF s
  <1>6. Good(s, next + 1) /\ Pending(s) = Pending(cs[k]) + 1
    <2>1. Len(cs[k].queue) \in Nat /\ Cardinality(cs[k].inFlight) \in Nat
      BY <1>3, PendingType
    <2> QED
      BY <1>3, <1>4, <1>5, <2>1 DEF Good, Pending
  <1>7. /\ Good(Reconciled(s), next + 1) /\ Calm(Reconciled(s))
        /\ Pending(Reconciled(s)) = Pending(s) /\ Reconciled(s).inFlight = s.inFlight
    <2>1. Follows(s, s, next + 1)
      BY <1>6, SameFollows
    <2>2. Reconciled(s).inFlight = s.inFlight
      BY <1>5 DEF Reconciled, Records
    <2> QED
      BY <2>1, <2>2, ReconciledFollows DEF Follows
  <1>8. /\ ds[k] = Reconciled(s) /\ \A j \in Consumers \ {k} : ds[j] = cs[j]
        /\ ds \in [Consumers -> Records]
    BY <1>7 DEF AllGood, Good
  <1> HIDE DEF ds
  <1>10. AllGood(ds, next + 1)
    BY <1>1, <1>7, <1>8, GoodLater DEF AllGood
  <1> QED
    BY <1>5, <1>6, <1>7, <1>8, <1>9, <1>10

\* An accepted event finds room, or room is made for it.
LEMMA AcceptedKeepsBounds ==
    ASSUME NEW next \in 1..MaxEntries, NEW cs, AllGood(cs, next), GlobalPending(cs) <= MaxGlobal,
           NEW k \in Consumers, Registered(cs, k), NEW e \in Events, Admission(cs, k) = "ACCEPTED"
    PROVE  LET ds == Admitted(cs, k, e, next) IN
           /\ AllGood(ds, next + 1) /\ GlobalPending(ds) <= MaxGlobal /\ Calm(ds[k])
           /\ \A j \in Consumers \ {k} : ds[j].state = cs[j].state /\ Pending(ds[j]) <= Pending(cs[j])
           /\ \A j \in Consumers : ds[j].inFlight = cs[j].inFlight
           /\ Pending(ds[k]) <= Pending(cs[k]) + 1
           /\ Pending(ds[k]) > Pending(cs[k]) =>
                 GlobalPending(cs) >= MaxGlobal \/ Pending(cs[k]) < MaxPending
  <1> DEFINE entry == [id |-> next, event |-> e, retried |-> FALSE, age |-> 0]
             ds == Admitted(cs, k, e, next)
  <1>1. ds = Pushed(IF AtCapacity(cs, k) THEN Evicted(cs, k) ELSE cs, k, entry)
    BY DEF Admitted
  <1>2. \A j \in Consumers : Pending(cs[j]) \in Nat
    BY GoodPending
  <1>3. GlobalPending(cs) \in Nat /\ MaxGlobal \in Nat /\ MaxPending \in Nat
    BY GoodPending, BackpressureAssumption
  <1>4. CASE ~AtCapacity(cs, k)
    <2>1. ds = Pushed(cs, k, entry)
      BY <1>1, <1>4
    <2>2. /\ AllGood(ds, next + 1) /\ \A j \in Consumers \ {k} : ds[j] = cs[j]
          /\ ds[k].inFlight = cs[k].inFlight
          /\ Pending(ds[k]) = Pending(cs[k]) + 1 /\ Calm(ds[k])
      BY <2>1, PushAddsOne
    <2> HIDE DEF ds
    <2>3. GlobalPending(ds) + Pending(cs[k]) = GlobalPending(cs) + Pending(ds[k])
      BY <2>2, GlobalChange
    <2>4. GlobalPending(ds) \in Nat
      BY <2>2, GoodPending
    <2>5. GlobalPending(cs) < MaxGlobal /\ Pending(cs[k]) < MaxPending
      BY <1>2, <1>3, <1>4 DEF AtCapacity
    <2>6. GlobalPending(ds) <= MaxGlobal
      BY <1>2, <1>3, <2>2, <2>3, <2>4, <2>5
    <2>7. \A j \in Consumers : ds[j].inFlight = cs[j].inFlight
      BY <2>2
    <2>8. \A j \in Consumers \ {k} : ds[j].state = cs[j].state /\ Pending(ds[j]) <= Pending(cs[j])
      BY <1>2, <2>2
    <2>9. Pending(ds[k]) <= Pending(cs[k]) + 1
      BY <1>2, <2>2
    <2> QED
      BY <2>2, <2>5, <2>6, <2>7, <2>8, <2>9 DEF ds
  <1>5. CASE AtCapacity(cs, k)
    <2> DEFINE es == Evicted(cs, k)
    <2>1. Victims(cs, k) # {}
      <3>1. cs[k].state \in States \ {"ABSENT"} /\ cs[k].overflow \in OverflowPolicies
        BY RecordParts DEF AllGood, Registered
      <3> QED
        BY <1>5, <3>1 DEF Admission, States, OverflowPolicies
    <2>2. PICK v \in Consumers : (GlobalPending(cs) >= MaxGlobal \/ v = k) /\ EvictedFrom(cs, es, v, next)
      BY <2>1, EvictionTakesOne
    <2>3. ds = Pushed(es, k, entry)
      BY <1>1, <1>5
    <2> HIDE DEF es
    <2>4. /\ AllGood(es, next) /\ \A j \in Consumers \ {v} : es[j] = cs[j]
          /\ Pending(es[v]) = Pending(cs[v]) - 1
          /\ es[v].state = cs[v].state /\ es[v].inFlight = cs[v].inFlight
      BY <2>2 DEF EvictedFrom
    <2>5. /\ AllGood(ds, next + 1) /\ \A j \in Consumers \ {k} : ds[j] = es[j]
          /\ ds[k].inFlight = es[k].inFlight
          /\ Pending(ds[k]) = Pending(es[k]) + 1 /\ Calm(ds[k])
      BY <2>3, <2>4, PushAddsOne
    <2> HIDE DEF ds
    <2>6. GlobalPending(es) + Pending(cs[v]) = GlobalPending(cs) + Pending(es[v])
      BY <2>4, GlobalChange
    <2>7. GlobalPending(ds) + Pending(es[k]) = GlobalPending(es) + Pending(ds[k])
      BY <2>4, <2>5, GlobalChange
    <2>8. GlobalPending(ds) \in Nat /\ GlobalPending(es) \in Nat /\ \A j \in Consumers : Pending(es[j]) \in Nat
      BY <2>4, <2>5, GoodPending
    <2>9. GlobalPending(ds) <= MaxGlobal
      BY <1>2, <1>3, <2>4, <2>5, <2>6, <2>7, <2>8
    <2>10. \A j \in Consumers : es[j].inFlight = cs[j].inFlight /\ es[j].state = cs[j].state
                                /\ Pending(es[j]) <= Pending(cs[j])
      BY <1>2, <2>4
    <2>11. Pending(ds[k]) <= Pending(cs[k]) + 1
      BY <1>2, <2>5, <2>8, <2>10
    <2>12. v = k => ~(Pending(ds[k]) > Pending(cs[k]))
      BY <1>2, <2>4, <2>5, <2>8
    <2>13. /\ \A j \in Consumers \ {k} : ds[j].state = cs[j].state /\ Pending(ds[j]) <= Pending(cs[j])
           /\ \A j \in Consumers : ds[j].inFlight = cs[j].inFlight
      BY <2>5, <2>10
    <2> QED
      BY <2>2, <2>5, <2>9, <2>11, <2>12, <2>13 DEF ds
  <1> QED
    BY <1>4, <1>5

-----------------------------------------------------------------------------
(* The steps.                                                              *)

\* All operations but an admission: each consumer is left as it was or follows
\* what it was, and is calm unless nothing but its state has been set.
LEMMA QuietStep ==
    ASSUME BInv, nextEntry' = nextEntry, StillAbove \subseteq overridden', overridden' \subseteq Consumers,
           consumers' \in [Consumers -> Records],
           \A k \in Consumers : Follows(consumers[k], consumers'[k], nextEntry),
           \A k \in Consumers \ (overridden \cup overridden') : Calm(consumers[k]) => Calm(consumers'[k])
    PROVE  BInv'
  <1>1. AllGood(consumers, nextEntry) /\ AllGood(consumers', nextEntry')
    BY DEF BInv, AllGood, Follows, TypeOK
  <1>2. TypeOK'
    BY DEF BInv, TypeOK
  <1>3. GlobalBound'
    <2>1. GlobalPending(consumers') <= GlobalPending(consumers)
      BY <1>1, GlobalShrinks DEF Follows
    <2>2. /\ GlobalPending(consumers') \in Nat /\ GlobalPending(consumers) \in Nat
      BY <1>1, GoodPending
    <2> QED
      BY <2>1, <2>2, BackpressureAssumption DEF BInv, GlobalBound
  <1>4. PausedAtHigh'
    <2> SUFFICES ASSUME NEW k \in Consumers, k \notin overridden', Pending(consumers'[k]) >= HighWatermark
                 PROVE  consumers'[k].state \in {"PAUSED", "FAILED"}
      BY DEF PausedAtHigh
    <2>1. CASE k \in overridden
      BY <2>1 DEF StillAbove
    <2>2. CASE k \notin overridden
      BY <2>2 DEF BInv, PausedAtHigh, Calm
    <2> QED
      BY <2>1, <2>2
  <1>5. \A k \in Consumers : Good(consumers[k], nextEntry)'
    BY <1>1 DEF AllGood
  <1> QED
    BY <1>2, <1>3, <1>4, <1>5 DEF BInv

\* One consumer is changed.
LEMMA OneStep ==
    ASSUME BInv, nextEntry' = nextEntry, StillAbove \subseteq overridden', overridden' \subseteq Consumers,
           NEW k \in Consumers, NEW s, Follows(consumers[k], s, nextEntry),
           consumers' = [consumers EXCEPT ![k] = s],
           k \in overridden' \/ (Calm(consumers[k]) => Calm(s))
    PROVE  BInv' /\ \A j \in Consumers : Follows(consumers[j], consumers'[j], nextEntry)
  <1>1. consumers \in [Consumers -> Records] /\ s \in Records
    BY DEF BInv, TypeOK, Follows, Good
  <1>2. /\ consumers' \in [Consumers -> Records] /\ consumers'[k] = s
        /\ \A j \in Consumers \ {k} : consumers'[j] = consumers[j]
    BY <1>1
  <1>3. \A j \in Consumers : Follows(consumers[j], consumers'[j], nextEntry)
    BY <1>2, SameFollows DEF BInv
  <1>4. \A j \in Consumers \ (overridden \cup overridden') : Calm(consumers[j]) => Calm(consumers'[j])
    BY <1>2
  <1> QED
    BY <1>2, <1>3, <1>4, QuietStep

\* What a step other than an admission does.
Quiet == BInv' /\ \A k \in Consumers : Follows(consumers[k], consumers'[k], nextEntry)

LEMMA RecordOf == ASSUME BInv, NEW k \in Consumers
                  PROVE  consumers[k] \in Records /\ Good(consumers[k], nextEntry)
  BY DEF BInv, TypeOK

LEMMA NoConsumerRecord == NoConsumer \in Records /\ NoConsumer.queue = <<>> /\ NoConsumer.inFlight = {}
  BY DEF Records, NoConsumer, States, OverflowPolicies, TimeoutActions

LEMMA RegisterStep ==
    ASSUME BInv, NEW k \in Consumers, NEW reg \in Registrations[k], Register(k, reg)
    PROVE  Quiet
  <1> DEFINE s == [NoConsumer EXCEPT !.state = "ACTIVE", !.overflow = reg.overflow, !.timeout = reg.timeout]
  <1>1. reg \in [overflow : OverflowPolicies, timeout : TimeoutActions]
    BY BackpressureAssumption
  <1>2. s \in Records /\ s.queue = <<>> /\ s.inFlight = {}
    <2>1. reg.overflow \in OverflowPolicies /\ reg.timeout \in TimeoutActions /\ "ACTIVE" \in States
      BY <1>1 DEF States
    <2> QED
      BY <2>1, NoConsumerRecord DEF Records
  <1>3. consumers' = [consumers EXCEPT ![k] = s]
    BY DEF Register
  <1> HIDE DEF s
  <1>4. Follows(consumers[k], s, nextEntry) /\ Pending(s) = 0
    BY <1>2, RecordOf, EmptyFollows
  <1>5. Calm(s)
    BY <1>4, BackpressureAssumption DEF Calm
  <1> QED
    BY <1>3, <1>4, <1>5, OneStep DEF Quiet, Register, StillAbove, BInv, TypeOK

LEMMA UnregisterStep ==
    ASSUME BInv, NEW k \in Consumers, NEW force \in BOOLEAN, Unregister(k, force)
    PROVE  Quiet
  <1>2. Follows(consumers[k], NoConsumer, nextEntry) /\ Pending(NoConsumer) = 0
    BY NoConsumerRecord, RecordOf, EmptyFollows
  <1>3. Calm(NoConsumer)
    BY <1>2, BackpressureAssumption DEF Calm
  <1> QED
    BY <1>2, <1>3, OneStep DEF Quiet, Unregister, StillAbove, BInv, TypeOK

\* An operation that looks at the watermarks in the end.
LEMMA ReconciledStep ==
    ASSUME BInv, nextEntry' = nextEntry, overridden' = StillAbove,
           NEW k \in Consumers, NEW s, Follows(consumers[k], s, nextEntry),
           consumers' = [consumers EXCEPT ![k] = Reconciled(s)]
    PROVE  Quiet
  <1>1. Follows(consumers[k], Reconciled(s), nextEntry) /\ Calm(Reconciled(s))
    BY ReconciledFollows
  <1> QED
    BY <1>1, OneStep DEF Quiet, StillAbove, BInv, TypeOK

LEMMA DrainStep ==
    ASSUME BInv, NEW k \in Consumers, NEW n \in 1..MaxPending, Drain(k, n)
    PROVE  Quiet
  <1> DEFINE s == [consumers[k] EXCEPT !.queue = SubSeq(@, n + 1, Len(@)),
                                       !.inFlight = @ \cup FirstOf(consumers[k].queue, n)]
  <1>1. Follows(consumers[k], s, nextEntry)
    <2>1. n \in Nat
      BY BackpressureAssumption
    <2> QED
      BY <2>1, RecordOf, DrainFollows
  <1>2. consumers' = [consumers EXCEPT ![k] = Reconciled(s)]
    BY DEF Drain, Drained, FirstOf
  <1> HIDE DEF s
  <1> QED
    BY <1>1, <1>2, ReconciledStep DEF Drain

LEMMA AcknowledgeStep ==
    ASSUME BInv, NEW k \in Consumers, NEW x \in consumers[k].inFlight, Acknowledge(k, x)
    PROVE  Quiet
  <1> DEFINE s == [consumers[k] EXCEPT !.inFlight = @ \ {x}]
  <1>1. Follows(consumers[k], s, nextEntry)
    BY RecordOf, LessFollows
  <1>2. consumers' = [consumers EXCEPT ![k] = Reconciled(s)]
    BY DEF Acknowledge, Acknowledged
  <1> HIDE DEF s
  <1> QED
    BY <1>1, <1>2, ReconciledStep DEF Acknowledge

LEMMA FailStep ==
    ASSUME BInv, NEW k \in Consumers, NEW x \in consumers[k].inFlight, NEW retry \in BOOLEAN,
           Fail(k, x, retry)
    PROVE  Quiet
  <1> DEFINE r == consumers[k]
             st == IF r.state = "ACTIVE" THEN "DEGRADED" ELSE r.state
             y == [x EXCEPT !.age = 0, !.retried = TRUE]
             q == IF retry THEN <<y>> \o r.queue ELSE r.queue
             s == [r EXCEPT !.inFlight = @ \ {x}, !.queue = q, !.state = st]
  <1>1. consumers' = [consumers EXCEPT ![k] = Reconciled(s)]
    BY DEF Fail, Failed
  <1>2. r \in Records /\ Good(r, nextEntry) /\ st \in States
    BY RecordOf, RecordParts DEF States
  <1>3. y \in Entries /\ y.retried
    <2>1. x \in Entries /\ AckTimeout \in Nat
      BY <1>2, RecordParts, BackpressureAssumption
    <2>2. 0 \in 0..AckTimeout /\ TRUE \in BOOLEAN
      BY <2>1
    <2> QED
      BY <2>1, <2>2 DEF Entries
  <1> HIDE DEF y, st
  <1>4. CASE retry
    <2>1. s = [r EXCEPT !.inFlight = @ \ {x}, !.queue = <<y>> \o @, !.state = st]
      BY <1>4
    <2>2. Follows(r, s, nextEntry)
      <3> HIDE DEF s, r
      <3>1. x \in r.inFlight
        BY DEF r
      <3> QED
        BY <1>2, <1>3, <2>1, <3>1, RetryFollows
    <2> HIDE DEF s
    <2> QED
      BY <1>1, <2>2, ReconciledStep DEF Fail
  <1>5. CASE ~retry
    <2>1. s = [r EXCEPT !.inFlight = @ \ {x}, !.state = st]
      BY <1>2, <1>5 DEF Records
    <2>2. Follows(r, s, nextEntry)
      <3> HIDE DEF s, r
      <3> QED
        BY <1>2, <2>1, LessAndStateFollows
    <2> HIDE DEF s
    <2> QED
      BY <1>1, <2>2, ReconciledStep DEF Fail
  <1> QED
    BY <1>4, <1>5

LEMMA PauseStep ==
    ASSUME BInv, NEW k \in Consumers, Pause(k)
    PROVE  Quiet
  <1> DEFINE s == [consumers[k] EXCEPT !.state = "PAUSED"]
  <1>1. Follows(consumers[k], s, nextEntry) /\ s.state = "PAUSED"
    BY RecordOf, StateFollows DEF States
  <1>2. consumers' = [consumers EXCEPT ![k] = s]
    BY DEF Pause
  <1> HIDE DEF s
  <1> QED
    BY <1>1, <1>2, OneStep DEF Quiet, Pause, StillAbove, BInv, TypeOK, Calm

LEMMA ResumeStep ==
    ASSUME BInv, NEW k \in Consumers, NEW force \in BOOLEAN, Resume(k, force)
    PROVE  Quiet
  <1> DEFINE s == [consumers[k] EXCEPT !.state = "ACTIVE"]
  <1>1. Follows(consumers[k], s, nextEntry) /\ Pending(s) = Pending(consumers[k])
    BY RecordOf, StateFollows DEF States
  <1>2. consumers' = [consumers EXCEPT ![k] = s]
    BY DEF Resume
  <1> HIDE DEF s
  <1>3. StillAbove \subseteq overridden' /\ overridden' \subseteq Consumers
    BY DEF Resume, StillAbove, BInv, TypeOK
  <1>4. k \in overridden' \/ Calm(s)
    BY <1>1 DEF Resume, Calm
  <1> QED
    BY <1>1, <1>2, <1>3, <1>4, OneStep DEF Quiet, Resume

LEMMA ResetStep ==
    ASSUME BInv, NEW k \in Consumers, NEW clear \in BOOLEAN, Reset(k, clear)
    PROVE  Quiet
  <1> DEFINE r == consumers[k]
             q == IF clear THEN <<>> ELSE r.queue
             f == IF clear THEN {} ELSE r.inFlight
             s == [r EXCEPT !.state = "ACTIVE", !.queue = q, !.inFlight = f]
  <1>1. r \in Records /\ Good(r, nextEntry)
    BY RecordOf
  <1>2. consumers' = [consumers EXCEPT ![k] = s]
    BY <1>1 DEF Reset, BInv, TypeOK
  <1>3. Follows(r, s, nextEntry)
    <2>1. CASE clear
      <3>1. s \in Records /\ s.queue = <<>> /\ s.inFlight = {}
        <4>1. <<>> \in Seq(Entries) /\ {} \in SUBSET Entries /\ "ACTIVE" \in States
          BY EmptySeq DEF States
        <4>2. s = [r EXCEPT !.state = "ACTIVE", !.queue = <<>>, !.inFlight = {}]
          BY <2>1
        <4> HIDE DEF s, r
        <4> QED
          BY <1>1, <4>1, <4>2 DEF Records
      <3> HIDE DEF s, r
      <3> QED
        BY <1>1, <3>1, EmptyFollows
    <2>2. CASE ~clear
      <3>1. s = [r EXCEPT !.state = "ACTIVE"]
        BY <1>1, <2>2 DEF Records
      <3> HIDE DEF s, r
      <3> QED
        BY <1>1, <3>1, StateFollows DEF States
    <2> QED
      BY <2>1, <2>2
  <1> HIDE DEF s
  <1>4. StillAbove \subseteq overridden' /\ overridden' \subseteq Consumers
    BY DEF Reset, StillAbove, BInv, TypeOK
  <1>5. consumers'[k] = s
    BY <1>2 DEF BInv, TypeOK
  <1>6. k \in overridden' \/ Calm(s)
    BY <1>5 DEF Reset, Calm
  <1> QED
    BY <1>2, <1>3, <1>4, <1>6, OneStep DEF Quiet, Reset

LEMMA TickStep ==
    ASSUME BInv, Tick
    PROVE  Quiet
  <1>1. \A k \in Consumers : Good(consumers[k], nextEntry) /\ consumers[k] \in Records
    BY RecordOf
  <1>2. ASSUME NEW k \in Consumers
        PROVE  Follows(consumers[k], consumers'[k], nextEntry) /\ (Calm(consumers[k]) => Calm(consumers'[k]))
    <2>1. CASE Registered(consumers, k)
      <3>1. consumers'[k] = Reconciled(AfterTimeouts(consumers[k]))
        BY <2>1 DEF Tick, Ticked
      <3> QED
        BY <1>1, <3>1, TimeoutsFollow, ReconciledFollows
    <2>2. CASE ~Registered(consumers, k)
      BY <1>1, <2>2, SameFollows DEF Tick, Ticked
    <2> QED
      BY <2>1, <2>2
  <1>3. consumers' \in [Consumers -> Records]
    <2>1. consumers' = [k \in Consumers |-> consumers'[k]]
      BY DEF Tick, Ticked
    <2>2. \A k \in Consumers : consumers'[k] \in Records
      BY <1>2 DEF Follows, Good
    <2> QED
      BY <2>1, <2>2
  <1>4. /\ nextEntry' = nextEntry /\ StillAbove \subseteq overridden' /\ overridden' \subseteq Consumers
    BY DEF Tick, StillAbove, BInv, TypeOK
  <1> QED
    BY <1>2, <1>3, <1>4, QuietStep DEF Quiet

LEMMA TimePassesStep ==
    ASSUME BInv, TimePasses
    PROVE  Quiet
  <1>1. \A k \in Consumers : Good(consumers[k], nextEntry)
    BY RecordOf
  <1>2. ASSUME NEW k \in Consumers
        PROVE  /\ Follows(consumers[k], consumers'[k], nextEntry)
               /\ consumers'[k].state = consumers[k].state
    <2>1. consumers'[k] = [consumers[k] EXCEPT !.inFlight = {Older(x) : x \in @}]
      BY DEF TimePasses, Aged
    <2> QED
      BY <1>1, <2>1, OlderFollows
  <1>3. consumers' \in [Consumers -> Records]
    <2>1. consumers' = [k \in Consumers |-> consumers'[k]]
      BY DEF TimePasses, Aged
    <2>2. \A k \in Consumers : consumers'[k] \in Records
      BY <1>2 DEF Follows, Good
    <2> QED
      BY <2>1, <2>2
  <1>4. ASSUME NEW k \in Consumers, Calm(consumers[k])
        PROVE  Calm(consumers'[k])
    <2>1. Pending(consumers'[k]) \in Nat /\ Pending(consumers[k]) \in Nat
      BY <1>1, <1>2, PendingType DEF Follows, Good
    <2> QED
      BY <1>2, <1>4, <2>1, BackpressureAssumption DEF Calm, Follows
  <1>5. nextEntry' = nextEntry /\ StillAbove \subseteq overridden' /\ overridden' \subseteq Consumers
    BY DEF TimePasses, StillAbove, BInv, TypeOK
  <1> QED
    BY <1>2, <1>3, <1>4, <1>5, QuietStep DEF Quiet

-----------------------------------------------------------------------------
(* An admission, and the theorems.                                         *)

\* What an admission does beside the invariant.
Admits(k) ==
    /\ \A j \in Consumers : consumers'[j].inFlight = consumers[j].inFlight
    /\ \A j \in Consumers \ {k} : Pending(consumers'[j]) <= Pending(consumers[j])
    /\ Pending(consumers'[k]) <= Pending(consumers[k]) + 1
    /\ Pending(consumers'[k]) > Pending(consumers[k]) =>
          /\ GlobalPending(consumers) >= MaxGlobal \/ Pending(consumers[k]) < MaxPending
          /\ consumers[k].state \in {"ACTIVE", "DEGRADED"}

LEMMA AcceptedStep ==
    ASSUME BInv, NEW k \in Consumers, NEW e \in Events, Admit(k, e), Admission(consumers, k) = "ACCEPTED"
    PROVE  BInv' /\ Admits(k)
  <1>1. /\ nextEntry \in 1..MaxEntries /\ nextEntry' = nextEntry + 1
        /\ consumers' = Admitted(consumers, k, e, nextEntry)
        /\ overridden' = StillAbove /\ Registered(consumers, k)
    BY BackpressureAssumption DEF Admit, BInv, TypeOK
  <1>2. AllGood(consumers, nextEntry) /\ GlobalPending(consumers) <= MaxGlobal
    BY DEF BInv, TypeOK, AllGood, GlobalBound
  <1>3. /\ AllGood(consumers', nextEntry + 1) /\ GlobalPending(consumers') <= MaxGlobal /\ Calm(consumers'[k])
        /\ \A j \in Consumers \ {k} :
              consumers'[j].state = consumers[j].state /\ Pending(consumers'[j]) <= Pending(consumers[j])
        /\ \A j \in Consumers : consumers'[j].inFlight = consumers[j].inFlight
        /\ Pending(consumers'[k]) <= Pending(consumers[k]) + 1
        /\ Pending(consumers'[k]) > Pending(consumers[k]) =>
              GlobalPending(consumers) >= MaxGlobal \/ Pending(consumers[k]) < MaxPending
    BY <1>1, <1>2, AcceptedKeepsBounds
  <1>4. TypeOK'
    <2>1. nextEntry + 1 \in 1..MaxEntries + 1
      BY <1>1, BackpressureAssumption
    <2> QED
      BY <1>1, <1>3, <2>1 DEF BInv, TypeOK, AllGood, StillAbove
  <1>5. PausedAtHigh'
    <2> SUFFICES ASSUME NEW j \in Consumers, j \notin overridden', Pending(consumers'[j]) >= HighWatermark
                 PROVE  consumers'[j].state \in {"PAUSED", "FAILED"}
      BY DEF PausedAtHigh
    <2>1. CASE j = k
      BY <1>3, <2>1 DEF Calm
    <2>2. CASE j \in overridden
      BY <1>1, <2>2 DEF StillAbove
    <2>3. CASE j # k /\ j \notin overridden
      <3>1. Pending(consumers[j]) \in Nat /\ Pending(consumers'[j]) \in Nat
        BY <1>2, <1>3, GoodPending
      <3>2. Pending(consumers[j]) >= HighWatermark
        BY <1>3, <2>3, <3>1, BackpressureAssumption
      <3> QED
        BY <1>3, <2>3, <3>2 DEF BInv, PausedAtHigh
    <2> QED
      BY <2>1, <2>2, <2>3
  <1>6. BInv'
    BY <1>1, <1>3, <1>4, <1>5 DEF BInv, GlobalBound, AllGood
  <1>7. consumers[k].state \in {"ACTIVE", "DEGRADED"}
    <2>1. consumers[k].state \in States \ {"ABSENT"}
      BY <1>1, RecordOf, RecordParts DEF Registered
    <2> QED
      BY <2>1 DEF Admission, States
  <1> QED
    BY <1>3, <1>6, <1>7 DEF Admits

LEMMA AdmitStep ==
    ASSUME BInv, NEW k \in Consumers, NEW e \in Events, Admit(k, e)
    PROVE  BInv' /\ Admits(k)
  <1> DEFINE r == consumers[k]
  <1>1. \A j \in Consumers : Good(consumers[j], nextEntry) /\ consumers[j] \in Records
                             /\ Pending(consumers[j]) \in Nat
    BY RecordOf, PendingType DEF Good
  <1>2. CASE Admission(consumers, k) = "ACCEPTED"
    BY <1>2, AcceptedStep
  <1>3. CASE Admission(consumers, k) \in {"CONSUMER_PAUSED", "CONSUMER_FAILED"}
    <2> DEFINE st == IF Admission(consumers, k) = "CONSUMER_PAUSED" THEN "PAUSED" ELSE "FAILED"
               s == [r EXCEPT !.state = st]
    <2>1. consumers' = [consumers EXCEPT ![k] = s]
      BY <1>3 DEF Admit, Admitted
    <2>2. st \in States /\ st \in {"PAUSED", "FAILED"}
      BY DEF States
    <2> HIDE DEF st
    <2>3. Follows(r, s, nextEntry) /\ s.state = st /\ Pending(s) = Pending(r)
      BY <1>1, <2>2, StateFollows
    <2>4. s.inFlight = r.inFlight
      BY <1>1 DEF Records
    <2> HIDE DEF s
    <2>5. nextEntry' = nextEntry /\ overridden' = StillAbove /\ StillAbove \subseteq Consumers
      BY <1>3 DEF Admit, StillAbove, BInv, TypeOK
    <2>6. Calm(s)
      BY <2>2, <2>3 DEF Calm
    <2>7. BInv'
      BY <2>1, <2>3, <2>5, <2>6, OneStep
    <2>8. consumers'[k] = s /\ \A j \in Consumers \ {k} : consumers'[j] = consumers[j]
      BY <2>1 DEF BInv, TypeOK
    <2>9. Admits(k)
      BY <1>1, <2>3, <2>4, <2>8 DEF Admits
    <2> QED
      BY <2>7, <2>9
  <1>4. CASE Admission(consumers, k) \notin {"ACCEPTED", "CONSUMER_PAUSED", "CONSUMER_FAILED"}
    <2>1. consumers' = consumers /\ nextEntry' = nextEntry /\ overridden' = StillAbove
      BY <1>4 DEF Admit, Admitted
    <2>2. \A j \in Consumers : Follows(consumers[j], consumers'[j], nextEntry)
      BY <1>1, <2>1, SameFollows
    <2>3. BInv'
      BY <2>1, <2>2, QuietStep DEF BInv, TypeOK, StillAbove
    <2> QED
      BY <1>1, <2>1, <2>3 DEF Admits
  <1> QED
    BY <1>2, <1>3, <1>4

LEMMA Initial == Init => BInv
  <1> SUFFICES ASSUME Init PROVE BInv
    OBVIOUS
  <1>1. \A k \in Consumers : consumers[k] = NoConsumer
    BY DEF Init
  <1>2. Good(NoConsumer, nextEntry) /\ Pending(NoConsumer) = 0
    <2>1. IsFiniteSet({}) /\ Cardinality({}) = 0
      BY FS_EmptySet
    <2>2. Len(<<>>) = 0 /\ DOMAIN <<>> = {}
      OBVIOUS
    <2> QED
      BY <2>1, <2>2, NoConsumerRecord DEF Good, Sorted, Known, Pending
  <1>3. TypeOK
    BY NoConsumerRecord, BackpressureAssumption DEF Init, TypeOK
  <1>4. AllGood(consumers, nextEntry)
    BY <1>1, <1>2, <1>3 DEF AllGood, TypeOK
  <1>5. GlobalBound
    <2>1. \A k \in Consumers : PendingOf(consumers)[k] = 0
      BY <1>1, <1>2 DEF PendingOf
    <2>2. IsFiniteSet(Consumers)
      BY BackpressureAssumption
    <2>3. SumOver(PendingOf(consumers), Consumers) = 0
      BY <2>1, <2>2, SumZero
    <2> QED
      BY <2>3, GlobalIsSum, BackpressureAssumption DEF GlobalBound
  <1>6. PausedAtHigh
    BY <1>1, <1>2, BackpressureAssumption DEF PausedAtHigh
  <1> QED
    BY <1>3, <1>4, <1>5, <1>6 DEF BInv, AllGood

\* Every step admits or is quiet.
LEMMA StepKinds ==
    ASSUME BInv, [Next]_vars
    PROVE  BInv' /\ (Quiet \/ \E k \in Consumers : Admits(k))
  <1>1. ASSUME NEW k \in Consumers, NEW e \in Events, Admit(k, e)
        PROVE  BInv' /\ Admits(k)
    BY <1>1, AdmitStep
  <1>2. ASSUME NEW k \in Consumers, NEW reg \in Registrations[k], Register(k, reg)
        PROVE  Quiet
    BY <1>2, RegisterStep
  <1>3. ASSUME NEW k \in Consumers, NEW n \in 1..MaxPending, Drain(k, n)
        PROVE  Quiet
    BY <1>3, DrainStep
  <1>4. ASSUME NEW k \in Consumers, NEW x \in consumers[k].inFlight, Acknowledge(k, x)
        PROVE  Quiet
    BY <1>4, AcknowledgeStep
  <1>5. ASSUME NEW k \in Consumers, NEW x \in consumers[k].inFlight, NEW retry \in BOOLEAN, Fail(k, x, retry)
        PROVE  Quiet
    BY <1>5, FailStep
  <1>6. ASSUME NEW k \in Consumers, Pause(k)
        PROVE  Quiet
    BY <1>6, PauseStep
  <1>7. ASSUME NEW k \in Consumers, NEW force \in BOOLEAN, Unregister(k, force) \/ Resume(k, force)
        PROVE  Quiet
    BY <1>7, UnregisterStep, ResumeStep
  <1>8. ASSUME NEW k \in Consumers, NEW clear \in BOOLEAN, Reset(k, clear)
        PROVE  Quiet
    BY <1>8, ResetStep
  <1>9. CASE Tick
    BY <1>9, TickStep DEF Quiet
  <1>10. CASE TimePasses
    BY <1>10, TimePassesStep DEF Quiet
  <1>11. CASE UNCHANGED vars
    <2>1. \A k \in Consumers : Follows(consumers[k], consumers'[k], nextEntry)
      BY <1>11, RecordOf, SameFollows DEF vars
    <2> QED
      BY <1>11, <2>1, QuietStep DEF vars, Quiet, BInv, TypeOK, StillAbove
  <1> QED
    BY <1>1, <1>2, <1>3, <1>4, <1>5, <1>6, <1>7, <1>8, <1>9, <1>10, <1>11 DEF Next, Quiet

LEMMA BInvAlways == Spec => []BInv
  BY Initial, StepKinds, PTL DEF Spec

\* The records of the consumers keep their type, whatever clients do.
THEOREM TypeCorrect == Spec => []TypeOK
  <1>1. BInv => TypeOK
    BY DEF BInv
  <1> QED
    BY <1>1, BInvAlways, PTL

\* For any number of consumers, their pending events together stay within the
\* global limit: admit makes room before it queues.
THEOREM PendingIsBounded == Spec => []GlobalBound
  <1>1. BInv => GlobalBound
    BY DEF BInv
  <1> QED
    BY <1>1, BInvAlways, PTL

\* A consumer at or above its high watermark takes no events, unless a resume or
\* reset by hand has overruled the watermark.
THEOREM WatermarkPauses == Spec => []PausedAtHigh
  <1>1. BInv => PausedAtHigh
    BY DEF BInv
  <1> QED
    BY <1>1, BInvAlways, PTL

\* A consumer outgrows its own limit only when the watermark was overruled by
\* hand and the controller is full, so that the eviction was another consumer's.
THEOREM OwnLimitKept == Spec => CapacityKept
  <1> DEFINE Kept == \A k \in Consumers :
                Pending(consumers'[k]) > MaxPending /\ Pending(consumers'[k]) > Pending(consumers[k]) =>
                    k \in overridden /\ GlobalPending(consumers) >= MaxGlobal
  <1>1. ASSUME BInv, [Next]_vars
        PROVE  Kept
    <2> SUFFICES ASSUME NEW k \in Consumers,
                        Pending(consumers'[k]) > MaxPending, Pending(consumers'[k]) > Pending(consumers[k])
                 PROVE  k \in overridden /\ GlobalPending(consumers) >= MaxGlobal
      OBVIOUS
    <2>1. BInv' /\ (Quiet \/ \E j \in Consumers : Admits(j))
      BY <1>1, StepKinds
    <2>2. Pending(consumers[k]) \in Nat /\ Pending(consumers'[k]) \in Nat
      BY <1>1, <2>1, PendingType DEF BInv, Good
    <2>3. ~Quiet
      BY <2>2 DEF Quiet, Follows
    <2>4. PICK j \in Consumers : Admits(j)
      BY <2>1, <2>3
    <2>5. j = k
      BY <2>2, <2>4 DEF Admits
    <2>6. Pending(consumers[k]) >= MaxPending /\ Pending(consumers[k]) >= HighWatermark
      BY <2>2, <2>4, <2>5, BackpressureAssumption DEF Admits
    <2>7. GlobalPending(consumers) >= MaxGlobal /\ consumers[k].state \in {"ACTIVE", "DEGRADED"}
      BY <2>2, <2>4, <2>5, <2>6, BackpressureAssumption DEF Admits
    <2> QED
      BY <1>1, <2>6, <2>7 DEF BInv, PausedAtHigh
  <1>2. BInv /\ [Next]_vars => [Kept]_vars
    BY <1>1
  <1> QED
    BY <1>2, BInvAlways, PTL DEF Spec, CapacityKept

\* An event is dispatched for the first time only when every older event of its
\* consumer has left the queue.
THEOREM DispatchKeepsOrder == Spec => DispatchInOrder
  <1> DEFINE Ordered == \A k \in Consumers : \A x \in consumers'[k].inFlight \ consumers[k].inFlight :
                ~x.retried /\ x.age = 0 =>
                    \A i \in DOMAIN consumers'[k].queue : consumers'[k].queue[i].id > x.id
  <1>1. ASSUME BInv, [Next]_vars
        PROVE  Ordered
    <2>1. Quiet \/ \E j \in Consumers : Admits(j)
      BY <1>1, StepKinds
    <2>2. CASE Quiet
      BY <2>2 DEF Quiet, Follows, Dispatches
    <2>3. CASE \E j \in Consumers : Admits(j)
      BY <2>3 DEF Admits
    <2> QED
      BY <2>1, <2>2, <2>3
  <1>2. BInv /\ [Next]_vars => [Ordered]_vars
    BY <1>1
  <1> QED
    BY <1>2, BInvAlways, PTL DEF Spec, DispatchInOrder
=============================================================================
