----------------------- MODULE StreamingPipeline_proofs -----------------------
(***************************************************************************)
(* Proofs about the streaming pipeline, for any events, sequences,         *)
(* timestamps, callers, policies and limits: what the buffer takes in is   *)
(* delivered, waits or is accounted for; a sequenced event is given to the *)
(* listeners once, and in the order of the sequences while operations do   *)
(* not overlap; the consumer's capacity comes back.                        *)
(*                                                                         *)
(* The inductive invariant is SInv. It says of the buffer that it holds no *)
(* sequence twice and nothing from before what it has released; of what is *)
(* left to the calls and to the tick that it is ascending and shared by no *)
(* two of them; and of what is in flight that a call waits for it.         *)
(***************************************************************************)
EXTENDS StreamingPipeline, CollectionLemmas

-----------------------------------------------------------------------------
(* The orders of the buffer                                                *)

\* No two events of S have the same sequence.
Distinct(S) == \A e, f \in S : SeqNo[e] # 0 /\ SeqNo[e] = SeqNo[f] => e = f

\* Sequenced events come in the order of their sequences.
Ascending(s) ==
    \A i, j \in DOMAIN s :
        i < j /\ SeqNo[s[i]] # 0 /\ SeqNo[s[j]] # 0 => SeqNo[s[i]] < SeqNo[s[j]]

\* What the assumption says of each event and of sets of them.
LEMMA EventFacts ==
    /\ IsFiniteSet(Events)
    /\ \A e \in Events : e \in Nat /\ e # 0 /\ SeqNo[e] \in Nat /\ Stamp[e] \in Nat
    /\ \A S \in SUBSET Events : IsFiniteSet(S) /\ Cardinality(S) \in Nat /\ Cardinality(S) <= Cardinality(Events)
<1>1. IsFiniteSet(Events) /\ \A e \in Events : e \in Nat /\ e # 0 /\ SeqNo[e] \in Nat /\ Stamp[e] \in Nat
  BY StreamingAssumption
<1>2. \A S \in SUBSET Events : IsFiniteSet(S) /\ Cardinality(S) \in Nat /\ Cardinality(S) <= Cardinality(Events)
  BY <1>1, FS_Subset, FS_CardinalityType
<1> QED
  BY <1>1, <1>2

\* The buffer's instance of a library operator is that operator.
LEMMA SameCardinality == ASSUME NEW S PROVE O!Cardinality(S) = Cardinality(S)
  BY Zenon DEF O!Cardinality, Cardinality

\* The events of S in the order of their sequences.
LEMMA BySequenceArranges ==
    ASSUME NEW S \in SUBSET Events, Distinct(S), \A e \in S : SeqNo[e] # 0
    PROVE  Arranges(O!BySequence(S), S) /\ Ascending(O!BySequence(S))
<1> DEFINE R == {p \in S \X S : SeqNo[p[1]] < SeqNo[p[2]]}
           n == Cardinality(S)
           Fits(s) == \A i, j \in DOMAIN s : i < j => SeqNo[s[i]] < SeqNo[s[j]]
<1>1. IsFiniteSet(S) /\ \A e \in S : SeqNo[e] \in Nat
  BY EventFacts
<1>2. \A x, y \in S : <<x, y>> \in R <=> SeqNo[x] < SeqNo[y]
  OBVIOUS
<1>3. StrictlyOrders(R, S)
  <2>1. \A x, y \in S : x # y => SeqNo[x] # SeqNo[y]
    BY DEF Distinct
  <2> HIDE DEF R
  <2> QED
    BY <1>1, <1>2, <2>1 DEF StrictlyOrders
<1> HIDE DEF R
<1>4. \E s \in [1..n -> S] : Fits(s)
  <2>1. PICK s \in [1..n -> S] : \A i, j \in 1..n : i < j => <<s[i], s[j]>> \in R
    BY <1>1, <1>3, ArrangementExists
  <2>2. Fits(s)
    BY <1>2, <2>1
  <2> QED
    BY <2>2
<1> DEFINE s == CHOOSE s \in [1..n -> S] : Fits(s)
<1>5. s \in [1..n -> S] /\ Fits(s)
  <2> HIDE DEF n, Fits
  <2> QED
    BY <1>4
<1>6. O!BySequence(S) = s
  BY SameCardinality DEF O!BySequence, O!Sorted
<1> HIDE DEF s
<1>7. Arranges(s, S)
  <2>1. \A i, j \in 1..n : i < j => <<s[i], s[j]>> \in R
    BY <1>2, <1>5
  <2> HIDE DEF Fits
  <2> QED
    BY <1>1, <1>3, <1>5, <2>1, OrderedArranges
<1>8. Ascending(s)
  BY <1>5 DEF Ascending
<1> QED
  BY <1>6, <1>7, <1>8

\* The events of S in the order of their timestamps, ids breaking ties.
LEMMA ByTimestampArranges ==
    ASSUME NEW S \in SUBSET Events
    PROVE  Arranges(O!ByTimestamp(S), S)
<1> DEFINE R == {p \in S \X S : O!Earlier(p[1], p[2])}
           n == Cardinality(S)
           Fits(s) == \A i, j \in DOMAIN s : i < j => O!Earlier(s[i], s[j])
<1>1. IsFiniteSet(S) /\ \A e \in S : e \in Nat /\ Stamp[e] \in Nat
  BY EventFacts
<1>2. \A x, y \in S : <<x, y>> \in R <=> O!Earlier(x, y)
  OBVIOUS
<1>3. StrictlyOrders(R, S)
  <2> HIDE DEF R
  <2> QED
    BY <1>1, <1>2 DEF StrictlyOrders, O!Earlier
<1> HIDE DEF R
<1>4. \E s \in [1..n -> S] : Fits(s)
  <2>1. PICK s \in [1..n -> S] : \A i, j \in 1..n : i < j => <<s[i], s[j]>> \in R
    BY <1>1, <1>3, ArrangementExists
  <2>2. Fits(s)
    BY <1>2, <2>1
  <2> QED
    BY <2>2
<1> DEFINE s == CHOOSE s \in [1..n -> S] : Fits(s)
<1>5. s \in [1..n -> S] /\ Fits(s)
  <2> HIDE DEF n, Fits
  <2> QED
    BY <1>4
<1>6. O!ByTimestamp(S) = s
  BY SameCardinality DEF O!ByTimestamp, O!Sorted
<1> HIDE DEF s
<1>7. \A i, j \in 1..n : i < j => <<s[i], s[j]>> \in R
  BY <1>2, <1>5
<1> HIDE DEF Fits
<1> QED
  BY <1>1, <1>3, <1>5, <1>6, <1>7, OrderedArranges

\* The order of ages is one: ids break ties.
LEMMA OlderOrders ==
    ASSUME NEW S \in SUBSET Events, NEW ages, \A e \in S : ages[e] \in Nat
    PROVE  StrictlyOrders({p \in S \X S : O!Older(ages, p[1], p[2])}, S)
<1> DEFINE R == {p \in S \X S : O!Older(ages, p[1], p[2])}
<1>1. \A e \in S : e \in Nat
  BY EventFacts
<1>2. \A x, y \in S : <<x, y>> \in R <=> O!Older(ages, x, y)
  OBVIOUS
<1> HIDE DEF R
<1>3. StrictlyOrders(R, S)
  BY <1>1, <1>2 DEF StrictlyOrders, O!Older
<1> QED
  BY <1>3 DEF R

\* The events of S from the oldest on.
LEMMA ByAgeArranges ==
    ASSUME NEW S \in SUBSET Events, NEW ages, \A e \in S : ages[e] \in Nat
    PROVE  Arranges(O!ByAge(ages, S), S)
<1> DEFINE R == {p \in S \X S : O!Older(ages, p[1], p[2])}
           n == Cardinality(S)
           Fits(s) == \A i, j \in DOMAIN s : i < j => O!Older(ages, s[i], s[j])
<1>1. IsFiniteSet(S)
  BY EventFacts
<1>2. \A x, y \in S : <<x, y>> \in R <=> O!Older(ages, x, y)
  OBVIOUS
<1>3. StrictlyOrders(R, S)
  BY OlderOrders
<1> HIDE DEF R
<1>4. \E s \in [1..n -> S] : Fits(s)
  <2>1. PICK s \in [1..n -> S] : \A i, j \in 1..n : i < j => <<s[i], s[j]>> \in R
    BY <1>1, <1>3, ArrangementExists
  <2>2. Fits(s)
    BY <1>2, <2>1
  <2> QED
    BY <2>2
<1> DEFINE s == CHOOSE s \in [1..n -> S] : Fits(s)
<1>5. s \in [1..n -> S] /\ Fits(s)
  <2> HIDE DEF n, Fits
  <2> QED
    BY <1>4
<1>6. O!ByAge(ages, S) = s
  BY SameCardinality DEF O!ByAge, O!Sorted
<1> HIDE DEF s
<1>7. \A i, j \in 1..n : i < j => <<s[i], s[j]>> \in R
  BY <1>2, <1>5
<1> HIDE DEF Fits
<1> QED
  BY <1>1, <1>3, <1>5, <1>6, <1>7, OrderedArranges

\* The oldest event is one of those buffered.
LEMMA OldestIsIn ==
    ASSUME NEW S \in SUBSET Events, S # {}, NEW ages, DOMAIN ages = S, \A e \in S : ages[e] \in Nat
    PROVE  O!Oldest(ages) \in S
<1> DEFINE R == {p \in S \X S : O!Older(ages, p[1], p[2])}
<1>1. StrictlyOrders(R, S)
  BY OlderOrders
<1>2. \A x, y \in S : <<x, y>> \in R <=> O!Older(ages, x, y)
  OBVIOUS
<1> HIDE DEF R
<1>3. PICK x \in S : \A y \in S \ {x} : <<x, y>> \in R
  BY <1>1, EventFacts, FirstExists
<1>4. \A y \in S \ {x} : O!Older(ages, x, y)
  BY <1>2, <1>3
<1> QED
  BY <1>4 DEF O!Oldest

-----------------------------------------------------------------------------
(* Streams                                                                 *)

\* The fields of a stream.
LEMMA StreamParts ==
    ASSUME NEW st \in O!Streams
    PROVE  /\ DOMAIN st.buffered \in SUBSET Events
           /\ st.buffered \in [DOMAIN st.buffered -> O!Ages]
           /\ \A e \in DOMAIN st.buffered : st.buffered[e] \in Nat
           /\ st.known \in BOOLEAN /\ st.next \in Nat /\ st.lastSeq \in Nat /\ st.lastTs \in Nat
           /\ st.lastId \in {0} \cup Events /\ st.changed \in Nat
<1>1. st.buffered \in UNION {[S -> O!Ages] : S \in SUBSET Events}
  BY DEF O!Streams
<1>2. PICK S \in SUBSET Events : st.buffered \in [S -> O!Ages]
  BY <1>1
<1>3. O!Ages \subseteq Nat
  BY StreamingAssumption DEF O!Ages
<1> QED
  BY <1>2, <1>3 DEF O!Streams

\* A stream of which some parts have changed.
LEMMA StreamWith ==
    ASSUME NEW S \in SUBSET Events, NEW ages \in [S -> O!Ages], NEW known \in BOOLEAN,
           NEW next \in Nat, NEW lastSeq \in Nat, NEW lastTs \in Nat,
           NEW lastId \in {0} \cup Events, NEW changed \in Nat
    PROVE  [known |-> known, buffered |-> ages, next |-> next, lastSeq |-> lastSeq, lastTs |-> lastTs,
            lastId |-> lastId, changed |-> changed] \in O!Streams
<1>1. ages \in UNION {[U -> O!Ages] : U \in SUBSET Events}
  OBVIOUS
<1> QED
  BY <1>1 DEF O!Streams

\* The largest position.
LEMMA LastPosition ==
    ASSUME NEW n \in Nat, NEW I, I \subseteq 1..n, I # {}
    PROVE  O!Max(I) \in I /\ \A i \in I : i <= O!Max(I)
<1>1. IsFiniteSet(1..n)
  BY FS_Interval
<1>2. IsFiniteSet(I)
  BY <1>1, FS_Subset
<1>3. PICK x \in I : \A y \in I : x >= y
  <2>1. \A x \in I : x \in Nat
    OBVIOUS
  <2> QED
    BY <1>2, <2>1, LargestExists
<1> QED
  BY <1>3 DEF O!Max

\* What releaseEvent leaves of a stream.
LEMMA ReleasedStream ==
    ASSUME NEW st \in O!Streams, NEW rel \in Seq(Events), NEW r, r = O!Released(st, rel)
    PROVE  /\ r \in O!Streams /\ r.known = st.known /\ r.changed = st.changed
           /\ DOMAIN r.buffered = DOMAIN st.buffered \ ToSet(rel)
           /\ \/ /\ r.next = st.next /\ r.lastSeq = st.lastSeq
                 /\ \A i \in DOMAIN rel : SeqNo[rel[i]] = 0
              \/ /\ r.next = r.lastSeq + 1
                 /\ \E i \in DOMAIN rel :
                       /\ SeqNo[rel[i]] # 0 /\ r.lastSeq = SeqNo[rel[i]]
                       /\ \A j \in DOMAIN rel : SeqNo[rel[j]] # 0 => j <= i
<1> DEFINE D == DOMAIN st.buffered
           sequenced == {i \in DOMAIN rel : SeqNo[rel[i]] # 0}
           last == SeqNo[rel[O!Max(sequenced)]]
           E == D \ ToSet(rel)
           ages == [x \in E |-> st.buffered[x]]
           next == IF sequenced = {} THEN st.next ELSE last + 1
           lastSeq == IF sequenced = {} THEN st.lastSeq ELSE last
<1>1. Len(rel) \in Nat /\ DOMAIN rel = 1..Len(rel) /\ \A i \in DOMAIN rel : rel[i] \in Events
  BY LenProperties
<1>2. O!ToSet(rel) = ToSet(rel)
  BY DEF O!ToSet, ToSet
<1>3. CASE rel = <<>>
  <2>1. ToSet(rel) = {} /\ DOMAIN rel = {}
    BY <1>3 DEF ToSet
  <2>2. r = st
    BY <1>3 DEF O!Released
  <2> QED
    BY <2>1, <2>2, StreamParts
<1>4. CASE rel # <<>>
  <2>1. r = [st EXCEPT !.buffered = ages, !.lastSeq = lastSeq, !.next = next,
                       !.lastTs = Stamp[rel[Len(rel)]], !.lastId = rel[Len(rel)]]
    BY <1>2, <1>4 DEF O!Released, O!Restrict, O!Last
  <2>2. Len(rel) \in DOMAIN rel
    BY <1>1, <1>4
  <2>3. rel[Len(rel)] \in Events /\ Stamp[rel[Len(rel)]] \in Nat
    BY <1>1, <2>2, EventFacts
  <2>4. sequenced # {} =>
           /\ O!Max(sequenced) \in sequenced /\ last \in Nat
           /\ \A j \in sequenced : j <= O!Max(sequenced)
    <3> SUFFICES ASSUME sequenced # {}
                 PROVE  /\ O!Max(sequenced) \in sequenced /\ last \in Nat
                        /\ \A j \in sequenced : j <= O!Max(sequenced)
      OBVIOUS
    <3>1. sequenced \in SUBSET (1..Len(rel))
      BY <1>1
    <3>2. O!Max(sequenced) \in sequenced /\ \A j \in sequenced : j <= O!Max(sequenced)
      <4> HIDE DEF sequenced
      <4> QED
        BY <1>1, <3>1, LastPosition
    <3>3. rel[O!Max(sequenced)] \in Events
      BY <1>1, <3>2
    <3> QED
      BY <3>2, <3>3, EventFacts
  <2>5. next \in Nat /\ lastSeq \in Nat
    BY <2>4, StreamParts
  <2>6. E \in SUBSET Events /\ ages \in [E -> O!Ages] /\ DOMAIN ages = E
    BY StreamParts
  <2>7. r = [known |-> st.known, buffered |-> ages, next |-> next, lastSeq |-> lastSeq,
             lastTs |-> Stamp[rel[Len(rel)]], lastId |-> rel[Len(rel)], changed |-> st.changed]
    <3> HIDE DEF ages, next, lastSeq
    <3> QED
      BY <2>1 DEF O!Streams
  <2>8. r \in O!Streams
    <3>1. st.known \in BOOLEAN /\ st.changed \in Nat /\ rel[Len(rel)] \in {0} \cup Events
      BY <2>3, StreamParts
    <3> HIDE DEF ages, next, lastSeq, E
    <3> QED
      BY <2>3, <2>5, <2>6, <2>7, <3>1, StreamWith
  <2>9. /\ r.known = st.known /\ r.changed = st.changed /\ r.next = next /\ r.lastSeq = lastSeq
        /\ DOMAIN r.buffered = E
    <3> HIDE DEF ages, next, lastSeq, E
    <3> QED
      BY <2>6, <2>7
  <2>10. CASE sequenced = {}
    BY <2>8, <2>9, <2>10
  <2>11. CASE sequenced # {}
    <3> DEFINE m == O!Max(sequenced)
    <3>1. m \in DOMAIN rel /\ SeqNo[rel[m]] # 0 /\ \A j \in DOMAIN rel : SeqNo[rel[j]] # 0 => j <= m
      BY <2>4, <2>11
    <3>2. r.lastSeq = SeqNo[rel[m]] /\ r.next = r.lastSeq + 1
      BY <2>9, <2>11
    <3> QED
      BY <2>8, <2>9, <3>1, <3>2
  <2> QED
    BY <2>10, <2>11
<1> QED
  BY <1>3, <1>4

-----------------------------------------------------------------------------
(* What is released                                                        *)

\* A sequence with no more than one sequenced event is ascending.
LEMMA AscendingAlone ==
    ASSUME NEW S, NEW s, Arranges(s, S),
           \A e, f \in S : SeqNo[e] # 0 /\ SeqNo[f] # 0 => e = f
    PROVE  Ascending(s)
<1> SUFFICES ASSUME NEW i \in DOMAIN s, NEW j \in DOMAIN s, i < j, SeqNo[s[i]] # 0, SeqNo[s[j]] # 0
             PROVE  FALSE
  BY DEF Ascending
<1>1. i \in 1..Len(s) /\ j \in 1..Len(s) /\ s[i] \in S /\ s[j] \in S /\ Len(s) \in Nat
  BY ArrangesParts
<1>2. s[i] = s[j]
  BY <1>1
<1>3. i # j
  BY <1>1
<1> QED
  BY <1>1, <1>2, <1>3 DEF Arranges

\* The sequence releaseBySequence starts from.
Expected(st) ==
    IF st.next # 0 \/ O!Sequenced(DOMAIN st.buffered) = {} THEN st.next
    ELSE O!Min({SeqNo[e] : e \in O!Sequenced(DOMAIN st.buffered)})

\* What releaseBySequence expects first.
LEMMA ExpectedFacts ==
    ASSUME NEW st \in O!Streams
    PROVE  /\ Expected(st) \in Nat
           /\ st.next # 0 => Expected(st) = st.next
           /\ O!Sequenced(DOMAIN st.buffered) # {} =>
                 /\ Expected(st) # 0
                 /\ st.next = 0 => \A e \in O!Sequenced(DOMAIN st.buffered) : Expected(st) <= SeqNo[e]
<1> DEFINE Q == O!Sequenced(DOMAIN st.buffered)
           N == {SeqNo[e] : e \in Q}
<1>1. \A e \in Q : SeqNo[e] \in Nat /\ SeqNo[e] # 0
  BY StreamParts, EventFacts DEF O!Sequenced
<1>2. st.next \in Nat
  BY StreamParts
<1>3. CASE st.next # 0 \/ Q = {}
  BY <1>2, <1>3 DEF Expected
<1>4. CASE st.next = 0 /\ Q # {}
  <2>1. N \in SUBSET Nat /\ N # {}
    BY <1>1, <1>4
  <2>2. O!Min(N) = Min(N)
    BY DEF O!Min, Min
  <2>3. Min(N) \in N /\ \A y \in N : Min(N) <= y
    <3> HIDE DEF N
    <3> QED
      BY <2>1, LeastNatural
  <2>4. Expected(st) = Min(N)
    BY <1>4, <2>2 DEF Expected
  <2> HIDE DEF Q
  <2>5. Expected(st) \in Nat /\ Expected(st) # 0 /\ \A e \in Q : Expected(st) <= SeqNo[e]
    BY <1>1, <2>3, <2>4
  <2> QED
    BY <1>4, <2>5 DEF Q
<1> QED
  BY <1>3, <1>4

\* The run comes before whatever else is buffered from the expected sequence on.
LEMMA RunFacts ==
    ASSUME NEW S \in SUBSET Events, NEW n \in Nat, n # 0
    PROVE  /\ O!Run(S, n) \in SUBSET S
           /\ \A e \in O!Run(S, n) : SeqNo[e] # 0
           /\ \A e \in O!Run(S, n) : \A f \in S \ O!Run(S, n) : SeqNo[f] >= n => SeqNo[e] < SeqNo[f]
<1> DEFINE run == O!Run(S, n)
<1>1. \A e \in S : SeqNo[e] \in Nat
  BY EventFacts
<1>2. run \in SUBSET S /\ \A e \in run : SeqNo[e] >= n
  BY DEF O!Run
<1>3. ASSUME NEW e \in run, NEW f \in S \ run, SeqNo[f] >= n, ~(SeqNo[e] < SeqNo[f]) PROVE FALSE
  <2>1. \A m \in n..SeqNo[f] : m \in n..SeqNo[e]
    BY <1>1, <1>2, <1>3
  <2>2. \A m \in n..SeqNo[e] : \E g \in S : SeqNo[g] = m
    BY DEF O!Run
  <2> QED
    BY <1>3, <2>1, <2>2 DEF O!Run
<1>4. \A e \in run : SeqNo[e] # 0
  BY <1>1, <1>2
<1> HIDE DEF run
<1> QED
  BY <1>2, <1>3, <1>4 DEF run

\* releaseByTimestamp releases some of what is buffered.
LEMMA InTimeArranges ==
    ASSUME NEW st \in O!Streams
    PROVE  \E S \in SUBSET DOMAIN st.buffered : Arranges(O!InTime(st), S)
<1> DEFINE D == DOMAIN st.buffered
           S == {e \in D : \E f \in D : Stamp[e] + Lateness <= Stamp[f]}
<1>1. S \in SUBSET D /\ D \in SUBSET Events
  BY StreamParts
<1>2. O!InTime(st) = O!ByTimestamp(S)
  BY DEF O!InTime
<1>3. S \in SUBSET Events
  BY <1>1
<1>4. Arranges(O!ByTimestamp(S), S)
  <2> HIDE DEF S
  <2> QED
    BY <1>3, ByTimestampArranges
<1> HIDE DEF S
<1> QED
  BY <1>1, <1>2, <1>4

\* releaseBySequence releases a run of sequences, and all where gaps are closed.
LEMMA InSequenceArranges ==
    ASSUME NEW p, NEW st \in O!Streams, Distinct(DOMAIN st.buffered)
    PROVE  \/ Expected(st) = 0 /\ O!InSequence(p, st) = <<>>
           \/ /\ Expected(st) # 0 /\ p.gap # "FLUSH_IMMEDIATELY"
              /\ O!InSequence(p, st) = O!BySequence(O!Run(DOMAIN st.buffered, Expected(st)))
              /\ Arranges(O!InSequence(p, st), O!Run(DOMAIN st.buffered, Expected(st)))
           \/ /\ Expected(st) # 0 /\ p.gap = "FLUSH_IMMEDIATELY"
              /\ Arranges(O!InSequence(p, st), DOMAIN st.buffered)
<1> DEFINE D == DOMAIN st.buffered
           n == Expected(st)
           run == O!Run(D, n)
           rest == IF p.gap = "FLUSH_IMMEDIATELY" THEN O!ByAge(st.buffered, D \ run) ELSE <<>>
<1>1. O!InSequence(p, st) = IF n = 0 THEN <<>> ELSE O!BySequence(run) \o rest
  BY DEF O!InSequence, Expected
<1>2. D \in SUBSET Events /\ n \in Nat /\ \A e \in D : st.buffered[e] \in Nat
  BY StreamParts, ExpectedFacts
<1>3. ASSUME n # 0 PROVE Arranges(O!BySequence(run), run) /\ run \in SUBSET D
  <2>1. run \in SUBSET D /\ \A e \in run : SeqNo[e] # 0
    BY <1>2, <1>3, RunFacts
  <2>2. Distinct(run) /\ run \in SUBSET Events
    BY <1>2, <2>1 DEF Distinct
  <2> HIDE DEF run
  <2> QED
    BY <2>1, <2>2, BySequenceArranges
<1>4. CASE n = 0
  BY <1>1, <1>4
<1>5. CASE n # 0 /\ p.gap # "FLUSH_IMMEDIATELY"
  <2>1. O!BySequence(run) \in Seq(run)
    BY <1>3, <1>5 DEF Arranges
  <2>2. O!BySequence(run) \o <<>> = O!BySequence(run)
    <3> HIDE DEF run
    <3> QED
      BY <2>1, ConcatEmptySeq
  <2>3. O!InSequence(p, st) = O!BySequence(run)
    BY <1>1, <1>5, <2>2
  <2> QED
    BY <1>3, <1>5, <2>3
<1>6. CASE n # 0 /\ p.gap = "FLUSH_IMMEDIATELY"
  <2> DEFINE left == D \ run
  <2>1. run \in SUBSET D /\ Arranges(O!BySequence(run), run)
    BY <1>3, <1>6
  <2>2. left \in SUBSET Events /\ \A e \in left : st.buffered[e] \in Nat
    BY <1>2
  <2>3. Arranges(O!ByAge(st.buffered, left), left)
    <3> HIDE DEF left
    <3> QED
      BY <2>2, ByAgeArranges
  <2>4. run \cap left = {} /\ run \cup left = D
    BY <2>1
  <2>5. Arranges(O!BySequence(run) \o O!ByAge(st.buffered, left), run \cup left)
    <3> HIDE DEF left, run
    <3> QED
      BY <2>1, <2>3, <2>4, ArrangesBoth
  <2>6. O!InSequence(p, st) = O!BySequence(run) \o O!ByAge(st.buffered, left)
    BY <1>1, <1>6
  <2> QED
    BY <1>6, <2>4, <2>5, <2>6
<1> QED
  BY <1>4, <1>5, <1>6

\* Whatever the mode, what is available is some of what is buffered, each event once.
LEMMA AvailableArranges ==
    ASSUME NEW p, NEW st \in O!Streams, p.mode # "TIMESTAMP" => Distinct(DOMAIN st.buffered)
    PROVE  \E S \in SUBSET DOMAIN st.buffered : Arranges(O!Available(p, st), S)
<1>1. CASE p.mode = "TIMESTAMP" \/ (p.mode = "HYBRID" /\ O!Sequenced(DOMAIN st.buffered) = {})
  BY <1>1, InTimeArranges DEF O!Available
<1>2. CASE p.mode # "TIMESTAMP" /\ ~(p.mode = "HYBRID" /\ O!Sequenced(DOMAIN st.buffered) = {})
  <2>1. O!Available(p, st) = O!InSequence(p, st)
    BY <1>2 DEF O!Available
  <2>2. Expected(st) # 0 => O!Run(DOMAIN st.buffered, Expected(st)) \in SUBSET DOMAIN st.buffered
    BY StreamParts, ExpectedFacts, RunFacts
  <2>3. Distinct(DOMAIN st.buffered)
    BY <1>2
  <2>4. CASE O!InSequence(p, st) = <<>>
    BY <2>1, <2>4, ArrangesNothing
  <2>5. CASE Expected(st) # 0 /\ Arranges(O!InSequence(p, st), O!Run(DOMAIN st.buffered, Expected(st)))
    BY <2>1, <2>2, <2>5
  <2>6. CASE Arranges(O!InSequence(p, st), DOMAIN st.buffered)
    BY <2>1, <2>6
  <2> QED
    BY <2>3, <2>4, <2>5, <2>6, InSequenceArranges
<1> QED
  BY <1>1, <1>2

\* What is released comes in sequence, and before what stays.
LEMMA AvailableAscends ==
    ASSUME NEW p, NEW st \in O!Streams, p.mode # "TIMESTAMP", Distinct(DOMAIN st.buffered),
           \A e \in DOMAIN st.buffered : SeqNo[e] # 0 => SeqNo[e] >= st.next,
           p.gap = "FLUSH_IMMEDIATELY" =>
               \A e, f \in DOMAIN st.buffered : SeqNo[e] # 0 /\ SeqNo[f] # 0 => e = f,
           NEW rel, rel = O!Available(p, st)
    PROVE  /\ Ascending(rel)
           /\ \A e \in ToSet(rel) : \A f \in DOMAIN st.buffered \ ToSet(rel) :
                 SeqNo[e] # 0 /\ SeqNo[f] # 0 => SeqNo[e] < SeqNo[f]
<1> DEFINE D == DOMAIN st.buffered
           n == Expected(st)
           run == O!Run(D, n)
<1>1. D \in SUBSET Events /\ n \in Nat
  BY StreamParts, ExpectedFacts
<1>2. CASE p.mode = "HYBRID" /\ O!Sequenced(D) = {}
  <2>1. \A e \in D : SeqNo[e] = 0
    BY <1>2 DEF O!Sequenced
  <2>2. PICK S \in SUBSET D : Arranges(rel, S)
    BY <1>2, InTimeArranges DEF O!Available
  <2>3. Ascending(rel)
    <3> HIDE DEF D
    <3> QED
      BY <2>1, <2>2, AscendingAlone
  <2>4. ToSet(rel) = S
    BY <2>2, ArrangesParts
  <2> QED
    BY <2>1, <2>2, <2>3, <2>4
<1>3. CASE ~(p.mode = "HYBRID" /\ O!Sequenced(D) = {})
  <2>1. rel = O!InSequence(p, st)
    BY <1>3 DEF O!Available
  <2>2. CASE n = 0 /\ rel = <<>>
    <3>1. \A e \in D : SeqNo[e] = 0
      BY <2>2, ExpectedFacts DEF O!Sequenced
    <3>2. ToSet(rel) = {} /\ Ascending(rel)
      BY <2>2 DEF ToSet, Ascending
    <3> QED
      BY <3>1, <3>2
  <2>3. CASE n # 0 /\ p.gap # "FLUSH_IMMEDIATELY" /\ rel = O!BySequence(run) /\ Arranges(rel, run)
    <3>1. /\ run \in SUBSET D /\ \A e \in run : SeqNo[e] # 0
          /\ \A e \in run : \A f \in D \ run : SeqNo[f] >= n => SeqNo[e] < SeqNo[f]
      BY <1>1, <2>3, RunFacts
    <3>2. Distinct(run) /\ run \in SUBSET Events
      BY <1>1, <3>1 DEF Distinct
    <3>3. Ascending(rel)
      <4> HIDE DEF run
      <4> QED
        BY <2>3, <3>1, <3>2, BySequenceArranges
    <3>4. ToSet(rel) = run
      BY <2>3, ArrangesParts
    <3>5. ASSUME NEW f \in D, SeqNo[f] # 0 PROVE SeqNo[f] >= n
      <4>1. CASE st.next # 0
        BY <3>5, <4>1, ExpectedFacts
      <4>2. CASE st.next = 0
        <5>1. f \in O!Sequenced(D)
          BY <3>5 DEF O!Sequenced
        <5>2. n <= SeqNo[f]
          BY <4>2, <5>1, ExpectedFacts
        <5> QED
          BY <1>1, <5>2, EventFacts
      <4> QED
        BY <4>1, <4>2
    <3> HIDE DEF run, n
    <3> QED
      BY <2>3, <3>1, <3>3, <3>4, <3>5
  <2>4. CASE n # 0 /\ p.gap = "FLUSH_IMMEDIATELY" /\ Arranges(rel, D)
    <3>1. Ascending(rel)
      BY <2>4, AscendingAlone
    <3>2. ToSet(rel) = D
      BY <2>4, ArrangesParts
    <3> QED
      BY <3>1, <3>2
  <2> QED
    BY <2>1, <2>2, <2>3, <2>4, InSequenceArranges
<1> QED
  BY <1>2, <1>3

\* Where gaps are closed at once, nothing with a sequence stays.
LEMMA AvailableClosesGaps ==
    ASSUME NEW p, NEW st \in O!Streams, p.mode # "TIMESTAMP", p.gap = "FLUSH_IMMEDIATELY",
           Distinct(DOMAIN st.buffered)
    PROVE  \A f \in DOMAIN st.buffered \ ToSet(O!Available(p, st)) : SeqNo[f] = 0
<1> DEFINE D == DOMAIN st.buffered
<1>1. CASE O!Sequenced(D) = {}
  BY <1>1 DEF O!Sequenced
<1>2. CASE O!Sequenced(D) # {}
  <2>1. O!Available(p, st) = O!InSequence(p, st)
    BY <1>2 DEF O!Available
  <2>2. Expected(st) # 0
    BY <1>2, ExpectedFacts
  <2>3. Arranges(O!InSequence(p, st), D)
    BY <2>2, InSequenceArranges
  <2>4. ToSet(O!InSequence(p, st)) = D
    BY <2>3, ArrangesParts
  <2> QED
    BY <2>1, <2>4
<1> QED
  BY <1>1, <1>2

\* The event that is expected is released.
LEMMA ExpectedIsReleased ==
    ASSUME NEW p, NEW st \in O!Streams, p.mode # "TIMESTAMP", Distinct(DOMAIN st.buffered),
           NEW e \in DOMAIN st.buffered, SeqNo[e] # 0, SeqNo[e] = st.next
    PROVE  e \in ToSet(O!Available(p, st))
<1> DEFINE D == DOMAIN st.buffered
           n == Expected(st)
<1>1. n = SeqNo[e] /\ n # 0 /\ n \in Nat
  BY ExpectedFacts
<1>2. O!Available(p, st) = O!InSequence(p, st)
  BY DEF O!Available, O!Sequenced
<1>3. \A m \in n..SeqNo[e] : m = SeqNo[e]
  BY <1>1
<1>4. e \in O!Run(D, n)
  BY <1>1, <1>3 DEF O!Run
<1>5. \/ Arranges(O!InSequence(p, st), O!Run(D, n))
      \/ Arranges(O!InSequence(p, st), D)
  BY <1>1, InSequenceArranges
<1> HIDE DEF n
<1> QED
  BY <1>2, <1>4, <1>5, ArrangesParts

\* flushExpired releases everything.
LEMMA FlushArranges ==
    ASSUME NEW p, NEW S \in SUBSET Events, p.mode # "TIMESTAMP" => Distinct(S)
    PROVE  /\ Arranges(O!FlushOrder(p, S), S)
           /\ p.mode # "TIMESTAMP" => Ascending(O!FlushOrder(p, S))
<1> DEFINE A == O!Sequenced(S)
           Z == S \ A
           s == O!BySequence(A)
           t == O!ByTimestamp(Z)
<1>1. CASE p.mode = "TIMESTAMP"
  BY <1>1, ByTimestampArranges DEF O!FlushOrder
<1>2. CASE p.mode # "TIMESTAMP"
  <2>1. A \in SUBSET S /\ (\A e \in A : SeqNo[e] # 0) /\ \A e \in Z : SeqNo[e] = 0
    BY DEF O!Sequenced
  <2>2. A \in SUBSET Events /\ Z \in SUBSET Events /\ A \cap Z = {} /\ A \cup Z = S
    BY <2>1
  <2>3. Distinct(A)
    BY <1>2, <2>1 DEF Distinct
  <2>4. O!FlushOrder(p, S) = s \o t
    BY <1>2 DEF O!FlushOrder
  <2> HIDE DEF A, Z
  <2>5. Arranges(s, A) /\ Ascending(s) /\ Arranges(t, Z)
    BY <2>1, <2>2, <2>3, BySequenceArranges, ByTimestampArranges
  <2>6. Arranges(s \o t, S)
    BY <2>2, <2>5, ArrangesBoth
  <2>7. /\ Len(s) \in Nat /\ Len(t) \in Nat /\ DOMAIN s = 1..Len(s)
        /\ \A i \in 1..Len(t) : t[i] \in Z
    BY <2>5, ArrangesParts
  <2> HIDE DEF s, t
  <2>8. s \in Seq(S) /\ t \in Seq(S)
    BY <2>2, <2>5, SeqMonotonic DEF Arranges
  <2>9. /\ DOMAIN (s \o t) = 1..Len(s) + Len(t)
        /\ \A i \in 1..Len(s) + Len(t) : (s \o t)[i] = IF i <= Len(s) THEN s[i] ELSE t[i - Len(s)]
    BY <2>8, ConcatProperties, LenProperties
  <2>10. \A i \in 1..Len(s) + Len(t) :
            \/ i \in 1..Len(s) /\ (s \o t)[i] = s[i]
            \/ SeqNo[(s \o t)[i]] = 0 /\ i \notin 1..Len(s)
    <3> SUFFICES ASSUME NEW i \in 1..Len(s) + Len(t), ~(i <= Len(s))
                 PROVE  SeqNo[(s \o t)[i]] = 0
      BY <2>7, <2>9
    <3>1. i - Len(s) \in 1..Len(t)
      BY <2>7
    <3>2. t[i - Len(s)] \in Z
      BY <2>7, <3>1
    <3> QED
      BY <2>1, <2>9, <3>2
  <2>11. Ascending(s \o t)
    BY <2>5, <2>7, <2>9, <2>10 DEF Ascending
  <2> QED
    BY <2>4, <2>6, <2>11
<1> QED
  BY <1>1, <1>2

-----------------------------------------------------------------------------
(* enqueue and flushExpired                                                *)

\* A stream between two operations.
Settled(p, st) ==
    /\ st \in O!Streams
    /\ ~st.known => DOMAIN st.buffered = {} /\ st.next = 0 /\ st.lastSeq = 0 /\ st.lastTs = 0 /\ st.lastId = 0
    /\ p.mode # "TIMESTAMP" => Distinct(DOMAIN st.buffered)
    /\ p.mode # "TIMESTAMP" /\ p.gap = "FLUSH_IMMEDIATELY" =>
           \A e \in DOMAIN st.buffered : SeqNo[e] = 0

\* What is buffered comes after what was released.
InTurn(st) ==
    /\ st.next <= st.lastSeq + 1
    /\ \A e \in DOMAIN st.buffered : SeqNo[e] # 0 => SeqNo[e] > st.lastSeq

\* With event e added, st buffers no sequence twice.
Addable(p, st, e) ==
    /\ e \notin DOMAIN st.buffered
    /\ p.mode # "TIMESTAMP" => \A f \in DOMAIN st.buffered : SeqNo[e] # 0 => SeqNo[f] # SeqNo[e]

\* The stream with event e stored.
With(st, e, lag) == [st EXCEPT !.buffered = O!Buffering(st.buffered, e, lag)]

\* Storing an event keeps the rest of the stream.
LEMMA BufferingStream ==
    ASSUME NEW st \in O!Streams, NEW e \in Events, NEW lag \in 0..MaxLag,
           NEW w, w = With(st, e, lag)
    PROVE  /\ w \in O!Streams /\ DOMAIN w.buffered = DOMAIN st.buffered \cup {e}
           /\ w.known = st.known /\ w.next = st.next /\ w.lastSeq = st.lastSeq
<1> DEFINE S == DOMAIN st.buffered \cup {e}
           ages == O!Buffering(st.buffered, e, lag)
<1>1. lag \in O!Ages /\ S \in SUBSET Events
  BY StreamingAssumption, StreamParts DEF O!Ages
<1>2. ages \in [S -> O!Ages]
  BY <1>1, StreamParts DEF O!Buffering
<1>3. w = [known |-> st.known, buffered |-> ages, next |-> st.next, lastSeq |-> st.lastSeq,
           lastTs |-> st.lastTs, lastId |-> st.lastId, changed |-> st.changed]
  <2> HIDE DEF ages
  <2> QED
    BY DEF O!Streams, ages, With
<1> HIDE DEF ages, S
<1>4. w \in O!Streams
  <2>1. /\ st.known \in BOOLEAN /\ st.next \in Nat /\ st.lastSeq \in Nat /\ st.lastTs \in Nat
        /\ st.lastId \in {0} \cup Events /\ st.changed \in Nat
    BY StreamParts
  <2>2. ages \in UNION {[U -> O!Ages] : U \in SUBSET Events}
    BY <1>1, <1>2
  <2>3. /\ w.known \in BOOLEAN /\ w.next \in Nat /\ w.lastSeq \in Nat /\ w.lastTs \in Nat
        /\ w.lastId \in {0} \cup Events /\ w.changed \in Nat /\ w.buffered = ages
    BY <1>3, <2>1
  <2> QED
    BY <1>3, <2>2, <2>1 DEF O!Streams
<1>5. DOMAIN w.buffered = S
  BY <1>2, <1>3
<1> QED
  BY <1>3, <1>4, <1>5 DEF S

\* The event is stored.
LEMMA StoredKeeps ==
    ASSUME NEW p, NEW st, Settled(p, st), NEW e \in Events, NEW lag \in 0..MaxLag, Addable(p, st, e),
           NEW out, out = O!Stored(p, st, e, lag)
    PROVE  /\ out.stream \in O!Streams /\ out.stream.known = st.known
           /\ \E S \in SUBSET (DOMAIN st.buffered \cup {e}) :
                 /\ Arranges(out.released, S)
                 /\ DOMAIN out.stream.buffered = (DOMAIN st.buffered \cup {e}) \ S
           /\ p.mode # "TIMESTAMP" => Distinct(DOMAIN out.stream.buffered)
           /\ p.mode # "TIMESTAMP" /\ p.gap = "FLUSH_IMMEDIATELY" =>
                 \A f \in DOMAIN out.stream.buffered : SeqNo[f] = 0
<1> DEFINE U == DOMAIN st.buffered \cup {e}
<1>1. PICK w : w = With(st, e, lag)
  OBVIOUS
<1>2. PICK rel : rel = O!Available(p, w)
  OBVIOUS
<1>3. out.stream = O!Released(w, rel) /\ out.released = rel
  BY <1>1, <1>2 DEF O!Stored, O!Outcome, With
<1>4. w \in O!Streams /\ DOMAIN w.buffered = U /\ w.known = st.known
  <2>1. st \in O!Streams
    BY DEF Settled
  <2> QED
    BY <1>1, <2>1, BufferingStream
<1>5. p.mode # "TIMESTAMP" => Distinct(U)
  BY DEF Settled, Addable, Distinct
<1> HIDE DEF U
<1>6. PICK S \in SUBSET U : Arranges(rel, S)
  BY <1>2, <1>4, <1>5, AvailableArranges
<1>7. ToSet(rel) = S
  BY <1>6, ArrangesParts
<1>8. rel \in Seq(Events)
  <2>1. U \in SUBSET Events
    BY <1>4, StreamParts
  <2>2. S \subseteq Events /\ rel \in Seq(S)
    BY <1>6, <2>1 DEF Arranges
  <2> QED
    BY <2>2, SeqMonotonic
<1>9. out.stream \in O!Streams /\ out.stream.known = st.known /\ DOMAIN out.stream.buffered = U \ S
  BY <1>3, <1>4, <1>7, <1>8, ReleasedStream
<1>10. p.mode # "TIMESTAMP" => Distinct(DOMAIN out.stream.buffered)
  BY <1>5, <1>9 DEF Distinct
<1>11. p.mode # "TIMESTAMP" /\ p.gap = "FLUSH_IMMEDIATELY" =>
          \A f \in DOMAIN out.stream.buffered : SeqNo[f] = 0
  BY <1>2, <1>4, <1>5, <1>7, <1>9, AvailableClosesGaps
<1> QED
  BY <1>3, <1>6, <1>9, <1>10, <1>11 DEF U

\* What is released is in turn, where what is buffered is.
LEMMA StoredInTurn ==
    ASSUME NEW p, NEW st, Settled(p, st), NEW e \in Events, NEW lag \in 0..MaxLag, Addable(p, st, e),
           NEW out, out = O!Stored(p, st, e, lag),
           p.mode # "TIMESTAMP",
           \A f \in DOMAIN st.buffered \cup {e} : SeqNo[f] # 0 => SeqNo[f] > st.lastSeq /\ SeqNo[f] >= st.next
    PROVE  /\ Ascending(out.released) /\ st.lastSeq <= out.stream.lastSeq
           /\ \A x \in ToSet(out.released) :
                 SeqNo[x] # 0 => st.lastSeq < SeqNo[x] /\ SeqNo[x] <= out.stream.lastSeq
           /\ \A f \in DOMAIN out.stream.buffered : SeqNo[f] # 0 => SeqNo[f] > out.stream.lastSeq
           /\ \/ out.stream.next = out.stream.lastSeq + 1
              \/ out.stream.next = st.next /\ out.stream.lastSeq = st.lastSeq
           /\ SeqNo[e] # 0 /\ SeqNo[e] = st.next => out.stream.next = out.stream.lastSeq + 1
<1> DEFINE U == DOMAIN st.buffered \cup {e}
           r == out.stream
<1>1. PICK w : w = With(st, e, lag)
  OBVIOUS
<1>2. PICK rel : rel = O!Available(p, w)
  OBVIOUS
<1>3. r = O!Released(w, rel) /\ out.released = rel
  BY <1>1, <1>2 DEF O!Stored, O!Outcome, With
<1>4. /\ w \in O!Streams /\ DOMAIN w.buffered = U /\ w.known = st.known
      /\ w.next = st.next /\ w.lastSeq = st.lastSeq
  <2>1. st \in O!Streams
    BY DEF Settled
  <2> QED
    BY <1>1, <2>1, BufferingStream
<1>5. Distinct(U)
  BY DEF Settled, Addable, Distinct
<1>6. p.gap = "FLUSH_IMMEDIATELY" => \A f, g \in U : SeqNo[f] # 0 /\ SeqNo[g] # 0 => f = g
  BY DEF Settled
<1>7. \A f \in U : SeqNo[f] # 0 => SeqNo[f] > w.lastSeq /\ SeqNo[f] >= w.next
  BY <1>4
<1>8. e \in U
  OBVIOUS
<1> HIDE DEF U
<1>9. PICK S \in SUBSET U : Arranges(rel, S)
  BY <1>2, <1>4, <1>5, AvailableArranges
<1>10. /\ ToSet(rel) = S /\ Len(rel) \in Nat /\ DOMAIN rel = 1..Len(rel)
       /\ \A i \in 1..Len(rel) : rel[i] \in S
  BY <1>9, ArrangesParts
<1>11. U \in SUBSET Events /\ \A f \in U : SeqNo[f] \in Nat
  BY <1>4, StreamParts, EventFacts
<1>12. rel \in Seq(Events)
  <2>1. S \subseteq Events /\ rel \in Seq(S)
    BY <1>9, <1>11 DEF Arranges
  <2> QED
    BY <2>1, SeqMonotonic
<1>13. /\ Ascending(rel)
       /\ \A x \in S : \A f \in U \ S : SeqNo[x] # 0 /\ SeqNo[f] # 0 => SeqNo[x] < SeqNo[f]
  BY <1>2, <1>4, <1>5, <1>6, <1>7, <1>10, AvailableAscends
<1>14. /\ DOMAIN r.buffered = U \ S
       /\ \/ /\ r.next = w.next /\ r.lastSeq = w.lastSeq
             /\ \A i \in DOMAIN rel : SeqNo[rel[i]] = 0
          \/ /\ r.next = r.lastSeq + 1
             /\ \E i \in DOMAIN rel :
                   /\ SeqNo[rel[i]] # 0 /\ r.lastSeq = SeqNo[rel[i]]
                   /\ \A j \in DOMAIN rel : SeqNo[rel[j]] # 0 => j <= i
  BY <1>3, <1>4, <1>10, <1>12, ReleasedStream
<1>15. w.lastSeq \in Nat
  BY <1>4, StreamParts
<1>16. \A x \in S : \E i \in DOMAIN rel : rel[i] = x
  BY <1>9, <1>10 DEF Arranges
<1> HIDE DEF r
<1>17. CASE r.next = w.next /\ r.lastSeq = w.lastSeq /\ \A i \in DOMAIN rel : SeqNo[rel[i]] = 0
  <2>1. \A x \in S : SeqNo[x] = 0
    BY <1>16, <1>17
  <2>2. SeqNo[e] # 0 /\ SeqNo[e] = w.next => FALSE
    BY <1>2, <1>4, <1>5, <1>8, <1>10, <2>1, ExpectedIsReleased
  <2> QED
    BY <1>3, <1>4, <1>7, <1>10, <1>13, <1>14, <1>15, <1>17, <2>1, <2>2 DEF r
<1>18. ASSUME NEW i \in DOMAIN rel, SeqNo[rel[i]] # 0, r.lastSeq = SeqNo[rel[i]], r.next = r.lastSeq + 1,
              \A j \in DOMAIN rel : SeqNo[rel[j]] # 0 => j <= i
       PROVE  /\ w.lastSeq <= r.lastSeq
              /\ \A x \in S : SeqNo[x] # 0 => w.lastSeq < SeqNo[x] /\ SeqNo[x] <= r.lastSeq
              /\ \A f \in U \ S : SeqNo[f] # 0 => SeqNo[f] > r.lastSeq
  <2>1. rel[i] \in S /\ rel[i] \in U /\ SeqNo[rel[i]] \in Nat
    BY <1>10, <1>11, <1>18
  <2>2. w.lastSeq <= r.lastSeq
    BY <1>7, <1>15, <1>18, <2>1
  <2>3. ASSUME NEW x \in S, SeqNo[x] # 0 PROVE w.lastSeq < SeqNo[x] /\ SeqNo[x] <= r.lastSeq
    <3>1. x \in U /\ SeqNo[x] \in Nat
      BY <1>11
    <3>2. w.lastSeq < SeqNo[x]
      BY <1>7, <1>15, <2>3, <3>1
    <3>3. PICK j \in DOMAIN rel : rel[j] = x
      BY <1>16
    <3>4. j <= i
      BY <1>18, <2>3, <3>3
    <3>5. CASE j = i
      BY <1>18, <3>1, <3>2, <3>3, <3>5
    <3>6. CASE j < i
      <4>1. SeqNo[rel[j]] < SeqNo[rel[i]]
        BY <1>13, <1>18, <2>3, <3>3, <3>6 DEF Ascending
      <4> QED
        BY <1>18, <2>1, <3>1, <3>2, <3>3, <4>1
    <3> QED
      BY <1>10, <3>4, <3>5, <3>6
  <2>4. \A f \in U \ S : SeqNo[f] # 0 => SeqNo[f] > r.lastSeq
    BY <1>11, <1>13, <1>18, <2>1
  <2> QED
    BY <2>2, <2>3, <2>4
<1>19. CASE /\ r.next = r.lastSeq + 1
            /\ \E i \in DOMAIN rel :
                   /\ SeqNo[rel[i]] # 0 /\ r.lastSeq = SeqNo[rel[i]]
                   /\ \A j \in DOMAIN rel : SeqNo[rel[j]] # 0 => j <= i
  <2>1. /\ w.lastSeq <= r.lastSeq
        /\ \A x \in S : SeqNo[x] # 0 => w.lastSeq < SeqNo[x] /\ SeqNo[x] <= r.lastSeq
        /\ \A f \in U \ S : SeqNo[f] # 0 => SeqNo[f] > r.lastSeq
    BY <1>18, <1>19
  <2> QED
    BY <1>3, <1>4, <1>10, <1>13, <1>14, <1>19, <2>1 DEF r
<1> QED
  BY <1>14, <1>17, <1>19

\* The stream enqueue works on: created by its first event, and changed lag ago.
Opened(st, e, lag) ==
    IF st.known THEN st ELSE [st EXCEPT !.known = TRUE, !.next = SeqNo[e], !.changed = lag]

\* The stream with the time of its last change.
Touched(st, lag) == [st EXCEPT !.changed = lag]

\* The first event of a stream creates it, and sets what it expects.
LEMMA OpenedStream ==
    ASSUME NEW p, NEW st, Settled(p, st), NEW e \in Events, NEW lag \in 0..MaxLag,
           NEW w, w = Opened(st, e, lag)
    PROVE  /\ Settled(p, w) /\ w.known
           /\ w.buffered = st.buffered /\ w.lastSeq = st.lastSeq
           /\ \/ st.known /\ w = st
              \/ /\ ~st.known /\ w.next = SeqNo[e] /\ w.changed = lag
                 /\ DOMAIN w.buffered = {} /\ w.lastSeq = 0 /\ w.lastTs = 0 /\ w.lastId = 0
<1>1. CASE st.known
  BY <1>1 DEF Opened
<1>2. CASE ~st.known
  <2>1. st \in O!Streams /\ DOMAIN st.buffered = {} /\ st.lastSeq = 0 /\ st.lastTs = 0 /\ st.lastId = 0
    BY <1>2 DEF Settled
  <2>2. w = [known |-> TRUE, buffered |-> st.buffered, next |-> SeqNo[e], lastSeq |-> st.lastSeq,
             lastTs |-> st.lastTs, lastId |-> st.lastId, changed |-> lag]
    BY <1>2, <2>1 DEF Opened, O!Streams
  <2>3. SeqNo[e] \in Nat /\ lag \in Nat
    BY EventFacts, StreamingAssumption
  <2>4. w \in O!Streams
    BY <2>1, <2>2, <2>3 DEF O!Streams
  <2>5. /\ w.known /\ w.buffered = st.buffered /\ w.next = SeqNo[e] /\ w.lastSeq = st.lastSeq
        /\ w.lastTs = st.lastTs /\ w.lastId = st.lastId /\ w.changed = lag
    BY <2>2
  <2>6. Settled(p, w)
    BY <2>1, <2>4, <2>5 DEF Settled, Distinct
  <2> QED
    BY <1>2, <2>1, <2>5, <2>6
<1> QED
  BY <1>1, <1>2

\* The time of the last change is in no part of the invariant.
LEMMA TouchedStream ==
    ASSUME NEW p, NEW st, Settled(p, st), NEW lag \in Nat, NEW w, w = Touched(st, lag)
    PROVE  /\ Settled(p, w) /\ w.known = st.known
           /\ w.buffered = st.buffered /\ w.next = st.next /\ w.lastSeq = st.lastSeq
<1>1. st \in O!Streams
  BY DEF Settled
<1>2. w = [known |-> st.known, buffered |-> st.buffered, next |-> st.next, lastSeq |-> st.lastSeq,
           lastTs |-> st.lastTs, lastId |-> st.lastId, changed |-> lag]
  BY <1>1 DEF Touched, O!Streams
<1>3. w \in O!Streams
  BY <1>1, <1>2 DEF O!Streams
<1>4. /\ w.known = st.known /\ w.buffered = st.buffered /\ w.next = st.next /\ w.lastSeq = st.lastSeq
      /\ w.lastTs = st.lastTs /\ w.lastId = st.lastId
  BY <1>2
<1> QED
  BY <1>3, <1>4 DEF Settled, Distinct

\* Making room takes one event out.
LEMMA RelievedStream ==
    ASSUME NEW p, NEW st, Settled(p, st), DOMAIN st.buffered # {}, st.known, NEW w, w = O!Relieved(p, st)
    PROVE  /\ Settled(p, w) /\ w.known
           /\ DOMAIN w.buffered \subseteq DOMAIN st.buffered
           /\ p.overflow # "FLUSH_OLDEST" => w.next = st.next /\ w.lastSeq = st.lastSeq
<1> DEFINE D == DOMAIN st.buffered
<1>1. st \in O!Streams
  BY DEF Settled
<1>2. D \in SUBSET Events /\ \A f \in D : st.buffered[f] \in Nat
  BY <1>1, StreamParts
<1>3. PICK x \in D : x = O!Oldest(st.buffered)
  BY <1>2, OldestIsIn
<1>4. CASE p.overflow = "FLUSH_OLDEST"
  <2>1. <<x>> \in Seq(Events)
    BY <1>2
  <2>2. w = O!Released(st, <<x>>)
    BY <1>3, <1>4 DEF O!Relieved
  <2>3. w \in O!Streams /\ w.known = st.known /\ DOMAIN w.buffered = D \ ToSet(<<x>>)
    BY <1>1, <2>1, <2>2, ReleasedStream
  <2>4. Settled(p, w)
    BY <2>3 DEF Settled, Distinct
  <2> QED
    BY <1>4, <2>3, <2>4
<1>5. CASE p.overflow # "FLUSH_OLDEST"
  <2> DEFINE E == D \ {x}
             ages == [f \in E |-> st.buffered[f]]
  <2>1. w = [st EXCEPT !.buffered = ages]
    BY <1>3, <1>5 DEF O!Relieved, O!Restrict
  <2>2. E \in SUBSET Events /\ ages \in [E -> O!Ages] /\ DOMAIN ages = E
    BY <1>1, StreamParts
  <2>3. ages \in UNION {[U -> O!Ages] : U \in SUBSET Events}
    BY <2>2
  <2> HIDE DEF ages
  <2>4. /\ w.known = st.known /\ w.buffered = ages /\ w.next = st.next /\ w.lastSeq = st.lastSeq
        /\ w \in O!Streams
    BY <1>1, <2>1, <2>3 DEF O!Streams
  <2>5. Settled(p, w)
    BY <2>2, <2>4 DEF Settled, Distinct
  <2> QED
    BY <2>2, <2>4, <2>5
<1> QED
  BY <1>4, <1>5

\* What enqueue does, case by case.
LEMMA EnqueuedCases ==
    ASSUME NEW p \in Configurations, NEW st, Settled(p, st), NEW e \in Events, NEW lag \in 0..MaxLag,
           NEW crowded \in BOOLEAN, NEW out, out = O!Enqueued(p, st, e, lag, crowded),
           NEW open, open = Opened(st, e, lag), NEW now, now = Touched(open, lag)
    PROVE  \/ /\ out.stream \in {open, now} /\ out.released = <<>> /\ (st.known \/ crowded)
              /\ out.status \notin {"BUFFERED", "RELEASED", "LATE"}
           \/ /\ ~O!Duplicate(p, open, e) /\ p.late = "RELEASE"
              /\ out.stream = O!Released(now, <<e>>) /\ out.released = <<e>>
           \/ /\ ~O!Duplicate(p, open, e) /\ ~O!Stale(p, open, e)
              /\ out = O!Stored(p, now, e, lag)
           \/ /\ ~O!Duplicate(p, open, e) /\ ~O!Stale(p, open, e)
              /\ DOMAIN st.buffered # {} /\ p.overflow # "REJECT_NEWEST"
              /\ out = O!Stored(p, O!Relieved(p, now), e, lag)
<1>1. out = IF lag > open.changed THEN O!Outcome(open, "FAILED", <<>>)
            ELSE IF O!Duplicate(p, open, e) THEN O!Outcome(now, "DUPLICATE", <<>>)
            ELSE IF O!Stale(p, open, e) THEN O!Outcome(now, "STALE", <<>>)
            ELSE IF O!Late(open, e) THEN O!LateOutcome(p, now, e)
            ELSE IF ~O!Full(p, open) /\ ~crowded THEN O!Stored(p, now, e, lag)
            ELSE IF p.overflow = "REJECT_NEWEST" THEN O!Outcome(open, "REJECTED", <<>>)
            ELSE O!Stored(p, IF crowded THEN now ELSE O!Relieved(p, now), e, lag)
  BY DEF O!Enqueued, Opened, Touched
<1>2. /\ open.buffered = st.buffered /\ open \in O!Streams
      /\ \/ st.known
         \/ open.changed = lag /\ DOMAIN open.buffered = {} /\ open.lastSeq = 0 /\ open.lastTs = 0 /\ open.lastId = 0
  BY OpenedStream DEF Settled
<1>3. e # 0 /\ SeqNo[e] \in Nat /\ Stamp[e] \in Nat /\ lag \in Nat /\ Lateness \in Nat /\ p.capacity \in Nat \ {0}
  BY EventFacts, StreamingAssumption DEF Configurations
<1>4. O!Full(p, open) => DOMAIN open.buffered # {}
  <2>1. ASSUME DOMAIN open.buffered = {} PROVE O!Cardinality(DOMAIN open.buffered) = 0
    BY <2>1, SameCardinality, FS_EmptySet
  <2> QED
    BY <1>3, <2>1 DEF O!Full
<1>5. ~st.known => /\ ~(lag > open.changed) /\ ~O!Duplicate(p, open, e) /\ ~O!Stale(p, open, e)
                   /\ ~O!Late(open, e) /\ ~O!Full(p, open)
  <2> SUFFICES ASSUME ~st.known
               PROVE  /\ ~(lag > open.changed) /\ ~O!Duplicate(p, open, e) /\ ~O!Stale(p, open, e)
                      /\ ~O!Late(open, e) /\ ~O!Full(p, open)
    OBVIOUS
  <2>1. ~(lag > open.changed) /\ ~O!Full(p, open)
    BY <1>2, <1>3, <1>4
  <2>2. ~O!Duplicate(p, open, e)
    BY <1>2, <1>3 DEF O!Duplicate
  <2>3. ~O!Stale(p, open, e) /\ ~O!Late(open, e)
    BY <1>2, <1>3 DEF O!Stale, O!Late
  <2> QED
    BY <2>1, <2>2, <2>3
<1>6. CASE lag > open.changed
  BY <1>1, <1>5, <1>6 DEF O!Outcome
<1>7. CASE ~(lag > open.changed) /\ (O!Duplicate(p, open, e) \/ O!Stale(p, open, e))
  BY <1>1, <1>5, <1>7 DEF O!Outcome
<1> DEFINE fresh == ~(lag > open.changed) /\ ~O!Duplicate(p, open, e) /\ ~O!Stale(p, open, e)
<1>8. CASE fresh /\ O!Late(open, e)
  <2>1. out = O!LateOutcome(p, now, e) /\ st.known
    BY <1>1, <1>5, <1>8
  <2>2. p.late \in {"REJECT", "DROP", "RELEASE"}
    BY DEF Configurations
  <2>3. CASE p.late \in {"REJECT", "DROP"}
    BY <2>1, <2>3 DEF O!LateOutcome, O!Outcome
  <2>4. CASE p.late = "RELEASE"
    BY <1>8, <2>1, <2>4 DEF O!LateOutcome, O!Outcome
  <2> QED
    BY <2>2, <2>3, <2>4
<1>9. CASE fresh /\ ~O!Late(open, e) /\ ~O!Full(p, open) /\ ~crowded
  BY <1>1, <1>9
<1>10. CASE fresh /\ ~O!Late(open, e) /\ (O!Full(p, open) \/ crowded) /\ p.overflow = "REJECT_NEWEST"
  <2>1. out = O!Outcome(open, "REJECTED", <<>>)
    BY <1>1, <1>10
  <2>2. st.known \/ crowded
    BY <1>5, <1>10
  <2> QED
    BY <2>1, <2>2 DEF O!Outcome
<1>11. CASE fresh /\ ~O!Late(open, e) /\ crowded /\ p.overflow # "REJECT_NEWEST"
  BY <1>1, <1>11
<1>12. CASE fresh /\ ~O!Late(open, e) /\ O!Full(p, open) /\ ~crowded /\ p.overflow # "REJECT_NEWEST"
  <2>1. out = O!Stored(p, O!Relieved(p, now), e, lag)
    BY <1>1, <1>12
  <2>2. DOMAIN st.buffered # {}
    BY <1>2, <1>4, <1>12
  <2> QED
    BY <1>12, <2>1, <2>2
<1> QED
  BY <1>6, <1>7, <1>8, <1>9, <1>10, <1>11, <1>12

\* What an event that is no duplicate adds to.
LEMMA FreshIsAddable ==
    ASSUME NEW p, NEW st, NEW w, NEW e, ~O!Duplicate(p, st, e), DOMAIN w.buffered \subseteq DOMAIN st.buffered
    PROVE  Addable(p, w, e)
BY DEF O!Duplicate, Addable

\* What is released leaves the buffer, nothing comes in but the event, and
\* what was taken in is either released or buffered.
LEMMA EnqueueKeeps ==
    ASSUME NEW p \in Configurations, NEW st, Settled(p, st), NEW e \in Events, NEW lag \in 0..MaxLag,
           NEW crowded \in BOOLEAN, NEW out, out = O!Enqueued(p, st, e, lag, crowded)
    PROVE  /\ Settled(p, out.stream)
           /\ \E S \in SUBSET (DOMAIN st.buffered \cup {e}) :
                 /\ Arranges(out.released, S)
                 /\ DOMAIN out.stream.buffered \subseteq (DOMAIN st.buffered \cup {e}) \ S
                 /\ out.status \in {"BUFFERED", "RELEASED", "LATE"} => e \in DOMAIN out.stream.buffered \cup S
                 /\ p.overflow = "REJECT_NEWEST" => DOMAIN st.buffered \subseteq DOMAIN out.stream.buffered \cup S
<1> DEFINE D == DOMAIN st.buffered
           Kept == /\ Settled(p, out.stream)
                   /\ \E S \in SUBSET (D \cup {e}) :
                         /\ Arranges(out.released, S)
                         /\ DOMAIN out.stream.buffered \subseteq (D \cup {e}) \ S
                         /\ out.status \in {"BUFFERED", "RELEASED", "LATE"} => e \in DOMAIN out.stream.buffered \cup S
                         /\ p.overflow = "REJECT_NEWEST" => D \subseteq DOMAIN out.stream.buffered \cup S
<1>1. PICK open : open = Opened(st, e, lag)
  OBVIOUS
<1>2. PICK now : now = Touched(open, lag)
  OBVIOUS
<1>3. Settled(p, open) /\ open.known /\ open.buffered = st.buffered
  BY <1>1, OpenedStream
<1>4. lag \in Nat
  BY StreamingAssumption
<1>5. Settled(p, now) /\ now.known /\ now.buffered = st.buffered
  BY <1>2, <1>3, <1>4, TouchedStream
<1>6. ASSUME out.stream \in {open, now}, out.released = <<>>, out.status \notin {"BUFFERED", "RELEASED", "LATE"}
      PROVE  Kept
  <2>1. Settled(p, out.stream) /\ DOMAIN out.stream.buffered = D
    BY <1>3, <1>5, <1>6
  <2>2. Arranges(out.released, {})
    BY <1>6, ArrangesNothing
  <2> QED
    BY <1>6, <2>1, <2>2
<1>7. ASSUME ~O!Duplicate(p, open, e), out.stream = O!Released(now, <<e>>), out.released = <<e>>
      PROVE  Kept
  <2>1. now \in O!Streams
    BY <1>5 DEF Settled
  <2>2. <<e>> \in Seq(Events) /\ ToSet(<<e>>) = {e} /\ Arranges(<<e>>, {e})
    BY ArrangesOne, ArrangesParts
  <2>3. PICK r : r = O!Released(now, <<e>>)
    OBVIOUS
  <2>4. r \in O!Streams /\ r.known = now.known /\ DOMAIN r.buffered = DOMAIN now.buffered \ ToSet(<<e>>)
    BY <2>1, <2>2, <2>3, ReleasedStream
  <2>5. Settled(p, r) /\ DOMAIN r.buffered = D \ {e}
    BY <1>5, <2>2, <2>4 DEF Settled, Distinct
  <2> QED
    BY <1>7, <2>2, <2>3, <2>5
<1>8. ASSUME NEW w, Settled(p, w), w.known, DOMAIN w.buffered \subseteq D,
             p.overflow = "REJECT_NEWEST" => DOMAIN w.buffered = D,
             ~O!Duplicate(p, open, e), out = O!Stored(p, w, e, lag)
      PROVE  Kept
  <2>1. Addable(p, w, e)
    BY <1>3, <1>8, FreshIsAddable
  <2>2. /\ out.stream \in O!Streams /\ out.stream.known
        /\ p.mode # "TIMESTAMP" => Distinct(DOMAIN out.stream.buffered)
        /\ p.mode # "TIMESTAMP" /\ p.gap = "FLUSH_IMMEDIATELY" =>
              \A f \in DOMAIN out.stream.buffered : SeqNo[f] = 0
    BY <1>8, <2>1, StoredKeeps
  <2>3. PICK S \in SUBSET (DOMAIN w.buffered \cup {e}) :
              /\ Arranges(out.released, S)
              /\ DOMAIN out.stream.buffered = (DOMAIN w.buffered \cup {e}) \ S
    BY <1>8, <2>1, StoredKeeps
  <2>4. Settled(p, out.stream)
    BY <2>2 DEF Settled
  <2>5. S \in SUBSET (D \cup {e}) /\ DOMAIN out.stream.buffered \subseteq (D \cup {e}) \ S
    BY <1>8, <2>3
  <2>6. e \in DOMAIN out.stream.buffered \cup S
    BY <2>3
  <2>7. p.overflow = "REJECT_NEWEST" => D \subseteq DOMAIN out.stream.buffered \cup S
    BY <1>8, <2>3
  <2> QED
    BY <2>3, <2>4, <2>5, <2>6, <2>7
<1>9. ASSUME ~O!Duplicate(p, open, e), out = O!Stored(p, now, e, lag) PROVE Kept
  BY <1>5, <1>8, <1>9
<1>10. ASSUME ~O!Duplicate(p, open, e), D # {}, p.overflow # "REJECT_NEWEST",
              out = O!Stored(p, O!Relieved(p, now), e, lag)
       PROVE  Kept
  <2>1. PICK w : w = O!Relieved(p, now)
    OBVIOUS
  <2>2. Settled(p, w) /\ w.known /\ DOMAIN w.buffered \subseteq D
    BY <1>5, <1>10, <2>1, RelievedStream
  <2>3. out = O!Stored(p, w, e, lag)
    BY <1>10, <2>1
  <2> HIDE DEF Kept, D
  <2> QED
    BY <1>8, <1>10, <2>2, <2>3
<1> HIDE DEF Kept
<1>11. \/ out.stream \in {open, now} /\ out.released = <<>> /\ out.status \notin {"BUFFERED", "RELEASED", "LATE"}
       \/ ~O!Duplicate(p, open, e) /\ out.stream = O!Released(now, <<e>>) /\ out.released = <<e>>
       \/ ~O!Duplicate(p, open, e) /\ out = O!Stored(p, now, e, lag)
       \/ /\ ~O!Duplicate(p, open, e) /\ D # {} /\ p.overflow # "REJECT_NEWEST"
          /\ out = O!Stored(p, O!Relieved(p, now), e, lag)
  BY <1>1, <1>2, EnqueuedCases
<1>12. Kept
  BY <1>6, <1>7, <1>9, <1>10, <1>11
<1> QED
  BY <1>12 DEF Kept

\* What is stored in the stream it has opened.
LEMMA StoredAfterOpening ==
    ASSUME NEW p, NEW st, Settled(p, st), InTurn(st), NEW e \in Events, NEW lag \in 0..MaxLag,
           p.mode # "TIMESTAMP", NEW open, open = Opened(st, e, lag),
           NEW w, Settled(p, w), DOMAIN w.buffered \subseteq DOMAIN st.buffered,
           w.next = open.next, w.lastSeq = st.lastSeq,
           ~O!Duplicate(p, open, e), ~O!Stale(p, open, e),
           NEW out, out = O!Stored(p, w, e, lag)
    PROVE  /\ InTurn(out.stream) /\ Ascending(out.released) /\ st.lastSeq <= out.stream.lastSeq
           /\ \A x \in ToSet(out.released) :
                 SeqNo[x] # 0 => st.lastSeq < SeqNo[x] /\ SeqNo[x] <= out.stream.lastSeq
<1> DEFINE r == out.stream
<1>1. /\ open.buffered = st.buffered /\ open.lastSeq = st.lastSeq
      /\ \/ st.known /\ open = st
         \/ ~st.known /\ open.next = SeqNo[e] /\ DOMAIN open.buffered = {} /\ open.lastSeq = 0
  BY OpenedStream
<1>2. /\ st.lastSeq \in Nat /\ st.next \in Nat /\ SeqNo[e] \in Nat
      /\ \A f \in DOMAIN st.buffered : f \in Events /\ SeqNo[f] \in Nat
  BY StreamParts, EventFacts DEF Settled
<1>3. Addable(p, w, e)
  BY <1>1, FreshIsAddable
<1>4. SeqNo[e] # 0 => SeqNo[e] > st.lastSeq
  BY <1>1, <1>2 DEF O!Duplicate, O!Stale
<1>5. \A f \in DOMAIN w.buffered \cup {e} : SeqNo[f] # 0 => SeqNo[f] > w.lastSeq /\ SeqNo[f] >= w.next
  <2> SUFFICES ASSUME NEW f \in DOMAIN w.buffered \cup {e}, SeqNo[f] # 0
               PROVE  SeqNo[f] > w.lastSeq /\ SeqNo[f] >= w.next
    OBVIOUS
  <2>1. SeqNo[f] > st.lastSeq /\ SeqNo[f] \in Nat
    BY <1>2, <1>4 DEF InTurn
  <2>2. CASE st.known
    BY <1>1, <1>2, <2>1, <2>2 DEF InTurn
  <2>3. CASE ~st.known
    BY <1>1, <1>2, <2>1, <2>3
  <2> QED
    BY <2>2, <2>3
<1>6. /\ Ascending(out.released) /\ w.lastSeq <= r.lastSeq
      /\ \A x \in ToSet(out.released) :
            SeqNo[x] # 0 => w.lastSeq < SeqNo[x] /\ SeqNo[x] <= r.lastSeq
      /\ \A f \in DOMAIN r.buffered : SeqNo[f] # 0 => SeqNo[f] > r.lastSeq
      /\ \/ r.next = r.lastSeq + 1
         \/ r.next = w.next /\ r.lastSeq = w.lastSeq
      /\ SeqNo[e] # 0 /\ SeqNo[e] = w.next => r.next = r.lastSeq + 1
  BY <1>3, <1>5, StoredInTurn
<1>7. r \in O!Streams
  BY <1>3, StoredKeeps
<1> HIDE DEF r
<1>8. r.lastSeq \in Nat
  BY <1>7, StreamParts
<1>9. r.next <= r.lastSeq + 1
  <2>1. CASE r.next = r.lastSeq + 1
    BY <1>8, <2>1
  <2>2. CASE r.next = w.next /\ r.lastSeq = w.lastSeq /\ st.known
    BY <1>1, <2>2 DEF InTurn
  <2>3. CASE r.next = w.next /\ ~st.known
    <3>1. w.next = SeqNo[e]
      BY <1>1, <2>3
    <3> QED
      BY <1>2, <1>6, <1>8, <2>3, <3>1
  <2> QED
    BY <1>6, <2>1, <2>2, <2>3
<1> QED
  BY <1>6, <1>9 DEF InTurn, r

\* In a configuration that keeps order, what enqueue releases comes in sequence,
\* after everything released before.
LEMMA EnqueueInTurn ==
    ASSUME NEW p \in Configurations, NEW st, Settled(p, st), InTurn(st), NEW e \in Events, NEW lag \in 0..MaxLag,
           p.mode # "TIMESTAMP", p.late # "RELEASE", p.overflow # "FLUSH_OLDEST",
           NEW crowded \in BOOLEAN, ~crowded, NEW out, out = O!Enqueued(p, st, e, lag, crowded)
    PROVE  /\ InTurn(out.stream) /\ Ascending(out.released) /\ st.lastSeq <= out.stream.lastSeq
           /\ \A x \in ToSet(out.released) :
                 SeqNo[x] # 0 => st.lastSeq < SeqNo[x] /\ SeqNo[x] <= out.stream.lastSeq
<1> DEFINE Turned == /\ InTurn(out.stream) /\ Ascending(out.released) /\ st.lastSeq <= out.stream.lastSeq
                     /\ \A x \in ToSet(out.released) :
                           SeqNo[x] # 0 => st.lastSeq < SeqNo[x] /\ SeqNo[x] <= out.stream.lastSeq
<1>1. PICK open : open = Opened(st, e, lag)
  OBVIOUS
<1>2. PICK now : now = Touched(open, lag)
  OBVIOUS
<1>3. /\ Settled(p, open) /\ open.known /\ open.buffered = st.buffered /\ open.lastSeq = st.lastSeq
      /\ \/ st.known /\ open = st
         \/ ~st.known /\ open.next = SeqNo[e] /\ DOMAIN open.buffered = {} /\ open.lastSeq = 0
  BY <1>1, OpenedStream
<1>4. lag \in Nat /\ SeqNo[e] \in Nat
  BY StreamingAssumption, EventFacts
<1>5. /\ Settled(p, now) /\ now.known /\ now.buffered = st.buffered
      /\ now.next = open.next /\ now.lastSeq = st.lastSeq
  BY <1>2, <1>3, <1>4, TouchedStream
<1>6. /\ st.lastSeq \in Nat /\ st.next \in Nat /\ open.next \in Nat
      /\ \A f \in DOMAIN st.buffered : f \in Events /\ SeqNo[f] \in Nat
  BY <1>3, StreamParts, EventFacts DEF Settled
<1>7. ASSUME out.stream \in {open, now}, out.released = <<>>, st.known
      PROVE  Turned
  <2>1. /\ out.stream.buffered = st.buffered /\ out.stream.next = st.next /\ out.stream.lastSeq = st.lastSeq
    BY <1>3, <1>5, <1>7
  <2>2. ToSet(<<>>) = {} /\ Ascending(<<>>)
    BY DEF ToSet, Ascending
  <2>3. ToSet(out.released) = {} /\ Ascending(out.released)
    BY <1>7, <2>2
  <2>4. st.lastSeq <= out.stream.lastSeq
    <3>1. out.stream.lastSeq \in Nat /\ out.stream.lastSeq = st.lastSeq
      BY <1>6, <2>1
    <3> QED
      BY <3>1
  <2>5. InTurn(out.stream)
    BY <2>1 DEF InTurn
  <2> QED
    BY <2>3, <2>4, <2>5
<1>8. ASSUME NEW w, Settled(p, w), DOMAIN w.buffered \subseteq DOMAIN st.buffered,
             w.next = open.next, w.lastSeq = st.lastSeq,
             ~O!Duplicate(p, open, e), ~O!Stale(p, open, e), out = O!Stored(p, w, e, lag)
      PROVE  Turned
  BY <1>1, <1>8, StoredAfterOpening DEF Turned
<1>9. ASSUME ~O!Duplicate(p, open, e), ~O!Stale(p, open, e), out = O!Stored(p, now, e, lag) PROVE Turned
  <2> HIDE DEF Turned
  <2> QED
    BY <1>5, <1>8, <1>9
<1>10. ASSUME ~O!Duplicate(p, open, e), ~O!Stale(p, open, e), DOMAIN st.buffered # {},
              out = O!Stored(p, O!Relieved(p, now), e, lag)
       PROVE  Turned
  <2>1. PICK w : w = O!Relieved(p, now)
    OBVIOUS
  <2>2. /\ Settled(p, w) /\ w.known /\ DOMAIN w.buffered \subseteq DOMAIN st.buffered
        /\ w.next = now.next /\ w.lastSeq = now.lastSeq
    BY <1>5, <1>10, <2>1, RelievedStream
  <2>3. out = O!Stored(p, w, e, lag)
    BY <1>10, <2>1
  <2> HIDE DEF Turned
  <2> QED
    BY <1>5, <1>8, <1>10, <2>2, <2>3
<1> HIDE DEF Turned
<1>11. \/ out.stream \in {open, now} /\ out.released = <<>> /\ st.known
       \/ p.late = "RELEASE"
       \/ ~O!Duplicate(p, open, e) /\ ~O!Stale(p, open, e) /\ out = O!Stored(p, now, e, lag)
       \/ /\ ~O!Duplicate(p, open, e) /\ ~O!Stale(p, open, e) /\ DOMAIN st.buffered # {}
          /\ out = O!Stored(p, O!Relieved(p, now), e, lag)
  <2>1. \/ /\ out.stream \in {open, now} /\ out.released = <<>> /\ (st.known \/ crowded)
           /\ out.status \notin {"BUFFERED", "RELEASED", "LATE"}
        \/ /\ ~O!Duplicate(p, open, e) /\ p.late = "RELEASE"
           /\ out.stream = O!Released(now, <<e>>) /\ out.released = <<e>>
        \/ /\ ~O!Duplicate(p, open, e) /\ ~O!Stale(p, open, e)
           /\ out = O!Stored(p, now, e, lag)
        \/ /\ ~O!Duplicate(p, open, e) /\ ~O!Stale(p, open, e)
           /\ DOMAIN st.buffered # {} /\ p.overflow # "REJECT_NEWEST"
           /\ out = O!Stored(p, O!Relieved(p, now), e, lag)
    BY <1>1, <1>2, EnqueuedCases
  <2> QED
    BY <2>1
<1>12. Turned
  BY <1>7, <1>9, <1>10, <1>11
<1> QED
  BY <1>12 DEF Turned

\* What a flush releases is all that is buffered, in sequence.
LEMMA FlushKeeps ==
    ASSUME NEW p, NEW st, Settled(p, st), NEW out, out = O!Flushed(p, st)
    PROVE  /\ Settled(p, out.stream)
           /\ \E S \in SUBSET DOMAIN st.buffered :
                 /\ Arranges(out.released, S) /\ DOMAIN out.stream.buffered = DOMAIN st.buffered \ S
           /\ p.mode # "TIMESTAMP" /\ InTurn(st) =>
                 /\ InTurn(out.stream) /\ Ascending(out.released) /\ st.lastSeq <= out.stream.lastSeq
                 /\ \A x \in ToSet(out.released) :
                       SeqNo[x] # 0 => st.lastSeq < SeqNo[x] /\ SeqNo[x] <= out.stream.lastSeq
<1> DEFINE D == DOMAIN st.buffered
<1>1. PICK rel : rel = IF O!Expired(p, st) THEN O!FlushOrder(p, D) ELSE <<>>
  OBVIOUS
<1>2. PICK r : r = O!Released(st, rel)
  OBVIOUS
<1>3. PICK q : q = [r EXCEPT !.changed = IF rel = <<>> THEN @ ELSE 0]
  OBVIOUS
<1>4. out.stream = q /\ out.released = rel
  BY <1>1, <1>2, <1>3 DEF O!Flushed, O!Outcome
<1>5. /\ st \in O!Streams /\ D \in SUBSET Events /\ st.lastSeq \in Nat
      /\ p.mode # "TIMESTAMP" => Distinct(D)
  BY StreamParts DEF Settled
<1>6. ASSUME rel = <<>> PROVE q = st /\ ToSet(rel) = {} /\ Ascending(rel) /\ Arranges(rel, {})
  <2>1. r = st
    BY <1>2, <1>6 DEF O!Released
  <2>2. q = st
    BY <1>3, <1>5, <1>6, <2>1 DEF O!Streams
  <2>3. ToSet(rel) = {} /\ Ascending(rel)
    BY <1>6 DEF ToSet, Ascending
  <2> QED
    BY <1>6, <2>2, <2>3, ArrangesNothing
<1>7. CASE rel = <<>>
  <2>1. out.stream = st /\ ToSet(out.released) = {} /\ Ascending(out.released) /\ Arranges(out.released, {})
    BY <1>4, <1>6, <1>7
  <2>2. st.lastSeq <= st.lastSeq
    BY <1>5
  <2> QED
    BY <2>1, <2>2
<1>8. CASE rel # <<>>
  <2>1. rel = O!FlushOrder(p, D) /\ O!Expired(p, st)
    BY <1>1, <1>8
  <2>2. Arranges(rel, D) /\ (p.mode # "TIMESTAMP" => Ascending(rel))
    BY <1>5, <2>1, FlushArranges
  <2>3. st.known
    BY <2>1 DEF O!Expired, Settled
  <2>4. /\ ToSet(rel) = D /\ Len(rel) \in Nat /\ DOMAIN rel = 1..Len(rel)
        /\ \A i \in 1..Len(rel) : rel[i] \in D
    BY <2>2, ArrangesParts
  <2>5. rel \in Seq(Events)
    <3>1. rel \in Seq(D) /\ D \subseteq Events
      BY <1>5, <2>2 DEF Arranges
    <3> QED
      BY <3>1, SeqMonotonic
  <2>6. /\ r \in O!Streams /\ r.known = st.known /\ DOMAIN r.buffered = D \ ToSet(rel)
        /\ \/ /\ r.next = st.next /\ r.lastSeq = st.lastSeq
              /\ \A i \in DOMAIN rel : SeqNo[rel[i]] = 0
           \/ /\ r.next = r.lastSeq + 1
              /\ \E i \in DOMAIN rel :
                    /\ SeqNo[rel[i]] # 0 /\ r.lastSeq = SeqNo[rel[i]]
                    /\ \A j \in DOMAIN rel : SeqNo[rel[j]] # 0 => j <= i
    BY <1>2, <1>5, <2>5, ReleasedStream
  <2>7. q = Touched(r, 0)
    BY <1>3, <1>8 DEF Touched
  <2>8. DOMAIN r.buffered = {}
    BY <2>4, <2>6
  <2>9. Settled(p, r)
    BY <2>3, <2>6, <2>8 DEF Settled, Distinct
  <2>10. Settled(p, q) /\ q.buffered = r.buffered /\ q.next = r.next /\ q.lastSeq = r.lastSeq
    BY <2>7, <2>9, TouchedStream
  <2>11. ASSUME p.mode # "TIMESTAMP", InTurn(st)
         PROVE  /\ InTurn(q) /\ Ascending(rel) /\ st.lastSeq <= q.lastSeq
                /\ \A x \in ToSet(rel) : SeqNo[x] # 0 => st.lastSeq < SeqNo[x] /\ SeqNo[x] <= q.lastSeq
    <3>1. \A x \in D : \E i \in DOMAIN rel : rel[i] = x
      BY <2>2, <2>4 DEF Arranges
    <3>2. \A x \in D : SeqNo[x] \in Nat
      BY <1>5, EventFacts
    <3>3. r.lastSeq \in Nat
      BY <2>6, StreamParts
    <3>4. CASE r.next = st.next /\ r.lastSeq = st.lastSeq /\ \A i \in DOMAIN rel : SeqNo[rel[i]] = 0
      <4>1. \A x \in ToSet(rel) : SeqNo[x] = 0
        BY <2>4, <3>1, <3>4
      <4>2. InTurn(q)
        BY <2>8, <2>10, <2>11, <3>4 DEF InTurn
      <4>3. st.lastSeq <= q.lastSeq
        BY <1>5, <2>10, <3>4
      <4> QED
        BY <2>2, <2>11, <4>1, <4>2, <4>3
    <3>5. ASSUME NEW i \in DOMAIN rel, SeqNo[rel[i]] # 0, r.lastSeq = SeqNo[rel[i]], r.next = r.lastSeq + 1,
                 \A j \in DOMAIN rel : SeqNo[rel[j]] # 0 => j <= i
          PROVE  /\ InTurn(q) /\ st.lastSeq <= q.lastSeq
                 /\ \A x \in D : SeqNo[x] # 0 => st.lastSeq < SeqNo[x] /\ SeqNo[x] <= q.lastSeq
      <4>1. rel[i] \in D /\ SeqNo[rel[i]] \in Nat
        BY <2>4, <3>2, <3>5
      <4>2. SeqNo[rel[i]] > st.lastSeq
        BY <2>11, <3>5, <4>1 DEF InTurn
      <4>3. InTurn(q)
        BY <2>8, <2>10, <3>3, <3>5 DEF InTurn
      <4>4. ASSUME NEW x \in D, SeqNo[x] # 0 PROVE st.lastSeq < SeqNo[x] /\ SeqNo[x] <= r.lastSeq
        <5>1. SeqNo[x] > st.lastSeq /\ SeqNo[x] \in Nat
          BY <2>11, <3>2, <4>4 DEF InTurn
        <5>2. PICK j \in DOMAIN rel : rel[j] = x
          BY <3>1
        <5>3. j <= i
          BY <3>5, <4>4, <5>2
        <5>4. CASE j = i
          BY <1>5, <3>5, <5>1, <5>2, <5>4
        <5>5. CASE j < i
          <6>1. SeqNo[rel[j]] < SeqNo[rel[i]]
            BY <2>2, <2>11, <3>5, <4>4, <5>2, <5>5 DEF Ascending
          <6> QED
            BY <1>5, <3>5, <4>1, <5>1, <5>2, <6>1
        <5> QED
          BY <2>4, <5>3, <5>4, <5>5
      <4> QED
        BY <1>5, <2>10, <3>5, <4>1, <4>2, <4>3, <4>4
    <3> QED
      BY <2>2, <2>4, <2>6, <2>11, <3>4, <3>5
  <2>12. Arranges(out.released, D) /\ DOMAIN out.stream.buffered = D \ D
    BY <1>4, <2>2, <2>8, <2>10
  <2> QED
    BY <1>4, <2>10, <2>11, <2>12
<1> QED
  BY <1>7, <1>8

\* Time takes nothing out and puts nothing in.
LEMMA AgedStream ==
    ASSUME NEW p, NEW st, Settled(p, st), NEW w, w = O!StreamAged(st)
    PROVE  /\ Settled(p, w) /\ DOMAIN w.buffered = DOMAIN st.buffered
           /\ w.next = st.next /\ w.lastSeq = st.lastSeq
<1> DEFINE D == DOMAIN st.buffered
           ages == [e \in D |-> O!Later(st.buffered[e], MaxAge)]
<1>1. st \in O!Streams
  BY DEF Settled
<1>2. /\ D \in SUBSET Events /\ st.buffered \in [D -> O!Ages] /\ st.changed \in Nat
  BY <1>1, StreamParts
<1>3. MaxAge \in Nat /\ MaxLag \in Nat
  BY StreamingAssumption
<1>4. \A e \in D : O!Later(st.buffered[e], MaxAge) \in O!Ages
  BY <1>2, <1>3 DEF O!Ages, O!Later
<1>5. ages \in UNION {[U -> O!Ages] : U \in SUBSET Events} /\ DOMAIN ages = D
  BY <1>2, <1>4
<1>6. O!Later(st.changed, MaxLag) \in Nat
  BY <1>2, <1>3 DEF O!Later
<1>7. w = [st EXCEPT !.buffered = ages, !.changed = O!Later(st.changed, MaxLag)]
  BY DEF O!StreamAged
<1> HIDE DEF ages
<1>8. /\ w \in O!Streams /\ w.buffered = ages /\ w.known = st.known /\ w.next = st.next /\ w.lastSeq = st.lastSeq
      /\ w.lastTs = st.lastTs /\ w.lastId = st.lastId
  BY <1>1, <1>5, <1>6, <1>7 DEF O!Streams
<1>9. Settled(p, w)
  BY <1>5, <1>8 DEF Settled, Distinct
<1> QED
  BY <1>5, <1>8, <1>9

\* The stream before its first event.
LEMMA NewStreamSettled == ASSUME NEW p PROVE Settled(p, O!NewStream) /\ InTurn(O!NewStream) /\ DOMAIN O!NewStream.buffered = {}
<1>1. [e \in {} |-> 0] \in [{} -> O!Ages] /\ {} \in SUBSET Events
  OBVIOUS
<1>2. [e \in {} |-> 0] \in UNION {[S -> O!Ages] : S \in SUBSET Events}
  BY <1>1
<1>3. O!NewStream \in O!Streams
  BY <1>2 DEF O!NewStream, O!Streams
<1> QED
  BY <1>3 DEF Settled, InTurn, Distinct, O!NewStream

-----------------------------------------------------------------------------
(* The consumer                                                            *)

\* The consumer's record between two operations: what is dispatched leaves
\* the queue at once, and nobody registers another overflow policy.
Served(r) ==
    /\ r \in B!Records /\ r.queue = <<>> /\ r.state # "ABSENT" /\ r.overflow = "REJECT_NEWEST"

\* The entry a controller makes for an event.
EntryFor(e, id) == [id |-> id, event |-> e, retried |-> FALSE, age |-> 0]

\* A record with another state.
Stated(r, s) == [r EXCEPT !.state = s]

\* A record with another state keeps the rest.
LEMMA StatedRecord ==
    ASSUME NEW r \in B!Records, NEW s \in B!States, NEW w, w = Stated(r, s)
    PROVE  /\ w \in B!Records /\ w.state = s /\ w.overflow = r.overflow /\ w.timeout = r.timeout
           /\ w.queue = r.queue /\ w.inFlight = r.inFlight
BY DEF B!Records, Stated

\* reconcileState changes no more than the state.
LEMMA ReconciledRecord ==
    ASSUME NEW r \in B!Records, r.state # "ABSENT", NEW w, w = B!Reconciled(r)
    PROVE  /\ w \in B!Records /\ w.state # "ABSENT" /\ w.overflow = r.overflow
           /\ w.queue = r.queue /\ w.inFlight = r.inFlight
<1> DEFINE s == IF r.state = "FAILED" THEN r.state
                ELSE IF B!Pending(r) >= HighWatermark THEN "PAUSED"
                ELSE IF B!Pending(r) <= LowWatermark THEN "ACTIVE" ELSE r.state
<1>1. w = Stated(r, s)
  BY DEF B!Reconciled, Stated
<1>2. s \in B!States /\ s # "ABSENT"
  BY DEF B!Records, B!States
<1> HIDE DEF s
<1> QED
  BY <1>1, <1>2, StatedRecord

\* A record with other queues, before the watermarks are looked at.
Holding(r, queue, inFlight) == [r EXCEPT !.queue = queue, !.inFlight = inFlight]

\* A record with another queue and other entries in flight keeps the rest.
LEMMA HoldingRecord ==
    ASSUME NEW r \in B!Records, NEW queue \in Seq(B!Entries), NEW inFlight \in SUBSET B!Entries,
           NEW w, w = Holding(r, queue, inFlight)
    PROVE  /\ w \in B!Records /\ w.state = r.state /\ w.overflow = r.overflow /\ w.timeout = r.timeout
           /\ w.queue = queue /\ w.inFlight = inFlight
BY DEF B!Records, Holding

\* The entry for an event is one.
LEMMA NewEntry ==
    ASSUME NEW e \in Events, NEW id \in 1..MaxEntries
    PROVE  EntryFor(e, id) \in B!Entries /\ EntryFor(e, id).id = id /\ EntryFor(e, id).event = e
<1>1. AckTimeout \in Nat
  BY StreamingAssumption
<1> QED
  BY <1>1 DEF EntryFor, B!Entries

\* An event that is not admitted changes no more than the state.
LEMMA RefusedRecord ==
    ASSUME NEW cs \in [{Consumer} -> B!Records], Served(cs[Consumer]), NEW e, NEW id,
           B!Admission(cs, Consumer) # "ACCEPTED", NEW w, w = B!Admitted(cs, Consumer, e, id)
    PROVE  w \in [{Consumer} -> B!Records] /\ Served(w[Consumer]) /\ w[Consumer].inFlight = cs[Consumer].inFlight
<1> DEFINE r == cs[Consumer]
<1>1. B!Admission(cs, Consumer) \in {"CONSUMER_FAILED", "CONSUMER_PAUSED", "REJECTED", "DROPPED"}
  BY DEF B!Admission, Served, B!Records, B!States
<1>2. \/ w = cs
      \/ \E s \in {"PAUSED", "FAILED"} : w = [cs EXCEPT ![Consumer].state = s]
  BY <1>1 DEF B!Admitted
<1>3. ASSUME NEW s \in {"PAUSED", "FAILED"}, w = [cs EXCEPT ![Consumer].state = s]
      PROVE  w \in [{Consumer} -> B!Records] /\ Served(w[Consumer]) /\ w[Consumer].inFlight = cs[Consumer].inFlight
  <2>1. PICK v : v = Stated(r, s)
    OBVIOUS
  <2>2. s \in B!States /\ s # "ABSENT"
    BY DEF B!States
  <2>3. /\ v \in B!Records /\ v.state = s /\ v.overflow = r.overflow
        /\ v.queue = r.queue /\ v.inFlight = r.inFlight
    BY <2>1, <2>2, StatedRecord
  <2>4. w = [cs EXCEPT ![Consumer] = v]
    BY <1>3, <2>1 DEF Stated
  <2>5. w \in [{Consumer} -> B!Records] /\ w[Consumer] = v
    BY <2>3, <2>4
  <2> QED
    BY <2>2, <2>3, <2>5 DEF Served
<1> QED
  BY <1>2, <1>3

\* An event that is admitted is at once the head of the queue, and in flight.
LEMMA DispatchedRecord ==
    ASSUME NEW cs \in [{Consumer} -> B!Records], Served(cs[Consumer]), NEW e \in Events, NEW id \in 1..MaxEntries,
           B!Admission(cs, Consumer) = "ACCEPTED", NEW v, v = B!Admitted(cs, Consumer, e, id),
           NEW w, w = B!Drained(v, Consumer, 1)
    PROVE  /\ Head(v[Consumer].queue) = EntryFor(e, id)
           /\ w \in [{Consumer} -> B!Records] /\ Served(w[Consumer])
           /\ w[Consumer].inFlight = cs[Consumer].inFlight \cup {EntryFor(e, id)}
<1> DEFINE r == cs[Consumer]
           x == EntryFor(e, id)
<1>1. r \in B!Records /\ r.queue = <<>> /\ r.inFlight \in SUBSET B!Entries
  BY DEF Served, B!Records
<1>2. x \in B!Entries
  BY NewEntry
<1>3. ~B!AtCapacity(cs, Consumer)
  BY DEF B!Admission, Served, B!Records, B!States
<1>4. v = [cs EXCEPT ![Consumer] = B!Reconciled([r EXCEPT !.queue = Append(r.queue, x)])]
  BY <1>3 DEF B!Admitted, B!Pushed, EntryFor
<1> HIDE DEF x
<1>5. Append(r.queue, x) = <<x>> /\ <<x>> \in Seq(B!Entries)
  BY <1>1, <1>2
<1>6. PICK r1 : r1 = Holding(r, <<x>>, r.inFlight)
  OBVIOUS
<1>7. r1 = [r EXCEPT !.queue = Append(r.queue, x)]
  BY <1>1, <1>5, <1>6 DEF Holding, B!Records
<1>8. /\ r1 \in B!Records /\ r1.state = r.state /\ r1.overflow = r.overflow
      /\ r1.queue = <<x>> /\ r1.inFlight = r.inFlight
  <2>1. PICK q : q = <<x>>
    OBVIOUS
  <2>2. q \in Seq(B!Entries) /\ r1 = Holding(r, q, r.inFlight)
    BY <1>5, <1>6, <2>1
  <2> HIDE DEF r
  <2>3. /\ r1 \in B!Records /\ r1.state = r.state /\ r1.overflow = r.overflow
        /\ r1.queue = q /\ r1.inFlight = r.inFlight
    BY <1>1, <2>2, HoldingRecord
  <2> QED
    BY <2>1, <2>3
<1>9. PICK r2 : r2 = B!Reconciled(r1)
  OBVIOUS
<1>10. /\ r2 \in B!Records /\ r2.state # "ABSENT" /\ r2.overflow = r.overflow
       /\ r2.queue = <<x>> /\ r2.inFlight = r.inFlight
  BY <1>8, <1>9, ReconciledRecord DEF Served
<1>11. v = [cs EXCEPT ![Consumer] = r2] /\ v \in [{Consumer} -> B!Records] /\ v[Consumer] = r2
  BY <1>4, <1>7, <1>9, <1>10
<1>12. Head(v[Consumer].queue) = x
  BY <1>10, <1>11
<1>13. PICK r3 : r3 = Holding(r2, <<>>, r.inFlight \cup {x})
  OBVIOUS
<1>14. <<>> \in Seq(B!Entries) /\ r.inFlight \cup {x} \in SUBSET B!Entries
  BY <1>1, <1>2
<1>15. /\ r3 \in B!Records /\ r3.state = r2.state /\ r3.overflow = r2.overflow
       /\ r3.queue = <<>> /\ r3.inFlight = r.inFlight \cup {x}
  <2>1. PICK q : q = <<>>
    OBVIOUS
  <2>2. PICK F : F = r.inFlight \cup {x}
    OBVIOUS
  <2>3. q \in Seq(B!Entries) /\ F \in SUBSET B!Entries /\ r3 = Holding(r2, q, F)
    BY <1>13, <1>14, <2>1, <2>2
  <2>4. /\ r3 \in B!Records /\ r3.state = r2.state /\ r3.overflow = r2.overflow
        /\ r3.queue = q /\ r3.inFlight = F
    BY <1>10, <2>3, HoldingRecord
  <2> QED
    BY <2>1, <2>2, <2>4
<1>16. SubSeq(<<x>>, 1 + 1, Len(<<x>>)) = <<>> /\ {<<x>>[i] : i \in DOMAIN <<x>> \cap 1..1} = {x}
  OBVIOUS
<1>17. w = [v EXCEPT ![Consumer] = B!Reconciled(r3)]
  <2>1. r3 = [r2 EXCEPT !.queue = SubSeq(r2.queue, 1 + 1, Len(r2.queue)),
                        !.inFlight = r2.inFlight \cup {r2.queue[i] : i \in DOMAIN r2.queue \cap 1..1}]
    BY <1>10, <1>13, <1>16 DEF Holding
  <2> QED
    BY <1>11, <2>1 DEF B!Drained
<1>18. PICK r4 : r4 = B!Reconciled(r3)
  OBVIOUS
<1>19. /\ r4 \in B!Records /\ r4.state # "ABSENT" /\ r4.overflow = r.overflow
       /\ r4.queue = <<>> /\ r4.inFlight = r.inFlight \cup {x}
  BY <1>10, <1>15, <1>18, ReconciledRecord
<1>20. w \in [{Consumer} -> B!Records] /\ w[Consumer] = r4
  BY <1>11, <1>17, <1>18, <1>19
<1> QED
  BY <1>12, <1>19, <1>20 DEF Served, x

\* What is acknowledged or fails leaves what is in flight.
LEMMA ReturnedRecord ==
    ASSUME NEW cs \in [{Consumer} -> B!Records], Served(cs[Consumer]), NEW x,
           NEW w, w = B!Acknowledged(cs, Consumer, x) \/ w = B!Failed(cs, Consumer, x, FALSE)
    PROVE  /\ w \in [{Consumer} -> B!Records] /\ Served(w[Consumer])
           /\ w[Consumer].inFlight = cs[Consumer].inFlight \ {x}
<1> DEFINE r == cs[Consumer]
<1>1. PICK F : F = r.inFlight \ {x}
  OBVIOUS
<1>2. PICK q : q = r.queue
  OBVIOUS
<1>3. /\ r \in B!Records /\ r.state \in B!States \ {"ABSENT"} /\ r.queue = <<>> /\ r.overflow = "REJECT_NEWEST"
      /\ q \in Seq(B!Entries) /\ F \in SUBSET B!Entries
  <2>1. r \in B!Records /\ r.state # "ABSENT" /\ r.queue = <<>> /\ r.overflow = "REJECT_NEWEST"
    BY DEF Served
  <2>2. r.state \in B!States /\ q \in Seq(B!Entries) /\ F \in SUBSET B!Entries
    BY <1>1, <1>2, <2>1 DEF B!Records
  <2> QED
    BY <2>1, <2>2
<1>4. PICK s : s = IF r.state = "ACTIVE" THEN "DEGRADED" ELSE r.state
  OBVIOUS
<1>5. s \in B!States /\ s # "ABSENT"
  BY <1>3, <1>4 DEF B!States
<1>6. PICK r1 : r1 = Holding(r, q, F)
  OBVIOUS
<1>7. PICK r2 : r2 = Stated(r1, s)
  OBVIOUS
<1>8. /\ r1 \in B!Records /\ r1.state = r.state /\ r1.overflow = r.overflow
      /\ r1.queue = q /\ r1.inFlight = F
  <2> HIDE DEF r
  <2> QED
    BY <1>3, <1>6, HoldingRecord
<1>9. /\ r2 \in B!Records /\ r2.state = s /\ r2.overflow = r.overflow
      /\ r2.queue = q /\ r2.inFlight = F
  BY <1>5, <1>7, <1>8, StatedRecord
<1>10. PICK r3 : r3 \in {r1, r2} /\ w = [cs EXCEPT ![Consumer] = B!Reconciled(r3)]
  <2>1. CASE w = B!Acknowledged(cs, Consumer, x)
    <3>1. r1 = [r EXCEPT !.inFlight = r.inFlight \ {x}]
      BY <1>1, <1>2, <1>3, <1>6 DEF Holding, B!Records
    <3> QED
      BY <2>1, <3>1 DEF B!Acknowledged
  <2>2. CASE w = B!Failed(cs, Consumer, x, FALSE)
    <3>1. r2 = [r EXCEPT !.inFlight = r.inFlight \ {x},
                         !.queue = r.queue,
                         !.state = IF r.state = "ACTIVE" THEN "DEGRADED" ELSE r.state]
      BY <1>1, <1>2, <1>3, <1>4, <1>6, <1>7 DEF Holding, Stated, B!Records
    <3> QED
      BY <2>2, <3>1 DEF B!Failed
  <2> QED
    BY <2>1, <2>2
<1>11. /\ r3 \in B!Records /\ r3.state # "ABSENT" /\ r3.overflow = "REJECT_NEWEST"
       /\ r3.queue = <<>> /\ r3.inFlight = F
  BY <1>2, <1>3, <1>5, <1>8, <1>9, <1>10
<1>12. PICK r4 : r4 = B!Reconciled(r3)
  OBVIOUS
<1>13. /\ r4 \in B!Records /\ r4.state # "ABSENT" /\ r4.overflow = "REJECT_NEWEST"
       /\ r4.queue = <<>> /\ r4.inFlight = F
  BY <1>11, <1>12, ReconciledRecord
<1>14. w \in [{Consumer} -> B!Records] /\ w[Consumer] = r4
  BY <1>10, <1>12, <1>13
<1> QED
  BY <1>1, <1>3, <1>13, <1>14 DEF Served

\* A tick takes out no more than what has timed out.
LEMMA TickedRecord ==
    ASSUME NEW cs \in [{Consumer} -> B!Records], Served(cs[Consumer]), NEW w, w = B!Ticked(cs)
    PROVE  /\ w \in [{Consumer} -> B!Records] /\ Served(w[Consumer])
           /\ w[Consumer].inFlight \subseteq cs[Consumer].inFlight
<1> DEFINE r == cs[Consumer]
<1>1. /\ r \in B!Records /\ r.state # "ABSENT" /\ r.queue = <<>> /\ r.overflow = "REJECT_NEWEST"
      /\ r.timeout \in B!TimeoutActions /\ r.inFlight \in SUBSET B!Entries /\ r.queue \in Seq(B!Entries)
  BY DEF Served, B!Records
<1>2. PICK r1 : r1 = B!AfterTimeouts(r)
  OBVIOUS
<1>3. \/ r1 = r
      \/ \E s \in {"DEGRADED", "PAUSED", "FAILED"} : r1 = Stated(r, s)
      \/ r1 = [r EXCEPT !.inFlight = r.inFlight \ B!TimedOut(r)]
  <2>1. CASE B!TimedOut(r) = {}
    BY <1>2, <2>1 DEF B!AfterTimeouts
  <2>2. CASE B!TimedOut(r) # {}
    <3>1. r.timeout \in {"MARK_DEGRADED", "PAUSE_CONSUMER", "FAIL_CONSUMER", "DROP_TIMED_OUT"}
      BY <1>1, <2>2 DEF B!TimedOut, B!TimeoutActions
    <3> QED
      BY <1>2, <2>2, <3>1 DEF B!AfterTimeouts, Stated
  <2> QED
    BY <2>1, <2>2
<1>4. /\ r1 \in B!Records /\ r1.state # "ABSENT" /\ r1.overflow = "REJECT_NEWEST"
      /\ r1.queue = <<>> /\ r1.inFlight \subseteq r.inFlight
  <2>1. CASE r1 = r
    BY <1>1, <2>1
  <2>2. ASSUME NEW s \in {"DEGRADED", "PAUSED", "FAILED"}, r1 = Stated(r, s)
        PROVE  /\ r1 \in B!Records /\ r1.state # "ABSENT" /\ r1.overflow = "REJECT_NEWEST"
               /\ r1.queue = <<>> /\ r1.inFlight \subseteq r.inFlight
    <3>1. s \in B!States /\ s # "ABSENT"
      BY DEF B!States
    <3>2. /\ r1 \in B!Records /\ r1.state = s /\ r1.overflow = r.overflow /\ r1.queue = r.queue
          /\ r1.inFlight = r.inFlight
      BY <1>1, <2>2, <3>1, StatedRecord
    <3> QED
      BY <1>1, <3>1, <3>2
  <2>3. CASE r1 = [r EXCEPT !.inFlight = r.inFlight \ B!TimedOut(r)]
    <3>1. PICK F : F = r.inFlight \ B!TimedOut(r)
      OBVIOUS
    <3>2. F \in SUBSET B!Entries /\ F \subseteq r.inFlight
      BY <1>1, <3>1
    <3>3. r1 = Holding(r, r.queue, F)
      BY <1>1, <2>3, <3>1 DEF Holding, B!Records
    <3>4. /\ r1 \in B!Records /\ r1.state = r.state /\ r1.overflow = r.overflow
          /\ r1.queue = r.queue /\ r1.inFlight = F
      <4>1. PICK q : q = r.queue
        OBVIOUS
      <4>2. q \in Seq(B!Entries) /\ r1 = Holding(r, q, F)
        BY <1>1, <3>3, <4>1
      <4> HIDE DEF r
      <4>3. /\ r1 \in B!Records /\ r1.state = r.state /\ r1.overflow = r.overflow
            /\ r1.queue = q /\ r1.inFlight = F
        BY <1>1, <3>2, <4>2, HoldingRecord
      <4> QED
        BY <4>1, <4>3
    <3> QED
      BY <1>1, <3>2, <3>4
  <2> QED
    BY <1>3, <2>1, <2>2, <2>3
<1>5. PICK r2 : r2 = B!Reconciled(r1)
  OBVIOUS
<1>6. /\ r2 \in B!Records /\ r2.state # "ABSENT" /\ r2.overflow = "REJECT_NEWEST"
      /\ r2.queue = <<>> /\ r2.inFlight \subseteq r.inFlight
  BY <1>4, <1>5, ReconciledRecord
<1>8. w = [k \in {Consumer} |-> r2]
  BY <1>1, <1>2, <1>5 DEF B!Ticked, B!Registered
<1> QED
  BY <1>6, <1>8 DEF Served

\* What is in flight ages.
LEMMA AgedRecord ==
    ASSUME NEW cs \in [{Consumer} -> B!Records], Served(cs[Consumer]), NEW w, w = B!Aged(cs)
    PROVE  /\ w \in [{Consumer} -> B!Records] /\ Served(w[Consumer])
           /\ w[Consumer].inFlight = {B!Older(x) : x \in cs[Consumer].inFlight}
           /\ \A x \in cs[Consumer].inFlight : B!Older(x).id = x.id
<1> DEFINE r == cs[Consumer]
<1>1. /\ r \in B!Records /\ r.state # "ABSENT" /\ r.queue = <<>> /\ r.overflow = "REJECT_NEWEST"
      /\ r.inFlight \in SUBSET B!Entries /\ r.queue \in Seq(B!Entries)
  BY DEF Served, B!Records
<1>2. \A x \in B!Entries : B!Older(x) \in B!Entries /\ B!Older(x).id = x.id
  <2> SUFFICES ASSUME NEW x \in B!Entries PROVE B!Older(x) \in B!Entries /\ B!Older(x).id = x.id
    OBVIOUS
  <2>1. AckTimeout \in Nat /\ x.age \in 0..AckTimeout
    BY StreamingAssumption DEF B!Entries
  <2>2. PICK a : a = IF x.age < AckTimeout THEN x.age + 1 ELSE x.age
    OBVIOUS
  <2>3. a \in 0..AckTimeout
    BY <2>1, <2>2
  <2>4. B!Older(x) = [x EXCEPT !.age = a]
    BY <2>2 DEF B!Older
  <2> QED
    BY <2>3, <2>4 DEF B!Entries
<1>3. PICK F : F = {B!Older(x) : x \in r.inFlight}
  OBVIOUS
<1>4. F \in SUBSET B!Entries
  BY <1>1, <1>2, <1>3
<1>6. PICK r1 : r1 = Holding(r, r.queue, F)
  OBVIOUS
<1>7. /\ r1 \in B!Records /\ r1.state = r.state /\ r1.overflow = r.overflow
      /\ r1.queue = r.queue /\ r1.inFlight = F
  <2>1. PICK q : q = r.queue
    OBVIOUS
  <2>2. q \in Seq(B!Entries) /\ r1 = Holding(r, q, F)
    BY <1>1, <1>6, <2>1
  <2> HIDE DEF r
  <2>3. /\ r1 \in B!Records /\ r1.state = r.state /\ r1.overflow = r.overflow
        /\ r1.queue = q /\ r1.inFlight = F
    BY <1>1, <1>4, <2>2, HoldingRecord
  <2> QED
    BY <2>1, <2>3
<1>8. r1 = [r EXCEPT !.inFlight = F]
  BY <1>1, <1>6 DEF Holding, B!Records
<1>9. w = [k \in {Consumer} |-> r1]
  BY <1>3, <1>8 DEF B!Aged
<1> QED
  BY <1>1, <1>2, <1>3, <1>7, <1>9 DEF Served

\* The consumer as it is registered.
LEMMA StartedRecord ==
    ASSUME NEW p \in Configurations
    PROVE  /\ [k \in {Consumer} |-> [B!NoConsumer EXCEPT !.state = "ACTIVE", !.timeout = p.timeout]] \in [{Consumer} -> B!Records]
           /\ Served([B!NoConsumer EXCEPT !.state = "ACTIVE", !.timeout = p.timeout])
           /\ [B!NoConsumer EXCEPT !.state = "ACTIVE", !.timeout = p.timeout].inFlight = {}
<1>1. p.timeout \in B!TimeoutActions
  BY DEF Configurations, B!TimeoutActions
<1>2. PICK n : n = B!NoConsumer
  OBVIOUS
<1>3. n \in B!Records /\ n.queue = <<>> /\ n.overflow = "REJECT_NEWEST" /\ n.inFlight = {}
  <2>1. <<>> \in Seq(B!Entries) /\ {} \in SUBSET B!Entries
    OBVIOUS
  <2> QED
    BY <1>2, <2>1 DEF B!NoConsumer, B!Records, B!States, B!OverflowPolicies, B!TimeoutActions
<1>4. PICK a : a = Stated(n, "ACTIVE")
  OBVIOUS
<1>5. /\ a \in B!Records /\ a.state = "ACTIVE" /\ a.overflow = "REJECT_NEWEST" /\ a.queue = <<>> /\ a.inFlight = {}
  <2>1. "ACTIVE" \in B!States
    BY DEF B!States
  <2> QED
    BY <1>3, <1>4, <2>1, StatedRecord
<1>6. PICK r : r = [a EXCEPT !.timeout = p.timeout]
  OBVIOUS
<1>7. /\ r \in B!Records /\ r.state = "ACTIVE" /\ r.overflow = "REJECT_NEWEST" /\ r.queue = <<>> /\ r.inFlight = {}
  BY <1>1, <1>5, <1>6 DEF B!Records
<1>8. r = [B!NoConsumer EXCEPT !.state = "ACTIVE", !.timeout = p.timeout]
  BY <1>2, <1>4, <1>6 DEF Stated
<1>9. Served(r)
  BY <1>7 DEF Served
<1> QED
  BY <1>7, <1>8, <1>9

\* With nothing in flight nothing is pending.
LEMMA NothingPending ==
    ASSUME NEW r, Served(r), r.inFlight = {}
    PROVE  B!Pending(r) = 0
<1>1. B!Cardinality({}) = Cardinality({})
  BY Zenon DEF B!Cardinality, Cardinality
<1>2. B!Cardinality({}) = 0
  BY <1>1, FS_EmptySet
<1>3. Len(<<>>) = 0
  OBVIOUS
<1> QED
  BY <1>2, <1>3 DEF B!Pending, Served

-----------------------------------------------------------------------------
(* What is left to deliver                                                 *)

\* The parts of a sequence that is not empty.
LEMMA TailParts ==
    ASSUME NEW S, NEW s \in Seq(S), s # <<>>
    PROVE  /\ Len(s) \in Nat \ {0} /\ DOMAIN s = 1..Len(s) /\ Head(s) = s[1] /\ Head(s) \in S
           /\ Tail(s) \in Seq(S) /\ Len(Tail(s)) = Len(s) - 1 /\ DOMAIN Tail(s) = 1..Len(s) - 1
           /\ \A i \in 1..Len(s) - 1 : Tail(s)[i] = s[i + 1]
           /\ Tail(s) = <<>> <=> Len(s) = 1
           /\ ToSet(s) = {Head(s)} \cup ToSet(Tail(s))
<1>1. Len(s) \in Nat \ {0} /\ DOMAIN s = 1..Len(s)
  BY LenProperties, EmptySeq
<1>2. Tail(s) \in Seq(S) /\ Len(Tail(s)) = Len(s) - 1 /\ Head(s) = s[1] /\ Head(s) \in S
  BY <1>1, HeadTailProperties
<1>3. DOMAIN Tail(s) = 1..Len(s) - 1
  BY <1>2, LenProperties
<1>4. \A i \in 1..Len(s) - 1 : Tail(s)[i] = s[i + 1]
  BY <1>1, <1>2, HeadTailProperties
<1>5. Tail(s) = <<>> <=> Len(s) = 1
  BY <1>1, <1>2, EmptySeq
<1>6. ASSUME NEW x \in ToSet(s) PROVE x = Head(s) \/ x \in ToSet(Tail(s))
  <2>1. PICK i \in 1..Len(s) : x = s[i]
    BY <1>1, <1>6 DEF ToSet
  <2>2. CASE i = 1
    BY <1>2, <2>1, <2>2
  <2>3. CASE i # 1
    <3>1. i - 1 \in 1..Len(s) - 1 /\ (i - 1) + 1 = i
      BY <1>1, <2>3
    <3>2. Tail(s)[i - 1] = x
      BY <1>4, <2>1, <3>1
    <3> QED
      BY <1>3, <3>1, <3>2 DEF ToSet
  <2> QED
    BY <2>2, <2>3
<1>7. ASSUME NEW x \in ToSet(Tail(s)) PROVE x \in ToSet(s)
  <2>1. PICK i \in 1..Len(s) - 1 : x = Tail(s)[i]
    BY <1>3, <1>7 DEF ToSet
  <2>2. i + 1 \in DOMAIN s /\ x = s[i + 1]
    BY <1>1, <1>4, <2>1
  <2> QED
    BY <2>2 DEF ToSet
<1>8. Head(s) \in ToSet(s)
  BY <1>1, <1>2 DEF ToSet
<1> QED
  BY <1>1, <1>2, <1>3, <1>4, <1>5, <1>6, <1>7, <1>8

\* The rest of an ascending sequence is ascending, and after its head.
LEMMA AscendingTail ==
    ASSUME NEW s \in Seq(Events), s # <<>>, Ascending(s)
    PROVE  /\ Ascending(Tail(s))
           /\ \A x \in ToSet(Tail(s)) :
                 SeqNo[Head(s)] # 0 /\ SeqNo[x] # 0 => SeqNo[Head(s)] < SeqNo[x] /\ x # Head(s)
<1>1. /\ Len(s) \in Nat \ {0} /\ DOMAIN s = 1..Len(s) /\ Head(s) = s[1] /\ Head(s) \in Events
      /\ DOMAIN Tail(s) = 1..Len(s) - 1
      /\ \A i \in 1..Len(s) - 1 : Tail(s)[i] = s[i + 1]
  BY TailParts
<1>2. \A i \in 1..Len(s) - 1 : i + 1 \in DOMAIN s /\ 1 < i + 1
  BY <1>1
<1>3. \A i, j \in 1..Len(s) - 1 : i < j => i + 1 < j + 1
  BY <1>1
<1>4. Ascending(Tail(s))
  BY <1>1, <1>2, <1>3 DEF Ascending
<1>5. ASSUME NEW x \in ToSet(Tail(s)), SeqNo[Head(s)] # 0, SeqNo[x] # 0
      PROVE  SeqNo[Head(s)] < SeqNo[x] /\ x # Head(s)
  <2>1. PICK i \in 1..Len(s) - 1 : x = Tail(s)[i]
    BY <1>1, <1>5 DEF ToSet
  <2>2. x = s[i + 1] /\ i + 1 \in DOMAIN s /\ 1 \in DOMAIN s /\ 1 < i + 1
    BY <1>1, <1>2, <2>1
  <2>3. SeqNo[s[1]] < SeqNo[s[i + 1]]
    BY <1>1, <1>5, <2>2 DEF Ascending
  <2>4. SeqNo[Head(s)] \in Nat
    BY <1>1, EventFacts
  <2> QED
    BY <1>1, <2>2, <2>3, <2>4
<1> QED
  BY <1>4, <1>5

\* The calls, and the tick.
Carriers == {<<c>> : c \in Callers} \cup {<<>>}

\* What is left of s when its first element may be with the listeners.
Busy(s, busy) == IF busy THEN Tail(s) ELSE s

\* What is left to each carrier.
LeftOf(o, t, k) ==
    [x \in Carriers |-> IF x = <<>> THEN Busy(t, k) ELSE Busy(o[x[1]].todo, o[x[1]].pc = "routing")]

\* Carrier x takes s; event h is given once more.
Loaded(left, x, s) == [left EXCEPT ![x] = s]

\* Event h is given once more.
OnceMore(given, h) == [given EXCEPT ![h] = given[h] + 1]

\* The call of c has become v.
Called(o, c, v) == [o EXCEPT ![c] = v]

\* What is left, when one call changes.
LEMMA LeftOfCaller ==
    ASSUME NEW o, NEW t, NEW k, NEW c \in Callers, DOMAIN o = Callers, NEW v,
           NEW o2, o2 = Called(o, c, v)
    PROVE  /\ LeftOf(o2, t, k) = Loaded(LeftOf(o, t, k), <<c>>, Busy(v.todo, v.pc = "routing"))
           /\ <<c>> \in Carriers /\ LeftOf(o, t, k)[<<c>>] = Busy(o[c].todo, o[c].pc = "routing")
<1>1. \A x \in Carriers : x = <<>> \/ \E d \in Callers : x = <<d>>
  BY DEF Carriers
<1>2. \A d \in Callers : <<d>> # <<>> /\ <<d>>[1] = d /\ <<d>> \in Carriers
  BY DEF Carriers
<1>3. \A d \in Callers : <<d>> = <<c>> => d = c
  BY <1>2
<1>4. \A d \in Callers : o2[d] = IF d = c THEN v ELSE o[d]
  BY DEF Called
<1>5. \A x \in Carriers : LeftOf(o2, t, k)[x] = IF x = <<c>> THEN Busy(v.todo, v.pc = "routing") ELSE LeftOf(o, t, k)[x]
  <2> SUFFICES ASSUME NEW x \in Carriers
               PROVE  LeftOf(o2, t, k)[x] = IF x = <<c>> THEN Busy(v.todo, v.pc = "routing") ELSE LeftOf(o, t, k)[x]
    OBVIOUS
  <2>1. CASE x = <<>>
    BY <1>2, <2>1 DEF LeftOf
  <2>2. ASSUME NEW d \in Callers, x = <<d>>
        PROVE  LeftOf(o2, t, k)[x] = IF x = <<c>> THEN Busy(v.todo, v.pc = "routing") ELSE LeftOf(o, t, k)[x]
    <3>1. LeftOf(o2, t, k)[x] = Busy(o2[d].todo, o2[d].pc = "routing") /\ LeftOf(o, t, k)[x] = Busy(o[d].todo, o[d].pc = "routing")
      BY <1>2, <2>2 DEF LeftOf
    <3>2. x = <<c>> <=> d = c
      BY <1>3, <2>2
    <3> QED
      BY <1>4, <3>1, <3>2
  <2> QED
    BY <1>1, <2>1, <2>2
<1>6. LeftOf(o, t, k)[<<c>>] = Busy(o[c].todo, o[c].pc = "routing")
  BY <1>2 DEF LeftOf
<1> QED
  BY <1>2, <1>5, <1>6 DEF LeftOf, Loaded

\* What is left, when the tick changes.
LEMMA LeftOfTick ==
    ASSUME NEW o, NEW t, NEW k, NEW t2, NEW k2
    PROVE  /\ LeftOf(o, t2, k2) = Loaded(LeftOf(o, t, k), <<>>, Busy(t2, k2))
           /\ <<>> \in Carriers /\ LeftOf(o, t, k)[<<>>] = Busy(t, k)
BY DEF LeftOf, Carriers, Loaded

-----------------------------------------------------------------------------
(* Once, and in order                                                      *)

\* What is left is in sequence, not yet given, and nobody else's; what is left
\* or was given comes before anything the buffer may still release.
OnceOnly(left, given, last) ==
    /\ \A x \in Carriers : left[x] \in Seq(Events) /\ Ascending(left[x])
    /\ \A x \in Carriers : \A e \in ToSet(left[x]) : SeqNo[e] # 0 => SeqNo[e] <= last /\ given[e] = 0
    /\ \A x, y \in Carriers : x # y => \A e \in ToSet(left[x]) : SeqNo[e] # 0 => e \notin ToSet(left[y])
    /\ \A e \in Events : SeqNo[e] # 0 => given[e] <= 1 /\ (given[e] > 0 => SeqNo[e] <= last)

\* Nothing left comes before what was given.
InSight(left, given) ==
    \A x \in Carriers : \A e \in ToSet(left[x]) : \A f \in Events :
        SeqNo[e] # 0 /\ SeqNo[f] > SeqNo[e] => given[f] = 0

\* A carrier with nothing left takes what is released after all that came before.
LEMMA TakeOnce ==
    ASSUME NEW left, DOMAIN left = Carriers, NEW given \in [Events -> Nat], NEW last \in Nat, NEW last2 \in Nat,
           OnceOnly(left, given, last), NEW x \in Carriers, left[x] = <<>>, last <= last2,
           NEW s \in Seq(Events), Ascending(s),
           \A e \in ToSet(s) : SeqNo[e] # 0 => last < SeqNo[e] /\ SeqNo[e] <= last2,
           NEW left2, left2 = Loaded(left, x, s)
    PROVE  OnceOnly(left2, given, last2) /\ (InSight(left, given) => InSight(left2, given))
<1>1. \A y \in Carriers : left2[y] = IF y = x THEN s ELSE left[y]
  BY DEF Loaded
<1>2. \A e \in Events : SeqNo[e] \in Nat /\ given[e] \in Nat
  BY EventFacts
<1>3. \A y \in Carriers : ToSet(left[y]) \subseteq Events
  BY LenProperties DEF OnceOnly, ToSet
<1>4. ToSet(s) \subseteq Events
  BY LenProperties DEF ToSet
<1>5. \A e \in Events : SeqNo[e] # 0 /\ last < SeqNo[e] => given[e] = 0 /\ \A y \in Carriers : e \notin ToSet(left[y])
  BY <1>2 DEF OnceOnly
<1>6. \A y \in Carriers : left2[y] \in Seq(Events) /\ Ascending(left2[y])
  BY <1>1 DEF OnceOnly
<1>7. \A y \in Carriers : \A e \in ToSet(left2[y]) : SeqNo[e] # 0 => SeqNo[e] <= last2 /\ given[e] = 0
  BY <1>1, <1>2, <1>3, <1>4, <1>5 DEF OnceOnly
<1>8. ASSUME NEW y \in Carriers, NEW z \in Carriers, y # z, NEW e \in ToSet(left2[y]), SeqNo[e] # 0
      PROVE  e \notin ToSet(left2[z])
  <2>1. CASE y = x
    BY <1>1, <1>4, <1>5, <1>8, <2>1
  <2>2. CASE z = x
    <3>1. e \in ToSet(left[y]) /\ e \in Events
      BY <1>1, <1>3, <1>8, <2>2
    <3> QED
      BY <1>1, <1>5, <1>8, <2>2, <3>1
  <2>3. CASE y # x /\ z # x
    BY <1>1, <1>8, <2>3 DEF OnceOnly
  <2> QED
    BY <2>1, <2>2, <2>3
<1>9. \A e \in Events : SeqNo[e] # 0 => given[e] <= 1 /\ (given[e] > 0 => SeqNo[e] <= last2)
  BY <1>2 DEF OnceOnly
<1>10. ASSUME InSight(left, given) PROVE InSight(left2, given)
  <2> SUFFICES ASSUME NEW y \in Carriers, NEW e \in ToSet(left2[y]), NEW f \in Events,
                      SeqNo[e] # 0, SeqNo[f] > SeqNo[e]
               PROVE  given[f] = 0
    BY DEF InSight
  <2>1. CASE y # x
    BY <1>1, <1>10, <2>1 DEF InSight
  <2>2. CASE y = x
    BY <1>1, <1>2, <1>4, <1>5, <2>2
  <2> QED
    BY <2>1, <2>2
<1> QED
  BY <1>6, <1>7, <1>8, <1>9, <1>10 DEF OnceOnly

\* Carrier x is done with the first of what it has left.
Dropped(left, x) == [left EXCEPT ![x] = Tail(left[x])]

\* A carrier drops the first event it has left.
LEMMA DropOnce ==
    ASSUME NEW left, DOMAIN left = Carriers, NEW given \in [Events -> Nat], NEW last \in Nat,
           OnceOnly(left, given, last), NEW x \in Carriers, left[x] # <<>>,
           NEW left2, left2 = Dropped(left, x)
    PROVE  OnceOnly(left2, given, last) /\ (InSight(left, given) => InSight(left2, given))
<1>1. \A y \in Carriers : left2[y] = IF y = x THEN Tail(left[x]) ELSE left[y]
  BY DEF Dropped
<1>2. left[x] \in Seq(Events) /\ Ascending(left[x])
  BY DEF OnceOnly
<1>3. Tail(left[x]) \in Seq(Events) /\ ToSet(left[x]) = {Head(left[x])} \cup ToSet(Tail(left[x]))
  BY <1>2, TailParts
<1>4. Ascending(Tail(left[x]))
  BY <1>2, AscendingTail
<1>5. \A y \in Carriers : ToSet(left2[y]) \subseteq ToSet(left[y])
  BY <1>1, <1>3
<1>6. \A y \in Carriers : left2[y] \in Seq(Events) /\ Ascending(left2[y])
  BY <1>1, <1>3, <1>4 DEF OnceOnly
<1>7. \A y \in Carriers : \A e \in ToSet(left2[y]) : SeqNo[e] # 0 => SeqNo[e] <= last /\ given[e] = 0
  BY <1>5 DEF OnceOnly
<1>8. \A y, z \in Carriers : y # z => \A e \in ToSet(left2[y]) : SeqNo[e] # 0 => e \notin ToSet(left2[z])
  BY <1>5 DEF OnceOnly
<1>9. OnceOnly(left2, given, last)
  BY <1>6, <1>7, <1>8 DEF OnceOnly
<1>10. InSight(left, given) => InSight(left2, given)
  BY <1>5 DEF InSight
<1> QED
  BY <1>9, <1>10

\* A carrier gives the first event it has left to the listeners.
LEMMA GiveOnce ==
    ASSUME NEW left, DOMAIN left = Carriers, NEW given \in [Events -> Nat], NEW last \in Nat,
           OnceOnly(left, given, last), NEW x \in Carriers, left[x] # <<>>,
           NEW left2, left2 = Dropped(left, x),
           NEW h, h = Head(left[x]), NEW given2, given2 = OnceMore(given, h)
    PROVE  /\ h \in Events /\ given2 \in [Events -> Nat] /\ OnceOnly(left2, given2, last)
           /\ InSight(left, given) /\ (\A y \in Carriers : y # x => left[y] = <<>>) => InSight(left2, given2)
<1>1. \A y \in Carriers : left2[y] = IF y = x THEN Tail(left[x]) ELSE left[y]
  BY DEF Dropped
<1>2. left[x] \in Seq(Events) /\ Ascending(left[x])
  BY DEF OnceOnly
<1>3. ToSet(left[x]) = {h} \cup ToSet(Tail(left[x])) /\ h \in Events
  BY <1>2, TailParts
<1>4. \A e \in ToSet(Tail(left[x])) : SeqNo[h] # 0 /\ SeqNo[e] # 0 => SeqNo[h] < SeqNo[e] /\ e # h
  BY <1>2, AscendingTail
<1>5. given2 \in [Events -> Nat]
  BY <1>3 DEF OnceMore
<1>6. \A e \in Events : given2[e] = IF e = h THEN given[h] + 1 ELSE given[e]
  BY <1>3 DEF OnceMore
<1>7. \A e \in Events : SeqNo[e] \in Nat /\ given[e] \in Nat
  BY EventFacts
<1>8. OnceOnly(left2, given, last) /\ (InSight(left, given) => InSight(left2, given))
  BY DropOnce
<1>9. \A y \in Carriers : ToSet(left2[y]) \subseteq Events
  <2>1. \A y \in Carriers : left2[y] \in Seq(Events)
    BY <1>8 DEF OnceOnly
  <2> QED
    BY <2>1, LenProperties DEF ToSet
<1>10. SeqNo[h] # 0 => given[h] = 0 /\ SeqNo[h] <= last
  BY <1>3 DEF OnceOnly
<1>11. SeqNo[h] # 0 => \A y \in Carriers : h \notin ToSet(left2[y])
  BY <1>1, <1>3, <1>4 DEF OnceOnly
<1>12. \A y \in Carriers : \A e \in ToSet(left2[y]) : SeqNo[e] # 0 => given2[e] = given[e]
  BY <1>6, <1>9, <1>11
<1>13. \A e \in Events : SeqNo[e] # 0 => given2[e] <= 1 /\ (given2[e] > 0 => SeqNo[e] <= last)
  BY <1>6, <1>7, <1>8, <1>10 DEF OnceOnly
<1>14. OnceOnly(left2, given2, last)
  <2>1. \A y \in Carriers : \A e \in ToSet(left2[y]) : SeqNo[e] # 0 => SeqNo[e] <= last /\ given2[e] = 0
    <3>1. \A y \in Carriers : \A e \in ToSet(left2[y]) : SeqNo[e] # 0 => SeqNo[e] <= last /\ given[e] = 0
      BY <1>8 DEF OnceOnly
    <3> QED
      BY <1>12, <3>1
  <2> QED
    BY <1>8, <1>13, <2>1 DEF OnceOnly
<1>15. ASSUME InSight(left, given), \A y \in Carriers : y # x => left[y] = <<>> PROVE InSight(left2, given2)
  <2> SUFFICES ASSUME NEW y \in Carriers, NEW e \in ToSet(left2[y]), NEW f \in Events,
                      SeqNo[e] # 0, SeqNo[f] > SeqNo[e]
               PROVE  given2[f] = 0
    BY DEF InSight
  <2>1. y = x
    <3>1. ToSet(<<>>) = {}
      BY DEF ToSet
    <3> QED
      BY <1>1, <1>15, <3>1
  <2>2. given[f] = 0
    BY <1>8, <1>15 DEF InSight
  <2>3. e \in ToSet(Tail(left[x])) /\ e \in Events
    BY <1>1, <1>9, <2>1
  <2>4. f # h
    <3>1. CASE SeqNo[h] = 0
      BY <1>7, <2>3, <3>1
    <3>2. CASE SeqNo[h] # 0
      BY <1>3, <1>4, <1>7, <2>3, <3>2
    <3> QED
      BY <3>1, <3>2
  <2> QED
    BY <1>6, <2>2, <2>4
<1> QED
  BY <1>3, <1>5, <1>14, <1>15

-----------------------------------------------------------------------------
(* The calls                                                               *)

\* The records of the calls, as TypeOK has them.
CallRecords == [pc : {"idle", "validated", "releasing", "routing"}, event : {NoEvent} \cup Events,
                lag : 0..MaxLag, todo : Seq(Events), entry : 0..MaxEntries]

\* A call that waits has an event; it has events to deliver while it delivers.
Coherent(v) ==
    /\ v \in CallRecords
    /\ v.pc # "idle" => v.event \in Events
    /\ v.todo # <<>> <=> v.pc \in {"releasing", "routing"}

\* The line has calls that are validated, each once; the tick routes something while it waits.
Calls(o, l, t, k) ==
    /\ o \in [Callers -> CallRecords] /\ \A c \in Callers : Coherent(o[c])
    /\ l \in Seq(Callers)
    /\ \A i \in 1..Len(l) : o[l[i]].pc = "validated"
    /\ \A i, j \in 1..Len(l) : i # j => l[i] # l[j]
    /\ t \in Seq(Events) /\ k \in BOOLEAN /\ (k => t # <<>>)

\* A caller without a call.
LEMMA IdleCoherent == Coherent(Idle) /\ Idle.todo = <<>> /\ Idle.pc = "idle"
<1>1. 0 \in 0..MaxLag /\ 0 \in 0..MaxEntries
  <2>1. Cardinality(Events) \in Nat /\ MaxCalls \in Nat /\ MaxLag \in Nat
    BY StreamingAssumption, FS_CardinalityType
  <2>2. MaxEntries \in Nat
    BY <2>1 DEF MaxEntries
  <2> QED
    BY <2>1, <2>2
<1>2. <<>> \in Seq(Events)
  OBVIOUS
<1> QED
  BY <1>1, <1>2 DEF Coherent, CallRecords, Idle, NoEvent

\* A call that is not in line changes.
LEMMA CallsWith ==
    ASSUME NEW o, NEW l, NEW t, NEW k, Calls(o, l, t, k), NEW c \in Callers,
           o[c].pc # "validated", NEW v, Coherent(v), NEW o2, o2 = Called(o, c, v)
    PROVE  Calls(o2, l, t, k)
<1>1. \A d \in Callers : o2[d] = IF d = c THEN v ELSE o[d]
  BY DEF Calls, Called
<1>2. o2 \in [Callers -> CallRecords]
  BY DEF Calls, Called, Coherent
<1>3. \A i \in 1..Len(l) : l[i] \in Callers /\ l[i] # c
  BY LenProperties DEF Calls
<1> QED
  BY <1>1, <1>2, <1>3 DEF Calls

\* A call gets in line.
LEMMA CallsEnter ==
    ASSUME NEW o, NEW l, NEW t, NEW k, Calls(o, l, t, k), NEW c \in Callers,
           o[c].pc # "validated", NEW v, Coherent(v), v.pc = "validated", NEW o2, o2 = Called(o, c, v)
    PROVE  Calls(o2, Append(l, c), t, k)
<1>1. Calls(o2, l, t, k)
  BY CallsWith
<1>2. o2[c] = v
  BY DEF Calls, Called
<1>3. Len(l) \in Nat /\ \A i \in 1..Len(l) : l[i] \in Callers
  BY LenProperties DEF Calls
<1>4. \A i \in 1..Len(l) : l[i] # c
  BY DEF Calls, Called
<1> DEFINE m == Append(l, c)
<1>5. m \in Seq(Callers) /\ Len(m) = Len(l) + 1
  BY AppendProperties DEF Calls
<1>6. \A i \in 1..Len(l) + 1 : m[i] = IF i \in 1..Len(l) THEN l[i] ELSE c
  BY <1>3, AppendProperties DEF Calls
<1> HIDE DEF m
<1>7. \A i \in 1..Len(l) + 1 : i \in 1..Len(l) \/ i = Len(l) + 1
  BY <1>3
<1>8. \A i \in 1..Len(m) : o2[m[i]].pc = "validated"
  BY <1>1, <1>2, <1>5, <1>6 DEF Calls
<1>9. \A i, j \in 1..Len(m) : i # j => m[i] # m[j]
  BY <1>3, <1>4, <1>5, <1>6, <1>7 DEF Calls
<1> QED
  BY <1>1, <1>5, <1>8, <1>9 DEF Calls, m

\* The first in line leaves it.
LEMMA CallsLeave ==
    ASSUME NEW o, NEW l, NEW t, NEW k, Calls(o, l, t, k), l # <<>>, NEW c, c = Head(l),
           NEW v, Coherent(v), NEW o2, o2 = Called(o, c, v)
    PROVE  c \in Callers /\ o[c].pc = "validated" /\ Calls(o2, Tail(l), t, k)
<1>1. /\ Len(l) \in Nat \ {0} /\ DOMAIN l = 1..Len(l) /\ c = l[1] /\ c \in Callers
      /\ Tail(l) \in Seq(Callers) /\ Len(Tail(l)) = Len(l) - 1
      /\ \A i \in 1..Len(l) - 1 : Tail(l)[i] = l[i + 1]
  BY TailParts DEF Calls
<1>2. \A i \in 1..Len(l) - 1 : i + 1 \in 1..Len(l) /\ 1 \in 1..Len(l) /\ i + 1 # 1
  BY <1>1
<1>3. o[c].pc = "validated"
  BY <1>1 DEF Calls
<1>4. \A i \in 1..Len(l) - 1 : l[i + 1] # c /\ l[i + 1] \in Callers
  BY <1>1, <1>2, LenProperties DEF Calls
<1>5. \A d \in Callers : o2[d] = IF d = c THEN v ELSE o[d]
  BY DEF Calls, Called
<1>6. \A i \in 1..Len(Tail(l)) : o2[Tail(l)[i]].pc = "validated"
  BY <1>1, <1>2, <1>4, <1>5 DEF Calls
<1>7. \A i, j \in 1..Len(Tail(l)) : i # j => Tail(l)[i] # Tail(l)[j]
  <2> SUFFICES ASSUME NEW i \in 1..Len(l) - 1, NEW j \in 1..Len(l) - 1, i # j PROVE l[i + 1] # l[j + 1]
    BY <1>1
  <2>1. i + 1 \in 1..Len(l) /\ j + 1 \in 1..Len(l) /\ i + 1 # j + 1
    BY <1>1
  <2> QED
    BY <2>1 DEF Calls
<1>8. o2 \in [Callers -> CallRecords]
  <2>1. o \in [Callers -> CallRecords] /\ v \in CallRecords
    BY DEF Calls, Coherent
  <2> QED
    BY <2>1 DEF Called
<1> QED
  BY <1>1, <1>3, <1>5, <1>6, <1>7, <1>8 DEF Calls

\* The tick changes.
LEMMA CallsTick ==
    ASSUME NEW o, NEW l, NEW t, NEW k, Calls(o, l, t, k), NEW t2 \in Seq(Events), NEW k2 \in BOOLEAN, k2 => t2 # <<>>
    PROVE  Calls(o, l, t2, k2)
BY DEF Calls

\* What is left are events.
LEMMA LeftTyped ==
    ASSUME NEW o, NEW l, NEW t, NEW k, Calls(o, l, t, k), NEW left, left = LeftOf(o, t, k)
    PROVE  DOMAIN left = Carriers /\ \A x \in Carriers : left[x] \in Seq(Events)
<1>1. ASSUME NEW s \in Seq(Events), NEW b, b => s # <<>> PROVE Busy(s, b) \in Seq(Events)
  <2>1. CASE b
    BY <1>1, <2>1, TailParts DEF Busy
  <2>2. CASE ~b
    BY <1>1, <2>2 DEF Busy
  <2> QED
    BY <2>1, <2>2
<1>2. ASSUME NEW x \in Carriers PROVE left[x] \in Seq(Events)
  <2>1. CASE x = <<>>
    BY <1>1, <2>1 DEF LeftOf, Calls
  <2>2. ASSUME NEW c \in Callers, x = <<c>> PROVE left[x] \in Seq(Events)
    <3>1. left[x] = Busy(o[c].todo, o[c].pc = "routing")
      <4>1. <<c>> # <<>> /\ <<c>>[1] = c
        OBVIOUS
      <4> QED
        BY <2>2, <4>1 DEF LeftOf
    <3>2. o[c].todo \in Seq(Events) /\ (o[c].pc = "routing" => o[c].todo # <<>>)
      BY DEF Calls, Coherent, CallRecords
    <3> QED
      BY <1>1, <3>1, <3>2
  <2> QED
    BY <2>1, <2>2 DEF Carriers
<1> QED
  BY <1>2 DEF LeftOf

-----------------------------------------------------------------------------
(* One operation at a time                                                 *)

\* The call or the tick x is under way.
Works(o, t, k, x) == IF x = <<>> THEN k \/ t # <<>> ELSE o[x[1]].pc # "idle"

\* No two are under way.
Alone(o, t, k) == \A x, y \in Carriers : Works(o, t, k, x) /\ Works(o, t, k, y) => x = y

\* Who does not work has nothing left.
LEMMA WorksLeft ==
    ASSUME NEW o, NEW l, NEW t, NEW k, Calls(o, l, t, k), NEW x \in Carriers, ~Works(o, t, k, x)
    PROVE  LeftOf(o, t, k)[x] = <<>>
<1>1. CASE x = <<>>
  BY <1>1 DEF LeftOf, Works, Busy
<1>2. ASSUME NEW c \in Callers, x = <<c>> PROVE LeftOf(o, t, k)[x] = <<>>
  <2>1. <<c>> # <<>> /\ <<c>>[1] = c
    OBVIOUS
  <2>2. o[c].pc = "idle" /\ o[c].todo = <<>>
    BY <1>2, <2>1 DEF Works, Calls, Coherent
  <2> QED
    BY <1>2, <2>1, <2>2 DEF LeftOf, Busy
<1> QED
  BY <1>1, <1>2 DEF Carriers

\* No carrier starts to work.
LEMMA AloneLess ==
    ASSUME NEW o, NEW t, NEW k, Alone(o, t, k), NEW o2, NEW t2, NEW k2,
           \A c \in Callers : o2[c].pc # "idle" => o[c].pc # "idle",
           k2 \/ t2 # <<>> => k \/ t # <<>>
    PROVE  Alone(o2, t2, k2)
<1>1. ASSUME NEW x \in Carriers, Works(o2, t2, k2, x) PROVE Works(o, t, k, x)
  <2>1. CASE x = <<>>
    BY <1>1, <2>1 DEF Works
  <2>2. ASSUME NEW c \in Callers, x = <<c>> PROVE Works(o, t, k, x)
    <3>1. <<c>> # <<>> /\ <<c>>[1] = c
      OBVIOUS
    <3> QED
      BY <1>1, <2>2, <3>1 DEF Works
  <2> QED
    BY <2>1, <2>2 DEF Carriers
<1> QED
  BY <1>1 DEF Alone

\* The only one that works.
LEMMA AloneStart ==
    ASSUME NEW o, NEW t, NEW k, NEW x \in Carriers,
           \A c \in Callers : o[c].pc # "idle" => x = <<c>>,
           k \/ t # <<>> => x = <<>>
    PROVE  Alone(o, t, k)
<1>1. ASSUME NEW y \in Carriers, Works(o, t, k, y) PROVE y = x
  <2>1. CASE y = <<>>
    BY <1>1, <2>1 DEF Works
  <2>2. ASSUME NEW c \in Callers, y = <<c>> PROVE y = x
    <3>1. <<c>> # <<>> /\ <<c>>[1] = c
      OBVIOUS
    <3> QED
      BY <1>1, <2>2, <3>1 DEF Works
  <2> QED
    BY <2>1, <2>2 DEF Carriers
<1> QED
  BY <1>1 DEF Alone

-----------------------------------------------------------------------------
(* What was taken in                                                       *)

\* What was taken in is buffered, left to a carrier, given or accounted for.
Kept(left, given, acc, tk, D) ==
    \A e \in tk : e \in D \/ (\E x \in Carriers : e \in ToSet(left[x])) \/ given[e] > 0 \/ e \in acc

\* A carrier takes what the buffer releases.
LEMMA KeptTake ==
    ASSUME NEW left, DOMAIN left = Carriers, NEW given, NEW acc, NEW tk, NEW D, Kept(left, given, acc, tk, D),
           NEW x \in Carriers, left[x] = <<>>, NEW s, NEW left2, left2 = Loaded(left, x, s),
           NEW acc2, acc \subseteq acc2, NEW D2, D \subseteq D2 \cup ToSet(s) \cup acc2,
           NEW tk2, tk2 \subseteq tk \cup D2 \cup ToSet(s)
    PROVE  Kept(left2, given, acc2, tk2, D2)
<1>1. \A y \in Carriers : left2[y] = IF y = x THEN s ELSE left[y]
  BY DEF Loaded
<1>2. ToSet(left[x]) = {}
  BY DEF ToSet
<1>3. \A y \in Carriers : ToSet(left[y]) \subseteq ToSet(left2[y])
  BY <1>1, <1>2
<1>4. ToSet(left2[x]) = ToSet(s)
  BY <1>1
<1> QED
  BY <1>3, <1>4 DEF Kept

\* A carrier is done with the first event it has left.
LEMMA KeptRouted ==
    ASSUME NEW left, DOMAIN left = Carriers, NEW given \in [Events -> Nat], NEW acc, NEW tk \in SUBSET Events, NEW D,
           Kept(left, given, acc, tk, D),
           NEW x \in Carriers, left[x] \in Seq(Events), left[x] # <<>>, NEW left2, left2 = Dropped(left, x),
           NEW h, h = Head(left[x]), NEW given2, NEW acc2,
           \/ given2 = OnceMore(given, h) /\ acc2 = acc
           \/ given2 = given /\ acc2 = acc \cup {h}
    PROVE  Kept(left2, given2, acc2, tk, D)
<1>1. \A y \in Carriers : left2[y] = IF y = x THEN Tail(left[x]) ELSE left[y]
  BY DEF Dropped
<1>2. ToSet(left[x]) = {h} \cup ToSet(Tail(left[x])) /\ h \in Events
  BY TailParts
<1>3. acc \subseteq acc2 /\ \A e \in Events : given[e] > 0 => given2[e] > 0
  BY <1>2 DEF OnceMore
<1>4. given2[h] > 0 \/ h \in acc2
  BY <1>2 DEF OnceMore
<1> SUFFICES ASSUME NEW e \in tk
             PROVE  e \in D \/ (\E y \in Carriers : e \in ToSet(left2[y])) \/ given2[e] > 0 \/ e \in acc2
  BY DEF Kept
<1>5. CASE e \in D \/ given[e] > 0 \/ e \in acc
  BY <1>3, <1>5
<1>6. ASSUME NEW y \in Carriers, e \in ToSet(left[y])
      PROVE  (\E z \in Carriers : e \in ToSet(left2[z])) \/ given2[e] > 0 \/ e \in acc2
  <2>1. CASE y = x
    BY <1>1, <1>2, <1>4, <1>6, <2>1
  <2>2. CASE y # x
    BY <1>1, <1>6, <2>2
  <2> QED
    BY <2>1, <2>2
<1> QED
  BY <1>5, <1>6 DEF Kept

-----------------------------------------------------------------------------
(* What is in flight                                                       *)

\* Whatever is in flight is waited for by the call that dispatched it.
Flight(o, cs, n, has) ==
    /\ cs \in [{Consumer} -> B!Records] /\ Served(cs[Consumer])
    /\ n \in 1..MaxEntries + 1
    /\ \A x \in cs[Consumer].inFlight :
          x.id \in Nat /\ x.id < n /\ \E c \in Callers : o[c].pc = "routing" /\ o[c].entry = x.id
    /\ \A x, y \in cs[Consumer].inFlight : x.id = y.id => x = y
    /\ ~has => cs[Consumer].inFlight = {}

\* The bound is a number.
LEMMA MaxEntriesType == MaxEntries \in Nat
<1>1. Cardinality(Events) \in Nat /\ MaxCalls \in Nat
  BY StreamingAssumption, FS_CardinalityType
<1> QED
  BY <1>1 DEF MaxEntries

\* A call that does not route waits for nothing.
LEMMA FlightOthers ==
    ASSUME NEW o, NEW cs, NEW n, NEW has, Flight(o, cs, n, has), DOMAIN o = Callers,
           NEW c \in Callers, o[c].pc # "routing", NEW v, NEW o2, o2 = Called(o, c, v)
    PROVE  Flight(o2, cs, n, has)
<1>1. \A d \in Callers : o[d].pc = "routing" => o2[d] = o[d]
  BY DEF Called
<1> QED
  BY <1>1 DEF Flight

\* Entries in flight go, and none comes.
LEMMA FlightFewer ==
    ASSUME NEW o, NEW cs, NEW n, NEW has, Flight(o, cs, n, has),
           NEW cs2 \in [{Consumer} -> B!Records], Served(cs2[Consumer]),
           cs2[Consumer].inFlight \subseteq cs[Consumer].inFlight
    PROVE  Flight(o, cs2, n, has)
BY DEF Flight

\* Entries in flight age.
LEMMA FlightAged ==
    ASSUME NEW o, NEW cs, NEW n, NEW has, Flight(o, cs, n, has),
           NEW cs2 \in [{Consumer} -> B!Records], Served(cs2[Consumer]),
           cs2[Consumer].inFlight = {B!Older(x) : x \in cs[Consumer].inFlight},
           \A x \in cs[Consumer].inFlight : B!Older(x).id = x.id
    PROVE  Flight(o, cs2, n, has)
<1>1. \A y \in cs2[Consumer].inFlight : \E x \in cs[Consumer].inFlight : y = B!Older(x) /\ y.id = x.id
  OBVIOUS
<1> QED
  BY <1>1 DEF Flight

\* A call dispatches a new entry and waits for it.
LEMMA FlightDispatched ==
    ASSUME NEW o, NEW cs, NEW n, Flight(o, cs, n, TRUE), DOMAIN o = Callers, n <= MaxEntries,
           NEW c \in Callers, o[c].pc # "routing", NEW v, v.pc = "routing", v.entry = n,
           NEW o2, o2 = Called(o, c, v), NEW x, x.id = n,
           NEW cs2 \in [{Consumer} -> B!Records], Served(cs2[Consumer]),
           cs2[Consumer].inFlight = cs[Consumer].inFlight \cup {x}
    PROVE  Flight(o2, cs2, n + 1, TRUE)
<1>1. Flight(o2, cs, n, TRUE)
  BY FlightOthers
<1>2. o2[c] = v
  BY DEF Called
<1>3. n \in Nat /\ n + 1 \in 1..MaxEntries + 1
  BY MaxEntriesType DEF Flight
<1>4. \A y \in cs[Consumer].inFlight : y.id \in Nat /\ y.id < n /\ y.id < n + 1 /\ y.id # n
  BY <1>3 DEF Flight
<1>5. \A y \in cs2[Consumer].inFlight :
         y.id \in Nat /\ y.id < n + 1 /\ \E d \in Callers : o2[d].pc = "routing" /\ o2[d].entry = y.id
  <2> SUFFICES ASSUME NEW y \in cs2[Consumer].inFlight
               PROVE  y.id \in Nat /\ y.id < n + 1 /\ \E d \in Callers : o2[d].pc = "routing" /\ o2[d].entry = y.id
    OBVIOUS
  <2>1. CASE y = x
    BY <1>2, <1>3, <2>1
  <2>2. CASE y \in cs[Consumer].inFlight
    BY <1>1, <1>4, <2>2 DEF Flight
  <2> QED
    BY <2>1, <2>2
<1>6. \A y, z \in cs2[Consumer].inFlight : y.id = z.id => y = z
  BY <1>1, <1>4 DEF Flight
<1> QED
  BY <1>3, <1>5, <1>6 DEF Flight

\* The call that waited takes its entry out, if it is still there.
LEMMA FlightReturned ==
    ASSUME NEW o, NEW cs, NEW n, NEW has, Flight(o, cs, n, has), DOMAIN o = Callers,
           NEW c \in Callers, NEW v, NEW o2, o2 = Called(o, c, v),
           NEW cs2 \in [{Consumer} -> B!Records], Served(cs2[Consumer]),
           cs2[Consumer].inFlight \subseteq cs[Consumer].inFlight,
           \A x \in cs2[Consumer].inFlight : x.id # o[c].entry
    PROVE  Flight(o2, cs2, n, has)
<1>1. Flight(o, cs2, n, has)
  BY FlightFewer
<1>2. \A d \in Callers : d # c => o2[d] = o[d]
  BY DEF Called
<1>3. \A x \in cs2[Consumer].inFlight : \E d \in Callers : o2[d].pc = "routing" /\ o2[d].entry = x.id
  BY <1>1, <1>2 DEF Flight
<1> QED
  BY <1>1, <1>3 DEF Flight

-----------------------------------------------------------------------------
\* The part of what is released that the call delivers.
Own(p, s) == SubSeq(s, 1, Min({p.maxReleased, Len(s)}))

\* What a call delivers is the beginning of what was released, all of it if the bound allows.
LEMMA OwnPart ==
    ASSUME NEW p, p.maxReleased \in Nat \ {0}, NEW s \in Seq(Events), NEW own, own = Own(p, s)
    PROVE  /\ own \in Seq(Events) /\ ToSet(own) \subseteq ToSet(s)
           /\ Ascending(s) => Ascending(own)
           /\ Len(s) <= p.maxReleased => own = s
<1>1. PICK k \in Nat \ {0} : k = p.maxReleased
  OBVIOUS
<1>2. PICK n \in Nat : n = Len(s) /\ DOMAIN s = 1..n /\ s \in [1..n -> Events]
  BY LenProperties
<1>0. PICK m : m = Min({k, n})
  OBVIOUS
<1>3. m \in Nat /\ m <= n /\ m <= k /\ (n <= k => m = n)
  <2>1. {k, n} \in SUBSET Nat /\ {k, n} # {}
    BY <1>2
  <2>2. Min({k, n}) \in {k, n} /\ \A y \in {k, n} : Min({k, n}) <= y
    BY <2>1, LeastNatural
  <2> QED
    BY <1>0, <1>2, <2>2
<1>4. own = SubSeq(s, 1, m)
  BY <1>0, <1>1, <1>2 DEF Own
<1>5. \A i \in 1..m : i \in 1..n
  BY <1>3
<1>6. own \in Seq(Events) /\ Len(own) = m /\ DOMAIN own = 1..m /\ \A i \in 1..m : own[i] = s[i]
  <2>1. 1 \in Int /\ m \in Int /\ \A i \in 1..m : s[i] \in Events
    <3>1. \A i \in 1..n : s[i] \in Events
      BY <1>2
    <3>2. \A i \in 1..m : s[i] \in Events
      BY <1>5, <3>1
    <3>3. m \in Int
      BY <1>3
    <3> QED
      BY <3>2, <3>3
  <2>2. /\ own \in Seq(Events) /\ Len(own) = IF 1 <= m THEN m - 1 + 1 ELSE 0
        /\ \A i \in 1..m - 1 + 1 : own[i] = s[1 + i - 1]
    BY <1>4, <2>1, SubSeqProperties
  <2>3. Len(own) = m /\ m - 1 + 1 = m
    BY <1>3, <2>2
  <2>4. DOMAIN own = 1..m
    BY <2>2, <2>3, LenProperties
  <2>5. \A i \in 1..m : 1 + i - 1 = i
    OBVIOUS
  <2>6. \A i \in 1..m : own[i] = s[i]
    BY <2>2, <2>3, <2>5
  <2> QED
    BY <2>2, <2>3, <2>4, <2>6
<1>7. \A x \in ToSet(own) : x \in ToSet(s)
  <2> SUFFICES ASSUME NEW x \in ToSet(own) PROVE x \in ToSet(s)
    OBVIOUS
  <2>1. PICK i \in 1..m : x = own[i]
    BY <1>6 DEF ToSet
  <2> QED
    BY <1>2, <1>5, <1>6, <2>1 DEF ToSet
<1>8. ASSUME Ascending(s) PROVE Ascending(own)
  <2>1. \A i, j \in 1..m : i < j /\ SeqNo[s[i]] # 0 /\ SeqNo[s[j]] # 0 => SeqNo[s[i]] < SeqNo[s[j]]
    BY <1>2, <1>5, <1>8 DEF Ascending
  <2> QED
    BY <1>6, <2>1 DEF Ascending
<1>9. n <= k => own = s
  BY <1>2, <1>3, <1>6
<1> QED
  BY <1>1, <1>2, <1>6, <1>7, <1>8, <1>9

-----------------------------------------------------------------------------
(* The invariant                                                           *)

\* The configurations in which nothing that is taken in is dropped in silence.
Lossless(p) == p.overflow # "FLUSH_OLDEST" /\ p.maxReleased >= Cardinality(Events)

\* Orderly, of a policy.
InOrderOnly(p) ==
    p.mode # "TIMESTAMP" /\ p.late # "RELEASE" /\ p.overflow # "FLUSH_OLDEST" /\ ~p.crowded

\* What was taken in, what is left of it and what was given.
Accounts(p, left, given, acc, tk, st, ov) ==
    /\ Lossless(p) => Kept(left, given, acc, tk, DOMAIN st.buffered)
    /\ InOrderOnly(p) => InTurn(st) /\ OnceOnly(left, given, st.lastSeq)
    /\ InOrderOnly(p) /\ ~ov => InSight(left, given)

\* What is left to each carrier now.
Left == LeftOf(op, tick, ticking)

\* The variables the other parts do not speak of.
Typed ==
    /\ policy \in Policies /\ current \in Nat /\ calls \in 0..MaxCalls
    /\ delivered \in [Events -> Nat] /\ taken \in SUBSET Events /\ accounted \in SUBSET Events
    /\ overlapped \in BOOLEAN

\* The inductive invariant.
SInv ==
    /\ Typed
    /\ Calls(op, line, tick, ticking)
    /\ Flight(op, consumers, nextEntry, policy.consumer)
    /\ Settled(policy, stream)
    /\ Accounts(policy, Left, delivered, accounted, taken, stream, overlapped)
    /\ ~overlapped => Alone(op, tick, ticking)

-----------------------------------------------------------------------------

\* Nothing is taken in, released or given.
LEMMA AccountsQuiet ==
    ASSUME NEW p, NEW left, NEW given, NEW acc, NEW tk, NEW st, NEW ov, Accounts(p, left, given, acc, tk, st, ov),
           NEW st2, DOMAIN st2.buffered = DOMAIN st.buffered, st2.next = st.next, st2.lastSeq = st.lastSeq,
           NEW ov2, ov => ov2
    PROVE  Accounts(p, left, given, acc, tk, st2, ov2)
BY DEF Accounts, InTurn

\* Stream st has released rel in turn, and become st2.
Follows(st, st2, rel) ==
    /\ InTurn(st2) /\ Ascending(rel) /\ st.lastSeq <= st2.lastSeq
    /\ \A e \in ToSet(rel) : SeqNo[e] # 0 => st.lastSeq < SeqNo[e] /\ SeqNo[e] <= st2.lastSeq

\* What stream st had buffered and what was taken in is accounted for when it has become st2.
Covers(st, tk, st2, tk2, s, acc2) ==
    /\ DOMAIN st.buffered \subseteq DOMAIN st2.buffered \cup ToSet(s) \cup acc2
    /\ tk2 \subseteq tk \cup DOMAIN st2.buffered \cup ToSet(s)

\* Carrier x takes what the buffer releases.
LEMMA AccountsTake ==
    ASSUME NEW p, NEW left, DOMAIN left = Carriers, NEW given \in [Events -> Nat], NEW acc, NEW tk, NEW st, NEW ov,
           Accounts(p, left, given, acc, tk, st, ov), st \in O!Streams,
           NEW x \in Carriers, left[x] = <<>>,
           NEW rel, NEW s \in Seq(Events), ToSet(s) \subseteq ToSet(rel), Ascending(rel) => Ascending(s),
           NEW st2 \in O!Streams,
           InOrderOnly(p) /\ InTurn(st) => Follows(st, st2, rel),
           NEW acc2, acc \subseteq acc2, NEW tk2,
           Lossless(p) => Covers(st, tk, st2, tk2, s, acc2),
           NEW left2, left2 = Loaded(left, x, s)
    PROVE  Accounts(p, left2, given, acc2, tk2, st2, ov)
<1>1. st.lastSeq \in Nat /\ st2.lastSeq \in Nat
  BY StreamParts
<1>2. ASSUME Lossless(p) PROVE Kept(left2, given, acc2, tk2, DOMAIN st2.buffered)
  <2>1. Kept(left, given, acc, tk, DOMAIN st.buffered)
    BY <1>2 DEF Accounts
  <2>2. PICK D : D = DOMAIN st.buffered
    OBVIOUS
  <2>3. PICK D2 : D2 = DOMAIN st2.buffered
    OBVIOUS
  <2>4. Kept(left2, given, acc2, tk2, D2)
    BY <1>2, <2>1, <2>2, <2>3, KeptTake DEF Covers
  <2> QED
    BY <2>3, <2>4
<1>3. ASSUME InOrderOnly(p)
      PROVE  /\ InTurn(st2) /\ OnceOnly(left2, given, st2.lastSeq)
             /\ InSight(left, given) => InSight(left2, given)
  <2>1. InTurn(st) /\ OnceOnly(left, given, st.lastSeq)
    BY <1>3 DEF Accounts
  <2>2. InTurn(st2) /\ Ascending(s) /\ st.lastSeq <= st2.lastSeq
    BY <1>3, <2>1 DEF Follows
  <2>3. \A e \in ToSet(s) : SeqNo[e] # 0 => st.lastSeq < SeqNo[e] /\ SeqNo[e] <= st2.lastSeq
    BY <1>3, <2>1 DEF Follows
  <2>4. PICK a \in Nat : a = st.lastSeq
    BY <1>1
  <2>5. PICK b \in Nat : b = st2.lastSeq
    BY <1>1
  <2>6. OnceOnly(left2, given, b) /\ (InSight(left, given) => InSight(left2, given))
    BY <2>1, <2>2, <2>3, <2>4, <2>5, TakeOnce
  <2> QED
    BY <2>2, <2>5, <2>6
<1> QED
  BY <1>2, <1>3 DEF Accounts

\* What InOrder says of one step.
GivenInOrder(p, ov, given, given2) ==
    InOrderOnly(p) /\ ~ov =>
        \A e \in Events : SeqNo[e] # 0 /\ given2[e] > given[e] =>
            \A f \in Events : SeqNo[f] > SeqNo[e] => given[f] = 0

\* The first event of carrier x is given to the listeners once more, or accounted for.
RoutedFirst(left, x, given, acc, given2, acc2) ==
    \/ given2 = OnceMore(given, Head(left[x])) /\ acc2 = acc
    \/ given2 = given /\ acc2 = acc \cup {Head(left[x])}

\* Carrier x is done with the first event it has left.
LEMMA AccountsRouted ==
    ASSUME NEW p, NEW left, DOMAIN left = Carriers, \A y \in Carriers : left[y] \in Seq(Events),
           NEW given \in [Events -> Nat], NEW acc \in SUBSET Events, NEW tk \in SUBSET Events, NEW st, NEW ov,
           Accounts(p, left, given, acc, tk, st, ov), st \in O!Streams,
           NEW x \in Carriers, left[x] # <<>>,
           ~ov => \A y \in Carriers : y # x => left[y] = <<>>,
           NEW given2, NEW acc2, RoutedFirst(left, x, given, acc, given2, acc2)
    PROVE  /\ given2 \in [Events -> Nat] /\ acc2 \in SUBSET Events
           /\ Accounts(p, Dropped(left, x), given2, acc2, tk, st, ov)
           /\ GivenInOrder(p, ov, given, given2)
<1>9. PICK h : h = Head(left[x])
  OBVIOUS
<1>10. PICK left2 : left2 = Dropped(left, x)
  OBVIOUS
<1>11. \/ given2 = OnceMore(given, h) /\ acc2 = acc
       \/ given2 = given /\ acc2 = acc \cup {h}
  BY <1>9 DEF RoutedFirst
<1>1. h \in Events /\ h \in ToSet(left[x])
  BY <1>9, TailParts
<1>2. given2 \in [Events -> Nat] /\ acc2 \in SUBSET Events
  BY <1>1, <1>11 DEF OnceMore
<1>3. st.lastSeq \in Nat
  BY StreamParts
<1>4. ASSUME Lossless(p) PROVE Kept(left2, given2, acc2, tk, DOMAIN st.buffered)
  <2>1. Kept(left, given, acc, tk, DOMAIN st.buffered)
    BY <1>4 DEF Accounts
  <2>2. left[x] \in Seq(Events)
    OBVIOUS
  <2> QED
    BY <1>9, <1>10, <1>11, <2>1, <2>2, KeptRouted
<1>5. ASSUME InOrderOnly(p)
      PROVE  /\ InTurn(st) /\ OnceOnly(left2, given2, st.lastSeq)
             /\ ~ov => InSight(left2, given2)
  <2>1. InTurn(st) /\ OnceOnly(left, given, st.lastSeq) /\ (~ov => InSight(left, given))
    BY <1>5 DEF Accounts
  <2>2. PICK a \in Nat : a = st.lastSeq
    BY <1>3
  <2>3. CASE given2 = OnceMore(given, h)
    <3>1. OnceOnly(left2, given2, a)
      BY <1>9, <1>10, <2>1, <2>2, <2>3, GiveOnce
    <3>2. InSight(left, given) /\ (\A y \in Carriers : y # x => left[y] = <<>>) => InSight(left2, given2)
      BY <1>9, <1>10, <2>1, <2>2, <2>3, GiveOnce
    <3> QED
      BY <2>1, <2>2, <3>1, <3>2
  <2>4. CASE given2 = given
    <3>1. OnceOnly(left2, given, a) /\ (InSight(left, given) => InSight(left2, given))
      BY <1>9, <1>10, <2>1, <2>2, DropOnce
    <3> QED
      BY <2>1, <2>2, <2>4, <3>1
  <2> QED
    BY <1>11, <2>3, <2>4
<1>6. ASSUME InOrderOnly(p), ~ov, NEW e \in Events, SeqNo[e] # 0, given2[e] > given[e],
             NEW f \in Events, SeqNo[f] > SeqNo[e]
      PROVE  given[f] = 0
  <2>1. e = h
    BY <1>1, <1>6, <1>11 DEF OnceMore
  <2>2. InSight(left, given)
    BY <1>6 DEF Accounts
  <2> QED
    BY <1>1, <1>6, <1>9, <2>1, <2>2 DEF InSight
<1>7. Accounts(p, left2, given2, acc2, tk, st, ov)
  BY <1>4, <1>5 DEF Accounts
<1>8. GivenInOrder(p, ov, given, given2)
  BY <1>6 DEF GivenInOrder
<1> QED
  BY <1>2, <1>7, <1>8, <1>10

\* The fields of a policy.
LEMMA PolicyParts ==
    ASSUME NEW p \in Policies
    PROVE  /\ p \in Configurations /\ p.maxReleased \in Nat \ {0} /\ p.consumer \in BOOLEAN /\ p.crowded \in BOOLEAN
           /\ p.lags \in SUBSET (0..MaxLag) /\ p.events \in SUBSET Events
           /\ p.overflow \in {"REJECT_NEWEST", "DROP_OLDEST", "FLUSH_OLDEST"}
BY StreamingAssumption DEF Configurations

\* How the record of a call changes.
Entered(e, lag) == [Idle EXCEPT !.pc = "validated", !.event = e, !.lag = lag]

\* What the buffer has released is the call's; with nothing released it returns.
Owning(v, own) == IF own = <<>> THEN Idle ELSE [v EXCEPT !.pc = "releasing", !.todo = own]

\* The call goes on to its next event, or returns.
Proceeded(v) ==
    IF Len(v.todo) = 1 THEN Idle ELSE [v EXCEPT !.pc = "releasing", !.todo = Tail(v.todo), !.entry = 0]

\* The call waits for the listeners, with entry n in flight.
RoutingFor(v, n) == [v EXCEPT !.pc = "routing", !.entry = n]

\* A call that is validated.
LEMMA EnteredCall ==
    ASSUME NEW e \in Events, NEW lag \in 0..MaxLag, NEW w, w = Entered(e, lag)
    PROVE  Coherent(w) /\ w.pc = "validated" /\ w.todo = <<>> /\ Busy(w.todo, w.pc = "routing") = <<>>
<1>1. w = [pc |-> "validated", event |-> e, lag |-> lag, todo |-> <<>>, entry |-> 0]
  BY DEF Entered, Idle
<1>2. 0 \in 0..MaxEntries /\ <<>> \in Seq(Events)
  BY MaxEntriesType
<1> QED
  BY <1>1, <1>2 DEF Coherent, CallRecords, Busy

\* A call whose event the buffer has taken.
LEMMA OwningCall ==
    ASSUME NEW v, Coherent(v), v.pc = "validated", NEW own \in Seq(Events), NEW w, w = Owning(v, own)
    PROVE  Coherent(w) /\ w.pc \in {"idle", "releasing"} /\ Busy(w.todo, w.pc = "routing") = own
<1>1. CASE own = <<>>
  BY <1>1, IdleCoherent DEF Owning, Busy
<1>2. CASE own # <<>>
  <2>1. w = [v EXCEPT !.pc = "releasing", !.todo = own]
    BY <1>2 DEF Owning
  <2>2. v \in CallRecords /\ v.event \in Events
    BY DEF Coherent
  <2>3. w \in CallRecords /\ w.pc = "releasing" /\ w.todo = own /\ w.event = v.event
    BY <2>1, <2>2 DEF CallRecords
  <2> QED
    BY <1>2, <2>2, <2>3 DEF Coherent, Busy
<1> QED
  BY <1>1, <1>2

\* A call that is done with one event.
LEMMA ProceededCall ==
    ASSUME NEW v, Coherent(v), v.pc \in {"releasing", "routing"}, NEW w, w = Proceeded(v)
    PROVE  /\ v.todo \in Seq(Events) /\ v.todo # <<>>
           /\ Coherent(w) /\ w.pc \in {"idle", "releasing"} /\ Busy(w.todo, w.pc = "routing") = Tail(v.todo)
<1>1. v \in CallRecords /\ v.event \in Events /\ v.todo \in Seq(Events) /\ v.todo # <<>>
  BY DEF Coherent, CallRecords
<1>2. Tail(v.todo) \in Seq(Events) /\ (Tail(v.todo) = <<>> <=> Len(v.todo) = 1)
  BY <1>1, TailParts
<1>3. CASE Len(v.todo) = 1
  BY <1>1, <1>2, <1>3, IdleCoherent DEF Proceeded, Busy
<1>4. CASE Len(v.todo) # 1
  <2>1. PICK t : t = Tail(v.todo)
    OBVIOUS
  <2>2. w = [v EXCEPT !.pc = "releasing", !.todo = t, !.entry = 0]
    BY <1>4, <2>1 DEF Proceeded
  <2>3. 0 \in 0..MaxEntries /\ t \in Seq(Events) /\ t # <<>>
    BY <1>2, <1>4, <2>1, MaxEntriesType
  <2>4. w \in CallRecords /\ w.pc = "releasing" /\ w.todo = t /\ w.event = v.event
    BY <1>1, <2>2, <2>3 DEF CallRecords
  <2> QED
    BY <1>1, <2>1, <2>3, <2>4 DEF Coherent, Busy
<1> QED
  BY <1>3, <1>4

\* A call that waits for the listeners.
LEMMA RoutingCall ==
    ASSUME NEW v, Coherent(v), v.pc = "releasing", NEW n \in 0..MaxEntries, NEW w, w = RoutingFor(v, n)
    PROVE  /\ v.todo \in Seq(Events) /\ v.todo # <<>>
           /\ Coherent(w) /\ w.pc = "routing" /\ w.entry = n /\ Busy(w.todo, w.pc = "routing") = Tail(v.todo)
<1>1. v \in CallRecords /\ v.event \in Events /\ v.todo \in Seq(Events) /\ v.todo # <<>>
  BY DEF Coherent, CallRecords
<1>2. w = [v EXCEPT !.pc = "routing", !.entry = n]
  BY DEF RoutingFor
<1>3. w \in CallRecords /\ w.pc = "routing" /\ w.entry = n /\ w.todo = v.todo /\ w.event = v.event
  BY <1>1, <1>2 DEF CallRecords
<1> QED
  BY <1>1, <1>3 DEF Coherent, Busy

\* What is left when a carrier has the same left.
LEMMA LoadedSame ==
    ASSUME NEW left, left = [x \in DOMAIN left |-> left[x]], NEW x, NEW s, left[x] = s
    PROVE  Loaded(left, x, s) = left
BY DEF Loaded

\* How the left of the others, and of all, changes with one call.
LEMMA CallChanges ==
    ASSUME NEW o, NEW l, NEW t, NEW k, Calls(o, l, t, k), NEW c \in Callers, NEW v, NEW o2, o2 = Called(o, c, v),
           NEW s, s = Busy(v.todo, v.pc = "routing")
    PROVE  /\ <<c>> \in Carriers /\ LeftOf(o, t, k)[<<c>>] = Busy(o[c].todo, o[c].pc = "routing")
           /\ LeftOf(o2, t, k) = Loaded(LeftOf(o, t, k), <<c>>, s)
           /\ LeftOf(o, t, k)[<<c>>] = s => LeftOf(o2, t, k) = LeftOf(o, t, k)
           /\ s = Tail(LeftOf(o, t, k)[<<c>>]) => LeftOf(o2, t, k) = Dropped(LeftOf(o, t, k), <<c>>)
<1>1. DOMAIN o = Callers
  BY DEF Calls
<1>2. /\ LeftOf(o2, t, k) = Loaded(LeftOf(o, t, k), <<c>>, s)
      /\ <<c>> \in Carriers /\ LeftOf(o, t, k)[<<c>>] = Busy(o[c].todo, o[c].pc = "routing")
  BY <1>1, LeftOfCaller
<1>3. PICK left : left = LeftOf(o, t, k)
  OBVIOUS
<1>4. left = [x \in DOMAIN left |-> left[x]]
  BY <1>3 DEF LeftOf
<1>5. left[<<c>>] = s => Loaded(left, <<c>>, s) = left
  BY <1>4, LoadedSame
<1>6. s = Tail(left[<<c>>]) => Loaded(left, <<c>>, s) = Dropped(left, <<c>>)
  BY DEF Loaded, Dropped
<1> QED
  BY <1>2, <1>3, <1>5, <1>6

\* How what is left changes with the tick.
LEMMA TickChanges ==
    ASSUME NEW o, NEW t, NEW k, NEW t2, NEW k2, NEW s, s = Busy(t2, k2)
    PROVE  /\ <<>> \in Carriers /\ LeftOf(o, t, k)[<<>>] = Busy(t, k)
           /\ LeftOf(o, t2, k2) = Loaded(LeftOf(o, t, k), <<>>, s)
           /\ LeftOf(o, t, k)[<<>>] = s => LeftOf(o, t2, k2) = LeftOf(o, t, k)
           /\ s = Tail(LeftOf(o, t, k)[<<>>]) => LeftOf(o, t2, k2) = Dropped(LeftOf(o, t, k), <<>>)
<1>2. /\ LeftOf(o, t2, k2) = Loaded(LeftOf(o, t, k), <<>>, s)
      /\ <<>> \in Carriers /\ LeftOf(o, t, k)[<<>>] = Busy(t, k)
  BY LeftOfTick
<1>3. PICK left : left = LeftOf(o, t, k)
  OBVIOUS
<1>4. left = [x \in DOMAIN left |-> left[x]]
  BY <1>3 DEF LeftOf
<1>5. left[<<>>] = s => Loaded(left, <<>>, s) = left
  BY <1>4, LoadedSame
<1>6. s = Tail(left[<<>>]) => Loaded(left, <<>>, s) = Dropped(left, <<>>)
  BY DEF Loaded, Dropped
<1> QED
  BY <1>2, <1>3, <1>5, <1>6

-----------------------------------------------------------------------------
(* The steps                                                               *)

\* What the validator does to its current sequence.
LEMMA AdvancedType ==
    ASSUME NEW p, NEW n \in Nat, NEW e \in Events, NEW verdict
    PROVE  V!Advanced(p, n, e, verdict) \in Nat
BY EventFacts DEF V!Advanced

\* An event is validated: nothing moves but the call.
LEMMA ProcessStep ==
    ASSUME SInv, NEW c \in Callers, NEW e \in policy.events, NEW lag \in policy.lags, NEW request,
           Process(c, e, lag, request)
    PROVE  SInv'
<1>1. /\ policy \in Policies /\ current \in Nat /\ calls \in 0..MaxCalls
      /\ Calls(op, line, tick, ticking) /\ Flight(op, consumers, nextEntry, policy.consumer)
      /\ Accounts(policy, LeftOf(op, tick, ticking), delivered, accounted, taken, stream, overlapped)
      /\ ~overlapped => Alone(op, tick, ticking)
  BY DEF SInv, Typed, Left
<1>2. e \in Events /\ lag \in 0..MaxLag
  BY <1>1, PolicyParts
<1>3. Typed'
  <2>1. current' \in Nat
    <3>1. PICK verdict : verdict = V!Verdict(current, e, request)
      OBVIOUS
    <3>2. current' = V!Advanced(policy, current, e, verdict)
      BY <3>1 DEF Process
    <3> QED
      BY <1>1, <1>2, <3>2, AdvancedType
  <2>2. calls' \in 0..MaxCalls
    BY <1>1, StreamingAssumption DEF Process
  <2>3. overlapped' \in BOOLEAN
    BY DEF Process, SInv, Typed, TickActive
  <2> QED
    BY <1>1, <2>1, <2>2, <2>3 DEF SInv, Typed, Process, history
<1>4. /\ overlapped => overlapped'
      /\ ~overlapped' => ~TickActive /\ \A d \in Callers : op[d].pc = "idle"
  BY DEF Process, Active
<1>5. op[c].pc = "idle" /\ DOMAIN op = Callers /\ op[c].todo = <<>>
  BY <1>1 DEF Process, Active, Calls, Coherent
<1>6. CASE op' = op /\ line' = line
  <2>1. ~overlapped' => Alone(op, tick, ticking)
    BY <1>1, <1>4
  <2>2. PICK left : left = LeftOf(op, tick, ticking)
    OBVIOUS
  <2>3. Accounts(policy, left, delivered, accounted, taken, stream, overlapped')
    BY <1>1, <1>4, <2>2 DEF Accounts
  <2>4. UNCHANGED <<policy, stream, consumers, nextEntry, tick, ticking, delivered, accounted, taken>>
    BY DEF Process, history
  <2> QED
    BY <1>1, <1>3, <1>6, <2>1, <2>2, <2>3, <2>4 DEF SInv, Left
<1>7. CASE op' = Called(op, c, Entered(e, lag)) /\ line' = Append(line, c)
  <2>1. PICK v : v = Entered(e, lag)
    OBVIOUS
  <2>2. Coherent(v) /\ v.pc = "validated" /\ Busy(v.todo, v.pc = "routing") = <<>>
    BY <1>2, <2>1, EnteredCall
  <2>3. op' = Called(op, c, v)
    BY <1>7, <2>1
  <2>4. Calls(op', line', tick, ticking)
    BY <1>1, <1>5, <1>7, <2>2, <2>3, CallsEnter
  <2>5. Flight(op', consumers, nextEntry, policy.consumer)
    BY <1>1, <1>5, <2>3, FlightOthers
  <2>6. LeftOf(op', tick, ticking) = LeftOf(op, tick, ticking)
    <3>1. Busy(op[c].todo, op[c].pc = "routing") = <<>>
      BY <1>5 DEF Busy
    <3>2. PICK s : s = Busy(v.todo, v.pc = "routing")
      OBVIOUS
    <3>3. LeftOf(op, tick, ticking)[<<c>>] = Busy(op[c].todo, op[c].pc = "routing")
      BY <1>1, <2>3, <3>2, CallChanges
    <3>4. LeftOf(op, tick, ticking)[<<c>>] = s => LeftOf(op', tick, ticking) = LeftOf(op, tick, ticking)
      BY <1>1, <2>3, <3>2, CallChanges
    <3> QED
      BY <2>2, <3>1, <3>2, <3>3, <3>4
  <2>7. Accounts(policy, LeftOf(op', tick, ticking), delivered, accounted, taken, stream, overlapped')
    <3>1. PICK left : left = LeftOf(op, tick, ticking)
      OBVIOUS
    <3>2. Accounts(policy, left, delivered, accounted, taken, stream, overlapped')
      BY <1>1, <1>4, <3>1 DEF Accounts
    <3> QED
      BY <2>6, <3>1, <3>2
  <2>8. ~overlapped' => Alone(op', tick, ticking)
    <3> SUFFICES ASSUME ~overlapped' PROVE Alone(op', tick, ticking)
      OBVIOUS
    <3>1. <<c>> \in Carriers
      BY DEF Carriers
    <3>2. \A d \in Callers : op'[d].pc # "idle" => <<c>> = <<d>>
      BY <1>4, <1>5, <2>3 DEF Called
    <3>3. ~(ticking \/ tick # <<>>)
      BY <1>4 DEF TickActive
    <3> QED
      BY <3>1, <3>2, <3>3, AloneStart
  <2> QED
    BY <1>3, <2>4, <2>5, <2>7, <2>8 DEF SInv, Left, Process, history
<1> QED
  BY <1>6, <1>7 DEF Process, Called, Entered

\* The buffer takes an event in, and the call takes what it releases.
LEMMA OrderStep ==
    ASSUME SInv, NEW c \in Callers, NEW crowded \in BOOLEAN, crowded => policy.crowded, Order(c, crowded)
    PROVE  SInv'
<1>1. /\ policy \in Policies /\ delivered \in [Events -> Nat] /\ taken \in SUBSET Events /\ accounted \in SUBSET Events
      /\ Calls(op, line, tick, ticking) /\ Flight(op, consumers, nextEntry, policy.consumer)
      /\ Settled(policy, stream) /\ stream \in O!Streams
      /\ Accounts(policy, LeftOf(op, tick, ticking), delivered, accounted, taken, stream, overlapped)
      /\ ~overlapped => Alone(op, tick, ticking)
  BY DEF SInv, Typed, Left, Settled
<1>2. PICK e : e = op[c].event
  OBVIOUS
<1>3. PICK lag : lag = op[c].lag
  OBVIOUS
<1>4. PICK out : out = O!Enqueued(policy, stream, e, lag, crowded)
  OBVIOUS
<1>5. PICK own : own = Own(policy, out.released)
  OBVIOUS
<1>6. /\ line # <<>> /\ c = Head(line) /\ line' = Tail(line)
      /\ stream' = out.stream
      /\ op' = Called(op, c, Owning(op[c], own))
      /\ taken' = IF out.status \in {"BUFFERED", "RELEASED", "LATE"} THEN taken \cup {e} ELSE taken
      /\ accounted' = IF policy.overflow = "DROP_OLDEST"
                      THEN accounted \cup (DOMAIN stream.buffered \ (DOMAIN out.stream.buffered \cup ToSet(out.released)))
                      ELSE accounted
      /\ UNCHANGED <<policy, current, consumers, nextEntry, tick, ticking, calls, delivered, overlapped>>
  BY <1>2, <1>3, <1>4, <1>5 DEF Order, Called, Owning, Own
<1>7. /\ DOMAIN op = Callers /\ Coherent(op[c]) /\ op[c].pc = "validated"
      /\ e \in Events /\ lag \in 0..MaxLag /\ op[c].todo = <<>>
  <2>1. 1 \in 1..Len(line) /\ c = line[1]
    BY <1>1, <1>6, TailParts DEF Calls
  <2> QED
    BY <1>1, <1>2, <1>3, <2>1 DEF Calls, Coherent, CallRecords
<1>8. policy \in Configurations /\ policy.maxReleased \in Nat \ {0}
      /\ policy.overflow \in {"REJECT_NEWEST", "DROP_OLDEST", "FLUSH_OLDEST"}
  BY <1>1, PolicyParts
<1>9. PICK S \in SUBSET (DOMAIN stream.buffered \cup {e}) :
         /\ Arranges(out.released, S)
         /\ DOMAIN out.stream.buffered \subseteq (DOMAIN stream.buffered \cup {e}) \ S
         /\ out.status \in {"BUFFERED", "RELEASED", "LATE"} => e \in DOMAIN out.stream.buffered \cup S
         /\ policy.overflow = "REJECT_NEWEST" => DOMAIN stream.buffered \subseteq DOMAIN out.stream.buffered \cup S
  BY <1>1, <1>4, <1>7, <1>8, EnqueueKeeps
<1>10. Settled(policy, out.stream) /\ out.stream \in O!Streams
  <2>1. Settled(policy, out.stream)
    BY <1>1, <1>4, <1>7, <1>8, EnqueueKeeps
  <2> QED
    BY <2>1 DEF Settled
<1>11. DOMAIN stream.buffered \in SUBSET Events
  BY <1>1, StreamParts
<1>12. /\ S \in SUBSET Events /\ out.released \in Seq(Events) /\ ToSet(out.released) = S
       /\ Len(out.released) <= Cardinality(Events)
  <2>1. S \in SUBSET Events
    BY <1>7, <1>9, <1>11
  <2>2. Cardinality(S) <= Cardinality(Events) /\ Len(out.released) = Cardinality(S)
    BY <1>9, <2>1, ArrangesLength, EventFacts
  <2>3. out.released \in Seq(Events)
    BY <1>9, <2>1, SeqMonotonic DEF Arranges
  <2> QED
    BY <1>9, <2>1, <2>2, <2>3, ArrangesParts
<1>13. /\ own \in Seq(Events) /\ ToSet(own) \subseteq S
       /\ Ascending(out.released) => Ascending(own)
       /\ Lossless(policy) => own = out.released
  <2>1. PICK rel \in Seq(Events) : rel = out.released
    BY <1>12
  <2>2. /\ own \in Seq(Events) /\ ToSet(own) \subseteq ToSet(rel)
        /\ Ascending(rel) => Ascending(own)
        /\ Len(rel) <= policy.maxReleased => own = rel
    BY <1>5, <1>8, <2>1, OwnPart
  <2>3. Lossless(policy) => Len(rel) <= policy.maxReleased
    <3>1. Len(rel) \in Nat /\ Cardinality(Events) \in Nat
      BY LenProperties, EventFacts
    <3> QED
      BY <1>8, <1>12, <2>1, <3>1 DEF Lossless
  <2> QED
    BY <1>12, <2>1, <2>2, <2>3
<1>14. PICK v : v = Owning(op[c], own)
  OBVIOUS
<1>15. Coherent(v) /\ v.pc \in {"idle", "releasing"} /\ Busy(v.todo, v.pc = "routing") = own
  BY <1>7, <1>13, <1>14, OwningCall
<1>16. op' = Called(op, c, v)
  BY <1>6, <1>14
<1>17. Calls(op', line', tick, ticking)
  BY <1>1, <1>6, <1>15, <1>16, CallsLeave
<1>18. Flight(op', consumers, nextEntry, policy.consumer)
  BY <1>1, <1>7, <1>16, FlightOthers
<1>19. taken' \in SUBSET Events /\ accounted' \in SUBSET Events
  BY <1>1, <1>6, <1>7, <1>11
<1>20. PICK left : left = LeftOf(op, tick, ticking)
  OBVIOUS
<1>21. DOMAIN left = Carriers /\ <<c>> \in Carriers /\ left[<<c>>] = <<>>
  <2>1. PICK s : s = Busy(v.todo, v.pc = "routing")
    OBVIOUS
  <2>2. <<c>> \in Carriers /\ left[<<c>>] = Busy(op[c].todo, op[c].pc = "routing")
    BY <1>1, <1>16, <1>20, <2>1, CallChanges
  <2>3. DOMAIN left = Carriers
    BY <1>1, <1>20, LeftTyped
  <2> QED
    BY <1>7, <2>2, <2>3 DEF Busy
<1>22. LeftOf(op', tick, ticking) = Loaded(left, <<c>>, own)
  <2>1. PICK s : s = Busy(v.todo, v.pc = "routing")
    OBVIOUS
  <2>2. LeftOf(op', tick, ticking) = Loaded(left, <<c>>, s)
    BY <1>1, <1>16, <1>20, <2>1, CallChanges
  <2> QED
    BY <1>15, <2>1, <2>2
<1>23. InOrderOnly(policy) /\ InTurn(stream) => Follows(stream, out.stream, out.released)
  <2> SUFFICES ASSUME InOrderOnly(policy), InTurn(stream) PROVE Follows(stream, out.stream, out.released)
    OBVIOUS
  <2>1. ~crowded
    BY DEF InOrderOnly
  <2>2. policy.mode # "TIMESTAMP" /\ policy.late # "RELEASE" /\ policy.overflow # "FLUSH_OLDEST"
    BY DEF InOrderOnly
  <2>3. /\ InTurn(out.stream) /\ Ascending(out.released) /\ stream.lastSeq <= out.stream.lastSeq
        /\ \A x \in ToSet(out.released) :
              SeqNo[x] # 0 => stream.lastSeq < SeqNo[x] /\ SeqNo[x] <= out.stream.lastSeq
    BY <1>1, <1>4, <1>7, <1>8, <2>1, <2>2, EnqueueInTurn
  <2> QED
    BY <2>3 DEF Follows
<1>24. Lossless(policy) => Covers(stream, taken, out.stream, taken', own, accounted')
  <2> SUFFICES ASSUME Lossless(policy)
               PROVE  /\ DOMAIN stream.buffered \subseteq DOMAIN out.stream.buffered \cup ToSet(own) \cup accounted'
                      /\ taken' \subseteq taken \cup DOMAIN out.stream.buffered \cup ToSet(own)
    BY DEF Covers
  <2>1. ToSet(own) = S
    BY <1>12, <1>13
  <2>2. policy.overflow = "REJECT_NEWEST" \/ policy.overflow = "DROP_OLDEST"
    BY <1>8 DEF Lossless
  <2> QED
    BY <1>6, <1>9, <1>12, <2>1, <2>2
<1>25. Accounts(policy, LeftOf(op', tick, ticking), delivered, accounted', taken', stream', overlapped)
  <2>1. PICK rel : rel = out.released
    OBVIOUS
  <2>2. PICK st2 \in O!Streams : st2 = out.stream
    BY <1>10
  <2>3. PICK left2 : left2 = Loaded(left, <<c>>, own)
    OBVIOUS
  <2>4. PICK acc2 : acc2 = accounted'
    OBVIOUS
  <2>5. PICK tk2 : tk2 = taken'
    OBVIOUS
  <2>6. PICK x \in Carriers : x = <<c>>
    BY <1>21
  <2>7. accounted \subseteq acc2 /\ ToSet(own) \subseteq ToSet(rel) /\ (Ascending(rel) => Ascending(own))
    BY <1>6, <1>12, <1>13, <2>1, <2>4
  <2>8. InOrderOnly(policy) /\ InTurn(stream) => Follows(stream, st2, rel)
    BY <1>23, <2>1, <2>2
  <2>9. Lossless(policy) => Covers(stream, taken, st2, tk2, own, acc2)
    BY <1>24, <2>2, <2>4, <2>5
  <2>10. Accounts(policy, left, delivered, accounted, taken, stream, overlapped)
    BY <1>1, <1>20
  <2>11. left[x] = <<>> /\ left2 = Loaded(left, x, own) /\ DOMAIN left = Carriers
    BY <1>21, <2>3, <2>6
  <2>12. Accounts(policy, left2, delivered, acc2, tk2, st2, overlapped)
    BY <1>1, <1>13, <2>7, <2>8, <2>9, <2>10, <2>11, AccountsTake
  <2> QED
    BY <1>6, <1>22, <2>2, <2>3, <2>4, <2>5, <2>12
<1>26. ~overlapped => Alone(op', tick, ticking)
  <2>1. \A d \in Callers : op'[d].pc # "idle" => op[d].pc # "idle"
    BY <1>7, <1>16 DEF Called
  <2> QED
    BY <1>1, <2>1, AloneLess
<1>27. Typed'
  BY <1>6, <1>19 DEF SInv, Typed
<1>28. Settled(policy, stream')
  BY <1>6, <1>10
<1> QED
  BY <1>6, <1>17, <1>18, <1>25, <1>26, <1>27, <1>28 DEF SInv, Left

\* A call is done with the first of its events: it is given to the listeners, or refused.
LEMMA CallRouted ==
    ASSUME SInv, NEW c \in Callers, op[c].pc = "releasing",
           NEW v, Coherent(v), Busy(v.todo, v.pc = "routing") = Tail(op[c].todo), op' = Called(op, c, v),
           NEW h, h = Head(op[c].todo),
           \/ delivered' = OnceMore(delivered, h) /\ accounted' = accounted
           \/ delivered' = delivered /\ accounted' = accounted \cup {h},
           UNCHANGED <<policy, current, stream, line, tick, ticking, calls, taken, overlapped>>,
           Flight(op', consumers', nextEntry', policy.consumer)
    PROVE  SInv' /\ GivenInOrder(policy, overlapped, delivered, delivered')
<1>1. /\ delivered \in [Events -> Nat] /\ taken \in SUBSET Events /\ accounted \in SUBSET Events
      /\ Calls(op, line, tick, ticking) /\ stream \in O!Streams
      /\ Accounts(policy, LeftOf(op, tick, ticking), delivered, accounted, taken, stream, overlapped)
      /\ ~overlapped => Alone(op, tick, ticking)
  BY DEF SInv, Typed, Left, Settled
<1>2. Coherent(op[c]) /\ DOMAIN op = Callers
  BY <1>1 DEF Calls
<1>3. op[c].todo # <<>>
  BY <1>2 DEF Coherent
<1>4. Calls(op', line, tick, ticking)
  BY <1>1, CallsWith
<1>5. PICK left : left = LeftOf(op, tick, ticking)
  OBVIOUS
<1>6. PICK x \in Carriers : x = <<c>>
  BY DEF Carriers
<1>7. left[x] = op[c].todo /\ LeftOf(op', tick, ticking) = Dropped(left, x)
  <2>1. PICK s : s = Busy(v.todo, v.pc = "routing")
    OBVIOUS
  <2>2. LeftOf(op, tick, ticking)[<<c>>] = Busy(op[c].todo, op[c].pc = "routing")
    BY <1>1, <2>1, CallChanges
  <2>3. s = Tail(LeftOf(op, tick, ticking)[<<c>>]) =>
           LeftOf(op', tick, ticking) = Dropped(LeftOf(op, tick, ticking), <<c>>)
    BY <1>1, <2>1, CallChanges
  <2>4. LeftOf(op, tick, ticking)[<<c>>] = op[c].todo
    BY <2>2 DEF Busy
  <2> QED
    BY <1>5, <1>6, <2>1, <2>3, <2>4
<1>8. DOMAIN left = Carriers /\ \A y \in Carriers : left[y] \in Seq(Events)
  BY <1>1, <1>5, LeftTyped
<1>9. ~overlapped => \A y \in Carriers : y # x => left[y] = <<>>
  <2> SUFFICES ASSUME ~overlapped, NEW y \in Carriers, y # x PROVE left[y] = <<>>
    OBVIOUS
  <2>1. Works(op, tick, ticking, x)
    <3>1. x # <<>> /\ x[1] = c
      BY <1>6
    <3> QED
      BY <3>1 DEF Works
  <2>2. ~Works(op, tick, ticking, y)
    BY <1>1, <2>1 DEF Alone
  <2> QED
    BY <1>1, <1>5, <2>2, WorksLeft
<1>11. PICK given2 : given2 = delivered'
  OBVIOUS
<1>12. PICK acc2 : acc2 = accounted'
  OBVIOUS
<1>13. left[x] # <<>> /\ RoutedFirst(left, x, delivered, accounted, given2, acc2)
  BY <1>3, <1>7, <1>11, <1>12 DEF RoutedFirst
<1>14. Accounts(policy, left, delivered, accounted, taken, stream, overlapped)
  BY <1>1, <1>5
<1>15. /\ given2 \in [Events -> Nat] /\ acc2 \in SUBSET Events
       /\ Accounts(policy, Dropped(left, x), given2, acc2, taken, stream, overlapped)
       /\ GivenInOrder(policy, overlapped, delivered, given2)
  BY <1>1, <1>8, <1>9, <1>13, <1>14, AccountsRouted
<1>16. Typed'
  BY <1>11, <1>12, <1>15 DEF SInv, Typed
<1>17. Accounts(policy, LeftOf(op', tick, ticking), delivered', accounted', taken, stream, overlapped)
  BY <1>7, <1>11, <1>12, <1>15
<1>18. ~overlapped => Alone(op', tick, ticking)
  <2>1. \A d \in Callers : op'[d].pc # "idle" => op[d].pc # "idle"
    BY <1>2 DEF Called
  <2> QED
    BY <1>1, <2>1, AloneLess
<1>19. SInv'
  BY <1>4, <1>16, <1>17, <1>18 DEF SInv, Left
<1> QED
  BY <1>11, <1>15, <1>19

\* The consumer refuses an event: it is accounted for.
LEMMA RefuseStep ==
    ASSUME SInv, NEW c \in Callers, Refuse(c)
    PROVE  SInv' /\ GivenInOrder(policy, overlapped, delivered, delivered')
<1>1. PICK h : h = Head(op[c].todo)
  OBVIOUS
<1>2. PICK v : v = Proceeded(op[c])
  OBVIOUS
<1>3. /\ op[c].pc = "releasing" /\ B!Admission(consumers, Consumer) # "ACCEPTED"
      /\ consumers' = B!Admitted(consumers, Consumer, h, nextEntry)
      /\ delivered' = delivered /\ accounted' = accounted \cup {h} /\ nextEntry' = nextEntry
      /\ op' = Called(op, c, v)
      /\ UNCHANGED <<policy, current, stream, line, tick, ticking, calls, taken, overlapped>>
  BY <1>1, <1>2 DEF Refuse, Proceeds, Proceeded, Called
<1>4. /\ DOMAIN op = Callers /\ Coherent(op[c])
      /\ Flight(op, consumers, nextEntry, policy.consumer)
  BY DEF SInv, Calls
<1>5. Coherent(v) /\ Busy(v.todo, v.pc = "routing") = Tail(op[c].todo)
  BY <1>2, <1>3, <1>4, ProceededCall
<1>6. /\ consumers' \in [{Consumer} -> B!Records] /\ Served(consumers'[Consumer])
      /\ consumers'[Consumer].inFlight = consumers[Consumer].inFlight
  BY <1>3, <1>4, RefusedRecord DEF Flight
<1>7. Flight(op, consumers', nextEntry, policy.consumer)
  BY <1>4, <1>6, FlightFewer
<1>8. Flight(op', consumers', nextEntry', policy.consumer)
  BY <1>3, <1>4, <1>7, FlightOthers
<1> QED
  BY <1>1, <1>3, <1>5, <1>8, CallRouted

\* What is dispatched is the event the call has admitted, since the queue was empty.
LEMMA DispatchStep ==
    ASSUME SInv, NEW c \in Callers, Dispatch(c)
    PROVE  SInv' /\ GivenInOrder(policy, overlapped, delivered, delivered')
<1>1. PICK h : h = Head(op[c].todo)
  OBVIOUS
<1>2. PICK n : n = nextEntry
  OBVIOUS
<1>3. PICK admitted : admitted = B!Admitted(consumers, Consumer, h, n)
  OBVIOUS
<1>4. PICK entry : entry = Head(admitted[Consumer].queue)
  OBVIOUS
<1>5. PICK v : v = RoutingFor(op[c], entry.id)
  OBVIOUS
<1>6. /\ DOMAIN op = Callers /\ Coherent(op[c])
      /\ Flight(op, consumers, n, policy.consumer)
      /\ consumers \in [{Consumer} -> B!Records] /\ Served(consumers[Consumer])
  BY <1>2 DEF SInv, Calls, Flight
<1>7. /\ op[c].pc = "releasing" /\ B!Admission(consumers, Consumer) = "ACCEPTED" /\ n <= MaxEntries
      /\ policy.consumer = TRUE
      /\ consumers' = B!Drained(admitted, Consumer, 1) /\ nextEntry' = n + 1
      /\ UNCHANGED <<policy, current, stream, line, tick, ticking, calls, taken, overlapped>>
  <2>1. policy.consumer \in BOOLEAN
    BY PolicyParts DEF SInv, Typed
  <2> QED
    BY <1>1, <1>2, <1>3, <2>1 DEF Dispatch
<1>8. n \in 1..MaxEntries /\ n \in 0..MaxEntries
  BY <1>6, <1>7, MaxEntriesType DEF Flight
<1>9. h \in Events
  BY <1>1, <1>6, <1>7, TailParts DEF Coherent, CallRecords
<1>10. /\ entry = EntryFor(h, n)
       /\ consumers' \in [{Consumer} -> B!Records] /\ Served(consumers'[Consumer])
       /\ consumers'[Consumer].inFlight = consumers[Consumer].inFlight \cup {entry}
  <2>1. PICK w : w = consumers'
    OBVIOUS
  <2>2. w = B!Drained(admitted, Consumer, 1)
    BY <1>7, <2>1
  <2>3. /\ Head(admitted[Consumer].queue) = EntryFor(h, n)
        /\ w \in [{Consumer} -> B!Records] /\ Served(w[Consumer])
        /\ w[Consumer].inFlight = consumers[Consumer].inFlight \cup {EntryFor(h, n)}
    BY <1>3, <1>6, <1>7, <1>8, <1>9, <2>2, DispatchedRecord
  <2> QED
    BY <1>4, <2>1, <2>3
<1>11. entry.id = n /\ entry.event = h
  BY <1>8, <1>9, <1>10, NewEntry
<1>12. v = RoutingFor(op[c], n)
  BY <1>5, <1>11
<1>13. op' = Called(op, c, v)
  BY <1>1, <1>2, <1>3, <1>4, <1>5, <1>6 DEF Dispatch, RoutingFor, Called
<1>14. /\ Coherent(v) /\ v.pc = "routing" /\ v.entry = n
       /\ Busy(v.todo, v.pc = "routing") = Tail(op[c].todo)
  BY <1>6, <1>7, <1>8, <1>12, RoutingCall
<1>15. Flight(op', consumers', nextEntry', policy.consumer)
  BY <1>6, <1>7, <1>10, <1>11, <1>13, <1>14, FlightDispatched
<1>16. \/ delivered' = OnceMore(delivered, h) /\ accounted' = accounted
       \/ delivered' = delivered /\ accounted' = accounted \cup {h}
  BY <1>1, <1>2, <1>3, <1>4, <1>11 DEF Dispatch, Routed, OnceMore
<1> QED
  BY <1>1, <1>7, <1>13, <1>14, <1>15, <1>16, CallRouted

\* Without a consumer nothing is ever in flight.
LEMMA RouteDirectlyStep ==
    ASSUME SInv, NEW c \in Callers, RouteDirectly(c)
    PROVE  SInv' /\ GivenInOrder(policy, overlapped, delivered, delivered')
<1>1. PICK h : h = Head(op[c].todo)
  OBVIOUS
<1>2. PICK n : n = op[c].entry
  OBVIOUS
<1>3. PICK v : v = RoutingFor(op[c], n)
  OBVIOUS
<1>4. /\ op[c].pc = "releasing" /\ UNCHANGED <<consumers, nextEntry>>
      /\ \/ delivered' = OnceMore(delivered, h) /\ accounted' = accounted
         \/ delivered' = delivered /\ accounted' = accounted \cup {h}
      /\ UNCHANGED <<policy, current, stream, line, tick, ticking, calls, taken, overlapped>>
  BY <1>1 DEF RouteDirectly, Routed, OnceMore
<1>5. /\ DOMAIN op = Callers /\ Coherent(op[c])
      /\ Flight(op, consumers, nextEntry, policy.consumer)
  BY DEF SInv, Calls
<1>6. n \in 0..MaxEntries
  BY <1>2, <1>5 DEF Coherent, CallRecords
<1>7. op' = Called(op, c, v)
  <2>1. [op[c] EXCEPT !.pc = "routing"] = [op[c] EXCEPT !.pc = "routing", !.entry = n]
    BY <1>2, <1>5 DEF Coherent, CallRecords
  <2> QED
    BY <1>3, <1>5, <2>1 DEF RouteDirectly, RoutingFor, Called
<1>8. Coherent(v) /\ Busy(v.todo, v.pc = "routing") = Tail(op[c].todo)
  BY <1>3, <1>4, <1>5, <1>6, RoutingCall
<1>9. Flight(op', consumers', nextEntry', policy.consumer)
  BY <1>4, <1>5, <1>7, FlightOthers
<1> QED
  BY <1>1, <1>4, <1>7, <1>8, <1>9, CallRouted

\* The call takes its entry out of flight, if a timeout has not.
LEMMA ListenersReturnStep ==
    ASSUME SInv, NEW c \in Callers, NEW ok \in BOOLEAN, ListenersReturn(c, ok)
    PROVE  SInv' /\ delivered' = delivered
<1>1. PICK v : v = Proceeded(op[c])
  OBVIOUS
<1>2. /\ op[c].pc = "routing" /\ op' = Called(op, c, v)
      /\ UNCHANGED <<policy, current, stream, nextEntry, line, tick, ticking, calls, delivered, taken, accounted, overlapped>>
  BY <1>1 DEF ListenersReturn, Proceeds, Proceeded, Called, history
<1>3. /\ Calls(op, line, tick, ticking) /\ DOMAIN op = Callers /\ Coherent(op[c])
      /\ Flight(op, consumers, nextEntry, policy.consumer)
      /\ consumers \in [{Consumer} -> B!Records] /\ Served(consumers[Consumer])
      /\ Accounts(policy, LeftOf(op, tick, ticking), delivered, accounted, taken, stream, overlapped)
      /\ ~overlapped => Alone(op, tick, ticking)
  BY DEF SInv, Left, Calls, Flight
<1>4. /\ Coherent(v) /\ v.pc \in {"idle", "releasing"} /\ Busy(v.todo, v.pc = "routing") = Tail(op[c].todo)
  BY <1>1, <1>2, <1>3, ProceededCall
<1>5. Calls(op', line, tick, ticking)
  BY <1>2, <1>3, <1>4, CallsWith
<1>6. LeftOf(op', tick, ticking) = LeftOf(op, tick, ticking)
  <2>1. PICK s : s = Busy(v.todo, v.pc = "routing")
    OBVIOUS
  <2>2. LeftOf(op, tick, ticking)[<<c>>] = Busy(op[c].todo, op[c].pc = "routing")
    BY <1>2, <1>3, <2>1, CallChanges
  <2>3. LeftOf(op, tick, ticking)[<<c>>] = s => LeftOf(op', tick, ticking) = LeftOf(op, tick, ticking)
    BY <1>2, <1>3, <2>1, CallChanges
  <2>4. LeftOf(op, tick, ticking)[<<c>>] = Tail(op[c].todo)
    BY <1>2, <2>2 DEF Busy
  <2> QED
    BY <1>4, <2>1, <2>3, <2>4
<1>7. ~overlapped => Alone(op', tick, ticking)
  <2>1. \A d \in Callers : op'[d].pc # "idle" => op[d].pc # "idle"
    BY <1>2, <1>3 DEF Called
  <2> QED
    BY <1>3, <2>1, AloneLess
<1>8. PICK cs : cs = consumers'
  OBVIOUS
<1>9. /\ cs \in [{Consumer} -> B!Records] /\ Served(cs[Consumer])
      /\ cs[Consumer].inFlight \subseteq consumers[Consumer].inFlight
      /\ \A x \in cs[Consumer].inFlight : x.id # op[c].entry
  <2>1. PICK mine : mine = {x \in consumers[Consumer].inFlight : x.id = op[c].entry}
    OBVIOUS
  <2>2. CASE mine = {}
    <3>1. cs = consumers
      BY <1>8, <2>1, <2>2 DEF ListenersReturn
    <3> QED
      BY <1>3, <2>1, <2>2, <3>1
  <2>3. CASE mine # {}
    <3>1. PICK x : x = CHOOSE y \in mine : TRUE
      OBVIOUS
    <3>2. x \in mine
      BY <2>3, <3>1
    <3>3. cs = B!Acknowledged(consumers, Consumer, x) \/ cs = B!Failed(consumers, Consumer, x, FALSE)
      BY <1>8, <2>1, <2>3, <3>1 DEF ListenersReturn
    <3>4. /\ cs \in [{Consumer} -> B!Records] /\ Served(cs[Consumer])
          /\ cs[Consumer].inFlight = consumers[Consumer].inFlight \ {x}
      BY <1>3, <3>3, ReturnedRecord
    <3>5. \A y \in consumers[Consumer].inFlight : y.id = op[c].entry => y = x
      BY <1>3, <2>1, <3>2 DEF Flight
    <3> QED
      BY <3>4, <3>5
  <2> QED
    BY <2>2, <2>3
<1>10. Flight(op', consumers', nextEntry', policy.consumer)
  <2>1. Flight(op', cs, nextEntry, policy.consumer)
    BY <1>2, <1>3, <1>9, FlightReturned
  <2> QED
    BY <1>2, <1>8, <2>1
<1>11. Typed' /\ Settled(policy, stream)
  BY <1>2 DEF SInv, Typed
<1> QED
  BY <1>2, <1>3, <1>5, <1>6, <1>7, <1>10, <1>11 DEF SInv, Left

\* The tick takes what the buffer flushes.
LEMMA TickBeginStep ==
    ASSUME SInv, TickBegin
    PROVE  SInv' /\ delivered' = delivered
<1>1. PICK out : out = O!Flushed(policy, stream)
  OBVIOUS
<1>2. /\ ticking = FALSE /\ tick = <<>>
      /\ stream' = out.stream /\ tick' = out.released
      /\ consumers' = IF out.released = <<>> THEN B!Ticked(consumers) ELSE consumers
      /\ overlapped' = (overlapped \/ (out.released # <<>> /\ \E d \in Callers : Active(d)))
      /\ UNCHANGED <<policy, current, nextEntry, op, line, ticking, calls, delivered, taken, accounted>>
  <2>1. ticking \in BOOLEAN
    BY DEF SInv, Calls
  <2> QED
    BY <1>1, <2>1 DEF TickBegin, TickActive, history
<1>3. /\ policy \in Policies /\ delivered \in [Events -> Nat] /\ taken \in SUBSET Events /\ accounted \in SUBSET Events
      /\ Calls(op, line, tick, ticking) /\ Flight(op, consumers, nextEntry, policy.consumer)
      /\ Settled(policy, stream) /\ stream \in O!Streams
      /\ Accounts(policy, LeftOf(op, tick, ticking), delivered, accounted, taken, stream, overlapped)
      /\ ~overlapped => Alone(op, tick, ticking)
  BY DEF SInv, Typed, Left, Settled
<1>4. PICK S \in SUBSET DOMAIN stream.buffered :
         Arranges(out.released, S) /\ DOMAIN out.stream.buffered = DOMAIN stream.buffered \ S
  BY <1>1, <1>3, FlushKeeps
<1>5. Settled(policy, out.stream) /\ out.stream \in O!Streams
  <2>1. Settled(policy, out.stream)
    BY <1>1, <1>3, FlushKeeps
  <2> QED
    BY <2>1 DEF Settled
<1>6. S \in SUBSET Events /\ out.released \in Seq(Events) /\ ToSet(out.released) = S
  <2>1. S \in SUBSET Events
    BY <1>3, <1>4, StreamParts
  <2> QED
    BY <1>4, <2>1, ArrangesParts, SeqMonotonic DEF Arranges
<1>7. Calls(op', line', tick', ticking')
  BY <1>2, <1>3, <1>6, CallsTick
<1>8. Flight(op', consumers', nextEntry', policy.consumer)
  <2>1. CASE out.released # <<>>
    BY <1>2, <1>3, <2>1
  <2>2. CASE out.released = <<>>
    <3>1. PICK cs : cs = B!Ticked(consumers)
      OBVIOUS
    <3>2. /\ cs \in [{Consumer} -> B!Records] /\ Served(cs[Consumer])
          /\ cs[Consumer].inFlight \subseteq consumers[Consumer].inFlight
      BY <1>3, <3>1, TickedRecord DEF Flight
    <3>3. Flight(op, cs, nextEntry, policy.consumer)
      BY <1>3, <3>2, FlightFewer
    <3> QED
      BY <1>2, <2>2, <3>1, <3>3
  <2> QED
    BY <2>1, <2>2
<1>9. PICK rel \in Seq(Events) : rel = out.released
  BY <1>6
<1>10. PICK left : left = LeftOf(op, tick, ticking)
  OBVIOUS
<1>11. PICK x \in Carriers : x = <<>>
  BY DEF Carriers
<1>12. DOMAIN left = Carriers /\ left[x] = <<>> /\ LeftOf(op', tick', ticking') = Loaded(left, x, rel)
  <2>5. PICK k : k = ticking'
    OBVIOUS
  <2>1. rel = Busy(rel, k) /\ Busy(tick, ticking) = <<>>
    BY <1>2, <2>5 DEF Busy
  <2>2. LeftOf(op, tick, ticking)[<<>>] = Busy(tick, ticking)
    BY <2>1, TickChanges
  <2>3. LeftOf(op, rel, k) = Loaded(LeftOf(op, tick, ticking), <<>>, rel)
    BY <2>1, TickChanges
  <2>4. DOMAIN left = Carriers
    BY <1>3, <1>10, LeftTyped
  <2> QED
    BY <1>2, <1>9, <1>10, <1>11, <2>1, <2>2, <2>3, <2>4, <2>5
<1>13. Accounts(policy, LeftOf(op', tick', ticking'), delivered, accounted, taken, stream', overlapped)
  <2>1. PICK st2 \in O!Streams : st2 = out.stream
    BY <1>5
  <2>2. PICK left2 : left2 = Loaded(left, x, rel)
    OBVIOUS
  <2>3. InOrderOnly(policy) /\ InTurn(stream) => Follows(stream, st2, rel)
    <3> SUFFICES ASSUME InOrderOnly(policy), InTurn(stream) PROVE Follows(stream, st2, rel)
      OBVIOUS
    <3>1. policy.mode # "TIMESTAMP"
      BY DEF InOrderOnly
    <3>2. /\ InTurn(out.stream) /\ Ascending(out.released) /\ stream.lastSeq <= out.stream.lastSeq
          /\ \A e \in ToSet(out.released) :
                SeqNo[e] # 0 => stream.lastSeq < SeqNo[e] /\ SeqNo[e] <= out.stream.lastSeq
      BY <1>1, <1>3, <3>1, FlushKeeps
    <3> QED
      BY <1>9, <2>1, <3>2 DEF Follows
  <2>4. Lossless(policy) => Covers(stream, taken, st2, taken, rel, accounted)
    BY <1>4, <1>6, <1>9, <2>1 DEF Covers
  <2>5. Accounts(policy, left, delivered, accounted, taken, stream, overlapped)
    BY <1>3, <1>10
  <2>6. Accounts(policy, left2, delivered, accounted, taken, st2, overlapped)
    BY <1>3, <1>12, <2>2, <2>3, <2>4, <2>5, AccountsTake
  <2> QED
    BY <1>2, <1>12, <2>1, <2>2, <2>6
<1>14. Accounts(policy, LeftOf(op', tick', ticking'), delivered, accounted, taken, stream', overlapped')
  BY <1>2, <1>13 DEF Accounts
<1>15. ~overlapped' => Alone(op', tick', ticking')
  <2> SUFFICES ASSUME ~overlapped' PROVE Alone(op', tick', ticking')
    OBVIOUS
  <2>1. CASE out.released = <<>>
    BY <1>2, <1>3, <2>1
  <2>2. CASE out.released # <<>>
    <3>1. \A d \in Callers : op'[d].pc = "idle"
      BY <1>2, <2>2 DEF Active
    <3> QED
      BY <1>11, <3>1, AloneStart
  <2> QED
    BY <2>1, <2>2
<1>16. Typed'
  BY <1>2 DEF SInv, Typed
<1> QED
  BY <1>2, <1>5, <1>7, <1>8, <1>14, <1>15, <1>16 DEF SInv, Left

\* The tick gives its next event to the listeners.
LEMMA TickRouteStep ==
    ASSUME SInv, TickRoute
    PROVE  SInv' /\ GivenInOrder(policy, overlapped, delivered, delivered')
<1>1. /\ policy \in Policies /\ delivered \in [Events -> Nat] /\ taken \in SUBSET Events /\ accounted \in SUBSET Events
      /\ Calls(op, line, tick, ticking) /\ stream \in O!Streams /\ tick \in Seq(Events)
      /\ Accounts(policy, LeftOf(op, tick, ticking), delivered, accounted, taken, stream, overlapped)
      /\ ~overlapped => Alone(op, tick, ticking)
  BY DEF SInv, Typed, Left, Settled, Calls
<1>2. /\ tick # <<>> /\ ticking = FALSE /\ ticking' = TRUE
      /\ UNCHANGED <<policy, current, stream, consumers, nextEntry, op, line, tick, calls, taken, overlapped>>
  <2>1. ticking \in BOOLEAN
    BY DEF SInv, Calls
  <2> QED
    BY <2>1 DEF TickRoute
<1>3. PICK left : left = LeftOf(op, tick, ticking)
  OBVIOUS
<1>4. PICK x \in Carriers : x = <<>>
  BY DEF Carriers
<1>5. left[x] = tick /\ LeftOf(op, tick, ticking') = Dropped(left, x)
  <2>5. PICK k : k = ticking'
    OBVIOUS
  <2>6. PICK t : t = tick'
    OBVIOUS
  <2>1. PICK s : s = Busy(t, k)
    OBVIOUS
  <2>2. LeftOf(op, tick, ticking)[<<>>] = Busy(tick, ticking)
    BY <2>1, TickChanges
  <2>3. LeftOf(op, t, k) = Loaded(LeftOf(op, tick, ticking), <<>>, s)
    BY <2>1, TickChanges
  <2>4. s = Tail(tick) /\ Busy(tick, ticking) = tick
    BY <1>2, <2>1, <2>5, <2>6 DEF Busy
  <2>7. Loaded(left, x, Tail(left[x])) = Dropped(left, x)
    BY DEF Loaded, Dropped
  <2> QED
    BY <1>2, <1>3, <1>4, <2>2, <2>3, <2>4, <2>5, <2>6, <2>7
<1>6. DOMAIN left = Carriers /\ \A y \in Carriers : left[y] \in Seq(Events)
  BY <1>1, <1>3, LeftTyped
<1>7. ~overlapped => \A y \in Carriers : y # x => left[y] = <<>>
  <2> SUFFICES ASSUME ~overlapped, NEW y \in Carriers, y # x PROVE left[y] = <<>>
    OBVIOUS
  <2>1. Works(op, tick, ticking, x)
    BY <1>2, <1>4 DEF Works
  <2>2. ~Works(op, tick, ticking, y)
    BY <1>1, <2>1 DEF Alone
  <2> QED
    BY <1>1, <1>3, <2>2, WorksLeft
<1>8. PICK given2 : given2 = delivered'
  OBVIOUS
<1>9. PICK acc2 : acc2 = accounted'
  OBVIOUS
<1>10. left[x] # <<>> /\ RoutedFirst(left, x, delivered, accounted, given2, acc2)
  BY <1>2, <1>5, <1>8, <1>9 DEF TickRoute, Routed, RoutedFirst, OnceMore
<1>11. Accounts(policy, left, delivered, accounted, taken, stream, overlapped)
  BY <1>1, <1>3
<1>12. /\ given2 \in [Events -> Nat] /\ acc2 \in SUBSET Events
       /\ Accounts(policy, Dropped(left, x), given2, acc2, taken, stream, overlapped)
       /\ GivenInOrder(policy, overlapped, delivered, given2)
  BY <1>1, <1>6, <1>7, <1>10, <1>11, AccountsRouted
<1>13. Typed'
  BY <1>2, <1>8, <1>9, <1>12 DEF SInv, Typed
<1>14. Calls(op, line, tick, ticking')
  BY <1>1, <1>2, CallsTick
<1>15. ~overlapped => Alone(op, tick, ticking')
  BY <1>1, <1>2, AloneLess
<1>16. Accounts(policy, LeftOf(op, tick, ticking'), delivered', accounted', taken, stream, overlapped)
  BY <1>5, <1>8, <1>9, <1>12
<1>17. SInv'
  BY <1>2, <1>13, <1>14, <1>15, <1>16 DEF SInv, Left
<1> QED
  BY <1>8, <1>12, <1>17

\* The tick goes on to its next event.
LEMMA TickListenersReturnStep ==
    ASSUME SInv, TickListenersReturn
    PROVE  SInv' /\ delivered' = delivered
<1>1. /\ Calls(op, line, tick, ticking) /\ Flight(op, consumers, nextEntry, policy.consumer)
      /\ Accounts(policy, LeftOf(op, tick, ticking), delivered, accounted, taken, stream, overlapped)
      /\ ~overlapped => Alone(op, tick, ticking)
      /\ tick \in Seq(Events) /\ tick # <<>>
  BY DEF SInv, Left, Calls, TickListenersReturn
<1>2. /\ ticking = TRUE /\ ticking' = FALSE /\ tick' = Tail(tick)
      /\ consumers' = IF Len(tick) = 1 THEN B!Ticked(consumers) ELSE consumers
      /\ UNCHANGED <<policy, current, stream, nextEntry, op, line, calls, delivered, taken, accounted, overlapped>>
  <2>1. ticking \in BOOLEAN
    BY DEF SInv, Calls
  <2> QED
    BY <2>1 DEF TickListenersReturn, history
<1>3. Tail(tick) \in Seq(Events)
  BY <1>1, TailParts
<1>4. Calls(op, line, tick', ticking')
  BY <1>1, <1>2, <1>3, CallsTick
<1>5. Flight(op, consumers', nextEntry, policy.consumer)
  <2>1. CASE Len(tick) # 1
    BY <1>1, <1>2, <2>1
  <2>2. CASE Len(tick) = 1
    <3>1. PICK cs : cs = B!Ticked(consumers)
      OBVIOUS
    <3>2. /\ cs \in [{Consumer} -> B!Records] /\ Served(cs[Consumer])
          /\ cs[Consumer].inFlight \subseteq consumers[Consumer].inFlight
      BY <1>1, <3>1, TickedRecord DEF Flight
    <3>3. Flight(op, cs, nextEntry, policy.consumer)
      BY <1>1, <3>2, FlightFewer
    <3> QED
      BY <1>2, <2>2, <3>1, <3>3
  <2> QED
    BY <2>1, <2>2
<1>6. LeftOf(op, tick', ticking') = LeftOf(op, tick, ticking)
  <2>1. PICK t : t = Tail(tick)
    OBVIOUS
  <2>6. PICK k : k = ticking'
    OBVIOUS
  <2>2. PICK s : s = Busy(t, k)
    OBVIOUS
  <2>3. LeftOf(op, tick, ticking)[<<>>] = Busy(tick, ticking)
    BY <2>2, TickChanges
  <2>4. LeftOf(op, tick, ticking)[<<>>] = s => LeftOf(op, t, k) = LeftOf(op, tick, ticking)
    BY <2>2, TickChanges
  <2>5. Busy(tick, ticking) = s
    BY <1>2, <2>1, <2>2, <2>6 DEF Busy
  <2> QED
    BY <1>2, <2>1, <2>3, <2>4, <2>5, <2>6
<1>7. ~overlapped => Alone(op, tick', ticking')
  BY <1>1, <1>2, AloneLess
<1>8. Typed' /\ Settled(policy, stream)
  BY <1>2 DEF SInv, Typed
<1> QED
  BY <1>1, <1>2, <1>4, <1>5, <1>6, <1>7, <1>8 DEF SInv, Left

\* Only ages change.
LEMMA TimePassesStep ==
    ASSUME SInv, TimePasses
    PROVE  SInv' /\ delivered' = delivered
<1>1. PICK st2 : st2 = O!StreamAged(stream)
  OBVIOUS
<1>2. PICK cs : cs = B!Aged(consumers)
  OBVIOUS
<1>3. /\ stream' = st2 /\ consumers' = cs
      /\ UNCHANGED <<policy, current, nextEntry, op, line, tick, ticking, calls, delivered, taken, accounted, overlapped>>
  BY <1>1, <1>2 DEF TimePasses, history
<1>4. /\ Flight(op, consumers, nextEntry, policy.consumer) /\ Settled(policy, stream)
      /\ consumers \in [{Consumer} -> B!Records] /\ Served(consumers[Consumer])
      /\ Accounts(policy, LeftOf(op, tick, ticking), delivered, accounted, taken, stream, overlapped)
  BY DEF SInv, Left, Flight
<1>5. Settled(policy, st2) /\ DOMAIN st2.buffered = DOMAIN stream.buffered /\ st2.next = stream.next /\ st2.lastSeq = stream.lastSeq
  BY <1>1, <1>4, AgedStream
<1>6. Flight(op, cs, nextEntry, policy.consumer)
  <2>1. /\ cs \in [{Consumer} -> B!Records] /\ Served(cs[Consumer])
        /\ cs[Consumer].inFlight = {B!Older(x) : x \in consumers[Consumer].inFlight}
        /\ \A x \in consumers[Consumer].inFlight : B!Older(x).id = x.id
    BY <1>2, <1>4, AgedRecord
  <2> QED
    BY <1>4, <2>1, FlightAged
<1>7. Accounts(policy, LeftOf(op, tick, ticking), delivered, accounted, taken, st2, overlapped)
  <2>1. PICK left : left = LeftOf(op, tick, ticking)
    OBVIOUS
  <2>2. Accounts(policy, left, delivered, accounted, taken, stream, overlapped)
    BY <1>4, <2>1
  <2>3. Accounts(policy, left, delivered, accounted, taken, st2, overlapped)
    BY <1>5, <2>2, AccountsQuiet
  <2> QED
    BY <2>1, <2>3
<1>8. Typed'
  BY <1>3 DEF SInv, Typed
<1> QED
  BY <1>3, <1>5, <1>6, <1>7, <1>8 DEF SInv, Left

\* The beginning.
LEMMA SInvStart == ASSUME Init PROVE SInv
<1>1. policy \in Policies /\ policy \in Configurations
  BY PolicyParts DEF Init
<1>2. /\ current = 0 /\ stream = O!NewStream /\ nextEntry = 1 /\ line = <<>> /\ tick = <<>> /\ ticking = FALSE
      /\ calls = 0 /\ taken = {} /\ accounted = {} /\ overlapped = FALSE
      /\ op = [c \in Callers |-> Idle] /\ delivered = [e \in Events |-> 0]
      /\ consumers = [k \in {Consumer} |-> [B!NoConsumer EXCEPT !.state = "ACTIVE", !.timeout = policy.timeout]]
  BY DEF Init
<1>3. Typed
  <2>1. 0 \in 0..MaxCalls /\ 0 \in Nat
    BY StreamingAssumption
  <2> QED
    BY <1>1, <1>2, <2>1 DEF Typed
<1>4. Calls(op, line, tick, ticking)
  <2>1. op \in [Callers -> CallRecords] /\ \A c \in Callers : Coherent(op[c])
    BY <1>2, IdleCoherent DEF Coherent
  <2>2. line \in Seq(Callers) /\ Len(line) = 0 /\ tick \in Seq(Events) /\ ticking \in BOOLEAN /\ ~ticking
    <3>1. Len(<<>>) = 0 /\ <<>> \in Seq(Callers) /\ <<>> \in Seq(Events)
      OBVIOUS
    <3> QED
      BY <1>2, <3>1
  <2>3. \A i \in 1..Len(line) : FALSE
    BY <2>2
  <2> QED
    BY <2>1, <2>2, <2>3 DEF Calls
<1>5. Flight(op, consumers, nextEntry, policy.consumer)
  <2>1. PICK r : r = [B!NoConsumer EXCEPT !.state = "ACTIVE", !.timeout = policy.timeout]
    OBVIOUS
  <2>2. consumers \in [{Consumer} -> B!Records] /\ Served(r) /\ r.inFlight = {}
    BY <1>1, <1>2, <2>1, StartedRecord
  <2>3. consumers[Consumer] = r
    BY <1>2, <2>1
  <2>4. nextEntry \in 1..MaxEntries + 1
    BY <1>2, MaxEntriesType
  <2> QED
    BY <2>2, <2>3, <2>4 DEF Flight
<1>6. Settled(policy, stream) /\ InTurn(stream)
  BY <1>2, NewStreamSettled
<1>7. PICK left : left = Left
  OBVIOUS
<1>8. \A x \in Carriers : left[x] = <<>>
  <2> SUFFICES ASSUME NEW x \in Carriers PROVE left[x] = <<>>
    OBVIOUS
  <2>1. ~Works(op, tick, ticking, x)
    <3>1. CASE x = <<>>
      BY <1>2, <3>1 DEF Works
    <3>2. ASSUME NEW c \in Callers, x = <<c>> PROVE ~Works(op, tick, ticking, x)
      <4>1. <<c>> # <<>> /\ <<c>>[1] = c
        OBVIOUS
      <4>2. op[c].pc = "idle"
        BY <1>2, IdleCoherent
      <4> QED
        BY <3>2, <4>1, <4>2 DEF Works
    <3> QED
      BY <3>1, <3>2 DEF Carriers
  <2> QED
    BY <1>4, <1>7, <2>1, WorksLeft DEF Left
<1>9. ToSet(<<>>) = {} /\ <<>> \in Seq(Events) /\ Ascending(<<>>)
  BY DEF ToSet, Ascending
<1>10. Accounts(policy, left, delivered, accounted, taken, stream, overlapped)
  <2>1. Kept(left, delivered, accounted, taken, DOMAIN stream.buffered)
    BY <1>2 DEF Kept
  <2>2. OnceOnly(left, delivered, stream.lastSeq)
    <3>1. \A e \in Events : delivered[e] = 0
      BY <1>2
    <3>2. \A x \in Carriers : left[x] \in Seq(Events) /\ Ascending(left[x]) /\ ToSet(left[x]) = {}
      BY <1>8, <1>9
    <3>3. \A e \in Events : delivered[e] <= 1 /\ ~(delivered[e] > 0)
      BY <3>1
    <3> QED
      BY <3>2, <3>3 DEF OnceOnly
  <2>3. InSight(left, delivered)
    BY <1>8, <1>9 DEF InSight
  <2> QED
    BY <1>6, <2>1, <2>2, <2>3 DEF Accounts
<1>11. Alone(op, tick, ticking)
  <2>1. \A c \in Callers : op[c].pc = "idle"
    BY <1>2, IdleCoherent
  <2>2. <<>> \in Carriers
    BY DEF Carriers
  <2> QED
    BY <1>2, <2>1, <2>2, AloneStart
<1> QED
  BY <1>3, <1>4, <1>5, <1>6, <1>7, <1>10, <1>11 DEF SInv

\* Nothing changes.
LEMMA SInvStutter == ASSUME SInv, UNCHANGED vars PROVE SInv'
<1>1. UNCHANGED <<policy, current, stream, consumers, nextEntry, op, line, tick, ticking, calls,
                  delivered, taken, accounted, overlapped>>
  BY DEF vars
<1>2. LeftOf(op', tick', ticking') = LeftOf(op, tick, ticking)
  BY <1>1
<1> QED
  BY <1>1, <1>2 DEF SInv, Typed, Left

\* A step that gives nothing keeps the order.
LEMMA GivenNothing ==
    ASSUME NEW p, NEW ov, NEW given \in [Events -> Nat], NEW given2, given2 = given
    PROVE  GivenInOrder(p, ov, given, given2)
<1>1. \A e \in Events : given[e] \in Nat
  OBVIOUS
<1>2. \A e \in Events : ~(given2[e] > given[e])
  BY <1>1
<1> QED
  BY <1>2 DEF GivenInOrder

\* Every step keeps the invariant, and the order.
LEMMA SInvStep ==
    ASSUME SInv, [Next]_vars
    PROVE  SInv' /\ GivenInOrder(policy, overlapped', delivered, delivered')
<1>1. delivered \in [Events -> Nat]
  BY DEF SInv, Typed
<1>2. CASE SInv' /\ delivered' = delivered
  BY <1>1, <1>2, GivenNothing
<1>3. CASE SInv' /\ GivenInOrder(policy, overlapped, delivered, delivered') /\ overlapped' = overlapped
  BY <1>3
<1>4. ASSUME NEW c \in Callers, NEW e \in policy.events, NEW lag \in policy.lags, NEW request \in policy.requests,
             Process(c, e, lag, request)
      PROVE  SInv' /\ GivenInOrder(policy, overlapped', delivered, delivered')
  <2>1. SInv'
    BY <1>4, ProcessStep
  <2>2. delivered' = delivered
    BY <1>4 DEF Process, history
  <2> QED
    BY <1>2, <2>1, <2>2
<1>5. ASSUME NEW c \in Callers, Order(c, FALSE) \/ (policy.crowded /\ Order(c, TRUE))
      PROVE  SInv' /\ GivenInOrder(policy, overlapped', delivered, delivered')
  <2>1. SInv'
    <3>1. PICK crowded \in BOOLEAN : (crowded => policy.crowded) /\ Order(c, crowded)
      BY <1>5
    <3> QED
      BY <3>1, OrderStep
  <2>2. delivered' = delivered
    BY <1>5 DEF Order
  <2> QED
    BY <1>2, <2>1, <2>2
<1>6. ASSUME NEW c \in Callers, Refuse(c)
      PROVE  SInv' /\ GivenInOrder(policy, overlapped', delivered, delivered')
  <2>1. SInv' /\ GivenInOrder(policy, overlapped, delivered, delivered')
    BY <1>6, RefuseStep
  <2>2. overlapped' = overlapped
    BY <1>6 DEF Refuse
  <2> QED
    BY <1>3, <2>1, <2>2
<1>7. ASSUME NEW c \in Callers, Dispatch(c)
      PROVE  SInv' /\ GivenInOrder(policy, overlapped', delivered, delivered')
  <2>1. SInv' /\ GivenInOrder(policy, overlapped, delivered, delivered')
    BY <1>7, DispatchStep
  <2>2. overlapped' = overlapped
    BY <1>7 DEF Dispatch
  <2> QED
    BY <1>3, <2>1, <2>2
<1>8. ASSUME NEW c \in Callers, RouteDirectly(c)
      PROVE  SInv' /\ GivenInOrder(policy, overlapped', delivered, delivered')
  <2>1. SInv' /\ GivenInOrder(policy, overlapped, delivered, delivered')
    BY <1>8, RouteDirectlyStep
  <2>2. overlapped' = overlapped
    BY <1>8 DEF RouteDirectly
  <2> QED
    BY <1>3, <2>1, <2>2
<1>9. ASSUME NEW c \in Callers, NEW ok \in BOOLEAN, ListenersReturn(c, ok)
      PROVE  SInv' /\ GivenInOrder(policy, overlapped', delivered, delivered')
  BY <1>2, <1>9, ListenersReturnStep
<1>10. CASE TickBegin
  BY <1>2, <1>10, TickBeginStep
<1>11. CASE TickRoute
  <2>1. SInv' /\ GivenInOrder(policy, overlapped, delivered, delivered')
    BY <1>11, TickRouteStep
  <2>2. overlapped' = overlapped
    BY <1>11 DEF TickRoute
  <2> QED
    BY <1>3, <2>1, <2>2
<1>12. CASE TickListenersReturn
  BY <1>2, <1>12, TickListenersReturnStep
<1>13. CASE TimePasses
  BY <1>2, <1>13, TimePassesStep
<1>14. CASE UNCHANGED vars
  <2>1. delivered' = delivered
    BY <1>14 DEF vars
  <2> QED
    BY <1>2, <1>14, <2>1, SInvStutter
<1>15. ASSUME NEW c \in Callers, Continues(c)
       PROVE  SInv' /\ GivenInOrder(policy, overlapped', delivered, delivered')
  BY <1>5, <1>6, <1>7, <1>8, <1>9, <1>15 DEF Continues
<1> QED
  BY <1>4, <1>5, <1>10, <1>11, <1>12, <1>13, <1>14, <1>15 DEF Next

-----------------------------------------------------------------------------
(* What is proved *)

\* The inductive invariant holds throughout.
THEOREM SInvAlways == Spec => []SInv
<1>1. Init => SInv
  BY SInvStart
<1>2. SInv /\ [Next]_vars => SInv'
  BY SInvStep
<1> QED
  BY <1>1, <1>2, PTL DEF Spec

\* The pipeline and its components keep their types.
THEOREM TypeCorrect == Spec => []TypeOK
<1>1. SInv => TypeOK
  <2> SUFFICES ASSUME SInv PROVE TypeOK
    OBVIOUS
  <2>1. /\ policy \in Policies /\ current \in Nat /\ stream \in O!Streams /\ calls \in 0..MaxCalls
        /\ delivered \in [Events -> Nat] /\ taken \subseteq Events /\ accounted \subseteq Events /\ overlapped \in BOOLEAN
    BY DEF SInv, Typed, Settled
  <2>2. B!TypeOK
    BY DEF SInv, Flight, B!TypeOK
  <2>3. line \in Seq(Callers) /\ tick \in Seq(Events) /\ ticking \in BOOLEAN
    BY DEF SInv, Calls
  <2>4. op \in [Callers -> CallRecords]
    BY DEF SInv, Calls, Coherent
  <2> QED
    BY <2>1, <2>2, <2>3, <2>4 DEF TypeOK, CallRecords
<1> QED
  BY <1>1, SInvAlways, PTL

\* NoCapacityLeak: whenever no call waits for the listeners, the consumer has nothing
\* queued and nothing in flight, whatever failed, was late or timed out on the way.
THEOREM CapacityComesBack == Spec => []NoCapacityLeak
<1>1. SInv => NoCapacityLeak
  <2> SUFFICES ASSUME SInv, \A c \in Callers : op[c].pc # "routing" PROVE B!Pending(consumers[Consumer]) = 0
    BY DEF NoCapacityLeak
  <2>1. Served(consumers[Consumer]) /\ consumers[Consumer].inFlight = {}
    BY DEF SInv, Flight
  <2> QED
    BY <2>1, NothingPending
<1> QED
  BY <1>1, SInvAlways, PTL

\* NothingLost: what the ordering buffer has taken in waits, was delivered or is
\* accounted for, unless FLUSH_OLDEST or the bound on released events drops it.
THEOREM EventsAreKept == Spec => []NothingLost
<1>1. SInv => NothingLost
  <2> SUFFICES ASSUME SInv, Lossless(policy), NEW e \in taken
               PROVE  Pending(e) \/ delivered[e] > 0 \/ e \in accounted
    BY DEF NothingLost, Lossless
  <2>1. /\ Calls(op, line, tick, ticking)
        /\ Kept(LeftOf(op, tick, ticking), delivered, accounted, taken, DOMAIN stream.buffered)
    BY DEF SInv, Accounts, Left
  <2>2. ASSUME NEW x \in Carriers, e \in ToSet(LeftOf(op, tick, ticking)[x]) PROVE Pending(e)
    <3>1. ASSUME NEW s \in Seq(Events), NEW b, b => s # <<>>, e \in ToSet(Busy(s, b)) PROVE e \in ToSet(s) /\ s # <<>>
      <4>1. ToSet(<<>>) = {}
        BY DEF ToSet
      <4>2. CASE b
        BY <3>1, <4>2, TailParts DEF Busy
      <4>3. CASE ~b
        BY <3>1, <4>1, <4>3 DEF Busy
      <4> QED
        BY <4>2, <4>3
    <3>2. CASE x = <<>>
      <4>1. tick \in Seq(Events) /\ (ticking => tick # <<>>) /\ LeftOf(op, tick, ticking)[x] = Busy(tick, ticking)
        BY <2>1, <3>2 DEF Calls, LeftOf
      <4> QED
        BY <2>2, <3>1, <4>1 DEF Pending
    <3>3. ASSUME NEW c \in Callers, x = <<c>> PROVE Pending(e)
      <4>1. <<c>> # <<>> /\ <<c>>[1] = c
        OBVIOUS
      <4>2. LeftOf(op, tick, ticking)[x] = Busy(op[c].todo, op[c].pc = "routing")
        BY <3>3, <4>1 DEF LeftOf
      <4>3. /\ op[c].todo \in Seq(Events) /\ (op[c].pc = "routing" => op[c].todo # <<>>)
            /\ op[c].todo # <<>> => op[c].pc \in {"releasing", "routing"}
        BY <2>1 DEF Calls, Coherent, CallRecords
      <4>4. e \in ToSet(op[c].todo) /\ op[c].todo # <<>>
        BY <2>2, <3>1, <4>2, <4>3
      <4> QED
        BY <4>3, <4>4 DEF Pending
    <3> QED
      BY <3>2, <3>3 DEF Carriers
  <2> QED
    BY <2>1, <2>2 DEF Kept, Pending
<1> QED
  BY <1>1, SInvAlways, PTL

\* AtMostOnce: in the configurations that keep order, no sequenced event is given to
\* the listeners twice, however calls, ticks, resets and repetitions interleave.
THEOREM GivenOnce == Spec => []AtMostOnce
<1>1. SInv => AtMostOnce
  BY DEF SInv, Accounts, OnceOnly, AtMostOnce, Orderly, InOrderOnly
<1> QED
  BY <1>1, SInvAlways, PTL

\* InOrder: there, as long as no two operations have overlapped, sequenced events are
\* given in the order of their sequences.
THEOREM OrderIsKept == Spec => InOrder
<1>1. SInv /\ [Next]_vars =>
         [Orderly /\ ~overlapped' =>
             \A e \in Events : SeqNo[e] # 0 /\ delivered'[e] > delivered[e] =>
                 \A f \in Events : SeqNo[f] > SeqNo[e] => delivered[f] = 0]_vars
  BY SInvStep DEF GivenInOrder, Orderly, InOrderOnly
<1> QED
  BY <1>1, SInvAlways, PTL DEF Spec, InOrder
=============================================================================
