--------------------------- MODULE NdbDataProofs ---------------------------
(***************************************************************************)
(* Lemmas about the calls and the content of a database (module NdbData),  *)
(* on which the proofs about modules Ndb and ReqHandler rest.              *)
(***************************************************************************)
EXTENDS NdbData, Extremes, SequenceTheorems

\* The new value of a counter is again a uint64_t.
LEMMA SteppedType ==
    ASSUME NEW c \in IncrDecrCall, NEW stored \in Counter \cup {Absent}
    PROVE  Stepped(c, stored) \in Counter
<1>1. Current(c, stored) \in Int /\ c.delta \in Int
  BY StoredAssumption DEF Current, Counter, Short, IncrDecrCall
<1>2. \A x \in Int : x % CounterMod \in Counter
  BY StoredAssumption DEF Counter
<1>3. QED
  BY <1>1, <1>2 DEF Stepped

\* A batch writes rows and removals, and its writes leave a content that a
\* database can hold.
LEMMA BatchType ==
    ASSUME NEW c \in UpdateCall
    PROVE  /\ Batch(c) \in Seq([key : Key, value : Stored])
           /\ \A i \in DOMAIN Batch(c) : Batch(c)[i].key \in Written(c)
           /\ \A k \in Written(c) : \E i \in DOMAIN Batch(c) : Batch(c)[i].key = k
<1> DEFINE W == [key : Key, value : Stored]
           removals == [i \in DOMAIN c.dels |-> [key |-> c.dels[i], value |-> Absent]]
<1>1. c.puts \in Seq(Row) /\ c.dels \in Seq(Key)
  BY DEF UpdateCall
<1>2. Row \subseteq W
  BY DEF Row, Stored
<1>3. c.puts \in Seq(W)
  BY <1>1, <1>2, SeqMonotonic
<1>4. DOMAIN c.dels = 1 .. Len(c.dels) /\ Len(c.dels) \in Nat
  BY <1>1
<1>5. \A i \in DOMAIN c.dels : [key |-> c.dels[i], value |-> Absent] \in W
  BY <1>1 DEF Stored
<1>6. removals \in Seq(W)
  BY <1>4, <1>5, IsASeq
<1>7. /\ Batch(c) = c.puts \o removals
      /\ Batch(c) \in Seq(W)
      /\ Len(Batch(c)) = Len(c.puts) + Len(removals)
      /\ DOMAIN c.puts = 1 .. Len(c.puts)
      /\ DOMAIN Batch(c) = 1 .. Len(Batch(c))
      /\ \A i \in 1 .. Len(Batch(c)) :
            Batch(c)[i] = IF i <= Len(c.puts) THEN c.puts[i] ELSE removals[i - Len(c.puts)]
  <2>1. Batch(c) = c.puts \o removals
    BY DEF Batch
  <2> HIDE DEF W, removals
  <2>2. QED
    BY <2>1, <1>3, <1>6
<1>8. Len(removals) = Len(c.dels) /\ Len(c.puts) \in Nat /\ DOMAIN removals = DOMAIN c.dels
  <2>1. DOMAIN removals = 1 .. Len(c.dels)
    BY <1>4
  <2>2. QED
    BY <2>1, <1>1, <1>4, <1>6
<1>9. ASSUME NEW i \in DOMAIN Batch(c) PROVE Batch(c)[i].key \in Written(c)
  <2>1. CASE i <= Len(c.puts)
    <3>1. i \in DOMAIN c.puts /\ Batch(c)[i] = c.puts[i]
      BY <1>7, <1>8, <2>1
    <3>2. QED
      BY <3>1 DEF Written
  <2>2. CASE ~ (i <= Len(c.puts))
    <3> DEFINE j == i - Len(c.puts)
    <3>1. j \in DOMAIN c.dels /\ Batch(c)[i] = removals[j]
      BY <1>4, <1>7, <1>8, <2>2
    <3>2. Batch(c)[i].key = c.dels[j]
      BY <3>1
    <3>3. QED
      BY <3>1, <3>2 DEF Written
  <2>3. QED
    BY <2>1, <2>2
<1>10. ASSUME NEW k \in Written(c) PROVE \E i \in DOMAIN Batch(c) : Batch(c)[i].key = k
  <2>1. CASE \E i \in DOMAIN c.puts : k = c.puts[i].key
    <3>1. PICK i \in 1 .. Len(c.puts) : k = c.puts[i].key
      BY <1>7, <2>1
    <3>2. i \in DOMAIN Batch(c) /\ Batch(c)[i] = c.puts[i]
      BY <1>4, <1>7, <1>8, <3>1
    <3>3. QED
      BY <3>1, <3>2
  <2>2. CASE \E j \in DOMAIN c.dels : k = c.dels[j]
    <3>1. PICK j \in 1 .. Len(c.dels) : k = c.dels[j]
      BY <1>4, <2>2
    <3> DEFINE i == Len(c.puts) + j
    <3>2. i \in DOMAIN Batch(c) /\ Batch(c)[i] = removals[j]
      BY <1>4, <1>7, <1>8, <3>1
    <3>3. removals[j].key = k
      BY <1>4, <3>1
    <3>4. QED
      BY <3>2, <3>3
  <2>3. QED
    BY <2>1, <2>2 DEF Written
<1>11. QED
  BY <1>7, <1>9, <1>10

LEMMA AppliedStored ==
    ASSUME NEW d \in [Key -> Stored], NEW b \in Seq([key : Key, value : Stored])
    PROVE  Applied(d, b) \in [Key -> Stored]
<1>1. ASSUME NEW k \in Key
      PROVE  (IF WritesTo(k, b) = {} THEN d[k] ELSE b[Max(WritesTo(k, b))].value) \in Stored
  <2>1. /\ WritesTo(k, b) \in SUBSET (1 .. Len(b))
       /\ WritesTo(k, b) \in SUBSET (0 .. Len(b))
       /\ Len(b) \in Nat
    BY DEF WritesTo
  <2>2. CASE WritesTo(k, b) = {}
    BY <2>2
  <2>3. CASE WritesTo(k, b) # {}
    <3>1. Max(WritesTo(k, b)) \in WritesTo(k, b)
      BY <2>1, <2>3, MaxExists
    <3>2. b[Max(WritesTo(k, b))] \in [key : Key, value : Stored]
      <4>1. Max(WritesTo(k, b)) \in 1 .. Len(b)
        BY <2>1, <3>1
      <4>2. QED
        BY <4>1, ElementOfSeq
    <3>3. QED
      BY <2>3, <3>2
  <2>4. QED
    BY <2>2, <2>3
<1>2. QED
  BY <1>1 DEF Applied

LEMMA AppliedType ==
    ASSUME NEW d \in [Key -> Stored], NEW c \in UpdateCall
    PROVE  Applied(d, Batch(c)) \in [Key -> Stored]
BY BatchType, AppliedStored

\* An update leaves alone the keys it does not name.
LEMMA AppliedElsewhere ==
    ASSUME NEW d \in [Key -> Stored], NEW c \in UpdateCall, NEW k \in Key \ Written(c)
    PROVE  Applied(d, Batch(c))[k] = d[k]
BY BatchType DEF Applied, WritesTo

LEMMA ErrorType ==
    ASSUME NEW status \in Status PROVE Error(status) \in Answer
BY DEF Error, Answer, Reply, Stored

LEMMA OkType ==
    ASSUME NEW v \in Stored PROVE Ok(v) \in Answer
BY DEF Ok, Answer, Reply, Status

LEMMA ReadAnswersType ==
    ASSUME NEW c \in GetsCall, NEW d
    PROVE  ReadAnswers(c, d) \subseteq Answer
<1>1. DOMAIN c.keys = 1 .. Len(c.keys) /\ Len(c.keys) \in Nat
  BY DEF GetsCall
<1>2. QED
  BY <1>1 DEF ReadAnswers, Answer

\* The calls are told apart by their op.
LEMMA CallKinds ==
    ASSUME NEW c \in Call
    PROVE  /\ c.op = "incrdecr" => c \in IncrDecrCall
           /\ c.op = "update" => c \in UpdateCall
           /\ c.op = "gets" => c \in GetsCall
BY CallAssumption DEF IncrDecrCall, UpdateCall, GetsCall

(***************************************************************************)
(* The last of the first n writes of a batch to a key, if there is one.    *)
(***************************************************************************)
BatchWrite == [key : Key, value : Stored]

LastAmong(k, b, n) ==
    LET W == {i \in 1 .. n : b[i].key = k}
    IN  IF W = {} THEN <<>> ELSE <<b[Max(W)].value>>

LEMMA LastOfNone == ASSUME NEW k, NEW b PROVE LastAmong(k, b, 0) = <<>>
BY DEF LastAmong

LEMMA LastOfMore ==
    ASSUME NEW k, NEW b, NEW n \in Nat
    PROVE  LastAmong(k, b, n + 1) =
              IF b[n + 1].key = k THEN <<b[n + 1].value>> ELSE LastAmong(k, b, n)
<1> DEFINE V == {i \in 1 .. n : b[i].key = k}
           W == {i \in 1 .. n + 1 : b[i].key = k}
<1>1. CASE b[n + 1].key = k
  <2>1. W \in SUBSET Int /\ n + 1 \in W /\ \A i \in W : i <= n + 1
    BY <1>1
  <2>2. Max(W) = n + 1
    BY <2>1, MaxIs
  <2>3. QED
    BY <1>1, <2>1, <2>2 DEF LastAmong
<1>2. CASE b[n + 1].key # k
  <2>1. V = W
    BY <1>2
  <2>2. QED
    BY <1>2, <2>1 DEF LastAmong
<1>3. QED
  BY <1>1, <1>2

LEMMA LastOfSame ==
    ASSUME NEW k, NEW b, NEW c, NEW n \in Nat, \A i \in 1 .. n : b[i] = c[i]
    PROVE  LastAmong(k, b, n) = LastAmong(k, c, n)
<1> DEFINE V == {i \in 1 .. n : b[i].key = k}
           W == {i \in 1 .. n : c[i].key = k}
<1>1. V = W
  OBVIOUS
<1>2. CASE V = {}
  BY <1>1, <1>2 DEF LastAmong
<1>3. CASE V # {}
  <2>1. V \in SUBSET (0 .. n)
    OBVIOUS
  <2>2. Max(V) \in V
    BY <1>3, <2>1, MaxExists
  <2>3. b[Max(V)] = c[Max(W)]
    BY <1>1, <2>2
  <2>4. QED
    BY <1>1, <1>3, <2>3 DEF LastAmong
<1>4. QED
  BY <1>2, <1>3

\* Adding a write to a batch.
LEMMA LastOfAppend ==
    ASSUME NEW k, NEW b \in Seq(BatchWrite), NEW w \in BatchWrite
    PROVE  LastAmong(k, Append(b, w), Len(Append(b, w))) =
              IF w.key = k THEN <<w.value>> ELSE LastAmong(k, b, Len(b))
<1> DEFINE c == Append(b, w)
<1>1. /\ Len(b) \in Nat /\ Len(c) = Len(b) + 1 /\ c[Len(b) + 1] = w
      /\ \A i \in 1 .. Len(b) : c[i] = b[i]
  BY AppendProperties
<1> HIDE DEF c
<1>2. LastAmong(k, c, Len(b)) = LastAmong(k, b, Len(b))
  BY <1>1, LastOfSame
<1>3. LastAmong(k, c, Len(b) + 1) = IF w.key = k THEN <<w.value>> ELSE LastAmong(k, c, Len(b))
  BY <1>1, LastOfMore
<1>4. QED
  BY <1>1, <1>2, <1>3 DEF c

\* What a batch leaves in a key.
LEMMA AppliedIs ==
    ASSUME NEW d, NEW b \in Seq(BatchWrite), NEW k \in Key
    PROVE  Applied(d, b)[k] =
              IF LastAmong(k, b, Len(b)) = <<>> THEN d[k] ELSE LastAmong(k, b, Len(b))[1]
<1>1. DOMAIN b = 1 .. Len(b)
  OBVIOUS
<1>2. WritesTo(k, b) = {i \in 1 .. Len(b) : b[i].key = k}
  BY <1>1 DEF WritesTo
<1>3. QED
  BY <1>2 DEF Applied, LastAmong

=============================================================================
