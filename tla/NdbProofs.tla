----------------------------- MODULE NdbProofs -----------------------------
(***************************************************************************)
(* Proofs about module Ndb, for every set of threads and keys, every set   *)
(* of calls and every width of the counters.                               *)
(***************************************************************************)
EXTENDS Ndb, NdbDataProofs

(***************************************************************************)
(* Type correctness, with what a program counter says of the call.         *)
(***************************************************************************)
Matches(t) ==
    /\ pc[t] # "idle" => call[t] \in Call
    /\ pc[t] \in {"lock"} \cup Held => call[t].op = "incrdecr"
    /\ pc[t] = "write" => call[t].op = "update"
    /\ pc[t] = "multiget" => call[t].op = "gets"

CallsMatch == \A t \in Thread : Matches(t)

TypeInv == TypeOK /\ CallsMatch

LEMMA TypeInit == Init => TypeInv
<1> SUFFICES ASSUME Init PROVE TypeInv
  OBVIOUS
<1>1. 0 \in Counter
  BY StoredAssumption DEF Counter
<1>2. TypeOK
  <2>1. <<>> \in Answer /\ <<>> \in Seq(Counter)
    BY DEF Answer
  <2>2. "idle" \in Pc
    BY DEF Pc
  <2>3. 0 \in 0 .. MaxCalls /\ 0 \in 0 .. MaxCrashes
    BY BoundsAssumption
  <2>4. QED
    BY <1>1, <2>1, <2>2, <2>3, CallAssumption DEF Init, TypeOK
<1>3. CallsMatch
  BY DEF Init, CallsMatch, Matches, Held
<1>4. QED
  BY <1>2, <1>3 DEF TypeInv

LEMMA TypeStep == TypeInv /\ [Next]_vars => TypeInv'
<1> SUFFICES ASSUME TypeInv, [Next]_vars PROVE TypeInv'
  OBVIOUS
<1> USE DEF TypeInv, TypeOK, CallsMatch, Matches, Pc, Held, Goto, Finish
<1>1. ASSUME NEW t \in Thread, Invoke(t) PROVE TypeInv'
  <2>1. PICK c \in Call : /\ call' = [call EXCEPT ![t] = c]
                          /\ \/ c.op = "incrdecr" /\ Goto(t, "lock")
                             \/ c.op = "update" /\ Goto(t, "write")
                             \/ c.op = "gets" /\ Goto(t, "multiget")
    BY <1>1 DEF Invoke
  <2>2. (calls \in 0 .. MaxCalls)'
    BY <1>1, BoundsAssumption DEF Invoke
  <2>3. TypeOK'
    BY <1>1, <2>1, <2>2 DEF Invoke
  <2>4. CallsMatch'
    BY <2>1
  <2>5. QED
    BY <2>3, <2>4
<1>2. ASSUME NEW t \in Thread, LockKey(t) PROVE TypeInv'
  BY <1>2, CallKinds DEF LockKey, IncrDecrCall
<1>3. ASSUME NEW t \in Thread, ReadCounter(t) PROVE TypeInv'
  <2> DEFINE c == call[t]
             stored == db[c.key]
  <2>1. c \in IncrDecrCall /\ c.key \in Key /\ stored \in Stored
    BY <1>3, CallKinds DEF ReadCounter, IncrDecrCall
  <2>2. stored \notin Blob => Stepped(c, stored) \in Counter
    BY <2>1, SteppedType DEF Stored, Value
  <2>3. Error("fault") \in Answer /\ Error("bad_size") \in Answer
    BY ErrorType DEF Status
  <2>4. TypeOK'
    BY <1>3, <2>2, <2>3 DEF ReadCounter
  <2>5. CallsMatch'
    BY <1>3 DEF ReadCounter
  <2>6. QED
    BY <2>4, <2>5
<1>4. ASSUME NEW t \in Thread, PutCounter(t) PROVE TypeInv'
  <2>1. call[t] \in IncrDecrCall /\ call[t].key \in Key
    BY <1>4, CallKinds DEF PutCounter, IncrDecrCall
  <2>2. next[t] \in Counter /\ next[t] \in Stored
    BY DEF Stored, Value
  <2>3. Error("fault") \in Answer /\ Ok(next[t]) \in Answer
    BY <2>2, ErrorType, OkType DEF Status
  <2>4. Append(issued[call[t].key], next[t]) \in Seq(Counter)
    BY <2>1, <2>2
  <2> DEFINE k == call[t].key
  <2>5. db' \in [Key -> Stored] /\ issued' \in [Key -> Seq(Counter)]
    <3>1. \/ UNCHANGED <<db, issued>>
          \/ /\ db' = [db EXCEPT ![k] = next[t]]
             /\ issued' = [issued EXCEPT ![k] = Append(@, next[t])]
      BY <1>4 DEF PutCounter
    <3>2. QED
      BY <2>1, <2>2, <2>4, <3>1
  <2>6. answer' \in [Thread -> Answer] /\ pc' \in [Thread -> Pc]
    <3>1. PICK a \in Answer : Finish(t, a, "unlock")
      BY <1>4, <2>3 DEF PutCounter
    <3>2. QED
      BY <3>1
  <2>7. TypeOK'
    BY <1>4, <2>5, <2>6 DEF PutCounter
  <2>8. CallsMatch'
    BY <1>4 DEF PutCounter
  <2>9. QED
    BY <2>7, <2>8
<1>5. ASSUME NEW t \in Thread, UnlockKey(t) PROVE TypeInv'
  BY <1>5 DEF UnlockKey
<1>6. ASSUME NEW t \in Thread, Write(t) PROVE TypeInv'
  <2>1. call[t] \in UpdateCall
    BY <1>6, CallKinds DEF Write
  <2>2. Applied(db, Batch(call[t])) \in [Key -> Stored]
    BY <2>1, AppliedType
  <2>3. Error("fault") \in Answer /\ Ok(Absent) \in Answer
    BY ErrorType, OkType DEF Status, Stored
  <2>4. TypeOK'
    BY <1>6, <2>2, <2>3 DEF Write
  <2>5. CallsMatch'
    BY <1>6 DEF Write
  <2>6. QED
    BY <2>4, <2>5
<1>7. ASSUME NEW t \in Thread, MultiGet(t) PROVE TypeInv'
  <2>1. call[t] \in GetsCall
    BY <1>7, CallKinds DEF MultiGet
  <2>2. PICK a \in ReadAnswers(call[t], db) : Finish(t, a, "reply")
    BY <1>7 DEF MultiGet
  <2>3. a \in Answer
    BY <2>1, ReadAnswersType
  <2>4. TypeOK'
    BY <1>7, <2>2, <2>3 DEF MultiGet
  <2>5. CallsMatch'
    BY <1>7, <2>2 DEF MultiGet
  <2>6. QED
    BY <2>4, <2>5
<1>8. ASSUME NEW t \in Thread, Return(t) PROVE TypeInv'
  <2>1. 0 \in Counter /\ <<>> \in Answer
    BY StoredAssumption DEF Counter, Answer
  <2>2. QED
    BY <1>8, <2>1 DEF Return
<1>9. CASE Crash
  <2>1. 0 \in Counter /\ <<>> \in Answer
    BY StoredAssumption DEF Counter, Answer
  <2>2. (crashes \in 0 .. MaxCrashes)'
    BY <1>9, BoundsAssumption DEF Crash
  <2>3. QED
    BY <1>9, <2>1, <2>2 DEF Crash
<1>10. CASE UNCHANGED vars
  BY <1>10 DEF vars
<1>11. QED
  BY <1>1, <1>2, <1>3, <1>4, <1>5, <1>6, <1>7, <1>8, <1>9, <1>10 DEF Next, Step

THEOREM TypeInvariant == Spec => []TypeInv
BY TypeInit, TypeStep, PTL DEF Spec

\* Every variable keeps its type: no interleaving, failed access or crash makes
\* incrdecr store a value outside uint64_t, or a batch a value that is not one.
THEOREM TypeCorrect == Spec => []TypeOK
<1>1. TypeInv => TypeOK
  BY DEF TypeInv
<1>2. QED
  BY <1>1, TypeInvariant, PTL

(***************************************************************************)
(* The key locks.                                                          *)
(***************************************************************************)
LEMMA LocksInit == Init => LocksFollowCalls
BY BoundsAssumption DEF Init, LocksFollowCalls, Held

LEMMA LocksStep == TypeInv /\ LocksFollowCalls /\ [Next]_vars => LocksFollowCalls'
<1> SUFFICES ASSUME TypeInv, LocksFollowCalls, [Next]_vars PROVE LocksFollowCalls'
  OBVIOUS
<1> USE BoundsAssumption DEF TypeInv, TypeOK, LocksFollowCalls, Held, Pc, Goto, Finish
<1>1. ASSUME NEW t \in Thread, Invoke(t) PROVE LocksFollowCalls'
  BY <1>1 DEF Invoke
<1>2. ASSUME NEW t \in Thread, LockKey(t) PROVE LocksFollowCalls'
  <2>1. call[t].key \in Key
    BY <1>2, CallKinds DEF LockKey, CallsMatch, Matches, IncrDecrCall
  <2>2. QED
    BY <1>2, <2>1 DEF LockKey
<1>3. ASSUME NEW t \in Thread, ReadCounter(t) PROVE LocksFollowCalls'
  BY <1>3 DEF ReadCounter
<1>4. ASSUME NEW t \in Thread, PutCounter(t) PROVE LocksFollowCalls'
  BY <1>4 DEF PutCounter
<1>5. ASSUME NEW t \in Thread, UnlockKey(t) PROVE LocksFollowCalls'
  <2>1. call[t].key \in Key
    BY <1>5, CallKinds DEF UnlockKey, CallsMatch, Matches, IncrDecrCall
  <2>2. QED
    BY <1>5, <2>1 DEF UnlockKey
<1>6. ASSUME NEW t \in Thread, Write(t) PROVE LocksFollowCalls'
  BY <1>6 DEF Write
<1>7. ASSUME NEW t \in Thread, MultiGet(t) PROVE LocksFollowCalls'
  BY <1>7 DEF MultiGet
<1>8. ASSUME NEW t \in Thread, Return(t) PROVE LocksFollowCalls'
  BY <1>8 DEF Return
<1>9. CASE Crash
  BY <1>9 DEF Crash
<1>10. CASE UNCHANGED vars
  BY <1>10 DEF vars
<1>11. QED
  BY <1>1, <1>2, <1>3, <1>4, <1>5, <1>6, <1>7, <1>8, <1>9, <1>10 DEF Next, Step

\* A key's lock is held exactly by the incrdecr between locksFor and its return.
THEOREM LocksCorrect == Spec => []LocksFollowCalls
BY LocksInit, LocksStep, TypeInvariant, PTL DEF Spec

(***************************************************************************)
(* No lost update: on a key that no update writes, what incrdecr has read  *)
(* stays current until it puts.                                            *)
(***************************************************************************)
CurrentInv == \A k \in Key : Uncontested(k) => CurrentAt(k)

\* Two threads are never both between the lock and the unlock of one key.
LEMMA OneHolder ==
    ASSUME LocksFollowCalls, NEW k \in Key, NEW t \in Thread, NEW u \in Thread,
           pc[t] \in Held, call[t].key = k, pc[u] \in Held, call[u].key = k
    PROVE  t = u
BY DEF LocksFollowCalls

\* Only a put of incrdecr changes an uncontested key.
LEMMA UncontestedWrites ==
    ASSUME TypeInv, [Next]_vars, NEW k \in Key, Uncontested(k), db'[k] # db[k]
    PROVE  \E t \in Thread : PutCounter(t) /\ pc[t] = "put" /\ call[t].key = k
<1> USE DEF TypeInv, TypeOK, CallsMatch, Matches, Held
<1>1. ASSUME NEW t \in Thread, Write(t) PROVE FALSE
  <2>1. call[t] \in Call /\ call[t] \in UpdateCall /\ call[t].op = "update"
    BY <1>1, CallKinds DEF Write
  <2>2. k \notin Written(call[t])
    BY <2>1 DEF Uncontested
  <2>3. Applied(db, Batch(call[t]))[k] = db[k]
    BY <2>1, <2>2, AppliedElsewhere
  <2>4. QED
    BY <1>1, <2>3 DEF Write
<1>2. ASSUME NEW t \in Thread, PutCounter(t) PROVE pc[t] = "put" /\ call[t].key = k
  BY <1>2 DEF PutCounter
<1>3. QED
  BY <1>1, <1>2 DEF Next, Step, Invoke, LockKey, ReadCounter, UnlockKey, MultiGet, Return,
                    Crash, vars

LEMMA CurrentInit == Init => CurrentInv
BY DEF Init, CurrentInv, CurrentAt

LEMMA CurrentStep ==
    TypeInv /\ LocksFollowCalls /\ CurrentInv /\ [Next]_vars => CurrentInv'
<1> SUFFICES ASSUME TypeInv, LocksFollowCalls, CurrentInv, [Next]_vars,
                    NEW k \in Key, Uncontested(k),
                    NEW u \in Thread, pc'[u] = "put", call'[u].key = k
             PROVE  db'[k] \notin Blob /\ next'[u] = Stepped(call'[u], db'[k])
  BY DEF CurrentInv, CurrentAt
<1> USE DEF TypeInv, TypeOK, Goto, Finish
<1>1. CASE pc[u] = "put" /\ UNCHANGED <<call[u], next[u]>>
  <2>1. db'[k] = db[k]
    <3> SUFFICES ASSUME db'[k] # db[k] PROVE FALSE
      OBVIOUS
    <3>1. PICK t \in Thread : PutCounter(t) /\ pc[t] = "put" /\ call[t].key = k
      BY UncontestedWrites
    <3>2. t = u
      BY <1>1, <3>1, OneHolder DEF Held
    <3>3. pc'[u] = "unlock"
      BY <3>1, <3>2 DEF PutCounter
    <3>4. QED
      BY <3>3
  <2>2. QED
    BY <1>1, <2>1 DEF CurrentInv, CurrentAt
<1>2. CASE ReadCounter(u)
  BY <1>2 DEF ReadCounter
<1>3. ASSUME NEW t \in Thread, Invoke(t) PROVE pc[u] = "put" /\ UNCHANGED <<call[u], next[u]>>
  BY <1>3 DEF Invoke
<1>4. ASSUME NEW t \in Thread, t # u, Step(t)
      PROVE  pc[u] = "put" /\ UNCHANGED <<call[u], next[u]>>
  BY <1>4 DEF Step, LockKey, ReadCounter, PutCounter, UnlockKey, Write, MultiGet, Return
<1>5. ASSUME Step(u) PROVE ReadCounter(u)
  BY <1>5 DEF Step, LockKey, ReadCounter, PutCounter, UnlockKey, Write, MultiGet, Return
<1>6. CASE Crash
  BY <1>6 DEF Crash
<1>7. CASE UNCHANGED vars
  BY <1>1, <1>7 DEF vars
<1>8. QED
  BY <1>1, <1>2, <1>3, <1>4, <1>5, <1>6, <1>7 DEF Next

THEOREM CurrentInvariant == Spec => []CurrentInv
BY CurrentInit, CurrentStep, TypeInvariant, LocksCorrect, PTL DEF Spec

\* When no client updates a key it counts with, the value incrdecr is about to
\* put is computed from what the key still holds.
THEOREM NoLostUpdate ==
    ASSUME CountersApart PROVE Spec => []ReadStaysCurrent
<1>1. TypeInv /\ CurrentInv => ReadStaysCurrent
  <2> SUFFICES ASSUME TypeInv, CurrentInv,
                      NEW k \in Key, NEW t \in Thread, pc[t] = "put", call[t].key = k
               PROVE  db[k] \notin Blob /\ next[t] = Stepped(call[t], db[k])
    BY DEF ReadStaysCurrent, CurrentAt
  <2>1. call[t] \in Call /\ call[t].op = "incrdecr"
    BY DEF TypeInv, CallsMatch, Matches, Held
  <2>2. Uncontested(k)
    BY <2>1 DEF CountersApart
  <2>3. QED
    BY <2>2 DEF CurrentInv, CurrentAt
<1>2. QED
  BY <1>1, TypeInvariant, CurrentInvariant, PTL

(***************************************************************************)
(* Id generators.  The invariant says, besides the order of the ids, that  *)
(* the key holds the last of them and how far it can have come: without    *)
(* the bound nothing excludes that an addition wraps.                      *)
(***************************************************************************)
Reached(k) == Base(k) + Len(issued[k]) * (ShortMod - 1)

IdsAt(k) ==
    /\ Increasing(issued[k])
    /\ issued[k] = <<>> => db[k] = InitDb[k]
    /\ issued[k] # <<>> => db[k] = issued[k][Len(issued[k])]
    /\ db[k] \in Counter => db[k] <= Reached(k)

IdsInv == \A k \in Key : Generator(k) /\ Room(k) => IdsAt(k)

LEMMA BaseType == ASSUME NEW k \in Key PROVE Base(k) \in Nat
BY StoredAssumption DEF Base, Counter

LEMMA IdsInit == Init => IdsInv
<1> SUFFICES ASSUME Init, NEW k \in Key PROVE IdsAt(k)
  BY DEF IdsInv
<1>1. issued[k] = <<>> /\ db[k] = InitDb[k]
  BY DEF Init
<1>2. Reached(k) = Base(k)
  BY <1>1, BaseType, StoredAssumption DEF Reached
<1>3. QED
  BY <1>1, <1>2, StoredAssumption DEF IdsAt, Increasing, Base, Counter

\* An increment within the bound does not wrap.
LEMMA StepUp ==
    ASSUME NEW c \in IncrDecrCall, c.incr, c.delta > 0,
           NEW stored \in Counter \cup {Absent},
           NEW b \in Nat, Current(c, stored) <= b, b + (ShortMod - 1) < CounterMod
    PROVE  /\ Stepped(c, stored) = Current(c, stored) + c.delta
           /\ Stepped(c, stored) <= b + (ShortMod - 1)
<1>1. Current(c, stored) \in Nat
  BY StoredAssumption DEF Current, Counter, Short, IncrDecrCall
<1>2. c.delta \in Nat /\ c.delta <= ShortMod - 1 /\ ShortMod \in Nat /\ CounterMod \in Nat \ {0}
  BY StoredAssumption DEF Short, IncrDecrCall
<1> DEFINE v == Current(c, stored) + c.delta
<1>3. v \in 0 .. CounterMod - 1
  BY <1>1, <1>2
<1>4. \A x \in 0 .. CounterMod - 1 : x % CounterMod = x
  BY <1>2
<1>5. Stepped(c, stored) = v
  BY <1>3, <1>4 DEF Stepped
<1>6. QED
  BY <1>1, <1>2, <1>5

\* A put on an id generator within its bound keeps the ids in order.
LEMMA IdsPut ==
    ASSUME TypeInv, ReadStaysCurrent, IdsInv, NEW k \in Key, Generator(k), Room(k)',
           NEW t \in Thread, PutCounter(t), call[t].key = k
    PROVE  IdsAt(k)'
<1> DEFINE n == Len(issued[k])
           s == ShortMod - 1
           v == next[t]
<1>1. db \in [Key -> Stored] /\ issued \in [Key -> Seq(Counter)] /\ issued[k] \in Seq(Counter)
  BY DEF TypeInv, TypeOK
<1>2. n \in Nat /\ s \in Nat /\ Base(k) \in Nat /\ CounterMod \in Nat \ {0}
  BY <1>1, BaseType, StoredAssumption
<1>3. (n + 1) * s = n * s + s /\ n * s \in Nat
  BY <1>2
<1>4. call[t] \in Call /\ call[t] \in IncrDecrCall /\ call[t].op = "incrdecr" /\ pc[t] = "put"
  BY CallKinds DEF PutCounter, TypeInv, CallsMatch, Matches, Held
<1>5. call[t].incr /\ call[t].delta > 0
  BY <1>4 DEF Generator
<1>6. CASE UNCHANGED <<db, issued>>
  <2>1. Room(k)
    BY <1>6 DEF Room, Base
  <2>2. IdsAt(k)
    BY <2>1 DEF IdsInv
  <2>3. QED
    BY <1>6, <2>2 DEF IdsAt, Reached, Base
<1>7. CASE db' = [db EXCEPT ![k] = v] /\ issued' = [issued EXCEPT ![k] = Append(@, v)]
  <2>1. db'[k] = v /\ issued'[k] = Append(issued[k], v)
    BY <1>1, <1>7
  <2>2. v \in Counter
    BY DEF TypeInv, TypeOK
  <2>3. Len(issued'[k]) = n + 1 /\ issued'[k] \in Seq(Counter)
    BY <1>1, <2>1, <2>2
  <2>4. Base(k) + n * s + s < CounterMod
    <3>1. Base(k) + (n + 1) * s < CounterMod
      BY <2>3 DEF Room, Base
    <3>2. QED
      BY <1>2, <1>3, <3>1
  <2>5. Room(k) /\ Reached(k) = Base(k) + n * s
    BY <1>2, <1>3, <2>4 DEF Room, Reached
  <2>6. IdsAt(k)
    BY <2>5 DEF IdsInv
  <2>7. db[k] \in Counter \cup {Absent} /\ v = Stepped(call[t], db[k])
    BY <1>1, <1>4 DEF ReadStaysCurrent, CurrentAt, Stored, Value
  <2>8. Current(call[t], db[k]) \in Nat /\ Current(call[t], db[k]) <= Base(k) + n * s
    <3>1. CASE db[k] \in Counter
      <4>1. db[k] # Absent /\ db[k] \in Nat
        BY <3>1, StoredAssumption DEF Value, Counter
      <4>2. db[k] <= Base(k) + n * s
        BY <2>5, <2>6, <3>1 DEF IdsAt
      <4>3. QED
        BY <4>1, <4>2 DEF Current
    <3>2. CASE db[k] = Absent
      <4>1. issued[k] = <<>>
        <5> SUFFICES ASSUME issued[k] # <<>> PROVE FALSE
          OBVIOUS
        <5>1. Len(issued[k]) \in 1 .. Len(issued[k]) /\ issued[k][Len(issued[k])] \in Counter
          BY <1>1
        <5>2. QED
          BY <2>6, <3>2, <5>1, StoredAssumption DEF IdsAt, Value
      <4>2. InitDb[k] \notin Counter
        BY <2>6, <3>2, <4>1, StoredAssumption DEF IdsAt, Value
      <4>3. Base(k) = s
        BY <4>2 DEF Base
      <4>4. call[t].init \in Nat /\ call[t].init <= s
        BY <1>4, StoredAssumption DEF IncrDecrCall, Short
      <4>5. QED
        BY <1>2, <1>3, <3>2, <4>3, <4>4 DEF Current
    <3>3. QED
      BY <2>7, <3>1, <3>2
  <2>9. v = Current(call[t], db[k]) + call[t].delta /\ v <= Base(k) + n * s + s
    <3> DEFINE b == Base(k) + n * s
    <3>1. b \in Nat /\ b + (ShortMod - 1) < CounterMod
      BY <1>2, <1>3, <2>4
    <3>2. QED
      BY <1>4, <1>5, <2>7, <2>8, <3>1, StepUp
  <2>10. v <= Reached(k)'
    <3>1. Reached(k)' = Base(k) + (n + 1) * s
      BY <2>3 DEF Reached, Base
    <3>2. QED
      BY <1>2, <1>3, <2>9, <3>1
  <2>11. issued[k] # <<>> => issued[k][n] < v
    <3> SUFFICES ASSUME issued[k] # <<>> PROVE issued[k][n] < v
      OBVIOUS
    <3>1. issued[k][n] \in Counter /\ db[k] = issued[k][n]
      BY <1>1, <2>6 DEF IdsAt
    <3>2. Current(call[t], db[k]) = db[k]
      BY <3>1, StoredAssumption DEF Current, Value
    <3>3. call[t].delta \in Nat /\ call[t].delta > 0
      BY <1>4, <1>5, StoredAssumption DEF IncrDecrCall, Short
    <3>4. QED
      BY <2>9, <3>1, <3>2, <3>3, StoredAssumption DEF Counter
  <2>12. Increasing(issued'[k])
    <3> SUFFICES ASSUME NEW i \in 1 .. n + 1, NEW j \in 1 .. n + 1, i < j
                 PROVE  issued'[k][i] < issued'[k][j]
      <4>1. DOMAIN issued'[k] = 1 .. n + 1
        BY <2>3
      <4>2. QED
        BY <4>1 DEF Increasing
    <3>1. i \in 1 .. n /\ issued'[k][i] = issued[k][i] /\ issued[k][i] \in Counter
      BY <1>1, <1>2, <2>1, <2>2
    <3>2. CASE j \in 1 .. n
      <4>1. issued'[k][j] = issued[k][j]
        BY <1>1, <1>2, <2>1, <2>2, <3>2
      <4>2. issued[k][i] < issued[k][j]
        BY <1>1, <2>6, <3>1, <3>2 DEF IdsAt, Increasing
      <4>3. QED
        BY <3>1, <4>1, <4>2
    <3>3. CASE j = n + 1
      <4>1. issued'[k][j] = v
        BY <1>1, <2>1, <2>2, <3>3
      <4>2. n \in 1 .. n /\ issued[k][n] \in Counter /\ issued[k] # <<>>
        BY <1>1, <1>2, <3>1
      <4>3. issued[k][i] <= issued[k][n]
        <5>1. CASE i = n
          BY <3>1, <5>1, StoredAssumption DEF Counter
        <5>2. CASE i < n
          <6>1. issued[k][i] < issued[k][n]
            BY <1>1, <2>6, <3>1, <4>2, <5>2 DEF IdsAt, Increasing
          <6>2. QED
            BY <3>1, <4>2, <6>1, StoredAssumption DEF Counter
        <5>3. QED
          BY <1>2, <3>1, <5>1, <5>2
      <4>4. QED
        BY <2>2, <2>11, <3>1, <4>1, <4>2, <4>3, StoredAssumption DEF Counter
    <3>4. QED
      BY <1>2, <3>2, <3>3
  <2>13. issued'[k] # <<>> /\ issued'[k][Len(issued'[k])] = v
    <3>1. Len(issued'[k]) = n + 1 /\ issued'[k] # <<>>
      BY <1>2, <2>3, <2>2
    <3>2. issued'[k][n + 1] = v
      BY <1>2, <2>1, <2>2
    <3>3. QED
      BY <3>1, <3>2
  <2>14. QED
    BY <2>1, <2>10, <2>12, <2>13 DEF IdsAt
<1>8. QED
  BY <1>6, <1>7 DEF PutCounter

LEMMA IdsStep == TypeInv /\ ReadStaysCurrent /\ IdsInv /\ [Next]_vars => IdsInv'
<1> SUFFICES ASSUME TypeInv, ReadStaysCurrent, IdsInv, [Next]_vars,
                    NEW k \in Key, Generator(k), Room(k)'
             PROVE  IdsAt(k)'
  BY DEF IdsInv, Generator, Uncontested, Written
<1>1. ASSUME NEW t \in Thread, PutCounter(t), call[t].key = k PROVE IdsAt(k)'
  BY <1>1, IdsPut
<1>2. CASE UNCHANGED <<db[k], issued[k]>>
  <2>1. Room(k)
    BY <1>2 DEF Room, Base
  <2>2. QED
    BY <1>2, <2>1 DEF IdsInv, IdsAt, Reached, Base
<1>3. ASSUME NEW t \in Thread, PutCounter(t), call[t].key # k PROVE UNCHANGED <<db[k], issued[k]>>
  BY <1>3 DEF PutCounter, TypeInv, TypeOK
<1>4. ASSUME \A t \in Thread : ~ PutCounter(t) PROVE UNCHANGED <<db[k], issued[k]>>
  <2>1. db'[k] = db[k]
    BY <1>4, UncontestedWrites DEF Generator
  <2>2. UNCHANGED issued
    BY <1>4 DEF Next, Step, Invoke, LockKey, ReadCounter, UnlockKey, Write, MultiGet, Return,
                Crash, vars
  <2>3. QED
    BY <2>1, <2>2
<1>5. QED
  BY <1>1, <1>2, <1>3, <1>4

\* A key that is only counted up hands out increasing ids until the sum of the
\* steps can reach the width of the counter.
THEOREM IdsCorrect ==
    ASSUME CountersApart PROVE Spec => []IdsIncrease
<1>1. IdsInv => IdsIncrease
  BY DEF IdsInv, IdsIncrease, IdsAt
<1>2. QED
  BY <1>1, IdsInit, IdsStep, TypeInvariant, NoLostUpdate, PTL DEF Spec

(***************************************************************************)
(* Refinement: every call takes effect at one instant.                     *)
(***************************************************************************)
LEMMA LinearInit == Init => Linear!Init
BY DEF Init, Linear!Init, Phase

\* The two modules read the calls alike.
LEMMA SameData ==
    /\ \A status : Linear!Error(status) = Error(status)
    /\ \A v : Linear!Ok(v) = Ok(v)
    /\ \A c, stored : Linear!Stepped(c, stored) = Stepped(c, stored)
    /\ \A c, d : Linear!Applied(d, Linear!Batch(c)) = Applied(d, Batch(c))
    /\ \A c, d : Linear!ReadAnswers(c, d) = ReadAnswers(c, d)
<1>1. \A status : Linear!Error(status) = Error(status)
  BY DEF Linear!Error, Error
<1>2. \A v : Linear!Ok(v) = Ok(v)
  BY DEF Linear!Ok, Ok
<1>3. \A c, stored : Linear!Stepped(c, stored) = Stepped(c, stored)
  BY DEF Linear!Stepped, Stepped, Linear!Current, Current
<1>4. \A c : Linear!Batch(c) = Batch(c)
  BY DEF Linear!Batch, Batch
<1>5. \A b, d : Linear!Applied(d, b) = Applied(d, b)
  BY DEF Linear!Applied, Applied, Linear!WritesTo, WritesTo, Linear!Max, Max
<1>6. \A stored : Linear!ReadReply(stored) = ReadReply(stored)
  BY <1>1, <1>2 DEF Linear!ReadReply, ReadReply
<1>7. \A c, d : Linear!ReadAnswers(c, d) = ReadAnswers(c, d)
  BY <1>1, <1>6 DEF Linear!ReadAnswers, ReadAnswers, Linear!Reply, Reply, Linear!Stored, Stored,
     Linear!Value, Value, Linear!Counter, Counter, Linear!Status, Status
<1>8. QED
  BY <1>1, <1>2, <1>3, <1>4, <1>5, <1>7

LEMMA LinearStep ==
    TypeInv /\ ReadStaysCurrent /\ [Next]_vars => [Linear!Next]_(Linear!vars)
<1> SUFFICES ASSUME TypeInv, ReadStaysCurrent, [Next]_vars
             PROVE  Linear!Next \/ UNCHANGED Linear!vars
  OBVIOUS
<1> DEFINE phase == [t \in Thread |-> Phase(pc[t])]
<1> USE DEF TypeInv, TypeOK, Goto, Finish, Phase
<1>1. ASSUME NEW t \in Thread, Invoke(t) PROVE Linear!Invoke(t)
  BY <1>1 DEF Invoke, Linear!Invoke
<1>2. ASSUME NEW t \in Thread, LockKey(t) PROVE UNCHANGED Linear!vars
  BY <1>2 DEF LockKey, Linear!vars
<1>3. ASSUME NEW t \in Thread, ReadCounter(t)
      PROVE  Linear!Fail(t) \/ Linear!IncrDecr(t) \/ UNCHANGED Linear!vars
  <2>1. call[t].op = "incrdecr" /\ phase[t] = "called"
    BY <1>3 DEF ReadCounter, CallsMatch, Matches, Held
  <2>2. CASE Finish(t, Error("fault"), "unlock") /\ UNCHANGED <<db, call>>
    BY <2>1, <2>2, SameData DEF Linear!Fail, Linear!Calling, Linear!TakeEffect
  <2>3. CASE /\ db[call[t].key] \in Blob
             /\ Finish(t, Error("bad_size"), "unlock")
             /\ UNCHANGED <<db, call>>
    BY <2>1, <2>3, SameData DEF Linear!IncrDecr, Linear!Calling, Linear!TakeEffect
  <2>4. CASE Goto(t, "put") /\ UNCHANGED <<db, call, answer>>
    BY <1>3, <2>4 DEF ReadCounter, Linear!vars
  <2>5. QED
    BY <1>3, <2>2, <2>3, <2>4 DEF ReadCounter
<1>4. ASSUME NEW t \in Thread, PutCounter(t) PROVE Linear!Fail(t) \/ Linear!IncrDecr(t)
  <2>1. call[t].op = "incrdecr" /\ phase[t] = "called" /\ call[t].key \in Key
    BY <1>4, CallKinds DEF PutCounter, CallsMatch, Matches, Held, IncrDecrCall
  <2>2. CASE Finish(t, Error("fault"), "unlock") /\ UNCHANGED <<db, call>>
    BY <2>1, <2>2, SameData DEF Linear!Fail, Linear!Calling, Linear!TakeEffect
  <2>3. CASE /\ db' = [db EXCEPT ![call[t].key] = next[t]]
             /\ Finish(t, Ok(next[t]), "unlock")
             /\ UNCHANGED call
    <3>1. db[call[t].key] \notin Blob /\ next[t] = Stepped(call[t], db[call[t].key])
      BY <1>4, <2>1 DEF PutCounter, ReadStaysCurrent, CurrentAt
    <3>2. QED
      BY <2>1, <2>3, <3>1, SameData DEF Linear!IncrDecr, Linear!Calling, Linear!TakeEffect
  <2>4. QED
    BY <1>4, <2>2, <2>3 DEF PutCounter
<1>5. ASSUME NEW t \in Thread, UnlockKey(t) PROVE UNCHANGED Linear!vars
  BY <1>5 DEF UnlockKey, Linear!vars
<1>6. ASSUME NEW t \in Thread, Write(t) PROVE Linear!Fail(t) \/ Linear!Update(t)
  <2>1. call[t].op = "update" /\ phase[t] = "called"
    BY <1>6 DEF Write, CallsMatch, Matches
  <2>2. QED
    BY <1>6, <2>1, SameData DEF Write, Linear!Fail, Linear!Update, Linear!Calling, Linear!TakeEffect
<1>7. ASSUME NEW t \in Thread, MultiGet(t) PROVE Linear!Gets(t)
  <2>1. call[t].op = "gets" /\ phase[t] = "called"
    BY <1>7 DEF MultiGet, CallsMatch, Matches
  <2>2. PICK a \in ReadAnswers(call[t], db) : Finish(t, a, "reply") /\ UNCHANGED <<db, call>>
    BY <1>7 DEF MultiGet
  <2>3. a \in Linear!ReadAnswers(call[t], db)
    BY <2>2, SameData
  <2>4. Linear!TakeEffect(t, db, a)
    BY <2>2 DEF Linear!TakeEffect
  <2>5. QED
    BY <2>1, <2>3, <2>4 DEF Linear!Gets, Linear!Calling
<1>8. ASSUME NEW t \in Thread, Return(t) PROVE Linear!Respond(t)
  BY <1>8 DEF Return, Linear!Respond
<1>9. CASE Crash
  BY <1>9 DEF Crash, Linear!Crash, Linear!Next
<1>10. CASE UNCHANGED vars
  BY <1>10 DEF vars, Linear!vars
<1>11. QED
  BY <1>1, <1>2, <1>3, <1>4, <1>5, <1>6, <1>7, <1>8, <1>9, <1>10
     DEF Next, Step, Linear!Next

\* Seen by its callers the database is the atomic store of LinearStore.
THEOREM Refinement ==
    ASSUME CountersApart PROVE Spec => Linearizable
<1>1. QED
  BY LinearInit, LinearStep, TypeInvariant, NoLostUpdate, PTL
     DEF Spec, Linearizable, Linear!Spec

(***************************************************************************)
(* A call is short and waits for one that waits for nothing.               *)
(***************************************************************************)
\* No fewer than the steps that are left to t.
StepsLeft(t) ==
    CASE pc[t] = "lock" -> 5
      [] pc[t] = "read" -> 4
      [] pc[t] = "put"  -> 3
      [] pc[t] \in {"unlock", "write", "multiget"} -> 2
      [] pc[t] = "reply" -> 1
      [] pc[t] = "idle"  -> 0

\* The lock that t waits for is free, or another thread has it that is past its
\* own wait.
WaitsForRunning(t) ==
    pc[t] = "lock" =>
        LET k == call[t].key
        IN  locks[k] = None \/ \E u \in Thread \ {t} : locks[k] = u /\ pc[u] \in Held

LEMMA WaitsForHolder ==
    ASSUME TypeInv, LocksFollowCalls, NEW t \in Thread
    PROVE  WaitsForRunning(t)
<1> SUFFICES ASSUME pc[t] = "lock", locks[call[t].key] # None
             PROVE  \E u \in Thread \ {t} : locks[call[t].key] = u /\ pc[u] \in Held
  BY DEF WaitsForRunning
<1>1. call[t] \in Call /\ call[t].op = "incrdecr"
  BY DEF TypeInv, CallsMatch, Matches
<1>2. call[t].key \in Key
  BY <1>1, CallKinds DEF IncrDecrCall
<1>3. PICK u \in Thread : locks[call[t].key] = u
  BY <1>2 DEF TypeInv, TypeOK
<1>4. pc[u] \in Held
  BY <1>2, <1>3 DEF LocksFollowCalls
<1>5. u # t
  BY <1>4 DEF Held
<1>6. QED
  BY <1>3, <1>4, <1>5

LEMMA StepNearer ==
    ASSUME TypeInv, NEW t \in Thread, Step(t)
    PROVE  StepsLeft(t)' < StepsLeft(t) /\ \A u \in Thread \ {t} : StepsLeft(u)' = StepsLeft(u)
<1>1. pc \in [Thread -> Pc]
  BY DEF TypeInv, TypeOK
<1>2. PICK l : /\ pc' = [pc EXCEPT ![t] = l]
               /\ <<pc[t], l>> \in {<<"lock", "read">>, <<"read", "put">>, <<"read", "unlock">>,
                                    <<"put", "unlock">>, <<"unlock", "reply">>, <<"write", "reply">>,
                                    <<"multiget", "reply">>, <<"reply", "idle">>}
  BY DEF Step, LockKey, ReadCounter, PutCounter, UnlockKey, Write, MultiGet, Return, Goto, Finish
<1>3. pc'[t] = l /\ \A u \in Thread \ {t} : pc'[u] = pc[u]
  BY <1>1, <1>2
<1>4. \A u \in Thread \ {t} : StepsLeft(u)' = StepsLeft(u)
  BY <1>3 DEF StepsLeft
<1>5. StepsLeft(t)' < StepsLeft(t)
  BY <1>2, <1>3 DEF StepsLeft
<1>6. QED
  BY <1>4, <1>5

\* A call takes five steps at most, whatever fails, and no step of another call
\* gives it more; and the lock that it may have to wait for is in the hands of a
\* call that waits for nothing: threads never wait for each other in a circle.
THEOREM CallShort ==
    Spec => /\ [](\A t \in Thread : WaitsForRunning(t))
            /\ [][\A t \in Thread : Step(t) =>
                    /\ StepsLeft(t)' < StepsLeft(t)
                    /\ \A u \in Thread \ {t} : StepsLeft(u)' = StepsLeft(u)]_vars
<1>1. TypeInv /\ LocksFollowCalls => \A t \in Thread : WaitsForRunning(t)
  BY WaitsForHolder
<1>2. TypeInv => \A t \in Thread : Step(t) =>
                    /\ StepsLeft(t)' < StepsLeft(t)
                    /\ \A u \in Thread \ {t} : StepsLeft(u)' = StepsLeft(u)
  BY StepNearer
<1>3. QED
  BY <1>1, <1>2, TypeInvariant, LocksCorrect, PTL

=============================================================================
