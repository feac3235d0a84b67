-------------------------- MODULE ReqHandlerProofs --------------------------
(***************************************************************************)
(* Proofs about module ReqHandler, for every set of workers, databases and *)
(* keys, every request, every order of the writes and every crash: what is *)
(* in the databases when an update, split by database, is answered.        *)
(***************************************************************************)
EXTENDS ReqHandler, NdbDataProofs, FiniteSetTheorems

(***************************************************************************)
(* The requests.                                                           *)
(***************************************************************************)
LEMMA Limits == MaxRequests \in Nat /\ MaxCrashes \in Nat
BY RequestAssumption

LEMMA RequestKinds ==
    ASSUME NEW r \in Request
    PROVE  /\ r.op = "update" => r \in UpdateCall
           /\ r.op = "gets" => r \in GetsCall
           /\ r.op = "incrdecr" => r \in CountCall
           /\ r.op = "query" => r \in QueryCall
           /\ r.op \in {"update", "gets", "incrdecr", "query", "unknown", "invalid"}
<1>1. CASE r \in Call
  <2>1. Short \subseteq Counter
    BY StoredAssumption DEF Short, Counter
  <2>2. IncrDecrCall \subseteq CountCall
    BY <2>1 DEF IncrDecrCall, CountCall
  <2>3. QED
    BY <1>1, <2>2, CallAssumption DEF IncrDecrCall, UpdateCall, GetsCall
<1>2. CASE r \in Query
  BY <1>2, RequestAssumption DEF QueryCall
<1>3. CASE r \in Count
  BY <1>3, RequestAssumption DEF CountCall
<1>4. CASE r \in {Unknown, Invalid}
  BY <1>4 DEF Unknown, Invalid
<1>5. QED
  BY <1>1, <1>2, <1>3, <1>4 DEF Request

\* What is left of delta and initVal is in the range of ndb_incrdecr's parameters.
LEMMA CastType == ASSUME NEW r \in CountCall PROVE Cast(r) \in IncrDecrCall
<1>1. \A x \in Counter : x % ShortMod \in Short
  BY StoredAssumption DEF Short, Counter
<1>2. QED
  BY <1>1 DEF Cast, CountCall, IncrDecrCall

LEMMA RoutedUpdate ==
    ASSUME NEW r \in Request, r.op = "update"
    PROVE  /\ Batch(r) \in Seq(BatchWrite)
           /\ Routed(r) \in Seq(Key)
           /\ Len(Routed(r)) = Len(Batch(r))
           /\ \A i \in 1 .. Len(Batch(r)) : Routed(r)[i] = Batch(r)[i].key
<1>1. Batch(r) \in Seq(BatchWrite)
  BY RequestKinds, BatchType DEF BatchWrite
<1> DEFINE b == Batch(r)
<1> HIDE DEF b
<1>2. b \in Seq(BatchWrite)
  BY <1>1 DEF b
<1>3. DOMAIN b = 1 .. Len(b) /\ Len(b) \in Nat
  BY <1>2
<1>4. \A i \in 1 .. Len(b) : b[i].key \in Key
  <2>1. \A i \in 1 .. Len(b) : b[i] \in BatchWrite
    BY <1>2, <1>3, ElementOfSeq
  <2>2. QED
    BY <2>1 DEF BatchWrite
<1>5. /\ Keys(b) \in Seq(Key)
      /\ Len(Keys(b)) = Len(b)
      /\ \A i \in 1 .. Len(b) : Keys(b)[i] = b[i].key
  BY <1>3, <1>4, IsASeq DEF Keys
<1>6. Routed(r) = Keys(b)
  BY DEF Routed, b
<1>7. QED
  BY <1>2, <1>5, <1>6 DEF b

LEMMA RoutedType == ASSUME NEW r \in Request PROVE Routed(r) \in Seq(Key)
<1>1. CASE r.op = "update"
  BY <1>1, RoutedUpdate
<1>2. CASE r.op = "gets"
  BY <1>2, RequestKinds DEF Routed, GetsCall
<1>3. CASE r.op = "incrdecr"
  <2>1. r.key \in Key
    BY <1>3, RequestKinds DEF CountCall
  <2>2. QED
    BY <1>3, <2>1 DEF Routed
<1>4. CASE r.op = "query"
  <2>1. r.from \in Key
    BY <1>4, RequestKinds DEF QueryCall
  <2>2. QED
    BY <1>4, <2>1 DEF Routed
<1>5. CASE r.op \in {"unknown", "invalid"}
  BY <1>5 DEF Routed
<1>6. QED
  BY <1>1, <1>2, <1>3, <1>4, <1>5, RequestKinds

(***************************************************************************)
(* Type correctness, with what the place of a worker says of its request.  *)
(***************************************************************************)
Places(t) ==
    /\ pc[t] = "idle" => at[t] = 0 /\ batches[t] = NoBatches /\ cx[t] = <<>> /\ out1[t] = ""
    /\ pc[t] # "idle" => req[t] \in Request /\ at[t] \in 0 .. Len(Routed(req[t]))
    /\ pc[t] \in {"switch", "call", "write"} => out1[t] = ""
    /\ pc[t] = "write" => req[t].op = "update" /\ at[t] = Len(Routed(req[t]))
    /\ pc[t] = "call" => at[t] > 0 /\ req[t].op # "update" /\ DbOf[KeyAt(t)] \in Db

TypeInv == TypeOK /\ \A t \in Thread : Places(t)

\* What the proofs use of TypeInv most.
LEMMA BatchesType ==
    ASSUME TypeInv
    PROVE  at \in [Thread -> Nat] /\ batches \in [Thread -> [Db -> Seq(BatchWrite)]]
<1>1. TypeOK
  BY DEF TypeInv
<1>2. QED
  BY <1>1 DEF TypeOK, BatchWrite

LEMMA TypeInit == Init => TypeInv
<1> SUFFICES ASSUME Init PROVE TypeInv
  OBVIOUS
<1>1. 0 \in 0 .. MaxRequests /\ 0 \in 0 .. MaxCrashes
  BY RequestAssumption
<1>2. NoBatches \in [Db -> Seq(BatchWrite)] /\ Nil \in [kind : {"nil"}, data : Seq(Value)]
  BY DEF NoBatches, Nil, Result
<1>3. TypeOK
  <2>1. batches \in [Thread -> [Db -> Seq([key : Key, value : Stored])]]
    BY <1>2 DEF Init, BatchWrite
  <2>2. out2 \in [Thread -> [kind : {"nil", "int", "array", "freed"}, data : Seq(Value)]]
    <3>1. Nil \in [kind : {"nil", "int", "array", "freed"}, data : Seq(Value)]
      BY <1>2
    <3>2. QED
      BY <3>1 DEF Init
  <2>3. content \in [Key -> Stored] /\ base \in [Thread -> [Key -> Stored]]
    BY CallAssumption DEF Init
  <2>4. cx \in [Thread -> Seq(Value)]
    <3>1. <<>> \in Seq(Value)
      OBVIOUS
    <3>2. QED
      BY <3>1 DEF Init
  <2>5. /\ pc \in [Thread -> {"idle", "switch", "call", "write", "reply"}]
        /\ req \in [Thread -> Request \cup {NoCall}]
        /\ at \in [Thread -> Nat]
        /\ out1 \in [Thread -> {"", "method", "input", "route", "fault", "not_found", "bad_size"}]
        /\ quiet \in [Thread -> BOOLEAN]
        /\ wrote \in [Thread -> SUBSET Db]
    BY DEF Init
  <2>6. requests \in 0 .. MaxRequests /\ crashes \in 0 .. MaxCrashes
    BY <1>1 DEF Init
  <2>7. QED
    BY <2>1, <2>2, <2>3, <2>4, <2>5, <2>6 DEF TypeOK
<1>4. QED
  BY <1>3 DEF Init, TypeInv, Places

\* The key that is routed next, and the one that has been.
LEMMA NextKeyType ==
    ASSUME TypeInv, NEW t \in Thread, pc[t] # "idle", MoreKeys(t)
    PROVE  NextKey(t) \in Key /\ at[t] + 1 \in 1 .. Len(Routed(req[t])) /\ at[t] \in Nat
<1>1. Routed(req[t]) \in Seq(Key) /\ at[t] \in Nat
  BY RoutedType DEF TypeInv, TypeOK, Places
<1> DEFINE s == Routed(req[t])
<1> HIDE DEF s
<1>2. s \in Seq(Key) /\ at[t] < Len(s) /\ Len(s) \in Nat
  BY <1>1 DEF s, MoreKeys
<1>3. at[t] + 1 \in 1 .. Len(s)
  BY <1>1, <1>2
<1>4. s[at[t] + 1] \in Key
  BY <1>2, <1>3, ElementOfSeq
<1>5. QED
  BY <1>1, <1>3, <1>4 DEF s, NextKey

LEMMA KeyAtType ==
    ASSUME TypeInv, NEW t \in Thread, pc[t] = "call"
    PROVE  KeyAt(t) \in Key /\ DbOf[KeyAt(t)] \in Db
<1>1. Routed(req[t]) \in Seq(Key) /\ at[t] \in 1 .. Len(Routed(req[t]))
  <2>1. req[t] \in Request /\ at[t] \in 0 .. Len(Routed(req[t])) /\ at[t] > 0
    BY DEF TypeInv, Places
  <2>2. Routed(req[t]) \in Seq(Key)
    BY <2>1, RoutedType
  <2>3. QED
    BY <2>1, <2>2
<1> DEFINE s == Routed(req[t])
<1> HIDE DEF s
<1>2. s[at[t]] \in Key
  BY <1>1, ElementOfSeq DEF s
<1>3. QED
  BY <1>2 DEF s, KeyAt, TypeInv, Places

LEMMA FailType ==
    ASSUME TypeInv, NEW t \in Thread, pc[t] # "idle",
           NEW e \in {"method", "input", "route", "fault", "not_found", "bad_size"}, Fail(t, e)
    PROVE  TypeInv'
<1>1. TypeOK'
  BY DEF Fail, Goto, TypeInv, TypeOK
<1>2. \A u \in Thread : Places(u)'
  BY DEF Fail, Goto, TypeInv, TypeOK, Places, KeyAt
<1>3. QED
  BY <1>1, <1>2 DEF TypeInv

LEMMA TypeStep == TypeInv /\ [Next]_vars => TypeInv'
<1> SUFFICES ASSUME TypeInv, [Next]_vars PROVE TypeInv'
  OBVIOUS
<1> USE DEF Goto
<1>1. ASSUME NEW t \in Thread, Accept(t) PROVE TypeInv'
  <2>1. (requests \in 0 .. MaxRequests)'
    <3>1. requests \in 0 .. MaxRequests
      BY DEF TypeInv, TypeOK
    <3>2. requests < MaxRequests /\ requests' = requests + 1
      BY <1>1 DEF Accept
    <3>3. QED
      BY <3>1, <3>2, Limits
  <2>2. PICK r \in Request : req' = [req EXCEPT ![t] = r]
    BY <1>1 DEF Accept
  <2>3. TypeOK'
    BY <1>1, <2>1, <2>2 DEF Accept, TypeInv, TypeOK, locals
  <2>4. Len(Routed(r)) \in Nat
    BY RoutedType
  <2>5. ASSUME NEW u \in Thread PROVE Places(u)'
    <3>1. CASE u = t
      <4>1. pc'[u] = "switch" /\ req'[u] = r /\ at'[u] = 0 /\ out1'[u] = ""
        BY <1>1, <2>2, <3>1 DEF Accept, TypeInv, TypeOK, Places, locals
      <4>2. (req[u] \in Request)'
        BY <4>1
      <4>3. (at[u] \in 0 .. Len(Routed(req[u])))'
        <5>1. 0 \in 0 .. Len(Routed(r))
          BY <2>4
        <5>2. at'[u] = 0 /\ Len(Routed(req[u]))' = Len(Routed(r))
          BY <4>1
        <5>3. QED
          BY <5>1, <5>2
      <4>4. QED
        BY <4>1, <4>2, <4>3 DEF Places
    <3>2. CASE u # t
      BY <1>1, <2>2, <3>2 DEF Accept, TypeInv, TypeOK, Places, KeyAt, locals
    <3>3. QED
      BY <3>1, <3>2
  <2>6. QED
    BY <2>3, <2>5 DEF TypeInv
<1>2. ASSUME NEW t \in Thread, Reject(t) PROVE TypeInv'
  BY <1>2, FailType DEF Reject
<1>3. ASSUME NEW t \in Thread, RouteFails(t) PROVE TypeInv'
  BY <1>3, FailType DEF RouteFails
<1>4. ASSUME NEW t \in Thread, Route(t) PROVE TypeInv'
  <2>1. /\ NextKey(t) \in Key /\ at[t] + 1 \in 1 .. Len(Routed(req[t]))
        /\ DbOf[NextKey(t)] \in Db /\ at[t] \in Nat
    BY <1>4, NextKeyType, RequestAssumption DEF Route
  <2>2. (batches \in [Thread -> [Db -> Seq([key : Key, value : Stored])]])'
    <3>1. CASE req[t].op = "update"
      <4>1. Batch(req[t])[at[t] + 1] \in [key : Key, value : Stored]
        <5>1. req[t] \in Request
          BY <1>4 DEF Route, TypeInv, Places
        <5>2. Batch(req[t]) \in Seq(BatchWrite) /\ at[t] + 1 \in 1 .. Len(Batch(req[t]))
          BY <2>1, <3>1, <5>1, RoutedUpdate
        <5>3. QED
          BY <5>2, ElementOfSeq DEF BatchWrite
      <4>2. Append(batches[t][DbOf[NextKey(t)]], Batch(req[t])[at[t] + 1]) \in Seq([key : Key, value : Stored])
        <5>1. batches[t][DbOf[NextKey(t)]] \in Seq([key : Key, value : Stored])
          BY <2>1, BatchesType DEF BatchWrite
        <5>2. QED
          BY <4>1, <5>1, AppendProperties
      <4> DEFINE db == DbOf[NextKey(t)]
                 after == Append(batches[t][db], Batch(req[t])[at[t] + 1])
      <4>3. after \in Seq([key : Key, value : Stored]) /\ db \in Db
        BY <2>1, <4>2
      <4>4. batches' = [batches EXCEPT ![t][db] = after]
        BY <1>4, <3>1 DEF Route
      <4>5. batches \in [Thread -> [Db -> Seq([key : Key, value : Stored])]]
        BY BatchesType DEF BatchWrite
      <4> HIDE DEF db, after
      <4>6. QED
        BY <4>3, <4>4, <4>5
    <3>2. CASE req[t].op # "update"
      BY <1>4, <3>2 DEF Route, TypeInv, TypeOK
    <3>3. QED
      BY <3>1, <3>2
  <2>3. TypeOK'
    <3>1. pc' = pc \/ pc' = [pc EXCEPT ![t] = "call"]
      BY <1>4 DEF Route
    <3>2. (pc \in [Thread -> {"idle", "switch", "call", "write", "reply"}])'
      BY <3>1 DEF TypeInv, TypeOK
    <3>3. (at \in [Thread -> Nat])'
      <4>1. at \in [Thread -> Nat]
        BY DEF TypeInv, TypeOK
      <4>2. at' = [at EXCEPT ![t] = at[t] + 1]
        BY <1>4 DEF Route
      <4>3. at[t] + 1 \in Nat
        BY <2>1
      <4>4. QED
        BY <4>1, <4>2, <4>3
    <3>4. QED
      BY <1>4, <2>2, <3>2, <3>3 DEF Route, TypeInv, TypeOK
  <2>4. ASSUME NEW u \in Thread PROVE Places(u)'
    <3>1. CASE u = t
      <4>1. at'[u] = at[t] + 1 /\ UNCHANGED <<req, out1>> /\ pc[t] = "switch"
            /\ pc'[u] = IF req[t].op = "update" THEN "switch" ELSE "call"
        BY <1>4, <3>1 DEF Route, TypeInv, TypeOK
      <4>2. KeyAt(u)' = NextKey(t)
        BY <3>1, <4>1 DEF KeyAt, NextKey
      <4>3. req[t] \in Request /\ out1[t] = ""
        BY <4>1 DEF TypeInv, Places
      <4>4. (req[u] \in Request)' /\ (at[u] \in 0 .. Len(Routed(req[u])))' /\ at'[u] > 0 /\ out1'[u] = ""
        <5>1. (req[u] \in Request)' /\ out1'[u] = ""
          BY <3>1, <4>1, <4>3
        <5>2. at'[u] = at[t] + 1 /\ Len(Routed(req[u]))' = Len(Routed(req[t]))
          BY <3>1, <4>1
        <5>3. at'[u] > 0
          BY <2>1, <5>2
        <5>4. at[t] + 1 \in 0 .. Len(Routed(req[t]))
          BY <2>1
        <5>5. QED
          BY <5>1, <5>2, <5>3, <5>4
      <4>5. (DbOf[KeyAt(u)] \in Db)'
        BY <2>1, <4>2
      <4>6. QED
        BY <3>1, <4>1, <4>4, <4>5 DEF Places
    <3>2. CASE u # t
      BY <1>4, <2>1, <3>2 DEF Route, TypeInv, TypeOK, Places, KeyAt
    <3>3. QED
      BY <3>1, <3>2
  <2>5. QED
    BY <2>3, <2>4 DEF TypeInv
<1>5. ASSUME NEW t \in Thread, RouteEnd(t) PROVE TypeInv'
  <2>1. TypeOK'
    BY <1>5 DEF RouteEnd, TypeInv, TypeOK, locals
  <2>2. at[t] = Len(Routed(req[t]))
    <3>1. at[t] \in 0 .. Len(Routed(req[t])) /\ ~ (at[t] < Len(Routed(req[t])))
      BY <1>5 DEF RouteEnd, MoreKeys, TypeInv, Places
    <3>2. req[t] \in Request
      BY <1>5 DEF RouteEnd, TypeInv, Places
    <3>3. Len(Routed(req[t])) \in Nat
      BY <3>2, RoutedType
    <3>4. QED
      BY <3>1, <3>3
  <2>3. \A u \in Thread : Places(u)'
    BY <1>5, <2>2 DEF RouteEnd, TypeInv, TypeOK, Places, KeyAt, locals
  <2>4. QED
    BY <2>1, <2>3 DEF TypeInv
<1>6. ASSUME NEW t \in Thread, WriteBatch(t) PROVE TypeInv'
  <2>1. PICK d \in Pending(t) :
          \/ /\ content' = Applied(content, batches[t][d])
             /\ batches' = [batches EXCEPT ![t][d] = <<>>]
             /\ wrote' = [wrote EXCEPT ![t] = @ \cup {d}]
             /\ Disturb(t)
             /\ UNCHANGED <<pc, req, at, cx, out1, out2, base, requests, crashes>>
          \/ Fail(t, "fault")
    BY <1>6 DEF WriteBatch
  <2>2. CASE Fail(t, "fault")
    BY <1>6, <2>2, FailType DEF WriteBatch
  <2>3. CASE ~ Fail(t, "fault")
    <3>1. d \in Db /\ pc[t] = "write" /\ batches[t][d] \in Seq(BatchWrite)
      <4>1. d \in Db /\ pc[t] = "write"
        BY <1>6, <2>1 DEF WriteBatch, Pending
      <4>2. QED
        BY <4>1, BatchesType
    <3>2. Applied(content, batches[t][d]) \in [Key -> Stored]
      <4>1. content \in [Key -> Stored]
        BY DEF TypeInv, TypeOK
      <4>2. QED
        BY <3>1, <4>1, AppliedStored DEF BatchWrite
    <3>3. TypeOK'
      <4>1. (batches \in [Thread -> [Db -> Seq([key : Key, value : Stored])]])'
        <5>1. batches \in [Thread -> [Db -> Seq([key : Key, value : Stored])]]
          BY DEF TypeInv, TypeOK
        <5>2. <<>> \in Seq([key : Key, value : Stored])
          OBVIOUS
        <5>3. batches' = [batches EXCEPT ![t][d] = <<>>] /\ d \in Db
          BY <2>1, <2>3, <3>1
        <5>4. QED
          BY <5>1, <5>2, <5>3
      <4>2. (content \in [Key -> Stored])'
        BY <2>1, <2>3, <3>2
      <4>3. (quiet \in [Thread -> BOOLEAN])'
        BY <2>1, <2>3 DEF Disturb, TypeInv, TypeOK
      <4>4. (wrote \in [Thread -> SUBSET Db])'
        <5>1. wrote \in [Thread -> SUBSET Db] /\ wrote[t] \cup {d} \in SUBSET Db
          BY <3>1 DEF TypeInv, TypeOK
        <5>2. wrote' = [wrote EXCEPT ![t] = wrote[t] \cup {d}]
          BY <2>1, <2>3
        <5>3. QED
          BY <5>1, <5>2
      <4>5. QED
        BY <2>1, <2>3, <4>1, <4>2, <4>3, <4>4 DEF TypeInv, TypeOK
    <3>4. \A u \in Thread : Places(u)'
      BY <2>1, <2>3, <3>1 DEF TypeInv, TypeOK, Places, KeyAt
    <3>5. QED
      BY <3>3, <3>4 DEF TypeInv
  <2>4. QED
    BY <2>2, <2>3
<1>7. ASSUME NEW t \in Thread, WriteEnd(t) PROVE TypeInv'
  BY <1>7 DEF WriteEnd, TypeInv, TypeOK, Places, KeyAt, locals
<1>8. ASSUME NEW t \in Thread, Get(t) PROVE TypeInv'
  <2>1. CASE \E e \in {"fault", "not_found"} : Fail(t, e)
    BY <1>8, <2>1, FailType DEF Get
  <2>2. CASE ~ \E e \in {"fault", "not_found"} : Fail(t, e)
    <3>1. /\ pc[t] = "call" /\ content[KeyAt(t)] # Absent
          /\ cx' = [cx EXCEPT ![t] = Append(@, content[KeyAt(t)])]
          /\ pc' = [pc EXCEPT ![t] = "switch"]
          /\ UNCHANGED <<content, req, at, batches, out1, out2, base, quiet, wrote, requests, crashes>>
      BY <1>8, <2>2 DEF Get
    <3>2. content[KeyAt(t)] \in Value
      BY <3>1, KeyAtType DEF TypeInv, TypeOK, Stored
    <3>3. Append(cx[t], content[KeyAt(t)]) \in Seq(Value)
      BY <3>2, AppendProperties DEF TypeInv, TypeOK
    <3>4. TypeOK'
      BY <3>1, <3>3 DEF TypeInv, TypeOK
    <3>5. \A u \in Thread : Places(u)'
      BY <3>1 DEF TypeInv, TypeOK, Places, KeyAt
    <3>6. QED
      BY <3>4, <3>5 DEF TypeInv
  <2>3. QED
    BY <2>1, <2>2
<1>9. ASSUME NEW t \in Thread, IncrDecr(t) PROVE TypeInv'
  <2> DEFINE k == KeyAt(t)
             v == Stepped(Cast(req[t]), content[k])
  <2>1. CASE \E e \in {"fault", "bad_size"} : Fail(t, e)
    BY <1>9, <2>1, FailType DEF IncrDecr
  <2>2. CASE ~ \E e \in {"fault", "bad_size"} : Fail(t, e)
    <3>1. /\ pc[t] = "call" /\ req[t].op = "incrdecr" /\ content[k] \notin Blob
          /\ content' = [content EXCEPT ![k] = v]
          /\ Disturb(t)
          /\ wrote' = [wrote EXCEPT ![t] = {DbOf[k]}]
          /\ out2' = [out2 EXCEPT ![t] = Result("int", <<v>>)]
          /\ pc' = [pc EXCEPT ![t] = "reply"]
          /\ UNCHANGED <<req, at, batches, cx, out1, base, requests, crashes>>
      BY <1>9, <2>2 DEF IncrDecr
    <3>2. k \in Key /\ DbOf[k] \in Db /\ content[k] \in Counter \cup {Absent}
      BY <3>1, KeyAtType DEF TypeInv, TypeOK, Stored, Value
    <3>3. Cast(req[t]) \in IncrDecrCall
      BY <3>1, RequestKinds, CastType DEF TypeInv, Places
    <3> HIDE DEF k
    <3>4. v \in Counter
      BY <3>2, <3>3, SteppedType
    <3> HIDE DEF v
    <3>5. v \in Stored /\ Result("int", <<v>>) \in [kind : {"int"}, data : Seq(Value)]
      BY <3>4 DEF Stored, Value, Result
    <3>6. TypeOK'
      <4>1. (out2 \in [Thread -> [kind : {"nil", "int", "array", "freed"}, data : Seq(Value)]])'
        BY <3>1, <3>5 DEF TypeInv, TypeOK
      <4>2. (content \in [Key -> Stored])'
        BY <3>1, <3>2, <3>5 DEF TypeInv, TypeOK
      <4>3. QED
        BY <3>1, <3>2, <4>1, <4>2 DEF Disturb, TypeInv, TypeOK
    <3>7. \A u \in Thread : Places(u)'
      BY <3>1 DEF TypeInv, TypeOK, Places, KeyAt
    <3>8. QED
      BY <3>6, <3>7 DEF TypeInv
  <2>3. QED
    BY <2>1, <2>2
<1>10. ASSUME NEW t \in Thread, DoQuery(t) PROVE TypeInv'
  <2> DEFINE v == content[KeyAt(t)]
  <2>1. CASE Fail(t, "fault")
    BY <1>10, <2>1, FailType DEF DoQuery
  <2>2. CASE ~ Fail(t, "fault")
    <3>1. pc[t] = "call" /\ v \in Stored
      BY <1>10, KeyAtType DEF DoQuery, TypeInv, TypeOK
    <3>2. PICK r \in IF v = Absent THEN {Result("array", <<>>)}
                     ELSE {Result("array", <<v>>), Result("freed", <<>>)} :
            out2' = [out2 EXCEPT ![t] = r]
      BY <1>10, <2>2 DEF DoQuery
    <3>3. pc' = [pc EXCEPT ![t] = "reply"]
          /\ UNCHANGED <<content, req, at, batches, cx, out1, base, quiet, wrote, requests, crashes>>
      BY <1>10, <2>2 DEF DoQuery
    <3> HIDE DEF v
    <3>4. r \in [kind : {"nil", "int", "array", "freed"}, data : Seq(Value)]
      <4>1. <<>> \in Seq(Value) /\ (v # Absent => <<v>> \in Seq(Value))
        BY <3>1 DEF Stored
      <4>2. \A kind \in {"array", "freed"}, data \in Seq(Value) :
              Result(kind, data) \in [kind : {"nil", "int", "array", "freed"}, data : Seq(Value)]
        BY DEF Result
      <4>3. r = Result("array", <<>>) \/ (v # Absent /\ r = Result("array", <<v>>)) \/ r = Result("freed", <<>>)
        BY <3>2
      <4>4. QED
        BY <4>1, <4>2, <4>3
    <3>5. TypeOK'
      BY <3>2, <3>3, <3>4 DEF TypeInv, TypeOK
    <3>6. \A u \in Thread : Places(u)'
      BY <3>1, <3>3 DEF TypeInv, TypeOK, Places, KeyAt
    <3>7. QED
      BY <3>5, <3>6 DEF TypeInv
  <2>3. QED
    BY <2>1, <2>2
<1>11. ASSUME NEW t \in Thread, Encode(t) PROVE TypeInv'
  <2>1. NoBatches \in [Db -> Seq([key : Key, value : Stored])]
    BY DEF NoBatches
  <2>2. Nil \in [kind : {"nil", "int", "array", "freed"}, data : Seq(Value)] /\ <<>> \in Seq(Value)
    BY DEF Nil, Result
  <2>3. TypeOK'
    BY <1>11, <2>1, <2>2 DEF Encode, TypeInv, TypeOK
  <2>4. \A u \in Thread : Places(u)'
    BY <1>11 DEF Encode, TypeInv, TypeOK, Places, KeyAt
  <2>5. QED
    BY <2>3, <2>4 DEF TypeInv
<1>12. CASE Crash
  <2>1. NoBatches \in [Db -> Seq([key : Key, value : Stored])]
    BY DEF NoBatches
  <2>2. Nil \in [kind : {"nil", "int", "array", "freed"}, data : Seq(Value)] /\ <<>> \in Seq(Value)
    BY DEF Nil, Result
  <2>3. (crashes \in 0 .. MaxCrashes)'
    <3>1. crashes \in 0 .. MaxCrashes
      BY DEF TypeInv, TypeOK
    <3>2. crashes < MaxCrashes /\ crashes' = crashes + 1
      BY <1>12 DEF Crash
    <3>3. QED
      BY <3>1, <3>2, Limits
  <2>4. TypeOK'
    BY <1>12, <2>1, <2>2, <2>3 DEF Crash, TypeInv, TypeOK
  <2>5. \A u \in Thread : Places(u)'
    BY <1>12 DEF Crash, TypeInv, TypeOK, Places
  <2>6. QED
    BY <2>4, <2>5 DEF TypeInv
<1>13. CASE UNCHANGED vars
  BY <1>13 DEF vars, locals, TypeInv, TypeOK, Places, KeyAt
<1>14. QED
  BY <1>1, <1>2, <1>3, <1>4, <1>5, <1>6, <1>7, <1>8, <1>9, <1>10, <1>11, <1>12, <1>13 DEF Next, Step

THEOREM TypeInvariant == Spec => []TypeInv
BY TypeInit, TypeStep, PTL DEF Spec

\* Every variable keeps its type, whatever fails or crashes in between.
THEOREM TypeCorrect == Spec => []TypeOK
<1>1. TypeInv => TypeOK
  BY DEF TypeInv
<1>2. QED
  BY <1>1, TypeInvariant, PTL

(***************************************************************************)
(* What an update has written, and is still to write.                      *)
(***************************************************************************)

\* The databases of its first n writes.
Named(t, n) == {DbOf[Batch(req[t])[i].key] : i \in 1 .. n}

Progress(t) == pc[t] # "idle" /\ req[t].op = "update" =>
    /\ \A i \in 1 .. at[t] : DbOf[Batch(req[t])[i].key] \in Db
    /\ pc[t] = "switch" => wrote[t] = {}
    /\ wrote[t] # {} => at[t] = Len(Batch(req[t]))
    /\ pc[t] \in {"switch", "write"} => wrote[t] \cup Pending(t) = Named(t, at[t])
    /\ pc[t] = "reply" /\ out1[t] = "" => at[t] = Len(Batch(req[t])) /\ wrote[t] = Named(t, at[t])

ProgressInv == \A t \in Thread : Progress(t)

\* Nothing of an update's progress is changed by a step of another worker.
LEMMA ProgressFrame ==
    ASSUME NEW t \in Thread, Progress(t),
           <<pc[t], req[t], at[t], batches[t], out1[t], wrote[t]>>' =
               <<pc[t], req[t], at[t], batches[t], out1[t], wrote[t]>>
    PROVE  Progress(t)'
<1>1. Named(t, at[t])' = Named(t, at[t]) /\ Pending(t)' = Pending(t)
  BY DEF Named, Pending
<1>2. pc'[t] = pc[t] /\ req'[t] = req[t] /\ at'[t] = at[t] /\ out1'[t] = out1[t] /\ wrote'[t] = wrote[t]
  OBVIOUS
<1>3. QED
  BY <1>1, <1>2 DEF Progress

LEMMA ProgressFail ==
    ASSUME TypeInv, NEW t \in Thread, Progress(t), pc[t] # "idle", NEW e, e # "", Fail(t, e)
    PROVE  Progress(t)'
<1>1. pc'[t] = "reply" /\ out1'[t] = e /\ UNCHANGED <<req, at, batches, wrote>>
  BY DEF Fail, Goto, TypeInv, TypeOK
<1>2. Named(t, at[t])' = Named(t, at[t])
  BY <1>1 DEF Named
<1>3. QED
  BY <1>1 DEF Progress

LEMMA ProgressStep == TypeInv /\ ProgressInv /\ [Next]_vars => ProgressInv'
<1> SUFFICES ASSUME TypeInv, ProgressInv, [Next]_vars PROVE ProgressInv'
  OBVIOUS
<1> USE DEF Goto
<1>0. /\ pc \in [Thread -> {"idle", "switch", "call", "write", "reply"}]
      /\ req \in [Thread -> Request \cup {NoCall}]
      /\ at \in [Thread -> Nat]
      /\ batches \in [Thread -> [Db -> Seq([key : Key, value : Stored])]]
      /\ out1 \in [Thread -> {"", "method", "input", "route", "fault", "not_found", "bad_size"}]
      /\ wrote \in [Thread -> SUBSET Db]
      /\ \A u \in Thread : Progress(u) /\ Places(u)
  BY DEF TypeInv, TypeOK, ProgressInv
<1>1. ASSUME NEW t \in Thread, \E e \in {"method", "input", "route", "fault", "not_found", "bad_size"} : Fail(t, e),
             pc[t] # "idle"
      PROVE  ProgressInv'
  <2>1. PICK e \in {"method", "input", "route", "fault", "not_found", "bad_size"} : Fail(t, e)
    BY <1>1
  <2>2. Progress(t)'
    BY <1>0, <1>1, <2>1, ProgressFail
  <2>3. ASSUME NEW u \in Thread, u # t PROVE Progress(u)'
    BY <1>0, <2>1, <2>3, ProgressFrame DEF Fail
  <2>4. QED
    BY <2>2, <2>3 DEF ProgressInv
<1>2. ASSUME NEW t \in Thread, Accept(t) PROVE ProgressInv'
  <2>1. PICK r \in Request : req' = [req EXCEPT ![t] = r]
    BY <1>2 DEF Accept
  <2>2. /\ pc'[t] = "switch" /\ at'[t] = 0 /\ batches'[t] = NoBatches /\ wrote'[t] = {}
        /\ \A u \in Thread \ {t} :
              <<pc[u], req[u], at[u], batches[u], out1[u], wrote[u]>>' =
                  <<pc[u], req[u], at[u], batches[u], out1[u], wrote[u]>>
    BY <1>0, <1>2, <2>1 DEF Accept, Places, locals
  <2>3. Pending(t)' = {} /\ Named(t, at[t])' = {}
    BY <2>2 DEF Pending, NoBatches, Named
  <2>4. Progress(t)'
    BY <2>2, <2>3 DEF Progress
  <2>5. QED
    BY <1>0, <2>2, <2>4, ProgressFrame DEF ProgressInv
<1>3. ASSUME NEW t \in Thread, Reject(t) PROVE ProgressInv'
  BY <1>1, <1>3 DEF Reject
<1>4. ASSUME NEW t \in Thread, RouteFails(t) PROVE ProgressInv'
  BY <1>1, <1>4 DEF RouteFails
<1>5. ASSUME NEW t \in Thread, RouteEnd(t) PROVE ProgressInv'
  <2>1. /\ pc[t] = "switch" /\ UNCHANGED <<req, at, batches, out1, wrote>>
        /\ pc' = [pc EXCEPT ![t] = IF req[t].op = "update" THEN "write" ELSE "reply"]
    BY <1>5 DEF RouteEnd, locals
  <2>2. Progress(t)'
    <3>1. Named(t, at[t])' = Named(t, at[t]) /\ Pending(t)' = Pending(t)
      BY <2>1 DEF Named, Pending
    <3>2. pc'[t] = IF req[t].op = "update" THEN "write" ELSE "reply"
      BY <1>0, <2>1
    <3>3. Progress(t) /\ UNCHANGED <<req, at, out1, wrote>> /\ pc[t] = "switch"
      BY <1>0, <2>1
    <3>4. CASE req[t].op = "update"
      BY <3>1, <3>2, <3>3, <3>4 DEF Progress
    <3>5. CASE req[t].op # "update"
      BY <3>3, <3>5 DEF Progress
    <3>6. QED
      BY <3>4, <3>5
  <2>3. ASSUME NEW u \in Thread, u # t PROVE Progress(u)'
    BY <1>0, <2>1, <2>3, ProgressFrame
  <2>4. QED
    BY <2>2, <2>3 DEF ProgressInv
<1>6. ASSUME NEW t \in Thread, WriteEnd(t) PROVE ProgressInv'
  <2>1. /\ pc[t] = "write" /\ Pending(t) = {} /\ UNCHANGED <<req, at, batches, out1, wrote>>
        /\ pc' = [pc EXCEPT ![t] = "reply"]
    BY <1>6 DEF WriteEnd, locals
  <2>2. req[t] \in Request /\ req[t].op = "update" /\ at[t] = Len(Batch(req[t]))
    BY <1>0, <2>1, RoutedUpdate DEF Places
  <2>3. Progress(t)'
    <3>1. Named(t, at[t])' = Named(t, at[t])
      BY <2>1 DEF Named
    <3>2. pc'[t] = "reply" /\ UNCHANGED <<req, at, out1, wrote>> /\ Progress(t)
      BY <1>0, <2>1
    <3>3. QED
      BY <2>1, <2>2, <3>1, <3>2 DEF Progress
  <2>4. ASSUME NEW u \in Thread, u # t PROVE Progress(u)'
    BY <1>0, <2>1, <2>4, ProgressFrame
  <2>5. QED
    BY <2>3, <2>4 DEF ProgressInv
<1>7. ASSUME NEW t \in Thread, Get(t) \/ DoQuery(t) \/ IncrDecr(t) PROVE ProgressInv'
  <2>1. pc[t] = "call" /\ req[t].op # "update"
    BY <1>0, <1>7 DEF Get, DoQuery, IncrDecr, Places
  <2>2. CASE \E e \in {"method", "input", "route", "fault", "not_found", "bad_size"} : Fail(t, e)
    BY <1>1, <2>1, <2>2
  <2>3. CASE ~ \E e \in {"method", "input", "route", "fault", "not_found", "bad_size"} : Fail(t, e)
    <3>1. UNCHANGED <<req, at, batches, out1>>
          /\ \A u \in Thread \ {t} : pc'[u] = pc[u] /\ wrote'[u] = wrote[u]
      BY <1>0, <1>7, <2>3 DEF Get, DoQuery, IncrDecr
    <3>2. Progress(t)'
      BY <2>1, <3>1 DEF Progress
    <3>3. QED
      BY <1>0, <3>1, <3>2, ProgressFrame DEF ProgressInv
  <2>4. QED
    BY <2>2, <2>3
<1>8. ASSUME NEW t \in Thread, Encode(t) PROVE ProgressInv'
  <2>1. /\ pc'[t] = "idle"
        /\ \A u \in Thread \ {t} :
              <<pc[u], req[u], at[u], batches[u], out1[u], wrote[u]>>' =
                  <<pc[u], req[u], at[u], batches[u], out1[u], wrote[u]>>
    BY <1>0, <1>8 DEF Encode
  <2>2. Progress(t)'
    BY <2>1 DEF Progress
  <2>3. QED
    BY <1>0, <2>1, <2>2, ProgressFrame DEF ProgressInv
<1>9. CASE Crash
  <2>1. \A t \in Thread : pc'[t] = "idle"
    BY <1>9 DEF Crash
  <2>2. QED
    BY <2>1 DEF ProgressInv, Progress
<1>10. CASE UNCHANGED vars
  <2>1. UNCHANGED <<pc, req, at, batches, out1, wrote>>
    BY <1>10 DEF vars, locals
  <2>2. QED
    BY <1>0, <2>1, ProgressFrame DEF ProgressInv
<1>11. ASSUME NEW t \in Thread, Route(t) PROVE ProgressInv'
  <2>1. /\ NextKey(t) \in Key /\ at[t] + 1 \in 1 .. Len(Routed(req[t]))
        /\ DbOf[NextKey(t)] \in Db /\ at[t] \in Nat /\ pc[t] = "switch"
        /\ req[t] \in Request
    BY <1>0, <1>11, NextKeyType, RequestAssumption DEF Route, Places
  <2>2. UNCHANGED <<req, out1, wrote>> /\ at' = [at EXCEPT ![t] = at[t] + 1]
    BY <1>11 DEF Route
  <2>3. ASSUME NEW u \in Thread, u # t PROVE Progress(u)'
    <3>1. <<pc[u], req[u], at[u], batches[u], out1[u], wrote[u]>>' =
              <<pc[u], req[u], at[u], batches[u], out1[u], wrote[u]>>
      BY <1>0, <1>11, <2>1, <2>2, <2>3 DEF Route
    <3>2. QED
      BY <1>0, <3>1, ProgressFrame
  <2>4. Progress(t)'
    <3>1. CASE req[t].op # "update"
      BY <2>2, <3>1 DEF Progress
    <3>2. CASE req[t].op = "update"
      <4> DEFINE b == Batch(req[t])
                 n == at[t]
                 db == DbOf[NextKey(t)]
                 after == Append(batches[t][db], b[n + 1])
      <4>1. n \in Nat /\ n + 1 \in 1 .. Len(b) /\ b \in Seq(BatchWrite) /\ db \in Db
            /\ NextKey(t) = b[n + 1].key
        BY <2>1, <3>2, RoutedUpdate DEF NextKey
      <4>2. UNCHANGED pc /\ batches' = [batches EXCEPT ![t][db] = after]
        BY <1>11, <3>2 DEF Route
      <4>3. after # <<>>
        <5>1. batches[t][db] \in Seq([key : Key, value : Stored]) /\ b[n + 1] \in [key : Key, value : Stored]
          BY <1>0, <4>1, ElementOfSeq DEF BatchWrite
        <5>2. QED
          BY <5>1, AppendProperties
      <4>4. Pending(t)' = Pending(t) \cup {db}
        <5>1. /\ batches'[t][db] = after
              /\ \A d \in Db \ {db} : batches'[t][d] = batches[t][d]
          BY <1>0, <4>1, <4>2
        <5> HIDE DEF after, db
        <5>2. QED
          BY <4>1, <4>3, <5>1 DEF Pending
      <4>5. Named(t, at[t])' = Named(t, n) \cup {db}
        <5>1. at'[t] = n + 1 /\ req'[t] = req[t] /\ DbOf[b[n + 1].key] = db
          BY <1>0, <2>2, <4>1
        <5>2. Named(t, at[t])' = {DbOf[b[i].key] : i \in 1 .. n + 1}
          BY <5>1 DEF Named
        <5>3. 1 .. n + 1 = (1 .. n) \cup {n + 1}
          BY <4>1
        <5>4. Named(t, n) = {DbOf[b[i].key] : i \in 1 .. n}
          BY DEF Named
        <5> HIDE DEF b, n, db
        <5>5. QED
          BY <5>1, <5>2, <5>3, <5>4
      <4>6. wrote[t] = {} /\ Pending(t) = Named(t, n) /\ \A i \in 1 .. n : DbOf[b[i].key] \in Db
        BY <1>0, <2>1, <3>2 DEF Progress
      <4>7. \A i \in 1 .. n + 1 : DbOf[b[i].key] \in Db
        BY <4>1, <4>6
      <4>8. pc'[t] = "switch" /\ at'[t] = n + 1 /\ req'[t] = req[t] /\ wrote'[t] = {}
        BY <1>0, <2>1, <2>2, <4>2, <4>6
      <4>9. QED
        BY <4>4, <4>5, <4>6, <4>7, <4>8 DEF Progress
    <3>3. QED
      BY <3>1, <3>2
  <2>5. QED
    BY <2>3, <2>4 DEF ProgressInv
<1>12. ASSUME NEW t \in Thread, WriteBatch(t) PROVE ProgressInv'
  <2>1. PICK d \in Pending(t) :
          \/ /\ batches' = [batches EXCEPT ![t][d] = <<>>]
             /\ wrote' = [wrote EXCEPT ![t] = @ \cup {d}]
             /\ UNCHANGED <<pc, req, at, out1>>
          \/ Fail(t, "fault")
    BY <1>12 DEF WriteBatch
  <2>2. pc[t] = "write" /\ d \in Db /\ req[t] \in Request /\ req[t].op = "update"
        /\ at[t] = Len(Batch(req[t]))
    BY <1>0, <1>12, RoutedUpdate DEF WriteBatch, Pending, Places
  <2>3. CASE Fail(t, "fault")
    BY <1>1, <2>2, <2>3
  <2>4. CASE ~ Fail(t, "fault")
    <3>1. /\ batches'[t][d] = <<>> /\ wrote'[t] = wrote[t] \cup {d}
          /\ \A c \in Db \ {d} : batches'[t][c] = batches[t][c]
      <4>1. batches' = [batches EXCEPT ![t][d] = <<>>] /\ wrote' = [wrote EXCEPT ![t] = wrote[t] \cup {d}]
        BY <2>1, <2>4
      <4>2. /\ batches \in [Thread -> [Db -> Seq([key : Key, value : Stored])]]
            /\ wrote \in [Thread -> SUBSET Db]
        BY <1>0
      <4>3. QED
        BY <2>2, <4>1, <4>2
    <3>2. Pending(t)' = Pending(t) \ {d}
      BY <2>2, <3>1 DEF Pending
    <3>3. (wrote[t] \cup Pending(t))' = wrote[t] \cup Pending(t)
      BY <3>1, <3>2
    <3>4. UNCHANGED <<pc, req, at, out1>> /\ Named(t, at[t])' = Named(t, at[t])
      BY <2>1, <2>4 DEF Named
    <3>5. Progress(t)'
      BY <1>0, <2>2, <3>3, <3>4 DEF Progress
    <3>6. ASSUME NEW u \in Thread, u # t PROVE Progress(u)'
      <4>1. batches'[u] = batches[u] /\ wrote'[u] = wrote[u]
        BY <1>0, <2>1, <2>4, <3>6
      <4>2. QED
        BY <1>0, <3>4, <4>1, ProgressFrame
    <3>7. QED
      BY <3>5, <3>6 DEF ProgressInv
  <2>5. QED
    BY <2>3, <2>4
<1>13. QED
  BY <1>2, <1>3, <1>4, <1>5, <1>6, <1>7, <1>8, <1>9, <1>10, <1>11, <1>12 DEF Next, Step

LEMMA ProgressInit == Init => ProgressInv
BY DEF Init, ProgressInv, Progress

THEOREM ProgressInvariant == Spec => []ProgressInv
BY ProgressInit, ProgressStep, TypeInvariant, PTL DEF Spec

\* An update with a key that belongs to no database writes in none.
THEOREM RefusedWrites == Spec => []RefusedWritesNothing
<1>1. TypeInv /\ ProgressInv => RefusedWritesNothing
  <2> SUFFICES ASSUME TypeInv, ProgressInv, NEW t \in Thread, Updating(t), wrote[t] # {},
                      NEW k \in Written(req[t]), DbOf[k] = NoDb
               PROVE  FALSE
    BY DEF RefusedWritesNothing
  <2>1. req[t] \in Request /\ req[t] \in UpdateCall
    BY RequestKinds DEF TypeInv, Places, Updating
  <2>2. PICK i \in DOMAIN Batch(req[t]) : Batch(req[t])[i].key = k
    BY <2>1, BatchType
  <2>3. i \in 1 .. Len(Batch(req[t]))
    BY <2>1, BatchType
  <2>4. DbOf[k] \in Db
    BY <2>2, <2>3 DEF ProgressInv, Progress, Updating
  <2>5. QED
    BY <2>4, RequestAssumption
<1>2. QED
  BY <1>1, TypeInvariant, ProgressInvariant, PTL

LEMMA NamedIsWritten ==
    ASSUME TypeInv, NEW t \in Thread, Updating(t)
    PROVE  Named(t, Len(Batch(req[t]))) = {DbOf[k] : k \in Written(req[t])}
<1>1. req[t] \in Request /\ req[t] \in UpdateCall
  BY RequestKinds DEF TypeInv, Places, Updating
<1> DEFINE b == Batch(req[t])
<1>2. DOMAIN b = 1 .. Len(b)
  BY <1>1, BatchType
<1>3. /\ \A i \in DOMAIN b : b[i].key \in Written(req[t])
      /\ \A k \in Written(req[t]) : \E i \in DOMAIN b : b[i].key = k
  BY <1>1, BatchType
<1>4. Named(t, Len(b)) = {DbOf[b[i].key] : i \in 1 .. Len(b)}
  BY DEF Named
<1> HIDE DEF b
<1>5. {DbOf[b[i].key] : i \in 1 .. Len(b)} = {DbOf[k] : k \in Written(req[t])}
  BY <1>2, <1>3
<1>6. QED
  BY <1>4, <1>5 DEF b

\* An update answered without an error has been written in every database that it
\* has a key of.
THEOREM OkAllWritten == Spec => []OkMeansAllWritten
<1>1. TypeInv /\ ProgressInv => OkMeansAllWritten
  BY NamedIsWritten DEF OkMeansAllWritten, ProgressInv, Progress, Updating
<1>2. QED
  BY <1>1, TypeInvariant, ProgressInvariant, PTL

(***************************************************************************)
(* The effect of an update.                                                *)
(***************************************************************************)

\* Until it is written, the batch of a database does to its keys what the writes that
\* have been routed would do.
Divided(t) == pc[t] \in {"switch", "write"} /\ req[t].op = "update" =>
    /\ \A d \in Db : batches[t][d] # <<>> => d \notin wrote[t]
    /\ \A d \in Db : \A i \in 1 .. Len(batches[t][d]) : DbOf[batches[t][d][i].key] = d
    /\ \A d \in Db \ wrote[t], k \in Key : DbOf[k] = d =>
          LastAmong(k, batches[t][d], Len(batches[t][d])) = LastAmong(k, Batch(req[t]), at[t])

\* The databases that have been written hold what the whole update leaves in them, if no
\* other request has written, and the others what they held.
Effective(t) ==
    quiet[t] /\ req[t].op = "update" /\ (pc[t] \in {"switch", "write"} \/ (pc[t] = "reply" /\ out1[t] = "")) =>
        \A k \in Key :
            content[k] = IF DbOf[k] \in wrote[t] THEN Applied(base[t], Batch(req[t]))[k] ELSE base[t][k]

EffectInv == \A t \in Thread : Divided(t) /\ Effective(t)

LEMMA DividedFrame ==
    ASSUME NEW t \in Thread, Divided(t),
           <<pc[t], req[t], at[t], batches[t], wrote[t]>>' = <<pc[t], req[t], at[t], batches[t], wrote[t]>>
    PROVE  Divided(t)'
BY DEF Divided

LEMMA EffectiveFrame ==
    ASSUME NEW t \in Thread, Effective(t),
           <<pc[t], req[t], out1[t], wrote[t], base[t]>>' = <<pc[t], req[t], out1[t], wrote[t], base[t]>>,
           ~ quiet'[t] \/ (quiet'[t] = quiet[t] /\ content' = content)
    PROVE  Effective(t)'
BY DEF Effective

\* Adding a write to the batch of its database.
LEMMA DividedRoute ==
    ASSUME TypeInv, ProgressInv, NEW t \in Thread, Divided(t), Route(t), req[t].op = "update"
    PROVE  Divided(t)'
<1> DEFINE b == Batch(req[t])
           n == at[t]
           w == b[n + 1]
           db == DbOf[NextKey(t)]
<1>1. /\ pc[t] = "switch" /\ UNCHANGED <<pc, req, wrote>>
      /\ at' = [at EXCEPT ![t] = n + 1]
      /\ batches' = [batches EXCEPT ![t][db] = Append(batches[t][db], w)]
  BY DEF Route
<1>2. /\ b \in Seq(BatchWrite) /\ n \in Nat /\ n + 1 \in 1 .. Len(b) /\ w \in BatchWrite
      /\ db \in Db /\ DbOf[w.key] = db /\ w.key \in Key
  <2>1. req[t] \in Request
    BY <1>1 DEF TypeInv, Places
  <2>2. /\ NextKey(t) \in Key /\ n + 1 \in 1 .. Len(Routed(req[t])) /\ n \in Nat
        /\ db \in Db
    BY <1>1, NextKeyType, RequestAssumption DEF Route
  <2>3. b \in Seq(BatchWrite) /\ n + 1 \in 1 .. Len(b) /\ NextKey(t) = w.key
    BY <2>1, <2>2, RoutedUpdate DEF NextKey
  <2>4. w \in BatchWrite
    BY <2>3, ElementOfSeq
  <2>5. QED
    BY <2>2, <2>3, <2>4
<1>3. \A d \in Db : batches[t][d] \in Seq(BatchWrite)
  BY BatchesType
<1>4. /\ at'[t] = n + 1
      /\ batches'[t][db] = Append(batches[t][db], w)
      /\ \A d \in Db \ {db} : batches'[t][d] = batches[t][d]
  <2>1. at \in [Thread -> Nat] /\ batches \in [Thread -> [Db -> Seq(BatchWrite)]]
    BY BatchesType
  <2> HIDE DEF n, w, db
  <2>2. QED
    BY <1>1, <1>2, <2>1
<1>5. wrote[t] = {} /\ wrote'[t] = {}
  BY <1>1 DEF ProgressInv, Progress
<1>6. ASSUME NEW d \in Db, NEW i \in 1 .. Len(batches'[t][d])
      PROVE  DbOf[batches'[t][d][i].key] = d
  <2>1. CASE d = db
    <3>1. CASE i <= Len(batches[t][db])
      <4>1. i \in 1 .. Len(batches[t][db])
        BY <1>2, <1>3, <2>1, <3>1
      <4>2. batches'[t][d][i] = batches[t][d][i]
        <5> DEFINE old == batches[t][db]
        <5>1. old \in Seq(BatchWrite) /\ batches'[t][d] = Append(old, w) /\ batches[t][d] = old
          BY <1>2, <1>3, <1>4, <2>1
        <5>2. i \in 1 .. Len(old)
          BY <4>1
        <5> HIDE DEF old, w
        <5>3. Append(old, w)[i] = old[i]
          BY <1>2, <5>1, <5>2, AppendProperties
        <5>4. QED
          BY <5>1, <5>3
      <4>3. QED
        BY <1>1, <2>1, <4>1, <4>2 DEF Divided
    <3>2. CASE ~ (i <= Len(batches[t][db]))
      <4> DEFINE old == batches[t][db]
      <4>1. old \in Seq(BatchWrite) /\ batches'[t][d] = Append(old, w)
        BY <1>2, <1>3, <1>4, <2>1
      <4>2. i \in 1 .. Len(Append(old, w)) /\ ~ (i <= Len(old))
        BY <3>2, <4>1
      <4> HIDE DEF old, w
      <4>3. Len(Append(old, w)) = Len(old) + 1 /\ Append(old, w)[Len(old) + 1] = w /\ Len(old) \in Nat
        BY <1>2, <4>1, AppendProperties
      <4>4. i = Len(old) + 1
        BY <4>2, <4>3
      <4>5. batches'[t][d][i] = w
        BY <4>1, <4>3, <4>4
      <4>6. QED
        BY <1>2, <2>1, <4>5
    <3>3. QED
      BY <3>1, <3>2
  <2>2. CASE d # db
    BY <1>1, <1>4, <2>2 DEF Divided
  <2>3. QED
    BY <2>1, <2>2
<1>7. ASSUME NEW k \in Key, DbOf[k] \in Db
      PROVE  LastAmong(k, batches'[t][DbOf[k]], Len(batches'[t][DbOf[k]])) = LastAmong(k, b, n + 1)
  <2> DEFINE d == DbOf[k]
  <2>1. LastAmong(k, batches[t][d], Len(batches[t][d])) = LastAmong(k, b, n)
    BY <1>1, <1>5, <1>7 DEF Divided
  <2>2. LastAmong(k, b, n + 1) = IF w.key = k THEN <<w.value>> ELSE LastAmong(k, b, n)
    BY <1>2, LastOfMore
  <2>3. CASE d = db
    <3>1. LastAmong(k, Append(batches[t][d], w), Len(Append(batches[t][d], w)))
            = IF w.key = k THEN <<w.value>> ELSE LastAmong(k, batches[t][d], Len(batches[t][d]))
      BY <1>2, <1>3, <2>3, LastOfAppend
    <3>2. QED
      <4>1. batches'[t][d] = Append(batches[t][d], w)
        BY <1>4, <2>3
      <4> HIDE DEF b, n, w, db
      <4>2. QED
        BY <2>1, <2>2, <3>1, <4>1
  <2>4. CASE d # db
    <3>1. w.key # k
      BY <1>2, <2>4
    <3>2. batches'[t][d] = batches[t][d]
      BY <1>4, <1>7, <2>4
    <3>3. QED
      BY <2>1, <2>2, <3>1, <3>2
  <2>5. QED
    BY <2>3, <2>4
<1>8. QED
  BY <1>1, <1>4, <1>5, <1>6, <1>7 DEF Divided

\* What a routed update, or a part of it, leaves in a key.
LEMMA PartIsWhole ==
    ASSUME TypeInv, ProgressInv, NEW t \in Thread, pc[t] = "write", Divided(t), Effective(t), quiet[t],
           NEW d \in Pending(t), NEW k \in Key, DbOf[k] = d
    PROVE  Applied(content, batches[t][d])[k] = Applied(base[t], Batch(req[t]))[k]
<1> DEFINE b == Batch(req[t])
           part == batches[t][d]
<1>1. req[t].op = "update" /\ req[t] \in Request /\ at[t] = Len(b)
  BY RoutedUpdate DEF TypeInv, Places
<1>2. d \in Db /\ part # <<>>
  BY DEF Pending
<1>3. d \notin wrote[t]
  BY <1>1, <1>2 DEF Divided
<1>4. LastAmong(k, part, Len(part)) = LastAmong(k, b, Len(b))
  BY <1>1, <1>2, <1>3 DEF Divided
<1>5. content[k] = base[t][k]
  BY <1>1, <1>3 DEF Effective
<1>6. b \in Seq(BatchWrite) /\ part \in Seq(BatchWrite)
  BY <1>1, <1>2, RoutedUpdate, BatchesType
<1> HIDE DEF b, part
<1>7. QED
  BY <1>4, <1>5, <1>6, AppliedIs DEF b, part

\* A batch changes the keys of its own database only.
LEMMA PartElsewhere ==
    ASSUME TypeInv, NEW t \in Thread, pc[t] = "write", Divided(t),
           NEW d \in Pending(t), NEW k \in Key, DbOf[k] # d
    PROVE  Applied(content, batches[t][d])[k] = content[k]
<1>1. req[t].op = "update" /\ d \in Db
  BY DEF TypeInv, Places, Pending
<1>2. batches[t][d] \in Seq(BatchWrite)
  BY <1>1, BatchesType
<1>3. \A i \in 1 .. Len(batches[t][d]) : batches[t][d][i].key # k
  BY <1>1 DEF Divided
<1>4. WritesTo(k, batches[t][d]) = {}
  BY <1>2, <1>3 DEF WritesTo
<1>5. QED
  BY <1>4 DEF Applied

LEMMA EffectInit == Init => EffectInv
BY DEF Init, EffectInv, Divided, Effective

LEMMA EffectStep == TypeInv /\ ProgressInv /\ EffectInv /\ [Next]_vars => EffectInv'
<1> SUFFICES ASSUME TypeInv, ProgressInv, EffectInv, [Next]_vars PROVE EffectInv'
  OBVIOUS
<1> USE DEF Goto
<1>0. /\ pc \in [Thread -> {"idle", "switch", "call", "write", "reply"}]
      /\ req \in [Thread -> Request \cup {NoCall}]
      /\ at \in [Thread -> Nat]
      /\ batches \in [Thread -> [Db -> Seq([key : Key, value : Stored])]]
      /\ out1 \in [Thread -> {"", "method", "input", "route", "fault", "not_found", "bad_size"}]
      /\ quiet \in [Thread -> BOOLEAN]
      /\ base \in [Thread -> [Key -> Stored]]
      /\ wrote \in [Thread -> SUBSET Db]
      /\ \A u \in Thread : Divided(u) /\ Effective(u) /\ Places(u)
  BY DEF TypeInv, TypeOK, EffectInv
<1>1. ASSUME NEW t \in Thread, \E e \in {"method", "input", "route", "fault", "not_found", "bad_size"} : Fail(t, e)
      PROVE  EffectInv'
  <2>1. PICK e \in {"method", "input", "route", "fault", "not_found", "bad_size"} : Fail(t, e)
    BY <1>1
  <2>2. pc'[t] = "reply" /\ out1'[t] # ""
    BY <1>0, <2>1 DEF Fail
  <2>3. Divided(t)' /\ Effective(t)'
    BY <2>2 DEF Divided, Effective
  <2>4. ASSUME NEW u \in Thread, u # t PROVE Divided(u)' /\ Effective(u)'
    BY <1>0, <2>1, <2>4, DividedFrame, EffectiveFrame DEF Fail
  <2>5. QED
    BY <2>3, <2>4 DEF EffectInv
<1>2. ASSUME NEW t \in Thread, Accept(t) PROVE EffectInv'
  <2>1. /\ pc'[t] = "switch" /\ at'[t] = 0 /\ batches'[t] = NoBatches /\ wrote'[t] = {}
        /\ base'[t] = content /\ content' = content
        /\ \A u \in Thread \ {t} :
              <<pc[u], req[u], at[u], batches[u], out1[u], wrote[u], base[u], quiet[u]>>' =
                  <<pc[u], req[u], at[u], batches[u], out1[u], wrote[u], base[u], quiet[u]>>
    BY <1>0, <1>2 DEF Accept, Places, locals
  <2>2. \A d \in Db : batches'[t][d] = <<>>
    BY <2>1 DEF NoBatches
  <2>3. \A d \in Db, k \in Key : LastAmong(k, batches'[t][d], Len(batches'[t][d])) = LastAmong(k, Batch(req[t])', at'[t])
    BY <2>1, <2>2, LastOfNone
  <2>4. Divided(t)'
    BY <2>1, <2>2, <2>3 DEF Divided
  <2>5. Effective(t)'
    BY <2>1 DEF Effective
  <2>6. QED
    BY <1>0, <2>1, <2>4, <2>5, DividedFrame, EffectiveFrame DEF EffectInv
<1>3. ASSUME NEW t \in Thread, Reject(t) PROVE EffectInv'
  BY <1>1, <1>3 DEF Reject
<1>4. ASSUME NEW t \in Thread, RouteFails(t) PROVE EffectInv'
  BY <1>1, <1>4 DEF RouteFails
<1>5. ASSUME NEW t \in Thread, RouteEnd(t) \/ WriteEnd(t) PROVE EffectInv'
  <2>1. /\ UNCHANGED <<content, req, at, batches, out1, wrote, base, quiet>>
        /\ pc[t] \in {"switch", "write"}
        /\ pc'[t] = "write" \/ pc'[t] = "reply"
        /\ \A u \in Thread \ {t} : pc'[u] = pc[u]
    BY <1>0, <1>5 DEF RouteEnd, WriteEnd, locals
  <2>2. Divided(t)'
    BY <1>0, <2>1 DEF Divided
  <2>3. Effective(t)'
    BY <1>0, <2>1 DEF Effective
  <2>4. QED
    BY <1>0, <2>1, <2>2, <2>3, DividedFrame, EffectiveFrame DEF EffectInv
<1>6. ASSUME NEW t \in Thread, Get(t) \/ DoQuery(t) \/ IncrDecr(t) PROVE EffectInv'
  <2>1. pc[t] = "call" /\ req[t].op # "update"
    BY <1>0, <1>6 DEF Get, DoQuery, IncrDecr, Places
  <2>2. CASE \E e \in {"method", "input", "route", "fault", "not_found", "bad_size"} : Fail(t, e)
    BY <1>1, <2>2
  <2>3. CASE ~ \E e \in {"method", "input", "route", "fault", "not_found", "bad_size"} : Fail(t, e)
    <3>1. /\ UNCHANGED <<req, at, batches, out1, base>>
          /\ \A u \in Thread \ {t} :
                /\ pc'[u] = pc[u] /\ wrote'[u] = wrote[u]
                /\ ~ quiet'[u] \/ (quiet'[u] = quiet[u] /\ content' = content)
      BY <1>0, <1>6, <2>3 DEF Get, DoQuery, IncrDecr, Disturb
    <3>2. Divided(t)' /\ Effective(t)'
      BY <2>1, <3>1 DEF Divided, Effective
    <3>3. QED
      BY <1>0, <3>1, <3>2, DividedFrame, EffectiveFrame DEF EffectInv
  <2>4. QED
    BY <2>2, <2>3
<1>7. ASSUME NEW t \in Thread, Encode(t) PROVE EffectInv'
  <2>1. /\ pc'[t] = "idle"
        /\ \A u \in Thread \ {t} :
              /\ <<pc[u], req[u], at[u], batches[u], out1[u], wrote[u], base[u], quiet[u]>>' =
                     <<pc[u], req[u], at[u], batches[u], out1[u], wrote[u], base[u], quiet[u]>>
              /\ content' = content
    BY <1>0, <1>7 DEF Encode
  <2>2. Divided(t)' /\ Effective(t)'
    BY <2>1 DEF Divided, Effective
  <2>3. QED
    BY <1>0, <2>1, <2>2, DividedFrame, EffectiveFrame DEF EffectInv
<1>8. CASE Crash
  <2>1. \A t \in Thread : pc'[t] = "idle"
    BY <1>8 DEF Crash
  <2>2. QED
    BY <2>1 DEF EffectInv, Divided, Effective
<1>9. CASE UNCHANGED vars
  <2>1. UNCHANGED <<pc, req, at, batches, out1, wrote, base, quiet, content>>
    BY <1>9 DEF vars, locals
  <2>2. QED
    BY <1>0, <2>1, DividedFrame, EffectiveFrame DEF EffectInv
<1>10. ASSUME NEW t \in Thread, Route(t) PROVE EffectInv'
  <2>1. /\ pc[t] = "switch" /\ UNCHANGED <<content, req, out1, wrote, base, quiet>>
        /\ \A u \in Thread \ {t} : pc'[u] = pc[u] /\ at'[u] = at[u] /\ batches'[u] = batches[u]
    BY <1>0, <1>10 DEF Route
  <2>2. CASE req[t].op = "update"
    <3>1. Divided(t)'
      BY <1>0, <1>10, <2>2, DividedRoute
    <3>2. Effective(t)'
      <4>1. pc' = pc
        BY <1>10, <2>2 DEF Route
      <4>2. QED
        BY <1>0, <2>1, <4>1, EffectiveFrame
    <3>3. QED
      BY <1>0, <2>1, <3>1, <3>2, DividedFrame, EffectiveFrame DEF EffectInv
  <2>3. CASE req[t].op # "update"
    <3>1. Divided(t)' /\ Effective(t)'
      BY <2>1, <2>3 DEF Divided, Effective
    <3>2. QED
      BY <1>0, <2>1, <3>1, DividedFrame, EffectiveFrame DEF EffectInv
  <2>4. QED
    BY <2>2, <2>3
<1>11. ASSUME NEW t \in Thread, WriteBatch(t) PROVE EffectInv'
  <2>1. PICK d \in Pending(t) :
          \/ /\ content' = Applied(content, batches[t][d])
             /\ batches' = [batches EXCEPT ![t][d] = <<>>]
             /\ wrote' = [wrote EXCEPT ![t] = @ \cup {d}]
             /\ Disturb(t)
             /\ UNCHANGED <<pc, req, at, out1, base>>
          \/ Fail(t, "fault")
    BY <1>11 DEF WriteBatch
  <2>2. pc[t] = "write" /\ d \in Db /\ req[t] \in Request /\ req[t].op = "update"
    BY <1>0, <1>11 DEF WriteBatch, Pending, Places
  <2>3. CASE Fail(t, "fault")
    BY <1>1, <2>3
  <2>4. CASE ~ Fail(t, "fault")
    <3>1. /\ content' = Applied(content, batches[t][d])
          /\ batches' = [batches EXCEPT ![t][d] = <<>>]
          /\ wrote' = [wrote EXCEPT ![t] = wrote[t] \cup {d}]
          /\ quiet' = [u \in Thread |-> quiet[u] /\ (u = t)]
          /\ UNCHANGED <<pc, req, at, out1, base>>
      BY <2>1, <2>4 DEF Disturb
    <3>2. /\ batches'[t][d] = <<>>
          /\ \A c \in Db \ {d} : batches'[t][c] = batches[t][c]
          /\ wrote'[t] = wrote[t] \cup {d}
      <4>1. /\ batches \in [Thread -> [Db -> Seq([key : Key, value : Stored])]]
            /\ wrote \in [Thread -> SUBSET Db]
        BY <1>0
      <4>2. QED
        BY <2>2, <3>1, <4>1
    <3>3. Divided(t)'
      <4>1. pc[t] \in {"switch", "write"} /\ req[t].op = "update" /\ UNCHANGED <<pc, req, at>> /\ Divided(t)
        BY <1>0, <2>2, <3>1
      <4>2. \A c \in Db : batches'[t][c] # <<>> => c \notin wrote'[t]
        BY <3>2, <4>1 DEF Divided
      <4>3. ASSUME NEW c \in Db, NEW i \in 1 .. Len(batches'[t][c]) PROVE DbOf[batches'[t][c][i].key] = c
        <5>1. CASE c = d
          <6>1. Len(batches'[t][c]) = 0
            BY <3>2, <5>1
          <6>2. QED
            BY <6>1
        <5>2. CASE c # d
          BY <3>2, <4>1, <5>2 DEF Divided
        <5>3. QED
          BY <5>1, <5>2
      <4>4. ASSUME NEW c \in Db \ wrote'[t], NEW k \in Key, DbOf[k] = c
            PROVE  LastAmong(k, batches'[t][c], Len(batches'[t][c])) = LastAmong(k, Batch(req[t])', at'[t])
        <5>1. batches'[t][c] = batches[t][c] /\ c \in Db \ wrote[t]
          BY <3>2
        <5>2. LastAmong(k, batches[t][c], Len(batches[t][c])) = LastAmong(k, Batch(req[t]), at[t])
          BY <4>1, <4>4, <5>1 DEF Divided
        <5>3. QED
          BY <4>1, <5>1, <5>2
      <4>5. QED
        BY <4>1, <4>2, <4>3, <4>4 DEF Divided
    <3>4. Effective(t)'
      <4> SUFFICES ASSUME quiet'[t], NEW k \in Key
                   PROVE  content'[k] = IF DbOf[k] \in wrote'[t]
                                        THEN Applied(base[t], Batch(req[t]))[k] ELSE base[t][k]
        BY <3>1 DEF Effective
      <4>1. quiet[t] /\ Divided(t) /\ Effective(t)
        BY <1>0, <3>1
      <4>2. CASE DbOf[k] = d
        <5>1. content'[k] = Applied(base[t], Batch(req[t]))[k]
          BY <2>2, <3>1, <4>1, <4>2, PartIsWhole
        <5>2. QED
          BY <3>2, <4>2, <5>1
      <4>3. CASE DbOf[k] # d
        <5>1. content'[k] = content[k]
          BY <2>2, <3>1, <4>1, <4>3, PartElsewhere
        <5>2. QED
          BY <2>2, <3>2, <4>1, <4>3, <5>1 DEF Effective
      <4>4. QED
        BY <4>2, <4>3
    <3>5. ASSUME NEW u \in Thread, u # t PROVE Divided(u)' /\ Effective(u)'
      <4>1. batches'[u] = batches[u] /\ wrote'[u] = wrote[u] /\ ~ quiet'[u]
        BY <1>0, <3>1, <3>5
      <4>2. Divided(u) /\ Effective(u) /\ UNCHANGED <<pc, req, at, out1, base>>
        BY <1>0, <3>1
      <4>3. QED
        BY <4>1, <4>2, DividedFrame, EffectiveFrame
    <3>6. QED
      BY <3>3, <3>4, <3>5 DEF EffectInv
  <2>5. QED
    BY <2>3, <2>4
<1>12. QED
  BY <1>2, <1>3, <1>4, <1>5, <1>6, <1>7, <1>8, <1>9, <1>10, <1>11 DEF Next, Step

\* Splitting an update by database changes nothing of its effect, however its parts are
\* ordered and whatever else the databases hold.
THEOREM SplitIsOne == Spec => []SplitAsOne
<1>1. TypeInv /\ ProgressInv /\ EffectInv => SplitAsOne
  <2> SUFFICES ASSUME TypeInv, ProgressInv, EffectInv,
                      NEW t \in Thread, Updating(t), pc[t] = "reply", out1[t] = "", quiet[t]
               PROVE  content = Applied(base[t], Batch(req[t]))
    BY DEF SplitAsOne
  <2> DEFINE whole == Applied(base[t], Batch(req[t]))
  <2>1. req[t] \in Request /\ req[t] \in UpdateCall /\ req[t].op = "update"
    BY RequestKinds DEF TypeInv, Places, Updating
  <2>2. content \in [Key -> Stored] /\ base[t] \in [Key -> Stored]
    BY DEF TypeInv, TypeOK
  <2>3. whole \in [Key -> Stored]
    BY <2>1, <2>2, AppliedType
  <2>4. wrote[t] = {DbOf[k] : k \in Written(req[t])}
    BY NamedIsWritten DEF ProgressInv, Progress, Updating
  <2>5. ASSUME NEW k \in Key PROVE content[k] = whole[k]
    <3>1. content[k] = IF DbOf[k] \in wrote[t] THEN whole[k] ELSE base[t][k]
      BY <2>1 DEF EffectInv, Effective
    <3>2. CASE DbOf[k] \in wrote[t]
      BY <3>1, <3>2
    <3>3. CASE DbOf[k] \notin wrote[t]
      <4>1. k \notin Written(req[t])
        BY <2>4, <3>3
      <4>2. whole[k] = base[t][k]
        BY <2>1, <2>2, <4>1, AppliedElsewhere
      <4>3. QED
        BY <3>1, <3>3, <4>2
    <3>4. QED
      BY <3>2, <3>3
  <2> HIDE DEF whole
  <2>6. content = whole
    <3>1. content = [k \in Key |-> content[k]] /\ whole = [k \in Key |-> whole[k]]
      BY <2>2, <2>3
    <3>2. QED
      BY <2>5, <3>1
  <2>7. QED
    BY <2>6 DEF whole
<1>2. Spec => []EffectInv
  BY EffectInit, EffectStep, TypeInvariant, ProgressInvariant, PTL DEF Spec
<1>3. QED
  BY <1>1, <1>2, TypeInvariant, ProgressInvariant, PTL

(***************************************************************************)
(* A request is short: its keys are routed, then its batches written, and  *)
(* it waits for nobody.                                                    *)
(***************************************************************************)
ToRoute(t) == Len(Routed(req[t])) - at[t]
ToWrite(t) == Cardinality(Pending(t))

\* No fewer than the steps that are left to t.
StepsLeft(t) ==
    CASE pc[t] = "switch" -> 2 * ToRoute(t) + ToWrite(t) + 3
      [] pc[t] = "call"   -> 2 * ToRoute(t) + ToWrite(t) + 4
      [] pc[t] = "write"  -> ToWrite(t) + 2
      [] pc[t] = "reply"  -> 1
      [] pc[t] = "idle"   -> 0

FinitelyMany == \A t \in Thread : IsFiniteSet(Pending(t))

\* What a step does to the batches of a worker.
BatchesMove(u) ==
    \/ batches'[u] \in {batches[u], NoBatches}
    \/ \E d \in Db : \E b : batches'[u] = [batches[u] EXCEPT ![d] = b]

LEMMA BatchesStep == TypeInv /\ [Next]_vars => \A u \in Thread : BatchesMove(u)
<1> SUFFICES ASSUME TypeInv, [Next]_vars PROVE \A u \in Thread : BatchesMove(u)
  OBVIOUS
<1>1. batches \in [Thread -> [Db -> Seq(BatchWrite)]]
  BY BatchesType
<1>2. CASE batches' = batches
  BY <1>2 DEF BatchesMove
<1>3. ASSUME NEW t \in Thread, Route(t) PROVE \A u \in Thread : BatchesMove(u)
  <2>1. DbOf[NextKey(t)] \in Db
    BY <1>3, NextKeyType, RequestAssumption DEF Route
  <2>2. \/ batches' = batches
        \/ \E b : batches' = [batches EXCEPT ![t] = [batches[t] EXCEPT ![DbOf[NextKey(t)]] = b]]
    BY <1>3 DEF Route
  <2>3. QED
    BY <1>1, <2>1, <2>2 DEF BatchesMove
<1>4. ASSUME NEW t \in Thread, WriteBatch(t) PROVE \A u \in Thread : BatchesMove(u)
  <2>1. \/ batches' = batches
        \/ \E d \in Db : batches' = [batches EXCEPT ![t] = [batches[t] EXCEPT ![d] = <<>>]]
    BY <1>4 DEF WriteBatch, Fail, Pending
  <2>2. QED
    BY <1>1, <2>1 DEF BatchesMove
<1>5. ASSUME NEW t \in Thread, Encode(t) PROVE \A u \in Thread : BatchesMove(u)
  BY <1>1, <1>5 DEF Encode, BatchesMove
<1>6. CASE Crash
  BY <1>6 DEF Crash, BatchesMove
<1>7. QED
  BY <1>2, <1>3, <1>4, <1>5, <1>6
     DEF Next, vars, locals, Step, Accept, Reject, RouteFails, RouteEnd, WriteEnd, Get, IncrDecr, DoQuery, Fail

LEMMA FinitelyStep == TypeInv /\ FinitelyMany /\ [Next]_vars => FinitelyMany'
<1> SUFFICES ASSUME TypeInv, FinitelyMany, [Next]_vars, NEW u \in Thread
             PROVE  IsFiniteSet(Pending(u)')
  BY DEF FinitelyMany
<1>1. batches[u] \in [Db -> Seq(BatchWrite)] /\ IsFiniteSet(Pending(u)) /\ BatchesMove(u)
  BY BatchesType, BatchesStep DEF FinitelyMany
<1>2. Pending(u)' = {d \in Db : batches'[u][d] # <<>>}
  BY DEF Pending
<1>3. CASE batches'[u] = batches[u]
  BY <1>1, <1>2, <1>3 DEF Pending
<1>4. CASE batches'[u] = NoBatches
  <2>1. Pending(u)' = {}
    BY <1>2, <1>4 DEF NoBatches
  <2>2. QED
    BY <2>1, FS_EmptySet
<1>5. ASSUME NEW d \in Db, NEW b, batches'[u] = [batches[u] EXCEPT ![d] = b]
      PROVE  IsFiniteSet(Pending(u)')
  <2>1. \A e \in Db : e # d => batches'[u][e] = batches[u][e]
    BY <1>1, <1>5
  <2>2. Pending(u)' \subseteq Pending(u) \cup {d}
    BY <1>2, <2>1 DEF Pending
  <2>3. IsFiniteSet(Pending(u) \cup {d})
    BY <1>1, FS_AddElement
  <2>4. QED
    BY <2>2, <2>3, FS_Subset
<1>6. QED
  BY <1>1, <1>3, <1>4, <1>5 DEF BatchesMove

LEMMA FinitelyInit == Init => FinitelyMany
<1> SUFFICES ASSUME Init, NEW t \in Thread PROVE IsFiniteSet(Pending(t))
  BY DEF FinitelyMany
<1>1. Pending(t) = {}
  BY DEF Init, Pending, NoBatches
<1>2. QED
  BY <1>1, FS_EmptySet

LEMMA LeftIs ==
    ASSUME TypeInv, FinitelyMany, NEW t \in Thread
    PROVE  /\ pc[t] # "idle" => ToRoute(t) \in Nat
           /\ ToWrite(t) \in Nat
           /\ StepsLeft(t) \in Nat
<1>1. ToWrite(t) \in Nat
  BY FS_CardinalityType DEF FinitelyMany, ToWrite
<1>2. ASSUME pc[t] # "idle" PROVE ToRoute(t) \in Nat
  <2>1. Routed(req[t]) \in Seq(Key) /\ at[t] \in 0 .. Len(Routed(req[t]))
    BY <1>2, RoutedType DEF TypeInv, Places
  <2> DEFINE l == Len(Routed(req[t]))
  <2>2. l \in Nat /\ at[t] \in 0 .. l
    BY <2>1
  <2>3. ToRoute(t) = l - at[t]
    BY DEF ToRoute
  <2> HIDE DEF l
  <2>4. QED
    BY <2>2, <2>3
<1>3. pc[t] \in {"idle", "switch", "call", "write", "reply"}
  BY DEF TypeInv, TypeOK
<1>4. StepsLeft(t) \in Nat
  BY <1>1, <1>2, <1>3 DEF StepsLeft
<1>5. QED
  BY <1>1, <1>2, <1>4

\* A step of one worker is not a step of another.
LEMMA OthersStay ==
    ASSUME TypeInv, NEW t \in Thread, Step(t), NEW u \in Thread, u # t
    PROVE  StepsLeft(u)' = StepsLeft(u)
<1>1. /\ pc \in [Thread -> {"idle", "switch", "call", "write", "reply"}]
      /\ req \in [Thread -> Request \cup {NoCall}]
      /\ at \in [Thread -> Nat]
      /\ batches \in [Thread -> [Db -> Seq(BatchWrite)]]
  BY BatchesType DEF TypeInv, TypeOK
<1>2. pc'[u] = pc[u]
  BY <1>1 DEF Step, Reject, RouteFails, Route, RouteEnd, WriteBatch, WriteEnd, Get, IncrDecr, DoQuery, Encode,
              Fail, Goto
<1>3. req'[u] = req[u] /\ at'[u] = at[u]
  BY <1>1 DEF Step, Reject, RouteFails, Route, RouteEnd, WriteBatch, WriteEnd, Get, IncrDecr, DoQuery, Encode,
              Fail, locals
<1>4. batches'[u] = batches[u]
  BY <1>1 DEF Step, Reject, RouteFails, Route, RouteEnd, WriteBatch, WriteEnd, Get, IncrDecr, DoQuery, Encode,
              Fail, locals
<1>5. ToRoute(u)' = ToRoute(u)
  BY <1>3 DEF ToRoute
<1>6. Pending(u)' = Pending(u)
  BY <1>4 DEF Pending
<1>7. ToWrite(u)' = ToWrite(u)
  BY <1>6 DEF ToWrite
<1>8. QED
  BY <1>2, <1>5, <1>7 DEF StepsLeft

LEMMA StepNearer ==
    ASSUME TypeInv, FinitelyMany, NEW t \in Thread, Step(t)
    PROVE  StepsLeft(t)' < StepsLeft(t)
<1>1. /\ pc \in [Thread -> {"idle", "switch", "call", "write", "reply"}]
      /\ at \in [Thread -> Nat]
      /\ batches \in [Thread -> [Db -> Seq(BatchWrite)]]
  BY BatchesType DEF TypeInv, TypeOK
<1>2. ToWrite(t) \in Nat /\ (pc[t] # "idle" => ToRoute(t) \in Nat)
  BY LeftIs
<1>3. ASSUME pc' = [pc EXCEPT ![t] = "reply"], pc[t] \in {"switch", "call", "write"}
      PROVE  StepsLeft(t)' < StepsLeft(t)
  <2>1. StepsLeft(t)' = 1
    BY <1>1, <1>3 DEF StepsLeft
  <2>2. StepsLeft(t) >= 2
    BY <1>2, <1>3 DEF StepsLeft
  <2>3. StepsLeft(t) \in Nat
    BY LeftIs
  <2>4. QED
    BY <2>1, <2>2, <2>3
<1>4. ASSUME UNCHANGED <<req, at, batches>> PROVE ToRoute(t)' = ToRoute(t) /\ ToWrite(t)' = ToWrite(t)
  BY <1>4 DEF ToRoute, ToWrite, Pending
<1>5. CASE Reject(t) \/ RouteFails(t) \/ WriteEnd(t) \/ IncrDecr(t) \/ DoQuery(t)
  BY <1>3, <1>5 DEF Reject, RouteFails, WriteEnd, IncrDecr, DoQuery, Fail, Goto
<1>6. CASE Route(t)
  <2> DEFINE d == DbOf[NextKey(t)]
  <2>1. pc[t] = "switch" /\ at' = [at EXCEPT ![t] = at[t] + 1] /\ UNCHANGED req
    BY <1>6 DEF Route
  <2>2. d \in Db
    BY <1>6, NextKeyType, RequestAssumption DEF Route
  <2>3. ToRoute(t)' = ToRoute(t) - 1
    <3>1. at'[t] = at[t] + 1 /\ at[t] \in Int
      BY <1>1, <2>1
    <3>2. Len(Routed(req[t])) \in Int
      <4>1. req[t] \in Request
        BY <2>1 DEF TypeInv, Places
      <4>2. Routed(req[t]) \in Seq(Key)
        BY <4>1, RoutedType
      <4>3. QED
        BY <4>2
    <3>3. QED
      BY <2>1, <3>1, <3>2 DEF ToRoute
  <2>4. CASE batches' = batches /\ pc' = [pc EXCEPT ![t] = "call"]
    <3>1. ToWrite(t)' = ToWrite(t) /\ pc'[t] = "call"
      BY <1>1, <2>4 DEF ToWrite, Pending
    <3>2. StepsLeft(t) = 2 * ToRoute(t) + ToWrite(t) + 3
      BY <2>1 DEF StepsLeft
    <3>3. StepsLeft(t)' = 2 * ToRoute(t)' + ToWrite(t)' + 4
      BY <3>1 DEF StepsLeft
    <3>4. QED
      BY <1>2, <2>1, <2>3, <3>1, <3>2, <3>3
  <2>5. ASSUME pc' = pc, NEW b, batches' = [batches EXCEPT ![t] = [batches[t] EXCEPT ![d] = b]]
        PROVE  StepsLeft(t)' < StepsLeft(t)
    <3>1. batches'[t] = [batches[t] EXCEPT ![d] = b] /\ batches[t] \in [Db -> Seq(BatchWrite)]
      BY <1>1, <2>5
    <3>2. Pending(t)' \subseteq Pending(t) \cup {d}
      BY <2>2, <3>1 DEF Pending
    <3>3. ToWrite(t)' \in Nat /\ ToWrite(t)' <= ToWrite(t) + 1
      <4>1. IsFiniteSet(Pending(t))
        BY DEF FinitelyMany
      <4>2. /\ IsFiniteSet(Pending(t) \cup {d})
            /\ Cardinality(Pending(t) \cup {d}) \in Nat
            /\ Cardinality(Pending(t) \cup {d}) <= Cardinality(Pending(t)) + 1
        BY <1>2, <4>1, FS_AddElement DEF ToWrite
      <4>3. Cardinality(Pending(t)') \in Nat /\ Cardinality(Pending(t)') <= Cardinality(Pending(t) \cup {d})
        BY <3>2, <4>2, FS_Subset, FS_CardinalityType
      <4>4. QED
        BY <1>2, <4>2, <4>3 DEF ToWrite
    <3>4. StepsLeft(t) = 2 * ToRoute(t) + ToWrite(t) + 3
      BY <2>1 DEF StepsLeft
    <3>5. StepsLeft(t)' = 2 * ToRoute(t)' + ToWrite(t)' + 3
      BY <2>1, <2>5 DEF StepsLeft
    <3>6. QED
      BY <1>2, <2>1, <2>3, <3>3, <3>4, <3>5
  <2>6. QED
    BY <1>6, <2>4, <2>5 DEF Route, Goto
<1>7. CASE RouteEnd(t)
  <2>1. pc[t] = "switch" /\ ToRoute(t)' = ToRoute(t) /\ ToWrite(t)' = ToWrite(t)
    BY <1>4, <1>7 DEF RouteEnd, locals
  <2>2. pc'[t] \in {"write", "reply"}
    BY <1>1, <1>7 DEF RouteEnd, Goto
  <2>3. QED
    BY <1>2, <2>1, <2>2 DEF StepsLeft
<1>8. CASE WriteBatch(t)
  <2>1. ASSUME NEW d \in Pending(t), batches' = [batches EXCEPT ![t] = [batches[t] EXCEPT ![d] = <<>>]],
               pc' = pc
        PROVE  StepsLeft(t)' < StepsLeft(t)
    <3>1. batches'[t] = [batches[t] EXCEPT ![d] = <<>>] /\ batches[t] \in [Db -> Seq(BatchWrite)]
      BY <1>1, <2>1
    <3>2. Pending(t)' = Pending(t) \ {d}
      BY <3>1 DEF Pending
    <3>3. Cardinality(Pending(t) \ {d}) = Cardinality(Pending(t)) - 1
      BY FS_RemoveElement DEF FinitelyMany
    <3>4. pc[t] = "write" /\ pc'[t] = "write"
      BY <1>8, <2>1 DEF WriteBatch
    <3>5. ToWrite(t)' = ToWrite(t) - 1
      BY <3>2, <3>3 DEF ToWrite
    <3>6. QED
      BY <1>2, <3>4, <3>5 DEF StepsLeft
  <2>2. QED
    BY <1>3, <1>8, <2>1 DEF WriteBatch, Fail, Goto
<1>9. CASE Get(t)
  <2>1. ASSUME pc' = [pc EXCEPT ![t] = "switch"], UNCHANGED <<req, at, batches>>
        PROVE  StepsLeft(t)' < StepsLeft(t)
    <3>1. pc[t] = "call" /\ pc'[t] = "switch" /\ ToRoute(t)' = ToRoute(t) /\ ToWrite(t)' = ToWrite(t)
      BY <1>1, <1>4, <1>9, <2>1 DEF Get
    <3>2. QED
      BY <1>2, <3>1 DEF StepsLeft
  <2>2. QED
    BY <1>3, <1>9, <2>1 DEF Get, Fail, Goto
<1>10. CASE Encode(t)
  <2>1. pc[t] = "reply" /\ pc'[t] = "idle"
    BY <1>1, <1>10 DEF Encode, Goto
  <2>2. StepsLeft(t) = 1 /\ StepsLeft(t)' = 0
    BY <2>1 DEF StepsLeft
  <2>3. QED
    BY <2>2
<1>11. QED
  BY <1>5, <1>6, <1>7, <1>8, <1>9, <1>10 DEF Step

\* ReqHandler::handle takes at most two steps for each key of the request (it is
\* routed, then read or written) and three more, whatever fails, and no step of
\* another worker makes that longer: the loops of conn.cc end.
THEOREM RequestShort ==
    Spec => /\ [](\A t \in Thread : StepsLeft(t) \in Nat)
            /\ [][\A t \in Thread : Accept(t) => StepsLeft(t)' = 2 * Len(Routed(req'[t])) + 3]_vars
            /\ [][\A t \in Thread : Step(t) =>
                    /\ StepsLeft(t)' < StepsLeft(t)
                    /\ \A u \in Thread \ {t} : StepsLeft(u)' = StepsLeft(u)]_vars
<1>1. TypeInv /\ FinitelyMany => \A t \in Thread : StepsLeft(t) \in Nat
  BY LeftIs
<1>2. TypeInv => \A t \in Thread : Accept(t) => StepsLeft(t)' = 2 * Len(Routed(req'[t])) + 3
  <2> SUFFICES ASSUME TypeInv, NEW t \in Thread, Accept(t)
               PROVE  StepsLeft(t)' = 2 * Len(Routed(req'[t])) + 3
    OBVIOUS
  <2>1. pc'[t] = "switch" /\ pc[t] = "idle" /\ at' = at /\ batches' = batches
    BY DEF Accept, Goto, TypeInv, TypeOK, locals
  <2>2. at[t] = 0 /\ batches[t] = NoBatches
    BY <2>1 DEF TypeInv, Places
  <2>3. Pending(t)' = {}
    BY <2>1, <2>2 DEF Pending, NoBatches
  <2>4. ToWrite(t)' = 0
    BY <2>3, FS_EmptySet DEF ToWrite
  <2>5. req'[t] \in Request
    BY DEF Accept, TypeInv, TypeOK
  <2>6. Routed(req'[t]) \in Seq(Key)
    BY <2>5, RoutedType
  <2>7. ToRoute(t)' = Len(Routed(req'[t])) - 0 /\ Len(Routed(req'[t])) \in Nat
    BY <2>1, <2>2, <2>6 DEF ToRoute
  <2>8. StepsLeft(t)' = 2 * ToRoute(t)' + ToWrite(t)' + 3
    BY <2>1 DEF StepsLeft
  <2>9. QED
    BY <2>4, <2>7, <2>8
<1>3. TypeInv /\ FinitelyMany => \A t \in Thread : Step(t) =>
                                   /\ StepsLeft(t)' < StepsLeft(t)
                                   /\ \A u \in Thread \ {t} : StepsLeft(u)' = StepsLeft(u)
  BY StepNearer, OthersStay
<1>4. Spec => Init /\ [][Next]_vars
  BY DEF Spec
<1>5. QED
  BY <1>1, <1>2, <1>3, <1>4, TypeInvariant, FinitelyInit, FinitelyStep, PTL

=============================================================================
