---------------------------- MODULE NdbCProofs ----------------------------
(***************************************************************************)
(* Proofs about the C API (module NdbC), for any number of threads, calls  *)
(* and keys.  ApiInv is the inductive invariant.  Its core is arithmetic:  *)
(* a call that took its number less than SeqMod calls ago has a key that   *)
(* no other of the last SeqMod calls has (Ages, and the lemma SameKey), so *)
(* that entering or erasing one key never destroys what another one owns   *)
(* (Kept, Opened).  A key to which seq has come round while it was in use  *)
(* (lapped) is left out of this, and no other is.  What holds for all keys *)
(* is that each freeinfo has one owner, which can be reached (Owned,       *)
(* Reachable).                                                             *)
(***************************************************************************)
EXTENDS NdbC, FiniteSetTheorems, TLAPS

\* Where a call has its number, and its freeinfo is not in mfree yet.
Unregistered == {"work", "lock", "register"}

\* Numbers are those taken so far.
Numbers ==
    /\ live \subseteq 1 .. taken
    /\ \A t \in Thread : pc[t] \in Numbered => call[t].n \in 1 .. taken
    /\ \A r \in held : r.n \in 1 .. taken
    /\ \A t \in Thread : \A r \in todo[t] : r.n \in 1 .. taken

\* No two calls in progress, nor two results, have one number.
Apart ==
    /\ \A t, u \in Thread :
        pc[t] \in Numbered /\ pc[u] \in Numbered /\ call[t].n = call[u].n => t = u
    /\ \A t \in Thread : pc[t] \in Numbered =>
        /\ \A r \in held : r.n # call[t].n
        /\ \A u \in Thread : \A r \in todo[u] : r.n # call[t].n
    /\ \A r, s \in held : r.n = s.n => r = s
    /\ \A r \in held : \A u \in Thread : \A s \in todo[u] : r.n # s.n

\* No number is taken before ndb_once_init has run.
Started ==
    /\ ~ inited => taken = 0
    /\ \A t \in Thread : pc[t] \in {"key"} \cup Numbered => inited

\* What the locals of a thread are where it is.
Shape ==
    \A t \in Thread :
        /\ pc[t] \in {"idle", "release", "erase"} => call[t] = Idle
        /\ pc[t] = "init" => call[t].op = "open"
        /\ pc[t] \notin {"release", "erase"} => todo[t] = {}
        /\ pc[t] \in {"init", "key"} => call[t].db \in 0 .. taken

\* The key of r is where seq was when r took its number.
Fits(r) ==
    /\ taken - r.n < SeqMod
    /\ seq - r.key = taken - r.n \/ seq - r.key + SeqMod = taken - r.n

\* So it is for everything in use, but for the keys to which seq has come round.
Ages ==
    /\ \A t \in Thread : pc[t] \in Numbered /\ call[t].key \notin lapped => Fits(call[t])
    /\ \A r \in held : r.key \notin lapped => Fits(r)
    /\ \A t \in Thread : \A r \in todo[t] : r.key \notin lapped => Fits(r)

\* Every freeinfo is owned by one key, or by the one call that made it.
Owned ==
    /\ \A j, k \in DOMAIN mfree : mfree[j] = mfree[k] => j = k
    /\ \A t \in Thread : pc[t] \in Unregistered =>
        call[t].n \in live /\ \A k \in DOMAIN mfree : mfree[k] # call[t].n
    /\ \A n \in live :
        \/ \E k \in DOMAIN mfree : mfree[k] = n
        \/ \E t \in Thread : pc[t] \in Unregistered /\ call[t].n = n

\* Every key of mfree is one that somebody has yet to release.
Reachable ==
    \A k \in DOMAIN mfree :
        \/ \E r \in held : r.key = k
        \/ \E t \in Thread : \E r \in todo[t] : r.key = k
        \/ \E t \in Thread : pc[t] = "return" /\ call[t].key = k

\* The key of r owns the freeinfo of r.
Entered(r) == r.key \in DOMAIN mfree /\ mfree[r.key] = r.n

\* What the program holds is in mfree under its own key.
Kept ==
    /\ \A r \in held : r.key \notin lapped => Entered(r)
    /\ \A t \in Thread : pc[t] = "return" /\ call[t].key \notin lapped => Entered(call[t])

\* A database stays open while its key is held.
Opened ==
    /\ \A r \in held : r.opened /\ r.key \notin lapped => r.n \in dbs
    /\ \A t \in Thread :
        /\ pc[t] \in Numbered /\ call[t].op = "open" /\ call[t].db = call[t].n
        /\ call[t].key \notin lapped
        => call[t].n \in dbs

\* The key of a database is held while a call uses it.
DbHeld ==
    \A t \in Thread : pc[t] \in {"key"} \cup Numbered /\ call[t].op # "open" =>
        \E h \in held : h.opened /\ h.n = call[t].db

ApiInv ==
    /\ TypeOK
    /\ Numbers
    /\ Apart
    /\ Started
    /\ Shape
    /\ Ages
    /\ Owned
    /\ Reachable
    /\ Kept
    /\ Opened
    /\ DbHeld

----------------------------------------------------------------------------
\* Of the last SeqMod calls, no two have one key.
LEMMA SameKey ==
    ASSUME TypeOK, NEW r, NEW s, r.n \in 1 .. taken, s.n \in 1 .. taken,
           r.key \in Reqkey, r.key = s.key, Fits(r), Fits(s)
    PROVE  r.n = s.n
BY ApiAssumption DEF Fits, Reqkey, TypeOK

\* Every step of every thread preserves the invariant.
LEMMA ApiStep == ApiInv /\ [Next]_vars => ApiInv'
<1> SUFFICES ASSUME ApiInv, [Next]_vars PROVE ApiInv'
  OBVIOUS
<1> USE ApiAssumption DEF ApiInv, Goto, memory, Idle
<1>1. ASSUME NEW t \in Thread, Invoke(t) PROVE ApiInv'
  <2>a. /\ pc[t] = "idle" /\ pc'[t] \in {"init", "key"}
        /\ \A u \in Thread : u # t => pc'[u] = pc[u] /\ call'[u] = call[u]
        /\ UNCHANGED <<inited, seq, mfree, live, dbs, todo, held, taken, lapped>>
    BY <1>1 DEF Invoke, TypeOK
  <2>1. TypeOK'
    <3>1. (call \in [Thread -> CallRecord])'
      BY <1>1 DEF Invoke, TypeOK, CallRecord, Result
    <3>2. (pc \in [Thread -> Pc] /\ \A u \in Thread : pc[u] \in Inside => mu = u)'
      BY <1>1 DEF Invoke, TypeOK, Pc, Numbered, Inside
    <3>3. QED
      BY <1>1, <3>1, <3>2 DEF Invoke, TypeOK
  <2>2. Numbers'
    BY <1>1 DEF Invoke, TypeOK, Numbers, Numbered
  <2>3. Apart'
    BY <2>a DEF Apart, Numbered, Inside
  <2>4. Started'
    BY <1>1, <2>a DEF Invoke, Started, Numbers, TypeOK, Numbered
  <2>5. Shape'
    <3>1. call[t] = Idle /\ todo[t] = {}
      BY <2>a DEF Shape
    <3>2. \/ pc'[t] = "init" /\ call'[t].op = "open" /\ call'[t].db = 0
          \/ pc'[t] = "key" /\ \E h \in held : call'[t].db = h.n
      BY <1>1, <3>1 DEF Invoke, TypeOK, CallRecord
    <3>3. call'[t].db \in 0 .. taken
      BY <3>2 DEF Numbers, TypeOK
    <3>4. QED
      BY <2>a, <3>1, <3>2, <3>3 DEF Shape
  <2>6. Ages'
    <3>1. \A u \in Thread : pc'[u] \in Numbered => pc[u] \in Numbered /\ call'[u] = call[u]
      BY <2>a DEF Numbered
    <3>2. QED
      BY <2>a, <3>1 DEF Ages, Fits
  <2>7. Owned'
    <3>1. \A u \in Thread : pc'[u] \in Unregistered => u # t
      BY <2>a DEF Unregistered
    <3>2. \A u \in Thread : pc[u] \in Unregistered => u # t
      BY <2>a DEF Unregistered
    <3>3. QED
      BY <2>a, <3>1, <3>2 DEF Owned
  <2>8. Reachable'
    BY <1>1 DEF Invoke, Reachable, TypeOK
  <2>9. Kept'
    BY <1>1 DEF Invoke, TypeOK, Kept, Numbered, CallRecord, Entered
  <2>10. Opened'
    BY <1>1 DEF Invoke, TypeOK, Opened, Numbered
  <2>11. DbHeld'
    BY <1>1 DEF Invoke, TypeOK, DbHeld, Numbered, CallRecord
  <2>12. QED
    BY <2>1, <2>2, <2>3, <2>4, <2>5, <2>6, <2>7, <2>8, <2>9, <2>10, <2>11
<1>2. ASSUME NEW t \in Thread, InitOnce(t) PROVE ApiInv'
  <2>1. TypeOK'
    BY <1>2 DEF InitOnce, TypeOK, Pc, Numbered, Inside, Reqkey
  <2>2. Numbers'
    BY <1>2 DEF InitOnce, TypeOK, Numbers, Numbered
  <2>3. Apart'
    BY <1>2 DEF InitOnce, TypeOK, Apart, Numbered
  <2>4. Started'
    BY <1>2 DEF InitOnce, Started
  <2>5. Shape'
    BY <1>2 DEF InitOnce, Shape
  <2>6. Ages'
    BY <1>2 DEF InitOnce, Ages, Fits, Started, Numbers, TypeOK, Numbered
  <2>7. Owned'
    BY <1>2 DEF InitOnce, TypeOK, Owned, Numbered, CallRecord, Unregistered
  <2>8. Reachable'
    BY <1>2 DEF InitOnce, Reachable
  <2>9. Kept'
    BY <1>2 DEF InitOnce, TypeOK, Kept, Numbered, CallRecord, Entered
  <2>10. Opened'
    BY <1>2 DEF InitOnce, TypeOK, Opened, Numbered
  <2>11. DbHeld'
    BY <1>2 DEF InitOnce, DbHeld, Shape, TypeOK, Numbered
  <2>12. QED
    BY <2>1, <2>2, <2>3, <2>4, <2>5, <2>6, <2>7, <2>8, <2>9, <2>10, <2>11
<1>3. ASSUME NEW t \in Thread, TakeKey(t) PROVE ApiInv'
  <2>a. /\ pc[t] = "key" /\ pc'[t] = "work"
        /\ \A u \in Thread : u # t => pc'[u] = pc[u] /\ call'[u] = call[u]
        /\ call'[t] = [call[t] EXCEPT !.n = taken + 1, !.key = NextSeq(seq)]
        /\ taken' = taken + 1 /\ seq' = NextSeq(seq) /\ live' = live \cup {taken + 1}
        /\ UNCHANGED <<inited, mu, mfree, dbs, todo, held>>
    BY <1>3 DEF TakeKey, TypeOK, CallRecord
  <2>b. NextSeq(seq) \in Reqkey /\ taken + 1 \in Nat
    BY DEF NextSeq, Reqkey, TypeOK
  <2>c. /\ call'[t].n = taken + 1 /\ call'[t].key = NextSeq(seq)
        /\ call'[t].db = call[t].db /\ call'[t].op = call[t].op
    BY <2>a DEF TypeOK, CallRecord
  <2>1. TypeOK'
    <3>1. (call \in [Thread -> CallRecord])'
      <4>1. [call[t] EXCEPT !.n = taken + 1, !.key = NextSeq(seq)] \in CallRecord
        <5>1. call[t] \in CallRecord
          BY DEF TypeOK
        <5>2. QED
          BY <2>b, <5>1 DEF CallRecord
      <4>2. call' = [u \in Thread |-> call'[u]]
        BY <1>3 DEF TakeKey, TypeOK
      <4>3. \A u \in Thread : call'[u] \in CallRecord
        BY <2>a, <4>1 DEF TypeOK
      <4>4. QED
        BY <4>2, <4>3
    <3>2. (pc \in [Thread -> Pc] /\ \A u \in Thread : pc[u] \in Inside => mu = u)'
      BY <1>3 DEF TakeKey, TypeOK, Pc, Numbered, Inside
    <3>3. (lapped \subseteq Reqkey)'
      <4>1. \A r \in Outstanding : r.key \in Reqkey
        BY DEF Outstanding, Running, Releasing, ResultOf, Result, CallRecord, TypeOK
      <4>2. QED
        BY <1>3, <4>1 DEF TakeKey, TypeOK
    <3>4. QED
      BY <1>3, <2>b, <3>1, <3>2, <3>3 DEF TakeKey, TypeOK
  <2>2. Numbers'
    BY <1>3 DEF TakeKey, Numbers, TypeOK
  <2>3. Apart'
    <3>1. \A u \in Thread : u # t /\ pc'[u] \in Numbered =>
            pc[u] \in Numbered /\ call'[u].n = call[u].n /\ call[u].n # taken + 1
      BY <2>a DEF Numbers, TypeOK
    <3>2. /\ \A r \in held : r.n # taken + 1
          /\ \A u \in Thread : \A r \in todo[u] : r.n # taken + 1
      BY DEF Numbers, TypeOK
    <3>3. QED
      <4>1. \A u, v \in Thread :
              pc'[u] \in Numbered /\ pc'[v] \in Numbered /\ call'[u].n = call'[v].n => u = v
        <5> SUFFICES ASSUME NEW u \in Thread, NEW v \in Thread, u # v,
                            pc'[u] \in Numbered, pc'[v] \in Numbered
                     PROVE  call'[u].n # call'[v].n
          OBVIOUS
        <5>1. CASE u = t
          BY <2>c, <3>1, <5>1
        <5>2. CASE v = t
          BY <2>c, <3>1, <5>2
        <5>3. CASE u # t /\ v # t
          BY <3>1, <5>3 DEF Apart
        <5>4. QED
          BY <5>1, <5>2, <5>3
      <4>2. \A u \in Thread : pc'[u] \in Numbered =>
              /\ \A r \in held : r.n # call'[u].n
              /\ \A v \in Thread : \A r \in todo[v] : r.n # call'[u].n
        <5> SUFFICES ASSUME NEW u \in Thread, pc'[u] \in Numbered
                     PROVE  /\ \A r \in held : r.n # call'[u].n
                            /\ \A v \in Thread : \A r \in todo[v] : r.n # call'[u].n
          OBVIOUS
        <5>1. CASE u = t
          BY <2>c, <3>2, <5>1
        <5>2. CASE u # t
          BY <3>1, <5>2 DEF Apart
        <5>3. QED
          BY <5>1, <5>2
      <4>3. QED
        BY <2>a, <4>1, <4>2 DEF Apart
  <2>4. Started'
    BY <1>3 DEF TakeKey, Started
  <2>5. Shape'
    <3>1. 0 .. taken \subseteq 0 .. taken'
      BY <2>a DEF TypeOK
    <3>2. QED
      BY <2>a, <3>1 DEF Shape
  <2>6. Ages'
    <3>1. /\ lapped \subseteq lapped'
          /\ \A r \in Outstanding : r.n \in Nat /\ r.key \notin lapped' => taken + 1 - r.n < SeqMod
      <4>1. lapped' = lapped \cup {r.key : r \in {s \in Outstanding : taken' - s.n >= SeqMod}}
        BY <1>3, Zenon DEF TakeKey
      <4>2. \A r \in Outstanding : r.key \notin lapped' => ~ (taken' - r.n >= SeqMod)
        BY <4>1
      <4>3. taken \in Nat /\ SeqMod \in Nat /\ taken' = taken + 1
        BY <2>a DEF TypeOK
      <4>4. ASSUME NEW r \in Outstanding, r.n \in Nat, r.key \notin lapped' PROVE taken + 1 - r.n < SeqMod
        BY <4>2, <4>3, <4>4
      <4>5. QED
        BY <4>1, <4>4
    <3>2. \A u \in Thread : pc[u] \in Numbered /\ call[u].key \notin lapped' => taken + 1 - call[u].n < SeqMod
      <4> SUFFICES ASSUME NEW u \in Thread, pc[u] \in Numbered, call[u].key \notin lapped'
                   PROVE  taken + 1 - call[u].n < SeqMod
        OBVIOUS
      <4>1. ResultOf(call[u]) \in Outstanding
        BY DEF Outstanding, Running
      <4>2. ResultOf(call[u]).n = call[u].n /\ ResultOf(call[u]).key = call[u].key /\ call[u].n \in Nat
        BY DEF ResultOf, TypeOK, CallRecord
      <4>3. QED
        BY <3>1, <4>1, <4>2
    <3>3. \A r \in held : r.key \notin lapped' => taken + 1 - r.n < SeqMod
      BY <3>1 DEF Outstanding, TypeOK, Result
    <3>4. \A u \in Thread : \A r \in todo[u] : r.key \notin lapped' => taken + 1 - r.n < SeqMod
      BY <3>1 DEF Outstanding, Releasing, TypeOK, Result
    <3>5. ASSUME NEW r, r.n \in Nat, r.key \in Reqkey, Fits(r), taken + 1 - r.n < SeqMod
          PROVE  Fits(r)'
      BY <2>a, <3>5 DEF Fits, NextSeq, Reqkey, TypeOK
    <3>6. Fits(call[t])'
      BY <2>a, <2>b, <2>c DEF Fits, Reqkey, TypeOK
    <3>7. \A u \in Thread : u # t /\ pc[u] \in Numbered /\ call[u].key \notin lapped' => Fits(call[u])'
      BY <2>a, <3>1, <3>2, <3>5 DEF Ages, TypeOK, CallRecord, Fits
    <3>8. \A r \in held : r.key \notin lapped' => Fits(r)'
      BY <3>1, <3>3, <3>5 DEF Ages, TypeOK, Result
    <3>9. \A u \in Thread : \A r \in todo[u] : r.key \notin lapped' => Fits(r)'
      BY <3>1, <3>4, <3>5 DEF Ages, TypeOK, Result
    <3>10. QED
      BY <2>a, <3>6, <3>7, <3>8, <3>9 DEF Ages
  <2>7. Owned'
    <3>1. taken + 1 \notin live
      BY DEF Numbers, TypeOK
    <3>2. ASSUME NEW u \in Thread, pc'[u] \in Unregistered
          PROVE  (call[u].n \in live /\ \A k \in DOMAIN mfree : mfree[k] # call[u].n)'
      <4>1. CASE u = t
        <5>1. \A k \in DOMAIN mfree : mfree[k] # taken + 1
          BY <3>1 DEF TypeOK
        <5>2. QED
          BY <2>a, <2>c, <4>1, <5>1
      <4>2. CASE u # t
        BY <2>a, <3>2, <4>2 DEF Owned
      <4>3. QED
        BY <4>1, <4>2
    <3>3. ASSUME NEW n \in live', ~ \E k \in DOMAIN mfree' : mfree'[k] = n
          PROVE  \E u \in Thread : pc'[u] \in Unregistered /\ call'[u].n = n
      <4>1. CASE n = taken + 1
        BY <2>a, <2>c, <4>1 DEF Unregistered
      <4>2. CASE n \in live
        <5>1. PICK u \in Thread : pc[u] \in Unregistered /\ call[u].n = n
          BY <2>a, <3>3, <4>2 DEF Owned
        <5>2. u # t
          BY <2>a, <5>1 DEF Unregistered
        <5>3. QED
          BY <2>a, <5>1, <5>2
      <4>3. QED
        BY <2>a, <4>1, <4>2
    <3>4. (\A j, k \in DOMAIN mfree : mfree[j] = mfree[k] => j = k)'
      BY <2>a DEF Owned
    <3>5. QED
      BY <3>2, <3>3, <3>4 DEF Owned
  <2>8. Reachable'
    BY <1>3 DEF TakeKey, Reachable, TypeOK
  <2>9. Kept'
    BY <1>3 DEF TakeKey, ResultOf, TypeOK, Kept, Numbered, CallRecord, Entered
  <2>10. Opened'
    BY <1>3, <2>a, <2>c DEF TakeKey, Opened, Shape, TypeOK
  <2>11. DbHeld'
    BY <1>3 DEF TakeKey, DbHeld, TypeOK
  <2>12. QED
    BY <2>1, <2>2, <2>3, <2>4, <2>5, <2>6, <2>7, <2>8, <2>9, <2>10, <2>11
<1>4. ASSUME NEW t \in Thread, Open(t) PROVE ApiInv'
  <2>a. /\ pc[t] = "work" /\ pc'[t] = "lock" /\ call'[t].n = call[t].n /\ call'[t].key = call[t].key
        /\ call'[t].op = call[t].op /\ call'[t].db \in {call[t].db, call[t].n}
        /\ \A u \in Thread : u # t => pc'[u] = pc[u] /\ call'[u] = call[u]
        /\ UNCHANGED <<inited, seq, mu, mfree, live, todo, held, taken, lapped>>
    <3>1. call[t] \in CallRecord
      BY DEF TypeOK
    <3>2. QED
      BY <1>4, <3>1 DEF Open, Finish, TypeOK, CallRecord
  <2>b. \/ /\ dbs' = dbs \cup {call[t].n}
           /\ call' = [call EXCEPT ![t].mem = {"own"}, ![t].db = call[t].n]
        \/ UNCHANGED dbs /\ \E m \in Memory : call' = [call EXCEPT ![t].mem = {m}]
    BY <1>4 DEF Open, Finish, StringMemory, BytesOf, Memory
  <2>1. TypeOK'
    <3>1. call[t].n \in live
      BY <2>a DEF Owned, Unregistered
    <3>2. (call \in [Thread -> CallRecord])'
      <4>1. CASE call' = [call EXCEPT ![t].mem = {"own"}, ![t].db = call[t].n]
        <5>1. call[t] \in CallRecord /\ {"own"} \in SUBSET Memory
          BY DEF TypeOK, Memory
        <5>2. [call[t] EXCEPT !.mem = {"own"}, !.db = call[t].n] \in CallRecord
          BY <5>1 DEF CallRecord
        <5>3. call' = [call EXCEPT ![t] = [call[t] EXCEPT !.mem = {"own"}, !.db = call[t].n]]
          BY <4>1, <5>1 DEF TypeOK, CallRecord
        <5>4. QED
          BY <5>2, <5>3 DEF TypeOK
      <4>2. CASE \E m \in Memory : call' = [call EXCEPT ![t].mem = {m}]
        BY <4>2 DEF TypeOK, CallRecord
      <4>3. QED
        BY <2>b, <4>1, <4>2
    <3>3. (pc \in [Thread -> Pc] /\ \A u \in Thread : pc[u] \in Inside => mu = u)'
      BY <1>4 DEF Open, Finish, TypeOK, Pc, Numbered, Inside
    <3>4. QED
      BY <1>4, <3>1, <3>2, <3>3 DEF Open, TypeOK
  <2>2. Numbers'
    BY <1>4 DEF Open, Finish, TypeOK, Numbers, Numbered, CallRecord
  <2>3. Apart'
    <3>1. \A u \in Thread : (pc'[u] \in Numbered <=> pc[u] \in Numbered) /\ call'[u].n = call[u].n
      BY <2>a DEF Numbered
    <3>2. QED
      BY <2>a, <3>1 DEF Apart
  <2>4. Started'
    BY <1>4 DEF Open, Finish, TypeOK, Started, Numbered
  <2>5. Shape'
    BY <2>a DEF Shape
  <2>6. Ages'
    BY <1>4 DEF Open, Finish, TypeOK, Ages, Numbered, CallRecord, Fits
  <2>7. Owned'
    BY <1>4 DEF Open, Finish, TypeOK, Pc, Owned, Numbered, CallRecord, Unregistered
  <2>8. Reachable'
    BY <1>4 DEF Open, Finish, TypeOK, Reachable, Numbered
  <2>9. Kept'
    BY <1>4 DEF Open, Finish, TypeOK, Kept, Numbered, CallRecord, Entered
  <2>10. Opened'
    <3>1. dbs \subseteq dbs'
      BY <1>4 DEF Open
    <3>2. call'[t].db = call[t].db \/ call[t].n \in dbs'
      <4>1. ASSUME NEW m \in Memory, call' = [call EXCEPT ![t].mem = {m}]
            PROVE  call'[t].db = call[t].db
        BY <4>1 DEF TypeOK, CallRecord
      <4>2. QED
        BY <2>b, <4>1
    <3>3. QED
      BY <2>a, <3>1, <3>2 DEF Opened, Numbered
  <2>11. DbHeld'
    <3>1. ASSUME NEW u \in Thread, pc'[u] \in {"key"} \cup Numbered, call'[u].op # "open"
          PROVE  u # t /\ pc[u] \in {"key"} \cup Numbered /\ call[u].op # "open"
      BY <1>4, <2>a, <3>1 DEF Open
    <3>2. QED
      BY <2>a, <3>1 DEF DbHeld
  <2>12. QED
    BY <2>1, <2>2, <2>3, <2>4, <2>5, <2>6, <2>7, <2>8, <2>9, <2>10, <2>11
<1>5. ASSUME NEW t \in Thread, Work(t) PROVE ApiInv'
  <2>1. TypeOK'
    BY <1>5 DEF Work, Finish, Results, StringMemory, BytesOf, Memory, TypeOK, Pc, Numbered, Inside, CallRecord
  <2>2. Numbers'
    BY <1>5 DEF Work, Finish, TypeOK, Numbers, Numbered
  <2>3. Apart'
    BY <1>5 DEF Work, Finish, TypeOK, Apart, Numbered
  <2>4. Started'
    BY <1>5 DEF Work, Finish, TypeOK, Started, Numbered
  <2>5. Shape'
    BY <1>5 DEF Work, Finish, TypeOK, Shape, Numbered
  <2>6. Ages'
    BY <1>5 DEF Work, Finish, TypeOK, Ages, Numbered, CallRecord, Fits
  <2>7. Owned'
    BY <1>5 DEF Work, Finish, TypeOK, Owned, Numbered, CallRecord, Unregistered
  <2>8. Reachable'
    BY <1>5 DEF Work, Finish, TypeOK, Reachable, Numbered
  <2>9. Kept'
    BY <1>5 DEF Work, Finish, TypeOK, Kept, Numbered, CallRecord, Entered
  <2>10. Opened'
    BY <1>5 DEF Work, Finish, TypeOK, Opened, Numbered
  <2>11. DbHeld'
    BY <1>5 DEF Work, Finish, TypeOK, DbHeld, Numbered
  <2>12. QED
    BY <2>1, <2>2, <2>3, <2>4, <2>5, <2>6, <2>7, <2>8, <2>9, <2>10, <2>11
<1>6. ASSUME NEW t \in Thread, Get(t) PROVE ApiInv'
  <2>1. TypeOK'
    BY <1>6 DEF Get, TypeOK, Pc, Numbered, Inside
  <2>2. Numbers'
    BY <1>6 DEF Get, Numbers
  <2>3. Apart'
    BY <1>6 DEF Get, Apart
  <2>4. Started'
    BY <1>6 DEF Get, Started
  <2>5. Shape'
    BY <1>6 DEF Get, Shape
  <2>6. Ages'
    BY <1>6 DEF Get, TypeOK, Ages, Numbered, CallRecord, Fits
  <2>7. Owned'
    BY <1>6 DEF Get, Owned
  <2>8. Reachable'
    BY <1>6 DEF Get, Reachable
  <2>9. Kept'
    BY <1>6 DEF Get, TypeOK, Kept, Numbered, CallRecord, Entered
  <2>10. Opened'
    BY <1>6 DEF Get, Opened
  <2>11. DbHeld'
    BY <1>6 DEF Get, DbHeld
  <2>12. QED
    BY <2>1, <2>2, <2>3, <2>4, <2>5, <2>6, <2>7, <2>8, <2>9, <2>10, <2>11
<1>7. ASSUME NEW t \in Thread, LockMu(t) PROVE ApiInv'
  <2>1. TypeOK'
    BY <1>7 DEF LockMu, TypeOK, Pc, Numbered, Inside
  <2>2. Numbers'
    BY <1>7 DEF LockMu, TypeOK, Numbers, Numbered
  <2>3. Apart'
    BY <1>7 DEF LockMu, TypeOK, Apart, Numbered
  <2>4. Started'
    BY <1>7 DEF LockMu, TypeOK, Started, Numbered
  <2>5. Shape'
    BY <1>7 DEF LockMu, Shape
  <2>6. Ages'
    BY <1>7 DEF LockMu, TypeOK, Ages, Numbered, CallRecord, Fits
  <2>7. Owned'
    BY <1>7 DEF LockMu, TypeOK, Owned, Numbered, CallRecord, Unregistered
  <2>8. Reachable'
    BY <1>7 DEF LockMu, Reachable
  <2>9. Kept'
    BY <1>7 DEF LockMu, TypeOK, Kept, Numbered, CallRecord, Entered
  <2>10. Opened'
    BY <1>7 DEF LockMu, TypeOK, Opened, Numbered
  <2>11. DbHeld'
    BY <1>7 DEF LockMu, TypeOK, DbHeld, Numbered
  <2>12. QED
    BY <2>1, <2>2, <2>3, <2>4, <2>5, <2>6, <2>7, <2>8, <2>9, <2>10, <2>11
<1>8. ASSUME NEW t \in Thread, Register(t) PROVE ApiInv'
  <2> DEFINE c == call[t]
  <2>a. /\ pc[t] = "register" /\ pc'[t] = "return" /\ pc[t] \in Numbered /\ pc[t] \in Unregistered
        /\ \A u \in Thread : u # t => pc'[u] = pc[u]
        /\ mu = t /\ UNCHANGED <<inited, seq, mu, call, todo, held, taken, lapped>>
    BY <1>8 DEF Register, TypeOK, Numbered, Unregistered, Inside
  <2>b. c.key \in Reqkey /\ c.n \in live /\ \A k \in DOMAIN mfree : mfree[k] # c.n
    BY <2>a DEF Owned, TypeOK, CallRecord
  <2>c. \A u \in Thread : u # t => pc[u] # "return"
    BY <2>a DEF TypeOK, Inside
  <2>d. /\ DOMAIN mfree' = DOMAIN mfree \cup {c.key}
        /\ mfree'[c.key] = c.n
        /\ \A k \in DOMAIN mfree : k # c.key => mfree'[k] = mfree[k]
    BY <1>8 DEF Register
  <2>e. /\ c.key \notin DOMAIN mfree => live' = live /\ dbs' = dbs
        /\ c.key \in DOMAIN mfree => live' = live \ {mfree[c.key]} /\ dbs' = dbs \ {mfree[c.key]}
    BY <1>8 DEF Register, Destroyed
  <2>f. c.key \notin lapped => c.key \notin DOMAIN mfree
    <3> SUFFICES ASSUME c.key \notin lapped, c.key \in DOMAIN mfree PROVE FALSE
      OBVIOUS
    <3>1. Fits(c) /\ c.n \in 1 .. taken /\ c.key \in Reqkey
      BY <2>a DEF Ages, Numbers, TypeOK, CallRecord
    <3>2. ASSUME NEW r \in held, r.key = c.key PROVE FALSE
      <4>1. Fits(r) /\ r.n \in 1 .. taken /\ r.n # c.n
        BY <2>a, <3>2 DEF Ages, Apart, Numbers
      <4>2. QED
        BY <3>1, <3>2, <4>1, SameKey
    <3>3. ASSUME NEW u \in Thread, NEW r \in todo[u], r.key = c.key PROVE FALSE
      <4>1. Fits(r) /\ r.n \in 1 .. taken /\ r.n # c.n
        BY <2>a, <3>3 DEF Ages, Apart, Numbers
      <4>2. QED
        BY <3>1, <3>3, <4>1, SameKey
    <3>5. QED
      BY <2>a, <2>c, <3>2, <3>3 DEF Reachable
  <2>1. TypeOK'
    <3>1. (/\ live \subseteq Nat /\ dbs \subseteq live)'
      BY <2>e DEF TypeOK
    <3>2. (DOMAIN mfree \subseteq Reqkey)'
      BY <2>b, <2>d DEF TypeOK
    <3>3. (\A k \in DOMAIN mfree : mfree[k] \in live)'
      BY <2>b, <2>d, <2>e DEF TypeOK, Owned
    <3>4. (pc \in [Thread -> Pc] /\ \A u \in Thread : pc[u] \in Inside => mu = u)'
      BY <1>8, <2>a DEF Register, TypeOK, Pc, Numbered, Inside
    <3>5. QED
      BY <1>8, <3>1, <3>2, <3>3, <3>4 DEF Register, TypeOK
  <2>2. Numbers'
    BY <1>8 DEF Register, Destroyed, TypeOK, Numbers, Numbered
  <2>3. Apart'
    BY <1>8 DEF Register, Destroyed, TypeOK, Apart, Numbered
  <2>4. Started'
    BY <1>8 DEF Register, Destroyed, TypeOK, Started, Numbered
  <2>5. Shape'
    BY <1>8 DEF Register, Shape
  <2>6. Ages'
    BY <1>8 DEF Register, Destroyed, TypeOK, Ages, Numbered, CallRecord, Fits
  <2>7. Owned'
    <3>1. (\A j, k \in DOMAIN mfree : mfree[j] = mfree[k] => j = k)'
      BY <2>b, <2>d DEF Owned
    <3>2. ASSUME NEW u \in Thread, pc'[u] \in Unregistered
          PROVE  (call[u].n \in live /\ \A k \in DOMAIN mfree : mfree[k] # call[u].n)'
      <4>1. u # t /\ pc[u] \in Unregistered /\ pc[u] \in Numbered
        BY <2>a, <3>2 DEF Unregistered, Numbered
      <4>2. call[u].n # c.n
        BY <2>a, <4>1 DEF Apart
      <4>3. QED
        BY <2>a, <2>d, <2>e, <4>1, <4>2 DEF Owned
    <3>3. ASSUME NEW n \in live', ~ \E k \in DOMAIN mfree' : mfree'[k] = n
          PROVE  \E u \in Thread : pc'[u] \in Unregistered /\ call'[u].n = n
      <4>1. n \in live /\ n # c.n /\ ~ \E k \in DOMAIN mfree : mfree[k] = n
        BY <2>d, <2>e, <3>3
      <4>2. PICK u \in Thread : pc[u] \in Unregistered /\ call[u].n = n
        BY <4>1 DEF Owned
      <4>3. QED
        BY <2>a, <4>1, <4>2
    <3>4. QED
      BY <3>1, <3>2, <3>3 DEF Owned
  <2>8. Reachable'
    BY <2>a, <2>d DEF Reachable
  <2>g. ASSUME NEW s \in held, s.key \notin lapped PROVE s.key # c.key
    BY <2>f, <2>g DEF Kept, Entered
  <2>9. Kept'
    BY <2>a, <2>c, <2>d, <2>g DEF Kept, Entered
  <2>10. Opened'
    <3> SUFFICES ASSUME c.key \in DOMAIN mfree PROVE Opened'
      <4>1. \A u \in Thread : pc'[u] \in Numbered <=> pc[u] \in Numbered
        BY <2>a DEF Numbered
      <4>2. QED
        BY <2>a, <2>e, <4>1 DEF Opened
    <3>1. ASSUME NEW s \in held, s.key \notin lapped PROVE s.n # mfree[c.key]
      BY <2>g, <3>1 DEF Kept, Entered, Owned
    <3>2. ASSUME NEW u \in Thread, pc[u] \in Numbered PROVE call[u].n # mfree[c.key]
      BY <2>a, <2>c, <3>2 DEF Owned, Numbered, Unregistered
    <3>3. \A u \in Thread : pc'[u] \in Numbered <=> pc[u] \in Numbered
      BY <2>a DEF Numbered
    <3>4. QED
      BY <2>a, <2>e, <3>1, <3>2, <3>3 DEF Opened
  <2>11. DbHeld'
    BY <1>8 DEF Register, Destroyed, TypeOK, DbHeld, Numbered
  <2>12. QED
    BY <2>1, <2>2, <2>3, <2>4, <2>5, <2>6, <2>7, <2>8, <2>9, <2>10, <2>11
<1>9. ASSUME NEW t \in Thread, Return(t) PROVE ApiInv'
  <2> DEFINE r == ResultOf(call[t])
  <2>a. /\ pc[t] = "return" /\ pc'[t] = "idle" /\ pc[t] \in Numbered
        /\ \A u \in Thread : u # t => pc'[u] = pc[u] /\ call'[u] = call[u]
        /\ call'[t] = Idle /\ held' = held \cup {r}
        /\ UNCHANGED <<inited, seq, mfree, live, dbs, todo, taken, lapped>>
    BY <1>9 DEF Return, TypeOK, Numbered
  <2>b. r \in Result /\ r.n = call[t].n /\ r.key = call[t].key
    BY DEF ResultOf, Result, TypeOK, CallRecord
  <2>1. TypeOK'
    <3>1. Idle \in CallRecord
      BY DEF CallRecord, Reqkey
    <3>2. (call \in [Thread -> CallRecord] /\ held \subseteq Result)'
      BY <1>9, <2>b, <3>1 DEF Return, TypeOK
    <3>3. (mu \in Thread \cup {None} /\ pc \in [Thread -> Pc] /\ \A u \in Thread : pc[u] \in Inside => mu = u)'
      BY <1>9 DEF Return, TypeOK, Pc, Numbered, Inside
    <3>4. QED
      BY <1>9, <3>2, <3>3 DEF Return, TypeOK
  <2>2. Numbers'
    BY <1>9 DEF Return, ResultOf, TypeOK, Numbers, Numbered
  <2>3. Apart'
    BY <1>9 DEF Return, ResultOf, TypeOK, Apart, Numbered
  <2>4. Started'
    BY <1>9 DEF Return, ResultOf, TypeOK, Started, Numbered
  <2>5. Shape'
    BY <1>9 DEF Return, Shape, TypeOK
  <2>6. Ages'
    BY <1>9 DEF Return, ResultOf, TypeOK, Ages, Numbered, CallRecord, Fits
  <2>7. Owned'
    BY <1>9 DEF Return, ResultOf, TypeOK, Owned, Numbered, CallRecord, Unregistered
  <2>8. Reachable'
    BY <2>a, <2>b DEF Reachable
  <2>9. Kept'
    BY <1>9 DEF Return, ResultOf, TypeOK, Kept, Numbered, CallRecord, Entered
  <2>10. Opened'
    BY <1>9 DEF Return, ResultOf, TypeOK, Opened, Numbered
  <2>11. DbHeld'
    BY <1>9 DEF Return, ResultOf, TypeOK, DbHeld, Numbered
  <2>12. QED
    BY <2>1, <2>2, <2>3, <2>4, <2>5, <2>6, <2>7, <2>8, <2>9, <2>10, <2>11
<1>10. ASSUME NEW t \in Thread, Release(t) PROVE ApiInv'
  <2>a. PICK rs \in SUBSET held : /\ \A r \in rs : ~ InUse(r)
                               /\ todo' = [todo EXCEPT ![t] = rs] /\ held' = held \ rs
    BY <1>10 DEF Release
  <2>b. /\ pc[t] = "idle" /\ pc'[t] = "release" /\ \A u \in Thread : u # t => pc'[u] = pc[u]
        /\ UNCHANGED <<inited, seq, mfree, live, dbs, call, taken, lapped>>
    BY <1>10 DEF Release, TypeOK
  <2>1. TypeOK'
    BY <1>10 DEF Release, TypeOK, Pc, Numbered, Inside
  <2>2. Numbers'
    BY <1>10 DEF Release, TypeOK, Numbers, Numbered
  <2>3. Apart'
    BY <1>10 DEF Release, TypeOK, Apart, Numbered
  <2>4. Started'
    BY <1>10 DEF Release, TypeOK, Started, Numbered
  <2>5. Shape'
    BY <1>10 DEF Release, Shape, TypeOK
  <2>6. Ages'
    BY <1>10 DEF Release, TypeOK, Ages, Numbered, CallRecord, Fits
  <2>7. Owned'
    BY <1>10 DEF Release, TypeOK, Owned, Numbered, CallRecord, Unregistered
  <2>8. Reachable'
    <3>1. \A u \in Thread : u # t => todo'[u] = todo[u]
      BY <2>a DEF TypeOK
    <3>2. todo'[t] = rs
      BY <2>a DEF TypeOK
    <3>3. todo[t] = {}
      BY <2>b DEF Shape
    <3>4. QED
      BY <2>a, <2>b, <3>1, <3>2, <3>3 DEF Reachable
  <2>9. Kept'
    BY <1>10 DEF Release, TypeOK, Kept, Numbered, CallRecord, Entered
  <2>10. Opened'
    BY <1>10 DEF Release, TypeOK, Opened, Numbered
  <2>11. DbHeld'
    BY <1>10 DEF Release, InUse, TypeOK, DbHeld, Pc, Numbered, Result
  <2>12. QED
    BY <2>1, <2>2, <2>3, <2>4, <2>5, <2>6, <2>7, <2>8, <2>9, <2>10, <2>11
<1>11. ASSUME NEW t \in Thread, LockRelease(t) PROVE ApiInv'
  <2>1. TypeOK'
    BY <1>11 DEF LockRelease, TypeOK, Pc, Numbered, Inside
  <2>2. Numbers'
    BY <1>11 DEF LockRelease, TypeOK, Numbers, Numbered
  <2>3. Apart'
    BY <1>11 DEF LockRelease, TypeOK, Apart, Numbered
  <2>4. Started'
    BY <1>11 DEF LockRelease, TypeOK, Started, Numbered
  <2>5. Shape'
    BY <1>11 DEF LockRelease, Shape
  <2>6. Ages'
    BY <1>11 DEF LockRelease, TypeOK, Ages, Numbered, CallRecord, Fits
  <2>7. Owned'
    BY <1>11 DEF LockRelease, TypeOK, Owned, Numbered, CallRecord, Unregistered
  <2>8. Reachable'
    BY <1>11 DEF LockRelease, Reachable
  <2>9. Kept'
    BY <1>11 DEF LockRelease, TypeOK, Kept, Numbered, CallRecord, Entered
  <2>10. Opened'
    BY <1>11 DEF LockRelease, TypeOK, Opened, Numbered
  <2>11. DbHeld'
    BY <1>11 DEF LockRelease, TypeOK, DbHeld, Numbered
  <2>12. QED
    BY <2>1, <2>2, <2>3, <2>4, <2>5, <2>6, <2>7, <2>8, <2>9, <2>10, <2>11
<1>12. ASSUME NEW t \in Thread, Erase(t) PROVE ApiInv'
  <2>a. PICK r \in todo[t] :
          /\ Destroyed({mfree[k] : k \in DOMAIN mfree \cap {r.key}})
          /\ mfree' = Restrict(mfree, DOMAIN mfree \ {r.key})
          /\ todo' = [todo EXCEPT ![t] = @ \ {r}]
    BY <1>12 DEF Erase
  <2>b. UNCHANGED <<inited, seq, mu, pc, call, held, taken, lapped>> /\ r \in Result /\ pc[t] = "erase"
    BY <1>12, <2>a DEF Erase, TypeOK
  <2>c. /\ DOMAIN mfree' = DOMAIN mfree \ {r.key}
        /\ \A k \in DOMAIN mfree : k # r.key => mfree'[k] = mfree[k]
    BY <2>a DEF Restrict
  <2>d. /\ r.key \notin DOMAIN mfree => live' = live /\ dbs' = dbs
        /\ r.key \in DOMAIN mfree => live' = live \ {mfree[r.key]} /\ dbs' = dbs \ {mfree[r.key]}
    BY <2>a DEF Destroyed
  <2>e. \A u \in Thread : todo'[u] \subseteq todo[u]
    BY <2>a DEF TypeOK
  <2>f. ASSUME NEW s \in held, s.key \notin lapped PROVE s.key # r.key
    <3> SUFFICES ASSUME s.key = r.key PROVE FALSE
      OBVIOUS
    <3>1. Fits(s) /\ Fits(r) /\ s.n # r.n /\ s.n \in 1 .. taken /\ r.n \in 1 .. taken
      BY <2>a, <2>f DEF Ages, Apart, Numbers
    <3>2. s.key \in Reqkey /\ r.key \in Reqkey
      BY <2>b DEF Result, TypeOK
    <3>3. QED
      BY <3>1, <3>2, SameKey
  <2>g. \A u \in Thread : pc[u] # "return"
    BY <2>b DEF TypeOK, Inside
  <2>1. TypeOK'
    <3>1. (/\ live \subseteq Nat /\ dbs \subseteq live /\ todo \in [Thread -> SUBSET Result])'
      BY <2>a, <2>d DEF TypeOK
    <3>2. (DOMAIN mfree \subseteq Reqkey /\ \A k \in DOMAIN mfree : mfree[k] \in live)'
      BY <2>c, <2>d DEF TypeOK, Owned
    <3>3. QED
      BY <1>12, <2>b, <3>1, <3>2 DEF Erase, TypeOK
  <2>2. Numbers'
    BY <2>b, <2>d, <2>e DEF Numbers
  <2>3. Apart'
    BY <1>12 DEF Erase, Apart
  <2>4. Started'
    BY <1>12 DEF Erase, Started
  <2>5. Shape'
    BY <1>12 DEF Erase, Shape
  <2>6. Ages'
    BY <1>12 DEF Erase, Destroyed, Restrict, TypeOK, Ages, Numbered, CallRecord, Fits
  <2>7. Owned'
    <3>1. (\A j, k \in DOMAIN mfree : mfree[j] = mfree[k] => j = k)'
      BY <2>c DEF Owned
    <3>2. ASSUME NEW u \in Thread, pc'[u] \in Unregistered
          PROVE  (call[u].n \in live /\ \A k \in DOMAIN mfree : mfree[k] # call[u].n)'
      BY <2>b, <2>c, <2>d, <3>2 DEF Owned
    <3>3. ASSUME NEW n \in live', ~ \E k \in DOMAIN mfree' : mfree'[k] = n
          PROVE  \E u \in Thread : pc'[u] \in Unregistered /\ call'[u].n = n
      BY <2>b, <2>c, <2>d, <3>3 DEF Owned
    <3>4. QED
      BY <3>1, <3>2, <3>3 DEF Owned
  <2>8. Reachable'
    BY <1>12 DEF Erase, Destroyed, Restrict, TypeOK, Reachable, Numbered
  <2>9. Kept'
    BY <2>b, <2>c, <2>f, <2>g DEF Kept, Entered
  <2>10. Opened'
    <3> SUFFICES ASSUME r.key \in DOMAIN mfree PROVE Opened'
      BY <2>b, <2>d DEF Opened
    <3>1. ASSUME NEW s \in held, s.key \notin lapped PROVE s.n # mfree[r.key]
      BY <2>f, <3>1 DEF Kept, Entered, Owned
    <3>2. ASSUME NEW u \in Thread, pc[u] \in Numbered PROVE call[u].n # mfree[r.key]
      BY <2>g, <3>2 DEF Owned, Numbered, Unregistered
    <3>3. QED
      BY <2>b, <2>d, <3>1, <3>2 DEF Opened
  <2>11. DbHeld'
    BY <1>12 DEF Erase, DbHeld
  <2>12. QED
    BY <2>1, <2>2, <2>3, <2>4, <2>5, <2>6, <2>7, <2>8, <2>9, <2>10, <2>11
<1>13. ASSUME NEW t \in Thread, Released(t) PROVE ApiInv'
  <2>1. TypeOK'
    BY <1>13 DEF Released, TypeOK, Pc, Numbered, Inside
  <2>2. Numbers'
    BY <1>13 DEF Released, TypeOK, Numbers, Numbered
  <2>3. Apart'
    BY <1>13 DEF Released, TypeOK, Apart, Numbered
  <2>4. Started'
    BY <1>13 DEF Released, TypeOK, Started, Numbered
  <2>5. Shape'
    BY <1>13 DEF Released, Shape
  <2>6. Ages'
    BY <1>13 DEF Released, TypeOK, Ages, Numbered, CallRecord, Fits
  <2>7. Owned'
    BY <1>13 DEF Released, TypeOK, Owned, Numbered, CallRecord, Unregistered
  <2>8. Reachable'
    BY <1>13 DEF Released, Reachable
  <2>9. Kept'
    BY <1>13 DEF Released, TypeOK, Kept, Numbered, CallRecord, Entered
  <2>10. Opened'
    BY <1>13 DEF Released, TypeOK, Opened, Numbered
  <2>11. DbHeld'
    BY <1>13 DEF Released, TypeOK, DbHeld, Numbered
  <2>12. QED
    BY <2>1, <2>2, <2>3, <2>4, <2>5, <2>6, <2>7, <2>8, <2>9, <2>10, <2>11
<1>14. CASE UNCHANGED vars
  BY <1>14 DEF vars, TypeOK, Numbers, Apart, Started, Shape, Ages, Owned, Reachable, Kept, Opened,
               DbHeld, Fits, Entered
<1>15. QED
  BY <1>1, <1>2, <1>3, <1>4, <1>5, <1>6, <1>7, <1>8, <1>9, <1>10, <1>11, <1>12, <1>13, <1>14 DEF Next, Step

----------------------------------------------------------------------------
LEMMA ApiInit == Init => ApiInv
<1> SUFFICES ASSUME Init PROVE ApiInv
  OBVIOUS
<1> USE ApiAssumption DEF Init
<1>1. Idle \in CallRecord
  BY DEF Idle, CallRecord, Reqkey
<1>2. TypeOK
  <2>1. DOMAIN mfree = {}
    OBVIOUS
  <2>2. pc \in [Thread -> Pc] /\ \A t \in Thread : pc[t] \notin Inside
    BY DEF Pc, Inside
  <2>3. seq \in Reqkey /\ calls \in 0 .. MaxCalls
    BY DEF Reqkey
  <2>4. QED
    BY <1>1, <2>1, <2>2, <2>3 DEF TypeOK
<1>3. Numbers /\ Apart /\ Started /\ Ages /\ Kept /\ Opened /\ DbHeld
  BY DEF Numbers, Apart, Started, Ages, Kept, Opened, DbHeld, Numbered
<1>4. Shape
  BY DEF Shape, Idle
<1>5. Owned /\ Reachable
  BY DEF Owned, Reachable, Unregistered
<1>6. QED
  BY <1>2, <1>3, <1>4, <1>5 DEF ApiInv

\* The invariant holds in every state that threads calling the API reach.
THEOREM ApiInvariant == Spec => []ApiInv
BY ApiInit, ApiStep, PTL DEF Spec

\* Every variable has its type, and mfree is touched under mu only.
THEOREM TypeCorrect == Spec => []TypeOK
<1>1. ApiInv => TypeOK
  BY DEF ApiInv
<1>2. QED
  BY <1>1, ApiInvariant, PTL

\* What a call returned in its freeinfo is there until its key is released, unless seq
\* has come round to this very key while it was in use.
THEOREM HeldStaysLiveAlways == Spec => []HeldStaysLive
<1>1. ApiInv => HeldStaysLive
  BY DEF ApiInv, HeldStaysLive, Kept, Entered, TypeOK
<1>2. QED
  BY <1>1, ApiInvariant, PTL

\* A call finds its database open, however many others are opened and released
\* meanwhile, unless seq has come round to its own key.
THEOREM HandlesOpenAlways == Spec => []HandlesOpen
<1>1. ApiInv => HandlesOpen
  <2> SUFFICES ASSUME ApiInv, NEW t \in Thread, pc[t] \in {"key", "work"}, call[t].op # "open"
               PROVE  \E h \in held :
                          h.opened /\ h.n = call[t].db /\ (h.key \in lapped \/ h.n \in dbs)
    BY DEF HandlesOpen
  <2>1. PICK h \in held : h.opened /\ h.n = call[t].db
    BY DEF ApiInv, DbHeld, Numbered
  <2>2. h.key \in lapped \/ h.n \in dbs
    BY <2>1 DEF ApiInv, Opened
  <2>3. QED
    BY <2>1, <2>2
<1>2. QED
  BY <1>1, ApiInvariant, PTL

\* What exists is owned by a call in progress or can be released, unconditionally.
THEOREM NothingLeaksEver == Spec => []NothingLeaks
<1>1. ASSUME ApiInv PROVE NothingLeaks
  <2> SUFFICES ASSUME NEW n \in live, \A r \in Running : r.n # n
               PROVE  \E r \in Outstanding : r.key \in DOMAIN mfree /\ mfree[r.key] = n
    BY DEF NothingLeaks
  <2>1. \A t \in Thread : pc[t] \in Numbered =>
            /\ ResultOf(call[t]) \in Running
            /\ ResultOf(call[t]).n = call[t].n /\ ResultOf(call[t]).key = call[t].key
    BY DEF Running, ResultOf
  <2>2. \A t \in Thread : pc[t] \in Unregistered => call[t].n # n
    BY <2>1 DEF Unregistered, Numbered
  <2>3. PICK k \in DOMAIN mfree : mfree[k] = n
    BY <1>1, <2>2 DEF ApiInv, Owned
  <2>4. \E r \in Outstanding : r.key = k
    BY <1>1, <2>1 DEF ApiInv, Reachable, Outstanding, Releasing, Numbered
  <2>5. QED
    BY <2>3, <2>4
<1>2. QED
  BY <1>1, ApiInvariant, PTL

(***************************************************************************)
(* A call or a release is short and waits for one that waits for nothing.  *)
(***************************************************************************)
MuHeld == \A t \in Thread : mu = t => pc[t] \in Inside

Finite == IsFiniteSet(held) /\ \A t \in Thread : IsFiniteSet(todo[t])

LEMMA MuStep == TypeOK /\ MuHeld /\ [Next]_vars => MuHeld'
<1> SUFFICES ASSUME TypeOK, MuHeld, [Next]_vars PROVE MuHeld'
  OBVIOUS
<1>1. pc \in [Thread -> Pc] /\ None \notin Thread
  BY ApiAssumption DEF TypeOK
<1>2. CASE UNCHANGED vars
  BY <1>2 DEF MuHeld, vars
<1>3. ASSUME NEW t \in Thread, mu' = mu, NEW l, pc' = [pc EXCEPT ![t] = l],
             pc[t] \in Inside => l \in Inside
      PROVE  MuHeld'
  BY <1>1, <1>3 DEF MuHeld
<1>4. ASSUME NEW t \in Thread, mu' = t, NEW l \in Inside, pc' = [pc EXCEPT ![t] = l] PROVE MuHeld'
  BY <1>1, <1>4 DEF MuHeld
<1>5. mu' = None => MuHeld'
  BY <1>1 DEF MuHeld
<1>6. ASSUME NEW t \in Thread, Invoke(t) \/ Release(t) PROVE MuHeld'
  BY <1>3, <1>6 DEF Invoke, Release, Goto, Inside
<1>7. ASSUME NEW t \in Thread, Step(t) PROVE MuHeld'
  <2>1. CASE InitOnce(t) \/ TakeKey(t) \/ Open(t) \/ Work(t) \/ Register(t)
    BY <1>3, <2>1 DEF InitOnce, TakeKey, Open, Work, Register, Finish, Goto, Inside
  <2>2. CASE Get(t) \/ Erase(t)
    BY <2>2 DEF Get, Erase, MuHeld
  <2>3. CASE LockMu(t) \/ LockRelease(t)
    BY <1>4, <2>3 DEF LockMu, LockRelease, Goto, Inside
  <2>4. CASE Return(t) \/ Released(t)
    BY <1>5, <2>4 DEF Return, Released
  <2>5. QED
    BY <1>7, <2>1, <2>2, <2>3, <2>4 DEF Step
<1>8. QED
  BY <1>2, <1>6, <1>7 DEF Next

LEMMA FiniteStep == TypeOK /\ Finite /\ [Next]_vars => Finite'
<1> SUFFICES ASSUME TypeOK, Finite, [Next]_vars PROVE Finite'
  OBVIOUS
<1>1. todo \in [Thread -> SUBSET Result]
  BY DEF TypeOK
<1>2. CASE UNCHANGED <<held, todo>>
  BY <1>2 DEF Finite
<1>3. ASSUME NEW t \in Thread, Return(t) PROVE Finite'
  <2>1. held' = held \cup {ResultOf(call[t])} /\ todo' = todo
    BY <1>3 DEF Return
  <2>2. QED
    BY <2>1, FS_AddElement DEF Finite
<1>4. ASSUME NEW t \in Thread, Release(t) PROVE Finite'
  <2>1. PICK rs \in SUBSET held : todo' = [todo EXCEPT ![t] = rs] /\ held' = held \ rs
    BY <1>4 DEF Release
  <2>2. IsFiniteSet(rs) /\ IsFiniteSet(held \ rs)
    BY FS_Subset DEF Finite
  <2>3. QED
    BY <1>1, <2>1, <2>2 DEF Finite
<1>5. ASSUME NEW t \in Thread, Erase(t) PROVE Finite'
  <2>1. PICK r \in todo[t] : todo' = [todo EXCEPT ![t] = todo[t] \ {r}] /\ held' = held
    BY <1>5 DEF Erase
  <2>2. IsFiniteSet(todo[t] \ {r})
    BY FS_Subset DEF Finite
  <2>3. QED
    BY <1>1, <2>1, <2>2 DEF Finite
<1>6. QED
  BY <1>2, <1>3, <1>4, <1>5
     DEF Next, vars, Invoke, Step, InitOnce, TakeKey, Open, Work, Get, LockMu, Register, LockRelease, Released

\* No fewer than the steps that are left to t.
StepsLeft(t) ==
    CASE pc[t] = "init"     -> 6
      [] pc[t] = "key"      -> 5
      [] pc[t] = "work"     -> 4
      [] pc[t] = "lock"     -> 3
      [] pc[t] = "register" -> 2
      [] pc[t] = "return"   -> 1
      [] pc[t] = "release"  -> Cardinality(todo[t]) + 2
      [] pc[t] = "erase"    -> Cardinality(todo[t]) + 1
      [] pc[t] = "idle"     -> 0

\* mu is free, or a thread has it that is past the wait for it.
WaitsForRunning(t) ==
    pc[t] \in {"lock", "release"} => mu = None \/ \E u \in Thread \ {t} : mu = u /\ pc[u] \in Inside

LEMMA StepNearer ==
    ASSUME TypeOK, Finite, NEW t \in Thread, Step(t)
    PROVE  /\ aborted' \/ StepsLeft(t)' < StepsLeft(t)
           /\ \A u \in Thread \ {t} : StepsLeft(u)' = StepsLeft(u)
<1>1. pc \in [Thread -> Pc] /\ todo \in [Thread -> SUBSET Result]
  BY DEF TypeOK
<1>2. Cardinality(todo[t]) \in Nat
  BY FS_CardinalityType DEF Finite
<1>3. CASE Get(t)
  <2>1. aborted' /\ pc' = pc /\ todo' = todo
    BY <1>3 DEF Get
  <2>2. QED
    BY <2>1 DEF StepsLeft
<1>4. CASE Erase(t)
  <2>1. PICK r \in todo[t] : todo' = [todo EXCEPT ![t] = todo[t] \ {r}] /\ pc' = pc /\ pc[t] = "erase"
    BY <1>4 DEF Erase
  <2>2. Cardinality(todo[t] \ {r}) = Cardinality(todo[t]) - 1
    BY FS_RemoveElement DEF Finite
  <2>3. todo'[t] = todo[t] \ {r} /\ \A u \in Thread \ {t} : todo'[u] = todo[u]
    BY <1>1, <2>1
  <2>4. StepsLeft(t) = Cardinality(todo[t]) + 1 /\ StepsLeft(t)' = Cardinality(todo[t] \ {r}) + 1
    BY <2>1, <2>3 DEF StepsLeft
  <2>5. \A u \in Thread \ {t} : StepsLeft(u)' = StepsLeft(u)
    BY <2>1, <2>3 DEF StepsLeft
  <2>6. QED
    BY <1>2, <2>2, <2>4, <2>5
<1>5. CASE ~ Get(t) /\ ~ Erase(t)
  <2>1. PICK l : /\ pc' = [pc EXCEPT ![t] = l] /\ todo' = todo
                 /\ <<pc[t], l>> \in {<<"init", "key">>, <<"key", "work">>, <<"work", "lock">>,
                                      <<"lock", "register">>, <<"register", "return">>, <<"return", "idle">>,
                                      <<"release", "erase">>, <<"erase", "idle">>}
    BY <1>5 DEF Step, InitOnce, TakeKey, Open, Work, LockMu, Register, Return, LockRelease, Released,
                Finish, Goto
  <2>2. pc'[t] = l /\ \A u \in Thread \ {t} : pc'[u] = pc[u]
    BY <1>1, <2>1
  <2>3. \A u \in Thread \ {t} : StepsLeft(u)' = StepsLeft(u)
    BY <2>1, <2>2 DEF StepsLeft
  <2>4. StepsLeft(t)' < StepsLeft(t)
    BY <1>2, <2>1, <2>2 DEF StepsLeft
  <2>5. QED
    BY <2>3, <2>4
<1>6. QED
  BY <1>3, <1>4, <1>5

\* Unless the program ends, a call takes six steps at most and a release two more
\* than it has keys, and no step of another thread gives it more; and when mu is
\* not free, a thread has it that waits for nothing and will release it.
THEOREM CallShort ==
    Spec => /\ [](\A t \in Thread : WaitsForRunning(t))
            /\ [][\A t \in Thread : Step(t) =>
                    /\ aborted' \/ StepsLeft(t)' < StepsLeft(t)
                    /\ \A u \in Thread \ {t} : StepsLeft(u)' = StepsLeft(u)]_vars
<1>1. TypeOK /\ MuHeld => \A t \in Thread : WaitsForRunning(t)
  <2> SUFFICES ASSUME TypeOK, MuHeld, NEW t \in Thread PROVE WaitsForRunning(t)
    OBVIOUS
  <2>1. mu \in Thread \cup {None} /\ \A u \in Thread : mu = u => pc[u] \in Inside
    BY DEF TypeOK, MuHeld
  <2>2. QED
    BY <2>1 DEF WaitsForRunning, Inside
<1>2. TypeOK /\ Finite => \A t \in Thread : Step(t) =>
                            /\ aborted' \/ StepsLeft(t)' < StepsLeft(t)
                            /\ \A u \in Thread \ {t} : StepsLeft(u)' = StepsLeft(u)
  BY StepNearer
<1>3. Init => MuHeld
  BY ApiAssumption DEF Init, MuHeld
<1>4. Init => Finite
  BY FS_EmptySet DEF Init, Finite
<1>5. Spec => []TypeOK
  BY TypeCorrect
<1>6. Spec => Init /\ [][Next]_vars
  BY DEF Spec
<1>7. QED
  BY <1>1, <1>2, <1>3, <1>4, <1>5, <1>6, MuStep, FiniteStep, PTL

=============================================================================
