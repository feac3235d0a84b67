-------------------------------- MODULE Ndb --------------------------------
(***************************************************************************)
(* Class Ndb (ugorji/ndb/ndb.cc): one RocksDB database shared by all the   *)
(* threads of the server or of the program that loaded libndb.             *)
(*                                                                         *)
(* Each access to RocksDB is one atomic step: Get, Put and Write of a      *)
(* batch are atomic in RocksDB, MultiGet reads one view.  update and gets  *)
(* make one access; incrdecr makes two, a Get and a Put, under a lock on   *)
(* the key taken from locks_ (ugorji::util::LockSet, one lock per key).    *)
(* Any access may fail.  A crash of the process loses the threads and the  *)
(* locks and keeps the content: wopt_.sync is 0, so that the log is in the *)
(* kernel's hands (a crash of the machine is not modelled).                *)
(***************************************************************************)
EXTENDS NdbData

CONSTANTS
    None,       \* the holder of a free lock
    MaxCalls,   \* bound on the number of calls
    MaxCrashes  \* bound on the number of crashes

VARIABLES
    db,      \* content of db_
    locks,   \* locks_: the thread that holds each key's lock
    pc,      \* where each thread is in the call it makes
    call,    \* the arguments of that call
    next,    \* the local v of incrdecr, once stepped
    answer,  \* what the call left in its output parameters
    issued,  \* history: the values incrdecr has stored under each key
    calls,   \* number of calls made so far
    crashes  \* number of crashes so far

vars == <<db, locks, pc, call, next, answer, issued, calls, crashes>>

ASSUME BoundsAssumption == None \notin Thread /\ MaxCalls \in Nat /\ MaxCrashes \in Nat

Held == {"read", "put", "unlock"}
Pc   == {"idle", "lock", "write", "multiget", "reply"} \cup Held

----------------------------------------------------------------------------
Init ==
    /\ db = InitDb
    /\ locks = [k \in Key |-> None]
    /\ pc = [t \in Thread |-> "idle"]
    /\ call = [t \in Thread |-> NoCall]
    /\ next = [t \in Thread |-> 0]
    /\ answer = [t \in Thread |-> <<>>]
    /\ issued = [k \in Key |-> <<>>]
    /\ calls = 0
    /\ crashes = 0

Goto(t, l) == pc' = [pc EXCEPT ![t] = l]

Finish(t, a, l) ==
    /\ answer' = [answer EXCEPT ![t] = a]
    /\ Goto(t, l)

\* A thread enters gets, update or incrdecr.
Invoke(t) ==
    /\ pc[t] = "idle"
    /\ calls < MaxCalls
    /\ \E c \in Call :
        /\ call' = [call EXCEPT ![t] = c]
        /\ \/ c.op = "incrdecr" /\ Goto(t, "lock")
           \/ c.op = "update" /\ Goto(t, "write")
           \/ c.op = "gets" /\ Goto(t, "multiget")
    /\ calls' = calls + 1
    /\ UNCHANGED <<db, locks, next, answer, issued, crashes>>

\* Fault: the lock is taken without waiting for it to be free.
LockBusyKey(t) ==
    /\ pc[t] = "lock"
    /\ locks' = [locks EXCEPT ![call[t].key] = t]
    /\ Goto(t, "read")
    /\ UNCHANGED <<db, call, next, answer, issued, calls, crashes>>

\* locks_.locksFor(skeys, ls) blocks until the key's lock is free.
LockKey(t) ==
    LET k == call[t].key
    IN  /\ pc[t] = "lock"
        /\ locks[k] = None
        /\ locks' = [locks EXCEPT ![k] = t]
        /\ Goto(t, "read")
        /\ UNCHANGED <<db, call, next, answer, issued, calls, crashes>>

\* db_->Get and the new value, or an early return with an error.
ReadCounter(t) ==
    LET stored == db[call[t].key]
    IN  /\ pc[t] = "read"
        /\ \/ /\ Finish(t, Error("fault"), "unlock")
              /\ UNCHANGED next
           \/ /\ stored \in Blob
              /\ Finish(t, Error("bad_size"), "unlock")
              /\ UNCHANGED next
           \/ /\ stored \notin Blob
              /\ next' = [next EXCEPT ![t] = Stepped(call[t], stored)]
              /\ Goto(t, "put")
              /\ UNCHANGED answer
        /\ UNCHANGED <<db, locks, call, issued, calls, crashes>>

\* Fault: the status of the Put is not looked at.
PutUnchecked(t) ==
    LET k == call[t].key
        v == next[t]
    IN  /\ pc[t] = "put"
        /\ \/ UNCHANGED <<db, issued>>
           \/ db' = [db EXCEPT ![k] = v] /\ issued' = [issued EXCEPT ![k] = Append(@, v)]
        /\ Finish(t, Ok(v), "unlock")
        /\ UNCHANGED <<locks, call, next, calls, crashes>>

\* db_->Put of the eight bytes.
PutCounter(t) ==
    LET k == call[t].key
        v == next[t]
    IN  /\ pc[t] = "put"
        /\ \/ /\ Finish(t, Error("fault"), "unlock")
              /\ UNCHANGED <<db, issued>>
           \/ /\ db' = [db EXCEPT ![k] = v]
              /\ issued' = [issued EXCEPT ![k] = Append(@, v)]
              /\ Finish(t, Ok(v), "unlock")
        /\ UNCHANGED <<locks, call, next, calls, crashes>>

\* Fault: an early return that does not unlock.
UnlockOnSuccess(t) ==
    /\ pc[t] = "unlock"
    /\ locks' = IF answer[t][1].status = "ok" THEN [locks EXCEPT ![call[t].key] = None] ELSE locks
    /\ Goto(t, "reply")
    /\ UNCHANGED <<db, call, next, answer, issued, calls, crashes>>

\* The destructor of the LockSetLock, on every return of incrdecr.
UnlockKey(t) ==
    /\ pc[t] = "unlock"
    /\ locks' = [locks EXCEPT ![call[t].key] = None]
    /\ Goto(t, "reply")
    /\ UNCHANGED <<db, call, next, answer, issued, calls, crashes>>

\* update: db_->Write of the whole batch, under no lock.
Write(t) ==
    /\ pc[t] = "write"
    /\ \/ /\ db' = Applied(db, Batch(call[t]))
          /\ Finish(t, Ok(Absent), "reply")
       \/ /\ Finish(t, Error("fault"), "reply")
          /\ UNCHANGED db
    /\ UNCHANGED <<locks, call, next, issued, calls, crashes>>

\* gets: db_->MultiGet, under no lock.
MultiGet(t) ==
    /\ pc[t] = "multiget"
    /\ \E a \in ReadAnswers(call[t], db) : Finish(t, a, "reply")
    /\ UNCHANGED <<db, locks, call, next, issued, calls, crashes>>

\* The call returns and its locals die.
Return(t) ==
    /\ pc[t] = "reply"
    /\ Goto(t, "idle")
    /\ call' = [call EXCEPT ![t] = NoCall]
    /\ next' = [next EXCEPT ![t] = 0]
    /\ answer' = [answer EXCEPT ![t] = <<>>]
    /\ UNCHANGED <<db, locks, issued, calls, crashes>>

\* The process dies and is started again; the database is reopened.
Crash ==
    /\ crashes < MaxCrashes
    /\ pc' = [t \in Thread |-> "idle"]
    /\ locks' = [k \in Key |-> None]
    /\ call' = [t \in Thread |-> NoCall]
    /\ next' = [t \in Thread |-> 0]
    /\ answer' = [t \in Thread |-> <<>>]
    /\ crashes' = crashes + 1
    /\ UNCHANGED <<db, issued, calls>>

Step(t) ==
    \/ LockKey(t)
    \/ ReadCounter(t)
    \/ PutCounter(t)
    \/ UnlockKey(t)
    \/ Write(t)
    \/ MultiGet(t)
    \/ Return(t)

Next == (\E t \in Thread : Invoke(t) \/ Step(t)) \/ Crash

Spec == Init /\ [][Next]_vars

\* Every thread keeps running, and takes a lock that stays free.
FairSpec == Spec /\ \A t \in Thread : WF_vars(Step(t))

----------------------------------------------------------------------------
(***************************************************************************)
(* Properties.                                                             *)
(***************************************************************************)

\* Every variable has its type; next stays inside uint64_t.
TypeOK ==
    /\ db \in [Key -> Stored]
    /\ locks \in [Key -> Thread \cup {None}]
    /\ pc \in [Thread -> Pc]
    /\ call \in [Thread -> Call \cup {NoCall}]
    /\ next \in [Thread -> Counter]
    /\ answer \in [Thread -> Answer]
    /\ issued \in [Key -> Seq(Counter)]
    /\ calls \in 0 .. MaxCalls
    /\ crashes \in 0 .. MaxCrashes

\* The lock of a key is held exactly by the incrdecr call that is between
\* locksFor and its return: no early return of incrdecr leaves the key locked,
\* and no crash does.
LocksFollowCalls ==
    \A k \in Key, t \in Thread :
        locks[k] = t <=> pc[t] \in Held /\ call[t].key = k

\* The value incrdecr is about to put is computed from what the key still
\* holds: nothing has come between its Get and its Put.
CurrentAt(k) ==
    \A t \in Thread : pc[t] = "put" /\ call[t].key = k =>
        db[k] \notin Blob /\ next[t] = Stepped(call[t], db[k])

ReadStaysCurrent == \A k \in Key : CurrentAt(k)

\* A key that is only ever counted up serves as an id generator: until the sum
\* of the steps can reach 2^64, each stored id is larger than all before it,
\* whatever the threads, the failed accesses and the crashes in between.
Generator(k) ==
    /\ Uncontested(k)
    /\ \A c \in Call : c.op = "incrdecr" /\ c.key = k => c.incr /\ c.delta > 0

Base(k) == IF InitDb[k] \in Counter THEN InitDb[k] ELSE ShortMod - 1

Room(k) == Base(k) + Len(issued[k]) * (ShortMod - 1) < CounterMod

Increasing(s) == \A i, j \in DOMAIN s : i < j => s[i] < s[j]

IdsIncrease == \A k \in Key : Generator(k) /\ Room(k) => Increasing(issued[k])

\* The database seen by its callers is the atomic one of LinearStore: a call is
\* pending until its last database access and done from then on.
Phase(l) ==
    IF l = "idle" THEN "idle" ELSE IF l \in {"unlock", "reply"} THEN "done" ELSE "called"

Linear == INSTANCE LinearStore WITH phase <- [t \in Thread |-> Phase(pc[t])]

Linearizable == Linear!Spec

\* Every call returns: the key locks starve nobody and are never all waited for.
EveryCallReturns == \A t \in Thread : pc[t] # "idle" ~> pc[t] = "idle"

=============================================================================
