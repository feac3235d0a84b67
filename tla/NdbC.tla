-------------------------------- MODULE NdbC --------------------------------
(***************************************************************************)
(* The C API of libndb (ugorji/ndb/ndb-c.cc): what a call hands to a       *)
(* program in another language, and for how long it stays there.           *)
(*                                                                         *)
(* Every call takes a key from the sequence seq, makes a freeinfo that     *)
(* owns what it returns, and enters it in mfree under mu; ndb_release      *)
(* erases keys from mfree and so destroys what they own.  The freeinfo of  *)
(* ndb_open owns the database: to release its key is to close it.          *)
(*                                                                         *)
(* The program is any that uses the API as its comments ask: it releases   *)
(* each key once, and that of a database when it has no call on it.  Calls *)
(* are numbered in the order in which they take their keys.  What they     *)
(* read and write is in module Ndb.                                        *)
(***************************************************************************)
EXTENDS Integers, Sequences, Functions

CONSTANTS
    Thread,    \* threads of the program
    None,      \* the holder of a free mutex
    Op,        \* the calls it makes
    Sizes,     \* sizes of the strings that calls return: "short", "long"
    SeqMod,    \* 2^32: seq is a uint32_t
    MaxCalls   \* bound on the number of calls

Reqkey == 0 .. SeqMod - 1
Ops    == {"open", "get", "get_multi", "update", "query", "incr_decr"}

ASSUME ApiAssumption ==
    /\ None \notin Thread
    /\ Op \subseteq Ops
    /\ Sizes \subseteq {"short", "long"}
    /\ SeqMod \in Nat /\ SeqMod > 2
    /\ MaxCalls \in Nat

\* Where the bytes are that a result points to: in its freeinfo, or in the
\* frame of the call that returned it.
Memory == {"own", "frame"}

\* A slice is taken of a std::string, which is then moved into the freeinfo: a
\* long string takes its buffer along, the bytes of a short one stay.
BytesOf(size) == IF size = "long" THEN "own" ELSE "frame"

StringMemory == {BytesOf(size) : size \in Sizes}

\* A call: its number (0 until it has one), its key, the call whose database it is
\* on, and where the bytes of its result are.
CallRecord == [op : Ops \cup {"none"}, n : Nat, key : Reqkey, db : Nat, mem : SUBSET Memory]
Idle       == [op |-> "none", n |-> 0, key |-> 0, db |-> 0, mem |-> {}]

\* A result; that of an ndb_open that succeeds is a database.
Result      == [n : Nat, key : Reqkey, opened : BOOLEAN, mem : SUBSET Memory]
ResultOf(c) == [n |-> c.n, key |-> c.key, opened |-> c.op = "open" /\ c.db = c.n, mem |-> c.mem]

VARIABLES
    inited,  \* ndb_once_init has run
    seq,
    mu,      \* the thread that holds mu
    mfree,   \* the number of the call whose freeinfo each key owns
    live,    \* the calls whose freeinfo exists
    dbs,     \* those of them that own an open database
    pc,      \* where each thread is
    call,    \* the call it makes
    todo,    \* the results it is releasing
    held,    \* the results that the program has and has not released
    calls,   \* how many have been made
    taken,   \* how many calls have taken a key
    lapped,  \* history: the keys of results still in use when seq came round to them
    aborted  \* the program has been terminated

memory == <<mfree, live, dbs>>
vars   == <<inited, seq, mu, memory, pc, call, todo, held, calls, taken, lapped, aborted>>

Init ==
    /\ inited = FALSE
    /\ seq = 0
    /\ mu = None
    /\ mfree = <<>> /\ live = {} /\ dbs = {}
    /\ pc = [t \in Thread |-> "idle"]
    /\ call = [t \in Thread |-> Idle]
    /\ todo = [t \in Thread |-> {}]
    /\ held = {}
    /\ calls = 0 /\ taken = 0
    /\ lapped = {} /\ aborted = FALSE

Numbered == {"work", "lock", "register", "return"}
Inside   == {"register", "return", "erase"}
Pc       == {"idle", "init", "key", "release"} \cup Numbered \cup Inside

Goto(t, l) == pc' = [pc EXCEPT ![t] = l]

\* The results that somebody has yet to release.
Running     == {ResultOf(call[t]) : t \in {u \in Thread : pc[u] \in Numbered}}
Releasing   == UNION {todo[t] : t \in Thread}
Outstanding == held \cup Running \cup Releasing

----------------------------------------------------------------------------
(***************************************************************************)
(* A call.                                                                 *)
(***************************************************************************)
\* A database is used while its key is held.
Invoke(t) ==
    /\ ~ aborted
    /\ pc[t] = "idle"
    /\ calls < MaxCalls
    /\ calls' = calls + 1
    /\ \E op \in Op :
        \/ /\ op = "open"
           /\ call' = [call EXCEPT ![t].op = op]
           /\ Goto(t, "init")
        \/ /\ op # "open"
           /\ \E h \in {r \in held : r.opened} : call' = [call EXCEPT ![t].op = op, ![t].db = h.n]
           /\ Goto(t, "key")
    /\ UNCHANGED <<inited, seq, mu, memory, todo, held, taken, lapped, aborted>>

\* Fault: the sequence starts again with every ndb_open.
InitAgain(t) ==
    /\ ~ aborted
    /\ pc[t] = "init"
    /\ inited' = TRUE
    /\ seq' = 1
    /\ Goto(t, "key")
    /\ UNCHANGED <<mu, memory, call, todo, held, calls, taken, lapped, aborted>>

\* ndb_init, in ndb_open.
InitOnce(t) ==
    /\ ~ aborted
    /\ pc[t] = "init"
    /\ inited' = TRUE
    /\ seq' = IF inited THEN seq ELSE 1
    /\ Goto(t, "key")
    /\ UNCHANGED <<mu, memory, call, todo, held, calls, taken, lapped, aborted>>

\* Fault: the sequence number is kept in fewer bits.
NextNarrow(s) == (s + 1) % (SeqMod - 1)

\* ++seq
NextSeq(s) == IF s = SeqMod - 1 THEN 0 ELSE s + 1

TakeKey(t) ==
    /\ ~ aborted
    /\ pc[t] = "key"
    /\ taken' = taken + 1
    /\ seq' = NextSeq(seq)
    /\ call' = [call EXCEPT ![t].n = taken', ![t].key = seq']
    /\ live' = live \cup {taken'}
    /\ lapped' = lapped \cup {r.key : r \in {s \in Outstanding : taken' - s.n >= SeqMod}}
    /\ Goto(t, "work")
    /\ UNCHANGED <<inited, mu, mfree, dbs, todo, held, calls, aborted>>

\* The call ends with a result in mem.
Finish(t, mem) ==
    /\ call' = [call EXCEPT ![t].mem = mem]
    /\ Goto(t, "lock")

\* DB::Open gives a database or an error.  The directories are left out: the program
\* opens as many databases as it likes, and to open one again is an error.
Open(t) ==
    /\ ~ aborted
    /\ pc[t] = "work" /\ call[t].op = "open"
    /\ \/ /\ dbs' = dbs \cup {call[t].n}
          /\ call' = [call EXCEPT ![t].mem = {"own"}, ![t].db = call[t].n]
          /\ Goto(t, "lock")
       \/ UNCHANGED dbs /\ \E m \in StringMemory : Finish(t, {m})
    /\ UNCHANGED <<inited, seq, mu, mfree, live, todo, held, calls, taken, lapped, aborted>>

\* The result of the others: the arrays of ndb_get_multi and ndb_query are in
\* the freeinfo, as are the rows that ndb_query copies; errors, and the values of
\* ndb_get_multi, are strings.
Results(op) ==
    CASE op = "get_multi" -> {{"own"} \cup s : s \in SUBSET StringMemory}
      [] op = "query"     -> {a \cup s : a \in {{}, {"own"}}, s \in {{}} \cup {{m} : m \in StringMemory}}
      [] OTHER            -> {{}} \cup {{m} : m \in StringMemory}

Work(t) ==
    /\ ~ aborted
    /\ pc[t] = "work" /\ call[t].op \in {"get_multi", "update", "query", "incr_decr"}
    /\ \E mem \in Results(call[t].op) : Finish(t, mem)
    /\ UNCHANGED <<inited, seq, mu, memory, todo, held, calls, taken, lapped, aborted>>

\* ndb_get makes a std::string of nullptr: the exception leaves a function that
\* C calls, and ends the program.
Get(t) ==
    /\ ~ aborted
    /\ pc[t] = "work" /\ call[t].op = "get"
    /\ aborted' = TRUE
    /\ UNCHANGED <<inited, seq, mu, memory, pc, call, todo, held, calls, taken, lapped>>

\* Fault: the mutex is not waited for.
EnterMu(t) ==
    /\ ~ aborted
    /\ pc[t] = "lock"
    /\ mu' = t
    /\ Goto(t, "register")
    /\ UNCHANGED <<inited, seq, memory, call, todo, held, calls, taken, lapped, aborted>>

LockMu(t) ==
    /\ ~ aborted
    /\ pc[t] = "lock"
    /\ mu = None
    /\ mu' = t
    /\ Goto(t, "register")
    /\ UNCHANGED <<inited, seq, memory, call, todo, held, calls, taken, lapped, aborted>>

\* ~freeinfo
Destroyed(ns) == live' = live \ ns /\ dbs' = dbs \ ns

\* mfree[rk] = rkv: what the key owned before is destroyed.
Register(t) ==
    LET c == call[t]
    IN  /\ ~ aborted
        /\ pc[t] = "register"
        /\ Destroyed({mfree[k] : k \in DOMAIN mfree \cap {c.key}})
        /\ mfree' = [k \in DOMAIN mfree \cup {c.key} |-> IF k = c.key THEN c.n ELSE mfree[k]]
        /\ Goto(t, "return")
        /\ UNCHANGED <<inited, seq, mu, call, todo, held, calls, taken, lapped, aborted>>

Return(t) ==
    /\ ~ aborted
    /\ pc[t] = "return"
    /\ mu' = None
    /\ held' = held \cup {ResultOf(call[t])}
    /\ call' = [call EXCEPT ![t] = Idle]
    /\ Goto(t, "idle")
    /\ UNCHANGED <<inited, seq, memory, todo, calls, taken, lapped, aborted>>

----------------------------------------------------------------------------
(***************************************************************************)
(* ndb_release, of one key or several.                                     *)
(***************************************************************************)
InUse(r) == r.opened /\ \E t \in Thread : pc[t] # "idle" /\ call[t].db = r.n

Release(t) ==
    /\ ~ aborted
    /\ pc[t] = "idle"
    /\ \E rs \in SUBSET held \ {{}} :
        /\ \A r \in rs : ~ InUse(r)
        /\ todo' = [todo EXCEPT ![t] = rs]
        /\ held' = held \ rs
    /\ Goto(t, "release")
    /\ UNCHANGED <<inited, seq, mu, memory, call, calls, taken, lapped, aborted>>

LockRelease(t) ==
    /\ ~ aborted
    /\ pc[t] = "release"
    /\ mu = None
    /\ mu' = t
    /\ Goto(t, "erase")
    /\ UNCHANGED <<inited, seq, memory, call, todo, held, calls, taken, lapped, aborted>>

\* Fault: the last of several keys is left.
EraseAllButOne(t) ==
    /\ ~ aborted
    /\ pc[t] = "erase"
    /\ \E r \in todo[t] :
        /\ IF todo[t] = {r} THEN UNCHANGED memory
           ELSE /\ Destroyed({mfree[k] : k \in DOMAIN mfree \cap {r.key}})
                /\ mfree' = Restrict(mfree, DOMAIN mfree \ {r.key})
        /\ todo' = [todo EXCEPT ![t] = @ \ {r}]
    /\ UNCHANGED <<inited, seq, mu, pc, call, held, calls, taken, lapped, aborted>>

\* mfree.erase
Erase(t) ==
    /\ ~ aborted
    /\ pc[t] = "erase"
    /\ \E r \in todo[t] :
        /\ Destroyed({mfree[k] : k \in DOMAIN mfree \cap {r.key}})
        /\ mfree' = Restrict(mfree, DOMAIN mfree \ {r.key})
        /\ todo' = [todo EXCEPT ![t] = @ \ {r}]
    /\ UNCHANGED <<inited, seq, mu, pc, call, held, calls, taken, lapped, aborted>>

\* Fault: the mutex is kept.
ReleasedLocked(t) ==
    /\ ~ aborted
    /\ pc[t] = "erase" /\ todo[t] = {}
    /\ Goto(t, "idle")
    /\ UNCHANGED <<inited, seq, mu, memory, call, todo, held, calls, taken, lapped, aborted>>

Released(t) ==
    /\ ~ aborted
    /\ pc[t] = "erase" /\ todo[t] = {}
    /\ mu' = None
    /\ Goto(t, "idle")
    /\ UNCHANGED <<inited, seq, memory, call, todo, held, calls, taken, lapped, aborted>>

Step(t) ==
    \/ InitOnce(t)
    \/ TakeKey(t)
    \/ Open(t)
    \/ Work(t)
    \/ Get(t)
    \/ LockMu(t)
    \/ Register(t)
    \/ Return(t)
    \/ LockRelease(t)
    \/ Erase(t)
    \/ Released(t)

Next == \E t \in Thread : Invoke(t) \/ Release(t) \/ Step(t)

Spec == Init /\ [][Next]_vars

\* Threads keep running, and take the mutex when it stays free.
FairSpec == Spec /\ \A t \in Thread : WF_vars(Step(t))

----------------------------------------------------------------------------
(***************************************************************************)
(* Properties.                                                             *)
(***************************************************************************)

\* Every variable has its type, and who touches mfree holds mu.
TypeOK ==
    /\ inited \in BOOLEAN /\ aborted \in BOOLEAN
    /\ seq \in Reqkey
    /\ lapped \subseteq Reqkey
    /\ mu \in Thread \cup {None}
    /\ DOMAIN mfree \subseteq Reqkey
    /\ \A k \in DOMAIN mfree : mfree[k] \in live
    /\ live \subseteq Nat
    /\ dbs \subseteq live
    /\ pc \in [Thread -> Pc]
    /\ call \in [Thread -> CallRecord]
    /\ todo \in [Thread -> SUBSET Result]
    /\ held \subseteq Result
    /\ calls \in 0 .. MaxCalls
    /\ taken \in Nat
    /\ \A t \in Thread : pc[t] \in Inside => mu = t

\* ndb-c.cc:125, 164: what a call has returned in its freeinfo stays there until the
\* program releases it, whatever the other threads call and release.  When seq comes
\* round to the key of a result still held, that key may cost what it owns, and no other.
HeldStaysLive ==
    \A h \in held : "own" \in h.mem /\ h.key \notin lapped => h.n \in live

\* A call finds its database open while others are opened, released and, when seq has
\* come round to their keys, closed: only its own key can close it.
HandlesOpen ==
    \A t \in Thread :
        pc[t] \in {"key", "work"} /\ call[t].op # "open" =>
            \E h \in held :
                h.opened /\ h.n = call[t].db /\ (h.key \in lapped \/ h.n \in dbs)

\* Nothing leaks: what exists belongs to a call in progress, or can be destroyed
\* with a key that somebody has yet to release, even after seq has come round.
NothingLeaks ==
    \A n \in live :
        \/ \E r \in Running : r.n = n
        \/ \E r \in Outstanding : r.key \in DOMAIN mfree /\ mfree[r.key] = n

\* Every call returns, and so does every release, unless the program ends.
EveryCallReturns == \A t \in Thread : pc[t] # "idle" ~> (pc[t] = "idle" \/ aborted)

\* ndb-c.cc:128: a string is moved, so that the reference to its backing array is
\* maintained.  What a call has returned can be read until it is released.
BackingKept == \A h \in held : h.mem \subseteq {"own"} /\ (h.mem = {} \/ h.n \in live)

=============================================================================
