------------------------------ MODULE NdbData ------------------------------
(***************************************************************************)
(* The data of one ndb database: what a RocksDB key may hold, the calls of *)
(* class Ndb (ugorji/ndb/ndb.h) that read and write it, and what each does *)
(* to the content.  The concurrency of the calls is in module Ndb, the     *)
(* promise they keep in module LinearStore.                                *)
(***************************************************************************)
EXTENDS Integers, Sequences, FiniteSetsExt

CONSTANTS
    Thread,      \* threads that call one Ndb object
    Key,         \* keys of the database
    Blob,        \* stored values that are not exactly 8 bytes long
    Absent,      \* what a key holds when the database has no row for it
    CounterMod,  \* 2^64 in the code: a counter is a uint64_t
    ShortMod,    \* 2^16 in the code: delta and initVal are uint16_t
    Call,        \* the calls that may be made
    NoCall,      \* what an idle thread is calling
    InitDb       \* the content found on disk when the database is opened

Counter == 0 .. CounterMod - 1
Short   == 0 .. ShortMod - 1

\* An 8-byte value is always readable as a counter (util_big_endian_read_uint64).
Value  == Counter \cup Blob
Stored == Value \cup {Absent}

Row == [key : Key, value : Value]

IncrDecrCall == [op : {"incrdecr"}, key : Key, incr : BOOLEAN, delta : Short, init : Short]
UpdateCall   == [op : {"update"}, puts : Seq(Row), dels : Seq(Key)]
GetsCall     == [op : {"gets"}, keys : Seq(Key)]

\* A fault is any leveldb::Status that is neither ok nor NotFound.
Status == {"ok", "not_found", "bad_size", "fault"}
Reply  == [status : Status, value : Stored]
Answer == Seq(Reply)

Error(status) == <<[status |-> status, value |-> Absent]>>
Ok(value)     == <<[status |-> "ok", value |-> value]>>

ASSUME StoredAssumption ==
    /\ CounterMod \in Nat \ {0}
    /\ ShortMod \in 1 .. CounterMod
    /\ Blob \cap Counter = {}
    /\ Absent \notin Value

ASSUME CallAssumption ==
    /\ Call \subseteq IncrDecrCall \cup UpdateCall \cup GetsCall
    /\ NoCall \notin Call
    /\ InitDb \in [Key -> Stored]

----------------------------------------------------------------------------
(***************************************************************************)
(* incrdecr: the value put back, computed in uint64_t arithmetic, which    *)
(* wraps in both directions.                                               *)
(***************************************************************************)
Current(c, stored) == IF stored = Absent THEN c.init ELSE stored

\* Faults against which the properties are tried: arithmetic that does not
\* wrap, and the local v declared as wide as delta.
SteppedUnbounded(c, stored) ==
    IF c.incr THEN Current(c, stored) + c.delta ELSE Current(c, stored) - c.delta
SteppedShort(c, stored) == (Current(c, stored) + c.delta) % ShortMod

Stepped(c, stored) ==
    LET v == Current(c, stored)
    IN  (IF c.incr THEN v + c.delta ELSE v - c.delta) % CounterMod

(***************************************************************************)
(* update: one leveldb::WriteBatch, all the puts in the order given and    *)
(* then all the deletes; the last write of a batch to a key decides.       *)
(***************************************************************************)
Batch(c) == c.puts \o [i \in DOMAIN c.dels |-> [key |-> c.dels[i], value |-> Absent]]

WritesTo(k, batch) == {i \in DOMAIN batch : batch[i].key = k}

Applied(d, batch) ==
    [k \in Key |-> IF WritesTo(k, batch) = {} THEN d[k]
                   ELSE batch[Max(WritesTo(k, batch))].value]

(***************************************************************************)
(* gets and get: one reply per key, read from one view of the database.    *)
(***************************************************************************)
ReadReply(stored) ==
    IF stored = Absent THEN Error("not_found")[1] ELSE Ok(stored)[1]

ReadAnswers(c, d) ==
    {a \in [DOMAIN c.keys -> Reply] :
        \A i \in DOMAIN c.keys : a[i] \in {ReadReply(d[c.keys[i]]), Error("fault")[1]}}

\* The keys an update may write.
Written(c) == {c.puts[i].key : i \in DOMAIN c.puts} \cup {c.dels[i] : i \in DOMAIN c.dels}

\* No update writes key k: it belongs to incrdecr alone.
Uncontested(k) == \A u \in Call : u.op = "update" => k \notin Written(u)

\* Clients keep id generators (Discriminator D_IDGEN) and entities (D_ENTITY)
\* under keys of their own.
CountersApart == \A c \in Call : c.op = "incrdecr" => Uncontested(c.key)

=============================================================================
