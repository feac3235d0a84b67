------------------------------ MODULE Manager ------------------------------
(***************************************************************************)
(* Class Manager (ugorji/ndb/manager.cc): which database a key lives in,   *)
(* and the opening of the databases on demand by the server's threads.     *)
(*                                                                         *)
(* There is one database per index and, for data, one per shard or one per *)
(* shard and root kind.  All lookups and openings happen under mu_.  The   *)
(* process may die at any time and be started again with the same          *)
(* command line, but for -clear.                                           *)
(***************************************************************************)
EXTENDS Integers, Sequences, NdbKey

CONSTANTS
    Thread,       \* threads of the server
    None,         \* the holder of a free mutex, the key of an idle thread
    Key,          \* the keys asked for
    PerKindArg,   \* argument of -perkind: "true", "false", or "none" if it is not given
    ShardMin,     \* arguments of -shards
    ShardRange,
    Defaults,     \* "kind" and "index", if the init file has a default line for them
    KindLines,    \* the other lines of the init file: each lists kinds or indexes
    IndexLines,
    Clears,       \* the arguments of -clear, for each start
    InitDisk,     \* databases found on disk at first
    MaxCalls,     \* bound on the number of calls
    MaxStarts     \* bound on the number of restarts

\* basedir/index-i, basedir/shard-s or basedir/shard-s/root-kind-k
Tree  == {"index", "shard", "kind"}
Place == [tree : Tree, shard : Nat, id : Nat]

ASSUME ManagerAssumption ==
    /\ None \notin Thread
    /\ Key \subseteq Seq(Byte) /\ None \notin Key
    /\ \A k \in Key : Len(k) >= 8
    /\ Clears \subseteq BOOLEAN /\ Clears # {}
    /\ PerKindArg \in {"true", "false", "none"}
    /\ ShardMin \in Nat /\ ShardRange \in Nat
    /\ Defaults \subseteq {"kind", "index"}
    /\ KindLines \cup IndexLines \subseteq Seq(Nat)
    /\ InitDisk \subseteq Place
    /\ MaxCalls \in Nat /\ MaxStarts \in Nat

----------------------------------------------------------------------------
(***************************************************************************)
(* Routing: ndbForKey, dataDb and the directory names of the three kinds   *)
(* of database.                                                            *)
(***************************************************************************)
Served(k) == DiscrimOf(k) = D_INDEX
    \/ (IsData(k) /\ ShardMin <= Shardid(k) /\ Shardid(k) < ShardMin + ShardRange)

\* Fault: the database is chosen by the kind of the entity itself.
PlaceByKind(k, perKind) ==
    IF DiscrimOf(k) = D_INDEX THEN [tree |-> "index", shard |-> 0, id |-> Indexid(k)]
    ELSE [tree |-> "kind", shard |-> Shardid(k), id |-> Kindid(k)]

PlaceOf(k, perKind) ==
    IF DiscrimOf(k) = D_INDEX THEN [tree |-> "index", shard |-> 0, id |-> Indexid(k)]
    ELSE IF perKind THEN [tree |-> "kind", shard |-> Shardid(k), id |-> Rootkindid(k)]
    ELSE [tree |-> "shard", shard |-> Shardid(k), id |-> 0]

\* dbPerKind_ is set by -perkind and has no initialiser: without the argument
\* it is whatever the memory held.
PerKindValues == IF PerKindArg = "none" THEN BOOLEAN ELSE {PerKindArg = "true"}

----------------------------------------------------------------------------
VARIABLES
    perKind,  \* dbPerKind_
    mu,       \* the thread that holds mu_
    map,      \* places with an entry in indexDbs_, shardDbs_ or perkindDbs_
    dbs,      \* dbs_: the databases this process has open
    disk,     \* the databases that exist on disk
    pc,       \* where each thread is in ndbForKey
    key,      \* the key it asks for
    answer,   \* what it got: "", "ok" or an error
    served,   \* history: the places each key has been served from, since the disk was cleared
    calls,
    starts

vars == <<perKind, mu, map, dbs, disk, pc, key, answer, served, calls, starts>>

Inside == {"find", "mkdir", "open", "insert", "unlock"}
Pc     == {"idle", "lock", "reply"} \cup Inside
Answer == {"", "ok", "route", "fault", "missing", "busy"}

Init ==
    /\ perKind \in PerKindValues
    /\ mu = None
    /\ map = {}
    /\ dbs = {}
    /\ \E clear \in Clears : disk = IF clear THEN {} ELSE InitDisk
    /\ pc = [t \in Thread |-> "idle"]
    /\ key = [t \in Thread |-> None]
    /\ answer = [t \in Thread |-> ""]
    /\ served = [k \in Key |-> {}]
    /\ calls = 0
    /\ starts = 0

Goto(t, l) == pc' = [pc EXCEPT ![t] = l]
Reply(t, a, l) == answer' = [answer EXCEPT ![t] = a] /\ Goto(t, l)

PlaceFor(t) == PlaceOf(key[t], perKind)

\* ndbForKey is called: a key it cannot route is refused.
Invoke(t) ==
    /\ pc[t] = "idle"
    /\ calls < MaxCalls
    /\ calls' = calls + 1
    /\ \E k \in Key :
        /\ key' = [key EXCEPT ![t] = k]
        /\ IF Served(k) THEN Goto(t, "lock") /\ UNCHANGED answer ELSE Reply(t, "route", "reply")
    /\ UNCHANGED <<perKind, mu, map, dbs, disk, served, starts>>

\* Fault: the mutex is not waited for.
EnterMu(t) ==
    /\ pc[t] = "lock"
    /\ mu' = t
    /\ Goto(t, "find")
    /\ UNCHANGED <<perKind, map, dbs, disk, key, answer, served, calls, starts>>

LockMu(t) ==
    /\ pc[t] = "lock"
    /\ mu = None
    /\ mu' = t
    /\ Goto(t, "find")
    /\ UNCHANGED <<perKind, map, dbs, disk, key, answer, served, calls, starts>>

\* The lookup in the map; a database of a root kind needs its directories first.
Find(t) ==
    /\ pc[t] = "find"
    /\ IF PlaceFor(t) \in map
       THEN Reply(t, "ok", "unlock")
       ELSE Goto(t, IF PlaceFor(t).tree = "kind" THEN "mkdir" ELSE "open") /\ UNCHANGED answer
    /\ UNCHANGED <<perKind, mu, map, dbs, disk, key, served, calls, starts>>

\* ensureDir, twice: either directory may be refused.
MakeDirs(t) ==
    /\ pc[t] = "mkdir"
    /\ \/ Goto(t, "open") /\ UNCHANGED answer
       \/ Reply(t, "fault", "unlock")
    /\ UNCHANGED <<perKind, mu, map, dbs, disk, key, served, calls, starts>>

\* load: the ids for which a line is kept.  Of a list only what a comma follows is.
Kept(line) ==
    {line[i] : i \in {j \in DOMAIN line : Len(line) = 1 \/ j < Len(line)}}

HasOptions(id, lines) == \E line \in lines : id \in Kept(line)

\* The options: a line of the init file sets create_if_missing, the options of
\* RocksDB itself leave it unset.
CreateIfMissing(p) ==
    CASE p.tree = "index" -> "index" \in Defaults \/ HasOptions(p.id, IndexLines)
      [] p.tree = "kind"  -> "kind" \in Defaults \/ HasOptions(p.id, KindLines)
      [] p.tree = "shard" -> "kind" \in Defaults

\* openDb.  Its own lock on the directory is never contended: it is only taken
\* under mu_.  RocksDB opens no database that this process has open already.
OpenDb(t) ==
    LET p == PlaceFor(t)
    IN  /\ pc[t] = "open"
        /\ \/ Reply(t, "fault", "unlock") /\ UNCHANGED <<dbs, disk>>
           \/ /\ p \in dbs
              /\ Reply(t, "busy", "unlock")
              /\ UNCHANGED <<dbs, disk>>
           \/ /\ p \notin dbs \cup disk /\ ~ CreateIfMissing(p)
              /\ Reply(t, "missing", "unlock")
              /\ UNCHANGED <<dbs, disk>>
           \/ /\ p \notin dbs
              /\ p \in disk \/ CreateIfMissing(p)
              /\ dbs' = dbs \cup {p}
              /\ disk' = disk \cup {p}
              /\ Goto(t, "insert")
              /\ UNCHANGED answer
        /\ UNCHANGED <<perKind, mu, map, key, served, calls, starts>>

\* Fault: the database is opened and used but not entered in the map.
InsertNothing(t) ==
    /\ pc[t] = "insert"
    /\ Reply(t, "ok", "unlock")
    /\ UNCHANGED <<perKind, mu, map, dbs, disk, key, served, calls, starts>>

Insert(t) ==
    /\ pc[t] = "insert"
    /\ map' = map \cup {PlaceFor(t)}
    /\ Reply(t, "ok", "unlock")
    /\ UNCHANGED <<perKind, mu, dbs, disk, key, served, calls, starts>>

\* Fault: an error returns with the mutex held.
UnlockOnSuccess(t) ==
    /\ pc[t] = "unlock"
    /\ mu' = IF answer[t] = "ok" THEN None ELSE mu
    /\ Goto(t, "reply")
    /\ UNCHANGED <<perKind, map, dbs, disk, key, answer, served, calls, starts>>

UnlockMu(t) ==
    /\ pc[t] = "unlock"
    /\ mu' = None
    /\ Goto(t, "reply")
    /\ UNCHANGED <<perKind, map, dbs, disk, key, answer, served, calls, starts>>

\* ndbForKey returns, and the caller uses the database it got.
Return(t) ==
    /\ pc[t] = "reply"
    /\ served' = IF answer[t] = "ok" THEN [served EXCEPT ![key[t]] = @ \cup {PlaceFor(t)}] ELSE served
    /\ key' = [key EXCEPT ![t] = None]
    /\ Reply(t, "", "idle")
    /\ UNCHANGED <<perKind, mu, map, dbs, disk, calls, starts>>

\* Fault: -clear is understood the wrong way round.
RestartInverted ==
    /\ starts < MaxStarts
    /\ starts' = starts + 1
    /\ perKind' \in PerKindValues
    /\ mu' = None
    /\ map' = {}
    /\ dbs' = {}
    /\ pc' = [t \in Thread |-> "idle"]
    /\ key' = [t \in Thread |-> None]
    /\ answer' = [t \in Thread |-> ""]
    /\ \E clear \in Clears :
        /\ disk' = IF clear THEN disk ELSE {}
        /\ served' = IF clear THEN [k \in Key |-> {}] ELSE served
    /\ UNCHANGED calls

\* The process dies and is started again.  With -clear the directory of all the
\* databases is removed first.
Restart ==
    /\ starts < MaxStarts
    /\ starts' = starts + 1
    /\ perKind' \in PerKindValues
    /\ mu' = None
    /\ map' = {}
    /\ dbs' = {}
    /\ pc' = [t \in Thread |-> "idle"]
    /\ key' = [t \in Thread |-> None]
    /\ answer' = [t \in Thread |-> ""]
    /\ \E clear \in Clears :
        /\ disk' = IF clear THEN {} ELSE disk
        /\ served' = IF clear THEN [k \in Key |-> {}] ELSE served
    /\ UNCHANGED calls

Step(t) ==
    \/ LockMu(t)
    \/ Find(t)
    \/ MakeDirs(t)
    \/ OpenDb(t)
    \/ Insert(t)
    \/ UnlockMu(t)
    \/ Return(t)

Next == (\E t \in Thread : Invoke(t) \/ Step(t)) \/ Restart

Spec == Init /\ [][Next]_vars

\* Every thread keeps running, and takes the mutex when it stays free.
FairSpec == Spec /\ \A t \in Thread : WF_vars(Step(t))

----------------------------------------------------------------------------
(***************************************************************************)
(* Properties.                                                             *)
(***************************************************************************)

\* Every variable has its type, and a thread inside the manager holds mu_.
TypeOK ==
    /\ perKind \in PerKindValues
    /\ mu \in Thread \cup {None}
    /\ map \subseteq Place
    /\ dbs \subseteq Place
    /\ disk \subseteq Place
    /\ pc \in [Thread -> Pc]
    /\ key \in [Thread -> Key \cup {None}]
    /\ answer \in [Thread -> Answer]
    /\ served \in [Key -> SUBSET Place]
    /\ calls \in 0 .. MaxCalls
    /\ starts \in 0 .. MaxStarts
    /\ \A t \in Thread : pc[t] \in Inside => mu = t

\* Whenever nobody is inside the manager, the maps hold exactly the databases
\* that are open: none is forgotten, which would make every later call for it
\* fail, and none is handed out after it failed to open.
MapsTellOpen == mu = None => map = dbs

\* No call fails because this process has the database open already: threads
\* that ask for the same database at the same time share one.
NeverBusy == \A t \in Thread : answer[t] # "busy"

\* The calls of ndbForKey are those of a directory, in which each is answered at one
\* instant, from an open database whenever there is one: a call that opens a database
\* is answered when RocksDB has opened it, any other when it has found the entry in
\* the map or has failed.
Directories == INSTANCE Directory WITH
    Layouts <- PerKindValues,
    Routable <- Served,
    Home <- PlaceOf,
    MayCreate <- CreateIfMissing,
    layout <- perKind,
    open <- dbs,
    asked <- key,
    reply <- [t \in Thread |-> IF pc[t] = "insert" THEN "ok" ELSE answer[t]]

ImplementsDirectory == Directories!Spec

\* doc.md:129: all entities and their children live in the same database.  Keys
\* with the same root, their first eight bytes, are served from one database,
\* through failures and restarts.
SameRoot(j, k) == IsData(j) /\ IsData(k) /\ SubSeq(j, 1, 8) = SubSeq(k, 1, 8)

Colocated ==
    \A j, k \in Key : SameRoot(j, k) =>
        \A p \in served[j], q \in served[k] : p = q

\* What has been served stays so: no later call finds that the database of a key
\* is missing, through restarts, unless -clear removed it.
NeverForgotten == \A t \in Thread : answer[t] = "missing" => served[key[t]] = {}

\* Every call returns.
EveryCallReturns == \A t \in Thread : pc[t] # "idle" ~> pc[t] = "idle"

=============================================================================
