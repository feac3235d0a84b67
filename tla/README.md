# A verification development of ndb

ndb is a server (and a shared library) that keeps structured entities, their
index rows and id generators in RocksDB databases.  This directory models it in
TLA+, checks the models with TLC on small instances and proves theorems about
them with TLAPS.  Line numbers refer to `src/ugorji/ndb/` unless a path is given.

## The system

| component | source | state | operations |
|---|---|---|---|
| Ndb | `ndb.cc`, `ndb.h` | one RocksDB database, a lock per key | `gets`, `get`, `update`, `incrdecr`, `query` |
| Manager | `manager.cc`, `manager.h` | options per kind and index, the open databases, `mu_` | `load`, `ndbForKey` and the opening of databases on demand |
| ReqHandler | `conn.cc` 37-272 | none of its own: locals of one request | `handle`: the methods N, G, Q, U |
| ConnHandler | `conn.cc` 274-413, `conn.h` | a state machine per descriptor: `state_`, `in_`, `reqlen_`, `out_`, `cursor_` | `handleFd`, `unregisterFd` |
| main | `ndbserver_main.cc` | the arguments | start, signal handlers, shutdown |
| C API | `ndb-c.cc`, `ndb-c.h` | sequence number `seq`, results to be released `mfree`, `mu` | `ndb_open`, `ndb_get`, `ndb_update`, ..., `ndb_release` |
| key layout | `extractKeyParts`, `ndbEntityBytesFromSlice` | none | what a key says of its database, its kind and its entity |
| external | `ugorji/cc-common`, RocksDB | event loop, lock sets, codec, storage | |

A worker thread of `ugorji::conn::Manager` calls `ConnHandler::handleFd` when a
descriptor is ready.  The handler reads a request, calls `ReqHandler::handle` and
writes the reply, and gives up at EAGAIN to go on at the next call.
`ReqHandler::handle` asks the Manager for the database of each key, which opens
it if it is not open yet, and calls the `Ndb` objects.  Workers share the Manager
and the `Ndb` objects; `main` makes one `ConnHandler` per worker.  A program in
another language uses `Ndb` without a server, through the C API.  `handler.cc`,
`c.cc` and `c.h` are earlier versions that the Makefile does not build.

What is hard here, and what must hold:

- **Ndb.** `incrdecr` is a read and a write under a lock that `update` does not
  take.  No step may be lost, ids may never repeat, no early return may keep a
  lock, and to its callers each call must look atomic.
- **query.** A scan steered by four flags, in two directions, over a snapshot.
  It must return the rows asked for, all of them, once, in order.
- **Manager.** Threads race to open a database, which RocksDB opens only once; an
  opening may fail.  The databases must be shared, calls must not hang, and an
  entity must be routed to where its children are.
- **ReqHandler.** An update may span databases and fail between two of them.  A
  reply without an error must mean that all of it was written.
- **ConnHandler.** Bytes come in pieces, replies leave in pieces, calls are
  interrupted and clients leave.  Requests must be taken whole and replied to in
  order, and no call of the handler may keep its worker for ever.
- **C API.** Results are handed to a program that frees them by number, from any
  thread; one of the numbers closes the database.  A release must free what it
  names and nothing else, nothing may leak, and a result must stay readable.
- **Key layout.** A row of an index is a value and a key with a zero byte between
  them, and both may hold zeros: the split must find the right one.

## The modules

| module | what it is | source |
|---|---|---|
| `NdbData` | values, calls and what each call does to the content | `ndb.cc` 81-189 |
| `LinearStore` | abstract specification: every call takes effect at one instant | the promise of `ndb.h` |
| `Ndb` | the calls, one step per access to RocksDB and per lock operation | `ndb.cc` 81-189 |
| `NdbQuery` | `query`, one step per move of the iterator | `ndb.cc` 220-360 |
| `NdbRows` | the arguments of `query` and the keys of the database, and the facts that `NdbQuery` scans by | `ndb.cc` 47-79, 220-340 |
| `Manager` | `ndbForKey` and the opening of databases, restarts | `manager.cc` 68-316 |
| `ReqHandler` | `handle`, one step per routed key and per call of Ndb | `conn.cc` 37-272 |
| `ConnHandler` | the state machine, one step per system call | `conn.cc` 274-413 |
| `Directory` | abstract specification: a call is answered at one instant, an open database serves every call | what `ReqHandler` relies on of `ndbForKey` |
| `Session` | abstract specification: one request at a time, its reply whole | what a client of `conn.cc` relies on |
| `NdbC` | the C API, one step per access to `seq`, `mu` and `mfree` | `ndb-c.cc` 40-319 |
| `NdbKey` | keys, byte by byte | `manager.cc` 78-101, `ndb.cc` 47-79 |
| `Extremes` | lemmas: a finite set of integers has a minimum and a maximum; what holds at 0 and from each number to the next; iteration | |
| `NdbDataProofs` | lemmas: what a batch of writes does to a key | |
| `NdbProofs`, `NdbQueryProofs`, `ManagerProofs`, `ReqHandlerProofs`, `ConnHandlerProofs`, `NdbCProofs` | theorems | |
| `MC...` | instances for TLC | |

Composition.  `Ndb` extends `NdbData` and implements `LinearStore` through the
instance `Linear` (a call is *called* until its last database access and *done*
from then on).  `ReqHandler` is built on what the modules below it establish: a
call of Ndb is one step, as `Linearizable` allows; a call of `ndbForKey` is one step,
as `Directory`, which `Manager` implements through the instance `Directories`,
allows; and a key belongs to one database, as `Colocated` says.  It uses the
operators of `NdbData` for what a call does.  `ConnHandler` takes the request handler as one step that replies or fails,
and implements `Session` through the instance `Sessions`.  `NdbKey` is below both
users of keys: `Manager` extends it and routes real keys, and `NdbRows` makes
from keys the facts that a query of `NdbQuery` consists of.  `NdbC` takes the
work of a call as one step, which `Linearizable` allows.

### Correspondence

**Ndb.**  `db` is the content of `db_`, `locks` is `locks_`, `pc` the place of a
thread in its call, `next` the local `v`, `answer` the output parameters.
`LockKey`, `ReadCounter`, `PutCounter` and `UnlockKey` are `incrdecr`; its three
ways of failing after the lock all go through `UnlockKey`, the destructor of
`LockSetLock`.  `Write` is `update`, `MultiGet` is `gets` (`get` is `gets` of one
key).  A stored value is a counter (any value of eight bytes) or a `Blob`.  Any
access may return a status that is not ok.  `Crash` empties the threads and the
locks: with `wopt_.sync` 0 what was written survives a crash of the process; a
crash of the machine is not modelled.  `issued` is a history of stored counters.

**NdbQuery.**  Row keys are ranks in comparator order.  Of their bytes a scan
asks only where `seekpos1` falls, which rows have it as a prefix, which rows agree
with `seekpos2` on its length, and the block; a query record holds these facts,
and `QueryAssumption` ties them together.  `kept` is the set of rows that
`ndbEntityBytesFromSlice` accepts.  `Open` derives the flags and takes the
snapshot; `Seek`, `SkipOne`, `SkipMatch`, `Offset` and `Scan` are the parts of
the function; `MoveTo` is a move followed by the test of `Valid()`.  `Write` is
another thread.

**NdbRows.**  `Facts` computes those facts from bytes: `RowKey` holds the keys of
the database in the order of COMPARATOR (`Below`), `Call` the arguments of `query`,
`FirstRow` is where `Seek` stops, `LastWith` the last row with a prefix, and `kept`
comes from `EntityBytes`.  `RowKeyAssumption` asks that keys are not empty and in
order; `seekpos1` has a first byte, as `query` reads it.  `EntityOf` is the key each
row was put for; `EntityAssumption` says how an index row is made of it and that none
of its components but the last ends with a zero byte (that byte holds the shape and
the type of the entry, which is never zero).  `MCNdbQuery` is an instance of five
rows.  Rows shorter than `seekpos2`, for which `memcmp` reads past the key, are left
out.

**Manager.**  `map` stands for the three maps, `dbs` for `dbs_`, `disk` for what
exists under `basedir_`.  The steps of `indexDb`, `shardDb` and `perkindDb` are
taken together; `MakeDirs` is only for the last.  `OpenDb` fails on a fault, on a
database that this process has open, and on one that is missing when its options
do not have `create_if_missing` (only lines of the init file set it).  `Kept` is
what `load` makes of a list of ids.  `perKind` is `dbPerKind_`: without
`-perkind` it is any value, as nothing initialises it.  `Restart` is a new
process with the same arguments, but for `-clear`, which empties `disk` before
anything is opened.  `served` is a history, of what has been served since then.
Keys have a component of eight bytes at least: `extractKeyParts` does not look at
the length.  In `Directory`, `Ask` is `Invoke`, `Serve` is a `Find` that finds the
entry or an `OpenDb` that succeeds, `Refuse` is any failure, `Return` is `Return`
and `Start` is `Restart`.

**NdbKey.**  `ikey[1]` is the source's `ikey[0]`.  `Demarcations` are the places
where the backward loop of `ndbEntityBytesFromSlice` would stop; it stops at the
last of them, or hands out the row when there is none.

**ReqHandler.**  `req`, `at`, `batches`, `cx`, `out1` and `out2` are the locals of
`handle`.  `Route` and `RouteFails` are one call of `ndbForKey`; `WriteBatch`
is one round of the loop over `db2bt`, in any order as it is an `unordered_map`.
The result of a query may be memory that the deleted iterator has freed
(`"freed"`).  `base`, `quiet` and `wrote` are histories.  `Cast` takes the delta and
initVal of N, as wide as a counter in a request, to 16 bits; `Invalid` is a request
for N whose parameters fail its test, `Unknown` one for a method that does not
exist.  The same effect follows whether the encoder fails or not (`Encode`): the
error that `handle` returns then is the failure of `ProcessFd` in `ConnHandler`.
Requests decode, and the parameters of G, Q and U, which `handle` does not test,
have the types it takes for granted.

**ConnHandler.**  `machine` is a `connFdStateMach`; `sent` and `taken` count the
bytes of the client's stream that have arrived and been read; `errno` belongs to
the worker's thread and keeps its value until a call fails.  The bytes that a
short first read leaves uninitialised in `arr` are any bytes.  `LengthIn` reads
the length as `doStartFd` does, the count byte included.  `Shrunk` is
`in_.bytes.len += n2` when `n2` is -1 in a `size_t`: `Wrapped` stands for an
input whose length has gone below zero, which is larger than any request length,
so that the loop ends.  Connecting, sending, receiving and leaving are external,
as are the repeated calls of the handler and the unregistering of a descriptor
after an error or a hang-up.  In `Session` these are `Take` (`ProcessFd`, whether
it replies or fails), `Give` (`WriteFd`), `Break` (the other failures) and `End` (`UnregisterFd`); all else stutters.

**NdbC.**  `seq`, `mu` and `mfree` are the globals.  A freeinfo is known by the
number of its call: `mfree` maps keys to numbers, `live` holds the freeinfos that
exist and `dbs` those that own an open database, so that `Destroyed` is
`~freeinfo`.  The program opens any number of databases, one per shard for instance;
`Open` leaves their directories out, and that RocksDB refuses to open one twice is
one of the errors that it may end with.  `TakeKey` is `++seq` and `new freeinfo` (`ndb_get_multi` makes it
later, still before the lock); `Open`, `Get` and `Work` are what a call does
before it takes `mu`; `LockMu`, `Register` and `Return` are its last three lines.
`mem` says where the bytes of a result are: in the freeinfo, or in the frame of
the call.  `ndb_get` constructs a `std::string` from `nullptr`; what follows is
taken to be the end of the program (`aborted`).  `held`, `todo` and the guards of
`Invoke` and `Release` are the program that uses the API: it releases a key once,
and that of a database when no call is on it.  `taken` and `lapped`, the keys still
in use when `seq` came round to them, are histories.

## Checks

`pass` runs find no error; each `violation` run shows a disagreement between the
code and a comment, a message or a doc, quoted in `PROJECT.json`.

| run | instance | shows |
|---|---|---|
| `ndb` | 2 threads, 4 keys, 3 calls, 1 crash, counters mod 16 | `LocksFollowCalls`, `ReadStaysCurrent`, `IdsIncrease`; `Linearizable`: Ndb implements LinearStore; `EveryCallReturns` |
| `query` | 5 rows in 2 blocks, every starting point, operator, offset 0-1, limit 1 or 5, 1 write | `Sound`, `ForwardExact`, `BelowExact`, `ResultsAreKeys`, `QueryReturns` |
| `query_backward`, `query_end` | as above, without writes | violations: `<=` (and `<`) from beyond the last row, and `<=` between rows; the end of a range |
| `manager` | 2 threads, 7 keys, 4 calls, 1 restart with or without `-clear`, `-perkind true` | `MapsTellOpen`, `Colocated`, `NeverForgotten`, `EveryCallReturns`; `ImplementsDirectory`: Manager implements Directory |
| `req` | 2 workers, 2 databases, 4 keys, 3 requests, 1 crash | `RefusedWritesNothing`, `OkMeansAllWritten`, `SplitAsOne`, `EveryRequestHandled` |
| `req_retrieve` | as above | violation: the reply to G is nil |
| `conn` | 2 connections of 2 requests, whole or in pieces, 1 interrupted call, send buffer smaller than a reply | `HandedWhole`, `RepliesInOrder`, `EveryRequestAnswered`, `CallsEnd`; `ImplementsSession`: ConnHandler implements Session |
| `conn_early`, `conn_length` | 1 connection | violations: a request processed before its end; its length |
| `api` | 2 threads, 4 calls, up to 4 databases open at once, a `seq` of 3 values | `HeldStaysLive`, `HandlesOpen`, `NothingLeaks`, `EveryCallReturns` |
| `api_short` | 2 threads, 3 calls | violation: the bytes of a short string are in the frame of a call that has returned |

Further disagreements are in the models but have no run of their own:

- `Manager` lets `perKind` be either value when `-perkind` is not given, as
  `dbPerKind_` (manager.h:60) is then read uninitialised, where the usage text
  (`src/ndbserver_main.cc:49`) names a default of false.
- `Kept` drops the last item of a list (manager.cc:262), where `doc.md:172` lets
  several keys be defined together.
- The rows in a reply to Q may be memory of a deleted iterator (conn.cc:220,
  `doc.md:59`), which `DoQuery` calls `"freed"`.
- `update` takes no key lock (ndb.cc:140), where `doc.md:30` has it hold a "LockSet
  on the data keys": a write to a key that `incrdecr` is counting is lost.
- `StartNothing` uses an `errno` that the end of the stream has not set
  (conn.cc:326): after an EINTR the call reads for ever.
- `Get` ends the program (ndb-c.cc:211).
- `Register` destroys what a key owned 2^32 calls ago (ndb-c.cc:164).

No property catches these, but for the last: they are in the models as the code does
them, the properties are stated around them, and their hazards in `PROJECT.json` name
no property.  That an iterator reads one snapshot (ndb.cc:276) is likewise taken from
RocksDB, as the scan reads `view`.

Around them means: `Linearizable`, `ReadStaysCurrent` and `IdsIncrease` are stated for
clients that do not update the keys they count (`CountersApart`; a key's discriminator
keeps id generators and entities apart).  `CallsEnd` leaves out calls after an EINTR.
`HeldStaysLive` and `HandlesOpen` leave out a key to which `seq` has come round while
it was in use (`lapped`), and no other key; `NothingLeaks` leaves out none.
`EveryCallReturns` of `NdbC` ends with the program.

Other conditions: `HandedWhole` and `EveryRequestAnswered` of `ConnHandler` are stated
for requests that arrive whole while no call is interrupted (the history variable
`smooth`), and whose bodies are as long as the server takes them to be; `conn_early`
and `conn_length` show why.  `RepliesInOrder` and `ImplementsSession` have no such
condition.  `BelowExact` needs a row at or above the starting point; `query_backward`
shows why.

### Bounds

`MaxCalls`, `MaxCrashes`, `MaxWrites`, `MaxStarts`, `MaxRequests`, `MaxSignals`
and `MaxConns` bound histories.  Two threads are enough for every race over a lock
or a map entry; three calls let a call of one thread fall between two of the
other, and a crash between its two accesses.  Counters are taken mod 16, steps mod
4, so that they wrap within the calls made.  Five rows hold two blocks with rows
before, between and after every prefix.  In `ConnHandler` a byte has four values,
the first read takes three bytes and later ones two, instead of 256, 8 and 256:
the same cases occur (a body inside the first read, or partly beyond it; one and
more later reads, with a rest).  In `api` four calls and a `seq` of three values
let it wrap, its last number meet a result still held, and a key be released in
any order between two calls, that of one database while a call is on another;
`api_short` has no wrap.  `Op` leaves out `incr_decr` there, which ends as `update`
does.

Runs of bounded histories stop when the bound is reached; their configurations
say `CHECK_DEADLOCK FALSE`.  A thread that waits for ever is found by the liveness
properties instead.

### Fairness

Threads and workers keep running: weak fairness of `Step` for each thread.  It
includes taking a lock: with bounded calls every lock becomes free for good, so
that weak fairness is enough and no fair queueing is asked of `std::mutex` or
`LockSet`.  In `NdbC` this includes the mutex `mu`; nothing is assumed of when the
program calls or releases.  For a connection, the event loop calls the handler of a registered
descriptor again (the sockets are taken to be level-triggered), unregisters one
that has failed, and the client sends and receives; nothing is assumed of clients
that leave or of interrupts.

## Theorems

All are for every set of threads, keys and calls, and every bound.

`NdbProofs`: `TypeCorrect`, `LocksCorrect`, and, assuming `CountersApart`,
`NoLostUpdate`, `IdsCorrect` and `Refinement`.  The lock invariant says that a
thread past `LockKey` holds the lock of its key, so that no two are between the
read and the write of one key.  With it the value to be put follows from the
stored one (`CurrentAt`), which other threads leave alone: that is
`ReadStaysCurrent`, and also what makes the step `PutCounter` the step `IncrDecr`
of `LinearStore`.  For `IdsIncrease` the invariant adds that the stored counter is
the last of `issued` and below its bound, so that the next does not wrap.

`CallShort`, in `NdbProofs`, `ManagerProofs` and `NdbCProofs`, is the safety half of
`EveryCallReturns`.  `StepsLeft` goes down with every step of a call and does not
change with those of others, whatever fails; and `WaitsForRunning` says that the lock
a call waits for is in the hands of a thread past its own waiting, so that threads
never wait for each other in a circle.  A release of `NdbC` erases its keys one by
one, so that the variant counts them, which needs that they are finitely many
(`Finite`).

`NdbQueryProofs`: `QuerySound` and `IteratorValid`.  The invariant adds where the
iterator is relative to the results: beyond them all in the order of the scan.
`ForwardComplete` and `BelowComplete`, that the results are all that was asked for,
need more (`OnTrack`): the rows that the scan passes over make up a *track*; the
iterator stands on a row of it, as many of them lie behind as the offset has
counted, and the results are those due among the rows behind.  Each move leads to the
next row of the track, so that no row is left out between two that are returned; how
far one has come is the cardinality of the set of rows behind.  `QueryShort` is a
variant: `StepsLeft`, which starts at the number of rows and four, is less after
every step of the query and the same after a write of another thread.
`ScanComplete` has all directions at once: the results are those asked for whenever
`Exactly`, which adds `<=` where exactly one row matches (`OneMatch`), and an end that
is not past the starting point (`EndIdle`), so that it stops nothing; `query_backward`
and `query_end` are what remains.

These are about ranks, and `FactsHold` and `ScanReadsBytes` carry them to bytes.
`FactsHold` proves what `NdbQuery` assumes of its rows and queries, for every database
of keys and all arguments: rows with one prefix follow each other (`PrefixBetween`),
as whatever lies between two of them in the order of bytes has the prefix too, and
those below the prefix are in its block or an earlier one (`DiscrimGrows`).
`ScanReadsBytes` proves that a rank is compared as the code compares bytes, the
`memcmp` with `seekpos2` included, for rows at least as long as it.  The lemmas on
`Below` and `LowerTo` rest on the first place where two keys differ.

`KeyOfIndexRow` is about bytes: whatever value stands before it, zeros included,
the key found in an index row is the one it was made with, if none of its
components but the last ends with a zero byte (the last byte of an entity's
component holds the type of the entry, which is never zero).  A zero found too early would be at a distance of eight times d from
the end, which is the last byte of one of those components.  `KeysHandedOut` puts
this together with the scan: `ResultsAreKeys` for every database, every call and
whatever is written meanwhile.

`ManagerProofs`: `TypeCorrect`, `MapsCorrect`, `OpensAreShared`, `DirectoryRefinement` and, when
`-perkind` is given, `Colocation`.  The invariant says that a database is open
without an entry in the maps only while the thread that holds `mu_` is about to
enter it, and that a thread about to open one has not found it in the maps.
`DirectoryRefinement` needs both: they are why a call that opens, or fails to, has
no open database to serve from (`NotOpen`), as a `Refuse` of `Directory` demands, and
a call that finds an entry has one.  `Answering` ties what a thread has been
answered to where it is.
`NeverForgottenAlways`, again with `-perkind`: what has been served is on disk
(`Remembered`), and only a clearing start takes it away, along with the history;
so `missing`, which needs a place that is not on disk, cannot follow.

`ReqHandlerProofs`: `TypeCorrect`; `RefusedWrites` and `OkAllWritten` from
`Progress`, which says that nothing is written before all keys have been routed and
that from then on the databases written and those pending make up those of the
update; and `SplitIsOne`.  For the last, `Divided` says that until a database is
written, its batch does to each of its keys what the writes routed so far do
(`LastAmong` of `NdbDataProofs` is the last write to a key: the effect of a batch
depends on nothing else), and `Effective` that a key holds what the whole update
leaves if its database has been written, and what it held otherwise, as long as no
other request writes (`quiet`).  Keys of different databases do not meet, so the
order of the unordered map makes no difference.  `RequestShort` is the variant behind
`EveryRequestHandled`: keys still to be routed count twice, as each may be read or
add a batch that is written later, and the batches pending are finitely many
(`FinitelyMany`), whatever the number of databases.

`ConnHandlerProofs`: `RepliesOrdered` and `SessionRefinement`, for every size of
buffers and replies and every order of reads, writes, interrupts and clients.  The
invariant ties what has been given to where the machine is (`Progress`): while it is
writing the n-th reply, n - 1 whole replies and the first `cursor_` parts of the
n-th have been given; otherwise whole replies only, except after a failure, when
nothing is given any more.  `RepliesInOrder` alone is not inductive: it does not
know that the next part written is the next of its reply.  With the invariant each
step is one of `Session` or a stutter.  `ConnTyped` adds that a connection begins
with a clean machine.

`HandedExactly` is about the stream of a client, which is the concatenation of its
requests, cut by `read` wherever it likes.  Its hypothesis is `MeasuredScripts`: the
length in each request is the one that the server takes its body to have (or one it
refuses); TLC checks with `AllMeasured` that the scripts of the instances are such.
The invariant `WholeInv` says that between requests the bytes taken are the frames of
the requests handed, and within a request those frames and the `in_` read so far
(`Place`, `Within`).  So a read that fills the buffer for a request ends where its
frame ends, and never takes a byte of the next.  The lemmas on streams (`FlattenIs`
to `CompleteIs`) are inductions over the number of requests: `UpTo` of `Extremes`
does them with the set of numbers for which a claim holds, without a theorem that
takes an operator as its parameter.

`CallShort` is a variant of a call of the handler.  `StepsLeft` is less after each of
its steps but a retry after EINTR, and no greater whatever the client or a signal
does: the bytes that have been sent and not been read count twice, as a read may be
followed by another.  Bytes still to be sent count from the start, so that a client
that keeps sending does not keep a worker in one call.

`NdbCProofs`: `TypeCorrect`, `HeldStaysLiveAlways`, `HandlesOpenAlways` and
`NothingLeaksEver`, for any number of threads, calls and keys.  The core of the
invariant is `Ages`: unless it is in `lapped`, a key is as far behind `seq` as its
call is behind the last one, so that two calls in use never have one such key
(`SameKey`), and to enter or erase a key destroys nothing of another, before and
after the wrap.  `NothingLeaksEver` holds for
every key: it rests on `Owned` and `Reachable` only, each freeinfo having
one owner and each key of `mfree` somebody who will release it.

Only checked by TLC:

- Liveness: `EveryCallReturns` (three modules), `QueryReturns`, `EveryRequestHandled`,
  `EveryRequestAnswered` and `CallsEnd`.  But for `EveryRequestAnswered`
  of `ConnHandler`, which depends on the event loop and the client, the safety half is
  proved for every instance: the variants `CallShort` (four modules), `QueryShort` and
  `RequestShort`.  That a step is enabled and, as fairness says, taken, is what is left
  to TLC.

## Not modelled

- The bytes of the codec; sizes, caches and malformed numbers in the init file;
  logging.
- Signals and shutdown in `main`: `close`, `run` and `wait` belong to
  `ugorji::conn`, as does the question whether two threads ever use one
  `ConnHandler`, or SIGPIPE is ignored.
- Keys shorter than a component, and than `seekpos2`.
- A crash of the machine: what RocksDB then keeps is not decided by this code.
- `getViaIter`, which is switched off; `handler.cc`, `c.cc` and `c.h`, which are not
  built.

## Left for later

1. `ReqHandler` behind `Session`: what a client may rely on of the content of
   replies, across connections.
