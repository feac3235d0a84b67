------------------------------ MODULE NdbQuery ------------------------------
(***************************************************************************)
(* Ndb::query (ugorji/ndb/ndb.cc): a scan of the rows of one database with *)
(* a RocksDB iterator, while other threads go on writing.                  *)
(*                                                                         *)
(* Row keys are abstracted to their rank in COMPARATOR order.  All that    *)
(* the scan asks of the bytes is then four facts about a query: the first  *)
(* rank not below seekpos1, the last rank that has seekpos1 as a prefix    *)
(* (these ranks follow each other and start at the first), the ranks that  *)
(* agree with seekpos2 on its length, and the block of each row, which is  *)
(* its discriminator.  A row is no shorter than seekpos2.  Module NdbRows   *)
(* takes these facts from the bytes.                                       *)
(***************************************************************************)
EXTENDS Integers, Sequences, FiniteSetsExt

CONSTANTS
    LastRow,   \* number of row keys that can exist
    Discrim,   \* the discriminator of each row key: 1 index, 2 entity, 3 id generator
    Query,     \* the queries that may be made
    NoQuery,   \* what an idle thread queries
    MaxWrites  \* bound on the writes of other threads

Row == 1 .. LastRow

\* The iterator is invalid when it is before the first or after the last row.
Position == 0 .. LastRow + 1

Ops == {"eq", "gte", "gt", "lte", "lt"}

QueryRecord ==
    [op : Ops \cup {"other"},   \* lastFilterOp
     ancestor : BOOLEAN,        \* ancestorOnlyC
     cursor : BOOLEAN,          \* withCursor
     block : 0 .. 15,           \* seekpos1[0] >> 4
     from : 1 .. LastRow + 1,   \* first row >= seekpos1
     thru : 0 .. LastRow,       \* last row with the prefix seekpos1; from - 1 if none
     ends : BOOLEAN,            \* seekpos2 is not empty
     lo : 1 .. LastRow + 1,     \* rows lo .. hi have the prefix seekpos2
     hi : 0 .. LastRow,
     kept : SUBSET Row,         \* rows that pass the kindid and shapeid filter
     offset : Nat,
     limit : Nat]

ASSUME RowAssumption ==
    /\ LastRow \in Nat
    /\ Discrim \in [Row -> 0 .. 15]
    /\ \A r, s \in Row : r < s => Discrim[r] <= Discrim[s]
    /\ MaxWrites \in Nat

\* The rows with the prefix seekpos1 lie in its block, those before seekpos1 in
\* that block or an earlier one, and the others in that block or a later one.
QueryFacts(q) ==
    /\ q.thru >= q.from - 1
    /\ q.hi >= q.lo - 1
    /\ \A r \in q.from .. q.thru : Discrim[r] = q.block
    /\ \A r \in Row : r < q.from => Discrim[r] <= q.block
    /\ \A r \in Row : r >= q.from => Discrim[r] >= q.block

ASSUME QueryAssumption ==
    /\ Query \subseteq QueryRecord
    /\ NoQuery \notin Query
    /\ \A q \in Query : QueryFacts(q)

----------------------------------------------------------------------------
(***************************************************************************)
(* The flags that query derives from its arguments.                        *)
(***************************************************************************)
Forward(q)        == q.ancestor \/ q.op \in {"eq", "gte", "gt"}
\* Fault: < is not told to skip a row.
SkipsAncestor(q)  == ~ q.cursor /\ q.ancestor
SkipsOne(q)       == ~ q.cursor /\ (q.ancestor \/ q.op = "lt")
SkipsMatch(q)     == ~ q.cursor /\ ~ q.ancestor /\ q.op \in {"gt", "lt"}
StopsUnmatched(q) == q.ancestor \/ q.op = "eq"
HasEnd(q)         == q.ends /\ ~ q.ancestor

\* The row has the prefix seekpos1.
Matches(q, r) == q.from <= r /\ r <= q.thru

\* The iterator's Next, Prev and Seek in a view of the rows.
After(v, r)   == Min({s \in v : s > r} \cup {LastRow + 1})
Before(v, r)  == Max({s \in v : s < r} \cup {0})
Advanced(q, v, r) == IF Forward(q) THEN After(v, r) ELSE Before(v, r)

\* The row ends the scan: it lies in another block, does not match, or fails
\* the comparison with seekpos2, which holds before the end when going
\* forward and after it when going back.
LeavesBlock(q, r) == Discrim[r] # q.block
Unmatched(q, r)   == StopsUnmatched(q) /\ ~ Matches(q, r)
FailsEnd(q, r)    == HasEnd(q) /\ IF Forward(q) THEN r < q.lo ELSE r > q.hi
\* Fault: the block test is left out.
StopsAnywhere(q, r) == Unmatched(q, r) \/ FailsEnd(q, r)
Stops(q, r) == LeavesBlock(q, r) \/ Unmatched(q, r) \/ FailsEnd(q, r)

----------------------------------------------------------------------------
VARIABLES
    rows,     \* the rows of the database
    pc,       \* where the query is
    query,    \* its arguments
    view,     \* the rows its iterator sees
    pos,      \* the row the iterator is at
    left,     \* how many rows of offset are still to be passed over
    results,  \* the rows given to iterFn
    err,      \* "", "op" for a bad operator, "fault" for the iterator's status
    writes    \* number of writes so far

scan == <<query, view, pos, left, results, err>>
vars == <<rows, pc, scan, writes>>

Scanning == {"seek", "skip_one", "skip_match", "offset", "scan"}
Pc == {"idle", "done"} \cup Scanning

Init ==
    /\ rows \in SUBSET Row
    /\ pc = "idle"
    /\ query = NoQuery
    /\ view = {}
    /\ pos = 0
    /\ left = 0
    /\ results = <<>>
    /\ err = ""
    /\ writes = 0

\* The operator is checked before the iterator is made, with a view of the
\* database as it then is.
Open ==
    /\ pc = "idle"
    /\ \E q \in Query :
        /\ query' = q
        /\ left' = q.offset
        /\ IF q.ancestor \/ q.op \in Ops
           THEN view' = rows /\ pc' = "seek" /\ UNCHANGED err
           ELSE err' = "op" /\ pc' = "done" /\ UNCHANGED view
    /\ UNCHANGED <<rows, pos, results, writes>>

\* Fault: Valid() is not asked before the key is used.
MoveBlindly(p, l) == pos' = p /\ pc' = l

\* The iterator moves to p; the query ends if that is no row.
MoveTo(p, l) ==
    /\ pos' = p
    /\ pc' = IF p \in Row THEN l ELSE "done"

Stay(l) == pc' = l /\ UNCHANGED pos

Seek ==
    /\ pc = "seek"
    /\ MoveTo(After(view, query.from - 1), "skip_one")
    /\ UNCHANGED <<rows, query, view, left, results, err, writes>>

\* Going forward only a match is skipped, going back any row.
SkipOne ==
    /\ pc = "skip_one"
    /\ IF SkipsOne(query) /\ (Forward(query) => Matches(query, pos))
       THEN MoveTo(Advanced(query, view, pos), "skip_match")
       ELSE Stay("skip_match")
    /\ UNCHANGED <<rows, query, view, left, results, err, writes>>

\* Fault: one match is skipped, not all.
SkipFirst ==
    /\ pc = "skip_match"
    /\ IF SkipsMatch(query) /\ Matches(query, pos)
       THEN MoveTo(Advanced(query, view, pos), "offset")
       ELSE Stay("offset")
    /\ UNCHANGED <<rows, query, view, left, results, err, writes>>

SkipMatch ==
    /\ pc = "skip_match"
    /\ IF SkipsMatch(query) /\ Matches(query, pos)
       THEN MoveTo(Advanced(query, view, pos), "skip_match")
       ELSE Stay("offset")
    /\ UNCHANGED <<rows, query, view, left, results, err, writes>>

Offset ==
    /\ pc = "offset"
    /\ IF left > 0
       THEN MoveTo(Advanced(query, view, pos), "offset") /\ left' = left - 1
       ELSE Stay("scan") /\ UNCHANGED left
    /\ UNCHANGED <<rows, query, view, results, err, writes>>

\* Fault: a row that is filtered out is not advanced over.
ScanStuck ==
    /\ pc = "scan"
    /\ IF Len(results) < query.limit /\ ~ Stops(query, pos)
       THEN IF pos \in query.kept
            THEN results' = Append(results, pos) /\ MoveTo(Advanced(query, view, pos), "scan")
            ELSE Stay("scan") /\ UNCHANGED results
       ELSE Stay("done") /\ UNCHANGED results
    /\ UNCHANGED <<rows, query, view, left, err, writes>>

\* One round of the main loop.
Scan ==
    /\ pc = "scan"
    /\ IF Len(results) < query.limit /\ ~ Stops(query, pos)
       THEN /\ results' = IF pos \in query.kept THEN Append(results, pos) ELSE results
            /\ MoveTo(Advanced(query, view, pos), "scan")
       ELSE Stay("done") /\ UNCHANGED results
    /\ UNCHANGED <<rows, query, view, left, err, writes>>

\* The iterator becomes invalid because an access to the database failed.
Fault ==
    /\ pc \in Scanning
    /\ pc' = "done"
    /\ err' = "fault"
    /\ UNCHANGED <<rows, query, view, pos, left, results, writes>>

Return ==
    /\ pc = "done"
    /\ pc' = "idle"
    /\ query' = NoQuery
    /\ view' = {}
    /\ pos' = 0
    /\ left' = 0
    /\ results' = <<>>
    /\ err' = ""
    /\ UNCHANGED <<rows, writes>>

\* Another thread puts or deletes a row.
Write ==
    /\ writes < MaxWrites
    /\ writes' = writes + 1
    /\ \E r \in Row : rows' = rows \cup {r} \/ rows' = rows \ {r}
    /\ UNCHANGED <<pc, scan>>

Step == Seek \/ SkipOne \/ SkipMatch \/ Offset \/ Scan \/ Return
Next == Open \/ Step \/ Fault \/ Write
Spec == Init /\ [][Next]_vars

\* The thread that runs the query keeps running.
FairSpec == Spec /\ WF_vars(Step)

----------------------------------------------------------------------------
(***************************************************************************)
(* Properties.                                                             *)
(***************************************************************************)

\* Every variable has its type, and the key of the iterator is only looked at
\* where the iterator is valid, on a row of its view.
TypeOK ==
    /\ rows \subseteq Row
    /\ pc \in Pc
    /\ query \in QueryRecord \cup {NoQuery}
    /\ view \subseteq Row
    /\ pos \in Position
    /\ left \in Nat
    /\ results \in Seq(Row)
    /\ err \in {"", "op", "fault"}
    /\ writes \in 0 .. MaxWrites
    /\ pc \in Scanning \cup {"done"} => query # NoQuery
    /\ pc \in Scanning \ {"seek"} => pos \in view

\* Whatever a query has returned so far is in its view of the database, passes
\* its filter, lies in its block, matches when it must, comes in the order of
\* the scan without repetition, and is no more than the limit.
Ordered(q, r, s) == IF Forward(q) THEN r < s ELSE s < r

Sound ==
    /\ results # <<>> => query # NoQuery /\ Len(results) <= query.limit
    /\ \A i \in DOMAIN results :
        /\ results[i] \in view \cap query.kept
        /\ Discrim[results[i]] = query.block
        /\ StopsUnmatched(query) => Matches(query, results[i])
        /\ \A j \in DOMAIN results : i < j => Ordered(query, results[i], results[j])

\* The rows a query is for, as the comment above Ndb::query describes its
\* operators: those it would return with no offset, filter or limit.
Least(S) == {Min(S)}

Wanted(q, v) ==
    LET matching == {r \in v : Matches(q, r)}
        inBlock  == {r \in v : Discrim[r] = q.block}
    IN  IF q.ancestor
        THEN IF q.cursor \/ matching = {} THEN matching ELSE matching \ Least(matching)
        ELSE CASE q.op = "eq"  -> matching
               [] q.op = "gte" -> {r \in inBlock : r >= q.from}
               [] q.op = "gt"  -> {r \in inBlock : r >= q.from} \ (IF q.cursor THEN {} ELSE matching)
               [] q.op = "lte" -> {r \in inBlock : r <= q.thru}
               [] q.op = "lt"  -> {r \in inBlock : r < q.from}

\* The result as a set: with Rank(S, r) rows of S before r, the rows beyond the
\* offset that pass the filter, the first limit of them.
Rank(q, S, r) == Cardinality({s \in S : Ordered(q, s, r)})

Expected(q, v) ==
    LET kept == {r \in Wanted(q, v) \cap q.kept : Rank(q, Wanted(q, v), r) >= q.offset}
    IN  {r \in kept : Rank(q, kept, r) < q.limit}

Answered == pc = "done" /\ err = ""
Returned == {results[i] : i \in DOMAIN results}

\* A forward query (=, >=, > and ancestor) without an end returns exactly the
\* rows it is for, as they were when it began, whatever is written meanwhile.
ForwardExact == Answered /\ Forward(query) /\ ~ HasEnd(query) => Returned = Expected(query, view)

\* So does <, when a row at or above the starting point exists.
BelowExact ==
    Answered /\ query.op = "lt" /\ ~ query.ancestor /\ ~ query.cursor /\ ~ HasEnd(query)
             /\ (\E r \in view : r >= query.from)
        => Returned = Expected(query, view)

\* ndb.cc:200 and :201 promise it of < and <= in general: they start at -1 seek
\* pos, below the row that Seek finds, and end when no row is left.
BackwardExact ==
    Answered /\ query.op \in {"lt", "lte"} /\ ~ query.ancestor /\ ~ query.cursor /\ ~ HasEnd(query)
        => Returned = Expected(query, view)

\* ndb.cc:329: if the end is set and the scan is past it, it finishes.
PastEndFinishes ==
    query # NoQuery /\ HasEnd(query)
        => \A r \in Returned : IF Forward(query) THEN r <= query.hi ELSE r >= query.lo

\* Every query returns.
QueryReturns == pc # "idle" ~> pc = "idle"

=============================================================================
