----------------------------- MODULE ReqHandler -----------------------------
(***************************************************************************)
(* ReqHandler::handle (ugorji/ndb/conn.cc): one request, over several      *)
(* databases, while other workers handle theirs.                           *)
(*                                                                         *)
(* The keys of a request are routed one by one by Manager::ndbForKey,      *)
(* which always finds a key in the same database (Colocated in module      *)
(* Manager) and may fail.  Each call of class Ndb is one atomic step       *)
(* (Linearizable in module Ndb) and may fail.  An update is split in one   *)
(* batch per database, and the batches are written one after the other.    *)
(***************************************************************************)
EXTENDS NdbData

CONSTANTS
    Db,          \* the databases
    DbOf,        \* the database of each key
    NoDb,        \* that of a key that ndbForKey refuses
    Query,       \* the queries that may be made
    Count,       \* the increments and decrements that may be asked for
    MaxRequests, \* bound on the number of requests
    MaxCrashes   \* bound on the number of crashes

QueryCall == [op : {"query"}, from : Key]

\* In a request delta and initVal are as wide as a counter.
CountCall == [op : {"incrdecr"}, key : Key, incr : BOOLEAN, delta : Counter, init : Counter]

\* A request for a method that does not exist, and one for N with parameters that
\* are missing or of other types.
Unknown == [op |-> "unknown"]
Invalid == [op |-> "invalid"]
Request == Call \cup Query \cup Count \cup {Unknown, Invalid}

ASSUME RequestAssumption ==
    /\ DbOf \in [Key -> Db \cup {NoDb}] /\ NoDb \notin Db
    /\ Query \subseteq QueryCall
    /\ Count \subseteq CountCall
    /\ NoCall \notin Request
    /\ MaxRequests \in Nat /\ MaxCrashes \in Nat

VARIABLES
    content,   \* of all the databases together
    pc,        \* where each worker is
    req,       \* the request it handles
    at,        \* how many of its keys have been routed
    batches,   \* db2bt: what is to be written in each database
    cx,        \* the values that a retrieve has read
    out1,      \* the error in the reply, "" if there is none
    out2,      \* the result in the reply
    base,      \* history: the content when the request came
    quiet,     \* history: no other request has written since
    wrote,     \* history: the databases that the request has written
    requests,
    crashes

locals == <<at, batches, cx, out1, out2>>
vars   == <<content, pc, req, locals, base, quiet, wrote, requests, crashes>>

----------------------------------------------------------------------------
\* A result: nil, an integer, an array, or an array in memory freed by the time
\* it is encoded.
Result(kind, data) == [kind |-> kind, data |-> data]
Nil == Result("nil", <<>>)

NoBatches == [d \in Db |-> <<>>]

Keys(s) == [i \in DOMAIN s |-> s[i].key]

\* The keys of a request in the order in which they are routed.
Routed(r) ==
    CASE r.op = "update"   -> Keys(Batch(r))
      [] r.op = "gets"     -> r.keys
      [] r.op = "incrdecr" -> <<r.key>>
      [] r.op = "query"    -> <<r.from>>
      [] r.op \in {"unknown", "invalid"} -> <<>>

\* The key a worker has just routed, or is about to route.
KeyAt(t)    == Routed(req[t])[at[t]]
NextKey(t)  == Routed(req[t])[at[t] + 1]
MoreKeys(t) == at[t] < Len(Routed(req[t]))

Init ==
    /\ content = InitDb
    /\ pc = [t \in Thread |-> "idle"]
    /\ req = [t \in Thread |-> NoCall]
    /\ at = [t \in Thread |-> 0]
    /\ batches = [t \in Thread |-> NoBatches]
    /\ cx = [t \in Thread |-> <<>>]
    /\ out1 = [t \in Thread |-> ""]
    /\ out2 = [t \in Thread |-> Nil]
    /\ base = [t \in Thread |-> InitDb]
    /\ quiet = [t \in Thread |-> FALSE]
    /\ wrote = [t \in Thread |-> {}]
    /\ requests = 0
    /\ crashes = 0

Goto(t, l) == pc' = [pc EXCEPT ![t] = l]

\* serr is put in the reply, and the switch is left.
Fail(t, e) ==
    /\ out1' = [out1 EXCEPT ![t] = e]
    /\ Goto(t, "reply")
    /\ UNCHANGED <<content, req, at, batches, cx, out2, base, quiet, wrote, requests, crashes>>

\* A write by t disturbs the others.
Disturb(t) == quiet' = [u \in Thread |-> quiet[u] /\ (u = t)]

\* handle is called with a request that decodes.
Accept(t) ==
    /\ pc[t] = "idle"
    /\ requests < MaxRequests
    /\ requests' = requests + 1
    /\ req' \in {[req EXCEPT ![t] = r] : r \in Request}
    /\ base' = [base EXCEPT ![t] = content]
    /\ quiet' = [quiet EXCEPT ![t] = TRUE]
    /\ wrote' = [wrote EXCEPT ![t] = {}]
    /\ Goto(t, "switch")
    /\ UNCHANGED <<content, locals, crashes>>

\* The default of the switch, and the test of the parameters of N.
Reject(t) ==
    /\ pc[t] = "switch"
    /\ req[t].op \in {"unknown", "invalid"}
    /\ Fail(t, IF req[t].op = "unknown" THEN "method" ELSE "input")

\* ndbForKey fails.
RouteFails(t) ==
    /\ pc[t] = "switch" /\ MoreKeys(t)
    /\ Fail(t, IF DbOf[NextKey(t)] = NoDb THEN "route" ELSE "fault")

\* Fault: an update is written database by database while its keys are routed.
RouteAndWrite(t) ==
    /\ pc[t] = "switch" /\ MoreKeys(t)
    /\ DbOf[NextKey(t)] # NoDb
    /\ at' = [at EXCEPT ![t] = @ + 1]
    /\ IF req[t].op = "update"
       THEN /\ content' = Applied(content, <<Batch(req[t])[at[t] + 1]>>)
            /\ wrote' = [wrote EXCEPT ![t] = @ \cup {DbOf[NextKey(t)]}]
            /\ Disturb(t)
            /\ UNCHANGED pc
       ELSE Goto(t, "call") /\ UNCHANGED <<content, wrote, quiet>>
    /\ UNCHANGED <<req, batches, cx, out1, out2, base, requests, crashes>>

\* Fault: one list of writes per database, each write put in front.
RouteReversed(t) ==
    /\ pc[t] = "switch" /\ MoreKeys(t)
    /\ DbOf[NextKey(t)] # NoDb
    /\ at' = [at EXCEPT ![t] = @ + 1]
    /\ IF req[t].op = "update"
       THEN /\ batches' = [batches EXCEPT ![t][DbOf[NextKey(t)]] = <<Batch(req[t])[at[t] + 1]>> \o @]
            /\ UNCHANGED pc
       ELSE Goto(t, "call") /\ UNCHANGED batches
    /\ UNCHANGED <<content, req, cx, out1, out2, base, quiet, wrote, requests, crashes>>

\* ndbForKey succeeds: a put or a delete is added to the batch of its database,
\* any other call is made at once.
Route(t) ==
    /\ pc[t] = "switch" /\ MoreKeys(t)
    /\ DbOf[NextKey(t)] # NoDb
    /\ at' = [at EXCEPT ![t] = @ + 1]
    /\ IF req[t].op = "update"
       THEN /\ batches' = [batches EXCEPT ![t][DbOf[NextKey(t)]] = Append(@, Batch(req[t])[at[t] + 1])]
            /\ UNCHANGED pc
       ELSE Goto(t, "call") /\ UNCHANGED batches
    /\ UNCHANGED <<content, req, cx, out1, out2, base, quiet, wrote, requests, crashes>>

\* Every key is routed.
RouteEnd(t) ==
    /\ pc[t] = "switch" /\ ~ MoreKeys(t)
    /\ req[t].op \notin {"unknown", "invalid"}
    /\ Goto(t, IF req[t].op = "update" THEN "write" ELSE "reply")
    /\ UNCHANGED <<content, req, locals, base, quiet, wrote, requests, crashes>>

Pending(t) == {d \in Db : batches[t][d] # <<>>}

\* Fault: the error of one database is forgotten.
WriteBatchOn(t) ==
    /\ pc[t] = "write"
    /\ \E d \in Pending(t) :
        /\ batches' = [batches EXCEPT ![t][d] = <<>>]
        /\ \/ /\ content' = Applied(content, batches[t][d])
              /\ wrote' = [wrote EXCEPT ![t] = @ \cup {d}]
              /\ Disturb(t)
           \/ UNCHANGED <<content, wrote, quiet>>
    /\ UNCHANGED <<pc, req, at, cx, out1, out2, base, requests, crashes>>

\* Fault: the same batch is written again and again.
WriteBatchAgain(t) ==
    /\ pc[t] = "write"
    /\ \E d \in Pending(t) :
        \/ /\ content' = Applied(content, batches[t][d])
           /\ wrote' = [wrote EXCEPT ![t] = @ \cup {d}]
           /\ Disturb(t)
           /\ UNCHANGED <<pc, req, at, batches, cx, out1, out2, base, requests, crashes>>
        \/ Fail(t, "fault")

\* update on one database after another, in the order of an unordered_map.
WriteBatch(t) ==
    /\ pc[t] = "write"
    /\ \E d \in Pending(t) :
        \/ /\ content' = Applied(content, batches[t][d])
           /\ batches' = [batches EXCEPT ![t][d] = <<>>]
           /\ wrote' = [wrote EXCEPT ![t] = @ \cup {d}]
           /\ Disturb(t)
           /\ UNCHANGED <<pc, req, at, cx, out1, out2, base, requests, crashes>>
        \/ Fail(t, "fault")

WriteEnd(t) ==
    /\ pc[t] = "write" /\ Pending(t) = {}
    /\ Goto(t, "reply")
    /\ UNCHANGED <<content, req, locals, base, quiet, wrote, requests, crashes>>

\* get of one key: a value, or the end of the request.
Get(t) ==
    /\ pc[t] = "call" /\ req[t].op = "gets"
    /\ \/ Fail(t, "fault")
       \/ content[KeyAt(t)] = Absent /\ Fail(t, "not_found")
       \/ /\ content[KeyAt(t)] # Absent
          /\ cx' = [cx EXCEPT ![t] = Append(@, content[KeyAt(t)])]
          /\ Goto(t, "switch")
          /\ UNCHANGED <<content, req, at, batches, out1, out2, base, quiet, wrote, requests, crashes>>

\* delta and initVal are cast to uint16_t.
Cast(r) == [r EXCEPT !.delta = @ % ShortMod, !.init = @ % ShortMod]

\* incrdecr.
IncrDecr(t) ==
    LET k == KeyAt(t)
        v == Stepped(Cast(req[t]), content[k])
    IN  /\ pc[t] = "call" /\ req[t].op = "incrdecr"
        /\ \/ Fail(t, "fault")
           \/ content[k] \in Blob /\ Fail(t, "bad_size")
           \/ /\ content[k] \notin Blob
              /\ content' = [content EXCEPT ![k] = v]
              /\ Disturb(t)
              /\ wrote' = [wrote EXCEPT ![t] = {DbOf[k]}]
              /\ out2' = [out2 EXCEPT ![t] = Result("int", <<v>>)]
              /\ Goto(t, "reply")
              /\ UNCHANGED <<req, at, batches, cx, out1, base, requests, crashes>>

\* query: the row it starts at stands for the rows it returns (module NdbQuery).
\* The slices it leaves in the result point into an iterator that it deletes.
DoQuery(t) ==
    LET v == content[KeyAt(t)]
    IN  /\ pc[t] = "call" /\ req[t].op = "query"
        /\ \/ Fail(t, "fault")
           \/ /\ out2' \in {[out2 EXCEPT ![t] = r] :
                               r \in IF v = Absent THEN {Result("array", <<>>)}
                                     ELSE {Result("array", <<v>>), Result("freed", <<>>)}}
              /\ Goto(t, "reply")
              /\ UNCHANGED <<content, req, at, batches, cx, out1, base, quiet, wrote, requests, crashes>>

\* The reply is encoded, or encoding it fails and handle returns *err instead (which
\* of the two ends the connection is in ProcessFd of ConnHandler); the locals die.
Encode(t) ==
    /\ pc[t] = "reply"
    /\ Goto(t, "idle")
    /\ req' = [req EXCEPT ![t] = NoCall]
    /\ at' = [at EXCEPT ![t] = 0]
    /\ batches' = [batches EXCEPT ![t] = NoBatches]
    /\ cx' = [cx EXCEPT ![t] = <<>>]
    /\ out1' = [out1 EXCEPT ![t] = ""]
    /\ out2' = [out2 EXCEPT ![t] = Nil]
    /\ UNCHANGED <<content, base, quiet, wrote, requests, crashes>>

\* The process dies and is started again: requests are lost, the content is not.
Crash ==
    /\ crashes < MaxCrashes
    /\ crashes' = crashes + 1
    /\ pc' = [t \in Thread |-> "idle"]
    /\ req' = [t \in Thread |-> NoCall]
    /\ at' = [t \in Thread |-> 0]
    /\ batches' = [t \in Thread |-> NoBatches]
    /\ cx' = [t \in Thread |-> <<>>]
    /\ out1' = [t \in Thread |-> ""]
    /\ out2' = [t \in Thread |-> Nil]
    /\ UNCHANGED <<content, base, quiet, wrote, requests>>

Step(t) ==
    \/ Reject(t)
    \/ RouteFails(t)
    \/ Route(t)
    \/ RouteEnd(t)
    \/ WriteBatch(t)
    \/ WriteEnd(t)
    \/ Get(t)
    \/ IncrDecr(t)
    \/ DoQuery(t)
    \/ Encode(t)

Next == (\E t \in Thread : Accept(t) \/ Step(t)) \/ Crash

Spec == Init /\ [][Next]_vars

\* Every worker keeps running.
FairSpec == Spec /\ \A t \in Thread : WF_vars(Step(t))

----------------------------------------------------------------------------
(***************************************************************************)
(* Properties.                                                             *)
(***************************************************************************)

\* Every variable has its type; only an update holds batches.
TypeOK ==
    /\ content \in [Key -> Stored]
    /\ pc \in [Thread -> {"idle", "switch", "call", "write", "reply"}]
    /\ req \in [Thread -> Request \cup {NoCall}]
    /\ at \in [Thread -> Nat]
    /\ batches \in [Thread -> [Db -> Seq([key : Key, value : Stored])]]
    /\ cx \in [Thread -> Seq(Value)]
    /\ out1 \in [Thread -> {"", "method", "input", "route", "fault", "not_found", "bad_size"}]
    /\ out2 \in [Thread -> [kind : {"nil", "int", "array", "freed"}, data : Seq(Value)]]
    /\ base \in [Thread -> [Key -> Stored]]
    /\ quiet \in [Thread -> BOOLEAN]
    /\ wrote \in [Thread -> SUBSET Db]
    /\ requests \in 0 .. MaxRequests
    /\ crashes \in 0 .. MaxCrashes

Updating(t) == pc[t] # "idle" /\ req[t].op = "update"

\* An update with a key that belongs to no database writes in none: all its
\* keys are routed before the first batch is written.
RefusedWritesNothing ==
    \A t \in Thread :
        Updating(t) /\ (\E k \in Written(req[t]) : DbOf[k] = NoDb) => wrote[t] = {}

\* An update answered without an error has been written in every database that
\* it has a key of.
OkMeansAllWritten ==
    \A t \in Thread :
        Updating(t) /\ pc[t] = "reply" /\ out1[t] = "" =>
            wrote[t] = {DbOf[k] : k \in Written(req[t])}

\* Splitting an update by database changes nothing of its effect: one that
\* succeeds undisturbed leaves what a single batch of all its puts and then all
\* its deletes would have left.
SplitAsOne ==
    \A t \in Thread :
        Updating(t) /\ pc[t] = "reply" /\ out1[t] = "" /\ quiet[t] =>
            content = Applied(base[t], Batch(req[t]))

\* Every request is handled to its end.
EveryRequestHandled == \A t \in Thread : pc[t] # "idle" ~> pc[t] = "idle"

\* doc.md:58: a retrieve gives back an array.  The reply holds the values read.
RetrieveAnswers ==
    \A t \in Thread :
        pc[t] = "reply" /\ req[t].op = "gets" /\ out1[t] = "" => out2[t] = Result("array", cx[t])

=============================================================================
