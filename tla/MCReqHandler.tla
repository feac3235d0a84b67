---------------------------- MODULE MCReqHandler ----------------------------
(***************************************************************************)
(* Small instances of ReqHandler: an id generator and an entity in one     *)
(* database, an index row in another, and a key that belongs to none.      *)
(***************************************************************************)
EXTENDS ReqHandler, TLC

CONSTANTS gen, ent, idx, bad, blob, blob2, data, index

MCKey    == {gen, ent, idx, bad}
MCBlob   == {blob, blob2}
MCDb     == {data, index}
MCDbOf   == (gen :> data) @@ (ent :> data) @@ (idx :> index) @@ (bad :> NoDb)
MCInitDb == (gen :> 15) @@ (ent :> blob) @@ (idx :> Absent) @@ (bad :> Absent)

Put(k, v) == [key |-> k, value |-> v]
Update(puts, dels) == [op |-> "update", puts |-> puts, dels |-> dels]

\* A delta that is cut to one.
CountUp(k) == [op |-> "incrdecr", key |-> k, incr |-> TRUE, delta |-> 5, init |-> 0]

\* A new entity and its row; the entity moves, its row is deleted and put;
\* updates with a key that is refused, first and last.
MCUpdates ==
    {Update(<<Put(ent, blob2), Put(idx, blob2)>>, <<>>),
     Update(<<Put(ent, blob), Put(ent, blob2), Put(idx, blob)>>, <<idx>>),
     Update(<<Put(ent, blob2), Put(bad, blob2)>>, <<>>),
     Update(<<Put(idx, blob)>>, <<bad>>)}

MCCall  == MCUpdates \cup {[op |-> "gets", keys |-> <<ent, idx>>]}
MCCount == {CountUp(gen), CountUp(ent)}
MCQuery == {[op |-> "query", from |-> ent], [op |-> "query", from |-> idx]}

=============================================================================
