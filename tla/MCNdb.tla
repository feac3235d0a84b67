------------------------------- MODULE MCNdb -------------------------------
(***************************************************************************)
(* Small instances of Ndb.  The keys: an id generator that starts absent,  *)
(* a counter that goes up and down and starts at 1, an entity, and a key   *)
(* that holds an entity and is counted by mistake.                         *)
(***************************************************************************)
EXTENDS Ndb, TLC

CONSTANTS gen, cnt, ent, bad, blob, blob2

MCKey    == {gen, cnt, ent, bad}
MCBlob   == {blob, blob2}
MCInitDb == (gen :> Absent) @@ (cnt :> 1) @@ (ent :> Absent) @@ (bad :> blob)

Count(k, incr, delta, init) ==
    [op |-> "incrdecr", key |-> k, incr |-> incr, delta |-> delta, init |-> init]

Put(k, v) == [key |-> k, value |-> v]

Rewrite == [op |-> "update", puts |-> <<Put(ent, blob), Put(ent, blob2)>>, dels |-> <<>>]
Remove  == [op |-> "update", puts |-> <<Put(ent, blob)>>, dels |-> <<ent>>]
Gets    == [op |-> "gets", keys |-> <<gen, ent>>]

\* Ids with two steps; a counter decremented past zero; a misused key; updates and reads.
MCCall ==
    {Count(gen, TRUE, 3, 2), Count(cnt, FALSE, 2, 0), Count(bad, TRUE, 1, 0), Rewrite, Remove, Gets}

=============================================================================
