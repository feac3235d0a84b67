----------------------------- MODULE MCNdbQuery -----------------------------
(***************************************************************************)
(* Small instances of NdbQuery, made from keys byte by byte (NdbRows): two *)
(* index rows, an entity with its metadata, and its child.  Queries start  *)
(* on, before and between the rows of both blocks.                         *)
(***************************************************************************)
EXTENDS NdbRows

Component(discrim, shard, id, kind, last) == <<16 * discrim, shard, 0, 0, 0, id, kind, last>>

\* The last byte of an entity is its shape and the type of the entry.
User     == Component(D_ENTITY, 1, 5, 17, 8 + E_DATA)
UserMeta == Component(D_ENTITY, 1, 5, 17, 8 + 1)
Profile  == User \o Component(D_ENTITY, 1, 6, 25, 8 + E_DATA)

\* Eight bytes before the demarcation of the second row there is another zero.
IndexRow(value, key) == <<16 * D_INDEX, 17, 7>> \o value \o <<0>> \o key
MCRowKey   == <<IndexRow(<<5>>, User), IndexRow(<<6, 0, 1, 1, 1, 1, 1, 1, 1>>, Profile), UserMeta, User, Profile>>
MCEntityOf == <<User, Profile, UserMeta, User, Profile>>

MCDiscrim == [r \in Row |-> DiscrimOf(RowKey[r])]
MCQuery   == {Facts(c) : c \in Call}

SeekPos1 ==
    {<<16 * d, b>> : d \in {D_INDEX, D_ENTITY}, b \in {0, 1, 17, 255}}
        \cup UNION {{RowKey[r], RowKey[r] \o <<0>>} : r \in Row}

CallOf(kind, s1, s2, kindid, offset, limit) ==
    [op |-> kind[1], ancestor |-> kind[2], cursor |-> kind[3], seekpos1 |-> s1, seekpos2 |-> s2,
     kindid |-> kindid, shapeid |-> 0, offset |-> offset, limit |-> limit]

\* The operators, with a cursor where it makes a difference.
Kinds == (Ops \X {FALSE} \X {FALSE}) \cup ({"gt", "lt"} \X {FALSE} \X {TRUE})
             \cup ({"other"} \X {TRUE} \X BOOLEAN)

MCCall ==
    {CallOf(k, s, <<>>, kindid, offset, limit) :
        s \in SeekPos1, k \in Kinds \cup {<<"other", FALSE, FALSE>>}, kindid \in {0, 25},
        offset \in 0 .. 1, limit \in {1, 5}}

\* Queries that are given an end: in one row, or in all of a block.
MCCallEnds ==
    {CallOf(<<op, FALSE, FALSE>>, s1, s2, 0, 0, 5) :
        s1 \in SeekPos1, op \in Ops, s2 \in {<<16, 17, 7, 5>>, <<16, 17, 7>>, User}}

=============================================================================
