------------------------------ MODULE NdbRows ------------------------------
(***************************************************************************)
(* Ndb::query on rows of bytes (ugorji/ndb/ndb.cc): how the arguments of a *)
(* query and the keys of the database make the facts by which module       *)
(* NdbQuery scans.                                                         *)
(***************************************************************************)
EXTENDS NdbQuery, NdbKey

CONSTANTS
    RowKey,    \* the key of each row, in COMPARATOR order
    EntityOf,  \* the key of the entity or id generator that a row was put for
    Call       \* the arguments that query may be called with

Bytes == Seq(Byte)

\* seekpos1 has a first byte, which query reads.
CallRecord ==
    [op : Ops \cup {"other"},
     ancestor : BOOLEAN,
     cursor : BOOLEAN,
     seekpos1 : Bytes \ {<<>>},
     seekpos2 : Bytes,
     kindid : Byte,
     shapeid : Byte,
     offset : Nat,
     limit : Nat]

\* memcmp of the first n bytes says equal, or lower.
SameTo(a, b, n)  == \A i \in 1 .. n : a[i] = b[i]
LowerTo(a, b, n) == \E i \in 1 .. n : SameTo(a, b, i - 1) /\ a[i] < b[i]

HasPrefix(ikey, p) == Len(ikey) >= Len(p) /\ SameTo(p, ikey, Len(p))

\* COMPARATOR compares bytes, and puts a key before those it is a prefix of.
Below(a, b) ==
    \E n \in 0 .. Len(a) :
        n < Len(b) /\ SameTo(a, b, n) /\ (n = Len(a) \/ a[n + 1] < b[n + 1])

\* Where the rows not below p begin, and where those with the prefix p end.
WithPrefix(p) == {r \in Row : HasPrefix(RowKey[r], p)}
FirstRow(p)   == Min({r \in Row : ~ Below(RowKey[r], p)} \cup {LastRow + 1})
LastWith(p)   == Max(WithPrefix(p) \cup {FirstRow(p) - 1})

Facts(c) ==
    [op |-> c.op, ancestor |-> c.ancestor, cursor |-> c.cursor,
     block |-> DiscrimOf(c.seekpos1),
     from |-> FirstRow(c.seekpos1), thru |-> LastWith(c.seekpos1),
     ends |-> c.seekpos2 # <<>>,
     lo |-> FirstRow(c.seekpos2), hi |-> LastWith(c.seekpos2),
     kept |-> {r \in Row : EntityBytes(RowKey[r], c.kindid, c.shapeid) # <<>>},
     offset |-> c.offset, limit |-> c.limit]

ASSUME RowKeyAssumption ==
    /\ RowKey \in [Row -> Bytes \ {<<>>}]
    /\ \A r, s \in Row : r < s => Below(RowKey[r], RowKey[s])
    /\ Discrim = [r \in Row |-> DiscrimOf(RowKey[r])]

ASSUME CallAssumption ==
    /\ Call \subseteq CallRecord
    /\ Query = {Facts(c) : c \in Call}

\* A key of n components, none but the last of which ends with a zero byte.
IsKey(ikey) ==
    /\ ikey \in Bytes \ {<<>>}
    /\ Len(ikey) % 8 = 0
    /\ \A i \in 1 .. Len(ikey) \div 8 - 1 : ikey[8 * i] # 0

\* An index row ends with a zero byte and the key of its entity; any other row
\* has its own.
ASSUME EntityAssumption == \A r \in Row :
    IF DiscrimOf(RowKey[r]) = D_INDEX
    THEN /\ IsKey(EntityOf[r])
         /\ \E n \in DOMAIN RowKey[r] :
                RowKey[r] = SubSeq(RowKey[r], 1, n) \o <<0>> \o EntityOf[r]
    ELSE EntityOf[r] = RowKey[r]

----------------------------------------------------------------------------
\* ndb.cc:60: what a query hands out for an index row is the key of the entity that
\* the row was made for; for a row of data, its own key.
ResultsAreKeys == \A r \in Returned : EntityBytes(RowKey[r], 0, 0) = EntityOf[r]

=============================================================================
