------------------------------ MODULE NdbKey ------------------------------
(***************************************************************************)
(* Keys, byte by byte: what extractKeyParts (ugorji/ndb/manager.cc) reads  *)
(* of one, and the entity key that ndbEntityBytesFromSlice                 *)
(* (ugorji/ndb/ndb.cc) finds in a row.                                     *)
(*                                                                         *)
(* The key of an entity or id generator is a sequence of components of     *)
(* eight bytes, the first for the root ancestor.  An index row is anything *)
(* that ends with a zero byte and a key (ugorji/ndb/doc.md:208).           *)
(***************************************************************************)
EXTENDS Integers, Sequences, FiniteSetsExt

Byte == 0 .. 255

\* Discriminator, and the entry type of an entity itself.
D_INDEX  == 1
D_ENTITY == 2
D_IDGEN  == 3
E_DATA   == 2

DiscrimOf(ikey) == ikey[1] \div 16
IsData(ikey)    == DiscrimOf(ikey) \in {D_ENTITY, D_IDGEN}

\* The parts of a data key, and the index of an index row.
Shardid(ikey)    == (ikey[1] % 16) * 256 + ikey[2]
Rootkindid(ikey) == ikey[7]
Kindid(ikey)     == ikey[Len(ikey) - 1]
Shapeid(ikey)    == ikey[Len(ikey)] \div 8
Indexid(ikey)    == ikey[3]

\* A kind or shape of zero is any.
Passes(ikey, kindid, shapeid) ==
    /\ ikey[Len(ikey)] % 8 = E_DATA
    /\ shapeid \in {0, Shapeid(ikey)}
    /\ kindid \in {0, Kindid(ikey)}

\* Places of a zero byte that a whole number of components follows.
Demarcations(ikey) == {j \in 1 .. Len(ikey) - 8 : (Len(ikey) - j) % 8 = 0 /\ ikey[j] = 0}

\* Fault: the key is taken from the zero byte on.
KeyInRowZero(ikey) ==
    IF Demarcations(ikey) = {} THEN ikey ELSE SubSeq(ikey, Max(Demarcations(ikey)), Len(ikey))

\* The key in an index row is what follows the last of them.
KeyInRow(ikey) ==
    IF Demarcations(ikey) = {} THEN ikey ELSE SubSeq(ikey, Max(Demarcations(ikey)) + 1, Len(ikey))

EntityBytes(ikey, kindid, shapeid) ==
    IF DiscrimOf(ikey) = D_INDEX THEN KeyInRow(ikey)
    ELSE IF DiscrimOf(ikey) = D_ENTITY /\ ~ Passes(ikey, kindid, shapeid) THEN <<>>
    ELSE ikey

=============================================================================
