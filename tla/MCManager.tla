----------------------------- MODULE MCManager -----------------------------
(***************************************************************************)
(* Small instances of Manager.  Keys: an entity and its child of another   *)
(* kind, an id generator of another root kind, an entity of a shard that   *)
(* is not served, rows of two indexes, of which one has a line in the init *)
(* file and the other a database on disk, and a key with an unknown        *)
(* discriminator.                                                          *)
(***************************************************************************)
EXTENDS Manager

Component(discrim, shard, id, kind, last) == <<16 * discrim, shard, 0, 0, 0, id, kind, last>>

\* The last byte of an entity is its shape and the type of the entry.
Data == 8 * 1 + E_DATA

User    == Component(D_ENTITY, 1, 5, 17, Data)
Profile == User \o Component(D_ENTITY, 1, 6, 25, Data)
TopicId == Component(D_IDGEN, 1, 0, 30, 1)
Foreign == Component(D_ENTITY, 2, 5, 17, Data)
ByName  == <<16 * D_INDEX, 17, 7>> \o <<0>> \o User
ByAge   == <<16 * D_INDEX, 17, 9>> \o <<0>> \o User
Strange == Component(5, 1, 5, 17, Data)

MCKey     == {User, Profile, TopicId, Foreign, ByName, ByAge, Strange}
MCIndexes == {<<7>>}
MCNone    == {}
MCOnDisk  == {[tree |-> "kind", shard |-> 1, id |-> 17], [tree |-> "index", shard |-> 0, id |-> 9]}
=============================================================================
