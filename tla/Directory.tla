----------------------------- MODULE Directory -----------------------------
(***************************************************************************)
(* What a caller of Manager::ndbForKey may rely on, whoever else calls it: *)
(* a call is answered at one instant, with the database of its key or with *)
(* an error.  A database that has been opened serves every later call of   *)
(* the process; one is missing only if it is not on disk and may not be    *)
(* created; and nothing leaves the disk but by a clearing start.           *)
(***************************************************************************)
CONSTANTS
    Thread, Key, None,
    Layouts,         \* the ways of laying out data that a start may choose from
    Clears,          \* whether a start may, or must, clear the disk
    InitDisk,        \* what is on disk at first
    Routable(_),     \* keys that have a database
    Home(_, _),      \* the place of a key in a layout
    MayCreate(_)     \* places where a database is created if it is missing

VARIABLES
    layout,
    open,            \* the databases that the process has open
    disk,            \* those that exist
    asked,           \* what each caller waits for
    reply            \* what it has been answered, "" as long as it has not

vars == <<layout, open, disk, asked, reply>>

HomeOf(t) == Home(asked[t], layout)

Init ==
    /\ layout \in Layouts
    /\ open = {}
    /\ \E clear \in Clears : disk = IF clear THEN {} ELSE InitDisk
    /\ asked = [t \in Thread |-> None]
    /\ reply = [t \in Thread |-> ""]

Ask(t) ==
    /\ asked[t] = None
    /\ \E k \in Key :
        /\ asked' = [asked EXCEPT ![t] = k]
        /\ reply' = [reply EXCEPT ![t] = IF Routable(k) THEN "" ELSE "route"]
    /\ UNCHANGED <<layout, open, disk>>

Waits(t) == asked[t] # None /\ reply[t] = ""

\* The database is open, or exists, or is created.
Serve(t) ==
    /\ Waits(t)
    /\ HomeOf(t) \in open \cup disk \/ MayCreate(HomeOf(t))
    /\ open' = open \cup {HomeOf(t)}
    /\ disk' = disk \cup {HomeOf(t)}
    /\ reply' = [reply EXCEPT ![t] = "ok"]
    /\ UNCHANGED <<layout, asked>>

Refuse(t) ==
    /\ Waits(t)
    /\ HomeOf(t) \notin open
    /\ \/ reply' = [reply EXCEPT ![t] = "fault"]
       \/ /\ HomeOf(t) \notin disk /\ ~ MayCreate(HomeOf(t))
          /\ reply' = [reply EXCEPT ![t] = "missing"]
    /\ UNCHANGED <<layout, open, disk, asked>>

Return(t) ==
    /\ reply[t] # ""
    /\ asked' = [asked EXCEPT ![t] = None]
    /\ reply' = [reply EXCEPT ![t] = ""]
    /\ UNCHANGED <<layout, open, disk>>

Start ==
    /\ layout' \in Layouts
    /\ open' = {}
    /\ \E clear \in Clears : disk' = IF clear THEN {} ELSE disk
    /\ asked' = [t \in Thread |-> None]
    /\ reply' = [t \in Thread |-> ""]

Next == (\E t \in Thread : Ask(t) \/ Serve(t) \/ Refuse(t) \/ Return(t)) \/ Start

Spec == Init /\ [][Next]_vars

=============================================================================
