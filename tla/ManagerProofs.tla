--------------------------- MODULE ManagerProofs ---------------------------
(***************************************************************************)
(* Proofs about module Manager, for every set of threads and keys, every   *)
(* command line and init file, and every sequence of restarts.             *)
(***************************************************************************)
EXTENDS Manager, TLAPS

LEMMA PlaceType == ASSUME NEW k \in Key, NEW b \in BOOLEAN PROVE PlaceOf(k, b) \in Place
<1>1. k \in Seq(Byte) /\ Len(k) >= 8
  BY ManagerAssumption
<1>2. k[1] \in Nat /\ k[2] \in Nat /\ k[3] \in Nat /\ k[7] \in Nat
  <2>1. \A i \in 1 .. Len(k) : k[i] \in Byte
    BY <1>1
  <2>2. 1 \in 1 .. Len(k) /\ 2 \in 1 .. Len(k) /\ 3 \in 1 .. Len(k) /\ 7 \in 1 .. Len(k)
    BY <1>1
  <2>3. k[1] \in Byte /\ k[2] \in Byte /\ k[3] \in Byte /\ k[7] \in Byte
    BY <2>1, <2>2
  <2>4. QED
    BY <2>3 DEF Byte
<1>3. (k[1] % 16) * 256 + k[2] \in Nat
  BY <1>2
<1>4. QED
  BY <1>2, <1>3 DEF PlaceOf, Place, Tree, Shardid, Rootkindid, Indexid

LEMMA PerKindType == PerKindValues \subseteq BOOLEAN
BY DEF PerKindValues

(***************************************************************************)
(* The inductive invariant: a database that is open and not in a map is    *)
(* about to be entered by the thread that holds mu_, and a thread that     *)
(* will open one has not found it in a map.                                *)
(***************************************************************************)
Calling == \A t \in Thread : pc[t] # "idle" => key[t] \in Key

MutexHeld == \A t \in Thread : mu = t => pc[t] \in Inside

Missed == \A t \in Thread : pc[t] \in {"mkdir", "open", "insert"} => PlaceFor(t) \notin map

Entering ==
    /\ map \subseteq dbs
    /\ \A p \in dbs \ map : \E t \in Thread : pc[t] = "insert" /\ PlaceFor(t) = p
    /\ \A t \in Thread : pc[t] = "insert" => PlaceFor(t) \in dbs

ManagerInv == TypeOK /\ Calling /\ MutexHeld /\ Missed /\ Entering /\ NeverBusy

LEMMA ManagerInit == Init => ManagerInv
<1> SUFFICES ASSUME Init PROVE ManagerInv
  OBVIOUS
<1>1. 0 \in 0 .. MaxCalls /\ 0 \in 0 .. MaxStarts
  BY ManagerAssumption
<1>2. TypeOK
  BY <1>1, ManagerAssumption DEF Init, TypeOK, Pc, Inside, Answer
<1>3. Calling /\ MutexHeld /\ Missed /\ Entering /\ NeverBusy
  BY ManagerAssumption DEF Init, Calling, MutexHeld, Missed, Entering, NeverBusy
<1>4. QED
  BY <1>2, <1>3 DEF ManagerInv

\* The holder of mu_ is alone between the lock and the unlock.
LEMMA Alone ==
    ASSUME TypeOK, NEW t \in Thread, NEW u \in Thread, pc[t] \in Inside, pc[u] \in Inside
    PROVE  t = u
BY DEF TypeOK

LEMMA ManagerStep == ManagerInv /\ [Next]_vars => ManagerInv'
<1> SUFFICES ASSUME ManagerInv, [Next]_vars PROVE ManagerInv'
  OBVIOUS
<1> USE ManagerAssumption DEF ManagerInv, Goto, Reply, PlaceFor
<1>1. ASSUME NEW t \in Thread, Invoke(t) PROVE ManagerInv'
  <2>1. (calls \in 0 .. MaxCalls)'
    BY <1>1 DEF Invoke, TypeOK
  <2>2. TypeOK'
    <3>1. (pc \in [Thread -> Pc] /\ \A u \in Thread : pc[u] \in Inside => mu = u)'
      <4>1. pc' = [pc EXCEPT ![t] = "lock"] \/ pc' = [pc EXCEPT ![t] = "reply"]
        BY <1>1 DEF Invoke
      <4>2. mu' = mu
        BY <1>1 DEF Invoke
      <4>3. QED
        BY <4>1, <4>2 DEF TypeOK, Pc, Inside
    <3>2. (answer \in [Thread -> Answer])'
      BY <1>1 DEF Invoke, TypeOK, Answer
    <3>3. (key \in [Thread -> Key \cup {None}])'
      BY <1>1 DEF Invoke, TypeOK
    <3>4. QED
      BY <1>1, <2>1, <3>1, <3>2, <3>3 DEF Invoke, TypeOK
  <2>3. Calling' /\ MutexHeld'
    BY <1>1 DEF Invoke, TypeOK, Calling, MutexHeld, Inside
  <2>4. Missed' /\ NeverBusy'
    BY <1>1 DEF Invoke, TypeOK, Missed, NeverBusy
  <2>5. Entering'
    <3>1. /\ pc[t] = "idle" /\ pc'[t] \in {"lock", "reply"}
          /\ \A u \in Thread : u # t => pc'[u] = pc[u] /\ key'[u] = key[u]
          /\ UNCHANGED <<perKind, map, dbs>>
      BY <1>1 DEF Invoke, TypeOK
    <3>2. QED
      BY <3>1 DEF Entering
  <2>6. QED
    BY <2>2, <2>3, <2>4, <2>5
<1>2. ASSUME NEW t \in Thread, LockMu(t) PROVE ManagerInv'
  <2>1. TypeOK' /\ Calling' /\ MutexHeld'
    <3>1. TypeOK'
      BY <1>2 DEF LockMu, TypeOK, Pc, Inside, Answer
    <3>2. Calling' /\ MutexHeld'
      BY <1>2 DEF LockMu, TypeOK, Calling, MutexHeld, Inside
    <3>3. QED
      BY <3>1, <3>2
  <2>2. Missed' /\ Entering' /\ NeverBusy'
    BY <1>2 DEF LockMu, TypeOK, Missed, Entering, NeverBusy
  <2>3. QED
    BY <2>1, <2>2
<1>3. ASSUME NEW t \in Thread, Find(t) PROVE ManagerInv'
  <2>1. TypeOK' /\ Calling' /\ MutexHeld'
    <3>1. TypeOK'
      BY <1>3 DEF Find, TypeOK, Pc, Inside, Answer
    <3>2. Calling' /\ MutexHeld'
      BY <1>3 DEF Find, TypeOK, Calling, MutexHeld, Inside
    <3>3. QED
      BY <3>1, <3>2
  <2>2. Missed' /\ Entering' /\ NeverBusy'
    BY <1>3 DEF Find, TypeOK, Missed, Entering, NeverBusy
  <2>3. QED
    BY <2>1, <2>2
<1>4. ASSUME NEW t \in Thread, MakeDirs(t) PROVE ManagerInv'
  <2>1. TypeOK' /\ Calling' /\ MutexHeld'
    <3>1. TypeOK'
      BY <1>4 DEF MakeDirs, TypeOK, Pc, Inside, Answer
    <3>2. Calling' /\ MutexHeld'
      BY <1>4 DEF MakeDirs, TypeOK, Calling, MutexHeld, Inside
    <3>3. QED
      BY <3>1, <3>2
  <2>2. Missed' /\ Entering' /\ NeverBusy'
    BY <1>4 DEF MakeDirs, TypeOK, Missed, Entering, NeverBusy
  <2>3. QED
    BY <2>1, <2>2
<1>5. ASSUME NEW t \in Thread, OpenDb(t) PROVE ManagerInv'
  <2> DEFINE p == PlaceFor(t)
  <2>1. p \in Place /\ p \notin map /\ pc[t] = "open" /\ pc[t] \in Inside
    BY <1>5, PlaceType, PerKindType DEF OpenDb, TypeOK, Calling, Missed, Inside
  <2>2. p \notin dbs
    BY <2>1, Alone DEF Entering, Inside
  <2>3. TypeOK'
    BY <1>5, <2>1 DEF OpenDb, TypeOK, Pc, Inside, Answer
  <2>4. Calling' /\ MutexHeld' /\ Missed'
    BY <1>5, <2>1 DEF OpenDb, TypeOK, Calling, MutexHeld, Missed, Inside
  <2>5. NeverBusy'
    BY <1>5, <2>2 DEF OpenDb, TypeOK, NeverBusy
  <2>6. Entering'
    <3>1. \A u \in Thread : u # t => pc'[u] = pc[u] /\ key'[u] = key[u]
      BY <1>5 DEF OpenDb, TypeOK
    <3>2. CASE dbs' = dbs
      <4>1. pc'[t] # "insert"
        BY <1>5, <2>1, <2>2, <3>2 DEF OpenDb, TypeOK
      <4>2. map' = map /\ key' = key /\ perKind' = perKind
        BY <1>5 DEF OpenDb
      <4>3. QED
        BY <2>1, <3>1, <3>2, <4>1, <4>2 DEF Entering
    <3>3. CASE dbs' = dbs \cup {p} /\ pc' = [pc EXCEPT ![t] = "insert"]
      BY <1>5, <2>1, <3>1, <3>3 DEF OpenDb, Entering, TypeOK
    <3>4. QED
      BY <1>5, <3>2, <3>3 DEF OpenDb
  <2>7. QED
    BY <2>3, <2>4, <2>5, <2>6
<1>6. ASSUME NEW t \in Thread, Insert(t) PROVE ManagerInv'
  <2> DEFINE p == PlaceFor(t)
  <2>1. p \in Place /\ pc[t] = "insert" /\ pc[t] \in Inside
    BY <1>6, PlaceType, PerKindType DEF Insert, TypeOK, Calling, Inside
  <2>2. \A u \in Thread : u # t => pc[u] \notin Inside
    BY <2>1, Alone
  <2>3. TypeOK' /\ Calling' /\ MutexHeld'
    BY <1>6, <2>1 DEF Insert, TypeOK, Calling, MutexHeld, Pc, Inside, Answer
  <2>4. Missed' /\ NeverBusy'
    BY <1>6, <2>2 DEF Insert, TypeOK, Missed, NeverBusy, Inside
  <2>5. Entering'
    BY <1>6, <2>1, <2>2 DEF Insert, TypeOK, Entering, Inside
  <2>6. QED
    BY <2>3, <2>4, <2>5
<1>7. ASSUME NEW t \in Thread, UnlockMu(t) PROVE ManagerInv'
  <2>1. \A u \in Thread : u # t => pc[u] \notin Inside
    BY <1>7, Alone DEF UnlockMu, Inside
  <2>2. TypeOK' /\ Calling' /\ MutexHeld'
    BY <1>7, <2>1 DEF UnlockMu, TypeOK, Calling, MutexHeld, Pc, Inside, Answer
  <2>3. Missed' /\ Entering' /\ NeverBusy'
    BY <1>7 DEF UnlockMu, TypeOK, Missed, Entering, NeverBusy
  <2>4. QED
    BY <2>2, <2>3
<1>8. ASSUME NEW t \in Thread, Return(t) PROVE ManagerInv'
  <2>1. key[t] \in Key /\ PlaceFor(t) \in Place
    BY <1>8, PlaceType, PerKindType DEF Return, TypeOK, Calling
  <2>2. TypeOK' /\ Calling' /\ MutexHeld'
    BY <1>8, <2>1 DEF Return, TypeOK, Calling, MutexHeld, Pc, Inside, Answer
  <2>3. Missed' /\ NeverBusy'
    BY <1>8 DEF Return, TypeOK, Missed, NeverBusy
  <2>4. Entering'
    BY <1>8 DEF Return, TypeOK, Entering
  <2>5. QED
    BY <2>2, <2>3, <2>4
<1>9. CASE Restart
  <2>1. (starts \in 0 .. MaxStarts)'
    <3>1. starts \in 0 .. MaxStarts
      BY DEF TypeOK
    <3>2. starts < MaxStarts /\ starts' = starts + 1
      BY <1>9 DEF Restart
    <3>3. QED
      BY <3>1, <3>2, ManagerAssumption
  <2>2. TypeOK'
    <3>1. (disk \subseteq Place /\ served \in [Key -> SUBSET Place] /\ calls \in 0 .. MaxCalls)'
      <4>1. /\ disk' = {} \/ disk' = disk
            /\ served' = [k \in Key |-> {}] \/ served' = served
            /\ calls' = calls
        BY <1>9 DEF Restart
      <4>2. disk \subseteq Place /\ served \in [Key -> SUBSET Place] /\ calls \in 0 .. MaxCalls
        BY DEF TypeOK
      <4>3. QED
        BY <4>1, <4>2
    <3>2. (pc \in [Thread -> Pc])'
      BY <1>9 DEF Restart, Pc
    <3>3. (answer \in [Thread -> Answer])'
      BY <1>9 DEF Restart, Answer
    <3>4. (key \in [Thread -> Key \cup {None}])'
      BY <1>9 DEF Restart
    <3>5. (map \subseteq Place /\ dbs \subseteq Place)'
      BY <1>9 DEF Restart
    <3>6. (perKind \in PerKindValues)'
      BY <1>9 DEF Restart, PerKindValues
    <3>7. (mu \in Thread \cup {None} /\ \A t \in Thread : pc[t] \in Inside => mu = t)'
      BY <1>9 DEF Restart, Inside
    <3>8. QED
      BY <2>1, <3>1, <3>2, <3>3, <3>4, <3>5, <3>6, <3>7 DEF TypeOK
  <2>3. Calling' /\ MutexHeld' /\ Missed' /\ Entering' /\ NeverBusy'
    BY <1>9 DEF Restart, Calling, MutexHeld, Missed, Entering, NeverBusy
  <2>4. QED
    BY <2>2, <2>3
<1>10. CASE UNCHANGED vars
  BY <1>10 DEF vars, TypeOK, Calling, MutexHeld, Missed, Entering, NeverBusy
<1>11. QED
  BY <1>1, <1>2, <1>3, <1>4, <1>5, <1>6, <1>7, <1>8, <1>9, <1>10 DEF Next, Step

THEOREM ManagerInvariant == Spec => []ManagerInv
BY ManagerInit, ManagerStep, PTL DEF Spec

\* Type correctness, and mutual exclusion of the manager's threads.
THEOREM TypeCorrect == Spec => []TypeOK
<1>1. ManagerInv => TypeOK
  BY DEF ManagerInv
<1>2. QED
  BY <1>1, ManagerInvariant, PTL

\* No open fails because the process has the database open already.
THEOREM OpensAreShared == Spec => []NeverBusy
<1>1. ManagerInv => NeverBusy
  BY DEF ManagerInv
<1>2. QED
  BY <1>1, ManagerInvariant, PTL

\* Whenever mu_ is free the maps hold exactly the open databases.
THEOREM MapsCorrect == Spec => []MapsTellOpen
<1>1. ManagerInv => MapsTellOpen
  <2> SUFFICES ASSUME ManagerInv, mu = None PROVE map = dbs
    BY DEF MapsTellOpen
  <2>1. \A t \in Thread : pc[t] # "insert"
    BY ManagerAssumption DEF ManagerInv, TypeOK, Inside
  <2>2. QED
    BY <2>1 DEF ManagerInv, Entering
<1>2. QED
  BY <1>1, ManagerInvariant, PTL

(***************************************************************************)
(* Colocation, when the command line says how data is laid out.            *)
(***************************************************************************)
Layout == PerKindArg = "true"

ServedHere == perKind = Layout /\ \A k \in Key : served[k] \subseteq {PlaceOf(k, Layout)}

\* With -perkind given, every key is served from one place only.
LEMMA LayoutKept ==
    ASSUME PerKindArg # "none" PROVE Spec => []ServedHere
<1>1. PerKindValues = {Layout}
  BY DEF PerKindValues, Layout
<1>2. Init => ServedHere
  BY <1>1 DEF Init, ServedHere
<1>3. ManagerInv /\ ServedHere /\ [Next]_vars => ServedHere'
  <2> SUFFICES ASSUME ManagerInv, ServedHere, [Next]_vars PROVE ServedHere'
    OBVIOUS
  <2>1. ASSUME NEW t \in Thread, Return(t) PROVE ServedHere'
    BY <2>1 DEF Return, ServedHere, PlaceFor, ManagerInv, TypeOK, Layout
  <2>2. CASE Restart
    BY <1>1, <2>2 DEF Restart, ServedHere
  <2>3. ASSUME \A t \in Thread : ~ Return(t), ~ Restart PROVE UNCHANGED <<perKind, served>>
    BY <2>3 DEF Next, Step, Invoke, LockMu, Find, MakeDirs, OpenDb, Insert, UnlockMu, vars
  <2>4. QED
    BY <2>1, <2>2, <2>3 DEF ServedHere
<1>4. QED
  BY <1>2, <1>3, ManagerInvariant, PTL DEF Spec

\* With -perkind given, entities and their children live in one database.
THEOREM Colocation ==
    ASSUME PerKindArg # "none" PROVE Spec => []Colocated
<1>1. ServedHere => Colocated
  <2> SUFFICES ASSUME ServedHere, NEW j \in Key, NEW k \in Key, SameRoot(j, k)
               PROVE  PlaceOf(j, Layout) = PlaceOf(k, Layout)
    BY DEF ServedHere, Colocated
  <2>1. \A i \in 1 .. 8 : j[i] = k[i]
    <3>1. j \in Seq(Byte) /\ k \in Seq(Byte) /\ Len(j) >= 8 /\ Len(k) >= 8
      BY ManagerAssumption
    <3>2. \A i \in 1 .. 8 : SubSeq(j, 1, 8)[i] = j[i] /\ SubSeq(k, 1, 8)[i] = k[i]
      BY <3>1
    <3>3. QED
      BY <3>2 DEF SameRoot
  <2>2. DiscrimOf(j) # D_INDEX /\ DiscrimOf(k) # D_INDEX
    BY DEF SameRoot, IsData, D_INDEX, D_ENTITY, D_IDGEN
  <2>3. Shardid(j) = Shardid(k) /\ Rootkindid(j) = Rootkindid(k)
    BY <2>1 DEF Shardid, Rootkindid
  <2>4. QED
    BY <2>2, <2>3 DEF PlaceOf
<1>2. QED
  BY <1>1, LayoutKept, PTL

(***************************************************************************)
(* What is served stays servable.                                          *)
(***************************************************************************)
Remembered ==
    /\ dbs \subseteq disk
    /\ \A k \in Key : served[k] \subseteq disk
    /\ \A t \in Thread :
        /\ pc[t] = "idle" => answer[t] = ""
        /\ answer[t] = "ok" => PlaceFor(t) \in disk
        /\ answer[t] = "missing" => PlaceFor(t) \notin disk /\ ~ CreateIfMissing(PlaceFor(t))

LEMMA RememberedStep ==
    ASSUME ManagerInv, Remembered, [Next]_vars, perKind' = perKind
    PROVE  Remembered'
<1> USE ManagerAssumption DEF ManagerInv, Goto, Reply, PlaceFor
<1>1. ASSUME NEW t \in Thread, Invoke(t) PROVE Remembered'
  <2>1. /\ pc'[t] # "idle" /\ answer'[t] \in {"", "route"}
        /\ \A u \in Thread : u # t =>
              pc'[u] = pc[u] /\ key'[u] = key[u] /\ answer'[u] = answer[u]
        /\ UNCHANGED <<perKind, dbs, disk, served>>
    <3>1. pc[t] = "idle" /\ answer[t] = ""
      BY <1>1 DEF Invoke, Remembered
    <3>2. QED
      BY <1>1, <3>1 DEF Invoke, TypeOK
  <2>2. QED
    BY <2>1 DEF Remembered, CreateIfMissing
<1>2. ASSUME NEW t \in Thread, LockMu(t) PROVE Remembered'
  BY <1>2 DEF LockMu, TypeOK, Remembered
<1>3. ASSUME NEW t \in Thread, Find(t) PROVE Remembered'
  BY <1>3 DEF Find, TypeOK, Remembered, Entering
<1>4. ASSUME NEW t \in Thread, MakeDirs(t) PROVE Remembered'
  BY <1>4 DEF MakeDirs, TypeOK, Remembered
<1>5. ASSUME NEW t \in Thread, OpenDb(t) PROVE Remembered'
  BY <1>5 DEF OpenDb, TypeOK, Remembered
<1>6. ASSUME NEW t \in Thread, Insert(t) PROVE Remembered'
  BY <1>6 DEF Insert, TypeOK, Remembered, Entering
<1>7. ASSUME NEW t \in Thread, UnlockMu(t) PROVE Remembered'
  BY <1>7 DEF UnlockMu, TypeOK, Remembered
<1>8. ASSUME NEW t \in Thread, Return(t) PROVE Remembered'
  BY <1>8 DEF Return, TypeOK, Remembered
<1>9. CASE Restart
  BY <1>9 DEF Restart, Remembered
<1>10. CASE UNCHANGED vars
  BY <1>10 DEF vars, Remembered
<1>11. QED
  BY <1>1, <1>2, <1>3, <1>4, <1>5, <1>6, <1>7, <1>8, <1>9, <1>10 DEF Next, Step

\* With -perkind given, no key is refused for want of its database after it has been
\* served, through any number of restarts, unless -clear removed it.
THEOREM NeverForgottenAlways ==
    ASSUME PerKindArg # "none" PROVE Spec => []NeverForgotten
<1>1. Init => Remembered
  BY DEF Init, Remembered
<1>2. ServedHere /\ ServedHere' => perKind' = perKind
  BY DEF ServedHere
<1>3. ManagerInv /\ ServedHere /\ Remembered => NeverForgotten
  <2> SUFFICES ASSUME ManagerInv, ServedHere, Remembered, NEW t \in Thread, answer[t] = "missing"
               PROVE  served[key[t]] = {}
    BY DEF NeverForgotten
  <2>1. key[t] \in Key /\ PlaceFor(t) \notin disk
    BY DEF Remembered, ManagerInv, Calling
  <2>2. served[key[t]] \subseteq disk /\ served[key[t]] \subseteq {PlaceFor(t)}
    BY <2>1 DEF Remembered, ServedHere, PlaceFor
  <2>3. QED
    BY <2>1, <2>2
<1>4. ManagerInv /\ Remembered /\ [Next]_vars /\ perKind' = perKind => Remembered'
  BY RememberedStep
<1>5. QED
  BY <1>1, <1>2, <1>3, <1>4, LayoutKept, ManagerInvariant, PTL DEF Spec

(***************************************************************************)
(* The refinement of Directory.  A call is answered when it finds the      *)
(* entry, fails, or has opened the database; all its other steps stutter.  *)
(***************************************************************************)
\* Who asks waits for an answer until one is found, and the databases that are open
\* exist: what the abstract state says of the calls and of the disk.
Answering ==
    /\ dbs \subseteq disk
    /\ \A t \in Thread :
        /\ pc[t] = "idle" <=> key[t] = None
        /\ pc[t] \in {"unlock", "reply"} <=> answer[t] # ""

ReplyNow == [t \in Thread |-> IF pc[t] = "insert" THEN "ok" ELSE answer[t]]

LEMMA AnsweringInit == Init => Answering
BY DEF Init, Answering

LEMMA AnsweringStep == ManagerInv /\ Answering /\ [Next]_vars => Answering'
<1> SUFFICES ASSUME ManagerInv, Answering, [Next]_vars PROVE Answering'
  OBVIOUS
<1> USE ManagerAssumption DEF ManagerInv, Goto, Reply, PlaceFor
<1>1. ASSUME NEW t \in Thread, Invoke(t) PROVE Answering'
  <2>1. /\ \/ pc'[t] = "lock" /\ answer'[t] = answer[t]
           \/ pc'[t] = "reply" /\ answer'[t] = "route"
        /\ pc[t] = "idle" /\ key'[t] \in Key
        /\ \A u \in Thread : u # t => pc'[u] = pc[u] /\ key'[u] = key[u] /\ answer'[u] = answer[u]
        /\ UNCHANGED <<dbs, disk>>
    BY <1>1 DEF Invoke, TypeOK
  <2>2. QED
    BY <2>1 DEF Answering
<1>2. ASSUME NEW t \in Thread, LockMu(t) PROVE Answering'
  BY <1>2 DEF LockMu, TypeOK, Answering
<1>3. ASSUME NEW t \in Thread, Find(t) PROVE Answering'
  BY <1>3 DEF Find, TypeOK, Answering
<1>4. ASSUME NEW t \in Thread, MakeDirs(t) PROVE Answering'
  BY <1>4 DEF MakeDirs, TypeOK, Answering
<1>5. ASSUME NEW t \in Thread, OpenDb(t) PROVE Answering'
  BY <1>5 DEF OpenDb, TypeOK, Answering
<1>6. ASSUME NEW t \in Thread, Insert(t) PROVE Answering'
  BY <1>6 DEF Insert, TypeOK, Answering
<1>7. ASSUME NEW t \in Thread, UnlockMu(t) PROVE Answering'
  BY <1>7 DEF UnlockMu, TypeOK, Answering
<1>8. ASSUME NEW t \in Thread, Return(t) PROVE Answering'
  BY <1>8 DEF Return, TypeOK, Answering
<1>9. CASE Restart
  BY <1>9 DEF Restart, Answering
<1>10. CASE UNCHANGED vars
  BY <1>10 DEF vars, Answering
<1>11. QED
  BY <1>1, <1>2, <1>3, <1>4, <1>5, <1>6, <1>7, <1>8, <1>9, <1>10 DEF Next, Step

LEMMA DirectoryInit == Init => Directories!Init
BY DEF Init, Directories!Init

\* A step that neither answers a call nor takes one up is not seen.
LEMMA Unanswered ==
    ASSUME UNCHANGED <<perKind, dbs, disk, key>>, ReplyNow' = ReplyNow
    PROVE  UNCHANGED Directories!vars
BY DEF Directories!vars, ReplyNow

\* The thread that is about to open a database is the only one inside, and its
\* database is not open.
LEMMA NotOpen ==
    ASSUME ManagerInv, NEW t \in Thread, pc[t] \in {"mkdir", "open"}
    PROVE  PlaceFor(t) \notin dbs
<1>1. \A u \in Thread : pc[u] # "insert"
  BY Alone DEF ManagerInv, Inside
<1>2. PlaceFor(t) \notin map
  BY DEF ManagerInv, Missed
<1>3. QED
  BY <1>1, <1>2 DEF ManagerInv, Entering

LEMMA DirectoryStep ==
    ManagerInv /\ Answering /\ [Next]_vars => [Directories!Next]_Directories!vars
<1> SUFFICES ASSUME ManagerInv, Answering, [Next]_vars
             PROVE  Directories!Next \/ UNCHANGED Directories!vars
  BY DEF Directories!vars
<1> USE DEF Goto, Reply
<1>1. /\ pc \in [Thread -> Pc] /\ answer \in [Thread -> Answer] /\ key \in [Thread -> Key \cup {None}]
      /\ None \notin Key
  BY ManagerAssumption DEF ManagerInv, TypeOK
<1>2. ASSUME NEW t \in Thread, Invoke(t) PROVE Directories!Next
  <2>1. PICK k \in Key :
          /\ key' = [key EXCEPT ![t] = k]
          /\ IF Served(k) THEN pc' = [pc EXCEPT ![t] = "lock"] /\ answer' = answer
             ELSE pc' = [pc EXCEPT ![t] = "reply"] /\ answer' = [answer EXCEPT ![t] = "route"]
    BY <1>2 DEF Invoke
  <2>2. pc[t] = "idle" /\ key[t] = None /\ answer[t] = "" /\ UNCHANGED <<perKind, dbs, disk>>
    BY <1>2 DEF Invoke, Answering
  <2>3. ReplyNow' = [ReplyNow EXCEPT ![t] = IF Served(k) THEN "" ELSE "route"]
    BY <1>1, <2>1, <2>2 DEF ReplyNow
  <2>4. Directories!Ask(t)
    BY <2>1, <2>2, <2>3 DEF Directories!Ask, ReplyNow
  <2>5. QED
    BY <2>4 DEF Directories!Next
<1>3. ASSUME NEW t \in Thread, LockMu(t) \/ Insert(t) \/ UnlockMu(t) PROVE UNCHANGED Directories!vars
  <2>1. UNCHANGED <<perKind, dbs, disk, key>>
    BY <1>3 DEF LockMu, Insert, UnlockMu
  <2>2. ReplyNow' = ReplyNow
    BY <1>1, <1>3 DEF LockMu, Insert, UnlockMu, ReplyNow
  <2>3. QED
    BY <2>1, <2>2, Unanswered
<1>4. ASSUME NEW t \in Thread, Find(t) PROVE Directories!Next \/ UNCHANGED Directories!vars
  <2>1. pc[t] = "find" /\ UNCHANGED <<perKind, dbs, disk, key>>
    BY <1>4 DEF Find
  <2>2. CASE PlaceFor(t) \in map
    <3>1. key[t] # None /\ answer[t] = "" /\ PlaceFor(t) \in dbs /\ PlaceFor(t) \in disk
      BY <2>1, <2>2 DEF Answering, ManagerInv, Entering
    <3>2. ReplyNow' = [ReplyNow EXCEPT ![t] = "ok"]
      BY <1>1, <1>4, <2>1, <2>2 DEF Find, ReplyNow
    <3>3. Directories!Waits(t)
      BY <2>1, <3>1 DEF Directories!Waits
    <3>4. Directories!Serve(t)
      BY <2>1, <3>1, <3>2, <3>3 DEF Directories!Serve, Directories!HomeOf, PlaceFor, ReplyNow
    <3>5. QED
      BY <3>4 DEF Directories!Next
  <2>3. CASE PlaceFor(t) \notin map
    <3>1. ReplyNow' = ReplyNow
      BY <1>1, <1>4, <2>1, <2>3 DEF Find, ReplyNow
    <3>2. QED
      BY <2>1, <3>1, Unanswered
  <2>4. QED
    BY <2>2, <2>3
<1>5. ASSUME NEW t \in Thread, pc[t] \in {"mkdir", "open"}, UNCHANGED <<perKind, dbs, disk, key>>,
             NEW a \in {"fault", "missing"},
             a = "missing" => PlaceFor(t) \notin disk /\ ~ CreateIfMissing(PlaceFor(t)),
             answer' = [answer EXCEPT ![t] = a], pc' = [pc EXCEPT ![t] = "unlock"]
      PROVE  Directories!Next
  <2>1. key[t] # None /\ answer[t] = "" /\ PlaceFor(t) \notin dbs
    BY <1>5, NotOpen DEF Answering
  <2>2. ReplyNow' = [ReplyNow EXCEPT ![t] = a]
    BY <1>1, <1>5 DEF ReplyNow
  <2>3. Directories!Waits(t)
    BY <1>5, <2>1 DEF Directories!Waits
  <2>4. Directories!Refuse(t)
    BY <1>5, <2>1, <2>2, <2>3 DEF Directories!Refuse, Directories!HomeOf, PlaceFor, ReplyNow
  <2>5. QED
    BY <2>4 DEF Directories!Next
<1>6. ASSUME NEW t \in Thread, MakeDirs(t) PROVE Directories!Next \/ UNCHANGED Directories!vars
  <2>1. pc[t] = "mkdir" /\ UNCHANGED <<perKind, dbs, disk, key>>
    BY <1>6 DEF MakeDirs
  <2>2. CASE pc' = [pc EXCEPT ![t] = "open"] /\ answer' = answer
    <3>1. ReplyNow' = ReplyNow
      BY <1>1, <2>1, <2>2 DEF ReplyNow
    <3>2. QED
      BY <2>1, <3>1, Unanswered
  <2>3. CASE answer' = [answer EXCEPT ![t] = "fault"] /\ pc' = [pc EXCEPT ![t] = "unlock"]
    BY <1>5, <2>1, <2>3
  <2>4. QED
    BY <1>6, <2>2, <2>3 DEF MakeDirs
<1>7. ASSUME NEW t \in Thread, OpenDb(t) PROVE Directories!Next
  <2>1. pc[t] = "open" /\ PlaceFor(t) \notin dbs /\ UNCHANGED <<perKind, key>>
    BY <1>7, NotOpen DEF OpenDb
  <2>2. CASE answer' = [answer EXCEPT ![t] = "fault"] /\ pc' = [pc EXCEPT ![t] = "unlock"]
             /\ UNCHANGED <<dbs, disk>>
    BY <1>5, <2>1, <2>2
  <2>3. CASE PlaceFor(t) \notin dbs \cup disk /\ ~ CreateIfMissing(PlaceFor(t))
             /\ answer' = [answer EXCEPT ![t] = "missing"] /\ pc' = [pc EXCEPT ![t] = "unlock"]
             /\ UNCHANGED <<dbs, disk>>
    BY <1>5, <2>1, <2>3
  <2>4. CASE /\ PlaceFor(t) \in disk \/ CreateIfMissing(PlaceFor(t))
             /\ dbs' = dbs \cup {PlaceFor(t)} /\ disk' = disk \cup {PlaceFor(t)}
             /\ pc' = [pc EXCEPT ![t] = "insert"] /\ answer' = answer
    <3>1. key[t] # None /\ answer[t] = ""
      BY <2>1 DEF Answering
    <3>2. ReplyNow' = [ReplyNow EXCEPT ![t] = "ok"]
      BY <1>1, <2>1, <2>4 DEF ReplyNow
    <3>3. Directories!Waits(t)
      BY <2>1, <3>1 DEF Directories!Waits
    <3>4. Directories!Serve(t)
      BY <2>1, <2>4, <3>2, <3>3 DEF Directories!Serve, Directories!HomeOf, PlaceFor, ReplyNow
    <3>5. QED
      BY <3>4 DEF Directories!Next
  <2>5. QED
    BY <1>7, <2>1, <2>2, <2>3, <2>4 DEF OpenDb
<1>8. ASSUME NEW t \in Thread, Return(t) PROVE Directories!Next
  <2>1. pc[t] = "reply" /\ answer[t] # "" /\ UNCHANGED <<perKind, dbs, disk>>
        /\ key' = [key EXCEPT ![t] = None]
    BY <1>8 DEF Return, Answering
  <2>2. ReplyNow' = [ReplyNow EXCEPT ![t] = ""]
    BY <1>1, <1>8 DEF Return, ReplyNow
  <2>3. Directories!Return(t)
    BY <2>1, <2>2 DEF Directories!Return, ReplyNow
  <2>4. QED
    BY <2>3 DEF Directories!Next
<1>9. CASE Restart
  <2>1. ReplyNow' = [t \in Thread |-> ""]
    BY <1>9 DEF Restart, ReplyNow
  <2>2. Directories!Start
    BY <1>9, <2>1 DEF Restart, Directories!Start, ReplyNow
  <2>3. QED
    BY <2>2 DEF Directories!Next
<1>10. CASE UNCHANGED vars
  BY <1>10, Unanswered DEF vars, ReplyNow
<1>11. QED
  BY <1>2, <1>3, <1>4, <1>6, <1>7, <1>8, <1>9, <1>10 DEF Next, Step

\* ndbForKey answers each call at one instant and serves from an open database
\* whenever there is one, whatever other threads do, however opening fails and
\* through any restarts.
THEOREM DirectoryRefinement == Spec => ImplementsDirectory
<1>1. Spec => []Answering
  BY AnsweringInit, AnsweringStep, ManagerInvariant, PTL DEF Spec
<1>2. ManagerInv /\ Answering /\ [Next]_vars => [Directories!Next]_Directories!vars
  BY DirectoryStep
<1>3. QED
  BY <1>1, <1>2, DirectoryInit, ManagerInvariant, PTL DEF Spec, ImplementsDirectory, Directories!Spec

(***************************************************************************)
(* A call is short and waits for one that waits for nothing.               *)
(***************************************************************************)
\* No fewer than the steps that are left to t.
StepsLeft(t) ==
    CASE pc[t] = "lock"   -> 7
      [] pc[t] = "find"   -> 6
      [] pc[t] = "mkdir"  -> 5
      [] pc[t] = "open"   -> 4
      [] pc[t] = "insert" -> 3
      [] pc[t] = "unlock" -> 2
      [] pc[t] = "reply"  -> 1
      [] pc[t] = "idle"   -> 0

\* mu_ is free, or a thread has it that is past the wait for it.
WaitsForRunning(t) == pc[t] = "lock" => mu = None \/ \E u \in Thread \ {t} : mu = u /\ pc[u] \in Inside

LEMMA WaitsForHolder == ASSUME ManagerInv, NEW t \in Thread PROVE WaitsForRunning(t)
<1>1. mu \in Thread \cup {None} /\ \A u \in Thread : mu = u => pc[u] \in Inside
  BY DEF ManagerInv, TypeOK, MutexHeld
<1>2. QED
  BY <1>1 DEF WaitsForRunning, Inside

LEMMA StepNearer ==
    ASSUME ManagerInv, NEW t \in Thread, Step(t)
    PROVE  StepsLeft(t)' < StepsLeft(t) /\ \A u \in Thread \ {t} : StepsLeft(u)' = StepsLeft(u)
<1>1. pc \in [Thread -> Pc]
  BY DEF ManagerInv, TypeOK
<1>2. PICK l : /\ pc' = [pc EXCEPT ![t] = l]
               /\ <<pc[t], l>> \in {<<"lock", "find">>, <<"find", "unlock">>, <<"find", "mkdir">>,
                                    <<"find", "open">>, <<"mkdir", "open">>, <<"mkdir", "unlock">>,
                                    <<"open", "unlock">>, <<"open", "insert">>, <<"insert", "unlock">>,
                                    <<"unlock", "reply">>, <<"reply", "idle">>}
  BY DEF Step, LockMu, Find, MakeDirs, OpenDb, Insert, UnlockMu, Return, Goto, Reply
<1>3. pc'[t] = l /\ \A u \in Thread \ {t} : pc'[u] = pc[u]
  BY <1>1, <1>2
<1>4. \A u \in Thread \ {t} : StepsLeft(u)' = StepsLeft(u)
  BY <1>3 DEF StepsLeft
<1>5. StepsLeft(t)' < StepsLeft(t)
  BY <1>2, <1>3 DEF StepsLeft
<1>6. QED
  BY <1>4, <1>5

\* ndbForKey takes seven steps at most, whatever fails, and no step of another
\* thread gives it more; and when mu_ is not free, a thread has it that waits for
\* nothing and will release it.
THEOREM CallShort ==
    Spec => /\ [](\A t \in Thread : WaitsForRunning(t))
            /\ [][\A t \in Thread : Step(t) =>
                    /\ StepsLeft(t)' < StepsLeft(t)
                    /\ \A u \in Thread \ {t} : StepsLeft(u)' = StepsLeft(u)]_vars
<1>1. ManagerInv => \A t \in Thread : WaitsForRunning(t)
  BY WaitsForHolder
<1>2. ManagerInv => \A t \in Thread : Step(t) =>
                       /\ StepsLeft(t)' < StepsLeft(t)
                       /\ \A u \in Thread \ {t} : StepsLeft(u)' = StepsLeft(u)
  BY StepNearer
<1>3. QED
  BY <1>1, <1>2, ManagerInvariant, PTL

=============================================================================
