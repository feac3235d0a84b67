--------------------------- MODULE NdbQueryProofs ---------------------------
(***************************************************************************)
(* Proofs about module NdbQuery, for every number of rows, every set of    *)
(* queries and every sequence of writes, and about what                    *)
(* ndbEntityBytesFromSlice (module NdbKey) makes of the rows.              *)
(***************************************************************************)
EXTENDS NdbRows, Extremes, SequenceTheorems, FiniteSetTheorems

(***************************************************************************)
(* The iterator: a move leads strictly onwards, to the next row of the     *)
(* view, or past the last one.                                             *)
(***************************************************************************)
LEMMA Bounds == LastRow \in Nat /\ MaxWrites \in Nat
BY RowAssumption

LEMMA PositionIs ==
    Row \subseteq Position /\ LastRow + 1 \in Position /\ 0 \in Position
        /\ LastRow + 1 \notin Row /\ 0 \notin Row
BY Bounds DEF Row, Position

LEMMA AfterIs ==
    ASSUME NEW v \in SUBSET Row, NEW r \in Position
    PROVE  /\ After(v, r) \in Position
           /\ After(v, r) \in Row => After(v, r) \in v /\ After(v, r) > r
           /\ \A s \in v : s > r => After(v, r) \in Row /\ After(v, r) <= s
<1> DEFINE S == {s \in v : s > r} \cup {LastRow + 1}
<1>1. S \in SUBSET Nat /\ S # {}
  <2>1. LastRow + 1 \in S
    OBVIOUS
  <2>2. \A x \in S : x \in Nat
    BY Bounds DEF Row
  <2>3. QED
    BY <2>1, <2>2
<1>2. Min(S) \in S /\ \A i \in S : Min(S) <= i
  BY <1>1, MinExists
<1>3. After(v, r) = Min(S)
  BY DEF After
<1> HIDE DEF S
<1>4. After(v, r) \in S /\ \A i \in S : After(v, r) <= i
  BY <1>2, <1>3
<1>5. After(v, r) = LastRow + 1 \/ (After(v, r) \in v /\ After(v, r) > r)
  BY <1>4 DEF S
<1>6. ASSUME NEW s \in v, s > r PROVE After(v, r) <= s /\ After(v, r) # LastRow + 1
  <2>1. After(v, r) <= s
    BY <1>4, <1>6 DEF S
  <2>2. QED
    BY <2>1, Bounds DEF Row
<1>7. QED
  BY <1>5, <1>6, PositionIs

LEMMA BeforeIs ==
    ASSUME NEW v \in SUBSET Row, NEW r \in Position
    PROVE  /\ Before(v, r) \in Position
           /\ Before(v, r) \in Row => Before(v, r) \in v /\ Before(v, r) < r
           /\ \A s \in v : s < r => Before(v, r) \in Row /\ Before(v, r) >= s
<1> DEFINE S == {s \in v : s < r} \cup {0}
<1>1. S \in SUBSET (0 .. LastRow) /\ S # {}
  <2>1. 0 \in S
    OBVIOUS
  <2>2. \A x \in S : x \in 0 .. LastRow
    BY Bounds DEF Row
  <2>3. QED
    BY <2>1, <2>2
<1>2. Max(S) \in S /\ \A i \in S : Max(S) >= i
  BY <1>1, Bounds, MaxExists
<1>3. Before(v, r) = Max(S)
  BY DEF Before
<1> HIDE DEF S
<1>4. Before(v, r) \in S /\ \A i \in S : Before(v, r) >= i
  BY <1>2, <1>3
<1>5. Before(v, r) = 0 \/ (Before(v, r) \in v /\ Before(v, r) < r)
  BY <1>4 DEF S
<1>6. ASSUME NEW s \in v, s < r PROVE Before(v, r) >= s /\ Before(v, r) # 0
  <2>1. Before(v, r) >= s
    BY <1>4, <1>6 DEF S
  <2>2. QED
    BY <2>1, Bounds DEF Row
<1>7. QED
  BY <1>5, <1>6, PositionIs

LEMMA AdvancedIs ==
    ASSUME NEW q, NEW v \in SUBSET Row, NEW r \in Position
    PROVE  /\ Advanced(q, v, r) \in Position
           /\ Advanced(q, v, r) \in Row => /\ Advanced(q, v, r) \in v
                                           /\ Ordered(q, r, Advanced(q, v, r))
           /\ \A s \in v : Ordered(q, r, s) =>
                 /\ Advanced(q, v, r) \in Row
                 /\ s = Advanced(q, v, r) \/ Ordered(q, Advanced(q, v, r), s)
<1>1. Row \subseteq Int /\ Position \subseteq Int
  BY Bounds DEF Row, Position
<1>2. CASE Forward(q)
  <2>1. Advanced(q, v, r) = After(v, r) /\ \A x, y : Ordered(q, x, y) <=> x < y
    BY <1>2 DEF Advanced, Ordered
  <2>2. /\ After(v, r) \in Position
        /\ After(v, r) \in Row => After(v, r) \in v /\ r < After(v, r)
        /\ \A s \in v : r < s => After(v, r) \in Row /\ After(v, r) <= s
    BY <1>1, AfterIs
  <2>3. ASSUME NEW s \in v, Ordered(q, r, s)
        PROVE  After(v, r) \in Row /\ (s = After(v, r) \/ Ordered(q, After(v, r), s))
    <3>1. After(v, r) \in Row /\ After(v, r) <= s
      BY <2>1, <2>2, <2>3
    <3>2. After(v, r) \in Int /\ s \in Int
      BY <1>1, <3>1
    <3>3. QED
      BY <2>1, <3>1, <3>2
  <2>4. QED
    BY <2>1, <2>2, <2>3
<1>3. CASE ~ Forward(q)
  <2>1. Advanced(q, v, r) = Before(v, r) /\ \A x, y : Ordered(q, x, y) <=> y < x
    BY <1>3 DEF Advanced, Ordered
  <2>2. /\ Before(v, r) \in Position
        /\ Before(v, r) \in Row => Before(v, r) \in v /\ Before(v, r) < r
        /\ \A s \in v : s < r => Before(v, r) \in Row /\ Before(v, r) >= s
    BY <1>1, BeforeIs
  <2>3. ASSUME NEW s \in v, Ordered(q, r, s)
        PROVE  Before(v, r) \in Row /\ (s = Before(v, r) \/ Ordered(q, Before(v, r), s))
    <3>1. Before(v, r) \in Row /\ Before(v, r) >= s
      BY <2>1, <2>2, <2>3
    <3>2. Before(v, r) \in Int /\ s \in Int
      BY <1>1, <3>1
    <3>3. QED
      BY <2>1, <3>1, <3>2
  <2>4. QED
    BY <2>1, <2>2, <2>3
<1>4. QED
  BY <1>2, <1>3

(***************************************************************************)
(* The inductive invariant: nothing is returned before the main loop, and  *)
(* in it the iterator is beyond everything returned.                       *)
(***************************************************************************)
Beyond == pc = "scan" => \A i \in DOMAIN results : Ordered(query, results[i], pos)

NothingYet == pc \in ({"idle"} \cup Scanning) \ {"scan"} => results = <<>>

QueryInv ==
    /\ TypeOK
    /\ query \in Query \cup {NoQuery}
    /\ pc \in Scanning \cup {"done"} => query \in Query
    /\ NothingYet
    /\ Beyond
    /\ Sound

LEMMA NoneIn == DOMAIN <<>> = {} /\ <<>> \in Seq(Row)
OBVIOUS

LEMMA QueryInit == Init => QueryInv
<1> SUFFICES ASSUME Init PROVE QueryInv
  OBVIOUS
<1>1. 0 \in Position /\ 0 \in 0 .. MaxWrites /\ <<>> \in Seq(Row)
  BY Bounds, PositionIs
<1>2. TypeOK
  BY <1>1 DEF Init, TypeOK, Pc, Scanning
<1>3. NothingYet /\ Beyond /\ Sound
  BY NoneIn DEF Init, NothingYet, Beyond, Sound
<1>4. QED
  BY <1>2, <1>3 DEF Init, QueryInv, Scanning

\* A step that returns no row and moves the iterator, or leaves it, outside the
\* main loop or into it.
LEMMA MoveKeeps ==
    ASSUME QueryInv, pc \in Scanning, pc # "scan",
           UNCHANGED <<query, view, results, err>>, pc' \in Pc \ {"idle", "seek"},
           pos' \in Position, pc' # "done" => pos' \in view,
           left' \in Nat, rows' \subseteq Row, writes' \in 0 .. MaxWrites
    PROVE  QueryInv'
<1> USE DEF QueryInv, TypeOK, Pc, Scanning
<1>1. results = <<>> /\ query \in Query
  BY DEF NothingYet
<1>2. TypeOK'
  OBVIOUS
<1>3. results' = <<>> /\ DOMAIN results' = {}
  BY <1>1, NoneIn
<1>4. NothingYet' /\ Beyond' /\ Sound'
  BY <1>3 DEF NothingYet, Beyond, Sound
<1>5. QED
  BY <1>1, <1>2, <1>4

LEMMA QueryStep == QueryInv /\ [Next]_vars => QueryInv'
<1> SUFFICES ASSUME QueryInv, [Next]_vars PROVE QueryInv'
  OBVIOUS
<1> USE DEF TypeOK, Pc, Scanning
<1>1. CASE Open
  <2>1. PICK q \in Query : /\ query' = q
                          /\ left' = q.offset
                          /\ pc' \in {"seek", "done"}
                          /\ view' \in {rows, view}
                          /\ err' \in {err, "op"}
    BY <1>1 DEF Open
  <2>2. q \in QueryRecord /\ q # NoQuery /\ q.offset \in Nat
    BY QueryAssumption DEF QueryRecord
  <2>3. UNCHANGED <<rows, pos, results, writes>> /\ results = <<>>
    BY <1>1 DEF Open, QueryInv, NothingYet
  <2>4. TypeOK'
    BY <2>1, <2>2, <2>3 DEF QueryInv
  <2>5. NothingYet' /\ Beyond' /\ Sound'
    BY <2>1, <2>3 DEF NothingYet, Beyond, Sound
  <2>6. QED
    BY <2>1, <2>4, <2>5 DEF QueryInv
<1>2. CASE Seek
  <2> HIDE DEF TypeOK
  <2>1. query \in Query /\ query \in QueryRecord /\ query.from - 1 \in Position
    BY <1>2, QueryAssumption, Bounds DEF Seek, QueryInv, QueryRecord, Position
  <2>2. After(view, query.from - 1) \in Position
        /\ (After(view, query.from - 1) \in Row => After(view, query.from - 1) \in view)
    <3>1. view \in SUBSET Row
      BY DEF QueryInv, TypeOK
    <3>2. QED
      BY <2>1, <3>1, AfterIs
  <2> USE DEF TypeOK
  <2>3. QED
    BY <1>2, <2>2, MoveKeeps DEF Seek, MoveTo, QueryInv
<1>3. CASE SkipOne
  <2>1. pos \in view /\ pos \in Position /\ view \subseteq Row
    BY <1>3 DEF SkipOne, QueryInv
  <2>2. Advanced(query, view, pos) \in Position
        /\ (Advanced(query, view, pos) \in Row => Advanced(query, view, pos) \in view)
    BY <2>1, AdvancedIs
  <2>3. QED
    BY <1>3, <2>1, <2>2, MoveKeeps DEF SkipOne, MoveTo, Stay, QueryInv
<1>4. CASE SkipMatch
  <2>1. pos \in view /\ pos \in Position /\ view \subseteq Row
    BY <1>4 DEF SkipMatch, QueryInv
  <2>2. Advanced(query, view, pos) \in Position
        /\ (Advanced(query, view, pos) \in Row => Advanced(query, view, pos) \in view)
    BY <2>1, AdvancedIs
  <2>3. QED
    BY <1>4, <2>1, <2>2, MoveKeeps DEF SkipMatch, MoveTo, Stay, QueryInv
<1>5. CASE Offset
  <2>1. pos \in view /\ pos \in Position /\ view \subseteq Row
    BY <1>5 DEF Offset, QueryInv
  <2>2. Advanced(query, view, pos) \in Position
        /\ (Advanced(query, view, pos) \in Row => Advanced(query, view, pos) \in view)
    BY <2>1, AdvancedIs
  <2>3. left' \in Nat
    <3>1. left \in Nat
      BY DEF QueryInv
    <3>2. left' = left \/ (left > 0 /\ left' = left - 1)
      BY <1>5 DEF Offset
    <3>3. QED
      BY <3>1, <3>2
  <2>4. QED
    BY <1>5, <2>1, <2>2, <2>3, MoveKeeps DEF Offset, MoveTo, Stay, QueryInv
<1>6. CASE Scan
  <2>1. /\ pc = "scan" /\ pos \in view /\ pos \in Position /\ pos \in Row /\ view \subseteq Row
        /\ query \in Query /\ query \in QueryRecord /\ query # NoQuery /\ results \in Seq(Row)
    BY <1>6, QueryAssumption DEF Scan, QueryInv
  <2>2. CASE Stay("done") /\ UNCHANGED results
    <3>1. TypeOK'
      BY <1>6, <2>2 DEF Scan, Stay, QueryInv
    <3>2. NothingYet' /\ Beyond' /\ Sound'
      BY <1>6, <2>2 DEF Scan, Stay, QueryInv, NothingYet, Beyond, Sound
    <3>3. QED
      BY <1>6, <2>1, <2>2, <3>1, <3>2 DEF Scan, QueryInv
  <2>3. CASE /\ Len(results) < query.limit
             /\ ~ Stops(query, pos)
             /\ results' = IF pos \in query.kept THEN Append(results, pos) ELSE results
             /\ MoveTo(Advanced(query, view, pos), "scan")
    <3> DEFINE p == Advanced(query, view, pos)
    <3>1. p \in Position /\ (p \in Row => p \in view /\ Ordered(query, pos, p))
      BY <2>1, AdvancedIs
    <3>2. UNCHANGED <<rows, query, view, left, err, writes>>
      BY <1>6 DEF Scan
    <3>3. results' \in Seq(Row)
      BY <2>1, <2>3
    <3>4. TypeOK'
      BY <2>1, <2>3, <3>1, <3>2, <3>3 DEF MoveTo, QueryInv
    <3>5. query.limit \in Nat
      BY <2>1 DEF QueryRecord
    <3>6. \A i \in DOMAIN results : Ordered(query, results[i], pos) /\ results[i] \in Row
      <4>1. \A i \in DOMAIN results : Ordered(query, results[i], pos)
        BY <2>1 DEF QueryInv, Beyond
      <4>2. \A i \in DOMAIN results : results[i] \in Row
        BY <2>1
      <4>3. QED
        BY <4>1, <4>2
    <3>7. \A i \in DOMAIN results' :
             \/ i \in DOMAIN results /\ results'[i] = results[i] /\ results'[i] \in Row
             \/ pos \in query.kept /\ i = Len(results) + 1 /\ results'[i] = pos /\ results'[i] \in Row
      <4>1. CASE results' = results
        BY <2>1, <4>1
      <4>2. CASE pos \in query.kept /\ results' = Append(results, pos)
        <5>1. DOMAIN results' = 1 .. Len(results) + 1 /\ DOMAIN results = 1 .. Len(results)
          BY <2>1, <4>2
        <5>2. \A i \in 1 .. Len(results) : results'[i] = results[i] /\ results[i] \in Row
          BY <2>1, <4>2
        <5>3. results'[Len(results) + 1] = pos
          BY <2>1, <4>2
        <5>4. Len(results) \in Nat
          BY <2>1
        <5>5. QED
          BY <2>1, <4>2, <5>1, <5>2, <5>3, <5>4
      <4>3. QED
        BY <2>3, <4>1, <4>2
    <3>8. Len(results') <= query.limit
      BY <2>1, <2>3, <3>5
    <3>9. Discrim[pos] = query.block /\ (StopsUnmatched(query) => Matches(query, pos))
      BY <2>3 DEF Stops, LeavesBlock, Unmatched
    <3>10. ASSUME NEW i \in DOMAIN results'
           PROVE  /\ results'[i] \in view \cap query.kept
                  /\ Discrim[results'[i]] = query.block
                  /\ StopsUnmatched(query) => Matches(query, results'[i])
      BY <2>1, <3>7, <3>9 DEF QueryInv, Sound
    <3>11. ASSUME NEW i \in DOMAIN results', NEW j \in DOMAIN results', i < j
           PROVE  Ordered(query, results'[i], results'[j])
      <4>1. i \in DOMAIN results /\ results'[i] = results[i]
        BY <2>1, <3>3, <3>7, <3>11
      <4>2. CASE j \in DOMAIN results /\ results'[j] = results[j]
        BY <3>11, <4>1, <4>2 DEF QueryInv, Sound
      <4>3. CASE results'[j] = pos
        BY <3>6, <4>1, <4>3
      <4>4. QED
        BY <3>7, <4>2, <4>3
    <3>12. Sound'
      BY <2>1, <3>2, <3>8, <3>10, <3>11 DEF Sound
    <3>13. Beyond'
      <4> SUFFICES ASSUME p \in Row, NEW i \in DOMAIN results'
                   PROVE  Ordered(query, results'[i], p)
        BY <2>3, <3>2 DEF Beyond, MoveTo
      <4>1. Ordered(query, results'[i], pos) \/ results'[i] = pos
        BY <3>6, <3>7
      <4>2. results'[i] \in Row
        BY <3>7
      <4>3. QED
        BY <2>1, <3>1, <4>1, <4>2, RowAssumption DEF Ordered, Row
    <3>14. NothingYet'
      BY <2>3 DEF NothingYet, MoveTo
    <3>15. QED
      BY <2>1, <3>2, <3>4, <3>12, <3>13, <3>14 DEF QueryInv
  <2>4. QED
    BY <1>6, <2>2, <2>3 DEF Scan
<1>7. CASE Fault
  <2>1. UNCHANGED <<query, view, results>> /\ pc' = "done" /\ query \in Query
    BY <1>7 DEF Fault, QueryInv
  <2>2. TypeOK'
    BY <1>7 DEF Fault, QueryInv
  <2>3. NothingYet' /\ Beyond' /\ Sound'
    BY <2>1 DEF QueryInv, NothingYet, Beyond, Sound
  <2>4. QED
    BY <2>1, <2>2, <2>3 DEF QueryInv
<1>8. CASE Return
  <2>1. TypeOK'
    BY <1>8, PositionIs, NoneIn DEF Return, QueryInv
  <2>2. NothingYet' /\ Beyond' /\ Sound' /\ query' = NoQuery
    <3>1. results' = <<>> /\ DOMAIN results' = {} /\ query' = NoQuery
      BY <1>8, NoneIn DEF Return
    <3>2. QED
      BY <3>1 DEF NothingYet, Beyond, Sound
  <2>3. QED
    BY <1>8, <2>1, <2>2 DEF Return, QueryInv
<1>9. CASE Write
  <2>1. TypeOK'
    <3>1. writes \in 0 .. MaxWrites /\ rows \subseteq Row
      BY DEF QueryInv
    <3>2. writes' \in 0 .. MaxWrites
      BY <1>9, <3>1, Bounds DEF Write
    <3>3. rows' \subseteq Row
      BY <1>9, <3>1 DEF Write
    <3>4. QED
      BY <1>9, <3>2, <3>3 DEF Write, scan, QueryInv
  <2>2. QED
    BY <1>9, <2>1 DEF Write, scan, QueryInv, NothingYet, Beyond, Sound
<1>10. CASE UNCHANGED vars
  BY <1>10 DEF vars, scan, QueryInv, NothingYet, Beyond, Sound
<1>11. QED
  BY <1>1, <1>2, <1>3, <1>4, <1>5, <1>6, <1>7, <1>8, <1>9, <1>10 DEF Next, Step

\* What a query has returned is always in its view and its block, passes its
\* filter, matches when it must, comes in order and stays within the limit.
THEOREM QuerySound == Spec => []Sound
<1>1. QueryInv => Sound
  BY DEF QueryInv
<1>2. QED
  BY <1>1, QueryInit, QueryStep, PTL DEF Spec

\* The iterator is valid, on a row of its view, wherever its key is used.
THEOREM IteratorValid == Spec => []TypeOK
<1>1. QueryInv => TypeOK
  BY DEF QueryInv
<1>2. QED
  BY <1>1, QueryInit, QueryStep, PTL DEF Spec

(***************************************************************************)
(* A scan is short: each of its steps brings it nearer to its end, and the *)
(* writes of other threads put nothing in its way.                         *)
(***************************************************************************)
Ahead == IF Forward(query) THEN LastRow + 1 - pos ELSE pos

\* More than the steps that are left.
StepsLeft ==
    CASE pc = "seek"       -> LastRow + 4
      [] pc = "skip_one"   -> Ahead + 3
      [] pc = "skip_match" -> Ahead + 2
      [] pc = "offset"     -> Ahead + 1
      [] pc = "scan"       -> Ahead
      [] pc \in {"idle", "done"} -> 0

Onward == Seek \/ SkipOne \/ SkipMatch \/ Offset \/ Scan

LEMMA AheadIs == pos \in Row => Ahead \in 1 .. LastRow
BY Bounds DEF Ahead, Row

LEMMA StepsLeftIs == QueryInv => StepsLeft \in 0 .. LastRow + 4
<1> SUFFICES ASSUME QueryInv PROVE StepsLeft \in 0 .. LastRow + 4
  OBVIOUS
<1>1. pc \in Scanning \ {"seek"} => Ahead \in 1 .. LastRow
  BY AheadIs DEF QueryInv, TypeOK
<1>2. pc \in Scanning \cup {"idle", "done"}
  BY DEF QueryInv, TypeOK, Pc
<1>3. QED
  BY <1>1, <1>2, Bounds DEF StepsLeft, Scanning

\* A move leads nearer to the end, or to it.
LEMMA MoveNearer ==
    ASSUME QueryInv, pos \in Row, UNCHANGED query, NEW l,
           MoveTo(Advanced(query, view, pos), l)
    PROVE  pc' = "done" \/ (pc' = l /\ Ahead' \in 1 .. LastRow /\ Ahead' < Ahead)
<1> DEFINE next == Advanced(query, view, pos)
<1>1. view \in SUBSET Row /\ pos \in Position
  BY DEF QueryInv, TypeOK
<1>2. next \in Row => Ordered(query, pos, next)
  BY <1>1, AdvancedIs
<1>3. CASE next \in Row
  <2>1. pos' = next /\ pc' = l
    BY <1>3 DEF MoveTo
  <2> HIDE DEF next
  <2>2. pos \in Int /\ next \in 1 .. LastRow /\ LastRow \in Nat
    BY <1>3, Bounds DEF Row
  <2>3. CASE Forward(query)
    <3>1. pos < next /\ Ahead = LastRow + 1 - pos
      BY <1>2, <1>3, <2>3 DEF Ordered, Ahead
    <3>2. Ahead' = LastRow + 1 - next
      <4>1. Forward(query)'
        BY <2>3 DEF Forward
      <4>2. QED
        BY <2>1, <4>1 DEF Ahead
    <3>3. QED
      BY <2>1, <2>2, <3>1, <3>2
  <2>4. CASE ~ Forward(query)
    <3>1. next < pos /\ Ahead = pos
      BY <1>2, <1>3, <2>4 DEF Ordered, Ahead
    <3>2. Ahead' = next
      <4>1. ~ Forward(query)'
        BY <2>4 DEF Forward
      <4>2. QED
        BY <2>1, <4>1 DEF Ahead
    <3>3. QED
      BY <2>1, <2>2, <3>1, <3>2
  <2>5. QED
    BY <2>3, <2>4
<1>4. CASE next \notin Row
  BY <1>4 DEF MoveTo
<1>5. QED
  BY <1>3, <1>4

LEMMA OnwardStep == QueryInv /\ Onward => StepsLeft' < StepsLeft
<1> SUFFICES ASSUME QueryInv, Onward PROVE StepsLeft' < StepsLeft
  OBVIOUS
<1>1. CASE Seek
  <2>1. UNCHANGED query /\ pc = "seek" /\ MoveTo(After(view, query.from - 1), "skip_one")
    BY <1>1 DEF Seek
  <2>2. pc' = "done" \/ (pc' = "skip_one" /\ pos' \in Row)
    BY <2>1 DEF MoveTo
  <2>3. (pos \in Row => Ahead \in 1 .. LastRow)'
    BY AheadIs, PTL
  <2>4. QED
    BY <2>1, <2>2, <2>3, Bounds DEF StepsLeft
<1>2. CASE ~ Seek
  <2>1. UNCHANGED query /\ pos \in Row /\ Ahead \in 1 .. LastRow
    <3>1. pc \in Scanning \ {"seek"} /\ UNCHANGED query
      BY <1>2 DEF Onward, Seek, SkipOne, SkipMatch, Offset, Scan, Scanning
    <3>2. pos \in Row
      BY <3>1 DEF QueryInv, TypeOK
    <3>3. QED
      BY <3>1, <3>2, AheadIs
  <2>2. UNCHANGED pos => Ahead' = Ahead
    BY <2>1 DEF Ahead, Forward
  <2>3. LastRow \in Nat
    BY Bounds
  <2>4. CASE SkipOne
    <3>1. pc = "skip_one" /\ (pc' = "done" \/ (pc' = "skip_match" /\ Ahead' \in 1 .. LastRow /\ Ahead' <= Ahead))
      BY <2>1, <2>2, <2>4, MoveNearer DEF SkipOne, Stay
    <3> HIDE DEF Ahead
    <3>2. QED
      BY <2>1, <2>3, <3>1 DEF StepsLeft
  <2>5. CASE SkipMatch
    <3>1. /\ pc = "skip_match"
          /\ \/ pc' = "done"
             \/ pc' = "skip_match" /\ Ahead' \in 1 .. LastRow /\ Ahead' < Ahead
             \/ pc' = "offset" /\ Ahead' = Ahead
      BY <2>1, <2>2, <2>5, MoveNearer DEF SkipMatch, Stay
    <3>2. QED
      BY <2>1, <2>3, <3>1 DEF StepsLeft
  <2>6. CASE Offset
    <3>1. /\ pc = "offset"
          /\ \/ pc' = "done"
             \/ pc' = "offset" /\ Ahead' \in 1 .. LastRow /\ Ahead' < Ahead
             \/ pc' = "scan" /\ Ahead' = Ahead
      BY <2>1, <2>2, <2>6, MoveNearer DEF Offset, Stay
    <3>2. QED
      BY <2>1, <2>3, <3>1 DEF StepsLeft
  <2>7. CASE Scan
    <3>1. /\ pc = "scan"
          /\ \/ pc' = "done"
             \/ pc' = "scan" /\ Ahead' \in 1 .. LastRow /\ Ahead' < Ahead
      BY <2>1, <2>2, <2>7, MoveNearer DEF Scan, Stay
    <3>2. QED
      BY <2>1, <2>3, <3>1 DEF StepsLeft
  <2>8. QED
    BY <1>2, <2>4, <2>5, <2>6, <2>7 DEF Onward
<1>3. QED
  BY <1>1, <1>2

LEMMA WriteKeepsOff == Write => StepsLeft' = StepsLeft
BY DEF Write, scan, StepsLeft, Ahead, Forward

\* A query takes fewer steps than there can be rows, and four: each of its steps
\* leaves fewer, whatever the flags, and a write, which it does not see, as many.
THEOREM QueryShort ==
    Spec => /\ [](StepsLeft \in 0 .. LastRow + 4)
            /\ [][Onward => StepsLeft' < StepsLeft]_vars
            /\ [][Write => StepsLeft' = StepsLeft]_vars
<1>1. QueryInv /\ [Next]_vars => [Onward => StepsLeft' < StepsLeft]_vars
  BY OnwardStep
<1>2. [Next]_vars => [Write => StepsLeft' = StepsLeft]_vars
  BY WriteKeepsOff
<1>3. QED
  BY <1>1, <1>2, StepsLeftIs, QueryInit, QueryStep, PTL DEF Spec

(***************************************************************************)
(* Exactness.  The track of a query is what is left of its view once the   *)
(* skipping is done: the rows that the iterator goes along, one after the  *)
(* other, from the first of them.  The rows that the query is for are a    *)
(* first part of the track, up to the row that stops the scan, so that a   *)
(* row has the same rank in both.                                          *)
(***************************************************************************)
\* The end, if there is one, is not past the starting point in the direction of
\* the scan.
EndIdle(q) == HasEnd(q) => IF Forward(q) THEN q.lo <= q.from ELSE q.hi >= q.thru

OneMatch(q, v) == \E m \in v : Matches(q, m) /\ \A r \in v : Matches(q, r) => r = m

\* The queries that return all they are for: forward; < when there is a row at or
\* above the starting point; <= when one row matches it.
Exactly(q, v) ==
    /\ EndIdle(q)
    /\ \/ Forward(q)
       \/ q.op = "lt" /\ ~ q.ancestor /\ ~ q.cursor /\ \E r \in v : r >= q.from
       \/ q.op = "lte" /\ ~ q.ancestor /\ OneMatch(q, v)

\* Of the rows from the starting point on, those that are not skipped: every
\* match is, or only the first row if it matches.
Start(q, v, r) ==
    IF Forward(q)
    THEN /\ r >= q.from
         /\ SkipsMatch(q) => ~ Matches(q, r)
         /\ SkipsOne(q) => ~ Matches(q, r) \/ \E s \in v : q.from <= s /\ s < r
    ELSE IF q.op = "lt" THEN r < q.from ELSE r <= q.thru

Track(q, v) == {r \in v : Start(q, v, r)}

\* What the query returns if it has no limit.
Due(q, v) == {r \in Wanted(q, v) \cap q.kept : Rank(q, Wanted(q, v), r) >= q.offset}

LEMMA QueryIs ==
    ASSUME NEW q \in Query
    PROVE  /\ q \in QueryRecord /\ q # NoQuery
           /\ q.from \in Int /\ q.thru \in Int /\ q.thru >= q.from - 1
           /\ q.offset \in Nat /\ q.limit \in Nat
           /\ q.op \in Ops \cup {"other"}
BY QueryAssumption, Bounds DEF QueryRecord, QueryFacts

LEMMA RowsAre == \A v \in SUBSET Row : v \subseteq Int /\ v \subseteq Nat /\ IsFiniteSet(v)
<1>1. Row \subseteq Nat /\ IsFiniteSet(Row)
  BY Bounds, FS_Interval DEF Row
<1>2. ASSUME NEW v \in SUBSET Row PROVE IsFiniteSet(v)
  BY <1>1, FS_Subset
<1>3. QED
  BY <1>1, <1>2

\* The order of the scan is a strict total order of the rows.
LEMMA OrderIs ==
    ASSUME NEW q
    PROVE  /\ \A r \in Row : ~ Ordered(q, r, r)
           /\ \A r, s \in Row : r = s \/ Ordered(q, r, s) \/ Ordered(q, s, r)
           /\ \A r, s \in Row : Ordered(q, r, s) => ~ Ordered(q, s, r)
           /\ \A r, s, p \in Row : Ordered(q, r, s) /\ Ordered(q, s, p) => Ordered(q, r, p)
<1>1. Row \subseteq Int
  BY Bounds DEF Row
<1>2. QED
  BY <1>1 DEF Ordered

\* Going on along the track never leads back to a row that was skipped.
LEMMA TrackGoesOn ==
    ASSUME NEW q \in Query, NEW v \in SUBSET Row, NEW r \in Track(q, v), NEW s \in v, Ordered(q, r, s)
    PROVE  s \in Track(q, v)
<1>1. r \in Int /\ s \in Int
  BY RowsAre DEF Track
<1>2. q.from \in Int /\ q.thru \in Int
  BY QueryIs
<1>3. CASE Forward(q)
  <2>1. r >= q.from /\ r < s /\ r \in v
    BY <1>3 DEF Track, Start, Ordered
  <2>2. SkipsMatch(q) => ~ Matches(q, s)
    BY <1>1, <1>2, <1>3, <2>1 DEF Track, Start, Matches
  <2>3. QED
    BY <1>1, <1>2, <1>3, <2>1, <2>2 DEF Track, Start
<1>4. CASE ~ Forward(q)
  BY <1>1, <1>2, <1>4 DEF Track, Start, Ordered
<1>5. QED
  BY <1>3, <1>4

\* An idle end stops the scan at no row of the track.
LEMMA NoEnd ==
    ASSUME NEW q \in Query, NEW v \in SUBSET Row, Exactly(q, v), NEW r \in Track(q, v)
    PROVE  ~ FailsEnd(q, r)
<1>1. r \in Int /\ q.from \in Int /\ q.thru \in Int /\ q.thru >= q.from - 1 /\ q.lo \in Int /\ q.hi \in Int
  BY RowsAre, QueryIs, Bounds DEF Track, QueryRecord
<1>2. CASE Forward(q)
  BY <1>1, <1>2 DEF Exactly, EndIdle, Track, Start, FailsEnd
<1>3. CASE ~ Forward(q)
  <2>1. r <= q.thru
    BY <1>1, <1>3 DEF Track, Start
  <2>2. QED
    BY <1>1, <1>3, <2>1 DEF Exactly, EndIdle, FailsEnd
<1>4. QED
  BY <1>2, <1>3

\* Once a row of the track stops the scan, all that follow would.
LEMMA StopsForGood ==
    ASSUME NEW q \in Query, NEW v \in SUBSET Row, Exactly(q, v),
           NEW r \in Track(q, v), NEW s \in v, Ordered(q, r, s), Stops(q, r)
    PROVE  Stops(q, s)
<1>1. r \in Int /\ s \in Int /\ r \in Row /\ s \in Row
  BY RowsAre DEF Track
<1>2. /\ q.from \in Int /\ q.thru \in Int /\ q.thru >= q.from - 1
      /\ q.block \in Int /\ Discrim[r] \in Int /\ Discrim[s] \in Int
  BY <1>1, QueryIs, RowAssumption DEF QueryRecord
<1>3. CASE Forward(q)
  <2>1. r >= q.from /\ r < s /\ s >= q.from
    BY <1>1, <1>2, <1>3 DEF Track, Start, Ordered
  <2>2. LeavesBlock(q, r) => LeavesBlock(q, s)
    <3>1. Discrim[r] >= q.block /\ Discrim[r] <= Discrim[s]
      BY <1>1, <2>1, RowAssumption, QueryAssumption DEF QueryFacts
    <3>2. QED
      BY <1>2, <3>1 DEF LeavesBlock
  <2>3. Unmatched(q, r) => Unmatched(q, s)
    BY <1>1, <1>2, <2>1 DEF Unmatched, Matches
  <2>4. QED
    BY <2>2, <2>3, NoEnd DEF Stops
<1>4. CASE ~ Forward(q)
  <2>1. r <= q.thru /\ s < r
    BY <1>1, <1>2, <1>4 DEF Track, Start, Ordered
  <2>2. LeavesBlock(q, r) => LeavesBlock(q, s)
    <3>1. Discrim[s] <= Discrim[r]
      BY <1>1, <2>1, RowAssumption
    <3>2. Discrim[r] <= q.block
      <4>1. CASE r < q.from
        BY <1>1, <4>1, QueryAssumption DEF QueryFacts
      <4>2. CASE r >= q.from
        <5>1. r \in q.from .. q.thru
          BY <1>1, <1>2, <2>1, <4>2
        <5>2. QED
          BY <1>2, <5>1, QueryAssumption DEF QueryFacts
      <4>3. QED
        BY <1>1, <1>2, <4>1, <4>2
    <3>3. QED
      BY <1>2, <3>1, <3>2 DEF LeavesBlock
  <2>3. ~ StopsUnmatched(q)
    BY <1>4 DEF Exactly, StopsUnmatched, Forward
  <2>4. QED
    BY <2>2, <2>3, NoEnd DEF Stops, Unmatched
<1>5. QED
  BY <1>3, <1>4

\* A query is for the rows of its track that do not stop it.
LEMMA WantedIs ==
    ASSUME NEW q \in Query, NEW v \in SUBSET Row, Exactly(q, v)
    PROVE  Wanted(q, v) = {r \in Track(q, v) : ~ Stops(q, r)}
<1> DEFINE matching == {r \in v : Matches(q, r)}
<1>1. /\ q.from \in Int /\ q.thru \in Int /\ q.thru >= q.from - 1 /\ v \subseteq Int /\ v \subseteq Nat
      /\ q.op \in Ops \cup {"other"}
  BY QueryIs, RowsAre
<1>2. \A r \in v : Matches(q, r) => Discrim[r] = q.block
  BY <1>1, QueryAssumption DEF QueryFacts, Matches
<1>3. \A r \in Track(q, v) : Stops(q, r) <=> Discrim[r] # q.block \/ (StopsUnmatched(q) /\ ~ Matches(q, r))
  BY NoEnd DEF Stops, LeavesBlock, Unmatched
<1>4. CASE q.ancestor
  <2>1. Forward(q) /\ StopsUnmatched(q) /\ ~ SkipsMatch(q) /\ (SkipsOne(q) <=> ~ q.cursor)
    BY <1>4 DEF Forward, StopsUnmatched, SkipsMatch, SkipsOne
  <2>2. \A r \in v : r \in Track(q, v) /\ ~ Stops(q, r) <=>
            Matches(q, r) /\ (~ q.cursor => \E s \in v : q.from <= s /\ s < r)
    BY <1>2, <1>3, <2>1 DEF Track, Start, Matches
  <2>3. CASE q.cursor \/ matching = {}
    <3>1. Wanted(q, v) = matching
      BY <1>4, <2>3 DEF Wanted
    <3>2. \A r \in matching : q.cursor
      BY <2>3
    <3> QED
      BY <2>2, <3>1, <3>2 DEF Track
  <2>4. CASE ~ (q.cursor \/ matching = {})
    <3> DEFINE m == Min(matching)
    <3>1. m \in matching /\ \A i \in matching : m <= i
      BY <1>1, <2>4, MinExists
    <3>2. Wanted(q, v) = matching \ {m}
      BY <1>4, <2>4 DEF Wanted, Least
    <3> HIDE DEF m
    <3>3. ASSUME NEW r \in v, Matches(q, r)
          PROVE  r # m <=> \E s \in v : q.from <= s /\ s < r
      <4>1. ASSUME r # m PROVE m \in v /\ q.from <= m /\ m < r
        BY <1>1, <3>1, <3>3, <4>1 DEF Matches
      <4>2. ASSUME NEW s \in v, q.from <= s, s < r PROVE r # m
        BY <1>1, <3>1, <3>3, <4>2 DEF Matches
      <4>3. QED
        BY <4>1, <4>2
    <3>4. QED
      BY <2>2, <2>4, <3>2, <3>3 DEF Track
  <2>5. QED
    BY <2>3, <2>4
<1>5. CASE ~ q.ancestor /\ q.op = "eq"
  <2>1. Forward(q) /\ StopsUnmatched(q) /\ ~ SkipsMatch(q) /\ ~ SkipsOne(q)
    BY <1>5 DEF Forward, StopsUnmatched, SkipsMatch, SkipsOne
  <2>2. Wanted(q, v) = matching
    BY <1>5 DEF Wanted
  <2>3. QED
    BY <1>2, <1>3, <2>1, <2>2 DEF Track, Start, Matches
<1>6. CASE ~ q.ancestor /\ q.op = "gte"
  <2>1. Forward(q) /\ ~ StopsUnmatched(q) /\ ~ SkipsMatch(q) /\ ~ SkipsOne(q)
    BY <1>6 DEF Forward, StopsUnmatched, SkipsMatch, SkipsOne
  <2>2. Wanted(q, v) = {r \in v : Discrim[r] = q.block /\ r >= q.from}
    BY <1>6 DEF Wanted
  <2>3. QED
    BY <1>3, <2>1, <2>2 DEF Track, Start
<1>7. CASE ~ q.ancestor /\ q.op = "gt"
  <2>1. Forward(q) /\ ~ StopsUnmatched(q) /\ (SkipsMatch(q) <=> ~ q.cursor) /\ ~ SkipsOne(q)
    BY <1>7 DEF Forward, StopsUnmatched, SkipsMatch, SkipsOne
  <2>2. Wanted(q, v) = {r \in v : Discrim[r] = q.block /\ r >= q.from /\ (~ q.cursor => ~ Matches(q, r))}
    BY <1>7 DEF Wanted
  <2>3. QED
    BY <1>3, <2>1, <2>2 DEF Track, Start
<1>8. CASE ~ q.ancestor /\ q.op = "lt"
  <2>1. ~ Forward(q) /\ ~ StopsUnmatched(q)
    BY <1>8 DEF Forward, StopsUnmatched
  <2>2. Wanted(q, v) = {r \in v : Discrim[r] = q.block /\ r < q.from}
    BY <1>8 DEF Wanted
  <2>3. QED
    BY <1>3, <1>8, <2>1, <2>2 DEF Track, Start
<1>9. CASE ~ q.ancestor /\ q.op = "lte"
  <2>1. ~ Forward(q) /\ ~ StopsUnmatched(q)
    BY <1>9 DEF Forward, StopsUnmatched
  <2>2. Wanted(q, v) = {r \in v : Discrim[r] = q.block /\ r <= q.thru}
    BY <1>9 DEF Wanted
  <2>3. QED
    BY <1>3, <1>9, <2>1, <2>2 DEF Track, Start
<1>10. QED
  BY <1>4, <1>5, <1>6, <1>7, <1>8, <1>9 DEF Exactly, Forward

(***************************************************************************)
(* Ranks.                                                                  *)
(***************************************************************************)
LEMMA RankIs ==
    ASSUME NEW q, NEW S \in SUBSET Row, NEW r
    PROVE  /\ Rank(q, S, r) \in Nat /\ IsFiniteSet({s \in S : Ordered(q, s, r)})
           /\ IsFiniteSet(S) /\ Cardinality(S) \in Nat
<1>1. IsFiniteSet(S)
  BY RowsAre
<1>2. IsFiniteSet({s \in S : Ordered(q, s, r)})
  BY <1>1, FS_Subset
<1>3. QED
  BY <1>1, <1>2, FS_CardinalityType DEF Rank

\* What lies before p in S is at least r and what lies before r, and no more when p
\* is the row that follows.
LEMMA RankGrows ==
    ASSUME NEW q, NEW S \in SUBSET Row, NEW r \in S, NEW p \in Row, Ordered(q, r, p)
    PROVE  /\ Rank(q, S, p) >= Rank(q, S, r) + 1
           /\ (\A s \in S : Ordered(q, r, s) => s = p \/ Ordered(q, p, s)) =>
                  Rank(q, S, p) = Rank(q, S, r) + 1
<1> DEFINE A == {s \in S : Ordered(q, s, r)}
           B == {s \in S : Ordered(q, s, p)}
<1>1. r \in Row /\ S \subseteq Row
  OBVIOUS
<1>2. IsFiniteSet(A) /\ IsFiniteSet(B) /\ Cardinality(A) \in Nat /\ Cardinality(B) \in Nat
  BY RankIs DEF Rank
<1>3. A \cup {r} \subseteq B /\ r \notin A
  BY <1>1, OrderIs
<1>4. Rank(q, S, r) = Cardinality(A) /\ Rank(q, S, p) = Cardinality(B)
  BY DEF Rank
<1>5. ASSUME \A s \in S : Ordered(q, r, s) => s = p \/ Ordered(q, p, s)
      PROVE  B \subseteq A \cup {r}
  BY <1>1, <1>5, OrderIs
<1> HIDE DEF A, B
<1>6. Cardinality(A \cup {r}) = Cardinality(A) + 1 /\ IsFiniteSet(A \cup {r})
  BY <1>2, <1>3, FS_AddElement
<1>7. Cardinality(A \cup {r}) <= Cardinality(B)
  BY <1>2, <1>3, FS_Subset
<1>8. ASSUME B \subseteq A \cup {r} PROVE Cardinality(B) = Cardinality(A) + 1
  <2>1. B = A \cup {r}
    BY <1>3, <1>8
  <2>2. QED
    BY <1>6, <2>1
<1>9. QED
  BY <1>2, <1>4, <1>5, <1>6, <1>7, <1>8

LEMMA RankBelow ==
    ASSUME NEW q, NEW S \in SUBSET Row, NEW r \in S
    PROVE  Rank(q, S, r) < Cardinality(S)
<1> DEFINE A == {s \in S : Ordered(q, s, r)}
<1>1. S \subseteq Int /\ r \in Int /\ IsFiniteSet(S)
  BY RowsAre
<1>2. IsFiniteSet(A) /\ Cardinality(A) \in Nat /\ Rank(q, S, r) = Cardinality(A) /\ Cardinality(S) \in Nat
  BY RankIs DEF Rank
<1>3. A \cup {r} \subseteq S /\ r \notin A
  BY <1>1 DEF Ordered
<1> HIDE DEF A
<1>4. Cardinality(A \cup {r}) = Cardinality(A) + 1
  BY <1>2, <1>3, FS_AddElement
<1>5. Cardinality(A \cup {r}) <= Cardinality(S)
  BY <1>1, <1>3, FS_Subset
<1>6. QED
  BY <1>2, <1>4, <1>5

\* A row that the query is for has the same rank on the track as among those rows.
LEMMA RankInTrack ==
    ASSUME NEW q \in Query, NEW v \in SUBSET Row, Exactly(q, v), NEW r \in Wanted(q, v)
    PROVE  Rank(q, Wanted(q, v), r) = Rank(q, Track(q, v), r)
<1>1. Wanted(q, v) = {s \in Track(q, v) : ~ Stops(q, s)}
  BY WantedIs
<1>2. r \in v /\ ~ Stops(q, r)
  BY <1>1 DEF Track
<1>3. \A s \in Track(q, v) : Ordered(q, s, r) => ~ Stops(q, s)
  BY <1>2, StopsForGood
<1>4. {s \in Wanted(q, v) : Ordered(q, s, r)} = {s \in Track(q, v) : Ordered(q, s, r)}
  BY <1>1, <1>3
<1>5. QED
  BY <1>4 DEF Rank

LEMMA DueIs ==
    ASSUME NEW q \in Query, NEW v \in SUBSET Row, Exactly(q, v)
    PROVE  /\ Due(q, v) \in SUBSET Row
           /\ \A r : r \in Due(q, v) <=> /\ r \in Track(q, v) /\ r \in q.kept /\ ~ Stops(q, r)
                                         /\ Rank(q, Track(q, v), r) >= q.offset
<1>1. Wanted(q, v) = {r \in Track(q, v) : ~ Stops(q, r)}
  BY WantedIs
<1>2. \A r \in Wanted(q, v) : Rank(q, Wanted(q, v), r) = Rank(q, Track(q, v), r)
  BY RankInTrack
<1>3. Track(q, v) \subseteq Row
  BY DEF Track
<1>4. QED
  BY <1>1, <1>2, <1>3 DEF Due

\* When no more is due than the limit, all of it is expected; otherwise what lies
\* before any row that has limit of them before it.
LEMMA ExpectedAll ==
    ASSUME NEW q \in Query, NEW v \in SUBSET Row, Exactly(q, v), Cardinality(Due(q, v)) <= q.limit
    PROVE  Expected(q, v) = Due(q, v)
<1>1. Due(q, v) \in SUBSET Row
  BY DueIs
<1>2. \A r \in Due(q, v) : Rank(q, Due(q, v), r) < Cardinality(Due(q, v))
  BY <1>1, RankBelow
<1>3. Cardinality(Due(q, v)) \in Nat /\ q.limit \in Nat /\ \A r : Rank(q, Due(q, v), r) \in Nat
  BY <1>1, RankIs, QueryIs
<1>4. \A r \in Due(q, v) : Rank(q, Due(q, v), r) < q.limit
  BY <1>2, <1>3
<1>5. Expected(q, v) = {r \in Due(q, v) : Rank(q, Due(q, v), r) < q.limit}
  BY DEF Expected, Due
<1>6. QED
  BY <1>4, <1>5

LEMMA ExpectedFirst ==
    ASSUME NEW q \in Query, NEW v \in SUBSET Row, Exactly(q, v), NEW p \in Row,
           Rank(q, Due(q, v), p) = q.limit
    PROVE  Expected(q, v) = {r \in Due(q, v) : Ordered(q, r, p)}
<1> DEFINE D == Due(q, v)
<1>1. D \in SUBSET Row
  BY DueIs
<1>2. Expected(q, v) = {r \in D : Rank(q, D, r) < q.limit}
  BY DEF Expected, Due
<1>3. Rank(q, D, p) = q.limit /\ q.limit \in Nat /\ \A r : Rank(q, D, r) \in Nat
  BY <1>1, RankIs, QueryIs
<1> HIDE DEF D
<1>4. ASSUME NEW r \in D, Ordered(q, r, p) PROVE Rank(q, D, r) < q.limit
  <2>1. Rank(q, D, p) >= Rank(q, D, r) + 1
    BY <1>1, <1>4, RankGrows
  <2>2. QED
    BY <1>3, <2>1
<1>5. ASSUME NEW r \in D, ~ Ordered(q, r, p) PROVE ~ (Rank(q, D, r) < q.limit)
  <2> DEFINE A == {s \in D : Ordered(q, s, p)}
             B == {s \in D : Ordered(q, s, r)}
  <2>1. r = p \/ Ordered(q, p, r)
    BY <1>1, <1>5, OrderIs
  <2>2. A \subseteq B
    <3> SUFFICES ASSUME NEW s \in D, Ordered(q, s, p) PROVE Ordered(q, s, r)
      OBVIOUS
    <3>1. s \in Row /\ r \in Row
      BY <1>1
    <3>2. QED
      BY <2>1, <3>1, OrderIs
  <2>3. IsFiniteSet(B)
    BY <1>1, RankIs
  <2>4. Cardinality(A) = Rank(q, D, p) /\ Cardinality(B) = Rank(q, D, r)
    BY DEF Rank
  <2> HIDE DEF A, B
  <2>5. Cardinality(A) <= Cardinality(B)
    BY <2>2, <2>3, FS_Subset
  <2>6. QED
    BY <1>3, <2>4, <2>5
<1>6. QED
  BY <1>2, <1>4, <1>5 DEF D

(***************************************************************************)
(* The inductive invariant of the scan, from one loop of query to the      *)
(* next.                                                                   *)
(***************************************************************************)
\* The iterator is on the first row from the starting point on, then on the first
\* row of the track or on a match before it.
Skipping ==
    /\ pc \in {"seek", "skip_one", "skip_match"} => left = query.offset
    /\ pc = "skip_one" => pos >= query.from /\ \A r \in view : r >= query.from => pos <= r
    /\ pc = "skip_match" =>
        /\ \A r \in Track(query, view) : r = pos \/ Ordered(query, pos, r)
        /\ pos \in Track(query, view) \/ (SkipsMatch(query) /\ Matches(query, pos))

\* So many rows of the track have been passed over.
Passing == pc = "offset" =>
    /\ pos \in Track(query, view)
    /\ Rank(query, Track(query, view), pos) = query.offset - left

\* What has been returned is what is due of the rows before the iterator.
Collecting == pc = "scan" =>
    /\ pos \in Track(query, view)
    /\ Rank(query, Track(query, view), pos) >= query.offset
    /\ Returned = {r \in Due(query, view) : Ordered(query, r, pos)}
    /\ Cardinality(Returned) = Len(results)

Exact == Answered => Returned = Expected(query, view)

OnTrack == pc \in Scanning \cup {"done"} /\ Exactly(query, view) =>
    Skipping /\ Passing /\ Collecting /\ Exact

\* What the step lemmas use of QueryInv.
LEMMA ScanningIs ==
    ASSUME QueryInv, pc \in Scanning
    PROVE  /\ query \in Query /\ view \in SUBSET Row /\ pos \in Position /\ left \in Nat
           /\ query.offset \in Nat /\ query.limit \in Nat
           /\ query.from \in Int /\ query.thru \in Int
           /\ results \in Seq(Row)
           /\ pc # "seek" => pos \in view /\ pos \in Row
           /\ pc # "scan" => results = <<>> /\ Returned = {}
<1>1. TypeOK /\ query \in Query
  BY DEF QueryInv, Scanning
<1>2. view \in SUBSET Row /\ (pc # "seek" => pos \in view) /\ left \in Nat /\ results \in Seq(Row)
      /\ pos \in Position
  BY <1>1 DEF TypeOK
<1>3. pc # "scan" => results = <<>>
  BY DEF QueryInv, NothingYet
<1>4. results = <<>> => Returned = {}
  BY NoneIn DEF Returned
<1>5. QED
  BY <1>1, <1>2, <1>3, <1>4, QueryIs

\* A query that runs off its rows with nothing returned and nothing due is exact.
LEMMA NothingDue ==
    ASSUME NEW q \in Query, NEW v \in SUBSET Row, Exactly(q, v), Due(q, v) = {}
    PROVE  Expected(q, v) = {}
<1>1. Cardinality(Due(q, v)) = 0 /\ q.limit \in Nat
  BY FS_EmptySet, QueryIs
<1>2. Expected(q, v) = Due(q, v)
  BY <1>1, ExpectedAll
<1>3. QED
  BY <1>2

\* When the iterator runs off the view during the skipping, no row is on the track.
LEMMA OffTheRows ==
    ASSUME QueryInv, pc \in Scanning, pc # "scan", Exactly(query, view),
           Track(query, view) = {}, UNCHANGED <<query, view, results>>, pc' = "done"
    PROVE  OnTrack'
<1>1. query \in Query /\ view \in SUBSET Row /\ Returned = {}
  BY ScanningIs
<1>2. Due(query, view) = {}
  BY <1>1, DueIs
<1>3. Expected(query, view) = {}
  BY <1>1, <1>2, NothingDue
<1>4. Returned' = {}
  BY <1>1 DEF Returned
<1>5. QED
  BY <1>3, <1>4 DEF OnTrack, Skipping, Passing, Collecting, Exact

LEMMA SeekOnTrack == ASSUME QueryInv, OnTrack, Seek PROVE OnTrack'
<1> SUFFICES ASSUME Exactly(query, view) PROVE OnTrack'
  BY DEF Seek, OnTrack
<1> DEFINE p == After(view, query.from - 1)
<1>1. pc = "seek" /\ pc \in Scanning /\ MoveTo(p, "skip_one")
      /\ UNCHANGED <<query, view, left, results>>
  BY DEF Seek, Scanning
<1>2. query \in Query /\ view \in SUBSET Row /\ query.from \in Int /\ view \subseteq Int /\ Row \subseteq Int
  BY <1>1, ScanningIs, RowsAre
<1>3. query.from - 1 \in Position
  BY <1>2, QueryIs, Bounds DEF QueryRecord, Position
<1>4. /\ p \in Row => p \in view /\ p > query.from - 1
      /\ \A s \in view : s > query.from - 1 => p \in Row /\ p <= s
  BY <1>2, <1>3, AfterIs
<1> HIDE DEF p
<1>5. /\ p \in Row => p >= query.from
      /\ \A s \in view : s >= query.from => p \in Row /\ p <= s
  <2>1. ASSUME p \in Row PROVE p >= query.from
    <3>1. p \in Int /\ query.from \in Int /\ p > query.from - 1
      BY <1>2, <1>4, <2>1
    <3>2. QED
      BY <3>1
  <2>2. ASSUME NEW s \in view, s >= query.from PROVE s > query.from - 1
    <3>1. s \in Int /\ query.from \in Int
      BY <1>2
    <3>2. QED
      BY <2>2, <3>1
  <2>3. QED
    BY <1>4, <2>1, <2>2
<1>6. CASE p \in Row
  <2>1. pc' = "skip_one" /\ pos' = p
    BY <1>1, <1>6 DEF MoveTo
  <2>2. left = query.offset
    BY <1>1 DEF OnTrack, Skipping
  <2>3. Skipping'
    BY <1>1, <1>5, <1>6, <2>1, <2>2 DEF Skipping
  <2>4. QED
    BY <2>1, <2>3 DEF OnTrack, Passing, Collecting, Exact, Answered
<1>7. CASE p \notin Row
  <2>1. pc' = "done"
    BY <1>1, <1>7 DEF MoveTo
  <2>2. \A s \in view : ~ (s >= query.from)
    BY <1>5, <1>7
  <2>3. Track(query, view) = {}
    BY <2>2 DEF Exactly, OneMatch, Matches, Track, Start
  <2>4. QED
    BY <1>1, <2>1, <2>3, OffTheRows
<1>8. QED
  BY <1>6, <1>7

LEMMA SkipOneOnTrack == ASSUME QueryInv, OnTrack, SkipOne PROVE OnTrack'
<1> SUFFICES ASSUME Exactly(query, view) PROVE OnTrack'
  BY DEF SkipOne, OnTrack
<1> DEFINE p == Advanced(query, view, pos)
           track == Track(query, view)
<1>1. pc = "skip_one" /\ pc \in Scanning /\ UNCHANGED <<query, view, left, results>>
  BY DEF SkipOne, Scanning
<1>2. /\ query \in Query /\ view \in SUBSET Row /\ query.from \in Int /\ query.thru \in Int
      /\ pos \in view /\ pos \in Position /\ view \subseteq Int
  BY <1>1, ScanningIs, RowsAre
<1>3. /\ left = query.offset /\ pos >= query.from
      /\ \A r \in view : r >= query.from => pos <= r
  BY <1>1 DEF OnTrack, Skipping, Scanning
<1>4. CASE SkipsOne(query) /\ (Forward(query) => Matches(query, pos))
  <2>1. MoveTo(p, "skip_match")
    BY <1>4 DEF SkipOne
  <2>2. /\ p \in Row => p \in view /\ Ordered(query, pos, p)
        /\ \A s \in view : Ordered(query, pos, s) => p \in Row /\ (s = p \/ Ordered(query, p, s))
    BY <1>2, AdvancedIs
  <2> HIDE DEF p
  <2>3. ASSUME NEW r \in track PROVE r \in view /\ Ordered(query, pos, r)
    <3>1. r \in view /\ Start(query, view, r)
      BY <2>3 DEF Track
    <3>2. CASE Forward(query)
      <4>1. r >= query.from /\ (~ Matches(query, r) \/ \E s \in view : query.from <= s /\ s < r)
        BY <1>4, <3>1, <3>2 DEF Start
      <4>2. r # pos
        BY <1>2, <1>3, <1>4, <3>2, <4>1
      <4>3. QED
        BY <1>2, <1>3, <3>1, <3>2, <4>1, <4>2 DEF Ordered
    <3>3. CASE ~ Forward(query)
      <4>1. query.op = "lt"
        BY <1>4, <3>3 DEF SkipsOne, Forward
      <4>2. QED
        BY <1>2, <1>3, <3>1, <3>3, <4>1 DEF Start, Ordered
    <3>4. QED
      BY <3>2, <3>3
  <2>4. CASE p \in Row
    <3>1. pc' = "skip_match" /\ pos' = p
      BY <2>1, <2>4 DEF MoveTo
    <3>2. \A r \in track : r = p \/ Ordered(query, p, r)
      BY <2>2, <2>3
    <3>3. p \in track
      <4>1. p \in view /\ p \in Int /\ pos \in Int /\ Ordered(query, pos, p)
        BY <1>2, <2>2, <2>4
      <4>2. CASE Forward(query)
        <5>1. p > pos /\ p >= query.from
          BY <1>2, <1>3, <4>1, <4>2 DEF Ordered
        <5>2. ~ SkipsMatch(query)
          BY <1>4, <4>2 DEF SkipsOne, SkipsMatch, Forward
        <5>3. QED
          BY <1>2, <1>3, <4>1, <4>2, <5>1, <5>2 DEF Track, Start
      <4>3. CASE ~ Forward(query)
        <5>1. query.op = "lt" /\ ~ Forward(query)
          BY <1>4, <4>3 DEF SkipsOne, Forward
        <5>2. p < query.from
          <6>1. p < pos /\ ~ (p >= query.from)
            BY <1>2, <1>3, <4>1, <4>3 DEF Ordered
          <6>2. QED
            BY <1>2, <4>1, <6>1
        <5>3. QED
          BY <4>1, <5>1, <5>2 DEF Track, Start
      <4>4. QED
        BY <4>2, <4>3
    <3>4. Skipping'
      BY <1>1, <1>3, <3>1, <3>2, <3>3 DEF Skipping
    <3>5. QED
      BY <3>1, <3>4 DEF OnTrack, Passing, Collecting, Exact, Answered
  <2>5. CASE p \notin Row
    <3>1. pc' = "done"
      BY <2>1, <2>5 DEF MoveTo
    <3>2. track = {}
      BY <2>2, <2>3, <2>5
    <3>3. QED
      BY <1>1, <3>1, <3>2, OffTheRows
  <2>6. QED
    BY <2>4, <2>5
<1>5. CASE ~ (SkipsOne(query) /\ (Forward(query) => Matches(query, pos)))
  <2>1. pc' = "skip_match" /\ pos' = pos
    BY <1>5 DEF SkipOne, Stay
  <2>2. ASSUME Forward(query)
        PROVE  /\ \A r \in track : r = pos \/ Ordered(query, pos, r)
               /\ pos \in track \/ (SkipsMatch(query) /\ Matches(query, pos))
    <3>1. SkipsOne(query) => ~ Matches(query, pos)
      BY <1>5, <2>2
    <3>2. \A r \in track : r = pos \/ Ordered(query, pos, r)
      BY <1>2, <1>3, <2>2 DEF Track, Start, Ordered
    <3>3. pos \in track \/ (SkipsMatch(query) /\ Matches(query, pos))
      BY <1>2, <1>3, <2>2, <3>1 DEF Track, Start
    <3>4. QED
      BY <3>2, <3>3
  <2>3. ASSUME ~ Forward(query)
        PROVE  /\ \A r \in track : r = pos \/ Ordered(query, pos, r)
               /\ pos \in track \/ (SkipsMatch(query) /\ Matches(query, pos))
    <3>1. query.op = "lte" /\ OneMatch(query, view)
      BY <1>5, <2>3 DEF Exactly, SkipsOne
    <3>2. PICK m \in view : Matches(query, m) /\ \A r \in view : Matches(query, r) => r = m
      BY <3>1 DEF OneMatch
    <3>3. pos = m /\ pos <= query.thru
      <4>1. m \in Int /\ pos \in Int /\ m >= query.from /\ m <= query.thru
        BY <1>2, <3>2 DEF Matches
      <4>2. pos <= m
        BY <1>3, <4>1
      <4>3. Matches(query, pos)
        BY <1>2, <1>3, <4>1, <4>2 DEF Matches
      <4>4. QED
        BY <1>2, <3>2, <4>1, <4>2, <4>3
    <3>4. ASSUME NEW r \in track PROVE r = pos \/ Ordered(query, pos, r)
      <4>1. r \in view /\ r \in Int /\ r <= query.thru
        BY <1>2, <2>3, <3>1 DEF Track, Start
      <4>2. CASE r >= query.from
        BY <1>2, <3>2, <3>3, <4>1, <4>2 DEF Matches
      <4>3. CASE r < query.from
        BY <1>2, <1>3, <2>3, <4>1, <4>3 DEF Ordered
      <4>4. QED
        BY <1>2, <4>1, <4>2, <4>3
    <3>5. pos \in track
      BY <1>2, <2>3, <3>1, <3>3 DEF Track, Start
    <3>6. QED
      BY <3>4, <3>5
  <2>4. /\ \A r \in track : r = pos \/ Ordered(query, pos, r)
        /\ pos \in track \/ (SkipsMatch(query) /\ Matches(query, pos))
    BY <2>2, <2>3
  <2>5. Skipping'
    BY <1>1, <1>3, <2>1, <2>4 DEF Skipping
  <2>6. QED
    BY <2>1, <2>5 DEF OnTrack, Passing, Collecting, Exact, Answered
<1>6. QED
  BY <1>4, <1>5

LEMMA SkipMatchOnTrack == ASSUME QueryInv, OnTrack, SkipMatch PROVE OnTrack'
<1> SUFFICES ASSUME Exactly(query, view) PROVE OnTrack'
  BY DEF SkipMatch, OnTrack
<1> DEFINE p == Advanced(query, view, pos)
           track == Track(query, view)
<1>1. pc = "skip_match" /\ pc \in Scanning /\ UNCHANGED <<query, view, left, results>>
  BY DEF SkipMatch, Scanning
<1>2. /\ query \in Query /\ view \in SUBSET Row /\ query.from \in Int /\ query.thru \in Int
      /\ pos \in view /\ pos \in Row /\ pos \in Position /\ view \subseteq Int /\ query.offset \in Nat
  BY <1>1, ScanningIs, RowsAre
<1>3. /\ left = query.offset
      /\ \A r \in track : r = pos \/ Ordered(query, pos, r)
      /\ pos \in track \/ (SkipsMatch(query) /\ Matches(query, pos))
  BY <1>1 DEF OnTrack, Skipping, Scanning
<1>4. CASE SkipsMatch(query) /\ Matches(query, pos)
  <2>1. MoveTo(p, "skip_match")
    BY <1>4 DEF SkipMatch
  <2>2. /\ p \in Row => p \in view /\ Ordered(query, pos, p)
        /\ \A s \in view : Ordered(query, pos, s) => p \in Row /\ (s = p \/ Ordered(query, p, s))
    BY <1>2, AdvancedIs
  <2> HIDE DEF p
  <2>3. pos \notin track
    <3>1. ~ Forward(query) => query.op = "lt"
      BY <1>4 DEF SkipsMatch, Forward
    <3>2. QED
      BY <1>2, <1>4, <3>1 DEF Track, Start, Matches
  <2>4. \A r \in track : r \in view /\ Ordered(query, pos, r)
    BY <1>3, <2>3 DEF Track
  <2>5. CASE p \in Row
    <3>1. pc' = "skip_match" /\ pos' = p
      BY <2>1, <2>5 DEF MoveTo
    <3>2. \A r \in track : r = p \/ Ordered(query, p, r)
      BY <2>2, <2>4
    <3>3. p \in track \/ (SkipsMatch(query) /\ Matches(query, p))
      <4>1. p \in view /\ p \in Int /\ pos \in Int /\ Ordered(query, pos, p)
        BY <1>2, <2>2, <2>5
      <4>2. CASE Forward(query)
        <5>1. p >= query.from
          BY <1>2, <1>4, <4>1, <4>2 DEF Ordered, Matches
        <5>2. ~ SkipsOne(query)
          BY <1>4, <4>2 DEF SkipsOne, SkipsMatch, Forward
        <5>3. QED
          BY <1>4, <4>1, <4>2, <5>1, <5>2 DEF Track, Start
      <4>3. CASE ~ Forward(query)
        <5>1. query.op = "lt"
          BY <1>4, <4>3 DEF SkipsMatch, Forward
        <5>2. p < query.from \/ p >= query.from
          BY <1>2, <4>1
        <5>3. p <= query.thru
          BY <1>2, <1>4, <4>1, <4>3 DEF Ordered, Matches
        <5>4. QED
          BY <1>4, <4>1, <4>3, <5>1, <5>2, <5>3 DEF Track, Start, Matches
      <4>4. QED
        BY <4>2, <4>3
    <3>4. Skipping'
      BY <1>1, <1>3, <3>1, <3>2, <3>3 DEF Skipping
    <3>5. QED
      BY <3>1, <3>4 DEF OnTrack, Passing, Collecting, Exact, Answered
  <2>6. CASE p \notin Row
    <3>1. pc' = "done"
      BY <2>1, <2>6 DEF MoveTo
    <3>2. track = {}
      BY <2>2, <2>4, <2>6
    <3>3. QED
      BY <1>1, <3>1, <3>2, OffTheRows
  <2>7. QED
    BY <2>5, <2>6
<1>5. CASE ~ (SkipsMatch(query) /\ Matches(query, pos))
  <2>1. pc' = "offset" /\ pos' = pos
    BY <1>5 DEF SkipMatch, Stay
  <2>2. pos \in track
    BY <1>3, <1>5
  <2>3. {s \in track : Ordered(query, s, pos)} = {}
    <3>1. track \subseteq Row
      BY <1>2 DEF Track
    <3>2. QED
      BY <1>2, <1>3, <3>1, OrderIs
  <2>4. Rank(query, track, pos) = 0
    BY <2>3, FS_EmptySet DEF Rank
  <2>5. Passing'
    BY <1>1, <1>2, <1>3, <2>1, <2>2, <2>4 DEF Passing
  <2>6. QED
    BY <2>1, <2>5 DEF OnTrack, Skipping, Collecting, Exact, Answered
<1>6. QED
  BY <1>4, <1>5

LEMMA OffsetOnTrack == ASSUME QueryInv, OnTrack, Offset PROVE OnTrack'
<1> SUFFICES ASSUME Exactly(query, view) PROVE OnTrack'
  BY DEF Offset, OnTrack
<1> DEFINE p == Advanced(query, view, pos)
           track == Track(query, view)
           due == Due(query, view)
<1>1. pc = "offset" /\ pc \in Scanning /\ UNCHANGED <<query, view, results>>
  BY DEF Offset, Scanning
<1>2. /\ query \in Query /\ view \in SUBSET Row /\ pos \in view /\ pos \in Row /\ pos \in Position
      /\ query.offset \in Nat /\ left \in Nat /\ results = <<>> /\ Returned = {}
  BY <1>1, ScanningIs
<1>3. pos \in track /\ Rank(query, track, pos) = query.offset - left
  BY <1>1 DEF OnTrack, Passing
<1>4. track \in SUBSET Row /\ due \in SUBSET Row
      /\ \A r \in due : r \in track /\ Rank(query, track, r) >= query.offset
  BY <1>2, DueIs DEF Track
<1>5. ASSUME NEW r \in due PROVE Ordered(query, pos, r) \/ (r = pos /\ left = 0)
  <2>1. r \in track /\ r \in Row /\ Rank(query, track, r) >= query.offset /\ Rank(query, track, r) \in Nat
    BY <1>4, RankIs
  <2>2. CASE r = pos
    BY <1>2, <1>3, <2>1, <2>2
  <2>3. CASE Ordered(query, r, pos)
    <3>1. Rank(query, track, pos) >= Rank(query, track, r) + 1
      BY <1>2, <1>4, <2>1, <2>3, RankGrows
    <3>2. QED
      BY <1>2, <1>3, <2>1, <3>1
  <2>4. QED
    BY <1>2, <2>1, <2>2, <2>3, OrderIs
<1>6. CASE left > 0
  <2>1. MoveTo(p, "offset") /\ left' = left - 1
    BY <1>6 DEF Offset
  <2>2. /\ p \in Row => p \in view /\ Ordered(query, pos, p)
        /\ \A s \in view : Ordered(query, pos, s) => p \in Row /\ (s = p \/ Ordered(query, p, s))
    BY <1>2, AdvancedIs
  <2> HIDE DEF p
  <2>3. CASE p \in Row
    <3>1. pc' = "offset" /\ pos' = p
      BY <2>1, <2>3 DEF MoveTo
    <3>2. p \in track
      BY <1>2, <1>3, <2>2, <2>3, TrackGoesOn
    <3>3. \A s \in track : Ordered(query, pos, s) => s = p \/ Ordered(query, p, s)
      BY <2>2 DEF Track
    <3> HIDE DEF track
    <3>4. Rank(query, track, p) = Rank(query, track, pos) + 1
      BY <1>3, <1>4, <2>2, <2>3, <3>3, RankGrows
    <3>5. Rank(query, track, p) = query.offset - left'
      BY <1>2, <1>3, <2>1, <3>4
    <3>6. Passing'
      BY <1>1, <3>1, <3>2, <3>5 DEF Passing, track
    <3>7. QED
      BY <3>1, <3>6 DEF OnTrack, Skipping, Collecting, Exact, Answered
  <2>4. CASE p \notin Row
    <3>1. pc' = "done"
      BY <2>1, <2>4 DEF MoveTo
    <3>2. due = {}
      <4>1. \A r \in due : r \in view /\ Ordered(query, pos, r)
        <5>1. left # 0
          BY <1>6
        <5>2. \A r \in due : r \in view
          BY <1>4 DEF Track
        <5>3. QED
          BY <1>5, <5>1, <5>2
      <4>2. QED
        BY <2>2, <2>4, <4>1
    <3>3. Expected(query, view) = {}
      BY <1>2, <3>2, NothingDue
    <3>4. Returned' = {}
      BY <1>1, <1>2 DEF Returned
    <3>5. QED
      BY <1>1, <3>1, <3>3, <3>4 DEF OnTrack, Skipping, Passing, Collecting, Exact
  <2>5. QED
    BY <2>3, <2>4
<1>7. CASE ~ (left > 0)
  <2>1. pc' = "scan" /\ pos' = pos
    BY <1>7 DEF Offset, Stay
  <2>2. Rank(query, track, pos) >= query.offset
    BY <1>2, <1>3, <1>7
  <2>3. {r \in due : Ordered(query, r, pos)} = {}
    <3>1. \A r \in due : r \in Row
      BY <1>4
    <3>2. QED
      BY <1>2, <1>5, <3>1, OrderIs
  <2>4. Returned' = {} /\ results' = <<>>
    BY <1>1, <1>2 DEF Returned
  <2>5. Cardinality(Returned') = 0 /\ Len(results') = 0
    BY <2>4, FS_EmptySet
  <2>6. Collecting'
    BY <1>1, <1>3, <2>1, <2>2, <2>3, <2>4, <2>5 DEF Collecting
  <2>7. QED
    BY <2>1, <2>6 DEF OnTrack, Skipping, Passing, Exact, Answered
<1>8. QED
  BY <1>6, <1>7

LEMMA ScanOnTrack == ASSUME QueryInv, OnTrack, Scan PROVE OnTrack'
<1> SUFFICES ASSUME Exactly(query, view) PROVE OnTrack'
  BY DEF Scan, OnTrack
<1> DEFINE p == Advanced(query, view, pos)
           track == Track(query, view)
           due == Due(query, view)
<1>1. pc = "scan" /\ pc \in Scanning /\ UNCHANGED <<query, view>>
  BY DEF Scan, Scanning
<1>2. /\ query \in Query /\ view \in SUBSET Row /\ pos \in view /\ pos \in Row /\ pos \in Position
      /\ query.offset \in Nat /\ query.limit \in Nat /\ results \in Seq(Row)
  BY <1>1, ScanningIs
<1>3. /\ pos \in track /\ Rank(query, track, pos) >= query.offset
      /\ Returned = {r \in due : Ordered(query, r, pos)}
      /\ Cardinality(Returned) = Len(results)
  BY <1>1 DEF OnTrack, Collecting
<1>4. /\ track \in SUBSET Row /\ due \in SUBSET Row
      /\ \A r : r \in due <=> /\ r \in track /\ r \in query.kept /\ ~ Stops(query, r)
                              /\ Rank(query, track, r) >= query.offset
  BY <1>2, DueIs DEF Track
<1>5. Len(results) \in Nat /\ Len(results) <= query.limit
  <2>1. Sound
    BY DEF QueryInv
  <2>2. results = <<>> => Len(results) = 0
    OBVIOUS
  <2>3. QED
    BY <1>2, <2>1, <2>2 DEF Sound
<1>6. CASE Stay("done") /\ UNCHANGED results /\ ~ (Len(results) < query.limit)
  <2>1. Rank(query, due, pos) = query.limit
    BY <1>2, <1>3, <1>5, <1>6 DEF Rank
  <2>2. Expected(query, view) = Returned
    BY <1>2, <1>3, <2>1, ExpectedFirst
  <2>3. Returned' = Returned /\ pc' = "done"
    BY <1>6 DEF Returned, Stay
  <2>4. QED
    BY <1>1, <2>2, <2>3 DEF OnTrack, Skipping, Passing, Collecting, Exact
<1>7. CASE Stay("done") /\ UNCHANGED results /\ Stops(query, pos)
  <2>1. \A r \in due : Ordered(query, r, pos)
    <3> SUFFICES ASSUME NEW r \in due, ~ Ordered(query, r, pos) PROVE FALSE
      OBVIOUS
    <3>1. r \in Row /\ r \in track /\ r \in view /\ ~ Stops(query, r)
      BY <1>4 DEF Track
    <3>2. Ordered(query, pos, r)
      BY <1>2, <1>7, <3>1, OrderIs
    <3>3. QED
      BY <1>2, <1>3, <1>7, <3>1, <3>2, StopsForGood
  <2>2. due = Returned
    BY <1>3, <2>1
  <2>3. Expected(query, view) = Returned
    BY <1>2, <1>3, <1>5, <2>2, ExpectedAll
  <2>4. Returned' = Returned /\ pc' = "done"
    BY <1>7 DEF Returned, Stay
  <2>5. QED
    BY <1>1, <2>3, <2>4 DEF OnTrack, Skipping, Passing, Collecting, Exact
<1>8. CASE /\ Len(results) < query.limit /\ ~ Stops(query, pos)
           /\ results' = IF pos \in query.kept THEN Append(results, pos) ELSE results
           /\ MoveTo(p, "scan")
  <2> DEFINE upto == {r \in due : r = pos \/ Ordered(query, r, pos)}
  <2>1. pos \in due <=> pos \in query.kept
    BY <1>3, <1>4, <1>8
  <2>2. Returned' = upto /\ Cardinality(Returned') = Len(results') /\ Len(results') <= query.limit
    <3>1. CASE pos \in query.kept
      <4>1. results' = Append(results, pos) /\ Len(results') = Len(results) + 1
        BY <1>2, <1>8, <3>1
      <4>2. Returned' = Returned \cup {pos}
        <5>1. DOMAIN results = 1 .. Len(results) /\ DOMAIN results' = 1 .. Len(results) + 1
          BY <1>2, <4>1
        <5>2. results'[Len(results) + 1] = pos /\ \A i \in 1 .. Len(results) : results'[i] = results[i]
          BY <1>2, <4>1, AppendProperties
        <5>3. DOMAIN results' = DOMAIN results \cup {Len(results) + 1}
          BY <1>5, <5>1
        <5>4. QED
          BY <5>1, <5>2, <5>3 DEF Returned
      <4>3. pos \notin Returned /\ Returned \in SUBSET Row
        BY <1>2, <1>3, <1>4, OrderIs
      <4>4. IsFiniteSet(Returned)
        BY <4>3, RowsAre
      <4>5. Cardinality(Returned \cup {pos}) = Cardinality(Returned) + 1
        BY <4>3, <4>4, FS_AddElement
      <4>6. Returned \cup {pos} = upto
        BY <1>3, <2>1, <3>1
      <4> HIDE DEF upto, due
      <4>7. QED
        BY <1>2, <1>3, <1>5, <1>8, <4>1, <4>2, <4>5, <4>6
    <3>2. CASE pos \notin query.kept
      <4>1. results' = results /\ Returned' = Returned
        BY <1>8, <3>2 DEF Returned
      <4>2. Returned = upto
        BY <1>3, <2>1, <3>2
      <4>3. QED
        BY <1>3, <1>5, <4>1, <4>2
    <3>3. QED
      BY <3>1, <3>2
  <2>3. /\ p \in Row => p \in view /\ Ordered(query, pos, p)
        /\ \A s \in view : Ordered(query, pos, s) => p \in Row /\ (s = p \/ Ordered(query, p, s))
    BY <1>2, AdvancedIs
  <2> HIDE DEF p
  <2>4. \A r \in due : r \in view /\ r \in Row /\ (r = pos \/ Ordered(query, r, pos) \/ Ordered(query, pos, r))
    <3>1. \A r \in due : r \in Row /\ r \in view
      BY <1>4 DEF Track
    <3>2. QED
      BY <1>2, <3>1, OrderIs
  <2>5. CASE p \in Row
    <3>1. pc' = "scan" /\ pos' = p
      BY <1>8, <2>5 DEF MoveTo
    <3>2. p \in track
      BY <1>2, <1>3, <2>3, <2>5, TrackGoesOn
    <3>3. Rank(query, track, p) >= query.offset
      <4>1. Rank(query, track, p) >= Rank(query, track, pos) + 1
        BY <1>3, <1>4, <2>3, <2>5, RankGrows
      <4>2. Rank(query, track, p) \in Nat /\ Rank(query, track, pos) \in Nat
        BY <1>4, RankIs
      <4>3. QED
        BY <1>2, <1>3, <4>1, <4>2
    <3>4. ASSUME NEW r \in due PROVE r = pos \/ Ordered(query, r, pos) <=> Ordered(query, r, p)
      <4>1. r \in view /\ r \in Row /\ (r = pos \/ Ordered(query, r, pos) \/ Ordered(query, pos, r))
        BY <2>4
      <4>2. ASSUME r = pos \/ Ordered(query, r, pos) PROVE Ordered(query, r, p)
        BY <1>2, <2>3, <2>5, <4>1, <4>2, OrderIs
      <4>3. ASSUME Ordered(query, pos, r) PROVE ~ Ordered(query, r, p)
        <5>1. r = p \/ Ordered(query, p, r)
          BY <2>3, <4>1, <4>3
        <5>2. QED
          BY <2>5, <4>1, <5>1, OrderIs
      <4>4. QED
        BY <4>1, <4>2, <4>3
    <3>5. upto = {r \in due : Ordered(query, r, p)}
      BY <3>4
    <3>6. Collecting'
      BY <1>1, <2>2, <3>1, <3>2, <3>3, <3>5 DEF Collecting
    <3>7. QED
      BY <3>1, <3>6 DEF OnTrack, Skipping, Passing, Exact, Answered
  <2>6. CASE p \notin Row
    <3>1. pc' = "done"
      BY <1>8, <2>6 DEF MoveTo
    <3>2. upto = due
      BY <2>3, <2>4, <2>6
    <3>3. Expected(query, view) = due
      BY <1>2, <2>2, <3>2, ExpectedAll
    <3>4. QED
      BY <1>1, <2>2, <3>1, <3>2, <3>3 DEF OnTrack, Skipping, Passing, Collecting, Exact
  <2>7. QED
    BY <2>5, <2>6
<1>9. QED
  BY <1>6, <1>7, <1>8 DEF Scan

LEMMA TrackStep == QueryInv /\ OnTrack /\ [Next]_vars => OnTrack'
<1> SUFFICES ASSUME QueryInv, OnTrack, [Next]_vars PROVE OnTrack'
  OBVIOUS
<1>1. CASE Open
  <2>1. /\ pc' = "seek" \/ (pc' = "done" /\ err' = "op")
        /\ left' = query'.offset
    BY <1>1 DEF Open
  <2>2. QED
    BY <2>1 DEF OnTrack, Skipping, Passing, Collecting, Exact, Answered
<1>2. CASE Fault
  BY <1>2 DEF Fault, OnTrack, Skipping, Passing, Collecting, Exact, Answered
<1>3. CASE Return
  BY <1>3 DEF Return, OnTrack, Scanning
<1>4. CASE Write
  BY <1>4 DEF Write, scan, OnTrack, Skipping, Passing, Collecting, Exact, Answered, Returned
<1>5. CASE UNCHANGED vars
  BY <1>5 DEF vars, scan, OnTrack, Skipping, Passing, Collecting, Exact, Answered, Returned
<1>6. QED
  BY <1>1, <1>2, <1>3, <1>4, <1>5, SeekOnTrack, SkipOneOnTrack, SkipMatchOnTrack, OffsetOnTrack, ScanOnTrack
     DEF Next, Step

LEMMA TrackInit == Init => OnTrack
BY DEF Init, OnTrack, Scanning

\* A forward query without an end returns exactly the rows it is for, as they
\* were when it began, whatever is written meanwhile.
THEOREM ForwardComplete == Spec => []ForwardExact
<1>1. QueryInv /\ OnTrack => ForwardExact
  BY DEF OnTrack, Exact, ForwardExact, Exactly, EndIdle, Answered
<1>2. QED
  BY <1>1, QueryInit, QueryStep, TrackInit, TrackStep, PTL DEF Spec

\* So does <, when a row at or above the starting point exists.
THEOREM BelowComplete == Spec => []BelowExact
<1>1. QueryInv /\ OnTrack => BelowExact
  BY DEF OnTrack, Exact, BelowExact, Exactly, EndIdle, Answered
<1>2. QED
  BY <1>1, QueryInit, QueryStep, TrackInit, TrackStep, PTL DEF Spec

\* So does <=, when exactly one row of the view matches the starting point; and an
\* end that is not past the starting point has no part in what a query returns.
\* Between rows, at several matches or past an end neither holds (runs
\* query_backward and query_end).
THEOREM ScanComplete == Spec => [](Answered /\ Exactly(query, view) => Returned = Expected(query, view))
<1>1. QueryInv /\ OnTrack => (Answered /\ Exactly(query, view) => Returned = Expected(query, view))
  BY DEF OnTrack, Exact, Answered
<1>2. QED
  BY <1>1, QueryInit, QueryStep, TrackInit, TrackStep, PTL DEF Spec

(***************************************************************************)
(* The key that a query hands out for an index row.                        *)
(***************************************************************************)
LEMMA DivideBy8 == ASSUME NEW x \in Int, x % 8 = 0 PROVE x = 8 * (x \div 8)
OBVIOUS

\* ndb.cc:60-67: an index row is an arbitrary prefix, a zero byte and a key of n
\* components.  The search for the zero byte, backwards and eight bytes at a time,
\* ends at that byte and no other, when no component but the last ends with zero.
\* So the key that was put into the row is the one handed out, whatever the prefix
\* holds, zero bytes included, and whichever kind and shape are asked for.
THEOREM KeyOfIndexRow ==
    ASSUME NEW prefix \in Seq(Byte), prefix # <<>>, DiscrimOf(prefix) = D_INDEX,
           NEW n \in Nat \ {0}, NEW key \in Seq(Byte), Len(key) = 8 * n,
           \A i \in 1 .. n - 1 : key[8 * i] # 0,
           NEW kindid \in Byte, NEW shapeid \in Byte
    PROVE  EntityBytes(prefix \o <<0>> \o key, kindid, shapeid) = key
<1> DEFINE head == prefix \o <<0>>
           row  == head \o key
           z    == Len(head)
<1>1. /\ head \in Seq(Byte) /\ z \in Nat /\ z > 1
      /\ head[1] = prefix[1] /\ head[z] = 0
  <2> DEFINE zero == <<0>>
             p    == Len(prefix)
  <2>1. zero \in Seq(Byte) /\ Len(zero) = 1 /\ zero[1] = 0
    BY DEF Byte
  <2>2. p \in Nat \ {0}
    OBVIOUS
  <2>3. head = prefix \o zero /\ z = Len(head)
    OBVIOUS
  <2> HIDE DEF zero, head, z
  <2>4. /\ head \in Seq(Byte) /\ Len(head) = p + 1
        /\ \A i \in 1 .. p + 1 : head[i] = IF i <= p THEN prefix[i] ELSE zero[i - p]
    BY <2>1, <2>3, ConcatProperties
  <2> HIDE DEF p
  <2>5. 1 \in 1 .. p + 1 /\ 1 <= p /\ p + 1 \in 1 .. p + 1 /\ ~ (p + 1 <= p) /\ p + 1 - p = 1
    BY <2>2
  <2>6. QED
    BY <2>1, <2>2, <2>3, <2>4, <2>5
<1>2. /\ row \in Seq(Byte) /\ Len(row) = z + 8 * n
      /\ \A i \in 1 .. z : row[i] = head[i]
      /\ \A i \in 1 .. 8 * n : row[z + i] = key[i]
  <2> HIDE DEF head
  <2>1. /\ row \in Seq(Byte) /\ Len(row) = z + 8 * n
        /\ \A i \in 1 .. z + 8 * n : row[i] = IF i <= z THEN head[i] ELSE key[i - z]
    <3>1. /\ row \in Seq(Byte) /\ Len(row) = Len(head) + Len(key)
          /\ \A i \in 1 .. Len(head) + Len(key) :
                row[i] = IF i <= Len(head) THEN head[i] ELSE key[i - Len(head)]
      BY <1>1, ConcatProperties
    <3>2. QED
      BY <3>1
  <2>2. QED
    BY <1>1, <2>1
<1>3a. z = Len(head)
  OBVIOUS
<1> HIDE DEF head, row, z
<1>3. DiscrimOf(row) = D_INDEX
  <2>1. row[1] = prefix[1]
    BY <1>1, <1>2
  <2>2. QED
    BY <2>1 DEF DiscrimOf
<1>4. z \in Demarcations(row)
  <2>1. z \in 1 .. Len(row) - 8
    BY <1>1, <1>2
  <2>2. Len(row) - z = 8 * n /\ (8 * n) % 8 = 0
    BY <1>1, <1>2
  <2>3. row[z] = 0
    BY <1>1, <1>2
  <2>4. QED
    BY <2>1, <2>2, <2>3 DEF Demarcations
<1>5. \A j \in Demarcations(row) : j <= z
  <2> SUFFICES ASSUME NEW j \in Demarcations(row), j > z PROVE FALSE
    BY <1>1 DEF Demarcations
  <2>1. j \in Nat /\ j <= Len(row) - 8 /\ (Len(row) - j) % 8 = 0 /\ row[j] = 0
    BY DEF Demarcations
  <2>2. PICK d \in Int : Len(row) - j = 8 * d
    <3>1. Len(row) - j \in Int
      BY <1>1, <1>2, <2>1
    <3>2. Len(row) - j = 8 * ((Len(row) - j) \div 8) /\ (Len(row) - j) \div 8 \in Int
      BY <2>1, <3>1, DivideBy8
    <3>3. QED
      BY <3>2
  <2>3. n - d \in 1 .. n - 1 /\ j = z + 8 * (n - d)
    BY <1>1, <1>2, <2>1, <2>2
  <2>4. row[j] = key[8 * (n - d)]
    BY <1>2, <2>3
  <2>5. QED
    BY <2>1, <2>3, <2>4
<1>6. Max(Demarcations(row)) = z
  <2>1. Demarcations(row) \in SUBSET Int
    BY DEF Demarcations
  <2>2. QED
    BY <1>4, <1>5, <2>1, MaxIs
<1>7. EntityBytes(row, kindid, shapeid) = SubSeq(row, z + 1, Len(row))
  BY <1>3, <1>4, <1>6 DEF EntityBytes, KeyInRow
<1>8. SubSeq(row, z + 1, Len(row)) = key
  <2>1. SubSeq(row, z + 1, z + 8 * n) = SubSeq(key, 1, 8 * n)
    <3>1. z + 1 \in z + 1 .. z + 8 * n /\ z + 8 * n \in z + 1 .. z + 8 * n
      BY <1>1
    <3>2. SubSeq(row, z + 1, z + 8 * n) = SubSeq(key, z + 1 - z, z + 8 * n - z)
      BY <1>1, <1>3a, <3>1, SubSeqOfConcat2 DEF row
    <3>3. QED
      BY <1>1, <3>2
  <2>2. QED
    BY <1>2, <2>1, SubSeqFull
<1>9. QED
  BY <1>7, <1>8 DEF row, head

(***************************************************************************)
(* Bytes.  COMPARATOR orders the keys totally, and the keys with a prefix  *)
(* follow each other in this order, from the first that is not below it.   *)
(***************************************************************************)
LEMMA ByteIs == ASSUME NEW x \in Byte PROVE x \in Int /\ x \in Nat
BY DEF Byte

LEMMA BytesAre ==
    ASSUME NEW a \in Bytes, NEW i \in 1 .. Len(a)
    PROVE  a[i] \in Byte /\ a[i] \in Int /\ Len(a) \in Nat
<1>1. a[i] \in Byte /\ Len(a) \in Nat
  BY DEF Bytes
<1>2. QED
  BY <1>1, ByteIs

LEMMA BelowTransitive ==
    ASSUME NEW a \in Bytes, NEW b \in Bytes, NEW c \in Bytes, Below(a, b), Below(b, c)
    PROVE  Below(a, c)
<1> USE DEF Bytes
<1>1. PICK n \in 0 .. Len(a) : n < Len(b) /\ SameTo(a, b, n) /\ (n = Len(a) \/ a[n + 1] < b[n + 1])
  BY DEF Below
<1>2. PICK m \in 0 .. Len(b) : m < Len(c) /\ SameTo(b, c, m) /\ (m = Len(b) \/ b[m + 1] < c[m + 1])
  BY DEF Below
<1>3. Len(a) \in Nat /\ Len(b) \in Nat /\ Len(c) \in Nat /\ n \in Nat /\ m \in Nat
  OBVIOUS
<1>4. CASE n < m
  <2>1. n < Len(c) /\ n + 1 \in 1 .. m
    BY <1>2, <1>3, <1>4
  <2>2. b[n + 1] = c[n + 1]
    BY <1>2, <2>1 DEF SameTo
  <2>3. SameTo(a, c, n)
    BY <1>1, <1>2, <1>3, <1>4 DEF SameTo
  <2>4. QED
    BY <1>1, <2>1, <2>2, <2>3 DEF Below
<1>5. CASE n = m
  <2>1. SameTo(a, c, n)
    BY <1>1, <1>2, <1>5 DEF SameTo
  <2>2. n = Len(a) \/ a[n + 1] < c[n + 1]
    <3>1. CASE n # Len(a)
      <4>1. n + 1 \in 1 .. Len(a) /\ n + 1 \in 1 .. Len(b) /\ n + 1 \in 1 .. Len(c)
        BY <1>1, <1>2, <1>3, <1>5, <3>1
      <4>2. a[n + 1] \in Int /\ b[n + 1] \in Int /\ c[n + 1] \in Int
        BY <4>1, BytesAre
      <4>3. a[n + 1] < b[n + 1] /\ b[n + 1] < c[n + 1]
        BY <1>1, <1>2, <1>3, <1>5, <3>1
      <4>4. QED
        BY <4>2, <4>3
    <3>2. QED
      BY <3>1
  <2>3. QED
    BY <1>1, <1>2, <1>5, <2>1, <2>2 DEF Below
<1>6. CASE m < n
  <2>1. m + 1 \in 1 .. n /\ m \in 0 .. Len(a) /\ m # Len(b)
    BY <1>1, <1>3, <1>6
  <2>2. a[m + 1] = b[m + 1]
    BY <1>1, <2>1 DEF SameTo
  <2>3. SameTo(a, c, m)
    BY <1>1, <1>2, <1>3, <1>6 DEF SameTo
  <2>4. QED
    BY <1>2, <2>1, <2>2, <2>3 DEF Below
<1>7. QED
  BY <1>3, <1>4, <1>5, <1>6

\* What memcmp says of n bytes is one of three things.
LEMMA Memcmp ==
    ASSUME NEW n \in Nat, NEW a \in Bytes, NEW b \in Bytes, Len(a) >= n, Len(b) >= n
    PROVE  SameTo(a, b, n) \/ LowerTo(a, b, n) \/ LowerTo(b, a, n)
<1> SUFFICES ASSUME ~ SameTo(a, b, n) PROVE LowerTo(a, b, n) \/ LowerTo(b, a, n)
  OBVIOUS
<1> DEFINE S == {i \in 1 .. n : a[i] # b[i]}
           d == Min(S)
<1>1. S \in SUBSET Nat /\ S # {}
  BY DEF SameTo
<1>2. d \in S /\ \A i \in S : d <= i
  BY <1>1, MinExists
<1> HIDE DEF d
<1>3. d \in 1 .. n /\ a[d] # b[d]
  BY <1>2
<1>4. \A i \in 1 .. d - 1 : a[i] = b[i]
  <2> SUFFICES ASSUME NEW i \in 1 .. d - 1, a[i] # b[i] PROVE FALSE
    OBVIOUS
  <2>1. i \in S
    BY <1>3
  <2>2. QED
    BY <1>2, <1>3, <2>1
<1>5. SameTo(a, b, d - 1) /\ SameTo(b, a, d - 1)
  BY <1>4 DEF SameTo
<1>6. a[d] \in Int /\ b[d] \in Int
  <2>1. d \in 1 .. Len(a) /\ d \in 1 .. Len(b)
    BY <1>3 DEF Bytes
  <2>2. QED
    BY <2>1, BytesAre
<1>7. a[d] < b[d] \/ b[d] < a[d]
  BY <1>3, <1>6
<1>8. QED
  BY <1>3, <1>5, <1>7 DEF LowerTo

\* Whether a key is below p, has it as a prefix, or is above it is decided by
\* the first Len(p) bytes, if there are so many.
LEMMA BelowIsLower ==
    ASSUME NEW a \in Bytes, NEW p \in Bytes, Len(a) >= Len(p)
    PROVE  Below(a, p) <=> LowerTo(a, p, Len(p))
<1>0. Len(a) \in Nat /\ Len(p) \in Nat
  BY DEF Bytes
<1>1. ASSUME Below(a, p) PROVE LowerTo(a, p, Len(p))
  <2>1. PICK n \in 0 .. Len(a) : n < Len(p) /\ SameTo(a, p, n) /\ (n = Len(a) \/ a[n + 1] < p[n + 1])
    BY <1>1 DEF Below
  <2>2. n + 1 \in 1 .. Len(p) /\ (n + 1) - 1 = n /\ a[n + 1] < p[n + 1]
    BY <1>0, <2>1
  <2>3. QED
    BY <2>1, <2>2 DEF LowerTo
<1>2. ASSUME LowerTo(a, p, Len(p)) PROVE Below(a, p)
  <2>1. PICK i \in 1 .. Len(p) : SameTo(a, p, i - 1) /\ a[i] < p[i]
    BY <1>2 DEF LowerTo
  <2>2. i - 1 \in 0 .. Len(a) /\ i - 1 < Len(p) /\ (i - 1) + 1 = i
    BY <1>0
  <2>3. QED
    BY <2>1, <2>2 DEF Below
<1>3. QED
  BY <1>1, <1>2

LEMMA SameNotLower ==
    ASSUME NEW n \in Nat, NEW a \in Bytes, NEW b \in Bytes, Len(a) >= n, Len(b) >= n, LowerTo(a, b, n)
    PROVE  ~ SameTo(a, b, n) /\ ~ SameTo(b, a, n) /\ ~ LowerTo(b, a, n)
<1>1. PICK i \in 1 .. n : SameTo(a, b, i - 1) /\ a[i] < b[i]
  BY DEF LowerTo
<1>2. ASSUME NEW j \in 1 .. n PROVE a[j] \in Int /\ b[j] \in Int
  <2>1. j \in 1 .. Len(a) /\ j \in 1 .. Len(b)
    BY DEF Bytes
  <2>2. QED
    BY <2>1, BytesAre
<1>3. ~ SameTo(a, b, n) /\ ~ SameTo(b, a, n)
  BY <1>1, <1>2 DEF SameTo
<1>4. ASSUME LowerTo(b, a, n) PROVE FALSE
  <2>1. PICK j \in 1 .. n : SameTo(b, a, j - 1) /\ b[j] < a[j]
    BY <1>4 DEF LowerTo
  <2>2. CASE i < j
    BY <1>1, <1>2, <2>1, <2>2 DEF SameTo
  <2>3. CASE j < i
    BY <1>1, <1>2, <2>1, <2>3 DEF SameTo
  <2>4. CASE i = j
    BY <1>1, <1>2, <2>1, <2>4
  <2>5. QED
    BY <2>2, <2>3, <2>4
<1>5. QED
  BY <1>3, <1>4

LEMMA PrefixNotBelow ==
    ASSUME NEW a \in Bytes, NEW p \in Bytes, HasPrefix(a, p)
    PROVE  ~ Below(a, p)
<1>1. Len(a) >= Len(p) /\ SameTo(p, a, Len(p)) /\ Len(p) \in Nat
  BY DEF HasPrefix, Bytes
<1>2. QED
  BY <1>1, BelowIsLower, SameNotLower

\* A key between two that are not below p has the prefix p if the second has it.
LEMMA PrefixBetween ==
    ASSUME NEW a \in Bytes, NEW b \in Bytes, NEW p \in Bytes,
           ~ Below(a, p), Below(a, b), HasPrefix(b, p)
    PROVE  HasPrefix(a, p)
<1>1. PICK n \in 0 .. Len(a) : n < Len(b) /\ SameTo(a, b, n) /\ (n = Len(a) \/ a[n + 1] < b[n + 1])
  BY DEF Below
<1>2. Len(a) \in Nat /\ Len(b) \in Nat /\ Len(p) \in Nat /\ Len(p) <= Len(b) /\ SameTo(p, b, Len(p))
  BY DEF Bytes, HasPrefix
<1>3. CASE n >= Len(p)
  <2>1. SameTo(p, a, Len(p))
    BY <1>1, <1>2, <1>3 DEF SameTo
  <2>2. QED
    BY <1>1, <1>2, <1>3, <2>1 DEF HasPrefix
<1>4. CASE n < Len(p)
  <2>1. n + 1 \in 1 .. Len(p)
    BY <1>2, <1>4
  <2>2. b[n + 1] = p[n + 1]
    BY <1>2, <2>1 DEF SameTo
  <2>3. SameTo(a, p, n)
    BY <1>1, <1>2, <1>4 DEF SameTo
  <2>4. Below(a, p)
    BY <1>1, <1>4, <2>2, <2>3 DEF Below
  <2>5. QED
    BY <2>4
<1>5. QED
  BY <1>2, <1>3, <1>4

\* The discriminator is the high half of the first byte, by which keys are ordered.
LEMMA DiscrimIs == ASSUME NEW x \in Byte PROVE x \div 16 \in 0 .. 15
BY DEF Byte

LEMMA DiscrimGrows ==
    ASSUME NEW x \in Byte, NEW y \in Byte, x <= y
    PROVE  x \div 16 <= y \div 16
BY DEF Byte

LEMMA FirstBytes ==
    ASSUME NEW a \in Bytes \ {<<>>}, NEW b \in Bytes \ {<<>>}
    PROVE  /\ a[1] \in Byte /\ b[1] \in Byte
           /\ Below(a, b) => a[1] <= b[1]
           /\ ~ Below(a, b) => b[1] <= a[1]
           /\ HasPrefix(a, b) => a[1] = b[1]
<1>1. Len(a) \in Nat \ {0} /\ Len(b) \in Nat \ {0} /\ a[1] \in Byte /\ b[1] \in Byte
  BY EmptySeq DEF Bytes
<1>2. a[1] \in Int /\ b[1] \in Int
  BY <1>1, ByteIs
<1>3. ASSUME Below(a, b) PROVE a[1] <= b[1]
  <2>1. PICK n \in 0 .. Len(a) : n < Len(b) /\ SameTo(a, b, n) /\ (n = Len(a) \/ a[n + 1] < b[n + 1])
    BY <1>3 DEF Below
  <2>2. CASE n = 0
    BY <1>1, <1>2, <2>1, <2>2
  <2>3. CASE n # 0
    BY <1>1, <1>2, <2>1, <2>3 DEF SameTo
  <2>4. QED
    BY <2>2, <2>3
<1>4. ASSUME a[1] < b[1] PROVE Below(a, b)
  <2>1. 0 \in 0 .. Len(a) /\ 0 < Len(b) /\ SameTo(a, b, 0) /\ 0 + 1 = 1
    BY <1>1 DEF SameTo
  <2>2. QED
    BY <1>4, <2>1 DEF Below
<1>5. HasPrefix(a, b) => a[1] = b[1]
  BY <1>1 DEF HasPrefix, SameTo
<1>6. QED
  BY <1>1, <1>2, <1>3, <1>4, <1>5

(***************************************************************************)
(* The facts of a query.                                                   *)
(***************************************************************************)
LEMMA RowKeyIs ==
    ASSUME NEW r \in Row
    PROVE  RowKey[r] \in Bytes \ {<<>>} /\ RowKey[r] \in Bytes /\ Discrim[r] = RowKey[r][1] \div 16
BY RowKeyAssumption DEF DiscrimOf

LEMMA FirstRowIs ==
    ASSUME NEW p \in Bytes
    PROVE  /\ FirstRow(p) \in 1 .. LastRow + 1
           /\ \A r \in Row : r >= FirstRow(p) <=> ~ Below(RowKey[r], p)
<1> DEFINE S == {r \in Row : ~ Below(RowKey[r], p)} \cup {LastRow + 1}
           f == FirstRow(p)
<1>1. S \in SUBSET (1 .. LastRow + 1) /\ S \in SUBSET Nat /\ S # {}
  BY Bounds DEF Row
<1>2. f \in S /\ \A i \in S : f <= i
  BY <1>1, MinExists DEF FirstRow
<1> HIDE DEF f
<1>3. f \in 1 .. LastRow + 1
  BY <1>1, <1>2
<1>4. ASSUME NEW r \in Row, ~ Below(RowKey[r], p) PROVE r >= f
  <2>1. f <= r
    BY <1>2, <1>4
  <2>2. QED
    BY <1>3, <2>1 DEF Row
<1>5. ASSUME NEW r \in Row, r >= f, Below(RowKey[r], p) PROVE FALSE
  <2>1. f \in Row /\ ~ Below(RowKey[f], p)
    BY <1>2, <1>3, <1>5, Bounds DEF Row
  <2>2. f # r
    BY <1>5, <2>1
  <2>3. f < r
    BY <1>3, <1>5, <2>2 DEF Row
  <2>4. Below(RowKey[f], RowKey[r])
    BY <2>1, <2>3, RowKeyAssumption
  <2>5. QED
    BY <1>5, <2>1, <2>4, RowKeyIs, BelowTransitive
<1>6. QED
  BY <1>3, <1>4, <1>5 DEF f

LEMMA LastWithIs ==
    ASSUME NEW p \in Bytes
    PROVE  /\ LastWith(p) \in 0 .. LastRow
           /\ LastWith(p) >= FirstRow(p) - 1
           /\ \A r \in Row : FirstRow(p) <= r /\ r <= LastWith(p) <=> HasPrefix(RowKey[r], p)
<1> DEFINE S == WithPrefix(p) \cup {FirstRow(p) - 1}
           f == FirstRow(p)
           l == LastWith(p)
<1>1. f \in 1 .. LastRow + 1 /\ \A r \in Row : r >= f <=> ~ Below(RowKey[r], p)
  BY FirstRowIs
<1>2. S \in SUBSET (0 .. LastRow) /\ S # {}
  <2>1. f - 1 \in 0 .. LastRow /\ Row \in SUBSET (0 .. LastRow)
    BY <1>1, Bounds DEF Row
  <2>2. QED
    BY <2>1 DEF WithPrefix
<1>3. l \in S /\ \A i \in S : l >= i
  BY <1>2, Bounds, MaxExists DEF LastWith
<1>4. WithPrefix(p) \subseteq Row /\ \A r \in Row : r \in WithPrefix(p) <=> HasPrefix(RowKey[r], p)
  BY DEF WithPrefix
<1> HIDE DEF l, f
<1>5. l \in 0 .. LastRow /\ l >= f - 1
  BY <1>2, <1>3 DEF f
<1>6. ASSUME NEW r \in Row, HasPrefix(RowKey[r], p) PROVE f <= r /\ r <= l
  <2>1. ~ Below(RowKey[r], p)
    BY <1>6, RowKeyIs, PrefixNotBelow
  <2>2. l >= r /\ r >= f
    BY <1>1, <1>3, <1>4, <1>6, <2>1
  <2>3. QED
    BY <1>1, <1>5, <2>2 DEF Row
<1>7. ASSUME NEW r \in Row, f <= r, r <= l PROVE HasPrefix(RowKey[r], p)
  <2>1. l # f - 1 /\ r >= f
    BY <1>1, <1>5, <1>7 DEF Row
  <2>2. l \in Row /\ HasPrefix(RowKey[l], p)
    BY <1>3, <1>4, <2>1 DEF f
  <2>3. CASE r = l
    BY <2>2, <2>3
  <2>4. CASE r # l
    <3>1. r < l
      BY <1>5, <1>7, <2>4 DEF Row
    <3>2. Below(RowKey[r], RowKey[l])
      BY <2>2, <3>1, RowKeyAssumption
    <3>3. ~ Below(RowKey[r], p)
      BY <1>1, <2>1
    <3>4. QED
      BY <2>2, <3>2, <3>3, RowKeyIs, PrefixBetween
  <2>5. QED
    BY <2>3, <2>4
<1>8. QED
  BY <1>5, <1>6, <1>7 DEF l, f

LEMMA FactsAre ==
    ASSUME NEW c
    PROVE  /\ Facts(c).from = FirstRow(c.seekpos1) /\ Facts(c).thru = LastWith(c.seekpos1)
           /\ Facts(c).lo = FirstRow(c.seekpos2) /\ Facts(c).hi = LastWith(c.seekpos2)
           /\ Facts(c).block = DiscrimOf(c.seekpos1)
           /\ Facts(c).kept = {r \in Row : EntityBytes(RowKey[r], c.kindid, c.shapeid) # <<>>}
BY DEF Facts

\* What NdbQuery assumes of the rows and of its queries is so for every database
\* of keys in the order of COMPARATOR and for all arguments of query: the rows
\* with the prefix seekpos1 follow each other, in the block of its discriminator.
THEOREM FactsHold ==
    /\ \A r \in Row : Discrim[r] \in 0 .. 15
    /\ \A r, s \in Row : r < s => Discrim[r] <= Discrim[s]
    /\ \A c \in CallRecord : Facts(c) \in QueryRecord /\ QueryFacts(Facts(c))
<1>1. ASSUME NEW r \in Row PROVE Discrim[r] \in 0 .. 15
  <2>1. RowKey[r][1] \in Byte
    BY RowKeyIs, FirstBytes
  <2>2. QED
    BY <2>1, RowKeyIs, DiscrimIs
<1>2. ASSUME NEW r \in Row, NEW s \in Row, r < s PROVE Discrim[r] <= Discrim[s]
  <2>1. Below(RowKey[r], RowKey[s])
    BY <1>2, RowKeyAssumption
  <2>2. RowKey[r][1] \in Byte /\ RowKey[s][1] \in Byte /\ RowKey[r][1] <= RowKey[s][1]
    BY <2>1, RowKeyIs, FirstBytes
  <2>3. QED
    BY <2>2, RowKeyIs, DiscrimGrows
<1>3. ASSUME NEW c \in CallRecord PROVE Facts(c) \in QueryRecord /\ QueryFacts(Facts(c))
  <2> DEFINE p == c.seekpos1
             e == c.seekpos2
             q == Facts(c)
  <2>1. /\ p \in Bytes \ {<<>>} /\ p \in Bytes /\ e \in Bytes
        /\ c.op \in Ops \cup {"other"} /\ c.ancestor \in BOOLEAN /\ c.cursor \in BOOLEAN
        /\ c.offset \in Nat /\ c.limit \in Nat
    BY <1>3 DEF CallRecord
  <2>2. p[1] \in Byte /\ q.block = p[1] \div 16 /\ q.block \in 0 .. 15
    <3>1. p[1] \in Byte
      BY <2>1, FirstBytes
    <3>2. p[1] \div 16 \in 0 .. 15
      BY <3>1, DiscrimIs
    <3>3. QED
      BY <3>1, <3>2, FactsAre DEF DiscrimOf
  <2>3. /\ q.from = FirstRow(p) /\ q.thru = LastWith(p) /\ q.lo = FirstRow(e) /\ q.hi = LastWith(e)
        /\ q.from \in 1 .. LastRow + 1 /\ q.thru \in 0 .. LastRow /\ q.thru >= q.from - 1
        /\ q.lo \in 1 .. LastRow + 1 /\ q.hi \in 0 .. LastRow /\ q.hi >= q.lo - 1
    BY <2>1, FactsAre, FirstRowIs, LastWithIs
  <2>4. q \in QueryRecord
    <3> DEFINE from == FirstRow(p)
               thru == LastWith(p)
               lo   == FirstRow(e)
               hi   == LastWith(e)
               kept == {r \in Row : EntityBytes(RowKey[r], c.kindid, c.shapeid) # <<>>}
               block == DiscrimOf(p)
    <3>1. kept \in SUBSET Row /\ (e # <<>>) \in BOOLEAN
      OBVIOUS
    <3>2. from \in 1 .. LastRow + 1 /\ thru \in 0 .. LastRow /\ lo \in 1 .. LastRow + 1 /\ hi \in 0 .. LastRow
          /\ block \in 0 .. 15
      BY <2>2, <2>3, FactsAre
    <3>3. q = [op |-> c.op, ancestor |-> c.ancestor, cursor |-> c.cursor, block |-> block,
               from |-> from, thru |-> thru, ends |-> e # <<>>, lo |-> lo, hi |-> hi,
               kept |-> kept, offset |-> c.offset, limit |-> c.limit]
      BY DEF Facts
    <3> HIDE DEF from, thru, lo, hi, kept, block, p, e, q
    <3>4. QED
      BY <2>1, <3>1, <3>2, <3>3 DEF QueryRecord
  <2> HIDE DEF p, q
  <2>5. ASSUME NEW r \in q.from .. q.thru PROVE Discrim[r] = q.block
    <3>1. r \in Row /\ FirstRow(p) <= r /\ r <= LastWith(p)
      BY <2>3, Bounds DEF Row
    <3>2. HasPrefix(RowKey[r], p)
      BY <2>1, <3>1, LastWithIs
    <3>3. RowKey[r][1] = p[1]
      BY <2>1, <3>1, <3>2, RowKeyIs, FirstBytes
    <3>4. QED
      BY <2>2, <3>1, <3>3, RowKeyIs
  <2>6. ASSUME NEW r \in Row, r < q.from PROVE Discrim[r] <= q.block
    <3>1. ~ (r >= q.from)
      BY <2>3, <2>6 DEF Row
    <3>2. Below(RowKey[r], p)
      BY <2>1, <2>3, <3>1, FirstRowIs
    <3>3. RowKey[r][1] \in Byte /\ RowKey[r][1] <= p[1]
      BY <2>1, <3>2, RowKeyIs, FirstBytes
    <3>4. QED
      BY <2>2, <3>3, RowKeyIs, DiscrimGrows
  <2>7. ASSUME NEW r \in Row, r >= q.from PROVE Discrim[r] >= q.block
    <3>1. ~ Below(RowKey[r], p)
      BY <2>1, <2>3, <2>7, FirstRowIs
    <3>2. RowKey[r][1] \in Byte /\ p[1] <= RowKey[r][1]
      BY <2>1, <3>1, RowKeyIs, FirstBytes
    <3>3. q.block <= Discrim[r]
      BY <2>2, <3>2, RowKeyIs, DiscrimGrows
    <3>4. q.block \in Int /\ Discrim[r] \in Int
      BY <1>1, <2>2
    <3>5. QED
      BY <3>3, <3>4
  <2>8. QED
    BY <2>3, <2>4, <2>5, <2>6, <2>7 DEF QueryFacts, q
<1>4. QED
  BY <1>1, <1>2, <1>3

\* What the scan asks of a row is what the code asks of its bytes: whether Seek
\* passes over it, whether it has the prefix seekpos1, whether its first byte is
\* of another block, and whether memcmp puts it before or after seekpos2, on as
\* many bytes as seekpos2 has.
THEOREM ScanReadsBytes ==
    ASSUME NEW c \in CallRecord, NEW r \in Row
    PROVE  /\ r < Facts(c).from <=> Below(RowKey[r], c.seekpos1)
           /\ Matches(Facts(c), r) <=> HasPrefix(RowKey[r], c.seekpos1)
           /\ LeavesBlock(Facts(c), r) <=> RowKey[r][1] \div 16 # c.seekpos1[1] \div 16
           /\ Len(RowKey[r]) >= Len(c.seekpos2) =>
                 /\ r < Facts(c).lo <=> LowerTo(RowKey[r], c.seekpos2, Len(c.seekpos2))
                 /\ r > Facts(c).hi <=> LowerTo(c.seekpos2, RowKey[r], Len(c.seekpos2))
<1> DEFINE k == RowKey[r]
           p == c.seekpos1
           e == c.seekpos2
           q == Facts(c)
<1>1. k \in Bytes /\ p \in Bytes /\ e \in Bytes /\ r \in Int /\ LastRow \in Int
  BY RowKeyIs, Bounds DEF CallRecord, Row
<1>2. q.from \in Int /\ q.lo \in Int /\ q.hi \in Int
  BY <1>1, FactsAre, FirstRowIs, LastWithIs
<1>3. r < q.from <=> Below(k, p)
  <2>1. r >= q.from <=> ~ Below(k, p)
    BY <1>1, FactsAre, FirstRowIs
  <2>2. r < q.from <=> ~ (r >= q.from)
    BY <1>1, <1>2
  <2>3. QED
    BY <2>1, <2>2
<1>4. Matches(q, r) <=> HasPrefix(k, p)
  BY <1>1, FactsAre, LastWithIs DEF Matches
<1>5. LeavesBlock(q, r) <=> k[1] \div 16 # p[1] \div 16
  BY FactsAre, RowKeyIs DEF LeavesBlock, DiscrimOf
<1>6. ASSUME Len(k) >= Len(e)
      PROVE  /\ r < q.lo <=> LowerTo(k, e, Len(e))
             /\ r > q.hi <=> LowerTo(e, k, Len(e))
  <2>1. Len(e) \in Nat /\ Len(e) >= Len(e)
    BY <1>1 DEF Bytes
  <2>2. r >= q.lo <=> ~ LowerTo(k, e, Len(e))
    BY <1>1, <1>6, FactsAre, FirstRowIs, BelowIsLower
  <2>3. r < q.lo <=> ~ (r >= q.lo)
    BY <1>1, <1>2
  <2>4. q.lo <= r /\ r <= q.hi <=> SameTo(e, k, Len(e))
    BY <1>1, <1>6, FactsAre, LastWithIs DEF HasPrefix
  <2>5. q.hi >= q.lo - 1
    BY <1>1, FactsAre, LastWithIs
  <2>6. SameTo(e, k, Len(e)) \/ LowerTo(k, e, Len(e)) \/ LowerTo(e, k, Len(e))
    BY <1>1, <1>6, <2>1, Memcmp
  <2>7. LowerTo(e, k, Len(e)) => ~ SameTo(e, k, Len(e)) /\ ~ LowerTo(k, e, Len(e))
    BY <1>1, <1>6, <2>1, SameNotLower
  <2>8. r > q.hi <=> r >= q.lo /\ ~ (q.lo <= r /\ r <= q.hi)
    BY <1>1, <1>2, <2>5
  <2>9. QED
    BY <2>2, <2>3, <2>4, <2>6, <2>7, <2>8
<1>7. QED
  BY <1>3, <1>4, <1>5, <1>6

(***************************************************************************)
(* The keys that are handed out.                                           *)
(***************************************************************************)
LEMMA KeyOfRow ==
    ASSUME NEW r \in Row, NEW kindid \in Byte, NEW shapeid \in Byte,
           EntityBytes(RowKey[r], kindid, shapeid) # <<>>
    PROVE  EntityBytes(RowKey[r], 0, 0) = EntityOf[r]
<1> DEFINE k == RowKey[r]
<1>1. CASE DiscrimOf(k) = D_INDEX
  <2> DEFINE key == EntityOf[r]
  <2>1. IsKey(key) /\ \E n \in DOMAIN k : k = SubSeq(k, 1, n) \o <<0>> \o key
    BY <1>1, EntityAssumption
  <2>2. PICK n \in DOMAIN k : k = SubSeq(k, 1, n) \o <<0>> \o key
    BY <2>1
  <2> DEFINE prefix == SubSeq(k, 1, n)
             m      == Len(key) \div 8
  <2>3. k \in Seq(Byte) /\ n \in 1 .. Len(k) /\ Len(k) \in Nat
    BY RowKeyIs DEF Bytes
  <2>4. prefix \in Seq(Byte) /\ Len(prefix) = n /\ prefix[1] = k[1]
    <3>1. 1 \in 1 .. Len(k) + 1 /\ n \in 1 - 1 .. Len(k)
      BY <2>3
    <3>2. prefix \in Seq(Byte) /\ Len(prefix) = n /\ \A i \in 1 .. n : prefix[i] = k[i]
      BY <2>3
    <3>3. QED
      BY <2>3, <3>2
  <2>5. prefix # <<>> /\ DiscrimOf(prefix) = D_INDEX
    <3>1. Len(prefix) # 0
      BY <2>3, <2>4
    <3>2. QED
      BY <1>1, <2>4, <3>1, EmptySeq DEF DiscrimOf
  <2>6. key \in Seq(Byte) /\ Len(key) \in Nat \ {0} /\ Len(key) % 8 = 0
    BY <2>1, EmptySeq DEF IsKey, Bytes
  <2>7. Len(key) = 8 * m /\ m \in Nat \ {0}
    <3> DEFINE l == Len(key)
    <3>1. l \in Nat \ {0} /\ l % 8 = 0
      BY <2>6
    <3> HIDE DEF l
    <3>2. l = 8 * (l \div 8)
      BY <3>1, DivideBy8
    <3>3. l \div 8 \in Nat \ {0}
      BY <3>1
    <3>4. QED
      BY <3>2, <3>3 DEF l
  <2>8. \A i \in 1 .. m - 1 : key[8 * i] # 0
    BY <2>1 DEF IsKey
  <2>9. k = prefix \o <<0>> \o key
    BY <2>2
  <2> HIDE DEF prefix, m, key
  <2>10. 0 \in Byte
    BY DEF Byte
  <2>11. EntityBytes(prefix \o <<0>> \o key, 0, 0) = key
    BY <2>4, <2>5, <2>6, <2>7, <2>8, <2>10, KeyOfIndexRow
  <2>12. QED
    BY <2>9, <2>11 DEF key
<1>2. CASE DiscrimOf(k) # D_INDEX
  <2>1. EntityOf[r] = k
    BY <1>2, EntityAssumption
  <2>2. DiscrimOf(k) = D_ENTITY => Passes(k, 0, 0)
    BY <1>2 DEF EntityBytes, Passes
  <2>3. QED
    BY <1>2, <2>1, <2>2 DEF EntityBytes
<1>3. QED
  BY <1>1, <1>2

\* What a query hands out for an index row is the key of the entity that the row
\* was put for, and for a row of data its own key: for every database of keys,
\* every call and whatever is written meanwhile.
THEOREM KeysHandedOut == Spec => []ResultsAreKeys
<1>1. QueryInv => ResultsAreKeys
  <2> SUFFICES ASSUME QueryInv, NEW i \in DOMAIN results
               PROVE  EntityBytes(RowKey[results[i]], 0, 0) = EntityOf[results[i]]
    BY DEF ResultsAreKeys, Returned
  <2> DEFINE r == results[i]
  <2>1. r \in view \cap query.kept /\ query # NoQuery /\ query \in Query /\ r \in Row
    <3>1. results # <<>>
      BY NoneIn
    <3>2. QED
      BY <3>1 DEF QueryInv, Sound, TypeOK
  <2>2. PICK c \in Call : query = Facts(c)
    BY <2>1, CallAssumption
  <2>3. c.kindid \in Byte /\ c.shapeid \in Byte
    BY CallAssumption DEF CallRecord
  <2>4. EntityBytes(RowKey[r], c.kindid, c.shapeid) # <<>>
    BY <2>1, <2>2, FactsAre
  <2>5. QED
    BY <2>1, <2>3, <2>4, KeyOfRow
<1>2. QED
  BY <1>1, QueryInit, QueryStep, PTL DEF Spec

=============================================================================
