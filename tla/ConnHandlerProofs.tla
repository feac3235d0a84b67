------------------------- MODULE ConnHandlerProofs -------------------------
(***************************************************************************)
(* Proofs about module ConnHandler, for every script of the client, every  *)
(* size of the buffers and replies and every order of the events: that the *)
(* client sees whole replies in the order of its requests, that a          *)
(* connection is a session (module Session), that the handler is given     *)
(* the requests as they were sent, and that each of its calls comes        *)
(* closer to its end.                                                      *)
(***************************************************************************)
EXTENDS ConnHandler, Extremes, SequenceTheorems, TLAPS

Parts == Nat \X (1 .. ReplySize)

\* How far the state machine is, where the worker is in a call.
Tracks ==
    /\ pc = "start" => state = "READY"
    /\ pc = "read" => state = "READING"
    /\ pc = "process" => state = "PROCESSING"
    /\ pc = "write" => state = "WRITING"
    /\ pc = "failed" => state = "READY"
    /\ state = "PROCESSING" => pc = "process"

Sequential ==
    /\ received \in Seq(Parts)
    /\ outbox \in Seq(Parts)
    /\ \E S : handed \in Seq(S)

\* What has been given ends where the reply in progress stands: this is what makes
\* the next part that is written the one that comes next.
Progress ==
    IF state = "WRITING"
    THEN /\ Len(handed) > 0
         /\ out = Reply(Len(handed))
         /\ cursor \in 0 .. ReplySize
         /\ Len(received) + Len(outbox) = Before(Len(handed)) + cursor
    ELSE /\ out = <<>>
         /\ cursor = 0
         /\ pc # "failed" => Len(received) + Len(outbox) = Before(Len(handed) + 1)

SessionInv == Tracks /\ Sequential /\ Progress /\ RepliesInOrder

LEMMA BeforeNext == ASSUME NEW n \in Nat PROVE Before(n) \in Int /\ Before(n + 1) = Before(n) + ReplySize
BY ConnAssumption DEF Before

LEMMA BeforeFirst == Before(1) = 0
BY ConnAssumption DEF Before

LEMMA ReplyType ==
    ASSUME NEW n \in Nat
    PROVE  Reply(n) \in Seq(Parts) /\ Len(Reply(n)) = ReplySize
BY ConnAssumption DEF Reply, Parts

LEMMA HandedLength == ASSUME Sequential PROVE Len(handed) \in Nat /\ DOMAIN handed = 1 .. Len(handed)
BY DEF Sequential

LEMMA GivenProperties ==
    ASSUME Sequential
    PROVE  /\ Given \in Seq(Parts)
           /\ Len(Given) = Len(received) + Len(outbox)
           /\ DOMAIN Given = 1 .. Len(Given)
BY ConcatProperties DEF Sequential, Given

\* A step that neither gives nor takes up a request.
Quiet == UNCHANGED <<received, outbox, handed>>

LEMMA QuietOrder == SessionInv /\ Quiet => Sequential' /\ RepliesInOrder'
BY DEF SessionInv, Quiet, Sequential, RepliesInOrder, Given

LEMMA SessionInit == Init => SessionInv
<1> SUFFICES ASSUME Init PROVE SessionInv
  OBVIOUS
<1>1. Tracks
  BY DEF Init, Tracks
<1>2. Sequential
  <2>1. received \in Seq(Parts) /\ outbox \in Seq(Parts) /\ handed \in Seq(Parts)
    BY DEF Init
  <2>2. QED
    BY <2>1 DEF Sequential
<1>3. Progress
  BY BeforeFirst DEF Init, Progress
<1>4. RepliesInOrder
  BY DEF Init, RepliesInOrder, Given
<1>5. QED
  BY <1>1, <1>2, <1>3, <1>4 DEF SessionInv

\* A step that hands nothing and gives nothing keeps the invariant if it keeps the
\* place in the call and in the reply.
LEMMA QuietStep == SessionInv /\ Quiet /\ Tracks' /\ Progress' => SessionInv'
BY QuietOrder DEF SessionInv

\* Receiving moves what has been given, and adds nothing.
LEMMA ReceiveKeeps == SessionInv /\ Receive => SessionInv' /\ Given' = Given
<1> SUFFICES ASSUME SessionInv, Receive PROVE SessionInv' /\ Given' = Given
  OBVIOUS
<1>0. received \in Seq(Parts) /\ outbox \in Seq(Parts)
  BY DEF SessionInv, Sequential
<1>1. received' = received \o outbox /\ outbox' = <<>> /\ UNCHANGED <<handed, pc, state, out, cursor>>
  BY DEF Receive, machine
<1>2. received' \in Seq(Parts) /\ outbox' \in Seq(Parts) /\ Len(received') = Len(received) + Len(outbox)
      /\ Len(outbox') = 0
  BY <1>0, <1>1, ConcatProperties
<1>3. Given' = Given
  <2>1. received' \o outbox' = received'
    BY <1>1, <1>2, ConcatEmptySeq
  <2>2. QED
    BY <2>1, <1>1 DEF Given
<1>4. Tracks'
  BY <1>1 DEF SessionInv, Tracks
<1>5. Sequential'
  BY <1>1, <1>2 DEF SessionInv, Sequential
<1>6. Len(received') + Len(outbox') = Len(received) + Len(outbox)
  BY <1>0, <1>2, LenProperties
<1>7. Progress'
  BY <1>1, <1>6 DEF SessionInv, Progress
<1>8. RepliesInOrder'
  BY <1>1, <1>3 DEF SessionInv, RepliesInOrder
<1>9. QED
  BY <1>3, <1>4, <1>5, <1>7, <1>8 DEF SessionInv

\* A connection that ends leaves nothing to the next.
LEMMA UnregisterKeeps == UnregisterFd => SessionInv'
<1> SUFFICES ASSUME UnregisterFd PROVE SessionInv'
  OBVIOUS
<1>1. /\ pc' = "idle" /\ state' = "absent" /\ out' = <<>> /\ cursor' = 0
      /\ received' = <<>> /\ outbox' = <<>> /\ handed' = <<>>
  BY DEF UnregisterFd, Drop
<1>2. Tracks'
  BY <1>1 DEF Tracks
<1>3. Sequential'
  <2>1. received' \in Seq(Parts) /\ outbox' \in Seq(Parts) /\ handed' \in Seq(Parts)
    BY <1>1
  <2>2. QED
    BY <2>1 DEF Sequential
<1>4. Progress'
  BY <1>1, BeforeFirst DEF Progress
<1>5. RepliesInOrder'
  BY <1>1 DEF RepliesInOrder, Given
<1>6. QED
  BY <1>2, <1>3, <1>4, <1>5 DEF SessionInv

\* A request that is handed over begins a reply, or breaks the connection.
LEMMA ProcessKeeps == SessionInv /\ ProcessFd => SessionInv'
<1> SUFFICES ASSUME SessionInv, ProcessFd PROVE SessionInv'
  OBVIOUS
<1>0. /\ handed' = Append(handed, in) /\ UNCHANGED <<received, outbox>> /\ pc = "process"
      /\ \/ out' = Reply(Len(handed')) /\ state' = "WRITING" /\ pc' = "write" /\ cursor' = cursor
         \/ state' = "READY" /\ out' = <<>> /\ cursor' = 0 /\ pc' = "failed"
  BY DEF ProcessFd, Goto, Fail, Reinit, client
<1>1. /\ Len(handed) \in Nat /\ DOMAIN handed = 1 .. Len(handed)
      /\ Len(handed') = Len(handed) + 1 /\ DOMAIN handed' = 1 .. Len(handed')
      /\ \E S : handed' \in Seq(S)
  <2>1. PICK S : handed \in Seq(S)
    BY DEF SessionInv, Sequential
  <2>2. handed \in Seq(S \cup {in}) /\ in \in S \cup {in}
    BY <2>1
  <2>3. QED
    BY <1>0, <2>2, AppendProperties
<1>2. state = "PROCESSING" /\ out = <<>> /\ cursor = 0 /\ Len(received) + Len(outbox) = Before(Len(handed) + 1)
  BY <1>0 DEF SessionInv, Tracks, Progress
<1>3. Tracks'
  BY <1>0 DEF Tracks
<1>4. Sequential'
  BY <1>0, <1>1 DEF SessionInv, Sequential
<1>5. Progress'
  <2>1. Len(received') + Len(outbox') = Before(Len(handed'))
    BY <1>0, <1>1, <1>2
  <2>2. ReplySize \in Nat /\ Before(Len(handed')) \in Int
    BY <1>1, BeforeNext, ConnAssumption
  <2>3. CASE state' = "WRITING"
    BY <1>0, <1>1, <1>2, <2>1, <2>2, <2>3 DEF Progress
  <2>4. CASE state' = "READY"
    BY <1>0, <2>4 DEF Progress
  <2>5. QED
    BY <1>0, <2>3, <2>4
<1>6. RepliesInOrder'
  BY <1>0, <1>1 DEF SessionInv, RepliesInOrder, Given
<1>7. QED
  BY <1>3, <1>4, <1>5, <1>6 DEF SessionInv

\* Where in the reply the i-th part is, if g have been given, c of them of this reply.
LEMMA PlaceInReply ==
    ASSUME NEW b \in Int, NEW r \in Nat, NEW c \in 0 .. r, NEW g \in Nat, g = b + c,
           NEW n \in 1 .. r - c, NEW i \in 1 .. g + n, i > g
    PROVE  i - g \in 1 .. n /\ c + (i - g) \in 1 .. r /\ i = b + (c + (i - g))
OBVIOUS

\* A write takes the reply up where the last one ended.
LEMMA WriteKeeps ==
    SessionInv /\ WriteFd =>
        /\ SessionInv'
        /\ \E n \in 1 .. Len(out) - cursor :
            Given' = Given \o SubSeq(out, cursor + 1, cursor + n) /\ cursor' = cursor + n
<1> SUFFICES ASSUME SessionInv, WriteFd
    PROVE  /\ SessionInv'
           /\ \E n \in 1 .. Len(out) - cursor :
                Given' = Given \o SubSeq(out, cursor + 1, cursor + n) /\ cursor' = cursor + n
  OBVIOUS
<1> DEFINE N == Len(handed)
<1>1. /\ pc = "write" /\ state = "WRITING"
      /\ UNCHANGED <<received, handed, pc, state, out>>
  BY DEF WriteFd, SessionInv, Tracks, client
<1>2. /\ N \in Nat /\ N > 0 /\ DOMAIN handed = 1 .. N /\ out = Reply(N)
      /\ cursor \in 0 .. ReplySize /\ Len(received) + Len(outbox) = Before(N) + cursor
      /\ out \in Seq(Parts) /\ Len(out) = ReplySize
      /\ received \in Seq(Parts) /\ outbox \in Seq(Parts)
  BY <1>1, HandedLength, ReplyType DEF SessionInv, Progress, Sequential
<1>3. ReplySize \in Nat /\ SendBuffer \in Nat /\ Len(outbox) \in Nat
  BY <1>2, ConnAssumption, LenProperties
<1>4. PICK n \in 1 .. Least(Len(out) - cursor, SendBuffer - Len(outbox)) :
        outbox' = outbox \o SubSeq(out, cursor + 1, cursor + n) /\ cursor' = cursor + n
  BY DEF WriteFd
<1>5. n \in 1 .. Len(out) - cursor
  BY <1>2, <1>3, <1>4 DEF Least
<1> DEFINE piece == SubSeq(out, cursor + 1, cursor + n)
<1>6. /\ piece \in Seq(Parts) /\ Len(piece) = n
      /\ \A k \in 1 .. n : piece[k] = out[cursor + k]
  BY <1>2, <1>3, <1>5, SubSeqProperties
<1> HIDE DEF piece
<1>7. outbox' \in Seq(Parts) /\ Len(outbox') = Len(outbox) + n
  <2>1. outbox' = outbox \o piece /\ outbox \in Seq(Parts) /\ piece \in Seq(Parts)
    BY <1>2, <1>4, <1>6 DEF piece
  <2>2. QED
    BY <2>1, <1>6, ConcatProperties
<1>8. Given' = Given \o piece
  <2>1. received \o (outbox \o piece) = (received \o outbox) \o piece
    <3>1. received \in Seq(Parts) /\ outbox \in Seq(Parts) /\ piece \in Seq(Parts)
      BY <1>2, <1>6
    <3>2. QED
      BY <3>1, ConcatAssociative
  <2>2. Given' = received \o (outbox \o piece)
    BY <1>1, <1>4 DEF Given, piece
  <2>3. QED
    BY <2>1, <2>2 DEF Given
<1>9. Tracks'
  BY <1>1 DEF SessionInv, Tracks
<1>10. Sequential'
  BY <1>1, <1>7 DEF SessionInv, Sequential
<1>11. Progress'
  <2>1. cursor' \in 0 .. ReplySize
    BY <1>2, <1>3, <1>4, <1>5
  <2>2. Len(received') + Len(outbox') = Before(N) + cursor'
    <3>1. Len(received) \in Nat /\ Before(N) \in Int
      BY <1>2, BeforeNext, LenProperties
    <3>2. Len(received') = Len(received) /\ Len(outbox') = Len(outbox) + n /\ cursor' = cursor + n
      BY <1>1, <1>4, <1>7
    <3>3. Len(received) + Len(outbox) = Before(N) + cursor /\ cursor \in Nat /\ n \in Nat /\ Len(outbox) \in Nat
      BY <1>2, <1>3, <1>5
    <3>4. QED
      BY <3>1, <3>2, <3>3
  <2>3. QED
    BY <1>1, <1>2, <2>1, <2>2 DEF Progress
<1>12. RepliesInOrder'
  <2> SUFFICES ASSUME NEW i \in DOMAIN Given'
      PROVE  \E m \in DOMAIN handed', j \in 1 .. ReplySize :
                i = Before(m) + j /\ Given'[i] = Reply(m)[j]
    BY DEF RepliesInOrder, Before, Reply
  <2>1. /\ Given \in Seq(Parts) /\ Len(Given) = Before(N) + cursor
        /\ DOMAIN Given = 1 .. Len(Given)
    BY <1>2, GivenProperties DEF SessionInv
  <2>2. /\ Len(Given') = Len(Given) + n /\ i \in 1 .. Len(Given) + n
        /\ i <= Len(Given) => Given'[i] = Given[i]
        /\ i > Len(Given) => Given'[i] = piece[i - Len(Given)]
    <3>1. Len(Given) \in Nat /\ n \in Nat
      BY <2>1, <1>5, LenProperties
    <3>2. Given' \in Seq(Parts) /\ Len(Given') = Len(Given) + n
      BY <1>6, <1>8, <2>1, ConcatProperties
    <3>3. i \in 1 .. Len(Given) + n
      BY <3>2
    <3>4. Given \in Seq(Parts) /\ piece \in Seq(Parts) /\ Len(piece) = n
      BY <1>6, <2>1
    <3>5. (Given \o piece)[i] = IF i <= Len(Given) THEN Given[i] ELSE piece[i - Len(Given)]
      BY <3>3, <3>4, ConcatProperties
    <3>6. QED
      BY <1>8, <3>1, <3>2, <3>3, <3>5
  <2>3. CASE i <= Len(Given)
    <3>1. i \in DOMAIN Given
      BY <2>1, <2>2, <2>3, LenProperties
    <3>2. PICK m \in DOMAIN handed, j \in 1 .. ReplySize : i = Before(m) + j /\ Given[i] = Reply(m)[j]
      BY <3>1 DEF SessionInv, RepliesInOrder
    <3>3. QED
      BY <1>1, <2>2, <2>3, <3>2
  <2>4. CASE i > Len(Given)
    <3> DEFINE k == i - Len(Given)
    <3> HIDE DEF k
    <3>1. k \in 1 .. n /\ cursor + k \in 1 .. ReplySize /\ i = Before(N) + (cursor + k)
      <4>1. Len(Given) \in Nat /\ Before(N) \in Int
        BY <1>2, <2>1, BeforeNext, LenProperties
      <4>2. Len(Given) = Before(N) + cursor /\ i \in 1 .. Len(Given) + n /\ i > Len(Given)
            /\ cursor \in 0 .. ReplySize /\ n \in 1 .. ReplySize - cursor /\ ReplySize \in Nat
        BY <1>2, <1>3, <1>5, <2>1, <2>2, <2>4
      <4>3. QED
        BY <4>1, <4>2, PlaceInReply DEF k
    <3>2. Given'[i] = Reply(N)[cursor + k]
      BY <1>2, <1>6, <2>2, <2>4, <3>1 DEF k
    <3>3. N \in DOMAIN handed'
      BY <1>1, <1>2
    <3>4. QED
      BY <3>1, <3>2, <3>3
  <2>5. i <= Len(Given) \/ i > Len(Given)
    BY <2>1, <2>2, LenProperties
  <2>6. QED
    BY <2>3, <2>4, <2>5
<1>13. SessionInv'
  BY <1>9, <1>10, <1>11, <1>12 DEF SessionInv
<1>14. QED
  BY <1>4, <1>5, <1>8, <1>13 DEF piece

\* Every step keeps the invariant.
LEMMA SessionStep == SessionInv /\ [Next]_vars => SessionInv'
<1> SUFFICES ASSUME SessionInv, [Next]_vars PROVE SessionInv'
  OBVIOUS
<1> USE DEF client, machine, Goto
<1>1. CASE Connect
  <2>1. Quiet /\ UNCHANGED <<pc, machine>>
    BY <1>1 DEF Connect, Quiet
  <2>2. Tracks' /\ Progress'
    BY <2>1 DEF SessionInv, Tracks, Progress, Quiet
  <2>3. QED
    BY <2>1, <2>2, QuietStep
<1>2. CASE Send
  <2>1. Quiet /\ UNCHANGED <<pc, machine>>
    BY <1>2 DEF Send, Quiet
  <2>2. Tracks' /\ Progress'
    BY <2>1 DEF SessionInv, Tracks, Progress, Quiet
  <2>3. QED
    BY <2>1, <2>2, QuietStep
<1>3. CASE Receive
  BY <1>3, ReceiveKeeps
<1>4. CASE Leave
  <2>1. Quiet /\ UNCHANGED <<pc, machine>>
    BY <1>4 DEF Leave, Quiet
  <2>2. Tracks' /\ Progress'
    BY <2>1 DEF SessionInv, Tracks, Progress, Quiet
  <2>3. QED
    BY <2>1, <2>2, QuietStep
<1>5. CASE UnregisterFd
  BY <1>5, UnregisterKeeps
<1>6. CASE HandleFd
  <2>1. Quiet
    BY <1>6 DEF HandleFd, Quiet
  <2>2. Tracks'
    BY <1>6 DEF HandleFd, Reinit, Tracks
  <2>3. Progress'
    BY <1>6 DEF HandleFd, Reinit, SessionInv, Progress
  <2>4. QED
    BY <2>1, <2>2, <2>3, QuietStep
<1>7. CASE StartRead
  <2>1. /\ pc = "start" /\ Quiet
        /\ \/ state' = "READY" /\ pc' = "failed" /\ out' = <<>> /\ cursor' = 0
           \/ state' = "READING" /\ pc' = "read" /\ UNCHANGED <<out, cursor>>
    BY <1>7 DEF StartRead, Fail, Reinit, Quiet
  <2>2. Tracks' /\ Progress'
    BY <2>1 DEF SessionInv, Tracks, Progress, Quiet
  <2>3. QED
    BY <2>1, <2>2, QuietStep
<1>8. CASE StartNothing
  <2>1. /\ pc = "start" /\ Quiet
        /\ \/ UNCHANGED <<state, out, cursor>> /\ pc' \in {pc, "idle"}
           \/ state' = "READY" /\ pc' = "failed" /\ out' = <<>> /\ cursor' = 0
    BY <1>8 DEF StartNothing, Fail, Reinit, Quiet
  <2>2. Tracks' /\ Progress'
    BY <2>1 DEF SessionInv, Tracks, Progress, Quiet
  <2>3. QED
    BY <2>1, <2>2, QuietStep
<1>9. CASE ReadBody
  <2>1. Quiet /\ UNCHANGED <<pc, state, out, cursor>>
    BY <1>9 DEF ReadBody, Quiet
  <2>2. Tracks' /\ Progress'
    BY <2>1 DEF SessionInv, Tracks, Progress, Quiet
  <2>3. QED
    BY <2>1, <2>2, QuietStep
<1>10. CASE ReadEof
  <2>1. Quiet /\ UNCHANGED machine /\ pc = "read" /\ pc' = "idle"
    BY <1>10 DEF ReadEof, Quiet
  <2>2. Tracks' /\ Progress'
    BY <2>1 DEF SessionInv, Tracks, Progress, Quiet
  <2>3. QED
    BY <2>1, <2>2, QuietStep
<1>11. CASE ReadNothing
  <2>1. Quiet /\ UNCHANGED <<pc, state, out, cursor>>
    BY <1>11 DEF ReadNothing, Quiet
  <2>2. Tracks' /\ Progress'
    BY <2>1 DEF SessionInv, Tracks, Progress, Quiet
  <2>3. QED
    BY <2>1, <2>2, QuietStep
<1>12. CASE ReadEnd
  <2>1. Quiet /\ UNCHANGED <<out, cursor>> /\ pc = "read" /\ pc' = "process" /\ state' = "PROCESSING"
    BY <1>12 DEF ReadEnd, Quiet
  <2>2. Tracks' /\ Progress'
    BY <2>1 DEF SessionInv, Tracks, Progress, Quiet
  <2>3. QED
    BY <2>1, <2>2, QuietStep
<1>13. CASE ProcessFd
  BY <1>13, ProcessKeeps
<1>14. CASE WriteFd
  BY <1>14, WriteKeeps
<1>15. CASE WriteNothing
  <2>1. /\ pc = "write" /\ Quiet
        /\ \/ UNCHANGED machine /\ pc' = "idle"
           \/ state' = "READY" /\ pc' = "failed" /\ out' = <<>> /\ cursor' = 0
    BY <1>15 DEF WriteNothing, Fail, Reinit, Quiet
  <2>2. Tracks' /\ Progress'
    BY <2>1 DEF SessionInv, Tracks, Progress, Quiet
  <2>3. QED
    BY <2>1, <2>2, QuietStep
<1>16. CASE WriteEnd
  <2>1. /\ pc = "write" /\ Quiet /\ cursor >= Len(out)
        /\ state' = "READY" /\ pc' = "idle" /\ out' = <<>> /\ cursor' = 0
    BY <1>16 DEF WriteEnd, Reinit, Quiet
  <2>2. /\ cursor \in 0 .. ReplySize /\ Len(handed) \in Nat /\ out = Reply(Len(handed))
        /\ Len(received) + Len(outbox) = Before(Len(handed)) + cursor
    BY <2>1, HandedLength DEF SessionInv, Tracks, Progress
  <2>3. cursor = ReplySize
    BY <2>1, <2>2, ReplyType, ConnAssumption
  <2>4. Len(received) + Len(outbox) = Before(Len(handed) + 1)
    BY <2>2, <2>3, BeforeNext
  <2>5. Tracks' /\ Progress'
    BY <2>1, <2>4 DEF Tracks, Progress, Quiet
  <2>6. QED
    BY <2>1, <2>5, QuietStep
<1>17. CASE Interrupted
  <2>1. Quiet /\ UNCHANGED <<pc, state, out, cursor>>
    BY <1>17 DEF Interrupted, Quiet
  <2>2. Tracks' /\ Progress'
    BY <2>1 DEF SessionInv, Tracks, Progress, Quiet
  <2>3. QED
    BY <2>1, <2>2, QuietStep
<1>18. CASE UNCHANGED vars
  <2>1. Quiet /\ UNCHANGED <<pc, machine>>
    BY <1>18 DEF vars, Quiet
  <2>2. Tracks' /\ Progress'
    BY <2>1 DEF SessionInv, Tracks, Progress, Quiet
  <2>3. QED
    BY <2>1, <2>2, QuietStep
<1>19. QED
  BY <1>1, <1>2, <1>3, <1>4, <1>5, <1>6, <1>7, <1>8, <1>9, <1>10, <1>11, <1>12, <1>13, <1>14,
     <1>15, <1>16, <1>17, <1>18 DEF Next, Step

\* The invariant: handed requests, what has been given of their replies and the
\* place in the reply in progress agree.
THEOREM SessionInvariant == Spec => []SessionInv
BY SessionInit, SessionStep, PTL DEF Spec

\* The client sees the replies in the order of the requests, each one whole before
\* the next begins (doWriteFd and doProcessFd, conn.cc).
THEOREM RepliesOrdered == Spec => []RepliesInOrder
<1>1. SessionInv => RepliesInOrder
  BY DEF SessionInv
<1>2. QED
  BY <1>1, SessionInvariant, PTL

----------------------------------------------------------------------------
(***************************************************************************)
(* The refinement.                                                         *)
(***************************************************************************)
Left == SubSeq(out, cursor + 1, Len(out))

LEMMA NothingLeft == ASSUME out = <<>>, cursor = 0 PROVE Left = <<>>
BY DEF Left

LEMMA NothingLeftNext == ASSUME out' = <<>>, cursor' = 0 PROVE Left' = <<>>
BY DEF Left

\* A step that changes none of what the session sees.
LEMMA Unseen ==
    ASSUME UNCHANGED <<Given, handed>>, Left' = Left, (pc # "failed" /\ pc' # "failed") \/ pc' = pc
    PROVE  UNCHANGED Sessions!vars
BY DEF Sessions!vars, Left

LEMMA Breaks ==
    ASSUME Quiet, pc # "failed", pc' = "failed", Left' = <<>>
    PROVE  Sessions!Break
BY DEF Sessions!Break, Quiet, Given, Left

\* Taking up a request.
LEMMA TakesUp == SessionInv /\ ProcessFd => Sessions!Take
<1> SUFFICES ASSUME SessionInv, ProcessFd PROVE Sessions!Take
  OBVIOUS
<1>0. /\ handed' = Append(handed, in) /\ UNCHANGED <<received, outbox>> /\ pc = "process"
      /\ \/ out' = Reply(Len(handed')) /\ pc' = "write" /\ cursor' = cursor
         \/ out' = <<>> /\ cursor' = 0 /\ pc' = "failed"
  BY DEF ProcessFd, Goto, Fail, Reinit, client
<1>1. out = <<>> /\ cursor = 0
  BY <1>0 DEF SessionInv, Tracks, Progress
<1>2. Len(handed') = Len(handed) + 1 /\ Len(handed) \in Nat
  <2>1. PICK S : handed \in Seq(S)
    BY DEF SessionInv, Sequential
  <2>2. handed \in Seq(S \cup {in}) /\ in \in S \cup {in}
    BY <2>1
  <2>3. QED
    BY <1>0, <2>2, AppendProperties
<1>3. Left = <<>>
  BY <1>1, NothingLeft
<1>4. Given' = Given
  BY <1>0 DEF Given
<1>5. CASE out' = Reply(Len(handed')) /\ pc' = "write" /\ cursor' = cursor
  <2>1. Left' = Sessions!ReplyTo(Len(handed'))
    <3>1. ReplySize \in Nat /\ Len(handed') \in Nat
      BY <1>2, ConnAssumption
    <3>2. out' \in Seq(Parts) /\ Len(out') = ReplySize
      BY <1>5, <3>1, ReplyType
    <3>3. Left' = SubSeq(out', 1, Len(out'))
      BY <1>1, <1>5 DEF Left
    <3>4. Left' = out'
      BY <3>2, <3>3, SubSeqFull
    <3>5. QED
      BY <1>5, <3>4 DEF Sessions!ReplyTo, Reply
  <2>2. QED
    BY <1>0, <1>2, <1>3, <1>4, <1>5, <2>1 DEF Sessions!Take, Left
<1>6. CASE out' = <<>> /\ cursor' = 0 /\ pc' = "failed"
  BY <1>0, <1>2, <1>3, <1>4, <1>6, NothingLeftNext DEF Sessions!Take, Left
<1>7. QED
  BY <1>0, <1>5, <1>6

\* Writing a part of a reply.
LEMMA Gives == SessionInv /\ WriteFd => Sessions!Give
<1> SUFFICES ASSUME SessionInv, WriteFd PROVE Sessions!Give
  OBVIOUS
<1>1. PICK n \in 1 .. Len(out) - cursor :
        Given' = Given \o SubSeq(out, cursor + 1, cursor + n) /\ cursor' = cursor + n
  BY WriteKeeps
<1>2. pc = "write" /\ state = "WRITING" /\ UNCHANGED <<handed, pc, out>>
  BY DEF WriteFd, SessionInv, Tracks
<1>3. /\ out \in Seq(Parts) /\ Len(out) = ReplySize /\ ReplySize \in Nat
      /\ cursor \in 0 .. ReplySize
  BY <1>2, HandedLength, ReplyType, ConnAssumption DEF SessionInv, Progress
<1>4. Left \in Seq(Parts) /\ Len(Left) = ReplySize - cursor
      /\ \A k \in 1 .. ReplySize - cursor : Left[k] = out[cursor + k]
  BY <1>3, SubSeqProperties DEF Left
<1>5. SubSeq(Left, 1, n) = SubSeq(out, cursor + 1, cursor + n)
  BY <1>1, <1>3, <1>4, SubSeqProperties
<1>6. SubSeq(Left, n + 1, Len(Left)) = Left'
  BY <1>1, <1>2, <1>3, <1>4, SubSeqProperties DEF Left
<1>7. n \in 1 .. Len(Left)
  BY <1>1, <1>3, <1>4
<1>8. QED
  BY <1>1, <1>2, <1>5, <1>6, <1>7 DEF Sessions!Give, Left

\* Every step of the handler is a step of the session, or unseen by it.
LEMMA StepMaps == SessionInv /\ [Next]_vars => [Sessions!Next]_Sessions!vars
<1> SUFFICES ASSUME SessionInv, [Next]_vars PROVE Sessions!Next \/ UNCHANGED Sessions!vars
  OBVIOUS
<1> USE DEF client, machine, Goto
<1>1. CASE Connect \/ Send \/ Leave \/ Interrupted \/ UNCHANGED vars
  <2>1. UNCHANGED <<received, outbox, handed, pc, out, cursor>>
    BY <1>1 DEF Connect, Send, Leave, Interrupted, vars
  <2>2. QED
    BY <2>1, Unseen DEF Given, Left
<1>2. CASE Receive
  <2>1. UNCHANGED <<handed, pc, out, cursor>>
    BY <1>2 DEF Receive
  <2>2. QED
    BY <1>2, <2>1, ReceiveKeeps, Unseen DEF Left
<1>3. CASE UnregisterFd
  <2>1. /\ pc' = "idle" /\ out' = <<>> /\ cursor' = 0
        /\ received' = <<>> /\ outbox' = <<>> /\ handed' = <<>>
    BY <1>3 DEF UnregisterFd, Drop
  <2>2. Left' = <<>> /\ Given' = <<>> /\ Len(handed') = 0 /\ pc' # "failed"
    BY <2>1, NothingLeftNext DEF Given
  <2>3. Sessions!End
    BY <2>2 DEF Sessions!End, Left
  <2>4. QED
    BY <2>3 DEF Sessions!Next
<1>4. CASE HandleFd
  <2>1. Quiet /\ pc = "idle" /\ pc' \in {"start", "read", "write"}
    BY <1>4 DEF HandleFd, Quiet
  <2>2. UNCHANGED <<out, cursor>>
    BY <1>4 DEF HandleFd, Reinit, SessionInv, Progress
  <2>3. QED
    BY <2>1, <2>2, Unseen DEF Quiet, Given, Left
<1>5. CASE StartRead \/ StartNothing
  <2>1. /\ pc = "start" /\ Quiet
        /\ \/ pc' = "failed" /\ out' = <<>> /\ cursor' = 0
           \/ pc' # "failed" /\ UNCHANGED <<out, cursor>>
    BY <1>5 DEF StartRead, StartNothing, Fail, Reinit, Quiet
  <2>2. CASE pc' = "failed"
    BY <2>1, <2>2, NothingLeftNext, Breaks DEF Sessions!Next
  <2>3. CASE pc' # "failed"
    BY <2>1, <2>3, Unseen DEF Quiet, Given, Left
  <2>4. QED
    BY <2>2, <2>3
<1>6. CASE ReadBody \/ ReadNothing \/ ReadEof \/ ReadEnd
  <2>1. Quiet /\ UNCHANGED <<out, cursor>> /\ pc = "read" /\ pc' \in {"read", "idle", "process"}
    BY <1>6 DEF ReadBody, ReadNothing, ReadEof, ReadEnd, Quiet
  <2>2. QED
    BY <2>1, Unseen DEF Quiet, Given, Left
<1>7. CASE ProcessFd
  BY <1>7, TakesUp DEF Sessions!Next
<1>8. CASE WriteFd
  BY <1>8, Gives DEF Sessions!Next
<1>9. CASE WriteNothing
  <2>1. /\ pc = "write" /\ Quiet
        /\ \/ pc' = "idle" /\ UNCHANGED <<out, cursor>>
           \/ pc' = "failed" /\ out' = <<>> /\ cursor' = 0
    BY <1>9 DEF WriteNothing, Fail, Reinit, Quiet
  <2>2. CASE pc' = "failed"
    BY <2>1, <2>2, NothingLeftNext, Breaks DEF Sessions!Next
  <2>3. CASE pc' # "failed"
    BY <2>1, <2>3, Unseen DEF Quiet, Given, Left
  <2>4. QED
    BY <2>2, <2>3
<1>10. CASE WriteEnd
  <2>1. /\ pc = "write" /\ pc' = "idle" /\ Quiet /\ cursor >= Len(out)
        /\ out' = <<>> /\ cursor' = 0
    BY <1>10 DEF WriteEnd, Reinit, Quiet
  <2>2. /\ cursor \in 0 .. ReplySize /\ Len(out) = ReplySize /\ ReplySize \in Nat
    BY <2>1, HandedLength, ReplyType, ConnAssumption DEF SessionInv, Tracks, Progress
  <2>3. Left = <<>>
    BY <2>1, <2>2, SubSeqEmpty DEF Left
  <2>4. Left' = <<>>
    BY <2>1, NothingLeftNext
  <2>5. QED
    BY <2>1, <2>3, <2>4, Unseen DEF Quiet, Given
<1>11. QED
  BY <1>1, <1>2, <1>3, <1>4, <1>5, <1>6, <1>7, <1>8, <1>9, <1>10 DEF Next, Step

LEMMA InitMaps == Init => Sessions!Init
<1> SUFFICES ASSUME Init PROVE Sessions!Init
  OBVIOUS
<1>1. out = <<>> /\ cursor = 0 /\ received = <<>> /\ outbox = <<>> /\ handed = <<>> /\ pc = "idle"
  BY DEF Init
<1>2. Left = <<>> /\ Given = <<>> /\ Len(handed) = 0
  BY <1>1, NothingLeft DEF Given
<1>3. QED
  BY <1>1, <1>2 DEF Sessions!Init, Left

\* A connection is a session, however the reads and writes of the socket are cut
\* into pieces, fail or are interrupted.
THEOREM SessionRefinement == Spec => ImplementsSession
<1>1. Init => Sessions!Init
  BY InitMaps
<1>2. SessionInv /\ [Next]_vars => [Sessions!Next]_Sessions!vars
  BY StepMaps
<1>3. QED
  BY <1>1, <1>2, SessionInvariant, PTL DEF Spec, ImplementsSession, Sessions!Spec

(***************************************************************************)
(* The bytes of a stream: what is sent of the first n requests is what is  *)
(* sent of the first n - 1, followed by the frame of the n-th.             *)
(***************************************************************************)
LEMMA FlattenIs ==
    ASSUME NEW N \in Nat, NEW S, NEW seqs \in [1 .. N -> Seq(S)], NEW f \in [0 .. N -> Seq(S)],
           f[0] = <<>>, \A n \in 1 .. N : f[n] = f[n - 1] \o seqs[n]
    PROVE  FlattenSeq(seqs) = f[N]
<1>1. seqs \in Seq(Seq(S)) /\ Len(seqs) = N
  BY IsASeq
<1>2. CASE N = 0
  <2>1. seqs = <<>>
    BY <1>1, <1>2, EmptySeq
  <2>2. QED
    BY <1>1, <1>2, <2>1 DEF FlattenSeq
<1>3. CASE N > 0
  <2> DEFINE Flat(g) == g = [i \in 1 .. Len(seqs) |-> IF i = 1 THEN seqs[i] ELSE g[i - 1] \o seqs[i]]
             flatten == CHOOSE g : Flat(g)
             h == [i \in 1 .. N |-> f[i]]
             Agreed == {n \in 0 .. N : n > 0 => flatten[n] = f[n]}
  <2>1. f[1] = seqs[1]
    <3>1. 1 \in 1 .. N /\ 1 - 1 = 0
      BY <1>3
    <3>2. seqs[1] \in Seq(S) /\ f[1] = f[1 - 1] \o seqs[1]
      BY <3>1
    <3>3. QED
      BY <3>1, <3>2, ConcatEmptySeq
  <2>2. h = [i \in 1 .. N |-> IF i = 1 THEN seqs[i] ELSE h[i - 1] \o seqs[i]]
    <3> SUFFICES ASSUME NEW i \in 1 .. N
                 PROVE  f[i] = IF i = 1 THEN seqs[i] ELSE h[i - 1] \o seqs[i]
      OBVIOUS
    <3>1. i # 1 => h[i - 1] = f[i - 1]
      OBVIOUS
    <3>2. QED
      BY <2>1, <3>1
  <2>3. Flat(h)
    BY <1>1, <2>2
  <2>4. Flat(flatten)
    BY <2>3
  <2>5. FlattenSeq(seqs) = flatten[N]
    BY <1>1, <1>3 DEF FlattenSeq
  <2>6. \A i \in 1 .. N : flatten[i] = IF i = 1 THEN seqs[i] ELSE flatten[i - 1] \o seqs[i]
    BY <1>1, <2>4
  <2> HIDE DEF flatten
  <2>7. 0 \in Agreed
    OBVIOUS
  <2>8. ASSUME NEW n \in 1 .. N, n - 1 \in Agreed PROVE n \in Agreed
    <3>1. CASE n = 1
      <4>1. flatten[n] = f[n]
        BY <2>1, <2>6, <3>1
      <4>2. QED
        BY <4>1
    <3>2. CASE n # 1
      <4>1. flatten[n - 1] = f[n - 1]
        BY <2>8, <3>2
      <4>2. flatten[n] = flatten[n - 1] \o seqs[n] /\ f[n] = f[n - 1] \o seqs[n]
        BY <2>6, <3>2
      <4>3. flatten[n] = f[n]
        BY <4>1, <4>2, Zenon
      <4>4. QED
        BY <4>3
    <3>3. QED
      BY <3>1, <3>2
  <2> HIDE DEF Agreed
  <2>9. N \in Agreed
    <3>1. \A n \in 0 .. N : n \in Agreed
      BY <2>7, <2>8, UpTo
    <3>2. QED
      BY <3>1
  <2>10. QED
    BY <1>3, <2>5, <2>9 DEF Agreed
<1>4. QED
  BY <1>2, <1>3

\* Requests on the wire, and scripts of them: that between connections is empty.
Requests == [head : Seq(Byte) \ {<<>>}, body : Seq(Byte)]

LEMMA FrameIs ==
    ASSUME NEW r \in Requests
    PROVE  /\ Frame(r) \in Seq(Byte) /\ Len(Frame(r)) = Len(r.head) + Len(r.body)
           /\ Len(r.head) \in Nat \ {0} /\ Len(r.body) \in Nat
           /\ \A i \in 1 .. Len(Frame(r)) :
                 Frame(r)[i] = IF i <= Len(r.head) THEN r.head[i] ELSE r.body[i - Len(r.head)]
<1>1. r.head \in Seq(Byte) /\ r.head # <<>> /\ r.body \in Seq(Byte)
  BY DEF Requests
<1> DEFINE head == r.head
           body == r.body
<1>2. head \in Seq(Byte) /\ body \in Seq(Byte) /\ Frame(r) = head \o body
  BY <1>1 DEF Frame
<1>3. Len(head) \in Nat \ {0} /\ Len(body) \in Nat
  BY <1>1, EmptySeq, LenProperties
<1> HIDE DEF head, body
<1>4. /\ head \o body \in Seq(Byte) /\ Len(head \o body) = Len(head) + Len(body)
      /\ \A i \in 1 .. Len(head) + Len(body) :
            (head \o body)[i] = IF i <= Len(head) THEN head[i] ELSE body[i - Len(head)]
  BY <1>2, ConcatProperties
<1>5. QED
  BY <1>2, <1>3, <1>4 DEF head, body

LEMMA PrefixIs ==
    ASSUME NEW s \in Seq(Requests), NEW n \in 0 .. Len(s)
    PROVE  /\ SubSeq(s, 1, n) \in Seq(Requests)
           /\ Len(SubSeq(s, 1, n)) = n
           /\ \A i \in 1 .. n : SubSeq(s, 1, n)[i] = s[i]
<1>1. n \in Nat /\ Len(s) \in Nat /\ n <= Len(s)
  BY LenProperties
<1>2. \A i \in 1 .. n : s[i] \in Requests
  BY <1>1, ElementOfSeq
<1>3. n \in Int /\ 1 \in Int /\ n - 1 + 1 = n /\ (IF 1 <= n THEN n - 1 + 1 ELSE 0) = n
      /\ \A i \in 1 .. n : 1 + i - 1 = i
  BY <1>1
<1>4. QED
  BY <1>2, <1>3, SubSeqProperties

LEMMA StreamGrows ==
    ASSUME NEW s \in Seq(Requests)
    PROVE  /\ \A n \in 0 .. Len(s) : Stream(SubSeq(s, 1, n)) \in Seq(Byte)
           /\ Stream(SubSeq(s, 1, 0)) = <<>>
           /\ \A n \in 1 .. Len(s) : Stream(SubSeq(s, 1, n)) = Stream(SubSeq(s, 1, n - 1)) \o Frame(s[n])
           /\ Stream(SubSeq(s, 1, Len(s))) = Stream(s)
<1> DEFINE N == Len(s)
           step == [n \in 1 .. N |-> [x \in Seq(Byte) |-> x \o Frame(s[n])]]
<1>1. N \in Nat /\ \A n \in 1 .. N : Frame(s[n]) \in Seq(Byte)
  BY FrameIs, ElementOfSeq, LenProperties
<1>2. \A n \in 1 .. N : \A x \in Seq(Byte) : step[n][x] \in Seq(Byte)
  BY <1>1, ConcatProperties
<1>3. <<>> \in Seq(Byte)
  OBVIOUS
<1>4. PICK f \in [0 .. N -> Seq(Byte)] :
        f[0] = <<>> /\ \A n \in 1 .. N : f[n] = step[n][f[n - 1]]
  <2>1. Steps(N, Seq(Byte), step)
    BY <1>2 DEF Steps
  <2> HIDE DEF N, step
  <2>2. \E f : Iterated(N, Seq(Byte), <<>>, step, f)
    BY <1>1, <1>3, <2>1, Iterates
  <2>3. QED
    BY <2>2 DEF Iterated
<1>5. \A n \in 1 .. N : f[n] = f[n - 1] \o Frame(s[n])
  <2> SUFFICES ASSUME NEW n \in 1 .. N PROVE f[n] = f[n - 1] \o Frame(s[n])
    OBVIOUS
  <2>1. n - 1 \in 0 .. N
    BY <1>1
  <2>2. f[n - 1] \in Seq(Byte)
    BY <2>1
  <2>3. f[n] = step[n][f[n - 1]]
    BY <1>4
  <2>4. QED
    BY <2>2, <2>3
<1>6. ASSUME NEW n \in 0 .. N PROVE Stream(SubSeq(s, 1, n)) = f[n]
  <2> DEFINE p == SubSeq(s, 1, n)
             frames == [i \in DOMAIN p |-> Frame(p[i])]
             g == [i \in 0 .. n |-> f[i]]
  <2>1. n \in Nat /\ DOMAIN p = 1 .. n /\ \A i \in 1 .. n : p[i] = s[i]
    <3>1. n \in Nat
      BY <1>1
    <3>2. p \in Seq(Requests) /\ Len(p) = n
      BY PrefixIs
    <3>3. \A i \in 1 .. n : p[i] = s[i]
      BY PrefixIs
    <3> HIDE DEF p
    <3>4. QED
      BY <3>1, <3>2, <3>3
  <2> HIDE DEF p
  <2>2. frames \in [1 .. n -> Seq(Byte)] /\ \A i \in 1 .. n : frames[i] = Frame(s[i])
    <3>1. \A i \in 1 .. n : i \in 1 .. N
      BY <1>1, <2>1
    <3>2. \A i \in 1 .. n : Frame(p[i]) = Frame(s[i]) /\ Frame(s[i]) \in Seq(Byte)
      BY <1>1, <2>1, <3>1
    <3>3. QED
      BY <2>1, <3>2
  <2>3. g \in [0 .. n -> Seq(Byte)] /\ g[0] = <<>> /\ g[n] = f[n]
    BY <1>1, <1>4, <2>1
  <2>4. ASSUME NEW i \in 1 .. n PROVE g[i] = g[i - 1] \o frames[i]
    <3>1. i \in 1 .. N /\ i \in 0 .. n /\ i - 1 \in 0 .. n
      BY <1>1, <2>1
    <3>2. QED
      BY <1>5, <2>2, <3>1
  <2> HIDE DEF frames, g
  <2>5. FlattenSeq(frames) = g[n]
    BY <2>1, <2>2, <2>3, <2>4, FlattenIs
  <2>6. QED
    BY <2>3, <2>5 DEF Stream, frames, p
<1>7. SubSeq(s, 1, N) = s
  BY SubSeqFull
<1>8. 0 \in 0 .. N /\ \A n \in 1 .. N : n \in 0 .. N /\ n - 1 \in 0 .. N
  BY <1>1
<1> HIDE DEF N
<1>9. QED
  BY <1>1, <1>4, <1>5, <1>6, <1>7, <1>8 DEF N

LEMMA EndIs ==
    ASSUME NEW s \in Seq(Requests)
    PROVE  /\ Len(s) \in Nat /\ Stream(s) \in Seq(Byte) /\ Len(Stream(s)) = End(s, Len(s))
           /\ \A n \in 0 .. Len(s) : End(s, n) \in Nat
           /\ End(s, 0) = 0
           /\ \A n \in 1 .. Len(s) : End(s, n) = End(s, n - 1) + Len(Frame(s[n]))
<1>1. Len(s) \in Nat /\ Len(s) \in 0 .. Len(s) /\ \A n \in 1 .. Len(s) : n - 1 \in 0 .. Len(s)
  BY LenProperties
<1>2. ASSUME NEW n \in 0 .. Len(s)
      PROVE  Stream(SubSeq(s, 1, n)) \in Seq(Byte) /\ End(s, n) = Len(Stream(SubSeq(s, 1, n)))
             /\ End(s, n) \in Nat
  BY StreamGrows, LenProperties DEF End
<1>3. Stream(s) \in Seq(Byte) /\ Len(Stream(s)) = End(s, Len(s))
  <2>1. Stream(SubSeq(s, 1, Len(s))) = Stream(s)
    BY StreamGrows
  <2>2. QED
    BY <1>1, <1>2, <2>1
<1>4. End(s, 0) = 0
  <2>1. Stream(SubSeq(s, 1, 0)) = <<>>
    BY StreamGrows
  <2>2. Len(Stream(SubSeq(s, 1, 0))) = 0
    BY <2>1
  <2>3. QED
    BY <2>2 DEF End
<1>5. ASSUME NEW n \in 1 .. Len(s) PROVE End(s, n) = End(s, n - 1) + Len(Frame(s[n]))
  <2> DEFINE a == Stream(SubSeq(s, 1, n - 1))
             b == Frame(s[n])
  <2>1. Stream(SubSeq(s, 1, n)) = a \o b
    BY StreamGrows
  <2>2. a \in Seq(Byte) /\ End(s, n - 1) = Len(a)
    BY <1>1, <1>2
  <2>3. b \in Seq(Byte)
    BY FrameIs, ElementOfSeq
  <2>4. End(s, n) = Len(a \o b)
    BY <2>1 DEF End
  <2> HIDE DEF a, b
  <2>5. Len(a \o b) = Len(a) + Len(b)
    BY <2>2, <2>3, ConcatProperties
  <2>6. QED
    BY <2>2, <2>4, <2>5 DEF b
<1>6. QED
  BY <1>1, <1>2, <1>3, <1>4, <1>5

LEMMA EndsAscend ==
    ASSUME NEW s \in Seq(Requests), NEW n \in 0 .. Len(s), NEW m \in 0 .. n
    PROVE  End(s, m) <= End(s, n)
<1> DEFINE S == {k \in 0 .. Len(s) : m <= k => End(s, m) <= End(s, k)}
<1>1. Len(s) \in Nat /\ m \in 0 .. Len(s) /\ m <= n
  BY EndIs
<1>2. \A k \in 0 .. Len(s) : End(s, k) \in Nat
  BY EndIs
<1>3. 0 \in S
  BY <1>1, <1>2
<1>4. ASSUME NEW k \in 1 .. Len(s), k - 1 \in S PROVE k \in S
  <2>1. End(s, k) = End(s, k - 1) + Len(Frame(s[k])) /\ k \in 0 .. Len(s) /\ k - 1 \in 0 .. Len(s)
    BY <1>1, EndIs
  <2>2. Len(Frame(s[k])) \in Nat
    BY FrameIs, ElementOfSeq, LenProperties
  <2>3. m <= k - 1 => End(s, m) <= End(s, k - 1)
    BY <1>4
  <2>4. CASE m <= k - 1
    BY <1>1, <1>2, <2>1, <2>2, <2>3, <2>4
  <2>5. CASE m = k
    BY <1>1, <1>2, <2>5
  <2>6. CASE ~ (m <= k)
    BY <2>1, <2>6
  <2>7. QED
    BY <1>1, <2>4, <2>5, <2>6
<1> HIDE DEF S
<1>5. \A k \in 0 .. Len(s) : k \in S
  BY <1>1, <1>3, <1>4, UpTo
<1>6. QED
  BY <1>1, <1>5 DEF S

\* A frame stays where it is in the stream, whatever follows.
LEMMA BytesAt ==
    ASSUME NEW s \in Seq(Requests), NEW n \in 1 .. Len(s), NEW i \in 1 .. Len(Frame(s[n]))
    PROVE  Stream(s)[End(s, n - 1) + i] = Frame(s[n])[i]
<1> DEFINE part(k) == Stream(SubSeq(s, 1, k))
           at == End(s, n - 1) + i
           S == {k \in 0 .. Len(s) : n <= k => part(k)[at] = Frame(s[n])[i]}
<1>1. Len(s) \in Nat /\ \A k \in 0 .. Len(s) : End(s, k) \in Nat
  BY EndIs
<1>2. /\ \A k \in 0 .. Len(s) : part(k) \in Seq(Byte) /\ Len(part(k)) = End(s, k)
      /\ \A k \in 1 .. Len(s) : part(k) = part(k - 1) \o Frame(s[k])
  BY StreamGrows DEF End
<1>3. \A k \in 1 .. Len(s) : Frame(s[k]) \in Seq(Byte) /\ Len(Frame(s[k])) \in Nat
  BY FrameIs, ElementOfSeq, LenProperties
<1>4. at \in Nat /\ at > End(s, n - 1) /\ at <= End(s, n) /\ n - 1 \in 0 .. Len(s) /\ n \in 0 .. Len(s)
  <2> DEFINE start == End(s, n - 1)
             size  == Len(Frame(s[n]))
  <2>1. n - 1 \in 0 .. Len(s) /\ n \in 0 .. Len(s)
    BY <1>1
  <2>2. start \in Nat /\ size \in Nat /\ i \in 1 .. size
    BY <1>1, <1>3, <2>1
  <2>3. End(s, n) = start + size /\ at = start + i
    BY EndIs
  <2> HIDE DEF start, size, at
  <2>4. at \in Nat /\ at > start /\ at <= End(s, n)
    BY <2>2, <2>3
  <2>5. QED
    BY <2>1, <2>4 DEF start
<1> HIDE DEF part
<1>5. ASSUME NEW k \in 1 .. Len(s)
      PROVE  \A x \in 1 .. End(s, k - 1) + Len(Frame(s[k])) :
                part(k)[x] = IF x <= End(s, k - 1) THEN part(k - 1)[x] ELSE Frame(s[k])[x - End(s, k - 1)]
  <2>1. k - 1 \in 0 .. Len(s)
    BY <1>1
  <2>2. part(k - 1) \in Seq(Byte) /\ Len(part(k - 1)) = End(s, k - 1)
        /\ Frame(s[k]) \in Seq(Byte) /\ part(k) = part(k - 1) \o Frame(s[k])
    BY <1>2, <1>3, <2>1
  <2>3. QED
    BY <2>2, ConcatProperties
<1>6. 0 \in S
  BY <1>1
<1>7. ASSUME NEW k \in 1 .. Len(s), k - 1 \in S PROVE k \in S
  <2>1. CASE k = n
    <3>1. at \in 1 .. End(s, n - 1) + Len(Frame(s[n])) /\ ~ (at <= End(s, n - 1))
      <4>1. End(s, n - 1) \in Nat /\ Len(Frame(s[n])) \in Nat
        BY <1>1, <1>3, <1>4
      <4>2. QED
        BY <4>1
    <3>4. part(n)[at] = Frame(s[n])[at - End(s, n - 1)]
      BY <1>5, <3>1
    <3>2. at - End(s, n - 1) = i
      BY <1>1, <1>4
    <3>3. QED
      BY <1>4, <2>1, <3>2, <3>4
  <2>2. CASE n <= k - 1
    <3>1. part(k - 1)[at] = Frame(s[n])[i]
      BY <1>7, <2>2
    <3>2. k - 1 \in 0 .. Len(s) /\ n \in 0 .. k - 1 /\ k \in 0 .. Len(s)
      BY <1>1, <2>2
    <3>3. at <= End(s, k - 1)
      <4>1. End(s, n) <= End(s, k - 1)
        BY <3>2, EndsAscend
      <4>2. QED
        BY <1>1, <1>4, <3>2, <4>1
    <3>4. at \in 1 .. End(s, k - 1) + Len(Frame(s[k]))
      <4>1. End(s, k - 1) \in Nat /\ Len(Frame(s[k])) \in Nat
        BY <1>1, <1>3, <3>2
      <4>3. at \in Nat /\ at > 0
        BY <1>1, <1>4
      <4>2. QED
        BY <3>3, <4>1, <4>3
    <3>5. part(k)[at] = part(k - 1)[at]
      BY <1>5, <3>3, <3>4
    <3>6. QED
      BY <3>1, <3>2, <3>5
  <2>3. CASE k < n
    BY <1>1, <2>3
  <2>4. QED
    BY <1>1, <2>1, <2>2, <2>3
<1> HIDE DEF S, at
<1>8. \A k \in 0 .. Len(s) : k \in S
  BY <1>1, <1>6, <1>7, UpTo
<1>9. part(Len(s))[at] = Frame(s[n])[i]
  BY <1>1, <1>8 DEF S
<1>10. part(Len(s)) = Stream(s)
  BY StreamGrows DEF part
<1>11. QED
  BY <1>9, <1>10 DEF at

\* The requests complete at m are found among those of the script.
LEMMA CompleteIs ==
    ASSUME script \in Seq(Requests), NEW m \in Nat
    PROVE  CompleteAt(m) \in 0 .. Len(script) /\ End(script, CompleteAt(m)) <= m
<1> DEFINE L == Len(script)
           S == {n \in 0 .. L : End(script, n) <= m}
<1>1. L \in Nat /\ (\A n \in 0 .. L : End(script, n) \in Nat) /\ End(script, 0) = 0
  BY EndIs
<1>2. S \in SUBSET (0 .. L) /\ S # {}
  <2>1. 0 \in S
    BY <1>1
  <2>2. QED
    BY <2>1
<1> HIDE DEF L
<1>3. Max(S) \in S /\ \A i \in S : Max(S) >= i
  BY <1>1, <1>2, MaxExists
<1>4. PICK n \in S : \A i \in S : n >= i
  BY <1>3
<1>5. n \in 0 .. L /\ End(script, n) <= m
  BY <1>4
<1>6. n < L => m < End(script, n + 1)
  <2> SUFFICES ASSUME n < L, ~ (m < End(script, n + 1)) PROVE FALSE
    OBVIOUS
  <2>1. n + 1 \in 0 .. L
    BY <1>1, <1>5
  <2>5. End(script, n + 1) \in Nat
    BY <1>1, <2>1
  <2>2. End(script, n + 1) <= m
    BY <2>5
  <2>3. n + 1 \in S
    BY <2>1, <2>2
  <2>4. n >= n + 1 /\ n \in Nat
    BY <1>1, <1>4, <1>5, <2>3
  <2>6. QED
    BY <2>4
<1>7. \E c \in 0 .. Len(script) : End(script, c) <= m /\ (c < Len(script) => m < End(script, c + 1))
  BY <1>5, <1>6 DEF L
<1>8. QED
  BY <1>7 DEF CompleteAt

\* A number in bytes is a number.
LEMMA NumberType ==
    ASSUME NEW bytes \in Seq(Byte)
    PROVE  Number(bytes) \in Nat
<1> DEFINE N == Len(bytes)
           step == [n \in 1 .. N |-> [x \in Nat |-> x * Base + bytes[n]]]
           Upto(g) == g = [n \in 0 .. Len(bytes) |-> IF n = 0 THEN 0 ELSE g[n - 1] * Base + bytes[n]]
           upto == CHOOSE g : Upto(g)
           Typed == {n \in 0 .. N : upto[n] \in Nat}
<1>1. N \in Nat /\ Base \in Nat /\ \A n \in 1 .. N : bytes[n] \in Nat
  BY ConnAssumption, ElementOfSeq, LenProperties DEF Byte
<1>2. \A n \in 1 .. N : \A x \in Nat : x * Base + bytes[n] \in Nat
  BY <1>1
<1>3. Steps(N, Nat, step)
  BY <1>2 DEF Steps
<1>4. PICK f : Iterated(N, Nat, 0, step, f)
  <2> HIDE DEF N, step
  <2>1. QED
    BY <1>1, <1>3, Iterates
<1>5. \A n \in 1 .. N : f[n] = f[n - 1] * Base + bytes[n]
  <2> SUFFICES ASSUME NEW n \in 1 .. N PROVE f[n] = f[n - 1] * Base + bytes[n]
    OBVIOUS
  <2>1. n - 1 \in 0 .. N
    BY <1>1
  <2>2. f[n - 1] \in Nat /\ f[n] = step[n][f[n - 1]]
    BY <1>4, <2>1 DEF Iterated
  <2>3. QED
    BY <2>2
<1>6. f = [n \in 0 .. N |-> f[n]] /\ f[0] = 0
  BY <1>4 DEF Iterated
<1>7. Upto(f)
  <2>1. \A n \in 0 .. N : f[n] = IF n = 0 THEN 0 ELSE f[n - 1] * Base + bytes[n]
    <3> SUFFICES ASSUME NEW n \in 0 .. N, n # 0 PROVE f[n] = f[n - 1] * Base + bytes[n]
      BY <1>6
    <3>1. n \in 1 .. N
      BY <1>1
    <3>2. QED
      BY <1>5, <3>1
  <2>2. QED
    BY <1>6, <2>1
<1>8. Upto(upto)
  BY <1>7
<1>9. Number(bytes) = upto[N]
  BY DEF Number
<1>10. \A n \in 0 .. N : upto[n] = IF n = 0 THEN 0 ELSE upto[n - 1] * Base + bytes[n]
  BY <1>8
<1> HIDE DEF upto
<1>11. 0 \in Typed
  BY <1>1, <1>10
<1>12. ASSUME NEW n \in 1 .. N, n - 1 \in Typed PROVE n \in Typed
  <2>1. n \in 0 .. N /\ n # 0 /\ upto[n - 1] \in Nat
    BY <1>1, <1>12
  <2>2. upto[n] = upto[n - 1] * Base + bytes[n]
    BY <1>10, <2>1
  <2>3. upto[n] \in Nat
    BY <1>2, <2>1, <2>2
  <2>4. QED
    BY <2>1, <2>3
<1> HIDE DEF Typed, N
<1>13. \A n \in 0 .. N : n \in Typed
  BY <1>1, <1>11, <1>12, UpTo
<1>14. QED
  BY <1>1, <1>9, <1>13 DEF Typed

(***************************************************************************)
(* Types: the socket has no more than was sent, and the machine no more    *)
(* than the socket gave.                                                   *)
(***************************************************************************)
Fresh == script = <<>> /\ sent = 0 /\ taken = 0 /\ handed = <<>> /\ state = "absent" /\ pc = "idle"

\* Between connections there is nothing left of the last one.
TypeInv == TypeOK /\ (peer = "none" => Fresh)

\* The types that do not follow from the place in the call.
Types ==
    /\ peer \in {"open", "closed", "reset", "none"}
    /\ script \in Script \cup {<<>>}
    /\ sent \in 0 .. Len(Stream(script))
    /\ taken \in 0 .. sent
    /\ errno \in {"none", "EINTR", "EAGAIN", "ECONNRESET", "EPIPE"}
    /\ pc \in {"idle", "start", "read", "process", "write", "failed"}
    /\ state \in {"absent", "READY", "READING", "PROCESSING", "WRITING"}
    /\ in = Wrapped \/ in \in Seq(Byte)
    /\ reqlen \in Nat
    /\ Len(outbox) <= SendBuffer
    /\ smooth \in BOOLEAN

LEMMA TypesOfSession == SessionInv => (TypeOK <=> Types)
<1> SUFFICES ASSUME SessionInv PROVE cursor \in 0 .. Len(out) /\ (state = "PROCESSING" <=> pc = "process")
  BY DEF TypeOK, Types
<1>1. state = "PROCESSING" <=> pc = "process"
  BY DEF SessionInv, Tracks
<1>2. CASE state = "WRITING"
  <2>1. Len(handed) \in Nat /\ out = Reply(Len(handed)) /\ cursor \in 0 .. ReplySize
    BY <1>2, HandedLength DEF SessionInv, Progress
  <2>2. QED
    BY <1>1, <2>1, ReplyType
<1>3. CASE state # "WRITING"
  BY <1>1, <1>3 DEF SessionInv, Progress
<1>4. QED
  BY <1>2, <1>3

LEMMA ScriptType == Types => script \in Seq(Requests) /\ Stream(script) \in Seq(Byte)
<1> SUFFICES ASSUME Types PROVE script \in Seq(Requests) /\ Stream(script) \in Seq(Byte)
  OBVIOUS
<1>1. Script \subseteq Seq(Requests)
  BY ConnAssumption DEF Requests
<1>4. <<>> \in Seq(Requests)
  OBVIOUS
<1>2. script \in Seq(Requests)
  BY <1>1, <1>4 DEF Types
<1>3. QED
  BY <1>2, EndIs

\* What a read of n bytes returns.
LEMMA TakenIs ==
    ASSUME Types, NEW n \in Nat, n <= Unread
    PROVE  /\ Taken(n) \in Seq(Byte) /\ Len(Taken(n)) = n
           /\ \A i \in 1 .. n : Taken(n)[i] = Stream(script)[taken + i]
           /\ taken + n \in 0 .. sent
<1> DEFINE S == Stream(script)
<1>1. S \in Seq(Byte) /\ Len(S) \in Nat /\ taken \in Nat /\ sent \in Nat /\ taken + n <= sent /\ sent <= Len(S)
  BY ScriptType, LenProperties DEF Types, Unread
<1> HIDE DEF S
<1>2. \A i \in taken + 1 .. taken + n : S[i] \in Byte
  <2>1. \A i \in taken + 1 .. taken + n : i \in 1 .. Len(S)
    BY <1>1
  <2>2. QED
    BY <1>1, <2>1, ElementOfSeq
<1> DEFINE a == taken + 1
           b == taken + n
<1>3. /\ a \in Int /\ b \in Int /\ b - a + 1 = n /\ (IF a <= b THEN b - a + 1 ELSE 0) = n
      /\ \A i \in 1 .. n : a + i - 1 = taken + i
  BY <1>1
<1> HIDE DEF a, b
<1>4. /\ SubSeq(S, a, b) \in Seq(Byte)
      /\ Len(SubSeq(S, a, b)) = IF a <= b THEN b - a + 1 ELSE 0
      /\ \A i \in 1 .. b - a + 1 : SubSeq(S, a, b)[i] = S[a + i - 1]
  <2>1. \A i \in a .. b : S[i] \in Byte
    BY <1>2 DEF a, b
  <2>2. QED
    BY <1>3, <2>1, SubSeqProperties
<1>5. Taken(n) = SubSeq(S, a, b)
  BY DEF Taken, S, a, b
<1>6. QED
  BY <1>1, <1>3, <1>4, <1>5 DEF S

LEMMA ShrunkType == ASSUME in \in Seq(Byte) PROVE Shrunk(in) = Wrapped \/ Shrunk(in) \in Seq(Byte)
<1>1. CASE in = <<>>
  BY <1>1 DEF Shrunk
<1>2. CASE in # <<>>
  <2>1. Len(in) \in Nat /\ Len(in) - 1 \in Int
    BY LenProperties
  <2>2. \A i \in 1 .. Len(in) - 1 : in[i] \in Byte
    BY <2>1, ElementOfSeq
  <2>3. SubSeq(in, 1, Len(in) - 1) \in Seq(Byte)
    BY <2>1, <2>2, SubSeqProperties
  <2>4. QED
    BY <1>2, <2>3 DEF Shrunk, Front
<1>3. QED
  BY <1>1, <1>2

LEMMA JunkType ==
    ASSUME NEW n \in 1 .. HeaderSize, NEW junk \in [1 .. HeaderSize - n -> Byte]
    PROVE  junk \in Seq(Byte) /\ Len(junk) = HeaderSize - n
<1>1. HeaderSize - n \in Nat
  BY ConnAssumption
<1>2. \A i \in 1 .. HeaderSize - n : junk[i] \in Byte
  OBVIOUS
<1>3. [i \in 1 .. HeaderSize - n |-> junk[i]] \in Seq(Byte)
  BY <1>1, <1>2, IsASeq
<1>4. QED
  BY <1>1, <1>3, LenProperties

\* The first read: HeaderSize bytes, of which n come from the client.
LEMMA HeaderType ==
    ASSUME NEW n \in 1 .. HeaderSize, NEW first \in Seq(Byte), Len(first) = n,
           NEW junk \in [1 .. HeaderSize - n -> Byte], (first \o junk)[1] <= HeaderSize - 1
    PROVE  /\ SubSeq(first \o junk, (first \o junk)[1] + 2, HeaderSize) \in Seq(Byte)
           /\ LengthIn(first \o junk) \in Nat
<1> DEFINE arr == first \o junk
<1>1. HeaderSize \in Nat /\ HeaderSize - n \in Nat
  BY ConnAssumption
<1>2. junk \in Seq(Byte) /\ Len(junk) = HeaderSize - n
  BY JunkType
<1>3. arr \in Seq(Byte) /\ Len(arr) = HeaderSize
  BY <1>1, <1>2, ConcatProperties
<1> HIDE DEF arr
<1>4. \A i \in 1 .. HeaderSize : arr[i] \in Byte /\ arr[i] \in Nat
  <2>1. \A i \in 1 .. HeaderSize : arr[i] \in Byte
    BY <1>3, ElementOfSeq
  <2>2. Byte \subseteq Nat
    BY ConnAssumption DEF Byte
  <2>3. QED
    BY <2>1, <2>2
<1>5. arr[1] \in Nat /\ arr[1] + 1 <= HeaderSize
  BY <1>1, <1>4 DEF arr
<1>6. arr[1] + 2 \in Int /\ arr[1] + 1 \in Int /\ \A i \in arr[1] + 2 .. HeaderSize : arr[i] \in Byte
  BY <1>1, <1>4, <1>5
<1>7. SubSeq(arr, arr[1] + 2, HeaderSize) \in Seq(Byte)
  BY <1>1, <1>6, SubSeqProperties
<1>8. \A i \in 1 .. arr[1] + 1 : arr[i] \in Byte
  BY <1>1, <1>4, <1>5
<1>9. SubSeq(arr, 1, arr[1] + 1) \in Seq(Byte)
  BY <1>6, <1>8, SubSeqProperties
<1>10. QED
  BY <1>7, <1>9, NumberType DEF arr, LengthIn

\* What the client and the end of a connection do to the types.
LEMMA ClientTypes == Types /\ (peer = "none" => Fresh) /\ (Connect \/ Send \/ Leave) => Types' /\ peer' # "none"
<1> SUFFICES ASSUME Types, peer = "none" => Fresh, Connect \/ Send \/ Leave PROVE Types' /\ peer' # "none"
  OBVIOUS
<1> USE DEF client, machine
<1>1. CASE Connect
  <2>1. script' \in Seq(Requests) /\ sent = 0 /\ taken = 0
    BY <1>1, ConnAssumption DEF Connect, Fresh, Requests
  <2>2. Len(Stream(script')) \in Nat
    BY <2>1, EndIs, LenProperties
  <2>3. script' \in Script \cup {<<>>} /\ sent' \in 0 .. Len(Stream(script')) /\ taken' \in 0 .. sent'
    BY <1>1, <2>1, <2>2 DEF Connect
  <2>4. QED
    BY <1>1, <2>3 DEF Connect, Types
<1>2. CASE Send
  <2>1. Len(Stream(script)) \in Nat /\ sent \in Nat /\ taken \in Nat
    BY ScriptType, LenProperties DEF Types
  <2>2. PICK m \in sent + 1 .. Len(Stream(script)) :
            sent' = m /\ smooth' = (smooth /\ m = End(script, CompleteAt(m)))
    BY <1>2 DEF Send
  <2>3. UNCHANGED <<script, taken, peer, errno, pc, state, in, reqlen, outbox>> /\ peer = "open"
    BY <1>2 DEF Send
  <2>4. sent' \in 0 .. Len(Stream(script')) /\ taken' \in 0 .. sent'
    BY <2>1, <2>2, <2>3 DEF Types
  <2>5. smooth' \in BOOLEAN
    BY <2>2
  <2>6. QED
    BY <2>3, <2>4, <2>5 DEF Types
<1>3. CASE Leave
  BY <1>3 DEF Leave, Types
<1>4. QED
  BY <1>1, <1>2, <1>3

LEMMA UnregisterTypes == Types /\ UnregisterFd => Types' /\ Fresh'
<1> SUFFICES ASSUME Types, UnregisterFd PROVE Types' /\ Fresh'
  OBVIOUS
<1>1. Fresh' /\ in' = <<>> /\ reqlen' = 0 /\ outbox' = <<>> /\ smooth' = TRUE /\ peer' = "none" /\ errno' = errno
  BY DEF UnregisterFd, Drop, Fresh
<1>2. <<>> \in Seq(Requests) /\ <<>> \in Seq(Byte) /\ Len(<<>>) = 0
  OBVIOUS
<1>3. Len(Stream(script')) \in Nat
  BY <1>1, <1>2, EndIs, LenProperties DEF Fresh
<1>4. sent' \in 0 .. Len(Stream(script')) /\ taken' \in 0 .. sent' /\ Len(outbox') <= SendBuffer
  BY <1>1, <1>2, <1>3, ConnAssumption DEF Fresh
<1>5. QED
  BY <1>1, <1>2, <1>4 DEF Types, Fresh

\* What a read of the first bytes does to them.
LEMMA StartTypes == Types /\ StartRead => Types'
<1> SUFFICES ASSUME Types, StartRead PROVE Types'
  OBVIOUS
<1> DEFINE n == Least(HeaderSize, Unread)
<1>1. n \in 1 .. HeaderSize /\ n <= Unread /\ taken' = taken + n
      /\ UNCHANGED <<script, sent, peer, errno, outbox, smooth>>
  <2>1. HeaderSize \in Nat /\ Unread \in Int
    BY ConnAssumption DEF Types, Unread
  <2>2. n > 0 /\ taken' = taken + n /\ UNCHANGED <<script, sent, peer, errno, outbox, smooth>>
    BY DEF StartRead, client
  <2>3. QED
    BY <2>1, <2>2 DEF Least
<1>2. Taken(n) \in Seq(Byte) /\ Len(Taken(n)) = n /\ taken' \in 0 .. sent'
  BY <1>1, TakenIs
<1>3. PICK junk \in [1 .. HeaderSize - n -> Byte] :
        IF (Taken(n) \o junk)[1] > HeaderSize - 1
        THEN Fail
        ELSE /\ in' = SubSeq(Taken(n) \o junk, (Taken(n) \o junk)[1] + 2, HeaderSize)
             /\ reqlen' = LengthIn(Taken(n) \o junk)
             /\ state' = "READING" /\ pc' = "read"
  BY DEF StartRead, Goto
<1> HIDE DEF n
<1>4. CASE Fail
  <2>1. pc' = "failed" /\ state' = "READY" /\ in' = <<>> /\ reqlen' = 0
    BY <1>4 DEF Fail, Reinit, Goto
  <2>2. QED
    BY <1>1, <1>2, <2>1 DEF Types
<1>5. CASE ~ Fail
  <2> DEFINE arr == Taken(n) \o junk
  <2>1. arr[1] <= HeaderSize - 1
    <3>1. junk \in Seq(Byte)
      BY <1>1, JunkType
    <3>2. arr[1] = Taken(n)[1] /\ Taken(n)[1] \in Byte
      <4>1. 1 \in 1 .. n /\ n \in Nat
        BY <1>1
      <4>2. Taken(n)[1] \in Byte
        BY <1>2, <4>1, ElementOfSeq
      <4>3. 1 \in 1 .. Len(Taken(n)) + Len(junk) /\ 1 <= Len(Taken(n))
        BY <1>2, <3>1, <4>1, LenProperties
      <4>4. QED
        BY <1>2, <3>1, <4>2, <4>3, ConcatProperties
    <3>3. ~ (arr[1] > HeaderSize - 1)
      BY <1>3, <1>5
    <3>4. arr[1] \in Int /\ HeaderSize - 1 \in Int
      BY <3>2, ConnAssumption DEF Byte
    <3> HIDE DEF arr
    <3>5. QED
      BY <3>3, <3>4
  <2>2. /\ in' = SubSeq(arr, arr[1] + 2, HeaderSize) /\ reqlen' = LengthIn(arr)
        /\ state' = "READING" /\ pc' = "read"
    BY <1>3, <1>5
  <2>3. in' \in Seq(Byte) /\ reqlen' \in Nat
    BY <1>1, <1>2, <2>1, <2>2, HeaderType
  <2>4. QED
    BY <1>1, <1>2, <2>2, <2>3 DEF Types
<1>6. QED
  BY <1>4, <1>5

LEMMA ReadTypes == Types /\ (ReadBody \/ ReadNothing) => Types'
<1> SUFFICES ASSUME Types, ReadBody \/ ReadNothing PROVE Types'
  OBVIOUS
<1>1. in \in Seq(Byte) /\ in # Wrapped
  BY DEF ReadBody, ReadNothing, Incomplete, Types
<1>2. CASE ReadBody
  <2> DEFINE n == Least(Unread, Least(reqlen - Len(in), Increment))
  <2>1. n \in Nat /\ n <= Unread
    <3>1. Len(in) \in Nat /\ reqlen \in Nat /\ Unread \in Int /\ Increment \in Nat
      BY <1>1, LenProperties, ConnAssumption DEF Types, Unread
    <3>2. n > 0
      BY <1>2 DEF ReadBody
    <3>3. QED
      BY <3>1, <3>2 DEF Least
  <2>2. in' = in \o Taken(n) /\ taken' = taken + n
        /\ UNCHANGED <<script, sent, peer, errno, pc, state, reqlen, outbox, smooth>>
    BY <1>2 DEF ReadBody, client
  <2> HIDE DEF n
  <2>3. Taken(n) \in Seq(Byte) /\ taken' \in 0 .. sent'
    BY <2>1, <2>2, TakenIs
  <2>4. in' \in Seq(Byte)
    BY <1>1, <2>2, <2>3, ConcatProperties
  <2>5. QED
    BY <2>2, <2>3, <2>4 DEF Types
<1>3. CASE ReadNothing
  <2>1. in' = Shrunk(in) /\ errno' \in {"EAGAIN", "ECONNRESET"}
        /\ UNCHANGED <<script, sent, taken, peer, pc, state, reqlen, outbox, smooth>>
    BY <1>3 DEF ReadNothing, client
  <2>2. in' = Wrapped \/ in' \in Seq(Byte)
    BY <1>1, <2>1, ShrunkType
  <2>3. QED
    BY <2>1, <2>2 DEF Types
<1>4. QED
  BY <1>2, <1>3

LEMMA KeptTypes ==
    ASSUME Types, UNCHANGED <<script, sent, peer, taken, outbox, smooth>>,
           errno' \in {errno, "EINTR", "EAGAIN", "ECONNRESET", "EPIPE"},
           pc' \in {"idle", "start", "read", "process", "write", "failed"},
           state' \in {"absent", "READY", "READING", "PROCESSING", "WRITING"},
           (in' = in /\ reqlen' = reqlen) \/ (in' = <<>> /\ reqlen' = 0)
    PROVE  Types'
<1>1. in' = Wrapped \/ in' \in Seq(Byte)
  <2>1. in = Wrapped \/ in \in Seq(Byte)
    BY DEF Types
  <2>2. in' = in \/ in' = <<>>
    OBVIOUS
  <2>3. <<>> \in Seq(Byte)
    OBVIOUS
  <2>4. QED
    BY <2>1, <2>2, <2>3, Zenon
<1>2. reqlen' \in Nat
  BY DEF Types
<1>3. errno' \in {"none", "EINTR", "EAGAIN", "ECONNRESET", "EPIPE"}
  BY DEF Types
<1>4. QED
  BY <1>1, <1>2, <1>3 DEF Types

\* The other steps take nothing from the socket; a call is made of a descriptor that
\* is registered.
LEMMA CallTypes ==
    ASSUME Types, SessionInv,
           Receive \/ HandleFd \/ StartNothing \/ ReadEof \/ ReadEnd \/ ProcessFd \/ WriteFd
           \/ WriteNothing \/ WriteEnd \/ Interrupted
    PROVE  Types'
<1> USE DEF client, machine, Goto
<1>0. <<>> \in Seq(Byte) /\ Len(<<>>) = 0 /\ SendBuffer \in Nat
  BY ConnAssumption
<1>1. CASE Receive
  BY <1>0, <1>1 DEF Receive, Types
<1>2. CASE HandleFd
  BY <1>2, KeptTypes DEF HandleFd, Reinit, Types
<1>3. CASE StartNothing
  <2>1. UNCHANGED <<script, sent, peer, taken, outbox, smooth>> /\ pc = "start"
    BY <1>3 DEF StartNothing
  <2>2. errno' \in {"EAGAIN", "ECONNRESET", errno}
    BY <1>3 DEF StartNothing
  <2>3. \/ pc' \in {pc, "idle"} /\ UNCHANGED <<state, in, reqlen>>
        \/ pc' = "failed" /\ state' = "READY" /\ in' = <<>> /\ reqlen' = 0
    BY <1>3 DEF StartNothing, Fail, Reinit
  <2>4. QED
    BY <2>1, <2>2, <2>3, KeptTypes DEF Types
<1>4. CASE ReadEof
  BY <1>4 DEF ReadEof, Types
<1>5. CASE ReadEnd
  BY <1>5 DEF ReadEnd, Types
<1>6. CASE ProcessFd
  BY <1>6, KeptTypes DEF ProcessFd, Fail, Reinit, Types
<1>7. CASE WriteFd
  <2>1. PICK n \in 1 .. Least(Len(out) - cursor, SendBuffer - Len(outbox)) :
            outbox' = outbox \o SubSeq(out, cursor + 1, cursor + n)
    BY <1>7 DEF WriteFd
  <2>2. /\ state = "WRITING"
        /\ UNCHANGED <<script, sent, peer, taken, errno, pc, state, in, reqlen, smooth>>
    BY <1>7 DEF WriteFd, SessionInv, Tracks
  <2>3. Len(handed) \in Nat /\ out = Reply(Len(handed)) /\ cursor \in 0 .. ReplySize /\ outbox \in Seq(Parts)
    BY <2>2, HandedLength DEF SessionInv, Progress, Sequential
  <2>4. out \in Seq(Parts) /\ Len(out) = ReplySize /\ ReplySize \in Nat /\ Len(outbox) \in Nat
    BY <2>3, ReplyType, ConnAssumption, LenProperties
  <2>5. n \in 1 .. Len(out) - cursor /\ n <= SendBuffer - Len(outbox)
    BY <1>0, <2>1, <2>3, <2>4 DEF Least
  <2> DEFINE a == cursor + 1
             b == cursor + n
             piece == SubSeq(out, a, b)
  <2>6. a \in Int /\ b \in Int /\ (IF a <= b THEN b - a + 1 ELSE 0) = n
        /\ \A i \in a .. b : i \in 1 .. Len(out)
    BY <2>3, <2>4, <2>5
  <2>7. \A i \in a .. b : out[i] \in Parts
    BY <2>4, <2>6, ElementOfSeq
  <2>8. outbox' = outbox \o piece
    BY <2>1
  <2> HIDE DEF a, b
  <2>9. piece \in Seq(Parts) /\ Len(piece) = n
    BY <2>6, <2>7, SubSeqProperties
  <2> HIDE DEF piece
  <2>10. Len(outbox') = Len(outbox) + n
    BY <2>3, <2>8, <2>9, ConcatProperties
  <2>11. Len(outbox') <= SendBuffer
    BY <1>0, <2>4, <2>5, <2>10
  <2>12. QED
    BY <2>2, <2>11 DEF Types
<1>8. CASE WriteNothing
  BY <1>8, KeptTypes DEF WriteNothing, Fail, Reinit, Types
<1>9. CASE WriteEnd
  BY <1>0, <1>9 DEF WriteEnd, Reinit, Types
<1>10. CASE Interrupted
  <2>1. UNCHANGED <<script, sent, peer, taken, outbox, pc, state, reqlen>>
        /\ errno' = "EINTR" /\ smooth' = FALSE
    BY <1>10 DEF Interrupted
  <2>2. in' = in \/ (in \in Seq(Byte) /\ in' = Shrunk(in))
    BY <1>10 DEF Interrupted, Incomplete, Types
  <2>3. in' = Wrapped \/ in' \in Seq(Byte)
    BY <2>2, ShrunkType DEF Types
  <2>4. QED
    BY <2>1, <2>3 DEF Types
<1>11. QED
  BY <1>1, <1>2, <1>3, <1>4, <1>5, <1>6, <1>7, <1>8, <1>9, <1>10

LEMMA TypeInit == Init => TypeInv
<1> SUFFICES ASSUME Init PROVE TypeInv
  OBVIOUS
<1>1. <<>> \in Seq(Requests) /\ <<>> \in Seq(Byte) /\ Len(<<>>) = 0
  OBVIOUS
<1>2. Len(Stream(<<>>)) \in Nat
  BY <1>1, EndIs, LenProperties
<1>3. sent \in 0 .. Len(Stream(script)) /\ taken \in 0 .. sent
  BY <1>2 DEF Init
<1>4. Types
  BY <1>1, <1>3, ConnAssumption DEF Init, Types
<1>5. Fresh
  BY DEF Init, Fresh
<1>6. QED
  BY <1>4, <1>5, SessionInit, TypesOfSession DEF TypeInv

LEMMA TypeStep == SessionInv /\ TypeInv /\ [Next]_vars => TypeInv'
<1> SUFFICES ASSUME SessionInv, TypeInv, [Next]_vars PROVE TypeInv'
  OBVIOUS
<1>1. Types /\ (peer = "none" => Fresh)
  BY TypesOfSession DEF TypeInv
<1>2. SessionInv'
  BY SessionStep
<1>3. TypeOK' <=> Types'
  <2>1. (SessionInv => (TypeOK <=> Types))'
    BY TypesOfSession, PTL
  <2>2. QED
    BY <1>2, <2>1
<1>4. Types' /\ (peer' = "none" => Fresh')
  <2>1. CASE Connect \/ Send \/ Leave
    BY <1>1, <2>1, ClientTypes
  <2>2. CASE UnregisterFd
    BY <1>1, <2>2, UnregisterTypes
  <2>3. CASE StartRead \/ ReadBody \/ ReadNothing
    <3>1. Types'
      BY <1>1, <2>3, StartTypes, ReadTypes
    <3>2. UNCHANGED peer /\ pc # "idle"
      BY <2>3 DEF StartRead, ReadBody, ReadNothing
    <3>3. QED
      BY <1>1, <3>1, <3>2 DEF Fresh
  <2>4. CASE \/ Receive \/ HandleFd \/ StartNothing \/ ReadEof \/ ReadEnd \/ ProcessFd \/ WriteFd
             \/ WriteNothing \/ WriteEnd \/ Interrupted
    <3>1. Types'
      BY <1>1, <2>4, CallTypes
    <3>2. UNCHANGED peer /\ (pc # "idle" \/ peer # "none")
      BY <2>4 DEF Receive, HandleFd, StartNothing, ReadEof, ReadEnd, ProcessFd, WriteFd, WriteNothing,
                  WriteEnd, Interrupted
    <3>3. QED
      BY <1>1, <3>1, <3>2 DEF Fresh
  <2>5. CASE UNCHANGED vars
    BY <1>1, <2>5 DEF Types, Fresh, vars, client, machine
  <2>6. QED
    BY <2>1, <2>2, <2>3, <2>4, <2>5 DEF Next, Step
<1>5. QED
  BY <1>3, <1>4 DEF TypeInv

\* Every variable keeps its type: the server reads nothing that was not sent, and
\* does not write more than the socket holds.
THEOREM ConnTyped == Spec => []TypeOK
<1>1. Init => SessionInv /\ TypeInv
  BY SessionInit, TypeInit
<1>2. SessionInv /\ TypeInv /\ [Next]_vars => SessionInv' /\ TypeInv'
  BY SessionStep, TypeStep
<1>3. TypeInv => TypeOK
  BY DEF TypeInv
<1>4. QED
  BY <1>1, <1>2, <1>3, PTL DEF Spec

(***************************************************************************)
(* What the server hands over is what was sent: it stands at the end of a  *)
(* request, within one, or at the end of one that it has not handed over.  *)
(***************************************************************************)
Between == taken = End(script, Len(handed))

\* b bytes of the body have been read, all that the machine waits for if these are all.
Within(r) == \E b \in 0 .. Len(r.body) :
    /\ taken = End(script, Len(handed)) + Len(r.head) + b
    /\ in = SubSeq(r.body, 1, b)
    /\ reqlen <= Len(r.body)
    /\ b < Len(r.body) => reqlen = Len(r.body)

Whole(r) == in = r.body /\ taken = End(script, Len(handed) + 1)

\* The next request is there.
Begun == Len(handed) < Len(script) /\ End(script, Len(handed) + 1) <= sent

Place ==
    \/ pc = "failed"
    \/ state \in {"absent", "READY", "WRITING"} /\ Between
    \/ state = "READING" /\ Begun /\ Within(script[Len(handed) + 1])
    \/ state = "PROCESSING" /\ Begun /\ Whole(script[Len(handed) + 1])

HandedIs == Len(handed) <= Len(script) /\ \A i \in DOMAIN handed : handed[i] = script[i].body

Regular == smooth /\ peer \in {"open", "closed"}

WholeInv == Regular => (\E c \in 0 .. Len(script) : sent = End(script, c)) /\ HandedIs /\ Place

LEMMA PlaceKept ==
    ASSUME Place, UNCHANGED <<script, taken, handed>>, sent' >= sent, sent \in Nat, sent' \in Nat,
           Begun => End(script, Len(handed) + 1) \in Nat,
           \/ UNCHANGED <<state, in, reqlen>> /\ (pc = "failed" => pc' = "failed")
           \/ pc' = "failed"
           \/ {state, state'} \subseteq {"absent", "READY", "WRITING"} /\ pc # "failed"
    PROVE  Place'
<1>1. Begun => Begun'
  BY DEF Begun
<1>2. Between => Between'
  BY DEF Between
<1>3. CASE pc' = "failed"
  BY <1>3 DEF Place
<1>4. CASE UNCHANGED <<state, in, reqlen>> /\ pc # "failed"
  BY <1>1, <1>2, <1>4 DEF Place, Within, Whole
<1>5. CASE {state, state'} \subseteq {"absent", "READY", "WRITING"} /\ pc # "failed"
  BY <1>2, <1>5 DEF Place
<1>6. QED
  BY <1>3, <1>4, <1>5

\* Where the requests of a script are, and that what the server lacks of one is there.
LEMMA NextRequest ==
    ASSUME Types, Begun, Len(handed) \in Nat
    PROVE  LET r == script[Len(handed) + 1]
               e == End(script, Len(handed))
           IN  /\ r \in Requests /\ e \in Nat
               /\ End(script, Len(handed) + 1) = e + Len(r.head) + Len(r.body)
               /\ e + Len(r.head) + Len(r.body) <= sent
               /\ Len(r.head) \in Nat \ {0} /\ Len(r.body) \in Nat
               /\ \A i \in 1 .. Len(r.head) + Len(r.body) :
                    Stream(script)[e + i] = IF i <= Len(r.head) THEN r.head[i] ELSE r.body[i - Len(r.head)]
<1> DEFINE k == Len(handed) + 1
           r == script[k]
           e == End(script, Len(handed))
<1>1. script \in Seq(Requests) /\ Len(script) \in Nat
  BY ScriptType, LenProperties
<1>2. k \in 1 .. Len(script) /\ k - 1 = Len(handed) /\ k - 1 \in 0 .. Len(script)
  BY <1>1 DEF Begun
<1> HIDE DEF k
<1>3. r \in Requests
  BY <1>1, <1>2, ElementOfSeq
<1>4. /\ Len(Frame(r)) = Len(r.head) + Len(r.body)
      /\ Len(r.head) \in Nat \ {0} /\ Len(r.body) \in Nat
      /\ \A i \in 1 .. Len(Frame(r)) :
            Frame(r)[i] = IF i <= Len(r.head) THEN r.head[i] ELSE r.body[i - Len(r.head)]
  BY <1>3, FrameIs
<1>5. End(script, k - 1) \in Nat /\ End(script, k) = End(script, k - 1) + Len(Frame(r))
  BY <1>1, <1>2, EndIs
<1>6. End(script, k) <= sent
  BY DEF Begun, k
<1>7. \A i \in 1 .. Len(Frame(r)) : Stream(script)[End(script, k - 1) + i] = Frame(r)[i]
  BY <1>1, <1>2, BytesAt
<1>8. e = End(script, k - 1)
  BY <1>2
<1> HIDE DEF r, e
<1>9. \A i \in 1 .. Len(r.head) + Len(r.body) :
        Stream(script)[e + i] = IF i <= Len(r.head) THEN r.head[i] ELSE r.body[i - Len(r.head)]
  BY <1>4, <1>7, <1>8
<1>10. End(script, k) = e + Len(r.head) + Len(r.body) /\ e \in Nat
  <2> DEFINE h == Len(r.head)
             b == Len(r.body)
             f == Len(Frame(r))
             x == End(script, k)
  <2>1. f = h + b /\ h \in Nat /\ b \in Nat
    BY <1>4
  <2>2. x = e + f /\ e \in Nat
    BY <1>5, <1>8
  <2> HIDE DEF h, b, f, x
  <2>3. x = e + h + b /\ e \in Nat
    BY <2>1, <2>2
  <2>4. QED
    BY <2>3 DEF h, b, x
<1>11. QED
  BY <1>3, <1>4, <1>6, <1>9, <1>10 DEF r, e, k

LEMMA MoreComes ==
    ASSUME Types, NEW c \in 0 .. Len(script), sent = End(script, c), Len(handed) \in Nat,
           Len(handed) <= Len(script), Between, Unread > 0
    PROVE  Begun
<1> DEFINE j == Len(handed)
<1>1. script \in Seq(Requests) /\ Len(script) \in Nat /\ \A n \in 0 .. Len(script) : End(script, n) \in Nat
  BY ScriptType, EndIs
<1>2. j \in 0 .. Len(script) /\ c \in Nat
  BY <1>1
<1>3. j < c
  <2> SUFFICES ASSUME ~ (j < c) PROVE FALSE
    OBVIOUS
  <2>1. c \in 0 .. j
    BY <1>2
  <2>2. End(script, c) <= End(script, j)
    BY <1>1, <1>2, <2>1, EndsAscend
  <2>3. sent <= taken /\ sent \in Int /\ taken \in Int
    BY <1>1, <1>2, <2>2 DEF Between
  <2>4. QED
    BY <2>3 DEF Unread
<1>4. j + 1 \in 0 .. c /\ j < Len(script)
  BY <1>1, <1>2, <1>3
<1>5. End(script, j + 1) <= End(script, c)
  BY <1>1, <1>4, EndsAscend
<1>6. QED
  BY <1>4, <1>5 DEF Begun

\* Two prefixes of the bytes read, cut where the head ends.
LEMMA Cut ==
    ASSUME NEW arr \in Seq(Byte), NEW head \in Seq(Byte), NEW body \in Seq(Byte), NEW h \in Nat, NEW m \in Nat,
           h = Len(head), h <= m, m <= Len(arr), m - h <= Len(body),
           \A i \in 1 .. m : arr[i] = IF i <= h THEN head[i] ELSE body[i - h]
    PROVE  SubSeq(arr, 1, h) = head /\ SubSeq(arr, h + 1, m) = SubSeq(body, 1, m - h)
<1>1. Len(arr) \in Nat /\ Len(body) \in Nat /\ \A i \in 1 .. Len(arr) : arr[i] \in Byte
  BY LenProperties, ElementOfSeq
<1>2. SubSeq(arr, 1, h) = head
  <2>1. \A i \in 1 .. h : i \in 1 .. Len(arr)
    BY <1>1
  <2>2. \A i \in 1 .. h : arr[i] \in Byte
    BY <1>1, <2>1
  <2>3. 1 \in Int /\ h \in Int /\ h - 1 + 1 = h /\ (IF 1 <= h THEN h - 1 + 1 ELSE 0) = h
        /\ \A i \in 1 .. h : 1 + i - 1 = i
    OBVIOUS
  <2>4. /\ SubSeq(arr, 1, h) \in Seq(Byte) /\ Len(SubSeq(arr, 1, h)) = h
        /\ \A i \in 1 .. h : SubSeq(arr, 1, h)[i] = arr[i]
    BY <2>2, <2>3, SubSeqProperties
  <2>5. \A i \in 1 .. h : arr[i] = head[i]
    OBVIOUS
  <2>6. QED
    BY <2>4, <2>5, SeqEqual
<1>3. SubSeq(arr, h + 1, m) = SubSeq(body, 1, m - h)
  <2> DEFINE a == h + 1
             b == m - h
             x == SubSeq(arr, a, m)
             y == SubSeq(body, 1, b)
  <2>1. a \in Int /\ m \in Int /\ b \in Nat /\ b <= Len(body) /\ m - a + 1 = b
        /\ (IF a <= m THEN m - a + 1 ELSE 0) = b
        /\ \A i \in 1 .. b : a + i - 1 = h + i /\ h + i \in 1 .. m /\ ~ (h + i <= h) /\ h + i - h = i
    BY <1>1
  <2>2. \A i \in a .. m : arr[i] \in Byte
    <3>1. \A i \in a .. m : i \in 1 .. Len(arr)
      BY <1>1
    <3>2. QED
      BY <1>1, <3>1
  <2>3. \A i \in 1 .. b : body[i] \in Byte
    <3>1. \A i \in 1 .. b : i \in 1 .. Len(body)
      BY <1>1
    <3>2. QED
      BY <3>1, ElementOfSeq
  <2>4. 1 \in Int /\ b \in Int /\ b - 1 + 1 = b /\ (IF 1 <= b THEN b - 1 + 1 ELSE 0) = b
        /\ \A i \in 1 .. b : 1 + i - 1 = i
    BY <2>1
  <2>5. \A i \in 1 .. b : arr[h + i] = body[i]
    BY <2>1
  <2> HIDE DEF a, b
  <2>6. x \in Seq(Byte) /\ Len(x) = b /\ \A i \in 1 .. b : x[i] = arr[h + i]
    <3>1. /\ x \in Seq(Byte) /\ Len(x) = IF a <= m THEN m - a + 1 ELSE 0
          /\ \A i \in 1 .. m - a + 1 : x[i] = arr[a + i - 1]
      <4>1. a \in Int /\ m \in Int
        BY <2>1
      <4>2. QED
        BY <2>2, <4>1, SubSeqProperties
    <3> HIDE DEF x
    <3>2. QED
      BY <2>1, <3>1
  <2>7. y \in Seq(Byte) /\ Len(y) = b /\ \A i \in 1 .. b : y[i] = body[i]
    BY <2>3, <2>4, SubSeqProperties
  <2> HIDE DEF x, y
  <2>8. x = y
    <3>1. Len(x) = Len(y) /\ \A i \in 1 .. Len(x) : x[i] = y[i]
      BY <2>5, <2>6, <2>7
    <3>2. QED
      BY <2>6, <2>7, <3>1, SeqEqual
  <2>9. QED
    BY <2>8 DEF x, y, a, b
<1>4. QED
  BY <1>2, <1>3

\* The first read of a measured request that is there takes its head, and what it
\* takes beyond it is of its body.
LEMMA StartWhole ==
    ASSUME Types, Between, Begun, Len(handed) \in Nat, Measured(script[Len(handed) + 1]), StartRead
    PROVE  pc' = "failed" \/ (state' = "READING" /\ Begun' /\ Within(script[Len(handed) + 1])')
<1> DEFINE r == script[Len(handed) + 1]
           e == End(script, Len(handed))
           h == Len(r.head)
           b == Len(r.body)
           n == Least(HeaderSize, Unread)
<1>1. /\ r \in Requests /\ e \in Nat /\ e + h + b <= sent /\ h \in Nat \ {0} /\ b \in Nat
      /\ \A i \in 1 .. h + b : Stream(script)[e + i] = IF i <= h THEN r.head[i] ELSE r.body[i - h]
      /\ taken = e /\ r.head \in Seq(Byte) /\ r.body \in Seq(Byte) /\ Len(Frame(r)) = h + b
  BY NextRequest, FrameIs DEF Between, Requests
<1>2. n > 0 /\ taken' = taken + n /\ UNCHANGED <<script, sent, handed>>
  BY DEF StartRead, client
<1>3. PICK junk \in [1 .. HeaderSize - n -> Byte] :
        IF (Taken(n) \o junk)[1] > HeaderSize - 1
        THEN Fail
        ELSE /\ in' = SubSeq(Taken(n) \o junk, (Taken(n) \o junk)[1] + 2, HeaderSize)
             /\ reqlen' = LengthIn(Taken(n) \o junk)
             /\ state' = "READING"
  BY DEF StartRead
<1>4. HeaderSize \in Nat /\ HeaderSize > 0 /\ sent \in Nat /\ taken \in Nat /\ Unread = sent - taken
  BY ConnAssumption DEF Types, Unread
<1>5. n \in 1 .. HeaderSize /\ n <= Unread /\ (HeaderSize <= Unread => n = HeaderSize)
  BY <1>2, <1>4 DEF Least
<1> HIDE DEF n
<1> DEFINE arr == Taken(n) \o junk
<1>6. /\ Taken(n) \in Seq(Byte) /\ Len(Taken(n)) = n
      /\ \A i \in 1 .. n : Taken(n)[i] = Stream(script)[taken + i]
  BY <1>5, TakenIs
<1>7. junk \in Seq(Byte) /\ Len(junk) = HeaderSize - n
  BY <1>5, JunkType
<1>8. arr \in Seq(Byte) /\ Len(arr) = HeaderSize /\ \A i \in 1 .. n : arr[i] = Stream(script)[e + i]
  <2>1. Len(Taken(n)) + Len(junk) = HeaderSize
    BY <1>4, <1>5, <1>6, <1>7
  <2>2. \A i \in 1 .. n : i \in 1 .. HeaderSize /\ i <= n
    BY <1>4, <1>5
  <2>3. \A i \in 1 .. HeaderSize : arr[i] = IF i <= n THEN Taken(n)[i] ELSE junk[i - n]
    BY <1>6, <1>7, <2>1, ConcatProperties
  <2>4. arr \in Seq(Byte) /\ Len(arr) = HeaderSize
    BY <1>6, <1>7, <2>1, ConcatProperties
  <2> HIDE DEF arr
  <2>5. QED
    BY <1>1, <1>6, <2>2, <2>3, <2>4
<1>9. IF arr[1] > HeaderSize - 1
      THEN Fail
      ELSE in' = SubSeq(arr, arr[1] + 2, HeaderSize) /\ reqlen' = LengthIn(arr) /\ state' = "READING"
  BY <1>3
<1>10. Measured(r)
  OBVIOUS
<1> HIDE DEF arr, r, e, h, b
<1>11. arr[1] = r.head[1] /\ r.head[1] \in Nat
  <2>1. 1 \in 1 .. n /\ 1 \in 1 .. h + b /\ 1 <= h /\ 1 \in 1 .. Len(r.head)
    BY <1>1, <1>5 DEF h
  <2>2. arr[1] = Stream(script)[e + 1] /\ Stream(script)[e + 1] = r.head[1]
    BY <1>1, <1>8, <2>1
  <2>3. r.head[1] \in Byte
    BY <1>1, <2>1, ElementOfSeq
  <2>4. QED
    BY <2>2, <2>3, ConnAssumption DEF Byte
<1>15. /\ e \in Nat /\ e + h + b <= sent /\ h \in Nat /\ h > 0 /\ b \in Nat /\ taken = e
       /\ HeaderSize \in Nat /\ sent \in Nat /\ Unread = sent - taken
       /\ n \in 1 .. HeaderSize /\ (HeaderSize <= Unread => n = HeaderSize)
  BY <1>1, <1>4, <1>5
<1>12. CASE r.head[1] > HeaderSize - 1
  BY <1>9, <1>11, <1>12 DEF Fail, Goto
<1>13. CASE ~ (r.head[1] > HeaderSize - 1)
  <2>1. /\ in' = SubSeq(arr, r.head[1] + 2, HeaderSize) /\ reqlen' = Number(SubSeq(arr, 1, r.head[1] + 1))
        /\ state' = "READING"
    BY <1>9, <1>11, <1>13 DEF LengthIn
  <2>2. /\ h = r.head[1] + 1 /\ h + b >= HeaderSize
        /\ \/ h + b = HeaderSize /\ Number(r.head) <= b
           \/ h + b > HeaderSize /\ Number(r.head) = b
    <3> DEFINE f == Len(Frame(r))
    <3>1. /\ h = r.head[1] + 1
          /\ \/ f = HeaderSize /\ Number(r.head) <= b
             \/ f > HeaderSize /\ Number(r.head) = b
      BY <1>10, <1>13 DEF Measured, h, b
    <3>2. f = h + b /\ f \in Nat /\ HeaderSize \in Nat
      BY <1>1, <1>15
    <3> HIDE DEF f
    <3>3. h + b >= HeaderSize
      BY <3>1, <3>2
    <3>4. QED
      BY <3>1, <3>2, <3>3, Zenon
  <2>3. n = HeaderSize /\ h <= HeaderSize /\ HeaderSize - h <= b /\ HeaderSize - h \in 0 .. b
    <3> DEFINE q == r.head[1]
    <3>1. q \in Nat /\ ~ (q > HeaderSize - 1) /\ h = q + 1 /\ h + b >= HeaderSize
      BY <1>11, <1>13, <2>2
    <3> HIDE DEF q
    <3>2. HeaderSize <= Unread
      BY <1>15, <3>1
    <3>3. QED
      BY <1>15, <3>1, <3>2
  <2>4. \A i \in 1 .. HeaderSize : arr[i] = IF i <= h THEN r.head[i] ELSE r.body[i - h]
    <3>1. \A i \in 1 .. HeaderSize : i \in 1 .. n /\ i \in 1 .. h + b
      BY <1>15, <2>2, <2>3
    <3>2. QED
      BY <1>1, <1>8, <3>1
  <2>5. SubSeq(arr, 1, h) = r.head /\ SubSeq(arr, h + 1, HeaderSize) = SubSeq(r.body, 1, HeaderSize - h)
    <3> DEFINE head == r.head
               body == r.body
    <3>1. /\ arr \in Seq(Byte) /\ head \in Seq(Byte) /\ body \in Seq(Byte) /\ h = Len(head) /\ b = Len(body)
          /\ Len(arr) = HeaderSize /\ \A i \in 1 .. HeaderSize : arr[i] = IF i <= h THEN head[i] ELSE body[i - h]
      BY <1>1, <1>8, <2>4 DEF h, b
    <3> HIDE DEF head, body
    <3>2. h \in Nat /\ HeaderSize \in Nat /\ h <= HeaderSize /\ HeaderSize - h <= b
      BY <1>15, <2>3
    <3>3. HeaderSize <= Len(arr) /\ HeaderSize - h <= Len(body)
      BY <3>1, <3>2
    <3>4. SubSeq(arr, 1, h) = head /\ SubSeq(arr, h + 1, HeaderSize) = SubSeq(body, 1, HeaderSize - h)
      BY <3>1, <3>2, <3>3, Cut
    <3>5. QED
      BY <3>4 DEF head, body
  <2>6. h + 1 = r.head[1] + 2
    <3> DEFINE q == r.head[1]
    <3>1. h = q + 1 /\ q \in Nat
      BY <1>11, <2>2
    <3> HIDE DEF q
    <3>2. h + 1 = q + 2
      BY <3>1
    <3>3. QED
      BY <3>2 DEF q
  <2>7. in' = SubSeq(r.body, 1, HeaderSize - h) /\ reqlen' = Number(r.head)
    BY <2>1, <2>2, <2>5, <2>6
  <2>8. reqlen' <= b /\ (HeaderSize - h < b => reqlen' = b)
    <3> DEFINE q == Number(r.head)
    <3>1. reqlen' = q /\ ((h + b = HeaderSize /\ q <= b) \/ (h + b > HeaderSize /\ q = b))
      BY <2>2, <2>7, Zenon
    <3> HIDE DEF q
    <3>2. HeaderSize - h < b => reqlen' = b
      BY <1>15, <3>1
    <3>3. reqlen' <= b
      BY <1>15, <3>1
    <3>4. QED
      BY <3>2, <3>3
  <2>9. taken' = e + h + (HeaderSize - h)
    BY <1>1, <1>2, <1>4, <2>3
  <2>10. r' = r /\ e' = e /\ UNCHANGED handed
    BY <1>2 DEF r, e
  <2>11. \E c \in 0 .. b : taken' = e + h + c /\ in' = SubSeq(r.body, 1, c) /\ reqlen' <= b
            /\ (c < b => reqlen' = b)
    BY <2>3, <2>7, <2>8, <2>9
  <2>12. Within(r)'
    BY <2>10, <2>11 DEF Within, e, h, b
  <2>13. Begun'
    BY <1>2 DEF Begun
  <2>14. QED
    BY <2>1, <2>12, <2>13 DEF r
<1>14. QED
  BY <1>12, <1>13

\* A prefix of the body, and the bytes that come next, are a longer prefix.
LEMMA Longer ==
    ASSUME NEW body \in Seq(Byte), NEW b \in Nat, NEW n \in Nat, b + n <= Len(body),
           NEW piece \in Seq(Byte), Len(piece) = n, \A i \in 1 .. n : piece[i] = body[b + i]
    PROVE  SubSeq(body, 1, b) \o piece = SubSeq(body, 1, b + n)
<1> DEFINE m == b + n
           x == SubSeq(body, 1, b)
           y == SubSeq(body, 1, m)
<1>1. Len(body) \in Nat /\ m \in Nat
  BY LenProperties
<1>2. \A k \in 0 .. Len(body) :
        /\ SubSeq(body, 1, k) \in Seq(Byte) /\ Len(SubSeq(body, 1, k)) = k
        /\ \A i \in 1 .. k : SubSeq(body, 1, k)[i] = body[i]
  <2> SUFFICES ASSUME NEW k \in 0 .. Len(body)
               PROVE  /\ SubSeq(body, 1, k) \in Seq(Byte) /\ Len(SubSeq(body, 1, k)) = k
                      /\ \A i \in 1 .. k : SubSeq(body, 1, k)[i] = body[i]
    OBVIOUS
  <2>1. \A i \in 1 .. k : body[i] \in Byte
    <3>1. \A i \in 1 .. k : i \in 1 .. Len(body)
      BY <1>1
    <3>2. QED
      BY <3>1, ElementOfSeq
  <2>2. k \in Int /\ 1 \in Int /\ k - 1 + 1 = k /\ (IF 1 <= k THEN k - 1 + 1 ELSE 0) = k
        /\ \A i \in 1 .. k : 1 + i - 1 = i
    BY <1>1
  <2>3. QED
    BY <2>1, <2>2, SubSeqProperties
<1>3. b \in 0 .. Len(body) /\ m \in 0 .. Len(body)
  BY <1>1
<1> HIDE DEF m
<1>4. x \in Seq(Byte) /\ Len(x) = b /\ \A i \in 1 .. b : x[i] = body[i]
  BY <1>2, <1>3
<1>5. y \in Seq(Byte) /\ Len(y) = m /\ \A i \in 1 .. m : y[i] = body[i]
  BY <1>2, <1>3
<1> HIDE DEF x, y
<1>6. x \o piece \in Seq(Byte) /\ Len(x \o piece) = m
      /\ \A i \in 1 .. m : (x \o piece)[i] = IF i <= b THEN x[i] ELSE piece[i - b]
  BY <1>4, ConcatProperties DEF m
<1>7. \A i \in 1 .. m : (x \o piece)[i] = y[i]
  <2> SUFFICES ASSUME NEW i \in 1 .. m PROVE (x \o piece)[i] = y[i]
    OBVIOUS
  <2>1. CASE i <= b
    <3>1. i \in 1 .. b
      BY <2>1
    <3>2. QED
      BY <1>4, <1>5, <1>6, <2>1, <3>1
  <2>2. CASE ~ (i <= b)
    <3>1. i - b \in 1 .. n /\ b + (i - b) = i
      BY <2>2 DEF m
    <3>2. piece[i - b] = body[i]
      BY <3>1
    <3>3. QED
      BY <1>5, <1>6, <2>2, <3>2
  <2>3. QED
    BY <2>1, <2>2
<1>8. x \o piece = y
  BY <1>5, <1>6, <1>7, SeqEqual
<1>9. QED
  BY <1>8 DEF x, y, m

\* The facts about the body that is being read.
LEMMA WithinIs ==
    ASSUME Types, Begun, Len(handed) \in Nat, Within(script[Len(handed) + 1])
    PROVE  LET r == script[Len(handed) + 1]
               e == End(script, Len(handed))
           IN  \E b \in 0 .. Len(r.body) :
                /\ taken = e + Len(r.head) + b
                /\ in = SubSeq(r.body, 1, b) /\ in \in Seq(Byte) /\ Len(in) = b /\ in # Wrapped
                /\ reqlen <= Len(r.body) /\ (b < Len(r.body) => reqlen = Len(r.body))
<1> DEFINE r == script[Len(handed) + 1]
           body == r.body
<1>1. body \in Seq(Byte) /\ Len(body) \in Nat
  BY NextRequest DEF Requests
<1>2. PICK b \in 0 .. Len(body) :
        /\ taken = End(script, Len(handed)) + Len(r.head) + b
        /\ in = SubSeq(body, 1, b)
        /\ reqlen <= Len(body) /\ (b < Len(body) => reqlen = Len(body))
  BY DEF Within
<1> HIDE DEF body
<1>3. in \in Seq(Byte) /\ Len(in) = b
  <2>1. \A i \in 1 .. b : body[i] \in Byte
    <3>1. \A i \in 1 .. b : i \in 1 .. Len(body)
      BY <1>1
    <3>2. QED
      BY <1>1, <3>1, ElementOfSeq
  <2>2. b \in Int /\ 1 \in Int /\ (IF 1 <= b THEN b - 1 + 1 ELSE 0) = b
    BY <1>1
  <2>3. QED
    BY <1>2, <2>1, <2>2, SubSeqProperties
<1>4. in # Wrapped
  BY <1>3, ConnAssumption
<1>5. QED
  BY <1>2, <1>3, <1>4 DEF body

\* A read takes what comes next in the body, and nothing behind it.
LEMMA BodyWhole ==
    ASSUME Types, Begun, Len(handed) \in Nat, Within(script[Len(handed) + 1]), ReadBody
    PROVE  Within(script[Len(handed) + 1])'
<1> DEFINE r == script[Len(handed) + 1]
           e == End(script, Len(handed))
           head == r.head
           body == r.body
           h == Len(head)
           B == Len(body)
           n == Least(Unread, Least(reqlen - Len(in), Increment))
<1>1. /\ e \in Nat /\ h \in Nat /\ B \in Nat /\ body \in Seq(Byte)
      /\ \A i \in 1 .. h + B : Stream(script)[e + i] = IF i <= h THEN head[i] ELSE body[i - h]
  BY NextRequest DEF Requests
<1>2. PICK b \in 0 .. B :
        /\ taken = e + h + b /\ in = SubSeq(body, 1, b) /\ Len(in) = b
        /\ reqlen <= B /\ (b < B => reqlen = B)
  BY WithinIs
<1>3. n > 0 /\ in' = in \o Taken(n) /\ taken' = taken + n /\ UNCHANGED <<script, handed, reqlen>>
  BY DEF ReadBody, client
<1>4. n \in Nat /\ n <= Unread /\ n <= reqlen - b
  <2>1. Unread \in Int /\ reqlen \in Nat /\ Increment \in Nat
    BY ConnAssumption DEF Types, Unread
  <2>2. QED
    BY <1>2, <1>3, <2>1 DEF Least
<1> HIDE DEF n
<1>5. /\ Taken(n) \in Seq(Byte) /\ Len(Taken(n)) = n
      /\ \A i \in 1 .. n : Taken(n)[i] = Stream(script)[taken + i]
  BY <1>4, TakenIs
<1>6. r' = r /\ e' = e
  BY <1>3
<1> HIDE DEF r, e, head, body, h, B
<1>7. reqlen \in Nat /\ reqlen = B /\ b + n \in 0 .. B /\ b + n <= B /\ b \in Nat
  <2>1. reqlen \in Nat /\ B \in Nat /\ b \in 0 .. B /\ reqlen <= B /\ (b < B => reqlen = B)
    BY <1>1, <1>2 DEF Types
  <2>2. n \in Nat /\ n > 0 /\ n <= reqlen - b
    BY <1>3, <1>4
  <2>3. QED
    BY <2>1, <2>2
<1>8. \A i \in 1 .. n : Taken(n)[i] = body[b + i]
  <2> SUFFICES ASSUME NEW i \in 1 .. n PROVE Taken(n)[i] = body[b + i]
    OBVIOUS
  <2>1. h + b + i \in 1 .. h + B /\ ~ (h + b + i <= h) /\ h + b + i - h = b + i /\ taken + i = e + (h + b + i)
    BY <1>1, <1>2, <1>4, <1>7
  <2>2. Stream(script)[e + (h + b + i)] = body[h + b + i - h]
    BY <1>1, <2>1
  <2>3. QED
    BY <1>5, <2>1, <2>2
<1>9. in' = SubSeq(body, 1, b + n)
  <2>1. b + n <= Len(body)
    BY <1>7 DEF B
  <2>2. SubSeq(body, 1, b) \o Taken(n) = SubSeq(body, 1, b + n)
    <3> DEFINE piece == Taken(n)
    <3>1. piece \in Seq(Byte) /\ Len(piece) = n /\ \A i \in 1 .. n : piece[i] = body[b + i]
      BY <1>5, <1>8
    <3> HIDE DEF piece
    <3>2. body \in Seq(Byte) /\ b \in Nat /\ n \in Nat
      BY <1>1, <1>4, <1>7
    <3>3. SubSeq(body, 1, b) \o piece = SubSeq(body, 1, b + n)
      BY <2>1, <3>1, <3>2, Longer
    <3>4. QED
      BY <3>3 DEF piece
  <2>3. QED
    BY <1>2, <1>3, <2>2
<1>10. taken' = e + h + (b + n)
  BY <1>1, <1>2, <1>3, <1>4
<1>11. \E c \in 0 .. B : taken' = e + h + c /\ in' = SubSeq(body, 1, c) /\ reqlen' <= B /\ (c < B => reqlen' = B)
  <2>1. reqlen' = B /\ reqlen' <= B
    BY <1>1, <1>3, <1>7
  <2>2. QED
    BY <1>7, <1>9, <1>10, <2>1
<1>12. QED
  BY <1>3, <1>6, <1>11 DEF Within, e, h, B, head, body, r

\* A machine that waits for more finds it: all of the body has arrived.
LEMMA NeverShort ==
    ASSUME Types, Begun, Len(handed) \in Nat, Within(script[Len(handed) + 1]), Incomplete
    PROVE  Unread > 0
<1> DEFINE r == script[Len(handed) + 1]
           e == End(script, Len(handed))
           h == Len(r.head)
           B == Len(r.body)
<1>1. e \in Nat /\ h \in Nat /\ B \in Nat /\ e + h + B <= sent
  BY NextRequest
<1>2. PICK b \in 0 .. B : taken = e + h + b /\ Len(in) = b /\ reqlen <= B
  BY WithinIs
<1>3. Len(in) < reqlen /\ reqlen \in Nat /\ sent \in Nat
  BY DEF Incomplete, Types
<1> HIDE DEF r, e, h, B
<1>4. b < B
  BY <1>1, <1>2, <1>3
<1>5. sent - taken > 0
  BY <1>1, <1>2, <1>3, <1>4
<1>6. QED
  BY <1>5 DEF Unread

\* A machine that waits for nothing more has the body.
LEMMA EndWhole ==
    ASSUME Types, Begun, Len(handed) \in Nat, Within(script[Len(handed) + 1]), ~ Incomplete
    PROVE  Whole(script[Len(handed) + 1])
<1> DEFINE r == script[Len(handed) + 1]
           e == End(script, Len(handed))
           h == Len(r.head)
           body == r.body
           B == Len(body)
<1>1. e \in Nat /\ h \in Nat /\ B \in Nat /\ body \in Seq(Byte) /\ End(script, Len(handed) + 1) = e + h + B
  BY NextRequest DEF Requests
<1>2. PICK b \in 0 .. B :
        /\ taken = e + h + b /\ in = SubSeq(body, 1, b) /\ Len(in) = b /\ in # Wrapped
        /\ reqlen <= B /\ (b < B => reqlen = B)
  BY WithinIs
<1>3. ~ (Len(in) < reqlen) /\ reqlen \in Nat
  BY <1>2 DEF Incomplete, Types
<1> HIDE DEF r, e, h, body, B
<1>4. b = B
  BY <1>1, <1>2, <1>3
<1>5. in = body
  <2>1. SubSeq(body, 1, Len(body)) = body
    BY <1>1, SubSeqFull
  <2>2. QED
    BY <1>2, <1>4, <2>1 DEF B
<1>6. taken = End(script, Len(handed) + 1)
  BY <1>1, <1>2, <1>4
<1>7. QED
  BY <1>5, <1>6 DEF Whole, body, r

\* A body that is handed over is the next one of the script.
LEMMA ProcessWhole ==
    ASSUME SessionInv, HandedIs, Begun, Whole(script[Len(handed) + 1]), Len(script) \in Nat, ProcessFd
    PROVE  HandedIs' /\ Place'
<1> DEFINE N == Len(handed)
<1>1. PICK S : handed \in Seq(S)
  BY DEF SessionInv, Sequential
<1>2. handed \in Seq(S \cup {in}) /\ in \in S \cup {in}
  BY <1>1
<1>3. /\ handed' = Append(handed, in) /\ UNCHANGED <<script, taken>>
      /\ pc' = "failed" \/ state' = "WRITING"
  BY DEF ProcessFd, client, Fail, Goto
<1>4. N \in Nat /\ DOMAIN handed = 1 .. N
  BY <1>1
<1>5. /\ handed' \in Seq(S \cup {in}) /\ Len(handed') = N + 1
      /\ \A i \in 1 .. N : handed'[i] = handed[i]
      /\ handed'[N + 1] = in
  BY <1>2, <1>3, AppendProperties
<1>6. N < Len(script) /\ in = script[N + 1].body /\ taken = End(script, N + 1)
  BY DEF Begun, Whole
<1>7. HandedIs'
  <2>1. DOMAIN handed' = 1 .. N + 1
    BY <1>5, LenProperties
  <2>2. \A i \in 1 .. N : handed'[i] = script[i].body
    BY <1>4, <1>5 DEF HandedIs
  <2>3. \A i \in 1 .. N + 1 : i \in 1 .. N \/ i = N + 1
    BY <1>4
  <2>4. Len(handed') <= Len(script')
    BY <1>3, <1>4, <1>5, <1>6
  <2> HIDE DEF N
  <2>5. \A i \in 1 .. N + 1 : handed'[i] = script[i].body
    BY <1>5, <1>6, <2>2, <2>3
  <2>6. QED
    BY <1>3, <2>1, <2>4, <2>5 DEF HandedIs
<1>8. Place'
  BY <1>3, <1>5, <1>6 DEF Place, Between
<1>9. QED
  BY <1>7, <1>8

MeasuredScripts == \A s \in Script : \A i \in DOMAIN s : Measured(s[i])

LEMMA WholeConnect ==
    ASSUME Fresh, Connect
    PROVE  (\E c \in 0 .. Len(script)' : sent' = End(script, c)') /\ HandedIs' /\ Place'
<1>1. /\ script' \in Seq(Requests) /\ sent' = 0 /\ taken' = 0 /\ handed' = <<>> /\ state' = "absent"
  BY ConnAssumption DEF Fresh, Connect, Requests, machine
<1>2. End(script', 0) = 0 /\ Len(script') \in Nat
  BY <1>1, EndIs
<1>3. Len(handed') = 0 /\ DOMAIN handed' = {}
  BY <1>1
<1>4. HandedIs'
  BY <1>2, <1>3 DEF HandedIs
<1>5. Place'
  BY <1>1, <1>2, <1>3 DEF Place, Between
<1>6. \E c \in 0 .. Len(script') : sent' = End(script', c)
  BY <1>1, <1>2
<1>7. QED
  BY <1>4, <1>5, <1>6

LEMMA WholeInit == Init => WholeInv
<1> SUFFICES ASSUME Init PROVE WholeInv
  OBVIOUS
<1>1. ~ Regular
  BY DEF Init, Regular
<1>2. QED
  BY <1>1 DEF WholeInv

LEMMA WholeStep ==
    ASSUME MeasuredScripts
    PROVE  SessionInv /\ TypeInv /\ WholeInv /\ [Next]_vars => WholeInv'
<1> SUFFICES ASSUME SessionInv, TypeInv, WholeInv, [Next]_vars, Regular'
             PROVE  (\E c \in 0 .. Len(script) : sent = End(script, c))' /\ HandedIs' /\ Place'
  BY DEF WholeInv
<1> DEFINE k == Len(handed) + 1
           Sent == \E c \in 0 .. Len(script) : sent = End(script, c)
<1>1. Types /\ (peer = "none" => Fresh) /\ Tracks
  BY TypesOfSession DEF TypeInv, SessionInv
<1>2. /\ script \in Seq(Requests) /\ Len(script) \in Nat /\ Len(handed) \in Nat
      /\ \A n \in 0 .. Len(script) : End(script, n) \in Nat
  BY <1>1, ScriptType, EndIs, HandedLength DEF SessionInv
<1>3. Begun => k \in 1 .. Len(script) /\ k \in 0 .. Len(script)
  BY <1>2 DEF Begun
<1>4. Begun => Measured(script[k])
  <2> HAVE Begun
  <2>1. k \in DOMAIN script
    BY <1>2, <1>3, LenProperties
  <2>2. script \in Script
    <3>1. script = <<>> => Len(script) = 0
      OBVIOUS
    <3>2. QED
      BY <1>1, <1>2, <1>3, <3>1 DEF Types
  <2>3. QED
    BY <2>1, <2>2 DEF MeasuredScripts
<1>5. CASE Connect
  BY <1>1, <1>5, WholeConnect DEF Connect
<1>6. CASE UnregisterFd
  BY <1>6 DEF UnregisterFd, Drop, Regular
<1>7. CASE Interrupted
  BY <1>7 DEF Interrupted, Regular
<1>8. CASE Send
  <2>1. PICK m \in sent + 1 .. Len(Stream(script)) :
            sent' = m /\ smooth' = (smooth /\ m = End(script, CompleteAt(m)))
    BY <1>8 DEF Send
  <2>2. UNCHANGED <<script, taken, handed, pc, state, in, reqlen>> /\ peer = "open"
    BY <1>8 DEF Send, machine
  <2>3. smooth /\ m = End(script, CompleteAt(m))
    BY <2>1 DEF Regular
  <2>4. HandedIs /\ Place
    BY <2>2, <2>3 DEF WholeInv, Regular
  <2>5. m \in Nat /\ sent \in Nat /\ sent' >= sent
    BY <1>1, <2>1 DEF Types
  <2>6. CompleteAt(m) \in 0 .. Len(script)
    BY <1>2, <2>5, CompleteIs
  <2>7. Sent'
    BY <2>1, <2>2, <2>3, <2>6
  <2>8. Begun => End(script, Len(handed) + 1) \in Nat
    BY <1>2, <1>3
  <2>9. Place'
    BY <2>1, <2>2, <2>4, <2>5, <2>8, PlaceKept
  <2>10. HandedIs'
    BY <2>2, <2>4 DEF HandedIs
  <2>11. QED
    BY <2>7, <2>9, <2>10
<1>9. CASE \/ Receive \/ Leave \/ HandleFd \/ StartNothing \/ ReadEof \/ WriteFd \/ WriteNothing \/ WriteEnd
           \/ UNCHANGED vars
  <2> USE DEF client, machine
  <2>1. UNCHANGED <<script, sent, taken, handed, smooth>> /\ (peer' = peer \/ peer = "open")
    BY <1>9 DEF Receive, Leave, HandleFd, StartNothing, ReadEof, WriteFd, WriteNothing, WriteEnd, vars
  <2>2. Sent /\ HandedIs /\ Place
    BY <2>1 DEF WholeInv, Regular
  <2>3. sent \in Nat /\ sent' \in Nat /\ sent' >= sent
    BY <1>1, <2>1 DEF Types
  <2>4. \/ UNCHANGED <<state, in, reqlen>> /\ (pc = "failed" => pc' = "failed")
        \/ pc' = "failed"
        \/ {state, state'} \subseteq {"absent", "READY", "WRITING"} /\ pc # "failed"
    <3> USE DEF Goto, Fail, Reinit
    <3>1. CASE Receive \/ Leave \/ UNCHANGED vars
      BY <3>1 DEF Receive, Leave, vars
    <3>2. CASE HandleFd
      BY <3>2 DEF HandleFd
    <3>3. CASE StartNothing
      BY <3>3 DEF StartNothing
    <3>4. CASE ReadEof \/ WriteFd
      BY <3>4 DEF ReadEof, WriteFd
    <3>5. CASE WriteNothing
      BY <3>5 DEF WriteNothing
    <3>6. CASE WriteEnd
      BY <1>1, <3>6 DEF WriteEnd, Tracks
    <3>7. QED
      BY <1>9, <3>1, <3>2, <3>3, <3>4, <3>5, <3>6
  <2>5. Begun => End(script, Len(handed) + 1) \in Nat
    BY <1>2, <1>3
  <2>6. Place'
    BY <2>1, <2>2, <2>3, <2>4, <2>5, PlaceKept
  <2>7. Sent' /\ HandedIs'
    BY <2>1, <2>2 DEF HandedIs
  <2>8. QED
    BY <2>6, <2>7
<1>10. CASE StartRead \/ ReadBody \/ ReadNothing \/ ReadEnd \/ ProcessFd
  <2>1. UNCHANGED <<script, sent, smooth, peer>>
    BY <1>10 DEF StartRead, ReadBody, ReadNothing, ReadEnd, ProcessFd, client
  <2>2. Sent /\ HandedIs /\ Place /\ peer # "reset"
    BY <2>1 DEF WholeInv, Regular
  <2>3. Sent'
    BY <2>1, <2>2
  <2>4. pc = "read" => Begun /\ Within(script[k])
    BY <1>1, <2>2 DEF Tracks, Place
  <2>5. CASE StartRead
    <3>1. pc = "start" /\ Least(HeaderSize, Unread) > 0 /\ UNCHANGED handed
      BY <2>5 DEF StartRead
    <3>2. Between
      BY <1>1, <2>2, <3>1 DEF Tracks, Place
    <3>3. Unread > 0
      BY <1>1, <3>1, ConnAssumption DEF Least, Unread, Types
    <3>4. Begun
      BY <1>1, <1>2, <2>2, <3>2, <3>3, MoreComes DEF HandedIs
    <3>5. pc' = "failed" \/ (state' = "READING" /\ Begun' /\ Within(script[Len(handed) + 1])')
      BY <1>1, <1>2, <1>4, <2>5, <3>2, <3>4, StartWhole
    <3>6. Place'
      BY <3>5 DEF Place
    <3>7. HandedIs'
      BY <2>1, <2>2, <3>1 DEF HandedIs
    <3>8. QED
      BY <2>3, <3>6, <3>7
  <2>6. CASE ReadBody
    <3>1. pc = "read" /\ UNCHANGED <<handed, state>>
      BY <2>6 DEF ReadBody
    <3>2. Within(script[Len(handed) + 1])'
      BY <1>1, <1>2, <2>4, <2>6, <3>1, BodyWhole
    <3>3. Begun' /\ HandedIs'
      BY <2>1, <2>2, <2>4, <3>1 DEF Begun, HandedIs
    <3>4. Place'
      BY <1>1, <3>1, <3>2, <3>3 DEF Place, Tracks
    <3>5. QED
      BY <2>3, <3>3, <3>4
  <2>7. CASE ReadNothing
    <3>1. pc = "read" /\ Incomplete /\ (Unread = 0 \/ peer = "reset")
      BY <2>7 DEF ReadNothing
    <3>2. Unread > 0
      BY <1>1, <1>2, <2>4, <3>1, NeverShort
    <3>3. QED
      BY <2>2, <3>1, <3>2
  <2>8. CASE ReadEnd
    <3>1. pc = "read" /\ ~ Incomplete /\ state' = "PROCESSING" /\ UNCHANGED <<handed, in, taken>>
      BY <2>8 DEF ReadEnd
    <3>2. Whole(script[k])
      BY <1>1, <1>2, <2>4, <3>1, EndWhole
    <3>3. Begun' /\ HandedIs' /\ Whole(script[k])'
      BY <2>1, <2>2, <2>4, <3>1, <3>2 DEF Begun, HandedIs, Whole
    <3>4. QED
      BY <2>3, <3>1, <3>3 DEF Place
  <2>9. CASE ProcessFd
    <3>1. pc = "process"
      BY <2>9 DEF ProcessFd
    <3>2. Begun /\ Whole(script[k])
      BY <1>1, <2>2, <3>1 DEF Tracks, Place
    <3>3. HandedIs' /\ Place'
      BY <1>2, <2>2, <2>9, <3>2, ProcessWhole
    <3>4. QED
      BY <2>3, <3>3
  <2>10. QED
    BY <1>10, <2>5, <2>6, <2>7, <2>8, <2>9
<1>11. QED
  BY <1>5, <1>6, <1>7, <1>8, <1>9, <1>10 DEF Next, Step

\* Whatever the client sends, as long as its requests are measured and arrive whole
\* and no call is interrupted: the handler is given the bodies that were sent, each
\* whole and in order, however the reads cut them, until the client resets the connection.
THEOREM HandedExactly == ASSUME MeasuredScripts PROVE Spec => []HandedWhole
<1>1. Init => SessionInv /\ TypeInv /\ WholeInv
  BY SessionInit, TypeInit, WholeInit
<1>2. SessionInv /\ TypeInv /\ WholeInv /\ [Next]_vars => SessionInv' /\ TypeInv' /\ WholeInv'
  BY SessionStep, TypeStep, WholeStep
<1>3. WholeInv => HandedWhole
  BY DEF WholeInv, HandedWhole, Regular, HandedIs
<1>4. QED
  BY <1>1, <1>2, <1>3, PTL DEF Spec

(***************************************************************************)
(* A call is short: each of its steps uses up bytes that the client may    *)
(* still send, bytes that the machine holds, or parts of the reply.        *)
(***************************************************************************)
Filled == IF in = Wrapped THEN 0 ELSE Len(in) + 1
Untaken == Len(Stream(script)) - taken

\* No fewer than the steps that are left of a call.
StepsLeft ==
    CASE pc = "start"   -> 2 * Untaken + HeaderSize + ReplySize + 4
      [] pc = "read"    -> 2 * Untaken + Filled + ReplySize + 3
      [] pc = "process" -> ReplySize + 2
      [] pc = "write"   -> Len(out) - cursor + 1
      [] pc \in {"idle", "failed"} -> 0

\* After EINTR the first read is tried again.
Retry == pc = "start" /\ errno' = "EINTR"

LEMMA FilledIs == ASSUME Types PROVE Filled \in Nat
BY LenProperties DEF Filled, Types

LEMMA UntakenIs == ASSUME Types PROVE Untaken \in Nat
<1>1. Len(Stream(script)) \in Nat
  BY ScriptType, LenProperties
<1>2. QED
  BY <1>1 DEF Untaken, Types

LEMMA ShrunkFilled == ASSUME Types, Incomplete, in' = Shrunk(in) PROVE Filled' < Filled /\ Filled' \in Nat
<1>1. in \in Seq(Byte) /\ in # Wrapped /\ Len(in) \in Nat
  BY LenProperties DEF Types, Incomplete
<1>2. CASE in = <<>>
  <2>1. in' = Wrapped /\ Len(in) = 0
    BY <1>2 DEF Shrunk
  <2>2. QED
    BY <1>1, <2>1 DEF Filled
<1>3. CASE in # <<>>
  <2> DEFINE m == Len(in) - 1
  <2>1. m \in Nat /\ m + 1 = Len(in)
    BY <1>1, <1>3, EmptySeq
  <2>2. 1 \in Int /\ m \in Int /\ (IF 1 <= m THEN m - 1 + 1 ELSE 0) = m
    BY <2>1
  <2>3. \A i \in 1 .. m : in[i] \in Byte
    BY <1>1, <2>1, ElementOfSeq
  <2>4. in' = SubSeq(in, 1, m)
    BY <1>3 DEF Shrunk, Front
  <2> HIDE DEF m
  <2>5. in' \in Seq(Byte) /\ Len(in') = m
    BY <2>2, <2>3, <2>4, SubSeqProperties
  <2>6. in' # Wrapped
    BY <2>5, ConnAssumption
  <2>7. QED
    BY <1>1, <2>1, <2>5, <2>6 DEF Filled
<1>4. QED
  BY <1>2, <1>3

LEMMA StepsLeftIs == SessionInv /\ TypeInv => StepsLeft \in Nat
<1> SUFFICES ASSUME SessionInv, TypeInv PROVE StepsLeft \in Nat
  OBVIOUS
<1>1. Filled \in Nat /\ Untaken \in Nat /\ HeaderSize \in Nat /\ ReplySize \in Nat
  BY TypesOfSession, FilledIs, UntakenIs, ConnAssumption DEF TypeInv
<1>2. cursor \in 0 .. Len(out) /\ pc \in {"idle", "start", "read", "process", "write", "failed"}
  BY DEF TypeInv, TypeOK
<1>3. CASE pc = "write"
  <2>1. Len(handed) \in Nat /\ out = Reply(Len(handed))
    BY <1>3, HandedLength DEF SessionInv, Tracks, Progress
  <2>2. Len(out) \in Nat
    BY <1>1, <2>1, ReplyType
  <2>3. QED
    BY <1>2, <1>3, <2>2 DEF StepsLeft
<1>4. CASE pc # "write"
  <2> DEFINE u == Untaken
             f == Filled
  <2>1. StepsLeft \in {2 * u + HeaderSize + ReplySize + 4, 2 * u + f + ReplySize + 3, ReplySize + 2, 0}
    BY <1>2, <1>4 DEF StepsLeft
  <2>2. u \in Nat /\ f \in Nat
    BY <1>1
  <2> HIDE DEF u, f
  <2>3. QED
    BY <1>1, <2>1, <2>2
<1>5. QED
  BY <1>3, <1>4

LEMMA StartFilled == ASSUME Types, StartRead, pc' = "read" PROVE Filled' <= HeaderSize /\ Filled' \in Nat
<1> DEFINE n == Least(HeaderSize, Unread)
<1>1. n \in 1 .. HeaderSize /\ n <= Unread
  <2>1. HeaderSize \in Nat /\ Unread \in Int
    BY ConnAssumption DEF Types, Unread
  <2>2. n > 0
    BY DEF StartRead
  <2>3. QED
    BY <2>1, <2>2 DEF Least
<1>2. Taken(n) \in Seq(Byte) /\ Len(Taken(n)) = n
  BY <1>1, TakenIs
<1>3. PICK junk \in [1 .. HeaderSize - n -> Byte] :
        IF (Taken(n) \o junk)[1] > HeaderSize - 1
        THEN Fail
        ELSE in' = SubSeq(Taken(n) \o junk, (Taken(n) \o junk)[1] + 2, HeaderSize)
  BY DEF StartRead
<1> HIDE DEF n
<1>4. junk \in Seq(Byte) /\ Len(junk) = HeaderSize - n
  BY <1>1, JunkType
<1> DEFINE arr == Taken(n) \o junk
           c == arr[1]
<1>5. arr \in Seq(Byte) /\ Len(arr) = HeaderSize /\ HeaderSize \in Nat
  <2>1. HeaderSize \in Nat /\ n + (HeaderSize - n) = HeaderSize
    BY <1>1, ConnAssumption
  <2>2. arr \in Seq(Byte) /\ Len(arr) = n + (HeaderSize - n)
    BY <1>2, <1>4, ConcatProperties
  <2>3. QED
    BY <2>1, <2>2, Zenon
<1>6. ~ (c > HeaderSize - 1) /\ in' = SubSeq(arr, c + 2, HeaderSize)
  BY <1>3 DEF Fail, Goto
<1> HIDE DEF arr
<1>7. \A i \in 1 .. HeaderSize : arr[i] \in Byte
  BY <1>5, ElementOfSeq
<1>8. c \in Nat
  <2>1. 1 \in 1 .. HeaderSize
    BY <1>1, <1>5
  <2>2. QED
    BY <1>7, <2>1, ConnAssumption DEF Byte
<1> HIDE DEF c
<1> DEFINE a == c + 2
<1>9. a \in Int /\ HeaderSize \in Int /\ (IF a <= HeaderSize THEN HeaderSize - a + 1 ELSE 0) = HeaderSize - 1 - c
      /\ HeaderSize - 1 - c \in Nat /\ \A i \in a .. HeaderSize : i \in 1 .. HeaderSize
  BY <1>5, <1>6, <1>8
<1>10. \A i \in a .. HeaderSize : arr[i] \in Byte
  BY <1>7, <1>9
<1>11. in' = SubSeq(arr, a, HeaderSize)
  BY <1>6
<1> HIDE DEF a
<1>12. in' \in Seq(Byte) /\ Len(in') = HeaderSize - 1 - c
  BY <1>9, <1>10, <1>11, SubSeqProperties
<1>13. in' # Wrapped
  BY <1>12, ConnAssumption
<1>14. QED
  BY <1>5, <1>8, <1>9, <1>12, <1>13 DEF Filled

LEMMA StepNearer == SessionInv /\ TypeInv /\ Step /\ ~ Retry => StepsLeft' < StepsLeft
<1> SUFFICES ASSUME SessionInv, TypeInv, Step, ~ Retry PROVE StepsLeft' < StepsLeft
  OBVIOUS
<1> USE DEF client, machine, Goto
<1>1. Types /\ Filled \in Nat /\ Untaken \in Nat /\ HeaderSize \in Nat /\ ReplySize \in Nat
  BY TypesOfSession, FilledIs, UntakenIs, ConnAssumption DEF TypeInv
<1>2. StepsLeft \in Nat
  BY StepsLeftIs
<1>3. Len(Stream(script)) \in Nat /\ taken \in Nat
  BY <1>1, ScriptType, LenProperties DEF Types
<1>4. pc = "write" => Len(out) = ReplySize /\ cursor \in 0 .. ReplySize
  <2> HAVE pc = "write"
  <2>1. Len(handed) \in Nat /\ out = Reply(Len(handed)) /\ cursor \in 0 .. ReplySize
    BY HandedLength DEF SessionInv, Tracks, Progress
  <2>2. QED
    BY <2>1, ReplyType
<1>5. CASE StartRead
  <2>1. pc = "start" /\ UNCHANGED script /\ taken' = taken + Least(HeaderSize, Unread) /\ Least(HeaderSize, Unread) > 0
        /\ pc' \in {"failed", "read"}
    BY <1>5 DEF StartRead, Fail
  <2>2. Least(HeaderSize, Unread) \in Nat
    BY <1>1, <2>1 DEF Least, Unread, Types
  <2>3. Untaken' < Untaken /\ Untaken' \in Int
    BY <1>3, <2>1, <2>2 DEF Untaken
  <2>4. pc' = "read" => Filled' <= HeaderSize /\ Filled' \in Nat
    BY <1>1, <1>5, StartFilled
  <2>5. CASE pc' = "read"
    <3>1. StepsLeft' = 2 * Untaken' + Filled' + ReplySize + 3
      BY <2>5 DEF StepsLeft
    <3>2. StepsLeft = 2 * Untaken + HeaderSize + ReplySize + 4
      BY <2>1 DEF StepsLeft
    <3>3. QED
      BY <1>1, <2>3, <2>4, <2>5, <3>1, <3>2
  <2>6. CASE pc' = "failed"
    <3>1. StepsLeft' = 0
      BY <2>6 DEF StepsLeft
    <3>2. StepsLeft = 2 * Untaken + HeaderSize + ReplySize + 4
      BY <2>1 DEF StepsLeft
    <3>3. QED
      BY <1>1, <3>1, <3>2
  <2>7. QED
    BY <2>1, <2>5, <2>6
<1>6. CASE StartNothing
  <2>1. pc = "start" /\ pc' \in {"idle", "failed"}
    BY <1>6 DEF StartNothing, Retry, Fail
  <2>2. StepsLeft' = 0 /\ StepsLeft = 2 * Untaken + HeaderSize + ReplySize + 4
    BY <2>1 DEF StepsLeft
  <2>3. QED
    BY <1>1, <2>2
<1>7. CASE ReadBody
  <2> DEFINE n == Least(Unread, Least(reqlen - Len(in), Increment))
  <2>1. /\ pc = "read" /\ pc' = "read" /\ UNCHANGED script /\ taken' = taken + n /\ in' = in \o Taken(n)
        /\ n > 0 /\ in \in Seq(Byte) /\ in # Wrapped
    BY <1>1, <1>7 DEF ReadBody, Incomplete, Types
  <2>2. n \in Nat /\ n <= Unread
    <3>1. Len(in) \in Nat /\ reqlen \in Nat /\ Unread \in Int /\ Increment \in Nat
      BY <1>1, <2>1, LenProperties, ConnAssumption DEF Types, Unread
    <3>2. QED
      BY <2>1, <3>1 DEF Least
  <2> HIDE DEF n
  <2>3. Taken(n) \in Seq(Byte) /\ Len(Taken(n)) = n
    BY <1>1, <2>2, TakenIs
  <2>4. in' \in Seq(Byte) /\ Len(in') = Len(in) + n /\ Len(in) \in Nat
    BY <2>1, <2>3, ConcatProperties, LenProperties
  <2>5. in' # Wrapped
    BY <2>4, ConnAssumption
  <2>6. Filled' = Filled + n
    BY <2>1, <2>2, <2>4, <2>5 DEF Filled
  <2>7. Untaken' = Untaken - n
    BY <1>3, <2>1, <2>2 DEF Untaken
  <2>8. StepsLeft' = 2 * Untaken' + Filled' + ReplySize + 3 /\ StepsLeft = 2 * Untaken + Filled + ReplySize + 3
    BY <2>1 DEF StepsLeft
  <2>9. n > 0 /\ n \in Nat
    BY <2>1, <2>2
  <2>10. QED
    BY <1>1, <2>6, <2>7, <2>8, <2>9
<1>8. CASE ReadNothing
  <2>1. pc = "read" /\ pc' = "read" /\ UNCHANGED <<script, taken>> /\ Incomplete /\ in' = Shrunk(in)
    BY <1>8 DEF ReadNothing
  <2>2. Filled' < Filled /\ Filled' \in Nat
    BY <1>1, <2>1, ShrunkFilled
  <2>3. Untaken' = Untaken
    BY <2>1 DEF Untaken
  <2>4. StepsLeft' = 2 * Untaken' + Filled' + ReplySize + 3 /\ StepsLeft = 2 * Untaken + Filled + ReplySize + 3
    BY <2>1 DEF StepsLeft
  <2> DEFINE u == Untaken
             f == Filled
             g == Filled'
  <2>5. /\ StepsLeft' = 2 * u + g + ReplySize + 3 /\ StepsLeft = 2 * u + f + ReplySize + 3
        /\ g < f /\ g \in Nat /\ f \in Nat /\ u \in Nat
    BY <1>1, <2>2, <2>3, <2>4
  <2> HIDE DEF u, f, g
  <2>6. QED
    BY <1>1, <2>5
<1>9. CASE ReadEof \/ ReadEnd
  <2>1. pc = "read" /\ pc' \in {"idle", "process"}
    BY <1>9 DEF ReadEof, ReadEnd
  <2>2. StepsLeft' \in {0, ReplySize + 2} /\ StepsLeft = 2 * Untaken + Filled + ReplySize + 3
    BY <2>1 DEF StepsLeft
  <2>3. QED
    BY <1>1, <2>2
<1>10. CASE ProcessFd
  <2>1. pc = "process" /\ (pc' = "failed" \/ (pc' = "write" /\ out' = Reply(Len(handed')) /\ UNCHANGED cursor))
    BY <1>10 DEF ProcessFd, Fail
  <2>2. StepsLeft = ReplySize + 2
    BY <2>1 DEF StepsLeft
  <2>3. SessionInv'
    BY <1>10, SessionStep DEF Next, Step
  <2>4. CASE pc' = "write"
    <3>1. cursor = 0
      BY <2>1 DEF SessionInv, Tracks, Progress
    <3>2. Len(out') = ReplySize
      <4>1. (Sequential => Len(handed) \in Nat)'
        BY HandedLength, PTL
      <4>2. Len(handed') \in Nat
        BY <2>3, <4>1 DEF SessionInv
      <4>3. QED
        BY <2>1, <2>4, <4>2, ReplyType
    <3>3. StepsLeft' = Len(out') - cursor' + 1
      BY <2>4 DEF StepsLeft
    <3>4. QED
      BY <1>1, <2>1, <2>2, <2>4, <3>1, <3>2, <3>3
  <2>5. CASE pc' = "failed"
    <3>1. StepsLeft' = 0
      BY <2>5 DEF StepsLeft
    <3>2. QED
      BY <1>1, <2>2, <3>1
  <2>6. QED
    BY <2>1, <2>4, <2>5
<1>11. CASE WriteFd
  <2>1. pc = "write" /\ pc' = "write" /\ UNCHANGED out
        /\ \E n \in 1 .. Least(Len(out) - cursor, SendBuffer - Len(outbox)) : cursor' = cursor + n
    BY <1>11 DEF WriteFd
  <2>2. PICK n \in 1 .. Least(Len(out) - cursor, SendBuffer - Len(outbox)) : cursor' = cursor + n
    BY <2>1
  <2>3. n \in Int /\ n >= 1 /\ Len(out) \in Int /\ cursor \in Int
    BY <1>1, <1>4, <2>1
  <2>4. StepsLeft' = Len(out) - cursor' + 1 /\ StepsLeft = Len(out) - cursor + 1
    BY <2>1 DEF StepsLeft
  <2>5. QED
    BY <2>2, <2>3, <2>4
<1>12. CASE WriteNothing \/ WriteEnd
  <2>1. pc = "write" /\ pc' \in {"idle", "failed"}
    BY <1>12 DEF WriteNothing, WriteEnd, Fail
  <2>2. StepsLeft' = 0 /\ StepsLeft = Len(out) - cursor + 1
    BY <2>1 DEF StepsLeft
  <2>3. QED
    BY <1>1, <1>4, <2>1, <2>2
<1>13. QED
  BY <1>5, <1>6, <1>7, <1>8, <1>9, <1>10, <1>11, <1>12 DEF Step

\* What the client does, and an interrupt, makes no call longer.
LEMMA OthersNoFurther ==
    SessionInv /\ TypeInv /\ (Send \/ Receive \/ Leave \/ Interrupted) => StepsLeft' <= StepsLeft
<1> SUFFICES ASSUME SessionInv, TypeInv, Send \/ Receive \/ Leave \/ Interrupted PROVE StepsLeft' <= StepsLeft
  OBVIOUS
<1>1. Types /\ Filled \in Nat /\ Untaken \in Nat /\ ReplySize \in Nat /\ StepsLeft \in Nat
  BY TypesOfSession, FilledIs, UntakenIs, ConnAssumption, StepsLeftIs DEF TypeInv
<1>2. UNCHANGED <<script, taken, pc, out, cursor>> /\ (UNCHANGED in \/ (pc = "read" /\ Incomplete /\ in' = Shrunk(in)))
  BY DEF Send, Receive, Leave, Interrupted, client, machine
<1>3. Untaken' = Untaken
  BY <1>2 DEF Untaken
<1>4. CASE UNCHANGED in
  <2>1. Filled' = Filled
    BY <1>4 DEF Filled
  <2>2. StepsLeft' = StepsLeft
    BY <1>2, <1>3, <2>1 DEF StepsLeft
  <2>3. QED
    BY <1>1, <2>2
<1>5. CASE pc = "read" /\ Incomplete /\ in' = Shrunk(in)
  <2>1. Filled' < Filled /\ Filled' \in Nat
    BY <1>1, <1>5, ShrunkFilled
  <2>2. StepsLeft' = 2 * Untaken' + Filled' + ReplySize + 3 /\ StepsLeft = 2 * Untaken + Filled + ReplySize + 3
    BY <1>2, <1>5 DEF StepsLeft
  <2> DEFINE u == Untaken
             f == Filled
             g == Filled'
  <2>3. /\ StepsLeft' = 2 * u + g + ReplySize + 3 /\ StepsLeft = 2 * u + f + ReplySize + 3
        /\ g < f /\ g \in Nat /\ f \in Nat /\ u \in Nat
    BY <1>1, <1>3, <2>1, <2>2
  <2> HIDE DEF u, f, g
  <2>4. QED
    BY <1>1, <2>3
<1>6. QED
  BY <1>2, <1>4, <1>5

\* A call of the handler has fewer steps left after each of its steps, and no more
\* after whatever the client does or an interrupt: it ends, however the client sends
\* and goes and whatever length it announces, unless it retries after an EINTR.
THEOREM CallShort ==
    Spec => /\ [](StepsLeft \in Nat)
            /\ [][Step /\ ~ Retry => StepsLeft' < StepsLeft]_vars
            /\ [][Send \/ Receive \/ Leave \/ Interrupted => StepsLeft' <= StepsLeft]_vars
<1>1. Init => SessionInv /\ TypeInv
  BY SessionInit, TypeInit
<1>2. SessionInv /\ TypeInv /\ [Next]_vars => SessionInv' /\ TypeInv'
  BY SessionStep, TypeStep
<1>3. SessionInv /\ TypeInv /\ [Next]_vars => [Step /\ ~ Retry => StepsLeft' < StepsLeft]_vars
  BY StepNearer
<1>4. SessionInv /\ TypeInv /\ [Next]_vars => [Send \/ Receive \/ Leave \/ Interrupted => StepsLeft' <= StepsLeft]_vars
  BY OthersNoFurther
<1>5. QED
  BY <1>1, <1>2, <1>3, <1>4, StepsLeftIs, PTL DEF Spec

=============================================================================
