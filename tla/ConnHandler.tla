---------------------------- MODULE ConnHandler ----------------------------
(***************************************************************************)
(* Class ConnHandler (ugorji/ndb/conn.cc): one client connection served by *)
(* one worker, over a non-blocking socket.                                 *)
(*                                                                         *)
(* A request on the wire is a count byte, that many bytes of length, and   *)
(* a body.  Each read and write of the socket is one step, and the client  *)
(* sends, receives, closes or resets between any two of them.  A call of   *)
(* the handler ends at EAGAIN, at an error or when a reply is out; the     *)
(* worker's event loop (ugorji::conn::Manager, external) calls it again as *)
(* long as the descriptor is registered, and unregisters it after an error *)
(* or when the client has gone.                                            *)
(***************************************************************************)
EXTENDS Integers, Sequences, SequencesExt

CONSTANTS
    Script,      \* what a client may send: sequences of requests [head, body]
    Good,        \* the bodies that decode to a request
    HeaderSize,  \* bytes of the first read (8)
    Base,        \* values of a byte (256)
    Increment,   \* FD_BUF_INCR
    Wrapped,     \* an input whose length has wrapped below zero
    ReplySize,   \* parts of a reply
    SendBuffer,  \* parts of replies that the socket holds
    FirstPiece,  \* a request arrives whole, or at first this many bytes or more
    MaxSignals,  \* bound on the number of interrupted system calls
    MaxConns     \* bound on the number of connections

Byte == 0 .. Base - 1

ASSUME ConnAssumption ==
    /\ Script \subseteq Seq([head : Seq(Byte) \ {<<>>}, body : Seq(Byte)])
    /\ Wrapped \notin Seq(Byte)
    /\ {HeaderSize, Base, Increment, ReplySize, SendBuffer, FirstPiece, MaxConns} \subseteq Nat \ {0}
    /\ MaxSignals \in Nat

VARIABLES
    script,    \* the client: what it sends on this connection
    sent,      \* bytes of it that have arrived at the server
    peer,      \* "open", "closed", "reset", or "none" between connections
    received,  \* what it has received
    taken,     \* the socket: bytes that the server has read
    outbox,    \* what the server has written and the client not received
    errno,     \* of the worker's thread
    pc,        \* where the worker is: "idle" outside handleFd
    state,     \* connFdStateMach: state_, or "absent" from clientfds_
    in,        \* in_
    reqlen,    \* reqlen_
    out,       \* out_
    cursor,    \* cursor_
    handed,    \* history: the inputs given to the request handler
    smooth,    \* history: requests have arrived whole, and no call was interrupted
    signals,
    conns

client == <<script, sent, received>>
machine == <<state, in, reqlen, out, cursor>>
vars == <<client, peer, taken, outbox, errno, pc, machine, handed, smooth, signals, conns>>

----------------------------------------------------------------------------
(***************************************************************************)
(* Bytes and numbers.                                                      *)
(***************************************************************************)
Frame(r)  == r.head \o r.body
Stream(s) == FlattenSeq([i \in DOMAIN s |-> Frame(s[i])])
End(s, n) == Len(Stream(SubSeq(s, 1, n)))

\* How many requests the first m bytes of the stream complete.
CompleteAt(m) == CHOOSE n \in 0 .. Len(script) :
    End(script, n) <= m /\ (n < Len(script) => m < End(script, n + 1))
Complete == CompleteAt(sent)

\* util_big_endian_read_uint64
Number(bytes) ==
    LET upto[n \in 0 .. Len(bytes)] == IF n = 0 THEN 0 ELSE upto[n - 1] * Base + bytes[n]
    IN  upto[Len(bytes)]

\* The length that doStartFd reads: the count byte stays in front of the
\* bytes it counts when they are moved to the end of arr.
LengthIn(arr) == Number(SubSeq(arr, 1, arr[1] + 1))

\* in_.bytes.len += n2 with n2 the size_t of -1.
Shrunk(s) == IF s = <<>> THEN Wrapped ELSE Front(s)

Incomplete == in # Wrapped /\ Len(in) < reqlen

Least(m, n) == IF m < n THEN m ELSE n

Unread == sent - taken
Taken(n) == SubSeq(Stream(script), taken + 1, taken + n)

Reply(n) == [i \in 1 .. ReplySize |-> <<n, i>>]

----------------------------------------------------------------------------
(***************************************************************************)
(* The client and the event loop.                                          *)
(***************************************************************************)
Connect ==
    /\ peer = "none"
    /\ conns < MaxConns
    /\ conns' = conns + 1
    /\ peer' = "open"
    /\ script' \in Script
    /\ UNCHANGED <<sent, received, taken, outbox, errno, pc, machine, handed, smooth, signals>>

Send ==
    /\ peer = "open"
    /\ \E m \in sent + 1 .. Len(Stream(script)) :
        /\ m - End(script, CompleteAt(m)) = 0 \/ m - End(script, CompleteAt(m)) >= FirstPiece
        /\ sent' = m
        /\ smooth' = (smooth /\ m = End(script, CompleteAt(m)))
    /\ UNCHANGED <<script, received, peer, taken, outbox, errno, pc, machine, handed, signals, conns>>

Receive ==
    /\ peer = "open"
    /\ outbox # <<>>
    /\ received' = received \o outbox
    /\ outbox' = <<>>
    /\ UNCHANGED <<script, sent, peer, taken, errno, pc, machine, handed, smooth, signals, conns>>

Leave ==
    /\ peer = "open"
    /\ peer' \in {"closed", "reset"}
    /\ UNCHANGED <<client, taken, outbox, errno, pc, machine, handed, smooth, signals, conns>>

\* The event loop drops the descriptor and closes the socket.
Drop ==
    /\ pc = "failed" \/ (pc = "idle" /\ peer \in {"closed", "reset"})
    /\ pc' = "idle" /\ peer' = "none"
    /\ script' = <<>> /\ sent' = 0 /\ taken' = 0
    /\ received' = <<>> /\ outbox' = <<>> /\ handed' = <<>> /\ smooth' = TRUE
    /\ UNCHANGED <<errno, signals, conns>>

\* Fault: the state machine of the descriptor is kept.
UnregisterKeep == Drop /\ UNCHANGED machine

\* unregisterFd
UnregisterFd ==
    /\ Drop
    /\ state' = "absent"
    /\ in' = <<>> /\ reqlen' = 0 /\ out' = <<>> /\ cursor' = 0

----------------------------------------------------------------------------
(***************************************************************************)
(* The handler.                                                            *)
(***************************************************************************)
Goto(l) == pc' = l

\* Fault: cursor_ keeps its value.
ReinitMost ==
    /\ state' = "READY"
    /\ in' = <<>> /\ out' = <<>> /\ reqlen' = 0
    /\ UNCHANGED cursor

Reinit ==
    /\ state' = "READY"
    /\ in' = <<>> /\ out' = <<>> /\ reqlen' = 0 /\ cursor' = 0

\* err is set: the call ends.
Fail == Reinit /\ Goto("failed")

\* handleFd, and stateFor for a descriptor seen for the first time.
HandleFd ==
    /\ pc = "idle"
    /\ peer # "none"
    /\ \/ state \in {"absent", "READY"} /\ Reinit /\ Goto("start")
       \/ state = "READING" /\ Goto("read") /\ UNCHANGED machine
       \/ state = "WRITING" /\ Goto("write") /\ UNCHANGED machine
    /\ UNCHANGED <<client, peer, taken, outbox, errno, handed, smooth, signals, conns>>

\* doStartFd reads something: what arr holds beyond it is not initialised.
StartRead ==
    LET n == Least(HeaderSize, Unread)
    IN  /\ pc = "start"
        /\ peer # "reset" /\ n > 0
        /\ taken' = taken + n
        /\ \E junk \in [1 .. HeaderSize - n -> Byte] :
            LET arr == Taken(n) \o junk
            IN  IF arr[1] > HeaderSize - 1
                THEN Fail
                ELSE /\ in' = SubSeq(arr, arr[1] + 2, HeaderSize)
                     /\ reqlen' = LengthIn(arr)
                     /\ state' = "READING"
                     /\ Goto("read")
                     /\ UNCHANGED <<out, cursor>>
        /\ UNCHANGED <<client, peer, outbox, errno, handed, smooth, signals, conns>>

\* The read returns -1, or 0 at the end of the stream, which leaves errno as it
\* was: what happens then hangs on the last call that failed.
StartNothing ==
    /\ pc = "start"
    /\ \/ peer = "open" /\ Unread = 0 /\ errno' = "EAGAIN"
       \/ peer = "reset" /\ errno' = "ECONNRESET"
       \/ peer = "closed" /\ Unread = 0 /\ errno' = errno
    /\ \/ errno' = "EINTR" /\ UNCHANGED <<pc, machine>>
       \/ errno' = "EAGAIN" /\ Goto("idle") /\ UNCHANGED machine
       \/ errno' \notin {"EINTR", "EAGAIN"} /\ Fail
    /\ UNCHANGED <<client, peer, taken, outbox, handed, smooth, signals, conns>>

\* Fault: the read is not limited to what the request lacks.
ReadChunk ==
    LET n == Least(Unread, Increment)
    IN  /\ pc = "read" /\ Incomplete
        /\ peer # "reset" /\ n > 0
        /\ in' = in \o Taken(n)
        /\ taken' = taken + n
        /\ UNCHANGED <<client, peer, outbox, errno, pc, state, reqlen, out, cursor, handed, smooth, signals, conns>>

\* doReadFd reads the next part of the body.
ReadBody ==
    LET n == Least(Unread, Least(reqlen - Len(in), Increment))
    IN  /\ pc = "read" /\ Incomplete
        /\ peer # "reset" /\ n > 0
        /\ in' = in \o Taken(n)
        /\ taken' = taken + n
        /\ UNCHANGED <<client, peer, outbox, errno, pc, state, reqlen, out, cursor, handed, smooth, signals, conns>>

\* Fault: the end of the stream is taken for a read that can be tried again.
ReadEofAgain ==
    /\ pc = "read" /\ Incomplete
    /\ peer = "closed" /\ Unread = 0
    /\ UNCHANGED vars

\* At the end of the stream the call ends, without an error.
ReadEof ==
    /\ pc = "read" /\ Incomplete
    /\ peer = "closed" /\ Unread = 0
    /\ Goto("idle")
    /\ UNCHANGED <<client, peer, taken, outbox, errno, machine, handed, smooth, signals, conns>>

\* The read returns -1, which the code, holding it in a size_t, takes for a
\* number of bytes read.
ReadNothing ==
    /\ pc = "read" /\ Incomplete
    /\ \/ peer = "open" /\ Unread = 0 /\ errno' = "EAGAIN"
       \/ peer = "reset" /\ errno' = "ECONNRESET"
    /\ in' = Shrunk(in)
    /\ UNCHANGED <<client, peer, taken, outbox, pc, state, reqlen, out, cursor, handed, smooth, signals, conns>>

ReadEnd ==
    /\ pc = "read" /\ ~ Incomplete
    /\ state' = "PROCESSING"
    /\ Goto("process")
    /\ UNCHANGED <<client, peer, taken, outbox, errno, in, reqlen, out, cursor, handed, smooth, signals, conns>>

\* doProcessFd: the reply, or an error if the input does not decode.
ProcessFd ==
    /\ pc = "process"
    /\ handed' = Append(handed, in)
    /\ \/ /\ out' = Reply(Len(handed'))
          /\ state' = "WRITING"
          /\ Goto("write")
          /\ UNCHANGED <<in, reqlen, cursor>>
       \/ in \notin Good /\ Fail
    /\ UNCHANGED <<client, peer, taken, outbox, errno, smooth, signals, conns>>

\* doWriteFd writes some of what is left.
WriteFd ==
    /\ pc = "write"
    /\ peer # "reset"
    /\ \E n \in 1 .. Least(Len(out) - cursor, SendBuffer - Len(outbox)) :
        /\ outbox' = outbox \o SubSeq(out, cursor + 1, cursor + n)
        /\ cursor' = cursor + n
    /\ UNCHANGED <<client, peer, taken, errno, pc, state, in, reqlen, out, handed, smooth, signals, conns>>

WriteNothing ==
    /\ pc = "write" /\ cursor < Len(out)
    /\ \/ /\ peer # "reset" /\ Len(outbox) = SendBuffer
          /\ errno' = "EAGAIN"
          /\ Goto("idle")
          /\ UNCHANGED machine
       \/ /\ peer # "open"
          /\ errno' = "EPIPE"
          /\ Fail
    /\ UNCHANGED <<client, peer, taken, outbox, handed, smooth, signals, conns>>

\* Fault: the call ends after one write, as if all had been written.
WriteEndEarly ==
    /\ pc = "write" /\ cursor > 0
    /\ Reinit
    /\ Goto("idle")
    /\ UNCHANGED <<client, peer, taken, outbox, errno, handed, smooth, signals, conns>>

\* Fault: the machine stays in WRITING.
WriteEndStay ==
    /\ pc = "write" /\ cursor >= Len(out)
    /\ Goto("idle")
    /\ UNCHANGED <<client, peer, taken, outbox, errno, machine, handed, smooth, signals, conns>>

WriteEnd ==
    /\ pc = "write" /\ cursor >= Len(out)
    /\ Reinit
    /\ Goto("idle")
    /\ UNCHANGED <<client, peer, taken, outbox, errno, handed, smooth, signals, conns>>

\* A read or write is interrupted, and called again: in doReadFd, with one
\* byte less in in_.
Interrupted ==
    /\ signals < MaxSignals
    /\ signals' = signals + 1
    /\ errno' = "EINTR"
    /\ smooth' = FALSE
    /\ \/ pc = "start" /\ UNCHANGED in
       \/ pc = "read" /\ Incomplete /\ in' = Shrunk(in)
       \/ pc = "write" /\ cursor < Len(out) /\ UNCHANGED in
    /\ UNCHANGED <<client, peer, taken, outbox, pc, state, reqlen, out, cursor, handed, conns>>

----------------------------------------------------------------------------
Init ==
    /\ script = <<>> /\ sent = 0 /\ peer = "none" /\ received = <<>>
    /\ taken = 0 /\ outbox = <<>> /\ errno = "none"
    /\ pc = "idle" /\ state = "absent"
    /\ in = <<>> /\ reqlen = 0 /\ out = <<>> /\ cursor = 0
    /\ handed = <<>> /\ smooth = TRUE /\ signals = 0 /\ conns = 0

Step ==
    \/ StartRead
    \/ StartNothing
    \/ ReadBody
    \/ ReadEof
    \/ ReadNothing
    \/ ReadEnd
    \/ ProcessFd
    \/ WriteFd
    \/ WriteNothing
    \/ WriteEnd

Next ==
    \/ Connect
    \/ Send
    \/ Receive
    \/ Leave
    \/ UnregisterFd
    \/ HandleFd
    \/ Step
    \/ Interrupted

Spec == Init /\ [][Next]_vars

\* The worker runs and calls the handler of a registered descriptor again and
\* again; the client sends what it has to send and receives.
FairSpec == Spec
    /\ WF_vars(Step) /\ WF_vars(HandleFd) /\ WF_vars(UnregisterFd)
    /\ WF_vars(Send) /\ WF_vars(Receive)

----------------------------------------------------------------------------
(***************************************************************************)
(* Properties.                                                             *)
(***************************************************************************)

\* Every variable has its type; nothing is read that was not sent, and outside
\* a call the machine is never in PROCESSING.
TypeOK ==
    /\ peer \in {"open", "closed", "reset", "none"}
    /\ script \in Script \cup {<<>>}
    /\ sent \in 0 .. Len(Stream(script))
    /\ taken \in 0 .. sent
    /\ errno \in {"none", "EINTR", "EAGAIN", "ECONNRESET", "EPIPE"}
    /\ pc \in {"idle", "start", "read", "process", "write", "failed"}
    /\ state \in {"absent", "READY", "READING", "PROCESSING", "WRITING"}
    /\ in = Wrapped \/ in \in Seq(Byte)
    /\ reqlen \in Nat
    /\ cursor \in 0 .. Len(out)
    /\ Len(outbox) <= SendBuffer
    /\ smooth \in BOOLEAN
    /\ state = "PROCESSING" <=> pc = "process"

\* A request with a length that the server takes for that of its body, or for too
\* long: all of the body comes with the first read, or as much as the length says.
Measured(r) ==
    \/ r.head[1] > HeaderSize - 1
    \/ /\ Len(r.head) = r.head[1] + 1
       /\ \/ Len(Frame(r)) = HeaderSize /\ Number(r.head) <= Len(r.body)
          \/ Len(Frame(r)) > HeaderSize /\ Number(r.head) = Len(r.body)

\* As long as requests are measured and arrive whole and no call is interrupted: what
\* the handler is given, in order, is exactly what the client sent, no byte lost,
\* repeated or taken from the next request, until the client resets the connection.
HandedWhole == smooth /\ peer \in {"open", "closed"} =>
    /\ Len(handed) <= Len(script)
    /\ \A i \in DOMAIN handed : handed[i] = script[i].body

\* The client sees the replies in the order of the requests, each one whole
\* before the next begins, and none from an earlier connection.
Given     == received \o outbox
Before(n) == (n - 1) * ReplySize

RepliesInOrder ==
    \A i \in DOMAIN Given : \E n \in DOMAIN handed, j \in 1 .. ReplySize :
        i = Before(n) + j /\ Given[i] = Reply(n)[j]

\* A connection is a session: requests are handled one at a time, and after an
\* error nothing more is handled or written.
Sessions == INSTANCE Session WITH
    taken <- Len(handed),
    given <- Given,
    left <- SubSeq(out, cursor + 1, Len(out)),
    broken <- pc = "failed"

ImplementsSession == Sessions!Spec

\* A client that stays connected gets a reply to each request it has sent, if
\* requests arrive whole and no call is interrupted.
Answered(n) == Len(received) >= n * ReplySize

EveryRequestAnswered ==
    \A n \in 1 .. 2 :
        (smooth /\ peer = "open" /\ n <= Complete /\ \A i \in DOMAIN script : script[i].body \in Good)
        ~> (Answered(n) \/ peer \in {"closed", "reset"} \/ ~ smooth)

\* doc.md:53: a request is not processed until its end is seen.
NotBeforeItsEnd == peer = "open" => Len(handed) <= Complete

\* conn.cc:336: up to seven bytes hold the length.  What the machine waits for
\* is the number in those bytes.
LengthAsSent ==
    state = "READING" => reqlen = Number(Tail(script[Len(handed) + 1].head))

\* Every call of the handler ends, however the client comes, sends and goes and
\* whatever the length it announces: a worker serves its other clients again.  Not so
\* after an interrupted call, whose EINTR doStartFd takes, at the end of the stream,
\* for a reason to read again.
CallsEnd == (pc # "idle" /\ errno # "EINTR") ~> (pc = "idle" \/ errno = "EINTR")

=============================================================================
