---------------------------- MODULE LinearStore ----------------------------
(***************************************************************************)
(* What an ndb database promises its callers, whatever the threads do:     *)
(* every call takes effect on the whole content at one instant between its *)
(* invocation and its response, or fails and leaves the content alone.     *)
(* Module Ndb implements it with a lock per key and two database accesses  *)
(* for incrdecr.                                                           *)
(***************************************************************************)
EXTENDS NdbData

VARIABLES
    db,      \* the content of the database
    call,    \* call[t] is the call thread t is making, or NoCall
    answer,  \* answer[t] is the reply to it, once it has taken effect
    phase    \* phase[t] is "idle", "called" or "done"

vars == <<db, call, answer, phase>>

Init ==
    /\ db = InitDb
    /\ call = [t \in Thread |-> NoCall]
    /\ answer = [t \in Thread |-> <<>>]
    /\ phase = [t \in Thread |-> "idle"]

Invoke(t) ==
    /\ phase[t] = "idle"
    /\ \E c \in Call : call' = [call EXCEPT ![t] = c]
    /\ phase' = [phase EXCEPT ![t] = "called"]
    /\ UNCHANGED <<db, answer>>

\* The call takes effect: the new content and the reply are decided together.
TakeEffect(t, d, a) ==
    /\ db' = d
    /\ answer' = [answer EXCEPT ![t] = a]
    /\ phase' = [phase EXCEPT ![t] = "done"]
    /\ UNCHANGED call

Calling(t, op) == phase[t] = "called" /\ call[t].op = op

Fail(t) ==
    /\ Calling(t, "incrdecr") \/ Calling(t, "update")
    /\ TakeEffect(t, db, Error("fault"))

IncrDecr(t) ==
    LET c == call[t]
        v == Stepped(c, db[c.key])
    IN  /\ Calling(t, "incrdecr")
        /\ IF db[c.key] \in Blob
           THEN TakeEffect(t, db, Error("bad_size"))
           ELSE TakeEffect(t, [db EXCEPT ![c.key] = v], Ok(v))

Update(t) ==
    /\ Calling(t, "update")
    /\ TakeEffect(t, Applied(db, Batch(call[t])), Ok(Absent))

Gets(t) ==
    /\ Calling(t, "gets")
    /\ \E a \in ReadAnswers(call[t], db) : TakeEffect(t, db, a)

Respond(t) ==
    /\ phase[t] = "done"
    /\ phase' = [phase EXCEPT ![t] = "idle"]
    /\ call' = [call EXCEPT ![t] = NoCall]
    /\ answer' = [answer EXCEPT ![t] = <<>>]
    /\ UNCHANGED db

\* The process dies: unanswered calls are lost, the content is not.
Crash ==
    /\ phase' = [t \in Thread |-> "idle"]
    /\ call' = [t \in Thread |-> NoCall]
    /\ answer' = [t \in Thread |-> <<>>]
    /\ UNCHANGED db

Next ==
    \/ \E t \in Thread : Invoke(t) \/ Fail(t) \/ IncrDecr(t) \/ Update(t) \/ Gets(t) \/ Respond(t)
    \/ Crash

Spec == Init /\ [][Next]_vars

=============================================================================
