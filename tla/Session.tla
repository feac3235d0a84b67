------------------------------ MODULE Session ------------------------------
(***************************************************************************)
(* What a client of the server may rely on, of one connection after the    *)
(* other: requests are handled one at a time; the reply to one is given    *)
(* whole, perhaps in pieces, before the next request is taken up; and once *)
(* the connection has failed nothing more is taken or given, until it      *)
(* ends.                                                                   *)
(***************************************************************************)
EXTENDS Naturals, Sequences

CONSTANT ReplySize  \* parts of a reply

VARIABLES
    taken,   \* how many requests have been taken up
    given,   \* the parts of replies that the client has been given
    left,    \* what is left of the reply to the last one
    broken   \* the connection has failed

vars == <<taken, given, left, broken>>

ReplyTo(n) == [i \in 1 .. ReplySize |-> <<n, i>>]

Init == taken = 0 /\ given = <<>> /\ left = <<>> /\ broken = FALSE

\* A request is answered, or refused, which breaks the connection.
Take ==
    /\ ~ broken /\ left = <<>>
    /\ taken' = taken + 1
    /\ \/ left' = ReplyTo(taken') /\ UNCHANGED broken
       \/ broken' = TRUE /\ UNCHANGED left
    /\ UNCHANGED given

Give ==
    /\ ~ broken
    /\ \E n \in 1 .. Len(left) :
        /\ given' = given \o SubSeq(left, 1, n)
        /\ left' = SubSeq(left, n + 1, Len(left))
    /\ UNCHANGED <<taken, broken>>

Break ==
    /\ ~ broken
    /\ broken' = TRUE
    /\ left' = <<>>
    /\ UNCHANGED <<taken, given>>

End == taken' = 0 /\ given' = <<>> /\ left' = <<>> /\ broken' = FALSE

Next == Take \/ Give \/ Break \/ End

Spec == Init /\ [][Next]_vars

=============================================================================
