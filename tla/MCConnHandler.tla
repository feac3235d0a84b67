--------------------------- MODULE MCConnHandler ---------------------------
(***************************************************************************)
(* Small instances of ConnHandler: bytes of four values, three bytes in    *)
(* the first read, two in the others.                                      *)
(***************************************************************************)
EXTENDS ConnHandler

\* Requests whose body is as long as the server takes it to be: all of it in
\* the first read, or its first byte.
Short == [head |-> <<0>>, body |-> <<1, 2>>]
Long  == [head |-> <<1, 0>>, body |-> <<0, 1, 2, 3>>]
Odd   == [head |-> <<1, 1>>, body |-> <<3, 0, 0, 1, 2>>]
\* A body that does not decode, and a count that is too large.
Bad   == [head |-> <<0>>, body |-> <<3, 3>>]
Huge  == [head |-> <<3>>, body |-> <<2, 2>>]
\* A request whose length bytes hold the length of its body.
Plain == [head |-> <<1, 2>>, body |-> <<1, 2>>]

MCGood   == {Short.body, Long.body, Odd.body, Plain.body}
MCScript == {<<Long, Short>>, <<Short, Bad>>, <<Huge>>}
MCLong   == {<<Odd>>}
MCPlain  == {<<Plain>>}

ASSUME AllMeasured == \A s \in MCScript \cup MCLong : \A i \in DOMAIN s : Measured(s[i])
=============================================================================
