----------------------------- MODULE MCGateway -----------------------------
EXTENDS Gateway

CONSTANTS p, q, a, b

MCContents == {<<>>, <<a>>, <<a, b>>}

(* One command prints something, the other does not.                       *)
MCOutput == [x \in Blobs \cup {Empty} |-> IF x = a THEN b ELSE Empty]
=============================================================================
