------------------------------ MODULE MCStream ------------------------------
(* A small instance of Stream *)
EXTENDS Stream

\* Records with and without octets that look like a tag (2).
SomePayloads == {<<3>>, <<2, 3>>, <<2, 2>>}
=============================================================================
