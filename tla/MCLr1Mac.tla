------------------------------ MODULE MCLr1Mac ------------------------------
(***************************************************************************)
(* Instances of the class A engine for TLC.                                *)
(***************************************************************************)
EXTENDS Lr1Mac

Data(ack, cmd) == [type |-> "data", ack |-> ack, cmd |-> cmd]

\* The network always acknowledges a confirmed frame when it answers it.
Acknowledging == {Data(TRUE, c) : c \in {"none", "other", "adr"}}

\* The network may send a downlink before it acknowledges a confirmed frame.
AnyDownlink == {Data(a, c) : a \in BOOLEAN, c \in {"none", "other", "adr"}}
=============================================================================
