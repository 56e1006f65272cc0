---------------------------- MODULE DownlinkQueue ----------------------------
(***************************************************************************)
(* What the downlink fifo promises to the application: the downlinks come  *)
(* out whole and in the order they came in; one that does not fit displaces *)
(* the oldest ones, and no more of them than it must.                      *)
(***************************************************************************)
EXTENDS Naturals, Sequences, SequencesExt

CONSTANTS Capacity, Header

VARIABLES queue, taken

Octets(q) == FoldSeq(LAMBDA m, sum : sum + Header + Len(m.data), 0, q)
Newest(d) == SubSeq(queue, d + 1, Len(queue))
Fits(m, d) == Octets(Append(Newest(d), m)) <= Capacity

Init == queue = <<>> /\ taken = <<>>

Put(m) ==
    \E d \in 0 .. Len(queue) :
        /\ Fits(m, d) /\ \A e \in 0 .. d - 1 : ~Fits(m, e)
        /\ queue' = Append(Newest(d), m)
        /\ UNCHANGED taken

Take ==
    /\ queue # <<>>
    /\ taken' = <<Head(queue)>> /\ queue' = Tail(queue)

\* The message is known by what is at the end of the queue after the step.
Next == Take \/ (queue' # <<>> /\ Put(Last(queue')))

Spec == Init /\ [][Next]_<<queue, taken>>
=============================================================================
