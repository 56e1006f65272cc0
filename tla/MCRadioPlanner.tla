--------------------------- MODULE MCRadioPlanner ---------------------------
(***************************************************************************)
(* Instances of the radio planner for TLC.  The hooks that matter are      *)
(* RP_HOOK_ID_SUSPEND (1), LR1MAC_STACK (2), LBT (3) and CLASS_C (7).      *)
(***************************************************************************)
EXTENDS RadioPlanner, TLC

Req(st, kind, offset, dur) == [st |-> st, kind |-> kind, offset |-> offset, dur |-> dur]
Table(f) == [h \in Hook |-> IF h \in DOMAIN f THEN f[h] ELSE {}]

Window   == Req("schedule", "rx", 4, 1)   \* a reception window, soon
Missed   == Req("schedule", "rx", -1, 1)  \* one whose time has passed
Uplink   == Req("asap", "tx", 0, 3)
Suspend  == Req("schedule", "none", 2, 6) \* launched ahead of its start, which Sense ends before
Sense    == Req("asap", "lbt", 0, 1)
Continue == Req("asap", "rx", 0, 1)       \* the endless reception of class C

\* Everything; all but the suspensions, which end only when aborted; class C and the MAC's
\* windows, as it takes to make a call of rp_task_abort lose its critical section.
AllTasks    == Table(1 :> {Suspend} @@ 2 :> {Window, Missed, Uplink} @@ 3 :> {Sense}
                      @@ 7 :> {Continue})
LbtTasks    == Table(2 :> {Window, Uplink} @@ 3 :> {Sense} @@ 7 :> {Continue})
ClassCTasks == Table(2 :> {Window} @@ 7 :> {Continue})

\* LBT sends when it was not given up and finds the channel free; class C listens again
\* whatever it is told, if it has not been stopped.
ChainTable  == [h \in Hook |-> [s \in Status |->
                   {None} \union CASE h = 3 /\ s = "done" -> {2}
                                   [] h = 7               -> {7}
                                   [] OTHER               -> {}]]
ClassCChain == [h \in Hook |-> [s \in Status |-> IF h = 7 THEN {7} ELSE {None}]]
=============================================================================
