---------------------------- MODULE RadioService ----------------------------
(***************************************************************************)
(* What the radio planner promises to the users of its hooks, whatever it  *)
(* decides inside: a task that is asked for waits, may go on air, closes,  *)
(* and its user is answered; one task at most is on air; the radio works   *)
(* for the task on air and for no other; a task may close without ever     *)
(* going on air, but is never answered before it has closed.               *)
(***************************************************************************)
CONSTANTS Hook, None

VARIABLES phase,  \* phase[h]: what has become of the task of hook h
          user    \* the hook the radio works for, or None

vars == <<phase, user>>

Phase == {"idle", "waiting", "onair", "closing"}

Init == phase = [h \in Hook |-> "idle"] /\ user = None

OnAir == {h \in Hook : phase[h] = "onair"}

\* A hook asks; a task that is not on air is replaced.
Ask(h) ==
    /\ phase[h] # "onair"
    /\ phase' = [phase EXCEPT ![h] = "waiting"]
    /\ UNCHANGED user

\* Nobody is on air: a waiting task goes on air, not yet using the radio.
Admit(h) ==
    /\ OnAir = {} /\ phase[h] = "waiting"
    /\ phase' = [phase EXCEPT ![h] = "onair"]
    /\ UNCHANGED user

\* A waiting task takes the place of the one on air, whose use of the radio stops.
Replace(g, h) ==
    /\ phase[g] = "onair" /\ phase[h] = "waiting"
    /\ phase' = [phase EXCEPT ![g] = "closing", ![h] = "onair"]
    /\ user' = None

\* The radio starts to work for the task on air, or stops.
Use(h) == phase[h] = "onair" /\ user' = h /\ UNCHANGED phase
Release == user' = None /\ UNCHANGED phase

\* Some waiting tasks are given up, or the task on air ends.
GiveUp(S) ==
    /\ S # {} /\ \A h \in S : phase[h] = "waiting"
    /\ phase' = [h \in Hook |-> IF h \in S THEN "closing" ELSE phase[h]]
    /\ UNCHANGED user
End(h) ==
    /\ phase[h] = "onair"
    /\ phase' = [phase EXCEPT ![h] = "closing"]
    /\ user' = None

\* The callback of a closed task.
Answer(h) ==
    /\ phase[h] = "closing"
    /\ phase' = [phase EXCEPT ![h] = "idle"]
    /\ UNCHANGED user

Next ==
    \/ \E h \in Hook : Ask(h) \/ Admit(h) \/ Use(h) \/ End(h) \/ Answer(h)
    \/ \E g, h \in Hook : Replace(g, h)
    \/ \E S \in SUBSET Hook : GiveUp(S)
    \/ Release

Spec == Init /\ [][Next]_vars
=============================================================================
