------------------------------- MODULE ClassC -------------------------------
(***************************************************************************)
(* The class C engine of the LoRaWAN MAC (lr1mac_class_c.c): between the   *)
(* transmissions and windows of class A the device listens all the time,   *)
(* for its unicast downlinks and for those of up to four multicast groups. *)
(*                                                                         *)
(* The main loop switches the class, configures groups, starts and stops   *)
(* multicast sessions and digests what class A received; the radio planner *)
(* answers the endless reception from interrupts, which decode the frame   *)
(* and start the next reception, at any point of a call of the main loop.  *)
(* The planner is seen from the hook of class C: slot is the phase of its  *)
(* task, air tells whether a task of class A has the radio.                *)
(***************************************************************************)
EXTENDS Integers, FiniteSets

CONSTANTS
    NGroups,    \* LR1MAC_NUMBER_OF_MC_SESSION
    Channels,   \* the pairs of a frequency and a data rate
    NoChannel,  \* the pair 0, 0xFF of a session that is stopped
    Low,        \* how many values the counter on air has (2^16)
    MaxCnt,     \* bound: the last counter the network uses
    Tracked,    \* the sessions whose frames the ghosts remember
    None        \* no frame of class A waits to be digested

Unicast  == 0
Groups   == 1 .. NGroups
Sessions == 0 .. NGroups
Counter  == -1 .. MaxCnt

ASSUME ClassCAssumption ==
    /\ {NGroups, Low} \subseteq Nat \ {0} /\ MaxCnt \in Nat
    /\ NoChannel \notin Channels /\ None \notin Nat /\ Tracked \subseteq Sessions

VARIABLES
    joined,     \* join_status of the class A engine
    macCnt,     \* lr1_mac->fcnt_dwn (-1: no downlink yet, ~0)
    macRx2,     \* lr1_mac->rx2_frequency and rx2_data_rate
    held,       \* the counter of a class A downlink the main loop has to digest
    on,         \* class_c_obj->enabled
    started,    \* class_c_obj->started
    ready,      \* the groups that have been given an address and keys
    open,       \* rx_session_param[].enabled
    chan,       \* rx_session_param[].rx_frequency and rx_data_rate
    fcnt,       \* rx_session_param[].fcnt_dwn
    slot,       \* the task of class C in the planner
    listen,     \* the channel of that task
    air,        \* who has the radio besides class C
    pc,         \* where the main loop stands
    panicked,   \* the panic "no RxC session enabled"
    lapsed,     \* ghost: class C was answered before its start had returned
    stale,      \* ghost: a start was refused, the reception keeps its channel
    twice,      \* ghost: sessions of which a frame was taken a second time
    taken       \* ghost: the frames that have been taken

mac      == <<joined, macCnt, macRx2, held>>
sessions == <<ready, open, chan, fcnt>>
radio    == <<slot, listen, air>>
ghosts   == <<lapsed, stale, twice, taken>>
vars     == <<mac, on, started, sessions, radio, pc, panicked, ghosts>>

-----------------------------------------------------------------------------
Init ==
    /\ joined = FALSE /\ macCnt = -1 /\ macRx2 \in Channels /\ held = None
    /\ on = FALSE /\ started = FALSE
    /\ ready = {} /\ open = [s \in Sessions |-> s = Unicast]
    /\ chan = [s \in Sessions |-> NoChannel] /\ fcnt = [s \in Sessions |-> 0]
    /\ slot = "idle" /\ listen = NoChannel /\ air = "free"
    /\ pc = "main" /\ panicked = FALSE
    /\ lapsed = FALSE /\ stale = FALSE /\ twice = {} /\ taken = {}

\* lr1mac_fcnt_dwn_accept: on air a frame has the low half of its counter; a larger one
\* than the last low half completes the last high half.  The MIC shows the true counter.
AcceptsAgain(last, n) ==  \* mutant
    IF last = -1 THEN n < Low ELSE last <= n /\ n < last - (last % Low) + Low
Accepts(last, n) ==
    IF last = -1 THEN n < Low ELSE last < n /\ n < last - (last % Low) + Low

Taken(s, n) ==
    /\ taken' = taken \union ({s} \intersect Tracked) \X {n}
    /\ twice' = IF <<s, n>> \in taken THEN twice \union {s} ELSE twice

\* The session whose parameters the reception gets: the last one that is enabled.
LastOpen == CHOOSE s \in Sessions : open[s] /\ \A t \in s + 1 .. NGroups : ~open[t]

\* lr1mac_class_c_start once class C is enabled, with the counters f and the task of
\* class C in phase p: the planner refuses a task that is running.
Begin(f, p) ==
    /\ chan' = [chan EXCEPT ![Unicast] = macRx2']
    /\ fcnt' = [f EXCEPT ![Unicast] = macCnt']
    /\ panicked' = (\A s \in Sessions : ~open[s])
    /\ lapsed' = FALSE
    /\ IF p = "running" \/ panicked'
         THEN slot' = p /\ listen' = listen /\ stale' = (p = "running")
         ELSE slot' = "waiting" /\ listen' = chan'[LastOpen] /\ stale' = FALSE

-----------------------------------------------------------------------------
(* lr1mac_class_c_rp_callback: the task is over *)

RestartsAlways == TRUE  \* mutant
RestartsRunning == started' /\ slot = "running"  \* mutant
Restarts == started'

\* f: the counters once the frame, if there is one, is digested.
Answered(f) ==
    /\ UNCHANGED <<macRx2, ready, open>>
    /\ IF Restarts
         THEN Begin(f, "idle")
         ELSE /\ slot' = "idle" /\ fcnt' = f /\ lapsed' = (lapsed \/ pc = "starting")
              /\ UNCHANGED <<chan, listen, panicked, stale>>

\* No frame, a wrong one, or an aborted task.
Nothing == macCnt' = macCnt /\ UNCHANGED <<twice, taken>> /\ Answered(fcnt)

\* lr1mac_class_c_mac_rp_callback with a frame for session s: a valid one also sets the
\* counter of the MAC back to the one of the unicast session.
Frame(s, n) ==
    /\ open[s] /\ Accepts(fcnt[s], n)
    /\ LET f == [fcnt EXCEPT ![s] = n]
       IN  macCnt' = f[Unicast] /\ Taken(s, n) /\ Answered(f)

Outcome == Nothing \/ \E s \in Sessions, n \in 0 .. MaxCnt : Frame(s, n)

Quiet == UNCHANGED <<macCnt, macRx2, sessions, listen, panicked, ghosts>>

\* rp_task_abort: a running task ends at once, perhaps with a frame that had just come; a
\* waiting one is answered at once, unless the planner is busy with class A.
Abort ==
    \/ slot = "running" /\ Outcome
    \/ slot = "waiting" /\ air = "free" /\ Nothing
    \/ slot = "waiting" /\ air = "class A" /\ slot' = "aborted" /\ Quiet
    \/ slot \in {"idle", "aborted"} /\ slot' = slot /\ Quiet

-----------------------------------------------------------------------------
(* The interrupts *)

Interrupt == UNCHANGED <<joined, on, started, pc>>

\* The arbiter gives the radio to the reception.
Listen ==
    /\ Interrupt /\ air' = air
    /\ slot = "waiting" /\ air = "free" /\ slot' = "running" /\ held' = held /\ Quiet

Receive == Interrupt /\ slot = "running" /\ Outcome /\ air' = air /\ held' = held

\* A transmission or a window of class A takes the radio, from class C if need be.
ClassATask ==
    /\ Interrupt
    /\ joined /\ air = "free" /\ held = None /\ air' = "class A" /\ held' = held
    /\ slot' = (IF slot = "running" THEN "aborted" ELSE slot) /\ Quiet

\* It is over; before the radio is given away again the aborted task is answered.
CallsAbortedNever == FALSE  \* mutant
CallsAborted == slot = "aborted"

ClassADone ==
    /\ Interrupt
    /\ air = "class A" /\ air' = "free"
    /\ held' \in {None} \union 0 .. MaxCnt
    /\ IF CallsAborted THEN Nothing
                       ELSE slot' = slot /\ Quiet

-----------------------------------------------------------------------------
(* The main loop: the class *)

Call(next) == pc = "main" /\ pc' = next /\ air' = air

\* The part of lr1mac_class_c_start that comes before it notes that it has started.
Start(enabled) ==
    IF enabled THEN Call("starting") /\ Begin(fcnt, slot)
               ELSE Call("main") /\ UNCHANGED <<chan, fcnt, slot, listen, panicked, lapsed, stale>>

Started ==
    /\ pc = "starting" /\ pc' = "main" /\ started' = TRUE
    /\ UNCHANGED <<mac, on, sessions, radio, panicked, ghosts>>

\* A join accept is digested; the supervisor starts class C, if it is enabled.
Join ==
    /\ ~joined /\ air = "free" /\ held = None
    /\ joined' = TRUE /\ macCnt' = -1 /\ macRx2' \in Channels
    /\ taken' = {t \in taken : t[1] # Unicast} /\ twice' = twice \ {Unicast}
    /\ Start(on)
    /\ UNCHANGED <<held, on, started, ready, open>>

\* lorawan_api_class_c_enabled(true).
Enable ==
    /\ on' = TRUE
    /\ UNCHANGED <<mac, started, ready, open, twice, taken>>
    /\ Start(joined)

\* lorawan_api_class_c_enabled(false), on its own or when the device leaves the network.
Disable(leave) ==
    /\ Call("main") /\ held' = held
    /\ on' = FALSE /\ joined' = (joined /\ ~leave)
    /\ IF on THEN started' = FALSE /\ Abort
             ELSE started' = started /\ slot' = slot /\ Quiet

\* A downlink of class A is checked against the counter of the MAC ...
Digest ==
    /\ held # None
    /\ IF Accepts(macCnt, held) THEN Call("digest") /\ held' = held
                                ELSE Call("main") /\ held' = None
    /\ UNCHANGED <<joined, macCnt, macRx2, on, started, sessions, slot, listen, panicked, ghosts>>

\* ... which it becomes; it may carry RXParamSetupReq.
Digested ==
    /\ pc = "digest" /\ pc' = "main"
    /\ macCnt' = held /\ macRx2' \in Channels /\ held' = None /\ Taken(Unicast, held)
    /\ UNCHANGED <<joined, on, started, sessions, radio, panicked, lapsed, stale>>

-----------------------------------------------------------------------------
(* The main loop: multicast sessions *)

Kept == UNCHANGED <<mac, on, started, fcnt, slot, listen, panicked, lapsed, stale, twice>>

\* lr1mac_class_c_multicast_set_group_config: the counter of the group stays what it was.
Configure(g) ==
    /\ Call("main") /\ ~open[g]
    /\ ready' = ready \union {g} /\ taken' = {t \in taken : t[1] # g}
    /\ UNCHANGED <<open, chan>> /\ Kept

\* Its parameters have to be those of the first session that is enabled.
CompatibleAlways(c) == TRUE  \* mutant
Compatible(c) ==
    \A g \in Groups : open[g] /\ (\A h \in 1 .. g - 1 : ~open[h]) => chan[g] = c

\* lr1mac_class_c_multicast_start_session.
StartSession(g, c) ==
    /\ ~open[g] /\ g \in ready /\ Compatible(c)
    /\ Call(IF chan[Unicast] # c THEN "abort" ELSE "main")
    /\ chan' = [chan EXCEPT ![g] = c]
    /\ open' = [open EXCEPT ![g] = TRUE, ![Unicast] = @ /\ chan[Unicast] = c]
    /\ UNCHANGED <<ready, taken>> /\ Kept

\* lr1mac_class_c_multicast_stop_session and _stop_all_sessions, which does nothing more
\* when no session was open.
StopSessions(S) ==
    /\ Call("stopping")
    /\ open' = [s \in Sessions |-> open[s] /\ s \notin S]
    /\ chan' = [s \in Sessions |-> IF s \in S THEN NoChannel ELSE chan[s]]
    /\ UNCHANGED <<ready, taken>> /\ Kept

StopSession(g) == StopSessions({g})
StopAll == (\E g \in Groups : open[g]) /\ StopSessions(Groups)

\* With the last session the unicast one comes back.
Reenables == \A g \in Groups : ~open[g]

Stopped ==
    /\ pc = "stopping" /\ air' = air
    /\ IF Reenables THEN pc' = "abort" /\ open' = [open EXCEPT ![Unicast] = TRUE]
                    ELSE pc' = "main" /\ open' = open
    /\ UNCHANGED <<ready, chan, taken>> /\ Kept

\* The session has changed: the reception is aborted, to be started again.
AbortReception ==
    /\ pc = "abort" /\ pc' = "main" /\ air' = air
    /\ UNCHANGED <<joined, on, started, held>> /\ Abort

-----------------------------------------------------------------------------
\* The panic resets the device.
Reset ==
    /\ panicked /\ macRx2' \in Channels
    /\ joined' = FALSE /\ macCnt' = -1 /\ held' = None
    /\ on' = FALSE /\ started' = FALSE
    /\ ready' = {} /\ open' = [s \in Sessions |-> s = Unicast]
    /\ chan' = [s \in Sessions |-> NoChannel] /\ fcnt' = [s \in Sessions |-> 0]
    /\ slot' = "idle" /\ listen' = NoChannel /\ air' = "free"
    /\ pc' = "main" /\ panicked' = FALSE
    /\ lapsed' = FALSE /\ stale' = FALSE /\ twice' = {} /\ taken' = {}

Planner == Listen \/ Receive \/ ClassATask \/ ClassADone
Class   == Started \/ Join \/ Enable \/ (\E l \in BOOLEAN : Disable(l)) \/ Digest \/ Digested
Multicast ==
    \/ \E g \in Groups : Configure(g) \/ StopSession(g) \/ \E c \in Channels : StartSession(g, c)
    \/ StopAll \/ Stopped \/ AbortReception

Next == Reset \/ (~panicked /\ (Planner \/ Class \/ Multicast))

Spec == Init /\ [][Next]_vars

\* The planner answers, the radio comes back to class C, the main loop returns from its
\* calls.
Fairness ==
    /\ SF_vars(~panicked /\ Listen) /\ WF_vars(~panicked /\ ClassADone)
    /\ WF_vars(~panicked /\ (Started \/ Digest \/ Digested \/ Stopped \/ AbortReception))
    /\ WF_vars(Reset)

FairSpec == Spec /\ Fairness

-----------------------------------------------------------------------------
(* Properties *)

\* Every variable holds what the code can put there; class C only starts, and
\* only has a reception, when it is enabled on a device that has joined.
TypeOK ==
    /\ {joined, on, started, panicked, lapsed, stale} \subseteq BOOLEAN
    /\ macCnt \in Counter /\ macRx2 \in Channels /\ held \in {None} \union 0 .. MaxCnt
    /\ ready \subseteq Groups /\ open \in [Sessions -> BOOLEAN]
    /\ chan \in [Sessions -> Channels \union {NoChannel}] /\ fcnt \in [Sessions -> Counter]
    /\ slot \in {"idle", "waiting", "running", "aborted"}
    /\ listen \in Channels \union {NoChannel} /\ air \in {"free", "class A"}
    /\ pc \in {"main", "starting", "digest", "stopping", "abort"}
    /\ twice \subseteq Sessions /\ taken \subseteq Sessions \X (0 .. MaxCnt)
    /\ started \/ pc = "starting" => joined /\ on
    /\ slot \in {"waiting", "running"} => joined /\ on
    /\ (air = "class A" => held = None) /\ (pc = "digest" => held # None)

\* Once class C has started, the planner always owes it an answer, so that the device
\* never goes deaf by an answer that starts nothing -- unless the answer comes before
\* lr1mac_class_c_start has noted that it has started.
Listening == on /\ started => slot # "idle" \/ lapsed \/ panicked

\* The reception is set for the sessions that are enabled: the groups share a channel,
\* it is the one the radio listens to (unless the planner has refused to set it), and
\* without a group it is the unicast session that is heard.
Tuned ==
    /\ \A g, h \in Groups : open[g] /\ open[h] => chan[g] = chan[h]
    /\ slot \in {"waiting", "running"} /\ pc # "abort" /\ ~stale
           => \A g \in Groups : open[g] => listen = chan[g]
    /\ pc # "stopping" => (\E g \in Groups : open[g]) \/ open[Unicast]

\* No frame of a group is handed to the application twice under the same keys.
GroupsOnce == twice \subseteq {Unicast}

\* After every transmission, window and change of session the device listens again.
Resumes ==
    (on /\ started) ~> (slot = "running" \/ ~on \/ lapsed \/ panicked)

-----------------------------------------------------------------------------
(* What the code says, and does not keep: see the README *)

\* "no RxC session enabled" is never reached.
NoPanic == ~panicked

\* A session that smtc_modem_multicast_start_session has accepted is heard on the
\* frequency it has been given.
HeardWhereStarted ==
    slot \in {"waiting", "running"} /\ pc # "abort"
        => \A g \in Groups : open[g] => listen = chan[g]

\* A reception that ends is started again in the callback of the planner.
NeverLapses == ~lapsed

\* No unicast frame is taken twice.
TakenOnce == twice = {}
=============================================================================
