------------------------------- MODULE Lr1Mac -------------------------------
(***************************************************************************)
(* The class A engine of the LoRaWAN MAC (lr1mac_core.c and                *)
(* lr1_stack_mac_layer.c): a join request or an uplink is sent, two        *)
(* reception windows follow, what was received is digested, and the MAC is *)
(* idle again or prepares a repetition or an answer to the network.        *)
(*                                                                         *)
(* The main loop polls lr1mac_core_process unless the MAC is idle; the     *)
(* radio planner answers each task of the MAC from an interrupt, at any    *)
(* point of the polling.  The planner is the one RadioService promises,    *)
(* seen from one hook: slot is the phase of the MAC's task.  The device    *)
(* may reset at any time: RAM is lost, and the flash page of the DevNonce  *)
(* is what the last store left of it.                                      *)
(***************************************************************************)
EXTENDS Integers

CONSTANTS
    NonceMax,   \* the last DevNonce (0xFFFF): from there on it no longer grows
    MaxTrans,   \* the largest nb_trans the network may ask for
    Windows,    \* what may become of a window when it is asked for
    Downlinks,  \* the valid data frames the network may answer
    MaxCalls,   \* bound: calls of the API and resets
    MaxCnt,     \* bound: no more MAC commands from this frame counter on
    None        \* nothing in the flash page

Window   == {"open", "grazed", "missed"}
Downlink == [type : {"data"}, ack : BOOLEAN, cmd : {"none", "other", "adr"}]
Packet   == Downlink \union {[type |-> t, ack |-> FALSE, cmd |-> "none"] :
                                t \in {"bad", "accept"}}
Bad      == [type |-> "bad", ack |-> FALSE, cmd |-> "none"]
Accept   == [type |-> "accept", ack |-> FALSE, cmd |-> "none"]
Nonce    == 0 .. NonceMax

ASSUME MacAssumption ==
    /\ {NonceMax, MaxTrans} \subseteq Nat \ {0}
    /\ {MaxCalls, MaxCnt} \subseteq Nat
    /\ Windows \subseteq Window /\ Downlinks \subseteq Downlink
    /\ None \notin Nonce

VARIABLES
    state,       \* lr1mac_state
    radioState,  \* radio_process_state
    rpStatus,    \* planner_status
    rx,          \* what rx_payload holds
    pc,          \* where lr1mac_core_process stands
    joined,      \* join_status
    mtype,       \* tx_mtype
    nbTrans,     \* nb_trans
    nbTransCpt,  \* nb_trans_cpt
    fcnt,        \* fcnt_up
    frame,       \* the counter in the frame that was built last
    nonce,       \* dev_nonce
    tooSoon,     \* next_time_to_join_seconds is in the future
    nvm,         \* the DevNonce in flash
    slot,        \* the task of the MAC in the planner
    lbtOn,       \* is the LBT enabled (a matter of region)?
    lbt,         \* is a carrier sense asked for?
    aired,       \* ghost: how often the last built frame went on air
    lastCnt,     \* ghost: the last counter put on air in this session
    spent,       \* ghost: the nonces that have been saved
    torn,        \* ghost: has a reset hit the store of the DevNonce?
    overtaken,   \* ghost: has an answer come before the MAC was ready for it?
    calls        \* bound: calls and resets so far

up      == <<mtype, nbTrans, nbTransCpt, fcnt, frame>>
answer  == <<rpStatus, rx>>
data    == <<answer, joined, up, nonce, tooSoon>>
mac     == <<state, radioState, data>>
planner == <<slot, lbtOn, lbt>>
excuses == <<torn, overtaken>>
ghosts  == <<aired, lastCnt, spent, excuses>>
vars    == <<mac, pc, nvm, planner, ghosts, calls>>

-----------------------------------------------------------------------------
\* load_devnonce_reset: the saved nonce, or 0 when the page is not valid.
Loaded == IF nvm = None THEN 0 ELSE nvm

Init ==
    /\ state = "idle" /\ radioState = "idle" /\ rpStatus = "none" /\ rx = Bad
    /\ pc = "main" /\ joined = FALSE /\ mtype = "join" /\ tooSoon = FALSE
    /\ nbTrans = 1 /\ nbTransCpt = 0 /\ fcnt = 0 /\ frame = 0
    /\ nvm = None /\ nonce = 0
    /\ slot = "idle" /\ lbt = FALSE /\ lbtOn \in BOOLEAN
    /\ aired = 0 /\ lastCnt = -1 /\ spent = {} /\ calls = 0
    /\ torn = FALSE /\ overtaken = FALSE

\* What a reset leaves.
Restarted ==
    /\ state' = "idle" /\ radioState' = "idle" /\ rpStatus' = "none" /\ rx' = Bad
    /\ pc' = "main" /\ joined' = FALSE /\ mtype' = "join" /\ tooSoon' = FALSE
    /\ nbTrans' = 1 /\ nbTransCpt' = 0 /\ fcnt' = 0 /\ frame' = 0
    /\ nonce' = Loaded
    /\ slot' = "idle" /\ lbt' = FALSE
    /\ aired' = 0 /\ lastCnt' = -1
    /\ torn' = (torn \/ pc = "store") /\ overtaken' = FALSE
    /\ UNCHANGED <<nvm, lbtOn, spent>>

\* A reset of the device: power, watchdog, a call of the host.
Reset == calls < MaxCalls /\ calls' = calls + 1 /\ Restarted

-----------------------------------------------------------------------------
(* The calls of the modem *)

Called == pc = "main" /\ calls < MaxCalls /\ calls' = calls + 1

\* lr1mac_core_join, called when the time to join has come.
NextUnbounded(n) == n + 1  \* mutant
NextNonce(n) == IF n < NonceMax THEN n + 1 ELSE n

Join ==
    /\ Called /\ state = "idle" /\ ~tooSoon
    /\ joined' = FALSE
    /\ nonce' = NextNonce(nonce)
    /\ mtype' = "join" /\ nbTrans' = 1 /\ nbTransCpt' = 1
    /\ state' = "send" /\ aired' = 0
    /\ UNCHANGED <<radioState, answer, pc, fcnt, frame, tooSoon, nvm,
                   planner, lastCnt, spent, excuses>>

\* lr1mac_core_payload_send, when a channel is free.
Send(type) ==
    /\ Called /\ state = "idle" /\ joined
    /\ mtype' = type /\ frame' = fcnt /\ aired' = 0
    /\ nbTransCpt' = nbTrans
    /\ state' = "send"
    /\ UNCHANGED <<radioState, answer, pc, joined, nbTrans, fcnt, nonce, tooSoon,
                   nvm, planner, lastCnt, spent, excuses>>

\* rp_task_abort: the task ends aborted, or as the radio has just completed it.
AbortedSilently == {"idle"}  \* mutant
AbortedSlot ==
    CASE slot = "waiting" -> {"aborted"}
      [] slot = "onair"   -> {"aborted", "done"}
      [] OTHER            -> {slot}

\* lr1mac_core_join_status_clear, with lr1mac_core_abort.
Leave ==
    /\ Called
    /\ joined' = FALSE /\ nbTransCpt' = 1
    /\ slot' \in AbortedSlot
    /\ UNCHANGED <<state, radioState, answer, pc, mtype, nbTrans, fcnt, frame,
                   nonce, tooSoon, nvm, lbtOn, lbt, ghosts>>

-----------------------------------------------------------------------------
(* lr1mac_mac_update: the end of a cycle, with the valid packet p or Bad *)

Answers(p)   == p.type = "data" /\ p.cmd # "none"

\* A valid frame ends the repetitions, unless a confirmed frame still waits for its ack.
RemainingKept(p) == nbTransCpt  \* mutant
Remaining(p) == IF p.type = "data" /\ (p.ack \/ mtype # "conf") THEN 1 ELSE nbTransCpt

Counted(base, repeat) == IF repeat THEN base ELSE base + 1
LeftSame(left) == IF left > 1 THEN left ELSE 1  \* mutant
Left(left) == IF left > 1 THEN left - 1 ELSE 1

MacUpdate(p) ==
    \E accepted \in {p.type = "accept", FALSE}, free \in BOOLEAN, n \in 1 .. MaxTrans :
        LET repeat == Remaining(p) > 1
            ans    == Answers(p)
            cnt    == Counted(IF accepted THEN 0 ELSE fcnt, repeat)
        IN  /\ (p.type = "data" /\ p.cmd = "adr") \/ n = nbTrans
            /\ ans \/ repeat \/ free
            /\ radioState' = "idle"
            /\ joined' = (joined \/ accepted)
            /\ tooSoon' = (tooSoon \/ ~joined')
            /\ nbTrans' = n
            /\ nbTransCpt' = IF ans THEN n ELSE Left(Remaining(p))
            /\ fcnt' = IF ~free /\ repeat /\ ~ans THEN cnt + 1 ELSE cnt
            /\ frame' = IF ans THEN cnt ELSE frame
            /\ mtype' = IF ans THEN "unconf" ELSE mtype
            /\ aired' = IF ans THEN 0 ELSE aired
            /\ lastCnt' = IF accepted THEN -1 ELSE lastCnt
            /\ state' = IF (ans \/ repeat) /\ free THEN "txwait" ELSE "idle"
            /\ nvm' = IF accepted THEN None ELSE nvm
            /\ pc' = IF accepted THEN "store" ELSE "main"
            /\ UNCHANGED <<answer, nonce, planner, spent, excuses, calls>>

-----------------------------------------------------------------------------
(* lr1mac_core_process *)

Polled == pc = "main" /\ state # "idle"
Active == Polled /\ radioState # "aborted" /\ (joined \/ ~tooSoon)

\* "TOO SOON TO JOIN": the cycle is dropped.
ProcessTooSoon ==
    /\ Polled /\ radioState # "aborted" /\ ~joined /\ tooSoon
    /\ state' = "idle"
    /\ UNCHANGED <<radioState, data, pc, nvm, planner, ghosts, calls>>

\* An aborted task ends the cycle, in whatever state it stands, as if nothing
\* had been received.
ProcessAborted == Polled /\ radioState = "aborted" /\ MacUpdate(Bad)

\* lr1_stack_mac_tx_radio_start: TX_ON is set before the task is enqueued; the
\* planner refuses a task only while the previous one is on air.
StartTxUnmarked ==  \* mutant
    IF slot = "onair" THEN radioState' = "aborted" /\ UNCHANGED slot
                      ELSE radioState' = "pending" /\ slot' = "waiting"
StartTx ==
    IF slot = "onair" THEN radioState' = "aborted" /\ UNCHANGED slot
                      ELSE radioState' = "txon" /\ slot' = "waiting"

ProcessSend ==
    /\ Active /\ state = "send" /\ radioState = "idle" /\ ~lbtOn
    /\ StartTx
    /\ UNCHANGED <<state, data, pc, nvm, lbtOn, lbt, ghosts, calls>>

ProcessListen ==
    /\ Active /\ state = "send" /\ radioState = "idle" /\ lbtOn
    /\ radioState' = "pending" /\ lbt' = TRUE
    /\ UNCHANGED <<state, data, pc, nvm, slot, lbtOn, ghosts, calls>>

\* The transmission is over: a join request's nonce is saved, then RX1 is set up.
ProcessTxFinished ==
    /\ Active /\ state = "send" /\ radioState = "txfinished"
    /\ state' = "rx1"
    /\ IF joined THEN pc' = "window" /\ UNCHANGED nvm
                 ELSE pc' = "store" /\ nvm' = None
    /\ UNCHANGED <<radioState, data, planner, ghosts, calls>>

\* save_devnonce_rst: the page has been erased, now it is written.
SaveBehind ==  \* mutant
    /\ pc = "store"
    /\ nvm' = nonce - 1
    /\ spent' = spent \union {nonce}
    /\ pc' = IF radioState = "txfinished" THEN "window" ELSE "main"
    /\ UNCHANGED <<mac, planner, aired, lastCnt, excuses, calls>>
Save ==
    /\ pc = "store"
    /\ nvm' = nonce
    /\ spent' = spent \union {nonce}
    /\ pc' = IF radioState = "txfinished" THEN "window" ELSE "main"
    /\ UNCHANGED <<mac, planner, aired, lastCnt, excuses, calls>>

\* lr1_stack_mac_rx_timer_configure: the window is missed, or asked for; one that
\* is grazed passes the check and starts in the past: the planner gives it up.
MissedForgotten ==  \* mutant
    /\ pc = "window" /\ "missed" \in Windows
    /\ pc' = "main"
    /\ UNCHANGED <<mac, nvm, planner, ghosts, calls>>
WindowMissed ==
    /\ pc = "window" /\ "missed" \in Windows
    /\ radioState' = "rxfinished"
    /\ pc' = "main"
    /\ UNCHANGED <<state, data, nvm, planner, ghosts, calls>>

WindowAsked ==
    /\ pc = "window"
    /\ \E w \in Windows \ {"missed"} :
        IF slot = "onair"
        THEN radioState' = "aborted" /\ pc' = "main" /\ UNCHANGED slot
        ELSE /\ slot' = IF w = "grazed" THEN "aborted" ELSE "waiting"
             /\ pc' = "rxstart"
             /\ UNCHANGED radioState
    /\ UNCHANGED <<state, data, nvm, lbtOn, lbt, ghosts, calls>>

\* lr1_stack_mac_rx_radio_start sets RX_ON once rp_task_enqueue has returned, whatever
\* the planner has made of the task meanwhile.
RxStarted ==
    /\ pc = "rxstart"
    /\ radioState' = "rxon"
    /\ pc' = "main"
    /\ UNCHANGED <<state, data, nvm, planner, ghosts, calls>>

\* The window is over.  lr1_stack_mac_rx_frame_decode tells a bad packet; the
\* planner's status is the last one given, also when the window was missed.
Valid == IF rpStatus = "packet" THEN rx ELSE Bad

ProcessRx1Failed ==
    /\ Active /\ state = "rx1" /\ radioState = "rxfinished" /\ Valid = Bad
    /\ state' = "rx2"
    /\ pc' = "window"
    /\ UNCHANGED <<radioState, data, nvm, planner, ghosts, calls>>

ProcessRxDone ==
    /\ Active /\ radioState = "rxfinished"
    /\ state = "rx2" \/ (state = "rx1" /\ Valid # Bad)
    /\ MacUpdate(Valid)

\* The failsafe resets a cycle that lasts 300 s: here, only one that waits for an answer
\* that has already been given.
Failsafe ==
    /\ Polled /\ radioState \in {"txon", "rxon"} /\ slot = "idle"
    /\ Restarted /\ UNCHANGED calls

\* The random delay before a repetition or an answer is over.
ProcessTxWait ==
    /\ Active /\ state = "txwait"
    /\ state' = "send"
    /\ UNCHANGED <<radioState, data, pc, nvm, planner, ghosts, calls>>

-----------------------------------------------------------------------------
(* The planner: RadioService seen from the hook of the MAC *)

Admit ==
    /\ slot = "waiting"
    /\ slot' = "onair"
    /\ IF state = "send"
       THEN /\ aired' = aired + 1
            /\ lastCnt' = IF mtype = "join" THEN lastCnt ELSE frame
       ELSE UNCHANGED <<aired, lastCnt>>
    /\ UNCHANGED <<mac, pc, nvm, lbtOn, lbt, spent, excuses, calls>>

End ==
    /\ slot = "onair"
    /\ slot' = "done"
    /\ UNCHANGED <<mac, pc, nvm, lbtOn, lbt, ghosts, calls>>

GiveUp ==
    /\ slot \in {"waiting", "onair"}
    /\ slot' = "aborted"
    /\ UNCHANGED <<mac, pc, nvm, lbtOn, lbt, ghosts, calls>>

\* What the radio may have received.
Received == {Bad} \union (IF mtype = "join" THEN {Accept}
                          ELSE {d \in Downlinks : d.cmd # "none" => fcnt < MaxCnt})

\* lr1_stack_mac_rp_callback: the end of a task is expected in TX_ON and RX_ON only.
Unexpected == slot = "done" /\ radioState \notin {"txon", "rxon"}
NextRadioState ==
    CASE slot = "aborted"     -> "aborted"
      [] radioState = "txon"  -> "txfinished"
      [] radioState = "rxon"  -> "rxfinished"

Callback ==
    /\ slot \in {"done", "aborted"} /\ ~Unexpected
    /\ slot' = "idle"
    /\ radioState' = NextRadioState
    /\ overtaken' = (overtaken \/ pc = "rxstart")
    /\ \/ slot = "aborted" /\ rpStatus' = "aborted" /\ rx' = Bad
       \/ slot = "done" /\ state = "send" /\ rpStatus' = "txdone" /\ rx' = Bad
       \/ slot = "done" /\ state # "send" /\ rpStatus' = "timeout" /\ rx' = Bad
       \/ slot = "done" /\ state # "send" /\ rpStatus' = "packet" /\ rx' \in Received
    /\ UNCHANGED <<state, pc, joined, up, nonce, tooSoon, nvm, lbtOn, lbt, aired,
                   lastCnt, spent, torn, calls>>

\* Any other end of a task is a panic, which resets the device.
Panic == Unexpected /\ Restarted /\ UNCHANGED calls

\* smtc_lbt_rp_callback: the channel is free, it is busy, or the sensing was aborted.
LbtFree ==
    /\ lbt /\ lbt' = FALSE
    /\ StartTx
    /\ UNCHANGED <<state, data, pc, nvm, lbtOn, ghosts, calls>>

LbtNotFree ==
    /\ lbt /\ lbt' = FALSE
    /\ radioState' \in {"idle", "aborted"}
    /\ UNCHANGED <<state, data, pc, nvm, slot, lbtOn, ghosts, calls>>

\* The delay before the next join request is over.
TimeToJoin ==
    /\ tooSoon /\ tooSoon' = FALSE
    /\ UNCHANGED <<state, radioState, answer, joined, up, nonce, pc, nvm, planner,
                   ghosts, calls>>

-----------------------------------------------------------------------------
Process ==
    \/ ProcessTooSoon \/ ProcessAborted
    \/ ProcessSend \/ ProcessListen \/ ProcessTxFinished
    \/ Save \/ WindowMissed \/ WindowAsked \/ RxStarted
    \/ ProcessRx1Failed \/ ProcessRxDone \/ ProcessTxWait \/ Failsafe

Next ==
    \/ Join \/ Leave \/ Reset
    \/ \E type \in {"conf", "unconf"} : Send(type)
    \/ Process
    \/ Admit \/ End \/ GiveUp \/ Callback \/ Panic
    \/ LbtFree \/ LbtNotFree \/ TimeToJoin

Spec == Init /\ [][Next]_vars

\* The main loop goes on polling, the planner answers every task, and the channel
\* is not busy for ever.
FairSpec ==
    /\ Spec
    /\ WF_vars(Process)
    /\ WF_vars(Admit \/ GiveUp) /\ WF_vars(End \/ GiveUp) /\ WF_vars(Callback)
    /\ WF_vars(LbtFree \/ LbtNotFree) /\ SF_vars(LbtFree)

-----------------------------------------------------------------------------
(* Properties *)

TypeOK ==
    /\ state \in {"idle", "send", "rx1", "rx2", "txwait"}
    /\ radioState \in {"idle", "pending", "txon", "txfinished", "rxon", "rxfinished",
                       "aborted"}
    /\ rpStatus \in {"none", "txdone", "packet", "timeout", "aborted"}
    /\ rx \in Packet
    /\ pc \in {"main", "store", "window", "rxstart"}
    /\ {joined, tooSoon, lbtOn, lbt, torn, overtaken} \subseteq BOOLEAN
    /\ mtype \in {"join", "conf", "unconf"}
    /\ nbTrans \in 1 .. MaxTrans /\ nbTransCpt \in 0 .. MaxTrans
    /\ {fcnt, frame, aired} \subseteq Nat /\ lastCnt \in Nat \union {-1}
    /\ nonce \in Nonce /\ nvm \in Nonce \union {None} /\ spent \subseteq Nonce
    /\ slot \in {"idle", "waiting", "onair", "done", "aborted"}
    /\ calls \in 0 .. MaxCalls

\* What the MAC believes of its task is what the planner knows: while the MAC waits
\* for an answer one is still to come, and while it does not none can come - until an
\* answer comes between the enqueue of a window and RX_ON, which makes it forgotten.
InStep ==
    pc = "main" /\ ~overtaken =>
        /\ radioState \in {"txon", "rxon"} <=> slot # "idle"
        /\ radioState = "pending" <=> lbt

\* An interrupt that is not an abort only comes in TX_ON or RX_ON (else: panic), but for a
\* window that is over before the main loop has come from its enqueue to RX_ON.
NoUnexpectedInterrupt ==
    slot = "done" /\ pc # "rxstart" => radioState = IF state = "send" THEN "txon" ELSE "rxon"

\* A frame goes on air nb_trans times at most, its aborted transmissions included.
Repetitions == state # "idle" => aired + nbTransCpt <= nbTrans + 1

\* Two different frames never go on air with the same counter in a session.
GoesOnAir == slot = "waiting" /\ slot' = "onair" /\ state = "send"
FreshCounter ==
    [][GoesOnAir /\ mtype # "join" /\ aired = 0 => frame > lastCnt]_vars

\* A DevNonce that has been saved is never used again, whatever resets the device
\* (short of the last one, and of a reset that hits the store itself).
FreshNonce ==
    [][GoesOnAir /\ mtype = "join"
        => nonce \notin spent \/ nonce = NonceMax \/ torn]_vars

\* A cycle that has started ends: the MAC is idle, or waits before it sends again.  It
\* takes the failsafe to end one only when an answer has been forgotten.
CycleEnds == (state = "send") ~> (state \in {"idle", "txwait"})
=============================================================================
