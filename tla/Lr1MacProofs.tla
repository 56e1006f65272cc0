---------------------------- MODULE Lr1MacProofs ----------------------------
(***************************************************************************)
(* The class A engine, for every number of nonces, of repetitions and of   *)
(* calls, every answer of the network and every fate of a window.  The     *)
(* inductive invariant says, for each point lr1mac_core_process can stand  *)
(* at, which states of the MAC, of the radio and of the planner's task go  *)
(* together; what the frames, the counters and the nonces have to do with  *)
(* one another rests on it.                                                *)
(***************************************************************************)
EXTENDS Lr1Mac, TLAPS

\* TypeOK, for the provers that are good at each part.
ControlTypes ==
    /\ state \in {"idle", "send", "rx1", "rx2", "txwait"}
    /\ radioState \in {"idle", "pending", "txon", "txfinished", "rxon", "rxfinished",
                       "aborted"}
    /\ pc \in {"main", "store", "window", "rxstart"}
    /\ slot \in {"idle", "waiting", "onair", "done", "aborted"}
    /\ rpStatus \in {"none", "txdone", "packet", "timeout", "aborted"}
    /\ mtype \in {"join", "conf", "unconf"}
BitTypes ==
    /\ joined \in BOOLEAN /\ tooSoon \in BOOLEAN /\ lbtOn \in BOOLEAN
    /\ lbt \in BOOLEAN /\ torn \in BOOLEAN /\ overtaken \in BOOLEAN
CountTypes ==
    /\ nbTrans \in 1 .. MaxTrans /\ nbTransCpt \in 0 .. MaxTrans
    /\ fcnt \in Nat /\ frame \in Nat /\ aired \in Nat /\ lastCnt \in Nat \union {-1}
    /\ calls \in 0 .. MaxCalls
NonceTypes == nonce \in Nonce /\ nvm \in Nonce \union {None} /\ spent \subseteq Nonce

LEMMA TypeParts ==
    TypeOK <=> ControlTypes /\ BitTypes /\ CountTypes /\ NonceTypes /\ rx \in Packet
  BY DEF TypeOK, ControlTypes, BitTypes, CountTypes, NonceTypes

LEMMA Sizes ==
    /\ NonceMax \in Nat /\ NonceMax # 0 /\ MaxTrans \in Nat /\ MaxTrans # 0
    /\ MaxCalls \in Nat /\ MaxCnt \in Nat
    /\ Downlinks \subseteq Downlink /\ Windows \subseteq Window
    /\ Bad \in Packet /\ Accept \in Packet /\ Downlinks \subseteq Packet
<1>1. {Bad, Accept} \subseteq {[type |-> t, ack |-> FALSE, cmd |-> "none"] : t \in {"bad", "accept"}}
  BY DEF Bad, Accept
<1> QED BY <1>1, MacAssumption DEF Packet

-----------------------------------------------------------------------------
(* What the MAC may be told: a bad packet, a join accept or a downlink *)

Told == rx \in {Bad, Accept} \union Downlinks

LEMMA ReceivedTold == Received \subseteq {Bad, Accept} \union Downlinks
  BY DEF Received

LEMMA ToldStep ==
    ASSUME Told, [Next]_vars PROVE Told'
<1> USE DEF Told, vars, mac, data, answer
<1>1. CASE Callback
  BY <1>1, ReceivedTold DEF Callback
<1>2. CASE Reset \/ Failsafe \/ Panic
  BY <1>2 DEF Reset, Failsafe, Panic, Restarted
<1>3. CASE Join \/ Leave \/ \E type \in {"conf", "unconf"} : Send(type)
  BY <1>3 DEF Join, Leave, Send
<1>4. CASE ProcessAborted \/ ProcessRxDone
  BY <1>4 DEF ProcessAborted, ProcessRxDone, MacUpdate
<1>5. CASE \/ ProcessTooSoon \/ ProcessSend \/ ProcessListen \/ ProcessTxFinished
          \/ Save \/ WindowMissed \/ WindowAsked \/ RxStarted \/ ProcessRx1Failed
          \/ ProcessTxWait
  BY <1>5 DEF ProcessTooSoon, ProcessSend, ProcessListen, ProcessTxFinished, Save,
      WindowMissed, WindowAsked, RxStarted, ProcessRx1Failed, ProcessTxWait
<1>6. CASE Admit \/ End \/ GiveUp \/ LbtFree \/ LbtNotFree \/ TimeToJoin
  BY <1>6 DEF Admit, End, GiveUp, LbtFree, LbtNotFree, TimeToJoin
<1> QED BY <1>1, <1>2, <1>3, <1>4, <1>5, <1>6 DEF Next, Process

\* What lr1mac_mac_update is given is what the MAC was told, or a bad packet.
LEMMA UpdateCases ==
    ASSUME Told, ProcessAborted \/ ProcessRxDone
    PROVE  \E p \in {Bad, Accept} \union Downlinks :
              /\ MacUpdate(p) /\ Polled
              /\ \/ p = Bad /\ radioState = "aborted"
                 \/ p = Valid /\ radioState = "rxfinished" /\ state \in {"rx1", "rx2"}
  BY DEF Told, ProcessAborted, ProcessRxDone, Valid, Active, Polled

\* What is left of the repetitions is a number of transmissions the network may ask for.
LEMMA RemainingType ==
    ASSUME CountTypes, NEW p
    PROVE  /\ Remaining(p) \in 0 .. MaxTrans
           /\ Left(Remaining(p)) \in 1 .. MaxTrans
           /\ Remaining(p) > 1 => Remaining(p) = nbTransCpt
  BY Sizes DEF CountTypes, Remaining, Left

-----------------------------------------------------------------------------
(* Types *)

LEMMA ControlTypesStep ==
    ASSUME ControlTypes, [Next]_vars PROVE ControlTypes'
<1> USE DEF ControlTypes, vars, mac, planner, data, up, answer
<1>1. CASE Callback
  BY <1>1 DEF Callback, NextRadioState, Unexpected
<1>2. CASE Reset \/ Failsafe \/ Panic
  BY <1>2 DEF Reset, Failsafe, Panic, Restarted
<1>3. CASE Join \/ Leave \/ \E type \in {"conf", "unconf"} : Send(type)
  BY <1>3 DEF Join, Leave, Send, AbortedSlot
<1>4. CASE ProcessAborted \/ ProcessRxDone
  BY <1>4 DEF ProcessAborted, ProcessRxDone, MacUpdate
<1>5. CASE ProcessTooSoon \/ ProcessSend \/ ProcessListen \/ ProcessTxFinished
  BY <1>5 DEF ProcessTooSoon, ProcessSend, ProcessListen, ProcessTxFinished, StartTx
<1>6. CASE Save \/ WindowMissed \/ WindowAsked \/ RxStarted \/ ProcessRx1Failed \/ ProcessTxWait
  BY <1>6 DEF Save, WindowMissed, WindowAsked, RxStarted, ProcessRx1Failed, ProcessTxWait
<1>7. CASE Admit \/ End \/ GiveUp \/ LbtFree \/ LbtNotFree \/ TimeToJoin
  BY <1>7 DEF Admit, End, GiveUp, LbtFree, LbtNotFree, TimeToJoin, StartTx
<1> QED BY <1>1, <1>2, <1>3, <1>4, <1>5, <1>6, <1>7 DEF Next, Process

LEMMA BitTypesStep ==
    ASSUME BitTypes, [Next]_vars PROVE BitTypes'
<1> USE DEF BitTypes, vars, mac, planner, ghosts, excuses, data
<1>1. CASE Callback
  BY <1>1 DEF Callback
<1>2. CASE Reset \/ Failsafe \/ Panic
  BY <1>2 DEF Reset, Failsafe, Panic, Restarted
<1>3. CASE Join \/ Leave \/ \E type \in {"conf", "unconf"} : Send(type)
  BY <1>3 DEF Join, Leave, Send
<1>4. ASSUME NEW p, MacUpdate(p) PROVE BitTypes'
  BY <1>4, Zenon DEF MacUpdate
<1>5. CASE ProcessTooSoon \/ ProcessSend \/ ProcessListen \/ ProcessTxFinished
  BY <1>5 DEF ProcessTooSoon, ProcessSend, ProcessListen, ProcessTxFinished
<1>6. CASE Save \/ WindowMissed \/ WindowAsked \/ RxStarted \/ ProcessRx1Failed \/ ProcessTxWait
  BY <1>6 DEF Save, WindowMissed, WindowAsked, RxStarted, ProcessRx1Failed, ProcessTxWait
<1>7. CASE Admit \/ End \/ GiveUp \/ LbtFree \/ LbtNotFree \/ TimeToJoin
  BY <1>7 DEF Admit, End, GiveUp, LbtFree, LbtNotFree, TimeToJoin
<1> QED BY <1>1, <1>2, <1>3, <1>4, <1>5, <1>6, <1>7
        DEF Next, Process, ProcessAborted, ProcessRxDone

LEMMA CountTypesStep ==
    ASSUME CountTypes, [Next]_vars PROVE CountTypes'
<1> USE Sizes DEF CountTypes, vars, mac, ghosts, excuses, data, up
<1>1. CASE Callback
  BY <1>1 DEF Callback
<1>2. CASE Reset \/ Failsafe \/ Panic
  BY <1>2 DEF Reset, Failsafe, Panic, Restarted
<1>3. CASE Join \/ Leave \/ \E type \in {"conf", "unconf"} : Send(type)
  BY <1>3 DEF Join, Leave, Send, Called
<1>4. ASSUME NEW p, MacUpdate(p) PROVE CountTypes'
  BY <1>4, RemainingType DEF MacUpdate, Counted
<1>5. CASE ProcessTooSoon \/ ProcessSend \/ ProcessListen \/ ProcessTxFinished
  BY <1>5 DEF ProcessTooSoon, ProcessSend, ProcessListen, ProcessTxFinished
<1>6. CASE Save \/ WindowMissed \/ WindowAsked \/ RxStarted \/ ProcessRx1Failed \/ ProcessTxWait
  BY <1>6 DEF Save, WindowMissed, WindowAsked, RxStarted, ProcessRx1Failed, ProcessTxWait
<1>7. CASE Admit \/ End \/ GiveUp \/ LbtFree \/ LbtNotFree \/ TimeToJoin
  BY <1>7 DEF Admit, End, GiveUp, LbtFree, LbtNotFree, TimeToJoin
<1> QED BY <1>1, <1>2, <1>3, <1>4, <1>5, <1>6, <1>7
        DEF Next, Process, ProcessAborted, ProcessRxDone

LEMMA NonceTypesStep ==
    ASSUME NonceTypes, [Next]_vars PROVE NonceTypes'
<1> USE Sizes DEF NonceTypes, vars, mac, ghosts, excuses, data
<1>1. CASE Callback
  BY <1>1 DEF Callback
<1>2. CASE Reset \/ Failsafe \/ Panic
  <2>1. nonce' = Loaded /\ UNCHANGED <<nvm, spent>>
    BY <1>2 DEF Reset, Failsafe, Panic, Restarted
  <2> QED BY <2>1 DEF Loaded, Nonce
<1>3. CASE Join
  BY <1>3 DEF Join, NextNonce, Nonce
<1>4. ASSUME NEW p, MacUpdate(p) PROVE NonceTypes'
  BY <1>4 DEF MacUpdate
<1>5. CASE ProcessTooSoon \/ ProcessSend \/ ProcessListen \/ ProcessTxFinished
  BY <1>5 DEF ProcessTooSoon, ProcessSend, ProcessListen, ProcessTxFinished
<1>6. CASE Save \/ WindowMissed \/ WindowAsked \/ RxStarted \/ ProcessRx1Failed \/ ProcessTxWait
  BY <1>6 DEF Save, WindowMissed, WindowAsked, RxStarted, ProcessRx1Failed, ProcessTxWait
<1>7. CASE Admit \/ End \/ GiveUp \/ LbtFree \/ LbtNotFree \/ TimeToJoin
  BY <1>7 DEF Admit, End, GiveUp, LbtFree, LbtNotFree, TimeToJoin
<1>8. CASE Leave \/ \E type \in {"conf", "unconf"} : Send(type)
  BY <1>8 DEF Leave, Send
<1> QED BY <1>1, <1>2, <1>3, <1>4, <1>5, <1>6, <1>7, <1>8
        DEF Next, Process, ProcessAborted, ProcessRxDone

LEMMA InitTypes == Init => TypeOK /\ Told
<1> SUFFICES ASSUME Init PROVE TypeOK /\ Told
  OBVIOUS
<1>1. ControlTypes /\ BitTypes
  BY DEF Init, ControlTypes, BitTypes
<1>2. CountTypes /\ NonceTypes
  BY Sizes DEF Init, CountTypes, NonceTypes, Nonce
<1>3. Told /\ rx \in Packet
  BY Sizes DEF Init, Told
<1> QED BY <1>1, <1>2, <1>3, TypeParts

LEMMA StepTypes == TypeOK /\ Told /\ [Next]_vars => TypeOK' /\ Told'
<1> SUFFICES ASSUME TypeOK, Told, [Next]_vars PROVE TypeOK' /\ Told'
  OBVIOUS
<1>1. ControlTypes' /\ BitTypes' /\ CountTypes' /\ NonceTypes'
  BY TypeParts, ControlTypesStep, BitTypesStep, CountTypesStep, NonceTypesStep
<1>2. Told' /\ (rx \in Packet)'
  BY ToldStep, Sizes DEF Told
<1> QED BY <1>1, <1>2, TypeParts, PTL

\* The MAC's variables (lr1mac_defs.h) keep their types: a DevNonce stays in 16 bits and
\* does not wrap, and a count of transmissions stays in what the network asked for.
THEOREM MacTypes == Spec => []TypeOK
  BY InitTypes, StepTypes, PTL DEF Spec

-----------------------------------------------------------------------------
(* Where lr1mac_core_process stands, and what the radio and the planner do there *)

\* A transmission that has ended opens RX1, a window that has failed opens RX2.
Opens1 == state = "rx1" /\ radioState = "txfinished"
Opens2 == state = "rx2" /\ radioState = "rxfinished"

\* A MAC that is idle or waits to send again has nothing to do with the radio.
AtRest == state \in {"idle", "txwait"} => radioState = "idle" /\ pc \in {"main", "store"}

\* Each state of the radio belongs to a state of the MAC.
RadioPhase ==
    /\ radioState = "pending" <=> lbt
    /\ radioState \in {"pending", "txon"} => state = "send"
    /\ radioState = "idle" => state \in {"idle", "txwait", "send"}
    /\ radioState = "rxon" => state \in {"rx1", "rx2"} /\ pc = "main"
    /\ radioState = "rxfinished" => state \in {"rx1", "rx2"}
    /\ radioState = "txfinished" => state = IF pc = "main" THEN "send" ELSE "rx1"

\* No task is in the planner behind the back of the MAC, and between two polls none is
\* unless a window is being opened.
PcPhase ==
    /\ pc = "main" /\ slot # "idle" => radioState \in {"txon", "rxon"}
    /\ pc = "store" => slot = "idle" /\ (Opens1 \/ (state = "idle" /\ radioState = "idle"))
    /\ pc = "window" => slot = "idle" /\ (Opens1 \/ Opens2)
    /\ pc = "rxstart" => /\ state \in {"rx1", "rx2"}
                         /\ radioState \in {"aborted", "txfinished", "rxfinished"}

\* The MAC does not wait in vain, if no answer has come between an enqueue and RX_ON.
Awaited ==
    ~overtaken =>
        /\ pc = "main" /\ radioState \in {"txon", "rxon"} => slot # "idle"
        /\ pc = "rxstart" => slot # "idle"

Control == AtRest /\ RadioPhase /\ PcPhase /\ Awaited

\* The cycle of a join: one transmission, no session, and its time has come.
Soon      == tooSoon => ~joined /\ state \in {"idle", "txwait"}
JoinCycle == mtype = "join" /\ state # "idle" => state # "txwait" /\ nbTransCpt = 1 /\ ~joined
Heard     == state \in {"rx1", "rx2"} \/ radioState = "txfinished"
                 => (Valid.type = "accept" => mtype = "join")

\* A cycle ends in one of three ways.
LEMMA UpdateEnds ==
    ASSUME CountTypes, JoinCycle, NEW p \in {Bad, Accept} \union Downlinks, MacUpdate(p), Polled,
           p.type = "accept" => mtype = "join"
    PROVE  /\ radioState' = "idle" /\ UNCHANGED <<slot, lbt>>
           /\ \/ state' \in {"idle", "txwait"} /\ pc' = "main"
              \/ state' = "idle" /\ pc' = "store"
<1>1. PICK accepted \in {p.type = "accept", FALSE}, free \in BOOLEAN, n \in 1 .. MaxTrans :
        /\ radioState' = "idle" /\ UNCHANGED planner
        /\ state' = IF (Answers(p) \/ Remaining(p) > 1) /\ free THEN "txwait" ELSE "idle"
        /\ pc' = IF accepted THEN "store" ELSE "main"
  BY DEF MacUpdate
<1>2. CASE p.type = "accept"
  BY <1>1, <1>2 DEF JoinCycle, Polled, Answers, Remaining, planner
<1>3. CASE p.type # "accept"
  BY <1>1, <1>3 DEF planner
<1> QED BY <1>2, <1>3

LEMMA ControlStep ==
    ASSUME ControlTypes, BitTypes, CountTypes, Told, Control, Soon, JoinCycle, Heard,
           [Next]_vars
    PROVE  Control'
<1> USE DEF ControlTypes, Control, AtRest, RadioPhase, PcPhase, Awaited, Opens1, Opens2,
            vars, mac, planner, data, answer, up, ghosts, excuses
<1>1. CASE Callback
  BY <1>1 DEF Callback, NextRadioState, Unexpected
<1>2. CASE Reset \/ Failsafe \/ Panic
  BY <1>2 DEF Reset, Failsafe, Panic, Restarted
<1>3. CASE Join \/ \E type \in {"conf", "unconf"} : Send(type)
  BY <1>3 DEF Join, Send, Called
<1>4. CASE Leave
  BY <1>4 DEF Leave, Called, AbortedSlot
<1>5. CASE ProcessAborted \/ ProcessRxDone
  <2>1. PICK p \in {Bad, Accept} \union Downlinks :
          /\ MacUpdate(p) /\ Polled
          /\ \/ p = Bad /\ radioState = "aborted"
             \/ p = Valid /\ radioState = "rxfinished" /\ state \in {"rx1", "rx2"}
    BY <1>5, UpdateCases
  <2>2. p.type = "accept" => mtype = "join"
    BY <2>1 DEF Heard, Bad
  <2>3. slot = "idle" /\ ~lbt
    BY <2>1 DEF Polled
  <2>4. /\ radioState' = "idle" /\ UNCHANGED <<slot, lbt>>
        /\ \/ state' \in {"idle", "txwait"} /\ pc' = "main"
           \/ state' = "idle" /\ pc' = "store"
    BY <2>1, <2>2, UpdateEnds
  <2> QED BY <2>3, <2>4
<1>6. CASE ProcessTooSoon
  BY <1>6 DEF ProcessTooSoon, Polled, Soon
<1>7. CASE ProcessSend \/ ProcessListen
  BY <1>7 DEF ProcessSend, ProcessListen, Active, Polled, StartTx
<1>8. CASE ProcessTxFinished \/ ProcessRx1Failed \/ ProcessTxWait
  BY <1>8 DEF ProcessTxFinished, ProcessRx1Failed, ProcessTxWait, Active, Polled
<1>9. CASE Save
  BY <1>9 DEF Save
<1>10. CASE WindowMissed \/ WindowAsked \/ RxStarted
  BY <1>10 DEF WindowMissed, WindowAsked, RxStarted
<1>11. CASE Admit \/ End \/ GiveUp
  BY <1>11 DEF Admit, End, GiveUp
<1>12. CASE LbtFree \/ LbtNotFree
  BY <1>12 DEF LbtFree, LbtNotFree, StartTx
<1>13. CASE TimeToJoin
  BY <1>13 DEF TimeToJoin
<1> QED BY <1>1, <1>2, <1>3, <1>4, <1>5, <1>6, <1>7, <1>8, <1>9, <1>10, <1>11, <1>12, <1>13
        DEF Next, Process

LEMMA JoinStep ==
    ASSUME ControlTypes, BitTypes, CountTypes, Told, Control, Soon, JoinCycle, Heard,
           [Next]_vars
    PROVE  Soon' /\ JoinCycle' /\ Heard'
<1> USE DEF ControlTypes, Soon, JoinCycle, Heard, Valid, vars, mac, planner, data, answer, up
<1>1. CASE Callback
  <2>1. ASSUME NEW d \in Received, d.type = "accept" PROVE mtype = "join"
    BY <2>1, Sizes DEF Received, Bad, Downlink
  <2>2. Valid' = Bad \/ Valid' \in Received
    BY <1>1 DEF Callback
  <2>3. Valid'.type = "accept" => mtype = "join"
    BY <2>1, <2>2 DEF Bad
  <2> QED BY <1>1, <2>3 DEF Callback
<1>2. CASE Reset \/ Failsafe \/ Panic
  BY <1>2 DEF Reset, Failsafe, Panic, Restarted
<1>3. CASE Join \/ \E type \in {"conf", "unconf"} : Send(type)
  BY <1>3 DEF Join, Send, Called, Control, AtRest
<1>4. CASE Leave
  BY <1>4 DEF Leave
<1>5. CASE ProcessAborted \/ ProcessRxDone
  <2>1. PICK p \in {Bad, Accept} \union Downlinks :
          /\ MacUpdate(p) /\ Polled
          /\ \/ p = Bad /\ radioState = "aborted"
             \/ p = Valid /\ radioState = "rxfinished" /\ state \in {"rx1", "rx2"}
    BY <1>5, UpdateCases
  <2>2. PICK accepted \in {p.type = "accept", FALSE}, free \in BOOLEAN, n \in 1 .. MaxTrans :
          /\ radioState' = "idle"
          /\ joined' = (joined \/ accepted)
          /\ tooSoon' = (tooSoon \/ ~joined')
          /\ mtype' = IF Answers(p) THEN "unconf" ELSE mtype
          /\ state' = IF (Answers(p) \/ Remaining(p) > 1) /\ free THEN "txwait" ELSE "idle"
    BY <2>1 DEF MacUpdate
  <2>3. state' \in {"idle", "txwait"}
    BY <2>2
  <2>4. Soon'
    <3>1. accepted => p.type = "accept"
      BY <2>2, Zenon
    <3>2. p.type = "accept" => ~tooSoon
      BY <2>1 DEF Bad
    <3> QED BY <2>2, <2>3, <3>1, <3>2, Zenon DEF BitTypes
  <2>5. JoinCycle'
    BY <2>1, <2>2 DEF Polled, Remaining, CountTypes
  <2> QED BY <2>2, <2>3, <2>4, <2>5
<1>6. CASE ProcessTooSoon \/ ProcessSend \/ ProcessListen
  BY <1>6 DEF ProcessTooSoon, ProcessSend, ProcessListen, StartTx, Active, Polled, Control, RadioPhase
<1>7. CASE ProcessTxFinished \/ ProcessRx1Failed \/ ProcessTxWait
  BY <1>7 DEF ProcessTxFinished, ProcessRx1Failed, ProcessTxWait, Active, Polled, Control, AtRest
<1>8. CASE Save \/ WindowMissed \/ WindowAsked \/ RxStarted
  BY <1>8 DEF Save, WindowMissed, WindowAsked, RxStarted
<1>9. CASE Admit \/ End \/ GiveUp
  BY <1>9 DEF Admit, End, GiveUp
<1>10. CASE LbtFree \/ LbtNotFree
  BY <1>10 DEF LbtFree, LbtNotFree, StartTx
<1>11. CASE TimeToJoin
  BY <1>11 DEF TimeToJoin
<1> QED BY <1>1, <1>2, <1>3, <1>4, <1>5, <1>6, <1>7, <1>8, <1>9, <1>10, <1>11
        DEF Next, Process

-----------------------------------------------------------------------------
(* The repetitions *)

\* The next transmission of the frame is still to come.
Trying == state = "txwait" \/ (state = "send" /\ (radioState \in {"idle", "pending"} \/ slot = "waiting"))

\* A transmission that is still to come has been left room for.
Attempts ==
    state # "idle" =>
        /\ nbTransCpt >= 1
        /\ aired + nbTransCpt <= IF Trying THEN nbTrans ELSE nbTrans + 1

LEMMA AttemptsStep ==
    ASSUME ControlTypes, CountTypes, Told, Control, Soon, JoinCycle, Heard, Attempts, [Next]_vars
    PROVE  Attempts'
<1> USE DEF Attempts, Trying, ControlTypes, CountTypes, vars, mac, planner, ghosts, excuses, data, up
<1>1. CASE Callback
  BY <1>1 DEF Callback, NextRadioState, Unexpected
<1>2. CASE Reset \/ Failsafe \/ Panic
  BY <1>2 DEF Reset, Failsafe, Panic, Restarted
<1>3. CASE Join \/ \E type \in {"conf", "unconf"} : Send(type)
  BY <1>3 DEF Join, Send
<1>4. CASE Leave
  BY <1>4 DEF Leave, AbortedSlot
<1>5. CASE ProcessAborted \/ ProcessRxDone
  <2>1. PICK p \in {Bad, Accept} \union Downlinks : MacUpdate(p) /\ Polled
    BY <1>5, UpdateCases
  <2>2. PICK n \in 1 .. MaxTrans :
          /\ (p.type = "data" /\ p.cmd = "adr") \/ n = nbTrans
          /\ nbTrans' = n
          /\ nbTransCpt' = IF Answers(p) THEN n ELSE Left(Remaining(p))
          /\ aired' = IF Answers(p) THEN 0 ELSE aired
          /\ state' # "idle" => Answers(p) \/ Remaining(p) > 1
    BY <2>1 DEF MacUpdate
  <2>3. CASE Answers(p)
    BY <2>2, <2>3, Sizes
  <2>4. CASE ~Answers(p) /\ state' # "idle"
    <3>1. nbTrans' = nbTrans
      BY <2>2, <2>4 DEF Answers
    <3>2. Remaining(p) = nbTransCpt /\ nbTransCpt > 1
      BY <2>2, <2>4, RemainingType
    <3>3. nbTransCpt' = nbTransCpt - 1
      BY <2>2, <2>4, <3>2 DEF Left
    <3> QED BY <2>1, <2>2, <2>4, <3>1, <3>2, <3>3 DEF Polled
  <2> QED BY <2>3, <2>4
<1>6. CASE ProcessTooSoon \/ ProcessSend \/ ProcessListen
  BY <1>6 DEF ProcessTooSoon, ProcessSend, ProcessListen, StartTx, Polled, Active, Control, PcPhase
<1>7. CASE ProcessTxFinished \/ ProcessRx1Failed \/ ProcessTxWait
  BY <1>7 DEF ProcessTxFinished, ProcessRx1Failed, ProcessTxWait, Active, Polled
<1>8. CASE Save \/ WindowMissed \/ WindowAsked \/ RxStarted
  BY <1>8 DEF Save, WindowMissed, WindowAsked, RxStarted, Control, PcPhase, Opens1, Opens2
<1>9. CASE Admit \/ End \/ GiveUp
  BY <1>9 DEF Admit, End, GiveUp, Control, RadioPhase, PcPhase, Opens1, Opens2
<1>10. CASE LbtFree \/ LbtNotFree
  BY <1>10 DEF LbtFree, LbtNotFree, StartTx, Control, RadioPhase, PcPhase
<1>11. CASE TimeToJoin
  BY <1>11 DEF TimeToJoin
<1> QED BY <1>1, <1>2, <1>3, <1>4, <1>5, <1>6, <1>7, <1>8, <1>9, <1>10, <1>11
        DEF Next, Process

-----------------------------------------------------------------------------
(* The nonces *)

\* No saved nonce is above the one in RAM, nor above the one in flash, short of the moment
\* between the erasing of the page and its writing; and the one that is sent is none of them.
NonceOrder ==
    ~torn =>
        /\ \A n \in spent : n <= nonce
        /\ pc # "store" => IF nvm = None THEN spent = {} ELSE \A n \in spent : n <= nvm
        /\ mtype = "join" /\ state = "send" => nonce \notin spent \/ nonce = NonceMax

LEMMA NonceStep ==
    ASSUME NonceTypes, ControlTypes, CountTypes, Told, Control, JoinCycle, Heard, NonceOrder,
           [Next]_vars
    PROVE  NonceOrder'
<1> USE DEF NonceOrder, NonceTypes, vars, mac, planner, ghosts, excuses, data, up
<1>1. CASE Callback
  BY <1>1 DEF Callback
<1>2. CASE Reset \/ Failsafe \/ Panic
  BY <1>2, MacAssumption DEF Reset, Failsafe, Panic, Restarted, Loaded, Nonce
<1>3. CASE Join
  <2>1. nonce' \in Nonce /\ (nonce' = nonce + 1 \/ (nonce' = nonce /\ nonce = NonceMax))
    BY <1>3, Sizes DEF Join, NextNonce, Nonce
  <2>2. \A n \in Nonce : n <= nonce => n <= nonce' /\ (n # nonce' \/ nonce' = NonceMax)
    BY <2>1, Sizes DEF Nonce
  <2> QED BY <1>3, <2>1, <2>2 DEF Join
<1>4. CASE \E type \in {"conf", "unconf"} : Send(type)
  BY <1>4 DEF Send
<1>5. CASE Leave
  BY <1>5 DEF Leave
<1>6. CASE ProcessAborted \/ ProcessRxDone
  <2>1. PICK p \in {Bad, Accept} \union Downlinks : MacUpdate(p) /\ Polled
    BY <1>6, UpdateCases
  <2>2. /\ UNCHANGED <<nonce, spent, torn>> /\ state' # "send"
        /\ pc' = "store" \/ UNCHANGED nvm
    BY <2>1 DEF MacUpdate
  <2> QED BY <2>1, <2>2 DEF Polled
<1>7. CASE ProcessTooSoon \/ ProcessSend \/ ProcessListen
  BY <1>7 DEF ProcessTooSoon, ProcessSend, ProcessListen
<1>8. CASE ProcessTxFinished \/ ProcessRx1Failed \/ ProcessTxWait
  BY <1>8 DEF ProcessTxFinished, ProcessRx1Failed, ProcessTxWait, Active, Polled, JoinCycle
<1>9. CASE Save
  <2>1. state # "send" /\ pc' # "store" /\ nvm' = nonce /\ spent' = spent \union {nonce}
    BY <1>9 DEF Save, Control, PcPhase, Opens1
  <2>2. nonce \in Nat /\ nonce # None
    BY MacAssumption DEF Nonce
  <2> QED BY <1>9, <2>1, <2>2 DEF Save
<1>10. CASE WindowMissed \/ WindowAsked \/ RxStarted
  BY <1>10 DEF WindowMissed, WindowAsked, RxStarted
<1>11. CASE Admit \/ End \/ GiveUp \/ LbtFree \/ LbtNotFree \/ TimeToJoin
  BY <1>11 DEF Admit, End, GiveUp, LbtFree, LbtNotFree, TimeToJoin
<1> QED BY <1>1, <1>2, <1>3, <1>4, <1>5, <1>6, <1>7, <1>8, <1>9, <1>10, <1>11
        DEF Next, Process

-----------------------------------------------------------------------------
(* The frame counter *)

\* A downlink with commands to answer also acknowledges: the network does not do so in
\* general, and the run mac_same_counter shows what comes of it.
CommandsAcknowledge == \A d \in Downlinks : d.cmd # "none" => d.ack

\* The counter of a frame that has not been on air is above the last one on air; between
\* two frames of a session the next counter is.
CounterOrder ==
    /\ lastCnt <= fcnt
    /\ state = "idle" /\ joined => lastCnt < fcnt
    /\ state # "idle" /\ mtype # "join" => frame = fcnt /\ (aired = 0 => lastCnt < fcnt)

LEMMA CounterStep ==
    ASSUME CommandsAcknowledge, BitTypes, ControlTypes, CountTypes, Told, Control, Soon, JoinCycle,
           Heard, CounterOrder, [Next]_vars
    PROVE  CounterOrder'
<1> USE DEF CounterOrder, ControlTypes, CountTypes, vars, mac, planner, ghosts, excuses, data, up
<1>1. CASE Callback
  BY <1>1 DEF Callback
<1>2. CASE Reset \/ Failsafe \/ Panic
  BY <1>2 DEF Reset, Failsafe, Panic, Restarted
<1>3. CASE Join \/ \E type \in {"conf", "unconf"} : Send(type)
  BY <1>3 DEF Join, Send
<1>4. CASE Leave
  BY <1>4 DEF Leave
<1>5. CASE ProcessAborted \/ ProcessRxDone
  <2>1. PICK p \in {Bad, Accept} \union Downlinks :
          /\ MacUpdate(p) /\ Polled
          /\ \/ p = Bad /\ radioState = "aborted"
             \/ p = Valid /\ radioState = "rxfinished" /\ state \in {"rx1", "rx2"}
    BY <1>5, UpdateCases
  <2>2. PICK accepted \in {p.type = "accept", FALSE}, free \in BOOLEAN :
          LET repeat == Remaining(p) > 1
              cnt    == Counted(IF accepted THEN 0 ELSE fcnt, repeat)
          IN  /\ Answers(p) \/ repeat \/ free
              /\ joined' = (joined \/ accepted)
              /\ fcnt' = IF ~free /\ repeat /\ ~Answers(p) THEN cnt + 1 ELSE cnt
              /\ frame' = IF Answers(p) THEN cnt ELSE frame
              /\ mtype' = IF Answers(p) THEN "unconf" ELSE mtype
              /\ aired' = IF Answers(p) THEN 0 ELSE aired
              /\ lastCnt' = IF accepted THEN -1 ELSE lastCnt
              /\ state' = IF (Answers(p) \/ repeat) /\ free THEN "txwait" ELSE "idle"
    BY <2>1 DEF MacUpdate
  <2>3. accepted => p.type = "accept"
    BY <2>2, Zenon
  <2>4. Answers(p) => Remaining(p) = 1 /\ ~accepted
    BY <2>3 DEF CommandsAcknowledge, Answers, Remaining, Bad, Accept
  <2>5. accepted => Remaining(p) = 1
    BY <2>1, <2>3 DEF Heard, JoinCycle, Bad, Remaining
  <2>6. CASE accepted
    BY <2>2, <2>4, <2>5, <2>6 DEF Counted
  <2>7. CASE ~accepted /\ Answers(p)
    BY <2>2, <2>4, <2>7 DEF Counted
  <2>8. CASE ~accepted /\ ~Answers(p)
    BY <2>1, <2>2, <2>8 DEF Counted, Polled
  <2> QED BY <2>6, <2>7, <2>8
<1>6. CASE ProcessTooSoon
  BY <1>6 DEF ProcessTooSoon
<1>7. CASE ProcessSend \/ ProcessListen
  BY <1>7 DEF ProcessSend, ProcessListen
<1>8. CASE ProcessTxFinished \/ ProcessRx1Failed \/ ProcessTxWait
  BY <1>8 DEF ProcessTxFinished, ProcessRx1Failed, ProcessTxWait, Active, Polled
<1>9. CASE Save \/ WindowMissed \/ WindowAsked \/ RxStarted
  BY <1>9 DEF Save, WindowMissed, WindowAsked, RxStarted
<1>10. CASE Admit
  BY <1>10 DEF Admit
<1>11. CASE End \/ GiveUp \/ LbtFree \/ LbtNotFree \/ TimeToJoin
  BY <1>11 DEF End, GiveUp, LbtFree, LbtNotFree, TimeToJoin
<1> QED BY <1>1, <1>2, <1>3, <1>4, <1>5, <1>6, <1>7, <1>8, <1>9, <1>10, <1>11
        DEF Next, Process

-----------------------------------------------------------------------------
(* The theorems *)

MacInv ==
    /\ TypeOK /\ Told
    /\ Control /\ Soon /\ JoinCycle /\ Heard
    /\ Attempts /\ NonceOrder

LEMMA InitMac == Init => MacInv
<1> SUFFICES ASSUME Init PROVE MacInv
  OBVIOUS
<1>1. TypeOK /\ Told
  BY InitTypes
<1>2. Control /\ Soon /\ JoinCycle /\ Heard /\ Attempts /\ NonceOrder
  BY DEF Init, Control, AtRest, RadioPhase, PcPhase, Awaited, Soon, JoinCycle, Heard, Attempts,
         NonceOrder
<1> QED BY <1>1, <1>2 DEF MacInv

LEMMA StepMac == MacInv /\ [Next]_vars => MacInv'
<1> SUFFICES ASSUME MacInv, [Next]_vars PROVE MacInv'
  OBVIOUS
<1>1. ControlTypes /\ BitTypes /\ CountTypes /\ NonceTypes
  BY TypeParts DEF MacInv
<1>2. TypeOK' /\ Told'
  BY StepTypes DEF MacInv
<1>3. Control' /\ Soon' /\ JoinCycle' /\ Heard'
  BY <1>1, ControlStep, JoinStep DEF MacInv
<1>4. Attempts' /\ NonceOrder'
  BY <1>1, AttemptsStep, NonceStep DEF MacInv
<1> QED BY <1>2, <1>3, <1>4 DEF MacInv

LEMMA MacCorrect == Spec => []MacInv
  BY InitMac, StepMac, PTL DEF Spec

\* lr1_stack_mac_rp_callback meets no end of a task it does not expect, and so does not
\* panic, whatever leaves, resets and aborts come in between, but for a window that is over
\* between its enqueue and RX_ON.
THEOREM InterruptsExpected == Spec => []NoUnexpectedInterrupt
<1>1. MacInv => NoUnexpectedInterrupt
  BY TypeParts DEF MacInv, ControlTypes, Control, RadioPhase, PcPhase, NoUnexpectedInterrupt
<1> QED BY <1>1, MacCorrect, PTL

\* Until an answer comes between the enqueue of a window and RX_ON, the MAC and the planner
\* agree on whether a task of the MAC is in the planner: the MAC does not wait for an answer
\* that has been given, and is not answered unasked.
THEOREM KeepsInStep == Spec => []InStep
<1>1. MacInv => InStep
  BY DEF MacInv, Control, RadioPhase, PcPhase, Awaited, InStep
<1> QED BY <1>1, MacCorrect, PTL

\* No frame is on air more often than nb_trans, whatever aborts, downlinks and LBT do to
\* the cycles and whatever the network makes of nb_trans meanwhile.
THEOREM RepetitionsBounded == Spec => []Repetitions
<1>1. MacInv => Repetitions
  BY TypeParts DEF MacInv, CountTypes, Attempts, Repetitions
<1> QED BY <1>1, MacCorrect, PTL

\* No DevNonce that has been saved goes on air again, across resets at any point, short of
\* the last one and of a reset between the erasing and the writing of the page.
THEOREM NoncesFresh == Spec => FreshNonce
<1>1. MacInv /\ [Next]_vars => [GoesOnAir /\ mtype = "join"
                                => nonce \notin spent \/ nonce = NonceMax \/ torn]_vars
  BY DEF MacInv, NonceOrder, GoesOnAir
<1> QED BY <1>1, MacCorrect, PTL DEF Spec, FreshNonce

\* If commands of the network always come with the acknowledgement, no two frames of a
\* session go on air with the same counter.
THEOREM CountersFresh ==
    ASSUME CommandsAcknowledge PROVE Spec => FreshCounter
<1>1. Init => CounterOrder
  BY DEF Init, CounterOrder
<1>2. MacInv /\ CounterOrder /\ [Next]_vars => CounterOrder'
  BY TypeParts, CounterStep DEF MacInv
<1>3. CounterOrder /\ MacInv /\ [Next]_vars
        => [GoesOnAir /\ mtype # "join" /\ aired = 0 => frame > lastCnt]_vars
  BY TypeParts DEF CounterOrder, GoesOnAir, MacInv, CountTypes
<1> QED BY <1>1, <1>2, <1>3, MacCorrect, PTL DEF Spec, FreshCounter
=============================================================================
