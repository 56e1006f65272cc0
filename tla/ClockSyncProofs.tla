--------------------------- MODULE ClockSyncProofs ---------------------------
(***************************************************************************)
(* For every width of the clock, number of tokens, of repetitions and of   *)
(* answers on their way: the time of the application layer is right, and   *)
(* its service goes on.  Two tokens are enough, because answers come in    *)
(* the order of their requests and a new token follows an accepted one:    *)
(* the answers that may still be taken are the last ones of the queue.     *)
(***************************************************************************)
EXTENDS ClockSync, TLAPS

\* An answer with the present token corrects the present error.
Corrects(a) == a.token = token /\ ~spoilt => a.fix = error

\* So do the answers on their way; behind one with the present token no older one comes.
QueueInv ==
    /\ \A i \in 1 .. Len(answers) : Corrects(answers[i])
    /\ \A i, j \in 1 .. Len(answers) :
        i < j /\ answers[i].token = token => answers[j].token = token

\* The request on air comes after all of them, and is not repeated.
FrameInv ==
    /\ OnAir => Corrects(frame)
    /\ OnAir /\ frame.token # token =>
        \A i \in 1 .. Len(answers) : answers[i].token # token
    /\ mac # "idle" /\ frame.kind = "apptime" => trans = 1

\* A request is built while the MAC is idle, and with the present correction, unless an
\* answer has been taken since it was read.
BuildInv ==
    build # "none" => /\ pc # "main" /\ mac = "idle"
                      /\ ~spoilt => fix = error

Consistent == QueueInv /\ FrameInv /\ BuildInv /\ AlcTimeRight

TimeInv == TypeOK /\ QueueInv /\ FrameInv /\ BuildInv /\ AlcTimeRight

\* A launch is about the task that will be closed, unless the modem has left.
LaunchKept == pc # "main" /\ joined => next = pc

ServiceInv == TypeOK /\ LaunchKept /\ ServiceGoesOn

-----------------------------------------------------------------------------
(* Types *)

LEMMA TimeArithmetic ==
    ASSUME NEW a \in Time, NEW b \in Time
    PROVE  (a - b) % Seconds \in Time /\ (a - a) % Seconds = 0
<1>1. Seconds \in Nat \ {0}
  BY ClockSyncAssumption
<1>. QED  BY <1>1 DEF Time

LEMMA TokenArithmetic ==
    ASSUME NEW t \in Token
    PROVE  NextToken(t) \in Token /\ NextToken(t) # t
<1>1. Tokens \in Nat /\ Tokens > 1 /\ t \in 0 .. Tokens - 1
  BY ClockSyncAssumption DEF Token
<1>2. CASE t = Tokens - 1
  BY <1>1, <1>2 DEF NextToken, Token
<1>3. CASE t # Tokens - 1
  <2>1. t + 1 \in 0 .. Tokens - 1
    BY <1>1, <1>3
  <2>2. (t + 1) % Tokens = t + 1
    BY <1>1, <2>1
  <2>. QED  BY <1>1, <2>1, <2>2 DEF NextToken, Token
<1>. QED  BY <1>2, <1>3

\* The answer at the head is a request that was sent; the others stay in the queue.
LEMMA HeadTypes ==
    ASSUME TypeOK, answers # <<>>
    PROVE  /\ Head(answers) \in Request /\ Head(answers) = answers[1]
           /\ Len(answers) \in Nat \ {0}
           /\ Tail(answers) \in Seq(Request) /\ Len(Tail(answers)) = Len(answers) - 1
           /\ \A i \in 1 .. Len(answers) - 1 : Tail(answers)[i] = answers[i + 1]
<1>. QED  BY DEF TypeOK

\* The requests the engine builds.
LEMMA RequestTypes ==
    ASSUME TypeOK
    PROVE  Plain \in Request /\ DeviceTimeReq \in Request /\ AppTimeReq \in Request
<1>1. 0 \in Token /\ 0 \in Time
  BY ClockSyncAssumption DEF Token, Time
<1>. QED  BY <1>1 DEF TypeOK, Request, Plain, DeviceTimeReq, AppTimeReq

LEMMA UnjoinTypes ==
    ASSUME TypeOK, Unjoin
    PROVE  /\ joined' \in BOOLEAN /\ mac' \in {"idle", "tx", "rx", "aborted"}
           /\ trans' \in 1 .. MaxTrans /\ frame' \in Request
<1>1. 1 \in 1 .. MaxTrans
  BY ClockSyncAssumption
<1>. QED  BY <1>1 DEF TypeOK, Unjoin

LEMMA CallTypes == ASSUME TypeOK, Call PROVE calls' \in 0 .. MaxCalls
<1>. QED  BY ClockSyncAssumption DEF TypeOK, Call

LEMMA TypesInit == Init => TypeOK
<1>. SUFFICES ASSUME Init PROVE TypeOK
  OBVIOUS
<1>1. 0 \in Token /\ 0 \in Time /\ trans \in 1 .. MaxTrans
  BY ClockSyncAssumption DEF Token, Time, Init
<1>2. frame \in Request
  BY <1>1 DEF Init, Plain, Request
<1>3. answers \in Seq(Request) /\ Len(answers) <= MaxAnswers
  BY ClockSyncAssumption DEF Init
<1>4. nb \in 0 .. Counts - 1 /\ count \in 0 .. Counts - 1 /\ calls \in 0 .. MaxCalls
  BY ClockSyncAssumption DEF Init, NotBuilding
<1>5. /\ status \in [Service -> {"none", "manual", "network"}]
      /\ time \in [Service -> {"never", "valid", "outdated"}]
      /\ when \in [Tasks -> {"off", "later", "due"}]
  BY DEF Init
<1>. QED  BY <1>1, <1>2, <1>3, <1>4, <1>5 DEF Init, TypeOK, Service, NotBuilding

LEMMA TypesStep == ASSUME TypeOK, [Next]_vars PROVE TypeOK'
<1>. USE ClockSyncAssumption DEF TypeOK, vars, sync, clocks, alc, ghosts, devreq,
    tasks, request, radio
<1>1. CASE UNCHANGED vars
  BY <1>1
<1>2. CASE HostCalls
  <2>. USE CallTypes DEF HostCalls, Host
  <2>1. CASE \E s \in Started : StartService(s)
    BY <2>1 DEF StartService, Reset, Forgotten, Service, Tasks
  <2>2. CASE StopService
    <3>1. calls' \in 0 .. MaxCalls
      BY <2>2 DEF StopService
    <3>2. when' \in [Tasks -> {"off", "later", "due"}]
      BY <2>2 DEF StopService, Tasks
    <3>3. status' \in [Service -> {"none", "manual", "network"}]
      BY <2>2 DEF StopService, Reset, Service
    <3>4. time' \in [Service -> {"never", "valid", "outdated"}]
      BY <2>2 DEF StopService, Forgotten, Service
    <3>. QED  BY <2>2, <3>1, <3>2, <3>3, <3>4, ZenonT(60) DEF StopService
  <2>3. CASE Trigger
    BY <2>3 DEF Trigger, Tasks
  <2>4. CASE Leave
    BY <2>4, UnjoinTypes DEF Leave, Tasks, Idle
  <2>5. CASE OtherUplink
    BY <2>5, RequestTypes DEF OtherUplink
  <2>6. CASE \E e \in Time : SetTime(e)
    <3>1. spoilt' \in BOOLEAN /\ wrong' \in BOOLEAN
      BY <2>6, Zenon DEF SetTime
    <3>2. /\ error' \in Time
          /\ status' \in [Service -> {"none", "manual", "network"}]
          /\ time' \in [Service -> {"never", "valid", "outdated"}]
      BY <2>6 DEF SetTime, Service
    <3>. QED  BY <2>6, <3>1, <3>2 DEF SetTime
  <2>. QED  BY <1>2, <2>1, <2>2, <2>3, <2>4, <2>5, <2>6
<1>3. CASE Network
  <2>1. CASE AppTimeAns
    <3>1. answers' \in Seq(Request) /\ Len(answers') <= MaxAnswers
      BY <2>1, HeadTypes DEF AppTimeAns
    <3>2. token' \in Token /\ error' \in Time
      BY <2>1, HeadTypes, TimeArithmetic, TokenArithmetic DEF AppTimeAns, Request
    <3>3. spoilt' \in BOOLEAN /\ wrong' \in BOOLEAN
      BY <2>1, Zenon DEF AppTimeAns
    <3>4. nb' \in 0 .. Counts - 1
      BY <2>1 DEF AppTimeAns
    <3>5. /\ when' \in [Tasks -> {"off", "later", "due"}]
          /\ status' \in [Service -> {"none", "manual", "network"}]
          /\ time' \in [Service -> {"never", "valid", "outdated"}]
      BY <2>1 DEF AppTimeAns, Tasks, Service
    <3>. QED  BY <2>1, <3>1, <3>2, <3>3, <3>4, <3>5 DEF AppTimeAns
  <2>2. CASE LoseAnswer
    BY <2>2, HeadTypes DEF LoseAnswer
  <2>3. CASE PeriodicityReq \/ VersionReq
    BY <2>3, CallTypes DEF PeriodicityReq, VersionReq, Command, Tasks
  <2>4. CASE Rejoin
    BY <2>4, CallTypes, UnjoinTypes DEF Rejoin, Command
  <2>5. CASE \E n \in 0 .. MaxNb : ForceResync(n)
    BY <2>5, CallTypes DEF ForceResync, Command, Tasks
  <2>. QED  BY <1>3, <2>1, <2>2, <2>3, <2>4, <2>5 DEF Network
<1>4. CASE Join
  BY <1>4 DEF Join, JoinedTasks, Tasks
<1>5. CASE Engine
  <2>1. CASE LaunchTimeReq \/ LaunchAlcAns \/ LaunchDevTime
    BY <2>1, RequestTypes DEF LaunchTimeReq, LaunchAlcAns, LaunchDevTime, Launch,
       SendDeviceTimeReq, StartAppTimeReq, Send, Tasks
  <2>2. CASE Remove
    BY <2>2 DEF Remove, Tasks
  <2>4. CASE TestRepetitions
    BY <2>4, RequestTypes DEF TestRepetitions, NoRequest, Send, Time
  <2>5. CASE CountRepetition
    <3>1. count - 1 \in 0 .. Counts - 1 /\ (nb - 1) % Counts \in 0 .. Counts - 1
      BY <2>5 DEF CountRepetition
    <3>. QED  BY <2>5, <3>1 DEF CountRepetition
  <2>6. CASE SendAppTimeReq
    BY <2>6, RequestTypes DEF SendAppTimeReq, NoRequest, Send, Time
  <2>3. CASE CloseTimeReq \/ CloseAlcAns \/ CloseDevTime
    BY <2>3 DEF CloseTimeReq, CloseAlcAns, CloseDevTime, Close, CalledBack, Reported,
       Forgotten, Tasks, Service, Idle
  <2>. QED  BY <1>5, <2>1, <2>2, <2>3, <2>4, <2>5, <2>6 DEF Engine
<1>6. CASE Mac
  <2>1. CASE TxDone
    <3>1. answers' \in Seq(Request) /\ Len(answers') <= MaxAnswers
      BY <2>1 DEF TxDone
    <3>2. stamped' \in BOOLEAN /\ right' \in BOOLEAN
      BY <2>1, Zenon DEF TxDone
    <3>. QED  BY <2>1, <3>1, <3>2 DEF TxDone
  <2>2. CASE DeviceTimeAns
    BY <2>2 DEF DeviceTimeAns, Tasks, Service
  <2>3. CASE MacEnd
    BY <2>3 DEF MacEnd
  <2>. QED  BY <1>6, <2>1, <2>2, <2>3 DEF Mac
<1>7. CASE \E t \in Tasks : FallDue(t)
  BY <1>7 DEF FallDue
<1>8. CASE \E s \in Service : Outdate(s)
  BY <1>8 DEF Outdate, Service
<1>. QED  BY <1>1, <1>2, <1>3, <1>4, <1>5, <1>6, <1>7, <1>8 DEF Next

\* The state keeps its types: tokens, times and counts stay within their fields, the
\* count of repetitions only because it wraps.
THEOREM TypeCorrect == Spec => []TypeOK
<1>. QED  BY TypesInit, TypesStep, PTL DEF Spec

-----------------------------------------------------------------------------
(* The time *)

LEMMA TimeInit == Init => TimeInv
<1>1. Init => TypeOK
  BY TypesInit
<1>2. Init => QueueInv /\ FrameInv /\ BuildInv /\ AlcTimeRight
  BY DEF Init, NotBuilding, QueueInv, FrameInv, BuildInv, AlcTimeRight, OnAir, Service
<1>. QED  BY <1>1, <1>2 DEF TimeInv

\* What an answer does: the first with the present token makes the error 0 and the
\* tokens of all that follow old.
LEMMA TimeAnswered ==
    ASSUME TimeInv, AppTimeAns PROVE Consistent'
<1>. DEFINE a == Head(answers)  n == Len(answers)
<1>1. /\ a \in Request /\ a = answers[1] /\ n \in Nat \ {0}
      /\ Len(answers') = n - 1
      /\ \A i \in 1 .. n - 1 : answers'[i] = answers[i + 1]
  BY HeadTypes DEF TimeInv, AppTimeAns
<1>2. UNCHANGED <<mac, trans, frame, pc, build, fix>>
  BY DEF AppTimeAns, radio, request
<1>3. CASE Expected(a)
  <2>1. /\ a.token = token /\ token' = NextToken(token) /\ token' # token
        /\ error' = (error - a.fix) % Seconds
        /\ wrong' = spoilt /\ spoilt' = (build # "none")
    BY <1>3, TokenArithmetic DEF AppTimeAns, Expected, TimeInv, TypeOK
  <2>2. \A i \in 1 .. n : answers[i].token = token
    BY <1>1, <2>1 DEF TimeInv, QueueInv
  <2>3. \A i \in 1 .. Len(answers') : answers'[i].token # token'
    BY <1>1, <2>1, <2>2
  <2>4. OnAir => frame.token = token
    BY <1>1, <2>2 DEF TimeInv, FrameInv
  <2>5. QueueInv'
    BY <2>3 DEF QueueInv, Corrects
  <2>6. FrameInv'
    BY <1>2, <2>1, <2>3, <2>4 DEF TimeInv, FrameInv, Corrects, OnAir
  <2>7. BuildInv'
    BY <1>2, <2>1 DEF TimeInv, BuildInv
  <2>8. ~wrong' => error' = 0
    <3>1. ~spoilt => a.fix = error
      BY <1>1, <2>1 DEF TimeInv, QueueInv, Corrects
    <3>2. (error - error) % Seconds = 0
      BY TimeArithmetic DEF TimeInv, TypeOK
    <3>. QED  BY <2>1, <3>1, <3>2
  <2>. QED  BY <2>5, <2>6, <2>7, <2>8 DEF Consistent, AlcTimeRight
<1>4. CASE ~Expected(a)
  <2>1. UNCHANGED <<token, error, spoilt, wrong, status>>
    BY <1>4 DEF AppTimeAns, alc, ghosts, clocks
  <2>2. QueueInv'
    BY <1>1, <1>2, <2>1 DEF TimeInv, QueueInv, Corrects
  <2>3. FrameInv'
    BY <1>1, <1>2, <2>1 DEF TimeInv, FrameInv, Corrects, OnAir
  <2>4. BuildInv' /\ AlcTimeRight'
    BY <1>2, <2>1 DEF TimeInv, BuildInv, AlcTimeRight
  <2>. QED  BY <2>2, <2>3, <2>4 DEF Consistent
<1>. QED  BY <1>3, <1>4

\* A request goes out with the present token and, unless spoilt, the present error.
LEMMA TimeSent ==
    ASSUME TimeInv, SendAppTimeReq PROVE Consistent'
<1>1. /\ build # "none" /\ build' = "none" /\ mac = "idle" /\ (~spoilt => fix = error)
      /\ UNCHANGED <<token, error, spoilt, wrong, answers, status>>
  BY DEF TimeInv, BuildInv, SendAppTimeReq, NoRequest, alc, ghosts, clocks
<1>2. AlcTimeRight' /\ QueueInv' /\ BuildInv'
  BY <1>1 DEF TimeInv, AlcTimeRight, QueueInv, BuildInv, Corrects
<1>3. CASE UNCHANGED radio
  <2>1. FrameInv'
    BY <1>1, <1>3 DEF FrameInv, OnAir, radio
  <2>. QED  BY <1>2, <2>1 DEF Consistent
<1>4. CASE mac' = "tx" /\ trans' = 1 /\ frame' = AppTimeReq
  <2>1. frame'.token = token' /\ (~spoilt' => frame'.fix = error')
    BY <1>1, <1>4 DEF AppTimeReq
  <2>2. FrameInv'
    BY <1>4, <2>1 DEF FrameInv, Corrects, OnAir
  <2>. QED  BY <1>2, <2>2 DEF Consistent
<1>. QED  BY <1>3, <1>4 DEF SendAppTimeReq, Send

\* No other uplink asks for a time of the application layer.
LEMMA TimeOther ==
    ASSUME TimeInv, mac = "idle",
           UNCHANGED <<token, error, ghosts, answers, status>>,
           UNCHANGED request \/ NoRequest,
           UNCHANGED pc \/ build = "none",
           \/ UNCHANGED radio
           \/ frame' \in {Plain, DeviceTimeReq} /\ build' = "none"
    PROVE  Consistent'
<1>. QED  BY DEF TimeInv, QueueInv, FrameInv, BuildInv, AlcTimeRight, Consistent, Corrects,
             OnAir, radio, request, ghosts, NoRequest, Plain, DeviceTimeReq

\* A transmitted request takes its place behind the answers.
LEMMA TimeTransmitted ==
    ASSUME TimeInv, TxDone PROVE Consistent'
<1>1. UNCHANGED <<token, error, spoilt, wrong, frame, trans, status>> /\ mac' = "rx"
      /\ mac = "tx" /\ build' = build
  BY DEF TxDone, alc, ghosts, clocks, tasks, request
<1>2. AlcTimeRight' /\ FrameInv' /\ BuildInv'
  BY <1>1 DEF TimeInv, AlcTimeRight, FrameInv, BuildInv, OnAir
<1>3. CASE UNCHANGED answers
  BY <1>1, <1>2, <1>3 DEF TimeInv, QueueInv, Corrects, Consistent
<1>4. CASE OnAir /\ answers' = Append(answers, frame)
  <2>1. /\ Len(answers) \in Nat /\ Len(answers') = Len(answers) + 1
        /\ answers'[Len(answers) + 1] = frame
        /\ \A i \in 1 .. Len(answers) : answers'[i] = answers[i]
    BY <1>4 DEF TimeInv, TypeOK
  <2>2. Corrects(frame)
    BY <1>4 DEF TimeInv, FrameInv
  <2>3. \A i \in 1 .. Len(answers') : Corrects(answers'[i])
    BY <2>1, <2>2 DEF TimeInv, QueueInv
  <2>4. ASSUME NEW i \in 1 .. Len(answers'), NEW j \in 1 .. Len(answers'),
               i < j, answers'[i].token = token
        PROVE  answers'[j].token = token
    <3>1. i \in 1 .. Len(answers) /\ answers[i].token = token
      BY <2>1, <2>4
    <3>2. CASE j = Len(answers) + 1
      BY <1>4, <2>1, <3>1, <3>2 DEF TimeInv, FrameInv
    <3>3. CASE j # Len(answers) + 1
      BY <2>1, <2>4, <3>1, <3>3 DEF TimeInv, QueueInv
    <3>. QED  BY <3>2, <3>3
  <2>. QED  BY <1>1, <1>2, <2>3, <2>4 DEF QueueInv, Corrects, Consistent
<1>. QED  BY <1>3, <1>4 DEF TxDone

LEMMA TimeStep == ASSUME TimeInv, [Next]_vars PROVE TimeInv'
<1>. SUFFICES Consistent'
  BY TypesStep DEF TimeInv, Consistent
<1>. DEFINE Same == UNCHANGED <<token, error, spoilt, wrong, answers, status>>
<1>1. CASE /\ UNCHANGED <<token, error, spoilt, wrong, answers, mac, trans, frame>>
           /\ UNCHANGED <<build, fix>> /\ (UNCHANGED pc \/ build = "none")
           /\ status'["alc"] \in {status["alc"], "none"}
  BY <1>1 DEF TimeInv, QueueInv, FrameInv, BuildInv, AlcTimeRight, Consistent, Corrects,
     OnAir
<1>. DEFINE Aborted == Same /\ UNCHANGED <<build, fix, pc>>
<1>2. CASE Unjoin /\ Aborted
  BY <1>2 DEF Unjoin, TimeInv, QueueInv, FrameInv, BuildInv, AlcTimeRight, Consistent,
     Corrects, OnAir
<1>3. CASE HostCalls
  <2>1. CASE (\E s \in Started : StartService(s)) \/ StopService \/ Trigger
    BY <1>1, <2>1, ClockSyncAssumption DEF StartService, StopService, Trigger, Reset,
       TimeInv, TypeOK, Service, alc, ghosts, radio, request, clocks
  <2>2. CASE Leave
    BY <1>2, <2>2 DEF Leave, alc, ghosts, clocks, request
  <2>3. CASE OtherUplink
    <3>1. build = "none"
      BY <2>3 DEF OtherUplink, Host, TimeInv, BuildInv
    <3>. QED  BY <2>3, <3>1, TimeOther DEF OtherUplink, alc, clocks, tasks, request
  <2>4. ASSUME NEW e \in Time, SetTime(e)
        PROVE  Consistent'
    <3>1. CASE service = "alc"
      <4>1. status'["alc"] = "manual" /\ UNCHANGED <<token, answers, mac, trans, frame>>
        BY <2>4, <3>1 DEF SetTime, TimeInv, TypeOK, Service, radio
      <4>2. spoilt' \/ (~OnAir /\ answers = <<>>)
        BY <2>4, <3>1 DEF SetTime
      <4>3. build = "none" /\ build' = "none"
        BY <2>4 DEF SetTime, Host, TimeInv, BuildInv, tasks, request
      <4>. QED  BY <4>1, <4>2, <4>3 DEF TimeInv, QueueInv, FrameInv, BuildInv, Consistent,
                AlcTimeRight, Corrects, OnAir
    <3>2. CASE service = "mac"
      BY <1>1, <2>4, <3>2 DEF SetTime, TimeInv, TypeOK, Service, radio, ghosts, tasks,
         request
    <3>. QED  BY <3>1, <3>2 DEF TimeInv, TypeOK, Service
  <2>. QED  BY <1>3, <2>1, <2>2, <2>3, <2>4 DEF HostCalls
<1>4. CASE Network
  <2>1. CASE LoseAnswer
    <3>1. /\ UNCHANGED <<token, error, spoilt, wrong, mac, trans, frame, status>>
          /\ UNCHANGED <<pc, build, fix>>
      BY <2>1 DEF LoseAnswer, alc, ghosts, radio, clocks, tasks, request
    <3>2. /\ Len(answers) \in Nat \ {0} /\ Len(answers') = Len(answers) - 1
          /\ \A i \in 1 .. Len(answers) - 1 : answers'[i] = answers[i + 1]
      BY <2>1, HeadTypes DEF LoseAnswer, TimeInv
    <3>. QED  BY <3>1, <3>2 DEF TimeInv, QueueInv, FrameInv, BuildInv, AlcTimeRight,
              Consistent, Corrects, OnAir
  <2>2. CASE PeriodicityReq \/ VersionReq \/ \E n \in 0 .. MaxNb : ForceResync(n)
    BY <1>1, <2>2 DEF PeriodicityReq, VersionReq, ForceResync, alc, ghosts, radio, clocks,
       request
  <2>3. CASE Rejoin
    BY <1>2, <2>3 DEF Rejoin, alc, ghosts, clocks, tasks, request
  <2>. QED  BY <1>4, <2>1, <2>2, <2>3, TimeAnswered DEF Network
<1>5. CASE Join
  <2>1. /\ UNCHANGED <<token, error, spoilt, wrong, mac, trans, frame, status>>
        /\ UNCHANGED <<pc, build, fix>> /\ answers' = <<>>
    BY <1>5 DEF Join, alc, ghosts, radio, clocks, request
  <2>. QED  BY <2>1 DEF TimeInv, QueueInv, FrameInv, BuildInv, AlcTimeRight, Consistent,
            Corrects, OnAir
<1>6. CASE Engine
  <2>1. CASE LaunchTimeReq \/ LaunchAlcAns \/ LaunchDevTime
    <3>1. mac = "idle" /\ Same /\ pc = "main" /\ build = "none"
      BY <2>1 DEF LaunchTimeReq, LaunchAlcAns, LaunchDevTime, Launch, clocks, alc, ghosts,
         TimeInv, BuildInv
    <3>2. CASE StartAppTimeReq /\ pc' # "main" /\ UNCHANGED radio
      BY <3>1, <3>2 DEF StartAppTimeReq, TimeInv, QueueInv, FrameInv, BuildInv,
         AlcTimeRight, Consistent, Corrects, OnAir, radio
    <3>3. CASE UNCHANGED request /\ (UNCHANGED radio \/ SendDeviceTimeReq)
      BY <3>1, <3>3, TimeOther DEF SendDeviceTimeReq, Send, request, ghosts
    <3>. QED  BY <2>1, <3>2, <3>3 DEF LaunchTimeReq, LaunchAlcAns, LaunchDevTime, Launch,
              Tasks
  <2>2. CASE TestRepetitions
    <3>1. Same /\ UNCHANGED pc /\ mac = "idle"
      BY <2>2 DEF TestRepetitions, TimeInv, BuildInv, alc, ghosts, clocks
    <3>2. CASE NoRequest /\ Send(Plain, 1)
      BY <3>1, <3>2, TimeOther DEF Send, NoRequest, ghosts
    <3>3. CASE UNCHANGED <<fix, radio>>
      BY <2>2, <3>1, <3>3 DEF TestRepetitions, TimeInv, QueueInv, FrameInv, BuildInv,
         AlcTimeRight, Consistent, Corrects, OnAir, radio
    <3>. QED  BY <2>2, <3>2, <3>3 DEF TestRepetitions
  <2>3. CASE CountRepetition
    BY <2>3 DEF CountRepetition, TimeInv, QueueInv, FrameInv, BuildInv, AlcTimeRight,
       Consistent, Corrects, OnAir, radio, ghosts, clocks
  <2>4. CASE Remove
    BY <1>1, <2>4 DEF Remove, alc, ghosts, radio, clocks, request
  <2>5. CASE CloseTimeReq
    BY <1>1, <2>5 DEF CloseTimeReq, Reported, TimeInv, TypeOK, Service, alc, ghosts, radio,
       clocks, request
  <2>6. CASE CloseAlcAns \/ CloseDevTime
    BY <1>1, <2>6 DEF CloseAlcAns, CloseDevTime, alc, ghosts, radio, clocks, request
  <2>. QED  BY <1>6, <2>1, <2>2, <2>3, <2>4, <2>5, <2>6, TimeSent DEF Engine
<1>7. CASE Mac
  <2>1. CASE DeviceTimeAns
    <3>1. /\ UNCHANGED <<token, error, spoilt, wrong, answers, trans, frame, build>>
          /\ mac' = "idle" /\ build = "none"
      BY <2>1 DEF DeviceTimeAns, alc, ghosts, request, TimeInv, BuildInv
    <3>2. status'["alc"] \in {status["alc"], "none"}
      BY <2>1 DEF DeviceTimeAns, Service
    <3>. QED  BY <3>1, <3>2 DEF TimeInv, QueueInv, FrameInv, BuildInv, AlcTimeRight,
              Consistent, Corrects, OnAir
  <2>2. CASE MacEnd
    <3>1. UNCHANGED <<token, error, spoilt, wrong, answers, frame, status, build>>
          /\ build = "none"
      BY <2>2 DEF MacEnd, alc, ghosts, clocks, tasks, request, TimeInv, BuildInv
    <3>2. CASE mac' = "idle"
      BY <3>1, <3>2 DEF TimeInv, QueueInv, FrameInv, BuildInv, AlcTimeRight, Consistent,
         Corrects, OnAir
    <3>3. CASE mac # "idle" /\ trans > 1
      BY <3>1, <3>3 DEF TimeInv, QueueInv, FrameInv, BuildInv, AlcTimeRight, Consistent,
         Corrects, OnAir
    <3>. QED  BY <2>2, <3>2, <3>3 DEF MacEnd
  <2>. QED  BY <1>7, <2>1, <2>2, TimeTransmitted DEF Mac
<1>8. CASE (\E t \in Tasks : FallDue(t)) \/ \E s \in Service : Outdate(s)
  BY <1>1, <1>8 DEF FallDue, Outdate, alc, ghosts, radio, clocks, tasks, request
<1>9. CASE UNCHANGED vars
  BY <1>1, <1>9 DEF vars, alc, ghosts, radio, clocks, tasks, request
<1>. QED  BY <1>3, <1>4, <1>5, <1>6, <1>7, <1>8, <1>9 DEF Next

\* Tokens keep retries, late and lost answers apart: a time that passes for the
\* network's is right, unless the host set one while its answer was on its way, or the
\* answer before came while its request was built.
THEOREM TimeRight == Spec => []AlcTimeRight
<1>1. TimeInv => AlcTimeRight
  BY DEF TimeInv
<1>. QED  BY <1>1, TimeInit, TimeStep, PTL DEF Spec

-----------------------------------------------------------------------------
(* The service *)

LEMMA ServiceInit == Init => ServiceInv
<1>. QED  BY TypesInit DEF Init, ServiceInv, LaunchKept, ServiceGoesOn

LEMMA ServiceStep == ASSUME ServiceInv, [Next]_vars PROVE ServiceInv'
<1>. SUFFICES LaunchKept' /\ ServiceGoesOn'
  BY TypesStep DEF ServiceInv
<1>. USE DEF ServiceInv, LaunchKept, ServiceGoesOn, InHand, TypeOK, Tasks, Idle, sync
<1>1. CASE UNCHANGED <<sync, tasks, joined>>
  BY <1>1 DEF tasks
<1>2. CASE HostCalls
  <2>. USE DEF HostCalls, Host
  <2>1. CASE \E s \in Started : StartService(s)
    BY <2>1 DEF StartService
  <2>2. CASE StopService
    BY <2>2 DEF StopService
  <2>3. CASE Trigger
    BY <2>3 DEF Trigger
  <2>4. CASE Leave
    BY <2>4 DEF Leave, Unjoin
  <2>5. CASE OtherUplink \/ \E e \in Time : SetTime(e)
    BY <1>1, <2>5 DEF OtherUplink, SetTime
  <2>. QED  BY <1>2, <2>1, <2>2, <2>3, <2>4, <2>5
<1>3. CASE Network
  <2>1. CASE AppTimeAns
    BY <2>1 DEF AppTimeAns
  <2>2. CASE LoseAnswer
    BY <1>1, <2>2 DEF LoseAnswer
  <2>3. CASE PeriodicityReq \/ VersionReq \/ \E n \in 0 .. MaxNb : ForceResync(n)
    BY <2>3 DEF PeriodicityReq, VersionReq, ForceResync
  <2>4. CASE Rejoin
    BY <2>4 DEF Rejoin, Unjoin, tasks
  <2>. QED  BY <1>3, <2>1, <2>2, <2>3, <2>4 DEF Network
<1>4. CASE Join
  BY <1>4 DEF Join, JoinedTasks
<1>5. CASE Engine
  <2>1. CASE LaunchTimeReq \/ LaunchAlcAns \/ LaunchDevTime
    BY <2>1 DEF LaunchTimeReq, LaunchAlcAns, LaunchDevTime, Launch
  <2>5. CASE TestRepetitions \/ CountRepetition \/ SendAppTimeReq
    BY <2>5 DEF TestRepetitions, CountRepetition, SendAppTimeReq
  <2>2. CASE Remove
    BY <2>2 DEF Remove
  <2>3. CASE CloseTimeReq
    BY <2>3 DEF CloseTimeReq, Close, CalledBack
  <2>4. CASE CloseAlcAns \/ CloseDevTime
    BY <2>4 DEF CloseAlcAns, CloseDevTime, Close
  <2>. QED  BY <1>5, <2>1, <2>2, <2>3, <2>4, <2>5 DEF Engine
<1>6. CASE Mac
  BY <1>1, <1>6 DEF Mac, TxDone, DeviceTimeAns, MacEnd, tasks
<1>7. CASE \E t \in Tasks : FallDue(t)
  BY <1>7 DEF FallDue
<1>8. CASE (\E s \in Service : Outdate(s)) \/ UNCHANGED vars
  BY <1>1, <1>8 DEF Outdate, vars
<1>. QED  BY <1>2, <1>3, <1>4, <1>5, <1>6, <1>7, <1>8 DEF Next

\* The application layer's service never loses its task on a joined modem.
THEOREM GoesOn == Spec => []ServiceGoesOn
<1>1. ServiceInv => ServiceGoesOn
  BY DEF ServiceInv
<1>. QED  BY <1>1, ServiceInit, ServiceStep, PTL DEF Spec
=============================================================================
