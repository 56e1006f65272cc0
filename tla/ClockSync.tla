------------------------------ MODULE ClockSync ------------------------------
(***************************************************************************)
(* Clock synchronisation (smtc_clock_sync.c, alc_sync.c, and what the      *)
(* supervisor, the device management and the MAC do for it).               *)
(*                                                                         *)
(* The time comes with a MAC command (DeviceTimeReq) or with messages of   *)
(* the application layer (AppTimeReq).  A periodic task asks for it, one   *)
(* repeats a resynchronisation the network has forced, one sends a single  *)
(* DeviceTimeReq.  The answer to a DeviceTimeReq comes in the windows of   *)
(* the uplink, those of the application layer with any downlink, in class  *)
(* C from an interrupt at any point of the engine.                         *)
(*                                                                         *)
(* Times are distances from the right one, modulo the width of the clock.  *)
(***************************************************************************)
EXTENDS Integers, Sequences

CONSTANTS
    Seconds,     \* 2^32, the width of a time in seconds
    Tokens,      \* 16, the tokens of an AppTimeReq
    Counts,      \* 2^8, the width of nb_transmission
    MaxNb,       \* the largest number of forced repetitions
    MaxTrans,    \* nb_trans of the MAC
    Started,     \* the services the host may start
    Commands,    \* what the network may ask for
    MaxAnswers,  \* bound: AppTimeAns on their way
    MaxCalls     \* bound: calls of the host and commands of the network

Service == {"mac", "alc"}
Time    == 0 .. Seconds - 1
Token   == 0 .. Tokens - 1

ASSUME ClockSyncAssumption ==
    /\ Seconds \in Nat \ {0} /\ Tokens \in Nat /\ Tokens > 1
    /\ MaxTrans \in Nat \ {0} /\ {MaxNb, MaxAnswers, MaxCalls} \subseteq Nat
    /\ Counts \in Nat /\ MaxNb < Counts
    /\ Started \subseteq Service
    /\ Commands \subseteq {"period", "resync", "version", "rejoin"}

VARIABLES
    enabled,  \* clock_sync_ctx_t: enabled
    service,  \* its sync_service_type
    status,   \* sync_status of each service
    time,     \* its time: never set, valid or outdated
    error,    \* how far time_correction_s of the ALC is from the right one
    token,    \* token_req
    nb,       \* nb_transmission
    userReq,  \* device_time_user_req
    stamped,  \* ghost: is the tx timestamp of the request that of the last uplink?
    right,    \* ghost: is it that of the uplink the last DeviceTimeAns was for?
    when,     \* modem_task
    next,     \* next_task_id
    pc,       \* the task the engine is launching, or "main"
    build,    \* how far it is with an AppTimeReq
    fix,      \* the correction it has read for it
    count,    \* and the value of nb_transmission
    joined,   \* is the modem joined?
    mac,      \* what the MAC is doing
    trans,    \* nb_trans_cpt
    frame,    \* what the uplink asks for
    answers,  \* the AppTimeAns on their way
    spoilt,   \* ghost: may a request with the present token be of a former time?
    wrong,    \* ghost: may the last answer taken have been to such a request?
    calls     \* bound: calls and commands so far

Tasks == {"timereq", "alcans", "devtime"}
Idle  == "none"

sync   == <<enabled, service>>
clocks == <<status, time>>
ghosts == <<spoilt, wrong>>
alc    == <<error, token, nb, ghosts>>
devreq == <<userReq, stamped, right>>
request == <<build, fix, count>>
tasks  == <<when, next, pc, request>>
radio  == <<mac, trans, frame>>
vars   == <<sync, clocks, alc, devreq, tasks, joined, radio, answers, calls>>

-----------------------------------------------------------------------------
Plain          == [kind |-> "plain", token |-> 0, fix |-> 0]
DeviceTimeReq  == [kind |-> "devtime", token |-> 0, fix |-> 0]
AppTimeReq     == [kind |-> "apptime", token |-> token, fix |-> fix]

NotBuilding == build = "none" /\ fix = 0 /\ count = 0

Init ==
    /\ enabled = FALSE /\ service = "mac"
    /\ status = [s \in Service |-> "none"] /\ time = [s \in Service |-> "never"]
    /\ error \in Time /\ token = 0 /\ nb = 0
    /\ spoilt = FALSE /\ wrong = FALSE
    /\ userReq = "none" /\ stamped = FALSE /\ right = FALSE
    /\ when = [t \in Tasks |-> "off"] /\ next = Idle /\ pc = "main" /\ NotBuilding
    /\ joined = FALSE
    /\ mac = "idle" /\ trans = 1 /\ frame = Plain
    /\ answers = <<>> /\ calls = 0

InHand == {t \in Tasks : when[t] # "off"} \union ({next} \ {Idle})
OnAir  == mac = "tx" /\ frame.kind = "apptime"

Call == calls < MaxCalls /\ calls' = calls + 1
Host == pc = "main" /\ Call

-----------------------------------------------------------------------------
(* The calls of the host *)

\* clock_sync_set_sync_lost: the time of the MAC keeps its timestamp.
Forgotten(s) == IF s = "alc" THEN [time EXCEPT !["alc"] = "never"] ELSE time

\* clock_sync_set_enabled resets the state of the MAC's service.
Reset(s) == [r \in Service |-> IF r \in {"mac", s} THEN "none" ELSE status[r]]

\* Unless a former service has left its task in the table, a joined modem asks at once.
StartService(s) ==
    /\ Host /\ ~enabled
    /\ enabled' = TRUE /\ service' = s
    /\ IF joined /\ when["timereq"] = "off"
       THEN /\ when' = [when EXCEPT !["timereq"] = "later"]
            /\ status' = Reset(s) /\ time' = Forgotten(s)
       ELSE status' = Reset("mac") /\ UNCHANGED <<when, time>>
    /\ UNCHANGED <<alc, devreq, next, pc, request, joined, radio, answers>>

StopService ==
    /\ Host /\ enabled
    /\ enabled' = FALSE
    /\ when' = [when EXCEPT !["timereq"] = "off", !["alcans"] = "off"]
    /\ status' = Reset(service) /\ time' = Forgotten(service)
    /\ UNCHANGED <<service, alc, devreq, next, pc, request, joined, radio, answers>>

\* smtc_modem_time_trigger_sync_request.
Trigger ==
    /\ Host /\ joined
    /\ when' = [when EXCEPT !["devtime"] = "due"]
    /\ UNCHANGED <<sync, clocks, alc, devreq, next, pc, request, joined, radio, answers>>

\* smtc_modem_set_time: the host is off by e.
SetTime(e) ==
    /\ Host
    /\ status' = [status EXCEPT ![service] = "manual"]
    /\ IF service = "alc"
       THEN /\ error' = e /\ time' = [time EXCEPT !["alc"] = "valid"]
            /\ spoilt' = (OnAir \/ answers # <<>>) /\ wrong' = FALSE
       ELSE UNCHANGED <<error, time, ghosts>>
    /\ UNCHANGED <<sync, token, nb, devreq, tasks, joined, radio, answers>>

\* lr1mac_core_abort, by a leave of the host or a rejoin of the network.
Unjoin ==
    /\ joined' = FALSE
    /\ mac' = IF mac = "idle" THEN "idle" ELSE "aborted"
    /\ trans' = 1
    /\ UNCHANGED frame

Leave ==
    /\ Host /\ Unjoin
    /\ when' = [t \in Tasks |-> "off"] /\ next' = Idle
    /\ UNCHANGED <<sync, clocks, alc, devreq, pc, request, answers>>

\* An uplink of another task.
OtherUplink ==
    /\ Host /\ joined /\ mac = "idle" /\ next = Idle
    /\ mac' = "tx" /\ trans' = MaxTrans /\ frame' = Plain
    /\ UNCHANGED <<sync, clocks, alc, devreq, tasks, joined, answers>>

-----------------------------------------------------------------------------
(* What the network sends *)

\* alc_sync_decode_app_time_ans; an answer, whatever its token, puts the periodic
\* task off and takes the repetitions out.
TokenKept(t) == t  \* mutant
NextToken(t) == (t + 1) % Tokens

Expected(a) == a.token = token

AppTimeAns ==
    /\ joined /\ answers # <<>> /\ answers' = Tail(answers)
    /\ when' = [when EXCEPT !["timereq"] = "later", !["alcans"] = "off"]
    /\ LET a == Head(answers) IN
        IF Expected(a)
        THEN /\ token' = NextToken(token)
             /\ error' = (error - a.fix) % Seconds
             /\ nb' = 0
             /\ wrong' = spoilt /\ spoilt' = (build # "none")
             /\ status' = [status EXCEPT !["alc"] = "network"]
             /\ time' = [time EXCEPT !["alc"] = "valid"]
        ELSE UNCHANGED <<alc, clocks>>
    /\ UNCHANGED <<sync, devreq, next, pc, request, joined, radio, calls>>

LoseAnswer ==
    /\ answers # <<>> /\ answers' = Tail(answers)
    /\ UNCHANGED <<sync, clocks, alc, devreq, tasks, joined, radio, calls>>

Command(c) == c \in Commands /\ joined /\ Call

PeriodicityReq ==
    /\ Command("period")
    /\ when' = [when EXCEPT !["timereq"] = "later", !["alcans"] = "due"]
    /\ UNCHANGED <<sync, clocks, alc, devreq, next, pc, request, joined, radio, answers>>

\* A forced resynchronisation with 0 repetitions is discarded.
ForceResync(n) ==
    /\ Command("resync")
    /\ nb' = n
    /\ when' = IF n > 0 THEN [when EXCEPT !["alcans"] = "due"] ELSE when
    /\ UNCHANGED <<sync, clocks, error, token, ghosts, devreq, next, pc, request,
                   joined, radio, answers>>

VersionReq ==
    /\ Command("version")
    /\ when' = [when EXCEPT !["alcans"] = "due"]
    /\ UNCHANGED <<sync, clocks, alc, devreq, next, pc, request, joined, radio, answers>>

Rejoin ==
    /\ Command("rejoin") /\ Unjoin
    /\ UNCHANGED <<sync, clocks, alc, devreq, tasks, answers>>

\* The join is over: a new session, which reads no downlink of the former one.
JoinedTasks == IF enabled THEN [when EXCEPT !["timereq"] = "later"] ELSE when

Join ==
    /\ ~joined /\ pc = "main" /\ mac = "idle" /\ next = Idle
    /\ joined' = TRUE
    /\ userReq' = "none" /\ answers' = <<>>
    /\ when' = JoinedTasks
    /\ UNCHANGED <<sync, clocks, alc, stamped, right, next, pc, request, radio, calls>>

-----------------------------------------------------------------------------
(* modem_supervisor_launch_task *)

Id(t) == CASE t = "timereq" -> 10 [] t = "alcans" -> 11 [] t = "devtime" -> 17

Launch(t) ==
    /\ pc = "main" /\ mac = "idle" /\ next = Idle
    /\ when[t] = "due" /\ \A u \in Tasks : when[u] = "due" => Id(t) <= Id(u)
    /\ pc' = t /\ next' = t

\* The MAC takes the uplink, or refuses it: no session, no channel, no room.
Send(f, n) ==
    \/ UNCHANGED radio
    \/ joined /\ mac' = "tx" /\ trans' = n /\ frame' = f

\* lr1mac_core_send_stack_cid_req: the request counts as pending, sent or not; a
\* pending one is not sent again, the uplink goes out empty.
SendDeviceTimeReq ==
    /\ userReq' = "requested"
    /\ Send(IF userReq = "requested" THEN Plain ELSE DeviceTimeReq, MaxTrans)

\* clock_sync_request and the launch of ALC_SYNC_ANS_TASK read the correction first.
StartAppTimeReq == build' = "test" /\ fix' = error /\ UNCHANGED count

NoRequest == build' = "none" /\ fix' = 0 /\ count' = 0

LaunchTimeReq ==
    /\ Launch("timereq")
    /\ \/ ~joined /\ UNCHANGED <<userReq, radio, request>>
       \/ joined /\ service = "mac" /\ SendDeviceTimeReq /\ UNCHANGED request
       \/ joined /\ service = "alc" /\ StartAppTimeReq /\ UNCHANGED <<userReq, radio>>
    /\ UNCHANGED <<sync, clocks, alc, stamped, right, when, joined, answers, calls>>

LaunchAlcAns ==
    /\ Launch("alcans") /\ StartAppTimeReq
    /\ UNCHANGED <<sync, clocks, alc, devreq, when, joined, radio, answers, calls>>

LaunchDevTime ==
    /\ Launch("devtime")
    /\ SendDeviceTimeReq
    /\ UNCHANGED <<sync, clocks, alc, stamped, right, when, request, joined, answers,
                   calls>>

\* alc_sync_construct_app_time_request: the forced repetition of none is no request.
TestRepetitions ==
    /\ build = "test"
    /\ IF nb = 0 /\ pc = "alcans" THEN NoRequest /\ Send(Plain, 1)
       ELSE /\ build' = IF nb > 0 THEN "count" ELSE "token"
            /\ count' = nb
            /\ UNCHANGED <<fix, radio>>
    /\ UNCHANGED <<sync, clocks, alc, devreq, when, next, pc, joined, answers, calls>>

\* nb_transmission--, of the value tested before or of one read again: the answer
\* that has set it to 0 in between is forgotten, or the count wraps.
CountRepetition ==
    /\ build = "count" /\ build' = "token" /\ count' = 0
    /\ nb' \in {count - 1, (nb - 1) % Counts}
    /\ UNCHANGED <<sync, clocks, error, token, ghosts, devreq, when, next, pc, fix,
                   joined, radio, answers, calls>>

\* The token is read last.  Sent at a given time, hence once.
SendAppTimeReq ==
    /\ build = "token" /\ NoRequest
    /\ Send(AppTimeReq, 1)
    /\ UNCHANGED <<sync, clocks, alc, devreq, when, next, pc, joined, answers, calls>>

Remove ==
    /\ pc # "main" /\ build = "none" /\ pc' = "main"
    /\ when' = [when EXCEPT ![pc] = "off"]
    /\ UNCHANGED <<sync, clocks, alc, devreq, next, request, joined, radio, answers,
                   calls>>

-----------------------------------------------------------------------------
(* modem_supervisor_update_task *)

Close(t) == pc = "main" /\ mac = "idle" /\ next = t /\ next' = Idle

\* clock_sync_callback: a time of the ALC that is too old is reported as lost.
NeverTooOld == FALSE  \* mutant
TooOld == service = "alc" /\ status["alc"] # "none" /\ time["alc"] # "valid"

Reported ==
    IF TooOld THEN status' = [status EXCEPT !["alc"] = "none"] /\ time' = Forgotten("alc")
              ELSE UNCHANGED clocks

\* The callback ends with the next request.
CalledUnlessStopped == service = "alc" /\ status["alc"] # "none"  \* mutant
CalledBack == service = "alc"

CloseTimeReq ==
    /\ Close("timereq")
    /\ IF CalledBack
       THEN Reported /\ when' = [when EXCEPT !["timereq"] = "later"]
       ELSE UNCHANGED <<clocks, when>>
    /\ UNCHANGED <<sync, alc, devreq, pc, request, joined, radio, answers, calls>>

CloseAlcAns ==
    /\ Close("alcans")
    /\ when' = IF nb > 0 /\ joined THEN [when EXCEPT !["alcans"] = "later"] ELSE when
    /\ UNCHANGED <<sync, clocks, alc, devreq, pc, request, joined, radio, answers, calls>>

CloseDevTime ==
    /\ Close("devtime")
    /\ UNCHANGED <<sync, clocks, alc, devreq, when, pc, request, joined, radio, answers,
                   calls>>

-----------------------------------------------------------------------------
(* The MAC and the time *)

\* lr1_stack_mac_update_tx_done stamps the first transmission of the request.  The
\* network may hear an AppTimeReq and answer it.
TxDone ==
    /\ pc = "main" /\ mac = "tx" /\ mac' = "rx"
    /\ stamped' = (userReq = "requested")
    /\ userReq' = IF userReq = "requested" THEN "sent" ELSE userReq
    /\ right' = (right /\ userReq # "requested")
    /\ \/ UNCHANGED answers
       \/ OnAir /\ Len(answers) < MaxAnswers /\ answers' = Append(answers, frame)
    /\ UNCHANGED <<sync, clocks, alc, tasks, joined, trans, frame, calls>>

\* The DeviceTimeAns to the last transmission, in its windows.
DeviceTimeAns ==
    /\ pc = "main" /\ mac = "rx" /\ frame.kind = "devtime" /\ userReq = "sent"
    /\ mac' = "idle" /\ userReq' = "acked" /\ right' = stamped
    /\ status' = [s \in Service |->
                    CASE s = "mac" /\ service = "mac" -> "network"
                      [] s = "alc" /\ TooOld          -> "none"
                      [] OTHER                        -> status[s]]
    /\ time' = [time EXCEPT !["mac"] = "valid", !["alc"] = IF TooOld THEN "never" ELSE @]
    /\ when' = [when EXCEPT !["timereq"] = "later"]
    /\ UNCHANGED <<sync, alc, stamped, next, pc, request, joined, trans, frame, answers,
                   calls>>

\* The end of a cycle, or the next repetition; an aborted task ends one too.
MacEnd ==
    /\ pc = "main" /\ mac # "idle"
    /\ \/ mac' = "idle" /\ UNCHANGED trans
       \/ mac # "aborted" /\ trans > 1 /\ mac' = "tx" /\ trans' = trans - 1
    /\ UNCHANGED <<sync, clocks, alc, devreq, tasks, joined, frame, answers, calls>>

FallDue(t) ==
    /\ when[t] = "later" /\ when' = [when EXCEPT ![t] = "due"]
    /\ UNCHANGED <<sync, clocks, alc, devreq, next, pc, request, joined, radio, answers,
                   calls>>

Outdate(s) ==
    /\ time[s] = "valid" /\ time' = [time EXCEPT ![s] = "outdated"]
    /\ UNCHANGED <<sync, status, alc, devreq, tasks, joined, radio, answers, calls>>

-----------------------------------------------------------------------------
HostCalls ==
    \/ \E s \in Started : StartService(s)
    \/ StopService \/ Trigger \/ Leave \/ OtherUplink
    \/ \E e \in Time : SetTime(e)

Network ==
    \/ AppTimeAns \/ LoseAnswer
    \/ PeriodicityReq \/ VersionReq \/ Rejoin
    \/ \E n \in 0 .. MaxNb : ForceResync(n)

Engine ==
    \/ LaunchTimeReq \/ LaunchAlcAns \/ LaunchDevTime
    \/ TestRepetitions \/ CountRepetition \/ SendAppTimeReq \/ Remove
    \/ CloseTimeReq \/ CloseAlcAns \/ CloseDevTime

Mac == TxDone \/ DeviceTimeAns \/ MacEnd

Next ==
    \/ HostCalls \/ Network \/ Join \/ Engine \/ Mac
    \/ \E t \in Tasks : FallDue(t)
    \/ \E s \in Service : Outdate(s)

Spec == Init /\ [][Next]_vars

\* The main loop goes on, the MAC ends its cycles, time passes.
FairSpec ==
    /\ Spec
    /\ WF_vars(Engine) /\ WF_vars(Mac)
    /\ \A t \in Tasks : WF_vars(FallDue(t))

-----------------------------------------------------------------------------
(* Properties *)

Request == [kind : {"plain", "devtime", "apptime"}, token : Token, fix : Time]

\* The types of the variables; in particular the token stays in the bits the messages
\* have for it.  The count of forced repetitions does not: it may wrap.
TypeOK ==
    /\ enabled \in BOOLEAN /\ service \in Service
    /\ status \in [Service -> {"none", "manual", "network"}]
    /\ time \in [Service -> {"never", "valid", "outdated"}]
    /\ error \in Time /\ token \in Token /\ nb \in 0 .. Counts - 1
    /\ userReq \in {"none", "requested", "sent", "acked"}
    /\ stamped \in BOOLEAN /\ right \in BOOLEAN
    /\ when \in [Tasks -> {"off", "later", "due"}]
    /\ next \in Tasks \union {Idle} /\ pc \in Tasks \union {"main"}
    /\ build \in {"none", "test", "count", "token"}
    /\ fix \in Time /\ count \in 0 .. Counts - 1 /\ (build = "count" => count > 0)
    /\ joined \in BOOLEAN
    /\ mac \in {"idle", "tx", "rx", "aborted"}
    /\ trans \in 1 .. MaxTrans /\ frame \in Request
    /\ answers \in Seq(Request) /\ Len(answers) <= MaxAnswers
    /\ spoilt \in BOOLEAN /\ wrong \in BOOLEAN /\ calls \in 0 .. MaxCalls

\* An answer is taken once, by the request it was for: retries, late and lost answers
\* leave no wrong time that passes for the network's.  Two things can: the host sets
\* the time while an answer is on its way, or an answer comes while a request is
\* built, between its correction and its token.  The next answer mends that.
AlcTimeRight == status["alc"] = "network" /\ ~wrong => error = 0

\* While the application layer's service runs on a joined modem, its task is in the
\* table or about to be put back, whatever answers, commands, leaves, joins, stops
\* and starts come in between.
ServiceGoesOn == enabled /\ service = "alc" /\ joined => "timereq" \in InHand

\* A time that has become too old is reported as lost, if it is not renewed.
Lost(s) ==
    enabled /\ service = s /\ joined /\ status[s] # "none" /\ time[s] = "outdated"
AlcLossReported == Lost("alc") ~> ~Lost("alc")

\* The same for the MAC's service.  Not so in the code: a request that finds no
\* answer is never repeated, and nothing looks at the time any more.
MacLossReported == Lost("mac") ~> ~Lost("mac")

\* The time of the MAC is the network's, counted from the request it was the answer
\* to.  Not so in the code: a later request that finds no answer has moved the
\* timestamp the time is counted from.
MacTimeRight ==
    mac = "idle" /\ status["mac"] = "network" /\ time["mac"] = "valid" => right

\* A single request starts no service.  Not so in the code: its answer puts the
\* periodic task in the table.
SingleRequest == ~enabled => when["timereq"] = "off"

\* Forced repetitions go on until a valid answer, unless the host stops the service
\* or the modem leaves.  Not so in the code: an answer with an old token, to a
\* request repeated before, takes their task out as well.
ResyncGoesOn ==
    [][nb > 0 /\ "alcans" \in InHand /\ enabled
        => "alcans" \in InHand' \/ nb' = 0 \/ ~enabled' \/ ~joined']_vars
=============================================================================
