-------------------------- MODULE ModemSupervisor --------------------------
(***************************************************************************)
(* The task manager of the modem (modem_supervisor.c), with the calls of   *)
(* the host (smtc_modem.c) and the commands of the device management       *)
(* (dm_downlink.c, modem_context.c) that put tasks in it or take them out. *)
(*                                                                         *)
(* The main loop calls the engine.  While the MAC is busy the engine polls *)
(* it; else it closes the task it launched last, lets the host take its    *)
(* events, and launches the best of the tasks that are due.  The host      *)
(* calls between two passes or from the callback of the engine.  A command *)
(* of the network comes with a downlink: from the MAC, or in class C from  *)
(* an interrupt, at any point of a pass.                                   *)
(***************************************************************************)
EXTENDS Integers

CONSTANTS
    MaxDays,   \* the longest mute that ends (0xFE)
    Infinite,  \* the mute without end (0xFF)
    MaxCalls   \* bound: calls of the host and commands of the network

ASSUME SupervisorAssumption ==
    /\ {MaxDays, Infinite, MaxCalls} \subseteq Nat
    /\ Infinite = MaxDays + 1

Tasks == {"send", "join", "dm", "upload", "mute"}
Idle  == "none"
Days  == 0 .. MaxDays \union {Infinite}

VARIABLES
    when,       \* modem_task: off (TASK_FINISH), later, or due
    emergency,  \* is the priority of SEND_TASK the one of an emergency?
    next,       \* next_task_id: the task that was launched and is not closed
    pc,         \* the task the engine is launching, or "main"
    joining,    \* the joining bit of modem_status
    status,     \* its joined bit
    uploading,  \* its file upload bit
    upload,     \* modem_upload_state
    days,       \* number_of_muted_day
    counting,   \* how far the mute task is with it
    left,       \* what it will set it to
    suspended,  \* is_modem_suspend
    dtc,        \* the enablement of the regional duty cycle
    blocked,    \* has the band no time on air left?
    mac,        \* what the MAC is doing
    joined,     \* join_status of the MAC
    dropped,    \* ghost: tasks a leave took out, not put back since
    calls       \* bound: calls and commands so far

bits    == <<joining, status, uploading>>
host    == <<days, suspended>>
count   == <<counting, left>>
tasks   == <<when, emergency, next, pc, count>>
network == <<mac, joined>>
duty    == <<dtc, blocked>>
vars    == <<tasks, bits, upload, host, duty, network, dropped, calls>>

-----------------------------------------------------------------------------
Init ==
    /\ when = [t \in Tasks |-> "off"] /\ emergency = FALSE
    /\ next = Idle /\ pc = "main" /\ counting = "no" /\ left = 0
    /\ joining = FALSE /\ status = FALSE /\ uploading = FALSE /\ upload = "none"
    /\ days = 0 /\ suspended = FALSE
    /\ dtc = "enabled" /\ blocked = FALSE
    /\ mac = "idle" /\ joined = FALSE
    /\ dropped = {} /\ calls = 0

Pending   == {t \in Tasks : when[t] # "off"}
Joined    == joined /\ ~joining   \* get_join_state = MODEM_JOINED
Temporary == days \notin {0, Infinite}
Connected == days = 0 /\ ~suspended /\ Joined

\* modem_supervisor_add_task: the new task replaces the one of the same kind.
Add(t, time) ==
    /\ when' = [when EXCEPT ![t] = time]
    /\ dropped' = dropped \ {t}

\* The same, if the guard of the caller holds.
AddIf(cond, t, time) ==
    IF cond THEN Add(t, time) ELSE UNCHANGED <<when, dropped>>

\* lr1mac_core_abort: the cycle of the MAC goes on, and it hears nothing any more
\* if the radio was at work for it.
Aborted == IF mac \in {"join", "up"} THEN {mac, "aborted"} ELSE {mac}

-----------------------------------------------------------------------------
(* The calls of the host *)

Call == calls < MaxCalls /\ calls' = calls + 1
Host == pc = "main" /\ Call

JoinNetwork ==
    /\ Host /\ ~joining /\ ~joined /\ days # Infinite /\ ~suspended
    /\ joining' = TRUE
    /\ Add("join", "later")
    /\ UNCHANGED <<emergency, next, pc, count, status, uploading, upload, host, duty,
                   network>>

\* smtc_modem_leave_network, called by the host or for a new region.
ClearTasks ==
    /\ when' = [t \in Tasks |-> "off"] /\ next' = Idle
    /\ dropped' = dropped \union Pending \union ({next} \ {Idle})

Leave ==
    /\ ClearTasks
    /\ joined' = FALSE /\ mac' \in Aborted
    /\ joining' = FALSE /\ status' = FALSE /\ uploading' = FALSE
    /\ UNCHANGED <<emergency, pc, count, upload, host, duty>>

LeaveNetwork == Host /\ Leave

\* smtc_modem_send_tx, with or without payload.
RequestUplink(urgent) ==
    /\ Host /\ Connected
    /\ emergency' = urgent
    /\ dtc' = IF urgent THEN "partial" ELSE dtc
    /\ Add("send", "due")
    /\ UNCHANGED <<next, pc, count, bits, upload, host, blocked, network>>

Suspend ==
    /\ Host /\ suspended' = ~suspended
    /\ UNCHANGED <<tasks, bits, upload, days, duty, network, dropped>>

UploadInit ==
    /\ Host /\ upload \in {"none", "finished"}
    /\ upload' = "ready"
    /\ UNCHANGED <<tasks, bits, host, duty, network, dropped>>

UploadStart ==
    /\ Host /\ Connected /\ upload = "ready"
    /\ upload' = "ongoing" /\ uploading' = TRUE
    /\ Add("upload", "later")
    /\ UNCHANGED <<emergency, next, pc, count, joining, status, host, duty, network>>

UploadReset ==
    /\ Host /\ upload \in {"ready", "ongoing"}
    /\ upload' = "none" /\ uploading' = FALSE
    /\ UNCHANGED <<tasks, joining, status, host, duty, network, dropped>>

-----------------------------------------------------------------------------
(* The commands of the network (dm_parse_cmd) *)

Command == joined /\ Call

DmRejoin ==
    /\ Command
    /\ status' = FALSE /\ joined' = FALSE /\ mac' \in Aborted
    /\ joining' = TRUE /\ Add("join", "later")
    /\ UNCHANGED <<emergency, next, pc, count, uploading, upload, host, duty>>

DmRegion == Command /\ Leave

DmFileDone ==
    /\ Command /\ upload = "ongoing"
    /\ upload' = "finished" /\ uploading' = FALSE
    /\ when' = [when EXCEPT !["upload"] = "off"]
    /\ UNCHANGED <<emergency, next, pc, count, joining, status, host, duty, network,
                   dropped>>

DmMute(d) ==
    /\ Command
    /\ days' = d
    /\ AddIf(d \notin {0, Infinite}, "mute", "later")
    /\ UNCHANGED <<emergency, next, pc, count, bits, upload, suspended, duty, network>>

-----------------------------------------------------------------------------
(* modem_supervisor_launch_task, for the best of the tasks that are due *)

Priority(t) ==
    CASE t = "send" /\ emergency          -> 0
      [] t = "send" /\ ~emergency         -> 1
      [] t \in {"join", "upload"}         -> 1
      [] t = "mute"                       -> 2
      [] t = "dm"                         -> 3
Id(t) ==
    CASE t = "send" -> 0 [] t = "join" -> 2 [] t = "dm" -> 3
      [] t = "upload" -> 5 [] t = "mute" -> 7

\* The first of the best, in the order of the task ids.
BeforeLast(t, u) ==  \* mutant
    Priority(t) < Priority(u) \/ (Priority(t) = Priority(u) /\ Id(t) > Id(u))
Before(t, u) ==
    Priority(t) < Priority(u) \/ (Priority(t) = Priority(u) /\ Id(t) < Id(u))

Elected(t) ==
    /\ when[t] = "due"
    /\ \A u \in Tasks \ {t} : when[u] = "due" => Before(t, u)

Launch(t) ==
    /\ pc = "main" /\ mac = "idle" /\ next = Idle
    /\ ~suspended /\ days # Infinite /\ ~(blocked /\ dtc = "enabled")
    /\ Elected(t)
    /\ pc' = t

\* lorawan_api_payload_send refuses a frame out of a session, or without a channel.
Sent == IF joined THEN {"idle", "up"} ELSE {"idle"}

\* A join clears the session first, and may find no channel.
LaunchJoin ==
    /\ Launch("join")
    /\ next' = IF Joined THEN Idle ELSE "join"
    /\ IF joining THEN joined' = FALSE /\ mac' \in {"idle", "join"}
                  ELSE UNCHANGED network
    /\ UNCHANGED <<when, emergency, count, bits, upload, host, duty, dropped, calls>>

LaunchUplink(t) ==
    /\ Launch(t) /\ next' = t
    /\ mac' \in IF t = "dm" /\ ~Joined THEN {"idle"} ELSE Sent
    /\ UNCHANGED <<when, emergency, count, bits, upload, host, duty, joined, dropped,
                   calls>>

\* A fragment of the file, or the end of the upload without an answer.
LaunchUpload ==
    /\ Launch("upload") /\ next' = "upload"
    /\ \/ /\ mac' \in IF Joined /\ upload = "ongoing" THEN Sent ELSE {"idle"}
          /\ UNCHANGED <<upload, uploading>>
       \/ /\ Joined /\ upload = "ongoing"
          /\ upload' = "finished" /\ uploading' = FALSE
          /\ UNCHANGED mac
    /\ UNCHANGED <<when, emergency, count, joining, status, host, duty, joined, dropped,
                   calls>>

\* The mute task looks at the days, reads them and sets them, with commands between.
LaunchMute ==
    /\ Launch("mute") /\ next' = "mute"
    /\ counting' = IF Temporary THEN "tested" ELSE "no"
    /\ UNCHANGED <<when, emergency, left, bits, upload, host, duty, network, dropped,
                   calls>>

\* One day less, in the octet: none gives the mute without end.
OneLess(d) == (d - 1) % (Infinite + 1)

ReadDays ==
    /\ counting = "tested" /\ counting' = "read"
    /\ left' = OneLess(days)
    /\ UNCHANGED <<when, emergency, next, pc, bits, upload, host, duty, network, dropped,
                   calls>>

SetDays ==
    /\ counting = "read" /\ counting' = "no"
    /\ days' = left /\ left' = 0
    /\ UNCHANGED <<when, emergency, next, pc, bits, upload, suspended, duty, network,
                   dropped, calls>>

\* The end of the launch: the task leaves the table.
Remove ==
    /\ pc # "main" /\ counting = "no" /\ pc' = "main"
    /\ when' = [when EXCEPT ![pc] = "off"]
    /\ UNCHANGED <<emergency, next, count, bits, upload, host, duty, network, dropped,
                   calls>>

-----------------------------------------------------------------------------
(* modem_supervisor_update_task, when the MAC is idle again *)

Close(t) == pc = "main" /\ mac = "idle" /\ next = t /\ next' = Idle

\* Joined: the first report is due.  Not joined: the join is launched again.
AfterJoinSilent == AddIf(joining /\ ~joined, "join", "later")  \* mutant
AfterJoin ==
    IF joining /\ ~joined THEN Add("join", "later") ELSE AddIf(joining, "dm", "due")

\* The last branch: a modem that was told to leave in between is not joined.
UpdateJoin ==
    /\ Close("join")
    /\ joining' = (joining /\ ~joined)
    /\ joined' = (joined /\ joining)
    /\ status' = (status \/ (joined /\ joining))
    /\ AfterJoin
    /\ UNCHANGED <<emergency, pc, count, uploading, upload, host, duty, mac, calls>>

\* TXDONE is reported; an emergency uplink may have disabled the duty cycle.
DtcKept == dtc  \* mutant
DtcClosed == "enabled"

UpdateSend ==
    /\ Close("send")
    /\ dtc' = DtcClosed
    /\ UNCHANGED <<when, emergency, pc, count, bits, upload, host, blocked, network,
                   dropped, calls>>

UpdateDm ==
    /\ Close("dm")
    /\ AddIf(Joined, "dm", "later")
    /\ UNCHANGED <<emergency, pc, count, bits, upload, host, duty, network, calls>>

UploadAgain == upload = "ongoing"

UpdateUpload ==
    /\ Close("upload")
    /\ AddIf(UploadAgain, "upload", "later")
    /\ uploading' = (uploading /\ upload # "finished")
    /\ UNCHANGED <<emergency, pc, count, joining, status, upload, host, duty, network,
                   calls>>

MuteAgainJoined == Temporary /\ Joined  \* mutant
MuteAgain == Temporary

UpdateMute ==
    /\ Close("mute")
    /\ AddIf(MuteAgain, "mute", "later")
    /\ UNCHANGED <<emergency, pc, count, bits, upload, host, duty, network, calls>>

-----------------------------------------------------------------------------
(* The MAC, the band and the clock *)

\* The radio has received the join accept; the MAC has not seen it yet.
Hear ==
    /\ mac = "join" /\ mac' = "heard"
    /\ UNCHANGED <<tasks, bits, upload, host, duty, joined, dropped, calls>>

\* The poll that ends the cycle: lr1mac_core_process.
MacEnd ==
    /\ pc = "main" /\ mac # "idle" /\ mac' = "idle"
    /\ joined' = (joined \/ mac = "heard")
    /\ blocked' \in {blocked, TRUE}
    /\ UNCHANGED <<tasks, bits, upload, host, dtc, dropped, calls>>

BandFree ==
    /\ blocked /\ blocked' = FALSE
    /\ UNCHANGED <<tasks, bits, upload, host, dtc, network, dropped, calls>>

FallDue(t) ==
    /\ when[t] = "later"
    /\ when' = [when EXCEPT ![t] = "due"]
    /\ UNCHANGED <<emergency, next, pc, count, bits, upload, host, duty, network,
                   dropped, calls>>

-----------------------------------------------------------------------------
Engine ==
    \/ LaunchJoin \/ LaunchUpload \/ LaunchMute \/ ReadDays \/ SetDays
    \/ \E t \in {"send", "dm"} : LaunchUplink(t)
    \/ Remove
    \/ UpdateJoin \/ UpdateSend \/ UpdateDm \/ UpdateUpload \/ UpdateMute

HostCalls ==
    \/ JoinNetwork \/ LeaveNetwork \/ Suspend
    \/ \E urgent \in BOOLEAN : RequestUplink(urgent)
    \/ UploadInit \/ UploadStart \/ UploadReset

Commands == DmRejoin \/ DmRegion \/ DmFileDone \/ \E d \in Days : DmMute(d)

Next ==
    \/ Engine \/ HostCalls \/ Commands
    \/ Hear \/ MacEnd \/ BandFree
    \/ \E t \in Tasks : FallDue(t)

Spec == Init /\ [][Next]_vars

\* The main loop goes on, a cycle of the MAC ends, the band frees itself, time passes.
FairSpec ==
    /\ Spec
    /\ WF_vars(Engine) /\ WF_vars(MacEnd) /\ WF_vars(BandFree)
    /\ \A t \in Tasks : WF_vars(FallDue(t))

-----------------------------------------------------------------------------
(* Properties *)

\* The types of the variables.
TypeOK ==
    /\ when \in [Tasks -> {"off", "later", "due"}]
    /\ next \in Tasks \union {Idle} /\ pc \in Tasks \union {"main"}
    /\ emergency \in BOOLEAN /\ joining \in BOOLEAN /\ status \in BOOLEAN
    /\ uploading \in BOOLEAN /\ suspended \in BOOLEAN
    /\ blocked \in BOOLEAN /\ joined \in BOOLEAN
    /\ upload \in {"none", "ready", "ongoing", "finished"}
    /\ days \in Days /\ left \in Days /\ counting \in {"no", "tested", "read"}
    /\ dtc \in {"enabled", "partial"}
    /\ mac \in {"idle", "join", "heard", "up", "aborted"}
    /\ dropped \subseteq Tasks
    /\ calls \in 0 .. MaxCalls

InHand == Pending \union ({next} \ {Idle})

\* A modem that says it is joining will try: the join task is in the table, or it
\* is the one the engine will close.
JoinInHand == joining => "join" \in InHand

\* A mute that ends has its task, unless a leave has taken it out of the table.
MuteInHand == Temporary => "mute" \in InHand \union dropped

\* An upload that goes on has its task, unless a leave has taken it out.
UploadInHand == upload = "ongoing" => "upload" \in InHand \union dropped

\* A state that says that something goes on, a join, a mute or an upload, has the
\* task that goes on with it, whatever was called while it was launched or closed.
TasksInHand == JoinInHand /\ MuteInHand /\ UploadInHand

\* The duty cycle is disabled only while an uplink of the host is to be closed,
\* unless a leave has taken it out.
DutyCycleBack == dtc = "partial" => "send" \in InHand \union dropped

\* A modem that says it is joined goes on reporting its status.
ReportsGoOn == status => Joined /\ "dm" \in InHand

\* An uplink of the host is closed, whatever else is due, while the modem may send.
Asked == "send" \in InHand
UplinkClosed == Asked ~> (~Asked \/ suspended \/ days = Infinite)

\* An emergency uplink is not subject to the duty cycle.  Not so in the code: an
\* uplink in flight, once closed, enables the duty cycle again.
EmergencyUnbound == "send" \in Pending /\ emergency => dtc = "partial"

\* A modem that was told to leave, and not to join again, does not join.  Not so in
\* the code: a leave between the accept and the end of the cycle comes too late.
LeftIsLeft == mac = "idle" /\ joined => status \/ "join" \in InHand
=============================================================================
