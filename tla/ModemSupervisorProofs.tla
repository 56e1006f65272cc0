----------------------- MODULE ModemSupervisorProofs -----------------------
(***************************************************************************)
(* The safety of the task manager, for every longest mute and every number *)
(* of calls.  The inductive invariant adds to the properties what ties the *)
(* join task to the joining bit, and the launch to the task it is about.   *)
(***************************************************************************)
EXTENDS ModemSupervisor, TLAPS

\* The task is in the table, or is the one the engine will close.
Held(t) == when[t] # "off" \/ next = t

\* A launch is about the task that will be closed, unless a leave came in between:
\* then the table is empty and nobody can fill it before the launch ends.
LaunchKept ==
    pc # "main" => next = pc \/ (next = Idle /\ when[pc] = "off" /\ ~joined)

JoinWanted == Held("join") => joining

\* A join begins out of a session.
NoSession == mac \in {"join", "heard"} => ~joined

\* A join that may still succeed, or has, is the only one asked for.
OneJoin ==
    next = "join" /\ pc = "main" /\ (joined \/ mac \in {"join", "heard"})
        => when["join"] = "off"

JoinHeld    == joining => Held("join")
MuteHeld    == Temporary => Held("mute") \/ "mute" \in dropped
UploadHeld  == upload = "ongoing" => Held("upload") \/ "upload" \in dropped
SendHeld    == dtc = "partial" => Held("send") \/ "send" \in dropped
ReportsHeld == status => Joined /\ Held("dm")

JoinInv == LaunchKept /\ JoinWanted /\ NoSession /\ OneJoin /\ JoinHeld /\ ReportsHeld
\* While the mute task counts, its launch holds it, unless a leave has taken it out.
CountHeld ==
    counting # "no" => pc = "mute" /\ (next = "mute" \/ "mute" \in dropped)

HeldInv == MuteHeld /\ UploadHeld /\ SendHeld /\ CountHeld

TasksInv == TypeOK /\ JoinInv /\ HeldInv

\* The parts of TypeOK, for the provers that are good at each.
TableTypes ==
    /\ when \in [Tasks -> {"off", "later", "due"}]
    /\ next \in Tasks \union {Idle} /\ pc \in Tasks \union {"main"}
DataTypes ==
    /\ upload \in {"none", "ready", "ongoing", "finished"}
    /\ days \in Days /\ left \in Days /\ counting \in {"no", "tested", "read"}
    /\ dtc \in {"enabled", "partial"}
    /\ mac \in {"idle", "join", "heard", "up", "aborted"}
    /\ calls \in 0 .. MaxCalls
BitTypes ==
    /\ emergency \in BOOLEAN /\ joining \in BOOLEAN /\ status \in BOOLEAN
    /\ uploading \in BOOLEAN /\ suspended \in BOOLEAN
    /\ blocked \in BOOLEAN /\ joined \in BOOLEAN

-----------------------------------------------------------------------------
\* The table and the task in hand keep their types.
LEMMA TablesStep ==
    ASSUME TypeOK, Next PROVE TableTypes'
<1> USE DEF TypeOK, TableTypes, Tasks, Idle, vars, tasks, bits, host, duty, network, count
<1>1. CASE \/ LaunchJoin \/ LaunchUpload \/ LaunchMute
          \/ \E t \in {"send", "dm"} : LaunchUplink(t)
  BY <1>1 DEF LaunchJoin, LaunchUpload, LaunchMute, LaunchUplink, Launch, Sent
<1>2. CASE ReadDays \/ SetDays \/ Remove
  BY <1>2 DEF ReadDays, SetDays, Remove
<1>3. CASE UpdateJoin \/ UpdateSend
  BY <1>3 DEF UpdateJoin, UpdateSend, Close, AfterJoin, AddIf, Add, DtcClosed
<1>4. CASE UpdateDm \/ UpdateUpload \/ UpdateMute
  BY <1>4 DEF UpdateDm, UpdateUpload, UpdateMute, Close, AddIf, Add
<1>5. CASE JoinNetwork \/ \E u \in BOOLEAN : RequestUplink(u)
  BY <1>5 DEF JoinNetwork, RequestUplink, Host, Call, Add
<1>6. CASE LeaveNetwork \/ DmRegion
  BY <1>6 DEF LeaveNetwork, DmRegion, Host, Command, Call, Leave, ClearTasks,
      Pending, Aborted
<1>7. CASE Suspend \/ UploadInit \/ UploadStart \/ UploadReset
  BY <1>7 DEF Suspend, UploadInit, UploadStart, UploadReset, Host, Call, Add
<1>8. CASE DmRejoin \/ DmFileDone \/ \E d \in Days : DmMute(d)
  BY <1>8 DEF DmRejoin, DmFileDone, DmMute, Command, Call, AddIf, Add, Aborted
<1>9. CASE Hear \/ MacEnd \/ BandFree
  BY <1>9 DEF Hear, MacEnd, BandFree
<1>10. CASE \E t \in Tasks : FallDue(t)
  BY <1>10 DEF FallDue
<1> QED
  BY <1>1, <1>2, <1>3, <1>4, <1>5, <1>6, <1>7, <1>8, <1>9, <1>10
  DEF Next, Engine, HostCalls, Commands

\* So do the counters and the phases of the upload and of the MAC.
LEMMA DataStep ==
    ASSUME TypeOK, Next PROVE DataTypes'
<1> USE SupervisorAssumption DEF TypeOK, DataTypes, Days, Temporary, vars, tasks,
      bits, host, duty, network, count
<1>1. CASE \/ LaunchJoin \/ LaunchUpload \/ LaunchMute
          \/ \E t \in {"send", "dm"} : LaunchUplink(t)
  BY <1>1 DEF LaunchJoin, LaunchUpload, LaunchMute, LaunchUplink, Launch, Sent
<1>2. CASE ReadDays \/ SetDays \/ Remove
  <2>1. OneLess(days) \in Days
    <3>1. days \in 0 .. Infinite
      OBVIOUS
    <3>2. OneLess(days) \in 0 .. Infinite
      BY <3>1 DEF OneLess
    <3>. QED  BY <3>2
  <2>. QED  BY <1>2, <2>1 DEF ReadDays, SetDays, Remove
<1>3. CASE UpdateJoin \/ UpdateSend
  BY <1>3 DEF UpdateJoin, UpdateSend, Close, AfterJoin, AddIf, Add, DtcClosed
<1>4. CASE UpdateDm \/ UpdateUpload \/ UpdateMute
  BY <1>4 DEF UpdateDm, UpdateUpload, UpdateMute, Close, AddIf, Add
<1>5. CASE JoinNetwork \/ \E u \in BOOLEAN : RequestUplink(u)
  BY <1>5 DEF JoinNetwork, RequestUplink, Host, Call, Add
<1>6. CASE LeaveNetwork \/ DmRegion
  BY <1>6 DEF LeaveNetwork, DmRegion, Host, Command, Call, Leave, ClearTasks,
      Pending, Aborted
<1>7. CASE Suspend \/ UploadInit \/ UploadStart \/ UploadReset
  BY <1>7 DEF Suspend, UploadInit, UploadStart, UploadReset, Host, Call, Add
<1>8. CASE DmRejoin \/ DmFileDone \/ \E d \in Days : DmMute(d)
  BY <1>8 DEF DmRejoin, DmFileDone, DmMute, Command, Call, AddIf, Add, Aborted
<1>9. CASE Hear \/ MacEnd \/ BandFree
  BY <1>9 DEF Hear, MacEnd, BandFree
<1>10. CASE \E t \in Tasks : FallDue(t)
  BY <1>10 DEF FallDue
<1> QED
  BY <1>1, <1>2, <1>3, <1>4, <1>5, <1>6, <1>7, <1>8, <1>9, <1>10
  DEF Next, Engine, HostCalls, Commands

\* So do the bits.
LEMMA BitsStep ==
    ASSUME TypeOK, Next PROVE BitTypes'
<1> USE DEF TypeOK, BitTypes, vars, tasks, bits, host, duty, network, count
<1>1. CASE \/ LaunchJoin \/ LaunchUpload \/ LaunchMute
          \/ \E t \in {"send", "dm"} : LaunchUplink(t)
  BY <1>1, Zenon DEF LaunchJoin, LaunchUpload, LaunchMute, LaunchUplink, Launch,
      Sent
<1>2. CASE ReadDays \/ SetDays \/ Remove
  BY <1>2, Zenon DEF ReadDays, SetDays, Remove
<1>3. CASE UpdateJoin \/ UpdateSend
  BY <1>3, Zenon DEF UpdateJoin, UpdateSend, Close, AfterJoin, AddIf, Add, DtcClosed
<1>4. CASE UpdateDm \/ UpdateUpload \/ UpdateMute
  BY <1>4, Zenon DEF UpdateDm, UpdateUpload, UpdateMute, Close, AddIf, Add
<1>5. CASE JoinNetwork \/ \E u \in BOOLEAN : RequestUplink(u)
  BY <1>5, Zenon DEF JoinNetwork, RequestUplink, Host, Call, Add
<1>6. CASE LeaveNetwork \/ DmRegion
  BY <1>6, Zenon DEF LeaveNetwork, DmRegion, Host, Command, Call, Leave,
      ClearTasks, Pending, Aborted
<1>7. CASE Suspend \/ UploadInit \/ UploadStart \/ UploadReset
  BY <1>7, Zenon DEF Suspend, UploadInit, UploadStart, UploadReset, Host, Call, Add
<1>8. CASE DmRejoin \/ DmFileDone \/ \E d \in Days : DmMute(d)
  BY <1>8, Zenon DEF DmRejoin, DmFileDone, DmMute, Command, Call, AddIf, Add,
      Aborted
<1>9. CASE Hear \/ MacEnd \/ BandFree
  BY <1>9, Zenon DEF Hear, MacEnd, BandFree
<1>10. CASE \E t \in Tasks : FallDue(t)
  BY <1>10, Zenon DEF FallDue
<1> QED
  BY <1>1, <1>2, <1>3, <1>4, <1>5, <1>6, <1>7, <1>8, <1>9, <1>10
  DEF Next, Engine, HostCalls, Commands

\* What a leave takes out of the table are tasks.
LEMMA DroppedStep ==
    ASSUME TypeOK, Next PROVE (dropped \subseteq Tasks)'
<1> USE DEF TypeOK, vars, tasks, bits, host, duty, network, count
<1>1. CASE \/ LaunchJoin \/ LaunchUpload \/ LaunchMute
          \/ \E t \in {"send", "dm"} : LaunchUplink(t)
  BY <1>1 DEF LaunchJoin, LaunchUpload, LaunchMute, LaunchUplink, Launch, Sent
<1>2. CASE ReadDays \/ SetDays \/ Remove
  BY <1>2 DEF ReadDays, SetDays, Remove
<1>3. CASE UpdateJoin \/ UpdateSend
  BY <1>3 DEF UpdateJoin, UpdateSend, Close, AfterJoin, AddIf, Add, DtcClosed
<1>4. CASE UpdateDm \/ UpdateUpload \/ UpdateMute
  BY <1>4 DEF UpdateDm, UpdateUpload, UpdateMute, Close, AddIf, Add
<1>5. CASE JoinNetwork \/ \E u \in BOOLEAN : RequestUplink(u)
  BY <1>5 DEF JoinNetwork, RequestUplink, Host, Call, Add
<1>6. CASE LeaveNetwork \/ DmRegion
  BY <1>6 DEF LeaveNetwork, DmRegion, Host, Command, Call, Leave, ClearTasks,
      Pending, Aborted
<1>7. CASE Suspend \/ UploadInit \/ UploadStart \/ UploadReset
  BY <1>7 DEF Suspend, UploadInit, UploadStart, UploadReset, Host, Call, Add
<1>8. CASE DmRejoin \/ DmFileDone \/ \E d \in Days : DmMute(d)
  BY <1>8 DEF DmRejoin, DmFileDone, DmMute, Command, Call, AddIf, Add, Aborted
<1>9. CASE Hear \/ MacEnd \/ BandFree
  BY <1>9 DEF Hear, MacEnd, BandFree
<1>10. CASE \E t \in Tasks : FallDue(t)
  BY <1>10 DEF FallDue
<1> QED
  BY <1>1, <1>2, <1>3, <1>4, <1>5, <1>6, <1>7, <1>8, <1>9, <1>10
  DEF Next, Engine, HostCalls, Commands

\* The join task follows the joining bit.
LEMMA JoinStep ==
    ASSUME TypeOK, JoinInv, Next PROVE JoinInv'
<1> USE DEF TypeOK, JoinInv, LaunchKept, JoinWanted, NoSession, OneJoin,
      JoinHeld, ReportsHeld, Held, Joined, Tasks, Idle, vars, tasks, bits, host,
      duty, network, count
<1>1. CASE LaunchJoin  BY <1>1 DEF LaunchJoin, Launch, Elected
<1>2. CASE LaunchUpload  BY <1>2 DEF LaunchUpload, Launch, Elected, Sent
<1>3. CASE LaunchMute  BY <1>3 DEF LaunchMute, Launch, Elected
<1>4. ASSUME NEW t \in {"send", "dm"}, LaunchUplink(t) PROVE JoinInv'
  BY <1>4 DEF LaunchUplink, Launch, Elected, Sent
<1>5. CASE ReadDays \/ SetDays \/ Remove  BY <1>5 DEF ReadDays, SetDays, Remove
<1>6. CASE UpdateJoin
  <2> USE DEF Close, AddIf, Add
  <2>1. CASE joining /\ ~joined  BY <1>6, <2>1 DEF UpdateJoin, AfterJoin
  <2>2. CASE joining /\ joined  BY <1>6, <2>2 DEF UpdateJoin, AfterJoin
  <2>3. CASE ~joining  BY <1>6, <2>3 DEF UpdateJoin, AfterJoin
  <2> QED BY <2>1, <2>2, <2>3
<1>7. CASE UpdateSend  BY <1>7 DEF UpdateSend, Close, DtcClosed
<1>8. CASE UpdateDm  BY <1>8 DEF UpdateDm, Close, AddIf, Add
<1>9. CASE UpdateUpload  BY <1>9 DEF UpdateUpload, Close, AddIf, Add, UploadAgain
<1>10. CASE UpdateMute  BY <1>10 DEF UpdateMute, Close, AddIf, Add, MuteAgain
<1>11. CASE JoinNetwork  BY <1>11 DEF JoinNetwork, Host, Call, Add
<1>12. CASE LeaveNetwork
  BY <1>12 DEF LeaveNetwork, Host, Call, Leave, ClearTasks, Pending, Aborted
<1>13. CASE Suspend  BY <1>13 DEF Suspend, Host, Call
<1>14. ASSUME NEW u \in BOOLEAN, RequestUplink(u) PROVE JoinInv'
  BY <1>14 DEF RequestUplink, Host, Call, Add, Connected
<1>15. CASE UploadInit  BY <1>15 DEF UploadInit, Host, Call
<1>16. CASE UploadStart  BY <1>16 DEF UploadStart, Host, Call, Add, Connected
<1>17. CASE UploadReset  BY <1>17 DEF UploadReset, Host, Call
<1>18. CASE DmRejoin  BY <1>18 DEF DmRejoin, Command, Call, Add, Aborted
<1>19. CASE DmRegion
  BY <1>19 DEF DmRegion, Command, Call, Leave, ClearTasks, Pending, Aborted
<1>20. CASE DmFileDone  BY <1>20 DEF DmFileDone, Command, Call
<1>21. ASSUME NEW d \in Days, DmMute(d) PROVE JoinInv'
  BY <1>21 DEF DmMute, Command, Call, AddIf, Add
<1>22. CASE Hear  BY <1>22 DEF Hear
<1>23. CASE MacEnd  BY <1>23 DEF MacEnd
<1>24. CASE BandFree  BY <1>24 DEF BandFree
<1>25. ASSUME NEW t \in Tasks, FallDue(t) PROVE JoinInv'
  BY <1>25 DEF FallDue
<1> QED
  BY <1>1, <1>2, <1>3, <1>4, <1>5, <1>6, <1>7, <1>8, <1>9, <1>10, <1>11, <1>12,
      <1>13, <1>14, <1>15, <1>16, <1>17, <1>18, <1>19, <1>20, <1>21, <1>22,
      <1>23, <1>24, <1>25
  DEF Next, Engine, HostCalls, Commands

\* A mute, an upload and a disabled duty cycle keep the task that ends them.
LEMMA HeldStep ==
    ASSUME TypeOK, JoinInv, HeldInv, Next PROVE HeldInv'
<1> USE DEF TypeOK, JoinInv, LaunchKept, HeldInv, MuteHeld, UploadHeld,
      SendHeld, CountHeld, Held, Temporary, Joined, Tasks, Idle, vars, tasks, bits, host,
      duty, network, count
<1>1. CASE LaunchJoin  BY <1>1 DEF LaunchJoin, Launch, Elected
<1>2. CASE LaunchUpload  BY <1>2 DEF LaunchUpload, Launch, Elected, Sent
<1>3. CASE LaunchMute  BY <1>3 DEF LaunchMute, Launch, Elected
<1>4. ASSUME NEW t \in {"send", "dm"}, LaunchUplink(t) PROVE HeldInv'
  BY <1>4 DEF LaunchUplink, Launch, Elected, Sent
<1>5. CASE ReadDays \/ SetDays \/ Remove  BY <1>5 DEF ReadDays, SetDays, Remove
<1>6. CASE UpdateJoin  BY <1>6 DEF UpdateJoin, Close, AfterJoin, AddIf, Add
<1>7. CASE UpdateSend  BY <1>7 DEF UpdateSend, Close, DtcClosed
<1>8. CASE UpdateDm  BY <1>8 DEF UpdateDm, Close, AddIf, Add
<1>9. CASE UpdateUpload  BY <1>9 DEF UpdateUpload, Close, AddIf, Add, UploadAgain
<1>10. CASE UpdateMute  BY <1>10 DEF UpdateMute, Close, AddIf, Add, MuteAgain
<1>11. CASE JoinNetwork  BY <1>11 DEF JoinNetwork, Host, Call, Add
<1>12. CASE LeaveNetwork
  BY <1>12 DEF LeaveNetwork, Host, Call, Leave, ClearTasks, Pending, Aborted
<1>13. CASE Suspend  BY <1>13 DEF Suspend, Host, Call
<1>14. ASSUME NEW u \in BOOLEAN, RequestUplink(u) PROVE HeldInv'
  BY <1>14 DEF RequestUplink, Host, Call, Add, Connected
<1>15. CASE UploadInit  BY <1>15 DEF UploadInit, Host, Call
<1>16. CASE UploadStart  BY <1>16 DEF UploadStart, Host, Call, Add, Connected
<1>17. CASE UploadReset  BY <1>17 DEF UploadReset, Host, Call
<1>18. CASE DmRejoin  BY <1>18 DEF DmRejoin, Command, Call, Add, Aborted
<1>19. CASE DmRegion
  BY <1>19 DEF DmRegion, Command, Call, Leave, ClearTasks, Pending, Aborted
<1>20. CASE DmFileDone  BY <1>20 DEF DmFileDone, Command, Call
<1>21. ASSUME NEW d \in Days, DmMute(d) PROVE HeldInv'
  BY <1>21 DEF DmMute, Command, Call, AddIf, Add
<1>22. CASE Hear  BY <1>22 DEF Hear
<1>23. CASE MacEnd  BY <1>23 DEF MacEnd
<1>24. CASE BandFree  BY <1>24 DEF BandFree
<1>25. ASSUME NEW t \in Tasks, FallDue(t) PROVE HeldInv'
  BY <1>25 DEF FallDue
<1> QED
  BY <1>1, <1>2, <1>3, <1>4, <1>5, <1>6, <1>7, <1>8, <1>9, <1>10, <1>11, <1>12,
      <1>13, <1>14, <1>15, <1>16, <1>17, <1>18, <1>19, <1>20, <1>21, <1>22,
      <1>23, <1>24, <1>25
  DEF Next, Engine, HostCalls, Commands

LEMMA Start == Init => TasksInv
<1> SUFFICES ASSUME Init PROVE TasksInv
  OBVIOUS
<1> USE DEF Init
<1>1. TableTypes /\ DataTypes /\ dropped \subseteq Tasks
  BY SupervisorAssumption DEF TableTypes, DataTypes, Days, Tasks, Idle
<1>2. BitTypes  BY Zenon DEF BitTypes
<1>3. JoinInv
  BY DEF JoinInv, LaunchKept, JoinWanted, NoSession, OneJoin, JoinHeld, ReportsHeld,
      Held, Tasks, Idle
<1>4. HeldInv  BY DEF HeldInv, MuteHeld, UploadHeld, SendHeld, CountHeld, Temporary
<1> QED
  BY <1>1, <1>2, <1>3, <1>4 DEF TasksInv, TypeOK, TableTypes, DataTypes, BitTypes

LEMMA Step == TasksInv /\ [Next]_vars => TasksInv'
<1> SUFFICES ASSUME TasksInv, [Next]_vars PROVE TasksInv'
  OBVIOUS
<1>0. TypeOK /\ JoinInv /\ HeldInv  BY DEF TasksInv
<1>1. CASE Next
  <2>1. TypeOK'
    BY <1>0, <1>1, TablesStep, DataStep, BitsStep, DroppedStep
    DEF TypeOK, TableTypes, DataTypes, BitTypes
  <2>2. JoinInv'  BY <1>0, <1>1, JoinStep
  <2>3. HeldInv'  BY <1>0, <1>1, HeldStep
  <2> QED BY <2>1, <2>2, <2>3 DEF TasksInv
<1>2. CASE UNCHANGED vars
  BY <1>0, <1>2
  DEF TasksInv, TypeOK, JoinInv, LaunchKept, JoinWanted, NoSession, OneJoin, JoinHeld,
      ReportsHeld, HeldInv, MuteHeld, UploadHeld, SendHeld, CountHeld, Held,
      Temporary, Joined,
      vars, tasks, bits, host, duty, network,
      count
<1> QED BY <1>1, <1>2

\* What is held is in hand, as the properties say it.
LEMMA HeldInHand == \A t \in Tasks : Held(t) => t \in InHand
BY DEF Held, InHand, Pending, Tasks, Idle

-----------------------------------------------------------------------------
\* The inductive invariant holds of every state the task manager reaches.
THEOREM TasksKept == Spec => []TasksInv
<1>1. Init => TasksInv  BY Start
<1>2. TasksInv /\ [Next]_vars => TasksInv'  BY Step
<1> QED BY <1>1, <1>2, PTL DEF Spec

\* The task manager's state keeps its types, whatever commands come while the mute
\* task counts its days.
THEOREM ModemTypes == Spec => []TypeOK
<1>1. TasksInv => TypeOK  BY DEF TasksInv
<1> QED BY <1>1, TasksKept, PTL

\* What the state says is going on has its task: a modem that says it is joining
\* (modem_status) a join to launch or to close, a mute of some days the task that
\* counts them, an upload that is going on the task that sends its next fragment, the
\* last two unless a leave has cleared the table.
THEOREM TasksNotForgotten == Spec => []TasksInHand
<1>1. TasksInv => JoinInHand
  BY HeldInHand DEF TasksInv, JoinInv, JoinHeld, JoinInHand, Tasks
<1>2. TasksInv => MuteInHand
  BY HeldInHand DEF TasksInv, HeldInv, MuteHeld, MuteInHand, Tasks
<1>3. TasksInv => UploadInHand
  BY HeldInHand DEF TasksInv, HeldInv, UploadHeld, UploadInHand, Tasks
<1>4. TasksInv => TasksInHand
  BY <1>1, <1>2, <1>3 DEF TasksInHand
<1> QED BY <1>4, TasksKept, PTL

\* The duty cycle that an emergency disabled is enabled again when its uplink is
\* closed: the uplink is in hand, unless a leave has cleared the table.
THEOREM DutyCycleRestored == Spec => []DutyCycleBack
<1>1. TasksInv => DutyCycleBack
  BY HeldInHand DEF TasksInv, HeldInv, SendHeld, DutyCycleBack, Tasks
<1> QED BY <1>1, TasksKept, PTL

\* A modem that says it is joined is, and has its next status report in hand.
THEOREM ReportsKept == Spec => []ReportsGoOn
<1>1. TasksInv => ReportsGoOn
  BY HeldInHand DEF TasksInv, JoinInv, ReportsHeld, ReportsGoOn, Tasks
<1> QED BY <1>1, TasksKept, PTL
=============================================================================
