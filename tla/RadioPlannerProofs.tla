------------------------- MODULE RadioPlannerProofs -------------------------
(***************************************************************************)
(* The radio planner for every clock width (the wrap of the clock          *)
(* included), every margin and every set of requests.                      *)
(*                                                                         *)
(* First, whatever the interrupts do: type correctness, and no more than   *)
(* one running task.  Then, until a handler has come into a call of the    *)
(* main loop, on any HAL: the radio works for the running task and for no  *)
(* other.  From that, and from what the call stack can hold, follow, until *)
(* then again and in this order: the planner implements RadioService;      *)
(* tasks start on time; every task is answered once; a processor that      *)
(* sleeps has forgotten no task; an interrupt of the radio ends the task   *)
(* it is of; and a running task loses the radio for a reason.              *)
(***************************************************************************)
EXTENDS RadioPlanner, SequenceTheorems, FiniteSetTheorems, WellFoundedInduction, TLAPS

-----------------------------------------------------------------------------
(* Times *)

LEMMA PlusType == \A a, d \in Int : Plus(a, d) \in Time
  BY PlannerAssumption DEF Plus, Time

LEMMA DiffType == \A a, b \in Int : Diff(a, b) \in Int
  BY PlannerAssumption DEF Diff

LEMMA TimeInt == Time \subseteq Int /\ 0 \in Time
  BY PlannerAssumption DEF Time

LEMMA ConstInt == /\ {TimeWidth, Margin, AsapTrig, RescheduleOffset, ListenTime} \subseteq Int
                  /\ Margin + 2 \in Int
  BY PlannerAssumption

-----------------------------------------------------------------------------
(* Tasks *)

LEMMA PriorityType ==
    \A st \in State, h \in Hook : Priority(st, h) \in 0 .. 2 * NbHooks - 1
  BY DEF Priority, Hook, NbHooks, State

\* The updates of the time and the garbage collection keep the table well typed.
LEMMA UpdatedType ==
    ASSUME NEW tk \in [Hook -> Task], NEW at \in Time
    PROVE  Updated(tk, at) \in [Hook -> Task]
<1> SUFFICES ASSUME NEW h \in Hook PROVE Updated(tk, at)[h] \in Task
  BY DEF Updated
<1> DEFINE t == tk[h]
<1>1. t \in Task
  OBVIOUS
<1>2. Priority("schedule", h) \in 0 .. 2 * NbHooks - 1
  BY PriorityType DEF State
<1>3. Plus(at, RescheduleOffset) \in Time
  BY PlusType, TimeInt, ConstInt
<1>4. Plus(at, Margin + 2 - t.start) \in Time
  <2>1. t.start \in Int /\ at \in Int
    BY <1>1, TimeInt DEF Task
  <2> QED BY <2>1, PlusType, ConstInt
<1> HIDE DEF t
<1>5. [t EXCEPT !.st = "schedule", !.prio = Priority("schedule", h),
                !.start = Plus(at, RescheduleOffset)] \in Task
  BY <1>1, <1>2, <1>3 DEF Task, State
<1>6. [t EXCEPT !.start = at] \in Task
  BY <1>1 DEF Task
<1>7. [t EXCEPT !.dur = Plus(at, Margin + 2 - t.start)] \in Task
  BY <1>1, <1>4 DEF Task
<1> QED BY <1>1, <1>5, <1>6, <1>7 DEF Updated, t

LEMMA AbortedType == \A t \in Task : Aborted(t) \in Task
  BY DEF Aborted, Task, State

LEMMA AbortedSt == \A t \in Task : Aborted(t).st = "aborted"
  BY DEF Aborted, Task

LEMMA FreedType == \A t \in Task : Freed(t) \in Task
  BY TimeInt DEF Freed, Task, State

LEMMA StartedType == \A t \in Task : [t EXCEPT !.st = "running"] \in Task
  BY DEF Task, State

LEMMA CollectedType ==
    ASSUME NEW tk \in [Hook -> Task], NEW at \in Time
    PROVE  Collected(tk, at) \in [Hook -> Task]
  BY AbortedType DEF Collected

\* Neither of them starts or stops a task.
LEMMA UpdatedRunning ==
    ASSUME NEW tk \in [Hook -> Task], NEW at \in Time, NEW h \in Hook
    PROVE  Updated(tk, at)[h].st = "running" <=> tk[h].st = "running"
<1>1. tk[h] \in Task
  OBVIOUS
<1> QED BY <1>1 DEF Updated, Task

LEMMA CollectedRunning ==
    ASSUME NEW tk \in [Hook -> Task], NEW at \in Time, NEW h \in Hook
    PROVE  Collected(tk, at)[h].st = "running" <=> tk[h].st = "running"
<1>1. tk[h] \in Task
  OBVIOUS
<1> QED BY <1>1 DEF Collected, Aborted, Task

-----------------------------------------------------------------------------
(* The call stack *)

LEMMA PlainFrames ==
    /\ ArbiterFrame \in Frame /\ CollectFrame \in Frame /\ AlarmFrame \in Frame
    /\ IrqFrame \in Frame /\ Fr("reti", None, 0) \in Frame /\ UnmaskFrame \in Frame
    /\ Fr("irqdone", None, 0) \in Frame /\ Fr("irqend", None, 0) \in Frame
  BY TimeInt DEF Fr, Frame, Pc, OfHook, ArbiterFrame, CollectFrame, AlarmFrame, IrqFrame,
                 UnmaskFrame

LEMMA HookFrames ==
    /\ \A h \in Hook : Fr("callback", h, 0) \in Frame /\ Fr("collect", h, 0) \in Frame
    /\ \A h \in Hook, at \in Time : Fr("launch", h, at) \in Frame
    /\ \A at \in Time : Fr("dispatch", None, at) \in Frame /\ Fr("expired", None, at) \in Frame
  BY TimeInt DEF Fr, Frame, Pc, OfHook

LEMMA StackType ==
    ASSUME NEW s \in Seq(Frame), s # <<>>
    PROVE  /\ Head(s) \in Frame
           /\ Tail(s) \in Seq(Frame)
           /\ \A f \in Frame : <<f>> \o Tail(s) \in Seq(Frame)
           /\ \A f, g \in Frame : <<f, g>> \o Tail(s) \in Seq(Frame)
  OBVIOUS

LEMMA PushType ==
    ASSUME NEW s \in Seq(Frame), NEW f \in Frame, NEW g \in Frame
    PROVE  <<f>> \o s \in Seq(Frame) /\ <<f, g>> \o s \in Seq(Frame)
  OBVIOUS

LEMMA PairType == \A f, g \in Frame : <<f, g>> \o <<>> = <<f, g>>
  OBVIOUS

\* A critical section, empty or around calls.
LEMMA SectionType ==
    ASSUME NEW rest \in Seq(Frame), NEW f \in Frame, EmptySection(rest) \/ InSection(f, rest)
    PROVE  masked' \in BOOLEAN /\ stk' \in Seq(Frame)
  BY PlainFrames, PushType DEF EmptySection, InSection

LEMMA HeadHook ==
    ASSUME NEW s \in Seq(Frame), s # <<>>, Head(s).pc \in OfHook
    PROVE  Head(s).hook \in Hook
  BY StackType DEF Frame

-----------------------------------------------------------------------------
(* Type correctness, action by action *)

LEMMA InitType == Init => TypeOK
<1> SUFFICES ASSUME Init PROVE TypeOK
  OBVIOUS
<1>1. task \in [Hook -> Task]
  BY TimeInt DEF Init, Task, State, Kind, NbHooks
<1>2. /\ {radioTask, timerHook} \subseteq Hook
      /\ prioTask \in [hook : Hook, st : State, start : Time]
  BY TimeInt DEF Init, State, Hook, NbHooks
<1>3. /\ status \in [Hook -> Status] /\ owed \in [Hook -> BOOLEAN]
      /\ {haveTimer, semRadio, semAbort, aired, flags, irqPend,
          isr, masked, preempted, revived} \subseteq BOOLEAN
  BY DEF Init, Status
<1>4. now \in Time /\ alarm \in Time \union {None} /\ op \in Hook \union {None}
  BY PlannerAssumption DEF Init
<1>5. stk \in Seq(Frame) /\ calls \in 0 .. MaxCalls
  BY PlannerAssumption DEF Init
<1> QED BY <1>1, <1>2, <1>3, <1>4, <1>5 DEF TypeOK

\* rp_task_enqueue, whoever calls it.
LEMMA EnqueueType ==
    ASSUME TypeOK, NEW h \in Hook, NEW r \in Requests[h], NEW rest \in Seq(Frame),
           Enqueue(h, r, rest)
    PROVE  /\ task' \in [Hook -> Task]
           /\ status' \in [Hook -> Status]
           /\ owed' \in [Hook -> BOOLEAN]
           /\ stk' \in Seq(Frame) /\ masked' \in BOOLEAN
<1>1. r \in Request
  BY PlannerAssumption
<1>2. Plus(now, r.offset) \in Time
  BY <1>1, PlusType, TimeInt DEF TypeOK, Request
<1>3. Priority(r.st, h) \in 0 .. 2 * NbHooks - 1
  BY <1>1, PriorityType DEF Request, State
<1>4. [st |-> r.st, kind |-> r.kind, prio |-> Priority(r.st, h),
       start |-> Plus(now, r.offset), init |-> Plus(now, r.offset), dur |-> r.dur] \in Task
  BY <1>1, <1>2, <1>3 DEF Task, Request, State
<1>5. stk' \in Seq(Frame) /\ masked' \in BOOLEAN
  BY PlainFrames, SectionType DEF Enqueue
<1> QED BY <1>4, <1>5 DEF Enqueue, TypeOK, Status

\* The hook for which a callback may enqueue.
LEMMA ChainedHook ==
    ASSUME TypeOK, NEW g \in Hook PROVE Chained(g) \ {None} \subseteq Hook
  BY PlannerAssumption DEF Chained, TypeOK

LEMMA StepType == TypeOK /\ [Next]_vars => TypeOK'
<1> SUFFICES ASSUME TypeOK, [Next]_vars PROVE TypeOK'
  OBVIOUS
<1> USE DEF TypeOK, context
<1>t. now \in Time /\ now \in Int /\ 0 \in Time
  BY TimeInt
<1>1. ASSUME NEW h \in Hook, MainEnqueue(h) PROVE TypeOK'
  <2>1. PICK r \in Requests[h] : Enqueue(h, r, <<>>)
    BY <1>1 DEF MainEnqueue
  <2>2. /\ task' \in [Hook -> Task] /\ status' \in [Hook -> Status]
        /\ owed' \in [Hook -> BOOLEAN] /\ stk' \in Seq(Frame) /\ masked' \in BOOLEAN
    <3>1. <<>> \in Seq(Frame)
      OBVIOUS
    <3> QED BY <2>1, <3>1, EnqueueType
  <2>3. calls' \in 0 .. MaxCalls
    BY <1>1, PlannerAssumption DEF MainEnqueue
  <2> QED BY <1>1, <2>2, <2>3 DEF MainEnqueue, radio
<1>2. ASSUME NEW h \in Hook, MainAbort(h) PROVE TypeOK'
  <2>1. task' \in [Hook -> Task]
    BY <1>2, AbortedType DEF MainAbort
  <2>2. stk' \in Seq(Frame) /\ masked' \in BOOLEAN
    <3>1. <<>> \in Seq(Frame)
      OBVIOUS
    <3>2. PICK f \in {ArbiterFrame, IrqFrame} : EmptySection(<<>>) \/ InSection(f, <<>>)
      BY <1>2 DEF MainAbort
    <3> QED BY <3>1, <3>2, PlainFrames, SectionType
  <2>3. calls' \in 0 .. MaxCalls
    BY <1>2, PlannerAssumption DEF MainAbort
  <2> QED BY <1>2, <2>1, <2>2, <2>3 DEF MainAbort, radio
<1>3. CASE ArbiterSelect
  <2> DEFINE tk == Collected(Updated(task, now), now)
  <2>1. tk \in [Hook -> Task]
    BY UpdatedType, CollectedType, <1>t
  <2>2. \A h \in Eligible(tk, now) : h \in Hook /\ tk[h] \in Task
    BY <2>1 DEF Eligible, NotPast
  <2>3. prioTask' \in [hook : Hook, st : State, start : Time]
    <3> HIDE DEF tk
    <3>1. PICK h \in Eligible(tk, now) :
             prioTask' = [hook |-> h, st |-> tk[h].st, start |-> tk[h].start]
      BY <1>3 DEF ArbiterSelect, tk
    <3> QED BY <3>1, <2>2 DEF Task
  <2>4. stk' \in Seq(Frame)
    BY <1>3, <1>t, HookFrames, StackType DEF ArbiterSelect, At, Goto
  <2> QED BY <1>3, <2>1, <2>3, <2>4 DEF ArbiterSelect, radio
<1>4. CASE ArbiterNothing
  <2>1. task' \in [Hook -> Task]
    BY <1>4, UpdatedType, CollectedType, <1>t DEF ArbiterNothing
  <2>2. stk' \in Seq(Frame)
    BY <1>4, PlainFrames, HookFrames, StackType DEF ArbiterNothing, At, Goto
  <2> QED BY <1>4, <2>1, <2>2 DEF ArbiterNothing, radio
<1>e. At("dispatch") => ExpiredFrame \in Frame
  <2>1. At("dispatch") => Head(stk).at \in Time
    BY StackType DEF At, Frame
  <2> QED BY <2>1, HookFrames DEF ExpiredFrame
<1>5. CASE DispatchKeep
  <2>1. task' \in [Hook -> Task]
    BY <1>5, AbortedType DEF DispatchKeep
  <2>2. stk' \in Seq(Frame)
    BY <1>5, <1>e, StackType DEF DispatchKeep, At, Goto
  <2> QED BY <1>5, <2>1, <2>2 DEF DispatchKeep, radio
<1>6. CASE DispatchPreempt
  <2>1. task' \in [Hook -> Task]
    <3>1. /\ radioTask \in Hook /\ prioTask.hook \in Hook
          /\ task' = [[task EXCEPT ![radioTask] = Aborted(@)]
                         EXCEPT ![prioTask.hook] = [@ EXCEPT !.st = "running"]]
      BY <1>6 DEF HandedOver, Sleep, IrqLatched, DispatchPreempt, Aborted
    <3>2. [task EXCEPT ![radioTask] = Aborted(@)] \in [Hook -> Task]
      BY AbortedType
    <3> QED BY <3>1, <3>2, StartedType
  <2>2. stk' \in Seq(Frame)
    BY <1>6, <1>e, <1>t, HookFrames, StackType DEF HandedOver, Sleep, IrqLatched, DispatchPreempt, DispatchNow, At, Call
  <2>3. (PendingVisible /\ irqPend) \in BOOLEAN
    OBVIOUS
  <2> QED BY <1>6, <2>1, <2>2, <2>3 DEF HandedOver, Sleep, IrqLatched, DispatchPreempt
<1>7. CASE DispatchStart
  <2>1. task' \in [Hook -> Task]
    BY <1>7, StartedType DEF DispatchStart
  <2>2. stk' \in Seq(Frame)
    BY <1>7, <1>e, <1>t, HookFrames, StackType DEF DispatchStart, DispatchNow, At, Call
  <2> QED BY <1>7, <2>1, <2>2 DEF DispatchStart, radio
<1>8. CASE ArbiterExpired
  <2>1. task' \in [Hook -> Task]
    BY <1>8, AbortedType DEF ArbiterExpired, Aborted
  <2>2. stk' \in Seq(Frame)
    <3>1. stk # <<>> /\ (Goto(AlarmFrame) \/ Call(CollectFrame, AlarmFrame))
      BY <1>8 DEF ArbiterExpired, At
    <3>2. /\ <<AlarmFrame>> \o Tail(stk) \in Seq(Frame)
          /\ <<CollectFrame, AlarmFrame>> \o Tail(stk) \in Seq(Frame)
      BY <3>1, PlainFrames, StackType
    <3> QED BY <3>1, <3>2 DEF Goto, Call
  <2>3. revived' \in BOOLEAN
    BY <1>8 DEF ArbiterExpired
  <2> QED BY <1>8, <2>1, <2>2, <2>3 DEF ArbiterExpired, radio
<1>9. CASE ArbiterAlarm
  <2> DEFINE tk == Collected(task, now)
  <2>1. tk \in [Hook -> Task]
    BY CollectedType
  <2>2. timerHook' \in Hook /\ alarm' \in Time \union {None}
    <3>1. CASE NotPast(tk, now) = {} /\ UNCHANGED <<timerHook, alarm>>
      BY <3>1
    <3>2. ASSUME NEW h \in NotPast(tk, now), timerHook' = h,
                 alarm' = Plus(now, IF Diff(tk[h].start, now) > Margin
                                    THEN Diff(tk[h].start, now) - Margin ELSE 1)
          PROVE  timerHook' \in Hook /\ alarm' \in Time \union {None}
      <4>1. h \in Hook /\ tk[h] \in Task
        BY <2>1 DEF NotPast
      <4>2. Diff(tk[h].start, now) \in Int
        BY <4>1, <1>t, DiffType, TimeInt DEF Task
      <4> QED BY <3>2, <4>1, <4>2, <1>t, PlusType, ConstInt
    <3> QED BY <1>9, <3>1, <3>2 DEF ArbiterAlarm
  <2>3. stk' \in Seq(Frame)
    BY <1>9, StackType DEF ArbiterAlarm, At, Return
  <2>4. haveTimer' \in BOOLEAN
    BY <1>9 DEF ArbiterAlarm
  <2> QED BY <1>9, <2>1, <2>2, <2>3, <2>4 DEF ArbiterAlarm, radio
<1>10. CASE LaunchRadio
  <2>1. Head(stk).hook \in Hook
    BY <1>10, HeadHook DEF LaunchRadio, At, OfHook
  <2>2. stk' \in Seq(Frame)
    BY <1>10, StackType DEF LaunchRadio, At, Return
  <2>3. op' \in Hook \union {None} /\ aired' \in BOOLEAN
    BY <1>10, <2>1 DEF LaunchRadio
  <2> QED BY <1>10, <2>2, <2>3 DEF LaunchRadio, planner
<1>11. CASE LaunchListen
  <2>1. [Head(stk) EXCEPT !.pc = "listen"] \in Frame
    BY <1>11, StackType, HeadHook DEF Sleep, LaunchListen, At, OfHook, Frame, Pc
  <2>2. stk' \in Seq(Frame)
    BY <1>11, <2>1, StackType DEF Sleep, LaunchListen, At, Goto
  <2> QED BY <1>11, <2>2 DEF Sleep, LaunchListen, planner
<1>12. CASE ListenDone
  <2>1. stk' \in Seq(Frame)
    BY <1>12, PlainFrames, HookFrames, StackType DEF ListenDone, At, Goto
  <2> QED BY <1>12, <2>1 DEF ListenDone, radio, Status
<1>13. CASE CollectNext
  <2>1. PICK h \in Hook : /\ task' = [task EXCEPT ![h] = Freed(@)]
                          /\ status' = [status EXCEPT ![h] = "aborted"]
                          /\ Call(Fr("callback", h, 0), Fr("collect", h, 0))
    BY <1>13 DEF CollectNext, AbortedAfter
  <2>2. stk' \in Seq(Frame)
    BY <1>13, <2>1, PlainFrames, HookFrames, StackType DEF CollectNext, At, Call
  <2>3. task' \in [Hook -> Task] /\ status' \in [Hook -> Status]
    BY <2>1, FreedType DEF Status
  <2> QED BY <1>13, <2>2, <2>3 DEF CollectNext, radio
<1>14. CASE CollectEnd
  BY <1>14, StackType DEF CollectEnd, At, Return, planner, radio
<1>15. CASE Callback
  <2>1. [Head(stk) EXCEPT !.pc = "handler"] \in Frame
    BY <1>15, StackType, HeadHook DEF Callback, At, OfHook, Frame, Pc
  <2>2. stk' \in Seq(Frame)
    BY <1>15, <2>1, StackType DEF Callback, At, Goto
  <2> QED BY <1>15, <2>2 DEF Callback, planner, radio
<1>16. CASE HandlerEnqueue
  <2>1. Head(stk).hook \in Hook /\ Tail(stk) \in Seq(Frame)
    BY <1>16, HeadHook, StackType DEF HandlerEnqueue, At, OfHook
  <2>2. PICK h \in Hook : \E r \in Requests[h] : Enqueue(h, r, Tail(stk))
    BY <1>16, <2>1, ChainedHook DEF HandlerEnqueue
  <2>3. /\ task' \in [Hook -> Task] /\ status' \in [Hook -> Status]
        /\ owed' \in [Hook -> BOOLEAN] /\ stk' \in Seq(Frame) /\ masked' \in BOOLEAN
    BY <2>1, <2>2, EnqueueType
  <2> QED BY <1>16, <2>3 DEF HandlerEnqueue, radio
<1>17. CASE HandlerReturn \/ SectionEnd
  BY <1>17, StackType DEF HandlerReturn, SectionEnd, At, Return, planner, radio
<1>18. CASE IrqIgnore
  BY <1>18, StackType DEF IrqIgnore, At, Return, radio
<1>19. CASE IrqServe
  <2>1. task' \in [Hook -> Task]
    BY <1>19, FreedType DEF Sleep, IrqServe
  <2>2. stk' \in Seq(Frame)
    BY <1>19, PlainFrames, HookFrames, StackType DEF Sleep, IrqServe, At, Call
  <2>3. IrqStatus(task[radioTask], status[radioTask]) \in Status
    BY DEF IrqStatus, Status
  <2>4. (flags /\ task[radioTask].kind = "lbt") \in BOOLEAN
    OBVIOUS
  <2> QED BY <1>19, <2>1, <2>2, <2>3, <2>4 DEF Sleep, IrqServe
<1>20. CASE IrqIdle
  BY <1>20, StackType DEF IrqIdle, At, Return, planner, radio
<1>21. CASE IrqCollect
  BY <1>21, PlainFrames, HookFrames, StackType DEF IrqCollect, At, Call, planner, radio
<1>22. CASE IrqEnd
  BY <1>22, PlainFrames, HookFrames, StackType DEF IrqEnd, At, Goto, radio
<1>23. CASE Tick
  <2>1. now' \in Time
    BY <1>23, <1>t, PlusType DEF Tick
  <2> QED BY <1>23, <2>1 DEF Tick, planner
<1>24. CASE RadioDone
  BY <1>24 DEF RadioDone, planner
<1>25. CASE RadioInterrupt
  <2>1. stk' \in Seq(Frame)
    BY <1>25, PlainFrames, PushType DEF RadioInterrupt
  <2> QED BY <1>25, <2>1 DEF RadioInterrupt, planner
<1>26. CASE TimerInterrupt
  <2>1. stk' \in Seq(Frame)
    BY <1>26, PlainFrames, PushType DEF TimerInterrupt
  <2> QED BY <1>26, <2>1 DEF TimerInterrupt, planner, radio
<1>27. CASE InterruptReturn
  BY <1>27, StackType DEF InterruptReturn, At, Return, planner, radio
<1>28. CASE UNCHANGED vars
  BY <1>28 DEF vars, planner, radio
<1> QED BY <1>1, <1>2, <1>3, <1>4, <1>5, <1>6, <1>7, <1>8, <1>9, <1>10, <1>11, <1>12,
           <1>13, <1>14, <1>15, <1>16, <1>17, <1>18, <1>19, <1>20, <1>21, <1>22,
           <1>23, <1>24, <1>25, <1>26, <1>27, <1>28 DEF Next, Processor, Step

\* The state of the planner, its interrupts and its call stack stay well typed
\* (radio_planner.c, every function).
THEOREM TypeCorrect == Spec => []TypeOK
  BY InitType, StepType, PTL DEF Spec

-----------------------------------------------------------------------------
(* Handlers and calls of the main loop *)

\* A call of the main loop that no handler has come into so far: a handler that
\* starts now starts in the idle processor.
LEMMA FromMain ==
    ASSUME TypeOK, [Next]_vars, ~preempted'
    PROVE  ~preempted /\ (RadioInterrupt \/ TimerInterrupt => stk = <<>>)
<1>1. CASE RadioInterrupt \/ TimerInterrupt
  BY <1>1 DEF RadioInterrupt, TimerInterrupt, TypeOK
<1>2. CASE ~(RadioInterrupt \/ TimerInterrupt)
  <2>1. preempted' = preempted
    BY <1>2 DEF Next, Processor, Step, vars, context, MainEnqueue, MainAbort, ArbiterSelect,
                ArbiterNothing, DispatchKeep, DispatchPreempt, DispatchStart, ArbiterExpired,
                ArbiterAlarm, LaunchRadio, LaunchListen, ListenDone, CollectNext, CollectEnd,
                Callback, HandlerEnqueue, HandlerReturn, SectionEnd, IrqIgnore, IrqServe,
                IrqIdle, IrqCollect, IrqEnd, Tick, RadioDone, InterruptReturn
  <2> QED BY <1>2, <2>1
<1> QED BY <1>1, <1>2

\* What a call of rp_task_enqueue leaves on the stack, and what a call of
\* rp_task_abort does.
LEMMA EnqueueStack ==
    ASSUME NEW h \in Hook, NEW r \in Requests[h], NEW rest, Enqueue(h, r, rest)
    PROVE  stk' = rest \/ stk' = <<ArbiterFrame, UnmaskFrame>> \o rest
  BY DEF Enqueue, EmptySection, InSection

LEMMA AbortStack ==
    ASSUME NEW h \in Hook, MainAbort(h)
    PROVE  stk' = <<>> \/ \E f \in {ArbiterFrame, IrqFrame} : stk' = <<f, UnmaskFrame>>
  BY PlainFrames, PairType DEF MainAbort, EmptySection, InSection

-----------------------------------------------------------------------------
(* One task runs, whatever the interrupts do *)

\* Between two states, only the task that becomes the radio task may start running.
LEMMA EnqueueRunning ==
    ASSUME TypeOK, NEW h \in Hook, NEW r \in Requests[h], NEW rest,
           Enqueue(h, r, rest), NEW g \in Hook
    PROVE  task'[g].st = "running" <=> task[g].st = "running"
<1>1. r \in Request
  BY PlannerAssumption
<1> QED BY <1>1 DEF Enqueue, Request, TypeOK

LEMMA StepOneRunning == TypeOK /\ OneRunning /\ [Next]_vars => OneRunning'
<1> SUFFICES ASSUME TypeOK, OneRunning, [Next]_vars, NEW g \in Hook, task'[g].st = "running"
             PROVE  g = radioTask'
  BY DEF OneRunning
<1>t. task \in [Hook -> Task] /\ now \in Time /\ radioTask \in Hook
  BY DEF TypeOK
<1>s. ASSUME task[g].st = "running", radioTask' = radioTask PROVE g = radioTask'
  BY <1>s DEF OneRunning
<1>1. ASSUME NEW h \in Hook, MainEnqueue(h) PROVE g = radioTask'
  BY <1>1, <1>s, EnqueueRunning DEF MainEnqueue
<1>2. ASSUME NEW h \in Hook, MainAbort(h) PROVE g = radioTask'
  <2>1. CASE UNCHANGED task
    BY <1>2, <2>1, <1>s DEF MainAbort
  <2>2. CASE task' = [task EXCEPT ![h] = Aborted(@)]
    BY <1>2, <2>2, <1>s, <1>t, AbortedSt DEF MainAbort
  <2> QED BY <1>2, <2>1, <2>2 DEF MainAbort
<1>3. CASE ArbiterSelect
  BY <1>3, <1>s, <1>t, UpdatedType, UpdatedRunning, CollectedRunning DEF ArbiterSelect
<1>4. CASE ArbiterNothing
  BY <1>4, <1>s, <1>t, UpdatedType, UpdatedRunning, CollectedRunning DEF ArbiterNothing
<1>5. CASE DispatchKeep
  BY <1>5, <1>s, <1>t DEF DispatchKeep, Aborted
<1>6. CASE DispatchPreempt
  <2>1. task' = [task EXCEPT ![radioTask].st = "aborted", ![prioTask.hook].st = "running"]
        /\ radioTask' = prioTask.hook /\ radioTask # prioTask.hook
    BY <1>6 DEF HandedOver, Sleep, IrqLatched, DispatchPreempt
  <2>2. CASE g = radioTask
    <3>1. task'[g].st = "aborted"
      BY <2>1, <2>2, <1>t DEF Task
    <3> QED BY <3>1
  <2>3. ASSUME g # radioTask, g # prioTask.hook PROVE FALSE
    <3>1. task'[g] = task[g]
      BY <2>1, <2>3, <1>t
    <3> QED BY <3>1, <2>3 DEF OneRunning
  <2> QED BY <2>1, <2>2, <2>3
<1>7. CASE DispatchStart
  BY <1>7, <1>t DEF DispatchStart, OneRunning, Running
<1>8. CASE ArbiterExpired
  BY <1>8, <1>s, <1>t DEF ArbiterExpired
<1>9. CASE ArbiterAlarm
  BY <1>9, <1>s, <1>t, CollectedRunning DEF ArbiterAlarm
<1>10. CASE CollectNext
  BY <1>10, <1>s, <1>t DEF CollectNext, AbortedAfter, Freed
<1>11. CASE HandlerEnqueue
  <2>1. Head(stk).hook \in Hook
    BY <1>11, HeadHook DEF HandlerEnqueue, At, OfHook, TypeOK
  <2>2. PICK h \in Hook : \E r \in Requests[h] : Enqueue(h, r, Tail(stk))
    BY <1>11, <2>1, ChainedHook DEF HandlerEnqueue
  <2>3. task[g].st = "running"
    BY <2>2, EnqueueRunning
  <2> QED BY <1>11, <2>3, <1>s DEF HandlerEnqueue
<1>12. CASE IrqServe
  BY <1>12, <1>s, <1>t DEF Sleep, IrqServe, Freed
<1>13. CASE UNCHANGED <<task, radioTask>>
  BY <1>13, <1>s
<1> QED BY <1>1, <1>2, <1>3, <1>4, <1>5, <1>6, <1>7, <1>8, <1>9, <1>10, <1>11, <1>12, <1>13
        DEF Next, Processor, Step, vars, planner, radio, LaunchRadio, LaunchListen,
            ListenDone, CollectEnd, Callback, HandlerReturn, SectionEnd, IrqIgnore, IrqIdle,
            IrqCollect, IrqEnd, Tick, RadioDone, RadioInterrupt, TimerInterrupt,
            InterruptReturn

\* At any time one task at most is running, the one the planner calls the radio task
\* (rp_task_arbiter, rp_radio_irq), whatever the interrupts do.
THEOREM OneTaskRunning == Spec => []OneRunning
<1>1. Init => OneRunning
  BY DEF Init, OneRunning
<1> QED BY <1>1, StepOneRunning, TypeCorrect, PTL DEF Spec

-----------------------------------------------------------------------------
(* What a step does to the call stack *)

LEMMA AfterReturn ==
    ASSUME TypeOK, TopOnly, stk # <<>>, Return
    PROVE  /\ TopOnly'
           /\ \A pc \in Passing : ~At(pc)'
           /\ BeforeExpiry => At("expired")'
<1>1. stk \in Seq(Frame) /\ stk' = Tail(stk) /\ Deep(Tail(stk))
  BY DEF TypeOK, Return, TopOnly
<1>2. TopOnly'
  <2> SUFFICES ASSUME stk' # <<>>, NEW i \in DOMAIN Tail(stk') PROVE Tail(stk')[i].pc \notin Passing
    BY DEF TopOnly, Deep
  <2>1. i + 1 \in DOMAIN Tail(stk) /\ Tail(stk')[i] = Tail(stk)[i + 1]
    BY <1>1
  <2> QED BY <1>1, <2>1 DEF Deep
<1>3. ASSUME stk' # <<>> PROVE Head(stk').pc \notin Passing
  <2>1. 1 \in DOMAIN Tail(stk) /\ Head(stk') = Tail(stk)[1]
    BY <1>1, <1>3
  <2> QED BY <1>1, <2>1 DEF Deep
<1>4. ASSUME Len(stk) >= 2 PROVE stk' # <<>> /\ Head(stk') = stk[2]
  <2>1. Len(Tail(stk)) \in Nat /\ Len(Tail(stk)) # 0
    BY <1>1, <1>4, HeadTailProperties
  <2>2. Tail(stk) # <<>>
    BY <2>1, EmptySeq, Zenon
  <2>3. Head(Tail(stk)) = Tail(stk)[1] /\ Tail(stk)[1] = stk[2]
    BY <1>1, <1>4, <2>2
  <2> QED BY <1>1, <2>2, <2>3
<1> QED BY <1>2, <1>3, <1>4 DEF At, BeforeExpiry

LEMMA AfterGoto ==
    ASSUME TypeOK, TopOnly, stk # <<>>, NEW f \in Frame, Goto(f)
    PROVE  /\ TopOnly'
           /\ stk' # <<>> /\ Head(stk') = f
           /\ BeforeExpiry' <=> BeforeExpiry
<1>1. stk \in Seq(Frame) /\ stk' = <<f>> \o Tail(stk) /\ Deep(Tail(stk)) /\ Tail(stk) \in Seq(Frame)
  BY DEF TypeOK, Goto, TopOnly
<1>2. stk' # <<>> /\ Head(stk') = f /\ Tail(stk') = Tail(stk) /\ Len(stk') = Len(stk)
  BY <1>1
<1>3. Len(stk) >= 2 => stk'[2] = stk[2]
  BY <1>1
<1>4. TopOnly'
  BY <1>1, <1>2 DEF TopOnly, Deep
<1> QED BY <1>2, <1>3, <1>4 DEF BeforeExpiry

LEMMA AfterCall ==
    ASSUME TypeOK, TopOnly, stk # <<>>, NEW f \in Frame, NEW g \in Frame, g.pc \notin Passing,
           Call(f, g)
    PROVE  /\ TopOnly'
           /\ stk' # <<>> /\ Head(stk') = f
           /\ BeforeExpiry' <=> g.pc = "expired"
<1>1. stk \in Seq(Frame) /\ stk' = <<f, g>> \o Tail(stk) /\ Deep(Tail(stk)) /\ Tail(stk) \in Seq(Frame)
  BY DEF TypeOK, Call, TopOnly
<1>2. /\ stk' # <<>> /\ Head(stk') = f /\ Len(stk') >= 2 /\ stk'[2] = g
      /\ Tail(stk') = <<g>> \o Tail(stk)
  BY <1>1
<1>3. TopOnly'
  <2> SUFFICES ASSUME NEW i \in DOMAIN (<<g>> \o Tail(stk))
               PROVE  (<<g>> \o Tail(stk))[i].pc \notin Passing
    BY <1>2 DEF TopOnly, Deep
  <2>1. CASE i = 1
    BY <1>1, <2>1
  <2>2. CASE i # 1
    <3>1. i - 1 \in DOMAIN Tail(stk) /\ (<<g>> \o Tail(stk))[i] = Tail(stk)[i - 1]
      BY <1>1, <2>2
    <3> QED BY <1>1, <3>1 DEF Deep
  <2> QED BY <2>1, <2>2
<1> QED BY <1>2, <1>3 DEF BeforeExpiry

\* The main loop and the handlers start from an empty stack.
LEMMA AfterPush ==
    ASSUME NEW f \in Frame, NEW g \in Frame, g.pc \notin Passing,
           stk' = <<>> \/ stk' = <<f, g>>
    PROVE  TopOnly' /\ (stk' # <<>> => Head(stk') = f)
<1>1. CASE stk' = <<>>
  BY <1>1 DEF TopOnly
<1>2. CASE stk' = <<f, g>>
  <2>1. Head(stk') = f /\ Tail(stk') = <<g>>
    BY <1>2
  <2> QED BY <2>1 DEF TopOnly, Deep
<1> QED BY <1>1, <1>2

-----------------------------------------------------------------------------
(* The conjuncts that most steps leave alone *)

Quiet == ~(haveTimer /\ task[timerHook].st = "running")

\* Nothing starts or stops running, and the top of the stack is not a delicate one.
LEMMA Untouched ==
    ASSUME TypeOK, RadioOwned, Quiet, TopOnly',
           \A pc \in Passing : ~At(pc)',
           \A h \in Hook : task'[h].st = "running" <=> task[h].st = "running",
           UNCHANGED <<radioTask, timerHook, haveTimer>>, op' \in {op, None}
    PROVE  RadioOwned' /\ SelectionOK' /\ LaunchOK' /\ TimerOK' /\ TopOnly'
  BY DEF TypeOK, RadioOwned, Running, Quiet, SelectionOK, LaunchOK, TimerOK, Passing

LEMMA QuietAt ==
    ASSUME TimerOK,
           stk = <<>> \/ Head(stk).pc \in {"arbiter", "dispatch", "collect", "irqdone", "irqend",
                                           "callback", "handler", "unmask", "reti"}
    PROVE  Quiet
  BY DEF TimerOK, Quiet, At

LEMMA AloneRunning ==
    ASSUME TypeOK, OneRunning, task[radioTask].st # "running", NEW h \in Hook
    PROVE  task[h].st # "running"
  BY DEF OneRunning

-----------------------------------------------------------------------------
(* The inductive step *)

\* What holds until a handler has come into a call of the main loop.
Owned == OneRunning /\ Exclusive

LEMMA InitExclusion == Init => ExclusiveInv
<1> SUFFICES ASSUME Init PROVE ExclusiveInv
  OBVIOUS
<1>1. /\ OneRunning /\ RadioOwned /\ TopOnly /\ SelectionOK /\ LaunchOK /\ TimerOK
  BY DEF Init, OneRunning, RadioOwned, TopOnly, SelectionOK, LaunchOK, TimerOK, At
<1> QED BY <1>1 DEF ExclusiveInv, Exclusive

\* The steps that start nothing and stop nothing.
LEMMA PlainSteps ==
    ASSUME TypeOK, Owned, [Next]_vars, ~preempted',
           \/ \E h \in Hook : MainEnqueue(h) \/ MainAbort(h)
           \/ ArbiterNothing \/ DispatchKeep \/ CollectNext \/ CollectEnd \/ Callback
           \/ HandlerEnqueue \/ HandlerReturn \/ SectionEnd \/ IrqCollect \/ IrqEnd
           \/ RadioInterrupt \/ TimerInterrupt \/ InterruptReturn
    PROVE  RadioOwned' /\ SelectionOK' /\ LaunchOK' /\ TimerOK' /\ TopOnly'
<1> DEFINE Goal == RadioOwned' /\ SelectionOK' /\ LaunchOK' /\ TimerOK' /\ TopOnly'
           Same == \A h \in Hook : task'[h].st = "running" <=> task[h].st = "running"
           Calm == TopOnly' /\ \A pc \in Passing : ~At(pc)'
<1> SUFFICES Goal
  OBVIOUS
<1>a. OneRunning /\ RadioOwned /\ TopOnly /\ SelectionOK /\ LaunchOK /\ TimerOK
  BY DEF Owned, Exclusive
<1>t. /\ task \in [Hook -> Task] /\ now \in Time /\ stk \in Seq(Frame)
  BY DEF TypeOK
<1>c. ASSUME NEW f \in Frame, NEW g \in Frame, {f.pc, g.pc} \cap Passing = {},
             stk' = <<>> \/ stk' = <<f, g>>
      PROVE  Calm
  BY <1>c, AfterPush DEF At
<1>1. ASSUME NEW h \in Hook, MainEnqueue(h) PROVE Goal
  <2>1. PICK r \in Requests[h] : Enqueue(h, r, <<>>)
    BY <1>1 DEF MainEnqueue
  <2>2. Same
    BY <2>1, EnqueueRunning
  <2>3. stk' = <<>> \/ stk' = <<ArbiterFrame, UnmaskFrame>>
    BY <2>1, EnqueueStack, PlainFrames, PairType
  <2>4. Calm
    BY <2>3, <1>c, PlainFrames DEF ArbiterFrame, UnmaskFrame, Fr, Passing
  <2>5. Quiet
    BY <1>1, <1>a, QuietAt DEF MainEnqueue, MainIdle
  <2> QED BY <1>1, <1>a, <2>2, <2>4, <2>5, Untouched DEF MainEnqueue, radio
<1>2. ASSUME NEW h \in Hook, MainAbort(h) PROVE Goal
  <2>1. Same
    <3>1. CASE UNCHANGED task
      BY <3>1
    <3>2. CASE task' = [task EXCEPT ![h] = Aborted(@)] /\ task[h].st # "running"
      BY <3>2, <1>t, AbortedSt
    <3> QED BY <1>2, <3>1, <3>2 DEF MainAbort
  <2>2. Calm
    <3>1. stk' = <<>> \/ \E f \in {ArbiterFrame, IrqFrame} : stk' = <<f, UnmaskFrame>>
      BY <1>2, AbortStack
    <3> QED BY <3>1, <1>c, PlainFrames DEF ArbiterFrame, IrqFrame, UnmaskFrame, Fr, Passing
  <2>3. Quiet
    BY <1>2, <1>a, QuietAt DEF MainAbort, MainIdle
  <2> QED BY <1>2, <1>a, <2>1, <2>2, <2>3, Untouched DEF MainAbort, radio
<1>3. CASE ArbiterNothing
  <2>1. Same
    BY <1>3, <1>t, UpdatedType, UpdatedRunning, CollectedRunning DEF ArbiterNothing
  <2>2. Calm
    BY <1>3, <1>a, AfterGoto, PlainFrames DEF ArbiterNothing, At, CollectFrame, Fr, Passing
  <2>3. Quiet
    BY <1>3, <1>a, QuietAt DEF ArbiterNothing, At
  <2> QED BY <1>3, <1>a, <2>1, <2>2, <2>3, Untouched DEF ArbiterNothing, radio
<1>4. CASE DispatchKeep
  <2>1. Same
    <3>1. CASE UNCHANGED task
      BY <3>1
    <3>2. CASE prioTask.st # "running" /\ task' = [task EXCEPT ![prioTask.hook] = Aborted(@)]
      <4>1. prioTask.hook \in Hook /\ task[prioTask.hook].st # "running"
        BY <1>4, <1>a, <3>2 DEF DispatchKeep, SelectionOK, TypeOK
      <4> QED BY <3>2, <4>1, <1>t, AbortedSt
    <3> QED BY <1>4, <3>1, <3>2 DEF DispatchKeep
  <2>2. Calm
    <3>1. ExpiredFrame \in Frame /\ ExpiredFrame.pc = "expired"
      BY <1>4, <1>t, StackType, HookFrames DEF DispatchKeep, At, Frame, ExpiredFrame, Fr
    <3> QED BY <1>4, <1>a, <3>1, AfterGoto DEF DispatchKeep, At, Passing
  <2>3. Quiet
    BY <1>4, <1>a, QuietAt DEF DispatchKeep, At
  <2> QED BY <1>4, <1>a, <2>1, <2>2, <2>3, Untouched DEF DispatchKeep, radio
<1>5. CASE CollectNext
  <2>1. PICK h \in Hook : /\ task[h].st = "aborted" /\ task' = [task EXCEPT ![h] = Freed(@)]
                         /\ Call(Fr("callback", h, 0), Fr("collect", h, 0))
    BY <1>5 DEF CollectNext, AbortedAfter
  <2>2. Same
    BY <2>1, <1>t DEF Freed
  <2>3. Calm
    <3> DEFINE f == Fr("callback", h, 0)
               g == Fr("collect", h, 0)
    <3>1. f \in Frame /\ g \in Frame /\ f.pc = "callback" /\ g.pc \notin Passing
      BY HookFrames DEF Fr, Passing
    <3>2. TopOnly' /\ stk' # <<>> /\ Head(stk') = f
      <4> HIDE DEF f, g
      <4> QED BY <1>5, <1>a, <2>1, <3>1, AfterCall DEF CollectNext, At, f, g
    <3> QED BY <3>1, <3>2 DEF At, Passing
  <2>4. Quiet
    BY <1>5, <1>a, QuietAt DEF CollectNext, At
  <2> QED BY <1>5, <1>a, <2>2, <2>3, <2>4, Untouched DEF CollectNext, radio
<1>6. CASE CollectEnd
  <2>1. Quiet
    BY <1>6, <1>a, QuietAt DEF CollectEnd, At
  <2>2. Calm
    BY <1>6, <1>a, AfterReturn DEF CollectEnd, At
  <2> QED BY <1>6, <1>a, <2>1, <2>2, Untouched DEF CollectEnd, radio, planner
<1>7. CASE Callback
  <2>1. Quiet
    BY <1>7, <1>a, QuietAt DEF Callback, At
  <2>2. Calm
    <3> DEFINE f == [Head(stk) EXCEPT !.pc = "handler"]
    <3>1. f \in Frame /\ f.pc = "handler"
      BY <1>7, <1>t, StackType, HeadHook DEF Callback, At, OfHook, Frame, Pc
    <3> QED BY <1>7, <1>a, <3>1, AfterGoto DEF Callback, At, Passing
  <2> QED BY <1>7, <1>a, <2>1, <2>2, Untouched DEF Callback, radio, planner
<1>8. CASE HandlerEnqueue
  <2>1. Head(stk).hook \in Hook /\ Tail(stk) \in Seq(Frame)
    BY <1>8, <1>t, HeadHook, StackType DEF HandlerEnqueue, At, OfHook
  <2>2. PICK h \in Hook : \E r \in Requests[h] : Enqueue(h, r, Tail(stk))
    BY <1>8, <2>1, ChainedHook DEF HandlerEnqueue
  <2>3. Same
    BY <2>1, <2>2, EnqueueRunning
  <2>4. Return \/ Call(ArbiterFrame, UnmaskFrame)
    BY <2>2, EnqueueStack DEF Return, Call
  <2>5. Calm
    <3>1. CASE Return
      BY <1>8, <1>a, <3>1, AfterReturn DEF HandlerEnqueue, At
    <3>2. CASE Call(ArbiterFrame, UnmaskFrame)
      <4>1. ArbiterFrame.pc = "arbiter" /\ UnmaskFrame.pc \notin Passing
        BY DEF ArbiterFrame, UnmaskFrame, Fr, Passing
      <4> QED BY <1>8, <1>a, <3>2, <4>1, AfterCall, PlainFrames DEF HandlerEnqueue, At, Passing
    <3> QED BY <2>4, <3>1, <3>2
  <2>6. Quiet
    BY <1>8, <1>a, QuietAt DEF HandlerEnqueue, At
  <2> QED BY <1>8, <1>a, <2>3, <2>5, <2>6, Untouched DEF HandlerEnqueue, radio
<1>9. CASE HandlerReturn \/ SectionEnd
  <2>1. Quiet
    BY <1>9, <1>a, QuietAt DEF HandlerReturn, SectionEnd, At
  <2>2. Calm
    BY <1>9, <1>a, AfterReturn DEF HandlerReturn, SectionEnd, At
  <2> QED BY <1>9, <1>a, <2>1, <2>2, Untouched DEF HandlerReturn, SectionEnd, radio, planner
<1>10. CASE IrqCollect
  <2>1. Quiet
    BY <1>10, <1>a, QuietAt DEF IrqCollect, At
  <2>2. Calm
    <3>1. Fr("irqend", None, 0).pc \notin Passing /\ CollectFrame.pc \notin Passing
      BY DEF Fr, Passing, CollectFrame
    <3> QED BY <1>10, <1>a, <3>1, AfterCall, PlainFrames DEF IrqCollect, At
  <2> QED BY <1>10, <1>a, <2>1, <2>2, Untouched DEF IrqCollect, radio, planner
<1>11. CASE IrqEnd
  <2>1. Quiet
    BY <1>11, <1>a, QuietAt DEF IrqEnd, At
  <2>2. Calm
    BY <1>11, <1>a, AfterGoto, PlainFrames DEF IrqEnd, At, ArbiterFrame, Fr, Passing
  <2> QED BY <1>11, <1>a, <2>1, <2>2, Untouched DEF IrqEnd, radio
<1>12. CASE RadioInterrupt \/ TimerInterrupt
  <2>1. stk = <<>> /\ Quiet
    BY <1>12, <1>a, FromMain, QuietAt
  <2>2. stk' = <<IrqFrame, Fr("reti", None, 0)>> \/ stk' = <<ArbiterFrame, Fr("reti", None, 0)>>
    BY <1>12, <2>1, PlainFrames, PairType DEF RadioInterrupt, TimerInterrupt
  <2>3. Calm
    BY <2>2, <1>c, PlainFrames DEF ArbiterFrame, IrqFrame, Fr, Passing
  <2> QED BY <1>12, <1>a, <2>1, <2>3, Untouched
          DEF RadioInterrupt, TimerInterrupt, planner, radio
<1>13. CASE InterruptReturn
  <2>1. Quiet
    BY <1>13, <1>a, QuietAt DEF InterruptReturn, At
  <2>2. Calm
    BY <1>13, <1>a, AfterReturn DEF InterruptReturn, At
  <2> QED BY <1>13, <1>a, <2>1, <2>2, Untouched DEF InterruptReturn, radio, planner
<1> QED BY <1>1, <1>2, <1>3, <1>4, <1>5, <1>6, <1>7, <1>8, <1>9, <1>10, <1>11, <1>12, <1>13

\* The steps that hand the radio over, launch, and end a task.
LEMMA RadioSteps ==
    ASSUME TypeOK, TypeOK', OneRunning', Owned,
           \/ ArbiterSelect \/ DispatchPreempt \/ DispatchStart \/ ArbiterExpired \/ ArbiterAlarm
           \/ LaunchRadio \/ LaunchListen \/ ListenDone
           \/ IrqIgnore \/ IrqServe \/ IrqIdle
           \/ Tick \/ RadioDone \/ UNCHANGED vars
    PROVE  RadioOwned' /\ SelectionOK' /\ LaunchOK' /\ TimerOK' /\ TopOnly'
<1> DEFINE Goal == RadioOwned' /\ SelectionOK' /\ LaunchOK' /\ TimerOK' /\ TopOnly'
           Same == \A h \in Hook : task'[h].st = "running" <=> task[h].st = "running"
<1> SUFFICES Goal
  OBVIOUS
<1>a. OneRunning /\ RadioOwned /\ TopOnly /\ SelectionOK /\ LaunchOK /\ TimerOK
  BY DEF Owned, Exclusive
<1>t. /\ task \in [Hook -> Task] /\ now \in Time /\ stk \in Seq(Frame)
      /\ radioTask \in Hook /\ timerHook \in Hook /\ prioTask.hook \in Hook
  BY DEF TypeOK
<1>1. CASE ArbiterSelect
  <2>1. Same
    BY <1>1, <1>t, UpdatedType, UpdatedRunning, CollectedRunning DEF ArbiterSelect
  <2>2. Quiet
    BY <1>1, <1>a, QuietAt DEF ArbiterSelect, At
  <2>3. TopOnly' /\ stk' # <<>> /\ Head(stk').pc = "dispatch"
    <3> DEFINE f == Fr("dispatch", None, now)
    <3>1. f \in Frame /\ f.pc = "dispatch"
      BY <1>t, HookFrames DEF Fr
    <3>2. Goto(f) /\ stk # <<>>
      BY <1>1 DEF ArbiterSelect, At
    <3> HIDE DEF f, Goal, Same
    <3> QED BY <1>a, <3>1, <3>2, AfterGoto
  <2>4. SelectionOK'
    BY <1>1 DEF ArbiterSelect, SelectionOK
  <2>5. RadioOwned' /\ TimerOK'
    BY <1>1, <1>a, <1>t, <2>1, <2>2
       DEF ArbiterSelect, RadioOwned, Running, TimerOK, Quiet, radio
  <2> QED BY <2>3, <2>4, <2>5 DEF LaunchOK, At
<1>2. CASE DispatchPreempt \/ DispatchStart
  <2>1. /\ Call(Fr("launch", prioTask.hook, now), ExpiredFrame) /\ radioTask' = prioTask.hook
        /\ UNCHANGED <<timerHook, prioTask>> /\ stk # <<>> /\ Head(stk).pc = "dispatch"
    BY <1>2 DEF HandedOver, Sleep, IrqLatched, DispatchPreempt, DispatchStart, DispatchNow, At
  <2>2. task'[radioTask'].st = "running"
    <3>1. task[prioTask.hook] \in Task
      BY <1>t
    <3> QED BY <1>2, <1>t, <3>1 DEF HandedOver, Sleep, IrqLatched, DispatchPreempt, DispatchStart, Task
  <2>3. Fr("launch", prioTask.hook, now) \in Frame /\ Fr("launch", prioTask.hook, now).pc = "launch"
        /\ Fr("launch", prioTask.hook, now).hook = prioTask.hook
    BY <1>t, HookFrames DEF Fr
  <2>4. ExpiredFrame \in Frame /\ ExpiredFrame.pc = "expired"
    BY <2>1, <1>t, StackType, HookFrames DEF Frame, ExpiredFrame, Fr
  <2>5. TopOnly' /\ stk' # <<>> /\ Head(stk') = Fr("launch", prioTask.hook, now) /\ BeforeExpiry'
    <3> HIDE DEF Goal
    <3> QED BY <1>a, <2>1, <2>3, <2>4, AfterCall DEF Passing
  <2>6. RadioOwned'
    BY <1>2, <1>a DEF HandedOver, Sleep, IrqLatched, DispatchPreempt, DispatchStart, RadioOwned, radio
  <2>7. TimerOK'
    BY <2>1, <2>3, <2>5, <1>t DEF TimerOK, At, OneRunning
  <2> QED BY <2>1, <2>2, <2>3, <2>5, <2>6, <2>7 DEF SelectionOK, LaunchOK, At, Running
<1>3. CASE ArbiterExpired
  <2>1. Same
    <3>1. CASE UNCHANGED task
      BY <3>1
    <3>2. CASE /\ haveTimer /\ timerHook # prioTask.hook
               /\ task' = [task EXCEPT ![timerHook].st = "aborted"]
      <4>1. task[timerHook].st # "running"
        BY <3>2, <1>a DEF TimerOK
      <4>2. task' = [task EXCEPT ![timerHook] = Aborted(@)]
        BY <3>2 DEF Aborted
      <4> QED BY <4>1, <4>2, <1>t, AbortedSt
    <3> QED BY <1>3, <3>1, <3>2 DEF ArbiterExpired, Expired, Unselected
  <2>2. RadioOwned'
    BY <1>3, <1>a, <1>t, <2>1 DEF ArbiterExpired, RadioOwned, Running, radio
  <2>3. UNCHANGED <<radioTask, timerHook, haveTimer, prioTask>> /\ stk # <<>>
    BY <1>3 DEF ArbiterExpired, At
  <2>4. CASE task'[radioTask].st = "running" /\ Goto(AlarmFrame)
    <3>1. TopOnly' /\ stk' # <<>> /\ Head(stk').pc = "alarm"
      BY <2>3, <2>4, <1>a, AfterGoto, PlainFrames DEF AlarmFrame, Fr
    <3>2. TimerOK'
      BY <1>a, <1>t, <2>1, <2>3, <3>1 DEF TimerOK, At
    <3> QED BY <2>2, <3>1, <3>2 DEF SelectionOK, LaunchOK, At
  <2>5. CASE task'[radioTask].st # "running" /\ Call(CollectFrame, AlarmFrame)
    <3>1. AlarmFrame.pc \notin Passing
      BY DEF AlarmFrame, Fr, Passing
    <3>2. TopOnly' /\ stk' # <<>> /\ Head(stk').pc = "collect"
      BY <2>3, <2>5, <1>a, <3>1, AfterCall, PlainFrames DEF CollectFrame, Fr
    <3>3. TimerOK'
      BY <1>t, <2>3, <2>5 DEF TimerOK, OneRunning
    <3> QED BY <2>2, <3>2, <3>3 DEF SelectionOK, LaunchOK, At
  <2> QED BY <1>3, <2>4, <2>5 DEF ArbiterExpired
<1>4. CASE ArbiterAlarm
  <2>1. Same
    BY <1>4, <1>t, CollectedRunning DEF ArbiterAlarm
  <2>2. TopOnly' /\ \A pc \in Passing : ~At(pc)'
    BY <1>4, <1>a, AfterReturn DEF ArbiterAlarm, At
  <2>3. ~(haveTimer' /\ task'[timerHook'].st = "running")
    BY <1>4 DEF ArbiterAlarm, NotPast, Waiting
  <2>4. RadioOwned'
    BY <1>4, <1>a, <1>t, <2>1 DEF ArbiterAlarm, RadioOwned, Running, radio
  <2> QED BY <2>2, <2>3, <2>4 DEF SelectionOK, LaunchOK, TimerOK, Passing
<1>5. CASE LaunchRadio
  <2>1. /\ Head(stk).hook = radioTask /\ task[radioTask].st = "running" /\ BeforeExpiry
        /\ stk # <<>> /\ UNCHANGED planner /\ op' \in {op, radioTask}
    BY <1>5, <1>a DEF LaunchRadio, LaunchOK, Running, At
  <2>2. TopOnly' /\ (\A pc \in Passing : ~At(pc)') /\ At("expired")'
    BY <1>5, <1>a, <2>1, AfterReturn DEF LaunchRadio
  <2>3. RadioOwned'
    BY <1>a, <2>1 DEF RadioOwned, Running, planner
  <2>4. TimerOK'
    BY <1>a, <2>1, <2>2 DEF TimerOK, planner
  <2> QED BY <2>2, <2>3, <2>4 DEF SelectionOK, LaunchOK, Passing
<1>6. CASE LaunchListen
  <2> DEFINE f == [Head(stk) EXCEPT !.pc = "listen"]
  <2>1. f \in Frame /\ f.pc = "listen" /\ f.hook = Head(stk).hook
    BY <1>6, <1>t, StackType, HeadHook DEF Sleep, LaunchListen, At, OfHook, Frame, Pc
  <2>2. TopOnly' /\ stk' # <<>> /\ Head(stk') = f /\ (BeforeExpiry' <=> BeforeExpiry)
    <3> HIDE DEF Goal
    <3> QED BY <1>6, <1>a, <2>1, AfterGoto DEF Sleep, LaunchListen, At
  <2> QED BY <1>6, <1>a, <2>1, <2>2
          DEF Sleep, LaunchListen, RadioOwned, SelectionOK, LaunchOK, TimerOK, At, Running, planner
<1>7. CASE ListenDone
  <2>1. TopOnly' /\ stk' # <<>> /\ Head(stk').pc = "radioirq" /\ (BeforeExpiry' <=> BeforeExpiry)
    BY <1>7, <1>a, AfterGoto, PlainFrames DEF ListenDone, At, IrqFrame, Fr
  <2>2. BeforeExpiry
    BY <1>7, <1>a DEF ListenDone, LaunchOK
  <2> QED BY <1>7, <1>a, <2>1, <2>2
          DEF ListenDone, RadioOwned, SelectionOK, LaunchOK, TimerOK, At, Running, radio
<1>8. CASE IrqIgnore
  <2>1. /\ TopOnly' /\ (\A pc \in Passing : ~At(pc)')
        /\ BeforeExpiry => At("expired")'
    BY <1>8, <1>a, AfterReturn DEF IrqIgnore, At
  <2>2. TimerOK'
    BY <1>8, <1>a, <2>1 DEF IrqIgnore, TimerOK, At
  <2> QED BY <1>8, <1>a, <2>1, <2>2
          DEF IrqIgnore, RadioOwned, SelectionOK, LaunchOK, Passing, Running, radio
<1>9. CASE IrqServe
  <2> DEFINE f == Fr("callback", radioTask, 0)
             g == Fr("irqdone", None, 0)
  <2>1. f \in Frame /\ g \in Frame /\ f.pc = "callback" /\ g.pc \notin Passing
    BY <1>t, HookFrames, PlainFrames DEF Fr, Passing
  <2>2. TopOnly' /\ stk' # <<>> /\ Head(stk') = f
    <3> HIDE DEF f, g, Goal
    <3> QED BY <1>9, <1>a, <2>1, AfterCall DEF Sleep, IrqServe, At, f, g
  <2>3. task'[radioTask'].st # "running" /\ op' = None
    BY <1>9, <1>t DEF Sleep, IrqServe, Freed
  <2>4. TimerOK'
    BY <1>9, <1>t, <2>3 DEF Sleep, IrqServe, TimerOK, OneRunning
  <2> QED BY <2>1, <2>2, <2>3, <2>4 DEF RadioOwned, SelectionOK, LaunchOK, At
<1>10. CASE IrqIdle
  <2>1. Quiet
    BY <1>10, <1>a, <1>t, AloneRunning DEF IrqIdle, Live, Quiet
  <2>2. TopOnly' /\ \A pc \in Passing : ~At(pc)'
    BY <1>10, <1>a, AfterReturn DEF IrqIdle, At
  <2> QED BY <1>10, <1>a, <2>1, <2>2, Untouched DEF IrqIdle, radio, planner
<1>11. CASE Tick \/ RadioDone \/ UNCHANGED vars
  <2>1. UNCHANGED <<planner, stk>> /\ op' \in {op, None}
    BY <1>11 DEF Tick, RadioDone, vars, radio
  <2> QED BY <1>a, <2>1 DEF RadioOwned, Running, SelectionOK, LaunchOK, TimerOK, TopOnly,
                            At, BeforeExpiry, planner
<1> QED BY <1>1, <1>2, <1>3, <1>4, <1>5, <1>6, <1>7, <1>8, <1>9, <1>10, <1>11

LEMMA StepExclusion == TypeOK /\ ExclusiveInv /\ [Next]_vars => ExclusiveInv'
<1> SUFFICES ASSUME TypeOK, ExclusiveInv, [Next]_vars PROVE ExclusiveInv'
  OBVIOUS
<1>1. TypeOK' /\ OneRunning'
  BY StepType, StepOneRunning DEF ExclusiveInv
<1>2. ASSUME ~preempted' PROVE Exclusive'
  <2>1. Owned
    BY <1>2, FromMain DEF ExclusiveInv, Owned
  <2> QED BY <1>1, <1>2, <2>1, PlainSteps, RadioSteps DEF Exclusive, Next, Processor, Step
<1> QED BY <1>1, <1>2 DEF ExclusiveInv

\* The invariant of the exclusive use of the radio (rp_task_arbiter, rp_radio_irq, the
\* launch callbacks) holds until a handler has come into a call of the main loop, on
\* every HAL.
THEOREM ExclusiveUse == Spec => []ExclusiveInv
  BY TypeCorrect, InitExclusion, StepExclusion, PTL DEF Spec

\* Until then the radio works for the running task and for no other: no transmission or
\* reception of a task that has been preempted, aborted or ended goes on.
THEOREM RadioIsOwned == Spec => [](~preempted => RadioOwned)
<1>1. ExclusiveInv => (~preempted => RadioOwned)
  BY DEF ExclusiveInv, Exclusive
<1> QED BY <1>1, ExclusiveUse, PTL

\* A step before a handler has come into a call starts from what holds until then.
LEMMA Before ==
    ASSUME TypeOK, ExclusiveInv, [Next]_vars, ~preempted'
    PROVE  ~preempted /\ Owned
  BY FromMain DEF ExclusiveInv, Owned

-----------------------------------------------------------------------------
(* Every step in terms of the call stack *)

RetiFrame == Fr("reti", None, 0)

\* A step pops a frame, replaces it, or puts one on top of what is left to do; a call
\* and a handler start on the empty stack; the time in a frame is of now or of the frame before.
Stamps == {0, now, Head(stk).at}
StackMove ==
    \/ UNCHANGED stk
    \/ stk = <<>> /\ \E f \in {ArbiterFrame, IrqFrame}, g \in {UnmaskFrame, RetiFrame} :
                        stk' = <<f, g>>
    \/ stk # <<>> /\ Return
    \/ stk # <<>> /\ \E f \in Frame : Goto(f) /\ f.pc # "callback" /\ f.at \in Stamps
    \/ stk # <<>> /\ \E f, g \in Frame : /\ Call(f, g) /\ g.pc \notin {"callback", "radioirq"}
                                        /\ {f.at, g.at} \subseteq Stamps

LEMMA StackMoves ==
    ASSUME TypeOK, [Next]_vars, ~preempted' PROVE StackMove
<1>t. /\ stk \in Seq(Frame) /\ now \in Time
      /\ radioTask \in Hook /\ prioTask.hook \in Hook
  BY DEF TypeOK
<1>1. ASSUME NEW h \in Hook, MainEnqueue(h) PROVE StackMove
  <2>1. PICK r \in Requests[h] : Enqueue(h, r, <<>>)
    BY <1>1 DEF MainEnqueue
  <2>2. stk = <<>> /\ (stk' = <<>> \/ stk' = <<ArbiterFrame, UnmaskFrame>>)
    BY <1>1, <2>1, EnqueueStack, PlainFrames, PairType DEF MainEnqueue, MainIdle
  <2> QED BY <2>2 DEF StackMove
<1>2. ASSUME NEW h \in Hook, MainAbort(h) PROVE StackMove
  <2>1. stk = <<>>
    BY <1>2 DEF MainAbort, MainIdle
  <2>2. stk' = <<>> \/ \E f \in {ArbiterFrame, IrqFrame} : stk' = <<f, UnmaskFrame>>
    BY <1>2, AbortStack
  <2> QED BY <2>1, <2>2 DEF StackMove
<1>3. CASE RadioInterrupt \/ TimerInterrupt
  <2>1. stk = <<>>
    BY <1>3, FromMain
  <2>2. stk' = <<IrqFrame, RetiFrame>> \/ stk' = <<ArbiterFrame, RetiFrame>>
    BY <1>3, <2>1, PlainFrames, PairType DEF RadioInterrupt, TimerInterrupt, RetiFrame
  <2> QED BY <2>1, <2>2 DEF StackMove, Stamps
<1>4. CASE \/ ArbiterAlarm \/ LaunchRadio \/ CollectEnd \/ HandlerReturn \/ SectionEnd \/ IrqIgnore
          \/ IrqIdle \/ InterruptReturn
  BY <1>4 DEF ArbiterAlarm, LaunchRadio, CollectEnd, HandlerReturn, SectionEnd, IrqIgnore, IrqIdle,
      InterruptReturn, At, StackMove, Stamps
<1>5. CASE ArbiterSelect
  <2>1. /\ Fr("dispatch", None, now) \in Frame /\ Fr("dispatch", None, now).pc = "dispatch"
        /\ Fr("dispatch", None, now).at = now
    BY <1>t, HookFrames DEF Fr
  <2> QED BY <1>5, <2>1 DEF ArbiterSelect, At, StackMove, Stamps
<1>6. CASE ArbiterNothing \/ ListenDone \/ IrqEnd
  <2>1. \A f \in {CollectFrame, IrqFrame, ArbiterFrame} :
            f \in Frame /\ f.pc # "callback" /\ f.at = 0
    BY PlainFrames DEF CollectFrame, IrqFrame, ArbiterFrame, Fr
  <2> QED BY <1>6, <2>1 DEF ArbiterNothing, ListenDone, IrqEnd, At, StackMove, Stamps
<1>e. At("dispatch") => /\ ExpiredFrame \in Frame /\ ExpiredFrame.pc = "expired"
                       /\ ExpiredFrame.at = Head(stk).at
  BY <1>t, StackType, HookFrames DEF At, Frame, ExpiredFrame, Fr
<1>7. CASE DispatchKeep
  BY <1>7, <1>e DEF DispatchKeep, At, StackMove, Stamps
<1>8. CASE DispatchPreempt \/ DispatchStart
  <2>1. Fr("launch", prioTask.hook, now) \in Frame /\ Fr("launch", prioTask.hook, now).at = now
    BY <1>t, HookFrames DEF Fr
  <2> QED BY <1>8, <1>e, <2>1 DEF DispatchPreempt, DispatchStart, DispatchNow, At, StackMove, Stamps
<1>9. CASE ArbiterExpired
  <2>1. /\ AlarmFrame \in Frame /\ AlarmFrame.pc = "alarm" /\ CollectFrame \in Frame
        /\ AlarmFrame.at = 0 /\ CollectFrame.at = 0
    BY PlainFrames DEF AlarmFrame, CollectFrame, Fr
  <2> QED BY <1>9, <2>1 DEF ArbiterExpired, At, StackMove, Stamps
<1>10. CASE LaunchListen \/ Callback
  <2> DEFINE f == [Head(stk) EXCEPT !.pc = "listen"]
             g == [Head(stk) EXCEPT !.pc = "handler"]
  <2>1. stk # <<>> /\ Head(stk).pc \in OfHook /\ (Goto(f) \/ Goto(g))
    BY <1>10 DEF LaunchListen, Callback, At, OfHook
  <2>2. f \in Frame /\ f.pc # "callback" /\ g \in Frame /\ g.pc # "callback"
        /\ f.at = Head(stk).at /\ g.at = Head(stk).at
    BY <2>1, <1>t, StackType, HeadHook DEF OfHook, Frame, Pc
  <2> HIDE DEF f, g
  <2> QED BY <2>1, <2>2 DEF StackMove, Stamps
<1>11. CASE CollectNext
  <2>1. PICK h \in Hook : Call(Fr("callback", h, 0), Fr("collect", h, 0))
    BY <1>11 DEF CollectNext, AbortedAfter
  <2>2. /\ Fr("callback", h, 0) \in Frame /\ Fr("collect", h, 0) \in Frame
        /\ Fr("collect", h, 0).pc = "collect"
        /\ Fr("callback", h, 0).at = 0 /\ Fr("collect", h, 0).at = 0
    BY HookFrames DEF Fr
  <2> QED BY <1>11, <2>1, <2>2 DEF CollectNext, At, StackMove, Stamps
<1>12. CASE HandlerEnqueue
  <2>1. PICK h, r : Enqueue(h, r, Tail(stk))
    BY <1>12 DEF HandlerEnqueue
  <2>2. /\ ArbiterFrame \in Frame /\ UnmaskFrame \in Frame
        /\ ArbiterFrame.at = 0 /\ UnmaskFrame.at = 0
        /\ UnmaskFrame.pc \notin {"callback", "radioirq"}
    BY PlainFrames DEF ArbiterFrame, UnmaskFrame, Fr
  <2>3. Return \/ Call(ArbiterFrame, UnmaskFrame)
    BY <2>1 DEF Enqueue, EmptySection, InSection, Return, Call
  <2> QED BY <1>12, <2>2, <2>3 DEF HandlerEnqueue, At, StackMove, Stamps
<1>13. CASE IrqServe \/ IrqCollect
  <2>1. /\ Fr("callback", radioTask, 0) \in Frame /\ CollectFrame \in Frame
        /\ Fr("irqdone", None, 0) \in Frame /\ Fr("irqdone", None, 0).pc = "irqdone"
        /\ Fr("irqend", None, 0) \in Frame /\ Fr("irqend", None, 0).pc = "irqend"
        /\ Fr("callback", radioTask, 0).at = 0 /\ CollectFrame.at = 0
        /\ Fr("irqdone", None, 0).at = 0 /\ Fr("irqend", None, 0).at = 0
    BY <1>t, PlainFrames, HookFrames DEF Fr, CollectFrame
  <2> QED BY <1>13, <2>1 DEF IrqServe, IrqCollect, At, StackMove, Stamps
<1>14. CASE Tick \/ RadioDone \/ UNCHANGED vars
  BY <1>14 DEF Tick, RadioDone, vars, StackMove, Stamps
<1> QED BY <1>1, <1>2, <1>3, <1>4, <1>5, <1>6, <1>7, <1>8, <1>9, <1>10, <1>11, <1>12, <1>13,
           <1>14 DEF Next, Processor, Step

-----------------------------------------------------------------------------
(* What a user is owed *)

\* A task that waits or runs is one its user waits for; what is selected is such a task; a
\* callback is the first thing to do, and its task is over.
LiveOwed       == \A h \in Hook : Live(task[h]) => owed[h]
SelectionLive  == At("dispatch") => Live(prioTask)
NoCallback(s)  == \A i \in DOMAIN s : s[i].pc # "callback"
CallbackOnTop  == stk # <<>> => NoCallback(Tail(stk))
CallbackClosed == At("callback") => ~Live(task[Head(stk).hook])

ServiceInv == LiveOwed /\ SelectionLive /\ CallbackOnTop /\ CallbackClosed

LEMMA CallbackAfter ==
    ASSUME TypeOK, CallbackOnTop, StackMove
    PROVE  /\ CallbackOnTop'
           /\ At("callback")' => \/ UNCHANGED stk
                                 \/ stk # <<>> /\ \E f, g \in Frame : Call(f, g) /\ f.pc = "callback"
<1>t. stk \in Seq(Frame)
  BY DEF TypeOK
<1>1. CASE UNCHANGED stk
  BY <1>1 DEF CallbackOnTop
<1>2. CASE stk = <<>> /\ \E f \in {ArbiterFrame, IrqFrame}, g \in {UnmaskFrame, RetiFrame} :
                            stk' = <<f, g>>
  <2>1. PICK f \in {ArbiterFrame, IrqFrame}, g \in {UnmaskFrame, RetiFrame} : stk' = <<f, g>>
    BY <1>2
  <2>2. f.pc # "callback" /\ g.pc # "callback"
    BY DEF ArbiterFrame, IrqFrame, UnmaskFrame, RetiFrame, Fr
  <2>3. Head(stk') = f /\ Tail(stk') = <<g>>
    BY <2>1
  <2>4. NoCallback(<<g>>)
    BY <2>2 DEF NoCallback
  <2> QED BY <2>2, <2>3, <2>4 DEF CallbackOnTop, At
<1>3. CASE stk # <<>> /\ Return
  <2>1. stk' = Tail(stk) /\ NoCallback(Tail(stk)) /\ Tail(stk) \in Seq(Frame)
    BY <1>3, <1>t DEF Return, CallbackOnTop
  <2>2. ASSUME stk' # <<>> PROVE Head(stk').pc # "callback"
    <3>1. 1 \in DOMAIN Tail(stk) /\ Head(stk') = Tail(stk)[1]
      BY <2>1, <2>2
    <3> QED BY <2>1, <3>1 DEF NoCallback
  <2>3. ASSUME stk' # <<>>, NEW i \in DOMAIN Tail(stk') PROVE Tail(stk')[i].pc # "callback"
    <3>1. i + 1 \in DOMAIN Tail(stk) /\ Tail(stk')[i] = Tail(stk)[i + 1]
      BY <2>1, <2>3
    <3> QED BY <2>1, <3>1 DEF NoCallback
  <2> QED BY <2>2, <2>3 DEF CallbackOnTop, NoCallback, At
<1>4. CASE stk # <<>> /\ \E f \in Frame : Goto(f) /\ f.pc # "callback"
  <2>1. PICK f \in Frame : stk' = <<f>> \o Tail(stk) /\ f.pc # "callback"
    BY <1>4 DEF Goto
  <2>2. Head(stk') = f /\ Tail(stk') = Tail(stk) /\ Tail(stk) \in Seq(Frame)
    BY <1>4, <1>t, <2>1
  <2> QED BY <1>4, <2>1, <2>2 DEF CallbackOnTop, At
<1>5. CASE stk # <<>> /\ \E f, g \in Frame : Call(f, g) /\ g.pc # "callback"
  <2>1. PICK f, g \in Frame : Call(f, g) /\ g.pc # "callback"
    BY <1>5
  <2>2. stk' = <<f, g>> \o Tail(stk) /\ Tail(stk) \in Seq(Frame)
    BY <1>5, <1>t, <2>1 DEF Call
  <2>3. Head(stk') = f /\ Tail(stk') = <<g>> \o Tail(stk)
    BY <2>2
  <2>4. ASSUME NEW i \in DOMAIN (<<g>> \o Tail(stk)) PROVE (<<g>> \o Tail(stk))[i].pc # "callback"
    <3>1. CASE i = 1
      BY <2>1, <2>2, <3>1
    <3>2. CASE i # 1
      <4>1. i - 1 \in DOMAIN Tail(stk) /\ (<<g>> \o Tail(stk))[i] = Tail(stk)[i - 1]
        BY <2>2, <3>2
      <4> QED BY <1>5, <4>1 DEF CallbackOnTop, NoCallback
    <3> QED BY <3>1, <3>2
  <2> QED BY <1>5, <2>1, <2>3, <2>4 DEF CallbackOnTop, NoCallback, At
<1> QED BY <1>1, <1>2, <1>3, <1>4, <1>5 DEF StackMove

\* A scan of the table leaves who waits waiting, or aborts them.
LEMMA UpdatedLive ==
    ASSUME NEW tk \in [Hook -> Task], NEW at \in Time, NEW h \in Hook
    PROVE  /\ Waiting(Updated(tk, at)[h]) <=> Waiting(tk[h])
           /\ Live(Updated(tk, at)[h]) <=> Live(tk[h])
<1>1. tk[h] \in Task
  OBVIOUS
<1> QED BY <1>1 DEF Updated, Task, Waiting, Live

LEMMA CollectedLive ==
    ASSUME NEW tk \in [Hook -> Task], NEW at \in Time, NEW h \in Hook
    PROVE  \/ Collected(tk, at)[h] = tk[h]
           \/ Waiting(tk[h]) /\ ~Live(Collected(tk, at)[h])
<1>1. tk[h] \in Task
  OBVIOUS
<1> QED BY <1>1, AbortedSt DEF Collected, Waiting, Live

\* A step that is not an enqueue brings no task to life.
LEMMA LiveBefore ==
    ASSUME TypeOK, Owned, SelectionLive, [Next]_vars, ~preempted',
           NEW g \in Hook, Live(task'[g])
    PROVE  Live(task[g]) \/ owed'[g]
<1>t. task \in [Hook -> Task] /\ now \in Time /\ radioTask \in Hook /\ prioTask.hook \in Hook
      /\ timerHook \in Hook /\ owed \in [Hook -> BOOLEAN]
  BY DEF TypeOK
<1>e. ASSUME NEW h \in Hook, NEW r \in Requests[h], NEW rest, Enqueue(h, r, rest)
      PROVE  Live(task[g]) \/ owed'[g]
  BY <1>e, <1>t DEF Enqueue
<1>1. ASSUME NEW h \in Hook, MainEnqueue(h) PROVE Live(task[g]) \/ owed'[g]
  BY <1>1, <1>e DEF MainEnqueue
<1>2. ASSUME NEW h \in Hook, MainAbort(h) PROVE Live(task[g])
  BY <1>2, <1>t, AbortedSt DEF MainAbort, Live
<1>3. CASE ArbiterSelect \/ ArbiterNothing
  BY <1>3, <1>t, UpdatedType, UpdatedLive, CollectedLive DEF ArbiterSelect, ArbiterNothing
<1>4. CASE DispatchKeep
  BY <1>4, <1>t, AbortedSt DEF DispatchKeep, Live
<1>5. CASE DispatchPreempt
  <2>1. /\ task' = [task EXCEPT ![radioTask].st = "aborted", ![prioTask.hook].st = "running"]
        /\ Live(task[prioTask.hook]) /\ task[radioTask].st = "running"
    BY <1>5 DEF DispatchPreempt, DispatchNow, HandedOver, SelectionLive, Running, Owned, Exclusive,
                SelectionOK, Live
  <2> QED BY <2>1, <1>t DEF Live
<1>6. CASE DispatchStart
  BY <1>6, <1>t DEF DispatchStart, DispatchNow, SelectionLive, Live, Owned, Exclusive, SelectionOK
<1>7. CASE ArbiterExpired
  BY <1>7, <1>t DEF ArbiterExpired, Live, Task
<1>8. CASE ArbiterAlarm
  BY <1>8, <1>t, CollectedLive DEF ArbiterAlarm
<1>9. CASE CollectNext \/ IrqServe
  <2>1. PICK h \in Hook : task' = [task EXCEPT ![h] = Freed(@)]
    BY <1>9, <1>t DEF CollectNext, AbortedAfter, IrqServe
  <2> QED BY <2>1, <1>t DEF Freed, Live, Task
<1>10. CASE HandlerEnqueue
  <2>1. Head(stk).hook \in Hook
    BY <1>10, HeadHook DEF HandlerEnqueue, At, OfHook, TypeOK
  <2>2. PICK h \in Hook : \E r \in Requests[h] : Enqueue(h, r, Tail(stk))
    BY <1>10, <2>1, ChainedHook DEF HandlerEnqueue
  <2> QED BY <2>2, <1>e
<1>11. CASE UNCHANGED task
  BY <1>11
<1> QED BY <1>1, <1>2, <1>3, <1>4, <1>5, <1>6, <1>7, <1>8, <1>9, <1>10, <1>11
        DEF Next, Processor, Step, vars, planner, LaunchRadio, LaunchListen, ListenDone,
            CollectEnd, Callback, HandlerReturn, SectionEnd, IrqIgnore, IrqIdle, IrqCollect, IrqEnd,
            Tick, RadioDone, RadioInterrupt, TimerInterrupt, InterruptReturn

\* A callback is put on the stack by what has just freed its task.
LEMMA CallbackFreed ==
    ASSUME TypeOK, [Next]_vars, ~preempted', stk # <<>>,
           NEW f \in Frame, NEW g \in Frame, Call(f, g), f.pc = "callback"
    PROVE  /\ task[f.hook].st # "finished" /\ task'[f.hook].st = "finished"
           /\ \A h \in Hook \ {f.hook} : task'[h] = task[h]
           /\ f.hook \in Hook /\ owed' = owed
<1>t. /\ task \in [Hook -> Task] /\ stk \in Seq(Frame) /\ radioTask \in Hook /\ stk' = <<f, g>> \o Tail(stk)
  BY DEF TypeOK, Call
<1>h. Head(stk') = f /\ Len(stk') = Len(stk) + 1
  BY <1>t, StackType
<1>1. CASE CollectNext
  <2>1. PICK h \in Hook : /\ task' = [task EXCEPT ![h] = Freed(@)] /\ task[h].st = "aborted"
                         /\ Call(Fr("callback", h, 0), Fr("collect", h, 0)) /\ owed' = owed
    BY <1>1 DEF CollectNext, AbortedAfter
  <2>2. Head(stk') = Fr("callback", h, 0)
    BY <2>1, <1>t, StackType, HookFrames DEF Call
  <2> QED BY <2>1, <2>2, <1>t, <1>h DEF Freed, Task, Fr
<1>2. CASE IrqServe
  <2>1. /\ task' = [task EXCEPT ![radioTask] = Freed(@)] /\ task[radioTask].st # "finished"
        /\ Call(Fr("callback", radioTask, 0), Fr("irqdone", None, 0)) /\ owed' = owed
    BY <1>2 DEF IrqServe, Live
  <2>2. Head(stk') = Fr("callback", radioTask, 0)
    BY <2>1, <1>t, StackType, HookFrames, PlainFrames DEF Call
  <2> QED BY <2>1, <2>2, <1>t, <1>h DEF Freed, Task, Fr
<1>3. ~(stk' = Tail(stk)) /\ stk' # stk
  BY <1>t, <1>h, StackType
<1>4. ASSUME NEW k, Goto(k) PROVE FALSE
  <2>1. Len(<<k>> \o Tail(stk)) = Len(stk)
    BY <1>t, StackType
  <2> QED BY <1>4, <1>h, <2>1, <1>t DEF Goto
<1>5. CASE DispatchPreempt \/ DispatchStart
  <2>1. Head(stk').pc = "launch"
    BY <1>5, <1>t, StackType DEF DispatchPreempt, DispatchStart, Call, Fr
  <2> QED BY <2>1, <1>h
<1>6. CASE ArbiterExpired
  <2>1. Call(CollectFrame, AlarmFrame)
    BY <1>6, <1>4 DEF ArbiterExpired
  <2>2. Head(stk').pc = "collect"
    BY <2>1, <1>t, StackType DEF Call, CollectFrame, Fr
  <2> QED BY <2>2, <1>h
<1>7. CASE IrqCollect
  <2>1. Head(stk').pc = "collect"
    BY <1>7, <1>t, StackType DEF IrqCollect, Call, CollectFrame, Fr
  <2> QED BY <2>1, <1>h
<1>8. CASE \/ \E h \in Hook : MainEnqueue(h) \/ MainAbort(h)
          \/ RadioInterrupt \/ TimerInterrupt
  BY <1>8, FromMain DEF MainEnqueue, MainAbort, MainIdle
<1>9. CASE HandlerEnqueue
  <2>1. PICK h, r : Enqueue(h, r, Tail(stk))
    BY <1>9 DEF HandlerEnqueue
  <2>2. Call(ArbiterFrame, UnmaskFrame)
    BY <2>1, <1>3 DEF Enqueue, EmptySection, InSection, Call
  <2>3. Head(stk').pc = "arbiter"
    BY <2>2, <1>t, StackType, PlainFrames DEF Call, ArbiterFrame, Fr
  <2> QED BY <2>3, <1>h
<1> QED BY <1>1, <1>2, <1>3, <1>4, <1>5, <1>6, <1>7, <1>8, <1>9
        DEF Next, Processor, Step, vars, Return, ArbiterSelect, ArbiterNothing, DispatchKeep,
            ArbiterAlarm, LaunchRadio, LaunchListen, ListenDone, CollectEnd, Callback,
            HandlerReturn, SectionEnd, IrqIgnore, IrqIdle, IrqEnd, Tick, RadioDone, InterruptReturn

\* Where a delicate frame on top of the stack comes from.
LEMMA PassingFrom ==
    ASSUME TypeOK, TopOnly, [Next]_vars, ~preempted', NEW pc \in Passing, At(pc)'
    PROVE  \/ pc = "dispatch" /\ ArbiterSelect
           \/ pc = "launch" /\ (DispatchPreempt \/ DispatchStart)
           \/ pc = "listen" /\ LaunchListen
           \/ At(pc) /\ (Tick \/ RadioDone \/ UNCHANGED vars)
<1>t. stk \in Seq(Frame) /\ stk' # <<>> /\ Head(stk').pc = pc
  BY DEF TypeOK, At
<1>r. ASSUME stk # <<>>, Return PROVE FALSE
  BY <1>r, AfterReturn
<1>g. ASSUME stk # <<>>, NEW f, Goto(f) PROVE f.pc = pc
  BY <1>g, <1>t, StackType DEF Goto
<1>c. ASSUME stk # <<>>, NEW f, NEW g, Call(f, g) PROVE f.pc = pc
  BY <1>c, <1>t, StackType DEF Call
<1>p. /\ ArbiterFrame.pc = "arbiter" /\ IrqFrame.pc = "radioirq" /\ CollectFrame.pc = "collect"
      /\ AlarmFrame.pc = "alarm" /\ ExpiredFrame.pc = "expired"
      /\ \A h, at : /\ Fr("dispatch", h, at).pc = "dispatch" /\ Fr("launch", h, at).pc = "launch"
                    /\ Fr("callback", h, at).pc = "callback"
  BY DEF ArbiterFrame, IrqFrame, CollectFrame, AlarmFrame, ExpiredFrame, Fr
<1>1. CASE \/ ArbiterAlarm \/ LaunchRadio \/ CollectEnd \/ HandlerReturn \/ SectionEnd \/ IrqIgnore
          \/ IrqIdle \/ InterruptReturn
  BY <1>1, <1>r DEF ArbiterAlarm, LaunchRadio, CollectEnd, HandlerReturn, SectionEnd, IrqIgnore, IrqIdle,
      InterruptReturn, At
<1>2. CASE ArbiterSelect
  BY <1>2, <1>g, <1>p DEF ArbiterSelect, At
<1>3. CASE ArbiterNothing \/ DispatchKeep \/ ListenDone \/ IrqEnd
  BY <1>3, <1>g, <1>p DEF ArbiterNothing, DispatchKeep, ListenDone, IrqEnd, At, Passing
<1>4. CASE DispatchPreempt \/ DispatchStart
  BY <1>4, <1>c, <1>p DEF DispatchPreempt, DispatchStart, DispatchNow, At
<1>5. CASE ArbiterExpired
  BY <1>5, <1>g, <1>c, <1>p DEF ArbiterExpired, At, Passing
<1>6. CASE CollectNext
  BY <1>6, <1>c, <1>p DEF CollectNext, At, Passing
<1>7. CASE IrqServe \/ IrqCollect
  BY <1>7, <1>c, <1>p DEF IrqServe, IrqCollect, At, Passing
<1>8. CASE LaunchListen \/ Callback
  <2>1. stk # <<>> /\ Head(stk) \in Frame
    BY <1>8, <1>t, StackType DEF LaunchListen, Callback, At
  <2>2. [Head(stk) EXCEPT !.pc = "listen"].pc = "listen" /\ [Head(stk) EXCEPT !.pc = "handler"].pc = "handler"
    BY <2>1 DEF Frame
  <2> QED BY <1>8, <1>g, <2>1, <2>2 DEF LaunchListen, Callback, Passing
<1>9. CASE HandlerEnqueue
  <2>1. PICK h, r : Enqueue(h, r, Tail(stk))
    BY <1>9 DEF HandlerEnqueue
  <2>2. stk # <<>> /\ (Return \/ Call(ArbiterFrame, UnmaskFrame))
    BY <1>9, <2>1 DEF HandlerEnqueue, At, Enqueue, EmptySection, InSection, Return, Call
  <2> QED BY <1>r, <1>c, <1>p, <2>2 DEF Passing
<1>10. CASE \/ \E h \in Hook : MainEnqueue(h) \/ MainAbort(h)
           \/ RadioInterrupt \/ TimerInterrupt
  <2>1. stk = <<>>
    BY <1>10, FromMain DEF MainEnqueue, MainAbort, MainIdle
  <2>2. PICK f \in {ArbiterFrame, IrqFrame}, g \in {UnmaskFrame, RetiFrame} : stk' = <<f, g>>
    <3>1. StackMove
      BY StackMoves
    <3> QED BY <1>t, <2>1, <3>1 DEF StackMove
  <2>3. Head(stk') = ArbiterFrame \/ Head(stk') = IrqFrame
    BY <2>2
  <2> QED BY <1>t, <1>p, <2>3 DEF Passing
<1>11. CASE Tick \/ RadioDone \/ UNCHANGED vars
  BY <1>11, <1>t DEF Tick, RadioDone, vars, At
<1> QED BY <1>1, <1>2, <1>3, <1>4, <1>5, <1>6, <1>7, <1>8, <1>9, <1>10, <1>11
        DEF Next, Processor, Step

\* While a callback is to be made nothing else happens to the tasks.
LEMMA CallbackCalm ==
    ASSUME stk # <<>>, Head(stk).pc = "callback", [Next]_vars, ~preempted'
    PROVE  UNCHANGED task
  BY DEF Next, Processor, Step, vars, planner, MainEnqueue, MainAbort, MainIdle, ArbiterSelect,
         ArbiterNothing, DispatchKeep, DispatchPreempt, DispatchStart, DispatchNow,
         ArbiterExpired, ArbiterAlarm, LaunchRadio, LaunchListen, ListenDone, CollectNext,
         CollectEnd, Callback, HandlerEnqueue, HandlerReturn, SectionEnd, IrqIgnore, IrqServe, IrqIdle,
         IrqCollect, IrqEnd, Tick, RadioDone, RadioInterrupt, TimerInterrupt, InterruptReturn,
         At

LEMMA ServiceStep ==
    ASSUME TypeOK, Owned, ServiceInv, [Next]_vars, ~preempted'
    PROVE  ServiceInv'
<1>t. /\ task \in [Hook -> Task] /\ stk \in Seq(Frame) /\ now \in Time
      /\ owed \in [Hook -> BOOLEAN] /\ prioTask.hook \in Hook
  BY DEF TypeOK
<1>m. StackMove
  BY StackMoves
<1>1. LiveOwed'
  <2> SUFFICES ASSUME NEW h \in Hook, Live(task'[h]) PROVE owed'[h]
    BY DEF LiveOwed
  <2>1. Live(task[h]) \/ owed'[h]
    BY LiveBefore DEF ServiceInv
  <2>2. CASE Callback
    BY <2>1, <2>2, <1>t DEF Callback, ServiceInv, LiveOwed, CallbackClosed, planner
  <2>3. ASSUME NEW g \in Hook, NEW r \in Requests[g], NEW rest, Enqueue(g, r, rest) PROVE owed'[h]
    BY <2>1, <2>3, <1>t DEF Enqueue, ServiceInv, LiveOwed
  <2>4. CASE UNCHANGED owed
    BY <2>1, <2>4 DEF ServiceInv, LiveOwed
  <2>5. CASE HandlerEnqueue
    <3>1. Head(stk).hook \in Hook
      BY <2>5, <1>t, HeadHook DEF HandlerEnqueue, At, OfHook
    <3>2. PICK g \in Hook : \E r \in Requests[g] : Enqueue(g, r, Tail(stk))
      BY <2>5, <3>1, ChainedHook DEF HandlerEnqueue
    <3> QED BY <3>2, <2>3
  <2> QED BY <2>2, <2>3, <2>4, <2>5
          DEF Next, Processor, Step, vars, planner, MainEnqueue, MainAbort, ArbiterSelect,
              ArbiterNothing, DispatchKeep, DispatchPreempt, DispatchStart, ArbiterExpired,
              ArbiterAlarm, LaunchRadio, LaunchListen, ListenDone, CollectNext, CollectEnd,
              HandlerReturn, SectionEnd, IrqIgnore, IrqServe, IrqIdle, IrqCollect, IrqEnd, Tick,
              RadioDone, RadioInterrupt, TimerInterrupt, InterruptReturn
<1>2. CallbackOnTop'
  BY <1>m, CallbackAfter DEF ServiceInv
<1>3. CallbackClosed'
  <2> SUFFICES ASSUME At("callback")' PROVE ~Live(task'[Head(stk').hook])
    BY DEF CallbackClosed
  <2>1. CASE UNCHANGED stk
    <3>1. UNCHANGED task
      BY <2>1, CallbackCalm DEF At
    <3> QED BY <2>1, <3>1 DEF ServiceInv, CallbackClosed, At
  <2>2. ASSUME stk # <<>>, NEW f \in Frame, NEW g \in Frame, Call(f, g), f.pc = "callback"
        PROVE  ~Live(task'[Head(stk').hook])
    <3>1. Head(stk') = f
      BY <2>2, <1>t, StackType DEF Call
    <3> QED BY <2>2, <3>1, CallbackFreed DEF Live
  <2> QED BY <1>m, <2>1, <2>2, CallbackAfter DEF ServiceInv
<1>4. SelectionLive'
  <2> SUFFICES ASSUME At("dispatch")' PROVE Live(prioTask')
    BY DEF SelectionLive
  <2>1. ArbiterSelect \/ (At("dispatch") /\ UNCHANGED prioTask)
    BY PassingFrom DEF Owned, Exclusive, Passing, Tick, RadioDone, vars, planner
  <2>2. CASE ArbiterSelect
    BY <2>2 DEF ArbiterSelect, Eligible, NotPast, Waiting, Live
  <2> QED BY <2>1, <2>2 DEF ServiceInv, SelectionLive
<1> QED BY <1>1, <1>2, <1>3, <1>4 DEF ServiceInv

-----------------------------------------------------------------------------
(* The planner implements RadioService *)

\* PhaseOf as a function of what is owed and of the task, for states and their successors.
PhaseIs(o, t) ==
    IF ~o THEN "idle"
    ELSE IF Waiting(t) THEN "waiting" ELSE IF t.st = "running" THEN "onair" ELSE "closing"

LEMMA Phases ==
    ASSUME NEW h \in Hook
    PROVE  PhaseOf(h) = PhaseIs(owed[h], task[h]) /\ PhaseOf(h)' = PhaseIs(owed'[h], task'[h])
<1>1. PhaseOf(h) = PhaseIs(owed[h], task[h])
  <2>1. CASE ~owed[h]
    BY <2>1 DEF PhaseOf, PhaseIs
  <2>2. CASE owed[h] /\ Waiting(task[h])
    <3>1. task[h].st # "running"
      BY <2>2 DEF Waiting
    <3> QED BY <2>2, <3>1 DEF PhaseOf, PhaseIs
  <2>3. CASE owed[h] /\ ~Waiting(task[h])
    BY <2>3 DEF PhaseOf, PhaseIs
  <2> QED BY <2>1, <2>2, <2>3
<1>2. PhaseOf(h)' = PhaseIs(owed'[h], task'[h])
  <2>1. CASE ~owed'[h]
    BY <2>1 DEF PhaseOf, PhaseIs
  <2>2. CASE owed'[h] /\ Waiting(task'[h])
    <3>1. task'[h].st # "running"
      BY <2>2 DEF Waiting
    <3> QED BY <2>2, <3>1 DEF PhaseOf, PhaseIs
  <2>3. CASE owed'[h] /\ ~Waiting(task'[h])
    BY <2>3 DEF PhaseOf, PhaseIs
  <2> QED BY <2>1, <2>2, <2>3
<1> QED BY <1>1, <1>2

LEMMA Stutters ==
    ASSUME \A h \in Hook : PhaseOf(h)' = PhaseOf(h), op' \in {op, None}
    PROVE  [Service!Next]_(Service!vars)
<1>1. [h \in Hook |-> PhaseOf(h)]' = [h \in Hook |-> PhaseOf(h)]
  OBVIOUS
<1> QED BY <1>1 DEF Service!Next, Service!Release, Service!vars

LEMMA GivesUp ==
    ASSUME \A h \in Hook : PhaseOf(h)' = PhaseOf(h) \/ (PhaseOf(h) = "waiting" /\ PhaseOf(h)' = "closing"),
           UNCHANGED op
    PROVE  [Service!Next]_(Service!vars)
<1> DEFINE S == {h \in Hook : PhaseOf(h)' # PhaseOf(h)}
<1>1. CASE S = {}
  BY <1>1, Stutters
<1>2. CASE S # {}
  <2>1. [h \in Hook |-> PhaseOf(h)]' = [h \in Hook |-> IF h \in S THEN "closing"
                                          ELSE [g \in Hook |-> PhaseOf(g)][h]]
    OBVIOUS
  <2>2. Service!GiveUp(S)
    BY <1>2, <2>1 DEF Service!GiveUp
  <2> QED BY <2>2 DEF Service!Next
<1> QED BY <1>1, <1>2

LEMMA AsksFor ==
    ASSUME TypeOK, NEW h \in Hook, NEW r \in Requests[h], NEW rest, Enqueue(h, r, rest),
           UNCHANGED op
    PROVE  [Service!Next]_(Service!vars)
<1>t. task \in [Hook -> Task] /\ owed \in [Hook -> BOOLEAN] /\ r \in Request
  BY PlannerAssumption DEF TypeOK
<1>1. CASE task[h].st = "running"
  BY <1>1, Stutters, Phases DEF Enqueue
<1>2. CASE task[h].st # "running"
  <2>1. /\ Waiting(task'[h]) /\ owed'[h]
        /\ \A g \in Hook \ {h} : task'[g] = task[g] /\ owed'[g] = owed[g]
    BY <1>2, <1>t DEF Enqueue, Waiting, Request
  <2>2. PhaseOf(h) # "onair" /\ PhaseOf(h)' = "waiting"
    BY <1>2, <2>1, Phases DEF PhaseIs
  <2>3. \A g \in Hook \ {h} : PhaseOf(g)' = PhaseOf(g)
    BY <2>1, Phases
  <2>4. Service!Ask(h)
    BY <2>2, <2>3 DEF Service!Ask
  <2> QED BY <2>4 DEF Service!Next
<1> QED BY <1>1, <1>2

\* The steps that take a task off the air, or put one on it.
LEMMA ServiceAir ==
    ASSUME TypeOK, Owned, ServiceInv,
           DispatchPreempt \/ DispatchStart \/ LaunchRadio \/ IrqServe
    PROVE  [Service!Next]_(Service!vars)
<1>t. /\ task \in [Hook -> Task] /\ owed \in [Hook -> BOOLEAN]
      /\ radioTask \in Hook /\ prioTask.hook \in Hook
  BY DEF TypeOK
<1>a. OneRunning /\ RadioOwned /\ SelectionOK /\ LaunchOK /\ LiveOwed /\ SelectionLive
  BY DEF Owned, Exclusive, ServiceInv
<1>o. \A h \in Hook :
        /\ task[h].st = "running" => PhaseOf(h) = "onair"
        /\ Waiting(task[h]) => PhaseOf(h) = "waiting"
        /\ PhaseOf(h) = "onair" => h = radioTask
  BY <1>a, Phases DEF LiveOwed, Live, Waiting, PhaseIs, OneRunning
<1>d. At("dispatch") => task[prioTask.hook].st = "running" \/ Waiting(task[prioTask.hook])
  BY <1>a DEF SelectionOK, SelectionLive, Live, Waiting
<1>r. PICK g \in Hook, k \in Hook : g = radioTask /\ k = prioTask.hook
  BY <1>t
<1>1. CASE DispatchPreempt
  <2>1. /\ task' = [task EXCEPT ![g].st = "aborted", ![k].st = "running"]
        /\ task[g].st = "running" /\ g # k /\ op' = None /\ owed' = owed /\ At("dispatch")
    BY <1>1, <1>r DEF DispatchPreempt, DispatchNow, HandedOver, Running, Sleep
  <2>2. PhaseOf(g) = "onair" /\ PhaseOf(k) = "waiting"
    BY <2>1, <1>a, <1>d, <1>o, <1>r DEF OneRunning
  <2>3. owed[g] /\ owed[k]
    BY <2>2, Phases DEF PhaseIs
  <2>4. /\ task'[g].st = "aborted" /\ task'[k].st = "running"
        /\ \A h \in Hook \ {g, k} : task'[h] = task[h]
    BY <2>1, <1>t DEF Task
  <2>5. PhaseOf(g)' = "closing" /\ PhaseOf(k)' = "onair"
    BY <2>1, <2>3, <2>4, Phases DEF PhaseIs, Waiting
  <2>6. \A h \in Hook \ {g, k} : PhaseOf(h)' = PhaseOf(h)
    BY <2>1, <2>4, Phases
  <2>7. Service!Replace(g, k)
    BY <2>1, <2>2, <2>5, <2>6 DEF Service!Replace
  <2> QED BY <2>7 DEF Service!Next
<1>2. CASE DispatchStart
  <2>1. /\ task' = [task EXCEPT ![k].st = "running"]
        /\ task[g].st # "running" /\ op' = op /\ owed' = owed /\ At("dispatch")
    BY <1>2, <1>r DEF DispatchStart, DispatchNow, Running, radio
  <2>2. \A h \in Hook : task[h].st # "running"
    BY <2>1, <1>a, <1>r DEF OneRunning
  <2>3. PhaseOf(k) = "waiting" /\ owed[k]
    BY <2>1, <2>2, <1>d, <1>o, <1>r, Phases DEF PhaseIs
  <2>4. task'[k].st = "running" /\ \A h \in Hook \ {k} : task'[h] = task[h]
    BY <2>1, <1>t DEF Task
  <2>5. PhaseOf(k)' = "onair"
    BY <2>1, <2>3, <2>4, Phases DEF PhaseIs, Waiting
  <2>6. \A h \in Hook \ {k} : PhaseOf(h)' = PhaseOf(h)
    BY <2>1, <2>4, Phases
  <2>7. \A h \in Hook : PhaseOf(h) # "onair"
    BY <2>2, Phases DEF PhaseIs
  <2>8. Service!Admit(k)
    BY <2>1, <2>3, <2>5, <2>6, <2>7 DEF Service!Admit, Service!OnAir
  <2> QED BY <2>8 DEF Service!Next
<1>3. CASE LaunchRadio
  <2>1. task' = task /\ owed' = owed /\ (op' = g \/ op' = op) /\ task[g].st = "running"
    BY <1>3, <1>a, <1>r DEF LaunchRadio, LaunchOK, planner, Running
  <2>2. \A h \in Hook : PhaseOf(h)' = PhaseOf(h)
    BY <2>1, Phases
  <2>3. CASE op' = g
    <3>1. Service!Use(g)
      BY <2>1, <2>2, <2>3, <1>o DEF Service!Use
    <3> QED BY <3>1 DEF Service!Next
  <2> QED BY <2>1, <2>2, <2>3, Stutters
<1>4. CASE IrqServe
  <2>1. /\ task' = [task EXCEPT ![g] = Freed(@)] /\ owed' = owed /\ op' = None
        /\ Live(task[g])
    BY <1>4, <1>r DEF IrqServe, Sleep
  <2>2. task'[g].st = "finished" /\ \A h \in Hook \ {g} : task'[h] = task[h]
    BY <2>1, <1>t DEF Freed, Task
  <2>3. PhaseOf(g)' = "closing"
    BY <2>1, <2>2, <1>a, Phases DEF PhaseIs, Waiting, LiveOwed
  <2>4. \A h \in Hook \ {g} : PhaseOf(h)' = PhaseOf(h)
    BY <2>1, <2>2, Phases
  <2>5. CASE task[g].st = "running"
    <3>1. Service!End(g)
      BY <2>1, <2>3, <2>4, <2>5, <1>o DEF Service!End
    <3> QED BY <3>1 DEF Service!Next
  <2>6. CASE Waiting(task[g])
    <3>1. op = None
      BY <2>6, <1>a, <1>r DEF RadioOwned, Running, Waiting
    <3>2. PhaseOf(g) = "waiting"
      BY <2>6, <1>o
    <3> QED BY <2>1, <2>3, <2>4, <3>1, <3>2, GivesUp
  <2> QED BY <2>1, <2>5, <2>6 DEF Live, Waiting
<1> QED BY <1>1, <1>2, <1>3, <1>4

\* The steps that leave who is on air, and give up some of those who wait.
GivenUp(t, u) == \/ (Waiting(t) <=> Waiting(u)) /\ (Live(t) <=> Live(u))
                 \/ Waiting(t) /\ ~Live(u)

LEMMA ServiceTasks ==
    ASSUME op' = op, owed' = owed, LiveOwed, \A h \in Hook : GivenUp(task[h], task'[h])
    PROVE  [Service!Next]_(Service!vars)
<1> SUFFICES ASSUME NEW h \in Hook
             PROVE  PhaseOf(h)' = PhaseOf(h) \/ (PhaseOf(h) = "waiting" /\ PhaseOf(h)' = "closing")
  BY GivesUp
<1>1. GivenUp(task[h], task'[h]) /\ (Live(task[h]) => owed[h]) /\ owed'[h] = owed[h]
  BY DEF LiveOwed
<1>2. PhaseIs(owed'[h], task'[h]) = PhaseIs(owed[h], task[h])
      \/ (PhaseIs(owed[h], task[h]) = "waiting" /\ PhaseIs(owed'[h], task'[h]) = "closing")
  BY <1>1 DEF GivenUp, PhaseIs, Waiting, Live
<1> QED BY <1>2, Phases

LEMMA ServiceWaiters ==
    ASSUME TypeOK, Owned, ServiceInv,
           \/ \E h \in Hook : MainAbort(h)
           \/ ArbiterSelect \/ ArbiterNothing \/ DispatchKeep \/ ArbiterExpired
           \/ ArbiterAlarm \/ CollectNext
    PROVE  [Service!Next]_(Service!vars)
<1>t. /\ task \in [Hook -> Task] /\ now \in Time /\ timerHook \in Hook /\ prioTask.hook \in Hook
  BY DEF TypeOK
<1>g. op' = op /\ owed' = owed
  BY DEF MainAbort, ArbiterSelect, ArbiterNothing, DispatchKeep, ArbiterExpired, ArbiterAlarm,
         CollectNext, radio
<1> SUFFICES ASSUME NEW h \in Hook PROVE GivenUp(task[h], task'[h])
  BY <1>g, ServiceTasks DEF ServiceInv
<1>1. ASSUME NEW g \in Hook, MainAbort(g) PROVE GivenUp(task[h], task'[h])
  BY <1>1, <1>t, AbortedSt DEF MainAbort, GivenUp, Waiting, Live, Task, State
<1>2. CASE ArbiterSelect \/ ArbiterNothing
  <2>1. PICK tk \in [Hook -> Task] : tk = Updated(task, now) /\ task' = Collected(tk, now)
    BY <1>2, <1>t, UpdatedType DEF ArbiterSelect, ArbiterNothing
  <2>2. (Waiting(tk[h]) <=> Waiting(task[h])) /\ (Live(tk[h]) <=> Live(task[h]))
    <3>1. /\ Waiting(Updated(task, now)[h]) <=> Waiting(task[h])
          /\ Live(Updated(task, now)[h]) <=> Live(task[h])
      BY <1>t, UpdatedLive
    <3> QED BY <2>1, <3>1 DEF Waiting, Live
  <2>3. task'[h] = tk[h] \/ (Waiting(tk[h]) /\ ~Live(task'[h]))
    <3>1. Collected(tk, now)[h] = tk[h] \/ (Waiting(tk[h]) /\ ~Live(Collected(tk, now)[h]))
      BY <2>1, <1>t, CollectedLive
    <3> QED BY <2>1, <3>1 DEF Waiting, Live
  <2> QED BY <2>2, <2>3 DEF GivenUp
<1>3. CASE DispatchKeep
  <2>1. prioTask.st = task[prioTask.hook].st /\ Live(prioTask)
    BY <1>3 DEF DispatchKeep, Owned, Exclusive, SelectionOK, ServiceInv, SelectionLive
  <2> QED BY <1>3, <2>1, <1>t, AbortedSt DEF DispatchKeep, GivenUp, Waiting, Live
<1>4. CASE ArbiterExpired
  <2>1. ~(haveTimer /\ task[timerHook].st = "running" /\ timerHook # prioTask.hook)
    BY <1>4 DEF Owned, Exclusive, TimerOK
  <2> QED BY <1>4, <2>1, <1>t
          DEF ArbiterExpired, Expired, Unselected, GivenUp, Waiting, Live, Task
<1>5. CASE ArbiterAlarm
  <2>1. task' = Collected(task, now)
    BY <1>5 DEF ArbiterAlarm
  <2> QED BY <2>1, <1>t, CollectedLive DEF GivenUp
<1>6. CASE CollectNext
  <2>1. PICK g \in Hook : task' = [task EXCEPT ![g] = Freed(@)] /\ task[g].st = "aborted"
    BY <1>6 DEF CollectNext, AbortedAfter
  <2> QED BY <2>1, <1>t DEF Freed, GivenUp, Waiting, Live, Task
<1> QED BY <1>1, <1>2, <1>3, <1>4, <1>5, <1>6

\* The user's callback: it answers a closed task, or one answered before.
LEMMA ServiceAnswer ==
    ASSUME TypeOK, ServiceInv, Callback
    PROVE  [Service!Next]_(Service!vars)
<1>t. task \in [Hook -> Task] /\ owed \in [Hook -> BOOLEAN] /\ Head(stk).hook \in Hook
  BY HeadHook DEF TypeOK, Callback, At, OfHook
<1>1. PICK g \in Hook : g = Head(stk).hook
  BY <1>t
<1>2. /\ owed' = [owed EXCEPT ![g] = FALSE] /\ task' = task /\ op' = op /\ ~Live(task[g])
  BY <1>1 DEF Callback, planner, radio, ServiceInv, CallbackClosed
<1>3. \A h \in Hook \ {g} : PhaseOf(h)' = PhaseOf(h)
  BY <1>2, <1>t, Phases
<1>4. PhaseOf(g)' = "idle"
  BY <1>2, <1>t, Phases DEF PhaseIs
<1>5. CASE owed[g]
  <2>1. PhaseOf(g) = "closing"
    BY <1>2, <1>5, Phases DEF PhaseIs, Live, Waiting
  <2>2. Service!Answer(g)
    BY <1>2, <1>3, <1>4, <2>1 DEF Service!Answer
  <2> QED BY <2>2 DEF Service!Next
<1>6. CASE ~owed[g]
  <2>1. PhaseOf(g) = "idle"
    BY <1>6, Phases DEF PhaseIs
  <2> QED BY <1>2, <1>3, <1>4, <2>1, Stutters
<1> QED BY <1>5, <1>6

\* Every step of the planner is a step of the service, or nothing its users can tell.
LEMMA ServiceRefined ==
    ASSUME TypeOK, Owned, ServiceInv, [Next]_vars
    PROVE  [Service!Next]_(Service!vars)
<1>1. ASSUME NEW h \in Hook, MainEnqueue(h) PROVE [Service!Next]_(Service!vars)
  <2>1. op' = op /\ \E r \in Requests[h] : Enqueue(h, r, <<>>)
    BY <1>1 DEF MainEnqueue, radio
  <2> QED BY <2>1, AsksFor
<1>2. CASE HandlerEnqueue
  <2>1. Head(stk).hook \in Hook
    BY <1>2, HeadHook DEF HandlerEnqueue, At, OfHook, TypeOK
  <2>2. PICK h \in Hook : \E r \in Requests[h] : Enqueue(h, r, Tail(stk))
    BY <1>2, <2>1, ChainedHook DEF HandlerEnqueue
  <2>3. op' = op
    BY <1>2 DEF HandlerEnqueue, radio
  <2> QED BY <2>2, <2>3, AsksFor
<1>3. CASE \/ DispatchPreempt \/ DispatchStart \/ LaunchRadio \/ IrqServe
  BY <1>3, ServiceAir
<1>4. CASE \/ \E h \in Hook : MainAbort(h)
          \/ ArbiterSelect \/ ArbiterNothing \/ DispatchKeep \/ ArbiterExpired
          \/ ArbiterAlarm \/ CollectNext
  BY <1>4, ServiceWaiters
<1>5. CASE Callback
  BY <1>5, ServiceAnswer
<1>6. CASE \/ LaunchListen \/ ListenDone \/ CollectEnd \/ HandlerReturn \/ SectionEnd
          \/ IrqIgnore \/ IrqIdle \/ IrqCollect \/ IrqEnd
          \/ Tick \/ RadioDone \/ RadioInterrupt \/ TimerInterrupt \/ InterruptReturn
          \/ UNCHANGED vars
  <2>1. task' = task /\ owed' = owed /\ op' \in {op, None}
    BY <1>6 DEF LaunchListen, Sleep, ListenDone, CollectEnd, HandlerReturn, SectionEnd, IrqIgnore, IrqIdle,
         IrqCollect, IrqEnd, Tick, RadioDone, RadioInterrupt, TimerInterrupt, InterruptReturn,
         vars, planner, radio
  <2>2. \A h \in Hook : PhaseOf(h)' = PhaseOf(h)
    BY <2>1, Phases
  <2> QED BY <2>1, <2>2, Stutters
<1> QED BY <1>1, <1>2, <1>3, <1>4, <1>5, <1>6 DEF Next, Processor, Step

LEMMA ServiceInit ==
    ASSUME Init
    PROVE  ServiceInv /\ Service!Init
<1>1. ServiceInv
  BY DEF Init, ServiceInv, LiveOwed, Live, SelectionLive, CallbackOnTop, CallbackClosed, At
<1>2. \A h \in Hook : PhaseOf(h) = "idle"
  BY DEF Init, PhaseOf
<1>3. Service!Init
  BY <1>2 DEF Init, Service!Init
<1> QED BY <1>1, <1>3

\* The refinement.  Until a handler has come into a call of the main loop, what the users of
\* the hooks see is what RadioService promises: each step of the planner, its arbiter, its
\* callbacks and its interrupt handlers is one of the steps a user may see, or none.
THEOREM ServicePromised == Spec => Promised
<1>1. Init => ServiceInv /\ Service!Init
  BY ServiceInit
<1>2. TypeOK /\ ExclusiveInv /\ (~preempted => ServiceInv) /\ [Next]_vars
      => (~preempted => ServiceInv)'
  BY Before, ServiceStep
<1>3. TypeOK /\ ExclusiveInv /\ (~preempted => ServiceInv) /\ [Next]_vars
      => [~preempted => Service!Next]_(Service!vars)
  BY ServiceRefined DEF ExclusiveInv, Owned
<1> QED BY <1>1, <1>2, <1>3, TypeCorrect, ExclusiveUse, PTL DEF Spec, Promised

-----------------------------------------------------------------------------
(* Tasks start on time *)

\* The signed difference of two times, and the next time, without a modulus.
Gap(a, b) == IF a >= b THEN a - b ELSE a - b + TimeWidth

LEMMA WidthType == TimeWidth \in Nat \ {0}
  BY PlannerAssumption

LEMMA Remainders ==
    /\ \A x \in Int : 0 <= x /\ x < TimeWidth => x % TimeWidth = x
    /\ \A x \in Int : -TimeWidth <= x /\ x < 0 => x % TimeWidth = x + TimeWidth
    /\ TimeWidth % TimeWidth = 0
<1>1. \A x \in Int : 0 <= x /\ x < TimeWidth => x % TimeWidth = x
  BY WidthType
<1>2. \A x \in Int : -TimeWidth <= x /\ x < 0 => x % TimeWidth = x + TimeWidth
  BY WidthType
<1>3. TimeWidth % TimeWidth = 0
  BY WidthType
<1> QED BY <1>1, <1>2, <1>3

LEMMA DiffIs ==
    ASSUME NEW a \in Time, NEW b \in Time
    PROVE  Diff(a, b) = IF 2 * Gap(a, b) < TimeWidth THEN Gap(a, b) ELSE Gap(a, b) - TimeWidth
<1>1. a - b \in Int /\ -TimeWidth <= a - b /\ a - b < TimeWidth /\ TimeWidth \in Nat \ {0}
  BY PlannerAssumption DEF Time
<1>2. (a - b) % TimeWidth = Gap(a, b)
  BY <1>1, Remainders DEF Gap, Time
<1> QED BY <1>2 DEF Diff

LEMMA NextTime ==
    ASSUME NEW b \in Time
    PROVE  Plus(b, 1) = IF b = TimeWidth - 1 THEN 0 ELSE b + 1
  BY Remainders, WidthType DEF Plus, Time

LEMMA DueNow ==
    ASSUME NEW a \in Time, NEW b \in Time, Diff(a, b) = 0
    PROVE  a = b
  BY DiffIs, PlannerAssumption DEF Gap, Time

LEMMA NotYetPast ==
    ASSUME NEW a \in Time, NEW b \in Time, Diff(a, b) > 0
    PROVE  Diff(a, Plus(b, 1)) >= 0
<1>1. Plus(b, 1) \in Time
  BY NextTime, PlannerAssumption DEF Time
<1>2. CASE b = TimeWidth - 1
  <2>1. Plus(b, 1) = 0
    BY <1>2, NextTime
  <2>2. Diff(a, b) = IF 2 * Gap(a, b) < TimeWidth THEN Gap(a, b) ELSE Gap(a, b) - TimeWidth
    BY DiffIs
  <2>3. Diff(a, 0) = IF 2 * Gap(a, 0) < TimeWidth THEN Gap(a, 0) ELSE Gap(a, 0) - TimeWidth
    BY <1>1, <2>1, DiffIs
  <2> QED BY <1>2, <2>1, <2>2, <2>3, PlannerAssumption DEF Gap, Time
<1>3. CASE b # TimeWidth - 1
  <2>1. Plus(b, 1) = b + 1
    BY <1>3, NextTime
  <2>2. Diff(a, b) = IF 2 * Gap(a, b) < TimeWidth THEN Gap(a, b) ELSE Gap(a, b) - TimeWidth
    BY DiffIs
  <2>3. Diff(a, b + 1) = IF 2 * Gap(a, b + 1) < TimeWidth THEN Gap(a, b + 1)
                         ELSE Gap(a, b + 1) - TimeWidth
    BY <1>1, <2>1, DiffIs
  <2> QED BY <1>3, <2>1, <2>2, <2>3, PlannerAssumption DEF Gap, Time
<1> QED BY <1>2, <1>3

\* What is selected is the start of a task as it is, at the time of the selection; and a launch
\* waits from before that start.
SelectionNow == At("dispatch") => /\ Head(stk).at = now
                                  /\ prioTask.start = task[prioTask.hook].start
LaunchEarly  == At("launch") => Diff(task[Head(stk).hook].start, now) >= 0
TimingInv    == SelectionNow /\ LaunchEarly

LEMMA TimingStep ==
    ASSUME TypeOK, Owned, TimingInv, [Next]_vars, ~preempted'
    PROVE  TimingInv'
<1>t. task \in [Hook -> Task] /\ now \in Time /\ radioTask \in Hook /\ prioTask.hook \in Hook
      /\ stk \in Seq(Frame)
  BY DEF TypeOK
<1>a. TopOnly /\ LaunchOK
  BY DEF Owned, Exclusive
<1>1. SelectionNow'
  <2> SUFFICES ASSUME At("dispatch")' PROVE SelectionNow'
    BY DEF SelectionNow
  <2>1. ArbiterSelect \/ (At("dispatch") /\ (Tick \/ RadioDone \/ UNCHANGED vars))
    BY <1>a, PassingFrom DEF Passing
  <2>2. CASE ArbiterSelect
    <3>1. /\ stk' = <<Fr("dispatch", None, now)>> \o Tail(stk)
          /\ prioTask'.start = task'[prioTask'.hook].start /\ now' = now
      BY <2>2 DEF ArbiterSelect, Goto
    <3>2. Head(stk') = Fr("dispatch", None, now)
      BY <3>1, <1>t
    <3> QED BY <3>1, <3>2 DEF SelectionNow, Fr
  <2>3. CASE At("dispatch") /\ Tick
    BY <2>3 DEF Tick, BusyWait, At
  <2>4. CASE At("dispatch") /\ (RadioDone \/ UNCHANGED vars)
    BY <2>4 DEF RadioDone, vars, planner, TimingInv, SelectionNow, At
  <2> QED BY <2>1, <2>2, <2>3, <2>4
<1>2. LaunchEarly'
  <2> SUFFICES ASSUME At("launch")' PROVE LaunchEarly'
    BY DEF LaunchEarly
  <2>1. \/ DispatchPreempt \/ DispatchStart
        \/ At("launch") /\ (Tick \/ RadioDone \/ UNCHANGED vars)
    BY <1>a, PassingFrom DEF Passing
  <2>2. CASE DispatchPreempt \/ DispatchStart
    <3>1. /\ Diff(task[prioTask.hook].start, now) \in 0 .. Margin /\ now' = now
          /\ stk' = <<Fr("launch", prioTask.hook, now), ExpiredFrame>> \o Tail(stk)
      BY <2>2 DEF DispatchPreempt, DispatchStart, DispatchNow, Delay, TimingInv, SelectionNow, Call
    <3>2. task'[prioTask.hook].start = task[prioTask.hook].start
      BY <2>2, <1>t DEF DispatchPreempt, DispatchStart, HandedOver, Task
    <3>3. Head(stk') = Fr("launch", prioTask.hook, now)
      BY <3>1, <1>t
    <3> QED BY <3>1, <3>2, <3>3, PlannerAssumption DEF LaunchEarly, Fr
  <2>3. CASE At("launch") /\ Tick
    <3>1. /\ Diff(task[Head(stk).hook].start, now) > 0
          /\ now' = Plus(now, 1) /\ UNCHANGED <<task, stk>>
      BY <2>3 DEF Tick, BusyWait, At, planner
    <3>2. Head(stk).hook \in Hook
      BY <2>3, <1>t, HeadHook DEF At, OfHook
    <3>3. task[Head(stk).hook].start \in Time
      BY <3>2, <1>t DEF Task
    <3> QED BY <3>1, <3>3, <1>t, NotYetPast DEF LaunchEarly
  <2>4. CASE At("launch") /\ (RadioDone \/ UNCHANGED vars)
    BY <2>4 DEF RadioDone, vars, planner, TimingInv, LaunchEarly, At
  <2> QED BY <2>1, <2>2, <2>3, <2>4
<1> QED BY <1>1, <1>2 DEF TimingInv

LEMMA StartStep ==
    ASSUME TypeOK, Owned, TimingInv, [Next]_vars, NEW h \in Hook, op # h, op' = h
    PROVE  now = task[h].start
<1>n. None \notin Hook
  BY PlannerAssumption
<1>1. LaunchRadio
  BY <1>n DEF Next, Processor, Step, vars, radio, Sleep, MainEnqueue, MainAbort, ArbiterSelect,
         ArbiterNothing, DispatchKeep, DispatchPreempt, DispatchStart, ArbiterExpired,
         ArbiterAlarm, LaunchListen, ListenDone, CollectNext, CollectEnd, Callback,
         HandlerEnqueue, HandlerReturn, SectionEnd, IrqIgnore, IrqServe, IrqIdle, IrqCollect, IrqEnd, Tick,
         RadioDone, RadioInterrupt, TimerInterrupt, InterruptReturn
<1>2. At("launch") /\ h = Head(stk).hook /\ Diff(task[h].start, now) <= 0
  BY <1>1 DEF LaunchRadio
<1>3. task[h].start \in Time /\ now \in Time
  BY DEF TypeOK, Task
<1>4. Diff(task[h].start, now) >= 0
  BY <1>2 DEF TimingInv, LaunchEarly
<1>5. Diff(task[h].start, now) = 0
  <2>1. Diff(task[h].start, now) \in Int
    BY <1>3, DiffType, TimeInt
  <2> QED BY <1>2, <1>4, <2>1
<1> QED BY <1>3, <1>5, DueNow

\* Until a handler has come into a call of the main loop, a transmission or a reception
\* starts at the very time its task asked for: nothing delays a launch past its start, also
\* where the clock wraps.
THEOREM OnTime == Spec => StartsOnTime
<1>1. Init => TimingInv
  BY DEF Init, TimingInv, SelectionNow, LaunchEarly, At
<1>2. TypeOK /\ ExclusiveInv /\ (~preempted => TimingInv) /\ [Next]_vars
      => (~preempted => TimingInv)'
  BY Before, TimingStep
<1>3. TypeOK /\ ExclusiveInv /\ (~preempted => TimingInv) /\ [Next]_vars
      => [~preempted => \A h \in Hook : op # h /\ op' = h => now = task[h].start]_vars
  BY StartStep DEF ExclusiveInv, Owned
<1> QED BY <1>1, <1>2, <1>3, TypeCorrect, ExclusiveUse, PTL DEF Spec, StartsOnTime

-----------------------------------------------------------------------------
(* Every accepted task is answered once *)

AnswerNow(h) == At("callback") /\ Head(stk).hook = h

LEMMA TopCallback ==
    ASSUME NEW s \in Seq(Frame), s # <<>> => NoCallback(Tail(s)), NEW h
    PROVE  (\E i \in DOMAIN s : s[i].pc = "callback" /\ s[i].hook = h)
           <=> (s # <<>> /\ Head(s).pc = "callback" /\ Head(s).hook = h)
<1>1. ASSUME NEW i \in DOMAIN s, s[i].pc = "callback", s[i].hook = h
      PROVE  s # <<>> /\ Head(s).pc = "callback" /\ Head(s).hook = h
  <2>1. i = 1
    <3> SUFFICES ASSUME i # 1 PROVE FALSE
      OBVIOUS
    <3>1. i - 1 \in DOMAIN Tail(s) /\ Tail(s)[i - 1] = s[i] /\ s # <<>>
      BY <1>1
    <3> QED BY <1>1, <3>1 DEF NoCallback
  <2> QED BY <1>1, <2>1
<1>2. ASSUME s # <<>>, Head(s).pc = "callback", Head(s).hook = h
      PROVE  \E i \in DOMAIN s : s[i].pc = "callback" /\ s[i].hook = h
  <2>1. 1 \in DOMAIN s /\ s[1] = Head(s)
    BY <1>2
  <2> QED BY <1>2, <2>1
<1> QED BY <1>1, <1>2

\* A user that is owed an answer has a task, or is about to be answered; and the converse.
Kept      == \A h \in Hook : owed[h] => task[h].st # "finished" \/ AnswerNow(h)
Due       == \A h \in Hook : task[h].st # "finished" \/ AnswerNow(h) => owed[h]
Cleared   == \A h \in Hook : AnswerNow(h) => task[h].st = "finished"

\* What a step can do to the task of a hook and to what its user is owed: nothing that matters
\* here, accept a task, end it to call back, call back, or abort again a task that is over.
NothingOwed(h) == /\ owed'[h] = owed[h] /\ (AnswerNow(h)' <=> AnswerNow(h))
                  /\ task'[h].st = "finished" <=> task[h].st = "finished"
Accepts(h)  == owed'[h] /\ task'[h].st # "finished" /\ ~AnswerNow(h)'
Ends(h)     == owed'[h] = owed[h] /\ task[h].st # "finished" /\ task'[h].st = "finished" /\ AnswerNow(h)'
Answers(h)  == ~owed'[h] /\ task'[h].st = "finished" /\ ~AnswerNow(h)'
ComesBack(h) ==
    /\ task[h].st = "finished" /\ task'[h].st = "aborted" /\ owed'[h] = owed[h]
    /\ ~AnswerNow(h)' /\ revived'

\* Steps that are not at a callback and do not come to one.
LEMMA OwedQuiet ==
    ASSUME TypeOK, Owned, ServiceInv, [Next]_vars,
           ~At("callback"), ~At("callback")', NEW h \in Hook
    PROVE  NothingOwed(h) \/ Accepts(h) \/ ComesBack(h)
<1>t. /\ task \in [Hook -> Task] /\ now \in Time /\ radioTask \in Hook /\ timerHook \in Hook
      /\ prioTask.hook \in Hook /\ stk \in Seq(Frame) /\ owed \in [Hook -> BOOLEAN]
  BY DEF TypeOK
<1>n. ~AnswerNow(h) /\ ~AnswerNow(h)'
  BY DEF AnswerNow
<1>u. task[h] \in Task
  BY <1>t
<1>same. ASSUME owed' = owed, task'[h].st = "finished" <=> task[h].st = "finished"
         PROVE  NothingOwed(h)
  BY <1>same, <1>n DEF NothingOwed
<1>e. ASSUME NEW g \in Hook, NEW r \in Requests[g], NEW rest, Enqueue(g, r, rest)
      PROVE  NothingOwed(h) \/ Accepts(h)
  <2>1. r.st # "finished"
    BY PlannerAssumption DEF Request
  <2>2. CASE task' = task /\ owed' = owed
    BY <2>2, <1>same
  <2>3. CASE g # h
    <3>1. task'[h] = task[h] /\ owed'[h] = owed[h]
      BY <1>e, <1>t, <2>3 DEF Enqueue
    <3> QED BY <3>1, <1>n DEF NothingOwed
  <2>4. CASE g = h /\ task[g].st # "running"
    <3>1. owed'[h] /\ task'[h].st = r.st
      BY <1>e, <1>t, <2>4 DEF Enqueue
    <3> QED BY <2>1, <3>1, <1>n DEF Accepts
  <2> QED BY <1>e, <2>2, <2>3, <2>4 DEF Enqueue
<1>1. ASSUME NEW g \in Hook, MainEnqueue(g) PROVE NothingOwed(h) \/ Accepts(h)
  BY <1>1, <1>e DEF MainEnqueue
<1>2. ASSUME NEW g \in Hook, MainAbort(g) PROVE NothingOwed(h)
  <2>1. Aborted(task[g]).st = "aborted"
    BY <1>t, AbortedSt
  <2> QED BY <1>2, <2>1, <1>t, <1>same DEF MainAbort
<1>c. ASSUME NEW tk \in [Hook -> Task], task' = Collected(tk, now), owed' = owed,
             tk[h].st = "finished" <=> task[h].st = "finished"
      PROVE  NothingOwed(h)
  <2>1. tk[h] \in Task
    OBVIOUS
  <2>2. task'[h].st = "finished" <=> tk[h].st = "finished"
    BY <1>c, <2>1, AbortedSt DEF Collected
  <2> QED BY <1>c, <2>2, <1>same
<1>3. CASE ArbiterSelect \/ ArbiterNothing
  <2>1. PICK tk \in [Hook -> Task] : tk = Updated(task, now) /\ task' = Collected(tk, now)
    BY <1>3, <1>t, UpdatedType DEF ArbiterSelect, ArbiterNothing
  <2>2. tk[h].st = "finished" <=> task[h].st = "finished"
    BY <2>1, <1>u DEF Updated, Task
  <2>3. owed' = owed
    BY <1>3 DEF ArbiterSelect, ArbiterNothing
  <2> QED BY <2>1, <2>2, <2>3, <1>c
<1>4. CASE ArbiterAlarm
  BY <1>4, <1>t, <1>c DEF ArbiterAlarm
<1>5. CASE DispatchKeep
  <2>1. task[prioTask.hook].st # "finished" /\ Aborted(task[prioTask.hook]).st = "aborted"
    BY <1>5, <1>t, AbortedSt DEF DispatchKeep, Owned, Exclusive, SelectionOK, ServiceInv, SelectionLive, Live
  <2> QED BY <1>5, <2>1, <1>t, <1>same DEF DispatchKeep
<1>6. CASE DispatchPreempt \/ DispatchStart
  <2>1. task[prioTask.hook].st # "finished" /\ owed' = owed
    BY <1>6 DEF DispatchPreempt, DispatchStart, DispatchNow, Owned, Exclusive, SelectionOK,
                ServiceInv, SelectionLive, Live
  <2>2. \/ task' = [task EXCEPT ![radioTask].st = "aborted", ![prioTask.hook].st = "running"]
           /\ task[radioTask].st = "running"
        \/ task' = [task EXCEPT ![prioTask.hook].st = "running"]
    BY <1>6 DEF DispatchPreempt, DispatchStart, HandedOver, Running
  <2>3. task'[h].st = "finished" <=> task[h].st = "finished"
    BY <2>1, <2>2, <1>t, <1>u DEF Task
  <2> QED BY <2>1, <2>3, <1>same
<1>7. CASE ArbiterExpired
  <2>1. owed' = owed
    BY <1>7 DEF ArbiterExpired
  <2>2. CASE task'[h].st = "finished" <=> task[h].st = "finished"
    BY <2>1, <2>2, <1>same
  <2>3. CASE ~(task'[h].st = "finished" <=> task[h].st = "finished")
    <3>1. task[h].st = "finished" /\ task'[h].st = "aborted" /\ h = timerHook
      BY <1>7, <2>3, <1>t, <1>u DEF ArbiterExpired, Task
    <3>2. revived'
      BY <1>7, <2>3, <3>1, <1>t DEF ArbiterExpired
    <3> QED BY <1>n, <2>1, <3>1, <3>2 DEF ComesBack
  <2> QED BY <2>2, <2>3
<1>8. CASE HandlerEnqueue
  <2>1. Head(stk).hook \in Hook
    BY <1>8, <1>t, HeadHook DEF HandlerEnqueue, At, OfHook
  <2>2. PICK g \in Hook : \E r \in Requests[g] : Enqueue(g, r, Tail(stk))
    BY <1>8, <2>1, ChainedHook DEF HandlerEnqueue
  <2> QED BY <2>2, <1>e
<1>9. CASE CollectNext \/ IrqServe
  <2>1. PICK f, g : Call(f, g) /\ f.pc = "callback"
    <3>1. \A k : Fr("callback", k, 0).pc = "callback"
      BY DEF Fr
    <3>2. \E k, g : Call(Fr("callback", k, 0), g)
      BY <1>9 DEF CollectNext, IrqServe
    <3> QED BY <3>1, <3>2
  <2>2. stk' = <<f, g>> \o Tail(stk) /\ stk' \in Seq(Frame)
    BY <2>1, StepType DEF Call, TypeOK
  <2>3. At("callback")'
    BY <2>1, <2>2, <1>t DEF At
  <2> QED BY <2>3
<1>10. CASE UNCHANGED <<task, owed>>
  BY <1>10, <1>same
<1> QED BY <1>1, <1>2, <1>3, <1>4, <1>5, <1>6, <1>7, <1>8, <1>9, <1>10
        DEF Next, Processor, Step, vars, planner, LaunchRadio, LaunchListen, ListenDone,
            CollectEnd, Callback, HandlerReturn, SectionEnd, IrqIgnore, IrqIdle, IrqCollect, IrqEnd,
            Tick, RadioDone, RadioInterrupt, TimerInterrupt, InterruptReturn

LEMMA OwedMove ==
    ASSUME TypeOK, Owned, ServiceInv, Cleared, [Next]_vars, ~preempted',
           NEW h \in Hook
    PROVE  NothingOwed(h) \/ Accepts(h) \/ Ends(h) \/ Answers(h) \/ ComesBack(h)
<1>t. /\ task \in [Hook -> Task] /\ stk \in Seq(Frame) /\ owed \in [Hook -> BOOLEAN]
  BY DEF TypeOK
<1>1. CASE At("callback")
  <2>1. Callback \/ UNCHANGED <<task, owed, stk>>
    BY <1>1 DEF Next, Processor, Step, vars, planner, MainEnqueue, MainAbort, MainIdle,
           ArbiterSelect, ArbiterNothing, DispatchKeep, DispatchPreempt, DispatchStart, DispatchNow,
           ArbiterExpired, ArbiterAlarm, LaunchRadio, LaunchListen, ListenDone, CollectNext,
           CollectEnd, HandlerEnqueue, HandlerReturn, SectionEnd, IrqIgnore, IrqServe, IrqIdle,
           IrqCollect, IrqEnd, Tick, RadioDone, RadioInterrupt, TimerInterrupt, InterruptReturn,
           BusyWait, At
  <2>2. CASE UNCHANGED <<task, owed, stk>>
    BY <2>2 DEF NothingOwed, AnswerNow, At
  <2>3. CASE Callback
    <3>1. /\ owed' = [owed EXCEPT ![Head(stk).hook] = FALSE] /\ task' = task
          /\ Goto([Head(stk) EXCEPT !.pc = "handler"])
      BY <2>3 DEF Callback, planner
    <3>2. Head(stk').pc = "handler"
      BY <3>1, <1>1, <1>t, StackType DEF Goto, At, Frame
    <3>3. ~AnswerNow(h)'
      BY <3>2 DEF AnswerNow, At
    <3>4. CASE h = Head(stk).hook
      BY <1>1, <3>1, <3>3, <3>4, <1>t DEF Answers, Cleared, AnswerNow
    <3>5. CASE h # Head(stk).hook
      BY <3>1, <3>3, <3>5, <1>t DEF NothingOwed, AnswerNow
    <3> QED BY <3>4, <3>5
  <2> QED BY <2>1, <2>2, <2>3
<1>2. CASE ~At("callback") /\ At("callback")'
  <2>1. PICK f, g \in Frame : stk # <<>> /\ Call(f, g) /\ f.pc = "callback"
    <3>1. stk' # stk
      BY <1>2 DEF At
    <3> QED BY <1>2, <3>1, StackMoves, CallbackAfter DEF ServiceInv
  <2>2. /\ task[f.hook].st # "finished" /\ task'[f.hook].st = "finished"
        /\ \A k \in Hook \ {f.hook} : task'[k] = task[k]
        /\ f.hook \in Hook /\ owed' = owed
    BY <2>1, CallbackFreed
  <2>3. AnswerNow(h)' <=> h = f.hook
    <3>1. Head(stk') = f
      BY <2>1, <1>t, StackType DEF Call
    <3> QED BY <1>2, <3>1 DEF AnswerNow
  <2>4. ~AnswerNow(h)
    BY <1>2 DEF AnswerNow
  <2>5. CASE h = f.hook
    BY <2>2, <2>3, <2>5 DEF Ends
  <2>6. CASE h # f.hook
    BY <2>2, <2>3, <2>4, <2>6 DEF NothingOwed
  <2> QED BY <2>5, <2>6
<1>3. CASE ~At("callback") /\ ~At("callback")'
  BY <1>3, OwedQuiet
<1> QED BY <1>1, <1>2, <1>3

LEMMA ClearedStep ==
    ASSUME TypeOK, Owned, ServiceInv, Cleared, [Next]_vars, ~preempted'
    PROVE  Cleared'
<1> SUFFICES ASSUME NEW h \in Hook, AnswerNow(h)' PROVE task'[h].st = "finished"
  BY DEF Cleared
<1>1. NothingOwed(h) \/ Ends(h)
  BY OwedMove DEF Accepts, Answers, ComesBack
<1> QED BY <1>1 DEF NothingOwed, Ends, Cleared

LEMMA KeptStep ==
    ASSUME TypeOK, Owned, ServiceInv, Cleared, Kept, [Next]_vars, ~preempted'
    PROVE  Kept'
<1> SUFFICES ASSUME NEW h \in Hook, owed'[h] PROVE task'[h].st # "finished" \/ AnswerNow(h)'
  BY DEF Kept
<1> QED BY OwedMove DEF Kept, NothingOwed, Accepts, Ends, Answers, ComesBack

\* The converse, until the arbiter takes a free slot for an expired task.
LEMMA DueStep ==
    ASSUME TypeOK, Owned, ServiceInv, Cleared, Due, [Next]_vars, ~preempted', ~revived'
    PROVE  Due'
<1> SUFFICES ASSUME NEW h \in Hook, task'[h].st # "finished" \/ AnswerNow(h)' PROVE owed'[h]
  BY DEF Due
<1> QED BY OwedMove DEF Due, NothingOwed, Accepts, Ends, Answers, ComesBack

LEMMA StillFree == ASSUME TypeOK, [Next]_vars, ~revived' PROVE ~revived
<1>1. CASE ArbiterExpired
  BY <1>1 DEF ArbiterExpired, TypeOK
<1>2. CASE ~ArbiterExpired
  <2>1. revived' = revived
    BY <1>2 DEF Next, Processor, Step, vars, context, MainEnqueue, MainAbort, ArbiterSelect,
                ArbiterNothing, DispatchKeep, DispatchPreempt, DispatchStart, ArbiterAlarm,
                LaunchRadio, LaunchListen, ListenDone, CollectNext, CollectEnd, Callback,
                HandlerEnqueue, HandlerReturn, SectionEnd, IrqIgnore, IrqServe, IrqIdle,
                IrqCollect, IrqEnd, Tick, RadioDone, RadioInterrupt, TimerInterrupt,
                InterruptReturn
  <2> QED BY <2>1
<1> QED BY <1>1, <1>2

\* Until a handler has come into a call of the main loop, a callback is owed exactly as long
\* as the task is in the table or its callback is about to be made: no accepted task is
\* dropped, whichever hooks overwrite, preempt, abort or end it; and no user is called back
\* for nothing, until the arbiter takes the start of a free slot, 0, for that of a task just
\* missed (radio_planner.c, rp_task_arbiter), which it does before the clock's wrap only.
LEMMA OwedAlways == Spec => [](~preempted => NotDropped /\ (~revived => NotForNought))
<1> DEFINE Inv == ~preempted => ServiceInv /\ Cleared /\ Kept /\ (~revived => Due)
<1>1. Init => Inv
  <2> SUFFICES ASSUME Init PROVE ServiceInv /\ Cleared /\ Kept /\ Due
    OBVIOUS
  <2>1. stk = <<>> /\ \A h \in Hook : task[h].st = "finished" /\ ~owed[h]
    BY DEF Init
  <2> QED BY <2>1, ServiceInit DEF Cleared, Kept, Due, AnswerNow, At
<1>2. TypeOK /\ ExclusiveInv /\ Inv /\ [Next]_vars => Inv'
  BY Before, StillFree, ServiceStep, ClearedStep, KeptStep, DueStep
<1>3. TypeOK /\ Inv => (~preempted => NotDropped /\ (~revived => NotForNought))
  <2> SUFFICES ASSUME TypeOK, CallbackOnTop, Kept, NEW h \in Hook
               PROVE  /\ owed[h] => InHand(h)
                      /\ Due => (InHand(h) => owed[h])
    BY DEF ServiceInv, NotDropped, NotForNought
  <2>1. stk \in Seq(Frame) /\ (stk # <<>> => NoCallback(Tail(stk)))
    BY DEF TypeOK, CallbackOnTop
  <2>2. Answering(h) <=> AnswerNow(h)
    BY <2>1, TopCallback DEF Answering, AnswerNow, At
  <2> QED BY <2>2 DEF Kept, Due, InHand
<1> HIDE DEF Inv
<1> QED BY <1>1, <1>2, <1>3, TypeCorrect, ExclusiveUse, PTL DEF Spec

\* Until a handler has come into a call of the main loop, a callback is owed exactly as long
\* as the task is in the table or its callback is about to be made (rp_hook_callback); a
\* free slot that has passed for an expired task excuses callbacks for nothing, never the
\* loss of one.
THEOREM AnsweredOnce == Spec => []OwedOnce
<1>1. (~preempted => NotDropped /\ (~revived => NotForNought)) => OwedOnce
  BY DEF OwedOnce
<1> QED BY <1>1, OwedAlways, PTL

-----------------------------------------------------------------------------
(* The clock, before it wraps *)

\* The times in the frames of the stack are times of the clock, which has not wrapped.
Early   == now <= Horizon /\ \A i \in DOMAIN stk : stk[i].at <= Horizon

LEMMA EarlyStep ==
    ASSUME Horizon < TimeWidth, TypeOK, Early, [Next]_vars, ~preempted'
    PROVE  Early'
<1>t. stk \in Seq(Frame) /\ now \in Time /\ Horizon \in Nat /\ TimeWidth \in Nat
  BY PlannerAssumption DEF TypeOK
<1>1. now' <= Horizon
  <2>1. CASE Tick
    <3>1. now < Horizon /\ now' = Plus(now, 1)
      BY <2>1, <1>t DEF Tick, Early, Time
    <3> QED BY <3>1, <1>t, NextTime DEF Time
  <2>2. CASE UNCHANGED now
    BY <2>2 DEF Early
  <2> QED BY <2>1, <2>2
       DEF Next, Processor, Step, vars, MainEnqueue, MainAbort, ArbiterSelect,
         ArbiterNothing, DispatchKeep, DispatchPreempt, DispatchStart, ArbiterExpired,
         ArbiterAlarm, LaunchRadio, LaunchListen, ListenDone, CollectNext, CollectEnd, Callback,
         HandlerEnqueue, HandlerReturn, SectionEnd, IrqIgnore, IrqServe, IrqIdle, IrqCollect, IrqEnd,
         RadioDone, RadioInterrupt, TimerInterrupt, InterruptReturn
<1>s. ASSUME stk # <<>> PROVE \A x \in Stamps : x <= Horizon
  <2>1. 1 \in DOMAIN stk /\ Head(stk) = stk[1]
    BY <1>s, <1>t
  <2> QED BY <2>1, <1>t DEF Early, Stamps
<1>2. \A i \in DOMAIN stk' : stk'[i].at <= Horizon
  <2>1. CASE UNCHANGED stk
    BY <2>1 DEF Early
  <2>2. CASE stk = <<>> /\ \E f \in {ArbiterFrame, IrqFrame}, g \in {UnmaskFrame, RetiFrame} :
                              stk' = <<f, g>>
    <3>1. ArbiterFrame.at = 0 /\ IrqFrame.at = 0 /\ RetiFrame.at = 0 /\ UnmaskFrame.at = 0
      BY DEF ArbiterFrame, IrqFrame, RetiFrame, UnmaskFrame, Fr
    <3> QED BY <2>2, <3>1, <1>t
  <2>3. CASE stk # <<>> /\ Return
    BY <2>3, <1>t DEF Return, Early
  <2>4. CASE stk # <<>> /\ \E f \in Frame : Goto(f) /\ f.at \in Stamps
    <3>1. PICK f \in Frame : stk' = <<f>> \o Tail(stk) /\ f.at <= Horizon
      BY <2>4, <1>s DEF Goto
    <3> SUFFICES ASSUME NEW i \in DOMAIN stk' PROVE stk'[i].at <= Horizon
      OBVIOUS
    <3>2. Tail(stk) \in Seq(Frame) /\ \A j \in DOMAIN Tail(stk) : Tail(stk)[j] = stk[j + 1] /\ j + 1 \in DOMAIN stk
      BY <2>4, <1>t
    <3>3. stk'[i] = f \/ (i - 1 \in DOMAIN Tail(stk) /\ stk'[i] = Tail(stk)[i - 1])
      BY <3>1, <3>2
    <3> QED BY <3>1, <3>2, <3>3 DEF Early
  <2>5. CASE stk # <<>> /\ \E f, g \in Frame : Call(f, g) /\ {f.at, g.at} \subseteq Stamps
    <3>1. PICK f, g \in Frame : stk' = <<f, g>> \o Tail(stk) /\ f.at <= Horizon /\ g.at <= Horizon
      BY <2>5, <1>s DEF Call
    <3> SUFFICES ASSUME NEW i \in DOMAIN stk' PROVE stk'[i].at <= Horizon
      OBVIOUS
    <3>2. Tail(stk) \in Seq(Frame) /\ \A j \in DOMAIN Tail(stk) : Tail(stk)[j] = stk[j + 1] /\ j + 1 \in DOMAIN stk
      BY <2>5, <1>t
    <3>3. \/ stk'[i] = f \/ stk'[i] = g
          \/ i - 2 \in DOMAIN Tail(stk) /\ stk'[i] = Tail(stk)[i - 2]
      BY <3>1, <3>2
    <3> QED BY <3>1, <3>2, <3>3 DEF Early
  <2> QED BY <2>1, <2>2, <2>3, <2>4, <2>5, StackMoves DEF StackMove
<1> QED BY <1>1, <1>2 DEF Early

-----------------------------------------------------------------------------
(* A processor that sleeps has forgotten nothing *)

\* The frames from which the arbiter, or the end of one, is still to come; those from which it
\* comes anew; those of an arbiter that has already selected.
Settling == {"arbiter", "dispatch", "expired", "alarm", "irqdone", "irqend", "collect"}
Anew     == {"arbiter", "irqdone", "irqend"}
Under    == {"dispatch", "expired", "alarm"}

Standing(P)   == {f \in Frame : f.pc \in P}
OnStack(s, F) == \E i \in DOMAIN s : s[i] \in F
OnCall(P)     == OnStack(stk, Standing(P))

LEMMA Stacked ==
    ASSUME NEW s \in Seq(Frame), NEW F
    PROVE  /\ \A f \in Frame : OnStack(<<f>> \o s, F) <=> f \in F \/ OnStack(s, F)
           /\ \A f, g \in Frame : OnStack(<<f, g>> \o s, F) <=> f \in F \/ g \in F \/ OnStack(s, F)
<1>1. ASSUME NEW f \in Frame PROVE OnStack(<<f>> \o s, F) <=> f \in F \/ OnStack(s, F)
  <2> DEFINE u == <<f>> \o s
  <2>1. /\ u \in Seq(Frame) /\ 1 \in DOMAIN u /\ u[1] = f
        /\ \A i \in DOMAIN s : i + 1 \in DOMAIN u /\ u[i + 1] = s[i]
        /\ \A i \in DOMAIN u : i = 1 \/ (i - 1 \in DOMAIN s /\ u[i] = s[i - 1])
    OBVIOUS
  <2> HIDE DEF u
  <2>2. OnStack(u, F) <=> f \in F \/ OnStack(s, F)
    BY <2>1 DEF OnStack
  <2> QED BY <2>2 DEF u
<1>2. ASSUME NEW f \in Frame, NEW g \in Frame
      PROVE  OnStack(<<f, g>> \o s, F) <=> f \in F \/ g \in F \/ OnStack(s, F)
  <2> DEFINE u == <<f, g>> \o s
  <2>1. /\ u \in Seq(Frame) /\ 1 \in DOMAIN u /\ u[1] = f /\ 2 \in DOMAIN u /\ u[2] = g
        /\ \A i \in DOMAIN s : i + 2 \in DOMAIN u /\ u[i + 2] = s[i]
        /\ \A i \in DOMAIN u : i = 1 \/ i = 2 \/ (i - 2 \in DOMAIN s /\ u[i] = s[i - 2])
    OBVIOUS
  <2> HIDE DEF u
  <2>2. OnStack(u, F) <=> f \in F \/ g \in F \/ OnStack(s, F)
    BY <2>1 DEF OnStack
  <2> QED BY <2>2 DEF u
<1> QED BY <1>1, <1>2

LEMMA TopStacked ==
    ASSUME NEW s \in Seq(Frame), s # <<>>, NEW F
    PROVE  OnStack(s, F) <=> Head(s) \in F \/ OnStack(Tail(s), F)
<1>1. s = <<Head(s)>> \o Tail(s) /\ Head(s) \in Frame /\ Tail(s) \in Seq(Frame)
  OBVIOUS
<1>2. OnStack(<<Head(s)>> \o Tail(s), F) <=> Head(s) \in F \/ OnStack(Tail(s), F)
  BY <1>1, Stacked
<1> QED BY <1>1, <1>2

LEMMA EmptyStacked == ASSUME NEW F PROVE ~OnStack(<<>>, F)
  BY DEF OnStack

\* While the planner serves an interrupt of the radio, the call of the arbiter at its end is
\* still to come.
Served == semRadio => OnCall({"irqdone", "irqend"})

\* A step that leaves the tasks and the timer as they are, and what is in hand of the arbiter.
PlainStep ==
    /\ UNCHANGED <<task, radioTask, alarm, now>>
    /\ \A F \in SUBSET Standing(Settling) : OnStack(stk', F) <=> OnStack(stk, F)

LEMMA PlainMove ==
    ASSUME stk \in Seq(Frame), stk # <<>>, Head(stk).pc \notin Settling,
           Return \/ \E f \in Frame : f.pc \notin Settling /\ Goto(f)
    PROVE  \A F \in SUBSET Standing(Settling) : OnStack(stk', F) <=> OnStack(stk, F)
<1> SUFFICES ASSUME NEW F \in SUBSET Standing(Settling) PROVE OnStack(stk', F) <=> OnStack(stk, F)
  OBVIOUS
<1>1. OnStack(stk, F) <=> OnStack(Tail(stk), F)
  BY TopStacked DEF Standing
<1>2. CASE Return
  BY <1>1, <1>2 DEF Return
<1>3. CASE \E f \in Frame : f.pc \notin Settling /\ Goto(f)
  <2>1. PICK f \in Frame : f.pc \notin Settling /\ stk' = <<f>> \o Tail(stk)
    BY <1>3 DEF Goto
  <2>2. f \notin F /\ Tail(stk) \in Seq(Frame)
    BY <2>1 DEF Standing
  <2> QED BY <1>1, <2>1, <2>2, Stacked
<1> QED BY <1>2, <1>3

\* The frames in which the arbiter is called.
LEMMA AnewFrames ==
    /\ ArbiterFrame \in Standing(Anew)
    /\ Fr("irqdone", None, 0) \in Standing(Anew) /\ Fr("irqend", None, 0) \in Standing(Anew)
    /\ Fr("irqdone", None, 0) \in Standing({"irqdone", "irqend"})
    /\ Fr("irqend", None, 0) \in Standing({"irqdone", "irqend"})
  BY PlainFrames DEF Standing, Anew, ArbiterFrame, Fr

LEMMA EnqueueAnew ==
    ASSUME Served, NEW h, NEW r, NEW rest \in Seq(Frame), Enqueue(h, r, rest),
           OnStack(stk, Standing({"irqdone", "irqend"})) => OnStack(rest, Standing({"irqdone", "irqend"}))
    PROVE  OnCall(Anew)' \/ (stk' = rest /\ task' = task)
<1>1. CASE task[h].st = "running"
  BY <1>1 DEF Enqueue, EmptySection
<1>2. CASE task[h].st # "running" /\ semRadio
  <2>1. stk' = rest /\ OnStack(rest, Standing({"irqdone", "irqend"}))
    BY <1>2 DEF Enqueue, EmptySection, Served, OnCall
  <2> QED BY <2>1 DEF OnCall, OnStack, Standing, Anew
<1>3. CASE task[h].st # "running" /\ ~semRadio
  <2>1. stk' = <<ArbiterFrame, UnmaskFrame>> \o rest
    BY <1>3 DEF Enqueue, InSection
  <2>2. OnStack(stk', Standing(Anew))
    BY <2>1, Stacked, AnewFrames, PlainFrames
  <2> QED BY <2>2 DEF OnCall
<1> QED BY <1>1, <1>2, <1>3

LEMMA ServedStep ==
    ASSUME TypeOK, Served, [Next]_vars, ~preempted'
    PROVE  Served'
<1> DEFINE F == Standing({"irqdone", "irqend"})
<1>t. stk \in Seq(Frame) /\ stk' \in Seq(Frame)
  BY StepType DEF TypeOK
<1>1. CASE IrqServe
  <2>1. /\ stk' = <<Fr("callback", radioTask, 0), Fr("irqdone", None, 0)>> \o Tail(stk) /\ stk # <<>>
        /\ Fr("callback", radioTask, 0) \in Frame
    BY <1>1, HookFrames DEF IrqServe, Call, At, TypeOK
  <2>2. OnStack(stk', F)
    BY <2>1, <1>t, AnewFrames, PlainFrames, Stacked, StackType
  <2> QED BY <2>2 DEF Served, OnCall
<1>2. CASE IrqEnd
  BY <1>2 DEF IrqEnd, Served
<1>3. CASE IrqCollect
  <2>1. stk' = <<CollectFrame, Fr("irqend", None, 0)>> \o Tail(stk) /\ stk # <<>>
    BY <1>3 DEF IrqCollect, Call, At
  <2>2. OnStack(stk', F)
    BY <2>1, <1>t, AnewFrames, PlainFrames, Stacked, StackType
  <2> QED BY <2>2 DEF Served, OnCall
<1>4. CASE ~IrqServe /\ ~IrqEnd /\ ~IrqCollect
  <2>1. semRadio' = semRadio
    BY <1>4 DEF Next, Processor, Step, vars, planner, MainEnqueue, MainAbort, ArbiterSelect,
         ArbiterNothing, DispatchKeep, DispatchPreempt, DispatchStart, ArbiterExpired,
         ArbiterAlarm, LaunchRadio, LaunchListen, ListenDone, CollectNext, CollectEnd, Callback,
         HandlerEnqueue, HandlerReturn, SectionEnd, IrqIgnore, IrqIdle, Tick,
         RadioDone, RadioInterrupt, TimerInterrupt, InterruptReturn
  <2>2. stk = <<>> \/ Head(stk).pc \notin {"irqdone", "irqend"} \/ UNCHANGED stk
    BY <1>4 DEF Next, Processor, Step, vars, planner, MainEnqueue, MainAbort, MainIdle, ArbiterSelect,
         ArbiterNothing, DispatchKeep, DispatchPreempt, DispatchStart, DispatchNow, ArbiterExpired,
         ArbiterAlarm, LaunchRadio, LaunchListen, ListenDone, CollectNext, CollectEnd, Callback,
         HandlerEnqueue, HandlerReturn, SectionEnd, IrqIgnore, IrqIdle, Tick, At,
         RadioDone, RadioInterrupt, TimerInterrupt, InterruptReturn
  <2> SUFFICES ASSUME OnStack(stk, F) PROVE OnStack(stk', F)
    BY <2>1 DEF Served, OnCall
  <2>3. CASE UNCHANGED stk
    BY <2>3
  <2>4. CASE stk # <<>> /\ Head(stk).pc \notin {"irqdone", "irqend"}
    <3>1. OnStack(Tail(stk), F)
      BY <2>4, <1>t, TopStacked DEF Standing
    <3>2. \/ stk' = Tail(stk) \/ UNCHANGED stk
          \/ \E f \in Frame : stk' = <<f>> \o Tail(stk)
          \/ \E f, g \in Frame : stk' = <<f, g>> \o Tail(stk)
      BY <2>4, StackMoves DEF StackMove, Return, Goto, Call
    <3>3. Tail(stk) \in Seq(Frame)
      BY <2>4, <1>t
    <3> HIDE DEF F
    <3>4. \A f \in Frame : OnStack(<<f>> \o Tail(stk), F)
      BY <3>1, <3>3, Stacked
    <3>5. \A f, g \in Frame : OnStack(<<f, g>> \o Tail(stk), F)
      BY <3>1, <3>3, Stacked
    <3> QED BY <3>1, <3>2, <3>4, <3>5
  <2>5. CASE stk = <<>>
    BY <2>5, EmptyStacked
  <2> QED BY <2>2, <2>3, <2>4, <2>5
<1> QED BY <1>1, <1>2, <1>3, <1>4

\* What a step can do to the calls of the arbiter that are in hand.
LEMMA StepKinds ==
    ASSUME TypeOK, OneRunning, Served, [Next]_vars, ~preempted'
    PROVE  \/ OnCall(Anew)'
           \/ PlainStep
           \/ Tick \/ CollectNext \/ CollectEnd \/ ArbiterSelect \/ ArbiterNothing
           \/ DispatchKeep \/ DispatchPreempt \/ DispatchStart \/ ArbiterExpired \/ ArbiterAlarm
<1>t. stk \in Seq(Frame) /\ task \in [Hook -> Task] /\ radioTask \in Hook
  BY DEF TypeOK
<1>n. \A F \in SUBSET Standing(Settling) :
         IrqFrame \notin F /\ UnmaskFrame \notin F /\ Fr("reti", None, 0) \notin F
  BY DEF Standing, Settling, IrqFrame, UnmaskFrame, Fr
<1>o. OnStack(stk, Standing({"irqdone", "irqend"})) => stk # <<>>
  BY EmptyStacked
<1>1. ASSUME NEW h \in Hook, MainEnqueue(h) PROVE OnCall(Anew)' \/ PlainStep
  <2>1. stk = <<>> /\ <<>> \in Seq(Frame)
    BY <1>1, <1>t DEF MainEnqueue, MainIdle
  <2>r. PICK r \in Requests[h] : Enqueue(h, r, <<>>)
    BY <1>1 DEF MainEnqueue
  <2>2. OnCall(Anew)' \/ (stk' = <<>> /\ task' = task)
    BY <2>1, <2>r, <1>o, EnqueueAnew
  <2> QED BY <1>1, <2>1, <2>2 DEF MainEnqueue, PlainStep
<1>2. ASSUME NEW h \in Hook, MainAbort(h) PROVE OnCall(Anew)' \/ PlainStep
  <2>1. stk = <<>> /\ ~semRadio
    BY <1>2, <1>o DEF MainAbort, MainIdle, Served, OnCall
  <2>2. CASE task[h].st = "running"
    <3>1. stk' = <<IrqFrame, UnmaskFrame>> \o <<>> /\ task' = task
      BY <1>2, <2>2 DEF MainAbort, InSection
    <3>2. \A F \in SUBSET Standing(Settling) : OnStack(stk', F) <=> OnStack(stk, F)
      BY <2>1, <3>1, <1>t, <1>n, Stacked, PlainFrames
    <3> QED BY <1>2, <3>1, <3>2 DEF MainAbort, PlainStep
  <2>3. CASE task[h].st # "running"
    <3>1. stk' = <<ArbiterFrame, UnmaskFrame>> \o <<>>
      BY <1>2, <2>1, <2>3 DEF MainAbort, InSection
    <3>2. OnStack(stk', Standing(Anew))
      BY <2>1, <3>1, <1>t, Stacked, AnewFrames, PlainFrames
    <3> QED BY <3>2 DEF OnCall
  <2> QED BY <2>2, <2>3
<1>3. CASE RadioInterrupt
  <2>1. stk = <<>> /\ stk' = <<IrqFrame, Fr("reti", None, 0)>> \o stk
    BY <1>3, FromMain DEF RadioInterrupt
  <2>2. \A F \in SUBSET Standing(Settling) : OnStack(stk', F) <=> OnStack(stk, F)
    <3> SUFFICES ASSUME NEW F \in SUBSET Standing(Settling)
                 PROVE  OnStack(<<IrqFrame, Fr("reti", None, 0)>> \o stk, F) <=> OnStack(stk, F)
      BY <2>1
    <3>1. IrqFrame \notin F /\ Fr("reti", None, 0) \notin F
      BY <1>n
    <3> QED BY <3>1, <1>t, Stacked, PlainFrames
  <2> QED BY <1>3, <2>2 DEF RadioInterrupt, PlainStep, planner
<1>4. CASE TimerInterrupt
  <2>1. stk' = <<ArbiterFrame, Fr("reti", None, 0)>> \o stk
    BY <1>4, FromMain DEF TimerInterrupt
  <2>2. OnStack(stk', Standing(Anew))
    BY <2>1, <1>t, Stacked, AnewFrames, PlainFrames
  <2> QED BY <2>2 DEF OnCall
<1>5. CASE LaunchRadio \/ HandlerReturn \/ SectionEnd \/ IrqIgnore \/ IrqIdle \/ InterruptReturn
  <2>1. stk # <<>> /\ Head(stk).pc \notin Settling /\ Return
    BY <1>5 DEF LaunchRadio, HandlerReturn, SectionEnd, IrqIgnore, IrqIdle, InterruptReturn, At, Settling
  <2> QED BY <1>5, <2>1, <1>t, PlainMove
          DEF LaunchRadio, HandlerReturn, SectionEnd, IrqIgnore, IrqIdle, InterruptReturn, PlainStep, planner
<1>6. CASE LaunchListen \/ Callback
  <2> DEFINE f == [Head(stk) EXCEPT !.pc = "listen"]
             g == [Head(stk) EXCEPT !.pc = "handler"]
  <2>1. stk # <<>> /\ Head(stk).pc \in OfHook /\ (Goto(f) \/ Goto(g))
    BY <1>6 DEF LaunchListen, Callback, At, OfHook
  <2>h. Head(stk) \in Frame /\ Head(stk).hook \in Hook
    BY <2>1, <1>t, StackType, HeadHook
  <2>2. f \in Frame /\ f.pc = "listen" /\ g \in Frame /\ g.pc = "handler"
    BY <2>h DEF Frame, Pc
  <2> HIDE DEF f, g
  <2>3. \A F \in SUBSET Standing(Settling) : OnStack(stk', F) <=> OnStack(stk, F)
    <3>1. \A x \in OfHook : x \notin Settling
      BY DEF OfHook, Settling
    <3>2. Goto(f) \/ Goto(g)
      BY <2>1
    <3>3. \E x \in Frame : x.pc \notin Settling /\ Goto(x)
      BY <2>2, <3>1, <3>2 DEF OfHook
    <3> QED BY <2>1, <3>1, <3>3, <1>t, PlainMove
  <2> QED BY <1>6, <2>3 DEF LaunchListen, Callback, PlainStep, planner
<1>7. CASE ListenDone
  <2>1. stk # <<>> /\ Head(stk).pc \notin Settling /\ Goto(IrqFrame)
    BY <1>7 DEF ListenDone, At, Settling
  <2>2. IrqFrame \in Frame /\ IrqFrame.pc \notin Settling
    BY PlainFrames DEF IrqFrame, Fr, Settling
  <2>3. \A F \in SUBSET Standing(Settling) : OnStack(stk', F) <=> OnStack(stk, F)
    BY <2>1, <2>2, <1>t, PlainMove
  <2> QED BY <1>7, <2>3 DEF ListenDone, PlainStep
<1>8. CASE HandlerEnqueue
  <2>1. stk # <<>> /\ Head(stk).pc = "handler" /\ Tail(stk) \in Seq(Frame)
    BY <1>8, <1>t, StackType DEF HandlerEnqueue, At
  <2>2. PICK h, r : Enqueue(h, r, Tail(stk))
    BY <1>8 DEF HandlerEnqueue
  <2>3. OnStack(stk, Standing({"irqdone", "irqend"})) => OnStack(Tail(stk), Standing({"irqdone", "irqend"}))
    BY <2>1, <1>t, TopStacked DEF Standing
  <2>4. OnCall(Anew)' \/ (stk' = Tail(stk) /\ task' = task)
    BY <2>1, <2>2, <2>3, EnqueueAnew
  <2>5. CASE stk' = Tail(stk) /\ task' = task
    <3>1. \A F \in SUBSET Standing(Settling) : OnStack(stk', F) <=> OnStack(stk, F)
      BY <2>1, <2>5, <1>t, PlainMove DEF Return, Settling
    <3> QED BY <1>8, <2>5, <3>1 DEF HandlerEnqueue, PlainStep
  <2> QED BY <2>4, <2>5
<1>9. CASE IrqServe \/ IrqCollect \/ IrqEnd
  <2>1. stk # <<>> /\ Tail(stk) \in Seq(Frame)
    BY <1>9, <1>t, StackType DEF IrqServe, IrqCollect, IrqEnd, At
  <2>2. \/ stk' = <<Fr("callback", radioTask, 0), Fr("irqdone", None, 0)>> \o Tail(stk)
        \/ stk' = <<CollectFrame, Fr("irqend", None, 0)>> \o Tail(stk)
        \/ stk' = <<ArbiterFrame>> \o Tail(stk)
    BY <1>9 DEF IrqServe, IrqCollect, IrqEnd, Call, Goto
  <2>3. OnStack(stk', Standing(Anew))
    <3>1. OnStack(<<ArbiterFrame>> \o Tail(stk), Standing(Anew))
      BY <2>1, Stacked, AnewFrames, PlainFrames
    <3>2. OnStack(<<CollectFrame, Fr("irqend", None, 0)>> \o Tail(stk), Standing(Anew))
      BY <2>1, Stacked, AnewFrames, PlainFrames
    <3>3. OnStack(<<Fr("callback", radioTask, 0), Fr("irqdone", None, 0)>> \o Tail(stk), Standing(Anew))
      BY <2>1, <1>t, Stacked, AnewFrames, PlainFrames, HookFrames
    <3> QED BY <2>2, <3>1, <3>2, <3>3
  <2> QED BY <2>3 DEF OnCall
<1>10. CASE RadioDone \/ UNCHANGED vars
  BY <1>10 DEF RadioDone, vars, planner, PlainStep
<1> QED BY <1>1, <1>2, <1>3, <1>4, <1>5, <1>6, <1>7, <1>8, <1>9, <1>10 DEF Next, Processor, Step

LEMMA StackKeeps ==
    ASSUME TypeOK, [Next]_vars, ~preempted', stk # <<>>, NEW F, Head(stk) \notin F,
           OnStack(stk, F)
    PROVE  OnStack(stk', F)
<1>1. stk \in Seq(Frame) /\ Tail(stk) \in Seq(Frame)
  BY StackType DEF TypeOK
<1>2. OnStack(Tail(stk), F)
  BY <1>1, TopStacked
<1>3. /\ \A f \in Frame : OnStack(<<f>> \o Tail(stk), F)
      /\ \A f, g \in Frame : OnStack(<<f, g>> \o Tail(stk), F)
  BY <1>1, <1>2, Stacked
<1>4. \/ stk' = Tail(stk) \/ UNCHANGED stk
      \/ \E f \in Frame : stk' = <<f>> \o Tail(stk)
      \/ \E f, g \in Frame : stk' = <<f, g>> \o Tail(stk)
  BY StackMoves DEF StackMove, Return, Goto, Call
<1> QED BY <1>2, <1>3, <1>4

\* Between its selection and its alarm an arbiter finds no waiting task of these states in
\* the past, unless some task has the radio or the arbiter is to come again anyway.
InTime(S)   == \A h \in Hook : task[h].st \in S => Diff(task[h].start, now) >= 0
Punctual(S) == Running(task) \/ OnCall(Anew) \/ ~OnCall(Under) \/ InTime(S)

LEMMA PunctualStep ==
    ASSUME TypeOK, Owned, Served, [Next]_vars, ~preempted',
           NEW S \in SUBSET {"schedule", "asap"}, Punctual(S),
           ArbiterSelect \/ ArbiterNothing => InTime(S)'
    PROVE  Punctual(S)'
<1>t. /\ task \in [Hook -> Task] /\ stk \in Seq(Frame) /\ now \in Time
      /\ radioTask \in Hook /\ prioTask.hook \in Hook /\ timerHook \in Hook
  BY DEF TypeOK
<1>k. \A F : stk # <<>> /\ Head(stk) \notin F /\ OnStack(stk, F) => OnStack(stk', F)
  BY StackKeeps
<1>a. stk # <<>> /\ Head(stk).pc \notin Anew /\ OnCall(Anew) => OnCall(Anew)'
  BY <1>k DEF OnCall, Standing
<1>u. stk # <<>> /\ Head(stk).pc \in Under => OnCall(Under)
  BY <1>t, TopStacked, StackType DEF OnCall, Standing
<1>s. ASSUME \A h \in Hook : task'[h].st \in S => task[h].st \in S /\ task'[h].start = task[h].start,
             now' = now, InTime(S)
      PROVE  InTime(S)'
  BY <1>s DEF InTime
<1>1. CASE OnCall(Anew)'
  BY <1>1 DEF Punctual
<1>2. CASE PlainStep
  <2>1. Standing(Anew) \subseteq Standing(Settling) /\ Standing(Under) \subseteq Standing(Settling)
    BY DEF Standing, Anew, Under, Settling
  <2>2. (OnCall(Anew)' <=> OnCall(Anew)) /\ (OnCall(Under)' <=> OnCall(Under))
    BY <1>2, <2>1 DEF PlainStep, OnCall
  <2> QED BY <1>2, <2>2 DEF PlainStep, Punctual, Running, InTime
<1>3. CASE Tick
  <2>1. UNCHANGED <<stk, task, radioTask>> /\ (stk = <<>> \/ At("launch") \/ At("listen"))
    BY <1>3 DEF Tick, BusyWait, planner
  <2>2. CASE stk = <<>>
    BY <2>1, <2>2, EmptyStacked DEF Punctual, OnCall
  <2>3. CASE At("launch") \/ At("listen")
    BY <2>1, <2>3 DEF Owned, Exclusive, LaunchOK, Punctual, Running
  <2> QED BY <2>1, <2>2, <2>3
<1>4. CASE CollectNext \/ CollectEnd
  <2>1. stk # <<>> /\ Head(stk).pc = "collect" /\ UNCHANGED <<radioTask, now>> /\ Tail(stk) \in Seq(Frame)
    BY <1>4, <1>t, StackType DEF CollectNext, CollectEnd, At, planner
  <2>2. \A h \in Hook : \/ task'[h] = task[h]
                        \/ task[h].st = "aborted" /\ task'[h].st = "finished"
    BY <1>4, <1>t DEF CollectNext, CollectEnd, AbortedAfter, planner, Freed, Task
  <2>3. OnCall(Under)' => OnCall(Under)
    <3>1. \/ stk' = Tail(stk)
          \/ \E h \in Hook : stk' = <<Fr("callback", h, 0), Fr("collect", h, 0)>> \o Tail(stk)
      BY <1>4 DEF CollectNext, CollectEnd, AbortedAfter, Return, Call
    <3>2. \A h \in Hook : Fr("callback", h, 0) \notin Standing(Under) /\ Fr("collect", h, 0) \notin Standing(Under)
      BY DEF Fr, Standing, Under
    <3>3. OnStack(Tail(stk), Standing(Under)) => OnStack(stk, Standing(Under))
      BY <2>1, <1>t, TopStacked
    <3>4. ASSUME NEW h \in Hook, stk' = <<Fr("callback", h, 0), Fr("collect", h, 0)>> \o Tail(stk),
                 OnStack(stk', Standing(Under))
          PROVE  OnStack(Tail(stk), Standing(Under))
      BY <2>1, <3>2, <3>4, Stacked, HookFrames
    <3> QED BY <3>1, <3>3, <3>4 DEF OnCall
  <2>4. OnCall(Anew) => OnCall(Anew)'
    BY <2>1, <1>a DEF Anew
  <2>5. Running(task) => Running(task')
    BY <2>2, <1>t DEF Running
  <2>6. InTime(S) => InTime(S)'
    BY <2>1, <2>2, <1>s
  <2> QED BY <2>1, <2>3, <2>4, <2>5, <2>6 DEF Punctual, Running
<1>5. CASE ArbiterSelect \/ ArbiterNothing
  BY <1>5 DEF Punctual
<1>6. CASE DispatchKeep
  <2>1. stk # <<>> /\ Head(stk).pc = "dispatch" /\ UNCHANGED <<radioTask, now>>
    BY <1>6 DEF DispatchKeep, At
  <2>2. \A h \in Hook : \/ task'[h] = task[h]
                        \/ task'[h].st = "aborted" /\ task[h].st # "running"
    BY <1>6, <1>t, AbortedSt DEF DispatchKeep, Owned, Exclusive, SelectionOK
  <2>3. InTime(S) => InTime(S)'
    BY <2>1, <2>2, <1>s
  <2>4. Running(task) => Running(task')
    BY <2>2, <1>t DEF Running
  <2> QED BY <2>1, <2>3, <2>4, <1>a, <1>u DEF Punctual, Running, Under, Anew
<1>7. CASE DispatchPreempt \/ DispatchStart
  <2>1. radioTask' = prioTask.hook /\ task'[prioTask.hook].st = "running"
    BY <1>7, <1>t DEF DispatchPreempt, DispatchStart, HandedOver, Task
  <2> QED BY <2>1 DEF Punctual, Running
<1>8. CASE ArbiterExpired
  <2>1. stk # <<>> /\ Head(stk).pc = "expired" /\ UNCHANGED <<radioTask, now>>
    BY <1>8 DEF ArbiterExpired, At
  <2>2. \A h \in Hook : \/ task'[h] = task[h]
                        \/ task'[h].st = "aborted" /\ task[h].st # "running"
    <3>1. \/ task' = task
          \/ task' = [task EXCEPT ![timerHook].st = "aborted"] /\ haveTimer /\ timerHook # prioTask.hook
      BY <1>8 DEF ArbiterExpired, Expired, Unselected
    <3> QED BY <3>1, <1>t DEF Task, Owned, Exclusive, TimerOK
  <2>3. InTime(S) => InTime(S)'
    BY <2>1, <2>2, <1>s
  <2>4. Running(task) => Running(task')
    BY <2>2, <1>t DEF Running
  <2> QED BY <2>1, <2>3, <2>4, <1>a, <1>u DEF Punctual, Running, Under, Anew
<1>9. CASE ArbiterAlarm
  <2>1. stk # <<>> /\ Head(stk).pc = "alarm" /\ UNCHANGED <<radioTask, now>> /\ task' = Collected(task, now)
    BY <1>9 DEF ArbiterAlarm, At
  <2>2. \A h \in Hook : task'[h] = task[h] \/ task'[h].st = "aborted"
    BY <2>1, <1>t, AbortedSt DEF Collected
  <2>3. InTime(S) => InTime(S)'
    BY <2>1, <2>2, <1>s
  <2>4. Running(task) => Running(task')
    BY <2>1, <1>t, CollectedRunning DEF Running
  <2> QED BY <2>1, <2>3, <2>4, <1>a, <1>u DEF Punctual, Running, Under, Anew
<1> QED BY <1>1, <1>2, <1>3, <1>4, <1>5, <1>6, <1>7, <1>8, <1>9, StepKinds DEF Owned, Exclusive

\* The garbage collection leaves no scheduled task in the past.
LEMMA CollectedInTime ==
    ASSUME TypeOK, ArbiterSelect \/ ArbiterNothing
    PROVE  InTime({"schedule"})'
<1>1. PICK tk \in [Hook -> Task] : task' = Collected(tk, now) /\ now' = now
  BY UpdatedType DEF ArbiterSelect, ArbiterNothing, TypeOK
<1> SUFFICES ASSUME NEW h \in Hook, task'[h].st = "schedule" PROVE Diff(task'[h].start, now) >= 0
  BY <1>1 DEF InTime
<1>2. tk[h] \in Task
  OBVIOUS
<1>3. task'[h] = tk[h] /\ tk[h].st = "schedule" /\ ~(Diff(tk[h].start, now) < 0)
  BY <1>1, <1>2, AbortedSt DEF Collected
<1>4. Diff(tk[h].start, now) \in Int
  BY <1>2, TimeInt, DiffType DEF Task, TypeOK
<1> QED BY <1>3, <1>4

\* An aborted task is one that a call of the arbiter or a scan of the table still comes to, or
\* that waits for the end of the task that has the radio.
Scans(h)  == {f \in Frame : f.pc = "collect" /\ (f.hook = None \/ f.hook < h)}
Reached(h) == \/ Running(task) \/ OnCall(Anew) \/ OnCall({"dispatch", "expired"})
              \/ OnStack(stk, Scans(h))
AbortsReached == \A h \in Hook : task[h].st = "aborted" => Reached(h)

LEMMA AbortsStep ==
    ASSUME TypeOK, Owned, Served, Punctual({"schedule"}), AbortsReached,
           [Next]_vars, ~preempted'
    PROVE  AbortsReached'
<1> SUFFICES ASSUME NEW h \in Hook, task'[h].st = "aborted" PROVE Reached(h)'
  BY DEF AbortsReached
<1>t. /\ task \in [Hook -> Task] /\ stk \in Seq(Frame) /\ now \in Time /\ task[h] \in Task
      /\ radioTask \in Hook /\ prioTask.hook \in Hook /\ timerHook \in Hook
  BY DEF TypeOK
<1>k. \A F : stk # <<>> /\ Head(stk) \notin F /\ OnStack(stk, F) => OnStack(stk', F)
  BY StackKeeps
<1>a. stk # <<>> /\ Head(stk).pc \notin Anew /\ OnCall(Anew) => OnCall(Anew)'
  BY <1>k DEF OnCall, Standing
<1>d. stk # <<>> /\ Head(stk).pc \notin {"dispatch", "expired"} /\ OnCall({"dispatch", "expired"})
        => OnCall({"dispatch", "expired"})'
  BY <1>k DEF OnCall, Standing
<1>s. stk # <<>> /\ Head(stk).pc # "collect" /\ OnStack(stk, Scans(h)) => OnStack(stk', Scans(h))
  BY <1>k DEF Scans
<1>g. ASSUME stk # <<>>, NEW f \in Frame, f.pc \in {"dispatch", "expired"}, Goto(f)
      PROVE  Reached(h)'
  <2>1. stk' = <<f>> \o Tail(stk) /\ Tail(stk) \in Seq(Frame) /\ f \in Standing({"dispatch", "expired"})
    BY <1>g, <1>t DEF Goto, Standing
  <2>2. OnStack(stk', Standing({"dispatch", "expired"}))
    BY <2>1, Stacked
  <2> QED BY <2>2 DEF Reached, OnCall
<1>1. CASE OnCall(Anew)'
  BY <1>1 DEF Reached
<1>2. CASE PlainStep
  <2>1. /\ Standing(Anew) \subseteq Standing(Settling) /\ Scans(h) \subseteq Standing(Settling)
        /\ Standing({"dispatch", "expired"}) \subseteq Standing(Settling)
    BY DEF Standing, Anew, Settling, Scans
  <2> QED BY <1>2, <2>1 DEF PlainStep, AbortsReached, Reached, Running, OnCall
<1>3. CASE Tick
  BY <1>3 DEF Tick, planner, AbortsReached, Reached, Running, OnCall
<1>4. CASE CollectNext
  <2>1. /\ stk # <<>> /\ Head(stk).pc = "collect" /\ UNCHANGED <<radioTask, now>>
        /\ Tail(stk) \in Seq(Frame) /\ Head(stk) \in Frame
    BY <1>4, <1>t, StackType DEF CollectNext, At
  <2>2. PICK g \in Hook : /\ g \in AbortedAfter(Head(stk).hook)
                          /\ \A k \in AbortedAfter(Head(stk).hook) : g <= k
                          /\ task' = [task EXCEPT ![g] = Freed(@)]
                          /\ stk' = <<Fr("callback", g, 0), Fr("collect", g, 0)>> \o Tail(stk)
    BY <1>4 DEF CollectNext, AbortedAfter, Call
  <2>3. g # h /\ task[h].st = "aborted"
    BY <2>2, <1>t DEF Freed, Task
  <2>4. task[g].st = "aborted"
    BY <2>2 DEF AbortedAfter
  <2>5. Running(task) => Running(task')
    BY <2>2, <2>4, <1>t DEF Running
  <2>6. OnStack(stk, Scans(h)) => OnStack(stk', Scans(h))
    <3>1. CASE Head(stk) \in Scans(h)
      <4>1. h \in AbortedAfter(Head(stk).hook)
        BY <2>3, <3>1 DEF AbortedAfter, Scans
      <4>2. g < h
        BY <2>2, <2>3, <4>1 DEF Hook
      <4>3. Fr("collect", g, 0) \in Scans(h)
        BY <4>2, HookFrames DEF Scans, Fr
      <4> QED BY <2>1, <2>2, <4>3, Stacked, HookFrames
    <3>2. CASE Head(stk) \notin Scans(h)
      BY <2>1, <3>2, <1>k
    <3> QED BY <3>1, <3>2
  <2> QED BY <2>1, <2>3, <2>5, <2>6, <1>a, <1>d DEF AbortsReached, Reached, Running, Anew
<1>5. CASE CollectEnd
  <2>1. /\ stk # <<>> /\ Head(stk).pc = "collect" /\ UNCHANGED <<task, radioTask, now>>
        /\ Head(stk) \in Frame /\ AbortedAfter(Head(stk).hook) = {}
    BY <1>5, <1>t, StackType DEF CollectEnd, At, planner
  <2>2. Head(stk) \notin Scans(h)
    BY <2>1 DEF AbortedAfter, Scans
  <2>3. OnStack(stk, Scans(h)) => OnStack(stk', Scans(h))
    BY <2>1, <2>2, <1>k
  <2> QED BY <2>1, <2>3, <1>a, <1>d DEF AbortsReached, Reached, Running, Anew
<1>6. CASE ArbiterSelect
  <2>1. stk # <<>> /\ Goto(Fr("dispatch", None, now))
    BY <1>6 DEF ArbiterSelect, At
  <2>2. Fr("dispatch", None, now) \in Frame /\ Fr("dispatch", None, now).pc = "dispatch"
    BY <1>t, HookFrames DEF Fr
  <2> QED BY <2>1, <2>2, <1>g
<1>7. CASE ArbiterNothing
  <2>1. stk # <<>> /\ stk' = <<CollectFrame>> \o Tail(stk) /\ Tail(stk) \in Seq(Frame)
    BY <1>7, <1>t, StackType DEF ArbiterNothing, At, Goto
  <2>2. CollectFrame \in Scans(h)
    BY PlainFrames DEF Scans, CollectFrame, Fr
  <2>3. OnStack(stk', Scans(h))
    BY <2>1, <2>2, Stacked, PlainFrames
  <2> QED BY <2>3 DEF Reached
<1>8. CASE DispatchKeep
  <2>1. stk # <<>> /\ Goto(ExpiredFrame) /\ Head(stk).at \in Time
    BY <1>8, <1>t, StackType DEF DispatchKeep, At, Frame
  <2>2. ExpiredFrame \in Frame /\ ExpiredFrame.pc = "expired"
    BY <2>1, HookFrames DEF ExpiredFrame, Fr
  <2> QED BY <2>1, <2>2, <1>g
<1>9. CASE DispatchPreempt \/ DispatchStart
  <2>1. radioTask' = prioTask.hook /\ task'[prioTask.hook].st = "running"
    BY <1>9, <1>t DEF DispatchPreempt, DispatchStart, HandedOver, Task
  <2> QED BY <2>1 DEF Reached, Running
<1>10. CASE ArbiterExpired
  <2>1. CASE task'[radioTask].st = "running"
    BY <1>10, <2>1 DEF ArbiterExpired, Reached, Running
  <2>2. CASE task'[radioTask].st # "running"
    <3>1. stk # <<>> /\ stk' = <<CollectFrame, AlarmFrame>> \o Tail(stk) /\ Tail(stk) \in Seq(Frame)
      BY <1>10, <2>2, <1>t, StackType DEF ArbiterExpired, At, Call
    <3>2. CollectFrame \in Scans(h)
      BY PlainFrames DEF Scans, CollectFrame, Fr
    <3>3. OnStack(stk', Scans(h))
      BY <3>1, <3>2, Stacked, PlainFrames
    <3> QED BY <3>3 DEF Reached
  <2> QED BY <2>1, <2>2
<1>11. CASE ArbiterAlarm
  <2>1. /\ stk # <<>> /\ Head(stk).pc = "alarm" /\ UNCHANGED radioTask /\ task' = Collected(task, now)
        /\ Head(stk) \in Frame
    BY <1>11, <1>t, StackType DEF ArbiterAlarm, At
  <2>2. Running(task) => Running(task')
    BY <2>1, <1>t, CollectedRunning DEF Running
  <2>3. CASE task[h].st = "aborted"
    BY <2>1, <2>2, <2>3, <1>a, <1>d, <1>s DEF AbortsReached, Reached, Running, Anew
  <2>4. CASE task[h].st # "aborted"
    <3>1. task[h].st = "schedule" /\ Diff(task[h].start, now) < 0
      BY <2>1, <2>4, <1>t DEF Collected
    <3>2. Diff(task[h].start, now) \in Int
      BY <1>t, TimeInt, DiffType DEF Task
    <3>3. ~InTime({"schedule"})
      BY <3>1, <3>2 DEF InTime
    <3>4. OnCall(Under)
      BY <2>1, <1>t, TopStacked DEF OnCall, Standing, Under
    <3> QED BY <2>1, <2>2, <3>3, <3>4, <1>a DEF Punctual, Reached, Running, Anew
  <2> QED BY <2>3, <2>4
<1> QED BY <1>1, <1>2, <1>3, <1>4, <1>5, <1>6, <1>7, <1>8, <1>9, <1>10, <1>11, StepKinds
        DEF Owned, Exclusive

\* Aborted tasks have been called back by the time the processor sleeps, whatever the clock,
\* until a handler has come into a call of the main loop.
THEOREM AbortsCalledBack == Spec => [](~preempted => AbortsAnswered)
<1> DEFINE Inv == ~preempted => Served /\ Punctual({"schedule"}) /\ AbortsReached
<1>1. Init => Inv
  <2> SUFFICES ASSUME Init PROVE Served /\ Punctual({"schedule"}) /\ AbortsReached
    OBVIOUS
  <2>1. stk = <<>> /\ ~semRadio /\ \A h \in Hook : task[h].st = "finished"
    BY DEF Init
  <2> QED BY <2>1, EmptyStacked DEF Served, Punctual, OnCall, AbortsReached
<1>2. TypeOK /\ ExclusiveInv /\ Inv /\ [Next]_vars => Inv'
  <2> SUFFICES ASSUME TypeOK, ExclusiveInv, Inv, [Next]_vars, ~preempted'
               PROVE  Served' /\ Punctual({"schedule"})' /\ AbortsReached'
    OBVIOUS
  <2>1. ~preempted /\ Owned
    BY Before
  <2> QED BY <2>1, ServedStep, PunctualStep, CollectedInTime, AbortsStep
<1>3. Inv => (~preempted => AbortsAnswered)
  BY EmptyStacked DEF AbortsReached, Reached, OnCall, AbortsAnswered
<1> HIDE DEF Inv
<1> QED BY <1>1, <1>2, <1>3, TypeCorrect, ExclusiveUse, PTL DEF Spec

\* Until half of the clock's range has passed, a time is what it is in the integers; times
\* before the start of the clock lie at the end of its range.
NearStart(s) ==
    /\ 2 * (Horizon + 2 * s) < TimeWidth
    /\ \A h \in Hook : \A r \in Requests[h] : r.st = "asap" => r.offset \in -s .. s
Signed(x, s) == IF x <= Horizon + s THEN x ELSE x - TimeWidth
Near(s)      == {x \in Time : Signed(x, s) >= -s}

LEMMA DiffNear ==
    ASSUME NEW s \in Nat, NearStart(s), NEW x \in Near(s), NEW y \in Near(s)
    PROVE  Diff(x, y) = Signed(x, s) - Signed(y, s)
<1>1. x \in Time /\ y \in Time /\ {Horizon, TimeWidth} \subseteq Nat
  BY PlannerAssumption DEF Near
<1>2. Diff(x, y) = IF 2 * Gap(x, y) < TimeWidth THEN Gap(x, y) ELSE Gap(x, y) - TimeWidth
  BY <1>1, DiffIs
<1> QED BY <1>1, <1>2 DEF NearStart, Near, Signed, Gap, Time

LEMMA PlusNear ==
    ASSUME NEW s \in Nat, NearStart(s), now \in Time, now <= Horizon, NEW d \in -s .. s
    PROVE  Plus(now, d) \in Near(s) /\ Signed(Plus(now, d), s) = now + d
<1>1. {Horizon, TimeWidth} \subseteq Nat /\ now \in Nat /\ d \in Int /\ -s <= d /\ d <= s
  BY PlannerAssumption DEF Time
<1>2. 2 * (Horizon + 2 * s) < TimeWidth
  BY DEF NearStart
<1>3. \A x \in Int : 0 <= x /\ x < TimeWidth => x % TimeWidth = x
  BY Remainders
<1>4. \A x \in Int : -TimeWidth <= x /\ x < 0 => x % TimeWidth = x + TimeWidth
  BY Remainders
<1>5. Plus(now, d) = IF now + d >= 0 THEN now + d ELSE now + d + TimeWidth
  <2>1. now + d \in Int /\ now + d < TimeWidth /\ -TimeWidth <= now + d
    BY <1>1, <1>2
  <2> QED BY <2>1, <1>3, <1>4 DEF Plus
<1> QED BY <1>1, <1>2, <1>5 DEF Near, Signed, Time

\* A task that is as soon as possible starts when it was asked for, or at a later time that
\* has come.
AsapTimes(s) ==
    \A h \in Hook : task[h].st = "asap" =>
        LET a == Signed(task[h].init, s)
            b == Signed(task[h].start, s)
        IN  a >= -s /\ (b = a \/ (a < b /\ b <= now))

LEMMA NowNear ==
    ASSUME NEW s \in Nat, NearStart(s), now \in Time, now <= Horizon
    PROVE  now \in Near(s) /\ Signed(now, s) = now
  BY PlannerAssumption DEF Near, Signed, Time

LEMMA UpdatedTimes ==
    ASSUME TypeOK, NEW s \in Nat, NearStart(s), now <= Horizon, AsapTimes(s),
           NEW h \in Hook, Updated(task, now)[h].st = "asap"
    PROVE  LET t == Updated(task, now)[h]
               a == Signed(t.init, s)
               b == Signed(t.start, s)
           IN  /\ a >= -s /\ (b = a \/ (a < b /\ b <= now))
               /\ Diff(t.start, now) >= 0
<1> DEFINE t == task[h]
           u == Updated(task, now)[h]
           a == Signed(t.init, s)
           b == Signed(t.start, s)
<1>1. t \in Task /\ now \in Time /\ Horizon \in Nat /\ TimeWidth \in Nat
  BY PlannerAssumption DEF TypeOK
<1>2. t.st = "asap"
  BY <1>1 DEF Updated, Task
<1>3. a >= -s /\ (b = a \/ (a < b /\ b <= now))
  BY <1>2 DEF AsapTimes
<1>4. a \in Int /\ b \in Int /\ t.init \in Near(s) /\ t.start \in Near(s)
  BY <1>1, <1>3 DEF Near, Signed, Task, Time
<1>5. now \in Near(s) /\ Signed(now, s) = now
  BY <1>1, NowNear
<1>6. Diff(now, t.init) = now - a
  BY <1>4, <1>5, DiffNear
<1>7. CASE now - a > 0
  <2>1. u = [t EXCEPT !.start = now]
    BY <1>1, <1>2, <1>6, <1>7 DEF Updated, Task
  <2>2. u.init = t.init /\ u.start = now
    BY <2>1, <1>1 DEF Task
  <2>3. Diff(now, now) = 0
    BY <1>1, <1>5, DiffNear DEF Time
  <2> QED BY <2>2, <2>3, <1>1, <1>3, <1>4, <1>5, <1>7 DEF Time
<1>8. CASE ~(now - a > 0)
  <2>1. u = t
    <3>1. ~(Diff(now, t.init) > AsapTrig)
      BY <1>1, <1>4, <1>6, <1>8, PlannerAssumption DEF Time
    <3> QED BY <1>1, <1>2, <1>6, <1>8, <3>1 DEF Updated
  <2>2. b = a
    BY <1>1, <1>3, <1>4, <1>8 DEF Time
  <2>3. Diff(t.start, now) = b - now
    BY <1>4, <1>5, DiffNear
  <2>4. b - now >= 0
    BY <1>1, <1>4, <1>8, <2>2 DEF Time
  <2> QED BY <1>3, <2>1, <2>3, <2>4
<1> QED BY <1>1, <1>4, <1>7, <1>8 DEF Time

LEMMA AsapStep ==
    ASSUME TypeOK, Early, NEW s \in Nat, NearStart(s), AsapTimes(s), [Next]_vars, ~preempted'
    PROVE  AsapTimes(s)'
<1> DEFINE Good(x, y, z) == LET a == Signed(x, s)
                                b == Signed(y, s)
                            IN  a >= -s /\ (b = a \/ (a < b /\ b <= z))
<1>t. /\ task \in [Hook -> Task] /\ now \in Time /\ radioTask \in Hook /\ timerHook \in Hook
      /\ prioTask.hook \in Hook /\ stk \in Seq(Frame) /\ now <= Horizon /\ TimeWidth \in Nat
      /\ Horizon \in Nat
  BY PlannerAssumption DEF TypeOK, Early
<1> SUFFICES ASSUME NEW h \in Hook, task'[h].st = "asap" PROVE Good(task'[h].init, task'[h].start, now')
  BY DEF AsapTimes
<1>u. task[h] \in Task /\ (task[h].st = "asap" => Good(task[h].init, task[h].start, now))
  BY <1>t DEF AsapTimes
<1>s. ASSUME task'[h] = task[h], now' = now PROVE Good(task'[h].init, task'[h].start, now')
  BY <1>s, <1>u
<1>e. ASSUME NEW g \in Hook, NEW r \in Requests[g], NEW rest, Enqueue(g, r, rest), now' = now
      PROVE  Good(task'[h].init, task'[h].start, now')
  <2>1. CASE task'[h] = task[h]
    BY <2>1, <1>e, <1>s
  <2>2. CASE task'[h] # task[h]
    <3>1. /\ g = h /\ r.st = "asap"
          /\ task'[h].init = Plus(now, r.offset) /\ task'[h].start = Plus(now, r.offset)
      BY <2>2, <1>e, <1>t DEF Enqueue
    <3>2. r.offset \in -s .. s
      BY <3>1 DEF NearStart
    <3>3. Signed(Plus(now, r.offset), s) >= -s
      BY <3>2, <1>t, PlusNear DEF Near
    <3> QED BY <3>1, <3>3
  <2> QED BY <2>1, <2>2
<1>1. ASSUME NEW g \in Hook, MainEnqueue(g) PROVE Good(task'[h].init, task'[h].start, now')
  BY <1>1, <1>e DEF MainEnqueue
<1>2. ASSUME NEW g \in Hook, MainAbort(g) PROVE Good(task'[h].init, task'[h].start, now')
  BY <1>2, <1>t, <1>u, AbortedSt DEF MainAbort
<1>c. ASSUME NEW tk \in [Hook -> Task], task' = Collected(tk, now)
      PROVE  task'[h] = tk[h]
  <2>1. tk[h] \in Task
    OBVIOUS
  <2> QED BY <1>c, <2>1, AbortedSt DEF Collected
<1>3. CASE ArbiterSelect \/ ArbiterNothing
  <2>1. PICK tk \in [Hook -> Task] : tk = Updated(task, now) /\ task' = Collected(tk, now) /\ now' = now
    BY <1>3, <1>t, UpdatedType DEF ArbiterSelect, ArbiterNothing
  <2>2. task'[h] = tk[h] /\ Updated(task, now)[h].st = "asap"
    BY <2>1, <1>c
  <2> QED BY <2>1, <2>2, <1>t, UpdatedTimes
<1>4. CASE ArbiterAlarm
  BY <1>4, <1>t, <1>s, <1>c DEF ArbiterAlarm
<1>5. CASE DispatchKeep
  BY <1>5, <1>t, <1>u, AbortedSt DEF DispatchKeep
<1>6. CASE DispatchPreempt \/ DispatchStart \/ ArbiterExpired
  <2>1. task'[h] = task[h] /\ now' = now
    BY <1>6, <1>t, <1>u DEF DispatchPreempt, HandedOver, DispatchStart, ArbiterExpired, Expired, Task
  <2> QED BY <2>1, <1>s
<1>7. CASE CollectNext \/ IrqServe
  <2>1. PICK g \in Hook : task' = [task EXCEPT ![g] = Freed(@)]
    BY <1>7, <1>t DEF CollectNext, AbortedAfter, IrqServe
  <2>2. Freed(task[g]).st = "finished"
    BY <2>1, <1>t DEF Freed, Task
  <2>3. task'[h] = task[h] /\ now' = now
    BY <2>1, <2>2, <1>7, <1>t DEF CollectNext, IrqServe
  <2> QED BY <2>3, <1>s
<1>8. CASE HandlerEnqueue
  <2>1. Head(stk).pc = "handler" /\ Head(stk) \in Frame
    BY <1>8, <1>t, StackType DEF HandlerEnqueue, At
  <2>2. Head(stk).hook \in Hook
    BY <2>1 DEF Frame, OfHook
  <2>3. Chained(Head(stk).hook) \ {None} \subseteq Hook
    BY <2>2, <1>t, ChainedHook DEF TypeOK
  <2> QED BY <1>8, <2>3, <1>e DEF HandlerEnqueue
<1>9. CASE Tick
  <2>1. task' = task /\ now < Horizon /\ now' = Plus(now, 1)
    BY <1>9, <1>t DEF Tick, planner, Time
  <2>2. now' = now + 1
    <3>1. now < TimeWidth - 1
      BY <2>1, <1>t DEF Time, NearStart
    <3> QED BY <2>1, <3>1, <1>t, NextTime DEF Time
  <2>3. task[h].init \in Nat /\ task[h].start \in Nat /\ now \in Nat
    BY <1>u, <1>t DEF Task, Time
  <2> QED BY <2>1, <2>2, <2>3, <1>t, <1>u DEF Signed
<1>10. CASE UNCHANGED <<task, now>>
  BY <1>10, <1>s
<1> QED BY <1>1, <1>2, <1>3, <1>4, <1>5, <1>6, <1>7, <1>8, <1>9, <1>10
        DEF Next, Processor, Step, vars, planner, LaunchRadio, LaunchListen, ListenDone,
         CollectEnd, Callback, HandlerReturn, SectionEnd, IrqIgnore, IrqIdle, IrqCollect, IrqEnd,
         RadioDone, RadioInterrupt, TimerInterrupt, InterruptReturn

\* Within half of the clock's range the arbiter leaves no waiting task in the past.
LEMMA AllInTime ==
    ASSUME TypeOK, Early, NEW s \in Nat, NearStart(s), AsapTimes(s),
           ArbiterSelect \/ ArbiterNothing
    PROVE  InTime({"schedule", "asap"})'
<1>1. /\ task' = Collected(Updated(task, now), now) /\ now' = now
      /\ Updated(task, now) \in [Hook -> Task] /\ now <= Horizon
  BY UpdatedType DEF ArbiterSelect, ArbiterNothing, TypeOK, Early
<1>2. InTime({"schedule"})'
  BY CollectedInTime
<1> SUFFICES ASSUME NEW h \in Hook, task'[h].st = "asap" PROVE Diff(task'[h].start, now) >= 0
  BY <1>1, <1>2 DEF InTime
<1>3. Updated(task, now)[h] \in Task
  BY <1>1
<1>4. task'[h] = Updated(task, now)[h] /\ Updated(task, now)[h].st = "asap"
  BY <1>1, <1>3, AbortedSt DEF Collected
<1> QED BY <1>1, <1>4, UpdatedTimes

\* A waiting task has its alarm, or the end of a running task, or a call of the arbiter, ahead.
Woken == (\E h \in Hook : Waiting(task[h]))
            => alarm # None \/ Running(task) \/ OnCall(Settling \ {"collect"})

LEMMA WokenStep ==
    ASSUME TypeOK, Owned, Served, Punctual({"schedule", "asap"}), Woken, [Next]_vars, ~preempted',
           ArbiterNothing => InTime({"schedule", "asap"})'
    PROVE  Woken'
<1> DEFINE W == Settling \ {"collect"}
<1> SUFFICES ASSUME NEW h \in Hook, Waiting(task'[h])
             PROVE  alarm' # None \/ Running(task)' \/ OnCall(W)'
  BY DEF Woken
<1>t. /\ task \in [Hook -> Task] /\ stk \in Seq(Frame) /\ now \in Time /\ task[h] \in Task
      /\ radioTask \in Hook /\ prioTask.hook \in Hook /\ timerHook \in Hook
  BY DEF TypeOK
<1>k. \A F : stk # <<>> /\ Head(stk) \notin F /\ OnStack(stk, F) => OnStack(stk', F)
  BY StackKeeps
<1>a. stk # <<>> /\ Head(stk).pc \notin Anew /\ OnCall(Anew) => OnCall(Anew)'
  BY <1>k DEF OnCall, Standing
<1>w. OnCall(Anew)' => OnCall(W)'
  BY DEF OnCall, OnStack, Standing, Anew, Settling
<1>g. ASSUME stk # <<>>, NEW f \in Frame, f.pc \in W, Goto(f)
      PROVE  OnCall(W)'
  <2>1. stk' = <<f>> \o Tail(stk) /\ Tail(stk) \in Seq(Frame) /\ f \in Standing(W)
    BY <1>g, <1>t DEF Goto, Standing
  <2>2. OnStack(stk', Standing(W))
    BY <2>1, Stacked
  <2> QED BY <2>2 DEF OnCall
<1>1. CASE OnCall(Anew)'
  BY <1>1, <1>w
<1>2. CASE PlainStep
  <2>1. Standing(W) \subseteq Standing(Settling)
    BY DEF Standing
  <2> QED BY <1>2, <2>1 DEF PlainStep, Woken, Running, OnCall
<1>3. CASE Tick
  BY <1>3 DEF Tick, planner, Woken, Running, OnCall
<1>4. CASE CollectNext \/ CollectEnd
  <2>1. stk # <<>> /\ Head(stk).pc = "collect" /\ UNCHANGED <<radioTask, alarm>>
    BY <1>4 DEF CollectNext, CollectEnd, At, planner
  <2>2. \A g \in Hook : \/ task'[g] = task[g]
                        \/ task[g].st = "aborted" /\ task'[g].st = "finished"
    <3>1. CASE CollectNext
      <4>1. PICK g \in Hook : task[g].st = "aborted" /\ task' = [task EXCEPT ![g] = Freed(@)]
        BY <3>1 DEF CollectNext, AbortedAfter
      <4>2. task[g] \in Task
        BY <1>t
      <4>3. Freed(task[g]).st = "finished"
        BY <4>2 DEF Freed, Task
      <4> QED BY <4>1, <4>3, <1>t
    <3>2. CASE CollectEnd
      BY <3>2 DEF CollectEnd, planner
    <3> QED BY <1>4, <3>1, <3>2
  <2>3. Waiting(task[h]) /\ (Running(task) => Running(task'))
    BY <2>2, <1>t DEF Running, Waiting
  <2>4. OnCall(W) => OnCall(W)'
    BY <2>1, <1>k DEF OnCall, Standing
  <2> QED BY <2>1, <2>3, <2>4 DEF Woken, Running
<1>5. CASE ArbiterSelect
  <2>1. stk # <<>> /\ Goto(Fr("dispatch", None, now))
    BY <1>5 DEF ArbiterSelect, At
  <2>2. Fr("dispatch", None, now) \in Frame /\ Fr("dispatch", None, now).pc \in W
    BY <1>t, HookFrames DEF Fr, Settling
  <2> QED BY <2>1, <2>2, <1>g
<1>6. CASE ArbiterNothing
  <2>1. Eligible(task', now) = {} /\ now' = now
    BY <1>6 DEF ArbiterNothing
  <2>2. Diff(task'[h].start, now) >= 0
    BY <1>6, <2>1 DEF InTime, Waiting
  <2> QED BY <2>1, <2>2 DEF Eligible, NotPast
<1>7. CASE DispatchKeep
  <2>1. stk # <<>> /\ Goto(ExpiredFrame) /\ Head(stk).at \in Time
    BY <1>7, <1>t, StackType DEF DispatchKeep, At, Frame
  <2>2. ExpiredFrame \in Frame /\ ExpiredFrame.pc \in W
    BY <2>1, HookFrames DEF ExpiredFrame, Fr, Settling
  <2> QED BY <2>1, <2>2, <1>g
<1>8. CASE DispatchPreempt \/ DispatchStart
  <2>1. radioTask' = prioTask.hook /\ task'[prioTask.hook].st = "running"
    BY <1>8, <1>t DEF DispatchPreempt, DispatchStart, HandedOver, Task
  <2> QED BY <2>1 DEF Running
<1>9. CASE ArbiterExpired
  <2>1. stk # <<>> /\ Tail(stk) \in Seq(Frame)
        /\ (stk' = <<AlarmFrame>> \o Tail(stk) \/ stk' = <<CollectFrame, AlarmFrame>> \o Tail(stk))
    BY <1>9, <1>t, StackType DEF ArbiterExpired, At, Goto, Call
  <2>2. AlarmFrame \in Standing(W)
    BY PlainFrames DEF Standing, AlarmFrame, Fr, Settling
  <2>3. OnStack(stk', Standing(W))
    BY <2>1, <2>2, Stacked, PlainFrames
  <2> QED BY <2>3 DEF OnCall
<1>10. CASE ArbiterAlarm
  <2>1. /\ stk # <<>> /\ Head(stk).pc = "alarm" /\ UNCHANGED <<radioTask, now>>
        /\ task' = Collected(task, now) /\ Head(stk) \in Frame
    BY <1>10, <1>t, StackType DEF ArbiterAlarm, At
  <2>2. Waiting(task[h]) /\ task'[h] = task[h]
    BY <2>1, <1>t, AbortedSt DEF Collected, Waiting
  <2>3. Running(task) => Running(task')
    BY <2>1, <1>t, CollectedRunning DEF Running
  <2>4. OnCall(Under)
    BY <2>1, <1>t, TopStacked DEF OnCall, Standing, Under
  <2>5. CASE InTime({"schedule", "asap"})
    <3>1. h \in NotPast(task', now)
      BY <2>2, <2>5 DEF InTime, NotPast, Waiting
    <3>2. PICK d \in Int : alarm' = Plus(now, d)
      <4>1. PICK g \in NotPast(task', now) :
               alarm' = Plus(now, IF Diff(task'[g].start, now) > Margin
                                  THEN Diff(task'[g].start, now) - Margin ELSE 1)
        BY <1>10, <2>1, <3>1 DEF ArbiterAlarm
      <4>2. task'[g] \in Task
        BY <4>1, <2>1, <1>t, CollectedType DEF NotPast
      <4>3. Diff(task'[g].start, now) \in Int
        BY <4>2, <1>t, TimeInt, DiffType DEF Task
      <4> QED BY <4>1, <4>3, ConstInt
    <3>3. alarm' \in Time
      BY <3>2, <1>t, PlusType, TimeInt
    <3> QED BY <3>3, PlannerAssumption
  <2> QED BY <2>1, <2>3, <2>4, <2>5, <1>a, <1>w DEF Punctual, Running, Anew
<1> QED BY <1>1, <1>2, <1>3, <1>4, <1>5, <1>6, <1>7, <1>8, <1>9, <1>10, StepKinds
        DEF Owned, Exclusive

\* Until a handler has come into a call of the main loop, a processor that sleeps has
\* forgotten no task, neither one to launch nor one to call back, for as long as the clock,
\* with the offsets of the tasks asked for as soon as possible, stays within half of its
\* range (almost 25 days from the start), where the signed differences are those of the
\* integers.  Beyond, it is not so: a task as soon as possible that no arbiter has looked at
\* for half a range counts as one of the future.
THEOREM SleepsSafely ==
    ASSUME Boot <= Horizon, \E s \in Nat : NearStart(s)
    PROVE  Spec => [](~preempted => NothingForgotten)
<1>0. PICK s \in Nat : NearStart(s)
  OBVIOUS
<1> DEFINE S   == {"schedule", "asap"}
           All == Served /\ Early /\ AsapTimes(s) /\ Punctual(S) /\ Woken
           Inv == ~preempted => All
<1>1. Init => Inv
  <2> SUFFICES ASSUME Init PROVE All
    OBVIOUS
  <2>1. /\ stk = <<>> /\ ~semRadio /\ now <= Horizon
        /\ \A h \in Hook : task[h].st = "finished"
    BY PlannerAssumption DEF Init
  <2> QED BY <2>1, EmptyStacked DEF Served, Early, AsapTimes, Punctual, OnCall, Woken, Waiting
<1>2. TypeOK /\ ExclusiveInv /\ Inv /\ [Next]_vars => Inv'
  <2> SUFFICES ASSUME TypeOK, ExclusiveInv, Inv, [Next]_vars, ~preempted' PROVE All'
    OBVIOUS
  <2>b. Owned /\ All
    BY Before
  <2>1. Horizon < TimeWidth
    BY <1>0, PlannerAssumption DEF NearStart
  <2>2. Early' /\ AsapTimes(s)' /\ Served'
    BY <2>b, <2>1, <1>0, EarlyStep, AsapStep, ServedStep
  <2>3. ArbiterSelect \/ ArbiterNothing => InTime(S)'
    BY <2>b, <1>0, AllInTime
  <2>4. Punctual(S)' /\ Woken'
    BY <2>b, <2>3, PunctualStep, WokenStep
  <2> QED BY <2>2, <2>4
<1>3. Inv => (~preempted => NoLostWakeup)
  <2> SUFFICES ASSUME Woken PROVE NoLostWakeup
    OBVIOUS
  <2> QED BY EmptyStacked DEF Woken, OnCall, NoLostWakeup
<1>4. Spec => [](~preempted => NoLostWakeup)
  <2> HIDE DEF Inv
  <2> QED BY <1>1, <1>2, <1>3, TypeCorrect, ExclusiveUse, PTL DEF Spec
<1> QED BY <1>4, AbortsCalledBack, PTL DEF NothingForgotten

-----------------------------------------------------------------------------
(* An interrupt of the radio is one of the task it ends *)

\* The frame that serves an interrupt of the radio is only ever on top.
IrqOnTop == stk # <<>> => ~OnStack(Tail(stk), Standing({"radioirq"}))

LEMMA IrqOnTopStep ==
    ASSUME TypeOK, IrqOnTop, [Next]_vars, ~preempted'
    PROVE  IrqOnTop' /\ (stk # <<>> /\ Return => ~At("radioirq")')
<1> DEFINE F == Standing({"radioirq"})
<1>t. stk \in Seq(Frame)
  BY DEF TypeOK
<1>r. ASSUME stk # <<>>, Return PROVE IrqOnTop' /\ ~At("radioirq")'
  <2>1. stk' = Tail(stk) /\ Tail(stk) \in Seq(Frame) /\ ~OnStack(Tail(stk), F)
    BY <1>r, <1>t DEF Return, IrqOnTop
  <2>2. ASSUME stk' # <<>> PROVE Head(stk').pc # "radioirq" /\ ~OnStack(Tail(stk'), F)
    <3>1. stk' \in Seq(Frame) /\ stk' # <<>> /\ ~OnStack(stk', F)
      BY <2>1, <2>2
    <3>2. Head(stk') \notin F /\ ~OnStack(Tail(stk'), F)
      BY <3>1, TopStacked
    <3>3. Head(stk') \in Frame
      BY <3>1
    <3> QED BY <3>2, <3>3 DEF Standing
  <2> QED BY <2>2 DEF IrqOnTop, At
<1>1. CASE UNCHANGED stk
  BY <1>1, <1>r DEF IrqOnTop
<1>2. CASE stk = <<>> /\ \E f \in {ArbiterFrame, IrqFrame}, g \in {UnmaskFrame, RetiFrame} :
                            stk' = <<f, g>>
  <2>1. PICK f \in {ArbiterFrame, IrqFrame}, g \in {UnmaskFrame, RetiFrame} : stk' = <<f, g>>
    BY <1>2
  <2>2. g \in Frame /\ g \notin F /\ <<>> \in Seq(Frame) /\ Tail(stk') = <<g>> \o <<>>
    BY <2>1, PlainFrames DEF Standing, RetiFrame, UnmaskFrame, Fr
  <2>3. ~OnStack(<<g>> \o <<>>, F)
    BY <2>2, Stacked, EmptyStacked
  <2> QED BY <1>2, <2>2, <2>3 DEF IrqOnTop
<1>3. CASE stk # <<>> /\ \E f \in Frame : Goto(f)
  <2>1. PICK f \in Frame : stk' = <<f>> \o Tail(stk)
    BY <1>3 DEF Goto
  <2>2. Tail(stk') = Tail(stk)
    BY <1>3, <1>t, <2>1
  <2> QED BY <1>3, <2>2, <1>r DEF IrqOnTop
<1>4. CASE stk # <<>> /\ \E f, g \in Frame : Call(f, g) /\ g.pc # "radioirq"
  <2>1. PICK f, g \in Frame : stk' = <<f, g>> \o Tail(stk) /\ g.pc # "radioirq"
    BY <1>4 DEF Call
  <2>2. Tail(stk') = <<g>> \o Tail(stk) /\ Tail(stk) \in Seq(Frame) /\ ~OnStack(Tail(stk), F)
    BY <1>4, <1>t, <2>1 DEF IrqOnTop
  <2>3. g \notin F
    BY <2>1 DEF Standing
  <2>4. ~OnStack(<<g>> \o Tail(stk), F)
    BY <2>2, <2>3, Stacked
  <2> QED BY <2>2, <2>4, <1>r DEF IrqOnTop
<1> QED BY <1>r, <1>1, <1>2, <1>3, <1>4, StackMoves DEF StackMove

LEMMA IrqFrom ==
    ASSUME TypeOK, IrqOnTop, [Next]_vars, ~preempted', At("radioirq")'
    PROVE  \/ RadioInterrupt \/ ListenDone \/ \E h \in Hook : MainAbort(h)
           \/ At("radioirq") /\ (Tick \/ RadioDone \/ UNCHANGED vars)
<1>t. stk \in Seq(Frame) /\ stk' # <<>> /\ Head(stk').pc = "radioirq"
  BY DEF TypeOK, At
<1>r. ASSUME stk # <<>>, Return PROVE FALSE
  BY <1>r, IrqOnTopStep
<1>g. ASSUME stk # <<>>, NEW f, Goto(f) PROVE f.pc = "radioirq"
  BY <1>g, <1>t, StackType DEF Goto
<1>c. ASSUME stk # <<>>, NEW f, NEW g, Call(f, g) PROVE f.pc = "radioirq"
  BY <1>c, <1>t, StackType DEF Call
<1>p. /\ ArbiterFrame.pc = "arbiter" /\ CollectFrame.pc = "collect"
      /\ AlarmFrame.pc = "alarm" /\ ExpiredFrame.pc = "expired"
      /\ \A h, at : /\ Fr("dispatch", h, at).pc = "dispatch" /\ Fr("launch", h, at).pc = "launch"
                    /\ Fr("callback", h, at).pc = "callback"
  BY DEF ArbiterFrame, CollectFrame, AlarmFrame, ExpiredFrame, Fr
<1>1. CASE \/ ArbiterAlarm \/ LaunchRadio \/ CollectEnd \/ HandlerReturn \/ SectionEnd \/ IrqIgnore
          \/ IrqIdle \/ InterruptReturn
  BY <1>1, <1>r DEF ArbiterAlarm, LaunchRadio, CollectEnd, HandlerReturn, SectionEnd, IrqIgnore, IrqIdle,
      InterruptReturn, At
<1>2. CASE ArbiterSelect \/ ArbiterNothing \/ DispatchKeep \/ IrqEnd
  BY <1>2, <1>g, <1>p DEF ArbiterSelect, ArbiterNothing, DispatchKeep, IrqEnd, At
<1>3. CASE DispatchPreempt \/ DispatchStart
  BY <1>3, <1>c, <1>p DEF DispatchPreempt, DispatchStart, DispatchNow, At
<1>4. CASE ArbiterExpired
  BY <1>4, <1>g, <1>c, <1>p DEF ArbiterExpired, At
<1>5. CASE CollectNext \/ IrqServe \/ IrqCollect
  BY <1>5, <1>c, <1>p DEF CollectNext, IrqServe, IrqCollect, At
<1>6. CASE LaunchListen \/ Callback
  <2>1. stk # <<>> /\ Head(stk) \in Frame
    BY <1>6, <1>t, StackType DEF LaunchListen, Callback, At
  <2>2. [Head(stk) EXCEPT !.pc = "listen"].pc = "listen" /\ [Head(stk) EXCEPT !.pc = "handler"].pc = "handler"
    BY <2>1 DEF Frame
  <2> QED BY <1>6, <1>g, <2>1, <2>2 DEF LaunchListen, Callback
<1>7. CASE HandlerEnqueue
  <2>1. PICK h, r : Enqueue(h, r, Tail(stk))
    BY <1>7 DEF HandlerEnqueue
  <2>2. stk # <<>> /\ (Return \/ Call(ArbiterFrame, UnmaskFrame))
    BY <1>7, <2>1 DEF HandlerEnqueue, At, Enqueue, EmptySection, InSection, Return, Call
  <2> QED BY <1>r, <1>c, <1>p, <2>2
<1>8. CASE TimerInterrupt \/ \E h \in Hook : MainEnqueue(h)
  <2>1. stk = <<>>
    BY <1>8, FromMain DEF MainEnqueue, MainIdle
  <2>2. stk' = <<>> \/ \E g : stk' = <<ArbiterFrame, g>> \o stk
    BY <1>8, <2>1, EnqueueStack DEF MainEnqueue, TimerInterrupt
  <2>3. Head(stk') = ArbiterFrame
    BY <1>t, <2>1, <2>2
  <2> QED BY <1>t, <1>p, <2>3
<1>9. CASE Tick \/ RadioDone \/ UNCHANGED vars
  BY <1>9, <1>t DEF Tick, RadioDone, vars, At
<1> QED BY <1>1, <1>2, <1>3, <1>4, <1>5, <1>6, <1>7, <1>8, <1>9 DEF Next, Processor, Step

\* A running task goes on running until an interrupt ends it or another task takes over.
LEMMA KeepsRunning ==
    ASSUME TypeOK, Owned, Running(task), [Next]_vars, ~IrqServe, ~DispatchPreempt
    PROVE  radioTask' = radioTask /\ Running(task)' /\ task'[radioTask].kind = task[radioTask].kind
<1>t. /\ task \in [Hook -> Task] /\ now \in Time /\ radioTask \in Hook /\ timerHook \in Hook
      /\ prioTask.hook \in Hook /\ stk \in Seq(Frame) /\ task[radioTask] \in Task
      /\ task[radioTask].st = "running"
  BY DEF TypeOK, Running
<1>r. radioTask' = radioTask
  BY DEF Next, Processor, Step, vars, planner, MainEnqueue, MainAbort, ArbiterSelect, ArbiterNothing,
      DispatchKeep, DispatchStart, ArbiterExpired, ArbiterAlarm, LaunchRadio, LaunchListen,
      ListenDone, CollectNext, CollectEnd, Callback, HandlerEnqueue, HandlerReturn, SectionEnd, IrqIgnore,
      IrqIdle, IrqCollect, IrqEnd, Tick, RadioDone, RadioInterrupt, TimerInterrupt, InterruptReturn
<1> SUFFICES task'[radioTask].st = "running" /\ task'[radioTask].kind = task[radioTask].kind
  BY <1>r DEF Running
<1> DEFINE Same == task'[radioTask].st = "running" /\ task'[radioTask].kind = task[radioTask].kind
<1>e. ASSUME NEW g, NEW r, NEW rest, Enqueue(g, r, rest) PROVE Same
  BY <1>e, <1>t DEF Enqueue
<1>1. ASSUME NEW g \in Hook, MainEnqueue(g) PROVE Same
  BY <1>1, <1>e DEF MainEnqueue
<1>2. ASSUME NEW g \in Hook, MainAbort(g) PROVE Same
  BY <1>2, <1>t DEF MainAbort
<1>c. ASSUME NEW tk \in [Hook -> Task], tk[radioTask].st = "running",
             tk[radioTask].kind = task[radioTask].kind, task' = Collected(tk, now)
      PROVE  Same
  BY <1>c, <1>t DEF Collected
<1>3. CASE ArbiterSelect \/ ArbiterNothing
  <2>1. PICK tk \in [Hook -> Task] : tk = Updated(task, now) /\ task' = Collected(tk, now)
    BY <1>3, <1>t, UpdatedType DEF ArbiterSelect, ArbiterNothing
  <2>2. tk[radioTask].st = "running" /\ tk[radioTask].kind = task[radioTask].kind
    BY <2>1, <1>t DEF Updated, Task
  <2> QED BY <2>1, <2>2, <1>c
<1>4. CASE ArbiterAlarm
  BY <1>4, <1>t, <1>c DEF ArbiterAlarm
<1>5. CASE DispatchKeep
  <2>1. task' = task \/ (task' = [task EXCEPT ![prioTask.hook] = Aborted(@)] /\ prioTask.hook # radioTask)
    BY <1>5, <1>t DEF DispatchKeep, Owned, Exclusive, SelectionOK
  <2> QED BY <2>1, <1>t
<1>6. CASE DispatchStart
  BY <1>6 DEF DispatchStart
<1>7. CASE ArbiterExpired
  <2>1. \/ task' = task
        \/ /\ task' = [task EXCEPT ![timerHook].st = "aborted"]
           /\ haveTimer /\ timerHook # prioTask.hook
    BY <1>7 DEF ArbiterExpired, Expired, Unselected
  <2>2. haveTimer /\ timerHook # prioTask.hook => timerHook # radioTask
    BY <1>t DEF Owned, Exclusive, TimerOK
  <2> QED BY <2>1, <2>2, <1>t
<1>8. CASE CollectNext
  BY <1>8, <1>t DEF CollectNext, AbortedAfter
<1>9. CASE HandlerEnqueue
  BY <1>9, <1>e DEF HandlerEnqueue
<1>10. CASE UNCHANGED task
  BY <1>10, <1>t
<1> QED BY <1>1, <1>2, <1>3, <1>4, <1>5, <1>6, <1>7, <1>8, <1>9, <1>10
        DEF Next, Processor, Step, vars, planner, LaunchRadio, LaunchListen, ListenDone,
         CollectEnd, Callback, HandlerReturn, SectionEnd, IrqIgnore, IrqIdle, IrqCollect, IrqEnd, Tick,
         RadioDone, RadioInterrupt, TimerInterrupt, InterruptReturn

\* What keeps the interrupts of the radio in step with its tasks, as long as no call aborts a
\* running one.  A handler is active, and a section open, as long as its frame is on the stack; while an interrupt is
\* latched or served the radio has not worked, and so does not complete once more.  An interrupt
\* that is latched is ignored, or is one of the running task, whose flags are set; the task that
\* senses the carrier has taken the radio from the one it is of.
Sensed == task[radioTask].kind = "lbt"
HandlerStands == (isr => OnCall({"reti"})) /\ (masked => OnCall({"unmask"}))
NotAired      == /\ aired => op # None
                 /\ irqPend \/ At("radioirq") => ~aired
Asleep        == At("launch") \/ At("listen") => op = None
Sensing       == At("listen") => Sensed
Awaited       == irqPend /\ ~semAbort => Running(task) /\ (flags \/ Sensed)
LateIrq       == irqPend /\ (At("launch") \/ At("listen") \/ At("radioirq")) => semAbort
IgnoredIrq    == irqPend /\ At("radioirq") => Running(task) /\ Sensed
LatchedInv    == /\ HandlerStands /\ IrqOnTop /\ NotAired /\ Asleep /\ Sensing
                 /\ Awaited /\ LateIrq /\ IgnoredIrq /\ NoStaleInterrupt

LEMMA Unmasking ==
    ASSUME NEW f \in {ArbiterFrame, IrqFrame}, NEW rest \in Seq(Frame)
    PROVE  OnStack(<<f, UnmaskFrame>> \o rest, Standing({"unmask"}))
<1>1. f \in Frame /\ UnmaskFrame \in Frame /\ UnmaskFrame \in Standing({"unmask"})
  BY PlainFrames DEF Standing, UnmaskFrame, Fr
<1> QED BY <1>1, Stacked

LEMMA HandlerStep ==
    ASSUME TypeOK, HandlerStands, [Next]_vars, ~preempted'
    PROVE  HandlerStands'
<1>t. stk \in Seq(Frame)
  BY DEF TypeOK
<1>k. ASSUME NEW pc, OnCall({pc}), stk # <<>> => Head(stk).pc # pc PROVE OnCall({pc})'
  <2>1. stk # <<>> /\ Head(stk) \notin Standing({pc})
    BY <1>k, EmptyStacked DEF OnCall, Standing
  <2> QED BY <1>k, <2>1, StackKeeps DEF OnCall
<1>1. isr' => OnCall({"reti"})'
  <2>1. CASE RadioInterrupt \/ TimerInterrupt
    <3>1. /\ RetiFrame \in Frame /\ RetiFrame \in Standing({"reti"})
          /\ ArbiterFrame \in Frame /\ IrqFrame \in Frame
      BY PlainFrames DEF Standing, RetiFrame, Fr
    <3>2. stk' = <<IrqFrame, RetiFrame>> \o stk \/ stk' = <<ArbiterFrame, RetiFrame>> \o stk
      BY <2>1 DEF RadioInterrupt, TimerInterrupt, RetiFrame
    <3>3. OnStack(stk', Standing({"reti"}))
      BY <1>t, <3>1, <3>2, Stacked
    <3> QED BY <3>3 DEF OnCall
  <2>2. CASE InterruptReturn
    BY <2>2 DEF InterruptReturn
  <2>3. CASE ~RadioInterrupt /\ ~TimerInterrupt /\ ~InterruptReturn
    <3>1. isr' = isr /\ (stk # <<>> => Head(stk).pc # "reti" \/ UNCHANGED stk)
      BY <2>3 DEF Next, Processor, Step, vars, radio, planner, context, MainEnqueue, MainAbort,
           MainIdle, ArbiterSelect, ArbiterNothing, DispatchKeep, DispatchPreempt, DispatchStart,
           DispatchNow, ArbiterExpired, ArbiterAlarm, LaunchRadio, LaunchListen, ListenDone,
           CollectNext, CollectEnd, Callback, HandlerEnqueue, HandlerReturn, SectionEnd,
           IrqIgnore, IrqServe, IrqIdle, IrqCollect, IrqEnd, Tick, RadioDone, At
    <3>2. CASE UNCHANGED stk
      BY <3>1, <3>2 DEF HandlerStands, OnCall
    <3> QED BY <3>1, <3>2, <1>k DEF HandlerStands
  <2> QED BY <2>1, <2>2, <2>3
<1>2. masked' => OnCall({"unmask"})'
  <2>e. ASSUME NEW h, NEW r, NEW rest \in Seq(Frame), Enqueue(h, r, rest), masked'
        PROVE  OnCall({"unmask"})'
    <3>1. stk' = <<ArbiterFrame, UnmaskFrame>> \o rest
      BY <2>e DEF Enqueue, EmptySection, InSection
    <3> QED BY <3>1, Unmasking DEF OnCall
  <2>1. ASSUME NEW h \in Hook, MainEnqueue(h), masked' PROVE OnCall({"unmask"})'
    <3>1. <<>> \in Seq(Frame)
      OBVIOUS
    <3> QED BY <2>1, <2>e, <3>1 DEF MainEnqueue
  <2>2. ASSUME NEW h \in Hook, MainAbort(h), masked' PROVE OnCall({"unmask"})'
    <3>1. \E f \in {ArbiterFrame, IrqFrame} : stk' = <<f, UnmaskFrame>> \o <<>>
      BY <2>2 DEF MainAbort, EmptySection, InSection
    <3>2. <<>> \in Seq(Frame)
      OBVIOUS
    <3> QED BY <3>1, <3>2, Unmasking DEF OnCall
  <2>3. ASSUME HandlerEnqueue, masked' PROVE OnCall({"unmask"})'
    <3>1. Tail(stk) \in Seq(Frame)
      BY <2>3, <1>t, StackType DEF HandlerEnqueue, At
    <3> QED BY <2>3, <3>1, <2>e DEF HandlerEnqueue
  <2>4. CASE SectionEnd
    BY <2>4 DEF SectionEnd
  <2>5. CASE ~HandlerEnqueue /\ ~SectionEnd /\ ~(\E h \in Hook : MainEnqueue(h) \/ MainAbort(h))
    <3>1. masked' = masked /\ (stk # <<>> => Head(stk).pc # "unmask" \/ UNCHANGED stk)
      BY <2>5 DEF Next, Processor, Step, vars, context, ArbiterSelect, ArbiterNothing,
           DispatchKeep, DispatchPreempt, DispatchStart, DispatchNow, ArbiterExpired,
           ArbiterAlarm, LaunchRadio, LaunchListen, ListenDone, CollectNext, CollectEnd, Callback,
           HandlerReturn, IrqIgnore, IrqServe, IrqIdle, IrqCollect, IrqEnd, Tick, RadioDone,
           RadioInterrupt, TimerInterrupt, InterruptReturn, At
    <3>2. CASE UNCHANGED stk
      BY <3>1, <3>2 DEF HandlerStands, OnCall
    <3>3. CASE RadioInterrupt \/ TimerInterrupt
      <4>1. ~masked
        BY <3>3, FromMain, EmptyStacked DEF HandlerStands, OnCall
      <4> QED BY <3>1, <4>1
    <3> QED BY <3>1, <3>2, <1>k DEF HandlerStands
  <2> QED BY <2>1, <2>2, <2>3, <2>4, <2>5
<1> QED BY <1>1, <1>2 DEF HandlerStands

\* Where the radio is neither started, nor stopped, nor heard.
LEMMA RadioRests ==
    ASSUME [Next]_vars, ~RadioInterrupt, ~RadioDone, ~DispatchPreempt, ~LaunchRadio, ~LaunchListen,
           ~IrqIgnore, ~IrqServe, ~Tick
    PROVE  UNCHANGED <<irqPend, semAbort, flags, op, aired>>
  BY DEF Next, Processor, Step, vars, radio, planner, MainEnqueue, MainAbort, ArbiterSelect,
      ArbiterNothing, DispatchKeep, DispatchStart, ArbiterExpired, ArbiterAlarm, ListenDone,
      CollectNext, CollectEnd, Callback, HandlerEnqueue, HandlerReturn, SectionEnd, IrqIdle, IrqCollect,
      IrqEnd, TimerInterrupt, InterruptReturn

LEMMA LatchedStep ==
    ASSUME PendingVisible = TRUE, Abortable = {}, TypeOK, Owned, LatchedInv,
           [Next]_vars, ~preempted'
    PROVE  LatchedInv'
<1>t. /\ task \in [Hook -> Task] /\ radioTask \in Hook /\ stk \in Seq(Frame)
      /\ {irqPend, semAbort, flags, aired} \subseteq BOOLEAN
  BY DEF TypeOK
<1>i. /\ At("radioirq")' => \/ RadioInterrupt \/ ListenDone
                            \/ At("radioirq") /\ (Tick \/ RadioDone \/ UNCHANGED vars)
  BY IrqFrom DEF LatchedInv, MainAbort
<1>d. RadioDone => ~At("radioirq") /\ ~At("launch") /\ ~At("listen")
  BY DEF RadioDone, LatchedInv, NotAired, Asleep
<1>o. DispatchStart => op = None
  BY DEF DispatchStart, Owned, Exclusive, RadioOwned, Running
<1>l. At("launch")' => \/ DispatchPreempt \/ DispatchStart
                       \/ At("launch") /\ (Tick \/ UNCHANGED vars)
  BY <1>d, PassingFrom DEF Passing, Owned, Exclusive
<1>s. At("listen")' => LaunchListen \/ (At("listen") /\ (Tick \/ UNCHANGED vars))
  <2>1. "listen" \in Passing /\ TopOnly
    BY DEF Passing, Owned, Exclusive
  <2>2. At("listen")' => LaunchListen \/ (At("listen") /\ (Tick \/ RadioDone \/ UNCHANGED vars))
    BY <2>1, PassingFrom
  <2> QED BY <2>2, <1>d
<1>k. Tick => UNCHANGED <<planner, op, flags, irqPend, stk>> /\ aired' = (op # None)
  BY DEF Tick
<1>p. DispatchPreempt => op' = None /\ ~aired' /\ (irqPend' <=> irqPend) /\ (semAbort' <=> irqPend)
  <2>1. (PendingVisible /\ irqPend) \in BOOLEAN /\ ((PendingVisible /\ irqPend) <=> irqPend)
    OBVIOUS
  <2>2. DispatchPreempt => /\ op' = None /\ aired' = FALSE /\ irqPend' = irqPend
                           /\ semAbort' = (PendingVisible /\ irqPend)
    BY DEF DispatchPreempt, Sleep, IrqLatched
  <2> QED BY <2>1, <2>2, Zenon
<1>u. DispatchStart => UNCHANGED <<op, aired, flags, irqPend, semAbort>> /\ ~Running(task)
  BY DEF DispatchStart, radio
<1>v. LaunchListen => /\ op' = None /\ aired' = FALSE /\ UNCHANGED <<irqPend, semAbort, task, radioTask>>
                      /\ Head(stk).pc = "launch" /\ stk # <<>> /\ task[Head(stk).hook].kind = "lbt"
  BY DEF LaunchListen, Sleep, At, planner
<1>w. ListenDone => /\ UNCHANGED <<irqPend, semAbort, task, radioTask, aired, op>> /\ At("listen")
  BY DEF ListenDone, radio
<1>x. RadioInterrupt => /\ irqPend /\ ~irqPend' /\ UNCHANGED <<semAbort, task, radioTask, aired, flags>>
  BY DEF RadioInterrupt, planner
<1>y. UNCHANGED vars => UNCHANGED <<irqPend, semAbort, task, radioTask, aired, flags, op, stk>>
  BY DEF vars, planner, radio
<1>1. HandlerStands'
  BY HandlerStep DEF LatchedInv
<1>2. IrqOnTop'
  BY IrqOnTopStep DEF LatchedInv
<1>3. NotAired'
  <2>1. aired' => op' # None
    <3>1. CASE RadioDone \/ LaunchRadio \/ IrqServe
      BY <3>1 DEF RadioDone, LaunchRadio, IrqServe, Sleep, LatchedInv, NotAired
    <3> QED BY <3>1, <1>k, <1>p, <1>v, <1>x, RadioRests
            DEF IrqIgnore, RadioInterrupt, radio, LatchedInv, NotAired
  <2>2. irqPend' => ~aired'
    <3>1. CASE RadioDone \/ LaunchRadio \/ IrqServe
      BY <3>1 DEF RadioDone, LaunchRadio, IrqServe, Sleep, LatchedInv, NotAired
    <3>2. CASE Tick
      <4>1. CASE stk = <<>>
        <5>1. ~isr /\ ~masked
          BY <4>1, EmptyStacked DEF LatchedInv, HandlerStands, OnCall
        <5> QED BY <3>2, <4>1, <5>1 DEF Tick, CanInterrupt
      <4>2. CASE At("launch") \/ At("listen")
        BY <3>2, <4>2, <1>k DEF LatchedInv, Asleep
      <4> QED BY <3>2, <4>1, <4>2 DEF Tick, BusyWait
    <3> QED BY <3>1, <3>2, <1>p, <1>v, <1>x, RadioRests DEF IrqIgnore, radio, LatchedInv, NotAired
  <2>3. At("radioirq")' => ~aired'
    <3>1. CASE ListenDone
      BY <3>1, <1>w DEF LatchedInv, Asleep, NotAired
    <3>2. CASE At("radioirq") /\ Tick
      BY <3>2 DEF Tick, BusyWait, At
    <3> QED BY <1>i, <1>d, <1>x, <1>y, <3>1, <3>2 DEF LatchedInv, NotAired
  <2> QED BY <2>1, <2>2, <2>3 DEF NotAired
<1>4. Asleep'
  BY <1>l, <1>s, <1>k, <1>p, <1>u, <1>o, <1>v, <1>y DEF Asleep, LatchedInv
<1>5. Sensing'
  <2>1. CASE LaunchListen
    BY <2>1, <1>v DEF Owned, Exclusive, LaunchOK, Sensing, Sensed, At
  <2>2. CASE At("listen") /\ (Tick \/ UNCHANGED vars)
    BY <2>2, <1>k, <1>y DEF Sensing, Sensed, LatchedInv, planner
  <2> QED BY <1>s, <2>1, <2>2 DEF Sensing
<1>6. Awaited'
  <2> SUFFICES ASSUME irqPend', ~semAbort' PROVE Running(task)' /\ (flags' \/ Sensed')
    BY DEF Awaited
  <2>1. CASE RadioDone
    <3>1. Running(task) /\ UNCHANGED <<task, radioTask>> /\ flags'
      BY <2>1 DEF RadioDone, Owned, Exclusive, RadioOwned, planner
    <3> QED BY <3>1 DEF Running
  <2>2. CASE IrqServe
    BY <2>2 DEF IrqServe, LatchedInv, LateIrq
  <2>3. CASE IrqIgnore
    BY <2>3 DEF IrqIgnore, LatchedInv, IgnoredIrq, radio, Running, Sensed
  <2>4. CASE ~RadioDone /\ ~IrqServe /\ ~IrqIgnore
    <3>1. ~RadioInterrupt /\ ~DispatchPreempt
      BY <1>x, <1>p
    <3>2. CASE LaunchRadio \/ LaunchListen \/ Tick
      <4>1. UNCHANGED <<irqPend, semAbort, flags, task, radioTask>>
        BY <3>2 DEF LaunchRadio, LaunchListen, Tick, planner
      <4> QED BY <4>1 DEF LatchedInv, Awaited, Running, Sensed
    <3>3. CASE ~LaunchRadio /\ ~LaunchListen /\ ~Tick
      <4>1. UNCHANGED <<irqPend, semAbort, flags>>
        BY <2>4, <3>1, <3>3, RadioRests
      <4>2. Running(task) /\ (flags \/ Sensed)
        BY <4>1 DEF LatchedInv, Awaited
      <4>3. radioTask' = radioTask /\ Running(task)' /\ task'[radioTask].kind = task[radioTask].kind
        BY <2>4, <3>1, <4>2, KeepsRunning
      <4> QED BY <4>1, <4>2, <4>3 DEF Sensed
    <3> QED BY <3>2, <3>3
  <2> QED BY <2>1, <2>2, <2>3, <2>4
<1>7. LateIrq'
  <2> SUFFICES ASSUME irqPend', ~semAbort' PROVE ~At("launch")' /\ ~At("listen")' /\ ~At("radioirq")'
    BY DEF LateIrq
  <2>1. ~At("launch")'
    BY <1>l, <1>p, <1>u, <1>k, <1>y DEF LatchedInv, LateIrq, Awaited, planner
  <2>2. ~At("listen")'
    BY <1>s, <1>v, <1>k, <1>y DEF LatchedInv, LateIrq, planner, At
  <2>3. ~At("radioirq")'
    BY <1>i, <1>d, <1>x, <1>w, <1>k, <1>y DEF LatchedInv, LateIrq, planner
  <2> QED BY <2>1, <2>2, <2>3
<1>8. IgnoredIrq'
  <2>1. CASE ListenDone
    BY <2>1, <1>w DEF Owned, Exclusive, LaunchOK, LatchedInv, Sensing, Sensed, IgnoredIrq, Running
  <2>2. CASE At("radioirq") /\ (Tick \/ UNCHANGED vars)
    BY <2>2, <1>k, <1>y DEF LatchedInv, IgnoredIrq, Sensed, Running, planner
  <2> QED BY <1>i, <1>d, <1>x, <2>1, <2>2 DEF IgnoredIrq
<1>9. NoStaleInterrupt'
  <2>1. CASE RadioInterrupt
    BY <2>1, <1>x DEF LatchedInv, Awaited, Running, Sensed, NoStaleInterrupt
  <2>2. CASE ListenDone
    BY <2>2, <1>w DEF LatchedInv, Sensing, Sensed, NoStaleInterrupt
  <2>3. CASE At("radioirq") /\ (Tick \/ UNCHANGED vars)
    BY <2>3, <1>k, <1>y DEF LatchedInv, NoStaleInterrupt, FromHandler, Running, planner, At
  <2> QED BY <1>i, <1>d, <2>1, <2>2, <2>3 DEF NoStaleInterrupt
<1> QED BY <1>1, <1>2, <1>3, <1>4, <1>5, <1>6, <1>7, <1>8, <1>9 DEF LatchedInv

\* Where the HAL reports a latched interrupt and no call aborts a running task, the handler ends
\* a task only if the radio has completed it, until a handler has come into a call.
THEOREM InterruptsTimely ==
    ASSUME PendingVisible = TRUE, Abortable = {}
    PROVE  Spec => [](~preempted => NoStaleInterrupt)
<1> DEFINE Inv == ~preempted => LatchedInv
<1>1. Init => Inv
  <2> SUFFICES ASSUME Init PROVE LatchedInv
    OBVIOUS
  <2>1. stk = <<>> /\ ~isr /\ ~masked /\ ~aired /\ ~irqPend
    BY DEF Init
  <2> QED BY <2>1 DEF LatchedInv, HandlerStands, IrqOnTop, NotAired, Asleep, Sensing, Awaited,
       LateIrq, IgnoredIrq, NoStaleInterrupt, At
<1>2. TypeOK /\ ExclusiveInv /\ Inv /\ [Next]_vars => Inv'
  BY Before, LatchedStep
<1>3. Inv => (~preempted => NoStaleInterrupt)
  BY DEF LatchedInv
<1> HIDE DEF Inv
<1> QED BY <1>1, <1>2, <1>3, TypeCorrect, ExclusiveUse, PTL DEF Spec

-----------------------------------------------------------------------------
(* Who takes the radio from a running task *)

\* Of some hooks, one has the least number and one the greatest.
LEMMA Extremes ==
    ASSUME NEW S \in SUBSET Hook, S # {}, NEW rank \in [Hook -> 0 .. 2 * NbHooks - 1]
    PROVE  /\ \E h \in S : \A g \in S : rank[h] <= rank[g]
           /\ \E h \in S : \A g \in S : rank[h] >= rank[g]
<1>1. ASSUME NEW T \in SUBSET Nat, T # {} PROVE \E m \in T : \A k \in T : m <= k
  <2>1. PICK m \in T : \A k \in T : ~ (<<k, m>> \in OpToRel(<, Nat))
    BY <1>1, NatLessThanWellFounded, WFMin
  <2>2. \A k \in T : ~ (k < m)
    BY <2>1 DEF OpToRel
  <2> QED BY <2>2
<1>2. \A h \in S : rank[h] \in 0 .. 15
  BY DEF NbHooks
<1>3. \E h \in S : \A g \in S : rank[h] <= rank[g]
  <2> DEFINE T == {rank[h] : h \in S}
  <2>1. T \in SUBSET Nat /\ T # {}
    BY <1>2
  <2>2. PICK m \in T : \A k \in T : m <= k
    BY <2>1, <1>1
  <2> QED BY <2>2
<1>4. \E h \in S : \A g \in S : rank[h] >= rank[g]
  <2> DEFINE T == {15 - rank[h] : h \in S}
  <2>1. T \in SUBSET Nat /\ T # {}
    BY <1>2
  <2>2. PICK m \in T : \A k \in T : m <= k
    BY <2>1, <1>1
  <2>3. PICK h \in S : m = 15 - rank[h]
    BY <2>2
  <2>4. ASSUME NEW g \in S PROVE rank[h] >= rank[g]
    <3>1. m <= 15 - rank[g]
      BY <2>2
    <3> QED BY <3>1, <2>3, <1>2
  <2> QED BY <2>4
<1> QED BY <1>3, <1>4

\* First and Last of the hooks that are eligible.
LEMMA FirstLast ==
    ASSUME NEW tk \in [Hook -> Task], NEW S \in SUBSET Hook, S # {}
    PROVE  /\ First(tk, S) \in S /\ \A g \in S : tk[First(tk, S)].prio <= tk[g].prio
           /\ Last(tk, S) \in S
<1> DEFINE rank == [h \in Hook |-> tk[h].prio]
<1>1. rank \in [Hook -> 0 .. 2 * NbHooks - 1]
  BY DEF Task
<1> HIDE DEF rank
<1>2. /\ \E h \in S : \A g \in S : rank[h] <= rank[g]
      /\ \E h \in S : \A g \in S : rank[h] >= rank[g]
  BY <1>1, Extremes
<1>3. \A h \in S : rank[h] = tk[h].prio
  BY DEF rank
<1>4. /\ \E h \in S : \A g \in S : tk[h].prio <= tk[g].prio
      /\ \E h \in S : \A g \in S : tk[h].prio >= tk[g].prio
  BY <1>2, <1>3
<1> QED BY <1>4 DEF First, Last

\* What the loop of rp_task_select_next computes over the hooks of S, from the first one on.
Passes(it, tk, at, S, first) ==
    it = [s \in SUBSET S |-> IF s = {} THEN first
            ELSE LET x == Last(tk, s)
                 IN IF EndsBefore(tk, at, x, it[s \ {x}]) THEN x ELSE it[s \ {x}]]

\* The first one is selected unless another ends before it starts.
LEMMA StaysSelected ==
    ASSUME NEW tk \in [Hook -> Task], NEW at, NEW S \in SUBSET Hook, S # {}, NEW r,
           \A g \in S : g # r => ~EndsBefore(tk, at, g, r), NEW it, Passes(it, tk, at, S, r)
    PROVE  it[S] = r
<1>f. IsFiniteSet(S)
  <2>1. IsFiniteSet(Hook)
    <3>1. 0 \in Int /\ NbHooks - 1 \in Int
      BY DEF NbHooks
    <3> QED BY <3>1, FS_Interval DEF Hook
  <2> QED BY <2>1, FS_Subset
<1> DEFINE T == {n \in Nat : \E s \in SUBSET S : Cardinality(s) = n /\ it[s] # r}
<1>1. ASSUME T # {} PROVE FALSE
  <2>1. PICK m \in T : \A k \in T : ~ (<<k, m>> \in OpToRel(<, Nat))
    <3>1. T \subseteq Nat
      OBVIOUS
    <3> QED BY <1>1, <3>1, NatLessThanWellFounded, WFMin
  <2>2. \A k \in T : ~ (k < m)
    BY <2>1 DEF OpToRel
  <2>3. PICK s \in SUBSET S : Cardinality(s) = m /\ it[s] # r
    BY <2>1
  <2>4. s # {}
    BY <2>3 DEF Passes
  <2> DEFINE x == Last(tk, s)
  <2>5. x \in s
    BY <2>4, FirstLast
  <2>6. Cardinality(s \ {x}) = m - 1 /\ m - 1 \in Nat
    <3>1. IsFiniteSet(s)
      BY <1>f, FS_Subset
    <3>2. Cardinality(s) \in Nat /\ Cardinality(s \ {x}) \in Nat /\ Cardinality(s \ {x}) = Cardinality(s) - 1
      BY <3>1, <2>5, FS_RemoveElement, FS_CardinalityType, FS_Subset
    <3> QED BY <3>2, <2>3
  <2>7. it[s \ {x}] = r
    <3>1. m - 1 \notin T
      BY <2>2, <2>6
    <3> QED BY <3>1, <2>6
  <2>8. it[s] = IF EndsBefore(tk, at, x, it[s \ {x}]) THEN x ELSE it[s \ {x}]
    BY <2>4 DEF Passes
  <2>9. it[s] = IF EndsBefore(tk, at, x, r) THEN x ELSE r
    BY <2>7, <2>8
  <2> QED BY <2>3, <2>5, <2>9
<1>2. it[S] # r => Cardinality(S) \in T
  BY <1>f, FS_CardinalityType
<1> QED BY <1>1, <1>2

\* Selected is that loop, as the fold of the model.
LEMMA SelectedIs ==
    ASSUME NEW tk \in [Hook -> Task], NEW at
    PROVE  Selected(tk, at) = (CHOOSE it : Passes(it, tk, at, Eligible(tk, at), First(tk, Eligible(tk, at))))
                                  [Eligible(tk, at)]
  BY DEF Selected, MapThenFoldSet, Passes

\* A running task that is ranked first stays selected unless another ends before it starts.
LEMMA BestSelected ==
    ASSUME NEW tk \in [Hook -> Task], NEW at, NEW r \in Eligible(tk, at),
           \A g \in Eligible(tk, at) : g # r => tk[r].prio < tk[g].prio,
           \A g \in Eligible(tk, at) : g # r => ~EndsBefore(tk, at, g, r)
    PROVE  Selected(tk, at) = r
<1> DEFINE S == Eligible(tk, at)
<1>1. S \in SUBSET Hook /\ S # {}
  BY DEF Eligible, NotPast
<1>2. First(tk, S) = r
  <2>1. First(tk, S) \in S /\ tk[First(tk, S)].prio <= tk[r].prio
    BY <1>1, FirstLast
  <2>2. \A g \in S : tk[g].prio \in Int
    BY <1>1 DEF Task, NbHooks
  <2> HIDE DEF S
  <2>3. \A g \in S : g # r => tk[r].prio < tk[g].prio
    BY DEF S
  <2>4. r \in S
    BY DEF S
  <2> QED BY <2>1, <2>2, <2>3, <2>4
<1>3. Passes([s \in SUBSET S |-> r], tk, at, S, r)
  <2> DEFINE it == [s \in SUBSET S |-> r]
  <2>1. ASSUME NEW s \in SUBSET S, s # {}
        PROVE  LET x == Last(tk, s)
               IN (IF EndsBefore(tk, at, x, it[s \ {x}]) THEN x ELSE it[s \ {x}]) = r
    <3> DEFINE x == Last(tk, s)
    <3>1. x \in s
      BY <1>1, <2>1, FirstLast
    <3>2. it[s \ {x}] = r
      OBVIOUS
    <3>3. x # r => ~EndsBefore(tk, at, x, r)
      BY <3>1
    <3> HIDE DEF it, x
    <3>4. (IF EndsBefore(tk, at, x, it[s \ {x}]) THEN x ELSE it[s \ {x}]) = r
      BY <3>2, <3>3
    <3> QED BY <3>4 DEF x
  <2> QED BY <2>1 DEF Passes
<1> DEFINE it == CHOOSE it : Passes(it, tk, at, S, r)
<1>4. Passes(it, tk, at, S, r)
  BY <1>3
<1>5. it[S] = r
  <2> HIDE DEF it
  <2>1. \A g \in S : g # r => ~EndsBefore(tk, at, g, r)
    OBVIOUS
  <2> HIDE DEF S
  <2> QED BY <1>1, <1>4, <2>1, StaysSelected
<1> QED BY <1>2, <1>5, SelectedIs
\* The rank of a task tells its hook.
Ranked == \A h \in Hook : Live(task[h]) => task[h].prio \in {h, NbHooks + h}
\* What is selected against the running task has a reason to take its radio.
Reason(h) == Live(task[h]) /\ (Outranks(h, radioTask) \/ EndsBefore(task, now, h, radioTask))
SelectedFor == At("dispatch") /\ Running(task) /\ radioTask # prioTask.hook
                  => \E h \in Hook \ {radioTask} : Reason(h)

\* The update of the times and the garbage collection keep the ranks.
LEMMA UpdatedRank ==
    ASSUME NEW tk \in [Hook -> Task], NEW at \in Time, NEW h \in Hook,
           tk[h].prio \in {h, NbHooks + h}
    PROVE  Updated(tk, at)[h].prio \in {h, NbHooks + h}
<1>1. tk[h] \in Task
  OBVIOUS
<1> QED BY <1>1 DEF Updated, Task, Priority

LEMMA CollectedRank ==
    ASSUME NEW tk \in [Hook -> Task], NEW at \in Time, NEW h \in Hook, Live(Collected(tk, at)[h])
    PROVE  Collected(tk, at)[h] = tk[h]
  BY CollectedLive DEF Live, Waiting

\* The ranks of live tasks are those of their hooks.
LEMMA RankedStep ==
    ASSUME TypeOK, Owned, SelectionLive, Ranked, [Next]_vars, ~preempted'
    PROVE  Ranked'
<1>t. /\ task \in [Hook -> Task] /\ now \in Time /\ radioTask \in Hook /\ timerHook \in Hook
      /\ prioTask.hook \in Hook /\ stk \in Seq(Frame)
  BY DEF TypeOK
<1> SUFFICES ASSUME NEW h \in Hook, Live(task'[h]) PROVE task'[h].prio \in {h, NbHooks + h}
  BY DEF Ranked
<1>u. task[h] \in Task /\ (Live(task[h]) => task[h].prio \in {h, NbHooks + h})
  BY <1>t DEF Ranked
<1>e. ASSUME NEW g \in Hook, NEW r \in Requests[g], NEW rest, Enqueue(g, r, rest)
      PROVE  task'[h].prio \in {h, NbHooks + h}
  BY <1>e, <1>t, <1>u DEF Enqueue, Priority
<1>1. ASSUME NEW g \in Hook, MainEnqueue(g) PROVE task'[h].prio \in {h, NbHooks + h}
  BY <1>1, <1>e DEF MainEnqueue
<1>2. ASSUME NEW g \in Hook, MainAbort(g) PROVE task'[h].prio \in {h, NbHooks + h}
  BY <1>2, <1>t, <1>u, AbortedSt DEF MainAbort, Live
<1>3. CASE ArbiterSelect \/ ArbiterNothing
  <2>1. PICK tk \in [Hook -> Task] : tk = Updated(task, now) /\ task' = Collected(tk, now)
    BY <1>3, <1>t, UpdatedType DEF ArbiterSelect, ArbiterNothing
  <2>2. task'[h] = tk[h]
    BY <2>1, <1>t, CollectedRank
  <2>3. Live(task[h])
    BY <2>1, <2>2, <1>t, UpdatedLive
  <2> QED BY <2>1, <2>2, <2>3, <1>t, <1>u, UpdatedRank
<1>4. CASE ArbiterAlarm
  <2>1. task' = Collected(task, now)
    BY <1>4 DEF ArbiterAlarm
  <2> QED BY <2>1, <1>t, <1>u, CollectedRank
<1>5. CASE DispatchKeep
  BY <1>5, <1>t, <1>u, AbortedSt DEF DispatchKeep, Live
<1>6. CASE DispatchPreempt \/ DispatchStart
  <2>1. Live(task[prioTask.hook])
    BY <1>6 DEF DispatchPreempt, DispatchStart, DispatchNow, Owned, Exclusive, SelectionOK,
         SelectionLive, Live
  <2>2. task'[h].prio = task[h].prio /\ (Live(task[h]) \/ h = prioTask.hook)
    BY <1>6, <1>t, <1>u DEF DispatchPreempt, HandedOver, DispatchStart, Live, Task
  <2> QED BY <2>1, <2>2, <1>u
<1>7. CASE ArbiterExpired
  <2>1. \/ task' = task
        \/ task' = [task EXCEPT ![timerHook].st = "aborted"]
    BY <1>7 DEF ArbiterExpired
  <2> QED BY <2>1, <1>t, <1>u DEF Live, Task
<1>8. CASE CollectNext \/ IrqServe
  <2>1. PICK g \in Hook : task' = [task EXCEPT ![g] = Freed(@)]
    BY <1>8, <1>t DEF CollectNext, AbortedAfter, IrqServe
  <2> QED BY <2>1, <1>t, <1>u DEF Freed, Task, Live
<1>9. CASE HandlerEnqueue
  <2>1. Head(stk).hook \in Hook
    BY <1>9, <1>t, HeadHook DEF HandlerEnqueue, At, OfHook
  <2>2. PICK g \in Hook : \E r \in Requests[g] : Enqueue(g, r, Tail(stk))
    BY <1>9, <2>1, ChainedHook DEF HandlerEnqueue
  <2> QED BY <2>2, <1>e
<1>10. CASE UNCHANGED task
  BY <1>10, <1>u
<1> QED BY <1>1, <1>2, <1>3, <1>4, <1>5, <1>6, <1>7, <1>8, <1>9, <1>10
        DEF Next, Processor, Step, vars, planner, LaunchRadio, LaunchListen, ListenDone,
            CollectEnd, Callback, HandlerReturn, SectionEnd, IrqIgnore, IrqIdle, IrqCollect, IrqEnd,
            Tick, RadioDone, RadioInterrupt, TimerInterrupt, InterruptReturn

\* A selection keeps its reason until it is acted upon.
LEMMA SelectStep ==
    ASSUME TypeOK, Owned, SelectionLive, Ranked, SelectedFor, [Next]_vars, ~preempted'
    PROVE  SelectedFor'
<1>t. /\ task \in [Hook -> Task] /\ now \in Time /\ radioTask \in Hook /\ prioTask.hook \in Hook
      /\ stk \in Seq(Frame)
  BY DEF TypeOK
<1>n. Ranked'
  BY RankedStep
<1> SUFFICES ASSUME At("dispatch")', Running(task)', radioTask' # prioTask'.hook
             PROVE  (\E h \in Hook \ {radioTask} : Reason(h))'
  BY DEF SelectedFor
<1>1. ArbiterSelect \/ (At("dispatch") /\ (Tick \/ RadioDone \/ UNCHANGED vars))
  BY PassingFrom DEF Passing, Owned, Exclusive
<1>2. CASE ArbiterSelect
  <2> DEFINE tk == task'
             S == Eligible(tk, now)
             r == radioTask
  <2>1. /\ now' = now /\ radioTask' = r /\ tk = Collected(Updated(task, now), now)
        /\ prioTask'.hook = Selected(tk, now)
    BY <1>2 DEF ArbiterSelect
  <2>2. tk \in [Hook -> Task]
    BY <2>1, <1>t, UpdatedType, CollectedType
  <2> HIDE DEF tk
  <2>3. r \in S /\ tk[r].st = "running" /\ S \subseteq Hook
    <3>1. tk[r].st = "running"
      BY <2>1 DEF Running, tk
    <3> QED BY <3>1, <1>t DEF Eligible, NotPast
  <2>4. \A g \in S : Live(tk[g])
    BY DEF Eligible, NotPast, Live, Waiting
  <2>5. \A g \in S : tk[g].prio \in {g, NbHooks + g}
    BY <1>n, <2>3, <2>4 DEF Ranked, tk
  <2>6. PICK g \in S : g # r /\ (~(tk[r].prio < tk[g].prio) \/ EndsBefore(tk, now, g, r))
    <3>1. Selected(tk, now) # r
      BY <2>1
    <3> HIDE DEF r
    <3> QED BY <2>2, <2>3, <3>1, BestSelected
  <2>7. tk[g].prio < tk[r].prio \/ EndsBefore(tk, now, g, r)
    <3>1. tk[g].prio # tk[r].prio /\ tk[g].prio \in Int /\ tk[r].prio \in Int
      BY <2>3, <2>5, <2>6 DEF Hook, NbHooks
    <3> QED BY <3>1, <2>6
  <2> QED BY <2>1, <2>3, <2>4, <2>6, <2>7 DEF tk, Reason, Outranks
<1>3. CASE At("dispatch") /\ Tick
  BY <1>3 DEF Tick, BusyWait, At
<1>4. CASE At("dispatch") /\ (RadioDone \/ UNCHANGED vars)
  BY <1>4 DEF RadioDone, vars, planner, SelectedFor, Reason, Outranks, At, Running
<1> QED BY <1>1, <1>2, <1>3, <1>4

\* Only the arbiter hands the radio over, for that reason.
LEMMA HandoverStep ==
    ASSUME TypeOK, SelectedFor, [Next]_vars, Handover
    PROVE  \E h \in Hook \ {radioTask} : Reason(h)
<1>1. DispatchPreempt
  BY DEF Handover, Next, Processor, Step, vars, planner, MainEnqueue, MainAbort, ArbiterSelect,
         ArbiterNothing, DispatchKeep, DispatchStart, ArbiterExpired, ArbiterAlarm, LaunchRadio,
         LaunchListen, ListenDone, CollectNext, CollectEnd, Callback, HandlerEnqueue,
         HandlerReturn, SectionEnd, IrqIgnore, IrqServe, IrqIdle, IrqCollect, IrqEnd, Tick, RadioDone,
         RadioInterrupt, TimerInterrupt, InterruptReturn
<1> QED BY <1>1 DEF DispatchPreempt, DispatchNow, SelectedFor

\* Until a handler has come into a call, a running task loses the radio only to make way for one
\* that is ranked before it, or because it was launched ahead of a start before which another ends.
THEOREM BestKeeps ==
    Spec => [][~preempted /\ Handover => \E h \in Hook \ {radioTask} : Reason(h)]_vars
<1> DEFINE Inv == ~preempted => ServiceInv /\ Ranked /\ SelectedFor
<1>1. Init => Inv
  <2>1. Init => ServiceInv
    BY ServiceInit
  <2>2. Init => Ranked /\ SelectedFor
    BY DEF Init, Ranked, SelectedFor, At, Live
  <2> QED BY <2>1, <2>2
<1>2. TypeOK /\ ExclusiveInv /\ Inv /\ [Next]_vars => Inv'
  BY Before, ServiceStep, RankedStep, SelectStep DEF ServiceInv
<1>3. TypeOK /\ Inv /\ [Next]_vars
         => [~preempted /\ Handover => \E h \in Hook \ {radioTask} : Reason(h)]_vars
  BY HandoverStep
<1> HIDE DEF Inv
<1> QED BY <1>1, <1>2, <1>3, TypeCorrect, ExclusiveUse, PTL DEF Spec
=============================================================================
