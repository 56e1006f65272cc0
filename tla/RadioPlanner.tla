---------------------------- MODULE RadioPlanner ----------------------------
(***************************************************************************)
(* The radio planner (radio_planner.c): it multiplexes the one radio of    *)
(* the modem between eight hooks.  Each hook owns one task slot; a task    *)
(* asks for the radio at a time (SCHEDULE) or as soon as possible (ASAP),  *)
(* and its user is called back once, when the radio has done the task or   *)
(* when the planner has given it up.                                       *)
(*                                                                         *)
(* The planner runs in the main loop and in two interrupt handlers, of the *)
(* radio and of the timer, which have the same priority and so never nest. *)
(* The processor is one: main and handler share a call stack, the variable *)
(* stk, whose frames are the points between which something else may       *)
(* happen: before the arbiter runs, before a launch, before each callback, *)
(* inside a busy wait, before a critical section ends.                     *)
(*                                                                         *)
(* The calls of the main loop hold the interrupts off, but the sections do *)
(* not nest: the end of an inner one, of a callback's rp_task_enqueue,     *)
(* opens the outer one too.  The ghost preempted remembers that a handler  *)
(* has come into a call; most of what the planner promises, it promises    *)
(* until then.                                                             *)
(*                                                                         *)
(* Times are the 32-bit millisecond counter of the HAL, here modulo        *)
(* TimeWidth; they are only compared through signed differences.           *)
(***************************************************************************)
EXTENDS Integers, Sequences, Folds

CONSTANTS
    TimeWidth,        \* the clock counts modulo TimeWidth (2^32 in the code)
    Boot,             \* the clock when the planner is used first
    Horizon,          \* bound: the clock stops at Horizon (>= TimeWidth: never)
    Margin,           \* RP_MARGIN_DELAY
    AsapTrig,         \* RP_TASK_ASAP_TO_SCHEDULE_TRIG_TIME
    RescheduleOffset, \* RP_TASK_RE_SCHEDULE_OFFSET_TIME
    ListenTime,       \* the carrier sense of the LBT hook, in clock ticks
    Overrun,          \* by how much a transmission may outlast its duration
    Longest,          \* bound: the longest reception that is not endless
    MaxCalls,         \* bound: calls of the API by the main loop
    Requests,         \* Requests[h]: what the users of hook h enqueue
    Chains,           \* Chains[h][s]: where the callback of h, told s, may enqueue (None: nowhere)
    Abortable,        \* the hooks whose users call rp_task_abort
    Endless,          \* the hooks whose receptions need not end (class C)
    CriticalMasks,    \* does a critical section, while open, hold the interrupts off?
    PendingVisible,   \* does the HAL report a latched radio interrupt?
    None              \* no hook, no time

NbHooks == 8
Hook    == 0 .. NbHooks - 1
Time    == 0 .. TimeWidth - 1

State   == {"schedule", "asap", "running", "aborted", "finished"}
Kind    == {"tx", "rx", "lbt", "none"}
Status  == {"init", "done", "aborted"}
Request == [st : {"schedule", "asap"}, kind : Kind, offset : Int, dur : Time]
Task    == [st : State, kind : Kind, prio : 0 .. 2 * NbHooks - 1,
            start : Time, init : Time, dur : Time]

\* The points of the code a frame of the call stack can stand at.
Pc == {"arbiter", "dispatch", "expired", "alarm", "launch", "listen", "collect",
       "radioirq", "irqdone", "irqend", "callback", "handler", "unmask", "reti"}
OfHook == {"launch", "listen", "callback", "handler"}
Frame == {f \in [pc : Pc, hook : Hook \union {None}, at : Time] :
              f.pc \in OfHook => f.hook \in Hook}

ASSUME PlannerAssumption ==
    /\ TimeWidth \in Nat /\ TimeWidth > 1
    /\ Boot \in Time
    /\ {Horizon, Margin, AsapTrig, RescheduleOffset, ListenTime, Overrun,
        Longest, MaxCalls} \subseteq Nat
    /\ Requests \in [Hook -> SUBSET Request]
    /\ Chains \in [Hook -> [Status -> SUBSET (Hook \union {None})]]
    /\ Abortable \subseteq Hook /\ Endless \subseteq Hook
    /\ {CriticalMasks, PendingVisible} \subseteq BOOLEAN
    /\ None \notin Hook \union Time

VARIABLES
    task,        \* tasks[]
    radioTask,   \* radio_task_id
    prioTask,    \* priority_task: hook, state and start of the task selected
    timerHook,   \* timer_hook_id
    haveTimer,   \* next_state_status = RP_STATUS_HAVE_TO_SET_TIMER
    semRadio,    \* semaphore_radio
    semAbort,    \* semaphore_abort_radio
    status,      \* status[]
    now,         \* the millisecond counter
    alarm,       \* when the one-shot timer fires, or None
    op,          \* the hook the radio works for, or None
    aired,       \* has it worked for at least one tick?
    flags,       \* are completion flags set in the radio's IRQ register?
    irqPend,     \* is the radio's interrupt latched and not yet served?
    stk,         \* the call stack, top first
    isr,         \* is an interrupt handler active?
    masked,      \* has the last critical section begun and not ended?
    preempted,   \* ghost: has a handler come into a call of the main loop?
    revived,     \* ghost: has the arbiter aborted the task of a free slot?
    owed,        \* ghost: the user of h waits for its callback
    calls        \* bound: calls made by the main loop so far

planner == <<task, radioTask, prioTask, timerHook, haveTimer, semRadio, semAbort, status>>
radio   == <<op, aired, flags, irqPend>>
context == <<isr, masked, preempted, revived>>
vars    == <<planner, now, alarm, radio, stk, context, owed, calls>>

-----------------------------------------------------------------------------
(* Times and tasks *)

\* ( int32_t )( a - b ) and a + b on the counter.
Diff(a, b) == LET d == (a - b) % TimeWidth
              IN  IF 2 * d < TimeWidth THEN d ELSE d - TimeWidth
Plus(a, d) == (a + d) % TimeWidth

\* task->priority: the lower value wins, SCHEDULE before ASAP, then by hook.
Priority(st, h) == IF st = "schedule" THEN h ELSE NbHooks + h

Waiting(t)   == t.st \in {"schedule", "asap"}
Live(t)      == t.st \in {"schedule", "asap", "running"}
Running(tk)  == tk[radioTask].st = "running"

FreedLate(t) == [t EXCEPT !.start = 0, !.init = 0, !.dur = 0]  \* mutant
Freed(t)     == [t EXCEPT !.st = "finished", !.start = 0, !.init = 0, !.dur = 0]
Aborted(t)   == [t EXCEPT !.st = "aborted"]

\* rp_task_update_time: a waiting ASAP task moves to now, or becomes a SCHEDULE
\* task when it has waited too long; a running reception stretches to now.
Updated(tk, at) ==
    [h \in Hook |->
        LET t    == tk[h]
            wait == Diff(at, t.init)
        IN  IF t.st = "asap" /\ wait > AsapTrig
            THEN [t EXCEPT !.st = "schedule", !.prio = Priority("schedule", h),
                           !.start = Plus(at, RescheduleOffset)]
            ELSE IF t.st = "asap" /\ wait > 0
            THEN [t EXCEPT !.start = at]
            ELSE IF h = radioTask /\ t.st = "running" /\ t.kind = "rx"
            THEN [t EXCEPT !.dur = Plus(at, Margin + 2 - t.start)]
            ELSE t]

\* The garbage collector of select_next and get_next: SCHEDULE tasks in the past.
Collected(tk, at) ==
    [h \in Hook |-> IF tk[h].st = "schedule" /\ Diff(tk[h].start, at) < 0
                    THEN Aborted(tk[h]) ELSE tk[h]]

NotPast(tk, at)  == {h \in Hook : Waiting(tk[h]) /\ Diff(tk[h].start, at) >= 0}
Eligible(tk, at) == NotPast(tk, at) \union {h \in Hook : tk[h].st = "running"}

FirstWorst(tk, S) == CHOOSE h \in S : \A g \in S : tk[h].prio >= tk[g].prio  \* mutant
First(tk, S) == CHOOSE h \in S : \A g \in S : tk[h].prio <= tk[g].prio
Last(tk, S)  == CHOOSE h \in S : \A g \in S : tk[h].prio >= tk[g].prio

\* Task h ends before task g starts, though not before at.
EndsBefore(tk, at, h, g) ==
    LET end == Plus(tk[h].start, tk[h].dur)
    IN  Diff(end, tk[g].start) < 0 /\ Diff(end, at) >= 0

\* rp_task_select_next: the best-ranked eligible task, unless one ranked after it
\* ends before it starts; that one may be displaced in turn, in ranking order.
Selected(tk, at) ==
    LET E == Eligible(tk, at)
    IN  MapThenFoldSet(LAMBDA h, cur : IF EndsBefore(tk, at, h, cur) THEN h ELSE cur,
                       First(tk, E), LAMBDA h : h, LAMBDA S : Last(tk, S), E)

\* rp_task_get_next: the waiting task that starts first; of two, the lower hook.
IsNext(tk, at, h) ==
    LET key(g) == Diff(tk[g].start, at) * NbHooks + g
    IN  \A g \in NotPast(tk, at) : key(h) <= key(g)

-----------------------------------------------------------------------------
(* The call stack *)

Fr(pc, h, at) == [pc |-> pc, hook |-> h, at |-> at]
ArbiterFrame  == Fr("arbiter", None, 0)
CollectFrame  == Fr("collect", None, 0)
AlarmFrame    == Fr("alarm", None, 0)
IrqFrame      == Fr("radioirq", None, 0)
UnmaskFrame   == Fr("unmask", None, 0)

At(pc)     == stk # <<>> /\ Head(stk).pc = pc
Return     == stk' = Tail(stk)
Goto(f)    == stk' = <<f>> \o Tail(stk)
Call(f, g) == stk' = <<f, g>> \o Tail(stk)  \* run f, then go on with g

\* rp_hal_critical_section_begin and _end disable and enable the interrupts; they
\* do not count.  A section around calls ends in a frame of its own.
InSection(frame, rest) == masked' = TRUE /\ stk' = <<frame, UnmaskFrame>> \o rest
EmptySection(rest)     == masked' = FALSE /\ stk' = rest

CanInterrupt == ~isr /\ (CriticalMasks => ~masked)
AlarmDue     == alarm # None /\ Diff(alarm, now) <= 0
MainIdle     == stk = <<>>  \* an interrupt may have become due just now

-----------------------------------------------------------------------------
Init ==
    /\ task = [h \in Hook |-> [st |-> "finished", kind |-> "none", prio |-> 0,
                               start |-> 0, init |-> 0, dur |-> 0]]
    /\ radioTask = 0 /\ timerHook = 0
    /\ prioTask = [hook |-> 0, st |-> "finished", start |-> 0]
    /\ haveTimer = FALSE /\ semRadio = FALSE /\ semAbort = FALSE
    /\ status = [h \in Hook |-> "init"]
    /\ now = Boot /\ alarm = None
    /\ op = None /\ aired = FALSE /\ flags = FALSE /\ irqPend = FALSE
    /\ stk = <<>> /\ isr = FALSE /\ masked = FALSE
    /\ preempted = FALSE /\ revived = FALSE
    /\ owed = [h \in Hook |-> FALSE] /\ calls = 0

EnqueueAlways(h, r, rest) ==  \* mutant: a running task is overwritten too
    LET start == Plus(now, r.offset)
    IN  /\ task' = [task EXCEPT ![h] =
               [st |-> r.st, kind |-> r.kind, prio |-> Priority(r.st, h),
                start |-> start, init |-> start, dur |-> r.dur]]
        /\ status' = [status EXCEPT ![h] = "init"]
        /\ owed' = [owed EXCEPT ![h] = TRUE]
        /\ IF semRadio THEN EmptySection(rest) ELSE InSection(ArbiterFrame, rest)

\* rp_task_enqueue, returning to the frames of rest.  A running task refuses it;
\* any other task of the hook is overwritten, its callback with it.
Enqueue(h, r, rest) ==
    LET start == Plus(now, r.offset)
    IN  IF task[h].st = "running"
        THEN /\ EmptySection(rest)
             /\ UNCHANGED <<task, status, owed>>
        ELSE /\ task' = [task EXCEPT ![h] =
                   [st |-> r.st, kind |-> r.kind, prio |-> Priority(r.st, h),
                    start |-> start, init |-> start, dur |-> r.dur]]
             /\ status' = [status EXCEPT ![h] = "init"]
             /\ owed' = [owed EXCEPT ![h] = TRUE]
             /\ IF semRadio THEN EmptySection(rest) ELSE InSection(ArbiterFrame, rest)

MainEnqueue(h) ==
    /\ MainIdle /\ calls < MaxCalls
    /\ \E r \in Requests[h] : Enqueue(h, r, <<>>)
    /\ calls' = calls + 1
    /\ UNCHANGED <<radioTask, prioTask, timerHook, haveTimer, semRadio, semAbort,
                   now, alarm, radio, isr, preempted, revived>>

\* rp_task_abort: a running task ends as if the radio had interrupted.
MainAbort(h) ==
    /\ MainIdle /\ calls < MaxCalls /\ h \in Abortable
    /\ task[h].st # "finished"
    /\ IF task[h].st = "running"
       THEN InSection(IrqFrame, <<>>) /\ UNCHANGED task
       ELSE /\ task' = [task EXCEPT ![h] = Aborted(@)]
            /\ IF semRadio THEN EmptySection(<<>>) ELSE InSection(ArbiterFrame, <<>>)
    /\ calls' = calls + 1
    /\ UNCHANGED <<radioTask, prioTask, timerHook, haveTimer, semRadio, semAbort,
                   status, now, alarm, radio, isr, preempted, revived, owed>>

-----------------------------------------------------------------------------
(* rp_task_arbiter *)

\* Update the times, collect what is past and select the next task.
ArbiterSelect ==
    /\ At("arbiter")
    /\ LET tk == Collected(Updated(task, now), now)
       IN  /\ task' = tk
           /\ \E h \in Eligible(tk, now) :
                /\ h = Selected(tk, now)
                /\ prioTask' = [hook |-> h, st |-> tk[h].st, start |-> tk[h].start]
    /\ Goto(Fr("dispatch", None, now))
    /\ UNCHANGED <<radioTask, timerHook, haveTimer, semRadio, semAbort, status,
                   now, alarm, radio, context, owed, calls>>

\* No more tasks: only the callbacks of the aborted ones are left to do.
ArbiterNothing ==
    /\ At("arbiter")
    /\ LET tk == Collected(Updated(task, now), now)
       IN  /\ task' = tk
           /\ Eligible(tk, now) = {}
    /\ Goto(CollectFrame)
    /\ UNCHANGED <<radioTask, prioTask, timerHook, haveTimer, semRadio, semAbort,
                   status, now, alarm, radio, context, owed, calls>>

Delay        == Diff(prioTask.start, Head(stk).at)
DispatchNow  == At("dispatch") /\ Delay \in 0 .. Margin
ExpiredFrame == Fr("expired", None, Head(stk).at)

\* The selected task is in the future, already runs, or (an error) is past.
DispatchKeep ==
    /\ At("dispatch")
    /\ DispatchNow => Running(task) /\ radioTask = prioTask.hook
    /\ task' = IF Delay < 0 /\ prioTask.st # "running"
               THEN [task EXCEPT ![prioTask.hook] = Aborted(@)] ELSE task
    /\ Goto(ExpiredFrame)
    /\ UNCHANGED <<radioTask, prioTask, timerHook, haveTimer, semRadio, semAbort,
                   status, now, alarm, radio, context, owed, calls>>

\* Task g takes over from task h, which is called back later.
KeptRunning(tk, h, g) == [tk EXCEPT ![g].st = "running"]  \* mutant
HandedOver(tk, h, g)  == [tk EXCEPT ![h].st = "aborted", ![g].st = "running"]

\* ral_set_sleep: what the radio was doing is lost.
NoSleep == UNCHANGED <<op, aired>>  \* mutant
Sleep   == op' = None /\ aired' = FALSE

\* rp_hal_irq_get_pending: an interrupt of the task that loses the radio is to come.
NothingLatched == FALSE  \* mutant
IrqLatched     == PendingVisible /\ irqPend

\* The selected task is due: it takes the radio from the task that has it.
DispatchPreempt ==
    /\ DispatchNow
    /\ Running(task) /\ radioTask # prioTask.hook
    /\ task' = HandedOver(task, radioTask, prioTask.hook)
    /\ radioTask' = prioTask.hook
    /\ semAbort' = IrqLatched
    /\ Sleep /\ flags' = FALSE
    /\ Call(Fr("launch", prioTask.hook, now), ExpiredFrame)
    /\ UNCHANGED <<prioTask, timerHook, haveTimer, semRadio, status, now, alarm,
                   irqPend, context, owed, calls>>

\* The selected task is due and the radio sleeps.
DispatchStart ==
    /\ DispatchNow
    /\ ~Running(task)
    /\ task' = [task EXCEPT ![prioTask.hook].st = "running"]
    /\ radioTask' = prioTask.hook
    /\ Call(Fr("launch", prioTask.hook, now), ExpiredFrame)
    /\ UNCHANGED <<prioTask, timerHook, haveTimer, semRadio, semAbort, status, now,
                   alarm, radio, context, owed, calls>>

\* The timer expired for a task that was not selected: give that task up.  The start
\* of a free slot, 0, may pass for such a task.  Then collect the aborted tasks,
\* unless the radio is busy.
AnySelected == TRUE  \* mutant
Unselected  == timerHook # prioTask.hook

Expired ==
    LET tmp == Diff(task[timerHook].start, Head(stk).at)
    IN  tmp > 0 /\ tmp < Margin /\ haveTimer /\ Unselected

ArbiterExpired ==
    /\ At("expired")
    /\ task' = IF Expired THEN [task EXCEPT ![timerHook].st = "aborted"] ELSE task
    /\ revived' = (revived \/ (Expired /\ task[timerHook].st = "finished"))
    /\ IF task'[radioTask].st = "running"
       THEN Goto(AlarmFrame) ELSE Call(CollectFrame, AlarmFrame)
    /\ UNCHANGED <<radioTask, prioTask, timerHook, haveTimer, semRadio, semAbort,
                   status, now, alarm, radio, isr, masked, preempted, owed, calls>>

\* rp_task_get_next and rp_set_alarm.
ArbiterAlarm ==
    /\ At("alarm")
    /\ LET tk == Collected(task, now)
       IN  /\ task' = tk
           /\ haveTimer' = (NotPast(tk, now) # {})
           /\ \/ \E h \in NotPast(tk, now) :
                    LET wait == Diff(tk[h].start, now)
                    IN  /\ IsNext(tk, now, h)
                        /\ timerHook' = h
                        /\ alarm' = Plus(now, IF wait > Margin THEN wait - Margin ELSE 1)
              \/ NotPast(tk, now) = {} /\ UNCHANGED <<timerHook, alarm>>
    /\ Return
    /\ UNCHANGED <<radioTask, prioTask, semRadio, semAbort, status, now, radio, context,
                   owed, calls>>

-----------------------------------------------------------------------------
(* The launch callbacks of the hooks *)

\* The tx and rx launch callbacks busy-wait for the start time, then start the
\* radio; the launch callback of the suspend hooks starts nothing.
LaunchAtOnce ==  \* mutant
    /\ At("launch")
    /\ LET h == Head(stk).hook
       IN  IF task[h].kind \in {"tx", "rx"} THEN op' = h /\ aired' = FALSE
           ELSE task[h].kind = "none" /\ UNCHANGED <<op, aired>>
    /\ Return
    /\ UNCHANGED <<planner, now, alarm, flags, irqPend, context, owed, calls>>
LaunchRadio ==
    /\ At("launch")
    /\ LET h == Head(stk).hook
       IN  IF task[h].kind \in {"tx", "rx"}
           THEN Diff(task[h].start, now) <= 0 /\ op' = h /\ aired' = FALSE
           ELSE task[h].kind = "none" /\ UNCHANGED <<op, aired>>
    /\ Return
    /\ UNCHANGED <<planner, now, alarm, flags, irqPend, context, owed, calls>>

\* The launch callback of the LBT hook senses the carrier with the radio's
\* interrupts off, sets its status and calls rp_radio_irq_callback itself.
LaunchListen ==
    /\ At("launch")
    /\ task[Head(stk).hook].kind = "lbt"
    /\ Sleep
    /\ Goto([Head(stk) EXCEPT !.pc = "listen"])
    /\ UNCHANGED <<planner, now, alarm, flags, irqPend, context, owed, calls>>

ListenDone ==
    /\ At("listen")
    /\ status' = [status EXCEPT ![Head(stk).hook] = "done"]
    /\ Goto(IrqFrame)
    /\ UNCHANGED <<task, radioTask, prioTask, timerHook, haveTimer, semRadio,
                   semAbort, now, alarm, radio, context, owed, calls>>

-----------------------------------------------------------------------------
(* Callbacks *)

\* rp_task_call_aborted: one scan of the table, one callback per aborted task;
\* what is aborted behind the scan waits for the next one.
AbortedButLast(h) ==  \* mutant
    {g \in 0 .. NbHooks - 2 : task[g].st = "aborted" /\ (h # None => g > h)}
AbortedAfter(h) == {g \in Hook : task[g].st = "aborted" /\ (h # None => g > h)}

CollectNext ==
    /\ At("collect")
    /\ \E h \in AbortedAfter(Head(stk).hook) :
        /\ \A g \in AbortedAfter(Head(stk).hook) : h <= g
        /\ task' = [task EXCEPT ![h] = Freed(@)]
        /\ status' = [status EXCEPT ![h] = "aborted"]
        /\ Call(Fr("callback", h, 0), Fr("collect", h, 0))
    /\ UNCHANGED <<radioTask, prioTask, timerHook, haveTimer, semRadio, semAbort,
                   now, alarm, radio, context, owed, calls>>

CollectEnd ==
    /\ At("collect")
    /\ AbortedAfter(Head(stk).hook) = {}
    /\ Return
    /\ UNCHANGED <<planner, now, alarm, radio, context, owed, calls>>

\* rp_hook_callback: the user learns the status, then its handler goes on.
Callback ==
    /\ At("callback")
    /\ owed' = [owed EXCEPT ![Head(stk).hook] = FALSE]
    /\ Goto([Head(stk) EXCEPT !.pc = "handler"])
    /\ UNCHANGED <<planner, now, alarm, radio, context, calls>>

\* A class C callback asks for its next reception, an LBT callback that found the
\* channel free enqueues the transmission; the others just return.
Chained(h) == Chains[h][status[h]]

HandlerEnqueue ==
    /\ At("handler")
    /\ \E h \in Chained(Head(stk).hook) \ {None} : \E r \in Requests[h] :
            Enqueue(h, r, Tail(stk))
    /\ UNCHANGED <<radioTask, prioTask, timerHook, haveTimer, semRadio, semAbort,
                   now, alarm, radio, isr, preempted, revived, calls>>

\* The end of rp_task_enqueue or rp_task_abort after a call of the arbiter.
SectionEnd ==
    /\ At("unmask")
    /\ masked' = FALSE
    /\ Return
    /\ UNCHANGED <<planner, now, alarm, radio, isr, preempted, revived, owed, calls>>

HandlerReturn ==
    /\ At("handler")
    /\ None \in Chained(Head(stk).hook)
    /\ Return
    /\ UNCHANGED <<planner, now, alarm, radio, context, owed, calls>>

-----------------------------------------------------------------------------
(* rp_radio_irq, called by the radio handler, by rp_task_abort and by LBT *)

\* An interrupt of a task that lost the radio: only the semaphore is cleared.
IrqIgnore ==
    /\ At("radioirq")
    /\ semAbort
    /\ semAbort' = FALSE
    /\ Return
    /\ UNCHANGED <<task, radioTask, prioTask, timerHook, haveTimer, semRadio, status,
                   now, alarm, radio, context, owed, calls>>

\* rp_irq_get_status: LBT has set its status itself and leaves the flags alone.
IrqStatus(t, old) == IF t.kind = "lbt" THEN old
                     ELSE IF flags THEN "done" ELSE "aborted"

IrqServe ==
    /\ At("radioirq")
    /\ ~semAbort /\ Live(task[radioTask])
    /\ semRadio' = TRUE
    /\ status' = [status EXCEPT ![radioTask] = IrqStatus(task[radioTask], @)]
    /\ flags' = (flags /\ task[radioTask].kind = "lbt")
    /\ task' = [task EXCEPT ![radioTask] = Freed(@)]
    /\ Sleep
    /\ Call(Fr("callback", radioTask, 0), Fr("irqdone", None, 0))
    /\ UNCHANGED <<radioTask, prioTask, timerHook, haveTimer, semAbort, now, alarm,
                   irqPend, context, owed, calls>>

\* "radio planner it but no more task activated"
IrqIdle ==
    /\ At("radioirq")
    /\ ~semAbort /\ ~Live(task[radioTask])
    /\ Return
    /\ UNCHANGED <<planner, now, alarm, radio, context, owed, calls>>

IrqCollect ==
    /\ At("irqdone")
    /\ Call(CollectFrame, Fr("irqend", None, 0))
    /\ UNCHANGED <<planner, now, alarm, radio, context, owed, calls>>

IrqEndQuiet ==  \* mutant: the arbiter is not called again
    /\ At("irqend")
    /\ semRadio' = FALSE
    /\ Return
    /\ UNCHANGED <<task, radioTask, prioTask, timerHook, haveTimer, semAbort, status,
                   now, alarm, radio, context, owed, calls>>

IrqEnd ==
    /\ At("irqend")
    /\ semRadio' = FALSE
    /\ Goto(ArbiterFrame)
    /\ UNCHANGED <<task, radioTask, prioTask, timerHook, haveTimer, semAbort, status,
                   now, alarm, radio, context, owed, calls>>

-----------------------------------------------------------------------------
(* The hardware: clock, radio, interrupts *)

\* Code takes no time except in its busy waits, and an interrupt that can be
\* taken is taken at once.
BusyWait ==
    \/ At("launch") /\ task[Head(stk).hook].kind \in {"tx", "rx"}
                    /\ Diff(task[Head(stk).hook].start, now) > 0
    \/ At("listen") /\ Diff(now, Head(stk).at) < ListenTime

Overdue ==
    /\ op # None /\ op \notin Endless /\ aired
    /\ LET t == task[op]
       IN  Diff(now, t.start) >= IF t.kind = "tx" THEN t.dur + Overrun ELSE Longest

Tick ==
    /\ now # Horizon
    /\ ~Overdue
    /\ stk = <<>> \/ BusyWait
    /\ ~(CanInterrupt /\ (irqPend \/ AlarmDue))
    /\ now' = Plus(now, 1)
    /\ aired' = (op # None)
    /\ UNCHANGED <<planner, alarm, op, flags, irqPend, stk, context, owed, calls>>

\* The radio completes what it does: a transmission, a reception, a timeout.
RadioDone ==
    /\ op # None /\ aired
    /\ op' = None /\ aired' = FALSE /\ flags' = TRUE /\ irqPend' = TRUE
    /\ UNCHANGED <<planner, now, alarm, stk, context, owed, calls>>

RadioInterrupt ==
    /\ irqPend /\ CanInterrupt
    /\ irqPend' = FALSE
    /\ isr' = TRUE /\ preempted' = (preempted \/ stk # <<>>)
    /\ stk' = <<IrqFrame, Fr("reti", None, 0)>> \o stk
    /\ UNCHANGED <<planner, now, alarm, op, aired, flags, masked, revived, owed, calls>>

TimerInterrupt ==
    /\ AlarmDue /\ CanInterrupt
    /\ alarm' = None
    /\ isr' = TRUE /\ preempted' = (preempted \/ stk # <<>>)
    /\ stk' = <<ArbiterFrame, Fr("reti", None, 0)>> \o stk
    /\ UNCHANGED <<planner, now, radio, masked, revived, owed, calls>>

InterruptReturn ==
    /\ At("reti")
    /\ isr' = FALSE
    /\ Return
    /\ UNCHANGED <<planner, now, alarm, radio, masked, preempted, revived, owed, calls>>

-----------------------------------------------------------------------------
Step ==
    \/ ArbiterSelect \/ ArbiterNothing
    \/ DispatchKeep \/ DispatchPreempt \/ DispatchStart
    \/ ArbiterExpired \/ ArbiterAlarm
    \/ LaunchRadio \/ LaunchListen \/ ListenDone
    \/ CollectNext \/ CollectEnd
    \/ Callback \/ HandlerEnqueue \/ HandlerReturn \/ SectionEnd
    \/ IrqIgnore \/ IrqServe \/ IrqIdle \/ IrqCollect \/ IrqEnd

Processor == Step \/ RadioInterrupt \/ TimerInterrupt \/ InterruptReturn

Next ==
    \/ \E h \in Hook : MainEnqueue(h) \/ MainAbort(h)
    \/ Processor
    \/ Tick \/ RadioDone

Spec == Init /\ [][Next]_vars

\* The processor goes on executing and takes its interrupts, time passes and the
\* radio ends what it started, except what is endless; the main loop promises nothing.
FairSpec == /\ Spec
            /\ WF_vars(Processor) /\ WF_vars(Tick)
            /\ WF_vars(op \notin Endless /\ RadioDone)

-----------------------------------------------------------------------------
(* Properties *)

TypeOK ==
    /\ task \in [Hook -> Task]
    /\ {radioTask, timerHook} \subseteq Hook
    /\ prioTask \in [hook : Hook, st : State, start : Time]
    /\ {haveTimer, semRadio, semAbort, aired, flags, irqPend,
        isr, masked, preempted, revived} \subseteq BOOLEAN
    /\ status \in [Hook -> Status]
    /\ now \in Time /\ alarm \in Time \union {None}
    /\ op \in Hook \union {None}
    /\ stk \in Seq(Frame)
    /\ owed \in [Hook -> BOOLEAN]
    /\ calls \in 0 .. MaxCalls

\* Only the task the planner calls the radio task is running.
OneRunning == \A h \in Hook : task[h].st = "running" => h = radioTask

\* The radio works for the running task: between two tasks it is put to sleep, and
\* no launch is carried out for a task that lost the radio meanwhile.  A handler that
\* comes into a call of the main loop may make it false.
RadioOwned == op # None => op = radioTask /\ Running(task)

\* What makes it so until then: between its selection and its launch nothing happens
\* to a task; and the task the timer is set for is not the running one, except inside
\* the arbiter that has just started it.
Passing      == {"dispatch", "launch", "listen"}
Deep(s)      == \A i \in DOMAIN s : s[i].pc \notin Passing
TopOnly      == stk # <<>> => Deep(Tail(stk))
SelectionOK  == At("dispatch") => prioTask.st = task[prioTask.hook].st
BeforeExpiry == Len(stk) >= 2 /\ stk[2].pc = "expired"
LaunchOK     == At("launch") \/ At("listen")
                  => Head(stk).hook = radioTask /\ Running(task) /\ BeforeExpiry
TimerOK ==
    haveTimer /\ task[timerHook].st = "running"
    => /\ timerHook = prioTask.hook
       /\ \/ At("launch") \/ At("listen") \/ At("expired") \/ At("alarm")
          \/ At("radioirq") /\ BeforeExpiry
Exclusive    == RadioOwned /\ TopOnly /\ SelectionOK /\ LaunchOK /\ TimerOK
ExclusiveInv == OneRunning /\ (~preempted => Exclusive)

\* Every accepted task is answered exactly once: its user is owed a callback as
\* long as the task is in the table or its callback is about to be called.  Until a
\* handler comes into a call, no task is dropped; and nobody is called back for
\* nothing, until a free slot passes for an expired task.
Answering(h) == \E i \in DOMAIN stk : stk[i].pc = "callback" /\ stk[i].hook = h
InHand(h)    == task[h].st # "finished" \/ Answering(h)
NotDropped   == \A h \in Hook : owed[h] => InHand(h)
NotForNought == \A h \in Hook : InHand(h) => owed[h]
OwedOnce     == ~preempted => NotDropped /\ (~revived => NotForNought)

\* When the processor sleeps, a waiting task is never forgotten: the radio is
\* busy, or the timer is armed.
NoLostWakeup ==
    stk = <<>> /\ (\E h \in Hook : Waiting(task[h]))
        => alarm # None \/ irqPend \/ Running(task)

\* When the processor sleeps and no task runs, no aborted task waits for its callback.
AbortsAnswered ==
    stk = <<>> /\ ~Running(task) => \A h \in Hook : task[h].st # "aborted"

\* A processor that sleeps has forgotten no task: neither one to launch nor one to
\* call back, whichever calls, callbacks and interrupts came before.
NothingForgotten == NoLostWakeup /\ AbortsAnswered

\* A radio interrupt ends the radio task only if the radio has completed: an
\* interrupt latched for a task that lost the radio must not end its successor.
FromHandler == Len(stk) >= 2 /\ stk[2].pc = "reti"
NoStaleInterrupt ==
    At("radioirq") /\ FromHandler /\ ~semAbort /\ Running(task)
        /\ task[radioTask].kind # "lbt"
    => flags

\* The radio starts a task at the time the task asked for: the alarm is early enough
\* and the launch waits for the rest, if no handler has come into a call.
StartsOnTime ==
    [][~preempted => \A h \in Hook : op # h /\ op' = h => now = task[h].start]_vars

\* A running task loses the radio only if a task in the table is ranked before it, or if
\* it was launched ahead of its start and another task ends before that start.
Handover == Running(task) /\ radioTask' # radioTask
Outranks(h, g) == task[h].prio < task[g].prio
BestKeepsRadio ==
    [][Handover => \E h \in Hook \ {radioTask} :
           /\ Live(task[h])
           /\ Outranks(h, radioTask) \/ EndsBefore(task, now, h, radioTask)]_vars

\* Until a handler comes into a call of the main loop, what the users see is what
\* RadioService promises.
PhaseOf(h) ==
    IF ~owed[h] THEN "idle"
    ELSE CASE Waiting(task[h])         -> "waiting"
           [] task[h].st = "running"   -> "onair"
           [] OTHER                    -> "closing"
Service == INSTANCE RadioService WITH phase <- [h \in Hook |-> PhaseOf(h)], user <- op
Promised == Service!Init /\ [][~preempted => Service!Next]_(Service!vars)

\* Every task that is accepted is eventually answered, endless receptions apart.
Users    == {h \in Hook : Requests[h] # {}}
Answered == \A h \in Users \ Endless : owed[h] ~> ~owed[h]
=============================================================================
