# TLA+ development of the LoRa Basics Modem firmware

The repository is the firmware of a tracker built on an nRF52840 and an LR1110
radio. Its own logic is Semtech's LoRa Basics Modem under
`src/lora_basic_modem_sdk`; the nRF5 SDK around it (`components`, `modules`,
`external`, `integration`, `config`) and SEGGER RTT are vendored. This directory
models that logic in TLA+, checks it with TLC and proves part of it with TLAPS.
Paths below are relative to
`src/lora_basic_modem_sdk/lora_basics_modem/smtc_modem_core` unless they start with `smtc_hal`.

## 1. Inventory

The processor runs one main loop, `smtc_modem_run_engine`, and two interrupt
handlers, of the radio's line and of the low-power timer. The handlers have one
priority: they interrupt the main loop and never each other. There is no RTOS;
everything that is concurrent is main loop against handlers, and processor
against radio.

| component | state it keeps | operations | talks to |
|---|---|---|---|
| radio planner (`radio_planner/src/radio_planner.c`) | one task per hook (8), the radio task, the selected task, timer hook, two semaphores, status per hook | `rp_task_enqueue`, `rp_task_abort`, `rp_radio_irq`, `rp_timer_irq`, the arbiter | calls launch callbacks and user callbacks; driven by both handlers and by the main loop |
| HAL of the port (`smtc_hal/Nordic/nrf52840`) | timer, pins, flash pages | critical sections, one-shot timer, pending-interrupt query, store and restore of contexts | planner, MAC, fifo |
| LBT (`lr1mac/src/services/smtc_lbt.c`) | status of one carrier sense | listen, launch callback, planner callback | a hook of the planner; calls the MAC back |
| class A MAC (`lr1mac/src/lr1mac_core.c`, `lr1_stack_mac_layer.c`) | engine state, radio state, counters, repetitions, DevNonce, received frame | join, payload send, process, abort, planner callback | polled by the supervisor; hook 2 of the planner |
| class C and multicast (`lr1mac/src/lr1mac_class_c`) | five sessions with channel and downlink counter, enabled and started flags | start, stop, configure a group, start and stop a session, planner callback | hook 7 of the planner; writes the MAC's counter |
| duty cycle (`lr1mac/src/services/smtc_duty_cycle.c`) | a ring of time on air per band, the time of the last sum | update, sum, is a channel free, next free time, enablement | MAC, regions, supervisor |
| regions (`lr1mac/src/smtc_real`) | channel plans, data rates | next channel, data rates, masks | MAC |
| modem supervisor (`modem_supervisor`) | task table, next task, join status bits | add, elect, launch, update, engine | MAC, services, API |
| modem API, device management (`modem_core`, `device_management`) | modem context, event queue, status bits | the public API, DM uplinks and downlinks | supervisor, application |
| fifo and events (`modem_services/fifo_ctrl.c`, `device_management/modem_context.c`) | byte ring of downlinks; stack of event types with a count of each | set (drops oldest), get; raise, report | written by the engine and from handlers, read by the application |
| stream (`smtc_modem_services/src/stream`) | FIFO of octets, window, redundancy account, flags | add a record, make a frame, obey the server | host, supervisor, device management |
| clock synchronisation (`modem_services/smtc_clock_sync.c`, `smtc_modem_services/src/alc_sync`) | service, status, time correction, token, forced repetitions; in the MAC the stamp of the request and the seconds of the answer | start, stop, request, set and get the time, callback, parser of the network's messages | supervisor, device management, class A MAC |
| other services (`smtc_modem_services`) | file upload, almanac | timed uplinks and their answers | supervisor |
| radio drivers, crypto, certification, test mode, application, board | none relevant, or pure data | | |

What is hard here, and the properties that make each part right:

- **Planner.** Handlers preempt the main loop inside its calls; callbacks call the
  planner back; the radio may complete just as it is taken away; times wrap.
  Right means: the radio has one user and it is the running task; every accepted
  task is answered once, and eventually; no waiting task is forgotten by a
  sleeping processor; a task starts exactly when it asked to; a running task
  loses the radio only to a better one.
- **Class A MAC.** The planner's answers come from a handler at any point of the
  polling; leave and resets come at any point of a cycle. Right means: MAC and
  planner agree on whether an answer is outstanding; a frame is not repeated more
  than agreed; a frame counter and a DevNonce are not used for two frames; every
  cycle ends.
- **Class C.** The callback of the reception, which starts the next one, runs from
  interrupts in the middle of the calls that start class C and change its sessions;
  counters are copied between class A and class C. Right means: a device whose class
  C has started is never deaf for good; it listens where its sessions are; a frame of
  a group is taken once.
- **Supervisor.** The host, the network and the engine put tasks into one table and
  take them out: while the engine launches one of them, and while the MAC works on
  the one launched last. Right means: whoever is to come back has a task in the
  table or in flight (a join that goes on, a mute that ends, an upload, a status
  report, a duty cycle to be enabled again); an uplink that was accepted is closed.
- **Fifo and events.** Records of variable size are dropped under a reader; an event
  is raised from an interrupt inside a raise or a report of the main loop. Right means:
  the ring is a queue that drops its oldest; every downlink is handed over or displaced;
  the stack stays in its array and names what was counted.
- **Stream.** The server changes the length of the window while octets wait. Right
  means: no octet is lost, repeated or wrongly labelled, the areas of the FIFO do not
  run into each other, and everything is sent in the end.
- **Duty cycle.** An hour's sum in two-minute buckets over a clock that wraps. Right
  means: no time on air is forgotten before its age, and the wait it announces is exact.
- **Clock synchronisation.** Requests are repeated while answers to the earlier ones are on
  their way; in class C an answer comes from an interrupt during the launch of the task it puts
  off; host and network start, stop and force requests in between. Right means: an answer is
  applied once, to what it was for; the service goes on while it is enabled; the loss of the
  time is noticed.
- **Other services.** Retries racing late answers.

`PROJECT.json` lists every component, and every hazard at its line.

## 2. Modules

| module | models |
|---|---|
| `RadioService` | the abstract promise of the planner to its users |
| `RadioPlanner` | `radio_planner.c` with its HAL, launch callbacks and hardware |
| `MCRadioPlanner` | instances of it for TLC |
| `RadioPlannerProofs` | `TypeCorrect`, `OneTaskRunning`; until a handler has come into a call of the main loop: `ExclusiveUse`, `RadioIsOwned`, the refinement `ServicePromised`, `OnTime`, `AnsweredOnce`, `AbortsCalledBack`, `SleepsSafely`, `InterruptsTimely`, `BestKeeps` |
| `Lr1Mac` | the class A engine, on the planner as `RadioService` promises it |
| `MCLr1Mac` | instances of it for TLC |
| `Lr1MacProofs` | its safety: `MacTypes`, `InterruptsExpected`, `KeepsInStep`, `RepetitionsBounded`, `NoncesFresh`, `CountersFresh` |
| `ModemSupervisor` | the task manager, with the host's calls and the network's commands |
| `ModemSupervisorProofs` | its safety: `TasksKept` and four theorems from it |
| `ClassC` | the class C engine and its multicast sessions |
| `ClassCProofs` | its safety: `ClassCTyped`, `ClassCListening`, `ClassCTuned`, `ClassCGroupsOnce` |
| `Stream` | `rose.c`, with the host, the server and the supervisor's task around it |
| `MCStream` | an instance for TLC |
| `StreamProofs` | its safety: `StreamTyped`, `StreamAreas`, `StreamInOrder`, `StreamRecordsBack` |
| `DownlinkQueue` | what the ring of downlinks promises: a queue that drops its oldest |
| `EventQueue` | the ring, octet by octet, and the stack of events, step by step |
| `EventQueueProofs` | the safety of the stack, `StackWhole` and `StackFits`; of the ring, `QueueOfDownlinks` (the refinement) and `RingAccounts`; and `EventTypes` |
| `DutyCycle` | the time on air of one band |
| `DutyCycleProofs` | its safety: `RingRemembers`, `WaitExact` |
| `ClockSync` | `smtc_clock_sync.c` and `alc_sync.c`, with the supervisor and the MAC around them |
| `ClockSyncProofs` | its safety: `TypeCorrect`, `TimeRight`, `GoesOn` |

How they fit together: `RadioPlanner` implements `RadioService`; `Lr1Mac` and `ClassC`
see their hook of the planner as `RadioService` promises it, `ClassC` with the radio
taken now and then by class A; `ModemSupervisor` sees a cycle of the MAC as `CycleEnds`
promises it; `Stream`, `EventQueue` and `ClockSync` see the passes of the supervisor's engine;
`DutyCycle` is what the choices "free or full" of the MAC and of the supervisor stand
for.

### RadioPlanner

The variables are the fields of `radio_planner_t`, the clock and its alarm, the
radio (`op`, what it works for; `flags`, its IRQ register; `irqPend`, the
latched line), and `stk`, the call stack. The stack is what makes the model
faithful to a program that calls itself back: `rp_task_enqueue` calls the
arbiter, which calls a launch callback, which for LBT calls `rp_radio_irq`, which
calls a user's callback, which enqueues again. A frame is a point of the code at
which something else may happen; between two such points code runs as one step.

| code | actions |
|---|---|
| `rp_task_enqueue`, `rp_task_abort` from the main loop | `MainEnqueue`, `MainAbort` |
| `rp_task_arbiter` | `ArbiterSelect`, `ArbiterNothing`, `DispatchKeep`, `DispatchPreempt`, `DispatchStart`, `ArbiterExpired`, `ArbiterAlarm` |
| `rp_task_update_time`, the garbage collection, `rp_task_select_next`, `rp_task_get_next` | operators `Updated`, `Collected`, `Selected`, `IsNext` |
| the launch callbacks | `LaunchRadio`, `LaunchListen`, `ListenDone`, with `BusyWait` letting time pass |
| `rp_task_call_aborted`, `rp_hook_callback` | `CollectNext`, `CollectEnd`, `Callback`, `HandlerEnqueue`, `HandlerReturn` |
| `rp_hal_critical_section_begin`, `_end` | `InSection`, `EmptySection`, `SectionEnd` |
| `rp_radio_irq` | `IrqIgnore`, `IrqServe`, `IrqIdle`, `IrqCollect`, `IrqEnd` |
| the hardware | `Tick`, `RadioDone`, `RadioInterrupt`, `TimerInterrupt`, `InterruptReturn` |

Two constants say what the HAL does. `CriticalMasks`: does an open critical section hold
the handlers off? `PendingVisible`: does `rp_hal_irq_get_pending` see a
latched interrupt? Both are TRUE of the HAL its header documents and FALSE of the
nRF52840 port in the repository, whose `hal_gpio_irq_disable` and
`hal_lp_timer_irq_disable` do nothing and whose `hal_gpio_is_pending_irq` returns
false. The runs take the documented HAL; the theorems hold for both.

The sections do not nest. `rp_hal_critical_section_begin` and `_end` only disable and
enable the interrupts (`radio_planner_hal.c:83-91`), so `masked` is one bit and not a
count: the first `_end` that is reached opens the section, whoever began it. In a call
of `rp_task_enqueue` or `rp_task_abort` that runs the arbiter this may be the enqueue of
a user's callback, of LBT for every transmission and of class C for every reception; the
rest of the outer call, with its callbacks, its arbiter, its launch and the busy wait
in it, can then be interrupted. The ghost `preempted` remembers that a handler has come into
a call of the main loop. What the planner promises until then is the subject of most
properties; what it no longer promises afterwards is `planner_sections`. (With
`CriticalMasks = FALSE` a handler comes wherever the code stands.) The ghost `revived`
remembers that the arbiter has aborted a free slot, which happens at the clock's
wrap (section 6).

`Chains` says what a callback may enqueue, for each status it is told: LBT sends when the
channel was free, class C listens again whatever it is told. `Boot` is the clock when
the planner is used first, so that a run can start just before the wrap.

Code takes no time outside its busy waits, and an interrupt that can be taken is
taken before time passes. Lateness of the processor is therefore not explored,
except for requests whose time has already passed (`Missed`).

### Lr1Mac

The variables are the fields of `lr1_stack_mac_t` that control depends on.
`lr1mac_core_process` is split where the planner's callback can come between:
around the flash store, before the window is asked for, and between
`rp_task_enqueue` and the assignment of `RADIOSTATE_RX_ON` (`pc`). One action per
state of the engine follows. What becomes of a window is a choice of `Windows`: it is
open, missed, or grazed, when the check at `lr1_stack_mac_layer.c:779` lets it pass though its
start is over and the planner gives it up inside the enqueue. The planner may also launch,
end or give up any window while the main loop is still in the enqueue: `RxStarted`
then overwrites the answer with RX_ON, which the ghost `overtaken` remembers, or the
callback panics (`Panic`). A cycle that waits for an answer already given is ended by
`Failsafe`. `slot` is the phase of the MAC's task in
`RadioService`; `Admit`, `End`, `GiveUp` and `Callback` are that specification
seen from one hook, with what `lr1_stack_mac_rp_callback` does in the last.
`MacUpdate` is `lr1mac_mac_update` with everything it calls: a join accept may be
refused, a channel may not be free, `link_adr` may change `nb_trans`.

The nonce page is a variable of its own: `nvm = None` between the erasure and the
write, so that a reset can hit the store. A reset also stands for the watchdog.

Left out of the model: ABP activation, the ADR back-off and the data rate, the
content of MAC commands beyond "there is something to answer", and what
`try_recover_nvm` restores after a reset besides the nonce.

### ModemSupervisor

`when` is the task table with the time of a task abstracted to off, later and due.
`next` is `next_task_id`; `pc` is the task being launched, between its `case` in
`modem_supervisor_launch_task` and the removal at the end of it, which is where a
command from the interrupt of class C can change the table under the launch.
The mute task takes a day off in three steps, `LaunchMute` (the test), `ReadDays` and
`SetDays`, with such commands in between; `OneLess` is the decrement in the octet.
Five of the tasks are modelled, one of each kind: the join, which comes back until it
succeeds; the host's uplink, with its emergency; the status report, which comes back
while joined; the upload, which comes back until the file is sent; and the mute, which
counts days. The MAC is what the supervisor sees of it: busy or idle, joined or
not, and for a join whether the accept has been received (`heard`) before the
engine's poll has seen it.

| code | actions |
|---|---|
| `modem_supervisor_launch_task` | `LaunchJoin`, `LaunchUplink` (host, report), `LaunchUpload`, `LaunchMute`, `ReadDays`, `SetDays`, `Remove` |
| `modem_supervisor_update_task` | `UpdateJoin`, `UpdateSend`, `UpdateDm`, `UpdateUpload`, `UpdateMute` |
| `modem_supervisor_scheduler`, `modem_supervisor_engine` | guards `Elected`, `Launch`, `Close`; the poll is `MacEnd` |
| `smtc_modem.c` | `JoinNetwork`, `LeaveNetwork`, `RequestUplink`, `Suspend`, `UploadInit`, `UploadStart`, `UploadReset` |
| `dm_parse_cmd` | `DmRejoin`, `DmRegion`, `DmFileDone`, `DmMute` |

Two ways out of the table are known to lose a task, and the ghost `dropped` names
what they lost: a leave and a change of region clear the whole table. The properties
say "unless a leave has dropped it", and section 6 says what that means.

Left out: the other ten tasks in use (of the same kinds, in `Stream` and `ClockSync`, or planned), the
alarm, the certification mode, a report interval of 0, a duty cycle
disabled by the host, the failsafe and resets (after which everything is as in `Init`,
except for what the modem context restores). Closing a task and clearing
`next_task_id` is one step, so a command between the two is not explored.

### ClassC

`open`, `chan` and `fcnt` are `rx_session_param`, one entry for the unicast session (0)
and one for each group; a channel is a pair of a frequency and a data rate. `slot` is the
phase of the reception in the planner, `listen` the channel it was enqueued with, `air`
whether a task of class A has the radio. `pc` marks the points of the main loop's calls
at which an interrupt matters: between the enqueue of a start and `started = true`,
between the check of a class A downlink and the counter it sets, between the end of the
last session and the return of the unicast one, and before the abort of a reception.

| code | actions |
|---|---|
| `lr1mac_class_c_start` | `Begin`, in every action that starts; `Started` for its end |
| `lr1mac_class_c_rp_callback`, `lr1mac_class_c_mac_rp_callback` | `Answered`, `Outcome` with `Nothing` and `Frame`, in `Receive`, `Abort` and `ClassADone` |
| `lorawan_api_class_c_enabled`, join, leave | `Enable`, `Disable`, `Join` |
| class A around it | `ClassATask`, `ClassADone`, `Digest`, `Digested` |
| multicast | `Configure`, `StartSession`, `StopSession`, `StopAll`, `Stopped`, `AbortReception` |
| `smtc_modem_hal_lr1mac_panic` | `Reset` |

The network uses each counter as often as it likes: what is taken is up to `Accepts`,
the rebuilding of a counter from its low half. The ghosts `taken` and `twice` say what
was. `lapsed` and `stale` name the two ways out that the code has: an answer before
`started` is set, and a start that the planner refuses because the reception runs.
Left out: how a frame's address selects the session, the acknowledgement bit it leaves
to the MAC, and an interrupt inside the loop that stops all sessions (between two
groups it finds the remaining ones, after the last it is the gap of `Stopped`).

### Stream

The variables are the fields of `rose_t`; `added` and `records` are history. The FIFO is
kept octet by octet, so that shifts, clears and labels are real; the redundancy octets are
only counted, since they carry no new data. One action per call: a record of the host
(`AddRecord`), a new stream (`StreamInit`), each command of the server (`UpdateWindow`,
`UpdateRates`, `AskInfo`, `AckWindow`), and per launch one of the four ways through
`ROSE_getData`: `SendInfo`, `SendNothing`, `SendSpill` (octets left inside the redundancy area
by a longer window) and `SendData`. `Close` is the update of the supervisor's task. The
host, the engine and, in class A, the server's commands all run in the main loop, so calls
do not interleave. The server may ask for a window of any length at any time. One that is
made shorter by more octets than have been sent of the longer one puts `unsent` below the start of the
FIFO, where it wraps, and moves memory from outside it; the ghost `cut` remembers that. The
marks go on being followed, with their widths; a frame made of memory outside the FIFO
is not. `Read` is the server that
gets all the octets: it follows the marks from one to the next, as `ROSE_addRecord` has laid them,
and is external to the repository.

### EventQueue

The ring is written and read with the interrupts held off, so `Put` and `Take` are one step
each; its content is rebuilt from the octets (`Content`) and mapped to `DownlinkQueue`. The
stack is not protected: `RaiseTest`, `RaiseGrow`, `RaisePlace` and `RaiseCount` are the steps
of `increment_asynchronous_msgnumber` in the main loop, `GetEvent`, `GetLast`, `GetDownlink`,
`GetClear` and `GetShrink` those of `smtc_modem_get_event`, and `IrqRaise` is a whole raise
from an interrupt between any two of them. `RunEngine`, `Idle`, `Look` and `Again` are the
passes of the engine around the application's callback. `torn` remembers that an
interrupt has raised an event inside a raise or a report. `EventAssumption` says that there are no
more types than `Slots`: the API has sixteen (`smtc_modem_api.h:89`), and the array room for eighteen. And it
says that a buffer full of the shortest records holds no more of them than `CountMax`, an octet's 255, since the
downlinks waiting are counted in the octet of their type: the buffer has 512 octets (`lorawan_api.c:70`), and a record
several for its two lengths and its metadata.

### DutyCycle

One band: its ring, the time of the last sum and the index of its bucket, and the clock.
`Updated`, `Summed`, `Available`, `Free` and `NextFree` are the functions of the file;
`Send`, `Sent` and `Ask` are the places the MAC calls them from, `Enable` is the three modes.
`air` is history: what was on the air, by age. `Kept` is the age for which the ring can be
held to account, `Period - Unit - ((-Width) % Unit)`: a bucket is erased before its youngest
frame is an hour old, and after a wrap of the clock the buckets are read on a grid that
starts up to a unit earlier, since 2^32 ms is no multiple of a unit. In the code that is
3600 - 120 - 72.7 s. The value is the largest for which `Remembered` holds. `DutyCycleAssumption` says that
the budget of a band is no more than the period it is a share of (`Regulation <= Period`).

### ClockSync

Two services bring the time: a MAC command (DeviceTimeReq) whose answer comes in the windows of
its uplink, and messages of the application layer (AppTimeReq and AppTimeAns, the ALC package)
that may be answered late. Three tasks of the supervisor serve them: `timereq` asks periodically,
`alcans` answers the network and repeats what it forces, `devtime` is the single request of the
host. A time is represented by its distance from the right one: `error` is that of the
correction of the ALC, an AppTimeReq carries it (`fix`), and a taken answer subtracts what the
request had. For the MAC's time the ghost `right` says whether the stamp it is counted from is
that of the request that was answered. `time` abstracts the age: never set, valid, outdated.

| code | actions |
|---|---|
| `smtc_modem.c` | `StartService`, `StopService`, `Trigger`, `SetTime`, `Leave`; `OtherUplink` stands for the other tasks |
| `alc_sync_parser` with what its callers do | `AppTimeAns`, `PeriodicityReq`, `ForceResync`, `VersionReq` |
| `modem_supervisor_launch_task`, `clock_sync_request` | `LaunchTimeReq`, `LaunchAlcAns`, `LaunchDevTime`, `Remove` |
| `alc_sync_construct_app_time_request` | `TestRepetitions`, `CountRepetition`, `SendAppTimeReq` |
| `modem_supervisor_update_task`, `clock_sync_callback` | `CloseTimeReq`, `CloseAlcAns`, `CloseDevTime`; `Join` |
| the MAC | `TxDone`, `DeviceTimeAns`, `MacEnd`, and `Send`, which may refuse |
| time and the network | `FallDue`, `Outdate`, `LoseAnswer`, `Rejoin` |

Messages of the network come at any point of the engine, as in class C, also while an
AppTimeReq is built: its correction is read first (`fix`), the count of forced repetitions is
tested and then taken down (`build`, `count`; the decrement may use the value tested or read the
count again), and the token is read last. The ghosts `spoilt` and `wrong` remember that the
request on its way, or the answer taken last, has a correction of another time than its token. As in
`ModemSupervisor`, `pc` is the task between its launch and the removal at the end of it. Left out:
the intervals and retry periods (a task is due later, or now), the port, payloads that are too
long, the pending bits of version and periodicity answers, several commands in one message, the
retrieve task, certification, suspension and mute (which delay a launch), the drift of the clock
between two answers, and an interrupt between the test of a time's age and its loss inside the
callback.

## 3. Runs

Nine of the twelve runs hold; three show where the code disagrees with what it, or its
documentation, says.

| run | expects | question |
|---|---|---|
| `planner_safety` | pass | does the planner keep its promises, with suspension, class A, LBT and class C on its hooks? |
| `planner_live` | pass | is every task answered, across the wrap of the clock? |
| `planner_sections` | violation | has the radio one user, whatever interrupts a call of the main loop? |
| `mac_cycle` | pass | do MAC and planner stay in step, are counters and nonces fresh, do cycles end? |
| `mac_same_counter` | violation | is a counter used once when the network answers before it acknowledges? |
| `modem` | pass | does the task manager forget no task, give the duty cycle back, close each uplink? |
| `stream` | pass | does the stream deliver every octet once, in order and in the end? |
| `events` | pass | does the application get its downlinks and events, wherever interrupts fall? |
| `class_c` | pass | does a class C device listen, where it should, and take a group's frame once? |
| `class_c_panic` | violation | is the panic of a start without a session unreachable? |
| `duty_cycle` | pass | does the sliding hour forget nothing, and is the announced wait exact? |
| `clock_sync` | pass | is an answer applied once, does the ALC's service go on, and is the loss of its time reported? |

What the passing runs check:

- `TypeOK` of the MAC, the stream, the events and class C. Those of the planner, of the task manager and of
  the clock synchronisation are proved and not run.
- `OneRunning`: one task runs, and it is the radio task. `ExclusiveInv`: until a handler has
  come into a call of the main loop, the radio works for it (`RadioOwned`), and the
  rest of the inductive invariant.
- `OwedOnce`: until then a user is owed a callback exactly while its task is in the table or
  its callback is about to be called; up to the wrap's defect of section 6.
- `NothingForgotten`: a processor that sleeps has forgotten neither a waiting task
  (`NoLostWakeup`) nor an aborted one (`AbortsAnswered`).
- `NoStaleInterrupt`: a radio interrupt ends a task only when the radio has completed.
- `StartsOnTime`, `BestKeepsRadio`: action properties of launch and preemption, the first
  until a handler has come into a call.
- `Promised`: until then `RadioPlanner` implements `RadioService` under the mapping `PhaseOf`.
- `Answered`: a task is eventually answered, endless receptions apart.
- `InStep`, `NoUnexpectedInterrupt`: the MAC waits for an answer exactly when one is
  to come, and none comes in a state whose handler would panic; except for the window whose
  answer overtakes the setting of RX_ON (section 6).
- `Repetitions`, `FreshCounter`, `FreshNonce`, `CycleEnds`: see the comments of `Lr1Mac`.
- `TasksInHand` (`JoinInHand`, `MuteInHand`, `UploadInHand`), `DutyCycleBack`,
  `ReportsGoOn`: a state that a task must end has that task, whatever was called in between.
- `UplinkClosed`: an uplink of the host is closed (TXDONE), or replaced and then
  closed, unless the modem is suspended or muted for ever.
- `Areas`, `InOrder`, `RecordsBack`, `Drains`: the areas of the stream's FIFO, the octets
  against their labels, the server's reading of the records, and the end of the sending; the
  first, and that no octet is lost, until a window has cut off octets (`cut`).
- `InStack`, `Downlinks`, `Delivered`: unless torn by an interrupt the stack names each counted
  event once; the ring implements `DownlinkQueue`; and, torn or not, a downlink is handed
  over or displaced.
- `Listening`, `Tuned`, `GroupsOnce`, `Resumes`: class C is owed an answer, listens where its
  sessions are, takes a group's frame once, and listens again after each interruption.
- `Remembered`, `WaitsExactly`: the ring against what was really on the air, and the
  announced wait against what the ring says at its end and one tick before.

- `AlcTimeRight`, `ServiceGoesOn`, `AlcLossReported`: the time of the ALC is right once the network
  has set it (`wrong` excepts the time from an answer that came across a setting by the host, or
  across the building of its request, to the next answer), its periodic
  task is in the table or will be put back, and a time that grows too old is reported or renewed.

### Bounds

- `TimeWidth`, `Boot`, `Horizon`: in `planner_safety` the clock counts modulo 64, starts at 56 and
  stops at 6, across the wrap: 14 ticks, long enough for a window, an uplink, a suspension and the
  switch from ASAP to SCHEDULE to overlap, before the wrap, in it and after it; in `planner_live` it counts
  modulo 16 and never stops, so that every comparison meets the wrap. Margin (2),
  trigger (4) and offset (3) keep the order of the code's 8, 120000 and 2000 ms
  as far as tasks of 1 to 6 ticks can tell.
- `MaxCalls` calls of the main loop (2 or 3): with the chained requests of LBT and
  class C, three tasks compete, which is what preemption, displacement and the
  give-up of a blocked task need. Eight hooks exist; four are used, and two in
  `planner_sections`, where the counterexample needs no more.
- `Longest` (3) bounds receptions that end, `Overrun` (1) says that a transmission
  may outlast its estimate.
- In `Lr1Mac`: `MaxCalls` 5 calls, leaves and resets, four nonces (so that the last
  one is reached and stays), `nb_trans` up to 3, commands from the network while
  the counter is below 4. `Windows` has all three kinds of window.
- In `ModemSupervisor`: `MaxCalls` 6 calls and commands together, enough to join, request, be muted, rejoin and leave in one
  behaviour; mutes of up to 2 days, and 3 for the endless one, so that a
  count-down of more than one step and its last step happen.
- In `Stream`: a FIFO of 15 octets, windows of 4 and 9, payloads that do and do not hold
  more than a header, three records with and without octets that look like a tag, an octet
  of four values (so that a distance can wrap), three commands or new streams. Windows are
  shortened and lengthened with octets waiting, spill into the redundancy area and drain; windows
  of 4, 9 and 4 octets in turn cut off octets that have not been sent.
- In `EventQueue`: a ring of 7 octets with records of 3 and 5, so that records wrap, fill
  the ring and displace one or two others; three downlinks and two events raised, one type
  by the engine and an interrupt both.
- In `ClassC`: two groups, two channels, counters 0 to 3 of which the low half has three
  values: a group takes counters 1 and 2, and the frame of counter 3, past the end of the low half,
  is refused (section 6); calls and frames are not bounded. `Tracked` limits which
  session the ghost of taken frames follows: one group is enough, the groups being alike.
- In `DutyCycle`: a unit of 3 ticks, an hour of 3 units, a clock that wraps at 23 (no multiple
  of the unit), frames of one tick and of a whole unit, a resolution of 2 so that rounding
  happens, four frames and all changes of mode. The clock goes round for ever. Other widths
  and sizes were tried while it was written.
- In `ClockSync`: two tokens (the hardest case: every second request has the same one), times
  modulo 2, so right or wrong, two answers on their way, one forced repetition, two transmissions of an uplink, a count of
  repetitions that wraps at 2 (`Counts`, 256 in the code), and three calls of the host and commands
  of the network together; joins, launches, answers and losses are not bounded. The proofs
  hold without these bounds.

### Fairness

`RadioPlanner!FairSpec`: the processor executes and takes its interrupts, time
passes, and the radio ends what it started, unless it is the endless reception of
class C. That is what hardware does; the main loop promises nothing. `planner_live`
leaves `rp_task_abort` out, for a reason given in section 6.

`Lr1Mac!FairSpec`: the main loop polls (the supervisor does so while the MAC is
not idle), the planner answers (`Answered`, checked of `RadioPlanner`), and a
carrier sense that is asked for again and again finds the channel free at last.
The last is strong fairness, and an assumption about the world: without it the
failsafe would end the cycle. The delay before a repetition and the join back-off
need no fairness, `CycleEnds` stops at them.

`ModemSupervisor!FairSpec`: the main loop calls the engine (the application's loop
does, and sleeps no longer than the engine says), a cycle of the MAC ends
(`CycleEnds`, checked of `Lr1Mac`), a full band gets time on air again, and the time of
a task comes. All of it is weak fairness; the host and the network promise nothing.
The host's calls are bounded, so an uplink is not replaced for ever.

`Stream!FairSpec`: the supervisor closes what it launched and the server acknowledges a
window it asked for (weak); the task is launched again and again with a payload that holds
more than a header (strong, since data rates may change in between: an assumption about the
network, without which nothing can be sent).

`EventQueue!FairSpec`: the application calls the engine and reads its events (weak), and the
MAC is idle again and again when the engine looks (strong, from `CycleEnds`).

`ClassC!FairSpec`: a waiting reception gets the radio, though class A may take it first, time
and again (strong: the arbiter runs at the end of every task, and class A never transmits
back to back); a task of class A ends, and the main loop returns from its calls (weak).

`ClockSync!FairSpec`: the main loop goes on, a cycle of the MAC ends (`CycleEnds`), and the time of
a task comes; all weak. The host, the network, and an answer promise nothing.

### Deadlock

`class_c` and `duty_cycle` check for deadlock: calls, frames and the clock go on for ever.
The others say `CHECK_DEADLOCK FALSE`: the clock stops at `Horizon`, and with its bounded
calls, records or events used up a modem with nothing to do has nothing left to do.
`NothingForgotten`, `Answered`, `CycleEnds`, `UplinkClosed`, `Drains` and `Delivered` state what
deadlock freedom would have meant.

## 4. Proofs

The theorems about the planner hold for every value of the constants allowed by `PlannerAssumption`:
every clock width, set of requests, chain of callbacks, and either HAL unless said
otherwise. All but the first two speak of the time until a handler has come into a call of
the main loop (`~preempted`), which on the port may be the first handler, and on the documented HAL the
first that comes after a callback's enqueue has opened the section of the call it is made in.
`preempted` is never reset; the lemma `Before` says that a state in which it is FALSE comes from one in which it is,
and `FromMain` that a handler then starts from the empty stack, so that an invariant `~preempted => J` is
proved from steps between two states of which both satisfy `J`. What does not hold any more afterwards is
the finding `planner_sections`.

- `TypeCorrect`: `Spec => []TypeOK`. Inductive as it stands; one lemma per group of
  actions, and lemmas for the operators on the table (`Updated`, `Collected`,
  `Selected`).
- `OneTaskRunning`: `Spec => []OneRunning`, whatever the interrupts do: at most
  one task runs, and it is the radio task. It is inductive with `TypeOK`: only the
  dispatch sets a task running, and it moves `radioTask` and aborts the former
  radio task in the same step.
- `ExclusiveUse`, `RadioIsOwned`:
  `Spec => []ExclusiveInv` and `Spec => [](~preempted => RadioOwned)`. `RadioOwned` is not
  inductive: that a launch does not start the radio for a task that has lost it
  needs `LaunchOK` (the frame on top is the running radio task's), which needs
  that nothing comes between dispatch and launch, `SelectionOK`, and that these
  frames are only ever on top, `TopOnly`. `ArbiterExpired` could abort the task
  just started, unless its timer's hook is the selected one: `TimerOK`. TLC checks
  `ExclusiveInv` in `planner_live`. That `RadioOwned` is false afterwards is `planner_sections`.
- `ServicePromised`: `Spec => Promised`: the planner implements
  `RadioService`. Each action is shown to be one step of the service or a stutter of it, under an
  invariant `ServiceInv`: whoever waits or runs is owed an answer, what is selected is such a task,
  and a callback is on top of the call stack with its task already over. `StackMoves` says once what an
  action can do to the stack; the lemmas `ServiceAir`, `ServiceTasks`, `ServiceWaiters` and
  `ServiceAnswer` are the parts of the service's actions.
- `OnTime`: `Spec => StartsOnTime`, at every width of the clock and also where it wraps.
  The invariant `TimingInv` says that a selection is of now, and that a launch has not passed the start it
  waits for; the rest is modular arithmetic of `Diff`, in lemmas of its own (`DiffIs`, `NextTime`, `DueNow`).
- `AnsweredOnce`: `Spec => []OwedOnce`, also where the clock wraps. No accepted task is dropped (`Kept`);
  that nobody is called back for nothing (`Due`) holds until the arbiter takes the start of a free slot for one just missed
  (`revived`), a defect of the code within 8 ms of the clock's wrap that section 6 describes. `OwedMove` says what an
  action does to what one hook is owed.
- `AbortsCalledBack`, `SleepsSafely`: the two halves of `NothingForgotten`. The property looks at the
  empty call stack only; the invariants say what is still in hand on a stack that is not empty. `StepKinds` classes the steps
  by what they do to the calls of the arbiter that are to come. While an interrupt is served, the arbiter's call at
  its end is on the stack (`Served`), so that an enqueue which does not call the arbiter itself is not lost. Between
  its selection and its alarm an arbiter finds no waiting task in the past unless a task runs or another arbiter is to come (`Punctual`).
  So an aborted task is always one that an arbiter or a scan of the table behind it still comes to (`AbortsReached`), and
  a waiting one has the alarm, a running task or an arbiter ahead (`Woken`).
  `AbortsCalledBack` holds for every clock. `SleepsSafely` needs that the clock starts before `Horizon`, and that some `s` bounds
  the offsets of the ASAP tasks with `2 * (Horizon + 2 * s) < TimeWidth`: half of the clock's range, almost 25 days,
  in which the signed differences are those of the integers (`DiffNear`, `AsapTimes`). This is a limit of the
  code and not of the proof: beyond, an ASAP task that no arbiter has looked at for half a range passes for one of
  the future, and the property is false (section 6).
- `InterruptsTimely`: with `PendingVisible = TRUE` and `Abortable = {}`, `Spec => [](~preempted => NoStaleInterrupt)`. The invariant
  `LatchedInv` says that a latched interrupt is ignored or is the running task's, with its flags set (`Awaited`); that the radio cannot
  complete while one is latched or served (`NotAired`), nor before the launch (`Asleep`); and that the launch and the carrier
  sense meet a latched interrupt only when it will be ignored (`LateIrq`). TLC checked it, with all hooks, before it was proved.
  The two assumptions are needed: on the port a latched interrupt is not seen, and an abort of a running task leaves its latched interrupt to
  the next one (section 6).
- `BestKeeps`: what `BestKeepsRadio` says, until a handler has come into a call, for every set of requests and every clock, also where it wraps.
  What the scan of `rp_task_select_next` returns is either the best-ranked eligible task or one that ends before a start (`BestSelected`, by
  induction over the sets of hooks the fold passes: while no task qualifies it stays at the first, `StaysSelected`). Ranks tell
  hooks apart (`Ranked`), so that the best of two live tasks is never the other; and what was selected stays the
  reason to hand over until the dispatch that does (`SelectedFor`), since nothing comes in between.

The theorems about the class A engine hold for every value of the constants allowed by `MacAssumption`:
every number of nonces, repetitions and calls, and whatever the network answers.

- `MacTypes`, `InterruptsExpected`, `KeepsInStep`, `RepetitionsBounded`, `NoncesFresh`: from one inductive invariant,
  `MacInv`. Only the types are nearly inductive alone. `Control` says which states of the MAC, of its radio and
  of the planner's task go together at each point `lr1mac_core_process` can stand at (`pc`); on it rest
  `Attempts` (a transmission that is still to come has room left in `nb_trans`, also after the network has changed
  it) and `NonceOrder` (no saved nonce is above the one in RAM or, outside the store, in flash).
  `JoinCycle`, `Soon` and `Heard` keep the cycle of a join apart from that of an uplink.
- `KeepsInStep` says nothing of the time after an answer has come between the enqueue of a window and RX_ON
  (`overtaken`; `Awaited` is the part of `Control` that ends there): the MAC then waits for the failsafe (section 6).
  `InterruptsExpected` leaves out the window that is over by then, where the callback panics; that the cycle ends even so
  is `CycleEnds`, which TLC checks with all kinds of windows.
- `CountersFresh` assumes that the network's commands come with the acknowledgement (`CommandsAcknowledge`);
  `mac_same_counter` is the counterexample without it. The theorem
  adds to `MacInv` where the counter stands against the last one on air (`CounterOrder`).

The theorems about the stack of events hold for every value of the constants allowed by `EventAssumption`.

- `StackWhole`, `StackFits`: `Spec => []InStack` and `[]StackBounded`. The inductive invariant `Whole` says, for every step of
  a raise and of a report, which places of the stack count and which types they should name (`Length`, `Used`):
  between the place and the count of a new event, and between the clearing and the removal of a reported one, the event
  is named and not counted. That the stack stays inside `asynch_msg` follows from its naming each type once
  (`Room`): the code's own test of its length would come too late, by two. All of it is said
  until an interrupt tears a raise or a report; what comes of that is in section 6.
- `QueueOfDownlinks`: `Spec => Downlinks`, the ring of octets implements `DownlinkQueue`, for every size of the buffer and all
  lengths of downlinks. The mapping reads the queue off the octets, so the invariant `RingInv` keeps the places of the records as
  positions on a tape that is never used twice: record `k` starts at `pos[k]`, each next one where it ends, all of
  them within `Size` of the first (`Frames`), and an octet of the buffer is the remainder of its position.
  Positions less than `Size` apart are different octets (`Apart`), which is why a new record spares those that stay
  (`Spared`). That the drops of the code are the least that make room, as the abstract queue asks, is the minimality of the
  count they end at (`DropsAre`), with sums over records in place of the code's loop (`SumsExist`, `OctetsOfQueue`).
- `RingAccounts`: `Spec => []RingSound`: offsets inside the buffer, and free octets and number of records in agreement with what is
  stored. From `RingInv`.
- `EventTypes`: `Spec => []TypeOK`, torn or not. The counts stay in their octet because the downlinks counted are those in the ring, of which
  the assumption on `Size` allows no more than `CountMax` (`Countable`); the others stop counting there. The stack is in
  its array by `Whole`, and so only until it is torn.

The theorems about the duty cycle hold for every width of the clock, length of period, number of
buckets, budget and resolution allowed by `DutyCycleAssumption`.

- `RingRemembers`: `Spec => []Remembered`. The timestamp of the last sum does not tell how long ago it was, once the clock has
  wrapped; the invariant `Inv` therefore speaks of some real time `e` since then, of which the clock shows the
  remainder, and says for every number of the newest buckets which ages they answer for (`Answers`, `Held`): back
  to the start of a unit, less `Slack`, the distance by which the wrap has shifted the grid of units, unless the sum
  was before it. A sum erases the buckets between (`ErasedBack`, `SumHolds`), a frame goes into the newest (`UpdateHolds`), time
  moves the ages (`TickHolds`). Sums over buckets and over ages are taken by lemmas on finite
  sets (`TotalOf`, `TotalBelow`, `TotalMoved`).
- `WaitExact`: `Spec => []WaitsExactly`, which is a property of the state alone: from the types, the search for the bucket whose end
  frees the band, and what the ring reads at that moment and one tick before (`DiffAhead`, `After`, `ConsumesLess`).

The theorems about the task manager hold for every value of the constants allowed by
`SupervisorAssumption`: every longest mute, and any number of calls.

- `TasksKept`: `Spec => []TasksInv`, from which `ModemTypes`, `TasksNotForgotten`,
  `DutyCycleRestored` and `ReportsKept` follow. None of the
  properties but the types is inductive alone. That the removal at the end of a launch
  does not take out a task that came meanwhile needs `LaunchKept`: the task being
  launched is the one that will be closed, or a leave came in between, and then there
  is no session through which a command could fill the table. That a join which
  succeeds leaves nothing behind needs `JoinWanted` (a join task means that the
  joining bit is set), `OneJoin` (a join that may still succeed is the only one asked for)
  and `NoSession`. That the days of a mute stay in their octet though a command may change
  them under the decrement needs `CountHeld`: days are only counted by the launch of the
  mute task. TLC checked `TasksInv` as an invariant with seven calls before it
  was proved.

The theorems about the stream hold for every value of the constants allowed by
`StreamAssumption`, every size of FIFO, window, work area, payload and record, and every server.

- `StreamTyped`, `StreamAreas`, `StreamInOrder`: `Spec => []TypeOK`, `[]Areas`, `[]InOrder`. The
  invariant `StreamInv` has two parts. Until a window has cut off octets (`cut`) it is `IInv`, which adds to the
  three properties that the octets not sent begin at or below the end of
  the window (`unsent <= wl`) and that the last frame lies before them in the stream (`Behind`);
  a shorter window moves `unsent` down by the difference, which `~cut` says there is room for.
  After that it is `Loose` and `Labelled`: the marks keep their widths, and what is sent has
  the label of its place. Lemmas state what `Emit` and `SetWindow` do to
  the FIFO, one case for each way of sending.
- `StreamRecordsBack`: `Spec => []RecordsBack`. `Midway` says in closed form where the
  server stands after the first octets of an encoded record: how far the next mark is, and which part of the
  record it has. `ReadOn` proves that each octet takes it one further, through the remainders of the distance
  (`Remainders`: the octet wraps, and a record of at most `Octets - 2` octets keeps a distance from looking like a tag);
  `ReadRecord` appends a record to what was read before. That the server's function is the only solution of its own equation (`ReadIs`)
  is an induction over positions.

The theorems about class C hold for every number of groups, channel plan and width of the
counter on air allowed by `ClassCAssumption`.

- `ClassCTyped`, `ClassCListening`, `ClassCTuned`, `ClassCGroupsOnce`: from one inductive invariant,
  which says when the planner owes an answer in each phase of a start (`Owed`), that without a
  group the reception is set to the unicast channel (`UnicastHeard`), and
  that what was taken of a group lies at or below its counter (`TakenBelow`).

The theorems about the clock synchronisation hold for every width of the clock, number of tokens
above one, of repetitions and of answers on their way.

- `TypeCorrect`: inductive as it stands; the count of forced repetitions stays in its octet because its decrement wraps.
- `TimeRight`: `Spec => []AlcTimeRight`. The inductive invariant `TimeInv` adds that an answer
  with the present token corrects the present error, unless it is `spoilt`; that behind an answer with the present token no
  older one comes (`QueueInv`); that an AppTimeReq on air is newer than all answers and is not
  repeated (`FrameInv`); and that one is built while the MAC is idle, from the present correction unless an answer
  has been taken since that was read (`BuildInv`). An accepted answer advances the token; all answers left in the queue
  with the new token would be older than it, and there are none: two tokens are enough.
  The code has sixteen; what the proof needs of the world is that answers come in the order of
  the requests.
- `GoesOn`: `Spec => []ServiceGoesOn`, with `LaunchKept`, as for the task manager: the task being
  launched is the one that will be closed, or a leave came in between.

Only model-checked, and why:

- Liveness, everywhere (`Answered`, `CycleEnds`, `UplinkClosed`, `Drains`, `Delivered`, `Resumes`, `AlcLossReported`): it is out of the
  prover's reach. Every other property of a passing run is a theorem, with the exceptions said here.
- `BestKeepsRadio`, `NothingForgotten` and `NoStaleInterrupt` after a handler has come into a call of the main loop: the
  runs check them there too, the theorems stop at `preempted`.
- `NothingForgotten` of a clock that crosses its wrap, as in `planner_safety`, between half of its range and where the property fails.
- The length of the stack of events once an interrupt has torn a raise or a report: it then may name a type twice, and only the
  bound on the events raised keeps it short. `TypeOK` says nothing about it; section 6 says what happens.
- `NoStaleInterrupt` where calls abort tasks that only wait: the model has
  one set of hooks that abort, so that the theorem has to exclude every abort.

## 5. Findings

1. The critical sections of the planner do not nest: the end of a callback's enqueue opens the section of
   the call it is made in, and an interrupt in the rest of that call may leave the radio working
   for a task that lost it (`planner_sections`). On the port, whose sections mask nothing, the same
   interrupt may come anywhere in the call.
2. The answer to a MAC command may go on air with the counter of a confirmed frame
   that is still to be repeated (`mac_same_counter`).
3. An interrupt between the two steps in which the last multicast session is stopped
   resets the device by a panic (`class_c_panic`).


## 6. Seen while modelling

Each of these can be reproduced with the constants given; none is a run, to keep the
number of runs what a reader can follow. The definitions named are in the modules.

Planner and MAC:

- On the port, a latched interrupt of a preempted task ends its successor:
  `hal_gpio_is_pending_irq` (`smtc_hal/Nordic/nrf52840/src/smtc_hal_gpio.c:172`) returns false
  whatever is latched. `MCRadioPlanner` as in `RadioPlannerSafety.cfg` with `PendingVisible = FALSE`
  and `Abortable = {}` violates `NoStaleInterrupt`.
- Within `RP_MARGIN_DELAY` of the clock's wrap a freed slot, whose start is 0, passes for an expired
  timer and is aborted and called back (`radio_planner.c:553`, whose comment speaks of "a not
  priority task"). `OwedOnce` without `~revived` is violated with the constants of `RadioPlannerSafety.cfg`.
- An ASAP task whose time an arbiter has not renewed for half of the clock's range passes for one of the
  future, so that the next arbiter neither takes it nor sets an alarm for it: `MCRadioPlanner` as in
  `RadioPlannerSafety.cfg` with `TimeWidth = Horizon = 16`, `Boot = 0` violates `NothingForgotten`. The run shows how an arbiter
  can stay away: class C, switched to SCHEDULE, is launched two ticks after its selection, so that the uplink behind it
  is in the past when the alarm is set (`rp_task_get_next` passes it over) and, if nothing else is asked of
  the planner, only the end of the reception calls the arbiter again. Until then the uplink waits; to be forgotten, for almost 25 days.
- A window set up late, but before `rx_offset_ms` has passed, is asked for in the past: the
  planner aborts it inside the enqueue, `lr1_stack_mac_rx_radio_start` overwrites that answer with
  `RADIOSTATE_RX_ON`, and the MAC waits for the failsafe; `lr1mac_core.h:142` calls
  `lr1mac_core_process` "Not timing critical. Can be interrupted". `InStep` without `~overtaken` is
  violated with the constants of `Lr1MacCycle.cfg`, also with `Windows = {"open"}`: a window that is launched and given
  up while the main loop is still in the enqueue does the same, and one that is over by then panics.
  `CycleEnds` holds only because the failsafe ends the cycle.
- `planner_live` has no aborts: with `rp_task_abort` of a running task racing its
  completion, a latched interrupt is served for the next task even on the
  documented HAL, since `rp_radio_irq` called by the abort does not look at it.
- While an endless class C reception runs, the callbacks of tasks that were given
  up wait for the radio to be free; an ASAP task behind it polls every millisecond.
- A task ranked after the running one may take the radio from it: a suspension is launched up to 8 ms ahead of its
  start (`modem_context.c:1816` asks for 4 ms), and `rp_task_select_next`, which looks at starts and not at what runs, puts
  a task before it that ends before that start. `BestKeepsRadio` allows this case and no other; with durations
  that never fit in between, as in an earlier instance, it does not happen.
- `smtc_modem_leave_network` does not cancel a MAC in SEND, TX_WAIT or carrier sense;
  `lr1mac_core_abort` does not abort the carrier sense.
- The delay before a repetition compares absolute milliseconds with `>` (`lr1mac_core.c:340`),
  which the wrap of the clock breaks; `Lr1Mac` leaves the delay out.

Supervisor:

- An emergency uplink requested while another uplink is in flight is held back by the duty
  cycle after all, because the other's closing enables it
  (`modem_supervisor.c:739`; the API promises "is not subject to duty cycle restrictions").
  `EmergencyUnbound`, with `Spec` and `MaxCalls = 5`.
- A leave between the join accept and the end of the MAC's cycle leaves the MAC joined: the branch at
  `modem_supervisor.c:690`, "manage case leave cmd between end of join and join succeed", is never
  reached, since the leave has set `next_task_id` to IDLE. `LeftIsLeft`, with `Spec` and `MaxCalls = 5`.
- A mute of the network that comes between the test of the days and their decrement
  (`modem_supervisor.c:526-528`) is decremented itself: "no mute" becomes 255 days, which is a mute for ever, and
  a mute for ever one of 254 days.
- A leave, or a region set by the network, while the modem is muted for some days
  drops the task that counts them: the mute never ends (`modem_context.h:564` says
  "number of muted day(s)"). While an upload goes on it leaves `modem_upload_state` as
  it is: init and start answer BUSY until the host resets the upload. With an emergency
  in hand it leaves the duty cycle disabled until the next uplink is closed.
- An emergency that is replaced by a plain request before its launch leaves the duty
  cycle disabled for the plain one.
- The network's aggregated duty cycle holds an emergency back as well
  (`lr1mac_core_next_free_duty_cycle_ms_get`), as does an endless mute.

Class C (`ClassC` with `Spec` and `Tracked = {0}`):

- `NeverLapses`: an answer between the enqueue and `started = true` starts nothing, and the device stays
  deaf until class C is started again.
- `HeardWhereStarted`: setting class C again while the reception runs, after an RXParamSetup, changes
  the copy of the unicast channel though the planner refuses the start. A session on that channel is
  then taken for compatible and is not heard. A session started before class C compares with an empty
  copy.
- `TakenOnce`: the unicast counter is copied from the MAC at each start and written back with
  each frame; a class A downlink digested in between is undone, and its counter is accepted again.
- A group's counter starts at 0, so that its first frame with counter 0 is refused
  (unicast starts at 0xFFFFFFFF), and a new configuration of the group does not reset it.
- The reconstruction of a counter (`lr1mac_utilities.c:259`) does not carry into the high half: past a
  wrap of the low 16 bits every frame is refused for ever.
- A leave disables class C but `modem_dm_class` stays C.

Events:

- `OneByType`: "only one asynch msg by type of message" (`modem_context.c:427`) does not hold. An
  interrupt that raises the type the main loop is raising, after its test, puts it on the stack twice;
  one that raises between the clearing of a count and the shrinking of the stack is lost, and the event
  before it is reported twice. A second RESET makes the demo application join again.
- The array has two places more than there are types, and each torn raise or report may take one: with all types counted the third
  writes past `asynch_msg`. `Events.cfg` with `Slots = 6`, `MainTypes = {Time, UserRadio}` and `Lengths = {1}` keeps
  `number <= Slots` with `MaxRaised = 4` and violates it with 5.
- On the port the critical section of the ring masks nothing either; `Put` and `Take` are whole only on the
  documented HAL.
- `missed_events` counts downlinks that are still in the ring and will be reported; those that were
  displaced are not counted. An event of a downlink with an empty ring reports metadata that were never set.

Stream:

- `Areas` without `~cut` is violated with the constants of `Stream.cfg`: windows of 9, 4, 9 and 4 octets put the octets not sent
  below the start of the FIFO, contradicting `rose.c:551`, "This is always possible, as we don't risk to overwrite pending
  data". The frames that follow are made of memory outside it.
- While a window is not acknowledged only SINFO frames go out; what the server is owed is sent only with the
  next data of the host, since a command does not add the task.
- The data of a frame whose send fails (duty cycle, busy MAC) are gone: they have moved into the
  redundancy area. A leave clears the task with data pending. A new stream replaces the old one "to avoid
  event generation", but one that is launched still raises STREAMDONE.

Duty cycle:

- Within the age of an hour but outside `Kept`, frames are forgotten up to a unit early, and up to another
  72.7 s around the wrap of the clock. `WaitsExactly` holds only while the clock has not wrapped since
  the last sum: afterwards the wait is computed on one grid and the ring read on another.
- A frame is admitted whenever some time is left, so the budget is exceeded by up to one frame;
  `smtc_duty_cycle_is_toa_accepted`, which would look at the frame's length, is never called. A
  transmission that was aborted is not counted.

Clock synchronisation (`ClockSync` with `Seconds = Tokens = Counts = MaxAnswers = 2`, `MaxTrans = 1`, `MaxNb = 1`
and the rest as said):

- `MacTimeRight`, with `Spec`, `Started = {"mac"}`, `Commands = {}`, `MaxCalls = 1`: a DeviceTimeReq that finds no
  answer moves the stamp (`lr1_stack_mac_layer.c:988`) from which the seconds of the last answer are counted
  (`lr1mac_core.c:967`). From then on the time is behind by what lies between the two requests, 36 hours by
  default, and still valid; `smtc_modem_api.h:616` says of `smtc_modem_get_time` "The returned time specifies the
  number of seconds elapsed since GPS epoch".
- `MacLossReported`, with `FairSpec` and the same constants: `clock_sync_callback` is called at the end of a request
  for the service of the application layer only (`modem_supervisor.c:795`). A DeviceTimeReq of the MAC's service that
  finds no answer is the last one, and the event that `smtc_modem_api.h:704` promises when the time gets too
  old does not come.
- `SingleRequest`, with `Spec`, `Started = Commands = {}`, `MaxCalls = 1`: "Trigger a single uplink requesting time"
  (`smtc_modem_api.h:631`) starts the periodic task, since the callback of the answer adds it whether a service
  is enabled or not (`smtc_clock_sync.c:190`); stopping the service then fails.
- `ResyncGoesOn`, with `Spec`, `Started = {"alc"}`, `Commands = {"resync"}`, `MaxNb = 2`, `Counts = MaxCalls = 3`: an answer whose
  token is no longer valid takes the repetitions of a forced resynchronisation out of the table
  (`modem_supervisor.c:1084`, `dm_downlink.c:272`), though "The end - device stops re-transmissions of the AppTimeReq if
  a valid AppTimeAns is received" (`alc_sync.c:487`).
- An answer that corrects another time than its token was for is applied all the same. `AlcTimeRight` without `~wrong` is
  violated, with the constants of `ClockSync.cfg`, in two ways: the host sets the time between a request and its answer; or
  an answer comes from class C while the next request is built, between its correction, an argument read at
  `smtc_clock_sync.c:413` or `modem_supervisor.c:576`, and its token, read at `alc_sync.c:259`: the new request has the
  new token with the old correction, which its answer applies a second time.
- The same answer between the test of `nb_transmission` and its decrement (`alc_sync.c`) makes the count wrap to
  255, or is itself undone.
- A stop while a request is in flight leaves a task: the closing, or the answer, calls
  `clock_sync_callback`, which puts the next request into the table though the service is disabled.
- With repeated uplinks the stamp is that of the first transmission of a DeviceTimeReq, while the
  network may answer a later one.
- A DeviceTimeReq that the MAC refuses stays pending, so that the next one goes out as an empty uplink
  (`lr1mac_core.c:472`).
- With the MAC's service a time set by the host is not seen by `smtc_modem_get_time` unless a DeviceTimeAns
  is valid, since `clock_sync_is_time_valid` asks the MAC alone.
- `alc_sync_parser` clears the pending bits at each message: a version answer that has not been sent is
  forgotten. On the port of its own an answer that is refused raises the TIME event as valid
  (`modem_supervisor.c:1081`).

## 7. Plan

Done, the most important behaviour first: the planner and its service, its proofs, the
class A engine, the task manager and its proofs, the stream, the events, class C, the
duty cycle and the clock synchronisation; proofs of the safety of each of them, and the refinements of
`RadioService` by the planner and of `DownlinkQueue` by the ring of downlinks. To come:

1. `MacCommands`: user requests (link check; device time is in `ClockSync`), sticky answers, cut
   answers, partial join accept; the hazard of `lr1_stack_mac_layer.c:1333`, which no property
   covers yet, and the other requests of `lr1mac_core_send_stack_cid_req`.
2. `MacOnPlanner`: the class A engine with LBT and class C on the real planner, in place of
   `slot`; a timed variant with the failsafe and the delay between repetitions.
3. The file upload: its session and fragment counters and their pacing; the answers of
   `ClockSync` that are pending (version, periodicity).
4. The rest of `ModemSupervisor`: status on request, link check, crash log; an abstract
   specification, the life of one session (joined, joining, left), which the join bits and
   the MAC's join status implement.
5. Proofs: what the planner still promises after a handler has come into a call of the main loop (the runs find
   `BestKeepsRadio`, `NothingForgotten` and `NoStaleInterrupt` true there); `NoStaleInterrupt` with aborts, after
   splitting the hooks that abort what waits from those that abort what runs.

### Not modelled

Regions and data rates (tables and arithmetic on data), crypto and drivers (pure computation
and SPI traffic), fragmentation (linear algebra over data), certification and test mode
(laboratory commands), the application, and the SDK. Almost all of the lines of the
repository are the vendored SDK, with its register definitions and configuration
headers: they hold no logic of this program, so that a share of lines counted over the whole
repository stays small whatever is modelled. Of `smtc_modem_core` the files with
control logic are modelled, those above and the ones of the plan excepted.
