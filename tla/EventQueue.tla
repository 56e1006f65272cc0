----------------------------- MODULE EventQueue -----------------------------
(***************************************************************************)
(* How the application learns what has happened: the ring of downlinks     *)
(* (fifo_ctrl.c) and the stack of events (modem_context.c), filled by the  *)
(* engine and by interrupts, and emptied by smtc_modem_get_event.          *)
(*                                                                         *)
(* The ring is changed with the interrupts held off.  The stack is not:    *)
(* the engine and the application change it step by step, and an interrupt *)
(* (the end of a user's radio access, a command in a class C downlink) may *)
(* push an event between any two of these steps.                           *)
(***************************************************************************)
EXTENDS Integers, Sequences, FiniteSets, FiniteSetsExt

CONSTANTS
    Size,        \* FIFO_LORAWAN_SIZE
    Header,      \* octets of a record besides its data: the lengths and the metadata
    Lengths,     \* lengths of the data of a downlink
    DownData,    \* SMTC_MODEM_EVENT_DOWNDATA
    Reset,       \* SMTC_MODEM_EVENT_RESET, which is 0, what memset leaves in asynch_msg
    MainTypes,   \* events the engine raises
    IrqTypes,    \* events an interrupt raises
    Slots,       \* the last index of asynch_msg, MODEM_NUMBER_OF_EVENTS - 1
    CountMax,    \* 255, where modem_event_count stops
    MaxDown,     \* bound: downlinks
    MaxRaised    \* bound: events of the engine and of the interrupts

Types == MainTypes \union IrqTypes \union {DownData, Reset}

ASSUME EventAssumption ==
    /\ {Size, Header, Slots, CountMax, MaxDown, MaxRaised} \subseteq Nat
    /\ Size >= 1 /\ Header >= 2 /\ CountMax >= 1
    \* a record fits the ring, and of none does it hold more than can be counted
    /\ \A n \in Lengths : n \in Nat /\ Header + n <= Size /\ Size < (CountMax + 1) * (Header + n)
    /\ IsFiniteSet(Types) /\ Cardinality(Types) <= Slots
    /\ DownData \notin MainTypes \union IrqTypes
    /\ Reset \notin MainTypes \union IrqTypes \union {DownData} /\ Slots >= 1

VARIABLES
    buf, rd, wr, nb, free,   \* fifo_ctrl_t
    count,      \* modem_event_count
    number,     \* asynchronous_msgnumber
    stack,      \* asynch_msg
    pc,         \* where the main loop is
    type,       \* the event being raised or reported
    pending,    \* event_pending_count, or the number seen by the loop of the engine
    seen,       \* nb_downlink
    taken,      \* the last downlink the application was given
    arrived,    \* ghost: downlinks so far
    torn,       \* ghost: has an interrupt raised an event inside a raise or a report?
    raised      \* bound

ring == <<buf, rd, wr, nb, free>>
events == <<count, number, stack>>
vars == <<ring, events, pc, type, pending, seen, taken, arrived, torn, raised>>

Places == 0 .. Size - 1

-----------------------------------------------------------------------------
(* The ring *)

\* Where the records begin, and after them the next one; the octets of the first d.
StartOf == LET start[k \in 1 .. nb + 1] ==
                  IF k = 1 THEN rd ELSE (start[k - 1] + Header + buf[start[k - 1]]) % Size
           IN start
OctetsOf(d) == LET octets[k \in 0 .. d] ==
                      IF k = 0 THEN 0 ELSE octets[k - 1] + Header + buf[StartOf[k]]
               IN octets[d]
RecordAt(s) == [id |-> buf[(s + 1) % Size],
                data |-> [i \in 1 .. buf[s] |-> buf[(s + Header + i - 1) % Size]]]
Content == [k \in 1 .. nb |-> RecordAt(StartOf[k])]

\* A record: the lengths, the metadata, the data.
Record(id, n) == [i \in 0 .. Header + n - 1 |->
                     IF i = 0 THEN n ELSE IF i < Header THEN id ELSE id + i - Header]

\* ctrl_set: make room, then copy around the end of the buffer.
DropsOne(total) == IF free < total THEN 1 ELSE 0  \* mutant
Drops(total) == Min({d \in 0 .. nb : free + OctetsOf(d) >= total})

Put(id, n) ==
    LET total == Header + n
    IN \E d \in 0 .. nb :
       /\ d = Drops(total)
       /\ buf' = [i \in Places |->
                    LET k == (i - wr) % Size IN IF k < total THEN Record(id, n)[k] ELSE buf[i]]
       /\ rd' = StartOf[d + 1]
       /\ wr' = (wr + total) % Size
       /\ nb' = nb - d + 1
       /\ free' = free + OctetsOf(d) - total

\* ctrl_get
Take ==
    /\ taken' = <<RecordAt(rd)>>
    /\ rd' = StartOf[2] /\ nb' = nb - 1 /\ free' = free + OctetsOf(1)
    /\ UNCHANGED <<buf, wr>>

-----------------------------------------------------------------------------
\* modem_supervisor_init has raised the event of the reset.
Init ==
    /\ buf = [i \in Places |-> 0] /\ rd = 0 /\ wr = 0 /\ nb = 0 /\ free = Size
    /\ count = [t \in Types |-> IF t = Reset THEN 1 ELSE 0]
    /\ number = 1 /\ stack = [i \in 1 .. Slots |-> Reset]
    /\ pc = "wait" /\ type = Reset /\ pending = 0 /\ seen = 0
    /\ taken = <<>> /\ arrived = 0 /\ torn = FALSE /\ raised = 0

More(c) == IF c < CountMax THEN c + 1 ELSE c

(* Interrupts, and the class A engine for the downlinks *)

Downlink(n) ==
    /\ arrived < MaxDown /\ arrived' = arrived + 1
    /\ Put(arrived + 1, n)
    /\ UNCHANGED <<events, pc, type, pending, seen, taken, torn, raised>>

\* increment_asynchronous_msgnumber, whole, from an interrupt.
AtRest == pc \in {"wait", "work", "callback", "look", "again"}
Busy == ~AtRest

IrqRaise(t) ==
    /\ raised < MaxRaised /\ raised' = raised + 1
    /\ IF count[t] = 0
       THEN /\ number' = number + 1
            /\ stack' = [stack EXCEPT ![number + 1] = t]
            /\ torn' = (torn \/ Busy)
       ELSE UNCHANGED <<number, stack>> /\ torn' = (torn \/ (Busy /\ t = type))
    /\ count' = [count EXCEPT ![t] = More(@)]
    /\ UNCHANGED <<ring, pc, type, pending, seen, taken, arrived>>

(* smtc_modem_run_engine *)

Main(from, to) ==
    /\ pc = from /\ pc' = to
    /\ UNCHANGED <<arrived, torn>>

Several == nb > 1  \* mutant
Waiting == nb > 0

RunEngine ==
    /\ Main("wait", IF Waiting THEN "test" ELSE "work")
    /\ type' = IF Waiting THEN DownData ELSE type
    /\ seen' = nb
    /\ UNCHANGED <<ring, events, pending, taken, raised>>

\* An event of the engine itself: the end of a join, of an uplink, an alarm.
EngineRaise(t) ==
    /\ Main("work", "test")
    /\ raised < MaxRaised /\ raised' = raised + 1
    /\ type' = t
    /\ UNCHANGED <<ring, events, pending, seen, taken>>

\* increment_asynchronous_msgnumber, step by step.  Its test of the length of the stack
\* is left out: before a raise or a report is torn it never holds (TypeOK).
FreshAlways == TRUE  \* mutant
Fresh == count[type] = 0

RaiseTest ==
    /\ Main("test", IF Fresh THEN "grow" ELSE "count")
    /\ UNCHANGED <<ring, events, type, pending, seen, taken, raised>>

RaiseGrow ==
    /\ Main("grow", "place")
    /\ number' = number + 1
    /\ UNCHANGED <<ring, count, stack, type, pending, seen, taken, raised>>

RaisePlace ==
    /\ Main("place", "count")
    /\ stack' = [stack EXCEPT ![number] = type]
    /\ UNCHANGED <<ring, count, number, type, pending, seen, taken, raised>>

\* The count, which for the downlinks is then set to how many there were.
RaiseCount ==
    /\ Main("count", IF type = DownData THEN "set" ELSE "work")
    /\ count' = [count EXCEPT ![type] = More(@)]
    /\ UNCHANGED <<ring, number, stack, type, pending, seen, taken, raised>>

SetSeen ==
    /\ Main("set", "work")
    /\ count' = [count EXCEPT ![DownData] = seen]
    /\ UNCHANGED <<ring, number, stack, type, pending, seen, taken, raised>>

\* The MAC is at work: the engine returns before it comes to the callback.
MacBusy ==
    /\ Main("work", "wait")
    /\ UNCHANGED <<ring, events, type, pending, seen, taken, raised>>

Idle ==
    /\ Main("work", IF number > 0 THEN "callback" ELSE "look")
    /\ UNCHANGED <<ring, events, type, pending, seen, taken, raised>>

(* The callback of the application: smtc_modem_get_event as long as some are pending *)

GetEvent ==
    /\ Main("callback", IF number > 0 THEN "last" ELSE "look")
    /\ pending' = number
    /\ UNCHANGED <<ring, events, type, seen, taken, raised>>

GetLast ==
    /\ Main("last", IF stack[number] = DownData THEN "fifo" ELSE "clear")
    /\ type' = stack[number]
    /\ UNCHANGED <<ring, events, pending, seen, taken, raised>>

\* An empty ring leaves the downlink of the event as it was.
GetDownlink ==
    /\ Main("fifo", "clear")
    /\ IF nb = 0 THEN UNCHANGED <<ring, taken>> ELSE Take
    /\ UNCHANGED <<events, type, pending, seen, raised>>

GetClear ==
    /\ Main("clear", "shrink")
    /\ count' = [count EXCEPT ![type] = 0]
    /\ UNCHANGED <<ring, number, stack, type, pending, seen, taken, raised>>

FewerTwice == IF number > 1 THEN number - 2 ELSE 0  \* mutant
Fewer == number - 1

GetShrink ==
    /\ Main("shrink", IF pending > 1 THEN "callback" ELSE "look")
    /\ number' = IF number > 0 THEN Fewer ELSE 0
    /\ UNCHANGED <<ring, count, stack, type, pending, seen, taken, raised>>

\* The loop of the engine: once more if an event came between its two looks.
Look ==
    /\ Main("look", "again")
    /\ pending' = number
    /\ UNCHANGED <<ring, events, type, seen, taken, raised>>

Again ==
    /\ Main("again", IF pending < number THEN "callback" ELSE "wait")
    /\ UNCHANGED <<ring, events, type, pending, seen, taken, raised>>

-----------------------------------------------------------------------------
Interrupt ==
    \/ \E n \in Lengths : Downlink(n)
    \/ \E t \in IrqTypes : IrqRaise(t)

Engine == RunEngine \/ RaiseTest \/ RaiseGrow \/ RaisePlace \/ RaiseCount \/ SetSeen \/ Look \/ Again
App == GetEvent \/ GetLast \/ GetDownlink \/ GetClear \/ GetShrink

Next ==
    \/ Interrupt \/ Engine \/ App \/ Idle \/ MacBusy
    \/ \E t \in MainTypes : EngineRaise(t)

Spec == Init /\ [][Next]_vars

\* The application calls the engine for ever, reads its events, and the MAC ends its cycles.
FairSpec == Spec /\ WF_vars(Engine) /\ WF_vars(App) /\ SF_vars(Idle) /\ WF_vars(Idle \/ MacBusy)

-----------------------------------------------------------------------------
(* Properties *)

\* The offsets and counters of the ring stay in their ranges wherever the interrupts fall,
\* and no more downlinks wait than can be counted.  The stack, which nothing bounds but the
\* order of its calls, stays inside asynch_msg until an interrupt tears a raise or a report.
TypeOK ==
    /\ buf \in [Places -> Nat] /\ rd \in Places /\ wr \in Places
    /\ nb \in Nat /\ free \in 0 .. Size
    /\ count \in [Types -> 0 .. CountMax] /\ seen \in 0 .. CountMax
    /\ number \in Nat /\ pending \in Nat /\ raised \in 0 .. MaxRaised
    /\ ~torn => number <= Slots /\ stack \in [1 .. Slots -> Types] /\ type \in Types

\* The application sees a queue that drops its oldest downlinks (DownlinkQueue), whatever
\* the sizes and wherever in the buffer they wrap.
Queue == INSTANCE DownlinkQueue WITH Capacity <- Size, queue <- Content, taken <- taken
Downlinks == Queue!Spec

\* As long as no interrupt has torn a raise or a report, the stack names each counted
\* type once, and a downlink is in the ring when one is reported.
Named(t) == {i \in 1 .. number : stack[i] = t}
InStack ==
    (~torn /\ AtRest) =>
        /\ \A t \in Types : Cardinality(Named(t)) = IF count[t] > 0 THEN 1 ELSE 0
        /\ count[DownData] > 0 => nb > 0

\* Every downlink is given to the application or displaced by newer ones, whatever the
\* interrupts do to the stack.
Held == {Content[k].id : k \in 1 .. nb}
Delivered == \A id \in 1 .. MaxDown : (id \in Held) ~> (id \notin Held)

\* "only one asynch msg by type of message" (modem_context.c)
OneByType == AtRest => \A t \in Types : Cardinality(Named(t)) <= 1
=============================================================================
