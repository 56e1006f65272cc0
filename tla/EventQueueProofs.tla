-------------------------- MODULE EventQueueProofs --------------------------
(***************************************************************************)
(* The stack of events, wherever the interrupts fall between the steps of  *)
(* a raise and of a report: until one of them tears such a step, the stack *)
(* names every type that is counted once and nothing else, for every set   *)
(* of types that fits asynch_msg and whatever the ring of downlinks holds. *)
(* And the ring: for every size of it and all lengths of downlinks, it is  *)
(* the queue of DownlinkQueue, which drops its oldest members and no more  *)
(* of them than it must, wherever a record goes around the end.            *)
(***************************************************************************)
EXTENDS EventQueue, FiniteSetTheorems, FunctionTheorems, SequenceTheorems, WellFoundedInduction, TLAPS

-----------------------------------------------------------------------------
(* The types that hold even when the stack is torn *)

Steps == {"wait", "test", "grow", "place", "count", "set", "work", "callback", "last",
          "fifo", "clear", "shrink", "look", "again"}

Basic ==
    /\ nb \in Nat /\ number \in Nat /\ seen \in Nat
    /\ count \in [Types -> Nat]
    /\ pc \in Steps /\ torn \in BOOLEAN

LEMMA TypesKnown ==
    /\ DownData \in Types /\ Reset \in Types
    /\ MainTypes \subseteq Types /\ IrqTypes \subseteq Types
    /\ DownData \notin MainTypes \union IrqTypes \union {Reset}
  BY EventAssumption DEF Types

LEMMA MoreCounts ==
    ASSUME NEW c \in Nat PROVE More(c) \in Nat /\ More(c) > 0
  BY EventAssumption DEF More

LEMMA PutRing ==
    ASSUME nb \in Nat, NEW id, NEW n, Put(id, n)
    PROVE  nb' \in Nat /\ nb' > 0
  BY DEF Put

LEMMA BasicStep ==
    ASSUME Basic, [Next]_vars
    PROVE  Basic'
<1>t. /\ nb \in Nat /\ number \in Nat /\ seen \in Nat /\ count \in [Types -> Nat]
      /\ pc \in Steps /\ torn \in BOOLEAN
  BY DEF Basic
<1>1. ASSUME NEW n \in Lengths, Downlink(n) PROVE Basic'
  <2>1. nb' \in Nat
    BY <1>1, <1>t, PutRing DEF Downlink
  <2> QED BY <1>1, <1>t, <2>1 DEF Downlink, events, Basic
<1>2. ASSUME NEW t \in IrqTypes, IrqRaise(t) PROVE Basic'
  <2>1. t \in Types /\ More(count[t]) \in Nat
    BY <1>t, TypesKnown, MoreCounts
  <2>2. count' \in [Types -> Nat]
    BY <1>2, <1>t, <2>1 DEF IrqRaise
  <2>3. number' \in Nat
    BY <1>2, <1>t DEF IrqRaise
  <2>4. torn' \in BOOLEAN
    <3>1. Busy \in BOOLEAN
      BY DEF Busy
    <3> QED BY <1>2, <1>t, <3>1 DEF IrqRaise
  <2> QED BY <1>2, <1>t, <2>2, <2>3, <2>4 DEF IrqRaise, ring, Basic
<1>3. ASSUME NEW t \in MainTypes, EngineRaise(t) PROVE Basic'
  BY <1>3, <1>t DEF EngineRaise, Main, ring, events, Basic, Steps
<1>4. CASE RunEngine
  BY <1>4, <1>t DEF RunEngine, Main, ring, events, Basic, Steps
<1>5. CASE RaiseTest \/ RaiseGrow \/ RaisePlace
  BY <1>5, <1>t DEF RaiseTest, RaiseGrow, RaisePlace, Main, ring, events, Basic, Steps
<1>6. CASE RaiseCount
  <2>1. count' \in [Types -> Nat]
    BY <1>6, <1>t, MoreCounts DEF RaiseCount
  <2> QED BY <1>6, <1>t, <2>1 DEF RaiseCount, Main, ring, Basic, Steps
<1>7. CASE SetSeen \/ GetClear
  <2>1. count' \in [Types -> Nat]
    BY <1>7, <1>t DEF SetSeen, GetClear
  <2> QED BY <1>7, <1>t, <2>1 DEF SetSeen, GetClear, Main, ring, Basic, Steps
<1>8. CASE MacBusy \/ Idle \/ GetEvent \/ GetLast \/ Look \/ Again
  BY <1>8, <1>t DEF MacBusy, Idle, GetEvent, GetLast, Look, Again, Main, ring, events, Basic, Steps
<1>9. CASE GetDownlink
  <2>1. nb' \in Nat
    BY <1>9, <1>t DEF GetDownlink, Take, ring
  <2> QED BY <1>9, <1>t, <2>1 DEF GetDownlink, Main, events, Basic, Steps
<1>10. CASE GetShrink
  BY <1>10, <1>t DEF GetShrink, Fewer, Main, ring, Basic, Steps
<1>11. CASE UNCHANGED vars
  BY <1>11, <1>t DEF vars, ring, events, Basic
<1> QED BY <1>1, <1>2, <1>3, <1>4, <1>5, <1>6, <1>7, <1>8, <1>9, <1>10, <1>11
        DEF Next, Interrupt, Engine, App

-----------------------------------------------------------------------------
(* The inductive invariant *)

\* The first n places of the stack name each type of S once, and no other type.
Listed(st, n, S) ==
    /\ \A i \in 1 .. n : st[i] \in S
    /\ \A t \in S : \E i \in 1 .. n : st[i] = t
    /\ \A i, j \in 1 .. n : st[i] = st[j] => i = j

Counted == {t \in Types : count[t] > 0}

\* What the stack should name: between the place and the count of a new event, and between the
\* clearing and the removal of a reported one, the event is named and not counted.  A place
\* that has been taken and not yet filled is not part of the stack.
Used   == IF pc \in {"count", "shrink"} THEN Counted \union {type} ELSE Counted
Length == IF pc = "place" THEN number - 1 ELSE number

\* The event at hand: one that is new, one that is reported, one of the downlinks.
AtHand ==
    /\ type \in Types
    /\ pc \in {"grow", "place", "shrink"} => count[type] = 0
    /\ pc \in {"place", "last", "fifo", "clear", "shrink"} => number >= 1
    /\ pc \in {"fifo", "clear", "shrink"} => stack[number] = type
    /\ pc \in {"fifo", "set"} => type = DownData
    /\ pc = "set" => count[DownData] > 0

\* A downlink is in the ring when one is counted or about to be.
Ringing ==
    /\ count[DownData] > 0 => nb > 0 \/ (pc = "clear" /\ type = DownData)
    /\ pc \in {"test", "grow", "place", "count", "set"} /\ type = DownData => seen > 0 /\ nb > 0

Whole == /\ stack \in [1 .. Slots -> Types] /\ number <= Slots
         /\ Listed(stack, Length, Used) /\ AtHand /\ Ringing

EventInv == Basic /\ (~torn => Whole)

\* A stack that does not name some type has room for it.
LEMMA Room ==
    ASSUME NEW st, NEW n \in Nat, NEW S \in SUBSET Types, Listed(st, n, S),
           NEW t \in Types, t \notin S
    PROVE  n + 1 <= Slots
<1> DEFINE f == [i \in 1 .. n |-> st[i]]
<1>1. f \in Injection(1 .. n, Types \ {t})
  BY DEF Listed, Injection, IsInjective
<1>2. /\ IsFiniteSet(Types \ {t}) /\ Cardinality(Types \ {t}) = Cardinality(Types) - 1
      /\ Cardinality(Types) \in Nat
  BY EventAssumption, FS_RemoveElement, FS_CardinalityType
<1>3. Cardinality(1 .. n) <= Cardinality(Types \ {t})
  BY <1>1, <1>2, FS_Injection
<1>4. Cardinality(1 .. n) = n
  BY FS_Interval
<1> QED BY <1>2, <1>3, <1>4, EventAssumption

LEMMA ListedAdd ==
    ASSUME NEW st \in [1 .. Slots -> Types], NEW n \in Nat, n + 1 <= Slots,
           NEW S \in SUBSET Types, Listed(st, n, S), NEW t \in Types, t \notin S
    PROVE  Listed([st EXCEPT ![n + 1] = t], n + 1, S \union {t})
<1> DEFINE u == [st EXCEPT ![n + 1] = t]
<1>1. u[n + 1] = t /\ \A i \in 1 .. n : u[i] = st[i]
  BY EventAssumption
<1>2. \A i \in 1 .. n + 1 : i \in 1 .. n \/ i = n + 1
  OBVIOUS
<1> HIDE DEF u
<1>3. \A i \in 1 .. n + 1 : u[i] \in S \union {t}
  BY <1>1, <1>2 DEF Listed
<1>4. \A s \in S \union {t} : \E i \in 1 .. n + 1 : u[i] = s
  <2> SUFFICES ASSUME NEW s \in S \union {t} PROVE \E i \in 1 .. n + 1 : u[i] = s
    OBVIOUS
  <2>1. CASE s = t
    BY <1>1, <2>1
  <2>2. CASE s \in S
    <3>1. PICK i \in 1 .. n : st[i] = s
      BY <2>2 DEF Listed
    <3> QED BY <1>1, <3>1
  <2> QED BY <2>1, <2>2
<1>5. \A i, j \in 1 .. n + 1 : u[i] = u[j] => i = j
  BY <1>1, <1>2 DEF Listed
<1> QED BY <1>3, <1>4, <1>5 DEF Listed, u

LEMMA ListedDrop ==
    ASSUME NEW st, NEW n \in Nat, n >= 1, NEW S, Listed(st, n, S)
    PROVE  Listed(st, n - 1, S \ {st[n]})
<1>1. n \in 1 .. n /\ \A i \in 1 .. n : i # n => i \in 1 .. n - 1
  OBVIOUS
<1>2. \A i \in 1 .. n - 1 : i \in 1 .. n /\ i # n
  OBVIOUS
<1>3. \A t \in S \ {st[n]} : \E i \in 1 .. n - 1 : st[i] = t
  BY <1>1 DEF Listed
<1> QED BY <1>1, <1>2, <1>3 DEF Listed

\* A step that leaves the stack, what it should name and the event at hand as they are.
LEMMA WholeKept ==
    ASSUME Basic, Whole, stack' = stack, number' = number, Length' = Length, Used' = Used,
           AtHand', Ringing'
    PROVE  Whole'
  BY DEF Whole

LEMMA WholeInit == Init => EventInv
<1> SUFFICES ASSUME Init PROVE EventInv
  OBVIOUS
<1>1. Basic
  BY TypesKnown DEF Init, Basic, Steps
<1>2. Counted = {Reset}
  BY TypesKnown DEF Init, Counted
<1>3. Listed(stack, 1, {Reset})
  BY EventAssumption DEF Init, Listed
<1>4. Used = {Reset} /\ Length = 1
  BY <1>2 DEF Init, Used, Length
<1>5. AtHand /\ Ringing
  BY TypesKnown DEF Init, AtHand, Ringing
<1>6. stack \in [1 .. Slots -> Types] /\ number <= Slots
  BY TypesKnown, EventAssumption DEF Init
<1> QED BY <1>1, <1>3, <1>4, <1>5, <1>6 DEF EventInv, Whole, Init

\* An interrupt: a downlink comes into the ring, an event is raised whole.
LEMMA DownlinkWhole ==
    ASSUME Basic, Whole, NEW n \in Lengths, Downlink(n)
    PROVE  Whole'
<1>1. nb' > 0 /\ UNCHANGED <<events, pc, type, pending, seen>>
  BY PutRing DEF Downlink, Basic
<1> QED BY <1>1 DEF Whole, Used, Length, Counted, AtHand, Ringing, events

LEMMA IrqRaiseWhole ==
    ASSUME Basic, Whole, NEW t \in IrqTypes, IrqRaise(t), ~torn'
    PROVE  Whole'
<1>t. /\ count \in [Types -> Nat] /\ number \in Nat /\ t \in Types /\ t # DownData
      /\ stack \in [1 .. Slots -> Types] /\ number <= Slots /\ pc \in Steps /\ type \in Types
  BY TypesKnown DEF Basic, Whole, AtHand
<1>g. UNCHANGED <<nb, pc, type, seen>>
  BY DEF IrqRaise, ring
<1>c. count' = [count EXCEPT ![t] = More(@)] /\ More(count[t]) \in Nat /\ More(count[t]) > 0
  BY <1>t, MoreCounts DEF IrqRaise
<1>1. CASE count[t] = 0
  <2>1. AtRest /\ number' = number + 1 /\ stack' = [stack EXCEPT ![number + 1] = t]
    BY <1>1 DEF IrqRaise, Busy
  <2>2. Used = Counted /\ Length = number /\ Used' = Counted' /\ Length' = number'
    BY <2>1, <1>g DEF Used, Length, AtRest
  <2>3. Listed(stack, number, Counted) /\ Counted \in SUBSET Types /\ t \notin Counted
    BY <2>2, <1>1 DEF Whole, Counted
  <2>4. number + 1 <= Slots
    BY <2>3, <1>t, Room
  <2>5. Listed(stack', number + 1, Counted \union {t})
    BY <2>1, <2>3, <2>4, <1>t, ListedAdd
  <2>6. Counted' = Counted \union {t}
    BY <1>c, <1>t DEF Counted
  <2>7. stack' \in [1 .. Slots -> Types]
    BY <2>1, <1>t
  <2>8. AtHand' /\ Ringing'
    BY <2>1, <1>g, <1>c, <1>t DEF AtRest, AtHand, Whole, Ringing
  <2> QED BY <2>1, <2>2, <2>4, <2>5, <2>6, <2>7, <2>8 DEF Whole
<1>2. CASE count[t] # 0
  <2>1. /\ stack' = stack /\ number' = number
        /\ pc \in {"test", "grow", "place", "count", "set", "last", "fifo", "clear", "shrink"} => t # type
    BY <1>2 DEF IrqRaise, Busy, AtRest
  <2>2. Counted' = Counted
    BY <1>2, <1>c, <1>t DEF Counted
  <2>3. Used' = Used /\ Length' = Length
    BY <2>1, <2>2, <1>g DEF Used, Length
  <2>4. AtHand' /\ Ringing'
    BY <2>1, <1>g, <1>c, <1>t DEF AtHand, Whole, Ringing
  <2> QED BY <2>1, <2>3, <2>4, WholeKept
<1> QED BY <1>1, <1>2

\* The engine: what it raises, step by step, and its looks at the stack.
LEMMA EngineWhole ==
    ASSUME Basic, Whole,
           \/ RunEngine \/ RaiseTest \/ RaiseGrow \/ RaisePlace \/ RaiseCount \/ SetSeen
           \/ Look \/ Again \/ Idle \/ MacBusy \/ \E t \in MainTypes : EngineRaise(t)
    PROVE  Whole'
<1>t. /\ count \in [Types -> Nat] /\ number \in Nat /\ type \in Types /\ nb \in Nat
      /\ stack \in [1 .. Slots -> Types] /\ number <= Slots /\ seen \in Nat
  BY DEF Basic, Whole, AtHand
<1>w. Listed(stack, Length, Used) /\ AtHand /\ Ringing
  BY DEF Whole
<1>s. Counted \in SUBSET Types /\ \A t \in Types : t \in Counted <=> count[t] # 0
  BY <1>t DEF Counted
<1>1. CASE \/ RunEngine \/ \E t \in MainTypes : EngineRaise(t)
  <2>1. /\ type' \in Types /\ (type' = DownData /\ pc' = "test" => nb > 0 /\ seen' > 0)
        /\ pc' \in {"test", "work"} /\ pc \in {"wait", "work"}
        /\ UNCHANGED <<ring, events>>
    <3>1. CASE RunEngine
      BY <3>1, <1>t, TypesKnown DEF RunEngine, Main, Waiting
    <3>2. CASE \E t \in MainTypes : EngineRaise(t)
      BY <3>2, TypesKnown DEF EngineRaise, Main
    <3> QED BY <1>1, <3>1, <3>2
  <2>2. Used' = Used /\ Length' = Length
    BY <2>1 DEF Used, Length, Counted, events
  <2>3. AtHand' /\ Ringing'
    BY <2>1, <1>t, <1>w, TypesKnown DEF AtHand, Ringing, ring, events
  <2> QED BY <2>1, <2>2, <2>3, WholeKept DEF events
<1>2. CASE RaiseTest
  <2>1. /\ pc = "test" /\ pc' = IF count[type] = 0 THEN "grow" ELSE "count"
        /\ UNCHANGED <<ring, events, type, seen>>
    BY <1>2 DEF RaiseTest, Main, Fresh
  <2>2. Used' = Used /\ Length' = Length
    <3>1. Counted' = Counted
      BY <2>1 DEF Counted, events
    <3> QED BY <2>1, <3>1, <1>t, <1>s DEF Used, Length, events
  <2>3. AtHand' /\ Ringing'
    BY <2>1, <1>t, <1>w DEF AtHand, Ringing, ring, events
  <2> QED BY <2>1, <2>2, <2>3, WholeKept DEF events
<1>3. CASE RaiseGrow
  <2>1. /\ pc = "grow" /\ pc' = "place" /\ number' = number + 1
        /\ UNCHANGED <<ring, count, stack, type, seen>>
    BY <1>3 DEF RaiseGrow, Main
  <2>2. Used' = Counted /\ Length' = number /\ Used = Counted /\ Length = number
    BY <2>1, <1>t DEF Used, Length, Counted
  <2>3. number + 1 <= Slots
    <3>1. type \notin Counted
      BY <2>1, <1>w, <1>t, <1>s DEF AtHand
    <3> QED BY <2>2, <3>1, <1>t, <1>w, <1>s, Room
  <2>4. AtHand' /\ Ringing'
    BY <2>1, <1>t, <1>w DEF AtHand, Ringing, ring
  <2> QED BY <2>1, <2>2, <2>3, <2>4, <1>t, <1>w DEF Whole
<1>4. CASE RaisePlace
  <2>1. /\ pc = "place" /\ pc' = "count" /\ stack' = [stack EXCEPT ![number] = type]
        /\ UNCHANGED <<ring, count, number, type, seen>>
    BY <1>4 DEF RaisePlace, Main
  <2>2. Used = Counted /\ Length = number - 1 /\ Used' = Counted \union {type} /\ Length' = number
    BY <2>1 DEF Used, Length, Counted
  <2>3. number >= 1 /\ type \notin Counted
    BY <2>1, <1>w, <1>t, <1>s DEF AtHand
  <2>4. Listed([stack EXCEPT ![(number - 1) + 1] = type], (number - 1) + 1, Counted \union {type})
    <3>1. number - 1 \in Nat /\ (number - 1) + 1 <= Slots
      BY <2>3, <1>t, EventAssumption
    <3> QED BY <2>2, <2>3, <3>1, <1>t, <1>w, <1>s, ListedAdd
  <2>5. (number - 1) + 1 = number
    BY <1>t
  <2>6. Listed(stack', Length', Used')
    BY <2>1, <2>2, <2>4, <2>5
  <2>7. AtHand' /\ Ringing'
    BY <2>1, <1>t, <1>w DEF AtHand, Ringing, ring
  <2>8. stack' \in [1 .. Slots -> Types] /\ number' <= Slots
    BY <2>1, <1>t
  <2> QED BY <2>6, <2>7, <2>8 DEF Whole
<1>5. CASE RaiseCount
  <2>1. /\ pc = "count" /\ pc' = IF type = DownData THEN "set" ELSE "work"
        /\ count' = [count EXCEPT ![type] = More(@)]
        /\ UNCHANGED <<ring, number, stack, type, seen>>
    BY <1>5 DEF RaiseCount, Main
  <2>2. More(count[type]) \in Nat /\ More(count[type]) > 0
    BY <1>t, MoreCounts
  <2>3. Used' = Used /\ Length' = Length
    <3>1. Counted' = Counted \union {type}
      BY <2>1, <2>2, <1>t DEF Counted
    <3> QED BY <2>1, <3>1 DEF Used, Length
  <2>4. AtHand' /\ Ringing'
    BY <2>1, <2>2, <1>t, <1>w DEF AtHand, Ringing, ring
  <2> QED BY <2>1, <2>3, <2>4, WholeKept
<1>6. CASE SetSeen
  <2>1. /\ pc = "set" /\ pc' = "work" /\ count' = [count EXCEPT ![DownData] = seen]
        /\ UNCHANGED <<ring, number, stack, type, seen>>
    BY <1>6 DEF SetSeen, Main
  <2>2. seen > 0 /\ nb > 0 /\ count[DownData] > 0
    BY <2>1, <1>w DEF AtHand, Ringing
  <2>3. Used' = Used /\ Length' = Length
    <3>1. Counted' = Counted
      BY <2>1, <2>2, <1>t, TypesKnown DEF Counted
    <3> QED BY <2>1, <3>1 DEF Used, Length
  <2>4. AtHand' /\ Ringing'
    BY <2>1, <2>2, <1>t, <1>w DEF AtHand, Ringing, ring
  <2> QED BY <2>1, <2>3, <2>4, WholeKept
<1>7. CASE Look \/ Again \/ Idle \/ MacBusy
  <2>1. /\ pc \in {"look", "again", "work"} /\ pc' \in {"again", "callback", "wait", "look"}
        /\ UNCHANGED <<ring, events, type, seen>>
    BY <1>7 DEF Look, Again, Idle, MacBusy, Main
  <2>2. Used' = Used /\ Length' = Length
    BY <2>1 DEF Used, Length, Counted, events
  <2>3. AtHand' /\ Ringing'
    BY <2>1, <1>t, <1>w DEF AtHand, Ringing, ring, events
  <2> QED BY <2>1, <2>2, <2>3, WholeKept DEF events
<1> QED BY <1>1, <1>2, <1>3, <1>4, <1>5, <1>6, <1>7

\* The application: it takes the event on top, and removes it.
LEMMA AppWhole ==
    ASSUME Basic, Whole, GetEvent \/ GetLast \/ GetDownlink \/ GetClear \/ GetShrink
    PROVE  Whole'
<1>t. /\ count \in [Types -> Nat] /\ number \in Nat /\ type \in Types /\ nb \in Nat
      /\ stack \in [1 .. Slots -> Types] /\ number <= Slots /\ seen \in Nat
  BY DEF Basic, Whole, AtHand
<1>w. Listed(stack, Length, Used) /\ AtHand /\ Ringing
  BY DEF Whole
<1>s. Counted \in SUBSET Types /\ \A t \in Types : t \in Counted <=> count[t] # 0
  BY <1>t DEF Counted
<1>1. CASE GetEvent
  <2>1. /\ pc = "callback" /\ pc' = IF number > 0 THEN "last" ELSE "look"
        /\ UNCHANGED <<ring, events, type, seen>>
    BY <1>1 DEF GetEvent, Main
  <2>2. Used' = Used /\ Length' = Length
    BY <2>1 DEF Used, Length, Counted, events
  <2>3. AtHand' /\ Ringing'
    BY <2>1, <1>t, <1>w DEF AtHand, Ringing, ring, events
  <2> QED BY <2>1, <2>2, <2>3, WholeKept DEF events
<1>2. CASE GetLast
  <2>1. /\ pc = "last" /\ pc' = (IF stack[number] = DownData THEN "fifo" ELSE "clear")
        /\ type' = stack[number] /\ UNCHANGED <<ring, events, seen>>
    BY <1>2 DEF GetLast, Main
  <2>2. Used' = Used /\ Length' = Length
    BY <2>1 DEF Used, Length, Counted, events
  <2>3. number >= 1 /\ stack[number] \in Types
    BY <2>1, <1>t, <1>w, EventAssumption DEF AtHand
  <2>4. AtHand' /\ Ringing'
    BY <2>1, <2>3, <1>t, <1>w DEF AtHand, Ringing, ring, events
  <2> QED BY <2>1, <2>2, <2>4, WholeKept DEF events
<1>3. CASE GetDownlink
  <2>1. /\ pc = "fifo" /\ pc' = "clear" /\ UNCHANGED <<events, type, seen>>
    BY <1>3 DEF GetDownlink, Main
  <2>2. Used' = Used /\ Length' = Length
    BY <2>1 DEF Used, Length, Counted, events
  <2>3. AtHand' /\ Ringing'
    BY <2>1, <1>t, <1>w DEF AtHand, Ringing, events
  <2> QED BY <2>1, <2>2, <2>3, WholeKept DEF events
<1>4. CASE GetClear
  <2>1. /\ pc = "clear" /\ pc' = "shrink" /\ count' = [count EXCEPT ![type] = 0]
        /\ UNCHANGED <<ring, number, stack, type, seen>>
    BY <1>4 DEF GetClear, Main
  <2>2. Used' = Used /\ Length' = Length
    <3>1. type \in Counted
      BY <2>1, <1>w, <1>t DEF AtHand, Listed, Used, Length
    <3>2. Counted' = Counted \ {type}
      BY <2>1, <1>t DEF Counted
    <3> QED BY <2>1, <3>1, <3>2 DEF Used, Length
  <2>3. AtHand' /\ Ringing'
    BY <2>1, <1>t, <1>w, TypesKnown DEF AtHand, Ringing, ring
  <2> QED BY <2>1, <2>2, <2>3, WholeKept
<1>5. CASE GetShrink
  <2>1. /\ pc = "shrink" /\ pc' \in {"callback", "look"}
        /\ number >= 1 /\ number' = number - 1 /\ stack[number] = type /\ count[type] = 0
        /\ UNCHANGED <<ring, count, stack, type, seen>>
    BY <1>5, <1>w, <1>t DEF GetShrink, Fewer, Main, AtHand
  <2>2. Used = Counted \union {type} /\ Length = number /\ Used' = Counted /\ Length' = number - 1
    BY <2>1 DEF Used, Length, Counted
  <2>3. (Counted \union {type}) \ {stack[number]} = Counted
    <3>1. type \notin Counted
      BY <2>1, <1>t, <1>s
    <3> QED BY <2>1, <3>1
  <2>4. Listed(stack', Length', Used')
    <3>1. Listed(stack, number, Counted \union {type})
      BY <2>2, <1>w
    <3>2. Listed(stack, number - 1, (Counted \union {type}) \ {stack[number]})
      BY <2>1, <3>1, <1>t, ListedDrop
    <3>3. stack' = stack
      BY <2>1
    <3> QED BY <2>2, <2>3, <3>2, <3>3
  <2>5. AtHand' /\ Ringing'
    BY <2>1, <1>t, <1>w DEF AtHand, Ringing, ring
  <2>6. stack' \in [1 .. Slots -> Types] /\ number' <= Slots
    BY <2>1, <1>t, EventAssumption
  <2> QED BY <2>4, <2>5, <2>6 DEF Whole
<1> QED BY <1>1, <1>2, <1>3, <1>4, <1>5

-----------------------------------------------------------------------------
LEMMA EventStep ==
    ASSUME EventInv, [Next]_vars
    PROVE  EventInv'
<1>b. Basic /\ Basic'
  BY BasicStep DEF EventInv
<1> SUFFICES ASSUME ~torn' PROVE Whole'
  BY <1>b DEF EventInv
<1>1. CASE UNCHANGED vars
  <2>1. Whole
    BY <1>1 DEF EventInv, vars
  <2> QED BY <1>1, <2>1
          DEF vars, ring, events, Whole, Listed, Used, Counted, Length, AtHand, Ringing
<1>2. ASSUME NEW n \in Lengths, Downlink(n) PROVE Whole'
  BY <1>2, DownlinkWhole DEF EventInv, Downlink
<1>3. ASSUME NEW t \in IrqTypes, IrqRaise(t) PROVE Whole'
  <2>1. ~torn
    BY <1>3, <1>b DEF IrqRaise, Basic, Busy
  <2> QED BY <1>3, <2>1, IrqRaiseWhole DEF EventInv
<1>4. CASE \/ RunEngine \/ RaiseTest \/ RaiseGrow \/ RaisePlace \/ RaiseCount \/ SetSeen
           \/ Look \/ Again \/ Idle \/ MacBusy \/ \E t \in MainTypes : EngineRaise(t)
  <2>1. torn' = torn
    BY <1>4 DEF RunEngine, RaiseTest, RaiseGrow, RaisePlace, RaiseCount, SetSeen,
                Look, Again, Idle, MacBusy, EngineRaise, Main
  <2> QED BY <1>4, <2>1, EngineWhole DEF EventInv
<1>5. CASE App
  <2>1. torn' = torn
    BY <1>5 DEF App, GetEvent, GetLast, GetDownlink, GetClear, GetShrink, Main
  <2> QED BY <1>5, <2>1, AppWhole DEF EventInv, App
<1> QED BY <1>1, <1>2, <1>3, <1>4, <1>5 DEF Next, Interrupt, Engine

\* At rest, a stack that is whole names each counted type at one place.
LEMMA NamedOnce ==
    ASSUME EventInv, ~torn, AtRest, NEW t \in Types
    PROVE  Cardinality(Named(t)) = IF count[t] > 0 THEN 1 ELSE 0
<1>1. number \in Nat /\ Listed(stack, number, Counted)
  BY DEF EventInv, Basic, Whole, AtRest, Used, Length
<1>2. CASE count[t] > 0
  <2>1. t \in Counted
    BY <1>2 DEF Counted
  <2>2. PICK i \in 1 .. number : stack[i] = t
    BY <1>1, <2>1 DEF Listed
  <2>3. Named(t) = {i}
    BY <1>1, <2>2 DEF Listed, Named
  <2> QED BY <1>2, <2>3, FS_Singleton
<1>3. CASE ~(count[t] > 0)
  <2>1. Named(t) = {}
    BY <1>1, <1>3 DEF Listed, Named, Counted
  <2> QED BY <1>3, <2>1, FS_EmptySet
<1> QED BY <1>2, <1>3

\* The stack (increment_asynchronous_msgnumber and smtc_modem_get_event, with interrupts
\* between their steps): as long as no interrupt has torn a raise or a report, each counted
\* type is on the stack once, no other type is, and a reported downlink is in the ring -- for
\* every set of types, every size of the ring and any number of events.
THEOREM StackWhole == Spec => []InStack
<1>1. Init => EventInv
  BY WholeInit
<1>2. EventInv /\ [Next]_vars => EventInv'
  BY EventStep
<1>3. EventInv => InStack
  <2> SUFFICES ASSUME EventInv, ~torn, AtRest PROVE
          /\ \A t \in Types : Cardinality(Named(t)) = IF count[t] > 0 THEN 1 ELSE 0
          /\ count[DownData] > 0 => nb > 0
    BY DEF InStack
  <2>1. count[DownData] > 0 => nb > 0
    BY DEF EventInv, Whole, Ringing, AtRest
  <2> QED BY <2>1, NamedOnce
<1> QED BY <1>1, <1>2, <1>3, PTL DEF Spec

\* The code stores into asynch_msg without looking at its length (modem_context.c): until
\* an interrupt tears a raise, the stack still stays within it, and smtc_modem_get_event
\* removes the event it has read.
StackBounded ==
    ~torn => /\ number <= Slots /\ stack \in [1 .. Slots -> Types]
             /\ pc \in {"place", "last"} => number >= 1
             /\ pc \in {"fifo", "clear", "shrink"} => number >= 1 /\ stack[number] = type
THEOREM StackFits == Spec => []StackBounded
<1>1. Init => EventInv
  BY WholeInit
<1>2. EventInv /\ [Next]_vars => EventInv'
  BY EventStep
<1>3. EventInv => StackBounded
  BY DEF EventInv, Whole, AtHand, StackBounded
<1> QED BY <1>1, <1>2, <1>3, PTL DEF Spec

-----------------------------------------------------------------------------
(* Induction, and sums over the places of a sequence *)

\* Every set of naturals that is not empty has a least member.
LEMMA Smallest ==
    ASSUME NEW T, T \subseteq Nat, T # {}
    PROVE  \E m \in T : \A k \in T : m <= k
<1>1. PICK m \in T : \A k \in T : ~ (<<k, m>> \in OpToRel(<, Nat))
  BY NatLessThanWellFounded, WFMin
<1>2. \A k \in T : ~ (k < m)
  BY <1>1 DEF OpToRel
<1> QED BY <1>2

\* Induction over the naturals, for a set.
LEMMA Stepwise ==
    ASSUME NEW T, 0 \in T, \A n \in Nat : n \in T => n + 1 \in T
    PROVE  Nat \subseteq T
<1> SUFFICES ASSUME Nat \ T # {} PROVE FALSE
  OBVIOUS
<1>1. PICK m \in Nat \ T : \A k \in Nat \ T : m <= k
  BY Smallest, Zenon
<1>2. m # 0 /\ m - 1 \in Nat /\ m = (m - 1) + 1
  BY <1>1
<1>3. m - 1 \in T
  BY <1>1, <1>2
<1> QED BY <1>1, <1>2, <1>3

\* What Min of FiniteSetsExt, a CHOOSE, gives.
LEMMA MinOf ==
    ASSUME NEW S, S \subseteq Nat, S # {}
    PROVE  Min(S) \in S /\ \A k \in S : Min(S) <= k
<1>1. \E m \in S : \A k \in S : m <= k
  BY Smallest, Zenon
<1> QED BY <1>1 DEF Min

\* g sums w over the sets of the first n places, in whichever order they are taken.
Sums(g, w, n) ==
    /\ g \in [SUBSET (1 .. n) -> Int] /\ g[{}] = 0
    /\ \A s \in SUBSET (1 .. n) : \A x \in s : g[s] = w[x] + g[s \ {x}]

\* There is one, for every n, by induction.
LEMMA SumsExist ==
    ASSUME NEW n \in Nat, NEW w \in [1 .. n -> Int]
    PROVE  \E g : Sums(g, w, n)
<1> DEFINE T == {k \in Nat : k <= n => \E g : Sums(g, w, k)}
<1>1. 0 \in T
  <2> DEFINE g == [s \in SUBSET (1 .. 0) |-> 0]
  <2>1. 1 .. 0 = {}
    OBVIOUS
  <2>2. Sums(g, w, 0)
    BY <2>1 DEF Sums
  <2> QED BY <2>2
<1>2. ASSUME NEW k \in Nat, k \in T PROVE k + 1 \in T
  <2> SUFFICES ASSUME k + 1 <= n PROVE \E g : Sums(g, w, k + 1)
    OBVIOUS
  <2>1. PICK g : Sums(g, w, k)
    BY <1>2
  <2> DEFINE D == 1 .. k + 1
             h == [s \in SUBSET D |-> IF k + 1 \in s THEN w[k + 1] + g[s \ {k + 1}] ELSE g[s]]
  <2>2. /\ w[k + 1] \in Int /\ 1 .. k + 1 = (1 .. k) \union {k + 1} /\ k + 1 \notin 1 .. k
        /\ \A x \in 1 .. k + 1 : w[x] \in Int
    OBVIOUS
  <2> HIDE DEF T
  <2>3. \A s \in SUBSET D : s \ {k + 1} \in SUBSET (1 .. k) /\ (k + 1 \notin s => s \in SUBSET (1 .. k))
    BY <2>2
  <2>4. \A s \in SUBSET (1 .. k) : g[s] \in Int
    BY <2>1 DEF Sums
  <2>5. h \in [SUBSET D -> Int]
    BY <2>2, <2>3, <2>4
  <2>6. h[{}] = 0
    BY <2>1 DEF Sums
  <2>7. ASSUME NEW s \in SUBSET D, NEW x \in s PROVE h[s] = w[x] + h[s \ {x}]
    <3>1. CASE x = k + 1
      BY <3>1
    <3>2. CASE x # k + 1 /\ k + 1 \notin s
      <4>1. h[s] = g[s] /\ h[s \ {x}] = g[s \ {x}] /\ s \in SUBSET (1 .. k)
        BY <3>2, <2>3
      <4> QED BY <4>1, <2>1, ZenonT(60) DEF Sums
    <3>3. CASE x # k + 1 /\ k + 1 \in s
      <4> DEFINE r == s \ {k + 1}
      <4>1. h[s] = w[k + 1] + g[r] /\ h[s \ {x}] = w[k + 1] + g[r \ {x}]
        <5>1. (s \ {x}) \ {k + 1} = r \ {x}
          OBVIOUS
        <5> QED BY <3>3, <5>1
      <4>2. r \in SUBSET (1 .. k) /\ x \in r /\ r \ {x} \in SUBSET (1 .. k)
        BY <3>3, <2>3
      <4> HIDE DEF r, h
      <4>3. g[r] = w[x] + g[r \ {x}]
        BY <2>1, <4>2 DEF Sums
      <4>4. g[r \ {x}] \in Int /\ w[x] \in Int
        BY <2>4, <4>2, <2>2
      <4> QED BY <4>1, <4>3, <4>4, <2>2
    <3> QED BY <3>1, <3>2, <3>3
  <2> HIDE DEF h
  <2>8. Sums(h, w, k + 1)
    <3>1. \A s \in SUBSET D : \A x \in s : h[s] = w[x] + h[s \ {x}]
      BY <2>7
    <3> QED BY <2>5, <2>6, <3>1, Zenon DEF Sums
  <2> QED BY <2>8
<1>3. n \in T
  <2> HIDE DEF T
  <2> QED BY <1>1, <1>2, Stepwise
<1> QED BY <1>3

\* What the fold of DownlinkQueue computes: the octets of a queue whose records begin at at.
Weighs(f, q, D) ==
    f = [s \in SUBSET D |-> IF s = {} THEN 0
            ELSE LET x == CHOOSE x \in s : TRUE IN f[s \ {x}] + Header + Len(q[x].data)]

\* The equation of the fold has one solution at most.
LEMMA WeighsOnce ==
    ASSUME NEW q, NEW n \in Nat, NEW f, NEW g, Weighs(f, q, 1 .. n), Weighs(g, q, 1 .. n)
    PROVE  f[1 .. n] = g[1 .. n]
<1> DEFINE D == 1 .. n
           T == {k \in Nat : \A s \in SUBSET D : Cardinality(s) <= k => f[s] = g[s]}
<1>d. IsFiniteSet(D) /\ Cardinality(D) = n
  BY FS_Interval
<1>f. \A s \in SUBSET D : IsFiniteSet(s) /\ Cardinality(s) \in Nat
  BY <1>d, FS_Subset, FS_CardinalityType, Zenon
<1>e. /\ f[{}] = 0 /\ g[{}] = 0
      /\ \A s \in SUBSET D : s # {} =>
            LET x == CHOOSE x \in s : TRUE
            IN /\ f[s] = f[s \ {x}] + Header + Len(q[x].data)
               /\ g[s] = g[s \ {x}] + Header + Len(q[x].data)
  BY DEF Weighs
<1>1. 0 \in T
  <2>1. ASSUME NEW s \in SUBSET D, Cardinality(s) <= 0 PROVE f[s] = g[s]
    <3>1. s = {}
      BY <1>f, <2>1, FS_EmptySet
    <3> QED BY <3>1, <1>e
  <2> QED BY <2>1
<1>2. ASSUME NEW k \in Nat, k \in T PROVE k + 1 \in T
  <2> SUFFICES ASSUME NEW s \in SUBSET D, Cardinality(s) <= k + 1 PROVE f[s] = g[s]
    OBVIOUS
  <2>1. CASE s = {}
    BY <2>1, <1>e
  <2>2. CASE s # {}
    <3> DEFINE x == CHOOSE x \in s : TRUE
               r == s \ {x}
    <3>1. /\ f[s] = f[r] + Header + Len(q[x].data)
          /\ g[s] = g[r] + Header + Len(q[x].data)
      BY <1>e, <2>2
    <3>2. x \in s
      BY <2>2
    <3> HIDE DEF x
    <3>3. Cardinality(r) <= k
      <4>1. Cardinality(r) = Cardinality(s) - 1
        BY <1>f, <3>2, FS_RemoveElement
      <4> QED BY <4>1, <1>f
    <3>4. f[r] = g[r]
      BY <1>2, <3>3
    <3> QED BY <3>1, <3>4
  <2> QED BY <2>1, <2>2
<1>3. n \in T
  <2> HIDE DEF T
  <2> QED BY <1>1, <1>2, Stepwise
<1> QED BY <1>3, <1>d

\* The octets of a queue whose records lie one behind the other are where it ends less where it begins.
LEMMA OctetsOfQueue ==
    ASSUME NEW n \in Nat, NEW q, DOMAIN q = 1 .. n, \A i \in 1 .. n : Len(q[i].data) \in Nat,
           NEW at \in [1 .. n + 1 -> Int],
           \A i \in 1 .. n : at[i + 1] = at[i] + Header + Len(q[i].data)
    PROVE  Queue!Octets(q) = at[n + 1] - at[1]
<1> DEFINE D == 1 .. n
           w == [i \in D |-> Header + Len(q[i].data)]
           P(f) == Weighs(f, q, D)
           F == CHOOSE f : P(f)
<1>h. Header \in Nat
  BY EventAssumption
<1>1. Queue!Octets(q) = F[D]
  BY DEF Queue!Octets, Queue!FoldSeq, Queue!FoldFunction, Queue!FoldFunctionOnSet, Queue!MapThenFoldSet, Weighs
<1>2. w \in [D -> Int]
  BY <1>h
<1>3. PICK g : Sums(g, w, n)
  BY <1>2, SumsExist
<1>4. P(g)
  <2>1. ASSUME NEW s \in SUBSET D, s # {}
        PROVE  g[s] = LET x == CHOOSE x \in s : TRUE IN g[s \ {x}] + Header + Len(q[x].data)
    <3> DEFINE x == CHOOSE x \in s : TRUE
    <3>1. x \in s
      BY <2>1
    <3> HIDE DEF x
    <3>2. g[s] = w[x] + g[s \ {x}] /\ g[s \ {x}] \in Int
      BY <3>1, <1>3 DEF Sums
    <3>3. Len(q[x].data) \in Nat /\ w[x] = Header + Len(q[x].data)
      BY <3>1
    <3>4. g[s] = g[s \ {x}] + Header + Len(q[x].data)
      <4> DEFINE v == Len(q[x].data)
                 y == g[s \ {x}]
      <4>1. g[s] = w[x] + y /\ y \in Int /\ v \in Nat /\ w[x] = Header + v
        BY <3>2, <3>3
      <4> HIDE DEF v, y, w
      <4>2. g[s] = y + Header + v
        BY <4>1, <1>h
      <4> QED BY <4>2 DEF v, y
    <3> QED BY <3>4 DEF x
  <2>2. g \in [SUBSET D -> Int] /\ g[{}] = 0
    BY <1>3 DEF Sums
  <2> QED BY <2>1, <2>2 DEF Weighs
<1>5. P(F)
  BY <1>4
<1>6. F[D] = g[D]
  <2> HIDE DEF F
  <2> QED BY <1>4, <1>5, WeighsOnce
<1> HIDE DEF F
<1> DEFINE T == {k \in Nat : k <= n => g[1 .. k] = at[k + 1] - at[1]}
<1>7. 0 \in T
  <2>1. 1 .. 0 = {} /\ g[{}] = 0 /\ at[1] \in Int
    BY <1>3 DEF Sums
  <2> QED BY <2>1
<1>8. ASSUME NEW k \in Nat, k \in T PROVE k + 1 \in T
  <2> SUFFICES ASSUME k + 1 <= n PROVE g[1 .. k + 1] = at[k + 2] - at[1]
    OBVIOUS
  <2>1. /\ (1 .. k + 1) \ {k + 1} = 1 .. k /\ k + 1 \in 1 .. k + 1
        /\ 1 .. k + 1 \in SUBSET D /\ k + 1 \in D
    OBVIOUS
  <2>2. g[1 .. k + 1] = w[k + 1] + g[1 .. k]
    <3>1. \A s \in SUBSET D : \A x \in s : g[s] = w[x] + g[s \ {x}]
      BY <1>3 DEF Sums
    <3> DEFINE S == 1 .. k + 1
               R == 1 .. k
    <3>2. S \ {k + 1} = R /\ k + 1 \in S /\ S \in SUBSET D
      BY <2>1
    <3> HIDE DEF S, R, w
    <3> QED BY <3>1, <3>2 DEF S, R
  <2>3. at[k + 2] = at[k + 1] + Header + Len(q[k + 1].data) /\ w[k + 1] = Header + Len(q[k + 1].data)
    <3>1. (k + 1) + 1 = k + 2
      OBVIOUS
    <3> QED BY <2>1, <3>1
  <2>4. /\ g[1 .. k] = at[k + 1] - at[1] /\ at[k + 1] \in Int /\ at[1] \in Int
        /\ Len(q[k + 1].data) \in Nat
    BY <1>8, <2>1
  <2> DEFINE v == Len(q[k + 1].data)
  <2> HIDE DEF v, w
  <2> QED BY <2>2, <2>3, <2>4, <1>h DEF v
<1>9. n \in T
  <2> HIDE DEF T
  <2> QED BY <1>7, <1>8, Stepwise
<1> QED BY <1>1, <1>6, <1>9

(* Remainders *)

\* Quotient and remainder.
LEMMA DivMod ==
    ASSUME NEW a \in Int, NEW u \in Nat \ {0}
    PROVE  /\ a \div u \in Int /\ a % u \in 0 .. u - 1
           /\ a = u * (a \div u) + (a % u)
  OBVIOUS

\* A factor taken out.
LEMMA Product ==
    ASSUME NEW u \in Nat, NEW a \in Int, NEW b \in Int
    PROVE  u * (a + b) = u * a + u * b /\ u * (a - b) = u * a - u * b /\ u * a \in Int
  OBVIOUS

\* A number that is a multiple and a rest has that rest for its remainder.
LEMMA ModAt ==
    ASSUME NEW u \in Nat \ {0}, NEW a \in Int, NEW k \in Int, NEW r \in 0 .. u - 1, a = u * k + r
    PROVE  a % u = r
  OBVIOUS

\* Remainders near zero.
LEMMA ModSteps ==
    ASSUME NEW u \in Nat \ {0}, NEW a \in Int
    PROVE  /\ a \in 0 .. u - 1 => a % u = a
           /\ a \in -u .. -1 => a % u = a + u
  OBVIOUS

\* Multiples do not change a remainder.
LEMMA ModSame ==
    ASSUME NEW u \in Nat \ {0}, NEW a \in Int, NEW k \in Int
    PROVE  (a + u * k) % u = a % u
<1> DEFINE q == a \div u
           r == a % u
<1>1. q \in Int /\ r \in 0 .. u - 1 /\ a = u * q + r
  BY DivMod
<1> HIDE DEF q, r
<1>2. a + u * k = u * (q + k) + r
  BY <1>1, Product
<1>3. a + u * k \in Int /\ q + k \in Int
  BY <1>1, Product
<1> QED BY <1>1, <1>2, <1>3, ModAt DEF r

\* Where x octets after position p are in the buffer, and how far its place is from that of q.
LEMMA Around ==
    ASSUME NEW p \in Int, NEW x \in Int
    PROVE  /\ p % Size \in Places
           /\ ((p % Size) + x) % Size = (p + x) % Size
<1>s. Size \in Nat \ {0}
  BY EventAssumption
<1> DEFINE k == p \div Size
           r == p % Size
           a == r + x
<1>1. k \in Int /\ r \in 0 .. Size - 1 /\ p = Size * k + r
  BY <1>s, DivMod
<1> HIDE DEF k, r
<1>2. a \in Int /\ p + x = a + Size * k
  BY <1>1, <1>s, Product
<1> HIDE DEF a
<1>3. (a + Size * k) % Size = a % Size
  BY <1>1, <1>2, <1>s, ModSame
<1> QED BY <1>1, <1>2, <1>3 DEF r, a, Places

\* The distance of two places, around the end, is that of their positions.
LEMMA Apart ==
    ASSUME NEW p \in Int, NEW q \in Int
    PROVE  ((p % Size) - (q % Size)) % Size = (p - q) % Size
<1>s. Size \in Nat \ {0}
  BY EventAssumption
<1> DEFINE k == p \div Size
           r == p % Size
           l == q \div Size
           t == q % Size
           a == r - t
           j == k - l
<1>1. k \in Int /\ r \in 0 .. Size - 1 /\ p = Size * k + r
  BY <1>s, DivMod
<1>2. l \in Int /\ t \in 0 .. Size - 1 /\ q = Size * l + t
  BY <1>s, DivMod
<1> HIDE DEF k, r, l, t
<1>3. a \in Int /\ j \in Int /\ p - q = a + Size * j
  BY <1>1, <1>2, <1>s, Product
<1> HIDE DEF a, j
<1>4. (a + Size * j) % Size = a % Size
  BY <1>3, <1>s, ModSame
<1> QED BY <1>3, <1>4 DEF a, r, t

-----------------------------------------------------------------------------
(* The ring as a tape: the records lie one behind the other at positions    *)
(* that are never reused, and the place of a position is its remainder.     *)

\* pos are the positions of the n records that begin at the place r, and of the next one.
Frames(b, r, n, pos) ==
    /\ pos \in [1 .. n + 1 -> Nat] /\ r = pos[1] % Size
    /\ \A k \in 1 .. n : b[pos[k] % Size] \in Nat /\ pos[k + 1] = pos[k] + Header + b[pos[k] % Size]
    /\ \A k \in 1 .. n : b[pos[k] % Size] \in Lengths

\* StartOf, RecordAt, OctetsOf and Content for a given buffer, so that they can be primed.
Starts(b, r, n) ==
    CHOOSE start : start = [k \in 1 .. n + 1 |->
        IF k = 1 THEN r ELSE (start[k - 1] + Header + b[start[k - 1]]) % Size]

RecordIn(b, p) == [id |-> b[(p + 1) % Size],
                   data |-> [i \in 1 .. b[p % Size] |-> b[(p + Header + i - 1) % Size]]]

\* The places where the records begin are those of their positions.
LEMMA StartsAre ==
    ASSUME NEW b, NEW r, NEW n \in Nat, NEW pos, Frames(b, r, n, pos)
    PROVE  \A k \in 1 .. n + 1 : Starts(b, r, n)[k] = pos[k] % Size
<1>r. r = pos[1] % Size
  BY DEF Frames
<1> DEFINE Next1(f, k) == IF k = 1 THEN r ELSE (f[k - 1] + Header + b[f[k - 1]]) % Size
           P(f) == f = [k \in 1 .. n + 1 |-> Next1(f, k)]
           at == [k \in 1 .. n + 1 |-> pos[k] % Size]
           F == Starts(b, r, n)
<1>h. Header \in Nat
  BY EventAssumption
<1>1. P(at)
  <2>1. ASSUME NEW k \in 1 .. n + 1, k # 1 PROVE at[k] = Next1(at, k)
    <3> DEFINE j == k - 1
    <3>1. j \in 1 .. n /\ j + 1 = k /\ j \in 1 .. n + 1
      BY <2>1
    <3> HIDE DEF j
    <3>2. b[pos[j] % Size] \in Nat /\ pos[k] = pos[j] + Header + b[pos[j] % Size] /\ pos[j] \in Nat
      BY <3>1 DEF Frames
    <3> DEFINE v == Header + b[pos[j] % Size]
    <3>3. v \in Int /\ pos[k] = pos[j] + v
      BY <3>2, <1>h
    <3>4. ((pos[j] % Size) + v) % Size = (pos[j] + v) % Size
      <4> DEFINE y == pos[j]
      <4>1. y \in Int
        BY <3>2
      <4> HIDE DEF v, y
      <4> QED BY <4>1, <3>3, Around DEF y
    <3>5. at[j] = pos[j] % Size /\ at[k] = pos[k] % Size
      BY <3>1
    <3>6. (pos[j] % Size) + v = at[j] + Header + b[at[j]]
      <4>1. at[j] \in Int
        <5> DEFINE y == pos[j]
        <5>1. y \in Int /\ 0 \in Int
          BY <3>2
        <5> HIDE DEF y
        <5>2. y % Size \in Places
          BY <5>1, Around
        <5> QED BY <5>2, <3>5 DEF y, Places
      <4> HIDE DEF at
      <4> QED BY <4>1, <3>2, <3>5, <1>h
    <3>7. at[k] = (at[j] + Header + b[at[j]]) % Size
      BY <3>3, <3>4, <3>5, <3>6
    <3>8. k - 1 = j
      BY DEF j
    <3> HIDE DEF at
    <3> QED BY <3>7, <3>8, <2>1
  <2>2. at[1] = Next1(at, 1)
    BY <1>r
  <2>3. \A k \in 1 .. n + 1 : at[k] = Next1(at, k)
    BY <2>1, <2>2
  <2>4. at = [k \in 1 .. n + 1 |-> at[k]]
    OBVIOUS
  <2> HIDE DEF at, Next1
  <2> QED BY <2>3, <2>4
<1>2. P(F)
  BY <1>1 DEF Starts
<1> HIDE DEF F
<1> DEFINE T == {k \in Nat : k <= n => F[k + 1] = at[k + 1]}
<1>3. 0 \in T
  <2>1. 1 \in 1 .. n + 1 /\ 0 + 1 = 1
    OBVIOUS
  <2> HIDE DEF at
  <2>2. F[1] = r /\ at[1] = r
    BY <1>1, <1>2, <2>1
  <2> QED BY <2>1, <2>2
<1>4. ASSUME NEW k \in Nat, k \in T PROVE k + 1 \in T
  <2> SUFFICES ASSUME k + 1 <= n PROVE F[(k + 1) + 1] = at[(k + 1) + 1]
    OBVIOUS
  <2> DEFINE m == k + 1
  <2>1. m \in 1 .. n + 1 /\ m + 1 \in 1 .. n + 1 /\ m + 1 # 1 /\ (m + 1) - 1 = m
    OBVIOUS
  <2>2. F[m] = at[m]
    BY <1>4
  <2> HIDE DEF m, at
  <2>3. F[m + 1] = Next1(F, m + 1) /\ at[m + 1] = Next1(at, m + 1)
    BY <1>1, <1>2, <2>1
  <2>4. Next1(F, m + 1) = Next1(at, m + 1)
    BY <2>1, <2>2
  <2> QED BY <2>3, <2>4 DEF m
<1>5. ASSUME NEW k \in 1 .. n + 1 PROVE F[k] = at[k]
  <2> DEFINE j == k - 1
  <2>1. j \in Nat /\ j <= n /\ j + 1 = k
    OBVIOUS
  <2> HIDE DEF j, T, at
  <2>2. j \in T
    BY <1>3, <1>4, <2>1, Stepwise
  <2> QED BY <2>1, <2>2 DEF T
<1> QED BY <1>5 DEF F

\* Positions only grow.
LEMMA Rising ==
    ASSUME NEW b, NEW r, NEW n \in Nat, NEW pos, NEW i \in 1 .. n + 1, Frames(b, r, n, pos)
    PROVE  \A k \in i .. n + 1 : pos[i] <= pos[k] /\ pos[i] \in Nat /\ pos[k] \in Nat
<1> DEFINE T == {j \in Nat : i + j <= n + 1 => pos[i] <= pos[i + j]}
<1>p. \A k \in 1 .. n + 1 : pos[k] \in Nat
  BY DEF Frames
<1>1. 0 \in T
  <2>1. i + 0 = i /\ pos[i] \in Nat
    BY <1>p
  <2> QED BY <2>1
<1>2. ASSUME NEW j \in Nat, j \in T PROVE j + 1 \in T
  <2> SUFFICES ASSUME i + (j + 1) <= n + 1 PROVE pos[i] <= pos[i + (j + 1)]
    OBVIOUS
  <2> DEFINE k == i + j
  <2>1. k \in 1 .. n /\ k \in 1 .. n + 1 /\ k + 1 \in 1 .. n + 1 /\ i + (j + 1) = k + 1
    OBVIOUS
  <2>2. pos[i] <= pos[k]
    BY <1>2
  <2> HIDE DEF k
  <2>3. pos[k + 1] = pos[k] + Header + b[pos[k] % Size] /\ b[pos[k] % Size] \in Nat
    BY <2>1 DEF Frames
  <2>4. pos[i] \in Nat /\ pos[k] \in Nat
    BY <1>p, <2>1
  <2> QED BY <2>1, <2>2, <2>3, <2>4, EventAssumption
<1>3. ASSUME NEW k \in i .. n + 1 PROVE pos[i] <= pos[k]
  <2> DEFINE j == k - i
  <2>1. j \in Nat /\ i + j = k
    OBVIOUS
  <2> HIDE DEF j, T
  <2>2. j \in T
    BY <1>1, <1>2, <2>1, Stepwise
  <2> QED BY <2>1, <2>2 DEF T
<1> QED BY <1>3, <1>p

\* A record may be read from its place as from its position.
LEMMA RecordInAt ==
    ASSUME NEW b, NEW p \in Nat, NEW s, s = p % Size, b[s] \in Nat
    PROVE  RecordIn(b, p) = [id |-> b[(s + 1) % Size],
                             data |-> [i \in 1 .. b[s] |-> b[(s + Header + i - 1) % Size]]]
<1>1. (s + 1) % Size = (p + 1) % Size
  <2> DEFINE x == 1
  <2>1. x \in Int /\ p \in Int
    OBVIOUS
  <2> HIDE DEF x
  <2>2. ((p % Size) + x) % Size = (p + x) % Size
    BY <2>1, Around
  <2> QED BY <2>2 DEF x
<1>2. ASSUME NEW i \in 1 .. b[s] PROVE (s + Header + i - 1) % Size = (p + Header + i - 1) % Size
  <2> DEFINE x == Header + i - 1
  <2>1. x \in Int
    BY EventAssumption
  <2>2. s \in Int
    BY Around DEF Places
  <2>3. s + Header + i - 1 = s + x /\ p + Header + i - 1 = p + x
    BY <2>2, EventAssumption
  <2> HIDE DEF x
  <2>4. ((p % Size) + x) % Size = (p + x) % Size
    BY <2>1, Around
  <2> QED BY <2>3, <2>4
<1> QED BY <1>1, <1>2 DEF RecordIn

OctetsIn(b, r, n, d) ==
    LET octets == CHOOSE octets : octets = [k \in 0 .. d |->
                      IF k = 0 THEN 0 ELSE octets[k - 1] + Header + b[Starts(b, r, n)[k]]]
    IN octets[d]

\* The octets of the first d records lie between their positions.
LEMMA OctetsAre ==
    ASSUME NEW b, NEW r, NEW n \in Nat, NEW pos, NEW d \in 0 .. n,
           Frames(b, r, n, pos)
    PROVE  OctetsIn(b, r, n, d) = pos[d + 1] - pos[1]
<1> DEFINE S == Starts(b, r, n)
           Next1(f, k) == IF k = 0 THEN 0 ELSE f[k - 1] + Header + b[S[k]]
           P(f) == f = [k \in 0 .. d |-> Next1(f, k)]
           at == [k \in 0 .. d |-> pos[k + 1] - pos[1]]
           F == CHOOSE f : P(f)
<1>h. Header \in Nat
  BY EventAssumption
<1>s. \A k \in 1 .. n + 1 : S[k] = pos[k] % Size
  BY StartsAre
<1>i. OctetsIn(b, r, n, d) = F[d]
  BY DEF OctetsIn
<1>p. \A k \in 1 .. n + 1 : pos[k] \in Nat
  BY DEF Frames
<1> HIDE DEF S
<1>1. P(at)
  <2>1. ASSUME NEW k \in 0 .. d, k # 0 PROVE at[k] = Next1(at, k)
    <3>1. b[pos[k] % Size] \in Nat /\ pos[k + 1] = pos[k] + Header + b[pos[k] % Size]
      BY <2>1 DEF Frames
    <3>2. at[k] = pos[k + 1] - pos[1] /\ at[k - 1] = pos[k] - pos[1] /\ pos[k] \in Nat /\ pos[1] \in Nat
      <4>1. k - 1 \in 0 .. d /\ (k - 1) + 1 = k /\ k \in 1 .. n + 1 /\ 1 \in 1 .. n + 1
        BY <2>1
      <4> QED BY <4>1, <1>p
    <3>3. b[S[k]] = b[pos[k] % Size]
      BY <2>1, <1>s
    <3> DEFINE v == b[pos[k] % Size]
    <3> HIDE DEF at, v
    <3>4. at[k] = at[k - 1] + Header + v
      BY <3>1, <3>2, <1>h DEF v
    <3> QED BY <3>3, <3>4, <2>1 DEF v
  <2>2. at[0] = Next1(at, 0)
    BY <1>p
  <2>3. \A k \in 0 .. d : at[k] = Next1(at, k)
    BY <2>1, <2>2
  <2>4. at = [k \in 0 .. d |-> at[k]]
    OBVIOUS
  <2> HIDE DEF at, Next1
  <2> QED BY <2>3, <2>4
<1>2. P(F)
  BY <1>1
<1> HIDE DEF F
<1> DEFINE T == {k \in Nat : k <= d => F[k] = at[k]}
<1>3. 0 \in T
  <2> HIDE DEF at
  <2>1. 0 \in 0 .. d
    OBVIOUS
  <2>2. F[0] = 0 /\ at[0] = 0
    BY <1>1, <1>2, <2>1
  <2> QED BY <2>2
<1>4. ASSUME NEW k \in Nat, k \in T PROVE k + 1 \in T
  <2> SUFFICES ASSUME k + 1 <= d PROVE F[k + 1] = at[k + 1]
    OBVIOUS
  <2>1. k + 1 \in 0 .. d /\ k + 1 # 0 /\ (k + 1) - 1 = k /\ F[k] = at[k]
    BY <1>4
  <2> DEFINE m == k + 1
  <2> HIDE DEF m, at
  <2>2. F[m] = Next1(F, m) /\ at[m] = Next1(at, m)
    BY <1>1, <1>2, <2>1 DEF m
  <2>3. Next1(F, m) = Next1(at, m)
    BY <2>1 DEF m
  <2> QED BY <2>2, <2>3 DEF m
<1>5. F[d] = at[d]
  <2> HIDE DEF T, at
  <2>1. d \in T
    BY <1>3, <1>4, Stepwise
  <2> QED BY <2>1 DEF T
<1> QED BY <1>i, <1>5

\* The positions of the records that are left when d are dropped, and of one more of x octets.
After(pos, n, d, x) ==
    [k \in 1 .. n - d + 2 |-> IF k <= n - d + 1 THEN pos[k + d] ELSE pos[n + 1] + x]

Shifted(a, pos, n, d, x) ==
    /\ a \in [1 .. n - d + 2 -> Nat]
    /\ \A k \in 1 .. n - d + 1 : a[k] = pos[k + d] /\ k + d \in 1 .. n + 1 /\ pos[k + d] \in Nat
    /\ a[n - d + 2] = pos[n + 1] + x
    /\ pos[n + 1] \in Nat /\ pos[1] \in Nat /\ pos[d + 1] \in Nat

\* What After is at each index.
LEMMA AfterIs ==
    ASSUME NEW n \in Nat, NEW pos, NEW d \in 0 .. n, NEW x \in Nat, NEW b, NEW r, Frames(b, r, n, pos)
    PROVE  Shifted(After(pos, n, d, x), pos, n, d, x)
<1> DEFINE a == After(pos, n, d, x)
<1>1. pos \in [1 .. n + 1 -> Nat]
  BY DEF Frames
<1>2. \A k \in 1 .. n - d + 1 : k + d \in 1 .. n + 1
  OBVIOUS
<1>3. ~ (n - d + 2 <= n - d + 1) /\ 1 \in 1 .. n + 1 /\ n + 1 \in 1 .. n + 1 /\ d + 1 \in 1 .. n + 1
  OBVIOUS
<1> QED BY <1>1, <1>2, <1>3 DEF After, Shifted

-----------------------------------------------------------------------------
(* What a new record changes, and what it leaves *)

\* c is the buffer b with the record written from the place w on, as ctrl_set copies it.
Stored(b, c, w, id, n) ==
    c = [i \in Places |->
            LET k == (i - w) % Size IN IF k < Header + n THEN Record(id, n)[k] ELSE b[i]]

Writes(c, last, id, n) == \A j \in 0 .. Header + n - 1 : c[(last + j) % Size] = Record(id, n)[j]
Spares(b, c, last, n) ==
    \A p \in Nat : p < last /\ p >= last + Header + n - Size => c[p % Size] = b[p % Size]

\* The new record is at the position behind the last, and what lies within the ring's size of its end stays.
LEMMA StoredAt ==
    ASSUME NEW b, NEW c, NEW last \in Nat, NEW w, NEW id, NEW n \in Nat,
           Header + n <= Size, w = last % Size, Stored(b, c, w, id, n)
    PROVE  Writes(c, last, id, n) /\ Spares(b, c, last, n)
<1>s. Size \in Nat \ {0} /\ Header \in Nat
  BY EventAssumption
<1>1. ASSUME NEW p \in Nat, NEW k, (p - last) % Size = k
      PROVE  c[p % Size] = IF k < Header + n THEN Record(id, n)[k] ELSE b[p % Size]
  <2> DEFINE i == p % Size
  <2>1. i \in Places
    <3> DEFINE x == 0
    <3>1. x \in Int /\ p \in Int
      OBVIOUS
    <3> HIDE DEF x
    <3> QED BY <3>1, Around
  <2>2. (i - w) % Size = k
    BY <1>1, Apart
  <2> HIDE DEF i
  <2> QED BY <2>1, <2>2 DEF Stored, i
<1>2. ASSUME NEW j \in 0 .. Header + n - 1 PROVE c[(last + j) % Size] = Record(id, n)[j]
  <2> DEFINE p == last + j
  <2>1. p \in Nat /\ p - last = j /\ j \in 0 .. Size - 1 /\ j < Header + n
    BY <1>s
  <2> HIDE DEF p
  <2>2. (p - last) % Size = j
    BY <2>1, <1>s, ModSteps
  <2>3. c[p % Size] = Record(id, n)[j]
    BY <1>1, <2>1, <2>2
  <2> QED BY <2>3 DEF p
<1>3. ASSUME NEW p \in Nat, p < last, p >= last + Header + n - Size PROVE c[p % Size] = b[p % Size]
  <2> DEFINE a == p - last
             k == a + Size
  <2>1. a \in -Size .. -1 /\ a \in Int /\ k \in Int /\ ~ (k < Header + n)
    BY <1>3, <1>s
  <2> HIDE DEF a
  <2>2. a % Size = k
    BY <2>1, <1>s, ModSteps
  <2> HIDE DEF k
  <2> QED BY <2>1, <2>2, <1>1 DEF a
<1> QED BY <1>2, <1>3 DEF Writes, Spares

\* A record that is not overwritten reads as before, and the new one as it was given.
Spared(b, p, last, n) ==
    b[p % Size] \in Nat /\ p + Header + b[p % Size] <= last /\ p >= last + Header + n - Size
SameRecord(b, c, p) == c[p % Size] = b[p % Size] /\ RecordIn(c, p) = RecordIn(b, p)

LEMMA RecordKept ==
    ASSUME NEW b, NEW c, NEW last \in Nat, NEW n \in Nat, NEW p \in Nat,
           Spares(b, c, last, n), Spared(b, p, last, n)
    PROVE  SameRecord(b, c, p)
<1>h. Header \in Nat /\ Header >= 2 /\ Size \in Nat
  BY EventAssumption
<1> DEFINE v == b[p % Size]
           total == Header + n
<1>0. /\ \A i \in Nat : i < last /\ i >= last + total - Size => c[i % Size] = b[i % Size]
      /\ v \in Nat /\ p + Header + v <= last /\ p >= last + total - Size /\ total \in Nat
  <2>1. last + total - Size = last + Header + n - Size /\ total \in Nat
    BY <1>h
  <2> HIDE DEF total
  <2>2. \A i \in Nat : i < last /\ i >= last + total - Size => c[i % Size] = b[i % Size]
    BY <2>1 DEF Spares
  <2>3. v \in Nat /\ p + Header + v <= last /\ p >= last + total - Size
    BY <2>1 DEF Spared
  <2> QED BY <2>1, <2>2, <2>3
<1> HIDE DEF total
<1>1. c[p % Size] = v
  BY <1>h, <1>0
<1>2. c[(p + 1) % Size] = b[(p + 1) % Size]
  <2>1. p + 1 \in Nat /\ p + 1 < last /\ p + 1 >= last + total - Size
    BY <1>h, <1>0
  <2> QED BY <2>1, <1>0
<1>3. ASSUME NEW i \in 1 .. v PROVE c[(p + Header + i - 1) % Size] = b[(p + Header + i - 1) % Size]
  <2> DEFINE j == p + Header + i - 1
  <2>1. j \in Nat /\ j < last /\ j >= last + total - Size
    BY <1>h, <1>0
  <2> HIDE DEF j
  <2>2. c[j % Size] = b[j % Size]
    BY <2>1, <1>0
  <2> QED BY <2>2 DEF j
<1> QED BY <1>1, <1>2, <1>3 DEF RecordIn, SameRecord

Message(id, n) == [id |-> id, data |-> [i \in 1 .. n |-> id + i - 1]]

IsMessage(c, p, id, n) == c[p % Size] = n /\ RecordIn(c, p) = Message(id, n)

LEMMA RecordNew ==
    ASSUME NEW c, NEW last \in Nat, NEW id \in Nat, NEW n \in Nat, Writes(c, last, id, n)
    PROVE  IsMessage(c, last, id, n)
<1>0. \A j \in 0 .. Header + n - 1 : c[(last + j) % Size] = Record(id, n)[j]
  BY DEF Writes
<1>h. Header \in Nat /\ Header >= 2 /\ Size \in Nat
  BY EventAssumption
<1>1. c[last % Size] = n
  <2>1. last + 0 = last /\ 0 \in 0 .. Header + n - 1 /\ Record(id, n)[0] = n
    BY <1>h DEF Record
  <2>2. c[(last + 0) % Size] = n
    BY <2>1, <1>0, Zenon
  <2> QED BY <2>1, <2>2
<1>2. c[(last + 1) % Size] = id
  <2>1. 1 \in 0 .. Header + n - 1 /\ Record(id, n)[1] = id
    BY <1>h DEF Record
  <2> QED BY <2>1, <1>0, Zenon
<1>3. ASSUME NEW i \in 1 .. n PROVE c[(last + Header + i - 1) % Size] = id + i - 1
  <2> DEFINE j == Header + i - 1
  <2>1. j \in 0 .. Header + n - 1 /\ Record(id, n)[j] = id + j - Header
    BY <1>h DEF Record
  <2>2. c[(last + j) % Size] = id + j - Header
    <3> HIDE DEF j
    <3> QED BY <2>1, <1>0
  <2>3. last + j = last + Header + i - 1 /\ id + j - Header = id + i - 1
    BY <1>h
  <2> QED BY <2>2, <2>3
<1> QED BY <1>1, <1>2, <1>3 DEF RecordIn, Message, IsMessage

\* A function on 1 .. v is a sequence.
LEMMA LenOf ==
    ASSUME NEW v \in Nat, NEW S, NEW f \in [1 .. v -> S]
    PROVE  f \in Seq(S) /\ Len(f) = v
  OBVIOUS

\* The sequence without its first e members and with one more at the end.
LEMMA AppendedIs ==
    ASSUME NEW S, NEW q \in Seq(S), NEW e \in 0 .. Len(q), NEW m \in S
    PROVE  Append(SubSeq(q, e + 1, Len(q)), m)
             = [k \in 1 .. Len(q) - e + 1 |-> IF k <= Len(q) - e THEN q[k + e] ELSE m]
<1> DEFINE n == Len(q)
           s == SubSeq(q, e + 1, n)
           a == Append(s, m)
           f == [k \in 1 .. n - e + 1 |-> IF k <= n - e THEN q[k + e] ELSE m]
<1>1. n \in Nat /\ s \in Seq(S) /\ Len(s) = n - e
  BY DEF s, n
<1>2. \A k \in 1 .. n - e : s[k] = q[k + e]
  <2> SUFFICES ASSUME NEW k \in 1 .. n - e PROVE s[k] = q[k + e]
    OBVIOUS
  <2>1. s[k] = q[e + 1 + k - 1]
    OBVIOUS
  <2>2. e + 1 + k - 1 = k + e
    OBVIOUS
  <2> QED BY <2>1, <2>2
<1> HIDE DEF s, n
<1>3. /\ a \in Seq(S) /\ Len(a) = n - e + 1 /\ a[n - e + 1] = m
      /\ \A k \in 1 .. n - e : a[k] = s[k]
  BY <1>1
<1> HIDE DEF a
<1>4. a \in [1 .. n - e + 1 -> S]
  BY <1>3
<1>5. \A k \in 1 .. n - e + 1 : a[k] = f[k]
  <2> SUFFICES ASSUME NEW k \in 1 .. n - e + 1 PROVE a[k] = f[k]
    OBVIOUS
  <2>1. CASE k <= n - e
    BY <2>1, <1>2, <1>3, <1>1
  <2>2. CASE k = n - e + 1
    BY <2>2, <1>3, <1>1
  <2> QED BY <2>1, <2>2, <1>1
<1>6. a = f
  BY <1>4, <1>5
<1> QED BY <1>6 DEF a, s, n

Contents(b, r, n) ==
    [k \in 1 .. n |->
        LET s == Starts(b, r, n)[k]
        IN [id |-> b[(s + 1) % Size], data |-> [i \in 1 .. b[s] |-> b[(s + Header + i - 1) % Size]]]]

\* The content is what lies at the positions.
LEMMA ContentsAre ==
    ASSUME NEW b, NEW r, NEW n \in Nat, NEW pos, Frames(b, r, n, pos)
    PROVE  Contents(b, r, n) = [k \in 1 .. n |-> RecordIn(b, pos[k])]
<1>1. \A k \in 1 .. n + 1 : Starts(b, r, n)[k] = pos[k] % Size
  BY StartsAre
<1>2. ASSUME NEW k \in 1 .. n
      PROVE  LET s == Starts(b, r, n)[k]
             IN [id |-> b[(s + 1) % Size], data |-> [i \in 1 .. b[s] |-> b[(s + Header + i - 1) % Size]]]
                = RecordIn(b, pos[k])
  <2> DEFINE s == Starts(b, r, n)[k]
             p == pos[k]
  <2>1. s = p % Size /\ p \in Nat /\ b[s] \in Nat
    BY <1>1 DEF Frames
  <2> HIDE DEF s, p
  <2>2. RecordIn(b, p) = [id |-> b[(s + 1) % Size], data |-> [i \in 1 .. b[s] |-> b[(s + Header + i - 1) % Size]]]
    BY <2>1, RecordInAt
  <2> QED BY <2>2 DEF s, p
<1> QED BY <1>2 DEF Contents

\* The queue of which d records are dropped and to which one of n octets of data is added.
Behind(b, pos, n, d, m) ==
    [k \in 1 .. n - d + 1 |-> IF k <= n - d THEN RecordIn(b, pos[k + d]) ELSE m]

Adds(q, n, d, m, r) == Len(q) = n /\ Append(SubSeq(q, d + 1, n), m) = r

\* It is the content without its first d members and with one more.
LEMMA BehindIs ==
    ASSUME NEW b, NEW n \in Nat, NEW pos, NEW q, NEW d \in 0 .. n, NEW m,
           q = [k \in 1 .. n |-> RecordIn(b, pos[k])]
    PROVE  Adds(q, n, d, m, Behind(b, pos, n, d, m))
<1> DEFINE S == {RecordIn(b, pos[k]) : k \in 1 .. n} \union {m}
<1>1. q \in [1 .. n -> S] /\ m \in S
  OBVIOUS
<1> HIDE DEF S
<1>2. q \in Seq(S) /\ Len(q) = n
  BY <1>1, LenOf
<1>3. Append(SubSeq(q, d + 1, Len(q)), m)
        = [k \in 1 .. Len(q) - d + 1 |-> IF k <= Len(q) - d THEN q[k + d] ELSE m]
  BY <1>1, <1>2, AppendedIs
<1>4. Append(SubSeq(q, d + 1, n), m) = [k \in 1 .. n - d + 1 |-> IF k <= n - d THEN q[k + d] ELSE m]
  BY <1>2, <1>3
<1>5. ASSUME NEW k \in 1 .. n - d + 1, k <= n - d PROVE q[k + d] = RecordIn(b, pos[k + d])
  <2> DEFINE i == k + d
  <2>1. i \in 1 .. n
    BY <1>5
  <2> HIDE DEF i
  <2>2. q[i] = RecordIn(b, pos[i])
    BY <2>1
  <2> QED BY <2>2 DEF i
<1> QED BY <1>2, <1>4, <1>5 DEF Behind, Adds

\* The octets of the members behind the first d.
LEMMA OctetsBehind ==
    ASSUME NEW b, NEW r, NEW n \in Nat, NEW pos, NEW d \in 0 .. n, NEW id, NEW x \in Nat,
           Frames(b, r, n, pos)
    PROVE  Queue!Octets(Behind(b, pos, n, d, Message(id, x))) = pos[n + 1] + Header + x - pos[d + 1]
<1> DEFINE m == Message(id, x)
           q == Behind(b, pos, n, d, m)
           total == Header + x
           at == After(pos, n, d, total)
           l == n - d + 1
<1>h. Header \in Nat /\ total \in Nat
  BY EventAssumption
<1>l. l \in Nat /\ l + 1 = n - d + 2
  OBVIOUS
<1>1. DOMAIN q = 1 .. l
  BY DEF Behind
<1>2. /\ at \in [1 .. n - d + 2 -> Nat]
      /\ \A k \in 1 .. n - d + 1 : at[k] = pos[k + d] /\ k + d \in 1 .. n + 1 /\ pos[k + d] \in Nat
      /\ at[n - d + 2] = pos[n + 1] + total
      /\ pos[n + 1] \in Nat /\ pos[1] \in Nat /\ pos[d + 1] \in Nat
  <2> HIDE DEF total
  <2>1. Shifted(at, pos, n, d, total)
    BY <1>h, AfterIs
  <2> QED BY <2>1 DEF Shifted
<1>3. Len(m.data) = x
  <2> DEFINE f == [i \in 1 .. x |-> id + i - 1]
  <2>1. f \in [1 .. x -> {f[i] : i \in 1 .. x}]
    OBVIOUS
  <2>2. Len(f) = x
    <3> HIDE DEF f
    <3> QED BY <2>1, LenOf
  <2> QED BY <2>2 DEF Message
<1>4. ASSUME NEW k \in 1 .. l, k <= n - d
      PROVE  Len(q[k].data) \in Nat /\ at[k + 1] = at[k] + Header + Len(q[k].data)
  <2> DEFINE i == k + d
  <2>1. i \in 1 .. n /\ k + 1 \in 1 .. n - d + 1 /\ (k + 1) + d = i + 1
    BY <1>4
  <2>2. at[k] = pos[i] /\ at[k + 1] = pos[i + 1]
    <3>1. at[k + 1] = pos[(k + 1) + d]
      BY <2>1, <1>2
    <3> QED BY <3>1, <2>1, <1>2
  <2>3. q[k] = RecordIn(b, pos[i])
    BY <1>4 DEF Behind
  <2> HIDE DEF i, q, at
  <2> DEFINE v == b[pos[i] % Size]
  <2>4. v \in Nat /\ pos[i + 1] = pos[i] + Header + v
    BY <2>1 DEF Frames
  <2>5. Len(q[k].data) = v
    <3> DEFINE f == q[k].data
    <3>1. f \in [1 .. v -> {f[j] : j \in 1 .. v}]
      BY <2>3 DEF RecordIn
    <3> HIDE DEF f, v
    <3>2. Len(f) = v
      BY <3>1, <2>4, LenOf
    <3> QED BY <3>2 DEF f
  <2> QED BY <2>2, <2>4, <2>5
<1>5. ASSUME NEW k \in 1 .. l, k = l
      PROVE  Len(q[k].data) \in Nat /\ at[k + 1] = at[k] + Header + Len(q[k].data)
  <2>1. q[k] = m
    BY <1>5 DEF Behind
  <2>2. at[k] = pos[n + 1]
    <3>1. k \in 1 .. n - d + 1 /\ k + d = n + 1
      BY <1>5
    <3> QED BY <3>1, <1>2
  <2>3. at[k + 1] = pos[n + 1] + total
    BY <1>5, <1>2, <1>l
  <2> HIDE DEF q, at, m
  <2> QED BY <2>1, <2>2, <2>3, <1>2, <1>3, <1>h
<1>6. \A k \in 1 .. l : Len(q[k].data) \in Nat /\ at[k + 1] = at[k] + Header + Len(q[k].data)
  <2>1. \A k \in 1 .. l : k <= n - d \/ k = l
    OBVIOUS
  <2> HIDE DEF q, at, l
  <2> QED BY <2>1, <1>4, <1>5
<1>7. at \in [1 .. l + 1 -> Int]
  BY <1>2, <1>l
<1>8. at[1] = pos[d + 1] /\ at[l + 1] = pos[n + 1] + total
  <2>1. 1 \in 1 .. n - d + 1 /\ 1 + d = d + 1
    OBVIOUS
  <2> QED BY <2>1, <1>2, <1>l
<1>9. Queue!Octets(q) = at[l + 1] - at[1]
  <2> HIDE DEF q, at, l
  <2> QED BY <1>1, <1>6, <1>7, <1>l, OctetsOfQueue
<1> HIDE DEF q, at, l
<1>10. Queue!Octets(q) = pos[n + 1] + Header + x - pos[d + 1]
  BY <1>8, <1>9, <1>2, <1>h
<1> QED BY <1>10 DEF q

-----------------------------------------------------------------------------
(* The ring implements the queue *)

\* The ring seen from the positions: its offsets are their places, and its free octets are
\* those from the end of the last record to where the first one comes round again.
RingAt(pos) ==
    /\ Frames(buf, rd, nb, pos)
    /\ wr = pos[nb + 1] % Size
    /\ pos[nb + 1] + free = pos[1] + Size

RingInv ==
    /\ buf \in [Places -> Nat] /\ nb \in Nat /\ free \in 0 .. Size /\ arrived \in Nat
    /\ \E pos : RingAt(pos)

\* The ring starts empty.
LEMMA RingInit ==
    ASSUME Init
    PROVE  RingInv /\ Content = <<>>
<1>s. Size \in Nat \ {0}
  BY EventAssumption
<1> DEFINE pos == [k \in 1 .. 1 |-> 0]
<1>1. /\ buf \in [Places -> Nat] /\ nb = 0 /\ free = Size /\ arrived = 0 /\ rd = 0 /\ wr = 0
  BY DEF Init
<1>2. 0 % Size = 0
  BY <1>s, ModSteps
<1>3. pos \in [1 .. nb + 1 -> Nat] /\ pos[1] = 0 /\ nb + 1 = 1 /\ 1 .. nb = {}
  BY <1>1
<1> HIDE DEF pos
<1>4. RingAt(pos)
  <2>1. Frames(buf, rd, nb, pos)
    BY <1>1, <1>2, <1>3 DEF Frames
  <2>2. wr = pos[nb + 1] % Size /\ pos[nb + 1] + free = pos[1] + Size
    BY <1>1, <1>2, <1>3, <1>s
  <2> QED BY <2>1, <2>2 DEF RingAt
<1>5. Content = <<>>
  BY <1>3 DEF Content
<1> QED BY <1>1, <1>4, <1>5, <1>s DEF RingInv

\* The mirrors are the model's own operators, before and after a step.
LEMMA ContentIs ==
    /\ Content = Contents(buf, rd, nb) /\ Content' = Contents(buf', rd', nb')
    /\ \A k : StartOf[k] = Starts(buf, rd, nb)[k]
    /\ \A d : OctetsOf(d) = OctetsIn(buf, rd, nb, d)
  BY DEF Content, Contents, RecordAt, StartOf, Starts, OctetsOf, OctetsIn

\* The downlinks that must go are those without which the new one fits.
LEMMA DropsAre ==
    ASSUME RingInv, NEW pos, RingAt(pos), NEW x \in Nat, Header + x <= Size
    PROVE  /\ Drops(Header + x) \in 0 .. nb
           /\ \A e \in 0 .. nb : OctetsOf(e) = pos[e + 1] - pos[1]
           /\ pos[Drops(Header + x) + 1] >= pos[nb + 1] + Header + x - Size
           /\ \A e \in 0 .. Drops(Header + x) - 1 : pos[e + 1] < pos[nb + 1] + Header + x - Size
<1> DEFINE total == Header + x
           D == {e \in 0 .. nb : free + OctetsOf(e) >= total}
<1>h. total \in Nat /\ Size \in Nat
  BY EventAssumption
<1>t. nb \in Nat /\ free \in Nat /\ Frames(buf, rd, nb, pos) /\ pos[nb + 1] + free = pos[1] + Size
  BY EventAssumption DEF RingInv, RingAt
<1>p. \A k \in 1 .. nb + 1 : pos[k] \in Nat
  BY <1>t DEF Frames
<1>1. ASSUME NEW e \in 0 .. nb PROVE OctetsOf(e) = pos[e + 1] - pos[1]
  <2>1. OctetsIn(buf, rd, nb, e) = pos[e + 1] - pos[1]
    BY <1>t, OctetsAre
  <2> QED BY <2>1, ContentIs
<1>2. ASSUME NEW e \in 0 .. nb
      PROVE  free + OctetsOf(e) >= total <=> pos[e + 1] >= pos[nb + 1] + Header + x - Size
  <2>1. e + 1 \in 1 .. nb + 1 /\ 1 \in 1 .. nb + 1 /\ nb + 1 \in 1 .. nb + 1
    BY <1>t
  <2>2. pos[e + 1] \in Nat /\ pos[1] \in Nat /\ pos[nb + 1] \in Nat
    BY <2>1, <1>p
  <2> QED BY <2>2, <1>1, <1>t, <1>h, EventAssumption
<1>3. nb \in D
  <2>1. pos[nb + 1] \in Nat /\ nb \in 0 .. nb /\ Header + x <= Size
    BY <1>p, <1>t
  <2> QED BY <2>1, <1>2, <1>h, EventAssumption
<1>4. D \subseteq Nat
  BY <1>t
<1>5. Min(D) \in D /\ \A e \in D : Min(D) <= e
  <2> HIDE DEF D
  <2> QED BY <1>3, <1>4, MinOf
<1>6. Drops(Header + x) = Min(D)
  BY DEF Drops
<1> DEFINE d == Min(D)
<1> HIDE DEF d
<1>7. d \in D /\ \A e \in D : d <= e
  BY <1>5 DEF d
<1>8. ASSUME NEW e \in 0 .. d - 1 PROVE pos[e + 1] < pos[nb + 1] + Header + x - Size
  <2>1. e \in 0 .. nb /\ e \notin D
    BY <1>7, <1>t
  <2>2. ~ (pos[e + 1] >= pos[nb + 1] + Header + x - Size)
    BY <2>1, <1>2
  <2>3. pos[e + 1] \in Nat /\ pos[nb + 1] \in Nat
    BY <2>1, <1>p, <1>t
  <2> QED BY <2>2, <2>3, <1>h, EventAssumption
<1>9. d \in 0 .. nb /\ pos[d + 1] >= pos[nb + 1] + Header + x - Size
  BY <1>7, <1>2
<1> QED BY <1>1, <1>6, <1>8, <1>9 DEF d

\* fifo_ctrl_set: the oldest records that must go, go, and the new one is behind the others.
LEMMA PutImplements ==
    ASSUME RingInv, NEW n \in Lengths, Put(arrived + 1, n), arrived' = arrived + 1, UNCHANGED taken
    PROVE  RingInv' /\ Queue!Put(Message(arrived + 1, n)) /\ Content' # <<>>
           /\ Queue!Last(Content') = Message(arrived + 1, n)
<1> DEFINE id == arrived + 1
           total == Header + n
           d == Drops(total)
           m == Message(id, n)
<1>h. /\ Header \in Nat /\ Header >= 2 /\ n \in Nat /\ total \in Nat /\ total <= Size /\ Size \in Nat \ {0}
      /\ Header + n <= Size
  BY EventAssumption
<1>1. PICK pos : RingAt(pos)
  BY DEF RingInv
<1> DEFINE last == pos[nb + 1]
<1>t. /\ buf \in [Places -> Nat] /\ nb \in Nat /\ free \in 0 .. Size /\ arrived \in Nat /\ id \in Nat
      /\ Frames(buf, rd, nb, pos) /\ wr = last % Size /\ last + free = pos[1] + Size
  BY <1>1 DEF RingInv, RingAt
<1>2. /\ d \in 0 .. nb
      /\ \A e \in 0 .. nb : OctetsOf(e) = pos[e + 1] - pos[1]
      /\ pos[d + 1] >= last + Header + n - Size
      /\ \A e \in 0 .. d - 1 : pos[e + 1] < last + Header + n - Size
  BY <1>1, <1>h, DropsAre
<1>3. /\ Stored(buf, buf', wr, id, n)
      /\ rd' = StartOf[d + 1] /\ wr' = (wr + total) % Size
      /\ nb' = nb - d + 1 /\ free' = free + OctetsOf(d) - total
  BY DEF Put, Stored
<1>4. buf' \in [Places -> Nat]
  <2>1. ASSUME NEW i \in Places, NEW k, k = (i - wr) % Size, k < total PROVE Record(id, n)[k] \in Nat
    <3>1. i - wr \in Int
      <4>1. last \in Int /\ 0 \in Int
        <5>1. nb + 1 \in 1 .. nb + 1
          BY <1>t
        <5> QED BY <5>1, <1>t DEF Frames
      <4> HIDE DEF last
      <4>2. wr \in Places
        BY <4>1, <1>t, Around
      <4> QED BY <4>2 DEF Places
    <3>2. k \in 0 .. total - 1
      <4> DEFINE a == i - wr
      <4> HIDE DEF a, total
      <4>1. a % Size \in 0 .. Size - 1
        BY <3>1, <1>h, DivMod DEF a
      <4> QED BY <4>1, <2>1, <1>h DEF a
    <3> QED BY <3>2, <1>h, <1>t DEF Record
  <2> QED BY <2>1, <1>3, <1>t DEF Stored
<1>b. PICK q2 : q2 = After(pos, nb, d, total)
  OBVIOUS
<1>5. /\ q2 \in [1 .. nb - d + 2 -> Nat]
      /\ \A k \in 1 .. nb - d + 1 : q2[k] = pos[k + d] /\ k + d \in 1 .. nb + 1 /\ pos[k + d] \in Nat
      /\ q2[nb - d + 2] = last + total
      /\ last \in Nat /\ pos[1] \in Nat /\ pos[d + 1] \in Nat
  <2> HIDE DEF d, total
  <2>1. Shifted(q2, pos, nb, d, total)
    BY <1>2, <1>b, <1>h, <1>t, AfterIs
  <2> QED BY <2>1 DEF Shifted
<1>6. Writes(buf', last, id, n) /\ Spares(buf, buf', last, n)
  <2>1. last \in Nat /\ wr = last % Size /\ n \in Nat /\ Header + n <= Size /\ Stored(buf, buf', wr, id, n)
    BY <1>3, <1>5, <1>t, <1>h
  <2> HIDE DEF last, id
  <2> QED BY <2>1, StoredAt
<1>7. buf'[last % Size] = n /\ RecordIn(buf', last) = m
  <2>1. last \in Nat /\ id \in Nat /\ n \in Nat
    BY <1>5, <1>t, <1>h
  <2> HIDE DEF last, id
  <2>2. IsMessage(buf', last, id, n)
    BY <2>1, <1>6, RecordNew
  <2> QED BY <2>2 DEF IsMessage
<1>8. ASSUME NEW i \in d + 1 .. nb
      PROVE  buf'[pos[i] % Size] = buf[pos[i] % Size] /\ RecordIn(buf', pos[i]) = RecordIn(buf, pos[i])
  <2> DEFINE p == pos[i]
  <2>1. i \in 1 .. nb /\ i \in 1 .. nb + 1 /\ i + 1 \in 1 .. nb + 1 /\ d + 1 \in 1 .. nb + 1
        /\ i \in d + 1 .. nb + 1 /\ nb + 1 \in i + 1 .. nb + 1
    BY <1>2, <1>t
  <2>2. buf[p % Size] \in Nat /\ pos[i + 1] = p + Header + buf[p % Size] /\ p \in Nat
    BY <2>1, <1>t DEF Frames
  <2>3. pos[d + 1] <= p
    <3> HIDE DEF d
    <3> QED BY <2>1, <1>t, Rising
  <2>4. pos[i + 1] <= last
    BY <2>1, <1>t, Rising
  <2> HIDE DEF p, last, d, total
  <2>5. p >= last + Header + n - Size
    BY <2>2, <2>3, <1>2, <1>5, <1>h
  <2>6. p + Header + buf[p % Size] <= last
    BY <2>2, <2>4
  <2>7. Spared(buf, p, last, n)
    BY <2>2, <2>5, <2>6 DEF Spared
  <2>8. SameRecord(buf, buf', p)
    <3>1. last \in Nat /\ n \in Nat /\ p \in Nat
      BY <1>5, <1>h, <2>2
    <3> QED BY <3>1, <1>6, <2>7, RecordKept
  <2> QED BY <2>8 DEF p, SameRecord
<1>n. nb' \in Nat /\ nb' + 1 = nb - d + 2 /\ nb' = nb - d + 1
  BY <1>2, <1>3, <1>t
<1>9. Frames(buf', rd', nb', q2)
  <2>1. rd' = q2[1] % Size
    <3>1. 1 \in 1 .. nb - d + 1 /\ 1 + d = d + 1 /\ d + 1 \in 1 .. nb + 1
      BY <1>2, <1>t
    <3>2. Starts(buf, rd, nb)[d + 1] = pos[d + 1] % Size
      <4> HIDE DEF d
      <4>1. \A k \in 1 .. nb + 1 : Starts(buf, rd, nb)[k] = pos[k] % Size
        BY <1>t, StartsAre
      <4> QED BY <4>1, <3>1
    <3>3. q2[1] = pos[d + 1]
      <4> HIDE DEF d
      <4> QED BY <3>1, <1>5
    <3> QED BY <3>2, <3>3, <1>3, ContentIs
  <2>2. ASSUME NEW k \in 1 .. nb', k <= nb - d
        PROVE  buf'[q2[k] % Size] \in Nat /\ q2[k + 1] = q2[k] + Header + buf'[q2[k] % Size]
              /\ buf'[q2[k] % Size] \in Lengths
    <3> DEFINE i == k + d
    <3>1. /\ k \in 1 .. nb - d + 1 /\ k + 1 \in 1 .. nb - d + 1 /\ i \in d + 1 .. nb /\ i \in 1 .. nb
          /\ (k + 1) + d = i + 1
      BY <2>2, <1>n, <1>2, <1>t
    <3> HIDE DEF d
    <3>2. q2[k] = pos[i] /\ q2[k + 1] = pos[i + 1]
      <4>1. q2[k + 1] = pos[(k + 1) + d]
        BY <3>1, <1>5
      <4> QED BY <4>1, <3>1, <1>5
    <3> HIDE DEF i
    <3>3. buf'[pos[i] % Size] = buf[pos[i] % Size]
      BY <3>1, <1>8
    <3>4. buf[pos[i] % Size] \in Nat /\ pos[i + 1] = pos[i] + Header + buf[pos[i] % Size]
          /\ buf[pos[i] % Size] \in Lengths
      BY <3>1, <1>t DEF Frames
    <3> QED BY <3>2, <3>3, <3>4
  <2>3. ASSUME NEW k \in 1 .. nb', k = nb - d + 1
        PROVE  buf'[q2[k] % Size] \in Nat /\ q2[k + 1] = q2[k] + Header + buf'[q2[k] % Size]
              /\ buf'[q2[k] % Size] \in Lengths
    <3>1. k \in 1 .. nb - d + 1 /\ k + d = nb + 1 /\ k + 1 = nb - d + 2
      BY <2>3, <1>n, <1>2, <1>t
    <3> HIDE DEF d
    <3>2. q2[k] = last /\ q2[k + 1] = last + total
      BY <3>1, <1>5
    <3> HIDE DEF last
    <3> QED BY <3>2, <1>5, <1>7, <1>h
  <2>4. \A k \in 1 .. nb' : k <= nb - d \/ k = nb - d + 1
    BY <1>n, <1>2, <1>t
  <2> HIDE DEF d
  <2> QED BY <2>1, <2>2, <2>3, <2>4, <1>n, <1>5 DEF Frames
<1>10. RingAt(q2)' /\ free' \in 0 .. Size
  <2>1. q2[nb' + 1] = last + total /\ q2[1] = pos[d + 1]
    <3>1. 1 \in 1 .. nb - d + 1 /\ 1 + d = d + 1
      BY <1>2, <1>t
    <3> HIDE DEF d
    <3>2. q2[1] = pos[d + 1]
      BY <3>1, <1>5
    <3> QED BY <3>2, <1>5, <1>n
  <2>2. wr' = (last + total) % Size
    <3>1. wr' = ((last % Size) + total) % Size
      BY <1>3, <1>t
    <3>2. last \in Int /\ total \in Int
      BY <1>5, <1>h
    <3> HIDE DEF last, total
    <3>3. ((last % Size) + total) % Size = (last + total) % Size
      BY <3>2, Around
    <3> QED BY <3>1, <3>3
  <2>3. free' = free + (pos[d + 1] - pos[1]) - total
    BY <1>2, <1>3
  <2>4. pos[d + 1] <= last
    <3>1. d + 1 \in 1 .. nb + 1 /\ nb + 1 \in d + 1 .. nb + 1
      BY <1>2, <1>t
    <3> HIDE DEF d
    <3> QED BY <3>1, <1>t, Rising
  <2>5. last + total + free' = pos[d + 1] + Size /\ free' \in 0 .. Size
    <3> DEFINE P == pos[d + 1]
               A == pos[1]
    <3>1. /\ P \in Nat /\ A \in Nat /\ last \in Nat /\ free \in Nat /\ Size \in Nat
          /\ free' = free + (P - A) - total /\ P <= last /\ P >= last + Header + n - Size
          /\ last + free = A + Size
      BY <2>3, <2>4, <1>2, <1>5, <1>t, <1>h
    <3> HIDE DEF P, A, last, d
    <3>2. P >= last + total - Size /\ total \in Nat
      BY <3>1, <1>h
    <3> HIDE DEF total
    <3>3. last + total + free' = P + Size /\ free' \in 0 .. Size
      BY <3>1, <3>2
    <3> QED BY <3>3 DEF P
  <2> HIDE DEF d, last
  <2>6. wr' = q2[nb' + 1] % Size /\ q2[nb' + 1] + free' = q2[1] + Size
    BY <2>1, <2>2, <2>5
  <2> QED BY <1>9, <2>5, <2>6 DEF RingAt
<1>11. RingInv'
  <2>1. arrived' \in Nat
    BY <1>t
  <2> HIDE DEF d
  <2> QED BY <2>1, <1>4, <1>n, <1>10 DEF RingInv
<1>12. Content = [k \in 1 .. nb |-> RecordIn(buf, pos[k])]
  BY <1>t, ContentIs, ContentsAre
<1>13. ASSUME NEW e \in 0 .. nb
       PROVE  /\ Len(Content) = nb
              /\ Append(Queue!Newest(e), m) = Behind(buf, pos, nb, e, m)
  <2>1. /\ Len(Content) = nb
        /\ Append(SubSeq(Content, e + 1, nb), m) = Behind(buf, pos, nb, e, m)
    <3>1. nb \in Nat
      BY <1>t
    <3> HIDE DEF m
    <3>2. Adds(Content, nb, e, m, Behind(buf, pos, nb, e, m))
      BY <3>1, <1>12, BehindIs
    <3> QED BY <3>2 DEF Adds
  <2> QED BY <2>1 DEF Queue!Newest
<1>14. ASSUME NEW e \in 0 .. nb
       PROVE  Queue!Fits(m, e) <=> pos[e + 1] >= last + Header + n - Size
  <2>1. Queue!Octets(Behind(buf, pos, nb, e, m)) = last + Header + n - pos[e + 1]
    <3> HIDE DEF id
    <3> QED BY <1>t, <1>h, OctetsBehind
  <2>2. pos[e + 1] \in Nat
    BY <1>t DEF Frames
  <2>3. Queue!Fits(m, e) <=> last + Header + n - pos[e + 1] <= Size
    <3> HIDE DEF m, last
    <3> QED BY <2>1, <1>13 DEF Queue!Fits
  <2> HIDE DEF last, m
  <2> QED BY <2>2, <2>3, <1>5, <1>h
<1>15. Content' = Behind(buf, pos, nb, d, m)
  <2>1. Content' = [k \in 1 .. nb' |-> RecordIn(buf', q2[k])]
    <3>1. Contents(buf', rd', nb') = [k \in 1 .. nb' |-> RecordIn(buf', q2[k])]
      BY <1>9, <1>n, ContentsAre
    <3> QED BY <3>1, ContentIs
  <2>2. ASSUME NEW k \in 1 .. nb - d + 1
        PROVE  RecordIn(buf', q2[k]) = IF k <= nb - d THEN RecordIn(buf, pos[k + d]) ELSE m
    <3>1. q2[k] = pos[k + d]
      <4> HIDE DEF d
      <4> QED BY <1>5
    <3>2. CASE k <= nb - d
      <4> DEFINE i == k + d
      <4>1. i \in d + 1 .. nb
        BY <3>2, <1>2, <1>t
      <4> HIDE DEF i, d
      <4>2. RecordIn(buf', pos[i]) = RecordIn(buf, pos[i])
        BY <4>1, <1>8
      <4> QED BY <3>1, <3>2, <4>2 DEF i
    <3>3. CASE ~ (k <= nb - d)
      <4>1. k + d = nb + 1
        BY <3>3, <1>2, <1>t
      <4> HIDE DEF d, m
      <4> QED BY <4>1, <3>1, <3>3, <1>7
    <3> QED BY <3>2, <3>3
  <2> HIDE DEF d, m
  <2> QED BY <2>1, <2>2, <1>n DEF Behind
<1>16. Queue!Put(m)
  <2>1. d \in 0 .. Len(Content)
    <3> HIDE DEF d, m
    <3> QED BY <1>2, <1>13
  <2>2. Queue!Fits(m, d)
    <3> HIDE DEF d, m, last
    <3> QED BY <1>2, <1>14
  <2>3. ASSUME NEW e \in 0 .. d - 1 PROVE ~ Queue!Fits(m, e)
    <3>1. e \in 0 .. nb /\ pos[e + 1] < last + Header + n - Size /\ pos[e + 1] \in Nat
      <4>1. e \in 0 .. nb
        BY <1>2, <1>t
      <4>2. pos[e + 1] \in Nat
        BY <4>1, <1>t DEF Frames
      <4> HIDE DEF d, last
      <4> QED BY <4>1, <4>2, <1>2
    <3> HIDE DEF d, m, last
    <3> QED BY <3>1, <1>14, <1>5, <1>h
  <2>4. Content' = Append(Queue!Newest(d), m)
    <3> HIDE DEF d, m
    <3> QED BY <1>2, <1>13, <1>15
  <2> HIDE DEF d, m
  <2> QED BY <2>1, <2>2, <2>3, <2>4 DEF Queue!Put
<1>17. Content' # <<>> /\ Queue!Last(Content') = m
  <2> DEFINE l == nb - d + 1
             S == {Behind(buf, pos, nb, d, m)[k] : k \in 1 .. l}
             q == Behind(buf, pos, nb, d, m)
  <2>1. l \in Nat /\ l >= 1
    BY <1>2, <1>t
  <2>2. q \in [1 .. l -> S] /\ q[l] = m
    <3>1. nb - d + 1 = l /\ l \in 1 .. l /\ ~ (l <= nb - d)
      BY <2>1, <1>2, <1>t
    <3> HIDE DEF m, d
    <3>2. q = [k \in 1 .. l |-> IF k <= nb - d THEN RecordIn(buf, pos[k + d]) ELSE m]
      BY DEF Behind
    <3> HIDE DEF l, q
    <3>3. S = {q[k] : k \in 1 .. l}
      BY DEF q
    <3> HIDE DEF S
    <3> QED BY <3>1, <3>2, <3>3
  <2> HIDE DEF q, l, S
  <2>3. q \in Seq(S) /\ Len(q) = l
    BY <2>1, <2>2, LenOf
  <2>4. q # <<>> /\ q[Len(q)] = m
    BY <2>1, <2>2, <2>3
  <2> HIDE DEF m, d
  <2> QED BY <2>4, <1>15 DEF q, Queue!Last
<1> QED BY <1>11, <1>16, <1>17

\* fifo_ctrl_get: the oldest one comes out.
LEMMA TakeImplements ==
    ASSUME RingInv, nb # 0, Take, arrived' = arrived
    PROVE  RingInv' /\ Queue!Take
<1>1. PICK pos : RingAt(pos)
  BY DEF RingInv
<1>t. /\ buf \in [Places -> Nat] /\ nb \in Nat /\ nb >= 1 /\ free \in 0 .. Size /\ arrived \in Nat
      /\ Frames(buf, rd, nb, pos) /\ wr = pos[nb + 1] % Size /\ pos[nb + 1] + free = pos[1] + Size
      /\ Size \in Nat /\ Header \in Nat
  BY <1>1, EventAssumption DEF RingInv, RingAt
<1>p. \A k \in 1 .. nb + 1 : pos[k] \in Nat
  BY <1>t DEF Frames
<1>2. /\ taken' = <<RecordAt(rd)>> /\ rd' = StartOf[2] /\ nb' = nb - 1 /\ free' = free + OctetsOf(1)
      /\ buf' = buf /\ wr' = wr
  BY DEF Take
<1>3. rd' = pos[2] % Size /\ OctetsOf(1) = pos[2] - pos[1]
  <2>1. 2 \in 1 .. nb + 1 /\ 1 \in 0 .. nb /\ 1 + 1 = 2
    BY <1>t
  <2>2. \A k \in 1 .. nb + 1 : Starts(buf, rd, nb)[k] = pos[k] % Size
    BY <1>t, StartsAre
  <2>3. OctetsIn(buf, rd, nb, 1) = pos[1 + 1] - pos[1]
    BY <2>1, <1>t, OctetsAre
  <2> QED BY <2>1, <2>2, <2>3, <1>2, ContentIs
<1>4. PICK q2 : q2 = [k \in 1 .. nb |-> pos[k + 1]]
  OBVIOUS
<1>5. /\ q2 \in [1 .. nb -> Nat] /\ \A k \in 1 .. nb : q2[k] = pos[k + 1]
      /\ nb' \in Nat /\ nb' + 1 = nb
  <2>1. \A k \in 1 .. nb : k + 1 \in 1 .. nb + 1
    BY <1>t
  <2> QED BY <2>1, <1>2, <1>4, <1>p, <1>t
<1>6. Frames(buf', rd', nb', q2)
  <2>1. rd' = q2[1] % Size
    <3>1. 1 \in 1 .. nb /\ 1 + 1 = 2
      BY <1>t
    <3>2. q2[1] = pos[2]
      BY <3>1, <1>5
    <3> QED BY <3>2, <1>3
  <2>2. ASSUME NEW k \in 1 .. nb'
        PROVE  buf'[q2[k] % Size] \in Nat /\ q2[k + 1] = q2[k] + Header + buf'[q2[k] % Size]
              /\ buf'[q2[k] % Size] \in Lengths
    <3> DEFINE i == k + 1
    <3>1. k \in 1 .. nb /\ i \in 1 .. nb
      BY <1>5, <1>2, <1>t
    <3>2. q2[k] = pos[i] /\ q2[i] = pos[i + 1]
      <4> HIDE DEF i
      <4>1. q2[i] = pos[i + 1]
        BY <3>1, <1>5
      <4>2. q2[k] = pos[k + 1]
        BY <3>1, <1>5
      <4> QED BY <4>1, <4>2 DEF i
    <3>3. buf[pos[i] % Size] \in Nat /\ pos[i + 1] = pos[i] + Header + buf[pos[i] % Size]
          /\ buf[pos[i] % Size] \in Lengths
      <4> HIDE DEF i
      <4> QED BY <3>1, <1>t DEF Frames
    <3>4. k + 1 = i
      OBVIOUS
    <3> HIDE DEF i
    <3> QED BY <3>2, <3>3, <3>4, <1>2
  <2> QED BY <2>1, <2>2, <1>5 DEF Frames
<1>7. RingAt(q2)' /\ free' \in 0 .. Size
  <2> DEFINE P == pos[2]
             A == pos[1]
             L == pos[nb + 1]
  <2>1. 1 \in 1 .. nb + 1 /\ 2 \in 1 .. nb + 1 /\ nb + 1 \in 1 .. nb + 1 /\ nb + 1 \in 2 .. nb + 1
        /\ 2 \in 1 .. nb + 1 /\ 1 \in 1 .. nb /\ nb \in 1 .. nb
    BY <1>t
  <2>2. q2[1] = P /\ q2[nb] = L
    BY <2>1, <1>5
  <2>3. P \in Nat /\ A \in Nat /\ L \in Nat
    BY <2>1, <1>p
  <2>4. P <= L /\ A <= P
    <3>1. P <= L
      BY <2>1, <1>t, Rising
    <3>2. A <= P
      BY <2>1, <1>t, Rising
    <3> QED BY <3>1, <3>2
  <2>5. free' = free + (P - A) /\ L + free = A + Size
    BY <1>2, <1>3, <1>t
  <2> HIDE DEF P, A, L
  <2>6. L + free' = P + Size /\ free' \in 0 .. Size
    BY <2>3, <2>4, <2>5, <1>t
  <2>7. wr' = q2[nb' + 1] % Size /\ q2[nb' + 1] + free' = q2[1] + Size
    BY <2>2, <2>6, <1>2, <1>5, <1>t DEF L
  <2> QED BY <1>6, <2>6, <2>7 DEF RingAt
<1>8. RingInv'
  BY <1>5, <1>7, <1>2, <1>t DEF RingInv
<1>9. Content = [k \in 1 .. nb |-> RecordIn(buf, pos[k])]
  BY <1>t, ContentIs, ContentsAre
<1>10. Content' = [k \in 1 .. nb' |-> RecordIn(buf', q2[k])]
  <2>1. Contents(buf', rd', nb') = [k \in 1 .. nb' |-> RecordIn(buf', q2[k])]
    <3>1. nb' \in Nat
      BY <1>5
    <3> QED BY <3>1, <1>6, ContentsAre
  <2> QED BY <2>1, ContentIs
<1> DEFINE S == {RecordIn(buf, pos[k]) : k \in 1 .. nb}
           c == Content
<1>11. c \in [1 .. nb -> S]
  BY <1>9
<1>12. c \in Seq(S) /\ Len(c) = nb
  <2> HIDE DEF S, c
  <2> QED BY <1>11, <1>t, LenOf
<1>13. c # <<>> /\ Head(c) = c[1] /\ Tail(c) = [k \in 1 .. nb' |-> c[k + 1]]
  <2> HIDE DEF S, c
  <2>1. c # <<>> /\ Head(c) = c[1]
    BY <1>12, <1>t
  <2>2. Tail(c) \in Seq(S) /\ Len(Tail(c)) = nb' /\ \A k \in 1 .. nb' : Tail(c)[k] = c[k + 1]
    BY <1>12, <1>2, <1>t, <2>1, HeadTailProperties
  <2> DEFINE u == Tail(c)
  <2>3. u \in [1 .. nb' -> S]
    BY <2>2, LenProperties
  <2> HIDE DEF u
  <2>4. u = [k \in 1 .. nb' |-> u[k]]
    BY <2>3
  <2> QED BY <2>1, <2>2, <2>4 DEF u
<1>14. c[1] = RecordAt(rd)
  <2>1. 1 \in 1 .. nb /\ 1 \in 1 .. nb + 1
    BY <1>t
  <2>2. Starts(buf, rd, nb)[1] = pos[1] % Size
    <3>1. \A k \in 1 .. nb + 1 : Starts(buf, rd, nb)[k] = pos[k] % Size
      BY <1>t, StartsAre
    <3> QED BY <2>1, <3>1
  <2>3. rd = pos[1] % Size
    BY <1>t DEF Frames
  <2>4. Content[1] = RecordAt(StartOf[1])
    BY <2>1 DEF Content
  <2> QED BY <2>2, <2>3, <2>4, ContentIs
<1>15. Content' = Tail(Content)
  <2>1. ASSUME NEW k \in 1 .. nb' PROVE RecordIn(buf', q2[k]) = c[k + 1]
    <3> DEFINE i == k + 1
    <3>1. i \in 1 .. nb /\ k \in 1 .. nb
      BY <1>2, <1>t
    <3>2. q2[k] = pos[i]
      BY <3>1, <1>5
    <3> HIDE DEF i
    <3>3. c[i] = RecordIn(buf, pos[i])
      BY <3>1, <1>9
    <3> QED BY <3>2, <3>3, <1>2 DEF i
  <2> QED BY <2>1, <1>10, <1>13
<1> QED BY <1>2, <1>8, <1>13, <1>14, <1>15 DEF Queue!Take

\* Every step of the system is one of the queue or a stutter, and keeps the ring in order.
LEMMA RingStep ==
    ASSUME RingInv, [Next]_vars
    PROVE  RingInv' /\ [Queue!Next]_<<Content, taken>>
<1>1. ASSUME NEW n \in Lengths, Downlink(n) PROVE RingInv' /\ Queue!Next
  <2>1. Put(arrived + 1, n) /\ arrived' = arrived + 1 /\ UNCHANGED taken
    BY <1>1 DEF Downlink
  <2> DEFINE m == Message(arrived + 1, n)
  <2>2. RingInv' /\ Queue!Put(m) /\ Content' # <<>> /\ Queue!Last(Content') = m
    BY <2>1, PutImplements
  <2> HIDE DEF m
  <2> QED BY <2>2 DEF Queue!Next
<1>2. ASSUME GetDownlink, nb # 0 PROVE RingInv' /\ Queue!Next
  <2>1. Take /\ arrived' = arrived
    BY <1>2 DEF GetDownlink, Main
  <2> QED BY <2>1, <1>2, TakeImplements DEF Queue!Next
<1>3. ASSUME UNCHANGED <<ring, taken, arrived>>
      PROVE  RingInv' /\ UNCHANGED <<Content, taken>>
  <2>1. buf' = buf /\ rd' = rd /\ wr' = wr /\ nb' = nb /\ free' = free /\ arrived' = arrived
        /\ taken' = taken
    BY <1>3 DEF ring
  <2>2. Content' = Content
    BY <2>1, ContentIs
  <2>3. RingInv'
    BY <2>1 DEF RingInv, RingAt
  <2> QED BY <2>1, <2>2, <2>3
<1>4. CASE \E t \in IrqTypes : IrqRaise(t)
  BY <1>4, <1>3 DEF IrqRaise
<1>5. CASE \E t \in MainTypes : EngineRaise(t)
  BY <1>5, <1>3 DEF EngineRaise, Main
<1>6. CASE Engine \/ Idle \/ MacBusy
  BY <1>6, <1>3 DEF Engine, RunEngine, RaiseTest, RaiseGrow, RaisePlace, RaiseCount, SetSeen,
                    Look, Again, Idle, MacBusy, Main
<1>7. CASE GetEvent \/ GetLast \/ GetClear \/ GetShrink
  BY <1>7, <1>3 DEF GetEvent, GetLast, GetClear, GetShrink, Main
<1>8. CASE GetDownlink /\ nb = 0
  BY <1>8, <1>3 DEF GetDownlink, Main
<1>9. CASE UNCHANGED vars
  BY <1>9, <1>3 DEF vars
<1> QED BY <1>1, <1>2, <1>4, <1>5, <1>6, <1>7, <1>8, <1>9 DEF Next, Interrupt, App

\* The ring of downlinks (fifo_ctrl.c) gives the application the queue that DownlinkQueue
\* promises: whole records, in their order, of which only the oldest are dropped and no more
\* than a new one needs -- for every size of the buffer, of the records and of their heads,
\* wherever in the buffer they wrap, and whatever interrupts do to the stack.
THEOREM QueueOfDownlinks == Spec => Downlinks
<1>1. Init => RingInv /\ Queue!Init
  <2> SUFFICES ASSUME Init PROVE RingInv /\ Queue!Init
    OBVIOUS
  <2>1. taken = <<>>
    BY DEF Init
  <2> QED BY <2>1, RingInit DEF Queue!Init
<1>2. RingInv /\ [Next]_vars => RingInv' /\ [Queue!Next]_<<Content, taken>>
  BY RingStep
<1> QED BY <1>1, <1>2, PTL DEF Spec, Downlinks, Queue!Spec

\* No more downlinks wait than modem_event_count can count.
LEMMA Countable ==
    ASSUME RingInv
    PROVE  nb <= CountMax
<1> SUFFICES ASSUME nb > CountMax PROVE FALSE
  BY EventAssumption DEF RingInv
<1>1. PICK pos : RingAt(pos)
  BY DEF RingInv
<1>t. /\ nb \in Nat /\ free \in Nat /\ Size \in Nat /\ Header \in Nat /\ CountMax \in Nat
      /\ Frames(buf, rd, nb, pos) /\ pos[nb + 1] + free = pos[1] + Size /\ Lengths \subseteq Nat
  BY <1>1, EventAssumption DEF RingInv, RingAt
<1>p. \A k \in 1 .. nb + 1 : pos[k] \in Nat
  BY <1>t DEF Frames
<1>2. Lengths # {}
  BY <1>t DEF Frames
<1>3. PICK l \in Lengths : \A k \in Lengths : l <= k
  BY <1>t, <1>2, Smallest, Zenon
<1> DEFINE w == Header + l
<1>w. w \in Nat /\ Size < (CountMax + 1) * w
  BY <1>t, EventAssumption
<1> HIDE DEF w
<1>4. ASSUME NEW k \in 1 .. nb PROVE pos[k + 1] >= pos[k] + w
  <2>1. k \in 1 .. nb + 1 /\ k + 1 \in 1 .. nb + 1
    BY <1>t
  <2> DEFINE v == buf[pos[k] % Size]
  <2>2. pos[k + 1] = pos[k] + Header + v /\ v \in Lengths
    BY <1>t DEF Frames
  <2> HIDE DEF v
  <2>3. l <= v /\ v \in Nat /\ l \in Nat
    BY <1>3, <1>t, <2>2
  <2> QED BY <2>1, <2>2, <2>3, <1>p, <1>t DEF w
<1> DEFINE T == {j \in Nat : j <= nb => pos[j + 1] >= pos[1] + j * w}
<1>5. 0 \in T
  <2>1. pos[1] \in Nat /\ 0 * w = 0
    BY <1>p, <1>t, <1>w
  <2> QED BY <2>1
<1>6. ASSUME NEW j \in Nat, j \in T PROVE j + 1 \in T
  <2> SUFFICES ASSUME j + 1 <= nb PROVE pos[(j + 1) + 1] >= pos[1] + (j + 1) * w
    OBVIOUS
  <2> DEFINE k == j + 1
             z == j * w
  <2>1. k \in 1 .. nb /\ k + 1 \in 1 .. nb + 1 /\ k \in 1 .. nb + 1 /\ 1 \in 1 .. nb + 1
    BY <1>t
  <2>2. pos[k] >= pos[1] + z
    <3>1. j <= nb
      BY <1>t
    <3> QED BY <3>1, <1>6, Zenon
  <2>3. (j + 1) * w = z + w /\ z \in Int
    BY <1>w
  <2> HIDE DEF z, T
  <2>4. pos[k + 1] >= pos[k] + w /\ pos[k + 1] \in Nat /\ pos[k] \in Nat /\ pos[1] \in Nat
    <3> HIDE DEF k
    <3> QED BY <2>1, <1>4, <1>p
  <2> DEFINE a == pos[k + 1]
             b == pos[k]
  <2>5. a >= pos[1] + (z + w)
    <3> HIDE DEF a, b
    <3>1. a >= b + w /\ a \in Nat /\ b \in Nat /\ b >= pos[1] + z
      BY <2>2, <2>4 DEF a, b
    <3> QED BY <3>1, <2>3, <2>4, <1>w
  <2> QED BY <2>3, <2>5
<1>7. pos[nb + 1] >= pos[1] + nb * w
  <2>1. nb \in T
    <3> HIDE DEF T
    <3> QED BY <1>5, <1>6, <1>t, Stepwise
  <2> QED BY <2>1
<1>8. nb * w >= (CountMax + 1) * w
  <2>1. nb >= CountMax + 1
    BY <1>t
  <2> QED BY <2>1, <1>t, <1>w
<1> DEFINE y == nb * w
           x == (CountMax + 1) * w
<1>9. x \in Int /\ y \in Int
  BY <1>t, <1>w
<1>10. Size < x /\ y >= x /\ pos[nb + 1] >= pos[1] + y
  BY <1>7, <1>8, <1>w
<1>11. pos[1] \in Nat /\ pos[nb + 1] \in Nat
  BY <1>p, <1>t
<1> HIDE DEF x, y
<1> QED BY <1>9, <1>10, <1>11, <1>t

\* The offsets stay inside the buffer, the counter of records and the free octets agree with what the buffer holds.
RingSound ==
    /\ buf \in [Places -> Nat] /\ rd \in Places /\ wr \in Places
    /\ Len(Content) = nb /\ free \in Nat /\ free + Queue!Octets(Content) = Size

\* The positions give it.
LEMMA RingIsSound ==
    ASSUME RingInv
    PROVE  RingSound
<1>1. PICK pos : RingAt(pos)
  BY DEF RingInv
<1>t. /\ buf \in [Places -> Nat] /\ nb \in Nat /\ free \in 0 .. Size /\ Size \in Nat /\ Header \in Nat
      /\ Frames(buf, rd, nb, pos) /\ wr = pos[nb + 1] % Size /\ pos[nb + 1] + free = pos[1] + Size
  BY <1>1, EventAssumption DEF RingInv, RingAt
<1>p. pos \in [1 .. nb + 1 -> Nat] /\ rd = pos[1] % Size
  BY <1>t DEF Frames
<1>2. pos[1] \in Nat /\ pos[nb + 1] \in Nat
  BY <1>p, <1>t
<1>3. rd \in Places /\ wr \in Places
  <2> DEFINE A == pos[1]
             L == pos[nb + 1]
             x == 0
  <2>1. A \in Int /\ L \in Int /\ x \in Int
    BY <1>2
  <2> HIDE DEF A, L, x
  <2>2. A % Size \in Places /\ L % Size \in Places
    BY <2>1, Around
  <2> QED BY <2>2, <1>p, <1>t DEF A, L
<1>4. Content = [k \in 1 .. nb |-> RecordIn(buf, pos[k])]
  BY <1>t, ContentIs, ContentsAre
<1> DEFINE c == Content
           S == {RecordIn(buf, pos[k]) : k \in 1 .. nb}
<1>5. DOMAIN c = 1 .. nb /\ c \in [1 .. nb -> S]
  BY <1>4
<1>6. Len(c) = nb
  <2> HIDE DEF c, S
  <2> QED BY <1>5, <1>t, LenOf
<1>7. \A i \in 1 .. nb : Len(c[i].data) \in Nat /\ pos[i + 1] = pos[i] + Header + Len(c[i].data)
  <2> SUFFICES ASSUME NEW i \in 1 .. nb
               PROVE  Len(c[i].data) \in Nat /\ pos[i + 1] = pos[i] + Header + Len(c[i].data)
    OBVIOUS
  <2> DEFINE v == buf[pos[i] % Size]
             f == c[i].data
  <2>1. v \in Nat /\ pos[i + 1] = pos[i] + Header + v
    BY <1>t DEF Frames
  <2>2. f \in [1 .. v -> {f[j] : j \in 1 .. v}]
    <3>1. c[i] = RecordIn(buf, pos[i])
      BY <1>4
    <3> HIDE DEF c
    <3> QED BY <3>1 DEF RecordIn
  <2> HIDE DEF f, v
  <2>3. Len(f) = v
    BY <2>1, <2>2, LenOf
  <2> QED BY <2>1, <2>3 DEF f
<1>8. Queue!Octets(c) = pos[nb + 1] - pos[1]
  <2>1. pos \in [1 .. nb + 1 -> Int]
    BY <1>p
  <2> HIDE DEF c
  <2> QED BY <1>5, <1>7, <1>t, <2>1, OctetsOfQueue
<1>9. free + Queue!Octets(c) = Size
  <2> HIDE DEF c
  <2> QED BY <1>8, <1>2, <1>t
<1> QED BY <1>3, <1>6, <1>9, <1>t DEF RingSound

\* The offsets of the ring stay inside the buffer and its counters agree with what it holds:
\* the free octets are those that no record fills.
THEOREM RingAccounts == Spec => []RingSound
<1>1. Init => RingInv
  BY RingInit
<1>2. RingInv /\ [Next]_vars => RingInv'
  BY RingStep
<1>3. RingInv => RingSound
  BY RingIsSound
<1> QED BY <1>1, <1>2, <1>3, PTL DEF Spec

\* The counters of the events stay in a byte.
CountInv ==
    /\ count \in [Types -> 0 .. CountMax] /\ seen \in 0 .. CountMax
    /\ pending \in Nat /\ raised \in 0 .. MaxRaised

\* They start there.
LEMMA CountInit ==
    ASSUME Init
    PROVE  CountInv
  BY EventAssumption DEF Init, CountInv

\* And they stay there: the downlinks that are counted are those that wait, and 255 of them fill the ring.
LEMMA CountStep ==
    ASSUME CountInv, RingInv, Basic, [Next]_vars
    PROVE  CountInv'
<1>t. /\ count \in [Types -> 0 .. CountMax] /\ seen \in 0 .. CountMax /\ pending \in Nat
      /\ raised \in 0 .. MaxRaised /\ nb \in 0 .. CountMax /\ number \in Nat
      /\ CountMax \in Nat /\ CountMax >= 1 /\ MaxRaised \in Nat
  BY EventAssumption, Countable DEF CountInv, RingInv, Basic
<1>m. \A c \in 0 .. CountMax : More(c) \in 0 .. CountMax
  BY <1>t DEF More
<1>1. CASE \E n \in Lengths : Downlink(n)
  BY <1>1, <1>t DEF Downlink, events, CountInv
<1>2. ASSUME NEW t \in IrqTypes, IrqRaise(t) PROVE CountInv'
  <2>1. t \in Types
    BY TypesKnown
  <2>2. count' \in [Types -> 0 .. CountMax]
    BY <1>2, <1>t, <1>m, <2>1 DEF IrqRaise
  <2> QED BY <1>2, <1>t, <2>2 DEF IrqRaise, ring, CountInv
<1>3. CASE \E t \in MainTypes : EngineRaise(t)
  BY <1>3, <1>t DEF EngineRaise, Main, ring, events, CountInv
<1>4. CASE RunEngine \/ RaiseTest \/ RaiseGrow \/ RaisePlace \/ Look \/ Again \/ Idle \/ MacBusy
  BY <1>4, <1>t DEF RunEngine, RaiseTest, RaiseGrow, RaisePlace, Look, Again, Idle, MacBusy, Main,
                    ring, events, CountInv
<1>5. CASE RaiseCount
  <2>1. count' \in [Types -> 0 .. CountMax]
    BY <1>5, <1>t, <1>m DEF RaiseCount
  <2> QED BY <1>5, <1>t, <2>1 DEF RaiseCount, Main, ring, CountInv
<1>6. CASE SetSeen \/ GetClear
  <2>1. count' \in [Types -> 0 .. CountMax]
    BY <1>6, <1>t DEF SetSeen, GetClear
  <2> QED BY <1>6, <1>t, <2>1 DEF SetSeen, GetClear, Main, ring, CountInv
<1>7. CASE GetEvent \/ GetLast \/ GetDownlink \/ GetShrink
  BY <1>7, <1>t DEF GetEvent, GetLast, GetDownlink, GetShrink, Main, ring, events, CountInv
<1>8. CASE UNCHANGED vars
  BY <1>8, <1>t DEF vars, events, CountInv
<1> QED BY <1>1, <1>2, <1>3, <1>4, <1>5, <1>6, <1>7, <1>8 DEF Next, Interrupt, Engine, App

\* The offsets and counters of ring and stack keep their ranges for every size of the ring, set
\* of types and number of events, and the stack stays in asynch_msg until it is torn.
THEOREM EventTypes == Spec => []TypeOK
<1>1. Init => RingInv /\ EventInv /\ CountInv
  BY RingInit, WholeInit, CountInit
<1>2. (RingInv /\ EventInv /\ CountInv) /\ [Next]_vars => (RingInv /\ EventInv /\ CountInv)'
  BY RingStep, EventStep, CountStep DEF EventInv
<1>3. RingInv /\ EventInv /\ CountInv => TypeOK
  <2> SUFFICES ASSUME RingInv, EventInv, CountInv PROVE TypeOK
    OBVIOUS
  <2>1. RingSound
    BY RingIsSound
  <2> QED BY <2>1 DEF RingInv, RingSound, EventInv, Basic, Whole, AtHand, CountInv, TypeOK
<1> QED BY <1>1, <1>2, <1>3, PTL DEF Spec
=============================================================================
