---------------------------- MODULE ClassCProofs ----------------------------
(***************************************************************************)
(* For every number of multicast groups, every set of channels and every   *)
(* width of the counters on air: a class C that has started is owed an     *)
(* answer by the planner, its reception is set for the sessions that are   *)
(* enabled, and no frame of a group is taken twice.                        *)
(***************************************************************************)
EXTENDS ClassC, WellFoundedInduction, TLAPS

-----------------------------------------------------------------------------
(* Sessions *)

LEMMA Sizes ==
    /\ NGroups \in Nat \ {0} /\ Low \in Nat \ {0} /\ MaxCnt \in Nat
    /\ None \notin Nat /\ NoChannel \notin Channels
BY ClassCAssumption

\* A set of naturals has a least member.
LEMMA LeastExists ==
    ASSUME NEW S \in SUBSET Nat, S # {} PROVE \E x \in S : \A y \in S : x <= y
<1>. DEFINE R == {ss \in Nat \X Nat : ss[1] < ss[2]}
<1>1. IsWellFoundedOn(R, Nat)
  <2>1. R = OpToRel(<, Nat)
    BY DEF OpToRel
  <2>. QED  BY <2>1, NatLessThanWellFounded
<1>2. \E x \in S : \A y \in S : <<y, x>> \notin R
  <2>. HIDE DEF R
  <2>. QED  BY <1>1, WFMin
<1>3. PICK x \in S : \A y \in S : <<y, x>> \notin R
  BY <1>2
<1>4. ASSUME NEW y \in S PROVE x <= y
  <2>1. x \in Nat /\ y \in Nat /\ <<y, x>> \in Nat \X Nat
    OBVIOUS
  <2>2. y < x => <<y, x>> \in R
    BY <2>1
  <2>. QED  BY <1>3, <2>1, <2>2
<1>. QED  BY <1>4

\* Among enabled sessions there is a last one, the one that sets the reception.
LEMMA LastIsOpen ==
    ASSUME open \in [Sessions -> BOOLEAN], NEW s \in Sessions, open[s]
    PROVE  LastOpen \in Sessions /\ open[LastOpen] /\ s <= LastOpen
<1>. DEFINE D == {NGroups - t : t \in {u \in Sessions : open[u]}}
<1>1. D \in SUBSET Nat /\ D # {}
  BY Sizes DEF Sessions
<1>2. PICK d \in D : \A e \in D : d <= e
  BY <1>1, LeastExists
<1>3. PICK t \in Sessions : open[t] /\ d = NGroups - t
  BY <1>2
<1>4. ASSUME NEW u \in Sessions, open[u] PROVE u <= t
  <2>1. NGroups - u \in D
    BY <1>4
  <2>2. d <= NGroups - u
    BY <1>2, <2>1
  <2>. QED  BY <1>3, <2>2, Sizes DEF Sessions
<1>5. \A u \in t + 1 .. NGroups : ~open[u]
  BY <1>3, <1>4, Sizes DEF Sessions
<1>6. LastOpen \in Sessions /\ open[LastOpen] /\ \A u \in LastOpen + 1 .. NGroups : ~open[u]
  BY <1>3, <1>5 DEF LastOpen
<1>7. s \in Nat /\ LastOpen \in Nat /\ s <= NGroups /\ LastOpen <= NGroups
  BY <1>6, Sizes DEF Sessions
<1>8. s > LastOpen => s \in LastOpen + 1 .. NGroups
  BY <1>7
<1>. QED  BY <1>6, <1>7, <1>8

\* Among enabled groups there is a first one, the one start_session compares with.
LEMMA FirstGroup ==
    ASSUME NEW g \in Groups, open[g]
    PROVE  \E h \in Groups : open[h] /\ \A k \in 1 .. h - 1 : ~open[k]
<1>. DEFINE G == {h \in Groups : open[h]}
<1>1. G \in SUBSET Nat /\ G # {}
  BY Sizes DEF Groups
<1>2. PICK h \in G : \A k \in G : h <= k
  BY <1>1, LeastExists
<1>3. ASSUME NEW k \in 1 .. h - 1, open[k] PROVE FALSE
  <2>1. k \in Groups /\ k < h
    BY <1>2, <1>3, Sizes DEF Groups
  <2>. QED  BY <1>2, <1>3, <2>1, Sizes DEF Groups
<1>. QED  BY <1>2, <1>3

\* A frame that is accepted has a larger counter than the session.
LEMMA AcceptedIsNew ==
    ASSUME NEW last \in Counter, NEW n \in 0 .. MaxCnt, Accepts(last, n)
    PROVE  last < n
BY Sizes DEF Accepts, Counter

-----------------------------------------------------------------------------
(* The inductive invariant *)

\* While no group is enabled the reception has the parameters of the unicast session:
\* those a new group is compared with to decide whether the reception is aborted.
UnicastHeard ==
    /\ slot \in {"waiting", "running"} /\ pc \notin {"abort", "stopping"} /\ ~stale
    /\ \A g \in Groups : ~open[g]
    => listen = chan[Unicast]

\* The counter of a group is never behind the frames of the group that were taken.
TakenBelow ==
    \A t \in taken : t[1] \in Groups => t[2] <= fcnt[t[1]]

Owed == (on /\ started) \/ pc = "starting" => slot # "idle" \/ lapsed \/ panicked

IInv == TypeOK /\ Owed /\ Tuned /\ UnicastHeard /\ TakenBelow /\ GroupsOnce

-----------------------------------------------------------------------------
(* What the callback of the planner leaves *)

Slots == {"idle", "waiting", "running", "aborted"}
Pcs   == {"main", "starting", "digest", "stopping", "abort"}

\* The types of what an answer of the planner may change.
Kinds ==
    /\ macRx2 \in Channels /\ macCnt \in Counter /\ ready \subseteq Groups
    /\ open \in [Sessions -> BOOLEAN] /\ chan \in [Sessions -> Channels \union {NoChannel}]
    /\ fcnt \in [Sessions -> Counter]
    /\ listen \in Channels \union {NoChannel} /\ slot \in Slots
    /\ {panicked, lapsed, stale} \subseteq BOOLEAN

\* The reception is set for the sessions that are enabled.
Right ==
    slot \in {"waiting", "running"} /\ ~stale
        => /\ \A g \in Groups : open[g] => listen = chan[g]
           /\ (\A g \in Groups : ~open[g]) => listen = chan[Unicast]

Aftermath ==
    /\ Kinds' /\ twice' \subseteq Sessions /\ taken' \subseteq Sessions \X (0 .. MaxCnt)
    /\ open' = open /\ \A g \in Groups : chan'[g] = chan[g]
    /\ TakenBelow' /\ GroupsOnce'

Settled ==
    /\ Right'
    /\ started' => slot' # "idle" \/ panicked'
    /\ ~started' => slot' = "idle" /\ (pc = "starting" => lapsed')

\* lr1mac_class_c_start asks the planner for a reception that suits the sessions, unless
\* none is enabled or the task is running.
LEMMA BeginSets ==
    ASSUME TypeOK, Tuned, NEW f \in [Sessions -> Counter], NEW p \in Slots, Begin(f, p),
           macRx2' \in Channels, macCnt' \in Counter, ready' = ready, open' = open,
           p = "idle" \/ \E s \in Sessions : open[s]
    PROVE  /\ Kinds' /\ Right' /\ (slot' \notin {"waiting", "running"} => panicked')
           /\ \A g \in Groups : chan'[g] = chan[g] /\ fcnt'[g] = f[g]
<1>1. Unicast \in Sessions /\ Groups \subseteq Sessions /\ Unicast \notin Groups
      /\ \A s \in Sessions : s = Unicast \/ s \in Groups
  BY Sizes DEF Unicast, Sessions, Groups
<1>2. /\ chan \in [Sessions -> Channels \union {NoChannel}]
      /\ open \in [Sessions -> BOOLEAN] /\ ready \subseteq Groups
      /\ listen \in Channels \union {NoChannel}
  BY DEF TypeOK
<1>3. /\ chan' = [chan EXCEPT ![Unicast] = macRx2'] /\ fcnt' = [f EXCEPT ![Unicast] = macCnt']
      /\ panicked' = (\A s \in Sessions : ~open[s]) /\ lapsed' = FALSE
  BY DEF Begin
<1>4. /\ chan' \in [Sessions -> Channels \union {NoChannel}] /\ fcnt' \in [Sessions -> Counter]
      /\ \A g \in Groups : chan'[g] = chan[g] /\ fcnt'[g] = f[g]
  BY <1>1, <1>2, <1>3
<1>5. CASE p = "running" \/ panicked'
  <2>1. slot' = p /\ listen' = listen /\ stale' = (p = "running")
    BY <1>5 DEF Begin
  <2>2. panicked' => p = "idle"
    BY <1>3
  <2>3. p = "running" \/ p = "idle"
    BY <1>5, <2>2
  <2>4. Right'
    BY <2>1, <2>3 DEF Right
  <2>5. {panicked', lapsed', stale'} \subseteq BOOLEAN
    BY <1>3, <2>1
  <2>6. slot' \notin {"waiting", "running"} => panicked'
    BY <1>5, <2>1
  <2>. QED  BY <1>2, <1>4, <2>1, <2>4, <2>5, <2>6 DEF Kinds
<1>6. CASE ~(p = "running" \/ panicked')
  <2>1. slot' = "waiting" /\ listen' = chan'[LastOpen] /\ stale' = FALSE
    BY <1>6 DEF Begin
  <2>2. PICK s \in Sessions : open[s]
    BY <1>3, <1>6
  <2>3. LastOpen \in Sessions /\ open[LastOpen] /\ \A t \in Sessions : open[t] => t <= LastOpen
    BY <1>2, <2>2, LastIsOpen
  <2>4. ASSUME NEW g \in Groups, open[g] PROVE listen' = chan'[g]
    <3>1. g <= LastOpen /\ g \in Sessions
      BY <1>1, <2>3, <2>4
    <3>2. LastOpen \in Groups
      BY <2>3, <3>1, Sizes DEF Groups, Sessions
    <3>3. chan[g] = chan[LastOpen]
      BY <2>3, <2>4, <3>2 DEF Tuned
    <3>. QED  BY <1>4, <2>1, <3>2, <3>3
  <2>5. ASSUME \A g \in Groups : ~open[g] PROVE listen' = chan'[Unicast]
    BY <1>1, <2>1, <2>3, <2>5
  <2>6. Right'
    BY <2>4, <2>5 DEF Right
  <2>7. {panicked', lapsed', stale'} \subseteq BOOLEAN
    BY <1>3, <2>1
  <2>8. listen' \in Channels \union {NoChannel}
    BY <1>4, <2>1, <2>3
  <2>. QED  BY <1>2, <1>4, <2>1, <2>6, <2>7, <2>8 DEF Kinds, Slots
<1>. QED  BY <1>5, <1>6

\* The callback of the planner starts the reception again, if class C has started.
LEMMA AnsweredSets ==
    ASSUME IInv, NEW f \in [Sessions -> Counter], Answered(f), macCnt' \in Counter,
           started' \in BOOLEAN
    PROVE  /\ Kinds' /\ Settled /\ open' = open
           /\ \A g \in Groups : chan'[g] = chan[g] /\ fcnt'[g] = f[g]
<1>1. TypeOK /\ Tuned /\ "idle" \in Slots
  BY DEF IInv, Slots
<1>2. macRx2' = macRx2 /\ ready' = ready /\ open' = open /\ macRx2 \in Channels
  BY <1>1 DEF Answered, TypeOK
<1>3. CASE started'
  <2>1. Begin(f, "idle")
    BY <1>3 DEF Answered, Restarts
  <2>2. /\ Kinds' /\ Right' /\ (slot' \notin {"waiting", "running"} => panicked')
        /\ \A g \in Groups : chan'[g] = chan[g] /\ fcnt'[g] = f[g]
    BY <1>1, <1>2, <2>1, BeginSets
  <2>. QED  BY <1>2, <1>3, <2>2 DEF Settled
<1>4. CASE ~started'
  <2>1. /\ slot' = "idle" /\ fcnt' = f /\ lapsed' = (lapsed \/ pc = "starting")
        /\ chan' = chan /\ listen' = listen /\ panicked' = panicked /\ stale' = stale
    BY <1>4 DEF Answered, Restarts
  <2>2. Kinds'
    BY <1>1, <1>2, <2>1 DEF Kinds, TypeOK
  <2>3. Right'
    BY <2>1 DEF Right
  <2>. QED  BY <1>2, <1>4, <2>1, <2>2, <2>3 DEF Settled
<1>. QED  BY <1>3, <1>4

\* With or without a frame: a frame of a group is one that was not taken before.
LEMMA OutcomeSettles ==
    ASSUME IInv, started' \in BOOLEAN, Outcome
    PROVE  Aftermath /\ Settled
<1>1. /\ TypeOK /\ TakenBelow /\ GroupsOnce
      /\ macCnt \in Counter /\ fcnt \in [Sessions -> Counter]
      /\ twice \subseteq Sessions /\ taken \subseteq Sessions \X (0 .. MaxCnt)
  BY DEF IInv, TypeOK
<1>2. Groups \subseteq Sessions /\ Unicast \in Sessions /\ Unicast \notin Groups
      /\ \A s \in Sessions : s = Unicast \/ s \in Groups
  BY Sizes DEF Groups, Sessions, Unicast
<1>3. CASE Nothing
  <2>1. macCnt' = macCnt /\ twice' = twice /\ taken' = taken /\ Answered(fcnt)
    BY <1>3 DEF Nothing
  <2>2. /\ Kinds' /\ Settled /\ open' = open
        /\ \A g \in Groups : chan'[g] = chan[g] /\ fcnt'[g] = fcnt[g]
    BY <1>1, <2>1, AnsweredSets
  <2>3. TakenBelow' /\ GroupsOnce'
    BY <1>1, <2>1, <2>2 DEF TakenBelow, GroupsOnce
  <2>. QED  BY <1>1, <2>1, <2>2, <2>3 DEF Aftermath
<1>4. ASSUME NEW s \in Sessions, NEW n \in 0 .. MaxCnt, Frame(s, n) PROVE Aftermath /\ Settled
  <2>. DEFINE f == [fcnt EXCEPT ![s] = n]
  <2>1. macCnt' = f[Unicast] /\ Taken(s, n) /\ Answered(f) /\ Accepts(fcnt[s], n)
    BY <1>4 DEF Frame
  <2>2. n \in Counter /\ n \in Nat /\ fcnt[s] < n
    BY <1>1, <2>1, Sizes, AcceptedIsNew DEF Counter
  <2>3. f \in [Sessions -> Counter] /\ macCnt' \in Counter
    BY <1>1, <1>2, <2>1, <2>2
  <2>4. /\ Kinds' /\ Settled /\ open' = open
        /\ \A g \in Groups : chan'[g] = chan[g] /\ fcnt'[g] = f[g]
    BY <2>1, <2>3, AnsweredSets
  <2>5. taken' \subseteq taken \union {<<s, n>>}
    BY <2>1 DEF Taken
  <2>6. TakenBelow'
    <3>1. SUFFICES ASSUME NEW t \in taken', t[1] \in Groups PROVE t[2] <= fcnt'[t[1]]
      BY DEF TakenBelow
    <3>2. fcnt'[t[1]] = IF t[1] = s THEN n ELSE fcnt[t[1]]
      BY <1>1, <1>2, <2>4, <3>1
    <3>3. CASE t = <<s, n>>
      BY <2>2, <3>2, <3>3
    <3>4. CASE t \in taken
      <4>1. t[2] <= fcnt[t[1]] /\ t[2] \in Nat /\ fcnt[t[1]] \in Int
        BY <1>1, <1>2, <3>1, <3>4, Sizes DEF TakenBelow, Counter
      <4>2. fcnt[s] \in Int
        BY <1>1, Sizes DEF Counter
      <4>. QED  BY <2>2, <3>2, <4>1, <4>2
    <3>. QED  BY <2>5, <3>3, <3>4
  <2>7. twice' = twice \/ (twice' = twice \union {s} /\ <<s, n>> \in taken)
    BY <2>1 DEF Taken
  <2>8. s \in Groups => <<s, n>> \notin taken
    <3>1. SUFFICES ASSUME s \in Groups, <<s, n>> \in taken PROVE FALSE
      OBVIOUS
    <3>2. n <= fcnt[s]
      BY <1>1, <3>1 DEF TakenBelow
    <3>. QED  BY <1>1, <2>2, <3>2, Sizes DEF Counter
  <2>9. GroupsOnce'
    BY <1>1, <1>2, <2>7, <2>8 DEF GroupsOnce
  <2>. QED  BY <1>1, <2>4, <2>5, <2>6, <2>7, <2>9 DEF Aftermath
<1>. QED  BY <1>3, <1>4 DEF Outcome

-----------------------------------------------------------------------------
(* Every step keeps the invariant *)

\* The part of TypeOK that an answer of the planner does not change.
Rest ==
    /\ {joined, on, started} \subseteq BOOLEAN /\ held \in {None} \union 0 .. MaxCnt
    /\ air \in {"free", "class A"} /\ pc \in Pcs
    /\ started \/ pc = "starting" => joined /\ on
    /\ (air = "class A" => held = None) /\ (pc = "digest" => held # None)

\* A step in which the planner answers.
LEMMA AnswerKeeps ==
    ASSUME IInv, Aftermath, Settled, Rest',
           pc' = "starting" => pc = "starting", pc = "stopping" => pc' = "stopping"
    PROVE  IInv'
<1>1. TypeOK /\ Tuned /\ Kinds' /\ Right' /\ open' = open
  BY DEF IInv, Aftermath, Settled
<1>2. slot' \in {"waiting", "running"} => joined' /\ on'
  BY DEF Settled, Rest
<1>3. TypeOK'
  BY <1>1, <1>2 DEF TypeOK, Aftermath, Kinds, Rest, Slots, Pcs
<1>4. Owed'
  BY DEF Owed, Settled
<1>5. Tuned'
  <2>1. \A g, h \in Groups : open'[g] /\ open'[h] => chan'[g] = chan'[h]
    BY <1>1 DEF Tuned, Aftermath
  <2>2. pc' # "stopping" => (\E g \in Groups : open'[g]) \/ open'[Unicast]
    BY <1>1 DEF Tuned
  <2>3. slot' \in {"waiting", "running"} /\ pc' # "abort" /\ ~stale'
           => \A g \in Groups : open'[g] => listen' = chan'[g]
    BY <1>1 DEF Right
  <2>. QED  BY <2>1, <2>2, <2>3 DEF Tuned
<1>6. UnicastHeard'
  BY <1>1 DEF Right, UnicastHeard
<1>. QED  BY <1>3, <1>4, <1>5, <1>6 DEF IInv, Aftermath

\* A step in which it does not.
LEMMA QuietKeeps ==
    ASSUME IInv, Quiet, Rest', slot' \in Slots, started' => started,
           slot' = "idle" => slot = "idle",
           slot' \in {"waiting", "running"}
               => slot \in {"waiting", "running"} /\ joined' /\ on' /\ pc' = pc,
           pc' = "starting" => pc = "starting", pc = "stopping" => pc' = "stopping"
    PROVE  IInv'
<1>1. /\ macCnt' = macCnt /\ macRx2' = macRx2 /\ ready' = ready /\ open' = open
      /\ chan' = chan /\ fcnt' = fcnt /\ listen' = listen /\ panicked' = panicked
      /\ lapsed' = lapsed /\ stale' = stale /\ twice' = twice /\ taken' = taken
  BY DEF Quiet, sessions, ghosts
<1>2. TypeOK'
  BY <1>1 DEF IInv, TypeOK, Rest, Slots, Pcs
<1>3. Owed'
  BY <1>1 DEF IInv, Owed, TypeOK
<1>4. Tuned'
  BY <1>1 DEF IInv, Tuned
<1>5. UnicastHeard'
  BY <1>1 DEF IInv, UnicastHeard
<1>6. TakenBelow' /\ GroupsOnce'
  BY <1>1 DEF IInv, TakenBelow, GroupsOnce
<1>. QED  BY <1>2, <1>3, <1>4, <1>5, <1>6 DEF IInv

LEMMA RestNow == ASSUME IInv PROVE Rest /\ slot \in Slots
BY DEF IInv, TypeOK, Rest, Slots, Pcs

\* The interrupts.
LEMMA PlannerKeeps == ASSUME IInv, Planner PROVE IInv'
<1>1. Rest /\ slot \in Slots /\ TypeOK
  BY RestNow DEF IInv
<1>2. CASE Listen
  <2>1. /\ Quiet /\ slot = "waiting" /\ slot' = "running" /\ air' = air /\ held' = held
        /\ joined' = joined /\ on' = on /\ started' = started /\ pc' = pc
    BY <1>2 DEF Listen, Interrupt
  <2>2. Rest' /\ joined /\ on
    BY <1>1, <2>1 DEF Rest, TypeOK
  <2>. QED  BY <2>1, <2>2, QuietKeeps DEF Slots
<1>3. CASE Receive
  <2>1. /\ Outcome /\ air' = air /\ held' = held
        /\ joined' = joined /\ on' = on /\ started' = started /\ pc' = pc
    BY <1>3 DEF Receive, Interrupt
  <2>2. Rest' /\ started' \in BOOLEAN
    BY <1>1, <2>1 DEF Rest
  <2>. QED  BY <2>1, <2>2, OutcomeSettles, AnswerKeeps
<1>4. CASE ClassATask
  <2>1. /\ Quiet /\ slot' = (IF slot = "running" THEN "aborted" ELSE slot) /\ air' = "class A"
        /\ held = None /\ held' = held /\ joined' = joined /\ on' = on /\ started' = started /\ pc' = pc
    BY <1>4 DEF ClassATask, Interrupt
  <2>2. Rest' /\ (slot' \in {"waiting", "running"} => joined /\ on)
    BY <1>1, <2>1 DEF Rest, TypeOK
  <2>. QED  BY <1>1, <2>1, <2>2, QuietKeeps DEF Slots
<1>5. CASE ClassADone
  <2>1. /\ air = "class A" /\ air' = "free" /\ held' \in {None} \union 0 .. MaxCnt
        /\ joined' = joined /\ on' = on /\ started' = started /\ pc' = pc
    BY <1>5 DEF ClassADone, Interrupt
  <2>2. Rest' /\ started' \in BOOLEAN
    BY <1>1, <2>1 DEF Rest
  <2>3. CASE CallsAborted
    <3>1. Outcome
      BY <1>5, <2>3 DEF ClassADone, Outcome
    <3>. QED  BY <2>1, <2>2, <3>1, OutcomeSettles, AnswerKeeps
  <2>4. CASE ~CallsAborted
    <3>1. slot' = slot /\ Quiet
      BY <1>5, <2>4 DEF ClassADone
    <3>2. slot \in {"waiting", "running"} => joined /\ on
      BY <1>1 DEF TypeOK
    <3>. QED  BY <1>1, <2>1, <2>2, <3>1, <3>2, QuietKeeps
  <2>. QED  BY <2>3, <2>4
<1>. QED  BY <1>2, <1>3, <1>4, <1>5 DEF Planner

\* rp_task_abort, called by the main loop, which is in pc = "main" afterwards.
LEMMA AbortKeeps ==
    ASSUME IInv, Abort, Rest', pc' = "main", pc # "stopping", started' => started
    PROVE  IInv'
<1>1. slot \in Slots /\ started' \in BOOLEAN
  BY RestNow DEF Rest
<1>2. CASE Outcome
  BY <1>1, <1>2, OutcomeSettles, AnswerKeeps
<1>3. CASE Quiet /\ slot' \in {"idle", "aborted"} /\ (slot' = "idle" => slot = "idle")
  BY <1>3, QuietKeeps DEF Slots
<1>. QED  BY <1>1, <1>2, <1>3 DEF Abort, Outcome, Slots

\* lr1mac_class_c_start, called by the main loop.
LEMMA StartKeeps ==
    ASSUME IInv, NEW e \in BOOLEAN, Start(e), Rest', e => joined' /\ on',
           macRx2' \in Channels, macCnt' \in Counter, held' = held,
           started' = started, ready' = ready, open' = open,
           slot \in {"waiting", "running"} => joined' /\ on',
           twice' \subseteq twice, taken' \subseteq taken
    PROVE  IInv'
<1>1. TypeOK /\ Tuned /\ Rest /\ slot \in Slots /\ pc = "main"
  BY RestNow DEF IInv, Start, Call
<1>2. fcnt \in [Sessions -> Counter]
  BY <1>1 DEF TypeOK
<1>3. \E s \in Sessions : open[s]
  <2>1. Unicast \in Sessions /\ Groups \subseteq Sessions
    BY Sizes DEF Groups, Sessions, Unicast
  <2>. QED  BY <1>1, <2>1 DEF Tuned
<1>4. TakenBelow' /\ GroupsOnce' /\ twice' \subseteq Sessions
      /\ taken' \subseteq Sessions \X (0 .. MaxCnt)
  <2>1. \A g \in Groups : fcnt'[g] = fcnt[g]
    BY <1>1, <1>2, <1>3, BeginSets DEF Start
  <2>. QED  BY <1>1, <2>1 DEF IInv, TakenBelow, GroupsOnce, TypeOK
<1>5. CASE e
  <2>1. Begin(fcnt, slot) /\ pc' = "starting"
    BY <1>5 DEF Start, Call
  <2>2. /\ Kinds' /\ Right' /\ (slot' \notin {"waiting", "running"} => panicked')
        /\ \A g \in Groups : chan'[g] = chan[g] /\ fcnt'[g] = fcnt[g]
    BY <1>1, <1>2, <1>3, <2>1, BeginSets
  <2>3. TypeOK'
    BY <1>4, <1>5, <2>1, <2>2 DEF TypeOK, Kinds, Rest, Slots, Pcs
  <2>4. Owed'
    BY <2>2 DEF Owed
  <2>5. Tuned'
    <3>1. \A g, h \in Groups : open'[g] /\ open'[h] => chan'[g] = chan'[h]
      BY <1>1, <2>2 DEF Tuned
    <3>2. (\E g \in Groups : open'[g]) \/ open'[Unicast]
      BY <1>1 DEF Tuned
    <3>3. slot' \in {"waiting", "running"} /\ pc' # "abort" /\ ~stale'
             => \A g \in Groups : open'[g] => listen' = chan'[g]
      BY <2>2 DEF Right
    <3>. QED  BY <3>1, <3>2, <3>3 DEF Tuned
  <2>6. UnicastHeard'
    BY <2>2 DEF Right, UnicastHeard
  <2>. QED  BY <1>4, <2>3, <2>4, <2>5, <2>6 DEF IInv
<1>6. CASE ~e
  <2>1. /\ pc' = "main" /\ chan' = chan /\ fcnt' = fcnt /\ slot' = slot /\ listen' = listen
        /\ panicked' = panicked /\ lapsed' = lapsed /\ stale' = stale
    BY <1>6 DEF Start, Call
  <2>2. TypeOK'
    BY <1>1, <1>4, <2>1 DEF TypeOK, Rest, Pcs
  <2>3. Owed' /\ Tuned' /\ UnicastHeard'
    BY <1>1, <2>1 DEF IInv, Owed, TypeOK, Tuned, UnicastHeard
  <2>. QED  BY <1>4, <2>2, <2>3 DEF IInv
<1>. QED  BY <1>5, <1>6

\* The class and the downlinks of class A.
LEMMA ClassKeeps == ASSUME IInv, Class PROVE IInv'
<1>1. Rest /\ slot \in Slots /\ TypeOK /\ Tuned
  BY RestNow DEF IInv
<1>2. -1 \in Counter /\ 0 .. MaxCnt \subseteq Counter
  BY Sizes DEF Counter
<1>3. CASE Started
  <2>1. /\ pc = "starting" /\ pc' = "main" /\ started' = TRUE
        /\ UNCHANGED <<mac, on, sessions, radio, panicked, ghosts>>
    BY <1>3 DEF Started
  <2>2. TypeOK' /\ Owed'
    BY <1>1, <2>1 DEF IInv, TypeOK, Owed, mac, sessions, radio, ghosts
  <2>3. Tuned' /\ UnicastHeard' /\ TakenBelow' /\ GroupsOnce'
    BY <2>1 DEF IInv, Tuned, UnicastHeard, TakenBelow, GroupsOnce, mac, sessions, radio, ghosts
  <2>. QED  BY <2>2, <2>3 DEF IInv
<1>4. CASE Join
  <2>1. /\ Start(on) /\ joined' = TRUE /\ macCnt' = -1 /\ macRx2' \in Channels
        /\ held' = held /\ on' = on /\ started' = started /\ ready' = ready /\ open' = open
        /\ twice' \subseteq twice /\ taken' \subseteq taken /\ ~joined
    BY <1>4 DEF Join
  <2>2. air' = air /\ (pc' = "starting" => on) /\ pc' \in {"main", "starting"}
    BY <2>1 DEF Start, Call
  <2>3. Rest' /\ on \in BOOLEAN /\ slot \notin {"waiting", "running"}
    BY <1>1, <2>1, <2>2 DEF Rest, Pcs, TypeOK
  <2>. QED  BY <1>2, <2>1, <2>3, StartKeeps
<1>5. CASE Enable
  <2>1. /\ Start(joined) /\ on' = TRUE /\ joined' = joined /\ macCnt' = macCnt /\ macRx2' = macRx2
        /\ held' = held /\ started' = started /\ ready' = ready /\ open' = open
        /\ twice' = twice /\ taken' = taken
    BY <1>5 DEF Enable, mac
  <2>2. air' = air /\ (pc' = "starting" => joined) /\ pc' \in {"main", "starting"}
    BY <2>1 DEF Start, Call
  <2>3. Rest' /\ joined \in BOOLEAN /\ (slot \in {"waiting", "running"} => joined)
    BY <1>1, <2>1, <2>2 DEF Rest, Pcs, TypeOK
  <2>4. macRx2' \in Channels /\ macCnt' \in Counter
    BY <1>1, <2>1 DEF TypeOK
  <2>. QED  BY <2>1, <2>3, <2>4, StartKeeps
<1>6. ASSUME NEW l \in BOOLEAN, Disable(l) PROVE IInv'
  <2>1. /\ pc = "main" /\ pc' = "main" /\ air' = air /\ held' = held /\ on' = FALSE
        /\ joined' = (joined /\ ~l)
    BY <1>6 DEF Disable, Call
  <2>2. CASE on
    <3>1. started' = FALSE /\ Abort
      BY <1>6, <2>2 DEF Disable
    <3>2. Rest'
      BY <1>1, <2>1, <3>1 DEF Rest, Pcs
    <3>. QED  BY <2>1, <3>1, <3>2, AbortKeeps
  <2>3. CASE ~on
    <3>1. started' = started /\ slot' = slot /\ Quiet
      BY <1>6, <2>3 DEF Disable
    <3>2. ~started /\ slot \notin {"waiting", "running"}
      BY <1>1, <2>3 DEF TypeOK
    <3>3. Rest'
      BY <1>1, <2>1, <3>1, <3>2 DEF Rest, Pcs
    <3>. QED  BY <1>1, <2>1, <3>1, <3>2, <3>3, QuietKeeps
  <2>. QED  BY <2>2, <2>3
<1>7. CASE Digest
  <2>1. /\ pc = "main" /\ pc' \in {"main", "digest"} /\ air' = air /\ held' \in {held, None}
        /\ joined' = joined /\ on' = on /\ started' = started /\ slot' = slot /\ Quiet
        /\ (pc' = "digest" => held # None /\ held' = held)
    BY <1>7 DEF Digest, Call, Quiet
  <2>2. TypeOK' /\ Owed'
    BY <1>1, <2>1 DEF IInv, TypeOK, Owed, Quiet, sessions, ghosts
  <2>3. Tuned' /\ UnicastHeard' /\ TakenBelow' /\ GroupsOnce'
    BY <2>1 DEF IInv, Tuned, UnicastHeard, TakenBelow, GroupsOnce, Quiet, sessions, ghosts
  <2>. QED  BY <2>2, <2>3 DEF IInv
<1>8. CASE Digested
  <2>1. /\ pc = "digest" /\ pc' = "main" /\ macCnt' = held /\ macRx2' \in Channels
        /\ held' = None /\ Taken(Unicast, held)
        /\ UNCHANGED <<joined, on, started, sessions, radio, panicked, lapsed, stale>>
    BY <1>8 DEF Digested
  <2>2. Unicast \in Sessions /\ Unicast \notin Groups /\ held \in 0 .. MaxCnt
    <3>1. held \in 0 .. MaxCnt
      BY <1>1, <2>1 DEF Rest
    <3>. QED  BY <3>1, Sizes DEF Unicast, Sessions, Groups
  <2>3. /\ taken' \subseteq taken \union {<<Unicast, held>>}
        /\ twice' \subseteq twice \union {Unicast}
    BY <2>1 DEF Taken
  <2>4. TypeOK'
    <3>1. macCnt' \in Counter
      BY <1>2, <2>1, <2>2
    <3>2. twice' \subseteq Sessions /\ taken' \subseteq Sessions \X (0 .. MaxCnt)
      <4>1. <<Unicast, held>> \in Sessions \X (0 .. MaxCnt)
        BY <2>2
      <4>. QED  BY <1>1, <2>2, <2>3, <4>1 DEF TypeOK
    <3>. QED  BY <1>1, <2>1, <3>1, <3>2 DEF TypeOK, sessions, radio
  <2>5. Owed' /\ Tuned' /\ UnicastHeard'
    BY <2>1 DEF IInv, Owed, Tuned, UnicastHeard, sessions, radio
  <2>6. TakenBelow'
    BY <2>1, <2>2, <2>3 DEF IInv, TakenBelow, sessions
  <2>7. GroupsOnce'
    BY <2>3 DEF IInv, GroupsOnce
  <2>. QED  BY <2>4, <2>5, <2>6, <2>7 DEF IInv
<1>. QED  BY <1>3, <1>4, <1>5, <1>6, <1>7, <1>8 DEF Class

\* The multicast sessions.
LEMMA ConfigureKeeps == ASSUME IInv, NEW g \in Groups, Configure(g) PROVE IInv'
<1>1. /\ pc = "main" /\ pc' = "main" /\ air' = air /\ ready' = ready \union {g}
      /\ taken' = {t \in taken : t[1] # g} /\ open' = open /\ chan' = chan /\ Kept
  BY DEF Configure, Call
<1>2. TypeOK' /\ Owed'
  BY <1>1 DEF IInv, TypeOK, Owed, Kept, mac
<1>3. Tuned' /\ UnicastHeard' /\ TakenBelow' /\ GroupsOnce'
  BY <1>1 DEF IInv, Tuned, UnicastHeard, TakenBelow, GroupsOnce, Kept
<1>. QED  BY <1>2, <1>3 DEF IInv

\* The groups that are enabled share the parameters of the first of them.
LEMMA CompatibleAll ==
    ASSUME Tuned, NEW c, Compatible(c), NEW g \in Groups, open[g] PROVE chan[g] = c
<1>1. PICK h \in Groups : open[h] /\ \A k \in 1 .. h - 1 : ~open[k]
  BY FirstGroup
<1>. QED  BY <1>1 DEF Compatible, Tuned

LEMMA StartSessionKeeps ==
    ASSUME IInv, NEW g \in Groups, NEW c \in Channels, StartSession(g, c) PROVE IInv'
<1>1. /\ ~open[g] /\ Compatible(c) /\ pc = "main" /\ air' = air
      /\ pc' = (IF chan[Unicast] # c THEN "abort" ELSE "main")
      /\ chan' = [chan EXCEPT ![g] = c]
      /\ open' = [open EXCEPT ![g] = TRUE, ![Unicast] = @ /\ chan[Unicast] = c]
      /\ ready' = ready /\ taken' = taken /\ Kept
  BY DEF StartSession, Call
<1>2. Unicast \in Sessions /\ Groups \subseteq Sessions /\ Unicast \notin Groups
  BY Sizes DEF Unicast, Sessions, Groups
<1>3. TypeOK /\ Tuned /\ open \in [Sessions -> BOOLEAN]
      /\ chan \in [Sessions -> Channels \union {NoChannel}]
  BY DEF IInv, TypeOK
<1>4. /\ \A h \in Groups : open'[h] = (open[h] \/ h = g)
      /\ \A h \in Groups : chan'[h] = IF h = g THEN c ELSE chan[h]
      /\ chan'[Unicast] = chan[Unicast]
  BY <1>1, <1>2, <1>3
<1>5. \A h \in Groups : open'[h] => chan'[h] = c
  BY <1>1, <1>3, <1>4, CompatibleAll, ZenonT(60)
<1>6. TypeOK'
  <2>1. open' \in [Sessions -> BOOLEAN] /\ chan' \in [Sessions -> Channels \union {NoChannel}]
    BY <1>1, <1>2, <1>3
  <2>. QED  BY <1>1, <1>3, <2>1 DEF TypeOK, Kept, mac
<1>7. Owed' /\ TakenBelow' /\ GroupsOnce'
  BY <1>1 DEF IInv, Owed, TakenBelow, GroupsOnce, Kept
<1>8. slot \in {"waiting", "running"} /\ pc' # "abort" /\ ~stale => listen = c
  <2>1. SUFFICES ASSUME slot \in {"waiting", "running"}, chan[Unicast] = c, ~stale
                 PROVE  listen = c
    BY <1>1
  <2>2. CASE \A h \in Groups : ~open[h]
    BY <1>1, <2>1, <2>2 DEF IInv, UnicastHeard
  <2>3. CASE \E h \in Groups : open[h]
    <3>1. PICK h \in Groups : open[h]
      BY <2>3
    <3>2. chan[h] = c
      BY <1>1, <1>3, <3>1, CompatibleAll
    <3>. QED  BY <1>1, <1>3, <2>1, <3>1, <3>2 DEF Tuned
  <2>. QED  BY <2>2, <2>3
<1>9. Tuned' /\ UnicastHeard'
  BY <1>1, <1>4, <1>5, <1>8 DEF Tuned, UnicastHeard, Kept
<1>. QED  BY <1>6, <1>7, <1>9 DEF IInv

LEMMA StopSessionsKeeps ==
    ASSUME IInv, NEW S \in SUBSET Groups, StopSessions(S) PROVE IInv'
<1>1. /\ pc = "main" /\ pc' = "stopping" /\ air' = air
      /\ open' = [s \in Sessions |-> open[s] /\ s \notin S]
      /\ chan' = [s \in Sessions |-> IF s \in S THEN NoChannel ELSE chan[s]]
      /\ ready' = ready /\ taken' = taken /\ Kept
  BY DEF StopSessions, Call
<1>2. Groups \subseteq Sessions /\ TypeOK /\ Tuned
  BY Sizes DEF Sessions, Groups, IInv
<1>3. TypeOK'
  <2>1. open' \in [Sessions -> BOOLEAN]
    BY <1>1, <1>2 DEF TypeOK
  <2>2. chan' \in [Sessions -> Channels \union {NoChannel}]
    BY <1>1, <1>2 DEF TypeOK
  <2>. QED  BY <1>1, <1>2, <2>1, <2>2 DEF TypeOK, Kept, mac
<1>4. Owed' /\ TakenBelow' /\ GroupsOnce' /\ UnicastHeard'
  BY <1>1 DEF IInv, Owed, TakenBelow, GroupsOnce, UnicastHeard, Kept
<1>5. \A g \in Groups : open'[g] => open[g] /\ chan'[g] = chan[g]
  BY <1>1, <1>2
<1>6. Tuned'
  BY <1>1, <1>2, <1>5 DEF Tuned, Kept
<1>. QED  BY <1>3, <1>4, <1>6 DEF IInv

LEMMA StoppedKeeps == ASSUME IInv, Stopped PROVE IInv'
<1>1. /\ pc = "stopping" /\ air' = air /\ ready' = ready /\ chan' = chan /\ taken' = taken /\ Kept
      /\ IF Reenables THEN pc' = "abort" /\ open' = [open EXCEPT ![Unicast] = TRUE]
                      ELSE pc' = "main" /\ open' = open
  BY DEF Stopped
<1>2. /\ Unicast \in Sessions /\ Unicast \notin Groups /\ Groups \subseteq Sessions
      /\ TypeOK /\ open \in [Sessions -> BOOLEAN]
  <2>1. Unicast \in Sessions /\ Unicast \notin Groups /\ Groups \subseteq Sessions
    BY Sizes DEF Unicast, Sessions, Groups
  <2>. QED  BY <2>1 DEF IInv, TypeOK
<1>3. open' \in [Sessions -> BOOLEAN] /\ \A g \in Groups : open'[g] = open[g]
  BY <1>1, <1>2
<1>4. TypeOK'
  BY <1>1, <1>2, <1>3 DEF TypeOK, Kept, mac
<1>5. Owed' /\ TakenBelow' /\ GroupsOnce'
  BY <1>1 DEF IInv, Owed, TakenBelow, GroupsOnce, Kept
<1>6. Tuned' /\ UnicastHeard'
  BY <1>1, <1>2, <1>3 DEF IInv, Tuned, UnicastHeard, Kept, Reenables
<1>. QED  BY <1>4, <1>5, <1>6 DEF IInv

LEMMA MulticastKeeps == ASSUME IInv, Multicast PROVE IInv'
<1>1. CASE AbortReception
  <2>1. /\ pc = "abort" /\ pc' = "main" /\ air' = air /\ held' = held
        /\ joined' = joined /\ on' = on /\ started' = started /\ Abort
    BY <1>1 DEF AbortReception
  <2>2. Rest'
    BY <2>1, RestNow DEF Rest, Pcs
  <2>. QED  BY <2>1, <2>2, AbortKeeps
<1>. QED
  BY <1>1, ConfigureKeeps, StartSessionKeeps, StopSessionsKeeps, StoppedKeeps
  DEF Multicast, StopSession, StopAll

\* The panic leaves the device as it starts.
LEMMA ResetKeeps == (Init => IInv) /\ (Reset => IInv')
<1>1. Unicast \in Sessions /\ Unicast \notin Groups /\ Groups \subseteq Sessions
  BY Sizes DEF Unicast, Sessions, Groups
<1>2. -1 \in Counter /\ 0 \in Counter
  BY Sizes DEF Counter
<1>3. ASSUME Init PROVE IInv
  <2>1. TypeOK
    BY <1>1, <1>2, <1>3 DEF Init, TypeOK
  <2>2. Owed /\ Tuned /\ UnicastHeard /\ TakenBelow /\ GroupsOnce
    BY <1>1, <1>3 DEF Init, Owed, Tuned, UnicastHeard, TakenBelow, GroupsOnce
  <2>. QED  BY <2>1, <2>2 DEF IInv
<1>4. ASSUME Reset PROVE IInv'
  <2>1. TypeOK'
    BY <1>1, <1>2, <1>4 DEF Reset, TypeOK
  <2>2. Owed' /\ Tuned' /\ UnicastHeard' /\ TakenBelow' /\ GroupsOnce'
    BY <1>1, <1>4 DEF Reset, Owed, Tuned, UnicastHeard, TakenBelow, GroupsOnce
  <2>. QED  BY <2>1, <2>2 DEF IInv
<1>. QED  BY <1>3, <1>4

LEMMA StepKeeps == ASSUME IInv, [Next]_vars PROVE IInv'
<1>1. CASE UNCHANGED vars
  BY <1>1 DEF vars, mac, sessions, radio, ghosts, IInv, TypeOK, Owed, Tuned, UnicastHeard,
              TakenBelow, GroupsOnce
<1>2. CASE Next
  BY <1>2, ResetKeeps, PlannerKeeps, ClassKeeps, MulticastKeeps DEF Next
<1>. QED  BY <1>1, <1>2

-----------------------------------------------------------------------------
(* The theorems *)

LEMMA Inductive == Spec => []IInv
<1>1. Init => IInv
  BY ResetKeeps
<1>2. IInv /\ [Next]_vars => IInv'
  BY StepKeeps
<1>. QED  BY <1>1, <1>2, PTL DEF Spec

\* Every variable of the class C engine keeps its type, and class C has a reception only
\* on a device that has joined and has it enabled (lr1mac_class_c_start).
THEOREM ClassCTyped == Spec => []TypeOK
<1>1. IInv => TypeOK
  BY DEF IInv
<1>. QED  BY <1>1, Inductive, PTL

\* The callback of lr1mac_class_c never leaves a class C that has started without a task
\* in the planner, unless it ran before lr1mac_class_c_start had noted that it started.
THEOREM ClassCListening == Spec => []Listening
<1>1. IInv => Listening
  BY DEF IInv, Owed, Listening
<1>. QED  BY <1>1, Inductive, PTL

\* However sessions are started and stopped among the interrupts, the multicast groups
\* that are enabled share one channel, the reception is on it, and without a group the
\* unicast session is enabled.
THEOREM ClassCTuned == Spec => []Tuned
<1>1. IInv => Tuned
  BY DEF IInv
<1>. QED  BY <1>1, Inductive, PTL

\* No frame of a multicast group passes lr1mac_fcnt_dwn_accept twice under the same keys,
\* though class A and class C overwrite each other's unicast counter.
THEOREM ClassCGroupsOnce == Spec => []GroupsOnce
<1>1. IInv => GroupsOnce
  BY DEF IInv
<1>. QED  BY <1>1, Inductive, PTL
=============================================================================
