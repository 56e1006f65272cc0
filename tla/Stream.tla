------------------------------- MODULE Stream -------------------------------
(***************************************************************************)
(* The stream service: records of the host go through a FIFO of octets     *)
(* (rose.c) into uplinks, with redundancy octets made of what was sent     *)
(* before.  The FIFO holds, from its start, the window of octets already   *)
(* sent, the octets not sent yet, and free space up to a work area.        *)
(*                                                                         *)
(*     0 ....... unsent ............ fill ........ FreeEnd ...... FifoSize *)
(*      redundancy    not sent yet        free          work area          *)
(*                                                                         *)
(* The host adds records; the task of the supervisor makes one frame per   *)
(* launch and comes back while there is something to send; the server may  *)
(* change the length of the window, the redundancy rate and the interval   *)
(* of the protocol context at any time.                                    *)
(***************************************************************************)
EXTENDS Integers, Sequences, FiniteSetsExt

CONSTANTS
    FifoSize,    \* ROSE_FIFO_SIZE
    DefaultWl,   \* ROSE_DEFAULT_WL, the longest window
    Wls,         \* the window lengths ROSE_decWL returns
    RvecMin,     \* the least size of the work area (16)
    MaxSysc,     \* MAX_SYSC, the most fresh octets of a frame
    Rates,       \* redundancy rates, in percent, that the host or the server asks for
    Intervals,   \* intervals of the protocol context
    Rooms,       \* payload sizes the MAC offers to the next frame
    Payloads,    \* records of the host
    Tag,         \* REC_TAG
    Octets,      \* 2^8
    Words,       \* 2^16, the width of unsent and fill
    MaxRecords,  \* bound: records
    MaxOrders    \* bound: commands of the server and new streams

Least(a, b) == IF a < b THEN a ELSE b
Most(a, b)  == IF a > b THEN a ELSE b

\* ROSE_rvec_len, and the first octet of the work area (get_rvec).
RvecLen(w) == Most(RvecMin, (w + 7) \div 8)
FreeEnd(w) == FifoSize - RvecLen(w)

ASSUME StreamAssumption ==
    /\ {FifoSize, RvecMin, MaxSysc, Octets, Words, MaxRecords, MaxOrders} \subseteq Nat \ {0}
    /\ DefaultWl \in Wls /\ Wls \subseteq 1 .. DefaultWl
    /\ DefaultWl < FreeEnd(DefaultWl) /\ FifoSize < Words
    /\ Rates \subseteq Nat /\ Intervals \subseteq Nat /\ Rooms \subseteq Nat
    /\ Payloads \subseteq Seq(0 .. Octets - 1) /\ Tag \in 0 .. Octets - 1

HdrLen == 3   \* SDATA_HDR_LEN
PctxLen == 3  \* SDATA_PCTX_LEN
InfoLen == 9  \* SINFO_LEN
Places == 0 .. FifoSize - 1

VARIABLES
    wl,        \* length of the window
    rr,        \* redundancy rate, in percent
    redcnt,    \* redundancy octets sent over the window
    pctxintv,  \* the protocol context is in every (pctxintv + 1)th frame
    framecnt,  \* frames since the last protocol context
    flags,     \* what the server is owed: SINFO, and WLACK until it acknowledges
    soff,      \* label of the first octet not sent
    unsent,    \* its place
    fill,      \* start of the free space
    fifo,
    task,      \* is STREAM_TASK in the table of the supervisor?
    closing,   \* is it launched and not closed yet?
    frame,     \* the last frame with stream data: label and fresh octets
    added,     \* ghost: the octets put in this stream
    records,   \* ghost: the records they stand for
    cut,       \* ghost: has a shorter window cut off octets below the start of the FIFO?
    orders     \* bound

window == <<wl, rr, pctxintv>>
buffer == <<soff, unsent, fill, fifo>>
ghosts == <<added, records, cut>>
vars   == <<window, redcnt, framecnt, flags, buffer, task, closing, frame, ghosts, orders>>

-----------------------------------------------------------------------------
(* Arithmetic of the redundancy account *)

Quotient(a, b) == IF a >= 0 THEN a \div b ELSE -((-a) \div b)  \* the division of C
TargetRedCnt(w, r) == (w * r + 99) \div 100
DiluteRedCnt(count, n) == Quotient(count * (wl - n), wl)

\* shiftFifo to the start, then clearFifo of what it has left behind.
ShiftedShort(s, n) ==  \* mutant
    [i \in Places |-> IF i < n - 1 THEN fifo[i + s] ELSE IF i < n + s THEN 0 ELSE fifo[i]]
Shifted(s, n) ==
    [i \in Places |-> IF i < n THEN fifo[i + s] ELSE IF i < n + s THEN 0 ELSE fifo[i]]

-----------------------------------------------------------------------------
(* The host *)

Init ==
    /\ wl = DefaultWl /\ rr = 110 /\ redcnt = TargetRedCnt(DefaultWl, 110)
    /\ pctxintv = 8 /\ framecnt = 0 /\ flags = {}
    /\ soff = 0 /\ unsent = DefaultWl /\ fill = DefaultWl /\ fifo = [i \in Places |-> 0]
    /\ task = FALSE /\ closing = FALSE /\ frame = [soff |-> 0, octets |-> <<>>]
    /\ added = <<>> /\ records = <<>> /\ cut = FALSE /\ orders = 0

\* smtc_modem_stream_init: a new stream replaces the one at work.
StreamInit(rate) ==
    /\ orders < MaxOrders /\ orders' = orders + 1
    /\ wl' = DefaultWl /\ rr' = rate /\ redcnt' = TargetRedCnt(DefaultWl, 110)
    /\ pctxintv' = 8 /\ framecnt' = 0 /\ flags' = {}
    /\ soff' = 0 /\ unsent' = DefaultWl /\ fill' = DefaultWl
    /\ fifo' = [i \in Places |-> 0]
    /\ task' = FALSE /\ frame' = [soff |-> 0, octets |-> <<>>]
    /\ added' = <<>> /\ records' = <<>> /\ cut' = FALSE
    /\ UNCHANGED closing

\* ROSE_addRecord: each octet that looks like a tag, and one octet in front, holds
\* the distance to the next; the last octet is a tag.
TagAfter(data, j) ==
    Min({k \in j + 1 .. Len(data) + 1 : k = Len(data) + 1 \/ data[k] = Tag})
DistanceLess(data, j) == TagAfter(data, j) - j - 1  \* mutant
Distance(data, j) == TagAfter(data, j) - j
Encoded(data) ==
    [p \in 1 .. Len(data) + 2 |->
        LET j == p - 1 IN
        IF j = Len(data) + 1 THEN Tag
        ELSE IF j = 0 \/ data[j] = Tag THEN (Tag + Distance(data, j)) % Octets
        ELSE data[j]]

Overfull(n) == fill + n > FifoSize  \* mutant
Overrun(n) == n > (FreeEnd(wl) - fill) % Words

AddRecord(data) ==
    /\ Len(records) < MaxRecords
    /\ Len(data) \in 1 .. Octets - 2 /\ ~Overrun(Len(data) + 2)
    /\ LET e == Encoded(data) IN
       /\ fifo' = [i \in Places |->
                     IF i \in fill .. fill + Len(e) - 1 THEN e[i - fill + 1] ELSE fifo[i]]
       /\ fill' = (fill + Len(e)) % Words
       /\ added' = added \o e
    /\ records' = Append(records, data)
    /\ task' = TRUE
    /\ UNCHANGED <<window, redcnt, framecnt, flags, soff, unsent, closing, frame, cut, orders>>

-----------------------------------------------------------------------------
(* The server: ROSE_processDnFrame *)

\* A longer window needs a longer work area; a shorter one drops the oldest octets - and,
\* when fewer than these have been sent, also octets that have not: unsent wraps, and so
\* does fill when there are fewer in all.  (The memory outside the FIFO that is then moved
\* is not modelled.)
FitsAlways(w) == TRUE  \* mutant
Fits(w) == fill <= FreeEnd(w)

SetWindow(w) ==
    IF ~Fits(w)
    THEN UNCHANGED <<wl, redcnt, unsent, fill, fifo, cut>> /\ flags' = flags
    ELSE /\ wl' = w /\ cut' = (cut \/ wl - w > unsent)
         /\ flags' = flags \union {"WLACK"}
         /\ IF w < wl
            THEN LET s == wl - w IN
                 /\ fill' = (fill - s) % Words
                 /\ unsent' = (unsent - s) % Words
                 /\ fifo' = IF s > fill THEN fifo ELSE Shifted(s, fill - s)
                 /\ redcnt' = DiluteRedCnt(redcnt, s)
            ELSE UNCHANGED <<redcnt, unsent, fill, fifo>>

Order ==
    /\ orders < MaxOrders /\ orders' = orders + 1
    /\ UNCHANGED <<framecnt, soff, task, closing, frame, added, records>>

UpdateWindow(w) ==
    /\ Order
    /\ SetWindow(w)
    /\ UNCHANGED <<rr, pctxintv>>

UpdateRates(r, p) ==
    /\ Order
    /\ rr' = r /\ pctxintv' = p
    /\ UNCHANGED <<wl, redcnt, flags, unsent, fill, fifo, cut>>

AskInfo ==
    /\ Order
    /\ flags' = flags \union {"SINFO"}
    /\ UNCHANGED <<window, redcnt, unsent, fill, fifo, cut>>

\* The acknowledgement names a window; it counts if it is the one in use.
AckWindow ==
    /\ "WLACK" \in flags
    /\ flags' = flags \ {"WLACK"}
    /\ UNCHANGED <<window, redcnt, framecnt, buffer, task, closing, frame, ghosts, orders>>

-----------------------------------------------------------------------------
(* The task of the supervisor: one frame (ROSE_getData) *)

Context == IF framecnt = 0 THEN PctxLen ELSE 0
Avail(room) == room - HdrLen - Context

Launched == task /\ task' = FALSE /\ closing' = TRUE

\* The protocol context alone, again and again until a new window is acknowledged.
SendInfo(room) ==
    /\ Launched
    /\ flags # {} /\ room >= InfoLen
    /\ flags' = flags \ {"SINFO"}
    /\ UNCHANGED <<window, redcnt, framecnt, buffer, frame, ghosts, orders>>

\* A payload too small, or a longer window that is not filled yet.
SendNothing(room) ==
    /\ Launched
    /\ IF flags # {} THEN room < InfoLen
                     ELSE Avail(room) <= 0 \/ (unsent < wl /\ fill = unsent)
    /\ UNCHANGED <<window, redcnt, framecnt, flags, buffer, frame, ghosts, orders>>

\* A frame of octets that have been cut off is made of memory outside the FIFO: what comes
\* of it is undefined, and not followed.
FromFifo(room) == Launched /\ flags = {} /\ Avail(room) > 0 /\ ~cut

\* addHdr: the octets that were sent move into the window.
Moved(u) == u > wl

Emit(sysc, redc, count) ==
    LET u == unsent + sysc
        s == u - wl
    IN /\ soff' = soff + sysc
       /\ IF Moved(u)
          THEN /\ fill' = fill - s /\ unsent' = wl
               /\ redcnt' = DiluteRedCnt(count, s)
               /\ fifo' = Shifted(s, fill - s)
          ELSE /\ unsent' = u /\ redcnt' = count
               /\ UNCHANGED <<fill, fifo>>
       /\ IF sysc + redc = 0
          THEN UNCHANGED <<frame, framecnt>>
          ELSE /\ frame' = [soff |-> soff, octets |-> [i \in 1 .. sysc |-> fifo[unsent + i - 1]]]
               /\ framecnt' = (framecnt + 1) % (pctxintv + 1)

\* Unsent octets in the redundancy area: they go first, without redundancy.
SendSpill(room) ==
    /\ FromFifo(room) /\ unsent < wl /\ fill > unsent
    /\ Emit(Least(Least(fill - unsent, Avail(room)), MaxSysc), 0, redcnt)
    /\ UNCHANGED <<window, flags, ghosts, orders>>

MaxRedc == Least(wl, Most(0, TargetRedCnt(wl, rr) - redcnt))
Redc(room) == Least(MaxRedc, Avail(room))
Sysc(room) ==
    IF MaxRedc > Avail(room) THEN 0
    ELSE Least(Least(fill - unsent, MaxSysc), Avail(room) - MaxRedc)

SendData(room) ==
    /\ FromFifo(room) /\ unsent >= wl
    /\ Emit(Sysc(room), Redc(room),
            IF Redc(room) = 0 THEN redcnt
            ELSE Least(TargetRedCnt(wl, rr), redcnt + Redc(room)))
    /\ UNCHANGED <<window, flags, ghosts, orders>>

Send(room) == SendInfo(room) \/ SendNothing(room) \/ SendSpill(room) \/ SendData(room)

\* modem_supervisor_update_task, after the uplink: again, or STREAMDONE.
PendFull == (fill > unsent /\ unsent >= wl) \/ flags # {}  \* mutant
PendTx == fill > unsent \/ flags # {}

Close ==
    /\ closing /\ closing' = FALSE
    /\ task' = (task \/ PendTx)
    /\ UNCHANGED <<window, redcnt, framecnt, flags, buffer, frame, ghosts, orders>>

-----------------------------------------------------------------------------
Host ==
    \/ \E rate \in Rates : StreamInit(rate)
    \/ \E data \in Payloads : AddRecord(data)

Server ==
    \/ \E w \in Wls : UpdateWindow(w)
    \/ \E r \in Rates, p \in Intervals : UpdateRates(r, p)
    \/ AskInfo \/ AckWindow

Supervisor == Close \/ \E room \in Rooms : Send(room)

Next == Host \/ Server \/ Supervisor

Spec == Init /\ [][Next]_vars

\* The engine goes on; the data rate gives, again and again, room for a whole frame;
\* the server acknowledges the windows it asks for.
Roomy == {room \in Rooms : room > InfoLen}
FairSpec ==
    /\ Spec
    /\ WF_vars(Close) /\ WF_vars(AckWindow)
    /\ SF_vars(\E room \in Roomy : Send(room))

-----------------------------------------------------------------------------
(* Properties *)

\* Every field of ROSE stays in its range; the marks of the FIFO do not wrap before a
\* shorter window has cut off octets.
TypeOK ==
    /\ wl \in Wls /\ rr \in Nat /\ redcnt \in Int
    /\ pctxintv \in Nat /\ framecnt \in Nat
    /\ flags \subseteq {"SINFO", "WLACK"}
    /\ soff \in Nat /\ {unsent, fill} \subseteq 0 .. Words - 1
    /\ ~cut => {unsent, fill} \subseteq Places
    /\ fifo \in [Places -> 0 .. Octets - 1]
    /\ task \in BOOLEAN /\ closing \in BOOLEAN /\ cut \in BOOLEAN
    /\ added \in Seq(0 .. Octets - 1)
    /\ orders \in 0 .. MaxOrders

\* The three areas keep their order: no record is written into the work area, where
\* ROSE_getData builds its redundancy, and the octets not sent lie below the free space -
\* until a window is made shorter by more octets than have been sent of a longer one.
Areas == ~cut => unsent <= fill /\ fill <= FreeEnd(wl)

\* No octet is lost, sent twice or sent under another label, whatever the lengths the
\* window takes: what the FIFO still holds is the end of the stream, and the fresh
\* octets of a frame are the ones its label (SOFFL) tells the server.  Only a window made
\* shorter before it was filled loses octets: no other step does.
InOrder ==
    /\ ~cut => /\ soff + (fill - unsent) = Len(added)
               /\ \A i \in unsent .. fill - 1 : fifo[i] = added[soff + i - unsent + 1]
    /\ \A i \in DOMAIN frame.octets : frame.octets[i] = added[frame.soff + i]

\* A server that reads the octets of a stream one by one: run counts the octets that are as
\* the host gave them up to the next one that is not, which ends the record (a tag) or else
\* stands for a tag of the host, unless it is the first of the record.
Unread == [run |-> 0, first |-> TRUE, record |-> <<>>, out |-> <<>>]
Reading(d, octet) ==
    IF d.run > 0
    THEN [d EXCEPT !.run = @ - 1, !.record = Append(@, octet)]
    ELSE IF octet = Tag
    THEN [Unread EXCEPT !.out = Append(d.out, d.record)]
    ELSE [run |-> ((octet - Tag) % Octets) - 1, first |-> FALSE,
          record |-> IF d.first THEN d.record ELSE Append(d.record, Tag), out |-> d.out]
Read(s) == LET after[n \in 0 .. Len(s)] ==
                  IF n = 0 THEN Unread ELSE Reading(after[n - 1], s[n])
           IN after[Len(s)]

\* The framing of the records can be undone: a server that has all the octets finds the
\* records of the host and nothing else, whatever tags they contain (ROSE_addRecord).
RecordsBack == Read(added) = [Unread EXCEPT !.out = records]

\* Everything the host has added is sent in the end, or given up with the stream, or cut off.
Drains == (soff < Len(added)) ~> (soff = Len(added) \/ cut)
=============================================================================
