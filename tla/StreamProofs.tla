---------------------------- MODULE StreamProofs ----------------------------
(***************************************************************************)
(* For every size of the FIFO, every set of window lengths, rates, payload *)
(* sizes and records: the areas of the FIFO keep their order and no octet  *)
(* of a stream is lost, sent twice or sent under another label, until the  *)
(* server asks for a window shorter by more octets than have been sent of  *)
(* the one in use; and, whatever it asks for, the octets give back the     *)
(* records they were made of.                                              *)
(***************************************************************************)
EXTENDS Stream, WellFoundedInduction, TLAPS

Octet == 0 .. Octets - 1

-----------------------------------------------------------------------------
(* Framing and arithmetic *)

\* A set of naturals has a least member: the next tag of a record exists.
LEMMA MinIn == ASSUME NEW S \in SUBSET Nat, S # {} PROVE Min(S) \in S
<1>. DEFINE R == {ss \in Nat \X Nat : ss[1] < ss[2]}
<1>1. IsWellFoundedOn(R, Nat)
  <2>1. R = OpToRel(<, Nat)
    BY DEF OpToRel
  <2>. QED  BY <2>1, NatLessThanWellFounded
<1>2. \E x \in S : \A y \in S : <<y, x>> \notin R
  <2>. HIDE DEF R
  <2>. QED  BY <1>1, WFMin
<1>3. PICK x \in S : \A y \in S : <<y, x>> \notin R
  BY <1>2
<1>4. ASSUME NEW y \in S PROVE x <= y
  <2>1. x \in Nat /\ y \in Nat /\ <<y, x>> \in Nat \X Nat
    OBVIOUS
  <2>2. y < x => <<y, x>> \in R
    BY <2>1
  <2>. QED  BY <1>3, <2>1, <2>2
<1>. QED  BY <1>4 DEF Min

\* ROSE_addRecord frames a record of n octets in n + 2 octets.
LEMMA EncodedIsSeq ==
    ASSUME NEW data \in Seq(Octet)
    PROVE  Encoded(data) \in Seq(Octet) /\ Len(Encoded(data)) = Len(data) + 2
<1>1. Octets \in Nat \ {0} /\ Tag \in Octet
  BY StreamAssumption DEF Octet
<1>2. ASSUME NEW j \in 0 .. Len(data) PROVE Distance(data, j) \in Int
  <2>. DEFINE S == {k \in j + 1 .. Len(data) + 1 : k = Len(data) + 1 \/ data[k] = Tag}
  <2>1. S \in SUBSET Nat /\ Len(data) + 1 \in S
    OBVIOUS
  <2>2. Min(S) \in S
    BY <2>1, MinIn
  <2>. QED  BY <2>2 DEF Distance, TagAfter
<1>3. ASSUME NEW p \in 1 .. Len(data) + 2 PROVE Encoded(data)[p] \in Octet
  <2>1. CASE p - 1 = Len(data) + 1
    BY <1>1, <2>1 DEF Encoded
  <2>2. CASE p - 1 # Len(data) + 1 /\ (p - 1 = 0 \/ data[p - 1] = Tag)
    <3>1. Distance(data, p - 1) \in Int
      BY <1>2, <2>2
    <3>2. (Tag + Distance(data, p - 1)) % Octets \in Octet
      BY <1>1, <3>1 DEF Octet
    <3>. QED  BY <2>2, <3>2 DEF Encoded
  <2>3. CASE p - 1 # Len(data) + 1 /\ ~(p - 1 = 0 \/ data[p - 1] = Tag)
    BY <2>3 DEF Encoded
  <2>. QED  BY <2>1, <2>2, <2>3
<1>4. Encoded(data) \in [1 .. Len(data) + 2 -> Octet]
  BY <1>3 DEF Encoded
<1>5. Len(data) + 2 \in Nat
  OBVIOUS
<1>. QED  BY <1>4, <1>5

\* A shorter window leaves a free space that does not end earlier.
LEMMA FreeEndGrows ==
    ASSUME NEW v \in Wls, NEW w \in Wls, v <= w
    PROVE  FreeEnd(v) \in Int /\ FreeEnd(w) \in Int /\ FreeEnd(w) <= FreeEnd(v)
                              /\ FreeEnd(w) < FifoSize
<1>1. v \in Nat /\ w \in Nat /\ RvecMin \in Nat \ {0} /\ FifoSize \in Nat
  BY StreamAssumption
<1>. DEFINE a == (v + 7) \div 8
            b == (w + 7) \div 8
<1>2. a \in Nat /\ b \in Nat /\ a <= b
  BY <1>1
<1>. HIDE DEF a, b
<1>3. /\ FreeEnd(v) = FifoSize - Most(RvecMin, a)
      /\ FreeEnd(w) = FifoSize - Most(RvecMin, b)
  BY DEF FreeEnd, RvecLen, a, b
<1>. QED  BY <1>1, <1>2, <1>3 DEF Most

LEMMA DilutedIsInt ==
    ASSUME NEW count \in Int, NEW n \in Int, wl \in Nat \ {0}
    PROVE  DiluteRedCnt(count, n) \in Int
<1>. DEFINE a == count * (wl - n)
<1>1. a \in Int
  OBVIOUS
<1>. HIDE DEF a
<1>2. \A k \in Int : k \div wl \in Int
  OBVIOUS
<1>3. Quotient(a, wl) \in Int
  BY <1>1, <1>2 DEF Quotient
<1>. QED  BY <1>3 DEF DiluteRedCnt, a

LEMMA TargetIsNat == ASSUME NEW w \in Nat, NEW r \in Nat PROVE TargetRedCnt(w, r) \in Nat
<1>1. w * r + 99 \in Nat
  OBVIOUS
<1>. QED  BY <1>1 DEF TargetRedCnt

-----------------------------------------------------------------------------
(* The inductive invariant of a stream of which nothing has been cut off: to the      *)
(* properties it adds that the octets not sent begin in the window or at its end, and *)
(* that the last frame lies behind the label.                                         *)

Types ==
    /\ wl \in Wls /\ rr \in Nat /\ redcnt \in Int
    /\ pctxintv \in Nat /\ framecnt \in Nat
    /\ flags \subseteq {"SINFO", "WLACK"}
    /\ soff \in Nat /\ unsent \in Places /\ fill \in Places
    /\ fifo \in [Places -> 0 .. Octets - 1]
    /\ task \in BOOLEAN /\ closing \in BOOLEAN
    /\ added \in Seq(0 .. Octets - 1)
    /\ orders \in 0 .. MaxOrders

Apart == unsent <= fill /\ fill <= FreeEnd(wl)

Ordered ==
    /\ soff + (fill - unsent) = Len(added)
    /\ \A i \in unsent .. fill - 1 : fifo[i] = added[soff + i - unsent + 1]
    /\ \A i \in DOMAIN frame.octets : frame.octets[i] = added[frame.soff + i]

Behind ==
    /\ frame.soff \in Nat
    /\ \E n \in Nat : DOMAIN frame.octets = 1 .. n /\ frame.soff + n <= soff

IInv == Types /\ Apart /\ unsent <= wl /\ Ordered /\ Behind

LEMMA Sizes ==
    /\ {FifoSize, RvecMin, MaxSysc, Octets, Words} \subseteq Nat \ {0}
    /\ DefaultWl \in Wls /\ Wls \subseteq Nat \ {0} /\ DefaultWl \in Nat \ {0}
    /\ FifoSize < Words /\ Rates \subseteq Nat /\ Intervals \subseteq Nat /\ Rooms \subseteq Nat
    /\ MaxOrders \in Nat
BY StreamAssumption

\* What a buffer keeps when nothing but the account and the tasks change.
LEMMA BufferKept ==
    ASSUME IInv, Types', UNCHANGED <<wl, buffer, frame, added>>
    PROVE  IInv'
BY DEF IInv, Apart, Ordered, Behind, buffer

-----------------------------------------------------------------------------
LEMMA InitHolds == Init => IInv
<1>. SUFFICES ASSUME Init PROVE IInv
  OBVIOUS
<1>. USE Sizes DEF Init
<1>1. Types
  <2>1. TargetRedCnt(DefaultWl, 110) \in Int
    BY TargetIsNat
  <2>2. fifo \in [Places -> 0 .. Octets - 1]
    OBVIOUS
  <2>3. /\ wl \in Wls /\ rr \in Nat /\ redcnt \in Int /\ pctxintv \in Nat
        /\ framecnt \in Nat /\ soff \in Nat /\ unsent \in Places /\ fill \in Places
        /\ orders \in 0 .. MaxOrders
    BY <2>1, StreamAssumption, FreeEndGrows DEF Places
  <2>4. flags \subseteq {"SINFO", "WLACK"} /\ added \in Seq(0 .. Octets - 1)
    OBVIOUS
  <2>5. task \in BOOLEAN /\ closing \in BOOLEAN
    BY Zenon
  <2>. QED  BY <2>2, <2>3, <2>4, <2>5, Zenon DEF Types
<1>2. Apart
  <2>1. FreeEnd(DefaultWl) \in Int
    BY FreeEndGrows
  <2>. QED  BY <2>1, StreamAssumption DEF Apart
<1>3. unsent <= wl
  OBVIOUS
<1>4. Ordered
  BY DEF Ordered
<1>5. Behind
  <2>1. DOMAIN frame.octets = 1 .. 0 /\ frame.soff + 0 <= soff
    OBVIOUS
  <2>. QED  BY <2>1 DEF Behind
<1>. QED  BY <1>1, <1>2, <1>3, <1>4, <1>5 DEF IInv

-----------------------------------------------------------------------------
(* One frame: the octets that were sent move into the window *)

LEMMA EmitKeeps ==
    ASSUME IInv, NEW sysc \in Nat, NEW redc \in Nat, NEW count \in Int,
           sysc <= fill - unsent, Emit(sysc, redc, count),
           UNCHANGED <<window, flags, ghosts, orders>>, task' \in BOOLEAN, closing' \in BOOLEAN
    PROVE  IInv'
<1>. DEFINE u == unsent + sysc
            s == u - wl
<1>1. /\ wl \in Nat \ {0} /\ unsent \in Nat /\ fill \in Nat /\ soff \in Nat
      /\ fifo \in [Places -> Octet] /\ added \in Seq(Octet)
      /\ framecnt \in Nat /\ pctxintv \in Nat /\ redcnt \in Int
  BY Sizes DEF IInv, Places, Types, Octet
<1>2. /\ unsent <= fill /\ unsent <= wl /\ fill < FifoSize
      /\ FifoSize \in Nat \ {0} /\ FreeEnd(wl) \in Int /\ fill <= FreeEnd(wl)
  BY Sizes, FreeEndGrows DEF IInv, Places, Apart, Types
<1>3. /\ soff + (fill - unsent) = Len(added)
      /\ \A i \in unsent .. fill - 1 : fifo[i] = added[soff + i - unsent + 1]
  BY DEF IInv, Ordered
<1>4. wl' = wl /\ added' = added
  BY DEF window, ghosts
<1>5. soff' = soff + sysc /\ soff' \in Nat
  BY <1>1 DEF Emit
<1>6. /\ unsent' \in Nat /\ fill' \in Nat /\ unsent' <= fill' /\ fill' <= fill
      /\ fill' - unsent' = fill - u /\ unsent' <= wl
      /\ redcnt' \in Int /\ fifo' \in [Places -> Octet]
      /\ \A i \in unsent' .. fill' - 1 : fifo'[i] = fifo[i - unsent' + u]
  <2>1. CASE Moved(u)
    <3>1. fill' = fill - s /\ unsent' = wl /\ redcnt' = DiluteRedCnt(count, s)
          /\ fifo' = Shifted(s, fill - s) /\ s \in Nat \ {0} /\ s <= fill
      BY <1>1, <1>2, <2>1 DEF Emit, Moved
    <3>2. redcnt' \in Int
      BY <1>1, <3>1, DilutedIsInt
    <3>3. fifo' \in [Places -> Octet]
      <4>1. ASSUME NEW i \in Places
            PROVE  (IF i < fill - s THEN fifo[i + s]
                    ELSE IF i < fill - s + s THEN 0 ELSE fifo[i]) \in Octet
        <5>1. 0 \in Octet
          BY Sizes DEF Octet
        <5>2. i < fill - s => i + s \in Places
          BY <1>1, <1>2, <3>1 DEF Places
        <5>. HIDE DEF s
        <5>. QED  BY <1>1, <5>1, <5>2
      <4>. HIDE DEF s
      <4>. QED  BY <3>1, <4>1 DEF Shifted
    <3>4. ASSUME NEW i \in unsent' .. fill' - 1 PROVE fifo'[i] = fifo[i - unsent' + u]
      <4>1. i \in Places /\ i < fill - s /\ i - unsent' + u = i + s
        BY <1>1, <1>2, <3>1 DEF Places
      <4>. HIDE DEF s, u
      <4>. QED  BY <3>1, <4>1 DEF Shifted
    <3>. HIDE DEF Moved
    <3>. QED  BY <1>1, <1>2, <3>1, <3>2, <3>3, <3>4
  <2>2. CASE ~Moved(u)
    <3>1. fill' = fill /\ unsent' = u /\ redcnt' = count /\ fifo' = fifo /\ u <= wl
      BY <1>1, <2>2 DEF Emit, Moved
    <3>. QED  BY <1>1, <1>2, <3>1
  <2>. QED  BY <2>1, <2>2
<1>7. Types'
  <2>1. framecnt' \in Nat
    BY <1>1 DEF Emit
  <2>2. wl' \in Wls /\ rr' \in Nat /\ pctxintv' \in Nat /\ orders' \in 0 .. MaxOrders
    BY DEF IInv, Types, window
  <2>3. flags' \subseteq {"SINFO", "WLACK"} /\ added' \in Seq(0 .. Octets - 1)
    BY DEF IInv, Types, ghosts
  <2>4. fifo' \in [Places' -> 0 .. Octets' - 1]
    BY <1>6 DEF Octet
  <2>5. task' \in BOOLEAN /\ closing' \in BOOLEAN
    BY Zenon
  <2>6. redcnt' \in Int /\ soff' \in Nat /\ unsent' \in Places' /\ fill' \in Places'
    <3>1. fill' \in Nat /\ unsent' \in Nat /\ unsent' <= fill' /\ fill' <= fill
      BY <1>6
    <3>2. unsent' \in 0 .. FifoSize - 1 /\ fill' \in 0 .. FifoSize - 1
      BY <1>1, <1>2, <3>1
    <3>. QED  BY <1>5, <1>6, <3>2 DEF Places
  <2>. QED  BY <2>1, <2>2, <2>3, <2>4, <2>5, <2>6, Zenon DEF Types
<1>8. Apart' /\ unsent' <= wl'
  BY <1>1, <1>2, <1>4, <1>6 DEF Apart
<1>9. Ordered'
  <2>. DEFINE v == unsent'
              e == fill'
  <2>. HIDE DEF s
  <2>0. v \in Nat /\ e \in Nat /\ e - v = fill - u /\ u \in Nat /\ u = unsent + sysc
    <3>1. u \in Nat /\ u = unsent + sysc
      BY <1>1
    <3>. HIDE DEF u
    <3>2. v \in Nat /\ e \in Nat /\ e - v = fill - u
      BY <1>6
    <3>. QED  BY <3>1, <3>2
  <2>. HIDE DEF u, v, e
  <2>1. soff' + (fill' - unsent') = Len(added')
    <3>1. soff + sysc + (e - v) = soff + (fill - unsent)
      BY <1>1, <2>0
    <3>. QED  BY <1>3, <1>4, <1>5, <3>1 DEF e, v
  <2>2. ASSUME NEW i \in unsent' .. fill' - 1
        PROVE  fifo'[i] = added'[soff' + i - unsent' + 1]
    <3>1. i \in v .. e - 1
      BY DEF e, v
    <3>2. /\ i - v + u \in unsent .. fill - 1
          /\ soff + (i - v + u) - unsent + 1 = soff + sysc + i - v + 1
      BY <1>1, <2>0, <3>1
    <3>3. fifo[i - v + u] = added[soff + (i - v + u) - unsent + 1]
      BY <1>3, <3>2
    <3>4. fifo'[i] = fifo[i - v + u]
      BY <1>6 DEF v
    <3>. QED  BY <1>4, <1>5, <3>2, <3>3, <3>4 DEF v
  <2>3. ASSUME NEW i \in DOMAIN frame'.octets
        PROVE  frame'.octets[i] = added'[frame'.soff + i]
    <3>1. CASE sysc + redc = 0
      <4>1. frame' = frame
        BY <3>1 DEF Emit
      <4>. QED  BY <1>4, <2>3, <4>1 DEF IInv, Ordered
    <3>2. CASE sysc + redc # 0
      <4>1. frame' = [soff |-> soff, octets |-> [k \in 1 .. sysc |-> fifo[unsent + k - 1]]]
        BY <3>2 DEF Emit
      <4>2. i \in 1 .. sysc /\ frame'.octets[i] = fifo[unsent + i - 1] /\ frame'.soff = soff
        BY <2>3, <4>1
      <4>3. /\ unsent + i - 1 \in unsent .. fill - 1
            /\ soff + (unsent + i - 1) - unsent + 1 = soff + i
        BY <1>1, <4>2
      <4>. QED  BY <1>3, <1>4, <4>2, <4>3
    <3>. QED  BY <3>1, <3>2
  <2>. QED  BY <2>1, <2>2, <2>3 DEF Ordered
<1>10. Behind'
  <2>1. CASE sysc + redc = 0
    <3>1. frame' = frame
      BY <2>1 DEF Emit
    <3>. QED  BY <1>1, <1>5, <3>1 DEF IInv, Behind
  <2>2. CASE sysc + redc # 0
    <3>1. frame' = [soff |-> soff, octets |-> [k \in 1 .. sysc |-> fifo[unsent + k - 1]]]
      BY <2>2 DEF Emit
    <3>2. DOMAIN frame'.octets = 1 .. sysc /\ frame'.soff = soff
      BY <3>1
    <3>. QED  BY <1>1, <1>5, <3>2 DEF Behind
  <2>. QED  BY <2>1, <2>2
<1>. QED  BY <1>7, <1>8, <1>9, <1>10 DEF IInv
-----------------------------------------------------------------------------
(* The host and the server *)

LEMMA StreamInitKeeps ==
    ASSUME closing \in BOOLEAN, orders \in 0 .. MaxOrders, NEW rate \in Rates, StreamInit(rate)
    PROVE  IInv'
<1>. USE Sizes DEF StreamInit
<1>1. Types'
  <2>1. TargetRedCnt(DefaultWl, 110) \in Int
    BY TargetIsNat
  <2>2. fifo' \in [Places' -> 0 .. Octets' - 1]
    BY DEF Places
  <2>3. /\ wl' \in Wls /\ rr' \in Nat /\ redcnt' \in Int /\ pctxintv' \in Nat
        /\ framecnt' \in Nat /\ soff' \in Nat /\ unsent' \in Places' /\ fill' \in Places'
    BY <2>1, StreamAssumption, FreeEndGrows DEF Places
  <2>4. flags' \subseteq {"SINFO", "WLACK"} /\ added' \in Seq(0 .. Octets - 1)
    OBVIOUS
  <2>5. orders' \in 0 .. MaxOrders
    OBVIOUS
  <2>6. task' \in BOOLEAN /\ closing' \in BOOLEAN
    BY Zenon
  <2>. QED  BY <2>2, <2>3, <2>4, <2>5, <2>6, Zenon DEF Types
<1>2. Apart'
  <2>1. FreeEnd(DefaultWl) \in Int
    BY FreeEndGrows
  <2>. QED  BY <2>1, StreamAssumption DEF Apart
<1>3. (unsent <= wl)'
  OBVIOUS
<1>4. Ordered'
  BY DEF Ordered
<1>5. Behind'
  <2>1. DOMAIN frame'.octets = 1 .. 0 /\ frame'.soff + 0 <= soff' /\ frame'.soff \in Nat
    OBVIOUS
  <2>. QED  BY <2>1 DEF Behind
<1>. QED  BY <1>1, <1>2, <1>3, <1>4, <1>5 DEF IInv

LEMMA AddRecordKeeps == ASSUME IInv, NEW data \in Payloads, AddRecord(data) PROVE IInv'
<1>. DEFINE e == Encoded(data)
            n == Len(data) + 2
<1>1. e \in Seq(Octet) /\ Len(e) = n /\ n \in Nat
  BY StreamAssumption, EncodedIsSeq DEF Octet
<1>2. /\ fill \in Nat /\ unsent \in Nat /\ soff \in Nat /\ unsent <= fill
      /\ FreeEnd(wl) \in Int /\ FreeEnd(wl) < FifoSize /\ FifoSize \in Nat
      /\ fifo \in [Places -> Octet] /\ added \in Seq(Octet)
      /\ soff + (fill - unsent) = Len(added)
      /\ \A i \in unsent .. fill - 1 : fifo[i] = added[soff + i - unsent + 1]
      /\ \A i \in DOMAIN frame.octets : frame.octets[i] = added[frame.soff + i]
  BY Sizes, FreeEndGrows DEF IInv, Places, Types, Apart, Ordered, Octet
<1>. HIDE DEF e
<1>b. fill <= FreeEnd(wl) /\ Words \in Nat \ {0} /\ FifoSize < Words
  BY Sizes DEF IInv, Apart
<1>m. (FreeEnd(wl) - fill) % Words = FreeEnd(wl) - fill
  <2>1. FreeEnd(wl) - fill \in 0 .. Words - 1
    BY <1>2, <1>b
  <2>. QED  BY <1>b, <2>1
<1>o. fill + n <= FreeEnd(wl)
  BY <1>1, <1>2, <1>m DEF AddRecord, Overrun
<1>r. (fill + n) % Words = fill + n
  <2>. HIDE DEF n
  <2>1. fill + n \in 0 .. Words - 1
    BY <1>1, <1>2, <1>b, <1>o
  <2>. QED  BY <1>b, <2>1
<1>3. /\ fill' = fill + n /\ fill + n <= FreeEnd(wl) /\ added' = added \o e
      /\ fifo' = [i \in Places |-> IF i \in fill .. fill + n - 1 THEN e[i - fill + 1] ELSE fifo[i]]
      /\ UNCHANGED <<wl, soff, unsent, frame>>
  BY <1>1, <1>o, <1>r DEF AddRecord, window, e
<1>. HIDE DEF n
<1>4. fifo' \in [Places -> Octet]
  <2>1. ASSUME NEW i \in Places
        PROVE  (IF i \in fill .. fill + n - 1 THEN e[i - fill + 1] ELSE fifo[i]) \in Octet
    <3>1. i \in fill .. fill + n - 1 => i - fill + 1 \in 1 .. Len(e)
      BY <1>1, <1>2
    <3>. QED  BY <1>1, <1>2, <3>1
  <2>. QED  BY <1>3, <2>1
<1>5. added' \in Seq(Octet) /\ Len(added') = Len(added) + n
  <2>1. added \in Seq(Octet) /\ e \in Seq(Octet) /\ added' = added \o e
    BY <1>1, <1>2, <1>3
  <2>2. added \o e \in Seq(Octet) /\ Len(added \o e) = Len(added) + Len(e)
    BY <2>1
  <2>. QED  BY <1>1, <2>1, <2>2
<1>6. /\ \A k \in 1 .. Len(added) : added'[k] = added[k]
      /\ \A k \in 1 .. n : added'[Len(added) + k] = e[k]
  BY <1>1, <1>2, <1>3
<1>7. Types'
  <2>1. /\ wl' \in Wls /\ rr' \in Nat /\ redcnt' \in Int /\ pctxintv' \in Nat
        /\ framecnt' \in Nat /\ soff' \in Nat /\ unsent' \in Places' /\ fill' \in Places'
        /\ orders' \in 0 .. MaxOrders
    <3>1. unsent' \in Places' /\ fill' \in Places'
      BY <1>1, <1>2, <1>3 DEF Places
    <3>. QED  BY <1>3, <3>1 DEF AddRecord, IInv, Types, window
  <2>2. flags' \subseteq {"SINFO", "WLACK"}
    BY DEF AddRecord, IInv, Types
  <2>3. fifo' \in [Places' -> 0 .. Octets' - 1] /\ added' \in Seq(0 .. Octets' - 1)
    BY <1>4, <1>5 DEF Octet, Places
  <2>4. task' \in BOOLEAN /\ closing' \in BOOLEAN
    <3>1. closing \in BOOLEAN
      BY Zenon DEF IInv, Types
    <3>. QED  BY <3>1, Zenon DEF AddRecord
  <2>. QED  BY <2>1, <2>2, <2>3, <2>4, Zenon DEF Types
<1>8. Apart' /\ (unsent <= wl)'
  <2>1. unsent <= wl
    BY DEF IInv
  <2>. QED  BY <1>1, <1>2, <1>3, <2>1 DEF Apart
<1>9. Ordered'
  <2>1. soff' + (fill' - unsent') = Len(added')
    <3>1. soff + ((fill + n) - unsent) = Len(added) + n
      BY <1>1, <1>2
    <3>. QED  BY <1>3, <1>5, <3>1
  <2>2. ASSUME NEW i \in unsent .. fill + n - 1
        PROVE  fifo'[i] = added'[soff + i - unsent + 1]
    <3>1. i \in Places
      BY <1>1, <1>2, <1>3 DEF Places
    <3>2. CASE i < fill
      <4>1. /\ i \in unsent .. fill - 1 /\ soff + i - unsent + 1 \in 1 .. Len(added)
            /\ ~(i \in fill .. fill + n - 1)
        BY <1>1, <1>2, <3>2
      <4>. QED  BY <1>2, <1>3, <1>6, <3>1, <4>1
    <3>3. CASE ~(i < fill)
      <4>1. /\ i \in fill .. fill + n - 1 /\ i - fill + 1 \in 1 .. n
            /\ soff + i - unsent + 1 = Len(added) + (i - fill + 1)
        BY <1>1, <1>2, <3>3
      <4>. QED  BY <1>3, <1>6, <3>1, <4>1
    <3>. QED  BY <3>2, <3>3
  <2>3. ASSUME NEW i \in DOMAIN frame.octets PROVE frame.octets[i] = added'[frame.soff + i]
    <3>1. PICK m \in Nat : DOMAIN frame.octets = 1 .. m /\ frame.soff + m <= soff
                           /\ frame.soff \in Nat
      BY DEF IInv, Behind
    <3>2. frame.soff + i \in 1 .. Len(added)
      BY <1>2, <3>1
    <3>. QED  BY <1>2, <1>6, <3>2
  <2>4. fill' = fill + n /\ soff' = soff /\ unsent' = unsent /\ frame' = frame
    BY <1>3
  <2>5. ASSUME NEW i \in unsent' .. fill' - 1
        PROVE  fifo'[i] = added'[soff' + i - unsent' + 1]
    <3>1. i \in unsent .. fill + n - 1
      BY <1>1, <1>2, <2>4
    <3>2. fifo'[i] = added'[soff + i - unsent + 1]
      BY <2>2, <3>1
    <3>. QED  BY <2>4, <3>2
  <2>6. \A i \in DOMAIN frame'.octets : frame'.octets[i] = added'[frame'.soff + i]
    BY <2>3, <2>4
  <2>. QED  BY <2>1, <2>5, <2>6 DEF Ordered
<1>10. Behind'
  BY <1>3 DEF IInv, Behind
<1>. QED  BY <1>7, <1>8, <1>9, <1>10 DEF IInv

\* As long as more octets have been sent than the window loses, what is not sent moves as
\* a whole.
Cuts(w) == Fits(w) /\ wl - w > unsent

LEMMA UpdateWindowKeeps ==
    ASSUME IInv, NEW w \in Wls, ~Cuts(w), UpdateWindow(w) PROVE IInv'
<1>1. /\ w \in Nat \ {0} /\ wl \in Wls /\ wl \in Nat \ {0} /\ fill \in Nat /\ unsent \in Nat
      /\ redcnt \in Int /\ unsent <= fill /\ unsent <= wl /\ fill <= FreeEnd(wl)
      /\ FreeEnd(wl) \in Int /\ FreeEnd(w) \in Int /\ FreeEnd(wl) < FifoSize
      /\ FifoSize \in Nat /\ Words \in Nat \ {0} /\ FifoSize < Words
      /\ fifo \in [Places -> Octet] /\ soff \in Nat
  BY Sizes, FreeEndGrows DEF IInv, Places, Types, Apart, Octet
<1>2. /\ UNCHANGED <<soff, frame, added, framecnt, rr, pctxintv, task, closing>>
      /\ orders' \in 0 .. MaxOrders /\ flags' \subseteq {"SINFO", "WLACK"}
  <2>1. UNCHANGED <<soff, frame, added, framecnt, rr, pctxintv, task, closing>>
    BY DEF UpdateWindow, Order, ghosts
  <2>2. orders' \in 0 .. MaxOrders
    BY Sizes DEF UpdateWindow, Order, IInv, Types
  <2>3. flags' = flags \/ flags' = flags \union {"WLACK"}
    BY DEF UpdateWindow, SetWindow
  <2>. QED  BY <2>1, <2>2, <2>3 DEF IInv, Types
<1>3. ASSUME wl' \in Wls, unsent' \in Places, fill' \in Places, redcnt' \in Int,
             fifo' \in [Places -> Octet]
      PROVE  Types'
  <2>1. /\ wl' \in Wls /\ rr' \in Nat /\ redcnt' \in Int /\ pctxintv' \in Nat
        /\ framecnt' \in Nat /\ soff' \in Nat /\ unsent' \in Places' /\ fill' \in Places'
        /\ orders' \in 0 .. MaxOrders
    BY <1>2, <1>3 DEF IInv, Types, Places
  <2>2. added' \in Seq(0 .. Octets' - 1)
    BY <1>2 DEF IInv, Types
  <2>3. fifo' \in [Places' -> 0 .. Octets' - 1]
    BY <1>3 DEF Octet, Places
  <2>4. task' \in BOOLEAN /\ closing' \in BOOLEAN
    <3>1. task \in BOOLEAN /\ closing \in BOOLEAN
      BY Zenon DEF IInv, Types
    <3>. QED  BY <1>2, <3>1, Zenon
  <2>. QED  BY <1>2, <2>1, <2>2, <2>3, <2>4, Zenon DEF Types
<1>4. CASE ~Fits(w)
  <2>1. UNCHANGED <<wl, redcnt, unsent, fill, fifo>>
    BY <1>4 DEF UpdateWindow, SetWindow
  <2>2. Types'
    BY <1>1, <1>3, <2>1 DEF Places
  <2>. QED  BY <1>2, <2>1, <2>2, BufferKept DEF buffer
<1>5. CASE Fits(w) /\ ~(w < wl)
  <2>1. wl' = w /\ UNCHANGED <<redcnt, unsent, fill, fifo>> /\ fill <= FreeEnd(w)
    BY <1>5 DEF UpdateWindow, SetWindow, Fits
  <2>2. Types'
    BY <1>1, <1>3, <2>1 DEF Places
  <2>3. Apart' /\ (unsent <= wl)'
    BY <1>1, <1>5, <2>1 DEF Apart
  <2>4. Ordered' /\ Behind'
    BY <1>2, <2>1 DEF IInv, Ordered, Behind
  <2>. QED  BY <2>2, <2>3, <2>4 DEF IInv
<1>6. CASE Fits(w) /\ w < wl
  <2>. DEFINE s == wl - w
  <2>1. s \in Nat \ {0} /\ s <= unsent /\ s <= fill
    BY <1>1, <1>6 DEF Cuts
  <2>2. (fill - s) % Words = fill - s /\ (unsent - s) % Words = unsent - s
    <3>. HIDE DEF s
    <3>1. fill - s \in 0 .. Words - 1 /\ unsent - s \in 0 .. Words - 1
      BY <1>1, <2>1
    <3>. QED  BY <1>1, <3>1
  <2>3. /\ wl' = w /\ fill' = fill - s /\ unsent' = unsent - s
        /\ fifo' = Shifted(s, fill - s) /\ redcnt' = DiluteRedCnt(redcnt, s)
    BY <1>1, <1>6, <2>1, <2>2 DEF UpdateWindow, SetWindow
  <2>. HIDE DEF s
  <2>4. redcnt' \in Int
    BY <1>1, <2>1, <2>3, DilutedIsInt
  <2>5. fifo' \in [Places -> Octet]
    <3>1. ASSUME NEW i \in Places
          PROVE  (IF i < fill - s THEN fifo[i + s]
                  ELSE IF i < fill - s + s THEN 0 ELSE fifo[i]) \in Octet
      <4>1. 0 \in Octet
        BY Sizes DEF Octet
      <4>2. i < fill - s => i + s \in Places
        BY <1>1, <2>1 DEF Places
      <4>. QED  BY <1>1, <4>1, <4>2
    <3>. QED  BY <2>3, <3>1 DEF Shifted
  <2>6. Types'
    BY Sizes, <1>1, <1>3, <2>1, <2>3, <2>4, <2>5 DEF Places
  <2>7. Apart' /\ (unsent <= wl)'
    <3>1. w <= wl /\ FreeEnd(wl) <= FreeEnd(w)
      BY <1>1, <1>6, FreeEndGrows
    <3>2. unsent - s <= w
      BY <1>1, <2>1 DEF s
    <3>. QED  BY <1>1, <2>1, <2>3, <3>1, <3>2 DEF Apart
  <2>8. Ordered'
    <3>1. soff + (fill - unsent) = Len(added)
          /\ \A i \in unsent .. fill - 1 : fifo[i] = added[soff + i - unsent + 1]
      BY DEF IInv, Ordered
    <3>2. soff' + (fill' - unsent') = Len(added')
      <4>1. (fill - s) - (unsent - s) = fill - unsent
        BY <1>1, <2>1
      <4>. QED  BY <1>2, <2>3, <3>1, <4>1
    <3>3. ASSUME NEW i \in unsent' .. fill' - 1
          PROVE  fifo'[i] = added'[soff' + i - unsent' + 1]
      <4>1. i \in unsent - s .. fill - s - 1
        BY <2>3
      <4>2. /\ i \in Places /\ i < fill - s /\ i + s \in unsent .. fill - 1
            /\ soff + (i + s) - unsent + 1 = soff + i - (unsent - s) + 1
        BY <1>1, <2>1, <4>1 DEF Places
      <4>3. fifo'[i] = fifo[i + s]
        BY <2>3, <4>2 DEF Shifted
      <4>4. fifo[i + s] = added[soff + (i + s) - unsent + 1]
        BY <3>1, <4>2
      <4>. QED  BY <1>2, <2>3, <4>2, <4>3, <4>4
    <3>4. \A i \in DOMAIN frame'.octets : frame'.octets[i] = added'[frame'.soff + i]
      BY <1>2 DEF IInv, Ordered
    <3>. QED  BY <3>2, <3>3, <3>4 DEF Ordered
  <2>9. Behind'
    BY <1>2 DEF IInv, Behind
  <2>. QED  BY <2>6, <2>7, <2>8, <2>9 DEF IInv
<1>. QED  BY <1>4, <1>5, <1>6
-----------------------------------------------------------------------------
(* The task and the rest of the server: the buffer stays, or one frame goes *)

LEMMA RestKeeps ==
    ASSUME IInv, UNCHANGED <<wl, redcnt, framecnt, buffer, frame, ghosts>>,
           rr' \in Nat, pctxintv' \in Nat, flags' \subseteq {"SINFO", "WLACK"},
           orders' \in 0 .. MaxOrders, task' \in BOOLEAN, closing' \in BOOLEAN
    PROVE  IInv'
<1>1. Types'
  <2>1. /\ wl' \in Wls /\ rr' \in Nat /\ redcnt' \in Int /\ pctxintv' \in Nat
        /\ framecnt' \in Nat /\ soff' \in Nat /\ unsent' \in Places' /\ fill' \in Places'
    BY DEF IInv, Types, buffer
  <2>2. fifo' \in [Places' -> 0 .. Octets' - 1] /\ added' \in Seq(0 .. Octets' - 1)
    BY DEF IInv, Types, buffer, ghosts, Places
  <2>3. task' \in BOOLEAN /\ closing' \in BOOLEAN
    BY Zenon
  <2>. QED  BY <2>1, <2>2, <2>3, Zenon DEF Types
<1>2. UNCHANGED <<wl, buffer, frame, added>>
  BY DEF ghosts
<1>. QED  BY <1>1, <1>2, BufferKept

LEMMA Booleans == ASSUME Types PROVE task \in BOOLEAN /\ closing \in BOOLEAN
BY Zenon DEF Types

LEMMA OrdersKeep ==
    ASSUME IInv, (\E r \in Rates, p \in Intervals : UpdateRates(r, p)) \/ AskInfo \/ AckWindow
    PROVE  IInv'
<1>1. UNCHANGED <<wl, redcnt, framecnt, buffer, frame, ghosts, task, closing>>
  BY DEF UpdateRates, AskInfo, AckWindow, Order, window, buffer, ghosts
<1>2. rr' \in Nat /\ pctxintv' \in Nat
  BY Sizes DEF UpdateRates, AskInfo, AckWindow, window, IInv, Types
<1>3. flags' \subseteq {"SINFO", "WLACK"}
  BY DEF UpdateRates, AskInfo, AckWindow, IInv, Types
<1>4. orders' \in 0 .. MaxOrders
  BY Sizes DEF UpdateRates, AskInfo, AckWindow, Order, IInv, Types
<1>5. task' \in BOOLEAN /\ closing' \in BOOLEAN
  <2>1. task \in BOOLEAN /\ closing \in BOOLEAN
    BY Booleans DEF IInv
  <2>. QED  BY <1>1, <2>1, Zenon
<1>. QED  BY <1>1, <1>2, <1>3, <1>4, <1>5, RestKeeps

LEMMA CloseKeeps == ASSUME IInv, Close PROVE IInv'
<1>1. UNCHANGED <<wl, redcnt, framecnt, buffer, frame, ghosts, rr, pctxintv, flags, orders>>
  BY DEF Close, window
<1>2. rr' \in Nat /\ pctxintv' \in Nat /\ flags' \subseteq {"SINFO", "WLACK"}
      /\ orders' \in 0 .. MaxOrders
  BY <1>1 DEF IInv, Types
<1>3. task' \in BOOLEAN /\ closing' \in BOOLEAN
  BY Zenon DEF Close
<1>. QED  BY <1>1, <1>2, <1>3, RestKeeps

LEMMA SendKeeps == ASSUME IInv, NEW room \in Rooms, Send(room) PROVE IInv'
<1>1. ASSUME Launched PROVE task' \in BOOLEAN /\ closing' \in BOOLEAN
  BY <1>1, Zenon DEF Launched
<1>2. CASE SendInfo(room) \/ SendNothing(room)
  <2>1. UNCHANGED <<wl, redcnt, framecnt, buffer, frame, ghosts, rr, pctxintv, orders>>
    BY <1>2 DEF SendInfo, SendNothing, window
  <2>2. rr' \in Nat /\ pctxintv' \in Nat /\ orders' \in 0 .. MaxOrders
    BY <2>1 DEF IInv, Types
  <2>3. flags' \subseteq {"SINFO", "WLACK"}
    BY <1>2 DEF SendInfo, SendNothing, IInv, Types
  <2>4. Launched
    BY <1>2 DEF SendInfo, SendNothing
  <2>. QED  BY <1>1, <2>1, <2>2, <2>3, <2>4, RestKeeps
<1>3. /\ room \in Nat /\ Avail(room) \in Int /\ MaxSysc \in Nat \ {0} /\ wl \in Nat /\ rr \in Nat
      /\ fill \in Nat /\ unsent \in Nat /\ redcnt \in Int /\ unsent <= fill
  BY Sizes DEF IInv, Places, Types, Apart, Avail, Context, HdrLen, PctxLen
<1>4. TargetRedCnt(wl, rr) \in Nat
  BY <1>3, TargetIsNat
<1>5. CASE SendSpill(room)
  <2>. DEFINE c == Least(Least(fill - unsent, Avail(room)), MaxSysc)
  <2>1. c \in Nat /\ c <= fill - unsent
    BY <1>3, <1>5 DEF SendSpill, FromFifo, Least
  <2>2. Emit(c, 0, redcnt) /\ Launched /\ UNCHANGED <<window, flags, ghosts, orders>>
    BY <1>5 DEF SendSpill, FromFifo
  <2>. HIDE DEF c
  <2>. QED  BY <1>1, <1>3, <2>1, <2>2, EmitKeeps
<1>6. CASE SendData(room)
  <2>. DEFINE count == IF Redc(room) = 0 THEN redcnt
                       ELSE Least(TargetRedCnt(wl, rr), redcnt + Redc(room))
  <2>1. Avail(room) > 0
    BY <1>6 DEF SendData, FromFifo
  <2>2. MaxRedc \in Nat
    BY <1>3, <1>4 DEF MaxRedc, Least, Most
  <2>3. Redc(room) \in Nat
    BY <1>3, <2>1, <2>2 DEF Redc, Least
  <2>4. Sysc(room) \in Nat /\ Sysc(room) <= fill - unsent
    BY <1>3, <2>1, <2>2 DEF Sysc, Least
  <2>5. count \in Int
    BY <1>3, <1>4, <2>3 DEF Least
  <2>6. Emit(Sysc(room), Redc(room), count) /\ Launched
        /\ UNCHANGED <<window, flags, ghosts, orders>>
    BY <1>6 DEF SendData, FromFifo
  <2>. HIDE DEF count
  <2>. QED  BY <1>1, <2>3, <2>4, <2>5, <2>6, EmitKeeps
<1>. QED  BY <1>2, <1>5, <1>6 DEF Send

LEMMA StepKeeps ==
    ASSUME IInv, [Next]_vars, ~\E w \in Wls : UpdateWindow(w) /\ Cuts(w)
    PROVE  IInv'
<1>1. CASE UNCHANGED vars
  <2>1. UNCHANGED <<wl, redcnt, framecnt, buffer, frame, ghosts, rr, pctxintv, flags, orders,
                    task, closing>>
    BY <1>1 DEF vars, window
  <2>2. rr' \in Nat /\ pctxintv' \in Nat /\ flags' \subseteq {"SINFO", "WLACK"}
        /\ orders' \in 0 .. MaxOrders
    BY <2>1 DEF IInv, Types
  <2>3. task' \in BOOLEAN /\ closing' \in BOOLEAN
    <3>1. task \in BOOLEAN /\ closing \in BOOLEAN
      BY Booleans DEF IInv
    <3>. QED  BY <2>1, <3>1, Zenon
  <2>. QED  BY <2>1, <2>2, <2>3, RestKeeps
<1>2. CASE Host
  <2>1. closing \in BOOLEAN
    BY Booleans DEF IInv
  <2>2. orders \in 0 .. MaxOrders
    BY DEF IInv, Types
  <2>. QED  BY <1>2, <2>1, <2>2, StreamInitKeeps, AddRecordKeeps DEF Host
<1>3. CASE Server
  BY <1>3, UpdateWindowKeeps, OrdersKeep DEF Server
<1>4. CASE Supervisor
  BY <1>4, CloseKeeps, SendKeeps DEF Supervisor
<1>. QED  BY <1>1, <1>2, <1>3, <1>4 DEF Next

-----------------------------------------------------------------------------
(* What still holds of a stream of which octets have been cut off *)

Loose ==
    /\ wl \in Wls /\ rr \in Nat /\ redcnt \in Int
    /\ pctxintv \in Nat /\ framecnt \in Nat
    /\ flags \subseteq {"SINFO", "WLACK"}
    /\ unsent \in 0 .. Words - 1 /\ fill \in 0 .. Words - 1
    /\ fifo \in [Places -> Octet]
    /\ orders \in 0 .. MaxOrders

Flags == task \in BOOLEAN /\ closing \in BOOLEAN

\* The octets of the last frame are the ones its label says.
Labelled ==
    /\ soff \in Nat /\ added \in Seq(Octet) /\ soff <= Len(added)
    /\ Behind
    /\ \A i \in DOMAIN frame.octets : frame.octets[i] = added[frame.soff + i]

LEMMA IInvGives == IInv => Loose /\ Flags /\ Labelled
<1>. SUFFICES ASSUME IInv PROVE Loose /\ Flags /\ Labelled
  OBVIOUS
<1>1. Loose
  BY Sizes DEF IInv, Types, Loose, Places, Octet
<1>2. Flags
  BY Booleans DEF IInv, Flags
<1>3. soff <= Len(added)
  <2>1. soff \in Nat /\ unsent \in Nat /\ fill \in Nat /\ unsent <= fill
        /\ soff + (fill - unsent) = Len(added)
    BY Sizes DEF IInv, Types, Places, Apart, Ordered
  <2>. QED  BY <2>1
<1>. QED  BY <1>1, <1>2, <1>3 DEF IInv, Types, Labelled, Ordered, Octet

LEMMA FlagsStep == ASSUME Flags, [Next]_vars PROVE Flags'
<1>1. ASSUME Flags, UNCHANGED <<task, closing>> PROVE Flags'
  BY <1>1, Zenon DEF Flags
<1>2. ASSUME NEW room \in Rooms, Send(room) PROVE Flags'
  BY <1>2, Zenon DEF Flags, Send, SendInfo, SendNothing, SendSpill, SendData, FromFifo, Launched
<1>3. CASE Close
  BY <1>3, Zenon DEF Flags, Close
<1>4. CASE Host
  BY <1>4, Zenon DEF Flags, Host, StreamInit, AddRecord
<1>5. CASE Server \/ UNCHANGED vars
  <2>1. UNCHANGED <<task, closing>>
    BY <1>5 DEF Server, UpdateWindow, UpdateRates, AskInfo, AckWindow, Order, vars
  <2>. QED  BY <1>1, <2>1
<1>. QED  BY <1>2, <1>3, <1>4, <1>5 DEF Next, Supervisor

\* A window may be cut as its server likes: the marks wrap, and stay in their 16 bits.
LEMMA LooseWindow == ASSUME Loose, NEW w \in Wls, UpdateWindow(w) PROVE Loose'
<1>1. /\ UNCHANGED <<framecnt, rr, pctxintv>> /\ orders' \in 0 .. MaxOrders
      /\ flags' \subseteq {"SINFO", "WLACK"}
  <2>1. UNCHANGED <<framecnt, rr, pctxintv>>
    BY DEF UpdateWindow, Order
  <2>2. orders' \in 0 .. MaxOrders
    BY Sizes DEF UpdateWindow, Order, Loose
  <2>3. flags' = flags \/ flags' = flags \union {"WLACK"}
    BY DEF UpdateWindow, SetWindow
  <2>. QED  BY <2>1, <2>2, <2>3 DEF Loose
<1>2. ASSUME wl' \in Wls, unsent' \in 0 .. Words - 1, fill' \in 0 .. Words - 1, redcnt' \in Int,
             fifo' \in [Places -> Octet]
      PROVE  Loose'
  BY <1>1, <1>2 DEF Loose, Places, Octet
<1>3. CASE ~(Fits(w) /\ w < wl)
  BY <1>2, <1>3 DEF UpdateWindow, SetWindow, Loose
<1>4. CASE Fits(w) /\ w < wl
  <2>. DEFINE s == wl - w
  <2>1. /\ s \in Nat \ {0} /\ wl \in Nat \ {0} /\ fill \in Nat /\ unsent \in Nat /\ redcnt \in Int
        /\ FreeEnd(w) \in Int /\ FreeEnd(w) < FifoSize /\ fill <= FreeEnd(w)
        /\ FifoSize \in Nat /\ Words \in Nat \ {0}
    BY Sizes, FreeEndGrows, <1>4 DEF Loose, Fits
  <2>2. /\ wl' = w /\ fill' = (fill - s) % Words /\ unsent' = (unsent - s) % Words
        /\ fifo' = (IF s > fill THEN fifo ELSE Shifted(s, fill - s))
        /\ redcnt' = DiluteRedCnt(redcnt, s)
    BY <1>4 DEF UpdateWindow, SetWindow
  <2>. HIDE DEF s
  <2>3. redcnt' \in Int
    BY <2>1, <2>2, DilutedIsInt
  <2>4. fill' \in 0 .. Words - 1 /\ unsent' \in 0 .. Words - 1
    BY <2>1, <2>2
  <2>5. fifo' \in [Places -> Octet]
    <3>1. CASE s > fill
      BY <2>2, <3>1 DEF Loose
    <3>2. CASE ~(s > fill)
      <4>1. ASSUME NEW i \in Places
            PROVE  (IF i < fill - s THEN fifo[i + s]
                    ELSE IF i < fill - s + s THEN 0 ELSE fifo[i]) \in Octet
        <5>1. 0 \in Octet
          BY Sizes DEF Octet
        <5>2. i < fill - s => i + s \in Places
          BY <2>1 DEF Places
        <5>3. fifo \in [Places -> Octet]
          BY DEF Loose
        <5>. QED  BY <5>1, <5>2, <5>3
      <4>. QED  BY <2>2, <3>2, <4>1 DEF Shifted
    <3>. QED  BY <3>1, <3>2
  <2>. QED  BY <1>2, <2>2, <2>3, <2>4, <2>5
<1>. QED  BY <1>3, <1>4

LEMMA LooseRecord == ASSUME Loose, NEW data \in Payloads, AddRecord(data) PROVE Loose'
<1>. DEFINE e == Encoded(data)
<1>1. e \in Seq(Octet)
  BY StreamAssumption, EncodedIsSeq DEF Octet
<1>. HIDE DEF e
<1>2. /\ fill' = (fill + Len(e)) % Words
      /\ fifo' = [i \in Places |->
                    IF i \in fill .. fill + Len(e) - 1 THEN e[i - fill + 1] ELSE fifo[i]]
      /\ UNCHANGED <<window, redcnt, framecnt, flags, unsent, orders>>
  BY DEF AddRecord, e
<1>3. Len(e) \in Nat /\ fill \in Nat /\ Words \in Nat \ {0} /\ fifo \in [Places -> Octet]
  BY <1>1, Sizes DEF Loose
<1>4. fill' \in 0 .. Words - 1
  BY <1>2, <1>3
<1>5. fifo' \in [Places -> Octet]
  <2>1. ASSUME NEW i \in Places
        PROVE  (IF i \in fill .. fill + Len(e) - 1 THEN e[i - fill + 1] ELSE fifo[i]) \in Octet
    <3>1. i \in fill .. fill + Len(e) - 1 => i - fill + 1 \in 1 .. Len(e)
      BY <1>3
    <3>. QED  BY <1>1, <1>3, <3>1
  <2>. QED  BY <1>2, <2>1
<1>. QED  BY <1>2, <1>4, <1>5 DEF Loose, window, Places, Octet

\* No frame is made of octets that have been cut off.
LEMMA LooseStep ==
    ASSUME Loose, cut, [Next]_vars, ~\E rate \in Rates : StreamInit(rate)
    PROVE  Loose' /\ UNCHANGED <<soff, frame>> /\ cut'
<1>1. ASSUME NEW w \in Wls, UpdateWindow(w) PROVE Loose' /\ UNCHANGED <<soff, frame>> /\ cut'
  <2>1. UNCHANGED <<soff, frame>>
    BY <1>1 DEF UpdateWindow, Order
  <2>2. cut'
    BY <1>1, Zenon DEF UpdateWindow, SetWindow
  <2>. QED  BY <1>1, <2>1, <2>2, LooseWindow
<1>2. ASSUME NEW data \in Payloads, AddRecord(data) PROVE Loose' /\ UNCHANGED <<soff, frame, cut>>
  <2>1. UNCHANGED <<soff, frame, cut>>
    BY <1>2 DEF AddRecord
  <2>. QED  BY <1>2, <2>1, LooseRecord
<1>3. ASSUME \/ \E room \in Rooms : SendInfo(room) \/ SendNothing(room)
             \/ Close \/ (\E r \in Rates, p \in Intervals : UpdateRates(r, p))
             \/ AskInfo \/ AckWindow \/ UNCHANGED vars
      PROVE  Loose' /\ UNCHANGED <<soff, frame, cut>>
  <2>1. UNCHANGED <<wl, redcnt, framecnt, unsent, fill, fifo, soff, frame, cut>>
    BY <1>3 DEF SendInfo, SendNothing, Close, UpdateRates, AskInfo, AckWindow, Order, vars,
                window, buffer, ghosts
  <2>2. rr' \in Nat /\ pctxintv' \in Nat
    <3>1. rr \in Nat /\ pctxintv \in Nat /\ Rates \subseteq Nat /\ Intervals \subseteq Nat
      BY Sizes DEF Loose
    <3>2. CASE \E r \in Rates, p \in Intervals : UpdateRates(r, p)
      BY <3>1, <3>2 DEF UpdateRates
    <3>3. CASE UNCHANGED window
      BY <3>1, <3>3 DEF window
    <3>. QED  BY <1>3, <3>2, <3>3 DEF SendInfo, SendNothing, Close, AskInfo, AckWindow, vars
  <2>3. flags' \subseteq {"SINFO", "WLACK"}
    BY <1>3 DEF SendInfo, SendNothing, Close, UpdateRates, AskInfo, AckWindow, vars, Loose
  <2>4. orders' \in 0 .. MaxOrders
    <3>1. orders \in 0 .. MaxOrders /\ MaxOrders \in Nat
      BY Sizes DEF Loose
    <3>2. CASE Order
      BY <3>1, <3>2 DEF Order
    <3>3. CASE UNCHANGED orders
      BY <3>1, <3>3
    <3>. QED  BY <1>3, <3>2, <3>3
         DEF SendInfo, SendNothing, Close, UpdateRates, AskInfo, AckWindow, vars
  <2>. QED  BY <2>1, <2>2, <2>3, <2>4 DEF Loose, Places, Octet
<1>4. ASSUME NEW room \in Rooms, SendSpill(room) \/ SendData(room) PROVE FALSE
  BY <1>4, Zenon DEF SendSpill, SendData, FromFifo
<1>. QED  BY <1>1, <1>2, <1>3, <1>4 DEF Next, Host, Server, Supervisor, Send

LEMMA AddedGrows ==
    ASSUME Labelled, [Next]_vars, ~\E rate \in Rates : StreamInit(rate)
    PROVE  added' \in Seq(Octet) /\ Len(added) <= Len(added')
           /\ \A k \in 1 .. Len(added) : added'[k] = added[k]
<1>1. ASSUME NEW data \in Payloads, AddRecord(data)
      PROVE  added' \in Seq(Octet) /\ Len(added) <= Len(added')
             /\ \A k \in 1 .. Len(added) : added'[k] = added[k]
  <2>. DEFINE e == Encoded(data)
  <2>1. e \in Seq(Octet) /\ added \in Seq(Octet)
    BY StreamAssumption, EncodedIsSeq DEF Octet, Labelled
  <2>2. added' = added \o e
    BY <1>1 DEF AddRecord
  <2>. HIDE DEF e
  <2>. QED  BY <2>1, <2>2
<1>2. CASE UNCHANGED added
  BY <1>2 DEF Labelled
<1>. QED  BY <1>1, <1>2 DEF Next, Host, Server, Supervisor, vars, ghosts, Order, UpdateWindow,
       UpdateRates, AskInfo, AckWindow, Close, Send, SendInfo, SendNothing, SendSpill, SendData

LEMMA LabelledStep ==
    ASSUME Labelled, [Next]_vars, ~(\E rate \in Rates : StreamInit(rate)), UNCHANGED <<soff, frame>>
    PROVE  Labelled'
<1>1. added' \in Seq(Octet) /\ Len(added) <= Len(added')
      /\ \A k \in 1 .. Len(added) : added'[k] = added[k]
  BY AddedGrows
<1>2. PICK m \in Nat : DOMAIN frame.octets = 1 .. m /\ frame.soff + m <= soff /\ frame.soff \in Nat
  BY DEF Labelled, Behind
<1>3. soff \in Nat /\ soff <= Len(added) /\ Len(added) \in Nat /\ Len(added') \in Nat
  BY <1>1 DEF Labelled
<1>4. ASSUME NEW i \in DOMAIN frame.octets PROVE frame.octets[i] = added'[frame.soff + i]
  <2>1. frame.soff + i \in 1 .. Len(added)
    BY <1>2, <1>3
  <2>. QED  BY <1>1, <2>1 DEF Labelled
<1>5. Behind'
  BY DEF Labelled, Behind
<1>. QED  BY <1>1, <1>3, <1>4, <1>5 DEF Labelled, Octet

-----------------------------------------------------------------------------
\* Either nothing has been cut off, or it has and the stream only waits for a new one.
StreamInv == Loose /\ Flags /\ Labelled /\ cut \in BOOLEAN /\ (~cut => IInv)

LEMMA CutStep ==
    ASSUME cut \in BOOLEAN, [Next]_vars
    PROVE  /\ cut' \in BOOLEAN
           /\ \A w \in Wls : UpdateWindow(w) /\ Cuts(w) => cut'
<1>1. ASSUME NEW w \in Wls, UpdateWindow(w)
      PROVE  cut' = IF Fits(w) THEN (cut \/ wl - w > unsent) ELSE cut
  BY <1>1 DEF UpdateWindow, SetWindow
<1>2. ASSUME NEW rate \in Rates, StreamInit(rate) PROVE cut' = FALSE
  BY <1>2 DEF StreamInit
<1>3. \/ UNCHANGED cut
      \/ \E w \in Wls : UpdateWindow(w)
      \/ \E rate \in Rates : StreamInit(rate)
  BY DEF Next, Host, Server, Supervisor, vars, ghosts, Order, AddRecord,
       UpdateRates, AskInfo, AckWindow, Close, Send, SendInfo, SendNothing, SendSpill, SendData
<1>. QED  BY <1>1, <1>2, <1>3, Zenon DEF Cuts

LEMMA StreamStep == ASSUME StreamInv, [Next]_vars PROVE StreamInv'
<1>1. cut' \in BOOLEAN /\ \A w \in Wls : UpdateWindow(w) /\ Cuts(w) => cut'
  BY CutStep, Zenon DEF StreamInv
<1>2. Flags'
  BY FlagsStep DEF StreamInv
<1>3. IInv' => StreamInv'
  <2>1. IInv' => Loose' /\ Flags' /\ Labelled'
    BY IInvGives, PTL
  <2>. QED  BY <1>1, <2>1, Zenon DEF StreamInv
<1>4. CASE \E rate \in Rates : StreamInit(rate)
  BY <1>3, <1>4, StreamInitKeeps DEF StreamInv, Flags, Loose
<1>5. CASE cut /\ ~\E rate \in Rates : StreamInit(rate)
  <2>1. Loose' /\ UNCHANGED <<soff, frame>> /\ cut'
    BY <1>5, LooseStep DEF StreamInv
  <2>2. Labelled'
    BY <1>5, <2>1, LabelledStep DEF StreamInv
  <2>. QED  BY <1>1, <1>2, <2>1, <2>2, Zenon DEF StreamInv
<1>6. CASE (\E w \in Wls : UpdateWindow(w) /\ Cuts(w)) /\ ~\E rate \in Rates : StreamInit(rate)
  <2>1. PICK w \in Wls : UpdateWindow(w) /\ Cuts(w)
    BY <1>6
  <2>2. Loose' /\ cut' /\ UNCHANGED <<soff, frame>>
    BY <1>1, <2>1, LooseWindow DEF StreamInv, UpdateWindow, Order
  <2>3. Labelled'
    BY <1>6, <2>2, LabelledStep DEF StreamInv
  <2>. QED  BY <1>1, <1>2, <2>2, <2>3, Zenon DEF StreamInv
<1>7. CASE ~cut /\ ~\E w \in Wls : UpdateWindow(w) /\ Cuts(w)
  BY <1>3, <1>7, StepKeeps DEF StreamInv
<1>. QED  BY <1>4, <1>5, <1>6, <1>7

LEMMA StreamCorrect == Spec => []StreamInv
<1>1. Init => StreamInv
  <2>1. Init => cut = FALSE
    BY DEF Init
  <2>. QED  BY <2>1, InitHolds, IInvGives, Zenon DEF StreamInv
<1>2. StreamInv /\ [Next]_vars => StreamInv'
  BY StreamStep
<1>. QED  BY <1>1, <1>2, PTL DEF Spec

\* The type invariant of the stream service: the marks of the FIFO keep to their 16 bits
\* and, as long as no window has cut off octets, to the FIFO (rose.c).
THEOREM StreamTyped == Spec => []TypeOK
<1>1. StreamInv => TypeOK
  <2>. SUFFICES ASSUME StreamInv PROVE TypeOK
    OBVIOUS
  <2>1. task \in BOOLEAN /\ closing \in BOOLEAN /\ cut \in BOOLEAN
    BY Zenon DEF StreamInv, Flags
  <2>2. ~cut => {unsent, fill} \subseteq Places
    BY DEF StreamInv, IInv, Types
  <2>3. /\ wl \in Wls /\ rr \in Nat /\ redcnt \in Int /\ pctxintv \in Nat /\ framecnt \in Nat
        /\ flags \subseteq {"SINFO", "WLACK"} /\ {unsent, fill} \subseteq 0 .. Words - 1
        /\ fifo \in [Places -> 0 .. Octets - 1] /\ orders \in 0 .. MaxOrders
        /\ soff \in Nat /\ added \in Seq(0 .. Octets - 1)
    BY DEF StreamInv, Loose, Labelled, Octet
  <2>. QED  BY <2>1, <2>2, <2>3, Zenon DEF TypeOK
<1>. QED  BY <1>1, StreamCorrect, PTL

\* Short of a window made shorter by more octets than have been sent of a longer one, no
\* record is written into the work area and no free space is counted twice, whatever
\* windows the server asks for.
THEOREM StreamAreas == Spec => []Areas
<1>1. StreamInv => Areas
  BY DEF StreamInv, IInv, Apart, Areas
<1>. QED  BY <1>1, StreamCorrect, PTL

\* The octets go out once each, in the order the host added them, under the label the
\* server expects, whatever the windows, the rates and the room of the frames; such a
\* window alone loses some, and what is sent keeps its label even then.
THEOREM StreamInOrder == Spec => []InOrder
<1>1. StreamInv => InOrder
  <2>. SUFFICES ASSUME StreamInv PROVE InOrder
    OBVIOUS
  <2>1. ~cut => /\ soff + (fill - unsent) = Len(added)
                /\ \A i \in unsent .. fill - 1 : fifo[i] = added[soff + i - unsent + 1]
    BY Zenon DEF StreamInv, IInv, Ordered
  <2>2. \A i \in DOMAIN frame.octets : frame.octets[i] = added[frame.soff + i]
    BY Zenon DEF StreamInv, Labelled
  <2>. QED  BY <2>1, <2>2, Zenon DEF InOrder
<1>. QED  BY <1>1, StreamCorrect, PTL

-----------------------------------------------------------------------------
(* The records come back *)

\* Every set of naturals that is not empty has a least member.
LEMMA Smallest ==
    ASSUME NEW T, T \subseteq Nat, T # {}
    PROVE  \E m \in T : \A k \in T : m <= k
<1>1. PICK m \in T : \A k \in T : ~ (<<k, m>> \in OpToRel(<, Nat))
  BY NatLessThanWellFounded, WFMin
<1>2. \A k \in T : ~ (k < m)
  BY <1>1 DEF OpToRel
<1>. QED  BY <1>2

\* Induction over the naturals, for a set.
LEMMA Stepwise ==
    ASSUME NEW T, 0 \in T, \A n \in Nat : n \in T => n + 1 \in T
    PROVE  Nat \subseteq T
<1>. SUFFICES ASSUME Nat \ T # {} PROVE FALSE
  OBVIOUS
<1>1. PICK m \in Nat \ T : \A k \in Nat \ T : m <= k
  BY Smallest, Zenon
<1>2. m # 0 /\ m - 1 \in Nat /\ m = (m - 1) + 1
  BY <1>1
<1>3. m - 1 \in T
  BY <1>1, <1>2
<1>. QED  BY <1>1, <1>2, <1>3

\* Remainders near zero.
LEMMA Remainders ==
    ASSUME NEW u \in Nat \ {0}, NEW x \in Int
    PROVE  /\ x \in 0 .. u - 1 => x % u = x
           /\ x - u \in 0 .. u - 1 => x % u = x - u
           /\ x + u \in 0 .. u - 1 => x % u = x + u
  OBVIOUS

\* The states of a server on its way through the octets of s.
Reads(after, s) ==
    after = [n \in 0 .. Len(s) |-> IF n = 0 THEN Unread ELSE Reading(after[n - 1], s[n])]

\* There is only one way.
LEMMA ReadIs ==
    ASSUME NEW s, Len(s) \in Nat, NEW f, Reads(f, s)
    PROVE  Read(s) = f[Len(s)]
<1>. DEFINE g == CHOOSE g : Reads(g, s)
            T == {n \in Nat : n <= Len(s) => g[n] = f[n]}
<1>1. Reads(g, s)
  OBVIOUS
<1>. HIDE DEF g
<1>2. 0 \in T
  BY <1>1 DEF Reads
<1>3. ASSUME NEW n \in Nat, n \in T PROVE n + 1 \in T
  <2>. SUFFICES ASSUME n + 1 <= Len(s) PROVE g[n + 1] = f[n + 1]
    OBVIOUS
  <2>1. g[n] = f[n]
    BY <1>3
  <2>2. n + 1 \in 0 .. Len(s) /\ n + 1 # 0 /\ (n + 1) - 1 = n
    OBVIOUS
  <2>3. g[n + 1] = Reading(g[n], s[n + 1]) /\ f[n + 1] = Reading(f[n], s[n + 1])
    BY <1>1, <2>2 DEF Reads
  <2>. QED  BY <2>1, <2>3
<1>4. Len(s) \in T
  <2>. HIDE DEF T
  <2>. QED  BY <1>2, <1>3, Stepwise
<1>5. Read(s) = g[Len(s)]
  BY DEF Read, Reads, g
<1>. QED  BY <1>4, <1>5

\* The next octet that looks like a tag, or the end of the record.
LEMMA TagAfterIs ==
    ASSUME NEW data \in Seq(Octet), NEW j \in 0 .. Len(data)
    PROVE  /\ TagAfter(data, j) \in j + 1 .. Len(data) + 1
           /\ TagAfter(data, j) = Len(data) + 1 \/ data[TagAfter(data, j)] = Tag
           /\ j + 1 <= Len(data) /\ data[j + 1] # Tag => TagAfter(data, j + 1) = TagAfter(data, j)
           /\ j + 1 <= Len(data) /\ data[j + 1] = Tag => TagAfter(data, j) = j + 1
<1>. DEFINE S(i) == {k \in i + 1 .. Len(data) + 1 : k = Len(data) + 1 \/ data[k] = Tag}
<1>1. ASSUME NEW i \in 0 .. Len(data)
      PROVE  TagAfter(data, i) \in S(i) /\ \A k \in S(i) : TagAfter(data, i) <= k
  <2>1. S(i) \in SUBSET Nat /\ Len(data) + 1 \in S(i)
    OBVIOUS
  <2>2. \E m \in S(i) : \A k \in S(i) : m <= k
    <3>. DEFINE T == S(i)
    <3>1. T \subseteq Nat /\ T # {}
      BY <2>1
    <3>. HIDE DEF T
    <3>2. PICK m \in T : \A k \in T : m <= k
      BY <3>1, Smallest, Zenon
    <3>. QED  BY <3>2 DEF T
  <2>. QED  BY <2>2 DEF TagAfter, Min
<1>2. Len(data) \in Nat
  OBVIOUS
<1>3. ASSUME j + 1 <= Len(data), data[j + 1] # Tag PROVE TagAfter(data, j + 1) = TagAfter(data, j)
  <2>1. S(j) = S(j + 1)
    BY <1>2, <1>3
  <2>. QED  BY <2>1 DEF TagAfter
<1>4. ASSUME j + 1 <= Len(data), data[j + 1] = Tag PROVE TagAfter(data, j) = j + 1
  <2>1. j + 1 \in S(j)
    BY <1>2, <1>4
  <2>. QED  BY <1>1, <1>2, <2>1
<1>. QED  BY <1>1, <1>3, <1>4

\* The first j octets of a record, and one more.
Start(data, j) == [i \in 1 .. j |-> data[i]]

LEMMA StartGrows ==
    ASSUME NEW data \in Seq(Octet), NEW j \in Nat, j + 1 <= Len(data)
    PROVE  Append(Start(data, j), data[j + 1]) = Start(data, j + 1)
<1>. DEFINE a == Start(data, j)
            b == Start(data, j + 1)
            c == Append(a, data[j + 1])
<1>1. a \in Seq(Octet) /\ Len(a) = j /\ b \in Seq(Octet) /\ Len(b) = j + 1
  BY DEF Start
<1>2. \A i \in 1 .. j : a[i] = data[i]
  BY DEF Start
<1>3. \A i \in 1 .. j + 1 : b[i] = data[i]
  BY DEF Start
<1>. HIDE DEF a, b
<1>4. data[j + 1] \in Octet
  OBVIOUS
<1>5. c \in Seq(Octet) /\ Len(c) = j + 1 /\ \A i \in 1 .. j + 1 : c[i] = IF i <= j THEN a[i] ELSE data[j + 1]
  BY <1>1, <1>4
<1>6. \A i \in 1 .. j + 1 : c[i] = b[i]
  BY <1>2, <1>3, <1>5
<1>. HIDE DEF c
<1>7. c = b
  BY <1>1, <1>5, <1>6
<1>. QED  BY <1>7 DEF a, b, c

\* The server after the first n octets of an encoded record, when it had read those of out.
Midway(data, n, out) ==
    IF n = 0 THEN [Unread EXCEPT !.out = out]
    ELSE IF n = Len(data) + 2 THEN [Unread EXCEPT !.out = Append(out, data)]
    ELSE [run |-> TagAfter(data, n - 1) - n, first |-> FALSE, record |-> Start(data, n - 1),
          out |-> out]

LEMMA MidwayIs ==
    ASSUME NEW data, Len(data) \in Nat, NEW out, NEW n \in 1 .. Len(data) + 1, NEW j, j = n - 1
    PROVE  Midway(data, n, out)
             = [run |-> TagAfter(data, j) - n, first |-> FALSE, record |-> Start(data, j), out |-> out]
<1>1. n # 0 /\ n # Len(data) + 2
  OBVIOUS
<1>. QED  BY <1>1, Zenon DEF Midway

\* An octet o that says that the next k are as the host gave them.
Tells(o, k) == o # Tag /\ ((o - Tag) % Octets) - 1 = k

\* The server before a record, and inside of one with run octets to go to the next mark.
Before(out) == [run |-> 0, first |-> TRUE, record |-> <<>>, out |-> out]
Inside(run, r, out) == [run |-> run, first |-> FALSE, record |-> r, out |-> out]
\* At a mark an octet o leads to the next one, k octets on.
LeadsOn(o, k) == \A r, out : Reading(Inside(0, r, out), o) = Inside(k, Append(r, Tag), out)

\* An octet that is neither as the host gave it nor a tag says how many are, at the start
\* of a record and after a tag of the host.
LEMMA ReadFirst ==
    ASSUME NEW o, NEW k, Tells(o, k), NEW out
    PROVE  Reading(Before(out), o) = Inside(k, <<>>, out)
<1>. DEFINE d == Before(out)
<1>1. ~(d.run > 0) /\ d.first = TRUE /\ d.record = <<>> /\ d.out = out
  BY DEF Before
<1>. HIDE DEF d
<1>2. Reading(d, o) = [run |-> ((o - Tag) % Octets) - 1, first |-> FALSE,
                       record |-> IF d.first THEN d.record ELSE Append(d.record, Tag), out |-> d.out]
  BY <1>1, Zenon DEF Reading, Tells
<1>3. (IF d.first THEN d.record ELSE Append(d.record, Tag)) = <<>>
  BY <1>1, Zenon
<1>4. ((o - Tag) % Octets) - 1 = k
  BY Zenon DEF Tells
<1>. QED  BY <1>1, <1>2, <1>3, <1>4 DEF d, Inside

LEMMA ReadDistance ==
    ASSUME NEW o, NEW k, Tells(o, k)
    PROVE  LeadsOn(o, k)
<1>. SUFFICES ASSUME NEW r, NEW out
              PROVE  Reading(Inside(0, r, out), o) = Inside(k, Append(r, Tag), out)
  BY Zenon DEF LeadsOn
<1>. DEFINE d == Inside(0, r, out)
<1>1. ~(d.run > 0) /\ d.first = FALSE /\ d.record = r /\ d.out = out
  BY DEF Inside
<1>. HIDE DEF d
<1>2. Reading(d, o) = [run |-> ((o - Tag) % Octets) - 1, first |-> FALSE,
                       record |-> IF d.first THEN d.record ELSE Append(d.record, Tag), out |-> d.out]
  BY <1>1, Zenon DEF Reading, Tells
<1>3. (IF d.first THEN d.record ELSE Append(d.record, Tag)) = Append(r, Tag)
  BY <1>1, Zenon
<1>4. ((o - Tag) % Octets) - 1 = k
  BY Zenon DEF Tells
<1>. QED  BY <1>1, <1>2, <1>3, <1>4 DEF d, Inside

\* Each octet of the record takes it one further.
LEMMA ReadOn ==
    ASSUME NEW data \in Seq(Octet), Len(data) \in 1 .. Octets - 2, NEW out,
           NEW n \in 0 .. Len(data) + 1
    PROVE  Reading(Midway(data, n, out), Encoded(data)[n + 1]) = Midway(data, n + 1, out)
<1>. DEFINE l == Len(data)
<1>c. l \in Nat /\ l <= Octets - 2 /\ l >= 1 /\ Octets \in Nat /\ Tag \in Nat /\ Tag < Octets
  BY StreamAssumption
<1>o. Octets \in Nat \ {0}
  BY <1>c
<1>m. ASSUME NEW j \in 0 .. l
      PROVE  ((((Tag + Distance(data, j)) % Octets) - Tag) % Octets) = Distance(data, j)
             /\ Distance(data, j) \in 1 .. Octets - 1 /\ (Tag + Distance(data, j)) % Octets # Tag
             /\ Distance(data, j) = TagAfter(data, j) - j
  <2>. DEFINE d == Distance(data, j)
  <2>1. d = TagAfter(data, j) - j /\ d \in 1 .. Octets - 1
    BY <1>c, TagAfterIs DEF Distance
  <2>. HIDE DEF d
  <2>2. CASE Tag + d < Octets
    <3>1. (Tag + d) % Octets = Tag + d
      <4>1. Tag + d \in Int /\ Tag + d \in 0 .. Octets - 1
        BY <1>c, <2>1, <2>2
      <4>. QED  BY <4>1, <1>o, Remainders
    <3>2. d % Octets = d
      <4>1. d \in Int /\ d \in 0 .. Octets - 1
        BY <1>c, <2>1
      <4>. QED  BY <4>1, <1>o, Remainders
    <3>3. (Tag + d) - Tag = d /\ Tag + d # Tag
      BY <1>c, <2>1
    <3>. QED  BY <2>1, <3>1, <3>2, <3>3 DEF d
  <2>3. CASE Tag + d >= Octets
    <3>. DEFINE x == Tag + d
                y == d - Octets
    <3>1. x % Octets = x - Octets
      <4>1. x \in Int /\ x - Octets \in 0 .. Octets - 1
        BY <1>c, <2>1, <2>3
      <4>. HIDE DEF x
      <4>. QED  BY <4>1, <1>o, Remainders
    <3>2. y % Octets = d
      <4>1. y \in Int /\ y + Octets \in 0 .. Octets - 1 /\ y + Octets = d
        BY <1>c, <2>1
      <4>. HIDE DEF y
      <4>. QED  BY <4>1, <1>o, Remainders
    <3>3. (x - Octets) - Tag = y /\ x - Octets # Tag
      BY <1>c, <2>1
    <3>. QED  BY <2>1, <3>1, <3>2, <3>3 DEF d
  <2>. QED  BY <1>c, <2>1, <2>2, <2>3
<1>e. Encoded(data)[n + 1]
        = IF n = l + 1 THEN Tag
          ELSE IF n = 0 \/ data[n] = Tag THEN (Tag + Distance(data, n)) % Octets ELSE data[n]
  <2>1. n + 1 \in 1 .. l + 2 /\ (n + 1) - 1 = n
    OBVIOUS
  <2>. QED  BY <2>1 DEF Encoded
<1>1. CASE n = 0
  <2>. DEFINE o == Encoded(data)[n + 1]
  <2>1. o = (Tag + Distance(data, 0)) % Octets
    BY <1>1, <1>c, <1>e
  <2>2. o # Tag /\ ((o - Tag) % Octets) - 1 = TagAfter(data, 0) - 1
    <3>1. 0 \in 0 .. l /\ TagAfter(data, 0) - 0 = TagAfter(data, 0)
      BY <1>c, TagAfterIs
    <3>. HIDE DEF o, l
    <3>. QED  BY <2>1, <3>1, <1>m
  <2>3. Midway(data, 0, out) = [run |-> 0, first |-> TRUE, record |-> <<>>, out |-> out]
    BY DEF Midway, Unread
  <2>4. Start(data, 0) = <<>>
    BY DEF Start
  <2>5. Midway(data, 1, out) = [run |-> TagAfter(data, 0) - 1, first |-> FALSE, record |-> <<>>, out |-> out]
    <3>1. 1 \in 1 .. Len(data) + 1 /\ Len(data) \in Nat /\ 0 = 1 - 1
      BY <1>c
    <3>2. Midway(data, 1, out)
            = [run |-> TagAfter(data, 0) - 1, first |-> FALSE, record |-> Start(data, 0), out |-> out]
      BY <3>1, MidwayIs
    <3>. QED  BY <3>2, <2>4
  <2>. HIDE DEF o
  <2>6. Reading(Midway(data, 0, out), o)
          = [run |-> TagAfter(data, 0) - 1, first |-> FALSE, record |-> <<>>, out |-> out]
    <3>. DEFINE k == TagAfter(data, 0) - 1
    <3>1. Tells(o, k)
      BY <2>2, Zenon DEF Tells
    <3>. HIDE DEF k
    <3>2. Reading(Before(out), o) = Inside(k, <<>>, out)
      BY <3>1, ReadFirst, Zenon
    <3>. QED  BY <2>3, <3>2, Zenon DEF k, Before, Inside
  <2>7. n + 1 = 1
    BY <1>1
  <2>. QED  BY <1>1, <2>7, <2>2, <2>5, <2>6 DEF o
<1>2. CASE n \in 1 .. l + 1
  <2>. DEFINE o == Encoded(data)[n + 1]
              t == TagAfter(data, n - 1)
              d == Midway(data, n, out)
              r == Start(data, n - 1)
  <2>1. d = [run |-> t - n, first |-> FALSE, record |-> r, out |-> out]
    BY <1>2, <1>c DEF Midway
  <2>2. /\ t \in n .. l + 1 /\ (t = l + 1 \/ data[t] = Tag)
        /\ n <= l /\ data[n] # Tag => TagAfter(data, n) = t
        /\ n <= l /\ data[n] = Tag => t = n
    <3>1. n - 1 \in 0 .. l /\ (n - 1) + 1 = n
      BY <1>2, <1>c
    <3>. QED  BY <3>1, TagAfterIs
  <2>3. n <= l => Append(r, data[n]) = Start(data, n)
    <3>1. n - 1 \in Nat /\ (n - 1) + 1 = n
      BY <1>2, <1>c
    <3>. QED  BY <3>1, StartGrows
  <2>4. n <= l => Midway(data, n + 1, out)
                    = [run |-> TagAfter(data, n) - (n + 1), first |-> FALSE, record |-> Start(data, n), out |-> out]
    <3>1. (n + 1) - 1 = n /\ n + 1 # 0 /\ (n <= l => n + 1 # l + 2)
      BY <1>2, <1>c
    <3>. QED  BY <3>1 DEF Midway
  <2>. HIDE DEF o, t, d, r
  <2>5. CASE n <= l /\ data[n] # Tag
    <3>1. t - n > 0 /\ o = data[n] /\ t - n - 1 = TagAfter(data, n) - (n + 1)
      <4>1. t # n
        BY <2>2, <2>5, <1>c
      <4>2. o = data[n]
        BY <2>5, <1>c, <1>2, <1>e DEF o
      <4>. QED  BY <4>1, <4>2, <2>2, <2>5, <1>c
    <3>2. Reading(d, o) = [run |-> t - n - 1, first |-> FALSE, record |-> Append(r, o), out |-> out]
      BY <2>1, <3>1 DEF Reading
    <3>. QED  BY <2>3, <2>4, <2>5, <3>1, <3>2 DEF o, d
  <2>6. CASE n <= l /\ data[n] = Tag
    <3>1. t - n = 0
      BY <2>2, <2>6
    <3>2. o = (Tag + Distance(data, n)) % Octets
      BY <2>6, <1>c, <1>2, <1>e DEF o
    <3>3. o # Tag /\ ((o - Tag) % Octets) - 1 = TagAfter(data, n) - (n + 1)
      <4>1. n \in 0 .. l
        BY <2>6, <1>2, <1>c
      <4>2. o # Tag /\ (o - Tag) % Octets = TagAfter(data, n) - n /\ TagAfter(data, n) \in Int
        BY <3>2, <4>1, <1>m, TagAfterIs
      <4>. QED  BY <4>1, <4>2
    <3>4. Reading(d, o)
            = [run |-> TagAfter(data, n) - (n + 1), first |-> FALSE, record |-> Append(r, Tag), out |-> out]
      <4>. DEFINE k == TagAfter(data, n) - (n + 1)
      <4>1. Tells(o, k)
        BY <3>3, Zenon DEF Tells
      <4>2. d = Inside(0, r, out)
        BY <2>1, <3>1, Zenon DEF Inside
      <4>. HIDE DEF k
      <4>3. Reading(Inside(0, r, out), o) = Inside(k, Append(r, Tag), out)
        <5>1. LeadsOn(o, k)
          BY <4>1, ReadDistance, Zenon
        <5>. QED  BY <5>1, Zenon DEF LeadsOn
      <4>. QED  BY <4>2, <4>3, Zenon DEF k, Inside
    <3>5. Append(r, Tag) = Start(data, n)
      BY <2>3, <2>6
    <3>. QED  BY <2>4, <2>6, <3>3, <3>4, <3>5 DEF o, d
  <2>7. CASE n = l + 1
    <3>1. t - n = 0 /\ o = Tag
      BY <2>2, <2>7, <1>c, <1>e DEF o
    <3>2. Reading(d, o) = [Unread EXCEPT !.out = Append(out, r)]
      BY <2>1, <3>1 DEF Reading
    <3>3. r = data
      BY <2>7, <1>c DEF r, Start
    <3>4. Midway(data, n + 1, out) = [Unread EXCEPT !.out = Append(out, data)]
      BY <2>7, <1>c DEF Midway
    <3>. QED  BY <3>2, <3>3, <3>4 DEF o, d
  <2>. QED  BY <1>2, <1>c, <2>5, <2>6, <2>7
<1>. QED  BY <1>1, <1>2, <1>c

\* The server has read all the octets and found the records.
ReadInv == /\ added \in Seq(Octet)
           /\ \E after : Reads(after, added) /\ after[Len(added)] = [Unread EXCEPT !.out = records]

LEMMA ReadInit == ASSUME added = <<>>, records = <<>> PROVE ReadInv
<1>. DEFINE after == [n \in 0 .. 0 |-> Unread]
<1>1. Reads(after, <<>>)
  BY DEF Reads
<1>2. after[0] = [Unread EXCEPT !.out = <<>>]
  BY DEF Unread
<1>. QED  BY <1>1, <1>2 DEF ReadInv

\* ROSE_addRecord adds octets that give the record.
LEMMA ReadRecord == ASSUME ReadInv, NEW data \in Payloads, AddRecord(data) PROVE ReadInv'
<1>. DEFINE e == Encoded(data)
            m == Len(added)
            l == Len(data) + 2
            s == added \o e
<1>1. data \in Seq(Octet) /\ Len(data) \in 1 .. Octets - 2
  BY StreamAssumption DEF AddRecord, Octet
<1>2. added' = s /\ records' = Append(records, data)
  BY DEF AddRecord
<1>3. e \in Seq(Octet) /\ Len(e) = l /\ l \in Nat /\ added \in Seq(Octet) /\ m \in Nat
  BY <1>1, EncodedIsSeq DEF ReadInv
<1>4. PICK after : Reads(after, added) /\ after[m] = Midway(data, 0, records)
  BY DEF ReadInv, Midway
<1>. DEFINE then == [n \in 0 .. m + l |-> IF n <= m THEN after[n] ELSE Midway(data, n - m, records)]
<1>s. s \in Seq(Octet) /\ Len(s) = m + l
  <2>. HIDE DEF e
  <2>. QED  BY <1>3
<1>5. ASSUME NEW n \in 1 .. m + l PROVE then[n] = Reading(then[n - 1], s[n])
  <2>1. CASE n <= m
    <3>1. s[n] = added[n]
      <4>. HIDE DEF e
      <4>. QED  BY <1>3, <2>1
    <3>2. then[n] = after[n] /\ then[n - 1] = after[n - 1]
      BY <1>3, <2>1
    <3>3. after[n] = Reading(after[n - 1], added[n])
      <4>1. n \in 0 .. m /\ n # 0
        BY <1>3, <2>1
      <4>. QED  BY <1>4, <4>1 DEF Reads
    <3>. QED  BY <3>1, <3>2, <3>3
  <2>2. CASE n > m
    <3>. DEFINE k == n - m - 1
    <3>1. k \in 0 .. Len(data) + 1 /\ n - m = k + 1 /\ n - 1 \in 0 .. m + l /\ (n - 1) - m = k
          /\ n = m + (k + 1) /\ k + 1 \in 1 .. l
      BY <1>3, <2>2, <1>1
    <3>2. then[n] = Midway(data, k + 1, records)
      BY <1>3, <2>2, <3>1
    <3>3. then[n - 1] = Midway(data, k, records)
      BY <1>3, <1>4, <2>2, <3>1
    <3>4. s[n] = e[k + 1]
      <4>. HIDE DEF e, k
      <4>. QED  BY <1>3, <2>2, <3>1
    <3>. HIDE DEF then, s, k
    <3>5. Reading(Midway(data, k, records), e[k + 1]) = Midway(data, k + 1, records)
      BY <1>1, <3>1, ReadOn
    <3>. QED  BY <3>2, <3>3, <3>4, <3>5
  <2>. QED  BY <1>3, <2>1, <2>2
<1>6. Reads(then, s)
  <2>1. then[0] = Unread
    BY <1>3, <1>4 DEF Reads
  <2>. DEFINE rhs == [n \in 0 .. Len(s) |-> IF n = 0 THEN Unread ELSE Reading(then[n - 1], s[n])]
  <2>2. \A n \in 0 .. m + l : then[n] = rhs[n]
    <3>. HIDE DEF then, s
    <3>. QED  BY <1>5, <2>1, <1>s, <1>3
  <2>3. then = rhs
    <3>. HIDE DEF s
    <3>1. DOMAIN then = 0 .. m + l /\ DOMAIN rhs = 0 .. m + l
      BY <1>s
    <3>2. then = [n \in 0 .. m + l |-> then[n]] /\ rhs = [n \in 0 .. m + l |-> rhs[n]]
      BY <1>s
    <3>. HIDE DEF then, rhs
    <3>. QED  BY <2>2, <3>2
  <2>. QED  BY <2>3 DEF Reads
<1>7. then[Len(s)] = [Unread EXCEPT !.out = Append(records, data)]
  <2>1. m + l \in 0 .. m + l /\ ~(m + l <= m) /\ m + l - m = Len(data) + 2 /\ l # 0
    BY <1>1, <1>3
  <2>. HIDE DEF s
  <2>. QED  BY <1>s, <2>1 DEF Midway
<1>. HIDE DEF s, then
<1>. QED  BY <1>2, <1>s, <1>6, <1>7 DEF ReadInv

\* The framing can be undone, for all records and whatever the server and the tasks do.
THEOREM StreamRecordsBack == Spec => []RecordsBack
<1>1. Init => ReadInv
  BY ReadInit DEF Init
<1>2. ReadInv /\ [Next]_vars => ReadInv'
  <2>. SUFFICES ASSUME ReadInv, [Next]_vars PROVE ReadInv'
    OBVIOUS
  <2>1. ASSUME NEW rate \in Rates, StreamInit(rate) PROVE ReadInv'
    <3>1. added' = <<>> /\ records' = <<>>
      BY <2>1 DEF StreamInit
    <3>. DEFINE after == [n \in 0 .. 0 |-> Unread]
    <3>2. Reads(after, <<>>) /\ after[0] = [Unread EXCEPT !.out = <<>>]
      BY DEF Reads, Unread
    <3>. QED  BY <3>1, <3>2 DEF ReadInv
  <2>2. ASSUME NEW data \in Payloads, AddRecord(data) PROVE ReadInv'
    BY <2>2, ReadRecord
  <2>3. CASE UNCHANGED <<added, records>>
    BY <2>3 DEF ReadInv
  <2>. QED  BY <2>1, <2>2, <2>3 DEF Next, Host, Server, Supervisor, vars, Order, UpdateWindow,
         UpdateRates, AskInfo, AckWindow, Close, Send, SendInfo, SendNothing, SendSpill, SendData,
         ghosts
<1>3. ReadInv => RecordsBack
  BY ReadIs DEF ReadInv, RecordsBack
<1>. QED  BY <1>1, <1>2, <1>3, PTL DEF Spec
=============================================================================
