----------------------------- MODULE DutyCycle -----------------------------
(***************************************************************************)
(* The duty cycle of one band (smtc_duty_cycle.c): the time on air of the  *)
(* last hour, summed in a ring of buckets of one unit of time each, read   *)
(* against a millisecond clock that wraps in the middle of a unit.  Every  *)
(* channel of the band shares it; bands share nothing.                     *)
(*                                                                         *)
(* air is history: what was really transmitted, by age.                    *)
(***************************************************************************)
EXTENDS Integers, Functions, FiniteSetsExt

CONSTANTS
    Unit,        \* SMTC_DTC_SECONDS_BY_UNIT, in ticks of the clock
    Buckets,     \* SMTC_DTC_TOA_BUFF_SIZE
    Width,       \* 2^32, the wrap of the clock
    Regulation,  \* duty_cycle_regulation of the band
    Resolution,  \* smtc_dtc_resolution_ms
    Airtimes,    \* times on air of the frames
    MaxFrames    \* bound: frames

Period == Unit * Buckets           \* SMTC_DTC_PERIOD_MS
Budget == Period \div Regulation

ASSUME DutyCycleAssumption ==
    /\ {Unit, Buckets, Regulation, Resolution} \subseteq Nat \ {0}
    /\ Width \in Nat /\ Width > 2 * Period
    /\ Regulation <= Period
    /\ Airtimes \subseteq 1 .. Period /\ Airtimes # {}
    /\ MaxFrames \in Nat

Modes == {"partial disabled", "enabled", "full disabled"}
Places == 0 .. Buckets - 1

\* The ages the ring answers for: the oldest bucket goes before the last frame
\* in it is an hour old, and once the clock has wrapped the buckets still in use
\* are read on a grid that starts earlier than the one they were filled on.
Kept == Period - Unit - ((-Width) % Unit)

VARIABLES
    clock,    \* smtc_modem_hal_get_time_in_ms
    enabled,  \* smtc_dtc_enablement_type_t
    band,     \* the band: toa_timestamp_ms, index_previous, toa_sum_ms
    toa,      \* time on air of the frame the MAC has handed over, 0 for none
    left,     \* what is left of it
    frames,   \* frames sent, to bound them
    air       \* time on air by age, of the frames sent while it was counted

vars == <<clock, enabled, band, toa, left, frames, air>>

Init ==
    /\ clock = 0
    /\ enabled = "enabled"
    /\ band = [toa_timestamp_ms |-> 0, index_previous |-> 0,
               toa_sum_ms |-> [i \in Places |-> 0]]
    /\ toa = 0 /\ left = 0 /\ frames = 0
    /\ air = [age \in 0 .. Kept |-> 0]

\* Mutant: the timestamp is not brought back to the start of its unit.
TimeDiffExact(now) == (now - band.toa_timestamp_ms) % Width

\* smtc_duty_cycle_time_diff: since the start of the unit of the timestamp.
time_diff(now) ==
    (now - (band.toa_timestamp_ms - (band.toa_timestamp_ms % Unit))) % Width

\* smtc_duty_cycle_compute_index.
compute_index(diff) ==
    (((diff \div Unit) % (Buckets + 1)) + band.index_previous) % Buckets

Empty == [i \in Places |-> 0]

\* The ring without the buckets from the one after index_previous to the new
\* one, which the walk of sum and of update erases.
Erased(idx_new) ==
    [i \in Places |->
        IF (i - band.index_previous - 1) % Buckets
             < (idx_new - band.index_previous) % Buckets
        THEN 0 ELSE band.toa_sum_ms[i]]

\* smtc_duty_cycle_update: the bucket of the last sum keeps its timestamp until
\* the whole ring is obsolete.
Updated(now) ==
    LET diff == time_diff(now) IN
    IF diff >= Period
    THEN [toa_timestamp_ms |-> now, index_previous |-> compute_index(diff),
          toa_sum_ms |-> Empty]
    ELSE [band EXCEPT !.toa_sum_ms = Erased(compute_index(diff))]

\* smtc_duty_cycle_sum: a frame counts in whole steps of the resolution, rounded up.
Steps(ms) == IF ms < Resolution THEN 1
             ELSE IF Resolution = 1 THEN ms ELSE (ms \div Resolution) + 1

\* The ring the frame is added to: in the bucket of the same unit it adds up.
\* Mutant: it takes the place of what the bucket holds.
CountedAlone(idx_new, diff) ==
    IF diff >= Period THEN Empty ELSE [Erased(idx_new) EXCEPT ![idx_new] = 0]

Counted(idx_new, diff) ==
    IF diff >= Period THEN Empty ELSE Erased(idx_new)

Summed(now, ms) ==
    LET diff    == time_diff(now)
        idx_new == compute_index(diff)
        kept    == Counted(idx_new, diff)
    IN [toa_timestamp_ms |-> now, index_previous |-> idx_new,
        toa_sum_ms |-> [kept EXCEPT ![idx_new] = @ + Steps(ms)]]

\* smtc_duty_cycle_get_band_consumed_time_ms and band_get_available_toa_ms.
Consumed(b) == Resolution * SumFunction(b.toa_sum_ms)
Available(b) == Budget - Consumed(b)

\* smtc_duty_cycle_is_channel_free: any frame may go while some time is left.
Free(b) == enabled = "enabled" => Available(b) > 0

\* smtc_duty_cycle_get_next_free_time_ms, of a band that is full: the end of
\* the unit, and a unit for every empty bucket before the oldest one in use.
NextFree(now) ==
    LET idx_new == compute_index(time_diff(now))
        after(k) == (idx_new + k) % Buckets
        stop == Min({k \in 1 .. Buckets :
                        \/ Updated(now).toa_sum_ms[after(k)] # 0
                        \/ after(k) = band.index_previous})
    IN (Unit - (now % Unit)) + (stop - 1) * Unit

----------------------------------------------------------------------------
\* One tick of the clock; a frame is not on the air for longer than it is.
Tick ==
    /\ toa # 0 => left > 0
    /\ clock' = (clock + 1) % Width
    /\ left' = IF left > 0 THEN left - 1 ELSE 0
    /\ air' = [age \in 0 .. Kept |-> IF age = 0 THEN 0 ELSE air[age - 1]]
    /\ UNCHANGED <<enabled, band, toa, frames>>

\* The MAC starts a frame: update, then a free channel of the band.
Send(ms) ==
    /\ toa = 0 /\ frames < MaxFrames
    /\ frames' = frames + 1
    /\ Free(Updated(clock))
    /\ band' = Updated(clock)
    /\ toa' = ms /\ left' = ms
    /\ UNCHANGED <<clock, enabled, air>>

\* The MAC finds no channel, or the engine asks for the next free time, which
\* returns before the update when the duty cycle is not enforced.
Ask ==
    /\ enabled = "enabled"
    /\ band' = Updated(clock)
    /\ UNCHANGED <<clock, enabled, toa, left, frames, air>>

\* TX done: the launch callback has the frame summed unless nothing is counted.
Sent ==
    /\ toa # 0 /\ left = 0
    /\ toa' = 0
    /\ IF enabled = "full disabled"
       THEN UNCHANGED <<band, air>>
       ELSE /\ band' = Summed(clock, toa)
            /\ air' = [air EXCEPT ![0] = @ + toa]
    /\ UNCHANGED <<clock, enabled, left, frames>>

\* smtc_duty_cycle_enable_set: an emergency, the host's test, and their end.
Enable(mode) ==
    /\ mode # enabled
    /\ enabled' = mode
    /\ UNCHANGED <<clock, band, toa, left, frames, air>>

Next ==
    \/ Tick
    \/ \E ms \in Airtimes : Send(ms)
    \/ Ask
    \/ Sent
    \/ \E mode \in Modes : Enable(mode)

Spec == Init /\ [][Next]_vars

----------------------------------------------------------------------------
\* The ring never counts less than was on the air in the last Kept ticks,
\* whatever the frames, the updates, the modes and the wrap of the clock did to
\* its buckets.
Remembered ==
    Consumed(band) >= SumFunction(air)

\* A full band frees time exactly when get_next_free_time_ms says, neither a
\* tick earlier nor later, unless the clock wrapped since the last sum.
WaitsExactly ==
    LET now  == Updated(clock)
        wait == NextFree(clock)
        used(w) == Consumed(Updated((clock + w) % Width))
    IN (Available(now) <= 0 /\ now.toa_timestamp_ms <= clock)
         => /\ used(wait) < Consumed(now)
            /\ used(wait - 1) = Consumed(now)
=============================================================================
