------------------------------- MODULE Scale -------------------------------
(***************************************************************************)
(* scale_samples of player.c: the consumer scales what it is about to write*)
(* to the device, in the buffer; what the device does not take is written  *)
(* again, and must not be scaled again.  Positions are counted in frames,  *)
(* of which plug-ins give and devices take whole ones.  The arithmetic is  *)
(* that of the code with narrow words.                                     *)
(* A definition under the comment "Fault" is the one after it with a       *)
(* plausible bug, and no part of the model.                                *)
(***************************************************************************)
EXTENDS Integers

CONSTANTS
    MaxFrames,       \* frames between two resets of the buffer, a bound
    SOFT_VOL_SCALE,  \* the volume that changes nothing, an even number
    Volumes,         \* what l and r may be
    MaxSample        \* INT16_MAX, 0x7fffff, INT32_MAX

ASSUME ScaleAssumption ==
    /\ MaxFrames \in Nat /\ MaxSample \in Nat
    /\ SOFT_VOL_SCALE \in Nat \ {0} /\ SOFT_VOL_SCALE % 2 = 0
    /\ SOFT_VOL_SCALE <= 2 * (MaxSample + 1)       \* 65536 values of 16 bits
    /\ Volumes \subseteq Nat /\ SOFT_VOL_SCALE \in Volumes

MinSample == -MaxSample - 1
Samples == MinSample .. MaxSample
Channels == {"l", "r"}

(* Formats of two channels that are scaled, and all others.                *)
Formats == {"s16", "s24le", "s32", "other"}

VARIABLES
    consumer_pos,  \* written to the device
    scale_pos,     \* scaled
    filled,        \* filled by the producer
    sf,            \* buffer_sf
    scaling,       \* soft_vol || replaygain
    volume,        \* l and r, of soft_vol and the replaygain
    times,         \* history: how often each sample was scaled
    asked          \* history: the channels asked for when it was due

scale_vars == <<consumer_pos, scale_pos, filled, sf, scaling, volume, times,
                asked>>

Frames == 0 .. MaxFrames - 1

ScaleInit ==
    /\ consumer_pos = 0 /\ scale_pos = 0 /\ filled = 0
    /\ sf = "other" /\ scaling = FALSE
    /\ volume = [c \in Channels |-> SOFT_VOL_SCALE]
    /\ times = [p \in Frames |-> [c \in Channels |-> 0]]
    /\ asked = [p \in Frames |-> {}]

(* reset_buffer and set_buffer_sf.                                         *)
ResetBuffer ==
    /\ consumer_pos' = 0 /\ scale_pos' = 0 /\ filled' = 0
    /\ sf' \in Formats
    /\ times' = [p \in Frames |-> [c \in Channels |-> 0]]
    /\ asked' = [p \in Frames |-> {}]
    /\ UNCHANGED <<scaling, volume>>

Fill ==
    /\ filled < MaxFrames /\ filled' = filled + 1
    /\ UNCHANGED <<consumer_pos, scale_pos, sf, scaling, volume, times, asked>>

(* The user turns the volume, or another track has another gain.           *)
SetVolume ==
    /\ volume' \in [Channels -> Volumes]
    /\ UNCHANGED <<consumer_pos, scale_pos, filled, sf, scaling, times, asked>>

(* player_set_soft_vol and player_set_rg, which player.h declares: while   *)
(* nothing is scaled scale_pos stays behind, and scale_samples expects that*)
(* whoever asks for scaling again brings it up to the device's position.   *)
SetScaling ==
    /\ scaling' = ~scaling
    /\ scale_pos' = IF scaling' /\ scale_pos < consumer_pos THEN consumer_pos
                                                            ELSE scale_pos
    /\ UNCHANGED <<consumer_pos, filled, sf, volume, times, asked>>

(* The channels that SCALE_SAMPLES and scale_samples_s24le go over.        *)
Asked == IF sf = "other" THEN {} ELSE {c \in Channels : volume[c] # SOFT_VOL_SCALE}

(* How often they scale a sample of the frames first .. end - 1.  The loop *)
(* of scale_samples_s24le for the right channel alone stays on its first   *)
(* sample.                                                                 *)
TimesScaled(p, c, first, end) ==
    IF c \notin Asked \/ p \notin first .. end - 1 THEN 0
    ELSE IF sf = "s24le" /\ Asked = {"r"} /\ p = first THEN end - first
    ELSE IF sf = "s24le" /\ Asked = {"r"} THEN 0
    ELSE 1

(* Fault: what was scaled and not written is scaled again.                 *)
ScaleSamplesAgain(size) ==
    LET end == consumer_pos + size
    IN  /\ scale_pos' = IF end > scale_pos THEN end ELSE scale_pos
        /\ times' = [p \in Frames |-> [c \in Channels |->
                        times[p][c] + TimesScaled(p, c, consumer_pos, end)]]
        /\ asked' = [p \in Frames |->
                        IF p \in scale_pos .. end - 1 THEN Asked ELSE asked[p]]

(* scale_samples with the next size frames.                                *)
ScaleSamples(size) ==
    LET end == consumer_pos + size
    IN  IF scale_pos >= end THEN UNCHANGED <<scale_pos, times, asked>>
        ELSE /\ scale_pos' = end
             /\ times' = [p \in Frames |-> [c \in Channels |->
                             times[p][c] + TimesScaled(p, c, scale_pos, end)]]
             /\ asked' = [p \in Frames |->
                             IF p \in scale_pos .. end - 1 THEN Asked ELSE asked[p]]

(* consumer_loop: there is room for size frames, and the device takes rc.  *)
ConsumerWrite ==
    \E size \in 1 .. filled - consumer_pos :
        /\ \/ scaling /\ ScaleSamples(size)
           \/ ~scaling /\ UNCHANGED <<scale_pos, times, asked>>
        /\ \E rc \in 0 .. size : consumer_pos' = consumer_pos + rc
        /\ UNCHANGED <<filled, sf, scaling, volume>>

ScaleNext == ResetBuffer \/ Fill \/ SetVolume \/ SetScaling \/ ConsumerWrite

ScaleSpec == ScaleInit /\ [][ScaleNext]_scale_vars

-----------------------------------------------------------------------------
(* scale_sample_int16_t, scale_sample_s24le, scale_sample_int32_t.         *)

(* Division of C, towards zero.                                            *)
Quotient(a, b) == IF a < 0 THEN -((-a) \div b) ELSE a \div b

(* The low bits of x, as a signed number of n values.                      *)
Signed(x, n) == LET low == x % n IN IF low >= n \div 2 THEN low - n ELSE low
NrSamples == 2 * (MaxSample + 1)

Clipped(x) == IF x < MinSample THEN MinSample
              ELSE IF x > MaxSample THEN MaxSample ELSE x

Half(s) == IF s < 0 THEN -(SOFT_VOL_SCALE \div 2) ELSE SOFT_VOL_SCALE \div 2

(* The product of 16-bit samples has 32 bits; one that is not negative is  *)
(* left alone, and one that is too low becomes INT16_MAX.                  *)
Scaled16(s, vol) ==
    LET product == Signed(s * vol + Half(s), NrSamples * NrSamples)
        x == Quotient(product, SOFT_VOL_SCALE)
    IN  IF s >= 0 THEN s
        ELSE Signed(IF x < MinSample THEN MaxSample ELSE x, NrSamples)

(* Fault: samples are not clipped.                                         *)
ScaledUnclipped(s, vol) ==
    Signed(Quotient(s * vol + Half(s), SOFT_VOL_SCALE), NrSamples)

ScaledWide(s, vol) ==
    Signed(Clipped(Quotient(s * vol + Half(s), SOFT_VOL_SCALE)), NrSamples)

Abs(x) == IF x < 0 THEN -x ELSE x

(* What the device gets was scaled once for each channel whose volume      *)
(* asked for it when it was due, however the writes were cut, and nothing  *)
(* else was, also when scaling is turned off and on in between.  Only right*)
(* channels of 24 bits alone are not.  Where samples are scaled the        *)
(* position that BUG_ON looks at is not behind the device's.               *)
ScaledOnce ==
    /\ scaling => consumer_pos <= scale_pos
    /\ \A p \in Frames, c \in Channels :
          \/ times[p][c] = IF c \in asked[p] THEN 1 ELSE 0
          \/ sf = "s24le" /\ asked[p] = {"r"}

(* A scaled sample of 24 or 32 bits is the nearest there is to the exact   *)
(* product.  One of 16 bits is when it is negative, its product fits, and  *)
(* the result is not too low for a sample.                                 *)
NearestSample ==
    \A s \in Samples, c \in Channels :
        LET vol == volume[c]
            Nearest(x) == \A y \in Samples :
                Abs(x * SOFT_VOL_SCALE - s * vol) <= Abs(y * SOFT_VOL_SCALE - s * vol)
        IN  /\ sf \in {"s24le", "s32"} =>
                  ScaledWide(s, vol) \in Samples /\ Nearest(ScaledWide(s, vol))
            /\ sf = "s16" /\ s < 0 /\ s * vol + Half(s) >= MinSample * SOFT_VOL_SCALE =>
                  Nearest(Scaled16(s, vol))
=============================================================================
