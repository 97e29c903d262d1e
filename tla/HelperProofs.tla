---------------------------- MODULE HelperProofs ----------------------------
(***************************************************************************)
(* format_str fills its field, scale_samples scales each sample once and   *)
(* to the nearest there is, find_ape_tag_slow finds the first preamble that*)
(* nothing hides, and ape_parse_one stays inside the tag: for every width  *)
(* and text, number of frames, volume, width of samples, file, preamble    *)
(* and length of read.                                                     *)
(***************************************************************************)
EXTENDS Format, Scale, Ape, TLAPS

-----------------------------------------------------------------------------
(* Scale.                                                                  *)

(* What was not scaled yet has no history.                                 *)
Untouched ==
    \A p \in Frames : p >= scale_pos =>
        asked[p] = {} /\ \A c \in Channels : times[p][c] = 0

Once ==
    \A p \in Frames, c \in Channels :
        \/ times[p][c] = IF c \in asked[p] THEN 1 ELSE 0
        \/ sf = "s24le" /\ asked[p] = {"r"}

ScalePositions ==
    /\ consumer_pos \in Nat /\ scale_pos \in Nat /\ filled \in Nat
    /\ consumer_pos <= filled /\ scale_pos <= filled
    /\ scaling \in BOOLEAN
    /\ scaling => consumer_pos <= scale_pos

ScaleInv == ScalePositions /\ Untouched /\ Once

(* A frame that becomes due is scaled as it was asked for.                 *)
LEMMA DueFrame ==
    ASSUME NEW first \in Nat, NEW end \in Nat, NEW p \in first .. end - 1,
           NEW c \in Channels
    PROVE  \/ TimesScaled(p, c, first, end) = (IF c \in Asked THEN 1 ELSE 0)
           \/ sf = "s24le" /\ Asked = {"r"}
BY DEF TimesScaled

(* No other frame is.                                                      *)
LEMMA OtherFrame ==
    ASSUME NEW first \in Nat, NEW end \in Nat, NEW p \in Int,
           NEW c \in Channels, p < first \/ p >= end
    PROVE  TimesScaled(p, c, first, end) = 0
<1>1. p \notin first .. end - 1
  OBVIOUS
<1> QED
  BY <1>1 DEF TimesScaled

(* A new buffer starts with nothing scaled.                                *)
LEMMA ScaleResetKeeps == ASSUME ScaleInv, ResetBuffer PROVE ScaleInv'
<1>1. /\ \A p \in Frames : asked'[p] = {}
      /\ \A p \in Frames, c \in Channels : times'[p][c] = 0
  BY DEF ResetBuffer
<1>2. ScalePositions'
  BY DEF ResetBuffer, ScaleInv, ScalePositions
<1> QED
  BY <1>1, <1>2 DEF ScaleInv, Untouched, Once, Frames, Channels

(* The next n_frames frames are scaled from scale_pos on.                  *)
LEMMA ScaleSamplesKeeps ==
    ASSUME ScaleInv, NEW n_frames \in 1 .. filled - consumer_pos,
           ScaleSamples(n_frames), UNCHANGED sf,
           NEW to, to = IF scale_pos >= consumer_pos + n_frames THEN scale_pos
                        ELSE consumer_pos + n_frames
    PROVE  /\ scale_pos' = to
           /\ \A p \in Frames : p >= to =>
                 asked'[p] = {} /\ \A c \in Channels : times'[p][c] = 0
           /\ Once'
<1> DEFINE end == consumer_pos + n_frames
<1>0. /\ consumer_pos \in Nat /\ scale_pos \in Nat /\ end \in Nat
      /\ Frames \subseteq Int
  BY DEF ScaleInv, ScalePositions, Frames
<1>1. CASE scale_pos >= end
  <2>1. UNCHANGED <<scale_pos, times, asked>> /\ to = scale_pos
    BY <1>1 DEF ScaleSamples
  <2> QED
    BY <2>1 DEF ScaleInv, Untouched, Once
<1>2. CASE scale_pos < end
  <2>1. /\ scale_pos' = end /\ to = end
        /\ \A p \in Frames, c \in Channels : times'[p][c] =
              times[p][c] + TimesScaled(p, c, scale_pos, end)
        /\ \A p \in Frames : asked'[p] =
              IF p \in scale_pos .. end - 1 THEN Asked ELSE asked[p]
    BY <1>0, <1>2 DEF ScaleSamples
  <2> HIDE DEF end
  <2>2. ASSUME NEW p \in Frames, p >= end, NEW c \in Channels
        PROVE  asked'[p] = {} /\ times'[p][c] = 0
    <3>1. p >= scale_pos /\ p \notin scale_pos .. end - 1
      BY <1>0, <1>2, <2>2
    <3>2. asked[p] = {} /\ times[p][c] = 0
      BY <3>1 DEF ScaleInv, Untouched
    <3>3. TimesScaled(p, c, scale_pos, end) = 0
      BY <1>0, <2>2, OtherFrame
    <3> QED
      BY <2>1, <3>1, <3>2, <3>3
  <2>3. ASSUME NEW p \in Frames, NEW c \in Channels
        PROVE  \/ times'[p][c] = IF c \in asked'[p] THEN 1 ELSE 0
               \/ sf' = "s24le" /\ asked'[p] = {"r"}
    <3>1. CASE p \in scale_pos .. end - 1
      <4>1. asked'[p] = Asked /\ times[p][c] = 0
        BY <1>0, <2>1, <3>1 DEF ScaleInv, Untouched
      <4>2. \/ TimesScaled(p, c, scale_pos, end) = (IF c \in Asked THEN 1 ELSE 0)
            \/ sf = "s24le" /\ Asked = {"r"}
        BY <1>0, <3>1, DueFrame
      <4>3. times'[p][c] = 0 + TimesScaled(p, c, scale_pos, end)
        BY <2>1, <4>1
      <4> QED
        BY <4>1, <4>2, <4>3
    <3>2. CASE p \notin scale_pos .. end - 1
      <4>1. p < scale_pos \/ p >= end
        BY <1>0, <3>2
      <4>2. asked'[p] = asked[p] /\ times'[p][c] = times[p][c] + 0
        BY <1>0, <2>1, <3>2, <4>1, OtherFrame
      <4>3. \/ times[p][c] = IF c \in asked[p] THEN 1 ELSE 0
            \/ sf = "s24le" /\ asked[p] = {"r"}
        BY DEF ScaleInv, Once
      <4> QED
        BY <4>2, <4>3
    <3> QED
      BY <3>1, <3>2
  <2>4. \A p \in Frames : p >= end =>
           asked'[p] = {} /\ \A c \in Channels : times'[p][c] = 0
    BY <2>2 DEF Channels
  <2> QED
    BY <2>1, <2>3, <2>4 DEF Once
<1> QED
  BY <1>0, <1>1, <1>2

(* A write that the device takes in part keeps the invariant.              *)
LEMMA ConsumerWriteKeeps == ASSUME ScaleInv, ConsumerWrite PROVE ScaleInv'
<1>0. ScalePositions
  BY DEF ScaleInv
<1>1. PICK n_frames \in 1 .. filled - consumer_pos :
         /\ \/ scaling /\ ScaleSamples(n_frames)
            \/ ~scaling /\ UNCHANGED <<scale_pos, times, asked>>
         /\ \E rc \in 0 .. n_frames : consumer_pos' = consumer_pos + rc
         /\ UNCHANGED <<filled, sf, scaling, volume>>
  BY DEF ConsumerWrite
<1>2. PICK rc \in 0 .. n_frames : consumer_pos' = consumer_pos + rc
  BY <1>1
<1> DEFINE to == IF scale_pos >= consumer_pos + n_frames THEN scale_pos
                 ELSE consumer_pos + n_frames
<1>3. /\ to \in Nat /\ consumer_pos + rc \in Nat
      /\ consumer_pos + rc <= to /\ to <= filled /\ consumer_pos + rc <= filled
  BY <1>0 DEF ScalePositions
<1>4. CASE scaling /\ ScaleSamples(n_frames)
  <2>1. /\ scale_pos' = to
        /\ \A p \in Frames : p >= to =>
              asked'[p] = {} /\ \A c \in Channels : times'[p][c] = 0
        /\ Once'
    BY <1>1, <1>4, ScaleSamplesKeeps
  <2> HIDE DEF to
  <2>2. ScalePositions'
    BY <1>0, <1>1, <1>2, <1>3, <2>1 DEF ScalePositions
  <2>3. Untouched'
    BY <2>1 DEF Untouched, Frames
  <2> QED
    BY <2>1, <2>2, <2>3 DEF ScaleInv
<1>5. CASE ~scaling /\ UNCHANGED <<scale_pos, times, asked>>
  <2>1. UNCHANGED <<scale_pos, times, asked, filled, sf, scaling>>
    BY <1>1, <1>5
  <2>2. ScalePositions'
    BY <1>0, <1>2, <1>3, <1>5, <2>1 DEF ScalePositions
  <2>3. Untouched' /\ Once'
    BY <2>1 DEF ScaleInv, Untouched, Once
  <2> QED
    BY <2>2, <2>3 DEF ScaleInv
<1> QED
  BY <1>1, <1>4, <1>5

(* Scaling that is turned on starts at the position of the device, or      *)
(* behind what is scaled already.                                          *)
LEMMA SetScalingKeeps == ASSUME ScaleInv, SetScaling PROVE ScaleInv'
<1>0. ScalePositions
  BY DEF ScaleInv
<1>1. UNCHANGED <<consumer_pos, filled, sf, times, asked>>
  BY DEF SetScaling
<1>2. /\ scaling' = ~scaling
      /\ scale_pos' = IF scaling' /\ scale_pos < consumer_pos THEN consumer_pos
                                                              ELSE scale_pos
  BY DEF SetScaling
<1>3. scale_pos' \in Nat /\ scale_pos' <= filled /\ scale_pos <= scale_pos'
  BY <1>0, <1>2 DEF ScalePositions
<1>4. ScalePositions'
  <2>1. scaling' => consumer_pos <= scale_pos'
    BY <1>0, <1>2 DEF ScalePositions
  <2> QED
    BY <1>0, <1>1, <1>2, <1>3, <2>1 DEF ScalePositions
<1>5. Untouched'
  <2>1. ASSUME NEW p \in Frames, p >= scale_pos'
        PROVE  p >= scale_pos
    BY <1>0, <1>3, <2>1 DEF ScalePositions, Frames
  <2> QED
    BY <1>1, <2>1 DEF ScaleInv, Untouched
<1>6. Once'
  BY <1>1 DEF ScaleInv, Once
<1> QED
  BY <1>4, <1>5, <1>6 DEF ScaleInv

(* An empty buffer of any size satisfies the invariant.                    *)
LEMMA ScaleInitInv == ScaleInit => ScaleInv
<1> SUFFICES ASSUME ScaleInit PROVE ScaleInv
  OBVIOUS
<1>1. /\ \A p \in Frames : asked[p] = {}
      /\ \A p \in Frames, c \in Channels : times[p][c] = 0
  BY DEF ScaleInit
<1>2. ScalePositions
  <2>1. scaling \in BOOLEAN /\ ~scaling
    BY ZenonT(30) DEF ScaleInit
  <2>2. consumer_pos = 0 /\ scale_pos = 0 /\ filled = 0
    BY DEF ScaleInit
  <2> QED
    BY <2>1, <2>2 DEF ScalePositions
<1>3. Untouched
  BY <1>1 DEF Untouched
<1>4. Once
  <2>1. ASSUME NEW p \in Frames, NEW c \in Channels
        PROVE  times[p][c] = IF c \in asked[p] THEN 1 ELSE 0
    BY <1>1
  <2> QED
    BY <2>1 DEF Once
<1> QED
  BY <1>2, <1>3, <1>4 DEF ScaleInv

(* Every operation on the buffer keeps the invariant.                      *)
LEMMA ScaleStepInv == ScaleInv /\ [ScaleNext]_scale_vars => ScaleInv'
<1> SUFFICES ASSUME ScaleInv, [ScaleNext]_scale_vars PROVE ScaleInv'
  OBVIOUS
<1>1. CASE ResetBuffer
  BY <1>1, ScaleResetKeeps
<1>2. CASE Fill
  <2>1. UNCHANGED <<consumer_pos, scale_pos, sf, scaling, times, asked>>
    BY <1>2 DEF Fill
  <2>2. filled' = filled + 1
    BY <1>2 DEF Fill
  <2>3. /\ filled + 1 \in Nat
        /\ scale_pos <= filled + 1 /\ consumer_pos <= filled + 1
    BY DEF ScaleInv, ScalePositions
  <2> QED
    BY <2>1, <2>2, <2>3 DEF ScaleInv, ScalePositions, Untouched, Once
<1>3. CASE SetVolume
  BY <1>3 DEF SetVolume, ScaleInv, ScalePositions, Untouched, Once
<1>4. CASE ConsumerWrite
  BY <1>4, ConsumerWriteKeeps
<1>5. CASE SetScaling
  BY <1>5, SetScalingKeeps
<1>6. CASE UNCHANGED scale_vars
  BY <1>6 DEF scale_vars, ScaleInv, ScalePositions, Untouched, Once
<1> QED
  BY <1>1, <1>2, <1>3, <1>4, <1>5, <1>6 DEF ScaleNext

(* However the writes are cut, whatever the volume and the resets, and     *)
(* whenever scaling is turned on and off, each sample is scaled once if the*)
(* volume asks for it when it is due, but for right channels of 24 bits    *)
(* alone (consumer_loop, scale_samples, scale_samples_s24le).              *)
THEOREM AlwaysScaledOnce == ScaleSpec => []ScaledOnce
<1>1. ScaleInv => ScaledOnce
  BY DEF ScaleInv, ScalePositions, Once, ScaledOnce
<1> QED
  BY <1>1, ScaleInitInv, ScaleStepInv, PTL DEF ScaleSpec

-----------------------------------------------------------------------------
(* The arithmetic of the samples.                                          *)

(* Multiples of S are in the order of their factors.                       *)
LEMMA Multiples ==
    ASSUME NEW S \in Nat, NEW a \in Int, NEW b \in Int, a <= b
    PROVE  a * S <= b * S
OBVIOUS

(* A multiple of S that is at most half of S away is the nearest one.      *)
LEMMA NearestMultiple ==
    ASSUME NEW S \in Nat \ {0}, NEW h \in Nat, S = 2 * h, NEW e \in Int,
           NEW x \in Int, x * S - e \in -h .. h, NEW y \in Int
    PROVE  Abs(x * S - e) <= Abs(y * S - e)
<1>1. CASE y = x
  BY <1>1 DEF Abs
<1>2. CASE y > x
  <2>1. (x + 1) * S <= y * S
    BY <1>2, Multiples
  <2>2. (x + 1) * S = x * S + S
    OBVIOUS
  <2> DEFINE xs == x * S
             ys == y * S
  <2>3. xs \in Int /\ ys \in Int /\ xs + S <= ys /\ xs - e \in -h .. h
    BY <2>1, <2>2
  <2> HIDE DEF xs, ys
  <2>4. Abs(xs - e) <= Abs(ys - e)
    BY <2>3 DEF Abs
  <2> QED
    BY <2>4 DEF xs, ys
<1>3. CASE y < x
  <2>1. y * S <= (x - 1) * S
    BY <1>3, Multiples
  <2>2. (x - 1) * S = x * S - S
    OBVIOUS
  <2> DEFINE xs == x * S
             ys == y * S
  <2>3. xs \in Int /\ ys \in Int /\ ys <= xs - S /\ xs - e \in -h .. h
    BY <2>1, <2>2
  <2> HIDE DEF xs, ys
  <2>4. Abs(xs - e) <= Abs(ys - e)
    BY <2>3 DEF Abs
  <2> QED
    BY <2>4 DEF xs, ys
<1> QED
  BY <1>1, <1>2, <1>3

(* The quotient of a number that is not negative.                          *)
LEMMA DivisionBounds ==
    ASSUME NEW S \in Nat \ {0}, NEW a \in Nat
    PROVE  /\ a \div S \in Nat
           /\ (a \div S) * S <= a /\ a < (a \div S) * S + S
OBVIOUS

(* Half of SOFT_VOL_SCALE.                                                 *)
LEMMA HalfScale ==
    /\ SOFT_VOL_SCALE \div 2 \in Nat \ {0}
    /\ SOFT_VOL_SCALE = 2 * (SOFT_VOL_SCALE \div 2)
BY ScaleAssumption

(* Adding a half away from zero and dividing towards zero rounds.          *)
LEMMA QuotientRounds ==
    ASSUME NEW s \in Int, NEW e \in Int, s < 0 => e <= 0, s >= 0 => e >= 0
    PROVE  /\ Quotient(e + Half(s), SOFT_VOL_SCALE) \in Int
           /\ s < 0 => Quotient(e + Half(s), SOFT_VOL_SCALE) <= 0
           /\ Quotient(e + Half(s), SOFT_VOL_SCALE) * SOFT_VOL_SCALE - e
                 \in -(SOFT_VOL_SCALE \div 2) .. SOFT_VOL_SCALE \div 2
<1> DEFINE h == SOFT_VOL_SCALE \div 2
           S == SOFT_VOL_SCALE
<1>0. h \in Nat \ {0} /\ S = 2 * h /\ S \in Nat \ {0}
  BY HalfScale, ScaleAssumption
<1>1. CASE s < 0
  <2>1. Half(s) = -h
    BY <1>1 DEF Half
  <2> DEFINE a == h - e
             q == a \div S
  <2>2. a \in Nat /\ e + Half(s) < 0 /\ -(e + Half(s)) = a
    <3> HIDE DEF h
    <3> QED
      BY <1>0, <1>1, <2>1
  <2>3. Quotient(e + Half(s), S) = -q
    BY <2>2 DEF Quotient
  <2> HIDE DEF h, S, a
  <2>4. q \in Nat /\ q * S <= a /\ a < q * S + S
    BY <1>0, <2>2, DivisionBounds
  <2> HIDE DEF q
  <2>5. (-q) * S = -(q * S)
    BY <1>0, <2>4
  <2> DEFINE qs == q * S
  <2>6. qs \in Int
    BY <1>0, <2>4
  <2> HIDE DEF qs
  <2>7. -qs - e \in -h .. h
    BY <1>0, <2>4, <2>6 DEF a, qs
  <2>8. /\ Quotient(e + Half(s), S) \in Int /\ Quotient(e + Half(s), S) <= 0
        /\ Quotient(e + Half(s), S) * S - e \in -h .. h
    BY <2>3, <2>4, <2>5, <2>7 DEF qs
  <2> QED
    BY <2>8 DEF h, S
<1>2. CASE s >= 0
  <2>1. Half(s) = h
    BY <1>2 DEF Half
  <2> DEFINE a == e + h
             q == a \div S
  <2>2. a \in Nat /\ ~(e + Half(s) < 0) /\ e + Half(s) = a
    <3> HIDE DEF h
    <3> QED
      BY <1>0, <1>2, <2>1
  <2>3. Quotient(e + Half(s), S) = q
    BY <2>2 DEF Quotient
  <2> HIDE DEF h, S, a
  <2>4. q \in Nat /\ q * S <= a /\ a < q * S + S
    BY <1>0, <2>2, DivisionBounds
  <2> HIDE DEF q
  <2> DEFINE qs == q * S
  <2>6. qs \in Int
    BY <1>0, <2>4
  <2> HIDE DEF qs
  <2>7. qs - e \in -h .. h
    BY <1>0, <2>4, <2>6 DEF a, qs
  <2>8. /\ Quotient(e + Half(s), S) \in Int
        /\ Quotient(e + Half(s), S) * S - e \in -h .. h
    BY <2>3, <2>4, <2>7 DEF qs
  <2> QED
    BY <1>2, <2>8 DEF h, S
<1> QED
  BY <1>1, <1>2

(* A number that fits its word stays what it is.                           *)
LEMMA SignedFits ==
    ASSUME NEW k \in Nat \ {0}, NEW x \in -k .. k - 1
    PROVE  Signed(x, 2 * k) = x
<1>1. CASE x >= 0
  <2>1. x % (2 * k) = x
    BY <1>1
  <2> QED
    BY <2>1 DEF Signed
<1>2. CASE x < 0
  <2>1. x % (2 * k) = x + 2 * k
    BY <1>2
  <2> QED
    BY <1>2, <2>1 DEF Signed
<1> QED
  BY <1>1, <1>2

(* A sample fits in its word.                                              *)
LEMMA SampleFits == \A x \in Samples : Signed(x, NrSamples) = x
<1> DEFINE k == MaxSample + 1
<1>1. k \in Nat \ {0} /\ NrSamples = 2 * k
  BY ScaleAssumption DEF NrSamples
<1>2. Samples = -k .. k - 1
  BY ScaleAssumption DEF Samples, MinSample
<1> HIDE DEF k
<1> QED
  BY <1>1, <1>2, SignedFits

(* Clipping gives the sample next to a number, and so the nearest one.     *)
LEMMA ClippedNearest ==
    ASSUME NEW S \in Nat \ {0}, NEW h \in Nat, S = 2 * h, NEW e \in Int,
           NEW x \in Int, x * S - e \in -h .. h, NEW y \in Samples
    PROVE  /\ Clipped(x) \in Samples
           /\ Abs(Clipped(x) * S - e) <= Abs(y * S - e)
<1>0. /\ MinSample \in Int /\ MaxSample \in Int /\ MinSample <= MaxSample
      /\ y \in Int /\ MinSample <= y /\ y <= MaxSample
  BY ScaleAssumption DEF Samples, MinSample
<1> DEFINE xs == x * S
           ys == y * S
<1>1. xs \in Int /\ ys \in Int /\ xs - e \in -h .. h
  BY <1>0
<1>2. CASE x < MinSample
  <2> DEFINE ms == MinSample * S
  <2>1. Clipped(x) = MinSample
    BY <1>2 DEF Clipped
  <2>2. (x + 1) * S <= ms /\ (x + 1) * S = xs + S /\ ms <= ys /\ ms \in Int
    BY <1>0, <1>2, Multiples
  <2> HIDE DEF xs, ys, ms
  <2>3. Abs(ms - e) <= Abs(ys - e)
    BY <1>1, <2>2 DEF Abs
  <2> QED
    BY <1>0, <2>1, <2>3 DEF ms, ys, Samples
<1>3. CASE x > MaxSample
  <2> DEFINE ms == MaxSample * S
  <2>1. Clipped(x) = MaxSample
    BY <1>0, <1>3 DEF Clipped
  <2>2. ms <= (x - 1) * S /\ (x - 1) * S = xs - S /\ ys <= ms /\ ms \in Int
    BY <1>0, <1>3, Multiples
  <2> HIDE DEF xs, ys, ms
  <2>3. Abs(ms - e) <= Abs(ys - e)
    BY <1>1, <2>2 DEF Abs
  <2> QED
    BY <1>0, <2>1, <2>3 DEF ms, ys, Samples
<1>4. CASE ~(x < MinSample) /\ ~(x > MaxSample)
  <2>1. Clipped(x) = x /\ x \in Samples
    BY <1>0, <1>4 DEF Clipped, Samples
  <2>2. Abs(x * S - e) <= Abs(y * S - e)
    BY <1>0, NearestMultiple
  <2> QED
    BY <2>1, <2>2
<1> QED
  BY <1>2, <1>3, <1>4

(* The exact product has the sign of the sample.                           *)
LEMMA ProductSign ==
    ASSUME NEW s \in Int, NEW vol \in Nat
    PROVE  s * vol \in Int /\ (s < 0 => s * vol <= 0) /\ (s >= 0 => s * vol >= 0)
OBVIOUS

(* scale_sample_s24le and scale_sample_int32_t give the nearest sample.    *)
LEMMA WideNearest ==
    ASSUME NEW s \in Samples, NEW vol \in Volumes, NEW y \in Samples
    PROVE  /\ ScaledWide(s, vol) \in Samples
           /\ Abs(ScaledWide(s, vol) * SOFT_VOL_SCALE - s * vol)
                <= Abs(y * SOFT_VOL_SCALE - s * vol)
<1> DEFINE e == s * vol
           x == Quotient(e + Half(s), SOFT_VOL_SCALE)
<1>1. s \in Int /\ vol \in Nat /\ SOFT_VOL_SCALE \in Nat \ {0}
  BY ScaleAssumption DEF Samples, MinSample
<1>2. e \in Int /\ (s < 0 => e <= 0) /\ (s >= 0 => e >= 0)
  BY <1>1, ProductSign
<1>3. ScaledWide(s, vol) = Signed(Clipped(x), NrSamples)
  BY DEF ScaledWide
<1> HIDE DEF e
<1>4. /\ x \in Int
      /\ x * SOFT_VOL_SCALE - e \in -(SOFT_VOL_SCALE \div 2) .. SOFT_VOL_SCALE \div 2
  BY <1>1, <1>2, QuotientRounds
<1> HIDE DEF x
<1>5. /\ Clipped(x) \in Samples
      /\ Abs(Clipped(x) * SOFT_VOL_SCALE - e) <= Abs(y * SOFT_VOL_SCALE - e)
  BY <1>1, <1>2, <1>4, HalfScale, ClippedNearest
<1>6. ScaledWide(s, vol) = Clipped(x)
  BY <1>3, <1>5, SampleFits
<1> QED
  BY <1>5, <1>6 DEF e

(* scale_sample_int16_t gives the nearest sample when it scales, and the   *)
(* product is not too low.                                                 *)
LEMMA NarrowNearest ==
    ASSUME NEW s \in Samples, NEW vol \in Volumes, NEW y \in Samples, s < 0,
           s * vol + Half(s) >= MinSample * SOFT_VOL_SCALE
    PROVE  Abs(Scaled16(s, vol) * SOFT_VOL_SCALE - s * vol)
                <= Abs(y * SOFT_VOL_SCALE - s * vol)
<1> DEFINE e == s * vol
           S == SOFT_VOL_SCALE
           h == S \div 2
           K == MaxSample + 1
           p == e + Half(s)
           x == Quotient(p, S)
           product == Signed(p, NrSamples * NrSamples)
<1>1. /\ s \in Int /\ vol \in Nat /\ S \in Nat \ {0} /\ y \in Int
      /\ K \in Nat \ {0} /\ S <= 2 * K /\ NrSamples = 2 * K /\ MinSample = -K
      /\ Samples = -K .. K - 1
  BY ScaleAssumption DEF Samples, MinSample, NrSamples
<1>2. e \in Int /\ e <= 0
  BY <1>1, ProductSign
<1>3. h \in Nat \ {0} /\ S = 2 * h
  BY HalfScale
<1>4. p >= (-K) * S
  BY <1>1
<1>5. Scaled16(s, vol) =
         LET z == Quotient(product, S)
         IN  Signed(IF z < MinSample THEN MaxSample ELSE z, NrSamples)
  BY <1>1 DEF Scaled16
<1> HIDE DEF e, K
<1>6. /\ x \in Int /\ x <= 0 /\ x * S - e \in -h .. h
  <2>1. s \in Int /\ s < 0 /\ e \in Int /\ (s < 0 => e <= 0) /\ (s >= 0 => e >= 0)
    BY <1>1, <1>2
  <2> HIDE DEF x
  <2>2. /\ Quotient(e + Half(s), S) \in Int
        /\ s < 0 => Quotient(e + Half(s), S) <= 0
        /\ Quotient(e + Half(s), S) * S - e \in -h .. h
    BY <2>1, QuotientRounds
  <2> QED
    BY <2>1, <2>2 DEF x
<1> HIDE DEF S
<1>7. p = e - h /\ p \in Int /\ p < 0
  <2>1. Half(s) = -h
    BY DEF Half, S
  <2> HIDE DEF h
  <2> QED
    BY <1>2, <1>3, <2>1
<1> HIDE DEF p
<1>8. product = p
  <2> DEFINE k == 2 * K * K
  <2>1. K * S <= k /\ k \in Nat \ {0}
    BY <1>1, <1>3
  <2>2. NrSamples * NrSamples = 2 * k
    BY <1>1
  <2>3. (-K) * S = -(K * S) /\ K * S \in Int
    BY <1>1
  <2> HIDE DEF k
  <2>4. p \in -k .. k - 1
    BY <1>4, <1>7, <2>1, <2>3
  <2>5. Signed(p, 2 * k) = p
    BY <2>1, <2>4, SignedFits
  <2> QED
    BY <2>2, <2>5
<1> HIDE DEF product
<1>9. x \in Samples
  <2>1. -p \in Nat /\ x = -((-p) \div S)
    BY <1>7 DEF Quotient
  <2> DEFINE q == (-p) \div S
  <2>2. q \in Nat /\ q * S <= -p
    BY <1>1, <2>1, DivisionBounds
  <2> HIDE DEF x
  <2>3. x = -q
    BY <2>1
  <2> HIDE DEF q
  <2>4. q <= K
    <3>1. SUFFICES ASSUME q >= K + 1 PROVE FALSE
      BY <1>1, <2>2
    <3>2. (K + 1) * S <= q * S /\ (K + 1) * S = K * S + S
      BY <1>1, <2>2, <3>1, Multiples
    <3>3. (-K) * S = -(K * S) /\ K * S \in Int /\ q * S \in Int
      BY <1>1, <2>2
    <3> DEFINE ks == K * S
               qs == q * S
    <3>4. qs <= -p /\ ks + S <= qs /\ p >= -ks /\ ks \in Int /\ qs \in Int
      BY <1>4, <2>2, <3>2, <3>3
    <3> HIDE DEF ks, qs
    <3> QED
      BY <1>1, <1>7, <3>4
  <2> QED
    BY <1>1, <2>2, <2>3, <2>4
<1> HIDE DEF x
<1>10. Scaled16(s, vol) = x
  <2>1. ~(x < MinSample)
    BY <1>1, <1>9
  <2>2. Scaled16(s, vol) = Signed(x, NrSamples)
    BY <1>5, <1>8, <2>1 DEF x
  <2> QED
    BY <1>9, <2>2, SampleFits
<1>11. Abs(x * S - e) <= Abs(y * S - e)
  <2> HIDE DEF h
  <2> QED
    BY <1>1, <1>2, <1>3, <1>6, NearestMultiple
<1> QED
  BY <1>10, <1>11 DEF e, S

(* Nothing but these volumes is ever set.                                  *)
LEMMA VolumeTyped == ScaleSpec => [](volume \in [Channels -> Volumes])
<1> DEFINE VolumeOK == volume \in [Channels -> Volumes]
<1>1. ScaleInit => VolumeOK
  BY ScaleAssumption DEF ScaleInit
<1>2. VolumeOK /\ [ScaleNext]_scale_vars => VolumeOK'
  BY DEF ScaleNext, scale_vars, ResetBuffer, Fill, SetVolume, SetScaling,
     ConsumerWrite
<1> HIDE DEF VolumeOK
<1>3. ScaleSpec => []VolumeOK
  BY <1>1, <1>2, PTL DEF ScaleSpec
<1> QED
  BY <1>3 DEF VolumeOK

(* NearestSample of Scale.tla: for every width of samples and every volume,*)
(* rounding, clipping and narrow words give the nearest sample there is    *)
(* (scale_sample_int16_t, scale_sample_s24le and scale_sample_int32_t).    *)
THEOREM NearestSampleCorrect == ScaleSpec => []NearestSample
<1>1. volume \in [Channels -> Volumes] => NearestSample
  BY WideNearest, NarrowNearest DEF NearestSample
<1> QED
  BY <1>1, VolumeTyped, PTL

-----------------------------------------------------------------------------
(* ape_parse_one.                                                          *)

ItemsInv == size \in Nat /\ item \in Nat /\ last \in Nat /\ last <= size

(* The key that runs into the value is where a round ends, and a value is  *)
(* as long as max_key_len left room for.                                   *)
LEMMA ItemArithmetic ==
    ASSUME NEW n \in Nat, NEW it \in Nat, n - it > 8, NEW v \in Nat
    PROVE  LET pos == it + 8
               m == n - pos - v - 1
           IN  /\ pos \in Nat /\ pos <= n /\ m \in Int
               /\ m >= 0 => pos + m + 1 \in Nat /\ pos + m + 1 <= n
               /\ \A k \in 0 .. m :
                     /\ pos + k + 1 \in Nat /\ pos + k + 1 <= n
                     /\ pos + k + 1 + v \in Nat /\ pos + k + 1 + v <= n
                     /\ pos + k + 1 + k + 1 \in Nat
OBVIOUS

(* The later of two places in the buffer is a place in the buffer.         *)
LEMMA LaterBounded ==
    ASSUME NEW n \in Nat, NEW a \in Nat, a <= n, NEW b \in Nat, b <= n
    PROVE  Later(a, b) \in Nat /\ Later(a, b) <= n
BY DEF Later

(* ape_parse_one goes on, or gives up, inside the buffer.                  *)
LEMMA ParseItemKeeps == ASSUME ItemsInv, ParseItem PROVE ItemsInv'
<1>0. /\ size \in Nat /\ item \in Nat /\ last \in Nat /\ last <= size
      /\ size - item > 8 /\ size' = size
  BY DEF ItemsInv, ParseItem
<1>1. PICK val_len \in 0 .. Word - 1 :
          LET pos == item + 8
              m == MaxKeyLen(pos, val_len)
          IN  \/ m < 0 /\ last' = Later(last, pos) /\ item' = item
              \/ m >= 0 /\ last' = Later(last, pos + m + 1) /\ item' = item
              \/ \E k \in 0 .. m :
                    LET val == pos + k + 1
                    IN  \/ item' = val + val_len /\ last' = Later(last, val)
                        \/ /\ item' = val + k + 1
                           /\ last' = Later(last, val + val_len)
  BY DEF ParseItem
<1> DEFINE pos == item + 8
           m == MaxKeyLen(pos, val_len)
<1>2. m = size - pos - val_len - 1
  BY DEF MaxKeyLen
<1>3. val_len \in Nat
  BY ApeAssumption
<1>4. /\ pos \in Nat /\ pos <= size /\ m \in Int
      /\ m >= 0 => pos + m + 1 \in Nat /\ pos + m + 1 <= size
      /\ \A k \in 0 .. m :
            /\ pos + k + 1 \in Nat /\ pos + k + 1 <= size
            /\ pos + k + 1 + val_len \in Nat /\ pos + k + 1 + val_len <= size
            /\ pos + k + 1 + k + 1 \in Nat
  BY <1>0, <1>2, <1>3, ItemArithmetic
<1> HIDE DEF pos, m
<1>5. /\ item' \in Nat
      /\ \E b \in Nat : b <= size /\ last' = Later(last, b)
  <2>1. CASE m < 0 /\ last' = Later(last, pos) /\ item' = item
    BY <1>0, <1>4, <2>1
  <2>2. CASE m >= 0 /\ last' = Later(last, pos + m + 1) /\ item' = item
    BY <1>0, <1>4, <2>2
  <2>3. ASSUME NEW k \in 0 .. m,
               \/ item' = pos + k + 1 + val_len /\ last' = Later(last, pos + k + 1)
               \/ /\ item' = pos + k + 1 + k + 1
                  /\ last' = Later(last, pos + k + 1 + val_len)
        PROVE  /\ item' \in Nat
               /\ \E b \in Nat : b <= size /\ last' = Later(last, b)
    BY <1>4, <2>3
  <2> QED
    BY <1>1, <2>1, <2>2, <2>3 DEF pos, m
<1> QED
  BY <1>0, <1>5, LaterBounded DEF ItemsInv

(* The search reads, and the items are gone over, on their own.            *)
LEMMA ItemsStepInv == ItemsInv /\ [ApeNext]_ape_vars => ItemsInv'
<1> SUFFICES ASSUME ItemsInv, [ApeNext]_ape_vars PROVE ItemsInv'
  OBVIOUS
<1>1. CASE ParseItem
  BY <1>1, ParseItemKeeps
<1>2. CASE ParseOne
  BY <1>2, ApeAssumption DEF ParseOne, ItemsInv
<1>3. CASE ParseEnd
  BY <1>3 DEF ParseEnd, ItemsInv
<1>4. CASE \/ ReadTags \/ FindFooter \/ ReadBuffer \/ MatchSymbol \/ ReadFound
           \/ SeekTag \/ Return
  BY <1>4 DEF ReadTags, FindFooter, ReadBuffer, MatchSymbol, ReadFound, SeekTag,
     Return, parse_vars, ItemsInv
<1>5. CASE UNCHANGED ape_vars
  BY <1>5 DEF ape_vars, parse_vars, ItemsInv
<1> QED
  BY <1>1, <1>2, <1>3, <1>4, <1>5 DEF ApeNext

(* For every size of a tag and every length in it, ape_parse_one reads     *)
(* nothing behind the tag.                                                 *)
THEOREM ItemsStayInBounds == ApeSpec => []ItemsInBounds
<1>1. ApeInit => ItemsInv
  BY DEF ApeInit, ItemsInv
<1>2. ItemsInv => ItemsInBounds
  BY DEF ItemsInv, ItemsInBounds
<1> QED
  BY <1>1, <1>2, ItemsStepInv, PTL DEF ApeSpec

-----------------------------------------------------------------------------
(* find_ape_tag_slow.                                                      *)

(* The last n symbols in front of p are the first n of the preamble.       *)
Matches(p, n) == n <= p /\ \A k \in 1 .. n : file[p - n + k] = Preamble[k]

Searching == reading \in {"search", "found", "missed"}

(* A preamble that nothing hides is not passed over: it is being matched.  *)
NotPassed ==
    \A p \in 0 .. i :
        PreambleAt(p) /\ ~Hidden(p) => i < p + Len(Preamble) /\ match = i - p

SearchType ==
    /\ reading \in {"idle", "returned", "footer", "search", "found", "missed",
                    "header", "rewind", "fail"}
    /\ Len(file) \in Nat
    /\ i \in Nat /\ got \in Nat /\ match \in Nat

SearchInv ==
    /\ SearchType
    /\ Searching => i <= got /\ got <= Len(file)
    /\ reading = "search" => offset = got
    /\ reading \in {"search", "missed"} =>
          /\ match < Len(Preamble) /\ Matches(i, match)
          /\ NotPassed
    /\ SearchExact

(* What is matched when a preamble begins would hide it.                   *)
LEMMA MatchHides ==
    ASSUME NEW p \in Nat, NEW n \in 1 .. Len(Preamble) - 1, Matches(p, n)
    PROVE  Hidden(p)
BY DEF Matches, Hidden

(* One symbol more.                                                        *)
LEMMA MatchGrows ==
    ASSUME NEW p \in Nat, NEW n \in Nat, Matches(p, n),
           file[p + 1] = Preamble[n + 1]
    PROVE  Matches(p + 1, n + 1)
<1>1. n + 1 <= p + 1
  BY DEF Matches
<1>2. ASSUME NEW k \in 1 .. n + 1
      PROVE  file[p + 1 - (n + 1) + k] = Preamble[k]
  <2>1. CASE k = n + 1
    <3>1. p + 1 - (n + 1) + k = p + 1
      BY <2>1
    <3> QED
      BY <2>1, <3>1
  <2>2. CASE k \in 1 .. n
    <3>1. p + 1 - (n + 1) + k = p - n + k
      BY <2>2
    <3> QED
      BY <2>2, <3>1 DEF Matches
  <2> QED
    BY <2>1, <2>2
<1> QED
  BY <1>1, <1>2 DEF Matches

(* A place at or before the end that is not the end is before it.          *)
LEMMA Below ==
    ASSUME NEW a \in Nat, NEW b \in Nat, a <= b, a # b
    PROVE  a < b /\ (a \notin 1 .. b - 1 => a = 0)
OBVIOUS

(* A place before the next byte is at this byte at most.                   *)
LEMMA Before ==
    ASSUME NEW a \in Nat, NEW b, b = a + 1, NEW p \in 0 .. b, p < b
    PROVE  p \in 0 .. a /\ p \in Nat
OBVIOUS

(* The next symbol: j and m are i and match behind it.                     *)
LEMMA NextSymbol ==
    ASSUME SearchType, match < Len(Preamble), Matches(i, match), NotPassed,
           NEW j, j = i + 1, NEW m,
           m = IF file[i + 1] = Preamble[match + 1] THEN match + 1 ELSE 0
    PROVE  /\ j \in Nat /\ m \in Nat /\ m <= Len(Preamble)
           /\ Matches(j, m)
           /\ \A p \in 0 .. j :
                 /\ PreambleAt(p) /\ ~Hidden(p)
                 /\ p = j => m # Len(Preamble)
                 => j <= p + Len(Preamble) /\ m = j - p
<1>0. /\ Len(Preamble) \in Nat \ {0} /\ DOMAIN Preamble = 1 .. Len(Preamble)
      /\ i \in Nat /\ match \in Nat
  BY ApeAssumption DEF SearchType
<1>1. j \in Nat /\ m \in Nat /\ m <= Len(Preamble)
  BY <1>0
<1>2. Matches(j, m)
  <2>1. CASE m = 0
    BY <1>1, <2>1 DEF Matches
  <2>2. CASE m # 0
    BY <1>0, <2>2, MatchGrows
  <2> QED
    BY <2>1, <2>2
<1>3. ASSUME NEW p \in 0 .. j, PreambleAt(p), ~Hidden(p),
             p = j => m # Len(Preamble)
      PROVE  j <= p + Len(Preamble) /\ m = j - p
  <2>1. CASE p = j
    <3>1. m \notin 1 .. Len(Preamble) - 1
      BY <1>1, <1>2, <1>3, <2>1, MatchHides
    <3>2. m = 0
      BY <1>0, <1>1, <1>3, <2>1, <3>1, Below
    <3>3. j <= p + Len(Preamble) /\ j - p = 0
      BY <1>0, <1>1, <2>1
    <3> QED
      BY <3>2, <3>3
  <2>2. CASE p < j
    <3>1. p \in 0 .. i /\ p \in Nat
      BY <1>0, <2>2, Before
    <3>2. i < p + Len(Preamble) /\ match = i - p
      BY <1>3, <3>1 DEF NotPassed
    <3>3. match + 1 \in DOMAIN Preamble /\ p + (match + 1) = i + 1
      BY <1>0, <3>1, <3>2
    <3>4. file[p + (match + 1)] = Preamble[match + 1]
      BY <1>3, <3>3 DEF PreambleAt
    <3>5. m = match + 1
      BY <3>3, <3>4
    <3> QED
      BY <1>0, <3>1, <3>2, <3>5
  <2> QED
    BY <1>1, <1>3, <2>1, <2>2
<1> QED
  BY <1>1, <1>2, <1>3

(* One turn of the slow search passes over no preamble.                    *)
LEMMA MatchSymbolKeeps == ASSUME SearchInv, MatchSymbol PROVE SearchInv'
<1> DEFINE L == Len(Preamble)
           j == i + 1
           m == IF file[i + 1] = Preamble[match + 1] THEN match + 1 ELSE 0
<1>1. /\ reading = "search" /\ i < got /\ UNCHANGED <<file, offset, got>>
      /\ i' = j /\ match' = m
      /\ reading' = IF m = L THEN "found" ELSE "search"
  BY DEF MatchSymbol
<1>2. /\ SearchType /\ got <= Len(file) /\ offset = got
      /\ match < L /\ Matches(i, match) /\ NotPassed
  BY <1>1 DEF SearchInv, Searching
<1>3. /\ L \in Nat \ {0} /\ DOMAIN Preamble = 1 .. L
  BY ApeAssumption
<1>4. j \in Nat /\ j <= got /\ j <= Len(file)
  BY <1>1, <1>2 DEF SearchType
<1>5. /\ m \in Nat /\ m <= L
      /\ Matches(j, m)
      /\ \A p \in 0 .. j :
            /\ PreambleAt(p) /\ ~Hidden(p)
            /\ p = j => m # L
            => j <= p + L /\ m = j - p
  BY <1>2, NextSymbol
<1> HIDE DEF j, m
<1>6. SearchType' /\ Searching' /\ i' <= got' /\ got' <= Len(file')
  BY <1>1, <1>2, <1>4, <1>5 DEF SearchType, Searching
<1>7. CASE m = L
  <2>1. PreambleAt(j - L)
    <3>1. L <= j /\ \A k \in 1 .. L : file[j - L + k] = Preamble[k]
      BY <1>5, <1>7 DEF Matches
    <3> QED
      BY <1>3, <1>4, <3>1 DEF PreambleAt, SearchType
  <2>2. ASSUME NEW p \in 0 .. j - L, PreambleAt(p), p # j - L
        PROVE  Hidden(p)
    <3>1. p \in 0 .. j /\ p # j /\ ~(m = j - p)
      BY <1>3, <1>4, <1>7, <2>2
    <3> QED
      BY <1>5, <2>2, <3>1
  <2>3. SearchExact'
    BY <1>1, <1>7, <2>1, <2>2 DEF SearchExact, Start, PreambleAt, Hidden
  <2> QED
    BY <1>1, <1>6, <1>7, <2>3 DEF SearchInv, Searching
<1>8. CASE m # L
  <2>1. m < L
    BY <1>3, <1>5, <1>8, Below
  <2>2. ASSUME NEW p \in 0 .. j, PreambleAt(p), ~Hidden(p)
        PROVE  j < p + L /\ m = j - p
    <3>1. j <= p + L /\ m = j - p
      BY <1>5, <1>8, <2>2
    <3> QED
      BY <1>3, <1>4, <2>1, <3>1
  <2>3. ASSUME NEW p \in 0 .. j - L, PreambleAt(p)
        PROVE  Hidden(p)
    <3>1. p \in 0 .. j /\ ~(j < p + L)
      BY <1>3, <1>4, <2>3
    <3> QED
      BY <2>2, <2>3, <3>1
  <2>4. Matches(i, match)' /\ NotPassed'
    BY <1>1, <1>5, <2>2 DEF Matches, NotPassed, PreambleAt, Hidden
  <2>5. SearchExact'
    BY <1>1, <1>8, <2>3 DEF SearchExact, PreambleAt, Hidden
  <2> QED
    BY <1>1, <1>2, <1>6, <1>8, <2>1, <2>4, <2>5 DEF SearchInv, Searching
<1> QED
  BY <1>7, <1>8

(* Asking for the tags of a file keeps the invariant.                      *)
LEMMA ReadTagsKeeps == ASSUME SearchInv, ReadTags PROVE SearchInv'
BY ApeAssumption DEF ReadTags, SearchInv, SearchType, Searching, SearchExact,
   search_vars

(* A new search has matched nothing, and passed nothing.                   *)
LEMMA FindFooterKeeps == ASSUME SearchInv, FindFooter PROVE SearchInv'
<1>1. SearchType /\ Len(Preamble) \in Nat \ {0}
  BY ApeAssumption DEF SearchInv
<1>2. CASE reading' \in {"header", "fail"} /\ UNCHANGED <<file, search_vars>>
  BY <1>1, <1>2 DEF SearchInv, SearchType, Searching, SearchExact, search_vars
<1>3. CASE /\ reading' = "search" /\ offset' = 0 /\ UNCHANGED file
           /\ match' = 0 /\ i' = 0 /\ got' = 0
  <2>1. SearchType' /\ i' <= got' /\ got' <= Len(file')
    BY <1>1, <1>3 DEF SearchType
  <2>2. Matches(i, match)' /\ match' < Len(Preamble)
    <3>1. \A k \in 1 .. 0 : FALSE
      OBVIOUS
    <3>2. 0 <= 0 /\ 0 < Len(Preamble)
      BY <1>1
    <3>3. match' <= i' /\ match' < Len(Preamble)
      BY <1>3, <3>2
    <3>4. 1 .. match' = 1 .. 0
      BY <1>3
    <3> QED
      BY <3>1, <3>3, <3>4 DEF Matches
  <2>3. NotPassed'
    <3>1. ASSUME NEW p \in 0 .. 0
          PROVE  0 < p + Len(Preamble) /\ 0 = 0 - p
      <4>1. p = 0
        OBVIOUS
      <4>2. 0 < 0 + Len(Preamble) /\ 0 = 0 - 0
        BY <1>1
      <4> QED
        BY <4>1, <4>2
    <3>2. 0 .. i' = 0 .. 0 /\ i' = 0 /\ match' = 0
      BY <1>3
    <3>3. \A p \in 0 .. i' : i' < p + Len(Preamble) /\ match' = i' - p
      BY <3>1, <3>2
    <3> QED
      BY <3>3 DEF NotPassed
  <2>4. SearchExact'
    <3>1. \A p \in 0 .. 0 - Len(Preamble) : FALSE
      BY <1>1
    <3> QED
      BY <1>3, <3>1 DEF SearchExact
  <2> QED
    BY <1>3, <2>1, <2>2, <2>3, <2>4 DEF SearchInv, Searching
<1> QED
  BY <1>2, <1>3 DEF FindFooter

(* Reading the next buffer keeps what was matched of the preamble.         *)
LEMMA ReadBufferKeeps == ASSUME SearchInv, ReadBuffer PROVE SearchInv'
<1>1. /\ reading = "search" /\ UNCHANGED <<file, match, i>>
      /\ SearchType /\ i <= got /\ got <= Len(file) /\ offset = got
      /\ match < Len(Preamble) /\ Matches(i, match) /\ NotPassed /\ SearchExact
  BY DEF ReadBuffer, SearchInv, Searching
<1>2. Matches(i, match)' /\ NotPassed'
  BY <1>1 DEF Matches, NotPassed, PreambleAt, Hidden
<1>3. CASE \E n \in 1 .. MaxRead :
             /\ offset + n <= Len(file)
             /\ got' = offset + n /\ offset' = got' /\ UNCHANGED reading
  <2>1. PICK n \in 1 .. MaxRead :
             /\ offset + n <= Len(file)
             /\ got' = offset + n /\ offset' = got' /\ UNCHANGED reading
    BY <1>3
  <2>2. got + n \in Nat /\ i <= got + n /\ got + n <= Len(file) /\ got' = got + n
    BY <1>1, <2>1, ApeAssumption DEF SearchType
  <2>3. SearchType' /\ i' <= got' /\ got' <= Len(file')
    BY <1>1, <2>1, <2>2 DEF SearchType
  <2>4. SearchExact'
    BY <1>1, <2>1 DEF SearchExact, PreambleAt, Hidden
  <2> QED
    BY <1>1, <1>2, <2>1, <2>3, <2>4 DEF SearchInv, Searching
<1>4. CASE reading' \in {"missed", "fail"} /\ UNCHANGED <<got, offset>>
  <2>1. SearchType'
    BY <1>1, <1>4 DEF SearchType
  <2>2. SearchExact'
    BY <1>1, <1>4 DEF SearchExact, PreambleAt, Hidden
  <2> QED
    BY <1>1, <1>2, <1>4, <2>1, <2>2 DEF SearchInv, Searching
<1> QED
  BY <1>3, <1>4 DEF ReadBuffer

(* Every step of the search keeps the invariant.                           *)
LEMMA SearchStepInv == SearchInv /\ [ApeNext]_ape_vars => SearchInv'
<1> SUFFICES ASSUME SearchInv, [ApeNext]_ape_vars PROVE SearchInv'
  OBVIOUS
<1>1. CASE ReadTags
  BY <1>1, ReadTagsKeeps
<1>2. CASE FindFooter
  BY <1>2, FindFooterKeeps
<1>3. CASE ReadBuffer
  BY <1>3, ReadBufferKeeps
<1>4. CASE MatchSymbol
  BY <1>4, MatchSymbolKeeps
<1>5. CASE ReadFound \/ SeekTag \/ Return
  <2>1. /\ reading' \in {"header", "rewind", "returned", "fail"}
        /\ UNCHANGED <<file, match, i, got>>
    BY <1>5 DEF ReadFound, SeekTag, Return, search_vars
  <2> QED
    BY <2>1 DEF SearchInv, SearchType, Searching, SearchExact
<1>6. CASE UNCHANGED read_vars
  <2>1. UNCHANGED <<reading, file, offset, match, i, got>>
    BY <1>6 DEF read_vars, search_vars
  <2> QED
    BY <2>1 DEF SearchInv, SearchType, Searching, SearchExact, Matches, NotPassed,
       PreambleAt, Hidden, Start
<1> QED
  BY <1>1, <1>2, <1>3, <1>4, <1>5, <1>6
  DEF ApeNext, ParseOne, ParseItem, ParseEnd, ape_vars

(* However the reads cut the file, for every file and every preamble: what *)
(* find_ape_tag_slow finds is a preamble, and the first one but for those  *)
(* that stand right behind a part of a preamble, which it may pass over.   *)
THEOREM SearchAlwaysExact == ApeSpec => []SearchExact
<1>1. ApeInit => SearchInv
  BY DEF ApeInit, SearchInv, SearchType, Searching, SearchExact
<1>2. SearchInv => SearchExact
  BY DEF SearchInv
<1> QED
  BY <1>1, <1>2, SearchStepInv, PTL DEF ApeSpec

-----------------------------------------------------------------------------
(* Format.                                                                 *)

FormatType ==
    /\ writing \in {"idle", "loop", "whole", "cut"}
    /\ field \in Int /\ width \in Int /\ d \in Int /\ ellipsis_pos \in Int
    /\ text \in Int

(* What the loop keeps: the columns written and those left make the field, *)
(* and once fewer than three are left the place of the ellipsis is three   *)
(* columns from the end.                                                   *)
InLoop ==
    writing = "loop" =>
        /\ width >= 0 /\ d >= 0
        /\ d + width = field /\ text = d
        /\ width < 3 /\ field >= 3 => ellipsis_pos + 3 = field
        /\ field < 3 => ellipsis_pos = 0

FormatInv == FormatType /\ InLoop /\ FieldFilled

(* A round of the loop keeps the invariant.                                *)
LEMMA FormatCharKeeps ==
    ASSUME FormatInv, NEW w \in 0 .. 2, FormatChar(w)
    PROVE  FormatInv'
<1> USE DEF FormatInv
<1>1. /\ writing = "loop" /\ width >= 0 /\ d >= 0 /\ d + width = field
      /\ text = d
      BY DEF FormatChar, InLoop
<1>2. /\ ellipsis_pos' \in Int
      /\ width = 3 => ellipsis_pos' = d
      /\ width = 4 /\ w = 2 => ellipsis_pos' = d + 1
      /\ width < 3 => ellipsis_pos' = ellipsis_pos
      /\ ellipsis_pos' # ellipsis_pos => width >= 3
      BY DEF FormatChar, Ellipsis, FormatType
<1>3. FormatType'
      BY <1>2 DEF FormatChar, FormatType
<1>4. /\ width' < 3 /\ field >= 3 => ellipsis_pos' + 3 = field
      /\ field < 3 => ellipsis_pos' = 0
  <2>1. width' = width - w /\ width \in Int /\ d \in Int /\ field \in Int
        BY DEF FormatChar, FormatType
  <2>2. /\ width < 3 /\ field >= 3 => ellipsis_pos + 3 = field
        /\ field < 3 => ellipsis_pos = 0
        BY <1>1 DEF InLoop
  <2>3. width' < 3 => width < 3 \/ width = 3 \/ (width = 4 /\ w = 2)
        BY <2>1
  <2>4. field < 3 => width < 3
        BY <1>1, <2>1
  <2>5. field < 3 => ellipsis_pos' = 0
        BY <1>2, <2>2, <2>4
  <2>6. ASSUME width' < 3, field >= 3 PROVE ellipsis_pos' + 3 = field
    <3>1. CASE width < 3
          BY <1>2, <2>2, <2>6, <3>1
    <3>2. CASE width = 3
          BY <1>1, <1>2, <2>1, <3>2
    <3>3. CASE width = 4 /\ w = 2
          BY <1>1, <1>2, <2>1, <3>3
    <3> QED  BY <2>3, <2>6, <3>1, <3>2, <3>3
  <2> QED  BY <2>5, <2>6
<1>5. InLoop'
      BY <1>1, <1>4 DEF FormatChar, FormatType, InLoop
<1>6. FieldFilled'
      BY <1>1, <1>4 DEF FormatChar, FormatType, FieldFilled
<1> QED  BY <1>3, <1>5, <1>6

(* Two facts about numbers that the first calls of a format need.          *)
LEMMA WholeField == \A n \in Int : 0 + n = n /\ ~(n < 3 /\ n >= 3)
OBVIOUS

(* So does a call.                                                         *)
LEMMA FormatStrKeeps == ASSUME FormatStr PROVE FormatInv'
<1>1. /\ field' \in Int /\ field' >= 0 /\ width' = field' /\ writing' = "loop"
      /\ d' = 0 /\ ellipsis_pos' = 0 /\ text' = 0
      BY FieldWidthsAssumption DEF FormatStr
<1>2. 0 + field' = field' /\ ~(field' < 3 /\ field' >= 3)
      BY <1>1, WholeField
<1>3. FormatType' /\ FieldFilled'
      BY <1>1 DEF FormatType, FieldFilled
<1>4. InLoop'
  <2>1. d' + width' = field'
        BY <1>1, <1>2
  <2>2. ~(width' < 3 /\ field' >= 3) /\ width' >= 0
        BY <1>1, <1>2
  <2>3. d' >= 0
        BY <1>1
  <2> QED  BY <1>1, <2>1, <2>2, <2>3 DEF InLoop
<1> QED  BY <1>3, <1>4 DEF FormatInv

(* Every step of the formatting keeps the invariant.                       *)
LEMMA FormatStep == FormatInv /\ [FormatNext]_format_vars => FormatInv'
<1> SUFFICES ASSUME FormatInv, [FormatNext]_format_vars PROVE FormatInv'
    OBVIOUS
<1> USE DEF FormatInv, FormatType, InLoop, FieldFilled
<1>1. CASE FormatStr
      BY <1>1, FormatStrKeeps
<1>2. CASE FormatEnd
      BY <1>2 DEF FormatEnd, fields
<1>3. ASSUME NEW w \in 0 .. 2, FormatChar(w) PROVE FormatInv'
      BY <1>3, FormatCharKeeps
<1>4. CASE UNCHANGED format_vars
      BY <1>4 DEF format_vars, fields
<1> QED  BY <1>1, <1>2, <1>3, <1>4 DEF FormatNext

(* For every width and every text of characters that are zero, one or two  *)
(* columns wide, format_str fills the field.                               *)
THEOREM FieldAlwaysFilled == FormatSpec => []FieldFilled
<1>1. FormatInit => FormatInv
      BY DEF FormatInit, FormatInv, FormatType, InLoop, FieldFilled
<1>2. FormatInv => FieldFilled
      BY DEF FormatInv
<1> QED  BY <1>1, <1>2, FormatStep, PTL DEF FormatSpec
=============================================================================
