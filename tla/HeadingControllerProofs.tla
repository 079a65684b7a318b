----------------------- MODULE HeadingControllerProofs -----------------------
(***************************************************************************)
(* Theorems about HeadingController, for any configurations and inputs.    *)
(***************************************************************************)
EXTENDS HeadingController, TLAPS

\* The normalised angle is the short way round.
LEMMA ShortWay ==
  ASSUME NEW a \in Int
  PROVE  normalizeAngleDeg(a) \in -180 .. 180
BY DEF normalizeAngleDeg

\* Mirrored angles have mirrored short ways, half turns included.
LEMMA ShortWayMirrored ==
  ASSUME NEW a \in Int
  PROVE  normalizeAngleDeg(-a) = -normalizeAngleDeg(a)
BY DEF normalizeAngleDeg

\* Halving what was doubled is exact.
LEMMA Halves ==
  ASSUME NEW x \in Int
  PROVE  (2 * x) \div 1 = 2 * x /\ (2 * x) \div 2 = x
OBVIOUS
-----------------------------------------------------------------------------
(* Doubles.                                                                 *)

\* Sums, products and opposites of doubles are doubles, and are NaN only if an
\* operand is.
LEMMA Sums ==
  ASSUME NEW x \in Double, NEW y \in Double
  PROVE  Plus(x, y) \in Double /\ (x # NaN /\ y # NaN => Plus(x, y) # NaN)
BY InputAssumption DEF Double, Plus

LEMMA Products ==
  ASSUME NEW x \in Double, NEW k \in Int
  PROVE  /\ Times(k, x) \in Double /\ Minus(x) \in Double
         /\ x # NaN => Times(k, x) # NaN /\ Minus(x) # NaN
BY InputAssumption DEF Double, Times, Minus

\* A clamped double is within the bounds, or NaN.
LEMMA Clamped ==
  ASSUME NEW x \in Double, NEW low \in Int, NEW high \in Int, low <= high
  PROVE  /\ Clamp(x, low, high) \in (low .. high) \cup {NaN}
         /\ x # NaN => Clamp(x, low, high) \in low .. high
BY InputAssumption DEF Double, Clamp

\* Opposites pass through sums, products and symmetric bounds.
LEMMA Opposites ==
  ASSUME NEW x \in Double, NEW y \in Double, NEW k \in Int, NEW h \in Int, -h <= h
  PROVE  /\ Plus(Minus(x), Minus(y)) = Minus(Plus(x, y))
         /\ Times(k, Minus(x)) = Minus(Times(k, x))
         /\ Clamp(Minus(x), -h, h) = Minus(Clamp(x, -h, h))
<1>1. CASE x # NaN /\ y # NaN
  <2>1. k * (-x) = -(k * x)
    BY <1>1 DEF Double
  <2>2. Times(k, Minus(x)) = Minus(Times(k, x))
    BY <1>1, <2>1, InputAssumption DEF Double, Times, Minus
  <2>3. Plus(Minus(x), Minus(y)) = Minus(Plus(x, y))
    BY <1>1, InputAssumption DEF Double, Times, Minus, Plus
  <2>4. Clamp(Minus(x), -h, h) = Minus(Clamp(x, -h, h))
    BY <1>1, InputAssumption DEF Double, Times, Minus, Clamp
  <2> QED BY <2>2, <2>3, <2>4
<1>2. CASE x = NaN
  BY <1>2, InputAssumption DEF Double, Plus, Times, Minus, Clamp
<1>3. CASE x # NaN /\ y = NaN
  <2>1. k * (-x) = -(k * x)
    BY <1>3 DEF Double
  <2>2. Times(k, Minus(x)) = Minus(Times(k, x))
    BY <1>3, <2>1, InputAssumption DEF Double, Times, Minus
  <2>3. Plus(Minus(x), Minus(y)) = Minus(Plus(x, y))
    BY <1>3, InputAssumption DEF Double, Times, Minus, Plus
  <2>4. Clamp(Minus(x), -h, h) = Minus(Clamp(x, -h, h))
    BY <1>3, InputAssumption DEF Double, Times, Minus, Clamp
  <2> QED BY <2>2, <2>3, <2>4
<1> QED BY <1>1, <1>2, <1>3
-----------------------------------------------------------------------------
(* The parts of an update.                                                  *)

Angles == (-180 .. 180) \cup {NaN}

MemoryOf(I) ==
  [i_term : I, prev_error : Angles, prev_output : Double, filtered_gyro : Double,
   initialized : BOOLEAN]

LEMMA ErrorType ==
  ASSUME NEW c \in Config, NEW difference \in Double
  PROVE  /\ Error(c, difference) \in Angles
         /\ difference # NaN => Error(c, difference) # NaN
<1>1. CASE difference = NaN
  BY <1>1 DEF Error, Angles
<1>2. CASE difference # NaN
  BY <1>2, ShortWay, InputAssumption DEF Error, Angles, Double, Config
<1> QED BY <1>1, <1>2

LEMMA AnglesAreDoubles == Angles \subseteq Double
BY DEF Angles, Double

LEMMA IntegralType ==
  ASSUME NEW c \in Config, NEW s \in MemoryOf(Double), NEW e \in Angles,
         NEW dt \in {1, 2}
  PROVE  /\ Integral(c, s, e, dt) \in (-c.max_i_term .. c.max_i_term) \cup {NaN, s.i_term}
         /\ Integral(c, s, e, dt) \in Double
         /\ NaN \notin {s.i_term, s.prev_error, e} => Integral(c, s, e, dt) # NaN
<1> DEFINE k == c.ki * dt
           sum == Plus(s.i_term, Times(k, Plus(e, s.prev_error)))
<1>1. /\ s.i_term \in Double /\ s.prev_error \in Double /\ e \in Double
      /\ k \in Int /\ c.max_i_term \in Nat
  BY AnglesAreDoubles DEF MemoryOf, Config
<1> HIDE DEF k
<1>2. sum \in Double /\ (NaN \notin {s.i_term, s.prev_error, e} => sum # NaN)
  <2>1. /\ Plus(e, s.prev_error) \in Double
        /\ e # NaN /\ s.prev_error # NaN => Plus(e, s.prev_error) # NaN
    BY <1>1, Sums
  <2>2. /\ Times(k, Plus(e, s.prev_error)) \in Double
        /\ e # NaN /\ s.prev_error # NaN => Times(k, Plus(e, s.prev_error)) # NaN
    BY <1>1, <2>1, Products
  <2> QED BY <1>1, <2>2, Sums
<1>3. /\ Clamp(sum, -c.max_i_term, c.max_i_term)
           \in (-c.max_i_term .. c.max_i_term) \cup {NaN}
      /\ sum # NaN => Clamp(sum, -c.max_i_term, c.max_i_term)
                         \in -c.max_i_term .. c.max_i_term
  <2>1. -c.max_i_term \in Int /\ -c.max_i_term <= c.max_i_term
    BY <1>1
  <2> HIDE DEF sum
  <2> QED BY <1>1, <1>2, <2>1, Clamped
<1> HIDE DEF sum
<1>4. Integral(c, s, e, dt) = IF ~s.initialized THEN s.i_term ELSE IF c.ki = 0 THEN 0
                              ELSE Clamp(sum, -c.max_i_term, c.max_i_term)
  BY DEF Integral, sum, k
<1> QED BY <1>1, <1>2, <1>3, <1>4, InputAssumption DEF Double

LEMMA DerivativeType ==
  ASSUME NEW c \in Config, NEW s \in MemoryOf(Double), NEW e \in Angles,
         NEW gyro \in Double, NEW smooth \in Double, NEW dt \in {1, 2}
  PROVE  /\ Derivative(c, s, e, gyro, smooth, dt) \in Double
         /\ NaN \notin {s.prev_error, e, smooth}
              => Derivative(c, s, e, gyro, smooth, dt) # NaN
<1> DEFINE change == Plus(e, Minus(s.prev_error))
           k == c.kd * change
<1>1. /\ s.prev_error \in Double /\ e \in Double /\ c.kd \in Int /\ -2 * c.kd \in Int
  BY AnglesAreDoubles DEF MemoryOf, Config
<1>2. change \in Double /\ (NaN \notin {s.prev_error, e} => change # NaN)
  <2>1. Minus(s.prev_error) \in Double /\ (s.prev_error # NaN => Minus(s.prev_error) # NaN)
    BY <1>1, Products
  <2> QED BY <1>1, <2>1, Sums
<1> HIDE DEF change
<1>3. ASSUME change # NaN  PROVE (2 * k) \div dt \in Int
  <2>1. k \in Int
    BY <1>1, <1>2, <1>3 DEF Double
  <2> HIDE DEF k
  <2> QED BY <2>1, Halves
<1>4. /\ Times(-2 * c.kd, smooth) \in Double
      /\ smooth # NaN => Times(-2 * c.kd, smooth) # NaN
  BY <1>1, Products
<1>5. Derivative(c, s, e, gyro, smooth, dt) =
        IF gyro # 0 \/ ~s.initialized THEN Times(-2 * c.kd, smooth)
        ELSE IF change = NaN THEN NaN ELSE (2 * k) \div dt
  BY DEF Derivative, change, k
<1> HIDE DEF k
<1> QED BY <1>2, <1>3, <1>4, <1>5, InputAssumption DEF Double

\* The slew limiter moves the output towards the saturated one by at most a step,
\* and by something unless it is there.
LEMMA SlewedType ==
  ASSUME NEW c \in Config, NEW s \in MemoryOf(Double), NEW raw \in Double, NEW dt \in {1, 2}
  PROVE  /\ Slewed(c, s, raw, dt) \in Double
         /\ raw # NaN /\ s.prev_output # NaN => Slewed(c, s, raw, dt) # NaN
         /\ raw = NaN => Slewed(c, s, raw, dt) = NaN
         /\ raw # NaN /\ s.prev_output # NaN =>
              LET new == Slewed(c, s, raw, dt) IN
              new = raw \/ (s.prev_output < new /\ new < raw)
                        \/ (raw < new /\ new < s.prev_output)
<1> DEFINE step == c.max_slew_rate * dt
<1>1. c.max_slew_rate \in Nat /\ s.prev_output \in Double
  BY DEF Config, MemoryOf
<1>2. step \in Nat /\ (c.max_slew_rate > 0 => step > 0)
  BY <1>1
<1> HIDE DEF step
<1>3. Slewed(c, s, raw, dt) =
        IF s.initialized /\ c.max_slew_rate > 0
        THEN Plus(s.prev_output, Clamp(Plus(raw, Minus(s.prev_output)), -step, step))
        ELSE raw
  BY DEF Slewed, step
<1>4. CASE ~(s.initialized /\ c.max_slew_rate > 0)
  BY <1>3, <1>4
<1>5. CASE s.initialized /\ c.max_slew_rate > 0
  <2>1. CASE raw = NaN \/ s.prev_output = NaN
    BY <1>1, <1>2, <1>3, <1>5, <2>1, InputAssumption DEF Plus, Clamp, Minus, Times, Double
  <2>2. CASE raw # NaN /\ s.prev_output # NaN
    <3>1. raw \in Int /\ s.prev_output \in Int
      BY <1>1, <2>2 DEF Double
    <3>2. Plus(raw, Minus(s.prev_output)) = raw - s.prev_output
      BY <3>1, InputAssumption DEF Plus, Minus, Times
    <3>3. Slewed(c, s, raw, dt) = s.prev_output +
            (IF raw - s.prev_output < -step THEN -step
             ELSE IF raw - s.prev_output > step THEN step ELSE raw - s.prev_output)
      BY <1>2, <1>3, <1>5, <3>1, <3>2, InputAssumption DEF Plus, Clamp
    <3> QED BY <1>2, <1>5, <2>2, <3>1, <3>3, InputAssumption DEF Double
  <2> QED BY <2>1, <2>2
<1> QED BY <1>4, <1>5

LEMMA InputType ==
  ASSUME NEW in \in Input, in.dt > 0
  PROVE  /\ in.dt \in {1, 2} /\ in.difference \in Double /\ in.gyro \in Double
         /\ in.yaw_rate \in Int /\ in.yaw_rate \in Double /\ in.yaw_rate # NaN
<1>1. in.dt \in Steps /\ in.difference \in Differences /\ in.gyro \in Rates
      /\ in.yaw_rate \in YawRates
  BY DEF Input
<1>2. in.dt \in {-1, 0, 1, 2}
  BY <1>1, InputAssumption
<1>3. in.dt \in {1, 2}
  BY <1>2
<1> QED BY <1>1, <1>3, InputAssumption DEF Double

\* What an update sums up, before it is saturated.
Sum(c, s, in, smooth) ==
  LET e == Error(c, in.difference) IN
  Plus(Plus(Times(2 * c.kff, in.yaw_rate), Times(2 * c.kp, e)),
       Plus(Integral(c, s, e, in.dt), Derivative(c, s, e, in.gyro, smooth, in.dt)))

LEMMA CorrectionIsSlewed ==
  ASSUME NEW c, NEW s, NEW in, NEW smooth
  PROVE  Correction(c, s, in, smooth) =
           Slewed(c, s, Clamp(Sum(c, s, in, smooth), c.min_output, c.max_output), in.dt)
BY DEF Correction, Sum

LEMMA SumType ==
  ASSUME NEW c \in Config, NEW s \in MemoryOf(Double), NEW in \in Input, in.dt > 0,
         NEW smooth \in Double
  PROVE  /\ Sum(c, s, in, smooth) \in Double
         /\ NaN \notin {in.difference, s.i_term, s.prev_error, smooth}
              => Sum(c, s, in, smooth) # NaN
<1> DEFINE e == Error(c, in.difference)
           ff == Times(2 * c.kff, in.yaw_rate)
           p == Times(2 * c.kp, e)
           i == Integral(c, s, e, in.dt)
           d == Derivative(c, s, e, in.gyro, smooth, in.dt)
<1>1. /\ in.dt \in {1, 2} /\ in.difference \in Double /\ in.gyro \in Double
      /\ in.yaw_rate \in Int /\ in.yaw_rate \in Double /\ in.yaw_rate # NaN
  BY InputType
<1>2. e \in Angles /\ e \in Double /\ (in.difference # NaN => e # NaN)
  BY <1>1, ErrorType, AnglesAreDoubles
<1>3. ff \in Double /\ ff # NaN
  <2>1. 2 * c.kff \in Int
    BY DEF Config
  <2> QED BY <1>1, <2>1, Products, InputAssumption
<1>4. p \in Double /\ (in.difference # NaN => p # NaN)
  <2>1. 2 * c.kp \in Int
    BY DEF Config
  <2> HIDE DEF e
  <2> QED BY <1>2, <2>1, Products
<1>5. i \in Double /\ (NaN \notin {s.i_term, s.prev_error, e} => i # NaN)
  BY <1>1, <1>2, IntegralType
<1>6. d \in Double /\ (NaN \notin {s.prev_error, e, smooth} => d # NaN)
  BY <1>1, <1>2, DerivativeType
<1>7. Sum(c, s, in, smooth) = Plus(Plus(ff, p), Plus(i, d))
  BY DEF Sum
<1> HIDE DEF e, ff, p, i, d
<1>8. /\ Plus(ff, p) \in Double /\ (in.difference # NaN => Plus(ff, p) # NaN)
      /\ Plus(i, d) \in Double /\ (i # NaN /\ d # NaN => Plus(i, d) # NaN)
  BY <1>3, <1>4, <1>5, <1>6, Sums
<1>9. /\ Plus(Plus(ff, p), Plus(i, d)) \in Double
      /\ Plus(ff, p) # NaN /\ Plus(i, d) # NaN => Plus(Plus(ff, p), Plus(i, d)) # NaN
  BY <1>8, Sums
<1> QED BY <1>2, <1>5, <1>6, <1>7, <1>8, <1>9

LEMMA CorrectionType ==
  ASSUME NEW c \in Config, c.min_output <= c.max_output,
         NEW s \in MemoryOf(Double), NEW in \in Input, in.dt > 0, NEW smooth \in Double
  PROVE  LET new == Correction(c, s, in, smooth)
             old == s.prev_output
         IN  /\ new \in Double
             /\ NaN \notin {in.difference, s.i_term, s.prev_error, smooth, old} => new # NaN
             /\ NaN \notin {new, old} =>
                  \/ new \in c.min_output .. c.max_output
                  \/ old < new /\ new < c.max_output
                  \/ c.min_output < new /\ new < old
<1> DEFINE sum == Sum(c, s, in, smooth)
           raw == Clamp(sum, c.min_output, c.max_output)
<1>1. /\ sum \in Double
      /\ NaN \notin {in.difference, s.i_term, s.prev_error, smooth} => sum # NaN
  BY SumType
<1>2. c.min_output \in Int /\ c.max_output \in Int /\ in.dt \in {1, 2} /\ s.prev_output \in Double
  BY InputType DEF Config, MemoryOf
<1> HIDE DEF sum
<1>3. /\ raw \in (c.min_output .. c.max_output) \cup {NaN}
      /\ sum # NaN => raw \in c.min_output .. c.max_output
  BY <1>1, <1>2, Clamped
<1>4. raw \in Double
  BY <1>2, <1>3 DEF Double
<1>5. Correction(c, s, in, smooth) = Slewed(c, s, raw, in.dt)
  BY CorrectionIsSlewed DEF sum
<1> HIDE DEF raw
<1> DEFINE new == Correction(c, s, in, smooth)
<1>6. /\ new \in Double
      /\ raw # NaN /\ s.prev_output # NaN => new # NaN
      /\ raw = NaN => new = NaN
      /\ raw # NaN /\ s.prev_output # NaN =>
           new = raw \/ (s.prev_output < new /\ new < raw) \/ (raw < new /\ new < s.prev_output)
  BY <1>2, <1>4, <1>5, SlewedType
<1> HIDE DEF new
<1>7. NaN \notin {in.difference, s.i_term, s.prev_error, smooth, s.prev_output} => new # NaN
  BY <1>1, <1>3, <1>6, <1>2, InputAssumption
<1>8. ASSUME NaN \notin {new, s.prev_output}
      PROVE  \/ new \in c.min_output .. c.max_output
             \/ s.prev_output < new /\ new < c.max_output
             \/ c.min_output < new /\ new < s.prev_output
  <2>1. raw \in c.min_output .. c.max_output /\ new \in Int /\ s.prev_output \in Int
    BY <1>2, <1>3, <1>6, <1>8 DEF Double
  <2> QED BY <1>2, <1>6, <1>8, <2>1, InputAssumption
<1> QED BY <1>6, <1>7, <1>8 DEF new

LEMMA FilteredType ==
  ASSUME NEW c, NEW s \in MemoryOf(Double), NEW gyro \in Double,
         NEW smooth \in Filtered(c, s, gyro)
  PROVE  smooth \in Double /\ (gyro # NaN /\ s.filtered_gyro # NaN => smooth # NaN)
<1>1. s.filtered_gyro \in Double
  BY DEF MemoryOf
<1> QED BY <1>1, InputAssumption DEF Filtered, Between, Double

LEMMA RememberedType ==
  ASSUME NEW c \in Config, c.min_output <= c.max_output, c.max_i_term <= ILimit,
         NEW s \in MemoryOf((-ILimit .. ILimit) \cup {NaN}),
         NEW in \in Input, in.dt > 0, NEW smooth \in Filtered(c, s, in.gyro)
  PROVE  LET new == Remembered(c, s, in, smooth) IN
         /\ new \in MemoryOf((-ILimit .. ILimit) \cup {NaN})
         /\ new.initialized
         /\ NaN \notin {in.difference, in.gyro, s.i_term, s.prev_error, s.prev_output,
                       s.filtered_gyro}
              => NaN \notin {new.i_term, new.prev_error, new.prev_output, new.filtered_gyro}
<1> DEFINE e == Error(c, in.difference)
<1>1. s \in MemoryOf(Double)
  <2>1. (-ILimit .. ILimit) \cup {NaN} \subseteq Double
    BY ConfigAssumption DEF Double
  <2> QED BY <2>1 DEF MemoryOf
<1>2. in.dt \in {1, 2} /\ in.difference \in Double /\ in.gyro \in Double
  BY InputType
<1>3. smooth \in Double /\ (in.gyro # NaN /\ s.filtered_gyro # NaN => smooth # NaN)
  BY <1>1, <1>2, FilteredType
<1>4. e \in Angles /\ (in.difference # NaN => e # NaN)
  BY <1>2, ErrorType
<1>5. /\ Integral(c, s, e, in.dt) \in (-c.max_i_term .. c.max_i_term) \cup {NaN, s.i_term}
      /\ NaN \notin {s.i_term, s.prev_error, e} => Integral(c, s, e, in.dt) # NaN
  BY <1>1, <1>2, <1>4, IntegralType
<1>6. /\ Correction(c, s, in, smooth) \in Double
      /\ NaN \notin {in.difference, s.i_term, s.prev_error, smooth, s.prev_output}
           => Correction(c, s, in, smooth) # NaN
  BY <1>1, <1>3, CorrectionType
<1>7. Integral(c, s, e, in.dt) \in (-ILimit .. ILimit) \cup {NaN}
  <2>1. s.i_term \in (-ILimit .. ILimit) \cup {NaN}
    BY DEF MemoryOf
  <2>2. c.max_i_term \in Nat
    BY DEF Config
  <2> QED BY <1>5, <2>1, <2>2, ConfigAssumption
<1>8. Remembered(c, s, in, smooth) =
        [i_term |-> Integral(c, s, e, in.dt), prev_error |-> e,
         prev_output |-> Correction(c, s, in, smooth), filtered_gyro |-> smooth,
         initialized |-> TRUE]
  BY DEF Remembered
<1> HIDE DEF e
<1> QED BY <1>3, <1>4, <1>5, <1>6, <1>7, <1>8 DEF MemoryOf
-----------------------------------------------------------------------------
(* The invariant.                                                           *)

IInv == TypeOK /\ ResetForgets

LEMMA MemoryType ==
  ASSUME TypeOK
  PROVE  Memory \in MemoryOf((-ILimit .. ILimit) \cup {NaN})
BY DEF TypeOK, Memory, MemoryOf, Angles

LEMMA MotorsType ==
  ASSUME NEW base \in Int, NEW correction \in Double
  PROVE  {Motors(base, correction).left, Motors(base, correction).right}
           \subseteq (0 .. FullSpeed) \cup {NaN}
<1>1. base \in Double /\ FullSpeed \in Int /\ 0 <= FullSpeed
  BY InputAssumption DEF Double
<1>2. Minus(correction) \in Double
  BY Products
<1>3. Plus(base, Minus(correction)) \in Double /\ Plus(base, correction) \in Double
  BY <1>1, <1>2, Sums
<1>4. /\ Clamp(Plus(base, Minus(correction)), 0, FullSpeed) \in (0 .. FullSpeed) \cup {NaN}
      /\ Clamp(Plus(base, correction), 0, FullSpeed) \in (0 .. FullSpeed) \cup {NaN}
  <2> DEFINE l == Plus(base, Minus(correction))
             r == Plus(base, correction)
  <2>1. l \in Double /\ r \in Double
    BY <1>3
  <2> HIDE DEF l, r
  <2>2. 0 \in Int
    OBVIOUS
  <2>3. Clamp(l, 0, FullSpeed) \in (0 .. FullSpeed) \cup {NaN}
    BY <1>1, <2>1, <2>2, Clamped
  <2>4. Clamp(r, 0, FullSpeed) \in (0 .. FullSpeed) \cup {NaN}
    BY <1>1, <2>1, <2>2, Clamped
  <2> QED BY <2>3, <2>4 DEF l, r
<1> QED BY <1>4 DEF Motors

LEMMA InvInit == ASSUME Init PROVE IInv
<1>1. {Motors(0, 0).left, Motors(0, 0).right} \subseteq (0 .. FullSpeed) \cup {NaN}
  BY MotorsType DEF Double
<1>2. {out.motors.left, out.motors.right} \subseteq (0 .. FullSpeed) \cup {NaN}
      /\ out.correction = 0
  BY <1>1 DEF Init
<1>3. config \in Config /\ config.min_output <= config.max_output /\ config.max_i_term <= ILimit
  BY ConfigAssumption DEF Init
<1>4. 0 \in (-ILimit .. ILimit) \cup {NaN} /\ 0 # NaN
  BY ConfigAssumption, InputAssumption
<1>5. TypeOK
  <2>1. /\ i_term = 0 /\ prev_error = 0 /\ prev_output = 0 /\ filtered_gyro = 0
        /\ initialized = FALSE /\ corrupt = FALSE
    BY DEF Init
  <2>2. 0 \in (-180 .. 180) \cup {NaN} /\ 0 \in Double
    BY DEF Double
  <2> QED BY <1>2, <1>3, <1>4, <2>1, <2>2 DEF TypeOK
<1>6. ResetForgets
  BY <1>4 DEF Init, ResetForgets
<1> QED BY <1>5, <1>6 DEF IInv

LEMMA UpdateInv ==
  ASSUME IInv, NEW in \in Input, NEW base \in Bases, Update(in, base)
  PROVE  IInv'
<1>1. PICK smooth \in Filtered(config, Memory, in.gyro) :
        LET s == Remembered(config, Memory, in, smooth) IN
        /\ i_term' = s.i_term /\ prev_error' = s.prev_error
        /\ prev_output' = s.prev_output /\ filtered_gyro' = s.filtered_gyro
        /\ initialized' = s.initialized
        /\ out' = [correction |-> s.prev_output, motors |-> Motors(base, s.prev_output)]
  BY DEF Update
<1> DEFINE s == Remembered(config, Memory, in, smooth)
<1>2. /\ s \in MemoryOf((-ILimit .. ILimit) \cup {NaN})
      /\ NaN \notin {in.difference, in.gyro, i_term, prev_error, prev_output, filtered_gyro}
           => NaN \notin {s.i_term, s.prev_error, s.prev_output, s.filtered_gyro}
  <2>1. /\ Memory.i_term = i_term /\ Memory.prev_error = prev_error
        /\ Memory.prev_output = prev_output /\ Memory.filtered_gyro = filtered_gyro
    BY DEF Memory
  <2>2. in.dt > 0 /\ config \in Config /\ config.min_output <= config.max_output
        /\ config.max_i_term <= ILimit
    BY DEF Update, IInv, TypeOK
  <2> QED BY <2>1, <2>2, MemoryType, RememberedType DEF IInv
<1> HIDE DEF s
<1>3. /\ i_term' = s.i_term /\ prev_error' = s.prev_error
      /\ prev_output' = s.prev_output /\ filtered_gyro' = s.filtered_gyro
      /\ initialized' = s.initialized
      /\ out' = [correction |-> s.prev_output, motors |-> Motors(base, s.prev_output)]
  BY <1>1 DEF s
<1>4. /\ s.i_term \in (-ILimit .. ILimit) \cup {NaN} /\ s.prev_error \in Angles
      /\ s.prev_output \in Double /\ s.filtered_gyro \in Double /\ s.initialized \in BOOLEAN
  BY <1>2 DEF MemoryOf
<1>5. {out'.motors.left, out'.motors.right} \subseteq (0 .. FullSpeed) \cup {NaN}
      /\ out'.correction \in Double
  BY <1>3, <1>4, MotorsType, InputAssumption
<1>6. corrupt' = (corrupt \/ NaN \in {in.difference, in.gyro}) /\ config' = config
  BY DEF Update
<1>7. TypeOK'
  BY <1>3, <1>4, <1>5, <1>6 DEF IInv, TypeOK, Angles
<1>8. ResetForgets'
  BY <1>2, <1>3, <1>6 DEF IInv, TypeOK, ResetForgets
<1> QED BY <1>7, <1>8 DEF IInv

LEMMA OthersInv ==
  ASSUME IInv,
         \/ \E in \in Input, base \in Bases : UpdateNothing(in, base)
         \/ \E c \in Configs : SetConfig(c) \/ SetGains(c)
         \/ Reset
         \/ UNCHANGED vars
  PROVE  IInv'
<1> USE DEF IInv, TypeOK, ResetForgets, memory
<1>1. ASSUME NEW in \in Input, NEW base \in Bases, UpdateNothing(in, base) PROVE IInv'
  <2>1. {Motors(base, 0).left, Motors(base, 0).right} \subseteq (0 .. FullSpeed) \cup {NaN}
    BY MotorsType, InputAssumption DEF Double
  <2> QED BY <1>1, <2>1 DEF UpdateNothing, Double
<1>2. ASSUME NEW c \in Configs, SetConfig(c) PROVE IInv'
  BY <1>2, ConfigAssumption DEF SetConfig
<1>3. ASSUME NEW c \in Configs, SetGains(c) PROVE IInv'
  <2>1. c.kp \in Int /\ c.ki \in Int /\ c.kd \in Int /\ c.kff \in Int
    BY ConfigAssumption DEF Config
  <2>2. /\ config' \in Config
        /\ config'.min_output = config.min_output /\ config'.max_output = config.max_output
        /\ config'.max_i_term = config.max_i_term
    BY <1>3, <2>1 DEF SetGains, Config
  <2> QED BY <1>3, <2>2 DEF SetGains
<1>4. CASE Reset
  <2>1. 0 \in (-ILimit .. ILimit) \cup {NaN} /\ 0 # NaN
    BY ConfigAssumption, InputAssumption
  <2>2. TypeOK'
    <3>1. /\ i_term' = 0 /\ prev_error' = 0 /\ prev_output' = 0 /\ filtered_gyro' = 0
          /\ initialized' = FALSE /\ corrupt' = FALSE /\ config' = config /\ out' = out
      BY <1>4 DEF Reset
    <3>2. 0 \in (-180 .. 180) \cup {NaN} /\ 0 \in Double
      BY DEF Double
    <3> QED BY <2>1, <3>1, <3>2
  <2>3. ResetForgets'
    BY <1>4, <2>1 DEF Reset
  <2> QED BY <2>2, <2>3
<1>5. CASE UNCHANGED vars
  BY <1>5 DEF vars
<1> QED BY <1>1, <1>2, <1>3, <1>4, <1>5

LEMMA InvNext == ASSUME IInv, [Next]_vars PROVE IInv'
BY UpdateInv, OthersInv DEF Next

THEOREM InvariantHolds == Spec => []IInv
<1>1. Init => IInv
  BY InvInit
<1>2. IInv /\ [Next]_vars => IInv'
  BY InvNext
<1> QED BY <1>1, <1>2, PTL DEF Spec

\* Every variable of the controller stays in its domain (HeadingController::update,
\* setConfig, setGains, reset): the integral within the largest limit it was given,
\* the motors within full speed, whatever the configurations and the inputs.
THEOREM TypeCorrect == Spec => []TypeOK
BY InvariantHolds, PTL DEF IInv

\* A NaN in what the controller remembers was given to it since the last reset()
\* (HeadingController::reset): the reset forgets all of it.
THEOREM ResetForgetsAll == Spec => []ResetForgets
BY InvariantHolds, PTL DEF IInv
-----------------------------------------------------------------------------
(* The limits of the output.                                                *)

LEMMA UpdateLimited ==
  ASSUME IInv, NEW in \in Input, NEW base \in Bases, Update(in, base),
         NaN \notin {prev_output, prev_output'}
  PROVE  Excess(prev_output') = 0 \/ Excess(prev_output') < Excess(prev_output)
<1>1. PICK smooth \in Filtered(config, Memory, in.gyro) :
        prev_output' = Remembered(config, Memory, in, smooth).prev_output
  BY DEF Update
<1>2. prev_output' = Correction(config, Memory, in, smooth)
  BY <1>1 DEF Remembered
<1>3. /\ config \in Config /\ config.min_output <= config.max_output /\ config' = config
      /\ in.dt > 0
  BY DEF IInv, TypeOK, Update
<1>4. Memory \in MemoryOf(Double) /\ Memory.prev_output = prev_output
  <2>1. (-ILimit .. ILimit) \cup {NaN} \subseteq Double
    BY ConfigAssumption DEF Double
  <2> QED BY <2>1, MemoryType DEF IInv, MemoryOf, Memory
<1>5. smooth \in Double
  BY <1>4, InputType, <1>3, FilteredType
<1>6. /\ prev_output' \in Double
      /\ \/ prev_output' \in config.min_output .. config.max_output
         \/ prev_output < prev_output' /\ prev_output' < config.max_output
         \/ config.min_output < prev_output' /\ prev_output' < prev_output
  BY <1>2, <1>3, <1>4, <1>5, CorrectionType
<1>7. /\ prev_output \in Int /\ prev_output' \in Int
      /\ config.min_output \in Int /\ config.max_output \in Int
  BY <1>3, <1>6 DEF IInv, TypeOK, Double, Config
<1> QED BY <1>3, <1>6, <1>7 DEF Excess

\* An output that is outside the limits comes nearer with every update
\* (HeadingController::update, steps 7 and 8), for any configurations, however
\* often they change.
THEOREM OutputsAreLimited == Spec => OutputIsLimited
<1> DEFINE Limited == memory' # memory /\ initialized' /\ NaN \notin {prev_output, prev_output'} =>
             Excess(prev_output') = 0 \/ Excess(prev_output') < Excess(prev_output)
<1>1. IInv /\ [Next]_vars => [Limited]_vars
  <2> SUFFICES ASSUME IInv, Next, memory' # memory, initialized',
                      NaN \notin {prev_output, prev_output'}
               PROVE  Excess(prev_output') = 0 \/ Excess(prev_output') < Excess(prev_output)
    OBVIOUS
  <2>1. \E in \in Input, base \in Bases : Update(in, base)
    BY DEF Next, UpdateNothing, SetConfig, SetGains, Reset
  <2> QED BY <2>1, UpdateLimited
<1> QED BY <1>1, InvariantHolds, PTL DEF Spec, OutputIsLimited
-----------------------------------------------------------------------------
(* Left and right.                                                          *)

LEMMA ErrorMirrored ==
  ASSUME NEW c \in Config, NEW difference \in Double
  PROVE  Error(c, Minus(difference)) = Minus(Error(c, difference))
<1>1. CASE difference = NaN
  BY <1>1 DEF Error, Minus, Times
<1>2. CASE difference # NaN
  <2>1. difference \in Int /\ Minus(difference) = -difference /\ Minus(difference) # NaN
    BY <1>2, InputAssumption DEF Double, Minus, Times
  <2>2. /\ normalizeAngleDeg(difference) \in Int
        /\ normalizeAngleDeg(-difference) = -normalizeAngleDeg(difference)
    BY <2>1, ShortWay, ShortWayMirrored
  <2>3. c.deadband_deg \in Nat
    BY DEF Config
  <2> QED BY <1>2, <2>1, <2>2, <2>3, InputAssumption DEF Error, Minus, Times
<1> QED BY <1>1, <1>2

LEMMA MirroredType ==
  ASSUME NEW s \in MemoryOf(Double)
  PROVE  /\ Mirrored(s).i_term = Minus(s.i_term) /\ Mirrored(s).prev_error = Minus(s.prev_error)
         /\ Mirrored(s).prev_output = Minus(s.prev_output)
         /\ Mirrored(s).filtered_gyro = Minus(s.filtered_gyro)
         /\ Mirrored(s).initialized = s.initialized
BY DEF MemoryOf, Mirrored

LEMMA MirroredRecord ==
  ASSUME NEW i, NEW e, NEW o, NEW g
  PROVE  Mirrored([i_term |-> i, prev_error |-> e, prev_output |-> o, filtered_gyro |-> g,
                   initialized |-> TRUE])
           = [i_term |-> Minus(i), prev_error |-> Minus(e), prev_output |-> Minus(o),
              filtered_gyro |-> Minus(g), initialized |-> TRUE]
BY DEF Mirrored

LEMMA ClampMirrored ==
  ASSUME NEW x \in Double, NEW h \in Int, -h <= h
  PROVE  Clamp(Minus(x), -h, h) = Minus(Clamp(x, -h, h)) /\ Clamp(x, -h, h) \in Double
<1>1. -h \in Int
  OBVIOUS
<1>2. Clamp(x, -h, h) \in (-h .. h) \cup {NaN}
  BY <1>1, Clamped
<1> QED BY <1>2, Opposites DEF Double

LEMMA IntegralMirrored ==
  ASSUME NEW c \in Config, NEW s \in MemoryOf(Double), NEW e \in Double, NEW dt \in {1, 2}
  PROVE  Integral(c, Mirrored(s), Minus(e), dt) = Minus(Integral(c, s, e, dt))
<1> DEFINE k == c.ki * dt
           both == Plus(e, s.prev_error)
           m == c.max_i_term
<1>1. /\ s.i_term \in Double /\ s.prev_error \in Double /\ k \in Int
      /\ m \in Int /\ -m <= m
  <2>1. s.i_term \in Double /\ s.prev_error \in Double
    BY AnglesAreDoubles DEF MemoryOf
  <2>2. c.ki \in Int /\ c.max_i_term \in Nat
    BY DEF Config
  <2> QED BY <2>1, <2>2
<1> HIDE DEF k, m
<1>2. Plus(Minus(e), Minus(s.prev_error)) = Minus(both) /\ both \in Double
  BY <1>1, Opposites, Sums
<1> HIDE DEF both
<1>3. Times(k, Minus(both)) = Minus(Times(k, both)) /\ Times(k, both) \in Double
  BY <1>1, <1>2, Opposites, Products
<1>4. /\ Plus(Minus(s.i_term), Minus(Times(k, both))) = Minus(Plus(s.i_term, Times(k, both)))
      /\ Plus(s.i_term, Times(k, both)) \in Double
  BY <1>1, <1>3, Opposites, Sums
<1>5. Clamp(Minus(Plus(s.i_term, Times(k, both))), -m, m)
        = Minus(Clamp(Plus(s.i_term, Times(k, both)), -m, m))
  BY <1>1, <1>4, Opposites
<1>6. Integral(c, s, e, dt) = IF ~s.initialized THEN s.i_term ELSE IF c.ki = 0 THEN 0
                              ELSE Clamp(Plus(s.i_term, Times(k, both)), -m, m)
  BY DEF Integral, k, both, m
<1>7. Integral(c, Mirrored(s), Minus(e), dt) =
        IF ~s.initialized THEN Minus(s.i_term) ELSE IF c.ki = 0 THEN 0
        ELSE Clamp(Plus(Minus(s.i_term), Times(k, Plus(Minus(e), Minus(s.prev_error)))), -m, m)
  BY MirroredType DEF Integral, k, m
<1>8. Minus(0) = 0
  BY InputAssumption DEF Minus, Times
<1> QED BY <1>2, <1>3, <1>4, <1>5, <1>6, <1>7, <1>8

LEMMA DerivativeMirrored ==
  ASSUME NEW c \in Config, NEW s \in MemoryOf(Double), NEW e \in Double,
         NEW gyro \in Double, NEW smooth \in Double, NEW dt \in {1, 2}
  PROVE  Derivative(c, Mirrored(s), Minus(e), Minus(gyro), Minus(smooth), dt)
           = Minus(Derivative(c, s, e, gyro, smooth, dt))
<1> DEFINE change == Plus(e, Minus(s.prev_error))
           k == -2 * c.kd
<1>1. s.prev_error \in Double /\ c.kd \in Int /\ k \in Int
  BY AnglesAreDoubles DEF MemoryOf, Config
<1> HIDE DEF k
<1>2. Minus(s.prev_error) \in Double
  BY <1>1, Products
<1>3. Plus(Minus(e), Minus(Minus(s.prev_error))) = Minus(change) /\ change \in Double
  BY <1>1, <1>2, Opposites, Sums
<1> HIDE DEF change
<1>4. Minus(gyro) # 0 <=> gyro # 0
  BY InputAssumption DEF Double, Minus, Times
<1>5. Times(k, Minus(smooth)) = Minus(Times(k, smooth))
  BY <1>1, Opposites
<1>6. /\ Minus(change) = NaN <=> change = NaN
      /\ change # NaN => change \in Int /\ Minus(change) = -change
  BY <1>3, InputAssumption DEF Double, Minus, Times
<1>7. ASSUME change # NaN
      PROVE  (2 * (c.kd * Minus(change))) \div dt = Minus((2 * (c.kd * change)) \div dt)
  <2>1. change \in Int /\ Minus(change) = -change
    BY <1>6, <1>7
  <2>2. c.kd * (-change) = -(c.kd * change) /\ c.kd * change \in Int
    BY <1>1, <2>1
  <2> DEFINE x == c.kd * change
  <2> HIDE DEF x
  <2>3. (2 * (-x)) \div dt = -((2 * x) \div dt) /\ (2 * x) \div dt \in Int
    BY <2>2, Halves DEF x
  <2>4. Minus((2 * x) \div dt) = -((2 * x) \div dt)
    BY <2>3, InputAssumption DEF Minus, Times
  <2> QED BY <2>1, <2>2, <2>3, <2>4 DEF x
<1>8. Derivative(c, s, e, gyro, smooth, dt) =
        IF gyro # 0 \/ ~s.initialized THEN Times(k, smooth)
        ELSE IF change = NaN THEN NaN ELSE (2 * (c.kd * change)) \div dt
  BY DEF Derivative, change, k
<1>9. Derivative(c, Mirrored(s), Minus(e), Minus(gyro), Minus(smooth), dt) =
        IF Minus(gyro) # 0 \/ ~s.initialized THEN Times(k, Minus(smooth))
        ELSE IF Minus(change) = NaN THEN NaN ELSE (2 * (c.kd * Minus(change))) \div dt
  BY <1>3, MirroredType DEF Derivative, k
<1>10. Minus(NaN) = NaN
  BY DEF Minus, Times
<1> QED BY <1>4, <1>5, <1>6, <1>7, <1>8, <1>9, <1>10

LEMMA SlewedMirrored ==
  ASSUME NEW c \in Config, NEW s \in MemoryOf(Double), NEW raw \in Double, NEW dt \in {1, 2}
  PROVE  Slewed(c, Mirrored(s), Minus(raw), dt) = Minus(Slewed(c, s, raw, dt))
<1> DEFINE step == c.max_slew_rate * dt
           way == Plus(raw, Minus(s.prev_output))
<1>1. s.prev_output \in Double /\ step \in Int /\ -step <= step
  <2>1. c.max_slew_rate \in Nat
    BY DEF Config
  <2> QED BY <2>1 DEF MemoryOf
<1> HIDE DEF step
<1>2. Minus(s.prev_output) \in Double
  BY <1>1, Products
<1>3. Plus(Minus(raw), Minus(Minus(s.prev_output))) = Minus(way) /\ way \in Double
  BY <1>1, <1>2, Opposites, Sums
<1> HIDE DEF way
<1>4. /\ Clamp(Minus(way), -step, step) = Minus(Clamp(way, -step, step))
      /\ Clamp(way, -step, step) \in Double
  BY <1>1, <1>3, ClampMirrored
<1>5. Plus(Minus(s.prev_output), Minus(Clamp(way, -step, step)))
        = Minus(Plus(s.prev_output, Clamp(way, -step, step)))
  BY <1>1, <1>4, Opposites
<1>6. Slewed(c, s, raw, dt) = IF s.initialized /\ c.max_slew_rate > 0
                              THEN Plus(s.prev_output, Clamp(way, -step, step)) ELSE raw
  BY DEF Slewed, way, step
<1>7. Slewed(c, Mirrored(s), Minus(raw), dt) =
        IF s.initialized /\ c.max_slew_rate > 0
        THEN Plus(Minus(s.prev_output), Clamp(Minus(way), -step, step)) ELSE Minus(raw)
  BY <1>3, MirroredType DEF Slewed, step
<1> QED BY <1>4, <1>5, <1>6, <1>7

LEMMA SumMirrored ==
  ASSUME NEW c \in Config, NEW s \in MemoryOf(Double), NEW in \in Input, in.dt > 0,
         NEW smooth \in Double
  PROVE  Sum(c, Mirrored(s), MirroredInput(in), Minus(smooth)) = Minus(Sum(c, s, in, smooth))
<1> DEFINE e == Error(c, in.difference)
           ff == Times(2 * c.kff, in.yaw_rate)
           p == Times(2 * c.kp, e)
           i == Integral(c, s, e, in.dt)
           d == Derivative(c, s, e, in.gyro, smooth, in.dt)
<1>1. /\ in.dt \in {1, 2} /\ in.difference \in Double /\ in.gyro \in Double
      /\ in.yaw_rate \in Double
  BY InputType
<1>2. /\ MirroredInput(in).difference = Minus(in.difference)
      /\ MirroredInput(in).gyro = Minus(in.gyro)
      /\ MirroredInput(in).yaw_rate = Minus(in.yaw_rate)
      /\ MirroredInput(in).dt = in.dt
  BY DEF MirroredInput, Input
<1>3. Error(c, Minus(in.difference)) = Minus(e) /\ e \in Angles /\ e \in Double
  BY <1>1, ErrorMirrored, ErrorType, AnglesAreDoubles
<1>4. 2 * c.kff \in Int /\ 2 * c.kp \in Int
  BY DEF Config
<1>5. Times(2 * c.kff, Minus(in.yaw_rate)) = Minus(ff) /\ ff \in Double
  <2>1. Times(2 * c.kff, Minus(in.yaw_rate)) = Minus(ff)
    BY <1>1, <1>4, Opposites
  <2>2. ff \in Double
    BY <1>1, <1>4, Products
  <2> QED BY <2>1, <2>2
<1>6. Integral(c, Mirrored(s), Minus(e), in.dt) = Minus(i) /\ i \in Double
  BY <1>1, <1>3, IntegralMirrored, IntegralType
<1>7. Derivative(c, Mirrored(s), Minus(e), Minus(in.gyro), Minus(smooth), in.dt) = Minus(d)
      /\ d \in Double
  <2> HIDE DEF e
  <2>1. Derivative(c, Mirrored(s), Minus(e), Minus(in.gyro), Minus(smooth), in.dt) = Minus(d)
    BY <1>1, <1>3, DerivativeMirrored
  <2>2. d \in Double
    BY <1>1, <1>3, DerivativeType
  <2> QED BY <2>1, <2>2
<1>8. Times(2 * c.kp, Minus(e)) = Minus(p) /\ p \in Double
  <2> HIDE DEF e
  <2> QED BY <1>3, <1>4, Opposites, Products
<1>9. Sum(c, s, in, smooth) = Plus(Plus(ff, p), Plus(i, d))
  BY DEF Sum
<1>10. Sum(c, Mirrored(s), MirroredInput(in), Minus(smooth))
         = Plus(Plus(Minus(ff), Minus(p)), Plus(Minus(i), Minus(d)))
  BY <1>2, <1>3, <1>5, <1>6, <1>7, <1>8 DEF Sum
<1> HIDE DEF ff, p, i, d
<1>11. /\ Plus(Minus(ff), Minus(p)) = Minus(Plus(ff, p)) /\ Plus(ff, p) \in Double
       /\ Plus(Minus(i), Minus(d)) = Minus(Plus(i, d)) /\ Plus(i, d) \in Double
  BY <1>5, <1>6, <1>7, <1>8, Opposites, Sums
<1>12. Plus(Minus(Plus(ff, p)), Minus(Plus(i, d))) = Minus(Plus(Plus(ff, p), Plus(i, d)))
  BY <1>11, Opposites
<1> QED BY <1>9, <1>10, <1>11, <1>12

LEMMA RememberedMirrored ==
  ASSUME NEW c \in Config, c.min_output = -c.max_output, c.min_output <= c.max_output,
         NEW s \in MemoryOf(Double), NEW in \in Input, in.dt > 0, NEW smooth \in Double
  PROVE  Remembered(c, Mirrored(s), MirroredInput(in), Minus(smooth))
           = Mirrored(Remembered(c, s, in, smooth))
<1> DEFINE e == Error(c, in.difference)
           sum == Sum(c, s, in, smooth)
           h == c.max_output
<1>1. /\ in.dt \in {1, 2} /\ in.difference \in Double
      /\ MirroredInput(in).difference = Minus(in.difference) /\ MirroredInput(in).dt = in.dt
  BY InputType DEF MirroredInput, Input
<1>2. Error(c, Minus(in.difference)) = Minus(e) /\ e \in Double
  BY <1>1, ErrorMirrored, ErrorType, AnglesAreDoubles
<1>3. Integral(c, Mirrored(s), Minus(e), in.dt) = Minus(Integral(c, s, e, in.dt))
  BY <1>1, <1>2, IntegralMirrored
<1>4. Sum(c, Mirrored(s), MirroredInput(in), Minus(smooth)) = Minus(sum) /\ sum \in Double
  BY SumMirrored, SumType
<1> HIDE DEF sum
<1>5. h \in Int /\ -h <= h
  BY DEF Config
<1> HIDE DEF h
<1>6. Clamp(Minus(sum), -h, h) = Minus(Clamp(sum, -h, h)) /\ Clamp(sum, -h, h) \in Double
  BY <1>4, <1>5, ClampMirrored
<1>7. Correction(c, Mirrored(s), MirroredInput(in), Minus(smooth))
        = Minus(Correction(c, s, in, smooth))
  <2>1. Correction(c, s, in, smooth) = Slewed(c, s, Clamp(sum, -h, h), in.dt)
    BY CorrectionIsSlewed DEF sum, h
  <2>2. Correction(c, Mirrored(s), MirroredInput(in), Minus(smooth))
          = Slewed(c, Mirrored(s), Minus(Clamp(sum, -h, h)), in.dt)
    BY <1>1, <1>4, <1>6, CorrectionIsSlewed DEF h
  <2> QED BY <1>1, <1>6, <2>1, <2>2, SlewedMirrored
<1>8. Remembered(c, s, in, smooth) =
        [i_term |-> Integral(c, s, e, in.dt), prev_error |-> e,
         prev_output |-> Correction(c, s, in, smooth), filtered_gyro |-> smooth,
         initialized |-> TRUE]
  BY DEF Remembered
<1>9. Remembered(c, Mirrored(s), MirroredInput(in), Minus(smooth)) =
        [i_term |-> Minus(Integral(c, s, e, in.dt)), prev_error |-> Minus(e),
         prev_output |-> Minus(Correction(c, s, in, smooth)),
         filtered_gyro |-> Minus(smooth), initialized |-> TRUE]
  BY <1>1, <1>2, <1>3, <1>7 DEF Remembered
<1> HIDE DEF e
<1> QED BY <1>8, <1>9, MirroredRecord

\* Left is corrected as right is (HeadingController::update), in every reachable
\* state, for every input and every outcome of the filter.
THEOREM LeftIsRightAlways == Spec => []LeftIsRight
<1>1. IInv => LeftIsRight
  <2> SUFFICES ASSUME IInv, config.min_output = -config.max_output, NEW in \in Input,
                      NEW smooth \in Filtered(config, Memory, in.gyro), in.dt > 0
               PROVE  Remembered(config, Mirrored(Memory), MirroredInput(in), Minus(smooth))
                        = Mirrored(Remembered(config, Memory, in, smooth))
    BY DEF LeftIsRight
  <2>1. Memory \in MemoryOf(Double)
    <3>1. (-ILimit .. ILimit) \cup {NaN} \subseteq Double
      BY ConfigAssumption DEF Double
    <3> QED BY <3>1, MemoryType DEF IInv, MemoryOf, Memory
  <2>2. smooth \in Double
    BY <2>1, InputType, FilteredType
  <2>3. config \in Config /\ config.min_output <= config.max_output
    BY DEF IInv, TypeOK
  <2> QED BY <2>1, <2>2, <2>3, RememberedMirrored
<1> QED BY <1>1, InvariantHolds, PTL
=============================================================================
