------------------------- MODULE MCHeadingController -------------------------
(* Small instances of HeadingController.                                    *)
EXTENDS HeadingController

Gains(kp, ki, kd, kff) == [kp |-> kp, ki |-> ki, kd |-> kd, kff |-> kff]
Limits(output, integral, deadband, filtered, slew) ==
  [max_output |-> output, min_output |-> -output, max_i_term |-> integral,
   deadband_deg |-> deadband, filtered |-> filtered, max_slew_rate |-> slew]
With(gains, limits) ==
  [kp |-> gains.kp, ki |-> gains.ki, kd |-> gains.kd, kff |-> gains.kff,
   max_output |-> limits.max_output, min_output |-> limits.min_output,
   max_i_term |-> limits.max_i_term, deadband_deg |-> limits.deadband_deg,
   filtered |-> limits.filtered, max_slew_rate |-> limits.max_slew_rate]

\* All terms at work and a slew limit; narrower limits, and neither integral,
\* filter nor slew limit.
MCConfigs ==
  {With(Gains(1, 1, 5, 10), Limits(40, 20, 3, TRUE, 10)),
   With(Gains(1, 0, 10, 0), Limits(20, 10, 3, FALSE, 0)),
   With(Gains(1, 1, 5, 10), Limits(20, 10, 3, TRUE, 10))}

\* Within the deadband, off by a few degrees, half a turn, and one and a
\* half.
MCDifferences == {NaN, 2, 10, -10, 180, 540}
MCRates == {NaN, 0, 1}
MCYawRates == {0, 1}
MCSteps == {0, 1, 2}
=============================================================================
