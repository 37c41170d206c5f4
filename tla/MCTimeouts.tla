----------------------------- MODULE MCTimeouts -----------------------------
(* An instance of Timeouts for TLC. *)
EXTENDS Timeouts, TLC

Config(default, max, retry) == [default |-> default, max |-> max, retry |-> retry]

Policy(type, maxRetry, base, num, den, maxDuration) ==
  [type |-> type, maxRetry |-> maxRetry, base |-> base, factor |-> [num |-> num, den |-> den],
   maxDuration |-> maxDuration]

\* Timeouts missing, equal and refused; delays that are constant, grow by addition, by the
\* factor 3/2, shrink by the factor 1/2, are negative, or none (no known type).
MCConfigs ==
  {Config(0, 0, Policy("constant", 2, 1, 0, 1, 0)),
   Config(2, 1, Policy("constant", 2, 1, 0, 1, 0)),
   Config(0, 1, Policy("linear", 3, 1, 0, 1, 2)),
   Config(2, 0, Policy("exponential", 3, 2, 3, 2, 3)),
   Config(0, 1, Policy("exponential", 3, 4, 1, 2, 3)),
   Config(0, 0, Policy("exponential", 3, 1, -2, 1, 3)),
   Config(0, 1, Policy("unknown", 2, 1, 2, 1, 3))}

Symmetry == Permutations(Jobs)
=============================================================================
