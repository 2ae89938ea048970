------------------------------ MODULE Seconds -------------------------------
(***************************************************************************)
(* Seconds of knaster_primitives: whole seconds and "tesimals", which are  *)
(* fine enough for a sample to be a whole number of them at every common   *)
(* sample rate.  Seconds are 32 bits wide in the code, 136 years; the      *)
(* operators here do not wrap.                                             *)
(***************************************************************************)
EXTENDS Integers

CONSTANT TESIMALS           \* SUBSECOND_TESIMALS_PER_SECOND

ASSUME TesimalsAssumption == TESIMALS \in Nat \ {0}

AllSeconds == [seconds : Nat, subsecond_tesimals : 0 .. TESIMALS - 1]

ZERO == [seconds |-> 0, subsecond_tesimals |-> 0]

ToTesimals(s) == s.seconds * TESIMALS + s.subsecond_tesimals

FromTesimals(n) ==
  [seconds |-> n \div TESIMALS, subsecond_tesimals |-> n % TESIMALS]

FromSamples(samples, sample_rate) ==
  [seconds |-> samples \div sample_rate,
   subsecond_tesimals |-> ((samples % sample_rate) * TESIMALS) \div sample_rate]

ToSamples(s, sample_rate) ==
  s.seconds * sample_rate + (s.subsecond_tesimals * sample_rate) \div TESIMALS

AtMost(s, t) ==
  \/ s.seconds < t.seconds
  \/ s.seconds = t.seconds /\ s.subsecond_tesimals <= t.subsecond_tesimals

(* s - t where that is not negative.                                        *)
Difference(s, t) ==
  LET borrow == IF s.subsecond_tesimals >= t.subsecond_tesimals THEN 0 ELSE 1 IN
  [seconds |-> s.seconds - t.seconds - borrow,
   subsecond_tesimals |-> borrow * TESIMALS + s.subsecond_tesimals - t.subsecond_tesimals]
SaturatingSub(s, t) == IF AtMost(s, t) THEN ZERO ELSE Difference(s, t)

(* An Option: at most one time.                                            *)
CheckedSub(s, t) == IF AtMost(t, s) THEN {Difference(s, t)} ELSE {}

Add(s, t) ==
  LET sum == s.subsecond_tesimals + t.subsecond_tesimals IN
  [seconds |-> s.seconds + t.seconds + sum \div TESIMALS,
   subsecond_tesimals |-> sum % TESIMALS]

(* Seconds with seconds and tesimals with tesimals, which are not scaled.  *)
Mul(s, t) ==
  LET product == s.subsecond_tesimals * t.subsecond_tesimals IN
  IF product > TESIMALS
  THEN [seconds |-> s.seconds * t.seconds + product \div TESIMALS,
        subsecond_tesimals |-> product % TESIMALS]
  ELSE [seconds |-> s.seconds * t.seconds, subsecond_tesimals |-> product]
=============================================================================
