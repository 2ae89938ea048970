------------------------------- MODULE Beats --------------------------------
(***************************************************************************)
(* Beats of knaster_primitives: whole beats and tesimals of a beat, which  *)
(* every common subdivision of a beat is a whole number of.  Like Seconds  *)
(* they are 32 bits wide in the code and do not wrap here; products go     *)
(* through floating point and are left out.                                *)
(***************************************************************************)
EXTENDS Integers

CONSTANT BEAT_TESIMALS      \* SUBBEAT_TESIMALS_PER_BEAT

ASSUME BeatTesimalsAssumption == BEAT_TESIMALS \in Nat \ {0}

AllBeats == [beats : Nat, beat_tesimals : 0 .. BEAT_TESIMALS - 1]

FromBeats(beats) == [beats |-> beats, beat_tesimals |-> 0]
ZeroBeats == FromBeats(0)

(* Panics unless fractional_beats < fraction.                              *)
FromFractionalBeats(fraction, beats, fractional_beats) ==
  [beats |-> beats, beat_tesimals |-> (BEAT_TESIMALS \div fraction) * fractional_beats]

(* What beats amount to.                                                   *)
InBeatTesimals(b) == b.beats * BEAT_TESIMALS + b.beat_tesimals

NotAfter(b, c) ==
  \/ b.beats < c.beats
  \/ b.beats = c.beats /\ b.beat_tesimals <= c.beat_tesimals

(* An Option: at most one.                                                 *)
CheckedSubBeats(b, c) ==
  IF ~NotAfter(c, b) THEN {}
  ELSE LET borrow == IF b.beat_tesimals < c.beat_tesimals THEN 1 ELSE 0 IN
       {[beats |-> b.beats - c.beats - borrow,
         beat_tesimals |-> borrow * BEAT_TESIMALS + b.beat_tesimals - c.beat_tesimals]}
SaturatingSubBeats(b, c) ==
  IF CheckedSubBeats(b, c) = {} THEN ZeroBeats ELSE CHOOSE d \in CheckedSubBeats(b, c) : TRUE

AddBeats(b, c) ==
  LET sum == b.beat_tesimals + c.beat_tesimals IN
  [beats |-> b.beats + c.beats + sum \div BEAT_TESIMALS, beat_tesimals |-> sum % BEAT_TESIMALS]
=============================================================================
