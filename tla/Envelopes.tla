----------------------------- MODULE Envelopes ------------------------------
(***************************************************************************)
(* The UGens at the bottom of a stack of wrappers: Constant, DoneOnTrig    *)
(* and the three envelopes, as functions from one sample to the next.      *)
(*                                                                         *)
(* Time is in frames and values are integers: t and its rates are in parts *)
(* of One, samples in parts of One^4, so that the cubic release is exact.  *)
(***************************************************************************)
EXTENDS Integers, Sequences, SequencesExt

CONSTANT One                \* 1.0 in the units of t
ASSUME OneAssumption == One \in Nat \ {0}

Unit == One * One * One * One           \* 1.0 in the units of samples

(* The values of a ParameterValue.                                         *)
Float(x) == [type |-> "float", x |-> x]
Trigger == [type |-> "trigger"]
Integer(x) == [type |-> "integer", x |-> x]
Smoothing(frames, rate) == [type |-> "smoothing", frames |-> frames, rate |-> rate]
NoSmoothing == [type |-> "no_smoothing"]

-----------------------------------------------------------------------------
Constant(value) == [kind |-> "constant", value |-> value]
DoneOnTrig == [kind |-> "trig", triggered |-> FALSE]

(* The rate of an attack or a release of some frames; no time is one frame.*)
AttackRate(frames) == IF frames = 0 THEN One ELSE One \div frames
ReleaseRate(frames) == IF frames = 0 THEN One ELSE One \div frames

EnvAsr(attack, release) ==
  [kind |-> "asr", state |-> "stopped", t |-> 0, release_scale |-> One,
   attack_seconds |-> attack, attack_rate |-> AttackRate(attack),
   release_seconds |-> release, release_rate |-> ReleaseRate(release)]
EnvAr(attack, release) == [EnvAsr(attack, release) EXCEPT !.kind = "ar"]

(* segments is a sequence of [duration, value].                            *)
Envelope(start, segments, looping) ==
  [kind |-> "segments", state |-> "stopped", segments |-> segments, looping |-> looping,
   start |-> start, from |-> start, current |-> 1, time |-> 0, time_scale |-> 1]

-----------------------------------------------------------------------------
(***************************************************************************)
(* One sample: the UGen after it, what it plays, whether it marks itself   *)
(* as done with it.                                                        *)
(***************************************************************************)
Sample(u, out) == [ugen |-> u, out |-> out, done |-> FALSE]
DoneSample(u, out) == [ugen |-> u, out |-> out, done |-> TRUE]

NextRelease(u) ==
  LET out == u.t * u.t * u.t * u.release_scale
      t == u.t - u.release_rate
  IN  IF t <= 0 THEN DoneSample([u EXCEPT !.state = "stopped", !.t = 0], out)
                ELSE Sample([u EXCEPT !.t = t], out)

(* After the attack EnvAsr holds 1.0 until it is released; t stays.        *)
NextAsr(u) ==
  CASE u.state = "stopped"    -> Sample(u, 0)
    [] u.state = "attacking"  ->
         LET t == u.t + u.attack_rate
         IN  Sample([u EXCEPT !.t = t, !.state = IF t >= One THEN "sustaining" ELSE @],
                    u.t * One * One * One)
    [] u.state = "sustaining" -> Sample(u, Unit)
    [] u.state = "releasing"  -> NextRelease(u)

(* After the attack EnvAr is released.                                     *)
NextAr(u) ==
  CASE u.state = "stopped"   -> Sample(u, 0)
    [] u.state = "attacking" ->
         LET t == u.t + u.attack_rate
         IN  Sample(IF t >= One
                    THEN [u EXCEPT !.t = One, !.release_scale = One, !.state = "releasing"]
                    ELSE [u EXCEPT !.t = t],
                    u.t * One * One * One)
    [] u.state = "releasing" -> NextRelease(u)

Along(from, segment, time) == from + (time * (segment.value - from)) \div segment.duration
NextSegments(u) ==
  LET segment == u.segments[u.current] IN
  CASE u.state = "stopped" -> Sample(u, u.from)
    [] u.state = "running" /\ u.time < segment.duration ->
         Sample([u EXCEPT !.time = @ + u.time_scale], Along(u.from, segment, u.time))
    [] u.state = "running" /\ u.time >= segment.duration /\ u.current < Len(u.segments) ->
         Sample([u EXCEPT !.from = segment.value, !.current = @ + 1,
                          !.time = @ - segment.duration + u.time_scale],
                segment.value)
    [] u.state = "running" /\ u.time >= segment.duration /\ u.current = Len(u.segments) ->
         IF u.looping
         THEN Sample([u EXCEPT !.from = segment.value, !.current = 1, !.time = 0], segment.value)
         ELSE DoneSample([u EXCEPT !.from = segment.value, !.state = "stopped"], segment.value)

(* DoneOnTrig has no output and is done with every sample once triggered.  *)
NextTrig(u) == IF u.triggered THEN DoneSample(u, 0) ELSE Sample(u, 0)
NextConstant(u) == Sample(u, u.value)

NextSample(u) ==
  CASE u.kind = "constant" -> NextConstant(u)
    [] u.kind = "trig"     -> NextTrig(u)
    [] u.kind = "asr"      -> NextAsr(u)
    [] u.kind = "ar"       -> NextAr(u)
    [] u.kind = "segments" -> NextSegments(u)

(* The UGens whose process_block counts the frames of the block; the rest  *)
(* is processed sample by sample and always marks frame 0.                 *)
CountsFrames(u) == u.kind \in {"asr", "ar"}

-----------------------------------------------------------------------------
(***************************************************************************)
(* param_apply                                                             *)
(***************************************************************************)
Parameters(u) ==
  CASE u.kind = "constant" -> {"value"}
    [] u.kind = "trig"     -> {"t_done"}
    [] u.kind = "asr"      -> {"attack_time", "release_time", "t_release", "t_restart"}
    [] u.kind = "ar"       -> {"attack_time", "release_time", "t_restart"}
    [] u.kind = "segments" -> {"time_scale", "jump_to_segment", "t_restart", "t_stop"}

Restarted(u) == [u EXCEPT !.state = "attacking"]

(* An early release falls from the value that the attack has reached.      *)
Released(u) ==
  CASE u.state \in {"stopped", "releasing"} -> u
    [] u.state = "attacking"  ->
         [u EXCEPT !.release_scale = u.t, !.state = "releasing", !.t = One]
    [] u.state = "sustaining" ->
         [u EXCEPT !.release_scale = One, !.state = "releasing", !.t = One]

WithAttack(u, frames) ==
  IF frames = u.attack_seconds THEN u
  ELSE [u EXCEPT !.attack_seconds = frames, !.attack_rate = AttackRate(frames)]
WithRelease(u, frames) ==
  IF frames = u.release_seconds THEN u
  ELSE [u EXCEPT !.release_seconds = frames, !.release_rate = ReleaseRate(frames)]

(* EnvAsr and EnvAr.                                                       *)
SetEnv(u, parameter, value) ==
  CASE parameter = "attack_time"  -> WithAttack(u, value.x)
    [] parameter = "release_time" -> WithRelease(u, value.x)
    [] parameter = "t_release"    -> Released(u)
    [] parameter = "t_restart"    -> Restarted(u)

(* Segments are counted from 0; past the last one is the last one.         *)
Jump(u, index) ==
  [u EXCEPT !.state = "running", !.time = 0,
            !.current = IF index >= Len(u.segments) THEN Len(u.segments) ELSE index + 1]
SetSegments(u, parameter, value) ==
  CASE parameter = "time_scale"      -> [u EXCEPT !.time_scale = value.x]
    [] parameter = "jump_to_segment" -> Jump(u, value.x)
    [] parameter = "t_restart"       ->
         [u EXCEPT !.state = "running", !.current = 1, !.time = 0, !.from = u.start]
    [] parameter = "t_stop"          ->
         [u EXCEPT !.state = "stopped",
                   !.from = IF u.state = "running"
                            THEN Along(@, u.segments[u.current], u.time) ELSE @]

Set(u, parameter, value) ==
  CASE u.kind = "constant"     -> [u EXCEPT !.value = value.x]
    [] u.kind = "trig"         -> [u EXCEPT !.triggered = TRUE]
    [] u.kind \in {"asr", "ar"} -> SetEnv(u, parameter, value)
    [] u.kind = "segments"     -> SetSegments(u, parameter, value)
=============================================================================
