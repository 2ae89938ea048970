\* Liveness under the fairness of the audio driver and of a begun commit.
SPECIFICATION FairSpec
CONSTANTS
  a = a
  b = b
  Key = {a}
  SelfFreeing = {a}
  AutoMath = {}
  Guarded = {a}
  RingSize = 1
  MaxUpdates = 1
PROPERTIES
  SentIsPlayed
  FreedIsRemoved
