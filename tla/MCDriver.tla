------------------------------- MODULE MCDriver ------------------------------
EXTENDS Driver
SomeSizes == {1, 3, 7}
Periods == {3, 4, 5}
AllSplits == {<<a, b>> \in Frames \X Frames : b <= BlockSize - 1 - a}
=============================================================================
