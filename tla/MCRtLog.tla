-------------------------------- MODULE MCRtLog ------------------------------
EXTENDS RtLog
TwoRings == <<4, 2>>
SomeMessages == <<3, 1>>
=============================================================================
