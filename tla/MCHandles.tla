------------------------------ MODULE MCHandles -----------------------------
EXTENDS Handles

Start(shapes, typed, length, called) ==
  [shapes |-> shapes, typed |-> typed, length |-> length, calls |-> called]
Mono == <<1, 1, 1>>
Stereo == <<2, 2, 0>>

Connecting == {"connect", "replace", "feedback", "stack"}
SomeStarts ==
  {Start(<<Mono, Mono>>, TRUE, 3, Connecting),
   Start(<<Mono, Stereo>>, FALSE, 3, Connecting \cup {"try", "out"}),
   Start(<<Mono, Stereo>>, TRUE, 3, {"arithmetic", "constant", "constant_left", "out", "stack", "dynamic", "connect"}),
   Start(<<Mono, Mono>>, TRUE, 3, {"arithmetic", "constant", "disconnect", "free"}),
   Start(<<Mono, Mono>>, TRUE, 3, {"connect", "try", "dynamic", "free"}),
   Start(<<Mono>>, TRUE, 4, {"push", "handle", "name", "free", "graph_out"}),
   Start(<<Mono, Stereo>>, TRUE, 3, {"inputs", "graph_out", "link", "disconnect", "connect"})}
TwoSelections == {<<1>>, <<2, 1>>}
OneOperation == {"sub"}
=============================================================================
