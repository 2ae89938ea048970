---------------------------- MODULE MCNodeOrder -----------------------------
EXTENDS NodeOrder

UpToTwoInputs == {<<>>, <<None>>} \cup {<<s>> : s \in Node}
                   \cup {pair \in Node \X Node : pair[1] # pair[2]}
NoParam       == {<<>>}
UpToOneParam  == {<<>>} \cup {<<s>> : s \in Node}
TwoOutputs    == Source \X Node
=============================================================================
