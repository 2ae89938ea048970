------------------------- MODULE MCParameterChanges -------------------------
EXTENDS ParameterChanges, Beats

CONSTANT t

At(seconds, tesimals, absolute, token) ==
  [time |-> [seconds |-> [seconds |-> seconds, subsecond_tesimals |-> tesimals],
             absolute |-> absolute],
   token |-> token]

asap == At(0, 0, FALSE, NoToken)

\* With 6 tesimals and 3 samples a second: at once, after 2.5 samples, with and
\* without a token, and at sample 4.
Scheduled == {asap, At(0, 5, FALSE, t), At(0, 5, FALSE, NoToken), At(1, 2, TRUE, NoToken)}

Both == {<<"smoothing", "value">>}
OnlyValues == {<<"value">>}

\* All changes are to one of the nodes: nodes have only the clock and the queues in
\* common, and the other would add nothing but interleavings.
OneNodeChanges ==
  \E n \in Node :
    /\ \A i \in DOMAIN sent : sent[i].node_key = n
    /\ \A m \in Node \ {n} : nodes[m] = IF m \in Playing THEN "committed" ELSE "pushed"

\* At samples 1 and 4, the first in the middle and the second at the start of a block.
InAndBetweenBlocks == {At(0, 2, TRUE, NoToken), At(1, 0, TRUE, NoToken)}

\* The arithmetic of times and beats on everything below two and a half of them; and
\* what becomes of products, where half a second times half a second is no quarter.
SomeSeconds == {FromTesimals(n) : n \in 0 .. (5 * TESIMALS) \div 2}
SomeBeats == {AddBeats(FromBeats(n), FromFractionalBeats(BEAT_TESIMALS, 0, k)) :
                n \in 0 .. 2, k \in 0 .. BEAT_TESIMALS - 1}
ASSUME \A s, u \in SomeSeconds :
  /\ ToTesimals(Add(s, u)) = ToTesimals(s) + ToTesimals(u)
  /\ \A d \in CheckedSub(s, u) : Add(d, u) = s
  /\ Mul(s, u).seconds >= s.seconds * u.seconds
ASSUME \A b, c \in SomeBeats :
  /\ AddBeats(SaturatingSubBeats(b, c), c) = IF NotAfter(c, b) THEN b ELSE c
  /\ InBeatTesimals(AddBeats(b, c)) = InBeatTesimals(b) + InBeatTesimals(c)
ASSUME LET half == FromTesimals(TESIMALS \div 2)
       IN  4 * ToTesimals(Mul(half, half)) # TESIMALS
=============================================================================
