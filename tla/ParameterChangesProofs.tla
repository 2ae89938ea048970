----------------------- MODULE ParameterChangesProofs -----------------------
(***************************************************************************)
(* Proofs about time, and about ParameterChanges for every block size and  *)
(* queue length, any nodes, tokens and times.                              *)
(*                                                                         *)
(* Arithmetic of Seconds and of Beats is that of their tesimals, and at a  *)
(* sample rate that divides the tesimals of a second they count samples    *)
(* exactly, also when a time is counted down block by block.               *)
(*                                                                         *)
(* What a waiting relative time has left is the samples from now, or from  *)
(* the next block, to the frame it is due: now for the changes that the    *)
(* loop has yet to look at, the next block for those it has pushed back.   *)
(* The latter were found not ready, and nothing makes a change ready       *)
(* before the block ends.                                                  *)
(*                                                                         *)
(* On this rest: that no call is made before its frame (CallsInv), that    *)
(* changes of a new node come before its tasks (AheadInv), that every call *)
(* is in one place and in the order of sending (OrderlyInv), and that none *)
(* is made before its token is active (AppliedActivated).                  *)
(***************************************************************************)
EXTENDS ParameterChanges, Beats, WellFoundedInduction, SequenceTheorems,
        FiniteSetTheorems, TLAPS

(***************************************************************************)
(* Sets of numbers have a least, and if bounded a largest, member.         *)
(***************************************************************************)
Smaller == {pair \in Nat \X Nat : pair[1] < pair[2]}

LEMMA LeastNumber ==
  ASSUME NEW S, S \subseteq Nat, S # {}
  PROVE  \E x \in S : \A y \in S : x <= y
  <1>1. IsWellFoundedOn(Smaller, Nat)
    BY NatLessThanWellFounded DEF OpToRel, Smaller
  <1>2. \E x \in S : \A y \in S : ~ (<<y, x>> \in Smaller)
    BY <1>1, WFMin
  <1>3. PICK x \in S : \A y \in S : ~ (<<y, x>> \in Smaller)
    BY <1>2
  <1>4. ASSUME NEW y \in S PROVE x <= y
    <2>1. x \in Nat /\ y \in Nat /\ <<y, x>> \notin Smaller
      BY <1>3
    <2>. QED  BY <2>1 DEF Smaller
  <1>. QED  BY <1>3, <1>4

LEMMA LargestNumber ==
  ASSUME NEW bound \in Nat, NEW S, S \subseteq 0 .. bound, S # {}
  PROVE  \E x \in S : \A y \in S : y <= x
  <1> DEFINE R == {bound - x : x \in S}
  <1>1. R \subseteq Nat /\ R # {}
    <2>1. \A x \in S : bound - x \in Nat
      OBVIOUS
    <2>. QED  BY <2>1, Zenon
  <1>2. PICK r \in R : \A q \in R : r <= q
    <2>. HIDE DEF R
    <2>. QED  BY <1>1, LeastNumber
  <1>3. PICK x \in S : r = bound - x
    OBVIOUS
  <1>4. ASSUME NEW y \in S PROVE y <= x
    <2>1. bound - y \in R
      OBVIOUS
    <2>2. r <= bound - y
      BY <1>2, <2>1
    <2>. QED  BY <1>3, <2>2
  <1>. QED  BY <1>4

LEMMA Division ==
  ASSUME NEW a \in Nat, NEW b \in Nat \ {0}
  PROVE  a \div b \in Nat /\ a % b \in 0 .. b - 1 /\ a = (a \div b) * b + (a % b)
  <1> DEFINE p == a \div b
             s == a % b
  <1>1. p \in Int /\ s \in 0 .. b - 1 /\ a = b * p + s
    BY SMT
  <1>. HIDE DEF p, s
  <1>2. p < 0 => b * p <= -b
    BY <1>1, SMT
  <1>3. p \in Nat
    BY <1>1, <1>2, SMT
  <1>4. b * p = p * b
    BY <1>1, SMT
  <1>. QED  BY <1>1, <1>3, <1>4, Zenon DEF p, s

LEMMA DivisionUnique ==
  ASSUME NEW a \in Nat, NEW b \in Nat \ {0}, NEW q \in Nat, NEW r \in 0 .. b - 1,
         a = q * b + r
  PROVE  a \div b = q /\ a % b = r
  <1> DEFINE p == a \div b
             s == a % b
  <1>1. p \in Int /\ s \in 0 .. b - 1 /\ a = b * p + s
    BY SMT
  <1>2. b * (q - p) = s - r
    BY <1>1, SMT
  <1>3. q - p < 1
    BY <1>1, <1>2, SMT
  <1>4. p - q < 1
    BY <1>1, <1>2, SMT
  <1>. QED  BY <1>1, <1>2, <1>3, <1>4, SMT

(***************************************************************************)
(* Two digits to the base T: the order, a sum with a carry, a difference   *)
(* with a borrow.                                                          *)
(***************************************************************************)
LEMMA Ordered ==
  ASSUME NEW T \in Nat \ {0}, NEW a \in Nat, NEW b \in Nat,
         NEW x \in 0 .. T - 1, NEW y \in 0 .. T - 1
  PROVE  (a < b \/ (a = b /\ x <= y)) <=> a * T + x <= b * T + y
  <1>1. a < b => a * T + T <= b * T
    BY SMT
  <1>2. b < a => b * T + T <= a * T
    BY SMT
  <1> DEFINE A == a * T  B == b * T
  <1>3. A \in Nat /\ B \in Nat /\ (a = b => A = B)
    BY SMT
  <1>4. (a < b => A + T <= B) /\ (b < a => B + T <= A)
    BY <1>1, <1>2
  <1>. HIDE DEF A, B
  <1>5. (a < b \/ (a = b /\ x <= y)) <=> A + x <= B + y
    BY <1>3, <1>4, SMT
  <1>. QED  BY <1>5 DEF A, B

LEMMA Carried ==
  ASSUME NEW T \in Nat \ {0}, NEW a \in Nat, NEW b \in Nat,
         NEW x \in 0 .. T - 1, NEW y \in 0 .. T - 1
  PROVE  /\ a + b + (x + y) \div T \in Nat /\ (x + y) % T \in 0 .. T - 1
         /\ (a + b + (x + y) \div T) * T + ((x + y) % T) = (a * T + x) + (b * T + y)
  <1> DEFINE q == (x + y) \div T  r == (x + y) % T
  <1>1. q \in Nat /\ r \in 0 .. T - 1 /\ x + y = q * T + r
    <2>1. x + y \in Nat
      BY SMT
    <2>. QED  BY <2>1, Division
  <1>. HIDE DEF q, r
  <1>2. (a + b + q) * T + r = (a * T + x) + (b * T + y)
    BY <1>1, SMT
  <1>. QED  BY <1>1, <1>2, SMT DEF q, r

LEMMA Borrowed ==
  ASSUME NEW T \in Nat \ {0}, NEW a \in Nat, NEW b \in Nat,
         NEW x \in 0 .. T - 1, NEW y \in 0 .. T - 1,
         NEW c \in {0, 1}, c = 0 <=> x >= y, b * T + y <= a * T + x
  PROVE  /\ a - b - c \in Nat /\ c * T + x - y \in 0 .. T - 1
         /\ (a - b - c) * T + (c * T + x - y) = (a * T + x) - (b * T + y)
  <1>1. b < a \/ (b = a /\ y <= x)
    BY Ordered
  <1>2. a - b - c \in Nat /\ c * T + x - y \in 0 .. T - 1
    BY <1>1, SMT
  <1>3. (a - b - c) * T = a * T - b * T - c * T
    BY SMT
  <1>. QED  BY <1>2, <1>3, SMT

LEMMA SecondsDigits ==
  ASSUME NEW s \in AllSeconds
  PROVE  /\ TESIMALS \in Nat \ {0} /\ s.seconds \in Nat
         /\ s.subsecond_tesimals \in 0 .. TESIMALS - 1
         /\ ToTesimals(s) \in Nat
         /\ s = [seconds |-> s.seconds, subsecond_tesimals |-> s.subsecond_tesimals]
  <1>1. /\ TESIMALS \in Nat \ {0} /\ s.seconds \in Nat
        /\ s.subsecond_tesimals \in 0 .. TESIMALS - 1
        /\ s = [seconds |-> s.seconds, subsecond_tesimals |-> s.subsecond_tesimals]
    BY TesimalsAssumption DEF AllSeconds
  <1>. QED  BY <1>1, SMT DEF ToTesimals

LEMMA OrderOfTesimals ==
  ASSUME NEW s \in AllSeconds, NEW t \in AllSeconds
  PROVE  AtMost(s, t) <=> ToTesimals(s) <= ToTesimals(t)
  BY SecondsDigits, Ordered DEF AtMost, ToTesimals

LEMMA DifferenceExact ==
  ASSUME NEW s \in AllSeconds, NEW t \in AllSeconds, ToTesimals(t) <= ToTesimals(s)
  PROVE  /\ Difference(s, t) \in AllSeconds
         /\ ToTesimals(Difference(s, t)) = ToTesimals(s) - ToTesimals(t)
  <1> DEFINE a == s.seconds              b == t.seconds
             x == s.subsecond_tesimals   y == t.subsecond_tesimals
             c == IF x >= y THEN 0 ELSE 1
  <1>1. /\ TESIMALS \in Nat \ {0} /\ a \in Nat /\ b \in Nat
        /\ x \in 0 .. TESIMALS - 1 /\ y \in 0 .. TESIMALS - 1
    BY SecondsDigits
  <1>2. c \in {0, 1} /\ (c = 0 <=> x >= y)
    OBVIOUS
  <1>3. b * TESIMALS + y <= a * TESIMALS + x
    BY DEF ToTesimals
  <1>4. Difference(s, t) = [seconds |-> a - b - c, subsecond_tesimals |-> c * TESIMALS + x - y]
    BY DEF Difference
  <1>. HIDE DEF a, b, x, y, c
  <1>5. /\ a - b - c \in Nat /\ c * TESIMALS + x - y \in 0 .. TESIMALS - 1
        /\ (a - b - c) * TESIMALS + (c * TESIMALS + x - y)
             = (a * TESIMALS + x) - (b * TESIMALS + y)
    BY <1>1, <1>2, <1>3, Borrowed
  <1>6. Difference(s, t) \in AllSeconds
    BY <1>4, <1>5 DEF AllSeconds
  <1>. QED  BY <1>4, <1>5, <1>6 DEF ToTesimals, a, b, x, y

(* saturating_sub: the difference, or zero where it would be negative, and *)
(* never more tesimals than a second has.                                  *)
THEOREM SubtractionSaturates ==
  ASSUME NEW s \in AllSeconds, NEW t \in AllSeconds
  PROVE  /\ SaturatingSub(s, t) \in AllSeconds
         /\ ToTesimals(SaturatingSub(s, t)) =
              IF ToTesimals(s) <= ToTesimals(t) THEN 0 ELSE ToTesimals(s) - ToTesimals(t)
  <1>1. AtMost(s, t) <=> ToTesimals(s) <= ToTesimals(t)
    BY OrderOfTesimals
  <1>2. ToTesimals(s) \in Nat /\ ToTesimals(t) \in Nat /\ TESIMALS \in Nat \ {0}
    BY SecondsDigits
  <1>3. CASE AtMost(s, t)
    BY <1>1, <1>2, <1>3, SMT DEF SaturatingSub, ZERO, AllSeconds, ToTesimals
  <1>4. CASE ~AtMost(s, t)
    <2>1. ToTesimals(t) <= ToTesimals(s)
      BY <1>1, <1>2, <1>4, SMT
    <2>. QED  BY <1>1, <1>4, <2>1, DifferenceExact DEF SaturatingSub
  <1>. QED  BY <1>3, <1>4

(* Seconds are their tesimals: there is one for every number of them.      *)
THEOREM TesimalsRoundTrip ==
  ASSUME NEW s \in AllSeconds, NEW n \in Nat
  PROVE  /\ FromTesimals(ToTesimals(s)) = s
         /\ FromTesimals(n) \in AllSeconds /\ ToTesimals(FromTesimals(n)) = n
  <1>1. TESIMALS \in Nat \ {0}
    BY TesimalsAssumption
  <1>2. FromTesimals(ToTesimals(s)) = s
    <2>1. ToTesimals(s) \div TESIMALS = s.seconds
            /\ ToTesimals(s) % TESIMALS = s.subsecond_tesimals
      BY SecondsDigits, DivisionUnique DEF ToTesimals
    <2>. QED  BY <2>1, SecondsDigits DEF FromTesimals
  <1>3. /\ n \div TESIMALS \in Nat /\ n % TESIMALS \in 0 .. TESIMALS - 1
        /\ n = (n \div TESIMALS) * TESIMALS + (n % TESIMALS)
    BY <1>1, Division
  <1>. QED  BY <1>2, <1>3 DEF FromTesimals, AllSeconds, ToTesimals

(* Addition carries as it should: the sum is in range, also in the 32 bits *)
(* of the code as long as those hold two seconds of tesimals, and what was *)
(* added can be taken away again (time.rs:97-115, 159-172).                *)
THEOREM AdditionExact ==
  ASSUME NEW s \in AllSeconds, NEW t \in AllSeconds
  PROVE  /\ Add(s, t) \in AllSeconds
         /\ ToTesimals(Add(s, t)) = ToTesimals(s) + ToTesimals(t)
         /\ s.subsecond_tesimals + t.subsecond_tesimals < 2 * TESIMALS
         /\ CheckedSub(Add(s, t), t) = {s}
         /\ CheckedSub(s, t) = {} <=> ToTesimals(s) < ToTesimals(t)
  <1>1. Add(s, t) \in AllSeconds /\ ToTesimals(Add(s, t)) = ToTesimals(s) + ToTesimals(t)
    <2> DEFINE a == s.seconds              b == t.seconds
               x == s.subsecond_tesimals   y == t.subsecond_tesimals
               whole == a + b + (x + y) \div TESIMALS   rest == (x + y) % TESIMALS
    <2>1. /\ TESIMALS \in Nat \ {0} /\ a \in Nat /\ b \in Nat
          /\ x \in 0 .. TESIMALS - 1 /\ y \in 0 .. TESIMALS - 1
      BY SecondsDigits
    <2>2. Add(s, t) = [seconds |-> whole, subsecond_tesimals |-> rest]
      BY DEF Add
    <2>. HIDE DEF a, b, x, y
    <2>3. /\ whole \in Nat /\ rest \in 0 .. TESIMALS - 1
          /\ whole * TESIMALS + rest = (a * TESIMALS + x) + (b * TESIMALS + y)
      BY <2>1, Carried
    <2>. HIDE DEF whole, rest
    <2>4. Add(s, t) \in AllSeconds
      BY <2>2, <2>3 DEF AllSeconds
    <2>. QED  BY <2>2, <2>3, <2>4 DEF ToTesimals, a, b, x, y
  <1>2. s.subsecond_tesimals + t.subsecond_tesimals < 2 * TESIMALS
    BY SecondsDigits, SMT
  <1>3. ToTesimals(s) \in Nat /\ ToTesimals(t) \in Nat
    BY SecondsDigits
  <1>4. CheckedSub(Add(s, t), t) = {s}
    <2> DEFINE u == Add(s, t)  d == Difference(u, t)
    <2>1. u \in AllSeconds /\ ToTesimals(u) = ToTesimals(s) + ToTesimals(t)
      BY <1>1
    <2>. HIDE DEF u
    <2>2. ToTesimals(t) <= ToTesimals(u)
      BY <1>3, <2>1, SMT
    <2>3. CheckedSub(u, t) = {d}
      BY <2>1, <2>2, OrderOfTesimals DEF CheckedSub
    <2>4. d \in AllSeconds /\ ToTesimals(d) = ToTesimals(s)
      <3>1. d \in AllSeconds /\ ToTesimals(d) = ToTesimals(u) - ToTesimals(t)
        BY <2>1, <2>2, DifferenceExact
      <3>. QED  BY <1>3, <2>1, <3>1, SMT
    <2>. HIDE DEF d
    <2>5. d = s
      BY <2>4, TesimalsRoundTrip, Zenon
    <2>. QED  BY <2>3, <2>5 DEF u
  <1>5. CheckedSub(s, t) = {} <=> ToTesimals(s) < ToTesimals(t)
    <2>1. CheckedSub(s, t) = {} <=> ~(ToTesimals(t) <= ToTesimals(s))
      BY OrderOfTesimals DEF CheckedSub
    <2>. QED  BY <1>3, <2>1, SMT
  <1>. QED  BY <1>1, <1>2, <1>4, <1>5

-----------------------------------------------------------------------------
(* Beats add and subtract as their tesimals do (time.rs:301-321, 352-370). *)
THEOREM BeatsExact ==
  ASSUME NEW b \in AllBeats, NEW c \in AllBeats
  PROVE  /\ AddBeats(b, c) \in AllBeats
         /\ InBeatTesimals(AddBeats(b, c)) = InBeatTesimals(b) + InBeatTesimals(c)
         /\ SaturatingSubBeats(b, c) \in AllBeats
         /\ InBeatTesimals(SaturatingSubBeats(b, c)) =
              IF InBeatTesimals(b) <= InBeatTesimals(c) THEN 0
              ELSE InBeatTesimals(b) - InBeatTesimals(c)
  <1> DEFINE a == b.beats          d == c.beats
             x == b.beat_tesimals  y == c.beat_tesimals
             e == IF x < y THEN 1 ELSE 0
             T == BEAT_TESIMALS
  <1>1. T \in Nat \ {0} /\ a \in Nat /\ d \in Nat /\ x \in 0 .. T - 1 /\ y \in 0 .. T - 1
    BY BeatTesimalsAssumption DEF AllBeats
  <1>2. /\ AddBeats(b, c) \in AllBeats
        /\ InBeatTesimals(AddBeats(b, c)) = InBeatTesimals(b) + InBeatTesimals(c)
    <2> DEFINE whole == a + d + (x + y) \div T   rest == (x + y) % T
    <2>1. AddBeats(b, c) = [beats |-> whole, beat_tesimals |-> rest]
      BY DEF AddBeats
    <2>. HIDE DEF a, d, x, y, T
    <2>2. /\ whole \in Nat /\ rest \in 0 .. T - 1
          /\ whole * T + rest = (a * T + x) + (d * T + y)
      BY <1>1, Carried
    <2>. HIDE DEF whole, rest
    <2>3. AddBeats(b, c) \in AllBeats
      BY <2>1, <2>2 DEF AllBeats, T
    <2>. QED  BY <2>1, <2>2, <2>3 DEF InBeatTesimals, a, d, x, y, T
  <1>3. NotAfter(c, b) <=> InBeatTesimals(c) <= InBeatTesimals(b)
    BY <1>1, Ordered DEF NotAfter, InBeatTesimals
  <1>4. InBeatTesimals(b) \in Nat /\ InBeatTesimals(c) \in Nat
    BY <1>1, SMT DEF InBeatTesimals
  <1>5. CASE ~NotAfter(c, b)
    <2>1. SaturatingSubBeats(b, c) = [beats |-> 0, beat_tesimals |-> 0]
      BY <1>5 DEF SaturatingSubBeats, CheckedSubBeats, ZeroBeats, FromBeats
    <2>2. InBeatTesimals(SaturatingSubBeats(b, c)) = 0
      BY <1>1, <2>1, SMT DEF InBeatTesimals
    <2>3. SaturatingSubBeats(b, c) \in AllBeats
      BY <1>1, <2>1 DEF AllBeats
    <2>4. InBeatTesimals(b) <= InBeatTesimals(c)
      BY <1>3, <1>4, <1>5, SMT
    <2>. QED  BY <1>2, <2>2, <2>3, <2>4
  <1>6. CASE NotAfter(c, b)
    <2> DEFINE r == [beats |-> a - d - e, beat_tesimals |-> e * T + x - y]
    <2>1. SaturatingSubBeats(b, c) = r
      BY <1>6 DEF SaturatingSubBeats, CheckedSubBeats
    <2>2. e \in {0, 1} /\ (e = 0 <=> x >= y)
      BY <1>1, SMT
    <2>3. d * T + y <= a * T + x
      BY <1>3, <1>6 DEF InBeatTesimals
    <2>. HIDE DEF a, d, x, y, e, T
    <2>4. /\ a - d - e \in Nat /\ e * T + x - y \in 0 .. T - 1
          /\ (a - d - e) * T + (e * T + x - y) = (a * T + x) - (d * T + y)
      BY <1>1, <2>2, <2>3, Borrowed
    <2>5. r \in AllBeats
      BY <2>4 DEF AllBeats, T
    <2>6. InBeatTesimals(r) = InBeatTesimals(b) - InBeatTesimals(c)
      BY <2>4 DEF InBeatTesimals, a, d, x, y, T
    <2>7. InBeatTesimals(b) <= InBeatTesimals(c)
            => InBeatTesimals(b) - InBeatTesimals(c) = 0
      BY <1>3, <1>4, <1>6, SMT
    <2>. QED  BY <1>2, <2>1, <2>5, <2>6, <2>7
  <1>. QED  BY <1>5, <1>6

(* "This will be exact for any fraction that SUBBEAT_TESIMALS_PER_BEAT is  *)
(* evenly divisible by" (time.rs:266-276): as many fractions of a beat are *)
(* that part of its tesimals, and less than a beat.                        *)
THEOREM FractionsExact ==
  ASSUME NEW fraction \in Nat \ {0}, NEW k \in Nat \ {0}, fraction * k = BEAT_TESIMALS,
         NEW beats \in Nat, NEW n \in 0 .. fraction - 1
  PROVE  LET b == FromFractionalBeats(fraction, beats, n) IN
         /\ b \in AllBeats
         /\ InBeatTesimals(b) * fraction = (beats * fraction + n) * BEAT_TESIMALS
  <1>1. fraction * k \in Nat /\ fraction * k = k * fraction + 0
    BY SMT
  <1>2. (fraction * k) \div fraction = k
    BY <1>1, DivisionUnique
  <1>3. n * k < fraction * k
    BY SMT
  <1>4. k * n = n * k /\ k * n \in Nat
    BY SMT
  <1>5. FromFractionalBeats(fraction, beats, n) = [beats |-> beats, beat_tesimals |-> k * n]
    BY <1>2 DEF FromFractionalBeats
  <1>6. FromFractionalBeats(fraction, beats, n) \in AllBeats
    BY <1>1, <1>3, <1>4, <1>5, SMT DEF AllBeats
  <1>7. (beats * (fraction * k) + k * n) * fraction = (beats * fraction + n) * (fraction * k)
    BY SMT
  <1>. QED  BY <1>5, <1>6, <1>7 DEF InBeatTesimals

-----------------------------------------------------------------------------
(* With k tesimals to a sample, a time is worth the whole samples in it.   *)
LEMMA SamplesOfTesimals ==
  ASSUME NEW rate \in Nat \ {0}, NEW k \in Nat \ {0}, rate * k = TESIMALS,
         NEW s \in AllSeconds
  PROVE  ToSamples(s, rate) = ToTesimals(s) \div k
  <1> DEFINE a == s.seconds  x == s.subsecond_tesimals
             q == x \div k   r == x % k
  <1>1. a \in Nat /\ x \in Nat
    BY DEF AllSeconds
  <1>2. q \in Nat /\ r \in 0 .. k - 1 /\ x = q * k + r
    BY <1>1, Division
  <1>. HIDE DEF q, r
  <1>3. rate * k \in Nat \ {0} /\ r * rate \in Nat
    BY <1>2, SMT
  <1>4. r * rate < rate * k
    BY <1>2, SMT
  <1>5. x * rate = q * (rate * k) + r * rate
    BY <1>2, SMT
  <1>6. (x * rate) \div (rate * k) = q
    <2>1. x * rate \in Nat /\ r * rate \in 0 .. rate * k - 1
      BY <1>1, <1>3, <1>4, SMT
    <2>. QED  BY <1>2, <1>3, <1>5, <2>1, DivisionUnique
  <1>7. a * (rate * k) + x = (a * rate + q) * k + r
    BY <1>1, <1>2, SMT
  <1>8. a * (rate * k) + x \in Nat /\ a * rate + q \in Nat
    BY <1>1, <1>2, <1>3, SMT
  <1>9. (a * (rate * k) + x) \div k = a * rate + q
    BY <1>2, <1>7, <1>8, DivisionUnique
  <1>. QED  BY <1>6, <1>9 DEF ToSamples, ToTesimals

LEMMA TesimalsOfSamples ==
  ASSUME NEW rate \in Nat \ {0}, NEW k \in Nat \ {0}, rate * k = TESIMALS,
         NEW n \in Nat
  PROVE  FromSamples(n, rate) \in AllSeconds /\ ToTesimals(FromSamples(n, rate)) = n * k
  <1> DEFINE q == n \div rate  r == n % rate
  <1>1. q \in Nat /\ r \in 0 .. rate - 1 /\ n = q * rate + r
    BY Division
  <1>. HIDE DEF q, r
  <1>2. r * (rate * k) = (r * k) * rate + 0 /\ r * k \in Nat /\ r * (rate * k) \in Nat
    BY <1>1, SMT
  <1>3. (r * (rate * k)) \div rate = r * k
    BY <1>2, DivisionUnique
  <1>4. r * k < rate * k
    BY <1>1, SMT
  <1>5. FromSamples(n, rate) = [seconds |-> q, subsecond_tesimals |-> r * k]
    BY <1>3 DEF FromSamples, q, r
  <1>6. FromSamples(n, rate) \in AllSeconds
    BY <1>1, <1>2, <1>4, <1>5 DEF AllSeconds
  <1>7. q * (rate * k) + r * k = n * k
    BY <1>1, SMT
  <1>. QED  BY <1>5, <1>6, <1>7 DEF ToTesimals

(* "lossless conversion between all common sample rates": samples that are *)
(* made Seconds and samples again are as many as they were, when the       *)
(* sample rate divides the tesimals of a second.                           *)
THEOREM LosslessConversion ==
  ASSUME NEW rate \in Nat \ {0}, NEW k \in Nat \ {0}, rate * k = TESIMALS,
         NEW n \in Nat
  PROVE  ToSamples(FromSamples(n, rate), rate) = n
  <1> DEFINE s == FromSamples(n, rate)
  <1>1. n * k = n * k + 0 /\ n * k \in Nat
    BY SMT
  <1>2. (n * k) \div k = n
    BY <1>1, DivisionUnique
  <1>3. s \in AllSeconds /\ ToTesimals(s) = n * k
    BY TesimalsOfSamples
  <1>. HIDE DEF s
  <1>4. ToSamples(s, rate) = ToTesimals(s) \div k
    BY <1>3, SamplesOfTesimals
  <1>. QED  BY <1>2, <1>3, <1>4 DEF s

(* Between sample rates: what comes out is the last sample at the other    *)
(* rate that is not later (time.rs:74-90 and its test sample_conversion).  *)
THEOREM ConversionBetweenRates ==
  ASSUME NEW from \in Nat \ {0}, NEW k \in Nat \ {0}, from * k = TESIMALS,
         NEW to \in Nat \ {0}, NEW l \in Nat \ {0}, to * l = TESIMALS,
         NEW n \in Nat
  PROVE  LET m == ToSamples(FromSamples(n, from), to) IN
         m \in Nat /\ m * from <= n * to /\ n * to < (m + 1) * from
  <1> DEFINE s == FromSamples(n, from)  m == (n * k) \div l  r == (n * k) % l
  <1>1. s \in AllSeconds /\ ToTesimals(s) = n * k
    BY TesimalsOfSamples
  <1>. HIDE DEF s
  <1>2. ToSamples(s, to) = m
    BY <1>1, SamplesOfTesimals
  <1>3. n * k \in Nat
    BY SMT
  <1>4. m \in Nat /\ r \in 0 .. l - 1 /\ n * k = m * l + r
    BY <1>3, Division
  <1>. HIDE DEF m, r
  <1>5. from * k = to * l
    OBVIOUS
  <1>6. (n * to) * (k * l) = (m * from) * (k * l) + r * (from * k)
    <2>1. (n * to) * (k * l) = (n * k) * (to * l)
      BY SMT
    <2>2. (n * k) * (to * l) = (m * l + r) * (from * k)
      BY <1>4, <1>5
    <2>3. (m * l + r) * (from * k) = (m * from) * (k * l) + r * (from * k)
      BY <1>4, SMT
    <2>. QED  BY <2>1, <2>2, <2>3
  <1>7. r * (from * k) >= 0 /\ r * (from * k) < from * (k * l)
    <2>1. r * (from * k) = (r * k) * from /\ from * (k * l) = (k * l) * from
      BY <1>4, SMT
    <2>2. r * k < l * k /\ l * k = k * l /\ r * k \in Nat
      BY <1>4, SMT
    <2>3. (r * k) * from < (k * l) * from
      BY <2>2, SMT
    <2>. QED  BY <2>1, <2>2, <2>3, SMT
  <1> DEFINE X == n * to  Y == m * from  K == k * l  R == r * (from * k)
  <1>8. X \in Nat /\ Y \in Nat /\ K \in Nat \ {0} /\ R \in Nat /\ R < from * K
          /\ X * K = Y * K + R
    BY <1>4, <1>6, <1>7, SMT
  <1>. HIDE DEF X, Y, K, R
  <1>9. Y <= X
    <2>1. X < Y => X * K < Y * K
      BY <1>8, SMT
    <2>. QED  BY <1>8, <2>1, SMT
  <1>10. X < Y + from
    <2>1. X >= Y + from => X * K >= (Y + from) * K
      BY <1>8, SMT
    <2>2. (Y + from) * K = Y * K + from * K
      BY <1>8, SMT
    <2>. QED  BY <1>8, <2>1, <2>2, SMT
  <1>11. (m + 1) * from = m * from + from
    BY <1>4, SMT
  <1>. QED  BY <1>2, <1>4, <1>9, <1>10, <1>11 DEF s, X, Y

(* A time from which a block has been subtracted is worth a block less: a  *)
(* change that counts its time down block by block, as to_samples_until_due*)
(* does, drifts neither way, whatever fraction of a sample it started with.*)
THEOREM CountdownExact ==
  ASSUME NEW rate \in Nat \ {0}, NEW k \in Nat \ {0}, rate * k = TESIMALS,
         NEW s \in AllSeconds, NEW n \in Nat
  PROVE  LET rest == SaturatingSub(s, FromSamples(n, rate)) IN
         /\ rest \in AllSeconds
         /\ ToSamples(rest, rate) =
              IF ToSamples(s, rate) <= n THEN 0 ELSE ToSamples(s, rate) - n
  <1> DEFINE S == ToTesimals(s)  q == S \div k  r == S % k
             rest == SaturatingSub(s, FromSamples(n, rate))
  <1>1. S \in Nat
    BY TesimalsAssumption, SMT DEF AllSeconds, ToTesimals
  <1>. HIDE DEF S
  <1>2. q \in Nat /\ r \in 0 .. k - 1 /\ S = q * k + r
    BY <1>1, Division
  <1>. HIDE DEF q, r
  <1>3. /\ rest \in AllSeconds
        /\ ToTesimals(rest) = IF S <= n * k THEN 0 ELSE S - n * k
    <2> DEFINE t == FromSamples(n, rate)
    <2>1. t \in AllSeconds /\ ToTesimals(t) = n * k
      BY TesimalsOfSamples
    <2>. HIDE DEF t
    <2>2. /\ SaturatingSub(s, t) \in AllSeconds
          /\ ToTesimals(SaturatingSub(s, t)) =
               IF ToTesimals(s) <= ToTesimals(t) THEN 0 ELSE ToTesimals(s) - ToTesimals(t)
      BY <2>1, SubtractionSaturates
    <2>. QED  BY <2>1, <2>2 DEF S, t
  <1>4. ToSamples(s, rate) = q /\ ToSamples(rest, rate) = ToTesimals(rest) \div k
    BY <1>3, SamplesOfTesimals DEF S, q
  <1>5. CASE S <= n * k
    <2>1. q <= n
      BY <1>2, <1>5, SMT
    <2>2. 0 \div k = 0
      BY SMT
    <2>. QED  BY <1>3, <1>4, <1>5, <2>1, <2>2
  <1>6. CASE ~ (S <= n * k)
    <2>1. n <= q
      BY <1>2, <1>6, SMT
    <2>2. S - n * k = (q - n) * k + r /\ S - n * k \in Nat /\ q - n \in Nat
      BY <1>1, <1>2, <1>6, <2>1, SMT
    <2>3. (S - n * k) \div k = q - n
      BY <1>2, <2>2, DivisionUnique
    <2>. QED  BY <1>2, <1>3, <1>4, <1>6, <2>1, <2>3, SMT
  <1>. QED  BY <1>3, <1>5, <1>6
-----------------------------------------------------------------------------
(***************************************************************************)
(* Scheduled changes.                                                      *)
(***************************************************************************)
(* As much of the type as the arguments below need.                        *)
Typed ==
  /\ sent \in Seq(Event)
  /\ ring \in Seq(DOMAIN sent)
  /\ phase \in {"idle", "waiting", "new", "run"}
  /\ left \in Nat /\ looked \in Nat
  /\ waiting \in Seq(WaitingChange)
  /\ frame_clock \in Nat

(* The loops look at no more changes than there are.                       *)
LoopsBounded ==
  /\ phase = "waiting" => left <= Len(waiting)
  /\ phase = "new" => looked + left <= Len(ring)
  /\ phase # "new" => looked = 0

Counted(c, now) ==
  IF sent[c.id].time.absolute THEN c.time = sent[c.id].time
  ELSE /\ ~c.time.absolute
       /\ ToSamples(c.time.seconds, SampleRate) = IF Due(c) <= now THEN 0 ELSE Due(c) - now

MustWait(c) ==
  \/ sent[c.id].token \notin active \union {NoToken}
  \/ sent[c.id].node_key \notin tasks
  \/ Due(c) >= frame_clock + BlockSize

(* The waiting changes that this block has still to look at.               *)
Unseen(i) == phase = "idle" \/ (phase = "waiting" /\ i <= left)

(* Its time is counted down, and its blocks are those since it was read.   *)
Right(c, unseen) ==
  /\ IF unseen THEN Counted(c, frame_clock)
     ELSE Counted(c, frame_clock + BlockSize) /\ MustWait(c)
  /\ frame_clock = c.received + (c.blocks + (IF unseen THEN 1 ELSE 0)) * BlockSize

WaitingRight == \A i \in DOMAIN waiting : Right(waiting[i], Unseen(i))

GivenUpLate == \A g \in gone : g.why = "expired" => g.frame - g.call.received >= SampleRate

ChangesInv == Typed /\ LoopsBounded /\ WaitingRight /\ GivenUpLate

-----------------------------------------------------------------------------
LEMMA ConstantsTyped ==
  /\ BlockSize \in Nat \ {0} /\ SampleRate \in Nat \ {0} /\ RingSize \in Nat \ {0}
  /\ Delayed \in Nat
  /\ blocks_to_keep_scheduled_changes \in Nat
<1>1. /\ BlockSize \in Nat \ {0} /\ SampleRate \in Nat \ {0} /\ RingSize \in Nat \ {0}
      /\ Delayed \in Nat
  BY ChangesAssumption
<1>. QED  BY <1>1, Division DEF blocks_to_keep_scheduled_changes

LEMMA SamplesTyped ==
  ASSUME NEW s \in AllSeconds
  PROVE  ToSamples(s, SampleRate) \in Nat
<1> DEFINE p == s.subsecond_tesimals * SampleRate
<1>1. s.seconds * SampleRate \in Nat /\ p \in Nat
  BY ConstantsTyped, SMT DEF AllSeconds
<1>2. p \div TESIMALS \in Nat
  BY <1>1, TesimalsAssumption, Division
<1>. QED  BY <1>1, <1>2, SMT DEF ToSamples

LEMMA CountDownTyped ==
  ASSUME NEW time \in Time
  PROVE  /\ CountDown(time) \in Time
         /\ CountDown(time).absolute = time.absolute
         /\ time.absolute => CountDown(time) = time
         /\ ~time.absolute =>
              ToSamples(CountDown(time).seconds, SampleRate) =
                IF ToSamples(time.seconds, SampleRate) <= BlockSize THEN 0
                ELSE ToSamples(time.seconds, SampleRate) - BlockSize
<1>1. PICK k \in 1 .. TESIMALS : SampleRate * k = TESIMALS
  BY RateAssumption
<1>2. k \in Nat \ {0}
  BY <1>1, TesimalsAssumption
<1> DEFINE rest == SaturatingSub(time.seconds, FromSamples(BlockSize, SampleRate))
<1>3. /\ rest \in AllSeconds
      /\ ToSamples(rest, SampleRate) =
           IF ToSamples(time.seconds, SampleRate) <= BlockSize THEN 0
           ELSE ToSamples(time.seconds, SampleRate) - BlockSize
  BY <1>1, <1>2, ConstantsTyped, CountdownExact DEF Time
<1>4. ~time.absolute => CountDown(time) = [time EXCEPT !.seconds = rest]
  BY DEF CountDown
<1>. HIDE DEF rest
<1>. QED  BY <1>3, <1>4 DEF Time, CountDown

LEMMA SamplesUntilDueTyped ==
  ASSUME Typed, NEW time \in Time
  PROVE  SamplesUntilDue(time) \in Nat
<1>1. time.seconds \in AllSeconds /\ time.absolute \in BOOLEAN
  BY DEF Time
<1>2. ToSamples(time.seconds, SampleRate) \in Nat /\ frame_clock \in Nat
  BY <1>1, SamplesTyped DEF Typed
<1>. QED  BY <1>2 DEF SamplesUntilDue

LEMMA EventTyped ==
  ASSUME Typed, NEW id \in DOMAIN sent
  PROVE  /\ sent[id].time \in Time /\ sent[id].time.seconds \in AllSeconds
         /\ sent[id].time.absolute \in BOOLEAN
         /\ ToSamples(sent[id].time.seconds, SampleRate) \in Nat
<1>1. sent[id] \in Event
  BY LenProperties, ElementOfSeq DEF Typed
<1>2. sent[id].time \in Time
  BY <1>1 DEF Event
<1>3. sent[id].time.seconds \in AllSeconds /\ sent[id].time.absolute \in BOOLEAN
  BY <1>2 DEF Time
<1>. QED  BY <1>2, <1>3, SamplesTyped

LEMMA DueTyped ==
  ASSUME Typed, NEW c, c.id \in DOMAIN sent, c.received \in Nat
  PROVE  Due(c) \in Nat
<1>1. ToSamples(sent[c.id].time.seconds, SampleRate) \in Nat
  BY EventTyped
<1>. QED  BY <1>1 DEF Due

(* What the audio thread reads is what the change is due in.               *)
LEMMA CountedUntilDue ==
  ASSUME Typed, NEW c \in WaitingChange, Counted(c, frame_clock)
  PROVE  SamplesUntilDue(c.time) = IF Due(c) <= frame_clock THEN 0 ELSE Due(c) - frame_clock
<1>0. c.id \in DOMAIN sent /\ c.received \in Nat
  BY DEF WaitingChange
<1>1. Due(c) \in Nat /\ frame_clock \in Nat
  BY <1>0, DueTyped DEF Typed
<1>2. CASE sent[c.id].time.absolute
  <2>1. Due(c) = ToSamples(sent[c.id].time.seconds, SampleRate) /\ c.time = sent[c.id].time
    BY <1>2 DEF Counted, Due
  <2>2. SamplesUntilDue(c.time) = IF Due(c) < frame_clock THEN 0 ELSE Due(c) - frame_clock
    BY <1>2, <2>1 DEF SamplesUntilDue
  <2>. QED  BY <1>1, <2>2
<1>3. CASE ~ sent[c.id].time.absolute
  BY <1>3 DEF SamplesUntilDue, Counted
<1>. QED  BY <1>2, <1>3

(* Counting a time down moves it to the next block.                        *)
LEMMA CountedOn ==
  ASSUME Typed, NEW c \in WaitingChange, Counted(c, frame_clock),
         NEW d, d.id = c.id, d.received = c.received, d.time = CountDown(c.time)
  PROVE  Counted(d, frame_clock + BlockSize) /\ Due(d) = Due(c)
<1>0. c.id \in DOMAIN sent /\ c.received \in Nat /\ c.time \in Time
  BY DEF WaitingChange
<1>1. Due(c) \in Nat /\ frame_clock \in Nat /\ BlockSize \in Nat
  BY <1>0, DueTyped, ConstantsTyped DEF Typed
<1>2. Due(d) = Due(c)
  BY DEF Due
<1>3. CASE sent[c.id].time.absolute
  BY <1>0, <1>1, <1>2, <1>3, CountDownTyped DEF Counted
<1>4. CASE ~ sent[c.id].time.absolute
  <2>1. /\ ~c.time.absolute
        /\ ToSamples(c.time.seconds, SampleRate)
             = IF Due(c) <= frame_clock THEN 0 ELSE Due(c) - frame_clock
    BY <1>4 DEF Counted
  <2>2. /\ ~d.time.absolute
        /\ ToSamples(d.time.seconds, SampleRate) =
             IF ToSamples(c.time.seconds, SampleRate) <= BlockSize THEN 0
             ELSE ToSamples(c.time.seconds, SampleRate) - BlockSize
    BY <1>0, <2>1, CountDownTyped
  <2>3. ToSamples(d.time.seconds, SampleRate)
          = IF Due(c) <= frame_clock + BlockSize THEN 0 ELSE Due(c) - (frame_clock + BlockSize)
    BY <1>1, <2>1, <2>2, SMT
  <2>. QED  BY <1>2, <1>4, <2>2, <2>3 DEF Counted
<1>. QED  BY <1>2, <1>3, <1>4

(* A change that is not applied when it is looked at must wait.            *)
LEMMA UnappliedMustWait ==
  ASSUME Typed, NEW c \in WaitingChange, Counted(c, frame_clock), Unapplied(c)
  PROVE  MustWait(c)
<1>0. c.id \in DOMAIN sent /\ c.received \in Nat
  BY DEF WaitingChange
<1>1. Due(c) \in Nat /\ frame_clock \in Nat /\ BlockSize \in Nat \ {0}
  BY <1>0, DueTyped, ConstantsTyped DEF Typed
<1>2. ~ (SamplesUntilDue(c.time) < BlockSize) => Due(c) >= frame_clock + BlockSize
  BY <1>1, CountedUntilDue, SMT
<1>. QED  BY <1>2 DEF Unapplied, Ready, MustWait

-----------------------------------------------------------------------------
(* Events that have been sent stay as they are.                            *)
SentGrows == \A id \in DOMAIN sent : id \in DOMAIN sent' /\ sent'[id] = sent[id]

LEMMA SentStays ==
  ASSUME Typed, Next
  PROVE  SentGrows
<1>1. ASSUME NEW n \in Node, NEW p \in Parameter, NEW schedule \in Schedules,
             NEW parts \in Parts, Send(n, p, schedule, parts)
      PROVE  SentGrows
  <2> DEFINE e == [node_key |-> n, parameter |-> p, time |-> schedule.time,
                   token |-> schedule.token, parts |-> parts,
                   ahead |-> nodes[n] = "pushed"]
  <2>1. sent' = Append(sent, e)
    BY <1>1 DEF Send
  <2>2. sent \in Seq(Event \union {e}) /\ e \in Event \union {e}
    BY SeqMonotonic DEF Typed
  <2>3. /\ DOMAIN sent = 1 .. Len(sent) /\ Len(sent) \in Nat
        /\ DOMAIN sent' = 1 .. Len(sent) + 1
        /\ \A i \in 1 .. Len(sent) : sent'[i] = sent[i]
    <3>. HIDE DEF e
    <3>. QED  BY <2>1, <2>2, AppendProperties, LenProperties
  <2>. QED  BY <2>3 DEF SentGrows
<1>2. CASE sent' = sent
  BY <1>2 DEF SentGrows
<1>. QED
  BY <1>1, <1>2 DEF Next, Commit, BeginBlock, LookAtWaiting, TakeSlots, LookAtNew, FreeSlots,
       RunTasks, control

(* What the audio thread knows of a change does not change.                *)
LEMMA KnownOf ==
  ASSUME Typed, SentGrows, NEW c \in WaitingChange
  PROVE  /\ c \in WaitingChange'
         /\ Due(c)' = Due(c)
         /\ \A now : Counted(c, now) => Counted(c, now)'
<1>1. c.id \in DOMAIN sent /\ c.id \in DOMAIN sent' /\ sent'[c.id] = sent[c.id]
  BY DEF WaitingChange, SentGrows
<1>2. c \in WaitingChange'
  BY <1>1 DEF WaitingChange
<1>3. Due(c)' = Due(c)
  BY <1>1 DEF Due
<1>4. ASSUME NEW now, Counted(c, now) PROVE Counted(c, now)'
  BY <1>1, <1>3, <1>4 DEF Counted
<1>. QED  BY <1>2, <1>3, <1>4

LEMMA KeptTyped ==
  ASSUME Typed, NEW c \in WaitingChange, c.blocks <= blocks_to_keep_scheduled_changes
  PROVE  /\ Kept(c) \in WaitingChange
         /\ Kept(c).id = c.id /\ Kept(c).received = c.received
         /\ Kept(c).time = CountDown(c.time) /\ Kept(c).blocks = c.blocks + 1
<1>1. /\ c.time \in Time /\ c.blocks \in 0 .. blocks_to_keep_scheduled_changes + 1
      /\ blocks_to_keep_scheduled_changes \in Nat
      /\ c.id \in DOMAIN sent /\ c.received \in Nat
      /\ DOMAIN c = {"id", "time", "received", "blocks"}
  BY ConstantsTyped DEF WaitingChange
<1>2. CountDown(c.time) \in Time
  BY <1>1, CountDownTyped
<1>3. c.blocks + 1 \in 0 .. blocks_to_keep_scheduled_changes + 1
  BY <1>1
<1>. HIDE DEF blocks_to_keep_scheduled_changes
<1>4. /\ Kept(c).id = c.id /\ Kept(c).received = c.received
      /\ Kept(c).time = CountDown(c.time) /\ Kept(c).blocks = c.blocks + 1
  BY <1>1 DEF Kept
<1>5. Kept(c) \in WaitingChange
  BY <1>1, <1>2, <1>3 DEF WaitingChange, Kept
<1>. QED  BY <1>4, <1>5

(* What is at each place of the queue after a waiting change was looked at.*)
LEMMA LookAtWaitingMoves ==
  ASSUME Typed, LoopsBounded, LookAtWaiting
  PROVE  /\ waiting[1] \in WaitingChange /\ 1 \in DOMAIN waiting
         /\ waiting' \in Seq(WaitingChange)
         /\ left - 1 <= Len(waiting') /\ Len(waiting') <= Len(waiting)
         /\ \A i \in DOMAIN waiting' :
              \/ i + 1 \in DOMAIN waiting /\ waiting'[i] = waiting[i + 1]
              \/ /\ ~ (i <= left - 1)
                 /\ waiting[1].blocks <= blocks_to_keep_scheduled_changes
                 /\ waiting'[i] = Kept(waiting[1]) /\ Unapplied(waiting[1])
<1> DEFINE c == Head(waiting)
<1>1. phase = "waiting" /\ left \in Nat /\ left > 0 /\ left <= Len(waiting)
  BY DEF LookAtWaiting, LoopsBounded, Typed
<1>2. waiting \in Seq(WaitingChange) /\ waiting # <<>>
  BY <1>1, EmptySeq DEF Typed
<1>3. /\ c \in WaitingChange /\ Tail(waiting) \in Seq(WaitingChange)
      /\ Len(Tail(waiting)) = Len(waiting) - 1 /\ Len(waiting) \in Nat \ {0}
      /\ \A i \in 1 .. Len(Tail(waiting)) : Tail(waiting)[i] = waiting[i + 1]
      /\ DOMAIN waiting = 1 .. Len(waiting)
      /\ DOMAIN Tail(waiting) = 1 .. Len(Tail(waiting))
  BY <1>2, HeadTailProperties, EmptySeq, LenProperties
<1>4. c = waiting[1]
  BY <1>2
<1>5. CASE waiting' = Tail(waiting)
  BY <1>1, <1>3, <1>4, <1>5
<1>6. CASE /\ waiting' = Append(Tail(waiting), Kept(c)) /\ Unapplied(c)
           /\ c.blocks <= blocks_to_keep_scheduled_changes
  <2>1. Kept(c) \in WaitingChange
    BY <1>3, <1>6, KeptTyped
  <2>. HIDE DEF c
  <2>2. /\ waiting' \in Seq(WaitingChange) /\ Len(waiting') = Len(waiting)
        /\ DOMAIN waiting' = 1 .. Len(waiting)
        /\ \A i \in 1 .. Len(waiting) - 1 : waiting'[i] = Tail(waiting)[i]
        /\ waiting'[Len(waiting)] = Kept(c)
    BY <1>3, <1>6, <2>1, AppendProperties, LenProperties
  <2>3. ASSUME NEW i \in DOMAIN waiting' PROVE
          \/ i + 1 \in DOMAIN waiting /\ waiting'[i] = waiting[i + 1]
          \/ /\ ~ (i <= left - 1)
             /\ waiting'[i] = Kept(c)
    <3>1. CASE i = Len(waiting)
      BY <1>1, <2>2, <3>1
    <3>2. CASE i # Len(waiting)
      BY <1>3, <2>2, <3>2
    <3>. QED  BY <3>1, <3>2
  <2>. QED  BY <1>1, <1>3, <1>4, <1>6, <2>2, <2>3
<1>. QED  BY <1>5, <1>6 DEF LookAtWaiting

(* A change as it is when its event is read, and what is queued of it.     *)
NewChange == [id |-> ring[looked + 1], time |-> sent[ring[looked + 1]].time,
              received |-> frame_clock, blocks |-> 0]

LEMMA NewChangeTyped ==
  ASSUME Typed, LoopsBounded, LookAtNew
  PROVE  /\ NewChange \in WaitingChange
         /\ Counted(NewChange, frame_clock)
         /\ LET d == [NewChange EXCEPT !.time = CountDown(@)] IN
            /\ d \in WaitingChange /\ d.id = NewChange.id
            /\ d.received = frame_clock /\ d.blocks = 0
            /\ d.time = CountDown(NewChange.time)
<1> DEFINE id == ring[looked + 1]
           d == [NewChange EXCEPT !.time = CountDown(@)]
<1>1. looked + 1 \in 1 .. Len(ring)
  <2>1. phase = "new" /\ left > 0
    BY DEF LookAtNew
  <2>2. left \in Nat /\ looked \in Nat /\ Len(ring) \in Nat /\ looked + left <= Len(ring)
    BY <2>1, LenProperties DEF LoopsBounded, Typed
  <2>. QED  BY <2>1, <2>2
<1>2. id \in DOMAIN sent
  BY <1>1, ElementOfSeq DEF Typed
<1>3. /\ sent[id].time \in Time /\ sent[id].time.absolute \in BOOLEAN
      /\ ToSamples(sent[id].time.seconds, SampleRate) \in Nat
      /\ CountDown(sent[id].time) \in Time /\ frame_clock \in Nat
      /\ 0 \in 0 .. blocks_to_keep_scheduled_changes + 1
  BY <1>2, EventTyped, CountDownTyped, ConstantsTyped DEF Typed
<1>4. NewChange \in WaitingChange
  BY <1>2, <1>3 DEF NewChange, WaitingChange
<1>5. d = [id |-> id, time |-> CountDown(sent[id].time), received |-> frame_clock,
           blocks |-> 0]
  BY DEF NewChange
<1>6. d \in WaitingChange
  BY <1>2, <1>3, <1>5 DEF WaitingChange
<1>7. Counted(NewChange, frame_clock)
  <2>1. NewChange.id = id /\ NewChange.time = sent[id].time /\ NewChange.received = frame_clock
    BY DEF NewChange
  <2>2. ~ sent[id].time.absolute =>
          Due(NewChange) = frame_clock + ToSamples(sent[id].time.seconds, SampleRate)
    BY <2>1 DEF Due
  <2>3. ~ sent[id].time.absolute =>
          ToSamples(sent[id].time.seconds, SampleRate) =
            IF Due(NewChange) <= frame_clock THEN 0 ELSE Due(NewChange) - frame_clock
    BY <1>3, <2>2
  <2>. QED  BY <2>1, <2>3 DEF Counted
<1>8. /\ d.id = NewChange.id /\ d.received = frame_clock /\ d.blocks = 0
      /\ d.time = CountDown(NewChange.time)
  BY <1>5 DEF NewChange
<1>. QED  BY <1>4, <1>6, <1>7, <1>8

LEMMA LookAtNewMoves ==
  ASSUME Typed, LoopsBounded, LookAtNew
  PROVE  /\ waiting' \in Seq(WaitingChange)
         /\ Len(waiting') <= Len(waiting) \/ Len(waiting') <= RingSize
         /\ \A i \in DOMAIN waiting' :
              \/ i \in DOMAIN waiting /\ waiting'[i] = waiting[i]
              \/ /\ waiting'[i] = [NewChange EXCEPT !.time = CountDown(@)]
                 /\ Unapplied(NewChange)
<1> DEFINE d == [NewChange EXCEPT !.time = CountDown(@)]
<1>1. waiting \in Seq(WaitingChange) /\ DOMAIN waiting = 1 .. Len(waiting)
      /\ Len(waiting) \in Nat /\ RingSize \in Nat
  BY LenProperties, ConstantsTyped DEF Typed
<1>2. CASE UNCHANGED waiting
  BY <1>1, <1>2
<1>3. CASE waiting' = Append(waiting, d) /\ Unapplied(NewChange) /\ ~QueueFull
  <2>1. d \in WaitingChange
    BY NewChangeTyped
  <2>. HIDE DEF d
  <2>2. /\ waiting' \in Seq(WaitingChange) /\ DOMAIN waiting' = 1 .. Len(waiting) + 1
        /\ Len(waiting') = Len(waiting) + 1
        /\ \A i \in 1 .. Len(waiting) : waiting'[i] = waiting[i]
        /\ waiting'[Len(waiting) + 1] = d
    BY <1>1, <1>3, <2>1, AppendProperties, LenProperties
  <2>3. ASSUME NEW i \in DOMAIN waiting', i \notin DOMAIN waiting PROVE i = Len(waiting) + 1
    <3>1. Len(waiting) \in Nat
      BY <1>1, LenProperties
    <3>. QED  BY <1>1, <2>2, <2>3, <3>1
  <2>4. Len(waiting') <= RingSize
    BY <1>1, <1>3, <2>2 DEF QueueFull
  <2>. QED  BY <1>1, <1>3, <2>2, <2>3, <2>4 DEF d
<1>. QED  BY <1>2, <1>3 DEF LookAtNew, Queued, NewChange

-----------------------------------------------------------------------------
LEMMA InitChanges == Init => ChangesInv
<1> SUFFICES ASSUME Init PROVE ChangesInv
  OBVIOUS
<1>1. DOMAIN <<>> = {} /\ Len(<<>>) = 0 /\ \A S : <<>> \in Seq(S)
  BY EmptySeq
<1>2. Typed
  BY <1>1 DEF Init, Typed
<1>. QED
  BY <1>1, <1>2 DEF Init, ChangesInv, LoopsBounded, WaitingRight, GivenUpLate

(* The parts of the type that a step changes.                              *)
LEMMA TypedStep ==
  ASSUME ChangesInv, Next
  PROVE  Typed' /\ LoopsBounded'
<1>0. Typed /\ LoopsBounded
  BY DEF ChangesInv
<1>1. SentGrows
  BY <1>0, SentStays
<1>2. WaitingChange \subseteq WaitingChange' /\ DOMAIN sent \subseteq DOMAIN sent'
  BY <1>0, <1>1, KnownOf DEF SentGrows
<1>3. /\ ring \in Seq(DOMAIN sent') /\ waiting \in Seq(WaitingChange')
      /\ Len(ring) \in Nat /\ Len(waiting) \in Nat
  BY <1>0, <1>2, SeqMonotonic, LenProperties DEF Typed
<1>4. CASE UNCHANGED <<sent, ring, waiting, phase, left, looked, frame_clock>>
  BY <1>0, <1>4 DEF Typed, LoopsBounded, WaitingChange
<1>5. ASSUME NEW n \in Node, NEW p \in Parameter, NEW schedule \in Schedules,
             NEW parts \in Parts, Send(n, p, schedule, parts)
      PROVE  Typed' /\ LoopsBounded'
  <2> DEFINE e == [node_key |-> n, parameter |-> p, time |-> schedule.time,
                   token |-> schedule.token, parts |-> parts,
                   ahead |-> nodes[n] = "pushed"]
  <2>1. e \in Event
    <3>1. schedule \in [time : Time, token : Token \union {NoToken}]
      BY ChangesAssumption
    <3>2. schedule.time \in Time /\ schedule.token \in Token \union {NoToken}
      BY <3>1
    <3>. QED  BY <3>2 DEF Event
  <2>2. sent' \in Seq(Event) /\ Len(sent') = Len(sent) + 1 /\ Len(sent) \in Nat
        /\ DOMAIN sent' = 1 .. Len(sent')
    <3>. HIDE DEF e
    <3>1. sent' = Append(sent, e)
      BY <1>5 DEF Send, e
    <3>. QED  BY <1>0, <2>1, <3>1, AppendProperties, LenProperties DEF Typed
  <2>3. ring' \in Seq(DOMAIN sent') /\ Len(ring') = Len(ring) + 1
    <3>1. Len(sent) + 1 \in DOMAIN sent'
      BY <2>2
    <3>. QED  BY <1>3, <1>5, <3>1, AppendProperties DEF Send
  <2>4. UNCHANGED <<phase, left, looked, frame_clock, waiting>>
    BY <1>5 DEF Send
  <2>5. Typed'
    BY <1>0, <1>3, <2>2, <2>3, <2>4 DEF Typed
  <2>6. LoopsBounded'
    BY <1>0, <1>3, <2>3, <2>4 DEF LoopsBounded, Typed
  <2>. QED  BY <2>5, <2>6
<1>6. CASE BeginBlock
  BY <1>0, <1>3, <1>6 DEF BeginBlock, control, Typed, LoopsBounded, WaitingChange
<1>7. CASE LookAtWaiting
  <2>1. /\ waiting' \in Seq(WaitingChange) /\ left - 1 <= Len(waiting')
    BY <1>0, <1>7, LookAtWaitingMoves
  <2>2. /\ phase = "waiting" /\ left > 0 /\ left' = left - 1
        /\ UNCHANGED <<control, ring, phase, looked, frame_clock>>
    BY <1>7 DEF LookAtWaiting
  <2>. QED  BY <1>0, <2>1, <2>2 DEF Typed, LoopsBounded, WaitingChange, control
<1>8. CASE TakeSlots
  BY <1>0, <1>3, <1>8 DEF TakeSlots, control, Typed, LoopsBounded, WaitingChange
<1>9. CASE LookAtNew
  <2>1. waiting' \in Seq(WaitingChange)
    BY <1>0, <1>9, LookAtNewMoves
  <2>2. /\ phase = "new" /\ left > 0 /\ left' = left - 1 /\ looked' = looked + 1
        /\ UNCHANGED <<control, ring, phase, frame_clock>>
    BY <1>9 DEF LookAtNew
  <2>. QED  BY <1>0, <2>1, <2>2 DEF Typed, LoopsBounded, WaitingChange, control
<1>10. CASE FreeSlots
  <2>1. \A i \in looked + 1 .. Len(ring) : ring[i] \in DOMAIN sent
    <3>1. ASSUME NEW i \in looked + 1 .. Len(ring) PROVE i \in 1 .. Len(ring)
      BY <1>0, <1>3 DEF Typed
    <3>. QED  BY <1>0, <3>1, ElementOfSeq DEF Typed
  <2>2. SubSeq(ring, looked + 1, Len(ring)) \in Seq(DOMAIN sent)
    <3>1. looked + 1 \in Int /\ Len(ring) \in Int
      BY <1>0, <1>3 DEF Typed
    <3>. QED  BY <2>1, <3>1, SubSeqProperties
  <2>3. /\ phase' = "run" /\ looked' = 0 /\ ring' = SubSeq(ring, looked + 1, Len(ring))
        /\ UNCHANGED <<control, left, waiting, frame_clock>>
    BY <1>10 DEF FreeSlots, UnreadEvents
  <2>. QED  BY <1>0, <2>2, <2>3 DEF Typed, LoopsBounded, WaitingChange, control
<1>11. ASSUME NEW tokens \in SUBSET Token, RunTasks(tokens) PROVE Typed' /\ LoopsBounded'
  <2>1. frame_clock' \in Nat
    BY <1>0, <1>11, ConstantsTyped DEF RunTasks, Typed
  <2>2. /\ phase = "run" /\ phase' = "idle"
        /\ UNCHANGED <<control, ring, left, looked, waiting>>
    BY <1>11 DEF RunTasks
  <2>. QED  BY <1>0, <2>1, <2>2 DEF Typed, LoopsBounded, WaitingChange, control
<1>. QED
  BY <1>4, <1>5, <1>6, <1>7, <1>8, <1>9, <1>10, <1>11 DEF Next, Commit

(* A change that is not looked at stays right.                             *)
LEMMA RightStays ==
  ASSUME Typed, SentGrows, NEW c \in WaitingChange, NEW unseen \in BOOLEAN,
         Right(c, unseen), frame_clock' = frame_clock,
         unseen \/ UNCHANGED <<active, tasks>>
  PROVE  Right(c, unseen)'
<1>1. /\ Due(c)' = Due(c)
      /\ \A now : Counted(c, now) => Counted(c, now)'
      /\ sent'[c.id] = sent[c.id]
  BY KnownOf DEF WaitingChange, SentGrows
<1>2. CASE unseen
  BY <1>1, <1>2 DEF Right
<1>3. CASE ~unseen
  <2>1. MustWait(c)'
    BY <1>1, <1>3 DEF Right, MustWait
  <2>. QED  BY <1>1, <1>3, <2>1 DEF Right
<1>. QED  BY <1>2, <1>3

(* A change that was looked at and not applied is right for the next block.*)
LEMMA RightAfterLook ==
  ASSUME Typed, SentGrows, NEW c \in WaitingChange, Counted(c, frame_clock), Unapplied(c),
         UNCHANGED <<active, tasks, frame_clock>>,
         NEW d \in WaitingChange, d.id = c.id, d.received = c.received,
         d.time = CountDown(c.time),
         frame_clock = d.received + d.blocks * BlockSize
  PROVE  Right(d, FALSE)'
<1>1. Counted(d, frame_clock + BlockSize) /\ Due(d) = Due(c)
  BY CountedOn
<1>2. MustWait(d)
  BY <1>1, UnappliedMustWait DEF MustWait
<1>3. d.blocks \in Nat
  BY ConstantsTyped DEF WaitingChange
<1>4. Right(d, FALSE)
  BY <1>1, <1>2, <1>3, ConstantsTyped DEF Right
<1>. QED  BY <1>4, RightStays

(* When the tasks have run, all waiting changes are to be looked at again. *)
LEMMA RightInNextBlock ==
  ASSUME Typed, SentGrows, NEW c \in WaitingChange, Right(c, FALSE),
         frame_clock' = frame_clock + BlockSize
  PROVE  Right(c, TRUE)'
<1>1. Counted(c, frame_clock)'
  <2>1. sent'[c.id] = sent[c.id] /\ Due(c)' = Due(c)
    BY KnownOf DEF WaitingChange, SentGrows
  <2>2. Counted(c, frame_clock + BlockSize)
    BY DEF Right
  <2>. QED  BY <2>1, <2>2 DEF Counted
<1>2. c.blocks \in Nat /\ c.received \in Nat /\ BlockSize \in Nat /\ frame_clock \in Nat
  BY ConstantsTyped DEF WaitingChange, Typed
<1>3. frame_clock = c.received + c.blocks * BlockSize
  BY <1>2 DEF Right
<1>4. frame_clock' = c.received + (c.blocks + 1) * BlockSize
  BY <1>2, <1>3, SMT
<1>. QED  BY <1>1, <1>4 DEF Right

LEMMA WaitingRightStep ==
  ASSUME ChangesInv, Next
  PROVE  WaitingRight'
<1>0. Typed /\ LoopsBounded /\ WaitingRight /\ waiting \in Seq(WaitingChange)
      /\ DOMAIN waiting = 1 .. Len(waiting) /\ Len(waiting) \in Nat
      /\ \A i \in DOMAIN waiting : waiting[i] \in WaitingChange
  BY LenProperties, ElementOfSeq DEF ChangesInv, Typed
<1>1. SentGrows
  BY <1>0, SentStays
<1>2. CASE LookAtWaiting
  <2>1. /\ phase = "waiting" /\ phase' = phase /\ left' = left - 1 /\ left \in Nat
        /\ left > 0
        /\ UNCHANGED <<active, tasks, frame_clock>>
    BY <1>0, <1>2 DEF LookAtWaiting, Typed
  <2>2. ASSUME NEW i \in DOMAIN waiting' PROVE Right(waiting[i], Unseen(i))'
    <3>0. waiting' \in Seq(WaitingChange) /\ i \in Nat
      BY <1>0, <1>2, LookAtWaitingMoves, LenProperties
    <3>1. CASE i + 1 \in DOMAIN waiting /\ waiting'[i] = waiting[i + 1]
      <4>1. PICK c \in WaitingChange : c = waiting[i + 1]
        BY <1>0, <3>1
      <4>2. PICK u \in BOOLEAN : u = Unseen(i + 1)
        BY DEF Unseen
      <4>3. Unseen(i)' = u
        BY <2>1, <3>0, <4>2 DEF Unseen
      <4>4. Right(c, u)
        BY <1>0, <3>1, <4>1, <4>2 DEF WaitingRight
      <4>5. Right(c, u)'
        BY <1>0, <1>1, <2>1, <4>4, RightStays
      <4>. QED  BY <3>1, <4>1, <4>3, <4>5 DEF Right
    <3>2. CASE /\ ~ (i <= left - 1)
               /\ waiting[1].blocks <= blocks_to_keep_scheduled_changes
               /\ waiting'[i] = Kept(waiting[1]) /\ Unapplied(waiting[1])
      <4>0. 1 \in DOMAIN waiting
        BY <1>0, <1>2, LookAtWaitingMoves
      <4>1. PICK c \in WaitingChange : c = waiting[1]
        BY <1>0, <4>0
      <4>2. Unseen(1)
        BY <2>1 DEF Unseen
      <4>3. Right(c, Unseen(1))
        BY <1>0, <4>0, <4>1 DEF WaitingRight
      <4>4. /\ Counted(c, frame_clock)
            /\ frame_clock = c.received + (c.blocks + 1) * BlockSize
        BY <4>2, <4>3 DEF Right
      <4> DEFINE k == Kept(c)
      <4>5. /\ k \in WaitingChange /\ k.id = c.id /\ k.received = c.received
            /\ k.time = CountDown(c.time) /\ k.blocks = c.blocks + 1
        BY <1>0, <3>2, <4>1, KeptTyped
      <4>. HIDE DEF k
      <4>6. PICK d \in WaitingChange : d = k
        BY <4>5
      <4>7. Right(d, FALSE)'
        BY <1>0, <1>1, <2>1, <3>2, <4>1, <4>4, <4>5, <4>6, RightAfterLook
      <4>8. ~ Unseen(i)'
        BY <2>1, <3>2 DEF Unseen
      <4>. QED  BY <3>2, <4>1, <4>7, <4>8, <4>6 DEF Right, k
    <3>. QED  BY <1>0, <1>2, <3>1, <3>2, LookAtWaitingMoves
  <2>. QED  BY <2>2 DEF WaitingRight
<1>3. CASE LookAtNew
  <2>1. phase = "new" /\ phase' = phase /\ UNCHANGED <<active, tasks, frame_clock>>
    BY <1>3 DEF LookAtNew
  <2>2. ASSUME NEW i \in DOMAIN waiting' PROVE Right(waiting[i], FALSE)'
    <3>1. CASE i \in DOMAIN waiting /\ waiting'[i] = waiting[i]
      <4>1. PICK c \in WaitingChange : c = waiting[i]
        BY <1>0, <3>1
      <4>2. Right(c, FALSE)
        BY <1>0, <2>1, <3>1, <4>1 DEF WaitingRight, Unseen, Right
      <4>3. Right(c, FALSE)'
        BY <1>0, <1>1, <2>1, <4>1, <4>2, RightStays
      <4>. QED  BY <3>1, <4>1, <4>3 DEF Right
    <3>2. CASE /\ waiting'[i] = [NewChange EXCEPT !.time = CountDown(@)]
               /\ Unapplied(NewChange)
      <4>1. PICK c : c = NewChange
        OBVIOUS
      <4>2. PICK d : d = [NewChange EXCEPT !.time = CountDown(@)]
        OBVIOUS
      <4>3. /\ c \in WaitingChange /\ Counted(c, frame_clock)
            /\ d \in WaitingChange /\ d.id = c.id /\ d.time = CountDown(c.time)
            /\ d.received = frame_clock /\ d.blocks = 0
        BY <1>0, <1>3, <4>1, <4>2, NewChangeTyped
      <4>4. c.received = frame_clock /\ Unapplied(c)
        BY <3>2, <4>1 DEF NewChange
      <4>5. frame_clock = d.received + d.blocks * BlockSize
        BY <1>0, <4>3, ConstantsTyped DEF Typed
      <4>6. Right(d, FALSE)'
        BY <1>0, <1>1, <2>1, <4>3, <4>4, <4>5, RightAfterLook
      <4>. QED  BY <3>2, <4>2, <4>6 DEF Right
    <3>. QED  BY <1>0, <1>3, <3>1, <3>2, LookAtNewMoves
  <2>. QED  BY <2>1, <2>2 DEF WaitingRight, Unseen, Right
<1>4. ASSUME NEW tokens \in SUBSET Token, RunTasks(tokens) PROVE WaitingRight'
  <2>1. /\ phase = "run" /\ phase' = "idle" /\ waiting' = waiting
        /\ frame_clock' = frame_clock + BlockSize
    BY <1>4 DEF RunTasks
  <2>2. ASSUME NEW i \in DOMAIN waiting PROVE Right(waiting[i], TRUE)'
    <3>1. PICK c \in WaitingChange : c = waiting[i]
      BY <1>0
    <3>2. Right(c, FALSE)
      BY <1>0, <2>1, <3>1 DEF WaitingRight, Unseen, Right
    <3>3. Right(c, TRUE)'
      BY <1>0, <1>1, <2>1, <3>2, RightInNextBlock
    <3>. QED  BY <2>1, <3>1, <3>3 DEF Right
  <2>. QED  BY <2>1, <2>2 DEF WaitingRight, Unseen, Right
<1>5. ASSUME waiting' = waiting, frame_clock' = frame_clock, active' = active,
             tasks' = tasks \/ phase = "idle",
             \A i \in DOMAIN waiting : Unseen(i)' = Unseen(i)
      PROVE  WaitingRight'
  <2>1. ASSUME NEW i \in DOMAIN waiting PROVE Right(waiting[i], Unseen(i))'
    <3>1. PICK c \in WaitingChange : c = waiting[i]
      BY <1>0
    <3>2. PICK u \in BOOLEAN : u = Unseen(i)
      BY DEF Unseen
    <3>3. Right(c, u)
      BY <1>0, <3>1, <3>2 DEF WaitingRight
    <3>4. u \/ UNCHANGED <<active, tasks>>
      BY <1>5, <3>2 DEF Unseen
    <3>5. Right(c, u)'
      BY <1>0, <1>1, <1>5, <3>3, <3>4, RightStays
    <3>6. Unseen(i)' = u
      BY <1>5, <3>2
    <3>. QED  BY <1>5, <3>1, <3>5, <3>6 DEF Right
  <2>. QED  BY <1>5, <2>1 DEF WaitingRight
<1>6. ASSUME NEW n \in Node, NEW p \in Parameter, NEW schedule \in Schedules,
             NEW parts \in Parts, Send(n, p, schedule, parts)
      PROVE  WaitingRight'
  BY <1>5, <1>6 DEF Send, Unseen
<1>7. ASSUME NEW n \in Node, Commit(n) PROVE WaitingRight'
  BY <1>5, <1>7 DEF Commit, Unseen
<1>8. CASE BeginBlock
  BY <1>0, <1>5, <1>8 DEF BeginBlock, Unseen
<1>9. CASE TakeSlots
  BY <1>0, <1>5, <1>9 DEF TakeSlots, Unseen
<1>10. CASE FreeSlots
  BY <1>5, <1>10 DEF FreeSlots, Unseen
<1>. QED
  BY <1>2, <1>3, <1>4, <1>6, <1>7, <1>8, <1>9, <1>10 DEF Next

-----------------------------------------------------------------------------
(* The blocks that a change is kept for are a second, and less than a block.*)
LEMMA BlocksOfASecond ==
  /\ blocks_to_keep_scheduled_changes * BlockSize <= SampleRate
  /\ SampleRate <= (blocks_to_keep_scheduled_changes + 1) * BlockSize
<1>1. BlockSize \in Nat \ {0} /\ SampleRate \in Nat
  BY ConstantsTyped
<1> DEFINE q == SampleRate \div BlockSize
           r == SampleRate % BlockSize
<1>2. q \in Nat /\ r \in 0 .. BlockSize - 1 /\ SampleRate = q * BlockSize + r
  BY <1>1, Division
<1>3. q = blocks_to_keep_scheduled_changes
  BY DEF blocks_to_keep_scheduled_changes
<1>. HIDE DEF q, r
<1>4. q * BlockSize \in Nat /\ (q + 1) * BlockSize = q * BlockSize + BlockSize
  BY <1>1, <1>2, SMT
<1>. QED  BY <1>1, <1>2, <1>3, <1>4

LEMMA MoreBlocks ==
  ASSUME NEW k \in Nat, NEW m \in Nat, k <= m
  PROVE  k * BlockSize <= m * BlockSize
<1>1. BlockSize \in Nat
  BY ConstantsTyped
<1>. QED  BY <1>1, SMT

LEMMA GivenUpLateStep ==
  ASSUME ChangesInv, Next
  PROVE  GivenUpLate'
<1>0. Typed /\ LoopsBounded /\ WaitingRight /\ GivenUpLate
  BY DEF ChangesInv
<1>1. ASSUME NEW c, NEW lost, NEW why, why # "expired", Lose(c, lost, why)
      PROVE  GivenUpLate'
  <2>1. \A g \in gone' : g \in gone \/ g.why = why
    BY <1>1 DEF Lose
  <2>. QED  BY <1>0, <1>1, <2>1 DEF GivenUpLate
<1>2. CASE gone' = gone
  BY <1>0, <1>2 DEF GivenUpLate
<1>3. ASSUME NEW c, ApplyParameterChange(c) PROVE GivenUpLate'
  <2>1. \A n, delay : ApplyLater(n, c, delay) => GivenUpLate'
    BY <1>1 DEF ApplyLater
  <2>2. \A n : ApplyNow(n, c) => GivenUpLate'
    BY <1>2 DEF ApplyNow
  <2>3. \A n, p, delay : ApplyTo(n, p, c, delay) => GivenUpLate'
    BY <2>1, <2>2 DEF ApplyTo
  <2>. QED  BY <1>3, <2>3 DEF ApplyParameterChange
<1>4. CASE LookAtWaiting
  <2> DEFINE c == Head(waiting)
  <2>1. CASE /\ c.blocks > blocks_to_keep_scheduled_changes
             /\ Lose(c, DOMAIN Calls(c), "expired")
    <3>1. 1 \in DOMAIN waiting /\ waiting[1] \in WaitingChange /\ c = waiting[1]
      BY <1>0, <1>4, LookAtWaitingMoves
    <3>2. Unseen(1)
      <4>1. phase = "waiting" /\ left \in Nat /\ left > 0
        BY <1>0, <1>4 DEF LookAtWaiting, Typed
      <4>. QED  BY <4>1 DEF Unseen
    <3>3. frame_clock = c.received + (c.blocks + 1) * BlockSize
      BY <1>0, <3>1, <3>2 DEF WaitingRight, Right
    <3>4. /\ c.blocks \in Nat /\ c.received \in Nat /\ BlockSize \in Nat
          /\ SampleRate \in Nat /\ blocks_to_keep_scheduled_changes \in Nat
      BY <3>1, ConstantsTyped DEF WaitingChange
    <3>. HIDE DEF c
    <3>5. SampleRate <= (c.blocks + 1) * BlockSize
      <4>1. (blocks_to_keep_scheduled_changes + 1) * BlockSize <= (c.blocks + 1) * BlockSize
        BY <2>1, <3>4, MoreBlocks
      <4>2. /\ (blocks_to_keep_scheduled_changes + 1) * BlockSize \in Nat
            /\ (c.blocks + 1) * BlockSize \in Nat
        BY <3>4, SMT
      <4>. QED  BY <3>4, <4>1, <4>2, BlocksOfASecond
    <3>6. frame_clock - c.received >= SampleRate
      <4>1. (c.blocks + 1) * BlockSize \in Nat
        BY <3>4, SMT
      <4>. QED  BY <3>3, <3>4, <3>5, <4>1
    <3>7. ASSUME NEW g \in gone', g \notin gone
          PROVE  g.frame = frame_clock /\ g.call.received = c.received
      <4>1. PICK k \in DOMAIN Calls(c) :
              g = [call |-> Calls(c)[k], why |-> "expired", frame |-> frame_clock]
        BY <2>1, <3>7 DEF Lose
      <4>2. Calls(c)[k].received = c.received
        BY <4>1 DEF Calls
      <4>. QED  BY <4>1, <4>2
    <3>. QED  BY <1>0, <3>6, <3>7 DEF GivenUpLate
  <2>. QED  BY <1>2, <1>3, <1>4, <2>1 DEF LookAtWaiting
<1>5. CASE LookAtNew
  <2>1. CASE /\ Unapplied(NewChange)
             /\ Lose(NewChange, DOMAIN Calls(NewChange), "queue full")
    BY <1>1, <2>1
  <2>. QED  BY <1>2, <1>3, <1>5, <2>1 DEF LookAtNew, NewChange
<1>. QED
  BY <1>2, <1>4, <1>5 DEF Next, Send, Commit, BeginBlock, TakeSlots, FreeSlots, RunTasks

-----------------------------------------------------------------------------
LEMMA ChangesStep == ChangesInv /\ [Next]_vars => ChangesInv'
<1>1. CASE ChangesInv /\ Next
  BY <1>1, TypedStep, WaitingRightStep, GivenUpLateStep DEF ChangesInv
<1>2. CASE ChangesInv /\ UNCHANGED vars
  BY <1>2 DEF ChangesInv, vars, control, wrappers, Typed, LoopsBounded, WaitingRight, Right,
     Unseen, Counted, Due, MustWait, GivenUpLate, WaitingChange
<1>. QED  BY <1>1, <1>2

(* The invariant of the waiting changes: the time each has left and the    *)
(* blocks it has been kept for agree with the clock in every state.        *)
THEOREM ChangesInvariance == Spec => []ChangesInv
<1>. QED  BY InitChanges, ChangesStep, PTL DEF Spec

(* When the tasks run, nothing waits that they could have been given: not  *)
(* one of the changes that a loop of process_block has pushed back.        *)
THEOREM NothingIsMissed == Spec => []NothingReadyWaits
<1>1. ChangesInv => NothingReadyWaits
  <2> SUFFICES ASSUME ChangesInv, phase = "run", NEW i \in DOMAIN waiting
               PROVE  MustWait(waiting[i])
    BY DEF NothingReadyWaits, MustWait
  <2>1. ~Unseen(i)
    BY DEF Unseen
  <2>. QED  BY <2>1 DEF ChangesInv, WaitingRight, Right
<1>. QED  BY <1>1, ChangesInvariance, PTL

(* A change is given up after a second, and kept for at most two blocks    *)
(* more, for every sample rate and block size.                             *)
THEOREM GivenUpAfterASecond == Spec => []KeptForASecond
<1>1. ChangesInv => KeptForASecond
  <2> SUFFICES ASSUME ChangesInv, NEW i \in DOMAIN waiting
               PROVE  frame_clock - waiting[i].received <= SampleRate + 2 * BlockSize
    BY DEF ChangesInv, KeptForASecond, GivenUpLate
  <2> DEFINE c == waiting[i]
             u == IF Unseen(i) THEN 1 ELSE 0
             q == blocks_to_keep_scheduled_changes
  <2>1. c \in WaitingChange /\ frame_clock = c.received + (c.blocks + u) * BlockSize
    BY LenProperties, ElementOfSeq DEF ChangesInv, Typed, WaitingRight, Right
  <2>2. /\ c.received \in Nat /\ c.blocks \in Nat /\ c.blocks <= q + 1 /\ u \in {0, 1}
        /\ q \in Nat /\ BlockSize \in Nat /\ SampleRate \in Nat
    BY <2>1, ConstantsTyped DEF WaitingChange
  <2>. HIDE DEF c, u
  <2>3. (c.blocks + u) * BlockSize <= (q + 2) * BlockSize
    BY <2>2, MoreBlocks
  <2>4. /\ (c.blocks + u) * BlockSize \in Nat /\ q * BlockSize \in Nat
        /\ (q + 2) * BlockSize = q * BlockSize + 2 * BlockSize
    BY <2>2, SMT
  <2>5. q * BlockSize <= SampleRate
    BY BlocksOfASecond
  <2>. HIDE DEF q
  <2>6. frame_clock - c.received <= SampleRate + 2 * BlockSize
    BY <2>1, <2>2, <2>3, <2>4, <2>5
  <2>. QED  BY <2>6 DEF c
<1>. QED  BY <1>1, ChangesInvariance, PTL
-----------------------------------------------------------------------------
(***************************************************************************)
(* The calls of param_apply that an event stands for, made or delayed.     *)
(***************************************************************************)
(* A delayed call is in a wrapper that runs in this block, with a delay    *)
(* that is not too short.                                                  *)
DelaysKept ==
  \A n \in Node : \A k \in DOMAIN waiting_changes[n] :
    LET w == waiting_changes[n][k] IN
    /\ n \in Timed /\ n \in tasks /\ phase # "idle"
    /\ Due(w.call) <= frame_clock + w.delay

CallsInv == TypeOK /\ DelaysKept /\ NotBeforeItsFrame

LEMMA TypeOKTyped == TypeOK => Typed
BY DEF TypeOK, Typed

(* An event stands for one or two calls.                                   *)
LEMMA CallsOfChange ==
  ASSUME Typed, NEW c, c.id \in DOMAIN sent, c.received \in Nat
  PROVE  /\ sent[c.id] \in Event
         /\ Calls(c) \in Seq(Call) /\ Len(Calls(c)) \in 1 .. 2
         /\ DOMAIN Calls(c) = 1 .. Len(Calls(c))
         /\ DOMAIN Calls(c) = DOMAIN sent[c.id].parts
         /\ \A k \in DOMAIN Calls(c) :
              /\ Calls(c)[k] \in Call
              /\ Calls(c)[k].id = c.id /\ Calls(c)[k].received = c.received
              /\ Calls(c)[k].part = sent[c.id].parts[k]
              /\ Due(Calls(c)[k]) = Due(c)
<1>1. sent[c.id] \in Event
  BY LenProperties, ElementOfSeq DEF Typed
<1> DEFINE parts == sent[c.id].parts
<1>2. parts \in {<<"value">>, <<"smoothing">>, <<"smoothing", "value">>}
  BY <1>1, ChangesAssumption DEF Event
<1>3. PICK N \in 1 .. 2 : DOMAIN parts = 1 .. N /\ \A k \in 1 .. N : parts[k] \in {"smoothing", "value"}
  <2>1. CASE parts = <<"value">> \/ parts = <<"smoothing">>
    <3>1. DOMAIN parts = 1 .. 1 /\ \A k \in 1 .. 1 : parts[k] \in {"smoothing", "value"}
      BY <2>1
    <3>. QED  BY <3>1
  <2>2. CASE parts = <<"smoothing", "value">>
    <3>1. DOMAIN parts = 1 .. 2 /\ \A k \in 1 .. 2 : parts[k] \in {"smoothing", "value"}
      BY <2>2
    <3>. QED  BY <3>1
  <2>. QED  BY <1>2, <2>1, <2>2
<1>. HIDE DEF parts
<1>4. Calls(c) = [k \in 1 .. N |-> [id |-> c.id, part |-> parts[k], received |-> c.received]]
  BY <1>3 DEF Calls, parts
<1>5. \A k \in 1 .. N : [id |-> c.id, part |-> parts[k], received |-> c.received] \in Call
  BY <1>3 DEF Call
<1>6. Calls(c) \in Seq(Call) /\ Len(Calls(c)) = N /\ DOMAIN Calls(c) = 1 .. N
  <2>1. Calls(c) \in [1 .. N -> Call] /\ N \in Nat
    BY <1>4, <1>5
  <2>2. Calls(c) \in Seq(Call)
    BY <2>1, SeqDef
  <2>. QED  BY <2>1, <2>2, LenProperties
<1>7. ASSUME NEW k \in 1 .. N
      PROVE  /\ Calls(c)[k] \in Call
             /\ Calls(c)[k].id = c.id /\ Calls(c)[k].received = c.received
             /\ Calls(c)[k].part = parts[k]
             /\ Due(Calls(c)[k]) = Due(c)
  <2>1. Calls(c)[k].id = c.id /\ Calls(c)[k].received = c.received /\ Calls(c)[k].part = parts[k]
    BY <1>4
  <2>. QED  BY <1>4, <1>5, <2>1 DEF Due
<1>. QED  BY <1>1, <1>3, <1>6, <1>7 DEF parts

LEMMA Extended ==
  ASSUME NEW S, NEW s \in Seq(S), NEW m \in Nat, NEW f \in [1 .. m -> S]
  PROVE  /\ s \o f \in Seq(S) /\ Len(s \o f) = Len(s) + m
         /\ \A k \in 1 .. Len(s) : (s \o f)[k] = s[k]
         /\ \A k \in 1 .. m : (s \o f)[Len(s) + k] = f[k]
<1>1. f \in Seq(S) /\ Len(f) = m
  BY SeqDef, LenProperties
<1>2. Len(s) \in Nat
  BY LenProperties
<1>3. /\ s \o f \in Seq(S) /\ Len(s \o f) = Len(s) + m
      /\ \A i \in 1 .. Len(s) + m : (s \o f)[i] = IF i <= Len(s) THEN s[i] ELSE f[i - Len(s)]
  BY <1>1, ConcatProperties
<1>4. ASSUME NEW k \in 1 .. m PROVE (s \o f)[Len(s) + k] = f[k]
  <2>1. Len(s) + k \in 1 .. Len(s) + m /\ ~ (Len(s) + k <= Len(s)) /\ Len(s) + k - Len(s) = k
    BY <1>2
  <2>. QED  BY <1>3, <2>1
<1>5. \A k \in 1 .. Len(s) : k \in 1 .. Len(s) + m /\ k <= Len(s)
  BY <1>2
<1>. QED  BY <1>3, <1>4, <1>5

(* What ApplyNow does.                                                     *)
LEMMA MadeNow ==
  ASSUME TypeOK, NEW c, c.id \in DOMAIN sent, c.received \in Nat, NEW n \in Node,
         ApplyNow(n, c)
  PROVE  /\ applied' \in [Node -> Seq([call : Call, frame : Nat])]
         /\ \A m \in Node \ {n} : applied'[m] = applied[m]
         /\ Len(applied'[n]) = Len(applied[n]) + Len(Calls(c))
         /\ \A k \in 1 .. Len(applied[n]) : applied'[n][k] = applied[n][k]
         /\ \A k \in 1 .. Len(Calls(c)) :
              applied'[n][Len(applied[n]) + k] = [call |-> Calls(c)[k], frame |-> frame_clock]
         /\ waiting_changes' = waiting_changes /\ gone' = gone
<1> DEFINE S == [call : Call, frame : Nat]
           m == Len(Calls(c))
           f == [k \in 1 .. m |-> [call |-> Calls(c)[k], frame |-> frame_clock]]
<1>1. Typed
  BY TypeOKTyped
<1>2. m \in Nat /\ DOMAIN Calls(c) = 1 .. m /\ \A k \in 1 .. m : Calls(c)[k] \in Call
  BY <1>1, CallsOfChange
<1>3. f \in [1 .. m -> S]
  BY <1>1, <1>2 DEF Typed
<1>4. applied \in [Node -> Seq(S)] /\ applied[n] \in Seq(S)
  BY DEF TypeOK
<1>5. applied' = [applied EXCEPT ![n] = @ \o f]
  BY <1>2 DEF ApplyNow
<1>6. \A k \in 1 .. m : f[k] = [call |-> Calls(c)[k], frame |-> frame_clock]
  OBVIOUS
<1>. HIDE DEF f, m, S
<1>7. /\ applied[n] \o f \in Seq(S) /\ Len(applied[n] \o f) = Len(applied[n]) + m
      /\ \A k \in 1 .. Len(applied[n]) : (applied[n] \o f)[k] = applied[n][k]
      /\ \A k \in 1 .. m : (applied[n] \o f)[Len(applied[n]) + k] = f[k]
  BY <1>2, <1>3, <1>4, Extended
<1>8. applied'[n] = applied[n] \o f /\ applied' \in [Node -> Seq(S)]
      /\ \A o \in Node \ {n} : applied'[o] = applied[o]
  BY <1>4, <1>5, <1>7
<1>. QED  BY <1>6, <1>7, <1>8 DEF ApplyNow, S, m

(* What ApplyLater does: the first calls of the event are kept.            *)
KeptCalls(n, c, delay, kept) ==
  /\ Len(waiting_changes'[n]) = Len(waiting_changes[n]) + kept
  /\ \A k \in 1 .. kept :
       waiting_changes'[n][Len(waiting_changes[n]) + k] = [call |-> Calls(c)[k], delay |-> delay]
  /\ gone' = gone \union {[call |-> Calls(c)[k], why |-> "no slot", frame |-> frame_clock] :
                            k \in kept + 1 .. Len(Calls(c))}

LEMMA MadeLater ==
  ASSUME TypeOK, NEW c, c.id \in DOMAIN sent, c.received \in Nat, NEW n \in Node,
         NEW delay \in 1 .. BlockSize - 1, ApplyLater(n, c, delay)
  PROVE  /\ waiting_changes' \in [Node -> Seq([call : Call, delay : 1 .. BlockSize - 1])]
         /\ Len(waiting_changes'[n]) <= Delayed
         /\ \A m \in Node \ {n} : waiting_changes'[m] = waiting_changes[m]
         /\ \A k \in 1 .. Len(waiting_changes[n]) : waiting_changes'[n][k] = waiting_changes[n][k]
         /\ \E kept \in 0 .. Len(Calls(c)) : KeptCalls(n, c, delay, kept)
         /\ applied' = applied
<1> DEFINE S == [call : Call, delay : 1 .. BlockSize - 1]
           N == Len(Calls(c))
           w == waiting_changes[n]
           room == Delayed - Len(w)
           m == IF room < N THEN room ELSE N
           f == [k \in 1 .. m |-> [call |-> Calls(c)[k], delay |-> delay]]
<1>1. Typed
  BY TypeOKTyped
<1>2. N \in 1 .. 2 /\ DOMAIN Calls(c) = 1 .. N /\ \A k \in 1 .. N : Calls(c)[k] \in Call
  BY <1>1, CallsOfChange
<1>3. waiting_changes \in [Node -> Seq(S)] /\ w \in Seq(S) /\ Len(w) <= Delayed
      /\ Delayed \in Nat
  BY ConstantsTyped DEF TypeOK
<1>4. Len(w) \in Nat
  <2>. HIDE DEF S, w
  <2>. QED  BY <1>3, LenProperties
<1>5. room \in Nat /\ m \in 0 .. N /\ {k \in 1 .. N : k <= room} = 1 .. m
      /\ (1 .. N) \ (1 .. m) = m + 1 .. N /\ Len(w) + m <= Delayed
  <2>. HIDE DEF w, N
  <2>. QED  BY <1>2, <1>3, <1>4
<1>6. f \in [1 .. m -> S]
  <2>. HIDE DEF m, N
  <2>1. \A k \in 1 .. m : Calls(c)[k] \in Call
    BY <1>2, <1>5
  <2>. QED  BY <2>1
<1>7. waiting_changes' = [waiting_changes EXCEPT ![n] = @ \o f]
  BY <1>2, <1>5 DEF ApplyLater
<1>8. gone' = gone \union {[call |-> Calls(c)[k], why |-> "no slot", frame |-> frame_clock] :
                             k \in m + 1 .. N}
  BY <1>2, <1>5 DEF ApplyLater, Lose
<1>9. \A k \in 1 .. m : f[k] = [call |-> Calls(c)[k], delay |-> delay]
  OBVIOUS
<1>. HIDE DEF f, m, S, room, N
<1>10. /\ w \o f \in Seq(S) /\ Len(w \o f) = Len(w) + m
       /\ \A k \in 1 .. Len(w) : (w \o f)[k] = w[k]
       /\ \A k \in 1 .. m : (w \o f)[Len(w) + k] = f[k]
  <2>1. m \in Nat
    BY <1>2, <1>5
  <2>. QED  BY <2>1, <1>3, <1>6, Extended
<1>11. waiting_changes'[n] = w \o f /\ waiting_changes' \in [Node -> Seq(S)]
       /\ \A o \in Node \ {n} : waiting_changes'[o] = waiting_changes[o]
  BY <1>3, <1>7, <1>10
<1>12. KeptCalls(n, c, delay, m)
  BY <1>8, <1>9, <1>10, <1>11 DEF KeptCalls, N
<1>. QED  BY <1>3, <1>5, <1>10, <1>11, <1>12 DEF ApplyLater, S, N

(* A change that is applied is due in this block, and the wrapper is told  *)
(* at once only if the change is due or the wrapper keeps no changes.      *)
AppliedAt(c, n, p) ==
  \/ /\ ApplyNow(n, c)
     /\ IF n \in Timed THEN Due(c) <= frame_clock /\ next_delay'[n][p] = 0
                       ELSE Due(c) <= frame_clock + (BlockSize - 1)
  \/ /\ n \in Timed /\ next_delay'[n][p] \in 1 .. BlockSize - 1
     /\ ApplyLater(n, c, next_delay'[n][p])
     /\ Due(c) <= frame_clock + next_delay'[n][p]

LEMMA AppliedTo ==
  ASSUME TypeOK, NEW c \in WaitingChange, Counted(c, frame_clock), ApplyParameterChange(c),
         NEW n, n = sent[c.id].node_key, NEW p, p = sent[c.id].parameter
  PROVE  /\ n \in Node /\ p \in Parameter /\ n \in tasks
         /\ sent[c.id].token \in active \union {NoToken}
         /\ Due(c) < frame_clock + BlockSize
         /\ next_delay' \in [Node -> [Parameter -> 0 .. BlockSize - 1]]
         /\ \A m \in Node, q \in Parameter : m # n \/ q # p => next_delay'[m][q] = next_delay[m][q]
         /\ next_delay[n][p] > 0 => next_delay'[n][p] > 0
         /\ AppliedAt(c, n, p)
<1> DEFINE delay == SamplesUntilDue(c.time)
           set == delay > 0 /\ n \in Timed
           delays == IF set THEN [next_delay EXCEPT ![n][p] = delay] ELSE next_delay
<1>1. Typed
  BY TypeOKTyped
<1>2. c.id \in DOMAIN sent /\ c.received \in Nat
  BY DEF WaitingChange
<1>3. sent[c.id] \in Event /\ n \in Node /\ p \in Parameter
  BY <1>1, <1>2, CallsOfChange DEF Event
<1>4. Ready(c) /\ ApplyTo(n, p, c, delay)
  BY DEF ApplyParameterChange
<1>5. n \in tasks /\ sent[c.id].token \in active \union {NoToken} /\ delay < BlockSize
  BY <1>4 DEF Ready
<1>6. Due(c) \in Nat /\ frame_clock \in Nat /\ BlockSize \in Nat \ {0}
  BY <1>1, <1>2, DueTyped, ConstantsTyped DEF Typed
<1>7. delay = IF Due(c) <= frame_clock THEN 0 ELSE Due(c) - frame_clock
  BY <1>1, CountedUntilDue
<1>8. delay \in 0 .. BlockSize - 1 /\ Due(c) <= frame_clock + delay
  BY <1>5, <1>6, <1>7
<1>9. next_delay' = delays
      /\ \/ (n \notin Timed \/ delays[n][p] = 0) /\ ApplyNow(n, c)
         \/ n \in Timed /\ delays[n][p] > 0 /\ ApplyLater(n, c, delays[n][p])
  BY <1>4 DEF ApplyTo
<1>10. next_delay \in [Node -> [Parameter -> 0 .. BlockSize - 1]]
  BY DEF TypeOK
<1>. HIDE DEF delay
<1>11. CASE set
  <2>1. delays = [next_delay EXCEPT ![n][p] = delay]
    BY <1>11
  <2>2. delays \in [Node -> [Parameter -> 0 .. BlockSize - 1]] /\ delays[n][p] = delay
        /\ \A m \in Node, q \in Parameter : m # n \/ q # p => delays[m][q] = next_delay[m][q]
    BY <1>3, <1>8, <1>10, <2>1
  <2>. HIDE DEF delays
  <2>3. delays[n][p] \in 1 .. BlockSize - 1 /\ Due(c) <= frame_clock + delays[n][p]
    BY <1>6, <1>8, <1>11, <2>2
  <2>4. ApplyLater(n, c, delays[n][p]) /\ n \in Timed
    BY <1>9, <1>11, <2>2, <2>3
  <2>5. AppliedAt(c, n, p)
    BY <1>9, <2>3, <2>4 DEF AppliedAt
  <2>. QED  BY <1>3, <1>5, <1>6, <1>8, <1>9, <2>2, <2>3, <2>5
<1>12. CASE ~set
  <2>1. delays = next_delay
    BY <1>12
  <2>. HIDE DEF delays
  <2>2. delays[n][p] \in 0 .. BlockSize - 1
    BY <1>3, <1>10, <2>1
  <2>3. n \in Timed => Due(c) <= frame_clock
    BY <1>6, <1>7, <1>8, <1>12
  <2>4. AppliedAt(c, n, p)
    <3>1. CASE (n \notin Timed \/ delays[n][p] = 0) /\ ApplyNow(n, c)
      <4>1. Due(c) <= frame_clock + (BlockSize - 1)
        BY <1>6, <1>8
      <4>. QED  BY <1>9, <2>3, <3>1, <4>1 DEF AppliedAt
    <3>2. CASE n \in Timed /\ delays[n][p] > 0 /\ ApplyLater(n, c, delays[n][p])
      <4>1. delays[n][p] \in 1 .. BlockSize - 1 /\ Due(c) <= frame_clock + delays[n][p]
        BY <1>6, <2>2, <2>3, <3>2
      <4>. QED  BY <1>9, <3>2, <4>1 DEF AppliedAt
    <3>. QED  BY <1>9, <3>1, <3>2
  <2>. QED  BY <1>3, <1>5, <1>6, <1>8, <1>9, <1>10, <2>1, <2>4
<1>. QED  BY <1>11, <1>12

(* The frame that a delayed change is made at is not before its own delay. *)
LEMMA FrameOfLate ==
  ASSUME Typed, NEW C, NEW changes \in Seq([call : C, delay : 1 .. BlockSize - 1]),
         NEW k \in DOMAIN changes
  PROVE  /\ FrameOf(changes, k) \in Nat
         /\ FrameOf(changes, k) >= frame_clock + changes[k].delay
<1> DEFINE D == {changes[i].delay : i \in 1 .. k}
           largest(d) == \A i \in 1 .. k : changes[i].delay <= d
<1>1. /\ \A i \in 1 .. k : changes[i] \in [call : C, delay : 1 .. BlockSize - 1]
      /\ k \in 1 .. k /\ BlockSize - 1 \in Nat
  <2>1. k \in 1 .. Len(changes) /\ Len(changes) \in Nat
    BY LenProperties
  <2>2. \A i \in 1 .. k : i \in 1 .. Len(changes)
    BY <2>1
  <2>3. \A i \in 1 .. k : changes[i] \in [call : C, delay : 1 .. BlockSize - 1]
    BY <2>2, ElementOfSeq
  <2>4. BlockSize - 1 \in Nat /\ k \in 1 .. k
    BY <2>1, ConstantsTyped
  <2>. QED  BY <2>3, <2>4
<1>2. D \subseteq 0 .. BlockSize - 1 /\ D # {}
  BY <1>1
<1>3. PICK x \in D : \A y \in D : y <= x
  <2>. HIDE DEF D
  <2>. QED  BY <1>1, <1>2, LargestNumber
<1>4. largest(x)
  BY <1>3
<1>5. (CHOOSE d \in D : largest(d)) \in D /\ largest(CHOOSE d \in D : largest(d))
  <2>. HIDE DEF D, largest
  <2>. QED  BY <1>4
<1>6. PICK d \in D : d = CHOOSE e \in D : largest(e)
  BY <1>5
<1>7. changes[k].delay <= d
  BY <1>1, <1>5, <1>6
<1>8. FrameOf(changes, k) = frame_clock + d
  BY <1>6 DEF FrameOf
<1>9. d \in Nat /\ frame_clock \in Nat /\ changes[k].delay \in Nat
  BY <1>1, <1>2 DEF Typed
<1>. HIDE DEF D, largest
<1>. QED  BY <1>7, <1>8, <1>9

(* Both loops do the same with the change that they look at, but for the   *)
(* queue that they keep it in.                                             *)
Given(c) ==
  \/ ApplyParameterChange(c)
  \/ /\ UNCHANGED <<wrappers, applied>>
     /\ \/ gone' = gone
        \/ \E why \in {"expired", "queue full"} : Lose(c, DOMAIN Calls(c), why)

LEMMA LookedAt ==
  ASSUME ChangesInv, LookAtWaiting \/ LookAtNew
  PROVE  /\ phase \in {"waiting", "new"}
         /\ UNCHANGED <<nodes, sent, ring, tasks, active, phase, frame_clock>>
         /\ \E c \in WaitingChange : Counted(c, frame_clock) /\ Given(c)
<1>0. Typed /\ LoopsBounded /\ WaitingRight
  BY DEF ChangesInv
<1>1. CASE LookAtWaiting
  <2>1. phase = "waiting" /\ left > 0 /\ left \in Nat
        /\ UNCHANGED <<nodes, sent, ring, tasks, active, phase, frame_clock>>
    BY <1>0, <1>1 DEF LookAtWaiting, control, Typed
  <2>2. 1 \in DOMAIN waiting /\ waiting[1] \in WaitingChange /\ Head(waiting) = waiting[1]
    BY <1>0, <1>1, LookAtWaitingMoves
  <2>3. Counted(waiting[1], frame_clock)
    <3>1. Unseen(1)
      BY <2>1 DEF Unseen
    <3>. QED  BY <1>0, <2>2, <3>1 DEF WaitingRight, Right
  <2>4. Given(waiting[1])
    BY <1>1, <2>2 DEF LookAtWaiting, Given, Unapplied
  <2>. QED  BY <2>1, <2>2, <2>3, <2>4
<1>2. CASE LookAtNew
  <2>1. phase = "new" /\ UNCHANGED <<nodes, sent, ring, tasks, active, phase, frame_clock>>
    BY <1>2 DEF LookAtNew, control
  <2>2. NewChange \in WaitingChange /\ Counted(NewChange, frame_clock)
    BY <1>0, <1>2, NewChangeTyped
  <2>3. Given(NewChange)
    BY <1>2 DEF LookAtNew, Given, Unapplied, NewChange
  <2>. QED  BY <2>1, <2>2, <2>3
<1>. QED  BY <1>1, <1>2

Lost == [call : Call, why : {"expired", "queue full", "no slot"}, frame : Nat]

LEMMA GivenTyped ==
  ASSUME TypeOK, NEW c \in WaitingChange, Counted(c, frame_clock), Given(c)
  PROVE  /\ next_delay' \in [Node -> [Parameter -> 0 .. BlockSize - 1]]
         /\ waiting_changes' \in [Node -> Seq([call : Call, delay : 1 .. BlockSize - 1])]
         /\ \A n \in Node : Len(waiting_changes'[n]) <= Delayed
         /\ applied' \in [Node -> Seq([call : Call, frame : Nat])]
         /\ gone' \subseteq Lost
<1>1. Typed /\ c.id \in DOMAIN sent /\ c.received \in Nat /\ frame_clock \in Nat
  BY TypeOKTyped DEF WaitingChange, Typed
<1>2. \A k \in DOMAIN Calls(c) : Calls(c)[k] \in Call
  BY <1>1, CallsOfChange
<1>3. gone \subseteq Lost
  BY DEF TypeOK, Lost
<1>4. CASE ApplyParameterChange(c)
  <2>1. PICK n, p : n = sent[c.id].node_key /\ p = sent[c.id].parameter
    OBVIOUS
  <2>2. /\ n \in Node
        /\ next_delay' \in [Node -> [Parameter -> 0 .. BlockSize - 1]]
        /\ AppliedAt(c, n, p)
    BY <1>4, <2>1, AppliedTo
  <2>3. CASE ApplyNow(n, c)
    <3>1. /\ applied' \in [Node -> Seq([call : Call, frame : Nat])]
          /\ waiting_changes' = waiting_changes /\ gone' = gone
      BY <1>1, <2>2, <2>3, MadeNow
    <3>. QED  BY <2>2, <3>1 DEF TypeOK, Lost
  <2>4. ASSUME NEW delay \in 1 .. BlockSize - 1, ApplyLater(n, c, delay)
        PROVE  /\ waiting_changes' \in [Node -> Seq([call : Call, delay : 1 .. BlockSize - 1])]
               /\ \A m \in Node : Len(waiting_changes'[m]) <= Delayed
               /\ applied' = applied
               /\ gone' \subseteq Lost
    <3>1. /\ waiting_changes' \in [Node -> Seq([call : Call, delay : 1 .. BlockSize - 1])]
          /\ Len(waiting_changes'[n]) <= Delayed
          /\ \A m \in Node \ {n} : waiting_changes'[m] = waiting_changes[m]
          /\ \E kept \in 0 .. Len(Calls(c)) : KeptCalls(n, c, delay, kept)
          /\ applied' = applied
      BY <1>1, <2>2, <2>4, MadeLater
    <3>2. PICK kept \in 0 .. Len(Calls(c)) :
            gone' = gone \union {[call |-> Calls(c)[k], why |-> "no slot", frame |-> frame_clock] :
                                   k \in kept + 1 .. Len(Calls(c))}
      BY <3>1 DEF KeptCalls
    <3>3. \A k \in kept + 1 .. Len(Calls(c)) : Calls(c)[k] \in Call
      <4>1. DOMAIN Calls(c) = 1 .. Len(Calls(c)) /\ Len(Calls(c)) \in Nat
        BY <1>1, CallsOfChange
      <4>2. \A k \in kept + 1 .. Len(Calls(c)) : k \in 1 .. Len(Calls(c))
        BY <4>1
      <4>. QED  BY <1>2, <4>1, <4>2
    <3>4. \A k \in kept + 1 .. Len(Calls(c)) :
            [call |-> Calls(c)[k], why |-> "no slot", frame |-> frame_clock] \in Lost
      BY <1>1, <3>3 DEF Lost
    <3>5. gone' \subseteq Lost
      BY <1>3, <3>2, <3>4
    <3>. QED  BY <3>1, <3>5 DEF TypeOK
  <2>. QED  BY <2>2, <2>3, <2>4 DEF AppliedAt, TypeOK
<1>5. CASE /\ UNCHANGED <<wrappers, applied>>
          /\ \/ gone' = gone
             \/ \E why \in {"expired", "queue full"} : Lose(c, DOMAIN Calls(c), why)
  <2>1. ASSUME NEW why \in {"expired", "queue full"}, Lose(c, DOMAIN Calls(c), why)
        PROVE  gone' \subseteq Lost
    <3>1. \A k \in DOMAIN Calls(c) :
            [call |-> Calls(c)[k], why |-> why, frame |-> frame_clock] \in Lost
      BY <1>1, <1>2 DEF Lost
    <3>. QED  BY <1>3, <2>1, <3>1 DEF Lose
  <2>2. gone' = gone => gone' \subseteq Lost
    BY <1>3
  <2>3. gone' \subseteq Lost
    BY <1>5, <2>1, <2>2
  <2>. QED  BY <1>5, <2>3 DEF wrappers, TypeOK
<1>. QED  BY <1>4, <1>5 DEF Given

LEMMA DelayedCallsTyped ==
  ASSUME TypeOK, NEW n \in Node
  PROVE  /\ DelayedCalls(n) \in Seq([call : Call, frame : Nat])
         /\ Len(DelayedCalls(n)) = Len(waiting_changes[n]) /\ Len(waiting_changes[n]) \in Nat
         /\ \A k \in 1 .. Len(waiting_changes[n]) :
              /\ DelayedCalls(n)[k].call = waiting_changes[n][k].call
              /\ DelayedCalls(n)[k].frame >= frame_clock + waiting_changes[n][k].delay
<1> DEFINE w == waiting_changes[n]
           S == [call : Call, frame : Nat]
<1>1. w \in Seq([call : Call, delay : 1 .. BlockSize - 1]) /\ Typed
  BY TypeOKTyped DEF TypeOK
<1>2. DOMAIN w = 1 .. Len(w) /\ Len(w) \in Nat
      /\ \A k \in 1 .. Len(w) : w[k] \in [call : Call, delay : 1 .. BlockSize - 1]
  <2>. HIDE DEF w
  <2>. QED  BY <1>1, LenProperties, ElementOfSeq
<1>3. \A k \in 1 .. Len(w) : FrameOf(w, k) \in Nat /\ FrameOf(w, k) >= frame_clock + w[k].delay
  <2>. HIDE DEF w
  <2>. QED  BY <1>1, <1>2, FrameOfLate
<1>4. DelayedCalls(n) = [k \in 1 .. Len(w) |-> [call |-> w[k].call, frame |-> FrameOf(w, k)]]
  BY <1>2 DEF DelayedCalls
<1>. HIDE DEF w
<1>5. DelayedCalls(n) \in [1 .. Len(w) -> S]
  BY <1>2, <1>3, <1>4
<1>6. DelayedCalls(n) \in Seq(S)
  <2>. HIDE DEF S
  <2>. QED  BY <1>2, <1>5, SeqDef
<1>7. Len(DelayedCalls(n)) = Len(w)
  <2>. HIDE DEF S
  <2>1. DOMAIN DelayedCalls(n) = 1 .. Len(DelayedCalls(n)) /\ Len(DelayedCalls(n)) \in Nat
    BY <1>6, LenProperties
  <2>. QED  BY <1>2, <1>5, <2>1
<1>. QED  BY <1>2, <1>3, <1>4, <1>6, <1>7 DEF w

(* The type is kept by every step.                                         *)
LEMMA TypeOKStep ==
  ASSUME ChangesInv, TypeOK, Next
  PROVE  TypeOK'
<1>0. Typed /\ LoopsBounded
  BY DEF ChangesInv
<1>1. SentGrows /\ Typed'
  BY <1>0, SentStays, TypedStep
<1>2. /\ sent' \in Seq(Event) /\ ring' \in Seq(DOMAIN sent')
      /\ phase' \in {"idle", "waiting", "new", "run"} /\ left' \in Nat /\ looked' \in Nat
      /\ waiting' \in Seq(WaitingChange') /\ frame_clock' \in Nat
  BY <1>1 DEF Typed, Event, WaitingChange, Time
<1>3. Len(ring) \in Nat /\ Len(waiting) \in Nat /\ RingSize \in Nat
  BY <1>0, ConstantsTyped, LenProperties DEF Typed
<1>4. CASE LookAtWaiting \/ LookAtNew
  <2>1. UNCHANGED <<nodes, sent, ring, tasks, active, phase, frame_clock>>
    BY <1>4, LookedAt
  <2>2. PICK c \in WaitingChange : Counted(c, frame_clock) /\ Given(c)
    BY <1>4, LookedAt
  <2>3. Len(waiting') <= RingSize
    <3>1. Len(waiting) <= RingSize
      BY DEF TypeOK
    <3>2. CASE LookAtWaiting
      <4>1. waiting' \in Seq(WaitingChange) /\ Len(waiting') <= Len(waiting)
        BY <1>0, <3>2, LookAtWaitingMoves
      <4>. QED  BY <1>3, <3>1, <4>1, LenProperties
    <3>3. CASE LookAtNew
      <4>1. waiting' \in Seq(WaitingChange)
            /\ (Len(waiting') <= Len(waiting) \/ Len(waiting') <= RingSize)
        BY <1>0, <3>3, LookAtNewMoves
      <4>. QED  BY <1>3, <3>1, <4>1, LenProperties
    <3>. QED  BY <1>4, <3>2, <3>3
  <2>4. /\ next_delay' \in [Node -> [Parameter -> 0 .. BlockSize - 1]]
        /\ waiting_changes' \in [Node -> Seq([call : Call, delay : 1 .. BlockSize - 1])]
        /\ \A n \in Node : Len(waiting_changes'[n]) <= Delayed
        /\ applied' \in [Node -> Seq([call : Call, frame : Nat])]
        /\ gone' \subseteq Lost
    BY <2>2, GivenTyped
  <2>5. Call' = Call
    BY <2>1 DEF Call
  <2>. QED  BY <1>2, <2>1, <2>3, <2>4, <2>5 DEF TypeOK, Lost
<1>5. ASSUME NEW n \in Node, NEW p \in Parameter, NEW schedule \in Schedules,
             NEW parts \in Parts, Send(n, p, schedule, parts)
      PROVE  TypeOK'
  <2>1. Call \subseteq Call'
    BY <1>1 DEF Call, SentGrows
  <2> DEFINE W == [call : Call, delay : 1 .. BlockSize - 1]
             A == [call : Call, frame : Nat]
  <2>2. W \subseteq W' /\ A \subseteq A' /\ Lost \subseteq Lost'
    BY <2>1 DEF Lost
  <2>3. waiting_changes \in [Node -> Seq(W')] /\ applied \in [Node -> Seq(A')]
    <3>1. waiting_changes \in [Node -> Seq(W)] /\ applied \in [Node -> Seq(A)]
      BY DEF TypeOK
    <3>. HIDE DEF W, A
    <3>2. \A m \in Node : waiting_changes[m] \in Seq(W') /\ applied[m] \in Seq(A')
      BY <2>2, <3>1, SeqMonotonic
    <3>. QED  BY <3>1, <3>2
  <2>4. Len(ring') <= RingSize
    <3>1. ring' = Append(ring, Len(sent) + 1) /\ Len(ring) < RingSize
      BY <1>5 DEF Send
    <3>2. ring \in Seq(Nat) /\ Len(sent) + 1 \in Nat
      <4>1. DOMAIN sent \subseteq Nat /\ Len(sent) \in Nat
        BY <1>0, LenProperties DEF Typed
      <4>. QED  BY <1>0, <4>1, SeqMonotonic DEF Typed
    <3>. QED  BY <1>3, <3>1, <3>2, AppendProperties
  <2>5. UNCHANGED <<nodes, tasks, active, waiting, wrappers, applied, gone>>
    BY <1>5 DEF Send
  <2>6. gone' \subseteq Lost'
    BY <2>2, <2>5 DEF TypeOK, Lost
  <2>. QED  BY <1>2, <2>3, <2>4, <2>5, <2>6 DEF TypeOK, wrappers, Lost
<1>6. ASSUME NEW tokens \in SUBSET Token, RunTasks(tokens) PROVE TypeOK'
  <2>1. /\ UNCHANGED <<nodes, sent, ring, tasks, waiting, next_delay, gone>>
        /\ active' = active \union tokens
        /\ applied' = [n \in Node |-> IF n \in tasks THEN applied[n] \o DelayedCalls(n)
                                                      ELSE applied[n]]
        /\ waiting_changes' = [n \in Node |-> IF n \in tasks THEN <<>> ELSE waiting_changes[n]]
    BY <1>6 DEF RunTasks, control
  <2> DEFINE W == [call : Call, delay : 1 .. BlockSize - 1]
             A == [call : Call, frame : Nat]
  <2>2. Call' = Call
    BY <2>1 DEF Call
  <2>3. waiting_changes \in [Node -> Seq(W)] /\ applied \in [Node -> Seq(A)]
        /\ \A n \in Node : Len(waiting_changes[n]) <= Delayed
    BY DEF TypeOK
  <2>4. applied' \in [Node -> Seq(A)]
    <3>1. \A n \in Node : DelayedCalls(n) \in Seq(A)
      BY DelayedCallsTyped
    <3>. HIDE DEF A
    <3>2. \A n \in Node : applied[n] \o DelayedCalls(n) \in Seq(A)
      BY <2>3, <3>1, ConcatProperties
    <3>. QED  BY <2>1, <2>3, <3>2
  <2>5. waiting_changes' \in [Node -> Seq(W)] /\ \A n \in Node : Len(waiting_changes'[n]) <= Delayed
    <3>. HIDE DEF W
    <3>1. <<>> \in Seq(W) /\ Len(<<>>) = 0 /\ Delayed \in Nat
      BY EmptySeq, ConstantsTyped
    <3>. QED  BY <2>1, <2>3, <3>1
  <2>. QED  BY <1>2, <2>1, <2>2, <2>4, <2>5 DEF TypeOK
<1>7. CASE FreeSlots
  <2>1. UNCHANGED <<nodes, sent, tasks, active, waiting, wrappers, applied, gone>>
        /\ ring' = SubSeq(ring, looked + 1, Len(ring)) /\ looked \in Nat
    BY <1>0, <1>7 DEF FreeSlots, control, UnreadEvents, Typed
  <2>2. Len(ring') <= Len(ring)
    <3>1. \A i \in looked + 1 .. Len(ring) : i \in 1 .. Len(ring)
      BY <1>3, <2>1
    <3>2. \A i \in looked + 1 .. Len(ring) : ring[i] \in DOMAIN sent
      BY <1>0, <3>1, ElementOfSeq DEF Typed
    <3>3. Len(ring') = IF looked + 1 <= Len(ring) THEN Len(ring) - (looked + 1) + 1 ELSE 0
      BY <1>3, <2>1, <3>2, SubSeqProperties
    <3>. QED  BY <1>3, <2>1, <3>3
  <2>3. Len(ring') <= RingSize
    <3>1. Len(ring) <= RingSize /\ Len(ring') \in Nat
      BY <1>2, LenProperties DEF TypeOK
    <3>. QED  BY <1>3, <2>2, <3>1
  <2>. QED  BY <1>2, <2>1, <2>3 DEF TypeOK, Call, wrappers
<1>8. ASSUME NEW n \in Node, Commit(n) PROVE TypeOK'
  <2>1. nodes' \in [Node -> {"pushed", "committed", "freed"}]
    BY <1>8 DEF Commit, TypeOK
  <2>. QED  BY <1>2, <1>8, <2>1 DEF Commit, TypeOK, Call, wrappers
<1>9. CASE BeginBlock \/ TakeSlots
  BY <1>2, <1>9 DEF BeginBlock, TakeSlots, TypeOK, Call, wrappers, control
<1>. QED  BY <1>4, <1>5, <1>6, <1>7, <1>8, <1>9 DEF Next

LEMMA DueStays ==
  ASSUME SentGrows, NEW c, c.id \in DOMAIN sent
  PROVE  Due(c)' = Due(c)
<1>1. sent'[c.id] = sent[c.id]
  BY DEF SentGrows
<1>. QED  BY <1>1 DEF Due

(* The frame that a call is made at, in the words of NotBeforeItsFrame.    *)
NotEarly(n, a) == a.frame >= Due(a.call) - (IF n \in Timed THEN 0 ELSE BlockSize - 1)

LEMMA NotEarlyStays ==
  ASSUME TypeOK, SentGrows, NEW n \in Node, NEW a \in [call : Call, frame : Nat],
         NotEarly(n, a)
  PROVE  NotEarly(n, a)'
<1>1. a.call.id \in DOMAIN sent
  BY DEF Call
<1>2. Due(a.call)' = Due(a.call)
  BY <1>1, DueStays
<1>. QED  BY <1>2 DEF NotEarly

LEMMA CallsMadeTyped ==
  ASSUME TypeOK, NEW n \in Node
  PROVE  /\ Len(applied[n]) \in Nat /\ DOMAIN applied[n] = 1 .. Len(applied[n])
         /\ \A k \in DOMAIN applied[n] : applied[n][k] \in [call : Call, frame : Nat]
         /\ Len(waiting_changes[n]) \in Nat
         /\ DOMAIN waiting_changes[n] = 1 .. Len(waiting_changes[n])
         /\ \A k \in DOMAIN waiting_changes[n] :
              waiting_changes[n][k] \in [call : Call, delay : 1 .. BlockSize - 1]
<1>1. /\ applied[n] \in Seq([call : Call, frame : Nat])
      /\ waiting_changes[n] \in Seq([call : Call, delay : 1 .. BlockSize - 1])
  BY DEF TypeOK
<1>. QED  BY <1>1, LenProperties, ElementOfSeq

LEMMA FramesStep ==
  ASSUME ChangesInv, CallsInv, Next
  PROVE  NotBeforeItsFrame' /\ DelaysKept'
<1>0. Typed /\ TypeOK /\ DelaysKept /\ NotBeforeItsFrame /\ TypeOK'
  BY TypeOKStep DEF ChangesInv, CallsInv
<1>1. SentGrows
  BY <1>0, SentStays
<1>2. /\ frame_clock \in Nat /\ BlockSize \in Nat \ {0}
  BY <1>0, ConstantsTyped DEF Typed
(* What was settled before the step.                                       *)
<1>3. ASSUME NEW n \in Node, NEW k \in DOMAIN applied[n], NEW a, a = applied[n][k]
      PROVE  NotEarly(n, a)'
  <2>1. a \in [call : Call, frame : Nat]
    BY <1>0, <1>3, CallsMadeTyped
  <2>2. NotEarly(n, a)
    BY <1>0, <1>3 DEF NotBeforeItsFrame, NotEarly
  <2>. QED  BY <1>0, <1>1, <2>1, <2>2, NotEarlyStays
<1>4. ASSUME NEW n \in Node, NEW k \in DOMAIN waiting_changes[n], NEW w, w = waiting_changes[n][k]
      PROVE  /\ n \in Timed /\ n \in tasks /\ phase # "idle"
             /\ w \in [call : Call, delay : 1 .. BlockSize - 1]
             /\ Due(w.call)' <= frame_clock + w.delay
  <2>1. w \in [call : Call, delay : 1 .. BlockSize - 1]
    BY <1>0, <1>4, CallsMadeTyped
  <2>2. w.call.id \in DOMAIN sent
    BY <2>1 DEF Call
  <2>3. Due(w.call)' = Due(w.call)
    BY <1>1, <2>2, DueStays
  <2>. QED  BY <1>0, <1>4, <2>1, <2>3 DEF DelaysKept
<1>5. ASSUME applied' = applied PROVE NotBeforeItsFrame'
  <2>1. ASSUME NEW n \in Node, NEW k \in DOMAIN applied[n] PROVE NotEarly(n, applied[n][k])'
    <3>1. PICK a : a = applied[n][k]
      OBVIOUS
    <3>2. NotEarly(n, a)'
      BY <1>3, <3>1
    <3>. QED  BY <1>5, <3>1, <3>2 DEF NotEarly
  <2>. QED  BY <1>5, <2>1 DEF NotBeforeItsFrame, NotEarly
<1>6. ASSUME waiting_changes' = waiting_changes, frame_clock' = frame_clock,
             phase' # "idle" \/ phase' = phase, tasks' = tasks \/ phase = "idle"
      PROVE  DelaysKept'
  <2>1. ASSUME NEW n \in Node, NEW k \in DOMAIN waiting_changes[n]
        PROVE  /\ n \in Timed /\ n \in tasks' /\ phase' # "idle"
               /\ Due(waiting_changes[n][k].call)' <= frame_clock' + (waiting_changes[n][k].delay)'
    <3>1. PICK w : w = waiting_changes[n][k]
      OBVIOUS
    <3>2. Due(w.call)' = Due(waiting_changes[n][k].call)'
      BY <1>6, <3>1 DEF Due
    <3>. QED  BY <1>4, <1>6, <3>1, <3>2
  <2>. QED  BY <1>6, <2>1 DEF DelaysKept
<1>7. ASSUME NEW c \in WaitingChange, Counted(c, frame_clock), ApplyParameterChange(c),
             UNCHANGED <<sent, tasks, phase, frame_clock>>, phase # "idle"
      PROVE  NotBeforeItsFrame' /\ DelaysKept'
  <2>1. PICK n, p : n = sent[c.id].node_key /\ p = sent[c.id].parameter
    OBVIOUS
  <2>2. n \in Node /\ n \in tasks /\ AppliedAt(c, n, p)
    BY <1>0, <1>7, <2>1, AppliedTo
  <2>3. c.id \in DOMAIN sent /\ c.received \in Nat
    BY DEF WaitingChange
  <2>4. /\ Len(Calls(c)) \in Nat /\ DOMAIN Calls(c) = 1 .. Len(Calls(c))
        /\ \A k \in 1 .. Len(Calls(c)) : Due(Calls(c)[k]) = Due(c)
    BY <1>0, <2>3, CallsOfChange
  <2>5. Due(c) \in Nat
    BY <1>0, <2>3, DueTyped
  <2>6. \A d : Due(d)' = Due(d)
    BY <1>7 DEF Due
  <2>7. CASE /\ ApplyNow(n, c)
             /\ Due(c) <= frame_clock + (IF n \in Timed THEN 0 ELSE BlockSize - 1)
    <3>1. /\ \A m \in Node \ {n} : applied'[m] = applied[m]
          /\ Len(applied'[n]) = Len(applied[n]) + Len(Calls(c))
          /\ \A k \in 1 .. Len(applied[n]) : applied'[n][k] = applied[n][k]
          /\ \A k \in 1 .. Len(Calls(c)) :
               applied'[n][Len(applied[n]) + k] = [call |-> Calls(c)[k], frame |-> frame_clock]
          /\ waiting_changes' = waiting_changes
      BY <1>0, <2>2, <2>3, <2>7, MadeNow
    <3>2. DelaysKept'
      BY <1>6, <1>7, <3>1
    <3>3. ASSUME NEW m \in Node, NEW k \in DOMAIN applied'[m]
          PROVE  NotEarly(m, applied[m][k])'
      <4>1. CASE k \in DOMAIN applied[m] /\ applied'[m][k] = applied[m][k]
        <5>1. PICK a : a = applied[m][k]
          OBVIOUS
        <5>. QED  BY <1>3, <4>1, <5>1 DEF NotEarly
      <4>2. CASE ~ (k \in DOMAIN applied[m] /\ applied'[m][k] = applied[m][k])
        <5>1. m = n
          BY <3>1, <3>3, <4>2
        <5>2. k \in 1 .. Len(applied'[n]) /\ DOMAIN applied[n] = 1 .. Len(applied[n])
              /\ Len(applied[n]) \in Nat
          <6>1. DOMAIN applied'[n] = 1 .. Len(applied'[n])
            BY <1>0, <2>2, LenProperties DEF TypeOK
          <6>. QED  BY <1>0, <2>2, <3>3, <5>1, <6>1, CallsMadeTyped
        <5>3. k \notin 1 .. Len(applied[n])
          BY <3>1, <4>2, <5>1, <5>2
        <5>4. PICK j \in 1 .. Len(Calls(c)) : k = Len(applied[n]) + j
          <6>1. k - Len(applied[n]) \in 1 .. Len(Calls(c)) /\ k = Len(applied[n]) + (k - Len(applied[n]))
            BY <2>4, <3>1, <5>2, <5>3
          <6>. QED  BY <6>1
        <5>5. applied'[m][k] = [call |-> Calls(c)[j], frame |-> frame_clock]
          BY <3>1, <5>1, <5>4
        <5>6. applied'[m][k].frame = frame_clock /\ Due(applied'[m][k].call) = Due(c)
          BY <2>4, <5>4, <5>5
        <5>7. frame_clock >= Due(c) - (IF n \in Timed THEN 0 ELSE BlockSize - 1)
          BY <1>2, <2>5, <2>7
        <5>8. Due(applied[m][k].call)' = Due(c)
          BY <2>6, <5>6 DEF Due
        <5>. QED  BY <5>1, <5>6, <5>7, <5>8 DEF NotEarly
      <4>. QED  BY <4>1, <4>2
    <3>4. NotBeforeItsFrame'
      BY <3>3 DEF NotBeforeItsFrame, NotEarly
    <3>. QED  BY <3>2, <3>4
  <2>8. ASSUME n \in Timed, NEW delay \in 1 .. BlockSize - 1, ApplyLater(n, c, delay),
               Due(c) <= frame_clock + delay
        PROVE  NotBeforeItsFrame' /\ DelaysKept'
    <3>1. /\ \A m \in Node \ {n} : waiting_changes'[m] = waiting_changes[m]
          /\ \A k \in 1 .. Len(waiting_changes[n]) :
               waiting_changes'[n][k] = waiting_changes[n][k]
          /\ \E kept \in 0 .. Len(Calls(c)) : KeptCalls(n, c, delay, kept)
          /\ applied' = applied
      BY <1>0, <2>2, <2>3, <2>8, MadeLater
    <3>2. PICK kept \in 0 .. Len(Calls(c)) : KeptCalls(n, c, delay, kept)
      BY <3>1
    <3>3. /\ kept \in Nat /\ \A k \in 1 .. kept : k \in 1 .. Len(Calls(c))
          /\ Len(waiting_changes'[n]) = Len(waiting_changes[n]) + kept
          /\ \A k \in 1 .. kept :
               waiting_changes'[n][Len(waiting_changes[n]) + k] = [call |-> Calls(c)[k], delay |-> delay]
      <4>1. kept \in Nat /\ \A k \in 1 .. kept : k \in 1 .. Len(Calls(c))
        BY <2>4
      <4>2. /\ Len(waiting_changes'[n]) = Len(waiting_changes[n]) + kept
            /\ \A k \in 1 .. kept :
                 waiting_changes'[n][Len(waiting_changes[n]) + k]
                   = [call |-> Calls(c)[k], delay |-> delay]
        BY <3>2, Zenon DEF KeptCalls
      <4>. QED  BY <4>1, <4>2
    <3>4. NotBeforeItsFrame'
      BY <1>5, <3>1
    <3>5. ASSUME NEW m \in Node, NEW k \in DOMAIN waiting_changes'[m]
          PROVE  /\ m \in Timed /\ m \in tasks' /\ phase' # "idle"
                 /\ Due(waiting_changes[m][k].call)' <= frame_clock' + (waiting_changes[m][k].delay)'
      <4>1. CASE k \in DOMAIN waiting_changes[m] /\ waiting_changes'[m][k] = waiting_changes[m][k]
        <5>1. PICK w : w = waiting_changes[m][k]
          OBVIOUS
        <5>2. Due(w.call)' = Due(waiting_changes[m][k].call)'
          BY <4>1, <5>1 DEF Due
        <5>. QED  BY <1>4, <1>7, <4>1, <5>1, <5>2
      <4>2. CASE ~ (k \in DOMAIN waiting_changes[m] /\ waiting_changes'[m][k] = waiting_changes[m][k])
        <5>1. m = n
          BY <3>1, <3>5, <4>2
        <5>2. k \in 1 .. Len(waiting_changes'[n])
              /\ DOMAIN waiting_changes[n] = 1 .. Len(waiting_changes[n])
              /\ Len(waiting_changes[n]) \in Nat
          <6>1. DOMAIN waiting_changes'[n] = 1 .. Len(waiting_changes'[n])
            BY <1>0, <2>2, LenProperties DEF TypeOK
          <6>. QED  BY <1>0, <2>2, <3>5, <5>1, <6>1, CallsMadeTyped
        <5>3. k \notin 1 .. Len(waiting_changes[n])
          BY <3>1, <4>2, <5>1, <5>2
        <5>4. PICK j \in 1 .. kept : k = Len(waiting_changes[n]) + j
          <6>1. k - Len(waiting_changes[n]) \in 1 .. kept
                /\ k = Len(waiting_changes[n]) + (k - Len(waiting_changes[n]))
            BY <3>3, <5>2, <5>3
          <6>. QED  BY <6>1
        <5>5. waiting_changes'[m][k] = [call |-> Calls(c)[j], delay |-> delay]
              /\ j \in 1 .. Len(Calls(c))
          BY <3>3, <5>1, <5>4
        <5>6. waiting_changes'[m][k].delay = delay /\ Due(waiting_changes'[m][k].call) = Due(c)
          BY <2>4, <5>5
        <5>7. Due(waiting_changes[m][k].call)' = Due(c)
          BY <2>6, <5>6 DEF Due
        <5>. QED  BY <1>7, <2>2, <2>8, <5>1, <5>6, <5>7
      <4>. QED  BY <4>1, <4>2
    <3>6. DelaysKept'
      BY <3>5 DEF DelaysKept
    <3>. QED  BY <3>4, <3>6
  <2>9. ASSUME /\ ApplyNow(n, c)
               /\ IF n \in Timed THEN Due(c) <= frame_clock /\ next_delay'[n][p] = 0
                                 ELSE Due(c) <= frame_clock + (BlockSize - 1)
        PROVE  NotBeforeItsFrame' /\ DelaysKept'
    <3>1. Due(c) <= frame_clock + (IF n \in Timed THEN 0 ELSE BlockSize - 1)
      BY <1>2, <2>5, <2>9
    <3>. QED  BY <2>7, <2>9, <3>1
  <2>. QED  BY <2>2, <2>8, <2>9 DEF AppliedAt
<1>8. CASE LookAtWaiting \/ LookAtNew
  <2>1. /\ UNCHANGED <<nodes, sent, ring, tasks, active, phase, frame_clock>> /\ phase # "idle"
        /\ \E c \in WaitingChange : Counted(c, frame_clock) /\ Given(c)
    BY <1>8, LookedAt
  <2>2. PICK c \in WaitingChange : Counted(c, frame_clock) /\ Given(c)
    BY <2>1
  <2>3. CASE UNCHANGED <<wrappers, applied>>
    BY <1>5, <1>6, <2>1, <2>3 DEF wrappers
  <2>. QED  BY <1>7, <2>1, <2>2, <2>3 DEF Given
<1>9. ASSUME NEW tokens \in SUBSET Token, RunTasks(tokens) PROVE NotBeforeItsFrame' /\ DelaysKept'
  <2>1. /\ UNCHANGED <<sent, tasks>>
        /\ applied' = [n \in Node |-> IF n \in tasks THEN applied[n] \o DelayedCalls(n)
                                                      ELSE applied[n]]
        /\ waiting_changes' = [n \in Node |-> IF n \in tasks THEN <<>> ELSE waiting_changes[n]]
    BY <1>9 DEF RunTasks, control
  <2>2. \A n \in Node : DOMAIN waiting_changes'[n] = {}
    <3>1. DOMAIN <<>> = {}
      BY EmptySeq
    <3>. QED  BY <1>0, <2>1, <3>1 DEF DelaysKept
  <2>3. DelaysKept'
    BY <2>2 DEF DelaysKept
  <2>4. ASSUME NEW n \in Node, NEW k \in DOMAIN applied'[n] PROVE NotEarly(n, applied[n][k])'
    <3>1. CASE k \in DOMAIN applied[n] /\ applied'[n][k] = applied[n][k]
      <4>1. PICK a : a = applied[n][k]
        OBVIOUS
      <4>. QED  BY <1>3, <3>1, <4>1 DEF NotEarly
    <3>2. CASE ~ (k \in DOMAIN applied[n] /\ applied'[n][k] = applied[n][k])
      <4> DEFINE A == applied[n]
                 W == waiting_changes[n]
                 D == DelayedCalls(n)
      <4>1. n \in tasks /\ applied'[n] = A \o D
        BY <2>1, <2>4, <3>2
      <4>2. /\ A \in Seq([call : Call, frame : Nat]) /\ Len(A) \in Nat
            /\ DOMAIN A = 1 .. Len(A)
            /\ D \in Seq([call : Call, frame : Nat])
            /\ Len(D) = Len(W) /\ Len(W) \in Nat /\ DOMAIN W = 1 .. Len(W)
            /\ \A j \in 1 .. Len(W) : D[j].call = W[j].call /\ D[j].frame >= frame_clock + W[j].delay
        BY <1>0, CallsMadeTyped, DelayedCallsTyped DEF TypeOK
      <4>. HIDE DEF A, W, D
      <4>3. /\ DOMAIN (A \o D) = 1 .. Len(A) + Len(W)
            /\ \A i \in 1 .. Len(A) + Len(W) : (A \o D)[i] = IF i <= Len(A) THEN A[i] ELSE D[i - Len(A)]
        <5>1. /\ A \o D \in Seq([call : Call, frame : Nat]) /\ Len(A \o D) = Len(A) + Len(W)
              /\ \A i \in 1 .. Len(A) + Len(W) : (A \o D)[i] = IF i <= Len(A) THEN A[i] ELSE D[i - Len(A)]
          <6> DEFINE S == [call : Call, frame : Nat]
          <6>1. A \in Seq(S) /\ D \in Seq(S)
            BY <4>2
          <6>. HIDE DEF S
          <6>2. /\ A \o D \in Seq(S) /\ Len(A \o D) = Len(A) + Len(D)
                /\ \A i \in 1 .. Len(A) + Len(D) :
                     (A \o D)[i] = IF i <= Len(A) THEN A[i] ELSE D[i - Len(A)]
            BY <6>1, ConcatProperties
          <6>. QED  BY <4>2, <6>2 DEF S
        <5>. QED  BY <5>1, LenProperties
      <4>4. k \in 1 .. Len(A) + Len(W) /\ ~ (k <= Len(A))
        <5>1. k \in 1 .. Len(A) + Len(W)
          BY <2>4, <4>1, <4>3
        <5>2. k <= Len(A) => k \in DOMAIN A /\ (A \o D)[k] = A[k]
          BY <4>2, <4>3, <5>1
        <5>. QED  BY <3>2, <4>1, <5>1, <5>2 DEF A
      <4>5. PICK j \in 1 .. Len(W) : j = k - Len(A)
        BY <4>2, <4>4
      <4>6. applied'[n][k] = D[j]
        BY <4>1, <4>3, <4>4, <4>5
      <4>7. PICK w : w = W[j]
        OBVIOUS
      <4>8. /\ n \in Timed /\ w \in [call : Call, delay : 1 .. BlockSize - 1]
            /\ Due(w.call)' <= frame_clock + w.delay
        BY <1>4, <4>2, <4>7 DEF W
      <4>9. applied'[n][k].call = w.call /\ applied'[n][k].frame >= frame_clock + w.delay
        BY <4>2, <4>6, <4>7
      <4>10. Due(w.call)' \in Nat /\ w.delay \in Nat
        <5>1. w.call.id \in DOMAIN sent /\ w.call.received \in Nat
          BY <4>8 DEF Call
        <5>2. Due(w.call) \in Nat /\ Due(w.call)' = Due(w.call)
          BY <1>0, <1>1, <5>1, DueTyped, DueStays
        <5>. QED  BY <4>8, <5>2
      <4>11. applied'[n][k].frame \in Nat
        <5>1. applied'[n] \in Seq([call : Call, frame : Nat]')
          BY <1>0 DEF TypeOK
        <5>2. k \in 1 .. Len(applied'[n])
          BY <2>4, <5>1, LenProperties
        <5>3. applied'[n][k] \in [call : Call, frame : Nat]'
          BY <5>1, <5>2, ElementOfSeq
        <5>. QED  BY <5>3
      <4>12. Due(applied[n][k].call)' = Due(w.call)'
        BY <4>9 DEF Due
      <4>. QED  BY <1>2, <4>8, <4>9, <4>10, <4>11, <4>12 DEF NotEarly
    <3>. QED  BY <3>1, <3>2
  <2>. QED  BY <2>3, <2>4 DEF NotBeforeItsFrame, NotEarly
<1>10. CASE BeginBlock \/ TakeSlots \/ FreeSlots
  BY <1>5, <1>6, <1>10 DEF BeginBlock, TakeSlots, FreeSlots, wrappers
<1>11. ASSUME NEW n \in Node, NEW p \in Parameter, NEW schedule \in Schedules,
              NEW parts \in Parts, Send(n, p, schedule, parts) \/ Commit(n)
       PROVE  NotBeforeItsFrame' /\ DelaysKept'
  BY <1>5, <1>6, <1>11 DEF Send, Commit, wrappers
<1>12. ASSUME NEW n \in Node, Commit(n) PROVE NotBeforeItsFrame' /\ DelaysKept'
  BY <1>5, <1>6, <1>12 DEF Commit, wrappers
<1>. QED  BY <1>8, <1>9, <1>10, <1>11, <1>12 DEF Next

LEMMA InitCalls == Init => CallsInv
<1> SUFFICES ASSUME Init PROVE CallsInv
  OBVIOUS
<1>1. DOMAIN <<>> = {} /\ Len(<<>>) = 0 /\ \A S : <<>> \in Seq(S)
  BY EmptySeq
<1>2. nodes \in [Node -> {"pushed", "committed", "freed"}]
  BY DEF Init
<1>3. tasks \subseteq Node
  BY ChangesAssumption DEF Init
<1>4. /\ next_delay \in [Node -> [Parameter -> 0 .. BlockSize - 1]]
      /\ RingSize \in Nat /\ Delayed \in Nat
  <2>1. 0 \in 0 .. BlockSize - 1
    BY ConstantsTyped
  <2>. QED  BY <2>1, ConstantsTyped DEF Init
<1>5. \A n \in Node : waiting_changes[n] = <<>> /\ applied[n] = <<>>
  BY DEF Init
<1>6. TypeOK
  BY <1>1, <1>2, <1>3, <1>4 DEF Init, TypeOK
<1>7. DelaysKept /\ NotBeforeItsFrame
  BY <1>1, <1>5 DEF DelaysKept, NotBeforeItsFrame
<1>. QED  BY <1>6, <1>7 DEF CallsInv

LEMMA CallsStep == ChangesInv /\ CallsInv /\ [Next]_vars => CallsInv'
<1>1. CASE ChangesInv /\ CallsInv /\ Next
  BY <1>1, TypeOKStep, FramesStep DEF CallsInv
<1>2. CASE CallsInv /\ UNCHANGED vars
  <2>1. TypeOK'
    BY <1>2 DEF CallsInv, vars, TypeOK, WaitingChange, Call
  <2>2. DelaysKept' /\ NotBeforeItsFrame'
    BY <1>2 DEF CallsInv, vars, DelaysKept, NotBeforeItsFrame, Due
  <2>. QED  BY <2>1, <2>2 DEF CallsInv
<1>. QED  BY <1>1, <1>2

(* The type, the frames of the calls that are made, and the delays of      *)
(* those that are kept for a frame of the block that is being played.      *)
THEOREM CallsInvariance == Spec => []CallsInv
<1>. QED  BY InitCalls, CallsStep, ChangesInvariance, PTL DEF Spec

(* Type correctness: the ring, the queue of waiting changes and the slots  *)
(* of a wrapper are never more than full, and a delay within the block is  *)
(* always less than a block.                                               *)
THEOREM ChangesTyped == Spec => []TypeOK
<1>1. CallsInv => TypeOK
  BY DEF CallsInv
<1>. QED  BY <1>1, CallsInvariance, PTL

-----------------------------------------------------------------------------
(***************************************************************************)
(* Changes that were sent ahead of the edit that adds their node.          *)
(***************************************************************************)
(* In the loop over the new events: those that came too late for it.  Once *)
(* it has ended, all that are in the ring.                                 *)
Late(i) == phase = "run" \/ (phase = "new" /\ i > looked + left)

AheadInv ==
  /\ \A n \in tasks : nodes[n] # "pushed"
  /\ \A i \in DOMAIN ring : Late(i) /\ sent[ring[i]].ahead => sent[ring[i]].node_key \notin tasks

LEMMA AheadStep ==
  ASSUME ChangesInv, CallsInv, AheadInv, Next
  PROVE  AheadInv'
<1>0. /\ Typed /\ LoopsBounded /\ TypeOK
      /\ ring \in Seq(DOMAIN sent) /\ Len(ring) \in Nat /\ DOMAIN ring = 1 .. Len(ring)
      /\ left \in Nat /\ looked \in Nat
  BY LenProperties DEF ChangesInv, CallsInv, Typed
<1>1. SentGrows
  BY <1>0, SentStays
<1>2. \A i \in DOMAIN ring : ring[i] \in DOMAIN sent /\ sent'[ring[i]] = sent[ring[i]]
  BY <1>0, <1>1, ElementOfSeq DEF SentGrows
<1>3. ASSUME tasks' = tasks, nodes' = nodes, ring' = ring,
             \A i \in DOMAIN ring : Late(i)' => Late(i)
      PROVE  AheadInv'
  BY <1>2, <1>3 DEF AheadInv
<1>4. CASE LookAtWaiting
  BY <1>3, <1>4 DEF LookAtWaiting, control, Late
<1>5. CASE LookAtNew
  <2>1. phase = "new" /\ phase' = "new" /\ looked' = looked + 1 /\ left' = left - 1
        /\ UNCHANGED <<tasks, nodes, ring>>
    BY <1>5 DEF LookAtNew, control
  <2>2. looked' + left' = looked + left
    BY <1>0, <2>1
  <2>. QED  BY <1>3, <2>1, <2>2 DEF Late
<1>6. CASE TakeSlots
  <2>1. phase' = "new" /\ left' = Len(ring) /\ looked' = 0 /\ UNCHANGED <<tasks, nodes, ring>>
    BY <1>6 DEF TakeSlots, control
  <2>2. \A i \in DOMAIN ring : ~ Late(i)'
    BY <1>0, <2>1 DEF Late
  <2>. QED  BY <1>3, <2>1, <2>2
<1>7. CASE FreeSlots
  <2>1. /\ phase = "new" /\ left = 0 /\ UNCHANGED <<tasks, nodes, sent>>
        /\ ring' = SubSeq(ring, looked + 1, Len(ring))
    BY <1>7 DEF FreeSlots, control, UnreadEvents
  <2>2. ASSUME NEW i \in DOMAIN ring'
        PROVE  i + looked \in DOMAIN ring /\ ring'[i] = ring[i + looked] /\ i \in Nat \ {0}
    <3>1. \A j \in looked + 1 .. Len(ring) : ring[j] \in DOMAIN sent
      <4>1. \A j \in looked + 1 .. Len(ring) : j \in 1 .. Len(ring)
        BY <1>0
      <4>. QED  BY <1>0, <1>2, <4>1
    <3>2. /\ ring' \in Seq(DOMAIN sent)
          /\ Len(ring') = IF looked + 1 <= Len(ring) THEN Len(ring) - (looked + 1) + 1 ELSE 0
          /\ \A j \in 1 .. Len(ring) - (looked + 1) + 1 : ring'[j] = ring[looked + 1 + j - 1]
      BY <1>0, <2>1, <3>1, SubSeqProperties
    <3>3. i \in 1 .. Len(ring')
      BY <3>2, LenProperties
    <3>4. looked + 1 <= Len(ring) /\ Len(ring') = Len(ring) - (looked + 1) + 1
      BY <3>2, <3>3
    <3>5. i \in 1 .. Len(ring) - (looked + 1) + 1
      BY <3>3, <3>4
    <3>6. looked + 1 + i - 1 = i + looked /\ i + looked \in 1 .. Len(ring) /\ i \in Nat \ {0}
      BY <1>0, <3>5
    <3>. QED  BY <1>0, <3>2, <3>5, <3>6
  <2>3. ASSUME NEW i \in DOMAIN ring', sent[ring'[i]].ahead
        PROVE  sent[ring'[i]].node_key \notin tasks
    <3>1. i + looked \in DOMAIN ring /\ ring'[i] = ring[i + looked] /\ i \in Nat \ {0}
      BY <2>2
    <3>2. Late(i + looked)
      BY <1>0, <2>1, <3>1 DEF Late
    <3>. QED  BY <2>3, <3>1, <3>2 DEF AheadInv
  <2>. QED  BY <2>1, <2>3 DEF AheadInv
<1>8. ASSUME NEW tokens \in SUBSET Token, RunTasks(tokens) PROVE AheadInv'
  BY <1>3, <1>8 DEF RunTasks, control, Late
<1>9. CASE BeginBlock
  <2>1. phase' = "waiting" /\ ring' = ring /\ nodes' = nodes
        /\ tasks' = {n \in Node : nodes[n] = "committed"}
    BY <1>9 DEF BeginBlock, control
  <2>. QED  BY <2>1 DEF AheadInv, Late
<1>10. ASSUME NEW n \in Node, Commit(n) PROVE AheadInv'
  <2>1. UNCHANGED <<tasks, ring, sent, phase, looked, left>>
        /\ \E s \in {"committed", "freed"} : nodes' = [nodes EXCEPT ![n] = s]
    BY <1>10 DEF Commit
  <2>2. \A m \in tasks : nodes'[m] # "pushed"
    BY <1>0, <2>1 DEF AheadInv, TypeOK
  <2>. QED  BY <2>1, <2>2 DEF AheadInv, Late
<1>11. ASSUME NEW n \in Node, NEW p \in Parameter, NEW schedule \in Schedules,
              NEW parts \in Parts, Send(n, p, schedule, parts)
       PROVE  AheadInv'
  <2> DEFINE e == [node_key |-> n, parameter |-> p, time |-> schedule.time,
                   token |-> schedule.token, parts |-> parts,
                   ahead |-> nodes[n] = "pushed"]
  <2>1. /\ UNCHANGED <<tasks, nodes, phase, looked, left>>
        /\ sent' = Append(sent, e) /\ ring' = Append(ring, Len(sent) + 1)
    BY <1>11 DEF Send
  <2>2. Len(sent) \in Nat /\ DOMAIN sent = 1 .. Len(sent)
    BY <1>0, LenProperties DEF Typed
  <2>3. sent'[Len(sent) + 1] = e
    <3>1. sent \in Seq(Event \union {e}) /\ e \in Event \union {e}
      BY <1>0, SeqMonotonic DEF Typed
    <3>. HIDE DEF e
    <3>. QED  BY <2>1, <3>1, AppendProperties
  <2>4. /\ DOMAIN ring' = 1 .. Len(ring) + 1
        /\ \A i \in 1 .. Len(ring) : ring'[i] = ring[i]
        /\ ring'[Len(ring) + 1] = Len(sent) + 1
    <3>1. ring \in Seq(Nat) /\ Len(sent) + 1 \in Nat
      BY <1>0, <2>2, SeqMonotonic
    <3>. QED  BY <2>1, <3>1, AppendProperties, LenProperties
  <2>5. ASSUME NEW i \in DOMAIN ring', Late(i), sent'[ring'[i]].ahead
        PROVE  sent'[ring'[i]].node_key \notin tasks
    <3>1. CASE i \in DOMAIN ring
      BY <1>0, <1>2, <2>4, <2>5, <3>1 DEF AheadInv
    <3>2. CASE i = Len(ring) + 1
      <4>1. sent'[ring'[i]] = e
        BY <2>3, <2>4, <3>2
      <4>2. e.ahead = (nodes[n] = "pushed") /\ e.node_key = n
        OBVIOUS
      <4>3. nodes[n] = "pushed"
        BY <2>5, <4>1, <4>2
      <4>. QED  BY <4>1, <4>2, <4>3 DEF AheadInv
    <3>. QED  BY <1>0, <2>4, <2>5, <3>1, <3>2
  <2>6. \A i : Late(i)' = Late(i)
    BY <2>1 DEF Late
  <2>. QED  BY <2>1, <2>5, <2>6 DEF AheadInv
<1>. QED
  BY <1>4, <1>5, <1>6, <1>7, <1>8, <1>9, <1>10, <1>11 DEF Next

(* What was sent to a node before the edit that adds it has ended has been *)
(* read when the node plays, and waits for a later block or for its token  *)
(* only, whatever is committed and sent while a block is prepared: the     *)
(* tasks are taken before the events.                                      *)
THEOREM ChangesComeFirst == Spec => []ChangesPrecedeTasks
<1>1. Init => AheadInv
  <2> SUFFICES ASSUME Init PROVE AheadInv
    OBVIOUS
  <2>1. DOMAIN <<>> = {}
    BY EmptySeq
  <2>. QED  BY <2>1, ChangesAssumption DEF Init, AheadInv
<1>2. ChangesInv /\ CallsInv /\ AheadInv /\ [Next]_vars => AheadInv'
  <2>1. CASE AheadInv /\ UNCHANGED vars
    BY <2>1 DEF AheadInv, vars, Late
  <2>. QED  BY <2>1, AheadStep
<1>3. AheadInv /\ NothingReadyWaits => ChangesPrecedeTasks
  BY DEF AheadInv, Late, NothingReadyWaits, ChangesPrecedeTasks
<1>. QED
  BY <1>1, <1>2, <1>3, ChangesInvariance, CallsInvariance, NothingIsMissed, PTL DEF Spec
-----------------------------------------------------------------------------
(***************************************************************************)
(* Each event in one place, and the order of the changes.                  *)
(***************************************************************************)
(* The ring holds the events that were sent last, and the loop reads them  *)
(* in this order.                                                          *)
NumRead == Len(sent) - Len(ring) + looked

RingInOrder ==
  /\ Len(ring) <= Len(sent)
  /\ \A i \in DOMAIN ring : ring[i] = Len(sent) - Len(ring) + i

(* The waiting changes were read in the order of the queue, but for those  *)
(* that this block has looked at and pushed back behind the others.        *)
Turned(i, j) == phase = "waiting" /\ i <= left /\ left < j

QueueInOrder ==
  /\ \A i \in DOMAIN waiting : waiting[i].id <= NumRead
  /\ \A i, j \in DOMAIN waiting :
       i < j => IF Turned(i, j) THEN waiting[j].id < waiting[i].id
                ELSE waiting[i].id < waiting[j].id

QueueInv == RingInOrder /\ QueueInOrder

(* An event is on its way until it has become calls.                       *)
OnItsWay(id) == id > NumRead \/ \E i \in DOMAIN waiting : waiting[i].id = id

Made(id, part) ==
  {k \in DOMAIN applied[sent[id].node_key] :
     /\ applied[sent[id].node_key][k].call.id = id
     /\ applied[sent[id].node_key][k].call.part = part}
InSlots(id, part) ==
  {k \in DOMAIN waiting_changes[sent[id].node_key] :
     /\ waiting_changes[sent[id].node_key][k].call.id = id
     /\ waiting_changes[sent[id].node_key][k].call.part = part}
GivenUp(id, part) == {g \in gone : g.call.id = id /\ g.call.part = part}

OnlyOne(S, T, U) == (\E x \in S : S = {x}) /\ T = {} /\ U = {}

InOnePlace(id, part) ==
  \/ OnlyOne(Made(id, part), InSlots(id, part), GivenUp(id, part))
  \/ OnlyOne(InSlots(id, part), Made(id, part), GivenUp(id, part))
  \/ OnlyOne(GivenUp(id, part), Made(id, part), InSlots(id, part))

NoCallsYet(id) ==
  /\ \A n \in Node : \A k \in DOMAIN applied[n] : applied[n][k].call.id # id
  /\ \A n \in Node : \A k \in DOMAIN waiting_changes[n] : waiting_changes[n][k].call.id # id
  /\ \A g \in gone : g.call.id # id

PartsOf(id) == {sent[id].parts[k] : k \in DOMAIN sent[id].parts}

InPlace(id) ==
  IF OnItsWay(id) THEN NoCallsYet(id) ELSE \A part \in PartsOf(id) : InOnePlace(id, part)

PlacesInv == \A id \in DOMAIN sent : InPlace(id)

(* What InOrder says of two calls.                                         *)
MayPrecede(c, d) ==
  d.id < c.id =>
    \/ sent[c.id].parameter # sent[d.id].parameter
    \/ sent[c.id].token # sent[d.id].token
    \/ Due(c) < Due(d)

(* Once a delay within the block is set, the parameter is always delayed.  *)
DelaySet ==
  \A n \in Node : \A k \in DOMAIN waiting_changes[n] :
    next_delay[n][sent[waiting_changes[n][k].call.id].parameter] > 0

OrderInv ==
  \A n \in Node :
    /\ \A j \in DOMAIN applied[n] : \A i \in 1 .. j - 1 :
         MayPrecede(applied[n][i].call, applied[n][j].call)
    /\ \A i \in DOMAIN applied[n] : \A j \in DOMAIN waiting_changes[n] :
         MayPrecede(applied[n][i].call, waiting_changes[n][j].call)
    /\ \A j \in DOMAIN waiting_changes[n] : \A i \in 1 .. j - 1 :
         MayPrecede(waiting_changes[n][i].call, waiting_changes[n][j].call)

(* Nothing that waits for a node should have come before what was made.    *)
WaitingInOrder ==
  \A n \in Node : \A w \in DOMAIN waiting : sent[waiting[w].id].node_key = n =>
    /\ \A i \in DOMAIN applied[n] : MayPrecede(applied[n][i].call, waiting[w])
    /\ \A i \in DOMAIN waiting_changes[n] : MayPrecede(waiting_changes[n][i].call, waiting[w])

-----------------------------------------------------------------------------
LEMMA ReadTyped ==
  ASSUME Typed, LoopsBounded, QueueInv
  PROVE  /\ Len(sent) \in Nat /\ DOMAIN sent = 1 .. Len(sent)
         /\ Len(ring) \in Nat /\ DOMAIN ring = 1 .. Len(ring)
         /\ Len(waiting) \in Nat /\ DOMAIN waiting = 1 .. Len(waiting)
         /\ left \in Nat /\ looked \in Nat /\ looked <= Len(ring)
         /\ NumRead \in 0 .. Len(sent)
         /\ \A i \in DOMAIN waiting :
              waiting[i] \in WaitingChange /\ waiting[i].id \in DOMAIN sent
<1>1. /\ sent \in Seq(Event) /\ ring \in Seq(DOMAIN sent) /\ waiting \in Seq(WaitingChange)
      /\ left \in Nat /\ looked \in Nat
  BY DEF Typed
<1>2. /\ Len(sent) \in Nat /\ DOMAIN sent = 1 .. Len(sent)
      /\ Len(ring) \in Nat /\ DOMAIN ring = 1 .. Len(ring)
      /\ Len(waiting) \in Nat /\ DOMAIN waiting = 1 .. Len(waiting)
      /\ \A i \in DOMAIN waiting : waiting[i] \in WaitingChange
  BY <1>1, LenProperties, ElementOfSeq
<1>3. looked <= Len(ring)
  BY <1>1, <1>2 DEF LoopsBounded, Typed
<1>4. NumRead \in 0 .. Len(sent)
  BY <1>1, <1>2, <1>3 DEF NumRead, QueueInv, RingInOrder
<1>5. \A i \in DOMAIN waiting : waiting[i].id \in DOMAIN sent
  BY <1>2 DEF WaitingChange
<1>. QED  BY <1>1, <1>2, <1>3, <1>4, <1>5

(* The queue after a waiting change was looked at, by its places.          *)
LEMMA WaitingTurns ==
  ASSUME Typed, LoopsBounded, LookAtWaiting
  PROVE  LET c == waiting[1] IN
         /\ \A i \in 1 .. Len(waiting) - 1 : i \in DOMAIN waiting' /\ waiting'[i] = waiting[i + 1]
         /\ \/ /\ Len(waiting') = Len(waiting) - 1
               /\ \/ ApplyParameterChange(c)
                  \/ Lose(c, DOMAIN Calls(c), "expired") /\ UNCHANGED <<wrappers, applied>>
            \/ /\ Len(waiting') = Len(waiting)
               /\ waiting'[Len(waiting)].id = c.id
               /\ waiting'[Len(waiting)].received = c.received
               /\ UNCHANGED <<wrappers, applied, gone>>
         /\ DOMAIN waiting' = 1 .. Len(waiting') /\ Len(waiting') \in Nat
<1> DEFINE c == Head(waiting)
<1>1. phase = "waiting" /\ left \in Nat /\ left > 0 /\ left <= Len(waiting)
  BY DEF LookAtWaiting, LoopsBounded, Typed
<1>2. waiting \in Seq(WaitingChange) /\ waiting # <<>>
  BY <1>1, EmptySeq DEF Typed
<1>3. /\ c \in WaitingChange /\ Tail(waiting) \in Seq(WaitingChange)
      /\ Len(Tail(waiting)) = Len(waiting) - 1 /\ Len(waiting) \in Nat \ {0}
      /\ \A i \in 1 .. Len(Tail(waiting)) : Tail(waiting)[i] = waiting[i + 1]
      /\ DOMAIN Tail(waiting) = 1 .. Len(Tail(waiting))
  BY <1>2, HeadTailProperties, EmptySeq, LenProperties
<1>4. c = waiting[1]
  BY <1>2
<1>5. ASSUME waiting' = Tail(waiting),
             \/ ApplyParameterChange(c)
             \/ Lose(c, DOMAIN Calls(c), "expired") /\ UNCHANGED <<wrappers, applied>>
      PROVE  /\ \A i \in 1 .. Len(waiting) - 1 :
                  i \in DOMAIN waiting' /\ waiting'[i] = waiting[i + 1]
             /\ Len(waiting') = Len(waiting) - 1
             /\ \/ ApplyParameterChange(waiting[1])
                \/ /\ Lose(waiting[1], DOMAIN Calls(waiting[1]), "expired")
                   /\ UNCHANGED <<wrappers, applied>>
             /\ DOMAIN waiting' = 1 .. Len(waiting') /\ Len(waiting') \in Nat
  <2>. HIDE DEF c
  <2>. QED  BY <1>3, <1>4, <1>5
<1>6. ASSUME waiting' = Append(Tail(waiting), Kept(c)),
             c.blocks <= blocks_to_keep_scheduled_changes,
             UNCHANGED <<wrappers, applied, gone>>
      PROVE  /\ \A i \in 1 .. Len(waiting) - 1 :
                  i \in DOMAIN waiting' /\ waiting'[i] = waiting[i + 1]
             /\ Len(waiting') = Len(waiting)
             /\ waiting'[Len(waiting)].id = waiting[1].id
             /\ waiting'[Len(waiting)].received = waiting[1].received
             /\ DOMAIN waiting' = 1 .. Len(waiting') /\ Len(waiting') \in Nat
  <2>1. /\ Kept(c) \in WaitingChange /\ Kept(c).id = c.id /\ Kept(c).received = c.received
    BY <1>3, <1>6, KeptTyped
  <2> DEFINE k == Kept(c)
  <2>. HIDE DEF c, k
  <2>2. /\ Len(waiting') = Len(waiting) /\ DOMAIN waiting' = 1 .. Len(waiting)
        /\ \A i \in 1 .. Len(waiting) - 1 : waiting'[i] = Tail(waiting)[i]
        /\ waiting'[Len(waiting)] = k
    BY <1>3, <1>6, <2>1, AppendProperties, LenProperties DEF k
  <2>3. k.id = c.id /\ k.received = c.received
    BY <2>1 DEF k
  <2>. QED  BY <1>3, <1>4, <2>2, <2>3
<1>. QED  BY <1>4, <1>5, <1>6, Zenon DEF LookAtWaiting, Unapplied

(* What a look at a change does to the queues, and to it.                  *)
SameChanges ==
  \A w \in DOMAIN waiting' :
    \E v \in DOMAIN waiting :
       waiting'[w].id = waiting[v].id /\ waiting'[w].received = waiting[v].received

Taken(c) ==
  /\ \/ ApplyParameterChange(c)
     \/ /\ UNCHANGED <<wrappers, applied>>
        /\ \E why \in {"expired", "queue full"} : Lose(c, DOMAIN Calls(c), why)
  /\ ~ OnItsWay(c.id)'
  /\ \A id \in DOMAIN sent : id # c.id => (OnItsWay(id)' <=> OnItsWay(id))
  /\ SameChanges

PutBack ==
  /\ UNCHANGED <<wrappers, applied, gone>>
  /\ \A id \in DOMAIN sent : OnItsWay(id)' <=> OnItsWay(id)
  /\ \A w \in DOMAIN waiting' :
       \/ waiting'[w].id > NumRead
       \/ \E v \in DOMAIN waiting :
            waiting'[w].id = waiting[v].id /\ waiting'[w].received = waiting[v].received

(* The change that is looked at: the changes before it have to wait.       *)
InTurn(c) ==
  /\ c \in WaitingChange /\ Counted(c, frame_clock) /\ OnItsWay(c.id)
  /\ c.id > NumRead \/ \E w \in DOMAIN waiting : c = waiting[w]
  /\ \A w \in DOMAIN waiting : waiting[w].id < c.id => MustWait(waiting[w])

LEMMA LookAtWaitingInTurn ==
  ASSUME ChangesInv, QueueInv, LookAtWaiting
  PROVE  QueueInv' /\ \E c \in WaitingChange : InTurn(c) /\ (Taken(c) \/ PutBack)
<1> DEFINE L == Len(waiting)
<1>0. Typed /\ LoopsBounded /\ WaitingRight
  BY DEF ChangesInv
<1>1. /\ L \in Nat /\ DOMAIN waiting = 1 .. L /\ left \in Nat /\ NumRead \in Nat
      /\ \A i \in 1 .. L : waiting[i] \in WaitingChange /\ waiting[i].id \in DOMAIN sent
      /\ DOMAIN sent \subseteq Nat
  BY <1>0, ReadTyped
<1>2. /\ phase = "waiting" /\ left > 0 /\ left' = left - 1
      /\ UNCHANGED <<sent, ring, phase, looked>>
  BY DEF LookAtWaiting, control
<1>3. L > 0 /\ left <= L /\ waiting[1] \in WaitingChange
  BY <1>0, <1>1, <1>2 DEF LoopsBounded
<1>4. PICK c \in WaitingChange : c = waiting[1]
  BY <1>3
<1>5. NumRead' = NumRead
  BY <1>2 DEF NumRead
<1>6. /\ \A i \in 1 .. L - 1 : i \in DOMAIN waiting' /\ waiting'[i] = waiting[i + 1]
      /\ \/ /\ Len(waiting') = L - 1
            /\ \/ ApplyParameterChange(c)
               \/ Lose(c, DOMAIN Calls(c), "expired") /\ UNCHANGED <<wrappers, applied>>
         \/ /\ Len(waiting') = L
            /\ waiting'[L].id = c.id
            /\ waiting'[L].received = c.received
            /\ UNCHANGED <<wrappers, applied, gone>>
      /\ DOMAIN waiting' = 1 .. Len(waiting') /\ Len(waiting') \in Nat
  BY <1>0, <1>4, WaitingTurns
<1>7. \A i, j \in 1 .. L :
        i < j => IF Turned(i, j) THEN waiting[j].id < waiting[i].id
                 ELSE waiting[i].id < waiting[j].id
  BY <1>1 DEF QueueInv, QueueInOrder
<1>8. \A i \in 1 .. L : waiting[i].id <= NumRead /\ waiting[i].id \in Nat
  BY <1>1 DEF QueueInv, QueueInOrder
<1>9. \A i \in 2 .. L : waiting[i].id # c.id
  <2> SUFFICES ASSUME NEW i \in 2 .. L PROVE waiting[i].id # c.id
    OBVIOUS
  <2>1. waiting[i].id < c.id \/ c.id < waiting[i].id
    BY <1>1, <1>3, <1>7, <1>4
  <2>2. waiting[i].id \in Nat /\ c.id \in Nat
    BY <1>1, <1>3, <1>8, <1>4
  <2>. QED  BY <2>1, <2>2
<1>. HIDE DEF L
<1>10. /\ Len(waiting') \in Nat /\ DOMAIN waiting' = 1 .. Len(waiting')
       /\ \/ Len(waiting') = L - 1
          \/ Len(waiting') = L /\ waiting'[L].id = c.id /\ waiting'[L].received = c.received
  BY <1>6, Zenon
<1>11. ASSUME NEW i \in DOMAIN waiting'
      PROVE  \/ i \in 1 .. L - 1 /\ i + 1 \in 1 .. L /\ waiting'[i] = waiting[i + 1]
             \/ i = L /\ Len(waiting') = L /\ waiting'[i].id = c.id
                /\ waiting'[i].received = c.received
  <2>1. CASE i \in 1 .. L - 1
    BY <1>1, <1>6, <2>1
  <2>2. CASE i \notin 1 .. L - 1
    BY <1>1, <1>3, <1>10, <1>11, <2>2
  <2>. QED  BY <2>1, <2>2
<1>12. QueueInOrder'
  <2>1. ASSUME NEW i \in DOMAIN waiting' PROVE (waiting[i].id <= NumRead)'
    BY <1>1, <1>3, <1>5, <1>8, <1>11, <1>4
  <2>2. ASSUME NEW i \in DOMAIN waiting', NEW j \in DOMAIN waiting', i < j
        PROVE  (IF Turned(i, j) THEN waiting[j].id < waiting[i].id
                ELSE waiting[i].id < waiting[j].id)'
    <3>1. i \in 1 .. L - 1 /\ i + 1 \in 1 .. L /\ waiting'[i] = waiting[i + 1]
      <4>1. Len(waiting') <= L /\ Len(waiting') \in Nat
        BY <1>1, <1>10
      <4>2. i \in 1 .. Len(waiting') /\ j \in 1 .. Len(waiting')
        BY <1>10
      <4>3. i \in 1 .. L - 1 /\ i + 1 \in 1 .. L
        BY <1>1, <2>2, <4>1, <4>2
      <4>. QED  BY <1>6, <4>3
    <3>2. Turned(i, j)' <=> i <= left - 1 /\ left - 1 < j
      BY <1>2 DEF Turned
    <3>3. CASE j \in 1 .. L - 1 /\ j + 1 \in 1 .. L /\ waiting'[j] = waiting[j + 1]
      <4>1. IF Turned(i + 1, j + 1) THEN waiting[j + 1].id < waiting[i + 1].id
            ELSE waiting[i + 1].id < waiting[j + 1].id
        BY <1>7, <2>2, <3>1, <3>3
      <4>2. Turned(i + 1, j + 1) <=> i <= left - 1 /\ left - 1 < j
        <5>1. Turned(i + 1, j + 1) <=> i + 1 <= left /\ left < j + 1
          BY <1>2 DEF Turned
        <5>2. i \in Int /\ j \in Int /\ left \in Int
          BY <1>1, <3>1, <3>3
        <5>3. i + 1 <= left /\ left < j + 1 <=> i <= left - 1 /\ left - 1 < j
          BY <5>2
        <5>. QED  BY <5>1, <5>3
      <4>. QED  BY <3>1, <3>2, <3>3, <4>1, <4>2
    <3>4. CASE j = L /\ waiting'[j].id = c.id
      <4>1. IF Turned(1, i + 1) THEN waiting[i + 1].id < waiting[1].id
            ELSE waiting[1].id < waiting[i + 1].id
        BY <1>1, <1>3, <1>7, <3>1
      <4>2. Turned(1, i + 1) <=> ~ (i <= left - 1)
        BY <1>1, <1>2, <3>1 DEF Turned
      <4>3. left - 1 < j
        BY <1>1, <1>3, <3>4
      <4>. QED  BY <3>1, <3>2, <3>4, <4>1, <4>2, <4>3, <1>4
    <3>. QED  BY <1>11, <3>3, <3>4
  <2>. QED  BY <2>1, <2>2 DEF QueueInOrder
<1>13. QueueInv'
  BY <1>2, <1>12 DEF QueueInv, RingInOrder
<1>14. InTurn(c)
  <2>1. Right(c, TRUE)
    <3>1. Unseen(1)
      BY <1>1, <1>2 DEF Unseen
    <3>. QED  BY <1>0, <1>1, <1>3, <3>1, <1>4 DEF WaitingRight, Right
  <2>2. OnItsWay(c.id) /\ \E w \in DOMAIN waiting : c = waiting[w]
    BY <1>1, <1>3, <1>4 DEF OnItsWay
  <2>3. ASSUME NEW w \in DOMAIN waiting, waiting[w].id < c.id PROVE MustWait(waiting[w])
    <3>1. w # 1
      BY <1>1, <1>3, <1>8, <2>3, <1>4
    <3>2. Turned(1, w)
      BY <1>1, <1>3, <1>7, <1>8, <2>3, <3>1, <1>4
    <3>3. ~ Unseen(w)
      BY <1>1, <1>2, <3>2 DEF Turned, Unseen
    <3>. QED  BY <1>0, <3>3 DEF WaitingRight, Right
  <2>. QED  BY <1>3, <2>1, <2>2, <2>3 DEF InTurn, Right
<1>15. CASE Len(waiting') = L
  <2>1. /\ waiting'[L].id = c.id /\ waiting'[L].received = c.received
        /\ UNCHANGED <<wrappers, applied, gone>>
    BY <1>1, <1>3, <1>6, <1>15
  <2>2. ASSUME NEW w \in DOMAIN waiting'
        PROVE  \E v \in DOMAIN waiting :
                 waiting'[w].id = waiting[v].id /\ waiting'[w].received = waiting[v].received
    <3>1. CASE w \in 1 .. L - 1 /\ w + 1 \in 1 .. L /\ waiting'[w] = waiting[w + 1]
      BY <1>1, <3>1
    <3>2. CASE waiting'[w].id = c.id /\ waiting'[w].received = c.received
      BY <1>1, <1>3, <1>4, <3>2
    <3>. QED  BY <1>11, <3>1, <3>2
  <2>3. ASSUME NEW v \in DOMAIN waiting PROVE \E w \in DOMAIN waiting' : waiting'[w].id = waiting[v].id
    <3>1. CASE v = 1
      BY <1>1, <1>3, <1>6, <1>15, <2>1, <3>1, <1>4
    <3>2. CASE v # 1
      <4>1. v - 1 \in 1 .. L - 1 /\ v - 1 + 1 = v
        BY <1>1, <3>2
      <4>2. v - 1 \in DOMAIN waiting' /\ waiting'[v - 1] = waiting[v]
        BY <1>6, <4>1
      <4>. QED  BY <4>2
    <3>. QED  BY <3>1, <3>2
  <2>4. \A id \in DOMAIN sent : OnItsWay(id)' <=> OnItsWay(id)
    BY <1>5, <2>2, <2>3 DEF OnItsWay
  <2>5. PutBack
    BY <2>1, <2>2, <2>4 DEF PutBack
  <2>. QED  BY <1>3, <1>13, <1>14, <2>5
<1>16. CASE Len(waiting') = L - 1
  <2>0. \A i \in DOMAIN waiting' : i + 1 \in DOMAIN waiting /\ i + 1 # 1 /\ waiting'[i] = waiting[i + 1]
    BY <1>1, <1>3, <1>11, <1>16
  <2>1. \/ ApplyParameterChange(c)
        \/ Lose(c, DOMAIN Calls(c), "expired") /\ UNCHANGED <<wrappers, applied>>
    BY <1>1, <1>3, <1>6, <1>16
  <2>2. SameChanges
    BY <2>0 DEF SameChanges
  <2>3. ~ OnItsWay(c.id)'
    <3>1. c.id <= NumRead /\ c.id \in Nat
      BY <1>1, <1>3, <1>8, <1>4
    <3>2. ~ (c.id > NumRead')
      BY <1>1, <1>5, <3>1
    <3>3. ASSUME NEW i \in DOMAIN waiting' PROVE waiting'[i].id # c.id
      <4>1. i + 1 \in 2 .. L
        BY <1>1, <2>0
      <4>. QED  BY <1>9, <2>0, <4>1
    <3>. QED  BY <3>2, <3>3 DEF OnItsWay
  <2>4. ASSUME NEW id \in DOMAIN sent, id # c.id PROVE OnItsWay(id)' <=> OnItsWay(id)
    <3>1. ASSUME NEW v \in DOMAIN waiting, waiting[v].id = id
          PROVE  \E w \in DOMAIN waiting' : waiting'[w].id = id
      <4>1. v # 1
        BY <1>4, <2>4, <3>1
      <4>2. v - 1 \in 1 .. L - 1 /\ v - 1 + 1 = v
        BY <1>1, <4>1
      <4>3. v - 1 \in DOMAIN waiting' /\ waiting'[v - 1] = waiting[v]
        BY <1>6, <4>2
      <4>. QED  BY <3>1, <4>3
    <3>. QED  BY <1>5, <2>0, <3>1 DEF OnItsWay
  <2>5. Taken(c)
    BY <2>1, <2>2, <2>3, <2>4 DEF Taken
  <2>. QED  BY <1>3, <1>13, <1>14, <2>5
<1>. QED  BY <1>15, <1>16, <1>10

LEMMA LookAtNewInTurn ==
  ASSUME ChangesInv, QueueInv, LookAtNew
  PROVE  QueueInv' /\ \E c \in WaitingChange : InTurn(c) /\ (Taken(c) \/ PutBack)
<1> DEFINE L == Len(waiting)
<1>0. Typed /\ LoopsBounded /\ WaitingRight
  BY DEF ChangesInv
<1>1. /\ L \in Nat /\ DOMAIN waiting = 1 .. L /\ NumRead \in Nat
      /\ Len(sent) \in Nat /\ Len(ring) \in Nat /\ looked \in Nat /\ left \in Nat
      /\ \A i \in 1 .. L : waiting[i] \in WaitingChange /\ waiting[i].id \in DOMAIN sent
      /\ DOMAIN sent \subseteq Nat /\ DOMAIN ring = 1 .. Len(ring)
  BY <1>0, ReadTyped
<1>2. /\ phase = "new" /\ left > 0 /\ looked' = looked + 1
      /\ UNCHANGED <<sent, ring, phase>>
  BY DEF LookAtNew, control
<1>3. NumRead' = NumRead + 1
  BY <1>1, <1>2 DEF NumRead
<1>4. PICK c \in WaitingChange : c = NewChange
  BY <1>0, NewChangeTyped
<1>5. c.id = NumRead + 1 /\ Counted(c, frame_clock)
  <2>1. looked + 1 \in DOMAIN ring
    BY <1>0, <1>1, <1>2 DEF LoopsBounded
  <2>2. ring[looked + 1] = Len(sent) - Len(ring) + (looked + 1)
    BY <2>1 DEF QueueInv, RingInOrder
  <2>3. c.id = ring[looked + 1]
    BY <1>4 DEF NewChange
  <2>4. Counted(c, frame_clock)
    BY <1>0, <1>4, NewChangeTyped
  <2>. QED  BY <1>1, <2>2, <2>3, <2>4 DEF NumRead
<1>6. \A i \in 1 .. L : waiting[i].id <= NumRead /\ waiting[i].id \in Nat
  BY <1>1 DEF QueueInv, QueueInOrder
<1>7. \A i, j \in 1 .. L : i < j => waiting[i].id < waiting[j].id
  BY <1>1, <1>2 DEF QueueInv, QueueInOrder, Turned
<1>8. InTurn(c)
  <2>1. OnItsWay(c.id) /\ c.id > NumRead
    BY <1>1, <1>5 DEF OnItsWay
  <2>2. ASSUME NEW w \in DOMAIN waiting PROVE MustWait(waiting[w])
    <3>1. ~ Unseen(w)
      BY <1>2 DEF Unseen
    <3>. QED  BY <1>0, <3>1 DEF WaitingRight, Right
  <2>. QED  BY <1>5, <2>1, <2>2 DEF InTurn
<1>9. RingInOrder'
  BY <1>2 DEF QueueInv, RingInOrder
<1>10. CASE /\ waiting' = waiting
            /\ \/ ApplyParameterChange(c)
               \/ Lose(c, DOMAIN Calls(c), "queue full") /\ UNCHANGED <<wrappers, applied>>
  <2>1. QueueInOrder'
    <3>1. \A i \in 1 .. L : waiting[i].id <= NumRead'
      BY <1>1, <1>3, <1>6
    <3>2. \A i, j : ~ Turned(i, j)'
      BY <1>2 DEF Turned
    <3>. QED  BY <1>1, <1>7, <1>10, <3>1, <3>2 DEF QueueInOrder
  <2>2. ~ OnItsWay(c.id)'
    <3>1. ~ (c.id > NumRead')
      BY <1>1, <1>3, <1>5
    <3>2. \A i \in DOMAIN waiting : waiting[i].id # c.id
      BY <1>1, <1>5, <1>6
    <3>. QED  BY <1>10, <3>1, <3>2 DEF OnItsWay
  <2>3. ASSUME NEW id \in DOMAIN sent, id # c.id PROVE OnItsWay(id)' <=> OnItsWay(id)
    <3>1. id > NumRead' <=> id > NumRead
      BY <1>1, <1>3, <1>5, <2>3
    <3>. QED  BY <1>10, <3>1 DEF OnItsWay
  <2>4. SameChanges
    BY <1>10 DEF SameChanges
  <2>5. Taken(c)
    BY <1>10, <2>2, <2>3, <2>4 DEF Taken
  <2>. QED  BY <1>8, <1>9, <2>1, <2>5 DEF QueueInv
<1>11. CASE /\ waiting' = Append(waiting, [NewChange EXCEPT !.time = CountDown(@)])
            /\ UNCHANGED <<wrappers, applied, gone>>
  <2>1. PICK d : d = [NewChange EXCEPT !.time = CountDown(@)]
    OBVIOUS
  <2>2. d \in WaitingChange /\ d.id = c.id
    BY <1>0, <1>4, <2>1, NewChangeTyped
  <2>3. /\ DOMAIN waiting' = 1 .. L + 1
        /\ \A i \in 1 .. L : waiting'[i] = waiting[i]
        /\ waiting'[L + 1] = d
    <3>1. waiting \in Seq(WaitingChange)
      BY <1>0 DEF Typed
    <3>. QED  BY <1>11, <2>1, <2>2, <3>1, AppendProperties, LenProperties
  <2>. HIDE DEF L
  <2>4. QueueInOrder'
    <3>1. ASSUME NEW i \in DOMAIN waiting' PROVE waiting'[i].id <= NumRead'
      <4>1. CASE i = L + 1
        BY <1>1, <1>3, <1>5, <2>2, <2>3, <4>1
      <4>2. CASE i # L + 1
        <5>1. i \in 1 .. L
          BY <1>1, <2>3, <4>2
        <5>2. waiting[i].id <= NumRead /\ waiting[i].id \in Nat
          BY <1>6, <5>1
        <5>. QED  BY <1>1, <1>3, <2>3, <5>1, <5>2
      <4>. QED  BY <4>1, <4>2
    <3>2. ASSUME NEW i \in DOMAIN waiting', NEW j \in DOMAIN waiting', i < j
          PROVE  waiting'[i].id < waiting'[j].id
      <4>1. i \in 1 .. L
        BY <1>1, <2>3, <3>2
      <4>2. CASE j = L + 1
        <5>1. waiting[i].id <= NumRead /\ waiting[i].id \in Nat
          BY <1>6, <4>1
        <5>. QED  BY <1>1, <1>5, <2>2, <2>3, <4>1, <4>2, <5>1
      <4>3. CASE j # L + 1
        <5>1. j \in 1 .. L
          BY <1>1, <2>3, <4>3
        <5>. QED  BY <1>7, <2>3, <3>2, <4>1, <5>1
      <4>. QED  BY <4>2, <4>3
    <3>3. \A i, j : ~ Turned(i, j)'
      BY <1>2 DEF Turned
    <3>. QED  BY <3>1, <3>2, <3>3 DEF QueueInOrder
  <2>5. ASSUME NEW id \in DOMAIN sent PROVE OnItsWay(id)' <=> OnItsWay(id)
    <3>1. CASE id = c.id
      <4>1. OnItsWay(id)
        BY <1>1, <1>5, <3>1 DEF OnItsWay
      <4>2. L + 1 \in DOMAIN waiting' /\ waiting'[L + 1].id = id
        BY <1>1, <2>2, <2>3, <3>1
      <4>. QED  BY <4>1, <4>2 DEF OnItsWay
    <3>2. CASE id # c.id
      <4>1. id > NumRead' <=> id > NumRead
        BY <1>1, <1>3, <1>5, <3>2
      <4>2. (\E i \in DOMAIN waiting' : waiting'[i].id = id)
              <=> (\E i \in DOMAIN waiting : waiting[i].id = id)
        <5>1. ASSUME NEW i \in DOMAIN waiting', waiting'[i].id = id
              PROVE  i \in DOMAIN waiting /\ waiting[i].id = id
          <6>1. i # L + 1
            BY <2>2, <2>3, <3>2, <5>1
          <6>2. i \in 1 .. L
            BY <1>1, <2>3, <5>1, <6>1
          <6>. QED  BY <1>1, <2>3, <5>1, <6>2
        <5>2. ASSUME NEW i \in DOMAIN waiting, waiting[i].id = id
              PROVE  i \in DOMAIN waiting' /\ waiting'[i].id = id
          <6>1. i \in 1 .. L /\ i \in 1 .. L + 1
            BY <1>1
          <6>. QED  BY <2>3, <5>2, <6>1
        <5>. QED  BY <5>1, <5>2
      <4>. QED  BY <4>1, <4>2 DEF OnItsWay
    <3>. QED  BY <3>1, <3>2
  <2>6. ASSUME NEW w \in DOMAIN waiting'
        PROVE  \/ waiting'[w].id > NumRead
               \/ \E v \in DOMAIN waiting :
                    waiting'[w].id = waiting[v].id /\ waiting'[w].received = waiting[v].received
    <3>1. CASE w = L + 1
      BY <1>1, <1>5, <2>2, <2>3, <3>1
    <3>2. CASE w # L + 1
      <4>1. w \in 1 .. L
        BY <1>1, <2>3, <3>2
      <4>. QED  BY <1>1, <2>3, <4>1
    <3>. QED  BY <3>1, <3>2
  <2>7. PutBack
    BY <1>11, <2>5, <2>6 DEF PutBack
  <2>. QED  BY <1>8, <1>9, <2>4, <2>7 DEF QueueInv
<1>12. \/ /\ waiting' = waiting
          /\ \/ ApplyParameterChange(c)
             \/ Lose(c, DOMAIN Calls(c), "queue full") /\ UNCHANGED <<wrappers, applied>>
       \/ /\ waiting' = Append(waiting, [NewChange EXCEPT !.time = CountDown(@)])
          /\ UNCHANGED <<wrappers, applied, gone>>
  BY <1>4, Zenon DEF LookAtNew, Queued, NewChange, Unapplied
<1>. QED  BY <1>10, <1>11, <1>12

(* The chunk that was read is gone from the front of the ring.             *)
LEMMA UnreadRing ==
  ASSUME Typed, looked <= Len(ring), FreeSlots
  PROVE  /\ Len(ring') = Len(ring) - looked
         /\ \A i \in 1 .. Len(ring) - looked : ring'[i] = ring[looked + i]
<1>1. ring \in Seq(DOMAIN sent) /\ looked \in Nat /\ Len(ring) \in Nat
      /\ ring' = SubSeq(ring, looked + 1, Len(ring))
  BY LenProperties DEF FreeSlots, UnreadEvents, Typed
<1>2. PICK L \in Nat, m \in Nat : L = Len(ring) /\ m = looked + 1
  BY <1>1
<1>3. \A i \in m .. L : ring[i] \in DOMAIN sent
  <2>1. \A i \in m .. L : i \in 1 .. L
    BY <1>1, <1>2
  <2>. QED  BY <1>1, <1>2, <2>1, ElementOfSeq
<1>4. /\ Len(ring') = IF m <= L THEN L - m + 1 ELSE 0
      /\ \A i \in 1 .. L - m + 1 : ring'[i] = ring[m + i - 1]
  BY <1>1, <1>2, <1>3, SubSeqProperties
<1>5. m <= L + 1 /\ L - m + 1 = L - looked
  BY <1>1, <1>2
<1>6. Len(ring') = L - m + 1
  <2>1. CASE m <= L
    BY <1>4, <2>1
  <2>2. CASE ~ (m <= L)
    BY <1>2, <1>4, <1>5, <2>2
  <2>. QED  BY <2>1, <2>2
<1>7. \A i \in 1 .. L - looked : m + i - 1 = looked + i
  BY <1>1, <1>2
<1>. QED  BY <1>2, <1>4, <1>5, <1>6, <1>7

(* The steps that look at no change leave the queues in order.             *)
LEMMA QueueStep ==
  ASSUME ChangesInv, QueueInv, Next
  PROVE  QueueInv'
<1>0. Typed /\ LoopsBounded /\ Typed'
  BY TypedStep DEF ChangesInv
<1>1. /\ Len(sent) \in Nat /\ DOMAIN sent = 1 .. Len(sent)
      /\ Len(ring) \in Nat /\ DOMAIN ring = 1 .. Len(ring)
      /\ Len(waiting) \in Nat /\ DOMAIN waiting = 1 .. Len(waiting)
      /\ left \in Nat /\ looked \in Nat /\ looked <= Len(ring)
      /\ NumRead \in 0 .. Len(sent)
      /\ \A i \in DOMAIN waiting :
           waiting[i] \in WaitingChange /\ waiting[i].id \in DOMAIN sent
  BY <1>0, ReadTyped
<1>2. \A i \in DOMAIN waiting : waiting[i].id <= NumRead
  BY DEF QueueInv, QueueInOrder
<1>3. ASSUME UNCHANGED waiting, NumRead' = NumRead,
             \A i, j \in DOMAIN waiting : i < j => (Turned(i, j)' <=> Turned(i, j))
      PROVE  QueueInOrder'
  BY <1>2, <1>3 DEF QueueInv, QueueInOrder
<1>4. ASSUME NEW n \in Node, NEW p \in Parameter, NEW schedule \in Schedules,
             NEW parts \in Parts, Send(n, p, schedule, parts)
      PROVE  QueueInv'
  <2> DEFINE e == [node_key |-> n, parameter |-> p, time |-> schedule.time,
                   token |-> schedule.token, parts |-> parts, ahead |-> nodes[n] = "pushed"]
  <2>1. /\ sent' = Append(sent, e) /\ ring' = Append(ring, Len(sent) + 1)
        /\ UNCHANGED <<waiting, looked, left, phase>>
    BY <1>4 DEF Send
  <2>2. Len(sent') = Len(sent) + 1
    <3>1. sent \in Seq(Event \union {e}) /\ e \in Event \union {e}
      BY <1>0, SeqMonotonic DEF Typed
    <3>. HIDE DEF e
    <3>. QED  BY <2>1, <3>1, AppendProperties
  <2>3. /\ Len(ring') = Len(ring) + 1 /\ DOMAIN ring' = 1 .. Len(ring) + 1
        /\ \A i \in 1 .. Len(ring) : ring'[i] = ring[i]
        /\ ring'[Len(ring) + 1] = Len(sent) + 1
    <3>1. ring \in Seq(Nat) /\ Len(sent) + 1 \in Nat
      <4>1. DOMAIN sent \subseteq Nat
        BY <1>1
      <4>. QED  BY <1>0, <1>1, <4>1, SeqMonotonic DEF Typed
    <3>. QED  BY <2>1, <3>1, AppendProperties, LenProperties
  <2>4. RingInOrder'
    <3>1. Len(ring) <= Len(sent)
          /\ \A i \in 1 .. Len(ring) : ring[i] = Len(sent) - Len(ring) + i
      BY <1>1 DEF QueueInv, RingInOrder
    <3>2. ASSUME NEW i \in DOMAIN ring' PROVE ring'[i] = Len(sent') - Len(ring') + i
      <4>1. CASE i \in 1 .. Len(ring)
        BY <1>1, <2>2, <2>3, <3>1, <4>1
      <4>2. CASE i = Len(ring) + 1
        BY <1>1, <2>2, <2>3, <4>2
      <4>. QED  BY <1>1, <2>3, <4>1, <4>2
    <3>. QED  BY <1>1, <2>2, <2>3, <3>1, <3>2 DEF RingInOrder
  <2>5. NumRead' = NumRead
    BY <1>1, <2>1, <2>2, <2>3 DEF NumRead
  <2>6. QueueInOrder'
    BY <1>3, <2>1, <2>5 DEF Turned
  <2>. QED  BY <2>4, <2>6 DEF QueueInv
<1>5. CASE FreeSlots
  <2>1. /\ looked' = 0 /\ phase # "waiting" /\ phase' # "waiting"
        /\ UNCHANGED <<sent, waiting>>
    BY <1>5 DEF FreeSlots, control
  <2>2. /\ Len(ring') = Len(ring) - looked
        /\ \A i \in 1 .. Len(ring) - looked : ring'[i] = ring[looked + i]
    BY <1>0, <1>1, <1>5, UnreadRing
  <2>3. DOMAIN ring' = 1 .. Len(ring')
    BY <1>0, LenProperties DEF Typed
  <2>4. RingInOrder'
    <3>1. Len(ring) <= Len(sent)
          /\ \A i \in 1 .. Len(ring) : ring[i] = Len(sent) - Len(ring) + i
      BY <1>1 DEF QueueInv, RingInOrder
    <3>2. ASSUME NEW i \in DOMAIN ring' PROVE ring'[i] = Len(sent') - Len(ring') + i
      <4>1. i \in 1 .. Len(ring) - looked /\ looked + i \in 1 .. Len(ring)
        BY <1>1, <2>2, <2>3
      <4>2. ring[looked + i] = Len(sent) - Len(ring) + (looked + i)
        BY <3>1, <4>1
      <4>. QED  BY <1>1, <2>1, <2>2, <4>1, <4>2
    <3>3. Len(ring') <= Len(sent')
      BY <1>1, <2>1, <2>2, <3>1
    <3>. QED  BY <3>2, <3>3 DEF RingInOrder
  <2>5. NumRead' = NumRead
    BY <1>1, <2>1, <2>2 DEF NumRead
  <2>6. QueueInOrder'
    BY <1>3, <2>1, <2>5 DEF Turned
  <2>. QED  BY <2>4, <2>6 DEF QueueInv
<1>6. CASE BeginBlock
  <2>1. /\ phase = "idle" /\ phase' = "waiting" /\ left' = Len(waiting)
        /\ UNCHANGED <<sent, ring, looked, waiting>>
    BY <1>6 DEF BeginBlock, control
  <2>2. \A i, j \in DOMAIN waiting : i < j => ~ Turned(i, j)' /\ ~ Turned(i, j)
    BY <1>1, <2>1 DEF Turned
  <2>3. NumRead' = NumRead
    BY <2>1 DEF NumRead
  <2>4. QueueInOrder'
    BY <1>3, <2>1, <2>2, <2>3
  <2>. QED  BY <2>1, <2>4 DEF QueueInv, RingInOrder
<1>7. CASE TakeSlots
  <2>1. /\ phase = "waiting" /\ left = 0 /\ phase' = "new" /\ looked' = 0
        /\ UNCHANGED <<sent, ring, waiting>>
    BY <1>7 DEF TakeSlots, control
  <2>2. looked = 0
    BY <1>0, <2>1 DEF LoopsBounded
  <2>3. \A i, j \in DOMAIN waiting : i < j => ~ Turned(i, j)' /\ ~ Turned(i, j)
    BY <1>1, <2>1 DEF Turned
  <2>4. NumRead' = NumRead
    BY <2>1, <2>2 DEF NumRead
  <2>5. QueueInOrder'
    BY <1>3, <2>1, <2>3, <2>4
  <2>. QED  BY <2>1, <2>5 DEF QueueInv, RingInOrder
<1>8. ASSUME UNCHANGED <<sent, ring, looked, waiting>>, phase # "waiting", phase' # "waiting"
      PROVE  QueueInv'
  BY <1>3, <1>8 DEF QueueInv, RingInOrder, Turned, NumRead
<1>9. ASSUME NEW n \in Node, Commit(n) PROVE QueueInv'
  <2>1. UNCHANGED <<sent, ring, looked, waiting, phase, left>>
    BY <1>9 DEF Commit
  <2>. QED  BY <1>3, <2>1 DEF QueueInv, RingInOrder, Turned, NumRead
<1>10. ASSUME NEW tokens \in SUBSET Token, RunTasks(tokens) PROVE QueueInv'
  BY <1>8, <1>10 DEF RunTasks, control
<1>. QED  BY <1>4, <1>5, <1>6, <1>7, <1>9, <1>10, LookAtWaitingInTurn, LookAtNewInTurn DEF Next

(* Whether an event is on its way changes only when it is looked at.       *)
LEMMA OnItsWayStays ==
  ASSUME ChangesInv, QueueInv, Next, ~ (LookAtWaiting \/ LookAtNew),
         NEW id \in DOMAIN sent
  PROVE  OnItsWay(id)' <=> OnItsWay(id)
<1>0. Typed /\ LoopsBounded /\ Typed'
  BY TypedStep DEF ChangesInv
<1>1. /\ Len(sent) \in Nat /\ Len(ring) \in Nat /\ looked \in Nat /\ looked <= Len(ring)
  BY <1>0, ReadTyped
<1>2. waiting' = waiting /\ NumRead' = NumRead
  <2>1. ASSUME NEW n \in Node, NEW p \in Parameter, NEW schedule \in Schedules,
               NEW parts \in Parts, Send(n, p, schedule, parts)
        PROVE  waiting' = waiting /\ NumRead' = NumRead
    <3> DEFINE e == [node_key |-> n, parameter |-> p, time |-> schedule.time,
                     token |-> schedule.token, parts |-> parts, ahead |-> nodes[n] = "pushed"]
    <3>1. /\ sent' = Append(sent, e) /\ ring' = Append(ring, Len(sent) + 1)
          /\ UNCHANGED <<waiting, looked>>
      BY <2>1 DEF Send
    <3>2. Len(sent') = Len(sent) + 1
      <4>1. sent \in Seq(Event \union {e}) /\ e \in Event \union {e}
        BY <1>0, SeqMonotonic DEF Typed
      <4>. HIDE DEF e
      <4>. QED  BY <3>1, <4>1, AppendProperties
    <3>3. Len(ring') = Len(ring) + 1
      <4>1. ring \in Seq(Nat) /\ Len(sent) + 1 \in Nat
        <5>1. DOMAIN sent \subseteq Nat
          BY <1>0, LenProperties DEF Typed
        <5>. QED  BY <1>0, <1>1, <5>1, SeqMonotonic DEF Typed
      <4>. QED  BY <3>1, <4>1, AppendProperties
    <3>. QED  BY <1>1, <3>1, <3>2, <3>3 DEF NumRead
  <2>2. CASE FreeSlots
    <3>1. looked' = 0 /\ UNCHANGED <<sent, waiting>>
      BY <2>2 DEF FreeSlots, control
    <3>4. Len(ring') = Len(ring) - looked
      BY <1>0, <1>1, <2>2, UnreadRing
    <3>. QED  BY <1>1, <3>1, <3>4 DEF NumRead
  <2>3. CASE TakeSlots
    <3>1. phase = "waiting" /\ looked' = 0 /\ UNCHANGED <<sent, ring, waiting>>
      BY <2>3 DEF TakeSlots, control
    <3>2. looked = 0
      BY <1>0, <3>1 DEF LoopsBounded
    <3>. QED  BY <3>1, <3>2 DEF NumRead
  <2>4. CASE UNCHANGED <<sent, ring, looked, waiting>>
    BY <2>4 DEF NumRead
  <2>5. ASSUME NEW n \in Node, Commit(n) PROVE UNCHANGED <<sent, ring, looked, waiting>>
    BY <2>5 DEF Commit
  <2>6. ASSUME NEW tokens \in SUBSET Token, RunTasks(tokens)
        PROVE  UNCHANGED <<sent, ring, looked, waiting>>
    BY <2>6 DEF RunTasks, control
  <2>7. ASSUME BeginBlock PROVE UNCHANGED <<sent, ring, looked, waiting>>
    BY <2>7 DEF BeginBlock, control
  <2>. QED  BY <2>1, <2>2, <2>3, <2>4, <2>5, <2>6, <2>7 DEF Next
<1>. QED  BY <1>2 DEF OnItsWay

-----------------------------------------------------------------------------
(* The calls of one event differ.                                          *)
LEMMA PartsDiffer ==
  ASSUME Typed, NEW c, c.id \in DOMAIN sent, c.received \in Nat,
         NEW i \in DOMAIN Calls(c), NEW j \in DOMAIN Calls(c), i # j
  PROVE  Calls(c)[i].part # Calls(c)[j].part
<1>1. /\ sent[c.id] \in Event /\ DOMAIN Calls(c) = DOMAIN sent[c.id].parts
      /\ \A k \in DOMAIN Calls(c) : Calls(c)[k].part = sent[c.id].parts[k]
  BY CallsOfChange
<1>2. PICK parts : parts = sent[c.id].parts
  OBVIOUS
<1>3. parts \in {<<"value">>, <<"smoothing">>, <<"smoothing", "value">>}
  BY <1>1, <1>2, ChangesAssumption DEF Event
<1>4. i \in DOMAIN parts /\ j \in DOMAIN parts
  BY <1>1, <1>2
<1>5. parts[i] # parts[j]
  <2>1. CASE parts = <<"value">>
    BY <1>4, <2>1
  <2>2. CASE parts = <<"smoothing">>
    BY <1>4, <2>2
  <2>3. CASE parts = <<"smoothing", "value">>
    <3>1. i \in 1 .. 2 /\ j \in 1 .. 2
      BY <1>4, <2>3
    <3>2. (i = 1 /\ j = 2) \/ (i = 2 /\ j = 1)
      BY <3>1
    <3>. QED  BY <2>3, <3>2
  <2>. QED  BY <1>3, <2>1, <2>2, <2>3
<1>. QED  BY <1>1, <1>2, <1>5

(* t is s with m more at the end.                                          *)
Grows(s, t, m) ==
  /\ Len(s) \in Nat /\ m \in Nat
  /\ DOMAIN s = 1 .. Len(s) /\ DOMAIN t = 1 .. Len(s) + m
  /\ \A k \in 1 .. Len(s) : t[k] = s[k]

LEMMA GrownPlaces ==
  ASSUME NEW s, NEW t, NEW m, Grows(s, t, m)
  PROVE  /\ \A k \in DOMAIN t :
              \/ k \in DOMAIN s /\ t[k] = s[k]
              \/ k \notin DOMAIN s /\ \E j \in 1 .. m : k = Len(s) + j
         /\ \A k \in DOMAIN s : k \in DOMAIN t /\ t[k] = s[k]
         /\ \A j \in 1 .. m : Len(s) + j \in DOMAIN t /\ Len(s) + j \notin DOMAIN s
<1>1. ASSUME NEW k \in DOMAIN t, k \notin DOMAIN s PROVE \E j \in 1 .. m : k = Len(s) + j
  <2>1. k - Len(s) \in 1 .. m /\ k = Len(s) + (k - Len(s))
    BY <1>1 DEF Grows
  <2>. QED  BY <2>1
<1>2. \A k \in DOMAIN s : k \in DOMAIN t /\ t[k] = s[k]
  BY DEF Grows
<1>3. \A j \in 1 .. m : Len(s) + j \in DOMAIN t /\ Len(s) + j \notin DOMAIN s
  BY DEF Grows
<1>. QED  BY <1>1, <1>2, <1>3

(* What a step adds to the calls of a node, and what it leaves.            *)
MadeFor(n, c) ==
  /\ UNCHANGED <<waiting_changes, gone>>
  /\ \A m \in Node \ {n} : applied'[m] = applied[m]
  /\ Grows(applied[n], applied'[n], Len(Calls(c)))
  /\ \A k \in 1 .. Len(Calls(c)) : applied'[n][Len(applied[n]) + k].call = Calls(c)[k]

KeptFor(n, c, kept) ==
  /\ UNCHANGED applied
  /\ \A m \in Node \ {n} : waiting_changes'[m] = waiting_changes[m]
  /\ Grows(waiting_changes[n], waiting_changes'[n], kept)
  /\ \A k \in 1 .. kept :
       waiting_changes'[n][Len(waiting_changes[n]) + k].call = Calls(c)[k]
  /\ gone' = gone \union {[call |-> Calls(c)[k], why |-> "no slot", frame |-> frame_clock] :
                            k \in kept + 1 .. Len(Calls(c))}

LEMMA MadeForIt ==
  ASSUME TypeOK, NEW c \in WaitingChange, NEW n \in Node, ApplyNow(n, c)
  PROVE  MadeFor(n, c)
<1>1. c.id \in DOMAIN sent /\ c.received \in Nat /\ Typed
  BY TypeOKTyped DEF WaitingChange
<1>2. /\ applied' \in [Node -> Seq([call : Call, frame : Nat])]
      /\ \A m \in Node \ {n} : applied'[m] = applied[m]
      /\ Len(applied'[n]) = Len(applied[n]) + Len(Calls(c))
      /\ \A k \in 1 .. Len(applied[n]) : applied'[n][k] = applied[n][k]
      /\ \A k \in 1 .. Len(Calls(c)) :
           applied'[n][Len(applied[n]) + k] = [call |-> Calls(c)[k], frame |-> frame_clock]
      /\ waiting_changes' = waiting_changes /\ gone' = gone
  BY <1>1, MadeNow
<1>3. Len(Calls(c)) \in Nat
  BY <1>1, CallsOfChange
<1>4. Len(applied[n]) \in Nat /\ DOMAIN applied[n] = 1 .. Len(applied[n])
  BY CallsMadeTyped
<1>5. DOMAIN applied'[n] = 1 .. Len(applied'[n])
  BY <1>2, LenProperties
<1>6. Grows(applied[n], applied'[n], Len(Calls(c)))
  BY <1>2, <1>3, <1>4, <1>5 DEF Grows
<1>7. ASSUME NEW k \in 1 .. Len(Calls(c))
      PROVE  applied'[n][Len(applied[n]) + k].call = Calls(c)[k]
  <2>1. PICK call : call = Calls(c)[k]
    OBVIOUS
  <2>2. applied'[n][Len(applied[n]) + k] = [call |-> call, frame |-> frame_clock]
    BY <1>2, <2>1
  <2>. QED  BY <2>1, <2>2
<1>. QED  BY <1>2, <1>6, <1>7, Zenon DEF MadeFor

LEMMA KeptForIt ==
  ASSUME TypeOK, NEW c \in WaitingChange, NEW n \in Node, NEW delay \in 1 .. BlockSize - 1,
         ApplyLater(n, c, delay)
  PROVE  \E kept \in 0 .. Len(Calls(c)) : KeptFor(n, c, kept)
<1>1. c.id \in DOMAIN sent /\ c.received \in Nat /\ Typed
  BY TypeOKTyped DEF WaitingChange
<1>2. /\ waiting_changes' \in [Node -> Seq([call : Call, delay : 1 .. BlockSize - 1])]
      /\ \A m \in Node \ {n} : waiting_changes'[m] = waiting_changes[m]
      /\ \A k \in 1 .. Len(waiting_changes[n]) : waiting_changes'[n][k] = waiting_changes[n][k]
      /\ \E kept \in 0 .. Len(Calls(c)) : KeptCalls(n, c, delay, kept)
      /\ applied' = applied
  BY <1>1, MadeLater
<1>3. PICK kept \in 0 .. Len(Calls(c)) : KeptCalls(n, c, delay, kept)
  BY <1>2
<1>4. /\ Len(waiting_changes'[n]) = Len(waiting_changes[n]) + kept
      /\ \A k \in 1 .. kept :
           waiting_changes'[n][Len(waiting_changes[n]) + k] = [call |-> Calls(c)[k], delay |-> delay]
      /\ gone' = gone \union {[call |-> Calls(c)[k], why |-> "no slot", frame |-> frame_clock] :
                                k \in kept + 1 .. Len(Calls(c))}
  BY <1>3, Zenon DEF KeptCalls
<1>5. Len(waiting_changes[n]) \in Nat /\ DOMAIN waiting_changes[n] = 1 .. Len(waiting_changes[n])
  BY CallsMadeTyped
<1>6. DOMAIN waiting_changes'[n] = 1 .. Len(waiting_changes'[n])
  BY <1>2, LenProperties
<1>7. kept \in Nat
  <2>1. Len(Calls(c)) \in Nat
    BY <1>1, CallsOfChange
  <2>. QED  BY <1>3, <2>1
<1>8. Grows(waiting_changes[n], waiting_changes'[n], kept)
  BY <1>2, <1>4, <1>5, <1>6, <1>7 DEF Grows
<1>9. ASSUME NEW k \in 1 .. kept
      PROVE  waiting_changes'[n][Len(waiting_changes[n]) + k].call = Calls(c)[k]
  <2>1. PICK call : call = Calls(c)[k]
    OBVIOUS
  <2>2. waiting_changes'[n][Len(waiting_changes[n]) + k] = [call |-> call, delay |-> delay]
    BY <1>4, <2>1
  <2>. QED  BY <2>1, <2>2
<1>10. KeptFor(n, c, kept)
  BY <1>2, <1>4, <1>8, <1>9, Zenon DEF KeptFor
<1>. QED  BY <1>3, <1>10

(* The delayed calls of a node that runs come after those that were made.  *)
LEMMA RunsDelayed ==
  ASSUME TypeOK, TypeOK', DelaysKept, NEW tokens, RunTasks(tokens), NEW n \in Node
  PROVE  /\ Grows(applied[n], applied'[n], Len(waiting_changes[n]))
         /\ \A k \in 1 .. Len(waiting_changes[n]) :
              applied'[n][Len(applied[n]) + k].call = waiting_changes[n][k].call
         /\ DOMAIN waiting_changes'[n] = {}
<1>1. /\ applied'[n] = IF n \in tasks THEN applied[n] \o DelayedCalls(n) ELSE applied[n]
      /\ waiting_changes'[n] = IF n \in tasks THEN <<>> ELSE waiting_changes[n]
  BY DEF RunTasks
<1> DEFINE A == applied[n]
           W == waiting_changes[n]
           D == DelayedCalls(n)
           S == [call : Call, frame : Nat]
<1>2. /\ A \in Seq(S) /\ Len(A) \in Nat /\ DOMAIN A = 1 .. Len(A)
      /\ D \in Seq(S) /\ Len(D) = Len(W) /\ Len(W) \in Nat /\ DOMAIN W = 1 .. Len(W)
      /\ \A j \in 1 .. Len(W) : D[j].call = W[j].call
  BY CallsMadeTyped, DelayedCallsTyped DEF TypeOK
<1>3. n \notin tasks => DOMAIN W = {}
  BY DEF DelaysKept
<1>4. DOMAIN waiting_changes'[n] = {}
  <2>1. DOMAIN <<>> = {}
    BY EmptySeq
  <2>. QED  BY <1>1, <1>3, <2>1
<1>. HIDE DEF A, W, D, S
<1>5. CASE n \in tasks
  <2>1. applied'[n] = A \o D
    BY <1>1, <1>5 DEF A, D
  <2>2. /\ A \o D \in Seq(S) /\ Len(A \o D) = Len(A) + Len(D)
        /\ \A i \in 1 .. Len(A) + Len(D) : (A \o D)[i] = IF i <= Len(A) THEN A[i] ELSE D[i - Len(A)]
    <3>1. A \in Seq(S) /\ D \in Seq(S)
      BY <1>2
    <3>. QED  BY <3>1, ConcatProperties
  <2>3. DOMAIN (A \o D) = 1 .. Len(A) + Len(W)
    BY <1>2, <2>2, LenProperties
  <2>4. Grows(A, applied'[n], Len(W))
    <3>1. \A k \in 1 .. Len(A) : k \in 1 .. Len(A) + Len(D) /\ k <= Len(A)
      BY <1>2
    <3>. QED  BY <1>2, <2>1, <2>2, <2>3, <3>1 DEF Grows
  <2>5. ASSUME NEW k \in 1 .. Len(W) PROVE applied'[n][Len(A) + k].call = W[k].call
    <3>1. Len(A) + k \in 1 .. Len(A) + Len(D) /\ ~ (Len(A) + k <= Len(A)) /\ Len(A) + k - Len(A) = k
      BY <1>2
    <3>. QED  BY <1>2, <2>1, <2>2, <3>1
  <2>. QED  BY <1>4, <2>4, <2>5 DEF A, W
<1>6. CASE n \notin tasks
  <2>1. applied'[n] = A /\ Len(W) = 0
    <3>1. Len(W) # 0 => 1 \in DOMAIN W
      BY <1>2
    <3>. QED  BY <1>1, <1>3, <1>6, <3>1 DEF A
  <2>2. Grows(A, applied'[n], Len(W))
    BY <1>2, <2>1 DEF Grows
  <2>. QED  BY <1>4, <2>1, <2>2 DEF A, W
<1>. QED  BY <1>5, <1>6

-----------------------------------------------------------------------------
LEMMA TargetTyped ==
  ASSUME Typed, NEW id \in DOMAIN sent
  PROVE  sent[id].node_key \in Node /\ sent[id].parameter \in Parameter
<1>1. sent[id] \in Event
  BY LenProperties, ElementOfSeq DEF Typed
<1>. QED  BY <1>1 DEF Event

LEMMA SamePlace ==
  ASSUME SentGrows, NEW id \in DOMAIN sent, InPlace(id), OnItsWay(id)' <=> OnItsWay(id),
         NoCallsYet(id) => NoCallsYet(id)',
         \A part : InOnePlace(id, part) => InOnePlace(id, part)'
  PROVE  InPlace(id)'
<1>1. sent'[id] = sent[id]
  BY DEF SentGrows
<1>2. CASE OnItsWay(id)
  BY <1>2 DEF InPlace
<1>3. CASE ~ OnItsWay(id)
  <2>1. PartsOf(id)' = PartsOf(id)
    BY <1>1 DEF PartsOf
  <2>. QED  BY <1>3, <2>1 DEF InPlace
<1>. QED  BY <1>2, <1>3

LEMMA SameSets ==
  ASSUME NEW id, NEW part, InOnePlace(id, part),
         Made(id, part)' = Made(id, part), InSlots(id, part)' = InSlots(id, part),
         GivenUp(id, part)' = GivenUp(id, part)
  PROVE  InOnePlace(id, part)'
BY DEF InOnePlace, OnlyOne

(* The event becomes calls that are made at once.                          *)
LEMMA PlacesMade ==
  ASSUME TypeOK, PlacesInv, sent' = sent, NEW c \in WaitingChange, OnItsWay(c.id),
         NEW n \in Node, n = sent[c.id].node_key, MadeFor(n, c), ~ OnItsWay(c.id)',
         \A id \in DOMAIN sent : id # c.id => (OnItsWay(id)' <=> OnItsWay(id))
  PROVE  PlacesInv'
<1> DEFINE N == Len(Calls(c))
           L == Len(applied[n])
<1>1. /\ UNCHANGED <<waiting_changes, gone>>
      /\ \A m \in Node \ {n} : applied'[m] = applied[m]
      /\ Grows(applied[n], applied'[n], N)
      /\ \A k \in 1 .. N : applied'[n][L + k].call = Calls(c)[k]
  BY DEF MadeFor
<1>2. c.id \in DOMAIN sent /\ c.received \in Nat /\ Typed
  BY TypeOKTyped DEF WaitingChange
<1>3. /\ DOMAIN Calls(c) = 1 .. N /\ DOMAIN Calls(c) = DOMAIN sent[c.id].parts
      /\ \A k \in DOMAIN Calls(c) : Calls(c)[k].id = c.id /\ Calls(c)[k].part = sent[c.id].parts[k]
  BY <1>2, CallsOfChange
<1>4. /\ \A k \in DOMAIN applied'[n] :
           \/ k \in DOMAIN applied[n] /\ applied'[n][k] = applied[n][k]
           \/ k \notin DOMAIN applied[n] /\ \E j \in 1 .. N : k = L + j
      /\ \A k \in DOMAIN applied[n] : k \in DOMAIN applied'[n] /\ applied'[n][k] = applied[n][k]
      /\ \A j \in 1 .. N : L + j \in DOMAIN applied'[n] /\ L + j \notin DOMAIN applied[n]
  <2>. HIDE DEF N, L
  <2>1. PICK s, t, l : s = applied[n] /\ t = applied'[n] /\ l = L
    OBVIOUS
  <2>2. Grows(s, t, N) /\ Len(s) = l
    BY <1>1, <2>1 DEF L
  <2>. QED  BY <2>1, <2>2, GrownPlaces
<1>. HIDE DEF N, L
<1>5. ASSUME NEW m \in Node, NEW k \in DOMAIN applied'[m]
      PROVE  \/ k \in DOMAIN applied[m] /\ applied'[m][k] = applied[m][k]
             \/ /\ m = n /\ k \notin DOMAIN applied[m]
                /\ \E j \in 1 .. N : k = L + j /\ applied'[m][k].call = Calls(c)[j]
  BY <1>1, <1>4, <1>5
<1>6. \A m \in Node : \A k \in DOMAIN applied[m] : k \in DOMAIN applied'[m] /\ applied'[m][k] = applied[m][k]
  BY <1>1, <1>4
<1>7. SentGrows
  BY DEF SentGrows
<1>8. ASSUME NEW id \in DOMAIN sent, id # c.id PROVE InPlace(id)'
  <2>1. ASSUME NEW m \in Node, NEW k \in DOMAIN applied'[m], applied'[m][k].call.id = id
        PROVE  k \in DOMAIN applied[m] /\ applied'[m][k] = applied[m][k]
    BY <1>3, <1>5, <1>8, <2>1
  <2>2. NoCallsYet(id) => NoCallsYet(id)'
    BY <1>1, <2>1 DEF NoCallsYet
  <2>3. ASSUME NEW part, InOnePlace(id, part) PROVE InOnePlace(id, part)'
    <3>0. sent[id].node_key \in Node
      BY <1>2, TargetTyped
    <3>1. Made(id, part)' = Made(id, part)
      BY <1>6, <2>1, <3>0 DEF Made
    <3>2. InSlots(id, part)' = InSlots(id, part) /\ GivenUp(id, part)' = GivenUp(id, part)
      BY <1>1 DEF InSlots, GivenUp
    <3>. QED  BY <2>3, <3>1, <3>2, SameSets
  <2>4. InPlace(id) /\ (OnItsWay(id)' <=> OnItsWay(id))
    BY <1>8 DEF PlacesInv
  <2>. QED  BY <1>7, <2>2, <2>3, <2>4, SamePlace
<1>9. InPlace(c.id)'
  <2>1. NoCallsYet(c.id)
    BY <1>2 DEF PlacesInv, InPlace
  <2>2. ASSUME NEW j \in 1 .. N, NEW part, part = sent[c.id].parts[j] PROVE InOnePlace(c.id, part)'
    <3>1. Made(c.id, part)' = {L + j}
      <4>1. ASSUME NEW k \in DOMAIN applied'[n], applied'[n][k].call.id = c.id,
                   applied'[n][k].call.part = part
            PROVE  k = L + j
        <5>1. ~ (k \in DOMAIN applied[n] /\ applied'[n][k] = applied[n][k])
          BY <2>1, <4>1 DEF NoCallsYet
        <5>2. PICK i \in 1 .. N : k = L + i /\ applied'[n][k].call = Calls(c)[i]
          BY <1>5, <5>1
        <5>3. Calls(c)[i].part = Calls(c)[j].part
          BY <1>3, <2>2, <4>1, <5>2
        <5>4. i = j
          BY <1>2, <1>3, <5>3, PartsDiffer
        <5>. QED  BY <5>2, <5>4
      <4>2. /\ L + j \in DOMAIN applied'[n]
            /\ applied'[n][L + j].call.id = c.id /\ applied'[n][L + j].call.part = part
        BY <1>1, <1>3, <1>4, <2>2
      <4>. QED  BY <4>1, <4>2 DEF Made
    <3>2. InSlots(c.id, part)' = {} /\ GivenUp(c.id, part)' = {}
      BY <1>1, <2>1 DEF NoCallsYet, InSlots, GivenUp
    <3>3. PICK x : x = L + j
      OBVIOUS
    <3>4. Made(c.id, part)' = {x} /\ x \in Made(c.id, part)'
      BY <3>1, <3>3
    <3>. QED  BY <3>2, <3>4 DEF InOnePlace, OnlyOne
  <2>3. ASSUME NEW part \in PartsOf(c.id)' PROVE InOnePlace(c.id, part)'
    <3>1. PICK j \in 1 .. N : part = sent[c.id].parts[j]
      BY <1>3 DEF PartsOf
    <3>. QED  BY <2>2, <3>1
  <2>. QED  BY <2>3 DEF InPlace
<1>. QED  BY <1>8, <1>9 DEF PlacesInv

(* The event becomes calls for which there is a slot, and others that are  *)
(* given up.                                                               *)
LEMMA PlacesKept ==
  ASSUME TypeOK, PlacesInv, sent' = sent, NEW c \in WaitingChange, OnItsWay(c.id),
         NEW n \in Node, n = sent[c.id].node_key,
         NEW kept \in 0 .. Len(Calls(c)), KeptFor(n, c, kept), ~ OnItsWay(c.id)',
         \A id \in DOMAIN sent : id # c.id => (OnItsWay(id)' <=> OnItsWay(id))
  PROVE  PlacesInv'
<1> DEFINE N == Len(Calls(c))
           L == Len(waiting_changes[n])
           given(k) == [call |-> Calls(c)[k], why |-> "no slot", frame |-> frame_clock]
<1>1. /\ UNCHANGED applied
      /\ \A m \in Node \ {n} : waiting_changes'[m] = waiting_changes[m]
      /\ Grows(waiting_changes[n], waiting_changes'[n], kept)
      /\ \A k \in 1 .. kept : waiting_changes'[n][L + k].call = Calls(c)[k]
  BY Zenon DEF KeptFor
<1>0. gone' = gone \union {given(k) : k \in kept + 1 .. N}
  BY Zenon DEF KeptFor
<1>2. c.id \in DOMAIN sent /\ c.received \in Nat /\ Typed
  BY TypeOKTyped DEF WaitingChange
<1>3. /\ DOMAIN Calls(c) = 1 .. N /\ DOMAIN Calls(c) = DOMAIN sent[c.id].parts /\ N \in Nat
      /\ \A k \in DOMAIN Calls(c) : Calls(c)[k].id = c.id /\ Calls(c)[k].part = sent[c.id].parts[k]
  BY <1>2, CallsOfChange
<1>4. /\ \A k \in DOMAIN waiting_changes'[n] :
           \/ k \in DOMAIN waiting_changes[n] /\ waiting_changes'[n][k] = waiting_changes[n][k]
           \/ k \notin DOMAIN waiting_changes[n] /\ \E j \in 1 .. kept : k = L + j
      /\ \A k \in DOMAIN waiting_changes[n] :
           k \in DOMAIN waiting_changes'[n] /\ waiting_changes'[n][k] = waiting_changes[n][k]
      /\ \A j \in 1 .. kept : L + j \in DOMAIN waiting_changes'[n] /\ L + j \notin DOMAIN waiting_changes[n]
  <2>. HIDE DEF N, L
  <2>1. PICK s, t, l : s = waiting_changes[n] /\ t = waiting_changes'[n] /\ l = L
    OBVIOUS
  <2>2. Grows(s, t, kept)
    BY <1>1, <2>1, Zenon
  <2>3. Len(s) = l
    BY <2>1 DEF L
  <2>4. /\ \A k \in DOMAIN t :
              \/ k \in DOMAIN s /\ t[k] = s[k]
              \/ k \notin DOMAIN s /\ \E j \in 1 .. kept : k = Len(s) + j
        /\ \A k \in DOMAIN s : k \in DOMAIN t /\ t[k] = s[k]
        /\ \A j \in 1 .. kept : Len(s) + j \in DOMAIN t /\ Len(s) + j \notin DOMAIN s
    BY <2>2, GrownPlaces
  <2>. QED  BY <2>1, <2>3, <2>4
<1>5. /\ \A k : given(k).call = Calls(c)[k]
      /\ \A k \in 1 .. kept : k \in 1 .. N
      /\ \A k \in kept + 1 .. N : k \in 1 .. N
      /\ \A k \in 1 .. N : k \in 1 .. kept \/ k \in kept + 1 .. N
      /\ \A k \in 1 .. kept : k \notin kept + 1 .. N
  <2>1. \A k : given(k).call = Calls(c)[k]
    OBVIOUS
  <2>2. /\ \A k \in 1 .. kept : k \in 1 .. N
        /\ \A k \in kept + 1 .. N : k \in 1 .. N
        /\ \A k \in 1 .. N : k \in 1 .. kept \/ k \in kept + 1 .. N
        /\ \A k \in 1 .. kept : k \notin kept + 1 .. N
    BY <1>3
  <2>. QED  BY <2>1, <2>2
<1>. HIDE DEF N, L, given
<1>6. ASSUME NEW m \in Node, NEW k \in DOMAIN waiting_changes'[m]
      PROVE  \/ k \in DOMAIN waiting_changes[m] /\ waiting_changes'[m][k] = waiting_changes[m][k]
             \/ /\ m = n /\ k \notin DOMAIN waiting_changes[m]
                /\ \E j \in 1 .. kept : k = L + j /\ waiting_changes'[m][k].call = Calls(c)[j]
  BY <1>1, <1>4, <1>6
<1>7. \A m \in Node : \A k \in DOMAIN waiting_changes[m] :
        k \in DOMAIN waiting_changes'[m] /\ waiting_changes'[m][k] = waiting_changes[m][k]
  BY <1>1, <1>4
<1>8. \A g \in gone' : g \in gone \/ \E k \in kept + 1 .. N : g = given(k) /\ g.call = Calls(c)[k]
  BY <1>0, <1>5
<1>9. SentGrows
  BY DEF SentGrows
<1>10. ASSUME NEW id \in DOMAIN sent, id # c.id PROVE InPlace(id)'
  <2>1. ASSUME NEW m \in Node, NEW k \in DOMAIN waiting_changes'[m], waiting_changes'[m][k].call.id = id
        PROVE  k \in DOMAIN waiting_changes[m] /\ waiting_changes'[m][k] = waiting_changes[m][k]
    BY <1>3, <1>5, <1>6, <1>10, <2>1
  <2>2. \A g \in gone' : g.call.id = id => g \in gone
    BY <1>3, <1>5, <1>8, <1>10
  <2>3. NoCallsYet(id) => NoCallsYet(id)'
    BY <1>1, <2>1, <2>2 DEF NoCallsYet
  <2>4. ASSUME NEW part, InOnePlace(id, part) PROVE InOnePlace(id, part)'
    <3>1. sent[id].node_key \in Node
      BY <1>2, TargetTyped
    <3>2. InSlots(id, part)' = InSlots(id, part)
      BY <1>7, <2>1, <3>1 DEF InSlots
    <3>3. Made(id, part)' = Made(id, part)
      BY <1>1 DEF Made
    <3>4. GivenUp(id, part)' = GivenUp(id, part)
      BY <1>0, <2>2 DEF GivenUp
    <3>. QED  BY <2>4, <3>2, <3>3, <3>4, SameSets
  <2>5. InPlace(id) /\ (OnItsWay(id)' <=> OnItsWay(id))
    BY <1>10 DEF PlacesInv
  <2>. QED  BY <1>9, <2>3, <2>4, <2>5, SamePlace
<1>11. InPlace(c.id)'
  <2>1. NoCallsYet(c.id)
    BY <1>2 DEF PlacesInv, InPlace
  <2>2. ASSUME NEW i \in 1 .. N, NEW j \in 1 .. N, Calls(c)[i].part = Calls(c)[j].part PROVE i = j
    BY <1>2, <1>3, <2>2, PartsDiffer
  <2>3. ASSUME NEW j \in 1 .. N, NEW part, part = sent[c.id].parts[j] PROVE InOnePlace(c.id, part)'
    <3>1. Made(c.id, part)' = {}
      BY <1>1, <2>1 DEF NoCallsYet, Made
    <3>2. ASSUME NEW k \in DOMAIN waiting_changes'[n], waiting_changes'[n][k].call.id = c.id,
                 waiting_changes'[n][k].call.part = part
          PROVE  k = L + j /\ j \in 1 .. kept
      <4>1. ~ (k \in DOMAIN waiting_changes[n] /\ waiting_changes'[n][k] = waiting_changes[n][k])
        BY <2>1, <3>2 DEF NoCallsYet
      <4>2. PICK i \in 1 .. kept : k = L + i /\ waiting_changes'[n][k].call = Calls(c)[i]
        BY <1>6, <4>1
      <4>3. Calls(c)[i].part = Calls(c)[j].part /\ i \in 1 .. N
        BY <1>3, <1>5, <2>3, <3>2, <4>2
      <4>4. i = j
        BY <2>2, <4>3
      <4>. QED  BY <4>2, <4>4
    <3>3. ASSUME NEW g \in gone', g.call.id = c.id, g.call.part = part
          PROVE  g = given(j) /\ j \in kept + 1 .. N
      <4>1. g \notin gone
        BY <2>1, <3>3 DEF NoCallsYet
      <4>2. PICK i \in kept + 1 .. N : g = given(i) /\ g.call = Calls(c)[i]
        BY <1>8, <4>1
      <4>3. Calls(c)[i].part = Calls(c)[j].part /\ i \in 1 .. N
        BY <1>3, <1>5, <2>3, <3>3, <4>2
      <4>4. i = j
        BY <2>2, <4>3
      <4>. QED  BY <4>2, <4>4
    <3>4. Calls(c)[j].id = c.id /\ Calls(c)[j].part = part
      BY <1>3, <2>3
    <3>5. CASE j \in 1 .. kept
      <4>1. PICK x : x = L + j
        OBVIOUS
      <4>2. InSlots(c.id, part)' = {x} /\ x \in InSlots(c.id, part)'
        <5>1. x \in DOMAIN waiting_changes'[n] /\ waiting_changes'[n][x].call = Calls(c)[j]
          BY <1>1, <1>4, <3>5, <4>1
        <5>. QED  BY <3>2, <3>4, <4>1, <5>1 DEF InSlots
      <4>3. GivenUp(c.id, part)' = {}
        BY <1>5, <3>3, <3>5 DEF GivenUp
      <4>. QED  BY <3>1, <4>2, <4>3 DEF InOnePlace, OnlyOne
    <3>6. CASE j \in kept + 1 .. N
      <4>1. InSlots(c.id, part)' = {}
        BY <1>5, <3>2, <3>6 DEF InSlots
      <4>2. PICK x : x = given(j)
        OBVIOUS
      <4>3. GivenUp(c.id, part)' = {x} /\ x \in GivenUp(c.id, part)'
        <5>1. x \in gone' /\ x.call = Calls(c)[j]
          BY <1>0, <1>5, <3>6, <4>2
        <5>. QED  BY <3>3, <3>4, <4>2, <5>1 DEF GivenUp
      <4>. QED  BY <3>1, <4>1, <4>3 DEF InOnePlace, OnlyOne
    <3>. QED  BY <1>5, <3>5, <3>6
  <2>4. ASSUME NEW part \in PartsOf(c.id)' PROVE InOnePlace(c.id, part)'
    <3>1. PICK j \in 1 .. N : part = sent[c.id].parts[j]
      BY <1>3 DEF PartsOf
    <3>. QED  BY <2>3, <3>1
  <2>. QED  BY <2>4 DEF InPlace
<1>. QED  BY <1>10, <1>11 DEF PlacesInv

(* All of the event is given up.                                           *)
LEMMA PlacesLost ==
  ASSUME TypeOK, PlacesInv, sent' = sent, NEW c \in WaitingChange, OnItsWay(c.id),
         NEW why, Lose(c, DOMAIN Calls(c), why), UNCHANGED <<wrappers, applied>>,
         ~ OnItsWay(c.id)',
         \A id \in DOMAIN sent : id # c.id => (OnItsWay(id)' <=> OnItsWay(id))
  PROVE  PlacesInv'
<1> DEFINE given(k) == [call |-> Calls(c)[k], why |-> why, frame |-> frame_clock]
<1>1. UNCHANGED <<waiting_changes, applied>> /\ gone' = gone \union {given(k) : k \in DOMAIN Calls(c)}
  BY DEF Lose, wrappers
<1>2. c.id \in DOMAIN sent /\ c.received \in Nat /\ Typed
  BY TypeOKTyped DEF WaitingChange
<1>3. /\ DOMAIN Calls(c) = DOMAIN sent[c.id].parts
      /\ \A k \in DOMAIN Calls(c) : Calls(c)[k].id = c.id /\ Calls(c)[k].part = sent[c.id].parts[k]
  BY <1>2, CallsOfChange
<1>4. \A k : given(k).call = Calls(c)[k]
  OBVIOUS
<1>. HIDE DEF given
<1>5. \A g \in gone' : g \in gone \/ \E k \in DOMAIN Calls(c) : g = given(k) /\ g.call = Calls(c)[k]
  BY <1>1, <1>4
<1>6. SentGrows
  BY DEF SentGrows
<1>7. ASSUME NEW id \in DOMAIN sent, id # c.id PROVE InPlace(id)'
  <2>1. \A g \in gone' : g.call.id = id => g \in gone
    BY <1>3, <1>5, <1>7
  <2>2. NoCallsYet(id) => NoCallsYet(id)'
    BY <1>1, <2>1 DEF NoCallsYet
  <2>3. ASSUME NEW part, InOnePlace(id, part) PROVE InOnePlace(id, part)'
    <3>1. Made(id, part)' = Made(id, part) /\ InSlots(id, part)' = InSlots(id, part)
      BY <1>1 DEF Made, InSlots
    <3>2. GivenUp(id, part)' = GivenUp(id, part)
      BY <1>1, <2>1 DEF GivenUp
    <3>. QED  BY <2>3, <3>1, <3>2, SameSets
  <2>4. InPlace(id) /\ (OnItsWay(id)' <=> OnItsWay(id))
    BY <1>7 DEF PlacesInv
  <2>. QED  BY <1>6, <2>2, <2>3, <2>4, SamePlace
<1>8. InPlace(c.id)'
  <2>1. NoCallsYet(c.id)
    BY <1>2 DEF PlacesInv, InPlace
  <2>2. ASSUME NEW j \in DOMAIN Calls(c), NEW part, part = sent[c.id].parts[j]
        PROVE  InOnePlace(c.id, part)'
    <3>1. Made(c.id, part)' = {} /\ InSlots(c.id, part)' = {}
      BY <1>1, <1>2, <2>1, TargetTyped DEF NoCallsYet, Made, InSlots
    <3>2. ASSUME NEW g \in gone', g.call.id = c.id, g.call.part = part PROVE g = given(j)
      <4>1. g \notin gone
        BY <2>1, <3>2 DEF NoCallsYet
      <4>2. PICK i \in DOMAIN Calls(c) : g = given(i) /\ g.call = Calls(c)[i]
        BY <1>5, <4>1
      <4>3. Calls(c)[i].part = Calls(c)[j].part
        BY <1>3, <2>2, <3>2, <4>2
      <4>4. i = j
        BY <1>2, <4>3, PartsDiffer
      <4>. QED  BY <4>2, <4>4
    <3>3. PICK x : x = given(j)
      OBVIOUS
    <3>4. GivenUp(c.id, part)' = {x} /\ x \in GivenUp(c.id, part)'
      <4>1. x \in gone' /\ x.call.id = c.id /\ x.call.part = part
        BY <1>1, <1>3, <1>4, <2>2, <3>3
      <4>. QED  BY <3>2, <3>3, <4>1 DEF GivenUp
    <3>. QED  BY <3>1, <3>4 DEF InOnePlace, OnlyOne
  <2>3. ASSUME NEW part \in PartsOf(c.id)' PROVE InOnePlace(c.id, part)'
    <3>1. PICK j \in DOMAIN Calls(c) : part = sent[c.id].parts[j]
      BY <1>3 DEF PartsOf
    <3>. QED  BY <2>2, <3>1
  <2>. QED  BY <2>3 DEF InPlace
<1>. QED  BY <1>7, <1>8 DEF PlacesInv

(* A delayed call that is made leaves its slot.                            *)
LEMMA PlacesRun ==
  ASSUME TypeOK, TypeOK', DelaysKept, PlacesInv, NEW tokens, RunTasks(tokens),
         \A id \in DOMAIN sent : OnItsWay(id)' <=> OnItsWay(id)
  PROVE  PlacesInv'
<1>1. UNCHANGED <<sent, gone>> /\ Typed
  BY TypeOKTyped DEF RunTasks, control
<1>2. SentGrows
  BY <1>1 DEF SentGrows
<1>3. ASSUME NEW n \in Node
      PROVE  /\ \A k \in DOMAIN applied'[n] :
                  \/ k \in DOMAIN applied[n] /\ applied'[n][k] = applied[n][k]
                  \/ /\ k \notin DOMAIN applied[n]
                     /\ \E j \in DOMAIN waiting_changes[n] :
                          /\ k = Len(applied[n]) + j
                          /\ applied'[n][k].call = waiting_changes[n][j].call
             /\ \A k \in DOMAIN applied[n] : k \in DOMAIN applied'[n] /\ applied'[n][k] = applied[n][k]
             /\ \A j \in DOMAIN waiting_changes[n] :
                  /\ Len(applied[n]) + j \in DOMAIN applied'[n]
                  /\ Len(applied[n]) + j \notin DOMAIN applied[n]
                  /\ applied'[n][Len(applied[n]) + j].call = waiting_changes[n][j].call
             /\ DOMAIN waiting_changes'[n] = {}
  <2>1. PICK s, t, m : s = applied[n] /\ t = applied'[n] /\ m = Len(waiting_changes[n])
    OBVIOUS
  <2>2. /\ Grows(s, t, m) /\ DOMAIN waiting_changes'[n] = {}
        /\ \A j \in 1 .. m : t[Len(s) + j].call = waiting_changes[n][j].call
    BY <2>1, RunsDelayed
  <2>3. DOMAIN waiting_changes[n] = 1 .. m
    BY <2>1, CallsMadeTyped
  <2>4. /\ \A k \in DOMAIN t :
              \/ k \in DOMAIN s /\ t[k] = s[k]
              \/ k \notin DOMAIN s /\ \E j \in 1 .. m : k = Len(s) + j
        /\ \A k \in DOMAIN s : k \in DOMAIN t /\ t[k] = s[k]
        /\ \A j \in 1 .. m : Len(s) + j \in DOMAIN t /\ Len(s) + j \notin DOMAIN s
    BY <2>2, GrownPlaces
  <2>5. ASSUME NEW k \in DOMAIN t, k \notin DOMAIN s
        PROVE  \E j \in DOMAIN waiting_changes[n] :
                 k = Len(s) + j /\ t[k].call = waiting_changes[n][j].call
    <3>1. PICK j \in 1 .. m : k = Len(s) + j
      BY <2>4, <2>5
    <3>. QED  BY <2>2, <2>3, <3>1
  <2>6. \A j \in DOMAIN waiting_changes[n] :
          /\ Len(s) + j \in DOMAIN t /\ Len(s) + j \notin DOMAIN s
          /\ t[Len(s) + j].call = waiting_changes[n][j].call
    BY <2>2, <2>3, <2>4
  <2>. QED  BY <2>1, <2>2, <2>4, <2>5, <2>6, Zenon
<1>4. ASSUME NEW id \in DOMAIN sent, NoCallsYet(id) PROVE NoCallsYet(id)'
  <2>1. ASSUME NEW n \in Node, NEW k \in DOMAIN applied'[n] PROVE applied'[n][k].call.id # id
    <3>1. CASE k \in DOMAIN applied[n] /\ applied'[n][k] = applied[n][k]
      BY <1>4, <3>1 DEF NoCallsYet
    <3>2. CASE \E j \in DOMAIN waiting_changes[n] : applied'[n][k].call = waiting_changes[n][j].call
      BY <1>4, <3>2 DEF NoCallsYet
    <3>. QED  BY <1>3, <2>1, <3>1, <3>2
  <2>. QED  BY <1>1, <1>3, <1>4, <2>1 DEF NoCallsYet
<1>5. ASSUME NEW id \in DOMAIN sent, NEW part, InOnePlace(id, part) PROVE InOnePlace(id, part)'
  <2>1. PICK n \in Node : n = sent[id].node_key
    BY <1>1, TargetTyped
  <2> DEFINE L == Len(applied[n])
  <2>2. /\ \A k \in Made(id, part)' : k \in Made(id, part) \/ \E j \in InSlots(id, part) : k = L + j
        /\ \A k \in Made(id, part) : k \in Made(id, part)'
        /\ \A j \in InSlots(id, part) : L + j \in Made(id, part)'
        /\ InSlots(id, part)' = {}
        /\ GivenUp(id, part)' = GivenUp(id, part)
    <3>1. ASSUME NEW k \in Made(id, part)'
          PROVE  k \in Made(id, part) \/ \E j \in InSlots(id, part) : k = L + j
      <4>1. k \in DOMAIN applied'[n] /\ applied'[n][k].call.id = id /\ applied'[n][k].call.part = part
        BY <1>1, <2>1, <3>1 DEF Made
      <4>2. CASE k \in DOMAIN applied[n] /\ applied'[n][k] = applied[n][k]
        BY <2>1, <4>1, <4>2 DEF Made
      <4>3. CASE \E j \in DOMAIN waiting_changes[n] :
                   k = L + j /\ applied'[n][k].call = waiting_changes[n][j].call
        BY <2>1, <4>1, <4>3 DEF InSlots
      <4>. QED  BY <1>3, <4>1, <4>2, <4>3
    <3>2. ASSUME NEW k \in Made(id, part) PROVE k \in Made(id, part)'
      BY <1>1, <1>3, <2>1 DEF Made
    <3>3. ASSUME NEW j \in InSlots(id, part) PROVE L + j \in Made(id, part)'
      <4>1. j \in DOMAIN waiting_changes[n] /\ waiting_changes[n][j].call.id = id
            /\ waiting_changes[n][j].call.part = part
        BY <2>1 DEF InSlots
      <4>2. L + j \in DOMAIN applied'[n] /\ applied'[n][L + j].call = waiting_changes[n][j].call
        BY <1>3, <4>1
      <4>. HIDE DEF L
      <4>. QED  BY <1>1, <2>1, <4>1, <4>2 DEF Made
    <3>4. InSlots(id, part)' = {}
      BY <1>1, <1>3, <2>1 DEF InSlots
    <3>5. GivenUp(id, part)' = GivenUp(id, part)
      BY <1>1 DEF GivenUp
    <3>. QED  BY <3>1, <3>2, <3>3, <3>4, <3>5
  <2>. HIDE DEF L
  <2>3. CASE OnlyOne(InSlots(id, part), Made(id, part), GivenUp(id, part))
    <3>1. PICK j \in InSlots(id, part) : InSlots(id, part) = {j}
      BY <2>3 DEF OnlyOne
    <3>2. PICK x : x = L + j
      OBVIOUS
    <3>3. Made(id, part)' = {x} /\ x \in Made(id, part)'
      BY <2>2, <2>3, <3>1, <3>2 DEF OnlyOne
    <3>. QED  BY <2>2, <2>3, <3>3 DEF InOnePlace, OnlyOne
  <2>4. CASE InSlots(id, part) = {}
    <3>1. Made(id, part)' = Made(id, part)
      BY <2>2, <2>4
    <3>. QED  BY <1>5, <2>2, <2>4, <3>1, SameSets
  <2>5. InSlots(id, part) = {} \/ OnlyOne(InSlots(id, part), Made(id, part), GivenUp(id, part))
    BY <1>5 DEF InOnePlace, OnlyOne
  <2>. QED  BY <2>3, <2>4, <2>5
<1>6. ASSUME NEW id \in DOMAIN sent PROVE InPlace(id)'
  <2>1. InPlace(id)
    BY DEF PlacesInv
  <2>. QED  BY <1>2, <1>4, <1>5, <2>1, SamePlace
<1>. QED  BY <1>1, <1>6 DEF PlacesInv

(* No call is made of an event that has just been sent.                    *)
LEMMA NewEvents ==
  ASSUME TypeOK, TypeOK', Typed, LoopsBounded, QueueInv, QueueInv', LoopsBounded',
         UNCHANGED <<applied, waiting_changes, gone, looked>>,
         Len(sent') = Len(sent) + 1, Len(ring') = Len(ring) + 1,
         NEW id \in DOMAIN sent', id \notin DOMAIN sent
  PROVE  OnItsWay(id)' /\ NoCallsYet(id)'
<1>1. /\ Len(sent) \in Nat /\ DOMAIN sent = 1 .. Len(sent)
      /\ Len(ring) \in Nat /\ looked \in Nat /\ looked <= Len(ring)
  BY ReadTyped
<1>2. DOMAIN sent' = 1 .. Len(sent) + 1
  <2>1. sent' \in Seq(Event')
    BY DEF TypeOK
  <2>. QED  BY <2>1, LenProperties
<1>3. id = Len(sent) + 1
  BY <1>1, <1>2
<1>4. OnItsWay(id)'
  <2>1. NumRead' = Len(sent') - Len(ring') + looked'
    BY DEF NumRead
  <2>2. id > NumRead'
    BY <1>1, <1>3, <2>1
  <2>. QED  BY <2>2 DEF OnItsWay
<1>5. /\ \A n \in Node : \A k \in DOMAIN applied[n] : applied[n][k].call.id \in DOMAIN sent
      /\ \A n \in Node : \A k \in DOMAIN waiting_changes[n] :
           waiting_changes[n][k].call.id \in DOMAIN sent
      /\ \A g \in gone : g.call.id \in DOMAIN sent
  <2>1. ASSUME NEW n \in Node, NEW k \in DOMAIN applied[n] PROVE applied[n][k].call.id \in DOMAIN sent
    <3>1. applied[n][k] \in [call : Call, frame : Nat]
      BY CallsMadeTyped
    <3>. QED  BY <3>1 DEF Call
  <2>2. ASSUME NEW n \in Node, NEW k \in DOMAIN waiting_changes[n]
        PROVE  waiting_changes[n][k].call.id \in DOMAIN sent
    <3>1. waiting_changes[n][k] \in [call : Call, delay : 1 .. BlockSize - 1]
      BY CallsMadeTyped
    <3>. QED  BY <3>1 DEF Call
  <2>3. \A g \in gone : g.call.id \in DOMAIN sent
    BY DEF TypeOK, Call
  <2>. QED  BY <2>1, <2>2, <2>3
<1>6. NoCallsYet(id)'
  BY <1>5 DEF NoCallsYet
<1>. QED  BY <1>4, <1>6

LEMMA PlacesSame ==
  ASSUME SentGrows, PlacesInv, UNCHANGED <<applied, waiting_changes, gone>>,
         NEW id \in DOMAIN sent, OnItsWay(id)' <=> OnItsWay(id)
  PROVE  InPlace(id)'
<1>1. sent'[id] = sent[id]
  BY DEF SentGrows
<1>2. NoCallsYet(id) => NoCallsYet(id)'
  BY DEF NoCallsYet
<1>3. ASSUME NEW part, InOnePlace(id, part) PROVE InOnePlace(id, part)'
  <2>1. /\ Made(id, part)' = Made(id, part) /\ InSlots(id, part)' = InSlots(id, part)
        /\ GivenUp(id, part)' = GivenUp(id, part)
    BY <1>1 DEF Made, InSlots, GivenUp
  <2>. QED  BY <1>3, <2>1, SameSets
<1>4. InPlace(id)
  BY DEF PlacesInv
<1>. QED  BY <1>2, <1>3, <1>4, SamePlace

(* What a look at a change is, with the changes before it in view.         *)
LEMMA LookInTurn ==
  ASSUME ChangesInv, QueueInv, LookAtWaiting \/ LookAtNew
  PROVE  /\ UNCHANGED <<sent, tasks, active, frame_clock>>
         /\ \E c \in WaitingChange : InTurn(c) /\ (Taken(c) \/ PutBack)
BY LookedAt, LookAtWaitingInTurn, LookAtNewInTurn

LEMMA PlacesStep ==
  ASSUME ChangesInv, CallsInv, QueueInv, PlacesInv, Next
  PROVE  PlacesInv'
<1>0. /\ Typed /\ LoopsBounded /\ TypeOK /\ DelaysKept /\ TypeOK' /\ SentGrows
      /\ ChangesInv' /\ QueueInv' /\ LoopsBounded'
  <2>1. Typed /\ LoopsBounded /\ TypeOK /\ DelaysKept
    BY DEF ChangesInv, CallsInv
  <2>2. ChangesInv' /\ TypeOK' /\ SentGrows /\ QueueInv'
    BY <2>1, ChangesStep, TypeOKStep, SentStays, QueueStep
  <2>. QED  BY <2>1, <2>2 DEF ChangesInv
<1>1. CASE LookAtWaiting \/ LookAtNew
  <2>1. PICK c \in WaitingChange : InTurn(c) /\ (Taken(c) \/ PutBack)
    BY <1>1, LookInTurn
  <2>2. sent' = sent
    BY <1>1, LookInTurn
  <2>3. Counted(c, frame_clock) /\ OnItsWay(c.id)
    BY <2>1 DEF InTurn
  <2>4. CASE PutBack
    <3>1. UNCHANGED <<applied, waiting_changes, gone>>
          /\ \A id \in DOMAIN sent : OnItsWay(id)' <=> OnItsWay(id)
      BY <2>4 DEF PutBack, wrappers
    <3>. QED  BY <1>0, <2>2, <3>1, PlacesSame DEF PlacesInv
  <2>5. CASE Taken(c)
    <3>1. ~ OnItsWay(c.id)' /\ \A id \in DOMAIN sent : id # c.id => (OnItsWay(id)' <=> OnItsWay(id))
      BY <2>5 DEF Taken
    <3>2. ASSUME ApplyParameterChange(c) PROVE PlacesInv'
      <4>1. PICK n, p : n = sent[c.id].node_key /\ p = sent[c.id].parameter
        OBVIOUS
      <4>2. n \in Node /\ AppliedAt(c, n, p)
        BY <1>0, <2>3, <3>2, <4>1, AppliedTo
      <4>3. ASSUME ApplyNow(n, c) PROVE PlacesInv'
        <5>1. MadeFor(n, c)
          BY <1>0, <4>2, <4>3, MadeForIt
        <5>. QED  BY <1>0, <2>2, <2>3, <3>1, <4>1, <4>2, <5>1, PlacesMade
      <4>4. ASSUME NEW delay \in 1 .. BlockSize - 1, ApplyLater(n, c, delay) PROVE PlacesInv'
        <5>1. PICK kept \in 0 .. Len(Calls(c)) : KeptFor(n, c, kept)
          BY <1>0, <4>2, <4>4, KeptForIt
        <5>. QED  BY <1>0, <2>2, <2>3, <3>1, <4>1, <4>2, <5>1, PlacesKept
      <4>. QED  BY <4>2, <4>3, <4>4 DEF AppliedAt
    <3>3. ASSUME NEW why, Lose(c, DOMAIN Calls(c), why), UNCHANGED <<wrappers, applied>>
          PROVE  PlacesInv'
      BY <1>0, <2>2, <2>3, <3>1, <3>3, PlacesLost
    <3>. QED  BY <2>5, <3>2, <3>3 DEF Taken
  <2>. QED  BY <2>1, <2>4, <2>5
<1>2. CASE ~ (LookAtWaiting \/ LookAtNew)
  <2>1. \A id \in DOMAIN sent : OnItsWay(id)' <=> OnItsWay(id)
    BY <1>2, OnItsWayStays
  <2>2. ASSUME UNCHANGED <<applied, waiting_changes, gone, sent>> PROVE PlacesInv'
    BY <1>0, <2>1, <2>2, PlacesSame DEF PlacesInv
  <2>3. ASSUME NEW n \in Node, NEW p \in Parameter, NEW schedule \in Schedules,
               NEW parts \in Parts, Send(n, p, schedule, parts)
        PROVE  PlacesInv'
    <3> DEFINE e == [node_key |-> n, parameter |-> p, time |-> schedule.time,
                     token |-> schedule.token, parts |-> parts, ahead |-> nodes[n] = "pushed"]
    <3>1. /\ sent' = Append(sent, e) /\ ring' = Append(ring, Len(sent) + 1)
          /\ UNCHANGED <<applied, waiting_changes, gone, looked>>
      BY <2>3 DEF Send, wrappers
    <3>2. Len(sent') = Len(sent) + 1
      <4>1. sent \in Seq(Event \union {e}) /\ e \in Event \union {e}
        BY <1>0, SeqMonotonic DEF Typed
      <4>. HIDE DEF e
      <4>. QED  BY <3>1, <4>1, AppendProperties
    <3>3. Len(ring') = Len(ring) + 1
      <4>1. ring \in Seq(Nat) /\ Len(sent) + 1 \in Nat
        <5>1. DOMAIN sent \subseteq Nat /\ Len(sent) \in Nat
          BY <1>0, LenProperties DEF Typed
        <5>. QED  BY <1>0, <5>1, SeqMonotonic DEF Typed
      <4>. QED  BY <3>1, <4>1, AppendProperties
    <3>. HIDE DEF e
    <3>4. ASSUME NEW id \in DOMAIN sent', id \notin DOMAIN sent PROVE InPlace(id)'
      <4>1. OnItsWay(id)' /\ NoCallsYet(id)'
        BY <1>0, <3>1, <3>2, <3>3, <3>4, NewEvents
      <4>. QED  BY <4>1 DEF InPlace
    <3>5. ASSUME NEW id \in DOMAIN sent PROVE InPlace(id)'
      BY <1>0, <2>1, <3>1, PlacesSame
    <3>. QED  BY <3>4, <3>5 DEF PlacesInv
  <2>4. ASSUME NEW tokens \in SUBSET Token, RunTasks(tokens) PROVE PlacesInv'
    BY <1>0, <2>1, <2>4, PlacesRun
  <2>5. ASSUME NEW n \in Node, Commit(n) PROVE PlacesInv'
    BY <2>2, <2>5 DEF Commit, wrappers
  <2>6. CASE BeginBlock \/ TakeSlots \/ FreeSlots
    BY <2>2, <2>6 DEF BeginBlock, TakeSlots, FreeSlots, wrappers, control
  <2>. QED  BY <1>2, <2>3, <2>4, <2>5, <2>6 DEF Next
<1>. QED  BY <1>1, <1>2

(* What is counted is at most one thing.                                   *)
LEMMA OneOrNone ==
  ASSUME NEW S
  PROVE  /\ S = {} => Cardinality(S) = 0
         /\ \A x : S = {x} => Cardinality(S) = 1
BY FS_EmptySet, FS_Singleton

LEMMA CountedOnce ==
  ASSUME ChangesInv, TypeOK, QueueInv, PlacesInv
  PROVE  EachOnce
<1>0. Typed /\ LoopsBounded
  BY DEF ChangesInv
<1>1. /\ Len(sent) \in Nat /\ DOMAIN sent = 1 .. Len(sent)
      /\ Len(ring) \in Nat /\ DOMAIN ring = 1 .. Len(ring)
      /\ looked \in Nat /\ looked <= Len(ring) /\ NumRead \in 0 .. Len(sent)
      /\ \A i \in DOMAIN waiting :
           i \in Nat /\ waiting[i].id \in Nat /\ waiting[i].id <= NumRead
  BY <1>0, ReadTyped DEF QueueInv, QueueInOrder
<1>2. Len(ring) <= Len(sent) /\ \A i \in 1 .. Len(ring) : ring[i] = Len(sent) - Len(ring) + i
  BY <1>1 DEF QueueInv, RingInOrder
<1> SUFFICES ASSUME NEW id \in DOMAIN sent, NEW k \in DOMAIN sent[id].parts
             PROVE  InQueues(id) + Settled(id, sent[id].parts[k]) = 1
  BY DEF EachOnce
<1>3. PICK part : part = sent[id].parts[k]
  OBVIOUS
<1> DEFINE R == {i \in looked + 1 .. Len(ring) : ring[i] = id}
           W == {i \in DOMAIN waiting : waiting[i].id = id}
<1>4. InQueues(id) = Cardinality(R) + Cardinality(W)
  BY DEF InQueues
<1>5. /\ Settled(id, part) = Cardinality(InSlots(id, part)) + Cardinality(Made(id, part))
                              + Cardinality(GivenUp(id, part))
  BY DEF Settled, InSlots, Made, GivenUp
<1>6. InPlace(id) /\ id \in Nat /\ id <= Len(sent)
  BY <1>1 DEF PlacesInv
<1>7. ASSUME NoCallsYet(id) PROVE Settled(id, part) = 0
  <2>1. sent[id].node_key \in Node
    BY <1>0, TargetTyped
  <2>2. InSlots(id, part) = {} /\ Made(id, part) = {} /\ GivenUp(id, part) = {}
    BY <1>7, <2>1 DEF NoCallsYet, InSlots, Made, GivenUp
  <2>3. /\ Cardinality(InSlots(id, part)) = 0 /\ Cardinality(Made(id, part)) = 0
        /\ Cardinality(GivenUp(id, part)) = 0
    BY <2>2, OneOrNone, Zenon
  <2>. QED  BY <1>5, <2>3
<1>8. CASE id > NumRead
  <2>1. PICK i \in looked + 1 .. Len(ring) : i = id - (Len(sent) - Len(ring))
    BY <1>1, <1>6, <1>8 DEF NumRead
  <2>2. R = {i}
    BY <1>1, <1>2, <1>6, <2>1
  <2>3. W = {}
    BY <1>1, <1>6, <1>8
  <2>4. Cardinality(R) = 1 /\ Cardinality(W) = 0
    <3>. HIDE DEF R, W
    <3>. QED  BY <2>2, <2>3, OneOrNone, Zenon
  <2>5. Settled(id, part) = 0
    BY <1>6, <1>7, <1>8 DEF InPlace, OnItsWay
  <2>. QED  BY <1>3, <1>4, <2>4, <2>5
<1>9. CASE ~ (id > NumRead)
  <2>1. R = {}
    <3> SUFFICES ASSUME NEW i \in looked + 1 .. Len(ring), ring[i] = id PROVE FALSE
      OBVIOUS
    <3>1. i \in 1 .. Len(ring) /\ i > looked
      BY <1>1
    <3>2. ring[i] = Len(sent) - Len(ring) + i
      BY <1>2, <3>1
    <3>. QED  BY <1>1, <1>6, <1>9, <3>1, <3>2 DEF NumRead
  <2>2. Cardinality(R) = 0
    <3>. HIDE DEF R
    <3>. QED  BY <2>1, OneOrNone, Zenon
  <2>3. CASE OnItsWay(id)
    <3>1. PICK i \in DOMAIN waiting : waiting[i].id = id
      BY <1>9, <2>3 DEF OnItsWay
    <3>2. ASSUME NEW j \in DOMAIN waiting, waiting[j].id = id PROVE j = i
      <4>1. i \in Nat /\ j \in Nat
        BY <1>1
      <4>2. ~ (i < j) /\ ~ (j < i)
        BY <1>6, <3>1, <3>2 DEF QueueInv, QueueInOrder
      <4>. QED  BY <4>1, <4>2
    <3>3. W = {i}
      BY <3>1, <3>2
    <3>4. Cardinality(W) = 1
      <4>. HIDE DEF W
      <4>. QED  BY <3>3, OneOrNone, Zenon
    <3>5. Settled(id, part) = 0
      BY <1>6, <1>7, <2>3 DEF InPlace
    <3>. QED  BY <1>3, <1>4, <2>2, <3>4, <3>5
  <2>4. CASE ~ OnItsWay(id)
    <3>1. W = {}
      BY <2>4 DEF OnItsWay
    <3>2. Cardinality(W) = 0
      <4>. HIDE DEF W
      <4>. QED  BY <3>1, OneOrNone, Zenon
    <3>3. InOnePlace(id, part)
      BY <1>3, <1>6, <2>4 DEF InPlace, PartsOf
    <3>4. Settled(id, part) = 1
      <4>1. PICK S, M, G : S = InSlots(id, part) /\ M = Made(id, part) /\ G = GivenUp(id, part)
        OBVIOUS
      <4>2. OnlyOne(M, S, G) \/ OnlyOne(S, M, G) \/ OnlyOne(G, M, S)
        BY <3>3, <4>1, Zenon DEF InOnePlace
      <4>3. \/ Cardinality(S) = 1 /\ Cardinality(M) = 0 /\ Cardinality(G) = 0
            \/ Cardinality(S) = 0 /\ Cardinality(M) = 1 /\ Cardinality(G) = 0
            \/ Cardinality(S) = 0 /\ Cardinality(M) = 0 /\ Cardinality(G) = 1
        BY <4>2, OneOrNone, Zenon DEF OnlyOne
      <4>4. Settled(id, part) = Cardinality(S) + Cardinality(M) + Cardinality(G)
        BY <1>5, <4>1
      <4>. QED  BY <4>3, <4>4
    <3>. QED  BY <1>3, <1>4, <2>2, <3>2, <3>4
  <2>. QED  BY <2>3, <2>4
<1>. QED  BY <1>8, <1>9, <1>1, <1>6

-----------------------------------------------------------------------------
(* The order of two calls is that of their events.                         *)
LEMMA PrecedesOf ==
  ASSUME NEW a, NEW b, NEW c, NEW d, MayPrecede(a, b),
         a.id = c.id, a.received = c.received, b.id = d.id, b.received = d.received
  PROVE  MayPrecede(c, d)
BY DEF MayPrecede, Due

LEMMA PrecedesStill ==
  ASSUME SentGrows, NEW a, NEW b, a.id \in DOMAIN sent, b.id \in DOMAIN sent, MayPrecede(a, b)
  PROVE  MayPrecede(a, b)'
<1>1. sent'[a.id] = sent[a.id] /\ sent'[b.id] = sent[b.id]
  BY DEF SentGrows
<1>2. Due(a)' = Due(a) /\ Due(b)' = Due(b)
  BY DueStays
<1>. QED  BY <1>1, <1>2 DEF MayPrecede

LEMMA SettledTyped ==
  ASSUME TypeOK
  PROVE  /\ \A n \in Node : \A k \in DOMAIN applied[n] :
              applied[n][k].call \in Call /\ applied[n][k].call.id \in DOMAIN sent
         /\ \A n \in Node : \A k \in DOMAIN waiting_changes[n] :
              waiting_changes[n][k].call \in Call /\ waiting_changes[n][k].call.id \in DOMAIN sent
<1>1. ASSUME NEW n \in Node, NEW k \in DOMAIN applied[n]
      PROVE  applied[n][k].call \in Call /\ applied[n][k].call.id \in DOMAIN sent
  <2>1. applied[n][k] \in [call : Call, frame : Nat]
    BY CallsMadeTyped
  <2>. QED  BY <2>1 DEF Call
<1>2. ASSUME NEW n \in Node, NEW k \in DOMAIN waiting_changes[n]
      PROVE  waiting_changes[n][k].call \in Call /\ waiting_changes[n][k].call.id \in DOMAIN sent
  <2>1. waiting_changes[n][k] \in [call : Call, delay : 1 .. BlockSize - 1]
    BY CallsMadeTyped
  <2>. QED  BY <2>1 DEF Call
<1>. QED  BY <1>1, <1>2

(* What has become calls was read from the ring.                           *)
LEMMA SettledRead ==
  ASSUME TypeOK, PlacesInv
  PROVE  /\ \A n \in Node : \A k \in DOMAIN applied[n] : ~ (applied[n][k].call.id > NumRead)
         /\ \A n \in Node : \A k \in DOMAIN waiting_changes[n] :
              ~ (waiting_changes[n][k].call.id > NumRead)
<1>1. \A id \in DOMAIN sent : id > NumRead => NoCallsYet(id)
  BY DEF PlacesInv, InPlace, OnItsWay
<1>. QED  BY <1>1, SettledTyped DEF NoCallsYet

LEMMA OrderMade ==
  ASSUME TypeOK, sent' = sent, NEW c \in WaitingChange, NEW n \in Node, MadeFor(n, c), OrderInv,
         \A k \in DOMAIN applied[n] : MayPrecede(applied[n][k].call, c),
         \A k \in DOMAIN waiting_changes[n] : MayPrecede(c, waiting_changes[n][k].call)
  PROVE  OrderInv'
<1> DEFINE N == Len(Calls(c))
           L == Len(applied[n])
<1>1. /\ UNCHANGED waiting_changes
      /\ \A m \in Node \ {n} : applied'[m] = applied[m]
      /\ Grows(applied[n], applied'[n], N)
      /\ \A k \in 1 .. N : applied'[n][L + k].call = Calls(c)[k]
  BY Zenon DEF MadeFor
<1>2. c.id \in DOMAIN sent /\ c.received \in Nat /\ Typed /\ DOMAIN sent \subseteq Nat
  <2>1. c.id \in DOMAIN sent /\ c.received \in Nat /\ Typed
    BY TypeOKTyped DEF WaitingChange
  <2>2. DOMAIN sent = 1 .. Len(sent) /\ Len(sent) \in Nat
    BY <2>1, LenProperties DEF Typed
  <2>. QED  BY <2>1, <2>2
<1>3. \A k \in 1 .. N : Calls(c)[k].id = c.id /\ Calls(c)[k].received = c.received
  BY <1>2, CallsOfChange
<1>4. \A a, b : MayPrecede(a, b)' <=> MayPrecede(a, b)
  BY DEF MayPrecede, Due
<1>. HIDE DEF N, L
<1>5. /\ L \in Nat /\ N \in Nat /\ DOMAIN applied[n] = 1 .. L /\ DOMAIN applied'[n] = 1 .. L + N
      /\ \A k \in 1 .. L : applied'[n][k] = applied[n][k]
  BY <1>1 DEF Grows, L
<1>6. ASSUME NEW k \in DOMAIN applied'[n], k \notin 1 .. L
      PROVE  applied'[n][k].call.id = c.id /\ applied'[n][k].call.received = c.received
  <2>0. k \in 1 .. L + N /\ L \in Nat /\ N \in Nat
    BY <1>5
  <2>1. PICK j \in 1 .. N : k = L + j
    <3>1. k - L \in 1 .. N /\ k = L + (k - L)
      BY <1>6, <2>0
    <3>. QED  BY <3>1
  <2>. QED  BY <1>1, <1>3, <2>1
<1>7. ASSUME NEW j \in DOMAIN applied'[n], NEW i \in 1 .. j - 1
      PROVE  \A a, b : a = applied'[n][i].call /\ b = applied'[n][j].call => MayPrecede(a, b)
  <2> TAKE a, b
  <2>. HAVE a = applied'[n][i].call /\ b = applied'[n][j].call
  <2>1. i \in DOMAIN applied'[n] /\ i < j /\ i \in Nat /\ j \in Nat
    BY <1>5
  <2>2. CASE j \in 1 .. L
    <3>1. applied'[n][j] = applied[n][j] /\ applied'[n][i] = applied[n][i] /\ j \in DOMAIN applied[n]
      BY <1>5, <2>1, <2>2
    <3>. QED  BY <3>1 DEF OrderInv
  <2>3. CASE j \notin 1 .. L /\ i \in 1 .. L
    <3>1. b.id = c.id /\ b.received = c.received
      BY <1>6, <2>3
    <3>2. a = applied[n][i].call /\ i \in DOMAIN applied[n]
      BY <1>5, <2>3
    <3>3. MayPrecede(a, c)
      BY <3>2
    <3>. QED  BY <3>1, <3>3, PrecedesOf
  <2>4. CASE i \notin 1 .. L
    <3>1. i \notin 1 .. L /\ j \notin 1 .. L
      BY <1>5, <2>1, <2>4
    <3>2. a.id = c.id /\ b.id = c.id
      BY <1>6, <2>1, <3>1
    <3>3. ~ (b.id < a.id)
      BY <1>2, <3>2
    <3>. QED  BY <3>3 DEF MayPrecede
  <2>. QED  BY <2>2, <2>3, <2>4
<1>8. ASSUME NEW i \in DOMAIN applied'[n], NEW j \in DOMAIN waiting_changes[n]
      PROVE  \A a, b : a = applied'[n][i].call /\ b = waiting_changes[n][j].call => MayPrecede(a, b)
  <2> TAKE a, b
  <2>. HAVE a = applied'[n][i].call /\ b = waiting_changes[n][j].call
  <2>1. CASE i \in 1 .. L
    BY <1>5, <2>1 DEF OrderInv
  <2>2. CASE i \notin 1 .. L
    <3>1. a.id = c.id /\ a.received = c.received
      BY <1>6, <2>2
    <3>2. MayPrecede(c, b)
      OBVIOUS
    <3>. QED  BY <3>1, <3>2, PrecedesOf
  <2>. QED  BY <2>1, <2>2
<1>9. ASSUME NEW m \in Node
      PROVE  /\ \A j \in DOMAIN applied'[m] : \A i \in 1 .. j - 1 :
                  MayPrecede(applied'[m][i].call, applied'[m][j].call)
             /\ \A i \in DOMAIN applied'[m] : \A j \in DOMAIN waiting_changes[m] :
                  MayPrecede(applied'[m][i].call, waiting_changes[m][j].call)
             /\ \A j \in DOMAIN waiting_changes[m] : \A i \in 1 .. j - 1 :
                  MayPrecede(waiting_changes[m][i].call, waiting_changes[m][j].call)
  <2>1. CASE m = n
    BY <1>7, <1>8, <2>1, Zenon DEF OrderInv
  <2>2. CASE m # n
    BY <1>1, <2>2 DEF OrderInv
  <2>. QED  BY <2>1, <2>2
<1>. QED  BY <1>1, <1>4, <1>9 DEF OrderInv

LEMMA OrderKept ==
  ASSUME TypeOK, sent' = sent, NEW c \in WaitingChange, NEW n \in Node,
         NEW kept \in 0 .. Len(Calls(c)), KeptFor(n, c, kept), OrderInv,
         \A k \in DOMAIN applied[n] : MayPrecede(applied[n][k].call, c),
         \A k \in DOMAIN waiting_changes[n] : MayPrecede(waiting_changes[n][k].call, c)
  PROVE  OrderInv'
<1> DEFINE L == Len(waiting_changes[n])
<1>1. /\ UNCHANGED applied
      /\ \A m \in Node \ {n} : waiting_changes'[m] = waiting_changes[m]
      /\ Grows(waiting_changes[n], waiting_changes'[n], kept)
      /\ \A k \in 1 .. kept : waiting_changes'[n][L + k].call = Calls(c)[k]
  BY Zenon DEF KeptFor
<1>2. c.id \in DOMAIN sent /\ c.received \in Nat /\ Typed /\ DOMAIN sent \subseteq Nat
  <2>1. c.id \in DOMAIN sent /\ c.received \in Nat /\ Typed
    BY TypeOKTyped DEF WaitingChange
  <2>2. DOMAIN sent = 1 .. Len(sent) /\ Len(sent) \in Nat
    BY <2>1, LenProperties DEF Typed
  <2>. QED  BY <2>1, <2>2
<1>3. \A k \in 1 .. kept : Calls(c)[k].id = c.id /\ Calls(c)[k].received = c.received
  <2>1. Len(Calls(c)) \in Nat
        /\ \A k \in 1 .. Len(Calls(c)) : Calls(c)[k].id = c.id /\ Calls(c)[k].received = c.received
    BY <1>2, CallsOfChange
  <2>2. \A k \in 1 .. kept : k \in 1 .. Len(Calls(c))
    BY <2>1
  <2>. QED  BY <2>1, <2>2
<1>4. \A a, b : MayPrecede(a, b)' <=> MayPrecede(a, b)
  BY DEF MayPrecede, Due
<1>. HIDE DEF L
<1>5. /\ L \in Nat /\ kept \in Nat
      /\ DOMAIN waiting_changes[n] = 1 .. L /\ DOMAIN waiting_changes'[n] = 1 .. L + kept
      /\ \A k \in 1 .. L : waiting_changes'[n][k] = waiting_changes[n][k]
  BY <1>1 DEF Grows, L
<1>6. ASSUME NEW k \in DOMAIN waiting_changes'[n], k \notin 1 .. L
      PROVE  /\ waiting_changes'[n][k].call.id = c.id
             /\ waiting_changes'[n][k].call.received = c.received
  <2>1. PICK j \in 1 .. kept : j = k - L /\ k = L + j
    BY <1>5, <1>6
  <2>. QED  BY <1>1, <1>3, <2>1
<1>7. ASSUME NEW j \in DOMAIN waiting_changes'[n], NEW i \in 1 .. j - 1
      PROVE  \A a, b : a = waiting_changes'[n][i].call /\ b = waiting_changes'[n][j].call
                         => MayPrecede(a, b)
  <2> TAKE a, b
  <2>. HAVE a = waiting_changes'[n][i].call /\ b = waiting_changes'[n][j].call
  <2>1. i \in DOMAIN waiting_changes'[n] /\ i < j /\ i \in Nat /\ j \in Nat
    BY <1>5
  <2>2. CASE j \in 1 .. L
    <3>1. /\ waiting_changes'[n][j] = waiting_changes[n][j]
          /\ waiting_changes'[n][i] = waiting_changes[n][i] /\ j \in DOMAIN waiting_changes[n]
      BY <1>5, <2>1, <2>2
    <3>. QED  BY <3>1 DEF OrderInv
  <2>3. CASE j \notin 1 .. L /\ i \in 1 .. L
    <3>1. b.id = c.id /\ b.received = c.received
      BY <1>6, <2>3
    <3>2. a = waiting_changes[n][i].call /\ i \in DOMAIN waiting_changes[n]
      BY <1>5, <2>3
    <3>3. MayPrecede(a, c)
      BY <3>2
    <3>. QED  BY <3>1, <3>3, PrecedesOf
  <2>4. CASE i \notin 1 .. L
    <3>1. i \notin 1 .. L /\ j \notin 1 .. L
      BY <1>5, <2>1, <2>4
    <3>2. a.id = c.id /\ b.id = c.id
      BY <1>6, <2>1, <3>1
    <3>3. ~ (b.id < a.id)
      BY <1>2, <3>2
    <3>. QED  BY <3>3 DEF MayPrecede
  <2>. QED  BY <2>2, <2>3, <2>4
<1>8. ASSUME NEW i \in DOMAIN applied[n], NEW j \in DOMAIN waiting_changes'[n]
      PROVE  \A a, b : a = applied[n][i].call /\ b = waiting_changes'[n][j].call => MayPrecede(a, b)
  <2> TAKE a, b
  <2>. HAVE a = applied[n][i].call /\ b = waiting_changes'[n][j].call
  <2>1. CASE j \in 1 .. L
    BY <1>5, <2>1 DEF OrderInv
  <2>2. CASE j \notin 1 .. L
    <3>1. b.id = c.id /\ b.received = c.received
      BY <1>6, <2>2
    <3>2. MayPrecede(a, c)
      OBVIOUS
    <3>. QED  BY <3>1, <3>2, PrecedesOf
  <2>. QED  BY <2>1, <2>2
<1>9. ASSUME NEW m \in Node
      PROVE  /\ \A j \in DOMAIN applied[m] : \A i \in 1 .. j - 1 :
                  MayPrecede(applied[m][i].call, applied[m][j].call)
             /\ \A i \in DOMAIN applied[m] : \A j \in DOMAIN waiting_changes'[m] :
                  MayPrecede(applied[m][i].call, waiting_changes'[m][j].call)
             /\ \A j \in DOMAIN waiting_changes'[m] : \A i \in 1 .. j - 1 :
                  MayPrecede(waiting_changes'[m][i].call, waiting_changes'[m][j].call)
  <2>1. CASE m = n
    BY <1>7, <1>8, <2>1, Zenon DEF OrderInv
  <2>2. CASE m # n
    BY <1>1, <2>2 DEF OrderInv
  <2>. QED  BY <2>1, <2>2
<1>. QED  BY <1>1, <1>4, <1>9 DEF OrderInv

(* The delayed calls are made in the order of their slots.                 *)
LEMMA OrderRun ==
  ASSUME TypeOK, TypeOK', DelaysKept, OrderInv, NEW tokens, RunTasks(tokens)
  PROVE  /\ OrderInv'
         /\ \A n \in Node : \A k \in DOMAIN applied'[n] :
              \/ \E i \in DOMAIN applied[n] : applied'[n][k].call = applied[n][i].call
              \/ \E i \in DOMAIN waiting_changes[n] : applied'[n][k].call = waiting_changes[n][i].call
         /\ \A n \in Node : DOMAIN waiting_changes'[n] = {}
<1>1. \A a, b : MayPrecede(a, b)' <=> MayPrecede(a, b)
  BY DEF RunTasks, control, MayPrecede, Due
<1>2. ASSUME NEW n \in Node
      PROVE  /\ \A j \in DOMAIN applied'[n] : \A i \in 1 .. j - 1 :
                  MayPrecede(applied'[n][i].call, applied'[n][j].call)
             /\ \A k \in DOMAIN applied'[n] :
                  \/ \E i \in DOMAIN applied[n] : applied'[n][k].call = applied[n][i].call
                  \/ \E i \in DOMAIN waiting_changes[n] :
                       applied'[n][k].call = waiting_changes[n][i].call
             /\ DOMAIN waiting_changes'[n] = {}
  <2> DEFINE L == Len(applied[n])
             N == Len(waiting_changes[n])
  <2>1. /\ Grows(applied[n], applied'[n], N)
        /\ \A k \in 1 .. N : applied'[n][L + k].call = waiting_changes[n][k].call
        /\ DOMAIN waiting_changes'[n] = {} /\ DOMAIN waiting_changes[n] = 1 .. N
    BY RunsDelayed, CallsMadeTyped
  <2>. HIDE DEF N, L
  <2>2. /\ L \in Nat /\ N \in Nat /\ DOMAIN applied[n] = 1 .. L /\ DOMAIN applied'[n] = 1 .. L + N
        /\ \A k \in 1 .. L : applied'[n][k] = applied[n][k]
    BY <2>1 DEF Grows, L
  <2>3. ASSUME NEW k \in DOMAIN applied'[n], k \notin 1 .. L
        PROVE  \E i \in 1 .. N : k = L + i /\ applied'[n][k].call = waiting_changes[n][i].call
    <3>1. k \in 1 .. L + N /\ L \in Nat /\ N \in Nat
      BY <2>2
    <3>2. k - L \in 1 .. N /\ k = L + (k - L)
      BY <2>3, <3>1
    <3>. QED  BY <2>1, <3>2
  <2>4. ASSUME NEW j \in DOMAIN applied'[n], NEW i \in 1 .. j - 1
        PROVE  MayPrecede(applied'[n][i].call, applied'[n][j].call)
    <3>1. i \in DOMAIN applied'[n] /\ i < j /\ i \in Nat /\ j \in Nat
      BY <2>2
    <3>2. CASE j \in 1 .. L
      <4>1. /\ applied'[n][j] = applied[n][j] /\ applied'[n][i] = applied[n][i]
            /\ j \in DOMAIN applied[n]
        BY <2>2, <3>1, <3>2
      <4>. QED  BY <4>1 DEF OrderInv
    <3>3. CASE j \notin 1 .. L /\ i \in 1 .. L
      <4>1. PICK b \in 1 .. N : applied'[n][j].call = waiting_changes[n][b].call
        BY <2>3, <3>3
      <4>2. applied'[n][i] = applied[n][i] /\ i \in DOMAIN applied[n] /\ b \in DOMAIN waiting_changes[n]
        BY <2>1, <2>2, <3>3
      <4>. QED  BY <4>1, <4>2 DEF OrderInv
    <3>4. CASE i \notin 1 .. L
      <4>1. j \notin 1 .. L
        BY <2>2, <3>1, <3>4
      <4>2. PICK b \in 1 .. N : j = L + b /\ applied'[n][j].call = waiting_changes[n][b].call
        BY <2>3, <4>1
      <4>3. PICK a \in 1 .. N : i = L + a /\ applied'[n][i].call = waiting_changes[n][a].call
        BY <2>3, <3>1, <3>4
      <4>4. b \in DOMAIN waiting_changes[n] /\ a \in 1 .. b - 1
        BY <2>1, <2>2, <3>1, <4>2, <4>3
      <4>. QED  BY <4>2, <4>3, <4>4 DEF OrderInv
    <3>. QED  BY <3>2, <3>3, <3>4
  <2>5. ASSUME NEW k \in DOMAIN applied'[n]
        PROVE  \/ \E i \in DOMAIN applied[n] : applied'[n][k].call = applied[n][i].call
               \/ \E i \in DOMAIN waiting_changes[n] :
                    applied'[n][k].call = waiting_changes[n][i].call
    <3>1. CASE k \in 1 .. L
      BY <2>2, <3>1
    <3>2. CASE k \notin 1 .. L
      BY <2>1, <2>3, <3>2
    <3>. QED  BY <3>1, <3>2
  <2>. QED  BY <2>1, <2>4, <2>5
<1>3. OrderInv'
  BY <1>1, <1>2 DEF OrderInv
<1>. QED  BY <1>2, <1>3

OrderKeptSoFar == DelaySet /\ OrderInv /\ WaitingInOrder

(* The steps that make and delay no calls.                                 *)
LEMMA OrderSame ==
  ASSUME TypeOK, ChangesInv, PlacesInv, OrderKeptSoFar, SentGrows,
         UNCHANGED <<applied, waiting_changes, next_delay>>,
         \A w \in DOMAIN waiting' :
           \/ waiting'[w].id > NumRead /\ waiting'[w].id \in Nat
           \/ \E v \in DOMAIN waiting :
                waiting'[w].id = waiting[v].id /\ waiting'[w].received = waiting[v].received
  PROVE  OrderKeptSoFar'
<1>0. Typed /\ DelaySet /\ OrderInv /\ WaitingInOrder
  BY DEF ChangesInv, OrderKeptSoFar
<1>1. /\ \A n \in Node : \A k \in DOMAIN applied[n] : applied[n][k].call.id \in DOMAIN sent
      /\ \A n \in Node : \A k \in DOMAIN waiting_changes[n] :
           waiting_changes[n][k].call.id \in DOMAIN sent
  BY SettledTyped
<1>2. \A id \in DOMAIN sent : sent'[id] = sent[id] /\ id \in Nat
  <2>1. DOMAIN sent = 1 .. Len(sent) /\ Len(sent) \in Nat
    BY <1>0, LenProperties DEF Typed
  <2>. QED  BY <2>1 DEF SentGrows
<1>3. DelaySet'
  BY <1>0, <1>1, <1>2 DEF DelaySet
<1>4. ASSUME NEW n \in Node
      PROVE  /\ \A j \in DOMAIN applied[n] : \A i \in 1 .. j - 1 :
                  MayPrecede(applied[n][i].call, applied[n][j].call)'
             /\ \A i \in DOMAIN applied[n] : \A j \in DOMAIN waiting_changes[n] :
                  MayPrecede(applied[n][i].call, waiting_changes[n][j].call)'
             /\ \A j \in DOMAIN waiting_changes[n] : \A i \in 1 .. j - 1 :
                  MayPrecede(waiting_changes[n][i].call, waiting_changes[n][j].call)'
  <2>1. \A a, b : a.id \in DOMAIN sent /\ b.id \in DOMAIN sent /\ MayPrecede(a, b) => MayPrecede(a, b)'
    BY PrecedesStill
  <2>2. /\ \A j \in DOMAIN applied[n] : \A i \in 1 .. j - 1 : i \in DOMAIN applied[n]
        /\ \A j \in DOMAIN waiting_changes[n] : \A i \in 1 .. j - 1 : i \in DOMAIN waiting_changes[n]
    <3>1. /\ Len(applied[n]) \in Nat /\ DOMAIN applied[n] = 1 .. Len(applied[n])
          /\ Len(waiting_changes[n]) \in Nat
          /\ DOMAIN waiting_changes[n] = 1 .. Len(waiting_changes[n])
      BY CallsMadeTyped
    <3>. QED  BY <3>1
  <2>3. ASSUME NEW j \in DOMAIN applied[n], NEW i \in 1 .. j - 1
        PROVE  MayPrecede(applied[n][i].call, applied[n][j].call)'
    <3>1. PICK a, b : a = applied[n][i].call /\ b = applied[n][j].call
      OBVIOUS
    <3>2. MayPrecede(a, b)'
      BY <1>0, <1>1, <2>1, <2>2, <3>1 DEF OrderInv
    <3>. QED  BY <3>1, <3>2 DEF MayPrecede, Due
  <2>4. ASSUME NEW i \in DOMAIN applied[n], NEW j \in DOMAIN waiting_changes[n]
        PROVE  MayPrecede(applied[n][i].call, waiting_changes[n][j].call)'
    <3>1. PICK a, b : a = applied[n][i].call /\ b = waiting_changes[n][j].call
      OBVIOUS
    <3>2. MayPrecede(a, b)'
      BY <1>0, <1>1, <2>1, <3>1 DEF OrderInv
    <3>. QED  BY <3>1, <3>2 DEF MayPrecede, Due
  <2>5. ASSUME NEW j \in DOMAIN waiting_changes[n], NEW i \in 1 .. j - 1
        PROVE  MayPrecede(waiting_changes[n][i].call, waiting_changes[n][j].call)'
    <3>1. PICK a, b : a = waiting_changes[n][i].call /\ b = waiting_changes[n][j].call
      OBVIOUS
    <3>2. MayPrecede(a, b)'
      BY <1>0, <1>1, <2>1, <2>2, <3>1 DEF OrderInv
    <3>. QED  BY <3>1, <3>2 DEF MayPrecede, Due
  <2>. QED  BY <2>3, <2>4, <2>5
<1>5. OrderInv'
  BY <1>4 DEF OrderInv
<1>6. ASSUME NEW n \in Node, NEW w \in DOMAIN waiting', sent'[waiting'[w].id].node_key = n,
             NEW s, s.id \in DOMAIN sent, ~ (s.id > NumRead),
             \A v \in DOMAIN waiting : sent[waiting[v].id].node_key = n => MayPrecede(s, waiting[v])
      PROVE  MayPrecede(s, waiting[w])'
  <2>1. CASE waiting'[w].id > NumRead /\ waiting'[w].id \in Nat
    <3>1. ~ (waiting'[w].id < s.id)
      <4>1. s.id \in Nat
        BY <1>2, <1>6
      <4>2. NumRead \in Int
        <5>1. Len(sent) \in Nat /\ Len(ring) \in Nat /\ looked \in Nat
          BY <1>0, LenProperties DEF Typed
        <5>. QED  BY <5>1 DEF NumRead
      <4>. QED  BY <1>6, <2>1, <4>1, <4>2
    <3>. QED  BY <3>1 DEF MayPrecede
  <2>2. CASE \E v \in DOMAIN waiting :
               waiting'[w].id = waiting[v].id /\ waiting'[w].received = waiting[v].received
    <3>1. PICK v \in DOMAIN waiting :
            waiting'[w].id = waiting[v].id /\ waiting'[w].received = waiting[v].received
      BY <2>2
    <3>2. PICK d : d = waiting[v]
      OBVIOUS
    <3>3. d.id \in DOMAIN sent
      <4>1. d \in WaitingChange
        BY <1>0, <3>2, LenProperties, ElementOfSeq DEF Typed
      <4>. QED  BY <4>1 DEF WaitingChange
    <3>4. MayPrecede(s, d)
      BY <1>2, <1>6, <3>1, <3>2, <3>3
    <3>5. MayPrecede(s, d)'
      BY <1>6, <3>3, <3>4, PrecedesStill
    <3>. QED  BY <3>1, <3>2, <3>5 DEF MayPrecede, Due
  <2>. QED  BY <2>1, <2>2
<1>7. WaitingInOrder'
  <2>1. ASSUME NEW n \in Node, NEW w \in DOMAIN waiting', sent'[waiting'[w].id].node_key = n,
               NEW i \in DOMAIN applied[n]
        PROVE  MayPrecede(applied[n][i].call, waiting[w])'
    <3>1. PICK s : s = applied[n][i].call
      OBVIOUS
    <3>2. s.id \in DOMAIN sent /\ ~ (s.id > NumRead)
      BY <1>1, <3>1, SettledRead
    <3>3. \A v \in DOMAIN waiting : sent[waiting[v].id].node_key = n => MayPrecede(s, waiting[v])
      BY <1>0, <3>1 DEF WaitingInOrder
    <3>4. MayPrecede(s, waiting[w])'
      BY <1>6, <2>1, <3>2, <3>3
    <3>. QED  BY <3>1, <3>4 DEF MayPrecede, Due
  <2>2. ASSUME NEW n \in Node, NEW w \in DOMAIN waiting', sent'[waiting'[w].id].node_key = n,
               NEW i \in DOMAIN waiting_changes[n]
        PROVE  MayPrecede(waiting_changes[n][i].call, waiting[w])'
    <3>1. PICK s : s = waiting_changes[n][i].call
      OBVIOUS
    <3>2. s.id \in DOMAIN sent /\ ~ (s.id > NumRead)
      BY <1>1, <3>1, SettledRead
    <3>3. \A v \in DOMAIN waiting : sent[waiting[v].id].node_key = n => MayPrecede(s, waiting[v])
      BY <1>0, <3>1 DEF WaitingInOrder
    <3>4. MayPrecede(s, waiting[w])'
      BY <1>6, <2>2, <3>2, <3>3
    <3>. QED  BY <3>1, <3>4 DEF MayPrecede, Due
  <2>. QED  BY <2>1, <2>2 DEF WaitingInOrder
<1>. QED  BY <1>3, <1>5, <1>7 DEF OrderKeptSoFar

(* An event that is taken in its turn comes after all that was made, and   *)
(* before all that still waits.                                            *)
LEMMA TurnComesAfter ==
  ASSUME TypeOK, PlacesInv, WaitingInOrder, QueueInv, LoopsBounded, NEW c, InTurn(c),
         NEW n \in Node, n = sent[c.id].node_key
  PROVE  /\ \A k \in DOMAIN applied[n] : MayPrecede(applied[n][k].call, c)
         /\ \A k \in DOMAIN waiting_changes[n] : MayPrecede(waiting_changes[n][k].call, c)
<1>0. Typed
  BY TypeOKTyped
<1>1. c \in WaitingChange /\ (c.id > NumRead \/ \E w \in DOMAIN waiting : c = waiting[w])
  BY DEF InTurn
<1>2. CASE \E w \in DOMAIN waiting : c = waiting[w]
  <2>1. PICK w \in DOMAIN waiting : c = waiting[w]
    BY <1>2
  <2>. QED  BY <2>1 DEF WaitingInOrder
<1>3. CASE c.id > NumRead
  <2>1. ASSUME NEW s, s.id \in DOMAIN sent, ~ (s.id > NumRead) PROVE MayPrecede(s, c)
    <3>1. /\ DOMAIN sent = 1 .. Len(sent) /\ Len(sent) \in Nat /\ NumRead \in 0 .. Len(sent)
      BY <1>0, ReadTyped
    <3>2. c.id \in DOMAIN sent
      BY <1>1 DEF WaitingChange
    <3>3. ~ (c.id < s.id)
      BY <1>3, <2>1, <3>1, <3>2
    <3>. QED  BY <3>3 DEF MayPrecede
  <2>2. ASSUME NEW k \in DOMAIN applied[n] PROVE MayPrecede(applied[n][k].call, c)
    <3>1. PICK s : s = applied[n][k].call
      OBVIOUS
    <3>2. s.id \in DOMAIN sent /\ ~ (s.id > NumRead)
      BY <3>1, SettledTyped, SettledRead
    <3>. QED  BY <2>1, <3>1, <3>2
  <2>3. ASSUME NEW k \in DOMAIN waiting_changes[n] PROVE MayPrecede(waiting_changes[n][k].call, c)
    <3>1. PICK s : s = waiting_changes[n][k].call
      OBVIOUS
    <3>2. s.id \in DOMAIN sent /\ ~ (s.id > NumRead)
      BY <3>1, SettledTyped, SettledRead
    <3>. QED  BY <2>1, <3>1, <3>2
  <2>. QED  BY <2>2, <2>3
<1>. QED  BY <1>1, <1>2, <1>3

LEMMA TurnComesBefore ==
  ASSUME TypeOK, NEW c, InTurn(c), NEW n \in Node, n = sent[c.id].node_key, n \in tasks,
         sent[c.id].token \in active \union {NoToken}, Due(c) < frame_clock + BlockSize,
         NEW v \in DOMAIN waiting, sent[waiting[v].id].node_key = n
  PROVE  MayPrecede(c, waiting[v])
<1>1. PICK d : d = waiting[v]
  OBVIOUS
<1>2. c \in WaitingChange /\ (d.id < c.id => MustWait(d))
  BY <1>1 DEF InTurn
<1>3. Typed /\ d \in WaitingChange
  BY <1>1, TypeOKTyped, LenProperties, ElementOfSeq DEF TypeOK
<1>4. Due(c) \in Nat /\ Due(d) \in Nat /\ frame_clock \in Nat /\ BlockSize \in Nat
  <2>1. c.id \in DOMAIN sent /\ c.received \in Nat /\ d.id \in DOMAIN sent /\ d.received \in Nat
    BY <1>2, <1>3 DEF WaitingChange
  <2>. QED  BY <1>3, <2>1, DueTyped, ConstantsTyped DEF Typed
<1>5. ASSUME MustWait(d) PROVE \/ sent[c.id].token # sent[d.id].token
                               \/ Due(c) < Due(d)
  <2>1. CASE Due(d) >= frame_clock + BlockSize
    BY <1>4, <2>1
  <2>. QED  BY <1>1, <1>5, <2>1 DEF MustWait
<1>. QED  BY <1>1, <1>2, <1>5 DEF MayPrecede

(* A change that is made at once overtakes no delayed change of the same   *)
(* parameter: the delay of that parameter is still set.                    *)
LEMMA NotOvertaken ==
  ASSUME TypeOK, DelaysKept, DelaySet, NEW c \in WaitingChange, Counted(c, frame_clock),
         ApplyParameterChange(c), NEW n \in Node, n = sent[c.id].node_key, ApplyNow(n, c),
         NEW p, p = sent[c.id].parameter,
         n \in Timed => next_delay'[n][p] = 0,
         NEW k \in DOMAIN waiting_changes[n]
  PROVE  MayPrecede(c, waiting_changes[n][k].call)
<1>1. PICK d : d = waiting_changes[n][k].call
  OBVIOUS
<1>2. n \in Timed
  BY DEF DelaysKept
<1>3. next_delay[n][sent[d.id].parameter] > 0
  BY <1>1 DEF DelaySet
<1>4. next_delay[n][p] > 0 => next_delay'[n][p] > 0
  BY AppliedTo
<1>5. sent[d.id].parameter # p
  BY <1>2, <1>3, <1>4
<1>. QED  BY <1>1, <1>5 DEF MayPrecede

(* The same, as one step keeps what is behind a change that it makes.      *)
LEMMA WaitingTaken ==
  ASSUME TypeOK, sent' = sent, NEW c \in WaitingChange, SameChanges, WaitingInOrder,
         NEW n \in Node,
         \A v \in DOMAIN waiting : sent[waiting[v].id].node_key = n => MayPrecede(c, waiting[v]),
         \A m \in Node : \A k \in DOMAIN applied'[m] :
           \/ \E i \in DOMAIN applied[m] : applied'[m][k].call = applied[m][i].call
           \/ /\ m = n /\ applied'[m][k].call.id = c.id
              /\ applied'[m][k].call.received = c.received,
         \A m \in Node : \A k \in DOMAIN waiting_changes'[m] :
           \/ \E i \in DOMAIN waiting_changes[m] :
                waiting_changes'[m][k].call = waiting_changes[m][i].call
           \/ /\ m = n /\ waiting_changes'[m][k].call.id = c.id
              /\ waiting_changes'[m][k].call.received = c.received
  PROVE  WaitingInOrder'
<1>1. \A a, b : MayPrecede(a, b)' <=> MayPrecede(a, b)
  BY DEF MayPrecede, Due
<1>2. ASSUME NEW m \in Node, NEW w \in DOMAIN waiting', sent[waiting'[w].id].node_key = m, NEW s,
             \/ \E i \in DOMAIN applied[m] : s = applied[m][i].call
             \/ \E i \in DOMAIN waiting_changes[m] : s = waiting_changes[m][i].call
             \/ m = n /\ s.id = c.id /\ s.received = c.received
      PROVE  MayPrecede(s, waiting'[w])
  <2>1. PICK v \in DOMAIN waiting :
          waiting'[w].id = waiting[v].id /\ waiting'[w].received = waiting[v].received
    BY DEF SameChanges
  <2>2. MayPrecede(s, waiting[v])
    <3>1. CASE m = n /\ s.id = c.id /\ s.received = c.received
      <4>1. MayPrecede(c, waiting[v])
        BY <1>2, <2>1, <3>1
      <4>. QED  BY <3>1, <4>1, PrecedesOf
    <3>2. CASE \E i \in DOMAIN applied[m] : s = applied[m][i].call
      BY <1>2, <2>1, <3>2 DEF WaitingInOrder
    <3>3. CASE \E i \in DOMAIN waiting_changes[m] : s = waiting_changes[m][i].call
      BY <1>2, <2>1, <3>3 DEF WaitingInOrder
    <3>. QED  BY <1>2, <3>1, <3>2, <3>3
  <2>. QED  BY <2>1, <2>2, PrecedesOf
<1>3. ASSUME NEW m \in Node, NEW w \in DOMAIN waiting', sent[waiting'[w].id].node_key = m
      PROVE  /\ \A i \in DOMAIN applied'[m] : MayPrecede(applied'[m][i].call, waiting'[w])
             /\ \A i \in DOMAIN waiting_changes'[m] :
                  MayPrecede(waiting_changes'[m][i].call, waiting'[w])
  BY <1>2, <1>3
<1>. QED  BY <1>1, <1>3 DEF WaitingInOrder

LEMMA MadeCalls ==
  ASSUME TypeOK, NEW c \in WaitingChange, NEW n \in Node, MadeFor(n, c),
         NEW m \in Node, NEW k \in DOMAIN applied'[m]
  PROVE  \/ \E i \in DOMAIN applied[m] : applied'[m][k].call = applied[m][i].call
         \/ m = n /\ applied'[m][k].call.id = c.id /\ applied'[m][k].call.received = c.received
<1> DEFINE N == Len(Calls(c))
           L == Len(applied[n])
<1>1. /\ \A o \in Node \ {n} : applied'[o] = applied[o]
      /\ Grows(applied[n], applied'[n], N)
      /\ \A j \in 1 .. N : applied'[n][L + j].call = Calls(c)[j]
  BY Zenon DEF MadeFor
<1>2. \A j \in 1 .. N : Calls(c)[j].id = c.id /\ Calls(c)[j].received = c.received
  <2>1. c.id \in DOMAIN sent /\ c.received \in Nat /\ Typed
    BY TypeOKTyped DEF WaitingChange
  <2>. QED  BY <2>1, CallsOfChange
<1>. HIDE DEF N, L
<1>3. CASE m = n
  <2>1. /\ L \in Nat /\ N \in Nat /\ DOMAIN applied[n] = 1 .. L /\ DOMAIN applied'[n] = 1 .. L + N
        /\ \A j \in 1 .. L : applied'[n][j] = applied[n][j]
    BY <1>1 DEF Grows, L
  <2>2. CASE k \in 1 .. L
    BY <1>3, <2>1, <2>2
  <2>3. CASE k \notin 1 .. L
    <3>1. k \in 1 .. L + N /\ L \in Nat /\ N \in Nat
      BY <1>3, <2>1
    <3>2. k - L \in 1 .. N /\ k = L + (k - L)
      BY <2>3, <3>1
    <3>. QED  BY <1>1, <1>2, <1>3, <3>2
  <2>. QED  BY <2>2, <2>3
<1>4. CASE m # n
  BY <1>1, <1>4
<1>. QED  BY <1>3, <1>4

LEMMA DelayedCallsOf ==
  ASSUME TypeOK, NEW c \in WaitingChange, NEW n \in Node,
         NEW kept \in 0 .. Len(Calls(c)), KeptFor(n, c, kept),
         NEW m \in Node, NEW k \in DOMAIN waiting_changes'[m]
  PROVE  \/ \E i \in DOMAIN waiting_changes[m] :
              waiting_changes'[m][k].call = waiting_changes[m][i].call
         \/ /\ m = n /\ waiting_changes'[m][k].call.id = c.id
            /\ waiting_changes'[m][k].call.received = c.received
<1> DEFINE L == Len(waiting_changes[n])
<1>1. /\ \A o \in Node \ {n} : waiting_changes'[o] = waiting_changes[o]
      /\ Grows(waiting_changes[n], waiting_changes'[n], kept)
      /\ \A j \in 1 .. kept : waiting_changes'[n][L + j].call = Calls(c)[j]
  BY Zenon DEF KeptFor
<1>2. \A j \in 1 .. kept : Calls(c)[j].id = c.id /\ Calls(c)[j].received = c.received
  <2>1. c.id \in DOMAIN sent /\ c.received \in Nat /\ Typed
    BY TypeOKTyped DEF WaitingChange
  <2>2. Len(Calls(c)) \in Nat
        /\ \A j \in 1 .. Len(Calls(c)) : Calls(c)[j].id = c.id /\ Calls(c)[j].received = c.received
    BY <2>1, CallsOfChange
  <2>3. \A j \in 1 .. kept : j \in 1 .. Len(Calls(c))
    BY <2>2
  <2>. QED  BY <2>2, <2>3
<1>. HIDE DEF L
<1>3. CASE m = n
  <2>1. /\ L \in Nat /\ kept \in Nat
        /\ DOMAIN waiting_changes[n] = 1 .. L /\ DOMAIN waiting_changes'[n] = 1 .. L + kept
        /\ \A j \in 1 .. L : waiting_changes'[n][j] = waiting_changes[n][j]
    BY <1>1 DEF Grows, L
  <2>2. CASE k \in 1 .. L
    BY <1>3, <2>1, <2>2
  <2>3. CASE k \notin 1 .. L
    <3>1. k \in 1 .. L + kept /\ L \in Nat /\ kept \in Nat
      BY <1>3, <2>1
    <3>2. k - L \in 1 .. kept /\ k = L + (k - L)
      BY <2>3, <3>1
    <3>. QED  BY <1>1, <1>2, <1>3, <3>2
  <2>. QED  BY <2>2, <2>3
<1>4. CASE m # n
  BY <1>1, <1>4
<1>. QED  BY <1>3, <1>4

LEMMA OrderTaken ==
  ASSUME ChangesInv, TypeOK, DelaysKept, QueueInv, PlacesInv, OrderKeptSoFar,
         UNCHANGED <<sent, tasks, active, frame_clock>>, NEW c \in WaitingChange, InTurn(c), Taken(c)
  PROVE  OrderKeptSoFar'
<1>0. /\ Typed /\ LoopsBounded /\ SentGrows /\ sent' = sent
      /\ DelaySet /\ OrderInv /\ WaitingInOrder /\ SameChanges
  BY DEF ChangesInv, SentGrows, OrderKeptSoFar, Taken
<1>1. Counted(c, frame_clock) /\ c.id \in DOMAIN sent
  BY DEF InTurn, WaitingChange
<1>2. ASSUME NEW why, Lose(c, DOMAIN Calls(c), why), UNCHANGED <<wrappers, applied>>
      PROVE  OrderKeptSoFar'
  <2>1. UNCHANGED <<applied, waiting_changes, next_delay>>
    BY <1>2 DEF wrappers
  <2>. QED  BY <1>0, <2>1, OrderSame DEF SameChanges
<1>3. ASSUME ApplyParameterChange(c) PROVE OrderKeptSoFar'
  <2>1. PICK n, p : n = sent[c.id].node_key /\ p = sent[c.id].parameter
    OBVIOUS
  <2>2. /\ n \in Node /\ p \in Parameter /\ n \in tasks
        /\ sent[c.id].token \in active \union {NoToken} /\ Due(c) < frame_clock + BlockSize
        /\ \A m \in Node, q \in Parameter : m # n \/ q # p => next_delay'[m][q] = next_delay[m][q]
        /\ next_delay[n][p] > 0 => next_delay'[n][p] > 0
        /\ AppliedAt(c, n, p)
    BY <1>1, <1>3, <2>1, AppliedTo
  <2>3. /\ \A k \in DOMAIN applied[n] : MayPrecede(applied[n][k].call, c)
        /\ \A k \in DOMAIN waiting_changes[n] : MayPrecede(waiting_changes[n][k].call, c)
    BY <1>0, <2>1, <2>2, TurnComesAfter
  <2>4. \A v \in DOMAIN waiting : sent[waiting[v].id].node_key = n => MayPrecede(c, waiting[v])
    BY <2>1, <2>2, TurnComesBefore
  <2>5. \A m \in Node : \A k \in DOMAIN waiting_changes[m] :
          next_delay'[m][sent[waiting_changes[m][k].call.id].parameter] > 0
    <3> SUFFICES ASSUME NEW m \in Node, NEW k \in DOMAIN waiting_changes[m],
                        NEW q, q = sent[waiting_changes[m][k].call.id].parameter
                 PROVE  next_delay'[m][q] > 0
      OBVIOUS
    <3>1. q \in Parameter
      BY <1>0, SettledTyped, TargetTyped
    <3>2. next_delay[m][q] > 0
      BY <1>0 DEF DelaySet
    <3>. QED  BY <2>2, <3>1, <3>2
  <2>6. ASSUME ApplyNow(n, c), n \in Timed => next_delay'[n][p] = 0 PROVE OrderKeptSoFar'
    <3>1. MadeFor(n, c)
      BY <2>2, <2>6, MadeForIt
    <3>2. \A k \in DOMAIN waiting_changes[n] : MayPrecede(c, waiting_changes[n][k].call)
      BY <1>0, <1>1, <1>3, <2>1, <2>2, <2>6, NotOvertaken
    <3>3. OrderInv'
      BY <1>0, <2>2, <2>3, <3>1, <3>2, OrderMade
    <3>4. waiting_changes' = waiting_changes
      BY <3>1 DEF MadeFor
    <3>5. DelaySet'
      BY <1>0, <2>5, <3>4 DEF DelaySet
    <3>6. WaitingInOrder'
      <4>1. \A m \in Node : \A k \in DOMAIN applied'[m] :
              \/ \E i \in DOMAIN applied[m] : applied'[m][k].call = applied[m][i].call
              \/ /\ m = n /\ applied'[m][k].call.id = c.id
                 /\ applied'[m][k].call.received = c.received
        BY <2>2, <3>1, MadeCalls
      <4>2. \A m \in Node : \A k \in DOMAIN waiting_changes'[m] :
              \/ \E i \in DOMAIN waiting_changes[m] :
                   waiting_changes'[m][k].call = waiting_changes[m][i].call
              \/ /\ m = n /\ waiting_changes'[m][k].call.id = c.id
                 /\ waiting_changes'[m][k].call.received = c.received
        BY <3>4
      <4>. QED  BY <1>0, <2>2, <2>4, <4>1, <4>2, WaitingTaken
    <3>. QED  BY <3>3, <3>5, <3>6 DEF OrderKeptSoFar
  <2>7. ASSUME NEW delay \in 1 .. BlockSize - 1, ApplyLater(n, c, delay), next_delay'[n][p] = delay
        PROVE  OrderKeptSoFar'
    <3>1. PICK kept \in 0 .. Len(Calls(c)) : KeptFor(n, c, kept)
      BY <2>2, <2>7, KeptForIt
    <3>2. OrderInv'
      BY <1>0, <2>2, <2>3, <3>1, OrderKept
    <3>3. applied' = applied
      BY <3>1 DEF KeptFor
    <3>4. \A m \in Node : \A k \in DOMAIN waiting_changes'[m] :
            \/ \E i \in DOMAIN waiting_changes[m] :
                 waiting_changes'[m][k].call = waiting_changes[m][i].call
            \/ /\ m = n /\ waiting_changes'[m][k].call.id = c.id
               /\ waiting_changes'[m][k].call.received = c.received
      BY <2>2, <3>1, DelayedCallsOf
    <3>5. DelaySet'
      <4>1. ASSUME NEW m \in Node, NEW k \in DOMAIN waiting_changes'[m]
            PROVE  next_delay'[m][sent[waiting_changes'[m][k].call.id].parameter] > 0
        <5>1. CASE \E i \in DOMAIN waiting_changes[m] :
                     waiting_changes'[m][k].call = waiting_changes[m][i].call
          BY <2>5, <5>1
        <5>2. CASE m = n /\ waiting_changes'[m][k].call.id = c.id
          BY <2>1, <2>7, <5>2
        <5>. QED  BY <3>4, <4>1, <5>1, <5>2
      <4>. QED  BY <1>0, <4>1 DEF DelaySet
    <3>6. WaitingInOrder'
      <4>1. \A m \in Node : \A k \in DOMAIN applied'[m] :
              \/ \E i \in DOMAIN applied[m] : applied'[m][k].call = applied[m][i].call
              \/ /\ m = n /\ applied'[m][k].call.id = c.id
                 /\ applied'[m][k].call.received = c.received
        BY <3>3
      <4>. QED  BY <1>0, <2>2, <2>4, <3>4, <4>1, WaitingTaken
    <3>. QED  BY <3>2, <3>5, <3>6 DEF OrderKeptSoFar
  <2>. QED  BY <2>2, <2>6, <2>7 DEF AppliedAt
<1>. QED  BY <1>2, <1>3 DEF Taken

LEMMA OrderStep ==
  ASSUME ChangesInv, CallsInv, QueueInv, PlacesInv, OrderKeptSoFar, Next
  PROVE  OrderKeptSoFar'
<1>0. /\ Typed /\ LoopsBounded /\ TypeOK /\ DelaysKept /\ TypeOK' /\ SentGrows
      /\ DelaySet /\ OrderInv /\ WaitingInOrder
  <2>1. Typed /\ LoopsBounded /\ TypeOK /\ DelaysKept /\ DelaySet /\ OrderInv /\ WaitingInOrder
    BY DEF ChangesInv, CallsInv, OrderKeptSoFar
  <2>2. TypeOK' /\ SentGrows
    BY <2>1, TypeOKStep, SentStays
  <2>. QED  BY <2>1, <2>2
<1>1. CASE LookAtWaiting \/ LookAtNew
  <2>1. PICK c \in WaitingChange : InTurn(c) /\ (Taken(c) \/ PutBack)
    BY <1>1, LookInTurn
  <2>2. UNCHANGED <<sent, tasks, active, frame_clock>>
    BY <1>1, LookInTurn
  <2>3. CASE PutBack
    <3>1. UNCHANGED <<applied, waiting_changes, next_delay>>
      BY <2>3 DEF PutBack, wrappers
    <3>2. \A w \in DOMAIN waiting' : waiting'[w].id \in Nat
      <4>1. waiting' \in Seq(WaitingChange')
        BY <1>0 DEF TypeOK
      <4>2. \A w \in DOMAIN waiting' : waiting'[w] \in WaitingChange'
        BY <4>1, LenProperties, ElementOfSeq
      <4>3. \A w \in DOMAIN waiting' : waiting'[w].id \in DOMAIN sent'
        BY <4>2 DEF WaitingChange
      <4>4. DOMAIN sent' \subseteq Nat
        BY <1>0, <2>2, LenProperties DEF Typed
      <4>. QED  BY <4>3, <4>4
    <3>3. \A w \in DOMAIN waiting' :
            \/ waiting'[w].id > NumRead /\ waiting'[w].id \in Nat
            \/ \E v \in DOMAIN waiting :
                 waiting'[w].id = waiting[v].id /\ waiting'[w].received = waiting[v].received
      BY <2>3, <3>2 DEF PutBack
    <3>. QED  BY <1>0, <3>1, <3>3, OrderSame
  <2>. QED  BY <1>0, <2>1, <2>2, <2>3, OrderTaken
<1>2. ASSUME UNCHANGED <<applied, waiting_changes, next_delay, waiting>> PROVE OrderKeptSoFar'
  BY <1>0, <1>2, OrderSame
<1>3. ASSUME NEW tokens \in SUBSET Token, RunTasks(tokens) PROVE OrderKeptSoFar'
  <2>1. /\ OrderInv'
        /\ \A n \in Node : \A k \in DOMAIN applied'[n] :
             \/ \E i \in DOMAIN applied[n] : applied'[n][k].call = applied[n][i].call
             \/ \E i \in DOMAIN waiting_changes[n] : applied'[n][k].call = waiting_changes[n][i].call
        /\ \A n \in Node : DOMAIN waiting_changes'[n] = {}
    BY <1>0, <1>3, OrderRun
  <2>2. UNCHANGED <<sent, waiting>>
    BY <1>3 DEF RunTasks, control
  <2>3. DelaySet'
    BY <2>1 DEF DelaySet
  <2>4. \A a, b : MayPrecede(a, b)' <=> MayPrecede(a, b)
    BY <2>2 DEF MayPrecede, Due
  <2>5. ASSUME NEW n \in Node, NEW w \in DOMAIN waiting, sent[waiting[w].id].node_key = n,
               NEW k \in DOMAIN applied'[n]
        PROVE  MayPrecede(applied'[n][k].call, waiting[w])
    <3>1. CASE \E i \in DOMAIN applied[n] : applied'[n][k].call = applied[n][i].call
      BY <1>0, <2>5, <3>1 DEF WaitingInOrder
    <3>2. CASE \E i \in DOMAIN waiting_changes[n] :
                 applied'[n][k].call = waiting_changes[n][i].call
      BY <1>0, <2>5, <3>2 DEF WaitingInOrder
    <3>. QED  BY <2>1, <2>5, <3>1, <3>2
  <2>6. WaitingInOrder'
    BY <2>1, <2>2, <2>4, <2>5 DEF WaitingInOrder
  <2>. QED  BY <2>1, <2>3, <2>6 DEF OrderKeptSoFar
<1>4. ASSUME NEW n \in Node, Commit(n) PROVE OrderKeptSoFar'
  BY <1>2, <1>4 DEF Commit, wrappers
<1>5. ASSUME NEW n \in Node, NEW p \in Parameter, NEW schedule \in Schedules,
             NEW parts \in Parts, Send(n, p, schedule, parts)
      PROVE  OrderKeptSoFar'
  BY <1>2, <1>5 DEF Send, wrappers
<1>6. CASE BeginBlock \/ TakeSlots \/ FreeSlots
  BY <1>2, <1>6 DEF BeginBlock, TakeSlots, FreeSlots, wrappers
<1>. QED  BY <1>1, <1>3, <1>4, <1>5, <1>6 DEF Next

OrderlyInv == QueueInv /\ PlacesInv /\ OrderKeptSoFar

LEMMA InitOrderly == Init => OrderlyInv
<1> SUFFICES ASSUME Init PROVE OrderlyInv
  OBVIOUS
<1>1. /\ sent = <<>> /\ ring = <<>> /\ waiting = <<>> /\ looked = 0
      /\ \A n \in Node : applied[n] = <<>> /\ waiting_changes[n] = <<>>
  BY DEF Init
<1>2. /\ DOMAIN sent = {} /\ DOMAIN ring = {} /\ DOMAIN waiting = {}
      /\ Len(sent) = 0 /\ Len(ring) = 0
      /\ \A n \in Node : DOMAIN applied[n] = {} /\ DOMAIN waiting_changes[n] = {}
  BY <1>1, EmptySeq
<1>3. QueueInv
  BY <1>2 DEF QueueInv, RingInOrder, QueueInOrder
<1>4. PlacesInv
  BY <1>2 DEF PlacesInv
<1>5. OrderKeptSoFar
  BY <1>2 DEF OrderKeptSoFar, DelaySet, OrderInv, WaitingInOrder
<1>. QED  BY <1>3, <1>4, <1>5 DEF OrderlyInv

LEMMA OrderlyStays == OrderlyInv /\ UNCHANGED vars => OrderlyInv'
<1> SUFFICES ASSUME OrderlyInv, UNCHANGED vars PROVE OrderlyInv'
  OBVIOUS
<1>1. UNCHANGED <<sent, ring, tasks, phase, left, looked, waiting, next_delay, waiting_changes,
                  frame_clock, applied, gone>>
  BY DEF vars
<1>2. QueueInv'
  BY <1>1 DEF OrderlyInv, QueueInv, RingInOrder, QueueInOrder, Turned, NumRead
<1>3. PlacesInv'
  <2>1. SentGrows
    BY <1>1 DEF SentGrows
  <2>2. \A id \in DOMAIN sent : OnItsWay(id)' <=> OnItsWay(id)
    BY <1>1 DEF OnItsWay, NumRead
  <2>. QED  BY <1>1, <2>1, <2>2, PlacesSame DEF OrderlyInv, PlacesInv
<1>4. OrderKeptSoFar'
  <2>1. \A a, b : MayPrecede(a, b)' <=> MayPrecede(a, b)
    BY <1>1 DEF MayPrecede, Due
  <2>2. DelaySet'
    BY <1>1 DEF OrderlyInv, OrderKeptSoFar, DelaySet
  <2>3. OrderInv'
    BY <1>1, <2>1 DEF OrderlyInv, OrderKeptSoFar, OrderInv
  <2>4. WaitingInOrder'
    BY <1>1, <2>1 DEF OrderlyInv, OrderKeptSoFar, WaitingInOrder
  <2>. QED  BY <2>2, <2>3, <2>4 DEF OrderKeptSoFar
<1>. QED  BY <1>2, <1>3, <1>4 DEF OrderlyInv

(* Each event stays in one place and the queues in order: of the ring, the *)
(* queue of waiting changes, the slots of the wrappers and the calls that  *)
(* were made.                                                              *)
THEOREM OrderlyInvariance == Spec => []OrderlyInv
<1>1. ChangesInv /\ CallsInv /\ OrderlyInv /\ [Next]_vars => OrderlyInv'
  <2>1. ASSUME ChangesInv, CallsInv, OrderlyInv, Next PROVE OrderlyInv'
    BY <2>1, QueueStep, PlacesStep, OrderStep DEF OrderlyInv
  <2>. QED  BY <2>1, OrderlyStays
<1>. QED  BY <1>1, InitOrderly, ChangesInvariance, CallsInvariance, PTL DEF Spec

(* No call of param_apply is lost or made twice, and none overtakes one    *)
(* that was sent before it for the same parameter with the same token and  *)
(* is not due later: process_block of the GraphGen and of WrPreciseTiming. *)
THEOREM NothingLostOrSwapped == Spec => []OnceInOrder
<1>1. ChangesInv /\ CallsInv /\ OrderlyInv => OnceInOrder
  <2> SUFFICES ASSUME ChangesInv, CallsInv, OrderlyInv PROVE OnceInOrder
    OBVIOUS
  <2>1. EachOnce
    BY CountedOnce DEF CallsInv, OrderlyInv
  <2>2. OrderInv
    BY DEF OrderlyInv, OrderKeptSoFar
  <2>3. InOrder
    BY <2>2 DEF OrderInv, InOrder, MayPrecede
  <2>. QED  BY <2>1, <2>3 DEF OnceInOrder
<1>. QED  BY <1>1, ChangesInvariance, CallsInvariance, OrderlyInvariance, PTL
-----------------------------------------------------------------------------
(***************************************************************************)
(* Tokens.  They are looked at when a change is taken out of a queue, and  *)
(* stay active.                                                            *)
(***************************************************************************)
Activated(call) == sent[call.id].token \in active \union {NoToken}

(* A step settles what was settled, in a slot or made, and one change more *)
(* at most, whose token is active.                                         *)
WasSettled(n, call) ==
  \/ \E k \in DOMAIN applied[n] : call = applied[n][k].call
  \/ \E k \in DOMAIN waiting_changes[n] : call = waiting_changes[n][k].call

OnlyActivated ==
  \A n \in Node :
    /\ \A k \in DOMAIN applied'[n] :
         LET call == applied'[n][k].call IN
         WasSettled(n, call) \/ (call.id \in DOMAIN sent /\ Activated(call))
    /\ \A k \in DOMAIN waiting_changes'[n] :
         LET call == waiting_changes'[n][k].call IN
         WasSettled(n, call) \/ (call.id \in DOMAIN sent /\ Activated(call))

LEMMA AppliedActivated ==
  ASSUME TypeOK, NEW c \in WaitingChange, Counted(c, frame_clock), ApplyParameterChange(c)
  PROVE  OnlyActivated
<1>1. PICK n, p : n = sent[c.id].node_key /\ p = sent[c.id].parameter
  OBVIOUS
<1>2. /\ n \in Node /\ sent[c.id].token \in active \union {NoToken} /\ AppliedAt(c, n, p)
      /\ c.id \in DOMAIN sent
  BY <1>1, AppliedTo DEF WaitingChange
<1>3. ASSUME ApplyNow(n, c) PROVE OnlyActivated
  <2>1. MadeFor(n, c) /\ waiting_changes' = waiting_changes
    BY <1>2, <1>3, MadeForIt DEF ApplyNow
  <2>2. \A m \in Node : \A k \in DOMAIN applied'[m] :
          \/ \E i \in DOMAIN applied[m] : applied'[m][k].call = applied[m][i].call
          \/ applied'[m][k].call.id = c.id
    BY <1>2, <2>1, MadeCalls
  <2>. QED  BY <1>2, <2>1, <2>2 DEF OnlyActivated, WasSettled, Activated
<1>4. ASSUME NEW delay \in 1 .. BlockSize - 1, ApplyLater(n, c, delay) PROVE OnlyActivated
  <2>1. PICK kept \in 0 .. Len(Calls(c)) : KeptFor(n, c, kept)
    BY <1>2, <1>4, KeptForIt
  <2>2. \A m \in Node : \A k \in DOMAIN waiting_changes'[m] :
          \/ \E i \in DOMAIN waiting_changes[m] :
               waiting_changes'[m][k].call = waiting_changes[m][i].call
          \/ waiting_changes'[m][k].call.id = c.id
    BY <1>2, <2>1, DelayedCallsOf
  <2>3. applied' = applied
    BY <1>4 DEF ApplyLater
  <2>. QED  BY <1>2, <2>2, <2>3 DEF OnlyActivated, WasSettled, Activated
<1>. QED  BY <1>2, <1>3, <1>4 DEF AppliedAt

LEMMA TokensStep ==
  ASSUME ChangesInv, CallsInv, NotBeforeItsToken, Next
  PROVE  NotBeforeItsToken'
<1>0. Typed /\ TypeOK /\ DelaysKept /\ TypeOK'
  BY TypeOKStep DEF ChangesInv, CallsInv
<1>1. SentGrows
  BY <1>0, SentStays
<1>2. active \subseteq active'
  <2>1. ASSUME NEW n \in Node, Commit(n) PROVE active' = active
    BY <2>1 DEF Commit
  <2>2. ASSUME NEW n \in Node, NEW p \in Parameter, NEW schedule \in Schedules,
               NEW parts \in Parts, Send(n, p, schedule, parts)
        PROVE  active' = active
    BY <2>2 DEF Send
  <2>. QED
    BY <2>1, <2>2
       DEF Next, BeginBlock, LookAtWaiting, TakeSlots, LookAtNew, FreeSlots, RunTasks
<1>3. OnlyActivated
  <2>1. UNCHANGED <<applied, waiting_changes>> => OnlyActivated
    BY DEF OnlyActivated, WasSettled
  <2>2. CASE LookAtWaiting \/ LookAtNew
    <3>1. PICK c \in WaitingChange : Counted(c, frame_clock) /\ Given(c)
      BY <2>2, LookedAt
    <3>. QED  BY <1>0, <2>1, <3>1, AppliedActivated DEF Given, wrappers
  <2>3. ASSUME NEW tokens \in SUBSET Token, RunTasks(tokens) PROVE OnlyActivated
    <3>1. ASSUME NEW n \in Node, NEW k \in DOMAIN applied'[n]
          PROVE  WasSettled(n, applied'[n][k].call)
      <4>1. /\ Grows(applied[n], applied'[n], Len(waiting_changes[n]))
            /\ \A i \in 1 .. Len(waiting_changes[n]) :
                 applied'[n][Len(applied[n]) + i].call = waiting_changes[n][i].call
            /\ DOMAIN waiting_changes[n] = 1 .. Len(waiting_changes[n])
        BY <1>0, <2>3, RunsDelayed, CallsMadeTyped
      <4>2. \/ k \in DOMAIN applied[n] /\ applied'[n][k] = applied[n][k]
            \/ \E i \in 1 .. Len(waiting_changes[n]) : k = Len(applied[n]) + i
        <5>1. PICK s, m : s = applied[n] /\ m = Len(waiting_changes[n])
          OBVIOUS
        <5>2. Grows(s, applied'[n], m)
          BY <4>1, <5>1
        <5>3. \A i \in DOMAIN applied'[n] :
                \/ i \in DOMAIN s /\ applied'[n][i] = s[i]
                \/ i \notin DOMAIN s /\ \E j \in 1 .. m : i = Len(s) + j
          BY <5>2, GrownPlaces
        <5>. QED  BY <3>1, <5>1, <5>3
      <4>. QED  BY <4>1, <4>2 DEF WasSettled
    <3>2. \A n \in Node : DOMAIN waiting_changes'[n] = {}
      BY <1>0, <2>3, RunsDelayed
    <3>. QED  BY <3>1, <3>2 DEF OnlyActivated
  <2>4. ASSUME NEW n \in Node, Commit(n) PROVE OnlyActivated
    BY <2>1, <2>4 DEF Commit, wrappers
  <2>5. ASSUME NEW n \in Node, NEW p \in Parameter, NEW schedule \in Schedules,
               NEW parts \in Parts, Send(n, p, schedule, parts)
        PROVE  OnlyActivated
    BY <2>1, <2>5 DEF Send, wrappers
  <2>6. CASE BeginBlock \/ TakeSlots \/ FreeSlots
    BY <2>1, <2>6 DEF BeginBlock, TakeSlots, FreeSlots, wrappers
  <2>. QED  BY <2>2, <2>3, <2>4, <2>5, <2>6 DEF Next
<1>4. ASSUME NEW n \in Node, NEW call, WasSettled(n, call)
      PROVE  call.id \in DOMAIN sent /\ Activated(call)
  <2>1. call \in Call
    BY <1>0, <1>4, CallsMadeTyped DEF WasSettled
  <2>. QED  BY <1>4, <2>1 DEF WasSettled, Call, NotBeforeItsToken, Activated
<1>5. ASSUME NEW call, call.id \in DOMAIN sent, Activated(call)
      PROVE  sent'[call.id].token \in active' \union {NoToken}
  BY <1>1, <1>2, <1>5 DEF SentGrows, Activated
<1>6. ASSUME NEW n \in Node, NEW k \in DOMAIN applied'[n]
      PROVE  sent'[applied'[n][k].call.id].token \in active' \union {NoToken}
  BY <1>3, <1>4, <1>5, <1>6 DEF OnlyActivated
<1>7. ASSUME NEW n \in Node, NEW k \in DOMAIN waiting_changes'[n]
      PROVE  sent'[waiting_changes'[n][k].call.id].token \in active' \union {NoToken}
  BY <1>3, <1>4, <1>5, <1>7 DEF OnlyActivated
<1>. QED  BY <1>6, <1>7 DEF NotBeforeItsToken

(* At any block size and sample rate, and however often a change was       *)
(* pushed back: it is not made before the frame that it is scheduled for,  *)
(* nor before its token is activated.                                      *)
THEOREM NothingIsEarly == Spec => []NeverEarly
<1>1. CallsInv => NotBeforeItsFrame
  BY DEF CallsInv
<1>2. Init => NotBeforeItsToken
  <2>1. DOMAIN <<>> = {}
    BY EmptySeq
  <2>. QED  BY <2>1 DEF Init, NotBeforeItsToken
<1>3. ChangesInv /\ CallsInv /\ NotBeforeItsToken /\ [Next]_vars => NotBeforeItsToken'
  <2>1. CASE NotBeforeItsToken /\ UNCHANGED vars
    BY <2>1 DEF NotBeforeItsToken, vars
  <2>. QED  BY <2>1, TokensStep
<1>4. NotBeforeItsFrame /\ NotBeforeItsToken => NeverEarly
  BY DEF NeverEarly
<1>. QED  BY <1>1, <1>2, <1>3, <1>4, ChangesInvariance, CallsInvariance, PTL DEF Spec
=============================================================================
