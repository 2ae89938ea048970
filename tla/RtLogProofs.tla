---------------------------- MODULE RtLogProofs ------------------------------
(***************************************************************************)
(* What ArLogReceiver::recv hands over is what lies in the ring, wherever  *)
(* it lies around the end of the memory.                                   *)
(***************************************************************************)
EXTENDS RtLog, SequenceTheorems, TLAPS

LEMMA PartIn ==
  ASSUME NEW S, NEW s \in Seq(S), NEW a \in Nat, NEW b \in Nat, b <= Len(s)
  PROVE  /\ SubSeq(s, a + 1, b) \in Seq(S)
         /\ Len(SubSeq(s, a + 1, b)) = IF a < b THEN b - a ELSE 0
         /\ \A i \in 1 .. b - a : SubSeq(s, a + 1, b)[i] = s[a + i]
  <1>1. Len(s) \in Nat
    BY LenProperties
  <1>2. \A i \in a + 1 .. b : s[i] \in S
    BY <1>1, ElementOfSeq
  <1>3. /\ SubSeq(s, a + 1, b) \in Seq(S)
        /\ Len(SubSeq(s, a + 1, b)) = IF a + 1 <= b THEN b - (a + 1) + 1 ELSE 0
        /\ \A i \in 1 .. b - (a + 1) + 1 : SubSeq(s, a + 1, b)[i] = s[(a + 1) + i - 1]
    BY <1>2, SubSeqProperties
  <1>4. \A i \in 1 .. b - a : SubSeq(s, a + 1, b)[i] = s[a + i]
    <2>. TAKE i \in 1 .. b - a
    <2>1. SubSeq(s, a + 1, b)[i] = s[(a + 1) + i - 1]
      BY <1>3
    <2>2. (a + 1) + i - 1 = a + i
      OBVIOUS
    <2>. QED  BY <2>1, <2>2
  <1>. QED  BY <1>3, <1>4

(* The slices of a chain, one after the other, are the chain: `cut` is     *)
(* where the memory of the ring ends.                                      *)
LEMMA SlicesAreTheChain ==
  ASSUME NEW S, NEW r \in Seq(S), NEW last \in 0 .. Len(r), NEW cut \in 0 .. last,
         NEW from \in Nat, NEW to \in Nat, from < to, to <= last
  PROVE  Slice0(SubSeq(r, 1, cut), from, to - from)
           \o Slice1(SubSeq(r, 1, cut), SubSeq(r, cut + 1, last), from, to - from)
         = SubSeq(r, from + 1, to)
  <1> DEFINE s0 == SubSeq(r, 1, cut)
             s1 == SubSeq(r, cut + 1, last)
  <1>1. Len(r) \in Nat /\ last \in Nat /\ cut \in Nat /\ to <= Len(r)
    BY LenProperties
  <1>2. s0 \in Seq(S) /\ Len(s0) = cut
    BY <1>1, PartIn, SubSeqEmpty, EmptySeq
  <1>3. s1 \in Seq(S) /\ Len(s1) = last - cut
    BY <1>1, PartIn
  <1>4. from + (to - from) = to
    OBVIOUS
  <1>. SUFFICES Slice0(s0, from, to - from) \o Slice1(s0, s1, from, to - from)
                = SubSeq(r, from + 1, to)
    OBVIOUS
  <1>. HIDE DEF s0, s1
  <1>5. CASE to <= cut
    <2>1. Slice1(s0, s1, from, to - from) = <<>>
      BY <1>1, <1>2, <1>5 DEF Slice1
    <2>2. Slice0(s0, from, to - from) = SubSeq(s0, from + 1, to)
      BY <1>1, <1>2, <1>5 DEF Slice0, Least
    <2>3. SubSeq(s0, from + 1, to) = SubSeq(r, 1 + (from + 1) - 1, 1 + to - 1)
      <3>1. 1 \in 1 .. Len(r) /\ cut \in 1 .. Len(r)
        BY <1>1, <1>5
      <3>2. from + 1 \in 1 .. cut - 1 + 1 /\ to \in 1 .. cut - 1 + 1
        BY <1>1, <1>5
      <3>. QED  BY <3>1, <3>2, <1>2, SubSeqOfSubSeq DEF s0
    <2>4. 1 + (from + 1) - 1 = from + 1 /\ 1 + to - 1 = to
      OBVIOUS
    <2>5. SubSeq(r, from + 1, to) \in Seq(S)
      BY <1>1, PartIn
    <2>. QED  BY <2>1, <2>2, <2>3, <2>4, <2>5, ConcatEmptySeq
  <1>6. CASE to > cut /\ from >= cut
    <2>1. Slice0(s0, from, to - from) = <<>>
      BY <1>1, <1>2, <1>6 DEF Slice0
    <2>2. Slice1(s0, s1, from, to - from) = SubSeq(s1, from - cut + 1, to - cut)
      <3>1. Len(s0) = cut /\ from + (to - from) > Len(s0) /\ from >= Len(s0)
        BY <1>1, <1>2, <1>6
      <3>2. ~(from + (to - from) <= Len(s0))
        BY <1>1, <1>2, <1>6
      <3>3. Slice1(s0, s1, from, to - from)
              = SubSeq(s1, from - Len(s0) + 1, from + (to - from) - Len(s0))
        BY <3>1, <3>2 DEF Slice1
      <3>. QED  BY <3>1, <3>3, <1>4
    <2>3. SubSeq(s1, from - cut + 1, to - cut)
            = SubSeq(r, (cut + 1) + (from - cut + 1) - 1, (cut + 1) + (to - cut) - 1)
      <3>1. cut + 1 \in 1 .. Len(r) /\ last \in 1 .. Len(r)
        BY <1>1, <1>6
      <3>2. /\ from - cut + 1 \in 1 .. last - (cut + 1) + 1
            /\ to - cut \in 1 .. last - (cut + 1) + 1
        BY <1>1, <1>6
      <3>. QED  BY <3>1, <3>2, <1>3, SubSeqOfSubSeq DEF s1
    <2>4. (cut + 1) + (from - cut + 1) - 1 = from + 1 /\ (cut + 1) + (to - cut) - 1 = to
      BY <1>1
    <2>5. SubSeq(r, from + 1, to) \in Seq(S)
      BY <1>1, PartIn
    <2>. QED  BY <2>1, <2>2, <2>3, <2>4, <2>5, ConcatEmptySeq
  <1>7. CASE to > cut /\ from < cut
    <2>1. Slice0(s0, from, to - from) = SubSeq(s0, from + 1, cut)
      BY <1>1, <1>2, <1>7 DEF Slice0, Least
    <2>2. SubSeq(s0, from + 1, cut) = SubSeq(r, 1 + (from + 1) - 1, 1 + cut - 1)
      <3>1. 1 \in 1 .. Len(r) /\ cut \in 1 .. Len(r)
        BY <1>1, <1>7
      <3>2. from + 1 \in 1 .. cut - 1 + 1 /\ cut \in 1 .. cut - 1 + 1
        BY <1>1, <1>7
      <3>. QED  BY <3>1, <3>2, <1>2, SubSeqOfSubSeq DEF s0
    <2>3. Slice1(s0, s1, from, to - from) = SubSeq(s1, 1, to - cut)
      <3>1. Len(s0) = cut /\ from + (to - from) > Len(s0) /\ from < Len(s0)
        BY <1>1, <1>2, <1>7
      <3>2. ~(from + (to - from) <= Len(s0)) /\ ~(from >= Len(s0))
        BY <1>1, <1>2, <1>7
      <3>3. Slice1(s0, s1, from, to - from) = SubSeq(s1, 1, from + (to - from) - Len(s0))
        BY <3>1, <3>2 DEF Slice1
      <3>. QED  BY <3>1, <3>3, <1>4
    <2>4. SubSeq(s1, 1, to - cut) = SubSeq(r, (cut + 1) + 1 - 1, (cut + 1) + (to - cut) - 1)
      <3>1. cut + 1 \in 1 .. Len(r) /\ last \in 1 .. Len(r)
        BY <1>1, <1>7
      <3>2. 1 \in 1 .. last - (cut + 1) + 1 /\ to - cut \in 1 .. last - (cut + 1) + 1
        BY <1>1, <1>7
      <3>. QED  BY <3>1, <3>2, <1>3, SubSeqOfSubSeq DEF s1
    <2>5. /\ 1 + (from + 1) - 1 = from + 1 /\ 1 + cut - 1 = cut
          /\ (cut + 1) + 1 - 1 = cut + 1 /\ (cut + 1) + (to - cut) - 1 = to
      BY <1>1
    <2>6. SubSeq(r, from + 1, cut) \o SubSeq(r, cut + 1, to) = SubSeq(r, from + 1, to)
      <3>1. /\ from + 1 \in 1 .. Len(r) + 1 /\ cut \in (from + 1) - 1 .. Len(r)
            /\ to \in cut .. Len(r)
        BY <1>1, <1>7
      <3>. QED  BY <3>1, ConcatAdjacentSubSeq
    <2>. QED  BY <2>1, <2>2, <2>3, <2>4, <2>5, <2>6
  <1>. QED  BY <1>1, <1>5, <1>6, <1>7

LEMMA CutIsInTheChunk ==
  ASSUME TypeOK, reading
  PROVE  /\ rec \in Channel
         /\ chunk \in 0 .. Len(ring[rec])
         /\ InFirst(rec) \in 0 .. chunk
  <1>1. rec \in Channel
    BY LogAssumption DEF TypeOK, Channel
  <1>2. chunk \in 0 .. Len(ring[rec])
    BY <1>1, LenProperties DEF TypeOK
  <1>3. Capacity[rec] \in Nat /\ start[rec] \in Nat /\ start[rec] < Capacity[rec]
    BY <1>1, LogAssumption DEF TypeOK, Channel
  <1>. QED  BY <1>1, <1>2, <1>3 DEF InFirst, ToTheEnd, TypeOK

LEMMA HandsTheChain ==
  ASSUME TypeOK, Hand
  PROVE  /\ last_end' \in last_end + 1 .. chunk
         /\ received' = [received EXCEPT ![rec] =
                           Append(@, SubSeq(ring[rec], last_end + 1, last_end'))]
         /\ \A i \in last_end + 1 .. last_end' : ring[rec][i].end <=> i = last_end'
  <1>1. rec \in Channel /\ chunk \in 0 .. Len(ring[rec]) /\ InFirst(rec) \in 0 .. chunk
    BY CutIsInTheChunk DEF Hand
  <1>2. PICK i \in Ends(rec) :
          /\ \A j \in Ends(rec) : i <= j
          /\ received' = [received EXCEPT ![rec] = Append(@,
               Slice0(First(rec), last_end, i - last_end)
                 \o Slice1(First(rec), Second(rec), last_end, i - last_end))]
          /\ last_end' = i
    BY DEF Hand
  <1>3. i \in last_end + 1 .. chunk /\ ring[rec][i].end
    BY <1>2 DEF Ends
  <1>4. last_end \in Nat /\ chunk \in Nat /\ i \in Nat /\ last_end < i /\ i <= chunk
    BY <1>3 DEF TypeOK
  <1>5. ring[rec] \in Seq(Part)
    BY <1>1 DEF TypeOK
  <1>6. Slice0(First(rec), last_end, i - last_end)
          \o Slice1(First(rec), Second(rec), last_end, i - last_end)
        = SubSeq(ring[rec], last_end + 1, i)
    BY <1>1, <1>4, <1>5, SlicesAreTheChain DEF First, Second
  <1>7. \A k \in last_end + 1 .. i : ring[rec][k].end <=> k = i
    <2>. TAKE k \in last_end + 1 .. i
    <2>1. k \in Nat /\ k \in last_end + 1 .. chunk /\ k <= i
      BY <1>4
    <2>2. ring[rec][k].end => k \in Ends(rec)
      BY <2>1 DEF Ends
    <2>3. ring[rec][k].end => i <= k
      BY <2>2, <1>2
    <2>4. k = i => ring[rec][k].end
      BY <1>3
    <2>5. ring[rec][k].end => k = i
      BY <2>1, <2>3, <1>4
    <2>6. ring[rec][k].end \in BOOLEAN
      <3>1. k \in 1 .. Len(ring[rec])
        BY <2>1, <1>1, <1>4, <1>5, LenProperties
      <3>2. ring[rec][k] \in Part
        BY <3>1, <1>5, ElementOfSeq
      <3>. QED  BY <3>2 DEF Part
    <2>. QED  BY <2>4, <2>5, <2>6, Zenon
  <1>. QED  BY <1>2, <1>3, <1>6, <1>7

-----------------------------------------------------------------------------
(***************************************************************************)
(* The types.                                                              *)
(***************************************************************************)
LEMMA InitTyped == Init => TypeOK
  <1>. SUFFICES ASSUME Init PROVE TypeOK
    OBVIOUS
  <1>1. <<>> \in Seq(Part) /\ <<>> \in Seq(Seq(Part)) /\ Len(<<>>) = 0
    BY EmptySeq
  <1>2. \A c \in Channel : Capacity[c] \in Nat \ {0}
    BY LogAssumption DEF Channel
  <1>3. /\ sending \in [Channel -> Seq(Part)] /\ ring \in [Channel -> Seq(Part)]
        /\ accepted \in [Channel -> Seq(Part)] /\ received \in [Channel -> Seq(Seq(Part))]
    BY <1>1 DEF Init
  <1>4. /\ messages \in [Channel -> Nat] /\ start \in [Channel -> Nat]
        /\ dropped \in [Channel -> BOOLEAN]
    BY DEF Init
  <1>5. \A c \in Channel : start[c] < Capacity[c] /\ Len(ring[c]) <= Capacity[c]
    BY <1>1, <1>2 DEF Init
  <1>6. /\ channels \in 0 .. MaxChannels /\ rec \in 0 .. channels
        /\ chunk \in Nat /\ last_end \in Nat /\ last_end <= chunk
    BY LogAssumption DEF Init
  <1>7. reading = FALSE
    BY DEF Init
  <1>. QED  BY <1>3, <1>4, <1>5, <1>6, <1>7 DEF TypeOK

LEMMA MessageTyped ==
  ASSUME NEW m \in Nat, NEW k \in Nat
  PROVE  Message(m + 1, k) \in Seq(Part)
  <1> DEFINE e(i) == [message |-> m + 1, part |-> i, last |-> k + 1, end |-> i = k + 1]
  <1>1. \A i \in 1 .. k + 1 : e(i) \in Part
    BY DEF Part
  <1>2. k + 1 \in Nat
    OBVIOUS
  <1>. HIDE DEF e
  <1>3. [i \in 1 .. k + 1 |-> e(i)] \in Seq(Part)
    BY <1>1, <1>2, IsASeq
  <1>. QED  BY <1>3 DEF Message, e

LEMMA StepTyped == TypeOK /\ [Next]_vars => TypeOK'
  <1>. SUFFICES ASSUME TypeOK, [Next]_vars PROVE TypeOK'
    OBVIOUS
  <1>. USE LogAssumption
  <1>1. CASE Sender
    BY <1>1 DEF Sender, TypeOK, sender, receiver
  <1>2. ASSUME NEW c \in Channel, Log(c) PROVE TypeOK'
    <2>1. PICK k \in 0 .. MaxParts :
            sending' = [sending EXCEPT ![c] = Message(messages[c] + 1, k)]
      BY <1>2 DEF Log
    <2>2. Message(messages[c] + 1, k) \in Seq(Part)
      <3>1. messages[c] \in Nat /\ k \in Nat
        BY DEF TypeOK
      <3>. QED  BY <3>1, MessageTyped
    <2>3. sending' \in [Channel -> Seq(Part)] /\ messages' \in [Channel -> Nat]
      <3>1. sending \in [Channel -> Seq(Part)] /\ messages \in [Channel -> Nat]
        BY DEF TypeOK
      <3>2. messages' = [messages EXCEPT ![c] = @ + 1]
        BY <1>2 DEF Log
      <3>. QED  BY <2>1, <2>2, <3>1, <3>2
    <2>. QED  BY <1>2, <2>3 DEF Log, TypeOK, receiver
  <1>3. ASSUME NEW c \in Channel, Send(c) PROVE TypeOK'
    <2>1. sending[c] \in Seq(Part) /\ sending[c] # <<>> /\ ring[c] \in Seq(Part)
          /\ accepted[c] \in Seq(Part)
      BY <1>3 DEF Send, TypeOK
    <2>2. Head(sending[c]) \in Part /\ Tail(sending[c]) \in Seq(Part)
      BY <2>1, HeadTailProperties
    <2>3. sending' \in [Channel -> Seq(Part)]
      BY <1>3, <2>2 DEF Send, TypeOK
    <2>4. CASE Fits(c)
      <3>1. Append(ring[c], Head(sending[c])) \in Seq(Part)
            /\ Len(Append(ring[c], Head(sending[c]))) = Len(ring[c]) + 1
            /\ Append(accepted[c], Head(sending[c])) \in Seq(Part)
        BY <2>1, <2>2, AppendProperties
      <3>2. ring' = [ring EXCEPT ![c] = Append(@, Head(sending[c]))]
            /\ accepted' = [accepted EXCEPT ![c] = Append(@, Head(sending[c]))]
            /\ dropped' = dropped
        BY <1>3, <2>4 DEF Send
      <3>3. ring' \in [Channel -> Seq(Part)] /\ accepted' \in [Channel -> Seq(Part)]
        BY <3>1, <3>2 DEF TypeOK
      <3>4. Len(ring[c]) \in Nat /\ Capacity[c] \in Nat /\ Len(ring[c]) < Capacity[c]
        BY <2>1, <2>4, LenProperties DEF Fits, Channel
      <3>5. \A d \in Channel : Len(ring'[d]) <= Capacity[d]
        <4>1. ring \in [Channel -> Seq(Part)]
              /\ \A d \in Channel : Len(ring[d]) <= Capacity[d]
          BY DEF TypeOK
        <4>. QED  BY <3>1, <3>2, <3>4, <4>1
      <3>6. reading => chunk <= Len(ring'[rec])
        <4>. HAVE reading
        <4>1. rec \in Channel /\ chunk \in Nat /\ chunk <= Len(ring[rec])
          BY CutIsInTheChunk DEF TypeOK
        <4>. QED  BY <4>1, <3>1, <3>2, <3>4 DEF TypeOK
      <3>. QED  BY <1>3, <2>3, <3>2, <3>3, <3>5, <3>6 DEF Send, TypeOK, receiver
    <2>5. CASE ~Fits(c)
      BY <1>3, <2>3, <2>5 DEF Send, TypeOK, receiver
    <2>. QED  BY <2>4, <2>5
  <1>4. CASE Recv
    BY <1>4 DEF Recv, TypeOK, sender
  <1>5. CASE ReadChunk
    <2>1. rec \in Channel
      BY <1>5 DEF ReadChunk, TypeOK, Channel
    <2>2. Len(ring[rec]) \in Nat
      BY <2>1, LenProperties DEF TypeOK
    <2>3. rec' = rec /\ reading' /\ ring' = ring /\ channels' = channels
          /\ chunk' = Len(ring[rec]) /\ last_end' = 0 /\ reading' = TRUE
      BY <1>5 DEF ReadChunk
    <2>4. chunk' \in Nat /\ last_end' \in Nat /\ last_end' <= chunk'
          /\ chunk' <= Len(ring'[rec'])
      BY <2>2, <2>3
    <2>5. rec # 0 /\ UNCHANGED <<sending, messages, dropped, accepted, start, received>>
      BY <1>5 DEF ReadChunk, sender
    <2>. QED  BY <2>3, <2>4, <2>5 DEF TypeOK
  <1>6. CASE Hand
    <2>1. rec \in Channel /\ ring[rec] \in Seq(Part) /\ chunk \in 0 .. Len(ring[rec])
      BY <1>6, CutIsInTheChunk DEF Hand, TypeOK
    <2>2. last_end' \in last_end + 1 .. chunk
          /\ received' = [received EXCEPT ![rec] =
                            Append(@, SubSeq(ring[rec], last_end + 1, last_end'))]
      BY <1>6, HandsTheChain
    <2>3. last_end' \in Nat /\ last_end' <= chunk /\ last_end' <= Len(ring[rec])
          /\ last_end \in Nat
      BY <2>1, <2>2, LenProperties DEF TypeOK
    <2>4. SubSeq(ring[rec], last_end + 1, last_end') \in Seq(Part)
      BY <2>1, <2>3, PartIn
    <2>5. Append(received[rec], SubSeq(ring[rec], last_end + 1, last_end')) \in Seq(Seq(Part))
      BY <2>1, <2>4, AppendProperties DEF TypeOK
    <2>6. received' \in [Channel -> Seq(Seq(Part))]
      BY <2>2, <2>5 DEF TypeOK
    <2>. QED  BY <1>6, <2>3, <2>6 DEF Hand, TypeOK, sender
  <1>7. CASE Commit
    <2>1. rec \in Channel /\ ring[rec] \in Seq(Part) /\ chunk \in 0 .. Len(ring[rec])
      BY <1>7, CutIsInTheChunk DEF Commit, TypeOK
    <2>2. Len(ring[rec]) \in Nat /\ last_end \in Nat
      BY <2>1, LenProperties DEF TypeOK
    <2>3. /\ SubSeq(ring[rec], last_end + 1, Len(ring[rec])) \in Seq(Part)
          /\ Len(SubSeq(ring[rec], last_end + 1, Len(ring[rec]))) <= Len(ring[rec])
      BY <2>1, <2>2, PartIn
    <2>4. ring' = [ring EXCEPT ![rec] = SubSeq(ring[rec], last_end + 1, Len(ring[rec]))]
      BY <1>7 DEF Commit, Committed
    <2>5. ring' \in [Channel -> Seq(Part)]
      BY <2>3, <2>4 DEF TypeOK
    <2>6. Capacity[rec] \in Nat \ {0} /\ Len(ring[rec]) <= Capacity[rec]
      BY <2>1 DEF TypeOK, Channel
    <2>7. \A c \in Channel : Len(ring'[c]) <= Capacity[c]
      <3> DEFINE rest == SubSeq(ring[rec], last_end + 1, Len(ring[rec]))
      <3>1. Len(rest) \in Nat
        BY <2>3, LenProperties
      <3>2. ring \in [Channel -> Seq(Part)]
            /\ \A d \in Channel : Len(ring[d]) <= Capacity[d]
        BY DEF TypeOK
      <3>3. Len(rest) <= Len(ring[rec])
        BY <2>3
      <3>. HIDE DEF rest
      <3>4. Len(rest) <= Capacity[rec]
        BY <3>1, <3>3, <2>2, <2>6
      <3>5. ring' = [ring EXCEPT ![rec] = rest]
        BY <2>4 DEF rest
      <3>. QED  BY <3>2, <3>4, <3>5
    <2>8. start[rec] + last_end \in Nat
      BY <2>1, <2>2 DEF TypeOK
    <2>9. (start[rec] + last_end) % Capacity[rec] \in 0 .. Capacity[rec] - 1
      BY <2>6, <2>8
    <2>10. start' \in [Channel -> Nat] /\ \A c \in Channel : start'[c] < Capacity[c]
      <3> DEFINE next == (start[rec] + last_end) % Capacity[rec]
      <3>1. next \in Nat /\ next < Capacity[rec]
        BY <2>6, <2>9
      <3>2. start \in [Channel -> Nat] /\ \A c \in Channel : start[c] < Capacity[c]
        BY DEF TypeOK
      <3>3. start' = [start EXCEPT ![rec] = next]
        BY <1>7 DEF Commit
      <3>. HIDE DEF next
      <3>. QED  BY <3>1, <3>2, <3>3
    <2>11. rec' \in 0 .. channels
      BY <1>7 DEF Commit, TypeOK
    <2>12. UNCHANGED <<channels, sending, messages, dropped, accepted, received>>
           /\ reading' = FALSE /\ chunk' = 0 /\ last_end' = 0
      BY <1>7 DEF Commit, sender
    <2>13. chunk' \in Nat /\ last_end' \in Nat /\ last_end' <= chunk'
           /\ channels' \in 0 .. MaxChannels /\ rec' \in 0 .. channels'
      BY <2>11, <2>12 DEF TypeOK
    <2>14. /\ sending' \in [Channel -> Seq(Part)] /\ messages' \in [Channel -> Nat]
           /\ accepted' \in [Channel -> Seq(Part)] /\ dropped' \in [Channel -> BOOLEAN]
           /\ received' \in [Channel -> Seq(Seq(Part))]
      BY <2>12 DEF TypeOK
    <2>15. reading' \in BOOLEAN /\ (reading' => rec' # 0 /\ chunk' <= Len(ring'[rec']))
      BY <2>12
    <2>. QED  BY <2>5, <2>7, <2>10, <2>13, <2>14, <2>15 DEF TypeOK
  <1>8. CASE UNCHANGED vars
    BY <1>8 DEF vars, TypeOK
  <1>. QED  BY <1>1, <1>2, <1>3, <1>4, <1>5, <1>6, <1>7, <1>8 DEF Next

(* The state is of its types, and no ring ever holds more than it has room *)
(* for, nor recv more than what lies in the ring (log.rs:158-266).         *)
THEOREM Typed == Spec => []TypeOK
  <1>. QED  BY InitTyped, StepTyped, PTL DEF Spec

-----------------------------------------------------------------------------
(* Each chain that recv hands over is what lies in the ring up to the next *)
(* End, in order, over the end of the memory too, and what it leaves stays *)
(* in the ring (log.rs:158-193).                                           *)
LEMMA StepHands ==
  ASSUME TypeOK, [Next]_vars, NEW c \in Channel
  PROVE  /\ received'[c] # received[c] =>
              /\ received'[c] = Append(received[c],
                                       SubSeq(ring[c], Given(c) + 1, Given(c)'))
              /\ \A i \in Given(c) + 1 .. Given(c)' : ring[c][i].end <=> i = Given(c)'
         /\ Len(ring'[c]) < Len(ring[c]) => ring'[c] = SubSeq(ring[c], Given(c) + 1, Len(ring[c]))
  <1>1. CASE Hand
    <2>1. reading /\ rec' = rec /\ reading' /\ ring' = ring
      BY <1>1 DEF Hand
    <2>2. c # rec => received'[c] = received[c]
      BY <1>1, HandsTheChain DEF TypeOK
    <2>3. CASE c = rec
      <3>1. Given(c) = last_end /\ Given(c)' = last_end'
        BY <2>1, <2>3 DEF Given
      <3>2. /\ received'[c] = Append(received[c], SubSeq(ring[c], last_end + 1, last_end'))
            /\ \A i \in last_end + 1 .. last_end' : ring[c][i].end <=> i = last_end'
        BY <1>1, <2>3, HandsTheChain DEF TypeOK
      <3>3. Len(ring'[c]) = Len(ring[c]) /\ Len(ring[c]) \in Nat
        BY <2>1, LenProperties DEF TypeOK
      <3>. QED  BY <3>1, <3>2, <3>3
    <2>4. ~(Len(ring'[c]) < Len(ring[c]))
      BY <2>1, LenProperties DEF TypeOK
    <2>. QED  BY <2>2, <2>3, <2>4
  <1>2. CASE Commit
    <2>1. received' = received /\ reading
          /\ ring' = [ring EXCEPT ![rec] = SubSeq(ring[rec], last_end + 1, Len(ring[rec]))]
      BY <1>2 DEF Commit, Committed
    <2>2. CASE c = rec
      BY <2>1, <2>2 DEF Given, TypeOK
    <2>3. CASE c # rec
      BY <2>1, <2>3, LenProperties DEF TypeOK
    <2>. QED  BY <2>1, <2>2, <2>3
  <1>3. ASSUME NEW d \in Channel, Send(d)
        PROVE  received' = received /\ ~(Len(ring'[c]) < Len(ring[c]))
    <2>1. received' = received
      BY <1>3 DEF Send, receiver
    <2>2. Len(ring[c]) \in Nat
      BY LenProperties DEF TypeOK
    <2>3. CASE Fits(d)
      <3>1. ring' = [ring EXCEPT ![d] = Append(@, Head(sending[d]))]
        BY <1>3, <2>3 DEF Send
      <3>2. Head(sending[d]) \in Part
        BY <1>3, HeadTailProperties DEF Send, TypeOK
      <3>3. Len(Append(ring[d], Head(sending[d]))) = Len(ring[d]) + 1
        BY <3>2, AppendProperties DEF TypeOK
      <3>. QED  BY <2>1, <2>2, <3>1, <3>3 DEF TypeOK
    <2>4. CASE ~Fits(d)
      BY <1>3, <2>1, <2>2, <2>4 DEF Send
    <2>. QED  BY <2>3, <2>4
  <1>4. Sender \/ Recv \/ ReadChunk \/ (\E d \in Channel : Log(d)) \/ UNCHANGED vars
          => received' = received /\ ring' = ring
    BY DEF Sender, Recv, ReadChunk, Log, vars, receiver
  <1>5. ring' = ring => ~(Len(ring'[c]) < Len(ring[c]))
    BY LenProperties DEF TypeOK
  <1>. QED  BY <1>1, <1>2, <1>3, <1>4, <1>5 DEF Next

(* What recv hands to log_handler is the next chain in the ring up to its  *)
(* End, for every capacity and wherever in the memory of the ring the      *)
(* chain lies, and it gives back just what it has handed over              *)
(* (log.rs:166-193).                                                       *)
THEOREM Handed == Spec => HandedAsItLies
  <1>1. TypeOK /\ [Next]_vars =>
          \A c \in Channel :
            /\ received'[c] # received[c] =>
                 /\ received'[c] = Append(received[c],
                                          SubSeq(ring[c], Given(c) + 1, Given(c)'))
                 /\ \A i \in Given(c) + 1 .. Given(c)' : ring[c][i].end <=> i = Given(c)'
            /\ Len(ring'[c]) < Len(ring[c]) =>
                 ring'[c] = SubSeq(ring[c], Given(c) + 1, Len(ring[c]))
    BY StepHands
  <1>. QED  BY <1>1, Typed, PTL DEF Spec, HandedAsItLies
=============================================================================
