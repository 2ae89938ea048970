---------------------------- MODULE DriverProofs ----------------------------
(***************************************************************************)
(* Proofs about Blocks and Driver, for blocks of every size, any number of *)
(* frames that the host asks for and any splits.                           *)
(*                                                                         *)
(* Channels do not overlap, in a block of any size and in any part of it:  *)
(* what the unsafe code of the blocks relies on.  So the parts that the    *)
(* wrappers make play a whole block between them, and what is in memory,   *)
(* by the counters of the backend, is the next that the host hears.        *)
(***************************************************************************)
EXTENDS Driver, SequenceTheorems, TLAPS

(***************************************************************************)
(* Blocks.                                                                 *)
(***************************************************************************)
(* Channels are apart by whole channels.                                   *)
LEMMA ChannelsApart ==
  ASSUME NEW size \in Nat, NEW c \in Nat, NEW d \in Nat, c < d
  PROVE  c * size + size <= d * size
  <1>1. PICK k \in Nat : d = c + 1 + k
    <2>1. d - c - 1 \in Nat /\ d = c + 1 + (d - c - 1)
      OBVIOUS
    <2>. QED  BY <2>1
  <1>2. (c + 1 + k) * size = c * size + size + k * size
    BY SMT
  <1>3. k * size \in Nat /\ c * size \in Nat
    BY SMT
  <1> DEFINE p == c * size
             q == k * size
             r == d * size
  <1>4. r = p + size + q /\ p \in Nat /\ q \in Nat
    BY <1>1, <1>2, <1>3
  <1>. HIDE DEF p, q, r
  <1>5. p + size <= r
    BY <1>4
  <1>. QED  BY <1>5 DEF p, r

(* The channels of a contiguous block, of the raw pointers, a VecBlock or  *)
(* a StaticBlock, do not overlap: iter_mut may hand them out at once       *)
(* (knaster_primitives/src/block.rs:20-32, knaster_graph/src/block.rs).    *)
THEOREM ContiguousDisjoint ==
  ASSUME NEW buffer \in Nat, NEW channels \in Nat, NEW size \in Nat
  PROVE  /\ Disjoint(Contiguous(buffer, channels, size))
         /\ Disjoint(VecBlock(buffer, channels, size))
  <1> DEFINE b == Contiguous(buffer, channels, size)
             v == VecBlock(buffer, channels, size)
  <1>1. /\ Channels(b) = 0 .. channels - 1 /\ b.block_size = size
        /\ \A c \in 0 .. channels - 1 : b.starts[c] = buffer + c * size
    BY DEF Contiguous, Channels
  <1>2. v.starts = b.starts /\ v.block_size = b.block_size
    BY DEF VecBlock, Contiguous
  <1>. HIDE DEF b, v
  <1>3. ASSUME NEW c \in Channels(b), NEW d \in Channels(b), c < d,
               NEW x \in ChannelAsSlice(b, c), x \in ChannelAsSlice(b, d)
        PROVE  FALSE
    <2>1. c \in Nat /\ d \in Nat
      BY <1>1
    <2>2. c * size + size <= d * size /\ c * size \in Nat /\ d * size \in Nat
      BY <2>1, <1>3, ChannelsApart, SMT
    <2> DEFINE p == c * size
               r == d * size
    <2>3. x \in buffer + p .. buffer + p + size - 1 /\ x \in buffer + r .. buffer + r + size - 1
      BY <1>1, <1>3 DEF ChannelAsSlice
    <2>4. p + size <= r /\ p \in Nat /\ r \in Nat
      BY <2>2
    <2>. HIDE DEF p, r
    <2>. QED  BY <2>3, <2>4
  <1>4. Disjoint(b)
    <2>1. \A c, d \in Channels(b) : c # d => c < d \/ d < c
      BY <1>1
    <2>. QED  BY <1>3, <2>1 DEF Disjoint
  <1>5. Disjoint(v)
    BY <1>2, <1>4 DEF Disjoint, ChannelAsSlice, Channels
  <1>. QED  BY <1>4, <1>5 DEF b, v

(* A part of a block lies within it, so its channels do not overlap        *)
(* either, whatever part of a part it is (block.rs:190-300).               *)
THEOREM PartialWithin ==
  ASSUME NEW b, NEW start \in Nat, NEW length \in Nat,
         b.block_size \in Nat, \A c \in Channels(b) : b.starts[c] \in Nat,
         start + length <= b.block_size
  PROVE  /\ PartOf(Partial(b, start, length), b)
         /\ Disjoint(b) => Disjoint(Partial(b, start, length))
  <1> DEFINE p == Partial(b, start, length)
  <1>1. /\ Channels(p) = Channels(b) /\ p.block_size = length
        /\ \A c \in Channels(b) : p.starts[c] = b.starts[c] + start
    BY DEF Partial, Channels
  <1>. HIDE DEF p
  <1>2. \A c \in Channels(b) : ChannelAsSlice(p, c) \subseteq ChannelAsSlice(b, c)
    <2>. TAKE c \in Channels(b)
    <2> DEFINE at == b.starts[c]
    <2>1. at \in Nat /\ b.block_size \in Nat /\ p.starts[c] = at + start /\ p.block_size = length
      BY <1>1
    <2>. HIDE DEF at
    <2>2. at + start .. at + start + length - 1 \subseteq at .. at + b.block_size - 1
      BY <2>1
    <2>. QED  BY <2>1, <2>2 DEF ChannelAsSlice, at
  <1>3. PartOf(p, b)
    BY <1>1, <1>2 DEF PartOf
  <1>4. ASSUME Disjoint(b) PROVE Disjoint(p)
    BY <1>1, <1>2, <1>4, Zenon DEF Disjoint
  <1>. QED  BY <1>3, <1>4 DEF p

(* A part of a part is a part: its frames are those of the block from the  *)
(* sum of the offsets on, and the metadata of the block counts the same,   *)
(* in its offset and in its clock (block.rs:190, ugen.rs:81-88).           *)
THEOREM PartialOfPartial ==
  ASSUME NEW b, NEW m, NEW s \in Nat, NEW n \in Nat, NEW t \in Nat, NEW k \in Nat,
         \A c \in Channels(b) : b.starts[c] \in Nat /\ b.limit[c] \in Int,
         m.block_start_offset \in Nat, m.frame_clock \in Nat
  PROVE  /\ \A c \in Channels(b), f \in Nat :
              /\ At(Partial(Partial(b, s, n), t, k), c, f) = At(Partial(b, s + t, k), c, f)
              /\ Accepted(Partial(Partial(b, s, n), t, k), c, f)
                   <=> Accepted(Partial(b, s + t, k), c, f)
         /\ MakePartial(MakePartial(m, s, n), t, k) = MakePartial(m, s + t, k)
  <1>1. ASSUME NEW c \in Channels(b), NEW f \in Nat
        PROVE  /\ At(Partial(Partial(b, s, n), t, k), c, f) = At(Partial(b, s + t, k), c, f)
               /\ Accepted(Partial(Partial(b, s, n), t, k), c, f)
                    <=> Accepted(Partial(b, s + t, k), c, f)
    <2>1. /\ Partial(Partial(b, s, n), t, k).starts[c] = b.starts[c] + s + t
          /\ Partial(b, s + t, k).starts[c] = b.starts[c] + (s + t)
      BY DEF Partial, Channels
    <2>2. /\ Partial(Partial(b, s, n), t, k).limit[c] = b.limit[c] - s - t
          /\ Partial(b, s + t, k).limit[c] = b.limit[c] - (s + t)
      BY DEF Partial, Channels
    <2>3. /\ Channels(Partial(Partial(b, s, n), t, k)) = Channels(b)
          /\ Channels(Partial(b, s + t, k)) = Channels(b)
      BY DEF Partial, Channels
    <2>4. At(Partial(Partial(b, s, n), t, k), c, f) = At(Partial(b, s + t, k), c, f)
      BY <2>1 DEF At
    <2>5. Accepted(Partial(Partial(b, s, n), t, k), c, f) <=> Accepted(Partial(b, s + t, k), c, f)
      <3>1. f < b.limit[c] - s - t <=> f < b.limit[c] - (s + t)
        OBVIOUS
      <3>. QED  BY <2>2, <2>3, <3>1 DEF Accepted
    <2>. QED  BY <2>4, <2>5
  <1>2. MakePartial(MakePartial(m, s, n), t, k) = MakePartial(m, s + t, k)
    BY DEF MakePartial
  <1>. QED  BY <1>1, <1>2
-----------------------------------------------------------------------------
(***************************************************************************)
(* The driver.  However the wrappers split it, what the node plays into    *)
(* its output is a whole block.                                            *)
(***************************************************************************)
(* The memory after a node has played some frames of the block that starts *)
(* at frame `clock`.                                                       *)
Played(mem, clock, start, length) ==
  [a \in Addresses |->
     IF a \in start .. start + length - 1 THEN clock + a
     ELSE IF a - BlockSize \in start .. start + length - 1
     THEN IF inputs = 1 THEN mem[4 * BlockSize + (a - BlockSize)] ELSE Zero
     ELSE mem[a]]

(* These blocks and metadata are those of such frames.                     *)
PartsAt(m, in, out, clock, start, length) ==
  /\ m.frames_to_process = length /\ m.frame_clock = clock + start
  /\ DOMAIN out.starts = 0 .. 1
  /\ out.starts[0] = start /\ out.starts[1] = BlockSize + start
  /\ inputs = 1 => 0 \in DOMAIN in.starts /\ in.starts[0] = 4 * BlockSize + start

LEMMA PlayPlays ==
  ASSUME NEW mem, NEW m, NEW in, NEW out, NEW clock \in Nat, NEW start \in Nat,
         NEW length \in Nat, start + length <= BlockSize,
         PartsAt(m, in, out, clock, start, length)
  PROVE  Play(mem, m, in, out) = Played(mem, clock, start, length)
  <1> DEFINE At0(f) == At(out, 0, f)
             At1(f) == At(out, 1, f)
             frames == 0 .. m.frames_to_process - 1
  <1>0. BlockSize \in Nat
    BY DriverAssumption
  <1>1. \A f \in Nat : At0(f) = start + f /\ At1(f) = BlockSize + start + f
    BY <1>0 DEF PartsAt, At
  <1>2. m.frames_to_process = length /\ m.frame_clock = clock + start
    BY DEF PartsAt
  <1>3. frames = 0 .. length - 1 /\ frames \subseteq Nat
    BY <1>2
  <1>4. ASSUME NEW a \in Addresses
        PROVE  /\ (\E f \in frames : a = At0(f)) <=> a \in start .. start + length - 1
               /\ (\E f \in frames : a = At1(f)) <=> a - BlockSize \in start .. start + length - 1
               /\ m.frame_clock + (a - At0(0)) = clock + a
               /\ inputs = 1 /\ a - BlockSize \in start .. start + length - 1
                    => At(in, 0, a - At1(0)) = 4 * BlockSize + (a - BlockSize)
    <2>1. a \in Int
      BY <1>0 DEF Addresses
    <2>2. (\E f \in frames : a = At0(f)) <=> a \in start .. start + length - 1
      <3>1. ASSUME a \in start .. start + length - 1
            PROVE  a - start \in frames /\ a = At0(a - start)
        <4>1. a - start \in 0 .. length - 1 /\ start + (a - start) = a
          BY <2>1, <3>1
        <4>. HIDE DEF At0, frames
        <4>. QED  BY <4>1, <1>1, <1>3
      <3>2. ASSUME NEW f \in frames, a = At0(f) PROVE a \in start .. start + length - 1
        <4>1. f \in 0 .. length - 1 /\ a = start + f
          <5>. HIDE DEF At0, frames
          <5>. QED  BY <3>2, <1>1, <1>3
        <4>. QED  BY <4>1
      <3>. HIDE DEF At0, frames
      <3>. QED  BY <3>1, <3>2
    <2>3. (\E f \in frames : a = At1(f)) <=> a - BlockSize \in start .. start + length - 1
      <3>1. ASSUME a - BlockSize \in start .. start + length - 1
            PROVE  a - BlockSize - start \in frames /\ a = At1(a - BlockSize - start)
        <4>1. /\ a - BlockSize - start \in 0 .. length - 1
              /\ BlockSize + start + (a - BlockSize - start) = a
          BY <1>0, <2>1, <3>1
        <4>. HIDE DEF At1, frames
        <4>. QED  BY <4>1, <1>1, <1>3
      <3>2. ASSUME NEW f \in frames, a = At1(f)
            PROVE  a - BlockSize \in start .. start + length - 1
        <4>1. f \in 0 .. length - 1 /\ a = BlockSize + start + f
          <5>. HIDE DEF At1, frames
          <5>. QED  BY <3>2, <1>1, <1>3
        <4>. QED  BY <1>0, <4>1
      <3>. HIDE DEF At1, frames
      <3>. QED  BY <3>1, <3>2
    <2>4. At0(0) = start /\ At1(0) = BlockSize + start
      <3>1. At0(0) = start + 0 /\ At1(0) = BlockSize + start + 0
        <4>. HIDE DEF At0, At1
        <4>. QED  BY <1>1
      <3>. QED  BY <1>0, <3>1
    <2>5. m.frame_clock + (a - At0(0)) = clock + a
      BY <1>2, <2>1, <2>4
    <2>6. ASSUME inputs = 1, a - BlockSize \in start .. start + length - 1
          PROVE  At(in, 0, a - At1(0)) = 4 * BlockSize + (a - BlockSize)
      <3>1. in.starts[0] = 4 * BlockSize + start
        BY <2>6 DEF PartsAt
      <3>2. 4 * BlockSize + start + (a - (BlockSize + start)) = 4 * BlockSize + (a - BlockSize)
        BY <1>0, <2>1
      <3>. QED  BY <2>4, <3>1, <3>2 DEF At
    <2>. HIDE DEF At0, At1, frames
    <2>. QED  BY <2>2, <2>3, <2>5, <2>6
  <1>5. Play(mem, m, in, out) =
          [a \in Addresses |->
             IF \E f \in frames : a = At0(f) THEN m.frame_clock + (a - At0(0))
             ELSE IF \E f \in frames : a = At1(f)
             THEN IF inputs = 1 THEN mem[At(in, 0, a - At1(0))] ELSE Zero
             ELSE mem[a]]
    BY DEF Play
  <1>. HIDE DEF At0, At1, frames
  <1>. QED  BY <1>4, <1>5, Zenon DEF Played

(* Half of a part is a part, whose frames come later.                      *)
LEMMA PartsOfParts ==
  ASSUME NEW m, NEW in, NEW out, NEW clock \in Nat, NEW start \in Nat, NEW length \in Nat,
         PartsAt(m, in, out, clock, start, length), NEW s \in Nat, NEW n \in Nat
  PROVE  PartsAt(MakePartial(m, s, n), Partial(in, s, n), Partial(out, s, n), clock,
                 start + s, n)
  <1>0. BlockSize \in Nat
    BY DriverAssumption
  <1>1. /\ MakePartial(m, s, n).frames_to_process = n
        /\ MakePartial(m, s, n).frame_clock = m.frame_clock + s
    BY DEF MakePartial
  <1>2. /\ m.frame_clock = clock + start
        /\ DOMAIN out.starts = 0 .. 1
        /\ out.starts[0] = start /\ out.starts[1] = BlockSize + start
        /\ inputs = 1 => 0 \in DOMAIN in.starts /\ in.starts[0] = 4 * BlockSize + start
    BY DEF PartsAt
  <1>3. \A b : /\ DOMAIN Partial(b, s, n).starts = DOMAIN b.starts
               /\ \A c \in DOMAIN b.starts : Partial(b, s, n).starts[c] = b.starts[c] + s
    BY DEF Partial, Channels
  <1>4. /\ DOMAIN Partial(out, s, n).starts = 0 .. 1
        /\ Partial(out, s, n).starts[0] = start + s
        /\ Partial(out, s, n).starts[1] = BlockSize + start + s
    BY <1>2, <1>3
  <1>5. inputs = 1 => /\ 0 \in DOMAIN Partial(in, s, n).starts
                      /\ Partial(in, s, n).starts[0] = 4 * BlockSize + start + s
    BY <1>2, <1>3
  <1>6. /\ clock + start + s = clock + (start + s)
        /\ BlockSize + start + s = BlockSize + (start + s)
        /\ 4 * BlockSize + start + s = 4 * BlockSize + (start + s)
    BY <1>0
  <1>. QED  BY <1>1, <1>2, <1>4, <1>5, <1>6 DEF PartsAt

LEMMA PlayedTwice ==
  ASSUME NEW mem, NEW clock \in Nat, NEW start \in Nat, NEW k \in Nat, NEW l \in Nat,
         start + k + l <= BlockSize
  PROVE  Played(Played(mem, clock, start, k), clock, start + k, l)
           = Played(mem, clock, start, k + l)
  <1>0. BlockSize \in Nat
    BY DriverAssumption
  <1> DEFINE first == Played(mem, clock, start, k)
  <1>1. ASSUME NEW a \in Addresses
        PROVE  Played(first, clock, start + k, l)[a] = Played(mem, clock, start, k + l)[a]
    <2>1. a \in Int
      BY <1>0 DEF Addresses
    <2>2. \A x \in Int : /\ x \in start .. start + (k + l) - 1
                              <=> \/ x \in start .. start + k - 1
                                  \/ x \in start + k .. start + k + l - 1
                         /\ ~ (x \in start .. start + k - 1 /\ x \in start + k .. start + k + l - 1)
      OBVIOUS
    <2>3. \A x \in Int : x \in start .. start + k - 1 \/ x \in start + k .. start + k + l - 1
                           => x \in 0 .. BlockSize - 1
      BY <1>0
    <2>4. CASE a \in start + k .. start + k + l - 1
      BY <2>1, <2>2, <2>4 DEF Played
    <2>5. CASE a - BlockSize \in start + k .. start + k + l - 1
      <3> DEFINE i == 4 * BlockSize + (a - BlockSize)
      <3>1. a - BlockSize \in 0 .. BlockSize - 1 /\ a - BlockSize \in Int
        BY <1>0, <2>1, <2>3, <2>5
      <3>2. /\ i \in Addresses
            /\ i \notin 0 .. BlockSize - 1 /\ i - BlockSize \notin 0 .. BlockSize - 1
            /\ i \in Int /\ i - BlockSize \in Int
        BY <1>0, <3>1, <2>1 DEF Addresses
      <3>3. first[i] = mem[i]
        <4>. HIDE DEF i
        <4>. QED  BY <3>2, <2>3 DEF Played
      <3>4. a \notin 0 .. BlockSize - 1
        BY <1>0, <2>1, <3>1
      <3>5. Played(first, clock, start + k, l)[a] = IF inputs = 1 THEN first[i] ELSE Zero
        <4>. HIDE DEF first
        <4>. QED  BY <2>1, <2>3, <2>5, <3>4 DEF Played
      <3>6. Played(mem, clock, start, k + l)[a] = IF inputs = 1 THEN mem[i] ELSE Zero
        BY <2>1, <2>2, <2>3, <2>5, <3>1, <3>4 DEF Played
      <3>. QED  BY <3>3, <3>5, <3>6
    <2>6. CASE /\ a \notin start + k .. start + k + l - 1
               /\ a - BlockSize \notin start + k .. start + k + l - 1
      <3>1. Played(first, clock, start + k, l)[a] = first[a]
        <4>. HIDE DEF first
        <4>. QED  BY <2>6 DEF Played
      <3>2. a - BlockSize \in Int
        BY <1>0, <2>1
      <3>. QED  BY <2>1, <2>2, <2>6, <3>1, <3>2 DEF Played
    <2>. QED  BY <2>4, <2>5, <2>6
  <1>2. /\ DOMAIN Played(first, clock, start + k, l) = Addresses
        /\ DOMAIN Played(mem, clock, start, k + l) = Addresses
    BY DEF Played
  <1>3. /\ Played(first, clock, start + k, l)
             = [a \in Addresses |-> Played(first, clock, start + k, l)[a]]
        /\ Played(mem, clock, start, k + l)
             = [a \in Addresses |-> Played(mem, clock, start, k + l)[a]]
    BY DEF Played
  <1>. HIDE DEF first
  <1>4. Played(first, clock, start + k, l) = Played(mem, clock, start, k + l)
    BY <1>1, <1>3, Zenon
  <1>. QED  BY <1>4 DEF first

LEMMA InnerPlays ==
  ASSUME NEW mem, NEW m, NEW in, NEW out, NEW clock \in Nat, NEW start \in Nat,
         NEW length \in Nat, start + length <= BlockSize, NEW split \in 0 .. length,
         PartsAt(m, in, out, clock, start, length)
  PROVE  Inner(mem, m, in, out, split) = Played(mem, clock, start, length)
  <1>0. BlockSize \in Nat
    BY DriverAssumption
  <1>1. CASE split = 0
    BY <1>1, PlayPlays DEF Inner
  <1>2. CASE split # 0
    <2> DEFINE rest == length - split
               first == Play(mem, MakePartial(m, 0, split), Partial(in, 0, split),
                             Partial(out, 0, split))
               second == Play(first, MakePartial(m, split, rest), Partial(in, split, rest),
                              Partial(out, split, rest))
    <2>1. m.frames_to_process = length
      BY DEF PartsAt
    <2>2. Inner(mem, m, in, out, split) = second
      BY <1>2, <2>1 DEF Inner
    <2>3. /\ split \in Nat /\ rest \in Nat /\ 0 \in Nat /\ start + 0 = start
          /\ split + rest = length /\ start + split \in Nat
          /\ start + split <= BlockSize /\ start + split + rest <= BlockSize
      BY <1>0
    <2>. HIDE DEF rest
    <2>4. first = Played(mem, clock, start, split)
      <3>1. PartsAt(MakePartial(m, 0, split), Partial(in, 0, split), Partial(out, 0, split),
                    clock, start + 0, split)
        BY <2>3, PartsOfParts
      <3>2. PartsAt(MakePartial(m, 0, split), Partial(in, 0, split), Partial(out, 0, split),
                    clock, start, split)
        BY <2>3, <3>1
      <3>. QED  BY <2>3, <3>2, PlayPlays
    <2>5. second = Played(first, clock, start + split, rest)
      <3>1. PartsAt(MakePartial(m, split, rest), Partial(in, split, rest),
                    Partial(out, split, rest), clock, start + split, rest)
        BY <2>3, PartsOfParts
      <3>. HIDE DEF first
      <3>. QED  BY <2>3, <3>1, PlayPlays
    <2>6. Played(Played(mem, clock, start, split), clock, start + split, rest)
            = Played(mem, clock, start, split + rest)
      BY <2>3, PlayedTwice
    <2>. HIDE DEF first, second
    <2>. QED  BY <2>2, <2>3, <2>4, <2>5, <2>6
  <1>. QED  BY <1>1, <1>2

(* Wherever the wrappers split it, the node plays a whole block.           *)
LEMMA OuterPlays ==
  ASSUME NEW mem, NEW m, NEW in, NEW out, NEW clock \in Nat, NEW splits \in Splits,
         PartsAt(m, in, out, clock, 0, BlockSize)
  PROVE  Outer(mem, m, in, out, splits) = Played(mem, clock, 0, BlockSize)
  <1> DEFINE s == splits[1]
             t == splits[2]
             rest == BlockSize - s
  <1>0. BlockSize \in Nat /\ 0 \in Nat /\ 0 + BlockSize <= BlockSize
    BY DriverAssumption
  <1>1. /\ s \in Nat /\ rest \in Nat /\ t \in 0 .. rest /\ t \in 0 .. BlockSize
        /\ 0 + s = s /\ s + rest = BlockSize
        /\ s <= BlockSize /\ s + rest <= BlockSize /\ 0 + s + rest <= BlockSize
    <2>1. s \in 0 .. BlockSize - 1 /\ t \in 0 .. BlockSize - 1 - s
      BY DriverAssumption
    <2>. HIDE DEF s, t
    <2>. QED  BY <1>0, <2>1
  <1>. HIDE DEF t
  <1>2. CASE s = 0
    <2>1. Outer(mem, m, in, out, splits) = Inner(mem, m, in, out, t)
      BY <1>2 DEF Outer, t
    <2>. QED  BY <1>0, <1>1, <2>1, InnerPlays
  <1>3. CASE s # 0
    <2> DEFINE first == Play(mem, MakePartial(m, 0, s), Partial(in, 0, s), Partial(out, 0, s))
               second == Inner(first, MakePartial(m, s, rest), Partial(in, s, rest),
                               Partial(out, s, rest), t)
    <2>1. m.frames_to_process = BlockSize
      BY DEF PartsAt
    <2>2. Outer(mem, m, in, out, splits) = second
      BY <1>3, <2>1 DEF Outer, t
    <2>. HIDE DEF s, rest
    <2>4. first = Played(mem, clock, 0, s)
      <3>1. PartsAt(MakePartial(m, 0, s), Partial(in, 0, s), Partial(out, 0, s), clock, 0 + 0, s)
        BY <1>0, <1>1, PartsOfParts
      <3>2. 0 + 0 = 0
        OBVIOUS
      <3>. QED  BY <1>0, <1>1, <3>1, <3>2, PlayPlays
    <2>5. second = Played(first, clock, s, rest)
      <3>1. PartsAt(MakePartial(m, s, rest), Partial(in, s, rest), Partial(out, s, rest), clock,
                    0 + s, rest)
        BY <1>0, <1>1, PartsOfParts
      <3>. HIDE DEF first
      <3>. QED  BY <1>1, <3>1, InnerPlays
    <2>6. Played(Played(mem, clock, 0, s), clock, 0 + s, rest)
            = Played(mem, clock, 0, s + rest)
      BY <1>0, <1>1, PlayedTwice
    <2>. HIDE DEF first, second
    <2>. QED  BY <1>1, <2>2, <2>4, <2>5, <2>6
  <1>. QED  BY <1>2, <1>3

-----------------------------------------------------------------------------
(***************************************************************************)
(* The time that other threads read is in Seconds, and loses no frame on   *)
(* the way there and back.                                                 *)
(***************************************************************************)
LEMMA QuotientOf ==
  ASSUME NEW a \in Nat, NEW b \in Nat \ {0}, NEW q \in Nat, NEW r \in 0 .. b - 1,
         a = q * b + r
  PROVE  a \div b = q
  <1> DEFINE p == a \div b
             s == a % b
  <1>1. p \in Int /\ s \in 0 .. b - 1 /\ a = b * p + s
    BY SMT
  <1>2. b * (q - p) = s - r
    BY <1>1, SMT
  <1>3. q - p < 1
    BY <1>1, <1>2, SMT
  <1>4. p - q < 1
    BY <1>1, <1>2, SMT
  <1>. QED  BY <1>1, <1>3, <1>4, SMT

LEMMA StoredAsItIs ==
  ASSUME NEW n \in Nat
  PROVE  ToSamples(FromSamples(n, SampleRate), SampleRate) = n
  <1>1. PICK k \in Nat \ {0} : SampleRate * k = TESIMALS
    BY DriverRateAssumption, TesimalsAssumption
  <1>2. SampleRate \in Nat \ {0} /\ TESIMALS \in Nat \ {0}
    BY DriverAssumption, TesimalsAssumption
  <1> DEFINE q == n \div SampleRate
             r == n % SampleRate
  <1>3. q \in Int /\ r \in 0 .. SampleRate - 1 /\ n = q * SampleRate + r
    BY <1>2, SMT
  <1>. HIDE DEF q, r
  <1>4. r * TESIMALS = (r * k) * SampleRate + 0 /\ r * k \in Nat /\ r * TESIMALS \in Nat
    BY <1>1, <1>2, <1>3, SMT
  <1>5. (r * TESIMALS) \div SampleRate = r * k
    <2>1. 0 \in 0 .. SampleRate - 1
      BY <1>2
    <2>. QED  BY <1>2, <1>4, <2>1, QuotientOf
  <1>6. (r * k) * SampleRate = r * TESIMALS + 0 /\ (r * k) * SampleRate \in Nat
    <2> DEFINE x == (r * k) * SampleRate
               y == r * TESIMALS
    <2>1. x \in Nat /\ y \in Nat /\ y = x + 0
      BY <1>2, <1>4, SMT
    <2>. HIDE DEF x, y
    <2>2. x = y + 0 /\ x \in Nat
      BY <2>1
    <2>. QED  BY <2>2 DEF x, y
  <1>7. ((r * k) * SampleRate) \div TESIMALS = r
    <2>1. 0 \in 0 .. TESIMALS - 1 /\ r \in Nat
      BY <1>2, <1>3
    <2>. QED  BY <1>2, <1>6, <2>1, QuotientOf
  <1>8. FromSamples(n, SampleRate) = [seconds |-> q, subsecond_tesimals |-> r * k]
    BY <1>5 DEF FromSamples, q, r
  <1>9. ToSamples(FromSamples(n, SampleRate), SampleRate) = q * SampleRate + r
    BY <1>7, <1>8 DEF ToSamples
  <1>. QED  BY <1>3, <1>9

LEMMA StoredZero == ToSamples(ZERO, SampleRate) = 0
  <1>1. SampleRate \in Nat \ {0} /\ TESIMALS \in Nat \ {0}
    BY DriverAssumption, TesimalsAssumption
  <1>2. 0 * SampleRate = 0 /\ 0 \div TESIMALS = 0
    BY <1>1, SMT
  <1>. QED  BY <1>2 DEF ToSamples, ZERO

-----------------------------------------------------------------------------
(***************************************************************************)
(* The invariant.                                                          *)
(***************************************************************************)
DriverTyped ==
  /\ backend \in {"cpal", "jack"} /\ inputs \in {0, 1}
  /\ memory \in [Addresses -> Int]
  /\ frame_clock \in Nat /\ StoredFrame \in Nat
  /\ pc \in {"idle", "frames", "run", "store"} /\ left \in Nat /\ counter \in Nat
  /\ heard \in Seq([0 .. 1 -> Int]) /\ from_host \in Nat
  /\ resized \in BOOLEAN

(* The clock of the Graph is a block ahead until it is stored.             *)
ClocksAgree == frame_clock = StoredFrame + (IF pc = "store" THEN BlockSize ELSE 0)

(* The frames of the block that the host has not got are those that        *)
(* sample_counter has left; jack takes a block in each callback.           *)
CountsAgree ==
  /\ counter <= BlockSize /\ (pc \in {"run", "store"} => counter = BlockSize)
  /\ Len(heard) + BlockSize = StoredFrame + counter
  /\ backend = "cpal" /\ inputs = 1 => frame_clock = 0
  /\ backend = "jack" => /\ pc = "idle" => counter = BlockSize
                         /\ pc \in {"run", "store"} => left = BlockSize
                         /\ pc = "frames" => counter + left = BlockSize
                         /\ from_host = frame_clock + (IF pc = "run" THEN BlockSize ELSE 0)

(* The last block is in the output of the Graph, and the frames of the     *)
(* host that belong to the next are in its input.                          *)
BlocksInMemory ==
  /\ frame_clock # 0 =>
       \A f \in Frames :
         /\ memory[2 * BlockSize + f] = frame_clock - BlockSize + f
         /\ memory[3 * BlockSize + f] = IF inputs = 1 THEN frame_clock - BlockSize + f ELSE Zero
  /\ backend = "jack" /\ inputs = 1 /\ pc = "run" =>
       \A f \in Frames : memory[4 * BlockSize + f] = frame_clock + f

FrameAt(k) == [c \in 0 .. 1 |-> IF c = 0 \/ inputs = 1 THEN k - 1 ELSE Zero]
AllHeard == \A k \in DOMAIN heard : heard[k] = FrameAt(k)

InStep == CountsAgree /\ BlocksInMemory /\ AllHeard
HeardInv == DriverTyped /\ ClocksAgree /\ (~resized => InStep)

LEMMA InvImpliesHeard == HeardInv => HeardInStep
<1> SUFFICES ASSUME HeardInv PROVE HeardInStep
  OBVIOUS
<1>0. BlockSize \in Nat
  BY DriverAssumption
<1>1. frame_clock - StoredFrame \in {0, BlockSize}
  BY <1>0 DEF HeardInv, ClocksAgree, DriverTyped
<1>2. ASSUME ~resized PROVE StoredFrame - Len(heard) \in 0 .. BlockSize
  <2>1. /\ Len(heard) + BlockSize = StoredFrame + counter /\ counter <= BlockSize
        /\ Len(heard) \in Nat /\ StoredFrame \in Nat /\ counter \in Nat
    BY <1>2 DEF HeardInv, InStep, CountsAgree, DriverTyped
  <2>. QED  BY <1>0, <2>1
<1>. QED  BY <1>1, <1>2 DEF HeardInStep, HeardInv, InStep, AllHeard, FrameAt

(* A new processor has heard, and kept, nothing.                           *)
LEMMA NewInv ==
  ASSUME backend' \in {"cpal", "jack"}, inputs' \in {0, 1}, resized' \in BOOLEAN,
         memory' = [a \in Addresses |-> Zero],
         frame_clock' = 0, shared_frame_clock' = ZERO, pc' = "idle", left' = 0,
         counter' = BlockSize, heard' = <<>>, from_host' = 0
  PROVE  HeardInv'
<1>0. BlockSize \in Nat
  BY DriverAssumption
<1>1. DriverTyped'
  BY <1>0, StoredZero DEF DriverTyped, StoredFrame, Zero, Addresses
<1>2. Len(heard') = 0 /\ DOMAIN heard' = {}
  BY EmptySeq
<1>z. StoredFrame' = 0
  BY StoredZero DEF StoredFrame
<1>3. InStep'
  BY <1>0, <1>z, <1>2 DEF InStep, CountsAgree, BlocksInMemory, AllHeard
<1>. QED  BY <1>z, <1>1, <1>3 DEF HeardInv, ClocksAgree

LEMMA InitHeard == Init => HeardInv
<1> SUFFICES ASSUME Init PROVE HeardInv
  OBVIOUS
<1>0. BlockSize \in Nat
  BY DriverAssumption
<1>z. StoredFrame = 0
  BY StoredZero DEF StoredFrame, Init, Fresh
<1>1. DriverTyped
  <2>1. memory \in [Addresses -> Int] /\ heard \in Seq([0 .. 1 -> Int])
    BY DEF Init, Fresh, Zero
  <2>. QED  BY <1>0, <1>z, <2>1, Zenon DEF DriverTyped, Init, Fresh
<1>2. Len(heard) = 0 /\ DOMAIN heard = {}
  BY EmptySeq DEF Init, Fresh
<1>3. InStep
  BY <1>0, <1>z, <1>2 DEF InStep, CountsAgree, BlocksInMemory, AllHeard, Init, Fresh
<1>. QED  BY <1>z, <1>1, <1>3 DEF HeardInv, ClocksAgree, Init, Fresh

(* What a step that leaves the clocks, the memory and the host alone has   *)
(* to show.                                                                *)
LEMMA QuietStep ==
  ASSUME HeardInv, UNCHANGED <<backend, inputs, resized, memory, frame_clock,
                               StoredFrame, heard, from_host>>,
         pc # "store", pc' \in {"idle", "frames", "run"}, left' \in Nat, counter' \in Nat,
         ~resized => CountsAgree',
         backend = "cpal" \/ pc' # "run"
  PROVE  HeardInv'
<1>1. DriverTyped'
  BY DEF HeardInv, DriverTyped
<1>2. ClocksAgree'
  BY DEF HeardInv, ClocksAgree
<1>3. ASSUME ~resized PROVE InStep'
  BY <1>3 DEF HeardInv, InStep, BlocksInMemory, AllHeard, FrameAt, Frames
<1>. QED  BY <1>1, <1>2, <1>3 DEF HeardInv

(* jack's frames go into the input of the Graph, in their order.           *)
LEMMA JackCallbackKeeps ==
  ASSUME HeardInv, NEW n \in JackSizes, JackCallback(n) PROVE HeardInv'
<1>0. BlockSize \in Nat /\ BlockSize # 0 /\ n \in Nat
  BY DriverAssumption
<1>1. /\ DriverTyped /\ ClocksAgree /\ pc = "idle" /\ pc' = "run" /\ left' = n
      /\ from_host' = from_host + n /\ resized' = (resized \/ n # BlockSize)
      /\ backend = "jack"
      /\ UNCHANGED <<backend, inputs, frame_clock, StoredFrame, counter, heard>>
  BY DEF HeardInv, JackCallback, Idle, StoredFrame
<1>2. At(InputBlock, 0, 0) = 4 * BlockSize
      /\ ChannelAsSlice(InputBlock, 0) = 4 * BlockSize .. 5 * BlockSize - 1
  <2>1. InputBlock.starts[0] = 4 * BlockSize /\ InputBlock.block_size = BlockSize
    BY <1>0 DEF InputBlock, VecBlock, Contiguous
  <2>. QED  BY <1>0, <2>1 DEF At, ChannelAsSlice
<1>3. /\ memory' \in [Addresses -> Int]
      /\ \A a \in Addresses :
           memory'[a] = IF inputs = 1 /\ a \in 4 * BlockSize .. 5 * BlockSize - 1
                           /\ a - 4 * BlockSize < n
                        THEN from_host + (a - 4 * BlockSize) ELSE memory[a]
  <2>1. memory' = [a \in Addresses |->
           IF inputs = 1 /\ a \in 4 * BlockSize .. 5 * BlockSize - 1 /\ a - 4 * BlockSize < n
           THEN from_host + (a - 4 * BlockSize) ELSE memory[a]]
    BY <1>2 DEF JackCallback
  <2>. QED  BY <1>0, <1>1, <2>1 DEF DriverTyped, Addresses
<1>4. DriverTyped'
  BY <1>0, <1>1, <1>3 DEF DriverTyped
<1>5. ClocksAgree'
  BY <1>1 DEF ClocksAgree
<1>6. ASSUME ~resized' PROVE InStep'
  <2>1. n = BlockSize /\ ~resized /\ InStep
    BY <1>1, <1>6 DEF HeardInv
  <2>2. CountsAgree'
    BY <1>0, <1>1, <2>1 DEF InStep, CountsAgree, DriverTyped
  <2>3. from_host = frame_clock
    BY <1>0, <1>1, <2>1 DEF InStep, CountsAgree, DriverTyped
  <2>4. ASSUME NEW f \in Frames
        PROVE  /\ memory'[2 * BlockSize + f] = memory[2 * BlockSize + f]
               /\ memory'[3 * BlockSize + f] = memory[3 * BlockSize + f]
               /\ inputs = 1 => memory'[4 * BlockSize + f] = frame_clock + f
    <3>1. f \in Nat /\ f < BlockSize
      BY <1>0 DEF Frames
    <3>2. /\ 2 * BlockSize + f \in Addresses
          /\ 2 * BlockSize + f \notin 4 * BlockSize .. 5 * BlockSize - 1
          /\ 3 * BlockSize + f \in Addresses
          /\ 3 * BlockSize + f \notin 4 * BlockSize .. 5 * BlockSize - 1
          /\ 4 * BlockSize + f \in Addresses
          /\ 4 * BlockSize + f \in 4 * BlockSize .. 5 * BlockSize - 1
          /\ 4 * BlockSize + f - 4 * BlockSize = f
      BY <1>0, <3>1 DEF Addresses
    <3>3. /\ memory'[2 * BlockSize + f] = memory[2 * BlockSize + f]
          /\ memory'[3 * BlockSize + f] = memory[3 * BlockSize + f]
      BY <1>3, <3>2
    <3> DEFINE i == 4 * BlockSize + f
    <3>4. i \in Addresses /\ i \in 4 * BlockSize .. 5 * BlockSize - 1 /\ i - 4 * BlockSize = f
      BY <1>0, <3>1 DEF Addresses
    <3>. HIDE DEF i
    <3>5. inputs = 1 => memory'[i] = frame_clock + f
      BY <1>3, <2>1, <2>3, <3>1, <3>4
    <3>. QED  BY <3>3, <3>5 DEF i
  <2>5. BlocksInMemory'
    BY <1>1, <2>1, <2>4 DEF InStep, BlocksInMemory, Frames
  <2>. QED  BY <1>1, <2>1, <2>2, <2>5 DEF InStep, AllHeard, FrameAt
<1>. QED  BY <1>4, <1>5, <1>6 DEF HeardInv

(* What a block leaves in the memory.                                      *)
LEMMA RunPlays ==
  ASSUME HeardInv, NEW splits \in Splits,
         memory' = CopyOut(Outer(memory, BlockMetadata(BlockSize, frame_clock), Input,
                                 NodeOutput, splits))
  PROVE  /\ memory' \in [Addresses -> Int]
         /\ \A f \in Frames :
              /\ memory'[2 * BlockSize + f] = frame_clock + f
              /\ memory'[3 * BlockSize + f]
                   = IF inputs = 1 THEN memory[4 * BlockSize + f] ELSE Zero
<1> DEFINE m == BlockMetadata(BlockSize, frame_clock)
           mem == Played(memory, frame_clock, 0, BlockSize)
<1>0. /\ BlockSize \in Nat /\ frame_clock \in Nat /\ memory \in [Addresses -> Int]
      /\ inputs \in {0, 1}
  BY DriverAssumption DEF HeardInv, DriverTyped
<1>1. PartsAt(m, Input, NodeOutput, frame_clock, 0, BlockSize)
  <2>1. m.frames_to_process = BlockSize /\ m.frame_clock = frame_clock + 0
    BY <1>0 DEF BlockMetadata
  <2>2. /\ DOMAIN NodeOutput.starts = 0 .. 1 /\ NodeOutput.starts[0] = 0
        /\ NodeOutput.starts[1] = BlockSize + 0
    BY <1>0 DEF NodeOutput, Contiguous
  <2>3. At(InputBlock, 0, 0) = 4 * BlockSize + 0
    <3>1. InputBlock.starts[0] = 4 * BlockSize
      BY <1>0 DEF InputBlock, VecBlock, Contiguous
    <3>. QED  BY <1>0, <3>1 DEF At
  <2>4. ASSUME inputs = 1 PROVE 0 \in DOMAIN Input.starts /\ Input.starts[0] = 4 * BlockSize + 0
    <3> DEFINE first == At(InputBlock, 0, 0)
    <3>1. Input = Aggregate(<<first>>, BlockSize)
      BY <2>4 DEF Input
    <3>. HIDE DEF first
    <3>2. Len(<<first>>) = 1 /\ <<first>>[1] = first
      OBVIOUS
    <3>3. Input.starts = [c \in 0 .. 1 - 1 |-> <<first>>[c + 1]]
      BY <3>1, <3>2 DEF Aggregate
    <3>4. DOMAIN Input.starts = 0 .. 0 /\ Input.starts[0] = <<first>>[1]
      BY <3>3
    <3>. QED  BY <2>3, <3>2, <3>4 DEF first
  <2>. HIDE DEF m
  <2>. QED  BY <2>1, <2>2, <2>4 DEF PartsAt
<1>2. Outer(memory, m, Input, NodeOutput, splits) = mem
  <2>. HIDE DEF m
  <2>. QED  BY <1>0, <1>1, OuterPlays
<1>3. memory' = CopyOut(mem)
  BY <1>2
<1>4. /\ \A a \in Addresses : mem[a] \in Int
      /\ \A f \in Frames : /\ mem[f] = frame_clock + f
                          /\ mem[BlockSize + f] = IF inputs = 1 THEN memory[4 * BlockSize + f] ELSE Zero
  <2>1. ASSUME NEW f \in Frames
        PROVE  /\ mem[f] = frame_clock + f
               /\ mem[BlockSize + f] = IF inputs = 1 THEN memory[4 * BlockSize + f] ELSE Zero
    <3>1. f \in 0 .. 0 + BlockSize - 1 /\ f \in Addresses /\ BlockSize + f \in Addresses
          /\ BlockSize + f \notin 0 .. 0 + BlockSize - 1 /\ BlockSize + f - BlockSize = f
      BY <1>0 DEF Frames, Addresses
    <3> DEFINE i == BlockSize + f
    <3>2. 4 * BlockSize + (i - BlockSize) = 4 * BlockSize + f
      BY <1>0 DEF Frames
    <3>3. mem[f] = frame_clock + f
      BY <3>1 DEF Played
    <3>4. i \in Addresses /\ i \notin 0 .. 0 + BlockSize - 1 /\ i - BlockSize \in 0 .. 0 + BlockSize - 1
      BY <1>0 DEF Frames, Addresses
    <3>. HIDE DEF i
    <3>5. mem[i] = IF inputs = 1 THEN memory[4 * BlockSize + (i - BlockSize)] ELSE Zero
      BY <3>4 DEF Played
    <3>. QED  BY <3>2, <3>3, <3>5, Zenon DEF i
  <2>2. ASSUME NEW a \in Addresses PROVE mem[a] \in Int
    <3>1. a \in Int
      BY <1>0 DEF Addresses
    <3>2. CASE a - BlockSize \in 0 .. 0 + BlockSize - 1
      <4>1. 4 * BlockSize + (a - BlockSize) \in Addresses
        BY <1>0, <3>1, <3>2 DEF Addresses
      <4>2. memory[4 * BlockSize + (a - BlockSize)] \in Int
        BY <1>0, <4>1
      <4>. QED  BY <1>0, <3>1, <4>2 DEF Played, Zero
    <3>3. CASE a - BlockSize \notin 0 .. 0 + BlockSize - 1
      BY <1>0, <3>1, <3>3 DEF Played
    <3>. QED  BY <3>2, <3>3
  <2>. QED  BY <2>1, <2>2
<1>5. /\ ChannelAsSlice(OutputBlock, 0) = 2 * BlockSize .. 3 * BlockSize - 1
      /\ ChannelAsSlice(OutputBlock, 1) = 3 * BlockSize .. 4 * BlockSize - 1
      /\ At(OutputBlock, 0, 0) = 2 * BlockSize /\ At(OutputBlock, 1, 0) = 3 * BlockSize
  <2>1. /\ OutputBlock.starts[0] = 2 * BlockSize /\ OutputBlock.starts[1] = 3 * BlockSize
        /\ OutputBlock.block_size = BlockSize
    BY <1>0 DEF OutputBlock, Contiguous
  <2>. QED  BY <1>0, <2>1 DEF At, ChannelAsSlice
<1>6. \A i \in Int : At(NodeOutput, 0, i) = i /\ At(NodeOutput, 1, i) = BlockSize + i
  <2>1. NodeOutput.starts[0] = 0 /\ NodeOutput.starts[1] = BlockSize
    BY <1>0 DEF NodeOutput, Contiguous
  <2>. QED  BY <1>0, <2>1 DEF At
<1>. HIDE DEF mem, m
<1>7. ASSUME NEW a \in Addresses
      PROVE  CopyOut(mem)[a] = IF a \in 2 * BlockSize .. 3 * BlockSize - 1
                               THEN mem[a - 2 * BlockSize]
                               ELSE IF a \in 3 * BlockSize .. 4 * BlockSize - 1
                               THEN mem[BlockSize + (a - 3 * BlockSize)]
                               ELSE mem[a]
  <2> DEFINE in(c) == a \in ChannelAsSlice(OutputBlock, c)
             chosen == CHOOSE c \in 0 .. 1 : in(c)
  <2>1. a \in Int
    BY <1>0 DEF Addresses
  <2>2. CopyOut(mem)[a] = IF \E c \in 0 .. 1 : in(c)
                          THEN mem[At(NodeOutput, chosen, a - At(OutputBlock, chosen, 0))]
                          ELSE mem[a]
    BY DEF CopyOut
  <2>3. /\ in(0) <=> a \in 2 * BlockSize .. 3 * BlockSize - 1
        /\ in(1) <=> a \in 3 * BlockSize .. 4 * BlockSize - 1
    BY <1>5
  <2>4. ~ (in(0) /\ in(1))
    BY <1>0, <2>1, <2>3
  <2>5. 0 .. 1 = {0, 1}
    OBVIOUS
  <2>. HIDE DEF in
  <2>6. (\E c \in 0 .. 1 : in(c)) <=> in(0) \/ in(1)
    BY <2>5
  <2>7. /\ in(0) => chosen = 0
        /\ in(1) => chosen = 1
    <3>1. (in(0) \/ in(1)) => chosen \in 0 .. 1 /\ in(chosen)
      BY <2>5
    <3>. HIDE DEF chosen
    <3>. QED  BY <2>4, <2>5, <3>1
  <2>. HIDE DEF chosen
  <2>8. /\ At(NodeOutput, 0, a - 2 * BlockSize) = a - 2 * BlockSize
        /\ At(NodeOutput, 1, a - 3 * BlockSize) = BlockSize + (a - 3 * BlockSize)
    BY <1>0, <1>6, <2>1
  <2>. QED  BY <1>5, <2>2, <2>3, <2>4, <2>6, <2>7, <2>8
<1>8. ASSUME NEW a \in Addresses PROVE CopyOut(mem)[a] \in Int
  <2>1. a \in Int
    BY <1>0 DEF Addresses
  <2>2. CASE a \in 2 * BlockSize .. 3 * BlockSize - 1
    <3>1. a - 2 * BlockSize \in Addresses
      BY <1>0, <2>1, <2>2 DEF Addresses
    <3>. QED  BY <1>4, <1>7, <2>2, <3>1
  <2>3. CASE a \notin 2 * BlockSize .. 3 * BlockSize - 1 /\ a \in 3 * BlockSize .. 4 * BlockSize - 1
    <3>1. BlockSize + (a - 3 * BlockSize) \in Addresses
      BY <1>0, <2>1, <2>3 DEF Addresses
    <3>. QED  BY <1>4, <1>7, <2>3, <3>1
  <2>4. CASE a \notin 2 * BlockSize .. 3 * BlockSize - 1 /\ a \notin 3 * BlockSize .. 4 * BlockSize - 1
    BY <1>4, <1>7, <2>4
  <2>. QED  BY <2>2, <2>3, <2>4
<1>9. memory' \in [Addresses -> Int]
  <2>1. CopyOut(mem) = [a \in Addresses |-> CopyOut(mem)[a]]
    BY DEF CopyOut
  <2>. QED  BY <1>3, <1>8, <2>1
<1>10. ASSUME NEW f \in Frames
       PROVE  /\ memory'[2 * BlockSize + f] = frame_clock + f
              /\ memory'[3 * BlockSize + f] = IF inputs = 1 THEN memory[4 * BlockSize + f] ELSE Zero
  <2>1. /\ 2 * BlockSize + f \in Addresses
        /\ 2 * BlockSize + f \in 2 * BlockSize .. 3 * BlockSize - 1
        /\ 2 * BlockSize + f - 2 * BlockSize = f
        /\ 3 * BlockSize + f \in Addresses
        /\ 3 * BlockSize + f \notin 2 * BlockSize .. 3 * BlockSize - 1
        /\ 3 * BlockSize + f \in 3 * BlockSize .. 4 * BlockSize - 1
        /\ BlockSize + (3 * BlockSize + f - 3 * BlockSize) = BlockSize + f
    BY <1>0 DEF Frames, Addresses
  <2>2. /\ CopyOut(mem)[2 * BlockSize + f] = mem[f]
        /\ CopyOut(mem)[3 * BlockSize + f] = mem[BlockSize + f]
    <3> DEFINE i == 2 * BlockSize + f
               j == 3 * BlockSize + f
    <3>1. /\ i \in Addresses /\ i \in 2 * BlockSize .. 3 * BlockSize - 1 /\ i - 2 * BlockSize = f
          /\ j \in Addresses /\ j \notin 2 * BlockSize .. 3 * BlockSize - 1
          /\ j \in 3 * BlockSize .. 4 * BlockSize - 1
          /\ BlockSize + (j - 3 * BlockSize) = BlockSize + f
      BY <1>0 DEF Frames, Addresses
    <3>. HIDE DEF i, j
    <3>2. CopyOut(mem)[i] = mem[f] /\ CopyOut(mem)[j] = mem[BlockSize + f]
      BY <1>7, <3>1, Zenon
    <3>. QED  BY <3>2 DEF i, j
  <2>. QED  BY <1>3, <1>4, <2>2
<1>. QED  BY <1>9, <1>10

LEMMA RunKeeps == ASSUME HeardInv, Run PROVE HeardInv'
<1>0. BlockSize \in Nat /\ BlockSize # 0
  BY DriverAssumption
<1>1. /\ DriverTyped /\ ClocksAgree /\ pc = "run"
      /\ UNCHANGED <<backend, inputs, StoredFrame, left, counter, heard, from_host, resized>>
  BY DEF HeardInv, Run, state, StoredFrame
<1>2. CASE backend = "cpal" /\ inputs > 0
  <2>1. UNCHANGED <<pc, memory, frame_clock>>
    BY <1>2 DEF Run
  <2>. QED  BY <1>1, <2>1 DEF HeardInv, DriverTyped, ClocksAgree, InStep, CountsAgree,
                              BlocksInMemory, AllHeard, FrameAt, Frames
<1>3. CASE ~ (backend = "cpal" /\ inputs > 0)
  <2>1. PICK splits \in Splits :
          memory' = CopyOut(Outer(memory, BlockMetadata(BlockSize, frame_clock), Input,
                                  NodeOutput, splits))
    BY <1>3 DEF Run
  <2>2. frame_clock' = frame_clock + BlockSize /\ pc' = "store"
    BY <1>3 DEF Run
  <2>3. /\ memory' \in [Addresses -> Int]
        /\ \A f \in Frames :
             /\ memory'[2 * BlockSize + f] = frame_clock + f
             /\ memory'[3 * BlockSize + f]
                  = IF inputs = 1 THEN memory[4 * BlockSize + f] ELSE Zero
    BY <2>1, RunPlays
  <2>4. DriverTyped'
    BY <1>0, <1>1, <2>2, <2>3 DEF DriverTyped
  <2>5. ClocksAgree'
    BY <1>0, <1>1, <2>2 DEF ClocksAgree, DriverTyped
  <2>6. ASSUME ~resized' PROVE InStep'
    <3>1. InStep /\ (inputs = 1 => backend = "jack")
      BY <1>1, <1>3, <2>6 DEF HeardInv, DriverTyped
    <3>2. CountsAgree'
      BY <1>0, <1>1, <2>2, <3>1 DEF InStep, CountsAgree, DriverTyped
    <3>3. frame_clock' - BlockSize = frame_clock
      BY <1>0, <1>1, <2>2 DEF DriverTyped
    <3>4. inputs = 1 => \A f \in Frames : memory[4 * BlockSize + f] = frame_clock + f
      BY <1>1, <3>1 DEF InStep, BlocksInMemory
    <3>5. BlocksInMemory'
      BY <1>1, <2>2, <2>3, <3>3, <3>4 DEF BlocksInMemory, Frames, Zero
    <3>. QED  BY <1>1, <3>1, <3>2, <3>5 DEF InStep, AllHeard, FrameAt
  <2>. QED  BY <2>4, <2>5, <2>6 DEF HeardInv
<1>. QED  BY <1>2, <1>3

LEMMA FrameKeeps == ASSUME HeardInv, Frame PROVE HeardInv'
<1>0. BlockSize \in Nat /\ BlockSize # 0
  BY DriverAssumption
<1> DEFINE frame == [c \in 0 .. 1 |->
             IF counter < BlockSize THEN memory[At(OutputBlock, c, counter)] ELSE Untouched]
<1>1. /\ DriverTyped /\ ClocksAgree /\ pc = "frames" /\ left > 0
      /\ counter < BlockSize \/ backend = "jack"
      /\ heard' = Append(heard, frame)
      /\ counter' = counter + 1 /\ left' = left - 1
      /\ UNCHANGED <<backend, inputs, memory, frame_clock, StoredFrame, pc, from_host, resized>>
  BY DEF HeardInv, Frame, StoredFrame
<1>2. /\ counter < BlockSize
           => /\ frame[0] = memory[2 * BlockSize + counter]
              /\ frame[1] = memory[3 * BlockSize + counter]
      /\ frame \in [0 .. 1 -> Int]
  <2>1. OutputBlock.starts[0] = 2 * BlockSize /\ OutputBlock.starts[1] = 3 * BlockSize
    BY <1>0 DEF OutputBlock, Contiguous
  <2>2. /\ At(OutputBlock, 0, counter) = 2 * BlockSize + counter
        /\ At(OutputBlock, 1, counter) = 3 * BlockSize + counter
    BY <2>1 DEF At
  <2>3. counter < BlockSize => /\ 2 * BlockSize + counter \in Addresses
                               /\ 3 * BlockSize + counter \in Addresses
    BY <1>0, <1>1 DEF DriverTyped, Addresses
  <2>4. memory \in [Addresses -> Int] /\ Untouched \in Int
    BY <1>1 DEF DriverTyped, Untouched
  <2>. QED  BY <2>2, <2>3, <2>4
<1>. HIDE DEF frame
<1>3. DriverTyped'
  BY <1>1, <1>2 DEF DriverTyped
<1>4. ClocksAgree'
  BY <1>1 DEF ClocksAgree
<1>5. /\ Len(heard) \in Nat /\ Len(heard') = Len(heard) + 1
      /\ heard'[Len(heard) + 1] = frame
      /\ \A k \in 1 .. Len(heard) : heard'[k] = heard[k]
      /\ DOMAIN heard = 1 .. Len(heard) /\ DOMAIN heard' = 1 .. Len(heard) + 1
  BY <1>1, <1>2 DEF DriverTyped
<1>6. ASSUME ~resized' PROVE InStep'
  <2>1. InStep
    BY <1>1, <1>6 DEF HeardInv
  <2>2. counter < BlockSize
    BY <1>0, <1>1, <2>1 DEF InStep, CountsAgree, DriverTyped
  <2>3. CountsAgree'
    BY <1>0, <1>1, <1>5, <2>1, <2>2 DEF InStep, CountsAgree, DriverTyped
  <2>4. /\ StoredFrame = frame_clock /\ frame_clock # 0
        /\ frame_clock - BlockSize + counter = Len(heard)
        /\ ~ (backend = "cpal" /\ inputs = 1)
    BY <1>0, <1>1, <1>5, <2>1, <2>2 DEF InStep, CountsAgree, ClocksAgree, DriverTyped
  <2>5. BlocksInMemory'
    BY <1>1, <2>1 DEF InStep, BlocksInMemory, Frames
  <2>6. frame = FrameAt(Len(heard) + 1)
    <3>1. counter \in Frames
      BY <1>0, <1>1, <2>2 DEF DriverTyped, Frames
    <3>2. /\ memory[2 * BlockSize + counter] = frame_clock - BlockSize + counter
          /\ memory[3 * BlockSize + counter]
               = IF inputs = 1 THEN frame_clock - BlockSize + counter ELSE Zero
      BY <2>1, <2>4, <3>1 DEF InStep, BlocksInMemory
    <3>3. Len(heard) + 1 - 1 = Len(heard)
      BY <1>5
    <3>4. frame[0] = Len(heard) /\ frame[1] = IF inputs = 1 THEN Len(heard) ELSE Zero
      BY <1>2, <2>2, <2>4, <3>2
    <3>5. frame = [c \in 0 .. 1 |-> frame[c]]
      BY <1>2
    <3>6. \A c \in 0 .. 1 : frame[c] = IF c = 0 \/ inputs = 1 THEN Len(heard) + 1 - 1 ELSE Zero
      <4>1. 0 .. 1 = {0, 1}
        OBVIOUS
      <4>. QED  BY <3>3, <3>4, <4>1
    <3>7. FrameAt(Len(heard) + 1)
            = [c \in 0 .. 1 |-> IF c = 0 \/ inputs = 1 THEN Len(heard) + 1 - 1 ELSE Zero]
      BY DEF FrameAt
    <3>. QED  BY <3>5, <3>6, <3>7, Zenon
  <2>7. ASSUME NEW k \in DOMAIN heard' PROVE heard'[k] = FrameAt(k)
    <3>1. CASE k \in DOMAIN heard
      BY <1>5, <2>1, <3>1 DEF InStep, AllHeard
    <3>2. CASE k \notin DOMAIN heard
      <4>1. k = Len(heard) + 1
        BY <1>5, <3>2
      <4>. QED  BY <1>5, <2>6, <4>1
    <3>. QED  BY <3>1, <3>2
  <2>8. AllHeard'
    BY <1>1, <2>7 DEF AllHeard, FrameAt
  <2>. QED  BY <2>3, <2>5, <2>8 DEF InStep
<1>. QED  BY <1>3, <1>4, <1>6 DEF HeardInv

LEMMA NextHeard == HeardInv /\ [Next]_vars => HeardInv'
<1> SUFFICES ASSUME HeardInv, [Next]_vars PROVE HeardInv'
  OBVIOUS
<1>0. BlockSize \in Nat /\ BlockSize # 0 /\ CpalSizes \subseteq Nat
  BY DriverAssumption
<1>t. DriverTyped /\ ClocksAgree
  BY DEF HeardInv
<1>1. ASSUME UNCHANGED <<backend, inputs, memory, frame_clock, StoredFrame, pc, left,
                         counter, heard, from_host, resized>>
      PROVE  HeardInv'
  BY <1>1 DEF HeardInv, DriverTyped, ClocksAgree, InStep, CountsAgree, BlocksInMemory,
              AllHeard, FrameAt, Frames
<1>2. CASE StartCpal
  <2>1. CASE New
    BY <1>t, <1>2, <2>1, NewInv DEF StartCpal, New, DriverTyped
  <2>2. CASE Kept
    BY <1>1, <1>2, <2>2 DEF StartCpal, Kept, StoredFrame
  <2>. QED  BY <1>2, <2>1, <2>2 DEF StartCpal
<1>3. CASE StopCpal
  BY <1>1, <1>3 DEF StopCpal, Kept, StoredFrame
<1>4. CASE StartJack
  <2>1. CASE New
    BY <1>t, <1>4, <2>1, NewInv DEF StartJack, New, DriverTyped
  <2>2. CASE Kept
    BY <1>1, <1>4, <2>2 DEF StartJack, Kept, StoredFrame
  <2>. QED  BY <1>4, <2>1, <2>2 DEF StartJack
<1>5. CASE StopJack
  BY <1>1, <1>5 DEF StopJack, Kept, StoredFrame
<1>6. ASSUME NEW n \in CpalSizes, CpalCallback(n) PROVE HeardInv'
  <2>1. /\ n \in Nat /\ left' = n /\ pc' = "frames" /\ pc = "idle" /\ backend = "cpal"
        /\ UNCHANGED <<backend, inputs, memory, frame_clock, StoredFrame, counter,
                       heard, from_host, resized>>
    BY <1>0, <1>6 DEF CpalCallback, Idle, StoredFrame
  <2>2. ~resized => CountsAgree'
    BY <2>1 DEF HeardInv, InStep, CountsAgree
  <2>. QED  BY <1>t, <2>1, <2>2, QuietStep DEF DriverTyped
<1>7. ASSUME NEW n \in JackSizes, JackCallback(n) PROVE HeardInv'
  BY <1>7, JackCallbackKeeps
<1>8. CASE NeedsBlock
  <2>1. /\ pc = "frames" /\ backend = "cpal" /\ counter >= BlockSize /\ pc' = "run"
        /\ UNCHANGED <<backend, inputs, memory, frame_clock, StoredFrame, left, counter,
                       heard, from_host, resized>>
    BY <1>8 DEF NeedsBlock, StoredFrame
  <2>2. ~resized => CountsAgree'
    BY <1>0, <1>t, <2>1 DEF HeardInv, InStep, CountsAgree, DriverTyped
  <2>. QED  BY <1>t, <2>1, <2>2, QuietStep DEF DriverTyped
<1>9. CASE Run
  BY <1>9, RunKeeps
<1>10. CASE Store
  <2>1. /\ pc = "store" /\ StoredFrame' = frame_clock /\ pc' = "frames" /\ counter' = 0
        /\ UNCHANGED <<backend, inputs, memory, frame_clock, left, heard, from_host, resized>>
    <3>1. StoredFrame' = ToSamples(FromSamples(frame_clock, SampleRate), SampleRate)
      BY <1>10 DEF Store, StoredFrame
    <3>2. StoredFrame' = frame_clock
      BY <1>t, <3>1, StoredAsItIs DEF DriverTyped
    <3>. QED  BY <1>10, <3>2 DEF Store
  <2>2. DriverTyped' /\ ClocksAgree'
    BY <1>t, <2>1 DEF DriverTyped, ClocksAgree
  <2>3. ASSUME ~resized' PROVE InStep'
    <3>1. InStep
      BY <2>1, <2>3 DEF HeardInv
    <3>2. CountsAgree'
      BY <1>0, <1>t, <2>1, <3>1 DEF InStep, CountsAgree, ClocksAgree, DriverTyped
    <3>. QED  BY <2>1, <3>1, <3>2 DEF InStep, BlocksInMemory, AllHeard, FrameAt, Frames
  <2>. QED  BY <2>2, <2>3 DEF HeardInv
<1>11. CASE Frame
  BY <1>11, FrameKeeps
<1>12. CASE Return
  <2>1. /\ pc = "frames" /\ left = 0 /\ pc' = "idle"
        /\ UNCHANGED <<backend, inputs, memory, frame_clock, StoredFrame, left, counter,
                       heard, from_host, resized>>
    BY <1>12 DEF Return, StoredFrame
  <2>2. ~resized => CountsAgree'
    BY <1>0, <1>t, <2>1 DEF HeardInv, InStep, CountsAgree, DriverTyped
  <2>. QED  BY <1>t, <2>1, <2>2, QuietStep DEF DriverTyped
<1>13. CASE UNCHANGED vars
  BY <1>1, <1>13 DEF vars, StoredFrame
<1>. QED  BY <1>2, <1>3, <1>4, <1>5, <1>6, <1>7, <1>8, <1>9, <1>10, <1>11, <1>12, <1>13 DEF Next

(* Whatever frames the host asks for at a time, and wherever the wrappers  *)
(* split the blocks, of any size: it hears every frame of the Graph once   *)
(* and in order, with the frame of its input that it gave along with it,   *)
(* and the time that other threads read is at most a block ahead           *)
(* (processor.rs, cpal.rs, jack.rs).                                       *)
THEOREM HostHearsInStep == Spec => []HeardInStep
<1>1. Init => HeardInv
  BY InitHeard
<1>2. HeardInv /\ [Next]_vars => HeardInv'
  BY NextHeard
<1>3. HeardInv => HeardInStep
  BY InvImpliesHeard
<1>. QED  BY <1>1, <1>2, <1>3, PTL DEF Spec
=============================================================================
