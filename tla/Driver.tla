------------------------------- MODULE Driver --------------------------------
(***************************************************************************)
(* The AudioProcessor in an audio backend: how the frames that the host    *)
(* asks for become blocks of the top level Graph, how the samples of its   *)
(* nodes get to the host, and what time other threads read meanwhile.      *)
(*                                                                         *)
(* The Graph has one node, of two channels: the first plays the number of  *)
(* each frame, ctx.frame_clock() + frame, the second its input if it has   *)
(* one.  Its wrappers split a block into parts and these into parts.       *)
(***************************************************************************)
EXTENDS Blocks, Seconds, FiniteSets

CONSTANTS
  BlockSize, SampleRate,    \* of the AudioProcessor, and of jack when it was opened
  CpalSizes, JackSizes,     \* of a callback, in frames
  Splits,                   \* where the wrappers split a block, and its last part
  MaxFrames, MaxStarts      \* bounds for TLC, not in the code

ASSUME DriverAssumption ==
  /\ {BlockSize, SampleRate} \subseteq Nat \ {0} /\ CpalSizes \cup JackSizes \subseteq Nat \ {0}
  /\ \A s \in Splits : s[1] \in 0 .. BlockSize - 1 /\ s[2] \in 0 .. BlockSize - 1 - s[1]

(* As it is at "all common sample rates" (time.rs).                        *)
ASSUME DriverRateAssumption == \E k \in 1 .. TESIMALS : SampleRate * k = TESIMALS

VARIABLES
  backend,                  \* "cpal" or "jack"
  inputs,                   \* how many the Graph has, 0 or 1
  client,                   \* "none" or "stream"; "passive", "active" or "gone"
  starts,                   \* how often a processor was handed to it
  memory,                   \* the buffers, by address
  frame_clock,
  shared_frame_clock,       \* in Seconds
  pc, left, counter,        \* the audio thread, the frames of its callback that are left,
                            \* sample_counter
  heard, from_host,         \* what the host has got and what it has given (history)
  resized,                  \* whether a callback of jack was of another size (history)
  panicked

state == <<client, starts>>
vars == <<backend, inputs, client, starts, memory, frame_clock, shared_frame_clock,
          pc, left, counter, heard, from_host, resized, panicked>>

Frames == 0 .. BlockSize - 1
Zero == -1                                         \* 0.0: the number of no frame
Untouched == -2                                    \* whatever the buffer of the host held
NodeOutput == Contiguous(0, 2, BlockSize)
OutputBlock == Contiguous(2 * BlockSize, 2, BlockSize)
InputBlock == VecBlock(4 * BlockSize, 1, BlockSize)
Addresses == 0 .. 5 * BlockSize - 1

Fresh ==
  /\ memory = [a \in Addresses |-> Zero]
  /\ frame_clock = 0 /\ shared_frame_clock = ZERO
  /\ pc = "idle" /\ left = 0 /\ counter = BlockSize
  /\ heard = <<>> /\ from_host = 0
Init ==
  /\ backend \in {"cpal", "jack"} /\ inputs \in {0, 1}
  /\ client = IF backend = "cpal" THEN "none" ELSE "passive"
  /\ starts = 0 /\ resized = FALSE /\ panicked = FALSE
  /\ Fresh

Running == client \in {"stream", "active"}
Idle == Running /\ pc = "idle" /\ ~panicked

-----------------------------------------------------------------------------
(***************************************************************************)
(* start_processing and stop.  A processor that was given away is gone, so *)
(* every start is with a new one, and a new Graph and clock.               *)
(***************************************************************************)
New ==
  /\ memory' = [a \in Addresses |-> Zero]
  /\ frame_clock' = 0 /\ shared_frame_clock' = ZERO
  /\ pc' = "idle" /\ left' = 0 /\ counter' = BlockSize
  /\ heard' = <<>> /\ from_host' = 0
Kept ==
  UNCHANGED <<memory, frame_clock, shared_frame_clock, pc, left, counter, heard, from_host>>

(* A second start, a wrong number of outputs, which panics, or a device    *)
(* that does not build or play the stream: the processor is lost and all   *)
(* else stays.  A stream that plays and is then dropped is StopCpal.       *)
StartCpal ==
  /\ backend = "cpal" /\ starts < MaxStarts
  /\ starts' = starts + 1
  /\ \/ client = "none" /\ client' = "stream" /\ New
     \/ client' = client /\ Kept
  /\ UNCHANGED <<backend, inputs, resized, panicked>>

(* Stopping drops the stream, once its callback has returned.              *)
StopCpal ==
  /\ backend = "cpal" /\ Idle
  /\ client' = "none"
  /\ Kept /\ UNCHANGED <<backend, inputs, starts, resized, panicked>>

(* The client is taken first: a port that can not be registered, or a      *)
(* client that was active already, drops it, and the processor.            *)
StartJack ==
  /\ backend = "jack" /\ starts < MaxStarts /\ pc = "idle"
  /\ starts' = starts + 1
  /\ \/ client = "passive" /\ client' = "active" /\ New
     \/ client' = "gone" /\ Kept
  /\ UNCHANGED <<backend, inputs, resized, panicked>>

StopJack ==
  /\ backend = "jack" /\ pc = "idle"
  /\ client' = "gone"
  /\ Kept /\ UNCHANGED <<backend, inputs, starts, resized, panicked>>

-----------------------------------------------------------------------------
(***************************************************************************)
(* The callbacks                                                           *)
(***************************************************************************)
CpalCallback(n) ==
  /\ backend = "cpal" /\ Idle /\ Len(heard) + n <= MaxFrames
  /\ left' = n /\ pc' = "frames"
  /\ UNCHANGED <<backend, inputs, state, memory, frame_clock, shared_frame_clock, counter,
                 heard, from_host, resized, panicked>>

(* process copies the frames of the host into input_block, as many as both *)
(* have, and runs one block whatever the host asks for.                    *)
JackCallback(n) ==
  /\ backend = "jack" /\ Idle /\ Len(heard) + n <= MaxFrames
  /\ left' = n /\ pc' = "run"
  /\ from_host' = from_host + n /\ resized' = (resized \/ n # BlockSize)
  /\ memory' = [a \in Addresses |->
       IF inputs = 1 /\ a \in ChannelAsSlice(InputBlock, 0) /\ a - At(InputBlock, 0, 0) < n
       THEN from_host + (a - At(InputBlock, 0, 0)) ELSE memory[a]]
  /\ UNCHANGED <<backend, inputs, state, frame_clock, shared_frame_clock, counter, heard,
                 panicked>>

(* cpal: a new block when all of the last one has been played.             *)
NeedsBlock ==
  /\ pc = "frames" /\ backend = "cpal" /\ left > 0 /\ counter >= BlockSize
  /\ pc' = "run"
  /\ UNCHANGED <<backend, inputs, state, memory, frame_clock, shared_frame_clock, left, counter,
                 heard, from_host, resized, panicked>>

-----------------------------------------------------------------------------
(***************************************************************************)
(* run_raw_ptr_inputs.  The input of the Graph is that of its node.        *)
(***************************************************************************)
Input == Aggregate(IF inputs = 1 THEN <<At(InputBlock, 0, 0)>> ELSE <<>>, BlockSize)

(* The UGen plays a (part of a) block.                                     *)
Play(mem, m, in, out) ==
  LET frames == 0 .. m.frames_to_process - 1
      At0(f) == At(out, 0, f)
      At1(f) == At(out, 1, f)
  IN  [a \in Addresses |->
         IF \E f \in frames : a = At0(f)
         THEN m.frame_clock + (a - At0(0))
         ELSE IF \E f \in frames : a = At1(f)
         THEN IF inputs = 1 THEN mem[At(in, 0, a - At1(0))] ELSE Zero
         ELSE mem[a]]

(* A wrapper that splits what it is given at a frame: two calls of what is *)
(* inside it.                                                              *)
Inner(mem, m, in, out, split) ==
  IF split = 0 THEN Play(mem, m, in, out)
  ELSE LET n == m.frames_to_process
           first == Play(mem, MakePartial(m, 0, split), Partial(in, 0, split),
                         Partial(out, 0, split))
       IN  Play(first, MakePartial(m, split, n - split), Partial(in, split, n - split),
                Partial(out, split, n - split))
Outer(mem, m, in, out, splits) ==
  IF splits[1] = 0 THEN Inner(mem, m, in, out, splits[2])
  ELSE LET n == m.frames_to_process
           first == Play(mem, MakePartial(m, 0, splits[1]), Partial(in, 0, splits[1]),
                         Partial(out, 0, splits[1]))
       IN  Inner(first, MakePartial(m, splits[1], n - splits[1]),
                 Partial(in, splits[1], n - splits[1]),
                 Partial(out, splits[1], n - splits[1]), splits[2])

(* The output of the Graph is copied from that of the node.                *)
CopyOut(mem) ==
  [a \in Addresses |->
     IF \E c \in 0 .. 1 : a \in ChannelAsSlice(OutputBlock, c)
     THEN LET c == CHOOSE c \in 0 .. 1 : a \in ChannelAsSlice(OutputBlock, c)
          IN  mem[At(NodeOutput, c, a - At(OutputBlock, c, 0))]
     ELSE mem[a]]

(* cpal has no inputs: a Graph that has some panics in its first block.    *)
Run ==
  /\ pc = "run" /\ ~panicked
  /\ IF backend = "cpal" /\ inputs > 0
     THEN panicked' = TRUE /\ UNCHANGED <<pc, memory, frame_clock>>
     ELSE /\ \E splits \in Splits :
               memory' = CopyOut(Outer(memory, BlockMetadata(BlockSize, frame_clock), Input,
                                       NodeOutput, splits))
          /\ frame_clock' = frame_clock + BlockSize
          /\ pc' = "store" /\ UNCHANGED panicked
  /\ UNCHANGED <<backend, inputs, state, shared_frame_clock, left, counter, heard, from_host,
                 resized>>

(* The end of run: other threads read the time of the next block.          *)
Store ==
  /\ pc = "store"
  /\ shared_frame_clock' = FromSamples(frame_clock, SampleRate)
  /\ pc' = "frames" /\ counter' = 0
  /\ UNCHANGED <<backend, inputs, state, memory, frame_clock, left, heard, from_host, resized, panicked>>

(* A frame to the host; jack gets all of them from the start of the block. *)
Frame ==
  /\ pc = "frames" /\ left > 0 /\ (counter < BlockSize \/ backend = "jack")
  /\ heard' = Append(heard, [c \in 0 .. 1 |->
       IF counter < BlockSize THEN memory[At(OutputBlock, c, counter)] ELSE Untouched])
  /\ counter' = counter + 1 /\ left' = left - 1
  /\ UNCHANGED <<backend, inputs, state, memory, frame_clock, shared_frame_clock, pc, from_host,
                 resized, panicked>>

Return ==
  /\ pc = "frames" /\ left = 0
  /\ pc' = "idle"
  /\ UNCHANGED <<backend, inputs, state, memory, frame_clock, shared_frame_clock, left, counter,
                 heard, from_host, resized, panicked>>

Next ==
  \/ StartCpal \/ StopCpal \/ StartJack \/ StopJack
  \/ \E n \in CpalSizes : CpalCallback(n)
  \/ \E n \in JackSizes : JackCallback(n)
  \/ NeedsBlock \/ Run \/ Store \/ Frame \/ Return

Spec == Init /\ [][Next]_vars

-----------------------------------------------------------------------------
(***************************************************************************)
(* Properties                                                              *)
(***************************************************************************)
StoredFrame == ToSamples(shared_frame_clock, SampleRate)

(* Whatever frames the host asks for at a time and wherever the wrappers   *)
(* split the blocks, it hears every frame of the Graph once and in order,  *)
(* with the frame of its input that it gave along with it; and the time    *)
(* that other threads read is never before a frame that is heard already   *)
(* and at most a block ahead (processor.rs, cpal.rs, jack.rs, block.rs).   *)
HeardInStep ==
  /\ ~resized =>
       /\ \A k \in DOMAIN heard :
            heard[k] = [c \in 0 .. 1 |-> IF c = 0 \/ inputs = 1 THEN k - 1 ELSE Zero]
       /\ StoredFrame - Len(heard) \in 0 .. BlockSize
  /\ frame_clock - StoredFrame \in {0, BlockSize}

(* Not so when jack changes the size of its periods, which the backend is  *)
(* not told: frames are lost, or are what the host left in its buffer.     *)
HeardWhatever ==
  \A k \in DOMAIN heard : heard[k][0] = k - 1
=============================================================================
