------------------------------- MODULE Blocks --------------------------------
(***************************************************************************)
(* The Block types: where in memory the frame of a channel lies, and which *)
(* accesses panic.                                                         *)
(*                                                                         *)
(* A block is [starts, block_size, limit]: the address of the first frame  *)
(* of every channel, the number of frames, and the number of addresses     *)
(* from the start of a channel that read and write accept.  Channels and   *)
(* frames are counted from 0, as in the code.                              *)
(***************************************************************************)
EXTENDS Integers, Sequences

Channels(b) == DOMAIN b.starts

(* RawContiguousBlock                                                      *)
Contiguous(buffer, channels, block_size) ==
  [starts |-> [c \in 0 .. channels - 1 |-> buffer + c * block_size],
   block_size |-> block_size, limit |-> [c \in 0 .. channels - 1 |-> block_size]]

(* VecBlock and StaticBlock: a frame past the end of its channel is one of *)
(* the next channel, only the end of the whole buffer is looked at.        *)
VecBlock(buffer, channels, block_size) ==
  [Contiguous(buffer, channels, block_size) EXCEPT
     !.limit = [c \in 0 .. channels - 1 |-> (channels - c) * block_size]]

(* RawAggregateBlock and RawAggregateBlockRead                             *)
Aggregate(buffers, block_size) ==
  [starts |-> [c \in 0 .. Len(buffers) - 1 |-> buffers[c + 1]],
   block_size |-> block_size, limit |-> [c \in 0 .. Len(buffers) - 1 |-> block_size]]

(* PartialBlock and PartialBlockMut: a block of a part of its frames.  An  *)
(* access goes on to the block inside, which alone looks at the frame.     *)
WholeBlock(b, start_offset, length) ==             \* mutant: frame + 0
  [b EXCEPT !.block_size = length]
Partial(b, start_offset, length) ==
  [starts |-> [c \in Channels(b) |-> b.starts[c] + start_offset],
   block_size |-> length, limit |-> [c \in Channels(b) |-> b.limit[c] - start_offset]]

(* read, write, and channel_as_slice                                       *)
At(b, channel, frame) == b.starts[channel] + frame
Accepted(b, channel, frame) == channel \in Channels(b) /\ frame < b.limit[channel]
ChannelAsSlice(b, channel) == b.starts[channel] .. b.starts[channel] + b.block_size - 1

(* BlockMetadata                                                           *)
BlockMetadata(block_size, frame_clock) ==
  [block_start_offset |-> 0, frames_to_process |-> block_size, frame_clock |-> frame_clock]
MakePartial(m, start_offset, length) ==
  [block_start_offset |-> m.block_start_offset + start_offset, frames_to_process |-> length,
   frame_clock |-> m.frame_clock + start_offset]

-----------------------------------------------------------------------------
(* What the Safety sections of Block ask for: channels do not overlap, so  *)
(* iter_mut may hand them all out at once.                                 *)
Disjoint(b) ==
  \A c, d \in Channels(b) : c # d => ChannelAsSlice(b, c) \cap ChannelAsSlice(b, d) = {}

(* A part whose accesses stay within the block that it is a part of.       *)
PartOf(p, b) ==
  Channels(p) = Channels(b) /\ \A c \in Channels(b) : ChannelAsSlice(p, c) \subseteq ChannelAsSlice(b, c)
=============================================================================
