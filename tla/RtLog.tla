------------------------------- MODULE RtLog --------------------------------
(***************************************************************************)
(* The log of the audio threads: rt_log! pushes the parts of a message one *)
(* by one and an End after them into a ring of its thread, and             *)
(* ArLogReceiver::recv hands the chains that have an End to a function, in *)
(* the one or two slices of the memory of the ring that they lie in.       *)
(*                                                                         *)
(* Both sides work at the same time: a push sees the slots that have been  *)
(* committed, recv sees the parts that were there when it asked for slots. *)
(***************************************************************************)
EXTENDS Integers, Sequences

CONSTANTS
  MaxChannels, Capacity,    \* the rings that `sender` makes, in order
  MaxParts, MaxMessages     \* bounds for TLC, not in the code

ASSUME LogAssumption ==
  /\ MaxChannels \in Nat /\ Capacity \in [1 .. MaxChannels -> Nat \ {0}]
  /\ MaxParts \in Nat /\ MaxMessages \in [1 .. MaxChannels -> Nat]

Channel == 1 .. MaxChannels
Part == [message : Nat \ {0}, part : Nat, last : Nat, end : BOOLEAN]

VARIABLES
  channels,                 \* how many channels the receiver has
  sending,                  \* what the rt_log! of a thread has not yet sent
  messages,                 \* how many messages a thread has begun to send
  ring, start,              \* the parts in a ring, and the slot of the first
  rec,                      \* the channel that recv is at, 0 between calls
  reading,                  \* whether it has got the chunk of that channel
  chunk, last_end,
  accepted, dropped,        \* the parts that fitted, whether any did not (history)
  received                  \* the chains handed to log_handler (history)

sender == <<sending, messages, dropped>>
receiver == <<rec, reading, chunk, last_end, start, received>>
vars == <<channels, sending, messages, ring, start, rec, reading, chunk, last_end,
          accepted, dropped, received>>

Init ==
  /\ channels = 0
  /\ sending = [c \in Channel |-> <<>>] /\ messages = [c \in Channel |-> 0]
  /\ ring = [c \in Channel |-> <<>>] /\ start = [c \in Channel |-> 0]
  /\ rec = 0 /\ reading = FALSE /\ chunk = 0 /\ last_end = 0
  /\ accepted = [c \in Channel |-> <<>>] /\ dropped = [c \in Channel |-> FALSE]
  /\ received = [c \in Channel |-> <<>>]

-----------------------------------------------------------------------------
(* sender: one more channel; it takes the receiver, so no recv is under way.*)
Sender ==
  /\ rec = 0 /\ channels < MaxChannels
  /\ channels' = channels + 1
  /\ UNCHANGED <<sender, receiver, ring, accepted>>

(* rt_log!: k parts and the End.                                           *)
Message(m, k) ==
  [i \in 1 .. k + 1 |-> [message |-> m, part |-> i, last |-> k + 1, end |-> i = k + 1]]
Log(c) ==
  /\ c <= channels /\ sending[c] = <<>> /\ messages[c] < MaxMessages[c]
  /\ \E k \in 0 .. MaxParts :
       sending' = [sending EXCEPT ![c] = Message(messages[c] + 1, k)]
  /\ messages' = [messages EXCEPT ![c] = @ + 1]
  /\ UNCHANGED <<channels, receiver, ring, accepted, dropped>>

(* ArLogSender::send: a part that finds the ring full is gone.             *)
FitsOneMore(c) == Len(ring[c]) <= Capacity[c]      \* mutant: one part too many
Fits(c) == Len(ring[c]) < Capacity[c]
Send(c) ==
  /\ sending[c] # <<>>
  /\ sending' = [sending EXCEPT ![c] = Tail(@)]
  /\ IF Fits(c)
     THEN /\ ring' = [ring EXCEPT ![c] = Append(@, Head(sending[c]))]
          /\ accepted' = [accepted EXCEPT ![c] = Append(@, Head(sending[c]))]
          /\ UNCHANGED dropped
     ELSE dropped' = [dropped EXCEPT ![c] = TRUE] /\ UNCHANGED <<ring, accepted>>
  /\ UNCHANGED <<channels, messages, receiver>>

-----------------------------------------------------------------------------
(***************************************************************************)
(* recv                                                                    *)
(***************************************************************************)
Recv ==
  /\ rec = 0 /\ channels > 0
  /\ rec' = 1
  /\ UNCHANGED <<channels, sender, ring, accepted, reading, chunk, last_end, start, received>>

ReadChunk ==
  /\ rec # 0 /\ ~reading
  /\ reading' = TRUE /\ chunk' = Len(ring[rec]) /\ last_end' = 0
  /\ UNCHANGED <<channels, sender, ring, accepted, rec, start, received>>

(* as_slices: up to the end of the memory of the ring, and from its start. *)
ToTheEnd(c) == Capacity[c] - start[c]
InFirst(c) == IF chunk < ToTheEnd(c) THEN chunk ELSE ToTheEnd(c)
First(c) == SubSeq(ring[c], 1, InFirst(c))
Second(c) == SubSeq(ring[c], InFirst(c) + 1, chunk)

(* What of the chain of `length` parts after the `from` first ones lies in *)
(* either slice: counted from 1, where the code counts from 0.             *)
Least(a, b) == IF a < b THEN a ELSE b
Slice0(s0, from, length) ==
  IF from >= Len(s0) THEN <<>> ELSE SubSeq(s0, from + 1, Least(from + length, Len(s0)))
WholeSecond(s0, s1, from, length) ==               \* mutant: the start within s1 is forgotten
  IF from + length <= Len(s0) THEN <<>> ELSE SubSeq(s1, 1, from + length - Len(s0))
Slice1(s0, s1, from, length) ==
  CASE from + length <= Len(s0) -> <<>>
    [] from + length > Len(s0) /\ from >= Len(s0) ->
         SubSeq(s1, from - Len(s0) + 1, from + length - Len(s0))
    [] from + length > Len(s0) /\ from < Len(s0) -> SubSeq(s1, 1, from + length - Len(s0))

(* The next End in the chunk, and the chain up to it to the handler.       *)
Ends(c) == {i \in last_end + 1 .. chunk : ring[c][i].end}
Hand ==
  /\ reading
  /\ \E i \in Ends(rec) :
       /\ \A j \in Ends(rec) : i <= j
       /\ received' = [received EXCEPT ![rec] = Append(@,
            Slice0(First(rec), last_end, i - last_end)
              \o Slice1(First(rec), Second(rec), last_end, i - last_end))]
       /\ last_end' = i
  /\ UNCHANGED <<channels, sender, ring, accepted, rec, reading, chunk, start>>

(* Parts without an End stay in the ring.                                  *)
AllRead(c) ==                                      \* mutant: commit(chunk)
  [ring EXCEPT ![c] = SubSeq(@, chunk + 1, Len(@))]
Committed(c) == [ring EXCEPT ![c] = SubSeq(@, last_end + 1, Len(@))]
Commit ==
  /\ reading /\ Ends(rec) = {}
  /\ ring' = Committed(rec)
  /\ start' = [start EXCEPT ![rec] = (@ + last_end) % Capacity[rec]]
  /\ reading' = FALSE /\ chunk' = 0 /\ last_end' = 0
  /\ rec' = IF rec = channels THEN 0 ELSE rec + 1
  /\ UNCHANGED <<channels, sender, accepted, received>>

Next ==
  \/ Sender \/ Recv \/ ReadChunk \/ Hand \/ Commit
  \/ \E c \in Channel : Log(c) \/ Send(c)

(* A thread ends the rt_log! that it has begun, and the receiver is asked  *)
(* again and again.                                                        *)
Spec ==
  /\ Init /\ [][Next]_vars
  /\ \A c \in Channel : WF_vars(Send(c))
  /\ WF_vars(Recv) /\ WF_vars(ReadChunk) /\ WF_vars(Hand) /\ WF_vars(Commit)

-----------------------------------------------------------------------------
(***************************************************************************)
(* Properties                                                              *)
(***************************************************************************)
TypeOK ==
  /\ channels \in 0 .. MaxChannels /\ rec \in 0 .. channels
  /\ sending \in [Channel -> Seq(Part)] /\ messages \in [Channel -> Nat]
  /\ ring \in [Channel -> Seq(Part)] /\ accepted \in [Channel -> Seq(Part)]
  /\ start \in [Channel -> Nat]
  /\ \A c \in Channel : start[c] < Capacity[c] /\ Len(ring[c]) <= Capacity[c]
  /\ reading \in BOOLEAN /\ chunk \in Nat /\ last_end \in Nat /\ last_end <= chunk
  /\ reading => rec # 0 /\ chunk <= Len(ring[rec])
  /\ dropped \in [Channel -> BOOLEAN]
  /\ received \in [Channel -> Seq(Seq(Part))]

(* How much of a ring recv has handed over but not yet committed.          *)
Given(c) == IF reading /\ c = rec THEN last_end ELSE 0

(* The chain that is handed over is the part of the ring up to the next    *)
(* End, whichever way it lies around the end of the memory; what is not    *)
(* handed over stays (log.rs:158-193).                                     *)
HandedAsItLies ==
  [][\A c \in Channel :
       /\ received'[c] # received[c] =>
            /\ received'[c] = Append(received[c],
                                     SubSeq(ring[c], Given(c) + 1, Given(c)'))
            /\ \A i \in Given(c) + 1 .. Given(c)' : ring[c][i].end <=> i = Given(c)'
       /\ Len(ring'[c]) < Len(ring[c]) => ring'[c] = SubSeq(ring[c], Given(c) + 1, Len(ring[c]))
    ]_vars

(* While the ring takes everything, what a chain holds is one message, all *)
(* of it, and the chains are the messages in the order they were sent; in  *)
(* any case every End that was accepted comes out (log.rs:155).            *)
WholeMessage(chain, m) ==
  \A i \in DOMAIN chain : chain[i].message = m /\ chain[i].part = i /\ chain[i].last = Len(chain)
Received(c, m) ==
  \E k \in DOMAIN received[c] : received[c][k][Len(received[c][k])].message = m
Accepted(c, m) ==
  \E i \in DOMAIN accepted[c] : accepted[c][i].end /\ accepted[c][i].message = m
MessagesArrive ==
  /\ [](\A c \in Channel :
          ~dropped[c] => \A k \in DOMAIN received[c] : WholeMessage(received[c][k], k))
  /\ \A c \in Channel : \A m \in 1 .. MaxMessages[c] : Accepted(c, m) ~> Received(c, m)

(* "Only full message chains are received" (log.rs:155).  Not once a part  *)
(* was dropped: without its End a message is the beginning of the next one.*)
OnlyFullMessages ==
  \A c \in Channel : \A k \in DOMAIN received[c] :
    \E m \in 1 .. MaxMessages[c] : WholeMessage(received[c][k], m)
=============================================================================
