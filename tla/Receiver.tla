------------------------------ MODULE Receiver ------------------------------
(***************************************************************************)
(* From the sound card to a frame: the capture buffer of whale.transport,  *)
(* the decode thread of whale.link_receiver and the audio history and OFDM *)
(* search of whale.streaming.                                              *)
(*                                                                         *)
(* Three threads: PortAudio's callback appends what it recorded, a sender  *)
(* clears the buffer before and after it is on the air, and the decode     *)
(* thread copies new audio to a ring of its own, looks for frames in it    *)
(* and discards what it is done with.  Audio is counted in samples since   *)
(* the start, in the buffer and in the ring alike; a capture generation    *)
(* says which samples belong together.                                     *)
(*                                                                         *)
(* A sample is the instant of air time it recorded.  A frame is where it   *)
(* begins on the air, what decodes it and whether its CRC will agree:      *)
(* "control" frames by a decoder that looks at everything retained at once *)
(* and reports the sync it likes best, "data" frames by the incremental    *)
(* search, as hf7 and hf8 have it.  Both peers' sessions are open, so both *)
(* are candidates.  Data modes that decode by batch are not modelled.      *)
(***************************************************************************)
EXTENDS Integers, Sequences, FiniteSets, FiniteSetsExt

CONSTANTS Layouts,       \* the sets of frames that may be on the air
          AirTime,       \* bound: instants of air time
          Length,        \* kind of frame -> its samples
          Sync,          \* samples of a control frame's sync pattern
          Preamble,      \* samples of a data frame's preamble
          SearchBlock,   \* OfdmSearch.block
          Guard,         \* OfdmSearch.guard
          Capacity,      \* samples RX_BUFFER_SECONDS holds
          Keep,          \* samples _rx_keep_seconds retains
          MaxLag,        \* bound: audio recorded and not yet read
          MaxBreaks      \* bound: input overflows and own transmissions

ASSUME ReceiverAssumption ==
  /\ AirTime \in Nat /\ MaxLag \in Nat /\ MaxBreaks \in Nat
  /\ Capacity \in Nat \ {0} /\ Keep \in Nat
  /\ Sync \in Nat /\ Preamble \in Nat /\ SearchBlock \in Nat \ {0} /\ Guard \in Nat
  /\ Length \in [{"control", "data"} -> Nat \ {0}]

\* Frames: a peak lies on the frame's start or one sample behind it, and the peer
\* sends one frame at a time.
ASSUME AirAssumption ==
  /\ \A L \in Layouts : \A f \in L :
       /\ f.at \in Nat \ {0} /\ f.late \in {0, 1} /\ f.good \in BOOLEAN
       /\ f.kind \in {"control", "data"}
  /\ \A L \in Layouts : \A f, g \in L :
       f # g => f.at + Length[f.kind] <= g.at \/ g.at + Length[g.kind] <= f.at
  /\ Sync \in 1 .. Length["control"] /\ Guard \in 1 .. Length["data"] - 1

\* The thread reads before a whole frame is waiting, ring and pruning leave room for
\* a frame, and the search reaches a frame's start before its end is there.
ASSUME PaceAssumption ==
  /\ MaxLag # 0
  /\ \A kind \in {"control", "data"} :
       MaxLag < Length[kind] /\ MaxLag + Length[kind] <= Capacity /\ Length[kind] <= Keep
  /\ Preamble + Guard + SearchBlock <= Length["data"] + 1

\* A control frame has been read before the next frame shows: before the sync of a
\* control frame, or a data frame's preamble and the guard behind it, is there.
ASSUME TurnAssumption ==
  /\ Preamble > 1
  /\ \A L \in Layouts : \A f, g \in L :
       f.kind = "control" /\ f.at < g.at =>
         LET shows == IF g.kind = "control" THEN Sync ELSE Preamble + Guard
         IN f.at + Length["control"] + MaxLag <= g.at + shows

VARIABLES
  layout,      \* the frames on the air
  air,         \* instants of air time past
  chunk,       \* what the callback has recorded and not yet appended
  tape,        \* history: every sample ever appended
  held,        \* _chunks_len: the last samples of the tape are in the buffer
  generation,  \* _rx_generation
  overflows,
  sender,      \* where send is; it is transmitting unless "idle"
  sends,
  decoder,     \* where _decode_loop is
  stream,      \* ReceiveStream and the search under it
  retry,       \* _decode_loop's retry
  round,       \* what this pass of _decode_one has found
  delivered,   \* frames queued to the link, in order
  gone         \* history: frames damaged before they could be decoded

card  == <<air, chunk, overflows>>
buffer == <<tape, held, generation>>
own   == <<sender, sends>>
thread == <<decoder, stream, retry, round>>
ghost == <<delivered, gone>>
vars  == <<layout, card, buffer, own, thread, ghost>>

Own == 0             \* a sample of our own transmission
RxEnd == Len(tape)   \* _rx_end
BufferStart == RxEnd - held
Larger(a, b) == IF a > b THEN a ELSE b
Smaller(a, b) == IF a < b THEN a ELSE b

\* Frames on the air that began before this instant and are not delivered
Begun(instant) == {f \in layout : f.at <= instant} \ {delivered[i] : i \in DOMAIN delivered}

----------------------------------------------------------------------------
(* RadioTransport: _in_callback, _clear_buffer *)

\* The buffer part of _clear_buffer; _rx_end goes on.
Clear(instant) ==
  /\ held' = 0 /\ generation' = generation + 1
  /\ gone' = gone \union Begun(instant)
  /\ UNCHANGED tape

\* The decode thread keeps up but for MaxLag samples, unless it is sitting out
\* our own transmission.
Unread == IF stream.generation = generation THEN RxEnd - stream.end ELSE held
KeepsUp == Unread < MaxLag \/ sender = "onAir"

Recorded == IF sender = "onAir" THEN Own ELSE air + 1

CallbackRecords ==
  /\ chunk = <<>> /\ air < AirTime /\ KeepsUp
  /\ chunk' = <<Recorded>> /\ air' = air + 1
  /\ gone' = IF Recorded = Own
             THEN gone \union {f \in Begun(air + 1) : air + 1 < f.at + Length[f.kind]}
             ELSE gone
  /\ UNCHANGED <<layout, overflows, buffer, own, thread, delivered>>

\* Mutant of Dropped: the overflow is counted and the buffer left as it is.
DroppedUncleared(instant) ==
  /\ gone' = gone \union Begun(instant)
  /\ UNCHANGED <<tape, held, generation>>
Dropped(instant) == Clear(instant)

\* input_overflow: a sample is missing in front of this one.
CallbackOverflows ==
  /\ chunk = <<>> /\ air + 1 < AirTime /\ KeepsUp
  /\ overflows + sends < MaxBreaks /\ overflows' = overflows + 1
  /\ chunk' = <<IF sender = "onAir" THEN Own ELSE air + 2>> /\ air' = air + 2
  /\ Dropped(air + 2)
  /\ UNCHANGED <<layout, own, thread, delivered>>

\* Whole chunks are dropped in front; a chunk is one sample here.
CallbackAppends ==
  /\ chunk # <<>>
  /\ tape' = tape \o chunk
  /\ held' = Smaller(held + 1, Capacity + 1)
  /\ chunk' = <<>>
  /\ UNCHANGED <<layout, air, overflows, generation, own, thread, ghost>>

----------------------------------------------------------------------------
(* RadioTransport.send, as the receive side sees it *)

SendBegins ==
  /\ sender = "idle" /\ overflows + sends < MaxBreaks
  /\ sender' = "raised" /\ sends' = sends + 1
  /\ UNCHANGED <<layout, card, buffer, thread, ghost>>

SendClears ==
  /\ sender \in {"raised", "onAir"}
  /\ sender' = IF sender = "raised" THEN "onAir" ELSE "cleared"
  /\ Clear(air)
  /\ UNCHANGED <<layout, card, sends, thread, delivered>>

SendReturns ==
  /\ sender = "cleared"
  /\ sender' = "idle"
  /\ UNCHANGED <<layout, card, buffer, sends, thread, ghost>>

----------------------------------------------------------------------------
(* The decode thread's own audio: ReceiveStream, AudioHistory, OfdmSearch *)

Retained == stream.start .. stream.end - 1
At(position) == stream.ring[position % Capacity]

\* The ring holds n samples of the air from this instant on.
Hears(position, instant, n) ==
  /\ position \in Retained /\ position + n <= stream.end
  /\ \A i \in 0 .. n - 1 : At(position + i) = instant + i

\* Where the search measures a data frame to begin: routinely a sample late.
Peak(f) == f.at + f.late

\* Mutant of Slot: the ring is one sample longer than the modulus.
SlotShort(position) == position % (Capacity - 1)
Slot(position) == position % Capacity

\* AudioHistory.append
Written(ring, from, upto) ==
  [slot \in DOMAIN ring |->
     LET fresh == {p \in from .. upto - 1 : Slot(p) = slot}
     IN IF fresh = {} THEN ring[slot] ELSE tape[Max(fresh) + 1]]

\* Mutant of Broken: only a hole in the positions breaks the stream.
BrokenByHole(from) == from # stream.end
\* ReceiveStream.append: this audio does not continue what is retained.
Broken(from) == generation # stream.generation \/ from # stream.end

\* Mutant of Oldest: the ring wraps and forgets that it did.
OldestOverwritten(start) == start
Oldest(start) == Larger(start, RxEnd - Capacity)

Appended(from) ==
  LET s == IF Broken(from)
           THEN [stream EXCEPT !.start = from, !.cursor = from,
                               !.candidates = {}, !.attempted = {}]
           ELSE stream
  IN [s EXCEPT !.generation = generation, !.end = RxEnd,
               !.start = Oldest(@),
               !.ring = Written(s.ring, from, RxEnd)]

\* Mutant of SearchEnd: blocks are searched as soon as they are there.
SearchEndNoContext(from) ==
  LET room == stream.end - from IN from + (room \div SearchBlock) * SearchBlock
\* Whole blocks, and only with a preamble's and the guard's context behind them.
SearchEnd(from) ==
  LET room == Larger(0, stream.end - (from + Preamble - 1 + Guard))
  IN from + (room \div SearchBlock) * SearchBlock

\* OfdmSearch.update.  A frame whose start lies just behind the cursor, and is
\* no candidate, is mistaken for one that begins a preamble symbol later.
Searched ==
  LET from == Larger(stream.cursor, stream.start)
      upto == SearchEnd(from)
      old  == {c \in stream.candidates : c >= stream.start}
      data == {f \in layout : f.kind = "data"}
      found == {p \in from .. upto - 1 : \E f \in data : Hears(p, Peak(f), Preamble)}
      ghosts == {p \in {from} \intersect (from .. upto - 1) :
                   /\ \E f \in data : Hears(p, Peak(f) + 1, Preamble - 1)
                   /\ p - 1 \notin old}
  IN [cursor |-> upto, candidates |-> old \union found \union ghosts]

----------------------------------------------------------------------------
(* _decode_loop *)

NewRound == [pending |-> FALSE, misses |-> {}, frame |-> {}, end |-> 0]

NothingNew(from) == from = RxEnd /\ ~Broken(from) /\ ~retry

\* read_rx and ReceiveStream.append.  Looking at is_transmitting is one step
\* with the read: no frame fits between the two.
Read ==
  /\ decoder = "poll" /\ sender = "idle"
  /\ LET from == IF stream.generation = generation
                 THEN Smaller(RxEnd, Larger(BufferStart, stream.end))
                 ELSE BufferStart
     IN /\ ~NothingNew(from)
        /\ stream' = Appended(from)
        /\ IF stream'.start = stream'.end
           THEN retry' = FALSE /\ UNCHANGED decoder
           ELSE decoder' = "control" /\ UNCHANGED retry
  /\ round' = NewRound
  /\ UNCHANGED <<layout, card, buffer, own, ghost>>

----------------------------------------------------------------------------
(* _decode_one *)

\* The control mode's decoder: the best sync of what is retained.  A frame that
\* has not ended yet has no end_index.
TryControl ==
  /\ decoder = "control"
  /\ LET syncs == {p \in Retained : \E f \in layout : f.kind = "control" /\ Hears(p, f.at, Sync)}
     IN \/ syncs = {} /\ decoder' = "data" /\ UNCHANGED round
        \/ \E p \in syncs :
             LET f == CHOOSE g \in layout : g.at = At(p)
                 end == p + Length["control"]
             IN IF end > stream.end
                THEN decoder' = "data" /\ round' = [round EXCEPT !.pending = TRUE]
                ELSE IF f.good /\ Hears(p, f.at, Length["control"])
                THEN /\ decoder' = "accept"
                     /\ round' = [round EXCEPT !.frame = {f}, !.end = end,
                                               !.misses = {p + Sync}]
                ELSE decoder' = "data" /\ round' = [round EXCEPT !.misses = {p + Sync}]
  /\ UNCHANGED <<layout, card, buffer, own, stream, retry, ghost>>

\* Mutant of FrameEnd: the frame is consumed to its last sample.
FrameEndExact(p) == p + Length["data"]
\* One guard short: the next frame may begin right there.
FrameEnd(p) == p + Length["data"] - Guard

\* OfdmReceiver.decode: every whole candidate once, in order, until one decodes.
TryData ==
  /\ decoder = "data"
  /\ LET s == Searched
         whole == {c \in s.candidates \ stream.attempted : c + Length["data"] <= stream.end}
         decodes(c, f) == f.kind = "data" /\ f.good
                          /\ Hears(c, Peak(f), Length["data"] - f.late)
         right == {c \in whole : \E f \in layout : decodes(c, f)}
         tried == IF right = {} THEN whole ELSE {c \in whole : c <= Min(right)}
     IN /\ stream' = [stream EXCEPT !.cursor = s.cursor, !.candidates = s.candidates,
                        !.attempted = {c \in @ : c >= stream.start} \union tried]
        /\ IF right # {}
           THEN /\ decoder' = "accept"
                /\ round' = [round EXCEPT
                     !.frame = {f \in layout : decodes(Min(right), f)},
                     !.end = FrameEnd(Min(right)), !.misses = @ \union {FrameEnd(Min(right))}]
           ELSE /\ decoder' = "over"
                /\ round' = [round EXCEPT !.pending =
                     @ \/ \E c \in s.candidates : c + Length["data"] > stream.end]
  /\ UNCHANGED <<layout, card, buffer, own, retry, ghost>>

\* accept_checked, up to the generation; a result it turns down stays one of the
\* results.
Accept ==
  /\ decoder = "accept"
  /\ decoder' = IF generation = stream.generation THEN "take"
                ELSE IF \E f \in round.frame : f.kind = "control" THEN "data" ELSE "over"
  /\ round' = IF decoder' = "take" THEN round ELSE [round EXCEPT !.frame = {}]
  /\ UNCHANGED <<layout, card, buffer, own, stream, retry, ghost>>

\* consume_rx_through
ConsumeThrough(end) ==
  held' = IF generation = stream.generation
          THEN held - Smaller(held, Larger(0, end - BufferStart)) ELSE held

\* Mutant of Discard: the ring keeps what was consumed.
DiscardNothing(end) == UNCHANGED stream
\* AudioHistory.discard
Discard(end) ==
  stream' = [stream EXCEPT !.start = Smaller(stream.end, Larger(@, end))]

\* _consume_rx
Consume(end) ==
  /\ ConsumeThrough(end) /\ Discard(end)
  /\ UNCHANGED <<tape, generation>>

\* The rest of accept_checked: consumed, then queued.
Take ==
  /\ decoder = "take"
  /\ Consume(round.end)
  /\ \E f \in round.frame : delivered' = Append(delivered, f)
  /\ retry' = TRUE
  /\ decoder' = "poll"
  /\ UNCHANGED <<layout, card, own, round, gone>>

\* Nothing accepted: skip the earliest near miss, or retain one frame's worth.
Over ==
  /\ decoder = "over"
  /\ decoder' = "poll"
  /\ IF ~round.pending /\ round.misses # {}
     THEN Consume(Min(round.misses)) /\ retry' = TRUE
     ELSE /\ retry' = FALSE
          /\ IF stream.end - stream.start > Keep THEN Consume(stream.end - Keep)
             ELSE UNCHANGED <<buffer, stream>>
  /\ UNCHANGED <<layout, card, own, round, ghost>>

----------------------------------------------------------------------------
Init ==
  /\ layout \in Layouts
  /\ air = 0 /\ chunk = <<>> /\ overflows = 0
  /\ tape = <<>> /\ held = 0 /\ generation = 0
  /\ sender = "idle" /\ sends = 0
  /\ decoder = "poll" /\ retry = FALSE /\ round = NewRound
  /\ stream = [generation |-> -1, start |-> 0, end |-> 0, cursor |-> 0,
               candidates |-> {}, attempted |-> {},
               ring |-> [slot \in 0 .. Capacity - 1 |-> Own]]
  /\ delivered = <<>> /\ gone = {}

Decode == Read \/ TryControl \/ TryData \/ Accept \/ Take \/ Over

Next ==
  \/ CallbackRecords \/ CallbackOverflows \/ CallbackAppends
  \/ SendBegins \/ SendClears \/ SendReturns
  \/ Decode

Spec == Init /\ [][Next]_vars

\* The card records, the decode thread runs and a send ends.
Fairness ==
  /\ WF_vars(CallbackRecords \/ CallbackAppends)
  /\ WF_vars(SendClears \/ SendReturns)
  /\ WF_vars(Decode)

FairSpec == Spec /\ Fairness
----------------------------------------------------------------------------
(* Properties *)

TypeOK ==
  /\ layout \in Layouts /\ air \in 0 .. AirTime /\ overflows \in 0 .. MaxBreaks
  /\ chunk \in {<<>>} \union {<<i>> : i \in 0 .. AirTime}
  /\ RxEnd <= air /\ \A p \in 1 .. RxEnd : tape[p] \in 0 .. AirTime
  /\ held \in 0 .. Smaller(RxEnd, Capacity + 1) /\ generation \in Nat
  /\ sender \in {"idle", "raised", "onAir", "cleared"} /\ sends \in 0 .. MaxBreaks
  /\ decoder \in {"poll", "control", "data", "accept", "take", "over"} /\ retry \in BOOLEAN
  /\ stream.start \in 0 .. stream.end /\ stream.end \in 0 .. RxEnd
  /\ stream.end - stream.start <= Capacity

\* What the decode thread retains is, sample for sample, one unbroken stretch
\* of what the card recorded: no overflow, clear, wrap of the ring or lagging
\* read splices two captures (AudioHistory, _in_callback, read_rx).
OneCapture ==
  \A p \in Retained :
    /\ At(p) = tape[p + 1]
    /\ p + 1 \in Retained => Own \in {At(p), At(p + 1)} \/ At(p + 1) = At(p) + 1

\* Frames reach the link once and in the order they were on the air, whichever of the
\* two decoders finds them, however long one waits in the ring and however often it is
\* looked at as audio arrives (TryControl before TryData in _decode_one, _consume_rx,
\* attempted).
DeliveredInOrder ==
  \A i, j \in DOMAIN delivered : i < j => delivered[i].at < delivered[j].at

\* Where a frame must still be found: late by its own peak, in the ring or in the
\* part of the buffer that is still to be read.
Reachable(f) ==
  LET first == IF f.kind = "data" THEN Peak(f) ELSE f.at
  IN \E p \in 0 .. RxEnd - 1 :
       /\ tape[p + 1] = first
       /\ \/ stream.generation = generation /\ p \in Retained
          \/ p >= BufferStart /\ (stream.generation = generation => p >= stream.end)

\* Consuming a frame, skipping a near miss, pruning and a consumption that comes
\* after a clear never take the beginning of a frame that is not yet decoded
\* (consume_rx_through, the guard of OfdmReceiver, _rx_keep_seconds).
NonePassedOver ==
  \A f \in Begun(IF RxEnd = 0 THEN 0 ELSE tape[RxEnd] - 1) \ gone :
    f.good => Reachable(f)

\* Every undamaged frame reaches the link, also when nothing follows it for a
\* while and when several wait in the ring.
EveryFrameFound ==
  <>(\A f \in layout : f.good => f \in gone \/ \E i \in DOMAIN delivered : delivered[i] = f)
=============================================================================
