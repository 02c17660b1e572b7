-------------------------------- MODULE Arq --------------------------------
(***************************************************************************)
(* The data transfer of one session in one direction: the station that     *)
(* holds the floor is inside Link.send_message, its peer polls             *)
(* Link.recv_message.  Stop-and-wait ARQ with a sequence number modulo     *)
(* SeqModulo, a retry budget per chunk, and a DATA mode the sender changes *)
(* between chunks (adaptation) and inside one (step down after silence,    *)
(* which may re-cut the chunk).  See whale/link.py, whale/link_receiver.py *)
(* and whale/link_adaptation.py.                                           *)
(*                                                                         *)
(* A byte is the pair <<m, i>>: byte i of message m.  The channel is the   *)
(* radio path: a frame is lost at keying or arrives, in order.  Decoded    *)
(* frames wait in Link._rx_packets, filled by the decode thread.           *)
(***************************************************************************)
EXTENDS Integers, Sequences

CONSTANTS NumMessages,    \* messages the application sends in this session
          MessageLen,     \* their lengths in bytes
          NumModes,       \* size of the station's mode ladder, slow to fast
          PeerModes,      \* the rungs the peer advertised
          ChunkSize,      \* chunk_size of each rung
          MaxRetries,     \* ChannelPolicy.max_retries
          StepDownAfter,  \* ChannelPolicy.step_down_after_attempts
          SeqModulo       \* link_protocol.SEQ_MODULO

Modes == 1..NumModes

ASSUME ArqAssumption ==
  /\ NumMessages \in Nat
  /\ MessageLen \in [1..NumMessages -> Nat]
  /\ NumModes \in Nat \ {0}
  /\ PeerModes \in SUBSET Modes
  /\ ChunkSize \in [Modes -> Nat \ {0}]
  /\ MaxRetries \in Nat \ {0}
  /\ StepDownAfter \in Nat \ {0}
  /\ SeqModulo \in Nat /\ SeqModulo >= 2

VARIABLES
  pc,        \* where send_message is: "idle", "send", "wait", "failed"
  done,      \* send_message calls that have returned
  offset,    \* bytes of the current message already acknowledged
  chunk,     \* the chunk in hand (_send_chunk_with_arq's argument) ...
  isLast,    \* ... whether it ends its message ...
  startMode, \* ... the mode in force when it was cut ...
  attempt,   \* ... and the attempt it is on
  txSeq,     \* _tx_seq
  txMode,    \* tx_profile
  failures,  \* _consecutive_tx_failures
  air,       \* DATA frames keyed and not yet decoded by the receiver
  inbox,     \* DATA frames decoded, in the receiver's _rx_packets
  acks,      \* DATA_ACK frames keyed and not yet handled by the sender
  expect,    \* receiver's _rx_expect_seq
  rxMode,    \* receiver's rx_profile
  partial,   \* receiver's _partial_rx_buf
  delivered, \* messages handed to the receiving application (RX_MESSAGE)
  overlapped \* history: a chunk that had reached the receiver was re-cut

sendCall == <<offset, chunk, isLast, startMode, attempt>>
sender   == <<pc, done, sendCall, txSeq, txMode, failures>>
receiver == <<expect, rxMode, partial, delivered>>
vars     == <<sender, air, inbox, acks, receiver, overlapped>>

----------------------------------------------------------------------------
\* Bytes a+1..b of message m: data[a:b].
Slice(m, a, b) == [i \in 1..(b - a) |-> <<m, a + i>>]

Content(m) == Slice(m, 0, MessageLen[m])

Least(a, b) == IF a <= b THEN a ELSE b

\* data[offset : offset + chunk_size]
CutAt(m, off, mode) == Slice(m, off, Least(off + ChunkSize[mode], MessageLen[m]))

\* Mutant of IsLastAt: judged by the mode the last chunk was cut for.
IsLastAtStart(m, off, mode) == off + ChunkSize[startMode] >= MessageLen[m]

IsLastAt(m, off, mode) == off + ChunkSize[mode] >= MessageLen[m]

\* ModeRegistry.step, and _step_tx_mode's refusal to leave the peer's set.
StepMode(mode, d) == IF mode + d \in PeerModes THEN mode + d ELSE mode

SeqAhead(a, b) == (a - b) % SeqModulo

\* Mutant of NextSeq: the sequence number never wraps.
NextSeqUnbounded(s) == s + 1

NextSeq(s) == (s + 1) % SeqModulo

\* A keyed frame is lost, or joins the frames on their way.
Key(queue, frame) == {queue, Append(queue, frame)}

----------------------------------------------------------------------------
Init ==
  /\ pc = "idle" /\ done = 0
  /\ offset = 0 /\ chunk = << >> /\ isLast = FALSE /\ attempt = 0
  /\ txMode \in PeerModes        \* negotiated in the handshake
  /\ startMode = txMode
  /\ txSeq = 0 /\ failures = 0
  /\ air = << >> /\ inbox = << >> /\ acks = << >>
  /\ expect = 0 /\ rxMode = txMode
  /\ partial = << >> /\ delivered = << >>
  /\ overlapped = FALSE

\* The top of send_message's loop: cut message m at off for this mode.
Cut(m, off, mode) ==
  /\ pc' = "send"
  /\ offset' = off
  /\ chunk' = CutAt(m, off, mode)
  /\ isLast' = IsLastAt(m, off, mode)
  /\ startMode' = mode
  /\ attempt' = 1

\* The application calls send_message.
BeginMessage ==
  /\ pc = "idle"
  /\ done < NumMessages
  /\ Cut(done + 1, 0, txMode)
  /\ UNCHANGED <<done, txSeq, txMode, failures, air, inbox, acks, receiver, overlapped>>

\* One keying of the chunk in hand, at the mode in force now.
TransmitData ==
  /\ pc = "send"
  /\ pc' = "wait"
  /\ air' \in Key(air, [seq |-> txSeq, eof |-> isLast, chunk |-> chunk, mode |-> txMode])
  /\ UNCHANGED <<done, sendCall, txSeq, txMode, failures, inbox, acks, receiver, overlapped>>

\* _maybe_adapt: free choice among the steps the statistics may take, and
\* none when the mode already changed while this chunk was in hand.
Adapted == IF txMode = startMode THEN {StepMode(txMode, d) : d \in {-1, 0, 1}}
                                 ELSE {txMode}

\* Mutant of Accepts: any ACK in the right mode counts.
AcceptsAnyAck(ack) == ack.mode = txMode

\* An ACK counts when it answers the frame in flight, expects the next one
\* and reports the mode this station is transmitting in.
Accepts(ack) ==
  /\ ack.answered = txSeq
  /\ SeqAhead(ack.expects, txSeq) = 1
  /\ ack.mode = txMode

\* The chunk is acknowledged: advance, adapt, cut the next chunk or return.
ChunkAcked ==
  /\ txSeq' = NextSeq(txSeq)
  /\ failures' = 0
  /\ txMode' \in Adapted
  /\ \/ /\ isLast
        /\ pc' = "idle" /\ done' = done + 1
        /\ offset' = 0 /\ chunk' = << >> /\ isLast' = FALSE
        /\ startMode' = txMode' /\ attempt' = 0
     \/ /\ ~isLast
        /\ done' = done
        /\ Cut(done + 1, offset + Len(chunk), txMode')

\* _send_chunk_with_arq pops one DATA_ACK; any other is ignored.
HearAck ==
  /\ pc = "wait"
  /\ acks # << >>
  /\ acks' = Tail(acks)
  /\ \/ Accepts(Head(acks)) /\ ChunkAcked
     \/ ~Accepts(Head(acks)) /\ UNCHANGED sender
  /\ UNCHANGED <<air, inbox, receiver, overlapped>>

\* The chunk in hand has reached the receiver, which has taken it or will
\* find it among the frames under way; the sender cannot know.
Reached == \/ expect # txSeq
           \/ \E i \in DOMAIN inbox : inbox[i].seq = txSeq
           \/ \E i \in DOMAIN air : air[i].seq = txSeq

\* Mutant of AckTimeout: silence is not counted.
AckTimeoutUncounted ==
  /\ pc = "wait"
  /\ pc' = "send"
  /\ UNCHANGED <<done, sendCall, txSeq, txMode, failures, air, inbox, acks, receiver, overlapped>>

\* data_ack_timeout expired (or a FLOOR_REQ cut the wait short): count the
\* failure, step down when there have been enough, and then re-cut the
\* chunk when it no longer fits, give up, or try the same chunk again.
AckTimeout ==
  LET due     == failures + 1 >= StepDownAfter
      newMode == IF due THEN StepMode(txMode, -1) ELSE txMode
      recut   == due /\ Len(chunk) > ChunkSize[newMode]
  IN /\ pc = "wait"
     /\ txMode' = newMode
     /\ failures' = IF newMode # txMode THEN 0 ELSE failures + 1
     /\ overlapped' = (overlapped \/ (recut /\ Reached))
     /\ \/ /\ recut
           /\ Cut(done + 1, offset, newMode)
        \/ /\ ~recut /\ attempt < MaxRetries
           /\ pc' = "send" /\ attempt' = attempt + 1
           /\ UNCHANGED <<offset, chunk, isLast, startMode>>
        \/ /\ ~recut /\ attempt = MaxRetries
           /\ pc' = "failed"
           /\ UNCHANGED sendCall
     /\ UNCHANGED <<done, txSeq, air, inbox, acks, receiver>>

----------------------------------------------------------------------------
\* The decode thread finds a DATA frame: the mode it decoded at becomes
\* rx_profile at once, the frame waits its turn.
DecodeData ==
  /\ air # << >>
  /\ air' = Tail(air)
  /\ inbox' = Append(inbox, Head(air))
  /\ rxMode' = Head(air).mode
  /\ UNCHANGED <<sender, acks, expect, partial, delivered, overlapped>>

\* Mutant of TakeChunk: a retransmission is taken like a new chunk.
TakeAnyChunk(f) ==
  /\ expect' = NextSeq(f.seq)
  /\ delivered' = IF f.eof THEN Append(delivered, partial \o f.chunk) ELSE delivered
  /\ partial' = IF f.eof THEN << >> ELSE partial \o f.chunk

\* _handle_data takes a frame that carries the expected sequence number ...
TakeChunk(f) ==
  /\ f.seq = expect
  /\ expect' = NextSeq(f.seq)
  /\ \/ /\ f.eof
        /\ delivered' = Append(delivered, partial \o f.chunk)
        /\ partial' = << >>
     \/ /\ ~f.eof
        /\ delivered' = delivered
        /\ partial' = partial \o f.chunk

\* ... and drops any other as a retransmission it already has ...
DropDuplicate(f) ==
  /\ f.seq # expect
  /\ UNCHANGED <<expect, partial, delivered>>

\* ... and acknowledges both, naming the mode rx_profile holds by now.
HandleData ==
  /\ inbox # << >>
  /\ inbox' = Tail(inbox)
  /\ TakeChunk(Head(inbox)) \/ DropDuplicate(Head(inbox))
  /\ acks' \in Key(acks, [answered |-> Head(inbox).seq, expects |-> expect', mode |-> rxMode])
  /\ UNCHANGED <<sender, air, rxMode, overlapped>>

----------------------------------------------------------------------------
SendStep == BeginMessage \/ TransmitData \/ HearAck \/ AckTimeout

RecvStep == DecodeData \/ HandleData

Next == SendStep \/ RecvStep

Spec == Init /\ [][Next]_vars

\* Both stations' threads keep running: the sender's worker is inside
\* send_message, whose every wait has a deadline; the decode thread polls
\* and the receiver's worker polls recv_message.  A new call is the
\* application's choice, so BeginMessage is not fair.
Fairness ==
  /\ WF_vars(TransmitData)
  /\ WF_vars(AckTimeout)
  /\ WF_vars(HearAck)
  /\ WF_vars(DecodeData)
  /\ WF_vars(HandleData)

FairSpec == Spec /\ Fairness

----------------------------------------------------------------------------
DataFrame == [seq : 0..(SeqModulo - 1), eof : BOOLEAN,
              chunk : Seq((1..NumMessages) \X Nat), mode : PeerModes]

AckFrame == [answered : 0..(SeqModulo - 1), expects : 0..(SeqModulo - 1), mode : PeerModes]

\* The types of both stations' state and of every frame under way; the modes
\* stay within the set the peer advertised.
TypeOK ==
  /\ pc \in {"idle", "send", "wait", "failed"}
  /\ done \in 0..NumMessages
  /\ offset \in Nat
  /\ chunk \in Seq((1..NumMessages) \X Nat)
  /\ isLast \in BOOLEAN
  /\ startMode \in PeerModes /\ txMode \in PeerModes
  /\ attempt \in 0..MaxRetries
  /\ failures \in Nat
  /\ txSeq \in 0..(SeqModulo - 1)
  /\ air \in Seq(DataFrame) /\ inbox \in Seq(DataFrame)
  /\ acks \in Seq(AckFrame)
  /\ expect \in 0..(SeqModulo - 1)
  /\ rxMode \in PeerModes
  /\ partial \in Seq((1..NumMessages) \X Nat)
  /\ delivered \in Seq(Seq((1..NumMessages) \X Nat))
  /\ overlapped \in BOOLEAN

----------------------------------------------------------------------------
\* The receiving application is given messages 1, 2, ... whole, in order
\* and once each, never ahead of the call that is in progress.
InOrderOnce ==
  /\ Len(delivered) <= done + 1
  /\ \A m \in 1..Len(delivered) : delivered[m] = Content(m)

\* Messages arrive whole, in order and once each on any ladder, whatever was
\* lost, retransmitted, acknowledged late or re-cut (_handle_data's sequence
\* check with _send_chunk_with_arq's ACK check) - up to the first time that a
\* chunk is re-cut after it had reached the receiver: it is then numbered like
\* one the receiver has with more bytes, and the rest comes twice.
InOrderUntilOverlap == ~overlapped => InOrderOnce

BytesOf(s) == {s[i] : i \in 1..Len(s)}

\* A receiver with these two buffers holds byte b, in hand or handed over.
HeldByte(part, given, b) ==
  b \in BytesOf(part) \/ \E d \in 1..Len(given) : b \in BytesOf(given[d])

\* When send_message has returned, every byte of its message has been handed
\* to the receiving application, on any ladder: nothing is left in the
\* receiver's buffer, and as many messages have come up as calls returned.
ReturnedIsDelivered ==
  /\ done <= Len(delivered)
  /\ \A m \in 1..done : \A i \in 1..MessageLen[m] : HeldByte(<< >>, delivered, <<m, i>>)

\* Every byte whose acknowledgement the sender has accepted is a byte the
\* receiver holds, on any ladder, whatever was re-cut: a step down in the
\* middle of a chunk may repeat bytes but never skips one.
NothingLost ==
  \A m \in 1..NumMessages :
    \A i \in 1..MessageLen[m] :
      (m <= done \/ (m = done + 1 /\ i <= offset)) => HeldByte(partial, delivered, <<m, i>>)

\* A send_message call returns or raises: no run of lost frames, late ACKs,
\* steps down and re-cuts keeps it busy for ever.
CallEnds == (pc \in {"send", "wait"}) ~> (pc \in {"idle", "failed"})

Promise == INSTANCE MessageStream WITH returned <- done, broken <- (pc = "failed")

\* Until such an overlap every step of the transfer is one of the abstract
\* stream: a delivery, a return, a failure, or nothing that its two
\* applications can see.
ImplementsStream ==
  Promise!Init /\ [][~overlapped => [Promise!Next]_(Promise!vars)]_vars
=============================================================================
