----------------------------- MODULE ArqProofs -----------------------------
(***************************************************************************)
(* Proofs about Arq, for every message, ladder, retry budget and sequence  *)
(* modulus.  TypeCorrect comes first; SeqInv is the argument that makes    *)
(* one bit of sequence number enough, whatever the frames carry; CoverInv  *)
(* adds the bytes the receiver holds, EndInv what it has handed over, and  *)
(* DataInv that it holds exactly what it should, as long as no chunk was   *)
(* re-cut after it had reached the receiver.  The ladder is any ladder.    *)
(***************************************************************************)
EXTENDS Arq, SequenceTheorems, TLAPS

Busy == pc # "idle"

\* The frame or ACK with this number belongs to the chunk before the one in hand.
Old(seq) == NextSeq(seq) = txSeq

----------------------------------------------------------------------------
\* A DATA frame of the chunk in hand is never followed by one of the chunk
\* before it, in either queue or across them.
FrameOrder ==
  /\ \A i, j \in 1..Len(inbox) : (i < j /\ inbox[i].seq = txSeq) => inbox[j].seq = txSeq
  /\ \A i, j \in 1..Len(air) : (i < j /\ air[i].seq = txSeq) => air[j].seq = txSeq
  /\ \A i \in 1..Len(inbox) : \A j \in 1..Len(air) :
       inbox[i].seq = txSeq => air[j].seq = txSeq

\* No frame or ACK is more than one chunk old.
Recent ==
  /\ \A i \in 1..Len(inbox) : inbox[i].seq = txSeq \/ Old(inbox[i].seq)
  /\ \A i \in 1..Len(air) : air[i].seq = txSeq \/ Old(air[i].seq)
  /\ \A i \in 1..Len(acks) : acks[i].answered = txSeq \/ Old(acks[i].answered)

\* The receiver expects the chunk in hand, or has it and then nothing older
\* is on its way.
ReceiverAt ==
  \/ expect = txSeq
  \/ /\ expect = NextSeq(txSeq)
     /\ \A i \in 1..Len(inbox) : inbox[i].seq = txSeq
     /\ \A i \in 1..Len(air) : air[i].seq = txSeq

\* An ACK of the chunk in hand is sent only by a receiver that has it, and is
\* never followed by an older one.
AckOrder ==
  /\ \A i \in 1..Len(acks) : acks[i].answered = txSeq => expect # txSeq
  /\ \A i, j \in 1..Len(acks) :
       (i < j /\ acks[i].answered = txSeq) => acks[j].answered = txSeq

\* Between calls the receiver is level and everything under way is old.
Quiet ==
  pc = "idle" => /\ expect = txSeq
                 /\ \A i \in 1..Len(inbox) : inbox[i].seq # txSeq
                 /\ \A i \in 1..Len(air) : air[i].seq # txSeq

SeqInv == FrameOrder /\ Recent /\ ReceiverAt /\ AckOrder /\ Quiet

----------------------------------------------------------------------------
\* The chunk in hand is the piece of the message that starts at offset.
ChunkInHand ==
  /\ pc = "idle" => offset = 0 /\ chunk = << >> /\ isLast = FALSE
  /\ Busy => /\ done < NumMessages
             /\ offset + Len(chunk) <= MessageLen[done + 1]
             /\ chunk = Slice(done + 1, offset, offset + Len(chunk))
             /\ isLast => offset + Len(chunk) = MessageLen[done + 1]

\* Every frame with its number carries it.
SameChunk ==
  /\ \A i \in 1..Len(inbox) :
       inbox[i].seq = txSeq => inbox[i].chunk = chunk /\ inbox[i].eof = isLast
  /\ \A i \in 1..Len(air) :
       air[i].seq = txSeq => air[i].chunk = chunk /\ air[i].eof = isLast

\* The receiver holds exactly what precedes the chunk it expects.
ReceiverHolds ==
  /\ \A m \in 1..Len(delivered) : delivered[m] = Content(m)
  /\ expect = txSeq => /\ Len(delivered) = done
                       /\ partial = Slice(done + 1, 0, offset)
  /\ expect # txSeq /\ isLast => Len(delivered) = done + 1 /\ partial = << >>
  /\ expect # txSeq /\ ~isLast => /\ Len(delivered) = done
                                  /\ partial = Slice(done + 1, 0, offset + Len(chunk))

DataInv == ChunkInHand /\ (~overlapped => SameChunk /\ ReceiverHolds)

----------------------------------------------------------------------------
\* A receiver with these two buffers holds bytes 1..n of message m.
Holds(part, given, m, n) == \A i \in 1..n : HeldByte(part, given, <<m, i>>)

\* A frame carries the n bytes of message m after off (and maybe more: the
\* chunk may have been re-cut since).
Carries(f, m, off, n) == \A i \in 1..n : <<m, off + i>> \in BytesOf(f.chunk)

\* Every frame of the chunk in hand carries it, and what the sender counts as
\* acknowledged, or the receiver as taken, the receiver holds.
Covered ==
  /\ \A i \in 1..Len(inbox) :
       inbox[i].seq = txSeq => Carries(inbox[i], done + 1, offset, Len(chunk))
  /\ \A i \in 1..Len(air) :
       air[i].seq = txSeq => Carries(air[i], done + 1, offset, Len(chunk))
  /\ \A m \in 1..done : Holds(partial, delivered, m, MessageLen[m])
  /\ Busy => Holds(partial, delivered, done + 1, offset)
  /\ expect # txSeq => Holds(partial, delivered, done + 1, offset + Len(chunk))

CoverInv == ChunkInHand /\ Covered

\* The frames of a message's last chunk end it: a receiver that has taken one
\* has handed over what it held.  What was acknowledged in earlier calls has
\* been handed over.
Ended ==
  /\ isLast => /\ \A i \in 1..Len(inbox) : inbox[i].seq = txSeq => inbox[i].eof
               /\ \A i \in 1..Len(air) : air[i].seq = txSeq => air[i].eof
  /\ isLast /\ expect # txSeq => partial = << >> /\ Len(delivered) >= done + 1
  /\ Len(delivered) >= done
  /\ \A m \in 1..done : Holds(<< >>, delivered, m, MessageLen[m])

EndInv == CoverInv /\ Ended

----------------------------------------------------------------------------
(* Lemmas about the operators of Arq *)

\* The next sequence number is another one, and no two have the same next:
\* this is all that SeqModulo >= 2 is needed for.
LEMMA NextSeqFacts ==
  ASSUME NEW s \in 0..(SeqModulo - 1), NEW t \in 0..(SeqModulo - 1)
  PROVE  /\ NextSeq(s) \in 0..(SeqModulo - 1)
         /\ NextSeq(s) # s
         /\ NextSeq(s) = NextSeq(t) => s = t
<1>1. SeqModulo \in Nat /\ SeqModulo >= 2
  BY ArqAssumption
<1>2. ASSUME NEW r \in 0..(SeqModulo - 1)
      PROVE  NextSeq(r) = IF r = SeqModulo - 1 THEN 0 ELSE r + 1
  <2>1. CASE r = SeqModulo - 1
    BY <1>1, <2>1 DEF NextSeq
  <2>2. CASE r # SeqModulo - 1
    BY <1>1, <2>2 DEF NextSeq
  <2> QED  BY <2>1, <2>2
<1> QED  BY <1>1, <1>2

\* data[a:b] is a sequence of b - a bytes.
LEMMA SliceType ==
  ASSUME NEW m \in 1..NumMessages, NEW a \in Nat, NEW b \in Int
  PROVE  /\ Slice(m, a, b) \in Seq((1..NumMessages) \X Nat)
         /\ a <= b => Len(Slice(m, a, b)) = b - a
<1>1. CASE a <= b
  <2>1. b - a \in Nat  BY <1>1
  <2>2. \A i \in 1..(b - a) : <<m, a + i>> \in (1..NumMessages) \X Nat
    OBVIOUS
  <2> QED  BY <1>1, <2>1, <2>2 DEF Slice
<1>2. CASE b < a
  <2>1. 1..(b - a) = 1..0  BY <1>2
  <2>2. \A i \in 1..0 : <<m, a + i>> \in (1..NumMessages) \X Nat
    OBVIOUS
  <2>3. [i \in 1..0 |-> <<m, a + i>>] \in Seq((1..NumMessages) \X Nat)
    BY <2>2
  <2> QED  BY <1>2, <2>1, <2>3 DEF Slice
<1> QED  BY <1>1, <1>2

----------------------------------------------------------------------------
(* Types *)

\* A call is in progress only for a message there is.
TypeInv == TypeOK /\ (Busy => done < NumMessages)

\* The first state of a session is well typed.
LEMMA TypeInit == Init => TypeInv
<1> SUFFICES ASSUME Init PROVE TypeInv  OBVIOUS
<1> USE ArqAssumption
<1>1. txMode \in Modes /\ txMode \in PeerModes  BY DEF Init, Modes
<1>2. 0 \in 0..(SeqModulo - 1) /\ 0 \in 0..NumMessages /\ 0 \in 0..MaxRetries  OBVIOUS
<1>3. /\ << >> \in Seq(DataFrame) /\ << >> \in Seq(AckFrame)
      /\ << >> \in Seq((1..NumMessages) \X Nat)
      /\ << >> \in Seq(Seq((1..NumMessages) \X Nat))
  OBVIOUS
<1> QED  BY <1>1, <1>2, <1>3 DEF Init, TypeInv, TypeOK, Busy

\* Cutting a chunk leaves the sender's data well typed.
LEMMA CutType ==
  ASSUME NEW m \in 1..NumMessages, NEW off \in Nat, NEW mode \in PeerModes, Cut(m, off, mode)
  PROVE  /\ pc' = "send" /\ offset' \in Nat /\ startMode' \in PeerModes
         /\ attempt' \in 0..MaxRetries /\ isLast' \in BOOLEAN
         /\ chunk' \in Seq((1..NumMessages) \X Nat)
<1>1. Least(off + ChunkSize[mode], MessageLen[m]) \in Int
  BY ArqAssumption DEF Least, Modes
<1>2. CutAt(m, off, mode) \in Seq((1..NumMessages) \X Nat)
  BY <1>1, SliceType DEF CutAt
<1> QED  BY <1>2, ArqAssumption DEF Cut, IsLastAt

\* Keying a frame keeps a queue a queue.
LEMMA KeyType ==
  ASSUME NEW S, NEW q \in Seq(S), NEW f \in S, NEW q2 \in Key(q, f)
  PROVE  q2 \in Seq(S)
<1>1. q2 = q \/ q2 = Append(q, f)  BY DEF Key
<1> QED  BY <1>1

\* Every step of either station keeps the types: one case per action.
LEMMA TypeStep == TypeInv /\ [Next]_vars => TypeInv'
<1> SUFFICES ASSUME TypeInv, [Next]_vars PROVE TypeInv'  OBVIOUS
<1> USE ArqAssumption DEF TypeInv, TypeOK
<1>s. ASSUME NEW mode \in PeerModes, NEW d \in Int PROVE StepMode(mode, d) \in PeerModes
  BY DEF StepMode
<1>n. ASSUME NEW q \in 0..(SeqModulo - 1) PROVE NextSeq(q) \in 0..(SeqModulo - 1)
  BY NextSeqFacts
<1>1. CASE BeginMessage
  <2>1. done + 1 \in 1..NumMessages  BY <1>1 DEF BeginMessage
  <2>2. Cut(done + 1, 0, txMode)  BY <1>1 DEF BeginMessage
  <2> QED  BY <1>1, <2>1, <2>2, CutType DEF BeginMessage, receiver
<1>2. CASE TransmitData
  <2>1. [seq |-> txSeq, eof |-> isLast, chunk |-> chunk, mode |-> txMode] \in DataFrame
    BY DEF DataFrame
  <2>2. air' \in Seq(DataFrame)
    BY <1>2, <2>1, KeyType DEF TransmitData
  <2> QED  BY <1>2, <2>2 DEF TransmitData, receiver, sendCall, Busy
<1>3. CASE HearAck
  <2>1. acks' \in Seq(AckFrame)  BY <1>3 DEF HearAck
  <2>2. CASE UNCHANGED sender
    BY <1>3, <2>1, <2>2 DEF HearAck, sender, receiver, sendCall, Busy
  <2>3. CASE ChunkAcked
    <3>1. txMode' \in PeerModes
      <4>1. txMode' \in Adapted  BY <2>3 DEF ChunkAcked
      <4>2. ASSUME NEW d \in {-1, 0, 1} PROVE StepMode(txMode, d) \in PeerModes
        BY <1>s
      <4> QED  BY <4>1, <4>2 DEF Adapted
    <3>2. txSeq' \in 0..(SeqModulo - 1) /\ failures' \in Nat
      BY <2>3, <1>n DEF ChunkAcked
    <3>3. done + 1 \in 1..NumMessages  BY <1>3 DEF HearAck, Busy
    <3>4. CASE isLast
      <4>1. /\ pc' = "idle" /\ done' = done + 1 /\ offset' = 0 /\ chunk' = << >>
            /\ isLast' = FALSE /\ startMode' = txMode' /\ attempt' = 0
        BY <2>3, <3>4 DEF ChunkAcked
      <4>2. /\ chunk' \in Seq((1..NumMessages) \X Nat)
            /\ attempt' \in 0..MaxRetries
            /\ done' \in 0..NumMessages
            /\ isLast' \in BOOLEAN
            /\ offset' \in Nat
            /\ startMode' \in PeerModes
        <5>1. chunk' \in Seq((1..NumMessages) \X Nat)  BY <4>1
        <5>2. isLast' \in BOOLEAN  BY <4>1
        <5>3. attempt' \in 0..MaxRetries /\ offset' \in Nat  BY <4>1
        <5>4. done' \in 0..NumMessages  BY <3>3, <4>1
        <5> QED  BY <3>1, <4>1, <5>1, <5>2, <5>3, <5>4
      <4>3. UNCHANGED <<air, inbox, receiver, overlapped>>  BY <1>3 DEF HearAck
      <4> QED  BY <2>1, <3>1, <3>2, <4>1, <4>2, <4>3 DEF receiver, Busy
    <3>5. CASE ~isLast
      <4>1. offset + Len(chunk) \in Nat  OBVIOUS
      <4>2. Cut(done + 1, offset + Len(chunk), txMode') /\ done' = done
        BY <2>3, <3>5 DEF ChunkAcked
      <4>3. /\ pc' = "send" /\ offset' \in Nat /\ startMode' \in PeerModes
            /\ attempt' \in 0..MaxRetries /\ isLast' \in BOOLEAN
            /\ chunk' \in Seq((1..NumMessages) \X Nat)
        BY <3>1, <3>3, <4>1, <4>2, CutType
      <4>4. UNCHANGED <<air, inbox, receiver, overlapped>>  BY <1>3 DEF HearAck
      <4>5. done' = done /\ done < NumMessages  BY <3>3, <4>2
      <4> QED  BY <2>1, <3>1, <3>2, <4>3, <4>4, <4>5 DEF receiver, Busy
    <3> QED  BY <2>3, <3>4, <3>5 DEF ChunkAcked
  <2> QED  BY <1>3, <2>2, <2>3 DEF HearAck
<1>4. CASE AckTimeout
  <2>1. txMode' \in PeerModes /\ failures' \in Nat
    BY <1>4, <1>s DEF AckTimeout
  <2>2. done + 1 \in 1..NumMessages /\ done' = done /\ done < NumMessages
    BY <1>4 DEF AckTimeout, Busy
  <2>3. /\ pc' \in {"send", "failed"}
        /\ offset' \in Nat /\ startMode' \in PeerModes /\ attempt' \in 0..MaxRetries
        /\ isLast' \in BOOLEAN /\ chunk' \in Seq((1..NumMessages) \X Nat)
    <3>1. CASE Cut(done + 1, offset, txMode')
      BY <2>1, <2>2, <3>1, CutType
    <3>2. CASE /\ pc' = "send" /\ attempt' = attempt + 1 /\ attempt < MaxRetries
               /\ UNCHANGED <<offset, chunk, isLast, startMode>>
      BY <3>2
    <3>3. CASE pc' = "failed" /\ UNCHANGED sendCall
      BY <3>3 DEF sendCall
    <3> QED  BY <1>4, <3>1, <3>2, <3>3 DEF AckTimeout
  <2> QED  BY <1>4, <2>1, <2>2, <2>3 DEF AckTimeout, receiver
<1>5. CASE DecodeData
  <2>1. Head(air) \in DataFrame /\ air' \in Seq(DataFrame)
    BY <1>5 DEF DecodeData
  <2>2. inbox' \in Seq(DataFrame)  BY <1>5, <2>1 DEF DecodeData
  <2>3. rxMode' \in PeerModes  BY <1>5, <2>1 DEF DecodeData, DataFrame
  <2> QED  BY <1>5, <2>1, <2>2, <2>3 DEF DecodeData, sender, sendCall, Busy
<1>6. CASE HandleData
  <2> DEFINE f == Head(inbox)
  <2>1. f \in DataFrame /\ inbox' \in Seq(DataFrame)
    BY <1>6 DEF HandleData
  <2>2. f.seq \in 0..(SeqModulo - 1) /\ f.chunk \in Seq((1..NumMessages) \X Nat)
    BY <2>1 DEF DataFrame
  <2>3. partial \o f.chunk \in Seq((1..NumMessages) \X Nat)
    BY <2>2, ConcatProperties
  <2>4. /\ expect' \in 0..(SeqModulo - 1)
        /\ partial' \in Seq((1..NumMessages) \X Nat)
        /\ delivered' \in Seq(Seq((1..NumMessages) \X Nat))
    <3>1. CASE TakeChunk(f)
      <4>1. expect' \in 0..(SeqModulo - 1)
        BY <2>2, <3>1, <1>n DEF TakeChunk
      <4>2. CASE f.eof
        <5>1. delivered' = Append(delivered, partial \o f.chunk) /\ partial' = << >>
          BY <3>1, <4>2 DEF TakeChunk
        <5> QED  BY <2>3, <4>1, <5>1
      <4>3. CASE ~f.eof
        BY <2>3, <3>1, <4>1, <4>3 DEF TakeChunk
      <4> QED  BY <4>2, <4>3
    <3>2. CASE DropDuplicate(f)
      BY <3>2 DEF DropDuplicate
    <3> QED  BY <1>6, <3>1, <3>2 DEF HandleData
  <2>5. acks' \in Seq(AckFrame)
    <3>1. [answered |-> f.seq, expects |-> expect', mode |-> rxMode] \in AckFrame
      BY <2>2, <2>4 DEF AckFrame
    <3> QED  BY <1>6, <3>1, KeyType DEF HandleData
  <2> QED  BY <1>6, <2>1, <2>4, <2>5 DEF HandleData, sender, sendCall, Busy
<1>7. CASE UNCHANGED vars
  BY <1>7 DEF vars, sender, sendCall, receiver, Busy
<1> QED  BY <1>1, <1>2, <1>3, <1>4, <1>5, <1>6, <1>7 DEF Next, SendStep, RecvStep

\* The state of both stations, the frames under way and the ACKs stay in
\* their types: sequence numbers wrap, attempts stay within the budget, modes
\* within the set the peer advertised.
THEOREM TypeCorrect == Spec => []TypeOK
<1>1. Spec => []TypeInv
  BY TypeInit, TypeStep, PTL DEF Spec
<1>2. TypeInv => TypeOK
  BY DEF TypeInv
<1> QED  BY <1>1, <1>2, PTL

----------------------------------------------------------------------------
(* One bit of sequence number is enough *)

\* At the start of a session nothing is under way and both counters are 0.
LEMMA SeqInit == Init => SeqInv
BY DEF Init, SeqInv, FrameOrder, Recent, ReceiverAt, AckOrder, Quiet

\* What the types say of the two ends of a queue.
LEMMA QueueFacts ==
  ASSUME NEW S, NEW q \in Seq(S), q # << >>
  PROVE  /\ Head(q) = q[1] /\ Len(q) >= 1 /\ Head(q) \in S
         /\ Tail(q) \in Seq(S)
         /\ Len(Tail(q)) = Len(q) - 1
         /\ \A i \in 1..Len(Tail(q)) : Tail(q)[i] = q[i + 1] /\ i + 1 \in 1..Len(q)
OBVIOUS

\* The elements of a queue with one more frame at its end.
LEMMA AppendFacts ==
  ASSUME NEW S, NEW q \in Seq(S), NEW e
  PROVE  /\ Len(Append(q, e)) = Len(q) + 1
         /\ \A i \in 1..Len(q) : Append(q, e)[i] = q[i]
         /\ Append(q, e)[Len(q) + 1] = e
OBVIOUS

\* Keying the chunk in hand.
LEMMA SeqTransmit ==
  ASSUME TypeInv, SeqInv, TransmitData
  PROVE  SeqInv'
<1> DEFINE f == [seq |-> txSeq, eof |-> isLast, chunk |-> chunk, mode |-> txMode]
<1>1. air' = air \/ air' = Append(air, f)  BY DEF TransmitData, Key
<1>2. UNCHANGED <<txSeq, expect, inbox, acks>> /\ pc' = "wait"
  BY DEF TransmitData, receiver
<1>3. CASE air' = air
  BY <1>2, <1>3 DEF SeqInv, FrameOrder, Recent, ReceiverAt, AckOrder, Quiet, Old, NextSeq
<1>4. CASE air' = Append(air, f)
  <2>1. /\ Len(air') = Len(air) + 1
        /\ \A i \in 1..Len(air) : air'[i] = air[i]
        /\ air'[Len(air) + 1].seq = txSeq
    BY <1>4, AppendFacts DEF TypeInv, TypeOK
  <2>2. Len(air) \in Nat  BY DEF TypeInv, TypeOK
  <2>3. \A i \in 1..Len(air') : i \in 1..Len(air) \/ i = Len(air) + 1
    BY <2>1, <2>2
  <2>4. FrameOrder'
    <3>1. ASSUME NEW i \in 1..Len(air'), NEW j \in 1..Len(air'), i < j, air'[i].seq = txSeq
          PROVE  air'[j].seq = txSeq
      <4>1. CASE j = Len(air) + 1  BY <2>1, <4>1
      <4>2. CASE j \in 1..Len(air)
        <5>1. i \in 1..Len(air)  BY <2>2, <2>3, <3>1, <4>2
        <5> QED  BY <2>1, <3>1, <4>2, <5>1 DEF SeqInv, FrameOrder
      <4> QED  BY <2>3, <4>1, <4>2
    <3>2. ASSUME NEW i \in 1..Len(inbox), NEW j \in 1..Len(air'), inbox[i].seq = txSeq
          PROVE  air'[j].seq = txSeq
      BY <2>1, <2>3, <3>2 DEF SeqInv, FrameOrder
    <3> QED  BY <1>2, <3>1, <3>2 DEF SeqInv, FrameOrder
  <2>5. Recent'
    BY <1>2, <2>1, <2>3 DEF SeqInv, Recent, Old, NextSeq
  <2>6. ReceiverAt'
    BY <1>2, <2>1, <2>3 DEF SeqInv, ReceiverAt, NextSeq
  <2>7. AckOrder' /\ Quiet'
    BY <1>2 DEF SeqInv, AckOrder, Quiet
  <2> QED  BY <2>4, <2>5, <2>6, <2>7 DEF SeqInv
<1> QED  BY <1>1, <1>3, <1>4

\* The decode thread moves the oldest frame from one queue to the other.
LEMMA SeqDecode ==
  ASSUME TypeInv, SeqInv, DecodeData
  PROVE  SeqInv'
<1>1. UNCHANGED <<txSeq, expect, acks, pc>>  BY DEF DecodeData, sender
<1>2. /\ Len(air) >= 1 /\ Len(air') = Len(air) - 1
      /\ \A i \in 1..Len(air') : air'[i] = air[i + 1] /\ i + 1 \in 1..Len(air)
  BY QueueFacts DEF DecodeData, TypeInv, TypeOK
<1>3. /\ Len(inbox') = Len(inbox) + 1
      /\ \A i \in 1..Len(inbox) : inbox'[i] = inbox[i]
      /\ inbox'[Len(inbox) + 1] = air[1]
  BY AppendFacts, QueueFacts DEF DecodeData, TypeInv, TypeOK
<1>4. Len(air) \in Nat /\ Len(inbox) \in Nat  BY DEF TypeInv, TypeOK
<1>a. 1 \in 1..Len(air)  BY <1>2, <1>4
<1>b. \A i \in 1..Len(inbox') : i \in 1..Len(inbox) \/ i = Len(inbox) + 1
  BY <1>3, <1>4
<1>5. FrameOrder'
  <2>1. ASSUME NEW i \in 1..Len(inbox'), NEW j \in 1..Len(inbox'), i < j,
               inbox'[i].seq = txSeq
        PROVE  inbox'[j].seq = txSeq
    <3>1. i \in 1..Len(inbox)  BY <1>b, <1>3, <1>4, <2>1
    <3>2. inbox[i].seq = txSeq  BY <1>3, <2>1, <3>1
    <3>3. CASE j \in 1..Len(inbox)
      BY <1>3, <2>1, <3>1, <3>2, <3>3 DEF SeqInv, FrameOrder
    <3>4. CASE j = Len(inbox) + 1
      BY <1>3, <1>a, <3>1, <3>2, <3>4 DEF SeqInv, FrameOrder
    <3> QED  BY <1>b, <3>3, <3>4
  <2>2. ASSUME NEW i \in 1..Len(air'), NEW j \in 1..Len(air'), i < j, air'[i].seq = txSeq
        PROVE  air'[j].seq = txSeq
    <3>1. /\ air'[i] = air[i + 1] /\ i + 1 \in 1..Len(air)
          /\ air'[j] = air[j + 1] /\ j + 1 \in 1..Len(air)
      BY <1>2
    <3>2. i + 1 < j + 1  BY <1>2, <1>4, <2>2
    <3> QED  BY <2>2, <3>1, <3>2 DEF SeqInv, FrameOrder
  <2>3. ASSUME NEW i \in 1..Len(inbox'), NEW j \in 1..Len(air'), inbox'[i].seq = txSeq
        PROVE  air'[j].seq = txSeq
    <3>1. air'[j] = air[j + 1] /\ j + 1 \in 1..Len(air)  BY <1>2
    <3>2. CASE i \in 1..Len(inbox)
      BY <1>3, <2>3, <3>1, <3>2 DEF SeqInv, FrameOrder
    <3>3. CASE i = Len(inbox) + 1
      <4>1. air[1].seq = txSeq  BY <1>3, <2>3, <3>3
      <4>2. 1 < j + 1  BY <1>2, <1>4
      <4> QED  BY <1>a, <3>1, <4>1, <4>2 DEF SeqInv, FrameOrder
    <3> QED  BY <1>b, <3>2, <3>3
  <2> QED  BY <1>1, <2>1, <2>2, <2>3 DEF FrameOrder
<1>6. Recent'
  <2>1. ASSUME NEW i \in 1..Len(inbox')
        PROVE  inbox'[i].seq = txSeq \/ Old(inbox'[i].seq)
    <3>1. CASE i \in 1..Len(inbox)  BY <1>3, <3>1 DEF SeqInv, Recent
    <3>2. CASE i = Len(inbox) + 1  BY <1>3, <1>a, <3>2 DEF SeqInv, Recent
    <3> QED  BY <1>b, <3>1, <3>2
  <2>2. ASSUME NEW i \in 1..Len(air')
        PROVE  air'[i].seq = txSeq \/ Old(air'[i].seq)
    BY <1>2 DEF SeqInv, Recent
  <2>3. \A i \in 1..Len(acks) : acks[i].answered = txSeq \/ Old(acks[i].answered)
    BY DEF SeqInv, Recent
  <2> QED  BY <1>1, <2>1, <2>2, <2>3 DEF Recent, Old
<1>7. ReceiverAt'
  <2>1. CASE expect = txSeq  BY <1>1, <2>1 DEF ReceiverAt
  <2>2. CASE expect # txSeq
    <3>1. /\ expect = NextSeq(txSeq)
          /\ \A i \in 1..Len(inbox) : inbox[i].seq = txSeq
          /\ \A i \in 1..Len(air) : air[i].seq = txSeq
      BY <2>2 DEF SeqInv, ReceiverAt
    <3>2. \A i \in 1..Len(inbox') : inbox'[i].seq = txSeq  BY <1>3, <1>a, <1>b, <3>1
    <3>3. \A i \in 1..Len(air') : air'[i].seq = txSeq  BY <1>2, <3>1
    <3> QED  BY <1>1, <3>1, <3>2, <3>3 DEF ReceiverAt, NextSeq
  <2> QED  BY <2>1, <2>2
<1>8. AckOrder'
  BY <1>1 DEF SeqInv, AckOrder
<1>9. Quiet'
  BY <1>1, <1>2, <1>3, <1>a, <1>b DEF SeqInv, Quiet
<1> QED  BY <1>5, <1>6, <1>7, <1>8, <1>9 DEF SeqInv

\* The receiver takes the oldest decoded frame: a frame that carries the
\* expected number is one of the chunk in hand.
LEMMA TakenIsCurrent ==
  ASSUME TypeInv, SeqInv, inbox # << >>
  PROVE  /\ inbox[1].seq = expect => inbox[1].seq = txSeq /\ expect = txSeq /\ Busy
         /\ inbox[1].seq # txSeq => expect = txSeq
<1>1. 1 \in 1..Len(inbox)
  BY QueueFacts DEF TypeInv, TypeOK
<1>2. NextSeq(txSeq) # txSeq
  BY NextSeqFacts DEF TypeInv, TypeOK
<1> QED  BY <1>1, <1>2 DEF SeqInv, ReceiverAt, Quiet, Busy

\* _handle_data keeps the sequence numbers in order, taken or dropped.
LEMMA SeqHandle ==
  ASSUME TypeInv, SeqInv, HandleData
  PROVE  SeqInv'
<1> DEFINE f == inbox[1]
           a == [answered |-> f.seq, expects |-> expect', mode |-> rxMode]
<1>1. UNCHANGED <<txSeq, air, pc>>  BY DEF HandleData, sender
<1>2. /\ inbox # << >> /\ Head(inbox) = f
      /\ Len(inbox) >= 1 /\ Len(inbox') = Len(inbox) - 1
      /\ \A i \in 1..Len(inbox') : inbox'[i] = inbox[i + 1] /\ i + 1 \in 1..Len(inbox)
  BY QueueFacts DEF HandleData, TypeInv, TypeOK
<1>3. Len(air) \in Nat /\ Len(inbox) \in Nat /\ Len(acks) \in Nat
      /\ NextSeq(txSeq) # txSeq
  BY NextSeqFacts DEF TypeInv, TypeOK
<1>4. 1 \in 1..Len(inbox)  BY <1>2, <1>3
<1>5. \A i \in 1..Len(inbox') : 1 < i + 1  BY <1>2, <1>3
<1>6. FrameOrder'
  <2>1. ASSUME NEW i \in 1..Len(inbox'), NEW j \in 1..Len(inbox'), i < j,
               inbox'[i].seq = txSeq
        PROVE  inbox'[j].seq = txSeq
    <3>1. i + 1 < j + 1  BY <1>3, <2>1
    <3> QED  BY <1>2, <2>1, <3>1 DEF SeqInv, FrameOrder
  <2> QED  BY <1>1, <1>2, <2>1 DEF SeqInv, FrameOrder
<1>7. /\ f.seq = expect => f.seq = txSeq /\ expect = txSeq /\ Busy
      /\ f.seq # txSeq => expect = txSeq
  BY <1>2, TakenIsCurrent
<1>8. /\ ReceiverAt' /\ Quiet'
      /\ expect # txSeq => expect' # txSeq
      /\ f.seq = txSeq => expect' # txSeq
  <2>1. CASE TakeChunk(f)
    <3>1. expect' = NextSeq(txSeq) /\ f.seq = txSeq /\ Busy
      BY <1>7, <2>1 DEF TakeChunk
    <3>2. /\ \A i \in 1..Len(inbox') : inbox'[i].seq = txSeq
          /\ \A i \in 1..Len(air') : air'[i].seq = txSeq
      BY <1>1, <1>2, <1>4, <1>5, <3>1 DEF SeqInv, FrameOrder
    <3> QED  BY <1>1, <1>3, <3>1, <3>2 DEF ReceiverAt, Quiet, Busy, NextSeq
  <2>2. CASE DropDuplicate(f)
    <3>1. expect' = expect /\ f.seq # expect  BY <2>2 DEF DropDuplicate
    <3>2. ReceiverAt'
      BY <1>1, <1>2, <3>1 DEF SeqInv, ReceiverAt, NextSeq
    <3>3. Quiet'
      BY <1>1, <1>2, <3>1 DEF SeqInv, Quiet
    <3> QED  BY <3>1, <3>2, <3>3
  <2> QED  BY <1>2, <2>1, <2>2 DEF HandleData
<1>9. acks' = acks \/ acks' = Append(acks, a)
  BY <1>2 DEF HandleData, Key
<1>10. f.seq = txSeq \/ Old(f.seq)
  BY <1>4 DEF SeqInv, Recent
<1>11. CASE acks' = acks
  <2>1. Recent'
    BY <1>1, <1>2, <1>11 DEF SeqInv, Recent, Old, NextSeq
  <2>2. AckOrder'
    BY <1>1, <1>8, <1>11 DEF SeqInv, AckOrder
  <2> QED  BY <1>6, <1>8, <2>1, <2>2 DEF SeqInv
<1>12. CASE acks' = Append(acks, a)
  <2>1. /\ Len(acks') = Len(acks) + 1
        /\ \A i \in 1..Len(acks) : acks'[i] = acks[i]
        /\ acks'[Len(acks) + 1].answered = f.seq
    BY <1>12, AppendFacts DEF TypeInv, TypeOK
  <2>2. \A i \in 1..Len(acks') : i \in 1..Len(acks) \/ i = Len(acks) + 1
    BY <1>3, <2>1
  <2>3. Recent'
    BY <1>1, <1>2, <1>10, <2>1, <2>2 DEF SeqInv, Recent, Old, NextSeq
  <2>4. \A i \in 1..Len(acks') : acks'[i].answered = txSeq => expect' # txSeq
    BY <1>8, <2>1, <2>2 DEF SeqInv, AckOrder
  <2>5. ASSUME NEW i \in 1..Len(acks'), NEW j \in 1..Len(acks'), i < j,
               acks'[i].answered = txSeq
        PROVE  acks'[j].answered = txSeq
    <3>1. i \in 1..Len(acks)  BY <1>3, <2>1, <2>2, <2>5
    <3>2. acks[i].answered = txSeq  BY <2>1, <2>5, <3>1
    <3>3. CASE j \in 1..Len(acks)
      BY <2>1, <2>5, <3>1, <3>2, <3>3 DEF SeqInv, AckOrder
    <3>4. CASE j = Len(acks) + 1
      BY <1>7, <2>1, <3>1, <3>2, <3>4 DEF SeqInv, AckOrder
    <3> QED  BY <2>2, <3>3, <3>4
  <2>6. AckOrder'  BY <1>1, <2>4, <2>5 DEF AckOrder
  <2> QED  BY <1>6, <1>8, <2>3, <2>6 DEF SeqInv
<1> QED  BY <1>9, <1>11, <1>12

\* An accepted ACK proves that the receiver has the chunk in hand and that
\* everything under way belongs to it.
LEMMA AcceptedIsCurrent ==
  ASSUME TypeInv, SeqInv, acks # << >>, Accepts(Head(acks))
  PROVE  /\ expect = NextSeq(txSeq) /\ expect # txSeq
         /\ \A i \in 1..Len(inbox) : inbox[i].seq = txSeq
         /\ \A i \in 1..Len(air) : air[i].seq = txSeq
         /\ \A i \in 1..Len(acks) : acks[i].answered = txSeq
<1>1. Head(acks) = acks[1] /\ 1 \in 1..Len(acks) /\ Len(acks) \in Nat
  BY QueueFacts DEF TypeInv, TypeOK
<1>2. acks[1].answered = txSeq  BY <1>1 DEF Accepts
<1>3. expect # txSeq  BY <1>1, <1>2 DEF SeqInv, AckOrder
<1>4. \A i \in 1..Len(acks) : acks[i].answered = txSeq
  <2>1. ASSUME NEW i \in 1..Len(acks) PROVE acks[i].answered = txSeq
    <3>1. CASE i = 1  BY <1>2, <3>1
    <3>2. CASE 1 < i  BY <1>1, <1>2, <3>2 DEF SeqInv, AckOrder
    <3> QED  BY <1>1, <3>1, <3>2
  <2> QED  BY <2>1
<1> QED  BY <1>3, <1>4 DEF SeqInv, ReceiverAt

\* So does an ACK popped by the sender, accepted or ignored.
LEMMA SeqHearAck ==
  ASSUME TypeInv, SeqInv, HearAck
  PROVE  SeqInv'
<1>1. UNCHANGED <<air, inbox, expect>> /\ acks # << >> /\ pc = "wait"
  BY DEF HearAck, receiver
<1>2. /\ Len(acks') = Len(acks) - 1 /\ Len(acks) >= 1 /\ Len(acks) \in Nat
      /\ \A i \in 1..Len(acks') : acks'[i] = acks[i + 1] /\ i + 1 \in 1..Len(acks)
  BY QueueFacts DEF HearAck, TypeInv, TypeOK
<1>3. CASE Accepts(Head(acks)) /\ ChunkAcked
  <2>1. /\ expect = NextSeq(txSeq) /\ expect # txSeq
        /\ \A i \in 1..Len(inbox) : inbox[i].seq = txSeq
        /\ \A i \in 1..Len(air) : air[i].seq = txSeq
        /\ \A i \in 1..Len(acks) : acks[i].answered = txSeq
    BY <1>1, <1>3, AcceptedIsCurrent
  <2>2. txSeq' = NextSeq(txSeq)  BY <1>3 DEF ChunkAcked
  <2>3. expect' = txSeq' /\ txSeq' # txSeq  BY <1>1, <2>1, <2>2
  <2>4. /\ \A i \in 1..Len(inbox') : inbox'[i].seq = txSeq
        /\ \A i \in 1..Len(air') : air'[i].seq = txSeq
        /\ \A i \in 1..Len(acks') : acks'[i].answered = txSeq
    BY <1>1, <1>2, <2>1
  <2>5. FrameOrder' /\ ReceiverAt' /\ AckOrder' /\ Quiet'
    BY <2>3, <2>4 DEF FrameOrder, ReceiverAt, AckOrder, Quiet
  <2>6. Recent'
    BY <2>2, <2>4 DEF Recent, Old, NextSeq
  <2> QED  BY <2>5, <2>6 DEF SeqInv
<1>4. CASE UNCHANGED sender
  <2>1. UNCHANGED <<pc, txSeq>>  BY <1>4 DEF sender
  <2>2. FrameOrder' /\ ReceiverAt' /\ Quiet'
    BY <1>1, <2>1 DEF SeqInv, FrameOrder, ReceiverAt, Quiet, NextSeq
  <2>3. Recent'
    BY <1>1, <1>2, <2>1 DEF SeqInv, Recent, Old, NextSeq
  <2>4. ASSUME NEW i \in 1..Len(acks'), NEW j \in 1..Len(acks'), i < j,
               acks'[i].answered = txSeq
        PROVE  acks'[j].answered = txSeq
    <3>1. i + 1 < j + 1  BY <1>2, <2>4
    <3> QED  BY <1>2, <2>4, <3>1 DEF SeqInv, AckOrder
  <2>5. AckOrder'
    BY <1>1, <1>2, <2>1, <2>4 DEF SeqInv, AckOrder
  <2> QED  BY <2>2, <2>3, <2>5 DEF SeqInv
<1> QED  BY <1>3, <1>4 DEF HearAck

\* SeqInv is inductive on top of the types.
LEMMA SeqStep == TypeInv /\ SeqInv /\ [Next]_vars => SeqInv'
<1> SUFFICES ASSUME TypeInv, SeqInv, [Next]_vars PROVE SeqInv'  OBVIOUS
<1> USE DEF SeqInv, FrameOrder, Recent, ReceiverAt, AckOrder, Quiet, Old, NextSeq
<1>1. CASE BeginMessage
  BY <1>1 DEF BeginMessage, Cut, receiver
<1>2. CASE AckTimeout
  <2>1. UNCHANGED <<txSeq, air, inbox, acks, receiver>> /\ pc' # "idle"
    BY <1>2 DEF AckTimeout, Cut
  <2> QED  BY <2>1 DEF receiver
<1>3. CASE UNCHANGED vars
  BY <1>3 DEF vars, sender, receiver
<1> QED
  BY <1>1, <1>2, <1>3, SeqTransmit, SeqHearAck, SeqDecode, SeqHandle
  DEF Next, SendStep, RecvStep

\* At any moment the frames and ACKs under way belong to the chunk in hand or
\* to the one before it, the receiver expects the one or has just taken it,
\* and no older frame or ACK follows a newer one: what lets the two stations
\* compare sequence numbers modulo SeqModulo as if they never wrapped.
THEOREM SequenceSafe == Spec => []SeqInv
<1>1. Spec => []TypeInv
  BY TypeInit, TypeStep, PTL DEF Spec
<1> QED  BY <1>1, SeqInit, SeqStep, PTL DEF Spec

----------------------------------------------------------------------------
(* The chunk in hand *)

\* What cutting a chunk at an offset puts in hand: its length, its bytes and
\* whether it ends the message.
LEMMA CutFacts ==
  ASSUME TypeInv, NEW m \in 1..NumMessages, NEW off \in Nat, NEW mode \in PeerModes,
         off <= MessageLen[m], Cut(m, off, mode)
  PROVE  /\ pc' = "send" /\ offset' = off
         /\ chunk' = Slice(m, offset', offset' + Len(chunk'))
         /\ offset' + Len(chunk') <= MessageLen[m]
         /\ isLast' => offset' + Len(chunk') = MessageLen[m]
         /\ Len(chunk') <= ChunkSize[mode]
<1>1. MessageLen[m] \in Nat /\ ChunkSize[mode] \in Nat
  BY ArqAssumption DEF Modes
<1>2. PICK end \in Nat :
        /\ end = Least(off + ChunkSize[mode], MessageLen[m])
        /\ off <= end /\ end <= MessageLen[m] /\ end <= off + ChunkSize[mode]
        /\ off + ChunkSize[mode] >= MessageLen[m] => end = MessageLen[m]
  BY <1>1 DEF Least
<1>3. chunk' = Slice(m, off, end) /\ offset' = off /\ pc' = "send"
  BY <1>2 DEF Cut, CutAt
<1>4. isLast' => off + ChunkSize[mode] >= MessageLen[m]
  BY DEF Cut, IsLastAt
<1>5. Len(Slice(m, off, end)) = end - off
  <2>1. end \in Int /\ off <= end  BY <1>2
  <2> QED  BY <2>1, SliceType
<1>6. Len(chunk') = end - off /\ offset' + Len(chunk') = end
  BY <1>2, <1>3, <1>5
<1>7. chunk' = Slice(m, offset', offset' + Len(chunk'))
  BY <1>3, <1>6
<1> QED  BY <1>1, <1>2, <1>3, <1>4, <1>6, <1>7

\* What AckTimeout does to the chunk: nothing, or it cuts a smaller one at
\* the same offset.
LEMMA TimeoutFacts ==
  ASSUME TypeInv, ChunkInHand, AckTimeout
  PROVE  /\ UNCHANGED <<done, txSeq, air, inbox, acks, receiver, offset>>
         /\ Busy /\ Busy'
         /\ \/ UNCHANGED <<chunk, isLast>>
            \/ /\ Cut(done + 1, offset, txMode')
               /\ txMode' \in PeerModes
               /\ Len(chunk) > ChunkSize[txMode']
<1>1. txMode' \in PeerModes
  BY DEF AckTimeout, StepMode, TypeInv, TypeOK
<1> QED  BY <1>1 DEF AckTimeout, Busy, Cut, sendCall

\* No chunk is in hand before the first call.
LEMMA ChunkInit == Init => ChunkInHand
BY DEF Init, ChunkInHand, Busy

\* The chunk in hand stays the slice of the message its offset says it is.
LEMMA ChunkStep == TypeInv /\ ChunkInHand /\ [Next]_vars => ChunkInHand'
<1> SUFFICES ASSUME TypeInv, ChunkInHand, [Next]_vars PROVE ChunkInHand'  OBVIOUS
<1> USE DEF Busy
<1>t. /\ txMode \in PeerModes /\ offset \in Nat /\ done \in Nat /\ Len(chunk) \in Nat
      /\ Busy => done + 1 \in 1..NumMessages
      /\ pc \in {"idle", "send", "wait", "failed"}
  BY ArqAssumption DEF TypeInv, TypeOK
<1>l. \A m \in 1..NumMessages : MessageLen[m] \in Nat
  BY ArqAssumption
<1>1. CASE BeginMessage
  <2>1. done + 1 \in 1..NumMessages /\ done' = done /\ Cut(done + 1, 0, txMode)
    BY <1>1, <1>t, ArqAssumption DEF BeginMessage
  <2>2. done < NumMessages  BY <1>1 DEF BeginMessage
  <2> QED  BY <1>l, <1>t, <2>1, <2>2, CutFacts DEF ChunkInHand
<1>2. CASE HearAck
  <2>1. CASE UNCHANGED sender
    BY <2>1 DEF sender, sendCall, ChunkInHand
  <2>2. CASE ChunkAcked
    <3>1. Busy  BY <1>2 DEF HearAck
    <3>2. CASE isLast
      BY <2>2, <3>2 DEF ChunkAcked, ChunkInHand
    <3>3. CASE ~isLast
      <4>1. Cut(done + 1, offset + Len(chunk), txMode') /\ done' = done
        BY <2>2, <3>3 DEF ChunkAcked
      <4>2. txMode' \in PeerModes
        <5>1. txMode' \in Adapted  BY <2>2 DEF ChunkAcked
        <5>2. ASSUME NEW d \in {-1, 0, 1} PROVE StepMode(txMode, d) \in PeerModes
          BY <1>t DEF StepMode
        <5> QED  BY <1>t, <5>1, <5>2 DEF Adapted
      <4>3. /\ done + 1 \in 1..NumMessages /\ done < NumMessages
            /\ offset + Len(chunk) \in Nat /\ offset + Len(chunk) <= MessageLen[done + 1]
        BY <1>t, <3>1 DEF ChunkInHand
      <4>4. /\ pc' = "send" /\ chunk' = Slice(done + 1, offset', offset' + Len(chunk'))
            /\ offset' + Len(chunk') <= MessageLen[done + 1]
            /\ isLast' => offset' + Len(chunk') = MessageLen[done + 1]
        BY <4>1, <4>2, <4>3, CutFacts
      <4> QED  BY <4>1, <4>3, <4>4 DEF ChunkInHand
    <3> QED  BY <3>2, <3>3
  <2> QED  BY <1>2, <2>1, <2>2 DEF HearAck
<1>3. CASE AckTimeout
  <2>1. /\ Busy /\ Busy' /\ done' = done /\ offset' = offset
        /\ \/ UNCHANGED <<chunk, isLast>>
           \/ Cut(done + 1, offset, txMode') /\ txMode' \in PeerModes
    BY <1>3, TimeoutFacts
  <2>2. CASE UNCHANGED <<chunk, isLast>>
    BY <2>1, <2>2 DEF ChunkInHand
  <2>3. CASE Cut(done + 1, offset, txMode') /\ txMode' \in PeerModes
    <3>1. done + 1 \in 1..NumMessages /\ offset <= MessageLen[done + 1]
      BY <1>l, <1>t, <2>1 DEF ChunkInHand
    <3>2. /\ chunk' = Slice(done + 1, offset', offset' + Len(chunk'))
          /\ offset' + Len(chunk') <= MessageLen[done + 1]
          /\ isLast' => offset' + Len(chunk') = MessageLen[done + 1]
      BY <1>t, <2>3, <3>1, CutFacts
    <3> QED  BY <2>1, <3>2 DEF ChunkInHand
  <2> QED  BY <2>1, <2>2, <2>3
<1>4. CASE TransmitData
  BY <1>4 DEF TransmitData, sendCall, ChunkInHand
<1>5. CASE DecodeData
  BY <1>5 DEF DecodeData, sender, sendCall, ChunkInHand
<1>6. CASE HandleData
  BY <1>6 DEF HandleData, sender, sendCall, ChunkInHand
<1>7. CASE UNCHANGED vars
  BY <1>7 DEF vars, sender, sendCall, ChunkInHand
<1> QED  BY <1>1, <1>2, <1>3, <1>4, <1>5, <1>6, <1>7 DEF Next, SendStep, RecvStep

----------------------------------------------------------------------------
(* No byte is skipped, on any ladder *)

\* Nothing is acknowledged at the start.
LEMMA CoverInit == Init => Covered
BY ArqAssumption DEF Init, Covered, Holds, Busy

\* Handing over or appending a chunk loses no byte that was held and adds
\* those of the frame.
LEMMA TakeHolds ==
  ASSUME TypeInv, NEW f \in DataFrame, TakeChunk(f),
         NEW b, HeldByte(partial, delivered, b) \/ b \in BytesOf(f.chunk)
  PROVE  HeldByte(partial', delivered', b)
<1> DEFINE whole == partial \o f.chunk
<1>1. /\ partial \in Seq((1..NumMessages) \X Nat) /\ f.chunk \in Seq((1..NumMessages) \X Nat)
      /\ delivered \in Seq(Seq((1..NumMessages) \X Nat))
  BY DEF TypeInv, TypeOK, DataFrame
<1>2. /\ Len(whole) = Len(partial) + Len(f.chunk)
      /\ \A i \in 1..Len(partial) : whole[i] = partial[i]
      /\ \A i \in 1..Len(f.chunk) : whole[Len(partial) + i] = f.chunk[i]
  BY <1>1
<1>3. ASSUME b \in BytesOf(partial) \/ b \in BytesOf(f.chunk)
      PROVE  b \in BytesOf(whole)
  <2>1. CASE b \in BytesOf(partial)
    <3>1. PICK i \in 1..Len(partial) : b = partial[i]  BY <2>1 DEF BytesOf
    <3>2. i \in 1..Len(whole) /\ whole[i] = b  BY <1>1, <1>2, <3>1
    <3> HIDE DEF whole
    <3> QED  BY <3>2 DEF BytesOf
  <2>2. CASE b \in BytesOf(f.chunk)
    <3>1. PICK i \in 1..Len(f.chunk) : b = f.chunk[i]  BY <2>2 DEF BytesOf
    <3>2. Len(partial) + i \in 1..Len(whole) /\ whole[Len(partial) + i] = b
      <4>1. Len(partial) \in Nat /\ Len(f.chunk) \in Nat  BY <1>1
      <4>2. whole[Len(partial) + i] = b  BY <1>2, <3>1
      <4> HIDE DEF whole
      <4> QED  BY <1>2, <3>1, <4>1, <4>2
    <3> HIDE DEF whole
    <3> QED  BY <3>2 DEF BytesOf
  <2> QED  BY <1>3, <2>1, <2>2
<1> HIDE DEF whole
<1>4. CASE f.eof
  <2>1. delivered' = Append(delivered, whole)  BY <1>4 DEF TakeChunk, whole
  <2>2. /\ Len(delivered') = Len(delivered) + 1 /\ Len(delivered) \in Nat
        /\ \A d \in 1..Len(delivered) : delivered'[d] = delivered[d]
        /\ delivered'[Len(delivered) + 1] = whole
    BY <1>1, <2>1, AppendFacts
  <2>3. CASE b \in BytesOf(whole)
    <3>1. Len(delivered) + 1 \in 1..Len(delivered')  BY <2>2
    <3>2. \E d \in 1..Len(delivered') : b \in BytesOf(delivered'[d])
      BY <2>2, <2>3, <3>1
    <3> QED  BY <3>2 DEF HeldByte
  <2>4. CASE \E d \in 1..Len(delivered) : b \in BytesOf(delivered[d])
    <3>1. PICK d \in 1..Len(delivered) : b \in BytesOf(delivered[d])  BY <2>4
    <3>2. d \in 1..Len(delivered') /\ b \in BytesOf(delivered'[d])  BY <2>2, <3>1
    <3>3. \E e \in 1..Len(delivered') : b \in BytesOf(delivered'[e])  BY <3>2
    <3> QED  BY <3>3 DEF HeldByte
  <2> QED  BY <1>3, <2>3, <2>4 DEF HeldByte
<1>5. CASE ~f.eof
  <2>1. partial' = whole /\ delivered' = delivered  BY <1>5 DEF TakeChunk, whole
  <2> QED  BY <1>3, <2>1 DEF HeldByte
<1> QED  BY <1>4, <1>5

\* _handle_data never gives up a byte the receiver holds, and acknowledges
\* only what it holds.
LEMMA CoverHandle ==
  ASSUME TypeInv, SeqInv, ChunkInHand, Covered, HandleData
  PROVE  Covered'
<1> DEFINE f == inbox[1]
           Have(m, n) == Holds(partial, delivered, m, n)
           WillHave(m, n) == Holds(partial', delivered', m, n)
<1>1. UNCHANGED <<txSeq, air, pc, done, chunk, offset>>  BY DEF HandleData, sender, sendCall
<1>2. /\ inbox # << >> /\ Head(inbox) = f /\ f \in DataFrame /\ 1 \in 1..Len(inbox)
      /\ \A i \in 1..Len(inbox') : inbox'[i] = inbox[i + 1] /\ i + 1 \in 1..Len(inbox)
  BY QueueFacts DEF HandleData, TypeInv, TypeOK
<1>3. /\ \A i \in 1..Len(inbox') :
           inbox'[i].seq = txSeq => Carries(inbox'[i], done + 1, offset, Len(chunk))
      /\ \A i \in 1..Len(air') :
           air'[i].seq = txSeq => Carries(air'[i], done + 1, offset, Len(chunk))
  BY <1>1, <1>2 DEF Covered
<1>t. offset \in Nat /\ Len(chunk) \in Nat  BY DEF TypeInv, TypeOK
<1>4. /\ \A m \in 1..done : WillHave(m, MessageLen[m])
      /\ Busy => WillHave(done + 1, offset)
      /\ expect' # txSeq => WillHave(done + 1, offset + Len(chunk))
  <2>1. CASE TakeChunk(f)
    <3>1. f.seq = txSeq /\ expect = txSeq /\ Busy
      BY <1>2, <2>1, TakenIsCurrent DEF TakeChunk
    <3>2. Carries(f, done + 1, offset, Len(chunk))  BY <1>2, <3>1 DEF Covered
    <3>3. \A b : HeldByte(partial, delivered, b) \/ b \in BytesOf(f.chunk)
                   => HeldByte(partial', delivered', b)
      BY <1>2, <2>1, TakeHolds
    <3>4. \A m, n : Have(m, n) => WillHave(m, n)
      BY <3>3 DEF Holds
    <3>5. ASSUME NEW i \in 1..(offset + Len(chunk))
          PROVE  HeldByte(partial', delivered', <<done + 1, i>>)
      <4>1. CASE i \in 1..offset
        <5>1. HeldByte(partial, delivered, <<done + 1, i>>)
          BY <3>1, <4>1 DEF Covered, Holds
        <5> QED  BY <3>3, <5>1
      <4>2. CASE i > offset
        <5>1. i - offset \in 1..Len(chunk) /\ offset + (i - offset) = i
          BY <1>t, <4>2
        <5>2. <<done + 1, i>> \in BytesOf(f.chunk)
          BY <3>2, <5>1 DEF Carries
        <5> QED  BY <3>3, <5>2
      <4> QED  BY <1>t, <4>1, <4>2
    <3>6. WillHave(done + 1, offset + Len(chunk))
      BY <3>5 DEF Holds
    <3> QED  BY <3>1, <3>4, <3>6 DEF Covered
  <2>2. CASE DropDuplicate(f)
    BY <2>2 DEF DropDuplicate, Covered
  <2> QED  BY <1>2, <2>1, <2>2 DEF HandleData
<1> QED  BY <1>1, <1>3, <1>4 DEF Covered, Busy

\* The bytes of the chunk in hand.
LEMMA InHandBytes ==
  ASSUME TypeInv, ChunkInHand, Busy
  PROVE  \A i \in 1..Len(chunk) : chunk[i] = <<done + 1, offset + i>>
<1>1. offset \in Nat /\ Len(chunk) \in Nat  BY DEF TypeInv, TypeOK
<1>2. (offset + Len(chunk)) - offset = Len(chunk)  BY <1>1
<1>3. chunk = [i \in 1..Len(chunk) |-> <<done + 1, offset + i>>]
  BY <1>2 DEF ChunkInHand, Slice
<1> QED  BY <1>3

\* A frame just keyed carries the chunk in hand.
LEMMA CoverTransmit ==
  ASSUME TypeInv, ChunkInHand, Covered, TransmitData
  PROVE  Covered'
<1> DEFINE f == [seq |-> txSeq, eof |-> isLast, chunk |-> chunk, mode |-> txMode]
<1>1. air' = air \/ air' = Append(air, f)  BY DEF TransmitData, Key
<1>2. /\ UNCHANGED <<txSeq, done, offset, chunk, inbox, expect, partial, delivered>>
      /\ Busy /\ Busy'
  BY DEF TransmitData, receiver, sendCall, Busy
<1>3. Carries(f, done + 1, offset, Len(chunk))
  <2>1. \A i \in 1..Len(chunk) : chunk[i] = <<done + 1, offset + i>>
    BY <1>2, InHandBytes
  <2> QED  BY <2>1 DEF Carries, BytesOf
<1>4. ASSUME NEW i \in 1..Len(air'), air'[i].seq = txSeq
      PROVE  Carries(air'[i], done + 1, offset, Len(chunk))
  <2>1. CASE air' = air
    BY <1>4, <2>1 DEF Covered
  <2>2. CASE air' = Append(air, f)
    <3>1. /\ Len(air') = Len(air) + 1 /\ Len(air) \in Nat
          /\ \A j \in 1..Len(air) : air'[j] = air[j]
          /\ air'[Len(air) + 1] = f
      BY <2>2, AppendFacts DEF TypeInv, TypeOK
    <3> HIDE DEF f
    <3>2. CASE i \in 1..Len(air)
      BY <1>4, <3>1, <3>2 DEF Covered
    <3>3. CASE i = Len(air) + 1
      BY <1>3, <3>1, <3>3
    <3> QED  BY <1>4, <3>1, <3>2, <3>3
  <2> QED  BY <1>1, <2>1, <2>2
<1>5. \A i \in 1..Len(air') :
        air'[i].seq = txSeq => Carries(air'[i], done + 1, offset, Len(chunk))
  BY <1>4
<1> QED  BY <1>2, <1>5 DEF Covered

\* Moving a frame to _rx_packets changes nothing of what is covered.
LEMMA CoverDecode ==
  ASSUME TypeInv, Covered, DecodeData
  PROVE  Covered'
<1>1. UNCHANGED <<txSeq, done, offset, chunk, expect, partial, delivered, pc>>
  BY DEF DecodeData, sender, sendCall
<1>2. /\ 1 \in 1..Len(air)
      /\ \A i \in 1..Len(air') : air'[i] = air[i + 1] /\ i + 1 \in 1..Len(air)
  BY QueueFacts DEF DecodeData, TypeInv, TypeOK
<1>3. /\ Len(inbox') = Len(inbox) + 1 /\ Len(inbox) \in Nat
      /\ \A i \in 1..Len(inbox) : inbox'[i] = inbox[i]
      /\ inbox'[Len(inbox) + 1] = air[1]
  BY AppendFacts, QueueFacts DEF DecodeData, TypeInv, TypeOK
<1>4. \A i \in 1..Len(inbox') : i \in 1..Len(inbox) \/ i = Len(inbox) + 1
  BY <1>3
<1>5. \A i \in 1..Len(air') :
        air'[i].seq = txSeq => Carries(air'[i], done + 1, offset, Len(chunk))
  BY <1>2 DEF Covered
<1>6. \A i \in 1..Len(inbox') :
        inbox'[i].seq = txSeq => Carries(inbox'[i], done + 1, offset, Len(chunk))
  BY <1>2, <1>3, <1>4 DEF Covered
<1> QED  BY <1>1, <1>5, <1>6 DEF Covered, Busy

\* What the sender may count as acknowledged, the receiver holds.
LEMMA CoverHearAck ==
  ASSUME TypeInv, SeqInv, ChunkInHand, Covered, HearAck
  PROVE  Covered'
<1>1. UNCHANGED <<air, inbox, expect, partial, delivered>> /\ acks # << >> /\ Busy
  BY DEF HearAck, receiver, Busy
<1>2. CASE UNCHANGED sender
  BY <1>1, <1>2 DEF Covered, Busy, sender, sendCall
<1>3. CASE Accepts(Head(acks)) /\ ChunkAcked
  <2>1. /\ expect = NextSeq(txSeq) /\ expect # txSeq
        /\ \A i \in 1..Len(inbox) : inbox[i].seq = txSeq
        /\ \A i \in 1..Len(air) : air[i].seq = txSeq
    BY <1>1, <1>3, AcceptedIsCurrent
  <2>2. txSeq' = NextSeq(txSeq)  BY <1>3 DEF ChunkAcked
  <2>3. expect' = txSeq' /\ txSeq' # txSeq  BY <1>1, <2>1, <2>2
  <2>4. /\ \A i \in 1..Len(inbox') : inbox'[i].seq # txSeq'
        /\ \A i \in 1..Len(air') : air'[i].seq # txSeq'
    BY <1>1, <2>1, <2>3
  <2>5. /\ Holds(partial, delivered, done + 1, offset + Len(chunk))
        /\ \A m \in 1..done : Holds(partial, delivered, m, MessageLen[m])
    BY <2>1 DEF Covered
  <2>6. done \in Nat  BY DEF TypeInv, TypeOK
  <2>7. CASE isLast
    <3>1. done' = done + 1 /\ ~Busy'  BY <1>3, <2>7 DEF ChunkAcked, Busy
    <3>2. offset + Len(chunk) = MessageLen[done + 1]
      BY <1>1, <2>7 DEF ChunkInHand
    <3>3. ASSUME NEW m \in 1..(done + 1)
          PROVE  Holds(partial, delivered, m, MessageLen[m])
      <4>1. CASE m \in 1..done  BY <2>5, <4>1
      <4>2. CASE m = done + 1  BY <2>5, <3>2, <4>2
      <4> QED  BY <2>6, <4>1, <4>2
    <3> QED  BY <1>1, <2>3, <2>4, <3>1, <3>3 DEF Covered
  <2>8. CASE ~isLast
    <3>1. done' = done /\ offset' = offset + Len(chunk)
      BY <1>3, <2>8 DEF ChunkAcked, Cut
    <3> QED  BY <1>1, <2>3, <2>4, <2>5, <3>1 DEF Covered
  <2> QED  BY <2>7, <2>8
<1> QED  BY <1>2, <1>3 DEF HearAck

\* Cutting the chunk smaller leaves it covered.
LEMMA CoverTimeout ==
  ASSUME TypeInv, ChunkInHand, Covered, AckTimeout
  PROVE  Covered'
<1>1. /\ UNCHANGED <<done, txSeq, air, inbox, expect, partial, delivered, offset>>
      /\ Busy /\ Busy'
      /\ \/ UNCHANGED <<chunk, isLast>>
         \/ /\ Cut(done + 1, offset, txMode') /\ txMode' \in PeerModes
            /\ Len(chunk) > ChunkSize[txMode']
  BY TimeoutFacts DEF receiver
<1>2. CASE UNCHANGED chunk
  BY <1>1, <1>2 DEF Covered
<1>3. CASE /\ Cut(done + 1, offset, txMode') /\ txMode' \in PeerModes
           /\ Len(chunk) > ChunkSize[txMode']
  <2>1. /\ done + 1 \in 1..NumMessages /\ offset <= MessageLen[done + 1]
        /\ offset \in Nat /\ Len(chunk) \in Nat
    <3>1. /\ done \in Nat /\ done < NumMessages /\ NumMessages \in Nat
          /\ offset \in Nat /\ Len(chunk) \in Nat
      BY <1>1, ArqAssumption DEF ChunkInHand, TypeInv, TypeOK
    <3>2. done + 1 \in 1..NumMessages  BY <3>1
    <3>3. MessageLen[done + 1] \in Nat /\ offset + Len(chunk) <= MessageLen[done + 1]
      BY <1>1, <3>2, ArqAssumption DEF ChunkInHand
    <3> QED  BY <3>1, <3>2, <3>3
  <2>2. /\ Len(chunk') <= ChunkSize[txMode'] /\ ChunkSize[txMode'] \in Nat
        /\ Len(chunk') \in Nat
    <3>1. Len(chunk') <= ChunkSize[txMode']
      BY <1>3, <2>1, CutFacts
    <3>2. ChunkSize[txMode'] \in Nat  BY <1>3, ArqAssumption DEF Modes
    <3>3. chunk' \in Seq((1..NumMessages) \X Nat)  BY <1>3, <2>1, CutType
    <3> QED  BY <3>1, <3>2, <3>3
  <2>3. /\ 1..Len(chunk') \subseteq 1..Len(chunk)
        /\ 1..(offset + Len(chunk')) \subseteq 1..(offset + Len(chunk))
    BY <1>3, <2>1, <2>2
  <2>4. \A f : Carries(f, done + 1, offset, Len(chunk))
                 => Carries(f, done + 1, offset, Len(chunk'))
    BY <2>3 DEF Carries
  <2>5. Holds(partial, delivered, done + 1, offset + Len(chunk))
          => Holds(partial, delivered, done + 1, offset + Len(chunk'))
    BY <2>3 DEF Holds
  <2> QED  BY <1>1, <2>4, <2>5 DEF Covered
<1> QED  BY <1>1, <1>2, <1>3

\* Covered is inductive on top of the types and SeqInv.
LEMMA CoverStep == TypeInv /\ SeqInv /\ CoverInv /\ [Next]_vars => Covered'
<1> SUFFICES ASSUME TypeInv, SeqInv, ChunkInHand, Covered, [Next]_vars PROVE Covered'
  BY DEF CoverInv
<1>1. CASE BeginMessage
  <2>1. /\ UNCHANGED <<txSeq, done, inbox, air, expect, partial, delivered>>
        /\ offset' = 0 /\ pc = "idle"
    BY <1>1 DEF BeginMessage, receiver, Cut
  <2>2. /\ expect' = txSeq'
        /\ \A i \in 1..Len(inbox') : inbox'[i].seq # txSeq'
        /\ \A i \in 1..Len(air') : air'[i].seq # txSeq'
    BY <2>1 DEF SeqInv, Quiet
  <2>3. Holds(partial', delivered', done + 1, 0)  BY DEF Holds
  <2> QED  BY <2>1, <2>2, <2>3 DEF Covered
<1>2. CASE UNCHANGED vars
  BY <1>2 DEF vars, sender, sendCall, receiver, Covered, Busy
<1> QED
  BY <1>1, <1>2, CoverTransmit, CoverHearAck, CoverTimeout, CoverDecode, CoverHandle
  DEF Next, SendStep, RecvStep

\* The three invariants together.
LEMMA CoverHolds == Spec => [](TypeInv /\ SeqInv /\ CoverInv)
<1>1. Init => CoverInv
  BY ChunkInit, CoverInit DEF CoverInv
<1>2. TypeInv /\ SeqInv /\ CoverInv /\ [Next]_vars => CoverInv'
  BY CoverStep, ChunkStep DEF CoverInv
<1>3. TypeInv /\ SeqInv /\ [Next]_vars => TypeInv' /\ SeqInv'
  BY TypeStep, SeqStep
<1> QED  BY <1>1, <1>2, <1>3, TypeInit, SeqInit, PTL DEF Spec

\* On any ladder, with any losses, retransmissions, steps down and re-cuts,
\* every byte the sender counts as acknowledged the receiver holds: a re-cut
\* may repeat bytes (a run shows it) but never skips one.
THEOREM NoByteSkipped == Spec => []NothingLost
<1>1. TypeInv /\ CoverInv => NothingLost
  <2> SUFFICES ASSUME TypeInv, CoverInv,
                      NEW m \in 1..NumMessages, NEW i \in 1..MessageLen[m],
                      m <= done \/ (m = done + 1 /\ i <= offset)
               PROVE  HeldByte(partial, delivered, <<m, i>>)
    BY DEF NothingLost
  <2>1. done \in Nat /\ offset \in Nat  BY DEF TypeInv, TypeOK
  <2>2. CASE m <= done
    <3>1. m \in 1..done  BY <2>1, <2>2
    <3> QED  BY <3>1 DEF CoverInv, Covered, Holds
  <2>3. CASE m = done + 1 /\ i <= offset
    <3>1. Busy
      <4>1. i \in Nat /\ i >= 1  OBVIOUS
      <4>2. offset # 0  BY <2>1, <2>3, <4>1
      <4> QED  BY <4>2 DEF CoverInv, ChunkInHand, Busy
    <3>2. i \in 1..offset  BY <2>1, <2>3
    <3> QED  BY <2>3, <3>1, <3>2 DEF CoverInv, Covered, Holds
  <2> QED  BY <2>2, <2>3
<1> QED  BY <1>1, CoverHolds, PTL

----------------------------------------------------------------------------
(* A call that returned has delivered, on any ladder *)

\* Nothing is handed over before the first call.
LEMMA EndInit == Init => Ended
BY ArqAssumption DEF Init, Ended, Holds

\* A message handed over stays handed over.
LEMMA GivenStays ==
  ASSUME TypeInv, NEW f \in DataFrame, TakeChunk(f)
  PROVE  /\ f.eof => partial' = << >> /\ Len(delivered') = Len(delivered) + 1
         /\ ~f.eof => delivered' = delivered
         /\ \A m, n : Holds(<< >>, delivered, m, n) => Holds(<< >>, delivered', m, n)
<1>1. CASE f.eof
  <2> DEFINE whole == partial \o f.chunk
  <2>a. delivered' = Append(delivered, whole) /\ partial' = << >>
    BY <1>1 DEF TakeChunk
  <2>b. delivered \in Seq(Seq((1..NumMessages) \X Nat))  BY DEF TypeInv, TypeOK
  <2> HIDE DEF whole
  <2>1. /\ Len(delivered') = Len(delivered) + 1 /\ Len(delivered) \in Nat
        /\ \A d \in 1..Len(delivered) : delivered'[d] = delivered[d]
    BY <2>a, <2>b, AppendFacts
  <2>2. 1..Len(delivered) \subseteq 1..Len(delivered')  BY <2>1
  <2>3. \A b : HeldByte(<< >>, delivered, b) => HeldByte(<< >>, delivered', b)
    BY <2>1, <2>2 DEF HeldByte
  <2> QED  BY <1>1, <2>1, <2>a, <2>3 DEF Holds
<1>2. CASE ~f.eof
  BY <1>2 DEF TakeChunk
<1> QED  BY <1>1, <1>2

\* Taking a last chunk hands over its message.
LEMMA EndHandle ==
  ASSUME TypeInv, SeqInv, Ended, HandleData
  PROVE  Ended'
<1> DEFINE f == inbox[1]
<1>1. UNCHANGED <<txSeq, air, done, isLast>>  BY DEF HandleData, sender, sendCall
<1>2. /\ inbox # << >> /\ Head(inbox) = f /\ f \in DataFrame /\ 1 \in 1..Len(inbox)
      /\ \A i \in 1..Len(inbox') : inbox'[i] = inbox[i + 1] /\ i + 1 \in 1..Len(inbox)
  BY QueueFacts DEF HandleData, TypeInv, TypeOK
<1>3. isLast => /\ \A i \in 1..Len(inbox') : inbox'[i].seq = txSeq => inbox'[i].eof
                /\ \A i \in 1..Len(air) : air[i].seq = txSeq => air[i].eof
  BY <1>2 DEF Ended
<1>4. done \in Nat /\ Len(delivered) \in Nat  BY DEF TypeInv, TypeOK
<1>5. CASE TakeChunk(f)
  <2>1. f.seq = txSeq  BY <1>2, <1>5, TakenIsCurrent DEF TakeChunk
  <2>2. isLast => f.eof  BY <1>2, <2>1 DEF Ended
  <2>3. /\ f.eof => partial' = << >> /\ Len(delivered') = Len(delivered) + 1
        /\ ~f.eof => delivered' = delivered
        /\ \A m, n : Holds(<< >>, delivered, m, n) => Holds(<< >>, delivered', m, n)
    BY <1>2, <1>5, GivenStays
  <2>4. Len(delivered) >= done /\ \A m \in 1..done : Holds(<< >>, delivered, m, MessageLen[m])
    BY DEF Ended
  <2>5. \A m \in 1..done : Holds(<< >>, delivered', m, MessageLen[m])
    BY <2>3, <2>4
  <2>6. Len(delivered') >= done /\ (isLast => partial' = << >> /\ Len(delivered') >= done + 1)
    BY <1>4, <2>2, <2>3, <2>4
  <2> HIDE DEF f
  <2> QED  BY <1>1, <1>3, <2>5, <2>6 DEF Ended
<1>6. CASE DropDuplicate(f)
  BY <1>1, <1>3, <1>6 DEF DropDuplicate, Ended
<1> QED  BY <1>2, <1>5, <1>6 DEF HandleData

\* A frame just keyed ends the message when its chunk does.
LEMMA EndTransmit ==
  ASSUME TypeInv, Ended, TransmitData
  PROVE  Ended'
<1> DEFINE f == [seq |-> txSeq, eof |-> isLast, chunk |-> chunk, mode |-> txMode]
<1>1. air' = air \/ air' = Append(air, f)  BY DEF TransmitData, Key
<1>2. UNCHANGED <<txSeq, done, isLast, inbox, expect, partial, delivered>>
  BY DEF TransmitData, receiver, sendCall
<1>3. ASSUME isLast, NEW i \in 1..Len(air'), air'[i].seq = txSeq
      PROVE  air'[i].eof
  <2>1. CASE air' = air
    BY <1>3, <2>1 DEF Ended
  <2>2. CASE air' = Append(air, f)
    <3>1. /\ Len(air') = Len(air) + 1 /\ Len(air) \in Nat
          /\ \A j \in 1..Len(air) : air'[j] = air[j]
          /\ air'[Len(air) + 1].eof = isLast
      BY <2>2, AppendFacts DEF TypeInv, TypeOK
    <3>2. CASE i \in 1..Len(air)
      BY <1>3, <3>1, <3>2 DEF Ended
    <3>3. CASE i = Len(air) + 1
      BY <1>3, <3>1, <3>3
    <3> QED  BY <1>3, <3>1, <3>2, <3>3
  <2> QED  BY <1>1, <2>1, <2>2
<1>4. isLast => \A i \in 1..Len(air') : air'[i].seq = txSeq => air'[i].eof
  BY <1>3
<1> QED  BY <1>2, <1>4 DEF Ended

\* Decoding a frame changes nothing of what is handed over.
LEMMA EndDecode ==
  ASSUME TypeInv, Ended, DecodeData
  PROVE  Ended'
<1>1. UNCHANGED <<txSeq, done, isLast, expect, partial, delivered>>
  BY DEF DecodeData, sender, sendCall
<1>2. /\ 1 \in 1..Len(air)
      /\ \A i \in 1..Len(air') : air'[i] = air[i + 1] /\ i + 1 \in 1..Len(air)
  BY QueueFacts DEF DecodeData, TypeInv, TypeOK
<1>3. /\ Len(inbox') = Len(inbox) + 1 /\ Len(inbox) \in Nat
      /\ \A i \in 1..Len(inbox) : inbox'[i] = inbox[i]
      /\ inbox'[Len(inbox) + 1] = air[1]
  BY AppendFacts, QueueFacts DEF DecodeData, TypeInv, TypeOK
<1>4. \A i \in 1..Len(inbox') : i \in 1..Len(inbox) \/ i = Len(inbox) + 1
  BY <1>3
<1>5. isLast => \A i \in 1..Len(air') : air'[i].seq = txSeq => air'[i].eof
  BY <1>2 DEF Ended
<1>6. isLast => \A i \in 1..Len(inbox') : inbox'[i].seq = txSeq => inbox'[i].eof
  BY <1>2, <1>3, <1>4 DEF Ended
<1> QED  BY <1>1, <1>5, <1>6 DEF Ended

\* The call that ends has its last chunk taken, hence its message handed over.
LEMMA EndHearAck ==
  ASSUME TypeInv, SeqInv, CoverInv, Ended, HearAck
  PROVE  Ended'
<1>1. UNCHANGED <<air, inbox, expect, partial, delivered>> /\ acks # << >> /\ Busy
  BY DEF HearAck, receiver, Busy
<1>2. CASE UNCHANGED sender
  BY <1>1, <1>2 DEF Ended, sender, sendCall
<1>3. CASE Accepts(Head(acks)) /\ ChunkAcked
  <2>1. /\ expect = NextSeq(txSeq) /\ expect # txSeq
        /\ \A i \in 1..Len(inbox) : inbox[i].seq = txSeq
        /\ \A i \in 1..Len(air) : air[i].seq = txSeq
    BY <1>1, <1>3, AcceptedIsCurrent
  <2>2. expect' = txSeq' /\ txSeq' # txSeq
    BY <1>1, <1>3, <2>1 DEF ChunkAcked
  <2>3. /\ \A i \in 1..Len(inbox') : inbox'[i].seq # txSeq'
        /\ \A i \in 1..Len(air') : air'[i].seq # txSeq'
    BY <1>1, <2>1, <2>2
  <2>4. done \in Nat  BY DEF TypeInv, TypeOK
  <2>5. CASE isLast
    <3>1. done' = done + 1 /\ isLast' = FALSE  BY <1>3, <2>5 DEF ChunkAcked
    <3>2. partial = << >> /\ Len(delivered) >= done + 1
      BY <2>1, <2>5 DEF Ended
    <3>3. offset + Len(chunk) = MessageLen[done + 1]
      BY <1>1, <2>5 DEF CoverInv, ChunkInHand
    <3>4. ASSUME NEW m \in 1..(done + 1)
          PROVE  Holds(<< >>, delivered, m, MessageLen[m])
      <4>1. CASE m \in 1..done  BY <4>1 DEF Ended
      <4>2. CASE m = done + 1  BY <2>1, <3>2, <3>3, <4>2 DEF CoverInv, Covered
      <4> QED  BY <2>4, <4>1, <4>2
    <3>5. Len(delivered) >= done'  BY <3>1, <3>2
    <3> QED  BY <1>1, <3>1, <3>4, <3>5 DEF Ended
  <2>6. CASE ~isLast
    <3>1. done' = done  BY <1>3, <2>6 DEF ChunkAcked
    <3> QED  BY <1>1, <2>2, <2>3, <3>1 DEF Ended
  <2> QED  BY <2>5, <2>6
<1> QED  BY <1>2, <1>3 DEF HearAck

\* A chunk cut smaller no longer ends its message.
LEMMA EndTimeout ==
  ASSUME TypeInv, ChunkInHand, Ended, AckTimeout
  PROVE  Ended'
<1>1. /\ UNCHANGED <<done, txSeq, air, inbox, expect, partial, delivered, offset>>
      /\ Busy
      /\ \/ UNCHANGED <<chunk, isLast>>
         \/ /\ Cut(done + 1, offset, txMode') /\ txMode' \in PeerModes
            /\ Len(chunk) > ChunkSize[txMode']
  BY TimeoutFacts DEF receiver
<1>2. CASE isLast' = isLast
  BY <1>1, <1>2 DEF Ended
<1>3. CASE /\ Cut(done + 1, offset, txMode') /\ txMode' \in PeerModes
           /\ Len(chunk) > ChunkSize[txMode']
  <2>1. done \in Nat /\ done < NumMessages /\ NumMessages \in Nat
    BY <1>1, ArqAssumption DEF ChunkInHand, TypeInv, TypeOK
  <2>2. done + 1 \in 1..NumMessages  BY <2>1
  <2>a. offset \in Nat /\ Len(chunk) \in Nat  BY DEF TypeInv, TypeOK
  <2>b. MessageLen[done + 1] \in Nat  BY <2>2, ArqAssumption
  <2>c. ChunkSize[txMode'] \in Nat  BY <1>3, ArqAssumption
  <2>3. /\ offset \in Nat /\ Len(chunk) \in Nat /\ MessageLen[done + 1] \in Nat
        /\ offset + Len(chunk) <= MessageLen[done + 1] /\ ChunkSize[txMode'] \in Nat
    BY <1>1, <2>a, <2>b, <2>c DEF ChunkInHand
  <2>4. ~(offset + ChunkSize[txMode'] >= MessageLen[done + 1])  BY <1>3, <2>3
  <2>5. isLast' = IsLastAt(done + 1, offset, txMode')  BY <1>3 DEF Cut
  <2>6. ~isLast'  BY <2>4, <2>5 DEF IsLastAt
  <2> QED  BY <1>1, <2>6 DEF Ended
<1> QED  BY <1>1, <1>2, <1>3

\* Ended is inductive on top of the types, SeqInv and CoverInv.
LEMMA EndStep == TypeInv /\ SeqInv /\ EndInv /\ [Next]_vars => Ended'
<1> SUFFICES ASSUME TypeInv, SeqInv, CoverInv, Ended, [Next]_vars PROVE Ended'
  BY DEF EndInv
<1>1. CASE BeginMessage
  <2>1. UNCHANGED <<txSeq, done, inbox, air, expect, partial, delivered>> /\ pc = "idle"
    BY <1>1 DEF BeginMessage, receiver
  <2>2. /\ expect' = txSeq'
        /\ \A i \in 1..Len(inbox') : inbox'[i].seq # txSeq'
        /\ \A i \in 1..Len(air') : air'[i].seq # txSeq'
    BY <2>1 DEF SeqInv, Quiet
  <2> QED  BY <2>1, <2>2 DEF Ended
<1>2. CASE UNCHANGED vars
  BY <1>2 DEF vars, sender, sendCall, receiver, Ended
<1> QED
  BY <1>1, <1>2, EndTransmit, EndHearAck, EndTimeout, EndDecode, EndHandle
  DEF Next, SendStep, RecvStep, CoverInv

\* On any ladder, with any losses, retransmissions, steps down and re-cuts, a
\* send_message that returned has had every byte of its message handed to the
\* receiving application.
THEOREM ReturnMeansDelivered == Spec => []ReturnedIsDelivered
<1>1. Init => Ended
  BY EndInit
<1>2. TypeInv /\ SeqInv /\ CoverInv /\ Ended /\ [Next]_vars => Ended'
  BY EndStep DEF EndInv
<1>3. Ended => ReturnedIsDelivered
  BY DEF Ended, Holds, ReturnedIsDelivered
<1> QED  BY <1>1, <1>2, <1>3, CoverHolds, PTL DEF Spec

----------------------------------------------------------------------------
(* In order, whole and once, until a re-cut overlaps *)

\* data[0:a] followed by data[a:b] is data[0:b].
LEMMA SliceJoin ==
  ASSUME NEW m \in 1..NumMessages, NEW a \in Nat, NEW b \in Nat, a <= b
  PROVE  Slice(m, 0, a) \o Slice(m, a, b) = Slice(m, 0, b)
<1> DEFINE S == (1..NumMessages) \X Nat
           p == Slice(m, 0, a)
           q == Slice(m, a, b)
           r == Slice(m, 0, b)
<1>2. /\ p \in Seq(S) /\ Len(p) = a - 0
      /\ r \in Seq(S) /\ Len(r) = b - 0
  <2>1. 0 \in Nat /\ 0 <= a /\ 0 <= b /\ a \in Int /\ b \in Int  OBVIOUS
  <2> HIDE DEF p, r
  <2> QED  BY <2>1, SliceType DEF p, r
<1>3. q \in Seq(S) /\ Len(q) = b - a
  <2>1. a \in Nat /\ b \in Int /\ a <= b  OBVIOUS
  <2> HIDE DEF q
  <2> QED  BY <2>1, SliceType DEF q
<1>4. /\ \A i \in 1..a : p[i] = <<m, i>>
      /\ \A i \in 1..(b - a) : q[i] = <<m, a + i>>
      /\ \A i \in 1..b : r[i] = <<m, i>>
  BY DEF Slice
<1> HIDE DEF p, q, r, S
<1>5. Len(p) = a /\ Len(r) = b  BY <1>2
<1>6. /\ p \o q \in Seq(S) /\ Len(p \o q) = b
      /\ \A i \in 1..b : (p \o q)[i] = IF i <= a THEN p[i] ELSE q[i - a]
  <2>1. Len(p) + Len(q) = b  BY <1>3, <1>5
  <2>2. /\ p \o q \in Seq(S) /\ Len(p \o q) = Len(p) + Len(q)
        /\ \A i \in 1..(Len(p) + Len(q)) :
             (p \o q)[i] = IF i <= Len(p) THEN p[i] ELSE q[i - Len(p)]
    BY <1>2, <1>3, ConcatProperties
  <2> QED  BY <1>5, <2>1, <2>2
<1>7. ASSUME NEW i \in 1..b
      PROVE  (p \o q)[i] = r[i]
  <2>1. CASE i <= a
    <3>1. i \in 1..a  BY <2>1
    <3> QED  BY <1>4, <1>6, <2>1, <3>1
  <2>2. CASE ~(i <= a)
    <3>1. i - a \in 1..(b - a) /\ a + (i - a) = i /\ ~(i <= a)  BY <2>2
    <3>2. q[i - a] = <<m, a + (i - a)>>  BY <1>4, <3>1
    <3>3. (p \o q)[i] = q[i - a]  BY <1>6, <3>1
    <3> QED  BY <1>4, <3>1, <3>2, <3>3
  <2> QED  BY <2>1, <2>2
<1> QED  BY <1>2, <1>5, <1>6, <1>7, SeqEqual DEF p, q, r

\* Nothing of a message is no bytes.
LEMMA SliceEmpty ==
  ASSUME NEW m
  PROVE  Slice(m, 0, 0) = << >>
BY DEF Slice

\* A timeout leaves the chunk alone, or cuts a smaller one of which nothing
\* has reached the receiver, or marks the overlap.
LEMMA DataTimeout ==
  ASSUME TypeInv, ChunkInHand, SameChunk, ReceiverHolds, AckTimeout, ~overlapped'
  PROVE  SameChunk' /\ ReceiverHolds'
<1>1. UNCHANGED <<done, txSeq, air, inbox, expect, partial, delivered, offset>>
  BY TimeoutFacts DEF receiver
<1>2. CASE UNCHANGED <<chunk, isLast>>
  BY <1>1, <1>2 DEF SameChunk, ReceiverHolds
<1>3. CASE ~UNCHANGED <<chunk, isLast>>
  <2>1. ~Reached
    BY <1>3 DEF AckTimeout, sendCall
  <2>2. /\ expect = txSeq
        /\ \A i \in 1..Len(inbox) : inbox[i].seq # txSeq
        /\ \A i \in 1..Len(air) : air[i].seq # txSeq
    BY <2>1 DEF Reached, TypeInv, TypeOK
  <2> QED  BY <1>1, <2>2 DEF SameChunk, ReceiverHolds
<1> QED  BY <1>2, <1>3

\* No message is begun and the receiver holds nothing.
LEMMA DataInit == Init => SameChunk /\ ReceiverHolds
<1> SUFFICES ASSUME Init PROVE SameChunk /\ ReceiverHolds  OBVIOUS
<1>1. SameChunk  BY DEF Init, SameChunk
<1>2. partial = Slice(done + 1, 0, offset)
  BY SliceEmpty DEF Init
<1> QED  BY <1>1, <1>2 DEF Init, ReceiverHolds

\* A frame just keyed is the chunk in hand.
LEMMA DataTransmit ==
  ASSUME TypeInv, SameChunk, ReceiverHolds, TransmitData
  PROVE  SameChunk' /\ ReceiverHolds'
<1> DEFINE f == [seq |-> txSeq, eof |-> isLast, chunk |-> chunk, mode |-> txMode]
<1>1. air' = air \/ air' = Append(air, f)  BY DEF TransmitData, Key
<1>2. /\ UNCHANGED <<txSeq, txMode, done, offset, chunk, isLast, inbox, expect, partial, delivered>>
      /\ pc = "send"
  BY DEF TransmitData, receiver, sendCall
<1>3. ReceiverHolds'  BY <1>2 DEF ReceiverHolds
<1>4. ASSUME NEW i \in 1..Len(air'), air'[i].seq = txSeq
      PROVE  air'[i].chunk = chunk /\ air'[i].eof = isLast
  <2>1. CASE air' = air
    BY <1>4, <2>1 DEF SameChunk
  <2>2. CASE air' = Append(air, f)
    <3>1. /\ Len(air') = Len(air) + 1 /\ Len(air) \in Nat
          /\ \A j \in 1..Len(air) : air'[j] = air[j]
          /\ air'[Len(air) + 1] = f
      BY <2>2, AppendFacts DEF TypeInv, TypeOK
    <3>2. CASE i \in 1..Len(air)
      BY <1>4, <3>1, <3>2 DEF SameChunk
    <3>3. CASE i = Len(air) + 1
      BY <3>1, <3>3
    <3> QED  BY <1>4, <3>1, <3>2, <3>3
  <2> QED  BY <1>1, <2>1, <2>2
<1>5. SameChunk'
  BY <1>2, <1>4 DEF SameChunk
<1> QED  BY <1>3, <1>5

\* Decoding a frame changes nothing of what the receiver has been given.
LEMMA DataDecode ==
  ASSUME TypeInv, SameChunk, ReceiverHolds, DecodeData
  PROVE  SameChunk' /\ ReceiverHolds'
<1>1. UNCHANGED <<txSeq, txMode, done, offset, chunk, isLast, expect, partial, delivered, pc>>
  BY DEF DecodeData, sender, sendCall
<1>2. /\ 1 \in 1..Len(air)
      /\ \A i \in 1..Len(air') : air'[i] = air[i + 1] /\ i + 1 \in 1..Len(air)
  BY QueueFacts DEF DecodeData, TypeInv, TypeOK
<1>3. /\ Len(inbox') = Len(inbox) + 1 /\ Len(inbox) \in Nat
      /\ \A i \in 1..Len(inbox) : inbox'[i] = inbox[i]
      /\ inbox'[Len(inbox) + 1] = air[1]
  BY AppendFacts, QueueFacts DEF DecodeData, TypeInv, TypeOK
<1>4. \A i \in 1..Len(inbox') : i \in 1..Len(inbox) \/ i = Len(inbox) + 1
  BY <1>3
<1>a. \A i \in 1..Len(inbox') :
        inbox'[i].seq = txSeq => inbox'[i].chunk = chunk /\ inbox'[i].eof = isLast
  BY <1>2, <1>3, <1>4 DEF SameChunk
<1>b. \A i \in 1..Len(air') :
        air'[i].seq = txSeq => air'[i].chunk = chunk /\ air'[i].eof = isLast
  BY <1>2 DEF SameChunk
<1>5. SameChunk'
  BY <1>1, <1>a, <1>b DEF SameChunk
<1>6. ReceiverHolds'
  BY <1>1 DEF ReceiverHolds
<1> QED  BY <1>5, <1>6

\* Taking the chunk the receiver expects completes the message or extends
\* what it holds of it by exactly that chunk.
LEMMA TakenExtends ==
  ASSUME TypeInv, SeqInv, ChunkInHand, SameChunk, ReceiverHolds,
         inbox # << >>, TakeChunk(inbox[1])
  PROVE  /\ expect = txSeq /\ expect' # txSeq /\ Busy
         /\ Len(delivered) = done
         /\ isLast => /\ delivered' = Append(delivered, Content(done + 1))
                      /\ partial' = << >>
         /\ ~isLast => /\ delivered' = delivered
                       /\ partial' = Slice(done + 1, 0, offset + Len(chunk))
<1>1. inbox[1].seq = txSeq /\ expect = txSeq /\ Busy
  BY TakenIsCurrent DEF TakeChunk
<1>2. inbox[1].chunk = chunk /\ inbox[1].eof = isLast
  <2>1. 1 \in 1..Len(inbox)  BY QueueFacts DEF TypeInv, TypeOK
  <2> QED  BY <1>1, <2>1 DEF SameChunk
<1>3. expect' # txSeq
  BY <1>1, NextSeqFacts DEF TakeChunk, TypeInv, TypeOK
<1>4. done + 1 \in 1..NumMessages /\ offset \in Nat /\ Len(chunk) \in Nat
  BY <1>1, ArqAssumption DEF TypeInv, TypeOK
<1>5. Len(delivered) = done /\ partial = Slice(done + 1, 0, offset)
  BY <1>1 DEF ReceiverHolds
<1>6. chunk = Slice(done + 1, offset, offset + Len(chunk))
  BY <1>1 DEF ChunkInHand
<1>7. partial \o inbox[1].chunk = Slice(done + 1, 0, offset + Len(chunk))
  <2>1. offset + Len(chunk) \in Nat /\ offset <= offset + Len(chunk)  BY <1>4
  <2>2. Slice(done + 1, 0, offset) \o Slice(done + 1, offset, offset + Len(chunk))
          = Slice(done + 1, 0, offset + Len(chunk))
    BY <1>4, <2>1, SliceJoin
  <2> QED  BY <1>2, <1>5, <1>6, <2>2
<1>8. ASSUME isLast
      PROVE  Slice(done + 1, 0, offset + Len(chunk)) = Content(done + 1)
  BY <1>1, <1>8 DEF ChunkInHand, Content
<1> QED  BY <1>1, <1>2, <1>3, <1>5, <1>7, <1>8 DEF TakeChunk

\* _handle_data extends what the receiver holds by the chunk in hand, or
\* leaves it alone.
LEMMA DataHandle ==
  ASSUME TypeInv, SeqInv, ChunkInHand, SameChunk, ReceiverHolds, HandleData
  PROVE  SameChunk' /\ ReceiverHolds'
<1>1. UNCHANGED <<txSeq, txMode, air, pc, done, chunk, isLast, offset>>
  BY DEF HandleData, sender, sendCall
<1>2. /\ inbox # << >> /\ Head(inbox) = inbox[1]
      /\ \A i \in 1..Len(inbox') : inbox'[i] = inbox[i + 1] /\ i + 1 \in 1..Len(inbox)
  BY QueueFacts DEF HandleData, TypeInv, TypeOK
<1>3. SameChunk'
  BY <1>1, <1>2 DEF SameChunk
<1>4. ReceiverHolds'
  <2>1. CASE DropDuplicate(inbox[1])
    BY <1>1, <2>1 DEF DropDuplicate, ReceiverHolds
  <2>2. CASE TakeChunk(inbox[1])
    <3>1. /\ expect = txSeq /\ expect' # txSeq /\ Len(delivered) = done
          /\ isLast => /\ delivered' = Append(delivered, Content(done + 1))
                       /\ partial' = << >>
          /\ ~isLast => /\ delivered' = delivered
                        /\ partial' = Slice(done + 1, 0, offset + Len(chunk))
      BY <1>2, <2>2, TakenExtends
    <3>2. done \in Nat /\ delivered \in Seq(Seq((1..NumMessages) \X Nat))
          /\ isLast \in BOOLEAN
      BY DEF TypeInv, TypeOK
    <3>3. CASE isLast
      <4>1. /\ Len(delivered') = done + 1
            /\ \A m \in 1..done : delivered'[m] = delivered[m]
            /\ delivered'[done + 1] = Content(done + 1)
        BY <3>1, <3>2, <3>3, AppendFacts
      <4>2. ASSUME NEW m \in 1..(done + 1) PROVE delivered'[m] = Content(m)
        <5>1. CASE m \in 1..done  BY <3>1, <4>1, <5>1 DEF ReceiverHolds
        <5>2. CASE m = done + 1  BY <4>1, <5>2
        <5> QED  BY <3>2, <5>1, <5>2
      <4> QED  BY <1>1, <3>1, <3>3, <4>1, <4>2 DEF ReceiverHolds
    <3>4. CASE ~isLast
      BY <1>1, <3>1, <3>4 DEF ReceiverHolds
    <3> QED  BY <3>2, <3>3, <3>4
  <2> QED  BY <1>2, <2>1, <2>2 DEF HandleData
<1> QED  BY <1>3, <1>4

\* An accepted ACK moves the sender to where the receiver already is.
LEMMA DataHearAck ==
  ASSUME TypeInv, SeqInv, ChunkInHand, SameChunk, ReceiverHolds, HearAck
  PROVE  SameChunk' /\ ReceiverHolds'
<1>1. UNCHANGED <<air, inbox, expect, partial, delivered>> /\ acks # << >> /\ Busy
  BY DEF HearAck, receiver, Busy
<1>2. CASE UNCHANGED sender
  BY <1>1, <1>2 DEF SameChunk, ReceiverHolds, sender, sendCall
<1>3. CASE Accepts(Head(acks)) /\ ChunkAcked
  <2>1. /\ expect = NextSeq(txSeq) /\ expect # txSeq
        /\ \A i \in 1..Len(inbox) : inbox[i].seq = txSeq
        /\ \A i \in 1..Len(air) : air[i].seq = txSeq
    BY <1>1, <1>3, AcceptedIsCurrent
  <2>2. txSeq' = NextSeq(txSeq)  BY <1>3 DEF ChunkAcked
  <2>3. expect' = txSeq' /\ txSeq' # txSeq  BY <1>1, <2>1, <2>2
  <2>4. /\ \A i \in 1..Len(inbox') : inbox'[i].seq # txSeq'
        /\ \A i \in 1..Len(air') : air'[i].seq # txSeq'
    BY <1>1, <2>1, <2>3
  <2>5. CASE isLast
    <3>1. done' = done + 1 /\ offset' = 0 /\ pc' = "idle"
      BY <1>3, <2>5 DEF ChunkAcked
    <3>2. Len(delivered') = done' /\ partial' = << >>
      BY <1>1, <2>1, <2>5, <3>1 DEF ReceiverHolds
    <3>3. partial' = Slice(done' + 1, 0, offset')
      BY <3>1, <3>2, SliceEmpty
    <3>4. SameChunk'  BY <2>4, <3>1 DEF SameChunk
    <3>5. ReceiverHolds'
      BY <1>1, <2>3, <3>2, <3>3 DEF ReceiverHolds
    <3> QED  BY <3>4, <3>5
  <2>6. CASE ~isLast
    <3>1. done' = done /\ Cut(done + 1, offset + Len(chunk), txMode')
      BY <1>3, <2>6 DEF ChunkAcked
    <3>2. offset' = offset + Len(chunk)  BY <3>1 DEF Cut
    <3>4. SameChunk'  BY <2>4 DEF SameChunk
    <3>5. /\ Len(delivered') = done'
          /\ partial' = Slice(done' + 1, 0, offset')
      BY <1>1, <2>1, <2>6, <3>1, <3>2 DEF ReceiverHolds
    <3>6. ReceiverHolds'
      BY <1>1, <2>3, <3>5 DEF ReceiverHolds
    <3> QED  BY <3>4, <3>6
  <2> QED  BY <2>5, <2>6
<1> QED  BY <1>2, <1>3 DEF HearAck

\* DataInv is inductive on top of the types and SeqInv.
LEMMA DataStep == TypeInv /\ SeqInv /\ DataInv /\ [Next]_vars => DataInv'
<1> SUFFICES ASSUME TypeInv, SeqInv, DataInv, [Next]_vars, ~overlapped'
             PROVE  SameChunk' /\ ReceiverHolds'
  BY ChunkStep DEF DataInv
<1>o. ~overlapped
  BY DEF Next, SendStep, RecvStep, BeginMessage, TransmitData, HearAck, AckTimeout,
         DecodeData, HandleData, vars
<1>i. ChunkInHand /\ SameChunk /\ ReceiverHolds  BY <1>o DEF DataInv
<1>1. CASE BeginMessage
  <2>1. /\ UNCHANGED <<done, txSeq, inbox, air, expect, partial, delivered>>
        /\ pc = "idle" /\ offset' = 0
    BY <1>1 DEF BeginMessage, receiver, Cut
  <2>2. /\ expect = txSeq
        /\ \A i \in 1..Len(inbox) : inbox[i].seq # txSeq
        /\ \A i \in 1..Len(air) : air[i].seq # txSeq
    BY <2>1 DEF SeqInv, Quiet
  <2>3. offset = 0  BY <1>i, <2>1 DEF ChunkInHand
  <2> QED  BY <1>i, <2>1, <2>2, <2>3 DEF SameChunk, ReceiverHolds
<1>2. CASE UNCHANGED vars
  BY <1>i, <1>2 DEF vars, sender, sendCall, receiver, SameChunk, ReceiverHolds
<1>3. CASE TransmitData \/ HearAck \/ AckTimeout \/ DecodeData \/ HandleData
  BY <1>i, <1>3, DataTransmit, DataHearAck, DataTimeout, DataDecode, DataHandle
<1> QED  BY <1>1, <1>2, <1>3 DEF Next, SendStep, RecvStep

\* The three invariants together.
LEMMA DataHolds == Spec => [](TypeInv /\ SeqInv /\ DataInv)
<1>1. Init => DataInv
  BY ChunkInit, DataInit DEF DataInv
<1>2. TypeInv /\ SeqInv /\ DataInv /\ [Next]_vars => TypeInv' /\ SeqInv' /\ DataInv'
  BY TypeStep, SeqStep, DataStep
<1> QED  BY <1>1, <1>2, TypeInit, SeqInit, PTL DEF Spec

\* The receiving application is given the sender's messages whole, in order
\* and once each, at most one ahead of the calls that have returned, on every
\* ladder, until a chunk is re-cut after it had reached the receiver.
THEOREM DeliveryInOrder == Spec => []InOrderUntilOverlap
<1>1. TypeInv /\ DataInv => InOrderUntilOverlap
  BY DEF TypeInv, TypeOK, DataInv, ReceiverHolds, InOrderOnce, InOrderUntilOverlap
<1> QED  BY <1>1, DataHolds, PTL

----------------------------------------------------------------------------
(* The transfer implements the abstract stream *)

\* Every step of Arq is a step of MessageStream or leaves its variables alone.
LEMMA StreamStep ==
  ASSUME TypeInv, SeqInv, DataInv, [Next]_vars, ~overlapped
  PROVE  [Promise!Next]_(Promise!vars)
<1> DEFINE Stutter == delivered' = delivered /\ done' = done
                      /\ (pc = "failed")' = (pc = "failed")
<1>i. ChunkInHand /\ SameChunk /\ ReceiverHolds  BY DEF DataInv
<1>s. Stutter => UNCHANGED Promise!vars
  BY DEF Promise!vars
<1>1. CASE BeginMessage \/ TransmitData \/ DecodeData \/ UNCHANGED vars
  <2>1. Stutter
    BY <1>1 DEF BeginMessage, Cut, TransmitData, DecodeData, vars, sender, receiver
  <2> QED  BY <1>s, <2>1
<1>2. CASE HearAck
  <2>1. delivered' = delivered /\ acks # << >> /\ pc = "wait"
    BY <1>2 DEF HearAck, receiver
  <2>2. CASE UNCHANGED sender
    <3>1. Stutter  BY <2>1, <2>2 DEF sender
    <3> QED  BY <1>s, <3>1
  <2>3. CASE Accepts(Head(acks)) /\ ChunkAcked /\ ~isLast
    <3>1. Stutter  BY <2>1, <2>3 DEF ChunkAcked, Cut
    <3> QED  BY <1>s, <3>1
  <2>4. CASE Accepts(Head(acks)) /\ ChunkAcked /\ isLast
    <3>1. expect # txSeq  BY <2>1, <2>4, AcceptedIsCurrent
    <3>2. Len(delivered) = done + 1 /\ done \in Nat
      BY <1>i, <2>4, <3>1 DEF ReceiverHolds, TypeInv, TypeOK
    <3>3. done' = done + 1 /\ pc' = "idle"  BY <2>4 DEF ChunkAcked
    <3>4. Promise!Return
      BY <2>1, <3>2, <3>3 DEF Promise!Return
    <3> QED  BY <3>4 DEF Promise!Next
  <2> QED  BY <1>2, <2>2, <2>3, <2>4 DEF HearAck
<1>3. CASE AckTimeout
  <2>1. /\ delivered' = delivered /\ done' = done /\ pc = "wait" /\ done < NumMessages
        /\ pc' \in {"send", "failed"}
    BY <1>3 DEF AckTimeout, Cut, receiver, TypeInv, Busy
  <2>2. CASE pc' = "failed"
    <3>1. Promise!Break  BY <2>1, <2>2 DEF Promise!Break
    <3> QED  BY <3>1 DEF Promise!Next
  <2>3. CASE pc' = "send"
    <3>1. Stutter  BY <2>1, <2>3
    <3> QED  BY <1>s, <3>1
  <2> QED  BY <2>1, <2>2, <2>3
<1>4. CASE HandleData
  <2>1. /\ UNCHANGED <<done, pc>> /\ inbox # << >> /\ Head(inbox) = inbox[1]
        /\ TakeChunk(inbox[1]) \/ DropDuplicate(inbox[1])
    BY <1>4, QueueFacts DEF HandleData, sender, TypeInv, TypeOK
  <2>2. CASE DropDuplicate(inbox[1])
    <3>1. Stutter  BY <2>1, <2>2 DEF DropDuplicate
    <3> QED  BY <1>s, <3>1
  <2>3. CASE TakeChunk(inbox[1])
    <3>1. /\ Busy /\ Len(delivered) = done
          /\ isLast => delivered' = Append(delivered, Content(done + 1))
          /\ ~isLast => delivered' = delivered
      BY <1>i, <2>1, <2>3, TakenExtends
    <3>2. CASE isLast
      <4>1. Promise!Deliver
        BY <2>1, <3>1, <3>2 DEF Promise!Deliver, TypeInv
      <4> QED  BY <4>1 DEF Promise!Next
    <3>3. CASE ~isLast
      <4>1. Stutter  BY <2>1, <3>1, <3>3
      <4> QED  BY <1>s, <4>1
    <3> QED  BY <3>2, <3>3
  <2> QED  BY <2>1, <2>2, <2>3
<1> QED  BY <1>1, <1>2, <1>3, <1>4 DEF Next, SendStep, RecvStep

\* On every ladder the transfer implements the stream its two applications
\* are promised, until a re-cut overlaps: taking a last chunk is Deliver,
\* accepting its ACK is Return, running out of attempts is Break, all else
\* stutters.
THEOREM StreamImplemented == Spec => ImplementsStream
<1>1. Init => Promise!Init
  BY DEF Init, Promise!Init
<1>2. TypeInv /\ SeqInv /\ DataInv /\ [Next]_vars
        => [~overlapped => [Promise!Next]_(Promise!vars)]_vars
  BY StreamStep
<1> QED  BY <1>1, <1>2, DataHolds, PTL DEF Spec, ImplementsStream
=============================================================================
