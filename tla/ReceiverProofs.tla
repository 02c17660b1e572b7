--------------------------- MODULE ReceiverProofs ---------------------------
(***************************************************************************)
(* Proofs about Receiver, for every layout of frames and every size of     *)
(* buffer, ring, guard and search block: the types; that what the decode   *)
(* thread retains is one unbroken capture; that frames are delivered once  *)
(* and in order; and that none is passed over.                             *)
(*                                                                         *)
(* OneCapture alone is not inductive.  Unbroken says of the buffer, and of *)
(* the ring while their generations agree, that the capture runs on        *)
(* without a splice to the last sample appended; Continues that the next   *)
(* chunk continues it.                                                     *)
(*                                                                         *)
(* OnceInv: recorded instants rise, so a frame begins at one position of   *)
(* the tape, and what was delivered lies before the ring.  PassInv: within *)
(* a capture positions and instants keep their distance, so a frame has a  *)
(* place before its samples are there; a frame that may still be decoded   *)
(* has it behind the front; and a round begins with one whole frame at     *)
(* most, takes it, and takes nothing else.  WholeInv says the same of      *)
(* control frames that are damaged: each is skipped in the round in which  *)
(* it is whole, before the next one's sync could be preferred to a sound   *)
(* frame in between.                                                       *)
(***************************************************************************)
EXTENDS Receiver, WellFoundedInduction, TLAPS

\* What round and stream are made of; the ring's samples are Faithful's business.
RoundShape ==
  /\ round = [pending |-> round.pending, misses |-> round.misses,
              frame |-> round.frame, end |-> round.end]
  /\ round.pending \in BOOLEAN /\ round.end \in Int
  /\ \A m \in round.misses : m \in Int /\ m >= -Guard

StreamShape ==
  /\ stream = [generation |-> stream.generation, start |-> stream.start, end |-> stream.end,
               cursor |-> stream.cursor, candidates |-> stream.candidates,
               attempted |-> stream.attempted, ring |-> stream.ring]
  /\ stream.generation \in Int /\ stream.generation <= generation
  /\ stream.start \in Nat /\ stream.end \in Nat /\ stream.cursor \in Nat
  /\ stream.candidates \subseteq Nat /\ DOMAIN stream.ring = 0 .. Capacity - 1
  /\ stream.start <= stream.end /\ stream.end <= RxEnd
  /\ stream.end - stream.start <= Capacity

Recording ==
  /\ layout \in Layouts /\ air \in 0 .. AirTime
  /\ overflows \in Nat /\ sends \in Nat /\ overflows + sends <= MaxBreaks
  /\ chunk = <<>> \/ \E i \in 0 .. AirTime : chunk = <<i>>
  /\ tape \in Seq(0 .. AirTime) /\ RxEnd + Len(chunk) <= air
  /\ held \in Nat /\ held <= RxEnd /\ held <= Capacity + 1 /\ generation \in Nat

Stages ==
  /\ sender \in {"idle", "raised", "onAir", "cleared"}
  /\ decoder \in {"poll", "control", "data", "accept", "take", "over"} /\ retry \in BOOLEAN

Types == Recording /\ Stages /\ StreamShape /\ RoundShape

Follows(a, b) == a = Own \/ b = Own \/ b = a + 1

\* The tape from this position on is one capture, and so is what comes next.
Unbroken(from) == \A p \in from .. RxEnd - 2 : Follows(tape[p + 1], tape[p + 2])
Continues(from) ==
  from < RxEnd => IF chunk = <<>> THEN tape[RxEnd] \in {Own, air}
                                  ELSE Follows(tape[RxEnd], chunk[1])

Current == stream.generation = generation

Captured ==
  /\ chunk # <<>> => chunk[1] \in {Own, air}
  /\ Unbroken(BufferStart) /\ Continues(BufferStart)
  /\ Current => Unbroken(stream.start) /\ Continues(stream.start)

Faithful == \A p \in Retained : At(p) = tape[p + 1]
Seamless == \A p \in stream.start .. stream.end - 2 : Follows(tape[p + 1], tape[p + 2])

CaptureInv == Types /\ Captured /\ Faithful /\ Seamless

----------------------------------------------------------------------------
(* Arithmetic of the ring *)

\* Two positions in one slot are a whole turn of the ring apart.
LEMMA OneTurn ==
  ASSUME NEW p \in Nat, NEW q \in Nat, NEW C \in Nat \ {0}, p % C = q % C, p < q
  PROVE  p + C <= q
<1>1. p = C * (p \div C) + (p % C) /\ q = C * (q \div C) + (q % C) OBVIOUS
<1>2. p \div C \in Int /\ q \div C \in Int OBVIOUS
<1> DEFINE d == q \div C - p \div C
<1>3. d \in Int BY <1>2
<1>4. q - p = C * d BY <1>1, <1>2
<1>5. d >= 1 BY <1>3, <1>4
<1>6. C * d >= C BY <1>3, <1>5
<1> QED BY <1>4, <1>6

\* A set of integers bounded below has a least element, which Min is.
LEMMA MinIsIn ==
  ASSUME NEW S \in SUBSET Int, NEW b \in Int, \A x \in S : x >= b, S # {}
  PROVE  Min(S) \in S
<1> DEFINE T == {x - b : x \in S}
           R == OpToRel(<, Nat)
<1>1. IsWellFoundedOn(R, Nat) BY NatLessThanWellFounded
<1>2. \A x, y \in Nat : x < y => <<x, y>> \in R BY DEF OpToRel
<1>3. T \subseteq Nat /\ T # {}
  <2>1. \A x \in S : x - b \in Nat OBVIOUS
  <2>2. T # {} OBVIOUS
  <2> QED BY <2>1, <2>2
<1>4. PICK t \in T : \A u \in T : ~ (<<u, t>> \in R)
  <2> HIDE DEF R, T
  <2> QED BY <1>1, <1>3, WFMin
<1>5. PICK m \in S : t = m - b OBVIOUS
<1>6. ASSUME NEW y \in S PROVE m <= y
  <2>1. y - b \in T /\ y - b \in Nat /\ t \in Nat BY <1>3
  <2>2. ~ (<<y - b, t>> \in R) BY <1>4, <2>1
  <2>3. ~ (y - b < t)
    <3> HIDE DEF R
    <3> QED BY <1>2, <2>1, <2>2
  <2> QED BY <2>1, <2>3, <1>5
<1> QED BY <1>6 DEF Min

\* After append the ring holds the tape where it was written, and what it held
\* where it was not.
LEMMA RingHolds ==
  ASSUME NEW ring, DOMAIN ring = 0 .. Capacity - 1, tape \in Seq(0 .. AirTime),
         NEW from \in Nat, from <= RxEnd,
         NEW p \in Nat, p < RxEnd, p >= RxEnd - Capacity
  PROVE  Written(ring, from, RxEnd)[Slot(p)] = IF p >= from THEN tape[p + 1] ELSE ring[Slot(p)]
<1> DEFINE fresh == {q \in from .. RxEnd - 1 : Slot(q) = Slot(p)}
<1>0. RxEnd \in Nat /\ Capacity \in Nat \ {0} BY ReceiverAssumption DEF RxEnd
<1>1. Slot(p) \in 0 .. Capacity - 1 BY <1>0 DEF Slot
<1>2. Written(ring, from, RxEnd)[Slot(p)]
        = IF fresh = {} THEN ring[Slot(p)] ELSE tape[Max(fresh) + 1]
  BY <1>1 DEF Written
<1>3. ASSUME NEW q \in fresh PROVE q <= p
  <2>1. q \in Nat /\ q < RxEnd /\ q % Capacity = p % Capacity BY <1>0 DEF Slot
  <2>2. p < q => p + Capacity <= q BY <1>0, <2>1, OneTurn
  <2> QED BY <1>0, <2>1, <2>2
<1>4. CASE p >= from
  <2>1. p \in fresh BY <1>0, <1>4
  <2>2. Max(fresh) = p
    <3>1. \A x \in fresh : x \in Int BY <1>0
    <3>2. p >= p /\ \A y \in fresh : p >= y BY <1>3, <3>1
    <3>3. ASSUME NEW x \in fresh, \A y \in fresh : x >= y PROVE x = p
      <4>1. x \in Int /\ x <= p /\ x >= p BY <1>3, <2>1, <3>1, <3>3
      <4> QED BY <4>1
    <3> HIDE DEF fresh
    <3> QED BY <2>1, <3>2, <3>3 DEF Max
  <2> QED BY <1>2, <1>4, <2>1, <2>2
<1>5. CASE p < from
  <2>1. fresh = {}
    <3>1. ASSUME NEW q \in fresh PROVE FALSE
      <4>1. q \in Nat /\ p < q /\ q < RxEnd /\ q % Capacity = p % Capacity BY <1>0, <1>5 DEF Slot
      <4>2. q <= p BY <1>3
      <4> QED BY <4>1, <4>2
    <3> QED BY <3>1
  <2> QED BY <1>2, <1>5, <2>1
<1> QED BY <1>4, <1>5

----------------------------------------------------------------------------
LEMMA InitCaptured == Init => CaptureInv
<1> SUFFICES ASSUME Init PROVE CaptureInv OBVIOUS
<1>1. 0 \in 0 .. AirTime /\ MaxBreaks >= 0 BY ReceiverAssumption
<1>2. Recording BY <1>1, ReceiverAssumption DEF Init, Recording, RxEnd
<1>3. Stages BY DEF Init, Stages
<1>4. StreamShape BY ReceiverAssumption DEF Init, StreamShape, RxEnd
<1>5. RoundShape BY DEF Init, RoundShape, NewRound
<1>6. Captured
  BY DEF Init, Captured, Current, Unbroken, Continues, BufferStart, RxEnd
<1>7. Faithful /\ Seamless BY DEF Init, Faithful, Seamless, Retained
<1> QED BY <1>2, <1>3, <1>4, <1>5, <1>6, <1>7 DEF CaptureInv, Types

\* Clearing leaves a buffer that begins nowhere yet, under a generation of its
\* own.
LEMMA ClearedCaptured ==
  ASSUME CaptureInv, held' = 0, generation' = generation + 1, UNCHANGED <<tape, stream>>,
         chunk' # <<>> => chunk'[1] \in {Own, air'}
  PROVE  Captured'
<1>1. ~Current' BY DEF Current, CaptureInv, Types, StreamShape, Recording
<1>2. Unbroken(BufferStart)' /\ Continues(BufferStart)'
  <2>1. Len(tape') \in Nat BY DEF CaptureInv, Types, Recording
  <2> QED BY <2>1 DEF Unbroken, Continues, BufferStart, RxEnd
<1> QED BY <1>1, <1>2 DEF Captured

\* The card and the sender
LEMMA CardKeeps ==
  ASSUME CaptureInv, CallbackRecords \/ CallbackOverflows
  PROVE  CaptureInv'
<1>0. UNCHANGED <<layout, tape, own, thread>> /\ chunk = <<>>
  BY DEF CallbackRecords, CallbackOverflows, buffer, Dropped, Clear
<1>1. UNCHANGED <<stream, round, RxEnd>> BY <1>0 DEF thread, RxEnd
<1>2. /\ air' \in 0 .. AirTime /\ air' >= air + 1
      /\ chunk' = <<Own>> \/ chunk' = <<air'>>
  <2>0. air \in Nat /\ AirTime \in Nat BY ReceiverAssumption DEF CaptureInv, Types, Recording
  <2>1. CASE CallbackRecords BY <2>0, <2>1 DEF CallbackRecords, Recorded
  <2>2. CASE CallbackOverflows BY <2>0, <2>2 DEF CallbackOverflows
  <2> QED BY <2>1, <2>2
<1>3. \/ UNCHANGED <<held, generation, overflows>> /\ air' = air + 1
      \/ /\ held' = 0 /\ generation' = generation + 1
         /\ overflows' = overflows + 1 /\ overflows + sends < MaxBreaks
  BY DEF CallbackRecords, CallbackOverflows, buffer, Dropped, Clear
<1>4. Recording'
  <2>1. chunk' = <<>> \/ \E i \in 0 .. AirTime : chunk' = <<i>>
    BY <1>2, ReceiverAssumption DEF Own
  <2>2. RxEnd' + Len(chunk') <= air'
    <3>1. RxEnd \in Nat /\ RxEnd <= air /\ air \in Nat
      BY <1>0 DEF CaptureInv, Types, Recording, RxEnd
    <3>2. Len(chunk') = 1 BY <1>2
    <3>3. air' \in Nat BY <1>2
    <3> QED BY <1>1, <1>2, <3>1, <3>2, <3>3
  <2>3. /\ overflows' \in Nat /\ overflows' + sends' <= MaxBreaks /\ UNCHANGED <<layout, tape, sends>>
    BY <1>0, <1>3, ReceiverAssumption DEF own, CaptureInv, Types, Recording
  <2>4. held' \in Nat /\ held' <= RxEnd' /\ held' <= Capacity + 1 /\ generation' \in Nat
    BY <1>1, <1>3, ReceiverAssumption DEF CaptureInv, Types, Recording, RxEnd
  <2> QED
    BY <1>2, <2>1, <2>2, <2>3, <2>4 DEF CaptureInv, Types, Recording
<1>5. Stages' /\ StreamShape' /\ RoundShape' /\ Faithful' /\ Seamless'
  <2>1. Stages' BY <1>0 DEF CaptureInv, Types, Stages, own, thread
  <2>2. StreamShape'
    BY <1>1, <1>3 DEF CaptureInv, Types, StreamShape, Recording
  <2>3. RoundShape' BY <1>1 DEF CaptureInv, Types, RoundShape
  <2>4. Faithful' /\ Seamless'
    BY <1>0, <1>1 DEF CaptureInv, Faithful, Seamless, Retained, At
  <2> QED BY <2>1, <2>2, <2>3, <2>4
<1>6. Captured'
  <2>1. chunk'[1] \in {Own, air'} BY <1>2
  <2>2. CASE UNCHANGED <<held, generation, overflows>> /\ air' = air + 1
    <3>1. BufferStart' = BufferStart /\ (Current' <=> Current)
      BY <1>1, <2>2 DEF BufferStart, Current
    <3>2. \A from : Unbroken(from) => Unbroken(from)' BY <1>0, <1>1 DEF Unbroken
    <3>3. ASSUME NEW from, Continues(from) PROVE Continues(from)'
      <4>1. CASE from < RxEnd
        <5>1. tape[RxEnd] \in {Own, air} BY <1>0, <3>3, <4>1 DEF Continues
        <5>2. Follows(tape[RxEnd], chunk'[1])
          BY <2>1, <2>2, <5>1 DEF Follows
        <5> QED BY <1>0, <1>1, <1>2, <5>2 DEF Continues
      <4>2. CASE ~(from < RxEnd) BY <1>1, <4>2 DEF Continues
      <4> QED BY <4>1, <4>2
    <3> QED BY <1>1, <1>2, <2>1, <3>1, <3>2, <3>3 DEF CaptureInv, Captured
  <2>3. CASE held' = 0 /\ generation' = generation + 1
    BY <1>0, <1>1, <2>1, <2>3, ClearedCaptured
  <2> QED BY <1>3, <2>2, <2>3
<1> QED BY <1>4, <1>5, <1>6 DEF CaptureInv, Types

LEMMA SenderKeeps ==
  ASSUME CaptureInv, SendBegins \/ SendClears \/ SendReturns
  PROVE  CaptureInv'
<1>0. UNCHANGED <<layout, card, tape, thread>>
  BY DEF SendBegins, SendClears, SendReturns, Clear, buffer
<1>1. UNCHANGED <<stream, round, RxEnd, air, chunk, overflows>> BY <1>0 DEF thread, card, RxEnd
<1>2. sends' \in Nat /\ overflows + sends' <= MaxBreaks
  BY ReceiverAssumption DEF SendBegins, SendClears, SendReturns, own, CaptureInv, Types, Recording
<1>3. UNCHANGED <<held, generation>> \/ (held' = 0 /\ generation' = generation + 1)
  BY DEF SendBegins, SendClears, SendReturns, Clear, buffer
<1>4. Recording'
  <2>1. held' \in Nat /\ held' <= RxEnd' /\ held' <= Capacity + 1 /\ generation' \in Nat
    BY <1>1, <1>3, ReceiverAssumption DEF CaptureInv, Types, Recording, RxEnd
  <2>2. RxEnd' + Len(chunk') <= air' BY <1>1 DEF CaptureInv, Types, Recording
  <2> QED BY <1>0, <1>1, <1>2, <2>1, <2>2 DEF CaptureInv, Types, Recording
<1>5. Stages' /\ RoundShape' /\ StreamShape' /\ Faithful' /\ Seamless'
  <2>1. Stages'
    BY <1>0 DEF SendBegins, SendClears, SendReturns, CaptureInv, Types, Stages, thread
  <2>2. StreamShape' BY <1>1, <1>3 DEF CaptureInv, Types, StreamShape, Recording
  <2>3. RoundShape' BY <1>1 DEF CaptureInv, Types, RoundShape
  <2>4. Faithful' /\ Seamless'
    BY <1>0, <1>1 DEF CaptureInv, Faithful, Seamless, Retained, At
  <2> QED BY <2>1, <2>2, <2>3, <2>4
<1>6. Captured'
  <2>1. CASE UNCHANGED <<held, generation>>
    BY <1>0, <1>1, <2>1
    DEF CaptureInv, Captured, Current, Unbroken, Continues, BufferStart, RxEnd
  <2>2. CASE held' = 0 /\ generation' = generation + 1
    BY <1>0, <1>1, <2>2, ClearedCaptured DEF CaptureInv, Captured
  <2> QED BY <1>3, <2>1, <2>2
<1> QED BY <1>4, <1>5, <1>6 DEF CaptureInv, Types

LEMMA AppendKeeps == ASSUME CaptureInv, CallbackAppends PROVE CaptureInv'
<1>0. UNCHANGED <<layout, air, overflows, generation, own, thread>> /\ chunk' = <<>>
  BY DEF CallbackAppends
<1>1. PICK i \in 0 .. AirTime : chunk = <<i>>
  BY DEF CallbackAppends, CaptureInv, Types, Recording
<1>2. i \in {Own, air} BY <1>1 DEF CaptureInv, Captured
<1>3. /\ tape' = Append(tape, i) /\ tape' \in Seq(0 .. AirTime)
      /\ RxEnd \in Nat /\ RxEnd' = RxEnd + 1 /\ tape'[RxEnd'] = i
      /\ \A p \in 1 .. RxEnd : tape'[p] = tape[p]
  BY <1>1 DEF CallbackAppends, CaptureInv, Types, Recording, RxEnd
<1>4. held' \in {held, held + 1} /\ held' <= Capacity + 1
  BY ReceiverAssumption DEF CallbackAppends, Smaller, CaptureInv, Types, Recording
<1>5. Recording'
  <2>1. RxEnd' + Len(chunk') <= air'
    <3>1. Len(chunk) = 1 /\ Len(chunk') = 0 BY <1>0, <1>1
    <3> QED BY <1>0, <1>3, <3>1 DEF CaptureInv, Types, Recording
  <2>2. held' \in Nat /\ held' <= RxEnd' BY <1>3, <1>4 DEF CaptureInv, Types, Recording
  <2> QED BY <1>0, <1>3, <1>4, <2>1, <2>2 DEF CaptureInv, Types, Recording, own
<1>6. Stages' /\ RoundShape' BY <1>0 DEF CaptureInv, Types, Stages, RoundShape, own, thread
<1>7. StreamShape' BY <1>0, <1>3 DEF CaptureInv, Types, StreamShape, thread
<1>8. Faithful' /\ Seamless'
  <2>1. stream' = stream /\ stream.start \in Nat /\ stream.end \in Nat /\ stream.end <= RxEnd
    BY <1>0 DEF CaptureInv, Types, StreamShape, thread
  <2>2. \A p \in Retained : p + 1 \in 1 .. RxEnd BY <1>3, <2>1 DEF Retained
  <2>3. \A p \in stream.start .. stream.end - 2 : p + 1 \in 1 .. RxEnd /\ p + 2 \in 1 .. RxEnd
    BY <1>3, <2>1
  <2>4. Faithful' BY <1>3, <2>1, <2>2 DEF CaptureInv, Faithful, Retained, At
  <2>5. Seamless' BY <1>3, <2>1, <2>3 DEF CaptureInv, Seamless
  <2> QED BY <2>4, <2>5
<1>9. Captured'
  <2>1. ASSUME NEW from \in Nat, Unbroken(from), Continues(from)
        PROVE  Unbroken(from)' /\ Continues(from)'
    <3>1. ASSUME NEW p \in from .. RxEnd' - 2 PROVE Follows(tape'[p + 1], tape'[p + 2])
      <4>1. CASE p < RxEnd - 1
        <5>1. tape'[p + 1] = tape[p + 1] /\ tape'[p + 2] = tape[p + 2]
          <6>1. p + 1 \in 1 .. RxEnd /\ p + 2 \in 1 .. RxEnd BY <1>3, <2>1, <3>1, <4>1
          <6> QED BY <1>3, <6>1
        <5>2. p \in from .. RxEnd - 2 BY <1>3, <2>1, <3>1, <4>1
        <5> QED BY <2>1, <5>1, <5>2 DEF Unbroken
      <4>2. CASE p = RxEnd - 1
        <5>1. tape'[p + 1] = tape[RxEnd] /\ tape'[p + 2] = i
          <6>1. p + 1 = RxEnd /\ p + 2 = RxEnd' /\ p + 1 \in 1 .. RxEnd
            BY <1>3, <2>1, <3>1, <4>2
          <6> QED BY <1>3, <6>1
        <5>2. Follows(tape[RxEnd], i) BY <1>1, <1>3, <2>1, <3>1, <4>2 DEF Continues
        <5> QED BY <5>1, <5>2
      <4>3. p < RxEnd - 1 \/ p = RxEnd - 1 BY <1>3, <2>1, <3>1
      <4> QED BY <4>1, <4>2, <4>3
    <3>2. Unbroken(from)' BY <3>1 DEF Unbroken
    <3>3. Continues(from)' BY <1>0, <1>2, <1>3 DEF Continues
    <3> QED BY <3>2, <3>3
  <2>2. BufferStart \in Nat /\ BufferStart' \in {BufferStart, BufferStart + 1}
    <3>1. held \in Nat /\ held <= RxEnd BY DEF CaptureInv, Types, Recording
    <3>2. CASE held' = held BY <1>3, <3>1, <3>2 DEF BufferStart
    <3>3. CASE held' = held + 1 BY <1>3, <3>1, <3>3 DEF BufferStart
    <3> QED BY <1>4, <3>2, <3>3
  <2>3. \A from \in Nat : Unbroken(from) => Unbroken(from + 1)
    BY <1>3 DEF Unbroken
  <2>4. \A from \in Nat : Continues(from) => Continues(from + 1)
    BY <1>3 DEF Continues
  <2>5. Unbroken(BufferStart') /\ Continues(BufferStart')
    BY <2>2, <2>3, <2>4 DEF CaptureInv, Captured
  <2>6. Unbroken(BufferStart)' /\ Continues(BufferStart)'
    BY <2>1, <2>2, <2>5
  <2>7. Current' => Unbroken(stream.start)' /\ Continues(stream.start)'
    BY <1>0, <2>1 DEF Current, CaptureInv, Captured, thread, Types, StreamShape
  <2> QED BY <1>0, <2>6, <2>7 DEF Captured
<1> QED BY <1>5, <1>6, <1>7, <1>8, <1>9 DEF CaptureInv, Types

----------------------------------------------------------------------------
(* The decode thread *)

\* Unbroken and Continues of a position hold of every later one.
LEMMA Later ==
  ASSUME CaptureInv, NEW a \in Nat, NEW b \in Nat, a <= b
  PROVE  /\ Unbroken(a) => Unbroken(b)
         /\ Continues(a) => Continues(b)
<1>1. RxEnd \in Nat BY DEF CaptureInv, Types, Recording, RxEnd
<1>2. Unbroken(a) => Unbroken(b) BY <1>1 DEF Unbroken
<1>3. Continues(a) => Continues(b) BY <1>1 DEF Continues
<1> QED BY <1>2, <1>3

\* What steps that only move the front of buffer and ring preserve.
LEMMA ConsumeKeeps ==
  ASSUME CaptureInv, NEW end \in Int, Consume(end), UNCHANGED <<layout, card, own>>
  PROVE  Recording' /\ StreamShape' /\ Captured' /\ Faithful' /\ Seamless'
<1>0. UNCHANGED <<layout, air, chunk, overflows, sends, tape, generation, RxEnd>>
  BY DEF Consume, card, own, RxEnd
<1>1. RxEnd \in Nat /\ held \in Nat /\ held <= RxEnd /\ BufferStart \in Nat
  BY DEF CaptureInv, Types, Recording, RxEnd, BufferStart
<1>2. held' \in Nat /\ held' <= held
  BY <1>1 DEF Consume, ConsumeThrough, Smaller, Larger
<1>3. stream.start \in Nat /\ stream.end \in Nat /\ stream.start <= stream.end
  BY DEF CaptureInv, Types, StreamShape
<1>4. PICK start \in Nat : /\ stream' = [stream EXCEPT !.start = start]
                           /\ stream.start <= start /\ start <= stream.end
  <2> DEFINE start == Smaller(stream.end, Larger(stream.start, end))
  <2>1. start \in Nat /\ stream.start <= start /\ start <= stream.end
    BY <1>3 DEF Smaller, Larger
  <2>2. stream' = [stream EXCEPT !.start = start] BY DEF Consume, Discard
  <2> QED BY <2>1, <2>2
<1>5. /\ stream'.start = start
      /\ stream'.end = stream.end /\ stream'.ring = stream.ring
      /\ stream'.generation = stream.generation
      /\ stream'.cursor = stream.cursor /\ stream'.candidates = stream.candidates
      /\ stream'.attempted = stream.attempted
      /\ stream' = [generation |-> stream'.generation, start |-> stream'.start,
                    end |-> stream'.end, cursor |-> stream'.cursor,
                    candidates |-> stream'.candidates, attempted |-> stream'.attempted,
                    ring |-> stream'.ring]
  BY <1>4 DEF CaptureInv, Types, StreamShape
<1>6. Recording'
  <2>1. held' <= RxEnd' /\ held' <= Capacity + 1
    BY <1>0, <1>1, <1>2, ReceiverAssumption DEF CaptureInv, Types, Recording
  <2>2. RxEnd' + Len(chunk') <= air' BY <1>0 DEF CaptureInv, Types, Recording
  <2> QED BY <1>0, <1>2, <2>1, <2>2 DEF CaptureInv, Types, Recording
<1>7. StreamShape'
  <2>1. stream'.end - stream'.start <= Capacity
    <3>1. Capacity \in Int /\ stream.end - stream.start <= Capacity
      BY ReceiverAssumption DEF CaptureInv, Types, StreamShape
    <3>2. ASSUME NEW a \in Int, NEW b \in Int, NEW e \in Int, NEW c \in Int,
                 a <= b, e - a <= c
          PROVE  e - b <= c
      BY <3>2
    <3>3. stream.end - start <= Capacity BY <1>3, <1>4, <3>1, <3>2
    <3> QED BY <1>5, <3>3
  <2> QED BY <1>0, <1>4, <1>5, <2>1 DEF CaptureInv, Types, StreamShape
<1>8. Faithful'
  <2>1. Retained' \subseteq Retained BY <1>3, <1>4, <1>5 DEF Retained
  <2>2. \A p \in Retained' : At(p)' = At(p) BY <1>5 DEF At
  <2> QED BY <1>0, <2>1, <2>2 DEF CaptureInv, Faithful
<1>9. Seamless' BY <1>0, <1>3, <1>4, <1>5 DEF CaptureInv, Seamless
<1>10. Captured'
  <2>1. \A from : (Unbroken(from) => Unbroken(from)') /\ (Continues(from) => Continues(from)')
    BY <1>0 DEF Unbroken, Continues, RxEnd
  <2>2. BufferStart' \in Nat /\ BufferStart <= BufferStart'
    <3>1. ASSUME NEW n \in Nat, NEW h \in Nat, NEW k \in Nat, k <= h, h <= n
          PROVE  n - k \in Nat /\ n - h <= n - k
      BY <3>1
    <3>2. RxEnd - held' \in Nat /\ RxEnd - held <= RxEnd - held' BY <1>1, <1>2, <3>1
    <3> QED BY <1>0, <3>2 DEF BufferStart
  <2>3. Unbroken(BufferStart') /\ Continues(BufferStart')
    BY <1>1, <2>2, Later DEF CaptureInv, Captured
  <2>4. Unbroken(BufferStart)' /\ Continues(BufferStart)' BY <2>1, <2>3
  <2>5. Current' => Unbroken(start) /\ Continues(start)
    BY <1>0, <1>3, <1>4, <1>5, Later DEF CaptureInv, Captured, Current
  <2>6. Current' => Unbroken(stream.start)' /\ Continues(stream.start)'
    BY <1>5, <2>1, <2>5
  <2>7. chunk' # <<>> => chunk'[1] \in {Own, air'} BY <1>0 DEF CaptureInv, Captured
  <2> QED BY <2>4, <2>6, <2>7 DEF Captured
<1> QED BY <1>6, <1>7, <1>8, <1>9, <1>10

\* Steps that leave buffer, ring and air alone
LEMMA SameAudio ==
  ASSUME CaptureInv, UNCHANGED <<layout, card, own, buffer>>,
         UNCHANGED <<stream.generation, stream.start, stream.end, stream.ring>>
  PROVE  Recording' /\ Captured' /\ Faithful' /\ Seamless'
<1>0. UNCHANGED <<layout, air, chunk, overflows, sends, tape, held, generation, RxEnd>>
  BY DEF buffer, card, own, RxEnd
<1>1. Recording' BY <1>0 DEF CaptureInv, Types, Recording
<1>2. Captured'
  BY <1>0 DEF CaptureInv, Captured, Unbroken, Continues, Current, BufferStart, RxEnd
<1>3. Faithful' /\ Seamless' BY <1>0 DEF CaptureInv, Faithful, Seamless, Retained, At
<1> QED BY <1>1, <1>2, <1>3

LEMMA ControlKeeps == ASSUME CaptureInv, TryControl PROVE CaptureInv'
<1>0. UNCHANGED <<layout, card, own, buffer, stream, retry, sender>>
  BY DEF TryControl, own
<1>1. Recording' /\ Captured' /\ Faithful' /\ Seamless' BY <1>0, SameAudio
<1>2. Stages' BY <1>0 DEF TryControl, CaptureInv, Types, Stages
<1>3. StreamShape'
  BY <1>0 DEF CaptureInv, Types, StreamShape, buffer, RxEnd
<1>4. RoundShape'
  <2>0. RoundShape /\ Length["control"] \in Int /\ Sync \in Nat /\ Guard \in Nat
    BY ReceiverAssumption DEF CaptureInv, Types
  <2>1. \/ UNCHANGED round
        \/ \E p \in Retained : \E f :
             \/ round' = [round EXCEPT !.pending = TRUE]
             \/ round' = [round EXCEPT !.frame = {f}, !.end = p + Length["control"],
                                       !.misses = {p + Sync}]
             \/ round' = [round EXCEPT !.misses = {p + Sync}]
    BY DEF TryControl
  <2>2. ASSUME NEW p \in Retained PROVE p \in Nat /\ p + Sync \in Int /\ p + Sync >= -Guard
    BY <2>0, <2>2 DEF Retained, CaptureInv, Types, StreamShape
  <2>3. CASE UNCHANGED round BY <2>0, <2>3 DEF RoundShape
  <2>4. ASSUME NEW p \in Retained, NEW f,
               \/ round' = [round EXCEPT !.pending = TRUE]
               \/ round' = [round EXCEPT !.frame = {f}, !.end = p + Length["control"],
                                         !.misses = {p + Sync}]
               \/ round' = [round EXCEPT !.misses = {p + Sync}]
        PROVE  RoundShape'
    <3>1. /\ round'.pending \in {TRUE, round.pending}
          /\ round'.end \in {round.end, p + Length["control"]}
          /\ round'.misses \in {round.misses, {p + Sync}}
          /\ round' = [pending |-> round'.pending, misses |-> round'.misses,
                       frame |-> round'.frame, end |-> round'.end]
      BY <2>0, <2>4 DEF RoundShape
    <3>2. round'.end \in Int BY <2>0, <2>2, <3>1 DEF RoundShape
    <3>3. \A m \in round'.misses : m \in Int /\ m >= -Guard BY <2>0, <2>2, <3>1 DEF RoundShape
    <3> QED BY <2>0, <3>1, <3>2, <3>3 DEF RoundShape
  <2> QED BY <2>1, <2>3, <2>4
<1> QED BY <1>1, <1>2, <1>3, <1>4 DEF CaptureInv, Types

LEMMA AcceptKeeps == ASSUME CaptureInv, Accept PROVE CaptureInv'
<1>0. UNCHANGED <<layout, card, own, buffer, stream, retry, sender>> BY DEF Accept, own
<1>1. Recording' /\ Captured' /\ Faithful' /\ Seamless' BY <1>0, SameAudio
<1>2. Stages' BY <1>0 DEF Accept, CaptureInv, Types, Stages
<1>3. StreamShape' BY <1>0 DEF CaptureInv, Types, StreamShape, buffer, RxEnd
<1>4. RoundShape'
  <2>1. round' = round \/ round' = [round EXCEPT !.frame = {}] BY DEF Accept
  <2> QED BY <2>1 DEF CaptureInv, Types, RoundShape
<1> QED BY <1>1, <1>2, <1>3, <1>4 DEF CaptureInv, Types

LEMMA TakeKeeps == ASSUME CaptureInv, Take PROVE CaptureInv'
<1>0. UNCHANGED <<layout, card, own, round, sender>> /\ Consume(round.end) BY DEF Take, own
<1>1. round.end \in Int BY DEF CaptureInv, Types, RoundShape
<1>2. Recording' /\ StreamShape' /\ Captured' /\ Faithful' /\ Seamless'
  BY <1>0, <1>1, ConsumeKeeps
<1>3. Stages' BY <1>0 DEF Take, CaptureInv, Types, Stages
<1>4. RoundShape' BY <1>0 DEF CaptureInv, Types, RoundShape
<1> QED BY <1>2, <1>3, <1>4 DEF CaptureInv, Types

LEMMA OverKeeps == ASSUME CaptureInv, Over PROVE CaptureInv'
<1>0. UNCHANGED <<layout, card, own, round, sender>> BY DEF Over, own
<1>1. Stages' BY <1>0 DEF Over, CaptureInv, Types, Stages
<1>2. RoundShape' BY <1>0 DEF CaptureInv, Types, RoundShape
<1>3. CASE \E end \in Int : Consume(end)
  BY <1>0, <1>1, <1>2, <1>3, ConsumeKeeps DEF CaptureInv, Types
<1>4. CASE UNCHANGED <<buffer, stream>>
  <2>1. StreamShape' BY <1>4 DEF CaptureInv, Types, StreamShape, buffer, RxEnd
  <2> QED BY <1>0, <1>1, <1>2, <1>4, <2>1, SameAudio DEF CaptureInv, Types
<1>5. round.misses # {} => Min(round.misses) \in Int
  <2>1. round.misses \in SUBSET Int /\ -Guard \in Int /\ \A m \in round.misses : m >= -Guard
    BY ReceiverAssumption DEF CaptureInv, Types, RoundShape
  <2> QED BY <2>1, MinIsIn
<1>6. stream.end - Keep \in Int
  <2>1. stream.end \in Nat BY DEF CaptureInv, Types, StreamShape
  <2>2. Keep \in Nat BY ReceiverAssumption
  <2> QED BY <2>1, <2>2
<1>7. \/ round.misses # {} /\ Consume(Min(round.misses))
      \/ Consume(stream.end - Keep)
      \/ UNCHANGED <<buffer, stream>>
  BY DEF Over
<1>8. UNCHANGED <<buffer, stream>> \/ \E end \in Int : Consume(end)
  BY <1>5, <1>6, <1>7
<1> QED BY <1>3, <1>4, <1>8

\* The search stays within what is retained.
LEMMA SearchedIn ==
  ASSUME StreamShape
  PROVE  Searched.cursor \in Nat /\ Searched.candidates \subseteq Nat
<1> DEFINE from == Larger(stream.cursor, stream.start)
           upto == SearchEnd(from)
           room == Larger(0, stream.end - (from + Preamble - 1 + Guard))
<1>1. from \in Nat BY DEF StreamShape, Larger
<1>2. room \in Nat
  <2> HIDE DEF from
  <2>1. stream.end - (from + Preamble - 1 + Guard) \in Int
    <3>1. stream.end \in Int BY DEF StreamShape
    <3>2. Preamble \in Int /\ Guard \in Int BY ReceiverAssumption
    <3> QED BY <1>1, <3>1, <3>2
  <2> QED BY <2>1 DEF Larger
<1>3. room \div SearchBlock \in Nat /\ SearchBlock \in Nat BY <1>2, ReceiverAssumption
<1>4. upto \in Nat
  <2>1. upto = from + (room \div SearchBlock) * SearchBlock BY DEF SearchEnd
  <2>2. (room \div SearchBlock) * SearchBlock \in Nat
    <3> HIDE DEF room
    <3> QED BY <1>3
  <2> QED BY <1>1, <2>1, <2>2
<1>5. Searched.cursor = upto BY DEF Searched
<1>6. \A c \in Searched.candidates :
        c \in stream.candidates \/ c \in from .. upto - 1
  BY DEF Searched
<1> QED BY <1>1, <1>4, <1>5, <1>6 DEF StreamShape

LEMMA DataKeeps == ASSUME CaptureInv, TryData PROVE CaptureInv'
<1>0. UNCHANGED <<layout, card, own, buffer, retry, sender>> BY DEF TryData, own
<1>1. StreamShape /\ RoundShape BY DEF CaptureInv, Types
<1> DEFINE s == Searched
<1>2. s.cursor \in Nat /\ s.candidates \subseteq Nat BY <1>1, SearchedIn
<1>3. PICK right, tried :
        /\ right \in SUBSET s.candidates
        /\ stream' = [stream EXCEPT !.cursor = s.cursor, !.candidates = s.candidates,
                                    !.attempted = tried]
        /\ \/ /\ right # {}
              /\ \E frame : round' = [round EXCEPT !.frame = frame, !.end = FrameEnd(Min(right)),
                                          !.misses = @ \union {FrameEnd(Min(right))}]
           \/ \E more \in BOOLEAN : round' = [round EXCEPT !.pending = more]
  <2> DEFINE whole == {c \in s.candidates \ stream.attempted : c + Length["data"] <= stream.end}
             decodes(c, f) == f.kind = "data" /\ f.good
                              /\ Hears(c, Peak(f), Length["data"] - f.late)
             right == {c \in whole : \E f \in layout : decodes(c, f)}
             tried == IF right = {} THEN whole ELSE {c \in whole : c <= Min(right)}
             more == round.pending \/ \E c \in s.candidates : c + Length["data"] > stream.end
  <2>1. right \in SUBSET s.candidates OBVIOUS
  <2>2. stream' = [stream EXCEPT !.cursor = s.cursor, !.candidates = s.candidates,
                     !.attempted = {c \in stream.attempted : c >= stream.start} \union tried]
    BY DEF TryData
  <2>3. CASE right # {}
    <3>1. round' = [round EXCEPT !.frame = {f \in layout : decodes(Min(right), f)},
                      !.end = FrameEnd(Min(right)),
                      !.misses = round.misses \union {FrameEnd(Min(right))}]
      BY <2>3 DEF TryData
    <3> HIDE DEF s, right, tried
    <3> QED BY <2>1, <2>2, <2>3, <3>1
  <2>4. CASE right = {}
    <3>1. round' = [round EXCEPT !.pending = more] BY <2>4 DEF TryData
    <3>2. more \in BOOLEAN BY <1>1 DEF RoundShape
    <3> HIDE DEF s, right, tried, more
    <3> QED BY <2>1, <2>2, <3>1, <3>2
  <2> QED BY <2>3, <2>4
<1>4. /\ stream'.cursor = s.cursor /\ stream'.candidates = s.candidates
      /\ UNCHANGED <<stream.generation, stream.start, stream.end, stream.ring>>
      /\ stream' = [generation |-> stream'.generation, start |-> stream'.start,
                    end |-> stream'.end, cursor |-> stream'.cursor,
                    candidates |-> stream'.candidates, attempted |-> stream'.attempted,
                    ring |-> stream'.ring]
  <2> HIDE DEF s
  <2> QED BY <1>1, <1>3 DEF StreamShape
<1>5. StreamShape'
  <2> HIDE DEF s
  <2> QED BY <1>0, <1>1, <1>2, <1>4 DEF StreamShape, buffer, RxEnd
<1>6. Recording' /\ Captured' /\ Faithful' /\ Seamless' BY <1>0, <1>4, SameAudio
<1>7. RoundShape'
  <2> HIDE DEF s
  <2>1. CASE \E more \in BOOLEAN : round' = [round EXCEPT !.pending = more]
    BY <1>1, <2>1 DEF RoundShape
  <2>2. ASSUME right # {}, NEW frame,
               round' = [round EXCEPT !.frame = frame, !.end = FrameEnd(Min(right)),
                                      !.misses = @ \union {FrameEnd(Min(right))}]
        PROVE  RoundShape'
    <3>1. Min(right) \in Nat
      <4>1. right \in SUBSET Int /\ \A x \in right : x >= 0
        <5>1. right \subseteq Nat BY <1>2, <1>3
        <5> QED BY <5>1
      <4>2. Min(right) \in right BY <2>2, <4>1, MinIsIn
      <4> QED BY <1>2, <1>3, <4>2
    <3>2. FrameEnd(Min(right)) \in Int /\ FrameEnd(Min(right)) >= -Guard
      BY <3>1, ReceiverAssumption DEF FrameEnd
    <3>3. /\ round'.pending = round.pending
          /\ round'.end = FrameEnd(Min(right))
          /\ round'.misses = round.misses \union {FrameEnd(Min(right))}
          /\ round' = [pending |-> round'.pending, misses |-> round'.misses,
                       frame |-> round'.frame, end |-> round'.end]
      BY <1>1, <2>2 DEF RoundShape
    <3>4. \A m \in round'.misses : m \in Int /\ m >= -Guard BY <1>1, <3>2, <3>3 DEF RoundShape
    <3> QED BY <1>1, <3>2, <3>3, <3>4 DEF RoundShape
  <2> QED BY <1>3, <2>1, <2>2
<1>8. Stages'
  <2>1. decoder' \in {"accept", "over"} BY DEF TryData
  <2> QED BY <1>0, <2>1 DEF CaptureInv, Types, Stages
<1> QED BY <1>5, <1>6, <1>7, <1>8 DEF CaptureInv, Types

LEMMA ReadKeeps == ASSUME CaptureInv, Read PROVE CaptureInv'
<1>0. /\ UNCHANGED <<layout, card, own, buffer, sender, RxEnd>> /\ round' = NewRound
      /\ retry' \in BOOLEAN /\ decoder' \in {"poll", "control"}
  BY DEF Read, own, buffer, RxEnd, CaptureInv, Types, Stages
<1> DEFINE from == IF stream.generation = generation
                   THEN Smaller(RxEnd, Larger(BufferStart, stream.end))
                   ELSE BufferStart
           s0 == IF Broken(from) THEN from ELSE stream.start
<1>1. /\ RxEnd \in Nat /\ BufferStart \in Nat /\ BufferStart <= RxEnd
      /\ generation \in Nat /\ Capacity \in Nat \ {0}
      /\ tape \in Seq(0 .. AirTime)
  BY ReceiverAssumption DEF CaptureInv, Types, Recording, RxEnd, BufferStart
<1>2. /\ stream.start \in Nat /\ stream.end \in Nat
      /\ stream.start <= stream.end /\ stream.end <= RxEnd
  BY DEF CaptureInv, Types, StreamShape
<1>3. /\ from \in Nat /\ BufferStart <= from /\ from <= RxEnd
      /\ Broken(from) => from = BufferStart
      /\ ~Broken(from) => from = stream.end /\ Current
  BY <1>1, <1>2 DEF Smaller, Larger, Broken, Current
<1>4. stream' = Appended(from) BY DEF Read
<1>5. s0 \in Nat /\ s0 <= RxEnd /\ s0 <= from BY <1>1, <1>2, <1>3
<1>6. /\ stream'.generation = generation /\ stream'.end = RxEnd
      /\ stream'.start = Oldest(s0)
      /\ stream'.ring = Written(stream.ring, from, RxEnd)
      /\ stream'.cursor = (IF Broken(from) THEN from ELSE stream.cursor)
      /\ stream'.candidates = (IF Broken(from) THEN {} ELSE stream.candidates)
      /\ stream' = [generation |-> stream'.generation, start |-> stream'.start,
                    end |-> stream'.end, cursor |-> stream'.cursor,
                    candidates |-> stream'.candidates, attempted |-> stream'.attempted,
                    ring |-> stream'.ring]
  <2> HIDE DEF from
  <2>1. StreamShape BY DEF CaptureInv, Types
  <2>2. CASE Broken(from) BY <1>4, <2>1, <2>2 DEF Appended, StreamShape
  <2>3. CASE ~Broken(from) BY <1>4, <2>1, <2>3 DEF Appended, StreamShape
  <2> QED BY <2>2, <2>3
<1> HIDE DEF from, s0
<1>7. /\ stream'.start \in Nat /\ s0 <= stream'.start /\ stream'.start <= RxEnd
      /\ RxEnd - Capacity <= stream'.start
  BY <1>1, <1>5, <1>6 DEF Oldest, Larger
<1>8. StreamShape'
  <2>1. stream'.cursor \in Nat /\ stream'.candidates \subseteq Nat
    BY <1>3, <1>6 DEF CaptureInv, Types, StreamShape
  <2>2. DOMAIN stream'.ring = 0 .. Capacity - 1
    BY <1>6 DEF Written, CaptureInv, Types, StreamShape
  <2>3. generation' = generation /\ RxEnd' = RxEnd BY <1>0 DEF buffer
  <2> QED BY <1>1, <1>6, <1>7, <2>1, <2>2, <2>3 DEF StreamShape
<1>9. Unbroken(stream'.start) /\ Continues(stream'.start)
  <2>1. Unbroken(s0) /\ Continues(s0) BY <1>3 DEF s0, CaptureInv, Captured
  <2> QED BY <1>5, <1>7, <2>1, Later
<1>10. Captured'
  <2>1. UNCHANGED <<tape, held, generation, chunk, air>> BY <1>0 DEF buffer, card
  <2>2. \A x : (Unbroken(x) => Unbroken(x)') /\ (Continues(x) => Continues(x)')
    BY <2>1 DEF Unbroken, Continues, RxEnd
  <2>3. Unbroken(BufferStart)' /\ Continues(BufferStart)'
    BY <2>1 DEF CaptureInv, Captured, Unbroken, Continues, BufferStart, RxEnd
  <2>4. Unbroken(stream.start)' /\ Continues(stream.start)' BY <1>9, <2>2
  <2> QED BY <2>1, <2>3, <2>4 DEF CaptureInv, Captured
<1>11. Seamless'
  <2>1. \A p \in stream'.start .. RxEnd - 2 : Follows(tape[p + 1], tape[p + 2])
    BY <1>9 DEF Unbroken
  <2>2. UNCHANGED tape BY <1>0 DEF buffer
  <2> QED BY <1>6, <2>1, <2>2 DEF Seamless
<1>12. Faithful'
  <2>1. ASSUME NEW p \in Retained' PROVE stream'.ring[p % Capacity] = tape[p + 1]
    <3>1. p \in Nat /\ p < RxEnd /\ stream'.start <= p /\ p >= RxEnd - Capacity
      BY <1>1, <1>6, <1>7, <2>1 DEF Retained
    <3>2. DOMAIN stream.ring = 0 .. Capacity - 1 BY DEF CaptureInv, Types, StreamShape
    <3>3. stream'.ring[Slot(p)] = IF p >= from THEN tape[p + 1] ELSE stream.ring[Slot(p)]
      BY <1>1, <1>3, <1>6, <3>1, <3>2, RingHolds
    <3>4. CASE p >= from BY <3>3, <3>4 DEF Slot
    <3>5. CASE p < from
      <4>1. ~Broken(from)
        <5>1. Broken(from) => from <= p BY <1>7, <3>1, <1>1, <1>3, <1>5 DEF s0
        <5> QED BY <1>3, <3>1, <3>5, <5>1
      <4>2. p \in Retained
        BY <1>2, <1>3, <1>5, <1>7, <3>1, <3>5, <4>1 DEF Retained, s0
      <4>3. stream.ring[p % Capacity] = tape[p + 1]
        BY <4>2 DEF CaptureInv, Faithful, At
      <4> QED BY <1>3, <3>1, <3>3, <3>5, <4>3 DEF Slot
    <3> QED BY <1>3, <3>1, <3>4, <3>5
  <2>2. UNCHANGED tape BY <1>0 DEF buffer
  <2> QED BY <2>1, <2>2 DEF Faithful, At
<1>13. Recording' /\ Stages' /\ RoundShape'
  <2>1. Recording'
    BY <1>0 DEF CaptureInv, Types, Recording, card, own, buffer
  <2>2. Stages' BY <1>0 DEF CaptureInv, Types, Stages
  <2>3. RoundShape' BY <1>0 DEF RoundShape, NewRound
  <2> QED BY <2>1, <2>2, <2>3
<1> QED BY <1>8, <1>10, <1>11, <1>12, <1>13 DEF CaptureInv, Types

----------------------------------------------------------------------------
LEMMA CaptureKept == CaptureInv /\ [Next]_vars => CaptureInv'
<1> SUFFICES ASSUME CaptureInv, [Next]_vars PROVE CaptureInv' OBVIOUS
<1>1. CASE UNCHANGED vars
  <2>1. UNCHANGED <<layout, card, own, buffer, stream, round, decoder, retry, sender>>
    BY <1>1 DEF vars, thread, own
  <2>2. Stages' /\ RoundShape' BY <2>1 DEF CaptureInv, Types, Stages, RoundShape
  <2>3. StreamShape' BY <2>1 DEF CaptureInv, Types, StreamShape, buffer, RxEnd
  <2> QED BY <2>1, <2>2, <2>3, SameAudio DEF CaptureInv, Types
<1> QED
  BY <1>1, CardKeeps, AppendKeeps, SenderKeeps, ReadKeeps, ControlKeeps, DataKeeps,
     AcceptKeeps, TakeKeeps, OverKeeps DEF Next, Decode

LEMMA CaptureCorrect == Spec => []CaptureInv
<1> QED BY InitCaptured, CaptureKept, PTL DEF Spec

\* The types, and the bounds of buffer and ring (_chunks_len, AudioHistory).
THEOREM ReceiverTypeCorrect == Spec => []TypeOK
<1>1. CaptureInv => TypeOK
  <2> SUFFICES ASSUME CaptureInv PROVE TypeOK OBVIOUS
  <2>1. overflows \in 0 .. MaxBreaks /\ sends \in 0 .. MaxBreaks
    BY ReceiverAssumption DEF CaptureInv, Types, Recording
  <2>2. chunk \in {<<>>} \union {<<i>> : i \in 0 .. AirTime}
    BY DEF CaptureInv, Types, Recording
  <2>3. RxEnd <= air /\ RxEnd \in Nat /\ \A p \in 1 .. RxEnd : tape[p] \in 0 .. AirTime
    <3>1. Len(chunk) \in Nat BY DEF CaptureInv, Types, Recording
    <3>2. RxEnd \in Nat /\ air \in Nat /\ RxEnd + Len(chunk) <= air
      BY DEF CaptureInv, Types, Recording, RxEnd
    <3>3. RxEnd <= air BY <3>1, <3>2
    <3>4. \A p \in 1 .. RxEnd : tape[p] \in 0 .. AirTime
      <4> DEFINE S == 0 .. AirTime
      <4>1. tape \in Seq(S) BY DEF CaptureInv, Types, Recording
      <4> HIDE DEF S
      <4>2. \A p \in 1 .. Len(tape) : tape[p] \in S BY <4>1
      <4> QED BY <4>2 DEF RxEnd, S
    <3> QED BY <3>2, <3>3, <3>4
  <2>4. held \in 0 .. Smaller(RxEnd, Capacity + 1)
    BY <2>3, ReceiverAssumption DEF CaptureInv, Types, Recording, Smaller
  <2>5. stream.start \in 0 .. stream.end /\ stream.end \in 0 .. RxEnd
    BY <2>3 DEF CaptureInv, Types, StreamShape
  <2> QED
    BY <2>1, <2>2, <2>3, <2>4, <2>5 DEF TypeOK, CaptureInv, Types, Recording, Stages, StreamShape
<1> QED BY <1>1, CaptureCorrect, PTL

\* No overflow, clear, wrap of the ring or lagging read ever splices two
\* captures in what the decode thread retains (AudioHistory.append,
\* ReceiveStream.append, _in_callback).
THEOREM AlwaysOneCapture == Spec => []OneCapture
<1>1. CaptureInv => OneCapture
  <2> SUFFICES ASSUME CaptureInv, NEW p \in Retained
               PROVE  /\ At(p) = tape[p + 1]
                      /\ p + 1 \in Retained => Own \in {At(p), At(p + 1)} \/ At(p + 1) = At(p) + 1
    BY DEF OneCapture
  <2>1. \A q \in Retained : At(q) = tape[q + 1] BY DEF CaptureInv, Faithful
  <2>2. ASSUME p + 1 \in Retained PROVE Follows(At(p), At(p + 1))
    <3>1. p \in stream.start .. stream.end - 2 /\ p \in Int
      BY <2>2 DEF Retained, CaptureInv, Types, StreamShape
    <3>2. Follows(tape[p + 1], tape[p + 2]) BY <3>1 DEF CaptureInv, Seamless
    <3>3. At(p) = tape[p + 1] /\ At(p + 1) = tape[(p + 1) + 1] BY <2>1, <2>2
    <3>4. (p + 1) + 1 = p + 2 BY <3>1
    <3> QED BY <3>2, <3>3, <3>4
  <2> QED BY <2>1, <2>2 DEF Follows
<1> QED BY <1>1, CaptureCorrect, PTL

----------------------------------------------------------------------------
(* What is delivered lies behind the ring *)

\* The sample a frame is found by.
First(f) == IF f.kind = "data" THEN Peak(f) ELSE f.at

\* Recorded instants rise, and the next chunk goes on from there.
Rising ==
  /\ \A p, q \in 1 .. RxEnd :
       (p < q /\ tape[p] # Own /\ tape[q] # Own) => tape[p] < tape[q]
  /\ \A p \in 1 .. RxEnd : tape[p] <= air /\ (chunk # <<>> => tape[p] < air)

\* A buffer of another generation begins behind all that was read.
Stale == ~Current => stream.end <= BufferStart

\* What was delivered lies behind the ring's start.
Passed(f) == f \in layout /\ \E p \in 0 .. stream.start - 1 : tape[p + 1] = First(f)
Past == \A i \in DOMAIN delivered : Passed(delivered[i])

\* What is about to be delivered lies in the ring, and is consumed with it.
InHand ==
  decoder \in {"accept", "take"} =>
    \A f \in round.frame :
      f \in layout /\ \E p \in Retained : tape[p + 1] = First(f) /\ p < round.end

\* No frame is delivered twice.
DeliveredOnce ==
  \A i, j \in DOMAIN delivered : delivered[i] = delivered[j] => i = j

OnceInv ==
  /\ CaptureInv
  /\ Rising /\ Stale /\ Past /\ InHand
  /\ delivered \in Seq(layout) /\ DeliveredOnce

----------------------------------------------------------------------------
\* What is on the air.
LEMMA AirFacts ==
  ASSUME CaptureInv
  PROVE  /\ Length["control"] \in Nat \ {0} /\ Length["data"] \in Nat \ {0, 1}
         /\ Sync \in Nat \ {0} /\ Sync <= Length["control"]
         /\ Guard \in Nat \ {0} /\ Guard < Length["data"]
         /\ \A f \in layout :
              /\ f.at \in Nat \ {0} /\ First(f) \in Nat \ {Own} /\ f.good \in BOOLEAN
              /\ f.kind \in {"control", "data"} /\ Length[f.kind] \in Nat \ {0}
              /\ f.at <= First(f) /\ First(f) <= f.at + 1 /\ First(f) < f.at + Length[f.kind]
              /\ f.kind = "control" => First(f) = f.at
              /\ f.late \in {0, 1}
              /\ f.kind = "data" => First(f) = f.at + f.late
         /\ \A f, g \in layout :
              f # g => \/ f.at + Length[f.kind] <= g.at
                       \/ g.at + Length[g.kind] <= f.at
<1>0. layout \in Layouts BY DEF CaptureInv, Types, Recording
<1>1. /\ Length["control"] \in Nat \ {0} /\ Length["data"] \in Nat \ {0}
      /\ Sync \in Nat /\ Guard \in Nat
  BY ReceiverAssumption
<1>2. Sync \in 1 .. Length["control"] /\ Guard \in 1 .. Length["data"] - 1
  BY AirAssumption
<1>3. /\ Length["data"] # 1 /\ Guard # 0 /\ Guard < Length["data"]
      /\ Sync # 0 /\ Sync <= Length["control"]
  BY <1>1, <1>2
<1>4. ASSUME NEW f \in layout
      PROVE  /\ f.at \in Nat \ {0} /\ First(f) \in Nat \ {Own} /\ f.good \in BOOLEAN
             /\ f.kind \in {"control", "data"} /\ Length[f.kind] \in Nat \ {0}
             /\ f.at <= First(f) /\ First(f) <= f.at + 1 /\ First(f) < f.at + Length[f.kind]
             /\ f.kind = "control" => First(f) = f.at
             /\ f.late \in {0, 1}
             /\ f.kind = "data" => First(f) = f.at + f.late
  <2>1. /\ f.at \in Nat \ {0} /\ f.late \in {0, 1} /\ f.good \in BOOLEAN
        /\ f.kind \in {"control", "data"}
    BY <1>0, AirAssumption
  <2>2. CASE f.kind = "data" BY <1>1, <1>3, <2>1, <2>2 DEF First, Peak, Own
  <2>3. CASE f.kind = "control" BY <1>1, <2>1, <2>3 DEF First, Own
  <2> QED BY <2>1, <2>2, <2>3
<1>5. \A f, g \in layout : f # g => \/ f.at + Length[f.kind] <= g.at
                                    \/ g.at + Length[g.kind] <= f.at
  BY <1>0, AirAssumption
<1> QED BY <1>1, <1>3, <1>4, <1>5

\* An instant is recorded at one place.
LEMMA OnePlace ==
  ASSUME Rising, NEW p \in Nat, NEW q \in Nat, p < RxEnd, q < RxEnd,
         RxEnd \in Nat, \A i \in 1 .. RxEnd : tape[i] \in Nat,
         tape[p + 1] = tape[q + 1], tape[p + 1] # Own
  PROVE  p = q
<1>1. p + 1 \in 1 .. RxEnd /\ q + 1 \in 1 .. RxEnd OBVIOUS
<1>2. CASE p < q
  <2>1. tape[p + 1] < tape[q + 1] BY <1>1, <1>2 DEF Rising
  <2> QED BY <1>1, <2>1
<1>3. CASE q < p
  <2>1. tape[q + 1] < tape[p + 1] BY <1>1, <1>3 DEF Rising
  <2> QED BY <1>1, <2>1
<1> QED BY <1>2, <1>3

LEMMA TapeFacts ==
  ASSUME CaptureInv
  PROVE  /\ RxEnd \in Nat /\ \A p \in 1 .. RxEnd : tape[p] \in Nat
         /\ BufferStart \in Nat /\ BufferStart <= RxEnd /\ held \in Nat
         /\ stream.start \in Nat /\ stream.end \in Nat
         /\ stream.start <= stream.end /\ stream.end <= RxEnd
         /\ air \in Nat /\ generation \in Nat /\ stream.generation \in Int
         /\ stream.generation <= generation
<1>1. \A p \in 1 .. RxEnd : tape[p] \in Nat
  <2> DEFINE T == 0 .. AirTime
  <2>1. tape \in Seq(T) BY DEF CaptureInv, Types, Recording
  <2>2. T \subseteq Nat OBVIOUS
  <2> HIDE DEF T
  <2>3. \A p \in 1 .. Len(tape) : tape[p] \in T BY <2>1
  <2> QED BY <2>2, <2>3 DEF RxEnd
<1>2. RxEnd \in Nat /\ held \in Nat /\ held <= RxEnd
  BY DEF CaptureInv, Types, Recording, RxEnd
<1>3. BufferStart \in Nat /\ BufferStart <= RxEnd BY <1>2 DEF BufferStart
<1> QED BY <1>1, <1>2, <1>3 DEF CaptureInv, Types, StreamShape, Recording

\* What is still in the ring was not delivered.
LEMMA NotYet ==
  ASSUME OnceInv, NEW p \in Retained, NEW f \in layout, tape[p + 1] = First(f)
  PROVE  \A i \in DOMAIN delivered : delivered[i] # f
<1> SUFFICES ASSUME NEW i \in DOMAIN delivered, delivered[i] = f PROVE FALSE OBVIOUS
<1>0. CaptureInv /\ Rising BY DEF OnceInv
<1>1. PICK q \in 0 .. stream.start - 1 : tape[q + 1] = First(f)
  BY DEF OnceInv, Past, Passed
<1>2. /\ RxEnd \in Nat /\ \A k \in 1 .. RxEnd : tape[k] \in Nat
      /\ stream.start \in Nat /\ stream.end \in Nat
      /\ stream.start <= stream.end /\ stream.end <= RxEnd
  BY <1>0, TapeFacts
<1>3. First(f) # Own BY <1>0, AirFacts
<1>4. p \in Nat /\ q \in Nat /\ q < p /\ p < RxEnd BY <1>2 DEF Retained
<1>5. p = q BY <1>0, <1>1, <1>2, <1>3, <1>4, OnePlace
<1> QED BY <1>4, <1>5

----------------------------------------------------------------------------
(* What the decode thread's steps do *)

\* What is heard is on the tape.
LEMMA HeardFirst ==
  ASSUME CaptureInv, NEW p \in Int, NEW instant \in Int, NEW n \in Nat \ {0},
         Hears(p, instant, n)
  PROVE  p \in Retained /\ p + n <= stream.end /\ At(p) = instant /\ tape[p + 1] = instant
<1>1. p \in Retained /\ p + n <= stream.end BY DEF Hears
<1>2. At(p + 0) = instant + 0
  <2>1. 0 \in 0 .. n - 1 OBVIOUS
  <2> QED BY <2>1 DEF Hears
<1>3. At(p) = instant BY <1>2
<1>4. At(p) = tape[p + 1] BY <1>1 DEF CaptureInv, Faithful
<1> QED BY <1>1, <1>3, <1>4

\* read_rx and append: a stream of this generation goes on, any other begins
\* again where the buffer does.
LEMMA ReadFacts ==
  ASSUME CaptureInv, Read
  PROVE  /\ UNCHANGED <<layout, card, buffer, own, ghost, RxEnd>>
         /\ sender = "idle" /\ decoder = "poll" /\ round' = NewRound
         /\ stream'.generation = generation /\ stream'.end = RxEnd
         /\ decoder' = IF stream'.start = stream'.end THEN "poll" ELSE "control"
         /\ Current /\ BufferStart <= stream.end =>
              /\ stream'.start = Larger(stream.start, RxEnd - Capacity)
              /\ stream'.cursor = stream.cursor /\ stream'.candidates = stream.candidates
              /\ stream'.attempted = stream.attempted
         /\ ~(Current /\ BufferStart <= stream.end) =>
              /\ stream'.start = Larger(BufferStart, RxEnd - Capacity)
              /\ stream'.cursor = BufferStart /\ stream'.candidates = {}
              /\ stream'.attempted = {}
<1> DEFINE from == IF stream.generation = generation
                   THEN Smaller(RxEnd, Larger(BufferStart, stream.end))
                   ELSE BufferStart
<1>0. /\ UNCHANGED <<layout, card, buffer, own, ghost, RxEnd>>
      /\ sender = "idle" /\ decoder = "poll" /\ round' = NewRound
      /\ stream' = Appended(from)
      /\ decoder' = IF stream'.start = stream'.end THEN "poll" ELSE "control"
  <2>1. decoder' = IF stream'.start = stream'.end THEN "poll" ELSE "control"
    BY DEF Read
  <2>2. UNCHANGED RxEnd BY DEF Read, buffer, RxEnd
  <2> QED BY <2>1, <2>2 DEF Read
<1>1. /\ RxEnd \in Nat /\ BufferStart \in Nat /\ BufferStart <= RxEnd
      /\ stream.end \in Nat /\ stream.end <= RxEnd
  BY TapeFacts
<1>2. StreamShape BY DEF CaptureInv, Types
<1>3. CASE Current /\ BufferStart <= stream.end
  <2>1. from = stream.end BY <1>1, <1>3 DEF Current, Smaller, Larger
  <2>2. ~Broken(from) BY <1>3, <2>1 DEF Broken, Current
  <2> HIDE DEF from
  <2>3. /\ stream'.generation = generation /\ stream'.end = RxEnd
        /\ stream'.start = Larger(stream.start, RxEnd - Capacity)
        /\ stream'.cursor = stream.cursor /\ stream'.candidates = stream.candidates
        /\ stream'.attempted = stream.attempted
    BY <1>0, <1>2, <2>2 DEF Appended, StreamShape, Oldest
  <2> QED BY <1>0, <1>3, <2>3
<1>4. CASE ~(Current /\ BufferStart <= stream.end)
  <2>1. from = BufferStart BY <1>1, <1>4 DEF Current, Smaller, Larger
  <2>2. Broken(from) BY <1>1, <1>4, <2>1 DEF Broken, Current
  <2> HIDE DEF from
  <2>3. /\ stream'.generation = generation /\ stream'.end = RxEnd
        /\ stream'.start = Larger(from, RxEnd - Capacity)
        /\ stream'.cursor = from /\ stream'.candidates = {} /\ stream'.attempted = {}
    BY <1>0, <1>2, <2>2 DEF Appended, StreamShape, Oldest
  <2> QED BY <1>0, <1>4, <2>1, <2>3
<1> QED BY <1>3, <1>4

\* TryControl: no sync, or the sync of one control frame, whose end is not there
\* yet, which is decoded, or which is damaged.
NoSync ==
  /\ \A p \in Retained : \A h \in layout : h.kind = "control" => ~Hears(p, h.at, Sync)
  /\ decoder' = "data" /\ UNCHANGED round

SyncOf(p, h) == Hears(p, h.at, Sync) /\ tape[p + 1] = First(h)

Pending(p, h) ==
  /\ p + Length["control"] > stream.end
  /\ decoder' = "data" /\ round' = [round EXCEPT !.pending = TRUE]
ControlHit(p, h) ==
  /\ p + Length["control"] <= stream.end /\ h.good
  /\ Hears(p, First(h), Length["control"])
  /\ decoder' = "accept"
  /\ round' = [round EXCEPT !.frame = {h}, !.end = p + Length["control"],
                            !.misses = {p + Sync}]
ControlMiss(p, h) ==
  /\ p + Length["control"] <= stream.end
  /\ ~(h.good /\ Hears(p, First(h), Length["control"]))
  /\ decoder' = "data" /\ round' = [round EXCEPT !.misses = {p + Sync}]

LEMMA ControlFacts ==
  ASSUME CaptureInv, TryControl
  PROVE  /\ decoder = "control"
         /\ UNCHANGED <<layout, card, buffer, own, stream, retry, ghost>>
         /\ \/ NoSync
            \/ \E p \in Retained : \E h \in layout :
                 /\ h.kind = "control" /\ SyncOf(p, h)
                 /\ Pending(p, h) \/ ControlHit(p, h) \/ ControlMiss(p, h)
<1> DEFINE syncs == {p \in Retained : \E f \in layout : f.kind = "control" /\ Hears(p, f.at, Sync)}
           fr(p) == CHOOSE g \in layout : g.at = At(p)
<1>0. /\ decoder = "control"
      /\ UNCHANGED <<layout, card, buffer, own, stream, retry, ghost>>
  BY DEF TryControl
<1>1. CASE syncs = {} /\ decoder' = "data" /\ UNCHANGED round
  <2>1. \A p \in Retained : \A h \in layout : h.kind = "control" => ~Hears(p, h.at, Sync)
    BY <1>1
  <2> QED BY <1>0, <1>1, <2>1 DEF NoSync
<1>2. ASSUME NEW p \in syncs,
             LET f == fr(p)
                 end == p + Length["control"]
             IN IF end > stream.end
                THEN decoder' = "data" /\ round' = [round EXCEPT !.pending = TRUE]
                ELSE IF f.good /\ Hears(p, f.at, Length["control"])
                THEN /\ decoder' = "accept"
                     /\ round' = [round EXCEPT !.frame = {f}, !.end = end,
                                               !.misses = {p + Sync}]
                ELSE decoder' = "data" /\ round' = [round EXCEPT !.misses = {p + Sync}]
      PROVE  \E q \in Retained : \E h \in layout :
               /\ h.kind = "control" /\ SyncOf(q, h)
               /\ Pending(q, h) \/ ControlHit(q, h) \/ ControlMiss(q, h)
  <2>1. PICK h \in layout : h.kind = "control" /\ Hears(p, h.at, Sync) BY <1>2
  <2>2. /\ h.at \in Nat /\ First(h) = h.at /\ Sync \in Nat \ {0}
        /\ Length["control"] \in Nat
        /\ \A g \in layout : g.at \in Nat /\ Length[g.kind] \in Nat \ {0}
        /\ \A f, g \in layout : f # g => \/ f.at + Length[f.kind] <= g.at
                                         \/ g.at + Length[g.kind] <= f.at
    BY <2>1, AirFacts
  <2>3. p \in Retained /\ p \in Int /\ stream.end \in Nat
    <3>1. p \in Retained BY <1>2
    <3>2. stream.start \in Nat /\ stream.end \in Nat BY TapeFacts
    <3> QED BY <3>1, <3>2 DEF Retained
  <2>4. At(p) = h.at /\ tape[p + 1] = h.at BY <2>1, <2>2, <2>3, HeardFirst
  <2>5. fr(p) = h
    <3>1. \A g \in layout : g.at = At(p) => g = h BY <2>2, <2>4
    <3> QED BY <2>4, <3>1
  <2>6. SyncOf(p, h) BY <2>1, <2>2, <2>4 DEF SyncOf
  <2> HIDE DEF fr
  <2>7. Pending(p, h) \/ ControlHit(p, h) \/ ControlMiss(p, h)
    <3>1. CASE p + Length["control"] > stream.end BY <1>2, <3>1 DEF Pending
    <3>2. CASE p + Length["control"] <= stream.end
      <4>1. ~(p + Length["control"] > stream.end) BY <2>2, <2>3, <3>2
      <4>2. CASE h.good /\ Hears(p, h.at, Length["control"])
        BY <1>2, <2>2, <2>5, <3>2, <4>1, <4>2 DEF ControlHit
      <4>3. CASE ~(h.good /\ Hears(p, h.at, Length["control"]))
        BY <1>2, <2>2, <2>5, <3>2, <4>1, <4>3 DEF ControlMiss
      <4> QED BY <4>2, <4>3
    <3> QED BY <2>2, <2>3, <3>1, <3>2
  <2> QED BY <2>1, <2>3, <2>6, <2>7
<1>3. \/ syncs = {} /\ decoder' = "data" /\ UNCHANGED round
      \/ \E p \in syncs :
             LET f == fr(p)
                 end == p + Length["control"]
             IN IF end > stream.end
                THEN decoder' = "data" /\ round' = [round EXCEPT !.pending = TRUE]
                ELSE IF f.good /\ Hears(p, f.at, Length["control"])
                THEN /\ decoder' = "accept"
                     /\ round' = [round EXCEPT !.frame = {f}, !.end = end,
                                               !.misses = {p + Sync}]
                ELSE decoder' = "data" /\ round' = [round EXCEPT !.misses = {p + Sync}]
  BY DEF TryControl
<1> HIDE DEF syncs, fr
<1> QED BY <1>0, <1>1, <1>2, <1>3

\* TryData: the first whole candidate that decodes, or none does.
Decodes(c, f) == f.kind = "data" /\ f.good /\ Hears(c, Peak(f), Length["data"] - f.late)
WholeCandidates ==
  {c \in Searched.candidates \ stream.attempted : c + Length["data"] <= stream.end}
Looked == {c \in stream.attempted : c >= stream.start}

DataHit(c, h) ==
  /\ Decodes(c, h) /\ tape[c + 1] = First(h) /\ c + Length["data"] <= stream.end
  /\ stream'.attempted = Looked \union {w \in WholeCandidates : w <= c}
  /\ decoder' = "accept"
  /\ round' = [round EXCEPT !.frame = {h}, !.end = FrameEnd(c),
                            !.misses = @ \union {FrameEnd(c)}]
DataNone ==
  /\ \A w \in WholeCandidates, f \in layout : ~Decodes(w, f)
  /\ stream'.attempted = Looked \union WholeCandidates
  /\ decoder' = "over"
  /\ \E more \in BOOLEAN :
       /\ round' = [round EXCEPT !.pending = more]
       /\ more => round.pending \/ \E c \in Searched.candidates : c + Length["data"] > stream.end

LEMMA DataFacts ==
  ASSUME CaptureInv, TryData
  PROVE  /\ decoder = "data"
         /\ UNCHANGED <<layout, card, buffer, own, retry, ghost>>
         /\ UNCHANGED <<stream.generation, stream.start, stream.end, stream.ring>>
         /\ stream'.cursor = Searched.cursor /\ stream'.candidates = Searched.candidates
         /\ \/ DataNone
            \/ \E c \in Retained \cap WholeCandidates : \E h \in layout : DataHit(c, h)
<1> DEFINE s == Searched
           whole == {c \in s.candidates \ stream.attempted : c + Length["data"] <= stream.end}
           decodes(c, f) == f.kind = "data" /\ f.good
                            /\ Hears(c, Peak(f), Length["data"] - f.late)
           right == {c \in whole : \E f \in layout : decodes(c, f)}
           tried == IF right = {} THEN whole ELSE {c \in whole : c <= Min(right)}
           more == round.pending \/ \E c \in s.candidates : c + Length["data"] > stream.end
<1>0. /\ decoder = "data"
      /\ UNCHANGED <<layout, card, buffer, own, retry, ghost>>
  BY DEF TryData
<1>1. stream' = [stream EXCEPT !.cursor = s.cursor, !.candidates = s.candidates,
                    !.attempted = Looked \union tried]
  BY DEF TryData, Looked
<1>2. StreamShape /\ RoundShape BY DEF CaptureInv, Types
<1>3. /\ UNCHANGED <<stream.generation, stream.start, stream.end, stream.ring>>
      /\ stream'.cursor = Searched.cursor /\ stream'.candidates = Searched.candidates
      /\ stream'.attempted = Looked \union tried
  <2> HIDE DEF s, tried
  <2>1. /\ UNCHANGED <<stream.generation, stream.start, stream.end, stream.ring>>
        /\ stream'.cursor = s.cursor /\ stream'.candidates = s.candidates
        /\ stream'.attempted = Looked \union tried
    BY <1>1, <1>2 DEF StreamShape
  <2> QED BY <2>1 DEF s
<1>4. whole = WholeCandidates BY DEF WholeCandidates
<1>5. \A c, f : decodes(c, f) = Decodes(c, f) BY DEF Decodes
<1>6. CASE right = {}
  <2>1. decoder' = "over" /\ round' = [round EXCEPT !.pending = more] BY <1>6 DEF TryData
  <2>2. more \in BOOLEAN BY <1>2 DEF RoundShape
  <2>3. \A w \in WholeCandidates, f \in layout : ~Decodes(w, f)
    BY <1>4, <1>5, <1>6
  <2>4. stream'.attempted = Looked \union WholeCandidates BY <1>3, <1>4, <1>6
  <2>5. \E m \in BOOLEAN :
          /\ round' = [round EXCEPT !.pending = m]
          /\ m => round.pending \/ \E c \in Searched.candidates : c + Length["data"] > stream.end
    <3>1. more => round.pending \/ \E c \in Searched.candidates : c + Length["data"] > stream.end
      OBVIOUS
    <3> HIDE DEF more
    <3> QED BY <2>1, <2>2, <3>1
  <2>6. DataNone
    <3> HIDE DEF more
    <3> QED BY <2>1, <2>3, <2>4, <2>5 DEF DataNone
  <2> QED BY <1>0, <1>3, <2>6
<1>7. CASE right # {}
  <2> DEFINE c == Min(right)
             heard == {f \in layout : decodes(c, f)}
  <2>1. c \in right
    <3>1. right \subseteq s.candidates OBVIOUS
    <3>2. s.candidates \subseteq Nat BY <1>2, SearchedIn
    <3>3. right \in SUBSET Int /\ \A w \in right : w >= 0
      <4> HIDE DEF s, right
      <4>1. right \subseteq Nat BY <3>1, <3>2
      <4> QED BY <4>1
    <3> HIDE DEF right
    <3> QED BY <1>7, <3>3, MinIsIn
  <2>2. PICK h \in layout : decodes(c, h) BY <2>1
  <2>3. c \in WholeCandidates /\ c + Length["data"] <= stream.end
    BY <1>4, <2>1
  <2>4. /\ decoder' = "accept"
        /\ round' = [round EXCEPT !.frame = heard, !.end = FrameEnd(c),
                                  !.misses = @ \union {FrameEnd(c)}]
    BY <1>7 DEF TryData
  <2>6. stream'.attempted = Looked \union {w \in WholeCandidates : w <= c}
    BY <1>3, <1>4, <1>7
  <2>7. Decodes(c, h) BY <1>5, <2>2
  <2>8. c \in Int
    <3>1. c \in s.candidates BY <2>1
    <3>2. s.candidates \subseteq Nat BY <1>2, SearchedIn
    <3> HIDE DEF s, c
    <3> QED BY <3>1, <3>2
  <2> HIDE DEF s, whole, right, tried, more, c
  <2>9. \A f \in layout : Decodes(c, f) => At(c) = First(f) /\ tape[c + 1] = First(f) /\ c \in Retained
    <3> SUFFICES ASSUME NEW f \in layout, Decodes(c, f)
                 PROVE  At(c) = First(f) /\ tape[c + 1] = First(f) /\ c \in Retained
      OBVIOUS
    <3>1. /\ f.late \in {0, 1} /\ First(f) \in Nat
          /\ Length["data"] \in Nat \ {0, 1}
      BY AirFacts
    <3>2. Length["data"] - f.late \in Nat \ {0} BY <3>1
    <3>3. Hears(c, First(f), Length["data"] - f.late) BY DEF Decodes, First
    <3>4. First(f) \in Int BY <3>1
    <3> QED BY <2>8, <3>2, <3>3, <3>4, HeardFirst
  <2>10. \A f \in layout : Decodes(c, f) => f = h
    <3> SUFFICES ASSUME NEW f \in layout, Decodes(c, f), f # h PROVE FALSE OBVIOUS
    <3>1. First(f) = First(h) BY <2>7, <2>9
    <3>2. f.kind = "data" /\ h.kind = "data" BY <2>7 DEF Decodes
    <3>3. /\ f.at \in Nat /\ f.late \in {0, 1} /\ h.at \in Nat /\ h.late \in {0, 1}
          /\ First(f) = f.at + f.late /\ First(h) = h.at + h.late
          /\ Length["data"] \in Nat \ {0, 1}
      BY <3>2, AirFacts
    <3>4. \/ f.at + Length["data"] <= h.at \/ h.at + Length["data"] <= f.at
      BY <3>2, AirFacts
    <3>5. ASSUME NEW a \in Nat, NEW l \in {0, 1}, NEW b \in Nat, NEW m \in {0, 1},
                 NEW n \in Nat \ {0, 1}, a + l = b + m
          PROVE  ~(a + n <= b) /\ ~(b + n <= a)
      BY <3>5
    <3>6. f.at + f.late = h.at + h.late BY <3>1, <3>3
    <3> QED BY <3>3, <3>4, <3>5, <3>6
  <2>11. heard = {h} BY <1>5, <2>7, <2>10
  <2>12. tape[c + 1] = First(h) /\ c \in Retained BY <2>7, <2>9
  <2>13. DataHit(c, h)
    <3> HIDE DEF heard
    <3> QED BY <2>3, <2>4, <2>6, <2>7, <2>11, <2>12 DEF DataHit
  <2> QED BY <1>0, <1>3, <2>3, <2>12, <2>13
<1> QED BY <1>6, <1>7

\* Consuming moves the fronts of ring and buffer, and nothing else.
LEMMA ConsumeFacts ==
  ASSUME CaptureInv, NEW end \in Int, Consume(end)
  PROVE  /\ UNCHANGED <<tape, generation, RxEnd>>
         /\ stream'.start = Smaller(stream.end, Larger(stream.start, end))
         /\ UNCHANGED <<stream.generation, stream.end, stream.cursor, stream.candidates,
                        stream.attempted, stream.ring>>
         /\ ~Current => held' = held /\ BufferStart' = BufferStart
         /\ Current => BufferStart' = Smaller(RxEnd, Larger(BufferStart, end))
<1>0. UNCHANGED <<tape, generation, RxEnd>> BY DEF Consume, RxEnd
<1>1. /\ stream'.start = Smaller(stream.end, Larger(stream.start, end))
      /\ UNCHANGED <<stream.generation, stream.end, stream.cursor, stream.candidates,
                     stream.attempted, stream.ring>>
  BY DEF Consume, Discard, CaptureInv, Types, StreamShape
<1>2. RxEnd \in Nat /\ held \in Nat /\ held <= RxEnd
  BY DEF CaptureInv, Types, Recording, RxEnd
<1>3. CASE ~Current
  <2>1. held' = held BY <1>3 DEF Consume, ConsumeThrough, Current
  <2> QED BY <1>0, <1>1, <1>3, <2>1 DEF BufferStart
<1>4. CASE Current
  <2>1. held' = held - Smaller(held, Larger(0, end - (RxEnd - held)))
    BY <1>4 DEF Consume, ConsumeThrough, Current, BufferStart
  <2>2. RxEnd - held' = Smaller(RxEnd, Larger(RxEnd - held, end))
    <3>1. CASE end <= RxEnd - held BY <1>2, <2>1, <3>1 DEF Smaller, Larger
    <3>2. CASE end > RxEnd - held /\ end <= RxEnd BY <1>2, <2>1, <3>2 DEF Smaller, Larger
    <3>3. CASE end > RxEnd BY <1>2, <2>1, <3>3 DEF Smaller, Larger
    <3> QED BY <1>2, <3>1, <3>2, <3>3
  <2> QED BY <1>0, <1>1, <1>4, <2>2 DEF BufferStart
<1> QED BY <1>3, <1>4

----------------------------------------------------------------------------
(* No frame reaches the link twice *)

\* Steps that leave stream, deliveries and the tape so far alone.
LEMMA SameHistory ==
  ASSUME OnceInv, UNCHANGED <<layout, delivered, stream, round, decoder>>,
         \A p \in 1 .. RxEnd : tape'[p] = tape[p]
  PROVE  Past' /\ InHand' /\ (delivered \in Seq(layout))' /\ DeliveredOnce'
<1>0. /\ stream.start \in Nat /\ stream.end \in Nat /\ RxEnd \in Nat
      /\ stream.start <= stream.end /\ stream.end <= RxEnd
  BY TapeFacts DEF OnceInv
<1>1. UNCHANGED <<stream.start, stream.end, Retained>> BY DEF Retained
<1>2. ASSUME NEW i \in DOMAIN delivered PROVE Passed(delivered[i])'
  <2>1. PICK p \in 0 .. stream.start - 1 : tape[p + 1] = First(delivered[i])
    BY DEF OnceInv, Past, Passed
  <2>2. p + 1 \in 1 .. RxEnd BY <1>0
  <2>3. delivered[i] \in layout BY DEF OnceInv, Past, Passed
  <2>4. First(delivered[i])' = First(delivered[i]) BY DEF First, Peak
  <2> QED BY <1>1, <2>1, <2>2, <2>3, <2>4 DEF Passed
<1>3. ASSUME decoder \in {"accept", "take"}, NEW f \in round.frame
      PROVE  f \in layout /\ \E p \in Retained : tape'[p + 1] = First(f) /\ p < round.end
  <2>1. PICK p \in Retained : tape[p + 1] = First(f) /\ p < round.end
    BY <1>3 DEF OnceInv, InHand
  <2>2. p + 1 \in 1 .. RxEnd BY <1>0 DEF Retained
  <2> QED BY <1>3, <2>1, <2>2 DEF OnceInv, InHand
<1>4. Past' BY <1>2 DEF Past
<1>5. InHand' BY <1>1, <1>3 DEF InHand
<1> QED BY <1>4, <1>5 DEF OnceInv, DeliveredOnce

LEMMA CardOnce ==
  ASSUME OnceInv, CallbackRecords \/ CallbackOverflows
  PROVE  OnceInv'
<1>0. CaptureInv /\ CaptureInv' BY CardKeeps DEF OnceInv
<1>1. /\ UNCHANGED <<layout, tape, delivered, stream, round, decoder, RxEnd>>
      /\ chunk = <<>> /\ air' \in {air + 1, air + 2}
      /\ UNCHANGED <<held, generation>> \/ (held' = 0 /\ generation' = generation + 1)
  <2>1. CASE CallbackRecords BY <2>1 DEF CallbackRecords, buffer, thread, RxEnd
  <2>2. CASE CallbackOverflows
    BY <2>2 DEF CallbackOverflows, Dropped, Clear, thread, RxEnd
  <2> QED BY <2>1, <2>2
<1>2. /\ RxEnd \in Nat /\ \A p \in 1 .. RxEnd : tape[p] \in Nat
      /\ air \in Nat /\ stream.end <= RxEnd
  BY <1>0, TapeFacts
<1>3. Rising'
  <2>1. \A p \in 1 .. RxEnd : tape[p] <= air BY DEF OnceInv, Rising
  <2>2. \A p \in 1 .. RxEnd : tape[p] <= air' /\ tape[p] < air' BY <1>1, <1>2, <2>1
  <2> QED BY <1>1, <2>2 DEF OnceInv, Rising
<1>4. Stale'
  <2>1. CASE UNCHANGED <<held, generation>>
    BY <1>1, <2>1 DEF OnceInv, Stale, Current, BufferStart
  <2>2. CASE held' = 0 /\ generation' = generation + 1
    <3>1. BufferStart' = RxEnd BY <1>1, <1>2, <2>2 DEF BufferStart
    <3> QED BY <1>1, <1>2, <3>1 DEF Stale
  <2> QED BY <1>1, <2>1, <2>2
<1>5. Past' /\ InHand' /\ (delivered \in Seq(layout))' /\ DeliveredOnce'
  BY <1>1, SameHistory
<1> QED BY <1>0, <1>3, <1>4, <1>5 DEF OnceInv

LEMMA SenderOnce ==
  ASSUME OnceInv, SendBegins \/ SendClears \/ SendReturns
  PROVE  OnceInv'
<1>0. CaptureInv /\ CaptureInv' BY SenderKeeps DEF OnceInv
<1>1. /\ UNCHANGED <<layout, tape, delivered, stream, round, decoder, RxEnd, air, chunk>>
      /\ UNCHANGED <<held, generation>> \/ (held' = 0 /\ generation' = generation + 1)
  BY DEF SendBegins, SendClears, SendReturns, Clear, buffer, thread, ghost, card, RxEnd
<1>2. RxEnd \in Nat /\ stream.end <= RxEnd BY <1>0, TapeFacts
<1>3. Rising' BY <1>1 DEF OnceInv, Rising
<1>4. Stale'
  <2>1. CASE UNCHANGED <<held, generation>>
    BY <1>1, <2>1 DEF OnceInv, Stale, Current, BufferStart
  <2>2. CASE held' = 0 /\ generation' = generation + 1
    <3>1. BufferStart' = RxEnd BY <1>1, <1>2, <2>2 DEF BufferStart
    <3> QED BY <1>1, <1>2, <3>1 DEF Stale
  <2> QED BY <1>1, <2>1, <2>2
<1>5. Past' /\ InHand' /\ (delivered \in Seq(layout))' /\ DeliveredOnce'
  BY <1>1, SameHistory
<1> QED BY <1>0, <1>3, <1>4, <1>5 DEF OnceInv

\* One sample, of ourselves or of this instant, goes to the end of the tape.
LEMMA AppendFacts ==
  ASSUME CaptureInv, CallbackAppends
  PROVE  /\ UNCHANGED <<layout, air, generation, sender, stream, decoder, round, delivered, gone>>
         /\ \E i \in {Own, air} : chunk = <<i>> /\ tape'[RxEnd + 1] = i
         /\ chunk' = <<>> /\ RxEnd' = RxEnd + 1 /\ held' = Smaller(held + 1, Capacity + 1)
         /\ \A p \in 1 .. RxEnd : tape'[p] = tape[p]
<1>0. /\ UNCHANGED <<layout, air, generation, sender, stream, decoder, round, delivered, gone>>
      /\ chunk' = <<>> /\ held' = Smaller(held + 1, Capacity + 1)
  BY DEF CallbackAppends, own, thread, ghost
<1>1. PICK i \in 0 .. AirTime : chunk = <<i>>
  BY DEF CallbackAppends, CaptureInv, Types, Recording
<1>2. i \in {Own, air} BY <1>1 DEF CaptureInv, Captured
<1>3. /\ tape' = Append(tape, i) /\ RxEnd' = RxEnd + 1 /\ tape'[RxEnd + 1] = i
      /\ \A p \in 1 .. RxEnd : tape'[p] = tape[p]
  BY <1>1 DEF CallbackAppends, CaptureInv, Types, Recording, RxEnd
<1> QED BY <1>0, <1>1, <1>2, <1>3

LEMMA AppendOnce == ASSUME OnceInv, CallbackAppends PROVE OnceInv'
<1>0. CaptureInv /\ CaptureInv' BY AppendKeeps DEF OnceInv
<1>1. PICK i \in {Own, air} : chunk = <<i>> /\ tape'[RxEnd + 1] = i
  BY <1>0, AppendFacts
<1>2. /\ UNCHANGED <<layout, air, generation, stream, decoder, round, delivered>>
      /\ chunk' = <<>> /\ RxEnd' = RxEnd + 1 /\ held' = Smaller(held + 1, Capacity + 1)
      /\ \A p \in 1 .. RxEnd : tape'[p] = tape[p]
  BY <1>0, AppendFacts
<1>3. /\ RxEnd \in Nat /\ \A p \in 1 .. RxEnd : tape[p] \in Nat
      /\ air \in Nat /\ held \in Nat /\ held <= Capacity + 1 /\ Capacity \in Nat
  BY <1>0, TapeFacts, ReceiverAssumption DEF CaptureInv, Types, Recording
<1>4. Rising'
  <2>0. chunk # <<>> BY <1>1
  <2>1. \A p \in 1 .. RxEnd : tape[p] < air BY <2>0 DEF OnceInv, Rising
  <2>2. \A p \in 1 .. RxEnd' : p \in 1 .. RxEnd \/ p = RxEnd + 1 BY <1>2, <1>3
  <2>3. \A p \in 1 .. RxEnd' : tape'[p] <= air
    BY <1>1, <1>2, <1>3, <2>1, <2>2 DEF Own
  <2>4. ASSUME NEW p \in 1 .. RxEnd', NEW q \in 1 .. RxEnd', p < q,
               tape'[p] # Own, tape'[q] # Own
        PROVE  tape'[p] < tape'[q]
    <3>1. p \in 1 .. RxEnd BY <1>2, <1>3, <2>4
    <3>2. CASE q \in 1 .. RxEnd BY <1>2, <2>4, <3>1, <3>2 DEF OnceInv, Rising
    <3>3. CASE q = RxEnd + 1 BY <1>1, <1>2, <2>1, <2>4, <3>1, <3>3
    <3> QED BY <2>2, <3>2, <3>3
  <2> QED BY <1>2, <2>3, <2>4 DEF Rising
<1>5. Stale'
  <2>1. BufferStart <= BufferStart'
    BY <1>2, <1>3 DEF BufferStart, Smaller
  <2>2. BufferStart \in Int /\ BufferStart' \in Int /\ stream.end \in Int
    BY <1>0, <1>2, <1>3, TapeFacts DEF BufferStart, Smaller
  <2>3. ~Current' => stream.end <= BufferStart BY <1>2 DEF OnceInv, Stale, Current
  <2> QED BY <1>2, <2>1, <2>2, <2>3 DEF Stale
<1>6. Past' /\ InHand' /\ (delivered \in Seq(layout))' /\ DeliveredOnce'
  BY <1>2, SameHistory
<1> QED BY <1>0, <1>4, <1>5, <1>6 DEF OnceInv

\* Steps of the decode thread that leave the tape alone and move the ring's start
\* on, if they move it.
LEMMA StartOn ==
  ASSUME OnceInv, UNCHANGED <<layout, tape, air, chunk, delivered>>,
         stream'.start \in Nat, stream.start <= stream'.start
  PROVE  Rising' /\ Past' /\ (delivered \in Seq(layout))' /\ DeliveredOnce'
<1>1. stream.start \in Nat BY TapeFacts DEF OnceInv
<1>2. \A p \in 0 .. stream.start - 1 : p \in 0 .. stream'.start - 1 BY <1>1
<1>3. ASSUME NEW i \in DOMAIN delivered PROVE Passed(delivered[i])'
  <2>1. PICK p \in 0 .. stream.start - 1 : tape[p + 1] = First(delivered[i])
    BY DEF OnceInv, Past, Passed
  <2>2. delivered[i] \in layout BY DEF OnceInv, Past, Passed
  <2>3. First(delivered[i])' = First(delivered[i]) BY DEF First, Peak
  <2> QED BY <1>2, <2>1, <2>2, <2>3 DEF Passed
<1>4. Past' BY <1>3 DEF Past
<1> QED BY <1>4 DEF OnceInv, Rising, RxEnd, DeliveredOnce

LEMMA ReadOnce == ASSUME OnceInv, Read PROVE OnceInv'
<1>0. CaptureInv /\ CaptureInv' BY ReadKeeps DEF OnceInv
<1>1. /\ UNCHANGED <<layout, air, chunk, tape, held, generation, delivered, RxEnd>>
      /\ stream'.generation = generation /\ decoder' \in {"poll", "control"}
      /\ Current /\ BufferStart <= stream.end => stream'.start = Larger(stream.start, RxEnd - Capacity)
      /\ ~(Current /\ BufferStart <= stream.end) => stream'.start = Larger(BufferStart, RxEnd - Capacity)
  BY <1>0, ReadFacts DEF card, buffer, ghost
<1>2. /\ RxEnd \in Nat /\ BufferStart \in Nat /\ Capacity \in Nat
      /\ stream.start \in Nat /\ stream.end \in Nat /\ stream.start <= stream.end
  BY <1>0, TapeFacts, ReceiverAssumption
<1>3. stream'.start \in Nat /\ stream.start <= stream'.start
  <2>1. CASE Current /\ BufferStart <= stream.end BY <1>1, <1>2, <2>1 DEF Larger
  <2>2. CASE ~(Current /\ BufferStart <= stream.end)
    <3>1. stream.end <= BufferStart BY <1>2, <2>2 DEF OnceInv, Stale
    <3> QED BY <1>1, <1>2, <2>2, <3>1 DEF Larger
  <2> QED BY <2>1, <2>2
<1>4. Stale' BY <1>1 DEF Stale, Current
<1>5. InHand' BY <1>1 DEF InHand
<1> QED BY <1>0, <1>1, <1>3, <1>4, <1>5, StartOn DEF OnceInv

LEMMA ControlOnce == ASSUME OnceInv, TryControl PROVE OnceInv'
<1>0. CaptureInv /\ CaptureInv' BY ControlKeeps DEF OnceInv
<1>1. UNCHANGED <<layout, air, chunk, tape, held, generation, delivered, stream>>
  BY <1>0, ControlFacts DEF card, buffer, ghost
<1>2. /\ stream.start \in Nat /\ stream.start <= stream.start /\ RxEnd \in Nat
      /\ stream.end \in Nat
  BY <1>0, TapeFacts
<1>3. Stale' BY <1>1 DEF OnceInv, Stale, Current, BufferStart, RxEnd
<1>4. InHand'
  <2> SUFFICES ASSUME decoder' \in {"accept", "take"}, NEW f \in round'.frame
               PROVE  /\ f \in layout
                      /\ \E p \in Retained : tape[p + 1] = First(f) /\ p < round'.end
    BY <1>1 DEF InHand, Retained, First, Peak
  <2>1. PICK p \in Retained : \E h \in layout : SyncOf(p, h) /\ ControlHit(p, h)
    BY <1>0, ControlFacts DEF NoSync, Pending, ControlMiss
  <2>2. PICK h \in layout : SyncOf(p, h) /\ ControlHit(p, h) BY <2>1
  <2>3. round'.frame = {h} /\ round'.end = p + Length["control"]
    BY <2>2 DEF ControlHit, OnceInv, CaptureInv, Types, RoundShape
  <2>4. p < p + Length["control"]
    <3>1. p \in Int BY <1>2 DEF Retained
    <3>2. Length["control"] \in Nat \ {0} BY <1>0, AirFacts
    <3> QED BY <3>1, <3>2
  <2> QED BY <2>2, <2>3, <2>4 DEF SyncOf
<1> QED BY <1>0, <1>1, <1>2, <1>3, <1>4, StartOn DEF OnceInv

LEMMA DataOnce == ASSUME OnceInv, TryData PROVE OnceInv'
<1>0. CaptureInv /\ CaptureInv' BY DataKeeps DEF OnceInv
<1>1. /\ UNCHANGED <<layout, air, chunk, tape, held, generation, delivered>>
      /\ UNCHANGED <<stream.generation, stream.start, stream.end>>
  BY <1>0, DataFacts DEF card, buffer, ghost
<1>2. /\ stream.start \in Nat /\ stream.start <= stream.start /\ RxEnd \in Nat
      /\ stream.end \in Nat
  BY <1>0, TapeFacts
<1>3. Stale' BY <1>1 DEF OnceInv, Stale, Current, BufferStart, RxEnd
<1>4. InHand'
  <2> SUFFICES ASSUME decoder' \in {"accept", "take"}, NEW f \in round'.frame
               PROVE  /\ f \in layout
                      /\ \E p \in Retained : tape[p + 1] = First(f) /\ p < round'.end
    BY <1>1 DEF InHand, Retained, First, Peak
  <2>1. PICK c \in Retained : \E h \in layout : DataHit(c, h)
    BY <1>0, DataFacts DEF DataNone
  <2>2. PICK h \in layout : DataHit(c, h) BY <2>1
  <2>3. round'.frame = {h} /\ round'.end = FrameEnd(c)
    BY <2>2 DEF DataHit, OnceInv, CaptureInv, Types, RoundShape
  <2>4. c < FrameEnd(c)
    <3>1. c \in Int BY <1>2 DEF Retained
    <3>2. Length["data"] \in Nat /\ Guard \in Nat /\ Guard < Length["data"] BY <1>0, AirFacts
    <3> QED BY <3>1, <3>2 DEF FrameEnd
  <2> QED BY <2>2, <2>3, <2>4 DEF DataHit
<1> QED BY <1>0, <1>1, <1>2, <1>3, <1>4, StartOn DEF OnceInv

LEMMA AcceptOnce == ASSUME OnceInv, Accept PROVE OnceInv'
<1>0. CaptureInv /\ CaptureInv' BY AcceptKeeps DEF OnceInv
<1>1. UNCHANGED <<layout, air, chunk, tape, held, generation, delivered, stream>>
  BY DEF Accept, card, buffer, ghost
<1>2. stream.start \in Nat /\ stream.start <= stream.start BY <1>0, TapeFacts
<1>3. Stale' BY <1>1 DEF OnceInv, Stale, Current, BufferStart, RxEnd
<1>4. InHand'
  <2>1. decoder = "accept" /\ (decoder' \in {"accept", "take"} => round' = round)
    BY DEF Accept
  <2> QED BY <1>1, <2>1 DEF OnceInv, InHand, Retained, First, Peak
<1> QED BY <1>0, <1>1, <1>2, <1>3, <1>4, StartOn DEF OnceInv

\* A discarded buffer of another generation stays behind the ring.
LEMMA ConsumeStale ==
  ASSUME OnceInv, NEW end \in Int, Consume(end)
  PROVE  Stale' /\ stream'.start \in Nat /\ stream.start <= stream'.start
<1>1. /\ UNCHANGED <<generation, RxEnd, stream.generation, stream.end>>
      /\ stream'.start = Smaller(stream.end, Larger(stream.start, end))
      /\ ~Current => BufferStart' = BufferStart
  BY ConsumeFacts DEF OnceInv
<1>2. stream.start \in Nat /\ stream.end \in Nat /\ stream.start <= stream.end
  BY TapeFacts DEF OnceInv
<1>3. Stale' BY <1>1 DEF OnceInv, Stale, Current
<1> QED BY <1>1, <1>2, <1>3 DEF Smaller, Larger

LEMMA TakeOnce == ASSUME OnceInv, Take PROVE OnceInv'
<1>0. CaptureInv /\ CaptureInv' BY TakeKeeps DEF OnceInv
<1>1. /\ UNCHANGED <<layout, air, chunk, tape, generation, RxEnd>> /\ Consume(round.end)
      /\ decoder = "take" /\ decoder' = "poll"
  BY DEF Take, Consume, card, RxEnd
<1>2. PICK f \in round.frame : delivered' = Append(delivered, f) BY DEF Take
<1>3. round.end \in Int BY <1>0 DEF CaptureInv, Types, RoundShape
<1>4. Stale' /\ stream'.start \in Nat /\ stream.start <= stream'.start
  BY <1>1, <1>3, ConsumeStale
<1>5. f \in layout BY <1>1 DEF OnceInv, InHand
<1>6. PICK p \in Retained : tape[p + 1] = First(f) /\ p < round.end
  BY <1>1 DEF OnceInv, InHand
<1>7. \A i \in DOMAIN delivered : delivered[i] # f BY <1>5, <1>6, NotYet
<1>8. /\ delivered' \in Seq(layout) /\ DOMAIN delivered' = DOMAIN delivered \union {Len(delivered) + 1}
      /\ delivered'[Len(delivered) + 1] = f
      /\ \A i \in DOMAIN delivered : delivered'[i] = delivered[i]
  <2> DEFINE T == layout
  <2>1. delivered \in Seq(T) /\ f \in T BY <1>5 DEF OnceInv
  <2> HIDE DEF T
  <2>2. /\ delivered' \in Seq(T) /\ Len(delivered') = Len(delivered) + 1
        /\ delivered'[Len(delivered) + 1] = f /\ Len(delivered) \in Nat
        /\ \A i \in 1 .. Len(delivered) : delivered'[i] = delivered[i]
        /\ DOMAIN delivered = 1 .. Len(delivered) /\ DOMAIN delivered' = 1 .. Len(delivered')
    BY <1>2, <2>1
  <2>3. 1 .. (Len(delivered) + 1) = 1 .. Len(delivered) \union {Len(delivered) + 1} BY <2>2
  <2> QED BY <2>2, <2>3 DEF T
<1>9. Rising' BY <1>1 DEF OnceInv, Rising
<1>10. Past'
  <2>1. /\ stream'.start = Smaller(stream.end, Larger(stream.start, round.end))
        /\ stream.start \in Nat /\ stream.end \in Nat /\ stream.start <= stream.end
    BY <1>0, <1>1, <1>3, ConsumeFacts, TapeFacts
  <2>2. p \in 0 .. stream'.start - 1 BY <1>3, <1>6, <2>1 DEF Retained, Smaller, Larger
  <2> DEFINE Behind(g) == g \in layout /\ \E q \in 0 .. stream'.start - 1 : tape[q + 1] = First(g)
  <2>3. Behind(f) BY <1>5, <1>6, <2>2
  <2>4. ASSUME NEW i \in DOMAIN delivered PROVE Behind(delivered'[i])
    <3>1. PICK q \in 0 .. stream.start - 1 : tape[q + 1] = First(delivered[i])
      BY DEF OnceInv, Past, Passed
    <3>2. q \in 0 .. stream'.start - 1 BY <1>4, <2>1
    <3>3. delivered[i] \in layout /\ delivered'[i] = delivered[i]
      BY <1>8 DEF OnceInv, Past, Passed
    <3> QED BY <3>1, <3>2, <3>3
  <2>5. \A i \in DOMAIN delivered' : Behind(delivered'[i])
    <3> HIDE DEF Behind
    <3> QED BY <1>8, <2>3, <2>4
  <2> QED BY <1>1, <2>5 DEF Past, Passed, First, Peak
<1>11. InHand' BY <1>1 DEF InHand
<1>12. DeliveredOnce'
  <2>1. \A i, j \in DOMAIN delivered : delivered[i] = delivered[j] => i = j
    BY DEF OnceInv, DeliveredOnce
  <2>2. \A i, j \in DOMAIN delivered' : delivered'[i] = delivered'[j] => i = j
    BY <1>7, <1>8, <2>1
  <2> QED BY <2>2 DEF DeliveredOnce
<1> QED BY <1>0, <1>1, <1>4, <1>8, <1>9, <1>10, <1>11, <1>12 DEF OnceInv

LEMMA OverOnce == ASSUME OnceInv, Over PROVE OnceInv'
<1>0. CaptureInv /\ CaptureInv' BY OverKeeps DEF OnceInv
<1>1. /\ UNCHANGED <<layout, air, chunk, delivered>> /\ decoder' = "poll"
      /\ UNCHANGED <<buffer, stream>> \/ \E end \in Int : Consume(end)
  <2>1. round.misses # {} => Min(round.misses) \in Int
    <3>1. round.misses \in SUBSET Int /\ -Guard \in Int /\ \A m \in round.misses : m >= -Guard
      BY <1>0, ReceiverAssumption DEF CaptureInv, Types, RoundShape
    <3> QED BY <3>1, MinIsIn
  <2>2. stream.end - Keep \in Int
    <3>1. stream.end \in Nat /\ Keep \in Nat BY <1>0, TapeFacts, ReceiverAssumption
    <3> QED BY <3>1
  <2>3. \/ round.misses # {} /\ Consume(Min(round.misses))
        \/ Consume(stream.end - Keep)
        \/ UNCHANGED <<buffer, stream>>
    BY DEF Over
  <2>4. UNCHANGED <<layout, air, chunk, delivered>> /\ decoder' = "poll"
    BY DEF Over, card, ghost
  <2> QED BY <2>1, <2>2, <2>3, <2>4
<1>2. InHand' BY <1>1 DEF InHand
<1>3. CASE UNCHANGED <<buffer, stream>>
  <2>1. UNCHANGED <<tape, held, generation>> BY <1>3 DEF buffer
  <2>2. Stale' BY <1>3, <2>1 DEF OnceInv, Stale, Current, BufferStart, RxEnd
  <2>3. stream'.start \in Nat /\ stream.start <= stream'.start BY <1>0, <1>3, TapeFacts
  <2> QED BY <1>0, <1>1, <1>2, <2>1, <2>2, <2>3, StartOn DEF OnceInv
<1>4. ASSUME NEW end \in Int, Consume(end) PROVE OnceInv'
  <2>1. Stale' /\ stream'.start \in Nat /\ stream.start <= stream'.start
    BY <1>4, ConsumeStale
  <2>2. UNCHANGED tape BY <1>4 DEF Consume
  <2> QED BY <1>0, <1>1, <1>2, <2>1, <2>2, StartOn DEF OnceInv
<1> QED BY <1>1, <1>3, <1>4

LEMMA InitOnce == Init => OnceInv
<1> SUFFICES ASSUME Init PROVE OnceInv OBVIOUS
<1>1. CaptureInv BY InitCaptured
<1>2. Rising BY DEF Init, Rising, RxEnd
<1>3. Stale BY DEF Init, Stale, BufferStart, RxEnd
<1>4. Past /\ DeliveredOnce /\ delivered \in Seq(layout)
  BY DEF Init, Past, DeliveredOnce
<1>5. InHand BY DEF Init, InHand
<1> QED BY <1>1, <1>2, <1>3, <1>4, <1>5 DEF OnceInv

LEMMA OnceKept == OnceInv /\ [Next]_vars => OnceInv'
<1> SUFFICES ASSUME OnceInv, [Next]_vars PROVE OnceInv' OBVIOUS
<1>1. CASE UNCHANGED vars
  <2>1. CaptureInv' BY <1>1, CaptureKept DEF OnceInv
  <2>2. UNCHANGED <<layout, air, chunk, tape, held, generation, stream, round, decoder, delivered>>
    BY <1>1 DEF vars, card, buffer, thread, ghost
  <2>3. Past' /\ InHand' /\ (delivered \in Seq(layout))' /\ DeliveredOnce'
    BY <2>2, SameHistory
  <2>4. Rising' /\ Stale' BY <2>2 DEF OnceInv, Rising, Stale, Current, BufferStart, RxEnd
  <2> QED BY <2>1, <2>3, <2>4 DEF OnceInv
<1> QED
  BY <1>1, CardOnce, AppendOnce, SenderOnce, ReadOnce, ControlOnce, DataOnce,
     AcceptOnce, TakeOnce, OverOnce DEF Next, Decode

LEMMA OnceCorrect == Spec => []OnceInv
<1> QED BY InitOnce, OnceKept, PTL DEF Spec

\* A frame is taken from the ring, and all that was delivered began before it.
LEMMA TakeInOrder == ASSUME OnceInv, DeliveredInOrder, Take PROVE DeliveredInOrder'
<1>0. CaptureInv /\ Rising BY DEF OnceInv
<1>1. PICK f \in round.frame : delivered' = Append(delivered, f) BY DEF Take
<1>2. f \in layout /\ \E p \in Retained : tape[p + 1] = First(f)
  BY <1>1 DEF Take, OnceInv, InHand
<1>3. PICK p \in Retained : tape[p + 1] = First(f) BY <1>2
<1>4. /\ RxEnd \in Nat /\ \A i \in 1 .. RxEnd : tape[i] \in Nat
      /\ stream.start \in Nat /\ stream.end \in Nat /\ stream.end <= RxEnd
  BY <1>0, TapeFacts
<1>5. ASSUME NEW g, Passed(g) PROVE g.at < f.at
  <2>1. PICK q \in 0 .. stream.start - 1 : tape[q + 1] = First(g) BY <1>5 DEF Passed
  <2>2. g \in layout BY <1>5 DEF Passed
  <2>3. q + 1 \in 1 .. RxEnd /\ p + 1 \in 1 .. RxEnd /\ q + 1 < p + 1
    BY <1>4 DEF Retained
  <2>4. /\ g.at \in Nat /\ First(g) \in Nat \ {Own} /\ g.at <= First(g)
        /\ f.at \in Nat /\ First(f) \in Nat \ {Own} /\ First(f) <= f.at + 1
        /\ Length[f.kind] \in Nat \ {0} /\ Length[g.kind] \in Nat \ {0}
    BY <1>0, <1>2, <2>2, AirFacts
  <2>5. First(g) < First(f) BY <1>3, <2>1, <2>3, <2>4, <1>0 DEF Rising
  <2>6. g # f BY <2>4, <2>5
  <2>7. g.at + Length[g.kind] <= f.at \/ f.at + Length[f.kind] <= g.at
    BY <1>0, <1>2, <2>2, <2>6, AirFacts
  <2> QED BY <2>4, <2>5, <2>7
<1>6. /\ DOMAIN delivered' = 1 .. Len(delivered) + 1 /\ Len(delivered) \in Nat
      /\ DOMAIN delivered = 1 .. Len(delivered) /\ delivered'[Len(delivered) + 1] = f
      /\ \A i \in 1 .. Len(delivered) : delivered'[i] = delivered[i]
  <2> DEFINE T == layout
  <2>1. delivered \in Seq(T) /\ f \in T BY <1>2 DEF OnceInv
  <2> HIDE DEF T
  <2> QED BY <1>1, <2>1
<1>7. \A i \in 1 .. Len(delivered) : Passed(delivered[i])
  BY <1>6 DEF OnceInv, Past
<1>8. ASSUME NEW i \in DOMAIN delivered', NEW j \in DOMAIN delivered', i < j
      PROVE  delivered'[i].at < delivered'[j].at
  <2>1. i \in 1 .. Len(delivered) BY <1>6, <1>8
  <2>2. CASE j = Len(delivered) + 1 BY <1>5, <1>6, <1>7, <2>1, <2>2
  <2>3. CASE j \in 1 .. Len(delivered)
    BY <1>6, <1>8, <2>1, <2>3 DEF DeliveredInOrder
  <2> QED BY <1>6, <1>8, <2>2, <2>3
<1> QED BY <1>8 DEF DeliveredInOrder

\* Frames reach the link in the order they were on the air, which is what Link
\* assumes of its channel (_decode_one, _consume_rx).
THEOREM AlwaysInOrder == Spec => []DeliveredInOrder
<1>1. Init => DeliveredInOrder BY DEF Init, DeliveredInOrder
<1>2. OnceInv /\ DeliveredInOrder /\ [Next]_vars => DeliveredInOrder'
  <2> SUFFICES ASSUME OnceInv, DeliveredInOrder, [Next]_vars PROVE DeliveredInOrder' OBVIOUS
  <2>1. CASE Take BY <2>1, TakeInOrder
  <2>2. CASE UNCHANGED delivered BY <2>2 DEF DeliveredInOrder
  <2> QED
    BY <2>1, <2>2
    DEF vars, ghost, Next, Decode, CallbackRecords, CallbackOverflows, CallbackAppends,
        SendBegins, SendClears, SendReturns, Read, TryControl, TryData, Accept, Over
<1> QED BY <1>1, <1>2, OnceCorrect, PTL DEF Spec

----------------------------------------------------------------------------
(* No frame is passed over *)

\* Position p of a capture holds instant p + Offset, and so a frame has a place.
Offset == air - Len(chunk) - RxEnd + 1
Place(f) == First(f) - Offset

\* Where the audio begins that may still be decoded.
Front == IF Current THEN stream.start ELSE BufferStart
Aligned == \A p \in Front .. RxEnd - 1 : tape[p + 1] \in {Own, p + Offset}

\* This instant was recorded where it belongs, or is about to be appended.
Heard(i) == IF i = air /\ chunk # <<>> THEN chunk[1] = i ELSE tape[i - Offset + 1] = i

\* Frames that can still be decoded, as far as they have been recorded.
Undelivered == {f \in layout : \A i \in DOMAIN delivered : delivered[i] # f}
Sound ==
  {f \in Undelivered :
     /\ f.good /\ Front <= Place(f)
     /\ \A i \in First(f) .. f.at + Length[f.kind] - 1 : i <= air => Heard(i)}

\* A frame that began and that nothing damaged is one of them.
Tracked == \A f \in Undelivered : f.good /\ f.at <= air /\ f \notin gone => f \in Sound

\* While we are on the air nothing counts.
Silent ==
  sender = "onAir" => ~Current /\ \A f \in Undelivered : f.at <= air => f \in gone

Lag ==
  /\ Current => BufferStart <= stream.end /\ (RxEnd + Len(chunk)) - stream.end <= MaxLag
  /\ ~Current /\ sender # "onAir" => held + Len(chunk) <= MaxLag

\* A frame whose last sample has been read.
RipeAt(f) == Place(f) + Length[f.kind] <= stream.end
Ripe == {f \in Sound : RipeAt(f)}

\* A round begins with at most one, and ends with none.
NoneRipe == decoder \in {"poll", "over"} => Ripe = {}
NoControl == decoder = "data" => \A f \in Ripe : f.kind = "data"
OneRipe == decoder \in {"control", "data"} => \A f, g \in Ripe : f = g

\* What is consumed with the frame in hand takes no other.
Chosen ==
  decoder \in {"accept", "take"} =>
     \E h \in layout :
       /\ round.frame = {h} /\ round.end <= stream.end
       /\ \A f \in Sound : f = h \/ (round.end <= Place(f) /\ ~RipeAt(f))

\* The search has left no frame's start behind, and keeps its context.
Searchable ==
  /\ \A f \in Sound :
       f.kind = "data" /\ Place(f) < stream.cursor => Place(f) \in stream.candidates
  /\ stream.cursor > stream.start => stream.cursor + Preamble + Guard <= stream.end + 1

\* No frame's start was tried in vain.
Attempts ==
  /\ \A c \in stream.attempted : c \in Nat /\ c + Length["data"] <= stream.end
  /\ \A f \in Sound :
       f.kind = "data" /\ Place(f) \in stream.attempted =>
         decoder \in {"accept", "take"} /\ f \in round.frame

\* Skipping a near miss takes no frame that is not whole.
Misses ==
  /\ decoder = "control" => round.misses = {}
  /\ decoder \in {"data", "over"} =>
       \A m \in round.misses : m <= stream.end /\ \A f \in Sound : RipeAt(f) \/ m <= Place(f)

\* The control frames whose sync the ring holds, and those of them that have been read
\* whole: sound ones and damaged ones, which are near misses.
Synced == {h \in layout : h.kind = "control" /\ Hears(Place(h), h.at, Sync)}
Whole == {h \in Synced : RipeAt(h)}

\* A round begins without one.  The round in which it is whole hears no other sync,
\* has nothing else that is whole, and is not late for it;
NoneWhole == decoder = "poll" => Whole = {}
OneWhole ==
  decoder # "poll" =>
    \A h \in Whole : /\ Synced = {h} /\ Ripe \subseteq {h}
                     /\ stream.end < Place(h) + Length["control"] + MaxLag

\* it is skipped if it is not decoded, because nothing is pending then, and consumed
\* with any frame that is.
ToSkip ==
  /\ decoder = "control" => ~round.pending
  /\ decoder \in {"data", "over"} =>
       \A h \in Whole : ~round.pending /\ round.misses = {Place(h) + Sync}
  /\ decoder \in {"accept", "take"} => \A h \in Whole : Place(h) < round.end

\* The search proposes beginnings of data frames, or the sample behind one.
Proposed ==
  \A c \in stream.candidates : c >= stream.start =>
    c < stream.cursor /\ \E f \in layout : f.kind = "data" /\ c \in {Place(f), Place(f) + 1}

WholeInv == NoneWhole /\ OneWhole /\ ToSkip /\ Proposed
SearchInv ==
  /\ NoneRipe /\ NoControl /\ OneRipe /\ Chosen /\ Searchable /\ Attempts /\ Misses
  /\ WholeInv

PassInv == OnceInv /\ Aligned /\ Tracked /\ Silent /\ Lag /\ (Current => SearchInv)

----------------------------------------------------------------------------
LEMMA PaceFacts ==
  ASSUME CaptureInv
  PROVE  /\ MaxLag \in Nat \ {0} /\ Capacity \in Nat /\ Keep \in Nat /\ MaxLag < Capacity
         /\ Preamble \in Nat /\ SearchBlock \in Nat \ {0}
         /\ \A f \in layout : /\ MaxLag < Length[f.kind]
                              /\ MaxLag + Length[f.kind] <= Capacity
                              /\ Length[f.kind] <= Keep
         /\ Preamble + Guard + SearchBlock <= Length["data"] + 1
<1>0. layout \in Layouts BY DEF CaptureInv, Types, Recording
<1>1. \A f \in layout : f.kind \in {"control", "data"} BY AirFacts
<1>2. MaxLag < Capacity
  <2>1. /\ MaxLag \in Nat /\ Capacity \in Nat /\ Length["data"] \in Nat \ {0}
        /\ MaxLag + Length["data"] <= Capacity
    BY ReceiverAssumption, PaceAssumption
  <2> QED BY <2>1
<1> QED BY <1>0, <1>1, <1>2, ReceiverAssumption, PaceAssumption

\* A control frame is read before the next frame shows.
LEMMA TurnFacts ==
  ASSUME CaptureInv, NEW f \in layout, NEW g \in layout, f.kind = "control", f.at < g.at
  PROVE  /\ g.kind = "control" => f.at + Length["control"] + MaxLag <= g.at + Sync
         /\ g.kind = "data" => f.at + Length["control"] + MaxLag <= g.at + (Preamble + Guard)
<1>0. layout \in Layouts BY DEF CaptureInv, Types, Recording
<1>1. LET shows == IF g.kind = "control" THEN Sync ELSE Preamble + Guard
      IN f.at + Length["control"] + MaxLag <= g.at + shows
  BY <1>0, TurnAssumption
<1> QED BY <1>1

LEMMA PlaceFacts ==
  ASSUME CaptureInv
  PROVE  /\ Len(chunk) \in {0, 1} /\ (chunk = <<>> <=> Len(chunk) = 0)
         /\ Offset \in Int /\ Offset + RxEnd = air - Len(chunk) + 1
         /\ Front \in Nat /\ Front <= RxEnd
         /\ \A f \in layout : Place(f) \in Int /\ Place(f) + Offset = First(f)
<1>1. Len(chunk) \in {0, 1} /\ (chunk = <<>> <=> Len(chunk) = 0)
  BY DEF CaptureInv, Types, Recording
<1>2. /\ air \in Nat /\ RxEnd \in Nat /\ BufferStart \in Nat /\ BufferStart <= RxEnd
      /\ stream.start \in Nat /\ stream.end \in Nat
      /\ stream.start <= stream.end /\ stream.end <= RxEnd
  BY TapeFacts
<1>3. Offset \in Int /\ Offset + RxEnd = air - Len(chunk) + 1 BY <1>1, <1>2 DEF Offset
<1>4. Front \in Nat /\ Front <= RxEnd BY <1>2 DEF Front
<1>5. \A f \in layout : Place(f) \in Int /\ Place(f) + Offset = First(f)
  <2>1. \A f \in layout : First(f) \in Nat BY AirFacts
  <2> QED BY <1>3, <2>1 DEF Place
<1> QED BY <1>1, <1>3, <1>4, <1>5

\* Places lie as far apart as the frames do, but for the late sample.
LEMMA PlacesApart ==
  ASSUME CaptureInv, NEW f \in layout, NEW g \in layout, f # g
  PROVE  \/ /\ Place(f) + Length[f.kind] <= Place(g) + 1
            /\ f.kind = "control" => Place(f) + Length[f.kind] <= Place(g)
         \/ /\ Place(g) + Length[g.kind] <= Place(f) + 1
            /\ g.kind = "control" => Place(g) + Length[g.kind] <= Place(f)
<1>1. /\ f.at \in Nat /\ First(f) \in Nat /\ f.at <= First(f) /\ First(f) <= f.at + 1
      /\ f.kind = "control" => First(f) = f.at
      /\ g.at \in Nat /\ First(g) \in Nat /\ g.at <= First(g) /\ First(g) <= g.at + 1
      /\ g.kind = "control" => First(g) = g.at
      /\ Length[f.kind] \in Nat /\ Length[g.kind] \in Nat
  BY AirFacts
<1>2. f.at + Length[f.kind] <= g.at \/ g.at + Length[g.kind] <= f.at BY AirFacts
<1>3. Offset \in Int BY PlaceFacts
<1>4. Place(f) = First(f) - Offset /\ Place(g) = First(g) - Offset BY DEF Place
<1>5. ASSUME NEW a \in Nat, NEW b \in Nat, NEW x \in Nat, NEW y \in Nat, NEW n \in Nat,
             NEW o \in Int, a <= x, x <= a + 1, b <= y, a + n <= b
      PROVE  (x - o) + n <= (y - o) + 1 /\ (x = a => (x - o) + n <= y - o)
  BY <1>5
<1> QED BY <1>1, <1>2, <1>3, <1>4, <1>5

\* What is known to lie at a position is in its place.
LEMMA PlaceOf ==
  ASSUME CaptureInv, Aligned, Current, NEW p \in Retained, NEW f \in layout,
         tape[p + 1] = First(f)
  PROVE  p = Place(f) /\ p \in Nat /\ stream.start <= p /\ p < stream.end
<1>1. /\ stream.start \in Nat /\ stream.end \in Nat /\ RxEnd \in Nat
      /\ stream.end <= RxEnd
  BY TapeFacts
<1>2. p \in Nat /\ stream.start <= p /\ p < stream.end BY <1>1 DEF Retained
<1>3. p \in Front .. RxEnd - 1 BY <1>1, <1>2 DEF Front
<1>4. tape[p + 1] \in {Own, p + Offset} BY <1>3 DEF Aligned
<1>5. First(f) # Own BY AirFacts
<1>6. First(f) = p + Offset BY <1>4, <1>5
<1>7. Offset \in Int BY PlaceFacts
<1> QED BY <1>2, <1>6, <1>7 DEF Place

LEMMA SoundFacts ==
  ASSUME CaptureInv, NEW f \in Sound
  PROVE  /\ f \in layout /\ f \in Undelivered /\ f.good /\ Place(f) \in Nat
         /\ Front <= Place(f)
         /\ \A i \in First(f) .. f.at + Length[f.kind] - 1 : i <= air => Heard(i)
<1>1. f \in layout BY DEF Sound, Undelivered
<1>2. Place(f) \in Int /\ Front \in Nat /\ Front <= Place(f) BY <1>1, PlaceFacts DEF Sound
<1> QED BY <1>1, <1>2 DEF Sound

\* As far as the ring goes, the frame is in it.
LEMMA SoundHears ==
  ASSUME CaptureInv, Current, NEW f \in Sound, NEW n \in Nat,
         Place(f) < stream.end, Place(f) + n <= stream.end,
         First(f) + n <= f.at + Length[f.kind]
  PROVE  Place(f) \in Retained /\ Hears(Place(f), First(f), n)
<1>1. /\ stream.start \in Nat /\ stream.end \in Nat /\ RxEnd \in Nat /\ air \in Nat
      /\ stream.end <= RxEnd
  BY TapeFacts
<1>2. f \in layout /\ Place(f) \in Nat /\ stream.start <= Place(f) BY SoundFacts DEF Front
<1>3. Place(f) \in Retained BY <1>1, <1>2 DEF Retained
<1>4. First(f) \in Nat /\ f.at \in Nat /\ Length[f.kind] \in Nat BY <1>2, AirFacts
<1>5. /\ Offset \in Int /\ Offset + RxEnd = air - Len(chunk) + 1 /\ Len(chunk) \in {0, 1}
      /\ (chunk = <<>> <=> Len(chunk) = 0) /\ Place(f) + Offset = First(f)
  BY <1>2, PlaceFacts
<1>7. Place(f) \in Int /\ Offset \in Int /\ First(f) = Place(f) + Offset BY <1>2, <1>5
<1>6. ASSUME NEW i \in 0 .. n - 1 PROVE At(Place(f) + i) = First(f) + i
  <2>1. Place(f) + i \in Retained BY <1>1, <1>2, <1>6 DEF Retained
  <2>2. At(Place(f) + i) = tape[(Place(f) + i) + 1] BY <2>1 DEF CaptureInv, Faithful
  <2>3. First(f) + i <= air - Len(chunk) /\ First(f) + i \in Nat
    <3>1. First(f) + i = (Place(f) + i) + Offset /\ First(f) + i \in Nat BY <1>4, <1>6, <1>7
    <3>2. Place(f) + i < RxEnd BY <1>1, <1>6, <1>7
    <3>3. air - Len(chunk) = (RxEnd - 1) + Offset BY <1>1, <1>5
    <3> QED BY <1>1, <1>6, <1>7, <3>1, <3>2, <3>3
  <2>4. First(f) + i <= air /\ ~(First(f) + i = air /\ chunk # <<>>)
    BY <1>1, <1>5, <2>3
  <2>5. First(f) + i \in First(f) .. f.at + Length[f.kind] - 1 BY <1>4, <1>6
  <2>6. tape[(First(f) + i) - Offset + 1] = First(f) + i
    BY <2>4, <2>5, SoundFacts DEF Heard
  <2>7. (First(f) + i) - Offset = Place(f) + i BY <1>6, <1>7
  <2> QED BY <2>2, <2>6, <2>7
<1> QED BY <1>3, <1>6 DEF Hears

\* Where nothing is read, the same syncs are heard.
LEMMA SameSynced ==
  ASSUME UNCHANGED <<layout, Offset, stream.end, stream.ring>>,
         stream.start \in Nat, stream'.start \in Nat, stream.end \in Nat,
         stream.start <= stream'.start
  PROVE  /\ Synced' \subseteq Synced /\ Whole' \subseteq Whole
         /\ \A h \in Synced' : stream'.start <= Place(h)
<1>1. \A f : Place(f)' = Place(f) BY DEF Place, First, Peak
<1>2. \A p, i, n : Hears(p, i, n)' => Hears(p, i, n) /\ stream'.start <= p
  BY DEF Hears, Retained, At
<1>3. \A h \in Synced' : h \in Synced /\ stream'.start <= Place(h) BY <1>1, <1>2 DEF Synced
<1>4. \A f : RipeAt(f)' <=> RipeAt(f) BY <1>1 DEF RipeAt
<1> QED BY <1>3, <1>4 DEF Whole

LEMMA SyncedFacts ==
  ASSUME CaptureInv, NEW h \in Synced
  PROVE  /\ h \in layout /\ h.kind = "control" /\ h.at \in Nat /\ First(h) = h.at
         /\ Place(h) \in Nat /\ stream.start <= Place(h) /\ Place(h) + Sync <= stream.end
         /\ Place(h) + Offset = h.at /\ Offset \in Int
<1>1. h \in layout /\ h.kind = "control" /\ Hears(Place(h), h.at, Sync) BY DEF Synced
<1>2. h.at \in Nat /\ First(h) = h.at BY <1>1, AirFacts
<1>3. Place(h) \in Int /\ Place(h) + Offset = First(h) /\ Offset \in Int BY <1>1, PlaceFacts
<1>4. stream.start \in Nat BY TapeFacts
<1>5. stream.start <= Place(h) /\ Place(h) + Sync <= stream.end BY <1>1 DEF Hears, Retained
<1> QED BY <1>1, <1>2, <1>3, <1>4, <1>5

\* What decodes was sound, and whole.
LEMMA DecodedSound ==
  ASSUME OnceInv, Aligned, Current, NEW p \in Retained, NEW h \in layout, h.good,
         tape[p + 1] = First(h), NEW n \in Nat, n = h.at + Length[h.kind] - First(h),
         Hears(p, First(h), n)
  PROVE  h \in Sound
<1>0. CaptureInv BY DEF OnceInv
<1>1. p = Place(h) /\ p \in Nat /\ stream.start <= p BY <1>0, PlaceOf
<1>2. \A i \in DOMAIN delivered : delivered[i] # h BY NotYet
<1>3. /\ stream.start \in Nat /\ stream.end \in Nat /\ RxEnd \in Nat /\ air \in Nat
      /\ stream.end <= RxEnd
  BY <1>0, TapeFacts
<1>4. First(h) \in Nat /\ h.at \in Nat /\ Length[h.kind] \in Nat BY <1>0, AirFacts
<1>5. /\ Offset \in Int /\ Offset + RxEnd = air - Len(chunk) + 1 /\ Len(chunk) \in {0, 1}
      /\ (chunk = <<>> <=> Len(chunk) = 0) /\ Place(h) + Offset = First(h)
  BY <1>0, PlaceFacts
<1>7. p \in Int /\ Offset \in Int /\ First(h) = p + Offset BY <1>1, <1>5
<1>6. ASSUME NEW i \in First(h) .. h.at + Length[h.kind] - 1, i <= air PROVE Heard(i)
  <2> DEFINE k == i - First(h)
  <2>1. k \in 0 .. n - 1 /\ i = First(h) + k BY <1>4, <1>6
  <2>2. p + n <= stream.end /\ At(p + k) = i
    <3> HIDE DEF k
    <3> QED BY <2>1 DEF Hears
  <2>3. p + k \in Retained BY <1>1, <1>3, <2>1, <2>2 DEF Retained
  <2>4. tape[(p + k) + 1] = i
    <3> HIDE DEF k
    <3> QED BY <1>0, <2>2, <2>3 DEF CaptureInv, Faithful
  <2>5. i - Offset = p + k
    <3>1. k \in Int BY <2>1
    <3> HIDE DEF k
    <3> QED BY <1>7, <2>1, <3>1
  <2>6. p + k < RxEnd BY <1>1, <1>3, <2>1, <2>2
  <2>7. i # air \/ chunk = <<>>
    <3>1. k \in Int /\ p + k \in Int /\ i = (p + k) + Offset BY <1>7, <2>1
    <3>2. chunk # <<>> => Offset + RxEnd = air
      <4>1. chunk # <<>> => Len(chunk) = 1 BY <1>5
      <4>2. (air - 1) + 1 = air BY <1>3
      <4> QED BY <1>5, <4>1, <4>2
    <3> HIDE DEF k
    <3> QED BY <1>3, <1>7, <2>6, <3>1, <3>2
  <2> HIDE DEF k
  <2> QED BY <2>4, <2>5, <2>7 DEF Heard
<1> QED BY <1>1, <1>2, <1>6 DEF Sound, Undelivered, Front

----------------------------------------------------------------------------
(* The capture goes on, is cleared or ends *)

\* Steps that leave the thread alone keep its rounds, while the capture goes on.
LEMMA QuietSearch ==
  ASSUME CaptureInv, SearchInv, UNCHANGED <<layout, stream, decoder, round, Offset>>,
         Sound' \subseteq Sound
  PROVE  SearchInv'
<1>0. \A f : Place(f)' = Place(f) BY DEF Place, First, Peak
<1>1. \A f : RipeAt(f)' <=> RipeAt(f) BY <1>0 DEF RipeAt
<1>2. Ripe' \subseteq Ripe BY <1>1 DEF Ripe
<1>3. NoneRipe' /\ NoControl' /\ OneRipe' BY <1>2 DEF SearchInv, NoneRipe, NoControl, OneRipe
<1>4. Chosen' BY <1>0, <1>1 DEF SearchInv, Chosen
<1>5. Searchable' BY <1>0 DEF SearchInv, Searchable
<1>6. Attempts' BY <1>0 DEF SearchInv, Attempts
<1>7. Misses' BY <1>0, <1>1 DEF SearchInv, Misses
<1>8. Synced' = Synced /\ Whole' = Whole
  <2>1. \A p, i, n : Hears(p, i, n)' <=> Hears(p, i, n) BY DEF Hears, Retained, At
  <2>2. Synced' = Synced BY <1>0, <2>1 DEF Synced
  <2> QED BY <1>1, <2>2 DEF Whole
<1>9. NoneWhole' /\ OneWhole' BY <1>0, <1>2, <1>8 DEF SearchInv, WholeInv, NoneWhole, OneWhole
<1>10. ToSkip' /\ Proposed' BY <1>0, <1>8 DEF SearchInv, WholeInv, ToSkip, Proposed
<1>11. WholeInv' BY <1>9, <1>10 DEF WholeInv
<1> QED BY <1>3, <1>4, <1>5, <1>6, <1>7, <1>11 DEF SearchInv

\* Clearing ends the capture, and every frame that has begun with it.
LEMMA ClearedPass ==
  ASSUME PassInv, held' = 0, generation' = generation + 1,
         UNCHANGED <<layout, tape, stream, delivered>>,
         gone' = gone \union Begun(air'), Len(chunk') \in {0, 1}
  PROVE  /\ Aligned' /\ Tracked' /\ Silent' /\ Lag' /\ (Current => SearchInv)'
<1>0. CaptureInv BY DEF PassInv, OnceInv
<1>1. RxEnd \in Nat /\ generation \in Nat /\ stream.generation <= generation
      /\ stream.generation \in Int
  BY <1>0, TapeFacts
<1>2. ~Current' BY <1>1 DEF Current
<1>3. RxEnd' = RxEnd /\ Front' = RxEnd BY <1>1, <1>2 DEF Front, BufferStart, RxEnd
<1>4. Aligned' BY <1>1, <1>3 DEF Aligned
<1>5. \A f \in Undelivered' : f.at <= air' => f \in gone' BY DEF Undelivered, Begun
<1>6. Tracked' /\ Silent' BY <1>2, <1>5 DEF Tracked, Silent
<1>7. MaxLag \in Nat \ {0} BY <1>0, PaceFacts
<1>8. Lag'
  <2>1. held' + Len(chunk') <= MaxLag
    <3>1. ASSUME NEW n \in {0, 1} PROVE 0 + n <= MaxLag BY <1>7, <3>1
    <3> QED BY <3>1
  <2> QED BY <1>2, <2>1 DEF Lag
<1> QED BY <1>2, <1>4, <1>6, <1>8

LEMMA OverflowPass == ASSUME PassInv, CallbackOverflows PROVE PassInv'
<1>1. OnceInv' BY CardOnce DEF PassInv
<1>2. /\ held' = 0 /\ generation' = generation + 1
      /\ UNCHANGED <<layout, tape, stream, delivered>>
      /\ gone' = gone \union Begun(air') /\ Len(chunk') \in {0, 1}
  BY DEF CallbackOverflows, Dropped, Clear, thread
<1> QED BY <1>1, <1>2, ClearedPass DEF PassInv

LEMMA ClearsPass == ASSUME PassInv, SendClears PROVE PassInv'
<1>1. OnceInv' BY SenderOnce DEF PassInv
<1>2. Len(chunk) \in {0, 1} BY PlaceFacts DEF PassInv, OnceInv
<1>3. /\ held' = 0 /\ generation' = generation + 1
      /\ UNCHANGED <<layout, tape, stream, delivered>>
      /\ gone' = gone \union Begun(air') /\ Len(chunk') \in {0, 1}
  BY <1>2 DEF SendClears, Clear, thread, card
<1> QED BY <1>1, <1>3, ClearedPass DEF PassInv

\* The frames are the same, and so is what is heard of them.
LEMMA SameSound ==
  ASSUME UNCHANGED <<layout, air, chunk, tape, delivered, stream.start, stream.generation,
                     held, generation>>
  PROVE  /\ UNCHANGED <<Offset, Current, Front, BufferStart, RxEnd, Undelivered, Sound>>
         /\ \A f : Place(f)' = Place(f)
<1>1. UNCHANGED <<RxEnd, Offset, BufferStart, Undelivered>>
  BY DEF RxEnd, Offset, BufferStart, Undelivered
<1>2. UNCHANGED Current BY DEF Current
<1>3. UNCHANGED Front BY <1>1, <1>2 DEF Front
<1>4. \A f : Place(f)' = Place(f) /\ First(f)' = First(f)
  BY <1>1 DEF Place, First, Peak
<1>5. \A i : Heard(i)' <=> Heard(i) BY <1>1 DEF Heard
<1>6. UNCHANGED Sound BY <1>1, <1>3, <1>4, <1>5 DEF Sound
<1> QED BY <1>1, <1>2, <1>3, <1>4, <1>6

LEMMA BeginsPass == ASSUME PassInv, SendBegins \/ SendReturns PROVE PassInv'
<1>1. OnceInv' BY SenderOnce DEF PassInv
<1>2. /\ UNCHANGED <<layout, air, chunk, tape, held, generation, stream, decoder, round,
                     delivered, gone>>
      /\ sender # "onAir" /\ sender' # "onAir"
  BY DEF SendBegins, SendReturns, card, buffer, thread, ghost
<1>3. UNCHANGED <<Offset, Current, Front, BufferStart, RxEnd, Undelivered, Sound>>
  BY <1>2, SameSound
<1>4. Aligned' BY <1>2, <1>3 DEF PassInv, Aligned
<1>5. Tracked' BY <1>2, <1>3 DEF PassInv, Tracked
<1>6. Silent' BY <1>2 DEF Silent
<1>7. Lag' BY <1>2, <1>3 DEF PassInv, Lag
<1>8. (Current => SearchInv)' BY <1>2, <1>3, QuietSearch DEF PassInv, OnceInv
<1> QED BY <1>1, <1>4, <1>5, <1>6, <1>7, <1>8 DEF PassInv

\* The card records an instant.
LEMMA RecordsPass == ASSUME PassInv, CallbackRecords PROVE PassInv'
<1>0. CaptureInv /\ OnceInv BY DEF PassInv, OnceInv
<1>1. OnceInv' BY <1>0, CardOnce
<1>2. /\ UNCHANGED <<layout, tape, held, generation, stream, decoder, round, delivered, sender>>
      /\ chunk = <<>> /\ chunk' = <<Recorded>> /\ air' = air + 1 /\ KeepsUp
  BY DEF CallbackRecords, buffer, thread, own
<1>3. /\ air \in Nat /\ RxEnd \in Nat /\ held \in Nat /\ stream.end \in Nat
  BY <1>0, TapeFacts
<1>4. /\ UNCHANGED <<RxEnd, BufferStart, Current, Front, Undelivered, Offset>>
      /\ Len(chunk) = 0 /\ Len(chunk') = 1
  <2>1. UNCHANGED <<RxEnd, BufferStart, Current, Undelivered>>
    BY <1>2 DEF RxEnd, BufferStart, Current, Undelivered
  <2>2. Len(chunk) = 0 /\ Len(chunk') = 1 BY <1>2
  <2>3. UNCHANGED Offset BY <1>2, <1>3, <2>1, <2>2 DEF Offset
  <2> QED BY <1>2, <2>1, <2>2, <2>3 DEF Front
<1>5. \A f : Place(f)' = Place(f) /\ First(f)' = First(f)
  BY <1>4 DEF Place, First, Peak
<1>6. \A i \in Int : i <= air => (Heard(i)' <=> Heard(i))
  <2> SUFFICES ASSUME NEW i \in Int, i <= air PROVE Heard(i)' <=> Heard(i) OBVIOUS
  <2>1. i # air' BY <1>2, <1>3
  <2> QED BY <1>2, <1>4, <2>1 DEF Heard
<1>7. \A f \in layout : f.at \in Nat /\ First(f) \in Nat /\ f.at <= First(f) /\ Length[f.kind] \in Nat \ {0}
  BY <1>0, AirFacts
<1>8. Sound' \subseteq Sound
  <2> SUFFICES ASSUME NEW f \in Sound' PROVE f \in Sound OBVIOUS
  <2>1. /\ f \in Undelivered /\ f.good /\ Front <= Place(f)
        /\ \A i \in First(f) .. f.at + Length[f.kind] - 1 : i <= air' => Heard(i)'
    BY <1>4, <1>5 DEF Sound
  <2>2. First(f) \in Nat BY <1>7, <2>1 DEF Undelivered
  <2>3. \A i \in First(f) .. f.at + Length[f.kind] - 1 : i <= air => Heard(i)
    BY <1>2, <1>3, <1>6, <2>1, <2>2
  <2> QED BY <2>1, <2>3 DEF Sound
<1>9. Aligned' BY <1>2, <1>4 DEF PassInv, Aligned
<1>10. gone \subseteq gone'
       /\ (sender = "onAir" => gone' = gone \union {f \in Begun(air') : air' < f.at + Length[f.kind]})
  <2>1. Recorded = IF sender = "onAir" THEN Own ELSE air + 1 BY DEF Recorded
  <2> QED BY <1>2, <2>1 DEF CallbackRecords
<1>11. ASSUME sender = "onAir", NEW f \in Undelivered, f.at <= air' PROVE f \in gone'
  <2>1. f \in layout BY DEF Undelivered
  <2>2. CASE f.at <= air BY <1>10, <1>11, <2>2 DEF PassInv, Silent
  <2>3. CASE f.at = air'
    <3>1. air' < f.at + Length[f.kind] BY <1>2, <1>3, <1>7, <2>1, <2>3
    <3>2. f \in Begun(air') BY <1>11 DEF Begun, Undelivered
    <3> QED BY <1>10, <1>11, <3>1, <3>2
  <2> QED BY <1>2, <1>3, <1>7, <1>11, <2>1, <2>2, <2>3
<1>12. Silent' BY <1>2, <1>4, <1>11 DEF PassInv, Silent
<1>13. Tracked'
  <2> SUFFICES ASSUME NEW f \in Undelivered, f.good, f.at <= air', f \notin gone'
               PROVE  f \in Sound'
    BY <1>4 DEF Tracked
  <2>0. f \in layout BY DEF Undelivered
  <2>1. sender # "onAir" BY <1>11
  <2>2. chunk'[1] = air' BY <1>2, <2>1 DEF Recorded
  <2>3. \A i : i = air' => Heard(i)'
    <3>1. chunk' # <<>> BY <1>2
    <3> QED BY <2>2, <3>1 DEF Heard
  <2>4. CASE f.at <= air
    <3>1. f \in Sound BY <1>10, <2>4 DEF PassInv, Tracked
    <3>2. Front <= Place(f) /\ \A i \in First(f) .. f.at + Length[f.kind] - 1 : i <= air => Heard(i)
      BY <1>0, <3>1, SoundFacts
    <3>3. ASSUME NEW i \in First(f) .. f.at + Length[f.kind] - 1, i <= air' PROVE Heard(i)'
      <4>1. i = air' \/ (i <= air /\ i \in Int) BY <1>2, <1>3, <1>7, <2>0, <3>3
      <4> QED BY <1>6, <2>3, <3>2, <4>1
    <3> QED BY <1>4, <1>5, <3>2, <3>3 DEF Sound
  <2>5. CASE f.at = air'
    <3>1. Front <= Place(f)
      <4>1. Front \in Nat /\ Front <= RxEnd /\ Place(f) \in Int /\ Place(f) + Offset = First(f)
            /\ Offset \in Int /\ Offset + RxEnd = air - Len(chunk) + 1
        BY <1>0, <2>0, PlaceFacts
      <4>2. RxEnd <= Place(f) BY <1>2, <1>3, <1>4, <1>7, <2>0, <2>5, <4>1
      <4> QED BY <1>3, <4>1, <4>2
    <3>2. ASSUME NEW i \in First(f) .. f.at + Length[f.kind] - 1, i <= air' PROVE Heard(i)'
      <4>1. i = air' BY <1>2, <1>3, <1>7, <2>0, <2>5, <3>2
      <4> QED BY <2>3, <4>1
    <3> QED BY <1>4, <1>5, <3>1, <3>2 DEF Sound
  <2> QED BY <1>2, <1>3, <1>7, <2>0, <2>4, <2>5
<1>14. Lag'
  <2>1. ASSUME Current PROVE BufferStart <= stream.end /\ (RxEnd + 1) - stream.end <= MaxLag
    <3>1. sender # "onAir" BY <2>1 DEF PassInv, Silent
    <3>2. RxEnd - stream.end < MaxLag BY <1>2, <2>1, <3>1 DEF KeepsUp, Unread, Current
    <3>3. BufferStart <= stream.end BY <2>1 DEF PassInv, Lag
    <3> QED BY <1>0, <1>3, <3>2, <3>3, PaceFacts
  <2>2. ASSUME ~Current, sender # "onAir" PROVE held + 1 <= MaxLag
    <3>1. held < MaxLag BY <1>2, <2>2 DEF KeepsUp, Unread, Current
    <3> QED BY <1>0, <1>3, <3>1, PaceFacts
  <2> QED BY <1>2, <1>4, <2>1, <2>2 DEF Lag
<1>15. (Current => SearchInv)' BY <1>2, <1>4, <1>8, QuietSearch DEF PassInv, OnceInv
<1> QED BY <1>1, <1>9, <1>12, <1>13, <1>14, <1>15 DEF PassInv

\* A sample is appended where it belongs.
LEMMA AppendPass == ASSUME PassInv, CallbackAppends PROVE PassInv'
<1>0. CaptureInv /\ OnceInv BY DEF PassInv, OnceInv
<1>1. OnceInv' BY <1>0, AppendOnce
<1>2. PICK v \in {Own, air} : chunk = <<v>> /\ tape'[RxEnd + 1] = v
  BY <1>0, AppendFacts
<1>3. /\ UNCHANGED <<layout, air, generation, sender, stream, decoder, round, delivered, gone>>
      /\ chunk' = <<>> /\ RxEnd' = RxEnd + 1 /\ held' = Smaller(held + 1, Capacity + 1)
      /\ \A p \in 1 .. RxEnd : tape'[p] = tape[p]
  BY <1>0, AppendFacts
<1>4. /\ air \in Nat /\ RxEnd \in Nat /\ held \in Nat /\ stream.end \in Nat /\ stream.start \in Nat
      /\ BufferStart \in Nat /\ stream.start <= stream.end /\ stream.end <= RxEnd
  BY <1>0, TapeFacts
<1>5. Capacity \in Nat /\ MaxLag \in Nat /\ held <= Capacity + 1
      /\ MaxLag < Capacity
  BY <1>0, PaceFacts DEF CaptureInv, Types, Recording
<1>6. /\ Len(chunk) = 1 /\ Len(chunk') = 0 /\ UNCHANGED <<Current, Undelivered, Offset>>
      /\ Offset + RxEnd = air /\ Offset \in Int
  <2>1. Len(chunk) = 1 /\ Len(chunk') = 0 BY <1>2, <1>3
  <2>2. UNCHANGED Offset BY <1>3, <1>4, <2>1 DEF Offset
  <2>3. Offset + RxEnd = air /\ Offset \in Int BY <1>4, <2>1 DEF Offset
  <2> QED BY <1>3, <2>1, <2>2, <2>3 DEF Current, Undelivered
<1>7. \A f : Place(f)' = Place(f) /\ First(f)' = First(f)
  BY <1>6 DEF Place, First, Peak
<1>8. \A f \in layout : f.at \in Nat /\ First(f) \in Nat /\ Place(f) \in Int /\ Place(f) + Offset = First(f)
  BY <1>0, AirFacts, PlaceFacts
<1>9. ASSUME NEW i \in Int, i <= air, i >= Offset PROVE Heard(i)' <=> Heard(i)
  <2>1. Heard(i)' <=> tape'[i - Offset + 1] = i BY <1>3, <1>6 DEF Heard
  <2>2. CASE i = air
    <3>1. i - Offset + 1 = RxEnd + 1 BY <1>4, <1>6, <2>2
    <3>2. Heard(i) <=> chunk[1] = i BY <1>2, <2>2 DEF Heard
    <3> QED BY <1>2, <2>1, <3>1, <3>2
  <2>3. CASE i # air
    <3>1. i - Offset + 1 \in 1 .. RxEnd BY <1>4, <1>6, <1>9, <2>3
    <3>2. Heard(i) <=> tape[i - Offset + 1] = i BY <2>3 DEF Heard
    <3> QED BY <1>3, <2>1, <3>1, <3>2
  <2> QED BY <2>2, <2>3
<1>10. Front \in Nat /\ Front' \in Nat /\ Front <= Front' /\ Front' <= RxEnd' /\ (Current => Front' = Front)
  <2>1. BufferStart' = (RxEnd + 1) - held' /\ held' = Smaller(held + 1, Capacity + 1)
    <3>1. RxEnd' = RxEnd + 1 BY <1>3
    <3> QED BY <1>3, <3>1 DEF BufferStart
  <2>2. BufferStart <= BufferStart' /\ BufferStart' \in Nat /\ BufferStart' <= RxEnd + 1
    <3>1. held <= RxEnd BY DEF PassInv, OnceInv, CaptureInv, Types, Recording
    <3> QED BY <1>4, <1>5, <2>1, <3>1 DEF BufferStart, Smaller
  <2> QED BY <1>3, <1>4, <1>6, <2>2 DEF Front
<1>11. ASSUME NEW f \in Undelivered, f.good, Front' = Front, Front <= Place(f)
       PROVE  f \in Sound' <=> f \in Sound
  <2>1. f \in layout BY DEF Undelivered
  <2>2. \A i \in First(f) .. f.at + Length[f.kind] - 1 : i \in Int /\ i >= Offset
    <3>1. First(f) \in Int /\ First(f) >= Offset BY <1>6, <1>8, <1>10, <1>11, <2>1
    <3> QED BY <1>6, <3>1
  <2>3. \A i \in First(f) .. f.at + Length[f.kind] - 1 : i <= air => (Heard(i)' <=> Heard(i))
    BY <1>9, <2>2
  <2> QED BY <1>3, <1>6, <1>7, <1>11, <2>3 DEF Sound
<1>12. Current => Sound' \subseteq Sound
  <2> SUFFICES ASSUME Current, NEW f \in Sound' PROVE f \in Sound OBVIOUS
  <2>1. f \in Undelivered /\ f.good /\ Front <= Place(f) BY <1>6, <1>7, <1>10 DEF Sound
  <2> QED BY <1>10, <1>11, <2>1
<1>13. Aligned'
  <2> SUFFICES ASSUME NEW p \in Front' .. RxEnd' - 1 PROVE tape'[p + 1] \in {Own, p + Offset}
    BY <1>6 DEF Aligned
  <2>1. CASE p = RxEnd BY <1>2, <1>4, <1>6, <2>1
  <2>2. CASE p # RxEnd
    <3>1. p \in Front .. RxEnd - 1 /\ p + 1 \in 1 .. RxEnd BY <1>3, <1>4, <1>10, <2>2
    <3> QED BY <1>3, <3>1 DEF PassInv, Aligned
  <2> QED BY <2>1, <2>2
<1>14. Tracked'
  <2> SUFFICES ASSUME NEW f \in Undelivered, f.good, f.at <= air, f \notin gone
               PROVE  f \in Sound'
    BY <1>3, <1>6 DEF Tracked
  <2>1. f \in Sound BY DEF PassInv, Tracked
  <2>2. sender # "onAir" BY DEF PassInv, Silent
  <2>3. Front' = Front
    <3>1. CASE Current BY <1>10, <3>1
    <3>2. CASE ~Current
      <4>1. held + 1 <= MaxLag BY <1>6, <2>2, <3>2 DEF PassInv, Lag
      <4>3. held' = held + 1 BY <1>3, <1>4, <1>5, <4>1 DEF Smaller
      <4>4. BufferStart' = BufferStart BY <1>3, <1>4, <4>3 DEF BufferStart
      <4> QED BY <1>6, <3>2, <4>4 DEF Front
    <3> QED BY <3>1, <3>2
  <2>4. Front <= Place(f) BY <1>0, <2>1, SoundFacts
  <2> QED BY <1>11, <2>1, <2>3, <2>4
<1>15. Silent' BY <1>3, <1>6 DEF PassInv, Silent
<1>16. Lag'
  <2>1. ASSUME Current PROVE BufferStart' <= stream.end /\ (RxEnd + 1) - stream.end <= MaxLag
    <3>1. BufferStart <= stream.end /\ (RxEnd + 1) - stream.end <= MaxLag
      BY <1>6, <2>1 DEF PassInv, Lag
    <3>2. BufferStart' = (RxEnd + 1) - held' /\ held' = Smaller(held + 1, Capacity + 1)
      <4>1. RxEnd' = RxEnd + 1 BY <1>3
      <4> QED BY <1>3, <4>1 DEF BufferStart
    <3>3. CASE held + 1 <= Capacity + 1
      BY <1>4, <1>5, <3>1, <3>2, <3>3 DEF Smaller, BufferStart
    <3>4. CASE held + 1 > Capacity + 1
      <4>1. MaxLag <= Capacity + 1 BY <1>5
      <4> QED BY <1>4, <1>5, <3>1, <3>2, <3>4, <4>1 DEF Smaller
    <3> QED BY <1>4, <1>5, <3>1, <3>3, <3>4
  <2>2. ASSUME ~Current, sender # "onAir" PROVE held' <= MaxLag
    <3>1. held + 1 <= MaxLag BY <1>6, <2>2 DEF PassInv, Lag
    <3> QED BY <1>3, <1>4, <1>5, <3>1 DEF Smaller
  <2>3. RxEnd' = RxEnd + 1 /\ Len(chunk') = 0 /\ UNCHANGED <<stream, sender>> /\ (Current' <=> Current)
    BY <1>3, <1>6
  <2>4. Current => (RxEnd' + Len(chunk')) - stream.end <= MaxLag
    BY <1>4, <2>1, <2>3
  <2>5. ~Current /\ sender # "onAir" => held' + Len(chunk') <= MaxLag
    <3>1. held' \in Nat BY <1>3, <1>4, <1>5 DEF Smaller
    <3> QED BY <2>2, <2>3, <3>1
  <2>6. Current => BufferStart' <= stream.end BY <2>1
  <2>7. Current' => BufferStart' <= stream'.end /\ (RxEnd' + Len(chunk')) - stream'.end <= MaxLag
    BY <2>3, <2>4, <2>6
  <2>8. ~Current' /\ sender' # "onAir" => held' + Len(chunk') <= MaxLag
    BY <2>3, <2>5
  <2> QED BY <2>7, <2>8 DEF Lag
<1>17. (Current => SearchInv)' BY <1>3, <1>6, <1>12, QuietSearch DEF PassInv, OnceInv
<1> QED BY <1>1, <1>13, <1>14, <1>15, <1>16, <1>17 DEF PassInv

----------------------------------------------------------------------------
(* A round of the decode thread *)

\* What has been read is new to nobody who was waiting for it: no frame that may
\* still be decoded begins before the ring that is left, and at most one is whole.
LEMMA ReadPass == ASSUME PassInv, Read PROVE PassInv'
<1>0. CaptureInv /\ OnceInv BY DEF PassInv, OnceInv
<1>1. OnceInv' BY <1>0, ReadOnce
<1>2. /\ UNCHANGED <<layout, air, chunk, tape, held, generation, delivered, gone, sender, RxEnd>>
      /\ sender = "idle" /\ decoder = "poll" /\ round' = NewRound
      /\ stream'.generation = generation /\ stream'.end = RxEnd
      /\ decoder' = IF stream'.start = stream'.end THEN "poll" ELSE "control"
  BY <1>0, ReadFacts DEF card, buffer, own, ghost
<1>3. /\ RxEnd \in Nat /\ BufferStart \in Nat /\ BufferStart <= RxEnd /\ held \in Nat
      /\ stream.start \in Nat /\ stream.end \in Nat
      /\ stream.start <= stream.end /\ stream.end <= RxEnd
  BY <1>0, TapeFacts
<1>4. /\ MaxLag \in Nat \ {0} /\ Capacity \in Nat /\ MaxLag < Capacity
      /\ Preamble \in Nat /\ Guard \in Nat
      /\ \A f \in layout : /\ Length[f.kind] \in Nat \ {0} /\ MaxLag < Length[f.kind]
                           /\ MaxLag + Length[f.kind] <= Capacity
  BY <1>0, AirFacts, PaceFacts
<1>5. Current => BufferStart <= stream.end /\ (RxEnd + Len(chunk)) - stream.end <= MaxLag
  BY DEF PassInv, Lag
<1>6. ~Current => held + Len(chunk) <= MaxLag
  BY <1>2 DEF PassInv, Lag
<1>7. Len(chunk) \in {0, 1} BY <1>0, PlaceFacts
<1>8. Current' BY <1>2 DEF Current
<1>9. UNCHANGED <<Offset, BufferStart, Undelivered>>
  BY <1>2 DEF Offset, BufferStart, Undelivered
<1>10. \A f : Place(f)' = Place(f) /\ First(f)' = First(f)
  BY <1>9 DEF Place, First, Peak
<1>11. \A i : Heard(i)' <=> Heard(i) BY <1>2, <1>9 DEF Heard
\* The ring that is left
<1>12. /\ stream'.start \in Nat /\ Front' = stream'.start /\ Front \in Nat /\ Front <= stream'.start
       /\ stream'.start <= RxEnd
       /\ \A f \in Sound : stream'.start <= Place(f)
  <2>0. Front' = stream'.start BY <1>8 DEF Front
  <2>1. CASE Current
    <3>1. stream'.start = Larger(stream.start, RxEnd - Capacity) BY <1>0, <1>5, <2>1, ReadFacts
    <3>2. ASSUME NEW f \in Sound PROVE stream'.start <= Place(f)
      <4>1. f \in layout /\ Place(f) \in Nat /\ stream.start <= Place(f)
        BY <1>0, <2>1, <3>2, SoundFacts DEF Front
      <4>2. ~RipeAt(f) BY <1>2, <2>1, <3>2 DEF PassInv, SearchInv, NoneRipe, Ripe
      <4>3. Length[f.kind] \in Nat BY <1>4, <4>1
      <4>4. Place(f) + Length[f.kind] > stream.end BY <1>3, <4>1, <4>2, <4>3 DEF RipeAt
      <4>5. MaxLag + Length[f.kind] <= Capacity BY <1>4, <4>1
      <4>6. RxEnd - stream.end <= MaxLag BY <1>3, <1>4, <1>5, <1>7, <2>1
      <4>7. RxEnd - Capacity <= Place(f) BY <1>3, <1>4, <4>1, <4>3, <4>4, <4>5, <4>6
      <4> QED BY <3>1, <4>1, <4>7 DEF Larger
    <3>3. stream'.start \in Nat /\ stream.start <= stream'.start /\ stream'.start <= RxEnd
      BY <1>3, <1>4, <3>1 DEF Larger
    <3> QED BY <1>3, <2>0, <2>1, <3>2, <3>3 DEF Front
  <2>2. CASE ~Current
    <3>1. stream'.start = Larger(BufferStart, RxEnd - Capacity) BY <1>0, <2>2, ReadFacts
    <3>2. held <= Capacity BY <1>3, <1>4, <1>6, <1>7, <2>2
    <3>3. stream'.start = BufferStart BY <1>3, <1>4, <3>1, <3>2 DEF Larger, BufferStart
    <3>4. Front = BufferStart BY <2>2 DEF Front
    <3> QED BY <1>0, <1>3, <2>0, <3>3, <3>4, SoundFacts
  <2> QED BY <2>1, <2>2
<1>13. Sound' = Sound
  <2>1. Sound' \subseteq Sound
    <3> SUFFICES ASSUME NEW f \in Sound' PROVE f \in Sound OBVIOUS
    <3>1. /\ f \in Undelivered /\ f.good /\ stream'.start <= Place(f)
          /\ \A i \in First(f) .. f.at + Length[f.kind] - 1 : i <= air => Heard(i)
      BY <1>2, <1>9, <1>10, <1>11, <1>12 DEF Sound
    <3>2. Place(f) \in Int BY <1>0, <3>1, PlaceFacts DEF Undelivered
    <3>3. Front <= Place(f) BY <1>12, <3>1, <3>2
    <3> QED BY <3>1, <3>3 DEF Sound
  <2>2. Sound \subseteq Sound'
    <3> SUFFICES ASSUME NEW f \in Sound PROVE f \in Sound' OBVIOUS
    <3>1. /\ f \in Undelivered /\ f.good
          /\ \A i \in First(f) .. f.at + Length[f.kind] - 1 : i <= air => Heard(i)
      BY <1>0, SoundFacts
    <3> QED BY <1>2, <1>9, <1>10, <1>11, <1>12, <3>1 DEF Sound
  <2> QED BY <2>1, <2>2
<1>14. Aligned'
  <2>1. \A p \in stream'.start .. RxEnd - 1 : p \in Front .. RxEnd - 1 BY <1>3, <1>12
  <2> QED BY <1>2, <1>9, <1>12, <2>1 DEF PassInv, Aligned
<1>15. Tracked' BY <1>2, <1>9, <1>13 DEF PassInv, Tracked
<1>16. Silent' BY <1>2 DEF Silent
<1>17. Lag'
  <2>1. (RxEnd + Len(chunk)) - RxEnd <= MaxLag
    <3>1. ASSUME NEW n \in {0, 1} PROVE (RxEnd + n) - RxEnd <= MaxLag BY <1>3, <1>4, <3>1
    <3> QED BY <1>7, <3>1
  <2> QED BY <1>2, <1>3, <1>8, <1>9, <2>1 DEF Lag
\* The round that begins
<1>18. Current => /\ stream'.start >= stream.start
                  /\ stream'.cursor = stream.cursor /\ stream'.candidates = stream.candidates
                  /\ stream'.attempted = stream.attempted
  <2> SUFFICES ASSUME Current PROVE /\ stream'.start >= stream.start
                  /\ stream'.cursor = stream.cursor /\ stream'.candidates = stream.candidates
                  /\ stream'.attempted = stream.attempted
    OBVIOUS
  <2>1. Front = stream.start BY DEF Front
  <2> QED BY <1>0, <1>3, <1>5, <1>12, <2>1, ReadFacts
<1>19. ~Current => /\ stream'.cursor = BufferStart /\ stream'.candidates = {}
                   /\ stream'.attempted = {} /\ Front = BufferStart
  BY <1>0, ReadFacts DEF Front
<1>20. \A f \in Sound : f \in layout /\ Place(f) \in Nat /\ Length[f.kind] \in Nat \ {0}
  BY <1>0, <1>4, SoundFacts
<1>21. \A f : RipeAt(f)' <=> Place(f) + Length[f.kind] <= RxEnd BY <1>2, <1>10 DEF RipeAt
<1>22. NoneRipe'
  <2> SUFFICES ASSUME decoder' \in {"poll", "over"}, NEW f \in Sound, RipeAt(f)' PROVE FALSE
    BY <1>13 DEF NoneRipe, Ripe
  <2>1. stream'.start = RxEnd BY <1>2
  <2> QED BY <1>3, <1>12, <1>20, <1>21, <2>1
<1>23. OneRipe'
  <2> SUFFICES ASSUME NEW f \in Sound, NEW g \in Sound, RipeAt(f)', RipeAt(g)', f # g PROVE FALSE
    BY <1>13 DEF OneRipe, Ripe
  <2>1. /\ Place(f) + Length[f.kind] <= RxEnd /\ Place(g) + Length[g.kind] <= RxEnd
        /\ Place(f) \in Nat /\ Place(g) \in Nat
        /\ Length[f.kind] \in Nat \ {0} /\ Length[g.kind] \in Nat \ {0}
        /\ MaxLag < Length[f.kind] /\ MaxLag < Length[g.kind]
    BY <1>4, <1>20, <1>21
  <2>2. CASE Current
    <3>1. /\ ~(Place(f) + Length[f.kind] <= stream.end)
          /\ ~(Place(g) + Length[g.kind] <= stream.end)
      BY <1>2, <2>2 DEF PassInv, SearchInv, NoneRipe, Ripe, RipeAt
    <3>2. RxEnd - stream.end <= MaxLag BY <1>3, <1>4, <1>5, <1>7, <2>2
    <3>3. \/ Place(f) + Length[f.kind] <= Place(g) + 1
          \/ Place(g) + Length[g.kind] <= Place(f) + 1
      BY <1>0, <1>20, PlacesApart
    <3>4. ASSUME NEW a \in Nat, NEW n \in Nat, NEW b \in Nat, NEW m \in Nat,
                 ~(a + n <= stream.end), b + m <= RxEnd, a + n <= b + 1, MaxLag < m
          PROVE  FALSE
      BY <1>3, <1>4, <3>2, <3>4
    <3>5. CASE Place(f) + Length[f.kind] <= Place(g) + 1 BY <2>1, <3>1, <3>4, <3>5
    <3>6. CASE Place(g) + Length[g.kind] <= Place(f) + 1 BY <2>1, <3>1, <3>4, <3>6
    <3> QED BY <3>3, <3>5, <3>6
  <2>3. CASE ~Current
    <3>1. Front = BufferStart /\ held <= MaxLag BY <1>3, <1>4, <1>6, <1>7, <1>19, <2>3
    <3>2. BufferStart <= Place(f) BY <1>0, <3>1, SoundFacts
    <3>3. held = RxEnd - BufferStart BY <1>3 DEF BufferStart
    <3> QED BY <1>3, <1>4, <2>1, <3>1, <3>2, <3>3
  <2> QED BY <2>2, <2>3
<1>24. NoControl' /\ Chosen' BY <1>2 DEF NoControl, Chosen
<1>25. Misses' BY <1>2 DEF Misses, NewRound
<1>26. Searchable'
  <2>1. CASE Current
    <3>1. \A f \in Sound : f.kind = "data" /\ Place(f) < stream.cursor => Place(f) \in stream.candidates
      BY <2>1 DEF PassInv, SearchInv, Searchable
    <3>2. stream.cursor \in Nat BY <1>0 DEF CaptureInv, Types, StreamShape
    <3>3. stream.cursor > stream'.start => stream.cursor + Preamble + Guard <= RxEnd + 1
      <4>1. stream.cursor > stream'.start => stream.cursor > stream.start
        BY <1>3, <1>12, <1>18, <2>1, <3>2
      <4>2. stream.cursor > stream.start => stream.cursor + Preamble + Guard <= stream.end + 1
        BY <2>1 DEF PassInv, SearchInv, Searchable
      <4> QED BY <1>3, <1>4, <3>2, <4>1, <4>2
    <3> QED BY <1>2, <1>10, <1>13, <1>18, <2>1, <3>1, <3>3 DEF Searchable
  <2>2. CASE ~Current
    <3>1. \A f \in Sound : ~(Place(f) < BufferStart)
      BY <1>0, <1>3, <1>19, <1>20, <2>2, SoundFacts
    <3>2. ~(BufferStart > stream'.start) BY <1>3, <1>12, <1>19, <2>2
    <3> QED BY <1>2, <1>10, <1>13, <1>19, <2>2, <3>1, <3>2 DEF Searchable
  <2> QED BY <2>1, <2>2
<1>27. Attempts'
  <2>1. CASE Current
    <3>1. \A c \in stream.attempted : c \in Nat /\ c + Length["data"] <= stream.end
      BY <2>1 DEF PassInv, SearchInv, Attempts
    <3>2. \A c \in stream.attempted : c \in Nat /\ c + Length["data"] <= RxEnd
      BY <1>0, <1>3, <3>1, AirFacts
    <3>3. \A f \in Sound : ~(f.kind = "data" /\ Place(f) \in stream.attempted)
      BY <1>2, <2>1 DEF PassInv, SearchInv, Attempts
    <3> QED BY <1>2, <1>10, <1>13, <1>18, <2>1, <3>2, <3>3 DEF Attempts
  <2>2. CASE ~Current BY <1>19, <2>2 DEF Attempts
  <2> QED BY <2>1, <2>2
\* The control frame that this read may have completed
<1>29. ASSUME NEW h \in Synced'
       PROVE  /\ h \in layout /\ h.kind = "control" /\ h.at \in Nat
              /\ Place(h) \in Int /\ Place(h) + Offset = h.at /\ Offset \in Int
              /\ stream'.start <= Place(h) /\ Place(h) + Sync <= RxEnd
              /\ \A k \in 0 .. Sync - 1 : tape[(Place(h) + k) + 1] = h.at + k
  <2>1. h \in layout /\ h.kind = "control" /\ Hears(Place(h), h.at, Sync)'
    BY <1>2, <1>10, <1>29 DEF Synced
  <2>2. h.at \in Nat /\ First(h) = h.at BY <1>0, <2>1, AirFacts
  <2>3. Place(h) \in Int /\ Place(h) + Offset = h.at /\ Offset \in Int
    BY <1>0, <2>1, <2>2, PlaceFacts
  <2>4. /\ stream'.start <= Place(h) /\ Place(h) + Sync <= RxEnd
        /\ \A k \in 0 .. Sync - 1 : At(Place(h) + k)' = h.at + k
    BY <1>2, <1>10, <2>1 DEF Hears, Retained
  <2>5. ASSUME NEW k \in 0 .. Sync - 1 PROVE tape[(Place(h) + k) + 1] = h.at + k
    <3>1. Sync \in Nat BY <1>0, AirFacts
    <3>2. Place(h) + k \in Retained'
      BY <1>2, <1>3, <1>12, <2>3, <2>4, <2>5, <3>1 DEF Retained
    <3>3. Faithful' BY <1>1 DEF OnceInv, CaptureInv
    <3>4. At(Place(h) + k)' = tape'[(Place(h) + k) + 1] BY <3>2, <3>3, <1>10 DEF Faithful
    <3> QED BY <1>2, <2>4, <2>5, <3>4
  <2> QED BY <2>1, <2>2, <2>3, <2>4, <2>5
<1>30. Sync \in Nat \ {0} /\ Length["control"] \in Nat \ {0} /\ Sync <= Length["control"]
       /\ MaxLag < Length["control"]
  BY <1>0, AirFacts, PaceAssumption
<1>31. ASSUME Current, NEW h \in Synced' PROVE ~(Place(h) + Length["control"] <= stream.end)
  <2> SUFFICES ASSUME Place(h) + Length["control"] <= stream.end PROVE FALSE OBVIOUS
  <2>1. /\ stream.start <= Place(h) /\ Place(h) \in Int /\ Place(h) + Sync <= stream.end
        /\ Place(h) \in Retained
    BY <1>3, <1>12, <1>18, <1>29, <1>30, <1>31 DEF Retained
  <2>2. ASSUME NEW k \in 0 .. Sync - 1 PROVE At(Place(h) + k) = h.at + k
    <3>1. Place(h) + k \in Retained BY <1>3, <1>30, <2>1, <2>2 DEF Retained
    <3>2. At(Place(h) + k) = tape[(Place(h) + k) + 1]
      BY <1>0, <3>1 DEF CaptureInv, Faithful
    <3> QED BY <1>29, <1>31, <2>2, <3>2
  <2>3. h \in Synced BY <1>29, <1>31, <2>1, <2>2 DEF Synced, Hears
  <2>4. h \in Whole BY <1>29, <1>31, <2>3 DEF Whole, RipeAt
  <2> QED BY <1>2, <1>31, <2>4 DEF PassInv, SearchInv, WholeInv, NoneWhole
<1>32. ASSUME NEW h \in Whole'
       PROVE  /\ Current /\ h \in Synced' /\ Place(h) + Length["control"] <= RxEnd
              /\ ~(Place(h) + Length["control"] <= stream.end)
              /\ RxEnd - stream.end <= MaxLag
  <2>1. h \in Synced' /\ Place(h) + Length["control"] <= RxEnd
    BY <1>21, <1>29, <1>32 DEF Whole
  <2>2. CASE Current
    <3>1. RxEnd - stream.end <= MaxLag BY <1>3, <1>4, <1>5, <1>7, <2>2
    <3> QED BY <1>31, <2>1, <2>2, <3>1
  <2>3. CASE ~Current
    <3>1. Front = BufferStart /\ held <= MaxLag BY <1>3, <1>4, <1>6, <1>7, <1>19, <2>3
    <3>2. BufferStart <= Place(h) /\ Place(h) \in Int BY <1>3, <1>12, <1>29, <2>1, <3>1
    <3>3. held = RxEnd - BufferStart BY <1>3 DEF BufferStart
    <3> QED BY <1>3, <1>4, <1>30, <2>1, <3>1, <3>2, <3>3
  <2> QED BY <2>2, <2>3
<1>33. NoneWhole'
  <2> SUFFICES ASSUME decoder' = "poll", NEW h \in Whole' PROVE FALSE BY DEF NoneWhole
  <2>1. stream'.start = RxEnd BY <1>2
  <2> QED BY <1>3, <1>29, <1>30, <1>32, <2>1
<1>34. OneWhole'
  <2> SUFFICES ASSUME NEW h \in Whole'
               PROVE  /\ \A g \in Synced' : g = h
                      /\ \A f \in Sound : RipeAt(f)' => f = h
                      /\ RxEnd < Place(h) + Length["control"] + MaxLag
    BY <1>2, <1>10, <1>13, <1>32 DEF OneWhole, Ripe
  <2>0. /\ Current /\ h \in Synced' /\ Place(h) + Length["control"] <= RxEnd
        /\ ~(Place(h) + Length["control"] <= stream.end) /\ RxEnd - stream.end <= MaxLag
        /\ Place(h) \in Int /\ h \in layout /\ h.kind = "control" /\ h.at \in Nat
        /\ Place(h) + Offset = h.at /\ Offset \in Int
    BY <1>29, <1>32
  <2>1. RxEnd < Place(h) + Length["control"] + MaxLag BY <1>3, <1>4, <1>30, <2>0
  <2>2. ASSUME NEW g \in Synced', g # h PROVE FALSE
    <3>1. /\ Place(g) \in Int /\ Place(g) + Offset = g.at /\ g.at \in Nat /\ g \in layout
          /\ g.kind = "control" /\ Place(g) + Sync <= RxEnd
          /\ ~(Place(g) + Length["control"] <= stream.end)
      BY <1>29, <1>31, <2>0, <2>2
    <3>2. g.at + Length["control"] <= h.at \/ h.at + Length["control"] <= g.at
      BY <1>0, <2>0, <2>2, <3>1, AirFacts
    <3>3. CASE g.at + Length["control"] <= h.at
      <4>1. Place(g) + Length["control"] <= Place(h) BY <1>30, <2>0, <3>1, <3>3
      <4> QED BY <1>3, <1>4, <1>30, <2>0, <3>1, <4>1
    <3>4. CASE h.at + Length["control"] <= g.at
      <4>1. h.at < g.at BY <1>30, <2>0, <3>1, <3>4
      <4>2. h.at + Length["control"] + MaxLag <= g.at + Sync
        BY <1>0, <2>0, <3>1, <4>1, TurnFacts
      <4>3. Place(h) + Length["control"] + MaxLag <= Place(g) + Sync
        BY <1>4, <1>30, <2>0, <3>1, <4>2
      <4> QED BY <1>3, <1>4, <1>30, <2>1, <2>0, <3>1, <4>3
    <3> QED BY <3>2, <3>3, <3>4
  <2>3. ASSUME NEW f \in Sound, RipeAt(f)', f # h PROVE FALSE
    <3>1. /\ f \in layout /\ Place(f) \in Nat /\ Length[f.kind] \in Nat
          /\ Place(f) + Length[f.kind] <= RxEnd /\ MaxLag < Length[f.kind]
          /\ ~(Place(f) + Length[f.kind] <= stream.end)
      <4>1. ~RipeAt(f) BY <1>2, <2>0, <2>3 DEF PassInv, SearchInv, NoneRipe, Ripe
      <4> QED BY <1>4, <1>20, <1>21, <2>3, <4>1 DEF RipeAt
    <3>2. \/ Place(f) + Length[f.kind] <= Place(h) + 1
          \/ Place(h) + Length["control"] <= Place(f) + 1
      BY <1>0, <2>0, <2>3, <3>1, PlacesApart
    <3> QED BY <1>3, <1>4, <1>30, <2>0, <3>1, <3>2
  <2> QED BY <2>1, <2>2, <2>3
<1>35. ToSkip' BY <1>2 DEF ToSkip, NewRound
<1>36. Proposed'
  <2>1. CASE Current
    <3>1. \A c \in stream.candidates : c >= stream.start =>
            c < stream.cursor /\ \E f \in layout : f.kind = "data" /\ c \in {Place(f), Place(f) + 1}
      BY <2>1 DEF PassInv, SearchInv, WholeInv, Proposed
    <3>2. \A c \in stream.candidates : c >= stream'.start => c >= stream.start
      <4>1. stream.candidates \subseteq Nat BY <1>0 DEF CaptureInv, Types, StreamShape
      <4> QED BY <1>3, <1>12, <1>18, <2>1, <4>1
    <3> QED BY <1>2, <1>10, <1>18, <2>1, <3>1, <3>2 DEF Proposed
  <2>2. CASE ~Current BY <1>19, <2>2 DEF Proposed
  <2> QED BY <2>1, <2>2
<1>37. WholeInv' BY <1>33, <1>34, <1>35, <1>36 DEF WholeInv
<1>38. SearchInv' BY <1>22, <1>23, <1>24, <1>25, <1>26, <1>27, <1>37 DEF SearchInv
<1> QED BY <1>1, <1>14, <1>15, <1>16, <1>17, <1>38 DEF PassInv

\* The sync that is found is that of the control frame that is whole, if one is.
LEMMA WholeAlone ==
  ASSUME CaptureInv, Aligned, Current, OneWhole, decoder = "control",
         NEW p \in Retained, NEW h \in layout, h.kind = "control", SyncOf(p, h),
         NEW w \in Whole
  PROVE  w = h
<1>1. First(h) = h.at BY AirFacts
<1>2. p = Place(h) BY PlaceOf DEF SyncOf
<1>3. h \in Synced BY <1>1, <1>2 DEF Synced, SyncOf
<1> QED BY <1>3 DEF OneWhole

LEMMA RipeWhole ==
  ASSUME CaptureInv, Current, NEW f \in Sound, f.kind = "control", RipeAt(f)
  PROVE  f \in Whole
<1>1. f \in layout /\ Place(f) \in Nat BY SoundFacts
<1>2. /\ Sync \in Nat \ {0} /\ Length["control"] \in Nat \ {0} /\ Sync <= Length["control"]
      /\ f.at \in Nat /\ First(f) = f.at /\ stream.end \in Nat
  BY <1>1, AirFacts, TapeFacts
<1>3. Place(f) < stream.end /\ Place(f) + Sync <= stream.end /\ First(f) + Sync <= f.at + Length[f.kind]
  BY <1>1, <1>2 DEF RipeAt
<1>4. Hears(Place(f), First(f), Sync) BY <1>2, <1>3, SoundHears
<1> QED BY <1>1, <1>2, <1>4 DEF Whole, Synced

\* What is consumed with a whole frame, less the guard at most, takes no other.
LEMMA ChosenAlone ==
  ASSUME CaptureInv, Current, OneRipe, decoder \in {"control", "data"},
         NEW h \in Sound, RipeAt(h), NEW end \in Int,
         h.kind = "control" => end = Place(h) + Length[h.kind],
         h.kind = "data" => end = Place(h) + Length[h.kind] - Guard,
         NEW f \in Sound, f # h
  PROVE  end <= Place(f) /\ ~RipeAt(f)
<1>1. /\ f \in layout /\ h \in layout /\ Place(f) \in Nat /\ Place(h) \in Nat
  BY SoundFacts
<1>2. /\ Length[f.kind] \in Nat \ {0} /\ Length[h.kind] \in Nat \ {0} /\ Guard \in Nat \ {0}
      /\ h.kind \in {"control", "data"}
  BY <1>1, AirFacts
<1>3. ~RipeAt(f) BY DEF OneRipe, Ripe
<1>4. stream.end \in Nat BY TapeFacts
<1>5. \/ /\ Place(h) + Length[h.kind] <= Place(f) + 1
         /\ h.kind = "control" => Place(h) + Length[h.kind] <= Place(f)
      \/ Place(f) + Length[f.kind] <= Place(h) + 1
  BY <1>1, PlacesApart
<1>6. ~(Place(f) + Length[f.kind] <= Place(h) + 1) BY <1>1, <1>2, <1>3, <1>4 DEF RipeAt
<1>7. end <= Place(f) BY <1>1, <1>2, <1>5, <1>6
<1> QED BY <1>3, <1>7

LEMMA ControlPass == ASSUME PassInv, TryControl PROVE PassInv'
<1>0. CaptureInv /\ OnceInv /\ Aligned BY DEF PassInv, OnceInv
<1>1. OnceInv' BY <1>0, ControlOnce
<1>2. /\ UNCHANGED <<layout, air, chunk, tape, held, generation, delivered, gone, sender, stream>>
      /\ decoder = "control" /\ decoder' \in {"data", "accept"}
  BY <1>0, ControlFacts DEF card, buffer, own, ghost, NoSync, Pending, ControlHit, ControlMiss
<1>3. /\ UNCHANGED <<Offset, Current, Front, BufferStart, RxEnd, Undelivered, Sound>>
      /\ \A f : Place(f)' = Place(f)
  BY <1>2, SameSound
<1>4. Aligned' BY <1>2, <1>3 DEF PassInv, Aligned
<1>5. Tracked' BY <1>2, <1>3 DEF PassInv, Tracked
<1>6. Silent' BY <1>2, <1>3 DEF PassInv, Silent
<1>7. Lag' BY <1>2, <1>3 DEF PassInv, Lag
<1>8. ASSUME Current PROVE SearchInv'
  <2>0. SearchInv BY <1>8 DEF PassInv
  <2>1. \A f : RipeAt(f)' <=> RipeAt(f) BY <1>2, <1>3 DEF RipeAt
  <2>2. Ripe' = Ripe BY <1>3, <2>1 DEF Ripe
  <2>3. NoneRipe' BY <1>2 DEF NoneRipe
  <2>4. OneRipe' BY <1>2, <2>0, <2>2 DEF SearchInv, OneRipe
  <2>5. Searchable' BY <1>2, <1>3, <2>0 DEF SearchInv, Searchable
  <2>6. Attempts'
    <3>1. \A f \in Sound : ~(f.kind = "data" /\ Place(f) \in stream.attempted)
      BY <1>2, <2>0 DEF SearchInv, Attempts
    <3> QED BY <1>2, <1>3, <2>0, <3>1 DEF SearchInv, Attempts
  <2>7. round.misses = {} BY <1>2, <2>0 DEF SearchInv, Misses
  <2>8. /\ \A f \in Sound : f \in layout /\ Place(f) \in Nat /\ f.good
        /\ Sync \in Nat \ {0} /\ Length["control"] \in Nat \ {0} /\ Sync <= Length["control"]
        /\ stream.end \in Nat
    BY <1>0, SoundFacts, AirFacts, TapeFacts
  <2>11. Synced' = Synced /\ Whole' = Whole
    <3>1. \A p, i, n : Hears(p, i, n)' <=> Hears(p, i, n) BY <1>2 DEF Hears, Retained, At
    <3>2. Synced' = Synced BY <1>2, <1>3, <3>1 DEF Synced
    <3> QED BY <2>1, <3>2 DEF Whole
  <2>12. ~round.pending BY <1>2, <2>0 DEF SearchInv, WholeInv, ToSkip
  <2>13. ASSUME ToSkip' PROVE WholeInv'
    <3>1. NoneWhole' BY <1>2 DEF NoneWhole
    <3>2. OneWhole' BY <1>2, <1>3, <2>0, <2>2, <2>11 DEF SearchInv, WholeInv, OneWhole
    <3>3. Proposed' BY <1>2, <1>3, <2>0 DEF SearchInv, WholeInv, Proposed
    <3> QED BY <2>13, <3>1, <3>2, <3>3 DEF WholeInv
  <2>9. CASE NoSync
    <3>4. WholeInv'
      <4>1. Synced = {} BY <2>9 DEF NoSync, Synced, Hears
      <4>2. Whole = {} BY <4>1 DEF Whole
      <4> QED BY <2>9, <2>11, <2>13, <4>2 DEF NoSync, ToSkip
    <3>1. NoControl'
      <4> SUFFICES ASSUME NEW f \in Sound, RipeAt(f), f.kind # "data" PROVE FALSE
        BY <2>2 DEF NoControl, Ripe
      <4>1. f.kind = "control" /\ First(f) = f.at /\ f.at \in Nat BY <1>0, <2>8, AirFacts
      <4>2. Place(f) < stream.end /\ Place(f) + Sync <= stream.end
        BY <2>8, <4>1 DEF RipeAt
      <4>3. First(f) + Sync <= f.at + Length[f.kind] BY <2>8, <4>1
      <4>4. Place(f) \in Retained /\ Hears(Place(f), First(f), Sync)
        BY <1>0, <1>8, <2>8, <4>2, <4>3, SoundHears
      <4> QED BY <2>8, <2>9, <4>1, <4>4 DEF NoSync
    <3>2. Chosen' BY <2>9 DEF NoSync, Chosen
    <3>3. Misses' BY <2>7, <2>9 DEF NoSync, Misses
    <3> QED BY <2>3, <2>4, <2>5, <2>6, <3>1, <3>2, <3>3, <3>4 DEF SearchInv
  <2>10. ASSUME NEW p \in Retained, NEW h \in layout, h.kind = "control", SyncOf(p, h),
                Pending(p, h) \/ ControlHit(p, h) \/ ControlMiss(p, h)
         PROVE  SearchInv'
    <3>1. p = Place(h) /\ p \in Nat /\ tape[p + 1] = First(h) /\ First(h) = h.at /\ h.at \in Nat
      BY <1>0, <1>8, <2>10, PlaceOf, AirFacts DEF SyncOf
    <3>0. \A w \in Whole : w = h
      BY <1>0, <1>2, <1>8, <2>0, <2>10, WholeAlone DEF SearchInv, WholeInv
    <3>2. \A f \in Sound : f.kind = "control" /\ RipeAt(f) => f = h
      BY <1>0, <1>8, <3>0, RipeWhole
    <3>3. \A f \in Sound : f.kind \in {"control", "data"} BY <1>0, <2>8, AirFacts
    <3>4. RoundShape BY <1>0 DEF CaptureInv, Types
    <3>5. CASE Pending(p, h)
      <4>1. ~RipeAt(h) BY <2>8, <2>10, <3>1, <3>5 DEF Pending, RipeAt
      <4>2. NoControl' BY <2>2, <3>2, <3>3, <4>1 DEF NoControl, Ripe
      <4>3. round'.misses = {} /\ decoder' = "data" BY <2>7, <3>4, <3>5 DEF Pending, RoundShape
      <4>4. Chosen' /\ Misses' BY <4>3 DEF Chosen, Misses
      <4>5. Whole = {} BY <3>0, <4>1 DEF Whole
      <4>6. WholeInv' BY <2>11, <2>13, <4>3, <4>5 DEF ToSkip
      <4> QED BY <2>3, <2>4, <2>5, <2>6, <4>2, <4>4, <4>6 DEF SearchInv
    <3>6. CASE ControlMiss(p, h)
      <4>1. ~(h \in Sound /\ RipeAt(h))
        <5> SUFFICES ASSUME h \in Sound, RipeAt(h) PROVE FALSE OBVIOUS
        <5>1. Place(h) < stream.end /\ Place(h) + Length["control"] <= stream.end
          BY <2>8, <2>10 DEF RipeAt
        <5>2. First(h) + Length["control"] <= h.at + Length[h.kind] BY <2>8, <2>10, <3>1
        <5>3. Length["control"] \in Nat BY <2>8
        <5>4. Hears(Place(h), First(h), Length["control"])
          BY <1>0, <1>8, <5>1, <5>2, <5>3, SoundHears
        <5> QED BY <2>8, <3>1, <3>6, <5>4 DEF ControlMiss
      <4>2. NoControl' BY <2>2, <3>2, <3>3, <4>1 DEF NoControl, Ripe
      <4>3. round'.misses = {p + Sync} /\ decoder' = "data" /\ p + Length["control"] <= stream.end
        BY <3>4, <3>6 DEF ControlMiss, RoundShape
      <4>4. Chosen' BY <4>3 DEF Chosen
      <4>5. p + Sync <= stream.end BY <2>8, <3>1, <4>3
      <4>6. ASSUME NEW f \in Sound PROVE RipeAt(f) \/ p + Sync <= Place(f)
        <5>1. CASE f = h BY <2>10, <3>1, <4>3, <5>1 DEF RipeAt
        <5>2. CASE f # h
          <6>1. \/ Place(h) + Length[h.kind] <= Place(f)
                \/ Place(f) + Length[f.kind] <= Place(h) + 1
            BY <1>0, <2>8, <2>10, <4>6, <5>2, PlacesApart
          <6>2. Length[f.kind] \in Nat /\ Place(f) \in Nat BY <1>0, <2>8, <4>6, AirFacts
          <6>3. CASE Place(h) + Length[h.kind] <= Place(f) BY <2>8, <2>10, <3>1, <6>2, <6>3
          <6>4. CASE Place(f) + Length[f.kind] <= Place(h) + 1
            BY <2>8, <3>1, <4>3, <6>2, <6>4 DEF RipeAt
          <6> QED BY <6>1, <6>3, <6>4
        <5> QED BY <5>1, <5>2
      <4>7. Misses' BY <1>2, <1>3, <2>1, <4>3, <4>5, <4>6 DEF Misses
      <4>8. ~round'.pending BY <2>12, <3>4, <3>6 DEF ControlMiss, RoundShape
      <4>9. \A w \in Whole : round'.misses = {Place(w) + Sync} BY <3>0, <3>1, <4>3
      <4>10. WholeInv' BY <1>3, <2>11, <2>13, <4>3, <4>8, <4>9 DEF ToSkip
      <4> QED BY <2>3, <2>4, <2>5, <2>6, <4>2, <4>4, <4>7, <4>10 DEF SearchInv
    <3>7. CASE ControlHit(p, h)
      <4>1. /\ decoder' = "accept" /\ round'.frame = {h} /\ round'.end = p + Length["control"]
            /\ p + Length["control"] <= stream.end /\ h.good
            /\ Hears(p, First(h), Length["control"])
        BY <3>4, <3>7 DEF ControlHit, RoundShape
      <4>2. h \in Sound
        <5>1. Length["control"] = h.at + Length[h.kind] - First(h) /\ Length["control"] \in Nat
          BY <2>8, <2>10, <3>1
        <5> QED BY <1>0, <1>8, <3>1, <4>1, <5>1, DecodedSound
      <4>3. RipeAt(h) BY <2>10, <3>1, <4>1 DEF RipeAt
      <4>4. round'.end \in Int /\ round'.end = Place(h) + Length[h.kind]
        BY <2>8, <2>10, <3>1, <4>1
      <4>5. OneRipe BY <2>0 DEF SearchInv
      <4>6. \A f \in Sound : f = h \/ (round'.end <= Place(f) /\ ~RipeAt(f))
        BY <1>0, <1>2, <1>8, <2>10, <4>2, <4>3, <4>4, <4>5, ChosenAlone
      <4>7. Chosen' BY <1>2, <1>3, <2>1, <4>1, <4>6 DEF Chosen
      <4>8. NoControl' /\ Misses' BY <4>1 DEF NoControl, Misses
      <4>9. \A w \in Whole : Place(w) < round'.end BY <2>8, <3>0, <3>1, <4>1
      <4>10. WholeInv' BY <1>3, <2>11, <2>13, <4>1, <4>9 DEF ToSkip
      <4> QED BY <2>3, <2>4, <2>5, <2>6, <4>7, <4>8, <4>10 DEF SearchInv
    <3> QED BY <2>10, <3>5, <3>6, <3>7
  <2> QED BY <1>0, <2>9, <2>10, ControlFacts
<1> QED BY <1>1, <1>3, <1>4, <1>5, <1>6, <1>7, <1>8 DEF PassInv

LEMMA AcceptPass == ASSUME PassInv, Accept PROVE PassInv'
<1>1. OnceInv' BY AcceptOnce DEF PassInv
<1>2. /\ UNCHANGED <<layout, air, chunk, tape, held, generation, delivered, gone, sender, stream>>
      /\ decoder = "accept"
      /\ Current => decoder' = "take" /\ round' = round
  BY DEF Accept, card, buffer, own, ghost, Current
<1>3. /\ UNCHANGED <<Offset, Current, Front, BufferStart, RxEnd, Undelivered, Sound>>
      /\ \A f : Place(f)' = Place(f)
  BY <1>2, SameSound
<1>4. Aligned' BY <1>2, <1>3 DEF PassInv, Aligned
<1>5. Tracked' BY <1>2, <1>3 DEF PassInv, Tracked
<1>6. Silent' BY <1>2, <1>3 DEF PassInv, Silent
<1>7. Lag' BY <1>2, <1>3 DEF PassInv, Lag
<1>8. ASSUME Current PROVE SearchInv'
  <2>0. SearchInv BY <1>8 DEF PassInv
  <2>1. \A f : RipeAt(f)' <=> RipeAt(f) BY <1>2, <1>3 DEF RipeAt
  <2>2. decoder' = "take" /\ round' = round BY <1>2, <1>8
  <2>3. NoneRipe' /\ NoControl' /\ OneRipe' /\ Misses'
    BY <2>2 DEF NoneRipe, NoControl, OneRipe, Misses
  <2>4. Chosen' BY <1>2, <1>3, <2>0, <2>1, <2>2 DEF SearchInv, Chosen
  <2>5. Searchable' BY <1>2, <1>3, <2>0 DEF SearchInv, Searchable
  <2>6. Attempts' BY <1>2, <1>3, <2>0, <2>2 DEF SearchInv, Attempts
  <2>7. Synced' = Synced /\ Whole' = Whole
    <3>1. \A p, i, n : Hears(p, i, n)' <=> Hears(p, i, n) BY <1>2 DEF Hears, Retained, At
    <3>2. Synced' = Synced BY <1>2, <1>3, <3>1 DEF Synced
    <3> QED BY <2>1, <3>2 DEF Whole
  <2>8. Ripe' = Ripe BY <1>3, <2>1 DEF Ripe
  <2>9. NoneWhole' /\ OneWhole'
    BY <1>2, <1>3, <2>0, <2>2, <2>7, <2>8 DEF SearchInv, WholeInv, NoneWhole, OneWhole
  <2>10. ToSkip' BY <1>2, <1>3, <2>0, <2>2, <2>7 DEF SearchInv, WholeInv, ToSkip
  <2>11. Proposed' BY <1>2, <1>3, <2>0 DEF SearchInv, WholeInv, Proposed
  <2>12. WholeInv' BY <2>9, <2>10, <2>11 DEF WholeInv
  <2> QED BY <2>3, <2>4, <2>5, <2>6, <2>12 DEF SearchInv
<1> QED BY <1>1, <1>3, <1>4, <1>5, <1>6, <1>7, <1>8 DEF PassInv

\* Whole blocks.
LEMMA WholeBlocks ==
  ASSUME NEW n \in Nat, NEW b \in Nat \ {0}
  PROVE  (n \div b) * b \in Nat /\ (n \div b) * b <= n /\ n < (n \div b) * b + b
<1>1. n = b * (n \div b) + (n % b) /\ n % b \in 0 .. b - 1 /\ n \div b \in Nat OBVIOUS
<1> DEFINE q == n \div b
           r == n % b
<1>2. q \in Nat /\ r \in Nat /\ r < b /\ n = b * q + r BY <1>1
<1> HIDE DEF q, r
<1>3. q * b = b * q /\ q * b \in Nat BY <1>2
<1>4. q * b <= n /\ n < q * b + b BY <1>2, <1>3
<1> QED BY <1>3, <1>4 DEF q

\* The cursor of the search.
LEMMA SearchedEnd ==
  ASSUME CaptureInv,
         NEW from \in Nat, from = Larger(stream.cursor, stream.start)
  PROVE  /\ Searched.cursor = SearchEnd(from) /\ SearchEnd(from) \in Nat
         /\ from <= SearchEnd(from)
         /\ SearchEnd(from) = from \/ SearchEnd(from) + Preamble + Guard <= stream.end + 1
         /\ \A p \in Nat : p + Preamble + Guard + SearchBlock <= stream.end + 1 => p < SearchEnd(from) \/ p < from
<1> DEFINE x == from + Preamble - 1 + Guard
           room == Larger(0, stream.end - x)
           whole == (room \div SearchBlock) * SearchBlock
<1>1. Preamble \in Nat /\ Guard \in Nat /\ SearchBlock \in Nat \ {0} /\ stream.end \in Nat
  BY ReceiverAssumption, TapeFacts
<1>2. x \in Int /\ x = (from + Preamble + Guard) - 1 BY <1>1
<1>3. room \in Nat /\ (room = 0 \/ room = stream.end - x) /\ room >= stream.end - x
  <2> HIDE DEF x
  <2>1. stream.end - x \in Int BY <1>1, <1>2
  <2> QED BY <2>1 DEF Larger
<1>4. whole \in Nat /\ whole <= room /\ room < whole + SearchBlock
  <2> HIDE DEF room
  <2> QED BY <1>1, <1>3, WholeBlocks
<1>5. SearchEnd(from) = from + whole BY DEF SearchEnd
<1>6. Searched.cursor = SearchEnd(from) BY DEF Searched
<1> HIDE DEF whole, room, x
<1>7. SearchEnd(from) \in Nat /\ from <= SearchEnd(from) BY <1>4, <1>5
<1>8. SearchEnd(from) = from \/ SearchEnd(from) + Preamble + Guard <= stream.end + 1
  BY <1>1, <1>2, <1>3, <1>4, <1>5
<1>9. ASSUME NEW p \in Nat, p + Preamble + Guard + SearchBlock <= stream.end + 1
      PROVE  p < SearchEnd(from) \/ p < from
  BY <1>1, <1>2, <1>3, <1>4, <1>5, <1>9
<1> QED BY <1>6, <1>7, <1>8, <1>9

\* The search leaves no frame's start behind, and has reached that of a whole one.
LEMMA SearchedSound ==
  ASSUME CaptureInv, Current, Searchable
  PROVE  /\ \A f \in Sound : f.kind = "data" /\ Place(f) < Searched.cursor
                               => Place(f) \in Searched.candidates
         /\ Searched.cursor > stream.start => Searched.cursor + Preamble + Guard <= stream.end + 1
         /\ \A f \in Ripe : f.kind = "data" => Place(f) \in Searched.candidates
<1> DEFINE from == Larger(stream.cursor, stream.start)
           upto == SearchEnd(from)
<1>1. stream.start \in Nat /\ stream.end \in Nat /\ stream.cursor \in Nat
  BY DEF CaptureInv, Types, StreamShape
<1>2. from \in Nat /\ stream.start <= from /\ (from = stream.cursor \/ from = stream.start) /\ stream.cursor <= from
  BY <1>1 DEF Larger
<1>3. /\ Preamble \in Nat /\ Guard \in Nat \ {0} /\ SearchBlock \in Nat \ {0}
      /\ Length["data"] \in Nat /\ Preamble + Guard + SearchBlock <= Length["data"] + 1
  BY AirFacts, PaceFacts
<1>4. /\ Searched.cursor = upto /\ upto \in Nat /\ from <= upto
      /\ upto = from \/ upto + Preamble + Guard <= stream.end + 1
      /\ \A p \in Nat : p + Preamble + Guard + SearchBlock <= stream.end + 1 => p < upto \/ p < from
  <2> HIDE DEF from
  <2> QED BY <1>2, SearchedEnd DEF from
<1>5. \A p \in Nat :
        \/ p \in stream.candidates /\ p >= stream.start
        \/ /\ p \in from .. upto - 1
           /\ \E f \in layout : f.kind = "data" /\ Hears(p, Peak(f), Preamble)
        => p \in Searched.candidates
  BY DEF Searched
<1> HIDE DEF from, upto
<1>6. stream.cursor > stream.start => stream.cursor + Preamble + Guard <= stream.end + 1
  BY DEF Searchable
<1>7. Searched.cursor > stream.start => Searched.cursor + Preamble + Guard <= stream.end + 1
  BY <1>1, <1>2, <1>3, <1>4, <1>6
<1>8. ASSUME NEW f \in Sound, f.kind = "data", Place(f) < upto
      PROVE  Place(f) \in Searched.candidates
  <2>1. f \in layout /\ Place(f) \in Nat /\ stream.start <= Place(f)
    BY SoundFacts DEF Front
  <2>2. CASE Place(f) < from
    <3>1. Place(f) < stream.cursor BY <1>1, <1>2, <2>1, <2>2
    <3>2. Place(f) \in stream.candidates BY <1>8, <3>1 DEF Searchable
    <3> QED BY <1>1, <1>5, <2>1, <3>2
  <2>3. CASE from <= Place(f)
    <3>1. Place(f) \in from .. upto - 1 BY <1>2, <1>4, <1>8, <2>1, <2>3
    <3>2. Place(f) < stream.end /\ Place(f) + Preamble <= stream.end
      BY <1>1, <1>2, <1>3, <1>4, <1>8, <2>1, <2>3
    <3>3. First(f) = f.at + f.late /\ f.late \in {0, 1} /\ f.at \in Nat /\ First(f) = Peak(f)
      BY <1>8, <2>1, AirFacts DEF First
    <3>4. Preamble + 1 <= Length["data"] BY <1>3
    <3>5. First(f) + Preamble <= f.at + Length[f.kind] BY <1>3, <1>8, <3>3, <3>4
    <3>6. Hears(Place(f), First(f), Preamble) BY <1>3, <3>2, <3>5, SoundHears
    <3> QED BY <1>5, <1>8, <2>1, <3>1, <3>3, <3>6
  <2> QED BY <1>2, <2>1, <2>2, <2>3
<1>9. ASSUME NEW f \in Ripe, f.kind = "data" PROVE Place(f) < upto
  <2>1. f \in Sound /\ Place(f) + Length["data"] <= stream.end BY <1>9 DEF Ripe, RipeAt
  <2>2. Place(f) \in Nat BY <2>1, SoundFacts
  <2>3. Place(f) + Preamble + Guard + SearchBlock <= stream.end + 1 BY <1>1, <1>3, <2>1, <2>2
  <2>4. Place(f) < upto \/ Place(f) < from BY <1>4, <2>2, <2>3
  <2> QED BY <1>2, <1>4, <2>2, <2>4
<1>10. \A f \in Ripe : f \in Sound BY DEF Ripe
<1> QED BY <1>4, <1>7, <1>8, <1>9, <1>10

\* What the search proposes is the beginning of a data frame, which shows.
LEMMA SearchedProposed ==
  ASSUME CaptureInv, Aligned, Current, Searchable, Proposed, NEW c \in Searched.candidates
  PROVE  /\ c \in Nat /\ stream.start <= c /\ c < Searched.cursor
         /\ c + Preamble + Guard <= stream.end
         /\ \E f \in layout : f.kind = "data" /\ c \in {Place(f), Place(f) + 1}
<1> DEFINE from == Larger(stream.cursor, stream.start)
           upto == SearchEnd(from)
<1>1. /\ stream.start \in Nat /\ stream.end \in Nat /\ stream.cursor \in Nat
      /\ stream.candidates \subseteq Nat
  BY DEF CaptureInv, Types, StreamShape
<1>2. from \in Nat /\ stream.start <= from /\ stream.cursor <= from BY <1>1 DEF Larger
<1>3. /\ Preamble \in Nat /\ Preamble > 1 /\ Guard \in Nat
  BY AirFacts, PaceFacts, TurnAssumption
<1>4. Searched.cursor = upto /\ upto \in Nat /\ from <= upto
  <2> HIDE DEF from
  <2> QED BY <1>2, SearchedEnd DEF from
<1>5. Searched.cursor > stream.start => Searched.cursor + Preamble + Guard <= stream.end + 1
  BY SearchedSound
<1>6. \/ c \in stream.candidates /\ c >= stream.start
      \/ c \in from .. upto - 1 /\ \E f \in layout : f.kind = "data" /\ Hears(c, Peak(f), Preamble)
      \/ c \in from .. upto - 1 /\ \E f \in layout : f.kind = "data" /\ Hears(c, Peak(f) + 1, Preamble - 1)
  BY DEF Searched
<1> HIDE DEF from, upto
<1>7. c \in Nat /\ stream.start <= c /\ c < upto
  <2>1. CASE c \in stream.candidates /\ c >= stream.start
    <3>1. c < stream.cursor BY <2>1 DEF Proposed
    <3> QED BY <1>1, <1>2, <1>4, <2>1, <3>1
  <2>2. CASE c \in from .. upto - 1 BY <1>1, <1>2, <1>4, <2>2
  <2> QED BY <1>6, <2>1, <2>2
<1>8. c + Preamble + Guard <= stream.end BY <1>1, <1>3, <1>4, <1>5, <1>7
<1>9. \E f \in layout : f.kind = "data" /\ c \in {Place(f), Place(f) + 1}
  <2>1. CASE c \in stream.candidates /\ c >= stream.start BY <2>1 DEF Proposed
  <2>2. ASSUME NEW f \in layout, f.kind = "data", NEW late \in {0, 1}, NEW n \in Nat \ {0},
               Hears(c, Peak(f) + late, n)
        PROVE  c \in {Place(f), Place(f) + 1}
    <3>1. First(f) = Peak(f) /\ First(f) \in Nat \ {Own} BY <2>2, AirFacts DEF First
    <3>7. c \in Int /\ First(f) + late \in Int /\ Hears(c, First(f) + late, n)
      BY <1>7, <2>2, <3>1
    <3>2. c \in Retained /\ tape[c + 1] = First(f) + late BY <3>7, HeardFirst
    <3>3. c \in Front .. RxEnd - 1
      <4>1. RxEnd \in Nat /\ stream.end <= RxEnd BY TapeFacts
      <4> QED BY <1>1, <1>7, <3>2, <4>1 DEF Front, Retained
    <3>4. tape[c + 1] \in {Own, c + Offset} BY <3>3 DEF Aligned
    <3>5. First(f) + late # Own BY <3>1 DEF Own
    <3>6. Offset \in Int /\ Place(f) \in Int /\ Place(f) + Offset = First(f) BY PlaceFacts
    <3> QED BY <1>7, <3>1, <3>2, <3>4, <3>5, <3>6
  <2>3. \A f \in layout : f.kind = "data" => Peak(f) + 0 = Peak(f)
    <3>1. \A f \in layout : f.kind = "data" => Peak(f) \in Nat BY AirFacts DEF First
    <3> QED BY <3>1
  <2>4. Preamble \in Nat \ {0} /\ Preamble - 1 \in Nat \ {0} BY <1>3
  <2> QED BY <1>6, <2>1, <2>2, <2>3, <2>4
<1> QED BY <1>4, <1>7, <1>8, <1>9

\* While a control frame is whole and not consumed, no data frame is on its way.
LEMMA NothingPending ==
  ASSUME CaptureInv, Aligned, Current, Searchable, Proposed, OneWhole, decoder # "poll",
         NEW h \in Whole, NEW c \in Searched.candidates
  PROVE  ~(c + Length["data"] > stream.end)
<1>1. /\ c \in Nat /\ c + Preamble + Guard <= stream.end
      /\ Preamble \in Nat /\ Guard \in Nat /\ MaxLag \in Nat \ {0} /\ stream.end \in Nat
      /\ Length["data"] \in Nat /\ Length["control"] \in Nat /\ MaxLag < Length["control"]
  BY SearchedProposed, PaceFacts, AirFacts, TapeFacts, PaceAssumption
<1>2. PICK f \in layout : f.kind = "data" /\ c \in {Place(f), Place(f) + 1} BY SearchedProposed
<1>3. /\ h \in layout /\ h.kind = "control" /\ h.at \in Nat /\ Place(h) \in Nat
      /\ Place(h) + Offset = h.at /\ Offset \in Int
      /\ Place(h) + Length["control"] <= stream.end
      /\ stream.end < Place(h) + Length["control"] + MaxLag
  BY SyncedFacts DEF OneWhole, Whole, RipeAt
<1>4. /\ f.at \in Nat /\ First(f) \in Nat /\ f.at <= First(f) /\ First(f) <= f.at + 1
      /\ Place(f) \in Int /\ Place(f) + Offset = First(f)
      /\ f.at + Length["data"] <= h.at \/ h.at + Length["control"] <= f.at
  BY <1>2, <1>3, AirFacts, PlaceFacts
<1>5. CASE f.at + Length["data"] <= h.at
  <2>1. Place(f) + Length["data"] <= Place(h) + 1 BY <1>1, <1>3, <1>4, <1>5
  <2>2. c <= Place(f) + 1 BY <1>2, <1>4
  <2> QED BY <1>1, <1>3, <1>4, <2>1, <2>2
<1>6. CASE h.at + Length["control"] <= f.at
  <2>1. h.at < f.at BY <1>1, <1>3, <1>4, <1>6
  <2>2. h.at + Length["control"] + MaxLag <= f.at + (Preamble + Guard)
    BY <1>2, <1>3, <2>1, TurnFacts
  <2>3. Place(h) + Length["control"] + MaxLag <= Place(f) + (Preamble + Guard)
    BY <1>1, <1>3, <1>4, <2>2
  <2>4. Place(f) <= c BY <1>2, <1>4
  <2> QED BY <1>1, <1>3, <1>4, <2>3, <2>4
<1> QED BY <1>4, <1>5, <1>6

LEMMA DataPass == ASSUME PassInv, TryData PROVE PassInv'
<1>0. CaptureInv /\ OnceInv /\ Aligned BY DEF PassInv, OnceInv
<1>1. OnceInv' BY <1>0, DataOnce
<1>2. /\ UNCHANGED <<layout, air, chunk, tape, held, generation, delivered, gone, sender>>
      /\ UNCHANGED <<stream.generation, stream.start, stream.end, stream.ring>>
      /\ decoder = "data" /\ decoder' \in {"accept", "over"}
      /\ stream'.cursor = Searched.cursor /\ stream'.candidates = Searched.candidates
  BY <1>0, DataFacts DEF card, buffer, own, ghost, DataHit, DataNone
<1>3. /\ UNCHANGED <<Offset, Current, Front, BufferStart, RxEnd, Undelivered, Sound>>
      /\ \A f : Place(f)' = Place(f)
  BY <1>2, SameSound
<1>4. Aligned' BY <1>2, <1>3 DEF PassInv, Aligned
<1>5. Tracked' BY <1>2, <1>3 DEF PassInv, Tracked
<1>6. Silent' BY <1>2, <1>3 DEF PassInv, Silent
<1>7. Lag' BY <1>2, <1>3 DEF PassInv, Lag
<1>8. ASSUME Current PROVE SearchInv'
  <2>0. SearchInv BY <1>8 DEF PassInv
  <2>1. \A f : RipeAt(f)' <=> RipeAt(f) BY <1>2, <1>3 DEF RipeAt
  <2>2. Ripe' = Ripe BY <1>3, <2>1 DEF Ripe
  <2>3. NoControl' /\ OneRipe' BY <1>2 DEF NoControl, OneRipe
  <2>4. /\ \A f \in Sound : f.kind = "data" /\ Place(f) < Searched.cursor
                               => Place(f) \in Searched.candidates
        /\ Searched.cursor > stream.start => Searched.cursor + Preamble + Guard <= stream.end + 1
        /\ \A f \in Ripe : f.kind = "data" => Place(f) \in Searched.candidates
    BY <1>0, <1>8, <2>0, SearchedSound DEF SearchInv
  <2>5. Searchable' BY <1>2, <1>3, <2>4 DEF Searchable
  <2>6. /\ \A f \in Sound : f \in layout /\ Place(f) \in Nat /\ f.good
        /\ Length["data"] \in Nat \ {0, 1} /\ Guard \in Nat \ {0} /\ Guard < Length["data"]
        /\ stream.end \in Nat
        /\ \A f \in layout : f.late \in {0, 1} /\ f.at \in Nat
    BY <1>0, SoundFacts, AirFacts, TapeFacts
  <2>7. \A f \in Sound : f.kind = "data" => Place(f) \notin stream.attempted
    BY <1>2, <2>0 DEF SearchInv, Attempts
  <2>8. \A c \in stream.attempted : c \in Nat /\ c + Length["data"] <= stream.end
    BY <2>0 DEF SearchInv, Attempts
  <2>9. Searched.candidates \subseteq Nat BY <1>0, SearchedIn DEF CaptureInv, Types
  <2>10. \A c \in Looked \union WholeCandidates : c \in Nat /\ c + Length["data"] <= stream.end
    BY <2>8, <2>9 DEF Looked, WholeCandidates
  <2>11. \A f \in Sound : f.kind = "data" /\ Place(f) \in Looked \union WholeCandidates =>
           Place(f) \in WholeCandidates /\ RipeAt(f)
    BY <2>7 DEF Looked, WholeCandidates, RipeAt
  <2>12. ASSUME NEW f \in Ripe, f.kind = "data"
         PROVE  Place(f) \in WholeCandidates /\ Decodes(Place(f), f)
    <3>1. f \in Sound /\ Place(f) + Length["data"] <= stream.end BY <2>12 DEF Ripe, RipeAt
    <3>2. Place(f) \in WholeCandidates BY <2>4, <2>7, <2>12, <3>1 DEF WholeCandidates
    <3>3. First(f) = f.at + f.late /\ First(f) = Peak(f) /\ f \in layout
      BY <1>0, <2>6, <2>12, <3>1, AirFacts DEF First
    <3>4. f.late \in {0, 1} /\ f.at \in Nat BY <2>6, <3>3
    <3>5. Length["data"] - f.late \in Nat /\ First(f) + (Length["data"] - f.late) <= f.at + Length[f.kind]
      BY <2>6, <2>12, <3>3, <3>4
    <3>6. Place(f) < stream.end /\ Place(f) + (Length["data"] - f.late) <= stream.end
      BY <2>6, <3>1, <3>4
    <3>7. Hears(Place(f), First(f), Length["data"] - f.late)
      BY <1>0, <1>8, <3>1, <3>5, <3>6, SoundHears
    <3> QED BY <2>6, <2>12, <3>1, <3>2, <3>3, <3>7 DEF Decodes
  <2>15. Synced' = Synced /\ Whole' = Whole
    <3>1. \A p, i, n : Hears(p, i, n)' <=> Hears(p, i, n) BY <1>2 DEF Hears, Retained, At
    <3>2. Synced' = Synced BY <1>2, <1>3, <3>1 DEF Synced
    <3> QED BY <2>1, <3>2 DEF Whole
  <2>16. ASSUME ToSkip' PROVE WholeInv'
    <3>1. NoneWhole' BY <1>2 DEF NoneWhole
    <3>2. OneWhole' BY <1>2, <1>3, <2>0, <2>2, <2>15 DEF SearchInv, WholeInv, OneWhole
    <3>3. \A c \in Searched.candidates :
            c < Searched.cursor /\ \E f \in layout : f.kind = "data" /\ c \in {Place(f), Place(f) + 1}
      BY <1>0, <1>8, <2>0, SearchedProposed DEF SearchInv, WholeInv
    <3>4. Proposed' BY <1>2, <1>3, <3>3 DEF Proposed
    <3> QED BY <2>16, <3>1, <3>2, <3>4 DEF WholeInv
  <2>13. CASE DataNone
    <3>1. ASSUME NEW f \in Ripe PROVE FALSE
      <4>1. f.kind = "data" BY <1>2, <2>0, <3>1 DEF SearchInv, NoControl
      <4>2. f \in layout BY <2>6, <3>1 DEF Ripe
      <4> QED BY <2>12, <2>13, <3>1, <4>1, <4>2 DEF DataNone
    <3>2. NoneRipe' BY <2>2, <3>1 DEF NoneRipe
    <3>3. decoder' = "over" /\ round'.misses = round.misses
      BY <1>0, <2>13 DEF DataNone, CaptureInv, Types, RoundShape
    <3>4. Chosen' BY <3>3 DEF Chosen
    <3>5. Misses' BY <1>2, <1>3, <2>0, <2>1, <3>3 DEF SearchInv, Misses
    <3>6. \A f \in Sound : ~(f.kind = "data" /\ Place(f) \in Looked \union WholeCandidates)
      BY <2>11, <3>1 DEF Ripe
    <3>7. stream'.attempted = Looked \union WholeCandidates BY <2>13 DEF DataNone
    <3>8. Attempts' BY <1>2, <1>3, <2>10, <3>6, <3>7 DEF Attempts
    <3>9. ASSUME NEW h \in Whole PROVE ~round'.pending /\ round'.misses = {Place(h) + Sync}
      <4>1. \A c \in Searched.candidates : ~(c + Length["data"] > stream.end)
        BY <1>0, <1>2, <1>8, <2>0, <3>9, NothingPending DEF SearchInv, WholeInv
      <4>2. ~round.pending /\ round.misses = {Place(h) + Sync}
        BY <1>2, <2>0, <3>9 DEF SearchInv, WholeInv, ToSkip
      <4>3. ~round'.pending
        BY <1>0, <2>13, <4>1, <4>2 DEF DataNone, CaptureInv, Types, RoundShape
      <4> QED BY <3>3, <4>2, <4>3
    <3>10. WholeInv' BY <1>3, <2>15, <2>16, <3>3, <3>9 DEF ToSkip
    <3> QED BY <2>3, <2>5, <3>2, <3>4, <3>5, <3>8, <3>10 DEF SearchInv
  <2>14. ASSUME NEW c \in Retained, NEW h \in layout, DataHit(c, h) PROVE SearchInv'
    <3>1. /\ c = Place(h) /\ c \in Nat /\ tape[c + 1] = First(h) /\ h.good /\ h.kind = "data"
          /\ Hears(c, Peak(h), Length["data"] - h.late) /\ c + Length["data"] <= stream.end
      BY <1>0, <1>8, <2>14, PlaceOf DEF DataHit, Decodes
    <3>2. /\ decoder' = "accept" /\ round'.frame = {h} /\ round'.end = FrameEnd(c)
          /\ stream'.attempted \subseteq Looked \union WholeCandidates
      BY <1>0, <2>14 DEF DataHit, CaptureInv, Types, RoundShape
    <3>3. First(h) = h.at + h.late /\ First(h) = Peak(h) /\ h.late \in {0, 1} /\ h.at \in Nat
      BY <1>0, <2>6, <3>1, AirFacts DEF First
    <3>4. h \in Sound
      <4>1. /\ Length["data"] - h.late \in Nat
            /\ Length["data"] - h.late = h.at + Length[h.kind] - First(h)
        BY <2>6, <3>1, <3>3
      <4> QED BY <1>0, <1>8, <3>1, <3>3, <4>1, DecodedSound
    <3>5. RipeAt(h) BY <3>1 DEF RipeAt
    <3>6. /\ round'.end \in Int /\ round'.end = Place(h) + Length[h.kind] - Guard
          /\ round'.end <= stream.end
      BY <2>6, <3>1, <3>2 DEF FrameEnd
    <3>7. OneRipe BY <2>0 DEF SearchInv
    <3>8. \A f \in Sound : f = h \/ (round'.end <= Place(f) /\ ~RipeAt(f))
      BY <1>0, <1>2, <1>8, <3>1, <3>4, <3>5, <3>6, <3>7, ChosenAlone
    <3>9. Chosen' BY <1>2, <1>3, <2>1, <3>2, <3>6, <3>8 DEF Chosen
    <3>10. NoneRipe' /\ Misses' BY <3>2 DEF NoneRipe, Misses
    <3>11. \A f \in Sound : f.kind = "data" /\ Place(f) \in stream'.attempted => f = h
      BY <2>11, <3>2, <3>8
    <3>12. Attempts' BY <1>2, <1>3, <2>10, <3>2, <3>11 DEF Attempts
    <3>13. Whole = {}
      <4> SUFFICES ASSUME NEW w \in Whole PROVE FALSE OBVIOUS
      <4>1. h \in Ripe BY <3>4, <3>5 DEF Ripe
      <4>2. h = w BY <1>2, <2>0, <4>1 DEF SearchInv, WholeInv, OneWhole
      <4>3. w.kind = "control" BY DEF Whole, Synced
      <4> QED BY <3>1, <4>2, <4>3
    <3>14. WholeInv' BY <2>15, <2>16, <3>2, <3>13 DEF ToSkip
    <3> QED BY <2>3, <2>5, <3>9, <3>10, <3>12, <3>14 DEF SearchInv
  <2> QED BY <1>0, <2>13, <2>14, DataFacts
<1> QED BY <1>1, <1>3, <1>4, <1>5, <1>6, <1>7, <1>8 DEF PassInv

----------------------------------------------------------------------------
(* What a round consumes *)

\* The fronts of ring and buffer move on, and no frame that may still be decoded
\* begins before them, is whole or was tried.
LEMMA FrontOn ==
  ASSUME PassInv, UNCHANGED <<layout, air, chunk, tape, generation, sender, gone>>,
         UNCHANGED <<stream.generation, stream.end, stream.cursor, stream.candidates,
                     stream.attempted, stream.ring>>,
         stream'.start \in Nat, stream.start <= stream'.start, decoder' = "poll",
         ~Current => held' = held,
         Current => BufferStart' <= stream.end,
         Undelivered' \subseteq Undelivered,
         Current => \A f \in Sound : f \in Undelivered' =>
           /\ stream'.start <= Place(f) /\ ~RipeAt(f)
           /\ ~(f.kind = "data" /\ Place(f) \in stream.attempted),
         Current => \A h \in Whole : Place(h) < stream'.start
  PROVE  Aligned' /\ Tracked' /\ Silent' /\ Lag' /\ (Current => SearchInv)'
<1>0. CaptureInv BY DEF PassInv, OnceInv
<1>1. UNCHANGED <<RxEnd, Offset, Current>> BY DEF RxEnd, Offset, Current
<1>2. /\ \A f : Place(f)' = Place(f) /\ First(f)' = First(f) /\ (RipeAt(f)' <=> RipeAt(f))
      /\ \A i : Heard(i)' <=> Heard(i)
  BY <1>1 DEF Place, First, Peak, RipeAt, Heard
<1>3. stream.start \in Nat /\ stream.end \in Nat /\ RxEnd \in Nat BY <1>0, TapeFacts
<1>4. ~Current => Front' = Front /\ BufferStart' = BufferStart
  BY <1>1 DEF Front, BufferStart
<1>5. Current => Front' = stream'.start /\ Front = stream.start BY <1>1 DEF Front
<1>6. Sound' \subseteq Sound
  <2> SUFFICES ASSUME NEW f \in Sound' PROVE f \in Sound OBVIOUS
  <2>1. /\ f \in Undelivered /\ f.good /\ Front' <= Place(f)
        /\ \A i \in First(f) .. f.at + Length[f.kind] - 1 : i <= air => Heard(i)
    BY <1>2 DEF Sound
  <2>2. Place(f) \in Int BY <1>0, <2>1, PlaceFacts DEF Undelivered
  <2>3. Front <= Place(f) BY <1>3, <1>4, <1>5, <2>1, <2>2
  <2> QED BY <2>1, <2>3 DEF Sound
<1>7. ASSUME NEW f \in Sound, f \in Undelivered' PROVE f \in Sound'
  <2>1. /\ f.good /\ Front <= Place(f)
        /\ \A i \in First(f) .. f.at + Length[f.kind] - 1 : i <= air => Heard(i)
    BY <1>0, SoundFacts
  <2>2. Front' <= Place(f) BY <1>4, <1>5, <1>7, <2>1
  <2> QED BY <1>2, <1>7, <2>1, <2>2 DEF Sound
<1>8. Aligned'
  <2>1. CASE Current
    <3>1. \A p \in stream'.start .. RxEnd - 1 : p \in Front .. RxEnd - 1
      BY <1>3, <1>5, <2>1
    <3> QED BY <1>1, <1>5, <2>1, <3>1 DEF PassInv, Aligned
  <2>2. CASE ~Current BY <1>1, <1>4, <2>2 DEF PassInv, Aligned
  <2> QED BY <2>1, <2>2
<1>9. Tracked' BY <1>7 DEF PassInv, Tracked
<1>10. Silent' BY <1>1 DEF PassInv, Silent
<1>11. Lag' BY <1>1 DEF PassInv, Lag
<1>12. ASSUME Current PROVE SearchInv'
  <2>0. SearchInv BY <1>12 DEF PassInv
  <2>1. \A f \in Sound' : f \in Sound /\ f \in Undelivered' BY <1>6 DEF Sound
  <2>2. NoneRipe' BY <1>2, <1>12, <2>1 DEF NoneRipe, Ripe
  <2>3. NoControl' /\ OneRipe' /\ Chosen' /\ Misses'
    BY DEF NoControl, OneRipe, Chosen, Misses
  <2>4. Searchable'
    <3>1. stream.cursor \in Nat BY <1>0 DEF CaptureInv, Types, StreamShape
    <3>2. stream.cursor > stream'.start => stream.cursor + Preamble + Guard <= stream.end + 1
      BY <1>3, <2>0, <3>1 DEF SearchInv, Searchable
    <3> QED BY <1>2, <2>0, <2>1, <3>2 DEF SearchInv, Searchable
  <2>5. Attempts' BY <1>2, <1>12, <2>0, <2>1 DEF SearchInv, Attempts
  <2>6. NoneWhole'
    <3> SUFFICES ASSUME NEW h \in Whole' PROVE FALSE BY DEF NoneWhole
    <3>1. h \in Whole /\ h \in Synced /\ stream'.start <= Place(h)
      BY <1>1, <1>3, SameSynced DEF Whole
    <3>2. Place(h) \in Nat BY <1>0, <3>1, SyncedFacts
    <3> QED BY <1>12, <3>1, <3>2
  <2>7. OneWhole' /\ ToSkip' BY DEF OneWhole, ToSkip
  <2>8. Proposed'
    <3>1. stream.candidates \subseteq Nat BY <1>0 DEF CaptureInv, Types, StreamShape
    <3>2. \A c \in stream.candidates : c >= stream'.start => c >= stream.start BY <1>3, <3>1
    <3> QED BY <1>2, <2>0, <3>2 DEF SearchInv, WholeInv, Proposed
  <2>9. WholeInv' BY <2>6, <2>7, <2>8 DEF WholeInv
  <2> QED BY <2>2, <2>3, <2>4, <2>5, <2>9 DEF SearchInv
<1> QED BY <1>1, <1>8, <1>9, <1>10, <1>11, <1>12

\* Consuming up to a point that no frame's beginning lies before.
LEMMA ConsumedPass ==
  ASSUME PassInv, NEW end \in Int, Consume(end),
         UNCHANGED <<layout, air, chunk, sender, gone>>, decoder' = "poll",
         Undelivered' \subseteq Undelivered,
         Current => end <= stream.end,
         Current => \A f \in Sound : f \in Undelivered' =>
           /\ end <= Place(f) /\ ~RipeAt(f)
           /\ ~(f.kind = "data" /\ Place(f) \in stream.attempted),
         Current => \A h \in Whole : Place(h) < end
  PROVE  Aligned' /\ Tracked' /\ Silent' /\ Lag' /\ (Current => SearchInv)'
<1>0. CaptureInv BY DEF PassInv, OnceInv
<1>1. /\ UNCHANGED <<tape, generation, RxEnd>>
      /\ stream'.start = Smaller(stream.end, Larger(stream.start, end))
      /\ UNCHANGED <<stream.generation, stream.end, stream.cursor, stream.candidates,
                     stream.attempted, stream.ring>>
      /\ ~Current => held' = held
      /\ Current => BufferStart' = Smaller(RxEnd, Larger(BufferStart, end))
  BY <1>0, ConsumeFacts
<1>2. /\ stream.start \in Nat /\ stream.end \in Nat /\ RxEnd \in Nat /\ BufferStart \in Nat
      /\ stream.start <= stream.end /\ stream.end <= RxEnd
  BY <1>0, TapeFacts
<1>3. stream'.start \in Nat /\ stream.start <= stream'.start
  BY <1>1, <1>2 DEF Smaller, Larger
<1>4. Current => BufferStart' <= stream.end
  <2>1. Current => BufferStart <= stream.end BY DEF PassInv, Lag
  <2> QED BY <1>1, <1>2, <2>1 DEF Smaller, Larger
<1>5. ASSUME Current, NEW f \in Sound, f \in Undelivered' PROVE stream'.start <= Place(f)
  <2>1. Place(f) \in Nat /\ stream.start <= Place(f) BY <1>0, <1>5, SoundFacts DEF Front
  <2>2. end <= Place(f) BY <1>5
  <2> QED BY <1>1, <1>2, <2>1, <2>2 DEF Smaller, Larger
<1>6. ASSUME Current, NEW h \in Whole PROVE Place(h) < stream'.start
  <2>1. Place(h) \in Nat BY <1>0, SyncedFacts DEF Whole
  <2>2. Place(h) < end /\ end <= stream.end BY <1>6
  <2> QED BY <1>1, <1>2, <2>1, <2>2 DEF Smaller, Larger
<1> QED BY <1>1, <1>3, <1>4, <1>5, <1>6, FrontOn

\* The frame in hand is consumed with what lies before it, and no other.
LEMMA TakePass == ASSUME PassInv, Take PROVE PassInv'
<1>0. CaptureInv /\ OnceInv BY DEF PassInv, OnceInv
<1>1. OnceInv' BY <1>0, TakeOnce
<1>2. /\ UNCHANGED <<layout, air, chunk, sender, gone>> /\ Consume(round.end)
      /\ decoder = "take" /\ decoder' = "poll"
  BY DEF Take, card, own
<1>3. round.end \in Int BY <1>0 DEF CaptureInv, Types, RoundShape
<1>4. PICK h \in round.frame : delivered' = Append(delivered, h) BY DEF Take
<1>5. /\ \A i \in DOMAIN delivered : i \in DOMAIN delivered' /\ delivered'[i] = delivered[i]
      /\ \E i \in DOMAIN delivered' : delivered'[i] = h
  <2> DEFINE T == layout
  <2>1. h \in T BY <1>2, <1>4 DEF OnceInv, PassInv, InHand
  <2>2. delivered \in Seq(T) BY <1>0 DEF OnceInv
  <2> HIDE DEF T
  <2>3. /\ Len(delivered') = Len(delivered) + 1 /\ Len(delivered) \in Nat
        /\ delivered'[Len(delivered) + 1] = h
        /\ \A i \in 1 .. Len(delivered) : delivered'[i] = delivered[i]
        /\ DOMAIN delivered = 1 .. Len(delivered) /\ DOMAIN delivered' = 1 .. Len(delivered')
    BY <1>4, <2>1, <2>2
  <2>4. Len(delivered) + 1 \in DOMAIN delivered' BY <2>3
  <2> QED BY <2>3, <2>4
<1>6. Undelivered' \subseteq Undelivered /\ h \notin Undelivered'
  BY <1>2, <1>5 DEF Undelivered
<1>7. ASSUME Current
      PROVE  /\ round.end <= stream.end
             /\ \A f \in Sound : f \in Undelivered' =>
                  /\ round.end <= Place(f) /\ ~RipeAt(f)
                  /\ ~(f.kind = "data" /\ Place(f) \in stream.attempted)
  <2>0. Chosen /\ Attempts BY <1>7 DEF PassInv, SearchInv
  <2>1. PICK g \in layout :
          /\ round.frame = {g} /\ round.end <= stream.end
          /\ \A f \in Sound : f = g \/ (round.end <= Place(f) /\ ~RipeAt(f))
    BY <1>2, <2>0 DEF Chosen
  <2>2. g = h BY <1>4, <2>1
  <2> QED BY <1>6, <2>0, <2>1, <2>2 DEF Attempts
<1>8. Current => \A w \in Whole : Place(w) < round.end
  BY <1>2 DEF PassInv, SearchInv, WholeInv, ToSkip
<1> QED BY <1>1, <1>2, <1>3, <1>6, <1>7, <1>8, ConsumedPass DEF PassInv

\* A near miss is skipped, or all but a frame's worth: no frame that is not whole
\* begins there, and none is whole.
LEMMA OverPass == ASSUME PassInv, Over PROVE PassInv'
<1>0. CaptureInv /\ OnceInv BY DEF PassInv, OnceInv
<1>1. OnceInv' BY <1>0, OverOnce
<1>2. /\ UNCHANGED <<layout, air, chunk, sender, delivered, gone, Undelivered>>
      /\ decoder = "over" /\ decoder' = "poll"
  BY DEF Over, card, own, ghost, Undelivered
<1>3. ASSUME Current, NEW f \in Sound
      PROVE  ~RipeAt(f) /\ ~(f.kind = "data" /\ Place(f) \in stream.attempted)
  BY <1>2, <1>3 DEF PassInv, SearchInv, NoneRipe, Ripe, Attempts
<1>4. CASE round.misses # {} /\ Consume(Min(round.misses))
  <2>1. Min(round.misses) \in round.misses /\ Min(round.misses) \in Int
    <3>1. round.misses \in SUBSET Int /\ -Guard \in Int /\ \A m \in round.misses : m >= -Guard
      BY <1>0, ReceiverAssumption DEF CaptureInv, Types, RoundShape
    <3> QED BY <1>4, <3>1, MinIsIn
  <2>2. ASSUME Current
        PROVE  /\ Min(round.misses) <= stream.end
               /\ \A f \in Sound : Min(round.misses) <= Place(f)
    BY <1>2, <1>3, <2>1, <2>2 DEF PassInv, SearchInv, Misses
  <2>3. ASSUME Current, NEW h \in Whole PROVE Place(h) < Min(round.misses)
    <3>1. round.misses = {Place(h) + Sync}
      BY <1>2, <2>3 DEF PassInv, SearchInv, WholeInv, ToSkip
    <3>2. Place(h) \in Nat /\ Sync \in Nat \ {0} BY <1>0, SyncedFacts, AirFacts DEF Whole
    <3> QED BY <2>1, <3>1, <3>2
  <2> QED BY <1>1, <1>2, <1>3, <1>4, <2>1, <2>2, <2>3, ConsumedPass DEF PassInv
<1>7. ASSUME Current, round.pending \/ round.misses = {} PROVE Whole = {}
  BY <1>2, <1>7 DEF PassInv, SearchInv, WholeInv, ToSkip
<1>5. CASE (round.pending \/ round.misses = {}) /\ Consume(stream.end - Keep)
  <2>1. stream.end \in Nat /\ Keep \in Nat BY <1>0, TapeFacts, PaceFacts
  <2>2. stream.end - Keep \in Int /\ stream.end - Keep <= stream.end BY <2>1
  <2>3. ASSUME Current, NEW f \in Sound PROVE stream.end - Keep <= Place(f)
    <3>1. f \in layout /\ Place(f) \in Nat BY <1>0, SoundFacts
    <3>2. Length[f.kind] \in Nat /\ Length[f.kind] <= Keep BY <1>0, <3>1, AirFacts, PaceFacts
    <3>3. ~(Place(f) + Length[f.kind] <= stream.end) BY <1>3, <2>3 DEF RipeAt
    <3> QED BY <2>1, <3>1, <3>2, <3>3
  <2> QED BY <1>1, <1>2, <1>3, <1>5, <1>7, <2>2, <2>3, ConsumedPass DEF PassInv
<1>6. CASE (round.pending \/ round.misses = {}) /\ UNCHANGED <<buffer, stream>>
  <2>1. UNCHANGED <<tape, held, generation, BufferStart>> BY <1>6 DEF buffer, BufferStart, RxEnd
  <2>2. stream.start \in Nat /\ stream.start <= stream.start BY <1>0, TapeFacts
  <2>3. \A f \in Sound : Current => stream.start <= Place(f) BY <1>0, SoundFacts DEF Front
  <2>4. Current => BufferStart' <= stream.end BY <2>1 DEF PassInv, Lag
  <2> QED BY <1>1, <1>2, <1>3, <1>6, <1>7, <2>1, <2>2, <2>3, <2>4, FrontOn DEF PassInv
<1> QED BY <1>4, <1>5, <1>6 DEF Over

LEMMA InitPass == Init => PassInv
<1> SUFFICES ASSUME Init PROVE PassInv OBVIOUS
<1>1. OnceInv /\ CaptureInv BY InitOnce DEF OnceInv
<1>2. ~Current BY DEF Init, Current
<1>3. /\ air = 0 /\ chunk = <<>> /\ Len(chunk) = 0 /\ RxEnd = 0 /\ held = 0 /\ sender = "idle"
      /\ Front = 0
  BY <1>2 DEF Init, RxEnd, Front, BufferStart
<1>4. Aligned BY <1>3 DEF Aligned
<1>5. Tracked
  <2>1. \A f \in Undelivered : ~(f.at <= air)
    BY <1>1, <1>3, AirFacts DEF Undelivered
  <2> QED BY <2>1 DEF Tracked
<1>6. Silent BY <1>3 DEF Silent
<1>7. Lag
  <2>1. MaxLag \in Nat BY <1>1, PaceFacts
  <2> QED BY <1>2, <1>3, <2>1 DEF Lag
<1> QED BY <1>1, <1>2, <1>4, <1>5, <1>6, <1>7 DEF PassInv

LEMMA PassKept == PassInv /\ [Next]_vars => PassInv'
<1> SUFFICES ASSUME PassInv, [Next]_vars PROVE PassInv' OBVIOUS
<1>1. CASE UNCHANGED vars
  <2>1. OnceInv' BY OnceKept DEF PassInv
  <2>2. UNCHANGED <<layout, air, chunk, tape, held, generation, sender, stream, decoder,
                    round, delivered, gone>>
    BY <1>1 DEF vars, card, buffer, own, thread, ghost
  <2>3. UNCHANGED <<Offset, Current, Front, BufferStart, RxEnd, Undelivered, Sound>>
    BY <2>2, SameSound
  <2>4. Aligned' /\ Tracked' /\ Silent' /\ Lag'
    BY <2>2, <2>3 DEF PassInv, Aligned, Tracked, Silent, Lag
  <2>5. (Current => SearchInv)' BY <2>2, <2>3, QuietSearch DEF PassInv, OnceInv
  <2> QED BY <2>1, <2>4, <2>5 DEF PassInv
<1> QED
  BY <1>1, RecordsPass, OverflowPass, AppendPass, BeginsPass, ClearsPass, ReadPass,
     ControlPass, DataPass, AcceptPass, TakePass, OverPass DEF Next, Decode

LEMMA PassCorrect == Spec => []PassInv
<1> QED BY InitPass, PassKept, PTL DEF Spec

\* What has begun, can be decoded and was not is in the ring or will be read into it.
LEMMA StillReachable == PassInv => NonePassedOver
<1> SUFFICES ASSUME PassInv PROVE NonePassedOver OBVIOUS
<1>0. CaptureInv /\ OnceInv /\ Rising BY DEF PassInv, OnceInv
<1>1. /\ RxEnd \in Nat /\ \A p \in 1 .. RxEnd : tape[p] \in Nat
      /\ BufferStart \in Nat /\ BufferStart <= RxEnd /\ air \in Nat
      /\ stream.start \in Nat /\ stream.end \in Nat
      /\ stream.start <= stream.end /\ stream.end <= RxEnd
  BY <1>0, TapeFacts
<1>2. /\ Len(chunk) \in {0, 1} /\ (chunk = <<>> <=> Len(chunk) = 0)
      /\ Offset \in Int /\ Offset + RxEnd = air - Len(chunk) + 1
      /\ Front \in Nat /\ Front <= RxEnd
  BY <1>0, PlaceFacts
<1> DEFINE latest == IF RxEnd = 0 THEN 0 ELSE tape[RxEnd] - 1
<1> SUFFICES ASSUME NEW f \in Begun(latest) \ gone, f.good PROVE Reachable(f)
  BY DEF NonePassedOver
<1>3. /\ f \in layout /\ f \in Undelivered /\ f.at <= latest
  BY DEF Begun, Undelivered
<1>4. /\ f.at \in Nat \ {0} /\ First(f) \in Nat /\ f.at <= First(f) /\ First(f) <= f.at + 1
      /\ First(f) < f.at + Length[f.kind] /\ Length[f.kind] \in Nat
      /\ f.kind \in {"control", "data"}
  BY <1>0, <1>3, AirFacts
<1>5. RxEnd # 0 /\ f.at <= tape[RxEnd] - 1 BY <1>3, <1>4
<1>6. RxEnd \in 1 .. RxEnd /\ tape[RxEnd] \in Nat BY <1>1, <1>5
<1>7. tape[RxEnd] <= air /\ (chunk # <<>> => tape[RxEnd] < air)
  BY <1>0, <1>6 DEF Rising
<1>8. f.at + 1 <= air - Len(chunk)
  <2>1. f.at + 1 <= tape[RxEnd] BY <1>4, <1>5, <1>6
  <2>2. tape[RxEnd] <= air - Len(chunk)
    <3>1. CASE Len(chunk) = 0 BY <1>1, <1>6, <1>7, <3>1
    <3>2. CASE Len(chunk) = 1
      <4>1. tape[RxEnd] < air BY <1>2, <1>7, <3>2
      <4> QED BY <1>1, <1>6, <3>2, <4>1
    <3> QED BY <1>2, <3>1, <3>2
  <2> QED BY <1>1, <1>2, <1>4, <1>6, <2>1, <2>2
<1>9. f.at <= air BY <1>1, <1>2, <1>4, <1>8
<1>10. f \in Sound BY <1>3, <1>9 DEF PassInv, Tracked
<1>11. Place(f) \in Nat /\ Front <= Place(f) /\ Place(f) + Offset = First(f)
  BY <1>0, <1>3, <1>10, SoundFacts, PlaceFacts
<1>12. First(f) <= air - Len(chunk) BY <1>1, <1>2, <1>4, <1>8
<1>13. tape[Place(f) + 1] = First(f)
  <2>1. First(f) \in First(f) .. f.at + Length[f.kind] - 1 BY <1>4
  <2>2. First(f) <= air /\ ~(First(f) = air /\ chunk # <<>>) BY <1>1, <1>2, <1>4, <1>12
  <2>3. Heard(First(f)) BY <1>0, <1>10, <2>1, <2>2, SoundFacts
  <2>4. First(f) - Offset = Place(f) BY DEF Place
  <2> QED BY <2>2, <2>3, <2>4 DEF Heard
<1>14. Place(f) \in 0 .. RxEnd - 1 BY <1>1, <1>2, <1>4, <1>11, <1>12
<1>15. \/ stream.generation = generation /\ Place(f) \in Retained
       \/ Place(f) >= BufferStart /\ (stream.generation = generation => Place(f) >= stream.end)
  <2>1. CASE Current /\ Place(f) < stream.end
    BY <1>1, <1>11, <2>1 DEF Front, Current, Retained
  <2>2. CASE Current /\ ~(Place(f) < stream.end)
    <3>1. BufferStart <= stream.end BY <2>2 DEF PassInv, Lag
    <3> QED BY <1>1, <1>11, <2>2, <3>1
  <2>3. CASE ~Current BY <1>1, <1>11, <2>3 DEF Front, Current
  <2> QED BY <2>1, <2>2, <2>3
<1> QED BY <1>13, <1>14, <1>15 DEF Reachable, First

\* The beginning of a frame that nothing damaged stays in the ring or in what will
\* be read into it until the frame is decoded: consuming a frame, skipping a near
\* miss, pruning and a consumption after a clear never take it
\* (consume_rx_through, the guard of OfdmReceiver, _rx_keep_seconds).
THEOREM AlwaysNonePassedOver == Spec => []NonePassedOver
<1> QED BY StillReachable, PassCorrect, PTL
=============================================================================
