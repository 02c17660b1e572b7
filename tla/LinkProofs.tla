----------------------------- MODULE LinkProofs -----------------------------
(***************************************************************************)
(* Proofs about Link, for every number of chunks, retries, sessions,       *)
(* messages, crashes and waiting frames, and every sequence modulus.       *)
(***************************************************************************)
EXTENDS Link, SequenceTheorems, TLAPS

\* A station's record fits the call its worker is in; n messages have been
\* returned to it.
WellFormed(r, n) ==
  /\ (r.call = "call") <=> (r.state = "CONNECTING")
  /\ r.call \in {"floor", "send", "disc"} => r.state = "CONNECTED"
  /\ r.call = "listen" => r.state = "LISTENING"
  /\ (r.session # NoSession) <=> (r.state \in {"CONNECTING", "CONNECTED"})
  /\ r.session # NoSession /\ r.ackBody = r.session => r.state = "CONNECTED"
  /\ r.state = "CONNECTED" => r.role \in {"ISS", "IRS"}
  /\ r.call = "send" => r.role = "ISS" /\ r.part >= 1 /\ n < MaxMessages
  /\ r.call = "floor" => r.role = "IRS" /\ n < MaxMessages

Shape == \A s \in Stations : WellFormed(stn[s], Len(returned[s]))

\* Every identifier in use was drawn by some connect().
Handshaking == {"CONNECT", "CONNECT_ACK"}

Drawn ==
  /\ \A s \in Stations : stn[s].session <= sessions /\ stn[s].ackBody <= sessions
  /\ \A s \in Stations : \A i \in DOMAIN inbox[s] :
       inbox[s][i].type \in Handshaking => inbox[s][i].session <= sessions
  /\ \A s \in Stations : \A i \in DOMAIN delivered[s] : delivered[s][i].session <= sessions

BaseInv == TypeOK /\ Shape /\ Drawn

----------------------------------------------------------------------------
(* Two stations, two queues *)

LEMMA PeerFacts ==
  ASSUME NEW s \in Stations
  PROVE  /\ Peer(s) \in Stations /\ Peer(s) # s /\ Peer(Peer(s)) = s
         /\ \A t \in Stations : t = s \/ t = Peer(s)
<1>1. PICK u \in Stations : \E v \in Stations \ {u} : Stations = {u, v} BY LinkAssumption
<1>2. PICK v \in Stations \ {u} : Stations = {u, v} BY <1>1
<1>3. \A z \in Stations : \E t \in Stations : t # z BY <1>2
<1>4. \A z \in Stations : Peer(z) \in Stations /\ Peer(z) # z BY <1>3 DEF Peer
<1> QED BY <1>2, <1>4

\* What is left of a queue whose station took nothing, a frame, or dropped all.
Rests(q) == {q, << >>} \cup (IF q # << >> THEN {Tail(q)} ELSE {})

\* Queue q is a later r: frames of F have joined it at the end.
Grown(q, r, F) ==
  /\ Len(q) <= Len(r)
  /\ \A j \in 1..Len(r) : IF j <= Len(q) THEN r[j] = q[j] ELSE r[j] \in F

\* Station s moves: it takes from its own queue, and frames of F reach its
\* peer, which does nothing.
Moves(s, F) ==
  /\ stn' \in [Stations -> StationState] /\ inbox' \in [Stations -> Seq(Frame)]
  /\ stn'[Peer(s)] = stn[Peer(s)]
  /\ inbox'[s] \in Rests(inbox[s]) /\ F \subseteq Frame
  /\ Grown(inbox[Peer(s)], inbox'[Peer(s)], F)

LEMMA RestsTyped ==
  ASSUME NEW S, NEW q \in Seq(S), NEW rest \in Rests(q)
  PROVE  rest \in Seq(S)
<1>1. CASE rest = q BY <1>1
<1>2. CASE rest = << >> BY <1>2
<1>3. CASE q # << >> /\ rest = Tail(q) BY <1>3, HeadTailProperties
<1> QED BY <1>1, <1>2, <1>3 DEF Rests

LEMMA SurvivorsTyped ==
  ASSUME NEW F, NEW frames \in Seq(F), NEW got \in Survivors(frames)
  PROVE  got \in Seq(F)
<1>0. CASE got = << >> BY <1>0
<1>1. CASE got = frames BY <1>1
<1>2. CASE \E i \in DOMAIN frames : got = <<frames[i]>>
  <2>1. PICK i \in DOMAIN frames : got = <<frames[i]>> BY <1>2
  <2>2. frames[i] \in F OBVIOUS
  <2> QED BY <2>1, <2>2
<1> QED BY <1>0, <1>1, <1>2 DEF Survivors

\* What is left are the last frames, in their order.
LEMMA RestsShift ==
  ASSUME NEW S, NEW q \in Seq(S), NEW rest \in Rests(q)
  PROVE  \E d \in Nat : /\ Len(rest) + d = Len(q)
                        /\ \A i \in 1..Len(rest) : i + d \in 1..Len(q) /\ rest[i] = q[i + d]
<1>1. CASE rest = q
  <2> WITNESS 0 \in Nat
  <2> QED BY <1>1
<1>2. CASE rest = << >>
  <2>1. Len(q) \in Nat /\ Len(rest) = 0 BY <1>2
  <2> WITNESS Len(q) \in Nat
  <2> QED BY <2>1
<1>3. CASE q # << >> /\ rest = Tail(q)
  <2>1. /\ Len(rest) + 1 = Len(q)
        /\ \A i \in 1..Len(rest) : i + 1 \in 1..Len(q) /\ rest[i] = q[i + 1]
    BY <1>3, HeadTailProperties
  <2> WITNESS 1 \in Nat
  <2> QED BY <2>1
<1> QED BY <1>1, <1>2, <1>3 DEF Rests

\* What Step does to both stations.
LEMMA StepMoves ==
  ASSUME TypeOK, NEW s \in Stations, NEW r \in StationState, NEW rest \in Rests(inbox[s]),
         NEW F \in SUBSET Frame, NEW frames \in Seq(F), Step(s, r, rest, frames)
  PROVE  Moves(s, F) /\ stn'[s] = r /\ inbox'[s] = rest
<1> DEFINE p == Peer(s)
<1>1. p \in Stations /\ p # s BY PeerFacts
<1>2. /\ stn \in [Stations -> StationState] /\ inbox \in [Stations -> Seq(Frame)]
      /\ inbox[s] \in Seq(Frame) /\ inbox[p] \in Seq(Frame)
  BY <1>1 DEF TypeOK
<1>3. PICK got \in Survivors(frames) : inbox' = [inbox EXCEPT ![s] = rest, ![p] = @ \o got]
  BY DEF Step
<1>4. stn' = [stn EXCEPT ![s] = r] BY DEF Step
<1>5. got \in Seq(F) BY SurvivorsTyped
<1>6. rest \in Seq(Frame) BY <1>2, RestsTyped
<1>7. got \in Seq(Frame) BY <1>5
<1> HIDE DEF p
<1>8. stn' \in [Stations -> StationState] /\ stn'[s] = r /\ stn'[p] = stn[p]
  BY <1>1, <1>2, <1>4
<1>9. inbox[p] \o got \in Seq(Frame)
  <2> DEFINE G == Frame
  <2>1. inbox[p] \in Seq(G) /\ got \in Seq(G) BY <1>2, <1>7
  <2>2. inbox[p] \o got \in Seq(G)
    <3> HIDE DEF G
    <3> QED BY <2>1
  <2> QED BY <2>2
<1>10. inbox' \in [Stations -> Seq(Frame)] /\ inbox'[s] = rest /\ inbox'[p] = inbox[p] \o got
  <2> DEFINE Q == Seq(Frame)
  <2>1. rest \in Q /\ inbox[p] \o got \in Q /\ inbox \in [Stations -> Q] BY <1>2, <1>6, <1>9
  <2>2. inbox' \in [Stations -> Q]
    <3> HIDE DEF Q
    <3> QED BY <1>1, <1>3, <2>1
  <2> QED BY <1>1, <1>2, <1>3, <2>2
<1>11. Grown(inbox[p], inbox[p] \o got, F)
  <2> DEFINE G == Frame
  <2>1. inbox[p] \in Seq(G) BY <1>2
  <2>2. Grown(inbox[p], inbox[p] \o got, F)
    <3> HIDE DEF G
    <3> QED BY <1>5, <2>1 DEF Grown
  <2> QED BY <2>2
<1> QED BY <1>8, <1>10, <1>11 DEF Moves, p

\* The common case: at most one frame is keyed.
LEMMA StepOne ==
  ASSUME TypeOK, NEW s \in Stations, NEW r \in StationState, NEW rest \in Rests(inbox[s]),
         NEW f \in Frame, Step(s, r, rest, <<f>>)
  PROVE  Moves(s, {f}) /\ stn'[s] = r /\ inbox'[s] = rest
<1>1. <<f>> \in Seq({f}) /\ {f} \in SUBSET Frame OBVIOUS
<1> QED BY <1>1, StepMoves

LEMMA StepNone ==
  ASSUME TypeOK, NEW s \in Stations, NEW r \in StationState, NEW rest \in Rests(inbox[s]),
         Step(s, r, rest, << >>)
  PROVE  Moves(s, {}) /\ stn'[s] = r /\ inbox'[s] = rest
<1>1. << >> \in Seq({}) /\ {} \in SUBSET Frame OBVIOUS
<1> QED BY <1>1, StepMoves

LEMMA StationFacts ==
  ASSUME BaseInv, NEW s \in Stations
  PROVE  /\ stn[s] \in StationState /\ WellFormed(stn[s], Len(returned[s]))
         /\ stn[s].session \in 0..MaxSessions /\ stn[s].ackBody \in 0..MaxSessions
         /\ stn[s].session <= sessions /\ stn[s].ackBody <= sessions
         /\ stn[s].call \in Calls /\ stn[s].attempt \in Nat /\ stn[s].budget \in Nat
         /\ stn[s].txSeq \in SeqNo /\ stn[s].expect \in SeqNo
         /\ stn[s].partial \in Seq(Body) /\ stn[s].part \in 0..ChunksPerMessage
         /\ inbox[s] \in Seq(Frame) /\ sessions \in 0..MaxSessions
         /\ returned[s] \in Seq(1..MaxSessions) /\ Len(returned[s]) \in Nat
BY DEF BaseInv, TypeOK, Shape, Drawn, StationState

LEMMA HeadFacts ==
  ASSUME BaseInv, NEW s \in Stations, inbox[s] # << >>
  PROVE  /\ Head(inbox[s]) \in Frame /\ Rest(s) \in Rests(inbox[s])
         /\ Head(inbox[s]).type \in Handshaking => Head(inbox[s]).session <= sessions
<1> DEFINE G == Frame
<1>1. inbox[s] \in Seq(G) BY StationFacts
<1>2. Head(inbox[s]) \in G /\ Head(inbox[s]) = inbox[s][1] /\ 1 \in DOMAIN inbox[s]
  <2> HIDE DEF G
  <2> QED BY <1>1, HeadTailProperties
<1> QED BY <1>2 DEF Rest, Rests, BaseInv, Drawn

LEMMA CallsAre == Calls = {"listen", "call", "poll", "floor", "send", "disc"}
BY DEF Calls, Wanted

\* The constants, as they are used.
LEMMA ConstantFacts ==
  /\ MaxSessions \in Nat /\ MaxMessages \in Nat /\ MaxCrashes \in Nat
  /\ MaxRetries \in Nat /\ DiscRetries \in Nat /\ ChunksPerMessage \in Nat
  /\ ChunksPerMessage >= 1 /\ SeqModulo \in Nat /\ SeqModulo >= 2
  /\ 0 \in SeqNo /\ << >> \in Seq(Body)
BY LinkAssumption DEF SeqNo

\* The next sequence number is another one, and no two have the same next:
\* this is all that SeqModulo >= 2 is needed for.
LEMMA NextSeqFacts ==
  ASSUME NEW q \in SeqNo, NEW t \in SeqNo
  PROVE  /\ NextSeq(q) \in SeqNo /\ NextSeq(q) # q
         /\ NextSeq(q) = NextSeq(t) => q = t
<1>1. SeqModulo \in Nat /\ SeqModulo >= 2 BY ConstantFacts
<1>2. ASSUME NEW u \in SeqNo
      PROVE  NextSeq(u) = IF u = SeqModulo - 1 THEN 0 ELSE u + 1
  <2>1. CASE u = SeqModulo - 1 BY <1>1, <2>1 DEF NextSeq, SeqNo
  <2>2. CASE u # SeqModulo - 1 BY <1>1, <2>2 DEF NextSeq, SeqNo
  <2> QED BY <2>1, <2>2
<1> QED BY <1>1, <1>2 DEF SeqNo

LEMMA ControlTyped ==
  /\ Control("DISC") \in Frame /\ Control("DISC_ACK") \in Frame
  /\ Control("FLOOR_REQ") \in Frame /\ Control("FLOOR_GRANT") \in Frame
  /\ \A id \in 1..MaxSessions : Connect(id) \in Frame /\ ConnectAck(id) \in Frame
BY DEF Control, Connect, ConnectAck, Frame

----------------------------------------------------------------------------
(* What an action comes to: the record its station ends in, the frames that  *)
(* may reach the peer, and what it found.                                    *)

Heads(s, type) == /\ inbox[s] # << >> /\ Head(inbox[s]).type = type
                  /\ inbox'[s] = Tail(inbox[s])

Opens(s) ==
  /\ Moves(s, {Connect(sessions + 1)}) /\ inbox'[s] = << >>
  /\ stn[s].call = "poll" /\ sessions < MaxSessions /\ sessions' = sessions + 1
  /\ stn'[s] = [stn[s] EXCEPT !.state = "CONNECTING", !.session = sessions + 1,
                              !.call = "call", !.attempt = 1]

CallsAgain(s) ==
  /\ Moves(s, {Connect(stn[s].session)}) /\ stn[s].call = "call"
  /\ stn'[s] = [stn[s] EXCEPT !.attempt = @ + 1]

GivesUp(s) ==
  /\ Moves(s, {Control("DISC")}) /\ stn[s].call = "call"
  /\ stn'[s] = [stn[s] EXCEPT !.state = "IDLE", !.session = NoSession, !.call = "poll"]

Joins(s) ==
  /\ Moves(s, {}) /\ stn[s].call = "call" /\ Heads(s, "CONNECT_ACK")
  /\ Head(inbox[s]).session = stn[s].session
  /\ stn'[s] = ResetSequence([stn[s] EXCEPT !.state = "CONNECTED", !.role = "ISS",
                                            !.call = "poll"])

Listens(s) ==
  /\ Moves(s, {}) /\ inbox'[s] = << >>
  /\ stn[s].call = "poll" /\ stn[s].state # "CONNECTED"
  /\ stn'[s] = [stn[s] EXCEPT !.state = "LISTENING", !.call = "listen"]

StopsListening(s) ==
  /\ Moves(s, {}) /\ stn[s].call = "listen" /\ inbox'[s] = inbox[s]
  /\ stn'[s] = [stn[s] EXCEPT !.call = "poll"]

Answers(s) ==
  LET id == Head(inbox[s]).session
  IN /\ Moves(s, {ConnectAck(id)}) /\ stn[s].call = "listen" /\ Heads(s, "CONNECT")
     /\ stn'[s] = ResetSequence([stn[s] EXCEPT !.state = "CONNECTED", !.role = "IRS",
                                               !.session = id, !.ackBody = id,
                                               !.call = "poll"])

AnswersAgain(s) ==
  /\ Moves(s, {ConnectAck(stn[s].ackBody)}) /\ stn'[s] = stn[s]
  /\ inbox[s] # << >> /\ inbox'[s] = Tail(inbox[s])
  /\ Reanswers(stn[s], Head(inbox[s]))

Drops(s) ==
  /\ Moves(s, {}) /\ stn'[s] = stn[s]
  /\ inbox[s] # << >> /\ inbox'[s] = Tail(inbox[s])

TakesChunk(s) ==
  LET f == Head(inbox[s])
  IN /\ Heads(s, "DATA") /\ Deliver(s, f) /\ stn[s].state = "CONNECTED"
     /\ \/ /\ stn[s].call = "poll" /\ Moves(s, {DataAck(stn[s], f)})
           /\ stn'[s] = Received(stn[s], f)
        \/ /\ stn[s].call = "floor"
           /\ Moves(s, {DataAck(stn[s], f), Control("FLOOR_REQ")})
           /\ stn'[s] = Requesting(Received(stn[s], f), 0)

Grants(s) ==
  /\ Moves(s, {Control("FLOOR_GRANT")}) /\ Heads(s, "FLOOR_REQ")
  /\ stn[s].call = "poll" /\ stn[s].state = "CONNECTED"
  /\ stn'[s] = [stn[s] EXCEPT !.role = "IRS"]

StartsSending(s) ==
  /\ Moves(s, {DataFrame(s, stn'[s])}) /\ inbox'[s] = inbox[s]
  /\ stn[s].call = "poll" /\ stn[s].state = "CONNECTED" /\ stn[s].role = "ISS"
  /\ Len(returned[s]) < MaxMessages
  /\ stn'[s] = Sending(stn[s], 1)

AsksFloor(s) ==
  /\ Moves(s, {Control("FLOOR_REQ")}) /\ inbox'[s] = inbox[s]
  /\ stn[s].call = "poll" /\ stn[s].state = "CONNECTED" /\ stn[s].role # "ISS"
  /\ Len(returned[s]) < MaxMessages
  /\ stn'[s] = Requesting(stn[s], 0)

AsksAgain(s) ==
  /\ Moves(s, {Control("FLOOR_REQ")}) /\ inbox'[s] = inbox[s] /\ stn[s].call = "floor"
  /\ stn'[s] = Requesting(stn[s], stn[s].attempt)

TakesGrant(s) ==
  /\ Moves(s, {DataFrame(s, stn'[s])}) /\ stn[s].call = "floor" /\ Heads(s, "FLOOR_GRANT")
  /\ stn'[s] = Sending([stn[s] EXCEPT !.role = "ISS"], 1)

Advanced(r) == [r EXCEPT !.txSeq = NextSeq(@)]

SendsNext(s) ==
  /\ Moves(s, {DataFrame(s, stn'[s])}) /\ stn[s].call = "send" /\ Heads(s, "DATA_ACK")
  /\ Accepts(stn[s], Head(inbox[s])) /\ stn[s].part < ChunksPerMessage
  /\ stn'[s] = Sending(Advanced(stn[s]), stn[s].part + 1)

Returns(s) ==
  /\ Moves(s, {}) /\ stn[s].call = "send" /\ Heads(s, "DATA_ACK")
  /\ Accepts(stn[s], Head(inbox[s])) /\ stn[s].part = ChunksPerMessage
  /\ stn'[s] = [Advanced(stn[s]) EXCEPT !.call = "poll"]
  /\ returned' = [returned EXCEPT ![s] = Append(@, stn[s].session)]

SendsAgain(s) ==
  /\ Moves(s, {DataFrame(s, stn[s])}) /\ stn[s].call = "send"
  /\ stn'[s] = [stn[s] EXCEPT !.attempt = @ + 1]

Closes(s) ==
  /\ Moves(s, {Control("DISC")}) /\ stn[s].state = "CONNECTED"
  /\ stn[s].call \in {"poll", "floor", "send"}
  /\ \E n \in Nat : stn'[s] = Closing(stn[s], n)

ClosesAgain(s) ==
  /\ Moves(s, {Control("DISC")}) /\ stn[s].call = "disc"
  /\ stn'[s] = [stn[s] EXCEPT !.attempt = @ + 1]

IsClosed(s) ==
  /\ Moves(s, {Control("DISC_ACK")}) /\ stn[s].state = "CONNECTED"
  /\ stn'[s] = Closed(stn[s])

GoesIdle(s) ==
  /\ Moves(s, {}) /\ stn[s].call = "poll" /\ stn[s].state # "CONNECTED"
  /\ stn'[s] = [stn[s] EXCEPT !.state = "IDLE"]

Restarts(s) == Moves(s, {}) /\ inbox'[s] = << >> /\ stn'[s] = Fresh

----------------------------------------------------------------------------
LEMMA PlaceCallOpens ==
  ASSUME BaseInv, NEW s \in Stations, PlaceCall(s)
  PROVE  Opens(s) /\ UNCHANGED <<crashes, delivered, returned>>
<1> DEFINE r == [stn[s] EXCEPT !.state = "CONNECTING", !.session = sessions + 1,
                               !.call = "call", !.attempt = 1]
<1>1. sessions + 1 \in 1..MaxSessions BY StationFacts, ConstantFacts DEF PlaceCall
<1>2. r \in StationState
  <2>1. stn[s] \in StationState /\ sessions + 1 \in 0..MaxSessions
    BY <1>1, StationFacts, ConstantFacts
  <2> QED BY <2>1, CallsAre DEF StationState
<1>3. Connect(sessions + 1) \in Frame BY <1>1, ControlTyped
<1>4. Step(s, r, << >>, <<Connect(sessions + 1)>>) BY DEF PlaceCall
<1> HIDE DEF r
<1>5. Moves(s, {Connect(sessions + 1)}) /\ stn'[s] = r /\ inbox'[s] = << >>
  <2>1. << >> \in Rests(inbox[s]) /\ TypeOK BY DEF Rests, BaseInv
  <2> QED BY <1>2, <1>3, <1>4, <2>1, StepOne
<1> QED BY <1>5 DEF r, PlaceCall, Opens

LEMMA NextCallAttemptMoves ==
  ASSUME BaseInv, NEW s \in Stations, NEW rest \in Rests(inbox[s]), stn[s].call = "call",
         NextCallAttempt(s, rest)
  PROVE  (CallsAgain(s) \/ GivesUp(s)) /\ inbox'[s] = rest
<1> DEFINE r == stn[s]
           next == [r EXCEPT !.attempt = @ + 1]
           idle == [r EXCEPT !.state = "IDLE", !.session = NoSession, !.call = "poll"]
<1>0. TypeOK /\ r \in StationState /\ r.attempt \in Nat BY StationFacts DEF BaseInv
<1>1. r.session \in 1..MaxSessions
  BY StationFacts DEF WellFormed, NoSession
<1>2. next \in StationState /\ idle \in StationState
  <2>1. r.attempt + 1 \in Nat /\ 0 \in 0..MaxSessions BY <1>0, ConstantFacts
  <2>2. next \in StationState BY <1>0, <2>1 DEF StationState
  <2>3. idle \in StationState BY <1>0, <2>1, CallsAre DEF StationState, NoSession
  <2> QED BY <2>2, <2>3
<1>3. Connect(r.session) \in Frame /\ Control("DISC") \in Frame BY <1>1, ControlTyped
<1>4. Step(s, next, rest, <<Connect(r.session)>>) \/ Step(s, idle, rest, <<Control("DISC")>>)
  BY DEF NextCallAttempt
<1> HIDE DEF next, idle
<1>5. CASE Step(s, next, rest, <<Connect(r.session)>>)
  <2>1. Moves(s, {Connect(r.session)}) /\ stn'[s] = next /\ inbox'[s] = rest
    BY <1>0, <1>2, <1>3, <1>5, StepOne
  <2> QED BY <2>1 DEF next, CallsAgain
<1>6. CASE Step(s, idle, rest, <<Control("DISC")>>)
  <2>1. Moves(s, {Control("DISC")}) /\ stn'[s] = idle /\ inbox'[s] = rest
    BY <1>0, <1>2, <1>3, <1>6, StepOne
  <2> QED BY <2>1 DEF idle, GivesUp
<1> QED BY <1>4, <1>5, <1>6

LEMMA HearConnectAckMoves ==
  ASSUME BaseInv, NEW s \in Stations, HearConnectAck(s)
  PROVE  Joins(s) \/ CallsAgain(s) \/ GivesUp(s)
<1> DEFINE r == ResetSequence([stn[s] EXCEPT !.state = "CONNECTED", !.role = "ISS",
                                             !.call = "poll"])
<1>0. /\ TypeOK /\ stn[s] \in StationState /\ stn[s].call = "call"
      /\ inbox[s] # << >> /\ Head(inbox[s]).type = "CONNECT_ACK"
      /\ Rest(s) \in Rests(inbox[s])
  BY StationFacts, HeadFacts DEF BaseInv, HearConnectAck, Hears
<1>1. CASE Head(inbox[s]).session = stn[s].session /\ Step(s, r, Rest(s), << >>)
  <2>1. r \in StationState BY <1>0, CallsAre, ConstantFacts DEF StationState, ResetSequence
  <2> HIDE DEF r
  <2>2. Moves(s, {}) /\ stn'[s] = r /\ inbox'[s] = Rest(s) BY <1>0, <1>1, <2>1, StepNone
  <2> QED BY <1>0, <1>1, <2>2 DEF r, Joins, Heads, Rest
<1>2. CASE NextCallAttempt(s, Rest(s)) BY <1>0, <1>2, NextCallAttemptMoves
<1> QED BY <1>1, <1>2 DEF HearConnectAck

LEMMA CallTimeoutMoves ==
  ASSUME BaseInv, NEW s \in Stations, CallTimeout(s)
  PROVE  CallsAgain(s) \/ GivesUp(s)
<1>1. inbox[s] \in Rests(inbox[s]) BY DEF Rests
<1> QED BY <1>1, NextCallAttemptMoves DEF CallTimeout

LEMMA ListenMoves ==
  ASSUME BaseInv, NEW s \in Stations, Listen(s) PROVE Listens(s)
<1> DEFINE r == [stn[s] EXCEPT !.state = "LISTENING", !.call = "listen"]
<1>1. TypeOK /\ stn[s] \in StationState /\ << >> \in Rests(inbox[s])
  BY StationFacts DEF BaseInv, Rests
<1>2. r \in StationState BY <1>1, CallsAre DEF StationState
<1>3. Step(s, r, << >>, << >>) BY DEF Listen
<1> HIDE DEF r
<1>4. Moves(s, {}) /\ stn'[s] = r /\ inbox'[s] = << >> BY <1>1, <1>2, <1>3, StepNone
<1> QED BY <1>4 DEF r, Listen, Listens

LEMMA ListenTimeoutMoves ==
  ASSUME BaseInv, NEW s \in Stations, ListenTimeout(s) PROVE StopsListening(s)
<1> DEFINE r == [stn[s] EXCEPT !.call = "poll"]
<1>1. TypeOK /\ stn[s] \in StationState /\ inbox[s] \in Rests(inbox[s])
  BY StationFacts DEF BaseInv, Rests
<1>2. r \in StationState BY <1>1, CallsAre DEF StationState
<1>3. Step(s, r, inbox[s], << >>) BY DEF ListenTimeout
<1> HIDE DEF r
<1>4. Moves(s, {}) /\ stn'[s] = r /\ inbox'[s] = inbox[s] BY <1>1, <1>2, <1>3, StepNone
<1> QED BY <1>4 DEF r, ListenTimeout, StopsListening

LEMMA HandshakeFrames ==
  ASSUME NEW f \in Frame, f.type \in Handshaking
  PROVE  f.session \in 1..MaxSessions
BY DEF Frame, Handshaking

LEMMA AcceptCallMoves ==
  ASSUME BaseInv, NEW s \in Stations, AcceptCall(s) PROVE Answers(s)
<1> DEFINE id == Head(inbox[s]).session
           r == ResetSequence([stn[s] EXCEPT !.state = "CONNECTED", !.role = "IRS",
                                             !.session = id, !.ackBody = id,
                                             !.call = "poll"])
<1>0. /\ TypeOK /\ stn[s] \in StationState /\ stn[s].call = "listen"
      /\ inbox[s] # << >> /\ Head(inbox[s]).type = "CONNECT"
      /\ Rest(s) \in Rests(inbox[s]) /\ Head(inbox[s]) \in Frame
  BY StationFacts, HeadFacts DEF BaseInv, AcceptCall, Hears
<1>1. id \in 1..MaxSessions BY <1>0, HandshakeFrames DEF Handshaking
<1>2. r \in StationState
  <2>1. id \in 0..MaxSessions BY <1>1, ConstantFacts
  <2> HIDE DEF id
  <2> QED BY <1>0, <2>1, CallsAre, ConstantFacts DEF StationState, ResetSequence
<1>3. ConnectAck(id) \in Frame BY <1>1, ControlTyped
<1>4. Step(s, r, Rest(s), <<ConnectAck(id)>>) BY DEF AcceptCall
<1> HIDE DEF r
<1>5. Moves(s, {ConnectAck(id)}) /\ stn'[s] = r /\ inbox'[s] = Rest(s)
  BY <1>0, <1>2, <1>3, <1>4, StepOne
<1> QED BY <1>0, <1>5 DEF r, Answers, Heads, Rest

LEMMA HearUnwantedMoves ==
  ASSUME BaseInv, NEW s \in Stations, HearUnwanted(s)
  PROVE  /\ AnswersAgain(s) \/ Drops(s)
         /\ Head(inbox[s]).type \notin Wanted[stn[s].call]
<1>0. /\ TypeOK /\ stn[s] \in StationState /\ inbox[s] # << >>
      /\ Rest(s) \in Rests(inbox[s]) /\ Head(inbox[s]) \in Frame
      /\ stn[s].ackBody \in 0..MaxSessions
  BY StationFacts, HeadFacts DEF BaseInv, HearUnwanted
<1>1. CASE Reanswers(stn[s], Head(inbox[s]))
  <2>1. Step(s, stn[s], Rest(s), <<ConnectAck(stn[s].ackBody)>>) BY <1>1 DEF HearUnwanted
  <2>2. ConnectAck(stn[s].ackBody) \in Frame
    <3>1. stn[s].ackBody \in 1..MaxSessions BY <1>0, <1>1 DEF Reanswers, NoSession
    <3> QED BY <3>1, ControlTyped
  <2>3. Moves(s, {ConnectAck(stn[s].ackBody)}) /\ stn'[s] = stn[s] /\ inbox'[s] = Rest(s)
    BY <1>0, <2>1, <2>2, StepOne
  <2> QED BY <1>0, <1>1, <2>3 DEF AnswersAgain, Rest, HearUnwanted
<1>2. CASE ~Reanswers(stn[s], Head(inbox[s]))
  <2>1. Step(s, stn[s], Rest(s), << >>) BY <1>2 DEF HearUnwanted
  <2>2. Moves(s, {}) /\ stn'[s] = stn[s] /\ inbox'[s] = Rest(s) BY <1>0, <2>1, StepNone
  <2> QED BY <1>0, <2>2 DEF Drops, Rest, HearUnwanted
<1> QED BY <1>1, <1>2

LEMMA MovesMore ==
  ASSUME NEW s \in Stations, NEW F, NEW G \in SUBSET Frame, F \subseteq G, Moves(s, F)
  PROVE  Moves(s, G)
BY DEF Moves, Grown

\* What a DATA frame in hand is worth.
LEMMA DataFrameTyped ==
  ASSUME BaseInv, NEW s \in Stations, NEW r \in StationState,
         r.session = stn[s].session, stn[s].state = "CONNECTED", r.part >= 1,
         Len(returned[s]) < MaxMessages
  PROVE  DataFrame(s, r) \in Frame
<1>1. r.session \in 1..MaxSessions BY StationFacts DEF WellFormed, NoSession
<1>2. Len(returned[s]) + 1 \in 1..MaxMessages BY StationFacts, ConstantFacts
<1>3. r.part \in 1..ChunksPerMessage /\ r.txSeq \in SeqNo BY ConstantFacts DEF StationState
<1>4. [session |-> r.session, msg |-> Len(returned[s]) + 1, part |-> r.part] \in Body
  BY <1>1, <1>2, <1>3 DEF Body
<1> QED BY <1>3, <1>4 DEF DataFrame, Frame

LEMMA DataFields ==
  ASSUME NEW f \in Frame, f.type = "DATA"
  PROVE  f.seq \in SeqNo /\ f.eof \in BOOLEAN /\ f.body \in Body
BY DEF Frame

LEMMA AckFields ==
  ASSUME NEW f \in Frame, f.type = "DATA_ACK"
  PROVE  f.answered \in SeqNo /\ f.expects \in SeqNo
BY DEF Frame

LEMMA ReceivedTyped ==
  ASSUME NEW r \in StationState, NEW f \in Frame, f.type = "DATA"
  PROVE  Received(r, f) \in StationState /\ DataAck(r, f) \in Frame
<1>1. f.seq \in SeqNo /\ f.eof \in BOOLEAN /\ f.body \in Body BY DataFields
<1>2. NextSeq(f.seq) \in SeqNo BY <1>1, NextSeqFacts
<1>3. r.partial \in Seq(Body) BY DEF StationState
<1>4. Append(r.partial, f.body) \in Seq(Body) /\ << >> \in Seq(Body) BY <1>1, <1>3
<1>5. Received(r, f) \in StationState
  <2>1. \A b \in Seq(Body) :
          [r EXCEPT !.expect = NextSeq(f.seq), !.partial = b] \in StationState
    BY <1>2 DEF StationState
  <2>2. (IF f.eof THEN << >> ELSE Append(r.partial, f.body)) \in Seq(Body) BY <1>4
  <2> QED BY <2>1, <2>2 DEF Received
<1>6. Received(r, f).expect \in SeqNo BY <1>5 DEF StationState
<1> QED BY <1>1, <1>5, <1>6 DEF DataAck, Frame

LEMMA RequestingTyped ==
  ASSUME NEW r \in StationState, NEW n \in Nat
  PROVE  /\ Requesting(r, n) \in StationState
         /\ Requesting(r, n).call = "floor"
         /\ FloorFrames(r) \in Seq({Control("FLOOR_REQ")})
<1>1. (IF r.partial # << >> THEN n ELSE n + 1) \in Nat OBVIOUS
<1>2. \A k \in Nat : [r EXCEPT !.call = "floor", !.attempt = k] \in StationState
  BY CallsAre DEF StationState
<1>3. FloorFrames(r) \in Seq({Control("FLOOR_REQ")})
  <2>1. CASE r.partial = << >> BY <2>1 DEF FloorFrames
  <2>2. CASE r.partial # << >> BY <2>2 DEF FloorFrames
  <2> QED BY <2>1, <2>2
<1>4. Requesting(r, n) \in StationState BY <1>1, <1>2 DEF Requesting
<1>5. Requesting(r, n).call = "floor" BY DEF Requesting, StationState
<1> QED BY <1>3, <1>4, <1>5

LEMMA SendingTyped ==
  ASSUME NEW r \in StationState, NEW n \in 1..ChunksPerMessage, NEW role \in {"ISS", "IRS"}
  PROVE  LET r2 == Sending([r EXCEPT !.role = role], n)
         IN r2 \in StationState /\ r2.session = r.session /\ r2.part = n
<1>1. n \in 0..ChunksPerMessage /\ 1 \in Nat BY ConstantFacts
<1>2. [r EXCEPT !.role = role] \in StationState BY DEF StationState
<1>3. \A k \in StationState : Sending(k, n) \in StationState
  <2> TAKE k \in StationState
  <2> QED BY <1>1, CallsAre DEF Sending, StationState
<1>4. \A k \in StationState : Sending(k, n).session = k.session /\ Sending(k, n).part = n
  BY DEF Sending, StationState
<1>5. [r EXCEPT !.role = role].session = r.session BY DEF StationState
<1> HIDE DEF Sending
<1> QED BY <1>2, <1>3, <1>4, <1>5

LEMMA RecvDataTakes ==
  ASSUME BaseInv, NEW s \in Stations, RecvData(s) PROVE TakesChunk(s)
<1> DEFINE f == Head(inbox[s])
<1>0. /\ TypeOK /\ stn[s] \in StationState /\ stn[s].call = "poll" /\ stn[s].state = "CONNECTED"
      /\ inbox[s] # << >> /\ f.type = "DATA" /\ Rest(s) \in Rests(inbox[s]) /\ f \in Frame
  BY StationFacts, HeadFacts DEF BaseInv, RecvData, Hears, Reading
<1>1. Received(stn[s], f) \in StationState /\ DataAck(stn[s], f) \in Frame
  BY <1>0, ReceivedTyped
<1>2. Step(s, Received(stn[s], f), Rest(s), <<DataAck(stn[s], f)>>) /\ Deliver(s, f)
  BY DEF RecvData
<1>3. /\ Moves(s, {DataAck(stn[s], f)}) /\ stn'[s] = Received(stn[s], f)
      /\ inbox'[s] = Rest(s)
  BY <1>0, <1>1, <1>2, StepOne
<1> QED BY <1>0, <1>2, <1>3 DEF TakesChunk, Heads, Rest

LEMMA TakeDataForFloorTakes ==
  ASSUME BaseInv, NEW s \in Stations, TakeDataForFloor(s) PROVE TakesChunk(s)
<1> DEFINE f == Head(inbox[s])
           r == Received(stn[s], f)
           F == {DataAck(stn[s], f), Control("FLOOR_REQ")}
<1>0. /\ TypeOK /\ stn[s] \in StationState /\ stn[s].call = "floor" /\ stn[s].state = "CONNECTED"
      /\ inbox[s] # << >> /\ f.type = "DATA" /\ Rest(s) \in Rests(inbox[s]) /\ f \in Frame
  BY StationFacts, HeadFacts DEF BaseInv, TakeDataForFloor, Hears, WellFormed
<1>1. r \in StationState /\ DataAck(stn[s], f) \in Frame BY <1>0, ReceivedTyped
<1>2. Requesting(r, 0) \in StationState /\ FloorFrames(r) \in Seq({Control("FLOOR_REQ")})
  BY <1>1, RequestingTyped
<1>3. F \in SUBSET Frame BY <1>1, ControlTyped
<1>4. <<DataAck(stn[s], f)>> \o FloorFrames(r) \in Seq(F)
  <2>1. FloorFrames(r) \in Seq(F) /\ <<DataAck(stn[s], f)>> \in Seq(F) BY <1>2
  <2> HIDE DEF F
  <2> QED BY <2>1
<1>5. Step(s, Requesting(r, 0), Rest(s), <<DataAck(stn[s], f)>> \o FloorFrames(r)) /\ Deliver(s, f)
  BY DEF TakeDataForFloor
<1> HIDE DEF r, F
<1>6. Moves(s, F) /\ stn'[s] = Requesting(r, 0) /\ inbox'[s] = Rest(s)
  BY <1>0, <1>2, <1>3, <1>4, <1>5, StepMoves
<1> QED BY <1>0, <1>5, <1>6 DEF TakesChunk, Heads, Rest, r, F

LEMMA GrantFloorGrants ==
  ASSUME BaseInv, NEW s \in Stations, GrantFloor(s) PROVE Grants(s)
<1> DEFINE r == [stn[s] EXCEPT !.role = "IRS"]
<1>0. /\ TypeOK /\ stn[s] \in StationState /\ stn[s].call = "poll" /\ stn[s].state = "CONNECTED"
      /\ inbox[s] # << >> /\ Head(inbox[s]).type = "FLOOR_REQ" /\ Rest(s) \in Rests(inbox[s])
  BY StationFacts, HeadFacts DEF BaseInv, GrantFloor, Hears, Reading
<1>1. r \in StationState BY <1>0 DEF StationState
<1>2. Step(s, r, Rest(s), <<Control("FLOOR_GRANT")>>) BY DEF GrantFloor
<1> HIDE DEF r
<1>3. Moves(s, {Control("FLOOR_GRANT")}) /\ stn'[s] = r /\ inbox'[s] = Rest(s)
  BY <1>0, <1>1, <1>2, ControlTyped, StepOne
<1> QED BY <1>0, <1>3 DEF r, Grants, Heads, Rest

LEMMA SendMessageMoves ==
  ASSUME BaseInv, NEW s \in Stations, SendMessage(s) PROVE StartsSending(s) \/ AsksFloor(s)
<1> DEFINE r == stn[s]
<1>0. /\ TypeOK /\ r \in StationState /\ r.call = "poll" /\ r.state = "CONNECTED"
      /\ Len(returned[s]) < MaxMessages /\ inbox[s] \in Rests(inbox[s])
  BY StationFacts DEF BaseInv, SendMessage, Rests
<1>1. CASE r.role = "ISS" /\ Step(s, Sending(r, 1), inbox[s], <<DataFrame(s, Sending(r, 1))>>)
  <2>0. 1 \in 1..ChunksPerMessage BY ConstantFacts
  <2>1. [r EXCEPT !.role = "ISS"] = r BY <1>0, <1>1 DEF StationState
  <2>2. /\ Sending(r, 1) \in StationState
        /\ Sending(r, 1).session = r.session /\ Sending(r, 1).part = 1
    <3>1. LET r2 == Sending([r EXCEPT !.role = "ISS"], 1)
          IN r2 \in StationState /\ r2.session = r.session /\ r2.part = 1
      BY <1>0, <2>0, SendingTyped
    <3> QED BY <2>1, <3>1
  <2>3. DataFrame(s, Sending(r, 1)) \in Frame BY <1>0, <2>2, DataFrameTyped
  <2>4. /\ Moves(s, {DataFrame(s, Sending(r, 1))}) /\ stn'[s] = Sending(r, 1)
        /\ inbox'[s] = inbox[s]
    BY <1>0, <1>1, <2>2, <2>3, StepOne
  <2> QED BY <1>0, <1>1, <2>4 DEF StartsSending
<1>2. CASE r.role # "ISS" /\ Step(s, Requesting(r, 0), inbox[s], FloorFrames(r))
  <2>1. Requesting(r, 0) \in StationState /\ FloorFrames(r) \in Seq({Control("FLOOR_REQ")})
    BY <1>0, RequestingTyped
  <2>2. {Control("FLOOR_REQ")} \in SUBSET Frame BY ControlTyped
  <2>3. /\ Moves(s, {Control("FLOOR_REQ")}) /\ stn'[s] = Requesting(r, 0)
        /\ inbox'[s] = inbox[s]
    BY <1>0, <1>2, <2>1, <2>2, StepMoves
  <2> QED BY <1>0, <1>2, <2>3 DEF AsksFloor
<1> QED BY <1>1, <1>2 DEF SendMessage

LEMMA TakeGrantTakes ==
  ASSUME BaseInv, NEW s \in Stations, TakeGrant(s) PROVE TakesGrant(s)
<1> DEFINE r == Sending([stn[s] EXCEPT !.role = "ISS"], 1)
<1>0. /\ TypeOK /\ stn[s] \in StationState /\ stn[s].call = "floor" /\ stn[s].state = "CONNECTED"
      /\ Len(returned[s]) < MaxMessages
      /\ inbox[s] # << >> /\ Head(inbox[s]).type = "FLOOR_GRANT" /\ Rest(s) \in Rests(inbox[s])
  BY StationFacts, HeadFacts DEF BaseInv, TakeGrant, Hears, WellFormed
<1>1. 1 \in 1..ChunksPerMessage BY ConstantFacts
<1>2. r \in StationState /\ r.session = stn[s].session /\ r.part = 1 BY <1>0, <1>1, SendingTyped
<1>3. Step(s, r, Rest(s), <<DataFrame(s, r)>>) BY DEF TakeGrant
<1> HIDE DEF r
<1>4. DataFrame(s, r) \in Frame BY <1>0, <1>2, DataFrameTyped
<1>5. Moves(s, {DataFrame(s, r)}) /\ stn'[s] = r /\ inbox'[s] = Rest(s)
  BY <1>0, <1>2, <1>3, <1>4, StepOne
<1> QED BY <1>0, <1>5 DEF r, TakesGrant, Heads, Rest

LEMMA ClosingTyped ==
  ASSUME NEW r \in StationState, NEW n \in Nat
  PROVE  Closing(r, n) \in StationState
<1>1. 1 \in Nat OBVIOUS
<1> QED BY <1>1, CallsAre DEF Closing, StationState

LEMMA ClosedTyped ==
  ASSUME NEW r \in StationState
  PROVE  Closed(r) \in StationState
<1>1. NoSession \in 0..MaxSessions BY ConstantFacts DEF NoSession
<1> QED BY <1>1, CallsAre DEF Closed, StationState

LEMMA FreshTyped == Fresh \in StationState
<1>1. /\ NoSession \in 0..MaxSessions /\ 0 \in 0..ChunksPerMessage
      /\ 0 \in SeqNo /\ << >> \in Seq(Body)
  BY ConstantFacts DEF NoSession
<1> QED BY <1>1, CallsAre DEF Fresh, StationState

\* The DISC of a station that closes.
LEMMA ClosesMoves ==
  ASSUME BaseInv, NEW s \in Stations, NEW rest \in Rests(inbox[s]), NEW n \in Nat,
         stn[s].state = "CONNECTED", stn[s].call \in {"poll", "floor", "send"},
         Step(s, Closing(stn[s], n), rest, <<Control("DISC")>>)
  PROVE  Closes(s) /\ inbox'[s] = rest
<1>1. TypeOK /\ Closing(stn[s], n) \in StationState
  BY StationFacts, ClosingTyped DEF BaseInv
<1>2. Moves(s, {Control("DISC")}) /\ stn'[s] = Closing(stn[s], n) /\ inbox'[s] = rest
  BY <1>1, ControlTyped, StepOne
<1> QED BY <1>2 DEF Closes

LEMMA FloorTimeoutMoves ==
  ASSUME BaseInv, NEW s \in Stations, FloorTimeout(s) PROVE AsksAgain(s) \/ Closes(s)
<1> DEFINE r == stn[s]
<1>0. /\ TypeOK /\ r \in StationState /\ r.call = "floor" /\ r.state = "CONNECTED"
      /\ r.partial = << >> /\ r.attempt \in Nat /\ inbox[s] \in Rests(inbox[s])
  BY StationFacts DEF BaseInv, FloorTimeout, Rests, WellFormed
<1>1. CASE Step(s, Requesting(r, r.attempt), inbox[s], FloorFrames(r))
  <2>1. Requesting(r, r.attempt) \in StationState BY <1>0, RequestingTyped
  <2>2. FloorFrames(r) = <<Control("FLOOR_REQ")>> BY <1>0 DEF FloorFrames
  <2>3. /\ Moves(s, {Control("FLOOR_REQ")}) /\ stn'[s] = Requesting(r, r.attempt)
        /\ inbox'[s] = inbox[s]
    BY <1>0, <1>1, <2>1, <2>2, ControlTyped, StepOne
  <2> QED BY <1>0, <2>3 DEF AsksAgain
<1>2. CASE Step(s, Closing(r, 1), inbox[s], <<Control("DISC")>>)
  BY <1>0, <1>2, ClosesMoves
<1> QED BY <1>1, <1>2 DEF FloorTimeout, Failed

LEMMA HearDataAckMoves ==
  ASSUME BaseInv, NEW s \in Stations, HearDataAck(s)
  PROVE  \/ Drops(s) /\ UNCHANGED returned /\ ~Accepts(stn[s], Head(inbox[s]))
         \/ SendsNext(s) /\ UNCHANGED returned
         \/ Returns(s)
<1> DEFINE r == stn[s]
           next == [r EXCEPT !.txSeq = NextSeq(@)]
<1>0. /\ TypeOK /\ r \in StationState /\ r.call = "send" /\ r.state = "CONNECTED"
      /\ r.part \in 1..ChunksPerMessage /\ Len(returned[s]) < MaxMessages
      /\ r.txSeq \in SeqNo
      /\ inbox[s] # << >> /\ Head(inbox[s]).type = "DATA_ACK" /\ Rest(s) \in Rests(inbox[s])
  <2>1. r.call = "send" /\ inbox[s] # << >> /\ Head(inbox[s]).type = "DATA_ACK"
    BY DEF HearDataAck, Hears
  <2>2. TypeOK /\ Rest(s) \in Rests(inbox[s]) BY <2>1, HeadFacts DEF BaseInv
  <2>3. r \in StationState /\ WellFormed(r, Len(returned[s])) /\ r.txSeq \in SeqNo
        /\ r.part \in 0..ChunksPerMessage
    BY StationFacts
  <2>4. r.state = "CONNECTED" /\ r.part >= 1 /\ Len(returned[s]) < MaxMessages
    BY <2>1, <2>3 DEF WellFormed
  <2> QED BY <2>1, <2>2, <2>3, <2>4, ConstantFacts
<1>1. next \in StationState /\ next = Advanced(r) /\ next.session = r.session
  <2>1. NextSeq(r.txSeq) \in SeqNo BY <1>0, NextSeqFacts
  <2> QED BY <1>0, <2>1 DEF StationState, Advanced
<1> HIDE DEF next
<1>2. CASE ~Accepts(r, Head(inbox[s])) /\ Step(s, r, Rest(s), << >>) /\ UNCHANGED returned
  <2>1. Moves(s, {}) /\ stn'[s] = r /\ inbox'[s] = Rest(s) BY <1>0, <1>2, StepNone
  <2> QED BY <1>0, <1>2, <2>1 DEF Drops, Rest
<1>3. CASE /\ Accepts(r, Head(inbox[s])) /\ r.part < ChunksPerMessage /\ UNCHANGED returned
           /\ Step(s, Sending(next, r.part + 1), Rest(s),
                   <<DataFrame(s, Sending(next, r.part + 1))>>)
  <2> DEFINE r2 == Sending(next, r.part + 1)
  <2>1. r.part + 1 \in 1..ChunksPerMessage BY <1>0, <1>3, ConstantFacts
  <2>2. [next EXCEPT !.role = "ISS"] = next
    <3>1. next.role = "ISS"
      BY <1>0, <1>1, StationFacts DEF WellFormed, Advanced, StationState
    <3> QED BY <1>1, <3>1 DEF StationState
  <2>3. r2 \in StationState /\ r2.session = r.session /\ r2.part = r.part + 1
    <3>1. LET k == Sending([next EXCEPT !.role = "ISS"], r.part + 1)
          IN k \in StationState /\ k.session = next.session /\ k.part = r.part + 1
      BY <1>1, <2>1, SendingTyped
    <3> QED BY <1>1, <2>2, <3>1
  <2>4. Step(s, r2, Rest(s), <<DataFrame(s, r2)>>) BY <1>3
  <2> HIDE DEF r2
  <2>5. DataFrame(s, r2) \in Frame BY <1>0, <2>1, <2>3, DataFrameTyped
  <2>6. Moves(s, {DataFrame(s, r2)}) /\ stn'[s] = r2 /\ inbox'[s] = Rest(s)
    BY <1>0, <2>3, <2>4, <2>5, StepOne
  <2> QED BY <1>0, <1>1, <1>3, <2>6 DEF r2, SendsNext, Heads, Rest
<1>4. CASE /\ Accepts(r, Head(inbox[s])) /\ r.part = ChunksPerMessage
           /\ Step(s, [next EXCEPT !.call = "poll"], Rest(s), << >>)
           /\ returned' = [returned EXCEPT ![s] = Append(@, r.session)]
  <2>1. [next EXCEPT !.call = "poll"] \in StationState BY <1>1, CallsAre DEF StationState
  <2>2. /\ Moves(s, {}) /\ stn'[s] = [next EXCEPT !.call = "poll"] /\ inbox'[s] = Rest(s)
    BY <1>0, <1>4, <2>1, StepNone
  <2> QED BY <1>0, <1>1, <1>4, <2>2 DEF Returns, Heads, Rest
<1> QED BY <1>2, <1>3, <1>4 DEF HearDataAck, next

LEMMA NextDataAttemptMoves ==
  ASSUME BaseInv, NEW s \in Stations, NEW rest \in Rests(inbox[s]), stn[s].call = "send",
         NextDataAttempt(s, rest)
  PROVE  (SendsAgain(s) \/ Closes(s)) /\ inbox'[s] = rest
<1> DEFINE r == stn[s]
           next == [r EXCEPT !.attempt = @ + 1]
<1>0. /\ TypeOK /\ r \in StationState /\ r.state = "CONNECTED" /\ r.attempt \in Nat
      /\ r.part >= 1 /\ Len(returned[s]) < MaxMessages
  BY StationFacts DEF BaseInv, WellFormed
<1>1. CASE Step(s, next, rest, <<DataFrame(s, r)>>)
  <2>1. next \in StationState
    <3>1. r.attempt + 1 \in Nat BY <1>0
    <3> QED BY <1>0, <3>1 DEF StationState
  <2>2. DataFrame(s, r) \in Frame BY <1>0, DataFrameTyped
  <2> HIDE DEF next
  <2>3. Moves(s, {DataFrame(s, r)}) /\ stn'[s] = next /\ inbox'[s] = rest
    BY <1>0, <1>1, <2>1, <2>2, StepOne
  <2> QED BY <2>3 DEF next, SendsAgain
<1>2. CASE Step(s, Closing(r, 1), rest, <<Control("DISC")>>) BY <1>0, <1>2, ClosesMoves
<1> QED BY <1>1, <1>2 DEF NextDataAttempt, Failed

LEMMA PeerDiscMoves ==
  ASSUME BaseInv, NEW s \in Stations, PeerDisc(s) PROVE IsClosed(s)
<1>0. /\ TypeOK /\ stn[s] \in StationState /\ Rest(s) \in Rests(inbox[s])
      /\ stn[s].state = "CONNECTED"
  BY StationFacts, HeadFacts DEF BaseInv, PeerDisc, Hears, Reading, WellFormed
<1>1. Step(s, Closed(stn[s]), Rest(s), <<Control("DISC_ACK")>>) BY DEF PeerDisc
<1>2. Moves(s, {Control("DISC_ACK")}) /\ stn'[s] = Closed(stn[s])
  BY <1>0, <1>1, ClosedTyped, ControlTyped, StepOne
<1> QED BY <1>0, <1>2 DEF IsClosed

LEMMA DisconnectMoves ==
  ASSUME BaseInv, NEW s \in Stations, Disconnect(s) PROVE Closes(s) \/ GoesIdle(s)
<1> DEFINE r == [stn[s] EXCEPT !.state = "IDLE"]
<1>0. /\ TypeOK /\ stn[s] \in StationState /\ inbox[s] \in Rests(inbox[s])
      /\ stn[s].call = "poll" /\ DiscRetries \in Nat
  BY StationFacts, ConstantFacts DEF BaseInv, Disconnect, Rests
<1>1. CASE /\ stn[s].state = "CONNECTED"
           /\ Step(s, Closing(stn[s], DiscRetries), inbox[s], <<Control("DISC")>>)
  BY <1>0, <1>1, ClosesMoves
<1>2. CASE stn[s].state # "CONNECTED" /\ Step(s, r, inbox[s], << >>)
  <2>1. r \in StationState BY <1>0 DEF StationState
  <2> HIDE DEF r
  <2>2. Moves(s, {}) /\ stn'[s] = r BY <1>0, <1>2, <2>1, StepNone
  <2> QED BY <1>0, <1>2, <2>2 DEF r, GoesIdle
<1> QED BY <1>1, <1>2 DEF Disconnect

LEMMA DiscAnsweredMoves ==
  ASSUME BaseInv, NEW s \in Stations, DiscAnswered(s) PROVE IsClosed(s)
<1>0. /\ TypeOK /\ stn[s] \in StationState /\ Rest(s) \in Rests(inbox[s])
      /\ stn[s].state = "CONNECTED"
  BY StationFacts, HeadFacts DEF BaseInv, DiscAnswered, Hears, WellFormed
<1>1. Step(s, Closed(stn[s]), Rest(s), << >>) BY DEF DiscAnswered
<1>2. Moves(s, {}) /\ stn'[s] = Closed(stn[s]) BY <1>0, <1>1, ClosedTyped, StepNone
<1>3. {Control("DISC_ACK")} \in SUBSET Frame BY ControlTyped
<1> QED BY <1>0, <1>2, <1>3, MovesMore DEF IsClosed

LEMMA DiscTimeoutMoves ==
  ASSUME BaseInv, NEW s \in Stations, DiscTimeout(s) PROVE ClosesAgain(s) \/ IsClosed(s)
<1> DEFINE r == stn[s]
           next == [r EXCEPT !.attempt = @ + 1]
<1>0. /\ TypeOK /\ r \in StationState /\ r.state = "CONNECTED" /\ r.call = "disc"
      /\ r.attempt \in Nat /\ inbox[s] \in Rests(inbox[s])
  BY StationFacts DEF BaseInv, WellFormed, DiscTimeout, Rests
<1>1. CASE Step(s, next, inbox[s], <<Control("DISC")>>)
  <2>1. next \in StationState
    <3>1. r.attempt + 1 \in Nat BY <1>0
    <3> QED BY <1>0, <3>1 DEF StationState
  <2> HIDE DEF next
  <2>2. Moves(s, {Control("DISC")}) /\ stn'[s] = next
    BY <1>0, <1>1, <2>1, ControlTyped, StepOne
  <2> QED BY <1>0, <2>2 DEF next, ClosesAgain
<1>2. CASE Step(s, Closed(r), inbox[s], << >>)
  <2>1. Moves(s, {}) /\ stn'[s] = Closed(r) BY <1>0, <1>2, ClosedTyped, StepNone
  <2>2. {Control("DISC_ACK")} \in SUBSET Frame BY ControlTyped
  <2> QED BY <1>0, <2>1, <2>2, MovesMore DEF IsClosed
<1> QED BY <1>1, <1>2 DEF DiscTimeout

LEMMA AbandonMoves ==
  ASSUME BaseInv, NEW s \in Stations, Abandon(s) PROVE Closes(s)
<1>1. inbox[s] \in Rests(inbox[s]) BY DEF Rests
<1> QED BY <1>1, ClosesMoves DEF Abandon

LEMMA CrashRestarts ==
  ASSUME BaseInv, NEW s \in Stations, Crash(s) PROVE Restarts(s)
<1>1. Step(s, Fresh, << >>, << >>) /\ TypeOK /\ << >> \in Rests(inbox[s])
  BY DEF Crash, BaseInv, Rests
<1>2. Moves(s, {}) /\ stn'[s] = Fresh /\ inbox'[s] = << >> BY <1>1, FreshTyped, StepNone
<1> QED BY <1>2 DEF Restarts

----------------------------------------------------------------------------
(* Types *)

\* Every step is one of these, by one station.
Quietly(s) ==
  \/ CallsAgain(s) \/ GivesUp(s) \/ Joins(s) \/ Listens(s) \/ StopsListening(s)
  \/ Answers(s) \/ AnswersAgain(s) \/ Drops(s) \/ Grants(s) \/ StartsSending(s)
  \/ AsksFloor(s) \/ AsksAgain(s) \/ TakesGrant(s) \/ SendsNext(s) \/ SendsAgain(s)
  \/ Closes(s) \/ ClosesAgain(s) \/ IsClosed(s) \/ GoesIdle(s) \/ Restarts(s)

Outcome(s) ==
  \/ Opens(s) /\ UNCHANGED <<delivered, returned>>
  \/ TakesChunk(s) /\ UNCHANGED <<sessions, returned>>
  \/ Returns(s) /\ UNCHANGED <<sessions, delivered>>
  \/ Quietly(s) /\ UNCHANGED <<sessions, delivered, returned>>

LEMMA Outcomes ==
  ASSUME BaseInv, Next
  PROVE  (\E s \in Stations : Outcome(s)) /\ crashes' \in 0..MaxCrashes
<1> USE DEF Outcome, Quietly, Unchanged
<1>0. crashes \in 0..MaxCrashes /\ MaxCrashes \in Nat BY ConstantFacts DEF BaseInv, TypeOK
<1>1. PICK s \in Stations :
        Handshake(s) \/ HearUnwanted(s) \/ Floor(s) \/ Data(s) \/ Teardown(s) \/ Crash(s)
  BY DEF Next
<1>2. CASE Handshake(s)
  <2>1. CASE PlaceCall(s) BY <1>0, <2>1, PlaceCallOpens
  <2>2. CASE CallTimeout(s) BY <1>0, <2>2, CallTimeoutMoves DEF CallTimeout
  <2>3. CASE HearConnectAck(s) BY <1>0, <2>3, HearConnectAckMoves DEF HearConnectAck
  <2>4. CASE Listen(s) BY <1>0, <2>4, ListenMoves DEF Listen
  <2>5. CASE ListenTimeout(s) BY <1>0, <2>5, ListenTimeoutMoves DEF ListenTimeout
  <2>6. CASE AcceptCall(s) BY <1>0, <2>6, AcceptCallMoves DEF AcceptCall
  <2> QED BY <1>2, <2>1, <2>2, <2>3, <2>4, <2>5, <2>6 DEF Handshake
<1>3. CASE HearUnwanted(s) BY <1>0, <1>3, HearUnwantedMoves DEF HearUnwanted
<1>4. CASE Floor(s)
  <2>1. CASE GrantFloor(s) BY <1>0, <2>1, GrantFloorGrants DEF GrantFloor
  <2>2. CASE TakeGrant(s) BY <1>0, <2>2, TakeGrantTakes DEF TakeGrant
  <2>3. CASE TakeDataForFloor(s) BY <1>0, <2>3, TakeDataForFloorTakes DEF TakeDataForFloor
  <2>4. CASE FloorTimeout(s) BY <1>0, <2>4, FloorTimeoutMoves DEF FloorTimeout
  <2> QED BY <1>4, <2>1, <2>2, <2>3, <2>4 DEF Floor
<1>5. CASE Data(s)
  <2>1. CASE SendMessage(s) BY <1>0, <2>1, SendMessageMoves DEF SendMessage
  <2>2. CASE HearDataAck(s) BY <1>0, <2>2, HearDataAckMoves DEF HearDataAck
  <2>3. CASE DataTimeout(s)
    <3>1. inbox[s] \in Rests(inbox[s]) BY DEF Rests
    <3> QED BY <1>0, <2>3, <3>1, NextDataAttemptMoves DEF DataTimeout
  <2>4. CASE FloorReqWhileSending(s)
    <3>1. Rest(s) \in Rests(inbox[s]) BY <2>4, HeadFacts DEF FloorReqWhileSending, Hears
    <3> QED BY <1>0, <2>4, <3>1, NextDataAttemptMoves DEF FloorReqWhileSending
  <2>5. CASE RecvData(s) BY <1>0, <2>5, RecvDataTakes DEF RecvData
  <2> QED BY <1>5, <2>1, <2>2, <2>3, <2>4, <2>5 DEF Data
<1>6. CASE Teardown(s)
  <2>1. CASE PeerDisc(s) BY <1>0, <2>1, PeerDiscMoves DEF PeerDisc
  <2>2. CASE Disconnect(s) BY <1>0, <2>2, DisconnectMoves DEF Disconnect
  <2>3. CASE DiscAnswered(s) BY <1>0, <2>3, DiscAnsweredMoves DEF DiscAnswered
  <2>4. CASE DiscTimeout(s) BY <1>0, <2>4, DiscTimeoutMoves DEF DiscTimeout
  <2>5. CASE Abandon(s) BY <1>0, <2>5, AbandonMoves DEF Abandon
  <2> QED BY <1>6, <2>1, <2>2, <2>3, <2>4, <2>5 DEF Teardown
<1>7. CASE Crash(s)
  <2>1. crashes' \in 0..MaxCrashes BY <1>0, <1>7 DEF Crash
  <2> QED BY <1>7, <2>1, CrashRestarts DEF Crash
<1> QED BY <1>1, <1>2, <1>3, <1>4, <1>5, <1>6, <1>7

\* What the applications were told is of some session drawn.
Booked ==
  /\ returned \in [Stations -> Seq(1..MaxSessions)]
  /\ delivered \in [Stations -> Seq([session : 1..MaxSessions, chunks : Seq(Body)])]
  /\ \A t \in Stations : \A i \in DOMAIN delivered[t] : delivered[t][i].session <= sessions

\* What has to be looked at in a step of s.
LEMMA MoveKeepsBase ==
  ASSUME BaseInv, NEW s \in Stations, NEW F, Moves(s, F),
         WellFormed(stn'[s], Len(returned'[s])),
         stn'[s].session <= sessions', stn'[s].ackBody <= sessions',
         \A f \in F : f.type \in Handshaking => f.session <= sessions',
         sessions' \in 0..MaxSessions, sessions <= sessions', crashes' \in 0..MaxCrashes,
         returned'[Peer(s)] = returned[Peer(s)], Booked'
  PROVE  BaseInv'
<1> DEFINE p == Peer(s)
<1>1. p \in Stations /\ p # s /\ \A t \in Stations : t = s \/ t = p BY PeerFacts
<1>2. TypeOK' BY DEF Moves, TypeOK, Booked
<1>3. Shape'
  <2>1. WellFormed(stn'[p], Len(returned'[p])) BY <1>1, StationFacts DEF Moves
  <2> HIDE DEF p
  <2> QED BY <1>1, <2>1 DEF Shape
<1>4. ASSUME NEW t \in Stations
      PROVE  /\ stn'[t].session <= sessions' /\ stn'[t].ackBody <= sessions'
             /\ \A i \in DOMAIN inbox'[t] :
                  inbox'[t][i].type \in Handshaking => inbox'[t][i].session <= sessions'
  <2>0. sessions \in Nat /\ sessions' \in Nat BY ConstantFacts, StationFacts
  <2>1. ASSUME NEW f \in Frame, f.type \in Handshaking, f.session <= sessions
        PROVE  f.session <= sessions'
    <3>1. f.session \in Nat BY <2>1, HandshakeFrames, ConstantFacts
    <3> QED BY <2>0, <2>1, <3>1
  <2>2. \A u \in Stations : \A i \in DOMAIN inbox[u] : inbox[u][i] \in Frame
    BY StationFacts
  <2>3. \A u \in Stations : \A i \in DOMAIN inbox[u] :
          inbox[u][i].type \in Handshaking => inbox[u][i].session <= sessions'
    BY <2>1, <2>2 DEF BaseInv, Drawn
  <2>4. CASE t = s
    <3> DEFINE G == Frame
    <3>1. inbox[s] \in Seq(G) BY StationFacts
    <3>2. \A rest \in Rests(inbox[s]) : \A i \in DOMAIN rest :
            \E j \in DOMAIN inbox[s] : rest[i] = inbox[s][j]
      <4> HIDE DEF G
      <4>1. ASSUME NEW rest \in Rests(inbox[s]), NEW i \in DOMAIN rest
            PROVE  \E j \in DOMAIN inbox[s] : rest[i] = inbox[s][j]
        <5>1. rest \in Seq(G) BY <3>1, RestsTyped
        <5>2. i \in 1..Len(rest) /\ DOMAIN inbox[s] = 1..Len(inbox[s]) BY <3>1, <5>1
        <5>3. \E d \in Nat : /\ Len(rest) + d = Len(inbox[s])
                            /\ \A k \in 1..Len(rest) : /\ k + d \in 1..Len(inbox[s])
                                                       /\ rest[k] = inbox[s][k + d]
          BY <3>1, RestsShift
        <5> QED BY <5>2, <5>3
      <4> QED BY <4>1
    <3>3. inbox'[s] \in Rests(inbox[s]) BY DEF Moves
    <3> QED BY <2>3, <2>4, <3>2, <3>3
  <2>5. CASE t = p
    <3>1. stn'[p].session <= sessions' /\ stn'[p].ackBody <= sessions'
      <4>1. \A u \in Stations :
              /\ stn[u].session \in Nat /\ stn[u].ackBody \in Nat
              /\ stn[u].session <= sessions /\ stn[u].ackBody <= sessions
        BY StationFacts, ConstantFacts
      <4>2. stn'[p] = stn[p] BY DEF Moves
      <4> HIDE DEF p
      <4> QED BY <1>1, <2>0, <4>1, <4>2
    <3>2. \A i \in DOMAIN inbox'[p] :
            \/ i \in DOMAIN inbox[p] /\ inbox'[p][i] = inbox[p][i]
            \/ inbox'[p][i] \in F
      <4> DEFINE T == Seq(Frame)
      <4>1. inbox'[p] \in T /\ inbox[p] \in T BY <1>1, StationFacts DEF Moves
      <4>2. DOMAIN inbox'[p] = 1..Len(inbox'[p]) /\ DOMAIN inbox[p] = 1..Len(inbox[p])
            /\ Len(inbox[p]) \in Nat
        BY <4>1
      <4> QED BY <4>2 DEF Moves, Grown
    <3> QED BY <1>1, <2>3, <2>5, <3>1, <3>2
  <2> QED BY <1>1, <2>4, <2>5
<1>5. Drawn' BY <1>4 DEF Drawn, Booked
<1> QED BY <1>2, <1>3, <1>5 DEF BaseInv

LEMMA BookFacts ==
  ASSUME BaseInv
  PROVE  Booked
BY DEF BaseInv, TypeOK, Drawn, Booked

\* No outcome but Opens, Answers and Joins changes who is in which session,
\* except by leaving it.
LEMMA QuietlyKeepsBase ==
  ASSUME BaseInv, NEW s \in Stations, Quietly(s), crashes' \in 0..MaxCrashes,
         UNCHANGED <<sessions, delivered, returned>>
  PROVE  BaseInv'
<1> DEFINE r == stn[s]
           n == Len(returned[s])
<1>0. /\ r \in StationState /\ WellFormed(r, n) /\ n \in Nat
      /\ r.session \in Nat /\ r.ackBody \in Nat
      /\ r.session <= sessions /\ r.ackBody <= sessions
      /\ sessions \in 0..MaxSessions /\ sessions \in Nat /\ r.part \in Nat
  BY StationFacts, ConstantFacts
<1>1. ASSUME NEW F, Moves(s, F), WellFormed(stn'[s], n),
             stn'[s].session <= sessions, stn'[s].ackBody <= sessions,
             \A f \in F : f.type \in Handshaking => f.session <= sessions
      PROVE  BaseInv'
  <2>1. Booked' /\ returned' = returned /\ sessions' = sessions BY BookFacts DEF Booked
  <2>2. returned'[Peer(s)] = returned[Peer(s)] /\ sessions <= sessions' BY <1>0, <2>1
  <2>3. WellFormed(stn'[s], Len(returned'[s])) BY <1>1, <2>1
  <2> QED BY <1>0, <1>1, <2>1, <2>2, <2>3, MoveKeepsBase
<1>2. CASE CallsAgain(s)
  <2>1. Connect(r.session).session <= sessions BY <1>0 DEF Connect
  <2> QED BY <1>0, <1>1, <1>2, <2>1 DEF CallsAgain, WellFormed, StationState
<1>3. CASE GivesUp(s)
  <2>1. Control("DISC").type \notin Handshaking BY DEF Control, Handshaking
  <2> QED BY <1>0, <1>1, <1>3, <2>1 DEF GivesUp, WellFormed, StationState, NoSession
<1>4. CASE Joins(s)
  BY <1>0, <1>1, <1>4 DEF Joins, WellFormed, StationState, ResetSequence
<1>5. CASE Listens(s) \/ StopsListening(s) \/ GoesIdle(s)
  <2>1. CASE Listens(s) BY <1>0, <1>1, <2>1 DEF Listens, WellFormed, StationState
  <2>2. CASE StopsListening(s)
    BY <1>0, <1>1, <2>2 DEF StopsListening, WellFormed, StationState
  <2>3. CASE GoesIdle(s) BY <1>0, <1>1, <2>3 DEF GoesIdle, WellFormed, StationState
  <2> QED BY <1>5, <2>1, <2>2, <2>3
<1>6. CASE Answers(s)
  <2> DEFINE id == Head(inbox[s]).session
  <2>1. id \in 1..MaxSessions /\ id <= sessions
    BY <1>6, HeadFacts, HandshakeFrames DEF Answers, Heads, Handshaking
  <2>2. Moves(s, {ConnectAck(id)}) /\ ConnectAck(id).session <= sessions
    BY <1>6, <2>1 DEF Answers, ConnectAck
  <2>3. stn'[s] = ResetSequence([r EXCEPT !.state = "CONNECTED", !.role = "IRS",
                                          !.session = id, !.ackBody = id, !.call = "poll"])
    BY <1>6 DEF Answers
  <2> HIDE DEF id
  <2>4. id # NoSession BY <2>1 DEF NoSession
  <2>5. WellFormed(stn'[s], n) /\ stn'[s].session = id /\ stn'[s].ackBody = id
    BY <1>0, <2>3, <2>4 DEF WellFormed, StationState, ResetSequence
  <2> QED BY <1>1, <2>1, <2>2, <2>5
<1>7. CASE AnswersAgain(s)
  <2>1. ConnectAck(r.ackBody).session <= sessions BY <1>0 DEF ConnectAck
  <2> QED BY <1>0, <1>1, <1>7, <2>1 DEF AnswersAgain
<1>8. CASE Drops(s) BY <1>0, <1>1, <1>8 DEF Drops
<1>9. CASE Grants(s)
  <2>1. Control("FLOOR_GRANT").type \notin Handshaking BY DEF Control, Handshaking
  <2> QED BY <1>0, <1>1, <1>9, <2>1 DEF Grants, WellFormed, StationState
<1>10. CASE AsksFloor(s) \/ AsksAgain(s)
  <2>1. Control("FLOOR_REQ").type \notin Handshaking BY DEF Control, Handshaking
  <2>2. \E k \in Nat : stn'[s] = Requesting(r, k)
    <3>1. 0 \in Nat /\ r.attempt \in Nat BY <1>0 DEF StationState
    <3> QED BY <1>10, <3>1 DEF AsksFloor, AsksAgain
  <2>3. /\ n < MaxMessages /\ r.state = "CONNECTED" /\ r.role = "IRS"
        /\ Moves(s, {Control("FLOOR_REQ")})
    BY <1>0, <1>10 DEF AsksFloor, AsksAgain, WellFormed
  <2>4. /\ WellFormed(stn'[s], n)
        /\ stn'[s].session <= sessions /\ stn'[s].ackBody <= sessions
    BY <1>0, <2>2, <2>3 DEF Requesting, WellFormed, StationState
  <2> QED BY <1>1, <2>1, <2>3, <2>4
<1>11. CASE StartsSending(s) \/ TakesGrant(s) \/ SendsNext(s)
  <2>1. DataFrame(s, stn'[s]).type \notin Handshaking BY DEF DataFrame, Handshaking
  <2>2. Moves(s, {DataFrame(s, stn'[s])}) /\ n < MaxMessages /\ r.state = "CONNECTED"
    BY <1>0, <1>11 DEF StartsSending, TakesGrant, SendsNext, WellFormed
  <2>3. /\ WellFormed(stn'[s], n)
        /\ stn'[s].session <= sessions /\ stn'[s].ackBody <= sessions
    <3>1. CASE StartsSending(s)
      BY <1>0, <3>1 DEF StartsSending, Sending, WellFormed, StationState
    <3>2. CASE TakesGrant(s)
      BY <1>0, <2>2, <3>2 DEF TakesGrant, Sending, WellFormed, StationState
    <3>3. CASE SendsNext(s)
      <4>1. r.part + 1 >= 1 BY <1>0
      <4> QED BY <1>0, <2>2, <3>3, <4>1 DEF SendsNext, Sending, Advanced, WellFormed, StationState
    <3> QED BY <1>11, <3>1, <3>2, <3>3
  <2> QED BY <1>1, <2>1, <2>2, <2>3
<1>12. CASE SendsAgain(s)
  <2>1. DataFrame(s, r).type \notin Handshaking BY DEF DataFrame, Handshaking
  <2> QED BY <1>0, <1>1, <1>12, <2>1 DEF SendsAgain, WellFormed, StationState
<1>13. CASE Closes(s) \/ ClosesAgain(s)
  <2>1. Control("DISC").type \notin Handshaking BY DEF Control, Handshaking
  <2>2. CASE Closes(s)
    BY <1>0, <1>1, <2>1, <2>2 DEF Closes, Closing, WellFormed, StationState
  <2>3. CASE ClosesAgain(s)
    BY <1>0, <1>1, <2>1, <2>3 DEF ClosesAgain, WellFormed, StationState
  <2> QED BY <1>13, <2>2, <2>3
<1>14. CASE IsClosed(s)
  <2>1. Control("DISC_ACK").type \notin Handshaking BY DEF Control, Handshaking
  <2> QED BY <1>0, <1>1, <1>14, <2>1 DEF IsClosed, Closed, WellFormed, StationState, NoSession
<1>15. CASE Restarts(s)
  <2>1. WellFormed(Fresh, n) /\ Fresh.session = 0 /\ Fresh.ackBody = 0
    BY DEF Fresh, WellFormed, NoSession
  <2> QED BY <1>0, <1>1, <1>15, <2>1 DEF Restarts
<1> QED BY <1>2, <1>3, <1>4, <1>5, <1>6, <1>7, <1>8, <1>9, <1>10, <1>11, <1>12, <1>13,
           <1>14, <1>15 DEF Quietly

LEMMA OutcomeKeepsBase ==
  ASSUME BaseInv, NEW s \in Stations, Outcome(s), crashes' \in 0..MaxCrashes
  PROVE  BaseInv'
<1> DEFINE r == stn[s]
           n == Len(returned[s])
<1>0. /\ r \in StationState /\ WellFormed(r, n) /\ n \in Nat
      /\ r.session \in Nat /\ r.ackBody \in Nat
      /\ r.session <= sessions /\ r.ackBody <= sessions
      /\ sessions \in 0..MaxSessions /\ sessions \in Nat
  BY StationFacts, ConstantFacts
<1>1. CASE Opens(s) /\ UNCHANGED <<delivered, returned>>
  <2>1. sessions' \in 0..MaxSessions /\ sessions <= sessions' /\ sessions' # 0
    BY <1>0, <1>1, ConstantFacts DEF Opens
  <2>2. WellFormed(stn'[s], n) /\ stn'[s].session <= sessions' /\ stn'[s].ackBody <= sessions'
    BY <1>0, <1>1, <2>1 DEF Opens, WellFormed, StationState, NoSession
  <2>3. Connect(sessions + 1).session <= sessions' /\ Moves(s, {Connect(sessions + 1)})
    BY <1>0, <1>1 DEF Connect, Opens
  <2>4. \A t \in Stations : \A i \in DOMAIN delivered'[t] :
          delivered'[t][i].session <= sessions'
    <3> DEFINE T == [session : 1..MaxSessions, chunks : Seq(Body)]
    <3>1. \A t \in Stations : delivered[t] \in Seq(T) BY BookFacts DEF Booked
    <3>2. \A t \in Stations : \A i \in DOMAIN delivered[t] : delivered[t][i].session \in Nat
      <4>1. \A t \in Stations : \A i \in DOMAIN delivered[t] : delivered[t][i] \in T
        <5> HIDE DEF T
        <5> QED BY <3>1
      <4> QED BY <4>1, ConstantFacts
    <3>3. \A t \in Stations : \A i \in DOMAIN delivered[t] :
            delivered[t][i].session <= sessions /\ delivered[t][i].session \in Nat
      BY <3>2, BookFacts DEF Booked
    <3> HIDE DEF T
    <3> QED BY <1>0, <1>1, <2>1, <3>3 DEF Opens
  <2>5. Booked' BY <1>1, <2>4, BookFacts DEF Booked
  <2> QED BY <1>1, <2>1, <2>2, <2>3, <2>5, MoveKeepsBase
<1>2. CASE TakesChunk(s) /\ UNCHANGED <<sessions, returned>>
  <2> DEFINE f == Head(inbox[s])
             R == Received(r, f)
             F == {DataAck(r, f), Control("FLOOR_REQ")}
  <2>0. f \in Frame /\ f.type = "DATA" /\ r.state = "CONNECTED"
    BY <1>2, HeadFacts DEF TakesChunk, Heads
  <2>1. R \in StationState /\ DataAck(r, f) \in Frame BY <1>0, <2>0, ReceivedTyped
  <2>2. F \in SUBSET Frame /\ \A g \in F : g.type \notin Handshaking
    BY <2>1, ControlTyped DEF DataAck, Control, Handshaking
  <2>3. Moves(s, F) BY <1>2, <2>2, MovesMore DEF TakesChunk
  <2>4. /\ R.state = r.state /\ R.role = r.role /\ R.session = r.session
        /\ R.ackBody = r.ackBody /\ R.call = r.call /\ R.part = r.part
    BY <1>0 DEF Received, StationState
  <2>5. /\ WellFormed(stn'[s], n)
        /\ stn'[s].session = r.session /\ stn'[s].ackBody = r.ackBody
    <3> HIDE DEF R
    <3>1. WellFormed(R, n) BY <1>0, <2>4 DEF WellFormed
    <3>2. CASE stn'[s] = R BY <2>4, <3>1, <3>2
    <3>3. CASE r.call = "floor" /\ stn'[s] = Requesting(R, 0)
      BY <2>1, <2>4, <3>1, <3>3 DEF Requesting, WellFormed, StationState
    <3> QED BY <1>2, <3>2, <3>3 DEF TakesChunk, R
  <2>6. f.body \in Body /\ r.partial \in Seq(Body) /\ r.session \in 1..MaxSessions
    BY <1>0, <2>0, DataFields, StationFacts DEF WellFormed, NoSession
  <2>7. /\ delivered' \in [Stations -> Seq([session : 1..MaxSessions, chunks : Seq(Body)])]
        /\ \A t \in Stations : \A i \in DOMAIN delivered'[t] :
             delivered'[t][i].session <= sessions
    <3> DEFINE T == [session : 1..MaxSessions, chunks : Seq(Body)]
               m == [session |-> r.session, chunks |-> Append(r.partial, f.body)]
    <3>1. m \in T /\ m.session <= sessions BY <1>0, <2>6
    <3>2. delivered \in [Stations -> Seq(T)] BY BookFacts DEF Booked
    <3>3. \A t \in Stations : \A i \in DOMAIN delivered[t] :
            delivered[t][i].session <= sessions
      BY BookFacts DEF Booked
    <3>4. delivered' = delivered
          \/ delivered' = [delivered EXCEPT ![s] = Append(delivered[s], m)]
      BY <1>2 DEF TakesChunk, Deliver
    <3> HIDE DEF T, m
    <3>5. Append(delivered[s], m) \in Seq(T) BY <3>1, <3>2
    <3>6. \A i \in DOMAIN Append(delivered[s], m) :
            Append(delivered[s], m)[i].session <= sessions
      BY <3>1, <3>2, <3>3
    <3>7. CASE delivered' = delivered BY <3>2, <3>3, <3>7 DEF T
    <3>8. CASE delivered' = [delivered EXCEPT ![s] = Append(delivered[s], m)]
      <4> DEFINE Q == Seq(T)
                 a == Append(delivered[s], m)
      <4>1. delivered \in [Stations -> Q] /\ a \in Q BY <3>2, <3>5
      <4>2. delivered' \in [Stations -> Q]
            /\ \A t \in Stations : delivered'[t] = IF t = s THEN a ELSE delivered[t]
        <5>1. delivered' = [delivered EXCEPT ![s] = a] BY <3>8
        <5> HIDE DEF Q, a
        <5> QED BY <4>1, <5>1
      <4>3. \A t \in Stations : \A i \in DOMAIN delivered'[t] :
              delivered'[t][i].session <= sessions
        BY <3>3, <3>6, <4>2
      <4> QED BY <4>2, <4>3 DEF T
    <3> QED BY <3>4, <3>7, <3>8
  <2>8. Booked' /\ returned' = returned /\ sessions' = sessions
    BY <1>2, <2>7, BookFacts DEF Booked
  <2>9. /\ \A g \in F : g.type \in Handshaking => g.session <= sessions'
        /\ WellFormed(stn'[s], Len(returned'[s]))
        /\ stn'[s].session <= sessions' /\ stn'[s].ackBody <= sessions'
        /\ sessions <= sessions'
    <3> HIDE DEF F, R
    <3> QED BY <1>0, <2>2, <2>5, <2>8
  <2> HIDE DEF F
  <2> QED BY <1>0, <2>3, <2>8, <2>9, MoveKeepsBase
<1>3. CASE Returns(s) /\ UNCHANGED <<sessions, delivered>>
  <2>1. r.session \in 1..MaxSessions /\ r.state = "CONNECTED" /\ r.role = "ISS"
    BY <1>0, <1>3, StationFacts DEF Returns, WellFormed, NoSession
  <2>2. /\ returned' \in [Stations -> Seq(1..MaxSessions)]
        /\ returned'[Peer(s)] = returned[Peer(s)]
    <3> DEFINE Q == Seq(1..MaxSessions)
               a == Append(returned[s], r.session)
    <3>1. returned \in [Stations -> Q] /\ a \in Q BY <2>1, BookFacts DEF Booked
    <3>2. returned' = [returned EXCEPT ![s] = a] BY <1>3 DEF Returns
    <3> HIDE DEF Q, a
    <3>3. returned' \in [Stations -> Q] /\ returned'[Peer(s)] = returned[Peer(s)]
      BY <3>1, <3>2, PeerFacts
    <3> QED BY <3>3 DEF Q
  <2>3. \A k : WellFormed(stn'[s], k)
    BY <1>0, <1>3, <2>1 DEF Returns, Advanced, WellFormed, StationState
  <2>4. stn'[s].session = r.session /\ stn'[s].ackBody = r.ackBody /\ Moves(s, {})
    BY <1>0, <1>3 DEF Returns, Advanced, StationState
  <2>5. Booked' BY <1>3, <2>2, BookFacts DEF Booked
  <2>6. /\ WellFormed(stn'[s], Len(returned'[s]))
        /\ stn'[s].session <= sessions' /\ stn'[s].ackBody <= sessions'
        /\ sessions <= sessions' /\ sessions' \in 0..MaxSessions
    BY <1>0, <1>3, <2>3, <2>4
  <2> QED BY <2>2, <2>4, <2>5, <2>6, MoveKeepsBase
<1>4. CASE Quietly(s) /\ UNCHANGED <<sessions, delivered, returned>>
  BY <1>4, QuietlyKeepsBase
<1> QED BY <1>1, <1>2, <1>3, <1>4 DEF Outcome

LEMMA BaseStart == Init => BaseInv
<1> SUFFICES ASSUME Init PROVE BaseInv OBVIOUS
<1>1. \A s \in Stations : stn[s] = Fresh /\ inbox[s] = << >> /\ delivered[s] = << >>
                          /\ returned[s] = << >>
  BY DEF Init
<1>2. TypeOK
  <2>1. stn \in [Stations -> StationState] BY FreshTyped DEF Init
  <2>2. sessions \in 0..MaxSessions /\ crashes \in 0..MaxCrashes BY ConstantFacts DEF Init
  <2> QED BY <2>1, <2>2 DEF Init, TypeOK
<1>3. Shape
  <2>1. \A n : WellFormed(Fresh, n) BY DEF WellFormed, Fresh, NoSession
  <2> QED BY <1>1, <2>1 DEF Shape
<1>4. Drawn BY <1>1 DEF Drawn, Fresh, NoSession, Init
<1> QED BY <1>2, <1>3, <1>4 DEF BaseInv

LEMMA BaseStutters ==
  ASSUME BaseInv, UNCHANGED vars
  PROVE  BaseInv'
BY DEF BaseInv, TypeOK, Shape, Drawn, vars

LEMMA BaseKept == BaseInv /\ [Next]_vars => BaseInv'
<1>1. ASSUME BaseInv, Next PROVE BaseInv' BY <1>1, Outcomes, OutcomeKeepsBase
<1> QED BY <1>1, BaseStutters

\* The types of the two stations' state and of every frame in the air hold
\* for any number of retries, calls, messages, crashes and waiting frames.
THEOREM LinkTypes == Spec => []TypeOK
<1>1. BaseInv => TypeOK BY DEF BaseInv
<1> QED BY <1>1, BaseStart, BaseKept, PTL DEF Spec

----------------------------------------------------------------------------
(* The handshake: who called whom, and which calls are still on their way *)

Caller(s)   == stn[s].session # NoSession /\ stn[s].ackBody # stn[s].session
Answerer(s) == stn[s].session # NoSession /\ stn[s].ackBody = stn[s].session

\* The sessions of the frames of a handshake type in queue q.
Ids(q, type) == {q[i].session : i \in {j \in DOMAIN q : q[j].type = type}}

CallIds(s) == Ids(inbox[s], "CONNECT")
AckIds(s) == Ids(inbox[s], "CONNECT_ACK")

\* The call of s has been taken: somebody answered, or s knows.
Answered(s) == InSession(s) \/ stn[s].session \in AckIds(s)

\* Station s has answered a call, or will if it goes on listening.
Answering(s) == Answerer(s) \/ (stn[s].call = "listen" /\ CallIds(s) # {})

Ordered(q) ==
  \A i, j \in DOMAIN q :
    i < j /\ q[i].type = "CONNECT" /\ q[j].type = "CONNECT" => q[i].session <= q[j].session

\* No call comes back to its caller.
Own(s) == Caller(s) =>
  stn[s].session \notin CallIds(s)
  /\ (Caller(Peer(s)) => stn[Peer(s)].session # stn[s].session)

\* A caller's own call is the last one it made, ...
Latest(s) == Caller(s) =>
  (\A id \in CallIds(Peer(s)) : id <= stn[s].session)
  /\ (Answerer(Peer(s)) => stn[Peer(s)].session <= stn[s].session)

\* ... and the only one left once it has been answered.
Settled(s) == Caller(s) /\ Answered(s) =>
  (\A id \in CallIds(Peer(s)) : stn[s].session <= id)
  /\ (Answerer(Peer(s)) => stn[s].session <= stn[Peer(s)].session)

\* A station whose peer's call was answered and that calls all the same does
\* so in a later call.
Ahead(s) == Caller(s) /\ Caller(Peer(s)) /\ Answered(Peer(s)) =>
  stn[Peer(s)].session < stn[s].session

HandshakeInv == \A s \in Stations :
  /\ Ordered(inbox[s])
  /\ Own(s) /\ Latest(s) /\ Settled(s) /\ Ahead(s)
  /\ Answering(s) => ~Answering(Peer(s))

LEMMA IdsTyped ==
  ASSUME NEW q \in Seq(Frame), NEW type \in Handshaking
  PROVE  Ids(q, type) \subseteq 1..MaxSessions
<1>1. \A i \in DOMAIN q : q[i] \in Frame OBVIOUS
<1> QED BY <1>1, HandshakeFrames DEF Ids

LEMMA IdsRest ==
  ASSUME NEW S, NEW q \in Seq(S), NEW rest \in Rests(q), NEW type
  PROVE  Ids(rest, type) \subseteq Ids(q, type) /\ (Ordered(q) => Ordered(rest))
<1>1. PICK d \in Nat : /\ Len(rest) + d = Len(q)
                       /\ \A i \in 1..Len(rest) : i + d \in 1..Len(q) /\ rest[i] = q[i + d]
  BY RestsShift
<1>2. rest \in Seq(S) BY RestsTyped
<1>3. DOMAIN rest = 1..Len(rest) /\ DOMAIN q = 1..Len(q) BY <1>2
<1>4. Ids(rest, type) \subseteq Ids(q, type) BY <1>1, <1>3 DEF Ids
<1>5. ASSUME Ordered(q) PROVE Ordered(rest)
  <2>1. \A i, j \in 1..Len(rest) : i < j => i + d < j + d BY <1>1
  <2> QED BY <1>1, <1>3, <1>5, <2>1 DEF Ordered
<1> QED BY <1>4, <1>5

LEMMA IdsGrown ==
  ASSUME NEW q \in Seq(Frame), NEW r \in Seq(Frame), NEW F \in SUBSET Frame, Grown(q, r, F),
         NEW type
  PROVE  Ids(r, type) \subseteq Ids(q, type)
                                \cup {f.session : f \in {g \in F : g.type = type}}
<1>1. DOMAIN q = 1..Len(q) /\ DOMAIN r = 1..Len(r) /\ Len(q) \in Nat OBVIOUS
<1>2. \A j \in DOMAIN r : (j \in DOMAIN q /\ r[j] = q[j]) \/ r[j] \in F
  BY <1>1 DEF Grown
<1> QED BY <1>2 DEF Ids

\* A queue stays in order when the calls that join it are all of one session,
\* no earlier than any in it.
LEMMA OrderedGrown ==
  ASSUME NEW q \in Seq(Frame), NEW r \in Seq(Frame), NEW F \in SUBSET Frame, Grown(q, r, F),
         Ordered(q), NEW x \in Nat,
         \A f \in F : f.type = "CONNECT" => f.session = x,
         \A id \in Ids(q, "CONNECT") : id <= x
  PROVE  Ordered(r)
<1>1. DOMAIN q = 1..Len(q) /\ DOMAIN r = 1..Len(r) /\ Len(q) \in Nat OBVIOUS
<1> SUFFICES ASSUME NEW i \in DOMAIN r, NEW j \in DOMAIN r, i < j,
                    r[i].type = "CONNECT", r[j].type = "CONNECT"
             PROVE  r[i].session <= r[j].session
  BY DEF Ordered
<1>2. CASE j <= Len(q)
  <2>1. i \in DOMAIN q /\ j \in DOMAIN q /\ r[i] = q[i] /\ r[j] = q[j]
    BY <1>1, <1>2 DEF Grown
  <2> QED BY <2>1 DEF Ordered
<1>3. CASE ~(j <= Len(q))
  <2>1. r[j] \in F BY <1>1, <1>3 DEF Grown
  <2>2. r[j].session = x BY <2>1
  <2>3. CASE i <= Len(q)
    <3>1. i \in DOMAIN q /\ r[i] = q[i] BY <1>1, <2>3 DEF Grown
    <3>2. r[i].session \in Ids(q, "CONNECT") BY <3>1 DEF Ids
    <3> QED BY <2>2, <3>2
  <2>4. CASE ~(i <= Len(q))
    <3>1. r[i] \in F BY <1>1, <2>4 DEF Grown
    <3> QED BY <2>2, <3>1
  <2> QED BY <2>3, <2>4
<1> QED BY <1>2, <1>3

LEMMA HeadOfOrder ==
  ASSUME NEW q \in Seq(Frame), q # << >>, Head(q).type = "CONNECT", Ordered(q)
  PROVE  /\ Head(q).session \in Ids(q, "CONNECT")
         /\ \A id \in Ids(Tail(q), "CONNECT") : Head(q).session <= id
<1> DEFINE G == Frame
<1>1. /\ 1 \in DOMAIN q /\ Head(q) = q[1]
      /\ \A i \in DOMAIN Tail(q) : i + 1 \in DOMAIN q /\ 1 < i + 1 /\ Tail(q)[i] = q[i + 1]
  <2>1. q \in Seq(G) OBVIOUS
  <2> HIDE DEF G
  <2>2. Tail(q) \in Seq(G) /\ Len(Tail(q)) \in Nat /\ DOMAIN Tail(q) = 1..Len(Tail(q))
        /\ DOMAIN q = 1..Len(q) /\ Len(q) = Len(Tail(q)) + 1
        /\ \A i \in 1..Len(Tail(q)) : Tail(q)[i] = q[i + 1]
    BY <2>1, HeadTailProperties
  <2> QED BY <2>1, <2>2, HeadTailProperties
<1>2. Head(q).session \in Ids(q, "CONNECT") BY <1>1 DEF Ids
<1> QED BY <1>1, <1>2 DEF Ids, Ordered

\* The identifiers in both queues after a step of s.
LEMMA MoveIds ==
  ASSUME BaseInv, NEW s \in Stations, NEW F, Moves(s, F)
  PROVE  /\ CallIds(s)' \subseteq CallIds(s) /\ AckIds(s)' \subseteq AckIds(s)
         /\ Ordered(inbox[s]) => Ordered(inbox'[s])
         /\ CallIds(Peer(s))' \subseteq
              CallIds(Peer(s)) \cup {f.session : f \in {g \in F : g.type = "CONNECT"}}
         /\ AckIds(Peer(s))' \subseteq
              AckIds(Peer(s)) \cup {f.session : f \in {g \in F : g.type = "CONNECT_ACK"}}
<1> DEFINE p == Peer(s)
           Q == Seq(Frame)
<1>1. /\ p \in Stations /\ inbox[s] \in Q /\ inbox[p] \in Q /\ inbox'[p] \in Q
      /\ F \in SUBSET Frame /\ inbox'[s] \in Rests(inbox[s])
      /\ Grown(inbox[p], inbox'[p], F)
  BY PeerFacts, StationFacts DEF Moves
<1>2. \A type : /\ Ids(inbox'[s], type) \subseteq Ids(inbox[s], type)
                /\ Ordered(inbox[s]) => Ordered(inbox'[s])
  BY <1>1, IdsRest
<1>3. \A type : Ids(inbox'[p], type) \subseteq
                  Ids(inbox[p], type) \cup {f.session : f \in {g \in F : g.type = type}}
  BY <1>1, IdsGrown
<1> QED BY <1>2, <1>3 DEF CallIds, AckIds

LEMMA IdRange ==
  ASSUME BaseInv, NEW s \in Stations
  PROVE  /\ CallIds(s) \subseteq Nat \ {0} /\ AckIds(s) \subseteq Nat \ {0}
         /\ \A id \in CallIds(s) \cup AckIds(s) : id <= sessions
<1>1. inbox[s] \in Seq(Frame) BY StationFacts
<1>2. "CONNECT" \in Handshaking /\ "CONNECT_ACK" \in Handshaking BY DEF Handshaking
<1>3. CallIds(s) \subseteq 1..MaxSessions /\ AckIds(s) \subseteq 1..MaxSessions
  BY <1>1, <1>2, IdsTyped DEF CallIds, AckIds
<1>4. \A i \in DOMAIN inbox[s] :
        inbox[s][i].type \in Handshaking => inbox[s][i].session <= sessions
  BY DEF BaseInv, Drawn
<1>5. \A id \in CallIds(s) \cup AckIds(s) : id <= sessions
  BY <1>2, <1>4 DEF CallIds, AckIds, Ids
<1> QED BY <1>3, <1>5, ConstantFacts

\* The sessions of calls and answers are numbers, whoever holds them.
Numbers(s) ==
  /\ stn[s].session \in Nat /\ stn[s].ackBody \in Nat
  /\ CallIds(s) \subseteq Nat \ {0} /\ AckIds(s) \subseteq Nat \ {0}

LEMMA NumbersFacts == ASSUME BaseInv, NEW s \in Stations PROVE Numbers(s)
BY StationFacts, IdRange, ConstantFacts DEF Numbers

\* A step that keys no CONNECT and no CONNECT_ACK, and leaves s where it is in
\* the handshake or takes it out of every session.
LEMMA CalmKeepsHandshake ==
  ASSUME BaseInv, HandshakeInv, NEW s \in Stations, NEW F, Moves(s, F),
         \A f \in F : f.type \notin Handshaking,
         \/ /\ stn'[s].session = stn[s].session /\ stn'[s].ackBody = stn[s].ackBody
            /\ stn'[s].state = "CONNECTED" => Answered(s)
            /\ stn'[s].call = "listen" => stn[s].call = "listen"
         \/ /\ stn'[s].session = NoSession
            /\ stn'[s].call = "listen" => inbox'[s] = << >>
  PROVE  HandshakeInv'
<1>0. PICK p \in Stations : /\ p # s /\ Peer(s) = p /\ Peer(p) = s
                            /\ \A t \in Stations : t = s \/ t = p
  BY PeerFacts
<1>1. /\ CallIds(s)' \subseteq CallIds(s) /\ AckIds(s)' \subseteq AckIds(s)
      /\ CallIds(p)' \subseteq CallIds(p) /\ AckIds(p)' \subseteq AckIds(p)
  BY <1>0, MoveIds DEF Handshaking
<1>2. stn'[p] = stn[p] BY <1>0 DEF Moves
<1>3. Ordered(inbox'[s]) BY MoveIds DEF HandshakeInv
<1>4. Ordered(inbox'[p])
  <2> DEFINE Q == Seq(Frame)
  <2>1. /\ inbox[p] \in Q /\ inbox'[p] \in Q /\ F \in SUBSET Frame
        /\ Grown(inbox[p], inbox'[p], F) /\ Ordered(inbox[p])
    BY <1>0, StationFacts DEF Moves, HandshakeInv
  <2>2. \A f \in F : f.type = "CONNECT" => f.session = sessions BY DEF Handshaking
  <2>3. sessions \in Nat /\ \A id \in Ids(inbox[p], "CONNECT") : id <= sessions
    BY <1>0, StationFacts, ConstantFacts, IdRange DEF CallIds
  <2> QED BY <2>1, <2>2, <2>3, OrderedGrown
<1>5. Numbers(s) /\ Numbers(p) BY <1>0, NumbersFacts
<1>6. /\ Own(s) /\ Latest(s) /\ Settled(s) /\ Ahead(s)
      /\ Own(p) /\ Latest(p) /\ Settled(p) /\ Ahead(p)
      /\ Answering(s) => ~Answering(p)
  BY <1>0 DEF HandshakeInv
<1>7. inbox'[s] = << >> => CallIds(s)' = {} BY DEF CallIds, Ids
<1>8. Answered(p)' => Answered(p) BY <1>1, <1>2 DEF Answered, InSession
<1>9. CASE /\ stn'[s].session = stn[s].session /\ stn'[s].ackBody = stn[s].ackBody
           /\ stn'[s].state = "CONNECTED" => Answered(s)
           /\ stn'[s].call = "listen" => stn[s].call = "listen"
  <2>1. /\ Caller(s)' => Caller(s)
        /\ Caller(p)' => Caller(p)
        /\ Answerer(s)' => Answerer(s)
        /\ Answerer(p)' => Answerer(p)
        /\ Answered(s)' => Answered(s)
    BY <1>1, <1>2, <1>9 DEF Caller, Answerer, Answered, InSession
  <2>2. Answering(s)' => Answering(s) BY <1>1, <1>9, <2>1 DEF Answering
  <2>3. Answering(p)' => Answering(p) BY <1>1, <1>2, <2>1 DEF Answering
  <2>4. Own(s)' /\ Own(p)' BY <1>0, <1>1, <1>2, <1>6, <1>9, <2>1 DEF Own
  <2>5. Latest(s)' /\ Latest(p)' BY <1>0, <1>1, <1>2, <1>6, <1>9, <2>1 DEF Latest
  <2>6. Settled(s)' /\ Settled(p)' BY <1>0, <1>1, <1>2, <1>6, <1>8, <1>9, <2>1 DEF Settled
  <2>7. Ahead(s)' /\ Ahead(p)' BY <1>0, <1>1, <1>2, <1>6, <1>8, <1>9, <2>1 DEF Ahead
  <2> QED BY <1>0, <1>3, <1>4, <1>6, <2>2, <2>3, <2>4, <2>5, <2>6, <2>7 DEF HandshakeInv
<1>10. CASE /\ stn'[s].session = NoSession
            /\ stn'[s].call = "listen" => inbox'[s] = << >>
  <2>1. ~Caller(s)' /\ ~Answerer(s)' /\ ~Answering(s)'
    BY <1>7, <1>10 DEF Caller, Answerer, Answering
  <2>2. (Caller(p)' => Caller(p)) /\ (Answerer(p)' => Answerer(p))
    BY <1>2 DEF Caller, Answerer
  <2>3. Own(s)' /\ Own(p)' BY <1>0, <1>1, <1>2, <1>6, <2>1, <2>2 DEF Own
  <2>4. Latest(s)' /\ Latest(p)' BY <1>0, <1>1, <1>2, <1>6, <2>1, <2>2 DEF Latest
  <2>5. Settled(s)' /\ Settled(p)' BY <1>0, <1>1, <1>2, <1>6, <1>8, <2>1, <2>2 DEF Settled
  <2>6. Ahead(s)' /\ Ahead(p)' BY <1>0, <1>1, <1>2, <1>6, <1>8, <2>1, <2>2 DEF Ahead
  <2> QED BY <1>0, <1>3, <1>4, <2>1, <2>3, <2>4, <2>5, <2>6 DEF HandshakeInv
<1> QED BY <1>9, <1>10

\* CONNECT x reaches the peer of its caller, whose last call it is.
LEMMA CallGrows ==
  ASSUME BaseInv, HandshakeInv, NEW s \in Stations, NEW x \in Nat, Moves(s, {Connect(x)}),
         \A id \in CallIds(Peer(s)) : id <= x
  PROVE  /\ CallIds(s)' \subseteq CallIds(s) /\ AckIds(s)' \subseteq AckIds(s)
         /\ CallIds(Peer(s))' \subseteq CallIds(Peer(s)) \cup {x}
         /\ AckIds(Peer(s))' \subseteq AckIds(Peer(s))
         /\ Ordered(inbox'[s]) /\ Ordered(inbox'[Peer(s)])
<1> DEFINE F == {Connect(x)}
           p == Peer(s)
<1>1. /\ Moves(s, F) /\ p \in Stations
      /\ \A f \in F : f.type = "CONNECT" /\ f.session = x
  BY PeerFacts DEF Connect
<1> HIDE DEF F
<1>2. Ordered(inbox'[s]) BY <1>1, MoveIds DEF HandshakeInv
<1>3. Ordered(inbox'[p])
  <2> DEFINE Q == Seq(Frame)
  <2>1. /\ inbox[p] \in Q /\ inbox'[p] \in Q /\ F \in SUBSET Frame
        /\ Grown(inbox[p], inbox'[p], F) /\ Ordered(inbox[p])
    BY <1>1, StationFacts DEF Moves, HandshakeInv
  <2>2. \A id \in Ids(inbox[p], "CONNECT") : id <= x BY DEF CallIds
  <2> QED BY <1>1, <2>1, <2>2, OrderedGrown
<1>4. /\ CallIds(s)' \subseteq CallIds(s) /\ AckIds(s)' \subseteq AckIds(s)
      /\ CallIds(Peer(s))' \subseteq
           CallIds(Peer(s)) \cup {f.session : f \in {g \in F : g.type = "CONNECT"}}
      /\ AckIds(Peer(s))' \subseteq
           AckIds(Peer(s)) \cup {f.session : f \in {g \in F : g.type = "CONNECT_ACK"}}
  BY <1>1, MoveIds
<1> QED BY <1>1, <1>2, <1>3, <1>4

LEMMA OpensKeepsHandshake ==
  ASSUME BaseInv, HandshakeInv, NEW s \in Stations, Opens(s)
  PROVE  HandshakeInv'
<1>0. PICK p \in Stations : /\ p # s /\ Peer(s) = p /\ Peer(p) = s
                            /\ \A t \in Stations : t = s \/ t = p
  BY PeerFacts
<1>2. stn'[p] = stn[p] BY <1>0 DEF Opens, Moves
<1>5. Numbers(s) /\ Numbers(p) BY <1>0, NumbersFacts
<1>6. /\ Own(s) /\ Latest(s) /\ Settled(s) /\ Ahead(s)
      /\ Own(p) /\ Latest(p) /\ Settled(p) /\ Ahead(p)
      /\ Answering(s) => ~Answering(p)
      /\ Ordered(inbox[s]) /\ Ordered(inbox[p])
  BY <1>0 DEF HandshakeInv
<1>7. /\ sessions \in Nat /\ sessions + 1 \in Nat
      /\ stn[s] \in StationState /\ stn[p].session <= sessions
      /\ stn[p].session \in Nat /\ stn[s].ackBody \in Nat /\ stn[s].ackBody <= sessions
      /\ \A id \in CallIds(p) \cup AckIds(s) : id \in Nat /\ id <= sessions
  BY <1>0, StationFacts, IdRange, ConstantFacts
<1>8. /\ stn'[s].session = sessions + 1 /\ stn'[s].ackBody = stn[s].ackBody
      /\ stn'[s].state = "CONNECTING" /\ stn'[s].call = "call"
      /\ inbox'[s] = << >> /\ Moves(s, {Connect(sessions + 1)})
  BY <1>7 DEF Opens, StationState
<1>1. /\ CallIds(s)' = {} /\ AckIds(s)' = {}
      /\ CallIds(p)' \subseteq CallIds(p) \cup {sessions + 1} /\ AckIds(p)' \subseteq AckIds(p)
      /\ Ordered(inbox'[s]) /\ Ordered(inbox'[p])
  <2>1. CallIds(s)' = {} /\ AckIds(s)' = {} BY <1>8 DEF CallIds, AckIds, Ids
  <2>2. \A id \in CallIds(p) : id <= sessions + 1 BY <1>7
  <2> QED BY <1>0, <1>7, <1>8, <2>1, <2>2, CallGrows
<1>9. /\ Caller(s)' /\ ~Answerer(s)' /\ ~Answered(s)' /\ ~Answering(s)'
      /\ Caller(p)' => Caller(p)
      /\ Answerer(p)' => Answerer(p)
      /\ Answered(p)' => Answered(p)
  BY <1>1, <1>2, <1>7, <1>8
     DEF Caller, Answerer, Answered, Answering, InSession, NoSession
<1>10. Own(s)' /\ Own(p)' BY <1>0, <1>1, <1>2, <1>6, <1>7, <1>8, <1>9 DEF Own
<1>11. Latest(s)' BY <1>0, <1>1, <1>2, <1>7, <1>8, <1>9 DEF Latest
<1>12. Latest(p)' BY <1>0, <1>1, <1>2, <1>9 DEF Latest
<1>13. Settled(s)' /\ Settled(p)' BY <1>0, <1>1, <1>9 DEF Settled
<1>14. Ahead(s)' /\ Ahead(p)' BY <1>0, <1>2, <1>7, <1>8, <1>9 DEF Ahead
<1> QED BY <1>0, <1>1, <1>9, <1>10, <1>11, <1>12, <1>13, <1>14 DEF HandshakeInv

LEMMA CallsAgainKeepsHandshake ==
  ASSUME BaseInv, HandshakeInv, NEW s \in Stations, CallsAgain(s)
  PROVE  HandshakeInv'
<1>0. PICK p \in Stations : /\ p # s /\ Peer(s) = p /\ Peer(p) = s
                            /\ \A t \in Stations : t = s \/ t = p
  BY PeerFacts
<1>2. stn'[p] = stn[p] BY <1>0 DEF CallsAgain, Moves
<1>5. Numbers(s) /\ Numbers(p) BY <1>0, NumbersFacts
<1>6. /\ Own(s) /\ Latest(s) /\ Settled(s) /\ Ahead(s)
      /\ Own(p) /\ Latest(p) /\ Settled(p) /\ Ahead(p)
      /\ Answering(s) => ~Answering(p)
      /\ Ordered(inbox[s]) /\ Ordered(inbox[p])
  BY <1>0 DEF HandshakeInv
<1>7. stn[s] \in StationState /\ Caller(s) /\ stn[s].session \in Nat
  <2>1. stn[s].call = "call" /\ WellFormed(stn[s], Len(returned[s]))
    BY StationFacts DEF CallsAgain
  <2>2. Caller(s) BY <2>1 DEF WellFormed, Caller
  <2> QED BY <2>2, StationFacts, ConstantFacts
<1>8. /\ stn'[s].session = stn[s].session /\ stn'[s].ackBody = stn[s].ackBody
      /\ stn'[s].state = stn[s].state /\ stn'[s].call = stn[s].call
      /\ stn[s].call = "call" /\ Moves(s, {Connect(stn[s].session)})
  BY <1>7 DEF CallsAgain, StationState
<1>1. /\ CallIds(s)' \subseteq CallIds(s) /\ AckIds(s)' \subseteq AckIds(s)
      /\ CallIds(p)' \subseteq CallIds(p) \cup {stn[s].session}
      /\ AckIds(p)' \subseteq AckIds(p)
      /\ Ordered(inbox'[s]) /\ Ordered(inbox'[p])
  BY <1>0, <1>6, <1>7, <1>8, CallGrows DEF Latest
<1>9. /\ Caller(s)' /\ ~Answerer(s)' /\ ~Answerer(s)
      /\ Answered(s)' => Answered(s)
      /\ ~Answering(s)'
      /\ Caller(p)' => Caller(p)
      /\ Answerer(p)' => Answerer(p)
      /\ Answered(p)' => Answered(p)
  BY <1>1, <1>2, <1>7, <1>8 DEF Caller, Answerer, Answered, Answering, InSession
<1>10. Own(s)' /\ Own(p)' BY <1>0, <1>1, <1>2, <1>6, <1>7, <1>8, <1>9 DEF Own
<1>11. Latest(s)' /\ Latest(p)' BY <1>0, <1>1, <1>2, <1>6, <1>7, <1>8, <1>9 DEF Latest
<1>12. Settled(s)' /\ Settled(p)' BY <1>0, <1>1, <1>2, <1>6, <1>7, <1>8, <1>9 DEF Settled
<1>13. Ahead(s)' /\ Ahead(p)' BY <1>0, <1>2, <1>6, <1>7, <1>8, <1>9 DEF Ahead
<1> QED BY <1>0, <1>1, <1>9, <1>10, <1>11, <1>12, <1>13 DEF HandshakeInv

\* CONNECT_ACK x reaches the peer of a station that found CONNECT x.
LEMMA AnswerGrows ==
  ASSUME BaseInv, HandshakeInv, NEW s \in Stations, NEW x, Moves(s, {ConnectAck(x)}),
         inbox[s] # << >>, inbox'[s] = Tail(inbox[s]),
         Head(inbox[s]).type = "CONNECT", Head(inbox[s]).session = x
  PROVE  /\ x \in CallIds(s) /\ \A id \in CallIds(s)' : x <= id
         /\ CallIds(s)' \subseteq CallIds(s) /\ AckIds(s)' \subseteq AckIds(s)
         /\ CallIds(Peer(s))' \subseteq CallIds(Peer(s))
         /\ AckIds(Peer(s))' \subseteq AckIds(Peer(s)) \cup {x}
         /\ Ordered(inbox'[s]) /\ Ordered(inbox'[Peer(s)])
<1> DEFINE F == {ConnectAck(x)}
           p == Peer(s)
<1>1. /\ Moves(s, F) /\ p \in Stations
      /\ \A f \in F : f.type = "CONNECT_ACK" /\ f.session = x
  BY PeerFacts DEF ConnectAck
<1> HIDE DEF F
<1>2. Ordered(inbox'[s]) BY <1>1, MoveIds DEF HandshakeInv
<1>3. Ordered(inbox'[p])
  <2> DEFINE Q == Seq(Frame)
  <2>1. /\ inbox[p] \in Q /\ inbox'[p] \in Q /\ F \in SUBSET Frame
        /\ Grown(inbox[p], inbox'[p], F) /\ Ordered(inbox[p])
    BY <1>1, StationFacts DEF Moves, HandshakeInv
  <2>2. sessions \in Nat /\ \A id \in Ids(inbox[p], "CONNECT") : id <= sessions
    BY <1>1, StationFacts, ConstantFacts, IdRange DEF CallIds
  <2> QED BY <1>1, <2>1, <2>2, OrderedGrown
<1>4. /\ CallIds(s)' \subseteq CallIds(s) /\ AckIds(s)' \subseteq AckIds(s)
      /\ CallIds(Peer(s))' \subseteq
           CallIds(Peer(s)) \cup {f.session : f \in {g \in F : g.type = "CONNECT"}}
      /\ AckIds(Peer(s))' \subseteq
           AckIds(Peer(s)) \cup {f.session : f \in {g \in F : g.type = "CONNECT_ACK"}}
  BY <1>1, MoveIds
<1>5. x \in CallIds(s) /\ \A id \in CallIds(s)' : x <= id
  <2> DEFINE Q == Seq(Frame)
  <2>1. inbox[s] \in Q /\ Ordered(inbox[s]) BY StationFacts DEF HandshakeInv
  <2> QED BY <2>1, HeadOfOrder DEF CallIds
<1> QED BY <1>1, <1>2, <1>3, <1>4, <1>5

LEMMA AnswersKeepsHandshake ==
  ASSUME BaseInv, HandshakeInv, NEW s \in Stations, Answers(s)
  PROVE  HandshakeInv'
<1>0. PICK p \in Stations : /\ p # s /\ Peer(s) = p /\ Peer(p) = s
                            /\ \A t \in Stations : t = s \/ t = p
  BY PeerFacts
<1>2. stn'[p] = stn[p] BY <1>0 DEF Answers, Moves
<1>5. Numbers(s) /\ Numbers(p) BY <1>0, NumbersFacts
<1>6. /\ Own(s) /\ Latest(s) /\ Settled(s) /\ Ahead(s)
      /\ Own(p) /\ Latest(p) /\ Settled(p) /\ Ahead(p)
      /\ Answering(s) => ~Answering(p)
      /\ Ordered(inbox[s]) /\ Ordered(inbox[p])
  BY <1>0 DEF HandshakeInv
<1> DEFINE x == Head(inbox[s]).session
<1>1. /\ x \in CallIds(s) /\ \A id \in CallIds(s)' : x <= id
      /\ CallIds(s)' \subseteq CallIds(s) /\ AckIds(s)' \subseteq AckIds(s)
      /\ CallIds(p)' \subseteq CallIds(p) /\ AckIds(p)' \subseteq AckIds(p) \cup {x}
      /\ Ordered(inbox'[s]) /\ Ordered(inbox'[p])
  BY <1>0, AnswerGrows DEF Answers, Heads
<1>7. x \in Nat \ {0} BY <1>1, <1>5 DEF Numbers
<1>8. /\ stn'[s].session = x /\ stn'[s].ackBody = x /\ stn'[s].call = "poll"
      /\ stn[s].call = "listen"
  <2>1. stn[s] \in StationState BY StationFacts
  <2> HIDE DEF x
  <2> QED BY <2>1 DEF Answers, StationState, ResetSequence, x
<1> HIDE DEF x
<1>9. /\ Answering(s) /\ ~Answering(p)
      /\ ~Caller(s)' /\ Answerer(s)'
      /\ Caller(p)' => Caller(p)
      /\ Answerer(p)' => Answerer(p)
      /\ Answered(p)' => Answered(p) \/ stn[p].session = x
      /\ Answering(p)' => Answering(p)
  <2>1. Answering(s) /\ ~Answering(p) BY <1>1, <1>6, <1>8 DEF Answering
  <2> QED BY <1>1, <1>2, <1>7, <1>8, <2>1
          DEF Caller, Answerer, Answered, Answering, InSession, NoSession
<1>10. Own(s)' /\ Own(p)' BY <1>0, <1>1, <1>2, <1>6, <1>9 DEF Own
<1>11. Latest(s)' /\ Latest(p)' BY <1>0, <1>1, <1>2, <1>6, <1>8, <1>9 DEF Latest
<1>12. Settled(s)' BY <1>9 DEF Settled
<1>13. Settled(p)'
  <2>1. CASE Answered(p) BY <1>0, <1>1, <1>2, <1>6, <1>8, <1>9, <2>1 DEF Settled
  <2>2. CASE stn[p].session = x BY <1>0, <1>1, <1>2, <1>7, <1>8, <2>2 DEF Settled
  <2>3. CASE ~Answered(p)' BY <2>3 DEF Settled
  <2> QED BY <1>9, <2>1, <2>2, <2>3
<1>14. Ahead(s)' /\ Ahead(p)' BY <1>0, <1>9 DEF Ahead
<1> QED BY <1>0, <1>1, <1>9, <1>10, <1>11, <1>12, <1>13, <1>14 DEF HandshakeInv

\* Only the station that answered a call answers it again: a caller never
\* hears its own.
LEMMA AnswersAgainFacts ==
  ASSUME BaseInv, HandshakeInv, NEW s \in Stations, AnswersAgain(s)
  PROVE  /\ Answerer(s) /\ stn[s].state = "CONNECTED"
         /\ Head(inbox[s]) = Connect(stn[s].session)
         /\ Moves(s, {ConnectAck(stn[s].session)})
<1>1. /\ inbox[s] # << >> /\ Head(inbox[s]).type = "CONNECT"
      /\ Head(inbox[s]).session = stn[s].session
      /\ stn[s].ackBody # NoSession /\ stn[s].state \in {"LISTENING", "CONNECTED"}
  BY DEF AnswersAgain, Reanswers
<1>2. Head(inbox[s]) \in Frame BY <1>1, HeadFacts
<1>3. stn[s].session \in 1..MaxSessions BY <1>1, <1>2, HandshakeFrames DEF Handshaking
<1>4. stn[s].session \in CallIds(s)
  <2> DEFINE Q == Seq(Frame)
  <2>1. inbox[s] \in Q /\ Ordered(inbox[s]) BY StationFacts DEF HandshakeInv
  <2> QED BY <1>1, <2>1, HeadOfOrder DEF CallIds
<1>5. ~Caller(s) BY <1>4 DEF HandshakeInv, Own
<1>6. stn[s].session # NoSession BY <1>3 DEF NoSession
<1>7. stn[s].ackBody = stn[s].session BY <1>5, <1>6 DEF Caller
<1>8. Head(inbox[s]) = Connect(stn[s].session) BY <1>1, <1>2 DEF Frame, Connect
<1>9. stn[s].state = "CONNECTED" BY <1>1, <1>6, StationFacts DEF WellFormed
<1> QED BY <1>6, <1>7, <1>8, <1>9 DEF AnswersAgain, Answerer

LEMMA AnswersAgainKeepsHandshake ==
  ASSUME BaseInv, HandshakeInv, NEW s \in Stations, AnswersAgain(s)
  PROVE  HandshakeInv'
<1>0. PICK p \in Stations : /\ p # s /\ Peer(s) = p /\ Peer(p) = s
                            /\ \A t \in Stations : t = s \/ t = p
  BY PeerFacts
<1>2. stn'[p] = stn[p] BY <1>0 DEF AnswersAgain, Moves
<1>5. Numbers(s) /\ Numbers(p) BY <1>0, NumbersFacts
<1>6. /\ Own(s) /\ Latest(s) /\ Settled(s) /\ Ahead(s)
      /\ Own(p) /\ Latest(p) /\ Settled(p) /\ Ahead(p)
      /\ Answering(s) => ~Answering(p)
      /\ Ordered(inbox[s]) /\ Ordered(inbox[p])
  BY <1>0 DEF HandshakeInv
<1> DEFINE x == stn[s].session
<1>7. /\ Answerer(s) /\ Head(inbox[s]).type = "CONNECT" /\ Head(inbox[s]).session = x
      /\ Moves(s, {ConnectAck(x)}) /\ stn'[s] = stn[s]
      /\ inbox[s] # << >> /\ inbox'[s] = Tail(inbox[s])
  <2>1. Answerer(s) /\ Head(inbox[s]) = Connect(x) /\ Moves(s, {ConnectAck(x)})
    BY AnswersAgainFacts
  <2>2. Connect(x).type = "CONNECT" /\ Connect(x).session = x BY DEF Connect
  <2> QED BY <2>1, <2>2 DEF AnswersAgain
<1>1. /\ x \in CallIds(s) /\ \A id \in CallIds(s)' : x <= id
      /\ CallIds(s)' \subseteq CallIds(s) /\ AckIds(s)' \subseteq AckIds(s)
      /\ CallIds(p)' \subseteq CallIds(p) /\ AckIds(p)' \subseteq AckIds(p) \cup {x}
      /\ Ordered(inbox'[s]) /\ Ordered(inbox'[p])
  BY <1>0, <1>7, AnswerGrows
<1>8. x \in Nat BY <1>5 DEF Numbers
<1>9. /\ ~Caller(s)' /\ Answerer(s)' /\ Answering(s)
      /\ Caller(p)' => Caller(p)
      /\ Answerer(p)' => Answerer(p)
      /\ Answered(p)' => Answered(p) \/ stn[p].session = x
      /\ Answering(p)' => Answering(p)
  BY <1>1, <1>2, <1>7 DEF Caller, Answerer, Answered, Answering, InSession
<1>10. Own(s)' /\ Own(p)' BY <1>0, <1>1, <1>2, <1>6, <1>9 DEF Own
<1>11. Latest(s)' /\ Latest(p)' BY <1>0, <1>1, <1>2, <1>6, <1>7, <1>9 DEF Latest
<1>12. Settled(s)' BY <1>9 DEF Settled
<1>13. Settled(p)'
  <2>1. CASE Answered(p) BY <1>0, <1>1, <1>2, <1>6, <1>7, <1>9, <2>1 DEF Settled
  <2>2. CASE stn[p].session = x BY <1>0, <1>1, <1>2, <1>7, <1>8, <2>2 DEF Settled
  <2>3. CASE ~Answered(p)' BY <2>3 DEF Settled
  <2> QED BY <1>9, <2>1, <2>2, <2>3
<1>14. Ahead(s)' /\ Ahead(p)' BY <1>0, <1>9 DEF Ahead
<1> QED BY <1>0, <1>1, <1>6, <1>9, <1>10, <1>11, <1>12, <1>13, <1>14 DEF HandshakeInv

LEMMA HandshakeStart == Init => HandshakeInv
<1> SUFFICES ASSUME Init, NEW s \in Stations
             PROVE  /\ Ordered(inbox[s])
                    /\ Own(s) /\ Latest(s) /\ Settled(s) /\ Ahead(s)
                    /\ Answering(s) => ~Answering(Peer(s))
  BY DEF HandshakeInv
<1>1. /\ inbox[s] = << >> /\ stn[s].session = NoSession /\ stn[s].call = "poll"
  BY DEF Init, Fresh
<1>2. Ordered(inbox[s]) BY <1>1 DEF Ordered
<1>3. ~Caller(s) /\ ~Answering(s) BY <1>1 DEF Caller, Answering, Answerer
<1> QED BY <1>2, <1>3 DEF Own, Latest, Settled, Ahead

LEMMA HandshakeStutters ==
  ASSUME HandshakeInv, UNCHANGED vars
  PROVE  HandshakeInv'
<1>0. stn' = stn /\ inbox' = inbox BY DEF vars
<1>1. ASSUME NEW s \in Stations
      PROVE  /\ Caller(s)' <=> Caller(s)
             /\ Answerer(s)' <=> Answerer(s)
             /\ CallIds(s)' = CallIds(s) /\ AckIds(s)' = AckIds(s)
             /\ InSession(s)' <=> InSession(s)
  BY <1>0 DEF Caller, Answerer, CallIds, AckIds, InSession
<1>2. ASSUME NEW s \in Stations
      PROVE  /\ Ordered(inbox'[s])
             /\ Own(s)' /\ Latest(s)' /\ Settled(s)' /\ Ahead(s)'
             /\ (Answering(s) => ~Answering(Peer(s)))'
  <2>0. PICK p \in Stations : Peer(s) = p BY PeerFacts
  <2>1. /\ Ordered(inbox[s]) /\ Own(s) /\ Latest(s) /\ Settled(s) /\ Ahead(s)
        /\ Answering(s) => ~Answering(p)
    BY <2>0 DEF HandshakeInv
  <2>2. Own(s)' /\ Latest(s)' BY <1>0, <1>1, <2>0, <2>1 DEF Own, Latest
  <2>3. (Answered(s)' <=> Answered(s)) /\ (Answered(p)' <=> Answered(p))
    BY <1>0, <1>1 DEF Answered
  <2>4. Settled(s)' BY <1>0, <1>1, <2>0, <2>1, <2>3 DEF Settled
  <2>5. Ahead(s)' BY <1>0, <1>1, <2>0, <2>1, <2>3 DEF Ahead
  <2>6. (Answering(s) => ~Answering(p))' BY <1>0, <1>1, <2>1 DEF Answering
  <2> QED BY <1>0, <2>0, <2>1, <2>2, <2>4, <2>5, <2>6
<1> QED BY <1>2 DEF HandshakeInv

LEMMA OutcomeKeepsHandshake ==
  ASSUME BaseInv, HandshakeInv, NEW s \in Stations, Outcome(s)
  PROVE  HandshakeInv'
<1> DEFINE r == stn[s]
           n == Len(returned[s])
<1>0. r \in StationState /\ WellFormed(r, n) BY StationFacts
<1>1. ASSUME NEW F, Moves(s, F), \A f \in F : f.type \notin Handshaking,
             stn'[s].session = r.session, stn'[s].ackBody = r.ackBody,
             stn'[s].state = "CONNECTED" => Answered(s),
             stn'[s].call = "listen" => r.call = "listen"
      PROVE  HandshakeInv'
  BY <1>1, CalmKeepsHandshake
<1>2. ASSUME NEW F, Moves(s, F), \A f \in F : f.type \notin Handshaking,
             stn'[s].session = NoSession, stn'[s].call = "listen" => inbox'[s] = << >>
      PROVE  HandshakeInv'
  BY <1>2, CalmKeepsHandshake
<1>3. r.state = "CONNECTED" => Answered(s) BY DEF Answered, InSession
<1>4. \A type \in {"DISC", "DISC_ACK", "FLOOR_REQ", "FLOOR_GRANT"} :
        Control(type).type \notin Handshaking
  BY DEF Control, Handshaking
<1>5. \A k : DataFrame(s, k).type \notin Handshaking BY DEF DataFrame, Handshaking
<1>6. CASE Opens(s) BY <1>6, OpensKeepsHandshake
<1>7. CASE TakesChunk(s)
  <2> DEFINE f == Head(inbox[s])
             R == Received(r, f)
             F == {DataAck(r, f), Control("FLOOR_REQ")}
  <2>0. f \in Frame /\ f.type = "DATA" BY <1>7, HeadFacts DEF TakesChunk, Heads
  <2>1. R \in StationState /\ DataAck(r, f) \in Frame BY <1>0, <2>0, ReceivedTyped
  <2>2. F \in SUBSET Frame /\ \A g \in F : g.type \notin Handshaking
    BY <2>1, ControlTyped DEF DataAck, Control, Handshaking
  <2>3. Moves(s, F) BY <1>7, <2>2, MovesMore DEF TakesChunk
  <2>4. R.session = r.session /\ R.ackBody = r.ackBody /\ R.call = r.call
    BY <1>0 DEF Received, StationState
  <2> HIDE DEF R, F
  <2>5. stn'[s].session = r.session /\ stn'[s].ackBody = r.ackBody /\ stn'[s].call # "listen"
    <3>1. CASE r.call = "poll" /\ stn'[s] = R BY <2>4, <3>1
    <3>2. CASE r.call = "floor" /\ stn'[s] = Requesting(R, 0)
      BY <2>1, <2>4, <3>2 DEF Requesting, StationState
    <3> QED BY <1>7, <3>1, <3>2 DEF TakesChunk, R
  <2>6. r.state = "CONNECTED" BY <1>7 DEF TakesChunk
  <2> QED BY <1>1, <1>3, <2>2, <2>3, <2>5, <2>6
<1>8. CASE Returns(s)
  BY <1>0, <1>1, <1>3, <1>8 DEF Returns, Advanced, WellFormed, StationState
<1>9. CASE CallsAgain(s) BY <1>9, CallsAgainKeepsHandshake
<1>10. CASE Answers(s) BY <1>10, AnswersKeepsHandshake
<1>11. CASE AnswersAgain(s) BY <1>11, AnswersAgainKeepsHandshake
<1>12. CASE GivesUp(s) BY <1>0, <1>2, <1>4, <1>12 DEF GivesUp, StationState
<1>13. CASE Joins(s)
  <2>1. Answered(s)
    <3>1. r.session \in AckIds(s)
      <4> DEFINE G == Frame
      <4>1. inbox[s] \in Seq(G) BY StationFacts
      <4>2. 1 \in DOMAIN inbox[s] /\ Head(inbox[s]) = inbox[s][1]
        <5>1. inbox[s] # << >> BY <1>13 DEF Joins, Heads
        <5> HIDE DEF G
        <5> QED BY <4>1, <5>1, HeadTailProperties
      <4> QED BY <1>13, <4>2 DEF Joins, Heads, AckIds, Ids
    <3> QED BY <3>1 DEF Answered
  <2>2. /\ stn'[s].session = r.session /\ stn'[s].ackBody = r.ackBody
        /\ stn'[s].call = "poll" /\ Moves(s, {})
    BY <1>0, <1>13 DEF Joins, StationState, ResetSequence
  <2> QED BY <1>1, <2>1, <2>2
<1>14. CASE Listens(s)
  BY <1>0, <1>2, <1>14 DEF Listens, WellFormed, StationState
<1>15. CASE StopsListening(s) BY <1>0, <1>1, <1>3, <1>15 DEF StopsListening, StationState
<1>16. CASE Drops(s) BY <1>1, <1>3, <1>16 DEF Drops
<1>17. CASE Grants(s) BY <1>0, <1>1, <1>3, <1>4, <1>17 DEF Grants, StationState
<1>18. CASE StartsSending(s)
  BY <1>0, <1>1, <1>3, <1>5, <1>18 DEF StartsSending, Sending, StationState
<1>19. CASE AsksFloor(s) \/ AsksAgain(s)
  <2>1. \E k : stn'[s] = Requesting(r, k) BY <1>19 DEF AsksFloor, AsksAgain
  <2>2. /\ stn'[s].session = r.session /\ stn'[s].ackBody = r.ackBody
        /\ stn'[s].call = "floor" /\ stn'[s].state = r.state
    BY <1>0, <2>1 DEF Requesting, StationState
  <2>3. Moves(s, {Control("FLOOR_REQ")}) BY <1>19 DEF AsksFloor, AsksAgain
  <2> QED BY <1>1, <1>3, <1>4, <2>2, <2>3
<1>20. CASE TakesGrant(s)
  BY <1>0, <1>1, <1>3, <1>5, <1>20 DEF TakesGrant, Sending, StationState
<1>21. CASE SendsNext(s)
  BY <1>0, <1>1, <1>3, <1>5, <1>21 DEF SendsNext, Sending, Advanced, StationState
<1>22. CASE SendsAgain(s)
  BY <1>0, <1>1, <1>3, <1>5, <1>22 DEF SendsAgain, StationState
<1>23. CASE Closes(s) BY <1>0, <1>1, <1>3, <1>4, <1>23 DEF Closes, Closing, StationState
<1>24. CASE ClosesAgain(s) BY <1>0, <1>1, <1>3, <1>4, <1>24 DEF ClosesAgain, StationState
<1>25. CASE IsClosed(s) BY <1>0, <1>2, <1>4, <1>25 DEF IsClosed, Closed, StationState
<1>26. CASE GoesIdle(s) BY <1>0, <1>1, <1>3, <1>26 DEF GoesIdle, StationState
<1>27. CASE Restarts(s) BY <1>2, <1>27 DEF Restarts, Fresh
<1> QED BY <1>6, <1>7, <1>8, <1>9, <1>10, <1>11, <1>12, <1>13, <1>14, <1>15, <1>16, <1>17,
           <1>18, <1>19, <1>20, <1>21, <1>22, <1>23, <1>24, <1>25, <1>26, <1>27
       DEF Outcome, Quietly

LEMMA HandshakeKept == BaseInv /\ HandshakeInv /\ [Next]_vars => HandshakeInv'
<1>1. ASSUME BaseInv, HandshakeInv, Next PROVE HandshakeInv'
  BY <1>1, Outcomes, OutcomeKeepsHandshake
<1> QED BY <1>1, HandshakeStutters

LEMMA HandshakeSame == BaseInv /\ HandshakeInv => SameSession
<1> SUFFICES ASSUME BaseInv, HandshakeInv, \A s \in Stations : InSession(s),
                    NEW s \in Stations, NEW t \in Stations
             PROVE  stn[s].session = stn[t].session
  BY DEF SameSession, Together
<1>0. PICK p \in Stations : /\ p # s /\ Peer(s) = p /\ Peer(p) = s
                            /\ \A u \in Stations : u = s \/ u = p
  BY PeerFacts
<1>1. Answered(s) /\ Answered(p) BY DEF Answered
<1>2. /\ stn[s].session # NoSession /\ stn[s].session \in Nat
      /\ stn[p].session # NoSession /\ stn[p].session \in Nat
  <2>1. ASSUME NEW u \in Stations PROVE stn[u].session # NoSession /\ stn[u].session \in Nat
    <3>1. WellFormed(stn[u], Len(returned[u])) /\ stn[u].session \in Nat
      BY StationFacts, ConstantFacts
    <3> QED BY <3>1 DEF InSession, WellFormed
  <2> QED BY <1>0, <2>1
<1>3. /\ Latest(s) /\ Settled(s) /\ Ahead(s) /\ Latest(p) /\ Settled(p) /\ Ahead(p)
      /\ Answering(s) => ~Answering(p)
  BY <1>0 DEF HandshakeInv
<1>4. CASE Caller(s) /\ Caller(p) BY <1>0, <1>1, <1>2, <1>3, <1>4 DEF Ahead
<1>5. CASE Caller(s) /\ Answerer(p) BY <1>0, <1>1, <1>2, <1>3, <1>5 DEF Latest, Settled
<1>6. CASE Answerer(s) /\ Caller(p) BY <1>0, <1>1, <1>2, <1>3, <1>6 DEF Latest, Settled
<1>7. ~(Answerer(s) /\ Answerer(p)) BY <1>3 DEF Answering
<1> QED BY <1>0, <1>2, <1>4, <1>5, <1>6, <1>7 DEF Caller, Answerer

\* Two stations that are both in a session are in the same one, however many
\* calls were placed, answered twice, given up or crossed on the way.
THEOREM AlwaysSameSession == Spec => []SameSession
BY BaseStart, BaseKept, HandshakeStart, HandshakeKept, HandshakeSame, PTL DEF Spec
=============================================================================
