---------------------------- MODULE ServiceProofs ----------------------------
(***************************************************************************)
(* Proofs about Service, for queues of every size and any number of        *)
(* writes, messages, sessions and commands: the types, the two properties  *)
(* of what the application is given, and the two of what it wrote.         *)
(*                                                                         *)
(* Phases says where the worker may be while the session is up, RxInv that *)
(* everything on its way to the reader is of this session, TxInv that the  *)
(* items sent, joined and queued are numbered upwards in that order.       *)
(* StreamInv and EarlyInv say that the reader's stream is the session's    *)
(* messages, and which of them recv_message has yet to return.             *)
(***************************************************************************)
EXTENDS Service, SequenceTheorems, TLAPS

Where == {"loop", "drain", "idle", "putback", "connect", "listen", "accepted", "close",
          "end", "recv", "recvPut", "received", "send", "sendPut", "flush", "flushPut",
          "failed", "finally", "stopped"}

InSession == {"accepted", "recv", "recvPut", "received", "send", "sendPut", "flush", "flushPut"}
Putting   == {"recvPut", "received", "sendPut", "flushPut"}
Sending   == {"send", "sendPut", "flush", "flushPut"}

Phases ==
  /\ pc \in Where /\ listening \in BOOLEAN /\ stopping \in BOOLEAN
  /\ up \in BOOLEAN /\ session \in 0 .. MaxSessions /\ heard \in 0 .. MaxReceives
  /\ up => session # 0
  /\ pc \in InSession => up
  /\ pc = "end" => ~up

RxItem == Item(MaxReceives)
Mine(s) == \A i \in DOMAIN s : s[i].session = session

RxInv ==
  /\ pending \in Seq(RxItem) /\ inbound \in Seq(RxItem) /\ Len(inbound) <= InCap
  /\ got \in Seq(RxItem) /\ early \in Nat
  /\ IF pc \in Putting THEN held \in RxItem /\ held.session = session ELSE held = Nothing
  /\ up => Mine(pending)
  /\ up /\ pc = "accepted" => pending = << >>
  /\ up /\ pc # "accepted" => Mine(inbound)
  /\ pc = "connect" => inbound = << >>

CmdInv ==
  /\ commands \in Seq(Commands \cup {"stop"}) /\ issued \in 0 .. MaxCommands
  /\ IF pc = "putback" THEN taken \in Commands \cup {"stop"} ELSE taken = "none"

TxItem == Item(MaxWrites)
Rising(s) == \A i, j \in DOMAIN s : i < j => s[i].n < s[j].n
Before(s, t) == \A i \in DOMAIN s, j \in DOMAIN t : s[i].n < t[j].n
Upto(s, n) == \A i \in DOMAIN s : s[i].n <= n
SentBefore(t) == \A i \in DOMAIN sent, j \in DOMAIN t : sent[i].item.n < t[j].n

TxInv ==
  /\ outbound \in Seq(TxItem) /\ Len(outbound) <= OutCap /\ batch \in Seq(TxItem)
  /\ sent \in Seq([item : TxItem, during : 1 .. MaxSessions])
  /\ writer \in 0 .. MaxSessions /\ written \in 0 .. MaxWrites
  /\ writer # 0 => written < MaxWrites
  /\ pc \notin Sending => batch = << >>
  /\ Rising(outbound) /\ Rising(batch) /\ SentInOrder
  /\ Before(batch, outbound) /\ SentBefore(batch) /\ SentBefore(outbound)
  /\ Upto(outbound, written) /\ Upto(batch, written)
  /\ \A i \in DOMAIN sent : sent[i].item.n <= written

----------------------------------------------------------------------------
(* Where the worker is *)

\* The application's threads move nothing of the worker's.
LEMMA ApplicationAside ==
  Application => UNCHANGED <<pc, listening, link, early, held, batch, sent, taken>>
BY DEF Application, Command, Stop, CheckWrite, PutWrite, Read, rx, tx, cmd

\* What taking a command does to the worker's place and to the session.
LEMMA CommandMoves ==
  ASSUME TakeCommand
  PROVE  /\ pc \in {"drain", "loop"} /\ taken' = taken /\ issued' = issued /\ stopping' = stopping
         /\ commands # << >> /\ commands' = Tail(commands)
         /\ \/ TakeConnect \/ TakeDisconnect \/ TakeAbort \/ TakeStop
            \/ \E on \in BOOLEAN : TakeListen(on)
BY DEF TakeCommand, Draining

LEMMA PhasesKept == Phases /\ RxInv /\ [Next]_vars => Phases'
<1> SUFFICES ASSUME Phases, RxInv, [Next]_vars PROVE Phases' OBVIOUS
<1> USE DEF Where, InSession
<1>1. CASE Application
  <2>1. UNCHANGED <<pc, listening, up, session, heard>> BY <1>1, ApplicationAside DEF link
  <2>2. stopping' \in BOOLEAN
    BY <1>1 DEF Application, Command, Stop, CheckWrite, PutWrite, Read, cmd, Phases
  <2> QED BY <2>1, <2>2 DEF Phases
<1>2. CASE TakeCommand
  <2>1. pc \in {"drain", "loop"} /\ stopping' = stopping BY <1>2, CommandMoves
  <2>2. CASE TakeConnect BY <2>1, <2>2 DEF TakeConnect, Down, Phases
  <2>3. CASE TakeDisconnect
    BY <2>1, <2>3 DEF TakeDisconnect, link, Phases
  <2>4. CASE TakeAbort BY <2>1, <2>4 DEF TakeAbort, link, Phases
  <2>5. CASE TakeStop BY <2>1, <2>5 DEF TakeStop, link, Phases
  <2>6. ASSUME NEW on \in BOOLEAN, TakeListen(on) PROVE Phases'
    BY <2>1, <2>6 DEF TakeListen, link, Phases
  <2> QED BY <1>2, <2>2, <2>3, <2>4, <2>5, <2>6, CommandMoves
<1>3. CASE LeaveLoop \/ Serve \/ IdleGet \/ PutBack \/ IdleTimeout
  BY <1>3 DEF LeaveLoop, Serve, Draining, IdleGet, PutBack, IdleTimeout, Goto, link, cmd, Phases
<1>4. CASE ConnectReturns \/ ListenReturns
  <2>1. Established => session' \in 1 .. MaxSessions /\ heard' = 0 /\ up' = TRUE
    BY ServiceAssumption DEF Established, Phases
  <2>2. 0 \in 0 .. MaxReceives BY ServiceAssumption
  <2>3. /\ pc' \in {"drain", "accepted", "loop"} /\ UNCHANGED <<listening, stopping>>
        /\ Established \/ UNCHANGED link \/ (pc' = "drain" /\ Down)
        /\ pc' = "accepted" => Established
    BY <1>4 DEF ConnectReturns, ListenReturns, Goto, cmd
  <2>4. CASE Established
    BY <2>1, <2>2, <2>3, <2>4 DEF Phases
  <2>5. CASE UNCHANGED link /\ ~Established
    BY <2>3, <2>5 DEF link, Phases
  <2>6. CASE pc' = "drain" /\ Down
    BY <2>3, <2>6 DEF Down, Phases
  <2> QED BY <2>3, <2>4, <2>5, <2>6
<1>5. CASE Accepted \/ Close \/ EndSession
  <2>1. CASE Accepted BY <2>1 DEF Accepted, Goto, link, cmd, Phases
  <2>2. CASE Close BY <2>2 DEF Close, Down, Goto, cmd, Phases
  <2>3. CASE EndSession BY <2>3 DEF EndSession, Goto, link, cmd, Phases
  <2> QED BY <1>5, <2>1, <2>2, <2>3
<1>6. CASE Hear
  <2>1. heard' \in 0 .. MaxReceives BY <1>6, ServiceAssumption DEF Hear, Phases
  <2> QED BY <1>6, <2>1 DEF Hear, Goto, cmd, Phases
<1>7. CASE PutEarly \/ RecvReturns \/ Received
  BY <1>7 DEF PutEarly, RecvReturns, Received, Goto, link, cmd, Phases
<1>8. CASE SendReturns \/ SendFails \/ Failed \/ Finally
  <2>1. CASE SendReturns BY <2>1 DEF SendReturns, Goto, link, cmd, Phases
  <2>2. CASE SendFails BY <2>2 DEF SendFails, Goto, cmd, Phases
  <2>3. CASE Failed BY <2>3 DEF Failed, Down, Goto, cmd, Phases
  <2>4. CASE Finally
    <3>1. pc' = "stopped" /\ UNCHANGED <<listening, stopping>> BY <2>4 DEF Finally, Goto, cmd
    <3>2. up' \in BOOLEAN /\ (up' => up) /\ UNCHANGED <<session, heard>>
      <4>1. CASE Down BY <4>1 DEF Down, Phases
      <4>2. CASE UNCHANGED link BY <4>2 DEF link, Phases
      <4> QED BY <2>4, <4>1, <4>2 DEF Finally
    <3> QED BY <3>1, <3>2 DEF Phases
  <2> QED BY <1>8, <2>1, <2>2, <2>3, <2>4
<1>9. CASE UNCHANGED vars
  <2>1. UNCHANGED <<pc, listening, stopping, up, session, heard>> BY <1>9 DEF vars, link, cmd
  <2> QED BY <2>1 DEF Phases
<1> QED BY <1>1, <1>2, <1>3, <1>4, <1>5, <1>6, <1>7, <1>8, <1>9 DEF Next, Worker

----------------------------------------------------------------------------
(* What is on its way to the reader *)

\* Steps that leave the receive path alone, in and out of which the message in
\* hand plays no part.
LEMMA RxAside ==
  ASSUME RxInv, UNCHANGED <<rx, pending>>, up' => up /\ session' = session,
         pc' \notin Putting, pc \notin Putting, pc' # "connect",
         pc' = "accepted" => pc = "accepted", pc = "accepted" => pc' = "accepted" \/ ~up'
  PROVE  RxInv'
BY DEF RxInv, Mine, rx

LEMMA RxKept == RxInv /\ Phases /\ [Next]_vars => RxInv'
<1> SUFFICES ASSUME RxInv, Phases, [Next]_vars PROVE RxInv' OBVIOUS
<1> USE DEF Putting, InSession
<1>1. CASE Application
  <2>1. UNCHANGED <<pc, link, early, held>> BY <1>1, ApplicationAside
  <2>2. UNCHANGED <<up, session, pending>> BY <2>1 DEF link
  <2>3. CASE Read
    <3>1. inbound # << >> /\ inbound' = Tail(inbound) /\ got' = Append(got, Head(inbound))
      BY <2>3 DEF Read
    <3>2. /\ Head(inbound) \in RxItem /\ Tail(inbound) \in Seq(RxItem)
          /\ Len(Tail(inbound)) = Len(inbound) - 1
          /\ \A i \in 1 .. Len(Tail(inbound)) : Tail(inbound)[i] = inbound[i + 1]
      BY <3>1, HeadTailProperties DEF RxInv
    <3>3. got' \in Seq(RxItem) BY <3>1, <3>2 DEF RxInv
    <3>4. Len(inbound') <= InCap BY <3>1, <3>2, ServiceAssumption DEF RxInv
    <3>5. Mine(inbound) => Mine(inbound')
      BY <3>1, <3>2 DEF RxInv, Mine
    <3>6. up /\ pc # "accepted" => Mine(inbound)' BY <2>2, <3>5 DEF RxInv, Mine
    <3>7. pc # "connect" BY <3>1 DEF RxInv
    <3> QED BY <2>1, <2>2, <3>1, <3>2, <3>3, <3>4, <3>6, <3>7 DEF RxInv, Mine
  <2>4. CASE ~Read
    <3>1. UNCHANGED <<inbound, got>>
      BY <1>1, <2>4 DEF Application, Command, Stop, CheckWrite, PutWrite, rx
    <3> QED BY <2>1, <2>2, <3>1 DEF RxInv, Mine
  <2> QED BY <2>3, <2>4
<1>2. CASE TakeCommand
  <2>1. pc \in {"drain", "loop"} BY <1>2, CommandMoves
  <2>2. CASE TakeConnect
    BY <2>1, <2>2, ServiceAssumption DEF TakeConnect, BeginSession, Down, RxInv, Mine
  <2>3. CASE ~TakeConnect
    <3>1. UNCHANGED <<rx, link>> /\ pc' \in {"flush", "close", "drain", "finally"}
      BY <1>2, <2>3, CommandMoves DEF TakeDisconnect, TakeAbort, TakeStop, TakeListen
    <3> QED BY <2>1, <3>1, RxAside DEF link
  <2> QED BY <2>2, <2>3
<1>3. CASE LeaveLoop \/ Serve \/ IdleGet \/ PutBack \/ IdleTimeout
  <2>1. /\ UNCHANGED <<rx, link>> /\ pc' \notin Putting /\ pc' \notin {"connect", "accepted"}
        /\ pc \notin Putting /\ pc # "accepted"
    BY <1>3 DEF LeaveLoop, Serve, Draining, IdleGet, PutBack, IdleTimeout, Goto
  <2> QED BY <2>1, RxAside DEF link
<1>4. CASE ConnectReturns
  <2>1. pc = "connect" /\ pc' = "drain" /\ UNCHANGED rx BY <1>4 DEF ConnectReturns, Goto
  <2>2. CASE Established
    BY <2>1, <2>2 DEF Established, RxInv, Mine, rx
  <2>3. CASE Down BY <2>1, <2>3, RxAside DEF Down
  <2> QED BY <1>4, <2>2, <2>3 DEF ConnectReturns
<1>5. CASE ListenReturns
  <2>1. pc = "listen" /\ UNCHANGED rx BY <1>5 DEF ListenReturns, Goto
  <2>2. CASE pc' = "accepted" /\ Established
    BY <2>1, <2>2 DEF Established, RxInv, Mine, rx
  <2>3. CASE pc' = "loop" /\ UNCHANGED link BY <2>1, <2>3, RxAside DEF link
  <2> QED BY <1>5, <2>2, <2>3 DEF ListenReturns, Goto
<1>6. CASE Accepted
  BY <1>6, ServiceAssumption DEF Accepted, Goto, BeginSession, link, RxInv, Mine
<1>7. CASE Close \/ EndSession \/ Failed \/ Finally \/ SendReturns \/ SendFails
  <2>1. /\ UNCHANGED <<rx, pending>> /\ pc' \notin Putting /\ pc' \notin {"connect", "accepted"}
        /\ pc \notin Putting /\ pc # "accepted"
    BY <1>7 DEF Close, EndSession, Failed, Finally, SendReturns, SendFails, Goto, Down, link
  <2>2. (up' => up) /\ session' = session
    <3>1. UNCHANGED link => (up' => up) /\ session' = session BY DEF link
    <3>2. Down => (up' => up) /\ session' = session BY DEF Down
    <3>3. SendFails => (up' => up) /\ session' = session
      <4>1. SendFails => (up' = up \/ up' = FALSE) /\ session' = session BY DEF SendFails
      <4> QED BY <4>1
    <3>4. Close \/ EndSession \/ Failed \/ Finally \/ SendReturns => Down \/ UNCHANGED link
      BY DEF Close, EndSession, Failed, Finally, SendReturns
    <3> QED BY <1>7, <3>1, <3>2, <3>3, <3>4
  <2> QED BY <2>1, <2>2, RxAside
<1>8. CASE Hear
  <2>1. /\ pc \in {"recv", "send", "flush"} /\ pc' \in Putting /\ pc' # "connect"
        /\ UNCHANGED <<up, session, pending, inbound, early, got>>
        /\ held' = [session |-> session, n |-> heard + 1]
        /\ heard < MaxReceives /\ up
    BY <1>8 DEF Hear, Goto
  <2>2. session \in 1 .. MaxSessions /\ heard + 1 \in 1 .. MaxReceives
    BY <2>1, ServiceAssumption DEF Phases
  <2>3. held' \in RxItem /\ held'.session = session BY <2>1, <2>2 DEF RxItem, Item
  <2> QED BY <2>1, <2>3 DEF RxInv, Mine
<1>9. CASE PutEarly
  <2>1. pc \in {"recvPut", "sendPut", "flushPut"} /\ up BY <1>9 DEF PutEarly, Goto, Phases
  <2>2. held \in RxItem /\ held.session = session BY <2>1 DEF RxInv
  <2>3. /\ inbound' = Append(inbound, held) /\ Len(inbound) < InCap /\ early' = early + 1
        /\ UNCHANGED <<up, session, got>>
        /\ \/ pc' = "received" /\ UNCHANGED <<held, pending>>
           \/ pc' \in {"send", "flush"} /\ pending' = Append(pending, held) /\ held' = Nothing
    BY <1>9 DEF PutEarly, Goto
  <2>4. \A s \in Seq(RxItem) : Mine(s) => Append(s, held) \in Seq(RxItem) /\ Mine(Append(s, held))
    BY <2>2 DEF Mine
  <2>5. Len(inbound') <= InCap
    BY <2>3, ServiceAssumption DEF RxInv
  <2>6. Mine(inbound) /\ Mine(pending) BY <2>1 DEF RxInv
  <2>7. inbound' \in Seq(RxItem) /\ pending' \in Seq(RxItem) /\ Mine(inbound') /\ Mine(pending')
    BY <2>3, <2>4, <2>6 DEF RxInv
  <2>8. Mine(inbound)' /\ Mine(pending)' BY <2>3, <2>7 DEF Mine
  <2>9. IF pc' \in Putting THEN held' \in RxItem /\ held'.session = session' ELSE held' = Nothing
    BY <2>2, <2>3
  <2>10. early' \in Nat /\ pc' \notin {"connect", "accepted"} /\ got' \in Seq(RxItem)
    BY <2>3 DEF RxInv
  <2> QED BY <2>5, <2>7, <2>8, <2>9, <2>10 DEF RxInv
<1>10. CASE RecvReturns
  <2>1. pc = "recv" /\ UNCHANGED <<session, inbound, early, got>>
    BY <1>10 DEF RecvReturns, Goto
  <2>2. CASE pending # << >>
    <3>1. /\ pc' = "received" /\ held' = Head(pending) /\ pending' = Tail(pending)
          /\ up' = up
      BY <1>10, <2>2 DEF RecvReturns, Goto
    <3>2. /\ Head(pending) \in RxItem /\ Tail(pending) \in Seq(RxItem)
          /\ \A i \in 1 .. Len(Tail(pending)) : Tail(pending)[i] = pending[i + 1]
          /\ Len(Tail(pending)) = Len(pending) - 1 /\ Head(pending) = pending[1]
          /\ 1 \in DOMAIN pending
      BY <2>2, HeadTailProperties DEF RxInv
    <3>3. up /\ Mine(pending) BY <2>1 DEF Phases, RxInv
    <3>4. held'.session = session BY <3>1, <3>2, <3>3 DEF Mine
    <3>5. Mine(Tail(pending)) BY <3>2, <3>3 DEF Mine, RxInv
    <3>6. Mine(pending)' BY <2>1, <3>1, <3>5 DEF Mine
    <3>7. Mine(inbound)' BY <2>1, <3>3 DEF RxInv, Mine
    <3> QED BY <2>1, <3>1, <3>2, <3>4, <3>6, <3>7 DEF RxInv
  <2>3. CASE pending = << >>
    <3>1. pc' = "loop" /\ UNCHANGED <<held, pending>> BY <1>10, <2>3 DEF RecvReturns, Goto
    <3>2. up BY <2>1 DEF Phases
    <3> QED BY <2>1, <3>1, <3>2, RxAside DEF rx
  <2> QED BY <2>2, <2>3
<1>11. CASE Received
  <2>1. /\ pc = "received" /\ pc' = "loop" /\ held' = Nothing /\ UNCHANGED <<got, up, session, pending>>
        /\ up
    BY <1>11 DEF Received, Goto, link, Phases
  <2>2. held \in RxItem /\ held.session = session /\ Mine(inbound) BY <2>1 DEF RxInv
  <2>3. \/ early > 0 /\ early' = early - 1 /\ UNCHANGED inbound
        \/ Len(inbound) < InCap /\ inbound' = Append(inbound, held) /\ UNCHANGED early
    BY <1>11 DEF Received
  <2>4. early' \in Nat BY <2>3 DEF RxInv
  <2>5. inbound' \in Seq(RxItem) /\ Len(inbound') <= InCap /\ Mine(inbound')
    <3>1. inbound \in Seq(RxItem) /\ Len(inbound) <= InCap /\ InCap \in Nat
      BY ServiceAssumption DEF RxInv
    <3>2. CASE UNCHANGED inbound BY <2>2, <3>1, <3>2
    <3>3. CASE Len(inbound) < InCap /\ inbound' = Append(inbound, held)
      <4>1. inbound' \in Seq(RxItem) /\ Len(inbound') = Len(inbound) + 1 BY <2>2, <3>1, <3>3
      <4>2. Mine(inbound') BY <2>2, <3>1, <3>3 DEF Mine
      <4> QED BY <3>1, <3>3, <4>1, <4>2
    <3> QED BY <2>3, <3>2, <3>3
  <2>6. Mine(inbound)' /\ Mine(pending)' BY <2>1, <2>5 DEF Mine, RxInv
  <2> QED BY <2>1, <2>4, <2>5, <2>6 DEF RxInv
<1>12. CASE UNCHANGED vars
  <2>1. UNCHANGED <<pc, up, session, pending, inbound, got, early, held>>
    BY <1>12 DEF vars, link, rx
  <2> QED BY <2>1 DEF RxInv, Mine
<1> QED
  BY <1>1, <1>2, <1>3, <1>4, <1>5, <1>6, <1>7, <1>8, <1>9, <1>10, <1>11, <1>12 DEF Next, Worker

----------------------------------------------------------------------------
(* What the reader is given *)

Hearing == {"recvPut", "sendPut", "flushPut"}
Stream  == got \o inbound

\* early counts the messages that recv_message will return although the event
\* has delivered them: the kept ones, and the one it is returning.
EarlyInv ==
  /\ up /\ pc # "accepted" => early = Len(pending) + (IF pc = "received" THEN 1 ELSE 0)
  /\ pc = "connect" => early = 0

\* No item is of a session to come; a message waiting for room is the last
\* one heard.
StreamInv ==
  /\ \A i \in DOMAIN Stream : Stream[i].session <= session
  /\ pc = "accepted" => heard = 0
  /\ pc \in Hearing => held.n = heard
  /\ StreamExact

LEMMA StreamTyped ==
  ASSUME RxInv
  PROVE  Stream \in Seq(RxItem) /\ Len(Stream) \in Nat /\ DOMAIN Stream = 1 .. Len(Stream)
<1> DEFINE T == RxItem
<1>1. got \in Seq(T) /\ inbound \in Seq(T) BY DEF RxInv
<1>2. Stream \in Seq(T) /\ Len(Stream) \in Nat /\ DOMAIN Stream = 1 .. Len(Stream)
  <2> HIDE DEF T
  <2> QED BY <1>1 DEF Stream
<1> QED BY <1>2

\* The reader takes an item off the queue: the stream stays.
LEMMA StreamRead == ASSUME RxInv, Read PROVE Stream' = Stream
<1> DEFINE T == RxItem
<1>1. got \in Seq(T) /\ inbound \in Seq(T) /\ inbound # << >> BY DEF RxInv, Read
<1>2. got' = Append(got, Head(inbound)) /\ inbound' = Tail(inbound) BY DEF Read
<1> HIDE DEF T
<1>3. /\ Head(inbound) \in T /\ Head(inbound) = inbound[1]
      /\ Tail(inbound) \in Seq(T) /\ Len(Tail(inbound)) = Len(inbound) - 1
      /\ \A i \in 1 .. Len(inbound) - 1 : Tail(inbound)[i] = inbound[i + 1]
  BY <1>1, HeadTailProperties
<1>4. /\ got' \o inbound' \in Seq(T) /\ got \o inbound \in Seq(T)
      /\ Len(got' \o inbound') = Len(got \o inbound)
  BY <1>1, <1>2, <1>3
<1>5. \A i \in 1 .. Len(got \o inbound) : (got' \o inbound')[i] = (got \o inbound)[i]
  <2> SUFFICES ASSUME NEW i \in 1 .. Len(got \o inbound)
               PROVE  (got' \o inbound')[i] = (got \o inbound)[i]
    OBVIOUS
  <2>1. /\ Len(got) \in Nat /\ Len(inbound) \in Nat /\ Len(got') = Len(got) + 1
        /\ got' \in Seq(T) /\ i \in 1 .. Len(got) + Len(inbound)
    BY <1>1, <1>2, <1>3
  <2>2. CASE i <= Len(got) BY <1>1, <1>2, <1>3, <2>1, <2>2
  <2>3. CASE i = Len(got) + 1
    <3>0. Len(got') = i /\ got'[i] = Head(inbound) BY <1>1, <1>2, <1>3, <2>1, <2>3
    <3>1. (got' \o inbound')[i] = got'[i] BY <1>2, <1>3, <2>1, <3>0
    <3>2. (got \o inbound)[i] = inbound[1] BY <1>1, <2>1, <2>3
    <3> QED BY <1>3, <3>0, <3>1, <3>2
  <2>4. CASE i > Len(got) + 1
    <3>1. (got' \o inbound')[i] = Tail(inbound)[i - (Len(got) + 1)]
      BY <1>1, <1>2, <1>3, <2>1, <2>4
    <3>2. Tail(inbound)[i - (Len(got) + 1)] = inbound[i - Len(got)] BY <1>3, <2>1, <2>4
    <3>3. (got \o inbound)[i] = inbound[i - Len(got)]
      <4>1. i \in 1 .. Len(got) + Len(inbound) /\ ~(i <= Len(got)) BY <2>1, <2>4
      <4> QED BY <1>1, <4>1
    <3> QED BY <3>1, <3>2, <3>3
  <2>5. i <= Len(got) \/ i = Len(got) + 1 \/ i > Len(got) + 1 BY <2>1
  <2> QED BY <2>2, <2>3, <2>4, <2>5
<1> QED BY <1>4, <1>5, SeqEqual DEF Stream

\* A message is put at the end of it.
LEMMA StreamPut ==
  ASSUME RxInv, held \in RxItem, inbound' = Append(inbound, held), got' = got
  PROVE  /\ Len(Stream') = Len(Stream) + 1 /\ DOMAIN Stream' = 1 .. Len(Stream) + 1
         /\ \A i \in 1 .. Len(Stream) : Stream'[i] = Stream[i]
         /\ Stream'[Len(Stream) + 1] = held
<1> DEFINE T == RxItem
<1>1. got \in Seq(T) /\ inbound \in Seq(T) /\ held \in T BY DEF RxInv
<1> HIDE DEF T
<1>2. Stream' = got \o Append(inbound, held) /\ Stream = got \o inbound BY DEF Stream
<1> QED BY <1>1, <1>2

\* What depends on the session only is not disturbed while the session and
\* the stream stay.
LEMMA StreamAside ==
  ASSUME StreamInv, UNCHANGED <<got, inbound, heard, session>>, up' => up,
         pc \notin Hearing, pc' \notin Hearing, pc' = "accepted" => pc = "accepted"
  PROVE  StreamInv'
BY DEF StreamInv, Stream, StreamExact, EndsWith, Put, Hearing

\* A session begins at the end of a stream of earlier ones.
LEMMA StreamBegins ==
  ASSUME RxInv, Phases, StreamInv, Established, UNCHANGED <<got, inbound>>, pc' \notin Hearing
  PROVE  StreamInv'
<1>1. session' = session + 1 /\ heard' = 0 /\ Stream' = Stream BY DEF Established, Stream
<1>2. session \in Nat BY ServiceAssumption DEF Phases
<1>3. Len(Stream) \in Nat /\ DOMAIN Stream = 1 .. Len(Stream) BY StreamTyped
<1>4. \A i \in DOMAIN Stream : Stream[i].session \in Nat /\ Stream[i].session <= session
  <2> DEFINE T == RxItem
  <2>1. Stream \in Seq(T) BY StreamTyped
  <2>2. \A x \in T : x.session \in Nat BY DEF RxItem, Item
  <2> HIDE DEF T
  <2> QED BY <2>1, <2>2 DEF StreamInv
<1>5. \A i \in DOMAIN Stream : Stream[i].session <= session' /\ Stream[i].session # session'
  BY <1>1, <1>2, <1>4
<1>6. Put' = 0 BY <1>1 DEF Put, Hearing
<1>7. (got \o inbound)' = Stream BY <1>1 DEF Stream
<1>8. StreamExact' BY <1>3, <1>5, <1>6, <1>7 DEF StreamExact, EndsWith
<1> QED BY <1>1, <1>5, <1>8 DEF StreamInv

\* The session that was accepted begins: what the last one left is dropped.
LEMMA StreamCleared ==
  ASSUME RxInv, StreamInv, Accepted PROVE StreamInv'
<1>1. /\ pc = "accepted" /\ pc' = "loop" /\ inbound' = << >>
      /\ UNCHANGED <<up, session, heard, got>>
  BY DEF Accepted, Goto, BeginSession, link
<1> DEFINE T == RxItem
<1>2. got \in Seq(T) /\ inbound \in Seq(T) BY DEF RxInv
<1> HIDE DEF T
<1>3. Stream' = got /\ (got \o inbound)' = got BY <1>1, <1>2 DEF Stream
<1>4. /\ DOMAIN got = 1 .. Len(got) /\ Len(got) \in Nat
      /\ Len(Stream) \in Nat /\ DOMAIN Stream = 1 .. Len(Stream) /\ Len(got) <= Len(Stream)
      /\ \A i \in DOMAIN got : Stream[i] = got[i]
  BY <1>2 DEF Stream
<1>5. Put = 0 /\ Put' = 0 BY <1>1 DEF StreamInv, Put, Hearing
<1>6. up => \A i \in DOMAIN got : got[i].session # session
  <2> SUFFICES ASSUME up, NEW i \in DOMAIN got PROVE got[i].session # session OBVIOUS
  <2>1. EndsWith(Stream, 0) BY <1>5 DEF StreamInv, StreamExact, Stream
  <2>2. i \in DOMAIN Stream /\ i <= Len(Stream) - 0 BY <1>4
  <2> QED BY <1>4, <2>1, <2>2 DEF EndsWith
<1>7. \A i \in DOMAIN got : got[i].session <= session BY <1>4 DEF StreamInv
<1>8. StreamExact' BY <1>1, <1>3, <1>4, <1>5, <1>6 DEF StreamExact, EndsWith
<1> QED BY <1>1, <1>3, <1>7, <1>8 DEF StreamInv, Hearing

\* The event puts the message that was heard in its place.
LEMMA StreamGrows ==
  ASSUME RxInv, Phases, StreamInv, PutEarly PROVE StreamInv'
<1>1. /\ pc \in Hearing /\ pc' \in {"received", "send", "flush"}
      /\ inbound' = Append(inbound, held) /\ UNCHANGED <<up, session, heard, got>>
  BY DEF PutEarly, Goto, Hearing
<1>2. up /\ held \in RxItem /\ held.session = session /\ held.n = heard
  BY <1>1 DEF Hearing, Phases, InSession, RxInv, Putting, StreamInv
<1>3. /\ Len(Stream') = Len(Stream) + 1 /\ DOMAIN Stream' = 1 .. Len(Stream) + 1
      /\ \A i \in 1 .. Len(Stream) : Stream'[i] = Stream[i]
      /\ Stream'[Len(Stream) + 1] = held
  BY <1>1, <1>2, StreamPut
<1>4. Len(Stream) \in Nat /\ DOMAIN Stream = 1 .. Len(Stream) BY StreamTyped
<1>5. session \in Nat /\ heard \in Nat BY ServiceAssumption DEF Phases
<1>6. held = [session |-> session, n |-> heard] BY <1>2 DEF RxItem, Item
<1>7. Put = heard - 1 /\ Put' = heard BY <1>1 DEF Put, Hearing
<1>8. EndsWith(Stream, heard - 1) BY <1>2, <1>7 DEF StreamInv, StreamExact, Stream
<1> DEFINE before == Len(Stream) - (heard - 1)
<1>9. before >= 0 /\ before = Len(Stream') - heard BY <1>3, <1>4, <1>5, <1>8 DEF EndsWith
<1>10. ASSUME NEW i \in DOMAIN Stream'
       PROVE  IF i <= before
              THEN Stream'[i].session # session
              ELSE Stream'[i] = [session |-> session, n |-> i - before]
  <2>1. CASE i \in DOMAIN Stream BY <1>3, <1>4, <1>8, <2>1 DEF EndsWith
  <2>2. CASE i = Len(Stream) + 1
    <3>1. before \in Int /\ i - before = heard /\ (i <= before <=> heard <= 0)
      BY <1>4, <1>5, <2>2
    <3>2. heard >= 1 BY <1>2, <1>5 DEF RxItem, Item
    <3> QED BY <1>3, <1>5, <1>6, <2>2, <3>1, <3>2
  <2> QED BY <1>3, <1>4, <2>1, <2>2
<1>11. StreamExact'
  <2>1. (got \o inbound)' = Stream' BY DEF Stream
  <2> QED BY <1>1, <1>7, <1>9, <1>10, <2>1 DEF StreamExact, EndsWith
<1>12. \A i \in DOMAIN Stream' : Stream'[i].session <= session
  <2>1. session <= session BY <1>5
  <2> QED BY <1>2, <1>3, <1>4, <2>1 DEF StreamInv
<1> QED BY <1>1, <1>11, <1>12 DEF StreamInv, Hearing

LEMMA EarlyKept == EarlyInv /\ RxInv /\ Phases /\ [Next]_vars => EarlyInv'
<1> SUFFICES ASSUME EarlyInv, RxInv, Phases, [Next]_vars PROVE EarlyInv' OBVIOUS
<1> USE DEF InSession
<1>0. ASSUME UNCHANGED <<early, pending>>, up' => up, pc \notin {"received", "accepted", "connect"},
             pc' \notin {"received", "accepted", "connect"}
      PROVE  EarlyInv'
  BY <1>0 DEF EarlyInv
<1>1. CASE Application
  <2>1. UNCHANGED <<pc, link, early, held>> BY <1>1, ApplicationAside
  <2> QED BY <2>1 DEF EarlyInv, link
<1>2. CASE TakeCommand
  <2>1. pc \in {"drain", "loop"} BY <1>2, CommandMoves
  <2>2. CASE TakeConnect BY <2>2 DEF TakeConnect, BeginSession, Down, EarlyInv
  <2>3. CASE ~TakeConnect
    <3>1. UNCHANGED <<rx, link>> /\ pc' \in {"flush", "close", "drain", "finally"}
      BY <1>2, <2>3, CommandMoves DEF TakeDisconnect, TakeAbort, TakeStop, TakeListen
    <3> QED BY <1>0, <2>1, <3>1 DEF rx, link
  <2> QED BY <2>2, <2>3
<1>3. CASE LeaveLoop \/ Serve \/ IdleGet \/ PutBack \/ IdleTimeout
  <2>1. /\ UNCHANGED <<rx, link>> /\ pc' \notin {"received", "accepted", "connect"}
        /\ pc \notin {"received", "accepted", "connect"}
    BY <1>3 DEF LeaveLoop, Serve, Draining, IdleGet, PutBack, IdleTimeout, Goto
  <2> QED BY <1>0, <2>1 DEF rx, link
<1>4. CASE ConnectReturns
  BY <1>4 DEF ConnectReturns, Goto, Established, Down, EarlyInv, rx
<1>5. CASE ListenReturns
  <2>1. pc = "listen" /\ UNCHANGED rx /\ (pc' = "accepted" \/ (pc' = "loop" /\ UNCHANGED link))
    BY <1>5 DEF ListenReturns, Goto
  <2> QED BY <2>1 DEF EarlyInv, rx, link
<1>6. CASE Accepted
  <2>1. pc = "accepted" /\ pc' = "loop" /\ early' = 0 /\ UNCHANGED link
    BY <1>6 DEF Accepted, Goto, BeginSession
  <2> QED BY <2>1 DEF link, EarlyInv, RxInv, Phases
<1>7. CASE Close \/ EndSession \/ Failed \/ Finally
  <2>1. /\ UNCHANGED rx /\ (Down \/ UNCHANGED link)
        /\ pc' \notin {"received", "accepted", "connect"}
        /\ pc \notin {"received", "accepted", "connect"}
    BY <1>7 DEF Close, EndSession, Failed, Finally, Goto
  <2>2. UNCHANGED <<early, pending>> /\ (up' => up) BY <2>1 DEF rx, link, Down
  <2> QED BY <1>0, <2>1, <2>2
<1>8. CASE SendReturns \/ SendFails
  <2>1. /\ UNCHANGED <<rx, pending>> /\ pc' \notin {"received", "accepted", "connect"}
        /\ pc \in {"send", "flush"}
    BY <1>8 DEF SendReturns, SendFails, Goto, link
  <2>2. up BY <2>1 DEF Phases
  <2> QED BY <1>0, <2>1, <2>2 DEF rx
<1>9. CASE Hear
  <2>1. /\ UNCHANGED <<early, pending, up>> /\ pc \in {"recv", "send", "flush"}
        /\ pc' \in {"recvPut", "sendPut", "flushPut"}
    BY <1>9 DEF Hear, Goto
  <2> QED BY <1>0, <2>1
<1>10. CASE PutEarly
  <2>1. /\ early' = early + 1 /\ up' = up /\ pc \in {"recvPut", "sendPut", "flushPut"}
        /\ \/ pc' = "received" /\ pending' = pending
           \/ pc' \in {"send", "flush"} /\ pending' = Append(pending, held)
    BY <1>10 DEF PutEarly, Goto
  <2>2. up /\ early = Len(pending) /\ early \in Nat /\ pending \in Seq(RxItem) /\ held \in RxItem
    BY <2>1 DEF EarlyInv, Phases, RxInv, Putting
  <2>3. Len(Append(pending, held)) = Len(pending) + 1
    <3> DEFINE T == RxItem
    <3>1. pending \in Seq(T) BY <2>2
    <3> HIDE DEF T
    <3> QED BY <3>1
  <2>4. CASE pc' = "received" /\ pending' = pending BY <2>1, <2>2, <2>4 DEF EarlyInv
  <2>5. CASE pc' \in {"send", "flush"} /\ pending' = Append(pending, held)
    <3>1. early' = Len(pending') BY <2>1, <2>2, <2>3, <2>5
    <3>2. early' = Len(pending') + 0 BY <2>1, <2>2, <3>1
    <3> QED BY <2>5, <3>2 DEF EarlyInv
  <2> QED BY <2>1, <2>4, <2>5
<1>11. CASE RecvReturns
  <2>1. pc = "recv" /\ UNCHANGED early /\ up BY <1>11 DEF RecvReturns, Goto, Phases
  <2>2. early = Len(pending) /\ early \in Nat BY <2>1 DEF EarlyInv, RxInv
  <2>3. CASE pending # << >>
    <3>1. pc' = "received" /\ pending' = Tail(pending) BY <1>11, <2>3 DEF RecvReturns, Goto
    <3>2. Len(Tail(pending)) = Len(pending) - 1 BY <2>3, HeadTailProperties DEF RxInv
    <3>3. early' = Len(pending') + 1 BY <2>1, <2>2, <3>1, <3>2
    <3> QED BY <3>1, <3>3 DEF EarlyInv
  <2>4. CASE pending = << >>
    <3>1. pc' = "loop" /\ pending' = pending BY <1>11, <2>4 DEF RecvReturns, Goto
    <3> QED BY <1>0, <2>1, <3>1
  <2> QED BY <2>3, <2>4
<1>12. CASE Received
  <2>1. pc = "received" /\ pc' = "loop" /\ UNCHANGED link /\ up
    BY <1>12 DEF Received, Goto, Phases
  <2>2. /\ early = Len(pending) + 1 /\ early \in Nat /\ Len(pending) \in Nat
    <3> DEFINE T == RxItem
    <3>1. pending \in Seq(T) /\ early \in Nat /\ early = Len(pending) + 1
      BY <2>1 DEF EarlyInv, RxInv
    <3> HIDE DEF T
    <3> QED BY <3>1
  <2>3. early' = early - 1 BY <1>12, <2>2 DEF Received
  <2>4. early' = Len(pending') + 0 BY <2>1, <2>2, <2>3 DEF link
  <2> QED BY <2>1, <2>4 DEF EarlyInv, link
<1>13. CASE UNCHANGED vars BY <1>13 DEF vars, link, rx, EarlyInv
<1> QED
  BY <1>1, <1>2, <1>3, <1>4, <1>5, <1>6, <1>7, <1>8, <1>9, <1>10, <1>11, <1>12, <1>13
     DEF Next, Worker

LEMMA StreamKept == StreamInv /\ EarlyInv /\ RxInv /\ Phases /\ [Next]_vars => StreamInv'
<1> SUFFICES ASSUME StreamInv, EarlyInv, RxInv, Phases, [Next]_vars PROVE StreamInv' OBVIOUS
<1> USE DEF InSession, Hearing
<1>1. CASE Application
  <2>1. UNCHANGED <<pc, link, early, held>> BY <1>1, ApplicationAside
  <2>2. Stream' = Stream
    <3>1. CASE Read BY <3>1, StreamRead
    <3>2. CASE ~Read
      <4>1. UNCHANGED rx
        BY <1>1, <3>2 DEF Application, Command, Stop, CheckWrite, PutWrite
      <4> QED BY <4>1 DEF rx, Stream
    <3> QED BY <3>1, <3>2
  <2>3. (got \o inbound)' = got \o inbound BY <2>2 DEF Stream
  <2> QED BY <2>1, <2>2, <2>3 DEF StreamInv, StreamExact, EndsWith, Put, link
<1>2. CASE TakeCommand
  <2>1. pc \in {"drain", "loop"} BY <1>2, CommandMoves
  <2>2. CASE TakeConnect
    <3>1. /\ inbound' = << >> /\ UNCHANGED <<got, session>> /\ ~up' /\ pc' = "connect"
      BY <2>2 DEF TakeConnect, BeginSession, Down
    <3> DEFINE T == RxItem
    <3>2. got \in Seq(T) /\ inbound \in Seq(T) BY DEF RxInv
    <3> HIDE DEF T
    <3>3. Stream' = got /\ \A i \in DOMAIN got : i \in DOMAIN Stream /\ Stream[i] = got[i]
      BY <3>1, <3>2 DEF Stream
    <3> QED BY <3>1, <3>3 DEF StreamInv, StreamExact
  <2>3. CASE ~TakeConnect
    <3>1. UNCHANGED <<rx, link>> /\ pc' \in {"flush", "close", "drain", "finally"}
      BY <1>2, <2>3, CommandMoves DEF TakeDisconnect, TakeAbort, TakeStop, TakeListen
    <3> QED BY <2>1, <3>1, StreamAside DEF rx, link
  <2> QED BY <2>2, <2>3
<1>3. CASE LeaveLoop \/ Serve \/ IdleGet \/ PutBack \/ IdleTimeout
  <2>1. UNCHANGED <<rx, link>> /\ pc' \notin Hearing /\ pc' # "accepted" /\ pc \notin Hearing
    BY <1>3 DEF LeaveLoop, Serve, Draining, IdleGet, PutBack, IdleTimeout, Goto
  <2> QED BY <2>1, StreamAside DEF rx, link
<1>4. CASE ConnectReturns \/ ListenReturns
  <2>1. /\ UNCHANGED rx /\ pc \notin Hearing /\ pc' \notin Hearing
        /\ Established \/ (pc' # "accepted" /\ (Down \/ UNCHANGED link))
    BY <1>4 DEF ConnectReturns, ListenReturns, Goto
  <2>2. CASE Established BY <2>1, <2>2, StreamBegins DEF rx
  <2>3. CASE pc' # "accepted" /\ (Down \/ UNCHANGED link)
    <3>1. UNCHANGED <<session, heard>> /\ (up' => up) BY <2>3 DEF Down, link
    <3> QED BY <2>1, <2>3, <3>1, StreamAside DEF rx
  <2> QED BY <2>1, <2>2, <2>3
<1>5. CASE Accepted BY <1>5, StreamCleared
<1>6. CASE Close \/ EndSession \/ Failed \/ Finally \/ SendReturns \/ SendFails
  <2>1. UNCHANGED rx /\ pc' \notin Hearing /\ pc' # "accepted" /\ pc \notin Hearing
    BY <1>6 DEF Close, EndSession, Failed, Finally, SendReturns, SendFails, Goto
  <2>2. (up' => up) /\ UNCHANGED <<session, heard>>
    <3>1. UNCHANGED link => (up' => up) /\ UNCHANGED <<session, heard>> BY DEF link
    <3>2. Down => (up' => up) /\ UNCHANGED <<session, heard>> BY DEF Down
    <3>3. SendFails => (up' => up) /\ UNCHANGED <<session, heard>>
      <4>1. SendFails => (up' = up \/ up' = FALSE) /\ UNCHANGED <<session, heard>> BY DEF SendFails
      <4> QED BY <4>1
    <3>4. Close \/ EndSession \/ Failed \/ Finally \/ SendReturns => Down \/ UNCHANGED link
      BY DEF Close, EndSession, Failed, Finally, SendReturns
    <3> QED BY <1>6, <3>1, <3>2, <3>3, <3>4
  <2> QED BY <2>1, <2>2, StreamAside DEF rx
<1>7. CASE Hear
  <2>1. /\ pc \in {"recv", "send", "flush"} /\ pc' \in Hearing /\ heard' = heard + 1
        /\ held'.n = heard + 1 /\ UNCHANGED <<up, session, got, inbound>>
    BY <1>7 DEF Hear, Goto
  <2>2. heard \in Nat BY ServiceAssumption DEF Phases
  <2>3. Put = heard /\ Put' = heard BY <2>1, <2>2 DEF Put
  <2> QED BY <2>1, <2>2, <2>3 DEF StreamInv, StreamExact, EndsWith, Stream
<1>8. CASE PutEarly BY <1>8, StreamGrows
<1>9. CASE RecvReturns
  <2>1. pc = "recv" /\ pc' \in {"received", "loop"} /\ UNCHANGED <<session, heard, inbound, got>> /\ up
    BY <1>9 DEF RecvReturns, Goto, Phases
  <2> QED BY <2>1, StreamAside
<1>10. CASE Received
  <2>1. pc = "received" /\ pc' = "loop" /\ UNCHANGED <<link, got>> /\ up
    BY <1>10 DEF Received, Goto, Phases
  <2>2. early > 0
    <3> DEFINE T == RxItem
    <3>1. pending \in Seq(T) /\ early = Len(pending) + 1 BY <2>1 DEF EarlyInv, RxInv
    <3> HIDE DEF T
    <3> QED BY <3>1
  <2>3. UNCHANGED inbound BY <1>10, <2>2 DEF Received
  <2> QED BY <2>1, <2>3, StreamAside DEF link
<1>11. CASE UNCHANGED vars
  BY <1>11 DEF vars, link, rx, StreamInv, StreamExact, EndsWith, Put, Stream
<1> QED
  BY <1>1, <1>2, <1>3, <1>4, <1>5, <1>6, <1>7, <1>8, <1>9, <1>10, <1>11 DEF Next, Worker

----------------------------------------------------------------------------
(* The commands *)

LEMMA CmdKept == CmdInv /\ [Next]_vars => CmdInv'
<1> SUFFICES ASSUME CmdInv, [Next]_vars PROVE CmdInv' OBVIOUS
<1> DEFINE C == Commands \cup {"stop"}
<1>0. /\ \A s \in Seq(C), c \in C : Append(s, c) \in Seq(C)
      /\ \A s \in Seq(C) : s # << >> => Head(s) \in C /\ Tail(s) \in Seq(C)
  <2> HIDE DEF C
  <2> QED BY HeadTailProperties
<1>1. commands \in Seq(C) /\ issued \in 0 .. MaxCommands BY DEF CmdInv
<1>2. CASE Application
  <2>1. pc' = pc /\ taken' = taken BY <1>2, ApplicationAside
  <2>2. ASSUME NEW c \in Commands, Command(c) PROVE CmdInv'
    <3>1. commands' \in Seq(C) BY <1>0, <1>1, <2>2 DEF Command
    <3>2. issued' \in 0 .. MaxCommands BY <1>1, <2>2, ServiceAssumption DEF Command
    <3> QED BY <2>1, <3>1, <3>2 DEF CmdInv
  <2>3. CASE Stop
    <3>1. commands' \in Seq(C) /\ issued' = issued BY <1>0, <1>1, <2>3 DEF Stop
    <3> QED BY <2>1, <3>1 DEF CmdInv
  <2>4. CASE CheckWrite \/ PutWrite \/ Read
    BY <2>1, <2>4 DEF CheckWrite, PutWrite, Read, cmd, CmdInv
  <2> QED BY <1>2, <2>2, <2>3, <2>4 DEF Application
<1>3. CASE TakeCommand
  <2>1. /\ pc # "putback" /\ taken' = taken /\ issued' = issued /\ commands # << >>
        /\ commands' = Tail(commands)
    BY <1>3, CommandMoves
  <2>2. pc' # "putback"
    BY <1>3, CommandMoves DEF TakeConnect, TakeDisconnect, TakeAbort, TakeStop, TakeListen
  <2> QED BY <1>0, <1>1, <2>1, <2>2 DEF CmdInv
<1>4. CASE IdleGet
  <2>1. pc' = "putback" /\ commands # << >> /\ taken' = Head(commands)
        /\ commands' = Tail(commands) /\ issued' = issued
    BY <1>4 DEF IdleGet, Goto
  <2> QED BY <1>0, <1>1, <2>1 DEF CmdInv
<1>5. CASE PutBack
  <2>1. /\ pc = "putback" /\ pc' = "loop" /\ taken' = "none" /\ issued' = issued
        /\ commands' = Append(commands, taken)
    BY <1>5 DEF PutBack, Goto
  <2> QED BY <1>0, <1>1, <2>1 DEF CmdInv
<1>6. CASE LeaveLoop \/ Serve \/ IdleTimeout \/ ConnectReturns \/ ListenReturns \/ Accepted
  BY <1>6 DEF LeaveLoop, Serve, Draining, IdleTimeout, ConnectReturns, ListenReturns, Accepted,
              Goto, cmd, CmdInv
<1>7. CASE Close \/ EndSession \/ Hear \/ PutEarly \/ RecvReturns \/ Received
  BY <1>7 DEF Close, EndSession, Hear, PutEarly, RecvReturns, Received, Goto, cmd, CmdInv
<1>8. CASE SendReturns \/ SendFails \/ Failed \/ Finally
  BY <1>8 DEF SendReturns, SendFails, Failed, Finally, Goto, cmd, CmdInv
<1>9. CASE UNCHANGED vars BY <1>9 DEF vars, cmd, CmdInv
<1> QED
  BY <1>2, <1>3, <1>4, <1>5, <1>6, <1>7, <1>8, <1>9 DEF Next, Worker

----------------------------------------------------------------------------
(* What the application wrote *)

\* The numbering survives when the queue is emptied, into the batch or away.
LEMMA TxEmptied ==
  ASSUME TxInv, EmptyOutbound, batch' = << >> \/ batch' = outbound,
         pc' \notin Sending => batch' = << >>
  PROVE  TxInv'
<1>1. outbound' = << >> /\ UNCHANGED <<sent, writer, written>> BY DEF EmptyOutbound
<1>2. outbound' \in Seq(TxItem) /\ Len(outbound') <= OutCap
      /\ Rising(outbound)' /\ Before(batch, outbound)' /\ SentBefore(outbound)'
      /\ Upto(outbound, written)'
  BY <1>1, ServiceAssumption DEF Rising, Before, SentBefore, Upto
<1>3. batch' \in Seq(TxItem) /\ Rising(batch)' /\ SentBefore(batch)' /\ Upto(batch, written)'
  <2>1. CASE batch' = << >> BY <2>1 DEF Rising, SentBefore, Upto
  <2>2. CASE batch' = outbound BY <1>1, <2>2 DEF TxInv, Rising, SentBefore, Upto
  <2> QED BY <2>1, <2>2
<1> QED BY <1>1, <1>2, <1>3 DEF TxInv, SentInOrder

\* A send that is over puts its batch behind what was sent before.
LEMMA SendAppends ==
  ASSUME TxInv, Phases, SendReturns
  PROVE  /\ batch' = << >> /\ UNCHANGED <<outbound, writer, written>>
         /\ pc' \in {"loop", "close"}
         /\ sent' \in Seq([item : TxItem, during : 1 .. MaxSessions])
         /\ Len(sent) \in Nat /\ DOMAIN sent = 1 .. Len(sent)
         /\ Len(batch) \in Nat /\ DOMAIN batch = 1 .. Len(batch)
         /\ DOMAIN sent' = 1 .. Len(sent) + Len(batch)
         /\ \A i \in 1 .. Len(sent) : sent'[i] = sent[i]
         /\ \A i \in DOMAIN batch : sent'[Len(sent) + i].item = batch[i]
         /\ \A i \in DOMAIN sent' :
              \/ i \in DOMAIN sent /\ sent'[i].item.n = sent[i].item.n
              \/ i - Len(sent) \in DOMAIN batch /\ sent'[i].item.n = batch[i - Len(sent)].n
                 /\ i > Len(sent)
<1> DEFINE during == [i \in DOMAIN batch |-> [item |-> batch[i], during |-> session]]
           S == [item : TxItem, during : 1 .. MaxSessions]
<1>1. /\ sent' = sent \o during /\ batch' = << >> /\ UNCHANGED <<outbound, writer, written>>
      /\ pc' \in {"loop", "close"} /\ pc \in {"send", "flush"}
  BY DEF SendReturns, Goto
<1>2. session \in 1 .. MaxSessions BY <1>1 DEF Phases, InSession
<1>3. Len(batch) \in Nat /\ DOMAIN batch = 1 .. Len(batch) /\ \A i \in DOMAIN batch : batch[i] \in TxItem
  BY DEF TxInv
<1>4. during \in Seq(S) /\ Len(during) = Len(batch) /\ DOMAIN during = DOMAIN batch
  <2>1. \A i \in 1 .. Len(batch) : [item |-> batch[i], during |-> session] \in S BY <1>2, <1>3
  <2> HIDE DEF S
  <2>2. during \in [1 .. Len(batch) -> S] BY <1>3, <2>1
  <2> QED BY <1>3, <2>2
<1>5. sent \in Seq(S) BY DEF TxInv
<1>6. /\ sent' \in Seq(S) /\ Len(sent') = Len(sent) + Len(batch)
      /\ \A i \in 1 .. Len(sent') :
           sent'[i] = IF i <= Len(sent) THEN sent[i] ELSE during[i - Len(sent)]
  <2> HIDE DEF S, during
  <2> QED BY <1>1, <1>4, <1>5, ConcatProperties
<1>7. /\ Len(sent) \in Nat /\ DOMAIN sent = 1 .. Len(sent)
      /\ DOMAIN sent' = 1 .. Len(sent) + Len(batch)
  <2> HIDE DEF S, during
  <2> QED BY <1>5, <1>6
<1>8. \A i \in DOMAIN sent' :
        \/ i \in DOMAIN sent /\ sent'[i].item.n = sent[i].item.n
        \/ i - Len(sent) \in DOMAIN batch /\ sent'[i].item.n = batch[i - Len(sent)].n
           /\ i > Len(sent)
  <2> SUFFICES ASSUME NEW i \in DOMAIN sent'
               PROVE  \/ i \in DOMAIN sent /\ sent'[i].item.n = sent[i].item.n
                      \/ i - Len(sent) \in DOMAIN batch /\ sent'[i].item.n = batch[i - Len(sent)].n
                         /\ i > Len(sent)
    OBVIOUS
  <2>0. i \in Nat /\ i >= 1 /\ i <= Len(sent) + Len(batch) BY <1>3, <1>7
  <2>1. CASE i <= Len(sent)
    <3>1. i \in 1 .. Len(sent) /\ i \in 1 .. Len(sent') BY <1>3, <1>6, <1>7, <2>0, <2>1
    <3>2. sent'[i] = sent[i]
      <4> HIDE DEF during
      <4> QED BY <1>6, <2>1, <3>1
    <3> QED BY <1>7, <3>1, <3>2
  <2>2. CASE i > Len(sent)
    <3>1. i - Len(sent) \in DOMAIN batch BY <1>3, <1>7, <2>0, <2>2
    <3>2. sent'[i] = during[i - Len(sent)]
      <4> HIDE DEF during
      <4> QED BY <1>6, <1>7, <2>0, <2>2
    <3>3. during[i - Len(sent)].item = batch[i - Len(sent)] BY <3>1
    <3> QED BY <2>2, <3>1, <3>2, <3>3
  <2> QED BY <1>7, <2>0, <2>1, <2>2
<1>9. \A i \in 1 .. Len(sent) : sent'[i] = sent[i]
  <2> HIDE DEF during
  <2> QED BY <1>3, <1>6, <1>7
<1>10. ASSUME NEW i \in DOMAIN batch PROVE sent'[Len(sent) + i].item = batch[i]
  <2>1. i \in 1 .. Len(batch) BY <1>3, <1>10
  <2>2. Len(sent) + i \in 1 .. Len(sent') /\ ~(Len(sent) + i <= Len(sent))
        /\ (Len(sent) + i) - Len(sent) = i
    BY <1>3, <1>6, <1>7, <2>1
  <2>3. sent'[Len(sent) + i] = during[i]
    <3> HIDE DEF during
    <3> QED BY <1>6, <2>2
  <2> QED BY <1>10, <2>3
<1> QED BY <1>1, <1>3, <1>6, <1>7, <1>8, <1>9, <1>10

\* The numbering survives a send that is over.
LEMMA TxSent == ASSUME TxInv, Phases, SendReturns PROVE TxInv'
<1>1. batch' = << >> /\ UNCHANGED <<outbound, writer, written>> BY SendAppends
<1>6. /\ sent' \in Seq([item : TxItem, during : 1 .. MaxSessions])
      /\ \A i \in 1 .. Len(sent) : sent'[i] = sent[i]
  BY SendAppends
<1>7. /\ Len(sent) \in Nat /\ DOMAIN sent = 1 .. Len(sent)
      /\ Len(batch) \in Nat /\ DOMAIN batch = 1 .. Len(batch)
      /\ DOMAIN sent' = 1 .. Len(sent) + Len(batch)
  BY SendAppends
<1>8. \A i \in DOMAIN sent' :
        \/ i \in DOMAIN sent /\ sent'[i].item.n = sent[i].item.n
        \/ i - Len(sent) \in DOMAIN batch /\ sent'[i].item.n = batch[i - Len(sent)].n
           /\ i > Len(sent)
  BY SendAppends
<1>9. SentInOrder'
  <2> SUFFICES ASSUME NEW i \in DOMAIN sent', NEW j \in DOMAIN sent', i < j
               PROVE  sent'[i].item.n < sent'[j].item.n
    BY DEF SentInOrder
  <2>0. i \in Nat /\ j \in Nat BY <1>7
  <2>1. CASE i \in DOMAIN sent /\ j \in DOMAIN sent
    <3>1. sent'[i] = sent[i] /\ sent'[j] = sent[j] BY <1>6, <1>7, <2>1
    <3>2. sent[i].item.n < sent[j].item.n BY <2>1 DEF TxInv, SentInOrder
    <3> QED BY <3>1, <3>2
  <2>2. CASE i \in DOMAIN sent /\ j > Len(sent)
    <3>1. j - Len(sent) \in DOMAIN batch /\ sent'[j].item.n = batch[j - Len(sent)].n
      BY <1>7, <1>8, <2>2
    <3>2. sent'[i] = sent[i] BY <1>6, <1>7, <2>2
    <3> QED BY <2>2, <3>1, <3>2 DEF TxInv, SentBefore
  <2>3. CASE i > Len(sent) /\ j > Len(sent)
    <3>1. /\ i - Len(sent) \in DOMAIN batch /\ sent'[i].item.n = batch[i - Len(sent)].n
          /\ j - Len(sent) \in DOMAIN batch /\ sent'[j].item.n = batch[j - Len(sent)].n
      BY <1>7, <1>8, <2>3
    <3>2. i - Len(sent) < j - Len(sent) BY <1>7, <2>0
    <3> QED BY <3>1, <3>2 DEF TxInv, Rising
  <2> QED BY <1>7, <2>0, <2>1, <2>2, <2>3
<1>10. SentBefore(outbound)'
  <2> SUFFICES ASSUME NEW i \in DOMAIN sent', NEW j \in DOMAIN outbound
               PROVE  sent'[i].item.n < outbound[j].n
    BY <1>1 DEF SentBefore
  <2> QED BY <1>8 DEF TxInv, SentBefore, Before
<1>11. \A i \in DOMAIN sent' : sent'[i].item.n <= written' BY <1>1, <1>8 DEF TxInv, Upto
<1>12. batch' \in Seq(TxItem) /\ Rising(batch)' /\ Before(batch, outbound)' /\ SentBefore(batch)'
       /\ Upto(batch, written)' /\ outbound' \in Seq(TxItem) /\ Rising(outbound)'
       /\ Upto(outbound, written)'
  BY <1>1 DEF TxInv, Rising, Before, SentBefore, Upto
<1> QED BY <1>1, <1>6, <1>9, <1>10, <1>11, <1>12 DEF TxInv

\* A write puts the next number at the end.
LEMMA TxWritten == ASSUME TxInv, PutWrite PROVE TxInv'
<1> DEFINE item == [session |-> writer, n |-> written + 1]
<1>1. /\ outbound' = Append(outbound, item) /\ written' = written + 1 /\ writer' = 0
      /\ UNCHANGED <<batch, sent, pc>> /\ Len(outbound) < OutCap /\ writer # 0
  BY DEF PutWrite
<1>2. written \in Nat /\ written + 1 \in 1 .. MaxWrites /\ item \in TxItem
  BY <1>1, ServiceAssumption DEF TxInv, TxItem, Item
<1>3. /\ outbound' \in Seq(TxItem) /\ Len(outbound') = Len(outbound) + 1
      /\ Len(outbound) \in Nat /\ DOMAIN outbound = 1 .. Len(outbound)
      /\ DOMAIN outbound' = 1 .. Len(outbound) + 1
      /\ \A i \in 1 .. Len(outbound) : outbound'[i] = outbound[i]
      /\ outbound'[Len(outbound) + 1].n = written + 1
  BY <1>1, <1>2 DEF TxInv
<1>4. Len(outbound') <= OutCap BY <1>1, <1>3, ServiceAssumption
<1>5. \A i \in DOMAIN outbound' :
        \/ i \in DOMAIN outbound /\ outbound'[i] = outbound[i]
        \/ i = Len(outbound) + 1 /\ outbound'[i].n = written + 1
  BY <1>3
<1> HIDE DEF item
<1>6. /\ \A i \in DOMAIN outbound : outbound[i].n <= written
      /\ \A i \in DOMAIN batch : batch[i].n <= written
      /\ \A i \in DOMAIN sent : sent[i].item.n <= written
  BY DEF TxInv, Upto
<1>7. /\ \A i \in DOMAIN outbound : outbound[i].n \in Nat
      /\ \A i \in DOMAIN batch : batch[i].n \in Nat
      /\ \A i \in DOMAIN sent : sent[i].item.n \in Nat
  <2>1. \A x \in TxItem : x.n \in Nat BY DEF TxItem, Item
  <2>2. \A i \in DOMAIN outbound : outbound[i] \in TxItem BY DEF TxInv
  <2>3. \A i \in DOMAIN batch : batch[i] \in TxItem BY DEF TxInv
  <2>4. \A i \in DOMAIN sent : sent[i].item \in TxItem
    <3> DEFINE S == [item : TxItem, during : 1 .. MaxSessions]
    <3>1. sent \in Seq(S) BY DEF TxInv
    <3>2. \A x \in S : x.item \in TxItem OBVIOUS
    <3> HIDE DEF S
    <3> QED BY <3>1, <3>2
  <2> QED BY <2>1, <2>2, <2>3, <2>4
<1>8. Rising(outbound)'
  <2> SUFFICES ASSUME NEW i \in DOMAIN outbound', NEW j \in DOMAIN outbound', i < j
               PROVE  outbound'[i].n < outbound'[j].n
    BY DEF Rising
  <2>1. i \in DOMAIN outbound /\ outbound'[i] = outbound[i] BY <1>3
  <2>2. CASE j \in DOMAIN outbound BY <1>3, <2>1, <2>2 DEF TxInv, Rising
  <2>3. CASE j = Len(outbound) + 1 BY <1>2, <1>3, <1>6, <1>7, <2>1, <2>3
  <2> QED BY <1>5, <2>2, <2>3
<1>9. Before(batch, outbound)' /\ SentBefore(outbound)'
  <2>1. ASSUME NEW i \in DOMAIN batch, NEW j \in DOMAIN outbound' PROVE batch[i].n < outbound'[j].n
    BY <1>2, <1>5, <1>6, <1>7, <2>1 DEF TxInv, Before
  <2>2. ASSUME NEW i \in DOMAIN sent, NEW j \in DOMAIN outbound'
        PROVE  sent[i].item.n < outbound'[j].n
    BY <1>2, <1>5, <1>6, <1>7, <2>2 DEF TxInv, SentBefore
  <2> QED BY <1>1, <2>1, <2>2 DEF Before, SentBefore
<1>10. Upto(outbound, written)' /\ Upto(batch, written)'
       /\ \A i \in DOMAIN sent' : sent'[i].item.n <= written'
  <2>1. \A i \in DOMAIN outbound' : outbound'[i].n <= written + 1
    BY <1>2, <1>5, <1>6, <1>7
  <2>2. \A i \in DOMAIN batch : batch[i].n <= written + 1 BY <1>2, <1>6, <1>7
  <2>3. \A i \in DOMAIN sent : sent[i].item.n <= written + 1 BY <1>2, <1>6, <1>7
  <2> QED BY <1>1, <2>1, <2>2, <2>3 DEF Upto
<1>11. Rising(batch)' /\ SentInOrder' /\ SentBefore(batch)'
  BY <1>1 DEF TxInv, Rising, SentInOrder, SentBefore
<1>12. 0 \in 0 .. MaxSessions BY ServiceAssumption
<1> QED BY <1>1, <1>2, <1>3, <1>4, <1>8, <1>9, <1>10, <1>11, <1>12 DEF TxInv

LEMMA TxKept == TxInv /\ Phases /\ [Next]_vars => TxInv'
<1> SUFFICES ASSUME TxInv, Phases, [Next]_vars PROVE TxInv' OBVIOUS
<1> USE DEF Sending
<1>0. ASSUME UNCHANGED tx, pc' \in Sending \/ pc \notin Sending PROVE TxInv'
  <2>1. UNCHANGED <<outbound, batch, sent, writer, written>> BY <1>0 DEF tx
  <2>2. pc' \notin Sending => batch' = << >> BY <1>0, <2>1 DEF TxInv
  <2> QED
    BY <2>1, <2>2 DEF TxInv, Rising, SentInOrder, Before, SentBefore, Upto
<1>1. CASE Application
  <2>1. pc' = pc BY <1>1, ApplicationAside
  <2>2. CASE PutWrite BY <2>2, TxWritten
  <2>3. CASE CheckWrite
    <3>1. /\ writer' = session /\ written < MaxWrites /\ up
          /\ UNCHANGED <<pc, outbound, batch, sent, written>>
      BY <2>3 DEF CheckWrite
    <3>2. writer' \in 0 .. MaxSessions BY <3>1 DEF Phases
    <3> QED BY <3>1, <3>2 DEF TxInv, Rising, SentInOrder, Before, SentBefore, Upto
  <2>4. CASE (\E c \in Commands : Command(c)) \/ Stop \/ Read
    <3>1. UNCHANGED tx BY <2>4 DEF Command, Stop, Read
    <3> QED BY <1>0, <2>1, <3>1
  <2> QED BY <1>1, <2>2, <2>3, <2>4 DEF Application
<1>2. CASE TakeCommand
  <2>1. pc \in {"drain", "loop"} /\ batch = << >> BY <1>2, CommandMoves DEF TxInv
  <2>2. CASE TakeConnect \/ TakeStop \/ \E on \in BOOLEAN : TakeListen(on)
    <3>1. UNCHANGED tx BY <2>2 DEF TakeConnect, TakeStop, TakeListen
    <3> QED BY <1>0, <2>1, <3>1
  <2>3. CASE TakeDisconnect
    <3>1. EmptyOutbound /\ (batch' = << >> \/ batch' = outbound) BY <2>3 DEF TakeDisconnect
    <3>2. pc' \notin Sending => batch' = << >> BY <2>3 DEF TakeDisconnect
    <3> QED BY <3>1, <3>2, TxEmptied
  <2>4. CASE TakeAbort
    <3>1. EmptyOutbound /\ batch' = << >> BY <2>4 DEF TakeAbort, DiscardOutbound
    <3> QED BY <3>1, TxEmptied
  <2> QED BY <1>2, <2>2, <2>3, <2>4, CommandMoves
<1>3. CASE Serve
  <2>1. batch = << >> /\ pc \notin Sending BY <1>3 DEF Serve, Draining, TxInv
  <2>2. CASE pc' = "send" /\ batch' = outbound /\ EmptyOutbound
    BY <2>1, <2>2, TxEmptied
  <2>3. CASE UNCHANGED tx BY <1>0, <2>1, <2>3
  <2> QED BY <1>3, <2>2, <2>3 DEF Serve
<1>4. CASE EndSession
  <2>1. EmptyOutbound /\ batch' = << >> BY <1>4 DEF EndSession, DiscardOutbound
  <2> QED BY <2>1, TxEmptied
<1>5. CASE LeaveLoop \/ IdleGet \/ PutBack \/ IdleTimeout \/ ConnectReturns \/ ListenReturns
  <2>1. UNCHANGED tx /\ pc \notin Sending
    BY <1>5 DEF LeaveLoop, IdleGet, PutBack, IdleTimeout, ConnectReturns, ListenReturns, Goto
  <2> QED BY <1>0, <2>1
<1>6. CASE Accepted \/ Close \/ RecvReturns \/ Received \/ Failed \/ Finally
  <2>1. UNCHANGED tx /\ pc \notin Sending
    BY <1>6 DEF Accepted, Close, RecvReturns, Received, Failed, Finally, Goto
  <2> QED BY <1>0, <2>1
<1>7. CASE Hear \/ PutEarly
  <2>1. UNCHANGED tx /\ (pc' \in Sending \/ pc \notin Sending) BY <1>7 DEF Hear, PutEarly, Goto
  <2> QED BY <1>0, <2>1
<1>8. CASE SendReturns BY <1>8, TxSent
<1>9. CASE SendFails
  <2>1. batch' = << >> /\ UNCHANGED <<outbound, sent, writer, written>> BY <1>9 DEF SendFails
  <2> QED BY <2>1 DEF TxInv, Rising, SentInOrder, Before, SentBefore, Upto
<1>10. CASE UNCHANGED vars
  <2>1. UNCHANGED tx /\ pc' = pc BY <1>10 DEF vars
  <2> QED BY <1>0, <2>1
<1> QED
  BY <1>1, <1>2, <1>3, <1>4, <1>5, <1>6, <1>7, <1>8, <1>9, <1>10 DEF Next, Worker

----------------------------------------------------------------------------
ServiceInv == Phases /\ RxInv /\ EarlyInv /\ StreamInv /\ CmdInv /\ TxInv

LEMMA InitService == Init => ServiceInv
<1> SUFFICES ASSUME Init PROVE ServiceInv OBVIOUS
<1>1. 0 \in 0 .. MaxSessions /\ 0 \in 0 .. MaxReceives /\ 0 \in 0 .. MaxCommands
      /\ 0 \in 0 .. MaxWrites /\ 0 <= InCap /\ 0 <= OutCap
  BY ServiceAssumption
<1>2. Phases BY <1>1 DEF Init, Phases, Where, InSession
<1>3. RxInv BY <1>1 DEF Init, RxInv, Putting, Mine
<1>4. CmdInv BY <1>1 DEF Init, CmdInv
<1>5. TxInv
  BY <1>1 DEF Init, TxInv, Sending, Rising, SentInOrder, Before, SentBefore, Upto
<1>6. EarlyInv BY DEF Init, EarlyInv
<1>7. StreamInv
  <2>1. Stream = << >> BY DEF Init, Stream
  <2> QED BY <2>1 DEF Init, StreamInv, StreamExact, Hearing
<1> QED BY <1>2, <1>3, <1>4, <1>5, <1>6, <1>7 DEF ServiceInv

LEMMA ServiceCorrect == Spec => []ServiceInv
<1>1. ServiceInv /\ [Next]_vars => ServiceInv'
  BY PhasesKept, RxKept, EarlyKept, StreamKept, CmdKept, TxKept DEF ServiceInv
<1> QED BY <1>1, InitService, PTL DEF Spec

\* The types, and the bounds of both queues.
THEOREM ServiceTypeCorrect == Spec => []TypeOK
<1>1. ServiceInv => TypeOK
  <2> SUFFICES ASSUME ServiceInv PROVE TypeOK OBVIOUS
  <2>1. held \in Item(MaxReceives) \cup {Nothing} BY DEF ServiceInv, RxInv, RxItem
  <2>2. taken \in Commands \cup {"stop", "none"} BY DEF ServiceInv, CmdInv
  <2> QED
    BY <2>1, <2>2 DEF ServiceInv, Phases, Where, RxInv, RxItem, CmdInv, TxInv, TxItem, TypeOK
<1> QED BY <1>1, ServiceCorrect, PTL

\* A reader of this session is never handed a byte of an earlier one
\* (_begin_session).
THEOREM AlwaysInboundOfThisSession == Spec => []InboundOfThisSession
<1>1. ServiceInv => InboundOfThisSession BY DEF ServiceInv, RxInv, Mine, InboundOfThisSession
<1> QED BY <1>1, ServiceCorrect, PTL

\* Every message of this session comes to the reader exactly once, in order,
\* though it comes up twice (_on_link_event, _delivered_early).
THEOREM AlwaysStreamExact == Spec => []StreamExact
<1>1. ServiceInv => StreamExact BY DEF ServiceInv, StreamInv
<1> QED BY <1>1, ServiceCorrect, PTL

\* Items go out in the order they were written, each at most once
\* (_service_connected, _flush_outbound).
THEOREM AlwaysSentInOrder == Spec => []SentInOrder
<1>1. ServiceInv => SentInOrder BY DEF ServiceInv, TxInv
<1> QED BY <1>1, ServiceCorrect, PTL

\* While the session is up an accepted item leaves only by being sent, by an
\* abort or by a failed send (_flush_outbound, _end_session).
THEOREM AlwaysAcceptedIsSent == Spec => AcceptedIsSent
<1> DEFINE Leaves(n) ==
      \/ n \in Unsent' \cup {sent'[i].item.n : i \in DOMAIN sent'}
      \/ ~up'
      \/ pc' \in {"failed", "finally"}
      \/ Head(commands) = "abort" /\ commands' = Tail(commands)
<1>1. ASSUME ServiceInv, Next, NEW n \in Unsent PROVE Leaves(n)
  <2>0. Phases /\ TxInv BY <1>1 DEF ServiceInv
  <2>1. CASE UNCHANGED <<outbound, batch>> BY <1>1, <2>1 DEF Unsent
  <2>2. CASE PutWrite
    <3>1. outbound' = Append(outbound, [session |-> writer, n |-> written + 1]) /\ batch' = batch
      BY <2>2 DEF PutWrite
    <3>2. \A i \in DOMAIN outbound : i \in DOMAIN outbound' /\ outbound'[i] = outbound[i]
      BY <2>0, <3>1 DEF TxInv
    <3> QED BY <1>1, <3>1, <3>2 DEF Unsent
  <2>3. CASE batch = << >> /\ batch' = outbound BY <1>1, <2>3 DEF Unsent
  <2>4. CASE SendReturns
    <3>1. /\ outbound' = outbound /\ Len(sent) \in Nat /\ Len(batch) \in Nat
          /\ DOMAIN batch = 1 .. Len(batch) /\ DOMAIN sent' = 1 .. Len(sent) + Len(batch)
          /\ \A i \in DOMAIN batch : sent'[Len(sent) + i].item = batch[i]
      BY <2>0, <2>4, SendAppends
    <3>2. CASE \E i \in DOMAIN outbound : n = outbound[i].n BY <3>1, <3>2 DEF Unsent
    <3>3. CASE \E i \in DOMAIN batch : n = batch[i].n
      <4>1. PICK i \in DOMAIN batch : n = batch[i].n BY <3>3
      <4>2. Len(sent) + i \in DOMAIN sent' BY <3>1
      <4> QED BY <3>1, <4>1, <4>2
    <3> QED BY <1>1, <3>2, <3>3 DEF Unsent
  <2>5. CASE SendFails
    <3>1. pc' \in {"failed", "finally"} BY <2>5 DEF SendFails, Goto
    <3> QED BY <3>1
  <2>6. CASE EndSession
    <3>1. pc = "end" /\ UNCHANGED link BY <2>6 DEF EndSession, Goto
    <3>2. ~up' BY <2>0, <3>1 DEF Phases, link
    <3> QED BY <3>2
  <2>7. CASE TakeCommand
    <3>0. batch = << >>
      <4>1. pc \in {"drain", "loop"} BY <2>7, CommandMoves
      <4> QED BY <2>0, <4>1 DEF TxInv, Sending
    <3>1. CASE TakeConnect \/ TakeStop \/ \E on \in BOOLEAN : TakeListen(on)
      <4>1. UNCHANGED tx BY <3>1 DEF TakeConnect, TakeStop, TakeListen
      <4> QED BY <2>1, <4>1 DEF tx
    <3>2. CASE TakeDisconnect
      <4>1. CASE up BY <2>3, <3>0, <3>2, <4>1 DEF TakeDisconnect
      <4>2. CASE ~up BY <3>2, <4>2 DEF TakeDisconnect, link
      <4> QED BY <4>1, <4>2
    <3>3. CASE Head(commands) = "abort"
      <4>1. commands' = Tail(commands) BY <2>7, CommandMoves
      <4> QED BY <3>3, <4>1
    <3> QED BY <2>7, <3>1, <3>2, <3>3 DEF TakeCommand
  <2>8. CASE Serve
    <3>1. pc \notin Sending BY <2>8 DEF Serve, Draining, Sending
    <3>2. batch = << >> BY <2>0, <3>1 DEF TxInv
    <3>3. batch' = outbound \/ UNCHANGED tx BY <2>8 DEF Serve
    <3> QED BY <2>1, <2>3, <3>2, <3>3 DEF tx
  <2>9. CASE (\E c \in Commands : Command(c)) \/ Stop \/ CheckWrite \/ Read
    BY <2>1, <2>9 DEF Command, Stop, CheckWrite, Read, tx
  <2>10. CASE LeaveLoop \/ IdleGet \/ PutBack \/ IdleTimeout \/ ConnectReturns \/ ListenReturns
    BY <2>1, <2>10 DEF LeaveLoop, IdleGet, PutBack, IdleTimeout, ConnectReturns, ListenReturns, tx
  <2>11. CASE Accepted \/ Close \/ Hear \/ PutEarly \/ RecvReturns \/ Received \/ Failed \/ Finally
    <3>1. UNCHANGED tx
      BY <2>11 DEF Accepted, Close, Hear, PutEarly, RecvReturns, Received, Failed, Finally
    <3> QED BY <2>1, <3>1 DEF tx
  <2> QED
    BY <1>1, <2>2, <2>4, <2>5, <2>6, <2>7, <2>8, <2>9, <2>10, <2>11 DEF Next, Application, Worker
<1>2. ServiceInv /\ [Next]_vars
        => [\A n \in Unsent :
              \/ n \in Unsent' \cup {sent'[i].item.n : i \in DOMAIN sent'}
              \/ ~up'
              \/ pc' \in {"failed", "finally"}
              \/ Head(commands) = "abort" /\ commands' = Tail(commands)]_vars
  BY <1>1
<1> QED BY <1>2, ServiceCorrect, PTL DEF Spec, AcceptedIsSent
=============================================================================
