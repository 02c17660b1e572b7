-------------------------------- MODULE Link --------------------------------
(***************************************************************************)
(* Two stations, each one whale.link.Link driven by the single worker      *)
(* thread of its ModemService, over a half-duplex radio path that loses    *)
(* frames and keeps their order.  The module covers the whole life of a    *)
(* session: the CONNECT handshake and its repair, the floor (ISS / IRS),   *)
(* stop-and-wait DATA, DISC, and the inactivity backstop.                  *)
(*                                                                         *)
(* Every blocking call of Link is a value of the station's field "call";   *)
(* while it is in progress the worker reads _rx_packets (here inbox)       *)
(* through _wait_packet and keeps only the types that call wants.  Keying  *)
(* a frame belongs to the step that decides to key it: the frame is lost   *)
(* or joins the other station's inbox.  Modes, chunk sizes and re-cutting  *)
(* are Arq's subject; here a message is ChunksPerMessage chunks.           *)
(***************************************************************************)
EXTENDS Integers, Sequences

CONSTANTS Stations,          \* the two stations
          ChunksPerMessage,  \* DATA frames of one message
          MaxRetries,        \* ChannelPolicy.max_retries
          DiscRetries,       \* the default of Link.disconnect(retries=3)
          SeqModulo,         \* link_protocol.SEQ_MODULO
          MaxSessions,       \* bound: calls placed in a behaviour
          MaxMessages,       \* bound: messages each application sends
          MaxCrashes,        \* bound: process restarts
          InboxCap           \* bound: frames waiting for one station

ASSUME LinkAssumption ==
  /\ \E s \in Stations : \E t \in Stations \ {s} : Stations = {s, t}
  /\ ChunksPerMessage \in Nat \ {0}
  /\ MaxRetries \in Nat \ {0} /\ DiscRetries \in Nat \ {0}
  /\ SeqModulo \in Nat /\ SeqModulo >= 2
  /\ MaxSessions \in Nat /\ MaxMessages \in Nat /\ MaxCrashes \in Nat
  /\ InboxCap \in Nat \ {0}

VARIABLES
  stn,        \* the state of each station's Link
  inbox,      \* frames on their way to, or queued at, each station
  sessions,   \* session identifiers drawn so far by connect()
  crashes,    \* restarts so far
  delivered,  \* messages each application was given (RX_MESSAGE), in order
  returned    \* messages each application knows delivered (send_message returned)

vars == <<stn, inbox, sessions, crashes, delivered, returned>>

Peer(s) == CHOOSE t \in Stations : t # s

NoSession == 0      \* link_protocol.SESSION_ID_NONE

\* Link.__init__
Fresh == [state   |-> "IDLE",  \* Link.state
          role    |-> "none",  \* Link.role
          session |-> NoSession,
          ackBody |-> NoSession,  \* the CONNECT_ACK kept for re-answering, by its session
          call    |-> "poll",  \* the blocking call the worker is in
          attempt |-> 0,       \* which keying of that call this is
          budget  |-> 0,       \* how many it may make
          txSeq   |-> 0, expect |-> 0,
          partial |-> << >>,   \* _partial_rx_buf
          part    |-> 0]       \* chunk of the current message in hand

Init ==
  /\ stn = [s \in Stations |-> Fresh]
  /\ inbox = [s \in Stations |-> << >>]
  /\ sessions = 0
  /\ crashes = 0
  /\ delivered = [s \in Stations |-> << >>]
  /\ returned = [s \in Stations |-> << >>]

----------------------------------------------------------------------------
\* What a wait inside each call keeps; _wait_packet drops every other type.
\* "poll" is the worker between calls: recv_message when CONNECTED.
Wanted == [listen |-> {"CONNECT"},
           call   |-> {"CONNECT_ACK"},
           poll   |-> {"DATA", "DISC", "FLOOR_REQ"},
           floor  |-> {"FLOOR_GRANT", "DATA", "DISC"},
           send   |-> {"DATA_ACK", "DISC", "FLOOR_REQ"},
           disc   |-> {"DISC_ACK", "DISC"}]

Calls == DOMAIN Wanted

Reading(s) == stn[s].call # "poll" \/ stn[s].state = "CONNECTED"

Hears(s, type) == /\ Reading(s)
                  /\ inbox[s] # << >>
                  /\ Head(inbox[s]).type = type

Control(type) == [type |-> type]

\* The frames of one step that reach the peer: any of them may be lost.
Survivors(frames) == {<< >>, frames} \cup {<<frames[i]>> : i \in DOMAIN frames}

\* Station s moves to record r, its own queue becomes rest, frames are keyed.
Step(s, r, rest, frames) ==
  /\ stn' = [stn EXCEPT ![s] = r]
  /\ \E got \in Survivors(frames) :
       /\ Len(inbox[Peer(s)]) + Len(got) <= InboxCap
       /\ inbox' = [inbox EXCEPT ![s] = rest, ![Peer(s)] = @ \o got]

Rest(s) == Tail(inbox[s])

----------------------------------------------------------------------------
\* Mutant of ResetSequence: the receive counter survives the session.
ResetSequenceForgetsExpect(r) == [r EXCEPT !.partial = << >>, !.txSeq = 0]

\* _reset_sequence_state
ResetSequence(r) == [r EXCEPT !.partial = << >>, !.txSeq = 0, !.expect = 0]

\* state = IDLE and _forget_session, and the call is over.
Closed(r) == [r EXCEPT !.state = "IDLE", !.session = NoSession, !.ackBody = NoSession,
                       !.call = "poll"]

\* disconnect(retries) on a CONNECTED station: the first DISC goes out.
Closing(r, retries) == [r EXCEPT !.call = "disc", !.attempt = 1, !.budget = retries]

\* ModemService._run on LinkError: disconnect(retries=1).
Failed(r) == Closing(r, 1)

Unchanged == UNCHANGED <<sessions, crashes, delivered, returned>>

----------------------------------------------------------------------------
(* Handshake *)

Connect(id) == [type |-> "CONNECT", session |-> id]
ConnectAck(id) == [type |-> "CONNECT_ACK", session |-> id]

\* connect(): the identifier is taken to be one not in use (see README).
\* A CONNECT command is accepted in any state.
PlaceCall(s) ==
  /\ stn[s].call = "poll"
  /\ sessions < MaxSessions
  /\ sessions' = sessions + 1
  /\ Step(s, [stn[s] EXCEPT !.state = "CONNECTING", !.session = sessions + 1,
                            !.call = "call", !.attempt = 1],
          << >>, <<Connect(sessions + 1)>>)
  /\ UNCHANGED <<crashes, delivered, returned>>

\* The attempt is spent: key CONNECT again, or give up with one DISC.
NextCallAttempt(s, rest) ==
  LET r == stn[s]
  IN \/ /\ r.attempt < MaxRetries
        /\ Step(s, [r EXCEPT !.attempt = @ + 1], rest, <<Connect(r.session)>>)
     \/ /\ r.attempt = MaxRetries
        /\ Step(s, [r EXCEPT !.state = "IDLE", !.session = NoSession, !.call = "poll"],
                rest, <<Control("DISC")>>)

CallTimeout(s) ==
  /\ stn[s].call = "call"
  /\ NextCallAttempt(s, inbox[s])
  /\ Unchanged

\* Mutant of HearConnectAck: an acknowledgement of any call counts.
HearAnyConnectAck(s) ==
  /\ stn[s].call = "call" /\ Hears(s, "CONNECT_ACK")
  /\ Step(s, ResetSequence([stn[s] EXCEPT !.state = "CONNECTED", !.role = "ISS",
                                          !.call = "poll"]),
          Rest(s), << >>)
  /\ Unchanged

HearConnectAck(s) ==
  /\ stn[s].call = "call" /\ Hears(s, "CONNECT_ACK")
  /\ \/ /\ Head(inbox[s]).session = stn[s].session
        /\ Step(s, ResetSequence([stn[s] EXCEPT !.state = "CONNECTED", !.role = "ISS",
                                                !.call = "poll"]),
                Rest(s), << >>)
     \/ /\ Head(inbox[s]).session # stn[s].session
        /\ NextCallAttempt(s, Rest(s))
  /\ Unchanged

\* listen_once(): whatever was queued is drained first.
Listen(s) ==
  /\ stn[s].call = "poll"
  /\ stn[s].state # "CONNECTED"
  /\ Step(s, [stn[s] EXCEPT !.state = "LISTENING", !.call = "listen"], << >>, << >>)
  /\ Unchanged

ListenTimeout(s) ==
  /\ stn[s].call = "listen"
  /\ Step(s, [stn[s] EXCEPT !.call = "poll"], inbox[s], << >>)
  /\ Unchanged

AcceptCall(s) ==
  /\ stn[s].call = "listen" /\ Hears(s, "CONNECT")
  /\ LET id == Head(inbox[s]).session
     IN Step(s, ResetSequence([stn[s] EXCEPT !.state = "CONNECTED", !.role = "IRS",
                                             !.session = id, !.ackBody = id,
                                             !.call = "poll"]),
             Rest(s), <<ConnectAck(id)>>)
  /\ Unchanged

\* _answer_duplicate_connect
Reanswers(r, f) ==
  /\ f.type = "CONNECT"
  /\ r.state \in {"LISTENING", "CONNECTED"}
  /\ r.ackBody # NoSession
  /\ f.session = r.session

\* _wait_packet on a type nobody is waiting for: a retried CONNECT of this
\* very session is answered again, anything else is dropped.
HearUnwanted(s) ==
  /\ Reading(s)
  /\ inbox[s] # << >>
  /\ Head(inbox[s]).type \notin Wanted[stn[s].call]
  /\ Step(s, stn[s], Rest(s),
          IF Reanswers(stn[s], Head(inbox[s])) THEN <<ConnectAck(stn[s].ackBody)>> ELSE << >>)
  /\ Unchanged

----------------------------------------------------------------------------
(* Receiving DATA *)

\* Mutant of NextSeq: the sequence number never wraps.
NextSeqUnbounded(q) == q + 1

NextSeq(q) == (q + 1) % SeqModulo

\* Mutant of Received: a duplicate is taken like a new chunk.
ReceivedAgain(r, f) ==
  [r EXCEPT !.expect = NextSeq(f.seq),
            !.partial = IF f.eof THEN << >> ELSE Append(@, f.body)]

\* _handle_data: the station after frame f, and the DATA_ACK it keys.
Received(r, f) ==
  IF f.seq = r.expect
  THEN [r EXCEPT !.expect = NextSeq(f.seq),
                 !.partial = IF f.eof THEN << >> ELSE Append(@, f.body)]
  ELSE r

DataAck(r, f) == [type |-> "DATA_ACK", answered |-> f.seq, expects |-> Received(r, f).expect]

\* RX_MESSAGE: the reassembled message, with the session it was received in.
Deliver(s, f) ==
  delivered' = IF f.seq = stn[s].expect /\ f.eof
               THEN [delivered EXCEPT ![s] =
                       Append(@, [session |-> stn[s].session,
                                  chunks  |-> Append(stn[s].partial, f.body)])]
               ELSE delivered

RecvData(s) ==
  /\ stn[s].call = "poll" /\ Hears(s, "DATA")
  /\ LET f == Head(inbox[s])
     IN /\ Step(s, Received(stn[s], f), Rest(s), <<DataAck(stn[s], f)>>)
        /\ Deliver(s, f)
  /\ UNCHANGED <<sessions, crashes, returned>>

----------------------------------------------------------------------------
(* Floor *)

\* Mutant of GrantFloor: the granter keeps the floor too.
GrantFloorKeeping(s) ==
  /\ stn[s].call = "poll" /\ Hears(s, "FLOOR_REQ")
  /\ Step(s, stn[s], Rest(s), <<Control("FLOOR_GRANT")>>)
  /\ Unchanged

\* _handle_floor_req: handed over unconditionally.
GrantFloor(s) ==
  /\ stn[s].call = "poll" /\ Hears(s, "FLOOR_REQ")
  /\ Step(s, [stn[s] EXCEPT !.role = "IRS"], Rest(s), <<Control("FLOOR_GRANT")>>)
  /\ Unchanged

\* One turn of _acquire_floor's loop from attempt n: while a message is
\* part-way in nothing is requested.
Requesting(r, n) ==
  [r EXCEPT !.call = "floor", !.attempt = IF r.partial # << >> THEN n ELSE n + 1]

FloorFrames(r) == IF r.partial # << >> THEN << >> ELSE <<Control("FLOOR_REQ")>>

\* The DATA frame for the chunk in hand.
DataFrame(s, r) ==
  [type |-> "DATA", seq |-> r.txSeq, eof |-> r.part = ChunksPerMessage,
   body |-> [session |-> r.session, msg |-> Len(returned[s]) + 1, part |-> r.part]]

\* send_message's loop takes chunk n of the message.
Sending(r, n) == [r EXCEPT !.call = "send", !.part = n, !.attempt = 1]

\* send_message: straight to DATA with the floor, through _acquire_floor without.
SendMessage(s) ==
  LET r == stn[s]
  IN /\ r.call = "poll" /\ r.state = "CONNECTED"
     /\ Len(returned[s]) < MaxMessages
     /\ \/ /\ r.role = "ISS"
           /\ Step(s, Sending(r, 1), inbox[s], <<DataFrame(s, Sending(r, 1))>>)
        \/ /\ r.role # "ISS"
           /\ Step(s, Requesting(r, 0), inbox[s], FloorFrames(r))
     /\ Unchanged

TakeGrant(s) ==
  /\ stn[s].call = "floor" /\ Hears(s, "FLOOR_GRANT")
  /\ LET r == Sending([stn[s] EXCEPT !.role = "ISS"], 1)
     IN Step(s, r, Rest(s), <<DataFrame(s, r)>>)
  /\ Unchanged

\* The peer is still sending: take its frame, acknowledge it, start over.
TakeDataForFloor(s) ==
  /\ stn[s].call = "floor" /\ Hears(s, "DATA")
  /\ LET f == Head(inbox[s])
         r == Received(stn[s], f)
     IN /\ Step(s, Requesting(r, 0), Rest(s), <<DataAck(stn[s], f)>> \o FloorFrames(r))
        /\ Deliver(s, f)
  /\ UNCHANGED <<sessions, crashes, returned>>

FloorTimeout(s) ==
  LET r == stn[s]
  IN /\ r.call = "floor" /\ r.partial = << >>
     /\ \/ /\ r.attempt < MaxRetries
           /\ Step(s, Requesting(r, r.attempt), inbox[s], FloorFrames(r))
        \/ /\ r.attempt = MaxRetries
           /\ Step(s, Failed(r), inbox[s], <<Control("DISC")>>)
     /\ Unchanged

----------------------------------------------------------------------------
(* Sending DATA *)

\* Mutant of Accepts: any ACK counts.
AcceptsAnyAck(r, ack) == r.call = "send" /\ ack.type = "DATA_ACK"

\* _send_chunk_with_arq's test of an ACK (its mode byte is Arq's subject).
Accepts(r, ack) ==
  /\ ack.answered = r.txSeq
  /\ (ack.expects - r.txSeq) % SeqModulo = 1

\* The chunk is acknowledged: key the next one, or send_message returns.
HearDataAck(s) ==
  LET r    == stn[s]
      next == [r EXCEPT !.txSeq = NextSeq(@)]
  IN /\ r.call = "send" /\ Hears(s, "DATA_ACK")
     /\ \/ /\ ~Accepts(r, Head(inbox[s]))
           /\ Step(s, r, Rest(s), << >>)
           /\ UNCHANGED returned
        \/ /\ Accepts(r, Head(inbox[s])) /\ r.part < ChunksPerMessage
           /\ Step(s, Sending(next, r.part + 1), Rest(s),
                   <<DataFrame(s, Sending(next, r.part + 1))>>)
           /\ UNCHANGED returned
        \/ /\ Accepts(r, Head(inbox[s])) /\ r.part = ChunksPerMessage
           /\ Step(s, [next EXCEPT !.call = "poll"], Rest(s), << >>)
           /\ returned' = [returned EXCEPT ![s] = Append(@, r.session)]
     /\ UNCHANGED <<sessions, crashes, delivered>>

\* The attempt failed: key the same frame again, or LinkError.
NextDataAttempt(s, rest) ==
  LET r == stn[s]
  IN \/ /\ r.attempt < MaxRetries
        /\ Step(s, [r EXCEPT !.attempt = @ + 1], rest, <<DataFrame(s, r)>>)
     \/ /\ r.attempt = MaxRetries
        /\ Step(s, Failed(r), rest, <<Control("DISC")>>)

DataTimeout(s) ==
  /\ stn[s].call = "send"
  /\ NextDataAttempt(s, inbox[s])
  /\ Unchanged

\* A FLOOR_REQ while a chunk is unacknowledged ends the wait at once.
FloorReqWhileSending(s) ==
  /\ stn[s].call = "send" /\ Hears(s, "FLOOR_REQ")
  /\ NextDataAttempt(s, Rest(s))
  /\ Unchanged

----------------------------------------------------------------------------
(* Teardown *)

\* _handle_peer_disc, from any of the three calls that listen for DISC and
\* answer it.
PeerDisc(s) ==
  /\ stn[s].call \in {"poll", "floor", "send"} /\ Hears(s, "DISC")
  /\ Step(s, Closed(stn[s]), Rest(s), <<Control("DISC_ACK")>>)
  /\ Unchanged

\* disconnect()
Disconnect(s) ==
  /\ stn[s].call = "poll"
  /\ \/ /\ stn[s].state = "CONNECTED"
        /\ Step(s, Closing(stn[s], DiscRetries), inbox[s], <<Control("DISC")>>)
     \/ /\ stn[s].state # "CONNECTED"
        /\ Step(s, [stn[s] EXCEPT !.state = "IDLE"], inbox[s], << >>)
  /\ Unchanged

\* DISC_ACK, or the peer's own DISC, ends disconnect().
DiscAnswered(s) ==
  /\ stn[s].call = "disc"
  /\ Hears(s, "DISC_ACK") \/ Hears(s, "DISC")
  /\ Step(s, Closed(stn[s]), Rest(s), << >>)
  /\ Unchanged

DiscTimeout(s) ==
  LET r == stn[s]
  IN /\ r.call = "disc"
     /\ \/ /\ r.attempt < r.budget
           /\ Step(s, [r EXCEPT !.attempt = @ + 1], inbox[s], <<Control("DISC")>>)
        \/ /\ r.attempt = r.budget
           /\ Step(s, Closed(r), inbox[s], << >>)
     /\ Unchanged

\* Mutant of Abandon: only recv_message notices a silent peer.
AbandonInPollOnly(s) ==
  LET r == stn[s]
  IN /\ r.state = "CONNECTED" /\ inbox[s] = << >>
     /\ r.call = "poll"
     /\ Step(s, Closing(r, 1), inbox[s], <<Control("DISC")>>)
     /\ Unchanged

\* Mutant of Abandon: only a floor request notices a silent peer.
AbandonInFloorOnly(s) ==
  LET r == stn[s]
  IN /\ r.state = "CONNECTED" /\ inbox[s] = << >>
     /\ r.call = "floor" /\ r.partial # << >>
     /\ Step(s, Closing(r, 1), inbox[s], <<Control("DISC")>>)
     /\ Unchanged

\* _peer_is_stale and _abandon_stale_session, from recv_message and from
\* _acquire_floor while a message is part-way in: nothing has been decoded
\* for inactivity_timeout.
Abandon(s) ==
  LET r == stn[s]
  IN /\ r.state = "CONNECTED" /\ inbox[s] = << >>
     /\ r.call = "poll" \/ (r.call = "floor" /\ r.partial # << >>)
     /\ Step(s, Closing(r, 1), inbox[s], <<Control("DISC")>>)
     /\ Unchanged

\* The process ends without a word and is started again.
Crash(s) ==
  /\ crashes < MaxCrashes
  /\ crashes' = crashes + 1
  /\ Step(s, Fresh, << >>, << >>)
  /\ UNCHANGED <<sessions, delivered, returned>>

----------------------------------------------------------------------------
Handshake(s) == \/ PlaceCall(s) \/ CallTimeout(s) \/ HearConnectAck(s)
                \/ Listen(s) \/ ListenTimeout(s) \/ AcceptCall(s)

Floor(s) == GrantFloor(s) \/ TakeGrant(s) \/ TakeDataForFloor(s) \/ FloorTimeout(s)

Data(s) == \/ SendMessage(s) \/ HearDataAck(s) \/ DataTimeout(s)
           \/ FloorReqWhileSending(s) \/ RecvData(s)

Teardown(s) == \/ PeerDisc(s) \/ Disconnect(s) \/ DiscAnswered(s) \/ DiscTimeout(s)
               \/ Abandon(s)

Next == \E s \in Stations :
          Handshake(s) \/ HearUnwanted(s) \/ Floor(s) \/ Data(s) \/ Teardown(s) \/ Crash(s)

Spec == Init /\ [][Next]_vars

----------------------------------------------------------------------------
(* Properties *)

Body == [session : 1..MaxSessions, msg : 1..MaxMessages, part : 1..ChunksPerMessage]

SeqNo == 0..(SeqModulo - 1)

Frame == [type : {"CONNECT", "CONNECT_ACK"}, session : 1..MaxSessions]
         \cup [type : {"DISC", "DISC_ACK", "FLOOR_REQ", "FLOOR_GRANT"}]
         \cup [type : {"DATA"}, seq : SeqNo, eof : BOOLEAN, body : Body]
         \cup [type : {"DATA_ACK"}, answered : SeqNo, expects : SeqNo]

StationState == [state   : {"IDLE", "CONNECTING", "LISTENING", "CONNECTED"},
                 role    : {"none", "ISS", "IRS"},
                 session : 0..MaxSessions, ackBody : 0..MaxSessions,
                 call    : Calls,
                 attempt : Nat, budget : Nat,
                 txSeq   : SeqNo, expect : SeqNo,
                 partial : Seq(Body),
                 part    : 0..ChunksPerMessage]

\* The types of both stations' state and of the frames in the air.
TypeOK ==
  /\ stn \in [Stations -> StationState]
  /\ inbox \in [Stations -> Seq(Frame)]
  /\ sessions \in 0..MaxSessions
  /\ crashes \in 0..MaxCrashes
  /\ delivered \in [Stations -> Seq([session : 1..MaxSessions, chunks : Seq(Body)])]
  /\ returned \in [Stations -> Seq(1..MaxSessions)]

InSession(s) == stn[s].state = "CONNECTED"

Together == /\ \A s \in Stations : InSession(s)
            /\ \A s, t \in Stations : stn[s].session = stn[t].session

\* Two stations in one session never both hold the floor, whatever REQs and
\* GRANTs were repeated, lost or left in a queue.
OneSpeaker == Together => \E s \in Stations : stn[s].role = "IRS"

\* Two stations that are both in a session are in the same one: neither
\* talks to a ghost of an earlier call.
SameSession == (\A s \in Stations : InSession(s)) => Together

\* In a shared session each side expects the sequence number the other will
\* use next, or is one ahead because its last DATA_ACK has not been taken: no
\* reconnection, lost ACK or abandoned transfer leaves the counters apart.
CountersAgree ==
  Together => \A s \in Stations :
                \/ stn[Peer(s)].expect = stn[s].txSeq
                \/ /\ stn[Peer(s)].expect = NextSeq(stn[s].txSeq)
                   /\ stn[s].call \in {"send", "disc"}

WholeMessage(id, m) ==
  [k \in 1..ChunksPerMessage |-> [session |-> id, msg |-> m, part |-> k]]

\* What the application is given in a session are whole messages the peer
\* sent in that very session, each once and in the order they were sent:
\* DATA carries no session identifier, so nothing but the order of frames and
\* the resets keep a chunk of another session or message out.
MessagesIntact ==
  \A s \in Stations :
    /\ \A i \in DOMAIN delivered[s] :
         \E m \in 1..MaxMessages :
           delivered[s][i].chunks = WholeMessage(delivered[s][i].session, m)
    /\ \A i, j \in DOMAIN delivered[s] :
         (i < j /\ delivered[s][i].session = delivered[s][j].session)
           => delivered[s][i].chunks[1].msg < delivered[s][j].chunks[1].msg

\* When send_message returns, the peer's application has been given the
\* message, in the same session.
ReturnMeansDelivered ==
  \A s \in Stations : \A m \in DOMAIN returned[s] :
    \E i \in DOMAIN delivered[Peer(s)] :
      delivered[Peer(s)][i] = [session |-> returned[s][m],
                               chunks  |-> WholeMessage(returned[s][m], m)]

\* Both stations of a session never wait for a grant that neither will give:
\* a request that was not answered succeeds on a later retry, and a grant
\* that was lost is given again.
FloorCanMove ==
  Together => \E s \in Stations :
                \/ stn[s].call # "floor"
                \/ stn[s].partial # << >>
                \/ \E i \in DOMAIN inbox[s] : inbox[s][i].type = "FLOOR_GRANT"

----------------------------------------------------------------------------
(* Liveness *)

Hearing(s) == \/ HearConnectAck(s) \/ AcceptCall(s) \/ HearUnwanted(s)
              \/ GrantFloor(s) \/ TakeGrant(s) \/ TakeDataForFloor(s)
              \/ HearDataAck(s) \/ FloorReqWhileSending(s) \/ RecvData(s)
              \/ PeerDisc(s) \/ DiscAnswered(s)

Timeout(s) == \/ CallTimeout(s) \/ ListenTimeout(s) \/ FloorTimeout(s)
              \/ DataTimeout(s) \/ DiscTimeout(s)

\* Every wait has a deadline, the worker goes on polling recv_message, and a
\* silent peer is noticed.  What the applications ask for is their choice, and
\* the radio path owes nothing: any frame may be lost.
Fairness == \A s \in Stations : /\ WF_vars(Hearing(s))
                                /\ WF_vars(Timeout(s))
                                /\ WF_vars(Abandon(s))

FairSpec == Spec /\ Fairness

\* Every blocking call of Link returns or raises.
CallsReturn == \A s \in Stations : (stn[s].call # "poll") ~> (stn[s].call = "poll")

HalfOpen(s) == InSession(s) /\ ~Together

\* A station left alone in a session - its CONNECT_ACK, DISC or DISC_ACK was
\* lost, its caller gave up, its peer crashed - does not stay there.
HalfOpenHeals == \A s \in Stations : HalfOpen(s) ~> ~HalfOpen(s)
=============================================================================
