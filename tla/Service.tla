------------------------------ MODULE Service ------------------------------
(***************************************************************************)
(* whale.service.ModemService: the worker thread that owns the blocking    *)
(* Link, the application threads that write(), read() and call connect,    *)
(* listen, disconnect, abort and stop, and the three queues between them.  *)
(*                                                                         *)
(* Link is seen from outside here: every outcome its calls can have at     *)
(* this interface is a choice.  Each application role is one thread.  An   *)
(* outbound item records the session that write() saw when it looked at    *)
(* the state, an inbound one the session it was received in; n numbers     *)
(* the items of either stream.                                             *)
(***************************************************************************)
EXTENDS Integers, Sequences

CONSTANTS OutCap, InCap,   \* ModemService(queue_size) of _outbound and _inbound
          MaxWrites,       \* bound: calls of write()
          MaxReceives,     \* bound: messages the link receives in a session
          MaxSessions,     \* bound: sessions established
          MaxCommands      \* bound: commands issued

ASSUME ServiceAssumption ==
  /\ OutCap \in Nat \ {0} /\ InCap \in Nat \ {0}
  /\ MaxWrites \in Nat /\ MaxReceives \in Nat
  /\ MaxSessions \in Nat /\ MaxCommands \in Nat

VARIABLES
  pc,         \* where the worker is
  listening,  \* _listening
  stopping,   \* _stopping
  up,         \* Link.state = "CONNECTED"
  session,    \* sessions established so far
  heard,      \* messages received in this session
  pending,    \* Link._pending_messages
  inbound,    \* _inbound
  early,      \* _delivered_early
  held,       \* the message the link has just reassembled, or returned
  got,        \* items the reader was given
  outbound,   \* _outbound
  batch,      \* items joined for one send_message
  sent,       \* items a send_message has completed, with the session it ran in
  writer,     \* session a write() in progress saw; 0 when there is none
  written,    \* items write() has queued
  commands,   \* _commands
  taken,      \* command got from that queue while idle and not yet put back
  issued      \* commands called so far

link == <<up, session, heard, pending>>
rx   == <<inbound, early, held, got>>
tx   == <<outbound, batch, sent, writer, written>>
cmd  == <<commands, taken, issued, stopping>>
vars == <<pc, listening, link, rx, tx, cmd>>

Nothing == [session |-> 0, n |-> 0]

Init ==
  /\ pc = "loop" /\ listening = TRUE /\ stopping = FALSE
  /\ up = FALSE /\ session = 0 /\ heard = 0 /\ pending = << >>
  /\ inbound = << >> /\ early = 0 /\ held = Nothing /\ got = << >>
  /\ outbound = << >> /\ batch = << >> /\ sent = << >> /\ writer = 0 /\ written = 0
  /\ commands = << >> /\ taken = "none" /\ issued = 0

Goto(here, there) == pc = here /\ pc' = there

----------------------------------------------------------------------------
(* The application's threads *)

\* connect(), listen(), disconnect() and abort() only queue a command.
Command(c) ==
  /\ issued < MaxCommands
  /\ commands' = Append(commands, c)
  /\ issued' = issued + 1
  /\ UNCHANGED <<pc, listening, taken, stopping, link, rx, tx>>

Stop ==
  /\ ~stopping
  /\ stopping' = TRUE
  /\ commands' = Append(commands, "stop")
  /\ UNCHANGED <<pc, listening, taken, issued, link, rx, tx>>

\* Mutant of PutWrite: the queue has no bound.
PutWriteUnbounded ==
  /\ writer # 0
  /\ outbound' = Append(outbound, [session |-> writer, n |-> written + 1])
  /\ written' = written + 1 /\ writer' = 0
  /\ UNCHANGED <<pc, listening, batch, sent, link, rx, cmd>>

\* write() looks at the state, and then puts, waiting for room.
CheckWrite ==
  /\ writer = 0 /\ written < MaxWrites
  /\ up
  /\ writer' = session
  /\ UNCHANGED <<pc, listening, outbound, batch, sent, written, link, rx, cmd>>

PutWrite ==
  /\ writer # 0
  /\ Len(outbound) < OutCap
  /\ outbound' = Append(outbound, [session |-> writer, n |-> written + 1])
  /\ written' = written + 1 /\ writer' = 0
  /\ UNCHANGED <<pc, listening, batch, sent, link, rx, cmd>>

Read ==
  /\ inbound # << >>
  /\ got' = Append(got, Head(inbound))
  /\ inbound' = Tail(inbound)
  /\ UNCHANGED <<pc, listening, early, held, link, tx, cmd>>

----------------------------------------------------------------------------
(* The worker: _run, _drain_commands *)

Down == up' = FALSE /\ UNCHANGED <<session, heard, pending>>

\* Mutant of BeginSession: unread bytes stay.
BeginSessionKeeps == early' = 0 /\ UNCHANGED <<inbound, held, got>>

\* _begin_session
BeginSession == inbound' = << >> /\ early' = 0 /\ UNCHANGED <<held, got>>

\* Mutant of EmptyOutbound: the items are read and not removed.
PeekOutbound == UNCHANGED <<outbound, sent, writer, written>>

\* get_nowait until the queue is empty; a write that lands between two gets
\* is one that landed before them.
EmptyOutbound == outbound' = << >> /\ UNCHANGED <<sent, writer, written>>

\* _discard_queue(_outbound)
DiscardOutbound == EmptyOutbound /\ batch' = << >>

\* Link.connect leaves any live session at once.
TakeConnect == pc' = "connect" /\ listening' = FALSE /\ BeginSession /\ Down /\ UNCHANGED tx

\* Mutant of TakeDisconnect: closes without flushing.
TakeDisconnectUnflushed ==
  pc' = "close" /\ listening' = FALSE /\ DiscardOutbound /\ UNCHANGED <<link, rx>>

\* _flush_outbound
TakeDisconnect ==
  /\ listening' = FALSE
  /\ EmptyOutbound
  /\ batch' = IF up THEN outbound ELSE << >>
  /\ pc' = IF batch' # << >> THEN "flush" ELSE "close"
  /\ UNCHANGED <<link, rx>>

TakeAbort == pc' = "close" /\ listening' = FALSE /\ DiscardOutbound /\ UNCHANGED <<link, rx>>

TakeListen(on) == pc' = "drain" /\ listening' = on /\ UNCHANGED <<link, rx, tx>>

TakeStop == pc' = "finally" /\ UNCHANGED <<listening, link, rx, tx>>

\* Commands are executed until their queue is empty; _stopping is looked at
\* only between two drains.
Draining == pc = "drain" \/ (pc = "loop" /\ ~stopping)

TakeCommand ==
  /\ Draining
  /\ commands # << >>
  /\ commands' = Tail(commands)
  /\ LET c == Head(commands)
     IN \/ c = "connect" /\ TakeConnect
        \/ c = "disconnect" /\ TakeDisconnect
        \/ c = "abort" /\ TakeAbort
        \/ c \in {"listenOn", "listenOff"} /\ TakeListen(c = "listenOn")
        \/ c = "stop" /\ TakeStop
  /\ UNCHANGED <<taken, issued, stopping>>

LeaveLoop == stopping /\ Goto("loop", "finally") /\ UNCHANGED <<listening, link, rx, tx, cmd>>

\* The queue is empty: serve the link according to its state.
\* _service_connected sends what is queued, and otherwise receives.
Serve ==
  /\ Draining
  /\ commands = << >>
  /\ \/ up /\ outbound # << >> /\ pc' = "send" /\ batch' = outbound /\ EmptyOutbound
     \/ up /\ outbound = << >> /\ pc' = "recv" /\ UNCHANGED tx
     \/ ~up /\ listening /\ pc' = "listen" /\ UNCHANGED tx
     \/ ~up /\ ~listening /\ pc' = "idle" /\ UNCHANGED tx
  /\ UNCHANGED <<listening, link, rx, cmd>>

\* With nothing to do the worker blocks on the command queue; what it gets
\* it puts back, behind anything queued meanwhile.
IdleGet ==
  /\ commands # << >>
  /\ Goto("idle", "putback")
  /\ taken' = Head(commands) /\ commands' = Tail(commands)
  /\ UNCHANGED <<listening, issued, stopping, link, rx, tx>>

\* Mutant of PutBack: the worker goes back to waiting, not to the drain.
PutBackAndWait ==
  /\ Goto("putback", "idle")
  /\ commands' = Append(commands, taken) /\ taken' = "none"
  /\ UNCHANGED <<listening, issued, stopping, link, rx, tx>>

PutBack ==
  /\ Goto("putback", "loop")
  /\ commands' = Append(commands, taken) /\ taken' = "none"
  /\ UNCHANGED <<listening, issued, stopping, link, rx, tx>>

IdleTimeout == Goto("idle", "loop") /\ UNCHANGED <<listening, link, rx, tx, cmd>>

----------------------------------------------------------------------------
(* The calls of Link *)

Established ==
  /\ session < MaxSessions
  /\ up' = TRUE /\ session' = session + 1
  /\ heard' = 0 /\ pending' = << >>   \* _reset_sequence_state

ConnectReturns ==
  /\ Goto("connect", "drain")
  /\ Established \/ Down
  /\ UNCHANGED <<listening, rx, tx, cmd>>

ListenReturns ==
  /\ \/ Goto("listen", "accepted") /\ Established
     \/ Goto("listen", "loop") /\ UNCHANGED link
  /\ UNCHANGED <<listening, rx, tx, cmd>>

\* The session is up before the bytes of the last one are dropped.
Accepted ==
  /\ Goto("accepted", "loop")
  /\ listening' = FALSE
  /\ BeginSession
  /\ UNCHANGED <<link, tx, cmd>>

\* Link.disconnect from a command; _end_session follows it.
Close == Goto("close", "end") /\ Down /\ UNCHANGED <<listening, rx, tx, cmd>>

EndSession == Goto("end", "drain") /\ DiscardOutbound /\ UNCHANGED <<listening, link, rx, cmd>>

\* A message from the peer is complete (RX_MESSAGE): in recv_message, or
\* while send_message asks for the floor.
Hear ==
  /\ up /\ heard < MaxReceives
  /\ \/ pending = << >> /\ Goto("recv", "recvPut")
     \/ Goto("send", "sendPut")
     \/ Goto("flush", "flushPut")
  /\ heard' = heard + 1
  /\ held' = [session |-> session, n |-> heard + 1]
  /\ UNCHANGED <<listening, up, session, pending, inbound, early, got, tx, cmd>>

\* Mutant of PutEarly: the early delivery is not counted.
PutEarlyUncounted ==
  /\ Len(inbound) < InCap
  /\ inbound' = Append(inbound, held)
  /\ \/ Goto("recvPut", "received") /\ UNCHANGED <<held, pending>>
     \/ /\ Goto("sendPut", "send") \/ Goto("flushPut", "flush")
        /\ pending' = Append(pending, held) /\ held' = Nothing
  /\ UNCHANGED <<listening, up, session, heard, early, got, tx, cmd>>

\* _on_link_event queues it for the reader, waiting for room, and counts it;
\* a floor request keeps it for recv_message to return later.
PutEarly ==
  /\ Len(inbound) < InCap
  /\ inbound' = Append(inbound, held)
  /\ early' = early + 1
  /\ \/ Goto("recvPut", "received") /\ UNCHANGED <<held, pending>>
     \/ /\ Goto("sendPut", "send") \/ Goto("flushPut", "flush")
        /\ pending' = Append(pending, held) /\ held' = Nothing
  /\ UNCHANGED <<listening, up, session, heard, got, tx, cmd>>

\* recv_message returns a kept message, or none: time is up, or the peer
\* disconnected or fell silent.
RecvReturns ==
  /\ \/ /\ pending # << >>
        /\ Goto("recv", "received")
        /\ held' = Head(pending) /\ pending' = Tail(pending)
        /\ UNCHANGED up
     \/ /\ pending = << >>
        /\ Goto("recv", "loop")
        /\ up' \in BOOLEAN
        /\ UNCHANGED <<held, pending>>
  /\ UNCHANGED <<listening, session, heard, inbound, early, got, tx, cmd>>

\* A message the event already delivered is not delivered again.
Received ==
  /\ Goto("received", "loop")
  /\ \/ early > 0 /\ early' = early - 1 /\ UNCHANGED inbound
     \/ early = 0 /\ Len(inbound) < InCap /\ inbound' = Append(inbound, held) /\ UNCHANGED early
  /\ held' = Nothing
  /\ UNCHANGED <<listening, got, link, tx, cmd>>

SendReturns ==
  /\ Goto("send", "loop") \/ Goto("flush", "close")
  /\ sent' = sent \o [i \in DOMAIN batch |-> [item |-> batch[i], during |-> session]]
  /\ batch' = << >>
  /\ UNCHANGED <<listening, outbound, writer, written, link, rx, cmd>>

\* LinkError, with the session still up (no ACK, no floor) or gone.  _run
\* catches it around _service_connected only; out of _drain_commands it ends
\* the worker.
SendFails ==
  /\ Goto("send", "failed") \/ Goto("flush", "finally")
  /\ up' \in {up, FALSE}
  /\ batch' = << >>
  /\ UNCHANGED <<listening, session, heard, pending, outbound, sent, writer, written, rx, cmd>>

\* except LinkError: disconnect(retries=1)
Failed == Goto("failed", "loop") /\ Down /\ UNCHANGED <<listening, rx, tx, cmd>>

\* A parting DISC, unless stop() was told not to be graceful.
Finally ==
  /\ Goto("finally", "stopped")
  /\ Down \/ UNCHANGED link
  /\ UNCHANGED <<listening, rx, tx, cmd>>

----------------------------------------------------------------------------
Commands == {"connect", "disconnect", "abort", "listenOn", "listenOff"}

Application == (\E c \in Commands : Command(c)) \/ Stop \/ CheckWrite \/ PutWrite \/ Read

Worker == \/ LeaveLoop \/ TakeCommand \/ Serve \/ IdleGet \/ PutBack \/ IdleTimeout
          \/ ConnectReturns \/ ListenReturns \/ Accepted \/ Close \/ EndSession
          \/ Hear \/ PutEarly \/ RecvReturns \/ Received
          \/ SendReturns \/ SendFails \/ Failed \/ Finally

Next == Application \/ Worker

Spec == Init /\ [][Next]_vars

\* The worker thread runs: every Link call it makes ends (CallsReturn of
\* Link).  No reader is assumed: vara_server's data writer loop may be blocked
\* in sendall by its client, and there is none until a client attaches.
FairSpec == Spec /\ WF_vars(Worker)

----------------------------------------------------------------------------
(* Properties *)

Item(max) == [session : 1..MaxSessions, n : 1..max]

\* The types of the worker's state; the two bounded queues keep their bound.
TypeOK ==
  /\ pc \in {"loop", "drain", "idle", "putback", "connect", "listen", "accepted", "close",
             "end", "recv", "recvPut", "received", "send", "sendPut", "flush", "flushPut",
             "failed", "finally", "stopped"}
  /\ listening \in BOOLEAN /\ stopping \in BOOLEAN /\ up \in BOOLEAN
  /\ session \in 0..MaxSessions /\ heard \in 0..MaxReceives
  /\ pending \in Seq(Item(MaxReceives)) /\ held \in Item(MaxReceives) \cup {Nothing}
  /\ inbound \in Seq(Item(MaxReceives)) /\ Len(inbound) <= InCap
  /\ got \in Seq(Item(MaxReceives)) /\ early \in Nat
  /\ outbound \in Seq(Item(MaxWrites)) /\ Len(outbound) <= OutCap
  /\ batch \in Seq(Item(MaxWrites))
  /\ sent \in Seq([item : Item(MaxWrites), during : 1..MaxSessions])
  /\ writer \in 0..MaxSessions /\ written \in 0..MaxWrites
  /\ commands \in Seq(Commands \cup {"stop"}) /\ taken \in Commands \cup {"stop", "none"}
  /\ issued \in 0..MaxCommands

\* Once a session has begun, every unread byte belongs to it: a reader of
\* this session is never handed a byte of an earlier one.  (Between Link's
\* CONNECTED and _begin_session an accepted session has not begun yet.)
InboundOfThisSession ==
  up /\ pc # "accepted" => \A i \in DOMAIN inbound : inbound[i].session = session

\* Messages of this session that have reached the reader's stream: the one
\* the link has just reassembled is waiting for room.
Put == IF pc \in {"recvPut", "sendPut", "flushPut"} THEN heard - 1 ELSE heard

\* The stream ends with messages 1 to k of this session, and holds no other
\* item of it.
EndsWith(stream, k) ==
  LET before == Len(stream) - k
  IN /\ before >= 0
     /\ \A i \in DOMAIN stream : IF i <= before
                                 THEN stream[i].session # session
                                 ELSE stream[i] = [session |-> session, n |-> i - before]

\* Every message the link received in this session is in the reader's stream
\* exactly once and in order, although it comes up twice, from the RX_MESSAGE
\* event and from recv_message, at once or after a floor request.
StreamExact == up => EndsWith(got \o inbound, Put)

\* Items are sent in the order they were written, each at most once,
\* whatever session, flush or send they went out with.
SentInOrder == \A i, j \in DOMAIN sent : i < j => sent[i].item.n < sent[j].item.n

Unsent == {outbound[i].n : i \in DOMAIN outbound} \cup {batch[i].n : i \in DOMAIN batch}

\* While the session is up, an item write() accepted leaves the service only
\* by being sent - a disconnect flushes first - or because an abort is being
\* executed or its send failed.
AcceptedIsSent ==
  [][\A n \in Unsent :
       \/ n \in Unsent' \cup {sent'[i].item.n : i \in DOMAIN sent'}
       \/ ~up'
       \/ pc' \in {"failed", "finally"}
       \/ Head(commands) = "abort" /\ commands' = Tail(commands)]_vars

\* The worker is in _inbound.put, with no room.
AwaitsRoom ==
  /\ Len(inbound) = InCap
  /\ pc \in {"recvPut", "sendPut", "flushPut"} \/ (pc = "received" /\ early = 0)

\* Queued commands are executed, whatever the Link calls come to - unless the
\* worker has ended, or from some moment on stands in _inbound.put for ever
\* because nobody reads: nothing else can keep an abort waiting.
CommandsServed == []<>(commands = << >> \/ pc = "stopped") \/ <>[]AwaitsRoom

----------------------------------------------------------------------------
(* What the repository says, and the code does not do *)

\* "Drop untransmitted bytes once the link is down": no byte accepted in one
\* session is transmitted in another.
OutboundOfThisSession == \A i \in DOMAIN sent : sent[i].item.session = sent[i].during

Queued(c) == \E i \in DOMAIN commands : commands[i] = c

\* A connect command that was accepted is attempted, and its outcome reported.
ConnectServed == (Queued("connect") /\ ~stopping) ~> (~Queued("connect") \/ stopping)
=============================================================================
