# Whale modem: TLA+ models, checks and proofs

Whale (`src/whale`) is a software modem: two stations hold a half-duplex radio
session, exchange messages by stop-and-wait ARQ, adapt the speed of each
direction, and offer the session to applications over a VARA-like TCP
interface. This directory models the part of it whose correctness depends on
order, loss, timeouts and threads, checks it with TLC and proves the core of it
with TLAPS.

## 1. The system

| Component | Source | State it keeps | Operations | Modelled in |
| --- | --- | --- | --- | --- |
| Data transfer (ARQ) | `link.py` 1003-1260, `link_adaptation.py`, `link_receiver.py` 385-403 | `_tx_seq`, `_rx_expect_seq`, `_partial_rx_buf`, `tx_profile`, `rx_profile`, `_consecutive_tx_failures` | `send_message`, `_send_chunk_with_arq`, `_handle_data`, step up, step down, re-cut | `Arq`, `MessageStream` |
| Session engine | `link.py` | `state`, `role`, `_session_id`, `_connect_ack_body`, counters, `_rx_packets` | `connect`, `listen_once`, `send_message`, `recv_message`, `_acquire_floor`, `disconnect`, duplicate-CONNECT answer, inactivity backstop | `Link` |
| Service | `service.py` | `_commands`, `_outbound`, `_inbound`, `_delivered_early`, `_listening`, `_stopping` | `write`, `read`, the five commands, `stop`, the worker's loop | `Service` |
| Ladder and policy | `policy.py`, `modes/` registries | immutable | `step`, `chunk_size`, budgets | constants of `Arq` |
| Receiver | `transport.py`, `link_receiver.py`, `streaming.py` | `_chunks`, `_rx_end`, `_rx_generation`; the ring, search cursor, candidates | `_in_callback`, `read_rx`, `consume_rx_through`, `_decode_loop`, `_decode_one`, `OfdmSearch.update` | `Receiver` |
| Transport, PTT | `transport.py`, `hw/ptt.py`, `hw/audio_io.py` | `key_state_unknown`, `_closed`, the port, the PTT lock | `send`, `transmit`, `key`, `close`, the exit hook | `Keying` |
| VARA adapter | `vara_server.py` | `_stopping`, `_cmd_lock`, installed handlers; data sockets | `serve_forever`, `stop`, `stop_on_signals`; sockets, event lines | `Shutdown` (the first three) |
| Path sweep | `sweep.py` | `_armed`, `_held`, `results`, `_last_swap` | `run_caller`, `_measure`, `_collect`, `_hand_over`, `serve`, the decode thread | `Sweep` |
| Mode history | `mode_history.py` | a JSON file | read, merge, replace | not modelled |
| Wire format | `link_protocol.py`, `framing.py` | none | encode, decode | not modelled |
| Waveforms, DSP, channels, scenarios, TUIs, configuration, measurement tools | the rest of `whale/` | | | not modelled |

**How they interact.** A single worker thread (`ModemService._run`) owns the
`Link` and makes blocking calls into it; application threads reach it through
three bounded or unbounded queues. Each `Link` keys frames through the
transport and waits for decoded frames in `_rx_packets`, which its decode
thread fills; every wait (`_wait_packet`) keeps some packet types and drops the
rest, so what a station can be told depends on the call it is in. `Link`
reports to the service by callback (`_on_link_event`), on the worker's thread
and from inside the call that is in progress. Two stations share nothing but
the radio path, which loses frames and keeps their order. PortAudio's callback
thread fills the transport's buffer; the decode thread copies it out and
discards by position; a sender clears it around its own keying. The main thread
of the server serves, takes signals and, at the end, un-keys; it meets the
worker at the PTT lock. The sweep is another program over the same transport
and decoder, with no session and no ARQ.

**What is hard.** The frames of DATA, DISC and floor control carry no session
identifier. Only the order of frames, draining, and resets separate one session
from the next. An ACK carries a mode byte written by another thread. A step down may change
the length of a chunk already received. A call that waits drops the frames the
other station's call depends on. A message surfaces twice, by event and by
return value. Queues fill, and the worker blocks on them. Sessions end in five
ways, some of which the service's clean-up does not see. Audio is named by
positions that a clear or an overflow leaves behind. The radio may not confirm
that it is off the air, and a process is asked to end at the worst moment. A
sweep repeats every frame that may have been lost, to stations that may be
gone. The full list, line by
line, is under `hazards` in `PROJECT.json`.

**What makes each component correct.**
ARQ: messages arrive whole, in order, once; a returned call has delivered; no
call lasts for ever. Link: one speaker; both stations in the same session;
counters level; nothing crosses from one session into another; no station stays
in a session alone. Service: bytes belong to their session; the reader's stream
is exact; writes keep their order and are not dropped silently; commands are
executed. Receiver: what is decoded is audio that was recorded in one piece, and
every undamaged frame is decoded once, in the order of the air. Transport: after a send the radio is down
or the operator told. Server: a process that ends leaves it so, and it does end.
Sweep: both reports say what was counted, once; the listener comes back to rest.

## 2. The modules

    MessageStream            what one direction of a session promises
         ^ refined by
        Arq                  one direction of one session, bytes and modes
         ^ extended by MCArq (TLC), ArqProofs (TLAPS)

        Link                 two stations, whole life of several sessions
         ^ extended by MCLink (TLC), LinkProofs and LinkPairProofs (TLAPS)

        Service              the worker, its queues, the application's threads
         ^ extended by MCService (TLC), ServiceProofs (TLAPS)

        Keying               two threads and the radio: any program that sends
         ^ extended by         and closes; KeyingProofs (TLAPS)
        Shutdown             the server: worker, main thread, signals
         ^ extended by MCShutdown (TLC), ShutdownProofs (TLAPS)

        Receiver             sound card, capture buffer, decode thread
         ^ extended by MCReceiver (TLC), ReceiverProofs (TLAPS)

        Sweep                two stations measuring the path
         ^ extended by MCSweep (TLC), SweepProofs (TLAPS)

The detailed modules are cuts of the program, not copies of it. `Arq` keeps every byte and every mode and leaves the session alone. `Link`
keeps every packet type and both stations' calls, and reduces a message to a
number of chunks of fixed size. `Service` keeps the threads and the queues and sees each call of
Link only by its possible outcomes: which outcomes exist, and that each call
ends (`CallsReturn`), is what `Link` establishes; that a message Link reports
is a whole message of its peer is what `Arq` establishes.

### MessageStream

Three actions: `Deliver` (the receiver's application is given the message in
progress), `Return`, `Break` (the call raised LinkError). This is what the ARQ
promises: a returned call implies delivery; a failed call leaves open whether
its message was delivered.

### Arq

`pc` is the position of `send_message`: idle, about to key, waiting for
DATA_ACK, or failed. A byte is the pair `<<message, index>>`, so repeated, lost
and displaced bytes are all visible. `air` is what was keyed and not yet
decoded, `inbox` is the receiver's `_rx_packets`, `acks` is the return path;
keying is `Key`: the frame is lost, or joins the queue. `TransmitData` keys the
chunk in hand. `HearAck` is one turn of `_send_chunk_with_arq`'s wait, with the
three tests of an ACK in `Accepts`; `ChunkAcked` is the tail of
`send_message`'s loop, adaptation and next cut included. `AckTimeout` is the
whole failed attempt: failure count, step down, re-cut (`_RESIZE`), retry or
give up; a FLOOR_REQ that cuts the wait short has the same effect. `DecodeData`
is the decode thread, which sets `rx_profile` at once; `HandleData` is
`_handle_data` on the worker, whose ACK names the mode `rx_profile` holds by
then. Which step the Beta statistics pick is left free (`Adapted`): any step
they may take, so the properties do not depend on the numbers. A step is
refused when it leaves the ladder or the peer's set. `overlapped` is a history
variable: it is set when a chunk is re-cut that the receiver already had, or may
still decode (`Reached`).

### Link

Each station is a record: `state`, `role`, `session`, the CONNECT_ACK kept for
re-answering, the counters, and `call`, the blocking call its worker is in.
`Wanted` is the table of packet types each call's wait keeps; `HearUnwanted` is
the rest of `_wait_packet`, the drop and the re-answer to a retried CONNECT.
Keying a frame belongs to the step that decides to key it (`Step`), with the
choice of which of its frames survive. Otherwise one action per handler or
timeout: see the `map` of `PROJECT.json`. A LinkError ends as the service makes
it end, in `disconnect(retries=1)`. Mode bytes, chunk sizes and re-cutting are
left to `Arq`.

### Service

`pc` is the worker's place in `_run`, `_drain_commands` and the Link call it is
in. Each application role is one thread: one that writes (`CheckWrite`,
`PutWrite` are the two halves of `write`), one that reads, and one that issues
commands. An outbound item remembers the session `write` saw, an inbound one
the session it was received in. The link's side is `ConnectReturns`,
`ListenReturns`, `Hear`, `RecvReturns`, `SendReturns`, `SendFails`, `Close`:
every outcome of the call, a choice. `Accepted` is its own step because Link is
CONNECTED, and says so, before `_begin_session` runs. `IdleGet`/`PutBack` are
the get and the put of `_run`'s idle branch.

### Keying and Shutdown

`Keying` has the transport's code as a place per thread, `at`: in `transmit`
(`keyOn`, `play`, `off`, `blind`, `sent`) and in `close` (`claim`, `lastOff`,
`lastBlind`, `port`). `bus` is what a command to the radio meets: obeyed and
answered, refused (NG), obeyed and unheard, or an exception after which it may
or may not have arrived. `unknown` is `key_state_unknown`, `alarm` the shouted
"may still be keyed" until an OK contradicts it, `lock` the PTT lock, held over
all attempts of one un-key. `KeyingSpec` leaves the program open: the worker may
begin a send, and either thread a close, at any time.

`Shutdown` closes it. `worker` is `ModemService._run`: a packet of any Link
operation (`SendPacket`), the end of the loop, the parting DISC, `link.stop`.
`main` is the main thread of a server without the dashboard: serving, a signal's
handler on top of it, `stop` with its joins, the exception on its way out, the
exit hooks. `held` is `_cmd_lock` in the main thread's own hands. Each step of
`Shutdown` is a step of `Keying` or leaves it alone; that is `ImplementsKeying`.

### Receiver

A sample is the instant of air time it recorded, so a splice, a repeat and a
loss are visible. `tape` is every sample appended; the buffer is its last `held`
samples, which is all `_chunks` and `_rx_end` amount to. `stream` is the ring
with its positions and the search's cursor, candidates and attempted starts.
`decoder` is the place in `_decode_loop` and `_decode_one`; between any two
places the callback or a sender may step in. A frame is a stretch of air with a
kind: control frames are found by looking at everything retained, data frames by
the incremental search, whose blocks need context behind them and whose peak may
be a sample late (`late`). Begun half-way into a preamble, the search mistakes a
frame for one a symbol later, as the comment in `OfdmReceiver.decode` reports.
The data frames are those of hf7 and hf8, which search as audio arrives. The FM data
modes and the other HF rungs decode a copy of the retained audio in one batch, as
control frames are, and are not modelled.

### Sweep

`pc` is the place of each station's engine in `run_caller` or `serve`; the
decode thread is `Decode`. `air` is what a station has captured and not decoded,
cleared by its own keying. Every frame, of a burst or of control, arrives whole, as
a near miss (it synchronises and fails), or not at all (`Heard`). What a near miss
was cannot be known, so `NoteNearMiss` goes by the mode it was keyed at, as the code does. `armed` and `held` are the tally being counted and the
tally kept for a repeated request. A wait may end before its answer, at the
price of a fault. The same actions serve both stations, because after the
hand-over the listener is the one that announces.

## 3. The runs

Passing runs:

| Run | States | Question and answer |
| --- | ---: | --- |
| `arq` | 249,761 | Ladder whose lower rungs carry less, as both of the modem's do, so chunks are re-cut. `NothingLost`: re-cutting never skips a byte. `ReturnedIsDelivered`: a returned call has delivered every byte. `InOrderUntilOverlap`, and refinement of `MessageStream` (`ImplementsStream`): both hold until a re-cut overlaps what had reached the receiver. `CallEnds`: re-cutting never loops, although it restarts the retry budget. |
| `link_session` | 597,742 | Two stations, two calls, two-chunk messages both ways. `OneSpeaker`, `SameSession`, `CountersAgree`, `MessagesIntact`, `ReturnMeansDelivered`. |
| `link_live` | 187,823 | One call, messages of two chunks, one restart of a process, any frames lost. `CallsReturn`, also of a station that asks for the floor with a message part-way in; `HalfOpenHeals`. |
| `service` | 1,088,004 | Worker, three queues, application threads. `InboundOfThisSession`, `StreamExact`, `SentInOrder`, `AcceptedIsSent`, `CommandsServed`. |
| `shutdown` | 510,473 | Worker, main thread, three signals, two bus or audio faults at any point. `DownOrTold`, `RetryAccounted`, `OffAtExit`, `NoDiscOnceForced`, refinement of `Keying` (`ImplementsKeying`), `SignalEnds`. |
| `receiver` | 586,620 | Six layouts of frames, one overflow or own transmission at any point, a ring that wraps. `OneCapture`, `DeliveredInOrder` (which includes: once), `NonePassedOver`, `EveryFrameFound`. |
| `sweep` | 480,376 | Two sweeps between two stations, two faults among losses, damaged frames of either kind, late answers and a caller that disappears. `ReportedAsHeard`, `MeasuredOnce`, `CountsAddUp` (above the control mode), `Rests`. |

Runs that show the code doing other than a comment or document says:

| Run | What happens |
| --- | --- |
| `arq_recut` | The chunk was received but only its ACKs were lost; the sender steps down and re-cuts; the receiver drops the shorter chunk as a duplicate and the sender advances by the shorter length, so the bytes in between are delivered twice. `link.py` 1029-1034 says re-cutting is indistinguishable to the receiver. |
| `link_floor` | A lost FLOOR_GRANT leaves both stations IRS. If the granter's application now sends, both are in `_acquire_floor`, each drops the other's FLOOR_REQ, and both calls fail. `LINK.md` 182-187 says a later retry succeeds. |
| `service_leak` | Bytes still queued when the peer ends the session, or a LinkError does, go out in the next session, to whoever that is. `_end_session` runs after commands only. |
| `sweep_counts` | The first mode of every walk is the control mode. A station armed for it counts a damaged ANNOUNCE or ASK as a near miss of the burst, so decoded and near-missed frames exceed what was sent; `Tally.missed` floors the difference at zero. The docstring of `_note_near_miss` (`sweep.py` 549-550) says that a stray sync at the control mode is not counted. |
| `service_dead` | A LinkError while `disconnect` flushes escapes `_run`'s `try` and ends the worker; a queued connect is never attempted and reports nothing. |

Each property of a passing run has a mutant in `PROJECT.json`: a plausible bug
in one definition that makes TLC find the property violated under the same
configuration. The operators marked "Mutant of" in the modules serve only this.

### Bounds, and why they are enough

- `SeqModulo = 2` (128 in the code) is the hardest case: with two numbers every
  frame two chunks old looks current. The proofs cover every modulus from 2.
- `MaxRetries` 2 or 3 and `StepDownAfter = 2` (6 or 10, and 2, in the code): a
  step down fits into one chunk's budget, a second follows the re-cut, and the
  last attempt can be reached in every call.
- Messages of 3, 0 and 2 bytes over rungs of 1 to 3: several chunks, an empty
  message, an exact fit, and a re-cut that splits a last chunk.
- Three rungs: a mode with a neighbour on both sides.
- `Link`: `MaxSessions = 2` is one reconnection, all that an old frame needs to
  reach a new session. `InboxCap = 2` is one frame of the peer and one behind
  it. A full inbox only forces a loss. `MaxCrashes` is 0 in `link_session` to keep it short; with 1 the same
  six properties hold over 1.64 million states. `link_live` includes the crash.
  Both runs have messages of two chunks, the fewest with a chunk that is not the last.
- `Service`: an outbound queue of two items and three writes, so that a batch joins
  writes, a queue holds two in order and a third waits for room; an inbound queue
  of one, full as soon as it is not empty; two sessions, two messages received per
  session, two commands (every pair of commands, in every place).
- `Shutdown`: two attempts to send, two to un-key (5 and 3 in the code): a first
  and a last. Two troubles: a fault and its recovery, or two faults in a row.
  Three signals: every step of the ladder and one more. Both CONSTANTs of
  attempts are unbounded in the proofs.
- `Receiver`: 14 instants of air, frames of 4 and 6 samples, a ring of 9, so
  that it wraps in every behaviour; two frames back to back, a damaged one in
  front of a good one, a control frame repeated at once, after a damaged one and
  after a sound one, and three frames of both kinds. `MaxLag = 2`: the decode
  thread keeps up but for two samples, which is the assumption the code makes of
  a 10 second ring. One break, at any of the instants.
- `Sweep`: two modes (the control mode and one above it), bursts of two frames, so
  that one may be decoded and one a near miss, two tries of everything, `FailuresToStop = 1`, so a walk ends either way. Two
  faults are a lost or damaged frame and the same of its repetition, or a wait that
  ends too early and a loss, or a caller that disappears and one more. `AirCap = 5`:
  a burst, its announcement and request, and one more frame. Two calls: the second meets what the first left behind.

### Fairness, and why the code justifies it

`Arq`: weak fairness of the sender's keying, waiting and hearing, of the decode
thread and of the receiver's worker, each a loop with a deadline. `BeginMessage`
is the application's choice and is not fair. `Link`: every wait has a deadline
(`Timeout`), the worker polls (`Hearing`), and `recv_message` compares the
last-heard time with `inactivity_timeout` on every turn (`Abandon`). Loss is
unrestricted: no fairness says that a frame arrives. `HalfOpenHeals` depends on
`MaxSessions` in one way: any decoded frame, a CONNECT of another call included,
refreshes the inactivity timer in the code, so a station in a dead session heals
only if callers pause for the length of the timeout; with finitely many calls
they do. `Service`: only the worker is fair, because each Link call ends
(`CallsReturn`). Nothing says that anybody reads: the adapter's data loop blocks in
`sendall` while its client does not, and does not run with no data connection.
`CommandsServed` therefore says that commands are served unless the worker stands for
ever before a full `_inbound` (`AwaitsRoom`), which is the one way a client can
hold it. Writing and commands are not fair. `Shutdown`: the worker runs (weak), and the main thread is
treated strongly fairly, because the PTT lock it waits for is free between any
two keyings of the worker, which lets whole packets pass and must not win for
ever; Python's locks queue. Signals, sessions and faults are free. `Receiver`: the
card records, the decode thread polls, a send ends. `Sweep`: every wait has a
deadline, the decode thread runs, and a tally's window passes (`Expire`); the
operator is free.

`CHECK_DEADLOCK FALSE` is set everywhere: every system may stop, when the
messages, calls, commands, signals or air time of the bound are used up, or, in
`Arq` and `Service`, after an error.

## 4. The proofs

### `ArqProofs`

Assumption: `ArqAssumption` only (any messages, any ladder, any set of peer
modes, any retry budget, any modulus of at least 2).

| Theorem | States |
| --- | --- |
| `TypeCorrect` | `Spec => []TypeOK` |
| `SequenceSafe` | `Spec => []SeqInv` |
| `NoByteSkipped` | `Spec => []NothingLost` |
| `DeliveryInOrder` | `Spec => []InOrderUntilOverlap` |
| `ReturnMeansDelivered` | `Spec => []ReturnedIsDelivered` |
| `StreamImplemented` | `Spec => ImplementsStream` |

**The argument.** None of these properties is inductive. The core is `SeqInv`,
which says what may be under way, in five parts: a frame of the chunk in hand is
never followed by an older one, in the air, in `_rx_packets` or across the two
(`FrameOrder`); nothing is more than one chunk old (`Recent`); the receiver
expects the chunk in hand, or is one ahead and then nothing older is coming
(`ReceiverAt`); an ACK of the chunk in hand implies a receiver that has it, and
is not followed by an older one (`AckOrder`); and between calls
nothing answers the next number (`Quiet`). From it, an accepted ACK means that
the receiver has the chunk in hand (`AcceptedIsCurrent`), and a frame that is
taken is a frame of the chunk in hand (`TakenIsCurrent`): comparing numbers modulo
`SeqModulo` is as good as comparing chunks. The mode test of an ACK is not
needed for safety.

`CoverInv` adds, for every ladder: every byte acknowledged is held by the receiver,
and if the receiver has the chunk's number it holds at least the bytes in hand,
however often they were cut smaller. Hence `NoByteSkipped`. `EndInv` adds, for every
ladder again, what makes a return mean delivery: while the chunk in hand is the
last, every frame with its number says so, and a receiver that has taken one has
handed over all it held. A re-cut can turn a last chunk into one that is not, never
the reverse. Hence `ReturnMeansDelivered`. `DataInv` adds, until a re-cut overlaps
what had reached the receiver: every frame of the chunk in hand carries exactly
that chunk, and the receiver's messages and partial message are exactly the
prefix sent. Hence the other two. Refinement is by cases: taking the
last chunk of a message is `Deliver`, accepting its ACK is `Return`, running
out of attempts is `Break`, everything else stutters.

**What the condition means.** Both ladders of the modem have lower rungs that carry
less, so a step down there may re-cut, and `arq_recut` shows a message with repeated
bytes. `overlapped` marks the step from which that can follow: a re-cut of a chunk
that the receiver has, or that is still on its way to it. A re-cut of a chunk that
was lost every time does not set it. The theorems say that nothing else
disturbs order, and that even after it nothing is missing and no call
returns before its bytes are with the application.

### `ServiceProofs`

Assumption: `ServiceAssumption` (any queue capacities and bounds).

| Theorem | States |
| --- | --- |
| `ServiceTypeCorrect` | `Spec => []TypeOK` |
| `AlwaysInboundOfThisSession` | `Spec => []InboundOfThisSession` |
| `AlwaysSentInOrder` | `Spec => []SentInOrder` |
| `AlwaysAcceptedIsSent` | `Spec => AcceptedIsSent` |
| `AlwaysStreamExact` | `Spec => []StreamExact` |

The invariant, `ServiceInv`, says per place of the worker what it holds. `Phases`:
the link is up in the places a session needs. `RxInv`: while the link is up, the
messages Link has for the service, the one being put and (once the session has
begun) those in `_inbound` are all of this session; `connect` is entered with an
empty `_inbound`. `TxInv`: what was sent precedes the batch in hand, which
precedes `_outbound`; each is rising, and none is numbered beyond the writes made.
`CmdInv`: the types of commands and of the one taken. `SentInOrder` is not
inductive without the order across all three.

`StreamExact` needs two more parts. `EarlyInv` ties the count of messages already
delivered by event to what `recv_message` has yet to return, so a message is
skipped exactly when the event has put it. `StreamInv` says that a message
waiting for room in `_inbound` is the last one heard and that the stream holds no
item of a session to come; a queue that drops or repeats would break the count.

### `LinkProofs` and `LinkPairProofs`

Assumption: `LinkAssumption` (two stations; any number of chunks, retries,
sessions, messages, crashes and waiting frames; any modulus of at least 2).

| Theorem | States |
| --- | --- |
| `LinkTypes` | `Spec => []TypeOK` |
| `AlwaysSameSession` | `Spec => []SameSession` |
| `AlwaysCountersAgree` | `Spec => []CountersAgree` |
| `AlwaysOneSpeaker` | `Spec => []OneSpeaker` |
| `AlwaysMessagesIntact` | `Spec => []MessagesIntact` |
| `AlwaysReturnMeansDelivered` | `Spec => []ReturnMeansDelivered` |

**The argument** has four layers. `BaseInv`: types, what a station's record looks
like in each call (`WellFormed`), and no identifier in use that was not drawn.
`HandshakeInv`: CONNECTs wait in the order of their identifiers, a caller's own
call is the last one it made (`Latest`) and, once answered, the only one left
(`Settled`), no call comes back to its caller (`Own`), and of two callers one is
later (`Ahead`). Hence two stations in a session are in the same one.

`PairInv` is about the two counters and the floor. Neither property can be
stated of the stations alone: a listener that has yet to read the CONNECT will
start from fresh counters, whatever they are now, and a caller that has yet to
read its CONNECT_ACK drops what comes before it. So the invariant is stated of
`View`, the state a station has or will start from, and of `Live`, the frames it
will read in the session. `Counters` is the alternating-bit argument: in a queue
nothing older is behind the chunk in hand, and an acknowledgement of it means
that the receiver is one ahead. `Speaking` is the floor: one station holds it,
or neither does and a grant is on its way, and no request is behind it. A step
changes a queue by taking from its front and adding frames of named kinds at its
end (`Evolved`), so each part is preserved by a few such changes, and the
handlers are shown to make only those.

`ContentInv` is about what the chunks say. DATA and DATA_ACK name no session, so
that a chunk or an acknowledgement is the right one has to follow from the
frames around it. While the caller is alive, `CarriesInv` ties the two sides: a
frame with the number in hand is exactly the chunk in hand, the receiver holds
exactly the chunks before it (or with it, if it is one ahead), and it was given
the message if that chunk was the last; before the caller knows that it was
answered nothing of its session has been told (`Untold`). But a station may be left alone in its
session, its peer gone or in a later call, with frames of the session still in its queue: it goes on
taking them. So each station also has what it may conclude alone: every chunk it
will take fits what it has put together (`ReadsRight`), and an acknowledgement
of its last chunk says that the message was given (`LearnsRight`); a listener
has the same of the frames behind a CONNECT it may still answer. These two follow from
`CarriesInv` whenever the peer keys a chunk or an answer, because the two are then
a pair (`PeerRight`), survive every other step, and are all that `OwnBooks` needs
to show both properties of the step that delivers or returns.

### `KeyingProofs` and `ShutdownProofs`

Assumptions: `KeyingAssumption`, `ShutdownAssumption` (any numbers of attempts,
faults and signals).

| Theorem | States |
| --- | --- |
| `KeyingTypeCorrect` | `KeyingSpec => []KeyingTypeOK` |
| `AlwaysDownOrTold` | `KeyingSpec => []DownOrTold` |
| `AlwaysRetryAccounted` | `KeyingSpec => []RetryAccounted` |
| `ShutdownImplementsKeying` | `Spec => ImplementsKeying` |
| `ShutdownTypeCorrect` | `Spec => []TypeOK` |
| `ShutdownOffAtExit` | `Spec => []OffAtExit` |
| `ShutdownNoDiscOnceForced` | `Spec => NoDiscOnceForced` |

`KeyingInv` makes the two properties inductive: the main thread is never inside
`send` (`OnlyWorkerSends`), a thread that un-keys has an attempt left
(`TriesLeft`), `close` claims the transport before it touches the radio
(`ClosedFirst`), and an un-key followed by no key-on left the radio down or the
operator told (`LeftOff`). Because the server refines `Keying`, that invariant
holds of it without a proof of its own. `StopInv` adds where each thread may be
inside the transport at each stage of its own life (`Stages`), that a main thread
that is through and was left alone has un-keyed or found the worker closing
(`Through`), and that no stop is polite after one that was not (`ForcedStays`).

### `ReceiverProofs`

Assumptions: `ReceiverAssumption` (any capacities, frames and search geometry). For
the last two theorems `AirAssumption`: frames of a layout do not overlap, a
peak is on a frame's start or a sample behind it, the guard is shorter than a data
frame. For the last also `PaceAssumption`: the thread reads before a whole
frame is waiting (`MaxLag < Length`), the ring holds a frame and that lag, pruning
keeps a frame (`_rx_keep_seconds` is the longest frame and a second), and preamble,
guard and one block of search (20 ms and 250 ms) are no longer than a data frame. And
`TurnAssumption`: a control frame has been read before the next frame shows its sync
or preamble. The thread polls every 0.15 s (`DECODE_POLL_INTERVAL`); a peer that
repeats a control frame, or goes on, keys again no sooner than `tx_turnaround_delay`
(0.3 s on HF, 0.5 s on FM) after its wait, and its waveform begins with a preamble (0.6 s in
front of the sync of FM's control mode). Control frames may be as close in one ring
as that.

| Theorem | States |
| --- | --- |
| `ReceiverTypeCorrect` | `Spec => []TypeOK` |
| `AlwaysOneCapture` | `Spec => []OneCapture` |
| `AlwaysInOrder` | `Spec => []DeliveredInOrder` |
| `AlwaysNonePassedOver` | `Spec => []NonePassedOver` |

`CaptureInv` has four parts: `Types`; `Captured`, that the tape is one capture from
the buffer's start to the last sample appended and on into the next chunk, and,
while the generations agree, from the ring's start too, so that ring and buffer
join; `Faithful`, that slot `p % Capacity` of the ring holds sample `p` of the tape
for every retained `p`, which rests on no two of at most `Capacity` consecutive
positions sharing a slot; and `Seamless`, that retained samples follow each other.
That a set of near misses has a least element is the library's well-ordering of
the naturals.

`OnceInv` adds that recorded instants rise along the tape across every break
(`Rising`), so a frame begins at one position only; that a buffer of a newer
generation lies behind all that was read (`Stale`); that every delivered frame
begins before the ring's start (`Past`); and that the frame in hand begins in the
ring, before the point it will be consumed to (`InHand`). What can be decoded is in
the ring, and therefore was not delivered (`DeliveredOnce`, part of the invariant),
and was on the air after all that was:
`AlwaysInOrder` is the order `Link` assumes of its channel.

`PassInv` says where a frame must be before its samples are there. Within a capture
a position and its instant differ by `Offset`, so a frame has a `Place`. A frame not
delivered is `Sound` when its place is not before the `Front` (the ring's start, or
the buffer's while the generations differ) and every sample of it so far was heard
there; `Tracked` says that every good frame that has begun and was not damaged is. The
rest keeps consumption away from it: a round begins with at most one whole frame
and ends with none (`NoneRipe`, `OneRipe`), because audio is read before another
can be complete; the frame in hand is consumed to a point no other lies before
(`Chosen`), which is what the guard is for; the search has left no start behind
(`Searchable`) and has tried none in vain (`Attempts`), which is what the context
behind a block is for; and a near miss is skipped to a point where no unfinished
frame begins (`Misses`). `Lag` bounds what is unread, and `Silent` that nothing counts
while we are on the air. `NonePassedOver` follows: a sound frame's first sample is in
the ring or in what will be read into it.

`WholeInv` is about control frames that follow each other in one ring. The control
decoder reports one sync, the one it likes best; were that of a later frame,
still incomplete, the round would wait for it and leave the whole one, and consuming
the later one would take the earlier with it. The invariant says that this does not come
about: a round begins with no control frame that is whole (`NoneWhole`); the round
in which one is whole hears no other sync and nothing else that is whole
(`OneWhole`); if it is damaged the round skips past its sync, if not it consumes it
(`ToSkip`). That the skip is not held up by a pending candidate is `Proposed`: the
search proposes only beginnings of data frames, and none shows yet.

`TurnAssumption` is needed. With control frames back to back and a thread that lags by more
than a sync (`MaxLag = 3` in the `receiver` run's layouts) TLC finds a behaviour in which
the pending second sync is preferred and the first, sound frame is passed over.

### `SweepProofs`

Assumption: `SweepAssumption` (any ladder, burst, number of tries and of faults).

| Theorem | States |
| --- | --- |
| `SweepTypeCorrect` | `Spec => []TypeOK` |
| `AlwaysMeasuredOnce` | `Spec => []MeasuredOnce` |
| `AlwaysReportedAsHeard` | `Spec => []ReportedAsHeard` |
| `AlwaysCountsAddUp` | `Spec => []CountsAddUp` |

The serving side looks before it records (`Recorded`); the walk does not, so
`MeasuredOnce` is not inductive. `SweepInv` adds `Climbs`: the rows of the walk in
progress are all of modes below the one in hand; and `Drawn`: no row names a
sweep not yet drawn, so a walk that begins has no rows, even when a restarted
caller repeats the modes of its last run.

That a row is exact depends on the order of frames. A listener that repeats its
READY, forgets a tally or is asked twice must not answer with less than it
counted, and must not count more once it has answered. `ExactInv` says: frames of
a walk are not ahead of it (`Placed`), follow one station each (`Owned`), and
arrive in the order of the walk (`Sorted`); a burst on its way is never for a
later mode than the armed one (`Answering`); the armed tally is all that
was counted, and an announcement repeated after something was counted finds that
very tally armed (`Counted`); a kept tally that is not exact will not be asked
for (`Kept`); what is in a RESULT or a row is exact and final, because nothing can
arm for its mode again (`Settled`); and the burst's remaining frames have room for
themselves in the tally (`Room`), so that the counts add up. `CountsAddUp` leaves the
row of the control mode out, as `sweep_counts` shows it must: there the near misses of
control frames count too (`Strays`), whatever room there is (`Fits`). In every other
mode the theorem says that no damaged frame of another kind, sweep or mode counts.
`Steps` states once what an action may do to queues, tallies and rows. Every
part of `ExactInv` is preserved by every such step, and each of the seventeen actions is
shown to be one; only the second half looks at the actions.

**Only model-checked**: liveness (`CallEnds`, `CallsReturn`, `HalfOpenHeals`,
`CommandsServed`, `SignalEnds`, `EveryFrameFound`, `Rests`), which is beyond the
prover. Every other invariant, action property and refinement the passing runs check is
also a theorem.

## 5. What is abstracted or left out

- Time. A timeout may fire whenever its wait is in progress, so every property
  holds whatever the airtimes are. `Abandon` requires an empty inbox, as a
  decoded frame refreshes the timer.
- Decoding: for `Link` and `Sweep` a frame is decoded whole, in order, or not at all,
  which `Receiver` establishes (`OneCapture`, `DeliveredInOrder`). Two keyings at
  once are two losses, which the loss choice includes.
- Session identifiers are fresh. The code draws one of 255 at random; a
  collision with the listener's live session is a hazard without a property yet.
- `Link`: two stations, so no CONNECT addressed to a third; `service_while_idle`,
  which nothing in the program calls; version and mode negotiation bodies.
- `Service`: `set_callsign`, `start()` after `stop()`, the status events
  (OUTBOUND_DRAINED), which belong with the adapter.
- `Keying`: CI-V only. `LinePtt` and hamlib drop the line with the port or leave
  un-keying to a daemon, and keep no flag. Opening the devices and finding them
  again is not modelled. `transmit`'s bounded wait for the sound card is `Play`.
- `Shutdown`: the server without `--tui`. With the dashboard the server's loop is
  a daemon thread and no handler is installed. Link operations are packets, and the
  parting DISC is one keying, although `link.disconnect` repeats it: after the
  first, a repetition is another packet of the same kind, and only where it begins
  matters to `NoDiscOnceForced`. `_cmd_lock` held by a thread blocked in `sendall`
  is not modelled, so `SignalEnds` does not speak of it.
- `Receiver`: demodulation is "right when all of the frame's samples are there".
  Candidates are all tried in every round: the time budget of
  `_budgeted_candidates` puts some off, never for ever. Looking at
  `is_transmitting` and reading are one step; no frame fits between the two. The
  check of the generation in `consume_rx_through` is in the model, but its loss
  would not be noticed there: `_rx_end` is never reset, so an old position never
  names new audio. When the control decoder finds two syncs in one
  snapshot, it takes the better one, and an earlier good frame is lost with what it
  consumes; `TurnAssumption` says why there is time to read the first. Data modes that
  decode in batch (all of FM's, HF's but hf7 and hf8) are not modelled.
- `AcceptedIsSent` speaks of the session while it is up: a write that waited for
  room and lands between the flush of a disconnect and `_end_session` is dropped
  with the rest, in the code and in the model, and no property covers it.
- `Sweep`: one pair of stations. Frames of one keying keep their order and a
  station decodes only what it heard since it last keyed, so the identifiers in
  READY are a second line of defence that no run needs.
- VARA adapter: the data sockets. A chunk read for a connection that is being
  replaced is sent to the old socket and lost, two readers may write to one
  session, and `BUFFER 0` may be announced with a write about to land. All are
  in `_data_writer_loop` as written, not results of an order nobody saw.
- Mode history: two processes that save at once lose an entry or share one
  temporary file.
- Headers and bodies (`link_protocol.py`), calls (`framing.py`), the statistics
  behind a step, policies: pure functions with round-trip tests.
- `InboundOfThisSession` leaves out the window between Link's CONNECTED and
  `_begin_session`; `tests/test_modem_service.py` 178-199 expects to read nothing once
  CONNECTED, which the order of the two in `service.py` 299-306 does not
  guarantee on the listening side. The docstring promises it only afterwards.
- Waveforms, DSP, channel simulators: numerical, out of reach. TUIs,
  configuration, measurement tools: presentation and offline statistics.

Differences between documents and code that are constants or wording and have no
run: `LINK.md` 193-194 names three attempts and three chunks for a step, the
code steps down after two (`policy.py` 216, 264) and up by statistics; `LINK.md` 174
gives six attempts per chunk, the code ten on HF, and a re-cut starts again;
requests for the floor go out "up to six times", but a DATA frame restarts the
count; DISC "records the current transmit mode as good", the code records it on
each ACK; a live session must not be replaced, which the listener honours, but a
CONNECT command on a connected station leaves its own session without a DISC.

**Other defects met while modelling, without a run of their own.**

- The idle worker puts a command it took back behind one queued meanwhile
  (`service.py` 309-312): LISTEN ON, LISTEN OFF can leave the station listening.
- `send` returns normally after an un-key nobody confirmed, and only its own
  retry looks at `key_state_unknown`. The next packet, or the parting DISC, keys a
  transmitter whose state is unknown, although `IcomCivPtt` calls it a flag that
  a caller must consult before keying again. `RetryAccounted` is
  stated for retries for that reason. An NG to PTT OFF also sets the flag, which
  the class says any answer clears.
- After the exit hook's un-key, the worker, a daemon thread, may key once more
  before the process is gone (`last = "on"` in `OffAtExit`). A signal that arrives
  during that un-key cuts it short (`interrupted`); a third SIGTERM meets the
  default handler and no exit hook runs at all.
- A signal that finds the main thread in `_send_status` waits for `_cmd_lock` on
  the thread that holds it: the process never ends (`SelfLocked` in `SignalEnds`).
- What the parting DISC raises leaves the worker's `finally` before `link.stop`.
- `serve` takes any frame addressed to it for a sweep served: with a stale READY
  or RESULT in the queue, a lost SWAP is not repeated.
- A repeated announcement that finds no frame decoded yet starts a new tally and
  forgets the near misses counted so far.

## 6. Plan

Done: `MessageStream`, `Arq`, `Link`, `Service`, `Keying`, `Shutdown`, `Receiver`,
`Sweep`, and the proof modules of all of them.

What remains, in this order:

1. `Link`: identifiers from a small set with collisions.
2. `Receiver`: the data modes that decode in batch, with their own near misses.
3. The data sockets of the VARA adapter over `Service`'s interface.
4. The other PTT backends as further instances of `Keying`'s bus.

The rest of the repository is signal processing, simulators, presentation and
offline tools, which a model checker has nothing to say about.
