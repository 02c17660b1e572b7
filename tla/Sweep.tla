------------------------------- MODULE Sweep -------------------------------
(***************************************************************************)
(* whale.sweep: two stations measure, mode by mode, what a radio path      *)
(* carries, without the ARQ.  The caller announces a mode, keys a burst of *)
(* numbered frames, asks for the tally, climbs to the next mode, and hands *)
(* the sweep over; the listener then does the same in the other direction. *)
(*                                                                         *)
(* Each station has an engine (its main thread) and a decode thread that   *)
(* works through what was captured, in order.  Keying throws away what the *)
(* station has captured and not yet decoded (RadioTransport.send).  Any    *)
(* frame may be lost, or synchronise and fail, a near miss.  Every wait    *)
(* may time out at any moment.                                             *)
(***************************************************************************)
EXTENDS Integers, Sequences, FiniteSets

CONSTANTS Caller, Listener,  \* the two stations
          Modes,             \* length of the ladder, the control mode first
          Frames,            \* FRAMES_PER_MODE
          AnnounceRetries,   \* ANNOUNCE_RETRIES
          ResultRetries,     \* RESULT_RETRIES
          FailuresToStop,    \* FAILURES_TO_STOP
          MaxCalls,          \* bound: times the operator starts the caller
          MaxFaults,         \* bound: keyings damaged, waits that end too early
                             \* and callers that disappear
          AirCap             \* bound: frames captured and not yet decoded

ASSUME SweepAssumption ==
  /\ Caller # Listener
  /\ Modes \in Nat \ {0} /\ Frames \in Nat \ {0}
  /\ AnnounceRetries \in Nat \ {0} /\ ResultRetries \in Nat \ {0}
  /\ FailuresToStop \in Nat \ {0}
  /\ MaxCalls \in Nat /\ MaxFaults \in Nat /\ AirCap \in Nat \ {0}

VARIABLES
  pc,        \* where the engine of each station is
  id,        \* the sweep it drives
  mode,      \* the mode it measures
  attempt,   \* which try of the announcement, the request or the hand-over
  failures,  \* modes in a row that decoded nothing
  served,    \* serve(): an addressed frame was handled
  lastSwap,  \* _last_swap
  results,   \* the rows of its report
  armed,     \* SweepReceiver._armed
  held,      \* SweepReceiver._held
  frames,    \* SweepReceiver.frames: control frames decoded
  air,       \* frames captured and not yet decoded
  ids,       \* sweep identifiers drawn so far
  calls,     \* times the caller was started
  faults,    \* of the faults MaxFaults bounds, those so far
  heard      \* history: the burst frames ever counted, by sweep and mode

engine   == <<id, mode, attempt, failures, served, lastSwap, results>>
receiver == <<armed, held>>
book     == <<ids, calls, heard>>
vars == <<pc, engine, receiver, frames, air, faults, book>>

Stations == {Caller, Listener}
Peer(s) == IF s = Caller THEN Listener ELSE Caller
Seqs == 0 .. Frames - 1
Control == 1

----------------------------------------------------------------------------
(* Frames on the air *)

\* The caller's process has ended, or has not begun.
Over == {"off", "done", "failed"}
Up(s) == pc[s] \notin Over

Frame(type, s, m) == [type |-> type, sid |-> s, mode |-> m, fate |-> "whole"]

\* What can be left at the far end of the frames of one keying: any part of
\* them, in order, each whole or as a near miss.
Heard(fs) ==
  UNION {{[i \in 1 .. n |-> [fs[at[i]] EXCEPT !.fate = fate[i]]] :
            at \in {k \in [1 .. n -> DOMAIN fs] : \A i, j \in 1 .. n : i < j => k[i] < k[j]},
            fate \in [1 .. n -> {"near", "whole"}]} :
           n \in 0 .. Len(fs)}

Fault(happens) ==
  /\ faults' = IF happens THEN faults + 1 ELSE faults
  /\ faults' <= MaxFaults

\* RadioTransport.send: what this station has captured is cleared.
Key(s, sent, arrivals) ==
  \E h \in arrivals :
    /\ Fault(h # sent)
    /\ air' = [air EXCEPT ![s] = << >>,
                          ![Peer(s)] = IF Up(Peer(s)) /\ Len(@ \o h) <= AirCap
                                       THEN @ \o h ELSE @]

\* _tx_control
TxControl(s, f) == Key(s, <<f>>, Heard(<<f>>))

\* _tx_burst: one keying, the frames back to back
TxBurst(s) ==
  LET burst == [i \in 1 .. Frames |->
                 [type |-> "DATA", sid |-> id[s], mode |-> mode[s],
                  seq |-> i - 1, fate |-> "whole"]]
  IN Key(s, burst, Heard(burst))

----------------------------------------------------------------------------
(* The receiver *)

None == [sid |-> 0, mode |-> 0, decoded |-> {}, near |-> 0]
Fresh(s, m) == [sid |-> s, mode |-> m, decoded |-> {}, near |-> 0]

\* Mutant of Arm: every announcement starts a new tally.
ArmFresh(s, sid, m) == armed' = [armed EXCEPT ![s] = Fresh(sid, m)]

\* arm: a repeated announcement does not throw away what was decoded.
Arm(s, sid, m) ==
  armed' = [armed EXCEPT ![s] =
             IF @.sid = sid /\ @.mode = m /\ @.decoded # {} THEN @
             ELSE Fresh(sid, m)]

\* _disarm_locked: the tally is kept for a caller that asks again.
Disarm(s) ==
  /\ held' = [held EXCEPT ![s] = armed[s]]
  /\ armed' = [armed EXCEPT ![s] = None]

\* _accept: the burst this station is armed for
Accepts(s, f) == armed[s].mode = f.mode /\ armed[s].sid = f.sid

\* _candidate_decode_profiles: the control mode, and the armed one first
Searched(s) == {Control, armed[s].mode}

\* The mode a frame was keyed at
KeyedAt(f) == IF f.type = "DATA" THEN f.mode ELSE Control

\* Mutant of NoteNearMiss: whatever the mode, it counts.
NoteAnyNearMiss(s, f) ==
  armed' = [armed EXCEPT ![s].near = IF armed[s] # None THEN @ + 1 ELSE @]

\* _note_near_miss: a near miss names no sweep and no type, so only the mode
\* it was found at decides whether it counts.
NoteNearMiss(s, f) ==
  armed' = [armed EXCEPT ![s].near = IF armed[s].mode = KeyedAt(f) THEN @ + 1 ELSE @]

\* SweepReceiver._decode_one, _accept: the next thing in the captured audio,
\* which goes by unseen when its mode is not one of those searched.
Decode(s) ==
  /\ Up(s) /\ air[s] # << >>
  /\ air' = [air EXCEPT ![s] = Tail(@)]
  /\ LET f == Head(air[s]) IN
       \/ /\ KeyedAt(f) \notin Searched(s)
          /\ UNCHANGED <<armed, frames, heard>>
       \/ /\ KeyedAt(f) \in Searched(s) /\ f.fate = "near"
          /\ NoteNearMiss(s, f)
          /\ UNCHANGED <<frames, heard>>
       \/ /\ f.fate = "whole" /\ f.type # "DATA"
          /\ frames' = [frames EXCEPT ![s] = Append(@, f)]
          /\ UNCHANGED <<armed, heard>>
       \/ /\ KeyedAt(f) \in Searched(s) /\ f.fate = "whole" /\ f.type = "DATA"
          /\ IF Accepts(s, f)
             THEN /\ armed' = [armed EXCEPT ![s].decoded = @ \union {f.seq}]
                  /\ heard' = heard \union {<<f.sid, f.mode, f.seq>>}
             ELSE UNCHANGED <<armed, heard>>
          /\ UNCHANGED frames
  /\ UNCHANGED <<pc, engine, held, faults, ids, calls>>

Waiting == {"awaitReady", "awaitResult", "serve"} \union Over

\* Nothing is on its way to this station, nor about to be sent.
Quiet(s) ==
  /\ pc[Peer(s)] \in Waiting
  /\ \A t \in Stations : Up(t) => air[t] = << >> /\ frames[t] = << >>

\* A wait ends without what it waits for: that it never comes, or, a fault,
\* that it is still on its way.
TimesOut(s) == Fault(~Quiet(s))

\* Mutant of WindowPassed: the armed listener waits for its burst for ever.
WindowNever(s) == FALSE

\* The deadline of arm, pushed out by every frame, leaves serve the time to
\* handle what has been decoded.
WindowPassed(s) == armed[s] # None /\ frames[s] = << >>

\* check_expiry, at every turn of serve
Expire(s) ==
  /\ pc[s] = "serve" /\ WindowPassed(s)
  /\ TimesOut(s)
  /\ Disarm(s)
  /\ UNCHANGED <<pc, engine, frames, air, book>>

\* RESULT_HOLD_SECONDS have passed.
Forget(s) ==
  /\ Up(s) /\ held[s] # None
  /\ TimesOut(s)
  /\ held' = [held EXCEPT ![s] = None]
  /\ UNCHANGED <<pc, engine, armed, frames, air, book>>

----------------------------------------------------------------------------
(* The walk up the ladder: _measure_all, _measure, _announce, _collect *)

\* A row of the report: what the far end told, or, unanswered, nothing.
Row(dir, sid, m, tally, answered) ==
  [dir |-> dir, sid |-> sid, mode |-> m, answered |-> answered,
   decoded |-> tally.decoded, near |-> tally.near,
   missed |-> LET left == Frames - Cardinality(tally.decoded) - tally.near
              IN IF left > 0 THEN left ELSE 0]

Begin(s) ==
  /\ pc' = [pc EXCEPT ![s] = "announce"]
  /\ id' = [id EXCEPT ![s] = ids + 1]
  /\ ids' = ids + 1
  /\ mode' = [mode EXCEPT ![s] = Control]
  /\ attempt' = [attempt EXCEPT ![s] = 1]
  /\ failures' = [failures EXCEPT ![s] = 0]

\* The walk is over: the caller hands over, the listener says DONE.
WalkEnds(s) == IF s = Caller THEN "swap" ELSE "bye"

\* The counters of a walk are its own.
WalkOver(s) ==
  /\ mode' = [mode EXCEPT ![s] = Control]
  /\ attempt' = [attempt EXCEPT ![s] = 1]
  /\ failures' = [failures EXCEPT ![s] = 0]

\* Mutant of LadderEnds: one mode too many.
LadderEndsLate(s) == mode[s] > Modes
LadderEnds(s) == mode[s] = Modes

\* One mode has its row: the next one, unless two in a row decoded nothing.
Measured(s, row) ==
  LET failed == IF row.decoded = {} THEN failures[s] + 1 ELSE 0
      over == LadderEnds(s) \/ failed >= FailuresToStop
  IN /\ results' = [results EXCEPT ![s] = Append(@, row)]
     /\ pc' = [pc EXCEPT ![s] = IF over THEN WalkEnds(s) ELSE "announce"]
     /\ IF over
        THEN WalkOver(s)
        ELSE /\ mode' = [mode EXCEPT ![s] = @ + 1]
             /\ attempt' = [attempt EXCEPT ![s] = 1]
             /\ failures' = [failures EXCEPT ![s] = failed]
     /\ UNCHANGED <<id, served, lastSwap>>

Announce(s) ==
  /\ pc[s] = "announce"
  /\ TxControl(s, Frame("ANNOUNCE", id[s], mode[s]))
  /\ pc' = [pc EXCEPT ![s] = "awaitReady"]
  /\ UNCHANGED <<engine, receiver, frames, book>>

\* No answer: announce again, or give the walk up; a caller that measured
\* nothing fails, and a listener's SweepError ends in serve.
AnnounceTimeout(s) ==
  /\ pc[s] = "awaitReady"
  /\ TimesOut(s)
  /\ IF attempt[s] < AnnounceRetries
     THEN /\ attempt' = [attempt EXCEPT ![s] = @ + 1]
          /\ pc' = [pc EXCEPT ![s] = "announce"]
          /\ UNCHANGED <<mode, failures>>
     ELSE /\ WalkOver(s)
          /\ pc' = [pc EXCEPT ![s] =
                     IF s = Caller /\ results[s] = << >> THEN "failed"
                     ELSE WalkEnds(s)]
  /\ UNCHANGED <<id, served, lastSwap, results, receiver, frames, air, book>>

IsReady(s, f) == f.type = "READY" /\ f.sid = id[s] /\ f.mode = mode[s]
IsResult(s, f) == f.type = "RESULT" /\ f.sid = id[s]

HearReady(s) ==
  /\ pc[s] = "awaitReady" /\ frames[s] # << >>
  /\ IsReady(s, Head(frames[s]))
  /\ frames' = [frames EXCEPT ![s] = Tail(@)]
  /\ TxBurst(s)
  /\ pc' = [pc EXCEPT ![s] = "ask"]
  /\ attempt' = [attempt EXCEPT ![s] = 1]
  /\ UNCHANGED <<id, mode, failures, served, lastSwap, results, receiver,
                 book>>

Ask(s) ==
  /\ pc[s] = "ask"
  /\ TxControl(s, Frame("ASK", id[s], mode[s]))
  /\ pc' = [pc EXCEPT ![s] = "awaitResult"]
  /\ UNCHANGED <<engine, receiver, frames, book>>

\* One try of _collect is spent: ask again, or record that nothing came.
AskAgain(s) ==
  IF attempt[s] < ResultRetries
  THEN /\ attempt' = [attempt EXCEPT ![s] = @ + 1]
       /\ pc' = [pc EXCEPT ![s] = "ask"]
       /\ UNCHANGED <<id, mode, failures, served, lastSwap, results>>
  ELSE Measured(s, Row("TX", id[s], mode[s], None, FALSE))

AskTimeout(s) ==
  /\ pc[s] = "awaitResult"
  /\ TimesOut(s)
  /\ AskAgain(s)
  /\ UNCHANGED <<receiver, frames, air, book>>

\* _collect looks at the mode of the result only after the wait.
HearResult(s) ==
  /\ pc[s] = "awaitResult" /\ frames[s] # << >>
  /\ IsResult(s, Head(frames[s]))
  /\ frames' = [frames EXCEPT ![s] = Tail(@)]
  /\ LET f == Head(frames[s]) IN
       IF f.mode = mode[s]
       THEN Measured(s, Row("TX", id[s], mode[s], f.tally, TRUE))
       ELSE AskAgain(s)
  /\ UNCHANGED <<receiver, air, faults, book>>

\* _await_frame drops what the wait is not for.
HearOther(s) ==
  /\ frames[s] # << >>
  /\ \/ pc[s] = "awaitReady" /\ ~IsReady(s, Head(frames[s]))
     \/ pc[s] = "awaitResult" /\ ~IsResult(s, Head(frames[s]))
  /\ frames' = [frames EXCEPT ![s] = Tail(@)]
  /\ UNCHANGED <<pc, engine, receiver, air, faults, book>>

----------------------------------------------------------------------------
(* Handing over, and serving *)

\* _hand_over: ask the far end to sweep this way, and serve it.
Swap(s) ==
  /\ pc[s] = "swap"
  /\ TxControl(s, Frame("SWAP", id[s], 0))
  /\ served' = [served EXCEPT ![s] = FALSE]
  /\ pc' = [pc EXCEPT ![s] = "serve"]
  /\ UNCHANGED <<id, mode, attempt, failures, lastSwap, results, receiver,
                 frames, book>>

\* The end of _serve_frame's SWAP
Bye(s) ==
  /\ pc[s] = "bye"
  /\ TxControl(s, Frame("DONE", lastSwap[s], 0))
  /\ pc' = [pc EXCEPT ![s] = "serve"]
  /\ UNCHANGED <<engine, receiver, frames, book>>

\* serve's timeout, which only a hand-over has
ServeTimeout(s) ==
  /\ s = Caller /\ pc[s] = "serve"
  /\ TimesOut(s)
  /\ IF served[s] \/ attempt[s] >= AnnounceRetries
     THEN /\ pc' = [pc EXCEPT ![s] = "done"]
          /\ UNCHANGED attempt
     ELSE /\ pc' = [pc EXCEPT ![s] = "swap"]
          /\ attempt' = [attempt EXCEPT ![s] = @ + 1]
  /\ UNCHANGED <<id, mode, failures, served, lastSwap, results, receiver,
                 frames, air, book>>

\* A frame for the serve loop; the listener's call of serve never returns,
\* so only the caller's remembers that it has served.
Serving(s, type) ==
  /\ pc[s] = "serve" /\ frames[s] # << >>
  /\ Head(frames[s]).type = type
  /\ frames' = [frames EXCEPT ![s] = Tail(@)]
  /\ served' = [served EXCEPT ![s] = s = Caller]

\* _serve_announce
ServeAnnounce(s) ==
  /\ Serving(s, "ANNOUNCE")
  /\ LET f == Head(frames[s]) IN
       /\ Arm(s, f.sid, f.mode)
       /\ TxControl(s, Frame("READY", f.sid, f.mode))
  /\ UNCHANGED <<pc, id, mode, attempt, failures, lastSwap, results, held,
                 book>>

\* Mutant of Recorded: every answered request is recorded.
RecordedNever(s, f) == FALSE

\* _recorded
Recorded(s, f) ==
  \E i \in DOMAIN results[s] :
    /\ results[s][i].dir = "RX"
    /\ results[s][i].sid = f.sid /\ results[s][i].mode = f.mode

\* _serve_ask: stop counting, record the tally once, and answer.
ServeAsk(s) ==
  /\ Serving(s, "ASK")
  /\ LET f == Head(frames[s])
         counting == armed[s].sid = f.sid /\ armed[s].mode = f.mode
         tally == IF counting THEN armed[s] ELSE held[s]
     IN /\ IF counting THEN Disarm(s) ELSE UNCHANGED receiver
        /\ IF tally # None /\ tally.sid = f.sid /\ tally.mode = f.mode
           THEN /\ results' = [results EXCEPT ![s] =
                                IF Recorded(s, f) THEN @
                                ELSE Append(@, Row("RX", f.sid, f.mode, tally, TRUE))]
                /\ TxControl(s, [type |-> "RESULT", sid |-> f.sid,
                                 mode |-> f.mode, fate |-> "whole",
                                 tally |-> tally])
           ELSE UNCHANGED <<results, air, faults>>
  /\ UNCHANGED <<pc, id, mode, attempt, failures, lastSwap, book>>

\* _serve_frame's SWAP.  One repeated because its DONE was lost is answered,
\* and not swept again.
ServeSwap(s) ==
  /\ Serving(s, "SWAP")
  /\ LET f == Head(frames[s]) IN
       IF f.sid = lastSwap[s]
       THEN /\ TxControl(s, Frame("DONE", f.sid, 0))
            /\ UNCHANGED <<pc, id, ids, mode, attempt, failures, lastSwap>>
       ELSE /\ lastSwap' = [lastSwap EXCEPT ![s] = f.sid]
            /\ Begin(s)
            /\ UNCHANGED <<air, faults>>
  /\ UNCHANGED <<results, receiver, calls, heard>>

\* DONE ends a hand-over; the listener's loop goes on.
ServeDone(s) ==
  /\ Serving(s, "DONE")
  /\ pc' = [pc EXCEPT ![s] = IF s = Caller THEN "done" ELSE @]
  /\ UNCHANGED <<id, mode, attempt, failures, lastSwap, results, receiver,
                 air, faults, book>>

\* An answer to a wait that has ended is no frame to serve.
ServeStale(s) ==
  /\ \E type \in {"READY", "RESULT"} : Serving(s, type)
  /\ UNCHANGED <<pc, id, mode, attempt, failures, lastSwap, results, receiver,
                 air, faults, book>>

----------------------------------------------------------------------------
(* The operator *)

Clean(s) ==
  /\ results' = [results EXCEPT ![s] = << >>]
  /\ lastSwap' = [lastSwap EXCEPT ![s] = 0]
  /\ armed' = [armed EXCEPT ![s] = None]
  /\ held' = [held EXCEPT ![s] = None]
  /\ frames' = [frames EXCEPT ![s] = << >>]
  /\ air' = [air EXCEPT ![s] = << >>]
  /\ served' = [served EXCEPT ![s] = FALSE]

\* run_caller in a new process
Start ==
  /\ calls < MaxCalls
  /\ pc[Caller] \in Over
  /\ calls' = calls + 1
  /\ Begin(Caller) /\ Clean(Caller)
  /\ UNCHANGED <<faults, heard>>

\* The caller is stopped part way, or disappears.
Vanish ==
  /\ Up(Caller)
  /\ pc' = [pc EXCEPT ![Caller] = "off"]
  /\ Clean(Caller)
  /\ Fault(TRUE)
  /\ UNCHANGED <<id, mode, attempt, failures, book>>

----------------------------------------------------------------------------
Init ==
  /\ pc = [s \in Stations |-> IF s = Caller THEN "off" ELSE "serve"]
  /\ id = [s \in Stations |-> 0]
  /\ mode = [s \in Stations |-> Control]
  /\ attempt = [s \in Stations |-> 1]
  /\ failures = [s \in Stations |-> 0]
  /\ served = [s \in Stations |-> FALSE]
  /\ lastSwap = [s \in Stations |-> 0]
  /\ results = [s \in Stations |-> << >>]
  /\ armed = [s \in Stations |-> None]
  /\ held = [s \in Stations |-> None]
  /\ frames = [s \in Stations |-> << >>]
  /\ air = [s \in Stations |-> << >>]
  /\ ids = 0 /\ calls = 0 /\ faults = 0 /\ heard = {}

Engine(s) ==
  \/ Announce(s) \/ AnnounceTimeout(s) \/ HearReady(s)
  \/ Ask(s) \/ AskTimeout(s) \/ HearResult(s) \/ HearOther(s)
  \/ Swap(s) \/ Bye(s) \/ ServeTimeout(s)
  \/ ServeAnnounce(s) \/ ServeAsk(s) \/ ServeSwap(s) \/ ServeDone(s) \/ ServeStale(s)

Next ==
  \/ \E s \in Stations : Engine(s) \/ Decode(s) \/ Expire(s) \/ Forget(s)
  \/ Start \/ Vanish

\* The engine's waits have deadlines and the decode thread runs; what the
\* operator does is free.
Fairness == \A s \in Stations : WF_vars(Engine(s)) /\ WF_vars(Decode(s)) /\ WF_vars(Expire(s))

Spec == Init /\ [][Next]_vars
FairSpec == Spec /\ Fairness
----------------------------------------------------------------------------
(* Properties *)

TallyType == [sid : 0 .. ids, mode : 0 .. Modes, decoded : SUBSET Seqs, near : Nat]
FrameTypes == {"ANNOUNCE", "READY", "ASK", "RESULT", "SWAP", "DONE", "DATA"}

\* The type invariant; the sweep a frame or a tally names has been drawn.
TypeOK ==
  /\ pc \in [Stations -> {"off", "announce", "awaitReady", "ask", "awaitResult",
                          "swap", "bye", "serve", "done", "failed"}]
  /\ id \in [Stations -> 0 .. ids] /\ lastSwap \in [Stations -> 0 .. ids]
  /\ mode \in [Stations -> 1 .. Modes]
  /\ attempt \in [Stations -> Nat \ {0}] /\ failures \in [Stations -> 0 .. FailuresToStop]
  /\ served \in [Stations -> BOOLEAN]
  /\ armed \in [Stations -> TallyType] /\ held \in [Stations -> TallyType]
  /\ \A s \in Stations : \A q \in {frames[s], air[s]} : \A i \in DOMAIN q :
       /\ q[i].type \in FrameTypes
       /\ q[i].sid \in 0 .. ids /\ q[i].mode \in 0 .. Modes
  /\ heard \subseteq (1 .. ids) \X (1 .. Modes) \X Seqs
  /\ ids \in Nat /\ calls \in 0 .. MaxCalls /\ faults \in 0 .. MaxFaults

Rows(s) == {results[s][i] : i \in DOMAIN results[s]}

\* An answered row, at either end, names the very frames the receiving station
\* has counted of that sweep and mode: repeating the announcement, the request
\* or the answer neither loses a frame nor adds one (arm, _serve_ask, _measure).
ReportedAsHeard ==
  \A s \in Stations : \A row \in Rows(s) :
    row.answered =>
      row.decoded = {seq \in Seqs : <<row.sid, row.mode, seq>> \in heard}

\* A report has one row for a direction, sweep and mode: a request repeated
\* because its answer was lost is not recorded again (_recorded).
MeasuredOnce ==
  \A s \in Stations : \A i, j \in DOMAIN results[s] :
    i # j => \/ results[s][i].dir # results[s][j].dir
             \/ results[s][i].sid # results[s][j].sid
             \/ results[s][i].mode # results[s][j].mode

AddsUp(row) == Cardinality(row.decoded) + row.near + row.missed = Frames

\* Every frame of a burst above the control mode is counted once: decoded, near
\* miss or never seen add up to what was sent, whatever else of the exchange is
\* damaged while the burst is being counted (Tally, _note_near_miss, arm).
CountsAddUp == \A s \in Stations : \A row \in Rows(s) : row.mode # Control => AddsUp(row)

\* Whatever is lost and whoever gives up or disappears part way, the caller's
\* run ends and the listener is back in its loop with nothing armed: one
\* aborted sweep does not brick a station left to sit there until morning.
Rests == []<>(~Up(Caller) /\ pc[Listener] = "serve" /\ armed[Listener] = None)

----------------------------------------------------------------------------
(* What the repository says, and the code does not do *)

\* "Only the armed mode's own near misses count: a stray sync at the control
\* mode is not one of the frames being measured" - at no mode, then, are more
\* frames accounted for than the burst had.
NearMissesAreTheBursts == \A s \in Stations : \A row \in Rows(s) : AddsUp(row)
=============================================================================
