------------------------------ MODULE Shutdown ------------------------------
(***************************************************************************)
(* How a whale-server goes off the air: the worker of ModemService, which  *)
(* sends and ends with link.stop; the signal ladder and the serve loop of  *)
(* vara_server on the main thread; the exit hook of the transport.  What   *)
(* the two threads do to the radio is Keying's.                            *)
(*                                                                         *)
(* A signal is handled on the main thread, on top of whatever it was       *)
(* doing.  When the main thread is through, the process ends and a worker  *)
(* still running stops where it is: it is a daemon thread.                 *)
(***************************************************************************)
EXTENDS Keying

CONSTANT MaxSignals    \* bound: signals sent to the process

ASSUME ShutdownAssumption == MaxSignals \in Nat

VARIABLES
  worker,       \* where ModemService._run is
  session,      \* the link is CONNECTED
  stopping,     \* the service's _stopping
  graceful,     \* _graceful_stop
  main,         \* where the main thread is
  held,         \* the main thread holds _cmd_lock
  asked,        \* a first signal has been taken
  ladder,       \* the ladder's handlers are installed, not the defaults
  signals,      \* signals so far
  forced,       \* history: a stop without the courtesy has been ordered
  interrupted,  \* history: a signal broke into the last un-key
  ended         \* how the process ended

service == <<worker, session, stopping, graceful>>
server  == <<main, held, asked, ladder, signals, forced, interrupted, ended>>
vars    == <<keyingVars, service, server>>

Running == ended = "no"

----------------------------------------------------------------------------
(* The worker: ModemService._run *)

\* The head of the loop
Turn ==
  /\ worker = "loop"
  /\ worker' = IF stopping THEN "ending" ELSE "busy"
  /\ UNCHANGED <<session, stopping, graceful, keyingVars, server>>

\* A link operation sends a packet.  It says so on the command port first.
SendPacket ==
  /\ worker = "busy" /\ at[Worker] = "out" /\ ~held
  /\ SendStarts(Worker)
  /\ UNCHANGED <<service, server>>

\* The session begins, or ends by the peer or by itself.
SessionChanges ==
  /\ worker = "busy" /\ at[Worker] = "out"
  /\ session' = ~session
  /\ UNCHANGED <<worker, stopping, graceful, keyingVars, server>>

\* The operation is over, or a LinkError leaves _drain_commands and the loop.
OperationEnds ==
  /\ worker = "busy" /\ at[Worker] = "out"
  /\ worker' \in {"loop", "ending"}
  /\ UNCHANGED <<session, stopping, graceful, keyingVars, server>>

\* Only LinkError is caught: what send raises ends the loop.
SendFails ==
  /\ worker = "busy" /\ at[Worker] = "raised"
  /\ worker' = "ending"
  /\ UNCHANGED <<session, stopping, graceful, keyingVars, server>>

\* Mutant of PartingDisc: a forced stop says goodbye all the same.
PartingDiscAlways == session
PartingDisc == session /\ graceful

\* The finally of _run: the parting DISC, which is a packet like any other,
\* or at once link.stop.
Ending ==
  /\ worker = "ending"
  /\ IF PartingDisc
     THEN /\ ~held
          /\ SendStarts(Worker) /\ worker' = "disc"
     ELSE CloseStarts(Worker) /\ worker' = "closing"
  /\ UNCHANGED <<session, stopping, graceful, server>>

\* Raised out of the finally, an exception skips link.stop.
DiscEnds ==
  /\ worker = "disc"
  /\ \/ /\ at[Worker] = "out"
        /\ session' = FALSE
        /\ CloseStarts(Worker) /\ worker' = "closing"
     \/ /\ at[Worker] = "raised"
        /\ worker' = "dead"
        /\ UNCHANGED <<session, keyingVars>>
  /\ UNCHANGED <<stopping, graceful, server>>

WorkerDies ==
  /\ worker = "closing" /\ at[Worker] = "out"
  /\ worker' = "dead"
  /\ UNCHANGED <<session, stopping, graceful, keyingVars, server>>

----------------------------------------------------------------------------
(* The main thread: serve_forever *)

\* _send_status, for a command of the client
StatusStarts ==
  /\ main = "serving" /\ ~held
  /\ held' = TRUE
  /\ UNCHANGED <<keyingVars, service, main, asked, ladder, signals, forced, interrupted, ended>>

StatusEnds ==
  /\ main = "serving" /\ held
  /\ held' = FALSE
  /\ UNCHANGED <<keyingVars, service, main, asked, ladder, signals, forced, interrupted, ended>>

\* ModemService.stop, up to the join
OrderStop(polite) ==
  /\ stopping' = TRUE /\ graceful' = polite
  /\ UNCHANGED <<worker, session>>

\* The command connection or the listener fails: the loop's own finally.
LoopFails ==
  /\ main = "serving" /\ ~held
  /\ OrderStop(TRUE)
  /\ main' = "joiningNow"
  /\ UNCHANGED <<keyingVars, held, asked, ladder, signals, forced, interrupted, ended>>

----------------------------------------------------------------------------
(* The ladder: stop_on_signals *)

\* A handler of the ladder, or Python's own: SIGINT raises, SIGTERM kills.
\* Breaking into the exit hook, each of them ends its un-key.
Signal(kind) ==
  /\ signals < MaxSignals /\ signals' = signals + 1
  /\ LET leaving == main = "leaving"
         kills == ~ladder /\ kind = "SIGTERM"
     IN /\ ended' = IF kills THEN "killed" ELSE ended
        /\ asked' = (asked \/ ladder)
        /\ ladder' = (ladder /\ ~asked)
        /\ main' = IF kills \/ leaving THEN main
                   ELSE IF ladder THEN (IF asked THEN "again" ELSE "asked")
                   ELSE "raise"
        /\ IF leaving /\ ~kills
           THEN /\ IF at[Main] = "out" \/ at[Main] = "port" THEN UNCHANGED keyingVars
                   ELSE Interrupted
                /\ interrupted' = TRUE
           ELSE UNCHANGED <<keyingVars, interrupted>>
  /\ UNCHANGED <<service, held, forced>>

\* StationServer.stop takes _cmd_lock on its way to the service; it is not
\* re-entrant.
Asked ==
  /\ main = "asked" /\ ~held
  /\ OrderStop(TRUE)
  /\ main' = "joining"
  /\ UNCHANGED <<keyingVars, held, asked, ladder, signals, forced, interrupted, ended>>

\* The worker is done within the grace, or the stop is ordered again.
Joined ==
  /\ main = "joining"
  /\ \/ worker = "dead" /\ main' = "raise" /\ UNCHANGED ladder
     \/ worker # "dead" /\ main' = "again" /\ ladder' = FALSE
  /\ UNCHANGED <<keyingVars, service, held, asked, signals, forced, interrupted, ended>>

Again ==
  /\ main = "again" /\ ~held
  /\ OrderStop(FALSE)
  /\ forced' = TRUE
  /\ main' = "joiningNow"
  /\ UNCHANGED <<keyingVars, held, asked, ladder, signals, interrupted, ended>>

\* Mutant of JoinedNow: the join has no timeout.
JoinedAtLast ==
  /\ main = "joiningNow" /\ worker = "dead"
  /\ main' = "raise"
  /\ UNCHANGED <<keyingVars, service, held, asked, ladder, signals, forced, interrupted, ended>>

\* The short join ends, whether the worker has or not.
JoinedNow ==
  /\ main = "joiningNow"
  /\ main' = "raise"
  /\ UNCHANGED <<keyingVars, service, held, asked, ladder, signals, forced, interrupted, ended>>

\* Mutant of LoopUnwinds: the loop's finally stops the service once more.
LoopUnwindsTwice == OrderStop(TRUE)

\* serve_forever's finally stops the service only when nobody has.
LoopUnwinds == UNCHANGED service

\* Mutant of ExitHook: the hook closes the PTT itself, claiming nothing.
ExitHookUnclaimed ==
  /\ Goto(Main, "lastOff") /\ tries' = [tries EXCEPT ![Main] = 0]
  /\ UNCHANGED <<hardware, port, unknown, alarm, lock, sending, closing>>

\* _unkey_at_exit
ExitHook == CloseStarts(Main)

\* The exception unwinds the main thread; the interpreter runs its exit hooks.
Raise ==
  /\ main = "raise"
  /\ LoopUnwinds
  /\ held' = FALSE
  /\ main' = "leaving"
  /\ IF exitHook THEN ExitHook ELSE UNCHANGED keyingVars
  /\ UNCHANGED <<asked, ladder, signals, forced, interrupted, ended>>

Leaves ==
  /\ main = "leaving" /\ at[Main] = "out"
  /\ ended' = "exited"
  /\ UNCHANGED <<keyingVars, service, main, held, asked, ladder, signals, forced, interrupted>>

----------------------------------------------------------------------------
Init ==
  /\ KeyingInit
  /\ worker = "loop" /\ session = FALSE /\ stopping = FALSE /\ graceful = TRUE
  /\ main = "serving" /\ held = FALSE /\ asked = FALSE /\ ladder = TRUE
  /\ signals = 0 /\ forced = FALSE /\ interrupted = FALSE /\ ended = "no"

WorkerStep ==
  \/ Turn \/ OperationEnds \/ SendFails \/ Ending \/ DiscEnds \/ WorkerDies
  \/ Inside(Worker) /\ UNCHANGED <<service, server>>

MainStep ==
  \/ StatusEnds \/ Asked \/ Joined \/ Again \/ JoinedNow \/ Raise \/ Leaves
  \/ Inside(Main) /\ UNCHANGED <<service, server>>

Next ==
  /\ Running
  /\ \/ WorkerStep \/ MainStep
     \/ SendPacket \/ SessionChanges \/ StatusStarts \/ LoopFails
     \/ \E kind \in {"SIGINT", "SIGTERM"} : Signal(kind)
     \/ BusChanges /\ UNCHANGED <<service, server>>

\* Both threads run, and the PTT lock, which the worker leaves free for whole
\* packets at a time, is not kept from the main thread for ever.  Sessions,
\* clients, signals and faults come as they like.
Fairness == SF_vars(Running /\ MainStep) /\ WF_vars(Running /\ WorkerStep)

Spec == Init /\ [][Next]_vars
FairSpec == Spec /\ Fairness
----------------------------------------------------------------------------
(* Properties *)

TypeOK ==
  /\ KeyingTypeOK
  /\ worker \in {"loop", "busy", "ending", "disc", "closing", "dead"}
  /\ session \in BOOLEAN /\ stopping \in BOOLEAN /\ graceful \in BOOLEAN
  /\ main \in {"serving", "asked", "joining", "again", "joiningNow", "raise", "leaving"}
  /\ held \in BOOLEAN /\ asked \in BOOLEAN /\ ladder \in BOOLEAN
  /\ signals \in 0 .. MaxSignals /\ forced \in BOOLEAN /\ interrupted \in BOOLEAN
  /\ ended \in {"no", "exited", "killed"}

\* Every use the server makes of the transport is one Keying allows, so what
\* is proved of Keying holds of the running server.
ImplementsKeying == KeyingSpec

\* A process that ends by itself, at whatever moment of a transmission the
\* signals and the joins' timeouts catch its worker, leaves the transmitter
\* down or the operator told (close, _unkey_at_exit).  The two ways it does not
\* are named: a worker that keys after the last un-key, and a signal that
\* breaks into that un-key.
OffAtExit ==
  ended = "exited" => ~carrier \/ alarm \/ last = "on" \/ interrupted

\* After a stop without the courtesy has been ordered no parting DISC begins,
\* whichever of the main thread's stops comes later (_graceful_stop, the
\* finally of serve_forever).
NoDiscOnceForced == [][forced /\ worker' = "disc" => worker = "disc"]_vars

\* The main thread waits for a lock it holds itself.
SelfLocked == held /\ main \in {"asked", "again"}

\* One signal is enough to end the process, however the radio fails and however
\* long the worker is on the air, but for a signal that finds the main thread
\* in _send_status.
SignalEnds == signals > 0 ~> ~Running \/ SelfLocked
=============================================================================
