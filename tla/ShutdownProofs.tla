--------------------------- MODULE ShutdownProofs ---------------------------
(***************************************************************************)
(* Proofs about Shutdown, for any number of signals.  The server uses the  *)
(* transport as Keying allows, so KeyingInv holds of it; Stages says where *)
(* each thread may be inside the transport at each stage of its own life,  *)
(* ForcedStays that no later stop is polite.                               *)
(***************************************************************************)
EXTENDS Shutdown, KeyingProofs

ServerTypes ==
  /\ worker \in {"loop", "busy", "ending", "disc", "closing", "dead"}
  /\ session \in BOOLEAN /\ stopping \in BOOLEAN /\ graceful \in BOOLEAN
  /\ main \in {"serving", "asked", "joining", "again", "joiningNow", "raise", "leaving"}
  /\ held \in BOOLEAN /\ asked \in BOOLEAN /\ ladder \in BOOLEAN
  /\ signals \in 0 .. MaxSignals /\ forced \in BOOLEAN /\ interrupted \in BOOLEAN
  /\ ended \in {"no", "exited", "killed"}

InClose == {"claim", "lastOff", "lastBlind", "port"}

\* A worker that is ending sends no more, a main thread that is not leaving does
\* not close, and only these two close.
Stages ==
  /\ worker \in {"closing", "dead"} =>
       at[Worker] \notin {"keyOn", "play", "off", "blind", "sent"}
  /\ at[Worker] \in InClose => worker = "closing"
  /\ main # "leaving" => at[Main] = "out"
  /\ closed => main = "leaving" \/ worker \in {"closing", "dead"}

\* A main thread that is through, and was left alone, has un-keyed or has found
\* the worker closing.
Through ==
  main = "leaving" /\ ~interrupted =>
    /\ at[Main] = "port" => last # "none"
    /\ at[Main] = "out" => last # "none" \/ worker \in {"closing", "dead"}

ExitedThrough == ended = "exited" => main = "leaving" /\ at[Main] = "out"

\* Once a stop without the courtesy is ordered, the first rung of the ladder and
\* the loop's own stop are behind.
ForcedStays ==
  /\ main = "again" => asked \/ ~ladder
  /\ forced => ~graceful /\ main \notin {"serving", "asked"} /\ (asked \/ ~ladder)

StopInv == ServerTypes /\ Stages /\ Through /\ ExitedThrough /\ ForcedStays

----------------------------------------------------------------------------
\* What each step does to the radio is something Keying allows.
LEMMA StepIsKeying == [Next]_vars => [KeyingNext]_keyingVars
<1> SUFFICES ASSUME [Next]_vars PROVE [KeyingNext]_keyingVars OBVIOUS
<1>0. Worker \in Threads /\ Main \in Threads BY DEF Threads
<1>1. CASE UNCHANGED vars BY <1>1 DEF vars
<1>2. CASE WorkerStep
  <2>1. CASE Turn \/ OperationEnds \/ SendFails \/ WorkerDies
    BY <2>1 DEF Turn, OperationEnds, SendFails, WorkerDies
  <2>2. CASE Ending BY <1>0, <2>2 DEF Ending, KeyingNext
  <2>3. CASE DiscEnds BY <1>0, <2>3 DEF DiscEnds, KeyingNext
  <2>4. CASE Inside(Worker) BY <1>0, <2>4 DEF KeyingNext
  <2> QED BY <1>2, <2>1, <2>2, <2>3, <2>4 DEF WorkerStep
<1>3. CASE MainStep
  <2>1. CASE StatusEnds \/ Asked \/ Joined \/ Again \/ JoinedNow \/ Leaves
    BY <2>1 DEF StatusEnds, Asked, Joined, Again, JoinedNow, Leaves
  <2>2. CASE Raise BY <1>0, <2>2 DEF Raise, ExitHook, KeyingNext
  <2>3. CASE Inside(Main) BY <1>0, <2>3 DEF KeyingNext
  <2> QED BY <1>3, <2>1, <2>2, <2>3 DEF MainStep
<1>4. CASE SendPacket BY <1>0, <1>4 DEF SendPacket, KeyingNext
<1>5. CASE SessionChanges \/ StatusStarts \/ LoopFails
  BY <1>5 DEF SessionChanges, StatusStarts, LoopFails
<1>6. ASSUME NEW kind \in {"SIGINT", "SIGTERM"}, Signal(kind)
      PROVE  [KeyingNext]_keyingVars
  BY <1>6 DEF Signal, KeyingNext
<1>7. CASE BusChanges BY <1>7 DEF KeyingNext
<1> QED BY <1>1, <1>2, <1>3, <1>4, <1>5, <1>6, <1>7 DEF Next

\* The server is a program of the kind Keying describes.
THEOREM ShutdownImplementsKeying == Spec => ImplementsKeying
<1>1. Init => KeyingInit BY DEF Init
<1> QED BY <1>1, StepIsKeying, PTL DEF Spec, KeyingSpec, ImplementsKeying
----------------------------------------------------------------------------
(* The stages of the two threads *)

\* What one step inside the transport does to where its thread is.
LEMMA InsideMoves ==
  ASSUME KeyingInv, NEW t \in Threads, Inside(t)
  PROVE  /\ \A u \in Threads : u # t => at'[u] = at[u]
         /\ at[t] \notin {"out", "raised"}
         /\ at[t] \in InClose => at'[t] \in InClose \union {"out"}
         /\ at[t] \notin InClose => at'[t] \notin InClose
         /\ at'[t] = "port" => last' # "none"
         /\ at[t] \in InClose /\ at'[t] = "out" => at[t] = "port"
         /\ last # "none" => last' # "none"
         /\ closed' => closed \/ at[t] = "claim"
<1>1. at \in [Threads -> Places] BY DEF KeyingInv, KeyingTypeOK
<1>2. CASE KeyOn(t)
  BY <1>1, <1>2 DEF KeyOn, KeyOnRaises, Goto, InClose
<1>3. CASE Play(t) \/ Claim(t) \/ ClosePort(t)
  BY <1>1, <1>3 DEF Play, Claim, ClosePort, Goto, InClose, closing
<1>4. CASE Sent(t)
  <2>1. at' \in {[at EXCEPT ![t] = p] : p \in {"out", "keyOn", "raised"}} /\ at[t] = "sent"
        /\ UNCHANGED closing
    BY <1>4 DEF Sent, Goto
  <2> QED BY <1>1, <2>1 DEF InClose, closing
<1>5. CASE Off(t)
  <2>1. UNCHANGED <<closed, exitHook>> /\ at[t] \in {"off", "lastOff"} BY <1>5 DEF Off
  <2>2. \/ at[t] = "off" /\ UNCHANGED last
           /\ (at' = at \/ at' \in {[at EXCEPT ![t] = p] : p \in {"sent", "blind"}})
        \/ at[t] = "lastOff" /\ at' = [at EXCEPT ![t] = "port"] /\ last' = "off"
        \/ at[t] = "lastOff" /\ UNCHANGED last
           /\ (at' = at \/ at' = [at EXCEPT ![t] = "lastBlind"])
    BY <1>5 DEF Off, UnkeyEnds, Goto
  <2> QED BY <1>1, <2>1, <2>2 DEF InClose
<1>6. CASE Blind(t)
  BY <1>1, <1>6 DEF Blind, UnkeyEnds, Goto, InClose
<1> QED BY <1>2, <1>3, <1>4, <1>5, <1>6 DEF Inside

LEMMA InitStop == Init => StopInv
<1> SUFFICES ASSUME Init PROVE StopInv OBVIOUS
<1>0. 0 \in 0 .. MaxSignals BY ShutdownAssumption
<1>1. ServerTypes BY <1>0 DEF Init, ServerTypes
<1>2. at[Worker] = "out" /\ at[Main] = "out" BY ThreadsAre DEF Init, KeyingInit
<1>3. Stages /\ Through BY <1>2 DEF Init, KeyingInit, Stages, Through, InClose
<1>4. ExitedThrough /\ ForcedStays BY DEF Init, ExitedThrough, ForcedStays
<1> QED BY <1>1, <1>3, <1>4 DEF StopInv

\* Steps of the worker that leave the transport alone
LEMMA WorkerKeeps ==
  ASSUME StopInv, Running, Turn \/ OperationEnds \/ SendFails \/ WorkerDies \/ SessionChanges
  PROVE  StopInv'
<1>1. /\ UNCHANGED <<stopping, graceful, at, closed, last, server>>
      /\ worker' \in {"loop", "busy", "ending", "dead"}
      /\ worker' = "dead" => worker = "closing"
      /\ at[Worker] \in {"out", "raised"} \/ worker = "loop"
      /\ worker \in {"closing", "dead"} => worker' \in {"closing", "dead"}
  BY DEF Turn, OperationEnds, SendFails, WorkerDies, SessionChanges, keyingVars, closing, StopInv,
         ServerTypes
<1>2. session' \in BOOLEAN
  BY DEF Turn, OperationEnds, SendFails, WorkerDies, SessionChanges, StopInv, ServerTypes
<1>3. ServerTypes' BY <1>1, <1>2 DEF StopInv, ServerTypes, server
<1>4. Stages' BY <1>1 DEF StopInv, Stages, InClose, server
<1>5. Through' /\ ExitedThrough' /\ ForcedStays'
  BY <1>1 DEF StopInv, Through, ExitedThrough, ForcedStays, server
<1> QED BY <1>3, <1>4, <1>5 DEF StopInv

\* Steps of the worker that enter it
LEMMA EntryKeeps ==
  ASSUME StopInv, KeyingInv, Running, Ending \/ DiscEnds \/ SendPacket
  PROVE  StopInv'
<1>1. at \in [Threads -> Places] /\ Worker \in Threads /\ Main \in Threads /\ Worker # Main
  BY ThreadsAre DEF KeyingInv, KeyingTypeOK
<1>2. /\ worker' \in {"busy", "disc", "closing", "dead"}
      /\ worker \in {"busy", "ending", "disc"}
      /\ session' \in BOOLEAN
      /\ UNCHANGED <<stopping, graceful, server, closing>>
  <2>1. UNCHANGED closing
    BY DEF Ending, DiscEnds, SendPacket, SendStarts, CloseStarts, keyingVars
  <2>2. session' \in BOOLEAN
    BY DEF Ending, DiscEnds, SendPacket, StopInv, ServerTypes, service
  <2> QED
    BY <2>1, <2>2 DEF Ending, DiscEnds, SendPacket, service
<1>3. \/ /\ worker' \in {"busy", "disc"} /\ at' = [at EXCEPT ![Worker] = "keyOn"]
      \/ /\ worker' = "closing"
         /\ at' = [at EXCEPT ![Worker] = IF closed THEN "out" ELSE "claim"]
      \/ /\ worker' = "dead" /\ at[Worker] = "raised" /\ UNCHANGED at
  BY DEF Ending, DiscEnds, SendPacket, SendStarts, CloseStarts, Goto, StopInv, ServerTypes,
         service, keyingVars
<1>4. at'[Main] = at[Main] BY <1>1, <1>3
<1>5. Stages'
  BY <1>1, <1>2, <1>3, <1>4 DEF StopInv, Stages, InClose, server, closing
<1>6. ServerTypes' /\ Through' /\ ExitedThrough' /\ ForcedStays'
  BY <1>2, <1>4 DEF Running, StopInv, ServerTypes, Through, ExitedThrough, ForcedStays,
                    server, closing
<1> QED BY <1>5, <1>6 DEF StopInv

LEMMA InsideKeeps ==
  ASSUME StopInv, KeyingInv, Running, NEW t \in Threads, Inside(t), UNCHANGED <<service, server>>
  PROVE  StopInv'
<1>1. ServerTypes' /\ ForcedStays'
  BY DEF StopInv, ServerTypes, ForcedStays, service, server
<1>2. Stages' /\ Through'
  <2>1. CASE t = Worker
    <3>1. at'[Main] = at[Main] /\ (at'[Worker] \in InClose => at[Worker] \in InClose)
      BY <2>1, InsideMoves, ThreadsAre
    <3>2. Stages'
      <4>1. at[Worker] \in Places BY ThreadsAre DEF KeyingInv, KeyingTypeOK
      <4>2. worker \in {"closing", "dead"} => at[Worker] \in InClose
        BY <2>1, <4>1, InsideMoves DEF StopInv, Stages, InClose, Places
      <4>3. worker \in {"closing", "dead"} => at'[Worker] \in InClose \union {"out"}
        BY <2>1, <4>2, InsideMoves
      <4>4. closed' => closed \/ worker = "closing"
        BY <2>1, InsideMoves DEF StopInv, Stages, InClose
      <4> QED BY <3>1, <4>3, <4>4 DEF StopInv, Stages, InClose, service, server
    <3>3. Through'
      BY <2>1, <3>1, InsideMoves DEF StopInv, Through, service, server
    <3> QED BY <3>2, <3>3
  <2>2. CASE t = Main
    <3>1. at'[Worker] = at[Worker] /\ main = "leaving"
      BY <2>2, InsideMoves, ThreadsAre DEF StopInv, Stages
    <3>2. at[Main] \in InClose
      BY <2>2, InsideMoves, <3>1 DEF InClose, KeyingInv, OnlyWorkerSends
    <3>3. Stages'
      BY <2>2, <3>1, InsideMoves DEF StopInv, Stages, InClose, service, server
    <3>4. Through'
      BY <2>2, <3>1, <3>2, InsideMoves DEF StopInv, Through, service, server
    <3> QED BY <3>3, <3>4
  <2> QED BY <2>1, <2>2, ThreadsAre
<1>3. ExitedThrough' BY DEF Running, ExitedThrough, service, server
<1> QED BY <1>1, <1>2, <1>3 DEF StopInv

\* Steps of the main thread
LEMMA MainKeeps ==
  ASSUME StopInv, Running,
         StatusStarts \/ StatusEnds \/ LoopFails \/ Asked \/ Joined \/ Again \/ JoinedNow \/ Leaves
  PROVE  StopInv'
<1>1. UNCHANGED <<worker, session, at, last, closed, signals, interrupted, asked>>
  BY DEF StatusStarts, StatusEnds, LoopFails, Asked, Joined, Again, JoinedNow, Leaves,
         OrderStop, service, keyingVars, closing
<1>2. ServerTypes'
  <2>1. stopping' \in BOOLEAN /\ graceful' \in BOOLEAN /\ held' \in BOOLEAN
    BY DEF StatusStarts, StatusEnds, LoopFails, Asked, Joined, Again, JoinedNow, Leaves,
           OrderStop, service, StopInv, ServerTypes
  <2>2. ladder' \in BOOLEAN /\ forced' \in BOOLEAN /\ ended' \in {"no", "exited", "killed"}
    BY DEF StatusStarts, StatusEnds, LoopFails, Asked, Joined, Again, JoinedNow, Leaves,
           StopInv, ServerTypes
  <2>3. main' \in {"serving", "asked", "joining", "again", "joiningNow", "raise", "leaving"}
    BY DEF StatusStarts, StatusEnds, LoopFails, Asked, Joined, Again, JoinedNow, Leaves,
           StopInv, ServerTypes
  <2> QED BY <1>1, <2>1, <2>2, <2>3 DEF StopInv, ServerTypes
<1>3. \/ main' = main
      \/ main' \in {"joining", "again", "joiningNow", "raise"} /\ main # "leaving"
  BY DEF StatusStarts, StatusEnds, LoopFails, Asked, Joined, Again, JoinedNow, Leaves
<1>4. Stages' BY <1>1, <1>3 DEF StopInv, Stages
<1>5. Through' BY <1>1, <1>3 DEF StopInv, Through
<1>6. ExitedThrough'
  BY <1>1 DEF StatusStarts, StatusEnds, LoopFails, Asked, Joined, Again, JoinedNow, Leaves,
              Running, StopInv, ExitedThrough
<1>7. ForcedStays'
  BY DEF StatusStarts, StatusEnds, LoopFails, Asked, Joined, Again, JoinedNow, Leaves,
         OrderStop, service, StopInv, ForcedStays
<1> QED BY <1>2, <1>4, <1>5, <1>6, <1>7 DEF StopInv

LEMMA RaiseKeeps ==
  ASSUME StopInv, KeyingInv, Running, Raise
  PROVE  StopInv'
<1>1. at \in [Threads -> Places] /\ Worker \in Threads /\ Main \in Threads /\ Worker # Main
  BY ThreadsAre DEF KeyingInv, KeyingTypeOK
<1>2. /\ main' = "leaving" /\ held' = FALSE
      /\ UNCHANGED <<service, closing, asked, ladder, signals, forced, interrupted, ended>>
  BY DEF Raise, ExitHook, LoopUnwinds, CloseStarts, keyingVars
<1>3. \/ ~closed /\ at' = [at EXCEPT ![Main] = "claim"]
      \/ closed /\ at' = at
  BY DEF Raise, ExitHook, CloseStarts, Goto, keyingVars, KeyingInv, ClosedFirst
<1>4. main = "raise" /\ at[Main] = "out" BY DEF Raise, StopInv, Stages
<1>5. Stages'
  BY <1>1, <1>2, <1>3 DEF StopInv, Stages, InClose, service, closing
<1>6. Through'
  BY <1>1, <1>2, <1>3, <1>4 DEF StopInv, Stages, Through, service, closing
<1>7. ServerTypes' /\ ExitedThrough' /\ ForcedStays'
  BY <1>2, <1>4 DEF Running, StopInv, ServerTypes, ExitedThrough, ForcedStays, service
<1> QED BY <1>5, <1>6, <1>7 DEF StopInv

\* A signal
LEMMA SignalKeeps ==
  ASSUME StopInv, KeyingInv, Running, NEW kind \in {"SIGINT", "SIGTERM"}, Signal(kind)
  PROVE  StopInv'
<1>1. at \in [Threads -> Places] /\ Worker \in Threads /\ Main \in Threads /\ Worker # Main
  BY ThreadsAre DEF KeyingInv, KeyingTypeOK
<1>2. /\ UNCHANGED <<service, held, forced, closing>>
      /\ at'[Worker] = at[Worker]
      /\ main = "leaving" => main' = "leaving"
      /\ main # "leaving" => at' = at /\ main' # "leaving" /\ interrupted' = interrupted
  <2>0. UNCHANGED <<service, held, forced>> BY DEF Signal
  <2>4. main = "leaving" => main' = "leaving" BY DEF Signal
  <2>5. main # "leaving" => main' \in {main, "asked", "again", "raise"} BY DEF Signal
  <2>1. UNCHANGED <<service, held, forced>> /\ (main = "leaving" <=> main' = "leaving")
    BY <2>0, <2>4, <2>5
  <2>2. CASE Interrupted
    BY <1>1, <2>1, <2>2 DEF Signal, Interrupted, Goto, keyingVars, closing
  <2>3. CASE UNCHANGED keyingVars
    BY <2>1, <2>3 DEF Signal, keyingVars, closing
  <2> QED BY <2>2, <2>3 DEF Signal
<1>3. main = "leaving" => interrupted' = TRUE \/ (UNCHANGED at /\ UNCHANGED interrupted)
  BY DEF Signal, keyingVars
<1>4. Stages'
  BY <1>2 DEF StopInv, Stages, service, closing
<1>5. Through'
  BY <1>2, <1>3 DEF StopInv, Through, service, closing
<1>6. signals' \in 0 .. MaxSignals
  BY ShutdownAssumption DEF Signal, StopInv, ServerTypes
<1>7. ServerTypes'
  BY <1>2, <1>3, <1>6 DEF Signal, StopInv, ServerTypes, service
<1>8. ExitedThrough' BY DEF Running, Signal, ExitedThrough
<1>9. ForcedStays' BY DEF Signal, StopInv, ForcedStays, service, ServerTypes
<1> QED BY <1>4, <1>5, <1>7, <1>8, <1>9 DEF StopInv

LEMMA StopKeeps == StopInv /\ KeyingInv /\ [Next]_vars => StopInv'
<1> SUFFICES ASSUME StopInv, KeyingInv, [Next]_vars PROVE StopInv' OBVIOUS
<1>1. CASE UNCHANGED vars
  BY <1>1 DEF vars, keyingVars, closing, service, server, StopInv, ServerTypes, Stages, Through,
              ExitedThrough, ForcedStays
<1>2. CASE BusChanges /\ UNCHANGED <<service, server>>
  BY <1>2 DEF BusChanges, closing, service, server, StopInv, ServerTypes, Stages, Through,
              ExitedThrough, ForcedStays
<1>3. CASE Running /\ WorkerStep
  BY <1>3, WorkerKeeps, EntryKeeps, InsideKeeps, ThreadsAre DEF WorkerStep
<1>4. CASE Running /\ MainStep
  BY <1>4, MainKeeps, RaiseKeeps, InsideKeeps, ThreadsAre DEF MainStep
<1>5. CASE Running /\ (SendPacket \/ SessionChanges \/ StatusStarts \/ LoopFails)
  BY <1>5, EntryKeeps, WorkerKeeps, MainKeeps
<1>6. CASE Running /\ \E kind \in {"SIGINT", "SIGTERM"} : Signal(kind)
  BY <1>6, SignalKeeps
<1> QED BY <1>1, <1>2, <1>3, <1>4, <1>5, <1>6 DEF Next

----------------------------------------------------------------------------
LEMMA StopCorrect == Spec => [](KeyingInv /\ StopInv)
<1>1. Init => KeyingInv /\ StopInv BY InitKeying, InitStop DEF Init
<1>2. KeyingInv /\ StopInv /\ [Next]_vars => (KeyingInv /\ StopInv)'
  BY StepIsKeying, NextKeeps, StopKeeps
<1> QED BY <1>1, <1>2, PTL DEF Spec

\* The types of the whole server.
THEOREM ShutdownTypeCorrect == Spec => []TypeOK
<1>1. KeyingInv /\ StopInv => TypeOK BY DEF KeyingInv, StopInv, ServerTypes, TypeOK
<1> QED BY <1>1, StopCorrect, PTL

\* A server that ends by itself has put the transmitter down or told the
\* operator, but for the two cases OffAtExit names (close, _unkey_at_exit).
THEOREM ShutdownOffAtExit == Spec => []OffAtExit
<1>1. KeyingInv /\ StopInv => OffAtExit
  <2> SUFFICES ASSUME KeyingInv, StopInv, ended = "exited", interrupted = FALSE, last # "on"
               PROVE  ~carrier \/ alarm
    BY DEF OffAtExit, StopInv, ServerTypes
  <2>1. main = "leaving" /\ at[Main] = "out" BY DEF StopInv, ExitedThrough
  <2>2. last # "none" \/ worker \in {"closing", "dead"} BY <2>1 DEF StopInv, Through
  <2>3. CASE last # "none"
    BY <2>3 DEF KeyingInv, KeyingTypeOK, LeftOff
  <2>4. CASE worker \in {"closing", "dead"}
    BY <2>4 DEF StopInv, Stages, KeyingInv, DownOrTold
  <2> QED BY <2>2, <2>3, <2>4
<1> QED BY <1>1, StopCorrect, PTL

\* No parting DISC begins once a stop without the courtesy is ordered
\* (_graceful_stop).
THEOREM ShutdownNoDiscOnceForced == Spec => NoDiscOnceForced
<1>1. StopInv /\ [Next]_vars => [forced /\ worker' = "disc" => worker = "disc"]_vars
  <2> SUFFICES ASSUME StopInv, Next, forced, worker' = "disc" PROVE worker = "disc"
    OBVIOUS
  <2>1. ~graceful BY DEF StopInv, ForcedStays
  <2>2. ~Ending BY <2>1 DEF Ending, PartingDisc
  <2> QED
    BY <2>2 DEF Next, WorkerStep, MainStep, Turn, OperationEnds, SendFails, DiscEnds, WorkerDies,
       SendPacket, SessionChanges, StatusStarts, StatusEnds, LoopFails, Asked, Joined, Again,
       JoinedNow, Raise, LoopUnwinds, Leaves, Signal, OrderStop, service
<1> QED BY <1>1, StopCorrect, PTL DEF Spec, NoDiscOnceForced
=============================================================================
