---------------------------- MODULE KeyingProofs ----------------------------
(***************************************************************************)
(* Proofs about Keying, for any number of attempts and any trouble on the  *)
(* bus.  OnlyWorkerSends and the order of close (ClosedFirst, TriesLeft)   *)
(* make the two properties inductive.                                      *)
(***************************************************************************)
EXTENDS Keying, TLAPS

\* The main thread is never inside send.
OnlyWorkerSends == at[Main] \in {"out", "claim", "lastOff", "lastBlind", "port"}

\* A thread that un-keys has an attempt left.
TriesLeft == \A t \in Threads : at[t] \in {"off", "lastOff"} => tries[t] < UnkeyAttempts

\* close claims the transport before it touches the radio.
ClosedFirst ==
  /\ \A t \in Threads : at[t] \in {"lastOff", "lastBlind", "port"} => closed
  /\ exitHook <=> ~closed

\* What the last un-key left, until a key-on follows it.
LeftOff == last = "off" => ~carrier \/ alarm

KeyingInv ==
  /\ KeyingTypeOK /\ OnlyWorkerSends /\ TriesLeft /\ ClosedFirst
  /\ DownOrTold /\ RetryAccounted /\ LeftOff

----------------------------------------------------------------------------
\* No command for down brings the carrier up.
LEMMA DownNeverRaises ==
  ASSUME KeyingTypeOK, NEW c \in Unacknowledged(FALSE)
  PROVE  c \in BOOLEAN /\ (c => carrier)
BY DEF KeyingTypeOK, Unacknowledged

LEMMA UpIsBoolean ==
  ASSUME KeyingTypeOK, NEW c \in Unacknowledged(TRUE)
  PROVE  c \in BOOLEAN
BY DEF KeyingTypeOK, Unacknowledged

\* There are two threads.
LEMMA ThreadsAre ==
  /\ Worker \in Threads /\ Main \in Threads /\ Worker # Main
  /\ \A t \in Threads : t = Worker \/ t = Main
BY KeyingAssumption DEF Threads

----------------------------------------------------------------------------
(* One lemma for each step. *)

LEMMA InitKeying == KeyingInit => KeyingInv
<1> SUFFICES ASSUME KeyingInit PROVE KeyingInv OBVIOUS
<1>0. 0 \in 0 .. UnkeyAttempts /\ 1 \in 1 .. Retries /\ 0 \in 0 .. MaxTrouble
  BY KeyingAssumption
<1>1. KeyingTypeOK
  <2>1. at \in [Threads -> Places] BY DEF KeyingInit, Places
  <2>2. tries \in [Threads -> 0 .. UnkeyAttempts] BY <1>0 DEF KeyingInit
  <2> QED BY <1>0, <2>1, <2>2 DEF KeyingInit, KeyingTypeOK
<1>2. OnlyWorkerSends /\ TriesLeft BY KeyingAssumption, ThreadsAre
        DEF KeyingInit, OnlyWorkerSends, TriesLeft
<1>3. ClosedFirst BY DEF KeyingInit, ClosedFirst
<1>4. DownOrTold /\ RetryAccounted /\ LeftOff
  BY DEF KeyingInit, DownOrTold, RetryAccounted, LeftOff
<1> QED BY <1>1, <1>2, <1>3, <1>4 DEF KeyingInv

LEMMA SendStartsKeeps ==
  ASSUME KeyingInv, NEW t \in Threads, SendStarts(t)
  PROVE  KeyingInv'
BY KeyingAssumption, ThreadsAre
   DEF SendStarts, Goto, KeyingInv, KeyingTypeOK, OnlyWorkerSends, TriesLeft, ClosedFirst,
       DownOrTold, RetryAccounted, LeftOff, Places, hardware, ptt, closing

LEMMA KeyOnKeeps ==
  ASSUME KeyingInv, NEW t \in Threads, KeyOn(t)
  PROVE  KeyingInv'
<1>1. t = Worker BY ThreadsAre DEF KeyOn, KeyingInv, OnlyWorkerSends
<1>2. carrier' \in BOOLEAN
  BY UpIsBoolean DEF KeyOn, KeyingInv, KeyingTypeOK, Answers, Refuses
<1>3. KeyingTypeOK'
  <2>1. /\ unknown' \in BOOLEAN
        /\ last' \in {"none", "off", "on"}
    BY <1>2 DEF KeyOn, KeyingInv, KeyingTypeOK, Silent
  <2>3. /\ \/ at' = [at EXCEPT ![t] = "play"] /\ UNCHANGED <<fault, tries>>
           \/ /\ at' = [at EXCEPT ![t] = "off"] /\ tries' = [tries EXCEPT ![t] = 0]
              /\ fault' = "other"
    BY DEF KeyOn, KeyOnRaises, Goto
  <2>2. /\ at' \in [Threads -> Places] /\ fault' \in {"none", "audio", "other"}
        /\ tries' \in [Threads -> 0 .. UnkeyAttempts]
    BY <2>3, KeyingAssumption DEF KeyingInv, KeyingTypeOK, Places
  <2> QED
    BY <1>2, <2>1, <2>2 DEF KeyOn, KeyingInv, KeyingTypeOK
<1>4. /\ at'[Worker] \in {"play", "off"} /\ at'[Main] = at[Main]
      /\ tries'[Main] = tries[Main]
      /\ at'[Worker] = "off" => tries'[Worker] = 0
      /\ UNCHANGED <<closed, exitHook, alarm>>
  BY <1>1, ThreadsAre DEF KeyOn, KeyOnRaises, Goto, KeyingInv, KeyingTypeOK
<1>5. OnlyWorkerSends' /\ TriesLeft' /\ ClosedFirst'
  BY <1>4, ThreadsAre, KeyingAssumption DEF KeyingInv, OnlyWorkerSends, TriesLeft, ClosedFirst
<1>6. DownOrTold' /\ RetryAccounted' BY <1>4 DEF DownOrTold, RetryAccounted
<1>7. LeftOff' BY <1>2 DEF KeyOn, KeyingInv, KeyingTypeOK, LeftOff
<1> QED BY <1>3, <1>5, <1>6, <1>7 DEF KeyingInv

LEMMA PlayKeeps ==
  ASSUME KeyingInv, NEW t \in Threads, Play(t)
  PROVE  KeyingInv'
BY KeyingAssumption, ThreadsAre
   DEF Play, Goto, KeyingInv, KeyingTypeOK, OnlyWorkerSends, TriesLeft, ClosedFirst,
       DownOrTold, RetryAccounted, LeftOff, Places, closing

LEMMA SentKeeps ==
  ASSUME KeyingInv, NEW t \in Threads, Sent(t)
  PROVE  KeyingInv'
<1>1. t = Worker BY ThreadsAre DEF Sent, KeyingInv, OnlyWorkerSends
<1>2. CASE fault = "none"
  BY <1>1, <1>2, KeyingAssumption, ThreadsAre
     DEF Sent, Goto, KeyingInv, KeyingTypeOK, OnlyWorkerSends, TriesLeft, ClosedFirst,
         DownOrTold, RetryAccounted, LeftOff, Places, hardware, ptt, closing, sending
<1>3. CASE fault = "audio" /\ MayKeyAgain
  BY <1>1, <1>3, KeyingAssumption, ThreadsAre
     DEF Sent, Goto, MayKeyAgain, KeyingInv, KeyingTypeOK, OnlyWorkerSends, TriesLeft,
         ClosedFirst, DownOrTold, RetryAccounted, LeftOff, Places, hardware, ptt, closing
<1>4. CASE fault # "none" /\ ~(fault = "audio" /\ MayKeyAgain)
  BY <1>1, <1>4, KeyingAssumption, ThreadsAre
     DEF Sent, Goto, KeyingInv, KeyingTypeOK, OnlyWorkerSends, TriesLeft, ClosedFirst,
         DownOrTold, RetryAccounted, LeftOff, Places, hardware, ptt, closing, sending
<1> QED BY <1>2, <1>3, <1>4

LEMMA OffKeeps ==
  ASSUME KeyingInv, NEW t \in Threads, Off(t)
  PROVE  KeyingInv'
<1>1. CASE Answers
  <2>1. KeyingTypeOK'
    BY <1>1, KeyingAssumption, ThreadsAre
       DEF Off, UnkeyEnds, Goto, KeyingInv, KeyingTypeOK, Places, sending
  <2>2. OnlyWorkerSends' /\ TriesLeft' /\ ClosedFirst'
    BY <1>1, ThreadsAre
       DEF Off, UnkeyEnds, Goto, KeyingInv, KeyingTypeOK, OnlyWorkerSends, TriesLeft,
           ClosedFirst, sending
  <2>3. DownOrTold' /\ RetryAccounted' /\ LeftOff'
    BY <1>1, ThreadsAre
       DEF Off, UnkeyEnds, Goto, KeyingInv, KeyingTypeOK, DownOrTold, RetryAccounted,
           LeftOff, sending
  <2> QED BY <2>1, <2>2, <2>3 DEF KeyingInv
<1>2. CASE ~Answers
  <2>1. carrier' \in BOOLEAN /\ (carrier' => carrier)
    BY <1>2, DownNeverRaises DEF Off, KeyingInv
  <2>2. /\ t = Main => at[Main] = "lastOff"
        /\ t = Worker => at[Worker] \in {"off", "lastOff"}
    BY DEF Off, KeyingInv, OnlyWorkerSends
  <2>a. /\ tries[t] \in 0 .. UnkeyAttempts /\ tries[t] < UnkeyAttempts
        /\ at[t] \in {"off", "lastOff"}
    BY DEF Off, KeyingInv, KeyingTypeOK, TriesLeft
  <2>b. /\ tries' = [tries EXCEPT ![t] = tries[t] + 1]
        /\ IF tries[t] + 1 < UnkeyAttempts THEN at' = at
           ELSE at' = [at EXCEPT ![t] = IF at[t] = "off" THEN "blind" ELSE "lastBlind"]
    BY <1>2 DEF Off, Goto
  <2>3. /\ tries[t] + 1 \in 0 .. UnkeyAttempts
        /\ tries' = [tries EXCEPT ![t] = tries[t] + 1]
        /\ \/ at' = at /\ tries[t] + 1 < UnkeyAttempts
           \/ at[t] = "off" /\ at' = [at EXCEPT ![t] = "blind"]
           \/ at[t] = "lastOff" /\ at' = [at EXCEPT ![t] = "lastBlind"]
    <3>1. tries[t] + 1 \in 0 .. UnkeyAttempts BY <2>a, KeyingAssumption
    <3>2. CASE tries[t] + 1 < UnkeyAttempts BY <2>b, <3>1, <3>2
    <3>3. CASE ~(tries[t] + 1 < UnkeyAttempts) /\ at[t] = "off" BY <2>b, <3>1, <3>3
    <3>4. CASE ~(tries[t] + 1 < UnkeyAttempts) /\ at[t] = "lastOff" BY <2>b, <3>1, <3>4
    <3> QED BY <2>a, <3>2, <3>3, <3>4
  <2>4. /\ UNCHANGED <<unknown, alarm, last, bus, trouble, port, sending, closed, exitHook>>
        /\ lock' = t
    BY <1>2 DEF Off
  <2>5. KeyingTypeOK'
    BY <2>1, <2>3, <2>4 DEF KeyingInv, KeyingTypeOK, Places, sending
  <2>6. OnlyWorkerSends' /\ TriesLeft' /\ ClosedFirst'
    BY <2>2, <2>3, <2>4, ThreadsAre
       DEF KeyingInv, KeyingTypeOK, OnlyWorkerSends, TriesLeft, ClosedFirst
  <2>7. DownOrTold' /\ RetryAccounted' /\ LeftOff'
    BY <2>1, <2>2, <2>3, <2>4, ThreadsAre
       DEF KeyingInv, KeyingTypeOK, DownOrTold, RetryAccounted, LeftOff, sending
  <2> QED BY <2>5, <2>6, <2>7 DEF KeyingInv
<1> QED BY <1>1, <1>2

LEMMA BlindKeeps ==
  ASSUME KeyingInv, NEW t \in Threads, Blind(t)
  PROVE  KeyingInv'
<1>1. carrier' \in BOOLEAN /\ (carrier' => carrier)
  BY DownNeverRaises DEF Blind, KeyingInv
<1>2. unknown' = TRUE /\ alarm' = TRUE BY DEF Blind, BlindLeaves
<1> QED
  BY <1>1, <1>2, KeyingAssumption, ThreadsAre
     DEF Blind, UnkeyEnds, Goto, KeyingInv, KeyingTypeOK, OnlyWorkerSends, TriesLeft,
         ClosedFirst, DownOrTold, RetryAccounted, LeftOff, Places, sending

LEMMA CloseKeeps ==
  ASSUME KeyingInv, NEW t \in Threads, CloseStarts(t) \/ Claim(t) \/ ClosePort(t)
  PROVE  KeyingInv'
<1>1. CASE CloseStarts(t)
  BY <1>1, KeyingAssumption, ThreadsAre
     DEF CloseStarts, Goto, KeyingInv, KeyingTypeOK, OnlyWorkerSends, TriesLeft,
         ClosedFirst, DownOrTold, RetryAccounted, LeftOff, Places, hardware, ptt, sending, closing
<1>2. CASE Claim(t)
  <2>0. 0 \in 0 .. UnkeyAttempts BY KeyingAssumption
  <2>1. KeyingTypeOK'
    <3>1. at' \in [Threads -> Places] /\ tries' \in [Threads -> 0 .. UnkeyAttempts]
      BY <1>2, <2>0 DEF Claim, Goto, KeyingInv, KeyingTypeOK, Places
    <3> QED BY <1>2, <3>1 DEF Claim, KeyingInv, KeyingTypeOK, hardware, sending
  <2>2. OnlyWorkerSends' /\ TriesLeft'
    BY <1>2, KeyingAssumption, ThreadsAre
       DEF Claim, Goto, KeyingInv, KeyingTypeOK, OnlyWorkerSends, TriesLeft
  <2>3. closed' = TRUE /\ exitHook' = FALSE BY <1>2 DEF Claim
  <2>4. ClosedFirst' BY <2>3 DEF ClosedFirst
  <2>5. DownOrTold' /\ RetryAccounted' /\ LeftOff'
    BY <1>2, <2>3, ThreadsAre
       DEF Claim, Goto, KeyingInv, KeyingTypeOK, DownOrTold, RetryAccounted, LeftOff,
           hardware, sending
  <2> QED BY <2>1, <2>2, <2>4, <2>5 DEF KeyingInv
<1>3. CASE ClosePort(t)
  <2>1. KeyingTypeOK'
    <3>1. at' \in [Threads -> Places]
      BY <1>3 DEF ClosePort, Goto, KeyingInv, KeyingTypeOK, Places
    <3>2. /\ port' = FALSE
          /\ UNCHANGED <<carrier, bus, trouble, unknown, alarm, lock, tries, attempt, fault,
                         closed, exitHook, last>>
      BY <1>3 DEF ClosePort, hardware, sending, closing
    <3> QED BY <3>1, <3>2, ZenonT(60) DEF KeyingInv, KeyingTypeOK
  <2>2. OnlyWorkerSends' /\ TriesLeft' /\ ClosedFirst'
    BY <1>3, ThreadsAre
       DEF ClosePort, Goto, KeyingInv, KeyingTypeOK, OnlyWorkerSends, TriesLeft,
           ClosedFirst, sending, closing
  <2>3. DownOrTold' /\ RetryAccounted' /\ LeftOff'
    BY <1>3, ThreadsAre
       DEF ClosePort, Goto, KeyingInv, KeyingTypeOK, DownOrTold, RetryAccounted, LeftOff,
           hardware, sending, closing
  <2> QED BY <2>1, <2>2, <2>3 DEF KeyingInv
<1> QED BY <1>1, <1>2, <1>3

LEMMA InterruptedKeeps == KeyingInv /\ Interrupted => KeyingInv'
BY KeyingAssumption, ThreadsAre
   DEF Interrupted, Goto, KeyingInv, KeyingTypeOK, OnlyWorkerSends, TriesLeft,
       ClosedFirst, DownOrTold, RetryAccounted, LeftOff, Places, hardware, sending, closing

LEMMA BusKeeps == KeyingInv /\ BusChanges => KeyingInv'
BY KeyingAssumption
   DEF BusChanges, KeyingInv, KeyingTypeOK, OnlyWorkerSends, TriesLeft, ClosedFirst,
       DownOrTold, RetryAccounted, LeftOff, ptt, sending, closing

LEMMA StutterKeeps == KeyingInv /\ UNCHANGED keyingVars => KeyingInv'
BY DEF keyingVars, KeyingInv, KeyingTypeOK, OnlyWorkerSends, TriesLeft, ClosedFirst,
       DownOrTold, RetryAccounted, LeftOff, hardware, ptt, sending, closing

LEMMA NextKeeps == KeyingInv /\ [KeyingNext]_keyingVars => KeyingInv'
<1> SUFFICES ASSUME KeyingInv, [KeyingNext]_keyingVars PROVE KeyingInv' OBVIOUS
<1>1. CASE UNCHANGED keyingVars BY <1>1, StutterKeeps
<1>2. ASSUME NEW t \in Threads, Inside(t) PROVE KeyingInv'
  BY <1>2, KeyOnKeeps, PlayKeeps, SentKeeps, OffKeeps, BlindKeeps, CloseKeeps DEF Inside
<1>3. ASSUME NEW t \in Threads, SendStarts(t) \/ CloseStarts(t) PROVE KeyingInv'
  BY <1>3, SendStartsKeeps, CloseKeeps
<1>4. CASE Interrupted BY <1>4, InterruptedKeeps
<1>5. CASE BusChanges BY <1>5, BusKeeps
<1> QED BY <1>1, <1>2, <1>3, <1>4, <1>5 DEF KeyingNext

----------------------------------------------------------------------------
\* What makes the properties inductive holds throughout, in any program that
\* uses the transport as Keying allows.
THEOREM KeyingCorrect == KeyingSpec => []KeyingInv
BY InitKeying, NextKeeps, PTL DEF KeyingSpec

\* The types, for every number of retries and attempts.
THEOREM KeyingTypeCorrect == KeyingSpec => []KeyingTypeOK
BY KeyingCorrect, PTL DEF KeyingInv

\* Off the air the transmitter is down or the operator has been told, however
\* often the bus fails and whatever the other thread does (transmit's finally,
\* _key_off, _blind_unkey).
THEOREM AlwaysDownOrTold == KeyingSpec => []DownOrTold
BY KeyingCorrect, PTL DEF KeyingInv

\* No retry keys a transmitter that cannot be accounted for (send's limit).
THEOREM AlwaysRetryAccounted == KeyingSpec => []RetryAccounted
BY KeyingCorrect, PTL DEF KeyingInv
=============================================================================
