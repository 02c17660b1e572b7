------------------------------- MODULE Keying -------------------------------
(***************************************************************************)
(* whale.transport's transmit side and the CI-V push-to-talk under it      *)
(* (whale.hw.ptt.IcomCivPtt, whale.hw.audio_io.transmit): who commands the *)
(* carrier up and down, what the radio answers, and what is still known    *)
(* when it does not.                                                       *)
(*                                                                         *)
(* Two threads reach the radio: the modem's worker, which sends, and the   *)
(* main thread, which closes.  The worker may close too.  key() holds the  *)
(* PTT lock for the whole call; closing the port takes no lock.            *)
(*                                                                         *)
(* A session that uses the transport is left open here: any send and any   *)
(* close may begin at any time.  Shutdown says when the program does.      *)
(***************************************************************************)
EXTENDS Integers

CONSTANTS Worker, Main,     \* the threads
          Retries,          \* send's retries
          UnkeyAttempts,    \* UNKEY_ATTEMPTS
          MaxTrouble        \* bound: changes of the bus and audio failures

ASSUME KeyingAssumption ==
  /\ Worker # Main
  /\ Retries \in Nat \ {0} /\ UnkeyAttempts \in Nat \ {0}
  /\ MaxTrouble \in Nat

VARIABLES
  carrier,   \* the transmitter is up
  bus,       \* what the serial line to the radio is like
  port,      \* the serial port is open
  unknown,   \* key_state_unknown
  alarm,     \* "THE TRANSMITTER MAY STILL BE KEYED" stands uncontradicted
  trouble,   \* history: times the bus changed or the audio failed
  lock,      \* the thread in key(), or "free"
  at,        \* where in the transport's code each thread is
  tries,     \* acknowledged un-keys attempted in this key(False)
  attempt,   \* send's attempt
  fault,     \* the exception on its way out of audio_io.transmit
  closed,    \* _closed
  exitHook,  \* _unkey_at_exit is registered
  last       \* history: what followed the un-key of close, "off" or "on"

hardware == <<carrier, bus, trouble>>
ptt      == <<port, unknown, alarm, lock, tries>>
sending  == <<attempt, fault>>
closing  == <<closed, exitHook, last>>
keyingVars == <<hardware, ptt, at, sending, closing>>

Threads == {Worker, Main}
Goto(t, where) == at' = [at EXCEPT ![t] = where]

----------------------------------------------------------------------------
(* The radio: what one write to the port does.  A dead bus may have taken  *)
(* the command before it failed.                                           *)

Answers == port /\ bus = "well"
Refuses == port /\ bus = "refusing"
Silent  == port /\ bus = "mute"
Raises  == ~port \/ bus = "dead"

\* The carrier after a command for up was written and not acknowledged.
Unacknowledged(up) ==
  CASE Refuses -> {carrier}
    [] Silent -> {up}
    [] OTHER -> IF port THEN {carrier, up} ELSE {carrier}

BusChanges ==
  /\ trouble < MaxTrouble
  /\ bus' \in {"well", "mute", "dead", "refusing"} \ {bus}
  /\ trouble' = trouble + 1
  /\ UNCHANGED <<carrier, ptt, at, sending, closing>>

----------------------------------------------------------------------------
(* RadioTransport.send, audio_io.transmit *)

\* key(True) is inside the try: whatever it raises, the un-key follows.
\* Mutant of KeyOnRaises: the key-on in front of the try.
KeyOnRaisesPast(t) == Goto(t, "sent") /\ UNCHANGED tries
KeyOnRaises(t) == Goto(t, "off") /\ tries' = [tries EXCEPT ![t] = 0]

SendStarts(t) ==
  /\ t = Worker
  /\ at[t] \in {"out", "raised"}
  /\ Goto(t, "keyOn")
  /\ attempt' = 1 /\ fault' = "none"
  /\ UNCHANGED <<hardware, ptt, closing>>

\* IcomCivPtt._key_on.  A refusal is returned, and transmit does not look.
KeyOn(t) ==
  /\ at[t] = "keyOn" /\ lock = "free"
  /\ \/ /\ Answers \/ Refuses
        /\ carrier' = (Answers \/ carrier)
        /\ unknown' = FALSE
        /\ Goto(t, "play")
        /\ UNCHANGED <<fault, tries>>
     \/ /\ Silent \/ Raises
        /\ carrier' \in Unacknowledged(TRUE)
        /\ unknown' = (Silent \/ unknown)
        /\ fault' = "other"
        /\ KeyOnRaises(t)
  /\ last' = IF last # "none" /\ carrier' THEN "on" ELSE last
  /\ UNCHANGED <<bus, trouble, port, alarm, lock, attempt, closed, exitHook>>

\* The output stream plays the signal, or fails with PortAudioError.
Play(t) ==
  /\ at[t] = "play"
  /\ \/ UNCHANGED <<fault, trouble>>
     \/ trouble < MaxTrouble /\ trouble' = trouble + 1 /\ fault' = "audio"
  /\ Goto(t, "off") /\ tries' = [tries EXCEPT ![t] = 0]
  /\ UNCHANGED <<carrier, bus, port, unknown, alarm, lock, attempt, closing>>

\* Mutant of MayKeyAgain: send retries whatever the radio said.
MayKeyAgainBlind == attempt < Retries
\* Mutant of MayKeyAgain: one attempt too many.
MayKeyAgainOnce == attempt <= Retries /\ ~unknown
MayKeyAgain == attempt < Retries /\ ~unknown

\* What send does after one transmit.
Sent(t) ==
  /\ at[t] = "sent"
  /\ CASE fault = "none" -> Goto(t, "out") /\ UNCHANGED sending
       [] fault = "audio" /\ MayKeyAgain ->
            /\ Goto(t, "keyOn")
            /\ attempt' = attempt + 1 /\ fault' = "none"
       [] OTHER -> Goto(t, "raised") /\ UNCHANGED sending
  /\ UNCHANGED <<hardware, ptt, closing>>

----------------------------------------------------------------------------
(* IcomCivPtt._key_off, under the lock from its first attempt to its last: *)
(* "off" and "blind" in the finally of transmit, "lastOff" and            *)
(* "lastBlind" in close                                                   *)

UnkeyEnds(t) ==
  /\ lock' = "free"
  /\ IF at[t] \in {"off", "blind"}
     THEN Goto(t, "sent") /\ UNCHANGED last
     ELSE Goto(t, "port") /\ last' = "off"

\* One acknowledged attempt.  Only OK ends it; all refused or unanswered, the
\* blind writes follow.
Off(t) ==
  /\ at[t] \in {"off", "lastOff"} /\ lock \in {"free", t}
  /\ \/ /\ Answers
        /\ carrier' = FALSE /\ unknown' = FALSE /\ alarm' = FALSE
        /\ UnkeyEnds(t)
        /\ UNCHANGED tries
     \/ /\ ~Answers
        /\ carrier' \in Unacknowledged(FALSE)
        /\ lock' = t
        /\ tries' = [tries EXCEPT ![t] = @ + 1]
        /\ IF tries[t] + 1 < UnkeyAttempts THEN UNCHANGED at
           ELSE Goto(t, IF at[t] = "off" THEN "blind" ELSE "lastBlind")
        /\ UNCHANGED <<unknown, alarm, last>>
  /\ UNCHANGED <<bus, trouble, port, sending, closed, exitHook>>

\* Mutant of BlindLeaves: the blind writes are taken for an un-key.
BlindLeavesKnown == unknown' = FALSE /\ alarm' = FALSE
BlindLeaves == unknown' = TRUE /\ alarm' = TRUE

\* _blind_unkey
Blind(t) ==
  /\ at[t] \in {"blind", "lastBlind"}
  /\ carrier' \in IF Answers THEN {FALSE} ELSE Unacknowledged(FALSE)
  /\ BlindLeaves
  /\ UnkeyEnds(t)
  /\ UNCHANGED <<bus, trouble, port, tries, sending, closed, exitHook>>

----------------------------------------------------------------------------
(* RadioTransport.close, IcomCivPtt.close *)

\* Closing twice is the normal case.
CloseStarts(t) ==
  /\ at[t] \in {"out", "raised"}
  /\ Goto(t, IF closed THEN "out" ELSE "claim")
  /\ UNCHANGED <<hardware, ptt, sending, closing>>

Claim(t) ==
  /\ at[t] = "claim"
  /\ closed' = TRUE /\ exitHook' = FALSE
  /\ Goto(t, "lastOff") /\ tries' = [tries EXCEPT ![t] = 0]
  /\ UNCHANGED <<hardware, port, unknown, alarm, lock, sending, last>>

\* ser.close, in the finally
ClosePort(t) ==
  /\ at[t] = "port"
  /\ port' = FALSE
  /\ Goto(t, "out")
  /\ UNCHANGED <<hardware, unknown, alarm, lock, tries, sending, closing>>

\* KeyboardInterrupt in the main thread: only finally clauses still run.
Interrupted ==
  /\ at[Main] \in {"claim", "lastOff", "lastBlind"}
  /\ Goto(Main, IF at[Main] = "claim" THEN "out" ELSE "port")
  /\ lock' = IF lock = Main THEN "free" ELSE lock
  /\ UNCHANGED <<hardware, port, unknown, alarm, tries, sending, closing>>

----------------------------------------------------------------------------
KeyingInit ==
  /\ carrier = FALSE /\ bus = "well" /\ trouble = 0
  /\ port = TRUE /\ unknown = FALSE /\ alarm = FALSE /\ lock = "free"
  /\ at = [t \in Threads |-> "out"] /\ tries = [t \in Threads |-> 0]
  /\ attempt = 1 /\ fault = "none"
  /\ closed = FALSE /\ exitHook = TRUE /\ last = "none"

\* The code a thread runs once it is inside send or close
Inside(t) ==
  KeyOn(t) \/ Play(t) \/ Sent(t) \/ Off(t) \/ Blind(t) \/ Claim(t) \/ ClosePort(t)

KeyingNext ==
  \/ \E t \in Threads : Inside(t) \/ SendStarts(t) \/ CloseStarts(t)
  \/ Interrupted
  \/ BusChanges

KeyingSpec == KeyingInit /\ [][KeyingNext]_keyingVars
----------------------------------------------------------------------------
(* Properties *)

Places == {"out", "keyOn", "play", "off", "blind", "sent", "raised",
           "claim", "lastOff", "lastBlind", "port"}

KeyingTypeOK ==
  /\ carrier \in BOOLEAN /\ port \in BOOLEAN
  /\ unknown \in BOOLEAN /\ alarm \in BOOLEAN
  /\ bus \in {"well", "mute", "dead", "refusing"} /\ trouble \in 0 .. MaxTrouble
  /\ lock \in Threads \union {"free"}
  /\ at \in [Threads -> Places] /\ tries \in [Threads -> 0 .. UnkeyAttempts]
  /\ attempt \in 1 .. Retries /\ fault \in {"none", "audio", "other"}
  /\ closed \in BOOLEAN /\ exitHook \in BOOLEAN /\ last \in {"none", "off", "on"}

\* However a send ends, and whichever of key-on, audio, un-key and bus failed,
\* the transmitter is then down, or the flag says its state is unknown and the
\* operator has been told (transmit's finally, unkey, _key_off).
DownOrTold ==
  at[Worker] \notin {"play", "off", "blind"} => (carrier => unknown /\ alarm)

\* A send does not go round again on a transmitter nobody can account for; only
\* a close on the other thread can lose track of it in between.
RetryAccounted == at[Worker] = "keyOn" /\ attempt > 1 => ~unknown \/ closed
=============================================================================
