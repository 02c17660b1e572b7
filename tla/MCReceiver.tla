----------------------------- MODULE MCReceiver -----------------------------
(* Instance of Receiver for TLC: frames of a few samples, a ring that wraps. *)
EXTENDS Receiver

Frame(kind, at, late, good) == [kind |-> kind, at |-> at, late |-> late, good |-> good]

Lengths == [control |-> 4, data |-> 6]

\* Frames back to back.  Control frames are repeated, in one ring, after a damaged one
\* and after a sound one, or lie a ring apart.  The last frame ends early enough for the
\* search to reach it.
AirLayouts ==
  { {Frame("data", 2, 1, TRUE), Frame("data", 8, 0, TRUE)},
    {Frame("data", 1, 1, FALSE), Frame("data", 7, 1, TRUE)},
    {Frame("control", 2, 0, FALSE), Frame("data", 7, 0, TRUE)},
    {Frame("control", 1, 0, FALSE), Frame("control", 5, 0, TRUE), Frame("data", 9, 0, TRUE)},
    {Frame("control", 1, 0, TRUE), Frame("control", 5, 0, TRUE), Frame("data", 9, 0, TRUE)},
    {Frame("control", 1, 0, TRUE), Frame("data", 5, 1, TRUE), Frame("control", 11, 0, TRUE)} }
=============================================================================
