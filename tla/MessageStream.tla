--------------------------- MODULE MessageStream ---------------------------
(***************************************************************************)
(* What one direction of a session promises its two applications, with no  *)
(* frame, sequence number, retry or mode in sight.  The sending            *)
(* application hands over messages 1, 2, ... one at a time                 *)
(* (Link.send_message blocks); the receiving application is given whole    *)
(* messages, in that order, each exactly once; the call for message m      *)
(* returns only after message m has been given to the receiver.  A call    *)
(* may instead fail, after which nothing more is sent; the receiver may    *)
(* or may not have been given the message whose call failed.               *)
(***************************************************************************)
EXTENDS Integers, Sequences

CONSTANTS NumMessages,   \* messages the sending application will hand over
          Content(_)     \* the bytes of message m

VARIABLES delivered,     \* sequence of messages given to the receiver
          returned,      \* number of send_message calls that have returned
          broken         \* the last call raised LinkError

vars == <<delivered, returned, broken>>

Init == /\ delivered = << >>
        /\ returned = 0
        /\ broken = FALSE

\* The receiver is given the message the sender is busy with.
Deliver == /\ Len(delivered) = returned
           /\ returned < NumMessages
           /\ delivered' = Append(delivered, Content(returned + 1))
           /\ UNCHANGED <<returned, broken>>

\* send_message returns: the message is known to have been delivered.
Return == /\ ~broken
          /\ returned < Len(delivered)
          /\ returned' = returned + 1
          /\ UNCHANGED <<delivered, broken>>

\* send_message raises LinkError.
Break == /\ ~broken
         /\ returned < NumMessages
         /\ broken' = TRUE
         /\ UNCHANGED <<delivered, returned>>

Next == Deliver \/ Return \/ Break

Spec == Init /\ [][Next]_vars
=============================================================================
