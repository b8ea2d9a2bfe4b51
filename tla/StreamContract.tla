--------------------------- MODULE StreamContract ---------------------------
(***************************************************************************)
(* What a stream promises the one who reads it, whatever the middleware    *)
(* between the provider and the reader: the chunks in order, then one      *)
(* terminal chunk, and Done only when nothing is missing.  Stated by the   *)
(* comments of StreamSender in streaming.go.  A reader who leaves chunks   *)
(* unread for too long has the order and the one ending still, but Done    *)
(* may then come early.                                                    *)
(***************************************************************************)
EXTENDS Naturals

CONSTANT NChunks        \* the data chunks the provider has to say

VARIABLES
    delivered,          \* data chunks received
    ending,             \* "open", or how the stream ended
    paused              \* the reader has left chunks unread for a send timeout

vars == <<delivered, ending, paused>>

Init == delivered = 0 /\ ending = "open" /\ paused = FALSE

Deliver ==
    /\ ending = "open"
    /\ delivered < NChunks
    /\ delivered' = delivered + 1
    /\ UNCHANGED <<ending, paused>>

Complete ==
    /\ ending = "open"
    /\ delivered = NChunks \/ paused
    /\ ending' = "done"
    /\ UNCHANGED <<delivered, paused>>

Fail ==
    /\ ending = "open"
    /\ ending' = "failed"
    /\ UNCHANGED <<delivered, paused>>

Pause ==
    /\ ~paused /\ paused' = TRUE
    /\ UNCHANGED <<delivered, ending>>

Next == Deliver \/ Complete \/ Fail \/ Pause

Spec == Init /\ [][Next]_vars
=============================================================================
