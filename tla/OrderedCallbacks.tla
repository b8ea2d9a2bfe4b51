-------------------------- MODULE OrderedCallbacks --------------------------
(***************************************************************************)
(* What the circuit breaker promises the owner of onStateChange: every     *)
(* transition is reported, once, in the order transitions occurred, and no *)
(* two reports overlap (the comment on callbackQueue).                     *)
(***************************************************************************)
EXTENDS Naturals, Sequences

CONSTANT MaxTransitions     \* bound: how many transitions occur

VARIABLES
    made,       \* transitions so far; the k-th is called k
    started,    \* the transitions whose callback was called, in call order
    active      \* whether a callback is executing

vars == <<made, started, active>>

Init == made = 0 /\ started = << >> /\ active = FALSE

Transition ==
    /\ made < MaxTransitions
    /\ made' = made + 1
    /\ UNCHANGED <<started, active>>

Call ==
    /\ ~active
    /\ Len(started) < made
    /\ started' = Append(started, Len(started) + 1)
    /\ active' = TRUE
    /\ UNCHANGED made

Return ==
    /\ active
    /\ active' = FALSE
    /\ UNCHANGED <<made, started>>

Next == Transition \/ Call \/ Return

Spec == Init /\ [][Next]_vars /\ WF_vars(Call) /\ WF_vars(Return)
=============================================================================
