--------------------------- MODULE CallbackQueue ---------------------------
(***************************************************************************)
(* callbackQueue of resilience_circuit_breaker.go: transitions are queued  *)
(* under the breaker's lock and a drain goroutine, started when none is    *)
(* running and gone when the queue is empty, calls the user back.          *)
(*                                                                         *)
(* A drain goroutine locks q.mu once per round; between two rounds it runs *)
(* a callback off every lock, while new transitions are queued.            *)
(***************************************************************************)
EXTENDS Naturals, Sequences

CONSTANTS
    MaxTransitions,     \* bound: how many transitions occur
    Drainers            \* names for drain goroutines

ASSUME QueueAssumption == MaxTransitions \in Nat /\ Drainers # {}

VARIABLES
    made,           \* transitions so far; the k-th is called k
    pending,        \* q.pending
    running,        \* q.running
    drain,          \* per goroutine: "none", "round" or "callback"
    started         \* history: transitions whose callback was called, in order

vars == <<made, pending, running, drain, started>>

Init ==
    /\ made = 0
    /\ pending = << >>
    /\ running = FALSE
    /\ drain = [d \in Drainers |-> "none"]
    /\ started = << >>

\* A slip: a goroutine is started for each transition.
EnqueueAlwaysStarts(d) ==
    /\ made < MaxTransitions
    /\ made' = made + 1
    /\ pending' = Append(pending, made + 1)
    /\ drain[d] = "none"
    /\ running' = TRUE
    /\ drain' = [drain EXCEPT ![d] = "round"]
    /\ UNCHANGED started

\* A transition of the breaker: enqueue, with the goroutine it starts if idle.
Enqueue(d) ==
    /\ made < MaxTransitions
    /\ made' = made + 1
    /\ pending' = Append(pending, made + 1)
    /\ running' = TRUE
    /\ IF running
       THEN UNCHANGED drain
       ELSE drain[d] = "none" /\ drain' = [drain EXCEPT ![d] = "round"]
    /\ UNCHANGED started

\* One round of drain: the oldest transition is taken and called back.
Take(d) ==
    /\ drain[d] = "round"
    /\ pending # << >>
    /\ pending' = Tail(pending)
    /\ started' = Append(started, Head(pending))
    /\ drain' = [drain EXCEPT ![d] = "callback"]
    /\ UNCHANGED <<made, running>>

\* A slip: the goroutine leaves without saying so.
ExitStillRunning(d) ==
    /\ drain[d] = "round"
    /\ pending = << >>
    /\ drain' = [drain EXCEPT ![d] = "none"]
    /\ UNCHANGED <<made, pending, running, started>>

\* The last round: the queue is empty, and the goroutine leaves.
Exit(d) ==
    /\ drain[d] = "round"
    /\ pending = << >>
    /\ running' = FALSE
    /\ drain' = [drain EXCEPT ![d] = "none"]
    /\ UNCHANGED <<made, pending, started>>

\* The callback returns or panics; invoke recovers, and the next round follows.
Return(d) ==
    /\ drain[d] = "callback"
    /\ drain' = [drain EXCEPT ![d] = "round"]
    /\ UNCHANGED <<made, pending, running, started>>

Next == \E d \in Drainers : Enqueue(d) \/ Take(d) \/ Exit(d) \/ Return(d)

SafeSpec == Init /\ [][Next]_vars

\* Goroutines are scheduled, and the user's callbacks return.
Fairness == \A d \in Drainers : WF_vars(Take(d)) /\ WF_vars(Exit(d)) /\ WF_vars(Return(d))

Spec == SafeSpec /\ Fairness

(***************************************************************************)
(* Properties                                                              *)
(***************************************************************************)
active == \E d \in Drainers : drain[d] = "callback"
Ordered == INSTANCE OrderedCallbacks

\* At most one goroutine drains, and while transitions are queued one does:
\* no wake-up is lost between the test of an empty queue and a new transition.
OneDrainer ==
    /\ \A d, e \in Drainers : drain[d] # "none" /\ drain[e] # "none" => d = e
    /\ running <=> \E d \in Drainers : drain[d] # "none"
    /\ pending # << >> => running

\* The queue implements ordered, complete, non-overlapping delivery, also in
\* its liveness: every transition is called back.
OrderedDelivery == Ordered!Spec
=============================================================================
