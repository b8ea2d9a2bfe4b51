---------------------------- MODULE MCRateLimiter ----------------------------
(***************************************************************************)
(* Instances of RateLimiter for TLC.  A call in Extra meets no Reset: it   *)
(* comes, beside the others, only in executions in which there is none, and*)
(* uses more than its estimate.                                            *)
(***************************************************************************)
EXTENDS RateLimiter

CONSTANT Extra

Present(r) == r \in Extra => generation = 0

InstanceNext ==
    \/ Tick
    \/ Reset /\ \A r \in Extra : pc[r] = "enter"
    \/ \E r \in Requests \ Extra : Work(r) \/ GiveUp(r)
    \/ \E r \in Extra :
         /\ Present(r) /\ (Work(r) \/ GiveUp(r))
         /\ pc[r] = "provider" => actual'[r] > Estimate

InstanceSpec ==
    /\ Init /\ [][InstanceNext]_vars
    /\ WF_vars(Tick) /\ \A r \in Requests : WF_vars(Present(r) /\ Work(r))
=============================================================================
