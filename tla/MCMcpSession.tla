---------------------------- MODULE MCMcpSession ----------------------------
(***************************************************************************)
(* Instances of McpSession for TLC.  In an execution either two calls meet *)
(* or a call and a request of the server: the other parties stay silent,   *)
(* as parties may.                                                         *)
(***************************************************************************)
EXTENDS McpSession

CONSTANT Casts          \* the sets of parties that act together

VARIABLE cast

CastInit == Init /\ cast \in Casts

CastNext ==
    /\ Next /\ UNCHANGED cast
    /\ \A c \in Calls \ cast : call'[c] = "idle"
    /\ \A n \in ServerRequests \ cast : \A i \in DOMAIN stdout' : stdout'[i].of # n

CastSpec == CastInit /\ [][CastNext]_<<vars, cast>> /\ WF_vars(ClientStep)
=============================================================================
