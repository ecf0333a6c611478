---------------------------- MODULE RemoteBranch ----------------------------
(***************************************************************************)
(* What ReceivePack promises its clients (RFC-0016 G2, G3, G6): a branch   *)
(* that each request moves in one step, only if it still has the value the *)
(* client last saw, only forward unless forced; a request is reported      *)
(* "moved" only by that step.                                              *)
(***************************************************************************)
EXTENDS CommitGraph

CONSTANTS Handler,    \* the slots that serve requests
          NoRequest   \* an empty slot

VARIABLES parents,    \* the commit graph, which only grows
          tip,        \* the branch
          request     \* request[h]: what slot h serves

vars == <<parents, tip, request>>

Init ==
    /\ \/ parents = << >> /\ tip = NoCommit
       \/ parents = << << >> >> /\ tip = 1
    /\ request = [h \in Handler |-> NoRequest]

\* Clients make commits of their own.
Grow ==
    /\ \E ps \in {<< >>} \cup {<<a>> : a \in DOMAIN parents}
                 \cup {<<a, b>> : a, b \in DOMAIN parents} :
          parents' = Append(parents, ps)
    /\ UNCHANGED <<tip, request>>

Submit(h) ==
    /\ request[h] = NoRequest
    /\ \E old \in DOMAIN parents \cup {NoCommit}, new \in DOMAIN parents, force \in BOOLEAN :
          request' = [request EXCEPT ![h] =
                         [old |-> old, new |-> new, force |-> force, status |-> "open"]]
    /\ UNCHANGED <<parents, tip>>

Move(h) ==
    /\ request[h] # NoRequest
    /\ request[h].status = "open"
    /\ tip = request[h].old
    /\ request[h].force \/ tip = NoCommit \/ IsAncestor(parents, tip, request[h].new)
    /\ tip' = request[h].new
    /\ request' = [request EXCEPT ![h].status = "moved"]
    /\ UNCHANGED parents

Refuse(h) ==
    /\ request[h] # NoRequest
    /\ request[h].status = "open"
    /\ request' = [request EXCEPT ![h].status = "refused"]
    /\ UNCHANGED <<parents, tip>>

\* The answer is delivered or lost, or the server dies with the request.
Finish(h) ==
    /\ request[h] # NoRequest
    /\ request' = [request EXCEPT ![h] = NoRequest]
    /\ UNCHANGED <<parents, tip>>

Next == Grow \/ \E h \in Handler : Submit(h) \/ Move(h) \/ Refuse(h) \/ Finish(h)

Spec == Init /\ [][Next]_vars
==============================================================================
