----------------------------- MODULE Broadcast -----------------------------
(***************************************************************************)
(* What a route promises a receiver that is left in peace: from the point  *)
(* where it attaches it is handed every fragment, whole, once and in the   *)
(* order of the pushes, and a push waits for a receiver that is Capacity   *)
(* fragments behind.  Fragments are numbered by their position.            *)
(***************************************************************************)
EXTENDS Integers

CONSTANTS Receivers, Capacity

Nothing == -1

VARIABLES
    pushed,    \* number of fragments pushed
    attached,  \* receivers the promise is made to
    next,      \* the fragment each of them reads next
    hand       \* the fragment each of them has been handed and not yet acked

vars == <<pushed, attached, next, hand>>

Init ==
    /\ pushed = 0
    /\ attached = {}
    /\ next = [r \in Receivers |-> 0]
    /\ hand = [r \in Receivers |-> Nothing]

Push ==
    /\ \A r \in attached : pushed - next[r] < Capacity
    /\ pushed' = pushed + 1
    /\ UNCHANGED <<attached, next, hand>>

Attach(r) ==
    /\ r \notin attached
    /\ attached' = attached \cup {r}
    /\ \E n \in pushed - Capacity .. pushed :
          n >= 0 /\ next' = [next EXCEPT ![r] = n]
    /\ UNCHANGED <<pushed, hand>>

Take(r) ==
    /\ r \in attached
    /\ hand[r] = Nothing
    /\ next[r] < pushed
    /\ hand' = [hand EXCEPT ![r] = next[r]]
    /\ UNCHANGED <<pushed, attached, next>>

Ack(r) ==
    /\ r \in attached
    /\ hand[r] # Nothing
    /\ hand' = [hand EXCEPT ![r] = Nothing]
    /\ next' = [next EXCEPT ![r] = @ + 1]
    /\ UNCHANGED <<pushed, attached>>

\* The promise is withdrawn: a receiver leaves, or the sender forces a push.
Detach(S) ==
    /\ attached' = attached \ S
    /\ next' = [r \in Receivers |-> IF r \in S THEN 0 ELSE next[r]]
    /\ hand' = [r \in Receivers |-> IF r \in S THEN Nothing ELSE hand[r]]
    /\ UNCHANGED pushed

Next ==
    \/ Push
    \/ \E r \in Receivers : Attach(r) \/ Take(r) \/ Ack(r)
    \/ \E S \in SUBSET attached : Detach(S)

Spec == Init /\ [][Next]_vars
=============================================================================
