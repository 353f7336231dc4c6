------------------------------ MODULE GroupLog ------------------------------
(***************************************************************************)
(* What the control events of a group promise (src/group-chat.md: only the *)
(* controller numbers events, so that the state of a group never forks):   *)
(* there is one log, only a replica that has its newest event appends, and *)
(* every replica is a window of the log that grows at its end, one event   *)
(* at a time and without a gap.                                            *)
(***************************************************************************)
EXTENDS Integers, FiniteSets

CONSTANTS Peers, Entries, Number(_)

VARIABLES
    log,   \* the history of the group
    held   \* the events each replica has applied

logVars == <<log, held>>

Newest(E) == CHOOSE e \in E : \A f \in E : Number(f) <= Number(e)
Follows(e, E) == \E f \in E : f = Newest(E) /\ Number(e) = Number(f) + 1

Window(E) == \A e, f \in E : \A n \in Number(e) .. Number(f) : \E g \in E : Number(g) = n

Init ==
    /\ \A e \in log : e \in Entries
    /\ {Number(e) : e \in log} = 1 .. Cardinality(log)
    /\ \A p \in Peers : held[p] \subseteq log /\ Window(held[p])

\* An event is numbered by a replica that has the one before; the first event
\* creates the group.
AppendEvent(p) ==
    \E e \in log' \ log :
        /\ e \in Entries /\ log' = log \cup {e}
        /\ IF log = {} THEN Number(e) = 1 ELSE Follows(e, log) /\ Newest(log) \in held[p]
        /\ held' = [held EXCEPT ![p] = @ \cup {e}]

Extend(p) ==
    /\ UNCHANGED log
    /\ \E e \in log : Follows(e, held[p]) /\ held' = [held EXCEPT ![p] = @ \cup {e}]

\* A peer is told of the group by an invite, which starts its window.
Join(p) ==
    /\ UNCHANGED log
    /\ held[p] = {}
    /\ \E e \in log : held' = [held EXCEPT ![p] = {e}]

\* The records of a group that was dissolved are deleted.
Forget(p) ==
    /\ UNCHANGED log
    /\ held' = [held EXCEPT ![p] = {}]

Next ==
    \E p \in Peers :
        /\ held'[p] # held[p]
        /\ AppendEvent(p) \/ Extend(p) \/ Join(p) \/ Forget(p)

Spec == Init /\ [][Next]_logVars

=============================================================================
