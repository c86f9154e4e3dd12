------------------------------ MODULE JobQueue ------------------------------
(***************************************************************************)
(* What the orchestrator promises of a batch: every item of every job kind *)
(* gets one verdict, done or halted, and keeps it; and every item that its *)
(* kind keeps enumerating gets one eventually.                             *)
(***************************************************************************)
CONSTANTS
    Kinds,      \* job kinds
    Items,      \* work items
    Always      \* Always[k]: the items every enumeration of k lists

VARIABLE verdict    \* verdict[k][i]: "none" until item i of kind k is settled

Verdicts == {"done", "halted"}

Init == verdict = [k \in Kinds |-> [i \in Items |-> "none"]]

Settle(k, i) ==
    /\ verdict[k][i] = "none"
    /\ \E v \in Verdicts : verdict' = [verdict EXCEPT ![k][i] = v]

Next == \E k \in Kinds, i \in Items : Settle(k, i)

Safe == Init /\ [][Next]_verdict

Spec == Safe /\ \A k \in Kinds : \A i \in Always[k] : WF_verdict(Settle(k, i))
=============================================================================
