---------------------------- MODULE ExportLedger ----------------------------
(***************************************************************************)
(* What the quota component promises the rest of the backend, with no      *)
(* table, transaction or request in sight: a tailored resume is charged    *)
(* when it is first exported, once, and one charge adds one to the counter *)
(* of its owner; only a charged resume is ever handed out; the counter may *)
(* be put back to zero, which never makes a paid resume payable again.     *)
(* Quota.tla is shown to implement this module.                            *)
(***************************************************************************)
EXTENDS Naturals, FiniteSets

CONSTANTS Users, Resumes, Owner

VARIABLES
    charged,    \* the resumes that were paid for
    spent,      \* what each user's counter shows
    delivered   \* the resumes whose export reached its owner

vars == <<charged, spent, delivered>>

Init ==
    /\ charged = {}
    /\ spent = [u \in Users |-> 0]
    /\ delivered = {}

Charge(r) ==
    /\ r \notin charged
    /\ charged' = charged \cup {r}
    /\ spent' = [spent EXCEPT ![Owner[r]] = @ + 1]
    /\ UNCHANGED delivered

Deliver(r) ==
    /\ r \in charged
    /\ delivered' = delivered \cup {r}
    /\ UNCHANGED <<charged, spent>>

Forgive(u) ==
    /\ spent' = [spent EXCEPT ![u] = 0]
    /\ UNCHANGED <<charged, delivered>>

Next ==
    \/ \E r \in Resumes : Charge(r) \/ Deliver(r)
    \/ \E u \in Users : Forgive(u)

Spec == Init /\ [][Next]_vars
=============================================================================
