------------------------------- MODULE Quota --------------------------------
(***************************************************************************)
(* QuotaService.consumeOnExport (contexts/quota/quota.service.ts) as it    *)
(* runs inside concurrent export requests, and the support console's       *)
(* counter reset (admin/ops/quota.controller.ts).                          *)
(*                                                                         *)
(* A request is one asynchronous call; another request, in this process or *)
(* in another instance of the backend, may run at each of its awaits, so   *)
(* every database call of the method is an action of its own.              *)
(***************************************************************************)
EXTENDS Naturals, FiniteSets

CONSTANTS
    Users,
    Resumes,
    Owner,          \* the user each tailored resume belongs to
    Requests,       \* the export requests that may be in flight at once
    Limit,          \* tailoringLimit of a counter row: 3 in the code
    Resettable      \* users whose counter support may reset

NoResume == "none"

ASSUME QuotaAssumption ==
    /\ IsFiniteSet(Resumes) /\ NoResume \notin Resumes
    /\ IsFiniteSet(Requests) /\ Requests # {}
    /\ Owner \in [Resumes -> Users]
    /\ Limit \in Nat \ {0}
    /\ Resettable \subseteq Users

VARIABLES
    rows,       \* users that have a quota_usage_counters row
    completed,  \* tailoringCompleted of that row
    log,        \* how many quota_consume_log rows each resume has
    pc,         \* where each request is in consumeOnExport
    target,     \* the resume it exports
    delivered   \* resumes whose export was returned to the user

quotaVars == <<rows, completed, log, pc, target>>
vars == <<rows, completed, log, pc, target, delivered>>

Stages == {"idle", "findLog", "findCounter", "createCounter", "transaction", "charged"}

TypeOK ==
    /\ rows \subseteq Users
    /\ completed \in [Users -> Nat]
    /\ log \in [Resumes -> Nat]
    /\ pc \in [Requests -> Stages]
    /\ target \in [Requests -> Resumes \cup {NoResume}]
    /\ \A p \in Requests : pc[p] # "idle" => target[p] \in Resumes
    /\ delivered \subseteq Resumes

QuotaInit ==
    /\ rows = {}
    /\ completed = [u \in Users |-> 0]
    /\ log = [r \in Resumes |-> 0]
    /\ pc = [p \in Requests |-> "idle"]
    /\ target = [p \in Requests |-> NoResume]

Init == QuotaInit /\ delivered = {}

Charged == {r \in Resumes : log[r] > 0}
ChargedTo(u) == {r \in Charged : Owner[r] = u}
OwnerOf(p) == Owner[target[p]]

Goto(p, stage) == pc' = [pc EXCEPT ![p] = stage] /\ UNCHANGED target

\* The call returns or throws: the request forgets its resume.
Leave(p) ==
    /\ pc' = [pc EXCEPT ![p] = "idle"]
    /\ target' = [target EXCEPT ![p] = NoResume]

-----------------------------------------------------------------------------
(* consumeOnExport, one action per database call *)

Consume(p, r) ==
    /\ pc[p] = "idle"
    /\ pc' = [pc EXCEPT ![p] = "findLog"]
    /\ target' = [target EXCEPT ![p] = r]
    /\ UNCHANGED <<rows, completed, log>>

\* logRepo.findOne: an export already paid for is not charged again.
FindLog(p) ==
    /\ pc[p] = "findLog"
    /\ Goto(p, IF log[target[p]] > 0 THEN "charged" ELSE "findCounter")
    /\ UNCHANGED <<rows, completed, log>>

WithinLimitInclusive(n) == n <= Limit       \* mutant: one too many

\* The check of consumeOnExport on the counter value it has just been given.
WithinLimit(n) == n < Limit

\* mutant: the refusal is logged and not thrown.
FindCounterNoThrow(p) ==
    /\ pc[p] = "findCounter"
    /\ OwnerOf(p) \in rows
    /\ Goto(p, IF WithinLimit(completed[OwnerOf(p)]) THEN "transaction" ELSE "charged")
    /\ UNCHANGED <<rows, completed, log>>

\* getCounter finds the row, and the value read decides.
FindCounter(p) ==
    /\ pc[p] = "findCounter"
    /\ OwnerOf(p) \in rows
    /\ IF WithinLimit(completed[OwnerOf(p)]) THEN Goto(p, "transaction") ELSE Leave(p)
    /\ UNCHANGED <<rows, completed, log>>

FindNoCounter(p) ==
    /\ pc[p] = "findCounter"
    /\ OwnerOf(p) \notin rows
    /\ Goto(p, "createCounter")
    /\ UNCHANGED <<rows, completed, log>>

\* getCounter saves a new row. The entity carries the primary key, so when
\* another request has created the row meanwhile the save updates it.
CreateCounter(p) ==
    /\ pc[p] = "createCounter"
    /\ rows' = rows \cup {OwnerOf(p)}
    /\ completed' = [completed EXCEPT ![OwnerOf(p)] = 0]
    /\ Goto(p, "transaction")
    /\ UNCHANGED log

\* Both saves looked for the row before either inserted it: the second
\* insert breaks the primary key and the request fails.
CreateCounterFails(p) ==
    /\ pc[p] = "createCounter"
    /\ OwnerOf(p) \in rows
    /\ Leave(p)
    /\ UNCHANGED <<rows, completed, log>>

\* mutant: the log has no unique index.
ChargeTwice(p) ==
    /\ pc[p] = "transaction"
    /\ completed' = [completed EXCEPT ![OwnerOf(p)] = @ + 1]
    /\ log' = [log EXCEPT ![target[p]] = @ + 1]
    /\ Goto(p, "charged")
    /\ UNCHANGED rows

\* The transaction: UPDATE ... + 1, then INSERT into the log, whose unique
\* index on tailoredResumeId lets one of two transactions through.
ChargeExport(p) ==
    /\ pc[p] = "transaction"
    /\ log[target[p]] = 0
    /\ completed' = [completed EXCEPT ![OwnerOf(p)] = @ + 1]
    /\ log' = [log EXCEPT ![target[p]] = @ + 1]
    /\ Goto(p, "charged")
    /\ UNCHANGED rows

ChargeRollsBack(p) ==
    /\ pc[p] = "transaction"
    /\ log[target[p]] > 0
    /\ Leave(p)
    /\ UNCHANGED <<rows, completed, log>>

\* The process, its database connection or the client goes away.
Abort(p) ==
    /\ pc[p] # "idle"
    /\ Leave(p)
    /\ UNCHANGED <<rows, completed, log>>

QuotaStep(p) ==
    \/ FindLog(p)
    \/ FindCounter(p) \/ FindNoCounter(p)
    \/ CreateCounter(p) \/ CreateCounterFails(p)
    \/ ChargeExport(p) \/ ChargeRollsBack(p)
    \/ Abort(p)

\* mutant: the caller does not await consumeOnExport.
DeliverUnawaited(p) ==
    /\ pc[p] # "idle"
    /\ delivered' = delivered \cup {target[p]}
    /\ Leave(p)
    /\ UNCHANGED <<rows, completed, log>>

\* The caller has its answer and returns the export to the user.
Deliver(p) ==
    /\ pc[p] = "charged"
    /\ delivered' = delivered \cup {target[p]}
    /\ Leave(p)
    /\ UNCHANGED <<rows, completed, log>>

-----------------------------------------------------------------------------
(* POST admin/ops/quota/:id/reset. What it saves does not depend on what it *)
(* read, and rows are never deleted, so its two calls are one action.       *)

\* mutant: the limit is subtracted.
ResetBySubtraction(u) ==
    /\ u \in rows
    /\ completed' = [completed EXCEPT ![u] = @ - Limit]
    /\ UNCHANGED <<rows, log, pc, target>>

ResetCounter(u) ==
    /\ u \in rows
    /\ completed' = [completed EXCEPT ![u] = 0]
    /\ UNCHANGED <<rows, log, pc, target>>

-----------------------------------------------------------------------------
Next ==
    \/ \E p \in Requests, r \in Resumes : Consume(p, r) /\ UNCHANGED delivered
    \/ \E p \in Requests : QuotaStep(p) /\ UNCHANGED delivered
    \/ \E p \in Requests : Deliver(p)
    \/ \E u \in Resettable : ResetCounter(u) /\ UNCHANGED delivered

Spec == Init /\ [][Next]_vars

-----------------------------------------------------------------------------
(* Properties *)

\* A counter never shows more exports than its user has paid log rows: two
\* requests for one resume, a rollback or a crash half way through
\* consumeOnExport never cost a user a slot.
NeverOvercharged ==
    \A u \in Users : completed[u] <= Cardinality(ChargedTo(u))

\* Whatever reached a user is in the consume log, so a retry of it is free.
DeliveredWasCharged == delivered \subseteq Charged

\* The limit is checked outside the transaction, so requests in flight
\* together can pass it; the excess is less than the number of requests.
OvershootBounded ==
    \A u \in Users : completed[u] <= Limit + Cardinality(Requests) - 1

Ledger == INSTANCE ExportLedger WITH charged <- Charged, spent <- completed

\* consumeOnExport implements the ledger: charged once, counted once, paid
\* for before it is handed out, whatever the interleaving.
ImplementsLedger == Ledger!Spec
=============================================================================
