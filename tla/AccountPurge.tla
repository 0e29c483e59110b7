---------------------------- MODULE AccountPurge ----------------------------
(***************************************************************************)
(* Deleting an account: the deletion saga with its grace period            *)
(* (account-purge-saga.service.ts), its cancellation, the support          *)
(* console's retry, the daily saga job and the daily hard delete           *)
(* (followup-scheduler.service.ts), and the other writers of the user row: *)
(* first login, later logins, Clerk's webhook and the support console.     *)
(*                                                                         *)
(* Time is counted in days. Calls and jobs interleave at every await; one  *)
(* may still be running when a day ends, none lasts through two.           *)
(***************************************************************************)
EXTENDS Naturals, FiniteSets, Sequences, EntitySave

CONSTANTS
    Accounts,       \* the iam_users ids that may exist
    Calls,          \* HTTP requests that may be in flight at once
    Jobs,           \* backend instances that run the scheduled jobs
    Grace,          \* days in which a deletion can be cancelled: 1 in the code
    Retention,      \* days from soft to hard delete: 30 in the code
    OtherWriters,   \* whether logins, Clerk and support write the row as well
    Never,          \* the deletedAt of a user who is not deleted
    \* bounds:
    MaxDay, MaxSagas, MaxFaults

ASSUME AccountPurgeAssumption ==
    /\ Grace \in Nat \ {0} /\ Retention \in Nat
    /\ OtherWriters \in BOOLEAN /\ Never \notin Nat
    /\ MaxDay \in Nat /\ MaxSagas \in Nat /\ MaxFaults \in Nat

VARIABLES
    day,
    user,       \* the iam_users row of each account
    created,    \* accounts that ever had a row
    sagas,      \* the iam_account_purge_sagas table, in the order of createdAt
    purged,     \* accounts with a row in the purge log
    call,       \* what each request is doing
    sagaJob,    \* what processPendingSagas is doing in each instance
    purgeJob,   \* the accounts runGdprPurge has yet to remove in each instance
    faults,     \* failures so far
    \* observations, of no effect on the rest:
    asked,      \* accounts whose deletion the user or Clerk asked for
    revived     \* deleted accounts that a write has made active again

vars == <<day, user, created, sagas, purged, call, sagaJob, purgeJob,
          faults, asked, revived>>
tables == <<user, created, sagas, purged, asked, revived>>
processes == <<call, sagaJob, purgeJob>>

NoUser == [active |-> FALSE]
Days == 0..MaxDay
ActiveUser == [active |-> TRUE, deletedAt |-> Never]
UserRow == [active : BOOLEAN, deletedAt : Days \cup {Never}]
Unfinished == {"INITIATED", "STRIPE_DELETED", "CLERK_DELETED", "DATA_DELETED"}
Steps == Unfinished \cup {"COMPLETED", "DEAD_LETTER"}
Saga == [acct : Accounts, step : Steps, expires : 0..(MaxDay + Grace), cancelled : BOOLEAN]
SagaIds == 1..MaxSagas
Idle == [pc |-> "idle"]

CallState ==
    {Idle}
    \cup [pc : {"softDelete", "restore"}, acct : Accounts, began : Days]
    \cup [pc : {"saveUser"}, acct : Accounts, row : UserRow, began : Days]
    \cup [pc : {"updateUser"}, acct : Accounts, row : UserRow, began : Days,
          columns : SUBSET DOMAIN ActiveUser]
    \cup [pc : {"saveCancel", "saveRetry"}, saga : SagaIds, row : Saga, began : Days]
    \cup [pc : {"updateCancel", "updateRetry"}, saga : SagaIds, row : Saga, began : Days,
          columns : SUBSET {"acct", "step", "expires", "cancelled"}]
SagaJobState ==
    {Idle}
    \cup [pc : {"next"}, todo : SUBSET SagaIds, began : Days]
    \cup [pc : {"run"}, todo : SUBSET SagaIds, cur : SagaIds, step : Unfinished,
          softDeleted : BOOLEAN, began : Days]
PurgeJobState == {Idle} \cup [pc : {"run"}, todo : SUBSET Accounts, began : Days]

TypeOK ==
    /\ day \in Days
    /\ user \in [Accounts -> UserRow \cup {NoUser}]
    /\ created \subseteq Accounts /\ purged \subseteq Accounts
    /\ sagas \in Seq(Saga) /\ Len(sagas) <= MaxSagas
    /\ call \in [Calls -> CallState]
    /\ sagaJob \in [Jobs -> SagaJobState]
    /\ purgeJob \in [Jobs -> PurgeJobState]
    /\ faults \in 0..MaxFaults

Init ==
    /\ day = 0
    /\ user = [a \in Accounts |-> NoUser]
    /\ created = {} /\ purged = {} /\ asked = {} /\ revived = {}
    /\ sagas = <<>>
    /\ call = [c \in Calls |-> Idle]
    /\ sagaJob = [j \in Jobs |-> Idle]
    /\ purgeJob = [j \in Jobs |-> Idle]
    /\ faults = 0

Exists(a) == user[a] # NoUser
Deleted(a) == Exists(a) /\ ~user[a].active /\ user[a].deletedAt # Never

\* softDelete and restoreUser: UPDATE ... WHERE id, nothing when it is gone.
SoftDelete(a) ==
    user' = [user EXCEPT ![a] =
                IF Exists(a) THEN [active |-> FALSE, deletedAt |-> day] ELSE NoUser]

Revive(a) == revived' = revived \cup (IF Deleted(a) \/ ~Exists(a) THEN {a} ELSE {})

Restore(a) ==
    /\ user' = [user EXCEPT ![a] =
                   IF Exists(a) THEN ActiveUser ELSE NoUser]
    /\ Revive(a)

Fault == faults < MaxFaults /\ faults' = faults + 1

-----------------------------------------------------------------------------
(* HTTP requests *)

SetCall(c, state) == call' = [call EXCEPT ![c] = state] /\ UNCHANGED <<day, sagaJob, purgeJob>>

\* POST iam/me for someone new.
SignUp(c, a) ==
    /\ call[c] = Idle
    /\ a \notin created
    /\ user' = [user EXCEPT ![a] = ActiveUser]
    /\ created' = created \cup {a}
    /\ UNCHANGED <<day, sagas, purged, processes, faults, asked, revived>>

\* mutant: the seven days of core-flows.md.
InitiateSevenDays(c, a) ==
    /\ call[c] = Idle
    /\ Exists(a)
    /\ Len(sagas) < MaxSagas
    /\ sagas' = Append(sagas, [acct |-> a, step |-> "INITIATED",
                               expires |-> day + 7 * Grace, cancelled |-> FALSE])
    /\ asked' = asked \cup {a}
    /\ SetCall(c, [pc |-> "softDelete", acct |-> a, began |-> day])
    /\ UNCHANGED <<user, created, purged, faults, revived>>

\* DELETE iam/account: the saga is saved, then the user is soft-deleted.
Initiate(c, a) ==
    /\ call[c] = Idle
    /\ Exists(a)
    /\ Len(sagas) < MaxSagas
    /\ sagas' = Append(sagas, [acct |-> a, step |-> "INITIATED",
                               expires |-> day + Grace, cancelled |-> FALSE])
    /\ asked' = asked \cup {a}
    /\ SetCall(c, [pc |-> "softDelete", acct |-> a, began |-> day])
    /\ UNCHANGED <<user, created, purged, faults, revived>>

InitiateSoftDelete(c) ==
    /\ call[c].pc = "softDelete"
    /\ SoftDelete(call[c].acct)
    /\ SetCall(c, Idle)
    /\ UNCHANGED <<created, sagas, purged, faults, asked, revived>>

\* cancelDeletion takes the newest saga that is not cancelled, and refuses
\* when its grace period is over.
Pending(a) == {s \in 1..Len(sagas) : sagas[s].acct = a /\ ~sagas[s].cancelled}
Newest(a) == {s \in Pending(a) : \A t \in Pending(a) : t <= s}

CancelDeletion(c, a) ==
    /\ call[c] = Idle
    /\ Exists(a)
    /\ \E s \in Newest(a) :
          /\ sagas[s].expires > day
          /\ SetCall(c, [pc |-> "saveCancel", saga |-> s, began |-> day,
                         row |-> [sagas[s] EXCEPT !.cancelled = TRUE]])
    /\ UNCHANGED <<tables, faults>>

RestoreUser(c) ==
    /\ call[c].pc = "restore"
    /\ Restore(call[c].acct)
    /\ SetCall(c, Idle)
    /\ UNCHANGED <<created, sagas, purged, faults, asked>>

\* POST admin/ops/purge-sagas/:id/retry, for a saga in DEAD_LETTER.
RetrySaga(c, s) ==
    /\ call[c] = Idle
    /\ sagas[s].step = "DEAD_LETTER"
    /\ SetCall(c, [pc |-> "saveRetry", saga |-> s, began |-> day,
                   row |-> [sagas[s] EXCEPT !.step = "INITIATED", !.expires = day]])
    /\ UNCHANGED <<tables, faults>>

\* sagaRepo.save of either: select the row, update the columns that differ.
SelectSaga(c) ==
    /\ call[c].pc \in {"saveCancel", "saveRetry"}
    /\ LET s == call[c].saga
       IN SetCall(c, [pc |-> IF call[c].pc = "saveCancel" THEN "updateCancel" ELSE "updateRetry",
                      saga |-> s, row |-> call[c].row, began |-> call[c].began,
                      columns |-> Changed(sagas[s], call[c].row)])
    /\ UNCHANGED <<tables, faults>>

UpdateSaga(c) ==
    /\ call[c].pc \in {"updateCancel", "updateRetry"}
    /\ sagas' = [sagas EXCEPT ![call[c].saga] = Updated(@, call[c].row, call[c].columns)]
    /\ SetCall(c, IF call[c].pc = "updateRetry" THEN Idle
                  ELSE [pc |-> "restore", acct |-> call[c].row.acct, began |-> call[c].began])
    /\ UNCHANGED <<user, created, purged, faults, asked, revived>>

\* A later login (upsert) loads the row to save the e-mail address.
Login(c, a) ==
    /\ OtherWriters
    /\ call[c] = Idle
    /\ Exists(a)
    /\ SetCall(c, [pc |-> "saveUser", acct |-> a, row |-> user[a], began |-> day])
    /\ UNCHANGED <<tables, faults>>

\* PATCH admin/ops/users/:id loads it to set isActive.
SetActive(c, a, b) ==
    /\ OtherWriters
    /\ call[c] = Idle
    /\ Exists(a)
    /\ SetCall(c, [pc |-> "saveUser", acct |-> a,
                   row |-> [user[a] EXCEPT !.active = b], began |-> day])
    /\ UNCHANGED <<tables, faults>>

\* userRepo.save of either: a row that is gone is inserted again.
SelectUser(c) ==
    /\ call[c].pc = "saveUser"
    /\ Exists(call[c].acct)
    /\ SetCall(c, [pc |-> "updateUser", acct |-> call[c].acct, row |-> call[c].row,
                   began |-> call[c].began,
                   columns |-> Changed(user[call[c].acct], call[c].row)])
    /\ UNCHANGED <<tables, faults>>

InsertUser(c) ==
    /\ call[c].pc = "saveUser"
    /\ LET a == call[c].acct
       IN /\ ~Exists(a)
          /\ user' = [user EXCEPT ![a] = call[c].row]
          /\ Revive(a)
    /\ SetCall(c, Idle)
    /\ UNCHANGED <<created, sagas, purged, faults, asked>>

UpdateUser(c) ==
    /\ call[c].pc = "updateUser"
    /\ LET a == call[c].acct
           row == Updated(user[a], call[c].row, call[c].columns)
       IN /\ user' = [user EXCEPT ![a] = IF Exists(a) THEN row ELSE NoUser]
          /\ IF Exists(a) /\ (row.active \/ row.deletedAt = Never)
             THEN Revive(a) ELSE UNCHANGED revived
    /\ SetCall(c, Idle)
    /\ UNCHANGED <<created, sagas, purged, faults, asked>>

\* Clerk's user.deleted webhook.
ClerkUserDeleted(a) ==
    /\ OtherWriters
    /\ Exists(a)
    /\ SoftDelete(a)
    /\ asked' = asked \cup {a}
    /\ UNCHANGED <<day, created, sagas, purged, processes, faults, revived>>

CallFails(c) ==
    /\ call[c] # Idle
    /\ Fault
    /\ SetCall(c, Idle)
    /\ UNCHANGED tables

-----------------------------------------------------------------------------
(* processPendingSagas *)

SetSagaJob(j, state) ==
    sagaJob' = [sagaJob EXCEPT ![j] = state] /\ UNCHANGED <<day, call, purgeJob>>

\* mutants: the grace period is not looked at; only what ends today is.
DueAtOnce(now) == {s \in 1..Len(sagas) : sagas[s].step = "INITIATED" /\ ~sagas[s].cancelled}
DueToday(now) == {s \in DueAtOnce(now) : sagas[s].expires = now}

Due(now) == {s \in 1..Len(sagas) : /\ sagas[s].step = "INITIATED"
                                   /\ ~sagas[s].cancelled
                                   /\ sagas[s].expires <= now}

ListSagas(j) ==
    /\ sagaJob[j] = Idle
    /\ Due(day) # {}
    /\ SetSagaJob(j, [pc |-> "next", todo |-> Due(day), began |-> day])
    /\ UNCHANGED <<tables, faults>>

TakeSaga(j, s) ==
    /\ sagaJob[j].pc = "next"
    /\ s \in sagaJob[j].todo
    /\ SetSagaJob(j, [pc |-> "run", todo |-> sagaJob[j].todo \ {s}, cur |-> s,
                      step |-> "INITIATED", softDeleted |-> FALSE,
                      began |-> sagaJob[j].began])
    /\ UNCHANGED <<tables, faults>>

SagasDone(j) ==
    /\ sagaJob[j].pc = "next"
    /\ sagaJob[j].todo = {}
    /\ SetSagaJob(j, Idle)
    /\ UNCHANGED <<tables, faults>>

\* runSteps compares the step it holds in memory and updates the row's.
NextStep(step) ==
    CASE step = "INITIATED" -> "STRIPE_DELETED"
      [] step = "STRIPE_DELETED" -> "CLERK_DELETED"
      [] step = "CLERK_DELETED" -> "DATA_DELETED"
      [] step = "DATA_DELETED" -> "COMPLETED"

NextSaga(j) == [pc |-> "next", todo |-> sagaJob[j].todo, began |-> sagaJob[j].began]

SoftDeleteStep(j) ==
    /\ sagaJob[j].pc = "run"
    /\ sagaJob[j].step = "CLERK_DELETED" /\ ~sagaJob[j].softDeleted
    /\ SoftDelete(sagas[sagaJob[j].cur].acct)
    /\ SetSagaJob(j, [sagaJob[j] EXCEPT !.softDeleted = TRUE])
    /\ UNCHANGED <<created, sagas, purged, faults, asked, revived>>

\* mutant: the last step relies on the soft delete of the request.
AdvanceWithoutDelete(j) ==
    /\ sagaJob[j].pc = "run"
    /\ LET next == NextStep(sagaJob[j].step)
       IN /\ sagas' = [sagas EXCEPT ![sagaJob[j].cur].step = next]
          /\ SetSagaJob(j, IF next = "COMPLETED" THEN NextSaga(j)
                           ELSE [sagaJob[j] EXCEPT !.step = next])
    /\ UNCHANGED <<user, created, purged, faults, asked, revived>>

AdvanceSaga(j) ==
    /\ sagaJob[j].pc = "run"
    /\ sagaJob[j].step = "CLERK_DELETED" => sagaJob[j].softDeleted
    /\ LET next == NextStep(sagaJob[j].step)
       IN /\ sagas' = [sagas EXCEPT ![sagaJob[j].cur].step = next]
          /\ SetSagaJob(j, IF next = "COMPLETED" THEN NextSaga(j)
                           ELSE [sagaJob[j] EXCEPT !.step = next])
    /\ UNCHANGED <<user, created, purged, faults, asked, revived>>

\* A step throws: the saga is put away for support, the job goes on.
StepThrows(j) ==
    /\ sagaJob[j].pc = "run"
    /\ Fault
    /\ sagas' = [sagas EXCEPT ![sagaJob[j].cur].step = "DEAD_LETTER"]
    /\ SetSagaJob(j, NextSaga(j))
    /\ UNCHANGED <<user, created, purged, asked, revived>>

\* The process dies, or putting the saga away fails as well.
SagaJobDies(j) ==
    /\ sagaJob[j] # Idle
    /\ Fault
    /\ SetSagaJob(j, Idle)
    /\ UNCHANGED tables

-----------------------------------------------------------------------------
(* runGdprPurge *)

SetPurgeJob(j, state) ==
    purgeJob' = [purgeJob EXCEPT ![j] = state] /\ UNCHANGED <<day, call, sagaJob>>

\* mutants: every inactive user; only those whose time is up today.
PurgeableInactive == {a \in Accounts : Exists(a) /\ ~user[a].active}
PurgeableToday == {a \in Accounts : Deleted(a) /\ user[a].deletedAt + Retention + 1 = day}

Purgeable == {a \in Accounts : Deleted(a) /\ user[a].deletedAt + Retention < day}

ListPurgeable(j) ==
    /\ purgeJob[j] = Idle
    /\ Purgeable # {}
    /\ SetPurgeJob(j, [pc |-> "run", todo |-> Purgeable, began |-> day])
    /\ UNCHANGED <<tables, faults>>

RestOfPurge(j, a) == LET rest == purgeJob[j].todo \ {a} IN
    IF rest = {} THEN Idle ELSE [purgeJob[j] EXCEPT !.todo = rest]

\* mutant: the log is written outside the transaction, and is not.
PurgeUserUnlogged(j, a) ==
    /\ purgeJob[j] # Idle
    /\ a \in purgeJob[j].todo
    /\ user' = [user EXCEPT ![a] = NoUser]
    /\ SetPurgeJob(j, RestOfPurge(j, a))
    /\ UNCHANGED <<created, sagas, purged, faults, asked, revived>>

\* One transaction: delete the user row, insert the purge log row.
PurgeUser(j, a) ==
    /\ purgeJob[j] # Idle
    /\ a \in purgeJob[j].todo
    /\ user' = [user EXCEPT ![a] = NoUser]
    /\ purged' = purged \cup {a}
    /\ SetPurgeJob(j, RestOfPurge(j, a))
    /\ UNCHANGED <<created, sagas, faults, asked, revived>>

PurgeUserFails(j, a) ==
    /\ purgeJob[j] # Idle
    /\ a \in purgeJob[j].todo
    /\ Fault
    /\ SetPurgeJob(j, RestOfPurge(j, a))
    /\ UNCHANGED tables

PurgeJobDies(j) ==
    /\ purgeJob[j] # Idle
    /\ Fault
    /\ SetPurgeJob(j, Idle)
    /\ UNCHANGED tables

-----------------------------------------------------------------------------
\* Whatever began before today is over before tomorrow.
Tick ==
    /\ day < MaxDay
    /\ \A c \in Calls : call[c] # Idle => call[c].began = day
    /\ \A j \in Jobs : sagaJob[j] # Idle => sagaJob[j].began = day
    /\ \A j \in Jobs : purgeJob[j] # Idle => purgeJob[j].began = day
    /\ day' = day + 1
    /\ UNCHANGED <<tables, processes, faults>>

CallSteps(c) ==
    \/ InitiateSoftDelete(c) \/ SelectSaga(c) \/ UpdateSaga(c)
    \/ RestoreUser(c) \/ SelectUser(c) \/ InsertUser(c) \/ UpdateUser(c)
SagaJobSteps(j) ==
    \/ ListSagas(j) \/ SagasDone(j) \/ SoftDeleteStep(j) \/ AdvanceSaga(j)
    \/ \E s \in SagaIds : TakeSaga(j, s)
PurgeJobSteps(j) == ListPurgeable(j) \/ \E a \in Accounts : PurgeUser(j, a)

Next ==
    \/ Tick
    \/ \E c \in Calls, a \in Accounts :
          \/ SignUp(c, a) \/ Initiate(c, a) \/ CancelDeletion(c, a)
          \/ Login(c, a) \/ \E b \in BOOLEAN : SetActive(c, a, b)
    \/ \E c \in Calls, s \in 1..Len(sagas) : RetrySaga(c, s)
    \/ \E c \in Calls : CallSteps(c) \/ CallFails(c)
    \/ \E a \in Accounts : ClerkUserDeleted(a)
    \/ \E j \in Jobs :
          \/ SagaJobSteps(j) \/ StepThrows(j) \/ SagaJobDies(j)
          \/ PurgeJobSteps(j) \/ PurgeJobDies(j)
    \/ \E j \in Jobs, a \in Accounts : PurgeUserFails(j, a)

Spec == Init /\ [][Next]_vars

\* Days go by, the jobs run every day, and a running call or job goes on.
FairSpec ==
    /\ Spec
    /\ WF_vars(Tick)
    /\ \A c \in Calls : WF_vars(CallSteps(c))
    /\ \A j \in Jobs : WF_vars(SagaJobSteps(j)) /\ WF_vars(PurgeJobSteps(j))

-----------------------------------------------------------------------------
(* Properties *)

\* Only an account whose user or whose Clerk webhook asked for deletion is
\* ever hard-deleted: a suspension by support alone never leads there.
PurgeOnlyRequested == purged \subseteq asked

\* The purge log is compliance evidence: no row disappears without an entry.
PurgedIsLogged == \A a \in created : Exists(a) \/ a \in purged

\* No step of a deletion is taken while it can still be cancelled.
NothingBeforeGrace ==
    \A s \in 1..Len(sagas) : sagas[s].step # "INITIATED" => sagas[s].expires <= day

\* A completed saga leaves its user deleted, also when the request that
\* began it died before its own soft delete; only a write that revives a
\* deleted user, such as a late cancellation or a stale save, undoes it.
CompletedMeansDeleted ==
    \A s \in 1..Len(sagas) :
        sagas[s].step = "COMPLETED" /\ sagas[s].acct \notin revived
           => ~Exists(sagas[s].acct) \/ ~user[sagas[s].acct].active

\* Every deletion whose grace period is over is taken up, also when the job
\* missed the day it fell due on or died with the saga in its list.
DueIsTaken ==
    \A s \in SagaIds :
        (s <= Len(sagas) /\ s \in Due(day))
            ~> (s <= Len(sagas) /\ (sagas[s].step # "INITIATED" \/ sagas[s].cancelled))

\* A saga that is not cancelled ends: completed, or put away for support.
SagaEnds ==
    \A s \in SagaIds :
        (s <= Len(sagas) /\ sagas[s].expires <= MaxDay)
            ~> (s <= Len(sagas) /\ \/ sagas[s].cancelled
                                    \/ sagas[s].step \in {"COMPLETED", "DEAD_LETTER"})

\* A deleted account is gone when its retention is over, unless it was
\* revived or deleted again meanwhile.
DeletedIsPurged ==
    \A a \in Accounts :
        (Deleted(a) /\ user[a].deletedAt + Retention < MaxDay)
            ~> (~Deleted(a) \/ user[a].deletedAt + Retention >= MaxDay)

\* A cancellation in the grace period takes effect: when each deletion of an
\* account is cancelled and no call or job is at work, its user is active.
CancelTakesEffect ==
    \A a \in Accounts :
        /\ a \in asked /\ Exists(a) /\ Pending(a) = {}
        /\ \A c \in Calls : call[c] = Idle
        /\ \A j \in Jobs : sagaJob[j] = Idle /\ purgeJob[j] = Idle
        => user[a].active
=============================================================================
