------------------------ MODULE AccountPurge_proofs -------------------------
(***************************************************************************)
(* Proofs about AccountPurge, for any number of accounts, calls, job       *)
(* instances, days, sagas and failures.                                    *)
(***************************************************************************)
EXTENDS AccountPurge, SequenceTheorems, FiniteSetTheorems, TLAPS

-----------------------------------------------------------------------------
(* A save writes a row of the type of the rows it was made of. *)

LEMMA UpdatedUser ==
    ASSUME NEW old \in UserRow, NEW new \in UserRow, NEW columns
    PROVE  /\ Updated(old, new, columns) \in UserRow
           /\ Updated(old, new, columns).deletedAt \in {old.deletedAt, new.deletedAt}
BY DEF Updated, UserRow

LEMMA UpdatedSaga ==
    ASSUME NEW old \in Saga, NEW new \in Saga, NEW columns
    PROVE  /\ Updated(old, new, columns) \in Saga
           /\ Updated(old, new, columns).acct \in {old.acct, new.acct}
           /\ \/ Updated(old, new, columns).expires = old.expires
              \/ Updated(old, new, columns).expires = new.expires
           /\ \/ Updated(old, new, columns).step = old.step
              \/ Updated(old, new, columns).step = new.step
BY DEF Updated, Saga

LEMMA ChangedUser ==
    ASSUME NEW old \in UserRow, NEW new PROVE Changed(old, new) \subseteq DOMAIN ActiveUser
BY DEF Changed, UserRow, ActiveUser

LEMMA ChangedSaga ==
    ASSUME NEW old \in Saga, NEW new
    PROVE  Changed(old, new) \subseteq {"acct", "step", "expires", "cancelled"}
BY DEF Changed, Saga

\* Writing one row of the table leaves the others as they are.
LEMMA SagasExcept ==
    ASSUME TypeOK, NEW k \in 1..Len(sagas), NEW v \in Saga, sagas' = [sagas EXCEPT ![k] = v]
    PROVE  /\ sagas' \in Seq(Saga) /\ Len(sagas') = Len(sagas)
           /\ \A s \in 1..Len(sagas) : sagas'[s] = IF s = k THEN v ELSE sagas[s]
BY ExceptSeq DEF TypeOK

LEMMA SagaAt ==
    ASSUME AccountPurgeAssumption, TypeOK, NEW s \in 1..Len(sagas)
    PROVE  sagas[s] \in Saga /\ s \in SagaIds
<1>1. sagas[s] \in Saga
  BY DEF TypeOK
<1>2. s \in SagaIds
  BY DEF TypeOK, SagaIds, AccountPurgeAssumption
<1>3. QED
  BY <1>1, <1>2

SavesSaga(c) == call[c].pc \in {"saveCancel", "saveRetry", "updateCancel", "updateRetry"}
SavesUser(c) == call[c].pc \in {"saveUser", "updateUser"}

\* What a call that saves a row holds.
LEMMA SavingCalls ==
    ASSUME TypeOK, NEW c \in Calls
    PROVE  /\ SavesSaga(c) => /\ call[c].saga \in SagaIds /\ call[c].row \in Saga
                              /\ call[c].began \in Days
           /\ SavesUser(c) => /\ call[c].acct \in Accounts /\ call[c].row \in UserRow
                              /\ call[c].began \in Days
BY DEF TypeOK, CallState, Idle, SavesSaga, SavesUser

\* Calls and jobs hold the numbers of sagas that exist.
Indexed ==
    /\ \A c \in Calls : SavesSaga(c) => call[c].saga \in 1..Len(sagas)
    /\ \A j \in Jobs : sagaJob[j].pc \in {"next", "run"} => sagaJob[j].todo \subseteq 1..Len(sagas)
    /\ \A j \in Jobs : sagaJob[j].pc = "run" => sagaJob[j].cur \in 1..Len(sagas)

-----------------------------------------------------------------------------
(* Type correctness *)

LEMMA NextType ==
    ASSUME AccountPurgeAssumption, TypeOK, Indexed, [Next]_vars PROVE TypeOK'
<1> USE DEF tables, processes
<1>1. ASSUME Tick PROVE TypeOK'
  BY <1>1 DEF Tick, AccountPurgeAssumption, TypeOK, Idle, Days, SagaIds, Steps,
     Unfinished, UserRow, NoUser, Saga
<1>2. ASSUME NEW c \in Calls, NEW a \in Accounts, SignUp(c, a) PROVE TypeOK'
  BY <1>2 DEF SignUp, SetCall, ActiveUser, AccountPurgeAssumption, TypeOK,
     CallState, Idle, Days, SagaIds, Steps, Unfinished, UserRow, NoUser, Saga
<1>3. ASSUME NEW c \in Calls, NEW a \in Accounts, Initiate(c, a) PROVE TypeOK'
  BY <1>3 DEF Initiate, SetCall, AccountPurgeAssumption, TypeOK, CallState, Idle,
     Days, SagaIds, Steps, Unfinished, UserRow, NoUser, Saga
<1>4. ASSUME NEW c \in Calls, InitiateSoftDelete(c) PROVE TypeOK'
  BY <1>4 DEF InitiateSoftDelete, SetCall, SoftDelete, AccountPurgeAssumption,
     TypeOK, CallState, Idle, Days, SagaIds, Steps, Unfinished, UserRow, NoUser,
     Saga
<1>5. ASSUME NEW c \in Calls, NEW a \in Accounts, CancelDeletion(c, a) PROVE TypeOK'
  <2>1. PICK s \in Newest(a) :
              call' = [call EXCEPT ![c] = [pc |-> "saveCancel", saga |-> s, began |-> day,
                                           row |-> [sagas[s] EXCEPT !.cancelled = TRUE]]]
    BY <1>5 DEF CancelDeletion, SetCall
  <2>2. s \in 1..Len(sagas)
    BY DEF Newest, Pending
  <2>3. [sagas[s] EXCEPT !.cancelled = TRUE] \in Saga
    BY <2>2, SagaAt DEF Saga
  <2>4. call' \in [Calls -> CallState]
    BY <2>1, <2>2, <2>3, SagaAt DEF TypeOK, CallState
  <2>5. QED
    BY <1>5, <2>4 DEF CancelDeletion, SetCall, TypeOK
<1>6. ASSUME NEW c \in Calls, NEW s \in 1..Len(sagas), RetrySaga(c, s) PROVE TypeOK'
  <2>1. [sagas[s] EXCEPT !.step = "INITIATED", !.expires = day] \in Saga
    <3>1. day \in 0..(MaxDay + Grace)
      BY DEF TypeOK, Days, AccountPurgeAssumption
    <3>2. QED
      BY <3>1, SagaAt DEF Saga, Steps, Unfinished
  <2>2. call' \in [Calls -> CallState]
    BY <1>6, <2>1, SagaAt DEF RetrySaga, SetCall, TypeOK, CallState
  <2>3. QED
    BY <1>6, <2>2 DEF RetrySaga, SetCall, TypeOK
<1>7. ASSUME NEW c \in Calls, SelectSaga(c) PROVE TypeOK'
  <2>1. SavesSaga(c) /\ call[c].saga \in 1..Len(sagas)
    BY <1>7 DEF SelectSaga, SavesSaga, Indexed
  <2>2. Changed(sagas[call[c].saga], call[c].row)
           \subseteq {"acct", "step", "expires", "cancelled"}
    BY <2>1, SagaAt, ChangedSaga
  <2>3. call' \in [Calls -> CallState]
    BY <1>7, <2>1, <2>2, SavingCalls DEF SelectSaga, SetCall, TypeOK, CallState
  <2>4. QED
    BY <1>7, <2>3 DEF SelectSaga, SetCall, TypeOK
<1>8. ASSUME NEW c \in Calls, UpdateSaga(c) PROVE TypeOK'
  <2>1. SavesSaga(c) /\ call[c].saga \in 1..Len(sagas)
    BY <1>8 DEF UpdateSaga, SavesSaga, Indexed
  <2>2. Updated(sagas[call[c].saga], call[c].row, call[c].columns) \in Saga
    BY <2>1, SagaAt, SavingCalls, UpdatedSaga
  <2>3. sagas' \in Seq(Saga) /\ Len(sagas') = Len(sagas)
    BY <1>8, <2>1, <2>2, SagasExcept DEF UpdateSaga
  <2>4. call[c].row.acct \in Accounts
    BY <2>1, SavingCalls DEF Saga
  <2>5. call' \in [Calls -> CallState]
    BY <1>8, <2>1, <2>4, SavingCalls DEF UpdateSaga, SetCall, TypeOK, CallState
  <2>6. QED
    BY <1>8, <2>3, <2>5 DEF UpdateSaga, SetCall, TypeOK
<1>9. ASSUME NEW c \in Calls, RestoreUser(c) PROVE TypeOK'
  BY <1>9 DEF RestoreUser, SetCall, Restore, ActiveUser, AccountPurgeAssumption,
     TypeOK, CallState, Idle, Days, SagaIds, Steps, Unfinished, UserRow, NoUser,
     Saga
<1>10. ASSUME NEW c \in Calls, NEW a \in Accounts, Login(c, a) PROVE TypeOK'
  <2>1. user[a] \in UserRow
    BY <1>10 DEF Login, Exists, TypeOK
  <2>2. call' \in [Calls -> CallState]
    BY <1>10, <2>1 DEF Login, SetCall, TypeOK, CallState
  <2>3. QED
    BY <1>10, <2>2 DEF Login, SetCall, TypeOK
<1>11. ASSUME NEW c \in Calls, NEW a \in Accounts, NEW b \in BOOLEAN, SetActive(c, a, b)
       PROVE  TypeOK'
  <2>1. [user[a] EXCEPT !.active = b] \in UserRow
    BY <1>11 DEF SetActive, Exists, TypeOK, UserRow
  <2>2. call' \in [Calls -> CallState]
    BY <1>11, <2>1 DEF SetActive, SetCall, TypeOK, CallState
  <2>3. QED
    BY <1>11, <2>2 DEF SetActive, SetCall, TypeOK
<1>12. ASSUME NEW c \in Calls, SelectUser(c) PROVE TypeOK'
  <2>1. SavesUser(c) /\ call[c].pc = "saveUser" /\ Exists(call[c].acct)
    BY <1>12 DEF SelectUser, SavesUser
  <2>2. user[call[c].acct] \in UserRow
    BY <2>1, SavingCalls DEF Exists, TypeOK
  <2>3. Changed(user[call[c].acct], call[c].row) \subseteq DOMAIN ActiveUser
    BY <2>2, ChangedUser
  <2>4. call' \in [Calls -> CallState]
    BY <1>12, <2>1, <2>3, SavingCalls DEF SelectUser, SetCall, TypeOK, CallState
  <2>5. QED
    BY <1>12, <2>4 DEF SelectUser, SetCall, TypeOK
<1>13. ASSUME NEW c \in Calls, InsertUser(c) PROVE TypeOK'
  <2>1. SavesUser(c)
    BY <1>13 DEF InsertUser, SavesUser
  <2>2. user' \in [Accounts -> UserRow \cup {NoUser}]
    BY <1>13, <2>1, SavingCalls DEF InsertUser, TypeOK
  <2>3. QED
    BY <1>13, <2>2 DEF InsertUser, SetCall, TypeOK, CallState
<1>14. ASSUME NEW c \in Calls, UpdateUser(c) PROVE TypeOK'
  <2>1. SavesUser(c)
    BY <1>14 DEF UpdateUser, SavesUser
  <2>2. Exists(call[c].acct)
           => Updated(user[call[c].acct], call[c].row, call[c].columns) \in UserRow
    BY <2>1, SavingCalls, UpdatedUser DEF Exists, TypeOK
  <2>3. user' \in [Accounts -> UserRow \cup {NoUser}]
    BY <1>14, <2>2 DEF UpdateUser, TypeOK
  <2>4. QED
    BY <1>14, <2>3 DEF UpdateUser, SetCall, TypeOK, CallState
<1>15. ASSUME NEW a \in Accounts, ClerkUserDeleted(a) PROVE TypeOK'
  BY <1>15 DEF ClerkUserDeleted, SoftDelete, AccountPurgeAssumption, TypeOK, Idle,
     Days, SagaIds, Steps, Unfinished, UserRow, NoUser, Saga
<1>16. ASSUME NEW c \in Calls, CallFails(c) PROVE TypeOK'
  BY <1>16 DEF CallFails, SetCall, Fault, AccountPurgeAssumption, TypeOK, CallState,
     Idle, Days, SagaIds, Steps, Unfinished, UserRow, NoUser, Saga
<1>17. ASSUME NEW j \in Jobs, ListSagas(j) PROVE TypeOK'
  BY <1>17 DEF ListSagas, SetSagaJob, NextSaga, Due, AccountPurgeAssumption, TypeOK,
     SagaJobState, Idle, Days, SagaIds, Steps, Unfinished, UserRow, NoUser, Saga
<1>18. ASSUME NEW j \in Jobs, NEW s \in SagaIds, TakeSaga(j, s) PROVE TypeOK'
  BY <1>18 DEF TakeSaga, SetSagaJob, NextSaga, AccountPurgeAssumption, TypeOK,
     SagaJobState, Idle, Days, SagaIds, Steps, Unfinished, UserRow, NoUser, Saga
<1>19. ASSUME NEW j \in Jobs, SagasDone(j) PROVE TypeOK'
  BY <1>19 DEF SagasDone, SetSagaJob, NextSaga, AccountPurgeAssumption, TypeOK,
     SagaJobState, Idle, Days, SagaIds, Steps, Unfinished, UserRow, NoUser, Saga
<1>20. ASSUME NEW j \in Jobs, SoftDeleteStep(j) PROVE TypeOK'
  <2>1. sagaJob' \in [Jobs -> SagaJobState]
    BY <1>20 DEF SoftDeleteStep, SetSagaJob, TypeOK, SagaJobState, Idle
  <2>2. user' \in [Accounts -> UserRow \cup {NoUser}]
    BY <1>20 DEF SoftDeleteStep, SoftDelete, TypeOK, UserRow
  <2>3. QED
    BY <1>20, <2>1, <2>2 DEF SoftDeleteStep, SetSagaJob, TypeOK
<1>21. ASSUME NEW j \in Jobs, AdvanceSaga(j) PROVE TypeOK'
  <2> DEFINE s == sagaJob[j].cur
             next == NextStep(sagaJob[j].step)
  <2>1. s \in 1..Len(sagas) /\ sagaJob[j].step \in Unfinished
    BY <1>21 DEF AdvanceSaga, Indexed, TypeOK, SagaJobState, Idle
  <2>2. next \in Steps /\ (next # "COMPLETED" => next \in Unfinished)
    BY <2>1 DEF NextStep, Steps, Unfinished
  <2>3. [sagas[s] EXCEPT !.step = next] \in Saga
    BY <2>1, <2>2, SagaAt DEF Saga
  <2>4. sagas' = [sagas EXCEPT ![s] = [sagas[s] EXCEPT !.step = next]]
    BY <1>21 DEF AdvanceSaga
  <2>5. sagas' \in Seq(Saga) /\ Len(sagas') = Len(sagas)
    BY <2>1, <2>3, <2>4, SagasExcept
  <2>6. sagaJob' \in [Jobs -> SagaJobState]
    BY <1>21, <2>2 DEF AdvanceSaga, SetSagaJob, NextSaga, TypeOK, SagaJobState, Idle
  <2>7. QED
    BY <1>21, <2>5, <2>6 DEF AdvanceSaga, SetSagaJob, TypeOK
<1>22. ASSUME NEW j \in Jobs, StepThrows(j) PROVE TypeOK'
  <2> DEFINE s == sagaJob[j].cur
  <2>1. s \in 1..Len(sagas)
    BY <1>22 DEF StepThrows, Indexed
  <2>2. [sagas[s] EXCEPT !.step = "DEAD_LETTER"] \in Saga
    BY <2>1, SagaAt DEF Saga, Steps
  <2>3. sagas' = [sagas EXCEPT ![s] = [sagas[s] EXCEPT !.step = "DEAD_LETTER"]]
    BY <1>22 DEF StepThrows
  <2>4. sagas' \in Seq(Saga) /\ Len(sagas') = Len(sagas)
    BY <2>1, <2>2, <2>3, SagasExcept
  <2>5. sagaJob' \in [Jobs -> SagaJobState]
    BY <1>22 DEF StepThrows, SetSagaJob, NextSaga, TypeOK, SagaJobState, Idle
  <2>6. QED
    BY <1>22, <2>4, <2>5 DEF StepThrows, SetSagaJob, Fault, TypeOK,
       AccountPurgeAssumption
<1>23. ASSUME NEW j \in Jobs, SagaJobDies(j) PROVE TypeOK'
  BY <1>23 DEF SagaJobDies, SetSagaJob, NextSaga, Fault, AccountPurgeAssumption,
     TypeOK, SagaJobState, Idle, Days, SagaIds, Steps, Unfinished, UserRow, NoUser,
     Saga
<1>24. ASSUME NEW j \in Jobs, ListPurgeable(j) PROVE TypeOK'
  BY <1>24 DEF ListPurgeable, SetPurgeJob, RestOfPurge, Purgeable,
     AccountPurgeAssumption, TypeOK, PurgeJobState, Idle, Days, SagaIds, Steps,
     Unfinished, UserRow, NoUser, Saga
<1>25. ASSUME NEW j \in Jobs, NEW a \in Accounts, PurgeUser(j, a) PROVE TypeOK'
  BY <1>25 DEF PurgeUser, SetPurgeJob, RestOfPurge, AccountPurgeAssumption, TypeOK,
     PurgeJobState, Idle, Days, SagaIds, Steps, Unfinished, UserRow, NoUser, Saga
<1>26. ASSUME NEW j \in Jobs, NEW a \in Accounts, PurgeUserFails(j, a) PROVE TypeOK'
  BY <1>26 DEF PurgeUserFails, SetPurgeJob, RestOfPurge, Fault,
     AccountPurgeAssumption, TypeOK, PurgeJobState, Idle, Days, SagaIds, Steps,
     Unfinished, UserRow, NoUser, Saga
<1>27. ASSUME NEW j \in Jobs, PurgeJobDies(j) PROVE TypeOK'
  BY <1>27 DEF PurgeJobDies, SetPurgeJob, RestOfPurge, Fault,
     AccountPurgeAssumption, TypeOK, PurgeJobState, Idle, Days, SagaIds, Steps,
     Unfinished, UserRow, NoUser, Saga
<1>28. ASSUME UNCHANGED vars PROVE TypeOK'
  BY <1>28 DEF vars, TypeOK
<1>29. QED
  BY <1>1, <1>2, <1>3, <1>4, <1>5, <1>6, <1>7, <1>8, <1>9, <1>10, <1>11, <1>12,
     <1>13, <1>14, <1>15, <1>16, <1>17, <1>18, <1>19, <1>20, <1>21, <1>22, <1>23,
     <1>24, <1>25, <1>26, <1>27, <1>28 DEF Next, CallSteps, SagaJobSteps,
     PurgeJobSteps

-----------------------------------------------------------------------------
(* Numbers of sagas stay valid: the table only grows. *)

LEMMA SagasGrow ==
    ASSUME AccountPurgeAssumption, TypeOK, Indexed, [Next]_vars
    PROVE  Len(sagas') \in Nat /\ Len(sagas') >= Len(sagas)
<1>1. CASE \E c \in Calls, a \in Accounts : Initiate(c, a)
  BY <1>1 DEF Initiate, TypeOK
<1>2. CASE UNCHANGED sagas
  BY <1>2 DEF TypeOK
<1>3. ASSUME NEW k, NEW v, sagas' = [sagas EXCEPT ![k] = v]
      PROVE  Len(sagas') \in Nat /\ Len(sagas') >= Len(sagas)
  BY <1>3 DEF TypeOK
<1>4. \/ \E c \in Calls, a \in Accounts : Initiate(c, a)
      \/ UNCHANGED sagas
      \/ \E k : \E v : sagas' = [sagas EXCEPT ![k] = v]
  BY DEF Next, vars, tables, CallSteps, SagaJobSteps, PurgeJobSteps, Tick, SignUp,
     Initiate, InitiateSoftDelete, CancelDeletion, RetrySaga, SelectSaga,
     UpdateSaga, RestoreUser, Login, SetActive, SelectUser, InsertUser, UpdateUser,
     ClerkUserDeleted, CallFails, ListSagas, TakeSaga, SagasDone, SoftDeleteStep,
     AdvanceSaga, StepThrows, SagaJobDies, ListPurgeable, PurgeUser, PurgeUserFails,
     PurgeJobDies
<1>5. QED
  BY <1>1, <1>2, <1>3, <1>4

LEMMA NextIndexed ==
    ASSUME AccountPurgeAssumption, TypeOK, Indexed, [Next]_vars PROVE Indexed'
<1> DEFINE Grows == Len(sagas') \in Nat /\ Len(sagas') >= Len(sagas) /\ Len(sagas) \in Nat
<1>0. Grows
  BY SagasGrow DEF TypeOK
<1> USE DEF tables, processes
<1>1. ASSUME Tick PROVE Indexed'
  BY <1>1, <1>0 DEF Tick, Indexed, SavesSaga, TypeOK, Idle
<1>2. ASSUME NEW c \in Calls, NEW a \in Accounts, SignUp(c, a) PROVE Indexed'
  BY <1>2, <1>0 DEF SignUp, SetCall, ActiveUser, Indexed, SavesSaga, TypeOK, Idle
<1>3. ASSUME NEW c \in Calls, NEW a \in Accounts, Initiate(c, a) PROVE Indexed'
  BY <1>3, <1>0 DEF Initiate, SetCall, Indexed, SavesSaga, TypeOK, Idle
<1>4. ASSUME NEW c \in Calls, InitiateSoftDelete(c) PROVE Indexed'
  BY <1>4, <1>0 DEF InitiateSoftDelete, SetCall, SoftDelete, Indexed, SavesSaga,
     TypeOK, Idle
<1>5. ASSUME NEW c \in Calls, NEW a \in Accounts, CancelDeletion(c, a)
      PROVE  Indexed'
  BY <1>5, <1>0 DEF CancelDeletion, SetCall, Newest, Pending, Indexed, SavesSaga,
     TypeOK, Idle
<1>6. ASSUME NEW c \in Calls, NEW s \in 1..Len(sagas), RetrySaga(c, s)
      PROVE  Indexed'
  BY <1>6, <1>0 DEF RetrySaga, SetCall, Indexed, SavesSaga, TypeOK, Idle
<1>7. ASSUME NEW c \in Calls, SelectSaga(c) PROVE Indexed'
  BY <1>7, <1>0 DEF SelectSaga, SetCall, Indexed, SavesSaga, TypeOK, Idle
<1>8. ASSUME NEW c \in Calls, UpdateSaga(c) PROVE Indexed'
  BY <1>8, <1>0 DEF UpdateSaga, SetCall, Indexed, SavesSaga, TypeOK, Idle
<1>9. ASSUME NEW c \in Calls, RestoreUser(c) PROVE Indexed'
  BY <1>9, <1>0 DEF RestoreUser, SetCall, Restore, ActiveUser, Indexed, SavesSaga,
     TypeOK, Idle
<1>10. ASSUME NEW c \in Calls, NEW a \in Accounts, Login(c, a) PROVE Indexed'
  BY <1>10, <1>0 DEF Login, SetCall, Indexed, SavesSaga, TypeOK, Idle
<1>11. ASSUME NEW c \in Calls, NEW a \in Accounts, NEW b \in BOOLEAN, SetActive(c, a, b)
       PROVE  Indexed'
  BY <1>11, <1>0 DEF SetActive, SetCall, Indexed, SavesSaga, TypeOK, Idle
<1>12. ASSUME NEW c \in Calls, SelectUser(c) PROVE Indexed'
  BY <1>12, <1>0 DEF SelectUser, SetCall, Indexed, SavesSaga, TypeOK, Idle
<1>13. ASSUME NEW c \in Calls, InsertUser(c) PROVE Indexed'
  BY <1>13, <1>0 DEF InsertUser, SetCall, Indexed, SavesSaga, TypeOK, Idle
<1>14. ASSUME NEW c \in Calls, UpdateUser(c) PROVE Indexed'
  BY <1>14, <1>0 DEF UpdateUser, SetCall, Indexed, SavesSaga, TypeOK, Idle
<1>15. ASSUME NEW a \in Accounts, ClerkUserDeleted(a) PROVE Indexed'
  BY <1>15, <1>0 DEF ClerkUserDeleted, SoftDelete, Indexed, SavesSaga, TypeOK, Idle
<1>16. ASSUME NEW c \in Calls, CallFails(c) PROVE Indexed'
  BY <1>16, <1>0 DEF CallFails, SetCall, Fault, Indexed, SavesSaga, TypeOK, Idle
<1>17. ASSUME NEW j \in Jobs, ListSagas(j) PROVE Indexed'
  BY <1>17, <1>0 DEF ListSagas, SetSagaJob, NextSaga, Due, Indexed, SavesSaga,
     TypeOK, Idle
<1>18. ASSUME NEW j \in Jobs, NEW s \in SagaIds, TakeSaga(j, s) PROVE Indexed'
  BY <1>18, <1>0 DEF TakeSaga, SetSagaJob, NextSaga, Indexed, SavesSaga, TypeOK,
     Idle
<1>19. ASSUME NEW j \in Jobs, SagasDone(j) PROVE Indexed'
  BY <1>19, <1>0 DEF SagasDone, SetSagaJob, NextSaga, Indexed, SavesSaga, TypeOK,
     Idle
<1>20. ASSUME NEW j \in Jobs, SoftDeleteStep(j) PROVE Indexed'
  BY <1>20, <1>0 DEF SoftDeleteStep, SetSagaJob, NextSaga, SoftDelete, Indexed,
     SavesSaga, TypeOK, Idle
<1>21. ASSUME NEW j \in Jobs, AdvanceSaga(j) PROVE Indexed'
  <2>1. sagaJob[j].todo \subseteq 1..Len(sagas) /\ sagaJob[j].cur \in 1..Len(sagas)
    BY <1>21 DEF AdvanceSaga, Indexed
  <2>2. sagaJob[j] \in [pc : {"run"}, todo : SUBSET SagaIds, cur : SagaIds,
                        step : Unfinished, softDeleted : BOOLEAN, began : Days]
    BY <1>21 DEF AdvanceSaga, TypeOK, SagaJobState, Idle
  <2>3. PICK x : \/ sagaJob' = [sagaJob EXCEPT ![j] = NextSaga(j)]
                 \/ sagaJob' = [sagaJob EXCEPT ![j] = [sagaJob[j] EXCEPT !.step = x]]
    BY <1>21 DEF AdvanceSaga, SetSagaJob
  <2>4. /\ sagaJob'[j].todo = sagaJob[j].todo
        /\ sagaJob'[j].pc = "run" => sagaJob'[j].cur = sagaJob[j].cur
        /\ \A k \in Jobs \ {j} : sagaJob'[k] = sagaJob[k]
    BY <2>2, <2>3 DEF NextSaga, TypeOK
  <2>5. UNCHANGED call
    BY <1>21 DEF AdvanceSaga, SetSagaJob
  <2>6. QED
    BY <1>0, <2>1, <2>4, <2>5 DEF Indexed, SavesSaga
<1>22. ASSUME NEW j \in Jobs, StepThrows(j) PROVE Indexed'
  BY <1>22, <1>0 DEF StepThrows, SetSagaJob, NextSaga, Fault, Indexed, SavesSaga,
     TypeOK, Idle
<1>23. ASSUME NEW j \in Jobs, SagaJobDies(j) PROVE Indexed'
  BY <1>23, <1>0 DEF SagaJobDies, SetSagaJob, NextSaga, Fault, Indexed, SavesSaga,
     TypeOK, Idle
<1>24. ASSUME NEW j \in Jobs, ListPurgeable(j) PROVE Indexed'
  BY <1>24, <1>0 DEF ListPurgeable, SetPurgeJob, RestOfPurge, Purgeable, Indexed,
     SavesSaga, TypeOK, Idle
<1>25. ASSUME NEW j \in Jobs, NEW a \in Accounts, PurgeUser(j, a) PROVE Indexed'
  BY <1>25, <1>0 DEF PurgeUser, SetPurgeJob, RestOfPurge, Indexed, SavesSaga,
     TypeOK, Idle
<1>26. ASSUME NEW j \in Jobs, NEW a \in Accounts, PurgeUserFails(j, a)
       PROVE  Indexed'
  BY <1>26, <1>0 DEF PurgeUserFails, SetPurgeJob, RestOfPurge, Fault, Indexed,
     SavesSaga, TypeOK, Idle
<1>27. ASSUME NEW j \in Jobs, PurgeJobDies(j) PROVE Indexed'
  BY <1>27, <1>0 DEF PurgeJobDies, SetPurgeJob, RestOfPurge, Fault, Indexed,
     SavesSaga, TypeOK, Idle
<1>28. ASSUME UNCHANGED vars PROVE Indexed'
  BY <1>28 DEF vars, Indexed, SavesSaga
<1>29. QED
  BY <1>1, <1>2, <1>3, <1>4, <1>5, <1>6, <1>7, <1>8, <1>9, <1>10, <1>11, <1>12,
     <1>13, <1>14, <1>15, <1>16, <1>17, <1>18, <1>19, <1>20, <1>21, <1>22, <1>23,
     <1>24, <1>25, <1>26, <1>27, <1>28 DEF Next, CallSteps, SagaJobSteps,
     PurgeJobSteps

-----------------------------------------------------------------------------
(* What a step may do to the sagas, to the saga a call holds and to the     *)
(* list of a job.                                                           *)

LEMMA SagaEffect ==
    ASSUME [Next]_vars
    PROVE  \/ UNCHANGED sagas
           \/ \E c \in Calls, a \in Accounts : Initiate(c, a)
           \/ \E c \in Calls : UpdateSaga(c)
           \/ \E j \in Jobs : AdvanceSaga(j) \/ StepThrows(j)
BY DEF Next, vars, tables, CallSteps, SagaJobSteps, PurgeJobSteps, Tick, SignUp,
   Initiate, InitiateSoftDelete, CancelDeletion, RetrySaga, SelectSaga, UpdateSaga,
   RestoreUser, Login, SetActive, SelectUser, InsertUser, UpdateUser,
   ClerkUserDeleted, CallFails, ListSagas, TakeSaga, SagasDone, SoftDeleteStep,
   AdvanceSaga, StepThrows, SagaJobDies, ListPurgeable, PurgeUser, PurgeUserFails,
   PurgeJobDies

LEMMA DayEffect ==
    ASSUME TypeOK, [Next]_vars PROVE day \in Nat /\ day' \in Nat /\ day' >= day
<1>1. day' = day \/ Tick
  BY DEF Next, vars, SetCall, SetSagaJob, SetPurgeJob, tables, CallSteps,
     SagaJobSteps, PurgeJobSteps, Tick, SignUp, Initiate, InitiateSoftDelete,
     CancelDeletion, RetrySaga, SelectSaga, UpdateSaga, RestoreUser, Login,
     SetActive, SelectUser, InsertUser, UpdateUser, ClerkUserDeleted, CallFails,
     ListSagas, TakeSaga, SagasDone, SoftDeleteStep, AdvanceSaga, StepThrows,
     SagaJobDies, ListPurgeable, PurgeUser, PurgeUserFails, PurgeJobDies
<1>2. QED
  BY <1>1 DEF TypeOK, Days, Tick

LoadsSaga(c) == \/ \E a \in Accounts : CancelDeletion(c, a)
                \/ \E s \in 1..Len(sagas) : RetrySaga(c, s)
KeepsSaga(c) == SavesSaga(c) /\ call'[c].saga = call[c].saga /\ call'[c].row = call[c].row

LEMMA CallEffect ==
    ASSUME TypeOK, [Next]_vars, NEW d \in Calls, SavesSaga(d)'
    PROVE  LoadsSaga(d) \/ KeepsSaga(d)
<1> DEFINE Goal == LoadsSaga(d) \/ KeepsSaga(d)
<1> HIDE DEF Goal
<1> USE DEF tables, processes
<1>1. ASSUME Tick PROVE Goal
  BY <1>1 DEF Tick, Goal, LoadsSaga, KeepsSaga, SavesSaga, TypeOK, Idle
<1>2. ASSUME NEW c \in Calls, NEW a \in Accounts, SignUp(c, a) PROVE Goal
  BY <1>2 DEF SignUp, SetCall, ActiveUser, Goal, LoadsSaga, KeepsSaga, SavesSaga,
     TypeOK, Idle
<1>3. ASSUME NEW c \in Calls, NEW a \in Accounts, Initiate(c, a) PROVE Goal
  BY <1>3 DEF Initiate, SetCall, Goal, LoadsSaga, KeepsSaga, SavesSaga, TypeOK, Idle
<1>4. ASSUME NEW c \in Calls, InitiateSoftDelete(c) PROVE Goal
  BY <1>4 DEF InitiateSoftDelete, SetCall, SoftDelete, Goal, LoadsSaga, KeepsSaga,
     SavesSaga, TypeOK, Idle
<1>5. ASSUME NEW c \in Calls, NEW a \in Accounts, CancelDeletion(c, a) PROVE Goal
  BY <1>5 DEF CancelDeletion, SetCall, Newest, Pending, Goal, LoadsSaga, KeepsSaga,
     SavesSaga, TypeOK, Idle
<1>6. ASSUME NEW c \in Calls, NEW s \in 1..Len(sagas), RetrySaga(c, s) PROVE Goal
  BY <1>6 DEF RetrySaga, SetCall, Goal, LoadsSaga, KeepsSaga, SavesSaga, TypeOK,
     Idle
<1>7. ASSUME NEW c \in Calls, SelectSaga(c) PROVE Goal
  BY <1>7 DEF SelectSaga, SetCall, Goal, LoadsSaga, KeepsSaga, SavesSaga, TypeOK,
     Idle
<1>8. ASSUME NEW c \in Calls, UpdateSaga(c) PROVE Goal
  BY <1>8 DEF UpdateSaga, SetCall, Goal, LoadsSaga, KeepsSaga, SavesSaga, TypeOK,
     Idle
<1>9. ASSUME NEW c \in Calls, RestoreUser(c) PROVE Goal
  BY <1>9 DEF RestoreUser, SetCall, Restore, ActiveUser, Goal, LoadsSaga, KeepsSaga,
     SavesSaga, TypeOK, Idle
<1>10. ASSUME NEW c \in Calls, NEW a \in Accounts, Login(c, a) PROVE Goal
  BY <1>10 DEF Login, SetCall, Goal, LoadsSaga, KeepsSaga, SavesSaga, TypeOK, Idle
<1>11. ASSUME NEW c \in Calls, NEW a \in Accounts, NEW b \in BOOLEAN, SetActive(c, a, b)
       PROVE  Goal
  BY <1>11 DEF SetActive, SetCall, Goal, LoadsSaga, KeepsSaga, SavesSaga, TypeOK,
     Idle
<1>12. ASSUME NEW c \in Calls, SelectUser(c) PROVE Goal
  BY <1>12 DEF SelectUser, SetCall, Goal, LoadsSaga, KeepsSaga, SavesSaga, TypeOK,
     Idle
<1>13. ASSUME NEW c \in Calls, InsertUser(c) PROVE Goal
  BY <1>13 DEF InsertUser, SetCall, Goal, LoadsSaga, KeepsSaga, SavesSaga, TypeOK,
     Idle
<1>14. ASSUME NEW c \in Calls, UpdateUser(c) PROVE Goal
  BY <1>14 DEF UpdateUser, SetCall, Goal, LoadsSaga, KeepsSaga, SavesSaga, TypeOK,
     Idle
<1>15. ASSUME NEW a \in Accounts, ClerkUserDeleted(a) PROVE Goal
  BY <1>15 DEF ClerkUserDeleted, SoftDelete, Goal, LoadsSaga, KeepsSaga, SavesSaga,
     TypeOK, Idle
<1>16. ASSUME NEW c \in Calls, CallFails(c) PROVE Goal
  BY <1>16 DEF CallFails, SetCall, Fault, Goal, LoadsSaga, KeepsSaga, SavesSaga,
     TypeOK, Idle
<1>17. ASSUME NEW j \in Jobs, ListSagas(j) PROVE Goal
  BY <1>17 DEF ListSagas, SetSagaJob, NextSaga, Due, Goal, LoadsSaga, KeepsSaga,
     SavesSaga, TypeOK, Idle
<1>18. ASSUME NEW j \in Jobs, NEW s \in SagaIds, TakeSaga(j, s) PROVE Goal
  BY <1>18 DEF TakeSaga, SetSagaJob, NextSaga, Goal, LoadsSaga, KeepsSaga,
     SavesSaga, TypeOK, Idle
<1>19. ASSUME NEW j \in Jobs, SagasDone(j) PROVE Goal
  BY <1>19 DEF SagasDone, SetSagaJob, NextSaga, Goal, LoadsSaga, KeepsSaga,
     SavesSaga, TypeOK, Idle
<1>20. ASSUME NEW j \in Jobs, SoftDeleteStep(j) PROVE Goal
  BY <1>20 DEF SoftDeleteStep, SetSagaJob, NextSaga, SoftDelete, Goal, LoadsSaga,
     KeepsSaga, SavesSaga, TypeOK, Idle
<1>21. ASSUME NEW j \in Jobs, AdvanceSaga(j) PROVE Goal
  BY <1>21 DEF AdvanceSaga, SetSagaJob, NextSaga, NextStep, Goal, LoadsSaga,
     KeepsSaga, SavesSaga, TypeOK, Idle
<1>22. ASSUME NEW j \in Jobs, StepThrows(j) PROVE Goal
  BY <1>22 DEF StepThrows, SetSagaJob, NextSaga, Fault, Goal, LoadsSaga, KeepsSaga,
     SavesSaga, TypeOK, Idle
<1>23. ASSUME NEW j \in Jobs, SagaJobDies(j) PROVE Goal
  BY <1>23 DEF SagaJobDies, SetSagaJob, NextSaga, Fault, Goal, LoadsSaga, KeepsSaga,
     SavesSaga, TypeOK, Idle
<1>24. ASSUME NEW j \in Jobs, ListPurgeable(j) PROVE Goal
  BY <1>24 DEF ListPurgeable, SetPurgeJob, RestOfPurge, Purgeable, Goal, LoadsSaga,
     KeepsSaga, SavesSaga, TypeOK, Idle
<1>25. ASSUME NEW j \in Jobs, NEW a \in Accounts, PurgeUser(j, a) PROVE Goal
  BY <1>25 DEF PurgeUser, SetPurgeJob, RestOfPurge, Goal, LoadsSaga, KeepsSaga,
     SavesSaga, TypeOK, Idle
<1>26. ASSUME NEW j \in Jobs, NEW a \in Accounts, PurgeUserFails(j, a) PROVE Goal
  BY <1>26 DEF PurgeUserFails, SetPurgeJob, RestOfPurge, Fault, Goal, LoadsSaga,
     KeepsSaga, SavesSaga, TypeOK, Idle
<1>27. ASSUME NEW j \in Jobs, PurgeJobDies(j) PROVE Goal
  BY <1>27 DEF PurgeJobDies, SetPurgeJob, RestOfPurge, Fault, Goal, LoadsSaga,
     KeepsSaga, SavesSaga, TypeOK, Idle
<1>28. ASSUME UNCHANGED vars PROVE Goal
  BY <1>28 DEF vars, Goal, KeepsSaga, SavesSaga
<1>29. QED
  BY <1>1, <1>2, <1>3, <1>4, <1>5, <1>6, <1>7, <1>8, <1>9, <1>10, <1>11, <1>12,
     <1>13, <1>14, <1>15, <1>16, <1>17, <1>18, <1>19, <1>20, <1>21, <1>22, <1>23,
     <1>24, <1>25, <1>26, <1>27, <1>28 DEF Next, CallSteps, SagaJobSteps,
     PurgeJobSteps, Goal

ListsSagas(j) == ListSagas(j) /\ sagaJob'[j].todo = Due(day) /\ sagaJob'[j].pc = "next"
KeepsList(j) ==
    /\ sagaJob[j].pc \in {"next", "run"}
    /\ sagaJob'[j].todo \subseteq sagaJob[j].todo
    /\ sagaJob'[j].pc = "run" =>
          \/ sagaJob[j].pc = "run" /\ sagaJob'[j].cur = sagaJob[j].cur
          \/ sagaJob'[j].cur \in sagaJob[j].todo

LEMMA JobEffect ==
    ASSUME TypeOK, [Next]_vars, NEW k \in Jobs, sagaJob'[k].pc \in {"next", "run"}
    PROVE  ListsSagas(k) \/ KeepsList(k)
<1> DEFINE Goal == ListsSagas(k) \/ KeepsList(k)
<1> HIDE DEF Goal
<1> USE DEF tables, processes
<1>1. ASSUME Tick PROVE Goal
  BY <1>1 DEF Tick, Goal, ListsSagas, KeepsList, TypeOK, SagaJobState, Idle
<1>2. ASSUME NEW c \in Calls, NEW a \in Accounts, SignUp(c, a) PROVE Goal
  BY <1>2 DEF SignUp, SetCall, ActiveUser, Goal, ListsSagas, KeepsList, TypeOK,
     SagaJobState, Idle
<1>3. ASSUME NEW c \in Calls, NEW a \in Accounts, Initiate(c, a) PROVE Goal
  BY <1>3 DEF Initiate, SetCall, Goal, ListsSagas, KeepsList, TypeOK, SagaJobState,
     Idle
<1>4. ASSUME NEW c \in Calls, InitiateSoftDelete(c) PROVE Goal
  BY <1>4 DEF InitiateSoftDelete, SetCall, SoftDelete, Goal, ListsSagas, KeepsList,
     TypeOK, SagaJobState, Idle
<1>5. ASSUME NEW c \in Calls, NEW a \in Accounts, CancelDeletion(c, a) PROVE Goal
  BY <1>5 DEF CancelDeletion, SetCall, Newest, Pending, Goal, ListsSagas, KeepsList,
     TypeOK, SagaJobState, Idle
<1>6. ASSUME NEW c \in Calls, NEW s \in 1..Len(sagas), RetrySaga(c, s) PROVE Goal
  BY <1>6 DEF RetrySaga, SetCall, Goal, ListsSagas, KeepsList, TypeOK, SagaJobState,
     Idle
<1>7. ASSUME NEW c \in Calls, SelectSaga(c) PROVE Goal
  BY <1>7 DEF SelectSaga, SetCall, Goal, ListsSagas, KeepsList, TypeOK,
     SagaJobState, Idle
<1>8. ASSUME NEW c \in Calls, UpdateSaga(c) PROVE Goal
  BY <1>8 DEF UpdateSaga, SetCall, Goal, ListsSagas, KeepsList, TypeOK,
     SagaJobState, Idle
<1>9. ASSUME NEW c \in Calls, RestoreUser(c) PROVE Goal
  BY <1>9 DEF RestoreUser, SetCall, Restore, ActiveUser, Goal, ListsSagas,
     KeepsList, TypeOK, SagaJobState, Idle
<1>10. ASSUME NEW c \in Calls, NEW a \in Accounts, Login(c, a) PROVE Goal
  BY <1>10 DEF Login, SetCall, Goal, ListsSagas, KeepsList, TypeOK, SagaJobState,
     Idle
<1>11. ASSUME NEW c \in Calls, NEW a \in Accounts, NEW b \in BOOLEAN, SetActive(c, a, b)
       PROVE  Goal
  BY <1>11 DEF SetActive, SetCall, Goal, ListsSagas, KeepsList, TypeOK,
     SagaJobState, Idle
<1>12. ASSUME NEW c \in Calls, SelectUser(c) PROVE Goal
  BY <1>12 DEF SelectUser, SetCall, Goal, ListsSagas, KeepsList, TypeOK,
     SagaJobState, Idle
<1>13. ASSUME NEW c \in Calls, InsertUser(c) PROVE Goal
  BY <1>13 DEF InsertUser, SetCall, Goal, ListsSagas, KeepsList, TypeOK,
     SagaJobState, Idle
<1>14. ASSUME NEW c \in Calls, UpdateUser(c) PROVE Goal
  BY <1>14 DEF UpdateUser, SetCall, Goal, ListsSagas, KeepsList, TypeOK,
     SagaJobState, Idle
<1>15. ASSUME NEW a \in Accounts, ClerkUserDeleted(a) PROVE Goal
  BY <1>15 DEF ClerkUserDeleted, SoftDelete, Goal, ListsSagas, KeepsList, TypeOK,
     SagaJobState, Idle
<1>16. ASSUME NEW c \in Calls, CallFails(c) PROVE Goal
  BY <1>16 DEF CallFails, SetCall, Fault, Goal, ListsSagas, KeepsList, TypeOK,
     SagaJobState, Idle
<1>17. ASSUME NEW j \in Jobs, ListSagas(j) PROVE Goal
  BY <1>17 DEF ListSagas, SetSagaJob, Goal, ListsSagas, KeepsList, TypeOK,
     SagaJobState, Idle
<1>18. ASSUME NEW j \in Jobs, NEW s \in SagaIds, TakeSaga(j, s) PROVE Goal
  BY <1>18 DEF TakeSaga, SetSagaJob, NextSaga, Goal, ListsSagas, KeepsList, TypeOK,
     SagaJobState, Idle
<1>19. ASSUME NEW j \in Jobs, SagasDone(j) PROVE Goal
  BY <1>19 DEF SagasDone, SetSagaJob, NextSaga, Goal, ListsSagas, KeepsList, TypeOK,
     SagaJobState, Idle
<1>20. ASSUME NEW j \in Jobs, SoftDeleteStep(j) PROVE Goal
  BY <1>20 DEF SoftDeleteStep, SetSagaJob, NextSaga, SoftDelete, Goal, ListsSagas,
     KeepsList, TypeOK, SagaJobState, Idle
<1>21. ASSUME NEW j \in Jobs, AdvanceSaga(j) PROVE Goal
  BY <1>21 DEF AdvanceSaga, SetSagaJob, NextSaga, NextStep, Goal, ListsSagas,
     KeepsList, TypeOK, SagaJobState, Idle
<1>22. ASSUME NEW j \in Jobs, StepThrows(j) PROVE Goal
  BY <1>22 DEF StepThrows, SetSagaJob, NextSaga, Fault, Goal, ListsSagas, KeepsList,
     TypeOK, SagaJobState, Idle
<1>23. ASSUME NEW j \in Jobs, SagaJobDies(j) PROVE Goal
  BY <1>23 DEF SagaJobDies, SetSagaJob, NextSaga, Fault, Goal, ListsSagas,
     KeepsList, TypeOK, SagaJobState, Idle
<1>24. ASSUME NEW j \in Jobs, ListPurgeable(j) PROVE Goal
  BY <1>24 DEF ListPurgeable, SetPurgeJob, RestOfPurge, Purgeable, Goal, ListsSagas,
     KeepsList, TypeOK, SagaJobState, Idle
<1>25. ASSUME NEW j \in Jobs, NEW a \in Accounts, PurgeUser(j, a) PROVE Goal
  BY <1>25 DEF PurgeUser, SetPurgeJob, RestOfPurge, Goal, ListsSagas, KeepsList,
     TypeOK, SagaJobState, Idle
<1>26. ASSUME NEW j \in Jobs, NEW a \in Accounts, PurgeUserFails(j, a) PROVE Goal
  BY <1>26 DEF PurgeUserFails, SetPurgeJob, RestOfPurge, Fault, Goal, ListsSagas,
     KeepsList, TypeOK, SagaJobState, Idle
<1>27. ASSUME NEW j \in Jobs, PurgeJobDies(j) PROVE Goal
  BY <1>27 DEF PurgeJobDies, SetPurgeJob, RestOfPurge, Fault, Goal, ListsSagas,
     KeepsList, TypeOK, SagaJobState, Idle
<1>28. ASSUME UNCHANGED vars PROVE Goal
  BY <1>28 DEF vars, Goal, KeepsList
<1>29. QED
  BY <1>1, <1>2, <1>3, <1>4, <1>5, <1>6, <1>7, <1>8, <1>9, <1>10, <1>11, <1>12,
     <1>13, <1>14, <1>15, <1>16, <1>17, <1>18, <1>19, <1>20, <1>21, <1>22, <1>23,
     <1>24, <1>25, <1>26, <1>27, <1>28 DEF Next, CallSteps, SagaJobSteps,
     PurgeJobSteps, Goal

-----------------------------------------------------------------------------
(* No deletion step before the grace period is over. The property alone is  *)
(* not inductive: a job that holds a saga has seen its grace period end,    *)
(* and a saved row never carries a later end than the table shows, unless   *)
(* both are over.                                                           *)

SameEnd(x, y) == x = y \/ (x <= day /\ y <= day)

GraceInv ==
    /\ NothingBeforeGrace
    /\ \A c \in Calls : SavesSaga(c) =>
          /\ call[c].row.step = "INITIATED"
          /\ SameEnd(call[c].row.expires, sagas[call[c].saga].expires)
    /\ \A j \in Jobs : sagaJob[j].pc \in {"next", "run"} =>
          \A s \in sagaJob[j].todo : sagas[s].expires <= day
    /\ \A j \in Jobs : sagaJob[j].pc = "run" => sagas[sagaJob[j].cur].expires <= day

\* A saga keeps its end, or both the old and the new one are over; and it
\* is past INITIATED only when its end is over.
LEMMA EndsKept ==
    ASSUME AccountPurgeAssumption, TypeOK, Indexed, GraceInv, [Next]_vars
    PROVE  /\ \A s \in 1..Len(sagas) : /\ sagas[s].expires \in Nat /\ sagas'[s].expires \in Nat
                                       /\ SameEnd(sagas'[s].expires, sagas[s].expires)
           /\ NothingBeforeGrace'
<1> DEFINE Kept == /\ \A s \in 1..Len(sagas) :
                         /\ sagas[s].expires \in Nat /\ sagas'[s].expires \in Nat
                         /\ SameEnd(sagas'[s].expires, sagas[s].expires)
                   /\ \A s \in 1..Len(sagas') :
                         sagas'[s].step # "INITIATED" => sagas'[s].expires <= day
<1>1. \A s \in 1..Len(sagas) : sagas[s] \in Saga /\ sagas[s].expires \in Nat
  BY SagaAt DEF Saga, AccountPurgeAssumption
<1>2. ASSUME UNCHANGED sagas PROVE Kept
  BY <1>1, <1>2 DEF GraceInv, NothingBeforeGrace, SameEnd
<1>3. ASSUME NEW c \in Calls, NEW a \in Accounts, Initiate(c, a) PROVE Kept
  <2>1. \A s \in 1..Len(sagas) : sagas'[s] = sagas[s]
    BY <1>3 DEF Initiate, TypeOK
  <2>2. Len(sagas') = Len(sagas) + 1 /\ Len(sagas) \in Nat
        /\ sagas'[Len(sagas) + 1].step = "INITIATED"
    BY <1>3 DEF Initiate, TypeOK
  <2>3. \A s \in 1..Len(sagas') : s \in 1..Len(sagas) \/ s = Len(sagas) + 1
    BY <2>2
  <2>4. QED
    BY <1>1, <2>1, <2>2, <2>3 DEF GraceInv, NothingBeforeGrace, SameEnd
<1>4. ASSUME NEW c \in Calls, UpdateSaga(c) PROVE Kept
  <2> DEFINE k == call[c].saga
             v == Updated(sagas[k], call[c].row, call[c].columns)
  <2>1. SavesSaga(c) /\ k \in 1..Len(sagas) /\ sagas' = [sagas EXCEPT ![k] = v]
    BY <1>4 DEF UpdateSaga, SavesSaga, Indexed
  <2>2. /\ v \in Saga
        /\ v.expires \in {sagas[k].expires, call[c].row.expires}
        /\ v.step \in {sagas[k].step, call[c].row.step}
    BY <2>1, <1>1, SavingCalls, UpdatedSaga
  <2>3. /\ Len(sagas') = Len(sagas)
        /\ \A s \in 1..Len(sagas) : sagas'[s] = IF s = k THEN v ELSE sagas[s]
    BY <2>1, <2>2, SagasExcept
  <2>4. call[c].row.step = "INITIATED" /\ SameEnd(call[c].row.expires, sagas[k].expires)
    BY <2>1 DEF GraceInv
  <2>5. v.expires \in Nat /\ SameEnd(v.expires, sagas[k].expires)
    BY <2>2, <2>4 DEF SameEnd, Saga, AccountPurgeAssumption
  <2>6. v.step # "INITIATED" => v.expires <= day
    BY <2>1, <2>2, <2>4, <2>5 DEF SameEnd, GraceInv, NothingBeforeGrace
  <2>7. QED
    BY <1>1, <2>3, <2>5, <2>6 DEF GraceInv, NothingBeforeGrace, SameEnd
<1>5. ASSUME NEW j \in Jobs, AdvanceSaga(j) \/ StepThrows(j) PROVE Kept
  <2> DEFINE k == sagaJob[j].cur
  <2>1. k \in 1..Len(sagas) /\ sagas[k].expires <= day
    BY <1>5 DEF AdvanceSaga, StepThrows, Indexed, GraceInv
  <2>2. PICK x : sagas' = [sagas EXCEPT ![k] = [sagas[k] EXCEPT !.step = x]]
    BY <1>5 DEF AdvanceSaga, StepThrows
  <2>3. /\ Len(sagas') = Len(sagas)
        /\ \A s \in 1..Len(sagas) : sagas'[s].expires = sagas[s].expires
        /\ \A s \in 1..Len(sagas) : s # k => sagas'[s] = sagas[s]
    BY <1>1, <2>1, <2>2 DEF TypeOK, Saga
  <2>4. QED
    BY <1>1, <2>1, <2>3 DEF GraceInv, NothingBeforeGrace, SameEnd
<1>6. Kept
  BY <1>2, <1>3, <1>4, <1>5, SagaEffect
<1>7. NothingBeforeGrace'
  <2>1. \A s \in 1..Len(sagas') : sagas'[s].expires \in Nat
    <3>1. sagas' \in Seq(Saga)
      BY NextType DEF TypeOK
    <3>2. \A s \in 1..Len(sagas') : sagas'[s] \in Saga
      BY <3>1
    <3>3. QED
      BY <3>2 DEF Saga, AccountPurgeAssumption
  <2>2. QED
    BY <1>6, <2>1, DayEffect DEF NothingBeforeGrace
<1>8. QED
  BY <1>6, <1>7

LEMMA NextGrace ==
    ASSUME AccountPurgeAssumption, TypeOK, Indexed, GraceInv, [Next]_vars PROVE GraceInv'
<1>1. NothingBeforeGrace' /\ day \in Nat /\ day' \in Nat /\ day' >= day
  BY EndsKept, DayEffect
<1>2. \A s \in 1..Len(sagas) : /\ sagas[s].expires \in Nat /\ sagas'[s].expires \in Nat
                                /\ SameEnd(sagas'[s].expires, sagas[s].expires)
  BY EndsKept
<1>3. ASSUME NEW c \in Calls, SavesSaga(c)'
      PROVE  (call[c].row.step = "INITIATED"
                /\ SameEnd(call[c].row.expires, sagas[call[c].saga].expires))'
  <2>1. CASE KeepsSaga(c)
    <3>1. /\ call[c].saga \in 1..Len(sagas) /\ call[c].row.step = "INITIATED"
          /\ call[c].row.expires \in Nat
          /\ SameEnd(call[c].row.expires, sagas[call[c].saga].expires)
      BY <2>1, SavingCalls DEF KeepsSaga, GraceInv, Indexed, Saga,
         AccountPurgeAssumption
    <3>2. SameEnd(sagas'[call[c].saga].expires, sagas[call[c].saga].expires)
      BY <1>2, <3>1
    <3>3. QED
      BY <1>1, <1>2, <2>1, <3>1, <3>2 DEF KeepsSaga, SameEnd
  <2>2. ASSUME NEW a \in Accounts, CancelDeletion(c, a)
        PROVE  (call[c].row.step = "INITIATED"
                  /\ SameEnd(call[c].row.expires, sagas[call[c].saga].expires))'
    <3>1. PICK s \in Newest(a) :
             /\ sagas[s].expires > day
             /\ call' = [call EXCEPT ![c] =
                            [pc |-> "saveCancel", saga |-> s, began |-> day,
                             row |-> [sagas[s] EXCEPT !.cancelled = TRUE]]]
      BY <2>2 DEF CancelDeletion, SetCall
    <3>2. s \in 1..Len(sagas) /\ sagas[s] \in Saga /\ sagas' = sagas
      BY <2>2, SagaAt DEF CancelDeletion, Newest, Pending, tables
    <3>3. sagas[s].step = "INITIATED"
      BY <1>1, <1>2, <3>1, <3>2 DEF GraceInv, NothingBeforeGrace
    <3>4. call'[c].saga = s /\ call'[c].row = [sagas[s] EXCEPT !.cancelled = TRUE]
      BY <3>1 DEF TypeOK
    <3>5. call'[c].row.step = "INITIATED" /\ call'[c].row.expires = sagas[s].expires
      BY <3>2, <3>3, <3>4 DEF Saga
    <3>6. QED
      BY <3>2, <3>4, <3>5 DEF SameEnd
  <2>3. ASSUME NEW s \in 1..Len(sagas), RetrySaga(c, s)
        PROVE  (call[c].row.step = "INITIATED"
                  /\ SameEnd(call[c].row.expires, sagas[call[c].saga].expires))'
    <3>1. sagas[s] \in Saga /\ sagas' = sagas /\ day' = day
      BY <2>3, SagaAt DEF RetrySaga, SetCall, tables
    <3>2. call'[c].saga = s
          /\ call'[c].row = [sagas[s] EXCEPT !.step = "INITIATED", !.expires = day]
      BY <2>3 DEF RetrySaga, SetCall, TypeOK
    <3>3. call'[c].row.step = "INITIATED" /\ call'[c].row.expires = day
      BY <3>1, <3>2 DEF Saga
    <3>4. sagas[s].expires <= day
      BY <2>3 DEF RetrySaga, GraceInv, NothingBeforeGrace
    <3>5. QED
      BY <1>1, <3>1, <3>2, <3>3, <3>4 DEF SameEnd
  <2>4. QED
    BY <1>3, <2>1, <2>2, <2>3, CallEffect DEF LoadsSaga
<1>4. ASSUME NEW j \in Jobs, (sagaJob[j].pc \in {"next", "run"})'
      PROVE  /\ \A s \in sagaJob'[j].todo : sagas'[s].expires <= day'
             /\ sagaJob'[j].pc = "run" => sagas'[sagaJob'[j].cur].expires <= day'
  <2>1. CASE ListsSagas(j)
    <3>1. sagas' = sagas /\ day' = day
      BY <2>1 DEF ListsSagas, ListSagas, SetSagaJob, tables
    <3>2. QED
      BY <2>1, <3>1 DEF ListsSagas, Due
  <2>2. CASE KeepsList(j)
    <3>1. /\ sagaJob[j].todo \subseteq 1..Len(sagas)
          /\ sagaJob[j].pc = "run" => sagaJob[j].cur \in 1..Len(sagas)
      BY <2>2 DEF KeepsList, Indexed
    <3>2. \A s \in 1..Len(sagas) : sagas[s].expires <= day => sagas'[s].expires <= day'
      BY <1>1, <1>2 DEF SameEnd
    <3>3. QED
      BY <2>2, <3>1, <3>2 DEF KeepsList, GraceInv
  <2>3. QED
    BY <1>4, <2>1, <2>2, JobEffect
<1>5. QED
  BY <1>1, <1>3, <1>4 DEF GraceInv


-----------------------------------------------------------------------------
(* Every row that disappears is in the purge log. *)

LEMMA NextLogged ==
    ASSUME AccountPurgeAssumption, TypeOK, PurgedIsLogged, [Next]_vars
    PROVE  PurgedIsLogged'
<1>0. /\ \A r \in UserRow : r # NoUser
      /\ ActiveUser \in UserRow
      /\ [active |-> FALSE, deletedAt |-> day] \in UserRow
  BY DEF UserRow, NoUser, ActiveUser, TypeOK
<1> USE DEF tables, processes
<1>1. ASSUME Tick PROVE PurgedIsLogged'
  BY <1>1, <1>0 DEF Tick, PurgedIsLogged, Exists, TypeOK
<1>2. ASSUME NEW c \in Calls, NEW a \in Accounts, SignUp(c, a) PROVE PurgedIsLogged'
  BY <1>2, <1>0 DEF SignUp, SetCall, PurgedIsLogged, Exists, TypeOK
<1>3. ASSUME NEW c \in Calls, NEW a \in Accounts, Initiate(c, a)
      PROVE  PurgedIsLogged'
  BY <1>3, <1>0 DEF Initiate, SetCall, PurgedIsLogged, Exists, TypeOK
<1>4. ASSUME NEW c \in Calls, InitiateSoftDelete(c) PROVE PurgedIsLogged'
  BY <1>4, <1>0 DEF InitiateSoftDelete, SetCall, SoftDelete, PurgedIsLogged, Exists,
     TypeOK
<1>5. ASSUME NEW c \in Calls, NEW a \in Accounts, CancelDeletion(c, a)
      PROVE  PurgedIsLogged'
  BY <1>5, <1>0 DEF CancelDeletion, SetCall, PurgedIsLogged, Exists, TypeOK
<1>6. ASSUME NEW c \in Calls, NEW s \in 1..Len(sagas), RetrySaga(c, s)
      PROVE  PurgedIsLogged'
  BY <1>6, <1>0 DEF RetrySaga, SetCall, PurgedIsLogged, Exists, TypeOK
<1>7. ASSUME NEW c \in Calls, SelectSaga(c) PROVE PurgedIsLogged'
  BY <1>7, <1>0 DEF SelectSaga, SetCall, PurgedIsLogged, Exists, TypeOK
<1>8. ASSUME NEW c \in Calls, UpdateSaga(c) PROVE PurgedIsLogged'
  BY <1>8, <1>0 DEF UpdateSaga, SetCall, PurgedIsLogged, Exists, TypeOK
<1>9. ASSUME NEW c \in Calls, RestoreUser(c) PROVE PurgedIsLogged'
  BY <1>9, <1>0 DEF RestoreUser, SetCall, Restore, PurgedIsLogged, Exists, TypeOK
<1>10. ASSUME NEW c \in Calls, NEW a \in Accounts, Login(c, a) PROVE PurgedIsLogged'
  BY <1>10, <1>0 DEF Login, SetCall, PurgedIsLogged, Exists, TypeOK
<1>11. ASSUME NEW c \in Calls, NEW a \in Accounts, NEW b \in BOOLEAN, SetActive(c, a, b)
       PROVE  PurgedIsLogged'
  BY <1>11, <1>0 DEF SetActive, SetCall, PurgedIsLogged, Exists, TypeOK
<1>12. ASSUME NEW c \in Calls, SelectUser(c) PROVE PurgedIsLogged'
  BY <1>12, <1>0 DEF SelectUser, SetCall, PurgedIsLogged, Exists, TypeOK
<1>13. ASSUME NEW c \in Calls, InsertUser(c) PROVE PurgedIsLogged'
  BY <1>13, <1>0 DEF InsertUser, SetCall, PurgedIsLogged, Exists, TypeOK
<1>14. ASSUME NEW c \in Calls, UpdateUser(c) PROVE PurgedIsLogged'
  <2>1. SavesUser(c)
    BY <1>14 DEF UpdateUser, SavesUser
  <2>2. Exists(call[c].acct)
           => Updated(user[call[c].acct], call[c].row, call[c].columns) \in UserRow
    BY <2>1, SavingCalls, UpdatedUser DEF Exists, TypeOK
  <2>3. \A a \in Accounts : Exists(a) => Exists(a)'
    BY <1>0, <1>14, <2>2 DEF UpdateUser, Exists, TypeOK
  <2>4. QED
    BY <1>14, <2>3 DEF UpdateUser, PurgedIsLogged, TypeOK
<1>15. ASSUME NEW a \in Accounts, ClerkUserDeleted(a) PROVE PurgedIsLogged'
  BY <1>15, <1>0 DEF ClerkUserDeleted, SoftDelete, PurgedIsLogged, Exists, TypeOK
<1>16. ASSUME NEW c \in Calls, CallFails(c) PROVE PurgedIsLogged'
  BY <1>16, <1>0 DEF CallFails, SetCall, Fault, PurgedIsLogged, Exists, TypeOK
<1>17. ASSUME NEW j \in Jobs, ListSagas(j) PROVE PurgedIsLogged'
  BY <1>17, <1>0 DEF ListSagas, SetSagaJob, NextSaga, PurgedIsLogged, Exists, TypeOK
<1>18. ASSUME NEW j \in Jobs, NEW s \in SagaIds, TakeSaga(j, s)
       PROVE  PurgedIsLogged'
  BY <1>18, <1>0 DEF TakeSaga, SetSagaJob, NextSaga, PurgedIsLogged, Exists, TypeOK
<1>19. ASSUME NEW j \in Jobs, SagasDone(j) PROVE PurgedIsLogged'
  BY <1>19, <1>0 DEF SagasDone, SetSagaJob, NextSaga, PurgedIsLogged, Exists, TypeOK
<1>20. ASSUME NEW j \in Jobs, SoftDeleteStep(j) PROVE PurgedIsLogged'
  BY <1>20, <1>0 DEF SoftDeleteStep, SetSagaJob, NextSaga, SoftDelete,
     PurgedIsLogged, Exists, TypeOK
<1>21. ASSUME NEW j \in Jobs, AdvanceSaga(j) PROVE PurgedIsLogged'
  BY <1>21, <1>0 DEF AdvanceSaga, SetSagaJob, NextSaga, PurgedIsLogged, Exists,
     TypeOK
<1>22. ASSUME NEW j \in Jobs, StepThrows(j) PROVE PurgedIsLogged'
  BY <1>22, <1>0 DEF StepThrows, SetSagaJob, NextSaga, Fault, PurgedIsLogged,
     Exists, TypeOK
<1>23. ASSUME NEW j \in Jobs, SagaJobDies(j) PROVE PurgedIsLogged'
  BY <1>23, <1>0 DEF SagaJobDies, SetSagaJob, NextSaga, Fault, PurgedIsLogged,
     Exists, TypeOK
<1>24. ASSUME NEW j \in Jobs, ListPurgeable(j) PROVE PurgedIsLogged'
  BY <1>24, <1>0 DEF ListPurgeable, SetPurgeJob, RestOfPurge, PurgedIsLogged,
     Exists, TypeOK
<1>25. ASSUME NEW j \in Jobs, NEW a \in Accounts, PurgeUser(j, a)
       PROVE  PurgedIsLogged'
  BY <1>25, <1>0 DEF PurgeUser, SetPurgeJob, RestOfPurge, PurgedIsLogged, Exists,
     TypeOK
<1>26. ASSUME NEW j \in Jobs, NEW a \in Accounts, PurgeUserFails(j, a)
       PROVE  PurgedIsLogged'
  BY <1>26, <1>0 DEF PurgeUserFails, SetPurgeJob, RestOfPurge, Fault,
     PurgedIsLogged, Exists, TypeOK
<1>27. ASSUME NEW j \in Jobs, PurgeJobDies(j) PROVE PurgedIsLogged'
  BY <1>27, <1>0 DEF PurgeJobDies, SetPurgeJob, RestOfPurge, Fault, PurgedIsLogged,
     Exists, TypeOK
<1>28. ASSUME UNCHANGED vars PROVE PurgedIsLogged'
  BY <1>28 DEF vars, PurgedIsLogged, Exists
<1>29. QED
  BY <1>1, <1>2, <1>3, <1>4, <1>5, <1>6, <1>7, <1>8, <1>9, <1>10, <1>11, <1>12,
     <1>13, <1>14, <1>15, <1>16, <1>17, <1>18, <1>19, <1>20, <1>21, <1>22, <1>23,
     <1>24, <1>25, <1>26, <1>27, <1>28 DEF Next, CallSteps, SagaJobSteps,
     PurgeJobSteps

-----------------------------------------------------------------------------
(* Who exists, who is asked for, and whose saga is whose. *)

KnownInv ==
    /\ \A a \in Accounts : Exists(a) => a \in created
    /\ \A c \in Calls : SavesUser(c) => call[c].acct \in created
    /\ asked \subseteq created

LEMMA NextKnown ==
    ASSUME AccountPurgeAssumption, TypeOK, KnownInv, [Next]_vars PROVE KnownInv'
<1> USE DEF tables, processes
<1>1. ASSUME Tick PROVE KnownInv'
  BY <1>1 DEF Tick, KnownInv, SavesUser, Idle, Exists, TypeOK
<1>2. ASSUME NEW c \in Calls, NEW a \in Accounts, SignUp(c, a) PROVE KnownInv'
  BY <1>2 DEF SignUp, SetCall, KnownInv, SavesUser, Idle, Exists, TypeOK, ActiveUser
<1>3. ASSUME NEW c \in Calls, NEW a \in Accounts, Initiate(c, a) PROVE KnownInv'
  BY <1>3 DEF Initiate, SetCall, KnownInv, SavesUser, Idle, Exists, TypeOK
<1>4. ASSUME NEW c \in Calls, InitiateSoftDelete(c) PROVE KnownInv'
  BY <1>4 DEF InitiateSoftDelete, SetCall, SoftDelete, KnownInv, SavesUser, Idle,
     Exists, TypeOK
<1>5. ASSUME NEW c \in Calls, NEW a \in Accounts, CancelDeletion(c, a)
      PROVE  KnownInv'
  BY <1>5 DEF CancelDeletion, SetCall, KnownInv, SavesUser, Idle, Exists, TypeOK
<1>6. ASSUME NEW c \in Calls, NEW s \in 1..Len(sagas), RetrySaga(c, s)
      PROVE  KnownInv'
  BY <1>6 DEF RetrySaga, SetCall, KnownInv, SavesUser, Idle, Exists, TypeOK
<1>7. ASSUME NEW c \in Calls, SelectSaga(c) PROVE KnownInv'
  BY <1>7 DEF SelectSaga, SetCall, KnownInv, SavesUser, Idle, Exists, TypeOK
<1>8. ASSUME NEW c \in Calls, UpdateSaga(c) PROVE KnownInv'
  BY <1>8 DEF UpdateSaga, SetCall, KnownInv, SavesUser, Idle, Exists, TypeOK
<1>9. ASSUME NEW c \in Calls, RestoreUser(c) PROVE KnownInv'
  BY <1>9 DEF RestoreUser, SetCall, Restore, KnownInv, SavesUser, Idle, Exists,
     TypeOK, ActiveUser
<1>10. ASSUME NEW c \in Calls, NEW a \in Accounts, Login(c, a) PROVE KnownInv'
  BY <1>10 DEF Login, SetCall, KnownInv, SavesUser, Idle, Exists, TypeOK
<1>11. ASSUME NEW c \in Calls, NEW a \in Accounts, NEW b \in BOOLEAN, SetActive(c, a, b)
       PROVE  KnownInv'
  BY <1>11 DEF SetActive, SetCall, KnownInv, SavesUser, Idle, Exists, TypeOK
<1>12. ASSUME NEW c \in Calls, SelectUser(c) PROVE KnownInv'
  BY <1>12 DEF SelectUser, SetCall, KnownInv, SavesUser, Idle, Exists, TypeOK
<1>13. ASSUME NEW c \in Calls, InsertUser(c) PROVE KnownInv'
  BY <1>13 DEF InsertUser, SetCall, KnownInv, SavesUser, Idle, Exists, TypeOK
<1>14. ASSUME NEW c \in Calls, UpdateUser(c) PROVE KnownInv'
  BY <1>14 DEF UpdateUser, SetCall, KnownInv, SavesUser, Idle, Exists, TypeOK
<1>15. ASSUME NEW a \in Accounts, ClerkUserDeleted(a) PROVE KnownInv'
  BY <1>15 DEF ClerkUserDeleted, SoftDelete, KnownInv, SavesUser, Idle, Exists,
     TypeOK
<1>16. ASSUME NEW c \in Calls, CallFails(c) PROVE KnownInv'
  BY <1>16 DEF CallFails, SetCall, Fault, KnownInv, SavesUser, Idle, Exists, TypeOK
<1>17. ASSUME NEW j \in Jobs, ListSagas(j) PROVE KnownInv'
  BY <1>17 DEF ListSagas, SetSagaJob, NextSaga, KnownInv, SavesUser, Idle, Exists,
     TypeOK
<1>18. ASSUME NEW j \in Jobs, NEW s \in SagaIds, TakeSaga(j, s) PROVE KnownInv'
  BY <1>18 DEF TakeSaga, SetSagaJob, NextSaga, KnownInv, SavesUser, Idle, Exists,
     TypeOK
<1>19. ASSUME NEW j \in Jobs, SagasDone(j) PROVE KnownInv'
  BY <1>19 DEF SagasDone, SetSagaJob, NextSaga, KnownInv, SavesUser, Idle, Exists,
     TypeOK
<1>20. ASSUME NEW j \in Jobs, SoftDeleteStep(j) PROVE KnownInv'
  BY <1>20 DEF SoftDeleteStep, SetSagaJob, NextSaga, SoftDelete, KnownInv,
     SavesUser, Idle, Exists, TypeOK
<1>21. ASSUME NEW j \in Jobs, AdvanceSaga(j) PROVE KnownInv'
  BY <1>21 DEF AdvanceSaga, SetSagaJob, NextSaga, KnownInv, SavesUser, Idle, Exists,
     TypeOK
<1>22. ASSUME NEW j \in Jobs, StepThrows(j) PROVE KnownInv'
  BY <1>22 DEF StepThrows, SetSagaJob, NextSaga, Fault, KnownInv, SavesUser, Idle,
     Exists, TypeOK
<1>23. ASSUME NEW j \in Jobs, SagaJobDies(j) PROVE KnownInv'
  BY <1>23 DEF SagaJobDies, SetSagaJob, NextSaga, Fault, KnownInv, SavesUser, Idle,
     Exists, TypeOK
<1>24. ASSUME NEW j \in Jobs, ListPurgeable(j) PROVE KnownInv'
  BY <1>24 DEF ListPurgeable, SetPurgeJob, RestOfPurge, KnownInv, SavesUser, Idle,
     Exists, TypeOK
<1>25. ASSUME NEW j \in Jobs, NEW a \in Accounts, PurgeUser(j, a) PROVE KnownInv'
  BY <1>25 DEF PurgeUser, SetPurgeJob, RestOfPurge, KnownInv, SavesUser, Idle,
     Exists, TypeOK
<1>26. ASSUME NEW j \in Jobs, NEW a \in Accounts, PurgeUserFails(j, a)
       PROVE  KnownInv'
  BY <1>26 DEF PurgeUserFails, SetPurgeJob, RestOfPurge, Fault, KnownInv, SavesUser,
     Idle, Exists, TypeOK
<1>27. ASSUME NEW j \in Jobs, PurgeJobDies(j) PROVE KnownInv'
  BY <1>27 DEF PurgeJobDies, SetPurgeJob, RestOfPurge, Fault, KnownInv, SavesUser,
     Idle, Exists, TypeOK
<1>28. ASSUME UNCHANGED vars PROVE KnownInv'
  BY <1>28 DEF vars, KnownInv, Exists, SavesUser
<1>29. QED
  BY <1>1, <1>2, <1>3, <1>4, <1>5, <1>6, <1>7, <1>8, <1>9, <1>10, <1>11, <1>12,
     <1>13, <1>14, <1>15, <1>16, <1>17, <1>18, <1>19, <1>20, <1>21, <1>22, <1>23,
     <1>24, <1>25, <1>26, <1>27, <1>28 DEF Next, CallSteps, SagaJobSteps,
     PurgeJobSteps

AcctInv == \A c \in Calls : SavesSaga(c) => call[c].row.acct = sagas[call[c].saga].acct

\* A saga never changes its account.
LEMMA AcctsKept ==
    ASSUME AccountPurgeAssumption, TypeOK, Indexed, AcctInv, [Next]_vars
    PROVE  \A s \in 1..Len(sagas) : sagas'[s].acct = sagas[s].acct
<1> DEFINE Kept == \A s \in 1..Len(sagas) : sagas'[s].acct = sagas[s].acct
<1>1. \A s \in 1..Len(sagas) : sagas[s] \in Saga
  BY SagaAt
<1>2. ASSUME NEW c \in Calls, NEW a \in Accounts, Initiate(c, a) PROVE Kept
  BY <1>2 DEF Initiate, TypeOK
<1>3. ASSUME NEW c \in Calls, UpdateSaga(c) PROVE Kept
  <2> DEFINE k == call[c].saga
             v == Updated(sagas[k], call[c].row, call[c].columns)
  <2>1. SavesSaga(c) /\ k \in 1..Len(sagas) /\ sagas' = [sagas EXCEPT ![k] = v]
    BY <1>3 DEF UpdateSaga, SavesSaga, Indexed
  <2>2. v \in Saga /\ v.acct = sagas[k].acct
    BY <1>1, <2>1, SavingCalls, UpdatedSaga DEF AcctInv
  <2>3. QED
    BY <2>1, <2>2, SagasExcept
<1>4. ASSUME NEW j \in Jobs, AdvanceSaga(j) \/ StepThrows(j) PROVE Kept
  <2> DEFINE k == sagaJob[j].cur
  <2>1. PICK x : sagas' = [sagas EXCEPT ![k] = [sagas[k] EXCEPT !.step = x]]
    BY <1>4 DEF AdvanceSaga, StepThrows
  <2>2. QED
    BY <1>1, <2>1 DEF TypeOK, Saga
<1>5. QED
  BY <1>2, <1>3, <1>4, SagaEffect

LEMMA NextAcct ==
    ASSUME AccountPurgeAssumption, TypeOK, Indexed, AcctInv, [Next]_vars PROVE AcctInv'
<1> SUFFICES ASSUME NEW c \in Calls, SavesSaga(c)'
             PROVE  (call[c].row.acct = sagas[call[c].saga].acct)'
  BY DEF AcctInv
<1>1. CASE KeepsSaga(c)
  BY <1>1, AcctsKept DEF KeepsSaga, AcctInv, Indexed
<1>2. ASSUME NEW a \in Accounts, CancelDeletion(c, a)
      PROVE  (call[c].row.acct = sagas[call[c].saga].acct)'
  <2>1. PICK s \in Newest(a) :
           call' = [call EXCEPT ![c] = [pc |-> "saveCancel", saga |-> s, began |-> day,
                                        row |-> [sagas[s] EXCEPT !.cancelled = TRUE]]]
    BY <1>2 DEF CancelDeletion, SetCall
  <2>2. sagas[s] \in Saga /\ sagas' = sagas
    BY <1>2, SagaAt DEF CancelDeletion, Newest, Pending, tables
  <2>3. QED
    BY <2>1, <2>2 DEF TypeOK, Saga
<1>3. ASSUME NEW s \in 1..Len(sagas), RetrySaga(c, s)
      PROVE  (call[c].row.acct = sagas[call[c].saga].acct)'
  <2>1. sagas[s] \in Saga /\ sagas' = sagas
    BY <1>3, SagaAt DEF RetrySaga, tables
  <2>2. QED
    BY <1>3, <2>1 DEF RetrySaga, SetCall, TypeOK, Saga
<1>4. QED
  BY <1>1, <1>2, <1>3, CallEffect DEF LoadsSaga


-----------------------------------------------------------------------------
(* Only who asked for it is deleted. The date of a deletion is copied from  *)
(* row to call and back, the account of a saga from request to job: each    *)
(* copy belongs to an account that was asked for.                           *)

AskedInv ==
    /\ PurgeOnlyRequested
    /\ \A a \in Accounts : Exists(a) /\ user[a].deletedAt # Never => a \in asked
    /\ \A s \in 1..Len(sagas) : sagas[s].acct \in asked
    /\ \A c \in Calls : call[c].pc = "softDelete" => call[c].acct \in asked
    /\ \A c \in Calls : SavesUser(c) /\ call[c].row.deletedAt # Never => call[c].acct \in asked
    /\ \A j \in Jobs : purgeJob[j] # Idle => purgeJob[j].todo \subseteq asked

LEMMA SagasAsked ==
    ASSUME AccountPurgeAssumption, TypeOK, Indexed, AcctInv, AskedInv, [Next]_vars
    PROVE  \A s \in 1..Len(sagas') : sagas'[s].acct \in asked'
<1>1. asked \subseteq asked'
  BY DEF Next, vars, SetCall, SetSagaJob, SetPurgeJob, tables, CallSteps,
     SagaJobSteps, PurgeJobSteps, Tick, SignUp, Initiate, InitiateSoftDelete,
     CancelDeletion, RetrySaga, SelectSaga, UpdateSaga, RestoreUser, Login,
     SetActive, SelectUser, InsertUser, UpdateUser, ClerkUserDeleted, CallFails,
     ListSagas, TakeSaga, SagasDone, SoftDeleteStep, AdvanceSaga, StepThrows,
     SagaJobDies, ListPurgeable, PurgeUser, PurgeUserFails, PurgeJobDies
<1>2. CASE Len(sagas') = Len(sagas)
  BY <1>1, <1>2, AcctsKept DEF AskedInv
<1>3. ASSUME NEW c \in Calls, NEW a \in Accounts, Initiate(c, a)
      PROVE  \A s \in 1..Len(sagas') : sagas'[s].acct \in asked'
  <2>1. /\ Len(sagas') = Len(sagas) + 1 /\ Len(sagas) \in Nat
        /\ sagas'[Len(sagas) + 1].acct = a /\ a \in asked'
    BY <1>3 DEF Initiate, TypeOK
  <2>2. \A s \in 1..Len(sagas') : s \in 1..Len(sagas) \/ s = Len(sagas) + 1
    BY <2>1
  <2>3. QED
    BY <1>1, <2>1, <2>2, AcctsKept DEF AskedInv
<1>4. ASSUME NEW k, NEW v, sagas' = [sagas EXCEPT ![k] = v]
      PROVE  Len(sagas') = Len(sagas)
  BY <1>4 DEF TypeOK
<1>5. QED
  BY <1>2, <1>3, <1>4, SagaEffect DEF UpdateSaga, AdvanceSaga, StepThrows

LEMMA NextAsked ==
    ASSUME AccountPurgeAssumption, TypeOK, Indexed, AcctInv, AskedInv, [Next]_vars
    PROVE  AskedInv'
<1>0. /\ \A s \in 1..Len(sagas') : sagas'[s].acct \in asked'
      /\ ActiveUser.deletedAt = Never
  BY SagasAsked DEF ActiveUser
<1> USE DEF tables, processes
<1>1. ASSUME Tick PROVE AskedInv'
  BY <1>1, <1>0 DEF Tick, AskedInv, PurgeOnlyRequested, SavesUser, Idle, Exists,
     TypeOK
<1>2. ASSUME NEW c \in Calls, NEW a \in Accounts, SignUp(c, a) PROVE AskedInv'
  BY <1>2, <1>0 DEF SignUp, SetCall, AskedInv, PurgeOnlyRequested, SavesUser, Idle,
     Exists, TypeOK
<1>3. ASSUME NEW c \in Calls, NEW a \in Accounts, Initiate(c, a) PROVE AskedInv'
  BY <1>3, <1>0 DEF Initiate, SetCall, AskedInv, PurgeOnlyRequested, SavesUser,
     Idle, Exists, TypeOK
<1>4. ASSUME NEW c \in Calls, InitiateSoftDelete(c) PROVE AskedInv'
  BY <1>4, <1>0 DEF InitiateSoftDelete, SetCall, SoftDelete, AskedInv,
     PurgeOnlyRequested, SavesUser, Idle, Exists, TypeOK
<1>5. ASSUME NEW c \in Calls, NEW a \in Accounts, CancelDeletion(c, a)
      PROVE  AskedInv'
  BY <1>5, <1>0 DEF CancelDeletion, SetCall, AskedInv, PurgeOnlyRequested,
     SavesUser, Idle, Exists, TypeOK
<1>6. ASSUME NEW c \in Calls, NEW s \in 1..Len(sagas), RetrySaga(c, s)
      PROVE  AskedInv'
  BY <1>6, <1>0 DEF RetrySaga, SetCall, AskedInv, PurgeOnlyRequested, SavesUser,
     Idle, Exists, TypeOK
<1>7. ASSUME NEW c \in Calls, SelectSaga(c) PROVE AskedInv'
  BY <1>7, <1>0 DEF SelectSaga, SetCall, AskedInv, PurgeOnlyRequested, SavesUser,
     Idle, Exists, TypeOK
<1>8. ASSUME NEW c \in Calls, UpdateSaga(c) PROVE AskedInv'
  BY <1>8, <1>0 DEF UpdateSaga, SetCall, AskedInv, PurgeOnlyRequested, SavesUser,
     Idle, Exists, TypeOK
<1>9. ASSUME NEW c \in Calls, RestoreUser(c) PROVE AskedInv'
  BY <1>9, <1>0 DEF RestoreUser, SetCall, Restore, AskedInv, PurgeOnlyRequested,
     SavesUser, Idle, Exists, TypeOK
<1>10. ASSUME NEW c \in Calls, NEW a \in Accounts, Login(c, a) PROVE AskedInv'
  BY <1>10, <1>0 DEF Login, SetCall, AskedInv, PurgeOnlyRequested, SavesUser, Idle,
     Exists, TypeOK
<1>11. ASSUME NEW c \in Calls, NEW a \in Accounts, NEW b \in BOOLEAN, SetActive(c, a, b)
       PROVE  AskedInv'
  BY <1>11, <1>0 DEF SetActive, SetCall, AskedInv, PurgeOnlyRequested, SavesUser,
     Idle, Exists, TypeOK
<1>12. ASSUME NEW c \in Calls, SelectUser(c) PROVE AskedInv'
  BY <1>12, <1>0 DEF SelectUser, SetCall, AskedInv, PurgeOnlyRequested, SavesUser,
     Idle, Exists, TypeOK
<1>13. ASSUME NEW c \in Calls, InsertUser(c) PROVE AskedInv'
  BY <1>13, <1>0 DEF InsertUser, SetCall, AskedInv, PurgeOnlyRequested, SavesUser,
     Idle, Exists, TypeOK
<1>14. ASSUME NEW c \in Calls, UpdateUser(c) PROVE AskedInv'
  <2> DEFINE b == call[c].acct
             v == Updated(user[b], call[c].row, call[c].columns)
  <2>1. SavesUser(c) /\ b \in Accounts
    BY <1>14, SavingCalls DEF UpdateUser, SavesUser
  <2>2. Exists(b) => v.deletedAt \in {user[b].deletedAt, call[c].row.deletedAt}
    BY <2>1, SavingCalls, UpdatedUser DEF Exists, TypeOK
  <2>3. Exists(b) /\ v.deletedAt # Never => b \in asked
    BY <2>1, <2>2 DEF AskedInv
  <2>4. user' = [user EXCEPT ![b] = IF Exists(b) THEN v ELSE NoUser]
    BY <1>14 DEF UpdateUser
  <2>5. \A a \in Accounts : Exists(a)' /\ user'[a].deletedAt # Never => a \in asked
    BY <2>1, <2>3, <2>4 DEF Exists, AskedInv, TypeOK
  <2>6. /\ UNCHANGED <<asked, purged, sagas, purgeJob>>
        /\ call' = [call EXCEPT ![c] = Idle]
    BY <1>14 DEF UpdateUser, SetCall
  <2>7. \A d \in Calls : call'[d] = call[d] \/ call'[d] = Idle
    BY <2>6 DEF TypeOK
  <2>8. QED
    BY <1>0, <2>5, <2>6, <2>7 DEF AskedInv, PurgeOnlyRequested, SavesUser, Idle
<1>15. ASSUME NEW a \in Accounts, ClerkUserDeleted(a) PROVE AskedInv'
  BY <1>15, <1>0 DEF ClerkUserDeleted, SoftDelete, AskedInv, PurgeOnlyRequested,
     SavesUser, Idle, Exists, TypeOK
<1>16. ASSUME NEW c \in Calls, CallFails(c) PROVE AskedInv'
  BY <1>16, <1>0 DEF CallFails, SetCall, Fault, AskedInv, PurgeOnlyRequested,
     SavesUser, Idle, Exists, TypeOK
<1>17. ASSUME NEW j \in Jobs, ListSagas(j) PROVE AskedInv'
  BY <1>17, <1>0 DEF ListSagas, SetSagaJob, NextSaga, AskedInv, PurgeOnlyRequested,
     SavesUser, Idle, Exists, TypeOK
<1>18. ASSUME NEW j \in Jobs, NEW s \in SagaIds, TakeSaga(j, s) PROVE AskedInv'
  BY <1>18, <1>0 DEF TakeSaga, SetSagaJob, NextSaga, AskedInv, PurgeOnlyRequested,
     SavesUser, Idle, Exists, TypeOK
<1>19. ASSUME NEW j \in Jobs, SagasDone(j) PROVE AskedInv'
  BY <1>19, <1>0 DEF SagasDone, SetSagaJob, NextSaga, AskedInv, PurgeOnlyRequested,
     SavesUser, Idle, Exists, TypeOK
<1>20. ASSUME NEW j \in Jobs, SoftDeleteStep(j) PROVE AskedInv'
  <2> DEFINE b == sagas[sagaJob[j].cur].acct
  <2>1. b \in asked
    BY <1>20 DEF SoftDeleteStep, Indexed, AskedInv
  <2>2. \A a \in Accounts : user'[a] = user[a] \/ a = b
    BY <1>20 DEF SoftDeleteStep, SoftDelete, TypeOK
  <2>3. \A a \in Accounts : Exists(a)' /\ user'[a].deletedAt # Never => a \in asked
    BY <2>1, <2>2 DEF AskedInv, Exists
  <2>4. UNCHANGED <<asked, purged, sagas, purgeJob, call>>
    BY <1>20 DEF SoftDeleteStep, SetSagaJob
  <2>5. QED
    BY <1>0, <2>3, <2>4 DEF AskedInv, PurgeOnlyRequested, SavesUser
<1>21. ASSUME NEW j \in Jobs, AdvanceSaga(j) PROVE AskedInv'
  BY <1>21, <1>0 DEF AdvanceSaga, SetSagaJob, NextSaga, AskedInv,
     PurgeOnlyRequested, SavesUser, Idle, Exists, TypeOK
<1>22. ASSUME NEW j \in Jobs, StepThrows(j) PROVE AskedInv'
  BY <1>22, <1>0 DEF StepThrows, SetSagaJob, NextSaga, Fault, AskedInv,
     PurgeOnlyRequested, SavesUser, Idle, Exists, TypeOK
<1>23. ASSUME NEW j \in Jobs, SagaJobDies(j) PROVE AskedInv'
  BY <1>23, <1>0 DEF SagaJobDies, SetSagaJob, NextSaga, Fault, AskedInv,
     PurgeOnlyRequested, SavesUser, Idle, Exists, TypeOK
<1>24. ASSUME NEW j \in Jobs, ListPurgeable(j) PROVE AskedInv'
  BY <1>24, <1>0 DEF ListPurgeable, SetPurgeJob, RestOfPurge, AskedInv,
     PurgeOnlyRequested, SavesUser, Idle, Exists, TypeOK, Purgeable, Deleted
<1>25. ASSUME NEW j \in Jobs, NEW a \in Accounts, PurgeUser(j, a) PROVE AskedInv'
  BY <1>25, <1>0 DEF PurgeUser, SetPurgeJob, RestOfPurge, AskedInv,
     PurgeOnlyRequested, SavesUser, Idle, Exists, TypeOK
<1>26. ASSUME NEW j \in Jobs, NEW a \in Accounts, PurgeUserFails(j, a)
       PROVE  AskedInv'
  BY <1>26, <1>0 DEF PurgeUserFails, SetPurgeJob, RestOfPurge, Fault, AskedInv,
     PurgeOnlyRequested, SavesUser, Idle, Exists, TypeOK
<1>27. ASSUME NEW j \in Jobs, PurgeJobDies(j) PROVE AskedInv'
  BY <1>27, <1>0 DEF PurgeJobDies, SetPurgeJob, RestOfPurge, Fault, AskedInv,
     PurgeOnlyRequested, SavesUser, Idle, Exists, TypeOK
<1>28. ASSUME UNCHANGED vars PROVE AskedInv'
  BY <1>28 DEF vars, AskedInv, PurgeOnlyRequested, Exists, SavesUser
<1>29. QED
  BY <1>1, <1>2, <1>3, <1>4, <1>5, <1>6, <1>7, <1>8, <1>9, <1>10, <1>11, <1>12,
     <1>13, <1>14, <1>15, <1>16, <1>17, <1>18, <1>19, <1>20, <1>21, <1>22, <1>23,
     <1>24, <1>25, <1>26, <1>27, <1>28 DEF Next, CallSteps, SagaJobSteps,
     PurgeJobSteps

-----------------------------------------------------------------------------
(* A completed saga leaves its user deleted. Once the job has soft-deleted  *)
(* the user, the row stays deleted, or goes, unless a write revives it; the *)
(* job advances to the last steps only after its soft delete.               *)

Gone(a) == a \in revived \/ ~Exists(a) \/ Deleted(a)

GoneInv ==
    /\ \A s \in 1..Len(sagas) :
          sagas[s].step \in {"DATA_DELETED", "COMPLETED"} => Gone(sagas[s].acct)
    /\ \A j \in Jobs :
          sagaJob[j].pc = "run" /\ (sagaJob[j].softDeleted \/ sagaJob[j].step = "DATA_DELETED")
             => Gone(sagas[sagaJob[j].cur].acct)

\* No step but a sign-up, of an account that never was, makes a row that is
\* gone come back unobserved.
LEMMA GoneStays ==
    ASSUME AccountPurgeAssumption, TypeOK, KnownInv, [Next]_vars,
           NEW g \in Accounts, g \in created, Gone(g)
    PROVE  Gone(g)'
<1>0. \A r \in UserRow : r # NoUser
  BY DEF UserRow, NoUser
<1> USE DEF tables, processes
<1>1. ASSUME Tick PROVE Gone(g)'
  BY <1>1, <1>0 DEF Tick, Gone, Exists, Deleted, TypeOK
<1>2. ASSUME NEW c \in Calls, NEW a \in Accounts, SignUp(c, a) PROVE Gone(g)'
  BY <1>2, <1>0 DEF SignUp, SetCall, ActiveUser, Gone, Exists, Deleted, TypeOK
<1>3. ASSUME NEW c \in Calls, NEW a \in Accounts, Initiate(c, a) PROVE Gone(g)'
  BY <1>3, <1>0 DEF Initiate, SetCall, Gone, Exists, Deleted, TypeOK
<1>4. ASSUME NEW c \in Calls, InitiateSoftDelete(c) PROVE Gone(g)'
  BY <1>4, <1>0 DEF InitiateSoftDelete, SetCall, SoftDelete, Gone, Exists, Deleted,
     TypeOK, Revive, Days, AccountPurgeAssumption
<1>5. ASSUME NEW c \in Calls, NEW a \in Accounts, CancelDeletion(c, a)
      PROVE  Gone(g)'
  BY <1>5, <1>0 DEF CancelDeletion, SetCall, Gone, Exists, Deleted, TypeOK
<1>6. ASSUME NEW c \in Calls, NEW s \in 1..Len(sagas), RetrySaga(c, s)
      PROVE  Gone(g)'
  BY <1>6, <1>0 DEF RetrySaga, SetCall, Gone, Exists, Deleted, TypeOK
<1>7. ASSUME NEW c \in Calls, SelectSaga(c) PROVE Gone(g)'
  BY <1>7, <1>0 DEF SelectSaga, SetCall, Gone, Exists, Deleted, TypeOK
<1>8. ASSUME NEW c \in Calls, UpdateSaga(c) PROVE Gone(g)'
  BY <1>8, <1>0 DEF UpdateSaga, SetCall, Gone, Exists, Deleted, TypeOK
<1>9. ASSUME NEW c \in Calls, RestoreUser(c) PROVE Gone(g)'
  BY <1>9, <1>0 DEF RestoreUser, SetCall, Restore, ActiveUser, Gone, Exists,
     Deleted, TypeOK, Revive, Days, AccountPurgeAssumption
<1>10. ASSUME NEW c \in Calls, NEW a \in Accounts, Login(c, a) PROVE Gone(g)'
  BY <1>10, <1>0 DEF Login, SetCall, Gone, Exists, Deleted, TypeOK
<1>11. ASSUME NEW c \in Calls, NEW a \in Accounts, NEW b \in BOOLEAN, SetActive(c, a, b)
       PROVE  Gone(g)'
  BY <1>11, <1>0 DEF SetActive, SetCall, Gone, Exists, Deleted, TypeOK
<1>12. ASSUME NEW c \in Calls, SelectUser(c) PROVE Gone(g)'
  BY <1>12, <1>0 DEF SelectUser, SetCall, Gone, Exists, Deleted, TypeOK
<1>13. ASSUME NEW c \in Calls, InsertUser(c) PROVE Gone(g)'
  BY <1>13, <1>0 DEF InsertUser, SetCall, Gone, Exists, Deleted, TypeOK, Revive,
     Days, AccountPurgeAssumption
<1>14. ASSUME NEW c \in Calls, UpdateUser(c) PROVE Gone(g)'
  BY <1>14, <1>0 DEF UpdateUser, SetCall, Gone, Exists, Deleted, TypeOK, Revive,
     Days, AccountPurgeAssumption
<1>15. ASSUME NEW a \in Accounts, ClerkUserDeleted(a) PROVE Gone(g)'
  BY <1>15, <1>0 DEF ClerkUserDeleted, SoftDelete, Gone, Exists, Deleted, TypeOK,
     Revive, Days, AccountPurgeAssumption
<1>16. ASSUME NEW c \in Calls, CallFails(c) PROVE Gone(g)'
  BY <1>16, <1>0 DEF CallFails, SetCall, Fault, Gone, Exists, Deleted, TypeOK
<1>17. ASSUME NEW j \in Jobs, ListSagas(j) PROVE Gone(g)'
  BY <1>17, <1>0 DEF ListSagas, SetSagaJob, NextSaga, Gone, Exists, Deleted, TypeOK
<1>18. ASSUME NEW j \in Jobs, NEW s \in SagaIds, TakeSaga(j, s) PROVE Gone(g)'
  BY <1>18, <1>0 DEF TakeSaga, SetSagaJob, NextSaga, Gone, Exists, Deleted, TypeOK
<1>19. ASSUME NEW j \in Jobs, SagasDone(j) PROVE Gone(g)'
  BY <1>19, <1>0 DEF SagasDone, SetSagaJob, NextSaga, Gone, Exists, Deleted, TypeOK
<1>20. ASSUME NEW j \in Jobs, SoftDeleteStep(j) PROVE Gone(g)'
  BY <1>20, <1>0 DEF SoftDeleteStep, SetSagaJob, NextSaga, SoftDelete, Gone, Exists,
     Deleted, TypeOK, Revive, Days, AccountPurgeAssumption
<1>21. ASSUME NEW j \in Jobs, AdvanceSaga(j) PROVE Gone(g)'
  BY <1>21, <1>0 DEF AdvanceSaga, SetSagaJob, NextSaga, Gone, Exists, Deleted,
     TypeOK
<1>22. ASSUME NEW j \in Jobs, StepThrows(j) PROVE Gone(g)'
  BY <1>22, <1>0 DEF StepThrows, SetSagaJob, NextSaga, Fault, Gone, Exists, Deleted,
     TypeOK
<1>23. ASSUME NEW j \in Jobs, SagaJobDies(j) PROVE Gone(g)'
  BY <1>23, <1>0 DEF SagaJobDies, SetSagaJob, NextSaga, Fault, Gone, Exists,
     Deleted, TypeOK
<1>24. ASSUME NEW j \in Jobs, ListPurgeable(j) PROVE Gone(g)'
  BY <1>24, <1>0 DEF ListPurgeable, SetPurgeJob, RestOfPurge, Gone, Exists, Deleted,
     TypeOK
<1>25. ASSUME NEW j \in Jobs, NEW a \in Accounts, PurgeUser(j, a) PROVE Gone(g)'
  BY <1>25, <1>0 DEF PurgeUser, SetPurgeJob, RestOfPurge, Gone, Exists, Deleted,
     TypeOK
<1>26. ASSUME NEW j \in Jobs, NEW a \in Accounts, PurgeUserFails(j, a)
       PROVE  Gone(g)'
  BY <1>26, <1>0 DEF PurgeUserFails, SetPurgeJob, RestOfPurge, Fault, Gone, Exists,
     Deleted, TypeOK
<1>27. ASSUME NEW j \in Jobs, PurgeJobDies(j) PROVE Gone(g)'
  BY <1>27, <1>0 DEF PurgeJobDies, SetPurgeJob, RestOfPurge, Fault, Gone, Exists,
     Deleted, TypeOK
<1>28. ASSUME UNCHANGED vars PROVE Gone(g)'
  BY <1>28 DEF vars, Gone, Exists, Deleted
<1>29. QED
  BY <1>1, <1>2, <1>3, <1>4, <1>5, <1>6, <1>7, <1>8, <1>9, <1>10, <1>11, <1>12,
     <1>13, <1>14, <1>15, <1>16, <1>17, <1>18, <1>19, <1>20, <1>21, <1>22, <1>23,
     <1>24, <1>25, <1>26, <1>27, <1>28 DEF Next, CallSteps, SagaJobSteps,
     PurgeJobSteps

LEMMA RunEffect ==
    ASSUME TypeOK, [Next]_vars, NEW k \in Jobs, sagaJob'[k].pc = "run"
    PROVE  \/ sagaJob'[k] = sagaJob[k]
           \/ \E s \in SagaIds : TakeSaga(k, s)
           \/ SoftDeleteStep(k) \/ AdvanceSaga(k)
<1> DEFINE Goal == \/ sagaJob'[k] = sagaJob[k]
                   \/ \E s \in SagaIds : TakeSaga(k, s)
                   \/ SoftDeleteStep(k) \/ AdvanceSaga(k)
<1> HIDE DEF Goal
<1> USE DEF tables, processes
<1>1. ASSUME Tick PROVE Goal
  BY <1>1 DEF Tick, Goal, TypeOK, Idle
<1>2. ASSUME NEW c \in Calls, NEW a \in Accounts, SignUp(c, a) PROVE Goal
  BY <1>2 DEF SignUp, SetCall, ActiveUser, Goal, TypeOK, Idle
<1>3. ASSUME NEW c \in Calls, NEW a \in Accounts, Initiate(c, a) PROVE Goal
  BY <1>3 DEF Initiate, SetCall, Goal, TypeOK, Idle
<1>4. ASSUME NEW c \in Calls, InitiateSoftDelete(c) PROVE Goal
  BY <1>4 DEF InitiateSoftDelete, SetCall, SoftDelete, Goal, TypeOK, Idle
<1>5. ASSUME NEW c \in Calls, NEW a \in Accounts, CancelDeletion(c, a) PROVE Goal
  BY <1>5 DEF CancelDeletion, SetCall, Goal, TypeOK, Idle
<1>6. ASSUME NEW c \in Calls, NEW s \in 1..Len(sagas), RetrySaga(c, s) PROVE Goal
  BY <1>6 DEF RetrySaga, SetCall, Goal, TypeOK, Idle
<1>7. ASSUME NEW c \in Calls, SelectSaga(c) PROVE Goal
  BY <1>7 DEF SelectSaga, SetCall, Goal, TypeOK, Idle
<1>8. ASSUME NEW c \in Calls, UpdateSaga(c) PROVE Goal
  BY <1>8 DEF UpdateSaga, SetCall, Goal, TypeOK, Idle
<1>9. ASSUME NEW c \in Calls, RestoreUser(c) PROVE Goal
  BY <1>9 DEF RestoreUser, SetCall, Restore, ActiveUser, Goal, TypeOK, Idle
<1>10. ASSUME NEW c \in Calls, NEW a \in Accounts, Login(c, a) PROVE Goal
  BY <1>10 DEF Login, SetCall, Goal, TypeOK, Idle
<1>11. ASSUME NEW c \in Calls, NEW a \in Accounts, NEW b \in BOOLEAN, SetActive(c, a, b)
       PROVE  Goal
  BY <1>11 DEF SetActive, SetCall, Goal, TypeOK, Idle
<1>12. ASSUME NEW c \in Calls, SelectUser(c) PROVE Goal
  BY <1>12 DEF SelectUser, SetCall, Goal, TypeOK, Idle
<1>13. ASSUME NEW c \in Calls, InsertUser(c) PROVE Goal
  BY <1>13 DEF InsertUser, SetCall, Goal, TypeOK, Idle
<1>14. ASSUME NEW c \in Calls, UpdateUser(c) PROVE Goal
  BY <1>14 DEF UpdateUser, SetCall, Goal, TypeOK, Idle
<1>15. ASSUME NEW a \in Accounts, ClerkUserDeleted(a) PROVE Goal
  BY <1>15 DEF ClerkUserDeleted, SoftDelete, Goal, TypeOK, Idle
<1>16. ASSUME NEW c \in Calls, CallFails(c) PROVE Goal
  BY <1>16 DEF CallFails, SetCall, Fault, Goal, TypeOK, Idle
<1>17. ASSUME NEW j \in Jobs, ListSagas(j) PROVE Goal
  BY <1>17 DEF ListSagas, SetSagaJob, Goal, TypeOK, Idle
<1>18. ASSUME NEW j \in Jobs, NEW s \in SagaIds, TakeSaga(j, s) PROVE Goal
  BY <1>18 DEF TakeSaga, SetSagaJob, NextSaga, Goal, TypeOK, Idle
<1>19. ASSUME NEW j \in Jobs, SagasDone(j) PROVE Goal
  BY <1>19 DEF SagasDone, SetSagaJob, NextSaga, Goal, TypeOK, Idle
<1>20. ASSUME NEW j \in Jobs, SoftDeleteStep(j) PROVE Goal
  BY <1>20 DEF SoftDeleteStep, SetSagaJob, NextSaga, SoftDelete, Goal, TypeOK, Idle
<1>21. ASSUME NEW j \in Jobs, AdvanceSaga(j) PROVE Goal
  BY <1>21 DEF AdvanceSaga, SetSagaJob, NextSaga, Goal, TypeOK, Idle
<1>22. ASSUME NEW j \in Jobs, StepThrows(j) PROVE Goal
  BY <1>22 DEF StepThrows, SetSagaJob, NextSaga, Fault, Goal, TypeOK, Idle
<1>23. ASSUME NEW j \in Jobs, SagaJobDies(j) PROVE Goal
  BY <1>23 DEF SagaJobDies, SetSagaJob, NextSaga, Fault, Goal, TypeOK, Idle
<1>24. ASSUME NEW j \in Jobs, ListPurgeable(j) PROVE Goal
  BY <1>24 DEF ListPurgeable, SetPurgeJob, RestOfPurge, Goal, TypeOK, Idle
<1>25. ASSUME NEW j \in Jobs, NEW a \in Accounts, PurgeUser(j, a) PROVE Goal
  BY <1>25 DEF PurgeUser, SetPurgeJob, RestOfPurge, Goal, TypeOK, Idle
<1>26. ASSUME NEW j \in Jobs, NEW a \in Accounts, PurgeUserFails(j, a) PROVE Goal
  BY <1>26 DEF PurgeUserFails, SetPurgeJob, RestOfPurge, Fault, Goal, TypeOK, Idle
<1>27. ASSUME NEW j \in Jobs, PurgeJobDies(j) PROVE Goal
  BY <1>27 DEF PurgeJobDies, SetPurgeJob, RestOfPurge, Fault, Goal, TypeOK, Idle
<1>28. ASSUME UNCHANGED vars PROVE Goal
  BY <1>28 DEF vars, Goal
<1>29. QED
  BY <1>1, <1>2, <1>3, <1>4, <1>5, <1>6, <1>7, <1>8, <1>9, <1>10, <1>11, <1>12,
     <1>13, <1>14, <1>15, <1>16, <1>17, <1>18, <1>19, <1>20, <1>21, <1>22, <1>23,
     <1>24, <1>25, <1>26, <1>27, <1>28 DEF Next, CallSteps, SagaJobSteps,
     PurgeJobSteps, Goal


\* What the job holds, or has put into the table, stays true of the account
\* of a saga, as the saga keeps its account.
LEMMA GoneOfSaga ==
    ASSUME AccountPurgeAssumption, TypeOK, Indexed, KnownInv, AcctInv, AskedInv, [Next]_vars,
           NEW s \in 1..Len(sagas), Gone(sagas[s].acct)
    PROVE  Gone(sagas[s].acct)'
<1>1. PICK g : g = sagas[s].acct
  OBVIOUS
<1>2. g \in Accounts /\ g \in created /\ Gone(g)
  BY <1>1, SagaAt DEF Saga, AskedInv, KnownInv
<1>3. Gone(g)'
  BY <1>2, GoneStays
<1>4. sagas'[s].acct = g
  BY <1>1, AcctsKept
<1>5. QED
  BY <1>3, <1>4 DEF Gone, Exists, Deleted

\* A job past its soft delete finds the user gone.
LEMMA SoftDeletedIsGone ==
    ASSUME AccountPurgeAssumption, TypeOK, Indexed, KnownInv, AcctInv, AskedInv, GoneInv,
           [Next]_vars, NEW j \in Jobs,
           (sagaJob[j].pc = "run" /\ (sagaJob[j].softDeleted \/ sagaJob[j].step = "DATA_DELETED"))'
    PROVE  Gone(sagas[sagaJob[j].cur].acct)'
<1>1. CASE sagaJob'[j] = sagaJob[j]
  <2>1. PICK s \in 1..Len(sagas) : s = sagaJob[j].cur
    BY <1>1 DEF Indexed
  <2>2. Gone(sagas[s].acct)
    BY <1>1, <2>1 DEF GoneInv
  <2>3. Gone(sagas[s].acct)'
    BY <2>2, GoneOfSaga
  <2>4. QED
    BY <1>1, <2>1, <2>3 DEF Gone, Exists, Deleted
<1>2. ASSUME NEW i \in SagaIds, TakeSaga(j, i) PROVE FALSE
  BY <1>2 DEF TakeSaga, SetSagaJob, TypeOK
<1>3. CASE SoftDeleteStep(j)
  <2>1. PICK g : g = sagas[sagaJob[j].cur].acct
    OBVIOUS
  <2>2. /\ sagaJob[j].cur \in 1..Len(sagas) /\ sagas' = sagas
        /\ user' = [user EXCEPT ![g] = IF Exists(g) THEN [active |-> FALSE, deletedAt |-> day]
                                       ELSE NoUser]
        /\ sagaJob' = [sagaJob EXCEPT ![j] = [sagaJob[j] EXCEPT !.softDeleted = TRUE]]
    BY <1>3, <2>1 DEF SoftDeleteStep, SoftDelete, Indexed, SetSagaJob
  <2>3. sagaJob[j].cur \in SagaIds /\ g \in Accounts
    BY <2>1, <2>2, SagaAt DEF Saga
  <2>4. sagaJob[j] \in [pc : {"run"}, todo : SUBSET SagaIds, cur : SagaIds,
                        step : Unfinished, softDeleted : BOOLEAN, began : Days]
    BY <1>3 DEF SoftDeleteStep, TypeOK, SagaJobState, Idle
  <2>5. sagaJob'[j].cur = sagaJob[j].cur
    BY <2>2, <2>4 DEF TypeOK
  <2>6. /\ day # Never
        /\ user'[g] = NoUser \/ user'[g] = [active |-> FALSE, deletedAt |-> day]
    BY <2>2, <2>3, DayEffect DEF TypeOK, AccountPurgeAssumption
  <2>7. QED
    BY <2>1, <2>2, <2>5, <2>6 DEF Gone, Exists, Deleted
<1>4. CASE AdvanceSaga(j)
  <2>1. /\ sagaJob[j].pc = "run" /\ sagaJob[j].cur \in 1..Len(sagas)
        /\ sagaJob[j].step = "CLERK_DELETED" => sagaJob[j].softDeleted
        /\ sagaJob[j] \in [pc : {"run"}, todo : SUBSET SagaIds, cur : SagaIds,
                           step : Unfinished, softDeleted : BOOLEAN, began : Days]
    BY <1>4 DEF AdvanceSaga, Indexed, TypeOK, SagaJobState, Idle
  <2>2. sagaJob'[j] = NextSaga(j)
        \/ sagaJob'[j] = [sagaJob[j] EXCEPT !.step = NextStep(sagaJob[j].step)]
    BY <1>4 DEF AdvanceSaga, SetSagaJob, TypeOK
  <2>3. sagaJob'[j] = [sagaJob[j] EXCEPT !.step = NextStep(sagaJob[j].step)]
    BY <2>2 DEF NextSaga
  <2>4. /\ sagaJob'[j].cur = sagaJob[j].cur
        /\ sagaJob'[j].softDeleted = sagaJob[j].softDeleted
        /\ sagaJob'[j].step = NextStep(sagaJob[j].step)
    BY <2>1, <2>3
  <2>5. NextStep(sagaJob[j].step) = "DATA_DELETED" => sagaJob[j].step = "CLERK_DELETED"
    BY <2>1 DEF NextStep, Unfinished
  <2>6. PICK s \in 1..Len(sagas) : s = sagaJob[j].cur
    BY <2>1
  <2>7. Gone(sagas[s].acct)
    BY <2>1, <2>4, <2>5, <2>6 DEF GoneInv
  <2>8. Gone(sagas[s].acct)'
    BY <2>7, GoneOfSaga
  <2>9. QED
    BY <2>4, <2>6, <2>8 DEF Gone, Exists, Deleted
<1>5. QED
  BY <1>1, <1>2, <1>3, <1>4, RunEffect

\* A saga reaches the steps past the soft delete only from a job that has
\* done it.
LEMMA LastStepsAfterSoftDelete ==
    ASSUME AccountPurgeAssumption, TypeOK, Indexed, KnownInv, AcctInv, AskedInv, GraceInv,
           GoneInv, [Next]_vars, NEW s \in 1..Len(sagas'),
           (sagas[s].step \in {"DATA_DELETED", "COMPLETED"})'
    PROVE  s \in 1..Len(sagas) /\ Gone(sagas[s].acct)
<1> DEFINE Last == {"DATA_DELETED", "COMPLETED"}
           Goal == s \in 1..Len(sagas) /\ Gone(sagas[s].acct)
<1>1. CASE UNCHANGED sagas
  BY <1>1 DEF GoneInv
<1>2. ASSUME NEW c \in Calls, NEW a \in Accounts, Initiate(c, a) PROVE Goal
  <2>1. /\ Len(sagas) \in Nat /\ Len(sagas') = Len(sagas) + 1
        /\ sagas'[Len(sagas) + 1].step = "INITIATED"
        /\ \A i \in 1..Len(sagas) : sagas'[i] = sagas[i]
    BY <1>2 DEF Initiate, TypeOK
  <2>2. s \in 1..Len(sagas)
    BY <2>1
  <2>3. QED
    BY <2>1, <2>2 DEF GoneInv
<1>3. ASSUME NEW c \in Calls, UpdateSaga(c) PROVE Goal
  <2> DEFINE k == call[c].saga
             v == Updated(sagas[k], call[c].row, call[c].columns)
  <2>1. SavesSaga(c) /\ k \in 1..Len(sagas) /\ sagas' = [sagas EXCEPT ![k] = v]
    BY <1>3 DEF UpdateSaga, SavesSaga, Indexed
  <2>2. /\ v \in Saga
        /\ v.step \in {sagas[k].step, call[c].row.step}
    BY <2>1, SagaAt, SavingCalls, UpdatedSaga
  <2>3. v.step # "INITIATED" => v.step = sagas[k].step
    BY <2>1, <2>2 DEF GraceInv
  <2>4. /\ Len(sagas') = Len(sagas)
        /\ \A i \in 1..Len(sagas) : sagas'[i] = IF i = k THEN v ELSE sagas[i]
    BY <2>1, <2>2, SagasExcept
  <2>5. sagas[s].step \in Last /\ s \in 1..Len(sagas)
    BY <2>3, <2>4
  <2>6. QED
    BY <2>5 DEF GoneInv
<1>4. ASSUME NEW j \in Jobs, AdvanceSaga(j) \/ StepThrows(j) PROVE Goal
  <2> DEFINE k == sagaJob[j].cur
  <2>1. /\ k \in 1..Len(sagas) /\ sagas[k] \in Saga /\ sagaJob[j].pc = "run"
        /\ sagaJob[j].step \in Unfinished
    BY <1>4, SagaAt DEF AdvanceSaga, StepThrows, Indexed, TypeOK, SagaJobState, Idle
  <2>2. PICK x : /\ sagas' = [sagas EXCEPT ![k] = [sagas[k] EXCEPT !.step = x]]
                 /\ x = "DEAD_LETTER"
                    \/ /\ x = NextStep(sagaJob[j].step)
                       /\ sagaJob[j].step = "CLERK_DELETED" => sagaJob[j].softDeleted
    BY <1>4 DEF AdvanceSaga, StepThrows
  <2>3. /\ Len(sagas') = Len(sagas)
        /\ \A i \in 1..Len(sagas) : i # k => sagas'[i] = sagas[i]
        /\ sagas'[k].step = x
    BY <2>1, <2>2 DEF TypeOK, Saga
  <2>4. CASE s # k
    BY <2>3, <2>4 DEF GoneInv
  <2>5. CASE s = k
    <3>1. x \in Last
      BY <2>3, <2>5
    <3>2. sagaJob[j].softDeleted \/ sagaJob[j].step = "DATA_DELETED"
      BY <2>1, <2>2, <3>1 DEF NextStep, Unfinished
    <3>3. QED
      BY <2>1, <2>5, <3>2 DEF GoneInv
  <2>6. QED
    BY <2>4, <2>5
<1>5. QED
  BY <1>1, <1>2, <1>3, <1>4, SagaEffect

LEMMA NextGone ==
    ASSUME AccountPurgeAssumption, TypeOK, Indexed, KnownInv, AcctInv, AskedInv, GraceInv,
           GoneInv, [Next]_vars
    PROVE  GoneInv'
<1>1. ASSUME NEW s \in 1..Len(sagas'), (sagas[s].step \in {"DATA_DELETED", "COMPLETED"})'
      PROVE  Gone(sagas[s].acct)'
  BY <1>1, LastStepsAfterSoftDelete, GoneOfSaga
<1>2. ASSUME NEW j \in Jobs,
             (sagaJob[j].pc = "run" /\ (sagaJob[j].softDeleted \/ sagaJob[j].step = "DATA_DELETED"))'
      PROVE  Gone(sagas[sagaJob[j].cur].acct)'
  BY <1>2, SoftDeletedIsGone
<1>3. QED
  BY <1>1, <1>2 DEF GoneInv

-----------------------------------------------------------------------------
(* Theorems *)

\* The inductive invariant: what the calls and jobs hold in memory of the
\* rows they read earlier, with the properties that rest on it.
PurgeInv == /\ TypeOK /\ Indexed /\ KnownInv /\ AcctInv
            /\ GraceInv /\ AskedInv /\ GoneInv /\ PurgedIsLogged

LEMMA InitPurgeInv == ASSUME AccountPurgeAssumption, Init PROVE PurgeInv
<1>1. TypeOK
  BY DEF AccountPurgeAssumption, Init, TypeOK, Days, CallState, SagaJobState,
     PurgeJobState
<1>2. Len(sagas) = 0
  BY DEF Init
<1>3. \A c \in Calls : ~SavesSaga(c) /\ ~SavesUser(c) /\ call[c].pc # "softDelete"
  BY DEF Init, Idle, SavesSaga, SavesUser
<1>4. \A j \in Jobs : sagaJob[j].pc \notin {"next", "run"} /\ purgeJob[j] = Idle
  BY DEF Init, Idle
<1>5. \A a \in Accounts : ~Exists(a)
  BY DEF Init, Exists
<1>6. Indexed /\ KnownInv /\ AcctInv
  BY <1>3, <1>4, <1>5 DEF Init, Indexed, KnownInv, AcctInv
<1>7. GraceInv /\ GoneInv
  BY <1>2, <1>3, <1>4 DEF GraceInv, NothingBeforeGrace, GoneInv
<1>8. AskedInv /\ PurgedIsLogged
  BY <1>2, <1>3, <1>4, <1>5 DEF Init, AskedInv, PurgeOnlyRequested, PurgedIsLogged
<1>9. QED
  BY <1>1, <1>6, <1>7, <1>8 DEF PurgeInv

LEMMA NextPurgeInv == ASSUME AccountPurgeAssumption, PurgeInv, [Next]_vars PROVE PurgeInv'
<1> USE DEF PurgeInv
<1>1. TypeOK' /\ Indexed'
  BY NextType, NextIndexed
<1>2. KnownInv' /\ AcctInv'
  BY NextKnown, NextAcct
<1>3. GraceInv' /\ AskedInv'
  BY NextGrace, NextAsked
<1>4. GoneInv' /\ PurgedIsLogged'
  BY NextGone, NextLogged
<1>5. QED
  BY <1>1, <1>2, <1>3, <1>4

\* The invariant holds in every state the deletion of accounts can reach.
THEOREM PurgeInvariant == ASSUME AccountPurgeAssumption PROVE Spec => []PurgeInv
BY InitPurgeInv, NextPurgeInv, PTL DEF Spec

\* Every table, call and job keeps its type: no saga number a call or job
\* remembers is out of the table.
THEOREM PurgeTypeCorrect == ASSUME AccountPurgeAssumption PROVE Spec => []TypeOK
<1>1. PurgeInv => TypeOK
  BY DEF PurgeInv
<1>2. QED
  BY <1>1, PurgeInvariant, PTL

\* No saga is advanced before its grace period is over, whatever
\* cancellations, retries and jobs interleave.
THEOREM GraceRespected == ASSUME AccountPurgeAssumption PROVE Spec => []NothingBeforeGrace
<1>1. PurgeInv => NothingBeforeGrace
  BY DEF PurgeInv, GraceInv
<1>2. QED
  BY <1>1, PurgeInvariant, PTL

\* The hard delete removes no account but those somebody asked to delete.
THEOREM OnlyOnRequest == ASSUME AccountPurgeAssumption PROVE Spec => []PurgeOnlyRequested
<1>1. PurgeInv => PurgeOnlyRequested
  BY DEF PurgeInv, AskedInv
<1>2. QED
  BY <1>1, PurgeInvariant, PTL

\* Every account whose row is gone has its entry in the purge log.
THEOREM PurgesAreLogged == ASSUME AccountPurgeAssumption PROVE Spec => []PurgedIsLogged
<1>1. PurgeInv => PurgedIsLogged
  BY DEF PurgeInv
<1>2. QED
  BY <1>1, PurgeInvariant, PTL

\* A completed saga has left its user deleted, unless a write revived it.
THEOREM CompletedDeletes == ASSUME AccountPurgeAssumption PROVE Spec => []CompletedMeansDeleted
<1>1. PurgeInv => CompletedMeansDeleted
  BY DEF PurgeInv, GoneInv, Gone, Deleted, CompletedMeansDeleted
<1>2. QED
  BY <1>1, PurgeInvariant, PTL

-----------------------------------------------------------------------------
(* The safety side of DueIsTaken, and how far SagaEnds is from true *)

LEMMA SagaJobEffect ==
    ASSUME [Next]_vars
    PROVE  \/ UNCHANGED <<sagas, sagaJob, faults>>
           \/ UNCHANGED <<sagas, sagaJob>> /\ Fault
           \/ UNCHANGED <<sagaJob, faults>> /\ \/ \E c \in Calls, a \in Accounts : Initiate(c, a)
                                               \/ \E c \in Calls : UpdateSaga(c)
           \/ \E j \in Jobs : \/ ListSagas(j) \/ SagasDone(j) \/ SoftDeleteStep(j)
                              \/ \E s \in SagaIds : TakeSaga(j, s)
           \/ \E j \in Jobs : AdvanceSaga(j) \/ StepThrows(j) \/ SagaJobDies(j)
<1> USE DEF tables, processes, SetCall, SetPurgeJob
<1>1. CASE Tick \/ UNCHANGED vars
  BY <1>1 DEF Tick, vars
<1>2. ASSUME NEW c \in Calls, NEW a \in Accounts,
             \/ SignUp(c, a) \/ CancelDeletion(c, a) \/ Login(c, a)
             \/ \E b \in BOOLEAN : SetActive(c, a, b)
      PROVE  UNCHANGED <<sagas, sagaJob, faults>>
  BY <1>2 DEF SignUp, CancelDeletion, Login, SetActive
<1>3. ASSUME NEW c \in Calls, NEW s \in 1..Len(sagas), RetrySaga(c, s)
      PROVE  UNCHANGED <<sagas, sagaJob, faults>>
  BY <1>3 DEF RetrySaga
<1>4. ASSUME NEW c \in Calls, CallSteps(c), ~UpdateSaga(c)
      PROVE  UNCHANGED <<sagas, sagaJob, faults>>
  BY <1>4 DEF CallSteps, InitiateSoftDelete, SelectSaga, RestoreUser, SelectUser, InsertUser,
     UpdateUser
<1>5. ASSUME NEW a \in Accounts, ClerkUserDeleted(a) PROVE UNCHANGED <<sagas, sagaJob, faults>>
  BY <1>5 DEF ClerkUserDeleted
<1>6. ASSUME NEW j \in Jobs, PurgeJobSteps(j) PROVE UNCHANGED <<sagas, sagaJob, faults>>
  BY <1>6 DEF PurgeJobSteps, ListPurgeable, PurgeUser
<1>7. ASSUME \/ \E c \in Calls : CallFails(c)
             \/ \E j \in Jobs : PurgeJobDies(j) \/ \E a \in Accounts : PurgeUserFails(j, a)
      PROVE  UNCHANGED <<sagas, sagaJob>> /\ Fault
  BY <1>7 DEF CallFails, PurgeJobDies, PurgeUserFails
<1>8. ASSUME NEW c \in Calls, UpdateSaga(c) \/ \E a \in Accounts : Initiate(c, a)
      PROVE  UNCHANGED <<sagaJob, faults>>
  BY <1>8 DEF UpdateSaga, Initiate
<1> QED
  BY <1>1, <1>2, <1>3, <1>4, <1>5, <1>6, <1>7, <1>8 DEF Next, CallSteps, SagaJobSteps

\* A deletion whose grace period is over stays on the list of the next job
\* until a job takes a step of it or a cancellation is written: no other save
\* of the row, however stale, moves its end past today or changes its step.
StaysDue ==
    \A s \in Due(day) : s \in Due(day)' \/ sagas'[s].step # "INITIATED" \/ sagas'[s].cancelled
DueStaysDue == [][StaysDue]_vars

LEMMA NextDue ==
    ASSUME AccountPurgeAssumption, PurgeInv, [Next]_vars, NEW s \in Due(day)
    PROVE  s \in Due(day)' \/ sagas'[s].step # "INITIATED" \/ sagas'[s].cancelled
<1>1. s \in 1..Len(sagas) /\ sagas[s].expires <= day
  BY DEF Due
<1>2. s \in 1..Len(sagas')
  BY <1>1, SagasGrow DEF PurgeInv, TypeOK
<1>3. sagas'[s].expires \in Nat /\ SameEnd(sagas'[s].expires, sagas[s].expires)
  BY <1>1, EndsKept DEF PurgeInv
<1>4. sagas'[s].expires <= day'
  BY <1>1, <1>3, DayEffect DEF PurgeInv, SameEnd
<1> QED BY <1>2, <1>4 DEF Due

\* No deletion that fell due is lost before it is taken up: the safety side of
\* DueIsTaken, for any number of calls, jobs, days, sagas and failures.
THEOREM DueIsKept == ASSUME AccountPurgeAssumption PROVE Spec => DueStaysDue
<1>1. PurgeInv /\ [Next]_vars => [StaysDue]_vars
  BY NextDue DEF StaysDue
<1> QED BY <1>1, PurgeInvariant, PTL DEF Spec, DueStaysDue

Halfway(s) == sagas[s].step \in {"STRIPE_DELETED", "CLERK_DELETED", "DATA_DELETED"}
Runs(j, s) == sagaJob[j].pc = "run" /\ sagaJob[j].cur = s
Stranded == {s \in 1..Len(sagas) : Halfway(s) /\ \A j \in Jobs : ~Runs(j, s)}

\* A deletion that has begun and that nobody goes on with was left by an
\* instance that died, and each death leaves at most one: processPendingSagas
\* looks for INITIATED only, so these are what SagaEnds fails for.
StrandedBounded == Cardinality(Stranded) <= faults

\* Writing INITIATED, an end or a cancellation strands nothing.
LEMMA SavedIsNotStranded ==
    ASSUME AccountPurgeAssumption, PurgeInv, NEW c \in Calls, UpdateSaga(c), UNCHANGED sagaJob
    PROVE  Stranded' \subseteq Stranded
<1> DEFINE k == call[c].saga
           v == Updated(sagas[k], call[c].row, call[c].columns)
<1>1. SavesSaga(c) /\ k \in 1..Len(sagas) /\ sagas' = [sagas EXCEPT ![k] = v]
  BY DEF UpdateSaga, SavesSaga, PurgeInv, Indexed
<1>2. v \in Saga /\ v.step \in {sagas[k].step, "INITIATED"}
  BY <1>1, SagaAt, SavingCalls, UpdatedSaga DEF PurgeInv, GraceInv
<1>3. /\ Len(sagas') = Len(sagas)
      /\ \A s \in 1..Len(sagas) : sagas'[s] = IF s = k THEN v ELSE sagas[s]
  BY <1>1, <1>2, SagasExcept DEF PurgeInv
<1> HIDE DEF v
<1> QED BY <1>1, <1>2, <1>3 DEF Stranded, Halfway, Runs

\* A job leaves a saga COMPLETED or in DEAD_LETTER, or goes on with it.
LEMMA SteppedIsNotStranded ==
    ASSUME AccountPurgeAssumption, PurgeInv, NEW j \in Jobs, AdvanceSaga(j) \/ StepThrows(j)
    PROVE  Stranded' \subseteq Stranded
<1>1. PICK k \in 1..Len(sagas) : k = sagaJob[j].cur /\ sagaJob[j].pc = "run"
  BY DEF AdvanceSaga, StepThrows, PurgeInv, Indexed
<1>2. Runs(j, k) /\ sagaJob \in [Jobs -> SagaJobState]
  BY <1>1 DEF PurgeInv, TypeOK, Runs
<1>3. PICK x : /\ sagas' = [sagas EXCEPT ![k] = [sagas[k] EXCEPT !.step = x]]
               /\ \/ x = "DEAD_LETTER" \/ x = "COMPLETED"
                  \/ sagaJob' = [sagaJob EXCEPT ![j] = [sagaJob[j] EXCEPT !.step = x]]
  BY <1>1 DEF AdvanceSaga, StepThrows, SetSagaJob
<1>4. /\ Len(sagas') = Len(sagas) /\ sagas'[k].step = x
      /\ \A s \in 1..Len(sagas) \ {k} : sagas'[s] = sagas[s]
  BY <1>1, <1>3, SagaAt DEF PurgeInv, TypeOK, Saga
<1>5. \A i \in Jobs \ {j} : sagaJob'[i] = sagaJob[i]
  BY <1>2 DEF AdvanceSaga, StepThrows, SetSagaJob
<1>6. ASSUME NEW s \in Stranded', s # k PROVE s \in Stranded
  BY <1>1, <1>4, <1>5, <1>6 DEF Stranded, Halfway, Runs
<1>7. k \notin Stranded'
  <2>1. CASE x \in {"DEAD_LETTER", "COMPLETED"}
    BY <1>4, <2>1 DEF Stranded, Halfway
  <2>2. CASE sagaJob' = [sagaJob EXCEPT ![j] = [sagaJob[j] EXCEPT !.step = x]]
    <3>1. sagaJob[j].pc = "run" /\ sagaJob[j] \in SagaJobState
      BY <1>1, <1>2
    <3>2. [sagaJob[j] EXCEPT !.step = x].pc = "run" /\ [sagaJob[j] EXCEPT !.step = x].cur = k
      BY <1>1, <3>1 DEF SagaJobState, Idle
    <3>3. Runs(j, k)'
      BY <1>2, <2>2, <3>2 DEF Runs
    <3> QED BY <3>3 DEF Stranded, Runs
  <2> QED BY <1>3, <2>1, <2>2
<1> QED BY <1>6, <1>7

LEMMA NextStranded ==
    ASSUME AccountPurgeAssumption, PurgeInv, [Next]_vars
    PROVE  \/ Stranded' \subseteq Stranded /\ faults' \in {faults, faults + 1}
           \/ (\E s \in 1..Len(sagas) : Stranded' \subseteq Stranded \cup {s}) /\ faults' = faults + 1
<1> DEFINE Goal ==
      \/ Stranded' \subseteq Stranded /\ faults' \in {faults, faults + 1}
      \/ (\E s \in 1..Len(sagas) : Stranded' \subseteq Stranded \cup {s}) /\ faults' = faults + 1
<1>1. sagaJob \in [Jobs -> SagaJobState] /\ sagas \in Seq(Saga)
  BY DEF PurgeInv, TypeOK
<1>2. CASE UNCHANGED <<sagas, sagaJob>> /\ (UNCHANGED faults \/ Fault)
  BY <1>2 DEF Stranded, Halfway, Runs, Fault
<1>3. ASSUME UNCHANGED <<sagaJob, faults>>, NEW c \in Calls, NEW a \in Accounts, Initiate(c, a)
      PROVE  Goal
  <2>1. /\ \A s \in 1..Len(sagas) : sagas'[s] = sagas[s]
        /\ Len(sagas') = Len(sagas) + 1 /\ Len(sagas) \in Nat
        /\ sagas'[Len(sagas) + 1].step = "INITIATED"
    BY <1>1, <1>3 DEF Initiate
  <2>2. \A s \in 1..Len(sagas') : s \in 1..Len(sagas) \/ s = Len(sagas) + 1
    BY <2>1
  <2> QED BY <1>3, <2>1, <2>2 DEF Stranded, Halfway, Runs
<1>4. ASSUME UNCHANGED <<sagaJob, faults>>, NEW c \in Calls, UpdateSaga(c) PROVE Goal
  BY <1>4, SavedIsNotStranded
<1>5. ASSUME NEW j \in Jobs, \/ ListSagas(j) \/ SagasDone(j) \/ SoftDeleteStep(j)
                             \/ \E s \in SagaIds : TakeSaga(j, s)
      PROVE  Goal
  <2>1. UNCHANGED <<sagas, faults>> /\ \A i \in Jobs \ {j} : sagaJob'[i] = sagaJob[i]
    BY <1>1, <1>5 DEF ListSagas, SagasDone, SoftDeleteStep, TakeSaga, SetSagaJob, tables
  <2>2. \A s : Runs(j, s) => Runs(j, s)'
    <3>1. CASE SoftDeleteStep(j)
      BY <1>1, <3>1 DEF SoftDeleteStep, SetSagaJob, Runs, SagaJobState, Idle
    <3>2. CASE ~SoftDeleteStep(j)
      <4>1. sagaJob[j] = Idle \/ sagaJob[j].pc = "next"
        BY <1>5, <3>2 DEF ListSagas, SagasDone, TakeSaga
      <4>2. sagaJob[j].pc # "run"
        BY <4>1 DEF Idle
      <4> QED BY <4>2 DEF Runs
    <3> QED BY <3>1, <3>2
  <2> QED BY <2>1, <2>2 DEF Stranded, Halfway, Runs
<1>6. ASSUME NEW j \in Jobs, AdvanceSaga(j) \/ StepThrows(j) PROVE Goal
  BY <1>6, SteppedIsNotStranded DEF AdvanceSaga, StepThrows, Fault
<1>7. ASSUME NEW j \in Jobs, SagaJobDies(j) PROVE Goal
  <2>1. /\ sagas' = sagas /\ faults' = faults + 1
        /\ \A i \in Jobs \ {j} : sagaJob'[i] = sagaJob[i]
    BY <1>1, <1>7 DEF SagaJobDies, SetSagaJob, Fault, tables
  <2>2. CASE sagaJob[j].pc = "run"
    <3>1. sagaJob[j].cur \in 1..Len(sagas)
      BY <2>2 DEF PurgeInv, Indexed
    <3>2. Stranded' \subseteq Stranded \cup {sagaJob[j].cur}
      BY <2>1 DEF Stranded, Halfway, Runs
    <3> QED BY <2>1, <3>1, <3>2
  <2>3. CASE sagaJob[j].pc # "run"
    BY <2>1, <2>3 DEF Stranded, Halfway, Runs
  <2> QED BY <2>2, <2>3
<1> QED BY <1>2, <1>3, <1>4, <1>5, <1>6, <1>7, SagaJobEffect

\* Each failure strands at most one deletion: the rest of SagaEnds, that what is
\* not stranded and falls due goes on, is up to the jobs running.
THEOREM StrandedOnlyByDeath == ASSUME AccountPurgeAssumption PROVE Spec => []StrandedBounded
<1>1. Init => StrandedBounded
  <2>1. Init => Stranded = {} /\ faults = 0
    BY DEF Init, Stranded
  <2> QED BY <2>1, FS_EmptySet DEF StrandedBounded
<1>2. ASSUME PurgeInv, StrandedBounded, [Next]_vars PROVE StrandedBounded'
  <2>1. IsFiniteSet(Stranded) /\ Cardinality(Stranded) \in Nat
    <3>1. Len(sagas) \in Nat
      BY <1>2 DEF PurgeInv, TypeOK
    <3>2. IsFiniteSet(1..Len(sagas)) /\ Stranded \subseteq 1..Len(sagas)
      BY <3>1, FS_Interval DEF Stranded
    <3> QED BY <3>2, FS_Subset, FS_CardinalityType
  <2>2. faults \in Nat
    <3>1. faults \in 0..MaxFaults
      BY <1>2 DEF PurgeInv, TypeOK
    <3> QED BY <3>1 DEF AccountPurgeAssumption
  <2>3. CASE Stranded' \subseteq Stranded /\ faults' \in {faults, faults + 1}
    <3>1. Cardinality(Stranded') \in Nat /\ Cardinality(Stranded') <= Cardinality(Stranded)
      BY <2>1, <2>3, FS_Subset, FS_CardinalityType
    <3> QED BY <1>2, <2>1, <2>2, <2>3, <3>1 DEF StrandedBounded
  <2>4. ASSUME NEW s, Stranded' \subseteq Stranded \cup {s}, faults' = faults + 1
        PROVE  StrandedBounded'
    <3>1. /\ IsFiniteSet(Stranded \cup {s})
          /\ Cardinality(Stranded \cup {s}) <= Cardinality(Stranded) + 1
          /\ Cardinality(Stranded \cup {s}) \in Nat
      <4>1. /\ IsFiniteSet(Stranded \cup {s})
            /\ Cardinality(Stranded \cup {s}) = IF s \in Stranded THEN Cardinality(Stranded)
                                                ELSE Cardinality(Stranded) + 1
        BY <2>1, FS_AddElement
      <4> HIDE DEF Stranded
      <4> QED BY <2>1, <4>1
    <3>2. Cardinality(Stranded') \in Nat /\ Cardinality(Stranded') <= Cardinality(Stranded \cup {s})
      BY <2>4, <3>1, FS_Subset, FS_CardinalityType
    <3> QED BY <1>2, <2>1, <2>2, <2>4, <3>1, <3>2 DEF StrandedBounded
  <2> QED BY <1>2, <2>3, <2>4, NextStranded
<1>3. PurgeInv /\ StrandedBounded /\ [Next]_vars => StrandedBounded'
  BY <1>2
<1> QED BY <1>1, <1>3, PurgeInvariant, PTL DEF Spec
=============================================================================
