---------------------------- MODULE Quota_proofs ----------------------------
(***************************************************************************)
(* Proofs about Quota, for any set of users, resumes and concurrent        *)
(* requests and any positive limit.                                        *)
(***************************************************************************)
EXTENDS Quota, FiniteSetTheorems, TLAPS

USE DEF NoResume

-----------------------------------------------------------------------------
(* Type correctness *)

LEMMA InitType == ASSUME QuotaAssumption, Init PROVE TypeOK
BY DEF QuotaAssumption, Init, QuotaInit, TypeOK, Stages

LEMMA NextType == ASSUME QuotaAssumption, TypeOK, [Next]_vars PROVE TypeOK'
<1> USE DEF QuotaAssumption, TypeOK, Stages, Goto, Leave, OwnerOf
<1>1. ASSUME \/ UNCHANGED vars
             \/ \E p \in Requests :
                   Deliver(p) \/ \E r \in Resumes : Consume(p, r) /\ UNCHANGED delivered
      PROVE  TypeOK'
  BY <1>1 DEF vars, Deliver, Consume
<1>2. ASSUME NEW p \in Requests, QuotaStep(p), UNCHANGED delivered
      PROVE  TypeOK'
  <2>1. CASE FindLog(p)
    BY <1>2, <2>1 DEF FindLog
  <2>2. CASE FindCounter(p)
    BY <1>2, <2>2 DEF FindCounter
  <2>3. CASE FindNoCounter(p)
    BY <1>2, <2>3 DEF FindNoCounter
  <2>4. CASE CreateCounter(p)
    BY <1>2, <2>4 DEF CreateCounter
  <2>5. CASE CreateCounterFails(p)
    BY <1>2, <2>5 DEF CreateCounterFails
  <2>6. CASE ChargeExport(p)
    BY <1>2, <2>6 DEF ChargeExport
  <2>7. CASE ChargeRollsBack(p)
    BY <1>2, <2>7 DEF ChargeRollsBack
  <2>8. CASE Abort(p)
    BY <1>2, <2>8 DEF Abort
  <2>9. QED
    BY <1>2, <2>1, <2>2, <2>3, <2>4, <2>5, <2>6, <2>7, <2>8 DEF QuotaStep
<1>3. ASSUME NEW u \in Resettable, ResetCounter(u), UNCHANGED delivered PROVE TypeOK'
  BY <1>3 DEF ResetCounter
<1> QED
  BY <1>1, <1>2, <1>3 DEF Next

\* Type correctness of the quota component.
THEOREM TypeCorrect == ASSUME QuotaAssumption PROVE Spec => []TypeOK
<1> (Init => TypeOK) /\ (TypeOK /\ [Next]_vars => TypeOK')
  BY InitType, NextType
<1> QED
  BY PTL DEF Spec

-----------------------------------------------------------------------------
(* No double charge. NeverOvercharged is inductive by itself: the counter   *)
(* grows only in ChargeExport, whose unique index admits only a resume that *)
(* is not charged yet, so the set counted on the right grows with it.       *)

LEMMA ChargedToFinite ==
    ASSUME QuotaAssumption, NEW u \in Users
    PROVE  IsFiniteSet(ChargedTo(u)) /\ Cardinality(ChargedTo(u)) \in Nat
<1>1. ChargedTo(u) \in SUBSET Resumes
  BY DEF ChargedTo, Charged
<1>2. IsFiniteSet(ChargedTo(u))
  BY <1>1, FS_Subset DEF QuotaAssumption
<1>3. QED
  BY <1>2, FS_CardinalityType

\* The log is written by ChargeExport alone.
LEMMA LogStep ==
    ASSUME QuotaAssumption, TypeOK, [Next]_vars
    PROVE  \/ log' = log
           \/ \E p \in Requests : ChargeExport(p) /\ UNCHANGED delivered
BY DEF Next, vars, QuotaStep, Consume, FindLog, FindCounter, FindNoCounter,
       CreateCounter, CreateCounterFails, ChargeRollsBack, Abort, Deliver, ResetCounter

\* ChargeExport adds its resume to what its owner was charged for, and
\* nothing to anybody else's.
LEMMA ChargeExportCounts ==
    ASSUME QuotaAssumption, TypeOK, NEW p \in Requests, ChargeExport(p)
    PROVE  /\ Charged' = Charged \cup {target[p]}
           /\ \A u \in Users : Cardinality(ChargedTo(u))' =
                 IF u = OwnerOf(p) THEN Cardinality(ChargedTo(u)) + 1
                                   ELSE Cardinality(ChargedTo(u))
<1> DEFINE r == target[p]
<1>1. r \in Resumes /\ log[r] = 0 /\ log' = [log EXCEPT ![r] = @ + 1]
  BY DEF ChargeExport, TypeOK
<1>2. Charged' = Charged \cup {r} /\ r \notin Charged
  BY <1>1 DEF Charged, TypeOK
<1>3. ASSUME NEW u \in Users, u = Owner[r]
      PROVE  Cardinality(ChargedTo(u)') = Cardinality(ChargedTo(u)) + 1
  <2>1. ChargedTo(u)' = ChargedTo(u) \cup {r} /\ r \notin ChargedTo(u)
    BY <1>2, <1>3, <1>1 DEF ChargedTo
  <2>2. QED
    BY <2>1, ChargedToFinite, FS_AddElement
<1>4. ASSUME NEW u \in Users, u # Owner[r]
      PROVE  ChargedTo(u)' = ChargedTo(u)
  BY <1>2, <1>4 DEF ChargedTo
<1>5. QED
  BY <1>2, <1>3, <1>4 DEF OwnerOf

LEMMA NextNeverOvercharged ==
    ASSUME QuotaAssumption, TypeOK, NeverOvercharged, [Next]_vars
    PROVE  NeverOvercharged'
<1>0. \A u \in Users : Cardinality(ChargedTo(u)) \in Nat
  BY ChargedToFinite
<1>1. ASSUME NEW p \in Requests, ChargeExport(p) PROVE NeverOvercharged'
  <2> SUFFICES ASSUME NEW u \in Users
               PROVE  completed'[u] <= Cardinality(ChargedTo(u))'
    BY DEF NeverOvercharged
  <2>1. completed[u] <= Cardinality(ChargedTo(u)) /\ completed[u] \in Nat
    BY DEF NeverOvercharged, TypeOK
  <2>2. completed'[u] = IF u = OwnerOf(p) THEN completed[u] + 1 ELSE completed[u]
    BY <1>1 DEF ChargeExport, TypeOK
  <2>3. QED
    BY <1>0, <1>1, <2>1, <2>2, ChargeExportCounts
<1>2. ASSUME log' = log, \A u \in Users : completed'[u] <= completed[u]
      PROVE  NeverOvercharged'
  <2> SUFFICES ASSUME NEW u \in Users
               PROVE  completed'[u] <= Cardinality(ChargedTo(u))'
    BY DEF NeverOvercharged
  <2>1. ChargedTo(u)' = ChargedTo(u)
    BY <1>2 DEF ChargedTo, Charged
  <2>2. completed[u] \in Nat /\ completed'[u] \in Nat
    BY NextType DEF TypeOK
  <2>3. completed[u] <= Cardinality(ChargedTo(u)) /\ completed'[u] <= completed[u]
    BY <1>2 DEF NeverOvercharged
  <2>4. QED
    BY <1>0, <2>1, <2>2, <2>3
<1>3. CASE completed' = completed /\ log' = log
  BY <1>2, <1>3 DEF TypeOK
<1>4. ASSUME NEW u \in Users, completed' = [completed EXCEPT ![u] = 0], log' = log
      PROVE  NeverOvercharged'
  BY <1>2, <1>4 DEF TypeOK
<1>5. ASSUME NEW p \in Requests, CreateCounter(p) PROVE NeverOvercharged'
  BY <1>4, <1>5 DEF CreateCounter, OwnerOf, TypeOK, QuotaAssumption
<1>6. ASSUME NEW u \in Resettable, ResetCounter(u) PROVE NeverOvercharged'
  BY <1>4, <1>6 DEF ResetCounter, QuotaAssumption
<1>7. QED
  BY <1>1, <1>3, <1>5, <1>6
     DEF Next, vars, QuotaStep, Consume, FindLog, FindCounter, FindNoCounter,
         CreateCounterFails, ChargeRollsBack, Abort, Deliver

\* No interleaving of export requests, crash or reset makes a counter show
\* more exports than its user has been charged for.
THEOREM NoDoubleCharge == ASSUME QuotaAssumption PROVE Spec => []NeverOvercharged
<1>1. Init => NeverOvercharged
  BY ChargedToFinite DEF Init, QuotaInit, NeverOvercharged
<1>2. NeverOvercharged /\ TypeOK /\ [Next]_vars => NeverOvercharged'
  BY NextNeverOvercharged
<1> QED
  BY TypeCorrect, <1>1, <1>2, PTL DEF Spec

-----------------------------------------------------------------------------
(* Nothing is handed out unpaid. A request past the log check or the        *)
(* transaction knows that its resume is in the log, and the log only grows. *)

ChargedStageIsCharged ==
    \A p \in Requests : pc[p] = "charged" => log[target[p]] > 0

PaidInv == DeliveredWasCharged /\ ChargedStageIsCharged

LEMMA LogGrows ==
    ASSUME QuotaAssumption, TypeOK, [Next]_vars
    PROVE  \A r \in Resumes : log'[r] >= log[r]
<1>1. CASE log' = log
  BY <1>1 DEF TypeOK
<1>2. ASSUME NEW p \in Requests, ChargeExport(p)
      PROVE  \A r \in Resumes : log'[r] >= log[r]
  BY <1>2 DEF ChargeExport, TypeOK
<1>3. QED
  BY <1>1, <1>2, LogStep

LEMMA NextPaid ==
    ASSUME QuotaAssumption, TypeOK, PaidInv, [Next]_vars
    PROVE  PaidInv'
<1> USE DEF PaidInv
<1>0. TypeOK'
  BY NextType
<1>1. Charged \subseteq Charged'
  BY <1>0, LogGrows DEF Charged, TypeOK
<1>2. ASSUME NEW p \in Requests, pc'[p] = "charged"
      PROVE  log'[target'[p]] > 0
  <2>1. CASE pc[p] = "charged" /\ target'[p] = target[p]
    <3>1. target[p] \in Resumes /\ log[target[p]] > 0
      BY <2>1 DEF TypeOK, ChargedStageIsCharged
    <3>2. log[target[p]] \in Nat /\ log'[target[p]] \in Nat /\ log'[target[p]] >= log[target[p]]
      BY <1>0, <3>1, LogGrows DEF TypeOK
    <3>3. QED
      BY <2>1, <3>1, <3>2
  <2>2. CASE ChargeExport(p)
    BY <2>2 DEF ChargeExport, TypeOK, Goto
  <2>3. CASE FindLog(p)
    BY <1>2, <2>3 DEF FindLog, TypeOK, Goto
  <2>4. \/ pc[p] = "charged" /\ target'[p] = target[p]
        \/ ChargeExport(p) \/ FindLog(p)
    BY <1>2 DEF Next, vars, QuotaStep, Consume, FindLog, FindCounter, FindNoCounter,
         CreateCounter, CreateCounterFails, ChargeExport, ChargeRollsBack, Abort,
         Deliver, ResetCounter, Goto, Leave, TypeOK
  <2>5. QED
    BY <2>1, <2>2, <2>3, <2>4
<1>3. ChargedStageIsCharged'
  BY <1>2 DEF ChargedStageIsCharged
<1>4. ASSUME NEW p \in Requests, Deliver(p) PROVE DeliveredWasCharged'
  <2>1. target[p] \in Charged
    BY <1>4 DEF Deliver, ChargedStageIsCharged, Charged, TypeOK
  <2>2. QED
    BY <1>1, <1>4, <2>1 DEF Deliver, DeliveredWasCharged
<1>5. ASSUME delivered' = delivered PROVE DeliveredWasCharged'
  BY <1>1, <1>5 DEF DeliveredWasCharged
<1>6. QED
  BY <1>3, <1>4, <1>5 DEF Next, vars

\* Every export that reached its user is in the consume log.
THEOREM NothingUnpaid == ASSUME QuotaAssumption PROVE Spec => []DeliveredWasCharged
<1>1. Init => PaidInv
  BY DEF Init, QuotaInit, PaidInv, DeliveredWasCharged, ChargedStageIsCharged
<1>2. TypeOK /\ PaidInv /\ [Next]_vars => PaidInv'
  BY NextPaid
<1>3. PaidInv => DeliveredWasCharged
  BY DEF PaidInv
<1>4. QED
  BY <1>1, <1>2, <1>3, TypeCorrect, PTL DEF Spec

-----------------------------------------------------------------------------
(* How far the unlocked check can be overshot. A request that has passed    *)
(* the check holds a slot that the counter does not show yet; counter and   *)
(* held slots together stay below Limit plus the number of requests.        *)

Holding(u) == {p \in Requests : pc[p] = "transaction" /\ OwnerOf(p) = u}

HeldInv ==
    \A u \in Users :
        completed[u] + Cardinality(Holding(u)) <= Limit + Cardinality(Requests) - 1

LEMMA HoldingFinite ==
    ASSUME QuotaAssumption, NEW H \in SUBSET Requests
    PROVE  /\ IsFiniteSet(H)
           /\ Cardinality(H) \in Nat
           /\ Cardinality(H) <= Cardinality(Requests)
           /\ Cardinality(Requests) \in Nat
BY FS_Subset, FS_CardinalityType DEF QuotaAssumption

\* A step that leaves u's counter alone, or lowers it, and gives no request
\* a slot of u keeps the bound.
LEMMA HeldShrinks ==
    ASSUME QuotaAssumption, TypeOK, TypeOK', HeldInv, NEW u \in Users,
           completed'[u] <= completed[u], Holding(u)' \subseteq Holding(u)
    PROVE  completed'[u] + Cardinality(Holding(u)') <= Limit + Cardinality(Requests) - 1
<1>1. Holding(u) \in SUBSET Requests /\ Holding(u)' \in SUBSET Holding(u)
  BY DEF Holding
<1>2. /\ IsFiniteSet(Holding(u))
      /\ Cardinality(Holding(u)) \in Nat /\ Cardinality(Requests) \in Nat
  BY <1>1, HoldingFinite
<1>3. Cardinality(Holding(u)') <= Cardinality(Holding(u))
  BY <1>1, <1>2, FS_Subset
<1>4. Cardinality(Holding(u)') \in Nat
  BY <1>1, <1>2, FS_Subset, FS_CardinalityType
<1>5. completed[u] \in Nat /\ completed'[u] \in Nat /\ Limit \in Nat
  BY DEF TypeOK, QuotaAssumption
<1>6. QED
  BY <1>2, <1>3, <1>4, <1>5 DEF HeldInv

\* A counter below the limit keeps the bound whatever the requests hold.
LEMMA HeldBelowLimit ==
    ASSUME QuotaAssumption, NEW u \in Users, completed'[u] \in Nat, completed'[u] < Limit
    PROVE  completed'[u] + Cardinality(Holding(u)') <= Limit + Cardinality(Requests) - 1
<1>1. Holding(u)' \in SUBSET Requests
  BY DEF Holding
<1>2. /\ Cardinality(Holding(u)') \in Nat
      /\ Cardinality(Holding(u)') <= Cardinality(Requests)
      /\ Cardinality(Requests) \in Nat
  BY <1>1, HoldingFinite
<1>3. QED
  BY <1>2 DEF QuotaAssumption

LEMMA NextHeld ==
    ASSUME QuotaAssumption, TypeOK, HeldInv, [Next]_vars
    PROVE  HeldInv'
<1>0. TypeOK'
  BY NextType
<1> SUFFICES ASSUME NEW u \in Users
             PROVE  completed'[u] + Cardinality(Holding(u)')
                       <= Limit + Cardinality(Requests) - 1
  BY DEF HeldInv
<1>1. ASSUME NEW p \in Requests, FindCounter(p),
             OwnerOf(p) = u, WithinLimit(completed[u])
      PROVE  completed'[u] < Limit
  BY <1>1 DEF FindCounter, WithinLimit
<1>2. ASSUME NEW p \in Requests, CreateCounter(p), OwnerOf(p) = u
      PROVE  completed'[u] < Limit
  BY <1>2 DEF CreateCounter, TypeOK, QuotaAssumption
<1>3. ASSUME NEW p \in Requests, ChargeExport(p), OwnerOf(p) = u
      PROVE  completed'[u] + Cardinality(Holding(u)')
                <= Limit + Cardinality(Requests) - 1
  <2>1. Holding(u)' = Holding(u) \ {p} /\ p \in Holding(u)
    BY <1>3 DEF Holding, ChargeExport, Goto, TypeOK, OwnerOf
  <2>2. Holding(u) \in SUBSET Requests
    BY DEF Holding
  <2>3. Cardinality(Holding(u)') = Cardinality(Holding(u)) - 1
    BY <2>1, <2>2, HoldingFinite, FS_RemoveElement
  <2>4. completed'[u] = completed[u] + 1 /\ completed[u] \in Nat
    BY <1>3 DEF ChargeExport, TypeOK
  <2>5. Cardinality(Holding(u)) \in Nat /\ Cardinality(Requests) \in Nat /\ Limit \in Nat
    BY <2>2, HoldingFinite DEF QuotaAssumption
  <2>6. QED
    BY <2>3, <2>4, <2>5 DEF HeldInv
<1>4. \/ completed'[u] <= completed[u] /\ Holding(u)' \subseteq Holding(u)
      \/ \E p \in Requests : ChargeExport(p) /\ OwnerOf(p) = u
      \/ \E p \in Requests :
            FindCounter(p) /\ OwnerOf(p) = u /\ WithinLimit(completed[u])
      \/ \E p \in Requests : CreateCounter(p) /\ OwnerOf(p) = u
  <2> USE DEF Holding, OwnerOf, TypeOK, Goto, Leave
  \* Requests that start or end, and stuttering: counters stay, slots too.
  <2>1. ASSUME \/ UNCHANGED vars
               \/ \E p \in Requests : Deliver(p) \/ \E r \in Resumes : Consume(p, r)
        PROVE  completed' = completed /\ Holding(u)' \subseteq Holding(u)
    BY <2>1 DEF vars, Deliver, Consume
  <2>2. ASSUME NEW p \in Requests, QuotaStep(p) PROVE <1>4!:
    <3>1. CASE FindLog(p)
      BY <3>1 DEF FindLog
    <3>2. CASE FindCounter(p)
      BY <3>2 DEF FindCounter
    <3>3. CASE FindNoCounter(p)
      BY <3>3 DEF FindNoCounter
    <3>4. CASE CreateCounter(p)
      <4>1. CASE OwnerOf(p) = u
        BY <3>4, <4>1
      <4>2. ASSUME OwnerOf(p) # u
            PROVE  completed'[u] <= completed[u] /\ Holding(u)' \subseteq Holding(u)
        BY <3>4, <4>2 DEF CreateCounter
      <4>3. QED
        BY <4>1, <4>2
    <3>5. CASE CreateCounterFails(p)
      BY <3>5 DEF CreateCounterFails
    <3>6. CASE ChargeExport(p)
      <4>1. CASE OwnerOf(p) = u
        BY <3>6, <4>1
      <4>2. ASSUME OwnerOf(p) # u
            PROVE  completed'[u] <= completed[u] /\ Holding(u)' \subseteq Holding(u)
        BY <3>6, <4>2 DEF ChargeExport
      <4>3. QED
        BY <4>1, <4>2
    <3>7. CASE ChargeRollsBack(p)
      BY <3>7 DEF ChargeRollsBack
    <3>8. CASE Abort(p)
      BY <3>8 DEF Abort
    <3>9. QED
      BY <2>2, <3>1, <3>2, <3>3, <3>4, <3>5, <3>6, <3>7, <3>8 DEF QuotaStep
  <2>3. ASSUME NEW v \in Resettable, ResetCounter(v)
        PROVE  completed'[u] <= completed[u] /\ Holding(u)' \subseteq Holding(u)
    BY <2>3 DEF ResetCounter
  <2>4. completed[u] <= completed[u]
    OBVIOUS
  <2> QED
    BY <2>1, <2>2, <2>3, <2>4 DEF Next
<1>5. completed'[u] \in Nat
  BY <1>0 DEF TypeOK
<1>6. QED
  BY <1>0, <1>1, <1>2, <1>3, <1>4, <1>5, HeldShrinks, HeldBelowLimit

\* With N requests in flight at once a counter passes its limit by at most
\* N - 1, although the limit is checked outside the transaction.
THEOREM Overshoot == ASSUME QuotaAssumption PROVE Spec => []OvershootBounded
<1>1. Init => HeldInv
  <2> SUFFICES ASSUME Init, NEW u \in Users
               PROVE  completed[u] + Cardinality(Holding(u))
                         <= Limit + Cardinality(Requests) - 1
    BY DEF HeldInv
  <2>1. Holding(u) = {} /\ completed[u] = 0
    BY DEF Holding, Init, QuotaInit
  <2>2. Cardinality(Holding(u)) = 0 /\ Cardinality(Requests) \in Nat
    BY <2>1, FS_EmptySet, HoldingFinite
  <2>3. QED
    BY <2>1, <2>2 DEF QuotaAssumption
<1>2. TypeOK /\ HeldInv /\ [Next]_vars => HeldInv'
  BY NextHeld
<1>3. TypeOK /\ HeldInv => OvershootBounded
  <2> SUFFICES ASSUME TypeOK, HeldInv, NEW u \in Users
               PROVE  completed[u] <= Limit + Cardinality(Requests) - 1
    BY DEF OvershootBounded
  <2>1. Holding(u) \in SUBSET Requests
    BY DEF Holding
  <2>2. Cardinality(Holding(u)) \in Nat /\ Cardinality(Requests) \in Nat
    BY <2>1, HoldingFinite
  <2>3. QED
    BY <2>2 DEF HeldInv, TypeOK, QuotaAssumption
<1>4. QED
  BY <1>1, <1>2, <1>3, TypeCorrect, PTL DEF Spec

-----------------------------------------------------------------------------
(* Quota implements the ledger.                                             *)

LEMMA LedgerInit == ASSUME QuotaAssumption, Init PROVE Ledger!Init
BY DEF Init, QuotaInit, Ledger!Init, Charged

LEMMA LedgerStep ==
    ASSUME QuotaAssumption, TypeOK, PaidInv, [Next]_vars
    PROVE  [Ledger!Next]_(Ledger!vars)
<1> USE DEF Ledger!vars, Ledger!Next
<1>1. ASSUME NEW p \in Requests, ChargeExport(p), UNCHANGED delivered
      PROVE  [Ledger!Next]_(Ledger!vars)
  <2>1. target[p] \in Resumes \ Charged
    BY <1>1 DEF ChargeExport, Charged, TypeOK
  <2>2. Charged' = Charged \cup {target[p]}
    BY <1>1, ChargeExportCounts
  <2>3. Ledger!Charge(target[p])
    BY <1>1, <2>1, <2>2 DEF Ledger!Charge, ChargeExport, OwnerOf
  <2>4. QED
    BY <2>1, <2>3
<1>2. ASSUME NEW p \in Requests, Deliver(p) PROVE [Ledger!Next]_(Ledger!vars)
  <2>1. target[p] \in Charged /\ Charged' = Charged
    BY <1>2 DEF Deliver, PaidInv, ChargedStageIsCharged, Charged, TypeOK
  <2>2. Ledger!Deliver(target[p])
    BY <1>2, <2>1 DEF Deliver, Ledger!Deliver
  <2>3. QED
    BY <2>1, <2>2 DEF Charged
<1>3. ASSUME NEW u \in Users, completed' = [completed EXCEPT ![u] = 0],
             log' = log, delivered' = delivered
      PROVE  [Ledger!Next]_(Ledger!vars)
  BY <1>3 DEF Ledger!Forgive, Charged
<1>4. ASSUME NEW p \in Requests, CreateCounter(p), UNCHANGED delivered
      PROVE  [Ledger!Next]_(Ledger!vars)
  BY <1>3, <1>4 DEF CreateCounter, OwnerOf, TypeOK, QuotaAssumption
<1>5. ASSUME NEW u \in Resettable, ResetCounter(u), UNCHANGED delivered
      PROVE  [Ledger!Next]_(Ledger!vars)
  BY <1>3, <1>5 DEF ResetCounter, QuotaAssumption
<1>6. CASE UNCHANGED <<completed, log, delivered>>
  BY <1>6 DEF Charged
<1>7. QED
  BY <1>1, <1>2, <1>4, <1>5, <1>6
     DEF Next, vars, QuotaStep, Consume, FindLog, FindCounter, FindNoCounter,
         CreateCounterFails, ChargeRollsBack, Abort

\* consumeOnExport implements the abstract ledger.
THEOREM LedgerRefinement == ASSUME QuotaAssumption PROVE Spec => ImplementsLedger
<1>1. Init => Ledger!Init
  BY LedgerInit
<1>2. Init => PaidInv
  BY DEF Init, QuotaInit, PaidInv, DeliveredWasCharged, ChargedStageIsCharged
<1>3. TypeOK /\ PaidInv /\ [Next]_vars => PaidInv'
  BY NextPaid
<1>4. TypeOK /\ PaidInv /\ [Next]_vars => [Ledger!Next]_(Ledger!vars)
  BY LedgerStep
<1>5. QED
  BY <1>1, <1>2, <1>3, <1>4, TypeCorrect, PTL DEF Spec, ImplementsLedger, Ledger!Spec
=============================================================================
