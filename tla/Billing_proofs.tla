---------------------------- MODULE Billing_proofs ----------------------------
(***************************************************************************)
(* The properties of Billing, for any set of events and any number of      *)
(* deliveries at once, failures and other writers: an event is written at  *)
(* most once, the watermark rises, the latest event wins, and at most one  *)
(* event is lost per failure.                                              *)
(***************************************************************************)
EXTENDS Billing, FiniteSetTheorems, TLAPS

Handling == {"find", "retrieve", "save", "update"}
Handles(p, e) == proc[p].pc \in Handling /\ proc[p].ev = e

\* A delivery that got past the conflict is the only one that ever will: the
\* event is recorded, not written yet, and nobody else handles it.
OnceInv ==
    /\ saves \in [Events -> Nat]
    /\ proc = [p \in Procs |-> proc[p]]
    /\ \A p \in Procs :
          /\ proc[p].pc \in {"idle", "dedup"} \cup Handling
          /\ proc[p].pc \in {"dedup", "find"} =>
                proc[p].ev \in Events /\ proc[p] = [pc |-> proc[p].pc, ev |-> proc[p].ev]
          /\ proc[p].pc \in {"retrieve", "save"} =>
                proc[p] = [pc |-> proc[p].pc, ev |-> proc[p].ev,
                           was |-> proc[p].was, row |-> proc[p].row]
    /\ \A e \in Events :
          /\ saves[e] <= 1 /\ (saves[e] = 1 => e \in seen)
          /\ \A p \in Procs : Handles(p, e) =>
                /\ e \in seen /\ saves[e] = 0
                /\ \A q \in Procs \ {p} : ~Handles(q, e)

\* A step after which p handles what it handled before, or nothing.
LEMMA Handed ==
    ASSUME OnceInv, NEW p \in Procs, NEW state, Set(p, state),
           saves' = saves, seen \subseteq seen',
           state.pc \in {"idle", "dedup"} \cup Handling,
           state.pc \in {"dedup", "find"} => state.ev \in Events /\ state = [pc |-> state.pc, ev |-> state.ev],
           state.pc \in {"retrieve", "save"} =>
               state = [pc |-> state.pc, ev |-> state.ev, was |-> state.was, row |-> state.row],
           state.pc \in Handling => Handles(p, state.ev) \/ state.ev \notin Events
    PROVE  OnceInv'
<1>1. /\ proc'[p] = state /\ \A q \in Procs \ {p} : proc'[q] = proc[q]
      /\ proc' = [q \in Procs |-> proc'[q]]
  BY DEF Set, OnceInv
<1>2. \A e \in Events, q \in Procs : Handles(q, e)' => Handles(q, e)
  BY <1>1 DEF Handles
<1>3. ASSUME NEW e \in Events
      PROVE  /\ saves'[e] <= 1 /\ (saves'[e] = 1 => e \in seen')
             /\ \A q \in Procs : Handles(q, e)' =>
                   /\ e \in seen' /\ saves'[e] = 0
                   /\ \A r \in Procs \ {q} : ~Handles(r, e)'
  BY <1>2 DEF OnceInv
<1>4. ASSUME NEW q \in Procs
      PROVE  /\ proc'[q].pc \in {"idle", "dedup"} \cup Handling
             /\ proc'[q].pc \in {"dedup", "find"} =>
                   proc'[q].ev \in Events /\ proc'[q] = [pc |-> proc'[q].pc, ev |-> proc'[q].ev]
             /\ proc'[q].pc \in {"retrieve", "save"} =>
                   proc'[q] = [pc |-> proc'[q].pc, ev |-> proc'[q].ev,
                               was |-> proc'[q].was, row |-> proc'[q].row]
  <2>1. CASE q = p
    BY <1>1, <2>1
  <2>2. CASE q # p
    <3>1. proc'[q] = proc[q]
      BY <1>1, <2>2
    <3> QED BY <3>1 DEF OnceInv
  <2> QED BY <2>1, <2>2
<1> QED BY <1>1, <1>3, <1>4 DEF OnceInv

\* The first delivery that inserts the event's record goes on.
LEMMA FirstDelivery ==
    ASSUME OnceInv, NEW p \in Procs, Dedup(p) PROVE OnceInv'
<1> DEFINE e0 == proc[p].ev
<1>1. /\ proc[p].pc = "dedup" /\ e0 \in Events /\ proc[p] = [pc |-> "dedup", ev |-> e0]
      /\ saves' = saves /\ seen' = seen \cup {e0}
  BY DEF Dedup, OnceInv, observations
<1>2. CASE e0 \in seen
  <2>1. Set(p, Idle)
    BY <1>2 DEF Dedup
  <2> QED BY <1>1, <2>1, Handed DEF Idle, Handling
<1>3. CASE e0 \notin seen
  <2> DEFINE state == [pc |-> "find", ev |-> e0]
  <2>1. [proc[p] EXCEPT !.pc = "find"] = state
    <3> HIDE DEF e0
    <3> QED BY <1>1
  <2>2. Set(p, state)
    BY <1>3, <2>1 DEF Dedup
  <2> HIDE DEF e0
  <2>3. /\ proc'[p] = state /\ \A q \in Procs \ {p} : proc'[q] = proc[q]
        /\ proc' = [q \in Procs |-> proc'[q]]
    BY <2>2 DEF Set, OnceInv
  <2>4. saves[e0] = 0 /\ \A q \in Procs : ~Handles(q, e0)
    BY <1>1, <1>3 DEF OnceInv
  <2>5. ASSUME NEW e \in Events
        PROVE  /\ saves'[e] <= 1 /\ (saves'[e] = 1 => e \in seen')
               /\ \A q \in Procs : Handles(q, e)' =>
                     /\ e \in seen' /\ saves'[e] = 0
                     /\ \A r \in Procs \ {q} : ~Handles(r, e)'
    <3>1. \A q \in Procs \ {p} : Handles(q, e)' <=> Handles(q, e)
      BY <2>3 DEF Handles
    <3>2. Handles(p, e)' => e = e0
      BY <2>3 DEF Handles
    <3> QED BY <1>1, <2>4, <3>1, <3>2 DEF OnceInv
  <2>6. ASSUME NEW q \in Procs
        PROVE  /\ proc'[q].pc \in {"idle", "dedup"} \cup Handling
               /\ proc'[q].pc \in {"dedup", "find"} =>
                     proc'[q].ev \in Events /\ proc'[q] = [pc |-> proc'[q].pc, ev |-> proc'[q].ev]
               /\ proc'[q].pc \in {"retrieve", "save"} =>
                     proc'[q] = [pc |-> proc'[q].pc, ev |-> proc'[q].ev,
                                 was |-> proc'[q].was, row |-> proc'[q].row]
    <3>1. CASE q = p
      BY <1>1, <2>3, <3>1 DEF Handling
    <3>2. CASE q # p
      <4>1. proc'[q] = proc[q]
        BY <2>3, <3>2
      <4> QED BY <4>1 DEF OnceInv
    <3> QED BY <3>1, <3>2
  <2> QED BY <1>1, <2>3, <2>5, <2>6 DEF OnceInv
<1> QED BY <1>2, <1>3

\* The one that handles an event writes it and is done.
LEMMA WritesOnce ==
    ASSUME OnceInv, NEW p \in Procs, SaveUpdate(p) PROVE OnceInv'
<1> DEFINE e0 == proc[p].ev
<1>1. /\ proc[p].pc = "update" /\ seen' = seen
      /\ saves' = [e \in Events |-> saves[e] + IF e = e0 THEN 1 ELSE 0]
      /\ proc'[p] = Idle /\ \A q \in Procs \ {p} : proc'[q] = proc[q]
      /\ proc' = [q \in Procs |-> proc'[q]]
  BY DEF SaveUpdate, Set, OnceInv
<1>2. saves' \in [Events -> Nat]
  BY <1>1 DEF OnceInv
<1>3. ASSUME NEW e \in Events
      PROVE  /\ saves'[e] <= 1 /\ (saves'[e] = 1 => e \in seen')
             /\ \A q \in Procs : Handles(q, e)' =>
                   /\ e \in seen' /\ saves'[e] = 0
                   /\ \A r \in Procs \ {q} : ~Handles(r, e)'
  <2>1. ~Handles(p, e)' /\ \A q \in Procs \ {p} : Handles(q, e)' <=> Handles(q, e)
    BY <1>1 DEF Handles, Handling, Idle
  <2>2. CASE e = e0
    <3>1. Handles(p, e)
      BY <1>1, <2>2 DEF Handles, Handling
    <3>2. saves[e] = 0 /\ e \in seen /\ \A q \in Procs \ {p} : ~Handles(q, e)
      BY <3>1 DEF OnceInv
    <3> HIDE DEF e0
    <3> QED BY <1>1, <2>1, <2>2, <3>2
  <2>3. CASE e # e0
    <3>1. saves'[e] = saves[e]
      BY <1>1, <2>3 DEF OnceInv
    <3> QED BY <1>1, <2>1, <3>1 DEF OnceInv
  <2> QED BY <2>2, <2>3
<1>4. ASSUME NEW q \in Procs
      PROVE  /\ proc'[q].pc \in {"idle", "dedup"} \cup Handling
             /\ proc'[q].pc \in {"dedup", "find"} =>
                   proc'[q].ev \in Events /\ proc'[q] = [pc |-> proc'[q].pc, ev |-> proc'[q].ev]
             /\ proc'[q].pc \in {"retrieve", "save"} =>
                   proc'[q] = [pc |-> proc'[q].pc, ev |-> proc'[q].ev,
                               was |-> proc'[q].was, row |-> proc'[q].row]
  <2>1. CASE q = p
    BY <1>1, <2>1 DEF Idle, Handling
  <2>2. CASE q # p
    <3>1. proc'[q] = proc[q]
      BY <1>1, <2>2
    <3> QED BY <3>1 DEF OnceInv
  <2> QED BY <2>1, <2>2
<1> QED BY <1>1, <1>2, <1>3, <1>4 DEF OnceInv

LEMMA OnceStep == ASSUME BillingAssumption, OnceInv, [Next]_vars PROVE OnceInv'
<1>1. ASSUME UNCHANGED <<proc, saves, seen>> PROVE OnceInv'
  BY <1>1 DEF OnceInv, Handles
<1>2. ASSUME NEW p \in Procs, NEW e \in Events, Deliver(p, e) PROVE OnceInv'
  BY <1>2, Handed DEF Deliver, Handling, observations
<1>3. ASSUME NEW p \in Procs, Find(p) PROVE OnceInv'
  <2> DEFINE e == proc[p].ev
             state == [pc |-> IF Kind[e] = "checkout" THEN "retrieve" ELSE "save",
                       ev |-> e, was |-> row, row |-> Apply(e, row)]
  <2>1. proc[p].pc = "find" /\ Handles(p, e) /\ saves' = saves /\ seen' = seen
    BY <1>3 DEF Find, Handles, Handling
  <2>2. Set(p, state) \/ Set(p, Idle)
    BY <1>3 DEF Find
  <2>3. CASE Set(p, Idle)
    BY <2>1, <2>3, Handed DEF Idle, Handling
  <2>4. CASE Set(p, state)
    <3>1. /\ state.pc \in {"retrieve", "save"} /\ state.ev = e
          /\ state = [pc |-> state.pc, ev |-> state.ev, was |-> state.was, row |-> state.row]
      OBVIOUS
    <3> HIDE DEF state
    <3> QED BY <2>1, <2>4, <3>1, Handed DEF Handling
  <2> QED BY <2>2, <2>3, <2>4
<1>4. ASSUME NEW p \in Procs, Retrieve(p) PROVE OnceInv'
  <2> DEFINE state == [pc |-> "save", ev |-> proc[p].ev, was |-> proc[p].was, row |-> proc[p].row]
  <2>1. /\ proc[p].pc = "retrieve" /\ Handles(p, proc[p].ev) /\ saves' = saves /\ seen' = seen
        /\ proc[p] = [pc |-> "retrieve", ev |-> proc[p].ev, was |-> proc[p].was, row |-> proc[p].row]
    BY <1>4 DEF Retrieve, Handles, Handling, OnceInv, observations
  <2>2. Set(p, state)
    <3>1. [proc[p] EXCEPT !.pc = "save"] = state
      BY <2>1
    <3> QED BY <1>4, <3>1 DEF Retrieve
  <2>3. /\ state.pc = "save" /\ state.ev = proc[p].ev
        /\ state = [pc |-> state.pc, ev |-> state.ev, was |-> state.was, row |-> state.row]
    OBVIOUS
  <2> HIDE DEF state
  <2> QED BY <2>1, <2>2, <2>3, Handed DEF Handling
<1>5. ASSUME NEW p \in Procs, SaveSelect(p) PROVE OnceInv'
  <2> DEFINE state == [pc |-> "update", ev |-> proc[p].ev, was |-> proc[p].was, row |-> proc[p].row,
                       columns |-> Changed(row, proc[p].row)]
  <2>1. Set(p, state) /\ Handles(p, proc[p].ev) /\ saves' = saves /\ seen' = seen
    BY <1>5 DEF SaveSelect, Handles, Handling, observations
  <2>2. state.pc = "update" /\ state.ev = proc[p].ev
    OBVIOUS
  <2> HIDE DEF state
  <2> QED BY <2>1, <2>2, Handed DEF Handling
<1>6. ASSUME NEW p \in Procs, Fails(p) PROVE OnceInv'
  BY <1>6, Handed DEF Fails, Idle, Handling, observations
<1>7. ASSUME NEW p \in Procs, FinalizeCheckout(p) \/ ResumeSubscription(p) \/ ForceDormant(p)
      PROVE  OnceInv'
  <2>1. PICK r : BeginWrite(p, r)
    BY <1>7 DEF FinalizeCheckout, ResumeSubscription, ForceDormant
  <2> DEFINE state == [pc |-> "save", ev |-> NoEvent, was |-> row, row |-> r]
  <2>2. Set(p, state) /\ saves' = saves /\ seen' = seen
    BY <2>1 DEF BeginWrite, observations
  <2>3. /\ state.pc = "save" /\ state.ev = NoEvent
        /\ state = [pc |-> state.pc, ev |-> state.ev, was |-> state.was, row |-> state.row]
    OBVIOUS
  <2>4. NoEvent \notin Events
    BY DEF BillingAssumption, NoEvent, Session
  <2> HIDE DEF state
  <2> QED BY <2>2, <2>3, <2>4, Handed DEF Handling
<1>8. CASE Tick \/ UNCHANGED vars
  BY <1>1, <1>8 DEF Tick, vars, observations
<1> QED BY <1>2, <1>3, <1>4, <1>5, <1>6, <1>7, <1>8, FirstDelivery, WritesOnce DEF Next, Progress

-----------------------------------------------------------------------------
(* The watermark. A write is described by what it makes of the row it was  *)
(* loaded from; when it was not overtaken, that is what it does to the row. *)

Columns == {"linked", "tier", "state", "at", "id"}
Writing == [pc : {"retrieve", "save"}, ev : Events \cup {NoEvent}, was : Row, row : Row]
Updating == [pc : {"update"}, ev : Events \cup {NoEvent}, was : Row, row : Row,
             columns : SUBSET Columns]

\* An event is written to a row it is later than; the success page moves the
\* watermark to the clock, the resume button and support leave it alone.
Writes(s, t) ==
    /\ s.was.at <= t /\ s.row.at <= t
    /\ s.ev = NoEvent => \/ s.row.at = s.was.at /\ s.row.id = s.was.id
                         \/ s.row.id = Session /\ s.row.at >= s.was.at
    /\ s.ev # NoEvent => /\ s.row.at = Created(s.ev) /\ s.row.id = s.ev
                         /\ s.row.state = Outcome[s.ev]
                         /\ Later(Created(s.ev), s.ev, s.was)

ProcOK(s, t) ==
    \/ s = Idle
    \/ s \in [pc : {"dedup", "find"}, ev : Events] /\ OccursAt[s.ev] <= t
    \/ s \in Writing \cup Updating /\ Writes(s, t)

RowInv ==
    /\ now \in 0..Now /\ row \in Row /\ row.at <= now
    /\ proc = [p \in Procs |-> proc[p]] /\ \A p \in Procs : ProcOK(proc[p], now)
    /\ seen \subseteq Events /\ decided \subseteq seen /\ missed \subseteq decided
    /\ saves \in [Events -> Nat] /\ undisturbed \in BOOLEAN
    /\ faults \in 0..MaxFaults /\ writes \in 0..MaxWrites

LEMMA CreatedBefore ==
    ASSUME BillingAssumption, NEW e \in Events
    PROVE  Created(e) \in Nat /\ Created(e) <= OccursAt[e]
BY DEF BillingAssumption, Created

\* Time passes: what was before the clock still is.
LEMMA ProcOKLater ==
    ASSUME BillingAssumption, NEW t \in Nat, NEW u \in Nat, t <= u, u <= Now, NEW s, ProcOK(s, t)
    PROVE  ProcOK(s, u)
<1>1. CASE s = Idle
  BY <1>1 DEF ProcOK
<1>2. CASE s \in [pc : {"dedup", "find"}, ev : Events] /\ OccursAt[s.ev] <= t
  <2>1. OccursAt[s.ev] \in Nat
    BY <1>2 DEF BillingAssumption
  <2> QED BY <1>2, <2>1 DEF ProcOK
<1>3. CASE s \in Writing \cup Updating /\ Writes(s, t)
  <2>1. s.was.at \in Int /\ s.row.at \in Int
    BY <1>3 DEF Writing, Updating, Row, Never, BillingAssumption
  <2> QED BY <1>3, <2>1 DEF ProcOK, Writes
<1> QED BY <1>1, <1>2, <1>3 DEF ProcOK

\* A step of p to a state that is in order, of which nobody else takes notice.
LEMMA RowHanded ==
    ASSUME RowInv, NEW p \in Procs, NEW s, Set(p, s), ProcOK(s, now), now' = now, row' = row,
           seen' \subseteq Events, seen \subseteq seen', decided' \subseteq seen', missed' \subseteq decided',
           saves' = saves, undisturbed' = undisturbed,
           faults' \in 0..MaxFaults, writes' \in 0..MaxWrites
    PROVE  RowInv'
<1>1. proc' = [q \in Procs |-> proc'[q]] /\ \A q \in Procs : proc'[q] = IF q = p THEN s ELSE proc[q]
  BY DEF Set, RowInv
<1>2. \A q \in Procs : ProcOK(proc'[q], now')
  BY <1>1 DEF RowInv
<1> QED BY <1>1, <1>2 DEF RowInv

LEMMA ApplyRow ==
    ASSUME BillingAssumption, NEW e \in Events, NEW r \in Row, OccursAt[e] <= Now
    PROVE  Apply(e, r) \in Row /\ Apply(e, r).at = Created(e) /\ Apply(e, r).id = e
           /\ Apply(e, r).state = Outcome[e]
<1>1. Created(e) \in Never..Now
  BY CreatedBefore DEF BillingAssumption, Never
<1>2. Tier[e] \in Tiers /\ Outcome[e] \in States
  BY DEF BillingAssumption
<1> QED BY <1>1, <1>2 DEF Apply, Row

\* A save writes some columns of the entity.
LEMMA SavedRow ==
    ASSUME NEW old \in Row, NEW new \in Row, NEW columns
    PROVE  /\ Updated(old, new, columns) \in Row
           /\ Updated(old, new, columns).at \in {old.at, new.at}
BY DEF Updated, Row

\* All that differ, if the row is what it was when it was loaded.
LEMMA SavedWhole ==
    ASSUME NEW old \in Row, NEW new \in Row
    PROVE  /\ Updated(old, new, Changed(old, new)) = new
           /\ Changed(old, new) \subseteq Columns
BY DEF Updated, Changed, Row, Columns

LEMMA FoundRow == ASSUME BillingAssumption, OnceInv, RowInv, NEW p \in Procs, Find(p) PROVE RowInv'
<1> DEFINE e == proc[p].ev
           state == [pc |-> IF Kind[e] = "checkout" THEN "retrieve" ELSE "save",
                     ev |-> e, was |-> row, row |-> Apply(e, row)]
<1>1. proc[p].pc = "find" /\ e \in Events /\ OccursAt[e] <= now
  BY DEF Find, RowInv, ProcOK, Writing, Updating, Idle
<1>2. e \in seen
  BY <1>1 DEF OnceInv, Handles, Handling
<1>3. CASE Finds(e) /\ Applies(e, row)
  <2>1. Set(p, state) /\ decided' = decided /\ missed' = missed
    BY <1>3 DEF Find
  <2>2. Apply(e, row) \in Row /\ Apply(e, row).at = Created(e) /\ Apply(e, row).id = e
        /\ Apply(e, row).state = Outcome[e]
    <3>1. OccursAt[e] <= Now
      BY <1>1 DEF RowInv, BillingAssumption
    <3> QED BY <1>1, <3>1, ApplyRow DEF RowInv
  <2>3. Created(e) <= now
    BY <1>1, CreatedBefore DEF RowInv, BillingAssumption
  <2>4. Later(Created(e), e, row)
    BY <1>3 DEF Applies, ShouldApply
  <2>5. e # NoEvent
    BY <1>1 DEF BillingAssumption, NoEvent, Session
  <2>6. state \in Writing /\ Writes(state, now)
    <3>1. state.was = row /\ state.row = Apply(e, row) /\ state.ev = e
      OBVIOUS
    <3>2. state \in Writing
      BY <1>1, <2>2 DEF Writing, RowInv
    <3> HIDE DEF state
    <3> QED BY <2>2, <2>3, <2>4, <2>5, <3>1, <3>2 DEF Writes, RowInv
  <2>7. ProcOK(state, now)
    BY <2>6 DEF ProcOK
  <2> HIDE DEF state
  <2> QED BY <2>1, <2>7, RowHanded DEF Find, RowInv
<1>4. CASE ~(Finds(e) /\ Applies(e, row))
  <2>1. /\ Set(p, Idle) /\ decided' = decided \cup {e}
        /\ missed' = missed \/ missed' = missed \cup {e}
    BY <1>4 DEF Find
  <2> HIDE DEF e
  <2> QED BY <1>2, <2>1, RowHanded DEF Find, RowInv, ProcOK
<1> QED BY <1>3, <1>4

LEMMA SelectedRow ==
    ASSUME BillingAssumption, RowInv, NEW p \in Procs, SaveSelect(p) \/ Retrieve(p) PROVE RowInv'
<1>1. proc[p].pc \in {"retrieve", "save"} /\ proc[p] \in Writing /\ Writes(proc[p], now)
  BY DEF SaveSelect, Retrieve, RowInv, ProcOK, Writing, Updating, Idle
<1>2. CASE SaveSelect(p)
  <2> DEFINE state == [pc |-> "update", ev |-> proc[p].ev, was |-> proc[p].was, row |-> proc[p].row,
                       columns |-> Changed(row, proc[p].row)]
  <2>1. Set(p, state)
    BY <1>2 DEF SaveSelect
  <2>2. Changed(row, proc[p].row) \subseteq Columns
    BY <1>1, SavedWhole DEF RowInv, Writing
  <2>3. state \in Updating
    BY <1>1, <2>2 DEF Writing, Updating
  <2>4. state.was = proc[p].was /\ state.row = proc[p].row /\ state.ev = proc[p].ev
    OBVIOUS
  <2> HIDE DEF state
  <2>5. Writes(state, now)
    BY <1>1, <2>4 DEF Writes
  <2>6. ProcOK(state, now)
    BY <2>3, <2>5 DEF ProcOK
  <2> QED BY <1>2, <2>1, <2>6, RowHanded DEF SaveSelect, RowInv, observations
<1>3. CASE Retrieve(p)
  <2> DEFINE state == [pc |-> "save", ev |-> proc[p].ev, was |-> proc[p].was, row |-> proc[p].row]
  <2>1. Set(p, state)
    <3>1. [proc[p] EXCEPT !.pc = "save"] = state
      BY <1>1 DEF Writing
    <3> QED BY <1>3, <3>1 DEF Retrieve
  <2>2. state \in Writing
    BY <1>1 DEF Writing
  <2>3. state.was = proc[p].was /\ state.row = proc[p].row /\ state.ev = proc[p].ev
    OBVIOUS
  <2> HIDE DEF state
  <2>4. Writes(state, now)
    BY <1>1, <2>3 DEF Writes
  <2>5. ProcOK(state, now)
    BY <2>2, <2>4 DEF ProcOK
  <2> QED BY <1>3, <2>1, <2>5, RowHanded DEF Retrieve, RowInv, observations
<1> QED BY <1>2, <1>3

LEMMA UpdatingRow ==
    ASSUME BillingAssumption, RowInv, NEW p \in Procs, proc[p].pc = "update"
    PROVE  proc[p] \in Updating /\ Writes(proc[p], now) /\ proc[p].row \in Row /\ proc[p].was \in Row
<1>1. proc[p] \in Updating /\ Writes(proc[p], now)
  BY DEF RowInv, ProcOK, Writing, Updating, Idle
<1> QED BY <1>1 DEF Updating

LEMMA SavedRowOK ==
    ASSUME BillingAssumption, OnceInv, RowInv, NEW p \in Procs, SaveUpdate(p) PROVE RowInv'
<1> DEFINE new == proc[p].row
<1>1. proc[p] \in Updating /\ Writes(proc[p], now) /\ new \in Row
  BY UpdatingRow DEF SaveUpdate
<1>2. row' \in Row /\ row'.at \in {row.at, new.at}
  BY <1>1, SavedRow DEF SaveUpdate, RowInv
<1>3. row'.at <= now /\ now' = now
  BY <1>1, <1>2 DEF SaveUpdate, Writes, RowInv
<1>4. proc' = [q \in Procs |-> proc'[q]] /\ \A q \in Procs : proc'[q] = IF q = p THEN Idle ELSE proc[q]
  BY DEF SaveUpdate, Set, RowInv
<1>5. \A q \in Procs : ProcOK(proc'[q], now')
  BY <1>3, <1>4 DEF RowInv, ProcOK
<1>6. proc[p].ev # NoEvent => proc[p].ev \in seen
  <2>1. proc[p].ev \in Events \cup {NoEvent}
    BY <1>1 DEF Updating
  <2> QED BY <2>1 DEF SaveUpdate, OnceInv, Handles, Handling
<1>7. decided' \subseteq seen' /\ missed' = missed /\ decided \subseteq decided' /\ seen' = seen
  BY <1>6 DEF SaveUpdate, RowInv
<1>8. saves' \in [Events -> Nat]
  BY DEF SaveUpdate, RowInv
<1>9. undisturbed' \in BOOLEAN
  BY DEF SaveUpdate
<1> QED BY <1>2, <1>3, <1>4, <1>5, <1>7, <1>8, <1>9 DEF SaveUpdate, RowInv

LEMMA BegunRow ==
    ASSUME BillingAssumption, RowInv, NEW p \in Procs,
           FinalizeCheckout(p) \/ ResumeSubscription(p) \/ ForceDormant(p)
    PROVE  RowInv'
<1>1. PICK r : /\ BeginWrite(p, r) /\ r \in Row
               /\ \/ r.at = row.at /\ r.id = row.id
                  \/ r.at = now /\ r.id = Session
  <2>1. CASE FinalizeCheckout(p)
    <3>0. PICK tier \in Tiers :
              BeginWrite(p, [linked |-> TRUE, tier |-> tier, state |-> "ACTIVE", at |-> now, id |-> Session])
      BY <2>1 DEF FinalizeCheckout
    <3> DEFINE r == [linked |-> TRUE, tier |-> tier, state |-> "ACTIVE", at |-> now, id |-> Session]
    <3>1. r \in Row /\ r.at = now /\ r.id = Session
      BY DEF Row, RowInv, BillingAssumption, States, Never
    <3> QED BY <3>0, <3>1
  <2>2. CASE ResumeSubscription(p)
    <3> DEFINE r == [row EXCEPT !.state = "ACTIVE"]
    <3>1. r \in Row /\ r.at = row.at /\ r.id = row.id
      BY DEF Row, RowInv, States
    <3> QED BY <2>2, <3>1 DEF ResumeSubscription
  <2>3. CASE ForceDormant(p)
    <3> DEFINE r == [row EXCEPT !.state = "CANCELLED", !.tier = "FREE"]
    <3>1. r \in Row /\ r.at = row.at /\ r.id = row.id
      BY DEF Row, RowInv, States, Tiers
    <3> QED BY <2>3, <3>1 DEF ForceDormant
  <2> QED BY <2>1, <2>2, <2>3
<1> DEFINE state == [pc |-> "save", ev |-> NoEvent, was |-> row, row |-> r]
<1>2. state.was = row /\ state.row = r /\ state.ev = NoEvent /\ state \in Writing
  BY <1>1 DEF Writing, RowInv
<1>3. Set(p, state) /\ writes' \in 0..MaxWrites
  BY <1>1 DEF BeginWrite, RowInv, BillingAssumption
<1> HIDE DEF state
<1>4. Writes(state, now)
  <2>1. row.at \in Int /\ now \in Int
    BY DEF RowInv, Row, BillingAssumption, Never
  <2> QED BY <1>1, <1>2, <2>1 DEF Writes, RowInv
<1>5. ProcOK(state, now)
  BY <1>2, <1>4 DEF ProcOK
<1> QED BY <1>1, <1>3, <1>5, RowHanded DEF BeginWrite, RowInv, observations

LEMMA RowStep == ASSUME BillingAssumption, OnceInv, RowInv, [Next]_vars PROVE RowInv'
<1>1. CASE UNCHANGED vars
  BY <1>1 DEF vars, RowInv
<1>2. CASE Tick
  <2>1. now \in Nat /\ now' \in Nat /\ now <= now' /\ now' <= Now
    BY <1>2 DEF Tick, RowInv, BillingAssumption
  <2>2. \A p \in Procs : ProcOK(proc[p], now')
    BY <2>1, ProcOKLater DEF RowInv
  <2>3. row.at <= now'
    BY <2>1 DEF RowInv, Row, BillingAssumption, Never
  <2> QED BY <1>2, <2>1, <2>2, <2>3 DEF Tick, RowInv, observations
<1>3. ASSUME NEW p \in Procs, NEW e \in Events, Deliver(p, e) PROVE RowInv'
  <2> DEFINE state == [pc |-> "dedup", ev |-> e]
  <2>1. ProcOK(state, now)
    BY <1>3 DEF Deliver, ProcOK
  <2> QED BY <1>3, <2>1, RowHanded DEF Deliver, RowInv, observations
<1>4. ASSUME NEW p \in Procs, Dedup(p) PROVE RowInv'
  <2> DEFINE e == proc[p].ev
             state == [pc |-> "find", ev |-> e]
  <2>1. proc[p] \in [pc : {"dedup", "find"}, ev : Events] /\ OccursAt[e] <= now
    BY <1>4 DEF Dedup, RowInv, ProcOK, Writing, Updating, Idle
  <2>2. [proc[p] EXCEPT !.pc = "find"] = state
    BY <2>1
  <2>3. Set(p, state) \/ Set(p, Idle)
    BY <1>4, <2>2 DEF Dedup
  <2>4. ProcOK(state, now) /\ ProcOK(Idle, now) /\ e \in Events
    BY <2>1 DEF ProcOK
  <2> HIDE DEF state, e
  <2>5. seen' = seen \cup {e}
    BY <1>4 DEF Dedup, e
  <2> QED BY <1>4, <2>3, <2>4, <2>5, RowHanded DEF Dedup, RowInv, observations
<1>5. ASSUME NEW p \in Procs, Fails(p) PROVE RowInv'
  <2>1. ProcOK(Idle, now)
    BY DEF ProcOK
  <2> QED BY <1>5, <2>1, RowHanded DEF Fails, RowInv, observations, BillingAssumption
<1> QED BY <1>1, <1>2, <1>3, <1>4, <1>5, FoundRow, SelectedRow, SavedRowOK, BegunRow
        DEF Next, Progress

\* A save that was not overtaken makes of the row what its writer meant to.
LEMMA SavedAsMeant ==
    ASSUME BillingAssumption, RowInv, NEW p \in Procs, SaveUpdate(p), ~Overtaken(p)
    PROVE  proc[p].was = row /\ row' = proc[p].row /\ Writes(proc[p], now)
<1>1. proc[p].pc = "update" /\ proc[p].was = row /\ proc[p].columns = Changed(row, proc[p].row)
      /\ row' = Updated(row, proc[p].row, proc[p].columns)
  BY DEF SaveUpdate, Overtaken
<1>2. proc[p].row \in Row /\ Writes(proc[p], now)
  BY <1>1, UpdatingRow
<1> QED BY <1>1, <1>2, SavedWhole DEF RowInv

LEMMA MarkStep ==
    ASSUME BillingAssumption, RowInv, [Next]_vars
    PROVE  [\/ row'.at = row.at /\ row'.id = row.id
            \/ Later(row'.at, row'.id, row)
            \/ row'.id = Session /\ row'.at >= row.at
            \/ \E p \in Procs : Overtaken(p) /\ proc'[p] = Idle]_vars
<1>1. CASE row' = row
  BY <1>1
<1>2. CASE row' # row
  <2>1. PICK p \in Procs : SaveUpdate(p)
    BY <1>2 DEF Next, Progress, vars, Tick, Deliver, Dedup, Find, Retrieve, SaveSelect, Fails,
                BeginWrite, FinalizeCheckout, ResumeSubscription, ForceDormant
  <2>2. CASE Overtaken(p)
    <3>1. proc'[p] = Idle
      BY <2>1 DEF SaveUpdate, Set, RowInv
    <3> QED BY <2>2, <3>1
  <2>3. CASE ~Overtaken(p)
    <3>1. proc[p].was = row /\ row' = proc[p].row /\ Writes(proc[p], now)
      BY <2>1, <2>3, SavedAsMeant
    <3> QED BY <3>1 DEF Writes
  <2> QED BY <2>2, <2>3
<1> QED BY <1>1, <1>2

-----------------------------------------------------------------------------
\* As long as the row is undisturbed it bears the mark of the event whose state
\* it shows, and no event that was decided and heard is later than that mark.
LastInv ==
    undisturbed =>
        /\ row.id \in Events => row.state = Outcome[row.id] /\ row.at = Created(row.id)
        /\ row.id = Session => row.at = Never
        /\ \A e \in decided : \/ e \in missed \/ Kind[e] = "paid"
                              \/ ~Later(Created(e), e, row)

LEMMA LaterTransitive ==
    ASSUME NEW r \in Row, NEW s \in Row, NEW a \in Int, NEW e \in Nat, r.id \in Nat, s.id \in Nat,
           r.at \in Int, s.at \in Int, Later(s.at, s.id, r), ~Later(a, e, r)
    PROVE  ~Later(a, e, s)
BY DEF Later

LEMMA LastStep ==
    ASSUME BillingAssumption, OnceInv, RowInv, LastInv, [Next]_vars PROVE LastInv'
<1>1. ASSUME UNCHANGED <<row, decided, missed, undisturbed>> PROVE LastInv'
  BY <1>1 DEF LastInv
<1>2. ASSUME NEW p \in Procs, Find(p) PROVE LastInv'
  <2> DEFINE e == proc[p].ev
  <2>1. CASE Finds(e) /\ Applies(e, row)
    BY <1>1, <1>2, <2>1 DEF Find
  <2>2. CASE ~(Finds(e) /\ Applies(e, row))
    <3>1. /\ decided' = decided \cup {e} /\ row' = row /\ undisturbed' = undisturbed
          /\ missed' = IF Finds(e) THEN missed ELSE missed \cup {e}
      BY <1>2, <2>2 DEF Find
    <3>2. e \in missed' \/ Kind[e] = "paid" \/ ~Later(Created(e), e, row)
      BY <2>2, <3>1 DEF Applies, ShouldApply
    <3> HIDE DEF e
    <3> QED BY <3>1, <3>2 DEF LastInv
  <2> QED BY <2>1, <2>2
<1>3. ASSUME NEW p \in Procs, SaveUpdate(p) PROVE LastInv'
  <2> SUFFICES ASSUME undisturbed' PROVE LastInv'
    BY DEF LastInv
  <2> DEFINE e0 == proc[p].ev
  <2>1. undisturbed /\ ~Overtaken(p) /\ e0 # NoEvent
    BY <1>3 DEF SaveUpdate
  <2>2. proc[p].was = row /\ row' = proc[p].row /\ Writes(proc[p], now)
    BY <1>3, <2>1, SavedAsMeant
  <2>3. e0 \in Events /\ row' \in Row
    BY <1>3, <2>1, <2>2, UpdatingRow DEF SaveUpdate, Updating
  <2>4. row'.at = Created(e0) /\ row'.id = e0 /\ row'.state = Outcome[e0] /\ Later(Created(e0), e0, row)
    BY <2>1, <2>2 DEF Writes
  <2>5. decided' = decided \cup {e0} /\ missed' = missed
    BY <1>3, <2>1 DEF SaveUpdate
  <2>6. ASSUME NEW e \in decided PROVE e \in missed \/ Kind[e] = "paid" \/ ~Later(Created(e), e, row')
    <3>1. e \in Events /\ Created(e) \in Int /\ e \in Nat
      BY CreatedBefore DEF RowInv, BillingAssumption
    <3>2. row.id \in Nat /\ row'.id \in Nat /\ row.at \in Int /\ row'.at \in Int /\ row \in Row
      BY <2>3 DEF RowInv, Row, BillingAssumption, Session, Never
    <3>3. Later(row'.at, row'.id, row)
      BY <2>4
    <3> HIDE DEF e0
    <3>4. ~Later(Created(e), e, row) => ~Later(Created(e), e, row')
      BY <2>3, <3>1, <3>2, <3>3, LaterTransitive
    <3> QED BY <2>1, <3>4 DEF LastInv
  <2>7. ~Later(Created(e0), e0, row')
    <3> HIDE DEF e0
    <3>1. e0 \in Nat
      BY <2>3 DEF BillingAssumption
    <3>2. Created(e0) \in Int
      BY <2>3, CreatedBefore
    <3> QED BY <2>4, <3>1, <3>2 DEF Later
  <2>8. e0 # Session
    BY <2>3 DEF BillingAssumption
  <2> HIDE DEF e0
  <2> QED BY <2>4, <2>5, <2>6, <2>7, <2>8 DEF LastInv
<1>4. CASE ~\E p \in Procs : Find(p) \/ SaveUpdate(p)
  <2>1. UNCHANGED <<row, decided, missed, undisturbed>>
    BY <1>4 DEF Next, Progress, vars, Tick, Deliver, Dedup, Retrieve, SaveSelect, Fails, BeginWrite,
                FinalizeCheckout, ResumeSubscription, ForceDormant, observations
  <2> QED BY <1>1, <2>1
<1> QED BY <1>2, <1>3, <1>4

BillingInv == OnceInv /\ RowInv /\ LastInv

LEMMA BillingInductive ==
    ASSUME BillingAssumption
    PROVE  (Init => BillingInv) /\ (BillingInv /\ [Next]_vars => BillingInv')
<1>1. Init => OnceInv
  BY DEF Init, OnceInv, Handles, Handling, Idle
<1>2. Init => RowInv
  BY DEF Init, RowInv, Row, ProcOK, Tiers, States, Never, BillingAssumption
<1>3. Init => LastInv
  <2> SUFFICES ASSUME Init PROVE LastInv
    OBVIOUS
  <2>1. row.id = Session /\ row.at = Never /\ decided = {}
    BY DEF Init
  <2>2. row.id \notin Events
    BY <2>1 DEF BillingAssumption
  <2> QED BY <2>1, <2>2 DEF LastInv
<1> QED BY <1>1, <1>2, <1>3, OnceStep, RowStep, LastStep DEF BillingInv

\* Every reachable state is well-typed; in particular the watermark is never
\* ahead of the clock, for no event is handled before it occurred.
THEOREM BillingTypeCorrect == ASSUME BillingAssumption PROVE Spec => []TypeOK
<1>1. BillingInv => TypeOK
  <2> SUFFICES ASSUME BillingInv PROVE TypeOK
    OBVIOUS
  <2> DEFINE States0 == {Idle} \cup [pc : {"dedup", "find"}, ev : Events]
                        \cup [pc : {"retrieve", "save"}, ev : Events \cup {NoEvent}, was : Row, row : Row]
                        \cup [pc : {"update"}, ev : Events \cup {NoEvent}, was : Row, row : Row,
                              columns : SUBSET {"linked", "tier", "state", "at", "id"}]
  <2>1. \A p \in Procs : proc[p] \in States0
    BY DEF BillingInv, RowInv, ProcOK, Writing, Updating, Columns
  <2> HIDE DEF States0
  <2>2. proc \in [Procs -> States0]
    BY <2>1 DEF BillingInv, RowInv
  <2> QED BY <2>2 DEF BillingInv, RowInv, TypeOK, States0
<1> QED BY <1>1, BillingInductive, PTL DEF Spec

\* However often an event is delivered, it is written to the row at most once.
THEOREM EventsAppliedOnce == ASSUME BillingAssumption PROVE Spec => []AppliedOnce
<1>1. BillingInv => AppliedOnce
  BY DEF BillingInv, OnceInv, AppliedOnce
<1> QED BY <1>1, BillingInductive, PTL DEF Spec

\* Only a save that was overtaken turns the watermark back.
THEOREM MarkMonotone == ASSUME BillingAssumption PROVE Spec => WatermarkMonotone
<1>1. BillingInv /\ [Next]_vars
      => [\/ row'.at = row.at /\ row'.id = row.id
          \/ Later(row'.at, row'.id, row)
          \/ row'.id = Session /\ row'.at >= row.at
          \/ \E p \in Procs : Overtaken(p) /\ proc'[p] = Idle]_vars
  BY MarkStep DEF BillingInv
<1> QED BY <1>1, BillingInductive, PTL DEF Spec, WatermarkMonotone

\* Undisturbed, and once all events are handled, the row shows what the latest
\* of them tells of, unless it came before its link or is a payment.
THEOREM TheLatestWins == ASSUME BillingAssumption PROVE Spec => []LatestWins
<1>1. BillingInv => LatestWins
  <2> SUFFICES ASSUME BillingInv, decided = Events, undisturbed,
                      NEW e \in Events, Latest(e), e \notin missed, Kind[e] # "paid"
               PROVE  row.state = Outcome[e]
    BY DEF LatestWins
  <2>1. ~Later(Created(e), e, row) /\ Created(e) \in Nat
    BY CreatedBefore DEF BillingInv, LastInv
  <2>2. row.id # Session
    <3>1. row.id = Session => row.at = Never
      BY DEF BillingInv, LastInv
    <3> QED BY <2>1, <3>1 DEF Later, Never
  <2>3. row.id \in Events
    BY <2>2 DEF BillingInv, RowInv, Row
  <2>4. row.state = Outcome[row.id] /\ row.at = Created(row.id)
    BY <2>3 DEF BillingInv, LastInv
  <2>5. row.id = e
    <3> SUFFICES ASSUME row.id # e PROVE FALSE
      OBVIOUS
    <3>1. After(e, row.id)
      BY <2>3 DEF Latest
    <3> QED BY <2>1, <2>4, <3>1 DEF After, Later
  <2> QED BY <2>4, <2>5
<1> QED BY <1>1, BillingInductive, PTL DEF Spec

-----------------------------------------------------------------------------
(* How far NothingLost is from true *)

Lost == {e \in seen \ decided : \A p \in Procs : ~Handles(p, e)}

\* An event that is recorded, not decided and not being handled was dropped by
\* a handler that failed, and each failure drops at most one: the record that
\* makes every redelivery a duplicate is committed before the handler runs.
LostBounded == Cardinality(Lost) <= faults

\* The conflict check lets an event in with its handler, or finds it recorded.
LEMMA DedupLosesNothing ==
    ASSUME BillingInv, NEW p \in Procs, Dedup(p) PROVE Lost' \subseteq Lost
<1> PICK e0 : e0 = proc[p].ev
  OBVIOUS
<1>1. /\ proc[p].pc = "dedup" /\ proc[p] = [pc |-> "dedup", ev |-> e0]
      /\ seen' = seen \cup {e0} /\ decided' = decided
  BY DEF Dedup, BillingInv, OnceInv, observations
<1>2. \A q \in Procs \ {p} : proc'[q] = proc[q]
  BY DEF Dedup, Set, BillingInv, OnceInv
<1>3. \A e : ~Handles(p, e)
  BY <1>1 DEF Handles, Handling
<1>4. \A q \in Procs, e \in Lost' : ~Handles(q, e)
  BY <1>2, <1>3 DEF Lost, Handles
<1>5. CASE e0 \in seen
  BY <1>1, <1>4, <1>5 DEF Lost
<1>6. CASE e0 \notin seen
  <2>1. Set(p, [proc[p] EXCEPT !.pc = "find"])
    BY <1>6 DEF Dedup
  <2>2. proc'[p] = [pc |-> "find", ev |-> e0]
    BY <1>1, <2>1 DEF Set, BillingInv, OnceInv
  <2>3. Handles(p, e0)'
    BY <2>2 DEF Handles, Handling
  <2>4. e0 \notin Lost'
    BY <2>3 DEF Lost
  <2> QED BY <1>1, <1>4, <2>4 DEF Lost
<1> QED BY <1>5, <1>6

\* A handler goes on with its event, or is done with it and has decided it.
LEMMA HandlerLosesNothing ==
    ASSUME BillingAssumption, BillingInv, NEW p \in Procs, Find(p) \/ Retrieve(p) \/ SaveSelect(p) \/ SaveUpdate(p)
    PROVE  Lost' \subseteq Lost
<1> PICK e0 : e0 = proc[p].ev
  OBVIOUS
<1>1. /\ proc[p].pc \in Handling /\ seen' = seen /\ decided \subseteq decided'
      /\ \A q \in Procs \ {p} : proc'[q] = proc[q]
  BY DEF Find, Retrieve, SaveSelect, SaveUpdate, Set, Handling, BillingInv, OnceInv, observations
<1>2. e0 \in decided' \/ e0 = NoEvent \/ Handles(p, e0)'
  <2>1. CASE Find(p)
    BY <2>1 DEF Find, Set, Handles, Handling, BillingInv, OnceInv
  <2>2. CASE Retrieve(p)
    <3>1. proc[p] = [pc |-> "retrieve", ev |-> e0, was |-> proc[p].was, row |-> proc[p].row]
      BY <2>2 DEF Retrieve, BillingInv, OnceInv
    <3>2. [proc[p] EXCEPT !.pc = "save"]
             = [pc |-> "save", ev |-> e0, was |-> proc[p].was, row |-> proc[p].row]
      BY <3>1
    <3> QED BY <2>2, <3>2 DEF Retrieve, Set, Handles, Handling, BillingInv, OnceInv
  <2>3. CASE SaveSelect(p)
    BY <2>3 DEF SaveSelect, Set, Handles, Handling, BillingInv, OnceInv
  <2>4. CASE SaveUpdate(p)
    BY <2>4 DEF SaveUpdate
  <2> QED BY <2>1, <2>2, <2>3, <2>4
<1>3. ASSUME NEW e \in Lost' PROVE e \in Lost
  <2>1. e \in seen \ decided /\ \A q \in Procs : ~Handles(q, e)'
    BY <1>1, <1>3 DEF Lost
  <2>2. \A q \in Procs \ {p} : ~Handles(q, e)
    BY <1>1, <2>1 DEF Handles
  <2>3. CASE e # e0
    BY <2>1, <2>2, <2>3 DEF Lost, Handles
  <2>4. CASE e = e0
    <3>1. e0 = NoEvent
      BY <1>2, <1>3, <2>1, <2>4 DEF Lost
    <3>2. NoEvent \notin seen
      BY DEF BillingInv, RowInv, BillingAssumption, NoEvent, Session
    <3> QED BY <2>1, <2>4, <3>1, <3>2
  <2> QED BY <2>3, <2>4
<1> QED BY <1>3

LEMMA NextLost ==
    ASSUME BillingAssumption, BillingInv, [Next]_vars
    PROVE  \/ Lost' \subseteq Lost /\ faults' = faults
           \/ (\E e \in Events \cup {NoEvent} : Lost' \subseteq Lost \cup {e}) /\ faults' = faults + 1
<1>1. CASE UNCHANGED vars \/ Tick
  BY <1>1 DEF vars, Tick, Lost, Handles, observations
<1>2. ASSUME NEW p \in Procs, proc[p] = Idle, UNCHANGED <<seen, decided>>, NEW s, Set(p, s)
      PROVE  Lost' \subseteq Lost
  <2>1. /\ \A e : ~Handles(p, e)
        /\ \A q \in Procs \ {p} : proc'[q] = proc[q]
    BY <1>2 DEF Handles, Handling, Idle, Set, BillingInv, OnceInv
  <2> QED BY <1>2, <2>1 DEF Lost, Handles
<1>3. ASSUME NEW p \in Procs, NEW e \in Events, Deliver(p, e)
      PROVE  Lost' \subseteq Lost /\ faults' = faults
  BY <1>2, <1>3 DEF Deliver, observations
<1>4. ASSUME NEW p \in Procs, FinalizeCheckout(p) \/ ResumeSubscription(p) \/ ForceDormant(p)
      PROVE  Lost' \subseteq Lost /\ faults' = faults
  <2>1. PICK r : BeginWrite(p, r)
    BY <1>4 DEF FinalizeCheckout, ResumeSubscription, ForceDormant
  <2> QED BY <1>2, <2>1 DEF BeginWrite, observations
<1>5. ASSUME NEW p \in Procs, Progress(p)
      PROVE  Lost' \subseteq Lost /\ faults' = faults
  <2>1. faults' = faults
    BY <1>5 DEF Progress, Dedup, Find, Retrieve, SaveSelect, SaveUpdate
  <2> QED BY <1>5, <2>1, DedupLosesNothing, HandlerLosesNothing DEF Progress
<1>6. ASSUME NEW p \in Procs, Fails(p)
      PROVE  /\ \E e \in Events \cup {NoEvent} : Lost' \subseteq Lost \cup {e}
             /\ faults' = faults + 1
  <2>1. /\ seen' = seen /\ decided' = decided /\ faults' = faults + 1
        /\ \A q \in Procs \ {p} : proc'[q] = proc[q]
    BY <1>6 DEF Fails, Set, BillingInv, OnceInv, observations
  <2>2. Lost' \subseteq Lost \cup {proc[p].ev}
    BY <2>1 DEF Lost, Handles
  <2>3. proc[p].ev \in Events \cup {NoEvent}
    BY <1>6 DEF Fails, BillingInv, RowInv, ProcOK, Writing, Updating
  <2> QED BY <2>1, <2>2, <2>3
<1> QED BY <1>1, <1>3, <1>4, <1>5, <1>6 DEF Next

\* Each failure loses at most one event, for any number of deliveries and
\* writers: what NothingLost says is false of no more events than that.
THEOREM LostOnlyByFailure == ASSUME BillingAssumption PROVE Spec => []LostBounded
<1>1. Init => LostBounded
  <2>1. Init => Lost = {} /\ faults = 0
    BY DEF Init, Lost
  <2> QED BY <2>1, FS_EmptySet DEF LostBounded
<1>2. ASSUME BillingInv, LostBounded, [Next]_vars PROVE LostBounded'
  <2>1. IsFiniteSet(Lost)
    <3>1. Lost \subseteq Events
      BY <1>2 DEF Lost, BillingInv, RowInv
    <3> QED BY <3>1, FS_Subset DEF BillingAssumption
  <2>2. faults \in Nat /\ Cardinality(Lost) \in Nat /\ Cardinality(Lost) <= faults
    BY <1>2, <2>1, FS_CardinalityType DEF BillingInv, RowInv, BillingAssumption, LostBounded
  <2>3. CASE Lost' \subseteq Lost /\ faults' = faults
    <3>1. Cardinality(Lost') <= Cardinality(Lost) /\ Cardinality(Lost') \in Nat
      BY <2>1, <2>3, FS_Subset, FS_CardinalityType
    <3> QED BY <2>2, <2>3, <3>1 DEF LostBounded
  <2>4. ASSUME NEW e, Lost' \subseteq Lost \cup {e}, faults' = faults + 1 PROVE LostBounded'
    <3>1. IsFiniteSet(Lost \cup {e}) /\ Cardinality(Lost \cup {e}) <= Cardinality(Lost) + 1
          /\ Cardinality(Lost \cup {e}) \in Nat
      <4>1. /\ IsFiniteSet(Lost \cup {e})
            /\ Cardinality(Lost \cup {e}) = IF e \in Lost THEN Cardinality(Lost)
                                            ELSE Cardinality(Lost) + 1
        BY <2>1, FS_AddElement
      <4> HIDE DEF Lost
      <4> QED BY <2>2, <4>1
    <3>2. Cardinality(Lost') <= Cardinality(Lost \cup {e}) /\ Cardinality(Lost') \in Nat
      BY <2>4, <3>1, FS_Subset, FS_CardinalityType
    <3> QED BY <2>2, <2>4, <3>1, <3>2 DEF LostBounded
  <2> QED BY <1>2, <2>3, <2>4, NextLost
<1> QED BY <1>1, <1>2, BillingInductive, PTL DEF Spec

\* In particular the promise is kept until something fails: no order or overlap
\* of deliveries and other writers loses an event by itself.
THEOREM NothingLostUnlessFailed ==
    ASSUME BillingAssumption PROVE Spec => [](faults = 0 => NothingLost)
<1>1. BillingInv /\ LostBounded /\ faults = 0 => NothingLost
  <2> SUFFICES ASSUME BillingInv, LostBounded, faults = 0,
                      NEW e \in seen, e \notin decided, \A p \in Procs : proc[p] = Idle
               PROVE  FALSE
    BY DEF NothingLost
  <2>1. e \in Lost
    BY DEF Lost, Handles, Handling, Idle
  <2>2. IsFiniteSet(Lost)
    <3>1. Lost \subseteq Events
      BY DEF Lost, BillingInv, RowInv
    <3> QED BY <3>1, FS_Subset DEF BillingAssumption
  <2>3. Cardinality(Lost) = 0
    BY <2>2, FS_CardinalityType DEF LostBounded
  <2> QED BY <2>1, <2>2, <2>3, FS_EmptySet
<1>2. Spec => []BillingInv
  BY BillingInductive, PTL DEF Spec
<1> QED BY <1>1, <1>2, LostOnlyByFailure, PTL
=============================================================================
