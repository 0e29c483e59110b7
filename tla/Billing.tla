------------------------------ MODULE Billing -------------------------------
(***************************************************************************)
(* One user's subscription row and everything that writes it: Stripe's     *)
(* webhook events (infra.controller.ts, billing.service.ts), delivered at  *)
(* least once, in any order and several at a time; the success page        *)
(* (finalizeCheckout), the resume button (resumeSubscription) and the      *)
(* support console (forceDormant). Each of them loads the row, may wait    *)
(* for Stripe, and saves it (EntitySave).                                  *)
(*                                                                         *)
(* The clock runs in parts of a second; Stripe's timestamps are in whole   *)
(* seconds and lastEventAt is compared in milliseconds.                    *)
(***************************************************************************)
EXTENDS Integers, FiniteSets, EntitySave

CONSTANTS
    Events,         \* event ids: numbers, in the lexicographic order of the ids
    Kind,           \* type of each event
    OccursAt,       \* instant each event is created at
    Outcome,        \* state of the subscription the event tells of
    Tier,           \* tier of the price it names
    PerSecond,      \* instants per second
    Procs,          \* deliveries and requests that may be in flight at once
    \* bounds: the last instant, the number of failures, and of writes by
    \* the success page, the resume button and support:
    Now, MaxFaults, MaxWrites

Kinds == {"subscription", "deleted", "checkout", "paid", "failed"}
ByUser == {"subscription", "checkout"}      \* found by the metadata's user id
States == {"ACTIVE", "PAUSED", "PAST_DUE", "CANCELLED"}
Tiers == {"FREE", "PRO"}
Session == 0        \* a checkout session id: "cs_..." sorts before "evt_..."
NoEvent == 0        \* what a writer handles that is no webhook delivery
Never == -1         \* lastEventAt is null

ASSUME BillingAssumption ==
    /\ Events \subseteq Nat \ {Session} /\ IsFiniteSet(Events)
    /\ Kind \in [Events -> Kinds] /\ OccursAt \in [Events -> Nat]
    /\ Outcome \in [Events -> States] /\ Tier \in [Events -> Tiers]
    /\ \A e \in Events : /\ Kind[e] = "deleted" => Outcome[e] = "CANCELLED"
                         /\ Kind[e] \in {"checkout", "paid"} => Outcome[e] = "ACTIVE"
                         /\ Kind[e] = "failed" => Outcome[e] = "PAST_DUE"
                         /\ Kind[e] = "subscription" => Outcome[e] # "PAST_DUE"
    /\ PerSecond \in Nat \ {0} /\ Now \in Nat /\ MaxFaults \in Nat /\ MaxWrites \in Nat

VARIABLES
    now,
    row,        \* the billing_subscriptions row
    seen,       \* events recorded in iam_webhook_events
    proc,       \* what each delivery or request is doing
    faults, writes,
    \* observations:
    saves,      \* how often each event was written to the row
    decided,    \* events whose handler ran to its end
    missed,     \* of these, events that came before the link they need
    undisturbed \* so far the row was written by deliveries only, each of
                \* which found it as it had loaded it

vars == <<now, row, seen, proc, faults, writes, saves, decided, missed, undisturbed>>
observations == <<saves, decided, missed, undisturbed>>

Idle == [pc |-> "idle"]
Row == [linked : BOOLEAN, tier : Tiers, state : States,
        at : Never..Now, id : Events \cup {Session}]

TypeOK ==
    /\ now \in 0..Now
    /\ row \in Row
    /\ seen \subseteq Events /\ decided \subseteq seen /\ missed \subseteq decided
    /\ proc \in [Procs -> {Idle} \cup [pc : {"dedup", "find"}, ev : Events]
                    \cup [pc : {"retrieve", "save"}, ev : Events \cup {NoEvent},
                          was : Row, row : Row]
                    \cup [pc : {"update"}, ev : Events \cup {NoEvent}, was : Row, row : Row,
                          columns : SUBSET {"linked", "tier", "state", "at", "id"}]]
    /\ saves \in [Events -> Nat] /\ undisturbed \in BOOLEAN
    /\ faults \in 0..MaxFaults /\ writes \in 0..MaxWrites

Init ==
    /\ now = 0
    /\ row = [linked |-> FALSE, tier |-> "FREE", state |-> "ACTIVE",
              at |-> Never, id |-> Session]
    /\ seen = {} /\ decided = {} /\ missed = {}
    /\ proc = [p \in Procs |-> Idle]
    /\ saves = [e \in Events |-> 0] /\ undisturbed = TRUE
    /\ faults = 0 /\ writes = 0

InMillis(e) == OccursAt[e] * 1000       \* mutant: wrong unit
Created(e) == (OccursAt[e] \div PerSecond) * PerSecond

\* shouldApplyEvent: later second wins, then the greater id.
Later(at, id, r) == at > r.at \/ (at = r.at /\ id > r.id)
ShouldApplyOnTie(e, r) == Created(e) >= r.at        \* mutant: no tie-breaker
ShouldApplyAlways(e, r) == TRUE                     \* mutant: no watermark
ShouldApply(e, r) == Later(Created(e), e, r)

\* Whether the handler of an event finds the row: by the user, or by the
\* Stripe subscription that a checkout or subscription event has linked.
Finds(e) == Kind[e] \in ByUser \/ row.linked

\* payment_succeeded has something to say on two states only.
Applies(e, r) ==
    /\ ShouldApply(e, r)
    /\ Kind[e] = "paid" => r.state \in {"PAUSED", "PAST_DUE"}

\* What handleStripeEvent makes of the row it loaded.
Apply(e, r) == [linked |-> r.linked \/ Kind[e] \in ByUser,
                tier |-> IF Kind[e] \in ByUser THEN Tier[e] ELSE r.tier,
                state |-> Outcome[e],
                at |-> Created(e), id |-> e]

Set(p, state) == proc' = [proc EXCEPT ![p] = state]

-----------------------------------------------------------------------------
(* POST webhooks/stripe *)

Deliver(p, e) ==
    /\ proc[p] = Idle
    /\ OccursAt[e] <= now
    /\ Set(p, [pc |-> "dedup", ev |-> e])
    /\ UNCHANGED <<now, row, seen, faults, writes, observations>>

\* mutant: the conflict is not noticed (the raw result is not looked at).
DedupUnnoticed(p) ==
    /\ proc[p].pc = "dedup"
    /\ seen' = seen \cup {proc[p].ev}
    /\ Set(p, [proc[p] EXCEPT !.pc = "find"])
    /\ UNCHANGED <<now, row, faults, writes, observations>>

\* INSERT ... ON CONFLICT DO NOTHING, committed before the event is handled.
Dedup(p) ==
    /\ proc[p].pc = "dedup"
    /\ seen' = seen \cup {proc[p].ev}
    /\ Set(p, IF proc[p].ev \in seen THEN Idle ELSE [proc[p] EXCEPT !.pc = "find"])
    /\ UNCHANGED <<now, row, faults, writes, observations>>

\* Load the row and decide; a checkout goes on to ask Stripe for the price.
Find(p) ==
    /\ proc[p].pc = "find"
    /\ LET e == proc[p].ev
           applies == Finds(e) /\ Applies(e, row)
       IN /\ Set(p, IF applies
                    THEN [pc |-> IF Kind[e] = "checkout" THEN "retrieve" ELSE "save",
                          ev |-> e, was |-> row, row |-> Apply(e, row)]
                    ELSE Idle)
          /\ decided' = IF applies THEN decided ELSE decided \cup {e}
          /\ missed' = IF Finds(e) THEN missed ELSE missed \cup {e}
    /\ UNCHANGED <<now, row, seen, faults, writes, saves, undisturbed>>

Retrieve(p) ==
    /\ proc[p].pc = "retrieve"
    /\ Set(p, [proc[p] EXCEPT !.pc = "save"])
    /\ UNCHANGED <<now, row, seen, faults, writes, observations>>

\* repo.save: select the row, update the columns that differ.
SaveSelect(p) ==
    /\ proc[p].pc = "save"
    /\ Set(p, [pc |-> "update", ev |-> proc[p].ev, was |-> proc[p].was, row |-> proc[p].row,
               columns |-> Changed(row, proc[p].row)])
    /\ UNCHANGED <<now, row, seen, faults, writes, observations>>

\* The row is not the one that was loaded, or was not when it was selected.
Overtaken(p) ==
    /\ proc[p].pc = "update"
    /\ proc[p].was # row \/ proc[p].columns # Changed(proc[p].was, proc[p].row)

SaveUpdate(p) ==
    /\ proc[p].pc = "update"
    /\ row' = Updated(row, proc[p].row, proc[p].columns)
    /\ saves' = [e \in Events |-> saves[e] + IF e = proc[p].ev THEN 1 ELSE 0]
    /\ decided' = decided \cup ({proc[p].ev} \ {NoEvent})
    /\ undisturbed' = (undisturbed /\ proc[p].ev # NoEvent /\ ~Overtaken(p))
    /\ Set(p, Idle)
    /\ UNCHANGED <<now, seen, faults, writes, missed>>

-----------------------------------------------------------------------------
(* The other writers: load the row, change it, write it back. *)

BeginWrite(p, r) ==
    /\ proc[p] = Idle
    /\ writes < MaxWrites /\ writes' = writes + 1
    /\ Set(p, [pc |-> "save", ev |-> NoEvent, was |-> row, row |-> r])
    /\ UNCHANGED <<now, row, seen, faults, observations>>

\* finalizeCheckout, for a session that was paid: the tier of its price,
\* stamped with this server's clock and the session's id.
FinalizeCheckout(p) ==
    \E tier \in Tiers : BeginWrite(p, [linked |-> TRUE, tier |-> tier, state |-> "ACTIVE",
                                       at |-> now, id |-> Session])

\* resumeSubscription: asks Stripe only when paused, but always writes ACTIVE.
ResumeSubscription(p) == BeginWrite(p, [row EXCEPT !.state = "ACTIVE"])

ForceDormant(p) == BeginWrite(p, [row EXCEPT !.state = "CANCELLED", !.tier = "FREE"])

-----------------------------------------------------------------------------
\* The database or Stripe fails, or the process dies; the sender gets no 2xx.
Fails(p) ==
    /\ proc[p] # Idle
    /\ faults < MaxFaults
    /\ faults' = faults + 1
    /\ Set(p, Idle)
    /\ UNCHANGED <<now, row, seen, writes, observations>>

Tick ==
    /\ now < Now
    /\ now' = now + 1
    /\ UNCHANGED <<row, seen, proc, faults, writes, observations>>

Progress(p) == Dedup(p) \/ Find(p) \/ Retrieve(p) \/ SaveSelect(p) \/ SaveUpdate(p)

Next ==
    \/ Tick
    \/ \E p \in Procs, e \in Events : Deliver(p, e)
    \/ \E p \in Procs : Progress(p) \/ Fails(p)
    \/ \E p \in Procs : FinalizeCheckout(p) \/ ResumeSubscription(p) \/ ForceDormant(p)

Spec == Init /\ [][Next]_vars

-----------------------------------------------------------------------------
(* Properties *)

\* However often an event is delivered, also to two instances at once, it is
\* written to the row at most once.
AppliedOnce == \A e \in Events : saves[e] <= 1

\* shouldApplyEvent: once an event is applied, no earlier one is, and the
\* success page moves the watermark on, at worst by nothing. The one thing
\* that turns it back is a save whose row another writer has changed between
\* its load and its update.
WatermarkMonotone ==
    [][\/ row'.at = row.at /\ row'.id = row.id
       \/ Later(row'.at, row'.id, row)
       \/ row'.id = Session /\ row'.at >= row.at
       \/ \E p \in Procs : Overtaken(p) /\ proc'[p] = Idle]_vars

\* "Later created timestamp wins": when every event has been handled, in
\* whatever order, the row shows the state the latest of them tells of, if
\* the row was not disturbed and that event did not come before the link it
\* finds the row by. A payment is no such event: one that had nothing to say
\* leaves no mark, and an earlier event may come after it.
After(e, f) == Later(Created(e), e, [at |-> Created(f), id |-> f])
Latest(e) == \A f \in Events \ {e} : After(e, f)
LatestWins ==
    decided = Events /\ undisturbed =>
        \A e \in Events : Latest(e) /\ e \notin missed /\ Kind[e] # "paid" => row.state = Outcome[e]

\* The handler of a recorded event ran to its end, or is still running: the
\* duplicate that is skipped "was already processed".
NothingLost ==
    \A e \in seen : e \in decided \/ \E p \in Procs : proc[p] # Idle
=============================================================================
