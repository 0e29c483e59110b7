------------------------------ MODULE EasyApply ------------------------------
(***************************************************************************)
(* Applying on LinkedIn: the content script of each tab, the background    *)
(* service worker, the panel's Easy Apply view (routes/EasyApply.tsx) and  *)
(* the backend's plans and applications.                                   *)
(*                                                                         *)
(* The worker's easyApplyTabId is left out, with the handlers of           *)
(* EASY_APPLY_FORM that sets it and of EASY_APPLY_START_FILL that reads    *)
(* it: no message of the latter kind reaches the worker.                   *)
(***************************************************************************)
CONSTANTS
    Jobs,       \* jobs on LinkedIn, each with its radar item
    Tabs, NoJob

VARIABLES
    page,       \* the job each tab shows and whether its form is open
    sent,       \* confirmations on their way to the worker, by tab
    view,       \* the panel's Easy Apply view; asked: it waits for its approval
    approving,  \* items with a request to approve their plan under way
    fill,       \* what became of the fill instructions of each item's plan
    appliedFor, \* LinkedIn: jobs the user has applied for
    recorded,   \* backend: items with an application
    \* an observation:
    crossed     \* items shown while another job's form was confirmed

easyVars == <<page, sent, view, approving, fill, appliedFor, recorded, crossed>>

NoView == [item |-> NoJob, plan |-> "none", asked |-> FALSE,
           approved |-> FALSE, submitted |-> FALSE, port |-> FALSE]

EasyTypeOK ==
    /\ page \in [Tabs -> [job : Jobs, form : BOOLEAN]]
    /\ sent \subseteq Tabs
    /\ view \in [item : Jobs \cup {NoJob}, plan : {"none", "loading", "ready", "error"},
                 asked : BOOLEAN, approved : BOOLEAN, submitted : BOOLEAN, port : BOOLEAN]
    /\ approving \subseteq Jobs /\ appliedFor \subseteq Jobs
    /\ recorded \subseteq Jobs /\ crossed \subseteq Jobs
    /\ fill \in [Jobs -> {"none", "sent", "dropped"}]

EasyInit ==
    /\ page \in [Tabs -> [job : Jobs, form : {FALSE}]]
    /\ sent = {} /\ view = NoView
    /\ approving = {} /\ appliedFor = {} /\ recorded = {} /\ crossed = {}
    /\ fill = [i \in Jobs |-> "none"]

-----------------------------------------------------------------------------
(* LinkedIn and the content script *)

Browse(t) ==
    /\ \E j \in Jobs : page' = [page EXCEPT ![t] = [job |-> j, form |-> FALSE]]
    /\ UNCHANGED <<sent, view, approving, fill, appliedFor, recorded, crossed>>

OpenForm(t) ==
    /\ page' = [page EXCEPT ![t].form = TRUE]
    /\ UNCHANGED <<sent, view, approving, fill, appliedFor, recorded, crossed>>

\* The user clicks Submit; the observer sees the confirmation and sends
\* EASY_APPLY_SUBMITTED, which names no job.
Submit(t) ==
    /\ page[t].form
    /\ page' = [page EXCEPT ![t].form = FALSE]
    /\ appliedFor' = appliedFor \cup {page[t].job}
    /\ sent' = sent \cup {t}
    /\ UNCHANGED <<view, approving, fill, recorded, crossed>>

(* The service worker *)

\* The confirmation is posted to every connected port.
Confirm(t) ==
    /\ t \in sent
    /\ sent' = sent \ {t}
    /\ view' = [view EXCEPT !.submitted = @ \/ view.port]
    /\ crossed' = IF view.port THEN crossed \cup ({view.item} \ appliedFor) ELSE crossed
    /\ UNCHANGED <<page, approving, fill, appliedFor, recorded>>

\* Chrome stops the worker: its ports are closed, and the view does not
\* connect again.
WorkerStops ==
    /\ view.port
    /\ view' = [view EXCEPT !.port = FALSE]
    /\ UNCHANGED <<page, sent, approving, fill, appliedFor, recorded, crossed>>

-----------------------------------------------------------------------------
(* The view *)

\* mutant: the view shows another item without being made anew.
OpenViewReused(i) ==
    /\ view' = [view EXCEPT !.item = i, !.plan = "loading", !.port = TRUE]
    /\ UNCHANGED <<page, sent, approving, fill, appliedFor, recorded, crossed>>

\* /easy-apply?radarItemId=i, from another route: the view is mounted, its
\* port connected and a plan asked for. Were its parameter changed in place,
\* the view would keep approved and submitted; no route of the panel does so.
OpenView(i) ==
    /\ view = NoView
    /\ view' = [NoView EXCEPT !.item = i, !.plan = "loading", !.port = TRUE]
    /\ UNCHANGED <<page, sent, approving, fill, appliedFor, recorded, crossed>>

LeaveView ==
    /\ view # NoView
    /\ view' = NoView
    /\ UNCHANGED <<page, sent, approving, fill, appliedFor, recorded, crossed>>

PlanArrives ==
    /\ view.plan = "loading"
    /\ \E state \in {"ready", "error"} : view' = [view EXCEPT !.plan = state]
    /\ UNCHANGED <<page, sent, approving, fill, appliedFor, recorded, crossed>>

\* handleApprove, up to its request, which outlives the view.
Approve ==
    /\ view.plan = "ready" /\ ~view.approved
    /\ view' = [view EXCEPT !.asked = TRUE]
    /\ approving' = approving \cup {view.item}
    /\ UNCHANGED <<page, sent, fill, appliedFor, recorded, crossed>>

Asking(i) == view.item = i /\ view.asked

ApproveFails(i) ==
    /\ i \in approving
    /\ approving' = approving \ {i}
    /\ view' = [view EXCEPT !.asked = @ /\ ~Asking(i)]
    /\ UNCHANGED <<page, sent, fill, appliedFor, recorded, crossed>>

\* runtimeCall: three kinds of message go to the worker; a kind without a
\* route to the backend is answered with an error, which nobody reads.
ToWorker == {"JOB_CAPTURE", "EMAIL_CAPTURE", "OPEN_SIDEPANEL"}
Delivered(type) == IF type \in ToWorker THEN "sent" ELSE "dropped"

\* The view that asked says that Quinn filled the form; the instructions are
\* handed over.
Approved(i) ==
    /\ i \in approving
    /\ approving' = approving \ {i}
    /\ view' = [view EXCEPT !.asked = @ /\ ~Asking(i), !.approved = @ \/ Asking(i)]
    /\ fill' = [fill EXCEPT ![i] = Delivered("EASY_APPLY_START_FILL")]
    /\ UNCHANGED <<page, sent, appliedFor, recorded, crossed>>

\* handleRecordSubmission: apply/submit for the item of the view.
Record ==
    /\ view.plan = "ready" /\ view.submitted
    /\ recorded' = recorded \cup {view.item}
    /\ UNCHANGED <<page, sent, view, approving, fill, appliedFor, crossed>>

EasyNext ==
    \/ \E t \in Tabs : Browse(t) \/ OpenForm(t) \/ Submit(t) \/ Confirm(t)
    \/ \E i \in Jobs : OpenView(i) \/ ApproveFails(i) \/ Approved(i)
    \/ WorkerStops \/ LeaveView \/ PlanArrives \/ Approve \/ Record

EasySpec == EasyInit /\ [][EasyNext]_easyVars

-----------------------------------------------------------------------------
\* An application is recorded for a job the user has applied for, unless
\* another job's form was confirmed while the view showed the item.
RecordedWasApplied == recorded \subseteq appliedFor \cup crossed

\* What docs/manual-verification-handbook.md expects of Approve & Fill, and
\* what the view says: the form has been sent its instructions.
FilledAsShown == view.approved => fill[view.item] = "sent"
=============================================================================
