--------------------------- MODULE Recommendation ----------------------------
(***************************************************************************)
(* Daily recommendations: the mailing that every backend instance runs     *)
(* (recommendation-mailer.service.ts), the rows it and the users' requests *)
(* build, and the clicks and feedback that are merged into a row's JSON    *)
(* column (recommendation.service.ts, recommendation.controller.ts).       *)
(***************************************************************************)
EXTENDS Naturals, FiniteSets

CONSTANTS
    Mailers,    \* backend instances
    Readers,    \* users
    Replies,    \* requests of clicks and feedback, several at a time
    MaxDay, MaxRecos, MaxChanges    \* bounds

ASSUME RecommendationAssumption ==
    /\ IsFiniteSet(Mailers)
    /\ MaxDay \in Nat /\ MaxRecos \in Nat /\ MaxChanges \in Nat

VARIABLES
    today,
    paying,     \* readers with an ACTIVE subscription that is not FREE
    mailing,    \* what each instance's run is doing
    mailedDay,  \* the day of each instance's latest run
    recos,      \* reco_recommendations: numbered, with their owner
    feedback,   \* the keys of each row's JSON column
    mails,      \* mails sent: the reader, the row linked, the links' day, the run
    reply,      \* what each request is doing
    changes,
    \* an observation:
    overlapped  \* rows of which two requests held a copy at once

recoVars == <<today, paying, mailing, mailedDay, recos, feedback, mails, reply, changes, overlapped>>

Recos == 1..MaxRecos
Days == 0..MaxDay
Keys == {"clickedAt", "liked", "reason"}
MailingIdle == [pc |-> "idle"]
ReplyIdle == [pc |-> "idle"]

RecoTypeOK ==
    /\ today \in Days /\ paying \subseteq Readers
    /\ \A m \in Mailers :
          \/ mailing[m] = MailingIdle
          \/ /\ mailing[m].pc \in {"next", "build", "send"}
             /\ mailing[m].left \subseteq Readers /\ mailing[m].day \in Days
             /\ mailing[m].pc # "next" => mailing[m].user \in Readers
             /\ mailing[m].pc = "send" => mailing[m].reco \in Recos
    /\ mailedDay \in [Mailers -> 0..(MaxDay + 1)]
    /\ recos \subseteq [id : Recos, user : Readers]
    /\ feedback \in [Recos -> SUBSET Keys]
    /\ mails \subseteq [user : Readers, reco : Recos, day : Days, by : Mailers, run : Days]
    /\ reply \in [Replies -> {ReplyIdle} \cup [pc : {"save"}, reco : Recos, keys : SUBSET Keys]]
    /\ changes \in 0..MaxChanges /\ overlapped \subseteq Recos

RecoInit ==
    /\ today = 0 /\ paying \in SUBSET Readers
    /\ mailing = [m \in Mailers |-> MailingIdle]
    /\ mailedDay = [m \in Mailers |-> 0]
    /\ recos = {} /\ mails = {}
    /\ feedback = [r \in Recos |-> {}]
    /\ reply = [q \in Replies |-> ReplyIdle]
    /\ changes = 0 /\ overlapped = {}

-----------------------------------------------------------------------------
NextDay ==
    /\ today < MaxDay
    /\ today' = today + 1
    /\ UNCHANGED <<paying, mailing, mailedDay, recos, feedback, mails, reply, changes, overlapped>>

\* A subscription begins or ends.
Subscribes(u) ==
    /\ changes < MaxChanges
    /\ changes' = changes + 1
    /\ paying' = (paying \ {u}) \cup ({u} \ paying)
    /\ UNCHANGED <<today, mailing, mailedDay, recos, feedback, mails, reply, overlapped>>

(* dispatchDailyRecommendations *)

SetMailing(m, state) == mailing' = [mailing EXCEPT ![m] = state]

\* @Cron('0 8 * * *'): the subscriptions are read once.
StartMailing(m) ==
    /\ mailing[m] = MailingIdle /\ mailedDay[m] < today + 1
    /\ mailedDay' = [mailedDay EXCEPT ![m] = today + 1]
    /\ SetMailing(m, [pc |-> "next", left |-> paying, day |-> today])
    /\ UNCHANGED <<today, paying, recos, feedback, mails, reply, changes, overlapped>>

\* The next subscriber; one that is not active, or has no address, is left out.
NextReader(m) ==
    /\ mailing[m].pc = "next"
    /\ IF mailing[m].left = {} THEN SetMailing(m, MailingIdle)
       ELSE \E u \in mailing[m].left :
               LET rest == [mailing[m] EXCEPT !.left = @ \ {u}]
               IN \/ SetMailing(m, rest)
                  \/ SetMailing(m, [pc |-> "build", left |-> rest.left, day |-> rest.day, user |-> u])
    /\ UNCHANGED <<today, paying, mailedDay, recos, feedback, mails, reply, changes, overlapped>>

NextReco == Cardinality(recos) + 1
AddReco(u) ==
    /\ NextReco \in Recos
    /\ recos' = recos \cup {[id |-> NextReco, user |-> u]}

TakeNext(m) == SetMailing(m, [pc |-> "next", left |-> mailing[m].left, day |-> mailing[m].day])
Mailed(m) == mails \cup {[user |-> mailing[m].user, reco |-> mailing[m].reco, day |-> today,
                          by |-> m, run |-> mailing[m].day]}

\* buildDailyRecommendations; a row without items is not mailed.
BuildReco(m) ==
    /\ mailing[m].pc = "build"
    /\ AddReco(mailing[m].user)
    /\ \/ TakeNext(m)
       \/ SetMailing(m, [pc |-> "send", left |-> mailing[m].left, day |-> mailing[m].day,
                         user |-> mailing[m].user, reco |-> NextReco])
    /\ UNCHANGED <<today, paying, mailedDay, feedback, mails, reply, changes, overlapped>>

\* That the mail is sent is noted on the object only.
SendMail(m) ==
    /\ mailing[m].pc = "send"
    /\ mails' = Mailed(m)
    /\ TakeNext(m)
    /\ UNCHANGED <<today, paying, mailedDay, recos, feedback, reply, changes, overlapped>>

\* mutant: a reader whose mail failed is tried again.
MailFailsAgain(m) ==
    /\ mailing[m].pc \in {"build", "send"}
    /\ SetMailing(m, [pc |-> "next", left |-> mailing[m].left \cup {mailing[m].user},
                      day |-> mailing[m].day])
    /\ UNCHANGED mails \/ (mailing[m].pc = "send" /\ mails' = Mailed(m))
    /\ UNCHANGED <<today, paying, mailedDay, recos, feedback, reply, changes, overlapped>>

\* What fails for one reader is logged, and the next one is taken. The mail
\* server may have taken the mail and its answer be lost.
MailFails(m) ==
    /\ \/ mailing[m].pc \in {"build", "send"} /\ UNCHANGED mails
       \/ mailing[m].pc = "send" /\ mails' = Mailed(m)
    /\ TakeNext(m)
    /\ UNCHANGED <<today, paying, mailedDay, recos, feedback, reply, changes, overlapped>>

\* The database fails outside the loop's try, or the instance stops.
MailingStops(m) ==
    /\ mailing[m] # MailingIdle
    /\ SetMailing(m, MailingIdle)
    /\ UNCHANGED <<today, paying, mailedDay, recos, feedback, mails, reply, changes, overlapped>>

-----------------------------------------------------------------------------
(* Requests *)

\* POST recommendations/build, as often as the user likes.
Build(u) ==
    /\ AddReco(u)
    /\ UNCHANGED <<today, paying, mailing, mailedDay, feedback, mails, reply, changes, overlapped>>

\* recordFeedback: a copy of the row is loaded, the given keys are spread over
\* its column, the copy is saved.
Load(q, r, keys) ==
    /\ reply[q] = ReplyIdle
    /\ reply' = [reply EXCEPT ![q] = [pc |-> "save", reco |-> r, keys |-> keys]]
    /\ overlapped' = IF \E other \in Replies : reply[other].pc = "save" /\ reply[other].reco = r
                     THEN overlapped \cup {r} ELSE overlapped
    /\ UNCHANGED <<today, paying, mailing, mailedDay, recos, feedback, mails, changes>>

\* verifyTrackingId: the links of a mail are good on the day they were made.
Click(q, mail) == mail.day = today /\ Load(q, mail.reco, feedback[mail.reco] \cup {"clickedAt"})

\* mutant: feedback replaces the column.
FeedbackReplaces(q, r, given) == Load(q, r, given)

\* A key that the request leaves out is there with no value: JSON drops it.
Feedback(q, r, given) == Load(q, r, (feedback[r] \ {"liked", "reason"}) \cup given)

SaveFeedback(q) ==
    /\ reply[q].pc = "save"
    /\ feedback' = [feedback EXCEPT ![reply[q].reco] = reply[q].keys]
    /\ reply' = [reply EXCEPT ![q] = ReplyIdle]
    /\ UNCHANGED <<today, paying, mailing, mailedDay, recos, mails, changes, overlapped>>

ReplyFails(q) ==
    /\ reply[q] # ReplyIdle
    /\ reply' = [reply EXCEPT ![q] = ReplyIdle]
    /\ UNCHANGED <<today, paying, mailing, mailedDay, recos, feedback, mails, changes, overlapped>>

-----------------------------------------------------------------------------
RecoNext ==
    \/ NextDay
    \/ \E u \in Readers : Subscribes(u) \/ Build(u)
    \/ \E m \in Mailers : StartMailing(m) \/ NextReader(m) \/ BuildReco(m) \/ SendMail(m)
                             \/ MailFails(m) \/ MailingStops(m)
    \/ \E q \in Replies :
          \/ \E mail \in mails : Click(q, mail)
          \/ \E r \in recos, given \in SUBSET {"liked", "reason"} : Feedback(q, r.id, given)
          \/ SaveFeedback(q) \/ ReplyFails(q)

RecoSpec == RecoInit /\ [][RecoNext]_recoVars

-----------------------------------------------------------------------------
\* Nothing on the row says that it was mailed, and nothing keeps two instances
\* apart: still no reader gets more mails for a day than there are instances,
\* whatever fails and also when a run goes on past midnight.
MailsBounded ==
    \A u \in Readers, d \in Days :
        Cardinality({mail \in mails : mail.user = u /\ mail.run = d}) <= Cardinality(Mailers)

\* That a recommendation was clicked is forgotten only when two requests for
\* it overlap; later feedback does not wipe it out.
ClickLostOnlyByOverlap ==
    [][\A r \in Recos : "clickedAt" \in feedback[r] =>
          "clickedAt" \in feedback'[r] \/ r \in overlapped]_recoVars
=============================================================================
