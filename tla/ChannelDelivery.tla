---------------------------- MODULE ChannelDelivery ----------------------------
(***************************************************************************)
(* The delivery of one Facebook or WhatsApp job: app/channels/delivery.py, *)
(* driven by the worker loop, beside the webhook that receives message     *)
(* receipts and opt-outs (app/channels/webhooks.py) and the dashboard      *)
(* operations on the job (approval, text edit, cancel).                    *)
(*                                                                         *)
(* A job has one channel_delivery_attempts row per recipient; a Facebook   *)
(* job is the case of a single recipient that never opts out.  A worker    *)
(* locks the job row, but only until its first commit: from then on it     *)
(* relies on the rows it claims.                                           *)
(***************************************************************************)
EXTENDS Naturals, FiniteSets

CONSTANTS
    Recipients,
    Workers,
    None,
    MaxPublishAttempts,   \* settings.max_publish_attempts
    Perils                \* what else this instance admits; see AllPerils

\* "garbled": Meta accepts a message but its answer is no JSON or names no id
\* "receipts": the webhook reports that a message was sent, delivered or read
\*     before the job is published or while a worker is still at it
\* "undelivered": the webhook reports that a message could not be delivered
\* "opt_out": recipients opt out while the job is worked on
\* "overtaken": two workers find the same row of an earlier, failed call
AllPerils == {"garbled", "receipts", "undelivered", "opt_out", "overtaken"}

ASSUME ConstantsAssumption ==
    /\ None \notin Workers \cup Recipients
    /\ MaxPublishAttempts \in Nat \ {0}
    /\ Perils \subseteq AllPerils

VARIABLES
    job,       \* the publication_jobs row
    lock,      \* the worker holding its row lock (SELECT ... FOR UPDATE), or None
    row,       \* channel_delivery_attempts per recipient
    opted,     \* recipients that are active with a confirmed opt-in
    stop,      \* the global emergency stop
    draft,     \* a dashboard request between its reads and its commit
    sess,      \* where each worker's cycle is
    stray,     \* requests per recipient on the wire that nobody waits for
    accepted   \* messages Meta accepted per recipient (saturates at Many)

outside == <<stray, accepted>>
vars    == <<job, lock, row, opted, stop, draft, sess, stray, accepted>>

Many == 2   \* bound: two and more are told apart from none and one only
AddOne(f, r) == [f EXCEPT ![r] = IF @ < Many THEN @ + 1 ELSE @]

-----------------------------------------------------------------------------
JobStatus == {"scheduled", "retry", "published", "uncertain", "failed",
              "cancelled", "unapproved"}
\* "delivered" stands for delivered and read; "sent" for published (Facebook)
RowStatus == {"none", "processing", "sent", "uncertain", "failed", "delivered"}

Requests == {"none", "cancel", "edit", "approve", "deselect"}

Job     == [status: JobStatus, approved: BOOLEAN, platform: BOOLEAN,
            attempts: 0..MaxPublishAttempts, resting: BOOLEAN]
Row     == [status: RowStatus, id: BOOLEAN]
Session == [pc: {"idle", "listed", "looking", "claiming", "claimed", "awaiting",
                 "failing", "settling"},
            todo: SUBSET Recipients, cur: Recipients \cup {None},
            existed: BOOLEAN,
            answer: {"none", "pending", "accepted", "dropped"},
            verdict: {"none", "failed", "uncertain", "published"}]

Idle == [pc |-> "idle", todo |-> {}, cur |-> None, existed |-> FALSE,
         answer |-> "none", verdict |-> "none"]

\* The job is created by the approval that schedules it.
Init ==
    /\ job = [status |-> "scheduled", approved |-> TRUE, platform |-> FALSE,
              attempts |-> 0, resting |-> FALSE]
    /\ lock = None
    /\ row = [r \in Recipients |-> [status |-> "none", id |-> FALSE]]
    /\ opted \in SUBSET Recipients
    /\ stop = FALSE
    /\ draft = "none"
    /\ sess = [w \in Workers |-> Idle]
    /\ stray = [r \in Recipients |-> 0]
    /\ accepted = [r \in Recipients |-> 0]

Goto(w, state) == sess' = [sess EXCEPT ![w] = state]
At(w, pc)      == [sess[w] EXCEPT !.pc = pc]
Leave(w)       == Goto(w, Idle)
Fail(w, verdict) == Goto(w, [Idle EXCEPT !.pc = "failing", !.verdict = verdict])

Unlock(w) == lock' = IF lock = w THEN None ELSE lock
SetRow(r, status) == row' = [row EXCEPT ![r].status = status]

-----------------------------------------------------------------------------
(* The cycle: candidates, gates, recipients.                               *)

\* _candidate_ids; the emergency stop is not part of the query
ListDue(w) ==
    /\ sess[w].pc = "idle"
    /\ job.status \in {"scheduled", "retry"}
    /\ job.approved
    /\ ~job.platform
    /\ ~job.resting
    /\ Goto(w, At(w, "listed"))
    /\ UNCHANGED <<job, lock, row, opted, stop, draft, outside>>

\* _assert_gates
GatesPass ==
    /\ ~stop
    /\ job.approved
    /\ job.status \in {"scheduled", "retry"}
    /\ ~job.resting
    /\ ~job.platform

\* SKIP LOCKED: another worker has the row.
SkipLocked(w) ==
    /\ sess[w].pc = "listed"
    /\ lock # None
    /\ Leave(w)
    /\ UNCHANGED <<job, lock, row, opted, stop, draft, outside>>

\* The gates are asked and the recipients read once, for the whole job.
BeginJob(w) ==
    /\ sess[w].pc = "listed"
    /\ lock = None
    /\ GatesPass
    /\ opted # {}
    /\ lock' = w
    /\ Goto(w, [At(w, "looking") EXCEPT !.todo = opted])
    /\ UNCHANGED <<job, row, opted, stop, draft, outside>>

\* ChannelDeliveryError: the transaction is rolled back, the job marked after it.
RefuseJob(w) ==
    /\ sess[w].pc = "listed"
    /\ lock = None
    /\ ~GatesPass \/ opted = {}
    /\ Fail(w, "failed")
    /\ UNCHANGED <<job, lock, row, opted, stop, draft, outside>>

-----------------------------------------------------------------------------
(* One recipient: _attempt and _deliver_one.                               *)

\* Rows in these states are left alone.
Handled == {"processing", "sent", "uncertain"}

\* Another worker is about to try again what failed before.
Overtaken(w, r) ==
    /\ row[r].status # "none"
    /\ \E v \in Workers \ {w} : sess[v].pc = "claiming" /\ sess[v].cur = r

LookUp(w, r) ==
    /\ sess[w].pc = "looking"
    /\ r \in sess[w].todo
    /\ Overtaken(w, r) => "overtaken" \in Perils
    /\ Goto(w, IF row[r].status \in Handled
               THEN [sess[w] EXCEPT !.todo = @ \ {r}]
               ELSE [At(w, "claiming") EXCEPT !.cur = r, !.existed = row[r].status # "none"])
    /\ UNCHANGED <<job, lock, row, opted, stop, draft, outside>>

\* A second row of the same idempotency key is an IntegrityError; an existing
\* row is overwritten without looking at it again.
InsertLost(w) == ~sess[w].existed /\ row[sess[w].cur].status # "none"

\* The commit releases the job's row lock.
Claim(w) ==
    LET r == sess[w].cur IN
    /\ sess[w].pc = "claiming"
    /\ IF InsertLost(w)
       THEN /\ Goto(w, [At(w, "looking") EXCEPT !.todo = @ \ {r}, !.cur = None])
            /\ UNCHANGED row
       ELSE /\ SetRow(r, "processing")
            /\ Goto(w, [At(w, "claimed") EXCEPT !.existed = FALSE])
    /\ Unlock(w)
    /\ UNCHANGED <<job, opted, stop, draft, outside>>

Send(w) ==
    /\ sess[w].pc = "claimed"
    /\ Goto(w, [At(w, "awaiting") EXCEPT !.answer = "pending"])
    /\ UNCHANGED <<job, lock, row, opted, stop, draft, outside>>

\* External: Meta accepts a request or does not, while its sender waits ...
MetaDecides(w) ==
    /\ sess[w].answer = "pending"
    /\ \/ /\ Goto(w, [sess[w] EXCEPT !.answer = "accepted"])
          /\ accepted' = AddOne(accepted, sess[w].cur)
       \/ /\ Goto(w, [sess[w] EXCEPT !.answer = "dropped"])
          /\ UNCHANGED accepted
    /\ UNCHANGED <<job, lock, row, opted, stop, draft, stray>>

\* ... or long after it gave up.
MetaDecidesStray(r) ==
    /\ stray[r] > 0
    /\ stray' = [stray EXCEPT ![r] = @ - 1]
    /\ accepted' \in {accepted, AddOne(accepted, r)}
    /\ UNCHANGED <<job, lock, row, opted, stop, draft, sess>>

\* What becomes of the request of a session that stops waiting.
Forsake(w) == stray' = IF sess[w].answer = "pending"
                       THEN AddOne(stray, sess[w].cur) ELSE stray

AnswerSent(w) ==
    LET r == sess[w].cur IN
    /\ sess[w].pc = "awaiting"
    /\ sess[w].answer = "accepted"
    /\ row' = [row EXCEPT ![r] = [status |-> "sent", id |-> TRUE]]
    /\ Goto(w, [Idle EXCEPT !.pc = "looking", !.todo = sess[w].todo \ {r}])
    /\ UNCHANGED <<job, lock, opted, stop, draft, outside>>

\* MUTANT: a lost answer is filed as a failure.
AnswerUnclear_Failed(w) ==
    /\ sess[w].pc = "awaiting"
    /\ SetRow(sess[w].cur, "failed")
    /\ Forsake(w)
    /\ Fail(w, "failed")
    /\ UNCHANGED <<job, lock, opted, stop, draft, accepted>>

\* A transport error or a 5xx answer.
AnswerUnclear(w) ==
    /\ sess[w].pc = "awaiting"
    /\ SetRow(sess[w].cur, "uncertain")
    /\ Forsake(w)
    /\ Fail(w, "uncertain")
    /\ UNCHANGED <<job, lock, opted, stop, draft, accepted>>

\* An error before the request (grants, template), a 4xx answer, or (garbled)
\* an accepted request whose answer cannot be read.
AnswerRefused(w) ==
    /\ \/ sess[w].pc = "claimed"
       \/ /\ sess[w].pc = "awaiting"
          /\ \/ sess[w].answer = "dropped"
             \/ sess[w].answer = "accepted" /\ "garbled" \in Perils
    /\ SetRow(sess[w].cur, "failed")
    /\ Fail(w, "failed")
    /\ UNCHANGED <<job, lock, opted, stop, draft, outside>>

-----------------------------------------------------------------------------
(* The job: the end of _deliver_job, and _mark_job_error.                  *)

Rows == {r \in Recipients : row[r].status # "none"}

Tally ==
    IF \E r \in Rows : row[r].status \in {"processing", "uncertain"} THEN "uncertain"
    ELSE IF Rows # {} /\ \A r \in Rows : row[r].status = "sent" THEN "published"
    ELSE "none"

\* The rows are read here; "none" leaves the job as it is, for the next cycle.
TallyRows(w) ==
    /\ sess[w].pc = "looking"
    /\ sess[w].todo = {}
    /\ IF Tally = "none"
       THEN Leave(w) /\ Unlock(w)
       ELSE /\ Goto(w, [Idle EXCEPT !.pc = "settling", !.verdict = Tally])
            /\ UNCHANGED lock
    /\ UNCHANGED <<job, row, opted, stop, draft, outside>>

Settled(verdict) ==
    [job EXCEPT !.status = verdict, !.platform = @ \/ verdict = "published"]

Settle(w) ==
    /\ sess[w].pc = "settling"
    /\ lock \in {None, w}
    /\ job' = Settled(sess[w].verdict)
    /\ Leave(w)
    /\ lock' = None
    /\ UNCHANGED <<row, opted, stop, draft, outside>>

\* MUTANT: a failure is not counted.
Marked_Uncounted(verdict) ==
    IF verdict = "uncertain" THEN [job EXCEPT !.status = "uncertain", !.resting = FALSE]
    ELSE [job EXCEPT !.status = "retry", !.resting = TRUE]

\* Whatever the job has become meanwhile; the count matters up to its maximum.
Marked(verdict) ==
    LET n == IF job.attempts < MaxPublishAttempts
             THEN job.attempts + 1 ELSE MaxPublishAttempts
        retry == verdict = "failed" /\ n < MaxPublishAttempts
    IN [job EXCEPT !.attempts = n,
                   !.resting = retry,
                   !.status = IF retry THEN "retry" ELSE verdict]

MarkError(w) ==
    /\ sess[w].pc = "failing"
    /\ lock = None
    /\ job' = Marked(sess[w].verdict)
    /\ Leave(w)
    /\ UNCHANGED <<lock, row, opted, stop, draft, outside>>

\* The process dies, or an exception nobody catches ends the cycle.
Abandon(w) ==
    /\ sess[w].pc # "idle"
    /\ Leave(w)
    /\ Unlock(w)
    /\ Forsake(w)
    /\ UNCHANGED <<job, row, opted, stop, draft, accepted>>

\* next_attempt_at is reached, 15 minutes later.
RestOver ==
    /\ job.resting
    /\ job' = [job EXCEPT !.resting = FALSE]
    /\ UNCHANGED <<lock, row, opted, stop, draft, sess, outside>>

-----------------------------------------------------------------------------
(* The webhook and the dashboard.                                          *)

\* The job is published and no cycle is at it any more.
Left == job.platform /\ \A w \in Workers : sess[w].pc = "idle"

\* The webhook writes what Meta reports into the row of the message id,
\* whatever the row says.
Receipt(r, status) ==
    /\ row[r].id
    /\ status = "failed" => "undelivered" \in Perils
    /\ status # "failed" => Left \/ "receipts" \in Perils
    /\ SetRow(r, status)
    /\ UNCHANGED <<job, lock, opted, stop, draft, sess, outside>>

\* STOP by message, or a new confirmation.
OptChange(r) ==
    /\ r \in opted => "opt_out" \in Perils
    /\ opted' = (opted \ {r}) \cup ({r} \ opted)
    /\ UNCHANGED <<job, lock, row, stop, draft, sess, outside>>

SetStop(on) ==
    /\ stop # on
    /\ stop' = on
    /\ UNCHANGED <<job, lock, row, opted, draft, sess, outside>>

\* Cancel, edit and approval read the job without a lock, pass it by when it is
\* published, and write it as soon as nobody holds its row lock.
Begin(op) ==
    /\ draft = "none"
    /\ job.status # "published"
    /\ draft' = op
    /\ UNCHANGED <<job, lock, row, opted, stop, sess, outside>>

Commit(op, newJob) ==
    /\ draft = op
    /\ lock = None
    /\ job' = newJob
    /\ draft' = "none"
    /\ UNCHANGED <<lock, row, opted, stop, sess, outside>>

CancelJob == Commit("cancel", [job EXCEPT !.status = "cancelled"])

EditText == Commit("edit", [job EXCEPT !.status = "unapproved", !.approved = FALSE])

\* ensure_approved_channel_jobs.  The approval itself asks about the post's
\* Instagram jobs only, so this may come in any state of the job.
ApproveJob == Commit("approve", [job EXCEPT !.status = "scheduled", !.approved = TRUE])

\* ... for an approval that leaves the channel out.
DeselectJob == Commit("deselect", [job EXCEPT !.status = "cancelled", !.approved = FALSE])

-----------------------------------------------------------------------------
(* The system.                                                             *)

Answer(w) == AnswerSent(w) \/ AnswerUnclear(w) \/ AnswerRefused(w)

WorkerNext(w) ==
    \/ ListDue(w)
    \/ SkipLocked(w)
    \/ BeginJob(w)
    \/ RefuseJob(w)
    \/ \E r \in Recipients : LookUp(w, r)
    \/ Claim(w)
    \/ Send(w)
    \/ Answer(w)
    \/ TallyRows(w)
    \/ Settle(w)
    \/ MarkError(w)
    \/ Abandon(w)

MetaNext ==
    \/ \E w \in Workers : MetaDecides(w)
    \/ \E r \in Recipients : MetaDecidesStray(r)

WebhookNext ==
    \E r \in Recipients :
        \/ \E status \in {"sent", "delivered", "failed"} : Receipt(r, status)
        \/ OptChange(r)

DashboardNext ==
    \/ \E on \in BOOLEAN : SetStop(on)
    \/ \E op \in Requests \ {"none"} : Begin(op)
    \/ CancelJob
    \/ EditText
    \/ ApproveJob
    \/ DeselectJob

Next ==
    \/ \E w \in Workers : WorkerNext(w)
    \/ MetaNext
    \/ RestOver
    \/ WebhookNext
    \/ DashboardNext

Spec == Init /\ [][Next]_vars

\* The loop runs a cycle every few seconds and every call has a timeout.  A
\* worker may die at any time and is restarted, but does not die for ever.
Fairness ==
    /\ WF_vars(RestOver)
    /\ \A w \in Workers :
          /\ <>[][Abandon(w) => SkipLocked(w) \/ TallyRows(w)]_vars
          /\ WF_vars(ListDue(w) \/ SkipLocked(w) \/ BeginJob(w) \/ RefuseJob(w))
          /\ WF_vars(\E r \in Recipients : LookUp(w, r))
          /\ WF_vars(Claim(w) \/ Send(w) \/ Answer(w))
          /\ WF_vars(TallyRows(w) \/ Settle(w) \/ MarkError(w))

FairSpec == Spec /\ Fairness

-----------------------------------------------------------------------------
(* Properties.                                                             *)

\* Every variable stays within its type.
TypeOK ==
    /\ job \in Job
    /\ lock \in Workers \cup {None}
    /\ row \in [Recipients -> Row]
    /\ opted \subseteq Recipients
    /\ stop \in BOOLEAN
    /\ draft \in Requests
    /\ sess \in [Workers -> Session]
    /\ stray \in [Recipients -> 0..Many]
    /\ accepted \in [Recipients -> 0..Many]

\* A released job does not stay due for ever: it is published, becomes unclear
\* or fails for good.
Due == /\ job.status \in {"scheduled", "retry"}
       /\ job.approved
       /\ ~job.platform
       /\ ~stop
JobSettles == []<>(~Due)

-----------------------------------------------------------------------------
(* Every recipient's message is an external write that takes effect once.  *)

Once == INSTANCE OnceOnly WITH
    Targets <- Recipients,
    state   <- [r \in Recipients |->
                   CASE row[r].status \in {"processing", "uncertain"}    -> "calling"
                     [] row[r].status \in {"sent", "delivered"}  -> "done"
                     [] OTHER                                            -> "ready"],
    effects <- accepted

\* The delivery implements OnceOnly: nobody gets the message of a job twice, not
\* after lost answers, crashes, re-approvals, the failure of another recipient's
\* message or the work of a second worker, and a call with an unclear end is
\* never begun again (app/channels/delivery.py:345).  Without perils.
ImplementsOnceOnly == Once!Spec
=============================================================================
