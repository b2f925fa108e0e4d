---------------------------- MODULE MetaPublishing ----------------------------
(***************************************************************************)
(* The Instagram publication workflow of one post: app/meta/publishing.py, *)
(* the automatic scheduler app/meta/scheduler.py that drives it, and the   *)
(* dashboard operations that share its rows (approval, text edit, cancel,  *)
(* page switch, disconnect, manual reconciliation).                        *)
(*                                                                         *)
(* A publication job is carried out by attempts.  A session (a worker      *)
(* cycle or a web request) commits the attempt's phase BEFORE every        *)
(* external call and takes the row locks again after it, so a database     *)
(* transaction is one action here and a call is the gap between two.       *)
(***************************************************************************)
EXTENDS Naturals, FiniteSets

CONSTANTS
    Jobs,       \* the post's Instagram publication jobs
    Attempts,   \* identities of meta_publishing_attempts rows (a bound)
    Workers,    \* scheduler processes
    Users,      \* administrators at the dashboard
    None,
    Stages,     \* the test stages administrators choose from
    Controls,   \* the switches they use: "stop", "page"
    MaxPublishAttempts,   \* settings.max_publish_attempts
    MaxVersion,           \* bound on post.version
    MaxSends,             \* bound on media_publish requests per attempt
    Perils                \* what else this instance admits; see AllPerils

\* "refresh_unclear": the status button is pressed on an interrupted attempt
\* "revive": the container button is pressed on a closed attempt
\* "disconnect_in_flight": the page is disconnected while a call is running
\* "slow_carousel": a carousel's chain of calls outlasts the safety period
\* "garbled": Meta publishes but answers 2xx without a usable media id
\* "unreachable": the public media URL may fail its verification
AllPerils == {"refresh_unclear", "revive", "disconnect_in_flight",
              "slow_carousel", "garbled", "unreachable"}

AllStages == {"validate-only", "container-only", "publish"}

Sessions == Workers \cup Users

ASSUME ConstantsAssumption ==
    /\ None \notin Jobs \cup Attempts
    /\ Workers \cap Users = {}
    /\ Stages \subseteq AllStages
    /\ Controls \subseteq {"stop", "page"}
    /\ MaxPublishAttempts \in Nat \ {0}
    /\ MaxVersion \in Nat \ {0}
    /\ MaxSends \in Nat \ {0}
    /\ Perils \subseteq AllPerils

VARIABLES
    post,      \* status, version and approved_version (0: NULL) of the post
    stop,      \* the global emergency stop
    page,      \* "off", "manual" or "auto": what the page is released for
    job,       \* publication_jobs
    attempt,   \* meta_publishing_attempts
    sess,      \* where each worker cycle or web request is
    due,       \* the candidate list each worker read at the start of its cycle
    draft,     \* an edit or cancel request between its reads and its commit
    sent,      \* media_publish requests sent per attempt (history)
    wire,      \* requests Meta has not decided yet
    live       \* requests Meta has carried out: media visible on Instagram

db       == <<post, stop, page, job, attempt>>
requests == <<sent, wire, live>>
vars     == <<post, stop, page, job, attempt, sess, due, draft, sent, wire, live>>

-----------------------------------------------------------------------------
PostStatus == {"pending_approval", "approved", "scheduled",
               "partially_published", "published", "reapproval_required"}
JobStatus  == {"unapproved", "scheduled", "retry", "publishing", "published",
               "uncertain", "failed", "cancelled", "skipped"}

\* Phases committed before an external call and left by its answer.
InterruptedPhases == {"validating_public_media", "creating_container", "publishing"}
Closed == {"absent", "completed", "failed"}
Phases == InterruptedPhases \cup Closed \cup
          {"creating_media_grant", "waiting_for_container", "ready_to_publish",
           "reconciling", "uncertain"}

Post    == [status: PostStatus, version: 1..MaxVersion, approved: 0..MaxVersion]
Job     == [status: JobStatus, approval: {"approved", "open"},
            approved: 0..MaxVersion, attempts: 0..MaxPublishAttempts, platform: BOOLEAN]
Attempt == [job: Jobs \cup {None}, phase: Phases, active: BOOLEAN,
            trigger: {"manual", "automatic"},
            stage: AllStages,
            container: {"none", "pending", "finished", "error"},
            content: 0..MaxVersion, media: BOOLEAN, aged: BOOLEAN]
Session == [pc: {"idle", "creating", "verifying", "container",
                 "publishing", "awaiting", "details"},
            att: Attempts \cup {None}, req: 0..MaxSends]
Draft   == [op: {"none", "edit", "cancel"}, jobs: SUBSET Jobs,
            revokes: BOOLEAN, version: 0..MaxVersion]
Request == Attempts \X (1..MaxSends)

NoAttempt == [job |-> None, phase |-> "absent", active |-> FALSE,
              trigger |-> "manual", stage |-> "publish", container |-> "none",
              content |-> 0, media |-> FALSE, aged |-> FALSE]
NoDraft   == [op |-> "none", jobs |-> {}, revokes |-> FALSE, version |-> 0]
Idle      == [pc |-> "idle", att |-> None, req |-> 0]

Init ==
    /\ post = [status |-> "pending_approval", version |-> 1, approved |-> 0]
    /\ stop = FALSE
    /\ page = "auto"
    /\ job = [j \in Jobs |-> [status |-> "unapproved", approval |-> "open",
                              approved |-> 0, attempts |-> 0, platform |-> FALSE]]
    /\ attempt = [a \in Attempts |-> NoAttempt]
    /\ sess = [s \in Sessions |-> Idle]
    /\ due = [w \in Workers |-> {}]
    /\ draft = [u \in Users |-> NoDraft]
    /\ sent = [a \in Attempts |-> 0]
    /\ wire = {}
    /\ live = {}

-----------------------------------------------------------------------------
(* Gates and row updates.                                                  *)

Open(a) == attempt[a].phase \notin Closed

\* uq_meta_attempts_club_active: the active key of a job is held by one attempt.
\* MUTANT: the unique key is missing.
KeyHeld_NoKey(j) == FALSE
KeyHeld(j) == \E b \in Attempts : attempt[b].active /\ attempt[b].job = j

\* What the approval must still say; asked by every external step and by the
\* scheduler's candidate query.
Released(j) ==
    /\ post.status \in {"approved", "scheduled", "partially_published"}
    /\ post.approved = post.version
    /\ job[j].approved = post.version
    /\ job[j].approval = "approved"
    /\ job[j].status \notin {"published", "cancelled", "skipped"}

\* _assert_publication_gates
GatesPass(j) ==
    /\ ~stop
    /\ page # "off"
    /\ Released(j)

\* _assert_automatic_publication_gates
AutomaticGatesPass(j) ==
    /\ GatesPass(j)
    /\ page = "auto"
    /\ ~job[j].platform
    /\ job[j].attempts < MaxPublishAttempts

\* A worker passes automatic=True and works only on its own kind of attempt.
Admitted(s, a) ==
    /\ GatesPass(attempt[a].job)
    /\ s \in Workers => /\ AutomaticGatesPass(attempt[a].job)
                        /\ attempt[a].trigger = "automatic"

\* MUTANT: the query forgets the attempts that are ready to publish.
Picked_NotReady(s, a) ==
    s \in Workers => /\ attempt[a].active
                     /\ attempt[a].trigger = "automatic"
                     /\ attempt[a].phase # "ready_to_publish"

\* _attempt_ids: the attempts a worker takes up
Picked(s, a) == s \in Workers => attempt[a].active /\ attempt[a].trigger = "automatic"

\* The row of attempt a after its phase is written, or written and closed.
In(a, phase)   == [attempt[a] EXCEPT !.phase = phase, !.aged = FALSE]
Shut(a, phase) == [attempt[a] EXCEPT !.phase = phase, !.aged = FALSE, !.active = FALSE]

Put(a, row)     == [attempt EXCEPT ![a] = row]
Write(a, phase) == Put(a, In(a, phase))
Close(a, phase) == Put(a, Shut(a, phase))
SetStatus(j, status) == [job EXCEPT ![j].status = status]

\* Only a worker's cycle records the failure of a container step in the job.
FailedFor(s, j, status) == IF s \in Workers THEN SetStatus(j, status) ELSE job

Enter(s, pc, a) == sess' = [sess EXCEPT ![s] = [pc |-> pc, att |-> a, req |-> 0]]
Leave(s) == sess' = [sess EXCEPT ![s] = Idle]

-----------------------------------------------------------------------------
(* The scheduler's cycle and create_attempt.                               *)

\* _candidate_ids: read once per cycle, worked off later
ListDue(w) ==
    /\ sess[w].pc = "idle"
    /\ due' = [due EXCEPT ![w] =
           {j \in Jobs : /\ job[j].status \in {"scheduled", "retry"}
                         /\ Released(j)
                         /\ page = "auto"
                         /\ ~job[j].platform}]
    /\ Leave(w)
    /\ UNCHANGED <<db, draft, requests>>

\* The row, its active key and its media grants are committed before the
\* public URL is verified.  An active attempt of the job is returned instead.
CreateAttempt(s, j, a, stage) ==
    /\ sess[s].pc = "idle"
    /\ GatesPass(j)
    /\ IF s \in Workers THEN /\ j \in due[s]
                             /\ stage = "publish"
                             /\ AutomaticGatesPass(j)
       ELSE stage \in Stages
    /\ ~KeyHeld(j)
    /\ attempt[a].phase = "absent"
    /\ attempt' = Put(a, [NoAttempt EXCEPT
           !.job = j, !.phase = "validating_public_media", !.active = TRUE, !.stage = stage,
           !.trigger = IF s \in Workers THEN "automatic" ELSE "manual"])
    /\ job' = IF s \in Workers
              THEN [job EXCEPT ![j].status = "publishing", ![j].attempts = @ + 1]
              ELSE job
    /\ due' = IF s \in Workers THEN [due EXCEPT ![s] = @ \ {j}] ELSE due
    /\ Enter(s, "creating", a)
    /\ UNCHANGED <<post, stop, page, draft, requests>>

\* The phase is overwritten without looking at what happened meanwhile.  A
\* worker's ORM session keeps the loaded job and post for the rest of its cycle.
CreateVerified(s) ==
    LET a == sess[s].att IN
    /\ sess[s].pc = "creating"
    /\ attempt' = IF attempt[a].stage = "validate-only"
                  THEN Close(a, "completed")
                  ELSE Write(a, "creating_media_grant")
    /\ IF s \in Workers THEN Enter(s, "idle", a) ELSE Leave(s)
    /\ UNCHANGED <<post, stop, page, job, due, draft, requests>>

CreateVerifyFailed(s) ==
    LET a == sess[s].att
        j == attempt[a].job
    IN
    /\ sess[s].pc = "creating"
    /\ "unreachable" \in Perils
    /\ attempt' = Close(a, "failed")
    /\ job' = FailedFor(s, j, IF job[j].attempts < MaxPublishAttempts
                              THEN "retry" ELSE "failed")
    /\ Leave(s)
    /\ UNCHANGED <<post, stop, page, due, draft, requests>>

-----------------------------------------------------------------------------
(* create_container.                                                       *)

\* No guard excludes a closed attempt that never got a container.  A worker
\* that created the attempt in this cycle may still see the job as it was.
StartContainer(s, a) ==
    /\ sess[s].pc = "idle"
    /\ attempt[a].container = "none"
    /\ attempt[a].stage # "validate-only"
    /\ \/ attempt[a].phase = "creating_media_grant"
       \/ /\ "revive" \in Perils
          /\ s \in Users
          /\ attempt[a].phase \in {"failed", "completed"}
    /\ Picked(s, a)
    /\ \/ Admitted(s, a)
       \/ /\ sess[s].att = a
          /\ ~stop
          /\ page = "auto"
          /\ job[attempt[a].job].attempts < MaxPublishAttempts
    /\ attempt' = Put(a, [In(a, "validating_public_media") EXCEPT
                              !.content = job[attempt[a].job].approved])
    /\ Enter(s, "verifying", a)
    /\ UNCHANGED <<post, stop, page, job, due, draft, requests>>

\* Between the two checks the session keeps its loaded rows: the second check
\* sees a fresh emergency stop but the job, post and attempt it already had.
ContainerVerified(s) ==
    LET a == sess[s].att IN
    /\ sess[s].pc = "verifying"
    /\ ~stop
    /\ attempt' = Write(a, "creating_container")
    /\ Enter(s, "container", a)
    /\ UNCHANGED <<post, stop, page, job, due, draft, requests>>

\* ... which refuses to go on and leaves the phase behind.
ContainerStopped(s) ==
    /\ sess[s].pc = "verifying"
    /\ stop
    /\ Leave(s)
    /\ UNCHANGED <<db, due, draft, requests>>

ContainerVerifyFailed(s) ==
    LET a == sess[s].att IN
    /\ sess[s].pc = "verifying"
    /\ "unreachable" \in Perils
    /\ attempt' = Close(a, "failed")
    /\ job' = FailedFor(s, attempt[a].job, "failed")
    /\ Leave(s)
    /\ UNCHANGED <<post, stop, page, due, draft, requests>>

ContainerCreated(s) ==
    LET a == sess[s].att IN
    /\ sess[s].pc = "container"
    /\ attempt' = IF attempt[a].container # "none" THEN attempt
                  ELSE Put(a, [In(a, "waiting_for_container") EXCEPT
                                  !.container = "pending"])
    /\ Leave(s)
    /\ UNCHANGED <<post, stop, page, job, due, draft, requests>>

ContainerUnclear(s) ==
    LET a == sess[s].att IN
    /\ sess[s].pc = "container"
    /\ attempt' = Write(a, "uncertain")
    /\ job' = FailedFor(s, attempt[a].job, "uncertain")
    /\ Leave(s)
    /\ UNCHANGED <<post, stop, page, due, draft, requests>>

ContainerRefused(s) ==
    LET a == sess[s].att IN
    /\ sess[s].pc = "container"
    /\ attempt' = Close(a, "failed")
    /\ job' = FailedFor(s, attempt[a].job, "failed")
    /\ Leave(s)
    /\ UNCHANGED <<post, stop, page, due, draft, requests>>

-----------------------------------------------------------------------------
(* refresh_container_status: the row locks are held across the GET.        *)

\* MUTANT: the status of an unclear attempt is asked for as well.
Pollable_Unclear(s, a) == attempt[a].phase \in {"waiting_for_container", "uncertain"}

\* The function itself asks for a container id only; the scheduler's query and
\* the page's buttons decide in which phases it is called.
Pollable(s, a) ==
    \/ attempt[a].phase = "waiting_for_container"
    \/ /\ s \in Users
       /\ attempt[a].phase \in {"ready_to_publish"} \cup
              (IF "refresh_unclear" \in Perils
               THEN InterruptedPhases \cup {"uncertain"} ELSE {})

Refreshable(s, a) ==
    /\ sess[s].pc = "idle"
    /\ attempt[a].container # "none"
    /\ Picked(s, a)
    /\ Pollable(s, a)
    /\ ~attempt[a].media
    /\ GatesPass(attempt[a].job)
    /\ attempt[a].trigger = "automatic" => AutomaticGatesPass(attempt[a].job)

RefreshPending(s, a) ==
    /\ Refreshable(s, a)
    /\ attempt' = Put(a, [In(a, attempt[a].phase) EXCEPT !.container = "pending"])
    /\ Leave(s)
    /\ UNCHANGED <<post, stop, page, job, due, draft, requests>>

RefreshFinished(s, a) ==
    /\ Refreshable(s, a)
    /\ attempt' = IF attempt[a].stage = "publish"
                  THEN Put(a, [In(a, "ready_to_publish") EXCEPT !.container = "finished"])
                  ELSE Put(a, [Shut(a, "completed") EXCEPT !.container = "finished"])
    /\ Leave(s)
    /\ UNCHANGED <<post, stop, page, job, due, draft, requests>>

RefreshError(s, a) ==
    /\ Refreshable(s, a)
    /\ attempt' = Put(a, [Shut(a, "failed") EXCEPT !.container = "error"])
    /\ job' = IF attempt[a].trigger = "automatic"
              THEN SetStatus(attempt[a].job, "failed") ELSE job
    /\ Leave(s)
    /\ UNCHANGED <<post, stop, page, due, draft, requests>>

\* _poll_failed_safely: the status call itself failed on an overdue attempt
PollFailed(w, a) ==
    /\ Refreshable(w, a)
    /\ attempt' = Close(a, "failed")
    /\ job' = SetStatus(attempt[a].job, "failed")
    /\ Leave(w)
    /\ UNCHANGED <<post, stop, page, due, draft, requests>>

-----------------------------------------------------------------------------
(* publish, and the request it puts on the wire.                           *)

\* MUTANT: the container's status alone decides.
ReadyToPublish_AnyPhase(a) ==
    ~attempt[a].media /\ attempt[a].stage = "publish" /\ attempt[a].container = "finished"

ReadyToPublish(a) ==
    /\ ~attempt[a].media
    /\ attempt[a].phase = "ready_to_publish"
    /\ attempt[a].stage = "publish"
    /\ attempt[a].container = "finished"

StartPublish(s, a) ==
    /\ sess[s].pc = "idle"
    /\ ReadyToPublish(a)
    /\ Picked(s, a)
    /\ Admitted(s, a)
    /\ attempt' = Write(a, "publishing")
    /\ Enter(s, "publishing", a)
    /\ UNCHANGED <<post, stop, page, job, due, draft, requests>>

SendPublish(s) ==
    LET a == sess[s].att
        n == sent[a] + 1
    IN
    /\ sess[s].pc = "publishing"
    /\ n <= MaxSends
    /\ sent' = [sent EXCEPT ![a] = n]
    /\ wire' = wire \cup {<<a, n>>}
    /\ sess' = [sess EXCEPT ![s] = [pc |-> "awaiting", att |-> a, req |-> n]]
    /\ UNCHANGED <<db, due, draft, live>>

\* External: Meta carries a request out, or does not, whether or not anybody
\* still waits for the answer.
MetaPublishes(r) ==
    /\ r \in wire
    /\ wire' = wire \ {r}
    /\ live' = live \cup {r}
    /\ UNCHANGED <<db, sess, due, draft, sent>>

MetaDrops(r) ==
    /\ r \in wire
    /\ wire' = wire \ {r}
    /\ UNCHANGED <<db, sess, due, draft, sent, live>>

PublishedJob(j) ==
    [job EXCEPT ![j].status = "published", ![j].platform = TRUE]

\* MUTANT: one published job makes the post published.
PublishedPost_Any(j) == [post EXCEPT !.status = "published"]

\* The post's status is derived from its jobs as this transaction sees them.
PublishedPost(j) ==
    [post EXCEPT !.status = IF \A k \in Jobs : PublishedJob(j)[k].status = "published"
                            THEN "published" ELSE "partially_published"]

PublishConfirmed(s) ==
    LET a == sess[s].att
        j == attempt[a].job
    IN
    /\ sess[s].pc = "awaiting"
    /\ <<a, sess[s].req>> \in live
    /\ IF attempt[a].media
       THEN Leave(s) /\ UNCHANGED <<post, job, attempt>>
       ELSE /\ attempt' = Put(a, [In(a, "reconciling") EXCEPT !.media = TRUE])
            /\ job' = PublishedJob(j)
            /\ post' = PublishedPost(j)
            /\ Enter(s, "details", a)
    /\ UNCHANGED <<stop, page, due, draft, requests>>

\* MUTANT: a lost answer is filed as a failure.
PublishUnclear_Failed(s) ==
    /\ sess[s].pc = "awaiting"
    /\ attempt' = Close(sess[s].att, "failed")
    /\ Leave(s)
    /\ UNCHANGED <<post, stop, page, job, due, draft, requests>>

\* A transport error or a 5xx: the request may be anywhere.
PublishUnclear(s) ==
    LET a == sess[s].att IN
    /\ sess[s].pc = "awaiting"
    /\ attempt' = Write(a, "uncertain")
    /\ job' = SetStatus(attempt[a].job, "uncertain")
    /\ Leave(s)
    /\ UNCHANGED <<post, stop, page, due, draft, requests>>

\* A 4xx, or (garbled) a 2xx whose body names no media.
PublishRefused(s) ==
    LET a == sess[s].att
        r == <<a, sess[s].req>>
    IN
    /\ sess[s].pc = "awaiting"
    /\ r \notin wire
    /\ r \in live => "garbled" \in Perils
    /\ attempt' = Close(a, "failed")
    /\ job' = SetStatus(attempt[a].job, "failed")
    /\ Leave(s)
    /\ UNCHANGED <<post, stop, page, due, draft, requests>>

\* The permalink lookup; its failure changes nothing.
FinishDetails(s) ==
    /\ sess[s].pc = "details"
    /\ attempt' = Close(sess[s].att, "completed")
    /\ Leave(s)
    /\ UNCHANGED <<post, stop, page, job, due, draft, requests>>

-----------------------------------------------------------------------------
(* Interruption, and what is done about it.                                *)

\* The process dies, or the row locks are taken when the answer arrives
\* (SKIP LOCKED) and the answer is lost: nothing is written.
Abandon(s) ==
    /\ sess[s].pc # "idle"
    /\ Leave(s)
    /\ UNCHANGED <<db, due, draft, requests>>

\* The safety period, max(120 s, three HTTP timeouts), has passed since the
\* attempt was last written.  It covers every chain of calls but a carousel's.
Age(a) ==
    /\ attempt[a].phase \in InterruptedPhases
    /\ ~attempt[a].aged
    /\ \A s \in Sessions : sess[s].att = a /\ sess[s].pc # "idle" =>
           /\ "slow_carousel" \in Perils
           /\ sess[s].pc \in {"creating", "verifying", "container"}
    /\ attempt' = [attempt EXCEPT ![a].aged = TRUE]
    /\ UNCHANGED <<post, stop, page, job, sess, due, draft, requests>>

\* _mark_interrupted_calls_uncertain, at the start of a cycle
Interrupted == {a \in Attempts : /\ attempt[a].trigger = "automatic"
                                 /\ attempt[a].active
                                 /\ attempt[a].phase \in InterruptedPhases
                                 /\ attempt[a].aged}

MarkInterrupted(w) ==
    /\ sess[w].pc = "idle"
    /\ Interrupted # {}
    /\ attempt' = [a \in Attempts |->
           IF a \in Interrupted THEN In(a, "uncertain") ELSE attempt[a]]
    /\ job' = [j \in Jobs |->
           IF \E a \in Interrupted : attempt[a].job = j
           THEN [job[j] EXCEPT !.status = "uncertain"]
           ELSE job[j]]
    /\ Leave(w)
    /\ UNCHANGED <<post, stop, page, due, draft, requests>>

Reconcilable(a) ==
    \/ attempt[a].phase = "uncertain"
    \/ attempt[a].phase \in InterruptedPhases /\ attempt[a].aged

Published(a) == \E r \in live : r[1] = a
OnWire(a)    == \E r \in wire : r[1] = a

\* reconcile_attempt.  The administrator looks at Instagram first, so the
\* answer given is the truth about this attempt.
ReconcilePublished(a) ==
    /\ Reconcilable(a)
    /\ attempt[a].phase # "validating_public_media"
    /\ Published(a)
    /\ attempt' = Put(a, [Shut(a, "completed") EXCEPT !.media = TRUE])
    /\ job' = PublishedJob(attempt[a].job)
    /\ post' = PublishedPost(attempt[a].job)
    /\ UNCHANGED <<stop, page, sess, due, draft, requests>>

ReconcileNotPublished(a) ==
    /\ Reconcilable(a)
    /\ ~Published(a)
    /\ ~OnWire(a)
    /\ attempt' = Close(a, "failed")
    /\ job' = SetStatus(attempt[a].job, "failed")
    /\ UNCHANGED <<post, stop, page, sess, due, draft, requests>>

-----------------------------------------------------------------------------
(* The dashboard operations that share the rows.                           *)

\* MUTANT: open attempts are not looked at.
Blocked_NoAttempts(j) ==
    \/ job[j].status \in {"published", "publishing", "retry", "uncertain",
                          "failed", "cancelled", "skipped"}
    \/ job[j].platform
    \/ job[j].attempts # 0

\* approval_job_blockers
Blocked(j) ==
    \/ job[j].status \in {"published", "publishing", "retry", "uncertain",
                          "failed", "cancelled", "skipped"}
    \/ job[j].platform
    \/ job[j].attempts # 0
    \/ \E a \in Attempts : attempt[a].job = j /\ (attempt[a].active \/ Open(a))

\* approve; late jobs of the selection may be skipped instead of scheduled
Approve(selected, skipped) ==
    /\ selected # {}
    /\ \A j \in selected : ~Blocked(j)
    /\ post' = [post EXCEPT !.status = "approved", !.approved = post.version]
    /\ job' = [j \in Jobs |->
           IF j \in selected
           THEN [job[j] EXCEPT !.approval = "approved", !.approved = post.version,
                               !.status = IF j \in skipped THEN "skipped"
                                          ELSE "scheduled"]
           ELSE job[j]]
    /\ UNCHANGED <<stop, page, attempt, sess, due, draft, requests>>

\* edit_text reads the post and its unpublished jobs without a lock ...
BeginEdit(u) ==
    /\ draft[u].op = "none"
    /\ post.version < MaxVersion
    /\ draft' = [draft EXCEPT ![u] =
           [op      |-> "edit",
            jobs    |-> {j \in Jobs : job[j].status \notin {"published", "unapproved"}},
            revokes |-> post.status \in {"approved", "scheduled"},
            version |-> post.version + 1]]
    /\ UNCHANGED <<db, sess, due, requests>>

\* ... and writes what follows from what it read.
CommitEdit(u) ==
    /\ draft[u].op = "edit"
    /\ post' = [post EXCEPT !.version = draft[u].version,
                            !.status = IF draft[u].revokes
                                       THEN "reapproval_required" ELSE @]
    /\ job' = [j \in Jobs |->
           IF j \in draft[u].jobs
           THEN [job[j] EXCEPT !.status = "unapproved", !.approval = "open"]
           ELSE job[j]]
    /\ draft' = [draft EXCEPT ![u] = NoDraft]
    /\ UNCHANGED <<stop, page, attempt, sess, due, requests>>

BeginCancel(u, j) ==
    /\ draft[u].op = "none"
    /\ job[j].status \notin {"published", "cancelled"}
    /\ draft' = [draft EXCEPT ![u] = [NoDraft EXCEPT !.op = "cancel", !.jobs = {j}]]
    /\ UNCHANGED <<db, sess, due, requests>>

CommitCancel(u) ==
    /\ draft[u].op = "cancel"
    /\ job' = [j \in Jobs |-> IF j \in draft[u].jobs
                              THEN [job[j] EXCEPT !.status = "cancelled"] ELSE job[j]]
    /\ draft' = [draft EXCEPT ![u] = NoDraft]
    /\ UNCHANGED <<post, stop, page, attempt, sess, due, requests>>

SetStop(on) ==
    /\ "stop" \in Controls
    /\ stop # on
    /\ stop' = on
    /\ UNCHANGED <<post, page, job, attempt, sess, due, draft, requests>>

SetPage(release) ==
    /\ "page" \in Controls
    /\ page # release
    /\ page' = release
    /\ UNCHANGED <<post, stop, job, attempt, sess, due, draft, requests>>

\* disconnect closes every open attempt but the uncertain ones, whatever the
\* sessions working on them are waiting for.
Disconnect ==
    /\ "page" \in Controls
    /\ page # "off"
    /\ \/ "disconnect_in_flight" \in Perils
       \/ \A a \in Attempts : attempt[a].phase \notin InterruptedPhases \cup {"reconciling"}
    /\ page' = "off"
    /\ attempt' = [a \in Attempts |->
           IF Open(a) /\ attempt[a].phase # "uncertain"
           THEN Shut(a, "failed") ELSE attempt[a]]
    /\ UNCHANGED <<post, stop, job, sess, due, draft, requests>>

-----------------------------------------------------------------------------
(* The system.                                                             *)

ContainerAnswer(s) == ContainerCreated(s) \/ ContainerUnclear(s) \/ ContainerRefused(s)
PublishAnswer(s)   == PublishConfirmed(s) \/ PublishUnclear(s) \/ PublishRefused(s)
Refresh(s, a)      == RefreshPending(s, a) \/ RefreshFinished(s, a) \/ RefreshError(s, a)

\* A session that has begun goes on: it is answered or its call times out.
Continue(s) ==
    \/ CreateVerified(s)
    \/ CreateVerifyFailed(s)
    \/ ContainerVerified(s)
    \/ ContainerStopped(s)
    \/ ContainerVerifyFailed(s)
    \/ ContainerAnswer(s)
    \/ SendPublish(s)
    \/ PublishAnswer(s)
    \/ FinishDetails(s)

SessionNext(s) ==
    \/ \E j \in Jobs, a \in Attempts, stage \in AllStages :
           CreateAttempt(s, j, a, stage)
    \/ \E a \in Attempts : StartContainer(s, a) \/ Refresh(s, a) \/ StartPublish(s, a)
    \/ Continue(s)
    \/ Abandon(s)

WorkerNext(w) ==
    \/ ListDue(w)
    \/ MarkInterrupted(w)
    \/ \E a \in Attempts : PollFailed(w, a)

MetaNext == \E r \in wire : MetaPublishes(r) \/ MetaDrops(r)

ReconcileNext == \E a \in Attempts : ReconcilePublished(a) \/ ReconcileNotPublished(a)

DashboardNext ==
    \/ \E selected \in SUBSET Jobs, skipped \in SUBSET Jobs : Approve(selected, skipped)
    \/ \E u \in Users : BeginEdit(u) \/ CommitEdit(u) \/ CommitCancel(u)
    \/ \E u \in Users, j \in Jobs : BeginCancel(u, j)
    \/ \E on \in BOOLEAN : SetStop(on)
    \/ \E release \in {"off", "manual", "auto"} : SetPage(release)
    \/ Disconnect

Next ==
    \/ \E s \in Sessions : SessionNext(s)
    \/ \E w \in Workers : WorkerNext(w)
    \/ \E a \in Attempts : Age(a)
    \/ MetaNext
    \/ ReconcileNext
    \/ DashboardNext

Spec == Init /\ [][Next]_vars

\* The worker loop runs a cycle every few seconds and every call has a timeout,
\* each cycle marks what was interrupted, lists the due jobs and looks at every
\* attempt: a step that is possible again and again is taken (SF), a session
\* that has begun goes on (WF).  Meta decides a container in the end: a status
\* call that changes nothing is no step, so SF asks for another answer.
Fairness ==
    /\ \A w \in Workers :
          /\ WF_vars(ListDue(w))
          /\ SF_vars(MarkInterrupted(w))
          /\ WF_vars(Continue(w))
          /\ \A a \in Attempts : /\ SF_vars(StartContainer(w, a))
                                 /\ SF_vars(Refresh(w, a))
                                 /\ SF_vars(StartPublish(w, a))
    /\ \A a \in Attempts : WF_vars(Age(a))

FairSpec == Spec /\ Fairness

-----------------------------------------------------------------------------
(* Properties.                                                             *)

\* Every variable stays within its type.
TypeOK ==
    /\ post \in Post
    /\ stop \in BOOLEAN
    /\ page \in {"off", "manual", "auto"}
    /\ job \in [Jobs -> Job]
    /\ attempt \in [Attempts -> Attempt]
    /\ sess \in [Sessions -> Session]
    /\ due \in [Workers -> SUBSET Jobs]
    /\ draft \in [Users -> Draft]
    /\ sent \in [Attempts -> 0..MaxSends]
    /\ wire \subseteq Request
    /\ live \subseteq Request

\* At most one attempt of a job is under way, whatever sessions interleave:
\* the active key and the closing of attempts keep each other company.
OneOpenAttempt ==
    \A a, b \in Attempts :
        Open(a) /\ Open(b) /\ attempt[a].job = attempt[b].job => a = b

\* A call under way belongs to an open attempt: neither the safety period nor
\* a manual reconciliation closes an attempt under a running session.
CallsOwnOpenAttempts ==
    \A s \in Sessions : sess[s].pc # "idle" => Open(sess[s].att)

\* So a job's attempts follow one another, and what a session writes after its
\* call it writes to the attempt it called for (app/meta/publishing.py:391, 1083).
OneAttemptAtATime == OneOpenAttempt /\ CallsOwnOpenAttempts

\* media_publish is sent at most once per attempt: no crash, lost answer or
\* second session makes the code send it again.
NoResend == \A a \in Attempts : sent[a] <= 1

\* A worker never sends media_publish for an attempt that was sent before, by
\* whomever: an unclear request is not repeated automatically.
NeverResentByWorker ==
    \A w \in Workers : sess[w].pc = "publishing" => sent[sess[w].att] = 0

\* No sequence of buttons, cycles and crashes repeats a request (ReadyToPublish,
\* app/meta/publishing.py:934).
SentAtMostOnce == NoResend /\ NeverResentByWorker

\* A job puts at most one medium on Instagram, over all of its attempts.
SingleLive ==
    \A r, q \in live : attempt[r[1]].job = attempt[q[1]].job => r = q

\* A medium that went live is never filed as a failed attempt, the state
\* from which a job may be published again.
LiveNeverFailed == \A r \in live : attempt[r[1]].phase # "failed"

\* What the application believes of a job agrees with Instagram closely enough
\* that the job's medium appears once (app/meta/publishing.py:1038).
LiveOnce == SingleLive /\ LiveNeverFailed

\* A post shown as published has every one of its jobs on the platform.
PublishedPostComplete ==
    post.status = "published" => \A j \in Jobs : job[j].platform

\* An unclear attempt leaves that state only by being closed by hand.
UnclearNeedsReconcile ==
    [][\A a \in Attempts : attempt[a].phase = "uncertain" =>
           attempt'[a].phase \in {"uncertain", "completed", "failed"}]_vars

\* Once a job has its platform id, no further media_publish is sent for it,
\* also when an edit or a cancel overwrote the job's published status.
PlatformIdFinal ==
    [][\A a \in Attempts : sent'[a] > sent[a] => ~job[attempt[a].job].platform]_vars

\* What is settled, or may be, is not tried again.
SettledIsFinal == UnclearNeedsReconcile /\ PlatformIdFinal

\* What is published is the content of the version that is approved when
\* publishing starts: nobody re-approves a post under an attempt that already
\* carries the old content to Meta.
PublishesApproved ==
    [][\A a \in Attempts :
           attempt[a].phase # "publishing" /\ attempt'[a].phase = "publishing" =>
               /\ attempt[a].content = post.approved
               /\ attempt[a].content = post.version]_vars

\* An automatic attempt whose call was interrupted does not hang: a later
\* cycle notices it.
InterruptedNoticed ==
    \A a \in Attempts :
        (attempt[a].phase \in InterruptedPhases /\ attempt[a].trigger = "automatic")
            ~> (attempt[a].phase \notin InterruptedPhases)

\* A released automatic attempt that waits for its next step is taken up, for
\* as long as the approval, the page and the emergency stop let it.
Waiting(a) ==
    /\ attempt[a].phase \in {"creating_media_grant", "waiting_for_container",
                            "ready_to_publish"}
    /\ attempt[a].trigger = "automatic"
    /\ Released(attempt[a].job)
    /\ page = "auto"
    /\ ~stop

ReleasedAttemptAdvances == \A a \in Attempts : []<>(~Waiting(a))

\* No attempt is left where it is by a crash between two steps
\* (app/meta/scheduler.py:126, 225).
AttemptsGoOn == InterruptedNoticed /\ ReleasedAttemptAdvances

-----------------------------------------------------------------------------
(* Every job's media_publish is an external write that takes effect once.  *)

\* A request was sent for the attempt, and what became of it is not written yet.
Calls(a) == attempt[a].phase \in {"publishing", "uncertain"} /\ sent[a] > 0

Media(j) == {r \in live : attempt[r[1]].job = j}

Once == INSTANCE OnceOnly WITH
    Targets <- Jobs,
    state   <- [j \in Jobs |->
                   IF job[j].platform THEN "done"
                   ELSE IF \E a \in Attempts : attempt[a].job = j /\ Calls(a) THEN "calling"
                   ELSE "ready"],
    effects <- [j \in Jobs |-> Cardinality(Media(j))]

\* The workflow implements OnceOnly: a job's request is sent only when no earlier
\* one, of any of its attempts, may still have an effect, and a job is published
\* exactly when its medium is there (app/meta/publishing.py:936, 1042).
\* Without "garbled" and the perils of a disorderly use.
ImplementsOnceOnly == Once!Spec
=============================================================================
