------------------------------ MODULE PostReview ------------------------------
(***************************************************************************)
(* Review of one post: its text and media versions, the approval, every   *)
(* administrator request that revokes it, the graphics worker that        *)
(* replaces its media, and the dry-run worker that publishes its jobs.    *)
(*                                                                         *)
(* A request is a database session.  It reads rows, computes, and writes   *)
(* back at its commit only the columns whose value differs from the one    *)
(* it read (Merge): sessions neither expire their objects at a commit nor  *)
(* refresh them when a row is selected again FOR UPDATE.  `lock` is the    *)
(* request that holds the row lock on the post.                            *)
(***************************************************************************)
EXTENDS Integers, FiniteSets

CONSTANTS Slots,        \* outputs of the post (GeneratedMediaSlot), one per variant
          Kind,         \* Kind[s]: the format of slot s, "feed" or "story"
          Default,      \* Default[k]: the slot of an unknown file of kind k (variant 1)
          Paths,        \* media files; First[s] is the one slot s starts with
          First,
          Format,       \* Format[p]: the kind of output file p is drawn for
          Texts,        \* captions
          FirstText,
          Sessions,     \* concurrent sessions of administrators
          Menu(_),      \* bound on the orders: those a behaviour may hold
          MaxRequests,  \* bound on the requests, switches and crashes of a behaviour
          MaxAttempts,  \* settings.max_publish_attempts
          LateBehaviour,\* the team's rule for outputs approved after their time
          Outcomes,     \* answers of the publisher
          Overlapping   \* perils let happen; see OpenRequest, MayOverlap and Commit

Jobs == {"feed", "story"}          \* one publication job of each kind
None == "none"

ASSUME ReviewAssumption ==
    /\ First \in [Slots -> Paths] /\ Format \in [Paths -> Jobs]
    /\ \A s \in Slots : Kind[s] \in Jobs /\ Format[First[s]] = Kind[s]
    /\ \A k \in Jobs : Default[k] \in Slots /\ Kind[Default[k]] = k
    /\ \A s, t \in Slots : First[s] = First[t] => s = t
    /\ FirstText \in Texts
    /\ MaxRequests \in Nat /\ MaxAttempts \in Nat \ {0}
    /\ LateBehaviour \in {"publish_now", "skip", "next_story", "manual"}
    /\ Outcomes \subseteq {"ok", "retry", "failed", "unclear"}
    /\ Overlapping \subseteq {"edit_text", "render", "revoke", "approve", "reject"}

VARIABLES db,      \* the committed rows: post, job, slot, shelf (versions), texts
          req,     \* req[r]: what request r is doing and has read
          lock,    \* the request holding the post's row lock
          worker,  \* the dry-run worker's session
          gate,    \* what closes the worker's gates: nothing, the emergency stop, the game
          used,    \* requests, switches of a gate and crashes so far
          frozen,  \* ghost: frozen[j] is what the last approval of j bound
          sent     \* ghost: the publications handed to the publisher

reviewVars == <<db, req, lock, worker, gate, used, frozen, sent>>

PostStatus == {"pending", "incomplete", "approved", "reapproval", "rejected",
               "partial", "published", "deleted"}
JobStatus == {"unapproved", "scheduled", "publishing", "published", "retry",
              "failed", "cancelled", "skipped", "uncertain"}
Post == [status : PostStatus, version : Nat, approved : Nat, text : Texts,
         tmode : {"auto", "manual"}, tsel : Texts, tlatest : Texts,
         warnings : SUBSET {"logo", "result"}, current : [Slots -> Paths]]
Job == [status : JobStatus, approval : {"unapproved", "approved", "reapproval_required", "rejected"},
        approvedVersion : Nat, path : Paths, text : Texts, attempts : Nat,
        platform : BOOLEAN, past : BOOLEAN]
Slot == [mode : {"auto", "manual"}, sel : Paths, latest : Paths]
View == [post : Post, job : [Jobs -> Job], slot : [Slots -> Slot],
         shelf : [Slots -> SUBSET Paths], texts : SUBSET Texts]

FirstJob(j) ==
    [status |-> "unapproved", approval |-> "unapproved", approvedVersion |-> 0,
     path |-> First[Default[j]], text |-> FirstText, attempts |-> 0,
     platform |-> FALSE, past |-> FALSE]

\* A post as the generation of its content leaves it.
Fresh ==
    [post  |-> [status |-> "pending", version |-> 1, approved |-> 0, text |-> FirstText,
                tmode |-> "auto", tsel |-> FirstText, tlatest |-> FirstText,
                warnings |-> {}, current |-> First],
     job   |-> [j \in Jobs |-> FirstJob(j)],
     slot  |-> [s \in Slots |-> [mode |-> "auto", sel |-> First[s], latest |-> First[s]]],
     shelf |-> [s \in Slots |-> {First[s]}],
     texts |-> {FirstText}]

(***************************************************************************)
(* Sessions                                                                *)
(***************************************************************************)
\* The row after a flush: columns the session left as it read them are not written.
Put(row, seen, new) ==
    [c \in DOMAIN row |-> IF new[c] = seen[c] THEN row[c] ELSE new[c]]

Merge(seen, new) ==
    [post  |-> Put(db.post, seen.post, new.post),
     job   |-> [j \in Jobs |-> Put(db.job[j], seen.job[j], new.job[j])],
     slot  |-> [s \in Slots |-> Put(db.slot[s], seen.slot[s], new.slot[s])],
     shelf |-> [s \in Slots |-> db.shelf[s] \cup new.shelf[s]],
     texts |-> db.texts \cup new.texts]

Released == {"approved", "partial"}       \* APPROVED, SCHEDULED, PARTIAL of the code
Editable == {"unapproved", "scheduled"}   \* EDITABLE_PUBLICATION_STATUSES in use
Unpublished(v) == {j \in Jobs : v.job[j].status # "published"}

WithPost(v, p) == [v EXCEPT !.post = p]
WithJob(v, j, x) == [v EXCEPT !.job = [@ EXCEPT ![j] = x]]
WithSlot(v, s, x) == [v EXCEPT !.slot = [@ EXCEPT ![s] = x]]
WithJobs(v, J, F(_)) == [v EXCEPT !.job = [j \in Jobs |-> IF j \in J THEN F(v.job[j]) ELSE v.job[j]]]

(***************************************************************************)
(* Versions (posts/media_versions.py)                                      *)
(***************************************************************************)
ensure_text_version(v) ==
    IF v.post.text = v.post.tsel THEN v
    ELSE LET keep == v.post.tmode = "manual" IN
         [v EXCEPT !.texts = @ \cup {v.post.text},
                   !.post.tlatest = v.post.text,
                   !.post.tsel = IF keep THEN @ ELSE v.post.text,
                   !.post.text = IF keep THEN v.post.tsel ELSE @]

register_media_version(v, s, p) ==
    IF p \in v.shelf[s] THEN v
    ELSE [WithSlot(v, s, [v.slot[s] EXCEPT !.latest = p,
                                           !.sel = IF v.slot[s].mode = "auto" THEN p ELSE @])
          EXCEPT !.shelf[s] = @ \cup {p}]

\* The slot a job's file belongs to: the design snapshot knows the current file
\* of every variant; any other file goes to the first variant of its kind.
SlotOf(v, j) ==
    IF \E s \in Slots : v.post.current[s] = v.job[j].path
    THEN CHOOSE s \in Slots : v.post.current[s] = v.job[j].path
    ELSE Default[j]

RegisterCurrent(v) ==
    [v EXCEPT !.shelf = [s \in Slots |-> register_media_version(v, s, v.post.current[s]).shelf[s]],
              !.slot = [s \in Slots |-> register_media_version(v, s, v.post.current[s]).slot[s]]]

SyncJob(v, j) ==
    LET s == SlotOf(v, j)
        w == register_media_version(v, s, v.job[j].path)
    IN IF v.job[j].status = "published" THEN w
       ELSE WithJob(w, j, [w.job[j] EXCEPT !.path = w.slot[s].sel])

synchronize_post_versions(v) ==
    SyncJob(SyncJob(RegisterCurrent(ensure_text_version(v)), "feed"), "story")

freeze_publication_versions(v, J) ==
    LET w == synchronize_post_versions(v) IN
    WithJobs(w, J \cap Unpublished(w), LAMBDA x : [x EXCEPT !.text = w.post.tsel])

invalidate_post_approval(p) ==
    [p EXCEPT !.version = @ + 1, !.approved = 0,
              !.status = IF @ \in Released THEN "reapproval" ELSE @]

mark_publication_for_reapproval(x) ==
    [x EXCEPT !.status = "unapproved", !.approval = "reapproval_required",
              !.approvedVersion = 0]

Started(x) == x.platform \/ x.attempts > 0
EditableJobs(v) == {j \in Jobs : v.job[j].status \in Editable}

\* A media selection: the slot's choice, the post's approval, the open jobs.
ChooseMedia(v, s, mode, p) ==
    IF v.slot[s].mode = mode /\ v.slot[s].sel = p THEN v
    ELSE LET chosen == WithSlot(WithPost(v, invalidate_post_approval(v.post)), s,
                                [v.slot[s] EXCEPT !.mode = mode, !.sel = p])
             open == EditableJobs(v)
         IN freeze_publication_versions(
                WithJobs(chosen, open, mark_publication_for_reapproval), open)

select_media_version(v, s, p) ==
    IF p \in v.shelf[s] THEN ChooseMedia(v, s, "manual", p) ELSE v
select_latest_media_automatically(v, s) == ChooseMedia(v, s, "auto", v.slot[s].latest)

select_publication_media_variant(v, j, s) ==
    IF Kind[s] # j \/ v.job[j].status \notin Editable \/ Started(v.job[j]) THEN v
    ELSE LET mapped == WithJob(WithPost(v, invalidate_post_approval(v.post)), j,
                               [v.job[j] EXCEPT !.path = v.slot[s].sel])
         IN WithJobs(mapped, EditableJobs(v), mark_publication_for_reapproval)

ChooseText(v, mode, t) ==
    LET chosen == [v EXCEPT !.post = [invalidate_post_approval(@) EXCEPT
                                        !.tmode = mode, !.tsel = t, !.text = t]]
    IN WithJobs(chosen, Unpublished(v),
                LAMBDA x : [mark_publication_for_reapproval(x) EXCEPT !.text = t])

select_text_version(v, t) == IF t \in v.texts THEN ChooseText(v, "manual", t) ELSE v
select_latest_text_automatically(v) ==
    IF v.post.tmode = "auto" /\ v.post.tsel = v.post.tlatest THEN v
    ELSE ChooseText(v, "auto", v.post.tlatest)

(***************************************************************************)
(* Approval and text (approvals/service.py)                                *)
(***************************************************************************)
\* Mutant of approval_job_blockers: The approval looks at the status of a job only, not at its traces.
BlockersByStatus(v, J) ==
    {j \in J : v.job[j].status \in {"published", "publishing", "retry", "uncertain", "failed", "cancelled", "skipped"}}
approval_job_blockers(v, J) ==
    {j \in J : \/ Started(v.job[j])
               \/ v.job[j].status \in {"published", "publishing", "retry", "uncertain",
                                       "failed", "cancelled", "skipped"}}

late_approval_behavior(now) == IF now THEN "publish_now" ELSE LateBehaviour

Approvable(v, J, now) ==
    /\ approval_job_blockers(v, J) = {}
    /\ v.post.warnings = {}
    /\ (\E j \in J : v.job[j].past) => late_approval_behavior(now) # "manual"

approve(v, J, now) ==
    IF ~Approvable(v, J, now) THEN v
    ELSE LET w == freeze_publication_versions(v, J)
             Released1(x) ==
                 [x EXCEPT !.approval = "approved", !.approvedVersion = w.post.version,
                           !.status = IF x.past /\ late_approval_behavior(now) # "publish_now"
                                      THEN "skipped" ELSE "scheduled"]
         IN WithPost(WithJobs(w, J, Released1),
                     [w.post EXCEPT !.status = "approved", !.approved = w.post.version])

edit_text(v, t) ==
    LET post == [v.post EXCEPT !.text = t, !.version = @ + 1,
                               !.status = IF @ = "approved" THEN "reapproval" ELSE @]
        open(x) == [x EXCEPT !.status = "unapproved", !.approval = "reapproval_required"]
        w == WithJobs(WithPost(v, post), Unpublished(v), open)
    IN ensure_text_version(
           IF v.job["feed"].status = "published" THEN w
           ELSE WithJob(w, "feed", [w.job["feed"] EXCEPT !.text = t]))

(***************************************************************************)
(* The other requests of the review page (admin_routes.py)                 *)
(***************************************************************************)
post_channel_text(v) ==
    WithJobs(WithPost(v, invalidate_post_approval(v.post)), Unpublished(v),
             mark_publication_for_reapproval)

reject_post(v) ==
    WithJobs(WithPost(v, [v.post EXCEPT !.status = "rejected"]), Unpublished(v),
             LAMBDA x : [x EXCEPT !.status = "unapproved", !.approval = "rejected"])

cancel_job(v, j) ==
    IF v.job[j].status = "published" THEN v
    ELSE WithJob(v, j, [v.job[j] EXCEPT !.status = "cancelled"])

Revoke(v, J, warning) ==
    IF v.post.status = "published" THEN v
    ELSE WithJobs(WithPost(v, [v.post EXCEPT !.version = @ + 1, !.approved = 0,
                                             !.status = "reapproval",
                                             !.warnings = @ \cup {warning}]),
                  J, mark_publication_for_reapproval)

invalidate_posts_for_logo_change(v) == Revoke(v, Unpublished(v), "logo")
invalidate_posts_for_result_change(v) ==
    Revoke(v, {j \in Jobs : v.job[j].status \notin {"published", "cancelled", "skipped"}}, "result")

reschedule_publication_job(v, j) ==
    LET x == v.job[j]
        busy == \E k \in Jobs \ {j} : v.job[k].status \in {"publishing", "retry", "uncertain"}
        moved == WithJob(v, j, [x EXCEPT !.past = FALSE])
        approved == v.post.approved # 0 \/ x.approval = "approved" \/ x.status = "scheduled"
    IN IF x.status \notin Editable \/ Started(x) \/ busy THEN v
       ELSE IF ~approved THEN moved
       ELSE WithJobs(WithPost(moved, [v.post EXCEPT !.version = @ + 1, !.approved = 0,
                                                    !.status = "reapproval"]),
                     EditableJobs(v), mark_publication_for_reapproval)

delete_unpublished_post(v) ==
    IF \/ v.post.status \in {"published", "partial"}
       \/ \E j \in Jobs : \/ v.job[j].status \in {"publishing", "published", "uncertain"}
                          \/ v.job[j].platform
    THEN v
    ELSE [v EXCEPT !.post.status = "deleted"]

(***************************************************************************)
(* New graphics and texts (posts/service.py), carried out by the worker of *)
(* generation jobs with provider calls and commits between reading the     *)
(* post and writing it.                                                    *)
(***************************************************************************)
\* What has been published is not drawn again.
Rerenderable(v, s) == v.job[Kind[s]].status # "published"

\* Slot s is drawn as file p; an output that was not selected keeps its file.
Rendered(v, s, p) == [v.post.current EXCEPT ![s] = p]

\* The feed job always takes the file of variant 1, whichever variant was drawn;
\* a story job takes a new file only if it shows the slot that was drawn.
FeedFile(v, s, p) == Rendered(v, s, p)[Default["feed"]]
StoryFile(v, s, p) == IF SlotOf(v, "story") = s THEN p ELSE v.job["story"].path

NewFiles(v, s, p) ==
    WithJob(WithPost(v, [v.post EXCEPT !.current = Rendered(v, s, p)]), Kind[s],
            [v.job[Kind[s]] EXCEPT !.path = IF Kind[s] = "feed" THEN FeedFile(v, s, p)
                                            ELSE StoryFile(v, s, p)])

rerender_post(v, s, p) ==
    IF ~Rerenderable(v, s) THEN v
    ELSE LET w == NewFiles(v, s, p)
             was == v.post.status \in Released
             post == [w.post EXCEPT !.version = @ + 1, !.warnings = @ \ {"logo"},
                                    !.status = IF was THEN "reapproval" ELSE @,
                                    !.approved = IF was THEN 0 ELSE @]
         IN synchronize_post_versions(
                WithJobs(WithPost(w, post), IF was THEN Unpublished(v) ELSE {},
                         mark_publication_for_reapproval))

\* revise_post: graphics of slot s (or none), and a new text t (or none).
revise_post(v, S, p, T) ==
    IF \/ T # {} /\ (v.job["feed"].status = "published" \/ v.job["feed"].platform)
       \/ \E s \in S : ~Rerenderable(v, s)
    THEN v
    ELSE LET g == IF S = {} THEN [v EXCEPT !.post.version = @ + 1]
                  ELSE rerender_post(v, CHOOSE s \in S : TRUE, p)
             was == v.post.status \in Released
             text == IF T = {} THEN g.post.text ELSE CHOOSE t \in T : TRUE
             post == [g.post EXCEPT !.text = text, !.approved = 0,
                                    !.status = IF was THEN "reapproval"
                                               ELSE IF g.post.warnings # {} THEN "incomplete"
                                               ELSE "pending"]
             open(x) == [x EXCEPT !.status = "unapproved", !.approvedVersion = 0,
                                  !.approval = IF was THEN "reapproval_required" ELSE "unapproved",
                                  !.text = IF T = {} THEN @ ELSE text]
             w == ensure_text_version(WithJobs(WithPost(g, post), Unpublished(g), open))
         IN IF S = {} THEN w ELSE synchronize_post_versions(w)

recompose_post_logos(v, p) ==
    IF v.job["feed"].status = "published" THEN v
    ELSE LET post == [v.post EXCEPT !.version = @ + 1, !.approved = 0, !.status = "reapproval",
                                    !.warnings = @ \ {"logo"}]
         IN WithJobs(WithJob(WithPost(v, post), "feed", [v.job["feed"] EXCEPT !.path = p]),
                     Unpublished(v), mark_publication_for_reapproval)


(***************************************************************************)
(* Requests.  An order is what the administrator, or the job the worker of *)
(* generation jobs has claimed, asks for.                                  *)
(***************************************************************************)
Rerenders == {o \in [name : {"rerender"}, slot : Slots, path : Paths] :
                Format[o.path] = Kind[o.slot]}
Revisions == {o \in [name : {"revise"}, slots : {S \in SUBSET Slots : Cardinality(S) < 2},
                     path : Paths, texts : {T \in SUBSET Texts : Cardinality(T) < 2}] :
                \A s \in o.slots : Format[o.path] = Kind[s]}
Recompositions == [name : {"recompose"}, path : {p \in Paths : Format[p] = "feed"}]
Renders == Rerenders \cup Revisions \cup Recompositions
Unlocked ==  [name : {"edit_text"}, text : Texts]
        \cup [name : {"approve"}, jobs : (SUBSET Jobs) \ {{}}, now : BOOLEAN]
        \cup [name : {"reject", "logo_changed", "result_changed"}]
        \cup [name : {"cancel"}, job : Jobs]
Locking ==   [name : {"select_media"}, slot : Slots, path : Paths]
        \cup [name : {"auto_media"}, slot : Slots]
        \cup [name : {"select_variant"}, job : Jobs, slot : Slots]
        \cup [name : {"select_text"}, text : Texts]
        \cup [name : {"auto_text", "channel_text", "delete"}]
        \cup [name : {"reschedule"}, job : Jobs]
Orders == Renders \cup Unlocked \cup Locking

Effect(o, v) ==
    CASE o.name = "edit_text"      -> edit_text(v, o.text)
      [] o.name = "approve"        -> approve(v, o.jobs, o.now)
      [] o.name = "reject"         -> reject_post(v)
      [] o.name = "logo_changed"   -> invalidate_posts_for_logo_change(v)
      [] o.name = "result_changed" -> invalidate_posts_for_result_change(v)
      [] o.name = "cancel"         -> cancel_job(v, o.job)
      [] o.name = "select_media"   -> select_media_version(v, o.slot, o.path)
      [] o.name = "auto_media"     -> select_latest_media_automatically(v, o.slot)
      [] o.name = "select_variant" -> select_publication_media_variant(v, o.job, o.slot)
      [] o.name = "select_text"    -> select_text_version(v, o.text)
      [] o.name = "auto_text"      -> select_latest_text_automatically(v)
      [] o.name = "channel_text"   -> post_channel_text(v)
      [] o.name = "delete"         -> delete_unpublished_post(v)
      [] o.name = "reschedule"     -> reschedule_publication_job(v, o.job)
      [] o.name = "rerender"       -> rerender_post(v, o.slot, o.path)
      [] o.name = "revise"         -> revise_post(v, o.slots, o.path, o.texts)
      [] o.name = "recompose"      -> recompose_post_logos(v, o.path)

Idle == [phase |-> "idle"]
Rendering == \E r \in Sessions : req[r].phase # "idle" /\ req[r].order \in Renders

\* Under the row lock on the post a request reads and writes as one step: every
\* other writer of the post waits for it.
Locked(o) ==
    /\ used < MaxRequests /\ lock = None
    /\ db.post.status # "deleted"
    /\ o.name = "delete" => ~Rendering
    /\ db' = Effect(o, db)
    /\ used' = used + 1
    /\ UNCHANGED <<req, lock, worker, gate, frozen, sent>>

\* Any other session first reads the post without a lock.  A session that is
\* rolled back is one that never gets further.
Begin(r, o, phase) ==
    /\ req[r].phase = "idle" /\ used < MaxRequests
    /\ db.post.status # "deleted"
    /\ req' = [req EXCEPT ![r] = [phase |-> phase, order |-> o, seen |-> db]]
    /\ used' = used + 1
    /\ UNCHANGED <<db, lock, worker, gate, frozen, sent>>

\* Two approvals at once mix the columns of what each has read ("approve").
Approving == \E r \in Sessions : req[r].phase # "idle" /\ req[r].order.name = "approve"
OpenRequest(r, o) ==
    /\ o \in Unlocked /\ Begin(r, o, "open")
    /\ o.name = "approve" /\ Approving => "approve" \in Overlapping

\* The worker takes up a job for new graphics or texts: one at a time (active_key),
\* and only for the version of the post it was ordered for.  Its files are new ones.
Claim(r, o) ==
    /\ o \in Renders
    /\ ~Rendering /\ \A s \in Slots : o.path \notin db.shelf[s] \cup {db.post.current[s]}
    /\ \A j \in Jobs : o.path # db.job[j].path
    /\ Begin(r, o, "loaded")

\* An unlocked request reads the other rows after the post; those that change
\* the post first have flushed it by then and hold its lock.
Load(r) ==
    LET o == req[r].order
        flushes == o.name \notin {"approve", "cancel"}
    IN /\ req[r].phase # "idle" /\ req[r].phase = "open"
       /\ flushes => lock = None
       /\ req' = [req EXCEPT ![r].phase = "loaded", ![r].seen = [db EXCEPT !.post = req[r].seen.post]]
       /\ lock' = IF flushes THEN r ELSE lock
       /\ UNCHANGED <<db, worker, gate, used, frozen, sent>>

\* A renderer reads slots and texts again when it registers its results.
Seen(r) == IF req[r].order \in Renders
           THEN [db EXCEPT !.post = req[r].seen.post, !.job = req[r].seen.job]
           ELSE req[r].seen

\* A request that counts the post's version up from a row that was overtaken counts
\* it back: an approval, or a graphics job, of a version that comes twice fits both.
\* A rejection does not count it: the answer of a worker that is sending restores the
\* post's status, and the rejected job still passes the worker's checks ("reject").
Overtaken(r) == db.post # req[r].seen.post
MayOverlap(o) ==
    \/ o.name \in {"approve", "reject", "cancel"}
    \/ o.name \in {"logo_changed", "result_changed"} /\ "revoke" \in Overlapping
    \/ o \in Renders /\ "render" \in Overlapping
    \/ o.name = "edit_text" /\ "edit_text" \in Overlapping

Commit(r) ==
    LET o == req[r].order
        new == Effect(o, Seen(r))
    IN /\ req[r].phase # "idle" /\ req[r].phase = "loaded"
       /\ lock = r \/ lock = None
       /\ Overtaken(r) => MayOverlap(o)
       /\ (o.name = "reject" /\ worker.phase # "idle") => "reject" \in Overlapping
       /\ db' = IF db.post.status = "deleted" THEN db ELSE Merge(Seen(r), new)
       /\ frozen' = IF o.name = "approve" /\ new # Seen(r)
                    THEN [j \in Jobs |->
                            IF j \in o.jobs
                            THEN [path |-> new.job[j].path, text |-> new.job[j].text,
                                  version |-> new.job[j].approvedVersion]
                            ELSE frozen[j]]
                    ELSE frozen
       /\ req' = [req EXCEPT ![r] = Idle]
       /\ lock' = IF lock = r THEN None ELSE lock
       /\ UNCHANGED <<worker, gate, used, sent>>

(***************************************************************************)
(* The dry-run worker (worker.py, publishing/worker.py): one session for   *)
(* the whole list of due jobs.  `cached` names the rows it would not read  *)
(* again; a job that goes to the publisher expires them all.               *)
(***************************************************************************)
Sleeping == [phase |-> "idle", due |-> {}, cached |-> {}, job |-> "feed", seen |-> Fresh]

ListDue ==
    LET due == {j \in Jobs : db.job[j].status \in {"scheduled", "retry"}} IN
    /\ worker.phase = "idle" /\ due # {} /\ db.post.status # "deleted"
    /\ worker' = [Sleeping EXCEPT !.phase = "list", !.due = due, !.cached = due, !.seen = db]
    /\ UNCHANGED <<db, req, lock, gate, used, frozen, sent>>

\* The rows as the worker's session holds them.
Held == [db EXCEPT !.post = IF "post" \in worker.cached THEN worker.seen.post ELSE @,
                   !.job = [j \in Jobs |-> IF j \in worker.cached THEN worker.seen.job[j] ELSE @[j]]]

PostGate(v) == v.post.status \in Released
\* Mutant of VersionGate: The worker trusts the post's status alone.
NoVersionGate(v, j) == TRUE
VersionGate(v, j) == v.post.version = v.job[j].approvedVersion

\* _reject_before_publish: a temporary gate puts the job back, a changed version revokes it.
Refused(v, j, temporary, version) ==
    IF temporary THEN WithJob(v, j, [v.job[j] EXCEPT !.status = "scheduled"])
    ELSE WithJob(WithPost(v, [v.post EXCEPT !.status = IF version THEN "reapproval" ELSE @]), j,
                 [v.job[j] EXCEPT !.status = "unapproved", !.approval = "reapproval_required"])

\* Rows written by the worker: the job, and the post once its lock is free.
Write(v, new) ==
    /\ new.post # v.post => lock = None
    /\ db' = IF db.post.status = "deleted" THEN db ELSE Merge(v, new)

TakenUp(v, j) ==
    WithJob(v, j, [v.job[j] EXCEPT !.status = "publishing", !.attempts = @ + 1])

Checked(j) ==
    LET v == Held
        open == gate # "stop" /\ PostGate(v)
        pass == open /\ VersionGate(v, j) /\ gate # "blocked" /\ v.job[j].past
    IN /\ worker.phase = "list" /\ j \in worker.due
       /\ IF v.job[j].status \in {"published", "publishing"}
          THEN /\ worker' = [worker EXCEPT !.due = @ \ {j}]
               /\ UNCHANGED db
          ELSE IF pass
          THEN /\ Write(v, TakenUp(v, j))
               /\ worker' = [worker EXCEPT !.phase = "claimed", !.due = @ \ {j},
                                           !.cached = {}, !.job = j, !.seen = Fresh]
          ELSE LET new == Refused(v, j, ~open \/ VersionGate(v, j), TRUE)
               IN /\ Write(v, new)
                  /\ worker' = [worker EXCEPT !.due = @ \ {j}, !.seen = new,
                                              !.cached = worker.cached \cup {"post", j}]
       /\ UNCHANGED <<req, lock, gate, used, frozen, sent>>

\* The check right before the publisher is called, on rows read again.
FinalCheck ==
    LET j == worker.job
        ok == gate # "stop" /\ PostGate(db) /\ VersionGate(db, j) /\ gate # "blocked"
    IN /\ worker.phase = "claimed"
       /\ IF ok
          THEN /\ sent' = sent \cup {[job |-> j, path |-> db.job[j].path, text |-> db.job[j].text,
                                      attempt |-> db.job[j].attempts]}
               /\ worker' = [worker EXCEPT !.phase = "sending", !.seen = db]
               /\ UNCHANGED db
          ELSE /\ Write(db, Refused(db, j, gate = "stop", PostGate(db) /\ ~VersionGate(db, j)))
               /\ worker' = [worker EXCEPT !.phase = "list"]
               /\ UNCHANGED sent
       /\ UNCHANGED <<req, lock, gate, used, frozen>>

Finished == {"published", "skipped", "cancelled"}

Answered(v, j, outcome, all) ==
    IF outcome # "ok"
    THEN WithJob(v, j, [v.job[j] EXCEPT !.status =
              IF outcome = "retry" /\ v.job[j].attempts < MaxAttempts THEN "retry"
              ELSE IF outcome = "unclear" THEN "uncertain" ELSE "failed"])
    ELSE WithJob(WithPost(v, [v.post EXCEPT !.status = IF all THEN "published" ELSE "partial"]), j,
                 [v.job[j] EXCEPT !.status = "published", !.platform = TRUE])

Answer ==
    LET j == worker.job
        all == \A k \in Jobs \ {j} : db.job[k].status \in Finished
    IN /\ worker.phase = "sending"
       /\ \E outcome \in Outcomes : Write(worker.seen, Answered(worker.seen, j, outcome, all))
       /\ worker' = [worker EXCEPT !.phase = "list", !.seen = Fresh]
       /\ UNCHANGED <<req, lock, gate, used, frozen, sent>>

\* The list is done, or the process dies with the job still "publishing".
EndList ==
    /\ worker.phase = "list" /\ worker.due = {}
    /\ worker' = Sleeping
    /\ UNCHANGED <<db, req, lock, gate, used, frozen, sent>>
Crash ==
    /\ worker.phase # "idle"
    /\ used < MaxRequests /\ used' = used + 1
    /\ worker' = Sleeping
    /\ UNCHANGED <<db, req, lock, gate, frozen, sent>>

(***************************************************************************)
(* The surroundings                                                        *)
(***************************************************************************)
\* The scheduled times pass, for all jobs of the post together.
TimePasses ==
    /\ \E j \in Jobs : ~db.job[j].past
    /\ db' = [db EXCEPT !.job = [j \in Jobs |-> [@[j] EXCEPT !.past = TRUE]]]
    /\ UNCHANGED <<req, lock, worker, gate, used, frozen, sent>>
SwitchGate ==
    /\ used < MaxRequests /\ used' = used + 1
    /\ gate' \in {"open", "stop", "blocked"} \ {gate}
    /\ UNCHANGED <<db, req, lock, worker, frozen, sent>>

\* A rule of the team, or an administrator, has approved it once.
ReviewInit ==
    /\ db = approve(Fresh, Jobs, FALSE)
    /\ req = [r \in Sessions |-> Idle] /\ lock = None /\ used = 0
    /\ worker = Sleeping
    /\ gate = "open"
    /\ frozen = [j \in Jobs |-> [path |-> db.job[j].path, text |-> db.job[j].text,
                                version |-> db.job[j].approvedVersion]]
    /\ sent = {}

ReviewNext ==
    \/ \E r \in Sessions :
          \/ \E o \in {x \in Unlocked : Menu(x)} : OpenRequest(r, o)
          \/ \E o \in {x \in Renders : Menu(x)} : Claim(r, o)
          \/ Load(r) \/ Commit(r)
    \/ \E o \in {x \in Locking : Menu(x)} : Locked(o)
    \/ ListDue \/ (\E j \in Jobs : Checked(j)) \/ FinalCheck \/ Answer \/ EndList \/ Crash
    \/ TimePasses \/ SwitchGate

ReviewSpec == ReviewInit /\ [][ReviewNext]_reviewVars

(***************************************************************************)
(* Properties                                                              *)
(***************************************************************************)
\* Every row, session and publication has its type.
ReviewTypeOK ==
    /\ db \in View
    /\ lock \in Sessions \cup {None} /\ used \in 0..MaxRequests
    /\ \A r \in Sessions : req[r].phase # "idle" => req[r].order \in Orders /\ req[r].seen \in View
    /\ worker.due \subseteq Jobs /\ worker.seen \in View
    /\ \A x \in sent : x.job \in Jobs /\ x.path \in Paths /\ x.text \in Texts

\* "Freigaben binden konkrete Text- und Medienversionen" (README.md:250): what goes
\* to the publisher is the text and the file the job's last approval bound.
ApprovalBindsContent ==
    \A x \in sent : x.path = frozen[x.job].path /\ x.text = frozen[x.job].text

\* A job that can go out (scheduled, approved for the post's version) carries the
\* versions that are selected now: no selection slips past an approval.
ApprovalCurrent ==
    \A j \in Jobs :
        (/\ db.job[j].status = "scheduled" /\ PostGate(db) /\ VersionGate(db, j))
        => /\ db.job[j].text = db.post.tsel
           /\ db.job[j].path \in {db.slot[s].sel : s \in {t \in Slots : Kind[t] = j}}

\* So a publication carries what was reviewed: the approval binds the versions that
\* are current when it is given, and only those go out (VersionGate,
\* freeze_publication_versions).
ApprovalHolds == ApprovalBindsContent /\ ApprovalCurrent

\* What a platform has accepted is never handed to the publisher again, whatever
\* edits, approvals and cancellations overtake the worker.
NeverResent ==
    [][\A j \in Jobs : db.job[j].platform =>
          {x \in sent' : x.job = j} = {x \in sent : x.job = j}]_reviewVars
=============================================================================
