---------------------------- MODULE GenerationJobs ----------------------------
(***************************************************************************)
(* Generation jobs: the queue rows a user or the planner creates, the      *)
(* workers that claim them under a lease, the paid provider calls that     *)
(* produce a post's text and images, the monthly quota those calls reserve *)
(* and are billed against, and the retries, cancellations, recoveries and  *)
(* manual restarts around them (app/jobs/generation.py, create_post,       *)
(* app/usage/service.py, the AI renderer's reuse of saved files).          *)
(*                                                                         *)
(* A step of a worker ends where its transaction commits; a worker may die *)
(* between any two of them.  Output 0 is a post's text, outputs 1..Images  *)
(* are its feed and story images in the order they are rendered.           *)
(***************************************************************************)
EXTENDS Integers, FiniteSets

CONSTANTS
    Jobs,           \* rows of generation_jobs
    Games,          \* games of one club; one post type
    Workers,        \* worker processes
    Images,         \* images of a post (planned_outputs)
    MaxRetries,     \* EXTERNAL_OUTPUT_MAX_RETRIES
    MaxAttempts,    \* max_attempts of a job
    Limit,          \* monthly quota: [{"text", "image"} -> Nat]
    Perils,         \* which of the behaviours below the environment shows
    None            \* no job, no game

(***************************************************************************)
(* Perils:                                                                 *)
(*   "slow_call"     a provider call outlasts the 300 s of the lease       *)
(*   "stale_cancel"  a cancel request read the job as waiting just before  *)
(*                   a worker claimed it                                   *)
(***************************************************************************)
ASSUME ConstantsAssumption ==
    /\ Images \in Nat \ {0}
    /\ MaxRetries \in Nat
    /\ MaxAttempts \in Nat \ {0}
    /\ Limit \in [{"text", "image"} -> Nat]
    /\ Perils \subseteq {"slow_call", "stale_cancel"}
    /\ None \notin Jobs \cup Games

VARIABLES
    job,    \* the rows of generation_jobs
    post,   \* the active post of each game
    files,  \* images on disk, under the name of the job that rendered them
    open,   \* ledger entries of a job's output in provider_processing
    paid,   \* ledger entries of a job's output completed_billable
    calls,  \* history: provider calls made for a job's output
    sess    \* what each worker is doing

vars == <<job, post, files, open, paid, calls, sess>>

Outputs == 0 .. Images
Kind(o) == IF o = 0 THEN "text" ELSE "image"

Waiting == {"queued", "retry_wait"}
Active == Waiting \cup {"running"}
Terminal == {"succeeded", "failed", "cancelled", "manual_review"}
SafeRetryPhases == {"preparing", "saving"}

(***************************************************************************)
(* The phases "checking" and "saving" stand for validating_final_media and *)
(* for validating and saving; "generating" for every phase whose name      *)
(* starts with generating_.                                                *)
(***************************************************************************)
Phases == {"preparing", "generating", "checking", "saving", "completed"}

PcNames == {"idle", "claimed", "start", "render", "reserved", "calling",
            "written", "saved", "save", "finish"}

JobRow == [game : Games \cup {None}, status : Active \cup Terminal \cup {"unused"},
           phase : Phases, lease : {"none", "valid", "expired"}, keyed : BOOLEAN,
           cancel : BOOLEAN, attempts : 0 .. MaxAttempts,
           retries : [Outputs -> 0 .. MaxRetries], source : Jobs \cup {None}]
PostRow == [status : {"none", "creating", "incomplete", "pending"}, text : BOOLEAN]
Session == [job : Jobs \cup {None}, pc : PcNames, at : 0 .. Images + 1]

NoSess == [job |-> None, pc |-> "idle", at |-> 0]

NewJob(g, source) ==
    [game |-> g, status |-> "queued", phase |-> "preparing", lease |-> "none",
     keyed |-> TRUE, cancel |-> FALSE, attempts |-> 0,
     retries |-> [o \in Outputs |-> 0], source |-> source]

NoPost == [status |-> "none", text |-> FALSE]

Zero == [o \in Outputs |-> 0]

Init ==
    /\ job = [j \in Jobs |-> [NewJob(None, None) EXCEPT !.status = "unused",
                                                        !.keyed = FALSE]]
    /\ post = [g \in Games |-> NoPost]
    /\ files = {}
    /\ open = [j \in Jobs |-> Zero]
    /\ paid = [j \in Jobs |-> Zero]
    /\ calls = [j \in Jobs |-> Zero]
    /\ sess = [w \in Workers |-> NoSess]

-----------------------------------------------------------------------------
(* Helpers *)

Job(w) == sess[w].job
Game(w) == job[Job(w)].game
AtPc(w, pc) == sess[w].pc = pc
GoTo(w, pc) == [sess EXCEPT ![w].pc = pc]
CancelSeen(w) == job[Job(w)].cancel

\* _phase without its cancel check: the phase and a fresh lease.
InPhase(j, phase) == [job EXCEPT ![j].phase = phase, ![j].lease = "valid"]

\* _finish with a terminal status.
Ended(r, status) == [r EXCEPT !.status = status, !.keyed = FALSE, !.lease = "none"]

\* The row goes back to the queue (database error or unclear answer).
Requeued(r, status) == [r EXCEPT !.status = status, !.lease = "none"]

\* _capture_partial_post: whatever post the game has becomes incomplete.
Captured(p) == IF p.status = "none" THEN p ELSE [p EXCEPT !.status = "incomplete"]

\* The ledger's entries of one kind that are reserved or billed; each is for one unit.
Entries(kind) ==
    UNION {{<<j, o, n>> : n \in 1 .. open[j][o] + paid[j][o]} :
               j \in Jobs, o \in {p \in Outputs : Kind(p) = kind}}

\* usage_summary: what counts against the monthly quota.
Used(kind) == Cardinality(Entries(kind))

\* The ledger of the job holds a usable result.
UsableOutput(j) == \E o \in Outputs : paid[j][o] > 0

(***************************************************************************)
(* The end of process_generation_job's handlers: the partial post is       *)
(* captured, every unfinished reservation of the job is released and the   *)
(* row gets its final status, in one transaction.                          *)
(***************************************************************************)
EndJob(w, status) ==
    /\ job' = [job EXCEPT ![Job(w)] = Ended(@, status)]
    /\ post' = [post EXCEPT ![Game(w)] = Captured(@)]
    /\ open' = [open EXCEPT ![Job(w)] = Zero]
    /\ sess' = [sess EXCEPT ![w] = NoSess]

-----------------------------------------------------------------------------
(* Requests of users *)

\* MUTANT: neither key is asked for.
Enqueue_NoKey(j, g) ==
    /\ job[j].status = "unused"
    /\ post[g].status = "none"
    /\ job' = [job EXCEPT ![j] = NewJob(g, j)]
    /\ UNCHANGED <<post, files, open, paid, calls, sess>>

\* enqueue_create: refused when the game has a post, or ever had this job.
Enqueue(j, g) ==
    /\ job[j].status = "unused"
    /\ post[g].status = "none"
    /\ \A k \in Jobs : job[k].game # g
    /\ job' = [job EXCEPT ![j] = NewJob(g, j)]
    /\ UNCHANGED <<post, files, open, paid, calls, sess>>

\* The partial post a restart would continue.
Resumable(g) == post[g].status \in {"creating", "incomplete"}

\* The job whose files the restart k of job j may take: resume_generation_job_id,
\* which an earlier restart may have left, or its own.
SourceOf(j, k) ==
    CASE Resumable(job[j].game) -> j
      [] ~Resumable(job[j].game) /\ job[j].source # j -> job[j].source
      [] OTHER -> k

(***************************************************************************)
(* retry_job: a new row with fresh budgets.  The confirmation that a usable*)
(* output asks for is the user's to give, so it is no guard here.          *)
(***************************************************************************)
RetryJob(j, k) ==
    /\ job[j].status \in {"failed", "manual_review"}
    /\ job[k].status = "unused"
    /\ \A i \in Jobs : job[i].game = job[j].game => ~job[i].keyed
    /\ job' = [job EXCEPT ![k] = NewJob(job[j].game, SourceOf(j, k))]
    /\ UNCHANGED <<post, files, open, paid, calls, sess>>

\* request_cancel of a job the request read as waiting.
CancelWaiting(j) ==
    /\ \/ job[j].status \in Waiting
       \/ job[j].status = "running" /\ "stale_cancel" \in Perils
    /\ job' = [job EXCEPT ![j].status = "cancelled", ![j].cancel = TRUE,
                          ![j].keyed = FALSE]
    /\ UNCHANGED <<post, files, open, paid, calls, sess>>

\* request_cancel of a running job only leaves a wish.
CancelRunning(j) ==
    /\ job[j].status = "running"
    /\ ~job[j].cancel
    /\ job' = [job EXCEPT ![j].cancel = TRUE]
    /\ UNCHANGED <<post, files, open, paid, calls, sess>>

-----------------------------------------------------------------------------
(* Leases *)

InHand(j) == \E w \in Workers : sess[w].job = j

LeaseExpires(j) ==
    /\ job[j].status = "running"
    /\ job[j].lease = "valid"
    /\ InHand(j) => "slow_call" \in Perils
    /\ job' = [job EXCEPT ![j].lease = "expired"]
    /\ UNCHANGED <<post, files, open, paid, calls, sess>>

\* MUTANT: only jobs lost during a call are looked for.
Stale_Generating(j) ==
    job[j].status = "running" /\ job[j].lease = "expired" /\ job[j].phase = "generating"

Stale(j) == job[j].status = "running" /\ job[j].lease = "expired"

Recovered(r) ==
    IF r.phase = "generating"
      THEN Ended(r, "manual_review")
      ELSE Requeued(r, "queued")

\* recover_stale_jobs: all expired rows in one transaction.
RecoverStale ==
    /\ \E j \in Jobs : Stale(j)
    /\ job' = [j \in Jobs |-> IF Stale(j) THEN Recovered(job[j]) ELSE job[j]]
    /\ UNCHANGED <<post, files, open, paid, calls, sess>>

Claimable(j) == job[j].status \in Waiting /\ ~job[j].cancel

\* claim_next; attempts saturate where nothing tells them apart any more.
Claim(w, j) ==
    /\ AtPc(w, "idle")
    /\ Claimable(j)
    /\ job' = [job EXCEPT ![j].status = "running", ![j].phase = "preparing",
                          ![j].lease = "valid",
                          ![j].attempts = IF @ < MaxAttempts THEN @ + 1 ELSE @]
    /\ sess' = [sess EXCEPT ![w] = [job |-> j, pc |-> "claimed", at |-> 0]]
    /\ UNCHANGED <<post, files, open, paid, calls>>

(***************************************************************************)
(* The worker dies, or the loop passes over the job of a blocked club: the *)
(* row stays as it is until its lease runs out.                            *)
(***************************************************************************)
Lose(w) ==
    /\ ~AtPc(w, "idle")
    /\ sess' = [sess EXCEPT ![w] = NoSess]
    /\ UNCHANGED <<job, post, files, open, paid, calls>>

-----------------------------------------------------------------------------
(* The steps of process_generation_job *)

\* The checks passed: preparing, then generating_text.
Start(w) ==
    /\ AtPc(w, "claimed")
    /\ ~CancelSeen(w)
    /\ job' = InPhase(Job(w), "generating")
    /\ sess' = GoTo(w, "start")
    /\ UNCHANGED <<post, files, open, paid, calls>>

\* create_post returns an existing post that is not INCOMPLETE as it is.
ExistingPost(w) ==
    /\ AtPc(w, "start")
    /\ post[Game(w)].status \in {"creating", "pending"}
    /\ sess' = GoTo(w, "save")
    /\ UNCHANGED <<job, post, files, open, paid, calls>>

\* create_post opens a new post or resumes an incomplete one and its text.
OpenPost(w) ==
    /\ AtPc(w, "start")
    /\ post[Game(w)].status \in {"none", "incomplete"}
    /\ ~CancelSeen(w)
    /\ post' = [post EXCEPT ![Game(w)].status = "creating"]
    /\ job' = InPhase(Job(w), "generating")
    /\ sess' = [sess EXCEPT ![w].pc = "render",
                            ![w].at = IF post[Game(w)].text THEN 1 ELSE 0]
    /\ UNCHANGED <<files, open, paid, calls>>

\* The next output; the first image's phase commits the text with it.
NextOutput(w, o) ==
    /\ AtPc(w, "render")
    /\ sess[w].at = o
    /\ ~CancelSeen(w)
    /\ job' = InPhase(Job(w), "generating")

WithText(p, o) == [p EXCEPT !.text = @ \/ o > 0]

TextCommitted(w, o) == [post EXCEPT ![Game(w)] = WithText(@, o)]

\* A file of the job named by _reuse_generation_job_id is taken at no cost.
Reusable(w, o) == o > 0 /\ <<job[Job(w)].source, o>> \in files

Reuse(w) ==
    \E o \in 1 .. Images :
        /\ NextOutput(w, o)
        /\ Reusable(w, o)
        /\ post' = TextCommitted(w, o)
        /\ sess' = [sess EXCEPT ![w].at = o + 1]
        /\ UNCHANGED <<files, open, paid, calls>>

\* MUTANT: off by one.
QuotaLeft_Closed(o) == Used(Kind(o)) <= Limit[Kind(o)]

QuotaLeft(o) == Used(Kind(o)) < Limit[Kind(o)]

(***************************************************************************)
(* _before_provider reserves the quota and commits; the renderer then      *)
(* finds a file of its own job, or goes on to the call.                    *)
(***************************************************************************)
Reserve(w) ==
    \E o \in Outputs :
        /\ NextOutput(w, o)
        /\ ~Reusable(w, o)
        /\ QuotaLeft(o)
        /\ post' = TextCommitted(w, o)
        /\ open' = [open EXCEPT ![Job(w)][o] = @ + 1]
        /\ sess' = GoTo(w, IF <<Job(w), o>> \in files THEN "saved" ELSE "reserved")
        /\ UNCHANGED <<files, paid, calls>>

\* The request goes out; generating_ai_composition is committed before it.
CallProvider(w) ==
    /\ AtPc(w, "reserved")
    /\ \/ sess[w].at = 0 /\ UNCHANGED job
       \/ sess[w].at > 0 /\ ~CancelSeen(w) /\ job' = InPhase(Job(w), "generating")
    /\ calls' = [calls EXCEPT ![Job(w)][sess[w].at] = @ + 1]
    /\ sess' = GoTo(w, "calling")
    /\ UNCHANGED <<post, files, open, paid>>

\* QuotaExceeded ends the job as failed.
QuotaExceeded(w) ==
    \E o \in Outputs :
        /\ AtPc(w, "render")
        /\ sess[w].at = o
        /\ ~CancelSeen(w)
        /\ ~Reusable(w, o)
        /\ ~QuotaLeft(o)
        /\ job' = [job EXCEPT ![Job(w)] = Ended([@ EXCEPT !.phase = "generating"], "failed")]
        /\ post' = [post EXCEPT ![Game(w)] = WithText(Captured(@), o)]
        /\ open' = [open EXCEPT ![Job(w)] = Zero]
        /\ sess' = [sess EXCEPT ![w] = NoSess]
        /\ UNCHANGED <<files, paid, calls>>

\* complete_usage: one reservation becomes a billed entry.
Billed(w, o) ==
    /\ open' = [open EXCEPT ![Job(w)][o] = IF @ > 0 THEN @ - 1 ELSE 0]
    /\ paid' = [paid EXCEPT ![Job(w)][o] = @ + 1]

TextAnswered(w) ==
    /\ AtPc(w, "calling")
    /\ sess[w].at = 0
    /\ Billed(w, 0)
    /\ sess' = [sess EXCEPT ![w].pc = "render", ![w].at = 1]
    /\ UNCHANGED <<job, post, files, calls>>

\* The image is on disk; nothing is committed yet.
ImageWritten(w) ==
    /\ AtPc(w, "calling")
    /\ sess[w].at > 0
    /\ files' = files \cup {<<Job(w), sess[w].at>>}
    /\ sess' = GoTo(w, "written")
    /\ UNCHANGED <<job, post, open, paid, calls>>

\* validating_final_media, still before the entry is completed.
ImageChecked(w) ==
    /\ AtPc(w, "written")
    /\ ~CancelSeen(w)
    /\ job' = InPhase(Job(w), "checking")
    /\ sess' = GoTo(w, "saved")
    /\ UNCHANGED <<post, files, open, paid, calls>>

ImageBilled(w) ==
    /\ AtPc(w, "saved")
    /\ Billed(w, sess[w].at)
    /\ sess' = [sess EXCEPT ![w].pc = "render", ![w].at = @ + 1]
    /\ UNCHANGED <<job, post, files, calls>>

\* The last output is there: create_post stores the publication jobs.
Assemble(w) ==
    /\ NextOutput(w, Images + 1)
    /\ post' = [post EXCEPT ![Game(w)] = [status |-> "pending", text |-> TRUE]]
    /\ sess' = GoTo(w, "save")
    /\ UNCHANGED <<files, open, paid, calls>>

Save(w) ==
    /\ AtPc(w, "save")
    /\ ~CancelSeen(w)
    /\ job' = InPhase(Job(w), "saving")
    /\ sess' = GoTo(w, "finish")
    /\ UNCHANGED <<post, files, open, paid, calls>>

\* _finalize_job_usage and _finish(SUCCEEDED).
Finish(w) ==
    /\ AtPc(w, "finish")
    /\ job' = [job EXCEPT ![Job(w)] =
                   Ended([@ EXCEPT !.phase = "completed"], "succeeded")]
    /\ open' = [open EXCEPT ![Job(w)] = Zero]
    /\ sess' = [sess EXCEPT ![w] = NoSess]
    /\ UNCHANGED <<post, files, paid, calls>>

-----------------------------------------------------------------------------
(* Its exception handlers *)

\* GenerationCancelled, raised where _check_cancel is called.
CancelNoticed(w) ==
    /\ \/ sess[w].pc \in {"claimed", "render", "written", "save"}
       \/ AtPc(w, "reserved") /\ sess[w].at > 0
       \/ AtPc(w, "start") /\ post[Game(w)].status \in {"none", "incomplete"}
    /\ CancelSeen(w)
    /\ EndJob(w, "cancelled")
    /\ UNCHANGED <<files, paid, calls>>

\* Any definite error: lost rights, a changed game, a refused request.
Fails(w) ==
    /\ ~AtPc(w, "idle")
    /\ EndJob(w, "failed")
    /\ UNCHANGED <<files, paid, calls>>

\* LogoValidationError: a frozen logo was changed or is missing.
LogoUnavailable(w) ==
    /\ AtPc(w, "claimed")
    /\ EndJob(w, "manual_review")
    /\ UNCHANGED <<files, paid, calls>>

\* OperationalError: the reservations stay when the job is queued again.
DatabaseError(w) ==
    /\ sess[w].pc \notin {"idle", "calling"}
    /\ job[Job(w)].attempts < MaxAttempts
    /\ job[Job(w)].phase \in SafeRetryPhases
    /\ job' = [job EXCEPT ![Job(w)] = Requeued(@, "retry_wait")]
    /\ post' = [post EXCEPT ![Game(w)] = Captured(@)]
    /\ sess' = [sess EXCEPT ![w] = NoSess]
    /\ UNCHANGED <<files, open, paid, calls>>

\* The conditions under which an unclear answer is tried again.
CanRetryExternal(w) ==
    /\ job[Job(w)].phase = "generating"
    /\ job[Job(w)].retries[sess[w].at] < MaxRetries
    /\ job[Job(w)].attempts < MaxAttempts

\* _discard_empty_partial_post: a shell without text is deleted.
Discarded(j, p) ==
    IF ~UsableOutput(j) /\ ~p.text THEN NoPost ELSE Captured(p)

\* MUTANT: the retry is not written into the retry map.
RetryCounted_Not(r, o) == r
RetryCounted(r, o) == [r EXCEPT !.retries[o] = @ + 1]

\* A timeout or a broken connection: _schedule_external_retry.
UnclearRetried(w) ==
    /\ AtPc(w, "calling")
    /\ CanRetryExternal(w)
    /\ job' = [job EXCEPT ![Job(w)] =
                   Requeued(RetryCounted(@, sess[w].at), "retry_wait")]
    /\ post' = [post EXCEPT ![Game(w)] = Discarded(Job(w), @)]
    /\ open' = [open EXCEPT ![Job(w)] = Zero]
    /\ sess' = [sess EXCEPT ![w] = NoSess]
    /\ UNCHANGED <<files, paid, calls>>

\* The budget is used up: a person has to look at it.
UnclearReviewed(w) ==
    /\ AtPc(w, "calling")
    /\ ~CanRetryExternal(w)
    /\ job[Job(w)].phase = "generating"
    /\ EndJob(w, "manual_review")
    /\ UNCHANGED <<files, paid, calls>>

-----------------------------------------------------------------------------
User == \/ \E j \in Jobs, g \in Games : Enqueue(j, g)
        \/ \E j, k \in Jobs : RetryJob(j, k)
        \/ \E j \in Jobs : CancelWaiting(j)
        \/ \E j \in Jobs : CancelRunning(j)

Work(w) ==
    \/ Start(w) \/ ExistingPost(w) \/ OpenPost(w)
    \/ Reuse(w) \/ Reserve(w) \/ QuotaExceeded(w) \/ CallProvider(w)
    \/ TextAnswered(w) \/ ImageWritten(w) \/ ImageChecked(w) \/ ImageBilled(w)
    \/ Assemble(w) \/ Save(w) \/ Finish(w)
    \/ CancelNoticed(w) \/ Fails(w) \/ LogoUnavailable(w) \/ DatabaseError(w)
    \/ UnclearRetried(w) \/ UnclearReviewed(w)

ClaimSome(w) == \E j \in Jobs : Claim(w, j)

Next ==
    \/ User
    \/ \E j \in Jobs : LeaseExpires(j)
    \/ RecoverStale
    \/ \E w \in Workers : ClaimSome(w)
    \/ \E w \in Workers : Work(w)
    \/ \E w \in Workers : Lose(w)

Spec == Init /\ [][Next]_vars

(***************************************************************************)
(* The worker loop claims every few seconds, a call ends by answer or by   *)
(* timeout, and a lease runs out by the clock.  Workers may die, and jobs  *)
(* of blocked clubs be passed over, any number of times but not for ever.  *)
(***************************************************************************)
Fairness ==
    /\ WF_vars(RecoverStale)
    /\ \A j \in Jobs : WF_vars(LeaseExpires(j))
    /\ \A w \in Workers :
          /\ <>[][~Lose(w)]_vars
          /\ WF_vars(ClaimSome(w))
          /\ WF_vars(Work(w))

FairSpec == Spec /\ Fairness

-----------------------------------------------------------------------------
(* Properties *)

\* Every variable stays within its type.
TypeOK ==
    /\ job \in [Jobs -> JobRow]
    /\ post \in [Games -> PostRow]
    /\ files \subseteq Jobs \X (1 .. Images)
    /\ open \in [Jobs -> [Outputs -> Nat]]
    /\ paid \in [Jobs -> [Outputs -> Nat]]
    /\ calls \in [Jobs -> [Outputs -> Nat]]
    /\ sess \in [Workers -> Session]

\* A game has at most one job that a worker may still run, also across
\* timeouts, recoveries and manual restarts.
OneActiveJob ==
    \A j, k \in Jobs :
        /\ job[j].status \in Active /\ job[k].status \in Active
        /\ job[j].game = job[k].game
        => j = k

\* Two workers never generate for the same game at the same time.
OneWorkerPerGame ==
    \A v, w \in Workers :
        Job(v) # None /\ Job(w) # None /\ Game(v) = Game(w) => v = w

\* A game is worked on by one job and one worker (claim_next, retry_job).
OneAtATime == OneActiveJob /\ OneWorkerPerGame

\* The provider is called again for an output of a job only when the job's
\* retry map counts it: a worker's death never repeats a paid call.
CallsCounted ==
    \A j \in Jobs, o \in Outputs : calls[j][o] <= 1 + job[j].retries[o]

\* Reservations and bills together never pass the monthly quota.
QuotaKept == \A kind \in {"text", "image"} : Used(kind) <= Limit[kind]

\* A job that succeeded or failed holds no part of the quota, not even for the
\* calls of attempts whose worker died.
EndedHoldsNoQuota ==
    \A j \in Jobs : job[j].status \in {"succeeded", "failed"} => open[j] = Zero

\* What is paid is accounted for: no call is repeated unseen and no reservation is
\* left behind (_schedule_external_retry, _finalize_job_usage).
CallsAccounted == CallsCounted /\ EndedHoldsNoQuota

\* A waiting job that nobody cancels comes to an end.
JobEnds ==
    \A j \in Jobs :
        job[j].status \in Waiting ~> job[j].status \in Terminal \/ job[j].cancel
=============================================================================
