# TLA+ models of SocialMediaAgent

SocialMediaAgent is a FastAPI application with one background worker loop. It creates social-media
posts for sports clubs (text and images from paid providers), has them approved by people, and
publishes them on Instagram, Facebook and WhatsApp. Four promises run through its documents:

- an external write is never repeated blindly: what is unclear stays `uncertain` until a person looks
  (ARCHITECTURE.md:57-59, docs/AUTOMATIC_PUBLISHING.md:109-111);
- nothing is published that is not approved in its present version (README.md:250);
- paid provider calls and stored bytes are counted, limited and not repeated behind the user's back
  (docs/GENERATION_JOBS.md);
- what reporters, FUSSBALL.DE and FuPa say about a game becomes its result once, and only after it was
  read twice or confirmed (docs/AUTOMATIC_FUSSBALL.md, docs/LIVE_CENTER.md).

All of them depend on orders of commits, calls, crashes and clicks that unit tests hardly reach. The
modules here model the code behind them, TLC checks small instances, and TLAPS proves the central
properties of every part for every instance.

## 1. Inventory

### How the parts interact

Everything meets in the database. Web requests (dashboard, webhooks) and worker cycles are sessions
of their own; they see each other through committed rows, PostgreSQL row locks (`FOR UPDATE`, often
`SKIP LOCKED`) and unique keys. Three facts about sessions explain most of what is hard here:

- `SessionLocal` keeps loaded rows after a commit (`expire_on_commit=False`, app/db.py:36), so a
  session may decide on values it read earlier;
- selecting a row again, even `FOR UPDATE`, does not refresh a row the session already holds (only
  `posts/separation.py` asks for it with `populate_existing`);
- a flush writes the columns whose value differs from the one that was read, and nothing else; no table
  has a `version_id_col`.

`app/worker.py` runs one cycle every few seconds: synchronisation, match reports, generation jobs, then
publication (dry-run, or Instagram, channels and live).

| Component | State | Operations | Hard behaviour | Correct when | Module |
|---|---|---|---|---|---|
| Instagram attempts and scheduler (`meta/publishing.py`, `meta/scheduler.py`) | `meta_publishing_attempts`, status and platform id of the job, status of the post | create attempt, container, status, publish, reconcile; list, mark interrupted, step | a commit before every external call; crash or timeout in the call; stale candidate lists | a job goes live at most once; unclear stays unclear; interrupted calls are noticed | MetaPublishing |
| Review (`approvals/service.py`, `posts/media_versions.py`, routes) | versions of text and media, selections, approvals | edit, select, approve, reject, cancel, reschedule, rerender, revise | sessions read without locks and write over each other | what is sent is what was approved | PostReview |
| Dry-run worker (`publishing/worker.py`, `schedule.py`) | job status, attempts | list, check, claim, send | rows cached for the whole list | as above; nothing is sent twice | PostReview |
| Channel delivery (`channels/delivery.py`, `jobs.py`, `webhooks.py`) | `channel_delivery_attempts`, the job | list, gate, claim, send, tally, mark error; receipts, STOP | lock given up at the first commit; partial failure; retries | nobody gets a message twice; a released job settles | ChannelDelivery |
| Connections (`meta/oauth.py`, `meta/connection_health.py`, `channels/oauth.py`, `channels/routes.py`) | connections, tokens, login states, webhooks, emergency stop | log in, select, refresh, check, disconnect, settings | answers of platforms that arrive after a disconnect; two redirects of one login | a login connects once; a disconnected row has no token | Connections |
| Generation jobs and usage (`jobs/generation.py`, `usage/service.py`) | `generation_jobs`, leases, retry maps, ledger | enqueue, claim, process, recover, retry, cancel; reserve, complete, release | paid calls, leases, crashes, three kinds of retry | one job and worker per game; calls counted; quota kept; jobs end | GenerationJobs |
| Photos and storage (`media/`, `storage/`) | reservations, uses, preferences; upload sessions, objects, bytes | reserve, use, release, delete; reserve, upload, complete, clean up | reservation against deletion; completion against clean-up | a photo is shown once; what is billed is stored; the limit holds | MediaLibrary |
| Live centre (`live/`) | events, live score, announcements and their attempts | receive, confirm, reject, plan, deliver | reporters at once, repeated webhooks, receipts before tallies | goals count once; announcements go out once | LiveCenter |
| Match reports (`match_reports/`) | snapshots, requests, answers, report versions, publications | poll, ask, answer, write, edit, approve, transfer | savepoint rolled back after a message was sent; half a minute in a browser | only approved texts are transferred; nobody is asked twice; the report comes | MatchReports |
| Games and matchdays (`games/`, `posts/separation.py`, `posts/club_carousel.py`) | games, sync lease, bundles, shared feeds | import, observe, confirm, group, separate, approve the bundle | corrections after approval; failing jobs that bind a group | approvals do not outlive a correction; no game goes out twice | Matchday |
| Team rules (`posts/rules.py`, `posts/automation.py`, forms) | JSON rules, slots, story rules, active rule set | edit, copy, presets, settings | forms on old pages; writers without lock and version | nothing is overwritten unseen; automatic approval is asked for | TeamRules |
| Accounts and clubs (`auth/`, `web.py`, `limits/`, `platform/`) | users, sessions, one-time links, clubs and limits | log in, change, reset, move, suspend, create teams | requests that keep the user they read | old sessions end; links work once; limits hold | Accounts |
| Creative, prompts, branding, rendering, logos, generators | profiles, templates | learn, compile, render | heuristics, provider I/O | data | - |
| Monitoring, presentation, pages, migrations | - | read | - | - | - |

PROJECT.json lists the components with their files and status, and the hazards line by line.

## 2. Modules

| Module | What it is |
|---|---|
| `OnceOnly` | abstract specification: for each target an external write takes effect at most once, and is begun again only when the last one is known to have had no effect |
| `MetaPublishing`, `MetaPublishing_proofs` | Instagram jobs of one post; implements `OnceOnly`; the theorems |
| `ChannelDelivery`, `ChannelDelivery_proofs` | one Facebook or WhatsApp job and its recipients; implements `OnceOnly`; the theorems |
| `GenerationJobs`, `GenerationJobs_proofs` | generation jobs of the games of one club; the theorems |
| `MediaLibrary`, `MediaLibrary_proofs` | photos of one team, and the storage ledger; the theorems |
| `LiveCenter`, `MatchReports` | the live state of one game and the announcement of one event; the report of one game |
| `LiveAndReports_proofs` | the theorems about both, in two parts that do not use each other |
| `TeamRules`, `Matchday` | the rules of the teams of one club page; the result posts of one club's matchday, from FUSSBALL.DE to the feed |
| `RulesAndMatchday_proofs` | the theorems about both, in two parts that do not use each other |
| `Accounts`, `PostReview` | accounts, browser sessions, links, clubs and their limits; versions, approvals, graphics jobs and the dry-run worker of one post |
| `AccountsAndReview_proofs` | the theorems about both, in two parts that do not use each other |
| `Connections`, `Connections_proofs` | the connections of one kind of channel; the theorems |
| `MC...` | constants and symmetry sets for TLC |

Common conventions. One action is one database transaction; what the code does between two commits
without touching shared state is part of the action that commits it. An external call is the gap
between the action that commits "call begins" and the one that commits its answer; an action like
`Abandon`, `Lose`, `Crash` or `WorkerDies` in between is the death of the process. A request that takes
long, or whose reads can be overtaken, is two or three actions and carries what it has read.

*Perils* (`Overlapping` in PostReview) are behaviours that an instance may admit: each
names one under which some property fails, or that makes the state space larger. A property holds
"without peril p" means exactly that: the code is not safe under p, and section 4 says so.

Two modules that one proof module extends must not share a name: MatchReports calls its specification
`ReportsSpec` (`ReportsInit`, `ReportsNext`, `ReportPerils`, ...), TeamRules `RulesSpec`, PostReview `ReviewSpec`;
elsewhere it is `Spec` and `Perils`. The section on perils speaks of both.

Definitions marked as mutants (`X_Y` beside an `X`, or named for the mistake) are deliberately wrong
variants; no specification uses them. They show that a property can be broken by a plausible mistake in
the code.

### MetaPublishing

`post`, `job`, `attempt`, `page`, `stop` are rows; `sess` says where each worker cycle or request is;
`due` is the candidate list a worker read; `draft` is an edit or a cancel between its reads and its
commit; `sent`, `wire`, `live` are the requests made, under way, and carried out by Meta.

| Code | Actions |
|---|---|
| `_candidate_ids`, `create_attempt` | `ListDue`, `CreateAttempt`, `CreateVerified`, `CreateVerifyFailed` |
| `create_container` | `StartContainer`, `ContainerVerified`, `ContainerStopped`, `ContainerVerifyFailed`, `ContainerCreated`, `ContainerUnclear`, `ContainerRefused` |
| `refresh_container_status`, `_poll_failed_safely` | `RefreshPending`, `RefreshFinished`, `RefreshError`, `PollFailed` |
| `publish` | `StartPublish`, `SendPublish`, `PublishConfirmed`, `PublishUnclear`, `PublishRefused`, `FinishDetails` |
| `_mark_interrupted_calls_uncertain` | `Age`, `MarkInterrupted` |
| `reconcile_attempt` | `ReconcilePublished`, `ReconcileNotPublished` |
| `approve`, `edit_text`, `cancel_job` | `Approve`, `BeginEdit`/`CommitEdit`, `BeginCancel`/`CommitCancel` |
| emergency stop, page settings, `disconnect` | `SetStop`, `SetPage`, `Disconnect` |
| Instagram | `MetaPublishes`, `MetaDrops` (external) |

The gates (`Released`, `GatesPass`, `AutomaticGatesPass`) are the three gate functions of the code.
Where the code reads cached rows, so does the model: the second check of `create_container` sees only
a fresh emergency stop, and a worker that created an attempt in this cycle may start its container on
the approval it saw then.

`OnceOnly` is implemented with jobs as targets (`Once`): what the owner of a job believes about its
`media_publish` is read off the job's platform id and the phases of its attempts (`Calls`), its effects
are the media of the job on Instagram (`Media`), and a request still on the wire of a call nobody waits
for is what may yet arrive late. "Begun again only when known to have had no effect" is then the
`failed` of a refused call or of a person's reconciliation.

Abstracted: confirmation codes and user identity; media grants, their checksums and expiry; the due
time (a listed job is due); `next_action_at`; the connection (`page = "off"` stands for a disconnected
page or publishing switched off); the page check inside `approve`. `content` is the version whose
text and media the container carries. Everything about one post; other posts share nothing with it
but the switches.

### ChannelDelivery

`job` is the publication job, `row` its delivery attempts, `lock` the row lock a worker holds until
its first commit, `sess` the worker's place in `_deliver_job`, `draft` a dashboard request, `stray`
requests whose sender gave up, `accepted` what Meta accepted (saturating at two).

| Code | Actions |
|---|---|
| `_candidate_ids`, `_assert_gates`, `_deliver_job` | `ListDue`, `SkipLocked`, `BeginJob`, `RefuseJob`, `LookUp`, `TallyRows`, `Settle` |
| `_attempt`, `_deliver_one` | `Claim`, `Send`, `AnswerSent`, `AnswerUnclear`, `AnswerRefused` |
| `_mark_job_error`, `next_attempt_at` | `MarkError`, `RestOver` |
| webhook | `Receipt`, `OptChange` |
| approval, edit, cancel, stop | `ApproveJob`, `DeselectJob`, `EditText`, `CancelJob`, `SetStop` |

Recipients are processed in any order, because the query has none (delivery.py:481). Abstracted: "sent"
stands for `published` (Facebook) and `sent` (WhatsApp), "delivered" for `delivered` and `read`; the
approval flag combines the job's approval and its version binding; templates, grants and the
connection's own switches are conditions folded into `RefuseJob`/`AnswerRefused`; the scheduled time is
reached. A session that lost an insert goes on with the next recipient; that its rollback makes it read
its rows again is not modelled. A worker that finds every recipient handled keeps the job lock to the
end of its transaction. The other jobs of a batch are not modelled: an exception that ends the batch is
`Abandon`.

### GenerationJobs

`job` are the queue rows (`keyed`: holds its active key; `source`: the job whose saved files it may
reuse; `retries`: the retry map), `post` each game's active post, `files` the images on disk, `open`
and `paid` the ledger entries reserved and billed, `calls` the provider calls made, `sess` the workers.

| Code | Actions |
|---|---|
| `enqueue_create`, `retry_job`, `request_cancel` | `Enqueue`, `RetryJob`, `CancelWaiting`, `CancelRunning` |
| `recover_stale_jobs`, `claim_next` | `LeaseExpires`, `RecoverStale`, `Claim` |
| `process_generation_job`, `create_post` | `Start`, `ExistingPost`, `OpenPost`, `Assemble`, `Save`, `Finish` |
| text and image wrappers, renderer | `Reuse`, `Reserve`, `QuotaExceeded`, `CallProvider`, `TextAnswered`, `ImageWritten`, `ImageChecked`, `ImageBilled` |
| the handlers | `CancelNoticed`, `Fails`, `LogoUnavailable`, `DatabaseError`, `UnclearRetried`, `UnclearReviewed` |
| death of a worker, club blocked after the claim | `Lose` |

Abstracted: jobs that create a post of one game; generation revisions, media reservation (see
MediaLibrary), warnings, photo montage, automatic approval, audit and prompt records. A new ledger key is
fresh by construction (job, attempt, call), so entries are counters per output. Phases are grouped:
"generating" is every `generating_*`, "checking" is `validating_final_media`, "saving" is `validating`
and `saving`. The confirmation a user gives when a usable output exists is the user's choice, hence no
guard. All entries fall in one billing period. Two commits of the same phase in a row (before and after
an output) are one action. A call counts once although its transport may fall back to a second request
(`textgen` `_request_text`, `imagegen` `generate`): the ledger counts it once too.

### PostReview

`db` are the committed rows (post, one feed and one story job, slots, versions on the shelf, texts);
`req[r]` is a session: what it was asked, and the rows as it read them; `lock` is the post's row lock;
`worker` the dry-run worker's session with its list and the rows it has cached; `gate` what closes the
gates; `frozen` and `sent` are history. A session that commits writes with `Merge`: only the columns it
has changed against what it read.

| Code | Definitions |
|---|---|
| `synchronize_post_versions`, `register_media_version`, `ensure_text_version`, `freeze_publication_versions` | the operators of these names |
| `select_media_version`, `select_text_version`, their automatic variants, `select_publication_media_variant` | operators, as `Locking` requests (they lock the post's row first and are one step, `Locked`) |
| `post_channel_text`, `delete_unpublished_post`, `reschedule_publication_job` | the same |
| `approve`, `edit_text`, `reject_post`, `cancel_job`, changes of logo and result | operators, as `Unlocked` requests: `OpenRequest`, `Load`, `Commit` |
| `enqueue_rerender`, `enqueue_ai_revision`, `enqueue_logo_recompose` and their processing | `Rerenders`, `Revisions`, `Recompositions`: `Claim`, `Commit` |
| `publishing/worker.py` | `ListDue`, `Checked`, `FinalCheck`, `Answer`, `EndList`, `Crash` |

Abstracted: one post that is approved at the start; one slot of each kind; files and texts are values
(`Format` says for which kind of output a file can be drawn: no order puts a feed graphic among the
stories); the worker's thirteen checks are `PostGate`, `VersionGate` and `gate`; order and number of warnings.
`used` bounds requests, switches of a gate and crashes together. The orders a run may hold are chosen
by `Menu`. With `Overlapping` empty, approvals come one after the other, of the unlocked requests
only an approval, a rejection or a cancellation may write over a post that was changed since it was
read, and a rejection is not committed while the worker goes through a list. Production publishes with
`DryRunPublisher` only (`InstagramPublisher.publish` is disabled),
Instagram is the business of MetaPublishing.

### MediaLibrary

`asset`, `pref`, `history`, `post`, `job` are the rows about photos; `upload`, `object`, `file` those of
the storage ledger and the files; `session` are deletions and completions between reading and writing;
`shown` is history.

| Code | Actions |
|---|---|
| `reserve_media`, `mark_asset_used`, the release at a failed job | `Create`, `Resume`, `Rerender`, `Finish`, `Fail` |
| `update_game_media_selection`, `set_game_preference` | `Select` |
| toggle, release, move, delete a photo; delete a post | `Toggle`, `release_asset`, `MoveToTeam`, `ReadDelete`/`Delete`, `DeletePost` |
| upload, folder scan | `UploadPhoto`, `FolderChanges`, `scan_media` |
| direct uploads and their clean-up | `create_direct_upload`, `PutContent`, `Expires`, `ReadComplete`/`Complete`, `cleanup_expired_uploads` |

A scope is a contribution of a game. `post.marked` are the photos a post has used: marking is idempotent
per post. Abstracted: one team, photos of one size, an upload of one or two units, tags, folders and
image checks. A job reserves and marks in one step each.

### LiveCenter

`event` is what became of each reporter's message, `inbox` and `reading` the webhook sessions,
`state` and `result` the live state and the game's result, `delivery` and `attempt` the announcement and
its recipients, `worker`, `ruling`, `decision` sessions, `accepted` and `receipts` WhatsApp's side.

| Code | Actions |
|---|---|
| webhook, `create_match_event` | `Receive`, `create_match_event`, `Lost` |
| `confirm_event`, `reject_event` | `Consider`, `confirm_event`, `reject_event` |
| `plan_live_deliveries`, `decide_delivery` | operator, `ReadDelivery`/`decide_delivery` |
| `run_live_delivery_cycle` | `Cycle` (`BeginDelivery`, `_claim_attempt`, `Publish`, `FinishDelivery`, `_mark_failed`), `WorkerDies`, `recover_stale_live_deliveries` |
| receipts, STOP, switches | `Receipt`, `OptOut`, `Switch` |

Abstracted: the own team plays at home; the claims of one recipient are atomic; one announced event;
which messages count as recent is a free choice (`recent`), as the clock decides it;
`supersedes_event_id` is never passed by the code.

### MatchReports

`page` and `live` are what FuPa and the game say, `snapshots` what was read, `report`, `versions`,
`publication` the report, `request`, `due`, `linked` the contact's questions, `scheduler` (the worker's
cycle) and `user` the sessions; `fupa`, `approved`, `confirmed`, `asked` are history.

| Code | Actions |
|---|---|
| `run_match_report_cycle` | `SchedulerCycle`: one transaction per game with a savepoint (`CycleBegin`, `CycleAsk`, `CycleGenerates`, `CycleUnfinished`, `CycleEnd`, `CycleFails`) |
| `generate_report_version`, `create_edited_version`, `approve_report`, `delete_unpublished_report` | actions of these names; generation is long (`Begin`, `Fails`) |
| `prepare_fupa_publication`, `BrowserFupaPublisher.publish` | `BrowserPublishes`, `ManualPublishes` |
| `refresh_sources`, `request_feedback`, Telegram's webhook, deadlines, (un)linking | the actions of these names, `DeadlinePasses` |

Abstracted: one game, one contact with one messenger, one more user only while the first is at work;
texts are numbered; edits, approvals and deletions are atomic, generation and browser transfers are not.

### Matchday

`site` is what FUSSBALL.DE shows, `game` the rows, `sync` the snapshot a synchronising worker holds,
`jobs` generation jobs, `post` and `feed` the result posts and their feed publications (own or shared),
`readings` and `sent` are history.

| Code | Actions |
|---|---|
| the sync cycle | `import_snapshot`, `_observe_results`, `plan_generation_jobs` |
| `confirm_game_result`, `update_game_details`, `delete_game`, `restore_provider_game` | `CommandOnGame` |
| `connect_games`, `separate_matchday_posts` | actions of these names |
| bundle and single jobs | `claim_next`, `create_post`, `process_generation_job`, `GenerationFails`, `ProviderFails`, `retry_job` |
| `approve_matchday_bundle`, `reorder_matchday_carousel`, `delete_unpublished_post`, publication | `CommandOnPost`, `Publish` |

Abstracted: result posts only; one matchday whose page changes one field at a time (the first score is 1,
a correction 2, the day moves once); a reading and its import are one step each; approval and transfer
to Meta are atomic (their inside is MetaPublishing and PostReview); stories; one synchronising and one
generating worker; `retry_wait` (a failed job either comes back as it was or is retried by a person).

### TeamRules

`rules` is the JSON value with the publication slots, `version` its counter, `story` the story rules,
`sets` the active rule set derived from them, `form` the rules page each user has open, `request` a
request waiting for its lock with the copies it read.

| Code | Actions |
|---|---|
| pages | `Load` |
| save and delete a slot, copy a weekday, presets, copy from another team | `ScheduleNext` (one step: lock, version check, write) |
| settings form with its siblings | `SaveRulesBegins`, `save_rules`, `DeadlockVictim` |
| story times, messenger's default | `StoryBegins`/`StoryEnds`, `MessengerBegins`/`save_messenger_defaults` (no lock, no version) |

Abstracted: one kind of post, active teams of one club and page; refused requests are left out; ranges,
weekday times, prompts; reading the source of a copy is one instant; the carousel page's "save as
default", another unlocked writer of the same kind (`posts/club_carousel.py:255`).

### Accounts

`user`, `club`, `resets`, `changes` are rows, `cookie` and `request` each browser's session and request
under way, `era` counts what had to end sessions. `Account(b)`, `Administration(b)` and `Platform` group
the actions, which carry the names of the functions: `authenticate`, `change_password`,
`request_password_reset`, `complete_password_reset`, `request_email_change`, `complete_email_change`,
`create_user`, `assign_user_role`, `assert_resource_capacity`, `team_state`, `create_club_with_admin`,
`change_club_status`, `update_club_limits`, `move_user_to_club`. Password change, reset and team creation
are slow: they keep the row they read and others overtake them; the rest is one step. Abstracted:
registration, the platform administrators' own sessions, cooldown and expiry of links, roles other than
administrator, assignments to teams.

### Connections

`channel` is the kind of channel a behaviour is about, `conn` its rows, `mirror` the copy of Instagram's
status, `login` the login states, `request` what browsers and the worker are doing, `webhook` Telegram's
side, `stop` the emergency stop.

| Code | Actions |
|---|---|
| `start_oauth`, callback, guided selection | `LoginNext` (`OAuthBegins`/`complete_oauth`, `SelectionBegins`/`complete_facebook_selection`) |
| WhatsApp numbers, Telegram bots | `AccountNext` |
| connection check, refresh | `CheckNext`, the worker's `run_automatic_connection_check_cycle` |
| settings, disconnects, emergency stop | `SettingsNext` |
| time, restarts | `Environment` |

Abstracted: one kind of channel per behaviour, one Instagram page, tokens named by their account, active
accounts and the club's state, audiences and texts; WhatsApp's onboarding is one step.

## 3. Runs

All runs explore their whole state space and find nothing violated. Bounds are constants; those named
`Max...` in the modules bound requests, changes, crashes, versions or sends.

| Run | Instance | Properties |
|---|---|---|
| `meta_core` | 1 job, 2 attempts, 2 workers, 1 administrator, every stage and switch, unreachable media | `OneAttemptAtATime`, `SentAtMostOnce`, `SettledIsFinal`, `PublishesApproved`, `ImplementsOnceOnly` |
| `meta_recovery` | 2 jobs of a post, 2 attempts, 1 worker, fairness | `PublishedPostComplete`, `AttemptsGoOn` |
| `channel_core` | 2 recipients, 2 workers, fairness | `ImplementsOnceOnly`, `JobSettles` |
| `generation_core` | a job and its restart, 1 game, 2 workers, 1 image, 1 retry, 3 attempts, quota 2/2, fairness | `OneAtATime`, `CallsAccounted`, `QuotaKept`, `JobEnds` |
| `review_core` | 1 slot of each kind, 3 files, 2 texts, 2 sessions, 2 requests, switches or crashes; an approval is of both jobs or of the story alone | `ApprovalHolds`, `NeverResent` |
| `media_core` | 1 uploaded and 1 folder photo, 2 games, 1 direct upload, 2 requests of the administrator, limit 3 | `NeverReused`, `FilesKept`, `WithinLimit` |
| `live_core` | a goal, a reported score, the final whistle; 2 recipients, 1 worker, 1 crash, 1 switch, fairness | `GoalsCounted`, `ResultComplete`, `NeverSentTwice`, `DeliverySettles` |
| `reports_core` | 1 contact, 3 requests, 1 change of the sources, fairness | `PublishedAsApproved`, `AskedOnce`, `ReportComes` |
| `games_core` | 2 games already played, 1 change of the page, 1 command, 1 failure, fairness | `ApprovedAsShown`, `FeedsTogether`, `TwoReadings`, `ResultIsRead` |
| `accounts_core` | 2 accounts, 2 clubs, 2 addresses, 2 browsers, 2 links, 2 events | `OldSessionsEnd`, `ResetGoesHome`, `LinksBind`, `WithinTeamLimit` |
| `connections_core` | each kind of channel, 2 accounts, 2 browsers and the worker, 2 logins, 4 requests, fairness | `LoginBinds`, `TokenMatchesStatus`, `HookMatches`, `ExpiryNoticed` |
| `rules_core` | 2 teams, 2 administrators, 2 slots, 3 forms | `InForce`, `NothingUnseen`, `ApprovalAsked` |

What each property says stands in front of it in its module; PROJECT.json names, for each, the hazards
it is for and the mutant that breaks it.

Why the bounds are enough. Duplicate effects need a first request, something that hides it, and a second
one: two attempts (or two requests of one attempt, `MaxSends = 2`), two sessions beside an
administrator. Versions matter as "the approved one" and "another". Two recipients are the least that
partial failure needs, one recipient is the case of every Facebook job. In generation,
`MaxAttempts = 3` exceeds `MaxRetries + 1`, as the code's budget does (`_retry_attempt_budget`), so both
limits bind; text and one image are two outputs with separate retry counts; a quota of two runs out
within a job and its restart; the safety invariants also hold for two games with two jobs (about 420 000
states up to symmetry). Lost updates need two sessions on one row and a third value: two requests, each
long, and three files or versions. Two photos and two games let a photo be free, reserved here and
wanted there. Three messages are a goal, another account of it and the end. Two games are the least a
bundle has; both have been played so that readings, confirmation, drawing and approval fit in; with two
commands the instance has more than two million states, of which the first 22 levels were explored
without a violation. Two links of an account are "the one sent" and "the next". Four requests are two
overlapping ones and what came before.

Deadlock checking is off where the system may stop: rows, requests and changes are finite and may all be
used up. It is on for MetaPublishing and ChannelDelivery.

Fairness. The worker loop runs again every few seconds and all calls have timeouts, so a step that a
cycle would take is taken: weak fairness on continuing a session and on a worker's groups of steps.

- In `MetaPublishing` strong fairness is asked of the scheduler's steps, because each cycle looks at
  every attempt while other steps disable and enable it; it includes that Meta decides a container in
  the end (a poll that changes nothing is no step; the code's maximum wait is compared only after a
  failed status call, meta/scheduler.py:174, so a container that answers "in progress" for ever waits
  for ever).
- In `ChannelDelivery` and `GenerationJobs` a worker may die any number of times, but not for ever
  (`<>[][...]_vars`); leases and resting times run out by the clock.
- `LiveCenter`: each worker's cycle and the recovery, which runs at the start of each cycle.
- `MatchReports`: the worker's cycle, deadlines, and the end of a session that failed.
- `Matchday`: the generating worker, the observation of results, and (strongly) the import, which a
  running job may refuse again and again.
- `Connections`: the worker's check cycle and the check interval.

Nothing is assumed of people.

## 4. What the checks show

Without perils, in the instances above, the promises hold. The perils are where they do not. For each,
the behaviour was found by TLC on the instance with that peril.

### Publication on Instagram

- `refresh_unclear`: `refresh_container_status` (meta/publishing.py:855) has no phase guard. Asked for an
  `uncertain` attempt whose container is finished, it sets `ready_to_publish`, and the next cycle
  publishes again, although docs/AUTOMATIC_PUBLISHING.md:109-111 excludes that (`SentAtMostOnce`).
- The attempt is counted (publishing.py:346) before the gate `attempts < max_publish_attempts` is asked
  by the later steps: an attempt that becomes the last permitted one after the media could not be read
  hangs for ever (`unreachable`, `AttemptsGoOn`).
- `disconnect_in_flight`: `disconnect` closes an attempt whose `media_publish` is on the wire
  (oauth.py:399), and a request may take effect for a job that is released again: `ImplementsOnceOnly`
  fails, as it does under `garbled`. `revive` and `slow_carousel` break `OneAttemptAtATime`;
  `PublishesApproved` fails under `slow_carousel` and `disconnect_in_flight` as well.

### Channel messages

- `receipts`: a row set to `delivered` or `read` by the webhook before the job is settled is no longer
  "handled" (delivery.py:345, webhooks.py:152): the next cycle sends the message again.
- `overtaken`: two workers find the failed row of one recipient and both send. `garbled` answers are
  filed as failed and repeated. `opt_out`: the failed row of a recipient who opted out is never tried
  again, the job never settles (`JobSettles`).
- Recipients, opt-ins, gates and text are read once per job (delivery.py:481): a stop, an edit or an
  opt-out during the loop is seen with the next job only (docs/META_CHANNELS.md:164). `_mark_job_error`
  sets a job cancelled meanwhile back to `retry_scheduled` (delivery.py:567).

### Generation

- A provider call longer than the lease (`slow_call`) lets recovery hand a live job to a person, who may
  restart it; a cancel that read the job as waiting just before its claim (`stale_cancel`) frees the key
  of a running one: `OneAtATime` fails.
- A post left in `creating` by a dead worker is taken for finished by the next one
  (posts/service.py:701; docs/GENERATION_JOBS.md:13).
- A restarted job looks for reusable files under its predecessor's id only, so the file it has itself
  written before a crash is billed again (jobs/generation.py:435).
- A job cancelled during a call that times out is put to wait with its cancel wish and is never claimed
  again, its key held (jobs/generation.py:1408; docs/GENERATION_JOBS.md:49-51); `JobEnds` speaks of jobs
  nobody cancels.
- Jobs sent to manual review by recovery, and requeued jobs that are cancelled, keep their reservations
  until the month ends; `EndedHoldsNoQuota` therefore speaks of succeeded and failed jobs only.
- docs/GENERATION_JOBS.md:44-46 says that timeouts after a possible acceptance are never repeated
  automatically; the code repeats each output up to three times. `CallsCounted` states what the code
  does: never more than the retry map says.

### Review

- `"render"`: `rerender_post` writes the version it computed from the post it read before its provider
  calls (posts/service.py:2177). When an edit and a new approval commit meanwhile, both count to the same
  version, the approval stays valid and unapproved graphics go out, although "Freigaben binden konkrete
  Text- und Medienversionen" (README.md:250). `"edit_text"` overtaken by an approval does the like.
- `"approve"`: two approvals of one post at once write what each computed from its own reads. The later
  one may set a job that was sent meanwhile back to `scheduled`, and it is sent again (`NeverResent`);
  or an edit between the two leaves the text of one and the version of the other (`ApprovalHolds`).
- `"revoke"`: a change of logo or result that was overtaken counts the version back, so that a later
  revision reaches a number that was approved before (`ApprovalHolds`, with five requests).
- `"approve"` and `"revoke"` were found beyond the bound of the run.
- Several outputs of one kind, without any of these perils: `synchronize_post_versions` registers a job's
  file in the slot that the post's media snapshot names for it, and else in the first variant
  (posts/media_versions.py:465-471). An approval that reads the post before and the jobs after a rerender
  of the second story variant registers the new file under the first. When it is selected there later, and
  an older file in the second variant, both jobs are approved; then an approval of the feed alone, which
  synchronises every job that is not published, puts the other file into the story job. Neither the post's
  version nor the story's approval changes, and it goes out (`ApprovalHolds`, found with seven requests, a
  slot more and four files). The attempt to prove `ApprovalHolds` led to it.
- `"reject"`: a rejection changes neither the post's version nor a job's `approved_post_version`
  (admin_routes.py:6512). When it is committed while the worker is sending one job, the answer writes
  "partial" over "rejected" (publishing/worker.py:186-206), and the other job, which is now "unapproved"
  but still in the worker's list, passes all of `process_job`'s checks: of a job's status only "published"
  and "publishing" stop it (line 76), and its approved version still equals the post's (line 104). So a
  rejected output is published; and an approval that read it as unapproved sets it back to `scheduled`,
  and it is sent again (`NeverResent`, with two requests). The attempt to prove `NeverResent` led to it.
- A stale list of due jobs is guarded by the version alone; a cancelled job may still be sent (dry-run
  only). The critical warning of a corrected result is never removed (admin_routes.py:820 against
  approvals/service.py:179): such a post cannot be approved again. `approve` does not check the form's
  version, `edit_text` checks it without a lock.

### Photos and storage

- `"complete"`: an upload that is completed while the clean-up expires it is billed although its file was
  deleted, and its released reservation becomes committed again. `"delete"`: a photo reserved between the
  checks and the deletion loses its file; the deletion also drops the choice, and the failed job that
  resumes with the photo shows it as if chosen automatically (`NeverReused`, three requests).
- A photo is shown for two games, though tests/test_media_library.py:200 promises the contrary, in these
  cases. `"select"`: a choice is changed while a job of the game runs, and `set_game_preference`
  (media/library.py:257) gives back the reservation the job relies on. `"again"`: a choice that has been
  used is not given back, so after its post was deleted and created again, a later automatic choice
  adopts what the deliberate one had reserved (six requests). Two contributions of one game: a
  reservation names only the game, so one contribution gives back, or adopts, what the other has.
- Deleting a photo whose file is missing leaves its storage object, and its bytes, live
  (admin_routes.py:2059-2100).

### Live centre

- `"stale_decision"`: confirming an event on a page that is no longer current lowers score and phase, and
  rejections overwrite confirmations. `"garbled"`: a 2xx answer without an id is "failed" and sent again.
- A plain "Tor" from two reporters counts twice when the second names no score; two untrusted goals that
  wait for confirmation derive the same score (docs/LIVE_CENTER.md). A crash between recipients leaves
  the announcement "sent" though the second was never served; a second worker's stale list marks it
  "blocked"; a pause blocks a due announcement for good; a forced goal after the final whistle leaves the
  result behind. The webhook's idempotency key is that of the first status or message of a payload.
  `reconcile_official_result` has no caller.

### Match reports

- `"approve"`: approval has no version check; `"delete"`: a report deleted under a session fails that
  session, and its contacts are asked again; `"unclear"`: a message whose sending timed out is filed as
  failed and sent again; `"key"`: an unreadable token rolls the savepoint back after messages were sent,
  so they are sent in every cycle.
- The poll rewrites the status of approved and published reports; snapshots are recognised by digest, so
  a page that goes back to an earlier state is not noticed; linking a chat to a second contact is an
  error 500; a crash after the browser's submit makes the transfer look undone; a session's error mark is
  rolled back with the error. A contact that blocked the bot (403/404) falls back to another messenger,
  although docs/TELEGRAM_MATCH_FEEDBACK.md excludes a silent other provider.

### Games and matchdays

- `"half"`: an import without its observation (a crash between their commits) leaves its reading
  uncounted, so the score in the row may be another than the one that was read last; the worker still
  confirms only what it read twice running (`TwoReadings` is proved under every peril). `"unconfirmed"`, `"auto"`: bundles drawn from unconfirmed results,
  or approved automatically, outlive a correction (`ApprovedAsShown`).
- `"regroup"`: `coordinate_club_matchday_feed` refuses a new carousel only when a feed job of a member's
  own post is published or publishing (posts/club_carousel.py:534-541). A member whose own feed was
  cancelled for a carousel that is out passes, so a game that is played or connected later makes a new
  carousel which shows it again, against the one carousel of docs/MATCHDAY_BUNDLES.md:16
  (`FeedsTogether`, with three games).
- The gate before publication looks only at the game of the carousel's own post
  (meta/publishing.py:247), and an import revokes approved posts only: a cancelled member goes out with
  the carousel (docs/FUSSBALL_SCHEDULING.md:86-89).
- A user's confirmation counts as the first reading; a page that differs while the game is hidden is not
  counted. Bundle jobs return before the automatic approval (jobs/generation.py:1635;
  docs/AUTOMATIC_FUSSBALL.md:86-89); posts still pending are untouched by corrections; a game grouped
  late never gets a post; a waiting feed that is reopened may go out alone, after which the carousel is
  refused; a failing job marks approved posts incomplete; deleting the primary post's game leaves the
  members cancelled; editing a game revives its cancelled jobs; one game that raises ends planning for
  all; a worker slower than its lease imports an older page. `reschedule_game` has no caller.

### Team rules

- Copying from another team takes over its automatic approval, aliases, messenger and primary team
  without the separate confirmation and audit of docs/AUTOMATIC_POSTS_UX.md (`"copy"`, `ApprovalAsked`).
  Story times and the messenger's default write without lock and version check (`"story"`, `"messenger"`:
  `NothingUnseen`), though the same document says that all writers keep it; the settings form writes its
  siblings back from unlocked copies (`"settings"`).
- Two settings forms of sibling teams deadlock (500 for one); "replace" drops the target's own slots only;
  presets set the carousel's mode for one team (against the comment at admin_routes.py:3870-3872); copied
  story slots leave slots behind when the story is deleted; appending a preset after editing duplicates
  a slot key (500); counts may be lowered below the variants in use. A story slot does not raise the
  version and `NothingUnseen` exempts it.

### Accounts

- `"login"`: a login overlapping a password change survives it; `"email"`: two address changes overlap
  with one number; `"forgot"`: a link sent to the old address after the change works; `"club"`: a team
  fits a limit that was lowered, or a club that was suspended, meanwhile.
- Self-registration (main.py:215-292) stores a user without club, which `ck_users_account_tenant` forbids:
  it always fails, against docs/ACCOUNT_SECURITY.md. With `MULTI_TENANT_ENABLED=true` reset and e-mail
  links run without a tenant scope and are refused. The last administrator is checked, then acted upon,
  without a lock; moving the last one away is not checked; failed logins are lost updates.

### Connections

- `"refresh"`, `"check"`: a renewal or check that overlaps a disconnect puts the token, or the status
  "connected", back (docs/META_TEST.md:273). `"select"`: `load_oauth_state` locks a row the session
  already holds (channels/oauth.py:155-161), so one login connects two pages. `"telegram"`: an
  unconfirmed webhook, a crash or two connects leave a bot with a webhook nobody answers.
- Reconnecting does not clear `disconnected_at`: the connection is never checked again
  (connection_health.py:169) and refused for new teams (admin_routes.py:989; docs/META_CHANNELS.md:41).
  The channel settings trust a stale mirror (channels/routes.py:677). An unreadable token ends the whole
  check cycle (connection_health.py:257). Assignments may be enabled for disconnected channels.

## 5. Proofs

The theorems hold for every value of the constants that satisfies the module's assumption on them:
any number of jobs, attempts, recipients, accounts, browsers or workers, and every bound. Where a
theorem leaves out perils it says so in its ASSUME; section 4 tells what fails under which (a theorem
that assumes no peril at all may hold under some). Every inductive invariant was checked by TLC on the
instance of the module's run before it was proved. In each module but TeamRules the invariant of the
types, `TypeInv`, adds to `TypeOK` what the types rest on (a running session has a row, a request that
follows a link has one); `TypeCorrect` is `Spec => []TypeOK` and assumes nothing of the perils
(`ReportsTypes`, `ReviewTypes` and `MatchdayTypes` are the like).

### MetaPublishing_proofs

| Theorem | Property | Not assumed away |
|---|---|---|
| `AttemptsExclusive` (from `AtMostOneOpen`, `CallsStayOpen`) | `OneAttemptAtATime` | `garbled`, `unreachable` |
| `RequestsNotRepeated` (from `SentOnce`, `WorkersNeverResend`) | `SentAtMostOnce` | the same |
| `JobsLiveOnce` | `LiveOnce` (of no run: what breaks it breaks `ImplementsOnceOnly`) | `unreachable` |
| `SettledStays` | `SettledIsFinal` | `unreachable` |
| `ApprovedIsSent` | `PublishesApproved` | `unreachable` |
| `PublishingOnceOnly` | `ImplementsOnceOnly` | `unreachable` |
| `PublishedIsComplete` | `PublishedPostComplete` | everything |

The first two assume `Orderly` (none of `refresh_unclear`, `revive`, `disconnect_in_flight`,
`slow_carousel`), the next four `Plain`: also that every answer names its medium, not `garbled`.

`AttemptsExclusive` and `RequestsNotRepeated` share the invariant `CallInv`. `OneOpenAttempt` alone does
not bear induction: creation asks for the active *key*, not for the phase, so the invariant says that
key and openness coincide (`ActiveWhileOpen`) and that a key is held once (`OneActive`). Keeping that
requires that an answer is written only to an attempt that is still open: a running session's attempt
is in the phase its program counter calls for (`OwnCalls`) and no other session is in a call for it
(`OneCaller`). This in turn requires that the safety period does not end, and the reconciliation does
not close, under a live call: an attempt in a call is not aged. `Unsent` says that an attempt not yet
past `ready_to_publish`, and a session about to send, have sent nothing; hence `NoResend`. Lemma
`CallStep` proves the invariant for any action that replaces one row by one that `Follows`; each
action then shows that its row does. Actions that rewrite many rows (`MarkInterrupted`, `Disconnect`)
have lemmas of their own.

`LiveInv` goes on to Instagram's side. A request on the wire belongs to an attempt that is publishing
or unclear (`OnTheWay`); a medium to one that still is, or that is closed with the platform id on its
job (`Arrived`); such a job is not released for another attempt (`Settled`), and has no open attempt
that could still send (`Unsettled`). Two attempts of a job therefore never both have a medium. The
content of a container is the approval its job still has (`Carried`), which gives `PublishesApproved`.
Because the actions are many and each disturbs little, one lemma sums up what a step does to an
attempt, a job, a session and the requests (`Moves`), and the invariant is proved for `Moves` once.

`PublishingOnceOnly` maps each step to a step of `OnceOnly` or a stutter: `SendPublish` is the beginning
of a job's call (`SendImplements`), Instagram's decision the effect (`MetaImplements`), and an answer or
a reconciliation its end (`RestImplements`, from `Moves`); a step changes the calls and the media of
one job only (`OneChanges`).

### ChannelDelivery_proofs

| Theorem | Property | Assumes |
|---|---|---|
| `DeliveryOnceOnly` | `ImplementsOnceOnly` | no peril but `opt_out` |

The lock of the job is gone after the first commit, so nothing is said of it: `RowInv` is about the
rows. A row in a call says `processing` and has one worker (`CallsOwnRows`); who is about to try a
failed row again is alone with it (`RetriesAlone`); while a worker waits, nothing else of its row is on
the wire (`CallsAlone`); what a row that is not unclear says is true (`RowsTell`). `DeliveredLate` says
when a receipt may come: "delivered" is not among the states the worker leaves alone, so it must not be
seen before the worker is gone, which is what the peril `receipts` breaks.

### GenerationJobs_proofs

| Theorem | Property |
|---|---|
| `QueueUndivided` (from `QueueOneActiveJob`, `QueueOneWorker`) | `OneAtATime` |
| `QueueAccounted` (from `CallsAlwaysCounted`, `QueueQuotaReturned`) | `CallsAccounted` |
| `QueueQuotaKept` | `QuotaKept` |

All three assume `Perils = {}`: a call outlasting its lease, or a cancellation on a stale read, breaks
them. Deaths of workers, timeouts, cancellations and manual restarts are all in.

All steps of a worker are first summed up as one (`Effect`): it writes its own job's row only, and
either goes on with the job, its status and key unchanged (`Stays`), or puts it away, ended without
key or waiting with it (`Leaves`).

`QueueInv` carries the queue. `OneActiveJob` does not bear induction: a restart asks for the *key*. So
the invariant says that a row holds its key exactly while it is active (`KeyHeld`), that a game's key
is held once (`OneKey`), that a job in a hand is running under a valid lease (`Held`) and in no other
hand (`OneHolder`). `Held` is what keeps the recovery and the claim away from a job that is worked on,
and what the two perils destroy.

`CallInv` carries `CallsCounted`. It says where the result of a call is that the retry map does not
count: kept (the post's text, the file of the image), or carried by the worker that made it, in phase
"generating" (`InHandSafe`); for a job in no hand, kept, or its row is still "running" and
"generating" (`PutAwaySafe`), which the recovery gives to a person and never to the queue. A call is
made only if nothing is kept; hence there is room for it in the map. This is why the phase is committed
before the call and why `SAFE_RETRY_PHASES` leaves "generating" out. `OneWorkerPerGame` is needed on
the way: a second worker on the game could commit its text.

`QuotaInv` carries `QuotaKept`. What is used is the number of ledger entries, as a set (`Entries`), so a
step is a question of subsets and no sum has to be taken apart. Billing turns an open entry into a paid
one, hence the number stays; that requires that the worker still has its open entry (`Reserved`), since
a release at the end of a job would otherwise have returned it and the bill would exceed the quota.
Only a reservation adds one, and it is refused at the limit (`LedgerGrows`).

### LiveAndReports_proofs: LiveCenter

| Theorem | Property | Assumes |
|---|---|---|
| `ServedOnce` | `NeverSentTwice` | not `garbled` |
| `GoalsCountOnce` | `GoalsCounted` | `Counting` |
| `ResultIsFinal` | `ResultComplete` | `Counting`, `TrustedKickoff` |

`SendInv`: what WhatsApp accepted is recorded as served or unclear, and a call has a row in `processing`
that no other worker has. `CountInv`: the webhook session that is deciding an event has read the state
as it still is (`ReadsCurrent`: creation locks the game), and the two scores are the numbers of
confirmed goals (`Counted`). `Counting` restricts the reports: what moves the score comes from trusted
reporters, and only a score update states one. It is needed, since pending goals of untrusted
reporters may derive the same score (section 4); with it a trusted event waits only while it
contradicts the state, and cannot be confirmed then (`EventFits`). `ResultInv` adds that a confirmed
result belongs to a finished game; a late kickoff would reopen it, and only a trusted one is refused
(`TrustedKickoff`). The instance of `live_core` satisfies both.

### LiveAndReports_proofs: MatchReports

| Theorem | Property | Assumes |
|---|---|---|
| `FuPaGetsApproved` | `PublishedAsApproved` | not `approve`, `delete` |
| `ContactsAskedOnce` | `AskedOnce` | not `unclear`, `key`, `delete` |
| `ReportsTypes` | `ReportsTypeOK` (of no run) | nothing |

Texts are numbered up to `MaxRequests + 1`; that the numbers suffice is itself a fact about the program
(`TextsCounted`): every text but one goes back to a user's request that has been counted, and the worker
writes a text only for a report that has none, hence once.

`PublishInv`: a user who transfers a text read the report as approved, the text is among the approved
ones, is not confirmed, and nobody else transfers it (`TransfersApproved`). The worker's cycle may take
an approval away between any two of these steps; it never gives one, since what it writes is no
"approved", or the status the row has.

`AskInv` connects what reached a contact with what the database knows of it, over the span in which the
messages are out and their rows not yet committed: a cycle at work owns what it was sent
(`CycleOwns`), reads what is stored (`CycleFits`), and a contact who was asked once has a row or a
message of the cycle that says so (`AskedRecorded`). It is the rollback of that span that the excluded
perils exploit.

### AccountsAndReview_proofs: Accounts

| Theorem | Property | Assumes |
|---|---|---|
| `OldSessionsAreOver` | `OldSessionsEnd` | not `login` |
| `LinksAreBound` (with `ResetLinksWorkOnce`, which assumes nothing) | `LinksBind` | not `login`, `email` |
| `ResetsGoHome` | `ResetGoesHome` | not `forgot` |
| `TeamsWithinLimit` | `WithinTeamLimit` | not `club` |

`auth_version` is written from a copy, so two requests may write the same number, and a late one a
smaller number than there was. The invariant says why no old session or link comes back: whatever
carries a version carries none above the account's, its own events are the account's if the versions
are equal, and no request under way will write a number that it could match (`Based`, for sessions and
for links to change an address). `Versions` sums up what a step does to versions and events. A reset
link goes to the address the account has (`ResetsFollow`), a request for a team keeps a copy of the club
that is still true (`CopiesTrue`).

### AccountsAndReview_proofs: PostReview

| Theorem | Property | Assumes |
|---|---|---|
| `PublishedOnce` | `NeverResent` | `Overlapping = {}` |
| `SentAsApproved` | `ApprovalHolds` | `Overlapping = {}`, and one output of each kind (`Single`) |
| `ReviewTypes` | `ReviewTypeOK` (of no run) | nothing |

For any number of sessions, requests, slots, files and texts, and for all orders. A lemma for each order
says what it does to the rows it read: it leaves the decisions alone (`Keeps`), makes the next version
of the post with jobs that may have to be approved again (`Revised`), or withdraws without a new version
(`Withdrawn`, not `CountedUp`: the rejection alone). `EffectShape` collects them; `Merge` carries them over
to rows that have moved on since.

A published job could only be sent again if an approval made it `scheduled`, since everything else that
schedules a job leaves a published one alone. An approval decides on the job as it read it. So
`ReadOpen` says of an approval under way: what it read as open and never attempted has not been published
since, and whatever the worker holds of it was approved for an older version than the post has now, and
will not pass `VersionGate`. `ReadScheduled` is the case that makes this hold while the approval is on its
way: what it read as scheduled, and is open now, it approves for the version it read, which is no
longer the post's. `WorkerInv` says the same of the list: a job that has to be approved again while it is
listed is `Outdated`. The rejection breaks exactly this, hence its peril. Once the post is deleted its
rows do not change any more, and nothing more is claimed.

`SentAsApproved` rests on these and on `ContentInv`. The worker's checks compare version numbers, not
texts or files; so the proof has to say that equal numbers mean equal contents. Each order that changes a
text or a file counts the version up by one and leaves all rows in order (`Advanced`), and any other
leaves all contents as they are (`Same`); `EffectContent` collects the lemmas per order. `MergeProper`
and `MergeSame` carry this over to rows that others have written since the order read them.

- `ReadsInv`: the rows are in order, and so is whatever a session has read: the files shown are on their
  shelves, each among those of its kind (`Housed`, `Stocked`), the post's text is the selected one
  (`Proper`), and shelves only grow.
- `BindingInv`: a job approved for the post's version shows the selected file and text, and these are what
  its approval bound (`Agreed` with `frozen`). An approval under way that read the present version has read
  the present contents, and no job is approved for a later version than it read.
- `SentInv`: what was sent is what the job's approval bound, and a new approval of a job that has gone out
  since the approval read it binds the same again.

None is inductive alone: the second part of `SentInv` is what remains of `BindingInv` when an approval has
read an open job and the worker sends it before the approval is committed. `Single` is needed for the
reason given in section 4; the story and the feed of the run's instance satisfy it.

### Connections_proofs

| Theorem | Property | Assumes |
|---|---|---|
| `LoginsBind` (with `AccountStays`, which assumes nothing) | `LoginBinds` | not `select` |
| `TokensMatch` | `TokenMatchesStatus` | not `refresh`, `check` |
| `HooksMatch` | `HookMatches` | not `telegram` |

A request writes over a row it read before it asked the platform. `Follows` sums up a step: each row is
reported on, renewed, joined, switched, left or opened, each request begins with what the row says, goes
on, or ends. `LoginInv`: a login under way is unused, and under way once. `AccountInv`: the page's account
never changes once known, and who renews a token has seen a token of this account. `TokenInv`: whoever
may make a row count as connected asked about a row that has a token still. `HookInv`: a request on a
bot has the webhook to itself, and otherwise the webhook is the one of the bot that is live.

### MediaLibrary_proofs

| Theorem | Property | Assumes |
|---|---|---|
| `NeverShownTwice` | `NeverReused` | one contribution per game; not `delete`, `select`, `again` |
| `FilesAreKept` | `FilesKept` | not `delete`, `complete` |
| `LimitHolds` | `WithinLimit` | nothing |

`PhotoInv` is about how a photo may be reserved a second time. A photo shown or reserved has been counted
as used, and if it is reserved for a contribution that may give it back, twice: giving back counts down
and must not make a shown photo look unused (`UseCounted`). An unfinished post's photo is reserved for
its game, which keeps it from everybody else (`PhotoHeld`). Hence a photo shown for another game is
reserved only by a person's choice, and only until the post is there (`Deliberate`), and whoever gets a
photo without such a choice is alone with it (`JobAlone`). `OthersStay` says that a step of one
contribution leaves, takes or gives back photos without touching those of another game; with two
contributions of a game that is false, and so is the theorem.

`FilesInv`: what is reserved is there, what is billed has a live object, what has an object has a file;
an upload has no object while its session is reserved, so the clean-up deletes no file that is billed.
For the limit the bill is a cardinality: of photos, of the units of uploads, of open reservations. An
upload or a reservation adds one member and was refused at the limit; a completion exchanges its
reservation for the units of its file (`CompleteFits`); everything else adds nothing
(`OthersReserveNothing`). Completions that overlap do not matter there.

### RulesAndMatchday_proofs: TeamRules

| Theorem | Property | Assumes |
|---|---|---|
| `PageInForce` | `InForce` | no peril but `copy` |
| `SlotsSeen` | `NothingUnseen` | no peril but `copy` |
| `ApprovalTicked` | `ApprovalAsked` | no peril |

A request writes a whole JSON value over the one it read. `RulesInv` says that no such copy is outdated
(`CopiesTrue`), which holds because whoever could change the value waits or is refused: a writer without
lock is alone, and a team's settings are saved by one form at a time (`RequestsApart`), whose tick is
still needed (`StillAcknowledged`). With that the rule set agrees with the rules (`Agree`), and a page
with the row's version shows every slot (`PageShows`), so what a form removes was on it. `Kept` is what
a step may do to slots and approval; the last two theorems read it off.

### RulesAndMatchday_proofs: Matchday

| Theorem | Property | Assumes |
|---|---|---|
| `WorkerConfirmsReadTwice` | `TwoReadings` | nothing |
| `SeparatedStaysApart` | `StaysApart` (a part of `FeedsTogether`) | nothing |
| `GamesShownOnce` | `FeedsTogether` | not `regroup` |
| `ApprovalsShowResults` | `ApprovedAsShown` | not `unconfirmed`, `auto` |
| `MatchdayTypes` | `TypeOK` (of no run) | nothing |

All for any number of games; TLC's instance has two. Most steps are `Ordinary`: each of the five kinds
of state moves only in a way that keeps the invariants (`KeepsTies`, `KeepsBundles`, `KeepsScores`,
`KeepsApprovals`, `KeepsFeeds`); import, correction, approval, separation, coordination and publication
have lemmas of their own. The invariants take the rows as parameters (`BundlesFit(gm, ps, fs)`), as
an import changes posts first and feeds, games and bundles after.

`ReadingInv`: what is counted is what was read last, and a snapshot at work is in the row unless somebody
has confirmed another result since.

`BundleInv`: a post in a bundle is one of its members, a game is bound or set apart, one without a post
has neither feed nor bundle, and one set apart is in no bundle. It keeps under separation because the
closure of the chosen games (`Closure`: the least set that holds every bundle and every open coordinator
that it touches) leaves nobody behind who still names a separated game.

`FeedInv`: the members of a bundle agree on it (`Reciprocal`), only a lead is transferred, and a game that
was shown belongs to the contribution whose feed is out. A new carousel takes members only from games in
none, or from the very same group, which is what `regroup` breaks.

`ApprovalInv`: whoever approved a post has read, of each game the post shows, the score that game still
has. A correction therefore has to find every approved post that shows the game, also under another
game's post (`ShownBy`, `Corrects`, `InvalidPosts`).

### Not proved

Only model-checked: all liveness (`AttemptsGoOn`, `JobSettles`, `JobEnds`, `DeliverySettles`,
`ReportComes`, `ResultIsRead`, `ExpiryNoticed`), since TLAPS does not prove properties under fairness.
Every invariant and every action property of the runs is proved for any constants that satisfy the
assumptions named; for several outputs of one kind `ApprovalHolds` does not hold (section 4).

## 6. Plan

What would come next: outputs of several variants in PostReview with what then does hold of them.

### Not modelled

- Rendering, prompts, scoring of creative profiles, scraping and parsing, text templates: data without a
  state worth exploring.
- Pages, exports, migrations, scripts, monitoring, presentation, the automation's preview
  (`posts/automation.py`) and the overview of games (`games/overview.py`): they only read.
- Manual uploads as posts (`posts/manual.py`): one request that writes what `create_post` does at its
  end; from then on such a post is one of PostReview's.
- Self-registration: as it stands it always fails (section 4).
- Token encryption, media grants, the tenant guard: filters and checks on single values.
- The composition of the modules: what they share (the status of a post and of its jobs) is in each of
  them as the others leave it; one module with all of them is beyond TLC.
