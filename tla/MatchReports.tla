----------------------------- MODULE MatchReports -----------------------------
(***************************************************************************)
(* The match report of one game: the worker reads FuPa, asks contacts for  *)
(* additions and has a first version written; users generate, edit,        *)
(* approve, delete and publish.                                            *)
(*                                                                         *)
(* The worker's work on a game is one transaction; so is   *)
(* a request of a user, long when it generates or publishes.  Texts are    *)
(* numbered through, also over reports that were deleted.                  *)
(***************************************************************************)
EXTENDS Integers, FiniteSets, SequencesExt

CONSTANTS Contacts,
          Messengers,    \* Messengers[c]: the preferred and the fallback provider of c
          MaxRequests,   \* requests of users that change the report
          MaxChanges,    \* changes of the FuPa page and of a messenger's connection
          ReportPerils         \* subset of {"approve", "delete", "unclear", "key"}

Users == {"u1", "u2"}
Nothing == "none"
Keys == {k \in Contacts \X {"whatsapp", "telegram"} :
            \E i \in DOMAIN Messengers[k[1]] : Messengers[k[1]][i] = k[2]}
Texts == 1..(MaxRequests + 1)

ASSUME ReportAssumption == MaxRequests \in Nat /\ MaxChanges \in Nat
                           /\ ReportPerils \subseteq {"approve", "delete", "unclear", "key"}

VARIABLES page,        \* what FuPa shows now
          live,        \* the score of the live centre and the game, when confirmed
          snapshots,   \* fupa_match_snapshots, in the order of their first fetch
          report,      \* match_reports
          versions,    \* match_report_versions
          publication, \* match_report_publications of each version
          request,     \* match_feedback_requests
          due,         \* requests whose deadline has passed
          linked,      \* endpoints that are connected and enabled
          login,       \* fupa_browser_sessions
          scheduler, user,
          fupa,        \* ghost: the text FuPa has
          approved,    \* ghost: versions the audit log names as approved
          confirmed,   \* ghost: versions FuPa confirmed and the database recorded
          asked,       \* ghost: messages that reached a contact
          used         \* requests and changes so far

sources == <<page, live, snapshots>>
reports == <<report, versions, publication, approved, confirmed, fupa, login>>
feedback == <<request, due, linked, asked>>
reportsVars == <<sources, reports, feedback, scheduler, user, used>>

Pages == {"open", "one", "two"}    \* no score yet, and two final scores
NoReport == [id |-> 0, status |-> Nothing, current |-> 0, published |-> FALSE]
ReportStatuses == {"waiting_for_sources", "waiting_for_feedback", "ready_to_generate", "generating", "failed",
             "conflict_requires_review", "review_required", "approved", "published"}
RequestStatus == {Nothing, "sent", "failed", "answered", "expired"}
PublicationStatus == {Nothing, "manual_required", "failed", "published"}
NoneMade == [k \in Keys |-> Nothing]
AtRest == [phase |-> "idle", view |-> NoReport, snapshots |-> <<>>, todo |-> {}, made |-> NoneMade,
         expired |-> {}]
Away == [op |-> Nothing, view |-> NoReport]

(***************************************************************************)
(* Sources (context.py, fupa.py)                                           *)
(***************************************************************************)
\* refresh_fupa_snapshot: content seen before is not stored again; "error" is no source.
Fetched(read) ==
    IF read = "error" \/ read \in ToSet(snapshots) THEN snapshots ELSE Append(snapshots, read)

_final_result_available(read) == live # Nothing \/ read \in {"one", "two"}

\* build_match_content_context: the snapshot fetched last and the confirmed score agree.
has_blocking_conflicts(s) ==
    LET scores == ({live} \cup (IF s = <<>> THEN {} ELSE {Last(s)})) \ {Nothing, "open"}
    IN Cardinality(scores) # 1

(***************************************************************************)
(* Feedback (feedback.py, telegram.py)                                     *)
(***************************************************************************)
Seen(k) == IF scheduler.made[k] # Nothing THEN scheduler.made[k]
           ELSE IF k \in scheduler.expired THEN "expired" ELSE request[k]

\* Mutant of NotYetAsked: a request that is over may be repeated.
NotOpen(k) == Seen(k) \notin {"sent", "answered"}

NotYetAsked(k) == Seen(k) = Nothing

\* The keys of c that are asked when the messengers answer as in outcome.
AskedNow(c, outcome) ==
    LET key(i) == <<c, Messengers[c][i]>>
        fresh(i) == key(i) \in linked /\ NotYetAsked(key(i))
        stops(i) == \/ key(i) \in linked /\ Seen(key(i)) \in {"sent", "answered"}
                    \/ fresh(i) /\ outcome[key(i)] = "sent"
    IN {key(i) : i \in {j \in DOMAIN Messengers[c] : fresh(j) /\ \A h \in 1..(j - 1) : ~stops(h)}}

\* What reached the contact: an unclear answer is recorded as failed.
Outcomes == {"sent", "failed", "gone"} \cup (IF "unclear" \in ReportPerils THEN {"unclear"} ELSE {})

Recorded(outcome) == IF outcome = "sent" THEN "sent" ELSE "failed"
Reached(keys, outcome) ==
    [k \in Keys |-> asked[k] + (IF k \in keys /\ outcome[k] \in {"sent", "unclear"} THEN 1 ELSE 0)]
\* A chat that is gone disables its endpoint.
StillLinked(keys, outcome) == linked \ {k \in keys : outcome[k] = "gone"}

\* Mutant of _open_feedback: the deadline is left to the request's status.
OpenAnyway == \E k \in Keys : Seen(k) \in {"sent", "expired"}

_open_feedback == \E k \in Keys : Seen(k) = "sent" /\ k \notin due

(***************************************************************************)
(* The worker's cycle (scheduler.py)                                       *)
(***************************************************************************)
WorkerCreates == scheduler.phase # "idle" /\ scheduler.view.id = 0
UserCreates == \E u \in Users : user[u].op = "generate" /\ user[u].view.id = 0
NewId == used.reports + 1

\* get_or_create_report and expire_feedback_requests with the reading of the page.
CycleBegin(read) ==
    LET expired == {k \in due : request[k] = "sent"} IN
    /\ scheduler = AtRest /\ ~UserCreates
    /\ scheduler' = [AtRest EXCEPT !.view = report, !.snapshots = Fetched(read), !.expired = expired,
                    !.phase = IF _final_result_available(read) THEN "asking" ELSE "unfinished",
                    !.todo = Contacts]
    /\ UNCHANGED <<sources, reports, feedback, user, used>>

\* The messages of one contact; the rows wait for the cycle's commit.
CycleAsk(c, outcome) ==
    LET keys == AskedNow(c, outcome) IN
    /\ scheduler.phase = "asking" /\ c \in scheduler.todo
    /\ scheduler' = [scheduler EXCEPT !.todo = @ \ {c},
                    !.made = [k \in Keys |-> IF k \in keys THEN Recorded(outcome[k]) ELSE @[k]]]
    /\ asked' = Reached(keys, outcome)
    /\ linked' = StillLinked(keys, outcome)
    /\ UNCHANGED <<sources, reports, request, due, user, used>>

CycleCommit ==
    /\ snapshots' = scheduler.snapshots
    /\ request' = [k \in Keys |-> IF request[k] = "answered" THEN "answered" ELSE Seen(k)]
    /\ due' = {k \in due : request'[k] # Nothing}

\* The row as the worker's session writes it: a status it read before is no change.
Written(status) ==
    IF report.id = 0 THEN [NoReport EXCEPT !.id = NewId, !.status = status]
    ELSE [report EXCEPT !.status = IF scheduler.view.status = status THEN @ ELSE status]

CycleUnfinished ==
    /\ scheduler.phase = "unfinished"
    /\ CycleCommit /\ scheduler' = AtRest
    /\ UNCHANGED <<page, live, reports, linked, asked, user, used>>

CycleEnd ==
    /\ scheduler.phase = "asking" /\ scheduler.todo = {} /\ scheduler.view.id = report.id
    /\ LET write(status) ==
             /\ CycleCommit /\ scheduler' = AtRest
             /\ report' = Written(status)
             /\ used' = [used EXCEPT !.reports = IF report.id = 0 THEN NewId ELSE @]
       IN IF _open_feedback THEN write("waiting_for_feedback")
          ELSE IF has_blocking_conflicts(scheduler.snapshots) THEN write("conflict_requires_review")
          ELSE IF scheduler.view.current # 0 THEN write("ready_to_generate")
          ELSE /\ scheduler' = [scheduler EXCEPT !.phase = "generating"]
               /\ UNCHANGED <<snapshots, report, request, due, used>>
    /\ UNCHANGED <<page, live, versions, publication, approved, confirmed, fupa, login, linked,
                   asked, user>>

\* generate_report_version after the answer of the text generator.
NewText == used.texts + 1
WithText(r) == [r EXCEPT !.current = NewText, !.status = "review_required"]

CycleGenerates ==
    /\ scheduler.phase = "generating" /\ scheduler.view.id = report.id
    /\ CycleCommit /\ scheduler' = AtRest
    /\ report' = WithText(Written("generating"))
    /\ versions' = versions \cup {NewText}
    /\ used' = [used EXCEPT !.reports = IF report.id = 0 THEN NewId ELSE @, !.texts = NewText]
    /\ UNCHANGED <<page, live, publication, approved, confirmed, fupa, login, linked, asked, user>>

\* The savepoint is rolled back: generation failed, the report is gone, or a secret
\* that cannot be decrypted raises an error that is no provider's.
CycleFails ==
    /\ \/ scheduler.phase = "generating"
       \/ scheduler.phase = "asking" /\ scheduler.view.id # report.id /\ scheduler.todo = {}
       \/ "key" \in ReportPerils /\ scheduler.phase = "asking" /\ scheduler.todo # {}
    /\ scheduler' = AtRest
    /\ report' = IF report.id = 0 THEN [NoReport EXCEPT !.id = NewId, !.status = "failed"]
                 ELSE [report EXCEPT !.status = "failed"]
    /\ request' = [k \in Keys |-> IF k \in scheduler.expired THEN "expired" ELSE request[k]]
    /\ used' = [used EXCEPT !.reports = IF report.id = 0 THEN NewId ELSE @]
    /\ UNCHANGED <<sources, versions, publication, approved, confirmed, fupa, login, due, linked,
                   asked, user>>

(***************************************************************************)
(* Requests of users (routes.py, service.py)                               *)
(***************************************************************************)
publishing(v) == \E u \in Users : user[u].op = "publish" /\ user[u].view.current = v

Deletable == /\ report.status # "published" /\ ~report.published
             /\ \A v \in versions : publication[v] # "published"

Request == used.requests < MaxRequests
RequestCounted == used' = [used EXCEPT !.requests = @ + 1]

Allowed(op) ==
    IF op = "generate"
    THEN ~has_blocking_conflicts(snapshots) /\ (report.id = 0 => ~WorkerCreates /\ ~UserCreates)
    ELSE /\ report.status = "approved" /\ ~publishing(report.current)
         /\ publication[report.current] # "published" /\ login = "active"

\* The two long requests.  The second user is one who comes while the first is at work.
Begin(u, op) ==
    /\ user[u] = Away /\ Request /\ Allowed(op)
    /\ u = "u2" => user["u1"] # Away
    /\ user' = [user EXCEPT ![u] = [op |-> op, view |-> report]]
    /\ RequestCounted
    /\ UNCHANGED <<sources, reports, feedback, scheduler>>

Leave(u) == user' = [user EXCEPT ![u] = Away]

\* A new version of the report that was read, or of a new one.
generate_report_version(u) ==
    /\ user[u].op = "generate" /\ user[u].view.id = report.id
    /\ report' = WithText(IF report.id = 0 THEN [NoReport EXCEPT !.id = NewId] ELSE report)
    /\ versions' = versions \cup {NewText}
    /\ used' = [used EXCEPT !.reports = IF report.id = 0 THEN NewId ELSE @, !.texts = NewText]
    /\ Leave(u)
    /\ UNCHANGED <<sources, publication, approved, confirmed, fupa, login, feedback, scheduler>>

\* Mutant of Edited: the new version inherits the approval.
KeepsApproval(r) == [r EXCEPT !.current = NewText]

Edited(r) == WithText(r)

create_edited_version ==
    /\ report.current # 0 /\ Request
    /\ report' = Edited(report)
    /\ versions' = versions \cup {NewText}
    /\ used' = [used EXCEPT !.texts = NewText, !.requests = @ + 1]
    /\ UNCHANGED <<sources, publication, approved, confirmed, fupa, login, feedback, scheduler, user>>

\* A request that was overtaken approves a version read earlier, and the row offers another.
approve_report(v) ==
    /\ report.current # 0 /\ Request /\ ~has_blocking_conflicts(snapshots)
    /\ "approve" \notin ReportPerils => v = report.current
    /\ report' = [report EXCEPT !.status = "approved"]
    /\ approved' = approved \cup {v}
    /\ RequestCounted
    /\ UNCHANGED <<sources, versions, publication, confirmed, fupa, login, feedback, scheduler, user>>

\* prepare_fupa_publication: what the publisher returned, or the browser failed with.
PublishText(u, status, saved) ==
    LET v == user[u].view.current IN
    /\ user[u].op = "publish"
    /\ publication' = [publication EXCEPT ![v] = status]
    /\ fupa' = IF saved THEN v ELSE fupa
    /\ IF status = "published"
       THEN /\ report' = [report EXCEPT !.status = "published", !.published = TRUE]
            /\ confirmed' = confirmed \cup {v}
       ELSE UNCHANGED <<report, confirmed>>
    /\ Leave(u)
    /\ UNCHANGED <<sources, versions, approved, feedback, scheduler, used>>

BrowserPublishes(u) ==
    \/ PublishText(u, "published", TRUE) /\ UNCHANGED login
    \/ \E saved \in BOOLEAN : PublishText(u, "failed", saved) /\ login' = "error"

\* With fupa_browser_publish_enabled off a publication is only prepared.
ManualPublishes ==
    LET v == report.current IN
    /\ report.status = "approved" /\ Request
    /\ publication[v] \in {Nothing, "failed"} /\ ~publishing(v)
    /\ publication' = [publication EXCEPT ![v] = "manual_required"]
    /\ RequestCounted
    /\ UNCHANGED <<sources, report, versions, approved, confirmed, fupa, login, feedback, scheduler, user>>

\* The rows of a publication in flight hold the deletion up after its check; one that
\* was not overtaken meets nobody at work on the report.
delete_unpublished_report ==
    /\ report.id # 0 /\ Request
    /\ \A v \in versions : ~publishing(v)
    /\ "delete" \notin ReportPerils => Deletable /\ scheduler.view.id # report.id
    /\ report' = NoReport /\ versions' = {}
    /\ publication' = [v \in Texts |-> Nothing]
    /\ RequestCounted
    /\ UNCHANGED <<sources, approved, confirmed, fupa, login, feedback, scheduler, user>>

\* A generation that fails: its transaction is rolled back.
Fails(u) ==
    /\ user[u].op = "generate"
    /\ Leave(u)
    /\ UNCHANGED <<sources, reports, feedback, scheduler, used>>

\* upload_fupa_session
save_fupa_browser_session ==
    /\ login # "active" /\ login' = "active"
    /\ UNCHANGED <<sources, report, versions, publication, approved, confirmed, fupa, feedback,
                   scheduler, user, used>>

\* refresh_sources: FuPa is read at once.
refresh_sources(read) ==
    LET s == Fetched(read) IN
    /\ Request /\ report.id # 0 /\ scheduler = AtRest
    /\ snapshots' = s
    /\ report' = [report EXCEPT !.status = IF has_blocking_conflicts(s) THEN "conflict_requires_review"
                                           ELSE "ready_to_generate"]
    /\ RequestCounted
    /\ UNCHANGED <<page, live, versions, publication, approved, confirmed, fupa, login, feedback,
                   scheduler, user>>

\* The button "request_feedback"; the rows of a cycle at work hold it up.
request_feedback(c, outcome) ==
    LET keys == AskedNow(c, outcome) IN
    /\ scheduler = AtRest /\ Request /\ keys # {}
    /\ request' = [k \in Keys |-> IF k \in keys THEN Recorded(outcome[k]) ELSE request[k]]
    /\ asked' = Reached(keys, outcome)
    /\ linked' = StillLinked(keys, outcome)
    /\ RequestCounted
    /\ UNCHANGED <<sources, reports, due, scheduler, user>>

(***************************************************************************)
(* The world                                                               *)
(***************************************************************************)
\* A reply in time to the one open request.
consume_feedback_response(k) ==
    /\ request[k] = "sent" /\ k \notin due
    /\ request' = [request EXCEPT ![k] = "answered"]

\* A message, a voice message or the button of the request; what is delivered again
\* finds its update, and an answered request takes no second reply.
telegram_webhook(k) ==
    /\ consume_feedback_response(k)
    /\ UNCHANGED <<sources, reports, due, linked, asked, scheduler, user, used>>

DeadlinePasses(k) ==
    /\ request[k] = "sent" /\ k \notin due
    /\ due' = due \cup {k}
    /\ UNCHANGED <<sources, reports, request, linked, asked, scheduler, user, used>>

PageChanges(p) ==
    /\ used.changes < MaxChanges /\ p # page /\ p # "open"
    /\ page' = p /\ used' = [used EXCEPT !.changes = @ + 1]
    /\ UNCHANGED <<live, snapshots, reports, feedback, scheduler, user>>

\* The final whistle in the live centre.
Confirm ==
    /\ live = Nothing /\ live' = "one"
    /\ UNCHANGED <<page, snapshots, reports, feedback, scheduler, user, used>>

SwitchLink(to) ==
    /\ used.changes < MaxChanges /\ to # linked
    /\ linked' = to /\ used' = [used EXCEPT !.changes = @ + 1]
    /\ UNCHANGED <<sources, reports, request, due, asked, scheduler, user>>

\* A contact opens the link to the bot in a private chat.
consume_contact_link(k) == SwitchLink(linked \cup {k})

disconnect_telegram_contact(k) == SwitchLink(linked \ {k})

(***************************************************************************)
(* Specification                                                           *)
(***************************************************************************)
ReportsInit ==
    /\ page = "open" /\ live = Nothing /\ snapshots = <<>>
    /\ report = NoReport /\ versions = {} /\ publication = [v \in Texts |-> Nothing]
    /\ request = [k \in Keys |-> Nothing] /\ due = {} /\ linked = Keys
    /\ login = "active"
    /\ scheduler = AtRest /\ user = [u \in Users |-> Away]
    /\ fupa = 0 /\ approved = {} /\ confirmed = {}
    /\ asked = [k \in Keys |-> 0]
    /\ used = [requests |-> 0, changes |-> 0, texts |-> 0, reports |-> 0]

SchedulerCycle ==
    \/ \E read \in {page, "error"} : CycleBegin(read)
    \/ \E c \in Contacts, outcome \in [Keys -> Outcomes] : CycleAsk(c, outcome)
    \/ CycleUnfinished \/ CycleEnd \/ CycleGenerates \/ CycleFails

ReportsNext ==
    \/ SchedulerCycle
    \/ \E u \in Users :
          \/ Begin(u, "generate") \/ Begin(u, "publish") \/ generate_report_version(u)
          \/ BrowserPublishes(u) \/ Fails(u)
    \/ ManualPublishes \/ create_edited_version \/ delete_unpublished_report \/ \E v \in versions : approve_report(v)
    \/ save_fupa_browser_session
    \/ \E read \in {page, "error"} : refresh_sources(read)
    \/ \E c \in Contacts, outcome \in [Keys -> Outcomes] : request_feedback(c, outcome)
    \/ \E k \in Keys :
          \/ telegram_webhook(k) \/ DeadlinePasses(k)
          \/ consume_contact_link(k) \/ disconnect_telegram_contact(k)
    \/ \E p \in Pages : PageChanges(p)
    \/ Confirm

ReportsSpec == ReportsInit /\ [][ReportsNext]_reportsVars

\* The worker's loop goes on, its sessions end and deadlines pass.
FairReports == ReportsSpec /\ WF_reportsVars(SchedulerCycle) /\ \A k \in Keys : WF_reportsVars(DeadlinePasses(k))
                           /\ \A u \in Users : WF_reportsVars(Fails(u))

(***************************************************************************)
(* Properties                                                              *)
(***************************************************************************)
\* Every row, session and cycle has its type.
ReportsTypeOK ==
    /\ page \in Pages /\ live \in {Nothing, "one"} /\ ToSet(snapshots) \subseteq Pages
    /\ report.status \in ReportStatuses \cup {Nothing} /\ report.current \in {0} \cup versions
    /\ versions \subseteq Texts /\ fupa \in {0} \cup Texts
    /\ publication \in [Texts -> PublicationStatus]
    /\ request \in [Keys -> RequestStatus]
    /\ due \subseteq Keys /\ linked \subseteq Keys
    /\ login \in {"active", "error"}
    /\ scheduler.phase \in {"idle", "unfinished", "asking", "generating"}
    /\ \A u \in Users : user[u].op \in {Nothing, "generate", "publish"}

\* FuPa gets, and the report offers it, only a text that somebody approved as it is
\* (docs/FUPA_BROWSER_PUBLISHING.md: every transfer needs an approved report), however
\* generations, edits, approvals and the worker's cycle follow each other.
OnlyApprovedTexts ==
    /\ fupa \in approved \cup {0}
    /\ report.status = "approved" => report.current \in approved

\* A report FuPa confirmed is not deleted (test_delete_published_report_is_blocked),
\* although the worker's next cycle gives it another status.
PublishedIsKept == \A v \in confirmed : v \in versions /\ publication[v] = "published"

\* What is on FuPa was approved and stays on record (the checks of approve, publish
\* and delete, with the worker's cycle in between).
PublishedAsApproved == OnlyApprovedTexts /\ PublishedIsKept

\* No contact is asked twice about a game through the same messenger ("It is not sent
\* again under the same key"), by the cycle, the button, after failures and deadlines.
AskedOnce == \A k \in Keys : asked[k] <= 1

\* A missing answer does not block the report (docs/FUPA_MATCH_REPORTS.md): a game with
\* a confirmed result gets a version, or a status that says why not.
ReportComes ==
    live # Nothing ~> report.current # 0 \/ report.status \in {"failed", "conflict_requires_review"}
=============================================================================
