------------------------------- MODULE Matchday -------------------------------
(***************************************************************************)
(* The result posts of the games of one club on one matchday: the page of  *)
(* FUSSBALL.DE that the worker reads (app/games/automatic.py), the import  *)
(* of what it read (app/games/importer.py), the grouping of games into one *)
(* contribution (app/games/bundles.py), the planning and the running of    *)
(* generation jobs (app/jobs/generation.py), the carousel that replaces    *)
(* the feeds of the members (app/posts/club_carousel.py), the separation   *)
(* and deletion of contributions (app/posts/separation.py, deletion.py)    *)
(* and the dashboard's commands on games (app/admin_routes.py).            *)
(*                                                                         *)
(* Every game belongs to another team; each post has one feed publication. *)
(* Approval and the transfer to Instagram are atomic here: PostReview and  *)
(* MetaPublishing open them.                                               *)
(***************************************************************************)
EXTENDS Naturals, FiniteSets

CONSTANTS
    Games,          \* games of the club, each of a team of its own
    First,          \* the game of the preferred team: the carousel's primary
    Scores,         \* results FUSSBALL.DE or a user may report: 1, 2, ...
    Played,         \* games whose result the page shows when the worker starts
    Grouped,        \* do the teams' rules join results of one day?
    MaxChanges,     \* bound: changes of FUSSBALL.DE's page
    MaxCommands,    \* bound: commands of users
    MaxFailures,    \* bound: failures of generation jobs
    Perils          \* what else may happen: see Peril

(* "half": the worker stops between import and observation, or an administrator
   imports a snapshot by hand; "unconfirmed": a post is approved while its result is
   not confirmed, or another result is confirmed for an approved post after the
   worker withdrew the confirmation; "auto": the teams ask for automatic approval;
   "regroup": a game of a carousel joins another one, because games of the day were
   hidden, called off, separated or connected since the first one was made. *)
Peril == {"half", "unconfirmed", "auto", "regroup"}

ASSUME MatchdayAssumption ==
    /\ First \in Games /\ IsFiniteSet(Games) /\ Played \subseteq Games
    /\ Scores \subseteq Nat \ {0} /\ 1 \in Scores
    /\ Grouped \in BOOLEAN
    /\ MaxChanges \in Nat /\ MaxCommands \in Nat /\ MaxFailures \in Nat
    /\ Perils \subseteq Peril

VARIABLES
    site,       \* what FUSSBALL.DE shows of a game
    game,       \* the row of a game
    sync,       \* the snapshot the synchronising worker holds
    jobs,       \* generation jobs
    post,       \* the active result post of a game
    feed,       \* the feed publication of that post
    used,       \* page changes, commands and failures so far
    readings,   \* history: the score last observed in a snapshot or confirmed by a user
    sent        \* history: feed publications showing a game since its last separation

vars == <<site, game, sync, jobs, post, feed, used, readings, sent>>

NoScore == 0            \* the page shows no result
Results == Scores \cup {NoScore}
Days == {1, 2}
Page == [score: Results, off: BOOLEAN, day: Days]
NoSnapshot == [of |-> First, stage |-> "idle", page |-> [score |-> NoScore, off |-> FALSE, day |-> 1]]
NewGame == [score |-> NoScore, off |-> FALSE, day |-> 1, confirmed |-> FALSE, hidden |-> FALSE,
            tied |-> FALSE, apart |-> FALSE, rev |-> 0, cand |-> NoScore]
Unread == [g \in Games |-> NoScore]
NoPost == [state |-> "none", bundle |-> {}, drawn |-> NoScore, read |-> Unread, warnings |-> {}]

Spend(kind, limit) == used[kind] < limit /\ used' = [used EXCEPT ![kind] = @ + 1]
Command == Spend("commands", MaxCommands)

-----------------------------------------------------------------------------
(* Grouping *)

Blocked(g) == game[g].hidden \/ game[g].off          \* automation_blocked

\* _candidate_rows: the games of g's day that may share a contribution
_candidate_rows(g) == {h \in Games : game[h].day = game[g].day /\ ~Blocked(h)}

\* generation_bundle_games: a manual bundle wins over the rule
generation_bundle_games(g) ==
    LET tied == {h \in _candidate_rows(g) : game[h].tied}
        free == {h \in _candidate_rows(g) : ~game[h].tied /\ ~game[h].apart}
        shared == IF game[g].apart THEN {} ELSE IF game[g].tied THEN tied
                  ELSE IF Grouped THEN free ELSE {}
    IN  IF Cardinality(shared) >= 2 THEN shared ELSE {g}

\* _sort_games: the preferred team comes first
Lead(group) == IF First \in group THEN First ELSE CHOOSE g \in group : TRUE

\* matchday_bundle_posts: the games of the contribution that g's post belongs to
Contribution(ps, g) == IF ps[g].bundle = {} THEN {g} ELSE ps[g].bundle
Leads(g) == g = Lead(Contribution(post, g))

\* matchday_bundle_posts, _locked_deletion_group: the members name the same members
Reciprocal(ps, g) == \A h \in Contribution(ps, g) : ps[h].bundle = ps[g].bundle

\* the games a publication of g's feed shows
Shown(g) == IF Leads(g) THEN Contribution(post, g) ELSE {g}

Active(g) == post[g].state # "none"
Carries(g, h) == Active(g) /\ (g = h \/ h \in post[g].bundle)

Unsent == {"waiting", "open", "scheduled"}

-----------------------------------------------------------------------------
(* Separation: posts/separation.py *)

JobOpen(j) == j.status \in {"queued", "running"}

\* no shared post and no unfinished coordinator leads out of C
Bound(C) ==
    /\ \A h \in Games : h \in C \/ post[h].bundle \cap C # {} => post[h].bundle \subseteq C
    /\ \A j \in jobs : JobOpen(j) /\ Cardinality(j.games) > 1 /\ j.games \cap C # {} => j.games \subseteq C

\* the games bound to those of G, over any number of posts and coordinators
Closure(G) == {g \in Games : \A C \in SUBSET Games : G \subseteq C /\ Bound(C) => g \in C}

\* shared jobs that touch the games of G
Affected(G) == {j \in jobs : Cardinality(j.games) > 1 /\ j.games \cap G # {}}
Separable(G) == /\ ~\E j \in Affected(Closure(G)) : j.status = "running"
                /\ \A g \in Closure(G) : Reciprocal(post, g)
Retired(G) == {g \in Closure(G) : post[g].bundle # {}}
AlreadyApart(G) == /\ Retired(G) = {} /\ \A j \in Affected(Closure(G)) : j.status # "queued"
                   /\ \A g \in Closure(G) : game[g].apart

SeparatedJobs(G) ==
    {IF j \in Affected(Closure(G)) /\ j.status = "queued" THEN [j EXCEPT !.status = "cancelled"] ELSE j : j \in jobs}
SeparatedPosts(G) == [g \in Games |-> IF g \in Retired(G) THEN NoPost ELSE post[g]]
SeparatedFeeds(G) == [g \in Games |-> IF g \in Retired(G) THEN "none" ELSE feed[g]]
Separated(r) == [r EXCEPT !.tied = FALSE, !.apart = TRUE, !.rev = @ + 1]
SeparatedGames(G) == [g \in Games |-> IF g \in Closure(G) THEN Separated(game[g]) ELSE game[g]]
Recounted(G) == [g \in Games |-> IF g \in Closure(G) THEN 0 ELSE sent[g]]

\* separate_rescheduled_matchday: is there something to dissolve when g moves?
Shares(g) == \/ post[g].bundle # {}
             \/ \E j \in jobs : JobOpen(j) /\ Cardinality(j.games) > 1 /\ g \in j.games

-----------------------------------------------------------------------------
(* Synchronisation: games/automatic.py, games/importer.py *)

(* FUSSBALL.DE changes one thing it shows of a game. The first result it shows is
   called 1 and its correction 2: users may report either of them earlier. *)
PageChanges(g) ==
    /\ Spend("changes", MaxChanges)
    /\ \/ \E s \in Scores : s = site[g].score + 1 /\ site' = [site EXCEPT ![g].score = s]
       \/ site' = [site EXCEPT ![g].off = ~@]
       \/ site[g].day = 1 /\ site' = [site EXCEPT ![g].day = 2]
    /\ UNCHANGED <<game, sync, jobs, post, feed, readings, sent>>

(* _capture_automatic_snapshot: the page as it is read. Reading and importing are
   one step: what a user does in between could as well be done before the reading. *)
_capture_automatic_snapshot(g) == site[g]

\* import_snapshot keeps a score that the page no longer shows
KeepsFirst(g, p) == IF game[g].score # NoScore THEN game[g].score ELSE p.score
Incoming(g, p) == IF p.score = NoScore THEN game[g].score ELSE p.score
Relevant(g, p) == Incoming(g, p) # game[g].score \/ p.off # game[g].off \/ p.day # game[g].day
Moves(g, p) == p.day # game[g].day /\ Shares(g)
Imported(r, g, p) ==
    [r EXCEPT !.score = Incoming(g, p), !.off = p.off, !.day = p.day,
              !.confirmed = @ /\ Incoming(g, p) = game[g].score]

\* _invalidate_publications: approved posts that carry the game lose the approval
Revoked(r) == [r EXCEPT !.state = "reapproval"]
OwnPostsOnly(ps, g) ==
    [h \in Games |-> IF h = g /\ ps[h].state = "approved" THEN Revoked(ps[h]) ELSE ps[h]]
InvalidPosts(ps, g) ==
    [h \in Games |-> IF (h = g \/ g \in ps[h].bundle) /\ ps[h].state = "approved"
                     THEN Revoked(ps[h]) ELSE ps[h]]
InvalidFeeds(ps, fs, g) ==
    [h \in Games |-> IF (h = g \/ g \in ps[h].bundle) /\ ps[h].state = "approved" /\ fs[h] \in Unsent
                     THEN "open" ELSE fs[h]]

\* process_claimed_team up to the import
import_snapshot(g) ==
    LET p == _capture_automatic_snapshot(g)
        apart == Moves(g, p)
        rows == IF apart THEN SeparatedGames({g}) ELSE game
        ps == IF apart THEN SeparatedPosts({g}) ELSE post
        fs == IF apart THEN SeparatedFeeds({g}) ELSE feed
    IN  /\ sync.stage = "idle"
        /\ apart => Separable({g})
        /\ game' = [rows EXCEPT ![g] = Imported(rows[g], g, p)]
        /\ jobs' = IF apart THEN SeparatedJobs({g}) ELSE jobs
        /\ post' = IF Relevant(g, p) THEN InvalidPosts(ps, g) ELSE ps
        /\ feed' = IF Relevant(g, p) THEN InvalidFeeds(ps, fs, g) ELSE fs
        /\ sent' = IF apart THEN Recounted({g}) ELSE sent
        /\ \/ sync' = [of |-> g, stage |-> "imported", page |-> p]
           \/ "half" \in Perils /\ sync' = NoSnapshot
        /\ UNCHANGED <<site, used, readings>>

(* _observe_results: another score starts the count anew, the second equal reading
   confirms. Readings within the stability period count as one here. *)
NeverAnew(r, s) == IF r.cand = NoScore THEN 1 ELSE 2
Counted(r, s) == IF r.cand # s THEN 1 ELSE 2
ConfirmedBy(r, s) ==
    \/ r.confirmed /\ r.cand = s
    \/ ~r.off /\ Counted(r, s) >= 2

_observe_results(g) ==
    LET r == game[g]
        s == sync.page.score
    IN  /\ sync.stage = "imported" /\ sync.of = g
        /\ IF r.hidden \/ s = NoScore
           THEN UNCHANGED <<game, readings>>
           ELSE /\ game' = [game EXCEPT ![g].cand = s, ![g].confirmed = ConfirmedBy(r, s)]
                /\ readings' = [readings EXCEPT ![g] = s]
        /\ sync' = NoSnapshot
        /\ UNCHANGED <<site, jobs, post, feed, used, sent>>

-----------------------------------------------------------------------------
(* The carousel: posts/club_carousel.py *)

AllConfirmed(group) == \A h \in group : game[h].confirmed

\* is_redundant_matchday_bundle_feed, reconcile_matchday_bundle_feed_jobs
Reconciled(ps, fs, group) ==
    [h \in Games |-> IF h \in group \ {Lead(group)} /\ ps[h].bundle = group /\ fs[h] \in Unsent
                     THEN "cancelled" ELSE fs[h]]

\* coordinate_club_matchday_feed for the post of g, with the posts ps and feeds fs
Conflict(g, ps, fs) ==
    LET group == generation_bundle_games(g)
    IN  /\ group # {g} /\ AllConfirmed(group)
        /\ \A h \in group : ps[h].state # "none"
        /\ \/ \E h \in group : fs[h] \in {"published", "none"}
           \/ ~Reciprocal(ps, Lead(group))
Complete(g, ps) ==
    LET group == generation_bundle_games(g)
    IN  group # {g} /\ AllConfirmed(group) /\ \A h \in group : ps[h].state # "none"
MadeBefore(group, ps) == ps[Lead(group)].bundle # {}

\* A member whose feed another carousel replaced: nobody looks whether that one is out.
Regroups(g) ==
    LET group == generation_bundle_games(g)
    IN  Complete(g, post) /\ ~MadeBefore(group, post) /\ \E h \in group : post[h].bundle \notin {{}, group}

CoordinatedPosts(g, ps) ==
    LET group == generation_bundle_games(g)
    IN  IF ~Complete(g, ps) \/ MadeBefore(group, ps) THEN ps
        ELSE [h \in Games |->
                IF h \notin group THEN ps[h]
                ELSE [ps[h] EXCEPT !.bundle = group,
                                   !.state = IF h = Lead(group) /\ @ = "approved" THEN "reapproval" ELSE @]]
CoordinatedFeeds(g, ps, fs) ==
    LET group == generation_bundle_games(g)
    IN  IF group = {g} THEN fs
        ELSE IF ~Complete(g, ps) THEN [fs EXCEPT ![g] = IF @ \in {"published", "none"} THEN @ ELSE "waiting"]
        ELSE IF MadeBefore(group, ps) THEN Reconciled(ps, fs, ps[Lead(group)].bundle)
        ELSE [h \in Games |-> IF h \notin group THEN fs[h]
                              ELSE IF h = Lead(group) THEN "open" ELSE "cancelled"]

-----------------------------------------------------------------------------
(* Generation jobs: games/automatic.py, jobs/generation.py *)

Revisions(group) == [h \in Games |-> IF h \in group THEN game[h].rev ELSE 0]

\* generation_request_key: the same games in the same revisions are asked for once
Requested(group) == \E j \in jobs : j.games = group /\ j.revs = Revisions(group)
NewJob(group) ==
    [games |-> group, revs |-> Revisions(group), status |-> "queued", left |-> {}, facts |-> Unread]

(* plan_generation_jobs, and a user's click on "generate": enqueue_bundle_create
   and enqueue_create refuse a blocked game, a result that is not confirmed and a
   game that already has a post. *)
plan_generation_jobs(g) ==
    LET group == generation_bundle_games(g)
    IN  /\ ~Blocked(g) /\ AllConfirmed(group)
        /\ ~Requested(group)
        /\ \A h \in group : ~Active(h)
        /\ jobs' = jobs \cup {NewJob(group)}
        /\ UNCHANGED <<site, game, sync, post, feed, used, readings, sent>>

\* process_generation_job looks at every game once more before it starts
StillValid(j) ==
    /\ \A h \in j.games : ~Blocked(h) /\ j.revs[h] = game[h].rev
    /\ Cardinality(j.games) > 1 => /\ AllConfirmed(j.games)
                                   /\ \A h \in j.games : ~game[h].apart
                                   /\ \A h, i \in j.games : game[h].day = game[i].day
Facts(j) == [h \in Games |-> IF h \in j.games THEN game[h].score ELSE NoScore]
Becomes(j, k) == jobs' = (jobs \ {j}) \cup {k}
Ended(j, status) == [j EXCEPT !.status = status, !.left = {}, !.facts = Unread]

(* _capture_partial_post: what exists of the games of a failed job is incomplete,
   unless the games have been separated since. *)
StillCaptured(j) == \A h \in j.games : j.revs[h] = game[h].rev
_capture_partial_post(j, ps) ==
    [h \in Games |-> IF StillCaptured(j) /\ h \in j.games /\ ps[h].state # "none"
                     THEN [ps[h] EXCEPT !.state = "incomplete", !.warnings = @ \cup {"partial"}]
                     ELSE ps[h]]

claim_next(j) ==
    /\ j.status = "queued"
    /\ \A k \in jobs : k.status # "running"
    /\ IF StillValid(j)
       THEN /\ Becomes(j, [j EXCEPT !.status = "running", !.left = j.games, !.facts = Facts(j)])
            /\ UNCHANGED post
       ELSE /\ Becomes(j, Ended(j, "failed"))
            /\ post' = _capture_partial_post(j, post)
    /\ UNCHANGED <<site, game, sync, feed, used, readings, sent>>

(* create_post, one game after the other, each committed for itself: a complete
   post is kept, an incomplete one continued as long as nothing of it is out. *)
NextOf(j) == Lead(j.left)
Fresh(h) == post[h].state \in {"none", "incomplete"}
NothingRefused(h) == FALSE
Refused(h) == post[h].state = "incomplete" /\ feed[h] = "published"
Drafted(r, fact) ==
    LET warnings == r.warnings \ {"partial"}
    IN  [r EXCEPT !.state = IF warnings = {} THEN "pending" ELSE "incomplete",
                  !.warnings = warnings, !.drawn = fact]

create_post(j) ==
    /\ j.status = "running" /\ j.left # {}
    /\ LET h == NextOf(j)
       IN  /\ ~Refused(h)
           /\ Becomes(j, [j EXCEPT !.left = @ \ {h}])
           /\ IF Fresh(h)
              THEN /\ post' = [post EXCEPT ![h] = Drafted(@, j.facts[h])]
                   /\ feed' = [feed EXCEPT ![h] = "open"]
              ELSE UNCHANGED <<post, feed>>
    /\ UNCHANGED <<site, game, sync, used, readings, sent>>

\* the post that the finished job hands to the coordination
LastOf(j) == IF j.games = {Lead(j.games)} THEN Lead(j.games) ELSE CHOOSE h \in j.games : h # Lead(j.games)

(* _automatically_approve_created_outputs: only after a job of a single game; an
   unfinished bundle keeps its feed, a finished one is approved as a whole. *)
AutoLead(j, ps) == Lead(Contribution(ps, Lead(j.games)))
AutoApproved(j, ps, fs) ==
    /\ "auto" \in Perils /\ Cardinality(j.games) = 1
    /\ fs[AutoLead(j, ps)] = "open"
    /\ ps[AutoLead(j, ps)].state \in {"pending", "reapproval"} /\ ps[AutoLead(j, ps)].warnings = {}
Drawn(ps, shown) == [h \in Games |-> IF h \in shown THEN ps[h].drawn ELSE NoScore]

\* Coordination fails when a post was deleted, or a feed of the day is out or missing.
Uncoordinated(j) == (\E h \in j.games : ~Active(h)) \/ Conflict(LastOf(j), post, feed)

process_generation_job(j) ==
    LET ps == CoordinatedPosts(LastOf(j), post)
        fs == CoordinatedFeeds(LastOf(j), post, feed)
        lead == AutoLead(j, ps)
    IN  /\ j.status = "running" /\ j.left = {}
        /\ ~Uncoordinated(j)
        /\ "regroup" \in Perils \/ ~Regroups(LastOf(j))
        /\ Becomes(j, Ended(j, "done"))
        /\ IF AutoApproved(j, ps, fs)
           THEN /\ post' = [ps EXCEPT ![lead].state = "approved",
                                      ![lead].read = Drawn(ps, Contribution(ps, lead))]
                /\ feed' = [fs EXCEPT ![lead] = "scheduled"]
           ELSE post' = ps /\ feed' = fs
        /\ UNCHANGED <<site, game, sync, used, readings, sent>>

(* The job fails: by itself, or because of what it meets. A post that was being
   created or continued may remain without publications. *)
GenerationFails(j) ==
    /\ j.status = "running"
    /\ IF j.left = {} THEN Uncoordinated(j) ELSE Refused(NextOf(j))
    /\ Becomes(j, Ended(j, "failed"))
    /\ post' = _capture_partial_post(j, post)
    /\ UNCHANGED <<site, game, sync, feed, used, readings, sent>>

ProviderFails(j) ==
    /\ Spend("failures", MaxFailures)
    /\ j.status = "running" /\ j.left # {}
    /\ Becomes(j, Ended(j, "failed"))
    /\ LET h == NextOf(j)
       IN  \/ post' = _capture_partial_post(j, post) /\ UNCHANGED feed
          \/ /\ Fresh(h) /\ ~Refused(h) /\ StillCaptured(j)
             /\ post' = _capture_partial_post(j, [post EXCEPT ![h] = Drafted(@, j.facts[h])])
             /\ feed' = [feed EXCEPT ![h] = "none"]
    /\ UNCHANGED <<site, game, sync, readings, sent>>

\* retry_job: a user starts a failed job again, with a new budget if need be
retry_job(j) ==
    /\ Command
    /\ j.status = "failed"
    /\ Becomes(j, [j EXCEPT !.status = "queued"])
    /\ UNCHANGED <<site, game, sync, post, feed, readings, sent>>

-----------------------------------------------------------------------------
(* Commands on games: admin_routes.py *)

\* _invalidate_posts_for_result_change: a corrected result leaves a critical warning
Warned(r) == [r EXCEPT !.state = "reapproval", !.warnings = @ \cup {"result"}]
Corrects(h, g) == Carries(h, g) /\ post[h].state \notin {"published", "cancelled"}

confirm_game_result(g, s) ==
    LET r == game[g]
        corrected == r.confirmed /\ r.score # s
    IN  /\ Command
        /\ ~r.off
        /\ ~(r.confirmed /\ r.score = s)
        /\ \/ r.confirmed \/ r.score = s \/ "unconfirmed" \in Perils
           \/ \A h \in Games : Carries(h, g) => post[h].state # "approved"
        /\ game' = [game EXCEPT ![g].score = s, ![g].confirmed = TRUE, ![g].cand = s]
        /\ post' = [h \in Games |-> IF corrected /\ Corrects(h, g) THEN Warned(post[h]) ELSE post[h]]
        /\ feed' = [h \in Games |-> IF corrected /\ Corrects(h, g) /\ feed[h] \in Unsent
                                    THEN "open" ELSE feed[h]]
        /\ readings' = [readings EXCEPT ![g] = s]
        /\ UNCHANGED <<site, sync, jobs, sent>>

\* update_game_details: every publication of the game that is not out becomes open again
update_game_details(g) ==
    LET affected == post[g].state \notin {"none", "published", "cancelled"}
    IN  /\ Command
        /\ post' = IF affected THEN [post EXCEPT ![g] = Revoked(@)] ELSE post
        /\ feed' = IF affected /\ feed[g] # "published" THEN [feed EXCEPT ![g] = "open"] ELSE feed
        /\ UNCHANGED <<site, game, sync, jobs, readings, sent>>

\* delete_game hides the game and cancels its own posts and publications
delete_game(g) ==
    /\ Command
    /\ ~game[g].hidden
    /\ ~\E j \in jobs : JobOpen(j) /\ Lead(j.games) = g
    /\ game' = [game EXCEPT ![g].hidden = TRUE]
    /\ post' = [post EXCEPT ![g].state = IF @ \in {"none", "published"} THEN @ ELSE "cancelled"]
    /\ feed' = [feed EXCEPT ![g] = IF @ \in {"none", "published"} THEN @ ELSE "cancelled"]
    /\ UNCHANGED <<site, sync, jobs, readings, sent>>

\* (each restoration follows a deletion, whose bound is its own)
restore_provider_game(g) ==
    /\ game[g].hidden
    /\ game' = [game EXCEPT ![g].hidden = FALSE]
    /\ UNCHANGED <<site, sync, jobs, post, feed, used, readings, sent>>

\* connect_games: all games of one day become a manual bundle
connect_games(G) ==
    /\ Command
    /\ Cardinality(G) >= 2
    /\ \A g, h \in G : game[g].day = game[h].day
    /\ \A g \in G : ~game[g].off
    /\ game' = [g \in Games |-> IF g \in G THEN [game[g] EXCEPT !.tied = TRUE, !.apart = FALSE] ELSE game[g]]
    /\ UNCHANGED <<site, sync, jobs, post, feed, readings, sent>>

\* separate_matchday_posts: refused while a shared job is running
separate_matchday_posts(G) ==
    /\ Command
    /\ Separable(G) /\ ~AlreadyApart(G)
    /\ jobs' = SeparatedJobs(G)
    /\ post' = SeparatedPosts(G)
    /\ feed' = SeparatedFeeds(G)
    /\ game' = SeparatedGames(G)
    /\ sent' = Recounted(G)
    /\ UNCHANGED <<site, sync, readings>>

-----------------------------------------------------------------------------
(* Commands on posts, and the transfer *)

Approvable(h) == post[h].state \in {"pending", "reapproval", "approved"} /\ post[h].warnings = {}
Known(group) == "unconfirmed" \in Perils \/ AllConfirmed(group)
Now(shown) == [h \in Games |-> IF h \in shown THEN game[h].score ELSE NoScore]

(* approve_matchday_bundle: the page of a bundle shows the primary post; what the
   carousel replaced is cancelled first, then every member is approved. *)
approve_matchday_bundle(g) ==
    LET group == Shown(g)
        fs == Reconciled(post, feed, group)
    IN  /\ Leads(g) /\ Reciprocal(post, g)
        /\ feed[g] = "open" \/ (feed[g] = "waiting" /\ post[g].state # "approved")
        /\ \A h \in group : Approvable(h) \/ (h # g /\ post[h].state \in {"published", "cancelled"})
        /\ Approvable(g) /\ Known(group)
        /\ post' = [h \in Games |->
                      IF h = g THEN [post[h] EXCEPT !.state = "approved", !.read = Now(group)]
                      ELSE IF h \in group /\ Approvable(h)
                      THEN [post[h] EXCEPT !.state = "approved", !.read = Now({h})]
                      ELSE post[h]]
        /\ feed' = [fs EXCEPT ![g] = IF @ = "open" THEN "scheduled" ELSE @]
        /\ UNCHANGED <<site, game, sync, jobs, used, readings, sent>>

\* reorder_matchday_carousel: before anything was sent, the approval falls
reorder_matchday_carousel(g) ==
    /\ Command
    /\ post[g].bundle # {} /\ Leads(g) /\ Reciprocal(post, g)
    /\ feed[g] \in {"open", "scheduled"}
    /\ post' = [post EXCEPT ![g].state = IF @ = "approved" THEN "reapproval" ELSE @]
    /\ feed' = [feed EXCEPT ![g] = "open"]
    /\ UNCHANGED <<site, game, sync, jobs, readings, sent>>

\* delete_unpublished_post: the whole bundle goes, with the jobs that made it
delete_unpublished_post(g) ==
    LET group == Contribution(post, g)
    IN  /\ Command
        /\ Active(g) /\ Reciprocal(post, g)
        /\ \A h \in group : post[h].state # "published" /\ feed[h] # "published"
        /\ \A j \in jobs : JobOpen(j) /\ j.games \cap group # {} =>
                             \A h \in j.games : post[h].state # "incomplete"
        /\ post' = [h \in Games |-> IF h \in group THEN NoPost ELSE post[h]]
        /\ feed' = [h \in Games |-> IF h \in group THEN "none" ELSE feed[h]]
        /\ jobs' = {j \in jobs : j.games \cap group = {} \/ JobOpen(j) \/ j.status = "cancelled"}
        /\ UNCHANGED <<site, game, sync, readings, sent>>

\* The scheduler transfers an approved feed; only the post's own game is looked at.
Publish(g) ==
    /\ feed[g] = "scheduled" /\ post[g].state = "approved"
    /\ ~Blocked(g)
    /\ feed' = [feed EXCEPT ![g] = "published"]
    /\ post' = [post EXCEPT ![g].state = "published"]
    /\ sent' = [h \in Games |-> IF h \in Shown(g) THEN (IF sent[h] = 0 THEN 1 ELSE 2) ELSE sent[h]]
    /\ UNCHANGED <<site, game, sync, jobs, used, readings>>

-----------------------------------------------------------------------------
Init ==
    /\ site = [g \in Games |-> [score |-> IF g \in Played THEN 1 ELSE NoScore,
                               off |-> FALSE, day |-> 1]]
    /\ game = [g \in Games |-> NewGame]
    /\ sync = NoSnapshot
    /\ jobs = {}
    /\ post = [g \in Games |-> NoPost]
    /\ feed = [g \in Games |-> "none"]
    /\ used = [changes |-> 0, commands |-> 0, failures |-> 0]
    /\ readings = Unread
    /\ sent = [g \in Games |-> 0]

Synchronise(g) == import_snapshot(g) \/ _observe_results(g)
Generate ==
    \E j \in jobs : claim_next(j) \/ create_post(j) \/ process_generation_job(j) \/ GenerationFails(j)
CommandOnGame(g) ==
    \/ \E s \in Scores : confirm_game_result(g, s)
    \/ update_game_details(g) \/ delete_game(g) \/ restore_provider_game(g)
CommandOnPost(g) ==
    \/ approve_matchday_bundle(g)
    \/ reorder_matchday_carousel(g) \/ delete_unpublished_post(g)

Next ==
    \/ \E g \in Games : PageChanges(g) \/ Synchronise(g) \/ plan_generation_jobs(g)
                        \/ CommandOnGame(g) \/ CommandOnPost(g) \/ Publish(g)
    \/ \E G \in (SUBSET Games) \ {{}} : connect_games(G) \/ separate_matchday_posts(G)
    \/ Generate
    \/ \E j \in jobs : ProviderFails(j) \/ retry_job(j)

Spec == Init /\ [][Next]_vars

(* Both workers run in an endless loop, and the loop returns to every team. *)
FairSpec ==
    /\ Spec
    /\ WF_vars(Generate)
    /\ \A g \in Games : SF_vars(import_snapshot(g))
    /\ WF_vars(\E g \in Games : _observe_results(g))

-----------------------------------------------------------------------------
(* Properties *)

\* Each row holds values its columns admit.
TypeOK ==
    /\ site \in [Games -> Page]
    /\ game \in [Games -> [score: Results, off: BOOLEAN, day: Days, confirmed: BOOLEAN, hidden: BOOLEAN,
                           tied: BOOLEAN, apart: BOOLEAN, rev: Nat, cand: Results]]
    /\ sync \in [of: Games, stage: {"idle", "imported"}, page: Page]
    /\ \A j \in jobs : /\ j.games \subseteq Games /\ j.games # {}
                       /\ j.revs \in [Games -> Nat] /\ j.facts \in [Games -> Results] /\ j.left \subseteq j.games
                       /\ j.status \in {"queued", "running", "done", "failed", "cancelled"}
    /\ post \in [Games -> [state: {"none", "incomplete", "pending", "approved", "reapproval", "cancelled", "published"},
                           bundle: SUBSET Games, drawn: Results, read: [Games -> Results], warnings: SUBSET {"partial", "result"}]]
    /\ feed \in [Games -> Unsent \cup {"none", "cancelled", "published"}]
    /\ used \in [changes: 0..MaxChanges, commands: 0..MaxCommands, failures: 0..MaxFailures]
    /\ readings \in [Games -> Results]
    /\ sent \in [Games -> 0..2]

(* The worker confirms a result by itself only when the snapshot agrees with the one
   counted before it, or with what a user confirmed: _observe_results counts the equal
   readings, import_snapshot and confirm_game_result change the score they belong to. *)
TwoReadings ==
    [][\A g \in Games : _observe_results(g) /\ game'[g].confirmed /\ ~game[g].confirmed
                          => sync.page.score = game[g].score /\ readings[g] = game[g].score]_vars

(* An approval does not outlive a change of a result it was given for, in whichever
   post of the matchday the result is shown (docs/AUTOMATIC_FUSSBALL.md). *)
ApprovedAsShown ==
    \A g \in Games : post[g].state = "approved" =>
        \A h \in Shown(g) : post[g].read[h] = game[h].score

(* No game is shown by two feed publications, its own and a carousel's, unless it
   was separated in between: coordination, reconciliation, corrections and edited
   details all write the status of the same publications. *)
OneFeed == \A g \in Games : sent[g] <= 1

(* A game that was separated is in no shared contribution until it is connected
   again: no job that was waiting, running or failed brings the bundle back. *)
StaysApart == \A g \in Games : game[g].apart => post[g].bundle = {}

(* Grouping and separation decide which single publication shows a game. *)
FeedsTogether == OneFeed /\ StaysApart

(* Once the page stays as it is, the result it shows becomes the confirmed result. *)
ResultIsRead ==
    <>[](\A g \in Games : site[g].score # NoScore /\ ~site[g].off /\ ~game[g].hidden
                            => game[g].confirmed /\ game[g].score = site[g].score)

=============================================================================
