----------------------------- MODULE MediaLibrary -----------------------------
(***************************************************************************)
(* The photos of a team and the storage of its club: which photo a post    *)
(* gets, how the administrator's requests change that, and how uploads are *)
(* reserved, stored, billed and deleted.                                   *)
(*                                                                         *)
(* A scope is a game and a kind of contribution; at most one generation    *)
(* job runs for it.  Every file is one unit of storage, except that a      *)
(* direct upload may turn out larger than it was announced.                *)
(***************************************************************************)
EXTENDS Integers, FiniteSets

CONSTANTS Assets,     \* rows of media_assets
          External,   \* those of the club's own media folder, the others are uploaded
          Scopes,     \* game and contribution type
          Game,       \* Game[s]: the game of scope s
          Uploads,    \* direct upload sessions
          Limit,      \* storage limit of the club
          MaxOrders,  \* bound on the administrator's requests
          Perils      \* what an instance admits: completions, deletions and selections
                      \* that are overtaken, and a choice taken back a second time

None == "none"
Games == {Game[s] : s \in Scopes}
AssetOrNone == Assets \cup {None}

ASSUME MediaAssumption ==
    /\ External \subseteq Assets /\ Limit \in Nat /\ MaxOrders \in Nat
    /\ IsFiniteSet(Assets) /\ IsFiniteSet(Uploads) /\ Assets \cap Uploads = {}
    /\ Perils \subseteq {"complete", "delete", "select", "again"}
    /\ None \notin Assets \cup Games

VARIABLES asset,   \* media_assets
          pref,    \* game_media_preferences, one per scope
          history, \* media_usage_history: scopes that touched and that used an asset
          post,    \* post[s]: the photo the post of s refers to, whether it is done, and
                   \* the photos it has used
          job,     \* job[s]: the generation job of s and the photo it holds
          upload,  \* direct_upload_sessions with their ledger entries
          object,  \* storage_objects of assets and uploads
          file,    \* the files in storage
          session, \* deletions and completions between reading and writing
          orders,  \* administrators' requests so far
          shown    \* ghost: shown[a], the games whose post got photo a automatically
                   \* since a was last released

vars == <<asset, pref, history, post, job, upload, object, file, session, orders, shown>>
selection == <<asset, pref, history, post, job, shown>>
storage == <<upload, object, file>>

Asset == [state : {"absent", "here", "moved", "deleted"}, available : BOOLEAN,
          automatic : BOOLEAN, reserved : Games \cup {None}, uses : Nat]
Preference == [mode : {None, "automatic", "manual"}, asset : AssetOrNone, once : BOOLEAN]
Post == [asset : AssetOrNone, done : BOOLEAN, marked : SUBSET Assets]
Job == [phase : {"idle", "creating", "rerendering"}, manual : BOOLEAN, seen : Asset]
Upload == [status : {"none", "reserved", "completed", "expired"},
           ledger : {"none", "reserved", "committed", "released"}, size : 0..2, late : BOOLEAN]
Objects == {"none", "live", "deleted"}

(***************************************************************************)
(* Choosing a photo (media/library.py)                                     *)
(***************************************************************************)
Reserve(a, g) == [asset EXCEPT ![a].reserved = g, ![a].uses = @ + 1]
Unreserve(a) == [asset EXCEPT ![a].reserved = None, ![a].uses = IF @ > 0 THEN @ - 1 ELSE 0]
Usable(a) == asset[a].state = "here" /\ asset[a].available
Eligible(a) == Usable(a) /\ asset[a].automatic
\* Mutant: a used photo counts as unused once its reservation is gone.
UnusedWhenFree(a) == asset[a].reserved = None

Unused(a) == asset[a].reserved = None /\ asset[a].uses = 0
UsedBy(a, s) == <<a, s>> \in history.used

\* The explicit choice of the administrator.
ManualChoice(s) ==
    LET a == pref[s].asset IN
    IF /\ pref[s].mode = "manual" /\ Usable(a)
       /\ \/ asset[a].reserved = Game[s]
          \/ asset[a].reserved = None /\ (asset[a].uses = 0 \/ pref[s].once)
    THEN {a} ELSE {}

\* The photo an earlier run of the same scope remembered.
Remembered(s) ==
    LET a == pref[s].asset IN
    IF /\ pref[s].mode = "automatic" /\ a # None
       /\ Eligible(a) /\ (asset[a].reserved = Game[s] \/ Unused(a))
    THEN {a} ELSE {}

Adopted(a, s) == \E t \in Scopes \ {s} : Game[t] = Game[s] /\ pref[t].asset = a
Legacy(s) == {a \in Assets : asset[a].state = "here" /\ asset[a].reserved = Game[s]}
Taken(a, s) == Adopted(a, s) /\ <<a, s>> \notin history.touched
Pool == {a \in Assets : Eligible(a) /\ Unused(a)}

\* A saved automatic choice that is no longer usable gives its reservation back.
StaleChoice(s) ==
    LET a == pref[s].asset IN
    IF a # None /\ asset[a].reserved = Game[s] /\ ~UsedBy(a, s) THEN {a} ELSE {}

Automatic(s) ==
    IF Legacy(s) \ StaleChoice(s) # {}
    THEN UNION {IF Taken(a, s) THEN Pool ELSE {a} : a \in Legacy(s) \ StaleChoice(s)}
    ELSE Pool

Candidates(s) ==
    IF pref[s].mode = "manual" THEN ManualChoice(s)
    ELSE IF Remembered(s) # {} THEN Remembered(s)
    ELSE Automatic(s)

Cleared(s) == IF Remembered(s) = {} /\ pref[s].mode = "automatic"
              THEN [a \in Assets |-> IF a \in StaleChoice(s) THEN Unreserve(a)[a] ELSE asset[a]]
              ELSE asset

reserve_media(s, a) ==
    /\ a \in Candidates(s)
    /\ asset' = IF asset[a].reserved = Game[s] THEN Cleared(s)
                ELSE [Cleared(s) EXCEPT ![a] = Reserve(a, Game[s])[a]]
    /\ pref' = IF pref[s].mode = "manual" THEN pref
               ELSE [pref EXCEPT ![s] = [mode |-> "automatic", asset |-> a, once |-> FALSE]]
    /\ history' = [history EXCEPT !.touched =
                      @ \cup (IF asset[a].reserved = Game[s] THEN {} ELSE {<<a, s>>})
                        \cup {<<b, s>> : b \in {c \in Assets : Cleared(s)[c] # asset[c]}}]

(***************************************************************************)
(* Generation jobs (posts/service.py)                                      *)
(***************************************************************************)
NoPost == [asset |-> None, done |-> FALSE, marked |-> {}]
NoJob == [phase |-> "idle", manual |-> FALSE, seen |-> [state |-> "absent", available |-> FALSE,
          automatic |-> FALSE, reserved |-> None, uses |-> 0]]

Create(s) ==
    /\ job[s].phase = "idle" /\ post[s].asset = None
    /\ \E a \in Assets :
          /\ reserve_media(s, a)
          /\ post' = [post EXCEPT ![s].asset = a]
          /\ job' = [job EXCEPT ![s] = [phase |-> "creating", manual |-> pref[s].mode = "manual",
                                       seen |-> asset'[a]]]
    /\ UNCHANGED <<storage, session, orders, shown>>

\* A job that runs again after a failure takes the post's photo without asking.
Resume(s) ==
    /\ job[s].phase = "idle" /\ post[s].asset # None /\ ~post[s].done
    /\ job' = [job EXCEPT ![s] = [phase |-> "creating", manual |-> pref[s].mode = "manual",
                                 seen |-> asset[post[s].asset]]]
    /\ UNCHANGED <<asset, pref, history, post, storage, session, orders, shown>>

\* New graphics with another photo: chosen as if by hand, reserved for the job.
Rerender(s) ==
    LET old == pref[s].asset
        freed == {old} \cap {b \in Assets : asset[b].reserved = Game[s] /\ ~UsedBy(b, s)}
    IN /\ job[s].phase = "idle" /\ post[s].done
       /\ \E a \in Assets \ {post[s].asset} :
             /\ Eligible(a) /\ asset[a].uses = 0 /\ asset[a].reserved \in {None, Game[s]}
             /\ asset' = [b \in Assets |->
                            IF b = a THEN Reserve(a, Game[s])[a]
                            ELSE IF b \in freed THEN Unreserve(b)[b] ELSE asset[b]]
             /\ pref' = [pref EXCEPT ![s] = [mode |-> "manual", asset |-> a, once |-> FALSE]]
             /\ history' = [history EXCEPT !.touched = @ \cup {<<b, s>> : b \in freed \cup {a}}]
             /\ post' = [post EXCEPT ![s].asset = a]
             /\ job' = [job EXCEPT ![s] = [phase |-> "rerendering", manual |-> TRUE,
                                          seen |-> asset'[a]]]
       /\ UNCHANGED <<storage, session, orders, shown>>

\* mark_asset_used, on the row as the job's session read it, once for each post.
mark_asset_used(a, s) ==
    IF a \in post[s].marked THEN asset
    ELSE [asset EXCEPT ![a].reserved = IF job[s].seen.reserved = Game[s] THEN None ELSE @,
                       ![a].automatic = IF job[s].seen.automatic THEN FALSE ELSE @]

Finish(s) ==
    LET a == post[s].asset IN
    /\ job[s].phase # "idle"
    /\ asset' = mark_asset_used(a, s)
    /\ history' = [touched |-> history.touched \cup {<<a, s>>}, used |-> history.used \cup {<<a, s>>}]
    /\ post' = [post EXCEPT ![s].done = TRUE, ![s].marked = @ \cup {a}]
    /\ job' = [job EXCEPT ![s] = NoJob]
    /\ shown' = IF job[s].manual THEN shown ELSE [shown EXCEPT ![a] = @ \cup {Game[s]}]
    /\ UNCHANGED <<pref, storage, session, orders>>

Fail(s) ==
    /\ job[s].phase # "idle"
    /\ job' = [job EXCEPT ![s] = NoJob]
    /\ UNCHANGED <<asset, pref, history, post, storage, session, orders, shown>>

(***************************************************************************)
(* Requests of the administrator (admin_routes.py)                         *)
(***************************************************************************)
Order == orders < MaxOrders /\ orders' = orders + 1
Unfinished(s) == (post[s].asset # None /\ ~post[s].done) \/ job[s].phase # "idle"
Held(a) == \E s \in Scopes : post[s].asset = a /\ Unfinished(s)

\* update_game_media_selection with set_game_preference.  A reservation goes with the
\* game, not with the contribution ("select"), and stays if the contribution has used
\* the photo before ("again").
Select(s, mode, a, once) ==
    LET old == pref[s].asset
        new == IF mode = "manual" THEN a ELSE None
        leaves == old # None /\ old # new /\ asset[old].reserved = Game[s]
        frees == leaves /\ ~UsedBy(old, s)
    IN /\ Order
       /\ "select" \notin Perils => \A t \in Scopes : Game[t] = Game[s] => ~Unfinished(t)
       /\ "again" \notin Perils => leaves = frees
       /\ mode = "manual" => /\ Usable(a) /\ asset[a].reserved \in {None, Game[s]}
                             /\ asset[a].uses > 0 => once
       /\ asset' = IF frees THEN Unreserve(old) ELSE asset
       /\ history' = IF frees THEN [history EXCEPT !.touched = @ \cup {<<old, s>>}] ELSE history
       /\ pref' = [pref EXCEPT ![s] = [mode |-> mode, asset |-> new, once |-> once /\ new # None]]
       /\ UNCHANGED <<post, job, storage, session, shown>>

\* toggle_media, change_media_automatic_usage
Toggle(a) ==
    /\ Order /\ asset[a].state \in {"here", "moved"}
    /\ asset[a].automatic \/ asset[a].available
    /\ asset' = [asset EXCEPT ![a].automatic = ~@]
    /\ UNCHANGED <<pref, history, post, job, storage, session, shown>>

release_asset(a) ==
    /\ Order /\ asset[a].state \in {"here", "moved"}
    /\ "select" \notin Perils => ~Held(a)
    /\ asset' = [asset EXCEPT ![a].reserved = None, ![a].uses = 0, ![a].automatic = TRUE]
    /\ shown' = [shown EXCEPT ![a] = {}]
    /\ UNCHANGED <<pref, history, post, job, storage, session>>

\* bulk_media_action "team": the photo leaves the team's pool.
MoveToTeam(a) ==
    /\ Order /\ asset[a].state = "here" /\ a \notin External /\ Unused(a)
    /\ \A s \in Scopes : pref[s].asset # a
    /\ asset' = [asset EXCEPT ![a].state = "moved"]
    /\ UNCHANGED <<pref, history, post, job, storage, session, shown>>

\* soft_delete_asset reads the row, its posts and its selections without a lock.
Choosing(a) == {s \in Scopes : pref[s].asset = a}
\* Mutant: the reservation is not looked at.
DeletableUnlessChosen(a) == \A s \in Choosing(a) : UsedBy(a, s)

Deletable(a) == asset[a].reserved = None /\ \A s \in Choosing(a) : UsedBy(a, s)
Removable(a) == /\ a \notin External /\ Choosing(a) = {} /\ asset[a].uses = 0
                /\ \A s \in Scopes : post[s].asset # a

ReadDelete(a) ==
    /\ Order /\ session[a] = None /\ asset[a].state \in {"here", "moved"}
    /\ Deletable(a)
    /\ session' = [session EXCEPT ![a] = IF Removable(a) THEN "remove" ELSE "keep"]
    /\ UNCHANGED <<selection, storage>>

\* The row is closed, its storage released, and the file removed after the commit.
Delete(a) ==
    LET remove == session[a] = "remove" IN
    /\ session[a] # None
    /\ "delete" \notin Perils => Deletable(a) /\ (remove => Removable(a))
    /\ asset' = [asset EXCEPT ![a].state = "deleted", ![a].automatic = FALSE,
                              ![a].available = @ /\ ~remove]
    /\ pref' = [s \in Scopes |->
                  IF s \in Choosing(a) /\ UsedBy(a, s)
                  THEN [mode |-> "automatic", asset |-> None, once |-> FALSE] ELSE pref[s]]
    /\ object' = IF remove /\ object[a] = "live" THEN [object EXCEPT ![a] = "deleted"] ELSE object
    /\ file' = IF remove THEN file \ {a} ELSE file
    /\ session' = [session EXCEPT ![a] = None]
    /\ UNCHANGED <<history, post, job, upload, orders, shown>>

\* The post is deleted, its photo stays as it is.
DeletePost(s) ==
    /\ Order /\ job[s].phase = "idle" /\ post[s].asset # None
    /\ post' = [post EXCEPT ![s] = NoPost]
    /\ UNCHANGED <<asset, pref, history, job, storage, session, shown>>

(***************************************************************************)
(* Storage (storage/service.py, storage/routes.py)                         *)
(***************************************************************************)
Counted(a) == asset[a].state \in {"here", "moved"} \/ (asset[a].state = "deleted" /\ asset[a].available)
Committed == Cardinality({a \in Assets : object[a] = "live" \/ Counted(a)})
           + Cardinality({x \in Uploads \X (1..2) : object[x[1]] = "live" /\ x[2] <= upload[x[1]].size})
Reserved == Cardinality({u \in Uploads : upload[u].ledger = "reserved"})

Absent == [state |-> "absent", available |-> FALSE, automatic |-> FALSE, reserved |-> None, uses |-> 0]
Arrived == [Absent EXCEPT !.state = "here", !.available = TRUE, !.automatic = TRUE]

\* upload_player_images: reservation, file, row and ledger in one transaction.
UploadPhoto(a) ==
    /\ asset[a].state = "absent" /\ a \notin External
    /\ Committed + Reserved + 1 <= Limit
    /\ asset' = [asset EXCEPT ![a] = Arrived]
    /\ object' = [object EXCEPT ![a] = "live"]
    /\ file' = file \cup {a}
    /\ UNCHANGED <<pref, history, post, job, upload, session, orders, shown>>

\* Photos come and go in the club's folder; a scan brings the rows up to date.
FolderChanges(a) ==
    /\ Order /\ a \in External
    /\ file' = IF a \in file THEN file \ {a} ELSE file \cup {a}
    /\ UNCHANGED <<selection, upload, object, session>>

scan_media ==
    /\ asset' = [a \in Assets |->
                   IF a \notin External THEN asset[a]
                   ELSE IF a \in file /\ asset[a].state = "absent" THEN Arrived
                   ELSE [asset[a] EXCEPT !.available = a \in file]]
    /\ asset' # asset
    /\ UNCHANGED <<pref, history, post, job, storage, session, orders, shown>>

create_direct_upload(u) ==
    /\ upload[u].status = "none"
    /\ Committed + Reserved + 1 <= Limit
    /\ upload' = [upload EXCEPT ![u] = [status |-> "reserved", ledger |-> "reserved",
                                       size |-> 0, late |-> FALSE]]
    /\ UNCHANGED <<selection, object, file, session, orders>>

\* The client stores the file; behind a presigned URL nothing checks its size.
PutContent(u, n) ==
    /\ upload[u].status = "reserved" /\ ~upload[u].late /\ u \notin file
    /\ file' = file \cup {u}
    /\ upload' = [upload EXCEPT ![u].size = n]
    /\ UNCHANGED <<selection, object, session, orders>>

Expires(u) ==
    /\ upload[u].status = "reserved" /\ ~upload[u].late
    /\ upload' = [upload EXCEPT ![u].late = TRUE]
    /\ UNCHANGED <<selection, object, file, session, orders>>

\* complete_direct_upload reads the session's row and the file first ...
ReadComplete(u) ==
    /\ upload[u].status = "reserved" /\ ~upload[u].late /\ u \in file
    /\ session[u] = None \/ (session[u] = "one" /\ "complete" \in Perils)
    /\ session' = [session EXCEPT ![u] = IF @ = None THEN "one" ELSE "two"]
    /\ UNCHANGED <<selection, storage, orders>>

\* Mutant: the announced size is checked, not the size of the file.
FitsAnnounced(u) == Committed + Reserved <= Limit

\* ... and under the lock of the club's row checks the limit and commits.  A refusal
\* deletes the file and rolls the rows back; a second object of one key is refused.
FitsLimit(u) ==
    LET own == IF upload[u].ledger = "reserved" THEN 1 ELSE 0
        others == IF upload[u].ledger = "none" THEN Reserved ELSE
                  IF Reserved - own >= 0 THEN Reserved - own ELSE 0
    IN Committed + others + upload[u].size <= Limit

Complete(u) ==
    /\ session[u] # None
    /\ "complete" \notin Perils => upload[u].status = "reserved"
    /\ IF FitsLimit(u)
       THEN /\ object' = IF object[u] = "none" THEN [object EXCEPT ![u] = "live"] ELSE object
            /\ upload' = IF object[u] = "none"
                         THEN [upload EXCEPT ![u].status = "completed", ![u].ledger = "committed"]
                         ELSE upload
            /\ UNCHANGED file
       ELSE /\ file' = file \ {u}
            /\ UNCHANGED <<object, upload>>
    /\ session' = [session EXCEPT ![u] = IF @ = "two" THEN "one" ELSE None]
    /\ UNCHANGED <<selection, orders>>

cleanup_expired_uploads ==
    LET expired == {u \in Uploads : upload[u].status = "reserved" /\ upload[u].late} IN
    /\ expired # {}
    /\ upload' = [u \in Uploads |->
                    IF u \in expired THEN [upload[u] EXCEPT !.status = "expired", !.ledger = "released"]
                    ELSE upload[u]]
    /\ file' = file \ expired
    /\ UNCHANGED <<selection, object, session, orders>>

Init ==
    /\ asset = [a \in Assets |-> Absent]
    /\ pref = [s \in Scopes |-> [mode |-> None, asset |-> None, once |-> FALSE]]
    /\ history = [touched |-> {}, used |-> {}]
    /\ post = [s \in Scopes |-> NoPost]
    /\ job = [s \in Scopes |-> NoJob]
    /\ upload = [u \in Uploads |-> [status |-> "none", ledger |-> "none", size |-> 0, late |-> FALSE]]
    /\ object = [x \in Assets \cup Uploads |-> "none"]
    /\ file = External
    /\ session = [x \in Assets \cup Uploads |-> None]
    /\ orders = 0
    /\ shown = [a \in Assets |-> {}]

Next ==
    \/ \E s \in Scopes :
          \/ Create(s) \/ Resume(s) \/ Rerender(s) \/ Finish(s) \/ Fail(s) \/ DeletePost(s)
          \/ \E a \in Assets, once \in BOOLEAN : Select(s, "manual", a, once)
          \/ \E a \in Assets : Select(s, "automatic", a, FALSE)
    \/ \E a \in Assets :
          \/ Toggle(a) \/ release_asset(a) \/ MoveToTeam(a) \/ ReadDelete(a) \/ Delete(a)
          \/ UploadPhoto(a) \/ FolderChanges(a)
    \/ scan_media \/ cleanup_expired_uploads
    \/ \E u \in Uploads :
          \/ create_direct_upload(u) \/ (\E n \in 1..2 : PutContent(u, n)) \/ Expires(u)
          \/ ReadComplete(u) \/ Complete(u)

Spec == Init /\ [][Next]_vars

(***************************************************************************)
(* Properties                                                              *)
(***************************************************************************)
\* Every row, job, session and file has its type.
TypeOK ==
    /\ asset \in [Assets -> Asset] /\ pref \in [Scopes -> Preference]
    /\ history.used \subseteq history.touched /\ history.touched \subseteq Assets \X Scopes
    /\ post \in [Scopes -> Post] /\ job \in [Scopes -> Job] /\ upload \in [Uploads -> Upload]
    /\ object \in [Assets \cup Uploads -> Objects] /\ file \subseteq Assets \cup Uploads
    /\ session \in [Assets \cup Uploads -> {None, "keep", "remove", "one", "two"}]
    /\ orders \in 0..MaxOrders

\* The automatic choice shows a photo for one game only, until it is released
\* (test_media_library.py: "never_reuses"): reservations, failed jobs that resume,
\* changed selections and manual reuse never hand it out twice, where each game has
\* one contribution.
NeverReused == \A a \in Assets : Cardinality(shown[a]) <= 1

\* "Das Bild ist fuer einen Beitrag reserviert und kann erst nach Freigabe geloescht
\* werden" (media/library.py): a reserved photo is there, with its file.
ReservedIsKept ==
    \A a \in Assets \ External : asset[a].reserved # None => asset[a].state = "here" /\ a \in file

\* What the ledger bills is stored, and what is stored for the library is billed.
BilledIsStored ==
    /\ \A x \in Assets \cup Uploads : object[x] = "live" => x \in file
    /\ \A a \in Assets \ External : Counted(a) => object[a] = "live"

\* Rows, ledger and folder agree: no file is missing that a post or the bill relies
\* on (deletion, app/media/library.py; upload clean-up, app/storage/service.py).
FilesKept == ReservedIsKept /\ BilledIsStored

\* No reservation and no upload takes the club beyond its limit, whatever uploads are
\* under way; only the club's own folder may.
WithinLimit ==
    [][(Reserved' > Reserved \/ \E x \in Assets \cup Uploads : object[x] # "live" /\ object'[x] = "live")
       => Committed' + Reserved' <= Limit]_vars
=============================================================================
