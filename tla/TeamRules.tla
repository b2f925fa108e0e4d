----------------------------- MODULE TeamRules -----------------------------
(* The rules page "Automatische Beiträge" (app/admin_routes.py, app/posts/rules.py,
   app/posts/automation.py): what a team's posts are made of, when they go out
   and whether they are approved automatically.  Everything stands in one JSON
   value of the team's row; most forms lock the row, refuse a page of an older
   version and copy the value into the versioned rule sets that posts are
   planned with.  Three writers work on a copy of the value they read without a
   lock: the story times, the messenger's default and, for the other teams of
   the club's page, the settings form itself.
   Looked at is one kind of post, for active teams of one club and page; a
   request the code refuses changes nothing and is left out. *)
EXTENDS Naturals, FiniteSets
LOCAL INSTANCE SequencesExt

CONSTANTS
    Teams, Users, None,
    Names,          \* names of story times
    Plans,          \* schedules a form can ask for: [day, variant, reuse]
    Weekdays,       \* days of a match; 0 in a plan is every day
    MaxSlots,       \* bound: slots that can be given a key
    MaxRequests,    \* bound: forms sent
    RulePerils          \* copies that may be overtaken; see Undisturbed

ASSUME TeamRulesAssumption ==
    /\ None \notin Teams /\ MaxSlots \in Nat /\ MaxRequests \in Nat
    /\ Weekdays \subseteq Nat \ {0}
    /\ Plans \subseteq [day : Weekdays \cup {0}, variant : 1 .. 2, reuse : BOOLEAN]
    /\ RulePerils \subseteq {"settings", "story", "messenger", "copy"}

VARIABLES
    rules,      \* the JSON value: its settings and the list of publication slots
    version,    \* of the team's row; the three unlocked writers differ in it
    story,      \* the rows of the story times
    sets,       \* the active rule set: the slots, the count and the approval policy
    form,       \* the rules page each user has open: its team, version and slots
    request,    \* the request each user waits for, with the copies it read
    made, submitted  \* bounds: keys given to slots, forms sent

rulesVars == <<rules, version, story, sets, form, request, made, submitted>>

(* given: the settings have been stored once; a key that is missing reads as
   count 1, approval by hand and separate posts. *)
NewRules == [slots |-> {}, configured |-> FALSE, given |-> FALSE, count |-> 1, auto |-> FALSE,
          shared |-> "unset", messenger |-> FALSE]
NoSets == [slots |-> {}, count |-> 0, auto |-> FALSE]
NoForm == [team |-> None, version |-> 0, slots |-> {}]
Idle == [kind |-> "idle", team |-> None, seen |-> <<>>, want |-> <<>>]

Slot(k, p) == [key |-> k, day |-> p.day, variant |-> p.variant, reuse |-> p.reuse]
StoryKey(t, n) == <<t, n>>
OfStory(s) == \E t \in Teams, n \in Names : s.key \in {StoryKey(t, n), <<t, n, "row">>}
Signature(s) == <<s.day, s.variant>>
(* The slots of a set under new keys, in some order. *)
Renamed(S) == LET q == SetToSeq(S) IN {[q[i] EXCEPT !.key = <<"slot", made + i>>] : i \in DOMAIN q}
KeysDiffer(S) == \A r, s \in S : r.key = s.key => r = s
-----------------------------------------------------------------------------
(* The slots of the JSON value, or of the rule set while none were entered *)

Authoritative(r) == r.slots # {} \/ r.configured
_serialize_team_publication_slots(t) == IF Authoritative(rules[t]) THEN rules[t].slots ELSE sets[t].slots

Activated(rows) == {n \in Names : rows[n].state = "on"}
(* Without slots of its own a team has one feed and its story times. *)
Legacy(t, rows) ==
    {Slot(<<"feed", "default">>, [day |-> 0, variant |-> 1, reuse |-> FALSE])} \cup
    {Slot(<<t, n, "row">>, [day |-> 0, variant |-> rows[n].variant, reuse |-> FALSE]) : n \in Activated(rows)}
\* mutant
OldPolicy(t, r, rows) ==
    [slots |-> IF Authoritative(r) THEN r.slots ELSE Legacy(t, rows), count |-> r.count, auto |-> sets[t].auto]
(* The new version of the rule set; two slots of one key are a unique violation. *)
sync_team_rule_sets(t, r, rows) ==
    [slots |-> IF Authoritative(r) THEN r.slots ELSE Legacy(t, rows), count |-> r.count, auto |-> r.auto]

(* What the planning of a post reads. *)
resolve_publication_slots(t, d) == {s \in sets[t].slots : s.day \in {0, d}}
manual_schedule_required(t, d) ==
    /\ resolve_publication_slots(t, d) = {}
    /\ sets[t].slots = {} \/ \E s \in sets[t].slots : s.day # 0
-----------------------------------------------------------------------------
(* Requests *)

Locked(t) == \E u \in Users : request[u].kind = "settings" /\ request[u].team = t
Copied(t) == {u \in Users : t \in DOMAIN request[u].seen}
(* No request that will write t holds a copy of it, except where its kind is in
   RulePerils: such a request writes over whatever is stored meanwhile. *)
Undisturbed(u, t) == \A v \in Copied(t) \ {u} : request[v].kind \in RulePerils

Load(u, t) ==
    /\ request[u] = Idle /\ form[u] = NoForm /\ submitted < MaxRequests
    /\ form' = [form EXCEPT ![u] = [team |-> t, version |-> version[t], slots |-> _serialize_team_publication_slots(t)]]
    /\ UNCHANGED <<rules, version, story, sets, request, made, submitted>>

\* mutant
AnyPage(u) == form[u].team # None /\ ~Locked(form[u].team)
_team_for_rule_write(u) ==
    form[u].team # None /\ ~Locked(form[u].team) /\ form[u].version = version[form[u].team]

Begins(u, kind, t, copies, want) ==
    /\ request[u] = Idle /\ submitted < MaxRequests /\ submitted' = submitted + 1
    /\ request' = [request EXCEPT ![u] =
          [kind |-> kind, team |-> t, want |-> want,
           seen |-> [s \in copies |-> [rules |-> rules[s], version |-> version[s]]]]]
    /\ UNCHANGED <<rules, version, story, sets, made>>

(* A form that keeps the lock from its reading to its end is one step. *)
Saves(u, r, rows, keys) ==
    LET t == form[u].team IN
    /\ request[u] = Idle /\ Undisturbed(u, t) /\ submitted < MaxRequests
    /\ KeysDiffer(r.slots) /\ made + keys <= MaxSlots
    /\ rules' = [rules EXCEPT ![t] = r]
    /\ version' = [version EXCEPT ![t] = @ + 1]
    /\ story' = [story EXCEPT ![t] = rows]
    /\ sets' = [sets EXCEPT ![t] = sync_team_rule_sets(t, r, rows)]
    /\ made' = made + keys /\ submitted' = submitted + 1
    /\ form' = [form EXCEPT ![u] = NoForm]
    /\ UNCHANGED request

WithSlots(r, S) == [r EXCEPT !.slots = S, !.configured = TRUE]
-----------------------------------------------------------------------------
(* The schedule *)

(* A variant goes out once for each kind of day, unless every slot of it agrees
   to use the file again. *)
Taken(S, k, p) ==
    \E s \in S :
        /\ s.key # k /\ s.variant = p.variant /\ s.day = p.day
        /\ ~(p.reuse /\ s.reuse)

SlotSaved(u, t, S, k, p, keys) ==
    /\ p.variant <= rules[t].count /\ ~Taken(S, k, p)
    /\ Saves(u, WithSlots(rules[t], {s \in S : s.key # k} \cup {Slot(k, p)}), story[t], keys)

save_publication_rule_slot(u) ==
    /\ _team_for_rule_write(u)
    /\ LET t == form[u].team  S == _serialize_team_publication_slots(t) IN
       \E p \in Plans :
          \/ SlotSaved(u, t, S, <<"slot", made + 1>>, p, 1)
          \/ \E s \in S : SlotSaved(u, t, S, s.key, p, 0)

delete_publication_rule_slot(u) ==
    /\ _team_for_rule_write(u)
    /\ LET t == form[u].team  S == _serialize_team_publication_slots(t) IN
       \E s \in S : Saves(u, WithSlots(rules[t], S \ {s}), story[t], 0)

copy_publication_weekday(u, d, e, replace) ==
    /\ _team_for_rule_write(u) /\ d # e
    /\ LET t == form[u].team  S == _serialize_team_publication_slots(t)
           source == {s \in S : s.day = d}  target == {s \in S : s.day = e}
       IN /\ source # {} /\ (target = {} \/ replace)
          /\ Saves(u, WithSlots(rules[t], (S \ target) \cup {[s EXCEPT !.day = e] : s \in Renamed(source)}),
                   story[t], Cardinality(source))

(* The recommended preset: a slot with a key of its own, two variants, approval
   by hand, joint posts. *)
RECOMMENDED_AUTOMATION_PRESET ==
    [count |-> 2, auto |-> FALSE, shared |-> "joint",
     slots |-> {Slot(<<"preset", "v1">>, [day |-> 1, variant |-> 1, reuse |-> FALSE])}]

(* The settings of s over those of r, or only those r lacks; the slots stay r's. *)
Replaced(r, s) == [r EXCEPT !.given = s.given, !.count = s.count, !.auto = s.auto, !.shared = s.shared,
                            !.messenger = s.messenger]
Completed(r, s) ==
    [r EXCEPT !.given = @ \/ s.given,
              !.count = IF r.given THEN @ ELSE s.count,
              !.auto = IF r.given THEN @ ELSE s.auto,
              !.shared = IF @ = "unset" THEN s.shared ELSE @,
              !.messenger = @ \/ s.messenger]

(* Added are the slots of R whose schedule S does not have. *)
Missing(S, R) == {r \in R : \A s \in S : Signature(s) # Signature(r)}
Preset(r) ==
    [r EXCEPT !.given = TRUE, !.count = RECOMMENDED_AUTOMATION_PRESET.count,
              !.auto = RECOMMENDED_AUTOMATION_PRESET.auto, !.shared = RECOMMENDED_AUTOMATION_PRESET.shared]

apply_automation_preset(u, replace) ==
    /\ _team_for_rule_write(u)
    /\ LET r == rules[form[u].team]  P == RECOMMENDED_AUTOMATION_PRESET.slots IN
       Saves(u, IF replace THEN WithSlots(Preset(r), P)
                           ELSE WithSlots(Completed(r, Preset(r)), r.slots \cup Missing(r.slots, P)),
             story[form[u].team], 0)

(* Replacing takes the source's value with its settings, and with it loses the
   slots, which only a copied schedule puts back. *)
CopiedSettings(r, s, replace) ==
    IF replace THEN [Replaced(r, s) EXCEPT !.slots = {}, !.configured = FALSE] ELSE Completed(r, s)
CopiedSlots(r, s, replace) ==
    IF replace THEN s.slots ELSE r.slots \cup Renamed(Missing(r.slots, s.slots))
(* Story times are matched by their names; one that exists, also a deleted one,
   is kept unless the schedule is replaced. *)
CopiedStories(t, s, replace) ==
    [n \in Names |->
        IF story[s][n].state = "on" /\ (replace \/ story[t][n].state = "none") THEN story[s][n]
        ELSE IF replace /\ story[t][n].state = "on" THEN [story[t][n] EXCEPT !.state = "off"]
        ELSE story[t][n]]

copy_team_rules(u, s, replace, settings, schedule) ==
    /\ _team_for_rule_write(u) /\ s # form[u].team /\ (settings \/ schedule)
    /\ LET t == form[u].team
           r == IF settings THEN CopiedSettings(rules[t], rules[s], replace) ELSE rules[t]
           keys == IF schedule /\ ~replace THEN Cardinality(Missing(rules[t].slots, rules[s].slots)) ELSE 0
       IN /\ "copy" \in RulePerils \/ (r.auto => rules[t].auto)
          /\ IF schedule
             THEN Saves(u, WithSlots(r, CopiedSlots(rules[t], rules[s], replace)),
                        CopiedStories(t, s, replace), keys)
             ELSE Saves(u, r, story[t], 0)
-----------------------------------------------------------------------------
(* The settings: the row is locked, the rows of the other teams are only read *)

\* mutant
AckNotAsked(t, w) == TRUE
(* Approval without a person is switched on only with a separate tick. *)
Acknowledged(t, w) == w.auto /\ ~rules[t].auto => w.ack
(* A story time must not use a variant that is no longer made. *)
CountsFit(t, w) == \A n \in Activated(story[t]) : story[t][n].variant <= w.count

Wanted == [count : 1 .. 2, auto : BOOLEAN, ack : BOOLEAN, shared : {"separate", "joint"}]

SaveRulesBegins(u) ==
    /\ _team_for_rule_write(u)
    /\ "settings" \in RulePerils \/ \A v \in Users : request[v].kind \notin {"story", "messenger"}
    /\ LET t == form[u].team IN \E w \in Wanted :
          /\ Acknowledged(t, w) /\ CountsFit(t, w)
          /\ Begins(u, "settings", t, Teams \ {t}, w)
    /\ UNCHANGED form

Settings(t, w) ==
    [rules[t] EXCEPT !.slots = _serialize_team_publication_slots(t), !.given = TRUE,
                     !.count = w.count, !.auto = w.auto, !.shared = w.shared]
(* A JSON value is written as a whole, or not at all if it is what was read. *)
Over(u, t, r) == IF r = request[u].seen[t].rules THEN rules[t] ELSE r

save_rules(u) ==
    /\ request[u].kind = "settings"
    /\ LET t == request[u].team  w == request[u].want  r == Settings(t, w)
           Sibling(s) == [request[u].seen[s].rules EXCEPT !.shared = w.shared]
       IN /\ \A s \in Teams \ {t} : ~Locked(s) /\ Undisturbed(u, s)
          /\ KeysDiffer(r.slots)
          /\ rules' = [s \in Teams |-> IF s = t THEN r ELSE Over(u, s, Sibling(s))]
          /\ version' = [s \in Teams |-> IF s = t THEN version[t] + 1 ELSE request[u].seen[s].version + 1]
          /\ sets' = [sets EXCEPT ![t] = sync_team_rule_sets(t, r, story[t])]
    /\ request' = [request EXCEPT ![u] = Idle]
    /\ form' = [form EXCEPT ![u] = NoForm]
    /\ UNCHANGED <<story, made, submitted>>

(* Two settings forms each hold the row the other one wants to write. *)
DeadlockVictim(u) ==
    /\ request[u].kind = "settings"
    /\ \E v \in Users \ {u} : request[v].kind = "settings" /\ request[v].team # request[u].team
    /\ request' = [request EXCEPT ![u] = Idle]
    /\ form' = [form EXCEPT ![u] = NoForm]
    /\ UNCHANGED <<rules, version, story, sets, made, submitted>>
-----------------------------------------------------------------------------
(* Story times and the messenger's default: no lock, no version *)

Unlocked(u, kind, t) ==
    /\ form[u] = NoForm
    /\ kind \in RulePerils \/ \A v \in Users : request[v].kind = "idle"

StoryBegins(u, t) ==
    /\ Unlocked(u, "story", t)
    /\ \E n \in Names :
          \/ \E k \in 1 .. rules[t].count :
                /\ story[t][n].state # "on"
                /\ \A v \in Users : ~(request[v].kind = "story" /\ request[v].team = t /\ request[v].want.name = n)
                /\ Begins(u, "story", t, {t}, [name |-> n, row |-> [state |-> "on", variant |-> k]])
          \/ /\ story[t][n].state = "on"
             /\ Begins(u, "story", t, {t}, [name |-> n, row |-> [story[t][n] EXCEPT !.state = "off"]])
    /\ UNCHANGED form

_legacy_story_publication_rows(t, n, row) ==
    IF row.state = "on" THEN {Slot(StoryKey(t, n), [day |-> 0, variant |-> row.variant, reuse |-> FALSE])} ELSE {}
_replace_legacy_story_publication_rows(u, t, n, row) ==
    LET r == request[u].seen[t].rules
        S == IF Authoritative(r) THEN r.slots ELSE sets[t].slots
    IN WithSlots(r, {s \in S : s.key # StoryKey(t, n)} \cup _legacy_story_publication_rows(t, n, row))

StoryEnds(u) ==
    /\ request[u].kind = "story"
    /\ LET t == request[u].team  n == request[u].want.name
           rows == [story[t] EXCEPT ![n] = request[u].want.row]
           r == Over(u, t, _replace_legacy_story_publication_rows(u, t, n, rows[n]))
       IN /\ ~Locked(t) /\ Undisturbed(u, t)
          /\ rules' = [rules EXCEPT ![t] = r]
          /\ story' = [story EXCEPT ![t] = rows]
          /\ sets' = [sets EXCEPT ![t] = sync_team_rule_sets(t, r, rows)]
    /\ request' = [request EXCEPT ![u] = Idle]
    /\ UNCHANGED <<version, form, made, submitted>>

MessengerBegins(u, t) ==
    /\ Unlocked(u, "messenger", t)
    /\ \E chosen \in BOOLEAN : Begins(u, "messenger", t, {t}, chosen)
    /\ UNCHANGED form

save_messenger_defaults(u) ==
    /\ request[u].kind = "messenger"
    /\ LET t == request[u].team  r == [request[u].seen[t].rules EXCEPT !.messenger = request[u].want] IN
          /\ ~Locked(t) /\ Undisturbed(u, t)
          /\ rules' = [rules EXCEPT ![t] = Over(u, t, r)]
    /\ request' = [request EXCEPT ![u] = Idle]
    /\ UNCHANGED <<version, story, sets, form, made, submitted>>
-----------------------------------------------------------------------------
(* Some teams have had the recommended preset applied before. *)
RulesInit ==
    /\ \E S \in SUBSET Teams :
          LET row(t) == IF t \in S THEN WithSlots(Preset(NewRules), RECOMMENDED_AUTOMATION_PRESET.slots) ELSE NewRules IN
          /\ rules = [t \in Teams |-> row(t)]
          /\ version = [t \in Teams |-> IF t \in S THEN 2 ELSE 1]
          /\ sets = [t \in Teams |->
                IF t \in S THEN [slots |-> row(t).slots, count |-> row(t).count, auto |-> row(t).auto] ELSE NoSets]
    /\ story = [t \in Teams |-> [n \in Names |-> [state |-> "none", variant |-> 1]]]
    /\ form = [u \in Users |-> NoForm]
    /\ request = [u \in Users |-> Idle]
    /\ made = 0 /\ submitted = 0

ScheduleNext(u) ==
    \/ save_publication_rule_slot(u)
    \/ delete_publication_rule_slot(u)
    \/ \E d, e \in Weekdays, replace \in BOOLEAN : copy_publication_weekday(u, d, e, replace)
    \/ \E replace \in BOOLEAN : apply_automation_preset(u, replace)
    \/ \E s \in Teams, replace, settings, schedule \in BOOLEAN :
          copy_team_rules(u, s, replace, settings, schedule)

RulesNext == \E u \in Users :
    \/ \E t \in Teams : Load(u, t) \/ StoryBegins(u, t) \/ MessengerBegins(u, t)
    \/ ScheduleNext(u)
    \/ SaveRulesBegins(u) \/ save_rules(u) \/ DeadlockVictim(u)
    \/ StoryEnds(u) \/ save_messenger_defaults(u)

RulesSpec == RulesInit /\ [][RulesNext]_rulesVars
-----------------------------------------------------------------------------
(* Nothing of a team's schedule is removed or changed by a form whose user had
   not seen it: the version and the lock stand for the slots on the page.  (A
   story time does not raise the version and may be replaced unseen.) *)
NothingUnseen ==
    [][\A t \in Teams :
          \A s \in _serialize_team_publication_slots(t) \ _serialize_team_publication_slots(t)' :
             \/ OfStory(s)
             \/ \E u \in Users : form[u].team = t /\ form[u]' = NoForm /\ s \in form[u].slots]_rulesVars

(* Posts are planned with what the rules page shows: the active rule set has its
   slots for every weekday, its number of variants and its approval policy. *)
InForce ==
    \A t \in Teams : sets[t] # NoSets =>
        /\ \A d \in Weekdays : resolve_publication_slots(t, d) =
              {s \in _serialize_team_publication_slots(t) : s.day \in {0, d}}
        /\ sets[t].count = rules[t].count /\ sets[t].auto = rules[t].auto

(* Posts of a team come to be approved without a person only by a settings form
   of that team on which this was ticked separately. *)
ApprovalAsked ==
    [][\A t \in Teams : ~rules[t].auto /\ rules[t]'.auto =>
          \E u \in Users : request[u].kind = "settings" /\ request[u].team = t /\ request[u].want.ack]_rulesVars
=============================================================================
