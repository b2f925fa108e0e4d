------------------------ MODULE RulesAndMatchday_proofs ------------------------
(***************************************************************************)
(* Two proofs about the planning of posts, from the page a person sees to  *)
(* what is planned: TeamRules, for any number of teams and users, and      *)
(* Matchday, for any number of games, changes, commands and failures.  The *)
(* rule set in force is the one on the page and nobody loses a slot        *)
(* unseen; a game is shown once, as it was approved.                       *)
(*                                                                         *)
(* What the proofs about TeamRules rest on is that a request writes a      *)
(* whole JSON value over the one it read: no copy is outdated when it is   *)
(* written, as whoever would change the value waits, or is refused.        *)
(***************************************************************************)
EXTENDS TeamRules, Matchday, FiniteSetTheorems, TLAPS

-----------------------------------------------------------------------------
(* Part one: TeamRules                                                     *)

-----------------------------------------------------------------------------
(* Types                                                                   *)

\* A value with the keys of a team's rules.
IsRules(r) ==
    r \in [slots : {r.slots}, configured : BOOLEAN, given : BOOLEAN, count : Nat,
           auto : BOOLEAN, shared : {"unset", "separate", "joint"}, messenger : BOOLEAN]

Typed ==
    /\ DOMAIN rules = Teams /\ \A t \in Teams : IsRules(rules[t])
    /\ version \in [Teams -> Nat]
    /\ DOMAIN sets = Teams /\ DOMAIN request = Users /\ DOMAIN form = Users

-----------------------------------------------------------------------------
(* The invariant                                                           *)

\* A request is of one kind and has read the teams it will write.
RequestFits(q) ==
    \/ q = Idle
    \/ /\ q.kind = "settings" /\ q.team \in Teams /\ DOMAIN q.seen = Teams \ {q.team}
       /\ q.want \in Wanted
    \/ /\ q.kind \in {"story", "messenger"} /\ q.team \in Teams /\ DOMAIN q.seen = {q.team}
       /\ q.kind = "story" => q.want.name \in Names
       /\ q.kind = "messenger" => q.want \in BOOLEAN

\* What a request has read is what is still stored.
CopiesTrue ==
    \A u \in Users : \A t \in DOMAIN request[u].seen :
        request[u].seen[t].rules = rules[t] /\ request[u].seen[t].version = version[t]

\* A writer without lock is alone, and a team's settings are saved by one form at
\* a time, which still needs the tick it has, or not.
RequestsApart ==
    \A u, v \in Users : u # v =>
        /\ request[u].kind \in {"story", "messenger"} => request[v] = Idle
        /\ request[u].kind = "settings" /\ request[v].kind = "settings" =>
               request[u].team # request[v].team
StillAcknowledged ==
    \A u \in Users : request[u].kind = "settings" => Acknowledged(request[u].team, request[u].want)

\* The rule set of a team has its slots, if it has its own, and its settings.
Agree(t) ==
    sets[t] # NoSets =>
        /\ Authoritative(rules[t]) => sets[t].slots = rules[t].slots
        /\ sets[t].count = rules[t].count /\ sets[t].auto = rules[t].auto

\* A page is never ahead of the row; on one of the row's version stands every slot.
PageShows(u) ==
    LET f == form[u] IN
    f.team # None =>
        /\ f.team \in Teams /\ f.version \in Nat /\ f.version <= version[f.team]
        /\ f.version = version[f.team] =>
               \A s \in _serialize_team_publication_slots(f.team) : OfStory(s) \/ s \in f.slots

RulesInv ==
    /\ Typed
    /\ \A u \in Users : RequestFits(request[u])
    /\ CopiesTrue /\ RequestsApart /\ StillAcknowledged
    /\ \A t \in Teams : Agree(t)
    /\ \A u \in Users : PageShows(u)

-----------------------------------------------------------------------------
(* What a step may do to the schedule and the approval                     *)

\* Nothing is removed that was not on the page ...
RemovedSeen ==
    \A t \in Teams :
       \A s \in _serialize_team_publication_slots(t) \ _serialize_team_publication_slots(t)' :
          \/ OfStory(s)
          \/ \E u \in Users : form[u].team = t /\ form[u]' = NoForm /\ s \in form[u].slots

\* ... and automatic approval only comes with a tick of its own.
TickedOnly ==
    \A t \in Teams : ~rules[t].auto /\ rules[t]'.auto =>
       \E u \in Users : request[u].kind = "settings" /\ request[u].team = t /\ request[u].want.ack

\* All an action is to be shown to keep.
Kept == RulesInv' /\ RemovedSeen /\ ("copy" \notin RulePerils => TickedOnly)

\* The theorems are about instances where copies are not overtaken.
Undivided == RulePerils \subseteq {"copy"}

-----------------------------------------------------------------------------
(* Forms that keep their lock                                              *)

LEMMA WithSlotsIs ==
    ASSUME NEW r, IsRules(r), NEW S
    PROVE  /\ IsRules(WithSlots(r, S)) /\ WithSlots(r, S).auto = r.auto
           /\ WithSlots(r, S).count = r.count
           /\ WithSlots(r, S).slots = S /\ WithSlots(r, S).configured
BY DEF IsRules, WithSlots

LEMMA PresetIs ==
    ASSUME NEW r, IsRules(r)
    PROVE  IsRules(Preset(r)) /\ Preset(r).auto = FALSE
BY DEF IsRules, Preset, RECOMMENDED_AUTOMATION_PRESET

LEMMA ReplacedIs ==
    ASSUME NEW r, NEW s, IsRules(r), IsRules(s)
    PROVE  IsRules(Replaced(r, s))
BY DEF IsRules, Replaced

LEMMA CompletedIs ==
    ASSUME NEW r, NEW s, IsRules(r), IsRules(s)
    PROVE  /\ IsRules(Completed(r, s))
           /\ Completed(r, s).auto = IF r.given THEN r.auto ELSE s.auto
<1> DEFINE given     == r.given \/ s.given
           count     == IF r.given THEN r.count ELSE s.count
           auto      == IF r.given THEN r.auto ELSE s.auto
           shared    == IF r.shared = "unset" THEN s.shared ELSE r.shared
           messenger == r.messenger \/ s.messenger
<1>1. Completed(r, s) = [r EXCEPT !.given = given, !.count = count, !.auto = auto,
                                  !.shared = shared, !.messenger = messenger]
  BY DEF Completed, IsRules
<1>2. /\ given \in BOOLEAN /\ count \in Nat /\ auto \in BOOLEAN
      /\ shared \in {"unset", "separate", "joint"} /\ messenger \in BOOLEAN
  BY DEF IsRules
<1> HIDE DEF given, count, auto, shared, messenger
<1>3. /\ IsRules(Completed(r, s)) /\ Completed(r, s).auto = auto
  BY <1>1, <1>2 DEF IsRules
<1> QED BY <1>3 DEF auto

LEMMA CopiedIs ==
    ASSUME NEW r, NEW s, NEW replace, IsRules(r), IsRules(s)
    PROVE  IsRules(CopiedSettings(r, s, replace))
<1>1. IsRules(Replaced(r, s))
  BY ReplacedIs
<1>2. PICK q : q = Replaced(r, s)
  OBVIOUS
<1>3. IsRules([q EXCEPT !.slots = {}, !.configured = FALSE])
  BY <1>1, <1>2 DEF IsRules
<1>4. IsRules([Replaced(r, s) EXCEPT !.slots = {}, !.configured = FALSE])
  BY <1>2, <1>3
<1> QED BY CompletedIs, <1>4 DEF CopiedSettings

LEMMA SharedIs ==
    ASSUME NEW r, IsRules(r), NEW w \in {"separate", "joint"}, NEW q, q = [r EXCEPT !.shared = w]
    PROVE  /\ IsRules(q) /\ q.auto = r.auto /\ q.count = r.count
           /\ q.slots = r.slots /\ q.configured = r.configured
BY DEF IsRules

LEMMA MessengerIs ==
    ASSUME NEW r, IsRules(r), NEW w \in BOOLEAN
    PROVE  LET q == [r EXCEPT !.messenger = w] IN
           /\ IsRules(q) /\ q.auto = r.auto /\ q.count = r.count
           /\ q.slots = r.slots /\ q.configured = r.configured
BY DEF IsRules

\* Every form of the schedule saves some value; none but the copy switches
\* automatic approval on.
LEMMA ScheduleSaves ==
    ASSUME RulesInv, NEW u \in Users, ScheduleNext(u)
    PROVE  /\ _team_for_rule_write(u)
           /\ \E r, rows, keys :
                 /\ IsRules(r) /\ Saves(u, r, rows, keys)
                 /\ "copy" \in RulePerils \/ (r.auto => rules[form[u].team].auto)
<1> DEFINE T == form[u].team
<1> DEFINE Good == \E r, rows, keys :
                 /\ IsRules(r) /\ Saves(u, r, rows, keys)
                 /\ "copy" \in RulePerils \/ (r.auto => rules[T].auto)
<1>1. ASSUME _team_for_rule_write(u) PROVE IsRules(rules[T])
  BY <1>1 DEF _team_for_rule_write, RulesInv, PageShows, Typed
<1>2. ASSUME _team_for_rule_write(u), NEW S, NEW rows, NEW keys,
             Saves(u, WithSlots(rules[T], S), rows, keys)
      PROVE  Good
  BY <1>1, <1>2, WithSlotsIs
<1>3. CASE save_publication_rule_slot(u)
  BY <1>2, <1>3 DEF save_publication_rule_slot, SlotSaved
<1>4. CASE delete_publication_rule_slot(u)
  BY <1>2, <1>4 DEF delete_publication_rule_slot
<1>5. CASE \E d, e \in Weekdays, replace \in BOOLEAN : copy_publication_weekday(u, d, e, replace)
  BY <1>2, <1>5 DEF copy_publication_weekday
<1>6. ASSUME NEW replace \in BOOLEAN, apply_automation_preset(u, replace)
      PROVE  _team_for_rule_write(u) /\ Good
  <2>1. _team_for_rule_write(u) /\ IsRules(rules[T])
    BY <1>1, <1>6 DEF apply_automation_preset
  <2> DEFINE P == RECOMMENDED_AUTOMATION_PRESET.slots
             q == IF replace THEN WithSlots(Preset(rules[T]), P)
                  ELSE WithSlots(Completed(rules[T], Preset(rules[T])),
                                 rules[T].slots \cup Missing(rules[T].slots, P))
  <2>2. IsRules(q) /\ (q.auto => rules[T].auto)
    <3>1. IsRules(Preset(rules[T])) /\ Preset(rules[T]).auto = FALSE
      BY <2>1, PresetIs
    <3>2. /\ IsRules(Completed(rules[T], Preset(rules[T])))
          /\ Completed(rules[T], Preset(rules[T])).auto
                = IF rules[T].given THEN rules[T].auto ELSE Preset(rules[T]).auto
      BY <2>1, <3>1, CompletedIs
    <3> QED BY <3>1, <3>2, WithSlotsIs
  <2>3. Saves(u, q, story[T], 0)
    BY <1>6 DEF apply_automation_preset
  <2> HIDE DEF q
  <2> QED BY <2>1, <2>2, <2>3
<1>7. ASSUME NEW s \in Teams, NEW replace \in BOOLEAN, NEW settings \in BOOLEAN,
             NEW schedule \in BOOLEAN, copy_team_rules(u, s, replace, settings, schedule)
      PROVE  _team_for_rule_write(u) /\ Good
  <2>1. _team_for_rule_write(u) /\ IsRules(rules[T]) /\ IsRules(rules[s])
    BY <1>1, <1>7 DEF copy_team_rules, RulesInv, Typed
  <2> DEFINE q == IF settings THEN CopiedSettings(rules[T], rules[s], replace) ELSE rules[T]
  <2>2. IsRules(q)
    BY <2>1, CopiedIs
  <2>3. /\ "copy" \in RulePerils \/ (q.auto => rules[T].auto)
        /\ \E S, rows, keys : Saves(u, WithSlots(q, S), rows, keys) \/ Saves(u, q, rows, keys)
    BY <1>7 DEF copy_team_rules
  <2> HIDE DEF q
  <2> QED BY <2>1, <2>2, <2>3, WithSlotsIs
<1> QED BY <1>3, <1>4, <1>5, <1>6, <1>7 DEF ScheduleNext, save_publication_rule_slot,
   delete_publication_rule_slot, copy_publication_weekday

LEMMA SyncIs ==
    ASSUME NEW t, NEW r, NEW rows
    PROVE  LET q == sync_team_rule_sets(t, r, rows) IN
           /\ q.count = r.count /\ q.auto = r.auto
           /\ Authoritative(r) => q.slots = r.slots
BY DEF sync_team_rule_sets

\* Nobody holds a copy of a team that is written; nor does an idle user of any.
LEMMA Uncopied ==
    ASSUME RulesInv, Undivided, NEW u \in Users, NEW t \in Teams, Undisturbed(u, t)
    PROVE  \A v \in Users \ {u} : t \notin DOMAIN request[v].seen
<1> SUFFICES ASSUME NEW v \in Users \ {u}, t \in DOMAIN request[v].seen PROVE FALSE
  OBVIOUS
<1>1. request[v].kind \in RulePerils
  BY DEF Undisturbed, Copied
<1>2. request[v] # Idle
  BY DEF Idle
<1> QED BY <1>1, <1>2 DEF RulesInv, RequestFits, Undivided

LEMMA SavedStep ==
    ASSUME RulesInv, Undivided, NEW u \in Users, NEW r, NEW rows, NEW keys, IsRules(r),
           _team_for_rule_write(u), Saves(u, r, rows, keys),
           "copy" \in RulePerils \/ (r.auto => rules[form[u].team].auto)
    PROVE  Kept
<1> PICK t \in Teams : t = form[u].team
  BY DEF _team_for_rule_write, RulesInv, PageShows
<1>1. /\ request[u] = Idle /\ Undisturbed(u, t) /\ ~Locked(t)
      /\ form[u].version = version[t]
      /\ rules' = [rules EXCEPT ![t] = r]
      /\ version' = [version EXCEPT ![t] = version[t] + 1]
      /\ sets' = [sets EXCEPT ![t] = sync_team_rule_sets(t, r, rows)]
      /\ form' = [form EXCEPT ![u] = NoForm]
      /\ request' = request
  BY DEF Saves, _team_for_rule_write
<1>2. /\ DOMAIN rules = Teams /\ version \in [Teams -> Nat] /\ DOMAIN sets = Teams
      /\ DOMAIN form = Users
  BY DEF RulesInv, Typed
<1>3. /\ rules'[t] = r /\ version'[t] = version[t] + 1
      /\ sets'[t] = sync_team_rule_sets(t, r, rows)
      /\ form'[u] = NoForm
      /\ \A s \in Teams \ {t} : rules'[s] = rules[s] /\ version'[s] = version[s] /\ sets'[s] = sets[s]
      /\ \A v \in Users \ {u} : form'[v] = form[v]
  BY <1>1, <1>2
<1>4. \A v \in Users : t \notin DOMAIN request[v].seen
  <2>1. \A v \in Users \ {u} : t \notin DOMAIN request[v].seen
    BY <1>1, Uncopied
  <2>2. t \notin DOMAIN request[u].seen
    BY <1>1 DEF Idle
  <2> QED BY <2>1, <2>2
<1>5. Typed'
  BY <1>1, <1>2, <1>3 DEF RulesInv, Typed
<1>6. CopiesTrue'
  <2> SUFFICES ASSUME NEW v \in Users, NEW s \in DOMAIN request[v].seen
               PROVE  request[v].seen[s].rules = rules'[s] /\ request[v].seen[s].version = version'[s]
    BY <1>1 DEF CopiesTrue
  <2>1. s \in Teams
    BY DEF RulesInv, RequestFits, Idle
  <2> QED BY <1>3, <1>4, <2>1 DEF RulesInv, CopiesTrue
<1>7. (\A v \in Users : RequestFits(request[v])') /\ RequestsApart'
  BY <1>1 DEF RulesInv, RequestsApart
<1>8. StillAcknowledged'
  <2> SUFFICES ASSUME NEW v \in Users, request[v].kind = "settings"
               PROVE  Acknowledged(request[v].team, request[v].want)'
    BY <1>1 DEF StillAcknowledged
  <2>1. request[v].team \in Teams \ {t}
    BY <1>1 DEF RulesInv, RequestFits, Idle, Locked
  <2> QED BY <1>1, <1>3, <2>1 DEF RulesInv, StillAcknowledged, Acknowledged
<1>9. \A s \in Teams : Agree(s)'
  BY <1>3, SyncIs DEF RulesInv, Agree
<1>10. \A v \in Users : PageShows(v)'
  <2> SUFFICES ASSUME NEW v \in Users PROVE PageShows(v)'
    OBVIOUS
  <2>1. CASE v = u
    BY <1>3, <2>1 DEF PageShows, NoForm
  <2>2. CASE v # u
    BY <1>2, <1>3, <2>2 DEF RulesInv, PageShows, _serialize_team_publication_slots
  <2> QED BY <2>1, <2>2
<1>11. RemovedSeen
  <2> SUFFICES ASSUME NEW s \in Teams,
                      NEW x \in _serialize_team_publication_slots(s) \ _serialize_team_publication_slots(s)'
               PROVE  \/ OfStory(x)
                      \/ \E v \in Users : form[v].team = s /\ form'[v] = NoForm /\ x \in form[v].slots
    BY DEF RemovedSeen
  <2>1. s = t
    BY <1>3 DEF _serialize_team_publication_slots
  <2>2. OfStory(x) \/ x \in form[u].slots
    BY <1>1, <2>1 DEF RulesInv, PageShows, _team_for_rule_write
  <2> QED BY <1>3, <2>1, <2>2
<1>12. ASSUME "copy" \notin RulePerils PROVE TickedOnly
  BY <1>3, <1>12 DEF TickedOnly
<1> QED BY <1>5, <1>6, <1>7, <1>8, <1>9, <1>10, <1>11, <1>12 DEF RulesInv, Kept

-----------------------------------------------------------------------------
(* Pages, and requests that begin or are given up                          *)

LEMMA LoadStep ==
    ASSUME RulesInv, NEW u \in Users, NEW t \in Teams, Load(u, t)
    PROVE  Kept
<1>1. /\ form' = [form EXCEPT ![u] = [team |-> t, version |-> version[t],
                                      slots |-> _serialize_team_publication_slots(t)]]
      /\ UNCHANGED <<rules, version, story, sets, request, made, submitted>>
  BY DEF Load
<1>2. \A v \in Users : PageShows(v)'
  <2> SUFFICES ASSUME NEW v \in Users PROVE PageShows(v)'
    OBVIOUS
  <2>1. version[t] \in Nat /\ DOMAIN form = Users
    BY DEF RulesInv, Typed
  <2>2. CASE v = u
    BY <1>1, <2>1, <2>2 DEF PageShows, _serialize_team_publication_slots
  <2>3. CASE v # u
    BY <1>1, <2>1, <2>3 DEF RulesInv, PageShows, _serialize_team_publication_slots
  <2> QED BY <2>2, <2>3
<1>3. Typed' /\ CopiesTrue' /\ RequestsApart' /\ StillAcknowledged'
      /\ (\A v \in Users : RequestFits(request[v])') /\ (\A s \in Teams : Agree(s)')
  BY <1>1 DEF RulesInv, Typed, CopiesTrue, RequestsApart, StillAcknowledged, Acknowledged, Agree
<1>4. RemovedSeen /\ TickedOnly
  BY <1>1 DEF RemovedSeen, TickedOnly, _serialize_team_publication_slots
<1> QED BY <1>2, <1>3, <1>4 DEF RulesInv, Kept

\* The request and the page of one user change, the request to one that has read
\* the rows as they are; pages are only left.
LEMMA RequestStep ==
    ASSUME RulesInv, NEW u \in Users, NEW q, UNCHANGED <<rules, version, sets>>,
           request' = [request EXCEPT ![u] = q], RequestFits(q),
           form' = form \/ form' = [form EXCEPT ![u] = NoForm],
           \A t \in DOMAIN q.seen : q.seen[t].rules = rules[t] /\ q.seen[t].version = version[t],
           \A v \in Users \ {u} :
              /\ q.kind \in {"story", "messenger"} => request[v] = Idle
              /\ q.kind = "settings" => /\ request[v].kind \notin {"story", "messenger"}
                                        /\ request[v].kind = "settings" => request[v].team # q.team,
           q.kind = "settings" => Acknowledged(q.team, q.want)
    PROVE  Kept
<1>1. /\ request'[u] = q /\ \A v \in Users \ {u} : request'[v] = request[v]
      /\ DOMAIN request' = Users
  BY DEF RulesInv, Typed
<1>2. \A v \in Users : form'[v] = form[v] \/ form'[v] = NoForm
  BY DEF RulesInv, Typed
<1>3. Typed'
  BY DEF RulesInv, Typed
<1>4. \A v \in Users : RequestFits(request[v])'
  BY <1>1 DEF RulesInv, RequestFits
<1>5. CopiesTrue'
  BY <1>1 DEF RulesInv, CopiesTrue
<1>6. RequestsApart'
  <2> SUFFICES ASSUME NEW v \in Users, NEW w \in Users, v # w
               PROVE  /\ request'[v].kind \in {"story", "messenger"} => request'[w] = Idle
                      /\ request'[v].kind = "settings" /\ request'[w].kind = "settings" =>
                             request'[v].team # request'[w].team
    BY DEF RequestsApart
  <2>1. CASE v # u /\ w # u
    BY <1>1, <2>1 DEF RulesInv, RequestsApart
  <2>2. CASE v = u
    BY <1>1, <2>2
  <2>3. CASE w = u
    <3>1. request'[v] = request[v] /\ v \in Users \ {u}
      BY <1>1, <2>3
    <3>2. request[v].kind \in {"story", "messenger"} => q = Idle
      BY <3>1 DEF RequestFits, Idle
    <3> QED BY <1>1, <2>3, <3>1, <3>2
  <2> QED BY <2>1, <2>2, <2>3
<1>7. StillAcknowledged'
  BY <1>1 DEF RulesInv, StillAcknowledged, Acknowledged
<1>8. (\A s \in Teams : Agree(s)') /\ RemovedSeen /\ TickedOnly
  BY DEF RulesInv, Agree, RemovedSeen, TickedOnly, _serialize_team_publication_slots
<1>9. \A v \in Users : PageShows(v)'
  BY <1>2 DEF RulesInv, PageShows, NoForm, _serialize_team_publication_slots
<1> QED BY <1>3, <1>4, <1>5, <1>6, <1>7, <1>8, <1>9 DEF RulesInv, Kept

LEMMA BeginStep ==
    ASSUME RulesInv, NEW u \in Users, NEW kind, NEW t, NEW copies \in SUBSET Teams, NEW want,
           Begins(u, kind, t, copies, want), UNCHANGED form,
           RequestFits([kind |-> kind, team |-> t, want |-> want,
                        seen |-> [s \in copies |-> [rules |-> rules[s], version |-> version[s]]]]),
           kind \in {"story", "messenger"} => \A v \in Users : request[v].kind = "idle",
           kind = "settings" => /\ \A v \in Users : request[v].kind \notin {"story", "messenger"}
                                /\ ~Locked(t) /\ Acknowledged(t, want)
    PROVE  Kept
<1> DEFINE q == [kind |-> kind, team |-> t, want |-> want,
                 seen |-> [s \in copies |-> [rules |-> rules[s], version |-> version[s]]]]
<1>1. q.kind = kind /\ q.team = t /\ q.want = want
      /\ q.seen = [s \in copies |-> [rules |-> rules[s], version |-> version[s]]]
  OBVIOUS
<1>2. \A s \in DOMAIN q.seen : q.seen[s].rules = rules[s] /\ q.seen[s].version = version[s]
  BY <1>1
<1>3. \A v \in Users : request[v].kind = "idle" => request[v] = Idle
  BY DEF RulesInv, RequestFits
<1>4. request' = [request EXCEPT ![u] = q] /\ UNCHANGED <<rules, version, sets>> /\ RequestFits(q)
  BY DEF Begins
<1> HIDE DEF q
<1>5. \A v \in Users \ {u} :
              /\ q.kind \in {"story", "messenger"} => request[v] = Idle
              /\ q.kind = "settings" => /\ request[v].kind \notin {"story", "messenger"}
                                        /\ request[v].kind = "settings" => request[v].team # q.team
  BY <1>1, <1>3 DEF Locked
<1>6. q.kind = "settings" => Acknowledged(q.team, q.want)
  BY <1>1
<1> QED BY <1>2, <1>4, <1>5, <1>6, RequestStep

LEMMA StoryBeginsStep ==
    ASSUME RulesInv, Undivided, NEW u \in Users, NEW t \in Teams, StoryBegins(u, t)
    PROVE  Kept
<1>1. PICK n, row :
          /\ n \in Names /\ Begins(u, "story", t, {t}, [name |-> n, row |-> row])
          /\ UNCHANGED form
  BY DEF StoryBegins
<1>2. \A v \in Users : request[v].kind = "idle"
  BY DEF StoryBegins, Unlocked, Undivided
<1>3. RequestFits([kind |-> "story", team |-> t, want |-> [name |-> n, row |-> row],
                   seen |-> [s \in {t} |-> [rules |-> rules[s], version |-> version[s]]]])
  BY <1>1 DEF RequestFits
<1> QED BY <1>1, <1>2, <1>3, BeginStep

LEMMA MessengerBeginsStep ==
    ASSUME RulesInv, Undivided, NEW u \in Users, NEW t \in Teams, MessengerBegins(u, t)
    PROVE  Kept
<1>1. PICK chosen \in BOOLEAN : Begins(u, "messenger", t, {t}, chosen) /\ UNCHANGED form
  BY DEF MessengerBegins
<1>2. \A v \in Users : request[v].kind = "idle"
  BY DEF MessengerBegins, Unlocked, Undivided
<1>3. RequestFits([kind |-> "messenger", team |-> t, want |-> chosen,
                   seen |-> [s \in {t} |-> [rules |-> rules[s], version |-> version[s]]]])
  BY DEF RequestFits
<1> QED BY <1>1, <1>2, <1>3, BeginStep

LEMMA SaveRulesBeginsStep ==
    ASSUME RulesInv, Undivided, NEW u \in Users, SaveRulesBegins(u)
    PROVE  Kept
<1> PICK t \in Teams : t = form[u].team
  BY DEF SaveRulesBegins, _team_for_rule_write, RulesInv, PageShows
<1>1. PICK w \in Wanted : /\ Acknowledged(t, w)
                          /\ Begins(u, "settings", t, Teams \ {t}, w) /\ UNCHANGED form
  BY DEF SaveRulesBegins
<1>2. ~Locked(t) /\ \A v \in Users : request[v].kind \notin {"story", "messenger"}
  BY DEF SaveRulesBegins, _team_for_rule_write, Undivided
<1>3. RequestFits([kind |-> "settings", team |-> t, want |-> w,
                   seen |-> [s \in Teams \ {t} |-> [rules |-> rules[s], version |-> version[s]]]])
  BY DEF RequestFits
<1> QED BY <1>1, <1>2, <1>3, BeginStep

LEMMA VictimStep ==
    ASSUME RulesInv, NEW u \in Users, DeadlockVictim(u)
    PROVE  Kept
<1>1. RequestFits(Idle) /\ Idle.kind = "idle" /\ DOMAIN Idle.seen = {}
  BY DEF RequestFits, Idle
<1>2. /\ request' = [request EXCEPT ![u] = Idle] /\ UNCHANGED <<rules, version, sets>>
      /\ form' = [form EXCEPT ![u] = NoForm]
  BY DEF DeadlockVictim
<1> QED BY <1>1, <1>2, RequestStep

-----------------------------------------------------------------------------
(* Requests that write over what they read                                 *)

\* A team u's request writes: consistently, its schedule but for story times as it
\* was unless the version rises, and read by nobody else.
Written(u, s) ==
    /\ IsRules(rules'[s]) /\ version'[s] >= version[s] /\ Agree(s)'
    /\ version'[s] = version[s] =>
          \A x \in _serialize_team_publication_slots(s)' :
              OfStory(x) \/ x \in _serialize_team_publication_slots(s)
    /\ \A x \in _serialize_team_publication_slots(s) :
              OfStory(x) \/ x \in _serialize_team_publication_slots(s)'
    /\ \A v \in Users \ {u} : /\ s \notin DOMAIN request[v].seen
                              /\ request[v].kind = "settings" => request[v].team # s
    /\ rules'[s].auto => \/ rules[s].auto
                         \/ request[u].kind = "settings" /\ request[u].team = s /\ request[u].want.ack

\* The end of a request that writes the teams in W, which nobody else has read.
LEMMA EndStep ==
    ASSUME RulesInv, Undivided, NEW u \in Users, NEW W \in SUBSET Teams,
           request' = [request EXCEPT ![u] = Idle],
           form' = form \/ form' = [form EXCEPT ![u] = NoForm],
           DOMAIN rules' = Teams, version' \in [Teams -> Nat], DOMAIN sets' = Teams,
           \A s \in Teams \ W : rules'[s] = rules[s] /\ version'[s] = version[s] /\ sets'[s] = sets[s],
           \A s \in W : Written(u, s)
    PROVE  Kept
<1>1. /\ request'[u] = Idle /\ \A v \in Users \ {u} : request'[v] = request[v]
      /\ DOMAIN request' = Users
  BY DEF RulesInv, Typed
<1>2. \A v \in Users : form'[v] = form[v] \/ form'[v] = NoForm
  BY DEF RulesInv, Typed
<1>3. Typed'
  BY <1>1 DEF Written, RulesInv, Typed
<1>4. (\A v \in Users : RequestFits(request[v])') /\ RequestsApart'
  BY <1>1 DEF RulesInv, RequestFits, RequestsApart, Idle
<1>5. CopiesTrue'
  <2> SUFFICES ASSUME NEW v \in Users, NEW s \in DOMAIN request'[v].seen
               PROVE  request'[v].seen[s].rules = rules'[s] /\ request'[v].seen[s].version = version'[s]
    BY DEF CopiesTrue
  <2>1. v # u /\ request'[v] = request[v]
    BY <1>1 DEF Idle
  <2>2. s \in Teams \ W
    BY <2>1 DEF Written, RulesInv, RequestFits, Idle
  <2> QED BY <2>1, <2>2 DEF RulesInv, CopiesTrue
<1>6. StillAcknowledged'
  <2> SUFFICES ASSUME NEW v \in Users, request'[v].kind = "settings"
               PROVE  Acknowledged(request[v].team, request[v].want)'
    BY DEF StillAcknowledged
  <2>1. v # u /\ request'[v] = request[v]
    BY <1>1 DEF Idle
  <2>2. request[v].team \in Teams \ W
    BY <2>1 DEF Written, RulesInv, RequestFits, Idle
  <2> QED BY <2>1, <2>2 DEF RulesInv, StillAcknowledged, Acknowledged
<1>7. \A s \in Teams : Agree(s)'
  BY DEF Written, RulesInv, Agree
<1>8. \A s \in Teams \ W : _serialize_team_publication_slots(s)' = _serialize_team_publication_slots(s)
  BY DEF _serialize_team_publication_slots
<1>9. \A v \in Users : PageShows(v)'
  <2> SUFFICES ASSUME NEW v \in Users, form'[v] = form[v], form[v].team # None PROVE PageShows(v)'
    BY <1>2 DEF PageShows, NoForm
  <2>1. /\ form[v].team \in Teams /\ form[v].version \in Nat
        /\ form[v].version <= version[form[v].team]
        /\ form[v].version = version[form[v].team] =>
              \A s \in _serialize_team_publication_slots(form[v].team) : OfStory(s) \/ s \in form[v].slots
    BY DEF RulesInv, PageShows
  <2> PICK s \in Teams : s = form[v].team
    BY <2>1
  <2>2. version[s] \in Nat /\ version'[s] \in Nat /\ version'[s] >= version[s]
    BY DEF Written, RulesInv, Typed
  <2>3. CASE s \in W
    BY <2>1, <2>2, <2>3 DEF Written, PageShows
  <2>4. CASE s \notin W
    BY <1>8, <2>1, <2>2, <2>4 DEF PageShows
  <2> QED BY <2>3, <2>4
<1>10. RemovedSeen
  BY <1>8 DEF Written, RemovedSeen
<1>11. TickedOnly
  BY DEF Written, TickedOnly
<1> QED BY <1>3, <1>4, <1>5, <1>6, <1>7, <1>9, <1>10, <1>11 DEF RulesInv, Kept

\* A team that is read by one request is nobody else's to write.
LEMMA ReadAlone ==
    ASSUME RulesInv, Undivided, NEW u \in Users, NEW t \in Teams, ~Locked(t), Undisturbed(u, t)
    PROVE  \A v \in Users \ {u} : /\ t \notin DOMAIN request[v].seen
                                  /\ request[v].kind = "settings" => request[v].team # t
BY Uncopied DEF Locked

\* What is written over a copy that is still true is the new value, also when
\* nothing is written because nothing changed.
LEMMA OverIs ==
    ASSUME RulesInv, NEW u \in Users, NEW t \in DOMAIN request[u].seen, NEW r
    PROVE  Over(u, t, r) = r
BY DEF Over, RulesInv, CopiesTrue

LEMMA MessengerStep ==
    ASSUME RulesInv, Undivided, NEW u \in Users, save_messenger_defaults(u)
    PROVE  Kept
<1> PICK t \in Teams : t = request[u].team /\ DOMAIN request[u].seen = {t}
  BY DEF save_messenger_defaults, RulesInv, RequestFits, Idle
<1> DEFINE r == [rules[t] EXCEPT !.messenger = request[u].want]
<1>1. request[u].seen[t].rules = rules[t]
  BY DEF RulesInv, CopiesTrue
<1>2. request[u].want \in BOOLEAN /\ IsRules(rules[t])
  BY DEF save_messenger_defaults, RulesInv, RequestFits, Typed, Idle
<1>3. rules' = [rules EXCEPT ![t] = r]
  <2>1. Over(u, t, r) = r
    BY OverIs
  <2>2. rules' = [rules EXCEPT ![t] = Over(u, t, r)]
    BY <1>1 DEF save_messenger_defaults
  <2> QED BY <2>1, <2>2
<1>4. /\ IsRules(r) /\ r.auto = rules[t].auto /\ r.count = rules[t].count
      /\ r.slots = rules[t].slots /\ r.configured = rules[t].configured
  BY <1>2, MessengerIs
<1> HIDE DEF r
<1>5. /\ UNCHANGED <<version, sets, form>> /\ request' = [request EXCEPT ![u] = Idle]
      /\ ~Locked(t) /\ Undisturbed(u, t)
  BY DEF save_messenger_defaults
<1>6. /\ DOMAIN rules' = Teams /\ rules'[t] = r /\ \A s \in Teams \ {t} : rules'[s] = rules[s]
      /\ version \in [Teams -> Nat] /\ DOMAIN sets = Teams
  BY <1>3 DEF RulesInv, Typed
<1>7. _serialize_team_publication_slots(t)' = _serialize_team_publication_slots(t) /\ Agree(t)'
  BY <1>4, <1>5, <1>6 DEF _serialize_team_publication_slots, Authoritative, Agree, RulesInv
<1>8. \A v \in Users \ {u} : /\ t \notin DOMAIN request[v].seen
                             /\ request[v].kind = "settings" => request[v].team # t
  BY <1>5, ReadAlone
<1>9. version'[t] >= version[t]
  BY <1>5, <1>6
<1> DEFINE W == {t}
<1>10. \A s \in W : s = t
  OBVIOUS
<1>11. W \in SUBSET Teams /\ \A s \in Teams \ W : s \in Teams \ {t}
  OBVIOUS
<1> HIDE DEF W
<1>12. \A s \in Teams \ W : rules'[s] = rules[s] /\ version'[s] = version[s] /\ sets'[s] = sets[s]
  BY <1>5, <1>6, <1>11
<1>13. \A s \in W : Written(u, s)
  BY <1>4, <1>6, <1>7, <1>8, <1>9, <1>10 DEF Written
<1> QED BY <1>5, <1>6, <1>11, <1>12, <1>13, EndStep

LEMMA StoryStep ==
    ASSUME RulesInv, Undivided, NEW u \in Users, StoryEnds(u)
    PROVE  Kept
<1> PICK t \in Teams, n \in Names :
        /\ t = request[u].team /\ DOMAIN request[u].seen = {t} /\ n = request[u].want.name
  BY DEF StoryEnds, RulesInv, RequestFits, Idle
<1> DEFINE rows == [story[t] EXCEPT ![n] = request[u].want.row]
           r == _replace_legacy_story_publication_rows(u, t, n, rows[n])
           old == {s \in _serialize_team_publication_slots(t) : s.key # StoryKey(t, n)}
           new == _legacy_story_publication_rows(t, n, rows[n])
<1>1. request[u].seen[t].rules = rules[t] /\ IsRules(rules[t])
  BY DEF RulesInv, CopiesTrue, Typed
<1>2. r = WithSlots(rules[t], old \cup new)
  BY <1>1 DEF _replace_legacy_story_publication_rows, _serialize_team_publication_slots
<1>3. /\ rules' = [rules EXCEPT ![t] = r]
      /\ sets' = [sets EXCEPT ![t] = sync_team_rule_sets(t, r, rows)]
      /\ UNCHANGED <<version, form>> /\ request' = [request EXCEPT ![u] = Idle]
      /\ ~Locked(t) /\ Undisturbed(u, t)
  <2>1. Over(u, t, r) = r
    BY OverIs
  <2>2. /\ rules' = [rules EXCEPT ![t] = Over(u, t, r)]
        /\ sets' = [sets EXCEPT ![t] = sync_team_rule_sets(t, Over(u, t, r), rows)]
    BY DEF StoryEnds
  <2> QED BY <2>1, <2>2 DEF StoryEnds
<1>4. /\ \A x \in new : OfStory(x)
      /\ \A x \in _serialize_team_publication_slots(t) : OfStory(x) \/ x \in old
  BY DEF _legacy_story_publication_rows, OfStory, Slot
<1> HIDE DEF r, new
<1>5. /\ IsRules(r) /\ r.auto = rules[t].auto /\ r.slots = old \cup new /\ r.configured
  <2> HIDE DEF old
  <2> QED BY <1>1, <1>2, WithSlotsIs
<1> HIDE DEF rows
<1>6. /\ DOMAIN rules' = Teams /\ rules'[t] = r /\ \A s \in Teams \ {t} : rules'[s] = rules[s]
      /\ version \in [Teams -> Nat]
      /\ DOMAIN sets' = Teams /\ sets'[t] = sync_team_rule_sets(t, r, rows)
      /\ \A s \in Teams \ {t} : sets'[s] = sets[s]
  BY <1>3 DEF RulesInv, Typed
<1>7. _serialize_team_publication_slots(t)' = old \cup new
  BY <1>5, <1>6 DEF _serialize_team_publication_slots, Authoritative
<1>8. Agree(t)'
  BY <1>6, SyncIs DEF Agree
<1>9. /\ \A x \in _serialize_team_publication_slots(t)' :
            OfStory(x) \/ x \in _serialize_team_publication_slots(t)
      /\ \A x \in _serialize_team_publication_slots(t) :
            OfStory(x) \/ x \in _serialize_team_publication_slots(t)'
  BY <1>4, <1>7
<1> HIDE DEF old
<1>10. \A v \in Users \ {u} : /\ t \notin DOMAIN request[v].seen
                              /\ request[v].kind = "settings" => request[v].team # t
  BY <1>3, ReadAlone
<1>11. version'[t] >= version[t]
  BY <1>3, <1>6
<1> DEFINE W == {t}
<1>12. \A s \in W : s = t
  OBVIOUS
<1>13. W \in SUBSET Teams /\ \A s \in Teams \ W : s \in Teams \ {t}
  OBVIOUS
<1> HIDE DEF W
<1>14. \A s \in Teams \ W : rules'[s] = rules[s] /\ version'[s] = version[s] /\ sets'[s] = sets[s]
  BY <1>3, <1>6, <1>13
<1>15. \A s \in W : Written(u, s)
  BY <1>5, <1>6, <1>8, <1>9, <1>10, <1>11, <1>12 DEF Written
<1> QED BY <1>3, <1>6, <1>13, <1>14, <1>15, EndStep

LEMMA SettingsStep ==
    ASSUME RulesInv, Undivided, NEW u \in Users, save_rules(u)
    PROVE  Kept
<1> PICK t \in Teams : /\ t = request[u].team /\ DOMAIN request[u].seen = Teams \ {t}
                       /\ request[u].want \in Wanted
  BY DEF save_rules, RulesInv, RequestFits, Idle
<1> DEFINE w == request[u].want
           r == Settings(t, w)
<1>1. w.count \in Nat /\ w.auto \in BOOLEAN /\ w.shared \in {"separate", "joint"}
  BY DEF Wanted
<1>2. \A s \in Teams \ {t} :
          /\ request[u].seen[s].rules = rules[s] /\ request[u].seen[s].version = version[s]
          /\ ~Locked(s) /\ Undisturbed(u, s)
  BY DEF RulesInv, CopiesTrue, save_rules
<1>3. /\ rules' = [s \in Teams |-> IF s = t THEN r ELSE [rules[s] EXCEPT !.shared = w.shared]]
      /\ version' = [s \in Teams |-> version[s] + 1]
      /\ sets' = [sets EXCEPT ![t] = sync_team_rule_sets(t, r, story[t])]
      /\ form' = [form EXCEPT ![u] = NoForm] /\ request' = [request EXCEPT ![u] = Idle]
  <2>1. \A s \in Teams \ {t} : \A x : Over(u, s, x) = x
    BY OverIs
  <2>2. rules' = [s \in Teams |-> IF s = t THEN r
                                  ELSE Over(u, s, [request[u].seen[s].rules EXCEPT !.shared = w.shared])]
    BY DEF save_rules
  <2>3. version' = [s \in Teams |-> IF s = t THEN version[t] + 1 ELSE request[u].seen[s].version + 1]
    BY DEF save_rules
  <2>4. version' = [s \in Teams |-> version[s] + 1]
    BY <1>2, <2>3
  <2>5. rules' = [s \in Teams |-> IF s = t THEN r ELSE [rules[s] EXCEPT !.shared = w.shared]]
    <3> DEFINE x(s) == [request[u].seen[s].rules EXCEPT !.shared = w.shared]
    <3>1. \A s \in Teams \ {t} : x(s) = [rules[s] EXCEPT !.shared = w.shared]
      BY <1>2
    <3>2. \A s \in Teams \ {t} : Over(u, s, x(s)) = x(s)
      BY <2>1
    <3>3. rules' = [s \in Teams |-> IF s = t THEN r ELSE Over(u, s, x(s))]
      BY <2>2
    <3> HIDE DEF x, r
    <3> QED BY <3>1, <3>2, <3>3
  <2> QED BY <2>4, <2>5 DEF save_rules
<1>4. /\ IsRules(r) /\ r.auto = w.auto /\ r.configured = rules[t].configured
      /\ r.slots = _serialize_team_publication_slots(t)
  <2>1. PICK count \in Nat, auto \in BOOLEAN, shared \in {"separate", "joint"} :
            count = w.count /\ auto = w.auto /\ shared = w.shared
    BY <1>1
  <2> DEFINE S == _serialize_team_publication_slots(t)
  <2>2. r = [rules[t] EXCEPT !.slots = S, !.given = TRUE, !.count = count, !.auto = auto,
                            !.shared = shared]
    BY <2>1 DEF Settings
  <2>3. IsRules(rules[t])
    BY DEF RulesInv, Typed
  <2> HIDE DEF r, w, S
  <2>4. /\ IsRules(r) /\ r.auto = auto /\ r.configured = rules[t].configured /\ r.slots = S
    BY <2>1, <2>2, <2>3 DEF IsRules
  <2> QED BY <2>1, <2>4 DEF S
<1>5. w.auto => rules[t].auto \/ w.ack
  BY DEF RulesInv, StillAcknowledged, Acknowledged, save_rules
<1>6. \A s \in Teams : IsRules(rules[s]) /\ version[s] \in Nat
  BY DEF RulesInv, Typed
<1> HIDE DEF r
<1>7. /\ DOMAIN rules' = Teams /\ rules'[t] = r
      /\ \A s \in Teams \ {t} : rules'[s] = [rules[s] EXCEPT !.shared = w.shared]
      /\ version' \in [Teams -> Nat] /\ \A s \in Teams : version'[s] = version[s] + 1
      /\ DOMAIN sets' = Teams /\ sets'[t] = sync_team_rule_sets(t, r, story[t])
      /\ \A s \in Teams \ {t} : sets'[s] = sets[s]
  BY <1>3, <1>6 DEF RulesInv, Typed
<1>8. ASSUME NEW s \in Teams \ {t} PROVE Written(u, s)
  <2>1. /\ IsRules(rules'[s]) /\ rules'[s].auto = rules[s].auto /\ rules'[s].count = rules[s].count
        /\ rules'[s].slots = rules[s].slots /\ rules'[s].configured = rules[s].configured
    <3>1. PICK shared \in {"separate", "joint"} : shared = w.shared
      BY <1>1
    <3>2. rules'[s] = [rules[s] EXCEPT !.shared = shared]
      BY <1>7, <3>1
    <3> QED BY <1>6, <3>2, SharedIs
  <2>2. _serialize_team_publication_slots(s)' = _serialize_team_publication_slots(s) /\ Agree(s)'
    BY <1>7, <2>1 DEF _serialize_team_publication_slots, Authoritative, Agree, RulesInv
  <2>3. \A v \in Users \ {u} : /\ s \notin DOMAIN request[v].seen
                               /\ request[v].kind = "settings" => request[v].team # s
    BY <1>2, ReadAlone
  <2>4. version'[s] >= version[s] /\ version'[s] # version[s]
    BY <1>6, <1>7
  <2> QED BY <2>1, <2>2, <2>3, <2>4 DEF Written
<1>9. Written(u, t)
  <2>1. Agree(t)'
    BY <1>7, SyncIs DEF Agree
  <2>2. \A x \in _serialize_team_publication_slots(t) : x \in _serialize_team_publication_slots(t)'
    BY <1>4, <1>7 DEF _serialize_team_publication_slots, Authoritative
  <2>3. ASSUME NEW v \in Users \ {u}
        PROVE  /\ t \notin DOMAIN request[v].seen
               /\ request[v].kind = "settings" => request[v].team # t
    <3>1. request[u].kind = "settings" /\ Locked(t)
      BY DEF save_rules, Locked
    <3>2. request[v].kind \notin {"story", "messenger"}
      BY <3>1 DEF RulesInv, RequestsApart, Idle
    <3>3. request[v].kind = "settings" => request[v].team = t \/ Locked(request[v].team)
      BY DEF Locked
    <3>4. request[v].kind = "settings" => request[v].team \in Teams /\ request[v].team # t
      BY <3>1 DEF RulesInv, RequestsApart, RequestFits, Idle
    <3>5. request[v].kind # "settings"
      BY <1>2, <3>3, <3>4
    <3> QED BY <3>2, <3>5 DEF RulesInv, RequestFits, Idle
  <2>4. version'[t] >= version[t] /\ version'[t] # version[t]
    BY <1>6, <1>7
  <2>5. request[u].kind = "settings"
    BY DEF save_rules
  <2> QED BY <1>4, <1>5, <1>7, <2>1, <2>2, <2>3, <2>4, <2>5 DEF Written
<1> DEFINE W == Teams
<1>10. \A s \in W : Written(u, s)
  BY <1>8, <1>9
<1>11. W \in SUBSET Teams /\ Teams \ W = {}
  OBVIOUS
<1> HIDE DEF W
<1> QED BY <1>3, <1>7, <1>10, <1>11, EndStep

-----------------------------------------------------------------------------
(* The theorems                                                            *)

LEMMA NoPageYet == ASSUME RulesInit PROVE RulesInv
<1> USE TeamRulesAssumption
<1>1. PICK S \in SUBSET Teams :
          /\ rules = [t \in Teams |-> IF t \in S
                         THEN WithSlots(Preset(NewRules), RECOMMENDED_AUTOMATION_PRESET.slots) ELSE NewRules]
          /\ version = [t \in Teams |-> IF t \in S THEN 2 ELSE 1]
          /\ \A t \in Teams : sets[t] =
                IF t \in S THEN [slots |-> rules[t].slots, count |-> rules[t].count, auto |-> rules[t].auto]
                ELSE NoSets
          /\ DOMAIN sets = Teams
  <2> DEFINE Row(S, t) == IF t \in S THEN WithSlots(Preset(NewRules), RECOMMENDED_AUTOMATION_PRESET.slots)
                          ELSE NewRules
  <2>1. PICK S \in SUBSET Teams :
          /\ rules = [t \in Teams |-> Row(S, t)]
          /\ version = [t \in Teams |-> IF t \in S THEN 2 ELSE 1]
          /\ sets = [t \in Teams |->
                IF t \in S THEN [slots |-> Row(S, t).slots, count |-> Row(S, t).count,
                                 auto |-> Row(S, t).auto] ELSE NoSets]
    BY DEF RulesInit
  <2>2. \A t \in Teams : rules[t] = Row(S, t)
    BY <2>1
  <2>3. \A t \in Teams : sets[t] =
            IF t \in S THEN [slots |-> rules[t].slots, count |-> rules[t].count, auto |-> rules[t].auto]
            ELSE NoSets
    <3> HIDE DEF Row
    <3> QED BY <2>1, <2>2
  <2> QED BY <2>1, <2>3
<1>2. IsRules(NewRules)
  BY DEF IsRules, NewRules
<1>3. IsRules(WithSlots(Preset(NewRules), RECOMMENDED_AUTOMATION_PRESET.slots))
  BY <1>2, PresetIs, WithSlotsIs
<1>4. Typed
  BY <1>1, <1>2, <1>3 DEF RulesInit, Typed
<1>5. \A u \in Users : request[u] = Idle /\ form[u] = NoForm
  BY DEF RulesInit
<1>6. \A t \in Teams : Agree(t)
  BY <1>1 DEF Agree
<1> QED BY <1>4, <1>5, <1>6 DEF RulesInv, RequestFits, CopiesTrue, RequestsApart, StillAcknowledged,
   PageShows, NoForm, Idle

LEMMA RulesStep ==
    ASSUME RulesInv, Undivided, [RulesNext]_rulesVars
    PROVE  Kept
<1>1. ASSUME NEW u \in Users, ScheduleNext(u) PROVE Kept
  BY <1>1, ScheduleSaves, SavedStep
<1>2. CASE UNCHANGED rulesVars
  <2>1. RulesInv'
    BY <1>2 DEF rulesVars, RulesInv, Typed, RequestFits, CopiesTrue, RequestsApart, StillAcknowledged,
       Acknowledged, Agree, PageShows, _serialize_team_publication_slots
  <2> QED BY <1>2, <2>1 DEF rulesVars, Kept, RemovedSeen, TickedOnly, _serialize_team_publication_slots
<1> QED BY <1>1, <1>2, LoadStep, StoryBeginsStep, MessengerBeginsStep, SaveRulesBeginsStep,
   SettingsStep, VictimStep, StoryStep, MessengerStep DEF RulesNext

LEMMA RulesAlways == ASSUME Undivided PROVE RulesSpec => []RulesInv
<1>1. RulesInv /\ [RulesNext]_rulesVars => RulesInv'
  BY RulesStep DEF Kept
<1> QED BY NoPageYet, <1>1, PTL DEF RulesSpec

\* Posts are planned with what the rules page shows, whatever forms and unlocked
\* writers meet; also when rules are copied without asking for the approval.
THEOREM PageInForce == ASSUME Undivided PROVE RulesSpec => []InForce
<1>1. RulesInv => InForce
  BY DEF RulesInv, Agree, InForce, resolve_publication_slots, _serialize_team_publication_slots
<1> QED BY <1>1, RulesAlways, PTL

\* A slot that somebody's form removes or changes was on that page.
THEOREM SlotsSeen == ASSUME Undivided PROVE RulesSpec => NothingUnseen
<1>1. RulesInv /\ [RulesNext]_rulesVars =>
         [\A t \in Teams :
          \A s \in _serialize_team_publication_slots(t) \ _serialize_team_publication_slots(t)' :
             \/ OfStory(s)
             \/ \E u \in Users : form[u].team = t /\ form[u]' = NoForm /\ s \in form[u].slots]_rulesVars
  BY RulesStep DEF Kept, RemovedSeen
<1> QED BY <1>1, RulesAlways, PTL DEF RulesSpec, NothingUnseen

\* Posts of a team come to be approved without a person only by a settings form
\* of that team on which this was ticked.
THEOREM ApprovalTicked == ASSUME RulePerils = {} PROVE RulesSpec => ApprovalAsked
<1>1. Undivided
  BY DEF Undivided
<1>2. RulesInv /\ [RulesNext]_rulesVars =>
         [\A t \in Teams : ~rules[t].auto /\ rules[t]'.auto =>
          \E u \in Users : request[u].kind = "settings" /\ request[u].team = t /\ request[u].want.ack]_rulesVars
  BY <1>1, RulesStep DEF Kept, TickedOnly
<1> QED BY <1>1, <1>2, RulesAlways, PTL DEF RulesSpec, ApprovalAsked

-----------------------------------------------------------------------------
(* Part two: Matchday                                                      *)

-----------------------------------------------------------------------------
(* Types                                                                   *)

GameRow == [score: Results, off: BOOLEAN, day: Days, confirmed: BOOLEAN, hidden: BOOLEAN,
            tied: BOOLEAN, apart: BOOLEAN, rev: Nat, cand: Results]
PostStates == {"none", "incomplete", "pending", "approved", "reapproval", "cancelled", "published"}
PostRow == [state: PostStates, bundle: SUBSET Games, drawn: Results, read: [Games -> Results],
            warnings: SUBSET {"partial", "result"}]
FeedStates == Unsent \cup {"none", "cancelled", "published"}
JobRow == [games: (SUBSET Games) \ {{}}, revs: [Games -> Nat],
           status: {"queued", "running", "done", "failed", "cancelled"},
           left: SUBSET Games, facts: [Games -> Results]]

\* The types of the runs, and jobs that are rows.
TypeInv ==
    /\ site \in [Games -> Page]
    /\ game \in [Games -> GameRow]
    /\ sync \in [of: Games, stage: {"idle", "imported"}, page: Page]
    /\ jobs \subseteq JobRow
    /\ \A j \in jobs : j.left \subseteq j.games
    /\ post \in [Games -> PostRow]
    /\ feed \in [Games -> FeedStates]
    /\ used \in [changes: 0..MaxChanges, commands: 0..MaxCommands, failures: 0..MaxFailures]
    /\ readings \in [Games -> Results]
    /\ sent \in [Games -> 0..2]

-----------------------------------------------------------------------------
(* Readings                                                                *)

\* What is counted is what was read last, and the snapshot at work is in the row
\* unless somebody has confirmed another result since.
ReadingInv ==
    /\ \A g \in Games : game[g].cand = readings[g]
    /\ sync.stage = "imported" /\ sync.page.score # NoScore /\ ~game[sync.of].confirmed
           => game[sync.of].score = sync.page.score

-----------------------------------------------------------------------------
(* Bundles                                                                 *)

\* Rows gm, posts ps and feeds fs fit: a post in a bundle is one of its members, a
\* game is bound or set apart, and one without a post has neither feed nor bundle.
BundlesFit(gm, ps, fs) ==
    \A g \in Games : /\ ps[g].bundle # {} => g \in ps[g].bundle
                     /\ ~(gm[g].tied /\ gm[g].apart)
                     /\ ps[g].state = "none" => fs[g] = "none" /\ ps[g].bundle = {}
                     /\ gm[g].apart => ps[g].bundle = {}

\* The members of a bundle agree, only a lead is transferred, and a game that was
\* shown belongs to the contribution whose feed is out.
FeedsFit(ps, fs, sn) ==
    \A g \in Games : /\ Reciprocal(ps, g)
                     /\ fs[g] = "scheduled" => g = Lead(Contribution(ps, g))
                     /\ sn[g] <= 1
                     /\ sn[g] = 1 => fs[Lead(Contribution(ps, g))] = "published"

\* Who approved a post has read the results it shows.
ShownBy(ps, g) == IF g = Lead(Contribution(ps, g)) THEN Contribution(ps, g) ELSE {g}
ApprovalsFit(gm, ps) ==
    \A g \in Games : ps[g].state = "approved" =>
        \A h \in ShownBy(ps, g) : ps[g].read[h] = gm[h].score

BundleInv == BundlesFit(game, post, feed)
FeedInv == FeedsFit(post, feed, sent)
ApprovalInv == ApprovalsFit(game, post)

-----------------------------------------------------------------------------
(* Rows and groups                                                         *)

\* The lead of a group is one of its games.
LEMMA LeadMember ==
    ASSUME NEW G, G # {}
    PROVE  Lead(G) \in G
BY DEF Lead

\* The job's last game is one of its games.
LEMMA LastMember ==
    ASSUME NEW j, j.games # {}
    PROVE  LastOf(j) \in j.games
<1>1. CASE j.games = {Lead(j.games)}
  BY <1>1, LeadMember DEF LastOf
<1>2. CASE j.games # {Lead(j.games)}
  <2>1. PICK h \in j.games : h # Lead(j.games)
    BY <1>2, LeadMember
  <2>2. QED  BY <1>2, <2>1 DEF LastOf
<1>3. QED  BY <1>1, <1>2

\* A game alone leads itself.
LEMMA LeadOfOne ==
    ASSUME NEW g
    PROVE  Lead({g}) = g
BY LeadMember

\* The games of a contribution: those of the club, the post's own among them.
LEMMA ContributionTypes ==
    ASSUME NEW ps \in [Games -> PostRow], NEW g \in Games
    PROVE  /\ Contribution(ps, g) \in SUBSET Games
           /\ Contribution(ps, g) # {}
           /\ Lead(Contribution(ps, g)) \in Contribution(ps, g)
<1>1. ps[g].bundle \in SUBSET Games
  BY DEF PostRow
<1>2. Contribution(ps, g) \in SUBSET Games /\ Contribution(ps, g) # {}
  BY <1>1 DEF Contribution
<1>3. QED  BY <1>2, LeadMember

\* What a contribution may join: games of the club, none of them set apart.
LEMMA GroupTypes ==
    ASSUME TypeInv, NEW g \in Games
    PROVE  /\ generation_bundle_games(g) \in SUBSET Games
           /\ generation_bundle_games(g) # {}
           /\ \/ generation_bundle_games(g) = {g}
              \/ ~game[g].apart /\ \A h \in generation_bundle_games(g) : game[h].tied \/ ~game[h].apart
<1> DEFINE tied == {h \in _candidate_rows(g) : game[h].tied}
           free == {h \in _candidate_rows(g) : ~game[h].tied /\ ~game[h].apart}
           shared == IF game[g].apart THEN {} ELSE IF game[g].tied THEN tied
                     ELSE IF Grouped THEN free ELSE {}
<1>1. generation_bundle_games(g) = IF Cardinality(shared) >= 2 THEN shared ELSE {g}
  BY DEF generation_bundle_games
<1>2. shared \in SUBSET Games
  BY DEF _candidate_rows
<1>3. Cardinality({}) = 0
  BY FS_EmptySet
<1>4. Cardinality(shared) >= 2 => shared # {}
  <2> HIDE DEF shared
  <2>1. QED  BY <1>3
<1>5. shared # {} => ~game[g].apart /\ \A h \in shared : game[h].tied \/ ~game[h].apart
  OBVIOUS
<1> HIDE DEF shared
<1>6. QED  BY <1>1, <1>2, <1>4, <1>5

\* A separation reaches whole bundles.
LEMMA ClosureWhole ==
    ASSUME TypeInv, NEW G \in SUBSET Games
    PROVE  /\ Closure(G) \in SUBSET Games
           /\ G \subseteq Closure(G)
           /\ \A h \in Games : h \in Closure(G) \/ post[h].bundle \cap Closure(G) # {}
                               => post[h].bundle \subseteq Closure(G)
<1>1. Closure(G) \in SUBSET Games /\ G \subseteq Closure(G)
  BY DEF Closure
<1>2. ASSUME NEW h \in Games, h \in Closure(G) \/ post[h].bundle \cap Closure(G) # {},
             NEW x \in post[h].bundle
      PROVE  x \in Closure(G)
  <2>1. x \in Games
    BY DEF TypeInv, PostRow
  <2>2. ASSUME NEW C \in SUBSET Games, G \subseteq C, Bound(C)
        PROVE  x \in C
    <3>1. Closure(G) \subseteq C
      BY <2>2 DEF Closure
    <3>2. h \in C \/ post[h].bundle \cap C # {}
      BY <3>1, <1>2
    <3>3. QED  BY <3>2, <2>2 DEF Bound
  <2>3. QED  BY <2>1, <2>2 DEF Closure
<1>3. QED  BY <1>1, <1>2

-----------------------------------------------------------------------------
(* Types of the rows                                                       *)

\* A post in another state.
LEMMA StateTypes ==
    ASSUME NEW ps \in [Games -> PostRow], NEW g \in Games, NEW x \in PostStates
    PROVE  [ps EXCEPT ![g].state = x] \in [Games -> PostRow] /\ Revoked(ps[g]) \in PostRow
<1>1. ASSUME NEW r \in PostRow, NEW y \in PostStates
      PROVE  [r EXCEPT !.state = y] \in PostRow
  BY DEF PostRow
<1>2. [ps EXCEPT ![g].state = x] = [ps EXCEPT ![g] = [ps[g] EXCEPT !.state = x]]
  OBVIOUS
<1>3. "reapproval" \in PostStates
  BY DEF PostStates
<1>4. QED  BY <1>1, <1>2, <1>3 DEF Revoked

\* What a separation leaves of the rows.
LEMMA SeparationTypes ==
    ASSUME TypeInv, NEW G \in SUBSET Games
    PROVE  /\ SeparatedGames(G) \in [Games -> GameRow]
           /\ SeparatedPosts(G) \in [Games -> PostRow]
           /\ SeparatedFeeds(G) \in [Games -> FeedStates]
           /\ Recounted(G) \in [Games -> 0..2]
           /\ SeparatedJobs(G) \subseteq JobRow
           /\ \A j \in SeparatedJobs(G) : j.left \subseteq j.games
<1>1. ASSUME NEW r \in GameRow
      PROVE  Separated(r) \in GameRow
  <2> DEFINE bound == [r EXCEPT !.tied = FALSE, !.apart = TRUE]
  <2>1. bound \in GameRow
    BY DEF GameRow
  <2>2. Separated(r) = [bound EXCEPT !.rev = @ + 1]
    BY DEF Separated
  <2> HIDE DEF bound
  <2>3. QED  BY <2>1, <2>2 DEF GameRow
<1>2. NoPost \in PostRow
  BY DEF NoPost, Unread, PostRow, PostStates, Results
<1>3. SeparatedGames(G) \in [Games -> GameRow]
  BY <1>1 DEF SeparatedGames, TypeInv
<1>4. SeparatedPosts(G) \in [Games -> PostRow]
  BY <1>2 DEF SeparatedPosts, TypeInv
<1>5. SeparatedFeeds(G) \in [Games -> FeedStates]
  BY DEF SeparatedFeeds, TypeInv, FeedStates
<1>6. Recounted(G) \in [Games -> 0..2]
  BY DEF Recounted, TypeInv
<1>7. ASSUME NEW j \in jobs
      PROVE  /\ [j EXCEPT !.status = "cancelled"] \in JobRow
             /\ [j EXCEPT !.status = "cancelled"].left \subseteq [j EXCEPT !.status = "cancelled"].games
  <2>1. j \in JobRow /\ j.left \subseteq j.games
    BY DEF TypeInv
  <2>2. QED  BY <2>1 DEF JobRow
<1>8. SeparatedJobs(G) \subseteq JobRow /\ \A j \in SeparatedJobs(G) : j.left \subseteq j.games
  <2>1. \A j \in SeparatedJobs(G) : j \in jobs \/ \E k \in jobs : j = [k EXCEPT !.status = "cancelled"]
    BY DEF SeparatedJobs
  <2>2. ASSUME NEW j \in SeparatedJobs(G)
        PROVE  j \in JobRow /\ j.left \subseteq j.games
    <3>1. CASE j \in jobs
      BY <3>1 DEF TypeInv
    <3>2. CASE j \notin jobs
      <4>1. PICK k \in jobs : j = [k EXCEPT !.status = "cancelled"]
        BY <3>2, <2>1
      <4>2. QED  BY <4>1, <1>7
    <3>3. QED  BY <3>1, <3>2
  <2>3. QED  BY <2>2
<1>9. QED  BY <1>3, <1>4, <1>5, <1>6, <1>8

\* What an import leaves of the approvals.
LEMMA InvalidTypes ==
    ASSUME NEW ps \in [Games -> PostRow], NEW fs \in [Games -> FeedStates], NEW g \in Games
    PROVE  /\ InvalidPosts(ps, g) \in [Games -> PostRow]
           /\ InvalidFeeds(ps, fs, g) \in [Games -> FeedStates]
<1>1. ASSUME NEW r \in PostRow
      PROVE  Revoked(r) \in PostRow
  BY DEF Revoked, PostRow, PostStates
<1>2. InvalidPosts(ps, g) \in [Games -> PostRow]
  BY <1>1 DEF InvalidPosts
<1>3. InvalidFeeds(ps, fs, g) \in [Games -> FeedStates]
  BY DEF InvalidFeeds, FeedStates, Unsent
<1>4. QED  BY <1>2, <1>3

\* What a failed job leaves of the posts.
LEMMA CaptureTypes ==
    ASSUME NEW ps \in [Games -> PostRow], NEW j \in JobRow
    PROVE  _capture_partial_post(j, ps) \in [Games -> PostRow]
<1>1. ASSUME NEW r \in PostRow
      PROVE  [r EXCEPT !.state = "incomplete", !.warnings = @ \cup {"partial"}] \in PostRow
  BY DEF PostRow, PostStates
<1>2. QED  BY <1>1 DEF _capture_partial_post

\* What a job makes of a post.
LEMMA DraftTypes ==
    ASSUME NEW r \in PostRow, NEW fact \in Results
    PROVE  Drafted(r, fact) \in PostRow
BY DEF Drafted, PostRow, PostStates

\* What the coordination makes of the posts and their feeds.
LEMMA CoordinationTypes ==
    ASSUME TypeInv, NEW g \in Games
    PROVE  /\ CoordinatedPosts(g, post) \in [Games -> PostRow]
           /\ CoordinatedFeeds(g, post, feed) \in [Games -> FeedStates]
<1> DEFINE group == generation_bundle_games(g)
<1>1. group \in SUBSET Games
  BY GroupTypes
<1>2. ASSUME NEW r \in PostRow, NEW h
      PROVE  [r EXCEPT !.bundle = group,
                       !.state = IF h = Lead(group) /\ @ = "approved" THEN "reapproval" ELSE @] \in PostRow
  <2> HIDE DEF group
  <2>1. QED  BY <1>1 DEF PostRow, PostStates
<1>3. CoordinatedPosts(g, post) \in [Games -> PostRow]
  BY <1>2 DEF CoordinatedPosts, TypeInv
<1>4. feed \in [Games -> FeedStates]
  BY DEF TypeInv
<1>5. ASSUME NEW G
      PROVE  Reconciled(post, feed, G) \in [Games -> FeedStates]
  BY <1>4 DEF Reconciled, FeedStates
<1>6. CoordinatedFeeds(g, post, feed) \in [Games -> FeedStates]
  <2> HIDE DEF group
  <2>1. [feed EXCEPT ![g] = IF @ \in {"published", "none"} THEN @ ELSE "waiting"] \in [Games -> FeedStates]
    BY <1>4 DEF FeedStates, Unsent
  <2>2. [h \in Games |-> IF h \notin group THEN feed[h]
                        ELSE IF h = Lead(group) THEN "open" ELSE "cancelled"] \in [Games -> FeedStates]
    BY <1>4 DEF FeedStates, Unsent
  <2>3. QED  BY <1>4, <1>5, <2>1, <2>2 DEF CoordinatedFeeds, group
<1>7. QED  BY <1>3, <1>6

-----------------------------------------------------------------------------
(* Types of the steps                                                      *)

\* The page of a game changes into a page.
LEMMA PageTypes ==
    ASSUME TypeInv, NEW g \in Games, PageChanges(g)
    PROVE  TypeInv'
<1> USE MatchdayAssumption
<1>1. site' \in [Games -> Page]
  <2>1. site \in [Games -> Page] /\ site[g] \in Page
    BY DEF TypeInv
  <2>2. ASSUME NEW x \in Scores
        PROVE  [site EXCEPT ![g].score = x] \in [Games -> Page]
    BY <2>1 DEF Page, Results
  <2>3. [site EXCEPT ![g].off = ~@] \in [Games -> Page]
    BY <2>1 DEF Page
  <2>4. [site EXCEPT ![g].day = 2] \in [Games -> Page]
    BY <2>1 DEF Page, Days
  <2>5. QED  BY <2>2, <2>3, <2>4 DEF PageChanges
<1>2. used' \in [changes: 0..MaxChanges, commands: 0..MaxCommands, failures: 0..MaxFailures]
  BY DEF PageChanges, Spend, TypeInv
<1>3. QED  BY <1>1, <1>2 DEF PageChanges, TypeInv

\* A command counts.
LEMMA CommandTypes ==
    ASSUME TypeInv, Command
    PROVE  used' \in [changes: 0..MaxChanges, commands: 0..MaxCommands, failures: 0..MaxFailures]
BY MatchdayAssumption DEF Command, Spend, TypeInv

\* The import and the observation keep the rows.
LEMMA SynchroniseTypes ==
    ASSUME TypeInv, NEW g \in Games, Synchronise(g)
    PROVE  TypeInv'
<1>1. ASSUME import_snapshot(g)
      PROVE  TypeInv'
  <2> DEFINE p == _capture_automatic_snapshot(g)
             apart == Moves(g, p)
             rows == IF apart THEN SeparatedGames({g}) ELSE game
             ps == IF apart THEN SeparatedPosts({g}) ELSE post
             fs == IF apart THEN SeparatedFeeds({g}) ELSE feed
  <2>1. p \in Page
    BY DEF _capture_automatic_snapshot, TypeInv
  <2>2. rows \in [Games -> GameRow] /\ ps \in [Games -> PostRow] /\ fs \in [Games -> FeedStates]
    BY SeparationTypes DEF TypeInv
  <2>3. Imported(rows[g], g, p) \in GameRow
    <3> HIDE DEF p, rows
    <3>1. Incoming(g, p) \in Results
      BY <2>1 DEF Incoming, Page, TypeInv, GameRow
    <3>2. rows[g] \in GameRow
      BY <2>2
    <3>3. QED  BY <3>1, <3>2, <2>1 DEF Imported, GameRow, Page
  <2>4. game' \in [Games -> GameRow]
    <3>1. game' = [rows EXCEPT ![g] = Imported(rows[g], g, p)]
      BY <1>1 DEF import_snapshot
    <3> HIDE DEF p, rows
    <3>2. QED  BY <3>1, <2>2, <2>3
  <2>5. post' \in [Games -> PostRow] /\ feed' \in [Games -> FeedStates]
    <3>1. /\ post' = IF Relevant(g, p) THEN InvalidPosts(ps, g) ELSE ps
          /\ feed' = IF Relevant(g, p) THEN InvalidFeeds(ps, fs, g) ELSE fs
      BY <1>1 DEF import_snapshot
    <3> HIDE DEF p, ps, fs
    <3>2. QED  BY <3>1, <2>2, InvalidTypes
  <2>6. jobs' \subseteq JobRow /\ \A j \in jobs' : j.left \subseteq j.games
    BY <1>1, SeparationTypes DEF import_snapshot, TypeInv
  <2>7. sent' \in [Games -> 0..2]
    BY <1>1, SeparationTypes DEF import_snapshot, TypeInv
  <2>8. sync' \in [of: Games, stage: {"idle", "imported"}, page: Page]
    <3>1. NoSnapshot \in [of: Games, stage: {"idle", "imported"}, page: Page]
      BY MatchdayAssumption DEF NoSnapshot, Page, Results, Days
    <3>2. sync' = [of |-> g, stage |-> "imported", page |-> p] \/ sync' = NoSnapshot
      BY <1>1 DEF import_snapshot
    <3> HIDE DEF p
    <3>3. QED  BY <3>1, <3>2, <2>1
  <2>9. UNCHANGED <<site, used, readings>>
    BY <1>1 DEF import_snapshot
  <2>10. QED  BY <2>4, <2>5, <2>6, <2>7, <2>8, <2>9 DEF TypeInv
<1>2. ASSUME _observe_results(g)
      PROVE  TypeInv'
  <2>1. sync.page.score \in Results
    BY DEF TypeInv, Page
  <2>2. ASSUME NEW c \in BOOLEAN
        PROVE  [game EXCEPT ![g].cand = sync.page.score, ![g].confirmed = c] \in [Games -> GameRow]
    <3>1. game \in [Games -> GameRow] /\ game[g] \in GameRow
      BY DEF TypeInv
    <3> DEFINE row == [game[g] EXCEPT !.cand = sync.page.score, !.confirmed = c]
    <3>2. row \in GameRow
      BY <3>1, <2>1 DEF GameRow
    <3>3. [game EXCEPT ![g] = row] \in [Games -> GameRow]
      <4> HIDE DEF row
      <4>1. QED  BY <3>1, <3>2
    <3>4. [game EXCEPT ![g].cand = sync.page.score, ![g].confirmed = c] = [game EXCEPT ![g] = row]
      BY <3>1
    <3>5. QED  BY <3>3, <3>4
  <2>3. ConfirmedBy(game[g], sync.page.score) \in BOOLEAN
    BY DEF ConfirmedBy
  <2>4. game' \in [Games -> GameRow]
    BY <1>2, <2>2, <2>3 DEF _observe_results, TypeInv
  <2>5. readings' \in [Games -> Results]
    BY <1>2, <2>1 DEF _observe_results, TypeInv
  <2>6. sync' \in [of: Games, stage: {"idle", "imported"}, page: Page]
    BY <1>2, MatchdayAssumption DEF _observe_results, NoSnapshot, Page, Results, Days
  <2>7. QED  BY <1>2, <2>4, <2>5, <2>6 DEF _observe_results, TypeInv
<1>3. QED  BY <1>1, <1>2 DEF Synchronise

\* One job becomes another one.
LEMMA BecomesTypes ==
    ASSUME TypeInv, NEW j, NEW k \in JobRow, k.left \subseteq k.games, Becomes(j, k)
    PROVE  jobs' \subseteq JobRow /\ \A i \in jobs' : i.left \subseteq i.games
BY DEF Becomes, TypeInv

\* An ended job is a job.
LEMMA EndedTypes ==
    ASSUME NEW j \in JobRow, NEW status \in {"done", "failed"}
    PROVE  Ended(j, status) \in JobRow /\ Ended(j, status).left \subseteq Ended(j, status).games
<1> DEFINE idle == [j EXCEPT !.left = {}, !.facts = Unread]
<1>1. idle \in JobRow /\ idle.left = {} /\ idle.games \in SUBSET Games
  BY DEF JobRow, Unread, Results
<1>2. Ended(j, status) = [idle EXCEPT !.status = status]
  BY DEF Ended, JobRow
<1> HIDE DEF idle
<1>3. QED  BY <1>1, <1>2 DEF JobRow

\* A new job is one.
LEMMA PlanTypes ==
    ASSUME TypeInv, NEW g \in Games, plan_generation_jobs(g)
    PROVE  TypeInv'
<1> DEFINE group == generation_bundle_games(g)
<1>1. group \in (SUBSET Games) \ {{}}
  <2>1. group \in SUBSET Games /\ group # {}
    BY GroupTypes
  <2> HIDE DEF group
  <2>2. QED  BY <2>1
<1>2. Revisions(group) \in [Games -> Nat]
  BY DEF Revisions, TypeInv, GameRow
<1>3. NewJob(group) \in JobRow /\ NewJob(group).left \subseteq NewJob(group).games
  <2> HIDE DEF group
  <2>1. QED  BY <1>1, <1>2 DEF NewJob, JobRow, Unread, Results
<1>4. jobs' = jobs \cup {NewJob(group)}
  BY DEF plan_generation_jobs
<1> HIDE DEF group
<1>5. QED  BY <1>3, <1>4 DEF plan_generation_jobs, TypeInv

\* The worker's steps on a job keep the rows.
LEMMA GenerateTypes ==
    ASSUME TypeInv, NEW j \in jobs,
           claim_next(j) \/ create_post(j) \/ process_generation_job(j) \/ GenerationFails(j)
    PROVE  TypeInv'
<1>1. /\ j \in JobRow /\ j.left \subseteq j.games /\ post \in [Games -> PostRow]
      /\ feed \in [Games -> FeedStates]
  BY DEF TypeInv
<1>2. /\ Ended(j, "failed") \in JobRow /\ Ended(j, "failed").left \subseteq Ended(j, "failed").games
      /\ Ended(j, "done") \in JobRow /\ Ended(j, "done").left \subseteq Ended(j, "done").games
  BY <1>1, EndedTypes
<1>3. ASSUME claim_next(j)
      PROVE  TypeInv'
  <2>1. post' \in [Games -> PostRow]
    BY <1>1, <1>3, CaptureTypes DEF claim_next
  <2>2. jobs' \subseteq JobRow /\ \A i \in jobs' : i.left \subseteq i.games
    <3>1. Facts(j) \in [Games -> Results]
      BY DEF Facts, TypeInv, GameRow, Results
    <3> DEFINE ready == [j EXCEPT !.status = "running", !.left = j.games]
               begun == [j EXCEPT !.status = "running", !.left = j.games, !.facts = Facts(j)]
    <3>2. ready \in JobRow /\ ready.left = ready.games
      BY <1>1 DEF JobRow
    <3>3. begun = [ready EXCEPT !.facts = Facts(j)]
      OBVIOUS
    <3>4. begun \in JobRow /\ begun.left \subseteq begun.games
      <4> HIDE DEF ready, begun
      <4>1. QED  BY <3>1, <3>2, <3>3 DEF JobRow
    <3>5. Becomes(j, begun) \/ Becomes(j, Ended(j, "failed"))
      BY <1>3 DEF claim_next
    <3> HIDE DEF begun
    <3>6. QED  BY <1>2, <3>4, <3>5, BecomesTypes
  <2>3. QED  BY <1>3, <2>1, <2>2 DEF claim_next, TypeInv
<1>4. ASSUME create_post(j)
      PROVE  TypeInv'
  <2> DEFINE h == NextOf(j)
             rest == [j EXCEPT !.left = @ \ {h}]
  <2>1. h \in j.left /\ h \in Games
    BY <1>1, <1>4, LeadMember DEF create_post, NextOf, JobRow
  <2>2. j.facts[h] \in Results
    BY <1>1, <2>1 DEF JobRow
  <2>3. rest \in JobRow /\ rest.left \subseteq rest.games
    <3> HIDE DEF h
    <3>1. QED  BY <1>1 DEF JobRow
  <2>4. jobs' \subseteq JobRow /\ \A i \in jobs' : i.left \subseteq i.games
    <3>1. Becomes(j, rest)
      BY <1>4 DEF create_post
    <3> HIDE DEF rest
    <3>2. QED  BY <2>3, <3>1, BecomesTypes
  <2>5. Drafted(post[h], j.facts[h]) \in PostRow
    BY <1>1, <2>1, <2>2, DraftTypes
  <2>6. post' \in [Games -> PostRow] /\ feed' \in [Games -> FeedStates]
    <3>1. \/ post' = [post EXCEPT ![h] = Drafted(@, j.facts[h])] /\ feed' = [feed EXCEPT ![h] = "open"]
          \/ UNCHANGED <<post, feed>>
      BY <1>4 DEF create_post
    <3> HIDE DEF h
    <3>2. QED  BY <1>1, <2>1, <2>5, <3>1 DEF FeedStates, Unsent
  <2>7. QED  BY <1>4, <2>4, <2>6 DEF create_post, TypeInv
<1>5. ASSUME process_generation_job(j)
      PROVE  TypeInv'
  <2> DEFINE ps == CoordinatedPosts(LastOf(j), post)
             fs == CoordinatedFeeds(LastOf(j), post, feed)
             lead == AutoLead(j, ps)
             read == Drawn(ps, Contribution(ps, lead))
  <2>1. LastOf(j) \in Games /\ Lead(j.games) \in Games
    <3>1. j.games \in SUBSET Games /\ j.games # {}
      BY <1>1 DEF JobRow
    <3>2. LastOf(j) \in j.games /\ Lead(j.games) \in j.games
      BY <3>1, LastMember, LeadMember
    <3>3. QED  BY <3>1, <3>2
  <2>2. ps \in [Games -> PostRow] /\ fs \in [Games -> FeedStates]
    BY <2>1, CoordinationTypes
  <2>3. lead \in Games
    <3> HIDE DEF ps
    <3>1. QED  BY <2>1, <2>2, ContributionTypes DEF AutoLead
  <2>4. read \in [Games -> Results]
    <3> HIDE DEF ps
    <3>1. QED  BY <2>2 DEF Drawn, PostRow, Results
  <2>5. post' \in [Games -> PostRow] /\ feed' \in [Games -> FeedStates]
    <3>1. \/ /\ post' = [ps EXCEPT ![lead].state = "approved", ![lead].read = read]
             /\ feed' = [fs EXCEPT ![lead] = "scheduled"]
          \/ post' = ps /\ feed' = fs
      BY <1>5 DEF process_generation_job
    <3> HIDE DEF ps, fs, lead, read
    <3>2. ASSUME NEW r \in PostRow
          PROVE  [r EXCEPT !.state = "approved", !.read = read] \in PostRow
      BY <2>4 DEF PostRow, PostStates
    <3>3. [ps EXCEPT ![lead].state = "approved", ![lead].read = read]
            = [ps EXCEPT ![lead] = [ps[lead] EXCEPT !.state = "approved", !.read = read]]
      BY <2>2, <2>3
    <3>4. [ps[lead] EXCEPT !.state = "approved", !.read = read] \in PostRow
      BY <2>2, <2>3, <3>2
    <3> DEFINE row == [ps[lead] EXCEPT !.state = "approved", !.read = read]
    <3>5. [ps EXCEPT ![lead] = row] \in [Games -> PostRow]
      <4> HIDE DEF row
      <4>1. row \in PostRow
        BY <3>4 DEF row
      <4>2. QED  BY <2>2, <4>1
    <3>6. [fs EXCEPT ![lead] = "scheduled"] \in [Games -> FeedStates]
      BY <2>2 DEF FeedStates, Unsent
    <3>7. CASE /\ post' = [ps EXCEPT ![lead].state = "approved", ![lead].read = read]
               /\ feed' = [fs EXCEPT ![lead] = "scheduled"]
      <4>1. post' = [ps EXCEPT ![lead] = row]
        BY <3>3, <3>7
      <4> HIDE DEF row
      <4>2. QED  BY <3>5, <3>6, <3>7, <4>1
    <3>8. CASE post' = ps /\ feed' = fs
      BY <2>2, <3>8
    <3>9. QED  BY <3>1, <3>7, <3>8
  <2>6. jobs' \subseteq JobRow /\ \A i \in jobs' : i.left \subseteq i.games
    BY <1>2, <1>5, BecomesTypes DEF process_generation_job
  <2>7. QED  BY <1>5, <2>5, <2>6 DEF process_generation_job, TypeInv
<1>6. ASSUME GenerationFails(j)
      PROVE  TypeInv'
  <2>1. post' \in [Games -> PostRow]
    BY <1>1, <1>6, CaptureTypes DEF GenerationFails
  <2>2. jobs' \subseteq JobRow /\ \A i \in jobs' : i.left \subseteq i.games
    BY <1>2, <1>6, BecomesTypes DEF GenerationFails
  <2>3. QED  BY <1>6, <2>1, <2>2 DEF GenerationFails, TypeInv
<1>7. QED  BY <1>3, <1>4, <1>5, <1>6

\* So do a failure and a retry.
LEMMA RetryTypes ==
    ASSUME TypeInv, NEW j \in jobs, ProviderFails(j) \/ retry_job(j)
    PROVE  TypeInv'
<1>1. /\ j \in JobRow /\ j.left \subseteq j.games /\ post \in [Games -> PostRow]
      /\ feed \in [Games -> FeedStates]
  BY DEF TypeInv
<1>2. ASSUME ProviderFails(j)
      PROVE  TypeInv'
  <2> DEFINE h == NextOf(j)
             drafted == [post EXCEPT ![h] = Drafted(@, j.facts[h])]
  <2>1. used' \in [changes: 0..MaxChanges, commands: 0..MaxCommands, failures: 0..MaxFailures]
    BY <1>2, MatchdayAssumption DEF ProviderFails, Spend, TypeInv
  <2>2. jobs' \subseteq JobRow /\ \A i \in jobs' : i.left \subseteq i.games
    BY <1>1, <1>2, EndedTypes, BecomesTypes DEF ProviderFails
  <2>3. h \in Games
    BY <1>1, <1>2, LeadMember DEF ProviderFails, NextOf, JobRow
  <2>4. drafted \in [Games -> PostRow]
    <3> HIDE DEF h
    <3>1. j.facts[h] \in Results
      BY <1>1, <2>3 DEF JobRow
    <3>2. Drafted(post[h], j.facts[h]) \in PostRow
      BY <1>1, <2>3, <3>1, DraftTypes
    <3>3. QED  BY <1>1, <3>2
  <2>5. post' \in [Games -> PostRow] /\ feed' \in [Games -> FeedStates]
    <3>1. \/ post' = _capture_partial_post(j, post) /\ UNCHANGED feed
          \/ post' = _capture_partial_post(j, drafted) /\ feed' = [feed EXCEPT ![h] = "none"]
      BY <1>2 DEF ProviderFails
    <3> HIDE DEF h, drafted
    <3>2. QED  BY <1>1, <2>4, <3>1, CaptureTypes DEF FeedStates
  <2>6. QED  BY <1>2, <2>1, <2>2, <2>5 DEF ProviderFails, TypeInv
<1>3. ASSUME retry_job(j)
      PROVE  TypeInv'
  <2>1. /\ [j EXCEPT !.status = "queued"] \in JobRow
        /\ [j EXCEPT !.status = "queued"].left \subseteq [j EXCEPT !.status = "queued"].games
    BY <1>1 DEF JobRow
  <2>2. jobs' \subseteq JobRow /\ \A i \in jobs' : i.left \subseteq i.games
    BY <1>3, <2>1, BecomesTypes DEF retry_job
  <2>3. QED  BY <1>3, <2>2, CommandTypes DEF retry_job, TypeInv
<1>4. QED  BY <1>2, <1>3

\* The commands on games keep the rows.
LEMMA GameCommandTypes ==
    ASSUME TypeInv, NEW g \in Games, CommandOnGame(g)
    PROVE  TypeInv'
<1>1. game \in [Games -> GameRow] /\ post \in [Games -> PostRow] /\ feed \in [Games -> FeedStates]
  BY DEF TypeInv
<1>2. ASSUME NEW s \in Scores, confirm_game_result(g, s)
      PROVE  TypeInv'
  <2> DEFINE row == [game[g] EXCEPT !.score = s, !.confirmed = TRUE]
  <2>1. s \in Results
    BY DEF Results
  <2>2. row \in GameRow
    BY <1>1, <2>1 DEF GameRow
  <2>3. game' = [game EXCEPT ![g] = [row EXCEPT !.cand = s]]
    BY <1>1, <1>2 DEF confirm_game_result
  <2>4. game' \in [Games -> GameRow]
    <3> HIDE DEF row
    <3>1. [row EXCEPT !.cand = s] \in GameRow
      BY <2>1, <2>2 DEF GameRow
    <3>2. QED  BY <1>1, <2>3, <3>1
  <2>5. ASSUME NEW r \in PostRow
        PROVE  Warned(r) \in PostRow
    BY DEF Warned, PostRow, PostStates
  <2>6. post' \in [Games -> PostRow]
    BY <1>1, <1>2, <2>5 DEF confirm_game_result
  <2>7. feed' \in [Games -> FeedStates]
    BY <1>1, <1>2 DEF confirm_game_result, FeedStates, Unsent
  <2>8. readings' \in [Games -> Results]
    BY <1>2, <2>1 DEF confirm_game_result, TypeInv
  <2>9. QED  BY <1>2, <2>4, <2>6, <2>7, <2>8, CommandTypes DEF confirm_game_result, TypeInv
<1>3. ASSUME update_game_details(g)
      PROVE  TypeInv'
  <2>1. Revoked(post[g]) \in PostRow
    BY <1>1, StateTypes DEF PostStates
  <2>2. post' \in [Games -> PostRow]
    BY <1>1, <1>3, <2>1 DEF update_game_details
  <2>3. feed' \in [Games -> FeedStates]
    BY <1>1, <1>3 DEF update_game_details, FeedStates, Unsent
  <2>4. QED  BY <1>3, <2>2, <2>3, CommandTypes DEF update_game_details, TypeInv
<1>4. ASSUME delete_game(g)
      PROVE  TypeInv'
  <2>1. game' \in [Games -> GameRow]
    BY <1>1, <1>4 DEF delete_game, GameRow
  <2>2. post' \in [Games -> PostRow]
    <3> DEFINE x == IF post[g].state \in {"none", "published"} THEN post[g].state ELSE "cancelled"
    <3>1. x \in PostStates
      BY <1>1 DEF PostRow, PostStates
    <3>2. post' = [post EXCEPT ![g].state = x]
      BY <1>4 DEF delete_game
    <3> HIDE DEF x
    <3>3. QED  BY <1>1, <3>1, <3>2, StateTypes
  <2>3. feed' \in [Games -> FeedStates]
    BY <1>1, <1>4 DEF delete_game, FeedStates
  <2>4. QED  BY <1>4, <2>1, <2>2, <2>3, CommandTypes DEF delete_game, TypeInv
<1>5. ASSUME restore_provider_game(g)
      PROVE  TypeInv'
  <2>1. game' \in [Games -> GameRow]
    BY <1>1, <1>5 DEF restore_provider_game, GameRow
  <2>2. QED  BY <1>5, <2>1 DEF restore_provider_game, TypeInv
<1>6. QED  BY <1>2, <1>3, <1>4, <1>5 DEF CommandOnGame

\* So do those on groups of games.
LEMMA GroupCommandTypes ==
    ASSUME TypeInv, NEW G \in SUBSET Games, connect_games(G) \/ separate_matchday_posts(G)
    PROVE  TypeInv'
<1>1. ASSUME connect_games(G)
      PROVE  TypeInv'
  <2>1. ASSUME NEW r \in GameRow
        PROVE  [r EXCEPT !.tied = TRUE, !.apart = FALSE] \in GameRow
    BY DEF GameRow
  <2>2. game' \in [Games -> GameRow]
    BY <1>1, <2>1 DEF connect_games, TypeInv
  <2>3. QED  BY <1>1, <2>2, CommandTypes DEF connect_games, TypeInv
<1>2. ASSUME separate_matchday_posts(G)
      PROVE  TypeInv'
  BY <1>2, SeparationTypes, CommandTypes DEF separate_matchday_posts, TypeInv
<1>3. QED  BY <1>1, <1>2

\* The commands on posts and the transfer keep the rows.
LEMMA PostCommandTypes ==
    ASSUME TypeInv, NEW g \in Games, CommandOnPost(g) \/ Publish(g)
    PROVE  TypeInv'
<1>1. post \in [Games -> PostRow] /\ feed \in [Games -> FeedStates]
  BY DEF TypeInv
<1>2. ASSUME approve_matchday_bundle(g)
      PROVE  TypeInv'
  <2>1. ASSUME NEW G
        PROVE  Now(G) \in [Games -> Results]
    BY DEF Now, TypeInv, GameRow, Results
  <2>2. ASSUME NEW r \in PostRow, NEW G
        PROVE  [r EXCEPT !.state = "approved", !.read = Now(G)] \in PostRow
    BY <2>1 DEF PostRow, PostStates
  <2>3. post' \in [Games -> PostRow]
    BY <1>1, <1>2, <2>2 DEF approve_matchday_bundle
  <2>4. Reconciled(post, feed, Shown(g)) \in [Games -> FeedStates]
    BY <1>1 DEF Reconciled, FeedStates
  <2>5. feed' \in [Games -> FeedStates]
    BY <1>2, <2>4 DEF approve_matchday_bundle, FeedStates, Unsent
  <2>6. QED  BY <1>2, <2>3, <2>5 DEF approve_matchday_bundle, TypeInv
<1>3. ASSUME reorder_matchday_carousel(g)
      PROVE  TypeInv'
  <2>1. post' \in [Games -> PostRow]
    <3> DEFINE x == IF post[g].state = "approved" THEN "reapproval" ELSE post[g].state
    <3>1. x \in PostStates
      BY <1>1 DEF PostRow, PostStates
    <3>2. post' = [post EXCEPT ![g].state = x]
      BY <1>3 DEF reorder_matchday_carousel
    <3> HIDE DEF x
    <3>3. QED  BY <1>1, <3>1, <3>2, StateTypes
  <2>2. feed' \in [Games -> FeedStates]
    BY <1>1, <1>3 DEF reorder_matchday_carousel, FeedStates, Unsent
  <2>3. QED  BY <1>3, <2>1, <2>2, CommandTypes DEF reorder_matchday_carousel, TypeInv
<1>4. ASSUME delete_unpublished_post(g)
      PROVE  TypeInv'
  <2>1. NoPost \in PostRow
    BY DEF NoPost, Unread, PostRow, PostStates, Results
  <2>2. post' \in [Games -> PostRow]
    BY <1>1, <1>4, <2>1 DEF delete_unpublished_post
  <2>3. feed' \in [Games -> FeedStates]
    BY <1>1, <1>4 DEF delete_unpublished_post, FeedStates
  <2>4. jobs' \subseteq jobs
    BY <1>4 DEF delete_unpublished_post
  <2>5. QED  BY <1>4, <2>2, <2>3, <2>4, CommandTypes DEF delete_unpublished_post, TypeInv
<1>5. ASSUME Publish(g)
      PROVE  TypeInv'
  <2>1. post' \in [Games -> PostRow]
    BY <1>1, <1>5, StateTypes DEF Publish, PostStates
  <2>2. feed' \in [Games -> FeedStates]
    BY <1>1, <1>5 DEF Publish, FeedStates
  <2>3. sent' \in [Games -> 0..2]
    BY <1>5 DEF Publish, TypeInv
  <2>4. QED  BY <1>5, <2>1, <2>2, <2>3 DEF Publish, TypeInv
<1>6. QED  BY <1>2, <1>3, <1>4, <1>5 DEF CommandOnPost

\* The first rows.
LEMMA TypesInit ==
    ASSUME Init
    PROVE  TypeInv
<1> USE MatchdayAssumption
<1>1. site \in [Games -> Page] /\ sync \in [of: Games, stage: {"idle", "imported"}, page: Page]
  BY DEF Init, NoSnapshot, Page, Results, Days
<1>2. NewGame \in GameRow /\ NoPost \in PostRow
  BY DEF NewGame, GameRow, NoPost, Unread, PostRow, PostStates, Results, Days
<1>3. QED  BY <1>1, <1>2 DEF Init, TypeInv, FeedStates, Unread, Results

\* Every step keeps the rows.
LEMMA TypesNext ==
    ASSUME TypeInv, [Next]_vars
    PROVE  TypeInv'
<1>1. CASE UNCHANGED vars
  BY <1>1 DEF vars, TypeInv
<1>2. CASE Next
  BY <1>2, PageTypes, SynchroniseTypes, PlanTypes, GenerateTypes, RetryTypes, GameCommandTypes,
     GroupCommandTypes, PostCommandTypes DEF Next, Generate
<1>3. QED  BY <1>1, <1>2

\* The rows of the proofs are those of the runs.
LEMMA TypesImply ==
    ASSUME TypeInv
    PROVE  TypeOK
BY DEF TypeInv, TypeOK, GameRow, PostRow, PostStates, FeedStates, JobRow

(* Each row of the games, their posts, publications and jobs holds values its columns
   admit, whatever FUSSBALL.DE shows, users command and jobs fail at. *)
THEOREM MatchdayTypes == Spec => []TypeOK
<1>1. Init => TypeInv
  BY TypesInit
<1>2. TypeInv /\ [Next]_vars => TypeInv'
  BY TypesNext
<1>3. TypeInv => TypeOK
  BY TypesImply
<1>4. QED  BY <1>1, <1>2, <1>3, PTL DEF Spec

-----------------------------------------------------------------------------
(* Readings                                                                *)

\* A separation leaves what is known of the result.
LEMMA SeparationKeepsResults ==
    ASSUME TypeInv, NEW G \in SUBSET Games, NEW g \in Games
    PROVE  /\ SeparatedGames(G)[g].cand = game[g].cand
           /\ SeparatedGames(G)[g].score = game[g].score
           /\ SeparatedGames(G)[g].confirmed = game[g].confirmed
<1>1. ASSUME NEW r \in GameRow
      PROVE  /\ Separated(r).cand = r.cand /\ Separated(r).score = r.score
             /\ Separated(r).confirmed = r.confirmed
  <2> DEFINE bound == [r EXCEPT !.tied = FALSE, !.apart = TRUE]
  <2>1. bound.cand = r.cand /\ bound.score = r.score /\ bound.confirmed = r.confirmed
    BY DEF GameRow
  <2>2. bound \in GameRow
    BY DEF GameRow
  <2>3. Separated(r) = [bound EXCEPT !.rev = @ + 1]
    BY DEF Separated
  <2> HIDE DEF bound
  <2>4. QED  BY <2>1, <2>2, <2>3 DEF GameRow
<1>2. game[g] \in GameRow
  BY DEF TypeInv
<1>3. SeparatedGames(G)[g] \in {game[g], Separated(game[g])}
  BY DEF SeparatedGames
<1>4. QED  BY <1>1, <1>2, <1>3

\* What a step does that leaves the results, the readings and the snapshot alone.
KeepsReadings ==
    /\ UNCHANGED <<sync, readings>>
    /\ \A g \in Games : /\ game'[g].cand = game[g].cand /\ game'[g].score = game[g].score
                        /\ game'[g].confirmed = game[g].confirmed

\* The snapshot comes into the row with its result.
LEMMA ImportReads ==
    ASSUME TypeInv, ReadingInv, NEW g \in Games, import_snapshot(g)
    PROVE  ReadingInv'
<1> DEFINE p == _capture_automatic_snapshot(g)
           rows == IF Moves(g, p) THEN SeparatedGames({g}) ELSE game
<1>1. p \in Page
  BY DEF _capture_automatic_snapshot, TypeInv
<1>2. rows \in [Games -> GameRow] /\ \A h \in Games : rows[h].cand = game[h].cand
  BY SeparationTypes, SeparationKeepsResults DEF TypeInv
<1>3. game' = [rows EXCEPT ![g] = Imported(rows[g], g, p)]
  BY DEF import_snapshot
<1>4. /\ Imported(rows[g], g, p).cand = rows[g].cand
      /\ p.score # NoScore => Imported(rows[g], g, p).score = p.score
  <2> HIDE DEF p, rows
  <2>1. rows[g] \in GameRow
    BY <1>2
  <2>2. QED  BY <2>1 DEF Imported, Incoming, GameRow
<1>5. readings' = readings
  BY DEF import_snapshot
<1>6. sync' = [of |-> g, stage |-> "imported", page |-> p] \/ sync' = NoSnapshot
  BY DEF import_snapshot
<1> HIDE DEF p, rows
<1>7. \A h \in Games : game'[h].cand = readings'[h]
  BY <1>2, <1>3, <1>4, <1>5 DEF ReadingInv
<1>8. CASE sync' = [of |-> g, stage |-> "imported", page |-> p]
  <2>1. p.score # NoScore => game'[g].score = p.score
    BY <1>2, <1>3, <1>4
  <2>2. sync'.of = g /\ sync'.page = p
    BY <1>8
  <2>3. QED  BY <1>7, <2>1, <2>2 DEF ReadingInv
<1>9. CASE sync' = NoSnapshot
  <2>1. sync'.stage # "imported"
    BY <1>9 DEF NoSnapshot
  <2>2. QED  BY <1>7, <2>1 DEF ReadingInv
<1>10. QED  BY <1>6, <1>8, <1>9

\* The observation counts what it reads.
LEMMA ObservationReads ==
    ASSUME TypeInv, ReadingInv, NEW g \in Games, _observe_results(g)
    PROVE  ReadingInv'
<1>1. sync'.stage # "imported"
  BY DEF _observe_results, NoSnapshot
<1>2. \A h \in Games : game'[h].cand = readings'[h]
  <2>1. CASE UNCHANGED <<game, readings>>
    BY <2>1 DEF ReadingInv
  <2>2. CASE ~UNCHANGED <<game, readings>>
    <3> DEFINE s == sync.page.score
               c == ConfirmedBy(game[g], s)
    <3>1. /\ game' = [game EXCEPT ![g].cand = s, ![g].confirmed = c]
          /\ readings' = [readings EXCEPT ![g] = s]
      BY <2>2 DEF _observe_results
    <3>2. game \in [Games -> GameRow] /\ readings \in [Games -> Results]
      BY DEF TypeInv
    <3> HIDE DEF s, c
    <3>3. ASSUME NEW h \in Games
          PROVE  game'[h].cand = IF h = g THEN s ELSE game[h].cand
      BY <3>1, <3>2 DEF GameRow
    <3>4. ASSUME NEW h \in Games
          PROVE  readings'[h] = IF h = g THEN s ELSE readings[h]
      BY <3>1, <3>2
    <3>5. QED  BY <3>3, <3>4 DEF ReadingInv
  <2>3. QED  BY <2>1, <2>2
<1>3. QED  BY <1>1, <1>2 DEF ReadingInv

\* A user's result is the last one counted, and it is confirmed.
LEMMA ConfirmationReads ==
    ASSUME TypeInv, ReadingInv, NEW g \in Games, NEW s \in Scores, confirm_game_result(g, s)
    PROVE  ReadingInv'
<1>1. game \in [Games -> GameRow] /\ readings \in [Games -> Results]
  BY DEF TypeInv
<1> DEFINE row == [game[g] EXCEPT !.score = s, !.confirmed = TRUE]
<1>2. row \in [score: {s}, off: BOOLEAN, day: Days, confirmed: {TRUE}, hidden: BOOLEAN,
               tied: BOOLEAN, apart: BOOLEAN, rev: Nat, cand: Results]
  BY <1>1 DEF GameRow
<1>3. game' = [game EXCEPT ![g] = [row EXCEPT !.cand = s]]
  BY <1>1 DEF confirm_game_result
<1> HIDE DEF row
<1>4. game'[g].cand = s /\ game'[g].confirmed = TRUE
  BY <1>1, <1>2, <1>3
<1>5. \A h \in Games : h # g => game'[h] = game[h]
  BY <1>1, <1>3
<1>6. readings' = [readings EXCEPT ![g] = s] /\ sync' = sync
  BY DEF confirm_game_result
<1>7. \A h \in Games : game'[h].cand = readings'[h]
  BY <1>1, <1>4, <1>5, <1>6 DEF ReadingInv
<1>8. sync.of \in Games
  BY DEF TypeInv
<1>9. QED  BY <1>4, <1>5, <1>6, <1>7, <1>8 DEF ReadingInv

\* The other commands leave results and readings alone.
LEMMA OtherStepsKeepReadings ==
    ASSUME TypeInv, NEW g \in Games, NEW G \in SUBSET Games,
           \/ delete_game(g) \/ restore_provider_game(g)
           \/ connect_games(G) \/ separate_matchday_posts(G)
    PROVE  KeepsReadings
<1>1. game \in [Games -> GameRow]
  BY DEF TypeInv
<1>2. CASE delete_game(g) \/ restore_provider_game(g)
  <2>1. PICK b \in BOOLEAN : game' = [game EXCEPT ![g].hidden = b]
    BY <1>2 DEF delete_game, restore_provider_game
  <2>2. UNCHANGED <<sync, readings>>
    BY <1>2 DEF delete_game, restore_provider_game
  <2>3. QED  BY <1>1, <2>1, <2>2 DEF KeepsReadings, GameRow
<1>3. CASE connect_games(G)
  <2>1. game' = [h \in Games |-> IF h \in G THEN [game[h] EXCEPT !.tied = TRUE, !.apart = FALSE]
                                ELSE game[h]]
    BY <1>3 DEF connect_games
  <2>2. ASSUME NEW r \in GameRow
        PROVE  /\ [r EXCEPT !.tied = TRUE, !.apart = FALSE].cand = r.cand
               /\ [r EXCEPT !.tied = TRUE, !.apart = FALSE].score = r.score
               /\ [r EXCEPT !.tied = TRUE, !.apart = FALSE].confirmed = r.confirmed
    BY DEF GameRow
  <2>3. \A h \in Games : /\ game'[h].cand = game[h].cand /\ game'[h].score = game[h].score
                         /\ game'[h].confirmed = game[h].confirmed
    BY <1>1, <2>1, <2>2
  <2>4. QED  BY <1>3, <2>3 DEF connect_games, KeepsReadings
<1>4. CASE separate_matchday_posts(G)
  BY <1>4, SeparationKeepsResults DEF separate_matchday_posts, KeepsReadings
<1>5. QED  BY <1>2, <1>3, <1>4

\* Every step keeps what is counted and what the snapshot brought.
LEMMA ReadingsNext ==
    ASSUME TypeInv, ReadingInv, [Next]_vars
    PROVE  ReadingInv'
<1>1. ASSUME UNCHANGED <<game, sync, readings>>
      PROVE  ReadingInv'
  BY <1>1 DEF ReadingInv
<1>2. ASSUME KeepsReadings
      PROVE  ReadingInv'
  <2>1. sync.of \in Games
    BY DEF TypeInv
  <2>2. QED  BY <1>2, <2>1 DEF KeepsReadings, ReadingInv
<1>3. CASE UNCHANGED vars
  BY <1>1, <1>3 DEF vars
<1>4. ASSUME NEW g \in Games, PageChanges(g) \/ plan_generation_jobs(g) \/ CommandOnPost(g) \/ Publish(g)
      PROVE  ReadingInv'
  BY <1>1, <1>4 DEF PageChanges, plan_generation_jobs, CommandOnPost, approve_matchday_bundle,
     reorder_matchday_carousel, delete_unpublished_post, Publish
<1>5. ASSUME NEW g \in Games, Synchronise(g)
      PROVE  ReadingInv'
  BY <1>5, ImportReads, ObservationReads DEF Synchronise
<1>6. ASSUME NEW g \in Games, CommandOnGame(g)
      PROVE  ReadingInv'
  <2>1. CASE update_game_details(g)
    BY <1>1, <2>1 DEF update_game_details
  <2>2. QED  BY <1>2, <1>6, <2>1, ConfirmationReads, OtherStepsKeepReadings DEF CommandOnGame
<1>7. ASSUME NEW G \in SUBSET Games, connect_games(G) \/ separate_matchday_posts(G)
      PROVE  ReadingInv'
  BY <1>2, <1>7, OtherStepsKeepReadings, MatchdayAssumption
<1>8. ASSUME NEW j \in jobs,
             \/ claim_next(j) \/ create_post(j) \/ process_generation_job(j) \/ GenerationFails(j)
             \/ ProviderFails(j) \/ retry_job(j)
      PROVE  ReadingInv'
  BY <1>1, <1>8 DEF claim_next, create_post, process_generation_job, GenerationFails, ProviderFails,
     retry_job
<1>9. QED  BY <1>3, <1>4, <1>5, <1>6, <1>7, <1>8 DEF Next, Generate

\* A confirmation by the worker is one of two equal readings.
LEMMA ConfirmsTwoReadings ==
    ASSUME TypeInv, ReadingInv, NEW g \in Games,
           _observe_results(g), game'[g].confirmed, ~game[g].confirmed
    PROVE  sync.page.score = game[g].score /\ readings[g] = game[g].score
<1> DEFINE s == sync.page.score
<1>1. game \in [Games -> GameRow]
  BY DEF TypeInv
<1>2. ~(game[g].hidden \/ s = NoScore) /\ game' = [game EXCEPT ![g].cand = s,
                                                              ![g].confirmed = ConfirmedBy(game[g], s)]
  BY DEF _observe_results
<1>3. ConfirmedBy(game[g], s)
  <2> DEFINE c == ConfirmedBy(game[g], s)
  <2>1. game'[g].confirmed = c
    <3>1. game' = [game EXCEPT ![g].cand = s, ![g].confirmed = c]
      BY <1>2
    <3> HIDE DEF s, c
    <3>2. QED  BY <1>1, <3>1 DEF GameRow
  <2>2. QED  BY <2>1
<1>4. game[g].cand = s
  BY <1>3 DEF ConfirmedBy, Counted
<1>5. sync.stage = "imported" /\ sync.of = g
  BY DEF _observe_results
<1>6. QED  BY <1>2, <1>4, <1>5 DEF ReadingInv

(* The worker confirms a result by itself only if the snapshot shows the result the row
   has and the reading counted before it, or the user's confirmation, was of the same. *)
THEOREM WorkerConfirmsReadTwice == Spec => TwoReadings
<1>1. Init => TypeInv /\ ReadingInv
  BY TypesInit DEF Init, ReadingInv, NewGame, NoSnapshot, Unread
<1>2. TypeInv /\ ReadingInv /\ [Next]_vars => TypeInv' /\ ReadingInv'
  BY TypesNext, ReadingsNext
<1>3. TypeInv /\ ReadingInv /\ [Next]_vars =>
        [\A g \in Games : _observe_results(g) /\ game'[g].confirmed /\ ~game[g].confirmed
                            => sync.page.score = game[g].score /\ readings[g] = game[g].score]_vars
  BY ConfirmsTwoReadings
<1>4. QED  BY <1>1, <1>2, <1>3, PTL DEF Spec, TwoReadings

-----------------------------------------------------------------------------
(* Steps that leave the bundles alone                                      *)

KeepsTies == \A g \in Games : game'[g].tied = game[g].tied /\ game'[g].apart = game[g].apart
KeepsBundles == \A g \in Games : post'[g].bundle = post[g].bundle
KeepsScores == \A g \in Games : game'[g].score = game[g].score

\* No game is approved anew, and no result of an approved one changes.
KeepsApprovals ==
    \A g \in Games : post'[g].state = "approved" => post[g].state = "approved" /\ post'[g].read = post[g].read

\* No post goes, no feed is approved, and what is out stays out.
KeepsFeeds ==
    /\ sent' = sent
    /\ \A g \in Games : /\ post'[g].state = "none" => post[g].state = "none" /\ feed'[g] = feed[g]
                        /\ feed'[g] = "scheduled" => feed[g] = "scheduled"
                        /\ feed[g] = "published" => feed'[g] = "published"

Ordinary == KeepsTies /\ KeepsBundles /\ KeepsScores /\ KeepsApprovals /\ KeepsFeeds

\* A failed job leaves the bundles and approvals of the posts.
LEMMA CaptureKeeps ==
    ASSUME NEW ps \in [Games -> PostRow], NEW j, NEW h \in Games
    PROVE  /\ _capture_partial_post(j, ps)[h].bundle = ps[h].bundle
           /\ _capture_partial_post(j, ps)[h].state = "approved" =>
                  _capture_partial_post(j, ps)[h] = ps[h]
           /\ _capture_partial_post(j, ps)[h].state = "none" => ps[h].state = "none"
<1>1. ASSUME NEW r \in PostRow
      PROVE  /\ [r EXCEPT !.state = "incomplete", !.warnings = @ \cup {"partial"}].bundle = r.bundle
             /\ [r EXCEPT !.state = "incomplete", !.warnings = @ \cup {"partial"}].state = "incomplete"
  BY DEF PostRow
<1>2. QED  BY <1>1 DEF _capture_partial_post

\* A job's draft leaves the bundle, and is not approved.
LEMMA DraftKeeps ==
    ASSUME NEW r \in PostRow, NEW fact
    PROVE  /\ Drafted(r, fact).bundle = r.bundle
           /\ Drafted(r, fact).state \in {"pending", "incomplete"}
<1> DEFINE warnings == r.warnings \ {"partial"}
           state == IF warnings = {} THEN "pending" ELSE "incomplete"
           draft == [r EXCEPT !.state = state, !.warnings = warnings]
<1>1. draft.bundle = r.bundle /\ draft.state = state
  BY DEF PostRow
<1>2. Drafted(r, fact) = [draft EXCEPT !.drawn = fact]
  BY DEF Drafted
<1>3. draft \in [state : {"pending", "incomplete"}, bundle : SUBSET Games, drawn : Results,
                 read : [Games -> Results], warnings : SUBSET {"partial", "result"}]
  BY DEF PostRow
<1> HIDE DEF draft
<1>4. QED  BY <1>1, <1>2, <1>3

\* Steps on the page, the readings and the jobs' queue.
LEMMA QueueStepsAreOrdinary ==
    ASSUME TypeInv, NEW g \in Games, NEW j,
           \/ PageChanges(g) \/ _observe_results(g) \/ plan_generation_jobs(g)
           \/ restore_provider_game(g) \/ retry_job(j)
    PROVE  Ordinary
<1>1. UNCHANGED <<post, feed, sent>>
  BY DEF PageChanges, _observe_results, plan_generation_jobs, restore_provider_game, retry_job
<1>2. KeepsBundles /\ KeepsApprovals /\ KeepsFeeds
  BY <1>1 DEF KeepsBundles, KeepsApprovals, KeepsFeeds
<1>3. game \in [Games -> GameRow]
  BY DEF TypeInv
<1>4. KeepsTies /\ KeepsScores
  <2>1. CASE game' = game
    BY <2>1 DEF KeepsTies, KeepsScores
  <2>2. CASE restore_provider_game(g)
    BY <1>3, <2>2 DEF restore_provider_game, GameRow, KeepsTies, KeepsScores
  <2>3. CASE _observe_results(g) /\ game' # game
    <3> DEFINE s == sync.page.score
               c == ConfirmedBy(game[g], s)
    <3>1. game' = [game EXCEPT ![g].cand = s, ![g].confirmed = c]
      BY <2>3 DEF _observe_results
    <3> HIDE DEF s, c
    <3>2. QED  BY <1>3, <3>1 DEF GameRow, KeepsTies, KeepsScores
  <2>4. QED  BY <2>1, <2>2, <2>3 DEF PageChanges, plan_generation_jobs, retry_job
<1>5. QED  BY <1>2, <1>4 DEF Ordinary

\* The worker's steps on a job, but for the coordination.
LEMMA JobStepsAreOrdinary ==
    ASSUME TypeInv, BundleInv, NEW j \in jobs,
           claim_next(j) \/ create_post(j) \/ GenerationFails(j) \/ ProviderFails(j)
    PROVE  Ordinary
<1>1. /\ j \in JobRow /\ j.left \subseteq j.games /\ post \in [Games -> PostRow]
      /\ feed \in [Games -> FeedStates]
  BY DEF TypeInv
<1>2. game' = game /\ sent' = sent
  BY DEF claim_next, create_post, GenerationFails, ProviderFails
<1>3. KeepsTies /\ KeepsScores
  BY <1>2 DEF KeepsTies, KeepsScores
<1>4. ASSUME post' = _capture_partial_post(j, post), feed' = feed
      PROVE  Ordinary
  BY <1>1, <1>2, <1>3, <1>4, CaptureKeeps DEF Ordinary, KeepsBundles, KeepsApprovals, KeepsFeeds
<1>5. ASSUME UNCHANGED <<post, feed>>
      PROVE  Ordinary
  BY <1>2, <1>3, <1>5 DEF Ordinary, KeepsBundles, KeepsApprovals, KeepsFeeds
<1> DEFINE h == NextOf(j)
           drafted == [post EXCEPT ![h] = Drafted(@, j.facts[h])]
<1>6. ASSUME j.left # {}, Fresh(h), ~Refused(h)
      PROVE  /\ h \in Games /\ feed[h] # "published" /\ drafted \in [Games -> PostRow]
             /\ \A i \in Games : drafted[i].bundle = post[i].bundle
             /\ drafted[h].state \in {"pending", "incomplete"}
             /\ \A i \in Games : i # h => drafted[i] = post[i]
  <2>1. h \in Games
    BY <1>1, <1>6, LeadMember DEF NextOf, JobRow
  <2>2. feed[h] # "published"
    BY <1>6, <2>1 DEF Fresh, Refused, BundleInv, BundlesFit
  <2>3. j.facts[h] \in Results
    BY <1>1, <2>1 DEF JobRow
  <2>4. Drafted(post[h], j.facts[h]) \in PostRow
    BY <1>1, <2>1, <2>3, DraftTypes
  <2>5. /\ Drafted(post[h], j.facts[h]).bundle = post[h].bundle
        /\ Drafted(post[h], j.facts[h]).state \in {"pending", "incomplete"}
    BY <1>1, <2>1, DraftKeeps
  <2> HIDE DEF h
  <2>6. QED  BY <1>1, <2>1, <2>2, <2>4, <2>5
<1>7. ASSUME create_post(j)
      PROVE  Ordinary
  <2>1. CASE Fresh(h)
    <3>1. post' = drafted /\ feed' = [feed EXCEPT ![h] = "open"]
      BY <1>7, <2>1 DEF create_post
    <3>2. j.left # {} /\ ~Refused(h)
      BY <1>7 DEF create_post
    <3> HIDE DEF h, drafted
    <3>3. KeepsBundles /\ KeepsApprovals /\ KeepsFeeds
      BY <1>1, <1>2, <1>6, <2>1, <3>1, <3>2 DEF KeepsBundles, KeepsApprovals, KeepsFeeds
    <3>4. QED  BY <1>3, <3>3 DEF Ordinary
  <2>2. CASE ~Fresh(h)
    BY <1>5, <1>7, <2>2 DEF create_post
  <2>3. QED  BY <2>1, <2>2
<1>8. ASSUME ProviderFails(j)
      PROVE  Ordinary
  <2>1. CASE post' = _capture_partial_post(j, post) /\ UNCHANGED feed
    BY <1>4, <2>1
  <2>2. CASE ~(post' = _capture_partial_post(j, post) /\ UNCHANGED feed)
    <3>1. /\ Fresh(h) /\ ~Refused(h) /\ StillCaptured(j) /\ j.left # {}
          /\ post' = _capture_partial_post(j, drafted) /\ feed' = [feed EXCEPT ![h] = "none"]
      BY <1>8, <2>2 DEF ProviderFails
    <3> HIDE DEF h, drafted
    <3>2. \A i \in Games : /\ post'[i].bundle = drafted[i].bundle
                           /\ post'[i].state = "approved" => post'[i] = drafted[i]
                           /\ post'[i].state = "none" => drafted[i].state = "none"
      BY <1>6, <3>1, CaptureKeeps
    <3>3. KeepsBundles /\ KeepsApprovals /\ KeepsFeeds
      BY <1>1, <1>2, <1>6, <3>1, <3>2 DEF KeepsBundles, KeepsApprovals, KeepsFeeds
    <3>4. QED  BY <1>3, <3>3 DEF Ordinary
  <2>3. QED  BY <2>1, <2>2
<1>9. QED  BY <1>4, <1>5, <1>7, <1>8 DEF claim_next, GenerationFails

\* The commands on a game or its post that do not end a contribution.
LEMMA CommandsAreOrdinary ==
    ASSUME TypeInv, BundleInv, NEW g \in Games,
           update_game_details(g) \/ delete_game(g) \/ reorder_matchday_carousel(g)
    PROVE  Ordinary
<1>1. game \in [Games -> GameRow] /\ post \in [Games -> PostRow] /\ feed \in [Games -> FeedStates]
  BY DEF TypeInv
<1>2. ASSUME NEW x \in PostStates, post' = [post EXCEPT ![g].state = x],
             x = "approved" => post[g].state = "approved"
      PROVE  KeepsBundles /\ KeepsApprovals
  BY <1>1, <1>2 DEF KeepsBundles, KeepsApprovals, PostRow
<1>3. CASE update_game_details(g)
  <2>1. CASE post[g].state \notin {"none", "published", "cancelled"}
    <3>1. post' = [post EXCEPT ![g].state = "reapproval"]
      BY <1>1, <1>3, <2>1 DEF update_game_details, Revoked
    <3>2. KeepsBundles /\ KeepsApprovals
      BY <1>2, <3>1 DEF PostStates
    <3>3. KeepsFeeds
      BY <1>1, <1>3, <3>1, <2>1 DEF update_game_details, KeepsFeeds, PostRow
    <3>4. QED  BY <1>3, <3>2, <3>3 DEF update_game_details, Ordinary, KeepsTies, KeepsScores
  <2>2. CASE post[g].state \in {"none", "published", "cancelled"}
    <3>1. UNCHANGED <<game, post, feed, sent>>
      BY <1>3, <2>2 DEF update_game_details
    <3>2. QED  BY <3>1 DEF Ordinary, KeepsTies, KeepsScores, KeepsBundles, KeepsApprovals, KeepsFeeds
  <2>3. QED  BY <2>1, <2>2
<1>4. CASE delete_game(g)
  <2> DEFINE x == IF post[g].state \in {"none", "published"} THEN post[g].state ELSE "cancelled"
  <2>1. x \in PostStates /\ (x = "approved" => post[g].state = "approved")
        /\ (x = "none" => post[g].state = "none")
    BY <1>1 DEF PostRow, PostStates
  <2>2. post' = [post EXCEPT ![g].state = x]
    BY <1>4 DEF delete_game
  <2>3. KeepsTies /\ KeepsScores
    BY <1>1, <1>4 DEF delete_game, KeepsTies, KeepsScores, GameRow
  <2> HIDE DEF x
  <2>4. KeepsBundles /\ KeepsApprovals
    BY <1>2, <2>1, <2>2
  <2>5. KeepsFeeds
    <3>1. post'[g].state = x /\ \A h \in Games : h # g => post'[h] = post[h]
      BY <1>1, <2>2 DEF PostRow
    <3>2. feed' = [feed EXCEPT ![g] = IF @ \in {"none", "published"} THEN @ ELSE "cancelled"]
      BY <1>4 DEF delete_game
    <3>3. QED  BY <1>1, <1>4, <2>1, <3>1, <3>2 DEF delete_game, KeepsFeeds, BundleInv, BundlesFit
  <2>6. QED  BY <2>3, <2>4, <2>5 DEF Ordinary
<1>5. CASE reorder_matchday_carousel(g)
  <2> DEFINE x == IF post[g].state = "approved" THEN "reapproval" ELSE post[g].state
  <2>1. x \in PostStates /\ x # "approved" /\ (x = "none" => post[g].state = "none")
    BY <1>1 DEF PostRow, PostStates
  <2>2. post' = [post EXCEPT ![g].state = x]
    BY <1>5 DEF reorder_matchday_carousel
  <2>3. KeepsTies /\ KeepsScores
    BY <1>5 DEF reorder_matchday_carousel, KeepsTies, KeepsScores
  <2> HIDE DEF x
  <2>4. KeepsBundles /\ KeepsApprovals
    BY <1>2, <2>1, <2>2
  <2>5. KeepsFeeds
    <3>1. post'[g].state = x /\ \A h \in Games : h # g => post'[h] = post[h]
      BY <1>1, <2>2 DEF PostRow
    <3>2. post[g].state # "none" /\ feed[g] # "published" /\ sent' = sent
          /\ feed' = [feed EXCEPT ![g] = "open"]
      BY <1>5 DEF reorder_matchday_carousel, BundleInv, BundlesFit
    <3>3. QED  BY <1>1, <2>1, <3>1, <3>2 DEF KeepsFeeds
  <2>6. QED  BY <2>3, <2>4, <2>5 DEF Ordinary
<1>6. QED  BY <1>3, <1>4, <1>5

-----------------------------------------------------------------------------
(* What the other steps do to bundles, feeds and approvals                 *)

\* Every post shows its own game.
LEMMA ShowsItself ==
    ASSUME NEW ps \in [Games -> PostRow], NEW g \in Games
    PROVE  g \in ShownBy(ps, g) /\ ShownBy(ps, g) \in SUBSET Games
BY ContributionTypes DEF ShownBy

\* Posts that keep their bundles keep what they show, and whom they follow.
LEMMA SameBundles ==
    ASSUME NEW ps \in [Games -> PostRow], NEW qs \in [Games -> PostRow],
           \A g \in Games : qs[g].bundle = ps[g].bundle,
           NEW g \in Games
    PROVE  /\ Contribution(qs, g) = Contribution(ps, g)
           /\ ShownBy(qs, g) = ShownBy(ps, g)
           /\ Reciprocal(qs, g) <=> Reciprocal(ps, g)
<1>1. Contribution(qs, g) = Contribution(ps, g)
  BY DEF Contribution
<1>2. Contribution(ps, g) \in SUBSET Games
  BY ContributionTypes
<1>3. QED  BY <1>1, <1>2 DEF ShownBy, Reciprocal

\* Ordinary steps keep every invariant.
LEMMA OrdinaryKeeps ==
    ASSUME TypeInv, TypeInv', Ordinary
    PROVE  /\ BundleInv => BundleInv'
           /\ FeedInv => FeedInv'
           /\ ApprovalInv => ApprovalInv'
<1>1. post \in [Games -> PostRow] /\ post' \in [Games -> PostRow]
  BY DEF TypeInv
<1>2. \A g \in Games : post'[g].bundle = post[g].bundle
  BY DEF Ordinary, KeepsBundles
<1>3. \A g \in Games : /\ Contribution(post', g) = Contribution(post, g)
                       /\ ShownBy(post', g) = ShownBy(post, g)
                       /\ Reciprocal(post', g) <=> Reciprocal(post, g)
  BY <1>1, <1>2, SameBundles
<1>4. BundleInv => BundleInv'
  BY DEF Ordinary, KeepsTies, KeepsBundles, KeepsFeeds, BundleInv, BundlesFit
<1>5. \A g \in Games : Lead(Contribution(post, g)) \in Games
  BY <1>1, ContributionTypes
<1>6. FeedInv => FeedInv'
  BY <1>3, <1>5 DEF Ordinary, KeepsFeeds, FeedInv, FeedsFit
<1>7. \A g \in Games : ShownBy(post, g) \in SUBSET Games
  BY <1>1, ShowsItself
<1>8. ApprovalInv => ApprovalInv'
  BY <1>3, <1>7 DEF Ordinary, KeepsApprovals, KeepsScores, ApprovalInv, ApprovalsFit
<1>9. QED  BY <1>4, <1>6, <1>8

\* A separation does not reach the other games, and leaves no bundle where it reaches.
LEMMA SeparationEffects ==
    ASSUME TypeInv, NEW G \in SUBSET Games, NEW g \in Games
    PROVE  /\ g \notin Closure(G) =>
                  /\ SeparatedGames(G)[g] = game[g] /\ SeparatedPosts(G)[g] = post[g]
                  /\ SeparatedFeeds(G)[g] = feed[g] /\ Recounted(G)[g] = sent[g]
           /\ g \in Closure(G) =>
                  /\ ~SeparatedGames(G)[g].tied
                  /\ SeparatedPosts(G)[g].bundle = {}
                  /\ Recounted(G)[g] = 0
           /\ \/ SeparatedPosts(G)[g] = post[g] /\ SeparatedFeeds(G)[g] = feed[g]
              \/ SeparatedPosts(G)[g] = NoPost /\ SeparatedFeeds(G)[g] = "none"
<1>1. ASSUME NEW r \in GameRow
      PROVE  ~Separated(r).tied
  <2> DEFINE bound == [r EXCEPT !.tied = FALSE, !.apart = TRUE]
  <2>1. ~bound.tied
    BY DEF GameRow
  <2>2. bound \in GameRow
    BY DEF GameRow
  <2>3. Separated(r) = [bound EXCEPT !.rev = @ + 1]
    BY DEF Separated
  <2> HIDE DEF bound
  <2>4. QED  BY <2>1, <2>2, <2>3 DEF GameRow
<1>2. game[g] \in GameRow
  BY DEF TypeInv
<1>3. ASSUME g \in Closure(G)
      PROVE  ~SeparatedGames(G)[g].tied /\ SeparatedPosts(G)[g].bundle = {} /\ Recounted(G)[g] = 0
  <2>1. SeparatedGames(G)[g] = Separated(game[g])
    BY <1>3 DEF SeparatedGames
  <2>2. SeparatedPosts(G)[g].bundle = {}
    BY <1>3 DEF SeparatedPosts, Retired, NoPost
  <2>3. QED  BY <1>1, <1>2, <1>3, <2>1, <2>2 DEF Recounted
<1>4. ASSUME g \notin Closure(G)
      PROVE  /\ SeparatedGames(G)[g] = game[g] /\ SeparatedPosts(G)[g] = post[g]
             /\ SeparatedFeeds(G)[g] = feed[g] /\ Recounted(G)[g] = sent[g]
  BY <1>4 DEF SeparatedGames, SeparatedPosts, SeparatedFeeds, Retired, Recounted
<1>5. \/ SeparatedPosts(G)[g] = post[g] /\ SeparatedFeeds(G)[g] = feed[g]
      \/ SeparatedPosts(G)[g] = NoPost /\ SeparatedFeeds(G)[g] = "none"
  BY DEF SeparatedPosts, SeparatedFeeds
<1>6. QED  BY <1>3, <1>4, <1>5

\* A post in another contribution is not in this one.
LEMMA BundlesDisjoint ==
    ASSUME TypeInv, BundleInv, NEW G \in SUBSET Games, NEW g \in Games, g \notin Closure(G)
    PROVE  \A h \in Contribution(post, g) : h \in Games /\ h \notin Closure(G)
<1>1. post \in [Games -> PostRow]
  BY DEF TypeInv
<1>2. Contribution(post, g) \in SUBSET Games
  BY <1>1, ContributionTypes
<1>3. CASE post[g].bundle = {}
  BY <1>2, <1>3 DEF Contribution
<1>4. CASE post[g].bundle # {}
  <2>1. g \in post[g].bundle
    BY <1>4 DEF BundleInv, BundlesFit
  <2>2. post[g].bundle \cap Closure(G) = {}
    BY <2>1, ClosureWhole
  <2>3. QED  BY <1>2, <2>2, <1>4 DEF Contribution
<1>5. QED  BY <1>3, <1>4

\* What is left after a separation fits.
LEMMA SeparationFits ==
    ASSUME TypeInv, BundleInv, NEW G \in SUBSET Games
    PROVE  /\ BundlesFit(SeparatedGames(G), SeparatedPosts(G), SeparatedFeeds(G))
           /\ FeedInv => FeedsFit(SeparatedPosts(G), SeparatedFeeds(G), Recounted(G))
           /\ ApprovalInv => ApprovalsFit(SeparatedGames(G), SeparatedPosts(G))
<1> DEFINE ps == SeparatedPosts(G)
           fs == SeparatedFeeds(G)
           gm == SeparatedGames(G)
           sn == Recounted(G)
<1>1. post \in [Games -> PostRow] /\ ps \in [Games -> PostRow]
  BY SeparationTypes DEF TypeInv
<1>2. NoPost.state = "none" /\ NoPost.bundle = {}
  BY DEF NoPost
<1>3. \A g \in Games : gm[g].score = game[g].score
  BY SeparationKeepsResults
<1>4. ASSUME NEW g \in Games, g \in Closure(G)
      PROVE  ~gm[g].tied /\ ps[g].bundle = {} /\ sn[g] = 0 /\ Contribution(ps, g) = {g}
  BY <1>4, SeparationEffects DEF Contribution
<1>5. ASSUME NEW g \in Games, g \notin Closure(G)
      PROVE  /\ gm[g] = game[g] /\ ps[g] = post[g] /\ fs[g] = feed[g] /\ sn[g] = sent[g]
             /\ Contribution(ps, g) = Contribution(post, g)
  BY <1>5, SeparationEffects DEF Contribution
<1>6. ASSUME NEW g \in Games
      PROVE  \/ ps[g] = post[g] /\ fs[g] = feed[g]
             \/ ps[g] = NoPost /\ fs[g] = "none"
  BY SeparationEffects, Zenon
<1>7. ASSUME NEW g \in Games, g \notin Closure(G)
      PROVE  \A h \in Contribution(post, g) : h \in Games /\ ps[h] = post[h] /\ fs[h] = feed[h]
  BY <1>5, <1>7, BundlesDisjoint
<1>8. \A g \in Games : Lead(Contribution(post, g)) \in Contribution(post, g)
  BY <1>1, ContributionTypes
<1> HIDE DEF ps, fs, gm, sn
<1>9. BundlesFit(gm, ps, fs)
  BY <1>2, <1>4, <1>5, <1>6 DEF BundleInv, BundlesFit
<1>10. ASSUME FeedInv, NEW g \in Games
       PROVE  /\ Reciprocal(ps, g)
              /\ fs[g] = "scheduled" => g = Lead(Contribution(ps, g))
              /\ sn[g] <= 1
              /\ sn[g] = 1 => fs[Lead(Contribution(ps, g))] = "published"
  <2>1. CASE g \in Closure(G)
    <3>1. Contribution(ps, g) = {g} /\ Lead({g}) = g /\ sn[g] = 0
      BY <1>4, <2>1, LeadOfOne
    <3>2. QED  BY <3>1 DEF Reciprocal
  <2>2. CASE g \notin Closure(G)
    <3>1. Reciprocal(ps, g)
      BY <1>5, <1>7, <1>10, <2>2 DEF Reciprocal, FeedInv, FeedsFit
    <3>2. QED  BY <1>5, <1>7, <1>8, <1>10, <2>2, <3>1 DEF FeedInv, FeedsFit
  <2>3. QED  BY <2>1, <2>2
<1>11. ASSUME ApprovalInv, NEW g \in Games, ps[g].state = "approved", NEW h \in ShownBy(ps, g)
       PROVE  ps[g].read[h] = gm[h].score
  <2>1. ps[g] = post[g]
    BY <1>2, <1>6, <1>11
  <2>2. h \in ShownBy(post, g) /\ h \in Games
    <3>1. g \in ShownBy(post, g) /\ ShownBy(post, g) \in SUBSET Games
      BY <1>1, ShowsItself
    <3>2. CASE g \in Closure(G)
      BY <1>4, <1>11, <3>1, <3>2 DEF ShownBy
    <3>3. CASE g \notin Closure(G)
      BY <1>5, <1>11, <3>1, <3>3 DEF ShownBy
    <3>4. QED  BY <3>2, <3>3
  <2>3. QED  BY <1>3, <1>11, <2>1, <2>2 DEF ApprovalInv, ApprovalsFit
<1>12. QED  BY <1>9, <1>10, <1>11 DEF FeedsFit, ApprovalsFit, ps, fs, gm, sn

\* A separation by a user.
LEMMA SeparateKeeps ==
    ASSUME TypeInv, BundleInv, NEW G \in SUBSET Games, separate_matchday_posts(G)
    PROVE  BundleInv' /\ (FeedInv => FeedInv') /\ (ApprovalInv => ApprovalInv')
<1>1. /\ game' = SeparatedGames(G) /\ post' = SeparatedPosts(G) /\ feed' = SeparatedFeeds(G)
      /\ sent' = Recounted(G)
  BY DEF separate_matchday_posts
<1>2. /\ BundlesFit(game', post', feed')
      /\ FeedInv => FeedsFit(post', feed', sent')
      /\ ApprovalInv => ApprovalsFit(game', post')
  BY <1>1, SeparationFits
<1>3. QED  BY <1>2 DEF BundleInv, FeedInv, ApprovalInv, BundlesFit, FeedsFit, ApprovalsFit

\* The approvals of a game fall, and nothing else of its posts changes.
LEMMA InvalidKeeps ==
    ASSUME NEW ps \in [Games -> PostRow], NEW fs \in [Games -> FeedStates], NEW g \in Games,
           NEW h \in Games
    PROVE  /\ InvalidPosts(ps, g)[h].bundle = ps[h].bundle
           /\ InvalidPosts(ps, g)[h].state = "none" => ps[h].state = "none" /\ InvalidFeeds(ps, fs, g)[h] = fs[h]
           /\ InvalidPosts(ps, g)[h].state = "approved" =>
                  InvalidPosts(ps, g)[h] = ps[h] /\ h # g /\ g \notin ps[h].bundle
           /\ InvalidFeeds(ps, fs, g)[h] = "scheduled" => fs[h] = "scheduled"
           /\ fs[h] = "published" => InvalidFeeds(ps, fs, g)[h] = "published"
<1>1. ASSUME NEW r \in PostRow
      PROVE  Revoked(r).bundle = r.bundle /\ Revoked(r).state = "reapproval"
  BY DEF Revoked, PostRow
<1>2. QED  BY <1>1 DEF InvalidPosts, InvalidFeeds, Unsent

\* What fitted before the approvals of a game fell, fits: if only its row changes.
LEMMA InvalidFits ==
    ASSUME NEW ps \in [Games -> PostRow], NEW fs \in [Games -> FeedStates], NEW gm, NEW hm, NEW sn,
           NEW g \in Games,
           BundlesFit(gm, ps, fs),
           \A h \in Games : hm[h].tied = gm[h].tied /\ hm[h].apart = gm[h].apart
    PROVE  /\ BundlesFit(hm, InvalidPosts(ps, g), InvalidFeeds(ps, fs, g))
           /\ FeedsFit(ps, fs, sn) => FeedsFit(InvalidPosts(ps, g), InvalidFeeds(ps, fs, g), sn)
           /\ ApprovalsFit(gm, ps) /\ (\A h \in Games : h # g => hm[h].score = gm[h].score) =>
                  ApprovalsFit(hm, InvalidPosts(ps, g))
<1> DEFINE qs == InvalidPosts(ps, g)
           es == InvalidFeeds(ps, fs, g)
<1>1. qs \in [Games -> PostRow]
  BY InvalidTypes
<1>2. \A h \in Games : qs[h].bundle = ps[h].bundle
  BY InvalidKeeps
<1>3. \A h \in Games : /\ Contribution(qs, h) = Contribution(ps, h) /\ ShownBy(qs, h) = ShownBy(ps, h)
                       /\ Reciprocal(qs, h) <=> Reciprocal(ps, h)
  <2> HIDE DEF qs
  <2>1. QED  BY <1>1, <1>2, SameBundles
<1>4. \A h \in Games : /\ qs[h].state = "none" => ps[h].state = "none" /\ es[h] = fs[h]
                       /\ qs[h].state = "approved" => qs[h] = ps[h] /\ h # g /\ g \notin ps[h].bundle
                       /\ es[h] = "scheduled" => fs[h] = "scheduled"
                       /\ fs[h] = "published" => es[h] = "published"
  BY InvalidKeeps
<1>5. \A h \in Games : Lead(Contribution(ps, h)) \in Games
  BY ContributionTypes
<1> HIDE DEF qs, es
<1>6. BundlesFit(hm, qs, es)
  BY <1>2, <1>4 DEF BundlesFit
<1>7. FeedsFit(ps, fs, sn) => FeedsFit(qs, es, sn)
  BY <1>3, <1>4, <1>5 DEF FeedsFit
<1>8. ASSUME ApprovalsFit(gm, ps), \A h \in Games : h # g => hm[h].score = gm[h].score,
             NEW h \in Games, qs[h].state = "approved", NEW x \in ShownBy(qs, h)
      PROVE  qs[h].read[x] = hm[x].score
  <2>1. qs[h] = ps[h] /\ h # g /\ g \notin ps[h].bundle
    BY <1>4, <1>8
  <2>2. x \in ShownBy(ps, h) /\ x \in Games
    BY <1>3, <1>8, ShowsItself
  <2>3. x # g
    BY <2>1, <2>2 DEF ShownBy, Contribution
  <2>4. QED  BY <1>8, <2>1, <2>2, <2>3 DEF ApprovalsFit
<1>9. QED  BY <1>6, <1>7, <1>8 DEF ApprovalsFit, qs, es

\* An import: the game leaves its bundle if it moves, and approvals of another result fall.
LEMMA ImportKeeps ==
    ASSUME TypeInv, BundleInv, NEW g \in Games, import_snapshot(g)
    PROVE  BundleInv' /\ (FeedInv => FeedInv') /\ (ApprovalInv => ApprovalInv')
<1> DEFINE p == _capture_automatic_snapshot(g)
           rows == IF Moves(g, p) THEN SeparatedGames({g}) ELSE game
           ps == IF Moves(g, p) THEN SeparatedPosts({g}) ELSE post
           fs == IF Moves(g, p) THEN SeparatedFeeds({g}) ELSE feed
           sn == IF Moves(g, p) THEN Recounted({g}) ELSE sent
<1>1. rows \in [Games -> GameRow] /\ ps \in [Games -> PostRow] /\ fs \in [Games -> FeedStates]
  BY SeparationTypes DEF TypeInv
<1>2. /\ BundlesFit(rows, ps, fs)
      /\ FeedInv => FeedsFit(ps, fs, sn)
      /\ ApprovalInv => ApprovalsFit(rows, ps)
  BY SeparationFits DEF BundleInv, FeedInv, ApprovalInv
<1>3. /\ game' = [rows EXCEPT ![g] = Imported(rows[g], g, p)]
      /\ post' = IF Relevant(g, p) THEN InvalidPosts(ps, g) ELSE ps
      /\ feed' = IF Relevant(g, p) THEN InvalidFeeds(ps, fs, g) ELSE fs
      /\ sent' = sn
  BY DEF import_snapshot
<1>4. rows[g].score = game[g].score
  BY SeparationKeepsResults
<1> HIDE DEF p, rows, ps, fs, sn
<1>5. /\ Imported(rows[g], g, p).tied = rows[g].tied /\ Imported(rows[g], g, p).apart = rows[g].apart
      /\ ~Relevant(g, p) => Imported(rows[g], g, p).score = rows[g].score
  <2>1. rows[g] \in GameRow
    BY <1>1
  <2>2. QED  BY <1>4, <2>1 DEF Imported, GameRow, Relevant
<1>6. /\ \A h \in Games : game'[h].tied = rows[h].tied /\ game'[h].apart = rows[h].apart
      /\ \A h \in Games : h # g => game'[h].score = rows[h].score
      /\ ~Relevant(g, p) => \A h \in Games : game'[h].score = rows[h].score
  BY <1>1, <1>3, <1>5
<1>7. CASE Relevant(g, p)
  <2>1. post' = InvalidPosts(ps, g) /\ feed' = InvalidFeeds(ps, fs, g)
    BY <1>3, <1>7
  <2>2. /\ BundlesFit(game', post', feed')
        /\ FeedsFit(ps, fs, sn) => FeedsFit(post', feed', sn)
        /\ ApprovalsFit(rows, ps) => ApprovalsFit(game', post')
    BY <1>1, <1>2, <1>6, <2>1, InvalidFits
  <2>3. QED  BY <1>2, <1>3, <2>2 DEF BundleInv, FeedInv, ApprovalInv, BundlesFit, FeedsFit, ApprovalsFit
<1>8. CASE ~Relevant(g, p)
  <2>1. post' = ps /\ feed' = fs
    BY <1>3, <1>8
  <2>2. BundleInv'
    BY <1>2, <1>6, <2>1 DEF BundleInv, BundlesFit
  <2>3. FeedInv => FeedInv'
    BY <1>2, <1>3, <2>1 DEF FeedInv, FeedsFit
  <2>4. \A h \in Games : ShownBy(ps, h) \in SUBSET Games
    BY <1>1, ShowsItself
  <2>5. ApprovalInv => ApprovalInv'
    BY <1>2, <1>6, <1>8, <2>1, <2>4 DEF ApprovalInv, ApprovalsFit
  <2>6. QED  BY <2>2, <2>3, <2>5
<1>9. QED  BY <1>7, <1>8

\* Games that are connected leave the posts alone, and are not apart any more.
LEMMA ConnectKeeps ==
    ASSUME TypeInv, BundleInv, NEW G \in SUBSET Games, connect_games(G)
    PROVE  BundleInv' /\ (FeedInv => FeedInv') /\ (ApprovalInv => ApprovalInv')
<1>1. game \in [Games -> GameRow] /\ post \in [Games -> PostRow]
  BY DEF TypeInv
<1>2. /\ game' = [h \in Games |-> IF h \in G THEN [game[h] EXCEPT !.tied = TRUE, !.apart = FALSE] ELSE game[h]]
      /\ post' = post /\ feed' = feed /\ sent' = sent
  BY DEF connect_games
<1>3. ASSUME NEW r \in GameRow
      PROVE  /\ ~[r EXCEPT !.tied = TRUE, !.apart = FALSE].apart
             /\ [r EXCEPT !.tied = TRUE, !.apart = FALSE].score = r.score
  BY DEF GameRow
<1>4. \A h \in Games : game'[h].score = game[h].score /\ (~game'[h].apart \/ game'[h] = game[h])
  BY <1>1, <1>2, <1>3
<1>5. BundleInv'
  BY <1>2, <1>4 DEF BundleInv, BundlesFit
<1>6. FeedInv => FeedInv'
  BY <1>2 DEF FeedInv, FeedsFit
<1>7. \A h \in Games : ShownBy(post, h) \in SUBSET Games
  BY <1>1, ShowsItself
<1>8. ApprovalInv => ApprovalInv'
  BY <1>2, <1>4, <1>7 DEF ApprovalInv, ApprovalsFit
<1>9. QED  BY <1>5, <1>6, <1>8

\* A result confirmed by a user: approvals given for another one fall.
LEMMA ConfirmationKeeps ==
    ASSUME TypeInv, TypeInv', BundleInv, NEW g \in Games, NEW s \in Scores, confirm_game_result(g, s)
    PROVE  /\ BundleInv' /\ (FeedInv => FeedInv')
           /\ "unconfirmed" \notin Perils /\ ApprovalInv => ApprovalInv'
<1> DEFINE corrected == game[g].confirmed /\ game[g].score # s
<1>1. /\ game \in [Games -> GameRow] /\ post \in [Games -> PostRow] /\ feed \in [Games -> FeedStates]
      /\ post' \in [Games -> PostRow]
  BY DEF TypeInv
<1>2. /\ post' = [h \in Games |-> IF corrected /\ Corrects(h, g) THEN Warned(post[h]) ELSE post[h]]
      /\ feed' = [h \in Games |-> IF corrected /\ Corrects(h, g) /\ feed[h] \in Unsent THEN "open" ELSE feed[h]]
      /\ sent' = sent
      /\ game' = [game EXCEPT ![g].score = s, ![g].confirmed = TRUE, ![g].cand = s]
  BY DEF confirm_game_result
<1>3. \A h \in Games : /\ game'[h].tied = game[h].tied /\ game'[h].apart = game[h].apart
                       /\ h # g => game'[h].score = game[h].score
                       /\ game'[g].score = s
  <2> DEFINE row == [game[g] EXCEPT !.score = s, !.confirmed = TRUE]
  <2>1. row.tied = game[g].tied /\ row.apart = game[g].apart /\ row.score = s
    BY <1>1 DEF GameRow
  <2>2. row \in [score: {s}, off: BOOLEAN, day: Days, confirmed: {TRUE}, hidden: BOOLEAN,
                 tied: BOOLEAN, apart: BOOLEAN, rev: Nat, cand: Results]
    BY <1>1 DEF GameRow
  <2>3. game' = [game EXCEPT ![g] = [row EXCEPT !.cand = s]]
    BY <1>1, <1>2
  <2> HIDE DEF row
  <2>4. QED  BY <1>1, <2>1, <2>2, <2>3
<1>4. ASSUME NEW r \in PostRow
      PROVE  Warned(r).bundle = r.bundle /\ Warned(r).state = "reapproval"
  BY DEF Warned, PostRow
<1>5. ASSUME NEW h \in Games
      PROVE  /\ post'[h].bundle = post[h].bundle
             /\ post'[h].state = "none" => post[h].state = "none"
             /\ post'[h].state = "approved" => post'[h] = post[h] /\ ~(corrected /\ Corrects(h, g))
             /\ feed'[h] = "scheduled" => feed[h] = "scheduled"
             /\ feed[h] = "published" => feed'[h] = "published"
             /\ feed[h] = "none" => feed'[h] = "none"
  <2> HIDE DEF corrected
  <2>1. QED  BY <1>1, <1>2, <1>4 DEF Unsent
<1>6. BundleInv'
  BY <1>3, <1>5 DEF BundleInv, BundlesFit
<1>7. ASSUME NEW h \in Games
      PROVE  /\ Contribution(post', h) = Contribution(post, h) /\ ShownBy(post', h) = ShownBy(post, h)
             /\ Reciprocal(post', h) <=> Reciprocal(post, h)
             /\ Lead(Contribution(post, h)) \in Games
             /\ ShownBy(post, h) \in SUBSET Games
  BY <1>1, <1>5, SameBundles, ContributionTypes, ShowsItself
<1>8. FeedInv => FeedInv'
  BY <1>2, <1>5, <1>7 DEF FeedInv, FeedsFit
<1>9. ASSUME "unconfirmed" \notin Perils, ApprovalInv,
             NEW h \in Games, post'[h].state = "approved", NEW x \in ShownBy(post', h)
      PROVE  post'[h].read[x] = game'[x].score
  <2>1. post'[h] = post[h] /\ ~(corrected /\ Corrects(h, g)) /\ x \in ShownBy(post, h) /\ x \in Games
    BY <1>5, <1>7, <1>9
  <2>2. post[h].read[x] = game[x].score
    BY <1>9, <2>1 DEF ApprovalInv, ApprovalsFit
  <2>3. CASE x = g
    <3>1. Carries(h, g)
      BY <1>9, <2>1, <2>3 DEF Carries, Active, ShownBy, Contribution
    <3>2. ~corrected
      BY <1>9, <2>1, <3>1 DEF Corrects
    <3>3. game[g].score = s
      BY <1>9, <2>1, <3>1, <3>2 DEF confirm_game_result
    <3>4. QED  BY <1>3, <2>1, <2>2, <2>3, <3>3
  <2>4. CASE x # g
    BY <1>3, <2>1, <2>2, <2>4
  <2>5. QED  BY <2>3, <2>4
<1>10. QED  BY <1>6, <1>8, <1>9 DEF ApprovalInv, ApprovalsFit

\* An approval: of the lead for what the contribution shows, of the others for themselves.
LEMMA ApprovalKeeps ==
    ASSUME TypeInv, TypeInv', BundleInv, NEW g \in Games, approve_matchday_bundle(g)
    PROVE  BundleInv' /\ (FeedInv => FeedInv') /\ (ApprovalInv => ApprovalInv')
<1> DEFINE group == Shown(g)
           fs == Reconciled(post, feed, group)
<1>1. /\ post \in [Games -> PostRow] /\ post' \in [Games -> PostRow] /\ feed \in [Games -> FeedStates]
  BY DEF TypeInv
<1>2. /\ Leads(g) /\ Reciprocal(post, g) /\ Approvable(g)
      /\ post' = [h \in Games |->
                    IF h = g THEN [post[h] EXCEPT !.state = "approved", !.read = Now(group)]
                    ELSE IF h \in group /\ Approvable(h)
                    THEN [post[h] EXCEPT !.state = "approved", !.read = Now({h})]
                    ELSE post[h]]
      /\ feed' = [fs EXCEPT ![g] = IF @ = "open" THEN "scheduled" ELSE @]
      /\ game' = game /\ sent' = sent
  BY DEF approve_matchday_bundle
<1>3. ASSUME NEW r \in PostRow, NEW x
      PROVE  /\ [r EXCEPT !.state = "approved", !.read = x].bundle = r.bundle
             /\ [r EXCEPT !.state = "approved", !.read = x].state = "approved"
             /\ [r EXCEPT !.state = "approved", !.read = x].read = x
  BY DEF PostRow
<1>4. group = Contribution(post, g) /\ group = ShownBy(post, g) /\ g \in group /\ group \in SUBSET Games
  <2>1. group = Contribution(post, g) /\ group = ShownBy(post, g)
    BY <1>2 DEF Leads, Shown, ShownBy
  <2>2. QED  BY <1>1, <2>1, ShowsItself
<1>5. fs \in [Games -> FeedStates]
  BY <1>1 DEF Reconciled, FeedStates
<1>6. ASSUME NEW h \in Games
      PROVE  \/ fs[h] = feed[h]
             \/ fs[h] = "cancelled" /\ feed[h] \in Unsent
  <2> HIDE DEF group
  <2>1. QED  BY DEF Reconciled
<1> HIDE DEF group, fs
<1>7. ASSUME NEW h \in Games
      PROVE  /\ post'[h].bundle = post[h].bundle
             /\ post'[h].state = "none" => post[h].state = "none" /\ h # g
             /\ post'[h].state = "approved" =>
                    \/ h = g /\ post'[h].read = Now(group)
                    \/ h # g /\ h \in group /\ post'[h].read = Now({h})
                    \/ h # g /\ post'[h] = post[h]
  <2>1. CASE h = g
    <3>1. post'[h] = [post[h] EXCEPT !.state = "approved", !.read = Now(group)]
      BY <1>2, <2>1
    <3>2. post'[h].bundle = post[h].bundle /\ post'[h].state = "approved" /\ post'[h].read = Now(group)
      BY <1>1, <1>3, <3>1
    <3>3. QED  BY <2>1, <3>2
  <2>2. CASE h # g /\ h \in group /\ Approvable(h)
    <3>1. post'[h] = [post[h] EXCEPT !.state = "approved", !.read = Now({h})]
      BY <1>2, <2>2
    <3>2. post'[h].bundle = post[h].bundle /\ post'[h].state = "approved" /\ post'[h].read = Now({h})
      BY <1>1, <1>3, <3>1
    <3>3. QED  BY <2>2, <3>2
  <2>3. CASE h # g /\ ~(h \in group /\ Approvable(h))
    <3>1. post'[h] = post[h]
      BY <1>2, <2>3
    <3>2. QED  BY <2>3, <3>1
  <2>4. QED  BY <2>1, <2>2, <2>3
<1>8. ASSUME NEW h \in Games
      PROVE  /\ feed'[h] = "scheduled" => feed[h] = "scheduled" \/ h = g
             /\ feed[h] = "published" => feed'[h] = "published"
             /\ feed[h] = "none" => feed'[h] = "none"
  BY <1>2, <1>5, <1>6 DEF Unsent
<1>9. BundleInv'
  BY <1>2, <1>7, <1>8 DEF BundleInv, BundlesFit
<1>10. ASSUME NEW h \in Games
       PROVE  /\ Contribution(post', h) = Contribution(post, h) /\ ShownBy(post', h) = ShownBy(post, h)
              /\ Reciprocal(post', h) <=> Reciprocal(post, h)
              /\ Lead(Contribution(post, h)) \in Games
              /\ ShownBy(post, h) \in SUBSET Games
  BY <1>1, <1>7, SameBundles, ContributionTypes, ShowsItself
<1>11. FeedInv => FeedInv'
  BY <1>2, <1>8, <1>10 DEF FeedInv, FeedsFit, Leads
<1>12. ASSUME ApprovalInv, NEW h \in Games, post'[h].state = "approved", NEW x \in ShownBy(post', h)
       PROVE  post'[h].read[x] = game'[x].score
  <2>1. x \in ShownBy(post, h) /\ x \in Games
    BY <1>10, <1>12
  <2>2. CASE h = g /\ post'[h].read = Now(group)
    BY <1>2, <1>4, <2>1, <2>2 DEF Now
  <2>3. CASE h # g /\ h \in group /\ post'[h].read = Now({h})
    <3>1. post[h].bundle = post[g].bundle
      BY <1>2, <1>4, <2>3 DEF Reciprocal
    <3>2. post[g].bundle # {}
      BY <1>4, <2>3 DEF Contribution
    <3>3. Contribution(post, h) = group /\ Lead(group) = g
      BY <1>2, <1>4, <3>1, <3>2 DEF Contribution, Leads
    <3>4. x = h
      BY <2>1, <2>3, <3>3 DEF ShownBy
    <3>5. QED  BY <1>2, <2>3, <3>4 DEF Now
  <2>4. CASE h # g /\ post'[h] = post[h]
    BY <1>2, <1>12, <2>1, <2>4 DEF ApprovalInv, ApprovalsFit
  <2>5. QED  BY <1>7, <1>12, <2>2, <2>3, <2>4
<1>13. QED  BY <1>9, <1>11, <1>12 DEF ApprovalInv, ApprovalsFit

\* A deletion takes whole contributions, none of which was shown.
LEMMA DeletionKeeps ==
    ASSUME TypeInv, TypeInv', BundleInv, NEW g \in Games, delete_unpublished_post(g)
    PROVE  BundleInv' /\ (FeedInv => FeedInv') /\ (ApprovalInv => ApprovalInv')
<1> DEFINE group == Contribution(post, g)
<1>1. post \in [Games -> PostRow] /\ post' \in [Games -> PostRow]
  BY DEF TypeInv
<1>2. /\ Reciprocal(post, g)
      /\ \A h \in group : feed[h] # "published"
      /\ post' = [h \in Games |-> IF h \in group THEN NoPost ELSE post[h]]
      /\ feed' = [h \in Games |-> IF h \in group THEN "none" ELSE feed[h]]
      /\ game' = game /\ sent' = sent
  BY DEF delete_unpublished_post
<1>3. NoPost.state = "none" /\ NoPost.bundle = {}
  BY DEF NoPost
<1>4. BundleInv'
  BY <1>2, <1>3 DEF BundleInv, BundlesFit
<1>5. group \in SUBSET Games /\ Lead(group) \in group
  BY <1>1, ContributionTypes
<1>6. ASSUME NEW h \in Games, h \notin group
      PROVE  post'[h] = post[h] /\ feed'[h] = feed[h] /\ Contribution(post', h) = Contribution(post, h)
  <2>1. post'[h] = post[h] /\ feed'[h] = feed[h]
    BY <1>2, <1>6
  <2>2. QED  BY <2>1 DEF Contribution
<1>7. ASSUME NEW h \in Games, h \in group
      PROVE  /\ post'[h].state = "none" /\ feed'[h] = "none"
             /\ Contribution(post', h) = {h} /\ Contribution(post, h) = group
  <2>1. post'[h] = NoPost /\ feed'[h] = "none"
    BY <1>2, <1>7
  <2>2. Contribution(post', h) = {h}
    BY <1>3, <2>1 DEF Contribution
  <2>3. post[h].bundle = post[g].bundle
    BY <1>2, <1>7 DEF Reciprocal
  <2>4. Contribution(post, h) = group
    BY <1>7, <2>3 DEF Contribution
  <2>5. QED  BY <1>3, <2>1, <2>2, <2>4
<1>8. ASSUME FeedInv, NEW h \in Games
      PROVE  /\ Reciprocal(post', h)
             /\ feed'[h] = "scheduled" => h = Lead(Contribution(post', h))
             /\ sent'[h] <= 1
             /\ sent'[h] = 1 => feed'[Lead(Contribution(post', h))] = "published"
  <2>1. CASE h \in group
    <3>1. sent[h] # 1
      BY <1>2, <1>5, <1>7, <1>8, <2>1 DEF FeedInv, FeedsFit
    <3>2. sent[h] <= 1
      BY <1>8 DEF FeedInv, FeedsFit
    <3>3. Reciprocal(post', h)
      BY <1>7, <2>1 DEF Reciprocal
    <3>4. QED  BY <1>2, <1>7, <2>1, <3>1, <3>2, <3>3
  <2>2. CASE h \notin group
    <3>1. ASSUME NEW x \in Contribution(post, h)
          PROVE  x \in Games /\ x \notin group
      <4>1. x \in Games
        BY <1>1, <3>1, ContributionTypes
      <4>2. post[x].bundle = post[h].bundle
        BY <1>8, <3>1 DEF FeedInv, FeedsFit, Reciprocal
      <4>3. ASSUME x \in group
            PROVE  FALSE
        <5>1. post[h].bundle = post[g].bundle
          BY <1>2, <4>2, <4>3 DEF Reciprocal
        <5>2. CASE post[h].bundle = {}
          BY <2>2, <3>1, <4>3, <5>2 DEF Contribution
        <5>3. CASE post[h].bundle # {}
          BY <2>2, <5>1, <5>3 DEF BundleInv, BundlesFit, Contribution
        <5>4. QED  BY <5>2, <5>3
      <4>4. QED  BY <4>1, <4>3
    <3>2. Lead(Contribution(post, h)) \in Contribution(post, h)
      BY <1>1, ContributionTypes
    <3>3. Reciprocal(post', h)
      BY <1>6, <1>8, <2>2, <3>1 DEF Reciprocal, FeedInv, FeedsFit
    <3>4. QED  BY <1>2, <1>6, <1>8, <2>2, <3>1, <3>2, <3>3 DEF FeedInv, FeedsFit
  <2>3. QED  BY <2>1, <2>2
<1>9. ASSUME ApprovalInv, NEW h \in Games, post'[h].state = "approved", NEW x \in ShownBy(post', h)
      PROVE  post'[h].read[x] = game'[x].score
  <2>1. h \notin group
    BY <1>7, <1>9
  <2>2. x \in ShownBy(post, h) /\ post'[h] = post[h]
    BY <1>6, <1>9, <2>1 DEF ShownBy
  <2>3. QED  BY <1>2, <1>9, <2>2 DEF ApprovalInv, ApprovalsFit
<1>10. QED  BY <1>4, <1>8, <1>9 DEF FeedInv, FeedsFit, ApprovalInv, ApprovalsFit

\* A transfer: of a lead whose games were not shown yet.
LEMMA TransferKeeps ==
    ASSUME TypeInv, TypeInv', BundleInv, NEW g \in Games, Publish(g)
    PROVE  BundleInv' /\ (FeedInv => FeedInv') /\ (ApprovalInv => ApprovalInv')
<1>1. /\ post \in [Games -> PostRow] /\ post' \in [Games -> PostRow] /\ feed \in [Games -> FeedStates]
  BY DEF TypeInv
<1>2. /\ feed[g] = "scheduled" /\ feed' = [feed EXCEPT ![g] = "published"]
      /\ post' = [post EXCEPT ![g].state = "published"]
      /\ sent' = [h \in Games |-> IF h \in Shown(g) THEN (IF sent[h] = 0 THEN 1 ELSE 2) ELSE sent[h]]
      /\ game' = game
  BY DEF Publish
<1>3. \A h \in Games : post'[h].bundle = post[h].bundle /\ (h # g => post'[h] = post[h])
  BY <1>1, <1>2 DEF PostRow
<1>4. post'[g].state = "published"
  BY <1>1, <1>2 DEF PostRow
<1>5. BundleInv'
  BY <1>1, <1>2, <1>3, <1>4 DEF BundleInv, BundlesFit
<1>6. ASSUME NEW h \in Games
      PROVE  /\ Contribution(post', h) = Contribution(post, h) /\ ShownBy(post', h) = ShownBy(post, h)
             /\ Reciprocal(post', h) <=> Reciprocal(post, h)
             /\ Lead(Contribution(post, h)) \in Games
             /\ ShownBy(post, h) \in SUBSET Games
  BY <1>1, <1>3, SameBundles, ContributionTypes, ShowsItself
<1>7. ASSUME FeedInv
      PROVE  FeedInv'
  <2>1. Lead(Contribution(post, g)) = g /\ Shown(g) = Contribution(post, g)
    BY <1>2, <1>7 DEF FeedInv, FeedsFit, Shown, Leads
  <2>2. ASSUME NEW h \in Games, h \in Shown(g)
        PROVE  Lead(Contribution(post, h)) = g
    <3>1. post[h].bundle = post[g].bundle
      BY <1>7, <2>1, <2>2 DEF FeedInv, FeedsFit, Reciprocal
    <3>2. CASE post[g].bundle = {}
      BY <2>1, <2>2, <3>2 DEF Contribution
    <3>3. CASE post[g].bundle # {}
      BY <2>1, <3>1, <3>3 DEF Contribution
    <3>4. QED  BY <3>2, <3>3
  <2>3. ASSUME NEW h \in Games, h \in Shown(g)
        PROVE  sent[h] = 0
    <3>1. sent[h] <= 1 /\ sent[h] # 1
      BY <1>2, <1>7, <2>2, <2>3 DEF FeedInv, FeedsFit
    <3>2. sent[h] \in 0..2
      BY DEF TypeInv
    <3>3. QED  BY <3>1, <3>2
  <2>4. ASSUME NEW h \in Games
        PROVE  sent'[h] <= 1 /\ (sent'[h] = 1 => feed'[Lead(Contribution(post', h))] = "published")
    <3>1. CASE h \in Shown(g)
      <4>1. sent'[h] = 1
        BY <1>2, <2>3, <3>1
      <4>2. Lead(Contribution(post', h)) = g
        BY <1>6, <2>2, <3>1
      <4>3. feed'[g] = "published"
        BY <1>1, <1>2
      <4>4. QED  BY <4>1, <4>2, <4>3
    <3>2. CASE h \notin Shown(g)
      BY <1>1, <1>2, <1>6, <1>7, <3>2 DEF FeedInv, FeedsFit
    <3>3. QED  BY <3>1, <3>2
  <2>5. ASSUME NEW h \in Games
        PROVE  Reciprocal(post', h) /\ (feed'[h] = "scheduled" => h = Lead(Contribution(post', h)))
    BY <1>1, <1>2, <1>6, <1>7 DEF FeedInv, FeedsFit
  <2>6. QED  BY <2>4, <2>5 DEF FeedInv, FeedsFit
<1>8. ASSUME ApprovalInv, NEW h \in Games, post'[h].state = "approved", NEW x \in ShownBy(post', h)
      PROVE  post'[h].read[x] = game'[x].score
  BY <1>2, <1>3, <1>4, <1>6, <1>8 DEF ApprovalInv, ApprovalsFit
<1>9. QED  BY <1>5, <1>7, <1>8 DEF ApprovalInv, ApprovalsFit

-----------------------------------------------------------------------------
(* The coordination                                                        *)

\* Bundles only change when a carousel is new.
LEMMA OldBundlesStay ==
    ASSUME TypeInv, BundleInv, NEW g \in Games,
           \/ ~Complete(g, post) \/ MadeBefore(generation_bundle_games(g), post)
    PROVE  /\ CoordinatedPosts(g, post) = post
           /\ BundlesFit(game, post, CoordinatedFeeds(g, post, feed))
           /\ FeedInv => FeedsFit(post, CoordinatedFeeds(g, post, feed), sent)
<1> DEFINE group == generation_bundle_games(g)
           fs == CoordinatedFeeds(g, post, feed)
<1>1. post \in [Games -> PostRow] /\ feed \in [Games -> FeedStates]
  BY DEF TypeInv
<1>2. CoordinatedPosts(g, post) = post
  BY DEF CoordinatedPosts
<1>3. ASSUME NEW h \in Games
      PROVE  /\ feed[h] = "none" => fs[h] = "none"
             /\ fs[h] = "scheduled" => feed[h] = "scheduled"
             /\ feed[h] = "published" => fs[h] = "published"
  <2>1. CASE group = {g}
    <3>1. fs = feed
      BY <2>1 DEF CoordinatedFeeds
    <3>2. QED  BY <3>1
  <2>2. CASE group # {g} /\ ~Complete(g, post)
    <3>1. fs = [feed EXCEPT ![g] = IF @ \in {"published", "none"} THEN @ ELSE "waiting"]
      BY <2>2 DEF CoordinatedFeeds
    <3> HIDE DEF fs
    <3>2. QED  BY <1>1, <3>1
  <2>3. CASE group # {g} /\ Complete(g, post)
    <3>1. fs = Reconciled(post, feed, post[Lead(group)].bundle)
      BY <2>3 DEF CoordinatedFeeds
    <3>2. fs[h] = feed[h] \/ (fs[h] = "cancelled" /\ feed[h] \in Unsent)
      <4> HIDE DEF group, fs
      <4>1. QED  BY <3>1 DEF Reconciled
    <3> HIDE DEF fs
    <3>3. QED  BY <3>2 DEF Unsent
  <2>4. QED  BY <2>1, <2>2, <2>3
<1> HIDE DEF fs
<1>4. BundlesFit(game, post, fs)
  BY <1>3 DEF BundleInv, BundlesFit
<1>5. \A h \in Games : Lead(Contribution(post, h)) \in Games
  BY <1>1, ContributionTypes
<1>6. FeedInv => FeedsFit(post, fs, sent)
  BY <1>3, <1>5 DEF FeedInv, FeedsFit
<1>7. QED  BY <1>2, <1>4, <1>6 DEF fs

\* A carousel is of games that are not apart; its lead loses an approval.
LEMMA NewCarouselFits ==
    ASSUME TypeInv, BundleInv, NEW g \in Games,
           Complete(g, post), ~MadeBefore(generation_bundle_games(g), post),
           ~Conflict(g, post, feed)
    PROVE  /\ BundlesFit(game, CoordinatedPosts(g, post), CoordinatedFeeds(g, post, feed))
           /\ ~Regroups(g) /\ FeedInv =>
                  FeedsFit(CoordinatedPosts(g, post), CoordinatedFeeds(g, post, feed), sent)
           /\ ApprovalInv => ApprovalsFit(game, CoordinatedPosts(g, post))
<1> DEFINE group == generation_bundle_games(g)
           ps == CoordinatedPosts(g, post)
           fs == CoordinatedFeeds(g, post, feed)
           lead == Lead(group)
<1>1. /\ post \in [Games -> PostRow] /\ feed \in [Games -> FeedStates] /\ ps \in [Games -> PostRow]
  BY CoordinationTypes DEF TypeInv
<1>2. /\ group \in SUBSET Games /\ lead \in group
      /\ group # {g}
      /\ \A h \in group : /\ game[h].tied \/ ~game[h].apart
                          /\ post[h].state # "none" /\ feed[h] \notin {"published", "none"}
      /\ post[lead].bundle = {}
  <2>1. group \in SUBSET Games /\ group # {}
    BY GroupTypes
  <2>2. lead \in group
    BY <2>1, LeadMember
  <2>3. group # {g} /\ \A h \in group : post[h].state # "none"
    BY DEF Complete
  <2>4. \A h \in group : game[h].tied \/ ~game[h].apart
    BY <2>3, GroupTypes
  <2>5. \A h \in group : feed[h] \notin {"published", "none"}
    BY DEF Complete, Conflict
  <2>6. post[lead].bundle = {}
    BY DEF MadeBefore
  <2>7. QED  BY <2>1, <2>2, <2>3, <2>4, <2>5, <2>6
<1>3. ps = [h \in Games |->
              IF h \notin group THEN post[h]
              ELSE [post[h] EXCEPT !.bundle = group,
                                   !.state = IF h = lead /\ @ = "approved" THEN "reapproval" ELSE @]]
  BY DEF CoordinatedPosts
<1>4. fs = [h \in Games |-> IF h \notin group THEN feed[h]
                          ELSE IF h = lead THEN "open" ELSE "cancelled"]
  BY <1>2 DEF CoordinatedFeeds
<1>5. ASSUME NEW r \in PostRow, NEW x, NEW y
      PROVE  /\ [r EXCEPT !.bundle = x, !.state = y].bundle = x
             /\ [r EXCEPT !.bundle = x, !.state = y].state = y
             /\ [r EXCEPT !.bundle = x, !.state = y].read = r.read
  BY DEF PostRow
<1> HIDE DEF group, ps, fs, lead
<1>6. ASSUME NEW h \in Games, h \in group
      PROVE  /\ ps[h].bundle = group /\ ps[h].read = post[h].read
             /\ ps[h].state = IF h = lead /\ post[h].state = "approved" THEN "reapproval" ELSE post[h].state
             /\ fs[h] = IF h = lead THEN "open" ELSE "cancelled"
             /\ Contribution(ps, h) = group
  <2> DEFINE y == IF h = lead /\ post[h].state = "approved" THEN "reapproval" ELSE post[h].state
  <2>1. ps[h] = [post[h] EXCEPT !.bundle = group, !.state = y]
    BY <1>3, <1>6
  <2> HIDE DEF y
  <2>2. ps[h].bundle = group /\ ps[h].read = post[h].read /\ ps[h].state = y
    BY <1>1, <1>5, <2>1
  <2>3. Contribution(ps, h) = group
    BY <1>6, <2>2 DEF Contribution
  <2>4. QED  BY <1>4, <1>6, <2>2, <2>3 DEF y
<1>7. ASSUME NEW h \in Games, h \notin group
      PROVE  ps[h] = post[h] /\ fs[h] = feed[h] /\ Contribution(ps, h) = Contribution(post, h)
  <2>1. ps[h] = post[h] /\ fs[h] = feed[h]
    BY <1>3, <1>4, <1>7
  <2>2. QED  BY <2>1 DEF Contribution
<1>8. BundlesFit(game, ps, fs)
  <2>1. ASSUME NEW h \in Games
        PROVE  /\ ps[h].bundle # {} => h \in ps[h].bundle
               /\ ~(game[h].tied /\ game[h].apart)
               /\ ps[h].state = "none" => fs[h] = "none" /\ ps[h].bundle = {}
               /\ game[h].apart => ps[h].bundle = {}
    <3>1. /\ post[h].bundle # {} => h \in post[h].bundle
          /\ ~(game[h].tied /\ game[h].apart)
          /\ post[h].state = "none" => feed[h] = "none" /\ post[h].bundle = {}
          /\ game[h].apart => post[h].bundle = {}
      BY DEF BundleInv, BundlesFit
    <3>2. CASE h \in group
      BY <1>2, <1>6, <3>1, <3>2
    <3>3. CASE h \notin group
      BY <1>7, <3>1, <3>3
    <3>4. QED  BY <3>2, <3>3
  <2>2. QED  BY <2>1 DEF BundlesFit
<1>9. ASSUME ~Regroups(g), FeedInv, NEW h \in Games
      PROVE  /\ Reciprocal(ps, h)
             /\ fs[h] = "scheduled" => h = Lead(Contribution(ps, h))
             /\ sent[h] <= 1
             /\ sent[h] = 1 => fs[Lead(Contribution(ps, h))] = "published"
  <2>1. ASSUME NEW x \in group
        PROVE  post[x].bundle = {}
    <3>1. post[x].bundle \in {{}, group}
      BY <1>9 DEF Regroups, group
    <3>2. CASE post[x].bundle = group
      <4>1. x \in Games
        BY <1>2
      <4>2. lead \in Contribution(post, x)
        BY <1>2, <3>2 DEF Contribution
      <4>3. post[lead].bundle = group
        BY <1>9, <3>2, <4>1, <4>2 DEF FeedInv, FeedsFit, Reciprocal
      <4>4. QED  BY <1>2, <4>3
    <3>3. QED  BY <3>1, <3>2
  <2>2. CASE h \in group
    <3>1. Contribution(post, h) = {h}
      BY <2>1, <2>2 DEF Contribution
    <3>2. Lead({h}) = h
      BY LeadOfOne
    <3>3. feed[h] # "published"
      BY <1>2, <2>2
    <3>4. sent[h] <= 1 /\ sent[h] # 1
      BY <1>9, <3>1, <3>2, <3>3 DEF FeedInv, FeedsFit
    <3>5. Reciprocal(ps, h)
      <4>1. Contribution(ps, h) = group /\ ps[h].bundle = group
        BY <1>6, <2>2
      <4>2. \A x \in group : ps[x].bundle = group
        BY <1>2, <1>6
      <4>3. QED  BY <4>1, <4>2 DEF Reciprocal
    <3>6. fs[h] # "scheduled"
      BY <1>6, <2>2
    <3>7. QED  BY <3>4, <3>5, <3>6
  <2>3. CASE h \notin group
    <3>1. /\ Reciprocal(post, h) /\ (feed[h] = "scheduled" => h = Lead(Contribution(post, h)))
          /\ sent[h] <= 1 /\ (sent[h] = 1 => feed[Lead(Contribution(post, h))] = "published")
      BY <1>9 DEF FeedInv, FeedsFit
    <3>2. ASSUME NEW x \in Contribution(post, h)
          PROVE  x \in Games /\ x \notin group
      <4>1. x \in Games
        BY <1>1, <3>2, ContributionTypes
      <4>2. ASSUME x \in group
            PROVE  FALSE
        <5>1. post[h].bundle = {}
          BY <2>1, <3>1, <3>2, <4>2 DEF Reciprocal
        <5>2. x = h
          BY <3>2, <5>1 DEF Contribution
        <5>3. QED  BY <2>3, <4>2, <5>2
      <4>3. QED  BY <4>1, <4>2
    <3>3. Lead(Contribution(post, h)) \in Contribution(post, h)
      BY <1>1, ContributionTypes
    <3>4. Contribution(ps, h) = Contribution(post, h) /\ ps[h] = post[h] /\ fs[h] = feed[h]
      BY <1>7, <2>3
    <3>5. \A x \in Contribution(post, h) : ps[x] = post[x] /\ fs[x] = feed[x]
      BY <1>7, <3>2
    <3>6. Reciprocal(ps, h)
      BY <3>1, <3>4, <3>5 DEF Reciprocal
    <3>7. QED  BY <3>1, <3>3, <3>4, <3>5, <3>6
  <2>4. QED  BY <2>2, <2>3
<1>10. ASSUME ApprovalInv, NEW h \in Games, ps[h].state = "approved", NEW x \in ShownBy(ps, h)
       PROVE  ps[h].read[x] = game[x].score
  <2>1. post[h].state = "approved" /\ post[h].read = ps[h].read
    BY <1>6, <1>7, <1>10
  <2>2. x \in ShownBy(post, h)
    <3>1. CASE h \in group
      <4>1. h # lead /\ Contribution(ps, h) = group
        BY <1>6, <1>10, <3>1
      <4>2. x = h
        BY <1>10, <4>1 DEF ShownBy, lead
      <4>3. QED  BY <1>1, <4>2, ShowsItself
    <3>2. CASE h \notin group
      BY <1>7, <1>10, <3>2 DEF ShownBy
    <3>3. QED  BY <3>1, <3>2
  <2>3. QED  BY <1>10, <2>1, <2>2 DEF ApprovalInv, ApprovalsFit
<1>11. QED  BY <1>8, <1>9, <1>10 DEF FeedsFit, ApprovalsFit, ps, fs

\* The coordination keeps what fits; so does the automatic approval, but for results.
LEMMA CoordinationKeeps ==
    ASSUME TypeInv, TypeInv', BundleInv, NEW j \in jobs, process_generation_job(j)
    PROVE  /\ BundleInv'
           /\ "regroup" \notin Perils /\ FeedInv => FeedInv'
           /\ "auto" \notin Perils /\ ApprovalInv => ApprovalInv'
<1> DEFINE g == LastOf(j)
           ps == CoordinatedPosts(g, post)
           fs == CoordinatedFeeds(g, post, feed)
           x == Lead(j.games)
           lead == AutoLead(j, ps)
           read == Drawn(ps, Contribution(ps, lead))
<1>1. g \in Games /\ x \in Games
  <2>1. j.games \in SUBSET Games /\ j.games # {}
    BY DEF TypeInv, JobRow
  <2>2. LastOf(j) \in j.games /\ Lead(j.games) \in j.games
    BY <2>1, LastMember, LeadMember
  <2>3. QED  BY <2>1, <2>2
<1>2. /\ ~Conflict(g, post, feed) /\ ("regroup" \in Perils \/ ~Regroups(g))
      /\ game' = game /\ sent' = sent
      /\ \/ post' = ps /\ feed' = fs
         \/ /\ AutoApproved(j, ps, fs)
            /\ post' = [ps EXCEPT ![lead].state = "approved", ![lead].read = read]
            /\ feed' = [fs EXCEPT ![lead] = "scheduled"]
  BY DEF process_generation_job, Uncoordinated
<1>3. ps \in [Games -> PostRow] /\ fs \in [Games -> FeedStates]
  BY <1>1, CoordinationTypes
<1>4. /\ BundlesFit(game, ps, fs)
      /\ "regroup" \notin Perils /\ FeedInv => FeedsFit(ps, fs, sent)
      /\ ApprovalInv => ApprovalsFit(game, ps)
  <2>1. CASE ~Complete(g, post) \/ MadeBefore(generation_bundle_games(g), post)
    BY <1>1, <2>1, OldBundlesStay DEF ApprovalInv
  <2>2. CASE Complete(g, post) /\ ~MadeBefore(generation_bundle_games(g), post)
    BY <1>1, <1>2, <2>2, NewCarouselFits
  <2>3. QED  BY <2>1, <2>2
<1>5. lead \in Games /\ lead = Lead(Contribution(ps, x)) /\ lead \in Contribution(ps, x)
  <2> HIDE DEF ps, x
  <2>1. lead = Lead(Contribution(ps, x))
    BY DEF AutoLead, x
  <2>2. QED  BY <1>1, <1>3, <2>1, ContributionTypes
<1>6. AutoApproved(j, ps, fs) => "auto" \in Perils /\ fs[lead] = "open"
  BY DEF AutoApproved
<1> HIDE DEF g, ps, fs, x, lead, read
<1>7. CASE post' = ps /\ feed' = fs
  <2>1. BundlesFit(game', post', feed')
    BY <1>2, <1>4, <1>7
  <2>2. "regroup" \notin Perils /\ FeedInv => FeedsFit(post', feed', sent')
    BY <1>2, <1>4, <1>7
  <2>3. ApprovalInv => ApprovalsFit(game', post')
    BY <1>2, <1>4, <1>7
  <2>4. QED  BY <2>1, <2>2, <2>3 DEF BundleInv, FeedInv, ApprovalInv, BundlesFit, FeedsFit, ApprovalsFit
<1>8. CASE /\ AutoApproved(j, ps, fs)
           /\ post' = [ps EXCEPT ![lead].state = "approved", ![lead].read = read]
           /\ feed' = [fs EXCEPT ![lead] = "scheduled"]
  <2>1. /\ \A h \in Games : post'[h].bundle = ps[h].bundle /\ (h # lead => post'[h] = ps[h])
        /\ post'[lead].state = "approved"
    <3> DEFINE row == [ps[lead] EXCEPT !.state = "approved", !.read = read]
    <3>1. row.bundle = ps[lead].bundle /\ row.state = "approved"
      BY <1>3, <1>5 DEF PostRow
    <3>2. post' = [ps EXCEPT ![lead] = row]
      BY <1>3, <1>5, <1>8
    <3> HIDE DEF row
    <3>3. QED  BY <1>3, <1>5, <3>1, <3>2
  <2>2. \A h \in Games : feed'[h] = IF h = lead THEN "scheduled" ELSE fs[h]
    BY <1>3, <1>8
  <2>3. BundleInv'
    BY <1>2, <1>4, <2>1, <2>2 DEF BundleInv, BundlesFit
  <2>4. post' \in [Games -> PostRow]
    BY DEF TypeInv
  <2>5. ASSUME NEW h \in Games
        PROVE  /\ Contribution(post', h) = Contribution(ps, h)
               /\ Reciprocal(post', h) <=> Reciprocal(ps, h)
               /\ Lead(Contribution(ps, h)) \in Games
    BY <1>3, <2>1, <2>4, SameBundles, ContributionTypes
  <2>6. ASSUME "regroup" \notin Perils, FeedInv
        PROVE  FeedInv'
    <3>1. FeedsFit(ps, fs, sent)
      BY <1>4, <2>6
    <3>2. Contribution(ps, lead) = Contribution(ps, x)
      <4>1. ps[lead].bundle = ps[x].bundle
        BY <1>1, <1>5, <3>1 DEF FeedsFit, Reciprocal
      <4>2. QED  BY <1>5, <4>1 DEF Contribution
    <3>3. lead = Lead(Contribution(ps, lead))
      BY <1>5, <3>2
    <3>4. fs[lead] = "open"
      BY <1>6, <1>8
    <3>5. QED  BY <1>2, <2>2, <2>5, <3>1, <3>3, <3>4 DEF FeedInv, FeedsFit
  <2>7. "auto" \in Perils
    BY <1>6, <1>8
  <2>8. QED  BY <2>3, <2>6, <2>7
<1>9. QED  BY <1>2, <1>7, <1>8

-----------------------------------------------------------------------------
(* The invariants                                                          *)

\* In the beginning there are no posts.
LEMMA BundlesInit ==
    ASSUME Init
    PROVE  BundleInv /\ FeedInv /\ ApprovalInv
<1>1. \A g \in Games : /\ post[g].bundle = {} /\ post[g].state = "none" /\ feed[g] = "none" /\ sent[g] = 0
                       /\ ~game[g].tied /\ ~game[g].apart
  BY DEF Init, NoPost, NewGame
<1>2. BundleInv
  BY <1>1 DEF BundleInv, BundlesFit
<1>3. \A g \in Games : Contribution(post, g) = {g}
  BY <1>1 DEF Contribution
<1>4. FeedInv
  BY <1>1, <1>3 DEF FeedInv, FeedsFit, Reciprocal
<1>5. ApprovalInv
  BY <1>1 DEF ApprovalInv, ApprovalsFit
<1>6. QED  BY <1>2, <1>4, <1>5

\* Every step keeps the bundles; the feeds while no game changes its carousel; the
\* approvals while results are confirmed and users approve.
LEMMA BundlesNext ==
    ASSUME TypeInv, TypeInv', BundleInv, [Next]_vars
    PROVE  /\ BundleInv'
           /\ "regroup" \notin Perils /\ FeedInv => FeedInv'
           /\ {"unconfirmed", "auto"} \cap Perils = {} /\ ApprovalInv => ApprovalInv'
<1> DEFINE Safe == /\ BundleInv'
                   /\ "regroup" \notin Perils /\ FeedInv => FeedInv'
                   /\ {"unconfirmed", "auto"} \cap Perils = {} /\ ApprovalInv => ApprovalInv'
<1>1. Ordinary => Safe
  BY OrdinaryKeeps
<1>2. CASE UNCHANGED vars
  <2>1. Ordinary
    BY <1>2 DEF vars, Ordinary, KeepsTies, KeepsBundles, KeepsScores, KeepsApprovals, KeepsFeeds
  <2>2. QED  BY <1>1, <2>1
<1>3. ASSUME NEW g \in Games,
             PageChanges(g) \/ Synchronise(g) \/ plan_generation_jobs(g)
      PROVE  Safe
  <2>1. CASE import_snapshot(g)
    BY <2>1, ImportKeeps
  <2>2. QED  BY <1>1, <1>3, <2>1, QueueStepsAreOrdinary DEF Synchronise
<1>4. ASSUME NEW g \in Games, CommandOnGame(g)
      PROVE  Safe
  <2>1. ASSUME NEW s \in Scores, confirm_game_result(g, s)
        PROVE  Safe
    BY <2>1, ConfirmationKeeps
  <2>2. CASE restore_provider_game(g)
    BY <1>1, <2>2, QueueStepsAreOrdinary
  <2>3. CASE update_game_details(g) \/ delete_game(g)
    BY <1>1, <2>3, CommandsAreOrdinary
  <2>4. QED  BY <1>4, <2>1, <2>2, <2>3 DEF CommandOnGame
<1>5. ASSUME NEW g \in Games, CommandOnPost(g) \/ Publish(g)
      PROVE  Safe
  <2>1. CASE reorder_matchday_carousel(g)
    BY <1>1, <2>1, CommandsAreOrdinary
  <2>2. CASE approve_matchday_bundle(g)
    BY <2>2, ApprovalKeeps
  <2>3. CASE delete_unpublished_post(g)
    BY <2>3, DeletionKeeps
  <2>4. CASE Publish(g)
    BY <2>4, TransferKeeps
  <2>5. QED  BY <1>5, <2>1, <2>2, <2>3, <2>4 DEF CommandOnPost
<1>6. ASSUME NEW G \in SUBSET Games, connect_games(G) \/ separate_matchday_posts(G)
      PROVE  Safe
  BY <1>6, ConnectKeeps, SeparateKeeps
<1>7. ASSUME NEW j \in jobs,
             \/ claim_next(j) \/ create_post(j) \/ process_generation_job(j) \/ GenerationFails(j)
             \/ ProviderFails(j) \/ retry_job(j)
      PROVE  Safe
  <2>1. CASE process_generation_job(j)
    BY <2>1, CoordinationKeeps
  <2>2. CASE retry_job(j)
    BY <1>1, <2>2, QueueStepsAreOrdinary, MatchdayAssumption
  <2>3. QED  BY <1>1, <1>7, <2>1, <2>2, JobStepsAreOrdinary
<1> SUFFICES Safe
  OBVIOUS
<1> HIDE DEF Safe
<1>8. CASE Next
  <2>1. CASE \E g \in Games : PageChanges(g) \/ Synchronise(g) \/ plan_generation_jobs(g)
                             \/ CommandOnGame(g) \/ CommandOnPost(g) \/ Publish(g)
    BY <1>3, <1>4, <1>5, <2>1
  <2>2. CASE \E G \in (SUBSET Games) \ {{}} : connect_games(G) \/ separate_matchday_posts(G)
    BY <1>6, <2>2
  <2>3. CASE Generate \/ \E j \in jobs : ProviderFails(j) \/ retry_job(j)
    BY <1>7, <2>3 DEF Generate
  <2>4. QED  BY <1>8, <2>1, <2>2, <2>3 DEF Next
<1>9. QED  BY <1>2, <1>8 DEF Safe

\* Fitting bundles keep separated games apart.
LEMMA BundlesImply ==
    /\ BundleInv => StaysApart
    /\ FeedInv => OneFeed
    /\ ApprovalInv => ApprovedAsShown
<1>1. \A g \in Games : Shown(g) = ShownBy(post, g)
  BY DEF Shown, ShownBy, Leads
<1>2. ApprovalInv => ApprovedAsShown
  BY <1>1 DEF ApprovalInv, ApprovalsFit, ApprovedAsShown
<1>3. BundleInv => StaysApart
  BY DEF BundleInv, BundlesFit, StaysApart
<1>4. FeedInv => OneFeed
  BY DEF FeedInv, FeedsFit, OneFeed
<1>5. QED  BY <1>2, <1>3, <1>4

(* A game a user or a rescheduling separated is in no bundle until it is connected again,
   whatever jobs waited, ran or failed meanwhile, and whichever games join which. *)
THEOREM SeparatedStaysApart == Spec => []StaysApart
<1>1. Init => TypeInv /\ BundleInv
  BY TypesInit, BundlesInit
<1>2. TypeInv /\ BundleInv /\ [Next]_vars => TypeInv' /\ BundleInv'
  BY TypesNext, BundlesNext
<1>3. BundleInv => StaysApart
  BY BundlesImply
<1>4. QED  BY <1>1, <1>2, <1>3, PTL DEF Spec

(* As long as no game of a carousel joins another one, no game is shown by two feed
   publications, and separated games stay apart. *)
THEOREM GamesShownOnce ==
    ASSUME "regroup" \notin Perils
    PROVE  Spec => []FeedsTogether
<1>1. Init => TypeInv /\ BundleInv /\ FeedInv
  BY TypesInit, BundlesInit
<1>2. TypeInv /\ BundleInv /\ FeedInv /\ [Next]_vars => TypeInv' /\ BundleInv' /\ FeedInv'
  BY TypesNext, BundlesNext
<1>3. BundleInv /\ FeedInv => FeedsTogether
  BY BundlesImply DEF FeedsTogether
<1>4. QED  BY <1>1, <1>2, <1>3, PTL DEF Spec

(* Where users approve confirmed results, an approval does not outlive a change of a
   result it was given for, in whichever post of the matchday the result is shown. *)
THEOREM ApprovalsShowResults ==
    ASSUME {"unconfirmed", "auto"} \cap Perils = {}
    PROVE  Spec => []ApprovedAsShown
<1>1. Init => TypeInv /\ BundleInv /\ ApprovalInv
  BY TypesInit, BundlesInit
<1>2. TypeInv /\ BundleInv /\ ApprovalInv /\ [Next]_vars => TypeInv' /\ BundleInv' /\ ApprovalInv'
  BY TypesNext, BundlesNext
<1>3. ApprovalInv => ApprovedAsShown
  BY BundlesImply
<1>4. QED  BY <1>1, <1>2, <1>3, PTL DEF Spec
=============================================================================
