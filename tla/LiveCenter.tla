------------------------------ MODULE LiveCenter ------------------------------
(***************************************************************************)
(* The live centre of one game: reports from the touchline become events,  *)
(* confirmed events make the live score and the game's result, and a       *)
(* confirmed event with a rule is delivered to WhatsApp recipients.        *)
(*                                                                         *)
(* The own team plays at home.  The rule covers the events of Announced,   *)
(* and their one delivery is modelled; players and minutes are abstracted  *)
(* to the incident a report is about.                                      *)
(***************************************************************************)
EXTENDS Integers, FiniteSets

CONSTANTS Messages,    \* reports, each with a provider id of its own
          Report,      \* Report[m]: type, stated score and incident of m
          Trusted,     \* messages of reporters whose reports need no confirmation
          Announced,   \* messages whose event has an enabled rule
          Recipients, Workers,
          MaxCrashes, MaxSwitches,
          Perils       \* subset of {"stale_decision", "garbled"}

None == "none"
NoScore == [own |-> -1, opponent |-> -1]
Unnamed == "any"           \* a report that names neither player nor minute

EventTypes == {"kickoff", "goal", "opponent_goal", "score_update", "fulltime",
               "score_correction", "comment"}

ASSUME LiveAssumption ==
    /\ Trusted \subseteq Messages /\ Announced \subseteq Messages
    /\ \A m \in Messages : /\ Report[m].type \in EventTypes
                           /\ Report[m].score \in [own : Nat, opponent : Nat] \cup {NoScore}
    /\ MaxCrashes \in Nat /\ MaxSwitches \in Nat
    /\ Perils \subseteq {"stale_decision", "garbled"}

VARIABLES event,     \* match_events: what became of each message
          inbox,     \* inbox[m]: "new" until the webhook's row for m is committed
          reading,   \* reading[m]: the live state as the session storing m read it
          state,     \* live_game_states
          result,    \* the game's own score and whether it is confirmed
          decision,  \* decision[m]: confirmations and rejections that read m as pending
          delivery,  \* status of the live_event_deliveries row
          attempt,   \* status of the live_delivery_attempts row of each recipient
          worker,    \* delivery workers
          ruling,    \* administrators deciding about the delivery
          accepted,  \* ghost: messages WhatsApp took and did not report as failed
          receipts,  \* status webhooks processed
          known,     \* recipients whose attempt has its platform id
          optin,     \* recipients with a confirmed opt-in
          off,       \* what an administrator has switched off
          bounds     \* crashes and switches so far

events == <<event, inbox, reading, state, result, decision>>
sending == <<delivery, attempt, worker, ruling, accepted, receipts, known>>
vars == <<events, sending, optin, off, bounds>>

Administrators == {"a1", "a2"}
Event == [status : {None, "pending", "confirmed", "rejected"}, type : EventTypes \cup {None},
          score : [own : Int, opponent : Int], warned : BOOLEAN]
State == [phase : {"scheduled", "first_half", "finished"}, own : Nat, opponent : Nat]
Result == [confirmed : BOOLEAN, own : Nat, opponent : Nat]
DeliveryStatus == {None, "awaiting_approval", "queued", "processing", "sent", "delivered",
                   "failed", "blocked", "cancelled"}
Handled == {"processing", "sent", "delivered", "read", "uncertain"}
AttemptStatus == {None, "failed"} \cup Handled
Served == {"sent", "delivered", "read"}
Worker == [phase : {"idle", "listed", "sending", "calling", "failing"}, todo : SUBSET Recipients,
           own : SUBSET Recipients, target : Recipients \cup {None}, mark : {None, "failed", "blocked"}]
Idle == [phase |-> "idle", todo |-> {}, own |-> {}, target |-> None, mark |-> None]

(***************************************************************************)
(* Reports and events (live/service.py)                                    *)
(***************************************************************************)
Score(st) == [own |-> st.own, opponent |-> st.opponent]
Unread == [phase |-> None, own |-> 0, opponent |-> 0]

\* Mutant of GameFree: the state is read without the game's row lock.
NoLock == TRUE

\* The row lock on the game, held from get_or_create_state to the commit.
GameFree == \A m \in Messages : reading[m] = Unread

_resolve_score_update(m, st) ==
    IF Report[m].type # "score_update" THEN Report[m].type
    ELSE IF Report[m].score.own = st.own + 1 /\ Report[m].score.opponent = st.opponent THEN "goal"
    ELSE IF Report[m].score.own = st.own /\ Report[m].score.opponent = st.opponent + 1
         THEN "opponent_goal" ELSE None

_derived_score(m, type, st) ==
    CASE Report[m].score # NoScore -> Report[m].score
      [] Report[m].score = NoScore /\ type = "goal" -> [Score(st) EXCEPT !.own = @ + 1]
      [] Report[m].score = NoScore /\ type = "opponent_goal" -> [Score(st) EXCEPT !.opponent = @ + 1]
      [] OTHER -> NoScore

SameIncident(m, c) == Report[m].fact = Unnamed \/ Report[c].fact = Unnamed \/ Report[m].fact = Report[c].fact

\* recent: the events of the last three minutes.
_semantic_duplicate(m, type, score, recent) ==
    \E c \in recent :
       /\ event[c].status \in {"pending", "confirmed"}
       /\ event[c].type = type \/ (Report[m].type = "score_update"
                                   /\ event[c].type \in {"goal", "opponent_goal"})
       /\ SameIncident(m, c)
       /\ score = NoScore \/ event[c].score = NoScore \/ event[c].score = score

\* Mutant of _validate_transition: an event after the final whistle is no conflict.
ScoreOnly(type, score, st) ==
    /\ score # NoScore
    /\ \/ (score.own < st.own \/ score.opponent < st.opponent) /\ type # "score_correction"
       \/ type = "score_correction"

_validate_transition(type, score, st) ==
    \/ /\ score # NoScore
       /\ \/ (score.own < st.own \/ score.opponent < st.opponent) /\ type # "score_correction"
          \/ type \in {"goal", "opponent_goal"}
             /\ (score.own - st.own > 1 \/ score.opponent - st.opponent > 1)
          \/ type = "score_correction"
    \/ st.phase = "finished" /\ type \notin {"score_correction", "comment"}

PhaseForEvent(type, phase) ==
    CASE type = "kickoff" -> "first_half" [] type = "fulltime" -> "finished" [] OTHER -> phase

\* apply_confirmed_event
Applied(type, score, st) ==
    LET s == IF score = NoScore THEN Score(st) ELSE score
    IN [phase |-> PhaseForEvent(type, st.phase), own |-> s.own, opponent |-> s.opponent]

ResultAfter(type, st) ==
    IF type \in {"fulltime", "score_correction"}
    THEN [confirmed |-> result.confirmed \/ type = "fulltime", own |-> st.own, opponent |-> st.opponent]
    ELSE result

\* plan_live_deliveries: one row for each event, rule and connection.
plan_live_deliveries(m) ==
    IF m \notin Announced \/ delivery # None THEN delivery' = delivery
    ELSE IF "distribution" \in off \/ optin = {} THEN delivery' = "blocked"
    ELSE delivery' \in {"queued", "awaiting_approval"}

\* ingest_whatsapp_message up to the lock on the game.
Receive(m) ==
    /\ inbox[m] = "new"
    /\ IF "reporter" \in off
       THEN inbox' = [inbox EXCEPT ![m] = "done"] /\ UNCHANGED reading
       ELSE /\ GameFree /\ reading[m] = Unread
            /\ reading' = [reading EXCEPT ![m] = state] /\ UNCHANGED inbox
    /\ UNCHANGED <<event, state, result, decision, sending, optin, off, bounds>>

\* create_match_event with what the session read, and the webhook's commit.
create_match_event(m, recent) ==
    LET st == reading[m]
        type == _resolve_score_update(m, st)
        score == _derived_score(m, type, st)
        warned == _validate_transition(type, score, st)
        confirmed == m \in Trusted /\ ~warned
        ignored == type = None \/ _semantic_duplicate(m, type, score, recent)
    IN /\ reading[m] # Unread
       /\ inbox' = [inbox EXCEPT ![m] = "done"]
       /\ reading' = [reading EXCEPT ![m] = Unread]
       /\ event' = IF ignored THEN event
                   ELSE [event EXCEPT ![m] =
                           [status |-> IF confirmed THEN "confirmed" ELSE "pending", type |-> type,
                            score |-> score, warned |-> warned]]
       /\ IF confirmed /\ ~ignored
          THEN /\ state' = Applied(type, score, st)
               /\ result' = ResultAfter(type, state')
               /\ plan_live_deliveries(m)
          ELSE UNCHANGED <<state, result, delivery>>
       /\ UNCHANGED <<decision, attempt, worker, ruling, accepted, receipts, known, optin, off, bounds>>

\* The web process dies before the commit, and Meta delivers the message again.
Lost(m) ==
    /\ reading[m] # Unread /\ bounds.crashes < MaxCrashes
    /\ reading' = [reading EXCEPT ![m] = Unread]
    /\ bounds' = [bounds EXCEPT !.crashes = @ + 1]
    /\ UNCHANGED <<event, inbox, state, result, decision, sending, optin, off>>

\* approve_event and reject_event read the event's status without a lock.
Consider(m, d) ==
    /\ event[m].status = "pending" /\ d \notin decision[m]
    /\ d = "confirm" => ~event[m].warned
    /\ decision' = [decision EXCEPT ![m] = @ \cup {d}]
    /\ UNCHANGED <<event, inbox, reading, state, result, sending, optin, off, bounds>>

\* The other session's refusal ends it, unless its decision is stale.
Undecided(m, d) == IF "stale_decision" \in Perils THEN decision[m] \ {d} ELSE {}

confirm_event(m) ==
    /\ "confirm" \in decision[m] /\ GameFree
    /\ "stale_decision" \notin Perils => event[m].status = "pending"
    /\ event' = [event EXCEPT ![m].status = "confirmed"]
    /\ state' = Applied(event[m].type, event[m].score, state)
    /\ result' = ResultAfter(event[m].type, state')
    /\ plan_live_deliveries(m)
    /\ decision' = [decision EXCEPT ![m] = Undecided(m, "confirm")]
    /\ UNCHANGED <<inbox, reading, attempt, worker, ruling, accepted, receipts, known, optin, off, bounds>>

reject_event(m) ==
    /\ "reject" \in decision[m]
    /\ "stale_decision" \notin Perils => event[m].status = "pending"
    /\ event' = [event EXCEPT ![m].status = "rejected"]
    /\ decision' = [decision EXCEPT ![m] = Undecided(m, "reject")]
    /\ UNCHANGED <<inbox, reading, state, result, sending, optin, off, bounds>>

(***************************************************************************)
(* Delivery (live/publishing.py, the decision in live/routes.py)           *)
(***************************************************************************)
Unsent == <<accepted, receipts, known>>

\* The first to look is called a1.  decide_delivery reads and writes the row without a lock.
ReadDelivery(a, d) ==
    /\ delivery = "awaiting_approval" /\ ruling[a] = None
    /\ a = "a2" => ruling["a1"] # None
    /\ ruling' = [ruling EXCEPT ![a] = d]
    /\ UNCHANGED <<events, delivery, attempt, worker, Unsent, optin, off, bounds>>

decide_delivery(a) ==
    /\ ruling[a] \in {"approve", "reject"}
    /\ delivery' = IF ruling[a] = "approve" THEN "queued" ELSE "cancelled"
    /\ ruling' = [ruling EXCEPT ![a] = "done"]
    /\ UNCHANGED <<events, attempt, worker, Unsent, optin, off, bounds>>

\* The cycle's list of due deliveries, which may be stale when its turn comes.
_candidate_ids(w) ==
    /\ worker[w].phase = "idle" /\ delivery = "queued"
    /\ worker' = [worker EXCEPT ![w].phase = "listed"]
    /\ UNCHANGED <<events, delivery, attempt, ruling, Unsent, optin, off, bounds>>

_assert_delivery_gates ==
    /\ delivery = "queued" /\ "distribution" \notin off /\ optin # {}
    /\ \E m \in Announced : event[m].status = "confirmed"

BeginDelivery(w) ==
    /\ worker[w].phase = "listed"
    /\ IF _assert_delivery_gates
       THEN /\ delivery' = "processing"
            /\ worker' = [worker EXCEPT ![w] = [Idle EXCEPT !.phase = "sending", !.todo = optin]]
       ELSE /\ worker' = [worker EXCEPT ![w] = [Idle EXCEPT !.phase = "failing", !.mark = "blocked"]]
            /\ UNCHANGED delivery
    /\ UNCHANGED <<events, attempt, ruling, Unsent, optin, off, bounds>>

\* Mutant of Claimable: an attempt with an unclear answer may be called again.
ClaimsUncertain(r) == attempt[r] \notin Handled \ {"uncertain"}

Claimable(r) == attempt[r] \notin Handled

\* The recipients in the order of their ids.
_claim_attempt(w) ==
    LET r == CHOOSE q \in worker[w].todo : TRUE IN
    /\ worker[w].phase = "sending" /\ worker[w].todo # {}
    /\ IF Claimable(r)
       THEN /\ attempt' = [attempt EXCEPT ![r] = "processing"]
            /\ worker' = [worker EXCEPT ![w].phase = "calling", ![w].target = r,
                                        ![w].todo = @ \ {r}, ![w].own = @ \cup {r}]
       ELSE /\ worker' = [worker EXCEPT ![w].todo = @ \ {r}] /\ UNCHANGED attempt
    /\ UNCHANGED <<events, delivery, ruling, Unsent, optin, off, bounds>>

\* The answers of WhatsApp: taken, refused, none at all, or a 2xx without an id.
Answers ==
    {[status |-> "sent", taken |-> 1, mark |-> None],
     [status |-> "failed", taken |-> 0, mark |-> "failed"],
     [status |-> "uncertain", taken |-> 0, mark |-> "failed"],
     [status |-> "uncertain", taken |-> 1, mark |-> "failed"]}
    \cup IF "garbled" \in Perils
         THEN {[status |-> "failed", taken |-> 1, mark |-> "blocked"]} ELSE {}

Publish(w) ==
    LET r == worker[w].target IN
    \E a \in Answers :
        /\ worker[w].phase = "calling"
        /\ attempt' = [attempt EXCEPT ![r] = a.status]
        /\ accepted' = [accepted EXCEPT ![r] = @ + a.taken]
        /\ known' = IF a.status = "sent" THEN known \cup {r} ELSE known
        /\ worker' = [worker EXCEPT ![w].phase = IF a.mark = None THEN "sending" ELSE "failing",
                                    ![w].target = None, ![w].mark = a.mark]
        /\ UNCHANGED <<events, delivery, ruling, receipts, optin, off, bounds>>

\* The status of a delivery whose attempts s have all been served, or its old one.
Tally(s, started) ==
    IF started = {} \/ \E r \in started : s[r] \notin Served THEN delivery
    ELSE IF \A r \in started : s[r] \in {"delivered", "read"} THEN "delivered" ELSE "sent"

Started == {r \in Recipients : attempt[r] # None}

\* After the loop: attempts of its own calls are read from the session's cache.
FinishDelivery(w) ==
    LET view == [r \in Recipients |-> IF r \in worker[w].own THEN "sent" ELSE attempt[r]] IN
    /\ worker[w].phase = "sending" /\ worker[w].todo = {}
    /\ delivery' = Tally(view, Started)
    /\ worker' = [worker EXCEPT ![w] = Idle]
    /\ UNCHANGED <<events, attempt, ruling, Unsent, optin, off, bounds>>

_mark_failed(w) ==
    /\ worker[w].phase = "failing"
    /\ delivery' = worker[w].mark
    /\ worker' = [worker EXCEPT ![w] = Idle]
    /\ UNCHANGED <<events, attempt, ruling, Unsent, optin, off, bounds>>

WorkerDies(w) ==
    /\ worker[w] # Idle /\ bounds.crashes < MaxCrashes
    /\ worker' = [worker EXCEPT ![w] = Idle]
    /\ bounds' = [bounds EXCEPT !.crashes = @ + 1]
    /\ UNCHANGED <<events, delivery, attempt, ruling, Unsent, optin, off>>

\* Mutant of recover_stale_live_deliveries: it looks for attempts in flight only.
RecoverInFlight ==
    LET inFlight == {r \in Recipients : attempt[r] = "processing"} IN
    /\ delivery = "processing" /\ inFlight # {}
    /\ \A w \in Workers : worker[w].phase \notin {"sending", "calling"}
    /\ attempt' = [r \in Recipients |-> IF r \in inFlight THEN "uncertain" ELSE attempt[r]]
    /\ delivery' = "failed"
    /\ UNCHANGED <<events, worker, ruling, Unsent, optin, off, bounds>>

\* A row untouched for a quarter of an hour: its worker is gone.
recover_stale_live_deliveries ==
    LET inFlight == {r \in Recipients : attempt[r] = "processing"} IN
    /\ delivery = "processing"
    /\ \A w \in Workers : worker[w].phase \notin {"sending", "calling"}
    /\ attempt' = [r \in Recipients |-> IF r \in inFlight THEN "uncertain" ELSE attempt[r]]
    /\ delivery' = IF inFlight # {} THEN "failed"
                   ELSE IF Tally(attempt, Started) # delivery THEN Tally(attempt, Started)
                   ELSE IF Started # {} THEN "failed" ELSE "queued"
    /\ UNCHANGED <<events, worker, ruling, Unsent, optin, off, bounds>>

(***************************************************************************)
(* Webhooks and switches                                                   *)
(***************************************************************************)
Statuses == {"delivered", "failed"}

\* A status webhook; without the platform id it finds no attempt.  "sent" changes
\* nothing and "read" is like "delivered".
Receipt(r, status) ==
    /\ accepted[r] > 0
    /\ \A s \in Statuses : <<r, s>> \notin receipts
    /\ receipts' = receipts \cup {<<r, status>>}
    /\ accepted' = IF status = "failed" THEN [accepted EXCEPT ![r] = @ - 1] ELSE accepted
    /\ IF r \notin known THEN UNCHANGED <<attempt, delivery>>
       ELSE /\ attempt' = [attempt EXCEPT ![r] = status]
            /\ delivery' = IF status = "failed" THEN "failed"
                           ELSE IF \A q \in Started : attempt'[q] \in {"delivered", "read"}
                           THEN "delivered" ELSE delivery
    /\ UNCHANGED <<events, worker, ruling, known, optin, off, bounds>>

\* A recipient writes STOP.
OptOut(r) ==
    /\ r \in optin /\ bounds.switches < MaxSwitches
    /\ optin' = optin \ {r}
    /\ bounds' = [bounds EXCEPT !.switches = @ + 1]
    /\ UNCHANGED <<events, sending, off>>

\* The reporter, or the distribution of the game or the club, is switched off or on.
Switch(x) ==
    /\ bounds.switches < MaxSwitches
    /\ off' = IF x \in off THEN off \ {x} ELSE off \cup {x}
    /\ bounds' = [bounds EXCEPT !.switches = @ + 1]
    /\ UNCHANGED <<events, sending, optin>>

(***************************************************************************)
(* Specification                                                           *)
(***************************************************************************)
Init ==
    /\ event = [m \in Messages |-> [status |-> None, type |-> None, score |-> NoScore,
                                    warned |-> FALSE]]
    /\ inbox = [m \in Messages |-> "new"] /\ reading = [m \in Messages |-> Unread]
    /\ state = [phase |-> "scheduled", own |-> 0, opponent |-> 0]
    /\ result = [confirmed |-> FALSE, own |-> 0, opponent |-> 0]
    /\ decision = [m \in Messages |-> {}]
    /\ delivery = None /\ attempt = [r \in Recipients |-> None]
    /\ worker = [w \in Workers |-> Idle] /\ ruling = [a \in Administrators |-> None]
    /\ accepted = [r \in Recipients |-> 0] /\ receipts = {} /\ known = {}
    /\ optin = Recipients /\ off = {}
    /\ bounds = [crashes |-> 0, switches |-> 0]

Cycle(w) == \/ _candidate_ids(w) \/ BeginDelivery(w) \/ Publish(w) \/ FinishDelivery(w)
            \/ _mark_failed(w) \/ _claim_attempt(w)

Next ==
    \/ \E m \in Messages :
          \/ Receive(m) \/ Lost(m) \/ \E recent \in SUBSET Messages : create_match_event(m, recent)
          \/ Consider(m, "confirm") \/ Consider(m, "reject") \/ confirm_event(m) \/ reject_event(m)
    \/ \E a \in Administrators :
          ReadDelivery(a, "approve") \/ ReadDelivery(a, "reject") \/ decide_delivery(a)
    \/ \E w \in Workers : Cycle(w) \/ WorkerDies(w)
    \/ recover_stale_live_deliveries
    \/ \E r \in Recipients :
          OptOut(r) \/ \E status \in Statuses : Receipt(r, status)
    \/ Switch("reporter") \/ Switch("distribution")

Spec == Init /\ [][Next]_vars

\* The worker loop never stops and every call ends.
FairSpec == Spec /\ \A w \in Workers : WF_vars(Cycle(w)) /\ WF_vars(recover_stale_live_deliveries)

(***************************************************************************)
(* Properties                                                              *)
(***************************************************************************)
\* Every row, session and worker has its type.
TypeOK ==
    /\ event \in [Messages -> Event] /\ inbox \in [Messages -> {"new", "done"}]
    /\ \A m \in Messages : reading[m] = Unread \/ reading[m] \in State
    /\ state \in State /\ result \in Result
    /\ decision \in [Messages -> SUBSET {"confirm", "reject"}]
    /\ delivery \in DeliveryStatus
    /\ attempt \in [Recipients -> AttemptStatus]
    /\ worker \in [Workers -> Worker]
    /\ ruling \in [Administrators -> {None, "approve", "reject", "done"}]
    /\ accepted \in [Recipients -> Nat] /\ known \subseteq Recipients /\ optin \subseteq Recipients
    /\ off \subseteq {"reporter", "distribution"}
    /\ bounds.crashes \in 0..MaxCrashes /\ bounds.switches \in 0..MaxSwitches

\* The live score is derived from the confirmed events (docs/LIVE_CENTER.md): no goal
\* is lost and none is counted twice when reporters write at the same time, messages
\* are delivered again or crashes roll a session back.
GoalsCounted ==
    \A side \in {"own", "opponent"} :
       state[side] = Cardinality({m \in Messages : /\ event[m].status = "confirmed"
                                                   /\ event[m].type = IF side = "own" THEN "goal"
                                                                       ELSE "opponent_goal"})

\* A result the game calls confirmed is the score of the live centre.
ResultComplete ==
    result.confirmed => result.own = state.own /\ result.opponent = state.opponent

\* WhatsApp takes the message for a recipient at most once (test_live_center.py:
\* "sent_once_and_idempotent", "never_blindly_repeats_in_flight_send"), however
\* approvals race, workers die and receipts overtake them; a message reported as
\* failed may be sent again.
NeverSentTwice == \A r \in Recipients : accepted[r] <= 1

\* A released delivery is carried out, fails or is blocked, after any crash.
DeliverySettles == delivery = "queued" ~> delivery \notin {"queued", "processing"}
=============================================================================
