------------------------- MODULE LiveAndReports_proofs -------------------------
(***************************************************************************)
(* Two proofs about a game that is played and written about: LiveCenter,   *)
(* for any number of messages, recipients, workers and crashes, and        *)
(* MatchReports, for any number of contacts, requests and changes.  The    *)
(* live score counts every goal once and a recipient gets an event once;   *)
(* what FuPa gets was approved and stays on record, and no contact is      *)
(* asked twice.                                                            *)
(***************************************************************************)
EXTENDS LiveCenter, MatchReports, FiniteSetTheorems, TLAPS

-----------------------------------------------------------------------------
(* Part one: LiveCenter                                                    *)

-----------------------------------------------------------------------------
(* Types                                                                   *)

Scores == [own : Nat, opponent : Nat]

\* What the types rest on: stated scores are scores, and a call has a recipient.
WellFormed ==
    /\ reading \in [Messages -> State \cup {Unread}]
    /\ \A m \in Messages : event[m].score \in Scores \cup {NoScore}
    /\ \A w \in Workers : worker[w].phase = "calling" => worker[w].target \in Recipients
    /\ bounds \in [crashes : 0..MaxCrashes, switches : 0..MaxSwitches]

TypeInv == TypeOK /\ WellFormed

-----------------------------------------------------------------------------
(* Announcements                                                           *)

Calling(w, r) == worker[w].phase = "calling" /\ worker[w].target = r

\* What WhatsApp took is recorded as served or as unclear; a call is made for a
\* row that says so, by one worker.
SendInv ==
    \A r \in Recipients :
        /\ accepted[r] <= 1
        /\ accepted[r] > 0 => attempt[r] \in Served \cup {"uncertain"}
        /\ \A w \in Workers : Calling(w, r) => attempt[r] = "processing"
        /\ \A v, w \in Workers : Calling(v, r) /\ Calling(w, r) => v = w

-----------------------------------------------------------------------------
(* The score                                                               *)

Goals == {"goal", "opponent_goal"}

\* The reports the theorems about the score are about: what may change the score
\* comes from trusted reporters, and only score updates state one.
Counting ==
    \A m \in Messages :
        /\ Report[m].type \in Goals \cup {"score_update"} => m \in Trusted
        /\ Report[m].type # "score_update" => Report[m].score = NoScore
        /\ Report[m].type # "score_correction"

\* The game is kicked off by trusted reporters only.
TrustedKickoff == \A m \in Messages : Report[m].type = "kickoff" => m \in Trusted

\* The one session at a report has read the state as it is.
ReadsCurrent ==
    \A m \in Messages :
        reading[m] # Unread => /\ reading[m] = state
                               /\ \A n \in Messages : reading[n] # Unread => n = m

\* A trusted reporter's event waits only when it contradicts the state, and then
\* nobody can confirm it; no other event moves the score.
EventFits(m) ==
    /\ inbox[m] = "new" \/ reading[m] # Unread =>
           event[m].status = None /\ event[m].type = None /\ decision[m] = {}
    /\ event[m].type \in Goals => m \in Trusted
    /\ event[m].type \notin Goals => event[m].score = NoScore
    /\ event[m].type # "score_correction"
    /\ event[m].type = "kickoff" => Report[m].type = "kickoff"
    /\ m \in Trusted => /\ "confirm" \notin decision[m]
                        /\ event[m].status = "pending" => event[m].warned
                        /\ decision[m] # {} => event[m].status # "confirmed"

GoalsOf(type) == {m \in Messages : event[m].status = "confirmed" /\ event[m].type = type}

\* state.own counts the goals and state.opponent the opponent's.
Counted ==
    /\ IsFiniteSet(GoalsOf("goal")) /\ state.own = Cardinality(GoalsOf("goal"))
    /\ IsFiniteSet(GoalsOf("opponent_goal"))
    /\ state.opponent = Cardinality(GoalsOf("opponent_goal"))

CountInv == TypeInv /\ ReadsCurrent /\ (\A m \in Messages : EventFits(m)) /\ Counted

\* A confirmed result is that of a finished game, whose score no longer moves.
ResultInv == result.confirmed => /\ state.phase = "finished"
                                 /\ result.own = state.own /\ result.opponent = state.opponent

-----------------------------------------------------------------------------
LEMMA StateTypes ==
    ASSUME NEW st \in State
    PROVE  /\ st.own \in Nat /\ st.opponent \in Nat /\ st # Unread
           /\ Score(st) = [own |-> st.own, opponent |-> st.opponent]
           /\ Score(st) \in Scores /\ Score(st) # NoScore
BY DEF State, Unread, Score, Scores, NoScore, None

LEMMA AppliedType ==
    ASSUME NEW st \in State, NEW type, NEW score \in Scores \cup {NoScore}
    PROVE  /\ Applied(type, score, st) \in State
           /\ Applied(type, score, st).phase = PhaseForEvent(type, st.phase)
           /\ score = NoScore => /\ Applied(type, score, st).own = st.own
                                 /\ Applied(type, score, st).opponent = st.opponent
           /\ score # NoScore => /\ Applied(type, score, st).own = score.own
                                 /\ Applied(type, score, st).opponent = score.opponent
<1>1. PhaseForEvent(type, st.phase) \in {"scheduled", "first_half", "finished"}
  BY DEF PhaseForEvent, State
<1>2. CASE score = NoScore
  BY <1>1, <1>2, StateTypes DEF Applied, State, Score
<1>3. CASE score # NoScore
  BY <1>1, <1>3, StateTypes DEF Applied, State, Scores
<1> QED BY <1>2, <1>3

LEMMA ReportTypes ==
    ASSUME NEW m \in Messages, NEW st \in State
    PROVE  /\ _resolve_score_update(m, st) \in EventTypes \cup {None}
           /\ \A type : _derived_score(m, type, st) \in Scores \cup {NoScore}
<1>1. Report[m].type \in EventTypes /\ Report[m].score \in Scores \cup {NoScore}
  BY LiveAssumption DEF Scores
<1>2. _resolve_score_update(m, st) \in EventTypes \cup {None}
  BY <1>1 DEF _resolve_score_update, EventTypes
<1>3. ASSUME NEW type PROVE _derived_score(m, type, st) \in Scores \cup {NoScore}
  <2>1. CASE Report[m].score # NoScore
    BY <1>1, <2>1 DEF _derived_score
  <2>2. CASE Report[m].score = NoScore
    <3>1. /\ [Score(st) EXCEPT !.own = @ + 1] \in Scores
          /\ [Score(st) EXCEPT !.opponent = @ + 1] \in Scores
      BY StateTypes DEF Scores
    <3> QED BY <2>2, <3>1 DEF _derived_score
  <2> QED BY <2>1, <2>2
<1> QED BY <1>2, <1>3

LEMMA DeliveryPlanned ==
    ASSUME TypeInv, NEW m, plan_live_deliveries(m)
    PROVE  delivery' \in DeliveryStatus
BY DEF plan_live_deliveries, TypeInv, TypeOK, DeliveryStatus

LEMMA TallyType ==
    ASSUME TypeInv, NEW s, NEW started
    PROVE  Tally(s, started) \in DeliveryStatus
BY DEF Tally, TypeInv, TypeOK, DeliveryStatus

LEMMA TypeInit == Init => TypeInv
<1> SUFFICES ASSUME Init PROVE TypeInv
  OBVIOUS
<1>1. NoScore \in [own : Int, opponent : Int] /\ NoScore \in Scores \cup {NoScore}
  BY DEF NoScore
<1>2. Idle \in Worker /\ Idle.phase = "idle"
  BY DEF Idle, Worker
<1>3. 0 \in 0..MaxCrashes /\ 0 \in 0..MaxSwitches
  BY LiveAssumption
<1>4. event \in [Messages -> Event]
  BY <1>1 DEF Init, Event
<1> QED
  BY <1>1, <1>2, <1>3, <1>4 DEF Init, TypeInv, TypeOK, WellFormed, State, Result, DeliveryStatus,
     AttemptStatus

-----------------------------------------------------------------------------
(* Every step keeps the types                                              *)

\* What create_match_event writes.
LEMMA Created ==
    ASSUME TypeInv, NEW m \in Messages, NEW recent \in SUBSET Messages,
           create_match_event(m, recent)
    PROVE  /\ reading[m] \in State
           /\ inbox' = [inbox EXCEPT ![m] = "done"]
           /\ reading' = [reading EXCEPT ![m] = Unread]
           /\ UNCHANGED <<decision, attempt, worker, ruling, accepted, receipts, known, optin, off, bounds>>
           /\ delivery' \in DeliveryStatus
           /\ \/ UNCHANGED <<event, state, result>>
              \/ \E type \in EventTypes, score \in Scores \cup {NoScore}, warned \in BOOLEAN :
                    /\ type = _resolve_score_update(m, reading[m])
                    /\ score = _derived_score(m, type, reading[m])
                    /\ warned <=> _validate_transition(type, score, reading[m])
                    /\ \/ /\ m \in Trusted /\ ~warned
                          /\ event' = [event EXCEPT ![m] = [status |-> "confirmed", type |-> type,
                                                           score |-> score, warned |-> warned]]
                          /\ state' = Applied(type, score, reading[m])
                          /\ result' = ResultAfter(type, state')
                       \/ /\ m \notin Trusted \/ warned
                          /\ event' = [event EXCEPT ![m] = [status |-> "pending", type |-> type,
                                                           score |-> score, warned |-> warned]]
                          /\ UNCHANGED <<state, result>>
<1> DEFINE st == reading[m]
           type == _resolve_score_update(m, st)
           score == _derived_score(m, type, st)
           warned == _validate_transition(type, score, st)
           ignored == type = None \/ _semantic_duplicate(m, type, score, recent)
<1>1. st \in State
  BY DEF create_match_event, TypeInv, TypeOK
<1>2. type \in EventTypes \cup {None} /\ score \in Scores \cup {NoScore}
  BY <1>1, ReportTypes
<1>3. delivery' \in DeliveryStatus
  BY DeliveryPlanned DEF create_match_event, TypeInv, TypeOK
<1>4. /\ inbox' = [inbox EXCEPT ![m] = "done"]
      /\ reading' = [reading EXCEPT ![m] = Unread]
      /\ UNCHANGED <<decision, attempt, worker, ruling, accepted, receipts, known, optin, off, bounds>>
  BY DEF create_match_event
<1>5. CASE ignored
  BY <1>1, <1>3, <1>4, <1>5 DEF create_match_event
<1>6. CASE ~ignored /\ m \in Trusted /\ ~warned
  <2>1. /\ event' = [event EXCEPT ![m] = [status |-> "confirmed", type |-> type,
                                         score |-> score, warned |-> warned]]
        /\ state' = Applied(type, score, st) /\ result' = ResultAfter(type, state')
    BY <1>6 DEF create_match_event
  <2>2. type \in EventTypes /\ warned \in BOOLEAN
    BY <1>2, <1>6 DEF _validate_transition
  <2> HIDE DEF type, score, warned, ignored
  <2>3. PICK t, sc, wa : t = type /\ sc = score /\ wa = warned
    OBVIOUS
  <2> QED BY <1>1, <1>2, <1>3, <1>4, <1>6, <2>1, <2>2 DEF type, score, warned
<1>7. CASE ~ignored /\ (m \notin Trusted \/ warned)
  <2>1. /\ event' = [event EXCEPT ![m] = [status |-> "pending", type |-> type,
                                         score |-> score, warned |-> warned]]
        /\ UNCHANGED <<state, result>>
    BY <1>7 DEF create_match_event
  <2>2. type \in EventTypes /\ warned \in BOOLEAN
    BY <1>2, <1>7 DEF _validate_transition
  <2> QED BY <1>1, <1>2, <1>3, <1>4, <1>7, <2>1, <2>2
<1> QED BY <1>5, <1>6, <1>7

\* Reports and decisions about them.
LEMMA TypeReports ==
    ASSUME TypeInv, NEW m \in Messages,
           \/ Receive(m) \/ Lost(m) \/ \E recent \in SUBSET Messages : create_match_event(m, recent)
           \/ \E d \in {"confirm", "reject"} : Consider(m, d)
           \/ confirm_event(m) \/ reject_event(m)
    PROVE  TypeInv'
<1>1. CASE Receive(m)
  BY <1>1 DEF Receive, TypeInv, TypeOK, WellFormed, sending
<1>2. CASE Lost(m)
  BY <1>2, LiveAssumption DEF Lost, TypeInv, TypeOK, WellFormed, sending
<1>3. ASSUME NEW recent \in SUBSET Messages, create_match_event(m, recent)
      PROVE  TypeInv'
  <2>1. \A score \in Scores \cup {NoScore} : score \in [own : Int, opponent : Int]
    BY DEF Scores, NoScore
  <2>2. /\ event \in [Messages -> Event] /\ state \in State /\ result \in Result
        /\ inbox \in [Messages -> {"new", "done"}] /\ reading \in [Messages -> State \cup {Unread}]
        /\ \A n \in Messages : event[n].score \in Scores \cup {NoScore}
    BY DEF TypeInv, TypeOK, WellFormed
  <2>3. /\ event' \in [Messages -> Event] /\ state' \in State /\ result' \in Result
        /\ \A n \in Messages : event'[n].score \in Scores \cup {NoScore}
    <3>1. CASE UNCHANGED <<event, state, result>>
      BY <2>2, <3>1
    <3>2. ASSUME NEW e \in Event, e.score \in Scores \cup {NoScore}, event' = [event EXCEPT ![m] = e]
          PROVE  /\ event' \in [Messages -> Event]
                 /\ \A n \in Messages : event'[n].score \in Scores \cup {NoScore}
      BY <2>2, <3>2
    <3>3. ASSUME NEW type, state' \in State, result' = ResultAfter(type, state')
          PROVE  result' \in Result
      BY <2>2, <3>3 DEF ResultAfter, Result, State
    <3>4. ASSUME NEW type \in EventTypes, NEW score \in Scores \cup {NoScore}, NEW warned \in BOOLEAN,
                 NEW status \in {"pending", "confirmed"},
                 event' = [event EXCEPT ![m] = [status |-> status, type |-> type,
                                                score |-> score, warned |-> warned]],
                 \/ UNCHANGED <<state, result>>
                 \/ state' = Applied(type, score, reading[m]) /\ result' = ResultAfter(type, state')
          PROVE  /\ event' \in [Messages -> Event] /\ state' \in State /\ result' \in Result
                 /\ \A n \in Messages : event'[n].score \in Scores \cup {NoScore}
      <4>1. [status |-> status, type |-> type, score |-> score, warned |-> warned] \in Event
        BY <2>1 DEF Event
      <4>2. state' \in State
        BY <1>3, <2>2, <3>4, Created, AppliedType
      <4> QED BY <2>2, <3>2, <3>3, <3>4, <4>1, <4>2
    <3> QED BY <1>3, <3>1, <3>4, Created
  <2>4. inbox' \in [Messages -> {"new", "done"}] /\ reading' \in [Messages -> State \cup {Unread}]
    BY <1>3, <2>2, Created
  <2>5. delivery' \in DeliveryStatus
    BY <1>3, Created
  <2>6. UNCHANGED <<decision, attempt, worker, ruling, accepted, receipts, known, optin, off, bounds>>
    BY <1>3, Created
  <2> QED BY <2>3, <2>4, <2>5, <2>6 DEF TypeInv, TypeOK, WellFormed
<1>4. ASSUME NEW d \in {"confirm", "reject"}, Consider(m, d)
      PROVE  TypeInv'
  BY <1>4 DEF Consider, TypeInv, TypeOK, WellFormed, sending
<1>5. CASE confirm_event(m)
  <2>1. event' \in [Messages -> Event] /\ \A n \in Messages : event'[n].score = event[n].score
    BY <1>5 DEF confirm_event, TypeInv, TypeOK, Event
  <2>2. state' \in State
    BY <1>5, AppliedType DEF confirm_event, TypeInv, TypeOK, WellFormed
  <2>3. result' \in Result
    BY <1>5, <2>2 DEF confirm_event, TypeInv, TypeOK, ResultAfter, Result, State
  <2>4. delivery' \in DeliveryStatus
    BY <1>5, DeliveryPlanned DEF confirm_event
  <2>5. decision' \in [Messages -> SUBSET {"confirm", "reject"}]
    BY <1>5 DEF confirm_event, Undecided, TypeInv, TypeOK
  <2> QED BY <1>5, <2>1, <2>2, <2>3, <2>4, <2>5 DEF confirm_event, TypeInv, TypeOK, WellFormed
<1>6. CASE reject_event(m)
  <2>1. event' \in [Messages -> Event] /\ \A n \in Messages : event'[n].score = event[n].score
    BY <1>6 DEF reject_event, TypeInv, TypeOK, Event
  <2>2. decision' \in [Messages -> SUBSET {"confirm", "reject"}]
    BY <1>6 DEF reject_event, Undecided, TypeInv, TypeOK
  <2> QED BY <1>6, <2>1, <2>2 DEF reject_event, TypeInv, TypeOK, WellFormed, sending
<1> QED BY <1>1, <1>2, <1>3, <1>4, <1>5, <1>6

\* A worker's place.
LEMMA TypeWorker ==
    ASSUME TypeInv, NEW w \in Workers, NEW x \in Worker, worker' = [worker EXCEPT ![w] = x],
           x.phase = "calling" => x.target \in Recipients,
           delivery' \in DeliveryStatus, attempt' \in [Recipients -> AttemptStatus],
           accepted' \in [Recipients -> Nat], known' \subseteq Recipients,
           UNCHANGED <<events, ruling, optin, off>>,
           bounds' \in [crashes : 0..MaxCrashes, switches : 0..MaxSwitches]
    PROVE  TypeInv'
<1>1. /\ worker' \in [Workers -> Worker]
      /\ \A v \in Workers : worker'[v].phase = "calling" => worker'[v].target \in Recipients
  BY DEF TypeInv, TypeOK, WellFormed
<1>2. bounds'.crashes \in 0..MaxCrashes /\ bounds'.switches \in 0..MaxSwitches
  OBVIOUS
<1>3. UNCHANGED <<event, inbox, reading, state, result, decision>>
  BY DEF events
<1> QED BY <1>1, <1>2, <1>3 DEF TypeInv, TypeOK, WellFormed

LEMMA TypeCycle ==
    ASSUME TypeInv, NEW w \in Workers, Cycle(w) \/ WorkerDies(w)
    PROVE  TypeInv'
<1>1. /\ worker \in [Workers -> Worker] /\ worker[w] \in Worker /\ Idle \in Worker
      /\ delivery \in DeliveryStatus /\ attempt \in [Recipients -> AttemptStatus]
      /\ accepted \in [Recipients -> Nat] /\ known \subseteq Recipients /\ optin \subseteq Recipients
      /\ bounds \in [crashes : 0..MaxCrashes, switches : 0..MaxSwitches]
  BY DEF TypeInv, TypeOK, WellFormed, Idle, Worker
<1>2. CASE _candidate_ids(w)
  <2> DEFINE x == [worker[w] EXCEPT !.phase = "listed"]
  <2>1. x \in Worker /\ x.phase = "listed" /\ worker' = [worker EXCEPT ![w] = x]
    BY <1>1, <1>2 DEF _candidate_ids, Worker
  <2> HIDE DEF x
  <2> QED BY <1>1, <1>2, <2>1, TypeWorker DEF _candidate_ids, Unsent
<1>3. CASE BeginDelivery(w)
  <2>1. CASE _assert_delivery_gates
    <3> DEFINE x == [Idle EXCEPT !.phase = "sending", !.todo = optin]
    <3>1. x \in Worker /\ x.phase = "sending"
      BY <1>1 DEF Idle, Worker
    <3>2. worker' = [worker EXCEPT ![w] = x] /\ delivery' = "processing"
      BY <1>3, <2>1 DEF BeginDelivery
    <3> HIDE DEF x
    <3> QED BY <1>1, <1>3, <3>1, <3>2, TypeWorker DEF BeginDelivery, Unsent, DeliveryStatus
  <2>2. CASE ~_assert_delivery_gates
    <3> DEFINE x == [Idle EXCEPT !.phase = "failing", !.mark = "blocked"]
    <3>1. x \in Worker /\ x.phase = "failing"
      BY DEF Idle, Worker
    <3>2. worker' = [worker EXCEPT ![w] = x] /\ UNCHANGED delivery
      BY <1>3, <2>2 DEF BeginDelivery
    <3> HIDE DEF x
    <3> QED BY <1>1, <1>3, <3>1, <3>2, TypeWorker DEF BeginDelivery, Unsent
  <2> QED BY <2>1, <2>2
<1>4. CASE _claim_attempt(w)
  <2> DEFINE r == CHOOSE q \in worker[w].todo : TRUE
             x == [worker[w] EXCEPT !.phase = "calling", !.target = r,
                                    !.todo = worker[w].todo \ {r}, !.own = worker[w].own \cup {r}]
             y == [worker[w] EXCEPT !.todo = worker[w].todo \ {r}]
  <2>1. r \in Recipients
    BY <1>1, <1>4 DEF _claim_attempt, Worker
  <2>2. /\ x \in Worker /\ x.phase = "calling" /\ x.target \in Recipients
        /\ y \in Worker /\ y.phase = "sending"
    <3> HIDE DEF r
    <3> QED BY <1>1, <1>4, <2>1 DEF Worker, _claim_attempt
  <2>3. \/ worker' = [worker EXCEPT ![w] = x] /\ attempt' = [attempt EXCEPT ![r] = "processing"]
        \/ worker' = [worker EXCEPT ![w] = y] /\ UNCHANGED attempt
    BY <1>1, <1>4 DEF _claim_attempt
  <2> HIDE DEF x, y, r
  <2>4. attempt' \in [Recipients -> AttemptStatus]
    BY <1>1, <2>3 DEF AttemptStatus, Handled
  <2> QED BY <1>1, <1>4, <2>2, <2>3, <2>4, TypeWorker DEF _claim_attempt, Unsent
<1>5. CASE Publish(w)
  <2>1. PICK a \in Answers :
            /\ worker[w].phase = "calling"
            /\ attempt' = [attempt EXCEPT ![worker[w].target] = a.status]
            /\ accepted' = [accepted EXCEPT ![worker[w].target] = @ + a.taken]
            /\ known' = IF a.status = "sent" THEN known \cup {worker[w].target} ELSE known
            /\ worker' = [worker EXCEPT ![w].phase = IF a.mark = None THEN "sending" ELSE "failing",
                                        ![w].target = None, ![w].mark = a.mark]
            /\ UNCHANGED <<events, delivery, ruling, receipts, optin, off, bounds>>
    BY <1>5 DEF Publish
  <2>2. /\ a.status \in AttemptStatus /\ a.taken \in Nat /\ a.mark \in {None, "failed", "blocked"}
    BY DEF Answers, AttemptStatus, Handled
  <2> DEFINE x == [worker[w] EXCEPT !.phase = IF a.mark = None THEN "sending" ELSE "failing",
                                    !.target = None, !.mark = a.mark]
  <2>3. x \in Worker /\ x.phase # "calling" /\ worker' = [worker EXCEPT ![w] = x]
    BY <1>1, <2>1, <2>2 DEF Worker
  <2>4. worker[w].target \in Recipients
    BY <2>1 DEF TypeInv, WellFormed
  <2>5. /\ attempt' \in [Recipients -> AttemptStatus] /\ accepted' \in [Recipients -> Nat]
        /\ known' \subseteq Recipients
    BY <1>1, <2>1, <2>2, <2>4
  <2> HIDE DEF x
  <2> QED BY ZenonT(40), <1>1, <2>1, <2>3, <2>5, TypeWorker
<1>6. CASE FinishDelivery(w)
  BY <1>1, <1>6, TallyType, TypeWorker DEF FinishDelivery, Unsent, Idle
<1>7. CASE _mark_failed(w)
  <2>1. delivery' \in DeliveryStatus
    BY <1>1, <1>7 DEF _mark_failed, Worker, DeliveryStatus
  <2> QED BY <1>1, <1>7, <2>1, TypeWorker DEF _mark_failed, Unsent, Idle
<1>8. CASE WorkerDies(w)
  <2>1. bounds' \in [crashes : 0..MaxCrashes, switches : 0..MaxSwitches]
    BY <1>1, <1>8, LiveAssumption DEF WorkerDies
  <2> QED BY <1>1, <1>8, <2>1, TypeWorker DEF WorkerDies, Unsent, Idle
<1> QED BY <1>2, <1>3, <1>4, <1>5, <1>6, <1>7, <1>8 DEF Cycle

\* Decisions about the announcement, recovery, webhooks and switches.
LEMMA TypeRest ==
    ASSUME TypeInv,
           \/ \E a \in Administrators : \/ \E d \in {"approve", "reject"} : ReadDelivery(a, d)
                                        \/ decide_delivery(a)
           \/ recover_stale_live_deliveries
           \/ \E r \in Recipients : OptOut(r) \/ \E status \in Statuses : Receipt(r, status)
           \/ \E x \in {"reporter", "distribution"} : Switch(x)
    PROVE  TypeInv'
<1>1. ASSUME NEW a \in Administrators, NEW d \in {"approve", "reject"}, ReadDelivery(a, d)
      PROVE  TypeInv'
  BY <1>1 DEF ReadDelivery, TypeInv, TypeOK, WellFormed, events, Unsent
<1>2. ASSUME NEW a \in Administrators, decide_delivery(a)
      PROVE  TypeInv'
  BY <1>2 DEF decide_delivery, TypeInv, TypeOK, WellFormed, events, Unsent, DeliveryStatus
<1>3. CASE recover_stale_live_deliveries
  <2>1. delivery' \in DeliveryStatus
    BY <1>3, TallyType DEF recover_stale_live_deliveries, DeliveryStatus
  <2>2. attempt' \in [Recipients -> AttemptStatus]
    BY <1>3 DEF recover_stale_live_deliveries, TypeInv, TypeOK, AttemptStatus, Handled
  <2> QED BY <1>3, <2>1, <2>2 DEF recover_stale_live_deliveries, TypeInv, TypeOK, WellFormed,
             events, Unsent
<1>4. ASSUME NEW r \in Recipients, OptOut(r)
      PROVE  TypeInv'
  BY <1>4, LiveAssumption DEF OptOut, TypeInv, TypeOK, WellFormed, events, sending
<1>5. ASSUME NEW r \in Recipients, NEW status \in Statuses, Receipt(r, status)
      PROVE  TypeInv'
  <2>1. accepted' \in [Recipients -> Nat]
    BY <1>5 DEF Receipt, TypeInv, TypeOK
  <2>2. attempt' \in [Recipients -> AttemptStatus] /\ delivery' \in DeliveryStatus
    BY <1>5 DEF Receipt, TypeInv, TypeOK, AttemptStatus, Handled, Statuses, DeliveryStatus
  <2> QED BY <1>5, <2>1, <2>2 DEF Receipt, TypeInv, TypeOK, WellFormed, events
<1>6. ASSUME NEW x \in {"reporter", "distribution"}, Switch(x)
      PROVE  TypeInv'
  BY <1>6, LiveAssumption DEF Switch, TypeInv, TypeOK, WellFormed, events, sending
<1> QED BY <1>1, <1>2, <1>3, <1>4, <1>5, <1>6

LEMMA TypeStep == TypeInv /\ [Next]_vars => TypeInv'
<1> SUFFICES ASSUME TypeInv, [Next]_vars PROVE TypeInv'
  OBVIOUS
<1>1. CASE UNCHANGED vars
  BY <1>1 DEF vars, events, sending, TypeInv, TypeOK, WellFormed
<1> QED BY <1>1, TypeReports, TypeCycle, TypeRest DEF Next

LEMMA TypeAlways == Spec => []TypeInv
BY TypeInit, TypeStep, PTL DEF Spec

\* Every row, session and worker keeps its type, for any number of reports,
\* recipients and workers and under every peril.
THEOREM TypeCorrect == Spec => []TypeOK
<1>1. TypeInv => TypeOK
  BY DEF TypeInv
<1> QED BY <1>1, TypeAlways, PTL

-----------------------------------------------------------------------------
(* Nobody is served twice                                                  *)

\* Steps that make no call, end none and touch no recipient's row.
LEMMA SendKept ==
    ASSUME SendInv, UNCHANGED <<attempt, accepted>>,
           \A w \in Workers : worker'[w] = worker[w] \/ worker'[w].phase # "calling"
    PROVE  SendInv'
BY DEF SendInv, Calling

LEMMA SendCycle ==
    ASSUME TypeInv, SendInv, "garbled" \notin Perils, NEW w \in Workers, Cycle(w) \/ WorkerDies(w)
    PROVE  SendInv'
<1>1. /\ worker \in [Workers -> Worker] /\ worker[w] \in Worker
      /\ attempt \in [Recipients -> AttemptStatus] /\ accepted \in [Recipients -> Nat]
  BY DEF TypeInv, TypeOK
<1>2. ASSUME UNCHANGED <<attempt, accepted>>, NEW x, worker' = [worker EXCEPT ![w] = x],
             x.phase # "calling"
      PROVE  SendInv'
  BY <1>1, <1>2, SendKept
<1>3. CASE _candidate_ids(w)
  <2>1. worker' = [worker EXCEPT ![w] = [worker[w] EXCEPT !.phase = "listed"]]
    BY <1>1, <1>3 DEF _candidate_ids
  <2>2. [worker[w] EXCEPT !.phase = "listed"].phase # "calling"
    BY <1>1 DEF Worker
  <2> QED BY <1>2, <1>3, <2>1, <2>2 DEF _candidate_ids, Unsent
<1>4. CASE BeginDelivery(w)
  <2>1. \E x : worker' = [worker EXCEPT ![w] = x] /\ x.phase # "calling"
    <3>1. /\ [Idle EXCEPT !.phase = "sending", !.todo = optin].phase # "calling"
          /\ [Idle EXCEPT !.phase = "failing", !.mark = "blocked"].phase # "calling"
      BY DEF Idle
    <3> QED BY <1>4, <3>1 DEF BeginDelivery
  <2> QED BY <1>2, <1>4, <2>1 DEF BeginDelivery, Unsent
<1>5. CASE _claim_attempt(w)
  <2> DEFINE r == CHOOSE q \in worker[w].todo : TRUE
  <2>1. r \in Recipients /\ worker[w].phase = "sending"
    BY <1>1, <1>5 DEF _claim_attempt, Worker
  <2>2. CASE Claimable(r)
    <3> DEFINE x == [worker[w] EXCEPT !.phase = "calling", !.target = r,
                                      !.todo = worker[w].todo \ {r}, !.own = worker[w].own \cup {r}]
    <3>1. /\ worker' = [worker EXCEPT ![w] = x] /\ attempt' = [attempt EXCEPT ![r] = "processing"]
          /\ UNCHANGED accepted
      BY <1>1, <1>5, <2>2 DEF _claim_attempt, Unsent
    <3>2. x.target = r
      BY <1>1 DEF Worker
    <3>3. accepted[r] = 0 /\ \A v \in Workers : ~Calling(v, r)
      <4> HIDE DEF r
      <4>1. attempt[r] \notin {"processing", "sent", "delivered", "read", "uncertain"}
        BY <2>2 DEF Claimable, Handled
      <4> QED BY <1>1, <2>1, <4>1 DEF SendInv, Served
    <3>4. worker'[w].target = r /\ \A v \in Workers \ {w} : worker'[v] = worker[v]
      BY <1>1, <3>1, <3>2
    <3> HIDE DEF x, r
    <3>5. /\ attempt'[r] = "processing"
          /\ \A q \in Recipients \ {r} : attempt'[q] = attempt[q]
      BY <1>1, <2>1, <3>1
    <3>6. \A v \in Workers, q \in Recipients :
              Calling(v, q)' => (v = w /\ q = r) \/ (v # w /\ q # r /\ Calling(v, q))
      BY <3>3, <3>4 DEF Calling
    <3>7. UNCHANGED accepted
      BY <3>1
    <3> QED BY <2>1, <3>3, <3>5, <3>6, <3>7 DEF SendInv
  <2>3. CASE ~Claimable(r)
    <3>1. /\ worker' = [worker EXCEPT ![w] = [worker[w] EXCEPT !.todo = worker[w].todo \ {r}]]
          /\ UNCHANGED <<attempt, accepted>>
      BY <1>1, <1>5, <2>3 DEF _claim_attempt, Unsent
    <3>2. [worker[w] EXCEPT !.todo = worker[w].todo \ {r}].phase # "calling"
      BY <1>1, <2>1 DEF Worker
    <3> QED BY <1>2, <3>1, <3>2
  <2> QED BY <2>2, <2>3
<1>6. CASE Publish(w)
  <2> DEFINE r == worker[w].target
  <2>1. PICK a \in Answers :
            /\ worker[w].phase = "calling"
            /\ attempt' = [attempt EXCEPT ![r] = a.status]
            /\ accepted' = [accepted EXCEPT ![r] = @ + a.taken]
            /\ worker' = [worker EXCEPT ![w].phase = IF a.mark = None THEN "sending" ELSE "failing",
                                        ![w].target = None, ![w].mark = a.mark]
    BY <1>6 DEF Publish
  <2>2. /\ a.taken \in {0, 1}
        /\ a.taken = 1 => a.status \in {"sent", "uncertain"}
    BY DEF Answers
  <2>3. r \in Recipients /\ Calling(w, r)
    BY <2>1 DEF TypeInv, WellFormed, Calling
  <2>4. accepted[r] = 0 /\ \A v \in Workers : Calling(v, r) => v = w
    BY <1>1, <2>3 DEF SendInv, Served
  <2>5. worker'[w].phase # "calling" /\ \A v \in Workers \ {w} : worker'[v] = worker[v]
    BY <1>1, <2>1 DEF Worker
  <2>6. PICK q : q = r
    OBVIOUS
  <2>7. /\ attempt'[q] = a.status /\ accepted'[q] = a.taken
        /\ \A p \in Recipients \ {q} : attempt'[p] = attempt[p] /\ accepted'[p] = accepted[p]
    BY <1>1, <2>1, <2>2, <2>3, <2>4, <2>6
  <2>8. \A v \in Workers, p \in Recipients : Calling(v, p)' => v # w /\ p # q /\ Calling(v, p)
    BY <2>4, <2>5, <2>6 DEF Calling
  <2> QED BY <2>2, <2>7, <2>8 DEF SendInv, Served
<1>7. CASE FinishDelivery(w)
  <2>1. worker' = [worker EXCEPT ![w] = Idle] /\ UNCHANGED <<attempt, accepted>>
    BY <1>7 DEF FinishDelivery, Unsent
  <2>2. Idle.phase # "calling"
    BY DEF Idle
  <2> QED BY <1>2, <2>1, <2>2
<1>8. CASE _mark_failed(w)
  <2>1. worker' = [worker EXCEPT ![w] = Idle] /\ UNCHANGED <<attempt, accepted>>
    BY <1>8 DEF _mark_failed, Unsent
  <2>2. Idle.phase # "calling"
    BY DEF Idle
  <2> QED BY <1>2, <2>1, <2>2
<1>9. CASE WorkerDies(w)
  <2>1. worker' = [worker EXCEPT ![w] = Idle] /\ UNCHANGED <<attempt, accepted>>
    BY <1>9 DEF WorkerDies, Unsent
  <2>2. Idle.phase # "calling"
    BY DEF Idle
  <2> QED BY <1>2, <2>1, <2>2
<1> QED BY <1>3, <1>4, <1>5, <1>6, <1>7, <1>8, <1>9 DEF Cycle

LEMMA SendStep ==
    ASSUME TypeInv, SendInv, "garbled" \notin Perils, [Next]_vars
    PROVE  SendInv'
<1>1. /\ attempt \in [Recipients -> AttemptStatus] /\ accepted \in [Recipients -> Nat]
  BY DEF TypeInv, TypeOK
<1>2. CASE UNCHANGED <<attempt, worker, accepted>>
  BY <1>2, SendKept
<1>3. CASE \E w \in Workers : Cycle(w) \/ WorkerDies(w)
  BY <1>3, SendCycle
<1>4. CASE recover_stale_live_deliveries
  <2>1. \A w \in Workers : worker[w].phase # "calling"
    BY <1>4 DEF recover_stale_live_deliveries
  <2>2. \A r \in Recipients :
            attempt'[r] = IF attempt[r] = "processing" THEN "uncertain" ELSE attempt[r]
    BY <1>4 DEF recover_stale_live_deliveries
  <2>3. UNCHANGED <<worker, accepted>>
    BY <1>4 DEF recover_stale_live_deliveries, Unsent
  <2> QED BY <2>1, <2>2, <2>3 DEF SendInv, Calling
<1>5. ASSUME NEW r \in Recipients, NEW status \in Statuses, Receipt(r, status)
      PROVE  SendInv'
  <2>1. accepted[r] = 1 /\ attempt[r] \in Served \cup {"uncertain"}
    BY <1>1, <1>5 DEF Receipt, SendInv
  <2>2. \A v \in Workers : ~Calling(v, r)
    BY <2>1 DEF SendInv, Served
  <2>3. accepted'[r] = (IF status = "failed" THEN 0 ELSE 1) /\ attempt'[r] \in {status, attempt[r]}
    BY <1>1, <1>5, <2>1 DEF Receipt
  <2>4. \A q \in Recipients \ {r} : attempt'[q] = attempt[q] /\ accepted'[q] = accepted[q]
    BY <1>1, <1>5 DEF Receipt
  <2>5. UNCHANGED worker
    BY <1>5 DEF Receipt
  <2> QED BY <2>1, <2>2, <2>3, <2>4, <2>5 DEF SendInv, Calling, Statuses, Served
<1>6. CASE \E m \in Messages :
              \/ Receive(m) \/ Lost(m) \/ \E recent \in SUBSET Messages : create_match_event(m, recent)
              \/ Consider(m, "confirm") \/ Consider(m, "reject") \/ confirm_event(m) \/ reject_event(m)
  BY <1>2, <1>6 DEF Receive, Lost, create_match_event, Consider, confirm_event, reject_event, sending
<1>7. CASE \/ \E a \in Administrators :
                 ReadDelivery(a, "approve") \/ ReadDelivery(a, "reject") \/ decide_delivery(a)
           \/ \E r \in Recipients : OptOut(r)
           \/ Switch("reporter") \/ Switch("distribution")
  BY <1>2, <1>7 DEF ReadDelivery, decide_delivery, OptOut, Switch, Unsent, sending
<1>8. CASE UNCHANGED vars
  BY <1>2, <1>8 DEF vars, sending
<1> QED BY <1>3, <1>4, <1>5, <1>6, <1>7, <1>8 DEF Next

\* WhatsApp takes a recipient's message at most once, unless it reported the first
\* as failed: whatever the reports, the approvals, the deaths of workers and the
\* order of receipts and tallies (live/publishing.py:488).
THEOREM ServedOnce == ASSUME "garbled" \notin Perils PROVE Spec => []NeverSentTwice
<1>1. Init => SendInv
  BY DEF Init, SendInv, Calling, Idle
<1>2. TypeInv /\ SendInv /\ [Next]_vars => SendInv'
  BY SendStep
<1>3. SendInv => NeverSentTwice
  BY DEF SendInv, NeverSentTwice
<1> QED BY <1>1, <1>2, <1>3, TypeAlways, PTL DEF Spec

-----------------------------------------------------------------------------
(* The live score counts the goals                                         *)

\* The type and the score a report is stored with.
LEMMA ReportCounts ==
    ASSUME Counting, NEW m \in Messages, NEW st \in State, NEW type, NEW score,
           type = _resolve_score_update(m, st), type # None,
           score = _derived_score(m, type, st)
    PROVE  /\ type \in Goals => m \in Trusted
           /\ type \notin Goals => score = NoScore
           /\ type \in EventTypes \ {"score_update", "score_correction"}
           /\ type = "kickoff" => Report[m].type = "kickoff"
           /\ type = "goal" => score = [own |-> st.own + 1, opponent |-> st.opponent]
           /\ type = "opponent_goal" => score = [own |-> st.own, opponent |-> st.opponent + 1]
<1>1. /\ Report[m].type \in EventTypes /\ Report[m].score \in Scores \cup {NoScore}
      /\ st.own \in Nat /\ st.opponent \in Nat
  BY LiveAssumption DEF Scores, State
<1>2. CASE Report[m].type = "score_update"
  <2>1. /\ type = "goal" => Report[m].score.own = st.own + 1 /\ Report[m].score.opponent = st.opponent
        /\ type = "opponent_goal" => /\ Report[m].score.own = st.own
                                     /\ Report[m].score.opponent = st.opponent + 1
        /\ type \in Goals
    BY <1>2 DEF _resolve_score_update, Goals, None
  <2>2. Report[m].score # NoScore
    BY <1>1, <2>1 DEF NoScore, Goals
  <2>3. Report[m].score = [own |-> Report[m].score.own, opponent |-> Report[m].score.opponent]
    BY <1>1, <2>2 DEF Scores
  <2>4. score = Report[m].score
    BY <2>2 DEF _derived_score
  <2> QED BY <1>2, <2>1, <2>3, <2>4 DEF Counting, Goals, EventTypes
<1>3. CASE Report[m].type # "score_update"
  <2>1. type = Report[m].type /\ Report[m].score = NoScore
    BY <1>3 DEF _resolve_score_update, Counting
  <2>2. /\ type = "goal" => score = [Score(st) EXCEPT !.own = @ + 1]
        /\ type = "opponent_goal" => score = [Score(st) EXCEPT !.opponent = @ + 1]
        /\ type \notin Goals => score = NoScore
    BY <2>1 DEF _derived_score, Goals
  <2>3. /\ [Score(st) EXCEPT !.own = @ + 1] = [own |-> st.own + 1, opponent |-> st.opponent]
        /\ [Score(st) EXCEPT !.opponent = @ + 1] = [own |-> st.own, opponent |-> st.opponent + 1]
    BY DEF Score
  <2> QED BY <1>1, <1>3, <2>1, <2>2, <2>3 DEF Counting, Goals, EventTypes
<1> QED BY <1>2, <1>3

\* An event confirmed by its report or by a person, and the score it makes.
LEMMA ConfirmCounts ==
    ASSUME TypeInv, Counted, NEW m \in Messages, event' = [event EXCEPT ![m] = event'[m]],
           event'[m].status = "confirmed", state' \in State,
           \/ /\ event'[m].type \notin Goals
              /\ event[m].status # "confirmed" \/ event[m].type \notin Goals
              /\ state'.own = state.own /\ state'.opponent = state.opponent
           \/ /\ event[m].status # "confirmed" /\ event'[m].type = "goal"
              /\ state'.own = state.own + 1 /\ state'.opponent = state.opponent
           \/ /\ event[m].status # "confirmed" /\ event'[m].type = "opponent_goal"
              /\ state'.own = state.own /\ state'.opponent = state.opponent + 1
    PROVE  Counted'
<1>1. \A n \in Messages \ {m} : event'[n] = event[n]
  BY DEF TypeInv, TypeOK
<1>2. /\ IsFiniteSet(GoalsOf("goal")) /\ state.own = Cardinality(GoalsOf("goal"))
      /\ IsFiniteSet(GoalsOf("opponent_goal"))
      /\ state.opponent = Cardinality(GoalsOf("opponent_goal"))
  BY DEF Counted
<1>3. ASSUME NEW type \in Goals, event'[m].type = type, event[m].status # "confirmed"
      PROVE  /\ GoalsOf(type)' = GoalsOf(type) \cup {m} /\ m \notin GoalsOf(type)
             /\ \A t \in Goals \ {type} : GoalsOf(t)' = GoalsOf(t)
  BY <1>1, <1>3 DEF GoalsOf
<1>4. CASE event'[m].type \notin Goals /\ (event[m].status # "confirmed" \/ event[m].type \notin Goals)
  <2>1. \A t \in Goals : GoalsOf(t)' = GoalsOf(t)
    BY <1>1, <1>4 DEF GoalsOf
  <2>2. state'.own = state.own /\ state'.opponent = state.opponent
    BY <1>4 DEF Goals
  <2> QED BY <1>2, <2>1, <2>2 DEF Counted, Goals
<1>5. CASE event'[m].type = "goal" /\ event[m].status # "confirmed"
  <2>1. /\ GoalsOf("goal")' = GoalsOf("goal") \cup {m} /\ m \notin GoalsOf("goal")
        /\ GoalsOf("opponent_goal")' = GoalsOf("opponent_goal")
    BY <1>3, <1>5 DEF Goals
  <2>2. /\ IsFiniteSet(GoalsOf("goal") \cup {m})
        /\ Cardinality(GoalsOf("goal") \cup {m}) = Cardinality(GoalsOf("goal")) + 1
    BY <1>2, <2>1, FS_AddElement
  <2>3. state'.own = state.own + 1 /\ state'.opponent = state.opponent
    BY <1>5 DEF Goals
  <2> QED BY <1>2, <2>1, <2>2, <2>3 DEF Counted
<1>6. CASE event'[m].type = "opponent_goal" /\ event[m].status # "confirmed"
  <2>1. /\ GoalsOf("opponent_goal")' = GoalsOf("opponent_goal") \cup {m}
        /\ m \notin GoalsOf("opponent_goal") /\ GoalsOf("goal")' = GoalsOf("goal")
    BY <1>3, <1>6 DEF Goals
  <2>2. /\ IsFiniteSet(GoalsOf("opponent_goal") \cup {m})
        /\ Cardinality(GoalsOf("opponent_goal") \cup {m}) = Cardinality(GoalsOf("opponent_goal")) + 1
    BY <1>2, <2>1, FS_AddElement
  <2>3. state'.own = state.own /\ state'.opponent = state.opponent + 1
    BY <1>6 DEF Goals
  <2> QED BY <1>2, <2>1, <2>2, <2>3 DEF Counted
<1> QED BY <1>4, <1>5, <1>6

\* Nothing is confirmed, and no confirmed goal is given up.
LEMMA CountKept ==
    ASSUME Counted, UNCHANGED state,
           \A n \in Messages, t \in Goals :
               (event'[n].status = "confirmed" /\ event'[n].type = t)
                   <=> (event[n].status = "confirmed" /\ event[n].type = t)
    PROVE  Counted'
<1>1. \A t \in Goals : GoalsOf(t)' = GoalsOf(t)
  BY DEF GoalsOf
<1> QED BY <1>1 DEF Counted, Goals

LEMMA CountCreate ==
    ASSUME CountInv, TypeInv', Counting, NEW m \in Messages, NEW recent \in SUBSET Messages,
           create_match_event(m, recent)
    PROVE  CountInv'
<1>1. /\ event \in [Messages -> Event] /\ inbox \in [Messages -> {"new", "done"}]
      /\ reading \in [Messages -> State \cup {Unread}]
      /\ decision \in [Messages -> SUBSET {"confirm", "reject"}] /\ TypeInv
  BY DEF CountInv, TypeInv, TypeOK, WellFormed
<1>2. /\ reading[m] \in State /\ reading[m] # Unread /\ reading[m] = state
      /\ inbox' = [inbox EXCEPT ![m] = "done"] /\ reading' = [reading EXCEPT ![m] = Unread]
      /\ UNCHANGED decision
  BY <1>1, Created, StateTypes DEF CountInv, ReadsCurrent
<1>3. \A n \in Messages : reading'[n] = Unread
  BY <1>1, <1>2 DEF CountInv, ReadsCurrent
<1>4. event[m].status = None /\ event[m].type = None /\ decision[m] = {}
  BY <1>2 DEF CountInv, EventFits
<1>5. \A n \in Messages \ {m} : inbox'[n] = inbox[n]
  BY <1>1, <1>2
<1>6. ASSUME NEW n \in Messages, event'[n] = event[n]
      PROVE  EventFits(n)'
  <2>1. EventFits(n)
    BY DEF CountInv
  <2>2. inbox'[n] = "new" => inbox[n] = "new"
    BY <1>1, <1>2
  <2> QED BY <1>2, <1>3, <1>6, <2>1, <2>2 DEF EventFits
<1>7. CASE UNCHANGED <<event, state, result>>
  <2>1. Counted'
    BY <1>7, CountKept DEF CountInv
  <2> QED BY <1>3, <1>6, <1>7, <2>1 DEF CountInv, ReadsCurrent
<1>8. ASSUME NEW type \in EventTypes, NEW score \in Scores \cup {NoScore}, NEW warned \in BOOLEAN,
             NEW status \in {"confirmed", "pending"},
             type = _resolve_score_update(m, state), score = _derived_score(m, type, state),
             event' = [event EXCEPT ![m] = [status |-> status, type |-> type,
                                            score |-> score, warned |-> warned]],
             \/ status = "confirmed" /\ m \in Trusted /\ ~warned /\ state' = Applied(type, score, state)
             \/ status = "pending" /\ (m \notin Trusted \/ warned) /\ UNCHANGED state
      PROVE  CountInv'
  <2>0. state \in State /\ type # None
    BY <1>2 DEF EventTypes, None
  <2>1. /\ type \in Goals => m \in Trusted
        /\ type \notin Goals => score = NoScore
        /\ type \in EventTypes \ {"score_update", "score_correction"}
        /\ type = "kickoff" => Report[m].type = "kickoff"
        /\ type = "goal" => score = [own |-> state.own + 1, opponent |-> state.opponent]
        /\ type = "opponent_goal" => score = [own |-> state.own, opponent |-> state.opponent + 1]
    BY <1>8, <2>0, ReportCounts
  <2>2. /\ event'[m].status = status /\ event'[m].type = type /\ event'[m].score = score
        /\ event'[m].warned = warned /\ event' = [event EXCEPT ![m] = event'[m]]
        /\ \A n \in Messages \ {m} : event'[n] = event[n]
    BY <1>1, <1>8
  <2>3. EventFits(m)'
    <3>1. inbox'[m] = "done"
      BY <1>1, <1>2
    <3> QED BY <1>2, <1>3, <1>4, <1>8, <2>1, <2>2, <3>1 DEF EventFits
  <2>4. CASE status = "confirmed"
    <3>1. state' = Applied(type, score, state) /\ state' \in State
      BY <1>8, <2>0, <2>4, AppliedType
    <3>2. /\ score = NoScore => state'.own = state.own /\ state'.opponent = state.opponent
          /\ score # NoScore => state'.own = score.own /\ state'.opponent = score.opponent
      BY <2>0, <3>1, AppliedType
    <3>3. type \in Goals => score # NoScore
      BY <2>0, <2>1 DEF Goals, NoScore, State
    <3>4. \/ event'[m].type \notin Goals /\ state'.own = state.own /\ state'.opponent = state.opponent
          \/ /\ event'[m].type = "goal"
             /\ state'.own = state.own + 1 /\ state'.opponent = state.opponent
          \/ /\ event'[m].type = "opponent_goal"
             /\ state'.own = state.own /\ state'.opponent = state.opponent + 1
      BY <2>1, <2>2, <3>2, <3>3 DEF Goals
    <3>5. Counted'
      BY <1>1, <1>4, <2>2, <2>4, <3>1, <3>4, ConfirmCounts DEF CountInv, None
    <3> QED BY <1>3, <1>6, <2>2, <2>3, <3>5 DEF CountInv, ReadsCurrent
  <2>5. CASE status = "pending"
    <3>1. Counted'
      BY <1>4, <1>8, <2>2, <2>5, CountKept DEF CountInv, None
    <3> QED BY <1>3, <1>6, <2>2, <2>3, <3>1 DEF CountInv, ReadsCurrent
  <2> QED BY <2>4, <2>5
<1>9. ASSUME ~UNCHANGED <<event, state, result>>
      PROVE  \E type \in EventTypes, score \in Scores \cup {NoScore}, warned \in BOOLEAN :
                /\ type = _resolve_score_update(m, reading[m])
                /\ score = _derived_score(m, type, reading[m])
                /\ \/ /\ m \in Trusted /\ ~warned
                      /\ event' = [event EXCEPT ![m] = [status |-> "confirmed", type |-> type,
                                                       score |-> score, warned |-> warned]]
                      /\ state' = Applied(type, score, reading[m])
                   \/ /\ m \notin Trusted \/ warned
                      /\ event' = [event EXCEPT ![m] = [status |-> "pending", type |-> type,
                                                       score |-> score, warned |-> warned]]
                      /\ UNCHANGED state
  BY <1>1, <1>9, Created
<1>10. CASE ~UNCHANGED <<event, state, result>>
  <2>1. PICK type \in EventTypes, score \in Scores \cup {NoScore}, warned \in BOOLEAN :
                /\ type = _resolve_score_update(m, reading[m])
                /\ score = _derived_score(m, type, reading[m])
                /\ \/ /\ m \in Trusted /\ ~warned
                      /\ event' = [event EXCEPT ![m] = [status |-> "confirmed", type |-> type,
                                                       score |-> score, warned |-> warned]]
                      /\ state' = Applied(type, score, reading[m])
                   \/ /\ m \notin Trusted \/ warned
                      /\ event' = [event EXCEPT ![m] = [status |-> "pending", type |-> type,
                                                       score |-> score, warned |-> warned]]
                      /\ UNCHANGED state
    BY <1>9, <1>10
  <2>2. reading[m] = state
    BY <1>2
  <2>3. /\ type = _resolve_score_update(m, state) /\ score = _derived_score(m, type, state)
        /\ state' = Applied(type, score, reading[m]) => state' = Applied(type, score, state)
    BY <2>1, <2>2
  <2> QED BY <1>8, <2>1, <2>3
<1> QED BY <1>7, <1>10

LEMMA CountStep ==
    ASSUME CountInv, TypeInv', Counting, [Next]_vars
    PROVE  CountInv'
<1>1. /\ event \in [Messages -> Event] /\ inbox \in [Messages -> {"new", "done"}]
      /\ reading \in [Messages -> State \cup {Unread}] /\ state \in State /\ state # Unread
      /\ decision \in [Messages -> SUBSET {"confirm", "reject"}] /\ TypeInv
  BY StateTypes DEF CountInv, TypeInv, TypeOK, WellFormed
<1>2. CASE UNCHANGED events
  BY <1>2 DEF events, CountInv, ReadsCurrent, EventFits, Counted, GoalsOf
<1>3. ASSUME NEW m \in Messages, Receive(m) \/ Lost(m)
      PROVE  CountInv'
  <2>1. /\ UNCHANGED <<event, state, decision>>
        /\ \A n \in Messages : inbox'[n] = "new" \/ reading'[n] # Unread =>
                                   inbox[n] = "new" \/ reading[n] # Unread
    BY <1>1, <1>3 DEF Receive, Lost
  <2>2. ReadsCurrent'
    BY <1>1, <1>3 DEF Receive, Lost, ReadsCurrent, GameFree, CountInv
  <2>3. \A n \in Messages : EventFits(n)'
    BY <2>1 DEF CountInv, EventFits
  <2>4. Counted'
    BY <2>1, CountKept DEF CountInv
  <2> QED BY <2>2, <2>3, <2>4 DEF CountInv
<1>4. ASSUME NEW m \in Messages, NEW d \in {"confirm", "reject"}, Consider(m, d)
      PROVE  CountInv'
  <2>1. /\ UNCHANGED <<event, state, inbox, reading>> /\ event[m].status = "pending"
        /\ d = "confirm" => ~event[m].warned
        /\ \A n \in Messages \ {m} : decision'[n] = decision[n]
        /\ decision'[m] = decision[m] \cup {d}
    BY <1>1, <1>4 DEF Consider
  <2>2. EventFits(m)'
    BY <1>4, <2>1 DEF CountInv, EventFits, None
  <2>3. \A n \in Messages \ {m} : EventFits(n)'
    BY <2>1 DEF CountInv, EventFits
  <2>4. Counted' /\ ReadsCurrent'
    BY <2>1, CountKept DEF CountInv, ReadsCurrent
  <2> QED BY <2>2, <2>3, <2>4 DEF CountInv
<1>5. ASSUME NEW m \in Messages, NEW status \in {"confirmed", "rejected"},
             event' = [event EXCEPT ![m].status = status], UNCHANGED <<inbox, reading>>,
             \E d \in {"confirm", "reject"} : decision' = [decision EXCEPT ![m] = Undecided(m, d)],
             decision[m] # {}, status = "confirmed" => m \notin Trusted
      PROVE  /\ \A n \in Messages : EventFits(n)'
             /\ event'[m] = [event[m] EXCEPT !.status = status]
             /\ \A n \in Messages \ {m} : event'[n] = event[n]
             /\ inbox[m] # "new" /\ reading[m] = Unread
  <2>1. /\ event'[m].status = status /\ event'[m].type = event[m].type
        /\ event'[m].score = event[m].score /\ event'[m].warned = event[m].warned
        /\ event'[m] = [event[m] EXCEPT !.status = status]
        /\ \A n \in Messages \ {m} : event'[n] = event[n]
    BY <1>1, <1>5 DEF Event
  <2>2. inbox[m] # "new" /\ reading[m] = Unread
    BY <1>5 DEF CountInv, EventFits
  <2>3. decision'[m] \subseteq decision[m] /\ \A n \in Messages \ {m} : decision'[n] = decision[n]
    BY <1>1, <1>5 DEF Undecided
  <2>4. EventFits(m)'
    BY <1>5, <2>1, <2>2, <2>3 DEF CountInv, EventFits
  <2>5. \A n \in Messages \ {m} : EventFits(n)'
    BY <1>5, <2>1, <2>3 DEF CountInv, EventFits
  <2> QED BY <2>1, <2>2, <2>4, <2>5
<1>6. ASSUME NEW m \in Messages, confirm_event(m)
      PROVE  CountInv'
  <2>1. /\ event' = [event EXCEPT ![m].status = "confirmed"] /\ UNCHANGED <<inbox, reading>>
        /\ state' = Applied(event[m].type, event[m].score, state)
        /\ decision' = [decision EXCEPT ![m] = Undecided(m, "confirm")]
        /\ "confirm" \in decision[m] /\ GameFree
    BY <1>6 DEF confirm_event
  <2>2. m \notin Trusted
    BY <2>1 DEF CountInv, EventFits
  <2>3. /\ \A n \in Messages : EventFits(n)'
        /\ event'[m] = [event[m] EXCEPT !.status = "confirmed"]
        /\ \A n \in Messages \ {m} : event'[n] = event[n]
    BY <1>5, <2>1, <2>2
  <2>4. event[m].type \notin Goals /\ event[m].score = NoScore
    BY <2>2 DEF CountInv, EventFits
  <2>5. state'.own = state.own /\ state'.opponent = state.opponent /\ state' \in State
    BY <1>1, <2>1, <2>4, AppliedType
  <2>6. /\ event' = [event EXCEPT ![m] = event'[m]]
        /\ event'[m].status = "confirmed" /\ event'[m].type = event[m].type
    BY <1>1, <2>1, <2>3 DEF Event
  <2>7. Counted'
    BY <1>1, <2>4, <2>5, <2>6, ConfirmCounts DEF CountInv
  <2>8. ReadsCurrent'
    BY <2>1 DEF ReadsCurrent, GameFree
  <2> QED BY <2>3, <2>7, <2>8 DEF CountInv
<1>7. ASSUME NEW m \in Messages, reject_event(m)
      PROVE  CountInv'
  <2>1. /\ event' = [event EXCEPT ![m].status = "rejected"] /\ UNCHANGED <<inbox, reading, state>>
        /\ decision' = [decision EXCEPT ![m] = Undecided(m, "reject")]
        /\ "reject" \in decision[m]
    BY <1>7 DEF reject_event
  <2>2. /\ \A n \in Messages : EventFits(n)'
        /\ event'[m] = [event[m] EXCEPT !.status = "rejected"]
        /\ \A n \in Messages \ {m} : event'[n] = event[n]
    BY <1>5, <2>1
  <2>3. event'[m].status = "rejected"
    BY <1>1, <2>2 DEF Event
  <2>4. event[m].type \in Goals => event[m].status # "confirmed"
    BY <2>1 DEF CountInv, EventFits
  <2>5. Counted'
    BY <2>1, <2>2, <2>3, <2>4, CountKept DEF CountInv
  <2>6. ReadsCurrent'
    BY <2>1 DEF CountInv, ReadsCurrent
  <2> QED BY <2>2, <2>5, <2>6 DEF CountInv
<1>8. CASE \/ \E w \in Workers : Cycle(w) \/ WorkerDies(w)
           \/ recover_stale_live_deliveries
           \/ \E a \in Administrators :
                 ReadDelivery(a, "approve") \/ ReadDelivery(a, "reject") \/ decide_delivery(a)
           \/ \E r \in Recipients : OptOut(r) \/ \E status \in Statuses : Receipt(r, status)
           \/ Switch("reporter") \/ Switch("distribution")
           \/ UNCHANGED vars
  BY <1>2, <1>8 DEF Cycle, WorkerDies, _candidate_ids, BeginDelivery, Publish, FinishDelivery,
     _mark_failed, _claim_attempt, recover_stale_live_deliveries, ReadDelivery, decide_delivery,
     OptOut, Receipt, Switch, vars
<1> QED BY <1>3, <1>4, <1>6, <1>7, <1>8, CountCreate DEF Next

LEMMA CountInit == Init => CountInv
<1> SUFFICES ASSUME Init PROVE CountInv
  OBVIOUS
<1>1. \A m \in Messages : /\ event[m].status = None /\ event[m].type = None
                          /\ event[m].score = NoScore /\ decision[m] = {} /\ reading[m] = Unread
  BY DEF Init
<1>2. GoalsOf("goal") = {} /\ GoalsOf("opponent_goal") = {}
  BY <1>1 DEF GoalsOf, None
<1>3. state.own = 0 /\ state.opponent = 0
  BY DEF Init
<1>4. Counted
  BY <1>2, <1>3, FS_EmptySet DEF Counted
<1>5. \A m \in Messages : EventFits(m)
  BY <1>1 DEF EventFits, None, Goals
<1> QED BY <1>1, <1>4, <1>5, TypeInit DEF CountInv, ReadsCurrent

LEMMA CountAlways == ASSUME Counting PROVE Spec => []CountInv
<1>1. CountInv /\ [Next]_vars => CountInv'
  BY CountStep, TypeStep DEF CountInv
<1> QED BY <1>1, CountInit, PTL DEF Spec

\* When the goals are reported by trusted reporters, the live score is the number of
\* confirmed goals of each side, for any number of reports that arrive at the same
\* time, again, or in any order (live/service.py:298).
THEOREM GoalsCountOnce == ASSUME Counting PROVE Spec => []GoalsCounted
<1>1. CountInv => GoalsCounted
  <2> SUFFICES ASSUME CountInv, NEW side \in {"own", "opponent"}
               PROVE  state[side] = Cardinality({m \in Messages :
                          /\ event[m].status = "confirmed"
                          /\ event[m].type = IF side = "own" THEN "goal" ELSE "opponent_goal"})
    BY DEF GoalsCounted
  <2>1. CASE side = "own"
    BY <2>1 DEF CountInv, Counted, GoalsOf
  <2>2. CASE side = "opponent"
    BY <2>2 DEF CountInv, Counted, GoalsOf
  <2> QED BY <2>1, <2>2
<1> QED BY <1>1, CountAlways, PTL

-----------------------------------------------------------------------------
(* The result is the final score                                           *)

\* After the final whistle nothing that moves the score is confirmed.
LEMMA ResultStep ==
    ASSUME CountInv, ResultInv, Counting, TrustedKickoff, [Next]_vars
    PROVE  ResultInv'
<1>1. /\ reading \in [Messages -> State \cup {Unread}] /\ state \in State /\ result \in Result
      /\ event \in [Messages -> Event] /\ TypeInv
  BY DEF CountInv, TypeInv, TypeOK, WellFormed
<1>2. CASE UNCHANGED <<state, result>>
  BY <1>2 DEF ResultInv
<1>3. ASSUME NEW type \in EventTypes \ {"score_correction"}, NEW score \in Scores \cup {NoScore},
             state' = Applied(type, score, state), result' = ResultAfter(type, state'),
             state.phase = "finished" => type # "kickoff" /\ score = NoScore
      PROVE  ResultInv'
  <2>1. /\ state'.phase = PhaseForEvent(type, state.phase)
        /\ score = NoScore => state'.own = state.own /\ state'.opponent = state.opponent
    BY <1>1, <1>3, AppliedType
  <2>2. CASE type = "fulltime"
    <3>1. state'.phase = "finished"
      BY <2>1, <2>2 DEF PhaseForEvent
    <3>2. result'.own = state'.own /\ result'.opponent = state'.opponent
      BY <1>3, <2>2 DEF ResultAfter
    <3> QED BY <3>1, <3>2 DEF ResultInv
  <2>3. CASE type # "fulltime"
    <3>1. result' = result
      BY <1>3, <2>3 DEF ResultAfter
    <3>2. state.phase = "finished" => /\ state'.phase = "finished"
                                      /\ state'.own = state.own /\ state'.opponent = state.opponent
      BY <1>3, <2>1, <2>3 DEF PhaseForEvent
    <3> QED BY <3>1, <3>2 DEF ResultInv
  <2> QED BY <2>2, <2>3
<1>4. ASSUME NEW m \in Messages, NEW recent \in SUBSET Messages, create_match_event(m, recent)
      PROVE  ResultInv'
  <2>1. reading[m] = state
    BY <1>1, <1>4, Created, StateTypes DEF CountInv, ReadsCurrent
  <2>2. CASE ~UNCHANGED <<state, result>>
    <3>1. PICK type \in EventTypes, score \in Scores \cup {NoScore}, warned \in BOOLEAN :
              /\ type = _resolve_score_update(m, reading[m])
              /\ score = _derived_score(m, type, reading[m])
              /\ warned <=> _validate_transition(type, score, reading[m])
              /\ ~warned /\ state' = Applied(type, score, reading[m])
              /\ result' = ResultAfter(type, state')
      BY <1>1, <1>4, <2>2, Created
    <3>2. ~_validate_transition(type, score, state) /\ type = _resolve_score_update(m, state)
          /\ score = _derived_score(m, type, state)
          /\ state' = Applied(type, score, state)
      BY <2>1, <3>1
    <3>3. type # "score_correction" /\ (type \notin Goals => score = NoScore)
      BY <1>1, <3>2, ReportCounts DEF EventTypes, None
    <3>4. state.phase = "finished" => type \in {"score_correction", "comment"}
      BY <3>2 DEF _validate_transition
    <3>5. state.phase = "finished" => type # "kickoff" /\ score = NoScore
      BY <3>3, <3>4 DEF Goals
    <3> QED BY <1>3, <3>1, <3>2, <3>3, <3>5
  <2> QED BY <1>2, <2>2
<1>5. ASSUME NEW m \in Messages, confirm_event(m)
      PROVE  ResultInv'
  <2>1. /\ state' = Applied(event[m].type, event[m].score, state)
        /\ result' = ResultAfter(event[m].type, state') /\ "confirm" \in decision[m]
    BY <1>5 DEF confirm_event
  <2>2. m \notin Trusted /\ EventFits(m)
    BY <2>1 DEF CountInv, EventFits
  <2>3. event[m].score = NoScore /\ event[m].type # "score_correction" /\ event[m].type # "kickoff"
    BY <2>2 DEF EventFits, TrustedKickoff
  <2>4. event[m].type \in EventTypes \cup {None}
    BY <1>1 DEF Event
  <2>5. CASE event[m].type = None
    <3>1. /\ state'.phase = PhaseForEvent(None, state.phase)
          /\ state'.own = state.own /\ state'.opponent = state.opponent
      BY <1>1, <2>1, <2>3, <2>5, AppliedType
    <3>2. state'.phase = state.phase /\ result' = result
      BY <2>1, <2>5, <3>1 DEF PhaseForEvent, ResultAfter, None
    <3> QED BY <3>1, <3>2 DEF ResultInv
  <2> QED BY <1>3, <2>1, <2>3, <2>4, <2>5
<1>6. CASE UNCHANGED events
  BY <1>2, <1>6 DEF events
<1>7. CASE \E m \in Messages : \/ Receive(m) \/ Lost(m) \/ reject_event(m)
                               \/ \E d \in {"confirm", "reject"} : Consider(m, d)
  BY <1>2, <1>7 DEF Receive, Lost, reject_event, Consider
<1>8. CASE \/ \E w \in Workers : Cycle(w) \/ WorkerDies(w)
           \/ recover_stale_live_deliveries
           \/ \E a \in Administrators :
                 ReadDelivery(a, "approve") \/ ReadDelivery(a, "reject") \/ decide_delivery(a)
           \/ \E r \in Recipients : OptOut(r) \/ \E status \in Statuses : Receipt(r, status)
           \/ Switch("reporter") \/ Switch("distribution")
           \/ UNCHANGED vars
  BY <1>6, <1>8 DEF Cycle, WorkerDies, _candidate_ids, BeginDelivery, Publish, FinishDelivery,
     _mark_failed, _claim_attempt, recover_stale_live_deliveries, ReadDelivery, decide_delivery,
     OptOut, Receipt, Switch, vars
<1> QED BY <1>4, <1>5, <1>7, <1>8 DEF Next

\* A confirmed result is the live score: it is taken at the final whistle, after which
\* neither late goals nor a late kickoff move the score (live/service.py:223).
THEOREM ResultIsFinal == ASSUME Counting, TrustedKickoff PROVE Spec => []ResultComplete
<1>1. Init => ResultInv
  BY DEF Init, ResultInv
<1>2. CountInv /\ ResultInv /\ [Next]_vars => ResultInv'
  BY ResultStep
<1>3. ResultInv => ResultComplete
  BY DEF ResultInv, ResultComplete
<1> QED BY <1>1, <1>2, <1>3, CountAlways, PTL DEF Spec

-----------------------------------------------------------------------------
(* Part two: MatchReports                                                  *)

-----------------------------------------------------------------------------
(* Types                                                                   *)

ReportRow == [id : Nat, status : ReportStatuses \cup {Nothing}, current : Nat, published : BOOLEAN]
SchedulerRow == [phase : {"idle", "unfinished", "asking", "generating"}, view : ReportRow,
           snapshots : Seq(Pages), todo : SUBSET Contacts, made : [Keys -> RequestStatus],
           expired : SUBSET Keys]
User == [op : {Nothing, "generate", "publish"}, view : ReportRow]

SourcesTyped ==
    /\ page \in Pages /\ live \in {Nothing, "one"} /\ snapshots \in Seq(Pages)
    /\ request \in [Keys -> RequestStatus] /\ due \subseteq Keys /\ linked \subseteq Keys
    /\ asked \in [Keys -> Nat]

ReportsTyped ==
    /\ publication \in [Texts -> PublicationStatus] /\ login \in {"active", "error"}
    /\ fupa \in 0..used.texts /\ approved \subseteq Nat /\ confirmed \subseteq Nat

WritersTyped ==
    /\ report \in ReportRow /\ scheduler \in SchedulerRow /\ user \in [Users -> User]
    /\ used \in [requests : 0..MaxRequests, changes : 0..MaxChanges, texts : Nat, reports : Nat]

\* Texts that are being written: by a user, or by the worker, who writes one only
\* for a report without text.
Writes(u) == IF user[u].op = "generate" THEN 1 ELSE 0
WorkerWrites ==
    IF report.current = 0 \/ (scheduler.phase \in {"asking", "generating"} /\ scheduler.view.current = 0)
    THEN 1 ELSE 0

\* Every text but one goes back to a request, so the numbers of the texts do.
TextsCounted == used.texts + Writes("u1") + Writes("u2") + WorkerWrites <= used.requests + 1

\* The texts a report has and those a user transfers.
TextsKnown ==
    /\ versions \subseteq 1..used.texts
    /\ report.current \in versions \cup {0}
    /\ report.id = 0 => report = NoReport /\ versions = {}
    /\ report.status = "approved" => report.current # 0
    /\ scheduler.phase = "generating" => scheduler.view.current = 0
    /\ \A u \in Users : user[u].op = "publish" => user[u].view.current \in versions

WritersInv == WritersTyped /\ TextsCounted /\ TextsKnown
ReportsTypeInv == SourcesTyped /\ ReportsTyped /\ WritersInv

-----------------------------------------------------------------------------
(* Publication                                                             *)

\* A transfer is of an approved text that is not confirmed yet, and no other user
\* transfers it.
TransfersApproved ==
    \A u \in Users : user[u].op = "publish" =>
        /\ user[u].view.current \in approved
        /\ publication[user[u].view.current] # "published"
        /\ \A w \in Users : w # u /\ user[w].op = "publish" =>
               user[w].view.current # user[u].view.current

PublishInv == TransfersApproved /\ PublishedAsApproved

-----------------------------------------------------------------------------
(* Questions                                                               *)

\* The cycle's work is on the report there is; nobody else makes one meanwhile.
CycleOwns ==
    /\ scheduler.phase # "idle" => scheduler.view.id = report.id
    /\ ~(WorkerCreates /\ UserCreates)

\* What the cycle has asked is of keys that have no request, and what it has found
\* to be over is of requests that were sent.
CycleFits ==
    /\ scheduler.phase = "idle" => scheduler = AtRest
    /\ \A k \in Keys : scheduler.made[k] # Nothing => request[k] = Nothing
    /\ \A k \in scheduler.expired : request[k] = "sent" /\ k \in due
    /\ \A k \in due : request[k] # Nothing
    /\ scheduler.phase = "generating" => \A k \in Keys : scheduler.made[k] # "sent"
    /\ scheduler.phase = "unfinished" => scheduler.made = NoneMade

\* A message that reached a contact is in a row, or will be when the cycle commits.
AskedRecorded ==
    \A k \in Keys :
        /\ asked[k] <= 1
        /\ asked[k] = 1 => request[k] \in {"sent", "answered", "expired"} \/ scheduler.made[k] = "sent"

AskInv == CycleOwns /\ CycleFits /\ AskedRecorded

-----------------------------------------------------------------------------
(* The operators                                                           *)

LEMMA Rows ==
    /\ NoReport \in ReportRow /\ AtRest \in SchedulerRow /\ Away \in User
    /\ NoneMade \in [Keys -> RequestStatus]
<1>1. NoReport \in ReportRow
  BY DEF NoReport, ReportRow
<1>2. NoneMade \in [Keys -> RequestStatus]
  BY DEF NoneMade, RequestStatus
<1>3. Away \in User
  BY <1>1 DEF Away, User
<1>4. <<>> \in Seq(Pages)
  OBVIOUS
<1>5. AtRest \in SchedulerRow
  BY <1>1, <1>2, <1>4 DEF AtRest, SchedulerRow
<1> QED BY <1>1, <1>2, <1>3, <1>5

\* A page that is read joins the snapshots, or not.
LEMMA FetchedIs ==
    ASSUME SourcesTyped, NEW read \in {page, "error"}
    PROVE  Fetched(read) \in Seq(Pages)
<1>1. snapshots \in Seq(Pages) /\ (read # "error" => read \in Pages)
  BY DEF SourcesTyped
<1> QED BY <1>1 DEF Fetched

\* The keys that are asked are linked and have no request.
LEMMA AskedNowIs ==
    ASSUME SourcesTyped, NEW c \in Contacts, NEW outcome
    PROVE  \A k \in AskedNow(c, outcome) : k \in Keys /\ NotYetAsked(k)
BY DEF AskedNow, SourcesTyped

LEMMA RecordedIs ==
    ASSUME NEW x
    PROVE  Recorded(x) \in {"sent", "failed"} /\ (Recorded(x) = "sent" <=> x = "sent")
BY DEF Recorded

\* What a message leaves behind.
LEMMA MessagesTyped ==
    ASSUME SourcesTyped, NEW keys, NEW outcome
    PROVE  /\ Reached(keys, outcome) \in [Keys -> Nat]
           /\ StillLinked(keys, outcome) \subseteq Keys
<1>1. asked \in [Keys -> Nat] /\ linked \subseteq Keys
  BY DEF SourcesTyped
<1>2. \A k \in Keys : asked[k] + (IF k \in keys /\ outcome[k] \in {"sent", "unclear"} THEN 1 ELSE 0) \in Nat
  BY <1>1
<1> QED BY <1>1, <1>2 DEF Reached, StillLinked

\* What a cycle commits.
LEMMA CommitTyped ==
    ASSUME SourcesTyped, scheduler \in SchedulerRow, CycleCommit
    PROVE  /\ snapshots' \in Seq(Pages) /\ request' \in [Keys -> RequestStatus]
           /\ due' \subseteq Keys
<1>1. scheduler.snapshots \in Seq(Pages) /\ scheduler.made \in [Keys -> RequestStatus]
  BY DEF SchedulerRow
<1>2. \A k \in Keys : Seen(k) \in RequestStatus
  BY <1>1 DEF Seen, SourcesTyped, RequestStatus
<1> QED BY <1>1, <1>2 DEF CycleCommit, SourcesTyped, RequestStatus

LEMMA WrittenIs ==
    ASSUME report \in ReportRow, scheduler \in SchedulerRow, used.reports \in Nat, NEW status \in ReportStatuses
    PROVE  /\ Written(status) \in ReportRow
           /\ Written(status).current = IF report.id = 0 THEN 0 ELSE report.current
           /\ Written(status).status \in {status, report.status}
          /\ Written(status).id # 0
<1>1. NewId \in Nat \ {0}
  BY DEF NewId
<1>2. scheduler.view \in ReportRow
  BY DEF SchedulerRow
<1> QED BY <1>1, <1>2, Rows DEF Written, ReportRow, NoReport

-----------------------------------------------------------------------------
(* Every step keeps the types                                              *)

\* A step that writes no text and leaves the report's texts and their transfers.
LEMMA NoTextWritten ==
    ASSUME WritersInv, UNCHANGED <<versions, user>>,
           report' \in ReportRow, report'.current = report.current, report' = report \/ report'.id # 0,
           report'.status = "approved" => report.status = "approved" \/ report.current # 0,
           scheduler' \in SchedulerRow, used'.texts = used.texts,
           used' \in [requests : 0..MaxRequests, changes : 0..MaxChanges, texts : Nat, reports : Nat],
           used'.requests >= used.requests,
           scheduler'.phase = "generating" => scheduler'.view.current = 0,
           report.current = 0 \/ scheduler' = scheduler \/ scheduler'.phase \notin {"asking", "generating"}
             \/ scheduler'.view.current # 0
             \/ (scheduler.phase \in {"asking", "generating"} /\ scheduler.view = scheduler'.view)
    PROVE  WritersInv'
<1>1. TextsKnown'
  BY DEF WritersInv, TextsKnown
<1>2. WorkerWrites' <= WorkerWrites /\ WorkerWrites \in {0, 1} /\ WorkerWrites' \in {0, 1}
  BY DEF WorkerWrites
<1>3. \A u \in Users : Writes(u)' = Writes(u) /\ Writes(u) \in {0, 1}
  BY DEF Writes
<1>4. TextsCounted'
  <2>1. /\ used.texts \in Nat /\ used.requests \in Nat /\ used'.requests \in Nat
        /\ used.texts + Writes("u1") + Writes("u2") + WorkerWrites <= used.requests + 1
    BY DEF WritersInv, WritersTyped, TextsCounted
  <2>2. "u1" \in Users /\ "u2" \in Users
    BY DEF Users
  <2> HIDE DEF WritersInv
  <2> QED BY <1>2, <1>3, <2>1, <2>2 DEF TextsCounted
<1> QED BY <1>1, <1>4 DEF WritersInv, WritersTyped

Bounds == [requests : 0..MaxRequests, changes : 0..MaxChanges, texts : Nat, reports : Nat]

\* A step that writes one: a user's request, a user's generation, or the worker's.
LEMMA TextWritten ==
    ASSUME WritersInv, NEW r \in ReportRow, r.id # 0, report' = WithText(r),
           versions' = versions \cup {NewText}, used' \in Bounds, used'.texts = NewText,
           \/ /\ used'.requests = used.requests + 1 /\ UNCHANGED <<scheduler, user>>
           \/ /\ used'.requests = used.requests /\ UNCHANGED scheduler
              /\ \E u \in Users : user[u].op = "generate" /\ Leave(u)
           \/ /\ used'.requests = used.requests /\ UNCHANGED user
              /\ WorkerWrites = 1 /\ scheduler' = AtRest
    PROVE  WritersInv'
<1>1. /\ used.texts \in Nat /\ used.requests \in Nat /\ used'.requests \in Nat
      /\ used.texts + Writes("u1") + Writes("u2") + WorkerWrites <= used.requests + 1
      /\ NewText = used.texts + 1 /\ user \in [Users -> User] /\ scheduler \in SchedulerRow
      /\ "u1" \in Users /\ "u2" \in Users
  BY DEF WritersInv, WritersTyped, TextsCounted, NewText, Bounds, Users
<1>2. /\ report' \in ReportRow /\ report'.current = NewText
      /\ report'.status = "review_required" /\ report'.id # 0
  <2>1. PICK t \in Nat : t = NewText
    BY <1>1
  <2>2. report' = [r EXCEPT !.current = t, !.status = "review_required"]
    BY <2>1 DEF WithText
  <2>3. "review_required" \in ReportStatuses
    BY DEF ReportStatuses
  <2> QED BY <2>1, <2>2, <2>3 DEF ReportRow
<1>3. /\ user' \in [Users -> User]
      /\ \A u \in Users : user'[u] = user[u] \/ user'[u] = Away
  BY <1>1, Rows DEF Leave
<1>4. scheduler' \in SchedulerRow /\ (scheduler' = scheduler \/ scheduler' = AtRest)
  BY <1>1, Rows
<1>5. TextsKnown'
  <2>1. TextsKnown
    BY DEF WritersInv
  <2>2. versions' \subseteq 1..used'.texts
    <3>1. versions \subseteq 1..used.texts /\ versions' = versions \cup {used.texts + 1}
      BY <1>1, <2>1 DEF TextsKnown
    <3>2. \A t \in versions : t \in 1..(used.texts + 1)
      BY <1>1, <3>1
    <3>3. used.texts + 1 \in 1..(used.texts + 1) /\ used'.texts = used.texts + 1
      BY <1>1
    <3> QED BY <3>1, <3>2, <3>3
  <2>3. /\ report'.current \in versions' \cup {0} /\ report'.id # 0
        /\ report'.status = "approved" => report'.current # 0
    BY <1>2
  <2>4. scheduler'.phase = "generating" => scheduler'.view.current = 0
    BY <1>4, <2>1 DEF TextsKnown, AtRest
  <2>5. \A u \in Users : user'[u].op = "publish" => user'[u].view.current \in versions'
    BY <1>3, <2>1 DEF TextsKnown, Away, Nothing
  <2> QED BY <2>2, <2>3, <2>4, <2>5 DEF TextsKnown
<1>6. /\ WorkerWrites \in {0, 1} /\ WorkerWrites' \in {0, 1}
      /\ scheduler' = scheduler => WorkerWrites' <= WorkerWrites
      /\ scheduler' = AtRest => WorkerWrites' = 0
  BY <1>1, <1>2, <1>4 DEF WorkerWrites, AtRest
<1>7. \A u \in Users : /\ Writes(u) \in {0, 1} /\ Writes(u)' \in {0, 1}
                       /\ Writes(u)' <= Writes(u)
                       /\ user[u].op = "generate" /\ user'[u] = Away => Writes(u) = 1 /\ Writes(u)' = 0
  BY <1>1, <1>3 DEF Writes, Away, Nothing
<1>8. \E u \in Users : user[u].op = "generate" /\ Leave(u)
          => user[u].op = "generate" /\ user'[u] = Away
  BY <1>1 DEF Leave
<1>9. TextsCounted'
  <2>1. CASE used'.requests = used.requests + 1 /\ UNCHANGED <<scheduler, user>>
    BY <1>1, <1>6, <1>7, <2>1 DEF TextsCounted
  <2>2. ASSUME used'.requests = used.requests, UNCHANGED scheduler,
               NEW u \in Users, user[u].op = "generate", Leave(u)
        PROVE  TextsCounted'
    <3>1. Writes(u) = 1 /\ Writes(u)' = 0 /\ u \in {"u1", "u2"}
      BY <1>1, <1>7, <2>2 DEF Leave, Users
    <3>2. Writes("u1")' + Writes("u2")' + 1 <= Writes("u1") + Writes("u2")
      BY <1>1, <1>7, <3>1
    <3> QED BY <1>1, <1>6, <1>7, <2>2, <3>2 DEF TextsCounted
  <2>3. CASE used'.requests = used.requests /\ WorkerWrites = 1 /\ scheduler' = AtRest
    BY <1>1, <1>6, <1>7, <2>3 DEF TextsCounted
  <2> QED BY <2>1, <2>2, <2>3
<1> QED BY <1>2, <1>3, <1>4, <1>5, <1>9 DEF WritersInv, WritersTyped, Bounds

\* The worker's cycle.
LEMMA ReportsTypeCycle == ASSUME ReportsTypeInv, ReportAssumption, SchedulerCycle PROVE ReportsTypeInv'
<1>1. /\ SourcesTyped /\ ReportsTyped /\ WritersInv /\ WritersTyped
      /\ report \in ReportRow /\ scheduler \in SchedulerRow /\ scheduler.view \in ReportRow
      /\ used \in Bounds /\ used.requests \in Nat /\ used.reports \in Nat
  BY DEF ReportsTypeInv, WritersInv, WritersTyped, SchedulerRow, Bounds
<1>2. ASSUME NEW read \in {page, "error"}, CycleBegin(read) PROVE ReportsTypeInv'
  <2>1. SourcesTyped' /\ ReportsTyped'
    BY <1>1, <1>2 DEF CycleBegin, sources, reports, feedback, SourcesTyped, ReportsTyped
  <2>2. {k \in due : request[k] = "sent"} \subseteq Keys /\ Fetched(read) \in Seq(Pages)
    BY <1>1, FetchedIs DEF SourcesTyped
  <2>3. /\ scheduler' \in SchedulerRow /\ scheduler'.view = report
        /\ scheduler'.phase \in {"asking", "unfinished"}
    BY <1>1, <1>2, <2>2, Rows DEF CycleBegin, SchedulerRow
  <2>4. WritersInv'
    BY <1>1, <1>2, <2>3, NoTextWritten DEF CycleBegin, reports, Bounds
  <2> QED BY <2>1, <2>4 DEF ReportsTypeInv
<1>3. ASSUME NEW c \in Contacts, NEW outcome, CycleAsk(c, outcome) PROVE ReportsTypeInv'
  <2> DEFINE keys == AskedNow(c, outcome)
  <2>1. Reached(keys, outcome) \in [Keys -> Nat] /\ StillLinked(keys, outcome) \subseteq Keys
    BY <1>1, MessagesTyped
  <2>2. SourcesTyped' /\ ReportsTyped'
    BY <1>1, <1>3, <2>1 DEF CycleAsk, sources, reports, SourcesTyped, ReportsTyped
  <2>3. /\ scheduler' \in SchedulerRow /\ scheduler'.view = scheduler.view /\ scheduler'.phase = "asking"
        /\ scheduler.phase = "asking"
    <3> DEFINE made == [k \in Keys |-> IF k \in keys THEN Recorded(outcome[k]) ELSE scheduler.made[k]]
    <3>1. made \in [Keys -> RequestStatus]
      BY <1>1, RecordedIs DEF SchedulerRow, RequestStatus
    <3>2. scheduler' = [scheduler EXCEPT !.todo = @ \ {c}, !.made = made]
      BY <1>1, <1>3 DEF CycleAsk, SchedulerRow
    <3>3. scheduler.phase = "asking"
      BY <1>3 DEF CycleAsk
    <3> HIDE DEF made
    <3> QED BY <1>1, <3>1, <3>2, <3>3 DEF SchedulerRow
  <2>4. WritersInv'
    BY <1>1, <1>3, <2>3, NoTextWritten DEF CycleAsk, reports, Bounds
  <2> QED BY <2>2, <2>4 DEF ReportsTypeInv
<1>4. CASE CycleUnfinished
  <2>1. SourcesTyped' /\ ReportsTyped'
    BY <1>1, <1>4, CommitTyped DEF CycleUnfinished, reports, SourcesTyped, ReportsTyped
  <2>2. WritersInv'
    BY <1>1, <1>4, Rows, NoTextWritten DEF CycleUnfinished, reports, Bounds, AtRest
  <2> QED BY <2>1, <2>2 DEF ReportsTypeInv
<1>5. CASE CycleEnd
  <2>1. ASSUME NEW status \in ReportStatuses \ {"approved"}, CycleCommit, scheduler' = AtRest,
               report' = Written(status),
               used' = [used EXCEPT !.reports = IF report.id = 0 THEN NewId ELSE @]
        PROVE  ReportsTypeInv'
    <3>1. SourcesTyped' /\ ReportsTyped'
      BY <1>1, <1>5, <2>1, CommitTyped DEF CycleEnd, SourcesTyped, ReportsTyped, Bounds
    <3>2. used' \in Bounds /\ used'.texts = used.texts /\ used'.requests = used.requests
      BY <1>1, <2>1 DEF Bounds, NewId
    <3>3. UNCHANGED <<versions, user>>
      BY <1>5 DEF CycleEnd
    <3>4. /\ report' \in ReportRow /\ (report'.status = "approved" => report.status = "approved")
          /\ report'.current = IF report.id = 0 THEN 0 ELSE report.current
          /\ report'.id # 0
      BY <1>1, <2>1, WrittenIs
    <3>5. report'.current = report.current
      BY <1>1, <3>4 DEF WritersInv, TextsKnown, NoReport
    <3>6. scheduler' \in SchedulerRow /\ scheduler'.phase = "idle"
      BY <2>1, Rows DEF AtRest
    <3>7. WritersInv'
      BY <1>1, <3>2, <3>3, <3>4, <3>5, <3>6, NoTextWritten DEF Bounds
    <3> QED BY <3>1, <3>7 DEF ReportsTypeInv
  <2>2. CASE scheduler' = [scheduler EXCEPT !.phase = "generating"]
             /\ scheduler.view.current = 0 /\ UNCHANGED <<snapshots, report, request, due, used>>
    <3>1. SourcesTyped' /\ ReportsTyped'
      BY <1>1, <1>5, <2>2 DEF CycleEnd, SourcesTyped, ReportsTyped
    <3>2. /\ scheduler' \in SchedulerRow /\ scheduler'.view = scheduler.view /\ scheduler'.phase = "generating"
          /\ scheduler.phase = "asking"
      BY <1>1, <1>5, <2>2 DEF CycleEnd, SchedulerRow
    <3>3. UNCHANGED <<versions, user>>
      BY <1>5 DEF CycleEnd
    <3>4. WritersInv'
      BY <1>1, <2>2, <3>2, <3>3, NoTextWritten DEF Bounds
    <3> QED BY <3>1, <3>4 DEF ReportsTypeInv
  <2>3. /\ "waiting_for_feedback" \in ReportStatuses \ {"approved"}
        /\ "conflict_requires_review" \in ReportStatuses \ {"approved"}
        /\ "ready_to_generate" \in ReportStatuses \ {"approved"}
    BY DEF ReportStatuses
  <2>4. \/ scheduler' = [scheduler EXCEPT !.phase = "generating"]
           /\ scheduler.view.current = 0 /\ UNCHANGED <<snapshots, report, request, due, used>>
        \/ \E status \in ReportStatuses \ {"approved"} :
              /\ CycleCommit /\ scheduler' = AtRest /\ report' = Written(status)
              /\ used' = [used EXCEPT !.reports = IF report.id = 0 THEN NewId ELSE @]
    BY <1>5, <2>3 DEF CycleEnd
  <2> QED BY <2>1, <2>2, <2>4
<1>6. CASE CycleGenerates
  <2> DEFINE r == Written("generating")
  <2>1. /\ r \in ReportRow /\ r.id # 0
    BY <1>1, WrittenIs DEF ReportStatuses
  <2>2. /\ used' \in Bounds /\ used'.texts = NewText /\ used'.requests = used.requests
    <3> DEFINE n == IF report.id = 0 THEN NewId ELSE used.reports
    <3>1. n \in Nat /\ NewText \in Nat
      BY <1>1 DEF Bounds, NewId, NewText
    <3>2. used' = [used EXCEPT !.reports = n, !.texts = NewText]
      BY <1>6 DEF CycleGenerates
    <3> HIDE DEF n
    <3> QED BY <1>1, <3>1, <3>2 DEF Bounds
  <2>3. WorkerWrites = 1
    BY <1>1, <1>6 DEF CycleGenerates, WritersInv, TextsKnown, WorkerWrites
  <2>4. /\ report' = WithText(r) /\ versions' = versions \cup {NewText} /\ UNCHANGED user
        /\ scheduler' = AtRest
    BY <1>6 DEF CycleGenerates
  <2> HIDE DEF r
  <2>5. WritersInv'
    BY <1>1, <2>1, <2>2, <2>3, <2>4, TextWritten
  <2>6. SourcesTyped'
    BY <1>1, <1>6, CommitTyped DEF CycleGenerates, SourcesTyped
  <2>7. ReportsTyped'
    BY <1>1, <1>6, <2>2 DEF CycleGenerates, ReportsTyped, Bounds, NewText
  <2> QED BY <2>5, <2>6, <2>7 DEF ReportsTypeInv
<1>7. CASE CycleFails
  <2>1. request' \in [Keys -> RequestStatus]
    BY <1>1, <1>7 DEF CycleFails, SourcesTyped, RequestStatus
  <2>2. used' \in Bounds /\ used'.texts = used.texts /\ used'.requests = used.requests
    BY <1>1, <1>7 DEF CycleFails, Bounds, NewId
  <2>3. SourcesTyped' /\ ReportsTyped'
    BY <1>1, <1>7, <2>1, <2>2 DEF CycleFails, sources, SourcesTyped, ReportsTyped
  <2>4. /\ report' \in ReportRow /\ report'.status # "approved" /\ report'.id # 0
        /\ report'.current = report.current
    <3>1. "failed" \in ReportStatuses /\ NewId \in Nat \ {0} /\ (report.id = 0 => report = NoReport)
      BY <1>1 DEF ReportStatuses, NewId, WritersInv, TextsKnown
    <3>2. CASE report.id = 0
      BY <1>7, <3>1, <3>2 DEF CycleFails, NoReport, ReportRow
    <3>3. CASE report.id # 0
      BY <1>1, <1>7, <3>1, <3>3 DEF CycleFails, ReportRow
    <3> QED BY <3>2, <3>3
  <2>5. scheduler' \in SchedulerRow /\ scheduler'.phase = "idle" /\ UNCHANGED <<versions, user>>
    BY <1>7, Rows DEF CycleFails, AtRest
  <2>6. WritersInv'
    BY <1>1, <2>2, <2>4, <2>5, NoTextWritten DEF Bounds
  <2> QED BY <2>3, <2>6 DEF ReportsTypeInv
<1> QED BY <1>2, <1>3, <1>4, <1>5, <1>6, <1>7 DEF SchedulerCycle

\* A step of a user that writes no text.
LEMMA UserActs ==
    ASSUME WritersInv, UNCHANGED <<versions, scheduler>>,
           report' \in ReportRow, report'.current = report.current, report' = report \/ report'.id # 0,
           report'.status = "approved" => report.status = "approved",
           used' \in Bounds, used'.texts = used.texts,
           NEW u \in Users, NEW x \in User, user' = [user EXCEPT ![u] = x],
           x.op = "publish" => x.view.current \in versions,
           \/ used'.requests = used.requests /\ x.op # "generate"
           \/ used'.requests = used.requests + 1
    PROVE  WritersInv'
<1>1. /\ used.texts \in Nat /\ used.requests \in Nat /\ used'.requests \in Nat
      /\ used.texts + Writes("u1") + Writes("u2") + WorkerWrites <= used.requests + 1
      /\ user \in [Users -> User] /\ scheduler \in SchedulerRow /\ Users = {"u1", "u2"}
  BY DEF WritersInv, WritersTyped, TextsCounted, Bounds, Users
<1>2. user' \in [Users -> User] /\ \A w \in Users : user'[w] = IF w = u THEN x ELSE user[w]
  BY <1>1
<1>3. TextsKnown'
  BY <1>2 DEF WritersInv, TextsKnown
<1>4. WorkerWrites' = WorkerWrites /\ WorkerWrites \in {0, 1}
  BY DEF WorkerWrites
<1>5. \A w \in Users : /\ Writes(w) \in {0, 1}
                       /\ Writes(w)' = IF w = u THEN IF x.op = "generate" THEN 1 ELSE 0
                                       ELSE Writes(w)
  BY <1>2 DEF Writes
<1>6. TextsCounted'
  <2>1. CASE u = "u1"
    BY <1>1, <1>4, <1>5, <2>1 DEF TextsCounted
  <2>2. CASE u = "u2"
    BY <1>1, <1>4, <1>5, <2>2 DEF TextsCounted
  <2> QED BY <1>1, <2>1, <2>2
<1> QED BY <1>1, <1>2, <1>3, <1>6 DEF WritersInv, WritersTyped, Bounds

\* The requests of one user.
LEMMA TypeUser ==
    ASSUME ReportsTypeInv, ReportAssumption, NEW u \in Users,
           \/ Begin(u, "generate") \/ Begin(u, "publish") \/ generate_report_version(u)
           \/ BrowserPublishes(u) \/ Fails(u)
    PROVE  ReportsTypeInv'
<1>1. /\ SourcesTyped /\ ReportsTyped /\ WritersInv /\ TextsKnown
      /\ report \in ReportRow /\ scheduler \in SchedulerRow /\ user \in [Users -> User]
      /\ used \in Bounds /\ used.requests \in 0..MaxRequests /\ used.reports \in Nat
      /\ used.texts \in Nat /\ MaxRequests \in Nat /\ MaxChanges \in Nat
      /\ fupa \in 0..used.texts
  BY DEF ReportsTypeInv, ReportsTyped, WritersInv, WritersTyped, Bounds, ReportAssumption
<1>2. ASSUME NEW op \in {"generate", "publish"}, Begin(u, op) PROVE ReportsTypeInv'
  <2> DEFINE x == [op |-> op, view |-> report]
  <2>1. SourcesTyped' /\ ReportsTyped'
    BY <1>1, <1>2 DEF Begin, RequestCounted, sources, reports, feedback, SourcesTyped,
      ReportsTyped, Bounds
  <2>2. used' \in Bounds /\ used'.texts = used.texts /\ used'.requests = used.requests + 1
    BY <1>1, <1>2 DEF Begin, RequestCounted, Request, Bounds
  <2>3. x \in User /\ x.op = op /\ x.view = report
    BY <1>1 DEF User
  <2>4. x.op = "publish" => x.view.current \in versions
    BY <1>1, <1>2, <2>3 DEF Begin, Allowed, TextsKnown
  <2>5. user' = [user EXCEPT ![u] = x] /\ UNCHANGED <<report, versions, scheduler>>
    BY <1>2 DEF Begin, reports
  <2> HIDE DEF x
  <2>6. WritersInv'
    BY <1>1, <2>2, <2>3, <2>4, <2>5, UserActs
  <2> QED BY <2>1, <2>6 DEF ReportsTypeInv
<1>3. CASE generate_report_version(u)
  <2> DEFINE n == IF report.id = 0 THEN NewId ELSE used.reports
             r == IF report.id = 0 THEN [NoReport EXCEPT !.id = NewId] ELSE report
  <2>1. n \in Nat /\ NewId \in Nat \ {0} /\ NewText \in Nat
    BY <1>1 DEF NewId, NewText
  <2>2. used' = [used EXCEPT !.reports = n, !.texts = NewText]
    BY <1>3 DEF generate_report_version
  <2>3. r \in ReportRow /\ r.id # 0
    BY <1>1, <2>1, Rows DEF ReportRow, NoReport
  <2>4. report' = WithText(r) /\ versions' = versions \cup {NewText} /\ UNCHANGED scheduler
    BY <1>3 DEF generate_report_version
  <2>5. user[u].op = "generate" /\ Leave(u)
    BY <1>3 DEF generate_report_version
  <2> HIDE DEF n, r
  <2>6. used' \in Bounds /\ used'.texts = NewText /\ used'.requests = used.requests
    BY <1>1, <2>1, <2>2 DEF Bounds
  <2>7. WritersInv'
    BY <1>1, <2>3, <2>4, <2>5, <2>6, TextWritten
  <2>8. SourcesTyped'
    BY <1>1, <1>3 DEF generate_report_version, sources, feedback, SourcesTyped
  <2>9. ReportsTyped'
    BY <1>1, <1>3, <2>6 DEF generate_report_version, ReportsTyped, NewText
  <2> QED BY <2>7, <2>8, <2>9 DEF ReportsTypeInv
<1>4. ASSUME NEW status \in {"published", "failed"}, NEW saved \in BOOLEAN, PublishText(u, status, saved),
             login' \in {"active", "error"}
      PROVE  ReportsTypeInv'
  <2> DEFINE v == user[u].view.current
  <2>1. v \in versions /\ v \in 1..used.texts
    BY <1>1, <1>4 DEF PublishText, TextsKnown
  <2>2. SourcesTyped'
    BY <1>1, <1>4 DEF PublishText, sources, feedback, SourcesTyped
  <2>3. ReportsTyped'
    <3>1. publication' \in [Texts -> PublicationStatus]
      BY <1>1, <1>4 DEF PublishText, ReportsTyped, PublicationStatus
    <3>2. fupa' \in 0..used'.texts /\ confirmed' \subseteq Nat /\ approved' \subseteq Nat
      BY <1>1, <1>4, <2>1 DEF PublishText, ReportsTyped
    <3> QED BY <1>4, <3>1, <3>2 DEF ReportsTyped
  <2>4. /\ report' \in ReportRow /\ report'.current = report.current /\ (report' = report \/ report'.id # 0)
        /\ (report'.status = "approved" => report.status = "approved")
    <3>1. report.id # 0 \/ report = NoReport
      BY <1>1 DEF TextsKnown
    <3>2. versions = {} \/ report.id # 0
      BY <1>1 DEF TextsKnown
    <3> QED BY <1>1, <1>4, <2>1, <3>2 DEF PublishText, ReportRow, ReportStatuses
  <2>5. user' = [user EXCEPT ![u] = Away] /\ Away \in User /\ Away.op = "none"
        /\ UNCHANGED <<versions, scheduler, used>>
    BY <1>4, Rows DEF PublishText, Leave, Away, Nothing
  <2>6. WritersInv'
    BY <1>1, <2>4, <2>5, UserActs
  <2> QED BY <2>2, <2>3, <2>6 DEF ReportsTypeInv
<1>5. CASE Fails(u)
  <2>1. SourcesTyped' /\ ReportsTyped'
    BY <1>1, <1>5 DEF Fails, sources, reports, feedback, SourcesTyped, ReportsTyped
  <2>2. user' = [user EXCEPT ![u] = Away] /\ Away \in User /\ Away.op = "none"
        /\ UNCHANGED <<report, versions, scheduler, used>>
    BY <1>5, Rows DEF Fails, Leave, Away, Nothing, reports
  <2>3. WritersInv'
    BY <1>1, <2>2, UserActs
  <2> QED BY <2>1, <2>3 DEF ReportsTypeInv
<1>6. BrowserPublishes(u) => ReportsTypeInv'
  <2>1. login \in {"active", "error"}
    BY <1>1 DEF ReportsTyped
  <2> QED BY <1>4, <2>1 DEF BrowserPublishes
<1> QED BY <1>2, <1>3, <1>5, <1>6

\* A step that leaves the report, its texts and their writers alone.
LEMMA WritersKept ==
    ASSUME ReportsTypeInv, UNCHANGED <<report, versions, scheduler, user>>,
           used' \in Bounds, used'.texts = used.texts, used'.requests >= used.requests
    PROVE  WritersInv'
<1>1. WritersInv /\ report \in ReportRow /\ scheduler \in SchedulerRow /\ TextsKnown
  BY DEF ReportsTypeInv, WritersInv, WritersTyped
<1>2. scheduler'.phase = "generating" => scheduler'.view.current = 0
  BY <1>1 DEF TextsKnown
<1> QED BY <1>1, <1>2, NoTextWritten DEF Bounds

\* The short requests of users.
LEMMA TypeShort ==
    ASSUME ReportsTypeInv, ReportAssumption,
           \/ ManualPublishes \/ create_edited_version \/ delete_unpublished_report
           \/ \E v \in versions : approve_report(v)
           \/ save_fupa_browser_session
    PROVE  ReportsTypeInv'
<1>1. /\ SourcesTyped /\ ReportsTyped /\ WritersInv /\ TextsKnown
      /\ report \in ReportRow /\ scheduler \in SchedulerRow /\ user \in [Users -> User]
      /\ used \in Bounds /\ used.requests \in 0..MaxRequests /\ used.reports \in Nat
      /\ used.texts \in Nat /\ used.requests \in Nat /\ MaxRequests \in Nat
      /\ fupa \in 0..used.texts
      /\ used.texts + Writes("u1") + Writes("u2") + WorkerWrites <= used.requests + 1
  BY DEF ReportsTypeInv, ReportsTyped, WritersInv, WritersTyped, TextsCounted, Bounds,
    ReportAssumption
<1>2. Request /\ RequestCounted => /\ used' \in Bounds /\ used'.texts = used.texts
                                   /\ used'.requests = used.requests + 1
  BY <1>1 DEF RequestCounted, Request, Bounds
<1>3. CASE ManualPublishes
  <2>1. SourcesTyped' /\ ReportsTyped'
    BY <1>1, <1>2, <1>3 DEF ManualPublishes, sources, feedback, SourcesTyped, ReportsTyped,
                            PublicationStatus
  <2>2. /\ UNCHANGED <<report, versions, scheduler, user>> /\ used' \in Bounds
        /\ used'.texts = used.texts /\ used'.requests >= used.requests
    BY <1>1, <1>2, <1>3 DEF ManualPublishes
  <2> QED BY <2>1, <2>2, WritersKept DEF ReportsTypeInv
<1>4. CASE create_edited_version
  <2>1. NewText = used.texts + 1
    BY DEF NewText
  <2>2. SourcesTyped' /\ ReportsTyped'
    BY <1>1, <1>4, <2>1 DEF create_edited_version, sources, feedback, SourcesTyped, ReportsTyped,
      Bounds
  <2>3. used' \in Bounds /\ used'.texts = NewText /\ used'.requests = used.requests + 1
    <3> DEFINE q == used.requests + 1
    <3>1. NewText \in Nat /\ q \in 0..MaxRequests
      BY <1>1, <1>4, <2>1 DEF create_edited_version, Request
    <3>2. used' = [used EXCEPT !.texts = NewText, !.requests = q]
      BY <1>1, <1>4 DEF create_edited_version, Bounds
    <3> HIDE DEF q
    <3>3. q = used.requests + 1
      BY DEF q
    <3> QED BY <1>1, <3>1, <3>2, <3>3 DEF Bounds
  <2>4. report.id # 0
    BY <1>1, <1>4 DEF create_edited_version, TextsKnown, NoReport
  <2>5. report' = WithText(report) /\ versions' = versions \cup {NewText} /\ UNCHANGED <<scheduler, user>>
    BY <1>4 DEF create_edited_version, Edited
  <2>6. WritersInv'
    BY <1>1, <2>3, <2>4, <2>5, TextWritten
  <2> QED BY <2>2, <2>6 DEF ReportsTypeInv
<1>5. CASE delete_unpublished_report
  <2>1. SourcesTyped'
    BY <1>1, <1>5 DEF delete_unpublished_report, sources, feedback, SourcesTyped
  <2>2. ReportsTyped'
    BY <1>1, <1>2, <1>5 DEF delete_unpublished_report, ReportsTyped, PublicationStatus
  <2>3. /\ used' \in Bounds /\ used'.texts = used.texts /\ used'.requests = used.requests + 1
        /\ report' = NoReport /\ versions' = {} /\ UNCHANGED <<scheduler, user>>
    BY <1>1, <1>2, <1>5 DEF delete_unpublished_report
  <2>4. \A u \in Users : user[u].op # "publish"
    BY <1>1, <1>5 DEF delete_unpublished_report, publishing, TextsKnown
  <2>5. NoReport.current = 0 /\ NoReport.status = "none"
    BY DEF NoReport, Nothing
  <2>6. TextsKnown'
    BY <1>1, <2>3, <2>4, <2>5 DEF TextsKnown
  <2>7. WorkerWrites' <= 1 /\ WorkerWrites' \in {0, 1} /\ WorkerWrites \in {0, 1}
    BY DEF WorkerWrites
  <2>8. \A u \in Users : Writes(u)' = Writes(u) /\ Writes(u) \in {0, 1}
    BY <2>3 DEF Writes
  <2>9. TextsCounted'
    <3>1. "u1" \in Users /\ "u2" \in Users
      BY DEF Users
    <3> QED BY <1>1, <2>3, <2>7, <2>8, <3>1 DEF TextsCounted
  <2> QED BY <1>1, <2>1, <2>2, <2>3, <2>6, <2>9, Rows DEF ReportsTypeInv, WritersInv, WritersTyped,
    Bounds
<1>6. ASSUME NEW v \in versions, approve_report(v) PROVE ReportsTypeInv'
  <2>1. SourcesTyped'
    BY <1>1, <1>6 DEF approve_report, sources, feedback, SourcesTyped
  <2>2. v \in Nat
    BY <1>1 DEF TextsKnown
  <2>3. ReportsTyped'
    BY <1>1, <1>2, <1>6, <2>2 DEF approve_report, ReportsTyped
  <2>4. /\ used' \in Bounds /\ used'.texts = used.texts /\ used'.requests = used.requests + 1
        /\ UNCHANGED <<versions, scheduler, user>>
    BY <1>1, <1>2, <1>6 DEF approve_report
  <2>5. /\ report' \in ReportRow /\ report'.current = report.current /\ report'.id # 0
        /\ report.current # 0
    BY <1>1, <1>6 DEF approve_report, ReportRow, ReportStatuses, TextsKnown, NoReport
  <2>6. scheduler'.phase = "generating" => scheduler'.view.current = 0
    BY <1>1, <2>4 DEF TextsKnown
  <2>7. WritersInv'
    BY <1>1, <2>4, <2>5, <2>6, NoTextWritten DEF Bounds
  <2> QED BY <2>1, <2>3, <2>7 DEF ReportsTypeInv
<1>7. CASE save_fupa_browser_session
  <2>1. SourcesTyped' /\ ReportsTyped'
    BY <1>1, <1>7 DEF save_fupa_browser_session, sources, feedback, SourcesTyped, ReportsTyped
  <2> QED BY <1>1, <1>7, <2>1, WritersKept DEF save_fupa_browser_session, ReportsTypeInv
<1> QED BY <1>3, <1>4, <1>5, <1>6, <1>7

\* Requests that read FuPa or ask, and what happens outside.
LEMMA TypeWorld ==
    ASSUME ReportsTypeInv, ReportAssumption,
           \/ \E read \in {page, "error"} : refresh_sources(read)
           \/ \E c \in Contacts, outcome \in [Keys -> Outcomes] : request_feedback(c, outcome)
           \/ \E k \in Keys :
                 \/ telegram_webhook(k) \/ DeadlinePasses(k)
                 \/ consume_contact_link(k) \/ disconnect_telegram_contact(k)
           \/ \E p \in Pages : PageChanges(p)
           \/ Confirm
    PROVE  ReportsTypeInv'
<1>1. /\ SourcesTyped /\ ReportsTyped /\ WritersInv /\ TextsKnown
      /\ report \in ReportRow /\ scheduler \in SchedulerRow
      /\ used \in Bounds /\ used.requests \in 0..MaxRequests
      /\ used.texts \in Nat /\ used.requests \in Nat /\ MaxRequests \in Nat
      /\ used.changes \in 0..MaxChanges /\ MaxChanges \in Nat
  BY DEF ReportsTypeInv, WritersInv, WritersTyped, Bounds, ReportAssumption
<1>2. Request /\ RequestCounted => /\ used' \in Bounds /\ used'.texts = used.texts
                                   /\ used'.requests = used.requests + 1
  BY <1>1 DEF RequestCounted, Request, Bounds
<1>3. ASSUME NEW read \in {page, "error"}, refresh_sources(read) PROVE ReportsTypeInv'
  <2>1. Fetched(read) \in Seq(Pages)
    BY <1>1, FetchedIs
  <2>2. SourcesTyped' /\ ReportsTyped'
    BY <1>1, <1>2, <1>3, <2>1 DEF refresh_sources, feedback, SourcesTyped, ReportsTyped
  <2>3. /\ used' \in Bounds /\ used'.texts = used.texts /\ used'.requests = used.requests + 1
        /\ UNCHANGED <<versions, scheduler, user>> /\ report.id # 0
    BY <1>1, <1>2, <1>3 DEF refresh_sources
  <2>4. PICK status \in ReportStatuses \ {"approved"} : report' = [report EXCEPT !.status = status]
    BY <1>3 DEF refresh_sources, ReportStatuses
  <2>5. /\ report' \in ReportRow /\ report'.current = report.current /\ report'.id # 0
        /\ report'.status # "approved"
    BY <1>1, <2>3, <2>4 DEF ReportRow
  <2>6. scheduler'.phase = "generating" => scheduler'.view.current = 0
    BY <1>1, <2>3 DEF TextsKnown
  <2>7. WritersInv'
    BY <1>1, <2>3, <2>5, <2>6, NoTextWritten DEF Bounds
  <2> QED BY <2>2, <2>7 DEF ReportsTypeInv
<1>4. ASSUME NEW c \in Contacts, NEW outcome, request_feedback(c, outcome) PROVE ReportsTypeInv'
  <2> DEFINE keys == AskedNow(c, outcome)
  <2>1. Reached(keys, outcome) \in [Keys -> Nat] /\ StillLinked(keys, outcome) \subseteq Keys
    BY <1>1, MessagesTyped
  <2>2. request' \in [Keys -> RequestStatus]
    BY <1>1, <1>4, RecordedIs DEF request_feedback, SourcesTyped, RequestStatus
  <2>3. SourcesTyped' /\ ReportsTyped'
    BY <1>1, <1>2, <1>4, <2>1, <2>2 DEF request_feedback, sources, reports, SourcesTyped,
      ReportsTyped
  <2>4. /\ used' \in Bounds /\ used'.texts = used.texts /\ used'.requests >= used.requests
        /\ UNCHANGED <<report, versions, scheduler, user>>
    BY <1>1, <1>2, <1>4 DEF request_feedback, reports
  <2> QED BY <2>3, <2>4, WritersKept DEF ReportsTypeInv
<1>5. ASSUME NEW k \in Keys, telegram_webhook(k) \/ DeadlinePasses(k) PROVE ReportsTypeInv'
  <2>1. SourcesTyped' /\ ReportsTyped'
    BY <1>1, <1>5 DEF telegram_webhook, consume_feedback_response, DeadlinePasses, sources, reports,
                      SourcesTyped, ReportsTyped, RequestStatus
  <2>2. /\ used' \in Bounds /\ used'.texts = used.texts /\ used'.requests >= used.requests
        /\ UNCHANGED <<report, versions, scheduler, user>>
    BY <1>1, <1>5 DEF telegram_webhook, DeadlinePasses, reports
  <2> QED BY <2>1, <2>2, WritersKept DEF ReportsTypeInv
<1>6. ASSUME NEW to \in SUBSET Keys, SwitchLink(to) PROVE ReportsTypeInv'
  <2>1. SourcesTyped' /\ ReportsTyped'
    BY <1>1, <1>6 DEF SwitchLink, sources, reports, SourcesTyped, ReportsTyped, Bounds
  <2>2. /\ used' \in Bounds /\ used'.texts = used.texts /\ used'.requests >= used.requests
        /\ UNCHANGED <<report, versions, scheduler, user>>
    BY <1>1, <1>6 DEF SwitchLink, reports, Bounds
  <2> QED BY <2>1, <2>2, WritersKept DEF ReportsTypeInv
<1>7. ASSUME NEW k \in Keys, consume_contact_link(k) \/ disconnect_telegram_contact(k) PROVE ReportsTypeInv'
  <2>1. linked \cup {k} \in SUBSET Keys /\ linked \ {k} \in SUBSET Keys
    BY <1>1 DEF SourcesTyped
  <2> QED BY <1>6, <1>7, <2>1 DEF consume_contact_link, disconnect_telegram_contact
<1>8. ASSUME NEW p \in Pages, PageChanges(p) PROVE ReportsTypeInv'
  <2>1. SourcesTyped' /\ ReportsTyped'
    BY <1>1, <1>8 DEF PageChanges, reports, feedback, SourcesTyped, ReportsTyped, Bounds
  <2>2. /\ used' \in Bounds /\ used'.texts = used.texts /\ used'.requests >= used.requests
        /\ UNCHANGED <<report, versions, scheduler, user>>
    BY <1>1, <1>8 DEF PageChanges, reports, Bounds
  <2> QED BY <2>1, <2>2, WritersKept DEF ReportsTypeInv
<1>9. CASE Confirm
  <2>1. SourcesTyped' /\ ReportsTyped'
    BY <1>1, <1>9 DEF Confirm, reports, feedback, SourcesTyped, ReportsTyped
  <2>2. /\ used' \in Bounds /\ used'.texts = used.texts /\ used'.requests >= used.requests
        /\ UNCHANGED <<report, versions, scheduler, user>>
    BY <1>1, <1>9 DEF Confirm, reports
  <2> QED BY <2>1, <2>2, WritersKept DEF ReportsTypeInv
<1> QED BY <1>3, <1>4, <1>5, <1>7, <1>8, <1>9

LEMMA ReportsTypeInit == ASSUME ReportAssumption, ReportsInit PROVE ReportsTypeInv
<1>1. SourcesTyped /\ ReportsTyped
  <2>1. <<>> \in Seq(Pages)
    OBVIOUS
  <2> QED BY <2>1 DEF ReportsInit, SourcesTyped, ReportsTyped, Pages, RequestStatus,
    PublicationStatus
<1>2. WritersTyped
  BY Rows DEF ReportsInit, WritersTyped, ReportAssumption
<1>3. TextsKnown
  BY DEF ReportsInit, TextsKnown, NoReport, AtRest, Away, Nothing
<1>4. TextsCounted
  <2>1. Writes("u1") = 0 /\ Writes("u2") = 0 /\ WorkerWrites \in {0, 1}
    BY DEF ReportsInit, Writes, WorkerWrites, Users, Away, Nothing
  <2>2. used.texts = 0 /\ used.requests = 0
    BY DEF ReportsInit
  <2> QED BY <2>1, <2>2 DEF TextsCounted
<1> QED BY <1>1, <1>2, <1>3, <1>4 DEF ReportsTypeInv, WritersInv

LEMMA ReportsTypeStep == ASSUME ReportsTypeInv, ReportAssumption, [ReportsNext]_reportsVars PROVE ReportsTypeInv'
<1>1. CASE UNCHANGED reportsVars
  <2>1. SourcesTyped' /\ ReportsTyped'
    BY <1>1 DEF reportsVars, sources, reports, feedback, ReportsTypeInv, SourcesTyped, ReportsTyped
  <2>2. used \in Bounds /\ used'.requests \in Nat
    BY <1>1 DEF reportsVars, ReportsTypeInv, WritersInv, WritersTyped, Bounds
  <2> QED BY <1>1, <2>1, <2>2, WritersKept DEF reportsVars, reports, ReportsTypeInv, Bounds
<1>2. CASE ReportsNext
  BY <1>2, ReportsTypeCycle, TypeUser, TypeShort, TypeWorld DEF ReportsNext
<1> QED BY <1>1, <1>2

\* The type invariant of the runs.
LEMMA TypesHold == ASSUME ReportsTypeInv, ReportAssumption PROVE ReportsTypeOK
<1>1. ToSet(snapshots) \subseteq Pages
  BY DEF ReportsTypeInv, SourcesTyped, ToSet
<1>2. used.texts \in Nat /\ used.texts <= MaxRequests + 1
  <2>1. /\ used.texts \in Nat /\ used.requests \in 0..MaxRequests /\ MaxRequests \in Nat
        /\ used.texts + Writes("u1") + Writes("u2") + WorkerWrites <= used.requests + 1
    BY DEF ReportsTypeInv, WritersInv, WritersTyped, TextsCounted, ReportAssumption
  <2>2. Writes("u1") \in {0, 1} /\ Writes("u2") \in {0, 1} /\ WorkerWrites \in {0, 1}
    BY DEF Writes, WorkerWrites
  <2> QED BY <2>1, <2>2
<1>3. \A t \in 1..used.texts : t \in Texts
  BY <1>2 DEF Texts, ReportAssumption
<1>4. /\ versions \subseteq Texts /\ report.current \in versions \cup {0} /\ fupa \in 0..used.texts
  BY <1>3 DEF ReportsTypeInv, WritersInv, TextsKnown, ReportsTyped
<1>5. fupa \in {0} \cup Texts
  BY <1>2, <1>3, <1>4
<1>6. /\ report.status \in ReportStatuses \cup {Nothing}
      /\ scheduler.phase \in {"idle", "unfinished", "asking", "generating"}
      /\ \A u \in Users : user[u].op \in {Nothing, "generate", "publish"}
  BY DEF ReportsTypeInv, WritersInv, WritersTyped, ReportRow, SchedulerRow, User
<1> QED BY <1>1, <1>4, <1>5, <1>6 DEF ReportsTypeOK, ReportsTypeInv, SourcesTyped, ReportsTyped

\* Every row, session and cycle has its type, and at most one text more is written
\* than users have made requests, for all perils of the two-user races.
THEOREM ReportsTypes == ReportsSpec => []ReportsTypeOK
<1>1. ReportsInit => ReportsTypeInv
  BY ReportsTypeInit, ReportAssumption
<1>2. ReportsTypeInv /\ [ReportsNext]_reportsVars => ReportsTypeInv'
  BY ReportsTypeStep, ReportAssumption
<1>3. ReportsTypeInv => ReportsTypeOK
  BY TypesHold, ReportAssumption
<1> QED BY <1>1, <1>2, <1>3, PTL DEF ReportsSpec

-----------------------------------------------------------------------------
(* FuPa gets what was approved                                             *)

\* A step that transfers nothing and confirms nothing.
LEMMA PublishKept ==
    ASSUME PublishInv, UNCHANGED <<fupa, confirmed, publication>>,
           approved \subseteq approved', versions \subseteq versions',
           \A u \in Users : user'[u].op = "publish" => user'[u] = user[u],
           report'.status = "approved" =>
               \/ report'.current \in approved'
               \/ report.status = "approved" /\ report'.current = report.current
    PROVE  PublishInv'
<1>1. TransfersApproved'
  BY DEF PublishInv, TransfersApproved
<1>2. OnlyApprovedTexts' /\ PublishedIsKept'
  BY DEF PublishInv, PublishedAsApproved, OnlyApprovedTexts, PublishedIsKept
<1> QED BY <1>1, <1>2 DEF PublishInv, PublishedAsApproved

\* What is known of texts, for these steps.
LEMMA TextsAreTexts ==
    ASSUME ReportsTypeInv, ReportAssumption
    PROVE  /\ versions \subseteq Texts /\ publication \in [Texts -> PublicationStatus]
           /\ user \in [Users -> User] /\ TextsKnown
<1>1. used.texts \in Nat /\ used.texts <= MaxRequests + 1
  <2>1. /\ used.texts \in Nat /\ used.requests \in 0..MaxRequests /\ MaxRequests \in Nat
        /\ used.texts + Writes("u1") + Writes("u2") + WorkerWrites <= used.requests + 1
    BY DEF ReportsTypeInv, WritersInv, WritersTyped, TextsCounted, ReportAssumption
  <2>2. Writes("u1") \in {0, 1} /\ Writes("u2") \in {0, 1} /\ WorkerWrites \in {0, 1}
    BY DEF Writes, WorkerWrites
  <2> QED BY <2>1, <2>2
<1>2. \A t \in 1..used.texts : t \in Texts
  BY <1>1 DEF Texts, ReportAssumption
<1> QED BY <1>2 DEF ReportsTypeInv, WritersInv, WritersTyped, ReportsTyped, TextsKnown

LEMMA PublishCycle == ASSUME ReportsTypeInv, PublishInv, SchedulerCycle PROVE PublishInv'
<1>1. /\ report \in ReportRow /\ scheduler \in SchedulerRow /\ used.reports \in Nat
  BY DEF ReportsTypeInv, WritersInv, WritersTyped
<1>2. ASSUME NEW read, CycleBegin(read) PROVE PublishInv'
  BY <1>2, PublishKept DEF CycleBegin, reports
<1>3. ASSUME NEW c, NEW outcome, CycleAsk(c, outcome) PROVE PublishInv'
  BY <1>3, PublishKept DEF CycleAsk, reports
<1>4. CASE CycleUnfinished
  BY <1>4, PublishKept DEF CycleUnfinished, reports
<1>5. CASE CycleEnd
  <2>1. \/ report' = report
        \/ \E status \in ReportStatuses \ {"approved"} : report' = Written(status)
    BY <1>5 DEF CycleEnd, ReportStatuses
  <2>2. report'.status = "approved" => report.status = "approved" /\ report'.current = report.current
    <3>1. ASSUME NEW status \in ReportStatuses \ {"approved"}, report' = Written(status),
                 report'.status = "approved"
          PROVE  report.status = "approved" /\ report'.current = report.current
      <4>1. report.status = "approved"
        BY <1>1, <3>1, WrittenIs
      <4>2. report.id # 0
        BY <4>1 DEF ReportsTypeInv, WritersInv, TextsKnown, NoReport
      <4> QED BY <1>1, <3>1, <4>1, <4>2, WrittenIs
    <3> QED BY <2>1, <3>1
  <2> QED BY <1>5, <2>2, PublishKept DEF CycleEnd
<1>6. CASE CycleGenerates
  <2>1. report'.status = "review_required"
    <3>1. Written("generating") \in ReportRow
      BY <1>1, WrittenIs DEF ReportStatuses
    <3>2. report' = [Written("generating") EXCEPT !.current = NewText, !.status = "review_required"]
      BY <1>6 DEF CycleGenerates, WithText
    <3> QED BY <3>1, <3>2 DEF ReportRow
  <2> QED BY <1>6, <2>1, PublishKept DEF CycleGenerates
<1>7. CASE CycleFails
  <2>1. report'.status = "failed"
    BY <1>1, <1>7 DEF CycleFails, NoReport, ReportRow
  <2> QED BY <1>7, <2>1, PublishKept DEF CycleFails
<1> QED BY <1>2, <1>3, <1>4, <1>5, <1>6, <1>7 DEF SchedulerCycle

LEMMA PublishUser ==
    ASSUME ReportsTypeInv, ReportAssumption, PublishInv, NEW u \in Users,
           \/ Begin(u, "generate") \/ Begin(u, "publish") \/ generate_report_version(u)
           \/ BrowserPublishes(u) \/ Fails(u)
    PROVE  PublishInv'
<1>1. /\ versions \subseteq Texts /\ publication \in [Texts -> PublicationStatus]
      /\ user \in [Users -> User] /\ TextsKnown /\ report \in ReportRow
  BY TextsAreTexts DEF ReportsTypeInv, WritersInv, WritersTyped
<1>2. Leave(u) => /\ user'[u].op = "none"
                  /\ \A w \in Users : w # u => user'[w] = user[w]
  BY <1>1 DEF Leave, Away, Nothing
<1>3. CASE Begin(u, "generate")
  <2>1. \A w \in Users : user'[w].op = "publish" => user'[w] = user[w]
    BY <1>1, <1>3 DEF Begin
  <2> QED BY <1>3, <2>1, PublishKept DEF Begin, reports
<1>4. CASE Begin(u, "publish")
  <2>1. /\ report.current \in approved /\ publication[report.current] # "published"
        /\ ~publishing(report.current)
    BY <1>4 DEF Begin, Allowed, PublishInv, PublishedAsApproved, OnlyApprovedTexts
  <2>2. /\ user'[u] = [op |-> "publish", view |-> report]
        /\ \A w \in Users : w # u => user'[w] = user[w]
        /\ UNCHANGED <<report, versions, publication, approved, confirmed, fupa>>
    BY <1>1, <1>4 DEF Begin, reports
  <2>3. \A w \in Users : user[w].op = "publish" => user[w].view.current # report.current
    BY <2>1 DEF publishing
  <2>4. TransfersApproved'
    BY <2>1, <2>2, <2>3 DEF PublishInv, TransfersApproved
  <2>5. OnlyApprovedTexts' /\ PublishedIsKept'
    BY <2>2 DEF PublishInv, PublishedAsApproved, OnlyApprovedTexts, PublishedIsKept
  <2> QED BY <2>4, <2>5 DEF PublishInv, PublishedAsApproved
<1>5. CASE generate_report_version(u)
  <2>1. report'.status = "review_required"
    BY <1>1, <1>5, Rows DEF generate_report_version, WithText, ReportRow, NoReport
  <2> QED BY <1>2, <1>5, <2>1, PublishKept DEF generate_report_version
<1>6. ASSUME NEW status, NEW saved, PublishText(u, status, saved), status \in {"published", "failed"}
      PROVE  PublishInv'
  <2> DEFINE v == user[u].view.current
  <2>1. /\ v \in versions /\ v \in Texts /\ v \in approved /\ publication[v] # "published"
        /\ \A w \in Users : w # u /\ user[w].op = "publish" => user[w].view.current # v
    BY <1>1, <1>6 DEF PublishText, PublishInv, TransfersApproved, TextsKnown
  <2>2. /\ publication' = [publication EXCEPT ![v] = status] /\ fupa' \in {v, fupa}
        /\ UNCHANGED <<versions, approved>>
        /\ Leave(u)
        /\ confirmed' = confirmed \cup (IF status = "published" THEN {v} ELSE {})
        /\ report'.status = "approved" => report' = report
    BY <1>1, <1>6 DEF PublishText, ReportRow
  <2> HIDE DEF v
  <2>3. /\ publication'[v] = status
        /\ \A x : x # v => publication'[x] = publication[x]
    BY <1>1, <2>1, <2>2
  <2>4. TransfersApproved'
    <3> SUFFICES ASSUME NEW w \in Users, user'[w].op = "publish"
                 PROVE  /\ user'[w].view.current \in approved'
                        /\ publication'[user'[w].view.current] # "published"
                        /\ \A x \in Users : x # w /\ user'[x].op = "publish" =>
                               user'[x].view.current # user'[w].view.current
      BY DEF TransfersApproved
    <3>1. w # u /\ \A x \in Users : user'[x].op = "publish" => x # u /\ user'[x] = user[x]
      BY <1>2, <2>2
    <3>2. user[w].view.current # v
      BY <2>1, <3>1
    <3> QED BY <2>2, <2>3, <3>1, <3>2 DEF PublishInv, TransfersApproved
  <2>5. OnlyApprovedTexts'
    BY <2>1, <2>2 DEF PublishInv, PublishedAsApproved, OnlyApprovedTexts
  <2>6. PublishedIsKept'
    BY <2>1, <2>2, <2>3 DEF PublishInv, PublishedAsApproved, PublishedIsKept
  <2> QED BY <2>4, <2>5, <2>6 DEF PublishInv, PublishedAsApproved
<1>7. CASE BrowserPublishes(u)
  BY <1>6, <1>7 DEF BrowserPublishes
<1>8. CASE Fails(u)
  BY <1>2, <1>8, PublishKept DEF Fails, reports
<1> QED BY <1>3, <1>4, <1>5, <1>7, <1>8

LEMMA PublishOther ==
    ASSUME ReportsTypeInv, ReportAssumption, PublishInv, "approve" \notin ReportPerils, "delete" \notin ReportPerils,
           \/ ManualPublishes \/ create_edited_version \/ delete_unpublished_report
           \/ \E v \in versions : approve_report(v)
           \/ save_fupa_browser_session
           \/ \E read \in {page, "error"} : refresh_sources(read)
           \/ \E c \in Contacts, outcome \in [Keys -> Outcomes] : request_feedback(c, outcome)
           \/ \E k \in Keys :
                 \/ telegram_webhook(k) \/ DeadlinePasses(k)
                 \/ consume_contact_link(k) \/ disconnect_telegram_contact(k)
           \/ \E p \in Pages : PageChanges(p)
           \/ Confirm
    PROVE  PublishInv'
<1>1. /\ versions \subseteq Texts /\ publication \in [Texts -> PublicationStatus]
      /\ user \in [Users -> User] /\ TextsKnown /\ report \in ReportRow
  BY TextsAreTexts DEF ReportsTypeInv, WritersInv, WritersTyped
<1>2. CASE ManualPublishes
  <2> DEFINE v == report.current
  <2>1. /\ v \in Texts /\ publication[v] # "published"
        /\ \A u \in Users : user[u].op = "publish" => user[u].view.current # v
        /\ publication' = [publication EXCEPT ![v] = "manual_required"]
    BY <1>1, <1>2 DEF ManualPublishes, publishing, TextsKnown, Nothing
  <2>2. UNCHANGED <<report, versions, approved, confirmed, fupa, user>>
    BY <1>2 DEF ManualPublishes
  <2> HIDE DEF v
  <2>3. \A x : x # v => publication'[x] = publication[x]
    BY <1>1, <2>1
  <2>4. TransfersApproved'
    BY <2>1, <2>2, <2>3 DEF PublishInv, TransfersApproved
  <2>5. OnlyApprovedTexts' /\ PublishedIsKept'
    BY <2>1, <2>2, <2>3 DEF PublishInv, PublishedAsApproved, OnlyApprovedTexts, PublishedIsKept
  <2> QED BY <2>4, <2>5 DEF PublishInv, PublishedAsApproved
<1>3. CASE create_edited_version
  <2>1. report'.status = "review_required"
    BY <1>1, <1>3 DEF create_edited_version, Edited, WithText, ReportRow
  <2> QED BY <1>3, <2>1, PublishKept DEF create_edited_version
<1>4. CASE delete_unpublished_report
  <2>1. confirmed = {}
    BY <1>4 DEF delete_unpublished_report, Deletable, PublishInv, PublishedAsApproved,
      PublishedIsKept
  <2>2. \A u \in Users : user[u].op # "publish"
    BY <1>1, <1>4 DEF delete_unpublished_report, publishing, TextsKnown
  <2>3. /\ UNCHANGED <<approved, confirmed, fupa, user>> /\ report' = NoReport
        /\ NoReport.status = "none"
    BY <1>4 DEF delete_unpublished_report, NoReport, Nothing
  <2> QED BY <2>1, <2>2, <2>3 DEF PublishInv, PublishedAsApproved, TransfersApproved,
                                  OnlyApprovedTexts, PublishedIsKept
<1>5. ASSUME NEW v \in versions, approve_report(v) PROVE PublishInv'
  <2>1. report'.current \in approved'
    BY <1>1, <1>5 DEF approve_report, ReportRow
  <2> QED BY <1>5, <2>1, PublishKept DEF approve_report
<1>6. CASE save_fupa_browser_session
  BY <1>6, PublishKept DEF save_fupa_browser_session
<1>7. ASSUME NEW read, refresh_sources(read) PROVE PublishInv'
  <2>1. report'.status # "approved"
    BY <1>1, <1>7 DEF refresh_sources, ReportRow
  <2> QED BY <1>7, <2>1, PublishKept DEF refresh_sources
<1>8. ASSUME NEW c, NEW outcome, request_feedback(c, outcome) PROVE PublishInv'
  BY <1>8, PublishKept DEF request_feedback, reports
<1>9. ASSUME NEW k \in Keys, \/ telegram_webhook(k) \/ DeadlinePasses(k)
                             \/ consume_contact_link(k) \/ disconnect_telegram_contact(k)
      PROVE PublishInv'
  BY <1>9, PublishKept DEF telegram_webhook, DeadlinePasses, consume_contact_link,
                           disconnect_telegram_contact, SwitchLink, reports
<1>10. ASSUME NEW p, PageChanges(p) PROVE PublishInv'
  BY <1>10, PublishKept DEF PageChanges, reports
<1>11. CASE Confirm
  BY <1>11, PublishKept DEF Confirm, reports
<1> QED BY <1>2, <1>3, <1>4, <1>5, <1>6, <1>7, <1>8, <1>9, <1>10, <1>11

\* What is on FuPa was approved as it is and stays on record, for any number of
\* requests, when an approval is of the version the row offers and nobody overtakes
\* a deletion's check.
THEOREM FuPaGetsApproved ==
    ASSUME "approve" \notin ReportPerils, "delete" \notin ReportPerils
    PROVE  ReportsSpec => []PublishedAsApproved
<1>1. ReportsInit => ReportsTypeInv /\ PublishInv
  <2>1. ReportsInit => PublishInv
    BY DEF ReportsInit, PublishInv, TransfersApproved, PublishedAsApproved, OnlyApprovedTexts,
           PublishedIsKept, Away, Nothing, NoReport
  <2> QED BY <2>1, ReportsTypeInit, ReportAssumption
<1>2. ReportsTypeInv /\ PublishInv /\ [ReportsNext]_reportsVars => (ReportsTypeInv /\ PublishInv)'
  <2>1. ASSUME ReportsTypeInv, PublishInv, UNCHANGED reportsVars PROVE PublishInv'
    BY <2>1, PublishKept DEF reportsVars, reports
  <2>2. ASSUME ReportsTypeInv, PublishInv, ReportsNext PROVE PublishInv'
    BY <2>2, PublishCycle, PublishUser, PublishOther, ReportAssumption DEF ReportsNext
  <2> QED BY <2>1, <2>2, ReportsTypeStep, ReportAssumption
<1>3. PublishInv => PublishedAsApproved
  BY DEF PublishInv
<1> QED BY <1>1, <1>2, <1>3, PTL DEF ReportsSpec

-----------------------------------------------------------------------------
(* No contact is asked twice                                               *)

\* A step that leaves requests, cycle and report where they are.
LEMMA AskKept ==
    ASSUME AskInv, UNCHANGED <<scheduler, request, asked>>, report'.id = report.id,
           due \subseteq due', \A k \in due' : k \in due \/ request[k] # Nothing,
           UserCreates' => UserCreates \/ ~WorkerCreates
    PROVE  AskInv'
<1>1. CycleOwns'
  BY DEF AskInv, CycleOwns, WorkerCreates
<1>2. CycleFits' /\ AskedRecorded'
  BY DEF AskInv, CycleFits, AskedRecorded
<1> QED BY <1>1, <1>2 DEF AskInv

\* What holds when the cycle is over.
LEMMA IdleIs ==
    ASSUME scheduler' = AtRest
    PROVE  /\ CycleOwns' /\ scheduler'.phase = "idle" /\ scheduler'.expired = {}
           /\ \A k \in Keys : scheduler'.made[k] = Nothing
BY DEF AtRest, NoneMade, CycleOwns, WorkerCreates

\* The commit of a cycle records what it asked.
LEMMA CommitKept ==
    ASSUME ReportsTypeInv, AskInv, CycleCommit, scheduler' = AtRest, UNCHANGED asked
    PROVE  AskInv'
<1>1. \A k \in Keys : request'[k] = IF request[k] = "answered" THEN "answered" ELSE Seen(k)
  BY DEF CycleCommit
<1>2. \A k \in Keys : asked[k] = 1 => request'[k] \in {"sent", "answered", "expired"}
  <2> SUFFICES ASSUME NEW k \in Keys, asked[k] = 1
               PROVE  request'[k] \in {"sent", "answered", "expired"}
    OBVIOUS
  <2>1. \/ request[k] \in {"sent", "answered", "expired"}
        \/ scheduler.made[k] = "sent"
    BY DEF AskInv, AskedRecorded
  <2>2. scheduler.made[k] # Nothing => request[k] = Nothing
    BY DEF AskInv, CycleFits
  <2> QED BY <1>1, <2>1, <2>2 DEF Seen, Nothing
<1>3. AskedRecorded'
  BY <1>2 DEF AskInv, AskedRecorded
<1>4. CycleFits'
  <2>1. \A k \in due' : request'[k] # Nothing
    BY DEF CycleCommit
  <2> QED BY <2>1, IdleIs DEF CycleFits
<1> QED BY <1>3, <1>4, IdleIs DEF AskInv

LEMMA AskCycle ==
    ASSUME ReportsTypeInv, AskInv, "unclear" \notin ReportPerils, "key" \notin ReportPerils, SchedulerCycle
    PROVE  AskInv'
<1>1. /\ SourcesTyped /\ report \in ReportRow /\ scheduler \in SchedulerRow
      /\ scheduler.made \in [Keys -> RequestStatus] /\ asked \in [Keys -> Nat]
  BY DEF ReportsTypeInv, SourcesTyped, WritersInv, WritersTyped, SchedulerRow
<1>2. ASSUME NEW read, CycleBegin(read) PROVE AskInv'
  <2> DEFINE expired == {k \in due : request[k] = "sent"}
  <2>1. /\ scheduler'.view = report /\ scheduler'.expired = expired /\ scheduler'.made = NoneMade
        /\ scheduler'.phase \in {"asking", "unfinished"}
    BY <1>2 DEF CycleBegin, AtRest
  <2>2. UNCHANGED <<request, due, asked, report, user>> /\ ~UserCreates /\ scheduler = AtRest
    BY <1>2 DEF CycleBegin, reports, feedback
  <2>3. CycleOwns'
    BY <2>1, <2>2 DEF CycleOwns, UserCreates
  <2>4. \A k \in Keys : NoneMade[k] = Nothing
    BY DEF NoneMade
  <2>5. CycleFits'
    BY <2>1, <2>2, <2>4 DEF AskInv, CycleFits
  <2>6. AskedRecorded'
    BY <2>2, <2>4 DEF AskInv, AskedRecorded, AtRest, Nothing
  <2> QED BY <2>3, <2>5, <2>6 DEF AskInv
<1>3. ASSUME NEW c \in Contacts, NEW outcome \in [Keys -> Outcomes], CycleAsk(c, outcome) PROVE AskInv'
  <2> DEFINE keys == AskedNow(c, outcome)
  <2>1. \A k \in keys : /\ k \in Keys /\ scheduler.made[k] = Nothing /\ request[k] = Nothing
                        /\ asked[k] = 0
    <3> SUFFICES ASSUME NEW k \in keys
                 PROVE  /\ k \in Keys /\ scheduler.made[k] = Nothing /\ request[k] = Nothing
                        /\ asked[k] = 0
      OBVIOUS
    <3>1. k \in Keys /\ Seen(k) = Nothing
      BY <1>1, AskedNowIs DEF NotYetAsked
    <3>2. scheduler.made[k] = Nothing /\ request[k] = Nothing
      BY <3>1 DEF Seen, Nothing
    <3>3. asked[k] # 1 /\ asked[k] <= 1 /\ asked[k] \in Nat
      BY <1>1, <3>1, <3>2 DEF AskInv, AskedRecorded, Nothing
    <3> QED BY <3>1, <3>2, <3>3
  <2>2. \A k \in Keys :
           scheduler'.made[k] = IF k \in keys THEN Recorded(outcome[k]) ELSE scheduler.made[k]
    BY <1>1, <1>3 DEF CycleAsk, SchedulerRow
  <2>3. /\ scheduler'.phase = "asking" /\ scheduler.phase = "asking" /\ scheduler'.view = scheduler.view
        /\ scheduler'.expired = scheduler.expired
        /\ UNCHANGED <<request, due, report, user>>
    BY <1>1, <1>3 DEF CycleAsk, SchedulerRow, reports
  <2>4. \A k \in Keys : asked'[k] = asked[k] + (IF k \in keys /\ outcome[k] = "sent" THEN 1 ELSE 0)
    <3>1. \A k \in Keys : outcome[k] # "unclear"
      BY DEF Outcomes
    <3> QED BY <1>3, <3>1 DEF CycleAsk, Reached
  <2> HIDE DEF keys
  <2>5. CycleOwns'
    BY <2>3 DEF AskInv, CycleOwns, WorkerCreates, UserCreates
  <2>6. CycleFits'
    BY <2>1, <2>2, <2>3 DEF AskInv, CycleFits
  <2>7. AskedRecorded'
    <3> SUFFICES ASSUME NEW k \in Keys
                 PROVE  /\ asked'[k] <= 1
                        /\ asked'[k] = 1 => \/ request'[k] \in {"sent", "answered", "expired"}
                                            \/ scheduler'.made[k] = "sent"
      BY DEF AskedRecorded
    <3>1. CASE k \in keys
      BY <2>1, <2>2, <2>4, <3>1, RecordedIs
    <3>2. CASE k \notin keys
      BY <1>1, <2>2, <2>3, <2>4, <3>2 DEF AskInv, AskedRecorded
    <3> QED BY <3>1, <3>2
  <2> QED BY <2>5, <2>6, <2>7 DEF AskInv
<1>4. CASE CycleUnfinished
  BY <1>4, CommitKept DEF CycleUnfinished
<1>5. CASE CycleEnd
  <2>1. CASE CycleCommit /\ scheduler' = AtRest
    BY <1>5, <2>1, CommitKept DEF CycleEnd
  <2>2. CASE /\ ~_open_feedback /\ scheduler' = [scheduler EXCEPT !.phase = "generating"]
             /\ UNCHANGED <<report, request, due>>
    <3>1. /\ scheduler'.phase = "generating" /\ scheduler.phase = "asking"
          /\ scheduler'.view = scheduler.view /\ scheduler'.made = scheduler.made
          /\ scheduler'.expired = scheduler.expired /\ UNCHANGED <<asked, user>>
      BY <1>1, <1>5, <2>2 DEF CycleEnd, SchedulerRow
    <3>2. CycleOwns'
      BY <2>2, <3>1 DEF AskInv, CycleOwns, WorkerCreates, UserCreates
    <3>3. \A k \in Keys : scheduler.made[k] # "sent"
      <4> SUFFICES ASSUME NEW k \in Keys, scheduler.made[k] = "sent" PROVE FALSE
        OBVIOUS
      <4>1. request[k] = Nothing
        BY DEF AskInv, CycleFits, Nothing
      <4>2. k \notin due /\ Seen(k) = "sent"
        BY <4>1 DEF AskInv, CycleFits, Seen, Nothing
      <4> QED BY <2>2, <4>2 DEF _open_feedback
    <3>4. CycleFits'
      BY <2>2, <3>1, <3>3 DEF AskInv, CycleFits
    <3>5. AskedRecorded'
      BY <2>2, <3>1 DEF AskInv, AskedRecorded
    <3> QED BY <3>2, <3>4, <3>5 DEF AskInv
  <2> QED BY <1>5, <2>1, <2>2 DEF CycleEnd
<1>6. CASE CycleGenerates
  BY <1>6, CommitKept DEF CycleGenerates
<1>7. CASE CycleFails
  <2>1. scheduler.phase = "generating"
    BY <1>7 DEF CycleFails, AskInv, CycleOwns
  <2>2. /\ scheduler' = AtRest /\ UNCHANGED <<asked, due>>
        /\ \A k \in Keys : request'[k] = IF k \in scheduler.expired THEN "expired" ELSE request[k]
    BY <1>7 DEF CycleFails
  <2>3. \A k \in Keys : scheduler.made[k] # "sent"
    BY <2>1 DEF AskInv, CycleFits
  <2>4. AskedRecorded'
    BY <2>2, <2>3 DEF AskInv, AskedRecorded
  <2>5. \A k \in due' : request'[k] # Nothing
    BY <1>1, <2>2 DEF AskInv, CycleFits, SourcesTyped, Nothing
  <2>6. CycleFits'
    BY <2>2, <2>5, IdleIs DEF CycleFits
  <2> QED BY <2>2, <2>4, <2>6, IdleIs DEF AskInv
<1> QED BY <1>2, <1>3, <1>4, <1>5, <1>6, <1>7 DEF SchedulerCycle

LEMMA AskUser ==
    ASSUME ReportsTypeInv, AskInv, NEW u \in Users,
           \/ Begin(u, "generate") \/ Begin(u, "publish") \/ generate_report_version(u)
           \/ BrowserPublishes(u) \/ Fails(u)
    PROVE  AskInv'
<1>1. /\ report \in ReportRow /\ user \in [Users -> User] /\ (report.id = 0 => report = NoReport)
  BY DEF ReportsTypeInv, WritersInv, WritersTyped, TextsKnown
<1>2. Leave(u) => \A w \in Users : user'[w] = user[w] \/ user'[w].op = "none"
  BY <1>1 DEF Leave, Away, Nothing
<1>3. ASSUME NEW op \in {"generate", "publish"}, Begin(u, op) PROVE AskInv'
  <2>1. UserCreates' => UserCreates \/ ~WorkerCreates
    <3>1. /\ user'[u].op = op /\ user'[u].view = report
          /\ \A w \in Users : w # u => user'[w] = user[w]
      BY <1>1, <1>3 DEF Begin
    <3>2. op = "generate" /\ report.id = 0 => ~WorkerCreates
      BY <1>3 DEF Begin, Allowed
    <3> QED BY <3>1, <3>2 DEF UserCreates
  <2> QED BY <1>3, <2>1, AskKept DEF Begin, reports, feedback
<1>4. CASE generate_report_version(u)
  <2>1. CASE report.id # 0
    <3>1. report'.id = report.id
      BY <1>1, <1>4, <2>1 DEF generate_report_version, WithText, ReportRow
    <3>2. UserCreates' => UserCreates
      BY <1>2, <1>4 DEF generate_report_version, UserCreates
    <3> QED BY <1>4, <3>1, <3>2, AskKept DEF generate_report_version, feedback
  <2>2. CASE report.id = 0
    <3>1. scheduler.phase = "idle"
      BY <1>4, <2>2 DEF generate_report_version, AskInv, CycleOwns, UserCreates, WorkerCreates
    <3>2. scheduler = AtRest /\ scheduler' = AtRest /\ UNCHANGED <<request, due, asked>>
      BY <1>4, <3>1 DEF generate_report_version, feedback, AskInv, CycleFits
    <3>3. CycleFits' /\ AskedRecorded'
      BY <3>2 DEF AskInv, CycleFits, AskedRecorded
    <3> QED BY <3>2, <3>3, IdleIs DEF AskInv
  <2> QED BY <2>1, <2>2
<1>5. ASSUME NEW status, NEW saved, PublishText(u, status, saved) PROVE AskInv'
  <2>1. report'.id = report.id
    BY <1>1, <1>5 DEF PublishText, ReportRow
  <2>2. UserCreates' => UserCreates
    BY <1>2, <1>5 DEF PublishText, UserCreates
  <2> QED BY <1>5, <2>1, <2>2, AskKept DEF PublishText, feedback
<1>6. CASE Fails(u)
  <2>1. UserCreates' => UserCreates
    BY <1>2, <1>6 DEF Fails, UserCreates
  <2> QED BY <1>6, <2>1, AskKept DEF Fails, reports, feedback
<1>7. BrowserPublishes(u) => AskInv'
  BY <1>5 DEF BrowserPublishes
<1> QED BY <1>3, <1>4, <1>6, <1>7

LEMMA AskOther ==
    ASSUME ReportsTypeInv, AskInv, "unclear" \notin ReportPerils, "delete" \notin ReportPerils,
           \/ ManualPublishes \/ create_edited_version \/ delete_unpublished_report
           \/ \E v \in versions : approve_report(v)
           \/ save_fupa_browser_session
           \/ \E read \in {page, "error"} : refresh_sources(read)
           \/ \E c \in Contacts, outcome \in [Keys -> Outcomes] : request_feedback(c, outcome)
           \/ \E k \in Keys :
                 \/ telegram_webhook(k) \/ DeadlinePasses(k)
                 \/ consume_contact_link(k) \/ disconnect_telegram_contact(k)
           \/ \E p \in Pages : PageChanges(p)
           \/ Confirm
    PROVE  AskInv'
<1>1. /\ SourcesTyped /\ report \in ReportRow /\ request \in [Keys -> RequestStatus]
      /\ asked \in [Keys -> Nat]
  BY DEF ReportsTypeInv, SourcesTyped, WritersInv, WritersTyped
<1>2. CASE ManualPublishes
  BY <1>2, AskKept DEF ManualPublishes, feedback, UserCreates
<1>3. CASE create_edited_version
  <2>1. report'.id = report.id
    BY <1>1, <1>3 DEF create_edited_version, Edited, WithText, ReportRow
  <2> QED BY <1>3, <2>1, AskKept DEF create_edited_version, feedback, UserCreates
<1>4. CASE delete_unpublished_report
  <2>1. scheduler.phase = "idle"
    BY <1>4 DEF delete_unpublished_report, AskInv, CycleOwns
  <2>2. scheduler = AtRest /\ scheduler' = AtRest /\ UNCHANGED <<request, due, asked>>
    BY <1>4, <2>1 DEF delete_unpublished_report, feedback, AskInv, CycleFits
  <2>3. CycleFits' /\ AskedRecorded'
    BY <2>2 DEF AskInv, CycleFits, AskedRecorded
  <2> QED BY <2>2, <2>3, IdleIs DEF AskInv
<1>5. ASSUME NEW v \in versions, approve_report(v) PROVE AskInv'
  <2>1. report'.id = report.id
    BY <1>1, <1>5 DEF approve_report, ReportRow
  <2> QED BY <1>5, <2>1, AskKept DEF approve_report, feedback, UserCreates
<1>6. CASE save_fupa_browser_session
  BY <1>6, AskKept DEF save_fupa_browser_session, feedback, UserCreates
<1>7. ASSUME NEW read, refresh_sources(read) PROVE AskInv'
  <2>1. report'.id = report.id
    BY <1>1, <1>7 DEF refresh_sources, ReportRow
  <2> QED BY <1>7, <2>1, AskKept DEF refresh_sources, feedback, UserCreates
<1>8. ASSUME NEW c \in Contacts, NEW outcome \in [Keys -> Outcomes], request_feedback(c, outcome)
      PROVE AskInv'
  <2> DEFINE keys == AskedNow(c, outcome)
  <2>1. scheduler = AtRest /\ scheduler' = AtRest /\ UNCHANGED due
    BY <1>8 DEF request_feedback
  <2>2. \A k \in keys : k \in Keys /\ request[k] = Nothing /\ asked[k] = 0
    <3> SUFFICES ASSUME NEW k \in keys PROVE k \in Keys /\ request[k] = Nothing /\ asked[k] = 0
      OBVIOUS
    <3>1. k \in Keys /\ request[k] = Nothing
      BY <1>1, <2>1, AskedNowIs DEF NotYetAsked, Seen, AtRest, Nothing, NoneMade
    <3>2. asked[k] # 1 /\ asked[k] <= 1 /\ asked[k] \in Nat
      BY <1>1, <2>1, <3>1 DEF AskInv, AskedRecorded, AtRest, Nothing, NoneMade
    <3> QED BY <3>1, <3>2
  <2>3. \A k \in Keys : request'[k] = IF k \in keys THEN Recorded(outcome[k]) ELSE request[k]
    BY <1>8 DEF request_feedback
  <2>4. \A k \in Keys : asked'[k] = asked[k] + (IF k \in keys /\ outcome[k] = "sent" THEN 1 ELSE 0)
    <3>1. \A k \in Keys : outcome[k] # "unclear"
      BY DEF Outcomes
    <3> QED BY <1>8, <3>1 DEF request_feedback, Reached
  <2> HIDE DEF keys
  <2>5. AskedRecorded'
    <3> SUFFICES ASSUME NEW k \in Keys
                 PROVE  /\ asked'[k] <= 1
                        /\ asked'[k] = 1 => request'[k] \in {"sent", "answered", "expired"}
      BY DEF AskedRecorded
    <3>1. CASE k \in keys
      BY <2>2, <2>3, <2>4, <3>1, RecordedIs
    <3>2. CASE k \notin keys
      BY <1>1, <2>1, <2>3, <2>4, <3>2 DEF AskInv, AskedRecorded, AtRest, NoneMade, Nothing
    <3> QED BY <3>1, <3>2
  <2>6. \A k \in due' : request'[k] # Nothing
    BY <1>1, <2>1, <2>2, <2>3, RecordedIs DEF AskInv, CycleFits, SourcesTyped
  <2>7. CycleFits'
    BY <2>1, <2>6, IdleIs DEF CycleFits
  <2> QED BY <2>1, <2>5, <2>7, IdleIs DEF AskInv
<1>9. ASSUME NEW k \in Keys, telegram_webhook(k) PROVE AskInv'
  <2>1. /\ request[k] = "sent" /\ k \notin due /\ request' = [request EXCEPT ![k] = "answered"]
        /\ UNCHANGED <<scheduler, report, user, due, asked>>
    BY <1>9 DEF telegram_webhook, consume_feedback_response, reports
  <2>2. request'[k] = "answered" /\ \A j \in Keys : j # k => request'[j] = request[j]
    BY <1>1, <2>1
  <2>3. CycleOwns'
    BY <2>1 DEF AskInv, CycleOwns, WorkerCreates, UserCreates
  <2>4. CycleFits'
    <3>1. due \subseteq Keys /\ scheduler.expired \subseteq Keys
      BY DEF ReportsTypeInv, SourcesTyped, WritersInv, WritersTyped, SchedulerRow
    <3> QED BY <2>1, <2>2, <3>1 DEF AskInv, CycleFits, Nothing
  <2>5. AskedRecorded'
    BY <2>1, <2>2 DEF AskInv, AskedRecorded
  <2> QED BY <2>3, <2>4, <2>5 DEF AskInv
<1>10. ASSUME NEW k \in Keys, \/ DeadlinePasses(k)
                              \/ consume_contact_link(k) \/ disconnect_telegram_contact(k)
      PROVE AskInv'
  <2>1. UNCHANGED <<scheduler, request, asked, report, user>>
    BY <1>10 DEF DeadlinePasses, consume_contact_link, disconnect_telegram_contact, SwitchLink,
      reports
  <2>2. due \subseteq due' /\ \A j \in due' : j \in due \/ request[j] # Nothing
    BY <1>10 DEF DeadlinePasses, consume_contact_link, disconnect_telegram_contact, SwitchLink,
      Nothing
  <2> QED BY <2>1, <2>2, AskKept DEF UserCreates
<1>11. ASSUME NEW p, PageChanges(p) PROVE AskInv'
  BY <1>11, AskKept DEF PageChanges, reports, feedback, UserCreates
<1>12. CASE Confirm
  BY <1>12, AskKept DEF Confirm, reports, feedback, UserCreates
<1> QED BY <1>2, <1>3, <1>4, <1>5, <1>6, <1>7, <1>8, <1>9, <1>10, <1>11, <1>12

\* No contact is asked twice about a game through the same messenger, for any number
\* of contacts, by the cycle, the button, after failures and deadlines, when messengers
\* answer clearly, secrets can be read and nobody overtakes a deletion's check.
THEOREM ContactsAskedOnce ==
    ASSUME "unclear" \notin ReportPerils, "key" \notin ReportPerils, "delete" \notin ReportPerils
    PROVE  ReportsSpec => []AskedOnce
<1>1. ReportsInit => ReportsTypeInv /\ AskInv
  <2>1. ReportsInit => AskInv
    <3>1. ASSUME ReportsInit PROVE AskInv
      <4>1. scheduler = AtRest /\ due = {} /\ \A k \in Keys : asked[k] = 0
        BY <3>1 DEF ReportsInit
      <4>2. CycleOwns
        BY <4>1 DEF CycleOwns, WorkerCreates, AtRest
      <4>3. CycleFits
        BY <4>1 DEF CycleFits, AtRest, NoneMade
      <4>4. AskedRecorded
        BY <4>1 DEF AskedRecorded
      <4> QED BY <4>2, <4>3, <4>4 DEF AskInv
    <3> QED BY <3>1
  <2> QED BY <2>1, ReportsTypeInit, ReportAssumption
<1>2. ReportsTypeInv /\ AskInv /\ [ReportsNext]_reportsVars => (ReportsTypeInv /\ AskInv)'
  <2>1. ASSUME ReportsTypeInv, AskInv, UNCHANGED reportsVars PROVE AskInv'
    BY <2>1, AskKept DEF reportsVars, reports, feedback, UserCreates
  <2>2. ASSUME ReportsTypeInv, AskInv, ReportsNext PROVE AskInv'
    BY <2>2, AskCycle, AskUser, AskOther DEF ReportsNext
  <2> QED BY <2>1, <2>2, ReportsTypeStep, ReportAssumption
<1>3. AskInv => AskedOnce
  BY DEF AskInv, AskedRecorded, AskedOnce
<1> QED BY <1>1, <1>2, <1>3, PTL DEF ReportsSpec
=============================================================================
