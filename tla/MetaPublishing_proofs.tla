------------------------- MODULE MetaPublishing_proofs -------------------------
(* Theorems about MetaPublishing, for every value of its constants. *)
EXTENDS MetaPublishing, FiniteSetTheorems, TLAPS

\* What the types rest on: an attempt that exists has a job, a running session
\* has an existing attempt, and an edit carries a version.
WellLinked ==
    /\ \A a \in Attempts : attempt[a].phase # "absent" => attempt[a].job \in Jobs
    /\ \A s \in Sessions : sess[s].pc # "idle" =>
           sess[s].att \in Attempts /\ attempt[sess[s].att].phase # "absent"
    /\ \A u \in Users : draft[u].op = "edit" => draft[u].version \in 1..MaxVersion

TypeInv == TypeOK /\ WellLinked

-----------------------------------------------------------------------------
(* The helpers that write rows.                                            *)

\* In and Shut write the phase, and nothing of the row's identity.
LEMMA RowFields ==
    ASSUME attempt \in [Attempts -> Attempt], NEW a \in Attempts, NEW phase \in Phases
    PROVE  /\ In(a, phase) \in Attempt
           /\ Shut(a, phase) \in Attempt
           /\ In(a, phase).phase = phase
           /\ Shut(a, phase).phase = phase
           /\ In(a, phase).job = attempt[a].job
           /\ Shut(a, phase).job = attempt[a].job
           /\ In(a, phase).active = attempt[a].active
           /\ Shut(a, phase).active = FALSE
           /\ In(a, phase).aged = FALSE /\ Shut(a, phase).aged = FALSE
BY DEF In, Shut, Attempt

\* A row's other fields may follow.
SameState(q, r) == /\ q \in Attempt
                   /\ q.phase = r.phase
                   /\ q.job = r.job
                   /\ q.active = r.active
                   /\ q.aged = r.aged

LEMMA RowMore ==
    ASSUME NEW r \in Attempt
    PROVE  /\ \A c \in {"none", "pending", "finished", "error"} :
                  SameState([r EXCEPT !.container = c], r)
           /\ \A v \in 0..MaxVersion : SameState([r EXCEPT !.content = v], r)
           /\ SameState([r EXCEPT !.media = TRUE], r)
BY DEF Attempt, SameState

LEMMA PhaseNames ==
    /\ "validating_public_media" \in Phases
    /\ "creating_media_grant" \in Phases
    /\ "creating_container" \in Phases
    /\ "waiting_for_container" \in Phases
    /\ "ready_to_publish" \in Phases
    /\ "publishing" \in Phases
    /\ "reconciling" \in Phases
    /\ "uncertain" \in Phases
    /\ "completed" \in Phases
    /\ "failed" \in Phases
BY DEF Phases, InterruptedPhases, Closed

\* The rows a cycle marks, and those a disconnect closes.
LEMMA SweptRows ==
    ASSUME attempt \in [Attempts -> Attempt]
    PROVE  \A a \in Attempts :
               /\ In(a, "uncertain") \in Attempt
               /\ In(a, "uncertain").phase = "uncertain"
               /\ In(a, "uncertain").job = attempt[a].job
               /\ In(a, "uncertain").active = attempt[a].active
               /\ In(a, "uncertain").aged = FALSE
               /\ Shut(a, "failed") \in Attempt
               /\ Shut(a, "failed").phase = "failed"
               /\ Shut(a, "failed").job = attempt[a].job
               /\ Shut(a, "failed").active = FALSE
<1> SUFFICES ASSUME NEW a \in Attempts
             PROVE  /\ In(a, "uncertain") \in Attempt
                    /\ In(a, "uncertain").phase = "uncertain"
                    /\ In(a, "uncertain").job = attempt[a].job
                    /\ In(a, "uncertain").active = attempt[a].active
                    /\ In(a, "uncertain").aged = FALSE
                    /\ Shut(a, "failed") \in Attempt
                    /\ Shut(a, "failed").phase = "failed"
                    /\ Shut(a, "failed").job = attempt[a].job
                    /\ Shut(a, "failed").active = FALSE
  OBVIOUS
<1>1. "uncertain" \in Phases /\ "failed" \in Phases
  BY PhaseNames
<1> QED BY <1>1, RowFields

\* The rows that may take the place of an existing attempt's row.
Rows(a) == {r \in Attempt : r.phase # "absent" /\ r.job = attempt[a].job}

LEMMA RowsOf ==
    ASSUME attempt \in [Attempts -> Attempt], NEW a \in Attempts,
           NEW phase \in Phases, phase # "absent"
    PROVE  In(a, phase) \in Rows(a) /\ Shut(a, phase) \in Rows(a)
<1>1. /\ In(a, phase) \in Attempt /\ Shut(a, phase) \in Attempt
      /\ In(a, phase).phase = phase /\ Shut(a, phase).phase = phase
      /\ In(a, phase).job = attempt[a].job /\ Shut(a, phase).job = attempt[a].job
  BY RowFields
<1> QED BY <1>1 DEF Rows

LEMMA RowsMore ==
    ASSUME NEW a, NEW r \in Rows(a)
    PROVE  /\ \A c \in {"none", "pending", "finished", "error"} :
                  [r EXCEPT !.container = c] \in Rows(a)
           /\ \A v \in 0..MaxVersion : [r EXCEPT !.content = v] \in Rows(a)
           /\ [r EXCEPT !.media = TRUE] \in Rows(a)
<1>1. r \in Attempt
  BY DEF Rows
<1> QED BY <1>1, RowMore DEF Rows, SameState

LEMMA StatusType ==
    ASSUME job \in [Jobs -> Job], NEW j, NEW status \in JobStatus, NEW s
    PROVE  /\ SetStatus(j, status) \in [Jobs -> Job]
           /\ FailedFor(s, j, status) \in [Jobs -> Job]
           /\ PublishedJob(j) \in [Jobs -> Job]
<1>1. SetStatus(j, status) \in [Jobs -> Job]
  BY DEF SetStatus, Job
<1>2. PublishedJob(j) \in [Jobs -> Job]
  BY ZenonT(40) DEF PublishedJob, Job, JobStatus
<1> QED BY <1>1, <1>2 DEF FailedFor

LEMMA SessType ==
    ASSUME sess \in [Sessions -> Session], NEW s,
           NEW pc \in {"idle", "creating", "verifying", "container",
                       "publishing", "awaiting", "details"},
           NEW a \in Attempts, NEW n \in 0..MaxSends
    PROVE  /\ [sess EXCEPT ![s] = [pc |-> pc, att |-> a, req |-> n]] \in [Sessions -> Session]
           /\ [sess EXCEPT ![s] = Idle] \in [Sessions -> Session]
<1>1. [pc |-> pc, att |-> a, req |-> n] \in Session
  BY DEF Session
<1>2. Idle \in Session
  <2>1. 0 \in 0..MaxSends
    BY ConstantsAssumption
  <2> QED BY <2>1 DEF Session, Idle
<1> QED BY <1>1, <1>2

-----------------------------------------------------------------------------
(* Type correctness.                                                       *)

LEMMA TypeInit == Init => TypeInv
<1> SUFFICES ASSUME Init PROVE TypeInv
  OBVIOUS
<1> USE ConstantsAssumption
<1>1. 0 \in 0..MaxSends /\ 0 \in 0..MaxVersion /\ 1 \in 1..MaxVersion
      /\ 0 \in 0..MaxPublishAttempts
  OBVIOUS
<1>2. post \in Post /\ stop \in BOOLEAN /\ page \in {"off", "manual", "auto"}
  BY <1>1 DEF Init, Post, PostStatus
<1>3. job \in [Jobs -> Job]
  BY <1>1 DEF Init, Job, JobStatus
<1>4. NoAttempt \in Attempt
  BY <1>1 DEF NoAttempt, Attempt, Phases, Closed, AllStages
<1>5. attempt \in [Attempts -> Attempt]
  BY <1>4 DEF Init
<1>6. sess \in [Sessions -> Session]
  BY <1>1 DEF Init, Idle, Session
<1>7. draft \in [Users -> Draft]
  BY <1>1 DEF Init, NoDraft, Draft
<1>8. due \in [Workers -> SUBSET Jobs] /\ sent \in [Attempts -> 0..MaxSends]
      /\ wire \subseteq Request /\ live \subseteq Request
  BY <1>1 DEF Init
<1>9. TypeOK
  BY <1>2, <1>3, <1>5, <1>6, <1>7, <1>8 DEF TypeOK
<1>10. WellLinked
  BY DEF Init, WellLinked, NoAttempt, Idle, NoDraft
<1> QED BY <1>9, <1>10 DEF TypeInv

\* A session's step: it writes the row of one existing attempt, or leaves the
\* attempts alone, and moves on or ends.
LEMMA SessionStep ==
    ASSUME TypeInv, NEW s \in Sessions, NEW a \in Attempts, attempt[a].phase # "absent",
           (\E row \in Rows(a) : attempt' = Put(a, row)) \/ UNCHANGED attempt,
           NEW pc \in {"idle", "creating", "verifying", "container",
                       "publishing", "awaiting", "details"},
           Enter(s, pc, a) \/ Leave(s),
           job' \in [Jobs -> Job], post' \in Post,
           UNCHANGED <<stop, page, due, draft, sent, wire, live>>
    PROVE  TypeInv'
<1>1. 0 \in 0..MaxSends
  BY ConstantsAssumption
<1>2. attempt' \in [Attempts -> Attempt]
  BY DEF TypeInv, TypeOK, Put, Rows
<1>3. \A b \in Attempts : attempt'[b].phase # "absent" => attempt'[b].job \in Jobs
  BY DEF TypeInv, TypeOK, WellLinked, Put, Rows
<1>4. \A b \in Attempts : attempt[b].phase # "absent" => attempt'[b].phase # "absent"
  BY DEF TypeInv, TypeOK, Put, Rows
<1>5. sess' \in [Sessions -> Session]
  <2>1. sess \in [Sessions -> Session]
    BY DEF TypeInv, TypeOK
  <2>2. [sess EXCEPT ![s] = [pc |-> pc, att |-> a, req |-> 0]] \in [Sessions -> Session]
    BY <1>1, <2>1, SessType
  <2>3. [sess EXCEPT ![s] = Idle] \in [Sessions -> Session]
    BY <1>1, <2>1, SessType
  <2> QED BY <2>2, <2>3 DEF Enter, Leave
<1>6. \A t \in Sessions : sess'[t].pc # "idle" =>
          sess'[t].att \in Attempts /\ attempt[sess'[t].att].phase # "absent"
  BY DEF TypeInv, TypeOK, WellLinked, Enter, Leave, Idle
<1>7. TypeOK'
  BY <1>2, <1>5 DEF TypeInv, TypeOK
<1>8. WellLinked'
  BY <1>3, <1>4, <1>6 DEF TypeInv, WellLinked
<1> QED BY <1>7, <1>8 DEF TypeInv

\* The steps of a session that has begun.
LEMMA TypeContinue ==
    ASSUME TypeInv, NEW s \in Sessions, Continue(s) \/ Abandon(s)
    PROVE  TypeInv'
<1> DEFINE a == sess[s].att
<1>1. /\ attempt \in [Attempts -> Attempt]
      /\ job \in [Jobs -> Job]
      /\ post \in Post
  BY DEF TypeInv, TypeOK
<1>2. sess[s].pc # "idle"
  BY DEF Continue, CreateVerified, CreateVerifyFailed, ContainerVerified, ContainerStopped,
     ContainerVerifyFailed, ContainerAnswer, ContainerCreated, ContainerUnclear,
     ContainerRefused, SendPublish, PublishAnswer, PublishConfirmed, PublishUnclear,
     PublishRefused, FinishDetails, Abandon
<1>3. a \in Attempts /\ attempt[a].phase # "absent"
  BY <1>2 DEF TypeInv, WellLinked
<1>4. CASE CreateVerified(s)
  <2>1. (\E row \in Rows(a) : attempt' = Put(a, row))
    BY <1>4, <1>1, <1>3, RowsOf, PhaseNames DEF CreateVerified, Write, Close
  <2>2. job' \in [Jobs -> Job]
    BY <1>4, <1>1 DEF CreateVerified
  <2>3. post' \in Post
    BY <1>4, <1>1 DEF CreateVerified
  <2>4. Enter(s, "idle", a) \/ Leave(s)
    BY <1>4 DEF CreateVerified
  <2>5. UNCHANGED <<stop, page, due, draft, sent, wire, live>>
    BY <1>4 DEF CreateVerified, requests
  <2> HIDE DEF a
  <2> QED BY <1>3, <2>1, <2>2, <2>3, <2>4, <2>5, SessionStep
<1>5. CASE CreateVerifyFailed(s)
  <2>1. (\E row \in Rows(a) : attempt' = Put(a, row))
    BY <1>5, <1>1, <1>3, RowsOf, PhaseNames DEF CreateVerifyFailed, Write, Close
  <2>2. job' \in [Jobs -> Job]
    BY <1>5, <1>1, StatusType DEF CreateVerifyFailed, JobStatus
  <2>3. post' \in Post
    BY <1>5, <1>1 DEF CreateVerifyFailed
  <2>4. Leave(s)
    BY <1>5 DEF CreateVerifyFailed
  <2>5. UNCHANGED <<stop, page, due, draft, sent, wire, live>>
    BY <1>5 DEF CreateVerifyFailed, requests
  <2> HIDE DEF a
  <2> QED BY <1>3, <2>1, <2>2, <2>3, <2>4, <2>5, SessionStep
<1>6. CASE ContainerVerified(s)
  <2>1. (\E row \in Rows(a) : attempt' = Put(a, row))
    BY <1>6, <1>1, <1>3, RowsOf, PhaseNames DEF ContainerVerified, Write
  <2>2. job' \in [Jobs -> Job]
    BY <1>6, <1>1 DEF ContainerVerified
  <2>3. post' \in Post
    BY <1>6, <1>1 DEF ContainerVerified
  <2>4. Enter(s, "container", a)
    BY <1>6 DEF ContainerVerified
  <2>5. UNCHANGED <<stop, page, due, draft, sent, wire, live>>
    BY <1>6 DEF ContainerVerified, requests
  <2> HIDE DEF a
  <2> QED BY <1>3, <2>1, <2>2, <2>3, <2>4, <2>5, SessionStep
<1>7. CASE ContainerStopped(s)
  <2>1. UNCHANGED attempt
    BY <1>7 DEF ContainerStopped, db
  <2>2. job' \in [Jobs -> Job]
    BY <1>7, <1>1 DEF ContainerStopped, db
  <2>3. post' \in Post
    BY <1>7, <1>1 DEF ContainerStopped, db
  <2>4. Leave(s)
    BY <1>7 DEF ContainerStopped
  <2>5. UNCHANGED <<stop, page, due, draft, sent, wire, live>>
    BY <1>7 DEF ContainerStopped, requests, db
  <2> HIDE DEF a
  <2> QED BY <1>3, <2>1, <2>2, <2>3, <2>4, <2>5, SessionStep
<1>8. CASE ContainerVerifyFailed(s)
  <2>1. (\E row \in Rows(a) : attempt' = Put(a, row))
    BY <1>8, <1>1, <1>3, RowsOf, PhaseNames DEF ContainerVerifyFailed, Close
  <2>2. job' \in [Jobs -> Job]
    BY <1>8, <1>1, StatusType DEF ContainerVerifyFailed, JobStatus
  <2>3. post' \in Post
    BY <1>8, <1>1 DEF ContainerVerifyFailed
  <2>4. Leave(s)
    BY <1>8 DEF ContainerVerifyFailed
  <2>5. UNCHANGED <<stop, page, due, draft, sent, wire, live>>
    BY <1>8 DEF ContainerVerifyFailed, requests
  <2> HIDE DEF a
  <2> QED BY <1>3, <2>1, <2>2, <2>3, <2>4, <2>5, SessionStep
<1>9. CASE ContainerCreated(s)
  <2>1. (\E row \in Rows(a) : attempt' = Put(a, row)) \/ UNCHANGED attempt
    BY <1>9, <1>1, <1>3, RowsOf, RowsMore, PhaseNames DEF ContainerCreated
  <2>2. job' \in [Jobs -> Job]
    BY <1>9, <1>1 DEF ContainerCreated
  <2>3. post' \in Post
    BY <1>9, <1>1 DEF ContainerCreated
  <2>4. Leave(s)
    BY <1>9 DEF ContainerCreated
  <2>5. UNCHANGED <<stop, page, due, draft, sent, wire, live>>
    BY <1>9 DEF ContainerCreated, requests
  <2> HIDE DEF a
  <2> QED BY <1>3, <2>1, <2>2, <2>3, <2>4, <2>5, SessionStep
<1>10. CASE ContainerUnclear(s)
  <2>1. (\E row \in Rows(a) : attempt' = Put(a, row))
    BY <1>10, <1>1, <1>3, RowsOf, PhaseNames DEF ContainerUnclear, Write
  <2>2. job' \in [Jobs -> Job]
    BY <1>10, <1>1, StatusType DEF ContainerUnclear, JobStatus
  <2>3. post' \in Post
    BY <1>10, <1>1 DEF ContainerUnclear
  <2>4. Leave(s)
    BY <1>10 DEF ContainerUnclear
  <2>5. UNCHANGED <<stop, page, due, draft, sent, wire, live>>
    BY <1>10 DEF ContainerUnclear, requests
  <2> HIDE DEF a
  <2> QED BY <1>3, <2>1, <2>2, <2>3, <2>4, <2>5, SessionStep
<1>11. CASE ContainerRefused(s)
  <2>1. (\E row \in Rows(a) : attempt' = Put(a, row))
    BY <1>11, <1>1, <1>3, RowsOf, PhaseNames DEF ContainerRefused, Close
  <2>2. job' \in [Jobs -> Job]
    BY <1>11, <1>1, StatusType DEF ContainerRefused, JobStatus
  <2>3. post' \in Post
    BY <1>11, <1>1 DEF ContainerRefused
  <2>4. Leave(s)
    BY <1>11 DEF ContainerRefused
  <2>5. UNCHANGED <<stop, page, due, draft, sent, wire, live>>
    BY <1>11 DEF ContainerRefused, requests
  <2> HIDE DEF a
  <2> QED BY <1>3, <2>1, <2>2, <2>3, <2>4, <2>5, SessionStep
<1>12. CASE PublishConfirmed(s)
  <2>1. (\E row \in Rows(a) : attempt' = Put(a, row)) \/ UNCHANGED attempt
    BY <1>12, <1>1, <1>3, RowsOf, RowsMore, PhaseNames DEF PublishConfirmed
  <2>2. job' \in [Jobs -> Job]
    BY <1>12, <1>1, StatusType DEF PublishConfirmed, JobStatus
  <2>3. post' \in Post
    BY <1>12, <1>1 DEF PublishConfirmed, PublishedPost, Post, PostStatus
  <2>4. Enter(s, "details", a) \/ Leave(s)
    BY <1>12 DEF PublishConfirmed
  <2>5. UNCHANGED <<stop, page, due, draft, sent, wire, live>>
    BY <1>12 DEF PublishConfirmed, requests
  <2> HIDE DEF a
  <2> QED BY <1>3, <2>1, <2>2, <2>3, <2>4, <2>5, SessionStep
<1>13. CASE PublishUnclear(s)
  <2>1. (\E row \in Rows(a) : attempt' = Put(a, row))
    BY <1>13, <1>1, <1>3, RowsOf, PhaseNames DEF PublishUnclear, Write
  <2>2. job' \in [Jobs -> Job]
    BY <1>13, <1>1, StatusType DEF PublishUnclear, JobStatus
  <2>3. post' \in Post
    BY <1>13, <1>1 DEF PublishUnclear
  <2>4. Leave(s)
    BY <1>13 DEF PublishUnclear
  <2>5. UNCHANGED <<stop, page, due, draft, sent, wire, live>>
    BY <1>13 DEF PublishUnclear, requests
  <2> HIDE DEF a
  <2> QED BY <1>3, <2>1, <2>2, <2>3, <2>4, <2>5, SessionStep
<1>14. CASE PublishRefused(s)
  <2>1. (\E row \in Rows(a) : attempt' = Put(a, row))
    BY <1>14, <1>1, <1>3, RowsOf, PhaseNames DEF PublishRefused, Close
  <2>2. job' \in [Jobs -> Job]
    BY <1>14, <1>1, StatusType DEF PublishRefused, JobStatus
  <2>3. post' \in Post
    BY <1>14, <1>1 DEF PublishRefused
  <2>4. Leave(s)
    BY <1>14 DEF PublishRefused
  <2>5. UNCHANGED <<stop, page, due, draft, sent, wire, live>>
    BY <1>14 DEF PublishRefused, requests
  <2> HIDE DEF a
  <2> QED BY <1>3, <2>1, <2>2, <2>3, <2>4, <2>5, SessionStep
<1>15. CASE FinishDetails(s)
  <2>1. (\E row \in Rows(a) : attempt' = Put(a, row))
    BY <1>15, <1>1, <1>3, RowsOf, PhaseNames DEF FinishDetails, Close
  <2>2. job' \in [Jobs -> Job]
    BY <1>15, <1>1 DEF FinishDetails
  <2>3. post' \in Post
    BY <1>15, <1>1 DEF FinishDetails
  <2>4. Leave(s)
    BY <1>15 DEF FinishDetails
  <2>5. UNCHANGED <<stop, page, due, draft, sent, wire, live>>
    BY <1>15 DEF FinishDetails, requests
  <2> HIDE DEF a
  <2> QED BY <1>3, <2>1, <2>2, <2>3, <2>4, <2>5, SessionStep
<1>16. CASE Abandon(s)
  <2>1. UNCHANGED attempt
    BY <1>16 DEF Abandon, db
  <2>2. job' \in [Jobs -> Job]
    BY <1>16, <1>1 DEF Abandon, db
  <2>3. post' \in Post
    BY <1>16, <1>1 DEF Abandon, db
  <2>4. Leave(s)
    BY <1>16 DEF Abandon
  <2>5. UNCHANGED <<stop, page, due, draft, sent, wire, live>>
    BY <1>16 DEF Abandon, requests, db
  <2> HIDE DEF a
  <2> QED BY <1>3, <2>1, <2>2, <2>3, <2>4, <2>5, SessionStep
<1>17. CASE SendPublish(s)
  <2>1. sent[a] + 1 \in 1..MaxSends
    BY <1>17, <1>3, ConstantsAssumption DEF SendPublish, TypeInv, TypeOK
  <2>2. sent' \in [Attempts -> 0..MaxSends] /\ wire' \subseteq Request
    BY <1>17, <1>3, <2>1, ConstantsAssumption DEF SendPublish, TypeInv, TypeOK, Request
  <2>3. sess' \in [Sessions -> Session]
    <3>1. sent[a] + 1 \in 0..MaxSends
      BY <2>1
    <3>2. sess \in [Sessions -> Session]
      BY DEF TypeInv, TypeOK
    <3> QED BY <1>17, <1>3, <3>1, <3>2, SessType DEF SendPublish
  <2>4. TypeOK'
    BY <1>17, <2>2, <2>3 DEF SendPublish, TypeInv, TypeOK, db
  <2>5. WellLinked'
    BY <1>17, <1>3 DEF SendPublish, TypeInv, TypeOK, WellLinked, db
  <2> QED BY <2>4, <2>5 DEF TypeInv
<1> QED BY <1>4, <1>5, <1>6, <1>7, <1>8, <1>9, <1>10, <1>11, <1>12, <1>13, <1>14, <1>15, <1>16, <1>17 DEF Continue, ContainerAnswer, PublishAnswer

\* The steps that begin a session on an existing attempt.
LEMMA TypeBegin ==
    ASSUME TypeInv, NEW s \in Sessions, NEW a \in Attempts,
           StartContainer(s, a) \/ Refresh(s, a) \/ StartPublish(s, a)
    PROVE  TypeInv'
<1>1. /\ attempt \in [Attempts -> Attempt]
      /\ job \in [Jobs -> Job]
      /\ post \in Post
  BY DEF TypeInv, TypeOK
<1>2. attempt[a].phase # "absent"
  BY DEF StartContainer, Refresh, RefreshPending, RefreshFinished, RefreshError, Refreshable,
     Pollable, StartPublish, ReadyToPublish, InterruptedPhases
<1>3. attempt[a].job \in Jobs
  BY <1>2 DEF TypeInv, WellLinked
<1>4. attempt[a].phase \in Phases
  BY <1>1 DEF Attempt
<1>5. job[attempt[a].job].approved \in 0..MaxVersion
  BY <1>1, <1>3 DEF Job
<1>6. CASE StartContainer(s, a)
  <2>1. \E row \in Rows(a) : attempt' = Put(a, row)
    BY <1>6, <1>1, <1>2, <1>4, <1>5, RowsOf, RowsMore, PhaseNames DEF StartContainer
  <2>2. job' \in [Jobs -> Job] /\ post' \in Post
    BY <1>6, <1>1 DEF StartContainer
  <2>3. Enter(s, "verifying", a) /\ UNCHANGED <<stop, page, due, draft, sent, wire, live>>
    BY <1>6 DEF StartContainer, requests
  <2> QED BY <1>2, <2>1, <2>2, <2>3, SessionStep
<1>7. CASE RefreshPending(s, a)
  <2>1. \E row \in Rows(a) : attempt' = Put(a, row)
    BY <1>7, <1>1, <1>2, <1>4, <1>5, RowsOf, RowsMore, PhaseNames DEF RefreshPending
  <2>2. job' \in [Jobs -> Job] /\ post' \in Post
    BY <1>7, <1>1 DEF RefreshPending
  <2>3. Leave(s) /\ UNCHANGED <<stop, page, due, draft, sent, wire, live>>
    BY <1>7 DEF RefreshPending, requests
  <2> QED BY <1>2, <2>1, <2>2, <2>3, SessionStep
<1>8. CASE RefreshFinished(s, a)
  <2>1. \E row \in Rows(a) : attempt' = Put(a, row)
    BY <1>8, <1>1, <1>2, <1>4, <1>5, RowsOf, RowsMore, PhaseNames DEF RefreshFinished
  <2>2. job' \in [Jobs -> Job] /\ post' \in Post
    BY <1>8, <1>1 DEF RefreshFinished
  <2>3. Leave(s) /\ UNCHANGED <<stop, page, due, draft, sent, wire, live>>
    BY <1>8 DEF RefreshFinished, requests
  <2> QED BY <1>2, <2>1, <2>2, <2>3, SessionStep
<1>9. CASE RefreshError(s, a)
  <2>1. \E row \in Rows(a) : attempt' = Put(a, row)
    BY <1>9, <1>1, <1>2, <1>4, <1>5, RowsOf, RowsMore, PhaseNames DEF RefreshError
  <2>2. job' \in [Jobs -> Job] /\ post' \in Post
    BY <1>9, <1>1, StatusType DEF RefreshError, JobStatus
  <2>3. Leave(s) /\ UNCHANGED <<stop, page, due, draft, sent, wire, live>>
    BY <1>9 DEF RefreshError, requests
  <2> QED BY <1>2, <2>1, <2>2, <2>3, SessionStep
<1>10. CASE StartPublish(s, a)
  <2>1. \E row \in Rows(a) : attempt' = Put(a, row)
    BY <1>10, <1>1, <1>2, <1>4, <1>5, RowsOf, RowsMore, PhaseNames DEF StartPublish, Write
  <2>2. job' \in [Jobs -> Job] /\ post' \in Post
    BY <1>10, <1>1 DEF StartPublish
  <2>3. Enter(s, "publishing", a) /\ UNCHANGED <<stop, page, due, draft, sent, wire, live>>
    BY <1>10 DEF StartPublish, requests
  <2> QED BY <1>2, <2>1, <2>2, <2>3, SessionStep
<1> QED BY <1>6, <1>7, <1>8, <1>9, <1>10 DEF Refresh

\* A new attempt.
LEMMA TypeCreate ==
    ASSUME TypeInv, NEW s \in Sessions, NEW j \in Jobs, NEW a \in Attempts,
           NEW stage \in AllStages, CreateAttempt(s, j, a, stage)
    PROVE  TypeInv'
<1> USE DEF CreateAttempt
<1>1. /\ attempt \in [Attempts -> Attempt]
      /\ job \in [Jobs -> Job]
      /\ sess \in [Sessions -> Session]
      /\ due \in [Workers -> SUBSET Jobs]
  BY DEF TypeInv, TypeOK
<1>2. PICK row : /\ attempt' = Put(a, row)
                 /\ row \in Attempt
                 /\ row.job = j
                 /\ row.phase = "validating_public_media"
  <2> DEFINE row == [NoAttempt EXCEPT
                 !.job = j, !.phase = "validating_public_media", !.active = TRUE, !.stage = stage,
                 !.trigger = IF s \in Workers THEN "automatic" ELSE "manual"]
  <2>1. NoAttempt \in Attempt
    BY ConstantsAssumption, PhaseNames DEF NoAttempt, Attempt, AllStages, Phases, Closed
  <2>2. row \in Attempt /\ row.job = j /\ row.phase = "validating_public_media"
    BY <2>1, PhaseNames DEF Attempt
  <2> QED BY <2>2
<1>3. attempt' \in [Attempts -> Attempt]
  BY <1>1, <1>2 DEF Put
<1>4. \A b \in Attempts : /\ attempt'[b].phase # "absent" => attempt'[b].job \in Jobs
                          /\ attempt[b].phase # "absent" => attempt'[b].phase # "absent"
  BY <1>1, <1>2 DEF Put, TypeInv, WellLinked
<1>5. job' \in [Jobs -> Job]
  <2>1. CASE s \in Workers
    <3>1. job[j].attempts + 1 \in 0..MaxPublishAttempts
      BY <1>1, <2>1, ConstantsAssumption DEF AutomaticGatesPass, Job
    <3>2. job' = [job EXCEPT ![j].status = "publishing", ![j].attempts = @ + 1]
      BY <2>1
    <3> HIDE DEF CreateAttempt
    <3> QED BY <1>1, <3>1, <3>2 DEF Job, JobStatus
  <2>2. CASE s \notin Workers
    BY <1>1, <2>2
  <2> QED BY <2>1, <2>2
<1>6. due' \in [Workers -> SUBSET Jobs]
  BY <1>1
<1>7. sess' \in [Sessions -> Session]
  <2>1. 0 \in 0..MaxSends
    BY ConstantsAssumption
  <2> QED BY <1>1, <2>1, SessType DEF Enter
<1>8. TypeOK'
  BY <1>3, <1>5, <1>6, <1>7 DEF TypeInv, TypeOK, requests
<1>9. attempt'[a].phase # "absent"
  BY <1>1, <1>2 DEF Put
<1>10. \A t \in Sessions : sess'[t].pc # "idle" =>
           sess'[t].att \in Attempts /\ attempt'[sess'[t].att].phase # "absent"
  BY <1>1, <1>4, <1>9 DEF Enter, TypeInv, WellLinked
<1>11. WellLinked'
  BY <1>4, <1>10 DEF TypeInv, WellLinked
<1> QED BY <1>8, <1>11 DEF TypeInv

\* A worker's bookkeeping, and the safety period.
LEMMA TypeWorker ==
    ASSUME TypeInv, NEW w \in Workers, WorkerNext(w)
    PROVE  TypeInv'
<1>1. /\ attempt \in [Attempts -> Attempt]
      /\ job \in [Jobs -> Job]
      /\ sess \in [Sessions -> Session]
      /\ due \in [Workers -> SUBSET Jobs]
  BY DEF TypeInv, TypeOK
<1>2. w \in Sessions
  BY DEF Sessions
<1>3. CASE ListDue(w)
  <2>1. due' \in [Workers -> SUBSET Jobs]
    BY <1>1, <1>3 DEF ListDue
  <2>2. sess' = [sess EXCEPT ![w] = Idle]
    BY <1>3 DEF ListDue, Leave
  <2>3. Idle \in Session
    BY ConstantsAssumption DEF Idle, Session
  <2>4. TypeOK'
    BY <1>1, <1>3, <2>1, <2>2, <2>3 DEF ListDue, TypeInv, TypeOK, db, requests
  <2>5. WellLinked'
    BY <1>1, <1>3, <2>2 DEF ListDue, TypeInv, WellLinked, Idle, db
  <2> QED BY <2>4, <2>5 DEF TypeInv
<1>4. CASE MarkInterrupted(w)
  <2>1. \A a \in Attempts : In(a, "uncertain") \in Attempt
                            /\ In(a, "uncertain").phase = "uncertain"
                            /\ In(a, "uncertain").job = attempt[a].job
    BY <1>1, SweptRows
  <2>2. attempt' \in [Attempts -> Attempt]
    BY <1>1, <1>4, <2>1 DEF MarkInterrupted
  <2>3. \A b \in Attempts : /\ attempt'[b].phase # "absent" => attempt'[b].job \in Jobs
                            /\ attempt[b].phase # "absent" => attempt'[b].phase # "absent"
    BY <1>4, <2>1 DEF MarkInterrupted, Interrupted, InterruptedPhases, TypeInv, WellLinked
  <2>4. job' \in [Jobs -> Job]
    BY <1>1, <1>4 DEF MarkInterrupted, Job, JobStatus
  <2>5. sess' = [sess EXCEPT ![w] = Idle]
    BY <1>4 DEF MarkInterrupted, Leave
  <2>6. Idle \in Session
    BY ConstantsAssumption DEF Idle, Session
  <2>7. TypeOK'
    BY <1>1, <1>4, <2>2, <2>4, <2>5, <2>6 DEF MarkInterrupted, TypeInv, TypeOK, requests
  <2>8. WellLinked'
    BY <1>1, <1>4, <2>3, <2>5 DEF MarkInterrupted, TypeInv, WellLinked, Idle
  <2> QED BY <2>7, <2>8 DEF TypeInv
<1>5. ASSUME NEW a \in Attempts, PollFailed(w, a) PROVE TypeInv'
  <2>1. attempt[a].phase # "absent"
    BY <1>5 DEF PollFailed, Refreshable, Pollable, InterruptedPhases
  <2>2. \E row \in Rows(a) : attempt' = Put(a, row)
    BY <1>1, <1>5, <2>1, RowsOf, PhaseNames DEF PollFailed, Close
  <2>3. job' \in [Jobs -> Job] /\ post' \in Post
    BY <1>1, <1>5, StatusType DEF PollFailed, JobStatus, TypeInv, TypeOK
  <2>4. Leave(w) /\ UNCHANGED <<stop, page, due, draft, sent, wire, live>>
    BY <1>5 DEF PollFailed, requests
  <2> QED BY <1>2, <2>1, <2>2, <2>3, <2>4, SessionStep
<1> QED BY <1>3, <1>4, <1>5 DEF WorkerNext

LEMMA TypeAge ==
    ASSUME TypeInv, NEW a \in Attempts, Age(a)
    PROVE  TypeInv'
<1> DEFINE row == [attempt[a] EXCEPT !.aged = TRUE]
<1>1. attempt \in [Attempts -> Attempt] /\ attempt' = [attempt EXCEPT ![a] = row]
  BY DEF TypeInv, TypeOK, Age
<1>2. /\ row \in Attempt
      /\ row.phase = attempt[a].phase
      /\ row.job = attempt[a].job
  BY <1>1 DEF Attempt
<1> HIDE DEF row
<1>3. TypeOK'
  BY <1>1, <1>2 DEF TypeInv, TypeOK, Age, requests
<1>4. WellLinked'
  BY <1>1, <1>2 DEF TypeInv, WellLinked, Age
<1> QED BY <1>3, <1>4 DEF TypeInv

LEMMA TypeMeta ==
    ASSUME TypeInv, MetaNext
    PROVE  TypeInv'
<1>1. TypeOK'
  BY DEF TypeInv, TypeOK, MetaNext, MetaPublishes, MetaDrops, db
<1>2. WellLinked'
  BY DEF TypeInv, WellLinked, MetaNext, MetaPublishes, MetaDrops, db
<1> QED BY <1>1, <1>2 DEF TypeInv

LEMMA TypeReconcile ==
    ASSUME TypeInv, NEW a \in Attempts, ReconcilePublished(a) \/ ReconcileNotPublished(a)
    PROVE  TypeInv'
<1>1. /\ attempt \in [Attempts -> Attempt]
      /\ job \in [Jobs -> Job]
      /\ post \in Post
  BY DEF TypeInv, TypeOK
<1>2. attempt[a].phase # "absent"
  BY DEF ReconcilePublished, ReconcileNotPublished, Reconcilable, InterruptedPhases
<1>3. \E row \in Rows(a) : attempt' = Put(a, row)
  BY <1>1, <1>2, RowsOf, RowsMore, PhaseNames
  DEF ReconcilePublished, ReconcileNotPublished, Close
<1>4. attempt' \in [Attempts -> Attempt]
  BY <1>1, <1>3 DEF Put, Rows
<1>5. \A b \in Attempts : /\ attempt'[b].phase # "absent" => attempt'[b].job \in Jobs
                          /\ attempt[b].phase # "absent" => attempt'[b].phase # "absent"
  BY <1>1, <1>2, <1>3 DEF Put, Rows, TypeInv, WellLinked
<1>6. job' \in [Jobs -> Job]
  BY <1>1, StatusType DEF ReconcilePublished, ReconcileNotPublished, JobStatus
<1>7. post' \in Post
  BY <1>1 DEF ReconcilePublished, ReconcileNotPublished, PublishedPost, Post, PostStatus
<1>8. TypeOK'
  BY <1>4, <1>6, <1>7 DEF TypeInv, TypeOK, ReconcilePublished, ReconcileNotPublished, requests
<1>9. WellLinked'
  BY <1>5 DEF TypeInv, WellLinked, ReconcilePublished, ReconcileNotPublished
<1> QED BY <1>8, <1>9 DEF TypeInv

LEMMA TypeDashboard ==
    ASSUME TypeInv, DashboardNext
    PROVE  TypeInv'
<1>1. /\ attempt \in [Attempts -> Attempt]
      /\ job \in [Jobs -> Job]
      /\ post \in Post
      /\ draft \in [Users -> Draft]
  BY DEF TypeInv, TypeOK
<1>2. post.version \in 1..MaxVersion /\ post.version \in 0..MaxVersion
  BY <1>1, ConstantsAssumption DEF Post
<1>3. ASSUME NEW selected, NEW skipped, Approve(selected, skipped) PROVE TypeInv'
  <2>1. post' \in Post
    BY <1>1, <1>2, <1>3 DEF Approve, Post, PostStatus
  <2>2. job' \in [Jobs -> Job]
    BY ZenonT(40), <1>1, <1>2, <1>3 DEF Approve, Job, JobStatus
  <2> QED BY <1>3, <2>1, <2>2 DEF Approve, TypeInv, TypeOK, WellLinked, requests
<1>4. ASSUME NEW u \in Users, BeginEdit(u) PROVE TypeInv'
  <2>1. post.version + 1 \in 1..MaxVersion /\ post.version + 1 \in 0..MaxVersion
    BY <1>2, <1>4, ConstantsAssumption DEF BeginEdit
  <2>2. draft' \in [Users -> Draft]
    BY <1>1, <1>4, <2>1 DEF BeginEdit, Draft
  <2>3. \A v \in Users : draft'[v].op = "edit" => draft'[v].version \in 1..MaxVersion
    BY <1>1, <1>4, <2>1 DEF BeginEdit, TypeInv, WellLinked
  <2> QED BY <1>4, <2>2, <2>3 DEF BeginEdit, TypeInv, TypeOK, WellLinked, db, requests
<1>5. ASSUME NEW u \in Users, CommitEdit(u) PROVE TypeInv'
  <2>1. draft[u].version \in 1..MaxVersion
    BY <1>5 DEF CommitEdit, TypeInv, WellLinked
  <2>2. post' \in Post
    BY <1>1, <1>5, <2>1 DEF CommitEdit, Post, PostStatus
  <2>3. job' \in [Jobs -> Job]
    BY ZenonT(40), <1>1, <1>5 DEF CommitEdit, Job, JobStatus
  <2>4. NoDraft \in Draft
    BY ConstantsAssumption DEF NoDraft, Draft
  <2>5. draft' \in [Users -> Draft]
        /\ \A v \in Users : draft'[v].op = "edit" => draft'[v].version \in 1..MaxVersion
    BY <1>1, <1>5, <2>4 DEF CommitEdit, NoDraft, TypeInv, WellLinked
  <2> QED BY <1>5, <2>2, <2>3, <2>5 DEF CommitEdit, TypeInv, TypeOK, WellLinked, requests
<1>6. ASSUME NEW u \in Users, CommitCancel(u) PROVE TypeInv'
  <2>1. job' \in [Jobs -> Job]
    BY <1>1, <1>6 DEF CommitCancel, Job, JobStatus
  <2>2. NoDraft \in Draft
    BY ConstantsAssumption DEF NoDraft, Draft
  <2>3. draft' \in [Users -> Draft]
        /\ \A v \in Users : draft'[v].op = "edit" => draft'[v].version \in 1..MaxVersion
    BY <1>1, <1>6, <2>2 DEF CommitCancel, NoDraft, TypeInv, WellLinked
  <2> QED BY <1>6, <2>1, <2>3 DEF CommitCancel, TypeInv, TypeOK, WellLinked, requests
<1>7. ASSUME NEW u \in Users, NEW j \in Jobs, BeginCancel(u, j) PROVE TypeInv'
  <2>1. NoDraft \in Draft
    BY ConstantsAssumption DEF NoDraft, Draft
  <2>2. /\ [NoDraft EXCEPT !.op = "cancel", !.jobs = {j}] \in Draft
        /\ [NoDraft EXCEPT !.op = "cancel", !.jobs = {j}].op # "edit"
    BY <2>1 DEF Draft
  <2>3. draft' \in [Users -> Draft]
        /\ \A v \in Users : draft'[v].op = "edit" => draft'[v].version \in 1..MaxVersion
    BY <1>1, <1>7, <2>2 DEF BeginCancel, TypeInv, WellLinked
  <2> QED BY <1>7, <2>3 DEF BeginCancel, TypeInv, TypeOK, WellLinked, db, requests
<1>8. ASSUME NEW on \in BOOLEAN, SetStop(on) PROVE TypeInv'
  BY <1>8 DEF SetStop, TypeInv, TypeOK, WellLinked, requests
<1>9. ASSUME NEW release \in {"off", "manual", "auto"}, SetPage(release) PROVE TypeInv'
  BY <1>9 DEF SetPage, TypeInv, TypeOK, WellLinked, requests
<1>10. CASE Disconnect
  <2>1. \A a \in Attempts : Shut(a, "failed") \in Attempt
                            /\ Shut(a, "failed").phase = "failed"
                            /\ Shut(a, "failed").job = attempt[a].job
    BY <1>1, SweptRows
  <2>2. attempt' \in [Attempts -> Attempt]
    BY <1>1, <1>10, <2>1 DEF Disconnect
  <2>3. \A b \in Attempts : /\ attempt'[b].phase # "absent" => attempt'[b].job \in Jobs
                            /\ attempt[b].phase # "absent" => attempt'[b].phase # "absent"
    BY <1>10, <2>1 DEF Disconnect, Open, Closed, TypeInv, WellLinked
  <2>4. TypeOK'
    BY <1>10, <2>2 DEF Disconnect, TypeInv, TypeOK, requests
  <2>5. WellLinked'
    BY <1>10, <2>3 DEF Disconnect, TypeInv, WellLinked
  <2> QED BY <2>4, <2>5 DEF TypeInv
<1> QED BY <1>3, <1>4, <1>5, <1>6, <1>7, <1>8, <1>9, <1>10 DEF DashboardNext

LEMMA TypeNext == TypeInv /\ [Next]_vars => TypeInv'
<1> SUFFICES ASSUME TypeInv, [Next]_vars PROVE TypeInv'
  OBVIOUS
<1>1. ASSUME NEW s \in Sessions, SessionNext(s) PROVE TypeInv'
  BY <1>1, TypeCreate, TypeBegin, TypeContinue DEF SessionNext
<1>2. ASSUME NEW w \in Workers, WorkerNext(w) PROVE TypeInv'
  BY <1>2, TypeWorker
<1>3. ASSUME NEW a \in Attempts, Age(a) PROVE TypeInv'
  BY <1>3, TypeAge
<1>4. CASE ReconcileNext
  BY <1>4, TypeReconcile DEF ReconcileNext
<1>5. CASE UNCHANGED vars
  BY <1>5 DEF vars, TypeInv, TypeOK, WellLinked
<1> QED BY <1>1, <1>2, <1>3, <1>4, <1>5, TypeMeta, TypeDashboard DEF Next

\* Every variable of the publication workflow keeps its type, for every number
\* of jobs, attempts, workers and administrators.
THEOREM TypeCorrect == Spec => []TypeOK
<1>1. Spec => []TypeInv
  BY TypeInit, TypeNext, PTL DEF Spec
<1> QED BY <1>1, PTL DEF TypeInv

-----------------------------------------------------------------------------
(* Attempts, calls and requests.                                         *)

\* Nobody presses a button the attempt's state does not call for, the page is
\* not disconnected during a call, and the safety period covers every call.
Orderly == Perils \cap {"refresh_unclear", "revive", "disconnect_in_flight",
                        "slow_carousel"} = {}

\* Phases in which media_publish has not been sent.
BeforeSending == {"absent", "validating_public_media", "creating_media_grant",
                  "creating_container", "waiting_for_container", "ready_to_publish"}

\* The phase a session committed before the call it is in.
CallPhase(pc, phase) ==
    /\ pc \in {"creating", "verifying"} => phase = "validating_public_media"
    /\ pc = "container" => phase = "creating_container"
    /\ pc \in {"publishing", "awaiting"} => phase = "publishing"
    /\ pc = "details" => phase = "reconciling"

\* The active key is held exactly while the attempt is open, by one attempt.
ActiveWhileOpen == \A a \in Attempts : attempt[a].active = Open(a)
OneActive ==
    \A a, b \in Attempts :
        attempt[a].active /\ attempt[b].active /\ attempt[a].job = attempt[b].job => a = b

\* A running call belongs to one session and to an attempt that is young and
\* still where the session left it.
OwnCalls ==
    \A s \in Sessions : sess[s].pc # "idle" =>
        /\ ~attempt[sess[s].att].aged
        /\ CallPhase(sess[s].pc, attempt[sess[s].att].phase)
OneCaller ==
    \A s, t \in Sessions :
        sess[s].pc # "idle" /\ sess[t].pc # "idle" /\ sess[s].att = sess[t].att => s = t

\* Nothing was sent for an attempt before its session sends it.
Unsent ==
    /\ \A a \in Attempts : attempt[a].phase \in BeforeSending => sent[a] = 0
    /\ \A s \in Sessions : sess[s].pc = "publishing" => sent[sess[s].att] = 0

CallInv == TypeInv /\ ActiveWhileOpen /\ OneActive /\ OwnCalls /\ OneCaller /\ Unsent /\ NoResend

\* A row that may take the place of a's when its session goes to pc.
Follows(a, row, pc) ==
    /\ row.active => attempt[a].active
    /\ row.active = (row.phase \notin Closed)
    /\ ~row.aged
    /\ row.phase \in BeforeSending => attempt[a].phase \in BeforeSending
    /\ CallPhase(pc, row.phase)
    /\ pc = "publishing" => attempt[a].phase \in BeforeSending

\* No session but s is in a call for attempt a.
OnlyCaller(s, a) ==
    \A t \in Sessions : t # s /\ sess[t].pc # "idle" => sess[t].att # a

LEMMA CallStep ==
    ASSUME CallInv, TypeInv', NEW s \in Sessions, NEW a \in Attempts, OnlyCaller(s, a),
           NEW row \in Rows(a), attempt' = Put(a, row),
           NEW pc, Follows(a, row, pc), Enter(s, pc, a) \/ Leave(s),
           UNCHANGED sent
    PROVE  CallInv'
<1> USE DEF CallInv
<1>1. /\ attempt \in [Attempts -> Attempt]
      /\ sess \in [Sessions -> Session]
      /\ row.job = attempt[a].job
  BY DEF TypeInv, TypeOK, Rows
<1>2. \A b \in Attempts : attempt'[b] = IF b = a THEN row ELSE attempt[b]
  BY <1>1 DEF Put
<1>3. ActiveWhileOpen'
  BY <1>2 DEF ActiveWhileOpen, Open, Follows
<1>4. OneActive'
  BY <1>1, <1>2 DEF OneActive, Follows
<1>5. \A t \in Sessions : /\ t # s => sess'[t] = sess[t]
                          /\ sess'[s].pc # "idle" => sess'[s].pc = pc /\ sess'[s].att = a
  BY <1>1 DEF Enter, Leave, Idle
<1>6. \A t \in Sessions : sess[t].pc # "idle" => sess[t].att \in Attempts
  BY DEF TypeInv, WellLinked
<1>7. OwnCalls'
  BY <1>2, <1>5, <1>6 DEF OwnCalls, OnlyCaller, Follows
<1>8. OneCaller'
  BY <1>5 DEF OneCaller, OnlyCaller
<1>9. Unsent'
  BY <1>2, <1>5, <1>6 DEF Unsent, Follows
<1>10. NoResend'
  BY DEF NoResend
<1> QED BY <1>3, <1>4, <1>7, <1>8, <1>9, <1>10

\* A session that ends without writing its attempt.
LEMMA CallLeft ==
    ASSUME CallInv, TypeInv', NEW s \in Sessions, Leave(s), UNCHANGED <<attempt, sent>>
    PROVE  CallInv'
<1>1. sess' = [sess EXCEPT ![s] = Idle] /\ sess \in [Sessions -> Session]
  BY DEF Leave, CallInv, TypeInv, TypeOK
<1>2. \A t \in Sessions : sess'[t].pc # "idle" => sess'[t] = sess[t]
  BY <1>1 DEF Idle
<1>3. OwnCalls' /\ OneCaller'
  BY <1>2 DEF CallInv, OwnCalls, OneCaller
<1>4. Unsent'
  BY <1>2 DEF CallInv, Unsent
<1> QED BY <1>3, <1>4 DEF CallInv, ActiveWhileOpen, OneActive, NoResend, Open

\* What the row helpers write follows.
LEMMA RowsFollow ==
    ASSUME CallInv, NEW a \in Attempts, attempt[a].active,
           NEW phase \in Phases, phase \in BeforeSending => attempt[a].phase \in BeforeSending,
           NEW pc, CallPhase(pc, phase),
           pc = "publishing" => attempt[a].phase \in BeforeSending
    PROVE  /\ phase \notin Closed => Follows(a, In(a, phase), pc)
           /\ phase \in Closed => Follows(a, Shut(a, phase), pc)
<1>1. attempt \in [Attempts -> Attempt]
  BY DEF CallInv, TypeInv, TypeOK
<1>2. /\ In(a, phase).phase = phase /\ Shut(a, phase).phase = phase
      /\ In(a, phase).active = attempt[a].active /\ Shut(a, phase).active = FALSE
      /\ In(a, phase).aged = FALSE /\ Shut(a, phase).aged = FALSE
  BY ZenonT(40), <1>1, RowFields
<1> QED BY <1>2 DEF Follows

\* Fields that the protocol does not look at may be written along.
LEMMA MoreFollow ==
    ASSUME NEW a, NEW r \in Rows(a), NEW pc, Follows(a, r, pc)
    PROVE  /\ \A c \in {"none", "pending", "finished", "error"} :
                  Follows(a, [r EXCEPT !.container = c], pc)
           /\ \A v \in 0..MaxVersion : Follows(a, [r EXCEPT !.content = v], pc)
           /\ Follows(a, [r EXCEPT !.media = TRUE], pc)
<1>1. r \in Attempt
  BY DEF Rows
<1> QED BY <1>1, RowMore DEF Follows, SameState

LEMMA CallContinue ==
    ASSUME CallInv, TypeInv', NEW s \in Sessions, Continue(s) \/ Abandon(s)
    PROVE  CallInv'
<1> DEFINE a == sess[s].att
<1>1. attempt \in [Attempts -> Attempt]
  BY DEF CallInv, TypeInv, TypeOK
<1>2. sess[s].pc # "idle"
  BY DEF Continue, CreateVerified, CreateVerifyFailed, ContainerVerified, ContainerStopped,
     ContainerVerifyFailed, ContainerAnswer, ContainerCreated, ContainerUnclear,
     ContainerRefused, SendPublish, PublishAnswer, PublishConfirmed, PublishUnclear,
     PublishRefused, FinishDetails, Abandon
<1>3. a \in Attempts /\ attempt[a].phase # "absent"
  BY <1>2 DEF CallInv, TypeInv, WellLinked
<1>4. OnlyCaller(s, a)
  BY <1>2 DEF CallInv, OneCaller, OnlyCaller
<1>5. CallPhase(sess[s].pc, attempt[a].phase)
  BY <1>2 DEF CallInv, OwnCalls
<1>6. CASE CreateVerified(s)
  <2>1. attempt[a].phase = "validating_public_media"
    BY <1>6, <1>5 DEF CreateVerified, CallPhase
  <2>2. attempt[a].active
    BY <1>3, <2>1 DEF CallInv, ActiveWhileOpen, Open, Closed
  <2>3. /\ Shut(a, "completed") \in Rows(a) /\ Follows(a, Shut(a, "completed"), "idle")
        /\ In(a, "creating_media_grant") \in Rows(a) /\ Follows(a, In(a, "creating_media_grant"), "idle")
    BY <1>1, <1>3, <2>1, <2>2, RowsOf, RowsFollow, PhaseNames DEF CallPhase, BeforeSending, Closed
  <2>4. attempt' = Put(a, Shut(a, "completed")) \/ attempt' = Put(a, In(a, "creating_media_grant"))
    BY <1>6 DEF CreateVerified, Write, Close
  <2>5. (Enter(s, "idle", a) \/ Leave(s)) /\ UNCHANGED sent
    BY <1>6 DEF CreateVerified, requests
  <2> HIDE DEF a
  <2> QED BY <1>3, <1>4, <2>3, <2>4, <2>5, CallStep
<1>7. CASE CreateVerifyFailed(s)
  <2>1. attempt[a].phase = "validating_public_media"
    BY <1>7, <1>5 DEF CreateVerifyFailed, CallPhase
  <2>2. attempt[a].active
    BY <1>3, <2>1 DEF CallInv, ActiveWhileOpen, Open, Closed
  <2>3. Shut(a, "failed") \in Rows(a) /\ Follows(a, Shut(a, "failed"), "idle")
    BY <1>1, <1>3, <2>1, <2>2, RowsOf, RowsFollow, PhaseNames DEF CallPhase, BeforeSending, Closed
  <2>4. attempt' = Put(a, Shut(a, "failed"))
    BY <1>7 DEF CreateVerifyFailed, Close
  <2>5. (Leave(s)) /\ UNCHANGED sent
    BY <1>7 DEF CreateVerifyFailed, requests
  <2> HIDE DEF a
  <2> QED BY <1>3, <1>4, <2>3, <2>4, <2>5, CallStep
<1>8. CASE ContainerVerified(s)
  <2>1. attempt[a].phase = "validating_public_media"
    BY <1>8, <1>5 DEF ContainerVerified, CallPhase
  <2>2. attempt[a].active
    BY <1>3, <2>1 DEF CallInv, ActiveWhileOpen, Open, Closed
  <2>3. In(a, "creating_container") \in Rows(a) /\ Follows(a, In(a, "creating_container"), "container")
    BY <1>1, <1>3, <2>1, <2>2, RowsOf, RowsFollow, PhaseNames DEF CallPhase, BeforeSending, Closed
  <2>4. attempt' = Put(a, In(a, "creating_container"))
    BY <1>8 DEF ContainerVerified, Write
  <2>5. (Enter(s, "container", a)) /\ UNCHANGED sent
    BY <1>8 DEF ContainerVerified, requests
  <2> HIDE DEF a
  <2> QED BY <1>3, <1>4, <2>3, <2>4, <2>5, CallStep
<1>9. CASE ContainerStopped(s)
  <2>1. Leave(s) /\ UNCHANGED <<attempt, sent>>
    BY <1>9 DEF ContainerStopped, db, requests
  <2> QED BY <2>1, CallLeft
<1>10. CASE ContainerVerifyFailed(s)
  <2>1. attempt[a].phase = "validating_public_media"
    BY <1>10, <1>5 DEF ContainerVerifyFailed, CallPhase
  <2>2. attempt[a].active
    BY <1>3, <2>1 DEF CallInv, ActiveWhileOpen, Open, Closed
  <2>3. Shut(a, "failed") \in Rows(a) /\ Follows(a, Shut(a, "failed"), "idle")
    BY <1>1, <1>3, <2>1, <2>2, RowsOf, RowsFollow, PhaseNames DEF CallPhase, BeforeSending, Closed
  <2>4. attempt' = Put(a, Shut(a, "failed"))
    BY <1>10 DEF ContainerVerifyFailed, Close
  <2>5. (Leave(s)) /\ UNCHANGED sent
    BY <1>10 DEF ContainerVerifyFailed, requests
  <2> HIDE DEF a
  <2> QED BY <1>3, <1>4, <2>3, <2>4, <2>5, CallStep
<1>11. CASE ContainerCreated(s)
  <2>1. attempt[a].phase = "creating_container"
    BY <1>11, <1>5 DEF ContainerCreated, CallPhase
  <2>2. attempt[a].active
    BY <1>3, <2>1 DEF CallInv, ActiveWhileOpen, Open, Closed
  <2>3. In(a, "waiting_for_container") \in Rows(a) /\ Follows(a, In(a, "waiting_for_container"), "idle")
    BY <1>1, <1>3, <2>1, <2>2, RowsOf, RowsFollow, PhaseNames DEF CallPhase, BeforeSending, Closed
  <2>4. [In(a, "waiting_for_container") EXCEPT !.container = "pending"] \in Rows(a)
        /\ Follows(a, [In(a, "waiting_for_container") EXCEPT !.container = "pending"], "idle")
    BY <2>3, RowsMore, MoreFollow
  <2>5. \/ Leave(s) /\ UNCHANGED attempt
        \/ attempt' = Put(a, [In(a, "waiting_for_container") EXCEPT !.container = "pending"])
           /\ Leave(s)
    BY <1>11 DEF ContainerCreated
  <2>6. UNCHANGED sent
    BY <1>11 DEF ContainerCreated, requests
  <2> HIDE DEF a
  <2> QED BY <1>3, <1>4, <2>4, <2>5, <2>6, CallStep, CallLeft
<1>12. CASE ContainerUnclear(s)
  <2>1. attempt[a].phase = "creating_container"
    BY <1>12, <1>5 DEF ContainerUnclear, CallPhase
  <2>2. attempt[a].active
    BY <1>3, <2>1 DEF CallInv, ActiveWhileOpen, Open, Closed
  <2>3. In(a, "uncertain") \in Rows(a) /\ Follows(a, In(a, "uncertain"), "idle")
    BY <1>1, <1>3, <2>1, <2>2, RowsOf, RowsFollow, PhaseNames DEF CallPhase, BeforeSending, Closed
  <2>4. attempt' = Put(a, In(a, "uncertain"))
    BY <1>12 DEF ContainerUnclear, Write
  <2>5. (Leave(s)) /\ UNCHANGED sent
    BY <1>12 DEF ContainerUnclear, requests
  <2> HIDE DEF a
  <2> QED BY <1>3, <1>4, <2>3, <2>4, <2>5, CallStep
<1>13. CASE ContainerRefused(s)
  <2>1. attempt[a].phase = "creating_container"
    BY <1>13, <1>5 DEF ContainerRefused, CallPhase
  <2>2. attempt[a].active
    BY <1>3, <2>1 DEF CallInv, ActiveWhileOpen, Open, Closed
  <2>3. Shut(a, "failed") \in Rows(a) /\ Follows(a, Shut(a, "failed"), "idle")
    BY <1>1, <1>3, <2>1, <2>2, RowsOf, RowsFollow, PhaseNames DEF CallPhase, BeforeSending, Closed
  <2>4. attempt' = Put(a, Shut(a, "failed"))
    BY <1>13 DEF ContainerRefused, Close
  <2>5. (Leave(s)) /\ UNCHANGED sent
    BY <1>13 DEF ContainerRefused, requests
  <2> HIDE DEF a
  <2> QED BY <1>3, <1>4, <2>3, <2>4, <2>5, CallStep
<1>14. CASE PublishConfirmed(s)
  <2>1. attempt[a].phase = "publishing"
    BY <1>14, <1>5 DEF PublishConfirmed, CallPhase
  <2>2. attempt[a].active
    BY <1>3, <2>1 DEF CallInv, ActiveWhileOpen, Open, Closed
  <2>3. In(a, "reconciling") \in Rows(a) /\ Follows(a, In(a, "reconciling"), "details")
    BY <1>1, <1>3, <2>1, <2>2, RowsOf, RowsFollow, PhaseNames DEF CallPhase, BeforeSending, Closed
  <2>4. [In(a, "reconciling") EXCEPT !.media = TRUE] \in Rows(a)
        /\ Follows(a, [In(a, "reconciling") EXCEPT !.media = TRUE], "details")
    BY <2>3, RowsMore, MoreFollow
  <2>5. \/ Leave(s) /\ UNCHANGED attempt
        \/ attempt' = Put(a, [In(a, "reconciling") EXCEPT !.media = TRUE])
           /\ Enter(s, "details", a)
    BY <1>14 DEF PublishConfirmed
  <2>6. UNCHANGED sent
    BY <1>14 DEF PublishConfirmed, requests
  <2> HIDE DEF a
  <2> QED BY <1>3, <1>4, <2>4, <2>5, <2>6, CallStep, CallLeft
<1>15. CASE PublishUnclear(s)
  <2>1. attempt[a].phase = "publishing"
    BY <1>15, <1>5 DEF PublishUnclear, CallPhase
  <2>2. attempt[a].active
    BY <1>3, <2>1 DEF CallInv, ActiveWhileOpen, Open, Closed
  <2>3. In(a, "uncertain") \in Rows(a) /\ Follows(a, In(a, "uncertain"), "idle")
    BY <1>1, <1>3, <2>1, <2>2, RowsOf, RowsFollow, PhaseNames DEF CallPhase, BeforeSending, Closed
  <2>4. attempt' = Put(a, In(a, "uncertain"))
    BY <1>15 DEF PublishUnclear, Write
  <2>5. (Leave(s)) /\ UNCHANGED sent
    BY <1>15 DEF PublishUnclear, requests
  <2> HIDE DEF a
  <2> QED BY <1>3, <1>4, <2>3, <2>4, <2>5, CallStep
<1>16. CASE PublishRefused(s)
  <2>1. attempt[a].phase = "publishing"
    BY <1>16, <1>5 DEF PublishRefused, CallPhase
  <2>2. attempt[a].active
    BY <1>3, <2>1 DEF CallInv, ActiveWhileOpen, Open, Closed
  <2>3. Shut(a, "failed") \in Rows(a) /\ Follows(a, Shut(a, "failed"), "idle")
    BY <1>1, <1>3, <2>1, <2>2, RowsOf, RowsFollow, PhaseNames DEF CallPhase, BeforeSending, Closed
  <2>4. attempt' = Put(a, Shut(a, "failed"))
    BY <1>16 DEF PublishRefused, Close
  <2>5. (Leave(s)) /\ UNCHANGED sent
    BY <1>16 DEF PublishRefused, requests
  <2> HIDE DEF a
  <2> QED BY <1>3, <1>4, <2>3, <2>4, <2>5, CallStep
<1>17. CASE FinishDetails(s)
  <2>1. attempt[a].phase = "reconciling"
    BY <1>17, <1>5 DEF FinishDetails, CallPhase
  <2>2. attempt[a].active
    BY <1>3, <2>1 DEF CallInv, ActiveWhileOpen, Open, Closed
  <2>3. Shut(a, "completed") \in Rows(a) /\ Follows(a, Shut(a, "completed"), "idle")
    BY <1>1, <1>3, <2>1, <2>2, RowsOf, RowsFollow, PhaseNames DEF CallPhase, BeforeSending, Closed
  <2>4. attempt' = Put(a, Shut(a, "completed"))
    BY <1>17 DEF FinishDetails, Close
  <2>5. (Leave(s)) /\ UNCHANGED sent
    BY <1>17 DEF FinishDetails, requests
  <2> HIDE DEF a
  <2> QED BY <1>3, <1>4, <2>3, <2>4, <2>5, CallStep
<1>18. CASE Abandon(s)
  <2>1. Leave(s) /\ UNCHANGED <<attempt, sent>>
    BY <1>18 DEF Abandon, db, requests
  <2> QED BY <2>1, CallLeft
<1>19. CASE SendPublish(s)
  <2>1. sess[s].pc = "publishing" /\ sent[a] = 0 /\ attempt[a].phase = "publishing"
    BY <1>19, <1>3, <1>5 DEF SendPublish, CallInv, Unsent, CallPhase
  <2>2. UNCHANGED attempt /\ sent' = [sent EXCEPT ![a] = 1]
    BY <1>19, <2>1 DEF SendPublish, db
  <2>3. \A b \in Attempts : sent'[b] = IF b = a THEN 1 ELSE sent[b]
    BY <1>3, <2>2 DEF CallInv, TypeInv, TypeOK
  <2>4. \A t \in Sessions : /\ t # s => sess'[t] = sess[t]
                            /\ sess'[s].pc = "awaiting" /\ sess'[s].att = a
    BY <1>19 DEF SendPublish, CallInv, TypeInv, TypeOK
  <2>5. OwnCalls' /\ OneCaller'
    BY <2>1, <2>2, <2>4 DEF CallInv, OwnCalls, OneCaller, CallPhase
  <2>6. \A t \in Sessions : sess[t].pc = "publishing" => sess[t].att \in Attempts
    BY DEF CallInv, TypeInv, WellLinked
  <2>7. Unsent'
    BY <1>4, <2>1, <2>2, <2>3, <2>4, <2>6 DEF CallInv, Unsent, OnlyCaller, BeforeSending
  <2>8. NoResend'
    BY <2>3 DEF CallInv, NoResend
  <2> QED BY <2>2, <2>5, <2>7, <2>8 DEF CallInv, ActiveWhileOpen, OneActive, Open
<1> QED BY <1>6, <1>7, <1>8, <1>9, <1>10, <1>11, <1>12, <1>13, <1>14, <1>15, <1>16, <1>17, <1>18, <1>19 DEF Continue, ContainerAnswer, PublishAnswer

LEMMA CallBegin ==
    ASSUME Orderly, CallInv, TypeInv', NEW s \in Sessions, NEW a \in Attempts,
           StartContainer(s, a) \/ Refresh(s, a) \/ StartPublish(s, a)
           \/ (s \in Workers /\ PollFailed(s, a))
    PROVE  CallInv'
<1>1. /\ attempt \in [Attempts -> Attempt]
      /\ job \in [Jobs -> Job]
  BY DEF CallInv, TypeInv, TypeOK
<1>2. /\ sess[s].pc = "idle"
      /\ attempt[a].phase \in {"creating_media_grant", "waiting_for_container",
                               "ready_to_publish"}
  BY DEF Orderly, StartContainer, Refresh, RefreshPending, RefreshFinished, RefreshError,
     PollFailed, Refreshable, Pollable, StartPublish, ReadyToPublish
<1>3. attempt[a].active
  BY <1>2 DEF CallInv, ActiveWhileOpen, Open, Closed
<1>4. OnlyCaller(s, a)
  BY <1>2 DEF CallInv, OwnCalls, CallPhase, OnlyCaller, TypeInv, TypeOK, Session
<1>5. attempt[a].phase \in Phases /\ attempt[a].phase \in BeforeSending
  BY <1>2, PhaseNames DEF BeforeSending
<1>6. job[attempt[a].job].approved \in 0..MaxVersion
  BY <1>1, <1>2 DEF CallInv, TypeInv, WellLinked, Job
<1>7. CASE StartContainer(s, a)
  <2> DEFINE row == In(a, "validating_public_media")
             next == [row EXCEPT !.content = job[attempt[a].job].approved]
  <2>1. row \in Rows(a) /\ Follows(a, row, "verifying")
    BY <1>1, <1>3, <1>5, RowsOf, RowsFollow, PhaseNames DEF CallPhase, Closed
  <2>2. next \in Rows(a) /\ Follows(a, next, "verifying")
    <3> HIDE DEF row
    <3> QED BY <1>6, <2>1, RowsMore, MoreFollow
  <2>3. attempt' = Put(a, next)
    BY <1>7 DEF StartContainer
  <2>4. Enter(s, "verifying", a) /\ UNCHANGED sent
    BY <1>7 DEF StartContainer, requests
  <2> HIDE DEF next
  <2> QED BY <1>4, <2>2, <2>3, <2>4, CallStep
<1>8. CASE RefreshPending(s, a)
  <2> DEFINE row == In(a, attempt[a].phase)
  <2>1. row \in Rows(a) /\ Follows(a, row, "idle")
    BY <1>1, <1>2, <1>3, <1>5, RowsOf, RowsFollow DEF CallPhase, Closed
  <2>2. \E r \in Rows(a) : attempt' = Put(a, r) /\ Follows(a, r, "idle")
    BY <1>8, <2>1, RowsMore, MoreFollow DEF RefreshPending
  <2>3. Leave(s) /\ UNCHANGED sent
    BY <1>8 DEF RefreshPending, requests
  <2> QED BY <1>4, <2>2, <2>3, CallStep
<1>9. CASE RefreshFinished(s, a)
  <2>1. /\ In(a, "ready_to_publish") \in Rows(a)
        /\ Follows(a, In(a, "ready_to_publish"), "idle")
        /\ Shut(a, "completed") \in Rows(a)
        /\ Follows(a, Shut(a, "completed"), "idle")
    BY <1>1, <1>3, <1>5, RowsOf, RowsFollow, PhaseNames DEF CallPhase, Closed
  <2>2. \E r \in Rows(a) : attempt' = Put(a, r) /\ Follows(a, r, "idle")
    BY <1>9, <2>1, RowsMore, MoreFollow DEF RefreshFinished
  <2>3. Leave(s) /\ UNCHANGED sent
    BY <1>9 DEF RefreshFinished, requests
  <2> QED BY <1>4, <2>2, <2>3, CallStep
<1>10. CASE RefreshError(s, a) \/ PollFailed(s, a)
  <2>1. Shut(a, "failed") \in Rows(a) /\ Follows(a, Shut(a, "failed"), "idle")
    BY <1>1, <1>3, <1>5, RowsOf, RowsFollow, PhaseNames DEF CallPhase, Closed
  <2>2. \E r \in Rows(a) : attempt' = Put(a, r) /\ Follows(a, r, "idle")
    BY <1>10, <2>1, RowsMore, MoreFollow DEF RefreshError, PollFailed, Close
  <2>3. Leave(s) /\ UNCHANGED sent
    BY <1>10 DEF RefreshError, PollFailed, requests
  <2> QED BY <1>4, <2>2, <2>3, CallStep
<1>11. CASE StartPublish(s, a)
  <2>1. In(a, "publishing") \in Rows(a) /\ Follows(a, In(a, "publishing"), "publishing")
    BY <1>1, <1>3, <1>5, RowsOf, RowsFollow, PhaseNames DEF CallPhase, Closed
  <2>2. attempt' = Put(a, In(a, "publishing")) /\ Enter(s, "publishing", a) /\ UNCHANGED sent
    BY <1>11 DEF StartPublish, Write, requests
  <2> QED BY <1>4, <2>1, <2>2, CallStep
<1> QED BY <1>7, <1>8, <1>9, <1>10, <1>11 DEF Refresh

\* A new attempt finds the job's key free.
LEMMA CallCreate ==
    ASSUME CallInv, TypeInv', NEW s \in Sessions, NEW j \in Jobs, NEW a \in Attempts,
           NEW stage \in AllStages, CreateAttempt(s, j, a, stage)
    PROVE  CallInv'
<1>1. /\ attempt \in [Attempts -> Attempt]
      /\ sess \in [Sessions -> Session]
      /\ NoAttempt \in Attempt
  BY ConstantsAssumption, PhaseNames
  DEF CallInv, TypeInv, TypeOK, NoAttempt, Attempt, AllStages, Phases, Closed
<1> DEFINE row == [NoAttempt EXCEPT
               !.job = j, !.phase = "validating_public_media", !.active = TRUE, !.stage = stage,
               !.trigger = IF s \in Workers THEN "automatic" ELSE "manual"]
<1>2. /\ row.job = j /\ row.active = TRUE /\ row.aged = FALSE
      /\ row.phase = "validating_public_media"
  BY DEF NoAttempt
<1>3. attempt' = Put(a, row)
  BY DEF CreateAttempt
<1> HIDE DEF row
<1>4. \A b \in Attempts : attempt'[b] = IF b = a THEN row ELSE attempt[b]
  BY <1>1, <1>3 DEF Put
<1>5. /\ sess' = [sess EXCEPT ![s] = [pc |-> "creating", att |-> a, req |-> 0]]
      /\ UNCHANGED sent
      /\ attempt[a].phase = "absent"
      /\ ~KeyHeld(j)
      /\ sess[s].pc = "idle"
  BY DEF CreateAttempt, Enter, requests
<1>6. \A t \in Sessions : sess[t].pc # "idle" => sess[t].att \in Attempts \ {a}
  BY <1>5 DEF CallInv, TypeInv, WellLinked
<1>7. \A t \in Sessions : /\ t # s => sess'[t] = sess[t]
                          /\ sess'[s].pc = "creating" /\ sess'[s].att = a
  BY <1>1, <1>5
<1>8. ActiveWhileOpen'
  BY <1>2, <1>4 DEF CallInv, ActiveWhileOpen, Open, Closed
<1>9. OneActive'
  BY <1>2, <1>4, <1>5 DEF CallInv, OneActive, KeyHeld
<1>10. OwnCalls'
  BY <1>2, <1>4, <1>6, <1>7 DEF CallInv, OwnCalls, CallPhase
<1>11. OneCaller'
  BY <1>6, <1>7 DEF CallInv, OneCaller
<1>12. sent[a] = 0
  BY <1>5 DEF CallInv, Unsent, BeforeSending
<1>13. Unsent'
  BY <1>2, <1>4, <1>5, <1>6, <1>7, <1>12 DEF CallInv, Unsent
<1>14. NoResend'
  BY <1>5 DEF CallInv, NoResend
<1> QED BY <1>8, <1>9, <1>10, <1>11, <1>13, <1>14 DEF CallInv

\* A set of attempts is closed or set to uncertain under nobody's call.
LEMMA CallSwept ==
    ASSUME CallInv, TypeInv', NEW swept \in SUBSET Attempts,
           \A a \in swept : \A t \in Sessions : sess[t].pc # "idle" => sess[t].att # a,
           \A a \in Attempts \ swept : attempt'[a] = attempt[a],
           \A a \in swept : /\ attempt'[a].job = attempt[a].job
                            /\ attempt'[a].active => attempt[a].active
                            /\ attempt'[a].active = (attempt'[a].phase \notin Closed)
                            /\ attempt'[a].phase \notin BeforeSending,
           UNCHANGED <<sess, sent>>
    PROVE  CallInv'
<1>1. ActiveWhileOpen'
  BY DEF CallInv, ActiveWhileOpen, Open
<1>2. OneActive'
  BY DEF CallInv, OneActive
<1>3. \A t \in Sessions : sess[t].pc # "idle" => attempt'[sess[t].att] = attempt[sess[t].att]
  BY DEF CallInv, TypeInv, WellLinked
<1>4. OwnCalls' /\ OneCaller'
  BY <1>3 DEF CallInv, OwnCalls, OneCaller
<1>5. Unsent' /\ NoResend'
  BY DEF CallInv, Unsent, NoResend
<1> QED BY <1>1, <1>2, <1>4, <1>5 DEF CallInv

LEMMA CallMark ==
    ASSUME CallInv, TypeInv', NEW w \in Workers, MarkInterrupted(w)
    PROVE  CallInv'
<1>1. attempt \in [Attempts -> Attempt] /\ sess \in [Sessions -> Session] /\ w \in Sessions
  BY DEF CallInv, TypeInv, TypeOK, Sessions
<1>2. \A a \in Attempts : /\ In(a, "uncertain").phase = "uncertain"
                          /\ In(a, "uncertain").job = attempt[a].job
                          /\ In(a, "uncertain").active = attempt[a].active
                          /\ In(a, "uncertain").aged = FALSE
  BY <1>1, SweptRows
<1>3. \A a \in Attempts : attempt'[a] = IF a \in Interrupted THEN In(a, "uncertain")
                                        ELSE attempt[a]
  BY DEF MarkInterrupted
<1>4. \A a \in Interrupted : a \in Attempts /\ attempt[a].active /\ attempt[a].aged
  BY DEF Interrupted
<1>5. \A t \in Sessions : sess'[t].pc # "idle" => sess'[t] = sess[t]
  BY <1>1 DEF MarkInterrupted, Leave, Idle
<1>6. UNCHANGED sent
  BY DEF MarkInterrupted, requests
<1>7. \A t \in Sessions : sess'[t].pc # "idle" =>
          sess'[t].att \in Attempts /\ attempt'[sess'[t].att] = attempt[sess'[t].att]
  BY <1>3, <1>4, <1>5 DEF CallInv, OwnCalls, TypeInv, WellLinked
<1>9. ActiveWhileOpen'
  BY ZenonT(40), <1>2, <1>3, <1>4 DEF CallInv, ActiveWhileOpen, Open, Closed
<1>10. \A a \in Attempts : attempt'[a].active = attempt[a].active
                           /\ attempt'[a].job = attempt[a].job
  BY <1>2, <1>3
<1>11. OneActive'
  BY <1>10 DEF CallInv, OneActive
<1>12. OwnCalls' /\ OneCaller'
  BY <1>5, <1>7 DEF CallInv, OwnCalls, OneCaller
<1>13. Unsent' /\ NoResend'
  BY <1>2, <1>3, <1>5, <1>6 DEF CallInv, Unsent, NoResend, BeforeSending
<1> QED BY <1>9, <1>11, <1>12, <1>13 DEF CallInv

\* The safety period has passed for no attempt with a session.
LEMMA CallAge ==
    ASSUME Orderly, CallInv, TypeInv', NEW a \in Attempts, Age(a)
    PROVE  CallInv'
<1> DEFINE row == [attempt[a] EXCEPT !.aged = TRUE]
<1>1. attempt \in [Attempts -> Attempt] /\ attempt' = [attempt EXCEPT ![a] = row]
  BY DEF CallInv, TypeInv, TypeOK, Age
<1>2. /\ row.phase = attempt[a].phase
      /\ row.job = attempt[a].job
      /\ row.active = attempt[a].active
  BY <1>1 DEF Attempt
<1> HIDE DEF row
<1>3. \A b \in Attempts : attempt'[b] = IF b = a THEN row ELSE attempt[b]
  BY <1>1
<1>4. \A t \in Sessions : sess[t].pc # "idle" => sess[t].att \in Attempts \ {a}
  BY DEF Orderly, Age, CallInv, TypeInv, WellLinked
<1>5. UNCHANGED <<sess, sent>>
  BY DEF Age, requests
<1>6. ActiveWhileOpen' /\ OneActive'
  BY <1>2, <1>3 DEF CallInv, ActiveWhileOpen, OneActive, Open
<1>7. OwnCalls' /\ OneCaller'
  BY <1>3, <1>4, <1>5 DEF CallInv, OwnCalls, OneCaller
<1>8. Unsent' /\ NoResend'
  BY <1>2, <1>3, <1>5 DEF CallInv, Unsent, NoResend
<1> QED BY <1>6, <1>7, <1>8 DEF CallInv

\* An attempt is reconciled under nobody's call.
LEMMA CallReconcile ==
    ASSUME CallInv, TypeInv', NEW a \in Attempts,
           ReconcilePublished(a) \/ ReconcileNotPublished(a)
    PROVE  CallInv'
<1>1. attempt \in [Attempts -> Attempt]
  BY DEF CallInv, TypeInv, TypeOK
<1>2. /\ attempt[a].phase \in InterruptedPhases \cup {"uncertain"}
      /\ attempt[a].phase = "uncertain" \/ attempt[a].aged
  BY DEF ReconcilePublished, ReconcileNotPublished, Reconcilable
<1>3. \A t \in Sessions : sess[t].pc # "idle" => sess[t].att # a
  BY <1>2 DEF CallInv, OwnCalls, CallPhase, TypeInv, TypeOK, Session
<1>4. \E row \in Rows(a) : /\ attempt' = Put(a, row)
                           /\ ~row.active
                           /\ row.phase \in {"completed", "failed"}
  <2>1. ASSUME NEW phase \in {"completed", "failed"}
        PROVE  /\ Shut(a, phase) \in Rows(a)
               /\ Shut(a, phase).phase = phase
               /\ Shut(a, phase).active = FALSE
    <3>1. phase \in Phases /\ phase # "absent"
      BY PhaseNames
    <3> QED BY <1>1, <3>1, RowsOf, RowFields
  <2>2. CASE ReconcilePublished(a)
    <3>1. Shut(a, "completed") \in Attempt
      BY <2>1 DEF Rows
    <3>2. SameState([Shut(a, "completed") EXCEPT !.media = TRUE], Shut(a, "completed"))
      BY <3>1, RowMore
    <3>3. [Shut(a, "completed") EXCEPT !.media = TRUE] \in Rows(a)
      BY <2>1, RowsMore
    <3> QED BY <2>1, <2>2, <3>2, <3>3 DEF ReconcilePublished, SameState
  <2>3. CASE ReconcileNotPublished(a)
    BY <2>1, <2>3 DEF ReconcileNotPublished, Close
  <2> QED BY <2>2, <2>3
<1>5. UNCHANGED <<sess, sent>>
  BY DEF ReconcilePublished, ReconcileNotPublished, requests
<1>6. \A b \in Attempts \ {a} : attempt'[b] = attempt[b]
  BY <1>1, <1>4 DEF Put
<1>7. /\ attempt'[a].job = attempt[a].job
      /\ attempt'[a].active = FALSE
      /\ attempt'[a].phase \in {"completed", "failed"}
  BY <1>1, <1>4 DEF Put, Rows, Attempt
<1>8. {a} \in SUBSET Attempts
  OBVIOUS
<1> QED BY <1>3, <1>5, <1>6, <1>7, <1>8, CallSwept DEF Closed, BeforeSending

LEMMA CallDisconnect ==
    ASSUME Orderly, CallInv, TypeInv', Disconnect
    PROVE  CallInv'
<1> DEFINE swept == {a \in Attempts : Open(a) /\ attempt[a].phase # "uncertain"}
<1>1. \A a \in swept : \A t \in Sessions : sess[t].pc # "idle" => sess[t].att # a
  BY DEF Orderly, Disconnect, CallInv, OwnCalls, CallPhase, TypeInv, WellLinked, TypeOK,
     Session, InterruptedPhases
<1>2. attempt \in [Attempts -> Attempt]
  BY DEF CallInv, TypeInv, TypeOK
<1>3. \A a \in Attempts : /\ Shut(a, "failed").phase = "failed"
                          /\ Shut(a, "failed").job = attempt[a].job
                          /\ Shut(a, "failed").active = FALSE
  BY <1>2, SweptRows
<1>4. \A a \in Attempts : attempt'[a] = IF a \in swept THEN Shut(a, "failed") ELSE attempt[a]
  BY DEF Disconnect
<1>5. UNCHANGED <<sess, sent>>
  BY DEF Disconnect, requests
<1>6. swept \in SUBSET Attempts
  OBVIOUS
<1> HIDE DEF swept
<1>7. /\ \A a \in Attempts \ swept : attempt'[a] = attempt[a]
      /\ \A a \in swept : /\ attempt'[a].job = attempt[a].job
                          /\ attempt'[a].active = FALSE
                          /\ attempt'[a].phase = "failed"
  BY <1>3, <1>4, <1>6
<1>8. \A a \in swept : attempt'[a].active = (attempt'[a].phase \notin Closed)
  BY <1>7 DEF Closed
<1>9. \A a \in swept : attempt'[a].phase \notin BeforeSending
  BY <1>7 DEF BeforeSending
<1> QED BY <1>1, <1>5, <1>6, <1>7, <1>8, <1>9, CallSwept

\* Everything else leaves attempts, sessions and requests sent alone.
LEMMA CallFrame ==
    ASSUME CallInv, TypeInv', UNCHANGED <<attempt, sent>>,
           UNCHANGED sess \/ \E s \in Sessions : Leave(s)
    PROVE  CallInv'
<1>1. CASE UNCHANGED sess
  BY <1>1 DEF CallInv, ActiveWhileOpen, OneActive, OwnCalls, OneCaller, Unsent, NoResend, Open
<1> QED BY <1>1, CallLeft

LEMMA CallNext == Orderly /\ CallInv /\ [Next]_vars => CallInv'
<1> SUFFICES ASSUME Orderly, CallInv, [Next]_vars PROVE CallInv'
  OBVIOUS
<1>1. TypeInv'
  BY TypeNext DEF CallInv
<1>2. ASSUME NEW s \in Sessions, SessionNext(s) PROVE CallInv'
  BY <1>1, <1>2, CallCreate, CallBegin, CallContinue DEF SessionNext
<1>3. ASSUME NEW w \in Workers, WorkerNext(w) PROVE CallInv'
  <2>1. w \in Sessions
    BY DEF Sessions
  <2>2. CASE ListDue(w)
    BY <1>1, <2>1, <2>2, CallFrame DEF ListDue, db, requests
  <2> QED BY <1>1, <1>3, <2>1, <2>2, CallMark, CallBegin DEF WorkerNext
<1>4. ASSUME NEW a \in Attempts, Age(a) PROVE CallInv'
  BY <1>1, <1>4, CallAge
<1>5. CASE MetaNext
  BY <1>1, <1>5, CallFrame DEF MetaNext, MetaPublishes, MetaDrops, db
<1>6. CASE ReconcileNext
  BY <1>1, <1>6, CallReconcile DEF ReconcileNext
<1>7. CASE DashboardNext
  <2>1. CASE Disconnect
    BY <1>1, <2>1, CallDisconnect
  <2>2. Disconnect \/ UNCHANGED <<attempt, sess, sent>>
    BY <1>7 DEF DashboardNext, Approve, BeginEdit, CommitEdit, BeginCancel, CommitCancel,
       SetStop, SetPage, db, requests
  <2> QED BY <1>1, <2>1, <2>2, CallFrame
<1>8. CASE UNCHANGED vars
  BY <1>1, <1>8, CallFrame DEF vars
<1> QED BY <1>2, <1>3, <1>4, <1>5, <1>6, <1>7, <1>8 DEF Next

LEMMA CallInit == Init => CallInv
<1> SUFFICES ASSUME Init PROVE CallInv
  OBVIOUS
<1>1. TypeInv
  BY TypeInit
<1>2. \A a \in Attempts : /\ attempt[a].active = FALSE
                          /\ attempt[a].phase = "absent"
                          /\ sent[a] = 0
  BY DEF Init, NoAttempt
<1>3. \A s \in Sessions : sess[s].pc = "idle"
  BY DEF Init, Idle
<1>4. ActiveWhileOpen /\ OneActive
  BY <1>2 DEF ActiveWhileOpen, OneActive, Open, Closed
<1>5. OwnCalls /\ OneCaller /\ Unsent /\ NoResend
  BY <1>2, <1>3 DEF OwnCalls, OneCaller, Unsent, NoResend
<1> QED BY <1>1, <1>4, <1>5 DEF CallInv

LEMMA CallInvariant == ASSUME Orderly PROVE Spec => []CallInv
BY CallInit, CallNext, PTL DEF Spec

\* However many workers and administrators interleave, crash and lose answers,
\* at most one attempt of a job is open.
THEOREM AtMostOneOpen == ASSUME Orderly PROVE Spec => []OneOpenAttempt
<1>1. CallInv => OneOpenAttempt
  BY DEF CallInv, ActiveWhileOpen, OneActive, OneOpenAttempt
<1> QED BY <1>1, CallInvariant, PTL

\* No attempt is closed under a running call.
THEOREM CallsStayOpen == ASSUME Orderly PROVE Spec => []CallsOwnOpenAttempts
<1>1. CallInv => CallsOwnOpenAttempts
  BY DEF CallInv, OwnCalls, CallPhase, CallsOwnOpenAttempts, TypeInv, TypeOK, Session, Open,
     Closed
<1> QED BY <1>1, CallInvariant, PTL

\* media_publish is sent at most once for an attempt.
THEOREM SentOnce == ASSUME Orderly PROVE Spec => []NoResend
<1>1. CallInv => NoResend
  BY DEF CallInv
<1> QED BY <1>1, CallInvariant, PTL

\* No worker is about to send a request that was sent before.
THEOREM WorkersNeverResend == ASSUME Orderly PROVE Spec => []NeverResentByWorker
<1>1. CallInv => NeverResentByWorker
  BY DEF CallInv, Unsent, NeverResentByWorker, Sessions
<1> QED BY <1>1, CallInvariant, PTL

\* A job's attempts follow one another, and a call keeps the attempt it is for.
THEOREM AttemptsExclusive == ASSUME Orderly PROVE Spec => []OneAttemptAtATime
BY AtMostOneOpen, CallsStayOpen, PTL DEF OneAttemptAtATime

\* No sequence of buttons, cycles and crashes repeats a request.
THEOREM RequestsNotRepeated == ASSUME Orderly PROVE Spec => []SentAtMostOnce
BY SentOnce, WorkersNeverResend, PTL DEF SentAtMostOnce
-----------------------------------------------------------------------------
(* What is on Instagram, and what the rows say of it.                      *)

\* ... and every answer names its medium.
Plain == Orderly /\ "garbled" \notin Perils

\* Phases that carry the content the container was asked for.
Carrying == {"creating_container", "waiting_for_container", "ready_to_publish"}

\* A request was counted when it was sent, and is decided once.
Counted == \A r \in wire \cup live : r[2] <= sent[r[1]]
Apart   == wire \cap live = {}
Awaited == \A s \in Sessions : sess[s].pc = "awaiting" => sess[s].req = 1

\* Where the attempt of an undecided request is, and that of a medium.
OnTheWay == \A r \in wire : attempt[r[1]].phase \in {"publishing", "uncertain"}
Arrived ==
    \A r \in live :
        \/ attempt[r[1]].phase \in {"publishing", "uncertain"}
        \/ attempt[r[1]].phase \in {"reconciling", "completed"} /\ job[attempt[r[1]].job].platform

\* A job with its platform id has nothing left that a new attempt could build on ...
NotReleased(k) == k.status \in {"published", "cancelled"} \/ k.approval = "open"
Settled == \A j \in Jobs : job[j].platform => NotReleased(job[j])

\* ... and no attempt that could still send.
Unsettled ==
    \A a \in Attempts :
        Open(a) /\ attempt[a].phase # "reconciling" => ~job[attempt[a].job].platform

\* The container's content is the approval its job still has.
Carried ==
    /\ \A a \in Attempts : attempt[a].phase \in Carrying =>
           attempt[a].content = job[attempt[a].job].approved
    /\ \A s \in Sessions : sess[s].pc = "verifying" =>
           attempt[sess[s].att].content = job[attempt[sess[s].att].job].approved

LiveInv == CallInv /\ Counted /\ Apart /\ Awaited /\ OnTheWay /\ Arrived /\ Settled
           /\ Unsettled /\ SingleLive /\ Carried

\* A published job has its platform id, and a published post has them all.
PostInv == TypeInv /\ (\A j \in Jobs : job[j].status = "published" => job[j].platform)
           /\ PublishedPostComplete

-----------------------------------------------------------------------------
(* What a step does to an attempt, a job and a session.                    *)

\* A new attempt builds on a released job.
Begun(a) ==
    /\ attempt[a].phase = "absent"
    /\ attempt'[a].phase = "validating_public_media"
    /\ attempt'[a].job \in Jobs
    /\ Released(attempt'[a].job)
    /\ job'[attempt'[a].job].platform = job[attempt'[a].job].platform

\* Before the request an attempt moves on, is given up or becomes unclear, with
\* the content its session read.
Prepared(a) ==
    /\ attempt[a].phase \in BeforeSending \ {"absent"}
    /\ attempt'[a].phase \notin {"absent", "publishing", "reconciling"}
    /\ attempt'[a].job = attempt[a].job
    /\ attempt'[a].phase \in Carrying =>
           /\ attempt'[a].content = attempt[a].content
           /\ \/ attempt[a].phase \in Carrying
              \/ \E s \in Sessions : sess[s].pc = "verifying" /\ sess[s].att = a

\* It is sent from ready_to_publish alone, under a valid approval.
Started(a) ==
    /\ attempt[a].phase = "ready_to_publish"
    /\ attempt'[a].phase = "publishing"
    /\ attempt'[a].job = attempt[a].job
    /\ Released(attempt[a].job)

Requested(a) == \E r \in wire \cup live : r[1] = a

\* After the request: unclear; visible, with the platform id; or refused.
Decided(a) ==
    /\ attempt'[a].job = attempt[a].job
    /\ \/ attempt[a].phase = "publishing" /\ attempt'[a].phase = "uncertain"
       \/ /\ attempt[a].phase \in {"publishing", "uncertain"}
          /\ attempt'[a].phase \in {"reconciling", "completed"}
          /\ attempt[a].phase = "uncertain" => attempt'[a].phase = "completed"
          /\ Published(a)
          /\ job'[attempt[a].job].platform
       \/ /\ attempt[a].phase \in InterruptedPhases \cup {"uncertain"}
          /\ attempt'[a].phase = "failed"
          /\ ~Requested(a)
       \/ attempt[a].phase = "reconciling" /\ attempt'[a].phase = "completed"

Kept(a) == /\ attempt'[a].phase = attempt[a].phase
           /\ attempt'[a].job = attempt[a].job
           /\ attempt'[a].content = attempt[a].content

AttemptMoves(a) == Kept(a) \/ Begun(a) \/ Prepared(a) \/ Started(a) \/ Decided(a)

\* A job with its platform id is only cancelled or opened by an edit; a job gets
\* the id from its open attempt, and another approval when it has none.
JobMoves(j) ==
    /\ job[j].platform =>
           /\ job'[j].platform
           /\ job'[j] = job[j] \/ NotReleased(job'[j])
    /\ job'[j].platform /\ ~job[j].platform =>
           /\ job'[j].status = "published"
           /\ \E a \in Attempts : /\ attempt[a].job = j
                                  /\ attempt[a].phase \in {"publishing", "uncertain"}
                                  /\ attempt'[a].phase \in {"reconciling", "completed"}
    /\ \/ job'[j].approved = job[j].approved
       \/ \A a \in Attempts : attempt[a].job = j => ~Open(a)

\* A session that verifies works for an open attempt and read its content.
SessionMoves(s) ==
    /\ sess'[s].pc = "awaiting" => sess'[s] = sess[s] \/ sess'[s].req = 1
    /\ sess'[s].pc = "verifying" =>
           /\ sess'[s].att \in Attempts /\ Open(sess'[s].att)
           /\ attempt'[sess'[s].att].job = attempt[sess'[s].att].job
           /\ \/ /\ sess'[s] = sess[s]
                 /\ attempt'[sess[s].att].content = attempt[sess[s].att].content
              \/ attempt'[sess'[s].att].content = job[attempt[sess'[s].att].job].approved

RequestsMove ==
    \/ UNCHANGED requests
    \/ UNCHANGED <<attempt, job>> /\ (\E r \in wire : MetaPublishes(r) \/ MetaDrops(r))
    \/ \E a \in Attempts : /\ attempt[a].phase = "publishing" /\ UNCHANGED <<attempt, job>>
                           /\ sent[a] = 0 /\ sent' = [sent EXCEPT ![a] = 1]
                           /\ wire' = wire \cup {<<a, 1>>} /\ UNCHANGED live

Moves == /\ \A a \in Attempts : AttemptMoves(a)
         /\ \A j \in Jobs : JobMoves(j)
         /\ \A s \in Sessions : SessionMoves(s)
         /\ RequestsMove

\* An attempt has one request at most, its first.
LEMMA OneRequest ==
    ASSUME LiveInv
    PROVE  /\ \A r \in wire \cup live : /\ r[1] \in Attempts /\ r = <<r[1], 1>>
                                        /\ sent[r[1]] = 1
           /\ \A r, q \in wire \cup live : r[1] = q[1] => r = q
<1>1. ASSUME NEW r \in wire \cup live
      PROVE  r[1] \in Attempts /\ r = <<r[1], 1>> /\ sent[r[1]] = 1
  <2>1. r \in Request
    BY DEF LiveInv, CallInv, TypeInv, TypeOK
  <2>2. r[1] \in Attempts /\ r[2] \in 1..MaxSends /\ r = <<r[1], r[2]>>
    BY <2>1 DEF Request
  <2>3. sent[r[1]] \in Nat /\ sent[r[1]] <= 1 /\ r[2] <= sent[r[1]]
    BY <2>2, ConstantsAssumption DEF LiveInv, CallInv, TypeInv, TypeOK, NoResend, Counted
  <2>4. r[2] = 1 /\ sent[r[1]] = 1
    BY <2>2, <2>3, ConstantsAssumption
  <2> QED BY <2>2, <2>4
<1>2. ASSUME NEW r \in wire \cup live, NEW q \in wire \cup live, r[1] = q[1]
      PROVE  r = q
  BY <1>1, <1>2
<1> QED BY <1>1, <1>2

\* Two open attempts of one job are one.
LEMMA OpenAlone ==
    ASSUME CallInv, NEW a \in Attempts, NEW b \in Attempts, Open(a), Open(b),
           attempt[a].job = attempt[b].job
    PROVE  a = b
BY DEF CallInv, ActiveWhileOpen, OneActive

LEMMA LiveStep ==
    ASSUME LiveInv, CallInv', Moves
    PROVE  LiveInv'
<1>1. /\ wire \subseteq Request /\ live \subseteq Request
      /\ sent \in [Attempts -> 0..MaxSends]
  BY DEF LiveInv, CallInv, TypeInv, TypeOK
<1>2. /\ \A r \in wire \cup live : r[1] \in Attempts /\ r = <<r[1], 1>> /\ sent[r[1]] = 1
      /\ \A r, q \in wire \cup live : r[1] = q[1] => r = q
  BY OneRequest
<1>3. \A a \in Attempts : Requested(a) => attempt[a].phase \notin BeforeSending
  BY <1>2 DEF Requested, LiveInv, CallInv, Unsent
<1>4. Counted' /\ Apart'
  <2>1. CASE UNCHANGED requests
    BY <2>1 DEF LiveInv, Counted, Apart, requests
  <2>2. CASE \E r \in wire : MetaPublishes(r) \/ MetaDrops(r)
    BY <2>2 DEF LiveInv, Counted, Apart, MetaPublishes, MetaDrops
  <2>3. ASSUME NEW a \in Attempts, sent[a] = 0, sent' = [sent EXCEPT ![a] = 1],
               wire' = wire \cup {<<a, 1>>}, UNCHANGED live
        PROVE  Counted' /\ Apart'
    <3>1. \A r \in wire \cup live : sent'[r[1]] = sent[r[1]] /\ r[1] # a
      BY <1>1, <1>2, <2>3
    <3>2. <<a, 1>>[1] = a /\ <<a, 1>>[2] = 1 /\ sent'[a] = 1
      BY <1>1, <2>3
    <3> QED BY <2>3, <3>1, <3>2 DEF LiveInv, Counted, Apart
  <2> QED BY <2>1, <2>2, <2>3 DEF Moves, RequestsMove
<1>5. Awaited'
  BY DEF LiveInv, Awaited, Moves, SessionMoves
<1>6. ASSUME NEW r \in wire \cup live
      PROVE  /\ r[1] \in Attempts /\ attempt'[r[1]].job = attempt[r[1]].job
             /\ Kept(r[1]) \/ Decided(r[1])
  <2>1. r[1] \in Attempts /\ Requested(r[1])
    BY <1>2, <1>6 DEF Requested
  <2>2. Kept(r[1]) \/ Decided(r[1])
    BY <1>3, <2>1 DEF Moves, AttemptMoves, Begun, Prepared, Started, BeforeSending
  <2> QED BY <2>1, <2>2 DEF Kept, Decided
<1>7. ASSUME NEW a \in Attempts, NEW j \in Jobs, Open(a), attempt[a].job = j,
             attempt[a].phase # "reconciling", job'[j].platform
      PROVE  attempt'[a].phase \in {"reconciling", "completed"}
  <2>1. ~job[j].platform
    BY <1>7 DEF LiveInv, Unsettled
  <2>2. PICK b \in Attempts : /\ attempt[b].job = j
                              /\ attempt[b].phase \in {"publishing", "uncertain"}
                              /\ attempt'[b].phase \in {"reconciling", "completed"}
    BY <1>7, <2>1 DEF Moves, JobMoves
  <2>3. Open(b)
    BY <2>2 DEF Open, Closed
  <2>4. a = b
    BY <1>7, <2>2, <2>3, OpenAlone DEF LiveInv
  <2> QED BY <2>2, <2>4
<1>8. \A a \in Attempts : attempt[a].phase # "absent" => attempt[a].job \in Jobs
  BY DEF LiveInv, CallInv, TypeInv, WellLinked
<1>9. Settled'
  BY DEF LiveInv, Settled, Moves, JobMoves, NotReleased
<1>10. ASSUME NEW a \in Attempts, Open(a)', attempt'[a].phase # "reconciling"
       PROVE  ~job'[attempt'[a].job].platform
  <2>1. CASE Begun(a)
    BY <2>1 DEF Begun, Released, LiveInv, Settled, NotReleased
  <2>2. CASE ~Begun(a)
    <3>1. /\ Open(a) /\ attempt[a].phase # "reconciling" /\ attempt'[a].job = attempt[a].job
          /\ attempt[a].phase # "absent"
      BY <1>10, <2>2 DEF Moves, AttemptMoves, Kept, Prepared, Started, Decided, Open, Closed,
         BeforeSending, InterruptedPhases
    <3> QED BY <1>7, <1>8, <1>10, <3>1 DEF Open, Closed
  <2> QED BY <2>1, <2>2
<1>11. ASSUME NEW r \in live'
       PROVE  \/ attempt'[r[1]].phase \in {"publishing", "uncertain"}
              \/ /\ attempt'[r[1]].phase \in {"reconciling", "completed"}
                 /\ job'[attempt'[r[1]].job].platform
  <2>1. CASE r \in live
    <3>1. /\ r[1] \in Attempts /\ attempt'[r[1]].job = attempt[r[1]].job
          /\ Kept(r[1]) \/ Decided(r[1])
      BY <1>6, <2>1
    <3>2. Requested(r[1]) /\ attempt[r[1]].phase # "absent"
      BY <1>3, <2>1, <3>1 DEF Requested, BeforeSending
    <3>3. job[attempt[r[1]].job].platform => job'[attempt'[r[1]].job].platform
      BY <1>8, <3>1, <3>2 DEF Moves, JobMoves
    <3>4. \/ attempt[r[1]].phase \in {"publishing", "uncertain"}
          \/ /\ attempt[r[1]].phase \in {"reconciling", "completed"}
             /\ job[attempt[r[1]].job].platform
      BY <2>1 DEF LiveInv, Arrived
    <3> QED BY <3>1, <3>2, <3>3, <3>4 DEF Kept, Decided, InterruptedPhases
  <2>2. CASE r \notin live
    <3>1. r \in wire /\ UNCHANGED attempt
      BY <2>2 DEF Moves, RequestsMove, MetaPublishes, MetaDrops, requests
    <3> QED BY <3>1 DEF LiveInv, OnTheWay
  <2> QED BY <2>1, <2>2
<1>12. ASSUME NEW r \in wire'
       PROVE  attempt'[r[1]].phase \in {"publishing", "uncertain"}
  <2>1. CASE r \in wire
    <3>1. Kept(r[1]) \/ Decided(r[1])
      BY <1>6, <2>1
    <3>2. Requested(r[1]) /\ ~Published(r[1])
      BY <1>2, <2>1 DEF Requested, Published, LiveInv, Apart
    <3>3. attempt[r[1]].phase \in {"publishing", "uncertain"}
      BY <2>1 DEF LiveInv, OnTheWay
    <3> QED BY <3>1, <3>2, <3>3 DEF Kept, Decided
  <2>2. CASE r \notin wire
    <3>1. PICK a \in Attempts : /\ attempt[a].phase = "publishing" /\ UNCHANGED attempt
                                /\ wire' = wire \cup {<<a, 1>>}
      BY <2>2 DEF Moves, RequestsMove, MetaPublishes, MetaDrops, requests
    <3>2. r = <<a, 1>>
      BY <2>2, <3>1
    <3> QED BY <3>1, <3>2
  <2> QED BY <2>1, <2>2
<1>13. ASSUME NEW r \in live', NEW q \in live', attempt'[r[1]].job = attempt'[q[1]].job
       PROVE  r = q
  <2>1. CASE r \in live /\ q \in live
    BY <1>6, <1>13, <2>1 DEF LiveInv, SingleLive
  <2>2. ASSUME NEW x \in wire, NEW y \in live, UNCHANGED attempt,
               attempt[x[1]].job = attempt[y[1]].job
        PROVE  x = y
    <3>1. attempt[x[1]].phase \in {"publishing", "uncertain"} /\ x[1] \in Attempts
          /\ y[1] \in Attempts
      BY <1>2, <2>2 DEF LiveInv, OnTheWay
    <3>2. Open(x[1]) /\ ~job[attempt[x[1]].job].platform
      BY <3>1 DEF Open, Closed, LiveInv, Unsettled
    <3>3. attempt[y[1]].phase \in {"publishing", "uncertain"}
      BY <2>2, <3>2 DEF LiveInv, Arrived
    <3>4. Open(y[1])
      BY <3>3 DEF Open, Closed
    <3>5. x[1] = y[1]
      BY <2>2, <3>1, <3>2, <3>4, OpenAlone DEF LiveInv
    <3> QED BY <1>2, <2>2, <3>5
  <2>3. CASE ~(r \in live /\ q \in live)
    <3>1. PICK x \in wire : UNCHANGED attempt /\ live' = live \cup {x}
      BY <2>3 DEF Moves, RequestsMove, MetaPublishes, MetaDrops, requests
    <3> QED BY <1>13, <2>2, <2>3, <3>1
  <2> QED BY <2>1, <2>3
<1>14. ASSUME NEW a \in Attempts, Open(a), attempt[a].phase # "absent"
       PROVE  job'[attempt[a].job].approved = job[attempt[a].job].approved
  BY <1>8, <1>14 DEF Moves, JobMoves
<1>15. ASSUME NEW a \in Attempts, attempt'[a].phase \in Carrying
       PROVE  attempt'[a].content = job'[attempt'[a].job].approved
  <2>1. /\ attempt'[a].job = attempt[a].job /\ attempt'[a].content = attempt[a].content
        /\ Open(a) /\ attempt[a].phase # "absent"
        /\ \/ attempt[a].phase \in Carrying
           \/ \E s \in Sessions : sess[s].pc = "verifying" /\ sess[s].att = a
    BY <1>15 DEF Moves, AttemptMoves, Kept, Begun, Prepared, Started, Decided, Carrying,
       BeforeSending, Open, Closed
  <2>2. attempt[a].content = job[attempt[a].job].approved
    BY <2>1 DEF LiveInv, Carried
  <2> QED BY <1>14, <2>1, <2>2
<1>16. ASSUME NEW s \in Sessions, sess'[s].pc = "verifying"
       PROVE  attempt'[sess'[s].att].content = job'[attempt'[sess'[s].att].job].approved
  <2> DEFINE a == sess'[s].att
  <2>1. /\ a \in Attempts /\ Open(a) /\ attempt'[a].job = attempt[a].job
        /\ attempt'[a].content = job[attempt[a].job].approved
    BY <1>16 DEF Moves, SessionMoves, LiveInv, Carried
  <2> QED BY <1>14, <2>1 DEF Open, Closed
<1>17. OnTheWay' /\ Arrived' /\ SingleLive'
  BY <1>11, <1>12, <1>13 DEF OnTheWay, Arrived, SingleLive
<1>18. Unsettled' /\ Carried'
  BY <1>10, <1>15, <1>16 DEF Unsettled, Carried, Open
<1> QED BY <1>4, <1>5, <1>9, <1>17, <1>18 DEF LiveInv

\* One row is written: its phase and fields that are not its identity.
Rewrites(a, phase) ==
    /\ attempt'[a].phase = phase
    /\ attempt'[a].job = attempt[a].job
    /\ attempt'[a].content = attempt[a].content
    /\ \A b \in Attempts : b # a => attempt'[b] = attempt[b]

LEMMA RewriteForms ==
    ASSUME attempt \in [Attempts -> Attempt], NEW a \in Attempts, NEW phase \in Phases
    PROVE  /\ attempt' = Write(a, phase) => Rewrites(a, phase)
           /\ attempt' = Close(a, phase) => Rewrites(a, phase)
           /\ \A c : attempt' = Put(a, [In(a, phase) EXCEPT !.container = c]) => Rewrites(a, phase)
           /\ \A c : attempt' = Put(a, [Shut(a, phase) EXCEPT !.container = c]) => Rewrites(a, phase)
           /\ attempt' = Put(a, [In(a, phase) EXCEPT !.media = TRUE]) => Rewrites(a, phase)
           /\ attempt' = Put(a, [Shut(a, phase) EXCEPT !.media = TRUE]) => Rewrites(a, phase)
<1> DEFINE Row == {r \in Attempt : /\ r.phase = phase /\ r.job = attempt[a].job
                                   /\ r.content = attempt[a].content}
<1>1. ASSUME NEW row, row.phase = phase, row.job = attempt[a].job,
             row.content = attempt[a].content, attempt' = Put(a, row)
      PROVE  Rewrites(a, phase)
  BY <1>1 DEF Put, Rewrites
<1>2. In(a, phase) \in Row /\ Shut(a, phase) \in Row
  BY ZenonT(40) DEF In, Shut, Attempt
<1>3. ASSUME NEW row \in Row
      PROVE  /\ \A c : /\ [row EXCEPT !.container = c].phase = phase
                       /\ [row EXCEPT !.container = c].job = attempt[a].job
                       /\ [row EXCEPT !.container = c].content = attempt[a].content
             /\ [row EXCEPT !.media = TRUE].phase = phase
             /\ [row EXCEPT !.media = TRUE].job = attempt[a].job
             /\ [row EXCEPT !.media = TRUE].content = attempt[a].content
  BY <1>3 DEF Attempt
<1>4. /\ In(a, phase).phase = phase /\ Shut(a, phase).phase = phase
      /\ In(a, phase).job = attempt[a].job /\ Shut(a, phase).job = attempt[a].job
      /\ In(a, phase).content = attempt[a].content /\ Shut(a, phase).content = attempt[a].content
  BY <1>2
<1> HIDE DEF Row
<1> QED BY <1>1, <1>2, <1>3, <1>4 DEF Write, Close

LEMMA JobsKept == UNCHANGED job => \A j \in Jobs : JobMoves(j)
BY DEF JobMoves

\* The status of a job without platform id may be written.
LEMMA JobWritten ==
    ASSUME TypeInv, NEW j, ~job[j].platform, NEW status,
           job' = SetStatus(j, status) \/ UNCHANGED job
    PROVE  \A k \in Jobs : JobMoves(k)
<1>1. job \in [Jobs -> Job]
  BY DEF TypeInv, TypeOK
<1>2. CASE job' = SetStatus(j, status)
  <2> SUFFICES ASSUME NEW k \in Jobs PROVE JobMoves(k)
    OBVIOUS
  <2>1. CASE k # j
    BY <1>1, <1>2, <2>1 DEF SetStatus, JobMoves
  <2>2. CASE k = j
    <3> DEFINE row == [job[j] EXCEPT !.status = status]
    <3>1. row.platform = job[j].platform /\ row.approved = job[j].approved
      BY <1>1, <2>2 DEF Job
    <3>2. job'[j] = row
      BY <1>1, <1>2, <2>2 DEF SetStatus
    <3> HIDE DEF row
    <3> QED BY <2>2, <3>1, <3>2 DEF JobMoves
  <2> QED BY <2>1, <2>2
<1> QED BY <1>2, JobsKept

\* A job is published with its attempt.
LEMMA JobPublished ==
    ASSUME TypeInv, NEW a \in Attempts, attempt[a].phase \in {"publishing", "uncertain"},
           attempt'[a].phase \in {"reconciling", "completed"},
           job' = PublishedJob(attempt[a].job)
    PROVE  (\A k \in Jobs : JobMoves(k)) /\ job'[attempt[a].job].platform
<1> DEFINE j == attempt[a].job
           row == [job[j] EXCEPT !.status = "published", !.platform = TRUE]
<1>1. job \in [Jobs -> Job] /\ j \in Jobs
  BY DEF TypeInv, TypeOK, WellLinked
<1>2. row.status = "published" /\ row.platform /\ row.approved = job[j].approved
  BY <1>1 DEF Job
<1>3. job' = [job EXCEPT ![j] = row]
  BY <1>1 DEF PublishedJob
<1>4. \A k \in Jobs : job'[k] = IF k = j THEN row ELSE job[k]
  BY <1>1, <1>3
<1> HIDE DEF row
<1>5. ASSUME NEW k \in Jobs, k # j PROVE JobMoves(k)
  BY <1>4, <1>5 DEF JobMoves
<1>6. JobMoves(j)
  BY <1>1, <1>2, <1>4 DEF JobMoves, NotReleased
<1> QED BY <1>1, <1>2, <1>4, <1>5, <1>6

\* A session that is not the attempt's stays with its own.
LEMMA OtherSessions ==
    ASSUME CallInv, NEW t \in Sessions, sess'[t] = sess[t],
           sess[t].pc # "idle" => attempt'[sess[t].att] = attempt[sess[t].att]
    PROVE  SessionMoves(t)
<1>1. CASE sess[t].pc = "verifying"
  <2>1. sess[t].att \in Attempts /\ attempt[sess[t].att].phase = "validating_public_media"
    BY <1>1 DEF CallInv, TypeInv, WellLinked, OwnCalls, CallPhase
  <2>2. Open(sess[t].att)
    BY <2>1 DEF Open, Closed
  <2> QED BY <1>1, <2>1, <2>2 DEF SessionMoves
<1>2. CASE sess[t].pc # "verifying"
  BY <1>2 DEF SessionMoves
<1> QED BY <1>1, <1>2

\* A session's step that writes its attempt, but for its reading the content.
LEMMA Written ==
    ASSUME LiveInv, NEW s \in Sessions, NEW a \in Attempts, OnlyCaller(s, a),
           NEW phase, Rewrites(a, phase), AttemptMoves(a),
           NEW pc, pc \notin {"verifying", "awaiting"}, Enter(s, pc, a) \/ Leave(s),
           \A j \in Jobs : JobMoves(j), UNCHANGED requests
    PROVE  Moves
<1>1. sess \in [Sessions -> Session]
  BY DEF LiveInv, CallInv, TypeInv, TypeOK
<1>2. sess'[s].pc \notin {"verifying", "awaiting"}
      /\ \A t \in Sessions : t # s => sess'[t] = sess[t]
  BY <1>1 DEF Enter, Leave, Idle
<1>3. \A t \in Sessions : t # s /\ sess[t].pc # "idle" =>
          attempt'[sess[t].att] = attempt[sess[t].att]
  BY DEF OnlyCaller, Rewrites, LiveInv, CallInv, TypeInv, WellLinked
<1>4. SessionMoves(s)
  BY <1>2 DEF SessionMoves
<1>5. \A t \in Sessions : SessionMoves(t)
  BY <1>2, <1>3, <1>4, OtherSessions DEF LiveInv
<1>6. \A b \in Attempts : AttemptMoves(b)
  BY DEF Rewrites, AttemptMoves, Kept
<1> QED BY <1>5, <1>6 DEF Moves, RequestsMove

\* A step that writes no attempt and starts no session.
LEMMA Unwritten ==
    ASSUME LiveInv, UNCHANGED attempt,
           UNCHANGED sess \/ \E s \in Sessions : Leave(s),
           \A j \in Jobs : JobMoves(j), RequestsMove
    PROVE  Moves
<1>1. sess \in [Sessions -> Session]
  BY DEF LiveInv, CallInv, TypeInv, TypeOK
<1>2. \A t \in Sessions : sess'[t] = sess[t] \/ sess'[t].pc = "idle"
  BY <1>1 DEF Leave, Idle
<1>3. \A t \in Sessions : SessionMoves(t)
  <2> SUFFICES ASSUME NEW t \in Sessions PROVE SessionMoves(t)
    OBVIOUS
  <2>1. CASE sess'[t] = sess[t]
    BY <2>1, OtherSessions DEF LiveInv
  <2>2. CASE sess'[t].pc = "idle"
    BY <2>2 DEF SessionMoves
  <2> QED BY <1>2, <2>1, <2>2
<1> QED BY <1>3 DEF Moves, AttemptMoves, Kept

LEMMA MovesContinue ==
    ASSUME Plain, LiveInv, NEW s \in Sessions, Continue(s) \/ Abandon(s)
    PROVE  Moves
<1> DEFINE a == sess[s].att
<1>1. attempt \in [Attempts -> Attempt] /\ sess \in [Sessions -> Session] /\ TypeInv
  BY DEF LiveInv, CallInv, TypeInv, TypeOK
<1>2. sess[s].pc # "idle"
  BY DEF Continue, CreateVerified, CreateVerifyFailed, ContainerVerified, ContainerStopped,
     ContainerVerifyFailed, ContainerAnswer, ContainerCreated, ContainerUnclear,
     ContainerRefused, SendPublish, PublishAnswer, PublishConfirmed, PublishUnclear,
     PublishRefused, FinishDetails, Abandon
<1>3. a \in Attempts /\ attempt[a].phase # "absent"
  BY <1>2 DEF LiveInv, CallInv, TypeInv, WellLinked
<1>4. OnlyCaller(s, a)
  BY <1>2 DEF LiveInv, CallInv, OneCaller, OnlyCaller
<1>5. CallPhase(sess[s].pc, attempt[a].phase)
  BY <1>2 DEF LiveInv, CallInv, OwnCalls
<1>6. attempt[a].phase \in InterruptedPhases => ~job[attempt[a].job].platform
  BY <1>3 DEF LiveInv, Unsettled, Open, Closed, InterruptedPhases
<1>7. CASE CreateVerified(s)
  <2>1. attempt[a].phase = "validating_public_media"
    BY <1>7, <1>5 DEF CreateVerified, CallPhase
  <2>2. PICK phase \in {"completed", "creating_media_grant"} : Rewrites(a, phase)
    BY <1>7, <1>1, <1>3, RewriteForms, PhaseNames DEF CreateVerified, Write, Close
  <2>3. AttemptMoves(a)
    BY <2>1, <2>2 DEF Rewrites, AttemptMoves, Prepared, BeforeSending, Carrying
  <2>4. \A j \in Jobs : JobMoves(j)
    BY <1>7, <1>1, <1>6, <2>1, JobsKept DEF CreateVerified, InterruptedPhases
  <2>5. (Enter(s, "idle", a) \/ Leave(s)) /\ UNCHANGED requests
    BY <1>7 DEF CreateVerified
  <2> HIDE DEF a
  <2> QED BY <1>3, <1>4, <2>2, <2>3, <2>4, <2>5, Written
<1>8. CASE CreateVerifyFailed(s)
  <2>1. attempt[a].phase = "validating_public_media"
    BY <1>8, <1>5 DEF CreateVerifyFailed, CallPhase
  <2>2. PICK phase \in {"failed"} : Rewrites(a, phase)
    BY <1>8, <1>1, <1>3, RewriteForms, PhaseNames DEF CreateVerifyFailed
  <2>3. AttemptMoves(a)
    BY <2>1, <2>2 DEF Rewrites, AttemptMoves, Prepared, BeforeSending, Carrying
  <2>4. \A j \in Jobs : JobMoves(j)
    BY <1>8, <1>1, <1>6, <2>1, JobWritten DEF CreateVerifyFailed, InterruptedPhases, FailedFor
  <2>5. (Leave(s)) /\ UNCHANGED requests
    BY <1>8 DEF CreateVerifyFailed
  <2> HIDE DEF a
  <2> QED BY <1>3, <1>4, <2>2, <2>3, <2>4, <2>5, Written
<1>9. CASE ContainerVerified(s)
  <2>1. attempt[a].phase = "validating_public_media" /\ sess[s].pc = "verifying"
    BY <1>9, <1>5 DEF ContainerVerified, CallPhase
  <2>2. Rewrites(a, "creating_container")
    BY <1>9, <1>1, <1>3, RewriteForms, PhaseNames DEF ContainerVerified
  <2>3. AttemptMoves(a)
    BY <2>1, <2>2 DEF Rewrites, AttemptMoves, Prepared, BeforeSending, Carrying
  <2>4. \A j \in Jobs : JobMoves(j)
    BY <1>9, JobsKept DEF ContainerVerified
  <2>5. Enter(s, "container", a) /\ UNCHANGED requests
    BY <1>9 DEF ContainerVerified
  <2> HIDE DEF a
  <2> QED BY <1>3, <1>4, <2>2, <2>3, <2>4, <2>5, Written
<1>10. CASE ContainerStopped(s) \/ Abandon(s)
  <2>1. Leave(s) /\ UNCHANGED <<attempt, job, requests>>
    BY <1>10 DEF ContainerStopped, Abandon, db
  <2> QED BY <2>1, JobsKept, Unwritten DEF RequestsMove
<1>11. CASE ContainerVerifyFailed(s)
  <2>1. attempt[a].phase = "validating_public_media"
    BY <1>11, <1>5 DEF ContainerVerifyFailed, CallPhase
  <2>2. PICK phase \in {"failed"} : Rewrites(a, phase)
    BY <1>11, <1>1, <1>3, RewriteForms, PhaseNames DEF ContainerVerifyFailed
  <2>3. AttemptMoves(a)
    BY <2>1, <2>2 DEF Rewrites, AttemptMoves, Prepared, BeforeSending, Carrying
  <2>4. \A j \in Jobs : JobMoves(j)
    BY <1>11, <1>1, <1>6, <2>1, JobWritten DEF ContainerVerifyFailed, InterruptedPhases, FailedFor
  <2>5. (Leave(s)) /\ UNCHANGED requests
    BY <1>11 DEF ContainerVerifyFailed
  <2> HIDE DEF a
  <2> QED BY <1>3, <1>4, <2>2, <2>3, <2>4, <2>5, Written
<1>12. CASE ContainerCreated(s)
  <2>1. attempt[a].phase = "creating_container"
    BY <1>12, <1>5 DEF ContainerCreated, CallPhase
  <2>2. Leave(s) /\ UNCHANGED <<job, requests>>
    BY <1>12 DEF ContainerCreated
  <2>3. CASE UNCHANGED attempt
    BY <2>2, <2>3, JobsKept, Unwritten DEF RequestsMove
  <2>4. CASE ~UNCHANGED attempt
    <3>1. Rewrites(a, "waiting_for_container")
      BY <1>12, <2>4, <1>1, <1>3, RewriteForms, PhaseNames DEF ContainerCreated
    <3>2. AttemptMoves(a)
      BY <2>1, <3>1 DEF Rewrites, AttemptMoves, Prepared, BeforeSending, Carrying
    <3> HIDE DEF a
    <3> QED BY <1>3, <1>4, <2>2, <3>1, <3>2, JobsKept, Written
  <2> QED BY <2>3, <2>4
<1>13. CASE ContainerUnclear(s)
  <2>1. attempt[a].phase = "creating_container"
    BY <1>13, <1>5 DEF ContainerUnclear, CallPhase
  <2>2. PICK phase \in {"uncertain"} : Rewrites(a, phase)
    BY <1>13, <1>1, <1>3, RewriteForms, PhaseNames DEF ContainerUnclear
  <2>3. AttemptMoves(a)
    BY <2>1, <2>2 DEF Rewrites, AttemptMoves, Prepared, BeforeSending, Carrying
  <2>4. \A j \in Jobs : JobMoves(j)
    BY <1>13, <1>1, <1>6, <2>1, JobWritten DEF ContainerUnclear, InterruptedPhases, FailedFor
  <2>5. (Leave(s)) /\ UNCHANGED requests
    BY <1>13 DEF ContainerUnclear
  <2> HIDE DEF a
  <2> QED BY <1>3, <1>4, <2>2, <2>3, <2>4, <2>5, Written
<1>14. CASE ContainerRefused(s)
  <2>1. attempt[a].phase = "creating_container"
    BY <1>14, <1>5 DEF ContainerRefused, CallPhase
  <2>2. PICK phase \in {"failed"} : Rewrites(a, phase)
    BY <1>14, <1>1, <1>3, RewriteForms, PhaseNames DEF ContainerRefused
  <2>3. AttemptMoves(a)
    BY <2>1, <2>2 DEF Rewrites, AttemptMoves, Prepared, BeforeSending, Carrying
  <2>4. \A j \in Jobs : JobMoves(j)
    BY <1>14, <1>1, <1>6, <2>1, JobWritten DEF ContainerRefused, InterruptedPhases, FailedFor
  <2>5. (Leave(s)) /\ UNCHANGED requests
    BY <1>14 DEF ContainerRefused
  <2> HIDE DEF a
  <2> QED BY <1>3, <1>4, <2>2, <2>3, <2>4, <2>5, Written
<1>15. CASE SendPublish(s)
  <2>1. sess[s].pc = "publishing" /\ sent[a] = 0 /\ attempt[a].phase = "publishing"
    BY <1>15, <1>3, <1>5 DEF SendPublish, LiveInv, CallInv, Unsent, CallPhase
  <2>2. /\ UNCHANGED <<attempt, job, live>> /\ sent' = [sent EXCEPT ![a] = 1]
        /\ wire' = wire \cup {<<a, 1>>}
        /\ sess' = [sess EXCEPT ![s] = [pc |-> "awaiting", att |-> a, req |-> 1]]
    BY <1>15, <2>1 DEF SendPublish, db
  <2>3. RequestsMove
    BY <1>3, <2>1, <2>2 DEF RequestsMove
  <2>4. ASSUME NEW t \in Sessions PROVE SessionMoves(t)
    <3>1. CASE t = s
      BY <1>1, <2>2, <3>1 DEF SessionMoves
    <3>2. CASE t # s
      BY <1>1, <2>2, <3>2, OtherSessions DEF LiveInv
    <3> QED BY <3>1, <3>2
  <2> QED BY <2>2, <2>3, <2>4, JobsKept DEF Moves, AttemptMoves, Kept
<1>16. CASE PublishConfirmed(s)
  <2>1. attempt[a].phase = "publishing" /\ <<a, sess[s].req>> \in live
    BY <1>16, <1>5 DEF PublishConfirmed, CallPhase
  <2>2. UNCHANGED requests
    BY <1>16 DEF PublishConfirmed
  <2>3. CASE attempt[a].media
    BY <1>16, <2>2, <2>3, JobsKept, Unwritten DEF PublishConfirmed, RequestsMove
  <2>4. CASE ~attempt[a].media
    <3>1. Rewrites(a, "reconciling") /\ Enter(s, "details", a)
      BY <1>16, <2>4, <1>1, <1>3, RewriteForms, PhaseNames DEF PublishConfirmed
    <3>2. (\A k \in Jobs : JobMoves(k)) /\ job'[attempt[a].job].platform
      BY <1>16, <1>1, <1>3, <2>1, <2>4, <3>1, JobPublished DEF PublishConfirmed, Rewrites
    <3>3. Published(a)
      BY <2>1 DEF Published
    <3>4. AttemptMoves(a)
      BY <2>1, <3>1, <3>2, <3>3 DEF Rewrites, AttemptMoves, Decided
    <3> HIDE DEF a
    <3> QED BY <1>3, <1>4, <2>2, <3>1, <3>2, <3>4, Written
  <2> QED BY <2>3, <2>4
<1>17. CASE PublishUnclear(s)
  <2>1. attempt[a].phase = "publishing"
    BY <1>17, <1>5 DEF PublishUnclear, CallPhase
  <2>2. Rewrites(a, "uncertain")
    BY <1>17, <1>1, <1>3, RewriteForms, PhaseNames DEF PublishUnclear
  <2>3. AttemptMoves(a)
    BY <2>1, <2>2 DEF Rewrites, AttemptMoves, Decided
  <2>4. \A j \in Jobs : JobMoves(j)
    BY <1>17, <1>1, <1>6, <2>1, JobWritten DEF PublishUnclear, InterruptedPhases
  <2>5. Leave(s) /\ UNCHANGED requests
    BY <1>17 DEF PublishUnclear
  <2> HIDE DEF a
  <2> QED BY <1>3, <1>4, <2>2, <2>3, <2>4, <2>5, Written
<1>18. CASE PublishRefused(s)
  <2>1. /\ attempt[a].phase = "publishing" /\ sess[s].req = 1
        /\ <<a, 1>> \notin wire \cup live
    BY <1>18, <1>5 DEF PublishRefused, CallPhase, LiveInv, Awaited, Plain
  <2>2. Rewrites(a, "failed")
    BY <1>18, <1>1, <1>3, RewriteForms, PhaseNames DEF PublishRefused
  <2>3. ~Requested(a)
    BY <2>1, OneRequest DEF Requested
  <2>4. AttemptMoves(a)
    BY <2>1, <2>2, <2>3 DEF Rewrites, AttemptMoves, Decided, InterruptedPhases
  <2>5. \A j \in Jobs : JobMoves(j)
    BY <1>18, <1>1, <1>6, <2>1, JobWritten DEF PublishRefused, InterruptedPhases
  <2>6. Leave(s) /\ UNCHANGED requests
    BY <1>18 DEF PublishRefused
  <2> HIDE DEF a
  <2> QED BY <1>3, <1>4, <2>2, <2>4, <2>5, <2>6, Written
<1>19. CASE FinishDetails(s)
  <2>1. attempt[a].phase = "reconciling"
    BY <1>19, <1>5 DEF FinishDetails, CallPhase
  <2>2. Rewrites(a, "completed")
    BY <1>19, <1>1, <1>3, RewriteForms, PhaseNames DEF FinishDetails
  <2>3. AttemptMoves(a)
    BY <2>1, <2>2 DEF Rewrites, AttemptMoves, Decided
  <2>4. Leave(s) /\ UNCHANGED <<job, requests>>
    BY <1>19 DEF FinishDetails
  <2> HIDE DEF a
  <2> QED BY <1>3, <1>4, <2>2, <2>3, <2>4, JobsKept, Written
<1> QED BY <1>7, <1>8, <1>9, <1>10, <1>11, <1>12, <1>13, <1>14, <1>15, <1>16, <1>17, <1>18, <1>19 DEF Continue, ContainerAnswer, PublishAnswer

LEMMA MovesBegin ==
    ASSUME Plain, LiveInv, NEW s \in Sessions, NEW a \in Attempts,
           StartContainer(s, a) \/ Refresh(s, a) \/ StartPublish(s, a)
           \/ (s \in Workers /\ PollFailed(s, a))
    PROVE  Moves
<1>1. attempt \in [Attempts -> Attempt] /\ sess \in [Sessions -> Session] /\ TypeInv
  BY DEF LiveInv, CallInv, TypeInv, TypeOK
<1>2. /\ sess[s].pc = "idle"
      /\ attempt[a].phase \in {"creating_media_grant", "waiting_for_container",
                               "ready_to_publish"}
  BY DEF Plain, Orderly, StartContainer, Refresh, RefreshPending, RefreshFinished, RefreshError,
     PollFailed, Refreshable, Pollable, StartPublish, ReadyToPublish
<1>3. OnlyCaller(s, a)
  BY <1>2 DEF LiveInv, CallInv, OwnCalls, CallPhase, OnlyCaller, TypeInv, TypeOK, Session
<1>4. ~job[attempt[a].job].platform /\ attempt[a].phase \in Phases
  BY <1>2, PhaseNames DEF LiveInv, Unsettled, Open, Closed
<1>5. CASE StartContainer(s, a)
  <2> DEFINE row == In(a, "validating_public_media")
             next == [row EXCEPT !.content = job[attempt[a].job].approved]
  <2>1. row \in Attempt /\ row.phase = "validating_public_media" /\ row.job = attempt[a].job
    BY <1>1, RowFields, PhaseNames
  <2>2. /\ next.phase = "validating_public_media" /\ next.job = attempt[a].job
        /\ next.content = job[attempt[a].job].approved
    <3> HIDE DEF row
    <3> QED BY <2>1 DEF Attempt
  <2>3. attempt' = Put(a, next) /\ Enter(s, "verifying", a) /\ UNCHANGED <<job, requests>>
    BY <1>5 DEF StartContainer
  <2> HIDE DEF next
  <2>4. attempt'[a] = next /\ \A b \in Attempts : b # a => attempt'[b] = attempt[b]
    BY <1>1, <2>3 DEF Put
  <2>5. /\ sess'[s].pc = "verifying" /\ sess'[s].att = a
        /\ \A t \in Sessions : t # s => sess'[t] = sess[t]
    BY <1>1, <2>3 DEF Enter
  <2>6. AttemptMoves(a)
    BY <1>2, <2>2, <2>4 DEF AttemptMoves, Prepared, BeforeSending, Carrying
  <2>7. Open(a)
    BY <1>2 DEF Open, Closed
  <2>8. SessionMoves(s)
    BY <2>2, <2>4, <2>5, <2>7 DEF SessionMoves
  <2>9. ASSUME NEW t \in Sessions, t # s PROVE SessionMoves(t)
    <3>1. sess[t].pc # "idle" => attempt'[sess[t].att] = attempt[sess[t].att]
      BY <1>3, <2>4, <2>9 DEF OnlyCaller, LiveInv, CallInv, TypeInv, WellLinked
    <3> QED BY <2>5, <2>9, <3>1, OtherSessions DEF LiveInv
  <2>10. \A b \in Attempts : AttemptMoves(b)
    BY <2>4, <2>6 DEF AttemptMoves, Kept
  <2> QED BY <2>3, <2>8, <2>9, <2>10, JobsKept DEF Moves, RequestsMove
<1>6. CASE Refresh(s, a) \/ PollFailed(s, a)
  <2>1. PICK phase \in {attempt[a].phase, "ready_to_publish", "completed", "failed"} :
            Rewrites(a, phase)
    <3>1. CASE RefreshPending(s, a)
      BY <1>1, <1>4, <3>1, RewriteForms DEF RefreshPending
    <3>2. CASE RefreshFinished(s, a)
      BY <1>1, <3>2, RewriteForms, PhaseNames DEF RefreshFinished
    <3>3. CASE RefreshError(s, a) \/ PollFailed(s, a)
      BY <1>1, <3>3, RewriteForms, PhaseNames DEF RefreshError, PollFailed
    <3> QED BY <1>6, <3>1, <3>2, <3>3 DEF Refresh
  <2>2. attempt[a].phase \in {"waiting_for_container", "ready_to_publish"}
    BY <1>6, <1>2 DEF Plain, Orderly, Refresh, RefreshPending, RefreshFinished, RefreshError,
       PollFailed, Refreshable, Pollable
  <2>3. AttemptMoves(a)
    BY <2>1, <2>2 DEF Rewrites, AttemptMoves, Prepared, BeforeSending, Carrying
  <2>4. \A j \in Jobs : JobMoves(j)
    BY <1>1, <1>4, <1>6, JobWritten, JobsKept
    DEF Refresh, RefreshPending, RefreshFinished, RefreshError, PollFailed
  <2>5. Leave(s) /\ UNCHANGED requests
    BY <1>6 DEF Refresh, RefreshPending, RefreshFinished, RefreshError, PollFailed
  <2>6. Leave(s) \/ Enter(s, "idle", a)
    BY <2>5
  <2> QED BY <1>3, <2>1, <2>3, <2>4, <2>5, <2>6, Written
<1>7. CASE StartPublish(s, a)
  <2>1. Rewrites(a, "publishing")
    BY <1>1, <1>7, RewriteForms, PhaseNames DEF StartPublish
  <2>2. attempt[a].phase = "ready_to_publish" /\ Released(attempt[a].job)
    BY <1>7 DEF StartPublish, ReadyToPublish, Admitted, GatesPass
  <2>3. AttemptMoves(a)
    BY <2>1, <2>2 DEF Rewrites, AttemptMoves, Started
  <2>4. Enter(s, "publishing", a) /\ UNCHANGED <<job, requests>>
    BY <1>7 DEF StartPublish
  <2> QED BY <1>3, <2>1, <2>3, <2>4, JobsKept, Written
<1> QED BY <1>5, <1>6, <1>7

LEMMA MovesCreate ==
    ASSUME LiveInv, NEW s \in Sessions, NEW j \in Jobs, NEW a \in Attempts,
           NEW stage \in AllStages, CreateAttempt(s, j, a, stage)
    PROVE  Moves
<1>1. /\ attempt \in [Attempts -> Attempt] /\ job \in [Jobs -> Job]
      /\ sess \in [Sessions -> Session]
  BY DEF LiveInv, CallInv, TypeInv, TypeOK
<1> DEFINE row == [NoAttempt EXCEPT
               !.job = j, !.phase = "validating_public_media", !.active = TRUE, !.stage = stage,
               !.trigger = IF s \in Workers THEN "automatic" ELSE "manual"]
<1>2. row.job = j /\ row.phase = "validating_public_media"
  BY DEF NoAttempt
<1>3. /\ attempt' = Put(a, row) /\ Enter(s, "creating", a) /\ UNCHANGED requests
      /\ attempt[a].phase = "absent" /\ Released(j) /\ sess[s].pc = "idle"
  BY DEF CreateAttempt, GatesPass
<1> HIDE DEF row
<1>4. attempt'[a] = row /\ \A b \in Attempts : b # a => attempt'[b] = attempt[b]
  BY <1>1, <1>3 DEF Put
<1>5. ~job[j].platform
  BY <1>3 DEF Released, LiveInv, Settled, NotReleased
<1>6. \A k \in Jobs : job'[k].platform = job[k].platform /\ job'[k].approved = job[k].approved
                      /\ (k # j => job'[k] = job[k])
  <2>1. UNCHANGED job
        \/ job' = [job EXCEPT ![j].status = "publishing", ![j].attempts = @ + 1]
    BY DEF CreateAttempt
  <2> QED BY <1>1, <2>1 DEF Job
<1>7. \A k \in Jobs : JobMoves(k)
  BY <1>5, <1>6 DEF JobMoves
<1>8. \A b \in Attempts : AttemptMoves(b)
  BY <1>2, <1>3, <1>4, <1>6 DEF AttemptMoves, Kept, Begun
<1>9. ASSUME NEW t \in Sessions PROVE SessionMoves(t)
  <2>1. CASE t = s
    BY <1>1, <1>3, <2>1 DEF SessionMoves, Enter
  <2>2. CASE t # s
    <3>1. sess[t].pc # "idle" => sess[t].att \in Attempts /\ sess[t].att # a
      BY <1>3 DEF LiveInv, CallInv, TypeInv, WellLinked
    <3>2. sess'[t] = sess[t]
      BY <1>1, <1>3, <2>2 DEF Enter
    <3> QED BY <1>4, <3>1, <3>2, OtherSessions DEF LiveInv
  <2> QED BY <2>1, <2>2
<1> QED BY <1>3, <1>7, <1>8, <1>9 DEF Moves, RequestsMove

LEMMA MovesMark ==
    ASSUME LiveInv, NEW w \in Workers, MarkInterrupted(w)
    PROVE  Moves
<1>1. /\ attempt \in [Attempts -> Attempt] /\ job \in [Jobs -> Job]
      /\ sess \in [Sessions -> Session] /\ w \in Sessions
  BY DEF LiveInv, CallInv, TypeInv, TypeOK, Sessions
<1>2. \A a \in Interrupted : /\ a \in Attempts /\ attempt[a].phase \in InterruptedPhases
                             /\ attempt[a].aged /\ attempt[a].active
  BY DEF Interrupted
<1>3. \A a \in Attempts : /\ a \notin Interrupted => attempt'[a] = attempt[a]
                          /\ a \in Interrupted => /\ attempt'[a].phase = "uncertain"
                                                  /\ attempt'[a].job = attempt[a].job
  BY <1>1, SweptRows DEF MarkInterrupted
<1>4. \A a \in Attempts : AttemptMoves(a)
  BY <1>2, <1>3 DEF AttemptMoves, Kept, Prepared, Decided, InterruptedPhases, BeforeSending,
     Carrying
<1>5. ASSUME NEW j \in Jobs PROVE JobMoves(j)
  <2>1. CASE \E a \in Interrupted : attempt[a].job = j
    <3>1. ~job[j].platform
      BY <1>2, <2>1 DEF LiveInv, Unsettled, Open, Closed, InterruptedPhases
    <3>2. job'[j] = [job[j] EXCEPT !.status = "uncertain"]
      BY <2>1 DEF MarkInterrupted
    <3>3. job'[j].platform = job[j].platform /\ job'[j].approved = job[j].approved
      BY <1>1, <3>2 DEF Job
    <3> QED BY <3>1, <3>3 DEF JobMoves
  <2>2. CASE ~\E a \in Interrupted : attempt[a].job = j
    BY <2>2 DEF MarkInterrupted, JobMoves
  <2> QED BY <2>1, <2>2
<1>6. Leave(w) /\ UNCHANGED requests
  BY DEF MarkInterrupted
<1>7. ASSUME NEW t \in Sessions PROVE SessionMoves(t)
  <2>1. CASE t = w
    BY <1>1, <1>6, <2>1 DEF SessionMoves, Leave, Idle
  <2>2. CASE t # w
    <3>1. sess[t].pc # "idle" => sess[t].att \in Attempts /\ sess[t].att \notin Interrupted
      BY <1>2 DEF LiveInv, CallInv, TypeInv, WellLinked, OwnCalls
    <3>2. sess'[t] = sess[t]
      BY <1>1, <1>6, <2>2 DEF Leave
    <3> QED BY <1>3, <3>1, <3>2, OtherSessions DEF LiveInv
  <2> QED BY <2>1, <2>2
<1> QED BY <1>4, <1>5, <1>6, <1>7 DEF Moves, RequestsMove

LEMMA MovesAge ==
    ASSUME LiveInv, Plain, NEW a \in Attempts, Age(a)
    PROVE  Moves
<1> DEFINE row == [attempt[a] EXCEPT !.aged = TRUE]
<1>1. attempt \in [Attempts -> Attempt] /\ attempt' = [attempt EXCEPT ![a] = row]
  BY DEF LiveInv, CallInv, TypeInv, TypeOK, Age
<1>2. /\ row.phase = attempt[a].phase
      /\ row.job = attempt[a].job
      /\ row.content = attempt[a].content
  BY <1>1 DEF Attempt
<1> HIDE DEF row
<1>3. \A b \in Attempts : attempt'[b] = IF b = a THEN row ELSE attempt[b]
  BY <1>1
<1>4. \A t \in Sessions : sess[t].pc # "idle" => sess[t].att \in Attempts \ {a}
  BY DEF Plain, Orderly, Age, LiveInv, CallInv, TypeInv, WellLinked
<1>5. UNCHANGED <<sess, job, requests>>
  BY DEF Age
<1>6. \A b \in Attempts : AttemptMoves(b)
  BY <1>2, <1>3 DEF AttemptMoves, Kept
<1>7. \A t \in Sessions : SessionMoves(t)
  BY <1>3, <1>4, <1>5, OtherSessions DEF LiveInv
<1> QED BY <1>5, <1>6, <1>7, JobsKept DEF Moves, RequestsMove

LEMMA MovesReconcile ==
    ASSUME LiveInv, NEW a \in Attempts, ReconcilePublished(a) \/ ReconcileNotPublished(a)
    PROVE  Moves
<1>1. attempt \in [Attempts -> Attempt] /\ TypeInv
  BY DEF LiveInv, CallInv, TypeInv, TypeOK
<1>2. /\ attempt[a].phase \in InterruptedPhases \cup {"uncertain"}
      /\ attempt[a].phase = "uncertain" \/ attempt[a].aged
  BY DEF ReconcilePublished, ReconcileNotPublished, Reconcilable
<1>3. \A t \in Sessions : sess[t].pc # "idle" => sess[t].att \in Attempts \ {a}
  BY <1>2 DEF LiveInv, CallInv, OwnCalls, CallPhase, TypeInv, TypeOK, WellLinked, Session
<1>4. UNCHANGED <<sess, requests>>
  BY DEF ReconcilePublished, ReconcileNotPublished
<1>5. PICK phase \in {"completed", "failed"} : Rewrites(a, phase)
  BY <1>1, RewriteForms, PhaseNames DEF ReconcilePublished, ReconcileNotPublished
<1>6. \A t \in Sessions : SessionMoves(t)
  BY <1>3, <1>4, <1>5, OtherSessions DEF LiveInv, Rewrites
<1>7. AttemptMoves(a) /\ \A j \in Jobs : JobMoves(j)
  <2>1. CASE ReconcilePublished(a)
    <3>1. Published(a) /\ job' = PublishedJob(attempt[a].job)
      BY <2>1 DEF ReconcilePublished
    <3>2. attempt[a].phase \in {"publishing", "uncertain"}
      BY <1>2, <3>1 DEF LiveInv, Arrived, Published, InterruptedPhases
    <3>3. Rewrites(a, "completed")
      BY <1>1, <2>1, RewriteForms, PhaseNames DEF ReconcilePublished
    <3>4. (\A k \in Jobs : JobMoves(k)) /\ job'[attempt[a].job].platform
      BY <1>1, <3>1, <3>2, <3>3, JobPublished DEF Rewrites
    <3> QED BY <3>1, <3>2, <3>3, <3>4 DEF AttemptMoves, Decided, Rewrites
  <2>2. CASE ReconcileNotPublished(a)
    <3>1. ~Requested(a) /\ job' = SetStatus(attempt[a].job, "failed")
      BY <2>2 DEF ReconcileNotPublished, Published, OnWire, Requested
    <3>2. Rewrites(a, "failed")
      BY <1>1, <2>2, RewriteForms, PhaseNames DEF ReconcileNotPublished
    <3>3. ~job[attempt[a].job].platform
      BY <1>2 DEF LiveInv, Unsettled, Open, Closed, InterruptedPhases
    <3>4. \A k \in Jobs : JobMoves(k)
      BY <1>1, <3>1, <3>3, JobWritten
    <3> QED BY <1>2, <3>1, <3>2, <3>4 DEF AttemptMoves, Decided, Rewrites
  <2> QED BY <2>1, <2>2
<1>8. \A b \in Attempts : AttemptMoves(b)
  BY <1>5, <1>7 DEF AttemptMoves, Kept, Rewrites
<1> QED BY <1>4, <1>6, <1>7, <1>8 DEF Moves, RequestsMove

LEMMA MovesDashboard ==
    ASSUME LiveInv, Plain, DashboardNext
    PROVE  Moves
<1>1. /\ attempt \in [Attempts -> Attempt] /\ job \in [Jobs -> Job]
      /\ sess \in [Sessions -> Session]
  BY DEF LiveInv, CallInv, TypeInv, TypeOK
<1>2. CASE Disconnect
  <2> DEFINE swept == {a \in Attempts : Open(a) /\ attempt[a].phase # "uncertain"}
  <2>1. \A a \in swept : attempt[a].phase \in BeforeSending \ {"absent"}
    BY <1>1, <1>2 DEF Plain, Orderly, Disconnect, Attempt, Open, Phases, Closed,
       InterruptedPhases, BeforeSending
  <2>2. \A a \in Attempts : /\ a \notin swept => attempt'[a] = attempt[a]
                            /\ a \in swept => /\ attempt'[a].phase = "failed"
                                              /\ attempt'[a].job = attempt[a].job
    BY <1>1, <1>2, SweptRows DEF Disconnect
  <2>3. \A t \in Sessions : sess[t].pc # "idle" =>
            sess[t].att \in Attempts /\ sess[t].att \notin swept
    BY <1>2 DEF Plain, Orderly, Disconnect, LiveInv, CallInv, OwnCalls, CallPhase, TypeInv,
       WellLinked, TypeOK, Session, InterruptedPhases
  <2>4. UNCHANGED <<sess, job, requests>>
    BY <1>2 DEF Disconnect
  <2> HIDE DEF swept
  <2>5. \A a \in Attempts : AttemptMoves(a)
    BY <2>1, <2>2 DEF AttemptMoves, Kept, Prepared, Carrying
  <2>6. \A t \in Sessions : SessionMoves(t)
    BY <2>2, <2>3, <2>4, OtherSessions DEF LiveInv
  <2> QED BY <2>4, <2>5, <2>6, JobsKept DEF Moves, RequestsMove
<1>3. ASSUME NEW selected \in SUBSET Jobs, NEW skipped \in SUBSET Jobs, Approve(selected, skipped)
      PROVE  Moves
  <2>1. ASSUME NEW j \in Jobs PROVE JobMoves(j)
    <3>1. CASE j \in selected
      <4>1. ~job[j].platform /\ \A a \in Attempts : attempt[a].job = j => ~Open(a)
        BY <1>3, <3>1 DEF Approve, Blocked
      <4>2. job'[j].platform = job[j].platform
        BY <1>1, <1>3, <3>1 DEF Approve, Job
      <4> QED BY <4>1, <4>2 DEF JobMoves
    <3>2. CASE j \notin selected
      BY <1>3, <3>2 DEF Approve, JobMoves
    <3> QED BY <3>1, <3>2
  <2>2. UNCHANGED <<attempt, sess, requests>>
    BY <1>3 DEF Approve
  <2> QED BY <2>1, <2>2, Unwritten DEF RequestsMove
<1>4. ASSUME NEW u \in Users, CommitEdit(u) PROVE Moves
  <2>1. ASSUME NEW j \in Jobs PROVE JobMoves(j)
    <3>1. job'[j] = [job[j] EXCEPT !.status = "unapproved", !.approval = "open"]
          \/ job'[j] = job[j]
      BY <1>4 DEF CommitEdit
    <3>2. \/ /\ job'[j].platform = job[j].platform /\ job'[j].approved = job[j].approved
             /\ job'[j].approval = "open"
          \/ job'[j] = job[j]
      BY <1>1, <3>1 DEF Job
    <3> QED BY <3>2 DEF JobMoves, NotReleased
  <2>2. UNCHANGED <<attempt, sess, requests>>
    BY <1>4 DEF CommitEdit
  <2> QED BY <2>1, <2>2, Unwritten DEF RequestsMove
<1>5. ASSUME NEW u \in Users, CommitCancel(u) PROVE Moves
  <2>1. ASSUME NEW j \in Jobs PROVE JobMoves(j)
    <3>1. job'[j] = [job[j] EXCEPT !.status = "cancelled"] \/ job'[j] = job[j]
      BY <1>5 DEF CommitCancel
    <3>2. \/ /\ job'[j].platform = job[j].platform /\ job'[j].approved = job[j].approved
             /\ job'[j].status = "cancelled"
          \/ job'[j] = job[j]
      BY <1>1, <3>1 DEF Job
    <3> QED BY <3>2 DEF JobMoves, NotReleased
  <2>2. UNCHANGED <<attempt, sess, requests>>
    BY <1>5 DEF CommitCancel
  <2> QED BY <2>1, <2>2, Unwritten DEF RequestsMove
<1>6. CASE UNCHANGED <<attempt, sess, job, requests>>
  BY <1>6, JobsKept, Unwritten DEF RequestsMove
<1>7. \/ Disconnect \/ UNCHANGED <<attempt, sess, job, requests>>
      \/ \E selected \in SUBSET Jobs, skipped \in SUBSET Jobs : Approve(selected, skipped)
      \/ \E u \in Users : CommitEdit(u) \/ CommitCancel(u)
  BY DEF DashboardNext, BeginEdit, BeginCancel, SetStop, SetPage, db
<1> QED BY <1>2, <1>3, <1>4, <1>5, <1>6, <1>7

LEMMA MovesNext == Plain /\ LiveInv /\ [Next]_vars => Moves
<1> SUFFICES ASSUME Plain, LiveInv, [Next]_vars PROVE Moves
  OBVIOUS
<1>1. ASSUME NEW s \in Sessions, SessionNext(s) PROVE Moves
  BY <1>1, MovesCreate, MovesBegin, MovesContinue DEF SessionNext
<1>2. ASSUME NEW w \in Workers, WorkerNext(w) PROVE Moves
  <2>1. w \in Sessions
    BY DEF Sessions
  <2>2. CASE ListDue(w)
    BY <2>1, <2>2, JobsKept, Unwritten DEF ListDue, db, RequestsMove
  <2> QED BY <1>2, <2>1, <2>2, MovesMark, MovesBegin DEF WorkerNext
<1>3. ASSUME NEW a \in Attempts, Age(a) PROVE Moves
  BY <1>3, MovesAge
<1>4. CASE MetaNext
  <2>1. PICK r \in wire : MetaPublishes(r) \/ MetaDrops(r)
    BY <1>4 DEF MetaNext
  <2>2. UNCHANGED <<attempt, sess, job>>
    BY <2>1 DEF MetaPublishes, MetaDrops, db
  <2>3. RequestsMove
    BY <2>1, <2>2 DEF RequestsMove
  <2> QED BY <2>2, <2>3, JobsKept, Unwritten
<1>5. CASE ReconcileNext
  BY <1>5, MovesReconcile DEF ReconcileNext
<1>6. CASE DashboardNext
  BY <1>6, MovesDashboard
<1>7. CASE UNCHANGED vars
  BY <1>7, JobsKept, Unwritten DEF vars, RequestsMove, requests
<1> QED BY <1>1, <1>2, <1>3, <1>4, <1>5, <1>6, <1>7 DEF Next

LEMMA LiveInit == Init => LiveInv
<1> SUFFICES ASSUME Init PROVE LiveInv
  OBVIOUS
<1>1. CallInv
  BY CallInit
<1>2. wire = {} /\ live = {} /\ \A a \in Attempts : attempt[a].phase = "absent"
  BY DEF Init, NoAttempt
<1>3. \A s \in Sessions : sess[s].pc = "idle"
  BY DEF Init, Idle
<1>4. \A j \in Jobs : job[j].platform = FALSE
  BY DEF Init
<1> QED BY <1>1, <1>2, <1>3, <1>4 DEF LiveInv, Counted, Apart, Awaited, OnTheWay, Arrived,
    Settled, Unsettled, SingleLive, Carried, Open, Closed, Carrying

LEMMA LiveInvariant == ASSUME Plain PROVE Spec => []LiveInv
<1>1. LiveInv /\ [Next]_vars => LiveInv'
  BY MovesNext, LiveStep, CallNext DEF Plain, LiveInv
<1> QED BY <1>1, LiveInit, PTL DEF Spec

\* A job puts at most one medium on Instagram, over all of its attempts, and a
\* visible one is never filed as failed: for every number of jobs, attempts,
\* workers and administrators, as long as nobody presses an uncalled-for button
\* and Meta names the medium it published (app/meta/publishing.py:1038).
THEOREM JobsLiveOnce == ASSUME Plain PROVE Spec => []LiveOnce
<1>1. LiveInv => LiveOnce
  BY DEF LiveInv, LiveOnce, LiveNeverFailed, Arrived
<1> QED BY <1>1, LiveInvariant, PTL

\* What is settled, or may be, is not tried again: an unclear attempt is only
\* closed by hand, and a job with its platform id is not sent again, also after
\* an edit or a cancel overwrote its status.
THEOREM SettledStays == ASSUME Plain PROVE Spec => SettledIsFinal
<1>1. LiveInv /\ [Next]_vars =>
          [\A a \in Attempts : attempt[a].phase = "uncertain" =>
               attempt'[a].phase \in {"uncertain", "completed", "failed"}]_vars
  <2>1. Moves => \A a \in Attempts : attempt[a].phase = "uncertain" =>
                     attempt'[a].phase \in {"uncertain", "completed", "failed"}
    BY DEF Moves, AttemptMoves, Kept, Begun, Prepared, Started, Decided, BeforeSending
  <2> QED BY <2>1, MovesNext
<1>2. LiveInv /\ [Next]_vars =>
          [\A a \in Attempts : sent'[a] > sent[a] => ~job[attempt[a].job].platform]_vars
  <2> SUFFICES ASSUME LiveInv, Moves, NEW a \in Attempts, sent'[a] > sent[a]
               PROVE  ~job[attempt[a].job].platform
    BY MovesNext
  <2>1. sent \in [Attempts -> 0..MaxSends] /\ sent[a] \in Nat
    BY ConstantsAssumption DEF LiveInv, CallInv, TypeInv, TypeOK
  <2>2. sent'[a] # sent[a]
    BY <2>1
  <2>3. attempt[a].phase = "publishing"
    BY <2>1, <2>2 DEF Moves, RequestsMove, MetaPublishes, MetaDrops, requests
  <2> QED BY <2>3 DEF LiveInv, Unsettled, Open, Closed
<1> QED BY <1>1, <1>2, LiveInvariant, PTL DEF Spec, SettledIsFinal, UnclearNeedsReconcile, PlatformIdFinal

\* What goes to Instagram is the content of the approved version: nobody
\* re-approves a post under an attempt that already carries the old content.
THEOREM ApprovedIsSent == ASSUME Plain PROVE Spec => PublishesApproved
<1>1. LiveInv /\ [Next]_vars =>
          [\A a \in Attempts :
           attempt[a].phase # "publishing" /\ attempt'[a].phase = "publishing" =>
               /\ attempt[a].content = post.approved
               /\ attempt[a].content = post.version]_vars
  <2> SUFFICES ASSUME LiveInv, Moves, NEW a \in Attempts,
                      attempt[a].phase # "publishing", attempt'[a].phase = "publishing"
               PROVE  attempt[a].content = post.approved /\ attempt[a].content = post.version
    BY MovesNext
  <2>1. attempt[a].phase = "ready_to_publish" /\ Released(attempt[a].job)
    BY DEF Moves, AttemptMoves, Kept, Begun, Prepared, Started, Decided
  <2>2. attempt[a].content = job[attempt[a].job].approved
    BY <2>1 DEF LiveInv, Carried, Carrying
  <2> QED BY <2>1, <2>2 DEF Released
<1> QED BY <1>1, LiveInvariant, PTL DEF Spec, PublishesApproved

-----------------------------------------------------------------------------
(* The post's status.                                                      *)

\* A job keeps its platform id, and is published with it only.
Forward(j) == job'[j].platform \/ (~job[j].platform /\ job'[j].status # "published")

LEMMA ForwardStatus ==
    ASSUME PostInv, NEW j, NEW status, status # "published",
           job' = SetStatus(j, status) \/ UNCHANGED job
    PROVE  \A k \in Jobs : Forward(k)
<1> SUFFICES ASSUME NEW k \in Jobs PROVE Forward(k)
  OBVIOUS
<1>1. job \in [Jobs -> Job]
  BY DEF PostInv, TypeInv, TypeOK
<1>2. CASE job' = SetStatus(j, status) /\ k = j
  <2>1. job'[k] = [job[k] EXCEPT !.status = status]
    BY <1>1, <1>2 DEF SetStatus
  <2>2. job'[k].platform = job[k].platform /\ job'[k].status = status
    BY <1>1, <2>1 DEF Job
  <2> QED BY <2>2 DEF Forward
<1>3. CASE job'[k] = job[k]
  BY <1>3 DEF PostInv, Forward
<1> QED BY <1>1, <1>2, <1>3 DEF SetStatus

LEMMA ForwardPublished ==
    ASSUME PostInv, NEW j, job' = PublishedJob(j)
    PROVE  \A k \in Jobs : Forward(k)
<1> SUFFICES ASSUME NEW k \in Jobs PROVE Forward(k)
  OBVIOUS
<1>1. job \in [Jobs -> Job]
  BY DEF PostInv, TypeInv, TypeOK
<1>2. CASE k = j
  <2> DEFINE row == [job[k] EXCEPT !.status = "published", !.platform = TRUE]
  <2>1. row.platform
    BY <1>1 DEF Job
  <2>2. job'[k] = row
    BY <1>1, <1>2 DEF PublishedJob
  <2> QED BY <2>1, <2>2 DEF Forward
<1>3. CASE k # j
  <2>1. job'[k] = job[k]
    BY <1>1, <1>3 DEF PublishedJob
  <2> QED BY <2>1 DEF PostInv, Forward
<1> QED BY <1>2, <1>3

\* The steps that write a job.
LEMMA ForwardNext ==
    ASSUME PostInv, [Next]_vars
    PROVE  /\ \A k \in Jobs : Forward(k)
           /\ post'.status = "published" =>
                  post.status = "published" \/ \A k \in Jobs : job'[k].status = "published"
<1>1. job \in [Jobs -> Job] /\ post \in Post
  BY DEF PostInv, TypeInv, TypeOK
<1>2. ASSUME UNCHANGED <<job, post>>
      PROVE  /\ \A k \in Jobs : Forward(k)
             /\ post'.status = "published" => post.status = "published"
  BY <1>2 DEF PostInv, Forward
<1>3. ASSUME UNCHANGED post, NEW j, NEW status \in JobStatus \ {"published"},
             job' = SetStatus(j, status) \/ UNCHANGED job
      PROVE  /\ \A k \in Jobs : Forward(k)
             /\ post'.status = "published" => post.status = "published"
  BY <1>3, ForwardStatus
<1>4. ASSUME NEW j, job' = PublishedJob(j), post' = PublishedPost(j)
      PROVE  /\ \A k \in Jobs : Forward(k)
             /\ post'.status = "published" => \A k \in Jobs : job'[k].status = "published"
  <2>1. post'.status = IF \A k \in Jobs : PublishedJob(j)[k].status = "published"
                       THEN "published" ELSE "partially_published"
    BY <1>1, <1>4 DEF PublishedPost, Post
  <2> QED BY <1>4, <2>1, ForwardPublished
<1>5. ASSUME NEW s \in Sessions, SessionNext(s)
      PROVE  /\ \A k \in Jobs : Forward(k)
             /\ post'.status = "published" =>
                    post.status = "published" \/ \A k \in Jobs : job'[k].status = "published"
  <2>1. CASE \E j \in Jobs, a \in Attempts, stage \in AllStages : CreateAttempt(s, j, a, stage)
    <3>1. PICK j \in Jobs : /\ UNCHANGED post
                            /\ \/ UNCHANGED job
                               \/ job' = [job EXCEPT ![j].status = "publishing",
                                                     ![j].attempts = @ + 1]
      BY <2>1 DEF CreateAttempt
    <3>2. \A k \in Jobs : job'[k] = job[k]
                          \/ (job'[k].platform = job[k].platform /\ job'[k].status = "publishing")
      BY <1>1, <3>1 DEF Job
    <3> QED BY <3>1, <3>2 DEF PostInv, Forward
  <2>2. CASE PublishConfirmed(s)
    BY <1>2, <1>4, <2>2 DEF PublishConfirmed
  <2>3. \/ \E j \in Jobs, a \in Attempts, stage \in AllStages : CreateAttempt(s, j, a, stage)
        \/ PublishConfirmed(s)
        \/ /\ UNCHANGED post
           /\ \E j : \E status \in JobStatus \ {"published"} :
                  job' = SetStatus(j, status) \/ UNCHANGED job
    <3>1. "uncertain" \in JobStatus \ {"published"} /\ "failed" \in JobStatus \ {"published"}
          /\ "retry" \in JobStatus \ {"published"}
      BY DEF JobStatus
    <3>2. UNCHANGED <<post, job>> =>
              UNCHANGED post /\ \E j : \E status \in JobStatus \ {"published"} :
                                    job' = SetStatus(j, status) \/ UNCHANGED job
      BY <3>1
    <3>3. ASSUME NEW a \in Attempts, StartContainer(s, a) \/ Refresh(s, a) \/ StartPublish(s, a)
          PROVE  UNCHANGED post /\ (UNCHANGED job \/ job' = SetStatus(attempt[a].job, "failed"))
      BY <3>3 DEF StartContainer, Refresh, RefreshPending, RefreshFinished, RefreshError, StartPublish
    <3>4. CASE Continue(s) \/ Abandon(s)
      <4>1. CASE CreateVerifyFailed(s) \/ ContainerVerifyFailed(s) \/ ContainerUnclear(s)
                 \/ ContainerRefused(s) \/ PublishUnclear(s) \/ PublishRefused(s)
        <5> DEFINE j == attempt[sess[s].att].job
        <5>1. UNCHANGED post /\ \/ UNCHANGED job
                                \/ job' = SetStatus(j, "uncertain")
                                \/ job' = SetStatus(j, "failed")
                                \/ job' = SetStatus(j, "retry")
          BY <4>1 DEF CreateVerifyFailed, ContainerVerifyFailed, ContainerUnclear,
             ContainerRefused, PublishUnclear, PublishRefused, FailedFor
        <5> HIDE DEF j
        <5> QED BY <3>1, <3>2, <5>1
      <4>2. CASE CreateVerified(s) \/ ContainerVerified(s) \/ ContainerStopped(s)
                 \/ ContainerCreated(s) \/ SendPublish(s) \/ FinishDetails(s) \/ Abandon(s)
        BY <3>2, <4>2 DEF CreateVerified, ContainerVerified, ContainerStopped, ContainerCreated,
           SendPublish, FinishDetails, Abandon, db
      <4> QED BY <3>4, <4>1, <4>2 DEF Continue, ContainerAnswer, PublishAnswer
    <3> QED BY <1>5, <3>1, <3>2, <3>3, <3>4 DEF SessionNext
  <2> QED BY <1>3, <2>1, <2>2, <2>3
<1>6. ASSUME NEW w \in Workers, WorkerNext(w)
      PROVE  /\ \A k \in Jobs : Forward(k)
             /\ post'.status = "published" => post.status = "published"
  <2>1. CASE ListDue(w)
    BY <1>2, <2>1 DEF ListDue, db
  <2>2. CASE MarkInterrupted(w)
    <3>1. \A k \in Jobs : job'[k] = job[k] \/ job'[k] = [job[k] EXCEPT !.status = "uncertain"]
      BY <2>2 DEF MarkInterrupted
    <3>2. \A k \in Jobs : job'[k] = job[k]
                          \/ (job'[k].platform = job[k].platform /\ job'[k].status = "uncertain")
      BY <1>1, <3>1 DEF Job
    <3> QED BY <2>2, <3>2 DEF PostInv, Forward, MarkInterrupted
  <2>3. ASSUME NEW a \in Attempts, PollFailed(w, a)
        PROVE  /\ \A k \in Jobs : Forward(k)
               /\ post'.status = "published" => post.status = "published"
    <3>1. "failed" \in JobStatus \ {"published"}
      BY DEF JobStatus
    <3> QED BY <1>3, <2>3, <3>1 DEF PollFailed
  <2> QED BY <1>6, <2>1, <2>2, <2>3 DEF WorkerNext
<1>7. CASE ReconcileNext
  <2>1. "failed" \in JobStatus \ {"published"}
    BY DEF JobStatus
  <2> QED BY <1>3, <1>4, <1>7, <2>1 DEF ReconcileNext, ReconcilePublished, ReconcileNotPublished
<1>8. CASE DashboardNext
  <2>1. ASSUME NEW selected \in SUBSET Jobs, NEW skipped \in SUBSET Jobs, Approve(selected, skipped)
        PROVE  (\A k \in Jobs : Forward(k)) /\ post'.status # "published"
    <3>1. \A k \in Jobs :
              \/ job'[k] = job[k]
              \/ ~job[k].platform
                 /\ job'[k] = [job[k] EXCEPT !.approval = "approved", !.approved = post.version,
                               !.status = IF k \in skipped THEN "skipped" ELSE "scheduled"]
      BY <2>1 DEF Approve, Blocked
    <3>2. \A k \in Jobs : job'[k] = job[k]
                          \/ (~job[k].platform /\ job'[k].status \in {"skipped", "scheduled"})
      BY <1>1, <3>1 DEF Job
    <3>3. post'.status = "approved"
      BY <1>1, <2>1 DEF Approve, Post
    <3> QED BY <3>2, <3>3 DEF PostInv, Forward
  <2>2. ASSUME NEW u \in Users, CommitEdit(u)
        PROVE  (\A k \in Jobs : Forward(k)) /\ (post'.status = "published" => post.status = "published")
    <3>1. \A k \in Jobs : job'[k] = job[k]
                          \/ job'[k] = [job[k] EXCEPT !.status = "unapproved", !.approval = "open"]
      BY <2>2 DEF CommitEdit
    <3>2. \A k \in Jobs : job'[k] = job[k]
                          \/ (job'[k].platform = job[k].platform /\ job'[k].status = "unapproved")
      BY ZenonT(40), <1>1, <3>1 DEF Job
    <3>3. post'.status \in {post.status, "reapproval_required"}
      BY <1>1, <2>2 DEF CommitEdit, Post
    <3> QED BY <3>2, <3>3 DEF PostInv, Forward
  <2>3. ASSUME NEW u \in Users, CommitCancel(u)
        PROVE  (\A k \in Jobs : Forward(k)) /\ UNCHANGED post
    <3>1. \A k \in Jobs : job'[k] = job[k] \/ job'[k] = [job[k] EXCEPT !.status = "cancelled"]
      BY <2>3 DEF CommitCancel
    <3>2. \A k \in Jobs : job'[k] = job[k]
                          \/ (job'[k].platform = job[k].platform /\ job'[k].status = "cancelled")
      BY <1>1, <3>1 DEF Job
    <3> QED BY <2>3, <3>2 DEF PostInv, Forward, CommitCancel
  <2>4. \/ UNCHANGED <<job, post>>
        \/ \E selected \in SUBSET Jobs, skipped \in SUBSET Jobs : Approve(selected, skipped)
        \/ \E u \in Users : CommitEdit(u) \/ CommitCancel(u)
    BY <1>8 DEF DashboardNext, BeginEdit, BeginCancel, SetStop, SetPage, Disconnect, db
  <2> QED BY <1>2, <2>1, <2>2, <2>3, <2>4
<1>9. UNCHANGED vars \/ MetaNext \/ (\E a \in Attempts : Age(a)) => UNCHANGED <<job, post>>
  BY DEF vars, MetaNext, MetaPublishes, MetaDrops, Age, db
<1> QED BY <1>2, <1>5, <1>6, <1>7, <1>8, <1>9 DEF Next

\* A post shown as published has every one of its jobs on the platform, whatever
\* buttons are pressed and whatever Meta answers.
THEOREM PublishedIsComplete == Spec => []PublishedPostComplete
<1>1. Init => PostInv
  BY TypeInit DEF Init, PostInv, PublishedPostComplete
<1>2. PostInv /\ [Next]_vars => PostInv'
  <2> SUFFICES ASSUME PostInv, [Next]_vars PROVE PostInv'
    OBVIOUS
  <2>1. TypeInv'
    BY TypeNext DEF PostInv
  <2> QED BY <2>1, ForwardNext DEF PostInv, PublishedPostComplete, Forward
<1>3. PostInv => PublishedPostComplete
  BY DEF PostInv
<1> QED BY <1>1, <1>2, <1>3, PTL DEF Spec

-----------------------------------------------------------------------------
(* The workflow implements OnceOnly.                                       *)

\* What OnceOnly sees of a job.
StateOf(j) == IF job[j].platform THEN "done"
              ELSE IF \E a \in Attempts : attempt[a].job = j /\ Calls(a) THEN "calling"
              ELSE "ready"

\* A job has one medium or none.
LEMMA MediaOf ==
    ASSUME LiveInv, NEW j
    PROVE  /\ (\E r \in live : attempt[r[1]].job = j) => Cardinality(Media(j)) = 1
           /\ (\A r \in live : attempt[r[1]].job # j) => Cardinality(Media(j)) = 0
<1>1. ASSUME NEW r \in live, attempt[r[1]].job = j
      PROVE  Cardinality(Media(j)) = 1
  <2>1. Media(j) = {r}
    BY <1>1 DEF Media, LiveInv, SingleLive
  <2> QED BY <2>1, FS_Singleton
<1>2. ASSUME \A r \in live : attempt[r[1]].job # j
      PROVE  Cardinality(Media(j)) = 0
  <2>1. Media(j) = {}
    BY <1>2 DEF Media
  <2> QED BY <2>1, FS_EmptySet
<1> QED BY <1>1, <1>2

\* An attempt calls if and only if its request was sent, and nothing of it is
\* written; the attempts of a job call one at a time, before its platform id.
LEMMA CallsAre ==
    ASSUME LiveInv, NEW a \in Attempts
    PROVE  /\ Requested(a) => sent[a] > 0
           /\ Calls(a) => /\ Open(a) /\ attempt[a].job \in Jobs
                          /\ ~job[attempt[a].job].platform
                          /\ \A b \in Attempts : Calls(b) /\ attempt[b].job = attempt[a].job => b = a
                          /\ \A r \in live : attempt[r[1]].job = attempt[a].job => r[1] = a
<1>1. Requested(a) => sent[a] > 0
  BY OneRequest DEF Requested
<1>2. ASSUME Calls(a)
      PROVE  /\ Open(a) /\ attempt[a].job \in Jobs
             /\ ~job[attempt[a].job].platform
             /\ \A b \in Attempts : Calls(b) /\ attempt[b].job = attempt[a].job => b = a
             /\ \A r \in live : attempt[r[1]].job = attempt[a].job => r[1] = a
  <2>1. Open(a) /\ attempt[a].job \in Jobs
    BY <1>2 DEF Calls, Open, Closed, LiveInv, CallInv, TypeInv, WellLinked
  <2>2. ~job[attempt[a].job].platform
    BY <1>2, <2>1 DEF Calls, LiveInv, Unsettled
  <2>3. ASSUME NEW b \in Attempts, attempt[b].phase \in {"publishing", "uncertain"},
               attempt[b].job = attempt[a].job
        PROVE  b = a
    <3>1. Open(b)
      BY <2>3 DEF Open, Closed
    <3> QED BY <2>1, <2>3, <3>1, OpenAlone DEF LiveInv
  <2>4. ASSUME NEW r \in live, attempt[r[1]].job = attempt[a].job
        PROVE  r[1] = a
    <3>1. r[1] \in Attempts
      BY <2>4, OneRequest
    <3>2. attempt[r[1]].phase \in {"publishing", "uncertain"}
      BY <2>2, <2>4 DEF LiveInv, Arrived
    <3> QED BY <2>3, <2>4, <3>1, <3>2
  <2> QED BY <2>1, <2>2, <2>3, <2>4 DEF Calls
<1> QED BY <1>1, <1>2

\* A step changes what is written of one attempt's request.
OneChanges == \E a : \A b \in Attempts : b # a => Calls(b)' = Calls(b)

LEMMA OneWritten ==
    (\E a : \A b \in Attempts : b # a => attempt'[b] = attempt[b] /\ sent'[b] = sent[b])
        => OneChanges
BY DEF OneChanges, Calls

LEMMA SessionsChangeOne ==
    ASSUME TypeInv, NEW s \in Sessions, SessionNext(s)
    PROVE  OneChanges
<1>1. attempt \in [Attempts -> Attempt] /\ sent \in [Attempts -> 0..MaxSends]
  BY DEF TypeInv, TypeOK
<1>2. ASSUME NEW a, \E row : attempt' = Put(a, row), UNCHANGED sent
      PROVE  OneChanges
  BY <1>1, <1>2, OneWritten DEF Put
<1>3. ASSUME UNCHANGED <<attempt, sent>> PROVE OneChanges
  BY <1>3, OneWritten
<1>4. ASSUME NEW j \in Jobs, NEW a \in Attempts, NEW stage \in AllStages, CreateAttempt(s, j, a, stage)
      PROVE  OneChanges
  BY <1>2, <1>4 DEF CreateAttempt, requests
<1>5. ASSUME NEW a \in Attempts, StartContainer(s, a) \/ Refresh(s, a) \/ StartPublish(s, a)
      PROVE  OneChanges
  BY <1>2, <1>5 DEF StartContainer, Refresh, RefreshPending, RefreshFinished, RefreshError,
     StartPublish, Write, requests
<1>6. CASE SendPublish(s)
  <2>1. UNCHANGED attempt /\ sent' = [sent EXCEPT ![sess[s].att] = sent[sess[s].att] + 1]
    BY <1>6 DEF SendPublish, db
  <2> QED BY <1>1, <2>1, OneWritten
<1>7. CASE Continue(s) /\ ~SendPublish(s)
  <2> DEFINE a == sess[s].att
  <2>1. UNCHANGED sent
    BY <1>7 DEF Continue, CreateVerified, CreateVerifyFailed, ContainerVerified, ContainerStopped,
       ContainerVerifyFailed, ContainerAnswer, ContainerCreated, ContainerUnclear,
       ContainerRefused, PublishAnswer, PublishConfirmed, PublishUnclear,
       PublishRefused, FinishDetails, requests
  <2>2. (\E row : attempt' = Put(a, row)) \/ UNCHANGED attempt
    <3>1. CASE CreateVerified(s) \/ CreateVerifyFailed(s) \/ ContainerVerified(s)
               \/ ContainerVerifyFailed(s) \/ ContainerUnclear(s) \/ ContainerRefused(s)
      BY <3>1 DEF CreateVerified, CreateVerifyFailed, ContainerVerified,
         ContainerVerifyFailed, ContainerUnclear, ContainerRefused, Write, Close
    <3>2. CASE ContainerStopped(s) \/ ContainerCreated(s) \/ PublishConfirmed(s)
      BY <3>2 DEF ContainerStopped, ContainerCreated, PublishConfirmed, db
    <3>3. CASE PublishUnclear(s) \/ PublishRefused(s) \/ FinishDetails(s)
      BY <3>3 DEF PublishUnclear, PublishRefused, FinishDetails, Write, Close
    <3> QED BY <1>7, <3>1, <3>2, <3>3 DEF Continue, ContainerAnswer, PublishAnswer
  <2> HIDE DEF a
  <2> QED BY <1>2, <1>3, <2>1, <2>2
<1>8. CASE Abandon(s)
  BY <1>3, <1>8 DEF Abandon, db, requests
<1> QED BY <1>4, <1>5, <1>6, <1>7, <1>8 DEF SessionNext

LEMMA OneNext ==
    ASSUME Plain, LiveInv, [Next]_vars
    PROVE  OneChanges
<1>1. attempt \in [Attempts -> Attempt] /\ TypeInv
  BY DEF LiveInv, CallInv, TypeInv, TypeOK
<1>2. ASSUME NEW a, \E row : attempt' = Put(a, row), UNCHANGED sent
      PROVE  OneChanges
  BY <1>1, <1>2, OneWritten DEF Put
<1>3. ASSUME UNCHANGED <<attempt, sent>> PROVE OneChanges
  BY <1>3, OneWritten
<1>4. ASSUME NEW s \in Sessions, SessionNext(s) PROVE OneChanges
  BY <1>1, <1>4, SessionsChangeOne
<1>5. ASSUME NEW w \in Workers, WorkerNext(w) PROVE OneChanges
  <2>1. CASE MarkInterrupted(w)
    <3>1. UNCHANGED sent
      BY <2>1 DEF MarkInterrupted, requests
    <3>2. \A b \in Attempts : attempt'[b] = attempt[b]
              \/ (attempt[b].phase \in InterruptedPhases /\ attempt'[b].phase = "uncertain")
      BY <1>1, <2>1, SweptRows DEF MarkInterrupted, Interrupted
    <3>3. \A b \in Attempts : sent[b] > 0 => attempt[b].phase \notin BeforeSending
      BY DEF LiveInv, CallInv, Unsent
    <3> QED BY <3>1, <3>2, <3>3 DEF OneChanges, Calls, InterruptedPhases, BeforeSending
  <2>2. CASE ListDue(w)
    BY <1>3, <2>2 DEF ListDue, db, requests
  <2>3. ASSUME NEW a \in Attempts, PollFailed(w, a) PROVE OneChanges
    BY <1>2, <2>3 DEF PollFailed, Close, requests
  <2> QED BY <1>5, <2>1, <2>2, <2>3 DEF WorkerNext
<1>6. ASSUME NEW a \in Attempts, Age(a) PROVE OneChanges
  <2>1. UNCHANGED sent /\ attempt' = [attempt EXCEPT ![a] = [attempt[a] EXCEPT !.aged = TRUE]]
    BY <1>1, <1>6 DEF Age, requests
  <2> QED BY <1>1, <2>1, OneWritten
<1>7. CASE MetaNext
  BY <1>3, <1>7 DEF MetaNext, MetaPublishes, MetaDrops, db
<1>8. CASE ReconcileNext
  BY <1>2, <1>8 DEF ReconcileNext, ReconcilePublished, ReconcileNotPublished, Close, requests
<1>9. CASE DashboardNext
  <2>1. CASE Disconnect
    <3>1. UNCHANGED sent
      BY <2>1 DEF Disconnect, requests
    <3>2. \A b \in Attempts : attempt'[b] = attempt[b]
              \/ (attempt[b].phase \notin {"publishing", "uncertain"} /\ attempt'[b].phase = "failed")
      BY <1>1, <2>1, SweptRows DEF Disconnect, Plain, Orderly, InterruptedPhases
    <3> QED BY <3>1, <3>2 DEF OneChanges, Calls
  <2>2. Disconnect \/ UNCHANGED <<attempt, sent>>
    BY <1>9 DEF DashboardNext, Approve, BeginEdit, CommitEdit, BeginCancel, CommitCancel,
       SetStop, SetPage, db, requests
  <2> QED BY <1>3, <2>1, <2>2
<1>10. CASE UNCHANGED vars
  BY <1>3, <1>10 DEF vars
<1> QED BY <1>4, <1>5, <1>6, <1>7, <1>8, <1>9, <1>10 DEF Next

\* A step that changes none of what OnceOnly sees, and one that moves one job.
LEMMA OnceStutters ==
    ASSUME \A j \in Jobs : StateOf(j)' = StateOf(j) /\ Cardinality(Media(j))' = Cardinality(Media(j))
    PROVE  [Once!Next]_(Once!vars)
BY DEF Once!vars, StateOf

LEMMA OnceMoves ==
    ASSUME NEW j \in Jobs, NEW from, NEW to, StateOf(j) = from, StateOf(j)' = to,
           \A k \in Jobs \ {j} : StateOf(k)' = StateOf(k)
    PROVE  Once!Move(j, from, to)
BY DEF Once!Move, StateOf

\* A job keeps its state when what is written of its attempts' requests stays.
LEMMA JobStays ==
    ASSUME LiveInv, Moves, UNCHANGED requests, NEW k \in Jobs,
           \A b \in Attempts : attempt[b].job = k => Calls(b)' = Calls(b)
    PROVE  StateOf(k)' = StateOf(k)
<1>1. job'[k].platform <=> job[k].platform
  <2>1. ASSUME job'[k].platform, ~job[k].platform
        PROVE  FALSE
    <3>1. PICK b \in Attempts : /\ attempt[b].job = k
                                /\ attempt[b].phase \in {"publishing", "uncertain"}
                                /\ attempt'[b].phase \in {"reconciling", "completed"}
      BY <2>1 DEF Moves, JobMoves
    <3>2. Published(b)
      BY <3>1 DEF Moves, AttemptMoves, Kept, Begun, Prepared, Started, Decided, BeforeSending
    <3>3. Calls(b) /\ ~Calls(b)'
      BY <3>1, <3>2, CallsAre DEF Calls, Published, Requested
    <3> QED BY <3>1, <3>3
  <2>2. job[k].platform \in BOOLEAN /\ (job[k].platform => job'[k].platform)
    BY DEF Moves, JobMoves, LiveInv, CallInv, TypeInv, TypeOK, Job
  <2>3. CASE job[k].platform
    BY <2>2, <2>3 DEF Moves, JobMoves
  <2> QED BY <2>1, <2>2, <2>3
<1>2. ASSUME NEW b \in Attempts, Calls(b) \/ Calls(b)'
      PROVE  attempt'[b].job = attempt[b].job
  <2>1. sent[b] > 0
    BY <1>2 DEF Calls, requests
  <2>2. attempt[b].phase # "absent"
    BY <2>1 DEF LiveInv, CallInv, Unsent, BeforeSending
  <2> QED BY <2>2 DEF Moves, AttemptMoves, Kept, Begun, Prepared, Started, Decided
<1>3. (\E a \in Attempts : attempt[a].job = k /\ Calls(a))
          <=> (\E a \in Attempts : attempt'[a].job = k /\ Calls(a)')
  BY <1>2
<1> QED BY <1>1, <1>3 DEF StateOf

\* media_publish is sent for a job that no earlier request may still publish.
LEMMA SendImplements ==
    ASSUME LiveInv, NEW a \in Attempts, attempt[a].phase = "publishing",
           UNCHANGED <<attempt, job, live>>, sent[a] = 0, sent' = [sent EXCEPT ![a] = 1]
    PROVE  [Once!Next]_(Once!vars)
<1>j. PICK j \in Jobs : j = attempt[a].job
  BY DEF LiveInv, CallInv, TypeInv, WellLinked
<1>1. sent \in [Attempts -> 0..MaxSends]
  BY DEF LiveInv, CallInv, TypeInv, TypeOK
<1>2. Open(a)
  BY DEF Open, Closed, LiveInv, CallInv, TypeInv, WellLinked
<1>3. ~job[j].platform
  BY <1>j, <1>2 DEF LiveInv, Unsettled
<1>4. ASSUME NEW b \in Attempts, attempt[b].job = j, attempt[b].phase \in {"publishing", "uncertain"}
      PROVE  b = a
  BY <1>j, <1>2, <1>4, OpenAlone DEF LiveInv, Open, Closed
<1>5. \A b \in Attempts : attempt[b].job = j => ~Calls(b)
  <2>1. ~Calls(a)
    BY DEF Calls
  <2> QED BY <1>4, <2>1 DEF Calls
<1>6. \A r \in live : attempt[r[1]].job # j
  <2> SUFFICES ASSUME NEW r \in live, attempt[r[1]].job = j PROVE FALSE
    OBVIOUS
  <2>1. r[1] \in Attempts /\ sent[r[1]] = 1
    BY OneRequest
  <2>2. attempt[r[1]].phase \in {"publishing", "uncertain"}
    BY <1>3 DEF LiveInv, Arrived
  <2>3. r[1] = a
    BY <1>4, <2>1, <2>2
  <2> QED BY <2>1, <2>3
<1>7. StateOf(j) = "ready" /\ Cardinality(Media(j)) = 0
  BY <1>3, <1>5, <1>6, MediaOf DEF StateOf
<1>8. sent'[a] = 1 /\ \A b \in Attempts : b # a => sent'[b] = sent[b]
  BY <1>1
<1>9. Calls(a)' /\ \A b \in Attempts : b # a => Calls(b)' = Calls(b)
  BY <1>8 DEF Calls
<1>10. StateOf(j)' = "calling"
  BY <1>j, <1>3, <1>9 DEF StateOf
<1>11. \A k \in Jobs \ {j} : StateOf(k)' = StateOf(k)
  BY <1>j, <1>9 DEF StateOf
<1>12. Once!Move(j, "ready", "calling")
  BY <1>7, <1>10, <1>11, OnceMoves
<1>13. Once!Call(j)
  <2>1. UNCHANGED [k \in Jobs |-> Cardinality(Media(k))]
    BY DEF Media
  <2> QED BY <1>2, <1>7, <1>12, <2>1 DEF Once!Call
<1> QED BY <1>13 DEF Once!Next

\* Meta carries out the only request that is under way for a job.
LEMMA MetaImplements ==
    ASSUME LiveInv, NEW r \in wire, MetaPublishes(r) \/ MetaDrops(r), UNCHANGED <<attempt, job>>
    PROVE  [Once!Next]_(Once!vars)
<1>1. UNCHANGED sent
  BY DEF MetaPublishes, MetaDrops
<1>2. \A k \in Jobs : StateOf(k)' = StateOf(k)
  BY <1>1 DEF StateOf, Calls
<1>3. CASE MetaDrops(r)
  <2>1. \A k \in Jobs : Media(k)' = Media(k)
    BY <1>3 DEF MetaDrops, Media
  <2> QED BY <1>2, <2>1, OnceStutters
<1>4. CASE MetaPublishes(r)
  <2> DEFINE a == r[1]
  <2>j. PICK j \in Jobs : j = attempt[a].job
    BY OneRequest DEF LiveInv, OnTheWay, CallInv, TypeInv, WellLinked
  <2>1. a \in Attempts /\ sent[a] = 1 /\ attempt[a].phase \in {"publishing", "uncertain"}
    BY OneRequest DEF LiveInv, OnTheWay
  <2>2. Calls(a)
    BY <2>1 DEF Calls
  <2>3. ~job[j].platform /\ \A q \in live : attempt[q[1]].job = j => q[1] = a
    BY <2>j, <2>1, <2>2, CallsAre
  <2>4. \A q \in live : attempt[q[1]].job # j
    BY <2>3, OneRequest DEF LiveInv, Apart
  <2>5. StateOf(j) = "calling" /\ Cardinality(Media(j)) = 0
    BY <2>j, <2>1, <2>2, <2>3, <2>4, MediaOf DEF StateOf
  <2>6. Media(j)' = {r} /\ \A k \in Jobs \ {j} : Media(k)' = Media(k)
    BY <1>4, <2>j, <2>4 DEF MetaPublishes, Media
  <2>7. Cardinality(Media(j))' = 1
    BY <2>6, FS_Singleton
  <2>8. Once!TakeEffect(j)
    <3>1. UNCHANGED [k \in Jobs |-> StateOf(k)]
      BY <1>2
    <3>2. \A k \in Jobs \ {j} : Cardinality(Media(k))' = Cardinality(Media(k))
      BY <2>6
    <3>3. [k \in Jobs |-> Cardinality(Media(k))]'
             = [[k \in Jobs |-> Cardinality(Media(k))] EXCEPT ![j] = 1]
      BY <2>7, <3>2
    <3> QED BY <2>5, <3>1, <3>3 DEF Once!TakeEffect, StateOf
  <2> QED BY <2>3, <2>8 DEF Once!Next
<1> QED BY <1>3, <1>4

\* Every other step: a job is published with its one medium, given up without
\* one, or looks the same.
LEMMA RestImplements ==
    ASSUME LiveInv, Moves, OneChanges, UNCHANGED requests
    PROVE  [Once!Next]_(Once!vars)
<1>1. \A k \in Jobs : Media(k)' = Media(k)
  <2>1. ASSUME NEW r \in live PROVE attempt'[r[1]].job = attempt[r[1]].job
    <3>1. r[1] \in Attempts /\ sent[r[1]] = 1
      BY OneRequest
    <3>2. attempt[r[1]].phase # "absent"
      BY <3>1 DEF LiveInv, CallInv, Unsent, BeforeSending
    <3> QED BY <3>1, <3>2 DEF Moves, AttemptMoves, Kept, Begun, Prepared, Started, Decided
  <2> QED BY <2>1 DEF Media, requests
<1>2. UNCHANGED [k \in Jobs |-> Cardinality(Media(k))]
  BY <1>1
<1>3. PICK a : \A b \in Attempts : b # a => Calls(b)' = Calls(b)
  BY DEF OneChanges
<1>4. CASE a \notin Attempts \/ Calls(a)' = Calls(a)
  <2>1. \A k \in Jobs : StateOf(k)' = StateOf(k)
    BY <1>3, <1>4, JobStays
  <2> QED BY <1>1, <2>1, OnceStutters
<1>5. CASE a \in Attempts /\ Calls(a)' # Calls(a)
  <2>1. sent[a] > 0 /\ attempt[a].phase \notin BeforeSending
    <3>1. sent[a] > 0
      BY <1>5 DEF Calls, requests
    <3> QED BY <1>5, <3>1 DEF LiveInv, CallInv, Unsent
  <2>2. Decided(a) /\ Calls(a)
    BY <1>5, <2>1 DEF Moves, AttemptMoves, Kept, Begun, Prepared, Started, Decided, Calls,
       BeforeSending, requests
  <2>j. PICK j \in Jobs : j = attempt[a].job
    BY <1>5, <2>2, CallsAre
  <2>3. /\ ~job[j].platform
        /\ \A b \in Attempts : Calls(b) /\ attempt[b].job = j => b = a
        /\ \A r \in live : attempt[r[1]].job = j => r[1] = a
    BY <1>5, <2>j, <2>2, CallsAre
  <2>4. StateOf(j) = "calling"
    BY <1>5, <2>j, <2>2, <2>3 DEF StateOf
  <2>5. \A k \in Jobs \ {j} : StateOf(k)' = StateOf(k)
    BY <1>3, <2>j, JobStays
  <2>6. CASE attempt'[a].phase = "failed"
    <3>1. ~Requested(a)
      BY <1>5, <2>2, <2>6 DEF Decided
    <3>2. Cardinality(Media(j)) = 0
      BY <2>3, <3>1, MediaOf DEF Requested
    <3>3. ~job'[j].platform
      <4> SUFFICES ASSUME job'[j].platform PROVE FALSE
        OBVIOUS
      <4>1. PICK b \in Attempts : /\ attempt[b].job = j
                                  /\ attempt[b].phase \in {"publishing", "uncertain"}
                                  /\ attempt'[b].phase \in {"reconciling", "completed"}
        BY <2>3 DEF Moves, JobMoves
      <4>2. Open(a) /\ Open(b)
        BY <1>5, <2>2, <4>1, CallsAre DEF Open, Closed
      <4>3. a = b
        BY <1>5, <2>j, <4>1, <4>2, OpenAlone DEF LiveInv
      <4> QED BY <2>6, <4>1, <4>3
    <3>4. ASSUME NEW b \in Attempts, attempt'[b].job = j, Calls(b)'
          PROVE  FALSE
      <4>1. b # a
        BY <2>6, <3>4 DEF Calls
      <4>2. Calls(b) /\ attempt[b].phase # "absent"
        BY <1>3, <3>4, <4>1 DEF Calls
      <4>3. attempt'[b].job = attempt[b].job
        BY <4>2 DEF Moves, AttemptMoves, Kept, Begun, Prepared, Started, Decided
      <4> QED BY <2>3, <3>4, <4>1, <4>2, <4>3
    <3>5. StateOf(j)' = "ready"
      BY <3>3, <3>4 DEF StateOf
    <3>6. Once!Move(j, "calling", "ready")
      BY <2>3, <2>4, <2>5, <3>5, OnceMoves
    <3>7. Once!Refuse(j)
      BY <1>2, <2>3, <3>2, <3>6 DEF Once!Refuse
    <3> QED BY <2>3, <3>7 DEF Once!Next
  <2>7. CASE attempt'[a].phase # "failed"
    <3>1. Published(a) /\ job'[j].platform
      BY <1>5, <2>j, <2>1, <2>2, <2>7 DEF Decided, Calls, requests
    <3>2. Cardinality(Media(j)) = 1
      BY <1>5, <2>j, <2>2, <2>3, <3>1, MediaOf DEF Published
    <3>3. StateOf(j)' = "done"
      BY <2>2, <3>1 DEF StateOf
    <3>4. Once!Move(j, "calling", "done")
      BY <2>3, <2>4, <2>5, <3>3, OnceMoves
    <3>5. Once!Confirm(j)
      BY <1>2, <2>3, <3>2, <3>4 DEF Once!Confirm
    <3> QED BY <2>3, <3>5 DEF Once!Next
  <2> QED BY <2>6, <2>7
<1> QED BY <1>4, <1>5

\* The workflow implements OnceOnly: whatever workers and administrators do, and
\* whatever is lost on the way, a job's media_publish is sent only when no
\* earlier one, of any attempt, may still publish it (app/meta/publishing.py:936).
THEOREM PublishingOnceOnly == ASSUME Plain PROVE Spec => ImplementsOnceOnly
<1>1. Init => Once!Init
  <2> SUFFICES ASSUME Init PROVE Once!Init
    OBVIOUS
  <2>1. \A k \in Jobs : Cardinality(Media(k)) = 0
    <3>1. \A k \in Jobs : Media(k) = {}
      BY DEF Init, Media
    <3> QED BY <3>1, FS_EmptySet
  <2> QED BY <2>1 DEF Init, Once!Init, Calls
<1>2. LiveInv /\ [Next]_vars => [Once!Next]_(Once!vars)
  <2> SUFFICES ASSUME LiveInv, [Next]_vars PROVE [Once!Next]_(Once!vars)
    OBVIOUS
  <2>1. Moves /\ OneChanges
    BY MovesNext, OneNext
  <2>2. CASE UNCHANGED requests
    BY <2>1, <2>2, RestImplements
  <2>3. CASE UNCHANGED <<attempt, job>> /\ (\E r \in wire : MetaPublishes(r) \/ MetaDrops(r))
    BY <2>3, MetaImplements
  <2>4. CASE \E a \in Attempts : /\ attempt[a].phase = "publishing" /\ UNCHANGED <<attempt, job>>
                                 /\ sent[a] = 0 /\ sent' = [sent EXCEPT ![a] = 1]
                                 /\ wire' = wire \cup {<<a, 1>>} /\ UNCHANGED live
    BY <2>4, SendImplements
  <2> QED BY <2>1, <2>2, <2>3, <2>4 DEF Moves, RequestsMove
<1> QED BY <1>1, <1>2, LiveInvariant, PTL DEF Spec, ImplementsOnceOnly, Once!Spec

=============================================================================
