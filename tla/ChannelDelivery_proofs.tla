------------------------ MODULE ChannelDelivery_proofs ------------------------
(***************************************************************************)
(* The delivery of a channel job implements OnceOnly, for any number of    *)
(* recipients and workers: proofs about ChannelDelivery.                   *)
(*                                                                         *)
(* A worker relies on the rows it claims and not on the lock of the job,   *)
(* which it has until its first commit only.  So the invariant is about    *)
(* the rows: who is in a call for one, and what may still be on the wire.  *)
(***************************************************************************)
EXTENDS ChannelDelivery, TLAPS

\* The deliveries the theorems are about: none of the perils but opt-outs, each
\* of which makes the code send a message twice or begin an unclear call again.
Orderly == Perils \subseteq {"opt_out"}

-----------------------------------------------------------------------------
(* Types                                                                   *)

\* What the type of a session leaves open: a worker at a row has a recipient,
\* only a worker in a call has an answer, and a verdict is one it can file.
SessionFits(s) ==
    /\ s.pc \in {"claiming", "claimed", "awaiting"} => s.cur \in Recipients
    /\ s.answer # "none" <=> s.pc = "awaiting"
    /\ s.pc = "failing" => s.verdict \in {"failed", "uncertain"}
    /\ s.pc = "settling" => s.verdict \in {"published", "uncertain"}

WellFormed == \A w \in Workers : SessionFits(sess[w])

TypeInv == TypeOK /\ WellFormed

-----------------------------------------------------------------------------
(* The invariant                                                           *)

Claiming(w, r) == sess[w].pc = "claiming" /\ sess[w].cur = r
InCall(w, r)   == sess[w].pc \in {"claimed", "awaiting"} /\ sess[w].cur = r

\* A row in a call says so, and knows one worker only.
CallsOwnRows ==
    \A w \in Workers, r \in Recipients :
        InCall(w, r) => /\ row[r].status = "processing"
                        /\ \A v \in Workers : InCall(v, r) => v = w

\* A worker about to try a failed row again is alone with it.
RetriesAlone ==
    \A w \in Workers, r \in Recipients :
        Claiming(w, r) /\ sess[w].existed =>
            /\ row[r].status = "failed"
            /\ \A v \in Workers : Claiming(v, r) => v = w

\* While a worker waits, nothing else of its row's is on the wire.
CallsAlone ==
    \A w \in Workers, r \in Recipients :
        InCall(w, r) => /\ stray[r] = 0
                        /\ accepted[r] = IF sess[w].answer = "accepted" THEN 1 ELSE 0

\* What a row that is not unclear says of the message is true.
RowsTell ==
    \A r \in Recipients :
        /\ row[r].status \in {"none", "failed"} => accepted[r] = 0 /\ stray[r] = 0
        /\ row[r].status \in {"sent", "delivered"} => accepted[r] = 1 /\ stray[r] = 0
        /\ stray[r] + accepted[r] <= 1

\* Only a message that was sent has an id, and so a receipt.
IdsOfSent == \A r \in Recipients : row[r].id => row[r].status \in {"sent", "delivered"}

\* "delivered" is not among the states a worker leaves alone: it is seen only
\* when no worker comes to the job any more.
DeliveredLate == (\E r \in Recipients : row[r].status = "delivered") => Left

RowInv == CallsOwnRows /\ RetriesAlone /\ CallsAlone /\ RowsTell /\ IdsOfSent /\ DeliveredLate

-----------------------------------------------------------------------------
(* Every action keeps the types                                            *)

LEMMA IdleFits == Idle \in Session /\ SessionFits(Idle)
BY DEF Idle, Session, SessionFits

LEMMA TypeInit == Init => TypeInv
<1> SUFFICES ASSUME Init PROVE TypeInv
  OBVIOUS
<1>1. job \in Job
  BY ConstantsAssumption DEF Init, Job, JobStatus
<1>2. row \in [Recipients -> Row]
  BY DEF Init, Row, RowStatus
<1>3. sess \in [Workers -> Session] /\ WellFormed
  BY IdleFits DEF Init, WellFormed
<1>4. stray \in [Recipients -> 0..Many] /\ accepted \in [Recipients -> 0..Many]
  BY DEF Init, Many
<1>5. /\ lock \in Workers \cup {None} /\ opted \subseteq Recipients
      /\ stop \in BOOLEAN /\ draft \in Requests
  BY DEF Init, Requests
<1> QED BY <1>1, <1>2, <1>3, <1>4, <1>5 DEF TypeInv, TypeOK

\* Most steps of a worker change its session only, as far as types go.
LEMMA GotoType ==
    ASSUME TypeInv, NEW w \in Workers, NEW s \in Session, SessionFits(s), Goto(w, s)
    PROVE  sess' \in [Workers -> Session] /\ WellFormed'
BY DEF TypeInv, TypeOK, WellFormed, SessionFits, Goto

\* A worker can go to rest (IdleFits), or to file an error or what its rows say.
LEMMA FailFits ==
    ASSUME NEW verdict \in {"failed", "uncertain"}
    PROVE  LET s == [Idle EXCEPT !.pc = "failing", !.verdict = verdict]
           IN s \in Session /\ SessionFits(s)
BY DEF Idle, Session, SessionFits

LEMMA SettleFits ==
    ASSUME NEW verdict \in {"published", "uncertain"}
    PROVE  LET s == [Idle EXCEPT !.pc = "settling", !.verdict = verdict]
           IN s \in Session /\ SessionFits(s)
BY DEF Idle, Session, SessionFits

LEMMA OutsideType ==
    ASSUME NEW f \in [Recipients -> 0..Many], NEW r \in Recipients
    PROVE  AddOne(f, r) \in [Recipients -> 0..Many]
BY DEF AddOne, Many

LEMMA RowType ==
    ASSUME TypeInv, NEW r \in Recipients, NEW status \in RowStatus, SetRow(r, status)
    PROVE  row' \in [Recipients -> Row]
BY DEF TypeInv, TypeOK, SetRow, Row

\* Steps before a call: the session, and perhaps the lock or a row.
LEMMA CycleType ==
    ASSUME TypeInv, NEW w \in Workers,
           ListDue(w) \/ SkipLocked(w) \/ BeginJob(w) \/ RefuseJob(w)
    PROVE  TypeInv'
<1>1. CASE ListDue(w)
  <2>1. At(w, "listed") \in Session /\ SessionFits(At(w, "listed"))
    BY <1>1 DEF ListDue, At, TypeInv, TypeOK, WellFormed, SessionFits, Session
  <2> QED BY <1>1, <2>1, GotoType DEF ListDue, TypeInv, TypeOK, outside
<1>2. CASE SkipLocked(w)
  BY <1>2, IdleFits, GotoType DEF SkipLocked, Leave, TypeInv, TypeOK, outside
<1>3. CASE BeginJob(w)
  <2> DEFINE s == [At(w, "looking") EXCEPT !.todo = opted]
  <2>1. s \in Session /\ SessionFits(s)
    BY ZenonT(40), <1>3 DEF BeginJob, At, TypeInv, TypeOK, WellFormed, SessionFits, Session
  <2>2. Goto(w, s)
    BY <1>3 DEF BeginJob
  <2> QED BY <1>3, <2>1, <2>2, GotoType DEF BeginJob, TypeInv, TypeOK, outside
<1>4. CASE RefuseJob(w)
  BY <1>4, FailFits, GotoType DEF RefuseJob, Fail, TypeInv, TypeOK, outside
<1> QED BY <1>1, <1>2, <1>3, <1>4

LEMMA LookUpType ==
    ASSUME TypeInv, NEW w \in Workers, NEW r \in Recipients, LookUp(w, r)
    PROVE  TypeInv'
<1> DEFINE s == IF row[r].status \in Handled
                THEN [sess[w] EXCEPT !.todo = @ \ {r}]
                ELSE [At(w, "claiming") EXCEPT !.cur = r, !.existed = row[r].status # "none"]
<1>1. s \in Session /\ SessionFits(s)
  BY ZenonT(40) DEF LookUp, At, TypeInv, TypeOK, WellFormed, SessionFits, Session
<1>2. Goto(w, s)
  BY DEF LookUp
<1> QED BY <1>1, <1>2, GotoType DEF LookUp, TypeInv, TypeOK, outside

LEMMA ClaimType ==
    ASSUME TypeInv, NEW w \in Workers, Claim(w)
    PROVE  TypeInv'
<1>1. sess[w] \in Session /\ SessionFits(sess[w]) /\ sess[w].cur \in Recipients
  BY DEF Claim, TypeInv, TypeOK, WellFormed, SessionFits
<1>2. lock' \in Workers \cup {None}
  BY DEF Claim, Unlock, TypeInv, TypeOK
<1>3. CASE InsertLost(w)
  <2> DEFINE s == [At(w, "looking") EXCEPT !.todo = @ \ {sess[w].cur}, !.cur = None]
  <2>1. s \in Session /\ SessionFits(s)
    BY <1>1 DEF Claim, At, SessionFits, Session
  <2>2. Goto(w, s) /\ UNCHANGED row
    BY <1>3 DEF Claim
  <2> QED BY <1>2, <2>1, <2>2, GotoType DEF Claim, TypeInv, TypeOK, outside
<1>4. CASE ~InsertLost(w)
  <2> DEFINE s == [At(w, "claimed") EXCEPT !.existed = FALSE]
  <2>1. s \in Session /\ SessionFits(s)
    BY <1>1 DEF Claim, At, SessionFits, Session
  <2>2. Goto(w, s) /\ SetRow(sess[w].cur, "processing")
    BY <1>4 DEF Claim
  <2>3. row' \in [Recipients -> Row]
    BY <1>1, <2>2, RowType DEF RowStatus
  <2> QED BY <1>2, <2>1, <2>2, <2>3, GotoType DEF Claim, TypeInv, TypeOK, outside
<1> QED BY <1>3, <1>4

\* The call: its request, Meta's decision and what the worker makes of it.
LEMMA SendType ==
    ASSUME TypeInv, NEW w \in Workers, Send(w) \/ MetaDecides(w)
    PROVE  TypeInv'
<1>1. sess[w] \in Session /\ SessionFits(sess[w])
  BY DEF TypeInv, TypeOK, WellFormed
<1>2. CASE Send(w)
  <2> DEFINE s == [At(w, "awaiting") EXCEPT !.answer = "pending"]
  <2>1. s \in Session /\ SessionFits(s)
    BY <1>1, <1>2 DEF Send, At, SessionFits, Session
  <2>2. Goto(w, s)
    BY <1>2 DEF Send
  <2> QED BY <1>2, <2>1, <2>2, GotoType DEF Send, TypeInv, TypeOK, outside
<1>3. CASE MetaDecides(w)
  <2>1. sess[w].cur \in Recipients
    BY <1>1, <1>3 DEF MetaDecides, SessionFits
  <2>2. PICK answer \in {"accepted", "dropped"} : Goto(w, [sess[w] EXCEPT !.answer = answer])
    BY <1>3 DEF MetaDecides
  <2>3. accepted' \in [Recipients -> 0..Many]
    BY <1>3, <2>1, OutsideType DEF MetaDecides, TypeInv, TypeOK
  <2> DEFINE s == [sess[w] EXCEPT !.answer = answer]
  <2>4. s \in Session /\ SessionFits(s)
    BY <1>1, <1>3 DEF MetaDecides, SessionFits, Session
  <2> QED BY <1>3, <2>2, <2>3, <2>4, GotoType DEF MetaDecides, TypeInv, TypeOK
<1> QED BY <1>2, <1>3

LEMMA StrayType ==
    ASSUME TypeInv, NEW r \in Recipients, MetaDecidesStray(r)
    PROVE  TypeInv'
<1>1. stray' \in [Recipients -> 0..Many]
  BY DEF MetaDecidesStray, TypeInv, TypeOK, Many
<1>2. accepted' \in [Recipients -> 0..Many]
  BY OutsideType DEF MetaDecidesStray, TypeInv, TypeOK
<1> QED BY <1>1, <1>2 DEF MetaDecidesStray, TypeInv, TypeOK, WellFormed, SessionFits

LEMMA ForsakeType ==
    ASSUME TypeInv, NEW w \in Workers, Forsake(w)
    PROVE  stray' \in [Recipients -> 0..Many]
<1>1. sess[w].answer = "pending" => sess[w].cur \in Recipients
  BY DEF TypeInv, WellFormed, SessionFits
<1> QED BY <1>1, OutsideType DEF Forsake, TypeInv, TypeOK

LEMMA AnswerType ==
    ASSUME TypeInv, NEW w \in Workers, Answer(w)
    PROVE  TypeInv'
<1>1. sess[w] \in Session /\ sess[w].cur \in Recipients
  BY DEF Answer, AnswerSent, AnswerUnclear, AnswerRefused, TypeInv, TypeOK, WellFormed, SessionFits
<1>2. CASE AnswerSent(w)
  <2> DEFINE s == [Idle EXCEPT !.pc = "looking", !.todo = sess[w].todo \ {sess[w].cur}]
  <2>1. s \in Session /\ SessionFits(s)
    BY <1>1 DEF Idle, SessionFits, Session
  <2>2. Goto(w, s)
    BY <1>2 DEF AnswerSent
  <2>3. row' \in [Recipients -> Row]
    BY <1>1, <1>2 DEF AnswerSent, TypeInv, TypeOK, Row, RowStatus
  <2> QED BY <1>2, <2>1, <2>2, <2>3, GotoType DEF AnswerSent, TypeInv, TypeOK, outside
<1>3. CASE AnswerUnclear(w)
  <2>1. row' \in [Recipients -> Row]
    BY <1>1, <1>3, RowType DEF AnswerUnclear, RowStatus
  <2>2. sess' \in [Workers -> Session] /\ WellFormed'
    BY <1>3, FailFits, GotoType DEF AnswerUnclear, Fail
  <2> QED BY <1>3, <2>1, <2>2, ForsakeType DEF AnswerUnclear, TypeInv, TypeOK
<1>4. CASE AnswerRefused(w)
  <2>1. row' \in [Recipients -> Row]
    BY <1>1, <1>4, RowType DEF AnswerRefused, RowStatus
  <2>2. sess' \in [Workers -> Session] /\ WellFormed'
    BY <1>4, FailFits, GotoType DEF AnswerRefused, Fail
  <2> QED BY <1>4, <2>1, <2>2 DEF AnswerRefused, TypeInv, TypeOK, outside
<1> QED BY <1>2, <1>3, <1>4 DEF Answer

\* The end of a cycle.
LEMMA EndType ==
    ASSUME TypeInv, NEW w \in Workers,
           TallyRows(w) \/ Settle(w) \/ MarkError(w) \/ Abandon(w)
    PROVE  TypeInv'
<1>1. SessionFits(sess[w])
  BY DEF TypeInv, WellFormed
<1>2. CASE TallyRows(w)
  <2>1. lock' \in Workers \cup {None}
    BY <1>2 DEF TallyRows, Unlock, TypeInv, TypeOK
  <2>2. Tally = "none" \/ Tally \in {"published", "uncertain"}
    BY DEF Tally
  <2>3. sess' \in [Workers -> Session] /\ WellFormed'
    BY <1>2, <2>2, IdleFits, SettleFits, GotoType DEF TallyRows, Leave
  <2> QED BY <1>2, <2>1, <2>3 DEF TallyRows, TypeInv, TypeOK, outside
<1>3. CASE Settle(w)
  <2>1. job' \in Job
    BY <1>1, <1>3 DEF Settle, Settled, SessionFits, TypeInv, TypeOK, Job, JobStatus
  <2>2. sess' \in [Workers -> Session] /\ WellFormed'
    BY <1>3, IdleFits, GotoType DEF Settle, Leave
  <2> QED BY <1>3, <2>1, <2>2 DEF Settle, TypeInv, TypeOK, outside
<1>4. CASE MarkError(w)
  <2> DEFINE n == IF job.attempts < MaxPublishAttempts THEN job.attempts + 1 ELSE MaxPublishAttempts
  <2>1. job' \in Job
    <3>1. job \in Job /\ n \in 0..MaxPublishAttempts /\ sess[w].verdict \in JobStatus
      BY <1>1, <1>4, ConstantsAssumption DEF MarkError, SessionFits, TypeInv, TypeOK, Job, JobStatus
    <3> QED BY <1>4, <3>1 DEF MarkError, Marked, Job, JobStatus
  <2>2. sess' \in [Workers -> Session] /\ WellFormed'
    BY <1>4, IdleFits, GotoType DEF MarkError, Leave
  <2> QED BY <1>4, <2>1, <2>2 DEF MarkError, TypeInv, TypeOK, outside
<1>5. CASE Abandon(w)
  <2>1. lock' \in Workers \cup {None}
    BY <1>5 DEF Abandon, Unlock, TypeInv, TypeOK
  <2>2. sess' \in [Workers -> Session] /\ WellFormed'
    BY <1>5, IdleFits, GotoType DEF Abandon, Leave
  <2> QED BY <1>5, <2>1, <2>2, ForsakeType DEF Abandon, TypeInv, TypeOK
<1> QED BY <1>2, <1>3, <1>4, <1>5

\* What the rest does: time, the webhook and the dashboard leave the sessions
\* and the wire alone.
Others == UNCHANGED <<sess, stray, accepted>>

LEMMA OthersStep ==
    ASSUME TypeInv, RestOver \/ WebhookNext \/ DashboardNext
    PROVE  TypeInv' /\ Others
<1>1. CASE RestOver
  BY <1>1 DEF RestOver, Others, TypeInv, TypeOK, Job, WellFormed, outside
<1>2. ASSUME NEW r \in Recipients, NEW status \in {"sent", "delivered", "failed"}, Receipt(r, status)
      PROVE  TypeInv' /\ Others
  <2>1. row' \in [Recipients -> Row]
    BY <1>2, RowType DEF Receipt, RowStatus
  <2> QED BY <1>2, <2>1 DEF Receipt, Others, TypeInv, TypeOK, WellFormed, outside
<1>3. ASSUME NEW r \in Recipients, OptChange(r)
      PROVE  TypeInv' /\ Others
  BY <1>3 DEF OptChange, Others, TypeInv, TypeOK, WellFormed, outside
<1>4. ASSUME NEW on \in BOOLEAN, SetStop(on)
      PROVE  TypeInv' /\ Others
  BY <1>4 DEF SetStop, Others, TypeInv, TypeOK, WellFormed, outside
<1>5. ASSUME NEW op \in Requests \ {"none"}, Begin(op)
      PROVE  TypeInv' /\ Others
  BY <1>5 DEF Begin, Others, TypeInv, TypeOK, WellFormed, outside
<1>6. CASE CancelJob \/ EditText \/ ApproveJob \/ DeselectJob
  <2>1. job' \in Job
    BY <1>6 DEF CancelJob, EditText, ApproveJob, DeselectJob, Commit, TypeInv, TypeOK, Job, JobStatus
  <2> QED BY <1>6, <2>1 DEF CancelJob, EditText, ApproveJob, DeselectJob, Commit, Others,
                            TypeInv, TypeOK, WellFormed, outside, Requests
<1> QED BY <1>1, <1>2, <1>3, <1>4, <1>5, <1>6 DEF WebhookNext, DashboardNext

LEMMA TypeStep ==
    ASSUME TypeInv, [Next]_vars
    PROVE  TypeInv'
<1>1. ASSUME NEW w \in Workers, WorkerNext(w)
      PROVE  TypeInv'
  BY <1>1, CycleType, LookUpType, ClaimType, SendType, AnswerType, EndType DEF WorkerNext
<1>2. CASE MetaNext
  BY <1>2, SendType, StrayType DEF MetaNext
<1>3. CASE RestOver \/ WebhookNext \/ DashboardNext
  BY <1>3, OthersStep
<1>4. CASE UNCHANGED vars
  BY <1>4 DEF vars, TypeInv, TypeOK, WellFormed
<1> QED BY <1>1, <1>2, <1>3, <1>4 DEF Next

LEMMA TypeAlways == Spec => []TypeInv
BY TypeInit, TypeStep, PTL DEF Spec

\* Every row, session and request of a delivery keeps its type, under every
\* peril; in particular the attempts of a job stay within their budget.
THEOREM TypeCorrect == Spec => []TypeOK
<1>1. TypeInv => TypeOK
  BY DEF TypeInv
<1> QED BY <1>1, TypeAlways, PTL

-----------------------------------------------------------------------------
(* Every action keeps the invariant                                        *)

LEMMA RowInit == Init => RowInv
BY DEF Init, Idle, RowInv, CallsOwnRows, RetriesAlone, CallsAlone, RowsTell, IdsOfSent,
       DeliveredLate, InCall, Claiming

\* A worker that is, or comes, to the job finds no delivered row.
LEMMA NothingDelivered ==
    ASSUME RowInv, NEW w \in Workers, sess[w].pc # "idle" \/ ~job.platform
    PROVE  \A r \in Recipients : row[r].status # "delivered"
BY DEF RowInv, DeliveredLate, Left

\* A worker goes to a state in which it is at no row.
LEMMA Retires ==
    ASSUME TypeInv, RowInv, NEW w \in Workers, NEW s, Goto(w, s),
           s.pc \notin {"claiming", "claimed", "awaiting"},
           sess[w].pc # "idle" \/ ~job.platform,
           UNCHANGED <<row, outside>>
    PROVE  RowInv'
<1>1. \A v \in Workers : sess'[v] = IF v = w THEN s ELSE sess[v]
  BY DEF Goto, TypeInv, TypeOK
<1>2. CallsOwnRows' /\ RetriesAlone' /\ CallsAlone'
  BY <1>1 DEF RowInv, CallsOwnRows, RetriesAlone, CallsAlone, InCall, Claiming, outside
<1>3. RowsTell' /\ IdsOfSent'
  BY DEF RowInv, RowsTell, IdsOfSent, outside
<1>4. DeliveredLate'
  BY NothingDelivered DEF DeliveredLate
<1> QED BY <1>2, <1>3, <1>4 DEF RowInv

LEMMA CycleKeepsRows ==
    ASSUME TypeInv, RowInv, NEW w \in Workers,
           \/ ListDue(w) \/ SkipLocked(w) \/ BeginJob(w) \/ RefuseJob(w)
           \/ TallyRows(w) \/ Settle(w) \/ MarkError(w)
    PROVE  RowInv'
<1>1. CASE ListDue(w)
  BY <1>1, Retires DEF ListDue, At, TypeInv, TypeOK, Session
<1>2. CASE SkipLocked(w) \/ Settle(w) \/ MarkError(w)
  BY <1>2, Retires DEF SkipLocked, Settle, MarkError, Leave, Idle
<1>3. CASE BeginJob(w)
  BY <1>3, Retires DEF BeginJob, At, TypeInv, TypeOK, Session
<1>4. CASE RefuseJob(w)
  BY <1>4, Retires DEF RefuseJob, Fail, Idle
<1>5. CASE TallyRows(w)
  BY <1>5, Retires DEF TallyRows, Leave, Idle
<1> QED BY <1>1, <1>2, <1>3, <1>4, <1>5

\* A row that is to be tried again has failed, and nobody else is at it.
LEMMA LookUpKeepsRows ==
    ASSUME Orderly, TypeInv, RowInv, NEW w \in Workers, NEW r \in Recipients, LookUp(w, r)
    PROVE  RowInv'
<1>1. ~Overtaken(w, r) /\ sess[w].pc = "looking"
  BY DEF LookUp, Orderly
<1>2. row[r].status \in RowStatus /\ row[r].status # "delivered"
  BY <1>1, NothingDelivered DEF TypeInv, TypeOK, Row
<1>3. CASE row[r].status \in Handled
  BY <1>1, <1>3, Retires DEF LookUp, TypeInv, TypeOK, Session
<1>4. CASE row[r].status \notin Handled
  <2> DEFINE s == [At(w, "claiming") EXCEPT !.cur = r, !.existed = row[r].status # "none"]
  <2>1. s.pc = "claiming" /\ s.cur = r /\ s.existed = (row[r].status # "none")
    BY DEF At, TypeInv, TypeOK, Session
  <2>2. Goto(w, s) /\ UNCHANGED <<job, row, outside>>
    BY <1>4 DEF LookUp
  <2> HIDE DEF s
  <2>3. \A v \in Workers : sess'[v] = IF v = w THEN s ELSE sess[v]
    BY <2>2 DEF Goto, TypeInv, TypeOK
  <2>4. row[r].status \in {"none", "failed"}
    BY <1>2, <1>4 DEF RowStatus, Handled
  <2>5. CallsOwnRows' /\ CallsAlone'
    BY <2>1, <2>2, <2>3 DEF RowInv, CallsOwnRows, CallsAlone, InCall, outside
  <2>6. RetriesAlone'
    <3>1. \A v \in Workers \ {w} : row[r].status # "none" => ~Claiming(v, r)
      BY <1>1 DEF Overtaken, Claiming
    <3>2. \A v \in Workers \ {w} : Claiming(v, r) => ~sess[v].existed
      BY <2>4, <3>1 DEF RowInv, RetriesAlone
    <3>3. \A v \in Workers, q \in Recipients :
              Claiming(v, q)' => (v = w /\ q = r) \/ (v # w /\ Claiming(v, q))
      BY <2>1, <2>3 DEF Claiming
    <3> SUFFICES ASSUME NEW v \in Workers, NEW q \in Recipients,
                        Claiming(v, q)', sess'[v].existed, NEW u \in Workers
                 PROVE  row[q].status = "failed" /\ (Claiming(u, q)' => u = v)
      BY <2>2 DEF RetriesAlone
    <3>4. CASE v = w
      BY <2>1, <2>3, <2>4, <3>1, <3>3, <3>4
    <3>5. CASE v # w
      <4>1. Claiming(v, q) /\ sess[v].existed
        BY <2>3, <3>3, <3>5
      <4>2. row[q].status = "failed" /\ (Claiming(u, q) => u = v)
        BY <4>1 DEF RowInv, RetriesAlone
      <4>3. ~(u = w /\ q = r)
        BY <3>2, <3>5, <4>1
      <4> QED BY <3>3, <4>2, <4>3
    <3> QED BY <3>4, <3>5
  <2>7. RowsTell' /\ IdsOfSent'
    BY <2>2 DEF RowInv, RowsTell, IdsOfSent, outside
  <2>8. DeliveredLate'
    BY <1>1, <2>2, NothingDelivered DEF DeliveredLate
  <2> QED BY <2>5, <2>6, <2>7, <2>8 DEF RowInv
<1> QED BY <1>3, <1>4

\* The row a worker claims: what it was, and that nobody is in a call for it.
LEMMA ClaimedRow ==
    ASSUME TypeInv, RowInv, NEW w \in Workers, Claim(w), ~InsertLost(w)
    PROVE  /\ row[sess[w].cur].status \in {"none", "failed"}
           /\ \A v \in Workers : ~InCall(v, sess[w].cur)
           /\ \A v \in Workers \ {w} : ~(Claiming(v, sess[w].cur) /\ sess[v].existed)
<1>1. sess[w].cur \in Recipients /\ Claiming(w, sess[w].cur)
  BY DEF Claim, TypeInv, WellFormed, SessionFits, Claiming
<1>2. row[sess[w].cur].status \in {"none", "failed"}
  BY <1>1 DEF InsertLost, RowInv, RetriesAlone
<1> QED BY <1>1, <1>2 DEF RowInv, RetriesAlone, CallsOwnRows

LEMMA ClaimKeepsRows ==
    ASSUME TypeInv, RowInv, NEW w \in Workers, Claim(w)
    PROVE  RowInv'
<1> DEFINE r == sess[w].cur
<1>1. sess[w].pc = "claiming" /\ r \in Recipients /\ sess[w] \in Session
  BY DEF Claim, TypeInv, TypeOK, WellFormed, SessionFits
<1>2. CASE InsertLost(w)
  <2> DEFINE s == [At(w, "looking") EXCEPT !.todo = @ \ {r}, !.cur = None]
  <2>1. s.pc = "looking" /\ Goto(w, s) /\ UNCHANGED <<row, outside>>
    BY <1>1, <1>2 DEF Claim, At, Session
  <2> QED BY <1>1, <2>1, Retires
<1>3. CASE ~InsertLost(w)
  <2> DEFINE s == [At(w, "claimed") EXCEPT !.existed = FALSE]
  <2>1. s.pc = "claimed" /\ s.cur = r /\ s.answer = "none" /\ ~s.existed
    BY <1>1 DEF At, Session, TypeInv, WellFormed, SessionFits
  <2>2. Goto(w, s) /\ SetRow(r, "processing") /\ UNCHANGED <<job, outside>>
    BY <1>3 DEF Claim
  <2> HIDE DEF s
  <2>3. \A v \in Workers : sess'[v] = IF v = w THEN s ELSE sess[v]
    BY <2>2 DEF Goto, TypeInv, TypeOK
  <2>4. \A q \in Recipients : /\ row'[q].status = IF q = r THEN "processing" ELSE row[q].status
                              /\ row'[q].id = row[q].id
    BY <1>1, <2>2 DEF SetRow, TypeInv, TypeOK, Row
  <2>5. /\ row[r].status \in {"none", "failed"}
        /\ \A v \in Workers : ~InCall(v, r)
        /\ \A v \in Workers \ {w} : ~(Claiming(v, r) /\ sess[v].existed)
    BY <1>3, ClaimedRow
  <2>6. CallsOwnRows'
    BY <2>1, <2>3, <2>4, <2>5 DEF RowInv, CallsOwnRows, InCall
  <2>7. RetriesAlone'
    BY <2>1, <2>3, <2>4, <2>5 DEF RowInv, RetriesAlone, Claiming
  <2>8. CallsAlone'
    BY <1>1, <2>1, <2>2, <2>3, <2>5 DEF RowInv, CallsAlone, RowsTell, InCall, outside
  <2>9. RowsTell' /\ IdsOfSent'
    BY <1>1, <2>2, <2>4, <2>5 DEF RowInv, RowsTell, IdsOfSent, outside
  <2>10. DeliveredLate'
    BY <1>1, <2>4, NothingDelivered DEF DeliveredLate
  <2> QED BY <2>6, <2>7, <2>8, <2>9, <2>10 DEF RowInv
<1> QED BY <1>2, <1>3

LEMMA SendKeepsRows ==
    ASSUME TypeInv, RowInv, NEW w \in Workers, Send(w)
    PROVE  RowInv'
<1> DEFINE s == [At(w, "awaiting") EXCEPT !.answer = "pending"]
<1>1. /\ sess[w].pc = "claimed" /\ sess[w].answer = "none"
      /\ s.pc = "awaiting" /\ s.cur = sess[w].cur /\ s.answer = "pending"
  BY DEF Send, At, Session, TypeInv, TypeOK, WellFormed, SessionFits
<1>2. Goto(w, s) /\ UNCHANGED <<job, row, outside>>
  BY DEF Send
<1> HIDE DEF s
<1>3. \A v \in Workers : sess'[v] = IF v = w THEN s ELSE sess[v]
  BY <1>2 DEF Goto, TypeInv, TypeOK
<1>4. CallsOwnRows' /\ RetriesAlone' /\ CallsAlone'
  BY <1>1, <1>2, <1>3
     DEF RowInv, CallsOwnRows, RetriesAlone, CallsAlone, InCall, Claiming, outside
<1>5. RowsTell' /\ IdsOfSent'
  BY <1>2 DEF RowInv, RowsTell, IdsOfSent, outside
<1>6. DeliveredLate'
  BY <1>1, <1>2, NothingDelivered DEF DeliveredLate
<1> QED BY <1>4, <1>5, <1>6 DEF RowInv

\* A message is accepted when nothing of the row's was accepted before.
LEMMA AddFirst ==
    ASSUME NEW f \in [Recipients -> 0..Many], NEW r \in Recipients, f[r] = 0
    PROVE  AddOne(f, r) = [f EXCEPT ![r] = 1]
BY DEF AddOne, Many

LEMMA DecisionKeepsRows ==
    ASSUME TypeInv, RowInv, NEW w \in Workers, MetaDecides(w)
    PROVE  RowInv'
<1> DEFINE r == sess[w].cur
<1>1. sess[w].pc = "awaiting" /\ r \in Recipients /\ InCall(w, r) /\ sess[w] \in Session
  BY DEF MetaDecides, TypeInv, TypeOK, WellFormed, SessionFits, InCall
<1>2. accepted[r] = 0 /\ stray[r] = 0 /\ row[r].status = "processing"
  BY <1>1 DEF MetaDecides, RowInv, CallsAlone, CallsOwnRows
<1>3. PICK s : /\ Goto(w, s) /\ s.pc = "awaiting" /\ s.cur = r
               /\ \/ s.answer = "accepted" /\ accepted' = [accepted EXCEPT ![r] = 1]
                  \/ s.answer = "dropped" /\ UNCHANGED accepted
  <2>1. CASE accepted' = AddOne(accepted, r)
             /\ Goto(w, [sess[w] EXCEPT !.answer = "accepted"])
    BY <1>1, <1>2, <2>1, AddFirst DEF TypeInv, TypeOK, Session
  <2>2. CASE UNCHANGED accepted /\ Goto(w, [sess[w] EXCEPT !.answer = "dropped"])
    BY <1>1, <2>2 DEF Session
  <2> QED BY <2>1, <2>2 DEF MetaDecides
<1>4. UNCHANGED <<job, row, stray>>
  BY DEF MetaDecides
<1>5. \A v \in Workers : sess'[v] = IF v = w THEN s ELSE sess[v]
  BY <1>3 DEF Goto, TypeInv, TypeOK
<1>6. CallsOwnRows' /\ RetriesAlone'
  BY <1>1, <1>3, <1>4, <1>5 DEF RowInv, CallsOwnRows, RetriesAlone, InCall, Claiming
<1>7. CallsAlone'
  <2> SUFFICES ASSUME NEW v \in Workers, NEW q \in Recipients, InCall(v, q)'
               PROVE  /\ stray'[q] = 0
                      /\ accepted'[q] = IF sess'[v].answer = "accepted" THEN 1 ELSE 0
    BY DEF CallsAlone
  <2>1. CASE q = r
    <3>1. v = w
      BY <1>1, <1>3, <1>5, <2>1 DEF RowInv, CallsOwnRows, InCall
    <3> QED BY <1>2, <1>3, <1>4, <1>5, <2>1, <3>1 DEF TypeInv, TypeOK
  <2>2. CASE q # r
    BY <1>1, <1>3, <1>4, <1>5, <2>2 DEF RowInv, CallsAlone, InCall, TypeInv, TypeOK
  <2> QED BY <2>1, <2>2
<1>8. RowsTell' /\ IdsOfSent'
  <2>1. \A q \in Recipients : accepted'[q] = accepted[q] \/ (q = r /\ accepted'[q] = 1)
    BY <1>1, <1>3 DEF TypeInv, TypeOK
  <2> QED BY <1>1, <1>2, <1>4, <2>1 DEF RowInv, RowsTell, IdsOfSent
<1>9. DeliveredLate'
  BY <1>1, <1>4, NothingDelivered DEF DeliveredLate
<1> QED BY <1>6, <1>7, <1>8, <1>9 DEF RowInv

\* A stray request is the only one of its row, and the row is unclear.
LEMMA StrayAlone ==
    ASSUME TypeInv, RowInv, NEW r \in Recipients, stray[r] > 0
    PROVE  /\ stray[r] = 1 /\ accepted[r] = 0
           /\ row[r].status \in {"processing", "uncertain"}
           /\ \A w \in Workers : ~InCall(w, r)
<1>1. stray[r] \in 0..2 /\ accepted[r] \in 0..2 /\ row[r].status \in RowStatus
  BY DEF TypeInv, TypeOK, Many, Row
<1> QED BY <1>1 DEF RowInv, RowsTell, CallsAlone, RowStatus

LEMMA StrayKeepsRows ==
    ASSUME TypeInv, RowInv, NEW r \in Recipients, MetaDecidesStray(r)
    PROVE  RowInv'
<1>1. /\ stray[r] = 1 /\ accepted[r] = 0 /\ row[r].status \in {"processing", "uncertain"}
      /\ \A w \in Workers : ~InCall(w, r)
  BY StrayAlone DEF MetaDecidesStray
<1>2. /\ stray' = [stray EXCEPT ![r] = 0]
      /\ accepted' = accepted \/ accepted' = [accepted EXCEPT ![r] = 1]
  BY <1>1, AddFirst DEF MetaDecidesStray, TypeInv, TypeOK
<1>3. UNCHANGED <<job, row, sess>>
  BY DEF MetaDecidesStray
<1>4. /\ \A q \in Recipients \ {r} : stray'[q] = stray[q] /\ accepted'[q] = accepted[q]
      /\ stray'[r] = 0 /\ accepted'[r] \in {0, 1}
  BY <1>1, <1>2 DEF TypeInv, TypeOK
<1>5. CallsOwnRows' /\ RetriesAlone' /\ IdsOfSent'
  BY <1>3 DEF RowInv, CallsOwnRows, RetriesAlone, IdsOfSent, InCall, Claiming
<1>6. CallsAlone' /\ RowsTell'
  BY <1>1, <1>3, <1>4 DEF RowInv, CallsAlone, RowsTell, InCall
<1>7. DeliveredLate'
  BY <1>3 DEF RowInv, DeliveredLate, Left
<1> QED BY <1>5, <1>6, <1>7 DEF RowInv

\* A worker leaves its call and writes what it knows into the row: what it
\* writes must be true, and nothing may stay on the wire unless it is unclear.
LEMMA EndsCall ==
    ASSUME TypeInv, RowInv, NEW w \in Workers, NEW r \in Recipients, InCall(w, r),
           NEW s, Goto(w, s), s.pc \notin {"claiming", "claimed", "awaiting"},
           NEW new \in Row, row' = [row EXCEPT ![r] = new], new.status # "delivered",
           UNCHANGED <<job, accepted>>, Forsake(w),
           new.id => new.status = "sent",
           new.status \in {"none", "failed"} => accepted[r] = 0 /\ sess[w].answer # "pending",
           new.status = "sent" => accepted[r] = 1
    PROVE  RowInv'
<1>1. \A v \in Workers : sess'[v] = IF v = w THEN s ELSE sess[v]
  BY DEF Goto, TypeInv, TypeOK
<1>2. \A q \in Recipients : row'[q] = IF q = r THEN new ELSE row[q]
  BY DEF TypeInv, TypeOK
<1>3. /\ stray[r] = 0 /\ accepted[r] = IF sess[w].answer = "accepted" THEN 1 ELSE 0
      /\ \A v \in Workers : InCall(v, r) => v = w
      /\ row[r].status = "processing"
  BY DEF RowInv, CallsAlone, CallsOwnRows
<1>4. \A q \in Recipients :
          stray'[q] = IF q = r /\ sess[w].answer = "pending" THEN 1 ELSE stray[q]
  <2>1. sess[w].cur = r
    BY DEF InCall
  <2> QED BY <1>3, <2>1, AddFirst DEF Forsake, TypeInv, TypeOK
<1>5. CallsOwnRows' /\ RetriesAlone' /\ CallsAlone'
  BY <1>1, <1>2, <1>3, <1>4 DEF RowInv, CallsOwnRows, RetriesAlone, CallsAlone, InCall, Claiming
<1>6. RowsTell' /\ IdsOfSent'
  BY <1>2, <1>3, <1>4 DEF RowInv, RowsTell, IdsOfSent
<1>7. DeliveredLate'
  BY <1>2, NothingDelivered DEF DeliveredLate, InCall
<1> QED BY <1>5, <1>6, <1>7 DEF RowInv

LEMMA AnswerKeepsRows ==
    ASSUME Orderly, TypeInv, RowInv, NEW w \in Workers, Answer(w)
    PROVE  RowInv'
<1> DEFINE r == sess[w].cur
<1>1. r \in Recipients /\ InCall(w, r) /\ row[r] \in Row
  BY DEF Answer, AnswerSent, AnswerUnclear, AnswerRefused, InCall, TypeInv, TypeOK, WellFormed,
         SessionFits
<1>2. /\ row[r].status = "processing" /\ ~row[r].id
      /\ accepted[r] = IF sess[w].answer = "accepted" THEN 1 ELSE 0
  BY <1>1 DEF RowInv, CallsOwnRows, CallsAlone, IdsOfSent
<1>3. CASE AnswerSent(w)
  <2> DEFINE new == [status |-> "sent", id |-> TRUE]
  <2>1. new \in Row /\ new.id = TRUE /\ new.status = "sent"
    BY DEF Row, RowStatus
  <2>2. row' = [row EXCEPT ![r] = new] /\ accepted[r] = 1
    BY <1>2, <1>3 DEF AnswerSent
  <2>3. UNCHANGED <<job, accepted>> /\ Forsake(w)
    BY <1>3 DEF AnswerSent, Forsake, outside
  <2> DEFINE s == [Idle EXCEPT !.pc = "looking", !.todo = sess[w].todo \ {r}]
  <2>4. Goto(w, s) /\ s.pc = "looking"
    BY <1>3 DEF AnswerSent, Idle
  <2> HIDE DEF new, s
  <2> QED BY <1>1, <2>1, <2>2, <2>3, <2>4, EndsCall
<1>4. CASE AnswerUnclear(w)
  <2> DEFINE new == [row[r] EXCEPT !.status = "uncertain"]
  <2>1. new \in Row /\ ~new.id /\ new.status = "uncertain"
    BY <1>1, <1>2 DEF Row, RowStatus
  <2>2. row' = [row EXCEPT ![r] = new]
    BY <1>1, <1>4 DEF AnswerUnclear, SetRow, TypeInv, TypeOK
  <2>3. UNCHANGED <<job, accepted>> /\ Forsake(w)
    BY <1>4 DEF AnswerUnclear
  <2> DEFINE s == [Idle EXCEPT !.pc = "failing", !.verdict = "uncertain"]
  <2>4. Goto(w, s) /\ s.pc = "failing"
    BY <1>4 DEF AnswerUnclear, Fail, Idle
  <2> HIDE DEF new, s
  <2> QED BY <1>1, <2>1, <2>2, <2>3, <2>4, EndsCall
<1>5. CASE AnswerRefused(w)
  <2> DEFINE new == [row[r] EXCEPT !.status = "failed"]
  <2>1. new \in Row /\ ~new.id /\ new.status = "failed"
    BY <1>1, <1>2 DEF Row, RowStatus
  <2>2. row' = [row EXCEPT ![r] = new]
    BY <1>1, <1>5 DEF AnswerRefused, SetRow, TypeInv, TypeOK
  <2>3. sess[w].answer \notin {"pending", "accepted"}
    BY <1>5 DEF AnswerRefused, Orderly, TypeInv, WellFormed, SessionFits
  <2>4. UNCHANGED <<job, accepted>> /\ Forsake(w)
    BY <1>5, <2>3 DEF AnswerRefused, Forsake, outside
  <2> DEFINE s == [Idle EXCEPT !.pc = "failing", !.verdict = "failed"]
  <2>5. Goto(w, s) /\ s.pc = "failing"
    BY <1>5 DEF AnswerRefused, Fail, Idle
  <2> HIDE DEF new, s
  <2> QED BY <1>1, <1>2, <2>1, <2>2, <2>3, <2>4, <2>5, EndsCall
<1> QED BY <1>3, <1>4, <1>5 DEF Answer

\* A worker that dies leaves the row in "processing", and its request behind.
LEMMA AbandonKeepsRows ==
    ASSUME TypeInv, RowInv, NEW w \in Workers, Abandon(w)
    PROVE  RowInv'
<1>1. Goto(w, Idle) /\ Idle.pc = "idle" /\ UNCHANGED <<job, row, accepted>> /\ Forsake(w)
  BY DEF Abandon, Leave, Idle
<1>2. CASE sess[w].pc \in {"claimed", "awaiting"}
  <2> DEFINE r == sess[w].cur
  <2>1. r \in Recipients /\ InCall(w, r) /\ row[r] \in Row
    BY <1>2 DEF InCall, TypeInv, TypeOK, WellFormed, SessionFits
  <2>2. row[r].status = "processing" /\ ~row[r].id
    BY <2>1 DEF RowInv, CallsOwnRows, IdsOfSent
  <2>3. row' = [row EXCEPT ![r] = row[r]]
    BY <1>1, <2>1 DEF TypeInv, TypeOK
  <2> QED BY <1>1, <2>1, <2>2, <2>3, EndsCall
<1>3. CASE sess[w].pc \notin {"claimed", "awaiting"}
  <2>1. sess[w].answer = "none"
    BY <1>3 DEF TypeInv, TypeOK, WellFormed, SessionFits, Session
  <2>2. UNCHANGED <<row, outside>>
    BY <1>1, <2>1 DEF Forsake, outside
  <2> QED BY <1>1, <2>2, Retires DEF Abandon
<1> QED BY <1>2, <1>3

\* A receipt is about a message that was sent, when the job is done with.
LEMMA ReceiptRow ==
    ASSUME Orderly, TypeInv, RowInv, NEW r \in Recipients,
           NEW status \in {"sent", "delivered", "failed"}, Receipt(r, status)
    PROVE  /\ row[r].status \in {"sent", "delivered"} /\ status \in {"sent", "delivered"}
           /\ row' = [row EXCEPT ![r].status = status] /\ Left
           /\ UNCHANGED <<job, sess, outside>>
BY DEF Orderly, Receipt, SetRow, RowInv, IdsOfSent

LEMMA OthersKeepRows ==
    ASSUME Orderly, TypeInv, RowInv, RestOver \/ WebhookNext \/ DashboardNext
    PROVE  RowInv'
<1>1. ASSUME NEW r \in Recipients, NEW status \in {"sent", "delivered", "failed"}, Receipt(r, status)
      PROVE  RowInv'
  <2>1. /\ row[r].status \in {"sent", "delivered"} /\ status \in {"sent", "delivered"}
        /\ row' = [row EXCEPT ![r].status = status] /\ Left
        /\ UNCHANGED <<job, sess, outside>>
    BY <1>1, ReceiptRow
  <2>2. \A q \in Recipients : /\ row'[q].status = IF q = r THEN status ELSE row[q].status
                              /\ row'[q].id = row[q].id
    BY <2>1 DEF TypeInv, TypeOK, Row
  <2>3. CallsOwnRows' /\ RetriesAlone' /\ CallsAlone'
    BY <2>1, <2>2 DEF RowInv, CallsOwnRows, RetriesAlone, CallsAlone, InCall, Claiming, outside
  <2>4. RowsTell' /\ IdsOfSent'
    BY <2>1, <2>2 DEF RowInv, RowsTell, IdsOfSent, outside
  <2>5. DeliveredLate'
    BY <2>1 DEF DeliveredLate, Left
  <2> QED BY <2>3, <2>4, <2>5 DEF RowInv
<1>2. CASE RestOver \/ (\E r \in Recipients : OptChange(r)) \/ DashboardNext
  <2>1. UNCHANGED <<row, sess, stray, accepted>> /\ (job.platform => job'.platform)
    BY <1>2 DEF RestOver, OptChange, DashboardNext, SetStop, Begin, CancelJob, EditText,
                ApproveJob, DeselectJob, Commit, outside, TypeInv, TypeOK, Job
  <2>2. CallsOwnRows' /\ RetriesAlone' /\ CallsAlone'
    BY <2>1 DEF RowInv, CallsOwnRows, RetriesAlone, CallsAlone, InCall, Claiming
  <2>3. RowsTell' /\ IdsOfSent' /\ DeliveredLate'
    BY <2>1 DEF RowInv, RowsTell, IdsOfSent, DeliveredLate, Left
  <2> QED BY <2>2, <2>3 DEF RowInv
<1> QED BY <1>1, <1>2 DEF WebhookNext

LEMMA RowStep ==
    ASSUME Orderly, TypeInv, RowInv, [Next]_vars
    PROVE  RowInv'
<1>1. ASSUME NEW w \in Workers, WorkerNext(w)
      PROVE  RowInv'
  BY <1>1, CycleKeepsRows, LookUpKeepsRows, ClaimKeepsRows, SendKeepsRows, AnswerKeepsRows,
     AbandonKeepsRows DEF WorkerNext
<1>2. CASE MetaNext
  BY <1>2, DecisionKeepsRows, StrayKeepsRows DEF MetaNext
<1>3. CASE RestOver \/ WebhookNext \/ DashboardNext
  BY <1>3, OthersKeepRows
<1>4. CASE UNCHANGED vars
  BY <1>4 DEF vars, outside, RowInv, CallsOwnRows, RetriesAlone, CallsAlone, RowsTell, IdsOfSent,
              DeliveredLate, InCall, Claiming, Left
<1> QED BY <1>1, <1>2, <1>3, <1>4 DEF Next

LEMMA RowAlways == ASSUME Orderly PROVE Spec => [](TypeInv /\ RowInv)
<1>1. Init => TypeInv /\ RowInv
  BY TypeInit, RowInit
<1>2. TypeInv /\ RowInv /\ [Next]_vars => (TypeInv /\ RowInv)'
  BY TypeStep, RowStep
<1> QED BY <1>1, <1>2, PTL DEF Spec

-----------------------------------------------------------------------------
(* The delivery implements OnceOnly                                        *)

\* What OnceOnly sees of a row.
Seen(status) ==
    CASE status \in {"processing", "uncertain"} -> "calling"
      [] status \in {"sent", "delivered"}       -> "done"
      [] OTHER                                  -> "ready"

\* A step that changes none of what OnceOnly sees.
LEMMA Stutters ==
    ASSUME TypeInv, UNCHANGED accepted,
           \A r \in Recipients : Seen(row'[r].status) = Seen(row[r].status)
    PROVE  [Once!Next]_(Once!vars)
BY DEF Once!vars, Seen

\* A step that changes what it sees of one row.
LEMMA Moves ==
    ASSUME TypeInv, NEW r \in Recipients, NEW from, NEW to,
           Seen(row[r].status) = from, Seen(row'[r].status) = to,
           \A q \in Recipients \ {r} : row'[q] = row[q]
    PROVE  Once!Move(r, from, to)
BY DEF Once!Move, Seen

\* A claim begins a call that was never made, or is known to have failed.
LEMMA ClaimImplements ==
    ASSUME TypeInv, RowInv, NEW w \in Workers, Claim(w)
    PROVE  [Once!Next]_(Once!vars)
<1> DEFINE r == sess[w].cur
<1>1. r \in Recipients /\ UNCHANGED accepted
  BY DEF Claim, outside, TypeInv, WellFormed, SessionFits
<1>2. CASE InsertLost(w)
  <2>1. UNCHANGED row
    BY <1>2 DEF Claim
  <2> QED BY <1>1, <2>1, Stutters
<1>3. CASE ~InsertLost(w)
  <2>1. row' = [row EXCEPT ![r].status = "processing"]
    BY <1>3 DEF Claim, SetRow
  <2>2. row[r].status \in {"none", "failed"} /\ accepted[r] = 0
    BY <1>1, <1>3, ClaimedRow DEF RowInv, RowsTell
  <2>3. /\ row'[r].status = "processing"
        /\ \A q \in Recipients \ {r} : row'[q] = row[q]
    BY <1>1, <2>1 DEF TypeInv, TypeOK, Row
  <2>4. Once!Move(r, "ready", "calling")
    BY <1>1, <2>2, <2>3, Moves DEF Seen
  <2> QED BY <1>1, <2>2, <2>4 DEF Once!Next, Once!Call
<1> QED BY <1>2, <1>3

\* Meta accepts at most one message for a row, and only while the row is in a
\* call or unclear.
LEMMA DecisionImplements ==
    ASSUME TypeInv, RowInv,
           (\E w \in Workers : MetaDecides(w)) \/ (\E r \in Recipients : MetaDecidesStray(r))
    PROVE  [Once!Next]_(Once!vars)
<1>1. UNCHANGED row
  BY DEF MetaDecides, MetaDecidesStray
<1>2. CASE UNCHANGED accepted
  BY <1>1, <1>2, Stutters
<1>3. ASSUME NEW r \in Recipients, row[r].status \in {"processing", "uncertain"},
             accepted[r] = 0, accepted' = AddOne(accepted, r)
      PROVE  [Once!Next]_(Once!vars)
  <2>1. accepted' = [accepted EXCEPT ![r] = 1]
    BY <1>3, AddFirst DEF TypeInv, TypeOK
  <2>2. Once!TakeEffect(r)
    BY <1>1, <1>3, <2>1 DEF Once!TakeEffect
  <2> QED BY <2>2 DEF Once!Next
<1>4. ASSUME NEW w \in Workers, MetaDecides(w), accepted' # accepted
      PROVE  [Once!Next]_(Once!vars)
  <2> DEFINE r == sess[w].cur
  <2>1. r \in Recipients /\ InCall(w, r) /\ accepted' = AddOne(accepted, r)
    BY <1>4 DEF MetaDecides, TypeInv, TypeOK, WellFormed, SessionFits, InCall
  <2>2. row[r].status = "processing" /\ accepted[r] = 0
    BY <1>4, <2>1 DEF MetaDecides, RowInv, CallsOwnRows, CallsAlone
  <2> QED BY <1>3, <2>1, <2>2
<1>5. ASSUME NEW r \in Recipients, MetaDecidesStray(r), accepted' # accepted
      PROVE  [Once!Next]_(Once!vars)
  <2>1. accepted[r] = 0 /\ row[r].status \in {"processing", "uncertain"}
    BY <1>5, StrayAlone DEF MetaDecidesStray
  <2> QED BY <1>3, <1>5, <2>1 DEF MetaDecidesStray
<1> QED BY <1>2, <1>4, <1>5

\* "sent" is written after the message was accepted, "failed" when it was not,
\* and everything else leaves the call open.
LEMMA AnswerImplements ==
    ASSUME Orderly, TypeInv, RowInv, NEW w \in Workers, Answer(w)
    PROVE  [Once!Next]_(Once!vars)
<1> DEFINE r == sess[w].cur
<1>1. r \in Recipients /\ InCall(w, r) /\ UNCHANGED accepted
  BY DEF Answer, AnswerSent, AnswerUnclear, AnswerRefused, InCall, TypeInv, TypeOK, WellFormed,
         SessionFits, outside
<1>2. /\ row[r].status = "processing"
      /\ accepted[r] = IF sess[w].answer = "accepted" THEN 1 ELSE 0
  BY <1>1 DEF RowInv, CallsOwnRows, CallsAlone
<1>3. CASE AnswerSent(w)
  <2>1. accepted[r] = 1 /\ row'[r].status = "sent" /\ \A q \in Recipients \ {r} : row'[q] = row[q]
    BY <1>1, <1>2, <1>3 DEF AnswerSent, TypeInv, TypeOK
  <2>2. Once!Move(r, "calling", "done")
    BY <1>1, <1>2, <2>1, Moves DEF Seen
  <2> QED BY <1>1, <2>1, <2>2 DEF Once!Next, Once!Confirm
<1>4. CASE AnswerUnclear(w)
  <2>1. row'[r].status = "uncertain" /\ \A q \in Recipients \ {r} : row'[q] = row[q]
    BY <1>1, <1>4 DEF AnswerUnclear, SetRow, TypeInv, TypeOK, Row
  <2> QED BY <1>1, <1>2, <2>1, Stutters DEF Seen
<1>5. CASE AnswerRefused(w)
  <2>1. row'[r].status = "failed" /\ \A q \in Recipients \ {r} : row'[q] = row[q]
    BY <1>1, <1>5 DEF AnswerRefused, SetRow, TypeInv, TypeOK, Row
  <2>2. accepted[r] = 0
    BY <1>2, <1>5 DEF AnswerRefused, Orderly, TypeInv, WellFormed, SessionFits
  <2>3. Once!Move(r, "calling", "ready")
    BY <1>1, <1>2, <2>1, Moves DEF Seen
  <2> QED BY <1>1, <2>2, <2>3 DEF Once!Next, Once!Refuse
<1> QED BY <1>3, <1>4, <1>5 DEF Answer

\* A receipt moves a row from one state of a message sent to another.
LEMMA ReceiptImplements ==
    ASSUME Orderly, TypeInv, RowInv, NEW r \in Recipients,
           NEW status \in {"sent", "delivered", "failed"}, Receipt(r, status)
    PROVE  [Once!Next]_(Once!vars)
<1>1. /\ row[r].status \in {"sent", "delivered"} /\ status \in {"sent", "delivered"}
      /\ row' = [row EXCEPT ![r].status = status] /\ UNCHANGED outside
  BY ReceiptRow
<1>2. row'[r].status = status /\ \A q \in Recipients \ {r} : row'[q] = row[q]
  BY <1>1 DEF TypeInv, TypeOK, Row
<1> QED BY <1>1, <1>2, Stutters DEF Seen, outside

LEMMA StepImplements ==
    ASSUME Orderly, TypeInv, RowInv, [Next]_vars
    PROVE  [Once!Next]_(Once!vars)
<1>1. ASSUME NEW w \in Workers, WorkerNext(w)
      PROVE  [Once!Next]_(Once!vars)
  <2>1. CASE Claim(w)
    BY <2>1, ClaimImplements
  <2>2. CASE Answer(w)
    BY <2>2, AnswerImplements
  <2>3. CASE ~Claim(w) /\ ~Answer(w)
    <3>1. UNCHANGED <<row, accepted>>
      BY <1>1, <2>3 DEF WorkerNext, ListDue, SkipLocked, BeginJob, RefuseJob, LookUp, Send,
                        TallyRows, Settle, MarkError, Abandon, outside
    <3> QED BY <3>1, Stutters
  <2> QED BY <2>1, <2>2, <2>3
<1>2. CASE MetaNext
  BY <1>2, DecisionImplements DEF MetaNext
<1>3. ASSUME NEW r \in Recipients, NEW status \in {"sent", "delivered", "failed"}, Receipt(r, status)
      PROVE  [Once!Next]_(Once!vars)
  BY <1>3, ReceiptImplements
<1>4. CASE RestOver \/ (\E r \in Recipients : OptChange(r)) \/ DashboardNext \/ UNCHANGED vars
  <2>1. UNCHANGED <<row, accepted>>
    BY <1>4 DEF RestOver, OptChange, DashboardNext, SetStop, Begin, CancelJob, EditText,
                ApproveJob, DeselectJob, Commit, outside, vars
  <2> QED BY <2>1, Stutters
<1> QED BY <1>1, <1>2, <1>3, <1>4 DEF Next, WebhookNext

\* Nobody gets the message of a job twice, and a call with an unclear end is
\* never begun again: for any number of recipients and workers, whatever dies,
\* is re-approved, cancelled or opts out meanwhile (app/channels/delivery.py).
THEOREM DeliveryOnceOnly == ASSUME Orderly PROVE Spec => ImplementsOnceOnly
<1>1. Init => Once!Init
  BY DEF Init, Once!Init
<1>2. TypeInv /\ RowInv /\ [Next]_vars => [Once!Next]_(Once!vars)
  BY StepImplements
<1> QED BY <1>1, <1>2, RowAlways, PTL DEF Spec, ImplementsOnceOnly, Once!Spec
=============================================================================
