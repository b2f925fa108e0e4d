------------------------- MODULE GenerationJobs_proofs -------------------------
(* Theorems about GenerationJobs, for every value of its constants. *)
EXTENDS GenerationJobs, FiniteSetTheorems, TLAPS

\* What the types rest on: an idle worker is one without a job, and a worker
\* between reserving and billing is at an output.
WellFormed ==
    \A w \in Workers :
        /\ sess[w].pc = "idle" <=> sess[w].job = None
        /\ sess[w].pc \in {"reserved", "calling", "written", "saved"} => sess[w].at \in Outputs

TypeInv == TypeOK /\ WellFormed

\* A worker's step: it writes the rows of its own job and goes on with it, or
\* leaves it.
Goes(w, r, s) ==
    /\ job' = [job EXCEPT ![Job(w)] = r]
    /\ sess' = [sess EXCEPT ![w] = s]
    /\ r \in JobRow
    /\ s \in Session
    /\ s.pc = "idle" <=> s.job = None
    /\ s.pc \in {"reserved", "calling", "written", "saved"} => s.at \in Outputs

LEMMA Bounds ==
    /\ 0 \in Outputs /\ Outputs \subseteq Nat /\ Outputs \subseteq 0 .. Images + 1
    /\ 0 \in 0 .. MaxAttempts /\ 0 \in 0 .. MaxRetries
    /\ \A o \in Outputs : o + 1 \in 0 .. Images + 1
    /\ 1 \in 0 .. Images + 1 /\ 0 \in 0 .. Images + 1
    /\ None \notin Jobs
    /\ 1 .. Images \subseteq Outputs
BY ConstantsAssumption DEF Outputs

\* The rows the helpers write.
LEMMA RowTypes ==
    ASSUME NEW r \in JobRow
    PROVE  /\ \A status \in Terminal : Ended(r, status) \in JobRow
           /\ \A status \in Waiting : Requeued(r, status) \in JobRow
           /\ Recovered(r) \in JobRow
<1>1. \A status \in Terminal : Ended(r, status) \in JobRow
  BY DEF Ended, JobRow
<1>2. \A status \in Waiting : Requeued(r, status) \in JobRow
  BY DEF Requeued, JobRow, Active
<1> QED BY <1>1, <1>2 DEF Recovered, Terminal, Waiting

LEMMA NewTypes ==
    /\ NoPost \in PostRow
    /\ NoSess \in Session
    /\ Zero \in [Outputs -> Nat]
    /\ \A g \in Games \cup {None}, source \in Jobs \cup {None} : NewJob(g, source) \in JobRow
<1>1. NoPost \in PostRow
  BY DEF NoPost, PostRow
<1>2. NoSess \in Session
  BY Bounds DEF NoSess, Session, PcNames
<1>3. Zero \in [Outputs -> Nat]
  BY DEF Zero
<1>4. \A g \in Games \cup {None}, source \in Jobs \cup {None} : NewJob(g, source) \in JobRow
  BY Bounds DEF NewJob, JobRow, Active, Waiting, Phases
<1> QED BY <1>1, <1>2, <1>3, <1>4

LEMMA PostTypes ==
    ASSUME post \in [Games -> PostRow]
    PROVE  /\ \A p \in PostRow : Captured(p) \in PostRow
           /\ \A j : \A p \in PostRow : Discarded(j, p) \in PostRow
           /\ \A o : \A p \in PostRow : WithText(p, o) \in PostRow
           /\ \A w, o : TextCommitted(w, o) \in [Games -> PostRow]
<1>1. \A p \in PostRow : Captured(p) \in PostRow
  BY DEF Captured, PostRow
<1>2. \A j : \A p \in PostRow : Discarded(j, p) \in PostRow
  BY <1>1, NewTypes DEF Discarded
<1>3. \A o : \A p \in PostRow : WithText(p, o) \in PostRow
  BY DEF WithText, PostRow
<1>4. \A w, o : TextCommitted(w, o) \in [Games -> PostRow]
  BY <1>3 DEF TextCommitted
<1> QED BY <1>1, <1>2, <1>3, <1>4

\* One entry of a ledger is written.
LEMMA EntryWritten ==
    ASSUME NEW f \in [Jobs -> [Outputs -> Nat]], NEW j \in Jobs, NEW o \in Outputs,
           NEW n \in Nat, NEW f1, f1 = [f EXCEPT ![j][o] = n]
    PROVE  /\ f1 \in [Jobs -> [Outputs -> Nat]]
           /\ \A k \in Jobs \ {j} : f1[k] = f[k]
           /\ \A p \in Outputs \ {o} : f1[j][p] = f[j][p]
           /\ f1[j][o] = n
OBVIOUS

LEMMA TypeInit == Init => TypeInv
<1> SUFFICES ASSUME Init PROVE TypeInv
  OBVIOUS
<1>1. job \in [Jobs -> JobRow]
  <2>1. NewJob(None, None) \in JobRow
    BY NewTypes
  <2> QED BY <2>1 DEF Init, JobRow
<1>2. TypeOK
  BY <1>1, NewTypes DEF Init, TypeOK
<1> QED BY <1>2 DEF TypeInv, WellFormed, Init, NoSess

-----------------------------------------------------------------------------
(* What a worker's step does to the queue, for all its actions at once *)

\* The worker goes on with its job.
Stays(w, r, s) ==
    /\ s.job = Job(w)
    /\ r.status = job[Job(w)].status
    /\ r.keyed = job[Job(w)].keyed
    /\ r.lease \in {job[Job(w)].lease, "valid"}

\* It puts the job away: for good, or back into the queue.
Leaves(w, r, s) ==
    /\ s = NoSess
    /\ \/ r.status \in Terminal /\ ~r.keyed
       \/ r.status \in Waiting /\ r.keyed = job[Job(w)].keyed
    /\ r.status \in {"succeeded", "failed"} => open'[Job(w)] = Zero

Others ==
    /\ post' \in [Games -> PostRow]
    /\ files' \subseteq Jobs \X (1 .. Images)
    /\ open' \in [Jobs -> [Outputs -> Nat]]
    /\ paid' \in [Jobs -> [Outputs -> Nat]]
    /\ calls' \in [Jobs -> [Outputs -> Nat]]

Effect(w) ==
    /\ Job(w) \in Jobs
    /\ Others
    /\ \A j \in Jobs \ {Job(w)} : open'[j] = open[j]
    /\ \E r, s :
          /\ Goes(w, r, s)
          /\ r.game = job[Job(w)].game
          /\ Stays(w, r, s) \/ Leaves(w, r, s)

\* The rows a worker's step starts from.
LEMMA InHandTypes ==
    ASSUME TypeInv, NEW w \in Workers, ~AtPc(w, "idle")
    PROVE  /\ Job(w) \in Jobs
           /\ job[Job(w)] \in JobRow
           /\ sess[w] \in Session
           /\ sess[w].at \in Nat
BY Bounds DEF TypeInv, TypeOK, WellFormed, AtPc, Job, Session

LEMMA PhaseType ==
    ASSUME TypeInv, NEW w \in Workers, ~AtPc(w, "idle"), NEW phase \in Phases
    PROVE  LET r == [job[Job(w)] EXCEPT !.phase = phase, !.lease = "valid"]
           IN  /\ r \in JobRow
               /\ InPhase(Job(w), phase) = [job EXCEPT ![Job(w)] = r]
               /\ r.game = job[Job(w)].game
               /\ r.status = job[Job(w)].status
               /\ r.keyed = job[Job(w)].keyed
               /\ r.lease = "valid"
               /\ r.phase = phase
               /\ r.retries = job[Job(w)].retries
<1>1. job[Job(w)] \in JobRow /\ Job(w) \in Jobs
  BY InHandTypes
<1>2. InPhase(Job(w), phase) =
          [job EXCEPT ![Job(w)] = [job[Job(w)] EXCEPT !.phase = phase, !.lease = "valid"]]
  BY <1>1 DEF InPhase, TypeInv, TypeOK
<1> QED BY <1>1, <1>2 DEF JobRow

\* Actions that keep the row or only set its phase, and keep the job in hand.
LEMMA StaysEffect ==
    ASSUME TypeInv, NEW w \in Workers, ~AtPc(w, "idle"),
           \/ job' = job
           \/ \E phase \in Phases : job' = InPhase(Job(w), phase),
           NEW s \in Session, sess' = [sess EXCEPT ![w] = s],
           s.job = Job(w), s.pc # "idle",
           s.pc \in {"reserved", "calling", "written", "saved"} => s.at \in Outputs,
           Others, \A j \in Jobs \ {Job(w)} : open'[j] = open[j]
    PROVE  Effect(w)
<1>1. Job(w) \in Jobs /\ job[Job(w)] \in JobRow /\ Job(w) # None
  BY InHandTypes, Bounds
<1>2. CASE job' = job
  <2> DEFINE r == job[Job(w)]
  <2>1. job' = [job EXCEPT ![Job(w)] = r]
    BY <1>1, <1>2 DEF TypeInv, TypeOK
  <2>2. Goes(w, r, s) /\ Stays(w, r, s)
    BY <1>1, <2>1 DEF Goes, Stays
  <2> QED BY <1>1, <2>2 DEF Effect
<1>3. ASSUME NEW phase \in Phases, job' = InPhase(Job(w), phase)
      PROVE  Effect(w)
  <2> DEFINE r == [job[Job(w)] EXCEPT !.phase = phase, !.lease = "valid"]
  <2>1. /\ r \in JobRow /\ job' = [job EXCEPT ![Job(w)] = r]
        /\ r.game = job[Job(w)].game /\ r.status = job[Job(w)].status
        /\ r.keyed = job[Job(w)].keyed /\ r.lease = "valid"
    BY <1>3, PhaseType
  <2> HIDE DEF r
  <2>2. Goes(w, r, s) /\ Stays(w, r, s)
    BY <1>1, <2>1 DEF Goes, Stays
  <2> QED BY <1>1, <2>1, <2>2 DEF Effect
<1> QED BY <1>2, <1>3

\* Actions that put the job away.
LEMMA LeavesEffect ==
    ASSUME TypeInv, NEW w \in Workers, ~AtPc(w, "idle"),
           NEW r \in JobRow, job' = [job EXCEPT ![Job(w)] = r],
           r.game = job[Job(w)].game,
           sess' = [sess EXCEPT ![w] = NoSess],
           \/ r.status \in Terminal /\ ~r.keyed
           \/ r.status \in Waiting /\ r.keyed = job[Job(w)].keyed,
           r.status \in {"succeeded", "failed"} => open'[Job(w)] = Zero,
           Others, \A j \in Jobs \ {Job(w)} : open'[j] = open[j]
    PROVE  Effect(w)
<1>1. Goes(w, r, NoSess)
  BY NewTypes DEF Goes, NoSess
<1>2. Leaves(w, r, NoSess)
  BY DEF Leaves
<1> QED BY <1>1, <1>2, InHandTypes DEF Effect

\* The helper most handlers end with.
LEMMA EndJobEffect ==
    ASSUME TypeInv, NEW w \in Workers, ~AtPc(w, "idle"),
           NEW status \in Terminal, EndJob(w, status), UNCHANGED <<files, paid, calls>>
    PROVE  Effect(w)
<1> DEFINE r == Ended(job[Job(w)], status)
<1>1. Job(w) \in Jobs /\ job[Job(w)] \in JobRow
  BY InHandTypes
<1>2. r \in JobRow
  BY <1>1, RowTypes
<1>3. r.game = job[Job(w)].game /\ r.status = status /\ ~r.keyed
  BY <1>1 DEF Ended, JobRow
<1>4. job' = [job EXCEPT ![Job(w)] = r] /\ sess' = [sess EXCEPT ![w] = NoSess]
  BY <1>1 DEF EndJob, TypeInv, TypeOK
<1>5. /\ open' = [open EXCEPT ![Job(w)] = Zero]
      /\ open' \in [Jobs -> [Outputs -> Nat]] /\ open'[Job(w)] = Zero
  BY <1>1, NewTypes DEF EndJob, TypeInv, TypeOK
<1>6. post' \in [Games -> PostRow]
  BY PostTypes DEF EndJob, TypeInv, TypeOK
<1>7. Others /\ \A j \in Jobs \ {Job(w)} : open'[j] = open[j]
  BY <1>5, <1>6 DEF Others, TypeInv, TypeOK
<1> HIDE DEF r
<1> QED BY <1>2, <1>3, <1>4, <1>5, <1>7, LeavesEffect

LEMMA PhasedSteps ==
    ASSUME TypeInv, NEW w \in Workers,
           Start(w) \/ ExistingPost(w) \/ OpenPost(w) \/ ImageChecked(w) \/ Save(w)
    PROVE  Effect(w)
<1>1. ~AtPc(w, "idle")
  BY DEF Start, ExistingPost, OpenPost, ImageChecked, Save, AtPc
<1>2. sess[w] \in Session /\ Job(w) = sess[w].job /\ job \in [Jobs -> JobRow]
  BY <1>1, InHandTypes DEF Job, TypeInv, TypeOK
<1>3. sess \in [Workers -> Session] /\ "generating" \in Phases
      /\ "checking" \in Phases /\ "saving" \in Phases
  BY DEF TypeInv, TypeOK, Phases
<1>4. CASE Start(w)
  <2> DEFINE s == [sess[w] EXCEPT !.pc = "start"]
  <2>1. s \in Session /\ s.job = Job(w) /\ s.pc = "start"
    BY <1>2 DEF Session, PcNames
  <2>2. sess' = [sess EXCEPT ![w] = s]
    BY <1>3, <1>4 DEF Start, GoTo
  <2>3. Others /\ \A j \in Jobs \ {Job(w)} : open'[j] = open[j]
    BY <1>4 DEF Start, Others, TypeInv, TypeOK
  <2>4. \E phase \in Phases : job' = InPhase(Job(w), phase)
    BY <1>3, <1>4 DEF Start
  <2> HIDE DEF s
  <2> QED BY <1>1, <2>1, <2>2, <2>3, <2>4, StaysEffect
<1>5. CASE ExistingPost(w)
  <2> DEFINE s == [sess[w] EXCEPT !.pc = "save"]
  <2>1. s \in Session /\ s.job = Job(w) /\ s.pc = "save"
    BY <1>2 DEF Session, PcNames
  <2>2. sess' = [sess EXCEPT ![w] = s]
    BY <1>3, <1>5 DEF ExistingPost, GoTo
  <2>3. Others /\ \A j \in Jobs \ {Job(w)} : open'[j] = open[j]
    BY <1>5 DEF ExistingPost, Others, TypeInv, TypeOK
  <2>4. job' = job
    BY <1>5 DEF ExistingPost
  <2> HIDE DEF s
  <2> QED BY <1>1, <2>1, <2>2, <2>3, <2>4, StaysEffect
<1>6. CASE OpenPost(w)
  <2> DEFINE s == [sess[w] EXCEPT !.pc = "render",
                                  !.at = IF post[Game(w)].text THEN 1 ELSE 0]
  <2>1. s \in Session /\ s.job = Job(w) /\ s.pc = "render"
    BY <1>2, Bounds DEF Session, PcNames
  <2>2. sess' = [sess EXCEPT ![w] = s]
    BY <1>3, <1>6 DEF OpenPost
  <2>3. post' \in [Games -> PostRow]
    BY <1>6 DEF OpenPost, TypeInv, TypeOK, PostRow
  <2>4. Others /\ \A j \in Jobs \ {Job(w)} : open'[j] = open[j]
    BY <1>6, <2>3 DEF OpenPost, Others, TypeInv, TypeOK
  <2>5. \E phase \in Phases : job' = InPhase(Job(w), phase)
    BY <1>3, <1>6 DEF OpenPost
  <2> HIDE DEF s
  <2> QED BY <1>1, <2>1, <2>2, <2>4, <2>5, StaysEffect
<1>7. CASE ImageChecked(w)
  <2> DEFINE s == [sess[w] EXCEPT !.pc = "saved"]
  <2>1. s \in Session /\ s.job = Job(w) /\ s.pc = "saved" /\ s.at \in Outputs
    BY <1>2, <1>7 DEF Session, PcNames, ImageChecked, AtPc, TypeInv, WellFormed
  <2>2. sess' = [sess EXCEPT ![w] = s]
    BY <1>3, <1>7 DEF ImageChecked, GoTo
  <2>3. Others /\ \A j \in Jobs \ {Job(w)} : open'[j] = open[j]
    BY <1>7 DEF ImageChecked, Others, TypeInv, TypeOK
  <2>4. \E phase \in Phases : job' = InPhase(Job(w), phase)
    BY <1>3, <1>7 DEF ImageChecked
  <2> HIDE DEF s
  <2> QED BY <1>1, <2>1, <2>2, <2>3, <2>4, StaysEffect
<1>8. CASE Save(w)
  <2> DEFINE s == [sess[w] EXCEPT !.pc = "finish"]
  <2>1. s \in Session /\ s.job = Job(w) /\ s.pc = "finish"
    BY <1>2 DEF Session, PcNames
  <2>2. sess' = [sess EXCEPT ![w] = s]
    BY <1>3, <1>8 DEF Save, GoTo
  <2>3. Others /\ \A j \in Jobs \ {Job(w)} : open'[j] = open[j]
    BY <1>8 DEF Save, Others, TypeInv, TypeOK
  <2>4. \E phase \in Phases : job' = InPhase(Job(w), phase)
    BY <1>3, <1>8 DEF Save
  <2> HIDE DEF s
  <2> QED BY <1>1, <2>1, <2>2, <2>3, <2>4, StaysEffect
<1> QED BY <1>4, <1>5, <1>6, <1>7, <1>8

\* The steps through the outputs of a post.
LEMMA OutputSteps ==
    ASSUME TypeInv, NEW w \in Workers,
           Reuse(w) \/ Reserve(w) \/ CallProvider(w) \/ Assemble(w)
    PROVE  Effect(w)
<1>1. ~AtPc(w, "idle")
  BY DEF Reuse, Reserve, NextOutput, CallProvider, Assemble, AtPc
<1>2. /\ sess[w] \in Session /\ Job(w) = sess[w].job /\ Job(w) \in Jobs
      /\ sess[w].at \in Nat
  BY <1>1, InHandTypes DEF Job
<1>3. sess \in [Workers -> Session] /\ "generating" \in Phases
  BY DEF TypeInv, TypeOK, Phases
<1>4. \A o : NextOutput(w, o) =>
          sess[w].at = o /\ \E phase \in Phases : job' = InPhase(Job(w), phase)
  BY <1>3 DEF NextOutput
<1>5. CASE Reuse(w)
  <2>1. PICK o \in 1 .. Images :
            /\ NextOutput(w, o)
            /\ post' = TextCommitted(w, o)
            /\ sess' = [sess EXCEPT ![w].at = o + 1]
            /\ UNCHANGED <<files, open, paid, calls>>
    BY <1>5 DEF Reuse
  <2> DEFINE s == [sess[w] EXCEPT !.at = o + 1]
  <2>2. AtPc(w, "render")
    BY <2>1 DEF NextOutput
  <2>3. s \in Session /\ s.job = Job(w) /\ s.pc = "render"
    BY <1>2, <2>2, Bounds DEF Session, AtPc
  <2>4. sess' = [sess EXCEPT ![w] = s]
    BY <1>3, <2>1
  <2>5. Others /\ \A j \in Jobs \ {Job(w)} : open'[j] = open[j]
    BY <2>1, PostTypes DEF Others, TypeInv, TypeOK
  <2> HIDE DEF s
  <2> QED BY <1>1, <1>4, <2>1, <2>3, <2>4, <2>5, StaysEffect
<1>6. CASE Reserve(w)
  <2>1. PICK o \in Outputs :
            /\ NextOutput(w, o)
            /\ post' = TextCommitted(w, o)
            /\ open' = [open EXCEPT ![Job(w)][o] = @ + 1]
            /\ sess' = GoTo(w, IF <<Job(w), o>> \in files THEN "saved" ELSE "reserved")
            /\ UNCHANGED <<files, paid, calls>>
    BY <1>6 DEF Reserve
  <2> DEFINE pc == IF <<Job(w), o>> \in files THEN "saved" ELSE "reserved"
             s == [sess[w] EXCEPT !.pc = pc]
  <2>2. s \in Session /\ s.job = Job(w) /\ s.pc \in {"saved", "reserved"} /\ s.at \in Outputs
    BY <1>2, <1>4, <2>1 DEF Session, PcNames
  <2>3. sess' = [sess EXCEPT ![w] = s]
    BY <1>3, <2>1 DEF GoTo
  <2>4. /\ open' \in [Jobs -> [Outputs -> Nat]]
        /\ \A j \in Jobs \ {Job(w)} : open'[j] = open[j]
    <3>1. open[Job(w)][o] + 1 \in Nat
      BY <1>2, Bounds DEF TypeInv, TypeOK
    <3>2. open' = [open EXCEPT ![Job(w)][o] = open[Job(w)][o] + 1]
      BY <2>1
    <3>3. open \in [Jobs -> [Outputs -> Nat]]
      BY DEF TypeInv, TypeOK
    <3> QED BY <1>2, <3>1, <3>2, <3>3, EntryWritten
  <2>5. Others
    BY <2>1, <2>4, PostTypes DEF Others, TypeInv, TypeOK
  <2> HIDE DEF s
  <2> QED BY <1>1, <1>4, <2>1, <2>2, <2>3, <2>4, <2>5, StaysEffect
<1>7. CASE CallProvider(w)
  <2> DEFINE s == [sess[w] EXCEPT !.pc = "calling"]
  <2>1. sess[w].at \in Outputs
    BY <1>7 DEF CallProvider, AtPc, TypeInv, WellFormed
  <2>2. s \in Session /\ s.job = Job(w) /\ s.pc = "calling" /\ s.at \in Outputs
    BY <1>2, <2>1 DEF Session, PcNames
  <2>3. sess' = [sess EXCEPT ![w] = s]
    BY <1>3, <1>7 DEF CallProvider, GoTo
  <2>4. calls' \in [Jobs -> [Outputs -> Nat]]
    <3>1. calls[Job(w)][sess[w].at] + 1 \in Nat
      BY <1>2, <2>1, Bounds DEF TypeInv, TypeOK
    <3>2. calls' = [calls EXCEPT ![Job(w)][sess[w].at] = calls[Job(w)][sess[w].at] + 1]
      BY <1>7 DEF CallProvider
    <3>3. calls \in [Jobs -> [Outputs -> Nat]]
      BY DEF TypeInv, TypeOK
    <3> QED BY <1>2, <2>1, <3>1, <3>2, <3>3, EntryWritten
  <2>5. Others /\ \A j \in Jobs \ {Job(w)} : open'[j] = open[j]
    BY <1>7, <2>4 DEF CallProvider, Others, TypeInv, TypeOK
  <2>6. job' = job \/ \E phase \in Phases : job' = InPhase(Job(w), phase)
    BY <1>3, <1>7 DEF CallProvider
  <2> HIDE DEF s
  <2> QED BY <1>1, <2>2, <2>3, <2>5, <2>6, StaysEffect
<1>8. CASE Assemble(w)
  <2> DEFINE s == [sess[w] EXCEPT !.pc = "save"]
  <2>1. s \in Session /\ s.job = Job(w) /\ s.pc = "save"
    BY <1>2 DEF Session, PcNames
  <2>2. sess' = [sess EXCEPT ![w] = s]
    BY <1>3, <1>8 DEF Assemble, GoTo
  <2>3. post' \in [Games -> PostRow]
    BY <1>8 DEF Assemble, TypeInv, TypeOK, PostRow
  <2>4. Others /\ \A j \in Jobs \ {Job(w)} : open'[j] = open[j]
    BY <1>8, <2>3 DEF Assemble, Others, TypeInv, TypeOK
  <2>5. \E phase \in Phases : job' = InPhase(Job(w), phase)
    BY <1>4, <1>8 DEF Assemble
  <2> HIDE DEF s
  <2> QED BY <1>1, <2>1, <2>2, <2>4, <2>5, StaysEffect
<1> QED BY <1>5, <1>6, <1>7, <1>8

\* complete_usage writes one entry of each ledger.
LEMMA BilledTypes ==
    ASSUME TypeInv, NEW w \in Workers, ~AtPc(w, "idle"), NEW o \in Outputs, Billed(w, o)
    PROVE  /\ open' \in [Jobs -> [Outputs -> Nat]]
           /\ \A j \in Jobs \ {Job(w)} : open'[j] = open[j]
           /\ paid' \in [Jobs -> [Outputs -> Nat]]
<1> DEFINE n == IF open[Job(w)][o] > 0 THEN open[Job(w)][o] - 1 ELSE 0
           m == paid[Job(w)][o] + 1
<1>1. Job(w) \in Jobs
  BY InHandTypes
<1>2. open \in [Jobs -> [Outputs -> Nat]] /\ paid \in [Jobs -> [Outputs -> Nat]]
  BY DEF TypeInv, TypeOK
<1>3. n \in Nat /\ m \in Nat
  BY <1>1, <1>2
<1>4. open' = [open EXCEPT ![Job(w)][o] = n] /\ paid' = [paid EXCEPT ![Job(w)][o] = m]
  BY DEF Billed
<1> HIDE DEF n, m
<1> QED BY <1>1, <1>2, <1>3, <1>4, EntryWritten

\* The answers of the provider.
LEMMA AnswerSteps ==
    ASSUME TypeInv, NEW w \in Workers,
           TextAnswered(w) \/ ImageWritten(w) \/ ImageBilled(w)
    PROVE  Effect(w)
<1>1. ~AtPc(w, "idle")
  BY DEF TextAnswered, ImageWritten, ImageBilled, AtPc
<1>2. /\ sess[w] \in Session /\ Job(w) = sess[w].job /\ Job(w) \in Jobs
      /\ sess[w].at \in Nat /\ sess \in [Workers -> Session]
  BY <1>1, InHandTypes DEF Job, TypeInv, TypeOK
<1>3. CASE TextAnswered(w)
  <2> DEFINE s == [sess[w] EXCEPT !.pc = "render", !.at = 1]
  <2>1. s \in Session /\ s.job = Job(w) /\ s.pc = "render"
    BY <1>2, Bounds DEF Session, PcNames
  <2>2. sess' = [sess EXCEPT ![w] = s]
    BY <1>2, <1>3 DEF TextAnswered
  <2>3. Billed(w, 0)
    BY <1>3 DEF TextAnswered
  <2>4. Others /\ (\A j \in Jobs \ {Job(w)} : open'[j] = open[j]) /\ job' = job
    BY <1>1, <1>3, <2>3, BilledTypes, Bounds DEF TextAnswered, Others, TypeInv, TypeOK
  <2> HIDE DEF s
  <2> QED BY <1>1, <2>1, <2>2, <2>4, StaysEffect
<1>4. CASE ImageWritten(w)
  <2> DEFINE s == [sess[w] EXCEPT !.pc = "written"]
  <2>1. sess[w].at \in Outputs /\ sess[w].at > 0
    BY <1>4 DEF ImageWritten, AtPc, TypeInv, WellFormed
  <2>2. s \in Session /\ s.job = Job(w) /\ s.pc = "written" /\ s.at \in Outputs
    BY <1>2, <2>1 DEF Session, PcNames
  <2>3. sess' = [sess EXCEPT ![w] = s]
    BY <1>2, <1>4 DEF ImageWritten, GoTo
  <2>4. sess[w].at \in 1 .. Images
    BY <2>1, ConstantsAssumption DEF Outputs
  <2>5. Others /\ (\A j \in Jobs \ {Job(w)} : open'[j] = open[j]) /\ job' = job
    BY <1>2, <1>4, <2>4 DEF ImageWritten, Others, TypeInv, TypeOK
  <2> HIDE DEF s
  <2> QED BY <1>1, <2>2, <2>3, <2>5, StaysEffect
<1>5. CASE ImageBilled(w)
  <2> DEFINE s == [sess[w] EXCEPT !.pc = "render", !.at = sess[w].at + 1]
  <2>1. sess[w].at \in Outputs
    BY <1>5 DEF ImageBilled, AtPc, TypeInv, WellFormed
  <2>2. sess[w].at + 1 \in 0 .. Images + 1
    BY <2>1, Bounds
  <2>3. s \in Session /\ s.job = Job(w) /\ s.pc = "render"
    BY <1>2, <2>2 DEF Session, PcNames
  <2>4. sess' = [sess EXCEPT ![w] = s]
    BY <1>2, <1>5 DEF ImageBilled
  <2>5. Billed(w, sess[w].at)
    BY <1>5 DEF ImageBilled
  <2>6. Others /\ (\A j \in Jobs \ {Job(w)} : open'[j] = open[j]) /\ job' = job
    BY <1>1, <1>5, <2>1, <2>5, BilledTypes DEF ImageBilled, Others, TypeInv, TypeOK
  <2> HIDE DEF s
  <2> QED BY <1>1, <2>3, <2>4, <2>6, StaysEffect
<1> QED BY <1>3, <1>4, <1>5

\* The ends of a job that EndJob writes.
LEMMA EndSteps ==
    ASSUME TypeInv, NEW w \in Workers,
           CancelNoticed(w) \/ Fails(w) \/ LogoUnavailable(w) \/ UnclearReviewed(w)
    PROVE  Effect(w)
<1>1. ~AtPc(w, "idle")
  BY DEF CancelNoticed, Fails, LogoUnavailable, UnclearReviewed, AtPc
<1>2. \E status \in Terminal : EndJob(w, status)
  BY DEF CancelNoticed, Fails, LogoUnavailable, UnclearReviewed, Terminal
<1>3. UNCHANGED <<files, paid, calls>>
  BY DEF CancelNoticed, Fails, LogoUnavailable, UnclearReviewed
<1> QED BY <1>1, <1>2, <1>3, EndJobEffect

\* The other ways a job leaves its worker.
LEMMA LeaveSteps ==
    ASSUME TypeInv, NEW w \in Workers,
           QuotaExceeded(w) \/ Finish(w) \/ DatabaseError(w) \/ UnclearRetried(w)
    PROVE  Effect(w)
<1>1. ~AtPc(w, "idle")
  BY DEF QuotaExceeded, Finish, DatabaseError, UnclearRetried, AtPc
<1>2. Job(w) \in Jobs /\ job[Job(w)] \in JobRow /\ job \in [Jobs -> JobRow]
  BY <1>1, InHandTypes DEF TypeInv, TypeOK
<1>3. open \in [Jobs -> [Outputs -> Nat]] /\ Zero \in [Outputs -> Nat]
  BY NewTypes DEF TypeInv, TypeOK
<1>4. open' = [open EXCEPT ![Job(w)] = Zero] =>
          /\ open' \in [Jobs -> [Outputs -> Nat]]
          /\ open'[Job(w)] = Zero
          /\ \A j \in Jobs \ {Job(w)} : open'[j] = open[j]
  BY <1>2, <1>3
<1>5. CASE QuotaExceeded(w)
  <2> DEFINE r0 == [job[Job(w)] EXCEPT !.phase = "generating"]
             r == Ended(r0, "failed")
  <2>1. r0 \in JobRow /\ r0.game = job[Job(w)].game
    BY <1>2 DEF JobRow, Phases
  <2>2. r \in JobRow
    BY <2>1, RowTypes DEF Terminal
  <2>3. r.game = job[Job(w)].game /\ r.status = "failed" /\ ~r.keyed
    BY <2>1 DEF Ended, JobRow
  <2>4. job' = [job EXCEPT ![Job(w)] = r] /\ sess' = [sess EXCEPT ![w] = NoSess]
    BY <1>2, <1>5 DEF QuotaExceeded
  <2>5. \A o : \A p \in PostRow : WithText(Captured(p), o) \in PostRow
    BY PostTypes DEF TypeInv, TypeOK
  <2>6. post' \in [Games -> PostRow]
    <3>1. PICK o \in Outputs : post' = [post EXCEPT ![Game(w)] = WithText(Captured(@), o)]
      BY <1>5 DEF QuotaExceeded
    <3> QED BY <2>5, <3>1 DEF TypeInv, TypeOK
  <2>7. Others
    BY <1>4, <1>5, <2>6 DEF QuotaExceeded, Others, TypeInv, TypeOK
  <2>8. open'[Job(w)] = Zero /\ \A j \in Jobs \ {Job(w)} : open'[j] = open[j]
    BY <1>4, <1>5 DEF QuotaExceeded
  <2> HIDE DEF r
  <2> QED BY <1>1, <2>2, <2>3, <2>4, <2>7, <2>8, LeavesEffect DEF Terminal
<1>6. CASE Finish(w)
  <2> DEFINE r0 == [job[Job(w)] EXCEPT !.phase = "completed"]
             r == Ended(r0, "succeeded")
  <2>1. r0 \in JobRow /\ r0.game = job[Job(w)].game
    BY <1>2 DEF JobRow, Phases
  <2>2. r \in JobRow
    BY <2>1, RowTypes DEF Terminal
  <2>3. r.game = job[Job(w)].game /\ r.status = "succeeded" /\ ~r.keyed
    BY <2>1 DEF Ended, JobRow
  <2>4. job' = [job EXCEPT ![Job(w)] = r] /\ sess' = [sess EXCEPT ![w] = NoSess]
    BY <1>2, <1>6 DEF Finish
  <2>5. Others
    BY <1>4, <1>6 DEF Finish, Others, TypeInv, TypeOK
  <2>6. open'[Job(w)] = Zero /\ \A j \in Jobs \ {Job(w)} : open'[j] = open[j]
    BY <1>4, <1>6 DEF Finish
  <2> HIDE DEF r
  <2> QED BY <1>1, <2>2, <2>3, <2>4, <2>5, <2>6, LeavesEffect DEF Terminal
<1>7. CASE DatabaseError(w)
  <2> DEFINE r == Requeued(job[Job(w)], "retry_wait")
  <2>1. r \in JobRow
    BY <1>2, RowTypes DEF Waiting
  <2>2. r.game = job[Job(w)].game /\ r.status = "retry_wait" /\ r.keyed = job[Job(w)].keyed
    BY <1>2 DEF Requeued, JobRow
  <2>3. job' = [job EXCEPT ![Job(w)] = r] /\ sess' = [sess EXCEPT ![w] = NoSess]
    BY <1>2, <1>7 DEF DatabaseError
  <2>4. Others /\ \A j \in Jobs \ {Job(w)} : open'[j] = open[j]
    BY <1>7, PostTypes DEF DatabaseError, Others, TypeInv, TypeOK
  <2> HIDE DEF r
  <2> QED BY <1>1, <2>1, <2>2, <2>3, <2>4, LeavesEffect DEF Waiting
<1>8. CASE UnclearRetried(w)
  <2> DEFINE o == sess[w].at
             r0 == RetryCounted(job[Job(w)], o)
             r == Requeued(r0, "retry_wait")
  <2>1. o \in Outputs /\ job[Job(w)].retries[o] < MaxRetries
    BY <1>8 DEF UnclearRetried, CanRetryExternal, AtPc, TypeInv, WellFormed
  <2>2. job[Job(w)].retries \in [Outputs -> 0 .. MaxRetries]
    BY <1>2 DEF JobRow
  <2>3. job[Job(w)].retries[o] + 1 \in 0 .. MaxRetries
    BY <2>1, <2>2, ConstantsAssumption
  <2>4. [job[Job(w)].retries EXCEPT ![o] = @ + 1] \in [Outputs -> 0 .. MaxRetries]
    BY <2>1, <2>2, <2>3
  <2>5. r0 = [job[Job(w)] EXCEPT !.retries = [job[Job(w)].retries EXCEPT ![o] = @ + 1]]
    BY DEF RetryCounted
  <2>6. r0 \in JobRow /\ r0.game = job[Job(w)].game /\ r0.keyed = job[Job(w)].keyed
    BY <1>2, <2>4, <2>5 DEF JobRow
  <2>7. r \in JobRow
    BY <2>6, RowTypes DEF Waiting
  <2>8. r.game = job[Job(w)].game /\ r.status = "retry_wait" /\ r.keyed = job[Job(w)].keyed
    BY <2>6 DEF Requeued, JobRow
  <2>9. job' = [job EXCEPT ![Job(w)] = r] /\ sess' = [sess EXCEPT ![w] = NoSess]
    BY <1>2, <1>8 DEF UnclearRetried
  <2>10. post' \in [Games -> PostRow]
    BY <1>8, PostTypes DEF UnclearRetried, TypeInv, TypeOK
  <2>11. Others /\ \A j \in Jobs \ {Job(w)} : open'[j] = open[j]
    BY <1>4, <1>8, <2>10 DEF UnclearRetried, Others, TypeInv, TypeOK
  <2> HIDE DEF r
  <2> QED BY <1>1, <2>7, <2>8, <2>9, <2>11, LeavesEffect DEF Waiting
<1> QED BY <1>5, <1>6, <1>7, <1>8

LEMMA WorkEffect ==
    ASSUME TypeInv, NEW w \in Workers, Work(w)
    PROVE  Effect(w)
BY PhasedSteps, OutputSteps, AnswerSteps, EndSteps, LeaveSteps DEF Work

-----------------------------------------------------------------------------
(* Every step keeps the types *)

\* A step of a user or of the clock: only rows of jobs change.
LEMMA RowsWritten ==
    ASSUME TypeInv, job' \in [Jobs -> JobRow],
           UNCHANGED <<post, files, open, paid, calls, sess>>
    PROVE  TypeInv'
BY DEF TypeInv, TypeOK, WellFormed

LEMMA UserRows ==
    ASSUME TypeInv, User \/ (\E j \in Jobs : LeaseExpires(j)) \/ RecoverStale
    PROVE  /\ job' \in [Jobs -> JobRow]
           /\ UNCHANGED <<post, files, open, paid, calls, sess>>
<1>1. job \in [Jobs -> JobRow]
  BY DEF TypeInv, TypeOK
<1>2. ASSUME NEW j \in Jobs, NEW g \in Games, Enqueue(j, g)
      PROVE  job' \in [Jobs -> JobRow]
  BY <1>1, <1>2, NewTypes DEF Enqueue
<1>3. ASSUME NEW j \in Jobs, NEW k \in Jobs, RetryJob(j, k)
      PROVE  job' \in [Jobs -> JobRow]
  <2>1. job[j].game \in Games \cup {None} /\ SourceOf(j, k) \in Jobs \cup {None}
    BY <1>1 DEF SourceOf, JobRow
  <2> QED BY <1>1, <1>3, <2>1, NewTypes DEF RetryJob
<1>4. ASSUME NEW j \in Jobs, CancelWaiting(j)
      PROVE  job' \in [Jobs -> JobRow]
  <2>1. [job[j] EXCEPT !.status = "cancelled", !.cancel = TRUE, !.keyed = FALSE] \in JobRow
    BY <1>1 DEF JobRow, Terminal
  <2>2. job' = [job EXCEPT ![j] =
                   [job[j] EXCEPT !.status = "cancelled", !.cancel = TRUE, !.keyed = FALSE]]
    BY <1>1, <1>4 DEF CancelWaiting
  <2> QED BY <1>1, <2>1, <2>2
<1>5. ASSUME NEW j \in Jobs, CancelRunning(j)
      PROVE  job' \in [Jobs -> JobRow]
  BY ZenonT(40), <1>1, <1>5 DEF CancelRunning, JobRow
<1>6. ASSUME NEW j \in Jobs, LeaseExpires(j)
      PROVE  job' \in [Jobs -> JobRow]
  BY <1>1, <1>6 DEF LeaseExpires, JobRow
<1>7. CASE RecoverStale
  <2>1. \A j \in Jobs : Recovered(job[j]) \in JobRow
    BY <1>1, RowTypes
  <2> QED BY <1>1, <1>7, <2>1 DEF RecoverStale
<1>8. UNCHANGED <<post, files, open, paid, calls, sess>>
  BY DEF User, Enqueue, RetryJob, CancelWaiting, CancelRunning, LeaseExpires, RecoverStale
<1> QED BY <1>2, <1>3, <1>4, <1>5, <1>6, <1>7, <1>8 DEF User

\* A claim is a running row with a fresh lease in the hand of its worker.
LEMMA ClaimRows ==
    ASSUME TypeInv, NEW w \in Workers, NEW j \in Jobs, Claim(w, j)
    PROVE  \E r \in JobRow :
               /\ job' = [job EXCEPT ![j] = r]
               /\ r.game = job[j].game /\ r.keyed = job[j].keyed
               /\ r.status = "running" /\ r.lease = "valid"
               /\ r.phase = "preparing" /\ r.retries = job[j].retries
               /\ sess' = [sess EXCEPT ![w] = [job |-> j, pc |-> "claimed", at |-> 0]]
               /\ [job |-> j, pc |-> "claimed", at |-> 0] \in Session
               /\ UNCHANGED <<post, files, open, paid, calls>>
<1> DEFINE n == IF job[j].attempts < MaxAttempts THEN job[j].attempts + 1
                                                 ELSE job[j].attempts
           r == [job[j] EXCEPT !.status = "running", !.phase = "preparing",
                               !.lease = "valid", !.attempts = n]
<1>1. job \in [Jobs -> JobRow] /\ job[j] \in JobRow
  BY DEF TypeInv, TypeOK
<1>2. n \in 0 .. MaxAttempts
  BY <1>1, ConstantsAssumption DEF JobRow
<1>3. job' = [job EXCEPT ![j] = r]
  BY <1>1 DEF Claim
<1>4. /\ r \in JobRow /\ r.game = job[j].game /\ r.keyed = job[j].keyed
      /\ r.status = "running" /\ r.lease = "valid" /\ r.phase = "preparing"
      /\ r.retries = job[j].retries
  BY <1>1, <1>2 DEF JobRow, Active, Phases
<1>5. [job |-> j, pc |-> "claimed", at |-> 0] \in Session
  BY Bounds DEF Session, PcNames
<1> HIDE DEF r
<1> QED BY <1>3, <1>4, <1>5 DEF Claim

LEMMA ClaimType ==
    ASSUME TypeInv, NEW w \in Workers, ClaimSome(w)
    PROVE  TypeInv'
<1>1. PICK j \in Jobs : Claim(w, j)
  BY DEF ClaimSome
<1>2. job' \in [Jobs -> JobRow]
  BY <1>1, ClaimRows DEF TypeInv, TypeOK
<1>3. sess' = [sess EXCEPT ![w] = [job |-> j, pc |-> "claimed", at |-> 0]]
      /\ UNCHANGED <<post, files, open, paid, calls>>
  BY <1>1 DEF Claim
<1>4. sess' \in [Workers -> Session] /\ j # None
  BY <1>1, <1>3, ClaimRows, Bounds DEF TypeInv, TypeOK
<1> QED BY <1>2, <1>3, <1>4 DEF TypeInv, TypeOK, WellFormed

LEMMA LoseType ==
    ASSUME TypeInv, NEW w \in Workers, Lose(w)
    PROVE  TypeInv'
BY NewTypes DEF Lose, TypeInv, TypeOK, WellFormed, NoSess

LEMMA WorkType ==
    ASSUME TypeInv, NEW w \in Workers, NEW r, NEW s, Goes(w, r, s), Others
    PROVE  TypeInv'
<1>1. job' \in [Jobs -> JobRow] /\ sess' \in [Workers -> Session]
  BY DEF Goes, TypeInv, TypeOK
<1>2. WellFormed'
  BY DEF Goes, TypeInv, TypeOK, WellFormed
<1> QED BY <1>1, <1>2 DEF TypeInv, TypeOK, Others

LEMMA TypeStep ==
    ASSUME TypeInv, [Next]_vars
    PROVE  TypeInv'
<1>1. CASE User \/ (\E j \in Jobs : LeaseExpires(j)) \/ RecoverStale
  BY <1>1, UserRows, RowsWritten
<1>2. CASE \E w \in Workers : ClaimSome(w)
  BY <1>2, ClaimType
<1>3. ASSUME NEW w \in Workers, Work(w)
      PROVE  TypeInv'
  <2>1. Effect(w)
    BY <1>3, WorkEffect
  <2>2. PICK r, s : Goes(w, r, s)
    BY <2>1 DEF Effect
  <2>3. Others
    BY <2>1 DEF Effect
  <2> QED BY <2>2, <2>3, WorkType
<1>4. CASE \E w \in Workers : Lose(w)
  BY <1>4, LoseType
<1>5. CASE UNCHANGED vars
  BY <1>5 DEF vars, TypeInv, TypeOK, WellFormed
<1> QED BY <1>1, <1>2, <1>3, <1>4, <1>5 DEF Next

LEMMA TypeAlways == Spec => []TypeInv
BY TypeInit, TypeStep, PTL DEF Spec

\* No sequence of requests, deaths, timeouts and recoveries takes a row of the
\* queue, the ledger or a worker's session out of its type; in particular the
\* retry map and the attempts stay within their budgets.
THEOREM TypeCorrect == Spec => []TypeOK
<1>1. TypeInv => TypeOK
  BY DEF TypeInv
<1> QED BY <1>1, TypeAlways, PTL

-----------------------------------------------------------------------------
(* The queue, as long as no call outlasts its lease and no cancel request   *)
(* acts on a job it read before a worker claimed it                         *)

\* A job in a worker's hand is running under a lease that has not run out.
Held ==
    \A w \in Workers :
        Job(w) # None => job[Job(w)].status = "running" /\ job[Job(w)].lease = "valid"

\* No job is in two hands.
OneHolder ==
    \A v, w \in Workers : Job(v) # None /\ Job(v) = Job(w) => v = w

\* A row holds the key of its game exactly while it is active.
KeyHeld ==
    \A j \in Jobs : job[j].keyed <=> job[j].status \in Active

\* The key of a game is held once.
OneKey ==
    \A j, k \in Jobs :
        job[j].keyed /\ job[k].keyed /\ job[j].game = job[k].game => j = k

QueueInv == TypeInv /\ Held /\ OneHolder /\ KeyHeld /\ OneKey /\ EndedHoldsNoQuota

LEMMA QueueInit == Init => QueueInv
<1> SUFFICES ASSUME Init PROVE QueueInv
  OBVIOUS
<1>1. TypeInv
  BY TypeInit
<1>2. \A j \in Jobs : job[j].status = "unused" /\ job[j].keyed = FALSE
  BY DEF Init, NewJob
<1>3. \A w \in Workers : Job(w) = None
  BY DEF Init, Job, NoSess
<1> QED
  BY <1>1, <1>2, <1>3 DEF QueueInv, Held, OneHolder, KeyHeld, OneKey,
     EndedHoldsNoQuota, Active, Waiting

\* A row that keeps its key, its game and its end keeps the queue's promises.
LEMMA RowKept ==
    ASSUME QueueInv, TypeInv', NEW j \in Jobs, NEW r \in JobRow,
           job' = [job EXCEPT ![j] = r],
           r.keyed => job[j].keyed /\ r.game = job[j].game,
           r.keyed <=> r.status \in Active,
           r.status \in {"succeeded", "failed"} => open'[j] = Zero,
           \A k \in Jobs \ {j} : open'[k] = open[k],
           Held', OneHolder'
    PROVE  QueueInv'
<1>1. \A k \in Jobs : job'[k] = IF k = j THEN r ELSE job[k]
  BY DEF QueueInv, TypeInv, TypeOK
<1>2. KeyHeld'
  BY <1>1 DEF QueueInv, KeyHeld
<1>3. OneKey'
  BY <1>1 DEF QueueInv, OneKey
<1>4. EndedHoldsNoQuota'
  BY <1>1 DEF QueueInv, EndedHoldsNoQuota, Zero
<1> QED BY <1>2, <1>3, <1>4 DEF QueueInv

LEMMA QueueUser ==
    ASSUME QueueInv, Perils = {}, User
    PROVE  QueueInv'
<1>1. job' \in [Jobs -> JobRow] /\ UNCHANGED <<post, files, open, paid, calls, sess>>
  BY UserRows DEF QueueInv
<1>2. TypeInv' /\ TypeInv /\ job \in [Jobs -> JobRow]
  BY <1>1, RowsWritten DEF QueueInv, TypeInv, TypeOK
<1>3. \A w \in Workers : Job(w)' = Job(w) /\ Job(w) \in Jobs \cup {None}
  BY <1>1, <1>2 DEF Job, TypeInv, TypeOK, Session
<1>4. ASSUME NEW j \in Jobs, NEW g \in Games \cup {None}, NEW source,
             job[j].status = "unused",
             job' = [job EXCEPT ![j] = NewJob(g, source)],
             \A k \in Jobs : job[k].game = g => ~job[k].keyed
      PROVE  QueueInv'
  <2>1. \A k \in Jobs : job'[k] = IF k = j THEN NewJob(g, source) ELSE job[k]
    BY <1>2, <1>4
  <2>2. KeyHeld'
    BY <2>1 DEF QueueInv, KeyHeld, NewJob, Active, Waiting
  <2>3. OneKey'
    BY <1>4, <2>1 DEF QueueInv, OneKey, NewJob
  <2>4. EndedHoldsNoQuota'
    BY <1>1, <2>1 DEF QueueInv, EndedHoldsNoQuota, NewJob, Zero
  <2>5. Held' /\ OneHolder'
    BY <1>2, <1>3, <1>4, <2>1 DEF QueueInv, Held, OneHolder
  <2> QED BY <1>2, <2>2, <2>3, <2>4, <2>5 DEF QueueInv
<1>5. ASSUME NEW j \in Jobs, NEW g \in Games, Enqueue(j, g)
      PROVE  QueueInv'
  <2>1. \A k \in Jobs : job[k].game = g => ~job[k].keyed
    BY <1>5 DEF Enqueue
  <2> QED BY <1>4, <1>5, <2>1 DEF Enqueue
<1>6. ASSUME NEW j \in Jobs, NEW k \in Jobs, RetryJob(j, k)
      PROVE  QueueInv'
  <2>1. job[j].game \in Games \cup {None}
    BY <1>2 DEF JobRow
  <2> QED BY <1>4, <1>6, <2>1 DEF RetryJob
<1>7. ASSUME NEW j \in Jobs, CancelWaiting(j)
      PROVE  QueueInv'
  <2> DEFINE r == [job[j] EXCEPT !.status = "cancelled", !.cancel = TRUE, !.keyed = FALSE]
  <2>1. job[j].status \in Waiting
    BY <1>7 DEF CancelWaiting
  <2>2. job' = [job EXCEPT ![j] = r] /\ job'[j] = r
    BY <1>2, <1>7 DEF CancelWaiting
  <2>3. r \in JobRow /\ r.status = "cancelled" /\ ~r.keyed
    BY <1>1, <1>2, <2>2 DEF JobRow
  <2>4. Held' /\ OneHolder'
    BY <1>2, <1>3, <2>1, <2>2 DEF QueueInv, Held, OneHolder, Waiting
  <2>5. r.keyed <=> r.status \in Active
    BY <2>3 DEF Active, Waiting
  <2> HIDE DEF r
  <2> QED BY <1>1, <1>2, <2>2, <2>3, <2>4, <2>5, RowKept
<1>8. ASSUME NEW j \in Jobs, CancelRunning(j)
      PROVE  QueueInv'
  <2> DEFINE r == [job[j] EXCEPT !.cancel = TRUE]
  <2>1. job' = [job EXCEPT ![j] = r] /\ job'[j] = r
    BY <1>2, <1>8 DEF CancelRunning
  <2>2. /\ r \in JobRow /\ r.status = job[j].status /\ r.status = "running"
        /\ r.keyed = job[j].keyed /\ r.game = job[j].game /\ r.lease = job[j].lease
    BY <1>1, <1>2, <1>8, <2>1 DEF JobRow, CancelRunning
  <2>3. Held' /\ OneHolder'
    BY <1>2, <1>3, <2>1, <2>2 DEF QueueInv, Held, OneHolder
  <2>4. r.keyed <=> r.status \in Active
    BY <2>2 DEF QueueInv, KeyHeld
  <2> HIDE DEF r
  <2> QED BY <1>1, <1>2, <2>1, <2>2, <2>3, <2>4, RowKept
<1> QED BY <1>5, <1>6, <1>7, <1>8 DEF User

LEMMA QueueClock ==
    ASSUME QueueInv, Perils = {}, (\E j \in Jobs : LeaseExpires(j)) \/ RecoverStale
    PROVE  QueueInv'
<1>1. job' \in [Jobs -> JobRow] /\ UNCHANGED <<post, files, open, paid, calls, sess>>
  BY UserRows DEF QueueInv
<1>2. TypeInv' /\ TypeInv /\ job \in [Jobs -> JobRow]
  BY <1>1, RowsWritten DEF QueueInv, TypeInv, TypeOK
<1>3. \A w \in Workers : Job(w)' = Job(w) /\ Job(w) \in Jobs \cup {None}
  BY <1>1, <1>2 DEF Job, TypeInv, TypeOK, Session
<1>4. ASSUME NEW j \in Jobs, LeaseExpires(j)
      PROVE  QueueInv'
  <2> DEFINE r == [job[j] EXCEPT !.lease = "expired"]
  <2>1. job' = [job EXCEPT ![j] = r] /\ job'[j] = r
    BY <1>2, <1>4 DEF LeaseExpires
  <2>2. /\ r \in JobRow /\ r.status = "running" /\ r.status = job[j].status
        /\ r.keyed = job[j].keyed /\ r.game = job[j].game
    BY <1>1, <1>2, <1>4, <2>1 DEF JobRow, LeaseExpires
  <2>3. \A w \in Workers : Job(w) # j
    BY <1>4 DEF LeaseExpires, InHand, Job
  <2>4. Held' /\ OneHolder'
    BY <1>2, <1>3, <2>1, <2>3 DEF QueueInv, Held, OneHolder
  <2>5. r.keyed <=> r.status \in Active
    BY <2>2 DEF QueueInv, KeyHeld
  <2> HIDE DEF r
  <2> QED BY <1>1, <1>2, <2>1, <2>2, <2>4, <2>5, RowKept
<1>5. CASE RecoverStale
  <2>1. \A j \in Jobs :
            job'[j] = IF Stale(j) THEN Recovered(job[j]) ELSE job[j]
    BY <1>5 DEF RecoverStale
  <2>2. \A j \in Jobs : Stale(j) =>
            /\ job'[j].game = job[j].game
            /\ \/ job'[j].status = "manual_review" /\ ~job'[j].keyed
               \/ job'[j].status = "queued" /\ job'[j].keyed = job[j].keyed
            /\ job[j].status = "running" /\ job[j].lease = "expired"
    <3>1. \A r \in JobRow :
              LET q == Recovered(r)
              IN  /\ q.game = r.game
                  /\ \/ q.status = "manual_review" /\ ~q.keyed
                     \/ q.status = "queued" /\ q.keyed = r.keyed
      BY DEF Recovered, Ended, Requeued, JobRow
    <3> QED BY <1>2, <2>1, <3>1 DEF Stale
  <2>3. \A j \in Jobs : ~Stale(j) => job'[j] = job[j]
    BY <2>1
  <2>4. \A w \in Workers : Job(w) # None => ~Stale(Job(w))
    BY DEF QueueInv, Held, Stale
  <2>5. Held' /\ OneHolder'
    BY <1>3, <2>3, <2>4 DEF QueueInv, Held, OneHolder
  <2>6. KeyHeld'
    BY <2>2, <2>3 DEF QueueInv, KeyHeld, Active, Waiting
  <2>7. OneKey'
    BY <2>2, <2>3 DEF QueueInv, OneKey
  <2>8. EndedHoldsNoQuota'
    BY <1>1, <2>2, <2>3 DEF QueueInv, EndedHoldsNoQuota, Zero
  <2> QED BY <1>2, <2>5, <2>6, <2>7, <2>8 DEF QueueInv
<1> QED BY <1>4, <1>5

LEMMA QueueClaim ==
    ASSUME QueueInv, NEW w \in Workers, ClaimSome(w)
    PROVE  QueueInv'
<1>1. TypeInv /\ TypeInv' /\ job \in [Jobs -> JobRow] /\ sess \in [Workers -> Session]
  BY ClaimType DEF QueueInv, TypeInv, TypeOK
<1>2. PICK j \in Jobs : Claim(w, j)
  BY DEF ClaimSome
<1>3. PICK r \in JobRow :
          /\ job' = [job EXCEPT ![j] = r]
          /\ r.game = job[j].game /\ r.keyed = job[j].keyed
          /\ r.status = "running" /\ r.lease = "valid"
          /\ r.phase = "preparing" /\ r.retries = job[j].retries
          /\ sess' = [sess EXCEPT ![w] = [job |-> j, pc |-> "claimed", at |-> 0]]
          /\ [job |-> j, pc |-> "claimed", at |-> 0] \in Session
          /\ UNCHANGED <<post, files, open, paid, calls>>
  BY <1>1, <1>2, ClaimRows
<1>4. job[j].status \in Waiting
  BY <1>2 DEF Claim, Claimable
<1>5. /\ \A v \in Workers \ {w} : Job(v)' = Job(v) /\ Job(v) # j
      /\ Job(w)' = j
      /\ \A v \in Workers : Job(v) \in Jobs \cup {None}
  BY <1>1, <1>3, <1>4, Bounds DEF Job, QueueInv, Held, Waiting, Session
<1>6. Held' /\ OneHolder'
  BY <1>1, <1>3, <1>5 DEF QueueInv, Held, OneHolder
<1>7. r.keyed <=> r.status \in Active
  BY <1>3, <1>4 DEF QueueInv, KeyHeld, Active
<1> QED BY <1>1, <1>3, <1>6, <1>7, RowKept

LEMMA QueueWork ==
    ASSUME QueueInv, NEW w \in Workers, Work(w)
    PROVE  QueueInv'
<1>1. TypeInv /\ job \in [Jobs -> JobRow] /\ sess \in [Workers -> Session]
  BY DEF QueueInv, TypeInv, TypeOK
<1>2. Effect(w)
  BY <1>1, WorkEffect
<1>3. PICK r, s :
          /\ Goes(w, r, s)
          /\ r.game = job[Job(w)].game
          /\ Stays(w, r, s) \/ Leaves(w, r, s)
  BY <1>2 DEF Effect
<1>4. TypeInv'
  BY <1>1, <1>2, <1>3, WorkType DEF Effect
<1>5. Job(w) \in Jobs /\ \A j \in Jobs \ {Job(w)} : open'[j] = open[j]
  BY <1>2 DEF Effect
<1>6. /\ job' = [job EXCEPT ![Job(w)] = r] /\ job'[Job(w)] = r /\ r \in JobRow
      /\ sess' = [sess EXCEPT ![w] = s]
  BY <1>1, <1>3, <1>5 DEF Goes
<1>7. job[Job(w)].status = "running" /\ job[Job(w)].lease = "valid" /\ job[Job(w)].keyed
  BY <1>5, Bounds DEF QueueInv, Held, KeyHeld, Active
<1>8. \A v \in Workers \ {w} :
          /\ Job(v)' = Job(v) /\ Job(v) # Job(w)
          /\ Job(v) \in Jobs \cup {None}
  BY <1>1, <1>5, <1>6, Bounds DEF Job, QueueInv, OneHolder, Session
<1>9. Job(w)' = s.job
  BY <1>1, <1>6 DEF Job
<1>10. \A j \in Jobs \ {Job(w)} : job'[j] = job[j]
  BY <1>1, <1>6
<1>11. CASE Stays(w, r, s)
  <2>1. s.job = Job(w) /\ r.status = "running" /\ r.keyed /\ r.lease = "valid"
    BY <1>7, <1>11 DEF Stays
  <2>2. Held' /\ OneHolder'
    BY <1>6, <1>8, <1>9, <1>10, <2>1 DEF QueueInv, Held, OneHolder
  <2>3. r.keyed <=> r.status \in Active
    BY <2>1 DEF Active
  <2>4. r.keyed => job[Job(w)].keyed /\ r.game = job[Job(w)].game
    BY <1>3, <1>7
  <2>5. ~(r.status \in {"succeeded", "failed"})
    BY <2>1
  <2> QED BY <1>4, <1>5, <1>6, <2>2, <2>3, <2>4, <2>5, RowKept
<1>12. CASE Leaves(w, r, s)
  <2>1. /\ Job(w)' = None
        /\ \/ r.status \in Terminal /\ ~r.keyed
           \/ r.status \in Waiting /\ r.keyed
        /\ r.status \in {"succeeded", "failed"} => open'[Job(w)] = Zero
    BY <1>7, <1>9, <1>12 DEF Leaves, NoSess
  <2>2. Held' /\ OneHolder'
    BY <1>8, <1>10, <2>1 DEF QueueInv, Held, OneHolder
  <2>3. r.keyed <=> r.status \in Active
    BY <2>1 DEF Active, Waiting, Terminal
  <2>4. r.keyed => job[Job(w)].keyed /\ r.game = job[Job(w)].game
    BY <1>3, <1>7
  <2> QED BY <1>4, <1>5, <1>6, <2>1, <2>2, <2>3, <2>4, RowKept
<1> QED BY <1>3, <1>11, <1>12

LEMMA QueueLose ==
    ASSUME QueueInv, NEW w \in Workers, Lose(w)
    PROVE  QueueInv'
<1>1. TypeInv' /\ sess \in [Workers -> Session]
  BY LoseType DEF QueueInv, TypeInv, TypeOK
<1>2. UNCHANGED <<job, open>> /\ sess' = [sess EXCEPT ![w] = NoSess]
  BY DEF Lose
<1>3. Job(w)' = None /\ \A v \in Workers \ {w} : Job(v)' = Job(v)
  BY <1>1, <1>2 DEF Job, NoSess
<1>4. Held' /\ OneHolder'
  BY <1>2, <1>3 DEF QueueInv, Held, OneHolder
<1>5. KeyHeld' /\ OneKey' /\ EndedHoldsNoQuota'
  BY <1>2 DEF QueueInv, KeyHeld, OneKey, EndedHoldsNoQuota, Zero
<1> QED BY <1>1, <1>4, <1>5 DEF QueueInv

LEMMA QueueStep ==
    ASSUME QueueInv, Perils = {}, [Next]_vars
    PROVE  QueueInv'
<1>1. CASE UNCHANGED vars
  <2>1. TypeInv'
    BY <1>1, TypeStep DEF QueueInv
  <2>2. UNCHANGED <<job, open>> /\ \A w \in Workers : Job(w)' = Job(w)
    BY <1>1 DEF vars, Job
  <2> QED
    BY <2>1, <2>2 DEF QueueInv, Held, OneHolder, KeyHeld, OneKey, EndedHoldsNoQuota, Zero
<1> QED BY <1>1, QueueUser, QueueClock, QueueClaim, QueueWork, QueueLose DEF Next

LEMMA QueueAlways == ASSUME Perils = {} PROVE Spec => []QueueInv
<1>1. Init => QueueInv
  BY QueueInit
<1>2. QueueInv /\ [Next]_vars => QueueInv'
  BY QueueStep
<1> QED BY <1>1, <1>2, PTL DEF Spec

\* Of all the rows a game collects over timeouts, recoveries, cancellations and
\* manual restarts, a worker may still run at most one.
THEOREM QueueOneActiveJob == ASSUME Perils = {} PROVE Spec => []OneActiveJob
<1>1. QueueInv => OneActiveJob
  BY DEF QueueInv, KeyHeld, OneKey, OneActiveJob
<1> QED BY <1>1, QueueAlways, PTL

\* Two workers never generate for one game at the same time: the claim takes
\* only waiting rows, and a row is waiting again only out of every hand.
THEOREM QueueOneWorker == ASSUME Perils = {} PROVE Spec => []OneWorkerPerGame
<1>1. QueueInv => OneWorkerPerGame
  <2> SUFFICES ASSUME QueueInv, NEW v \in Workers, NEW w \in Workers,
                      Job(v) # None, Job(w) # None, Game(v) = Game(w)
               PROVE  v = w
    BY DEF OneWorkerPerGame
  <2>1. Job(v) \in Jobs /\ Job(w) \in Jobs
    BY DEF QueueInv, TypeInv, TypeOK, Session, Job
  <2>2. job[Job(v)].keyed /\ job[Job(w)].keyed
    BY <2>1 DEF QueueInv, Held, KeyHeld, Active
  <2>3. Job(v) = Job(w)
    BY <2>1, <2>2 DEF QueueInv, OneKey, Game
  <2> QED BY <2>3 DEF QueueInv, OneHolder
<1> QED BY <1>1, QueueAlways, PTL

\* No part of the monthly quota stays with a job that succeeded or failed, also
\* not a reservation of an attempt whose worker died.
THEOREM QueueQuotaReturned == ASSUME Perils = {} PROVE Spec => []EndedHoldsNoQuota
<1>1. QueueInv => EndedHoldsNoQuota
  BY DEF QueueInv
<1> QED BY <1>1, QueueAlways, PTL

-----------------------------------------------------------------------------
(* No paid call is repeated uncounted *)

\* The job has used the one call its retry map leaves it for this output.
Spent(j, o) == calls[j][o] > job[j].retries[o]

\* The result of the call is where a later attempt finds it.
Kept(j, o) == IF o = 0 THEN post[job[j].game].text ELSE <<j, o>> \in files

\* The result is still with the worker: the call is under way, or the text is
\* there and not committed.  A worker lost now leaves the phase "generating".
Carried(w, o) ==
    /\ job[Job(w)].phase = "generating"
    /\ \/ sess[w].pc = "calling" /\ sess[w].at = o
       \/ sess[w].pc = "render" /\ sess[w].at = 1 /\ o = 0

InHandSafe(w) ==
    /\ \A o \in Outputs : Spent(Job(w), o) => Kept(Job(w), o) \/ Carried(w, o)
    /\ sess[w].pc = "reserved" =>
           job[Job(w)].phase = "generating" /\ ~Kept(Job(w), sess[w].at)
    /\ sess[w].pc = "render" /\ sess[w].at = 0 => ~Kept(Job(w), 0)

\* A row in no hand: waiting with its results kept, or lost in the middle of a
\* call, in which case the recovery gives it to a person.
PutAwaySafe(j) ==
    \A o \in Outputs :
        Spent(j, o) =>
            \/ Kept(j, o)
            \/ job[j].status = "running" /\ job[j].phase = "generating"

RowSafe(j) ==
    /\ job[j].status = "unused" => calls[j] = Zero
    /\ job[j].status # "unused" => job[j].game \in Games

CallInv ==
    /\ QueueInv
    /\ CallsCounted
    /\ \A j \in Jobs : RowSafe(j)
    /\ \A w \in Workers : Job(w) # None => InHandSafe(w)
    /\ \A j \in Jobs : job[j].status \in Active /\ ~InHand(j) => PutAwaySafe(j)

\* The post helpers never lose a text.
LEMMA TextKept ==
    ASSUME NEW p \in PostRow
    PROVE  /\ Captured(p).text = p.text
           /\ \A j : Discarded(j, p).text = p.text
           /\ \A o : p.text => WithText(p, o).text
           /\ \A o \in Outputs : o > 0 => WithText(p, o).text
           /\ WithText(p, 0).text = p.text
<1>1. Captured(p).text = p.text
  BY DEF Captured, PostRow
<1>2. \A j : Discarded(j, p).text = p.text
  BY <1>1 DEF Discarded, NoPost, PostRow
<1>3. \A o : p.text => WithText(p, o).text
  BY DEF WithText, PostRow
<1>4. \A o \in Outputs : o > 0 => WithText(p, o).text
  BY DEF WithText, PostRow
<1>5. WithText(p, 0).text = p.text
  BY DEF WithText, PostRow
<1> QED BY <1>1, <1>2, <1>3, <1>4, <1>5

\* A step of worker w leaves the calls, the files and the posts of all other
\* jobs and games alone, and loses no file and no text.
Frame(w) ==
    /\ files \subseteq files'
    /\ \A k \in Jobs \ {Job(w)}, o \in Outputs : <<k, o>> \in files' => <<k, o>> \in files
    /\ \A k \in Jobs \ {Job(w)} : calls'[k] = calls[k]
    /\ \A g \in Games : post[g].text => post'[g].text
    /\ \A g \in Games \ {Game(w)} : post'[g] = post[g]

LEMMA PostFrame ==
    ASSUME TypeInv, NEW w \in Workers, NEW q,
           post' = [post EXCEPT ![Game(w)] = q],
           Game(w) \in Games => (post[Game(w)].text => q.text)
    PROVE  /\ \A g \in Games : post[g].text => post'[g].text
           /\ \A g \in Games \ {Game(w)} : post'[g] = post[g]
BY DEF TypeInv, TypeOK

LEMMA WorkFrame ==
    ASSUME TypeInv, NEW w \in Workers, Work(w)
    PROVE  Frame(w)
<1>1. /\ post \in [Games -> PostRow] /\ calls \in [Jobs -> [Outputs -> Nat]]
      /\ Game(w) \in Games => post[Game(w)] \in PostRow
  BY DEF TypeInv, TypeOK
<1>2. /\ files \subseteq files'
      /\ \A k \in Jobs \ {Job(w)}, o \in Outputs : <<k, o>> \in files' => <<k, o>> \in files
  <2>1. CASE ImageWritten(w)
    BY <2>1 DEF ImageWritten
  <2>2. ASSUME ~ImageWritten(w) PROVE UNCHANGED files
    BY <2>2 DEF Work, Start, ExistingPost, OpenPost, Reuse, Reserve, QuotaExceeded,
       CallProvider, TextAnswered, ImageChecked, ImageBilled, Assemble, Save, Finish,
       CancelNoticed, Fails, LogoUnavailable, DatabaseError, UnclearRetried, UnclearReviewed
  <2> QED BY <2>1, <2>2
<1>3. \A k \in Jobs \ {Job(w)} : calls'[k] = calls[k]
  <2>1. CASE CallProvider(w)
    BY <1>1, <2>1 DEF CallProvider
  <2>2. ASSUME ~CallProvider(w) PROVE UNCHANGED calls
    BY <2>2 DEF Work, Start, ExistingPost, OpenPost, Reuse, Reserve, QuotaExceeded,
       TextAnswered, ImageWritten, ImageChecked, ImageBilled, Assemble, Save, Finish,
       CancelNoticed, Fails, LogoUnavailable, DatabaseError, UnclearRetried, UnclearReviewed
  <2> QED BY <2>1, <2>2
<1>4. CASE UNCHANGED post
  BY <1>2, <1>3, <1>4 DEF Frame
<1>5. ASSUME NEW q, post' = [post EXCEPT ![Game(w)] = q],
             Game(w) \in Games => (post[Game(w)].text => q.text)
      PROVE  Frame(w)
  BY <1>2, <1>3, <1>5, PostFrame DEF Frame
<1>6. CASE \E status \in Terminal : EndJob(w, status)
  BY <1>1, <1>5, <1>6, TextKept DEF EndJob
<1>7. CASE \E o : post' = TextCommitted(w, o)
  BY <1>1, <1>5, <1>7, TextKept DEF TextCommitted
<1>8. CASE OpenPost(w)
  <2>1. post' = [post EXCEPT ![Game(w)] = [post[Game(w)] EXCEPT !.status = "creating"]]
    BY <1>8 DEF OpenPost
  <2>2. Game(w) \in Games =>
            [post[Game(w)] EXCEPT !.status = "creating"].text = post[Game(w)].text
    BY <1>1 DEF PostRow
  <2> QED BY <1>5, <2>1, <2>2
<1>9. CASE QuotaExceeded(w)
  <2>1. PICK o : post' = [post EXCEPT ![Game(w)] = WithText(Captured(@), o)]
    BY <1>9 DEF QuotaExceeded
  <2>2. Game(w) \in Games =>
            (post[Game(w)].text => WithText(Captured(post[Game(w)]), o).text)
    BY <1>1, TextKept, PostTypes
  <2> QED BY <1>5, <2>1, <2>2
<1>10. CASE Assemble(w)
  BY <1>5, <1>10 DEF Assemble
<1>11. CASE DatabaseError(w)
  BY <1>1, <1>5, <1>11, TextKept DEF DatabaseError
<1>12. CASE UnclearRetried(w)
  BY <1>1, <1>5, <1>12, TextKept DEF UnclearRetried
<1>13. CASE Start(w) \/ ExistingPost(w) \/ CallProvider(w) \/ TextAnswered(w)
            \/ ImageWritten(w) \/ ImageChecked(w) \/ ImageBilled(w) \/ Save(w) \/ Finish(w)
  <2>1. UNCHANGED post
    BY <1>13 DEF Start, ExistingPost, CallProvider, TextAnswered, ImageWritten,
       ImageChecked, ImageBilled, Save, Finish
  <2> QED BY <1>4, <2>1
<1>14. CASE Reuse(w) \/ Reserve(w)
  BY <1>7, <1>14 DEF Reuse, Reserve
<1>15. CASE CancelNoticed(w) \/ Fails(w) \/ LogoUnavailable(w) \/ UnclearReviewed(w)
  BY <1>6, <1>15 DEF CancelNoticed, Fails, LogoUnavailable, UnclearReviewed, Terminal
<1> QED
  BY <1>8, <1>9, <1>10, <1>11, <1>12, <1>13, <1>14, <1>15 DEF Work

\* What a worker's step has to show of its own job.
Own(w, j) ==
    /\ \A o \in Outputs : calls'[j][o] <= 1 + job'[j].retries[o]
    /\ Job(w)' # None => InHandSafe(w)'
    /\ Job(w)' = None /\ job'[j].status \in Active => PutAwaySafe(j)'

\* The rest of CallInv follows from the frame.
LEMMA OwnSuffices ==
    ASSUME CallInv, NEW w \in Workers, Work(w), NEW j \in Jobs, j = Job(w), Own(w, j)
    PROVE  CallInv'
<1>1. QueueInv /\ QueueInv' /\ TypeInv /\ TypeInv'
  BY QueueWork DEF CallInv, QueueInv
<1>2. Effect(w) /\ Frame(w)
  BY <1>1, WorkEffect, WorkFrame
<1>3. PICK r, s :
          /\ Goes(w, r, s)
          /\ r.game = job[j].game
          /\ Stays(w, r, s) \/ Leaves(w, r, s)
  BY <1>2 DEF Effect
<1>4. /\ j # None /\ job'[j].game = job[j].game /\ job'[j] = r
      /\ \A k \in Jobs \ {j} : job'[k] = job[k]
      /\ \A v \in Workers \ {w} : sess'[v] = sess[v] /\ Job(v)' = Job(v)
      /\ Job(w)' = s.job
  BY <1>1, <1>2, <1>3, Bounds DEF Effect, Goes, TypeInv, TypeOK, Job
<1>5. job[j].status = "running" /\ job[j].game \in Games
  BY <1>1, <1>4 DEF CallInv, QueueInv, Held, RowSafe
<1>6. job'[j].status # "unused"
  BY <1>3, <1>4, <1>5 DEF Stays, Leaves, Waiting, Terminal
<1>7. \A k \in Jobs \ {j}, o \in Outputs :
          /\ Spent(k, o)' <=> Spent(k, o)
          /\ job[k].game \in Games => (Kept(k, o) => Kept(k, o)')
  BY <1>2, <1>4 DEF Frame, Spent, Kept
<1>8. CallsCounted'
  BY <1>2, <1>4 DEF CallInv, CallsCounted, Frame, Own
<1>9. \A k \in Jobs : RowSafe(k)'
  BY <1>2, <1>4, <1>5, <1>6 DEF CallInv, RowSafe, Frame, Zero
<1>10. ASSUME NEW v \in Workers \ {w}, Job(v)' # None
       PROVE  InHandSafe(v)'
  <2>0. Job(v)' \in Jobs /\ Job(v)' = Job(v)
    BY <1>1, <1>4, <1>10 DEF TypeInv, TypeOK, Session, Job
  <2> PICK k \in Jobs : k = Job(v)
    BY <2>0
  <2>1. k # j /\ Job(v) # None /\ sess[v] \in Session
    BY <1>1, <1>4, <1>10, <2>0 DEF QueueInv, OneHolder, TypeInv, TypeOK
  <2>2. InHandSafe(v) /\ job[k].status = "running" /\ job[k].game \in Games
    BY <1>1, <2>1 DEF CallInv, QueueInv, Held, RowSafe
  <2>3. job[k].game # job[j].game
    BY <1>1, <1>4, <1>5, <2>1, <2>2 DEF QueueInv, KeyHeld, OneKey, Active
  <2>4. post'[job[k].game] = post[job[k].game] /\ job'[k] = job[k]
    BY <1>2, <1>4, <2>1, <2>2, <2>3 DEF Frame, Game
  <2>5. \A o \in Outputs : Kept(k, o)' => Kept(k, o)
    BY <1>2, <2>1, <2>4 DEF Frame, Kept
  <2>6. sess'[v] = sess[v] /\ Job(v)' = k
    BY <1>4, <2>0
  <2>7. \A o \in Outputs : Spent(k, o)' => Kept(k, o)' \/ Carried(v, o)'
    BY <1>7, <2>1, <2>2, <2>4, <2>6 DEF InHandSafe, Carried
  <2>8. sess[v].pc = "reserved" => sess[v].at \in Outputs
    BY <1>1 DEF TypeInv, WellFormed
  <2>9. sess'[v].pc = "reserved" =>
            job'[k].phase = "generating" /\ ~Kept(k, sess[v].at)'
    BY <2>2, <2>4, <2>5, <2>6, <2>8 DEF InHandSafe
  <2>10. sess'[v].pc = "render" /\ sess'[v].at = 0 => ~Kept(k, 0)'
    BY <2>2, <2>5, <2>6, Bounds DEF InHandSafe
  <2> QED BY <2>6, <2>7, <2>9, <2>10 DEF InHandSafe, Spent, Kept, Carried
<1>11. ASSUME NEW k \in Jobs \ {j}, job'[k].status \in Active, ~InHand(k)'
       PROVE  PutAwaySafe(k)'
  <2>1. ~InHand(k)
    BY <1>4, <1>11 DEF InHand, Job
  <2>2. PutAwaySafe(k) /\ job[k].game \in Games
    BY <1>4, <1>11, <2>1 DEF CallInv, RowSafe, Active, Waiting
  <2> QED BY <1>4, <1>7, <2>2 DEF PutAwaySafe
<1>12. \A v \in Workers : Job(v)' # None => InHandSafe(v)'
  BY <1>10 DEF Own
<1>13. \A k \in Jobs : job'[k].status \in Active /\ ~InHand(k)' => PutAwaySafe(k)'
  <2>1. Job(w)' = j \/ Job(w)' = None
    BY <1>3, <1>4 DEF Stays, Leaves, NoSess
  <2>2. Job(w)' = j => InHand(j)'
    BY DEF InHand, Job
  <2>3. job'[j].status \in Active /\ ~InHand(j)' => PutAwaySafe(j)'
    BY <2>1, <2>2 DEF Own
  <2> QED BY <1>11, <2>3
<1> QED BY <1>1, <1>8, <1>9, <1>12, <1>13 DEF CallInv

\* What a worker's step starts from.
LEMMA OwnBefore ==
    ASSUME CallInv, NEW w \in Workers, ~AtPc(w, "idle"), NEW j, j = Job(w)
    PROVE  /\ j \in Jobs /\ j # None /\ job[j] \in JobRow /\ sess[w] \in Session
           /\ job[j].status = "running" /\ job[j].game \in Games
           /\ post[job[j].game] \in PostRow
           /\ InHandSafe(w)
           /\ calls[j] \in [Outputs -> Nat] /\ job[j].retries \in [Outputs -> 0 .. MaxRetries]
           /\ \A o \in Outputs : calls[j][o] <= 1 + job[j].retries[o]
<1>1. TypeInv /\ QueueInv
  BY DEF CallInv, QueueInv
<1>2. j \in Jobs /\ j # None /\ job[j] \in JobRow /\ sess[w] \in Session
  BY <1>1, InHandTypes, Bounds
<1>3. job[j].status = "running" /\ job[j].game \in Games
  BY <1>1, <1>2 DEF QueueInv, Held, CallInv, RowSafe
<1>4. post[job[j].game] \in PostRow
  BY <1>1, <1>3 DEF TypeInv, TypeOK
<1>5. InHandSafe(w)
  BY <1>2 DEF CallInv
<1>6. /\ calls[j] \in [Outputs -> Nat] /\ job[j].retries \in [Outputs -> 0 .. MaxRetries]
      /\ \A o \in Outputs : calls[j][o] <= 1 + job[j].retries[o]
  BY <1>1, <1>2 DEF CallInv, CallsCounted, TypeInv, TypeOK, JobRow
<1> QED BY <1>2, <1>3, <1>4, <1>5, <1>6

\* What is kept stays kept.
LEMMA KeptStays ==
    ASSUME CallInv, NEW w \in Workers, Work(w), ~AtPc(w, "idle"), NEW j, j = Job(w)
    PROVE  /\ job'[j].game = job[j].game
           /\ \A o \in Outputs : Kept(j, o) => Kept(j, o)'
<1>1. Effect(w) /\ Frame(w) /\ TypeInv
  BY WorkEffect, WorkFrame DEF CallInv, QueueInv
<1>2. j \in Jobs /\ job[j].game \in Games
  BY OwnBefore
<1>3. job'[j].game = job[j].game
  BY <1>1, <1>2 DEF Effect, Goes, TypeInv, TypeOK
<1> QED BY <1>1, <1>2, <1>3 DEF Frame, Kept

\* Steps after which every result the job has paid for is kept.
LEMMA SettledOwn ==
    ASSUME CallInv, NEW w \in Workers, Work(w), ~AtPc(w, "idle"), NEW j, j = Job(w),
           Job(w)' = j, UNCHANGED calls, job'[j].retries = job[j].retries,
           \A o \in Outputs : Spent(j, o) => Kept(j, o)',
           sess'[w].pc # "reserved", sess'[w].pc = "render" => sess'[w].at # 0
    PROVE  Own(w, j)
<1>1. /\ j # None
      /\ \A o \in Outputs : calls[j][o] <= 1 + job[j].retries[o]
  BY OwnBefore
<1>2. \A o \in Outputs : calls'[j][o] <= 1 + job'[j].retries[o]
  BY <1>1
<1>3. \A o \in Outputs : Spent(j, o)' => Kept(j, o)'
  BY DEF Spent
<1>4. InHandSafe(w)'
  BY <1>3 DEF InHandSafe
<1> QED BY <1>1, <1>2, <1>4 DEF Own

\* Steps that only set the phase, from a place where no result is carried.
LEMMA PhasedOwn ==
    ASSUME CallInv, NEW w \in Workers, NEW j, j = Job(w),
           Start(w) \/ ExistingPost(w) \/ ImageChecked(w) \/ Save(w)
    PROVE  Own(w, j)
<1>1. ~AtPc(w, "idle") /\ Work(w)
  BY DEF Start, ExistingPost, ImageChecked, Save, AtPc, Work
<1>2. TypeInv /\ j \in Jobs /\ InHandSafe(w) /\ sess \in [Workers -> Session]
      /\ job \in [Jobs -> JobRow]
  BY <1>1, OwnBefore DEF CallInv, QueueInv, TypeInv, TypeOK
<1>3. sess[w].pc \notin {"calling", "render"}
  BY DEF Start, ExistingPost, ImageChecked, Save, AtPc
<1>4. \A o \in Outputs : Spent(j, o) => Kept(j, o)'
  BY <1>1, <1>2, <1>3, KeptStays DEF InHandSafe, Carried
<1>5. /\ Job(w)' = j
      /\ sess'[w].pc \in {"start", "save", "saved", "finish"}
  BY <1>2 DEF Start, ExistingPost, ImageChecked, Save, GoTo, Job, Session
<1>6. UNCHANGED calls
  BY DEF Start, ExistingPost, ImageChecked, Save
<1>7. job' = job \/ \E phase \in Phases : job' = InPhase(Job(w), phase)
  BY DEF Start, ExistingPost, ImageChecked, Save, Phases
<1>8. job'[j].retries = job[j].retries
  BY <1>2, <1>7 DEF InPhase, JobRow
<1> QED BY <1>1, <1>4, <1>5, <1>6, <1>8, SettledOwn

\* The phase an output starts with; its first image commits the text.
LEMMA OutputBegun ==
    ASSUME CallInv, NEW w \in Workers, NEW j, j = Job(w), NEW o, NextOutput(w, o), Work(w)
    PROVE  /\ ~AtPc(w, "idle") /\ sess[w].at = o /\ sess[w].pc = "render"
           /\ job'[j].retries = job[j].retries /\ job'[j].phase = "generating"
           /\ job'[j].game = job[j].game
           /\ \A p \in Outputs : Spent(j, p) => Kept(j, p)' \/ (p = 0 /\ o = 1)
<1>1. ~AtPc(w, "idle") /\ sess[w].at = o /\ sess[w].pc = "render"
  BY DEF NextOutput, AtPc
<1>2. j \in Jobs /\ InHandSafe(w) /\ job \in [Jobs -> JobRow] /\ job[j] \in JobRow
  BY <1>1, OwnBefore DEF CallInv, QueueInv, TypeInv, TypeOK
<1>3. job' = InPhase(Job(w), "generating")
  BY DEF NextOutput
<1>4. job'[j].retries = job[j].retries /\ job'[j].phase = "generating"
      /\ job'[j].game = job[j].game
  BY <1>2, <1>3 DEF InPhase, JobRow
<1>5. \A p \in Outputs : Spent(j, p) => Kept(j, p)' \/ (p = 0 /\ o = 1)
  BY <1>1, <1>2, KeptStays DEF InHandSafe, Carried
<1> QED BY <1>1, <1>4, <1>5

LEMMA ReuseOwn ==
    ASSUME CallInv, NEW w \in Workers, NEW j, j = Job(w), Reuse(w)
    PROVE  Own(w, j)
<1>1. PICK o \in 1 .. Images :
          /\ NextOutput(w, o)
          /\ post' = TextCommitted(w, o)
          /\ sess' = [sess EXCEPT ![w].at = o + 1]
          /\ UNCHANGED <<files, open, paid, calls>>
  BY DEF Reuse
<1>2. Work(w)
  BY DEF Work
<1>3. /\ ~AtPc(w, "idle") /\ sess[w].pc = "render"
      /\ job'[j].retries = job[j].retries /\ job'[j].game = job[j].game
      /\ \A p \in Outputs : Spent(j, p) => Kept(j, p)' \/ (p = 0 /\ o = 1)
  BY <1>1, <1>2, OutputBegun
<1>4. job[j].game \in Games /\ post \in [Games -> PostRow]
      /\ post[job[j].game] \in PostRow /\ sess \in [Workers -> Session]
  BY <1>3, OwnBefore DEF CallInv, QueueInv, TypeInv, TypeOK
<1>5. o \in Outputs /\ o > 0
  BY ConstantsAssumption DEF Outputs
<1>6. post'[job[j].game].text
  BY <1>1, <1>4, <1>5, TextKept DEF TextCommitted, Game
<1>7. \A p \in Outputs : Spent(j, p) => Kept(j, p)'
  BY <1>3, <1>6 DEF Kept
<1>8. Job(w)' = j /\ sess'[w].pc = "render" /\ sess'[w].at # 0
  BY <1>1, <1>3, <1>4 DEF Job, Session
<1> QED BY <1>1, <1>2, <1>3, <1>7, <1>8, SettledOwn

LEMMA AssembleOwn ==
    ASSUME CallInv, NEW w \in Workers, NEW j, j = Job(w), Assemble(w)
    PROVE  Own(w, j)
<1>1. /\ NextOutput(w, Images + 1)
      /\ post' = [post EXCEPT ![Game(w)] = [status |-> "pending", text |-> TRUE]]
      /\ sess' = GoTo(w, "save")
      /\ UNCHANGED <<files, open, paid, calls>>
  BY DEF Assemble
<1>2. Work(w)
  BY DEF Work
<1>3. /\ ~AtPc(w, "idle")
      /\ job'[j].retries = job[j].retries /\ job'[j].game = job[j].game
      /\ \A p \in Outputs : Spent(j, p) => Kept(j, p)' \/ (p = 0 /\ Images + 1 = 1)
  BY <1>1, <1>2, OutputBegun
<1>4. sess \in [Workers -> Session]
  BY DEF CallInv, QueueInv, TypeInv, TypeOK
<1>5. \A p \in Outputs : Spent(j, p) => Kept(j, p)'
  BY <1>3, ConstantsAssumption
<1>6. Job(w)' = j /\ sess'[w].pc = "save"
  BY <1>1, <1>4 DEF Job, GoTo, Session
<1> QED BY <1>1, <1>2, <1>3, <1>5, <1>6, SettledOwn

\* A new post starts at its text only when it has none.
LEMMA OpenPostOwn ==
    ASSUME CallInv, NEW w \in Workers, NEW j, j = Job(w), OpenPost(w)
    PROVE  Own(w, j)
<1>1. ~AtPc(w, "idle") /\ Work(w) /\ sess[w].pc = "start"
  BY DEF OpenPost, AtPc, Work
<1>2. /\ j \in Jobs /\ j # None /\ InHandSafe(w) /\ job[j] \in JobRow
      /\ job \in [Jobs -> JobRow] /\ sess \in [Workers -> Session]
      /\ post \in [Games -> PostRow] /\ job[j].game \in Games
      /\ post[job[j].game] \in PostRow
  BY <1>1, OwnBefore DEF CallInv, QueueInv, TypeInv, TypeOK
<1>3. /\ post' = [post EXCEPT ![Game(w)].status = "creating"]
      /\ job' = InPhase(Job(w), "generating")
      /\ sess' = [sess EXCEPT ![w].pc = "render",
                              ![w].at = IF post[Game(w)].text THEN 1 ELSE 0]
      /\ UNCHANGED calls
  BY DEF OpenPost
<1>4. job'[j].retries = job[j].retries /\ job'[j].game = job[j].game
  BY <1>2, <1>3 DEF InPhase, JobRow
<1>5. \A o \in Outputs : Spent(j, o)' => Kept(j, o)'
  BY <1>1, <1>2, <1>3, <1>4, KeptStays DEF InHandSafe, Carried, Spent
<1>6. post'[job[j].game].text = post[job[j].game].text
  BY <1>2, <1>3 DEF Game, PostRow
<1>7. /\ Job(w)' = j /\ sess'[w].pc = "render"
      /\ sess'[w].at = 0 => ~post[job[j].game].text
  BY <1>2, <1>3 DEF Job, Session, Game
<1>8. InHandSafe(w)'
  BY <1>4, <1>5, <1>6, <1>7 DEF InHandSafe, Kept
<1>9. \A o \in Outputs : calls'[j][o] <= 1 + job'[j].retries[o]
  BY <1>1, <1>3, <1>4, OwnBefore
<1> QED BY <1>2, <1>7, <1>8, <1>9 DEF Own

\* After the reservation a call follows only if no result is kept.
LEMMA ReserveOwn ==
    ASSUME CallInv, NEW w \in Workers, NEW j, j = Job(w), Reserve(w)
    PROVE  Own(w, j)
<1>1. PICK o \in Outputs :
          /\ NextOutput(w, o)
          /\ post' = TextCommitted(w, o)
          /\ sess' = GoTo(w, IF <<Job(w), o>> \in files THEN "saved" ELSE "reserved")
          /\ UNCHANGED <<files, paid, calls>>
  BY DEF Reserve
<1>2. Work(w)
  BY DEF Work
<1>3. /\ ~AtPc(w, "idle") /\ sess[w].pc = "render" /\ sess[w].at = o
      /\ job'[j].retries = job[j].retries /\ job'[j].game = job[j].game
      /\ job'[j].phase = "generating"
      /\ \A p \in Outputs : Spent(j, p) => Kept(j, p)' \/ (p = 0 /\ o = 1)
  BY <1>1, <1>2, OutputBegun
<1>4. /\ job[j].game \in Games /\ post \in [Games -> PostRow] /\ j # None
      /\ post[job[j].game] \in PostRow /\ sess \in [Workers -> Session]
      /\ InHandSafe(w)
  BY <1>3, OwnBefore DEF CallInv, QueueInv, TypeInv, TypeOK
<1>5. o \in Nat
  BY Bounds
<1>6. post'[job[j].game] = WithText(post[job[j].game], o)
  BY <1>1, <1>4 DEF TextCommitted, Game
<1>7. o > 0 => post'[job[j].game].text
  BY <1>4, <1>6, TextKept
<1>8. \A p \in Outputs : Spent(j, p)' => Kept(j, p)'
  BY <1>1, <1>3, <1>7 DEF Kept, Spent
<1>9. Job(w)' = j /\ sess'[w].at = o
      /\ sess'[w].pc = IF <<j, o>> \in files THEN "saved" ELSE "reserved"
  BY <1>1, <1>3, <1>4 DEF Job, GoTo, Session
<1>10. o = 0 => ~post'[job[j].game].text
  BY <1>3, <1>4, <1>6, TextKept DEF InHandSafe, Kept
<1>11. sess'[w].pc = "reserved" => ~Kept(j, o)'
  BY <1>1, <1>3, <1>9, <1>10 DEF Kept
<1>12. sess'[w].pc # "render"
  BY <1>9
<1>13. InHandSafe(w)'
  BY <1>3, <1>8, <1>9, <1>11, <1>12 DEF InHandSafe
<1>14. \A p \in Outputs : calls'[j][p] <= 1 + job'[j].retries[p]
  BY <1>1, <1>3, OwnBefore
<1> QED BY <1>4, <1>9, <1>13, <1>14 DEF Own

\* The call itself: nothing is kept, so the retry map still has room for it.
LEMMA CallProviderOwn ==
    ASSUME CallInv, NEW w \in Workers, NEW j, j = Job(w), CallProvider(w)
    PROVE  Own(w, j)
<1>1. ~AtPc(w, "idle") /\ Work(w) /\ sess[w].pc = "reserved"
  BY DEF CallProvider, AtPc, Work
<1>2. /\ j \in Jobs /\ j # None /\ InHandSafe(w) /\ job[j] \in JobRow
      /\ job \in [Jobs -> JobRow] /\ sess \in [Workers -> Session]
      /\ calls \in [Jobs -> [Outputs -> Nat]]
      /\ job[j].retries \in [Outputs -> 0 .. MaxRetries]
      /\ \A o \in Outputs : calls[j][o] <= 1 + job[j].retries[o]
  BY <1>1, OwnBefore DEF CallInv, QueueInv, TypeInv, TypeOK
<1> PICK o \in Outputs : o = sess[w].at
  BY <1>1 DEF CallInv, QueueInv, TypeInv, WellFormed
<1>3. job' = job \/ job' = InPhase(Job(w), "generating")
  BY DEF CallProvider
<1>4. job'[j].retries = job[j].retries /\ job'[j].phase = "generating"
  BY <1>1, <1>2, <1>3 DEF InPhase, JobRow, InHandSafe
<1>5. ~Spent(j, o)
  BY <1>1, <1>2 DEF InHandSafe, Carried
<1>6. calls[j][o] \in Nat /\ job[j].retries[o] \in Nat
  BY <1>2, ConstantsAssumption
<1>7. calls[j][o] + 1 <= 1 + job[j].retries[o]
  BY <1>5, <1>6 DEF Spent
<1>8. calls' = [calls EXCEPT ![j][o] = calls[j][o] + 1]
  BY DEF CallProvider
<1>9. calls'[j][o] = calls[j][o] + 1 /\ \A p \in Outputs \ {o} : calls'[j][p] = calls[j][p]
  BY <1>2, <1>8
<1>10. \A p \in Outputs : calls'[j][p] <= 1 + job'[j].retries[p]
  BY <1>2, <1>4, <1>7, <1>9
<1>11. Job(w)' = j /\ sess'[w].pc = "calling" /\ sess'[w].at = o
  BY <1>2 DEF CallProvider, Job, GoTo, Session
<1>12. \A p \in Outputs \ {o} : Spent(j, p)' => Kept(j, p)'
  BY <1>1, <1>2, <1>4, <1>9, KeptStays DEF InHandSafe, Carried, Spent
<1>13. Carried(w, o)'
  BY <1>4, <1>11 DEF Carried
<1>14. InHandSafe(w)'
  BY <1>11, <1>12, <1>13 DEF InHandSafe
<1> QED BY <1>2, <1>10, <1>11, <1>14 DEF Own

\* The answers: the text stays with the worker, an image is kept at once.
LEMMA AnswerOwn ==
    ASSUME CallInv, NEW w \in Workers, NEW j, j = Job(w),
           TextAnswered(w) \/ ImageWritten(w) \/ ImageBilled(w)
    PROVE  Own(w, j)
<1>1. ~AtPc(w, "idle") /\ Work(w)
  BY DEF TextAnswered, ImageWritten, ImageBilled, AtPc, Work
<1>2. /\ j \in Jobs /\ j # None /\ InHandSafe(w) /\ sess[w] \in Session
      /\ sess \in [Workers -> Session]
      /\ \A o \in Outputs : calls[j][o] <= 1 + job[j].retries[o]
  BY <1>1, OwnBefore DEF CallInv, QueueInv, TypeInv, TypeOK
<1>3. UNCHANGED <<job, calls>>
  BY DEF TextAnswered, ImageWritten, ImageBilled
<1>4. sess[w].at \in Nat
  BY <1>1, InHandTypes DEF CallInv, QueueInv
<1>5. CASE TextAnswered(w)
  <2>1. sess[w].pc = "calling" /\ sess[w].at = 0
    BY <1>5 DEF TextAnswered, AtPc
  <2>2. Job(w)' = j /\ sess'[w].pc = "render" /\ sess'[w].at = 1
    BY <1>2, <1>5 DEF TextAnswered, Job, Session
  <2>3. \A o \in Outputs : Spent(j, o)' => Kept(j, o)' \/ Carried(w, o)'
    BY <1>1, <1>2, <1>3, <2>1, <2>2, KeptStays DEF InHandSafe, Carried, Spent
  <2>4. InHandSafe(w)'
    BY <2>2, <2>3 DEF InHandSafe
  <2> QED BY <1>2, <1>3, <2>2, <2>4 DEF Own
<1>6. CASE ImageWritten(w)
  <2>1. /\ sess[w].pc = "calling" /\ sess[w].at > 0
        /\ <<j, sess[w].at>> \in files'
    BY <1>6 DEF ImageWritten, AtPc
  <2>2. \A o \in Outputs : Spent(j, o) => Kept(j, o)'
    BY <1>1, <1>2, <2>1, KeptStays DEF InHandSafe, Carried, Kept
  <2>3. Job(w)' = j /\ sess'[w].pc = "written"
    BY <1>2, <1>6 DEF ImageWritten, Job, Session, GoTo
  <2> QED BY <1>1, <1>3, <2>2, <2>3, SettledOwn
<1>7. CASE ImageBilled(w)
  <2>1. sess[w].pc = "saved"
    BY <1>7 DEF ImageBilled, AtPc
  <2>2. \A o \in Outputs : Spent(j, o) => Kept(j, o)'
    BY <1>1, <1>2, <2>1, KeptStays DEF InHandSafe, Carried
  <2>3. Job(w)' = j /\ sess'[w].pc = "render" /\ sess'[w].at = sess[w].at + 1
    BY <1>2, <1>7 DEF ImageBilled, Job, Session
  <2>4. sess'[w].at # 0
    BY <1>4, <2>3
  <2> QED BY <1>1, <1>3, <2>2, <2>3, <2>4, SettledOwn
<1> QED BY <1>5, <1>6, <1>7

\* A job that ends asks for nothing more.
LEMMA EndedOwn ==
    ASSUME CallInv, NEW w \in Workers, NEW j, j = Job(w), ~AtPc(w, "idle"),
           NEW status \in Terminal,
           job'[j].status = status, job'[j].retries = job[j].retries,
           UNCHANGED calls, sess' = [sess EXCEPT ![w] = NoSess]
    PROVE  Own(w, j)
<1>1. \A o \in Outputs : calls[j][o] <= 1 + job[j].retries[o]
  BY OwnBefore
<1>2. Job(w)' = None
  BY DEF CallInv, QueueInv, TypeInv, TypeOK, Job, NoSess
<1>3. job'[j].status \notin Active
  BY DEF Active, Waiting, Terminal
<1> QED BY <1>1, <1>2, <1>3 DEF Own

LEMMA EndOwn ==
    ASSUME CallInv, NEW w \in Workers, NEW j, j = Job(w),
           \/ QuotaExceeded(w) \/ Finish(w) \/ CancelNoticed(w) \/ Fails(w)
           \/ LogoUnavailable(w) \/ UnclearReviewed(w)
    PROVE  Own(w, j)
<1>1. ~AtPc(w, "idle")
  BY DEF QuotaExceeded, Finish, CancelNoticed, Fails, LogoUnavailable, UnclearReviewed, AtPc
<1>2. j \in Jobs /\ job[j] \in JobRow /\ job \in [Jobs -> JobRow]
  BY <1>1, OwnBefore DEF CallInv, QueueInv, TypeInv, TypeOK
<1>3. UNCHANGED calls /\ sess' = [sess EXCEPT ![w] = NoSess]
  BY DEF QuotaExceeded, Finish, CancelNoticed, Fails, LogoUnavailable, UnclearReviewed, EndJob
<1>4. ASSUME NEW status \in Terminal, NEW r \in JobRow, r.retries = job[j].retries,
             job' = [job EXCEPT ![j] = Ended(r, status)]
      PROVE  Own(w, j)
  <2>1. job'[j].status = status /\ job'[j].retries = job[j].retries
    BY <1>2, <1>4 DEF Ended, JobRow
  <2> QED BY <1>1, <1>3, <2>1, EndedOwn
<1>5. CASE QuotaExceeded(w)
  <2>1. job' = [job EXCEPT ![j] = Ended([job[j] EXCEPT !.phase = "generating"], "failed")]
    BY <1>2, <1>5 DEF QuotaExceeded
  <2>2. [job[j] EXCEPT !.phase = "generating"] \in JobRow
        /\ [job[j] EXCEPT !.phase = "generating"].retries = job[j].retries
    BY <1>2 DEF JobRow, Phases
  <2> QED BY <1>4, <2>1, <2>2 DEF Terminal
<1>6. CASE Finish(w)
  <2>1. job' = [job EXCEPT ![j] = Ended([job[j] EXCEPT !.phase = "completed"], "succeeded")]
    BY <1>2, <1>6 DEF Finish
  <2>2. [job[j] EXCEPT !.phase = "completed"] \in JobRow
        /\ [job[j] EXCEPT !.phase = "completed"].retries = job[j].retries
    BY <1>2 DEF JobRow, Phases
  <2> QED BY <1>4, <2>1, <2>2 DEF Terminal
<1>7. ASSUME NEW status \in Terminal, EndJob(w, status)
      PROVE  Own(w, j)
  <2>1. job' = [job EXCEPT ![j] = Ended(job[j], status)]
    BY <1>2, <1>7 DEF EndJob
  <2> QED BY <1>2, <1>4, <2>1
<1>8. CASE CancelNoticed(w) \/ Fails(w) \/ LogoUnavailable(w) \/ UnclearReviewed(w)
  BY <1>7, <1>8 DEF CancelNoticed, Fails, LogoUnavailable, UnclearReviewed, Terminal
<1> QED BY <1>5, <1>6, <1>8

\* A job goes back to the queue only from a phase in which nothing is carried,
\* or with the call it made counted in the retry map.
LEMMA RequeuedOwn ==
    ASSUME CallInv, NEW w \in Workers, NEW j, j = Job(w),
           DatabaseError(w) \/ UnclearRetried(w)
    PROVE  Own(w, j)
<1>1. ~AtPc(w, "idle") /\ Work(w)
  BY DEF DatabaseError, UnclearRetried, AtPc, Work
<1>2. /\ j \in Jobs /\ j # None /\ InHandSafe(w) /\ job[j] \in JobRow
      /\ job \in [Jobs -> JobRow] /\ sess \in [Workers -> Session]
      /\ calls[j] \in [Outputs -> Nat] /\ job[j].retries \in [Outputs -> 0 .. MaxRetries]
      /\ \A o \in Outputs : calls[j][o] <= 1 + job[j].retries[o]
  BY <1>1, OwnBefore DEF CallInv, QueueInv, TypeInv, TypeOK
<1>3. UNCHANGED calls /\ sess' = [sess EXCEPT ![w] = NoSess]
  BY DEF DatabaseError, UnclearRetried
<1>4. Job(w)' = None
  BY <1>2, <1>3 DEF Job, NoSess
<1>5. CASE DatabaseError(w)
  <2>1. job[j].phase # "generating"
    BY <1>5 DEF DatabaseError, SafeRetryPhases
  <2>2. job'[j].retries = job[j].retries
    BY <1>2, <1>5 DEF DatabaseError, Requeued, JobRow
  <2>3. \A o \in Outputs : Spent(j, o)' => Kept(j, o)'
    BY <1>1, <1>2, <1>3, <2>1, <2>2, KeptStays DEF InHandSafe, Carried, Spent
  <2>4. PutAwaySafe(j)'
    BY <2>3 DEF PutAwaySafe
  <2>5. \A o \in Outputs : calls'[j][o] <= 1 + job'[j].retries[o]
    BY <1>2, <1>3, <2>2
  <2> QED BY <1>4, <2>4, <2>5 DEF Own
<1>6. CASE UnclearRetried(w)
  <2> PICK o \in Outputs : o = sess[w].at
    BY <1>6 DEF UnclearRetried, AtPc, CallInv, QueueInv, TypeInv, WellFormed
  <2>1. sess[w].pc = "calling"
    BY <1>6 DEF UnclearRetried, AtPc
  <2>2. job' = [job EXCEPT ![j] = Requeued(RetryCounted(job[j], o), "retry_wait")]
    BY <1>2, <1>6 DEF UnclearRetried
  <2>3. job'[j].retries = [job[j].retries EXCEPT ![o] = @ + 1]
    BY <1>2, <2>2 DEF Requeued, RetryCounted, JobRow
  <2>4. /\ job'[j].retries[o] = job[j].retries[o] + 1
        /\ \A p \in Outputs \ {o} : job'[j].retries[p] = job[j].retries[p]
    BY <1>2, <2>3
  <2>5. \A p \in Outputs : calls[j][p] \in Nat /\ job[j].retries[p] \in Nat
    BY <1>2, ConstantsAssumption
  <2>6. \A p \in Outputs : calls'[j][p] <= 1 + job'[j].retries[p]
    BY <1>2, <1>3, <2>4, <2>5
  <2>7. \A p \in Outputs : Spent(j, p)' => Kept(j, p)'
    <3>1. ~(calls'[j][o] > job'[j].retries[o])
      BY <1>2, <1>3, <2>4, <2>5
    <3>2. \A p \in Outputs \ {o} : Spent(j, p) => Kept(j, p)'
      BY <1>1, <1>2, <2>1, KeptStays DEF InHandSafe, Carried
    <3> QED BY <1>3, <2>4, <3>1, <3>2 DEF Spent
  <2>8. PutAwaySafe(j)'
    BY <2>7 DEF PutAwaySafe
  <2> QED BY <1>4, <2>6, <2>8 DEF Own
<1> QED BY <1>5, <1>6

LEMMA CallWork ==
    ASSUME CallInv, NEW w \in Workers, Work(w)
    PROVE  CallInv'
<1> PICK j \in Jobs : j = Job(w)
  BY WorkEffect DEF CallInv, QueueInv, Effect
<1>1. Own(w, j)
  BY PhasedOwn, ReuseOwn, AssembleOwn, OpenPostOwn, ReserveOwn, CallProviderOwn,
     AnswerOwn, EndOwn, RequeuedOwn DEF Work
<1> QED BY <1>1, OwnSuffices

\* Requests, clock and claims leave calls, files and posts alone.
LEMMA CallRows ==
    ASSUME CallInv, QueueInv',
           UNCHANGED <<post, files, calls, sess>>,
           \A j \in Jobs :
               \/ job'[j] = job[j]
               \/ /\ job[j].status = "unused"
                  /\ job'[j].status = "queued" /\ job'[j].game \in Games
               \/ /\ job[j].status \in Active
                  /\ job'[j].game = job[j].game /\ job'[j].retries = job[j].retries
                  /\ job'[j].status \notin Waiting \cup {"unused"}
                  /\ job'[j].phase = job[j].phase
                  /\ job'[j].status = "running" => job[j].status = "running"
               \/ /\ job[j].status = "running" /\ job[j].phase # "generating" /\ ~InHand(j)
                  /\ job'[j].game = job[j].game /\ job'[j].retries = job[j].retries
                  /\ job'[j].status # "unused"
    PROVE  CallInv'
<1>1. /\ \A w \in Workers : Job(w)' = Job(w) /\ (Job(w) # None => Job(w) \in Jobs)
      /\ TypeInv /\ TypeInv' /\ job' \in [Jobs -> JobRow] /\ job \in [Jobs -> JobRow]
  BY DEF CallInv, QueueInv, TypeInv, TypeOK, Session, Job
<1>2. \A j \in Jobs : InHand(j)' <=> InHand(j)
  BY DEF InHand
<1>3. \A j \in Jobs, o \in Outputs :
          /\ job'[j].retries[o] \in Nat
          /\ job[j].status = "unused" => calls[j][o] = 0
  BY <1>1, ConstantsAssumption DEF JobRow, CallInv, RowSafe, Zero
<1>4. CallsCounted'
  <2> SUFFICES ASSUME NEW j \in Jobs, NEW o \in Outputs
               PROVE  calls'[j][o] <= 1 + job'[j].retries[o]
    BY DEF CallsCounted
  <2>1. CASE job[j].status = "unused"
    BY <1>3, <2>1
  <2>2. CASE job'[j].retries = job[j].retries
    BY <2>2 DEF CallInv, CallsCounted
  <2> QED BY <2>1, <2>2
<1>5. \A j \in Jobs : RowSafe(j)'
  BY DEF CallInv, RowSafe, Zero, Active, Waiting
<1>6. ASSUME NEW w \in Workers, Job(w)' # None
      PROVE  InHandSafe(w)'
  <2> PICK j \in Jobs : j = Job(w) /\ j = Job(w)'
    BY <1>1, <1>6
  <2>1. InHand(j) /\ job[j].status = "running" /\ InHandSafe(w)
    BY <1>1, <1>6 DEF InHand, Job, CallInv, QueueInv, Held
  <2>2. /\ job'[j].game = job[j].game /\ job'[j].retries = job[j].retries
        /\ job'[j].phase = job[j].phase
    BY <2>1
  <2> QED BY <2>1, <2>2 DEF InHandSafe, Spent, Kept, Carried
<1>7. ASSUME NEW j \in Jobs, job'[j].status \in Active, ~InHand(j)'
      PROVE  PutAwaySafe(j)'
  <2>1. ~InHand(j)
    BY <1>2, <1>7
  <2>2. CASE job[j].status = "unused"
    BY <1>3, <2>2 DEF PutAwaySafe, Spent
  <2>3. CASE job[j].status # "unused"
    <3>1. job'[j].game = job[j].game /\ job'[j].retries = job[j].retries
      BY <2>3
    <3>2. job[j].status \in Active
      BY <1>7 , <2>3 DEF Active
    <3>3. PutAwaySafe(j)
      BY <2>1, <3>2 DEF CallInv
    <3> QED BY <1>7, <3>1, <3>3 DEF PutAwaySafe, Spent, Kept, Active
  <2> QED BY <2>2, <2>3
<1> QED BY <1>4, <1>5, <1>6, <1>7 DEF CallInv

LEMMA CallUserClock ==
    ASSUME CallInv, Perils = {}, User \/ (\E j \in Jobs : LeaseExpires(j)) \/ RecoverStale
    PROVE  CallInv'
<1>1. QueueInv' /\ UNCHANGED <<post, files, calls, sess>>
  BY QueueUser, QueueClock, UserRows DEF CallInv, QueueInv
<1>2. job \in [Jobs -> JobRow] /\ job' \in [Jobs -> JobRow]
  BY <1>1 DEF CallInv, QueueInv, TypeInv, TypeOK
<1>3. ASSUME NEW j \in Jobs, NEW g \in Games, NEW source,
             job[j].status = "unused", job' = [job EXCEPT ![j] = NewJob(g, source)]
      PROVE  CallInv'
  <2>1. job'[j].status = "queued" /\ job'[j].game = g
    BY <1>2, <1>3 DEF NewJob
  <2>2. \A k \in Jobs \ {j} : job'[k] = job[k]
    BY <1>2, <1>3
  <2> QED BY <1>1, <1>3, <2>1, <2>2, CallRows
<1>4. ASSUME NEW j \in Jobs, NEW g \in Games, Enqueue(j, g)
      PROVE  CallInv'
  BY <1>3, <1>4 DEF Enqueue
<1>5. ASSUME NEW j \in Jobs, NEW k \in Jobs, RetryJob(j, k)
      PROVE  CallInv'
  <2>1. job[j].game \in Games
    BY <1>5 DEF RetryJob, CallInv, RowSafe
  <2> QED BY <1>3, <1>5, <2>1 DEF RetryJob
<1>6. ASSUME NEW j \in Jobs, job[j].status \in Active,
             \A k \in Jobs \ {j} : job'[k] = job[k],
             job'[j].game = job[j].game, job'[j].retries = job[j].retries,
             job'[j].phase = job[j].phase,
             \/ job'[j].status = "cancelled"
             \/ job'[j].status = "running" /\ job[j].status = "running"
      PROVE  CallInv'
  BY <1>1, <1>6, CallRows DEF Waiting
<1>7. ASSUME NEW j \in Jobs, CancelWaiting(j)
      PROVE  CallInv'
  <2>1. job[j].status \in Active
    BY <1>7 DEF CancelWaiting, Active
  <2>2. /\ \A k \in Jobs \ {j} : job'[k] = job[k]
        /\ job'[j].game = job[j].game /\ job'[j].retries = job[j].retries
        /\ job'[j].phase = job[j].phase /\ job'[j].status = "cancelled"
    BY <1>2, <1>7 DEF CancelWaiting, JobRow
  <2> QED BY <1>6, <2>1, <2>2
<1>8. ASSUME NEW j \in Jobs, CancelRunning(j) \/ LeaseExpires(j)
      PROVE  CallInv'
  <2>1. job[j].status = "running"
    BY <1>8 DEF CancelRunning, LeaseExpires
  <2>2. /\ \A k \in Jobs \ {j} : job'[k] = job[k]
        /\ job'[j].game = job[j].game /\ job'[j].retries = job[j].retries
        /\ job'[j].phase = job[j].phase /\ job'[j].status = job[j].status
    BY <1>2, <1>8 DEF CancelRunning, LeaseExpires, JobRow
  <2> QED BY <1>6, <2>1, <2>2 DEF Active
<1>9. CASE RecoverStale
  <2>1. \A r \in JobRow :
            LET q == Recovered(r)
            IN  /\ q.game = r.game /\ q.retries = r.retries /\ q.phase = r.phase
                /\ r.phase = "generating" => q.status = "manual_review"
                /\ r.phase # "generating" => q.status = "queued"
    BY DEF Recovered, Ended, Requeued, JobRow
  <2>2. \A j \in Jobs : job'[j] = IF Stale(j) THEN Recovered(job[j]) ELSE job[j]
    BY <1>9 DEF RecoverStale
  <2>3. \A j \in Jobs : Stale(j) => job[j].status = "running" /\ ~InHand(j)
    BY Bounds DEF Stale, InHand, CallInv, QueueInv, Held, Job
  <2>4. ASSUME NEW j \in Jobs, Stale(j)
        PROVE  /\ job[j].status = "running" /\ ~InHand(j)
               /\ job'[j].game = job[j].game /\ job'[j].retries = job[j].retries
               /\ job'[j].phase = job[j].phase
               /\ job[j].phase = "generating" => job'[j].status = "manual_review"
               /\ job[j].phase # "generating" => job'[j].status = "queued"
    BY <1>2, <2>1, <2>2, <2>3, <2>4
  <2>5. \A j \in Jobs : ~Stale(j) => job'[j] = job[j]
    BY <2>2
  <2> QED BY <1>1, <2>4, <2>5, CallRows DEF Active, Waiting
<1> QED BY <1>4, <1>5, <1>7, <1>8, <1>9 DEF User

\* A claimed job comes with all its paid results kept.
LEMMA CallClaim ==
    ASSUME CallInv, NEW w \in Workers, ClaimSome(w)
    PROVE  CallInv'
<1>1. /\ QueueInv' /\ QueueInv /\ TypeInv /\ TypeInv'
      /\ job \in [Jobs -> JobRow] /\ sess \in [Workers -> Session]
  BY QueueClaim DEF CallInv, QueueInv, TypeInv, TypeOK
<1>2. PICK j \in Jobs : Claim(w, j)
  BY DEF ClaimSome
<1>3. PICK r \in JobRow :
          /\ job' = [job EXCEPT ![j] = r]
          /\ r.game = job[j].game /\ r.keyed = job[j].keyed
          /\ r.status = "running" /\ r.lease = "valid"
          /\ r.phase = "preparing" /\ r.retries = job[j].retries
          /\ sess' = [sess EXCEPT ![w] = [job |-> j, pc |-> "claimed", at |-> 0]]
          /\ [job |-> j, pc |-> "claimed", at |-> 0] \in Session
          /\ UNCHANGED <<post, files, open, paid, calls>>
  BY <1>1, <1>2, ClaimRows
<1>4. job[j].status \in Waiting /\ Job(w) = None
  BY <1>1, <1>2 DEF Claim, Claimable, AtPc, TypeInv, WellFormed, Job
<1>5. /\ job'[j] = r /\ \A k \in Jobs \ {j} : job'[k] = job[k]
      /\ sess'[w].pc = "claimed" /\ Job(w)' = j
      /\ \A v \in Workers \ {w} : sess'[v] = sess[v] /\ Job(v)' = Job(v)
  BY <1>1, <1>3 DEF Job
<1>6. \A v \in Workers : Job(v) # j
  BY <1>4, Bounds DEF QueueInv, Held, CallInv, Waiting
<1>7. ~InHand(j) /\ job[j].game \in Games
  BY <1>4, <1>6 DEF InHand, Job, CallInv, RowSafe, Waiting
<1>8. PutAwaySafe(j)
  BY <1>4, <1>7 DEF CallInv, Active
<1>9. \A o \in Outputs : Spent(j, o)' => Kept(j, o)'
  BY <1>3, <1>4, <1>5, <1>8 DEF PutAwaySafe, Spent, Kept, Waiting
<1>10. InHandSafe(w)'
  BY <1>5, <1>9 DEF InHandSafe
<1>11. CallsCounted'
  BY <1>3, <1>5 DEF CallInv, CallsCounted
<1>12. \A k \in Jobs : RowSafe(k)'
  BY <1>3, <1>5, <1>7 DEF CallInv, RowSafe, Zero
<1>13. ASSUME NEW v \in Workers \ {w}, Job(v)' # None
       PROVE  InHandSafe(v)'
  <2>0. Job(v)' = Job(v) /\ Job(v) \in Jobs
    BY <1>1, <1>5, <1>13 DEF Session, Job
  <2> PICK k \in Jobs : k = Job(v) /\ k = Job(v)'
    BY <2>0
  <2>1. k # j /\ job'[k] = job[k] /\ InHandSafe(v) /\ sess'[v] = sess[v]
    BY <1>5, <1>6, <1>13 DEF CallInv
  <2> QED BY <1>3, <2>1 DEF InHandSafe, Spent, Kept, Carried
<1>14. ASSUME NEW k \in Jobs, job'[k].status \in Active, ~InHand(k)'
       PROVE  PutAwaySafe(k)'
  <2>1. k # j
    BY <1>5, <1>14 DEF InHand, Job
  <2>2. ~InHand(k)
    BY <1>4, <1>5, <1>14, Bounds DEF InHand, Job
  <2>3. PutAwaySafe(k) /\ job'[k] = job[k]
    BY <1>5, <1>14, <2>1, <2>2 DEF CallInv
  <2> QED BY <1>3, <2>3 DEF PutAwaySafe, Spent, Kept
<1> QED BY <1>1, <1>10, <1>11, <1>12, <1>13, <1>14 DEF CallInv

\* A worker that dies leaves its results kept, or its job marked as generating.
LEMMA CallLose ==
    ASSUME CallInv, NEW w \in Workers, Lose(w)
    PROVE  CallInv'
<1>1. QueueInv' /\ QueueInv /\ TypeInv /\ sess \in [Workers -> Session] /\ ~AtPc(w, "idle")
  BY QueueLose DEF CallInv, QueueInv, TypeInv, TypeOK, Lose
<1>2. UNCHANGED <<job, post, files, calls>> /\ sess' = [sess EXCEPT ![w] = NoSess]
  BY DEF Lose
<1> PICK j \in Jobs : j = Job(w)
  BY <1>1, OwnBefore
<1>3. /\ Job(w)' = None
      /\ \A v \in Workers \ {w} : sess'[v] = sess[v] /\ Job(v)' = Job(v)
  BY <1>1, <1>2 DEF Job, NoSess
<1>4. InHandSafe(w) /\ job[j].status = "running"
  BY <1>1, OwnBefore
<1>5. PutAwaySafe(j)'
  BY <1>2, <1>4 DEF InHandSafe, Carried, PutAwaySafe, Spent, Kept
<1>6. ASSUME NEW v \in Workers, Job(v)' # None
      PROVE  InHandSafe(v)'
  <2>0. v # w /\ Job(v)' = Job(v) /\ Job(v) \in Jobs
    BY <1>1, <1>3, <1>6 DEF Session, Job
  <2> PICK k \in Jobs : k = Job(v) /\ k = Job(v)'
    BY <2>0
  <2>1. InHandSafe(v) /\ sess'[v] = sess[v]
    BY <1>3, <1>6, <2>0 DEF CallInv
  <2> QED BY <1>2, <2>1 DEF InHandSafe, Spent, Kept, Carried
<1>7. ASSUME NEW k \in Jobs, job'[k].status \in Active, ~InHand(k)'
      PROVE  PutAwaySafe(k)'
  <2>1. CASE k = j
    BY <1>5, <2>1
  <2>2. CASE k # j
    <3>1. ~InHand(k)
      BY <1>3, <1>7, <2>2 DEF InHand, Job
    <3> QED BY <1>2, <1>7, <3>1 DEF CallInv, PutAwaySafe, Spent, Kept
  <2> QED BY <2>1, <2>2
<1>8. CallsCounted' /\ \A k \in Jobs : RowSafe(k)'
  BY <1>2 DEF CallInv, CallsCounted, RowSafe, Zero
<1> QED BY <1>1, <1>6, <1>7, <1>8 DEF CallInv

LEMMA CallInit == Init => CallInv
<1> SUFFICES ASSUME Init PROVE CallInv
  OBVIOUS
<1>1. QueueInv /\ TypeInv
  BY QueueInit DEF QueueInv
<1>2. /\ \A j \in Jobs : job[j].status = "unused" /\ calls[j] = Zero
      /\ \A w \in Workers : Job(w) = None
  BY DEF Init, NewJob, Job, NoSess
<1>3. \A j \in Jobs, o \in Outputs : calls[j][o] = 0 /\ job[j].retries[o] \in Nat
  BY <1>1, <1>2, ConstantsAssumption DEF Zero, TypeInv, TypeOK, JobRow
<1>4. CallsCounted
  BY <1>3 DEF CallsCounted
<1> QED BY <1>1, <1>2, <1>4 DEF CallInv, RowSafe, Active, Waiting

LEMMA CallStep ==
    ASSUME CallInv, Perils = {}, [Next]_vars
    PROVE  CallInv'
<1>1. CASE UNCHANGED vars
  <2>1. QueueInv'
    BY <1>1, QueueStep DEF CallInv
  <2>2. UNCHANGED <<job, post, files, calls, sess>>
    BY <1>1 DEF vars
  <2>3. \A j \in Jobs : job'[j] = job[j]
    BY <2>2
  <2> QED BY <2>1, <2>2, <2>3, CallRows
<1> QED BY <1>1, CallUserClock, CallClaim, CallWork, CallLose DEF Next

\* The provider is called for an output once more than the retry map counts at
\* the most: deaths, recoveries and database errors never repeat a paid call.
THEOREM CallsAlwaysCounted == ASSUME Perils = {} PROVE Spec => []CallsCounted
<1>1. Init => CallInv
  BY CallInit
<1>2. CallInv /\ [Next]_vars => CallInv'
  BY CallStep
<1>3. CallInv => CallsCounted
  BY DEF CallInv
<1> QED BY <1>1, <1>2, <1>3, PTL DEF Spec

\* One job and one worker at a time for a game.
THEOREM QueueUndivided == ASSUME Perils = {} PROVE Spec => []OneAtATime
BY QueueOneActiveJob, QueueOneWorker, PTL DEF OneAtATime

\* Paid calls are counted, and their reservations do not outlive their jobs.
THEOREM QueueAccounted == ASSUME Perils = {} PROVE Spec => []CallsAccounted
BY CallsAlwaysCounted, QueueQuotaReturned, PTL DEF CallsAccounted

-----------------------------------------------------------------------------
(* The monthly quota                                                         *)

\* A worker between its reservation and the bill has the reservation: nobody else
\* ends its job, so no release of another worker takes it away.
Reserved ==
    \A w \in Workers :
        sess[w].pc \in {"reserved", "calling", "written", "saved"} =>
            open[Job(w)][sess[w].at] > 0

WithinQuota ==
    \A kind \in {"text", "image"} : IsFiniteSet(Entries(kind)) /\ Used(kind) <= Limit[kind]

QuotaInv == QueueInv /\ Reserved /\ WithinQuota

\* No output has more entries than before.
LedgerShrinks ==
    \A j \in Jobs, o \in Outputs : open'[j][o] + paid'[j][o] <= open[j][o] + paid[j][o]

\* One entry more, within the quota.
LedgerGrows ==
    \E j \in Jobs, o \in Outputs :
        /\ Used(Kind(o)) < Limit[Kind(o)]
        /\ paid' = paid
        /\ open' = [open EXCEPT ![j] = [open[j] EXCEPT ![o] = open[j][o] + 1]]

\* The entries one by one.
LEMMA EntriesAre ==
    ASSUME NEW kind, NEW x
    PROVE  x \in Entries(kind) <=>
               \E j \in Jobs, o \in Outputs :
                   /\ Kind(o) = kind
                   /\ \E n \in 1 .. (open[j][o] + paid[j][o]) : x = <<j, o, n>>
<1> DEFINE S(j, o) == {<<j, o, n>> : n \in 1 .. (open[j][o] + paid[j][o])}
<1>1. \A j \in Jobs, o \in Outputs :
          x \in S(j, o) <=> \E n \in 1 .. (open[j][o] + paid[j][o]) : x = <<j, o, n>>
  OBVIOUS
<1>2. Entries(kind) = UNION {S(j, o) : j \in Jobs, o \in {p \in Outputs : Kind(p) = kind}}
  BY DEF Entries
<1> HIDE DEF S
<1>3. x \in UNION {S(j, o) : j \in Jobs, o \in {p \in Outputs : Kind(p) = kind}} <=>
          \E j \in Jobs, o \in {p \in Outputs : Kind(p) = kind} : x \in S(j, o)
  OBVIOUS
<1> QED BY <1>1, <1>2, <1>3

LEMMA EntriesBecome ==
    ASSUME NEW kind, NEW x
    PROVE  x \in Entries(kind)' <=>
               \E j \in Jobs, o \in Outputs :
                   /\ Kind(o) = kind
                   /\ \E n \in 1 .. (open'[j][o] + paid'[j][o]) : x = <<j, o, n>>
<1> DEFINE S(j, o) == {<<j, o, n>> : n \in 1 .. (open'[j][o] + paid'[j][o])}
<1>1. \A j \in Jobs, o \in Outputs :
          x \in S(j, o) <=> \E n \in 1 .. (open'[j][o] + paid'[j][o]) : x = <<j, o, n>>
  OBVIOUS
<1>2. Entries(kind)' = UNION {S(j, o) : j \in Jobs, o \in {p \in Outputs : Kind(p) = kind}}
  BY DEF Entries
<1> HIDE DEF S
<1>3. x \in UNION {S(j, o) : j \in Jobs, o \in {p \in Outputs : Kind(p) = kind}} <=>
          \E j \in Jobs, o \in {p \in Outputs : Kind(p) = kind} : x \in S(j, o)
  OBVIOUS
<1> QED BY <1>1, <1>2, <1>3

LEMMA Shrinking ==
    ASSUME TypeInv, TypeInv', WithinQuota, LedgerShrinks
    PROVE  WithinQuota'
<1> SUFFICES ASSUME NEW kind \in {"text", "image"}
             PROVE  IsFiniteSet(Entries(kind))' /\ Used(kind)' <= Limit[kind]
  BY DEF WithinQuota
<1>1. ASSUME NEW j \in Jobs, NEW o \in Outputs
      PROVE  1 .. (open'[j][o] + paid'[j][o]) \subseteq 1 .. (open[j][o] + paid[j][o])
  BY DEF LedgerShrinks, TypeInv, TypeOK
<1>2. Entries(kind)' \subseteq Entries(kind)
  <2> SUFFICES ASSUME NEW x \in Entries(kind)' PROVE x \in Entries(kind)
    OBVIOUS
  <2>1. PICK j \in Jobs, o \in Outputs :
            /\ Kind(o) = kind
            /\ \E n \in 1 .. (open'[j][o] + paid'[j][o]) : x = <<j, o, n>>
    BY EntriesBecome
  <2> QED BY <1>1, <2>1, EntriesAre
<1>3. IsFiniteSet(Entries(kind)) /\ Cardinality(Entries(kind)) <= Limit[kind]
  BY DEF WithinQuota, Used
<1>4. /\ IsFiniteSet(Entries(kind)')
      /\ Cardinality(Entries(kind)') <= Cardinality(Entries(kind))
  BY <1>2, <1>3, FS_Subset
<1>5. Cardinality(Entries(kind)') \in Nat /\ Cardinality(Entries(kind)) \in Nat
  BY <1>3, <1>4, FS_CardinalityType
<1>6. Limit[kind] \in Nat
  BY ConstantsAssumption
<1> QED BY <1>3, <1>4, <1>5, <1>6 DEF Used

LEMMA Growing ==
    ASSUME TypeInv, WithinQuota, LedgerGrows
    PROVE  WithinQuota'
<1> SUFFICES ASSUME NEW kind \in {"text", "image"}
             PROVE  IsFiniteSet(Entries(kind))' /\ Used(kind)' <= Limit[kind]
  BY DEF WithinQuota
<1>1. PICK j \in Jobs, o \in Outputs :
          /\ Used(Kind(o)) < Limit[Kind(o)]
          /\ paid' = paid
          /\ open' = [open EXCEPT ![j] = [open[j] EXCEPT ![o] = open[j][o] + 1]]
  BY DEF LedgerGrows
<1> DEFINE n == open[j][o] + paid[j][o]
<1>2. n \in Nat /\ open \in [Jobs -> [Outputs -> Nat]] /\ paid \in [Jobs -> [Outputs -> Nat]]
  BY DEF TypeInv, TypeOK
<1>3. open'[j][o] + paid'[j][o] = n + 1
  BY <1>1, <1>2
<1>4. \A k \in Jobs, q \in Outputs :
          k # j \/ q # o => open'[k][q] + paid'[k][q] = open[k][q] + paid[k][q]
  BY <1>1, <1>2
<1>5. IsFiniteSet(Entries(kind)) /\ Cardinality(Entries(kind)) <= Limit[kind]
  BY DEF WithinQuota, Used
<1>6. Cardinality(Entries(kind)) \in Nat /\ Limit[kind] \in Nat
  BY <1>5, FS_CardinalityType, ConstantsAssumption
<1>7. CASE kind = Kind(o)
  <2>1. 1 .. (n + 1) = (1 .. n) \cup {n + 1}
    BY <1>2
  <2>2. ASSUME NEW x \in Entries(kind)' PROVE x \in Entries(kind) \cup {<<j, o, n + 1>>}
    <3>1. PICK k \in Jobs, q \in Outputs :
              /\ Kind(q) = kind
              /\ \E i \in 1 .. (open'[k][q] + paid'[k][q]) : x = <<k, q, i>>
      BY <2>2, EntriesBecome
    <3>2. PICK i \in 1 .. (open'[k][q] + paid'[k][q]) : x = <<k, q, i>>
      BY <3>1
    <3>3. i \in 1 .. (open[k][q] + paid[k][q]) \/ (k = j /\ q = o /\ i = n + 1)
      BY <1>3, <1>4, <2>1, <3>2
    <3> QED BY <3>1, <3>2, <3>3, EntriesAre
  <2>3. Entries(kind)' = Entries(kind) \cup {<<j, o, n + 1>>}
    <3>1. <<j, o, n + 1>> \in Entries(kind)'
      BY <1>2, <1>3, <1>7, EntriesBecome
    <3>2. ASSUME NEW x \in Entries(kind) PROVE x \in Entries(kind)'
      <4>1. PICK k \in Jobs, q \in Outputs :
                /\ Kind(q) = kind
                /\ \E i \in 1 .. (open[k][q] + paid[k][q]) : x = <<k, q, i>>
        BY <3>2, EntriesAre
      <4>2. PICK i \in 1 .. (open[k][q] + paid[k][q]) : x = <<k, q, i>>
        BY <4>1
      <4>3. i \in 1 .. (open'[k][q] + paid'[k][q])
        BY <1>3, <1>4, <2>1, <4>2
      <4> QED BY <4>1, <4>2, <4>3, EntriesBecome
    <3> QED BY <2>2, <3>1, <3>2
  <2>4. <<j, o, n + 1>> \notin Entries(kind)
    BY <1>2, EntriesAre
  <2>5. /\ IsFiniteSet(Entries(kind) \cup {<<j, o, n + 1>>})
        /\ Cardinality(Entries(kind) \cup {<<j, o, n + 1>>}) = Cardinality(Entries(kind)) + 1
    BY <1>5, <2>4, FS_AddElement
  <2>6. Cardinality(Entries(kind)) < Limit[kind]
    BY <1>1, <1>7 DEF Used
  <2> QED BY <1>6, <2>3, <2>5, <2>6 DEF Used
<1>8. CASE kind # Kind(o)
  <2>1. Entries(kind)' = Entries(kind)
    BY <1>4, <1>8 DEF Entries
  <2> QED BY <1>5, <2>1 DEF Used
<1> QED BY <1>7, <1>8

\* What a worker does to the ledger.
LEMMA WorkLedger ==
    ASSUME QueueInv, Reserved, NEW w \in Workers, Work(w)
    PROVE  /\ LedgerShrinks \/ LedgerGrows
           /\ sess'[w].pc \in {"reserved", "calling", "written", "saved"} =>
                  open'[sess'[w].job][sess'[w].at] > 0
<1> DEFINE j == Job(w)
<1>1. /\ open \in [Jobs -> [Outputs -> Nat]] /\ paid \in [Jobs -> [Outputs -> Nat]]
      /\ sess \in [Workers -> Session] /\ j \in Jobs /\ TypeInv
  BY WorkEffect DEF QueueInv, TypeInv, TypeOK, Effect
<1>2. CASE \E o \in Outputs : AtPc(w, "render") /\ Reserve(w)
  <2>1. PICK o \in Outputs :
            /\ sess[w].at = o /\ QuotaLeft(o)
            /\ open' = [open EXCEPT ![j][o] = @ + 1]
            /\ sess' = GoTo(w, IF <<j, o>> \in files THEN "saved" ELSE "reserved")
            /\ paid' = paid
    BY <1>2 DEF Reserve, NextOutput
  <2>2. open' = [open EXCEPT ![j] = [open[j] EXCEPT ![o] = open[j][o] + 1]]
    BY <1>1, <2>1
  <2>3. sess'[w].at = o /\ sess'[w].job = j
    BY <1>1, <2>1 DEF GoTo, Job
  <2>4. open'[j][o] > 0
    BY <1>1, <2>2
  <2>5. LedgerGrows
    BY <1>1, <2>1, <2>2 DEF LedgerGrows, QuotaLeft
  <2> QED BY <2>3, <2>4, <2>5
<1>3. CASE Billed(w, sess[w].at) /\ sess[w].pc \in {"calling", "saved"}
           /\ sess'[w].pc = "render"
  <2>1. open[j][sess[w].at] > 0 /\ sess[w].at \in Outputs
    BY <1>1, <1>3 DEF Reserved, TypeInv, WellFormed
  <2>2. LedgerShrinks
    BY <1>1, <1>3, <2>1 DEF LedgerShrinks, Billed
  <2> QED BY <1>3, <2>2
<1>4. CASE open' = [open EXCEPT ![j] = Zero] /\ paid' = paid /\ sess' = [sess EXCEPT ![w] = NoSess]
  <2>1. LedgerShrinks
    BY <1>1, <1>4 DEF LedgerShrinks, Zero
  <2> QED BY <1>1, <1>4, <2>1 DEF NoSess
<1>5. ASSUME open' = open /\ paid' = paid,
             \/ sess'[w].pc \notin {"reserved", "calling", "written", "saved"}
             \/ /\ sess[w].pc \in {"reserved", "calling", "written", "saved"}
                /\ sess'[w].job = j /\ sess'[w].at = sess[w].at
      PROVE  /\ LedgerShrinks \/ LedgerGrows
             /\ sess'[w].pc \in {"reserved", "calling", "written", "saved"} =>
                  open'[sess'[w].job][sess'[w].at] > 0
  BY <1>1, <1>5 DEF LedgerShrinks, Reserved
<1>6. CASE Start(w) \/ ExistingPost(w) \/ OpenPost(w) \/ Reuse(w) \/ Assemble(w) \/ Save(w)
           \/ DatabaseError(w)
  <2>1. open' = open /\ paid' = paid
    BY <1>6 DEF Start, ExistingPost, OpenPost, Reuse, Assemble, Save, DatabaseError
  <2>2. sess'[w].pc \in {"start", "save", "render", "finish", "idle"}
    <3>1. CASE Reuse(w)
      BY <1>1, <3>1 DEF Reuse, NextOutput, AtPc, Session
    <3>2. CASE DatabaseError(w)
      BY <1>1, <3>2 DEF DatabaseError, NoSess
    <3> QED BY <1>1, <1>6, <3>1, <3>2 DEF Start, ExistingPost, OpenPost, Assemble, Save, GoTo, Session
  <2> QED BY <1>5, <2>1, <2>2
<1>7. CASE CallProvider(w) \/ ImageWritten(w) \/ ImageChecked(w)
  <2>1. open' = open /\ paid' = paid
    BY <1>7 DEF CallProvider, ImageWritten, ImageChecked
  <2>2. /\ sess[w].pc \in {"reserved", "calling", "written"}
        /\ \E pc : sess' = [sess EXCEPT ![w].pc = pc]
    BY <1>7 DEF CallProvider, ImageWritten, ImageChecked, AtPc, GoTo
  <2>3. sess'[w].job = j /\ sess'[w].at = sess[w].at
    BY <1>1, <2>2 DEF Job, Session
  <2> QED BY <1>5, <2>1, <2>2, <2>3
<1>8. CASE TextAnswered(w) \/ ImageBilled(w)
  BY <1>1, <1>3, <1>8 DEF TextAnswered, ImageBilled, AtPc, Session
<1>9. CASE QuotaExceeded(w) \/ Finish(w) \/ CancelNoticed(w) \/ Fails(w) \/ LogoUnavailable(w)
           \/ UnclearRetried(w) \/ UnclearReviewed(w)
  BY <1>4, <1>9 DEF QuotaExceeded, Finish, CancelNoticed, Fails, LogoUnavailable,
     UnclearRetried, UnclearReviewed, EndJob
<1>10. CASE Reserve(w)
  BY <1>2, <1>10 DEF Reserve, NextOutput
<1> QED BY <1>6, <1>7, <1>8, <1>9, <1>10 DEF Work

LEMMA QuotaInit == Init => QuotaInv
<1> SUFFICES ASSUME Init PROVE QuotaInv
  OBVIOUS
<1>1. Reserved
  BY DEF Reserved, Init, NoSess
<1>2. ASSUME NEW kind \in {"text", "image"}
      PROVE  IsFiniteSet(Entries(kind)) /\ Used(kind) <= Limit[kind]
  <2>1. \A j \in Jobs, o \in Outputs : open[j][o] + paid[j][o] = 0
    BY DEF Init, Zero
  <2>2. \A j \in Jobs, o \in Outputs : 1 .. (open[j][o] + paid[j][o]) = {}
    BY <2>1
  <2>3. Entries(kind) = {}
    BY <2>2 DEF Entries
  <2> QED BY <2>3, FS_EmptySet, ConstantsAssumption DEF Used
<1> QED BY <1>1, <1>2, QueueInit DEF QuotaInv, WithinQuota

LEMMA QuotaStep ==
    ASSUME QuotaInv, QueueInv', [Next]_vars, Perils = {}
    PROVE  QuotaInv'
<1>1. TypeInv /\ TypeInv' /\ QueueInv /\ Reserved /\ WithinQuota
  BY DEF QuotaInv, QueueInv
<1>2. CASE \E w \in Workers : Work(w)
  <2>1. PICK w \in Workers : Work(w)
    BY <1>2
  <2>2. Effect(w)
    BY <1>1, <2>1, WorkEffect
  <2>3. WithinQuota'
    BY <1>1, <2>1, WorkLedger, Shrinking, Growing
  <2>4. ASSUME NEW v \in Workers, sess'[v].pc \in {"reserved", "calling", "written", "saved"}
        PROVE  open'[sess'[v].job][sess'[v].at] > 0
    <3>1. CASE v = w
      BY <1>1, <2>1, <2>4, <3>1, WorkLedger
    <3>2. CASE v # w
      <4>1. sess'[v] = sess[v]
        BY <1>1, <2>2, <3>2 DEF Effect, Goes, TypeInv, TypeOK
      <4>2. Job(v) \in Jobs /\ Job(v) # Job(w)
        BY <1>1, <2>2, <2>4, <3>2, <4>1 DEF QueueInv, OneHolder, Effect, TypeInv, TypeOK,
           WellFormed, Session, Job
      <4>3. open'[Job(v)] = open[Job(v)]
        BY <2>2, <4>2 DEF Effect
      <4> QED BY <1>1, <2>4, <4>1, <4>3 DEF Reserved, Job
    <3> QED BY <3>1, <3>2
  <2> QED BY <1>1, <2>3, <2>4 DEF QuotaInv, Reserved, Job
<1>3. ASSUME UNCHANGED <<open, paid>>,
             \A w \in Workers : \/ sess'[w] = sess[w]
                                \/ sess'[w].pc \in {"idle", "claimed"}
      PROVE  QuotaInv'
  <2>1. LedgerShrinks
    BY <1>1, <1>3 DEF LedgerShrinks, TypeInv, TypeOK
  <2>2. Reserved'
    BY <1>1, <1>3 DEF Reserved, Job
  <2> QED BY <1>1, <2>1, <2>2, Shrinking DEF QuotaInv
<1>4. CASE \E w \in Workers : Lose(w) \/ \E j \in Jobs : Claim(w, j)
  <2>1. PICK w \in Workers : Lose(w) \/ \E j \in Jobs : Claim(w, j)
    BY <1>4
  <2>2. PICK s : /\ sess' = [sess EXCEPT ![w] = s]
                 /\ s.pc \in {"idle", "claimed"}
                 /\ UNCHANGED <<open, paid>>
    BY <2>1 DEF Lose, Claim, NoSess
  <2>3. \A v \in Workers : sess'[v] = sess[v] \/ sess'[v].pc \in {"idle", "claimed"}
    BY <1>1, <2>2 DEF TypeInv, TypeOK
  <2> QED BY <1>3, <2>2, <2>3
<1>5. CASE UNCHANGED <<open, paid, sess>>
  BY <1>3, <1>5
<1>6. CASE User \/ RecoverStale \/ (\E j \in Jobs : LeaseExpires(j)) \/ UNCHANGED vars
  BY <1>5, <1>6 DEF User, Enqueue, RetryJob, CancelWaiting, CancelRunning, LeaseExpires,
     RecoverStale, vars
<1> QED BY <1>2, <1>4, <1>6 DEF Next, ClaimSome

\* Reservations and bills of a month never pass the club's quota, for any number of
\* jobs, workers and outputs, whoever dies, waits, retries or is cancelled between
\* the reservation and the bill (app/usage/service.py:109).
THEOREM QueueQuotaKept == ASSUME Perils = {} PROVE Spec => []QuotaKept
<1>1. QuotaInv => QuotaKept
  BY DEF QuotaInv, WithinQuota, QuotaKept
<1>2. Spec => [](QueueInv /\ QuotaInv)
  <2>1. QueueInv /\ QuotaInv /\ [Next]_vars => (QueueInv /\ QuotaInv)'
    BY QueueStep, QuotaStep
  <2> QED BY <2>1, QueueInit, QuotaInit, PTL DEF Spec
<1> QED BY <1>1, <1>2, PTL

================================================================================
