--------------------------- MODULE RoiLedgerProofs ---------------------------
(***************************************************************************)
(* Proofs about RoiLedger, for any set of users, opportunities and         *)
(* evidence keys and any page size.  The users' jobs carry what they read  *)
(* in an earlier transaction; the inductive invariant says which of it is  *)
(* still true: that an opportunity exists and that work on it began, that  *)
(* its revision has not gone back, and that an unchanged revision comes    *)
(* with the status that was read.                                          *)
(***************************************************************************)
EXTENDS RoiLedger, FiniteSetTheorems, TLAPS

Under == {"in_progress", "realizing", "validated", "closed"}

Began(o) == \E i \in 1..Len(history[o]) : history[o][i].new = "in_progress"

\* Work on an opportunity in these statuses is on its history, and an
\* opportunity that does not exist has none.
BeginsRecorded ==
    \A o \in Opps :
        /\ status[o] \in {"in_progress", "realizing", "validated"} => Began(o)
        /\ ~Exists(o) => history[o] = <<>>

\* What a user has read of an opportunity.
Known(r) ==
    /\ Exists(r.opp)
    /\ r.revision <= revision[r.opp]
    /\ r.revision = revision[r.opp] => r.status = status[r.opp]

JobOK(j) ==
    /\ j.op = "seen" => Known(j)
    /\ j.op = "transition" =>
        /\ Exists(j.opp)
        /\ j.new \in Allowed(j.old)
        /\ j.expected # None => j.expected.opp = j.opp /\ Known(j.expected)
    /\ j.op = "value" =>
        /\ Exists(j.opp)
        /\ j.stage \in {"realized", "validated"} => Began(j.opp) /\ status[j.opp] \in Under

JobsOK == \A u \in Users : JobOK(job[u])

IInv == TypeOK /\ HistoryIsPath /\ BeginsRecorded /\ JobsOK /\ RealizedWasBegun

-----------------------------------------------------------------------------
(* Lemmas about jobs and statuses. *)

Transitions == [op : {"transition"}, opp : Opps, old : Statuses, new : Statuses,
                expected : Seen \cup {None}]
ValueJobs == [op : {"value"}, opp : Opps, stage : Stages, evidence : Evidence]
Reports == [op : {"listed", "valued", "summary"}, agent : Agents \cup {None},
            currency : Currencies, opps : SUBSET Opps, values : SUBSET Evidence,
            costs : SUBSET Bills, before : SUBSET Evidence]

\* The operation of a job tells what it is.
LEMMA JobKinds ==
    ASSUME NEW j \in Jobs
    PROVE  /\ j.op = "seen" => j \in Seen
           /\ j.op = "transition" => j \in Transitions
           /\ j.op = "value" => j \in ValueJobs
           /\ j.op \in {"listed", "valued", "summary"} => j \in Reports
<1>1. CASE j = Idle
  BY <1>1 DEF Idle
<1>2. CASE j \in Seen
  BY <1>2 DEF Seen
<1>3. CASE j \in Transitions
  BY <1>3 DEF Transitions
<1>4. CASE j \in ValueJobs
  BY <1>4 DEF ValueJobs
<1>5. CASE j \in Reports
  BY <1>5 DEF Reports
<1> QED
  BY <1>1, <1>2, <1>3, <1>4, <1>5 DEF Jobs, Transitions, ValueJobs, Reports

\* The states of an opportunity on which work began are never left.
LEMMA AllowedStays ==
    ASSUME NEW s \in Statuses
    PROVE  /\ Allowed(s) \subseteq Statuses
           /\ s \in Under => Allowed(s) \subseteq Under
           /\ \A t \in Allowed(s) : t \in {"realizing", "validated"} =>
                s \in {"in_progress", "realizing"}
<1> QED BY DEF Allowed, Statuses, Under

\* A step that changes one job, and no opportunity, keeps the jobs in order
\* if it keeps that one.
LEMMA OneJob ==
    ASSUME TypeOK, JobsOK, NEW u \in Users, NEW j, JobOK(j),
           job' = [job EXCEPT ![u] = j],
           UNCHANGED <<status, revision, history>>
    PROVE  JobsOK'
<1>1. SUFFICES ASSUME NEW v \in Users PROVE JobOK(job[v])'
  BY DEF JobsOK
<1>2. job'[v] = IF v = u THEN j ELSE job[v]
  BY DEF TypeOK
<1>3. JobOK(job'[v])
  BY <1>2 DEF JobsOK
<1> QED
  BY <1>3 DEF JobOK, Known, Exists, Began

\* A step that changes neither opportunities nor values keeps all but the
\* types and the jobs.
LEMMA RowsSame ==
    ASSUME IInv, UNCHANGED <<status, revision, history, values>>
    PROVE  HistoryIsPath' /\ BeginsRecorded' /\ RealizedWasBegun'
<1> QED
  BY DEF IInv, HistoryIsPath, BeginsRecorded, RealizedWasBegun, Exists, Began

\* A step that changes one job only.
LEMMA JobStep ==
    ASSUME IInv, NEW u \in Users, NEW j \in Jobs, JobOK(j),
           job' = [job EXCEPT ![u] = j], UNCHANGED <<rows, billed>>
    PROVE  IInv'
<1>1. TypeOK'
  BY DEF IInv, TypeOK, Exists, rows
<1>2. JobsOK'
  BY OneJob DEF IInv, rows
<1> QED
  BY <1>1, <1>2, RowsSame DEF IInv, rows

LEMMA IdleOK == Idle \in Jobs /\ JobOK(Idle)
  BY DEF Idle, Jobs, JobOK

-----------------------------------------------------------------------------
(* The actions. *)

LEMMA InitInv == Init => IInv
<1> SUFFICES ASSUME Init PROVE IInv
  OBVIOUS
<1>1. TypeOK
  BY DEF Init, TypeOK, Exists, Jobs
<1>2. JobsOK
  BY IdleOK DEF Init, JobsOK
<1>3. HistoryIsPath /\ BeginsRecorded /\ RealizedWasBegun
  BY DEF Init, HistoryIsPath, BeginsRecorded, RealizedWasBegun, Exists
<1> QED
  BY <1>1, <1>2, <1>3 DEF IInv

LEMMA CreateInv ==
    ASSUME IInv, NEW o \in Opps, CreateOpportunity(o)
    PROVE  IInv'
<1> USE DEF IInv
<1>1. /\ status' = [status EXCEPT ![o] = "proposed"]
      /\ revision' = [revision EXCEPT ![o] = 1]
      /\ created' = Append(created, o)
      /\ UNCHANGED <<history, values, costs, job, billed>>
      /\ status[o] = "absent" /\ SourceFree(o)
  BY DEF CreateOpportunity, Exists
<1>2. TypeOK'
  <2>1. status' \in [Opps -> Statuses \cup {"absent"}]
    BY <1>1 DEF TypeOK, Statuses
  <2>2. revision' \in [Opps -> Nat]
    BY <1>1 DEF TypeOK
  <2>3. created' \in Seq(Opps)
    BY <1>1 DEF TypeOK
  <2>4. ASSUME NEW p \in Opps, NEW q \in Opps, Exists(p)', Exists(q)', SourceOf[p] = SourceOf[q]
        PROVE  p = q
    BY <2>4, <1>1 DEF TypeOK, Exists, SourceFree
  <2> QED
    BY <1>1, <2>1, <2>2, <2>3, <2>4 DEF TypeOK
<1>3. history[o] = <<>>
  BY <1>1 DEF BeginsRecorded, Exists
<1>4. HistoryIsPath'
  <2> SUFFICES ASSUME NEW p \in Opps, Exists(p)'
               PROVE  (/\ \A i \in 1..Len(history[p]) :
                            /\ history[p][i].old = IF i = 1 THEN "proposed" ELSE history[p][i - 1].new
                            /\ history[p][i].new \in Allowed(history[p][i].old)
                       /\ status[p] = IF history[p] = <<>> THEN "proposed"
                                      ELSE history[p][Len(history[p])].new
                       /\ revision[p] = Len(history[p]) + 1)'
    BY DEF HistoryIsPath
  <2>1. CASE p = o
    BY <2>1, <1>1, <1>3 DEF TypeOK
  <2>2. CASE p # o
    BY <2>2, <1>1 DEF HistoryIsPath, TypeOK, Exists
  <2> QED BY <2>1, <2>2
<1>5. BeginsRecorded'
  BY <1>1 DEF BeginsRecorded, Exists, Began, TypeOK
<1>6. JobsOK'
  <2> SUFFICES ASSUME NEW u \in Users PROVE JobOK(job[u])'
    BY DEF JobsOK
  <2>1. JobOK(job[u]) /\ job[u] \in Jobs
    BY DEF JobsOK, TypeOK
  <2>2. ASSUME NEW r \in Seen, Known(r) PROVE Known(r)'
    BY <2>2, <1>1 DEF Known, Exists, TypeOK, Seen
  <2>3. CASE job[u].op = "seen"
    BY <2>1, <2>2, <2>3, <1>1, JobKinds DEF JobOK
  <2>4. CASE job[u].op = "transition"
    <3>1. job[u] \in Transitions
      BY <2>1, <2>4, JobKinds
    <3>2. job[u].expected # None => Known(job[u].expected)'
      BY <3>1, <2>1, <2>2, <2>4, <1>1 DEF Transitions, JobOK
    <3>3. Exists(job[u].opp)'
      BY <3>1, <2>1, <2>4, <1>1 DEF Transitions, JobOK, Exists, TypeOK
    <3> QED
      BY <3>2, <3>3, <2>1, <2>4, <1>1 DEF JobOK
  <2>5. CASE job[u].op = "value"
    <3>1. job[u] \in ValueJobs
      BY <2>1, <2>5, JobKinds
    <3>2. job[u].opp # o /\ job[u].opp \in Opps
      BY <3>1, <2>1, <2>5, <1>1 DEF ValueJobs, JobOK, Exists
    <3> QED
      BY <3>2, <2>1, <2>5, <1>1 DEF JobOK, Exists, Began, TypeOK
  <2> QED
    BY <2>3, <2>4, <2>5, <1>1 DEF JobOK
<1>7. RealizedWasBegun'
  BY <1>1 DEF RealizedWasBegun, TypeOK, Exists, Began
<1> QED
  BY <1>2, <1>4, <1>5, <1>6, <1>7

\* transition moves one opportunity along an allowed edge and records it.
LEMMA TransitionInv ==
    ASSUME IInv, NEW u \in Users, Transition(u)
    PROVE  IInv'
<1> USE DEF IInv
<1> DEFINE j == job[u]
           o == j.opp
           h == history[o]
<1>1. j \in Transitions /\ JobOK(j)
  BY JobKinds DEF Transition, TypeOK, JobsOK
<1>2. /\ o \in Opps /\ j.old \in Statuses /\ j.new \in Statuses
      /\ j.new \in Allowed(j.old) /\ Exists(o)
  BY <1>1 DEF Transitions, JobOK, Transition
<1>3. /\ status[o] = j.old
      /\ status' = [status EXCEPT ![o] = j.new]
      /\ revision' = [revision EXCEPT ![o] = revision[o] + 1]
      /\ history' = [history EXCEPT ![o] = Append(h, [old |-> j.old, new |-> j.new])]
      /\ job' = [job EXCEPT ![u] = Idle]
      /\ UNCHANGED <<created, values, costs, billed>>
  BY DEF Transition, Matches
<1>4. h \in Seq([old : Statuses, new : Statuses]) /\ revision[o] \in Nat
  BY <1>2 DEF TypeOK
<1>5. /\ status'[o] = j.new /\ revision'[o] = revision[o] + 1
      /\ history'[o] = Append(h, [old |-> j.old, new |-> j.new])
      /\ \A p \in Opps \ {o} : /\ status'[p] = status[p] /\ revision'[p] = revision[p]
                               /\ history'[p] = history[p]
      /\ \A p \in Opps : Exists(p)' <=> Exists(p)
  BY <1>2, <1>3 DEF TypeOK, Exists, Statuses
<1> HIDE DEF j, o, h
<1>6. /\ Len(history'[o]) = Len(h) + 1 /\ Len(h) \in Nat
      /\ \A i \in 1..Len(h) : history'[o][i] = h[i]
      /\ history'[o][Len(h) + 1] = [old |-> j.old, new |-> j.new]
      /\ history'[o] \in Seq([old : Statuses, new : Statuses])
      /\ history'[o] # <<>>
  BY <1>2, <1>4, <1>5
<1>7. TypeOK'
  <2>1. status' \in [Opps -> Statuses \cup {"absent"}] /\ revision' \in [Opps -> Nat]
    BY <1>2, <1>3, <1>4 DEF TypeOK
  <2>2. history' \in [Opps -> Seq([old : Statuses, new : Statuses])]
    BY <1>2, <1>3, <1>5, <1>6 DEF TypeOK
  <2>3. job' \in [Users -> Jobs]
    BY <1>3, IdleOK DEF TypeOK
  <2>4. \A p, q \in Opps : Exists(p)' /\ Exists(q)' /\ SourceOf[p] = SourceOf[q] => p = q
    BY <1>5 DEF TypeOK
  <2> QED
    BY <1>3, <2>1, <2>2, <2>3, <2>4 DEF TypeOK
<1>9. \A p \in Opps : Began(p) => (\E k \in 1..Len(history'[p]) : history'[p][k].new = "in_progress")
  <2> SUFFICES ASSUME NEW p \in Opps, Began(p)
               PROVE  \E k \in 1..Len(history'[p]) : history'[p][k].new = "in_progress"
    OBVIOUS
  <2>1. CASE p = o
    <3>1. PICK i \in 1..Len(h) : h[i].new = "in_progress"
      BY <2>1 DEF Began, h
    <3> QED
      BY <3>1, <2>1, <1>6
  <2>2. CASE p # o
    BY <2>2, <1>5 DEF Began
  <2> QED BY <2>1, <2>2
<1>10. HistoryIsPath'
  <2> SUFFICES ASSUME NEW p \in Opps, Exists(p)
               PROVE  /\ \A i \in 1..Len(history'[p]) :
                            /\ history'[p][i].old = IF i = 1 THEN "proposed" ELSE history'[p][i - 1].new
                            /\ history'[p][i].new \in Allowed(history'[p][i].old)
                      /\ status'[p] = IF history'[p] = <<>> THEN "proposed"
                                      ELSE history'[p][Len(history'[p])].new
                      /\ revision'[p] = Len(history'[p]) + 1
    BY <1>5 DEF HistoryIsPath
  <2>1. CASE p = o
    <3>1. /\ \A i \in 1..Len(h) :
                /\ h[i].old = IF i = 1 THEN "proposed" ELSE h[i - 1].new
                /\ h[i].new \in Allowed(h[i].old)
          /\ status[o] = IF h = <<>> THEN "proposed" ELSE h[Len(h)].new
          /\ revision[o] = Len(h) + 1
      BY <1>2 DEF HistoryIsPath, h
    <3>2. h = <<>> <=> Len(h) = 0
      BY <1>4
    <3>3. ASSUME NEW i \in 1..Len(history'[o])
          PROVE  /\ history'[o][i].old = IF i = 1 THEN "proposed" ELSE history'[o][i - 1].new
                 /\ history'[o][i].new \in Allowed(history'[o][i].old)
      <4>1. CASE i \in 1..Len(h)
        <5>1. history'[o][i] = h[i] /\ (i # 1 => history'[o][i - 1] = h[i - 1])
          BY <4>1, <1>6
        <5> QED
          BY <5>1, <4>1, <3>1
      <4>2. CASE i = Len(h) + 1
        <5>1. history'[o][i].old = status[o] /\ history'[o][i].new = j.new
          BY <4>2, <1>6, <1>3
        <5>2. i # 1 => history'[o][i - 1] = h[Len(h)]
          BY <4>2, <1>6
        <5>3. i = 1 <=> h = <<>>
          BY <4>2, <3>2, <1>6
        <5> QED
          BY <5>1, <5>2, <5>3, <3>1, <1>2, <1>3
      <4> QED
        BY <3>3, <4>1, <4>2, <1>6
    <3>4. status'[o] = history'[o][Len(history'[o])].new /\ revision'[o] = Len(history'[o]) + 1
      BY <3>1, <1>5, <1>6
    <3> QED
      BY <2>1, <3>3, <3>4, <1>6
  <2>2. CASE p # o
    <3>1. status'[p] = status[p] /\ revision'[p] = revision[p] /\ history'[p] = history[p]
      BY <2>2, <1>5
    <3> QED
      BY <3>1 DEF HistoryIsPath
  <2> QED BY <2>1, <2>2
<1>11. BeginsRecorded'
  <2> SUFFICES ASSUME NEW p \in Opps
               PROVE  /\ status'[p] \in {"in_progress", "realizing", "validated"} =>
                            \E k \in 1..Len(history'[p]) : history'[p][k].new = "in_progress"
                      /\ ~Exists(p) => history'[p] = <<>>
    BY <1>5 DEF BeginsRecorded, Began
  <2>1. CASE p = o
    <3>1. CASE j.new = "in_progress"
      <4>1. history'[o][Len(h) + 1].new = "in_progress" /\ Len(h) + 1 \in 1..Len(history'[o])
        BY <1>6, <3>1
      <4> QED
        BY <4>1, <2>1, <1>2
    <3>2. CASE j.new \in {"realizing", "validated"}
      <4>1. status[o] \in {"in_progress", "realizing"}
        BY <1>2, <1>3, <3>2, AllowedStays
      <4>2. Began(o)
        BY <4>1, <1>2 DEF BeginsRecorded
      <4> QED
        BY <4>2, <1>2, <1>9, <2>1
    <3> QED
      BY <2>1, <3>1, <3>2, <1>2, <1>5
  <2>2. CASE p # o
    BY <2>2, <1>5, <1>9 DEF BeginsRecorded
  <2> QED BY <2>1, <2>2
<1>12. \A p \in Opps : status[p] \in Under => status'[p] \in Under
  BY <1>2, <1>3, <1>5, AllowedStays
<1>13. JobsOK'
  <2>1. ASSUME NEW r \in Seen, Known(r)
        PROVE  /\ Exists(r.opp)'
               /\ r.revision <= revision'[r.opp]
               /\ r.revision = revision'[r.opp] => r.status = status'[r.opp]
    <3>1. r.opp \in Opps /\ r.revision \in Nat /\ revision[r.opp] \in Nat
      BY DEF Seen, TypeOK
    <3> QED
      BY <2>1, <3>1, <1>5 DEF Known
  <2> SUFFICES ASSUME NEW v \in Users, v # u PROVE JobOK(job[v])'
    <3>1. JobOK(job[u])'
      BY <1>3 DEF JobOK, Idle, TypeOK
    <3> QED
      BY <3>1 DEF JobsOK
  <2>2. job'[v] = job[v] /\ JobOK(job[v]) /\ job[v] \in Jobs
    BY <1>3 DEF JobsOK, TypeOK
  <2>3. CASE job[v].op = "seen"
    <3>1. job[v] \in Seen /\ Known(job[v])
      BY <2>2, <2>3, JobKinds DEF JobOK
    <3> QED
      BY <3>1, <2>1, <2>2, <2>3 DEF JobOK, Known
  <2>4. CASE job[v].op = "transition"
    <3>1. job[v] \in Transitions
      BY <2>2, <2>4, JobKinds
    <3>2. ASSUME job[v].expected # None
          PROVE  /\ Exists(job[v].expected.opp)'
                 /\ job[v].expected.revision <= revision'[job[v].expected.opp]
                 /\ job[v].expected.revision = revision'[job[v].expected.opp] =>
                      job[v].expected.status = status'[job[v].expected.opp]
                 /\ job[v].expected.opp = job[v].opp
      <4>1. job[v].expected \in Seen /\ Known(job[v].expected)
            /\ job[v].expected.opp = job[v].opp
        BY <3>1, <3>2, <2>2, <2>4 DEF Transitions, JobOK
      <4> QED
        BY <4>1, <2>1, <2>2 DEF Exists
    <3>3. job[v].opp \in Opps /\ Exists(job[v].opp) /\ job[v].new \in Allowed(job[v].old)
      BY <3>1, <2>2, <2>4 DEF Transitions, JobOK
    <3>4. status'[job[v].opp] # "absent"
      BY <3>3, <1>5 DEF Exists
    <3> QED
      BY <3>2, <3>3, <3>4, <2>2, <2>4 DEF JobOK, Known, Exists
  <2>5. CASE job[v].op = "value"
    <3>1. job[v] \in ValueJobs
      BY <2>2, <2>5, JobKinds
    <3>2. job[v].opp \in Opps /\ Exists(job[v].opp)
      BY <3>1, <2>2, <2>5 DEF ValueJobs, JobOK
    <3>3. status'[job[v].opp] # "absent"
      BY <3>2, <1>5 DEF Exists
    <3>4. ASSUME job[v].stage \in {"realized", "validated"}
          PROVE  /\ \E k \in 1..Len(history'[job[v].opp]) : history'[job[v].opp][k].new = "in_progress"
                 /\ status'[job[v].opp] \in Under
      BY <3>2, <3>4, <2>2, <2>5, <1>9, <1>12 DEF JobOK
    <3> QED
      BY <3>3, <3>4, <2>2, <2>5 DEF JobOK, Exists, Began
  <2> QED
    BY <2>3, <2>4, <2>5, <2>2 DEF JobOK
<1>14. RealizedWasBegun'
  <2> SUFFICES ASSUME NEW e \in Evidence, values[e] # None,
                      values[e].stage \in {"realized", "validated"}
               PROVE  /\ \E i \in 1..Len(history'[values[e].opp]) :
                            history'[values[e].opp][i].new = "in_progress"
                      /\ status'[values[e].opp] \in Under
    BY <1>3 DEF RealizedWasBegun, Under
  <2>1. values[e].opp \in Opps
    BY DEF TypeOK
  <2>2. Began(values[e].opp) /\ status[values[e].opp] \in Under
    BY DEF RealizedWasBegun, Began, Under
  <2> QED
    BY <2>1, <2>2, <1>9, <1>12
<1> QED
  BY <1>7, <1>10, <1>11, <1>13, <1>14

\* The value is recorded with what its job knows of the opportunity.
LEMMA ValueInv ==
    ASSUME IInv, NEW u \in Users, RecordValue(u)
    PROVE  IInv'
<1> USE DEF IInv
<1>1. job[u] \in ValueJobs /\ JobOK(job[u])
  BY JobKinds DEF RecordValue, TypeOK, JobsOK
<1> DEFINE e == job[u].evidence
           v == [opp |-> job[u].opp, stage |-> job[u].stage]
<1>2. e \in Evidence /\ v \in [opp : Opps, stage : Stages]
  BY <1>1 DEF ValueJobs
<1>3. /\ values' = [values EXCEPT ![e] = v]
      /\ job' = [job EXCEPT ![u] = Idle]
      /\ billed' = [billed EXCEPT ![e] = {b \in Bills : costs[b] # None}]
      /\ UNCHANGED <<created, status, revision, history, costs>>
      /\ job[u].op = "value"
  BY DEF RecordValue
<1>4. v.opp = job[u].opp /\ v.stage = job[u].stage
  OBVIOUS
<1> HIDE DEF e, v
<1>5. TypeOK'
  <2>1. values' \in [Evidence -> [opp : Opps, stage : Stages] \cup {None}]
    BY <1>2, <1>3 DEF TypeOK
  <2>2. job' \in [Users -> Jobs] /\ billed' \in [Evidence -> SUBSET Bills]
    BY <1>2, <1>3, IdleOK DEF TypeOK
  <2> QED
    BY <2>1, <2>2, <1>3 DEF TypeOK, Exists
<1>6. JobsOK'
  BY <1>3, IdleOK, OneJob
<1>7. HistoryIsPath' /\ BeginsRecorded'
  BY <1>3 DEF HistoryIsPath, BeginsRecorded, Exists, Began
<1>8. RealizedWasBegun'
  <2> SUFFICES ASSUME NEW f \in Evidence, values'[f] # None,
                      values'[f].stage \in {"realized", "validated"}
               PROVE  /\ \E i \in 1..Len(history[values'[f].opp]) :
                            history[values'[f].opp][i].new = "in_progress"
                      /\ status[values'[f].opp] \in Under
    BY <1>3 DEF RealizedWasBegun, Under
  <2>1. CASE f = e
    <3>1. values'[f] = v
      BY <2>1, <1>2, <1>3 DEF TypeOK
    <3> QED
      BY <3>1, <1>1, <1>3, <1>4 DEF JobOK, Began
  <2>2. CASE f # e
    BY <2>2, <1>2, <1>3 DEF TypeOK, RealizedWasBegun, Under
  <2> QED BY <2>1, <2>2
<1> QED
  BY <1>5, <1>6, <1>7, <1>8

LEMMA CostInv ==
    ASSUME IInv, NEW b \in Bills, NEW agent \in Agents, NEW cur \in Currencies,
           NEW o \in Opps \cup {None}, RecordCost(b, agent, cur, o)
    PROVE  IInv'
<1>1. TypeOK'
  BY DEF IInv, TypeOK, RecordCost, Exists
<1>2. JobsOK'
  BY DEF IInv, JobsOK, RecordCost, JobOK, Known, Exists, Began
<1> QED
  BY <1>1, <1>2, RowsSame DEF RecordCost, IInv

\* Steps that end a job.
LEMMA DoneInv ==
    ASSUME IInv, NEW u \in Users,
           TransitionConflict(u) \/ ValueRefused(u) \/ Return(u)
    PROVE  IInv'
  BY IdleOK, JobStep DEF TransitionConflict, ValueRefused, Return

LEMMA GetInv ==
    ASSUME IInv, NEW u \in Users, NEW o \in Opps, GetOpportunity(u, o)
    PROVE  IInv'
<1> DEFINE j == [op |-> "seen", opp |-> o, status |-> status[o], revision |-> revision[o]]
<1>1. j \in Seen
  BY DEF Seen, GetOpportunity, Exists, IInv, TypeOK
<1>2. JobOK(j)
  BY <1>1 DEF JobOK, Known, GetOpportunity, Seen
<1>3. job' = [job EXCEPT ![u] = j] /\ UNCHANGED <<rows, billed>>
  BY DEF GetOpportunity
<1> HIDE DEF j
<1> QED
  BY <1>1, <1>2, <1>3, JobStep DEF Jobs

LEMMA BeginTransitionInv ==
    ASSUME IInv, NEW u \in Users, NEW o \in Opps, NEW new \in Statuses,
           NEW expected \in Seen \cup {None},
           expected # None => expected.opp = o /\ Known(expected),
           BeginTransition(u, o, new, expected)
    PROVE  IInv'
<1> DEFINE j == [op |-> "transition", opp |-> o, old |-> status[o], new |-> new,
                 expected |-> expected]
<1>1. j \in Transitions
  BY DEF Transitions, BeginTransition, Exists, IInv, TypeOK
<1>2. JobOK(j)
  BY DEF JobOK, BeginTransition
<1>3. job' = [job EXCEPT ![u] = j] /\ UNCHANGED <<rows, billed>>
  BY DEF BeginTransition
<1> HIDE DEF j
<1> QED
  BY <1>1, <1>2, <1>3, JobStep DEF Jobs, Transitions

LEMMA BeginValueInv ==
    ASSUME IInv, NEW u \in Users, NEW o \in Opps, NEW stage \in InputStages,
           NEW e \in Evidence, BeginValue(u, o, stage, e)
    PROVE  IInv'
<1> DEFINE j == [op |-> "value", opp |-> o, stage |-> stage, evidence |-> e]
<1>1. j \in ValueJobs
  BY LedgerAssumption DEF ValueJobs, Stages
<1>2. stage \in {"realized", "validated"} =>
        status[o] \in {"in_progress", "realizing", "validated"}
  BY DEF BeginValue, Ready
<1>3. stage \in {"realized", "validated"} => Began(o) /\ status[o] \in Under
  BY <1>2 DEF IInv, BeginsRecorded, Under
<1>4. JobOK(j)
  BY <1>3 DEF JobOK, BeginValue
<1>5. job' = [job EXCEPT ![u] = j] /\ UNCHANGED <<rows, billed>>
  BY DEF BeginValue
<1> HIDE DEF j
<1> QED
  BY <1>1, <1>4, <1>5, JobStep DEF Jobs, ValueJobs

\* The steps of a summary touch the reader's job only.
LEMMA ReportStep ==
    ASSUME IInv, NEW u \in Users, NEW r \in Reports, job' = [job EXCEPT ![u] = r],
           UNCHANGED <<rows, billed>>
    PROVE  IInv'
<1>1. r.op \in {"listed", "valued", "summary"}
  BY DEF Reports
<1>2. JobOK(r)
  BY <1>1 DEF JobOK
<1>3. r \in Jobs
  BY DEF Jobs, Reports
<1> QED
  BY <1>2, <1>3, JobStep

LEMMA ListInv ==
    ASSUME IInv, NEW u \in Users, NEW agent \in Agents \cup {None},
           NEW cur \in Currencies \cup {None}, ListOpportunities(u, agent, cur)
    PROVE  IInv'
<1>1. PICK c \in Selectable(Listed(agent), cur) :
        job' = [job EXCEPT ![u] =
                   [op |-> "listed", agent |-> agent, currency |-> c,
                    opps |-> {o \in Listed(agent) : CurrencyOf[o] = c},
                    values |-> {}, costs |-> {},
                    before |-> {e \in Evidence : values[e] # None}]]
  BY DEF ListOpportunities
<1>2. c \in Currencies
  <2>1. CASE cur # None
    BY <2>1 DEF Selectable
  <2>2. CASE cur = None
    BY <2>2, LedgerAssumption DEF Selectable
  <2> QED BY <2>1, <2>2
<1>3. Listed(agent) \subseteq Opps
  <2>1. \A i \in OfAgent(agent) : created[i] \in Opps
    BY DEF OfAgent, IInv, TypeOK
  <2> SUFFICES ASSUME NEW o \in Listed(agent) PROVE o \in Opps
    OBVIOUS
  <2>2. \E i \in OfAgent(agent) : o = created[i]
    BY Zenon DEF Listed
  <2> QED
    BY <2>1, <2>2
<1>4. [op |-> "listed", agent |-> agent, currency |-> c,
       opps |-> {o \in Listed(agent) : CurrencyOf[o] = c},
       values |-> {}, costs |-> {},
       before |-> {e \in Evidence : values[e] # None}] \in Reports
  BY <1>2, <1>3 DEF Reports
<1> QED
  BY <1>1, <1>4, ReportStep DEF ListOpportunities

LEMMA ReadInv ==
    ASSUME IInv, NEW u \in Users, ReadValues(u) \/ ReadCosts(u)
    PROVE  IInv'
<1>1. job[u] \in Reports
  BY JobKinds DEF IInv, TypeOK, ReadValues, ReadCosts
<1>2. CASE ReadValues(u)
  <2>1. ValuesNow(job[u].opps) \subseteq Evidence
    BY DEF ValuesNow
  <2>2. [job[u] EXCEPT !.op = "valued", !.values = ValuesNow(job[u].opps)] \in Reports
    BY <1>1, <2>1 DEF Reports
  <2>3. job' = [job EXCEPT ![u] = [job[u] EXCEPT !.op = "valued",
                                                !.values = ValuesNow(job[u].opps)]]
    BY <1>2 DEF ReadValues
  <2> QED
    BY <1>2, <2>2, <2>3, ReportStep DEF ReadValues
<1>3. CASE ReadCosts(u)
  <2>1. CostsNow(job[u]) \subseteq Bills
    BY DEF CostsNow
  <2>2. [job[u] EXCEPT !.op = "summary", !.costs = CostsNow(job[u])] \in Reports
    BY <1>1, <2>1 DEF Reports
  <2>3. job' = [job EXCEPT ![u] = [job[u] EXCEPT !.op = "summary",
                                                !.costs = CostsNow(job[u])]]
    BY <1>3 DEF ReadCosts
  <2> QED
    BY <1>3, <2>2, <2>3, ReportStep DEF ReadCosts
<1> QED BY <1>2, <1>3

LEMMA StutterInv ==
    ASSUME IInv, UNCHANGED vars
    PROVE  IInv'
<1>1. TypeOK'
  BY DEF IInv, TypeOK, Exists, vars, rows
<1>2. JobsOK'
  BY DEF IInv, JobsOK, JobOK, Known, Exists, Began, vars, rows
<1> QED
  BY <1>1, <1>2, RowsSame DEF IInv, vars, rows

LEMMA NextInv ==
    ASSUME IInv, [Next]_vars
    PROVE  IInv'
<1>1. ASSUME NEW o \in Opps, CreateOpportunity(o) PROVE IInv'
  BY <1>1, CreateInv
<1>2. ASSUME NEW u \in Users, NEW o \in Opps, GetOpportunity(u, o) PROVE IInv'
  BY <1>2, GetInv
<1>3. ASSUME NEW u \in Users, NEW o \in Opps, NEW s \in Statuses, TransitionAny(u, o, s)
      PROVE  IInv'
  BY <1>3, BeginTransitionInv DEF TransitionAny
<1>4. ASSUME NEW u \in Users, NEW s \in Statuses, TransitionSeen(u, s) PROVE IInv'
  <2>1. job[u] \in Seen /\ Known(job[u])
    BY <1>4, JobKinds DEF TransitionSeen, IInv, TypeOK, JobsOK, JobOK
  <2>2. job[u].opp \in Opps
    BY <2>1 DEF Seen
  <2> QED
    BY <1>4, <2>1, <2>2, BeginTransitionInv DEF TransitionSeen
<1>5. ASSUME NEW u \in Users, NEW o \in Opps, NEW stage \in InputStages, NEW e \in Evidence,
             BeginValue(u, o, stage, e)
      PROVE  IInv'
  BY <1>5, BeginValueInv
<1>6. ASSUME NEW u \in Users, Transition(u) PROVE IInv'
  BY <1>6, TransitionInv
<1>7. ASSUME NEW u \in Users, RecordValue(u) PROVE IInv'
  BY <1>7, ValueInv
<1>8. ASSUME NEW u \in Users, TransitionConflict(u) \/ ValueRefused(u) \/ Return(u)
      PROVE  IInv'
  BY <1>8, DoneInv
<1>9. ASSUME NEW u \in Users, NEW agent \in Agents \cup {None},
             NEW cur \in Currencies \cup {None}, ListOpportunities(u, agent, cur)
      PROVE  IInv'
  BY <1>9, ListInv
<1>10. ASSUME NEW u \in Users, ReadValues(u) \/ ReadCosts(u) PROVE IInv'
  BY <1>10, ReadInv
<1>11. ASSUME NEW b \in Bills, NEW agent \in Agents, NEW cur \in Currencies,
              NEW o \in Opps \cup {None}, RecordCost(b, agent, cur, o)
       PROVE  IInv'
  BY <1>11, CostInv
<1>12. CASE UNCHANGED vars
  BY <1>12, StutterInv
<1> QED
  BY <1>1, <1>2, <1>3, <1>4, <1>5, <1>6, <1>7, <1>8, <1>9, <1>10, <1>11, <1>12 DEF Next

-----------------------------------------------------------------------------
(* The theorems. *)

\* The inductive invariant holds in every reachable state.
THEOREM Invariance == Spec => []IInv
<1>1. Init => IInv
  BY InitInv
<1>2. IInv /\ [Next]_vars => IInv'
  BY NextInv
<1> QED
  BY <1>1, <1>2, PTL DEF Spec

\* Every variable keeps its type, and no source_key has two opportunities.
THEOREM TypeCorrect == Spec => []TypeOK
<1>1. IInv => TypeOK
  BY DEF IInv
<1> QED
  BY <1>1, Invariance, PTL

\* The history of every opportunity is a path of allowed transitions from
\* "proposed" to its status, counted by its revision: transition's WHERE
\* clause is enough, however many users move an opportunity at once.
THEOREM HistoryAccounts == Spec => []HistoryIsPath
<1>1. IInv => HistoryIsPath
  BY DEF IInv
<1> QED
  BY <1>1, Invariance, PTL

\* A realized or validated value belongs to an opportunity on which work
\* began and that is not rejected, though record_value checks the status in
\* an earlier transaction than its insert.
THEOREM ValueEarned == Spec => []RealizedWasBegun
<1>1. IInv => RealizedWasBegun
  BY DEF IInv
<1> QED
  BY <1>1, Invariance, PTL

\* A transition with If-Match moves the opportunity its caller has seen.
THEOREM TransitionAsSeen == Spec => NoLostTransition
<1>1. IInv /\ [Next]_vars =>
        [\A u \in Users : Transition(u) /\ job[u].expected # None =>
            status[job[u].opp] = job[u].expected.status]_vars
  <2> SUFFICES ASSUME IInv, NEW u \in Users, Transition(u), job[u].expected # None
               PROVE  status[job[u].opp] = job[u].expected.status
    OBVIOUS
  <2>1. JobOK(job[u]) /\ job[u].op = "transition" /\ Matches(job[u])
    BY DEF IInv, JobsOK, Transition
  <2>2. Known(job[u].expected) /\ job[u].expected.opp = job[u].opp
    BY <2>1 DEF JobOK
  <2>3. job[u].expected.revision = revision[job[u].opp]
    BY <2>1 DEF Matches
  <2> QED
    BY <2>2, <2>3 DEF Known
<1> QED
  BY <1>1, Invariance, PTL DEF Spec, NoLostTransition

-----------------------------------------------------------------------------
(* Records are never changed. *)

Kept ==
    /\ \A e \in Evidence : values[e] # None => values'[e] = values[e] /\ billed'[e] = billed[e]
    /\ \A b \in Bills : costs[b] # None => costs'[b] = costs[b]
    /\ Len(created) <= Len(created')

LEMMA RecordsKept ==
    ASSUME IInv, [Next]_vars
    PROVE  Kept
<1>1. TypeOK /\ Len(created) \in Nat
  <2>1. created \in Seq(Opps)
    BY DEF IInv, TypeOK
  <2> QED
    BY <2>1 DEF IInv
<1>2. ASSUME NEW u \in Users, RecordValue(u) PROVE Kept
  <2>1. job[u].evidence \in Evidence
    BY <1>1, <1>2, JobKinds DEF RecordValue, TypeOK, ValueJobs
  <2> QED
    BY <2>1, <1>1, <1>2 DEF RecordValue, Uncounted, TypeOK, Kept
<1>3. ASSUME NEW b \in Bills, NEW agent \in Agents, NEW cur \in Currencies,
             NEW o \in Opps \cup {None}, RecordCost(b, agent, cur, o)
      PROVE  Kept
  BY <1>1, <1>3 DEF RecordCost, TypeOK, Kept
<1>4. ASSUME NEW o \in Opps, CreateOpportunity(o) PROVE Kept
  <2>1. Len(created') = Len(created) + 1
    BY <1>1, <1>4 DEF CreateOpportunity, TypeOK
  <2> QED
    BY <1>1, <1>4, <2>1 DEF CreateOpportunity, Kept
<1>5. ASSUME UNCHANGED <<created, values, costs, billed>> PROVE Kept
  BY <1>1, <1>5 DEF Kept
<1>6. ASSUME NEW u \in Users,
             \/ \E o \in Opps :
                  \/ GetOpportunity(u, o)
                  \/ \E s \in Statuses : TransitionAny(u, o, s)
                  \/ \E stage \in InputStages, e \in Evidence : BeginValue(u, o, stage, e)
             \/ \E s \in Statuses : TransitionSeen(u, s)
             \/ Transition(u) \/ TransitionConflict(u) \/ ValueRefused(u)
      PROVE  UNCHANGED <<created, values, costs, billed>>
  BY <1>6 DEF GetOpportunity, TransitionAny, BeginValue, TransitionSeen, BeginTransition,
              Transition, TransitionConflict, ValueRefused, rows
<1>7. ASSUME NEW u \in Users,
             \/ \E agent \in Agents \cup {None}, cur \in Currencies \cup {None} :
                  ListOpportunities(u, agent, cur)
             \/ ReadValues(u) \/ ReadCosts(u) \/ Return(u)
      PROVE  UNCHANGED <<created, values, costs, billed>>
  BY <1>7 DEF ListOpportunities, ReadValues, ReadCosts, Return, rows
<1>8. CASE UNCHANGED vars
  BY <1>5, <1>8 DEF vars, rows
<1> QED
  BY <1>2, <1>3, <1>4, <1>5, <1>6, <1>7, <1>8 DEF Next

-----------------------------------------------------------------------------
(* Summaries. *)

\* What the records of other tables refer to.
Referenced ==
    /\ \A o \in Opps : Exists(o) => \E i \in 1..Len(created) : created[i] = o
    /\ \A e \in Evidence : values[e] # None => Exists(values[e].opp)
    /\ \A b \in Bills : costs[b] # None /\ costs[b].opp # None =>
            AgentOf[costs[b].opp] = costs[b].agent
    /\ \A e \in Evidence : \A b \in billed[e] : costs[b] # None

\* What a summary has read so far, compared with the records now.
Wanted(r, e) ==
    /\ CurrencyOf[values[e].opp] = r.currency
    /\ r.agent \in {None, AgentOf[values[e].opp]}
Real(e) == values[e].stage \in {"realized", "validated"}
WithCosts(r) ==
    \A e \in r.values : \A b \in billed[e] :
        costs[b].opp = values[e].opp /\ costs[b].currency = r.currency => b \in r.costs
ReportOK(r) ==
    r.op \in {"listed", "valued", "summary"} =>
        /\ \A e \in r.before : values[e] # None
        /\ Len(created) <= Page => \A e \in r.before : Wanted(r, e) => values[e].opp \in r.opps
        /\ \A o \in r.opps : r.agent # None => AgentOf[o] = r.agent
        /\ r.op # "listed" =>
            /\ \A e \in r.values : values[e] # None /\ values[e].opp \in r.opps
            /\ \A e \in r.before : Real(e) /\ values[e].opp \in r.opps => e \in r.values
        /\ r.op = "summary" => WithCosts(r)

SummaryInv == Referenced /\ \A u \in Users : ReportOK(job[u])

\* A report stays as good as it was while records are only added.
LEMMA ReportKept ==
    ASSUME IInv, Referenced, Kept, NEW r \in Jobs, ReportOK(r), Len(created') \in Nat
    PROVE  ReportOK(r)'
<1> SUFFICES ASSUME r.op \in {"listed", "valued", "summary"} PROVE ReportOK(r)'
  BY DEF ReportOK
<1>0. /\ r.before \subseteq Evidence /\ r.values \subseteq Evidence
  BY JobKinds DEF Reports
<1>1. \A e \in r.before : values[e] # None /\ values'[e] = values[e]
  BY <1>0 DEF ReportOK, Kept
<1>2. Len(created') <= Page => Len(created) <= Page
  BY LedgerAssumption DEF Kept, IInv, TypeOK
<1>3. \A e \in r.before : (Wanted(r, e)' <=> Wanted(r, e)) /\ (Real(e)' <=> Real(e))
  BY <1>1 DEF Wanted, Real
<1>4. ASSUME r.op # "listed"
      PROVE  \A e \in r.values : values[e] # None /\ values'[e] = values[e] /\ billed'[e] = billed[e]
  BY <1>0, <1>4 DEF ReportOK, Kept
<1>5. ASSUME r.op = "summary" PROVE WithCosts(r)'
  <2> SUFFICES ASSUME NEW e \in r.values, NEW b \in billed'[e], costs'[b].opp = values'[e].opp,
                      costs'[b].currency = r.currency
               PROVE  b \in r.costs
    BY DEF WithCosts
  <2>1. b \in billed[e] /\ values'[e] = values[e] /\ e \in Evidence
    BY <1>0, <1>4, <1>5
  <2>2. b \in Bills /\ costs[b] # None
    BY <2>1 DEF Referenced, IInv, TypeOK
  <2>3. costs'[b] = costs[b]
    BY <2>2 DEF Kept
  <2> QED
    BY <1>5, <2>1, <2>3 DEF ReportOK, WithCosts
<1> QED
  BY <1>1, <1>2, <1>3, <1>4, <1>5 DEF ReportOK

\* The first page holds every opportunity of the agent if all fit on it.
LEMMA ListedAll ==
    ASSUME TypeOK, NEW agent, Len(created) <= Page, NEW i \in OfAgent(agent)
    PROVE  created[i] \in Listed(agent)
<1> DEFINE S == {k \in OfAgent(agent) : k < i}
<1>1. Len(created) \in Nat /\ i \in 1..Len(created) /\ Page \in Nat
  BY LedgerAssumption DEF TypeOK, OfAgent
<1>2. S \subseteq 1..(i - 1)
  BY <1>1 DEF OfAgent
<1>3. IsFiniteSet(1..(i - 1)) /\ Cardinality(1..(i - 1)) = i - 1
  <2>1. 1 \in Int /\ i - 1 \in Int
    BY <1>1
  <2>2. /\ IsFiniteSet(1..(i - 1))
        /\ Cardinality(1..(i - 1)) = IF 1 > i - 1 THEN 0 ELSE (i - 1) - 1 + 1
    BY <2>1, FS_Interval
  <2> QED
    BY <1>1, <2>2
<1>4. IsFiniteSet(S) /\ Cardinality(S) <= i - 1
  BY <1>2, <1>3, FS_Subset
<1>5. Cardinality(S) \in Nat
  BY <1>4, FS_CardinalityType
<1>6. Cardinality(S) < Page
  BY <1>1, <1>4, <1>5
<1> QED
  BY <1>6, Zenon DEF Listed

LEMMA SummaryInit == Init => SummaryInv
<1> SUFFICES ASSUME Init PROVE SummaryInv
  OBVIOUS
<1>1. Referenced
  BY DEF Init, Referenced, Exists
<1>2. ASSUME NEW u \in Users PROVE ReportOK(job[u])
  BY DEF Init, ReportOK, Idle
<1> QED
  BY <1>1, <1>2 DEF SummaryInv

\* Records refer to what exists, and nothing is deleted.
LEMMA ReferencedNext ==
    ASSUME IInv, Referenced, [Next]_vars
    PROVE  Referenced'
<1>0. TypeOK /\ Kept
  BY RecordsKept DEF IInv
<1>1. ASSUME NEW o \in Opps, CreateOpportunity(o) PROVE Referenced'
  <2>1. /\ status' = [status EXCEPT ![o] = "proposed"] /\ created' = Append(created, o)
        /\ UNCHANGED <<values, costs, billed>>
    BY <1>1 DEF CreateOpportunity
  <2>2. /\ Len(created) \in Nat /\ Len(created') = Len(created) + 1
        /\ created'[Len(created')] = o
        /\ \A i \in 1..Len(created) : created'[i] = created[i]
    BY <1>0, <2>1 DEF TypeOK
  <2>3. \A p \in Opps : Exists(p) => Exists(p)'
    BY <1>0, <2>1 DEF Exists, TypeOK
  <2>4. ASSUME NEW p \in Opps, Exists(p)' PROVE \E i \in 1..Len(created') : created'[i] = p
    <3>1. CASE p = o
      BY <2>2, <3>1
    <3>2. CASE p # o
      <4>1. Exists(p)
        BY <1>0, <2>1, <2>4, <3>2 DEF Exists, TypeOK
      <4>2. PICK i \in 1..Len(created) : created[i] = p
        BY <4>1 DEF Referenced
      <4> QED
        BY <2>2, <4>2
    <3> QED BY <3>1, <3>2
  <2>5. \A e \in Evidence : values[e] # None => values[e].opp \in Opps
    BY <1>0 DEF TypeOK
  <2> QED
    BY <2>1, <2>3, <2>4, <2>5 DEF Referenced
<1>2. ASSUME UNCHANGED <<created, values, costs, billed>>,
             \A o \in Opps : Exists(o)' <=> Exists(o)
      PROVE  Referenced'
  <2>1. \A e \in Evidence : values[e] # None => values[e].opp \in Opps
    BY <1>0 DEF TypeOK
  <2> QED
    BY <1>2, <2>1 DEF Referenced
<1>3. ASSUME NEW u \in Users, Transition(u) PROVE Referenced'
  <2>1. job[u] \in Transitions /\ Exists(job[u].opp)
    BY <1>0, <1>3, JobKinds DEF Transition, TypeOK, IInv, JobsOK, JobOK
  <2>2. \A o \in Opps : Exists(o)' <=> Exists(o)
    BY <1>0, <1>3, <2>1 DEF Transition, Transitions, Exists, TypeOK, Statuses
  <2> QED
    BY <1>2, <1>3, <2>2 DEF Transition
<1>4. ASSUME NEW u \in Users, RecordValue(u) PROVE Referenced'
  <2>1. job[u] \in ValueJobs /\ Exists(job[u].opp)
    BY <1>0, <1>4, JobKinds DEF RecordValue, TypeOK, IInv, JobsOK, JobOK
  <2> DEFINE x == job[u].evidence
             v == [opp |-> job[u].opp, stage |-> job[u].stage]
  <2>2. /\ x \in Evidence /\ v.opp = job[u].opp
        /\ values' = [values EXCEPT ![x] = v]
        /\ billed' = [billed EXCEPT ![x] = {b \in Bills : costs[b] # None}]
        /\ UNCHANGED <<created, status, costs>>
    BY <1>4, <2>1 DEF RecordValue, ValueJobs
  <2> HIDE DEF x, v
  <2>3. \A e \in Evidence : values'[e] # None => Exists(values'[e].opp)
    BY <1>0, <2>1, <2>2 DEF TypeOK, Referenced
  <2>4. \A e \in Evidence : \A b \in billed'[e] : costs[b] # None
    BY <1>0, <2>2 DEF TypeOK, Referenced
  <2> QED
    BY <2>2, <2>3, <2>4 DEF Referenced, Exists
<1>5. ASSUME NEW b \in Bills, NEW agent \in Agents, NEW cur \in Currencies,
             NEW o \in Opps \cup {None}, RecordCost(b, agent, cur, o)
      PROVE  Referenced'
  <2> DEFINE row == [agent |-> agent, currency |-> cur, opp |-> o]
  <2>1. /\ costs' = [costs EXCEPT ![b] = row] /\ costs[b] = None
        /\ o # None => AgentOf[o] = agent
        /\ UNCHANGED <<created, status, values, billed>>
        /\ row.opp = o /\ row.agent = agent
    BY <1>5 DEF RecordCost
  <2> HIDE DEF row
  <2>2. \A c \in Bills : costs'[c] = IF c = b THEN row ELSE costs[c]
    BY <1>0, <2>1 DEF TypeOK
  <2>3. \A c \in Bills : costs'[c] # None /\ costs'[c].opp # None =>
            AgentOf[costs'[c].opp] = costs'[c].agent
    BY <2>1, <2>2 DEF Referenced
  <2>4. \A e \in Evidence : \A c \in billed[e] : c \in Bills /\ c # b
    BY <1>0, <2>1 DEF Referenced, TypeOK
  <2>5. \A e \in Evidence : \A c \in billed[e] : costs'[c] # None
    BY <2>2, <2>4 DEF Referenced
  <2> QED
    BY <2>1, <2>3, <2>5 DEF Referenced, Exists
<1>6. ASSUME NEW u \in Users,
             \/ \E o \in Opps :
                  \/ GetOpportunity(u, o)
                  \/ \E s \in Statuses : TransitionAny(u, o, s)
                  \/ \E stage \in InputStages, e \in Evidence : BeginValue(u, o, stage, e)
             \/ \E s \in Statuses : TransitionSeen(u, s)
             \/ TransitionConflict(u) \/ ValueRefused(u)
      PROVE  UNCHANGED <<rows, billed>>
  BY <1>6 DEF GetOpportunity, TransitionAny, BeginValue, TransitionSeen, BeginTransition,
              TransitionConflict, ValueRefused
<1>7. ASSUME NEW u \in Users,
             \/ \E agent \in Agents \cup {None}, cur \in Currencies \cup {None} :
                  ListOpportunities(u, agent, cur)
             \/ ReadValues(u) \/ ReadCosts(u) \/ Return(u)
      PROVE  UNCHANGED <<rows, billed>>
  BY <1>7 DEF ListOpportunities, ReadValues, ReadCosts, Return
<1>8. ASSUME UNCHANGED <<rows, billed>> PROVE Referenced'
  BY <1>2, <1>8 DEF rows, Exists
<1>9. CASE UNCHANGED vars
  BY <1>8, <1>9 DEF vars
<1> QED
  BY <1>1, <1>3, <1>4, <1>5, <1>6, <1>7, <1>8, <1>9 DEF Next

\* The reports of all users, one of whom may have taken a step.
LEMMA ReportsNext ==
    ASSUME IInv, SummaryInv, Kept, Len(created') \in Nat, NEW u \in Users, NEW j,
           job' = [job EXCEPT ![u] = j], ReportOK(j)'
    PROVE  \A v \in Users : ReportOK(job[v])'
<1> SUFFICES ASSUME NEW v \in Users PROVE ReportOK(job[v])'
  OBVIOUS
<1>1. CASE v = u
  <2>1. job'[v] = j
    BY <1>1 DEF IInv, TypeOK
  <2> QED
    BY <2>1
<1>2. CASE v # u
  <2>1. job'[v] = job[v] /\ job[v] \in Jobs /\ ReportOK(job[v])
    BY <1>2 DEF IInv, TypeOK, SummaryInv
  <2> QED
    BY <2>1, ReportKept DEF SummaryInv
<1> QED BY <1>1, <1>2

LEMMA ListReport ==
    ASSUME IInv, SummaryInv, NEW u \in Users, NEW agent \in Agents \cup {None},
           NEW cur \in Currencies \cup {None}, ListOpportunities(u, agent, cur)
    PROVE  \E j : job' = [job EXCEPT ![u] = j] /\ ReportOK(j)'
<1>1. PICK c \in Selectable(Listed(agent), cur) :
        job' = [job EXCEPT ![u] =
                   [op |-> "listed", agent |-> agent, currency |-> c,
                    opps |-> {o \in Listed(agent) : CurrencyOf[o] = c},
                    values |-> {}, costs |-> {},
                    before |-> {e \in Evidence : values[e] # None}]]
  BY DEF ListOpportunities
<1> PICK r : r = [op |-> "listed", agent |-> agent, currency |-> c,
                  opps |-> {o \in Listed(agent) : CurrencyOf[o] = c},
                  values |-> {}, costs |-> {},
                  before |-> {e \in Evidence : values[e] # None}]
  OBVIOUS
<1>2. /\ r.op = "listed" /\ r.agent = agent /\ r.currency = c
      /\ r.opps = {o \in Listed(agent) : CurrencyOf[o] = c}
      /\ r.before = {e \in Evidence : values[e] # None}
      /\ job' = [job EXCEPT ![u] = r]
  BY <1>1
<1>3. ASSUME NEW e \in Evidence, values[e] # None, Len(created) <= Page,
             CurrencyOf[values[e].opp] = c, agent \in {None, AgentOf[values[e].opp]}
      PROVE  values[e].opp \in r.opps
  <2>1. values[e].opp \in Opps /\ Exists(values[e].opp)
    BY <1>3 DEF SummaryInv, Referenced, IInv, TypeOK
  <2>2. PICK i \in 1..Len(created) : created[i] = values[e].opp
    BY <2>1 DEF SummaryInv, Referenced
  <2>3. i \in OfAgent(agent)
    BY <1>3, <2>2 DEF OfAgent
  <2>4. values[e].opp \in Listed(agent)
    BY <1>3, <2>2, <2>3, ListedAll DEF IInv
  <2> QED
    BY <1>2, <1>3, <2>4
<1>4. \A o \in r.opps : r.agent # None => AgentOf[o] = r.agent
  <2> SUFFICES ASSUME NEW o \in r.opps, agent # None PROVE AgentOf[o] = agent
    BY <1>2
  <2>1. o \in Listed(agent)
    BY <1>2
  <2>2. \E i \in OfAgent(agent) : o = created[i]
    BY <2>1, Zenon DEF Listed
  <2> QED
    BY <2>2 DEF OfAgent
<1>5. UNCHANGED <<created, values>>
  BY DEF ListOpportunities, rows
<1>6. ReportOK(r)'
  <2>1. \A e \in r.before : values'[e] # None
    BY <1>2, <1>5
  <2>2. Len(created') <= Page => \A e \in r.before : Wanted(r, e)' => values'[e].opp \in r.opps
    BY <1>2, <1>3, <1>5 DEF Wanted
  <2> QED
    BY <1>2, <1>4, <2>1, <2>2 DEF ReportOK
<1> QED
  BY <1>2, <1>6

LEMMA ReadReport ==
    ASSUME IInv, SummaryInv, NEW u \in Users, ReadValues(u) \/ ReadCosts(u)
    PROVE  \E j : job' = [job EXCEPT ![u] = j] /\ ReportOK(j)'
<1>1. job[u] \in Reports /\ ReportOK(job[u]) /\ UNCHANGED <<created, values, costs, billed>>
  BY JobKinds DEF IInv, TypeOK, ReadValues, ReadCosts, SummaryInv, rows
<1>2. CASE ReadValues(u)
  <2> PICK r : r = [job[u] EXCEPT !.op = "valued", !.values = ValuesNow(job[u].opps)]
    OBVIOUS
  <2>1. job' = [job EXCEPT ![u] = r] /\ job[u].op = "listed"
    BY <1>2 DEF ReadValues
  <2>2. /\ r.op = "valued" /\ r.values = ValuesNow(job[u].opps)
        /\ r.agent = job[u].agent /\ r.currency = job[u].currency /\ r.opps = job[u].opps
        /\ r.before = job[u].before /\ job[u].before \subseteq Evidence
    BY <1>1 DEF Reports
  <2>3. \A e \in r.values : values[e] # None /\ values[e].opp \in r.opps
    BY <2>2 DEF ValuesNow
  <2>4. \A e \in r.before : Real(e) /\ values[e].opp \in r.opps => e \in r.values
    BY <1>1, <2>1, <2>2 DEF ValuesNow, ReportOK, Real
  <2>5. ReportOK(r)
    BY <1>1, <2>1, <2>2, <2>3, <2>4 DEF ReportOK, Wanted
  <2>6. ReportOK(r)'
    BY <1>1, <2>5 DEF ReportOK, Wanted, Real, WithCosts
  <2> QED
    BY <2>1, <2>6
<1>3. CASE ReadCosts(u)
  <2> PICK r : r = [job[u] EXCEPT !.op = "summary", !.costs = CostsNow(job[u])]
    OBVIOUS
  <2>1. job' = [job EXCEPT ![u] = r] /\ job[u].op = "valued"
    BY <1>3 DEF ReadCosts
  <2>2. /\ r.op = "summary" /\ r.costs = CostsNow(job[u]) /\ r.values = job[u].values
        /\ r.agent = job[u].agent /\ r.currency = job[u].currency /\ r.opps = job[u].opps
        /\ r.before = job[u].before /\ r.values \subseteq Evidence /\ r.opps \subseteq Opps
    BY <1>1 DEF Reports
  <2>3. WithCosts(r)
    <3> SUFFICES ASSUME NEW e \in r.values, NEW b \in billed[e], costs[b].opp = values[e].opp,
                        costs[b].currency = r.currency
                 PROVE  b \in CostsNow(job[u])
      BY <2>2 DEF WithCosts
    <3>1. b \in Bills /\ costs[b] # None
      BY <2>2 DEF SummaryInv, Referenced, IInv, TypeOK
    <3>2. values[e].opp \in job[u].opps /\ values[e].opp \in Opps
      BY <1>1, <2>1, <2>2 DEF ReportOK
    <3>3. costs[b].opp # None
      BY <3>2, LedgerAssumption
    <3>4. costs[b].agent = AgentOf[values[e].opp]
      BY <3>1, <3>3 DEF SummaryInv, Referenced
    <3>5. job[u].agent # None => costs[b].agent = job[u].agent
      BY <1>1, <2>1, <3>2, <3>4 DEF ReportOK
    <3> QED
      BY <2>2, <3>1, <3>2, <3>5 DEF CostsNow
  <2>4. ReportOK(r)
    BY <1>1, <2>1, <2>2, <2>3 DEF ReportOK, Wanted
  <2>5. ReportOK(r)'
    BY <1>1, <2>4 DEF ReportOK, Wanted, Real, WithCosts
  <2> QED
    BY <2>1, <2>5
<1> QED BY <1>2, <1>3

LEMMA SummaryNext ==
    ASSUME IInv, SummaryInv, [Next]_vars
    PROVE  SummaryInv'
<1>1. IInv' /\ Kept /\ Referenced'
  BY NextInv, RecordsKept, ReferencedNext DEF SummaryInv
<1>2. Len(created') \in Nat
  BY <1>1 DEF IInv, TypeOK
<1>3. ASSUME job' = job PROVE \A v \in Users : ReportOK(job[v])'
  <2> SUFFICES ASSUME NEW v \in Users PROVE ReportOK(job[v])'
    OBVIOUS
  <2>1. job'[v] = job[v] /\ job[v] \in Jobs /\ ReportOK(job[v])
    BY <1>3 DEF IInv, TypeOK, SummaryInv
  <2> QED
    BY <1>1, <1>2, <2>1, ReportKept DEF SummaryInv
<1>4. ASSUME NEW u \in Users, NEW j, job' = [job EXCEPT ![u] = j],
             j.op \notin {"listed", "valued", "summary"}
      PROVE  \A v \in Users : ReportOK(job[v])'
  <2>1. ReportOK(j)'
    BY <1>4 DEF ReportOK
  <2> QED
    BY <1>1, <1>2, <1>4, <2>1, ReportsNext
<1>5. ASSUME NEW u \in Users,
             \/ \E o \in Opps :
                  \/ GetOpportunity(u, o)
                  \/ \E s \in Statuses : TransitionAny(u, o, s)
                  \/ \E stage \in InputStages, e \in Evidence : BeginValue(u, o, stage, e)
             \/ \E s \in Statuses : TransitionSeen(u, s)
      PROVE  \A v \in Users : ReportOK(job[v])'
  <2>1. ASSUME NEW o, GetOpportunity(u, o) PROVE \A v \in Users : ReportOK(job[v])'
    <3> PICK j : j = [op |-> "seen", opp |-> o, status |-> status[o], revision |-> revision[o]]
      OBVIOUS
    <3>1. job' = [job EXCEPT ![u] = j] /\ j.op = "seen"
      BY <2>1 DEF GetOpportunity
    <3> QED
      BY <1>4, <3>1
  <2>2. ASSUME NEW o, NEW s, NEW x, BeginTransition(u, o, s, x)
        PROVE  \A v \in Users : ReportOK(job[v])'
    <3> PICK j : j = [op |-> "transition", opp |-> o, old |-> status[o], new |-> s, expected |-> x]
      OBVIOUS
    <3>1. job' = [job EXCEPT ![u] = j] /\ j.op = "transition"
      BY <2>2 DEF BeginTransition
    <3> QED
      BY <1>4, <3>1
  <2>3. ASSUME NEW o, NEW stage, NEW e, BeginValue(u, o, stage, e)
        PROVE  \A v \in Users : ReportOK(job[v])'
    <3> PICK j : j = [op |-> "value", opp |-> o, stage |-> stage, evidence |-> e]
      OBVIOUS
    <3>1. job' = [job EXCEPT ![u] = j] /\ j.op = "value"
      BY <2>3 DEF BeginValue
    <3> QED
      BY <1>4, <3>1
  <2> QED
    BY <1>5, <2>1, <2>2, <2>3 DEF TransitionAny, TransitionSeen
<1>6. ASSUME NEW u \in Users,
             \/ Transition(u) \/ TransitionConflict(u) \/ RecordValue(u) \/ ValueRefused(u)
             \/ Return(u)
      PROVE  \A v \in Users : ReportOK(job[v])'
  <2>1. job' = [job EXCEPT ![u] = Idle]
    BY <1>6 DEF Transition, TransitionConflict, RecordValue, ValueRefused, Return
  <2>2. Idle.op = "idle"
    BY DEF Idle
  <2> QED
    BY <1>4, <2>1, <2>2
<1>7. ASSUME NEW u \in Users,
             \/ \E agent \in Agents \cup {None}, cur \in Currencies \cup {None} :
                  ListOpportunities(u, agent, cur)
             \/ ReadValues(u) \/ ReadCosts(u)
      PROVE  \A v \in Users : ReportOK(job[v])'
  <2>1. PICK j : job' = [job EXCEPT ![u] = j] /\ ReportOK(j)'
    BY <1>7, ListReport, ReadReport
  <2> QED
    BY <1>1, <1>2, <2>1, ReportsNext
<1>8. ASSUME \/ \E o \in Opps : CreateOpportunity(o)
             \/ \E b \in Bills, agent \in Agents, cur \in Currencies, o \in Opps \cup {None} :
                    RecordCost(b, agent, cur, o)
             \/ UNCHANGED vars
      PROVE  job' = job
  BY <1>8 DEF CreateOpportunity, RecordCost, vars
<1>9. \A v \in Users : ReportOK(job[v])'
  BY <1>3, <1>5, <1>6, <1>7, <1>8 DEF Next
<1> QED
  BY <1>1, <1>9 DEF SummaryInv

\* A summary counts every value that was on record when it began, as long as
\* all opportunities fit on one page.
THEOREM NothingMissing == Spec => []SummaryComplete
<1>1. IInv /\ SummaryInv => SummaryComplete
  BY DEF SummaryInv, ReportOK, Wanted, Real, SummaryComplete
<1> QED
  BY <1>1, SummaryInit, SummaryNext, NextInv, Invariance, PTL DEF Spec

\* A summary that counts a value counts the costs recorded before it.
THEOREM NetNotOverstated == Spec => []ValueWithItsCosts
<1>1. IInv /\ SummaryInv => ValueWithItsCosts
  BY DEF SummaryInv, ReportOK, WithCosts, ValueWithItsCosts
<1> QED
  BY <1>1, SummaryInit, SummaryNext, NextInv, Invariance, PTL DEF Spec
=============================================================================
