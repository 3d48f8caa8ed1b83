----------------------------- MODULE HILProofs -----------------------------
(* Proofs about HIL, for every set of requests, number of cores and        *)
(* choice of latencies.                                                    *)
EXTENDS HIL, TLAPS, SequenceTheorems, FiniteSetTheorems, WellFoundedInduction

(* A non-empty set of ticks has a least element, which Min returns.        *)
LEMMA MinOfTicks ==
  ASSUME NEW S \in SUBSET Nat, S # {}
  PROVE  Min(S) \in S /\ \A y \in S : Min(S) <= y
<1>1. PICK x \in S : \A y \in S : ~(<<y, x>> \in OpToRel(<, Nat))
  BY NatLessThanWellFounded, WFMin
<1>2. \A y \in S : ~(y < x)
  BY <1>1 DEF OpToRel
<1>3. \A y \in S : x <= y
  BY <1>2
<1>4. QED
  BY <1>3 DEF Min

(* The first end of a completion queue is the end of one of its entries    *)
(* and no entry ends before it.                                            *)
LEMMA FirstEndFact ==
  ASSUME NEW q \in SUBSET [req : Requests, finishedAt : Nat], q # {}
  PROVE  /\ FirstEnd(q) \in Nat
         /\ \E e \in q : e.finishedAt = FirstEnd(q)
         /\ \A e \in q : FirstEnd(q) <= e.finishedAt
<1> DEFINE S == {e.finishedAt : e \in q}
<1>1. S \in SUBSET Nat /\ S # {}
  OBVIOUS
<1>2. Min(S) \in S /\ \A y \in S : Min(S) <= y
  BY <1>1, MinOfTicks
<1>3. QED
  BY <1>1, <1>2 DEF FirstEnd

(* What updateCompletion leaves in the event and in lastScheduled.         *)
LEMMA UpdateFact ==
  ASSUME TypeOK, NEW q \in SUBSET [req : Requests, finishedAt : Nat],
         NEW at \in Nat \cup {Never}, UpdateCompletion(q, at)
  PROVE  lastScheduled' \in Nat /\ completionAt' \in Nat \cup {Never}
BY FirstEndFact DEF UpdateCompletion, MustSchedule, TypeOK

(* A request never ends before the tick in which its job runs.             *)
LEMMA FinishedFact ==
  ASSUME TypeOK, NEW k \in Kinds, NEW l \in Latencies
  PROVE  /\ FinishedAt(k, l) \in Nat
         /\ clock <= FinishedAt(k, l)
         /\ WorkDone(k, l) \in Nat
<1>1. clock \in Nat /\ l \in Nat /\ l > 0 /\ SchedLatency \in Nat
  BY HILAssumption DEF TypeOK
<1>2. k \in {"io", "sync", "slet", "result", "switch"}
  BY HILAssumption DEF AllKinds
<1>3. QED
  BY <1>1, <1>2 DEF FinishedAt, WorkDone, IoEnd, FcfsEnd, SyncEnd, IscGetEnd

-----------------------------------------------------------------------------
(* The type invariant of HIL and the rule that a core with jobs, and only  *)
(* such a core, has its event scheduled.                                   *)
CoreInv == TypeOK /\ CoresArmed

(* execute and submitJob keep the invariant: the core that takes the job   *)
(* starts it at once or has its event scheduled already.                   *)
LEMMA SubmitCore ==
  ASSUME CoreInv, NEW r \in Requests, NEW k \in Kinds, Submit(r, k)
  PROVE  CoreInv'
<1> DEFINE c == LeastBusyCPU
           j == [req |-> r, kind |-> k]
<1> USE DEF CoreInv
<1>1. j \in Jobs
  BY DEF Jobs
<1>2. clock + JobLatency \in Nat
  BY HILAssumption DEF TypeOK
<1>3. jobs' = [jobs EXCEPT ![c] = Append(@, j)]
  BY DEF Submit
<1>4. jobAt' = IF jobs[c] = <<>> THEN [jobAt EXCEPT ![c] = clock + JobLatency]
               ELSE jobAt
  BY DEF Submit
<1> HIDE DEF c, j
<1>5. ASSUME NEW d \in Cores
      PROVE  /\ jobs'[d] \in Seq(Jobs)
             /\ jobAt'[d] \in Nat \cup {Never}
             /\ jobs'[d] = <<>> <=> jobAt'[d] = Never
  <2>1. jobs[d] \in Seq(Jobs) /\ jobAt[d] \in Nat \cup {Never}
    BY DEF TypeOK
  <2>2. CASE d = c
    <3>1. jobs'[d] = Append(jobs[d], j)
      BY <1>3, <2>2 DEF TypeOK
    <3>2. jobs'[d] \in Seq(Jobs) /\ jobs'[d] # <<>>
      BY <3>1, <2>1, <1>1
    <3>3. jobAt'[d] = IF jobs[d] = <<>> THEN clock + JobLatency ELSE jobAt[d]
      BY <1>4, <2>2 DEF TypeOK
    <3>4. QED
      BY <3>2, <3>3, <2>1, <1>2 DEF CoresArmed, Never
  <2>3. CASE d # c
    <3>1. jobs'[d] = jobs[d] /\ jobAt'[d] = jobAt[d]
      BY <1>3, <1>4, <2>3 DEF TypeOK
    <3>2. QED
      BY <3>1, <2>1 DEF CoresArmed
  <2>4. QED
    BY <2>2, <2>3
<1>6. jobs' \in [Cores -> Seq(Jobs)]
  <2>1. jobs' = [d \in Cores |-> jobs'[d]]
    BY <1>3 DEF TypeOK
  <2>2. QED
    BY <2>1, <1>5
<1>7. jobAt' \in [Cores -> Nat \cup {Never}]
  <2>1. jobAt' = [d \in Cores |-> jobAt'[d]]
    BY <1>4 DEF TypeOK
  <2>2. QED
    BY <2>1, <1>5
<1>8. submitted' \subseteq Requests
  BY DEF Submit, TypeOK
<1>9. UNCHANGED <<clock, busyTime, completionQueue, lastScheduled, completionAt,
                  pScheduler, gScheduler, delivered, iclDone, instant>>
  BY DEF Submit, queue
<1>10. TypeOK'
  BY <1>6, <1>7, <1>8, <1>9 DEF TypeOK
<1>11. CoresArmed'
  BY <1>5 DEF CoresArmed
<1>12. QED
  BY <1>10, <1>11

(* jobDone keeps the invariant: the event is scheduled for the next job or *)
(* the core has none left.                                                 *)
LEMMA JobDoneCore ==
  ASSUME CoreInv, NEW c \in Cores, NEW l \in Latencies, JobDone(c, l)
  PROVE  CoreInv'
<1> DEFINE j == Head(jobs[c])
           e == [req |-> j.req, finishedAt |-> FinishedAt(j.kind, l)]
<1> USE DEF CoreInv
<1>1. jobs[c] \in Seq(Jobs) /\ jobs[c] # <<>> /\ clock \in Nat
  BY DEF JobDone, CoresArmed, TypeOK
<1>2. j \in Jobs
  BY <1>1
<1>3. j.req \in Requests /\ j.kind \in Kinds
  BY <1>2 DEF Jobs
<1>4. FinishedAt(j.kind, l) \in Nat /\ WorkDone(j.kind, l) \in Nat
  BY <1>3, FinishedFact
<1>5. completionQueue' \in SUBSET [req : Requests, finishedAt : Nat]
  <2>1. completionQueue' = completionQueue \cup {e}
    BY DEF JobDone
  <2>2. e \in [req : Requests, finishedAt : Nat]
    BY <1>3, <1>4
  <2>3. QED
    BY <2>1, <2>2 DEF TypeOK
<1>6. lastScheduled' \in Nat /\ completionAt' \in Nat \cup {Never}
  <2>1. UpdateCompletion(completionQueue', completionAt)
    BY DEF JobDone
  <2>2. completionAt \in Nat \cup {Never}
    BY DEF TypeOK
  <2>3. QED
    BY <2>1, <2>2, <1>5, UpdateFact
<1>7. pScheduler' \in [num : Nat, type : SchedulerTypes] /\ gScheduler' \in Nat
  <2>1. CASE UNCHANGED <<pScheduler, gScheduler>>
    BY <2>1 DEF TypeOK
  <2>2. ASSUME NEW t \in SchedulerTypes, SwitchScheduler(t)
        PROVE  pScheduler' \in [num : Nat, type : SchedulerTypes] /\ gScheduler' \in Nat
    <3>1. pScheduler.num \in Nat
      BY DEF TypeOK
    <3>2. QED
      BY <2>2, <3>1 DEF SwitchScheduler, TypeOK
  <2>3. QED
    BY <2>1, <2>2 DEF JobDone
<1>8. iclDone' \in [Requests -> Nat \cup {Never}]
  BY <1>3, <1>4 DEF JobDone, TypeOK
<1>9. Tail(jobs[c]) \in Seq(Jobs) /\ (Tail(jobs[c]) = <<>> <=> Len(jobs[c]) <= 1)
  <2>1. /\ Tail(jobs[c]) \in Seq(Jobs)
        /\ Len(jobs[c]) \in Nat \ {0}
        /\ Len(Tail(jobs[c])) = Len(jobs[c]) - 1
    BY <1>1, HeadTailProperties, EmptySeq
  <2>2. Tail(jobs[c]) = <<>> <=> Len(Tail(jobs[c])) = 0
    <3> DEFINE t == Tail(jobs[c])
    <3>1. t \in Seq(Jobs)
      BY <2>1
    <3> HIDE DEF t
    <3>2. t = <<>> => Len(t) = 0
      BY EmptySeq
    <3>3. t # <<>> => Len(t) \in Nat \ {0}
      BY <3>1, EmptySeq
    <3>4. t = <<>> <=> Len(t) = 0
      BY <3>2, <3>3
    <3>5. QED
      BY <3>4 DEF t
  <2>3. ASSUME NEW m \in Nat \ {0}, NEW n, n = m - 1
        PROVE  n = 0 <=> m <= 1
    BY <2>3
  <2>4. Len(Tail(jobs[c])) = 0 <=> Len(jobs[c]) <= 1
    BY <2>1, <2>3, Zenon
  <2>5. QED
    BY <2>1, <2>2, <2>4, Zenon
<1>10. NextJobAt(c) \in Nat \cup {Never}
       /\ (NextJobAt(c) = Never <=> Len(jobs[c]) <= 1)
  <2>1. Len(jobs[c]) \in Nat /\ clock + JobLatency \in Nat
    BY <1>1, HILAssumption
  <2>2. QED
    BY <2>1 DEF NextJobAt, Never
<1>11. jobs' = [jobs EXCEPT ![c] = Tail(@)]
       /\ jobAt' = [jobAt EXCEPT ![c] = NextJobAt(c)]
  BY DEF JobDone
<1>12. jobs' \in [Cores -> Seq(Jobs)] /\ jobAt' \in [Cores -> Nat \cup {Never}]
  BY <1>9, <1>10, <1>11 DEF TypeOK
<1>13. busyTime' \in [Cores -> Nat]
  BY HILAssumption DEF JobDone, TypeOK
<1>14. TypeOK'
  BY <1>5, <1>6, <1>7, <1>8, <1>12, <1>13 DEF TypeOK, JobDone
<1>15. CoresArmed'
  <2> SUFFICES ASSUME NEW d \in Cores
               PROVE  jobs'[d] = <<>> <=> jobAt'[d] = Never
    BY DEF CoresArmed
  <2>1. CASE d = c
    BY <2>1, <1>9, <1>10, <1>11 DEF TypeOK
  <2>2. CASE d # c
    BY <2>2, <1>11 DEF TypeOK, CoresArmed
  <2>3. QED
    BY <2>1, <2>2
<1>16. QED
  BY <1>14, <1>15

(* completion does not touch the cores.                                    *)
LEMMA CompletionCore ==
  ASSUME CoreInv, Completion
  PROVE  CoreInv'
<1> USE DEF CoreInv
<1>1. completionQueue' \in SUBSET [req : Requests, finishedAt : Nat]
  BY DEF Completion, Remaining, TypeOK
<1>2. lastScheduled' \in Nat /\ completionAt' \in Nat \cup {Never}
  <2>1. UpdateCompletion(completionQueue', Never)
    BY DEF Completion, Rearm
  <2>2. QED
    BY <2>1, <1>1, UpdateFact
<1>3. delivered' \in [Requests -> Nat \cup {Never}]
  BY DEF Completion, TypeOK
<1>4. UNCHANGED <<clock, jobs, jobAt, busyTime, pScheduler, gScheduler,
                  submitted, iclDone, instant>>
  BY DEF Completion, engine
<1>5. QED
  BY <1>1, <1>2, <1>3, <1>4 DEF TypeOK, CoresArmed

(* Every step of HIL and the event loop keeps the core invariant.          *)
LEMMA CoreStep ==
  ASSUME CoreInv, [Next]_vars
  PROVE  CoreInv'
<1>1. ASSUME NEW r \in Requests, NEW k \in Kinds, Submit(r, k)
      PROVE  CoreInv'
  BY <1>1, SubmitCore
<1>2. ASSUME NEW c \in Cores, NEW l \in Latencies, JobDone(c, l)
      PROVE  CoreInv'
  BY <1>2, JobDoneCore
<1>3. CASE Completion
  BY <1>3, CompletionCore
<1>4. CASE Advance
  BY <1>4 DEF CoreInv, Advance, TypeOK, CoresArmed, engine, queue
<1>5. CASE UNCHANGED vars
  BY <1>5 DEF CoreInv, vars, TypeOK, CoresArmed, engine, queue
<1>6. QED
  BY <1>1, <1>2, <1>3, <1>4, <1>5 DEF Next, Engine

(* A core with jobs always has its event scheduled and an idle core never  *)
(* does, in every behaviour of the cores and the layer (submitJob,         *)
(* handleJob, jobDone), whatever the latencies.                            *)
THEOREM CoresNeverStall == Spec => [](TypeOK /\ CoresArmed)
<1>1. Init => CoreInv
  BY HILAssumption DEF Init, CoreInv, TypeOK, CoresArmed, Cores, Never
<1>2. CoreInv /\ [Next]_vars => CoreInv'
  BY CoreStep
<1>3. QED
  BY <1>1, <1>2, PTL DEF Spec, CoreInv

-----------------------------------------------------------------------------
(* The completion event                                                    *)

(* A finished job keeps the event at the first end: when its own end lies  *)
(* in the future, it cannot equal the tick of an event that has run.       *)
LEMMA JobDoneQueue ==
  ASSUME CoreInv, EventInv, NEW c \in Cores, NEW l \in Latencies,
         JobDone(c, l), instant' = {}
  PROVE  EventInv'
<1> DEFINE j == Head(jobs[c])
           e == [req |-> j.req, finishedAt |-> FinishedAt(j.kind, l)]
           q == completionQueue \cup {e}
<1>1. j \in Jobs
  <2>1. jobs[c] \in Seq(Jobs) /\ jobs[c] # <<>>
    BY DEF CoreInv, JobDone, CoresArmed, TypeOK
  <2>2. QED
    BY <2>1
<1>2. e.finishedAt \in Nat /\ clock < e.finishedAt /\ e.req \in Requests
  <2>1. /\ e.finishedAt \in Nat /\ clock <= e.finishedAt
        /\ e.req \in Requests /\ clock \in Nat
    BY <1>1, FinishedFact DEF Jobs, CoreInv, TypeOK
  <2>2. e.finishedAt # clock
    BY DEF JobDone
  <2>3. QED
    BY <2>1, <2>2
<1>3. q \in SUBSET [req : Requests, finishedAt : Nat] /\ q # {}
  BY <1>2 DEF CoreInv, TypeOK
<1>4. completionQueue' = q /\ UpdateCompletion(q, completionAt) /\ clock' = clock
  BY DEF JobDone
<1>5. clock \in Nat /\ lastScheduled \in Nat /\ completionAt \in Nat \cup {Never}
  BY DEF CoreInv, TypeOK
<1>6. FirstEnd(q) \in Nat /\ \E d \in q : d.finishedAt = FirstEnd(q)
  BY <1>3, FirstEndFact
<1>7. \A d \in q : clock <= d.finishedAt
  BY <1>2, <1>5 DEF EventInv
<1>8. completionAt' = FirstEnd(q) /\ lastScheduled' = FirstEnd(q)
  <2>1. CASE lastScheduled # FirstEnd(q)
    BY <2>1, <1>3, <1>4 DEF UpdateCompletion, MustSchedule
  <2>2. CASE lastScheduled = FirstEnd(q)
    <3>1. completionAt' = completionAt /\ lastScheduled' = lastScheduled
      BY <2>2, <1>4 DEF UpdateCompletion, MustSchedule
    <3>2. completionAt # Never
      <4> SUFFICES ASSUME completionAt = Never PROVE FALSE
        OBVIOUS
      <4>1. completionQueue = {}
        <5> SUFFICES ASSUME completionQueue # {} PROVE FALSE
          OBVIOUS
        <5>1. completionAt = FirstEnd(completionQueue)
          BY DEF EventInv
        <5>2. FirstEnd(completionQueue) \in Nat
          BY FirstEndFact DEF CoreInv, TypeOK
        <5>3. QED
          BY <5>1, <5>2 DEF Never
      <4>2. FirstEnd(q) = e.finishedAt
        BY <4>1, <1>6
      <4>3. lastScheduled <= clock
        BY DEF EventInv
      <4>4. QED
        BY <4>2, <4>3, <2>2, <1>2, <1>5
    <3>3. QED
      BY <3>1, <3>2, <2>2 DEF EventInv
  <2>3. QED
    BY <2>1, <2>2
<1> HIDE DEF q
<1>9. QED
  BY <1>4, <1>6, <1>7, <1>8 DEF EventInv, Never

(* completion leaves ends in the future only and schedules the first.      *)
LEMMA CompletionQueueStep ==
  ASSUME CoreInv, EventInv, Completion
  PROVE  EventInv'
<1> DEFINE q == completionQueue \ Ended
<1>1. q \in SUBSET [req : Requests, finishedAt : Nat]
  BY DEF CoreInv, TypeOK
<1>2. completionQueue' = q /\ UpdateCompletion(q, Never) /\ clock' = clock
  BY DEF Completion, Remaining, Rearm
<1>3. clock \in Nat /\ lastScheduled \in Nat
  BY DEF CoreInv, TypeOK
<1>4. lastScheduled <= clock
  BY <1>3 DEF Completion, CompletionDue, EventInv
<1>5. \A d \in q : clock < d.finishedAt
  BY <1>1, <1>3 DEF Ended
<1>6. CASE q = {}
  BY <1>6, <1>2, <1>4 DEF UpdateCompletion, MustSchedule, EventInv
<1>7. CASE q # {}
  <2>1. FirstEnd(q) \in Nat /\ clock < FirstEnd(q)
    BY <1>1, <1>5, <1>7, FirstEndFact
  <2>2. completionAt' = FirstEnd(q) /\ lastScheduled' = FirstEnd(q)
    BY <2>1, <1>2, <1>3, <1>4, <1>7 DEF UpdateCompletion, MustSchedule
  <2>3. \A d \in q : clock <= d.finishedAt
    BY <1>1, <1>3, <1>5
  <2> HIDE DEF q
  <2>4. QED
    BY <2>1, <2>2, <2>3, <1>2 DEF EventInv, Never
<1>8. QED
  BY <1>6, <1>7

(* Time stops at the event, hence at the first end.                        *)
LEMMA AdvanceQueue ==
  ASSUME CoreInv, EventInv, Advance
  PROVE  EventInv'
<1>1. clock \in Nat /\ lastScheduled \in Nat /\ completionAt \in Nat \cup {Never}
  BY DEF CoreInv, TypeOK
<1>2. clock' = clock + 1 /\ UNCHANGED <<completionQueue, lastScheduled, completionAt>>
  BY DEF Advance, queue
<1>3. completionAt # Never => clock < completionAt
  BY <1>1 DEF Advance, EventDue, Scheduled
<1>4. (completionQueue # {} => completionAt = FirstEnd(completionQueue))'
  BY <1>2 DEF EventInv, FirstEnd
<1>5. ASSUME NEW d \in completionQueue
      PROVE  clock + 1 <= d.finishedAt
  <2>1. completionAt = FirstEnd(completionQueue)
    BY DEF EventInv
  <2>2. FirstEnd(completionQueue) \in Nat
        /\ FirstEnd(completionQueue) <= d.finishedAt /\ d.finishedAt \in Nat
    BY FirstEndFact DEF CoreInv, TypeOK
  <2>3. QED
    BY <2>1, <2>2, <1>1, <1>3 DEF Never
<1>6. QED
  BY <1>1, <1>2, <1>4, <1>5 DEF EventInv

(* Every step keeps the queue invariant: once a request has ended in the   *)
(* tick of its job it says nothing, and until then no step but jobDone can *)
(* make it so.                                                             *)
LEMMA QueueStep ==
  ASSUME CoreInv, QueueInv, [Next]_vars
  PROVE  QueueInv'
<1> SUFFICES ASSUME instant' = {} PROVE EventInv'
  BY DEF QueueInv
<1>1. ASSUME NEW r \in Requests, NEW k \in Kinds, Submit(r, k)
      PROVE  EventInv'
  BY <1>1 DEF Submit, queue, QueueInv, EventInv, FirstEnd
<1>2. ASSUME NEW c \in Cores, NEW l \in Latencies, JobDone(c, l)
      PROVE  EventInv'
  <2>1. EventInv
    BY <1>2 DEF JobDone, QueueInv
  <2>2. QED
    BY <1>2, <2>1, JobDoneQueue
<1>3. CASE Completion
  <2>1. EventInv
    BY <1>3 DEF Completion, QueueInv
  <2>2. QED
    BY <1>3, <2>1, CompletionQueueStep
<1>4. CASE Advance
  <2>1. EventInv
    BY <1>4 DEF Advance, QueueInv
  <2>2. QED
    BY <1>4, <2>1, AdvanceQueue
<1>5. CASE UNCHANGED vars
  BY <1>5 DEF vars, queue, QueueInv, EventInv, FirstEnd
<1>6. QED
  BY <1>1, <1>2, <1>3, <1>4, <1>5 DEF Next, Engine

(* Until a request ends in the tick of its own job, the completion event   *)
(* of HIL is never lost: while a request waits, updateCompletion has left  *)
(* the event at the first end, whatever order the requests end in.         *)
THEOREM WakeupNeverLost == Spec => []CompletionArmed
<1>1. Init => CoreInv /\ QueueInv
  <2>1. Init => CoreInv
    BY HILAssumption DEF Init, CoreInv, TypeOK, CoresArmed, Cores, Never
  <2>2. Init => QueueInv
    BY DEF Init, QueueInv, EventInv
  <2>3. QED
    BY <2>1, <2>2
<1>2. CoreInv /\ QueueInv /\ [Next]_vars => CoreInv' /\ QueueInv'
  BY CoreStep, QueueStep
<1>3. QueueInv => CompletionArmed
  BY DEF QueueInv, EventInv, CompletionArmed
<1>4. QED
  BY <1>1, <1>2, <1>3, PTL DEF Spec

-----------------------------------------------------------------------------
(* Where a request is                                                      *)

(* A non-empty set of cores has one with the least load and, among those,  *)
(* the least rank.                                                         *)
LEMMA LeastOf ==
  ASSUME NEW S, S # {}, NEW load \in [S -> Nat], NEW rank \in [S -> Nat]
  PROVE  \E c \in S : \A d \in S :
           load[c] < load[d] \/ (load[c] = load[d] /\ rank[c] <= rank[d])
<1> DEFINE L == {load[c] : c \in S}
<1>1. L \in SUBSET Nat /\ L # {}
  OBVIOUS
<1>2. PICK a \in S : \A d \in S : load[a] <= load[d]
  <2>1. Min(L) \in L /\ \A y \in L : Min(L) <= y
    BY <1>1, MinOfTicks
  <2> QED
    BY <2>1
<1> DEFINE T == {c \in S : load[c] = load[a]}
           R == {rank[c] : c \in T}
<1>3. R \in SUBSET Nat /\ R # {}
  BY <1>2
<1>4. PICK c \in T : \A d \in T : rank[c] <= rank[d]
  <2>1. Min(R) \in R /\ \A y \in R : Min(R) <= y
    BY <1>3, MinOfTicks
  <2> QED
    BY <2>1
<1>5. ASSUME NEW d \in S
      PROVE  load[c] < load[d] \/ (load[c] = load[d] /\ rank[c] <= rank[d])
  <2>1. load[c] = load[a] /\ load[a] <= load[d] /\ load[a] \in Nat /\ load[d] \in Nat
    BY <1>2, <1>4
  <2>2. load[d] = load[a] => rank[c] <= rank[d]
    BY <1>4
  <2> QED
    BY <2>1, <2>2
<1> QED
  BY <1>4, <1>5

(* leastBusyCPU returns a core.                                            *)
LEMMA LeastBusyIsCore ==
  ASSUME TypeOK
  PROVE  LeastBusyCPU \in Cores
<1>1. Cores # {} /\ Cores \subseteq Nat /\ \A c \in Cores : NCores - c \in Nat
  BY HILAssumption DEF Cores
<1>2. IdleCores \subseteq Cores
  BY DEF IdleCores
<1>3. CASE IdleCores # {}
  <2> DEFINE load == [c \in IdleCores |-> busyTime[c]]
             rank == [c \in IdleCores |-> c]
  <2>1. load \in [IdleCores -> Nat] /\ rank \in [IdleCores -> Nat]
    BY <1>1, <1>2 DEF TypeOK
  <2> HIDE DEF load, rank
  <2>2. \E c \in IdleCores : \A d \in IdleCores :
          load[c] < load[d] \/ (load[c] = load[d] /\ rank[c] <= rank[d])
    BY <1>3, <2>1, LeastOf
  <2>3. \E c \in IdleCores : \A d \in IdleCores :
          busyTime[c] < busyTime[d] \/ (busyTime[c] = busyTime[d] /\ c <= d)
    BY <2>2 DEF load, rank
  <2> QED
    BY <1>2, <1>3, <2>3 DEF LeastBusyCPU
<1>4. CASE IdleCores = {}
  <2> DEFINE load == [c \in Cores |-> Len(jobs[c])]
             rank == [c \in Cores |-> NCores - c]
  <2>1. load \in [Cores -> Nat] /\ rank \in [Cores -> Nat]
    <3>1. \A c \in Cores : Len(jobs[c]) \in Nat
      BY DEF TypeOK
    <3> QED
      BY <1>1, <3>1
  <2> HIDE DEF load, rank
  <2>2. \E c \in Cores : \A d \in Cores :
          load[c] < load[d] \/ (load[c] = load[d] /\ rank[c] <= rank[d])
    BY <1>1, <2>1, LeastOf
  <2>3. \A c, d \in Cores : NCores - c <= NCores - d => c >= d
    BY HILAssumption DEF Cores
  <2>4. \E c \in Cores : \A d \in Cores :
          Len(jobs[c]) < Len(jobs[d]) \/ (Len(jobs[c]) = Len(jobs[d]) /\ c >= d)
    BY <2>2, <2>3 DEF load, rank
  <2> QED
    BY <1>4, <2>4 DEF LeastBusyCPU
<1> QED
  BY <1>3, <1>4

(* The jobs of the cores after submitJob has appended a job to a core.     *)
LEMMA SubmitJobs ==
  ASSUME CoreInv, NEW r \in Requests, NEW k \in Kinds, Submit(r, k)
  PROVE  \E c \in Cores : \A d \in Cores :
           IF d = c
           THEN /\ Len(jobs'[d]) = Len(jobs[d]) + 1
                /\ jobs'[d][Len(jobs[d]) + 1].req = r
                /\ \A m \in 1..Len(jobs[d]) : jobs'[d][m] = jobs[d][m]
           ELSE jobs'[d] = jobs[d]
<1> DEFINE x == LeastBusyCPU
           j == [req |-> r, kind |-> k]
<1>1. x \in Cores
  BY LeastBusyIsCore DEF CoreInv
<1>2. jobs' = [jobs EXCEPT ![x] = Append(@, j)]
  BY DEF Submit
<1>3. jobs \in [Cores -> Seq(Jobs)] /\ j \in Jobs /\ j.req = r
  BY DEF CoreInv, TypeOK, Jobs
<1> HIDE DEF x, j
<1>4. ASSUME NEW d \in Cores, d = x
      PROVE  /\ Len(jobs'[d]) = Len(jobs[d]) + 1
             /\ jobs'[d][Len(jobs[d]) + 1].req = r
             /\ \A m \in 1..Len(jobs[d]) : jobs'[d][m] = jobs[d][m]
  <2>1. jobs'[d] = Append(jobs[d], j) /\ jobs[d] \in Seq(Jobs)
    BY <1>2, <1>3, <1>4
  <2> QED
    BY <2>1, <1>3
<1>5. ASSUME NEW d \in Cores, d # x
      PROVE  jobs'[d] = jobs[d]
  BY <1>2, <1>3, <1>5
<1> QED
  BY <1>1, <1>4, <1>5

(* The jobs of the cores after jobDone has popped the first of a core.     *)
LEMMA PoppedJobs ==
  ASSUME CoreInv, NEW c \in Cores, NEW l \in Latencies, JobDone(c, l)
  PROVE  /\ 1 \in 1..Len(jobs[c]) /\ Head(jobs[c]) = jobs[c][1]
         /\ jobs[c][1].req \in Requests /\ jobs[c][1].kind \in Kinds
         /\ Len(jobs'[c]) = Len(jobs[c]) - 1
         /\ \A m \in 1..Len(jobs'[c]) : jobs'[c][m] = jobs[c][m + 1]
         /\ \A d \in Cores : d # c => jobs'[d] = jobs[d]
<1>1. jobs[c] \in Seq(Jobs) /\ jobs[c] # <<>>
  BY DEF CoreInv, JobDone, CoresArmed, TypeOK
<1>2. jobs' = [jobs EXCEPT ![c] = Tail(@)] /\ jobs \in [Cores -> Seq(Jobs)]
  BY DEF JobDone, CoreInv, TypeOK
<1>3. jobs'[c] = Tail(jobs[c]) /\ \A d \in Cores : d # c => jobs'[d] = jobs[d]
  BY <1>2
<1>4. Len(jobs[c]) \in Nat \ {0}
  BY <1>1, EmptySeq
<1>5. jobs[c][1] \in Jobs /\ 1 \in 1..Len(jobs[c])
  BY <1>1, <1>4
<1> QED
  BY <1>1, <1>3, <1>4, <1>5 DEF Jobs

(* A request that is made is a new job and nothing else.                   *)
LEMMA SubmitPlace ==
  ASSUME CoreInv, PlaceInv, NEW r \in Requests, NEW k \in Kinds, Submit(r, k)
  PROVE  PlaceInv'
<1>1. PICK c \in Cores : \A d \in Cores :
        IF d = c
        THEN /\ Len(jobs'[d]) = Len(jobs[d]) + 1
             /\ jobs'[d][Len(jobs[d]) + 1].req = r
             /\ \A m \in 1..Len(jobs[d]) : jobs'[d][m] = jobs[d][m]
        ELSE jobs'[d] = jobs[d]
  BY SubmitJobs
<1>2. /\ r \notin submitted /\ submitted' = submitted \cup {r}
      /\ UNCHANGED <<completionQueue, delivered>>
  BY DEF Submit, queue
<1>3. \A d \in Cores : Len(jobs[d]) \in Nat
  BY DEF CoreInv, TypeOK
<1>4. \A d \in Cores : \A m \in 1..Len(jobs'[d]) :
        \/ m \in 1..Len(jobs[d]) /\ jobs'[d][m] = jobs[d][m]
        \/ d = c /\ m = Len(jobs[d]) + 1 /\ jobs'[d][m].req = r
  BY <1>1, <1>3
<1>5. \A d \in Cores : \A m \in 1..Len(jobs[d]) :
        m \in 1..Len(jobs'[d]) /\ jobs'[d][m] = jobs[d][m]
  BY <1>1, <1>3
<1>6. Len(jobs[c]) + 1 \in 1..Len(jobs'[c]) /\ jobs'[c][Len(jobs[c]) + 1].req = r
  BY <1>1, <1>3
<1>7. delivered[r] = Never /\ \A e \in completionQueue : e.req # r
  BY <1>2 DEF PlaceInv, NoneLost, EndsApart
<1>8. JobsApart'
  <2>1. \A d \in Cores : \A m \in 1..Len(jobs[d]) :
          /\ jobs[d][m].req \in submitted /\ jobs[d][m].req # r
          /\ delivered[jobs[d][m].req] = Never
          /\ \A e \in completionQueue : e.req # jobs[d][m].req
    BY <1>2 DEF PlaceInv, JobsApart
  <2>2. ASSUME NEW d \in Cores, NEW m \in 1..Len(jobs'[d])
        PROVE  /\ jobs'[d][m].req \in submitted'
               /\ delivered[jobs'[d][m].req] = Never
               /\ \A e \in completionQueue : e.req # jobs'[d][m].req
    BY <1>2, <1>4, <1>7, <2>1
  <2>3. ASSUME NEW d \in Cores, NEW m \in 1..Len(jobs'[d]),
               NEW b \in Cores, NEW n \in 1..Len(jobs'[b]),
               jobs'[b][n].req = jobs'[d][m].req
        PROVE  b = d /\ n = m
    <3>1. CASE m \in 1..Len(jobs[d]) /\ jobs'[d][m] = jobs[d][m]
      <4>1. n \in 1..Len(jobs[b]) /\ jobs'[b][n] = jobs[b][n]
        BY <1>4, <2>1, <2>3, <3>1
      <4>2. jobs[b][n].req = jobs[d][m].req
        BY <2>3, <3>1, <4>1
      <4> QED
        BY <3>1, <4>1, <4>2 DEF PlaceInv, JobsApart
    <3>2. CASE d = c /\ m = Len(jobs[d]) + 1 /\ jobs'[d][m].req = r
      <4>1. ~(n \in 1..Len(jobs[b]) /\ jobs'[b][n] = jobs[b][n])
        BY <2>1, <2>3, <3>2
      <4> QED
        BY <1>4, <3>2, <4>1
    <3> QED
      BY <1>4, <3>1, <3>2
  <2> QED
    BY <1>2, <2>2, <2>3 DEF JobsApart
<1>9. EndsApart'
  BY <1>2 DEF PlaceInv, EndsApart
<1>10. NoneLost'
  BY <1>2, <1>5, <1>6 DEF PlaceInv, NoneLost
<1> QED
  BY <1>8, <1>9, <1>10 DEF PlaceInv

(* jobDone moves a request from its job to the completion queue.           *)
LEMMA JobDonePlace ==
  ASSUME CoreInv, PlaceInv, NEW c \in Cores, NEW l \in Latencies, JobDone(c, l)
  PROVE  PlaceInv'
<1> DEFINE j == Head(jobs[c])
           e == [req |-> j.req, finishedAt |-> FinishedAt(j.kind, l)]
<1>1. /\ 1 \in 1..Len(jobs[c]) /\ j = jobs[c][1]
      /\ Len(jobs'[c]) = Len(jobs[c]) - 1
      /\ \A m \in 1..Len(jobs'[c]) : jobs'[c][m] = jobs[c][m + 1]
      /\ \A d \in Cores : d # c => jobs'[d] = jobs[d]
  BY PoppedJobs
<1>2. e.req = j.req
  OBVIOUS
<1>3. /\ completionQueue' = completionQueue \cup {e}
      /\ UNCHANGED <<submitted, delivered>>
  BY DEF JobDone
<1>4. \A d \in Cores : Len(jobs[d]) \in Nat
  BY DEF CoreInv, TypeOK
<1> HIDE DEF j, e
<1>5. \A d \in Cores : \A m \in 1..Len(jobs'[d]) :
        \/ d # c /\ m \in 1..Len(jobs[d]) /\ jobs'[d][m] = jobs[d][m]
        \/ /\ d = c /\ m + 1 \in 1..Len(jobs[d]) /\ m + 1 # 1
           /\ jobs'[d][m] = jobs[d][m + 1] /\ m \in Int
  BY <1>1, <1>4
<1>6. \A d \in Cores : \A m \in 1..Len(jobs[d]) :
        \/ d # c /\ m \in 1..Len(jobs'[d]) /\ jobs'[d][m] = jobs[d][m]
        \/ d = c /\ m = 1
        \/ /\ d = c /\ m - 1 \in 1..Len(jobs'[d])
           /\ jobs'[d][m - 1] = jobs[d][m]
  BY <1>1, <1>4
<1>7. /\ j.req \in submitted /\ delivered[j.req] = Never
      /\ \A f \in completionQueue : f.req # j.req
      /\ \A d \in Cores : \A m \in 1..Len(jobs[d]) :
           jobs[d][m].req = j.req => d = c /\ m = 1
  BY <1>1 DEF PlaceInv, JobsApart
<1>8. \A d \in Cores : \A m \in 1..Len(jobs'[d]) : jobs'[d][m].req # j.req
  BY <1>5, <1>7
<1>9. JobsApart'
  <2> SUFFICES ASSUME NEW d \in Cores, NEW m \in 1..Len(jobs'[d])
               PROVE  /\ jobs'[d][m].req \in submitted
                      /\ delivered[jobs'[d][m].req] = Never
                      /\ \A f \in completionQueue' : f.req # jobs'[d][m].req
                      /\ \A b \in Cores : \A n \in 1..Len(jobs'[b]) :
                           jobs'[b][n].req = jobs'[d][m].req => b = d /\ n = m
    BY <1>3 DEF JobsApart
  <2>1. /\ jobs'[d][m].req \in submitted
        /\ delivered[jobs'[d][m].req] = Never
        /\ \A f \in completionQueue : f.req # jobs'[d][m].req
    BY <1>5 DEF PlaceInv, JobsApart
  <2>2. e.req # jobs'[d][m].req
    BY <1>2, <1>8
  <2>3. ASSUME NEW b \in Cores, NEW n \in 1..Len(jobs'[b]),
               jobs'[b][n].req = jobs'[d][m].req
        PROVE  b = d /\ n = m
    <3>1. \A x, y \in Cores : \A i \in 1..Len(jobs[x]), o \in 1..Len(jobs[y]) :
            jobs[x][i].req = jobs[y][o].req => x = y /\ i = o
      BY DEF PlaceInv, JobsApart
    <3>2. CASE b # c /\ d # c
      <4>1. /\ n \in 1..Len(jobs[b]) /\ m \in 1..Len(jobs[d])
            /\ jobs[b][n].req = jobs[d][m].req
        BY <1>5, <2>3, <3>2
      <4> QED
        BY <3>1, <4>1
    <3>3. CASE b = c /\ d = c
      <4>1. /\ n + 1 \in 1..Len(jobs[b]) /\ m + 1 \in 1..Len(jobs[d])
            /\ jobs[b][n + 1].req = jobs[d][m + 1].req
            /\ n \in Int /\ m \in Int
        BY <1>5, <2>3, <3>3
      <4>2. n + 1 = m + 1
        BY <3>1, <4>1
      <4> QED
        BY <3>3, <4>1, <4>2
    <3>4. CASE b = c /\ d # c
      <4>1. /\ n + 1 \in 1..Len(jobs[b]) /\ m \in 1..Len(jobs[d])
            /\ jobs[b][n + 1].req = jobs[d][m].req
        BY <1>5, <2>3, <3>4
      <4> QED
        BY <3>1, <3>4, <4>1
    <3>5. CASE b # c /\ d = c
      <4>1. /\ n \in 1..Len(jobs[b]) /\ m + 1 \in 1..Len(jobs[d])
            /\ jobs[b][n].req = jobs[d][m + 1].req
        BY <1>5, <2>3, <3>5
      <4> QED
        BY <3>1, <3>5, <4>1
    <3> QED
      BY <3>2, <3>3, <3>4, <3>5
  <2> QED
    BY <2>1, <2>2, <2>3, <1>3
<1>10. EndsApart'
  BY <1>2, <1>3, <1>7 DEF PlaceInv, EndsApart
<1>11. NoneLost'
  <2> SUFFICES ASSUME NEW r \in Requests
               PROVE  /\ delivered[r] # Never => r \in submitted
                      /\ r \in submitted =>
                           \/ \E d \in Cores : \E k \in 1..Len(jobs'[d]) :
                                jobs'[d][k].req = r
                           \/ \E f \in completionQueue' : f.req = r
                           \/ delivered[r] # Never
    BY <1>3 DEF NoneLost
  <2>1. CASE r = j.req
    BY <2>1, <1>2, <1>3, <1>7
  <2>2. CASE r # j.req
    <3>1. /\ delivered[r] # Never => r \in submitted
          /\ r \in submitted =>
               \/ \E d \in Cores : \E k \in 1..Len(jobs[d]) : jobs[d][k].req = r
               \/ \E f \in completionQueue : f.req = r
               \/ delivered[r] # Never
      BY DEF PlaceInv, NoneLost
    <3>2. ASSUME NEW d \in Cores, NEW k \in 1..Len(jobs[d]), jobs[d][k].req = r
          PROVE  \E m \in 1..Len(jobs'[d]) : jobs'[d][m].req = r
      BY <3>2, <2>2, <1>1, <1>6
    <3> QED
      BY <3>1, <3>2, <1>3
  <2> QED
    BY <2>1, <2>2
<1> QED
  BY <1>9, <1>10, <1>11 DEF PlaceInv

(* completion moves a request from the queue to the protocol layer.        *)
LEMMA CompletionPlace ==
  ASSUME CoreInv, PlaceInv, Completion
  PROVE  PlaceInv'
<1>1. /\ completionQueue' = completionQueue \ Ended
      /\ delivered' = [r \in Requests |->
                         IF \E e \in Ended : e.req = r THEN clock ELSE delivered[r]]
      /\ UNCHANGED <<jobs, submitted>>
  BY DEF Completion, Remaining, engine
<1>2. Ended \subseteq completionQueue
  BY DEF Ended
<1>3. /\ \A e \in completionQueue : e.req \in Requests
      /\ \A c \in Cores : \A k \in 1..Len(jobs[c]) : jobs[c][k].req \in Requests
      /\ clock # Never
  <2>1. \A e \in completionQueue : e.req \in Requests
    BY DEF CoreInv, TypeOK
  <2>2. \A c \in Cores : \A k \in 1..Len(jobs[c]) : jobs[c][k].req \in Requests
    BY DEF PlaceInv, JobsApart, CoreInv, TypeOK
  <2>3. clock # Never
    BY DEF CoreInv, TypeOK, Never
  <2> QED
    BY <2>1, <2>2, <2>3
<1>4. JobsApart'
  <2> SUFFICES ASSUME NEW c \in Cores, NEW k \in 1..Len(jobs[c])
               PROVE  /\ jobs[c][k].req \in submitted
                      /\ delivered'[jobs[c][k].req] = Never
                      /\ \A e \in completionQueue' : e.req # jobs[c][k].req
                      /\ \A d \in Cores : \A m \in 1..Len(jobs[d]) :
                           jobs[d][m].req = jobs[c][k].req => d = c /\ m = k
    BY <1>1 DEF JobsApart
  <2>1. /\ jobs[c][k].req \in submitted /\ delivered[jobs[c][k].req] = Never
        /\ \A e \in completionQueue : e.req # jobs[c][k].req
        /\ \A d \in Cores : \A m \in 1..Len(jobs[d]) :
             jobs[d][m].req = jobs[c][k].req => d = c /\ m = k
    BY DEF PlaceInv, JobsApart
  <2> QED
    BY <2>1, <1>1, <1>2, <1>3
<1>5. EndsApart'
  BY <1>1, <1>2, <1>3 DEF PlaceInv, EndsApart
<1>6. NoneLost'
  <2> SUFFICES ASSUME NEW r \in Requests
               PROVE  /\ delivered'[r] # Never => r \in submitted
                      /\ r \in submitted =>
                           \/ \E d \in Cores : \E k \in 1..Len(jobs[d]) :
                                jobs[d][k].req = r
                           \/ \E f \in completionQueue' : f.req = r
                           \/ delivered'[r] # Never
    BY <1>1 DEF NoneLost
  <2>1. delivered'[r] = IF \E e \in Ended : e.req = r THEN clock ELSE delivered[r]
    BY <1>1
  <2> QED
    BY <2>1, <1>1, <1>2, <1>3 DEF PlaceInv, NoneLost, EndsApart
<1> QED
  BY <1>4, <1>5, <1>6 DEF PlaceInv

(* Every step keeps a request in one place.                                *)
LEMMA PlaceStep ==
  ASSUME CoreInv, PlaceInv, [Next]_vars
  PROVE  PlaceInv'
<1>1. CASE Advance \/ UNCHANGED vars
  BY <1>1 DEF Advance, vars, engine, queue, PlaceInv, JobsApart, EndsApart,
              NoneLost
<1> QED
  BY <1>1, SubmitPlace, JobDonePlace, CompletionPlace DEF Next, Engine

(* Requests that are apart in the sense of the invariant are in one place. *)
LEMMA OnePlace ==
  ASSUME CoreInv, PlaceInv
  PROVE  EachOnce
<1> SUFFICES ASSUME NEW r \in submitted
             PROVE  \E p : Places(r) = {p}
  <2>1. \A p : Cardinality({p}) = 1
    BY FS_Singleton
  <2> QED
    BY <2>1 DEF EachOnce
<1>1. r \in Requests
  BY DEF CoreInv, TypeOK
<1> DEFINE T(c) == {<<"job", c, k>> :
                      k \in {n \in 1..Len(jobs[c]) : jobs[c][n].req = r}}
           J == UNION {T(c) : c \in Cores}
           Q == {<<"queue", e>> : e \in {f \in completionQueue : f.req = r}}
           D == {<<"delivered", t>> : t \in {delivered[r]} \ {Never}}
<1>5. Places(r) = J \cup Q \cup D
  BY Zenon DEF Places
<1>6. \A x : x \in J <=> \E c \in Cores : \E k \in 1..Len(jobs[c]) :
                           jobs[c][k].req = r /\ x = <<"job", c, k>>
  <2>1. ASSUME NEW x, NEW c \in Cores, NEW k \in 1..Len(jobs[c]),
               jobs[c][k].req = r, x = <<"job", c, k>>
        PROVE  x \in J
    <3>1. x \in T(c)
      BY <2>1, Zenon
    <3>2. T(c) \in {T(d) : d \in Cores}
      OBVIOUS
    <3> QED
      BY <3>1, <3>2, Zenon
  <2>2. ASSUME NEW x \in J
        PROVE  \E c \in Cores : \E k \in 1..Len(jobs[c]) :
                 jobs[c][k].req = r /\ x = <<"job", c, k>>
    BY <2>2, Zenon
  <2> QED
    BY <2>1, <2>2, Zenon
<1>7. delivered[r] = Never => D = {}
  OBVIOUS
<1>8. (\A e \in completionQueue : e.req # r) => Q = {}
  OBVIOUS
<1>9. (\A c \in Cores : \A k \in 1..Len(jobs[c]) : jobs[c][k].req # r) => J = {}
  BY <1>6
<1> HIDE DEF J, Q, D
<1>2. CASE \E c \in Cores : \E k \in 1..Len(jobs[c]) : jobs[c][k].req = r
  <2> PICK c \in Cores : \E k \in 1..Len(jobs[c]) : jobs[c][k].req = r
    BY <1>2
  <2>1. PICK k \in 1..Len(jobs[c]) : jobs[c][k].req = r
    OBVIOUS
  <2>2. /\ delivered[r] = Never /\ \A e \in completionQueue : e.req # r
        /\ \A d \in Cores : \A m \in 1..Len(jobs[d]) :
             jobs[d][m].req = r => d = c /\ m = k
    BY <2>1 DEF PlaceInv, JobsApart
  <2>3. J = {<<"job", c, k>>}
    <3>1. \A x : x \in J <=> x = <<"job", c, k>>
      BY <1>6, <2>1, <2>2, Zenon
    <3> QED
      BY <3>1, Zenon
  <2>4. Q = {} /\ D = {}
    BY <1>7, <1>8, <2>2
  <2> QED
    BY <1>5, <2>3, <2>4
<1>3. CASE \E e \in completionQueue : e.req = r
  <2>1. PICK e \in completionQueue : e.req = r
    BY <1>3
  <2>2. /\ delivered[r] = Never
        /\ \A f \in completionQueue : f.req = r => f = e
        /\ \A d \in Cores : \A m \in 1..Len(jobs[d]) : jobs[d][m].req # r
    BY <2>1 DEF PlaceInv, JobsApart, EndsApart
  <2>3. Q = {<<"queue", e>>}
    BY <2>1, <2>2, Zenon DEF Q
  <2>4. J = {} /\ D = {}
    BY <1>7, <1>9, <2>2
  <2> QED
    BY <1>5, <2>3, <2>4
<1>4. CASE delivered[r] # Never
  <2>1. /\ \A f \in completionQueue : f.req # r
        /\ \A d \in Cores : \A m \in 1..Len(jobs[d]) : jobs[d][m].req # r
    BY <1>4 DEF PlaceInv, JobsApart, EndsApart
  <2>2. D = {<<"delivered", delivered[r]>>}
    BY <1>4, Zenon DEF D
  <2>3. J = {} /\ Q = {}
    BY <1>8, <1>9, <2>1
  <2> QED
    BY <1>5, <2>2, <2>3
<1> QED
  BY <1>1, <1>2, <1>3, <1>4 DEF PlaceInv, NoneLost

(* Of every request that was made there is one job, one entry of the       *)
(* completion queue or one callback, for every number of requests and      *)
(* cores: execute, jobDone and completion lose none and answer none twice. *)
THEOREM NoneLostNoneTwice == Spec => []EachOnce
<1>1. Init => CoreInv /\ PlaceInv
  <2>1. Init => CoreInv
    BY HILAssumption DEF Init, CoreInv, TypeOK, CoresArmed, Cores, Never
  <2>2. Init => PlaceInv
    BY EmptySeq DEF Init, PlaceInv, JobsApart, EndsApart, NoneLost
  <2> QED
    BY <2>1, <2>2
<1>2. CoreInv /\ PlaceInv /\ [Next]_vars => CoreInv' /\ PlaceInv'
  BY CoreStep, PlaceStep
<1>3. CoreInv /\ PlaceInv => EachOnce
  BY OnePlace
<1> QED
  BY <1>1, <1>2, <1>3, PTL DEF Spec

-----------------------------------------------------------------------------
(* When a request is answered                                              *)

(* Under the credit scheduler a request whose end lies in the future ends  *)
(* when the cache layer is done with it.                                   *)
LEMMA CreditEnd ==
  ASSUME TypeOK, pScheduler.type = "CREDIT", NEW k \in Kinds, NEW l \in Latencies,
         FinishedAt(k, l) # clock
  PROVE  k # "switch" /\ WorkDone(k, l) = FinishedAt(k, l)
<1>1. k \in {"io", "sync", "slet", "result", "switch"}
  BY HILAssumption DEF AllKinds
<1> QED
  BY <1>1 DEF FinishedAt, WorkDone, IoEnd, SyncEnd, IscGetEnd

(* jobDone stamps a request that is neither queued nor delivered.          *)
LEMMA JobDoneDone ==
  ASSUME CoreInv, PlaceInv, DoneInv, NEW c \in Cores, NEW l \in Latencies,
         JobDone(c, l), instant' = {}, pScheduler'.type = "CREDIT"
  PROVE  DoneInv'
<1> DEFINE j == Head(jobs[c])
           e == [req |-> j.req, finishedAt |-> FinishedAt(j.kind, l)]
<1>1. j = jobs[c][1] /\ 1 \in 1..Len(jobs[c]) /\ j.req \in Requests /\ j.kind \in Kinds
  BY PoppedJobs
<1>2. FinishedAt(j.kind, l) # clock /\ instant = {}
  BY DEF JobDone
<1>3. j.kind # "switch"
  BY <1>1, <1>2 DEF FinishedAt
<1>4. pScheduler.type = "CREDIT"
  BY <1>3 DEF JobDone
<1>5. WorkDone(j.kind, l) = FinishedAt(j.kind, l) /\ FinishedAt(j.kind, l) \in Nat
  BY <1>1, <1>2, <1>4, CreditEnd, FinishedFact DEF CoreInv
<1>6. delivered[j.req] = Never /\ \A f \in completionQueue : f.req # j.req
  BY <1>1 DEF PlaceInv, JobsApart
<1>7. /\ completionQueue' = completionQueue \cup {e}
      /\ iclDone' = [iclDone EXCEPT ![j.req] = WorkDone(j.kind, l)]
      /\ delivered' = delivered
  BY DEF JobDone
<1>8. /\ iclDone \in [Requests -> Nat \cup {Never}]
      /\ \A f \in completionQueue : f.req \in Requests
  BY DEF CoreInv, TypeOK
<1>9. e.req = j.req /\ e.finishedAt = FinishedAt(j.kind, l)
  OBVIOUS
<1> HIDE DEF j, e
<1>10. \A f \in completionQueue' : iclDone'[f.req] <= f.finishedAt
  BY <1>1, <1>2, <1>4, <1>5, <1>6, <1>7, <1>8, <1>9 DEF DoneInv
<1>11. \A r \in Requests : delivered'[r] # Never => iclDone'[r] <= delivered'[r]
  BY <1>1, <1>2, <1>4, <1>6, <1>7, <1>8 DEF DoneInv
<1> QED
  BY <1>10, <1>11 DEF DoneInv

(* completion answers a request at or after its end.                       *)
LEMMA CompletionDone ==
  ASSUME CoreInv, DoneInv, Completion, PlaceInv
  PROVE  DoneInv'
<1>1. /\ completionQueue' = completionQueue \ Ended
      /\ delivered' = [r \in Requests |->
                         IF \E e \in Ended : e.req = r THEN clock ELSE delivered[r]]
      /\ UNCHANGED <<iclDone, instant, pScheduler>>
  BY DEF Completion, Remaining
<1>2. /\ iclDone \in [Requests -> Nat \cup {Never}] /\ clock \in Nat
      /\ delivered \in [Requests -> Nat \cup {Never}]
      /\ completionQueue \subseteq [req : Requests, finishedAt : Nat]
  BY DEF CoreInv, TypeOK
<1> SUFFICES ASSUME instant = {}, pScheduler.type = "CREDIT"
             PROVE  /\ \A e \in completionQueue' : iclDone[e.req] <= e.finishedAt
                    /\ \A r \in Requests :
                         delivered'[r] # Never => iclDone[r] <= delivered'[r]
  BY <1>1 DEF DoneInv
<1>3. \A e \in completionQueue : iclDone[e.req] <= e.finishedAt
  BY DEF DoneInv
<1>4. ASSUME NEW r \in Requests, delivered'[r] # Never
      PROVE  iclDone[r] <= delivered'[r]
  <2>1. CASE \E e \in Ended : e.req = r
    <3>1. PICK e \in completionQueue : e.req = r /\ e.finishedAt <= clock
      BY <2>1 DEF Ended
    <3>2. delivered'[r] = clock
      BY <1>1, <2>1
    <3>3. iclDone[r] \in Int /\ e.finishedAt \in Int /\ iclDone[r] <= e.finishedAt
      BY <1>2, <1>3, <3>1 DEF Never
    <3> QED
      BY <1>2, <3>1, <3>2, <3>3
  <2>2. CASE ~ \E e \in Ended : e.req = r
    BY <1>1, <1>4, <2>2 DEF DoneInv
  <2> QED
    BY <2>1, <2>2
<1> QED
  BY <1>1, <1>3, <1>4

(* Every step keeps the ends after the work.                               *)
LEMMA DoneStep ==
  ASSUME CoreInv, PlaceInv, DoneInv, [Next]_vars
  PROVE  DoneInv'
<1>1. CASE Advance \/ UNCHANGED vars \/ \E r \in Requests, k \in Kinds : Submit(r, k)
  BY <1>1 DEF Advance, vars, engine, queue, Submit, DoneInv
<1>2. ASSUME NEW c \in Cores, NEW l \in Latencies, JobDone(c, l)
      PROVE  DoneInv'
  <2>1. CASE instant' = {} /\ pScheduler'.type = "CREDIT"
    BY <1>2, <2>1, JobDoneDone
  <2>2. CASE ~(instant' = {} /\ pScheduler'.type = "CREDIT")
    BY <2>2 DEF DoneInv
  <2> QED
    BY <2>1, <2>2
<1>3. CASE Completion
  BY <1>3, CompletionDone
<1> QED
  BY <1>1, <1>2, <1>3 DEF Next, Engine

(* Until a request ends in the tick of its own job, no completion is late, *)
(* and under the credit scheduler none is early: the callback runs when    *)
(* the cache layer is done, for every set of latencies.                    *)
THEOREM CompletionsPunctual == Spec => []Punctual
<1>1. Init => CoreInv /\ QueueInv /\ PlaceInv /\ DoneInv
  <2>1. Init => CoreInv
    BY HILAssumption DEF Init, CoreInv, TypeOK, CoresArmed, Cores, Never
  <2>2. Init => QueueInv /\ DoneInv
    BY DEF Init, QueueInv, EventInv, DoneInv
  <2>3. Init => PlaceInv
    BY EmptySeq DEF Init, PlaceInv, JobsApart, EndsApart, NoneLost
  <2> QED
    BY <2>1, <2>2, <2>3
<1>2. CoreInv /\ QueueInv /\ PlaceInv /\ DoneInv /\ [Next]_vars
        => CoreInv' /\ QueueInv' /\ PlaceInv' /\ DoneInv'
  BY CoreStep, QueueStep, PlaceStep, DoneStep
<1>3. QueueInv /\ DoneInv => Punctual
  BY DEF QueueInv, EventInv, DoneInv, Punctual
<1> QED
  BY <1>1, <1>2, <1>3, PTL DEF Spec
=============================================================================
