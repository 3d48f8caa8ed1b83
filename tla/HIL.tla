-------------------------------- MODULE HIL --------------------------------
(***************************************************************************)
(* The host interface layer (hil/hil.cc) on its embedded cores             *)
(* (cpu/cpu.cc): a request becomes a job of a core, the job runs the       *)
(* request against the scheduler and the cache layer and puts it on the    *)
(* completion queue with the tick at which it ends, and one completion     *)
(* event per HIL delivers what has ended to the protocol layer.            *)
(*                                                                         *)
(* The simulator runs one event at a time, those of a tick in any order.   *)
(* An event is scheduled at most once; scheduling it again moves it.       *)
(*                                                                         *)
(* The schedulers are seen from outside: under CREDIT processUntil returns *)
(* the tick of the cache layer (module CreditScheduler), under FCFS it     *)
(* only adds the latency of the scheduler.                                 *)
(***************************************************************************)
EXTENDS Integers, Sequences, FiniteSets, FiniteSetsExt

CONSTANTS
  Requests,       \* the requests of the protocol layer
  Kinds,          \* the kinds of requests made in this instance
  NCores,         \* hilCore.size()
  JobLatency,     \* ticks of the instructions of a HIL function
  Latencies,      \* ticks an access to the cache layer, or a slet, may take
  SchedLatency,   \* applyLatency(FCFS_SCHEDULER, SCHEDULE)
  InitialType,    \* the scheduler the configuration selects
  SubmitBy        \* bound: the last tick at which a request is made

(* "io" is read and write; "sync" is flush, trim and format; "slet" is     *)
(* isc_get SLET_RUN and isc_set INIT and SLET_OPT; "result" is isc_get     *)
(* SLET_RES and SLET_RESSZ and isc_set FREE; "switch" is isc_set           *)
(* SCHEDULER.                                                              *)
AllKinds == {"io", "sync", "slet", "result", "switch"}

SchedulerTypes == {"FCFS", "CREDIT"}

ASSUME HILAssumption ==
  /\ IsFiniteSet(Requests)
  /\ Kinds \subseteq AllKinds
  /\ NCores \in Nat \ {0}
  /\ JobLatency \in Nat
  /\ Latencies \subseteq Nat \ {0}
  /\ SchedLatency \in Nat
  /\ InitialType \in SchedulerTypes
  /\ SubmitBy \in Nat

Cores == 1..NCores

VARIABLES
  clock,            \* getTick()
  jobs,             \* per core, the jobs waiting, the running one first
  jobAt,            \* per core, when jobEvent is scheduled
  busyTime,         \* per core, stat.busy
  completionQueue,  \* the requests that were run, with finishedAt
  lastScheduled,
  completionAt,     \* when completionEvent is scheduled
  pScheduler,       \* number and type of the current scheduler object
  gScheduler,       \* number of the object the global pointer refers to
  submitted,        \* the requests made so far
  delivered,        \* per request, when its callback ran
  \* history, for the properties
  iclDone,          \* per request, when the cache layer was done with it
  instant           \* the requests that ended in the tick in which their job ran

engine == <<jobs, jobAt, busyTime>>
queue  == <<completionQueue, lastScheduled, completionAt>>
vars == <<clock, engine, queue, pScheduler, gScheduler, submitted, delivered,
          iclDone, instant>>

Never == -1

-----------------------------------------------------------------------------
(* CPU cores                                                               *)

IdleCores == {c \in Cores : jobs[c] = <<>>}

(* leastBusyCPU: the idle core that worked least, the first of those, or   *)
(* the core with the fewest jobs, the last of those.                       *)
LeastBusyCPU ==
  IF IdleCores # {}
  THEN CHOOSE c \in IdleCores : \A d \in IdleCores :
         busyTime[c] < busyTime[d] \/ (busyTime[c] = busyTime[d] /\ c <= d)
  ELSE CHOOSE c \in Cores : \A d \in Cores :
         Len(jobs[c]) < Len(jobs[d]) \/ (Len(jobs[c]) = Len(jobs[d]) /\ c >= d)

(* HIL::read, write, flush, trim, format, isc_get, isc_set: execute, and   *)
(* submitJob, which starts the job when the core is idle.                  *)
Submit(r, k) ==
  LET c == LeastBusyCPU IN
  /\ r \notin submitted
  /\ clock <= SubmitBy
  /\ submitted' = submitted \cup {r}
  /\ jobs' = [jobs EXCEPT ![c] = Append(@, [req |-> r, kind |-> k])]
  /\ jobAt' = IF jobs[c] = <<>>
              THEN [jobAt EXCEPT ![c] = clock + JobLatency] ELSE jobAt
  /\ UNCHANGED <<clock, busyTime, queue, pScheduler, gScheduler, delivered,
                 iclDone, instant>>

(* Mutated form: the next job is not started.                              *)
NeverNext(c) == Never

(* jobDone starts the next job of the core, if there is one.               *)
NextJobAt(c) == IF Len(jobs[c]) > 1 THEN clock + JobLatency ELSE Never

-----------------------------------------------------------------------------
(* The completion queue                                                    *)

FirstEnd(q) == Min({e.finishedAt : e \in q})

(* Mutated form: the event is only ever moved to a later tick.             *)
LaterOnly(q) == q # {} /\ lastScheduled < FirstEnd(q)

MustSchedule(q) == q # {} /\ lastScheduled # FirstEnd(q)

(* updateCompletion; at is when the event is scheduled before the call.    *)
UpdateCompletion(q, at) ==
  IF MustSchedule(q)
  THEN lastScheduled' = FirstEnd(q) /\ completionAt' = FirstEnd(q)
  ELSE completionAt' = at /\ UNCHANGED lastScheduled

(* completion() calls it at the end, when its event has just run.          *)
Rearm(q) == UpdateCompletion(q, Never)

(* processUntil of the FCFS scheduler: the tick of the cache layer stays   *)
(* in the scheduler, only its own latency is added.                        *)
FcfsEnd == clock + SchedLatency

(* doRead and doWrite; l is what the access to the cache layer takes.      *)
IoEnd(l) == IF pScheduler.type = "FCFS" THEN FcfsEnd ELSE clock + l

(* doFlush of flush, trim and format.                                      *)
SyncEnd(l) == clock + l

(* isc_get: a slet takes its time, fetching its result none.               *)
IscGetEnd(k, l) == IF k = "slet" THEN clock + l ELSE clock

(* The tick at which HIL says a request ends.                              *)
FinishedAt(k, l) ==
  CASE k = "io"                 -> IoEnd(l)
    [] k = "sync"               -> SyncEnd(l)
    [] k \in {"slet", "result"} -> IscGetEnd(k, l)
    [] k = "switch"             -> clock

(* The tick at which the work of a request is done.                        *)
WorkDone(k, l) == IF k \in {"result", "switch"} THEN clock ELSE clock + l

(* switchScheduler: the old object is deleted; only CREDIT updates the     *)
(* global pointer that the gates of in-storage computing use.              *)
SwitchScheduler(t) ==
  IF t = pScheduler.type
  THEN UNCHANGED <<pScheduler, gScheduler>>
  ELSE /\ pScheduler' = [num |-> pScheduler.num + 1, type |-> t]
       /\ gScheduler' = IF t = "CREDIT" THEN pScheduler'.num ELSE gScheduler

(* jobDone: run the request, then pop it and start the next job.           *)
JobDone(c, l) ==
  LET j == Head(jobs[c])
      e == [req |-> j.req, finishedAt |-> FinishedAt(j.kind, l)]
  IN
  /\ jobAt[c] # Never
  /\ jobAt[c] <= clock
  /\ IF j.kind = "switch" THEN \E t \in SchedulerTypes : SwitchScheduler(t)
     ELSE UNCHANGED <<pScheduler, gScheduler>>
  /\ iclDone' = [iclDone EXCEPT ![j.req] = WorkDone(j.kind, l)]
  /\ instant' = IF e.finishedAt = clock THEN instant \cup {j.req} ELSE instant
  /\ completionQueue' = completionQueue \cup {e}
  /\ UpdateCompletion(completionQueue', completionAt)
  /\ jobs' = [jobs EXCEPT ![c] = Tail(@)]
  /\ jobAt' = [jobAt EXCEPT ![c] = NextJobAt(c)]
  /\ busyTime' = [busyTime EXCEPT ![c] = @ + JobLatency]
  /\ UNCHANGED <<clock, submitted, delivered>>

(* Mutated form: everything on the queue is handed over.                   *)
EndedAny == completionQueue

Ended == {e \in completionQueue : e.finishedAt <= clock}

(* Mutated form: a request stays on the queue after its callback.          *)
QueueKept == completionQueue

Remaining == completionQueue \ Ended

(* Mutated form: the event runs only after its tick, which never comes.    *)
CompletionDueLate == completionAt # Never /\ completionAt < clock

CompletionDue == completionAt # Never /\ completionAt <= clock

(* completion: deliver what has ended and look at the queue again.         *)
Completion ==
  /\ CompletionDue
  /\ completionQueue' = Remaining
  /\ delivered' = [r \in Requests |->
                     IF \E e \in Ended : e.req = r THEN clock ELSE delivered[r]]
  /\ Rearm(completionQueue')
  /\ UNCHANGED <<clock, engine, pScheduler, gScheduler, submitted, iclDone,
                 instant>>

-----------------------------------------------------------------------------
(* The simulator                                                           *)

Scheduled == {jobAt[c] : c \in Cores} \cup {completionAt}

EventDue == \E t \in Scheduled : t # Never /\ t <= clock

Advance ==
  /\ ~EventDue
  /\ Scheduled # {Never} \/ clock < SubmitBy
  /\ clock' = clock + 1
  /\ UNCHANGED <<engine, queue, pScheduler, gScheduler, submitted, delivered,
                 iclDone, instant>>

Init ==
  /\ clock = 0
  /\ jobs = [c \in Cores |-> <<>>]
  /\ jobAt = [c \in Cores |-> Never]
  /\ busyTime = [c \in Cores |-> 0]
  /\ completionQueue = {}
  /\ lastScheduled = 0
  /\ completionAt = Never
  /\ pScheduler = [num |-> 0, type |-> InitialType]
  /\ gScheduler = 0
  /\ submitted = {}
  /\ delivered = [r \in Requests |-> Never]
  /\ iclDone = [r \in Requests |-> Never]
  /\ instant = {}

Engine ==
  \/ \E c \in Cores, l \in Latencies : JobDone(c, l)
  \/ Completion
  \/ Advance

Next == Engine \/ \E r \in Requests, k \in Kinds : Submit(r, k)

Spec == Init /\ [][Next]_vars

(* The event loop goes on while an event is scheduled.                     *)
FairSpec == Spec /\ WF_vars(Engine)

-----------------------------------------------------------------------------
(* Properties                                                              *)

Jobs == [req : Requests, kind : Kinds]

(* The type invariant of the layer, its cores and its events.              *)
TypeOK ==
  /\ clock \in Nat
  /\ jobs \in [Cores -> Seq(Jobs)]
  /\ jobAt \in [Cores -> Nat \cup {Never}]
  /\ busyTime \in [Cores -> Nat]
  /\ completionQueue \subseteq [req : Requests, finishedAt : Nat]
  /\ lastScheduled \in Nat
  /\ completionAt \in Nat \cup {Never}
  /\ pScheduler \in [num : Nat, type : SchedulerTypes]
  /\ gScheduler \in Nat
  /\ submitted \subseteq Requests
  /\ delivered \in [Requests -> Nat \cup {Never}]
  /\ iclDone \in [Requests -> Nat \cup {Never}]
  /\ instant \subseteq Requests

(* A core with jobs always has its event scheduled, and an idle one never: *)
(* no job is left behind when the one before it ends.                      *)
CoresArmed == \A c \in Cores : jobs[c] = <<>> <=> jobAt[c] = Never

(* The wake-up is never lost: while a request waits on the completion      *)
(* queue the event is scheduled, exactly at the first end, whatever order  *)
(* requests end in and however often updateCompletion moved the event.     *)
(* It holds until a request ends in the tick of its own job, whose event   *)
(* may have run already.                                                   *)
CompletionArmed ==
  instant = {} /\ completionQueue # {} =>
    completionAt = FirstEnd(completionQueue)

(* Until then no completion is early or late: what is on the queue has not *)
(* passed its end, and under the credit scheduler a callback runs at a     *)
(* tick the cache layer had reached.                                       *)
Punctual ==
  instant = {} =>
    /\ \A e \in completionQueue : clock <= e.finishedAt
    /\ pScheduler.type = "CREDIT" =>
         \A r \in Requests : delivered[r] # Never => iclDone[r] <= delivered[r]

(* The inductive invariant behind CompletionArmed: the event is where      *)
(* lastScheduled says, or has run, and no end is in the past.              *)
EventInv ==
  /\ completionQueue # {} => completionAt = FirstEnd(completionQueue)
  /\ completionAt # Never => completionAt = lastScheduled
  /\ completionAt = Never => lastScheduled <= clock
  /\ \A e \in completionQueue : clock <= e.finishedAt

QueueInv == instant = {} => EventInv

(* Where a request is: in the jobs of the cores, on the completion queue,  *)
(* or with the protocol layer, its callback having run.                    *)
Places(r) ==
  (UNION {{<<"job", c, k>> : k \in {n \in 1..Len(jobs[c]) : jobs[c][n].req = r}} :
            c \in Cores})
    \cup {<<"queue", e>> : e \in {f \in completionQueue : f.req = r}}
    \cup {<<"delivered", t>> : t \in {delivered[r]} \ {Never}}

(* Every request is in one job, or on the completion queue once, or        *)
(* delivered: none is lost or answered twice.                              *)
EachOnce == \A r \in submitted : Cardinality(Places(r)) = 1

(* The inductive invariant behind EachOnce. A waiting job is of a request  *)
(* that was made, that no other job runs and that has not ended.           *)
JobsApart ==
  \A c \in Cores : \A k \in 1..Len(jobs[c]) :
    /\ jobs[c][k].req \in submitted
    /\ delivered[jobs[c][k].req] = Never
    /\ \A e \in completionQueue : e.req # jobs[c][k].req
    /\ \A d \in Cores : \A m \in 1..Len(jobs[d]) :
         jobs[d][m].req = jobs[c][k].req => d = c /\ m = k

EndsApart ==
  \A e \in completionQueue :
    /\ e.req \in submitted
    /\ delivered[e.req] = Never
    /\ \A f \in completionQueue : f.req = e.req => f = e

NoneLost ==
  \A r \in Requests :
    /\ delivered[r] # Never => r \in submitted
    /\ r \in submitted =>
         \/ \E c \in Cores : \E k \in 1..Len(jobs[c]) : jobs[c][k].req = r
         \/ \E e \in completionQueue : e.req = r
         \/ delivered[r] # Never

PlaceInv == JobsApart /\ EndsApart /\ NoneLost

(* The inductive invariant behind Punctual: under the credit scheduler the *)
(* cache layer is done with a request by the end HIL gave it.              *)
DoneInv ==
  instant = {} /\ pScheduler.type = "CREDIT" =>
    /\ \A e \in completionQueue : iclDone[e.req] <= e.finishedAt
    /\ \A r \in Requests : delivered[r] # Never => iclDone[r] <= delivered[r]

(* Every request is answered.                                              *)
AllDelivered == \A r \in Requests : r \in submitted ~> delivered[r] # Never

(* Every request is answered, unless one that takes no time was made.      *)
TimedDelivered ==
  \A r \in Requests : r \in submitted ~> delivered[r] # Never \/ instant # {}

=============================================================================
