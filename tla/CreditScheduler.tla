-------------------------- MODULE CreditScheduler --------------------------
(***************************************************************************)
(* The credit scheduler, hil/scheduler/credit_scheduler.cc, driven by its  *)
(* three callers: HIL::read and HIL::write (processUntil), the refill      *)
(* timer (processEvent), and the credit gates of in-storage computing in   *)
(* hil/nvme/namespace.cc and isc/sims/ftl.cc.                              *)
(*                                                                         *)
(* The simulator has one thread: a call runs to its end before the next    *)
(* event.  Inside a call, pc walks through tick(): admin queue, refill,    *)
(* deferred requests, deferred ISC results, round-robin dispatch.          *)
(*                                                                         *)
(* Credits are pages.  carry is a fraction of a page, counted here in      *)
(* units of 1/Scale page, which stand for the code's doubles.  Every user  *)
(* is best effort with weight 1: nothing in the program sets isSLO.  The   *)
(* queues no caller fills (queueISC, deferredICL_, deferredISCRequests_)   *)
(* and the statistics are left out.                                        *)
(***************************************************************************)
EXTENDS Integers, Sequences, FiniteSets

CONSTANTS
  UserOrder,      \* the users, in the iteration order of the hash map
  Admin,          \* userID 0, exempt from credit
  NoUser,         \* lastChosenUid before any dispatch
  Period,         \* periodTicks_
  Step,           \* periodTicks_ / 10, what processUntil advances time by
  Budget,         \* pagesPerPeriod_, in units of 1/Scale page
  Scale,          \* the fractions of a page that carry distinguishes
  Cap,            \* creditCap
  MaxIterations,  \* maxIterations of processUntil
  MaxGuard,       \* guard of the blocking gate in FTL::read
  Commands,       \* the calls made in this instance
  Lengths,        \* sizes of the requests, in pages
  IclLatency,     \* ticks an access to the cache layer takes
  Horizon,        \* bound: the last tick at which a call starts
  MaxRequests,    \* bound: the number of requests, ISC accesses and results
  MaxResets       \* bound: how often the statistics are reset

Users == {UserOrder[k] : k \in 1..Len(UserOrder)}

ASSUME ScheduleAssumption ==
  /\ Period \in Nat \ {0}
  /\ Step \in 1..Period
  /\ Scale \in Nat \ {0}
  /\ Budget \in Nat \ {0}
  /\ Cap \in Nat \ {0}
  /\ MaxIterations \in Nat \ {0}
  /\ MaxGuard \in Nat
  /\ IclLatency \in Nat
  /\ Horizon \in Nat
  /\ MaxRequests \in Nat
  /\ MaxResets \in Nat
  /\ Lengths \subseteq 1..Cap

ASSUME UserAssumption ==
  /\ Len(UserOrder) > 0
  /\ UserOrder \in Seq(Users)
  /\ \A j, k \in 1..Len(UserOrder) : UserOrder[j] = UserOrder[k] => j = k
  /\ Admin \notin Users
  /\ NoUser \notin Users \cup {Admin}

(* The shares of a period are whole numbers of 1/Scale page.               *)
ASSUME ShareAssumption == \A n \in 1..Len(UserOrder) : Budget % n = 0

VARIABLES
  clock,         \* getTick()
  now,           \* the tick a running call has reached
  pc,            \* where the running call is
  caller,        \* "until", "timer" or "gate"
  credit, carry, consumed, active,   \* the user accounts
  queue,         \* host requests per user
  adminQueue,
  deferred,      \* deferredQueue
  deferredISC,   \* deferredISC_
  left,          \* entries the running deferred loop still visits
  scan,          \* users the running round-robin scan still visits
  lastChosenUid,
  timerStarted, refillAt,   \* the refill event and its tick
  next,          \* lastGlobalRefillTick_, the next refill phase
  req,           \* the request of the running call
  iterations,    \* of processUntil, or rounds of the gate
  simTick,       \* the tick of the blocking gate
  reqCount,
  \* history, for the properties
  dispatched,    \* how often each request was carried out
  served,        \* host pages sent to the cache layer, per user
  phases,        \* refills since epoch
  epoch,         \* when the accounts were last empty and the timer started
  reached,       \* the latest tick any call has reached
  resets         \* resets of the statistics

account == <<credit, carry, consumed, active>>
timer   == <<timerStarted, refillAt, next>>
history == <<dispatched, served, phases, epoch, reached, resets>>
vars == <<clock, now, pc, caller, account, queue, adminQueue, deferred,
          deferredISC, left, scan, lastChosenUid, timer, req, iterations,
          simTick, reqCount, history>>

Never == -1

NoRequest == [id |-> 0, uid |-> Admin, pages |-> 0]

MaxOf(a, b) == IF a > b THEN a ELSE b

-----------------------------------------------------------------------------
(* Accounts                                                                *)

(* Mutated form: the timer's first phase is the present.                   *)
FirstPhaseNow == clock

FirstPhase == clock + Period

(* First activity of a user, in submitRequest and ensureActiveUser.        *)
Activate(u) ==
  IF u \in Users /\ ~active[u]
  THEN /\ active' = [active EXCEPT ![u] = TRUE]
       /\ credit' = [credit EXCEPT ![u] = 0]
       /\ IF timerStarted THEN UNCHANGED <<timer, epoch>>
          ELSE /\ timerStarted' = TRUE
               /\ next' = FirstPhase
               /\ refillAt' = FirstPhase
               /\ epoch' = clock
  ELSE UNCHANGED <<active, credit, timer, epoch>>

Pay(u, n) ==
  /\ credit' = [credit EXCEPT ![u] = @ - n]
  /\ consumed' = [consumed EXCEPT ![u] = @ + n]

(* checkCredit: enough credit, or an account that looks unused.  Admin has *)
(* no account, or one that is never credited.                              *)
CheckCredit(u, n) ==
  u = Admin \/ credit[u] >= n \/ (credit[u] = 0 /\ consumed[u] = 0)

(* useCreditISC takes what there is.                                       *)
UseCreditISC(u, n) ==
  IF u = Admin THEN UNCHANGED <<credit, consumed>>
  ELSE Pay(u, IF n > credit[u] THEN credit[u] ELSE n)

-----------------------------------------------------------------------------
(* tick()                                                                  *)

(* dispatchICL: the cache layer moves the call's tick forward.             *)
DispatchICL(r) ==
  /\ now' = now + IclLatency
  /\ dispatched' = [dispatched EXCEPT ![r.id] = @ + 1]
  /\ served' = IF r.uid = Admin THEN served
               ELSE [served EXCEPT ![r.uid] = @ + r.pages]

EnterTick(t) ==
  /\ now' = t
  /\ reached' = MaxOf(t, reached)
  /\ pc' = "admin"

AdminDispatch ==
  /\ pc = "admin"
  /\ adminQueue # <<>>
  /\ DispatchICL(Head(adminQueue))
  /\ adminQueue' = Tail(adminQueue)
  /\ reached' = MaxOf(now', reached)
  /\ UNCHANGED <<clock, pc, caller, account, queue, deferred, deferredISC, left,
                 scan, lastChosenUid, timer, req, iterations, simTick, reqCount,
                 phases, epoch, resets>>

AdminDone ==
  /\ pc = "admin"
  /\ adminQueue = <<>>
  /\ pc' = "refill"
  /\ UNCHANGED <<clock, now, caller, account, queue, adminQueue, deferred,
                 deferredISC, left, scan, lastChosenUid, timer, req, iterations,
                 simTick, reqCount, history>>

ActiveUsers == {u \in Users : active[u]}

RefillDue == timerStarted /\ now >= next

Headroom(u) == IF credit[u] >= Cap THEN 0 ELSE Cap - credit[u]

(* What an active user gets in one phase, fractions included.              *)
Share(u) == (Budget \div Cardinality(ActiveUsers)) + carry[u]

Grant(u) ==
  LET target == Share(u) \div Scale
  IN IF target > Headroom(u) THEN Headroom(u) ELSE target

(* Mutated form: what is not granted is dropped.                           *)
CarryDropped(u) == 0

CarryLeft(u) == Share(u) - Scale * Grant(u)

(* One phase of the refill loop.                                           *)
Refill ==
  /\ pc = "refill"
  /\ RefillDue
  /\ credit' = [u \in Users |-> IF active[u] THEN credit[u] + Grant(u)
                                ELSE credit[u]]
  /\ carry' = [u \in Users |-> IF active[u] THEN CarryLeft(u) ELSE carry[u]]
  /\ next' = next + Period
  /\ phases' = IF ActiveUsers = {} THEN phases ELSE phases + 1
  /\ UNCHANGED <<clock, now, pc, caller, consumed, active, queue, adminQueue,
                 deferred, deferredISC, left, scan, lastChosenUid, timerStarted,
                 refillAt, req, iterations, simTick, reqCount, dispatched,
                 served, epoch, reached, resets>>

RefillDone ==
  /\ pc = "refill"
  /\ ~RefillDue
  /\ pc' = "deferred"
  /\ left' = Len(deferred)
  /\ UNCHANGED <<clock, now, caller, account, queue, adminQueue, deferred,
                 deferredISC, scan, lastChosenUid, timer, req, iterations,
                 simTick, reqCount, history>>

(* One entry of deferredQueue: paid and dispatched, or put back.           *)
VisitDeferred ==
  LET r == Head(deferred) IN
  /\ pc = "deferred"
  /\ left > 0
  /\ left' = left - 1
  /\ IF credit[r.uid] >= r.pages
     THEN /\ Pay(r.uid, r.pages)
          /\ DispatchICL(r)
          /\ deferred' = Tail(deferred)
     ELSE /\ deferred' = Append(Tail(deferred), r)
          /\ UNCHANGED <<credit, consumed, now, dispatched, served>>
  /\ reached' = MaxOf(now', reached)
  /\ UNCHANGED <<clock, pc, caller, carry, active, queue, adminQueue,
                 deferredISC, scan, lastChosenUid, timer, req, iterations,
                 simTick, reqCount, phases, epoch, resets>>

DeferredDone ==
  /\ pc = "deferred"
  /\ left = 0
  /\ pc' = "resume"
  /\ left' = Len(deferredISC)
  /\ UNCHANGED <<clock, now, caller, account, queue, adminQueue, deferred,
                 deferredISC, scan, lastChosenUid, timer, req, iterations,
                 simTick, reqCount, history>>

(* One entry of deferredISC_: paid and resumed, or put back.  The resume   *)
(* callback copies the result and starts its DMA.                          *)
VisitISC ==
  LET d == Head(deferredISC) IN
  /\ pc = "resume"
  /\ left > 0
  /\ left' = left - 1
  /\ IF credit[d.uid] >= d.pages
     THEN /\ Pay(d.uid, d.pages)
          /\ deferredISC' = Tail(deferredISC)
          /\ dispatched' = [dispatched EXCEPT ![d.id] = @ + 1]
     ELSE /\ deferredISC' = Append(Tail(deferredISC), d)
          /\ UNCHANGED <<credit, consumed, dispatched>>
  /\ UNCHANGED <<clock, now, pc, caller, carry, active, queue, adminQueue,
                 deferred, scan, lastChosenUid, timer, req, iterations, simTick,
                 reqCount, served, phases, epoch, reached, resets>>

(* The users in the orders a round-robin scan may visit them: from the one *)
(* behind the last, and from anywhere when there is no last, because uid 0 *)
(* may have an account somewhere in the hash map.                          *)
Rotation(start) ==
  LET n == Len(UserOrder)
  IN [k \in 1..n |-> UserOrder[((start + k - 1) % n) + 1]]

RoundRobin(last) ==
  {Rotation(k) : k \in {j \in 1..Len(UserOrder) : last \in {UserOrder[j], NoUser}}}

ResumeDone ==
  /\ pc = "resume"
  /\ left = 0
  /\ pc' = "dispatch"
  /\ scan' \in RoundRobin(lastChosenUid)
  /\ UNCHANGED <<clock, now, caller, account, queue, adminQueue, deferred,
                 deferredISC, left, lastChosenUid, timer, req, iterations,
                 simTick, reqCount, history>>

(* Mutated form: a request the credit does not cover is lost.              *)
DeferNothing(r) == deferred

(* tryDispatchWithCredit puts what it cannot pay at the end of the queue.  *)
Defer(r) == Append(deferred, r)

(* One user of the scan.  A dispatch restarts the scan behind that user.   *)
VisitUser ==
  LET u == Head(scan)
      r == Head(queue[u]) IN
  /\ pc = "dispatch"
  /\ scan # <<>>
  /\ IF queue[u] = <<>>
     THEN /\ scan' = Tail(scan)
          /\ UNCHANGED <<credit, consumed, now, dispatched, served, queue,
                         deferred, lastChosenUid>>
     ELSE /\ queue' = [queue EXCEPT ![u] = Tail(@)]
          /\ IF credit[u] >= r.pages
             THEN /\ Pay(u, r.pages)
                  /\ DispatchICL(r)
                  /\ lastChosenUid' = u
                  /\ scan' \in RoundRobin(u)
                  /\ UNCHANGED deferred
             ELSE /\ deferred' = Defer(r)
                  /\ scan' = Tail(scan)
                  /\ UNCHANGED <<credit, consumed, now, dispatched, served,
                                 lastChosenUid>>
  /\ reached' = MaxOf(now', reached)
  /\ UNCHANGED <<clock, pc, caller, carry, active, adminQueue, deferredISC,
                 left, timer, req, iterations, simTick, reqCount, phases, epoch,
                 resets>>

TickDone ==
  /\ pc = "dispatch"
  /\ scan = <<>>
  /\ pc' = "ticked"
  /\ UNCHANGED <<clock, now, caller, account, queue, adminQueue, deferred,
                 deferredISC, left, scan, lastChosenUid, timer, req, iterations,
                 simTick, reqCount, history>>

-----------------------------------------------------------------------------
(* processUntil, called by HIL::read and HIL::write                        *)

Submit(u, n) ==
  LET r == [id |-> reqCount + 1, uid |-> u, pages |-> n] IN
  /\ pc = "idle"
  /\ "io" \in Commands
  /\ reqCount < MaxRequests
  /\ reqCount' = reqCount + 1
  /\ req' = r
  /\ caller' = "until"
  /\ iterations' = 1
  /\ IF u = Admin
     THEN adminQueue' = Append(adminQueue, r) /\ UNCHANGED queue
     ELSE queue' = [queue EXCEPT ![u] = Append(@, r)] /\ UNCHANGED adminQueue
  /\ Activate(u)
  /\ EnterTick(clock)
  /\ UNCHANGED <<clock, carry, consumed, deferred, deferredISC, left, scan,
                 lastChosenUid, simTick, dispatched, served, phases, resets>>

(* Mutated form: the deferred requests are forgotten.                      *)
QueueOnly == req.uid \in Users /\ queue[req.uid] # <<>>

HasPending ==
  \/ req.uid \in Users /\ queue[req.uid] # <<>>
  \/ deferred # <<>>
  \/ deferredISC # <<>>

GivesUp == iterations = MaxIterations

TryAgain ==
  /\ pc = "ticked"
  /\ caller = "until"
  /\ HasPending /\ ~GivesUp
  /\ iterations' = iterations + 1
  /\ EnterTick(now + Step)
  /\ UNCHANGED <<clock, caller, account, queue, adminQueue, deferred,
                 deferredISC, left, scan, lastChosenUid, timer, req, simTick,
                 reqCount, dispatched, served, phases, epoch, resets>>

(* processUntil returns and HIL queues the completion.                     *)
Return ==
  /\ pc = "ticked"
  /\ caller = "until"
  /\ ~HasPending \/ GivesUp
  /\ pc' = "idle"
  /\ now' = clock
  /\ req' = NoRequest
  /\ UNCHANGED <<clock, caller, account, queue, adminQueue, deferred,
                 deferredISC, left, scan, lastChosenUid, timer, iterations,
                 simTick, reqCount, history>>

-----------------------------------------------------------------------------
(* The refill timer                                                        *)

TimerDue == timerStarted /\ refillAt # Never /\ refillAt <= clock

Timer ==
  /\ pc = "idle"
  /\ TimerDue
  /\ refillAt' = Never
  /\ caller' = "timer"
  /\ EnterTick(clock)
  /\ UNCHANGED <<clock, account, queue, adminQueue, deferred, deferredISC, left,
                 scan, lastChosenUid, timerStarted, next, req, iterations,
                 simTick, reqCount, dispatched, served, phases, epoch,
                 resets>>

(* processEvent schedules the next phase.                                  *)
TimerDone ==
  /\ pc = "ticked"
  /\ caller = "timer"
  /\ refillAt' = next
  /\ pc' = "idle"
  /\ now' = clock
  /\ UNCHANGED <<clock, caller, account, queue, adminQueue, deferred,
                 deferredISC, left, scan, lastChosenUid, timerStarted, next,
                 req, iterations, simTick, reqCount, history>>

(* The simulator moves on to the next tick.                                *)
Advance ==
  /\ pc = "idle"
  /\ ~TimerDue
  /\ clock < Horizon
  /\ clock' = clock + 1
  /\ now' = clock + 1
  /\ reached' = MaxOf(clock + 1, reached)
  /\ UNCHANGED <<pc, caller, account, queue, adminQueue, deferred, deferredISC,
                 left, scan, lastChosenUid, timer, req, iterations, simTick,
                 reqCount, dispatched, served, phases, epoch, resets>>

-----------------------------------------------------------------------------
(* The gates of in-storage computing                                       *)

(* Namespace::isc_get, SLET_RES: charge the result, or wait in             *)
(* deferredISC_ for the credit.                                            *)
IscResult(u, n) ==
  LET r == [id |-> reqCount + 1, uid |-> u, pages |-> n] IN
  /\ pc = "idle"
  /\ "result" \in Commands
  /\ reqCount < MaxRequests
  /\ reqCount' = reqCount + 1
  /\ IF CheckCredit(u, n)
     THEN /\ UseCreditISC(u, n)
          /\ dispatched' = [dispatched EXCEPT ![r.id] = @ + 1]
          /\ UNCHANGED deferredISC
     ELSE /\ deferredISC' = Append(deferredISC, r)
          /\ UNCHANGED <<credit, consumed, dispatched>>
  /\ UNCHANGED <<clock, now, pc, caller, carry, active, queue, adminQueue,
                 deferred, left, scan, lastChosenUid, timer, req, iterations,
                 simTick, served, phases, epoch, reached, resets>>

(* FTL::read of a slet at tick t: activate the user, then wait for credit. *)
GateEnter(u, n, t) ==
  /\ reqCount < MaxRequests
  /\ reqCount' = reqCount + 1
  /\ Activate(u)
  /\ req' = [id |-> reqCount + 1, uid |-> u, pages |-> n]
  /\ iterations' = MaxGuard
  /\ simTick' = t
  /\ caller' = "gate"
  /\ pc' = "gate"
  /\ UNCHANGED <<clock, now, carry, consumed, queue, adminQueue, deferred,
                 deferredISC, left, scan, lastChosenUid, dispatched, served,
                 phases, reached, resets>>

(* HIL::isc_get runs a slet, whose accesses follow each other in its tick. *)
SletRun(u, n) == pc = "idle" /\ "slet" \in Commands /\ GateEnter(u, n, clock)

SletRead(n) == pc = "slet" /\ GateEnter(req.uid, n, simTick)

SletEnd ==
  /\ pc = "slet"
  /\ pc' = "idle"
  /\ now' = clock
  /\ req' = NoRequest
  /\ UNCHANGED <<clock, caller, account, queue, adminQueue, deferred,
                 deferredISC, left, scan, lastChosenUid, timer, iterations,
                 simTick, reqCount, history>>

(* A round of the wait: one period further, through processEvent.          *)
GateWait ==
  /\ pc = "gate"
  /\ ~CheckCredit(req.uid, req.pages)
  /\ iterations > 0
  /\ iterations' = iterations - 1
  /\ simTick' = simTick + Period
  /\ EnterTick(simTick + Period)
  /\ UNCHANGED <<clock, caller, account, queue, adminQueue, deferred,
                 deferredISC, left, scan, lastChosenUid, timer, req, reqCount,
                 dispatched, served, phases, epoch, resets>>

GateTicked ==
  /\ pc = "ticked"
  /\ caller = "gate"
  /\ refillAt' = next
  /\ pc' = "gate"
  /\ UNCHANGED <<clock, now, caller, account, queue, adminQueue, deferred,
                 deferredISC, left, scan, lastChosenUid, timerStarted, next,
                 req, iterations, simTick, reqCount, history>>

(* The gate opens, or gives up and lets the access through uncharged.      *)
GateOpen ==
  /\ pc = "gate"
  /\ CheckCredit(req.uid, req.pages) \/ iterations = 0
  /\ IF CheckCredit(req.uid, req.pages)
     THEN UseCreditISC(req.uid, req.pages)
     ELSE UNCHANGED <<credit, consumed>>
  /\ dispatched' = [dispatched EXCEPT ![req.id] = @ + 1]
  /\ simTick' = simTick + IclLatency
  /\ reached' = MaxOf(simTick', reached)
  /\ pc' = "slet"
  /\ UNCHANGED <<clock, now, caller, carry, active, queue, adminQueue, deferred,
                 deferredISC, left, scan, lastChosenUid, timer, req, iterations,
                 reqCount, served, phases, epoch, resets>>

(* resetStatValues: the accounts are emptied and nobody is active.         *)
Reset ==
  /\ pc = "idle"
  /\ resets < MaxResets
  /\ credit' = [u \in Users |-> 0]
  /\ carry' = [u \in Users |-> 0]
  /\ consumed' = [u \in Users |-> 0]
  /\ active' = [u \in Users |-> FALSE]
  /\ adminQueue' = <<>>
  /\ lastChosenUid' = NoUser
  /\ next' = 0
  /\ served' = [u \in Users |-> 0]
  /\ resets' = resets + 1
  /\ phases' = 0
  /\ epoch' = clock
  /\ UNCHANGED <<clock, now, pc, caller, queue, deferred, deferredISC, left,
                 scan, timerStarted, refillAt, req, iterations, simTick,
                 reqCount, dispatched, reached>>

-----------------------------------------------------------------------------
Init ==
  /\ clock = 0
  /\ now = 0
  /\ pc = "idle"
  /\ caller = "timer"
  /\ credit = [u \in Users |-> 0]
  /\ carry = [u \in Users |-> 0]
  /\ consumed = [u \in Users |-> 0]
  /\ active = [u \in Users |-> FALSE]
  /\ queue = [u \in Users |-> <<>>]
  /\ adminQueue = <<>>
  /\ deferred = <<>>
  /\ deferredISC = <<>>
  /\ left = 0
  /\ scan = <<>>
  /\ lastChosenUid = NoUser
  /\ timerStarted = FALSE
  /\ refillAt = Never
  /\ next = 0
  /\ req = NoRequest
  /\ iterations = 0
  /\ simTick = 0
  /\ reqCount = 0
  /\ dispatched = [r \in 1..MaxRequests |-> 0]
  /\ served = [u \in Users |-> 0]
  /\ phases = 0
  /\ epoch = 0
  /\ reached = 0
  /\ resets = 0

Tick ==
  \/ AdminDispatch \/ AdminDone
  \/ Refill \/ RefillDone
  \/ VisitDeferred \/ DeferredDone
  \/ VisitISC \/ ResumeDone
  \/ VisitUser \/ TickDone

Next ==
  \/ \E u \in Users \cup {Admin}, n \in Lengths : Submit(u, n)
  \/ \E u \in Users \cup {Admin}, n \in Lengths : IscResult(u, n)
  \/ \E u \in Users, n \in Lengths : SletRun(u, n)
  \/ \E n \in Lengths : SletRead(n)
  \/ SletEnd
  \/ Tick
  \/ TryAgain \/ Return
  \/ Timer \/ TimerDone
  \/ GateWait \/ GateTicked \/ GateOpen
  \/ Reset
  \/ Advance

Spec == Init /\ [][Next]_vars

-----------------------------------------------------------------------------
(* Properties                                                              *)

Accepted == 1..reqCount

Requests == [id : 1..MaxRequests, uid : Users \cup {Admin}, pages : Lengths]

(* The sum of a function over the users.                                   *)
Total(f) ==
  LET sum[k \in 0..Len(UserOrder)] ==
        IF k = 0 THEN 0 ELSE sum[k - 1] + f[UserOrder[k]]
  IN  sum[Len(UserOrder)]

(* What a user has, carries over and has ever paid, in 1/Scale pages.      *)
Held == [u \in Users |-> Scale * (credit[u] + consumed[u]) + carry[u]]

(* The refill neither makes nor loses pages: what the accounts hold, what  *)
(* they carry over and what was ever paid is exactly the budget of the     *)
(* phases with an active user, whatever the cap cut off in between.        *)
TokensConserved == Total(Held) = Budget * phases

(* The purpose of the scheduler: host pages that reach the cache layer     *)
(* never outrun the device rate, counted from the moment the accounts were *)
(* empty to the latest tick any call has reached.                          *)
ThroughputBounded ==
  Scale * Period * Total(served) <= Budget * (reached - epoch)

(* The same, as long as the statistics have not been reset.                *)
BoundedUntilReset == resets = 0 => ThroughputBounded

(* The access that waits at the blocking gate, while tick() runs too.      *)
AtGate ==
  IF caller = "gate" /\ pc \notin {"idle", "slet"} THEN {req.id} ELSE {}

(* The places at which a request waits.                                    *)
Places(id) ==
  LET In(place, u, q) ==
        {<<place, u, k>> : k \in {n \in 1..Len(q) : q[n].id = id}}
  IN  In("admin", Admin, adminQueue) \cup In("deferred", Admin, deferred)
      \cup In("result", Admin, deferredISC)
      \cup (UNION {In("queue", u, queue[u]) : u \in Users})
      \cup {<<"gate", Admin, i>> : i \in AtGate \cap {id}}

(* Every request, slet access and ISC result is in exactly one queue or    *)
(* has been carried out once: moving it between the queues of tick(), in   *)
(* whatever order, neither loses nor repeats it.                           *)
EachOnce == \A id \in Accepted : dispatched[id] + Cardinality(Places(id)) = 1

(* processUntil is synchronous: when it hands control back nothing it or   *)
(* an earlier call accepted waits, except ISC results, and HIL may report  *)
(* the request complete.                                                   *)
ServedOnReturn ==
  pc = "idle" => /\ adminQueue = <<>> /\ deferred = <<>>
                 /\ \A u \in Users : queue[u] = <<>>

=============================================================================
