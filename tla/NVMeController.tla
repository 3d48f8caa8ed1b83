--------------------------- MODULE NVMeController ---------------------------
(***************************************************************************)
(* The NVMe controller (hil/nvme/controller.cc, hil/nvme/queue.cc) between *)
(* a host driver and the subsystem: submission queues in host memory whose *)
(* entries are fetched by DMA, staged per user and picked in turn, and     *)
(* completion queues that are written back by DMA and announced by an      *)
(* interrupt.                                                              *)
(*                                                                         *)
(* The state starts after the driver's set-up and Start commands on each   *)
(* queue: the admin pair 0 and the queue pair 1 exist, the controller is   *)
(* enabled and nothing is in flight.  The host is external *)
(* and behaves as a driver does: it overwrites a submission slot only when *)
(* a completion reported the head beyond it, has at most one command in    *)
(* flight for each entry of the completion queue, and reads a completion   *)
(* queue by its phase bit when the interrupt of the queue is up.           *)
(*                                                                         *)
(* The subsystem is module NVMeSubsystem; here a command runs until some   *)
(* later step answers it.  DMA requests finish in the order in which they  *)
(* are made (module NVMeDMA).  Of weighted round robin the classes are     *)
(* kept and the weights are left out.                                      *)
(***************************************************************************)
EXTENDS Integers, Sequences, FiniteSets, SequencesExt, FiniteSetsExt

CONSTANTS
  Users,          \* user ids carried by I/O commands; 0 is the kernel
  QueueSize,      \* entries of a queue
  Start,          \* where the queue pairs stand when the behaviour begins
  MaxRequest,     \* NVME_MAX_REQUEST_COUNT
  Threshold,      \* aggregationThreshold
  Scenarios,      \* [arbitration, priority, plan, limit]: the arbitration
                  \* mechanism, the priority of queue 1, the admin commands
                  \* and configuration writes the host issues, and a bound
                  \* on the commands submitted in one behaviour
  MaxCommands     \* bound: the largest of these limits

Queues  == 0..2
Slots   == 0..(QueueSize - 1)
Vectors == 0..1
URGENT  == 0
MEDIUM  == 2
LOW     == 3

(* What a host may plan.  It aborts I/O commands only: an answer carries   *)
(* no status here.                                                         *)
Plans ==
  [op : {"config"}, request : {"enable", "disable", "shutdown"}] \union
  [op : {"createSQ"}, q : Queues \ {0}, cq : Queues,
   priority : {URGENT, MEDIUM, LOW}] \union
  [op : {"createCQ"}, q : Queues \ {0}, iv : Vectors] \union
  [op : {"deleteSQ", "deleteCQ"}, q : Queues \ {0}] \union
  [op : {"abort"}, q : Queues \ {0}, c : Nat] \union
  [op : {"coalesce"}, iv : Vectors, enable : BOOLEAN]

ASSUME ControllerAssumption ==
  /\ \A s \in Scenarios : /\ s.plan \subseteq Plans
                           /\ s.arbitration \in {"RR", "WRR"}
                           /\ s.priority \in {URGENT, MEDIUM, LOW}
                           /\ s.limit \in 0..MaxCommands
  /\ 0 \in Users /\ Users \subseteq Nat /\ IsFiniteSet(Users)
  /\ QueueSize \in Nat /\ QueueSize > 1 /\ Start \in 0..(QueueSize - 1)
  /\ {MaxRequest, Threshold, MaxCommands} \subseteq Nat

(* A driver does not use the number of a queue it deletes for another one: *)
(* transfers under way would meet the new queue.  The proofs assume it.    *)
NumbersUsedOnce ==
  \A s \in Scenarios : \A q \in Queues, p \in s.plan :
    /\ p.op = "createSQ" /\ p.q = q => [op |-> "deleteSQ", q |-> q] \notin s.plan
    /\ p.op = "createCQ" /\ p.q = q => [op |-> "deleteCQ", q |-> q] \notin s.plan

VARIABLES
  registers,   \* [ready, shutdown, arbitration], whether the host wrote
               \* them after its set-up, and the limit of the scenario
  sq,          \* ppSQueue: [live, head, tail, cqID, priority, mem]
  cq,          \* ppCQueue: [live, head, tail, phase, iv, ien, mem]
  fetching,    \* reads of submission entries in flight, oldest first
  lSQByUser,   \* per user, the staged entries
  rrUsers, lastUid, bootstrappedUsers, uidSQMap,
  lSQFIFO,     \* the deprecated FIFO
  running,     \* entries the subsystem works on
  lCQFIFO,     \* answers to post
  posting,     \* writes of completion entries in flight, oldest first
  sending,     \* vectors to raise, one set per round, oldest first
  events,      \* which of "work", "request", "completion" is scheduled
  handles,     \* handleRequest calls queued on a core
  requestCounter,
  aggregation, \* aggregationMap: [valid, pending, count, timed]
  credit,      \* the users pSubsystem->canServe accepts
  intr,        \* vectors whose interrupt is up
  \* the host
  plan,        \* admin commands it may still issue
  cmd,         \* the commands submitted, in order
  host,        \* [up, head, phase]: queues in use, known heads, phase
  answers,     \* per command, how often it was answered to the host
  \* history, for the properties
  gone,        \* commands whose submission queue was deleted
  twice,       \* commands answered from the deprecated FIFO
  coalesced,   \* vectors whose interrupts were ever coalesced
  broken       \* the code used a deleted object or ran into a panic

fetchVars == <<sq, fetching, lSQByUser, rrUsers, uidSQMap, lSQFIFO>>
pickVars  == <<lastUid, bootstrappedUsers, requestCounter, handles, credit>>
postVars  == <<cq, lCQFIFO, posting, sending, aggregation, intr>>
hostVars  == <<plan, cmd, host, answers>>
histVars  == <<gone, twice, coalesced>>
vars == <<registers, fetchVars, running, events, pickVars, postVars, hostVars,
          histVars, broken>>

-----------------------------------------------------------------------------
(* Queues. *)

NewSQ(cqid, priority) ==
  [live |-> TRUE, head |-> 0, tail |-> 0, cqID |-> cqid,
   priority |-> priority, mem |-> [i \in Slots |-> 0]]
NewCQ(iv, ien) ==
  [live |-> TRUE, head |-> 0, tail |-> 0, phase |-> TRUE, iv |-> iv,
   ien |-> ien,
   mem |-> [i \in Slots |-> [c |-> 0, phase |-> FALSE]]]

Inc(i) == (i + 1) % QueueSize
Occupied(q, i) == IF q.head <= q.tail THEN q.head <= i /\ i < q.tail
                  ELSE q.head <= i \/ i < q.tail
ItemCount(q) == IF q.tail >= q.head THEN q.tail - q.head
                ELSE QueueSize - q.head + q.tail

(* An entry staged, running or answered: command, queues and the head of   *)
(* the submission queue that its answer reports.                           *)
Wrapper(c, q) == [c |-> c, sq |-> q, cq |-> sq[q].cqID, head |-> sq[q].head]

(* A pair that exists at the beginning, Start entries into its first pass. *)
UsedSQ(q, priority) ==
  [NewSQ(q, priority) EXCEPT !.live = q < 2, !.head = Start, !.tail = Start]
UsedCQ(q) ==
  [NewCQ(0, TRUE) EXCEPT
     !.live = q < 2, !.head = Start, !.tail = Start,
     !.mem = [i \in Slots |-> [c |-> 0, phase |-> i < Start]]]
(* The entry of a vector whose coalescing was not set. *)
Unset == [valid |-> FALSE, pending |-> FALSE, count |-> 0, timed |-> FALSE]

Init ==
  /\ \E s \in Scenarios :
       /\ registers = [ready |-> TRUE, shutdown |-> FALSE, touched |-> FALSE,
                       arbitration |-> s.arbitration, limit |-> s.limit]
       /\ sq = [q \in Queues |->
                  UsedSQ(q, IF q = 0 THEN URGENT ELSE s.priority)]
       /\ plan = s.plan
  /\ cq = [q \in Queues |-> UsedCQ(q)]
  /\ fetching = <<>>
  /\ lSQByUser = [u \in Users |-> <<>>]
  /\ rrUsers = <<>> /\ lastUid = 0 /\ bootstrappedUsers = {}
  /\ uidSQMap = [u \in Users |-> {}]
  /\ lSQFIFO = <<>> /\ running = {}
  /\ lCQFIFO = <<>> /\ posting = <<>> /\ sending = <<>>
  /\ events = {"work"} /\ handles = 0 /\ requestCounter = 0
  /\ aggregation = [v \in Vectors |-> Unset]
  /\ credit = Users \ {0}
  /\ intr = {}
  /\ cmd = <<>>
  /\ host = [up |-> {0, 1}, head |-> [q \in Queues |-> Start],
             phase |-> [q \in Queues |-> TRUE]]
  /\ answers = [c \in 1..MaxCommands |-> 0]
  /\ gone = {} /\ twice = {} /\ coalesced = {} /\ broken = FALSE

-----------------------------------------------------------------------------
(* The host (external). *)

Outstanding(q) == {c \in 1..Len(cmd) :
                     /\ sq[cmd[c].q].cqID = q
                     /\ answers[c] = 0 /\ c \notin gone}

(* Write an entry and ring the tail doorbell.                              *)
Submit(q, op, uid) ==
  /\ q \in host.up /\ Len(cmd) < registers.limit
  /\ Inc(sq[q].tail) # host.head[q]
  /\ Cardinality(Outstanding(sq[q].cqID)) < QueueSize - 1
  /\ cmd' = Append(cmd, [q |-> q, op |-> op, uid |-> uid])
  /\ sq' = [sq EXCEPT ![q].mem[sq[q].tail] = Len(cmd) + 1,
                      ![q].tail = Inc(sq[q].tail)]
  /\ UNCHANGED <<registers, fetching, lSQByUser, rrUsers, uidSQMap, lSQFIFO,
                 running, events, pickVars, postVars, answers, histVars,
                 broken>>

SubmitIO == \E q \in Queues \ {0}, u \in Users :
  /\ Submit(q, [op |-> "io"], u)
  /\ UNCHANGED <<plan, host>>

(* A driver stops using a submission queue when it deletes it.             *)
SubmitAdmin == \E op \in {p \in plan : p.op # "config"} :
  /\ Submit(0, op, 0)
  /\ plan' = plan \ {op}
  /\ host' = IF op.op = "deleteSQ" THEN [host EXCEPT !.up = @ \ {op.q}]
             ELSE host

(* Is the entry at the head of completion queue q new for the host?        *)
Visible(q) == cq[q].live /\ cq[q].mem[cq[q].head].phase = host.phase[q]

(* clearInterrupt and updateInterrupt: the interrupt stays up while a      *)
(* queue of the vector has entries.                                        *)
AlwaysClear(iv, queues) == intr \ {iv}
AfterClear(iv, queues) ==
  IF \E q \in Queues : queues[q].live /\ queues[q].iv = iv
                       /\ ItemCount(queues[q]) > 0
  THEN intr \union {iv} ELSE intr \ {iv}

(* Take the answer at the head of a completion queue and ring the head     *)
(* doorbell of the queue.                                                  *)
Consume(q) ==
  /\ Visible(q) /\ (cq[q].ien => cq[q].iv \in intr)
  /\ LET e   == cq[q].mem[cq[q].head]
         new == [cq EXCEPT ![q].head = Inc(@)]
         op  == cmd[e.c].op
     IN /\ answers' = [answers EXCEPT ![e.c] = @ + 1]
        /\ cq' = new
        /\ host' = [host EXCEPT
                      !.phase[q] = IF new[q].head = 0 THEN ~@ ELSE @,
                      !.head = [s \in Queues |->
                                  IF s = e.sq THEN e.head
                                  ELSE IF op.op = "createSQ" /\ s = op.q
                                  THEN 0 ELSE @[s]],
                      !.up = IF op.op = "createSQ" THEN @ \union {op.q}
                             ELSE @]
        /\ intr' = IF cq[q].ien THEN AfterClear(cq[q].iv, new) ELSE intr
  /\ UNCHANGED <<registers, fetchVars, running, events, pickVars, lCQFIFO,
                 posting, sending, aggregation, plan, cmd, histVars, broken>>

(* writeRegister, the controller configuration: shutdown notification,     *)
(* enable, disable.                                                        *)
WriteConfig(request) ==
  /\ [op |-> "config", request |-> request] \in plan
  /\ plan' = plan \ {[op |-> "config", request |-> request]}
  /\ registers' = [registers EXCEPT
                     !.touched = TRUE,
                     !.ready = request # "disable",
                     !.shutdown = @ \/ request = "shutdown"]
  /\ events' = CASE request = "enable"   -> events \union {"work"}
                 [] request = "disable"  -> events \ {"work"}
                 [] request = "shutdown" -> events
  /\ UNCHANGED <<fetchVars, running, pickVars, postVars, cmd, host, answers,
                 histVars, broken>>

(* The feature commands and the subsystem give the users credit            *)
(* (external, module CreditScheduler).                                     *)
Refill(u) ==
  /\ u \notin credit /\ u # 0
  /\ credit' = credit \union {u}
  /\ UNCHANGED <<registers, fetchVars, running, events, lastUid,
                 bootstrappedUsers, requestCounter, handles, postVars,
                 hostVars, histVars, broken>>

-----------------------------------------------------------------------------
(* Fetching. *)

(* The queues a round of collectSQueue visits.  Under weighted round robin *)
(* the loop over the low-priority queues tests for the medium priority.    *)
Collected ==
  {q \in Queues : /\ sq[q].live
                  /\ registers.arbitration = "WRR" => sq[q].priority # LOW}

(* collectSQueue: every queue is emptied, an entry of each in turn, admin  *)
(* and urgent queues first under weighted round robin.  The k-th entry of  *)
(* queue q is <<k, q>>.                                                    *)
Items == {a \in (1..QueueSize) \X Queues :
            a[2] \in Collected /\ a[1] <= ItemCount(sq[a[2]])}

Class(q) == IF registers.arbitration = "RR" \/ q = 0 THEN 0
            ELSE IF sq[q].priority = URGENT THEN 1 ELSE 2

Before(a, b) ==
  \/ Class(a[2]) < Class(b[2])
  \/ /\ Class(a[2]) = Class(b[2])
     /\ a[1] < b[1] \/ (a[1] = b[1] /\ a[2] <= b[2])

(* The item that i items do not come after, itself included.               *)
InTurn(i) == CHOOSE a \in Items : Cardinality({b \in Items : Before(b, a)}) = i

(* An entry is read from slot "at"; "last" marks the end of the round.     *)
Fetches ==
  [i \in 1..Cardinality(Items) |->
     [q |-> InTurn(i)[2],
      at |-> (sq[InTurn(i)[2]].head + InTurn(i)[1] - 1) % QueueSize,
      last |-> i = Cardinality(Items)]]

(* The function that work passes on runs when the round is fetched, and a  *)
(* core gets a call of handleRequest.                                      *)
Fetched(fifo, scheduled) ==
  /\ handles' = handles + 1
  /\ requestCounter' = 0
  /\ registers' = [registers EXCEPT !.ready = @ /\ ~registers.shutdown,
                                    !.shutdown = FALSE]
  /\ events' = IF registers.shutdown THEN scheduled \ {"work"} ELSE scheduled
  /\ lSQFIFO' = IF registers.shutdown THEN <<>> ELSE fifo

Work ==
  /\ "work" \in events /\ ~broken
  /\ IF registers.ready
     THEN /\ fetching' = fetching \o Fetches
          /\ sq' = [q \in Queues |-> IF q \in Collected
                                     THEN [sq[q] EXCEPT !.head = sq[q].tail]
                                     ELSE sq[q]]
     ELSE UNCHANGED <<fetching, sq>>
  /\ IF registers.ready /\ Fetches = <<>>
     THEN Fetched(lSQFIFO, events \ {"work"})
     ELSE /\ events' = events \ {"work"}
          /\ UNCHANGED <<registers, handles, requestCounter, lSQFIFO>>
  /\ UNCHANGED <<lSQByUser, rrUsers, uidSQMap, running, lastUid,
                 bootstrappedUsers, credit, postVars, hostVars, histVars,
                 broken>>

(* doRead of checkQueue: the entry was read.  The queue object is used     *)
(* again, so a queue deleted meanwhile is a use after free.                *)
Stage(e, u) ==
  /\ lSQByUser' = [lSQByUser EXCEPT ![u] = Append(@, e)]
  /\ uidSQMap' = [uidSQMap EXCEPT ![u] = @ \union {e.sq}]
  /\ rrUsers' = IF Contains(rrUsers, u) THEN rrUsers ELSE Append(rrUsers, u)

ReadDone ==
  /\ fetching # <<>> /\ ~broken
  /\ LET f == Head(fetching)
         c == sq[f.q].mem[f.at]
         e == Wrapper(c, f.q)
     IN IF ~sq[f.q].live
        THEN /\ broken' = TRUE
             /\ UNCHANGED <<registers, fetchVars, events, handles,
                            requestCounter>>
        ELSE /\ fetching' = Tail(fetching)
             /\ Stage(e, cmd[c].uid)
             /\ IF f.last THEN Fetched(Append(lSQFIFO, e), events)
                ELSE /\ lSQFIFO' = Append(lSQFIFO, e)
                     /\ UNCHANGED <<registers, events, handles,
                                    requestCounter>>
             /\ UNCHANGED <<sq, broken>>
  /\ UNCHANGED <<running, lastUid, bootstrappedUsers, credit, postVars,
                 hostVars, histVars>>

-----------------------------------------------------------------------------
(* Picking the next request. *)

(* The users in turn, from the one after lastUid.                          *)
Turn(i) ==
  LET n     == Len(rrUsers)
      start == IF lastUid # 0 /\ Contains(rrUsers, lastUid)
               THEN CHOOSE k \in 1..n : rrUsers[k] = lastUid ELSE 0
  IN rrUsers[((start + i - 1) % n) + 1]

(* The first pick of a user needs no credit.                               *)
Servable(u) == /\ lSQByUser[u] # <<>>
               /\ u \notin bootstrappedUsers \/ u \in credit

(* The user whose request is selected, as a set of at most one.            *)
Selected ==
  IF lSQByUser[0] # <<>> THEN {0}
  ELSE LET able == {i \in 1..Len(rrUsers) : Servable(Turn(i))}
       IN IF able = {} THEN {} ELSE {Turn(Min(able))}

(* The entries of a user when the selected request is taken.               *)
StagedRunTwice(u) == lSQByUser[u]
StagedAfter(u) == IF u \in Selected THEN Tail(lSQByUser[u]) ELSE lSQByUser[u]

(* handleRequest, called from a core or by requestEvent.                   *)
HandleRequest(byEvent) ==
  /\ ~broken
  /\ IF byEvent THEN "request" \in events /\ UNCHANGED handles
     ELSE handles > 0 /\ handles' = handles - 1
  /\ running' = running \union {Head(lSQByUser[u]) : u \in Selected}
  /\ lSQByUser' = [u \in Users |-> StagedAfter(u)]
  /\ IF lSQByUser[0] = <<>> /\ Selected # {}
     THEN LET u == CHOOSE u \in Selected : TRUE
          IN /\ lastUid' = u
             /\ bootstrappedUsers' = bootstrappedUsers \union {u}
             /\ credit' \in {credit, credit \ {u}}
     ELSE UNCHANGED <<lastUid, bootstrappedUsers, credit>>
  /\ LET rest == IF byEvent THEN events \ {"request"} ELSE events
         more == \E u \in Users : lSQByUser'[u] # <<>>
         next == IF Selected # {} /\ more /\ requestCounter + 1 < MaxRequest
                 THEN "request" ELSE "work"
     IN events' = rest \union {next}
  /\ requestCounter' = requestCounter + 1
  /\ UNCHANGED <<registers, sq, fetching, rrUsers, uidSQMap, lSQFIFO,
                 postVars, hostVars, histVars, broken>>
-----------------------------------------------------------------------------
(* Answers. *)

(* submit: panics when the completion queue is gone.  "crash" is a use of  *)
(* a deleted queue by the caller.                                          *)
Answer(list, crash) ==
  /\ lCQFIFO' = lCQFIFO \o list
  /\ events' = IF list = <<>> THEN events ELSE events \union {"completion"}
  /\ broken' = (crash \/ \E i \in DOMAIN list : ~cq[list[i].cq].live)

(* deleteSQueue: after an entry of the FIFO is answered and erased, the    *)
(* loop steps over the one behind it.  A turn has the entries kept, those  *)
(* answered, and whether the next one is stepped over.                     *)
Turned(s, e, q) ==
  IF ~s.skip /\ e.sq = q
  THEN [kept |-> s.kept, done |-> Append(s.done, e), skip |-> TRUE]
  ELSE [kept |-> Append(s.kept, e), done |-> s.done, skip |-> FALSE]

(* One pass over the FIFO, after "done" entries were answered before.      *)
Sweep(fifo, done, q) ==
  LET turn[n \in 0..Len(fifo)] ==
        IF n = 0 THEN [kept |-> <<>>, done |-> done, skip |-> FALSE]
        ELSE Turned(turn[n - 1], fifo[n], q)
  IN turn[Len(fifo)]

(* When the last entry is erased the iterator moves past the end: the loop *)
(* stops or, with a circular list, starts over.                            *)
Again(s, q) == IF s.skip THEN Sweep(s.kept, s.done, q) ELSE s
Sweeps(fifo, q) ==
  LET pass[n \in 0..Len(fifo)] ==
        IF n = 0 THEN Sweep(fifo, <<>>, q) ELSE Again(pass[n - 1], q)
  IN {pass[n] : n \in 0..Len(fifo)}

(* A list without its entries at some positions.                           *)
Without(list, at) ==
  LET rest[n \in 0..Len(list)] ==
        IF n = 0 THEN <<>>
        ELSE IF n \in at THEN rest[n - 1] ELSE Append(rest[n - 1], list[n])
  IN rest[Len(list)]

(* purgeSQFromUserQueues: users without entries and queues are forgotten.  *)
Purge(q) ==
  LET own(u)  == {i \in DOMAIN lSQByUser[u] : lSQByUser[u][i].sq = q}
      rest(u) == Without(lSQByUser[u], own(u))
      drop    == {u \in Users : /\ uidSQMap[u] # {}
                                /\ uidSQMap[u] \subseteq {q}
                                /\ rest(u) = <<>>}
  IN /\ lSQByUser' = [u \in Users |-> rest(u)]
     /\ uidSQMap' = [u \in Users |-> uidSQMap[u] \ {q}]
     /\ rrUsers' = Without(rrUsers, {i \in DOMAIN rrUsers : rrUsers[i] \in drop})
     /\ bootstrappedUsers' = bootstrappedUsers \ drop

(* The commands of a submission queue that are not answered yet.           *)
Lost(q) == {c \in 1..Len(cmd) : cmd[c].q = q /\ answers[c] = 0}

DeleteSQ(e, q) ==
  /\ sq[q].live /\ q > 0
  /\ \E s \in Sweeps(lSQFIFO, q) :
       /\ lSQFIFO' = s.kept
       /\ Answer([i \in DOMAIN s.done |->
                    [s.done[i] EXCEPT !.head = sq[q].head]] \o <<e>>, FALSE)
       /\ twice' = twice \union {s.done[i].c : i \in DOMAIN s.done}
  /\ sq' = [sq EXCEPT ![q].live = FALSE]
  /\ Purge(q)
  /\ gone' = gone \union Lost(q)
  /\ UNCHANGED <<cq, aggregation, coalesced>>

CreateSQ(e, op) ==
  /\ ~sq[op.q].live /\ cq[op.cq].live
  /\ sq' = [sq EXCEPT ![op.q] = NewSQ(op.cq, op.priority)]
  /\ Answer(<<e>>, FALSE)
  /\ UNCHANGED <<cq, lSQByUser, uidSQMap, rrUsers, bootstrappedUsers, lSQFIFO,
                 aggregation, gone, twice, coalesced>>

(* A creation that is refused is never answered: the response that gets    *)
(* the error is a copy and the callback of the page list does not run.     *)
RefuseCreate(e, op) ==
  /\ \/ op.op = "createSQ" /\ (sq[op.q].live \/ ~cq[op.cq].live)
     \/ op.op = "createCQ" /\ cq[op.q].live
  /\ gone' = gone \union {e.c}
  /\ UNCHANGED <<sq, cq, lSQByUser, uidSQMap, rrUsers, bootstrappedUsers,
                 lSQFIFO, lCQFIFO, events, broken, aggregation, twice,
                 coalesced>>

CreateCQ(e, op) ==
  /\ ~cq[op.q].live
  /\ cq' = [cq EXCEPT ![op.q] = NewCQ(op.iv, TRUE)]
  /\ \E p \in BOOLEAN :     \* info.pending is not initialised
       aggregation' = [aggregation EXCEPT ![op.iv] = [Unset EXCEPT !.pending = p]]
  /\ Answer(<<e>>, FALSE)
  /\ UNCHANGED <<sq, lSQByUser, uidSQMap, rrUsers, bootstrappedUsers, lSQFIFO,
                 gone, twice, coalesced>>

(* aggregationMap has an entry for the vectors of the completion queues    *)
(* other than the admin's.                                                 *)
Using(v) == {i \in Queues \ {0} : cq[i].live /\ cq[i].iv = v}

(* With the last queue of a vector goes the entry of the vector.           *)
DeleteCQ(e, q) ==
  /\ cq[q].live /\ q > 0 /\ \A s \in Queues \ {0} : sq[s].live => sq[s].cqID # q
  /\ cq' = [cq EXCEPT ![q].live = FALSE]
  /\ aggregation' = IF Using(cq[q].iv) = {q} THEN [aggregation EXCEPT ![cq[q].iv] = Unset]
                    ELSE aggregation
  /\ Answer(<<e>>, FALSE)
  /\ UNCHANGED <<sq, lSQByUser, uidSQMap, rrUsers, bootstrappedUsers, lSQFIFO,
                 gone, twice, coalesced>>

(* abort: looks in the deprecated FIFO only, where a command stays after   *)
(* it was run.                                                             *)
Abort(e, op) ==
  LET at == {i \in DOMAIN lSQFIFO : lSQFIFO[i].c = op.c /\ lSQFIFO[i].sq = op.q}
  IN /\ IF at = {}
        THEN Answer(<<e>>, FALSE) /\ UNCHANGED <<lSQFIFO, twice>>
        ELSE LET w == lSQFIFO[Min(at)] IN
             /\ lSQFIFO' = Without(lSQFIFO, {Min(at)})
             /\ twice' = twice \union {w.c}
             /\ Answer(<<[w EXCEPT !.head = sq[op.q].head], e>>,
                       ~sq[op.q].live)
     /\ UNCHANGED <<sq, cq, lSQByUser, uidSQMap, rrUsers, bootstrappedUsers,
                    aggregation, gone, coalesced>>

(* setCoalescing: nothing happens for a vector without an entry. *)
SetCoalescing(e, op) ==
  /\ IF Using(op.iv) = {} THEN UNCHANGED <<aggregation, coalesced>>
     ELSE /\ aggregation' = [aggregation EXCEPT ![op.iv] = [Unset EXCEPT !.valid = op.enable]]
          /\ coalesced' = coalesced \union {op.iv}
  /\ Answer(<<e>>, FALSE)
  /\ UNCHANGED <<sq, cq, lSQByUser, uidSQMap, rrUsers, bootstrappedUsers,
                 lSQFIFO, gone, twice>>

(* Any other command, and a deletion that is refused, is answered.         *)
JustAnswer(e, op) ==
  /\ \/ op.op = "io"
     \/ op.op = "deleteSQ" /\ ~sq[op.q].live
     \/ op.op = "deleteCQ" /\ (~cq[op.q].live \/ \E s \in Queues \ {0} :
                                 sq[s].live /\ sq[s].cqID = op.q)
  /\ Answer(<<e>>, FALSE)
  /\ UNCHANGED <<sq, cq, lSQByUser, uidSQMap, rrUsers, bootstrappedUsers,
                 lSQFIFO, aggregation, gone, twice, coalesced>>

(* The subsystem runs an entry and answers it.                             *)
Finish(e) ==
  /\ ~broken
  /\ running' = running \ {e}
  /\ LET op == cmd[e.c].op IN
     \/ op.op = "deleteSQ" /\ DeleteSQ(e, op.q)
     \/ op.op = "createSQ" /\ CreateSQ(e, op)
     \/ RefuseCreate(e, op)
     \/ op.op = "createCQ" /\ CreateCQ(e, op)
     \/ op.op = "deleteCQ" /\ DeleteCQ(e, op.q)
     \/ op.op = "abort" /\ Abort(e, op)
     \/ op.op = "coalesce" /\ SetCoalescing(e, op)
     \/ JustAnswer(e, op)
  /\ UNCHANGED <<registers, fetching, lastUid, requestCounter, handles,
                 credit, posting, sending, intr, hostVars>>
-----------------------------------------------------------------------------
(* Posting. *)

(* CQueue::setData: the queue after an entry, and whether it is full.      *)
KeptPhase(q) == [q EXCEPT !.tail = Inc(@)]
SetData(q) == [q EXCEPT !.tail = Inc(@),
                        !.phase = IF Inc(q.tail) = 0 THEN ~@ ELSE @]
FullTooEarly(q) == Inc(Inc(q.tail)) = q.head
Overflow(q) == Inc(q.tail) = q.head

(* CQueue::setData and the vector to raise, for one answer.  A turn has    *)
(* the queues, the aggregation, the windows still open, the vectors to     *)
(* raise, the writes, and whether a panic was met.                         *)
PostOne(s, e) ==
  LET q    == s.cq[e.cq]
      a    == s.agg[q.iv]
      hold == /\ e.cq > 0 /\ a.valid
              /\ q.iv \in s.open /\ a.count + 1 <= Threshold
  IN [cq   |-> [s.cq EXCEPT ![e.cq] = SetData(q)],
      agg  |-> IF ~q.ien \/ e.cq = 0 \/ ~a.valid THEN s.agg
               ELSE IF hold
               THEN [s.agg EXCEPT ![q.iv] = [a EXCEPT !.count = a.count + 1,
                                                      !.pending = TRUE]]
               ELSE [s.agg EXCEPT ![q.iv] = [a EXCEPT !.count = 0,
                                                      !.timed = TRUE]],
      open |-> IF q.ien /\ ~hold /\ e.cq > 0 /\ a.valid
               THEN s.open \union {q.iv} ELSE s.open,
      ivs  |-> IF q.ien /\ ~hold THEN s.ivs \union {q.iv} ELSE s.ivs,
      writes |-> Append(s.writes,
                   [cq |-> e.cq, at |-> q.tail,
                    val |-> [c |-> e.c, sq |-> e.sq, head |-> e.head,
                             phase |-> q.phase]]),
      bad  |-> s.bad \/ ~q.live \/ Overflow(q)]

(* The loop of completion over lCQFIFO. *)
Posted(open) ==
  LET turn[n \in 0..Len(lCQFIFO)] ==
        IF n = 0 THEN [cq |-> cq, agg |-> aggregation, open |-> open,
                       ivs |-> {}, writes |-> <<>>, bad |-> FALSE]
        ELSE PostOne(turn[n - 1], lCQFIFO[n])
  IN turn[Len(lCQFIFO)]

(* completion: post every answer and collect the vectors whose time has    *)
(* come.  With no answer to post the collected vectors are dropped.        *)
Completion ==
  /\ "completion" \in events /\ ~broken
  /\ \E open \in SUBSET {v \in Vectors : /\ aggregation[v].valid
                                         /\ aggregation[v].timed} :
       LET s   == Posted(open)
           due == {v \in Vectors : /\ s.agg[v].valid /\ s.agg[v].pending
                                   /\ v \notin s.open}
           n   == Len(s.writes)
       IN /\ cq' = s.cq
          /\ aggregation' = [v \in Vectors |->
               IF v \in due THEN [valid |-> TRUE, pending |-> FALSE,
                                  count |-> 0, timed |-> TRUE]
               ELSE s.agg[v]]
          /\ posting' = posting \o
               [i \in 1..n |-> [write |-> s.writes[i], last |-> i = n,
                                ivs |-> IF i = n THEN s.ivs \union due
                                        ELSE {}]]
          /\ broken' = s.bad
  /\ lCQFIFO' = <<>>
  /\ events' = events \ {"completion"}
  /\ UNCHANGED <<registers, fetchVars, running, pickVars, sending, intr,
                 hostVars, histVars>>

(* A completion entry is in host memory; after the last one of its round a *)
(* core gets the function that raises the interrupts.                      *)
PostDone ==
  /\ posting # <<>> /\ ~broken
  /\ LET p == Head(posting) IN
     /\ cq' = [cq EXCEPT ![p.write.cq].mem[p.write.at] = p.write.val]
     /\ sending' = IF p.last THEN Append(sending, p.ivs) ELSE sending
     /\ broken' = ~cq[p.write.cq].live
  /\ posting' = Tail(posting)
  /\ UNCHANGED <<registers, fetchVars, running, events, pickVars, lCQFIFO,
                 aggregation, intr, hostVars, histVars>>

(* The function send of completion, with reserveCompletion.                *)
Send ==
  /\ sending # <<>> /\ ~broken
  /\ intr' = intr \union Head(sending)
  /\ sending' = Tail(sending)
  /\ events' = IF \/ lCQFIFO # <<>>
                  \/ \E v \in Vectors : aggregation[v].valid
                                        /\ aggregation[v].pending
               THEN events \union {"completion"} ELSE events
  /\ UNCHANGED <<registers, fetchVars, running, pickVars, cq, lCQFIFO,
                 posting, aggregation, hostVars, histVars, broken>>

-----------------------------------------------------------------------------
Host == \/ SubmitIO \/ SubmitAdmin
        \/ \E q \in Queues : Consume(q)
        \/ \E r \in {"enable", "disable", "shutdown"} : WriteConfig(r)
        \/ \E u \in Users : Refill(u)

Next == \/ ~broken /\ Host
        \/ Work \/ ReadDone
        \/ \E b \in BOOLEAN : HandleRequest(b)
        \/ \E e \in running : Finish(e)
        \/ Completion \/ PostDone \/ Send

(* Transfers end, the driver serves interrupts and credit is refilled in   *)
(* every period: weak fairness of these steps.  That a scheduled event     *)
(* fires, a core runs what is queued and a running command ends is said of *)
(* the state: only its own step takes the event, the call or the command   *)
(* away, so it is not there for ever.                                      *)
Fairness ==
  /\ WF_vars(ReadDone) /\ WF_vars(PostDone) /\ WF_vars(Send)
  /\ WF_vars(~broken /\ \E q \in Queues : Consume(q))
  /\ WF_vars(~broken /\ \E u \in Users : Refill(u))
  /\ \A e \in {"work", "request", "completion"} :
       []<>(broken \/ e \notin events)
  /\ []<>(broken \/ handles = 0)
  /\ []<>(broken \/ running = {})

Spec == Init /\ [][Next]_vars /\ Fairness

-----------------------------------------------------------------------------
(* Properties *)

(* How often a command is somewhere between its submission and the host's  *)
(* reading of its answer.                                                  *)
InSeq(list, c) == Cardinality({i \in DOMAIN list : list[i].c = c})
Waiting(c) ==
  LET q == sq[cmd[c].q] IN
  Cardinality({i \in Slots : q.live /\ Occupied(q, i) /\ q.mem[i] = c})
Fetching(c) ==
  Cardinality({i \in DOMAIN fetching :
                 sq[fetching[i].q].mem[fetching[i].at] = c})
Unwritten(q, i) ==
  \E j \in DOMAIN posting : posting[j].write.cq = q /\ posting[j].write.at = i
InHostMemory(c) ==
  Cardinality({s \in Queues \X Slots :
                 LET q == cq[s[1]] IN
                 /\ q.live /\ Occupied(q, s[2]) /\ q.mem[s[2]].c = c
                 /\ ~Unwritten(s[1], s[2])})
Count(c) ==
  Waiting(c) + Fetching(c) + InSeq(lSQByUser[cmd[c].uid], c)
  + Cardinality({e \in running : e.c = c}) + InSeq(lCQFIFO, c)
  + Cardinality({i \in DOMAIN posting : posting[i].write.val.c = c})
  + InHostMemory(c) + answers[c]

(* Every command the host submitted is in exactly one place of the         *)
(* controller or answered exactly once, through the ring buffers, the      *)
(* DMA of entries, the staging per user and the completion rounds;         *)
(* commands of deleted queues are answered at most once, and only those    *)
(* found in the deprecated FIFO may be answered twice.                     *)
EachOnce ==
  ~broken => \A c \in 1..Len(cmd) :
     IF c \in twice THEN Count(c) <= 2
     ELSE IF c \in gone THEN Count(c) <= 1
     ELSE Count(c) = 1

(* A driver that keeps within its completion queues and deletes no queue   *)
(* never makes the controller run into the panic of a full completion      *)
(* queue or use a deleted queue, unless a command was answered twice.      *)
NoPanic == broken => gone # {} \/ twice # {}
              \/ \E c \in 1..Len(cmd) : cmd[c].op.op = "deleteCQ"

(* An answer in host memory on a queue with interrupts enabled has its     *)
(* interrupt up or on the way, whatever other queue of the same vector the *)
(* host has just emptied, unless the vector was coalesced.                 *)
Signalled ==
  \A q \in Queues :
    (Visible(q) /\ cq[q].ien /\ cq[q].iv \notin coalesced /\ ~broken) =>
      \/ cq[q].iv \in intr
      \/ \E i \in DOMAIN posting : cq[q].iv \in posting[i].ivs
      \/ \E i \in DOMAIN sending : cq[q].iv \in sending[i]

(* Commands of which nobody promises an answer.                            *)
Excused(c) ==
  \/ broken \/ c \in gone \/ registers.touched
  \/ cq[sq[cmd[c].q].cqID].iv \in coalesced
  \/ registers.arbitration = "WRR" /\ sq[cmd[c].q].priority = LOW

(* Every command is answered in the end, of every user, although the       *)
(* controller picks only users with credit and the work event, the         *)
(* request event and the completion event each re-arm one another.         *)
Served ==
  \A c \in 1..MaxCommands :
    (c \in DOMAIN cmd) ~>
      (c \in DOMAIN cmd /\ (answers[c] > 0 \/ Excused(c)))
=============================================================================
