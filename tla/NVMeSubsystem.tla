--------------------------- MODULE NVMeSubsystem ---------------------------
(***************************************************************************)
(* The NVM subsystem (hil/nvme/subsystem.cc) and its namespaces            *)
(* (hil/nvme/namespace.cc): admin commands, allocation of logical pages to *)
(* namespaces, and the I/O commands, each of which is a chain of callbacks *)
(* of the cores, the DMA engine and the HIL.                               *)
(*                                                                         *)
(* A behaviour submits the commands of one workload, in order but without  *)
(* waiting for answers.  A callback that was started runs at any later     *)
(* time.  What the code does with a freed object or a null pointer is      *)
(* undefined: it goes on as before or it ends the program (crashed).       *)
(***************************************************************************)
EXTENDS Integers, Sequences, FiniteSets, SequencesExt, FiniteSetsExt

CONSTANTS
  TotalPages,      \* totalLogicalPages
  PageSize,        \* logicalPageSize
  LBASize,         \* lbaSize: the sequence of sizes of the formats
  AllNamespaces,   \* NSID_ALL
  MaxEntries,      \* cfgdata.maxQueueEntry
  MaxQueues,       \* NVME_MAX_IO_SQUEUE and NVME_MAX_IO_CQUEUE
  Workloads        \* records [namespaces, format, commands]

VARIABLES
  commands,      \* the commands of this behaviour
  submitted,     \* how many of them were submitted
  lNamespaces,   \* the list, of indices of "object"
  object,        \* every Namespace object made so far
  allocated,     \* allocatedLogicalPages
  context,       \* per command: what it waits for and what its context holds
  queueAllocated, \* the answer to "number of queues", -1: never set
  setThis,       \* the object that isc_set's static dmaDone captured last
  answers,       \* per command, how often it was answered
  crashed,       \* the program ended
  log,           \* history: the answered writes, in order
  touched,       \* history: [ns, from, to, inside] of page ranges sent to HIL
  mixed          \* history: two isc_set commands met in the static dmaDone

vars == <<commands, submitted, lNamespaces, object, allocated, context,
          queueAllocated, setThis, answers, crashed, log, touched, mixed>>

settings == <<commands, queueAllocated>>

Commands == DOMAIN commands
NoDisk == <<>>

(* The disk image: MemDisk, a table of the blocks that were written; the   *)
(* content of a block is the command that wrote it.                        *)
DiskRead(disk, first, n) ==
  [b \in first..(first + n - 1) |->
     IF b \in DOMAIN disk.table THEN disk.table[b] ELSE 0]
DiskWriteShort(disk, first, n, c) ==
  [disk EXCEPT !.table =
     [b \in DOMAIN @ \union (first..(first + n - 2)) |->
        IF b \in first..(first + n - 2) THEN c ELSE @[b]]]
DiskWrite(disk, first, n, c) ==
  [disk EXCEPT !.table =
     [b \in DOMAIN @ \union (first..(first + n - 1)) |->
        IF b \in first..(first + n - 1) THEN c ELSE @[b]]]
NewDisk == [table |-> <<>>]
-----------------------------------------------------------------------------
(* Namespaces. *)

Live == Range(lNamespaces)
Ranges(list, obj) == {[slpn |-> obj[i].slpn, nlp |-> obj[i].nlp] : i \in Range(list)}

(* createNamespace divides before it multiplies. *)
Requested(size, format) == (size \div PageSize) * LBASize[format]

(* "Invert": the free gaps are those that start at 0 or where a namespace  *)
(* ends, up to the next namespace.                                         *)
GapStarts(ranges) == {0} \union {r.slpn + r.nlp : r \in ranges}
GapLength(ranges, s) ==
  Min({r.slpn : r \in {q \in ranges : q.slpn >= s}} \union {TotalPages}) - s
FirstFit(ranges, n) == {s \in GapStarts(ranges) : GapLength(ranges, s) >= n}

(* createNamespace and Namespace::setData on [list, object, allocated];    *)
(* the list is kept sorted by identifier.                                  *)
CreateNamespace(s, nsid, size, format) ==
  LET n     == Requested(size, format)
      fits  == FirstFit(Ranges(s.list, s.object), n)
      new   == Len(s.object) + 1
      after == Cardinality({k \in DOMAIN s.list :
                              s.object[s.list[k]].nsid <= nsid})
  IN IF n > TotalPages - s.allocated \/ fits = {} \/ n = 0
     THEN [s EXCEPT !.ok = FALSE]
     ELSE [ok |-> TRUE,
           list |-> InsertAt(s.list, after + 1, new),
           allocated |-> s.allocated + n,
           object |-> Append(s.object,
             [nsid |-> nsid, slpn |-> Min(fits), nlp |-> n, size |-> size,
              format |-> format, attached |-> FALSE, disk |-> NewDisk,
              formatted |-> FALSE])]

(* Subsystem::init: the default namespaces, attached. *)
Initial(w) ==
  LET size == ((TotalPages * PageSize) \div LBASize[w.format]) \div w.namespaces
      step[n \in 0..w.namespaces] ==
        IF n = 0 THEN [ok |-> TRUE, list |-> <<>>, object |-> <<>>, allocated |-> 0]
        ELSE LET s == CreateNamespace(step[n - 1], n, size, w.format)
             IN [s EXCEPT !.object[Len(s.list)].attached = TRUE]
  IN step[w.namespaces]

(* What the configuration and the host provide: one of two sizes of a      *)
(* block and a page divides the other (both are powers of two), and a      *)
(* command names one of the formats that exist.                            *)
CommandTypes == [op : STRING, nsid : Nat, slba : Nat, nlb : Nat, size : Nat,
                 format : DOMAIN LBASize, valid : BOOLEAN]
Sane ==
  /\ TotalPages \in Nat /\ PageSize \in Nat \ {0} /\ LBASize \in Seq(Nat \ {0})
  /\ \A f \in DOMAIN LBASize :
       PageSize % LBASize[f] = 0 \/ LBASize[f] % PageSize = 0
  /\ \A w \in Workloads : /\ w.namespaces \in Nat \ {0}
                          /\ w.format \in DOMAIN LBASize
                          /\ w.commands \in Seq(CommandTypes)

NoContext == [on |-> {}, ns |-> 0, n |-> 0, buffer |-> FALSE, got |-> <<>>,
              floor |-> 0, id |-> 0]

Init ==
  \E w \in Workloads :
    LET s == Initial(w) IN
    /\ commands = w.commands /\ submitted = 0
    /\ lNamespaces = s.list /\ object = s.object /\ allocated = s.allocated
    /\ context = [c \in DOMAIN w.commands |-> NoContext]
    /\ answers = [c \in DOMAIN w.commands |-> 0]
    /\ queueAllocated = -1 /\ setThis = 0 /\ crashed = FALSE
    /\ log = <<>> /\ touched = {} /\ mixed = FALSE

(* The objects with an identifier, and the first of them in the list. *)
Named(nsid) == {k \in DOMAIN lNamespaces : object[lNamespaces[k]].nsid = nsid}
Find(nsid) == lNamespaces[Min(Named(nsid))]

(* namespaceManagement: the lowest identifier that the walk does not meet. *)
LowestFree ==
  1 + Max({n \in 0..Len(lNamespaces) :
             \A k \in 1..n : object[lNamespaces[k]].nsid = k})

(* convertUnit: the pages of a range of blocks. *)
FirstPage(o, slba) ==
  o.slpn + (IF LBASize[o.format] <= PageSize
            THEN slba \div (PageSize \div LBASize[o.format])
            ELSE slba * (LBASize[o.format] \div PageSize))
PageCount(o, slba, nlb) ==
  IF LBASize[o.format] <= PageSize
  THEN LET ratio == PageSize \div LBASize[o.format]
       IN (nlb + (slba % ratio) + ratio - 1) \div ratio
  ELSE nlb * (LBASize[o.format] \div PageSize)
-----------------------------------------------------------------------------
(* Submission. *)

Answer(c) == answers' = [answers EXCEPT ![c] = @ + 1]
WaitFor(c, on) == context' = [context EXCEPT ![c].on = on]

(* Subsystem::submitCommand, the part for commands that no admin handler   *)
(* processed: the namespace is looked up now and called by the core later, *)
(* except that for NSID_ALL the first of the list is taken then (ns = 0).  *)
Dispatched(c, k) ==
  LET nsid == commands[c].nsid
      ns == IF nsid = AllNamespaces THEN 0 ELSE Find(nsid)
  IN IF IF nsid = AllNamespaces THEN lNamespaces # <<>> ELSE Named(nsid) # {}
     THEN /\ context' = [context EXCEPT ![c].on = {"submit"}, ![c].ns = ns,
                                        ![c].floor = Len(log)]
          /\ answers' = [answers EXCEPT ![c] = @ + k]
     ELSE /\ answers' = [answers EXCEPT ![c] = @ + k + 1]
          /\ UNCHANGED context

IOCommands == {"read", "write", "compare", "flush", "iscSet", "iscGet", "trim"}

Fetched(c) == /\ ~crashed /\ c = submitted + 1 /\ c \in Commands
            /\ submitted' = c

SubmitDispatched(c) ==
  /\ Fetched(c) /\ commands[c].op \in IOCommands \union {"unknown"}
  /\ Dispatched(c, 0)
  /\ UNCHANGED <<settings, lNamespaces, object, allocated, setThis, crashed,
                 log, touched, mixed>>

(* getLogPage: the health log of one namespace is answered here and handed *)
(* to the namespace as well, which answers it again.                       *)
SubmitLogPage(c) ==
  /\ Fetched(c) /\ commands[c].op \in {"smart", "otherLog"}
  /\ IF commands[c].op = "otherLog" THEN Answer(c) /\ UNCHANGED context
     ELSE IF commands[c].nsid = AllNamespaces
     THEN WaitFor(c, {"transfer"}) /\ UNCHANGED answers
     ELSE Dispatched(c, 1)
  /\ UNCHANGED <<settings, lNamespaces, object, allocated, setThis, crashed,
                 log, touched, mixed>>

(* The admin commands that leave the namespaces alone.  Some are answered   *)
(* at once, some after a transfer or a queue's set-up; a queue that the    *)
(* controller refuses is never answered, nor is a wrong selector of        *)
(* namespaceManagement.  What the controller does is in NVMeController.    *)
Now(c) == Answer(c) /\ UNCHANGED <<context, queueAllocated>>
Later(c, data) == /\ context' = [context EXCEPT ![c].on = {"transfer"}, ![c].got = data]
                  /\ UNCHANGED <<answers, queueAllocated>>
Never(c) == UNCHANGED <<answers, context, queueAllocated>>

deleteSQueue(c) == Now(c)
deleteCQueue(c) == Now(c)
createSQueue(c) == CASE commands[c].size > MaxEntries -> Now(c)
                     [] commands[c].valid -> Later(c, <<>>)
                     [] OTHER -> Never(c)
createCQueue(c) == CASE commands[c].size > MaxEntries -> Now(c)
                     [] commands[c].valid -> Later(c, <<>>)
                     [] OTHER -> Never(c)
abort(c) == Now(c)

(* identify: one namespace that is attached (or merely allocated, "valid"  *)
(* being FALSE), and the list of the identifiers above a given one.        *)
fillIdentifyNamespace(o) == [size |-> o.size, format |-> o.format]
Shown(c) == SelectSeq(lNamespaces, LAMBDA i : commands[c].valid => object[i].attached)
identify(c) ==
  Later(c, LET at == SelectSeq(Shown(c), LAMBDA i : object[i].nsid = commands[c].nsid)
           IN [k \in DOMAIN at |-> fillIdentifyNamespace(object[at[k]])])
identifyList(c) ==
  IF commands[c].nsid >= AllNamespaces - 1 THEN Now(c)
  ELSE Later(c, LET over == SelectSeq(Shown(c), LAMBDA i : object[i].nsid > commands[c].nsid)
                IN [k \in DOMAIN over |-> object[over[k]].nsid])

(* setFeatures and getFeatures: the number of queues (size), cut to what   *)
(* the controller has.                                                     *)
setFeatures(c) ==
  /\ queueAllocated' = IF commands[c].valid THEN Min({commands[c].size, MaxQueues - 1})
                       ELSE queueAllocated
  /\ Answer(c) /\ UNCHANGED context
getFeatures(c) ==
  /\ context' = [context EXCEPT ![c].got = <<queueAllocated>>]
  /\ Answer(c) /\ UNCHANGED queueAllocated

SubmitAdmin(c) ==
  /\ Fetched(c)
  /\ \/ commands[c].op = "deleteSQ" /\ deleteSQueue(c)
     \/ commands[c].op = "deleteCQ" /\ deleteCQueue(c)
     \/ commands[c].op = "createSQ" /\ createSQueue(c)
     \/ commands[c].op = "createCQ" /\ createCQueue(c)
     \/ commands[c].op = "abort" /\ abort(c)
     \/ commands[c].op = "identify" /\ identify(c)
     \/ commands[c].op = "list" /\ identifyList(c)
     \/ commands[c].op = "setFeatures" /\ setFeatures(c)
     \/ commands[c].op = "getFeatures" /\ getFeatures(c)
     \/ commands[c].op = "badSelect" /\ Never(c)
  /\ UNCHANGED <<commands, lNamespaces, object, allocated, setThis, crashed,
                 log, touched, mixed>>

(* namespaceManagement, create: the identifier is chosen before the data   *)
(* of the command is read.                                                 *)
SubmitCreate(c) ==
  /\ Fetched(c) /\ commands[c].op = "create"
  /\ context' = IF commands[c].nsid # 0 THEN context
                ELSE [context EXCEPT ![c].on = {"info"}, ![c].id = LowestFree]
  /\ UNCHANGED <<settings, lNamespaces, object, allocated, setThis, answers,
                 crashed, log, touched, mixed>>

(* Its dmaDone: a wrong field changes the status, which a success of       *)
(* createNamespace leaves and a failure replaces; the namespace is created *)
(* all the same.                                                           *)
CreateDone(c) ==
  /\ ~crashed /\ "info" \in context[c].on
  /\ LET s == CreateNamespace([ok |-> TRUE, list |-> lNamespaces, object |-> object,
                               allocated |-> allocated],
                              context[c].id, commands[c].size, commands[c].format)
     IN /\ lNamespaces' = s.list /\ object' = s.object /\ allocated' = s.allocated
  /\ WaitFor(c, {}) /\ Answer(c)
  /\ UNCHANGED <<settings, submitted, setThis, crashed, log, touched, mixed>>

(* namespaceManagement, delete, with destroyNamespace: the pages given     *)
(* back are computed from the size the namespace advertises.               *)
GivenBackBlocks(o) == o.size \div PageSize + 1
GivenBack(o) == (o.size * LBASize[o.format]) \div PageSize
SubmitDelete(c) ==
  /\ Fetched(c) /\ commands[c].op = "delete"
  /\ LET nsid == commands[c].nsid IN
     IF Named(nsid) = {} THEN UNCHANGED <<lNamespaces, allocated>>
     ELSE /\ lNamespaces' = RemoveAt(lNamespaces, Min(Named(nsid)))
          /\ allocated' = allocated - GivenBack(object[Find(nsid)])
  /\ Answer(c)
  /\ UNCHANGED <<settings, object, context, setThis, crashed, log, touched, mixed>>

(* namespaceAttachment: the controller list is read first. *)
SubmitAttach(c) ==
  /\ Fetched(c) /\ commands[c].op \in {"attach", "detach"}
  /\ WaitFor(c, {"list of controllers"})
  /\ UNCHANGED <<settings, lNamespaces, object, allocated, setThis, answers,
                 crashed, log, touched, mixed>>
AttachDone(c) ==
  /\ ~crashed /\ "list of controllers" \in context[c].on
  /\ object' = IF ~commands[c].valid THEN object
               ELSE [i \in DOMAIN object |->
                       IF i \in Live /\ object[i].nsid = commands[c].nsid
                       THEN [object[i] EXCEPT !.attached = commands[c].op = "attach"]
                       ELSE object[i]]
  /\ WaitFor(c, {}) /\ Answer(c)
  /\ UNCHANGED <<settings, submitted, lNamespaces, allocated, setThis, crashed,
                 log, touched, mixed>>

(* formatNVM with Namespace::format: the namespace gets the size of the    *)
(* whole device, keeps its pages and loses its disk image at once; the     *)
(* format of the pages is a request to the HIL.  formatFinishedAt is the   *)
(* present, so that no command finds a format in progress.                 *)
SubmitFormat(c) ==
  /\ Fetched(c) /\ commands[c].op = "format"
  /\ LET nsid == commands[c].nsid  f == commands[c].format IN
     IF ~commands[c].valid \/ Named(nsid) = {}
     THEN Answer(c) /\ UNCHANGED <<object, context>>
     ELSE /\ object' = [object EXCEPT ![Find(nsid)] =
                          [@ EXCEPT !.format = f, !.disk = NoDisk, !.formatted = TRUE,
                                    !.size = (TotalPages * PageSize) \div LBASize[f]]]
          /\ WaitFor(c, {"transfer"}) /\ UNCHANGED answers
  /\ UNCHANGED <<settings, lNamespaces, allocated, setThis, crashed, log,
                 touched, mixed>>

(* The end of an identify, log page, format or queue creation. *)
TransferDone(c) ==
  /\ ~crashed /\ "transfer" \in context[c].on
  /\ WaitFor(c, {}) /\ Answer(c)
  /\ UNCHANGED <<settings, submitted, lNamespaces, object, allocated, setThis,
                 crashed, log, touched, mixed>>
-----------------------------------------------------------------------------
(* Namespaces at work. *)

Crash == /\ crashed' = TRUE
         /\ UNCHANGED <<settings, submitted, lNamespaces, object, allocated, context,
                        setThis, answers, log, touched, mixed>>

(* A callback that uses a destroyed namespace may end the program. *)
UseAfterDelete(c) ==
  /\ ~crashed /\ context[c].on # {}
  /\ \/ context[c].ns \notin Live \union {0}
     \/ context[c].ns = 0 /\ "submit" \in context[c].on /\ lNamespaces = <<>>
  /\ Crash

(* Namespace::submitCommand and the first part of each handler, up to the  *)
(* construction of the DMA list.                                           *)
NamespaceSubmit(c) ==
  /\ ~crashed /\ "submit" \in context[c].on
  /\ context[c].ns # 0 \/ lNamespaces # <<>>
  /\ LET cmd == commands[c]
         ns  == IF context[c].ns = 0 THEN Head(lNamespaces) ELSE context[c].ns
         go(on) == /\ context' = [context EXCEPT ![c].on = on, ![c].ns = ns]
                   /\ UNCHANGED answers
         end == WaitFor(c, {}) /\ Answer(c)
     IN CASE cmd.op = "unknown" -> end
          [] cmd.op = "smart" -> IF cmd.nsid = object[ns].nsid
                                 THEN go({"transfer"}) ELSE end
          [] ~object[ns].attached -> end
          [] cmd.op = "flush" -> go({"convert"})
          [] cmd.op = "trim" -> IF cmd.valid THEN go({"list"}) ELSE end
          [] OTHER -> IF cmd.nlb = 0 THEN end ELSE go({"list"})
  /\ UNCHANGED <<settings, submitted, lNamespaces, object, allocated, setThis,
                 crashed, log, touched, mixed>>

(* The second part of each handler: doRead, doISC or doTrim.  Here a read  *)
(* takes its data; the data of a write comes with the transfer, and the    *)
(* HIL works at the same time ("convert" is the core's work before it).    *)
(* The result of a kernel may have to wait for credit first, and isc_set   *)
(* and the ranges of a trim are transferred before the HIL is called.      *)
Work(on, buffer, got) == [on |-> on, buffer |-> buffer, got |-> got]
FromDisk(o, cmd) == IF o.disk = NoDisk THEN <<>> ELSE DiskRead(o.disk, cmd.slba, cmd.nlb)

write(o, cmd)    == Work({"convert", "dma"}, o.disk # NoDisk, <<>>)
read(o, cmd)     == Work({"convert", "dma"}, FALSE, FromDisk(o, cmd))
isc_get(granted) == Work({"convert", IF granted THEN "dma" ELSE "credit"}, FALSE, <<>>)
isc_set(o)       == Work({"dma"}, o.disk # NoDisk, <<>>)
compare(o, cmd)  == Work({"convert", "dma"}, FALSE, FromDisk(o, cmd))
datasetManagement == Work({"dma"}, FALSE, <<>>)

Handler(o, cmd, granted) ==
  CASE cmd.op = "write" -> write(o, cmd)
    [] cmd.op = "read" -> read(o, cmd)
    [] cmd.op = "iscGet" -> isc_get(granted)
    [] cmd.op = "iscSet" -> isc_set(o)
    [] cmd.op = "compare" -> compare(o, cmd)
    [] OTHER -> datasetManagement

Begin(c, granted) ==
  /\ ~crashed /\ "list" \in context[c].on
  /\ granted \/ commands[c].op = "iscGet"
  /\ LET cmd == commands[c]
         o   == object[context[c].ns]
         w   == Handler(o, cmd, granted)
     IN /\ context' = [context EXCEPT ![c].on = w.on, ![c].n = 0,
                                      ![c].buffer = w.buffer, ![c].got = w.got]
        /\ touched' = IF cmd.op \notin {"read", "write"} THEN touched
             ELSE touched \union
                  {[ns |-> context[c].ns, from |-> FirstPage(o, cmd.slba),
                    to |-> FirstPage(o, cmd.slba) + PageCount(o, cmd.slba, cmd.nlb),
                    inside |-> cmd.slba + cmd.nlb <= o.size /\ ~o.formatted]}
        /\ IF cmd.op = "iscSet"
           THEN /\ setThis' = context[c].ns
                /\ mixed' = (mixed \/ \E d \in Commands \ {c} :
                               /\ commands[d].op = "iscSet" /\ context[d].on # {}
                               /\ context[d].ns # context[c].ns)
           ELSE UNCHANGED <<setThis, mixed>>
  /\ UNCHANGED <<settings, submitted, lNamespaces, object, allocated, answers,
                 crashed, log>>

(* resumeThunk: the scheduler granted the credit. *)
Resume(c) ==
  /\ ~crashed /\ "credit" \in context[c].on
  /\ WaitFor(c, (context[c].on \ {"credit"}) \union {"dma"})
  /\ UNCHANGED <<settings, submitted, lNamespaces, object, allocated, setThis,
                 answers, crashed, log, touched, mixed>>

(* Subsystem::read and its like after the core: the HIL gets the request   *)
(* and req_record looks the command up; it asserts that it is there, which *)
(* it never is for a compare (needRecord).  The record of two commands     *)
(* submitted in the same tick is one (a FIXME of the source): submissions  *)
(* here have ticks of their own.                                           *)
Recorded(op) == op \in {"read", "write", "flush", "iscSet", "iscGet"}
ToHIL(c) ==
  /\ ~crashed /\ "convert" \in context[c].on
  /\ IF Recorded(commands[c].op)
     THEN /\ WaitFor(c, (context[c].on \ {"convert"}) \union {"hil"})
          /\ UNCHANGED <<settings, submitted, lNamespaces, object, allocated, setThis,
                         answers, crashed, log, touched, mixed>>
     ELSE Crash

(* dmaDone, called by the transfer and by the HIL: the second call answers *)
(* the command and writes the data of a write to the disk image, which a   *)
(* format may have taken away since.                                       *)
Both(n) == n + 1 = 2
IODone(c, who) ==
  /\ ~crashed /\ who \in context[c].on
  /\ commands[c].op \in {"read", "write", "compare", "iscGet", "iscSet"}
  /\ LET left == context[c].on \ {who}
         n  == context[c].n
         ns == IF commands[c].op = "iscSet" THEN setThis ELSE context[c].ns
     IN IF commands[c].op = "iscSet" /\ who = "dma"
        THEN /\ context' = [context EXCEPT ![c].on = {"convert"}, ![c].n = n + 1]
             /\ UNCHANGED <<answers, object, crashed, log>>
        ELSE IF ~Both(n)
        THEN /\ context' = [context EXCEPT ![c].on = left, ![c].n = n + 1]
             /\ UNCHANGED <<answers, object, crashed, log>>
        ELSE /\ Answer(c)
             /\ context' = [context EXCEPT ![c].on = left, ![c].n = n + 1]
             /\ log' = IF context[c].buffer THEN Append(log, c) ELSE log
             /\ crashed' = (context[c].buffer /\ object[ns].disk = NoDisk)
             /\ object' =
                  IF ~context[c].buffer \/ object[ns].disk = NoDisk THEN object
                  ELSE [object EXCEPT ![ns].disk =
                          DiskWrite(@, commands[c].slba, commands[c].nlb, c)]
  /\ UNCHANGED <<settings, submitted, lNamespaces, allocated, setThis, touched, mixed>>

FlushDone(c) ==
  /\ ~crashed /\ commands[c].op = "flush" /\ "hil" \in context[c].on
  /\ WaitFor(c, {}) /\ Answer(c)
  /\ UNCHANGED <<settings, submitted, lNamespaces, object, allocated, setThis,
                 crashed, log, touched, mixed>>

(* datasetManagement: the list of nlb ranges is read, each range is a      *)
(* request, and eachTrimDone frees the shared counter at every one of      *)
(* them: from the second on it works on freed memory.                      *)
TrimRead(c) ==
  /\ ~crashed /\ commands[c].op = "trim" /\ "dma" \in context[c].on
  /\ context' = [context EXCEPT ![c].on = {"hil"}, ![c].n = commands[c].nlb]
  /\ UNCHANGED <<settings, submitted, lNamespaces, object, allocated, setThis,
                 answers, crashed, log, touched, mixed>>
EachTrimDone(c) ==
  /\ ~crashed /\ commands[c].op = "trim" /\ "hil" \in context[c].on
  /\ \/ /\ context' = [context EXCEPT ![c].n = @ - 1,
                                      ![c].on = IF context[c].n = 1 THEN {} ELSE @]
        /\ IF context[c].n = 1 THEN Answer(c) ELSE UNCHANGED answers
        /\ UNCHANGED crashed
     \/ /\ context[c].n < commands[c].nlb
        /\ crashed' = TRUE /\ UNCHANGED <<context, answers>>
  /\ UNCHANGED <<settings, submitted, lNamespaces, object, allocated, setThis,
                 log, touched, mixed>>
-----------------------------------------------------------------------------
Submit(c) == \/ SubmitDispatched(c) \/ SubmitLogPage(c) \/ SubmitAdmin(c)
             \/ SubmitCreate(c) \/ SubmitDelete(c) \/ SubmitAttach(c)
             \/ SubmitFormat(c)
Callback(c) == \/ CreateDone(c) \/ AttachDone(c) \/ TransferDone(c)
               \/ NamespaceSubmit(c)
               \/ \E granted \in BOOLEAN : Begin(c, granted)
               \/ Resume(c) \/ ToHIL(c)
               \/ \E who \in {"dma", "hil"} : IODone(c, who)
               \/ FlushDone(c) \/ TrimRead(c) \/ EachTrimDone(c)

Over == crashed \/ (submitted = Len(commands) /\ \A c \in Commands : context[c].on = {})
Rest == Over /\ UNCHANGED vars

Step == \E c \in Commands : Submit(c) \/ Callback(c) \/ UseAfterDelete(c)
Next == Step \/ Rest

(* Fairness: the event engine runs what is scheduled. *)
Spec == Init /\ [][Next]_vars /\ WF_vars(Step)
-----------------------------------------------------------------------------
(* Properties. *)

(* The pages of the namespaces of a list, counted one by one.              *)
PagesOf(list, obj) ==
  LET sum[k \in 0..Len(list)] ==
        IF k = 0 THEN 0 ELSE sum[k - 1] + obj[list[k]].nlp
  IN  sum[Len(list)]

(* The pages of the namespaces are disjoint and inside the device, and     *)
(* when every size is a whole number of pages' worth of blocks and no      *)
(* namespace was formatted, the count of allocated pages is exact          *)
(* (createNamespace's "Invert" and destroyNamespace).                      *)
Whole(o) == o.size % PageSize = 0 /\ ~o.formatted
RangesDisjoint ==
  /\ \A k \in DOMAIN lNamespaces :
       LET o == object[lNamespaces[k]] IN
       /\ o.slpn + o.nlp <= TotalPages
       /\ \A m \in DOMAIN lNamespaces \ {k} :
            LET q == object[lNamespaces[m]] IN
            o.slpn + o.nlp <= q.slpn \/ q.slpn + q.nlp <= o.slpn
  /\ (\A i \in DOMAIN object : Whole(object[i]))
       => allocated = PagesOf(lNamespaces, object)

(* A read or a write inside the size that its namespace advertises touches *)
(* no page of another namespace, until the namespace is formatted and if   *)
(* its size was a multiple of the page size (convertUnit).                 *)
Isolated ==
  \A t \in touched :
    t.inside /\ object[t.ns].size % PageSize = 0 /\ ~object[t.ns].formatted =>
      /\ t.from >= object[t.ns].slpn
      /\ t.to <= object[t.ns].slpn + object[t.ns].nlp

(* Namespaces stay apart, in what they own and in what they touch.         *)
NamespacesApart == RangesDisjoint /\ Isolated

(* An answered read returns, for each block, the last write of its         *)
(* namespace that was answered before the read was submitted, or one       *)
(* answered later; never data of another namespace.  Where two isc_set     *)
(* commands of different namespaces meet, the static dmaDone of isc_set    *)
(* sends the data of one to the image of the other.                        *)
Covers(d, c, b) ==
  /\ context[d].ns = context[c].ns
  /\ b \in commands[d].slba..(commands[d].slba + commands[d].nlb - 1)
ReadsAnswered ==
  \A c \in Commands :
    (commands[c].op = "read" /\ answers[c] = 1 /\ context[c].got # <<>> /\ ~mixed) =>
      \A b \in DOMAIN context[c].got :
        LET before == {k \in 1..context[c].floor : Covers(log[k], c, b)}
            late   == {log[k] : k \in {j \in DOMAIN log : j > context[c].floor
                                                          /\ Covers(log[j], c, b)}}
        IN context[c].got[b] \in
             late \union {IF before = {} THEN 0 ELSE log[Max(before)]}

(* Every command is answered exactly once, except the health log of one    *)
(* namespace (twice), and a refused creation of a queue or a namespace     *)
(* command with a wrong selector (never), unless the program ended.        *)
Expected(c) ==
  LET cmd == commands[c] IN
  CASE cmd.op = "smart" /\ cmd.nsid # AllNamespaces -> 2
    [] cmd.op = "badSelect" -> 0
    [] cmd.op \in {"createSQ", "createCQ"} /\ ~cmd.valid
         /\ cmd.size <= MaxEntries -> 0
    [] cmd.op = "create" /\ cmd.nsid # 0 -> 0
    [] OTHER -> 1
AnsweredOnce == crashed \/ \A c \in Commands : answers[c] = Expected(c)
=============================================================================
