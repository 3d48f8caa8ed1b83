---------------------------- MODULE MCHostCommands ----------------------------
(***************************************************************************)
(* What executes the commands of a host: behind the NVMe controller the    *)
(* NVM subsystem or the Open-Channel one and the transfers of either; or   *)
(* the AHCI adapter of SATA, or the UFS host controller.  A simulation has *)
(* one of them, and a behaviour exercises one; the variables of the others *)
(* rest.  Names that two units use are told apart by a prefix.             *)
(***************************************************************************)
EXTENDS NVMeSubsystem, OpenChannel

CONSTANTS SATAWorkloads, UFSWorkloads   \* what the drivers of the links issue

VARIABLES unit,   \* "nvm", "oc", "dma", "sata" or "ufs"
          shape, pieces, fifo, moved,
          jobs, issued, is, line, requests, pending, linkMoved, phase, complete,
          ci, sact, gis, irqEn, inited, engine, responses, upsets,
          doorbell, taken, linkUp, written, finished, seen, gets

nvmVars == vars
dmaVars == <<shape, pieces, fifo, moved>>
nvmeVars == <<nvmVars, ocvars, dmaVars>>
linkVars == <<jobs, issued, is, line, requests, pending, linkMoved, phase, complete>>
sataOnly == <<ci, sact, gis, irqEn, inited, engine, responses, upsets>>
ufsOnly == <<doorbell, taken, linkUp, written, finished, seen, gets>>
hostLinkVars == <<linkVars, sataOnly, ufsOnly>>
hostVars == <<unit, nvmeVars, hostLinkVars>>
-----------------------------------------------------------------------------
(* Workloads of the NVM subsystem: two namespaces of four pages.           *)
Cmd(op, nsid) == [op |-> op, nsid |-> nsid, slba |-> 0, nlb |-> 1, size |-> 0,
                  format |-> 1, valid |-> TRUE]
IO(op, nsid, slba, nlb) == [Cmd(op, nsid) EXCEPT !.slba = slba, !.nlb = nlb]
Sized(op, size) == [Cmd(op, 0) EXCEPT !.size = size]
Make(size) == Sized("create", size)
Bad(cmd) == [cmd EXCEPT !.valid = FALSE]

W(format, list) == [namespaces |-> 2, format |-> format, commands |-> list]
NVMWorkloads ==
  { W(1, <<IO("write", 1, 0, 2), IO("read", 1, 0, 2), IO("write", 1, 1, 1),
           IO("read", 1, 1, 2)>>),
    W(1, <<IO("iscSet", 1, 0, 1), IO("iscSet", 2, 0, 1), IO("read", 1, 0, 1),
           IO("read", 2, 0, 1)>>),
    W(1, <<Cmd("delete", 1), Make(4), Make(2), IO("write", 1, 0, 2)>>),
    W(1, <<Cmd("delete", 1), Make(3), IO("read", 2, 6, 2), Cmd("delete", 1),
           Make(10)>>),
    W(2, <<Cmd("delete", 2), Make(16), [Make(4) EXCEPT !.format = 2],
           Cmd("delete", 7), IO("write", 3, 0, 1)>>),
    W(1, <<[Cmd("format", 1) EXCEPT !.format = 2], IO("write", 1, 0, 2),
           IO("read", 1, 3, 1), IO("read", 2, 6, 2)>>),
    W(1, <<IO("write", 1, 2, 1), Cmd("format", 1), Bad(Cmd("format", 1)),
           Cmd("format", 7)>>),
    W(1, <<Cmd("detach", 1), IO("flush", 1, 0, 1), Cmd("list", 0),
           Cmd("attach", 1), IO("read", 1, 7, 1), Bad(Cmd("attach", 2))>>),
    W(1, <<IO("trim", 1, 0, 1), IO("trim", 2, 0, 2), Bad(IO("trim", 1, 0, 1)),
           IO("iscGet", 1, 0, 1)>>),
    W(1, <<Cmd("smart", 1), Cmd("smart", AllNamespaces), Cmd("otherLog", 1),
           Cmd("smart", 7), Cmd("identify", 1), Cmd("list", AllNamespaces)>>),
    W(1, <<Sized("createSQ", 1), Bad(Sized("createCQ", 1)), Sized("createCQ", 5),
           Bad(Sized("createSQ", 5)), Sized("createCQ", 4), Cmd("badSelect", 0),
           Cmd("unknown", AllNamespaces), Cmd("unknown", 7)>>),
    W(1, <<Cmd("abort", 0), Cmd("getFeatures", 0), Sized("setFeatures", 9),
           Bad(Sized("setFeatures", 1)), Cmd("getFeatures", 0),
           Cmd("deleteSQ", 0), Cmd("deleteCQ", 0), Cmd("create", 1)>>),
    W(1, <<IO("compare", 1, 0, 1), IO("read", 1, 0, 0), IO("flush", AllNamespaces, 0, 1)>>),
    W(1, <<Cmd("delete", 1), Cmd("unknown", AllNamespaces), Cmd("delete", 2)>>),
    W(3, <<IO("read", 2, 1, 1), IO("write", 1, 0, 2), IO("iscGet", 2, 0, 1)>>) }

(* Workloads of the Open-Channel subsystem: two chunks of two pages.       *)
Vec(op, lbas) == [op |-> op, lbas |-> lbas, slba |-> 0, nlb |-> 0, value |-> 0]
Seg(op, slba, nlb) ==
  [op |-> op, lbas |-> <<>>, slba |-> slba, nlb |-> nlb, value |-> 0]
LongList ==   \* blocks 3..30 are refused, 31 and 32 accepted, 33 refused
  [i \in 1..33 |-> CASE i = 31 -> 6 [] i = 32 -> 3 [] i = 33 -> 7
                     [] i < 31 -> IF i % 2 = 1 THEN 0 ELSE 4]
OCSessions ==
  { <<Vec("vwrite", LongList), Vec("vread", <<3, 7>>)>>,
    <<Vec("vwrite", <<0, 2>>), Vec("vwrite", <<0, 4>>), Vec("vread", <<0, 2>>),
      Vec("vreset", <<0>>)>>,
    <<Vec("vwrite", <<0, 4, 2, 6>>), Vec("vreset", <<0, 4>>),
      Vec("vwrite", <<2, 0>>), Vec("vread", <<0>>)>>,
    <<Vec("vwrite", <<0, 1, 2, 3>>), Vec("vwrite", <<2, 3, 4, 5>>),
      Vec("vreset", <<1, 2>>)>>,
    <<Seg("write20", 0, 4), Seg("write20", 2, 2), Seg("read20", 0, 4),
      Vec("vreset", <<0>>)>>,
    <<Seg("write20", 0, 8), Seg("trim20", 0, 4), Seg("read20", 4, 2)>>,
    <<Vec("write12", <<0, 1>>), Vec("read12", <<1>>), Vec("erase12", <<0, 2>>),
      Vec("read12", <<0, 1>>)>>,
    <<[Vec("setBad", <<0, 4>>) EXCEPT !.value = 2], Vec("getBad", <<0>>),
      Vec("setBad", <<4>>), Vec("identify", <<>>), Vec("unknown", <<>>)>>,
    <<Vec("chunkLog", <<>>), Vec("geometry", <<>>), Vec("vwrite", <<0>>),
      Vec("vreset", <<0>>)>> }

(* Transfers: every single one up to 11 bytes over pages of two bytes, and *)
(* pairs that share a direction.                                           *)
Transfer(k, d, skew, total, off, len) ==
  [kind |-> k, dir |-> d, skew |-> skew, total |-> total, off |-> off,
   len |-> len]
Singles ==
  {s \in [kind : {"prp", "sgl"}, dir : {"read", "write"}, skew : {0, 1},
          total : 1..11, off : 0..4, len : 1..11] : s.off + s.len <= s.total}
DMAWorkloads ==
  {<<s>> : s \in Singles} \union
  {<<Transfer(k, d, 1, 5, 0, 5), Transfer("prp", d, 0, n, 0, n)>> :
     k \in {"prp", "sgl"}, d \in {"read", "write"}, n \in {1, 3, 6}} \union
  {<<Transfer("prp", d, 0, n, 0, n), Transfer("prp", d, 1, 6, 0, 6)>> :
     d \in {"read", "write"}, n \in {1, 4}}

(* Commands of a SATA driver, which may stop the port or reset the         *)
(* adapter, and of a UFS driver.                                           *)
J(s, k, p) == [slot |-> s, kind |-> k, prdt |-> p]

SJobs(js, o, u) == [jobs |-> js, order |-> o, upsets |-> u]
SATADrivers ==
  {SJobs(<<J(1, "readq", TRUE), J(0, "writeq", FALSE)>>, "port", {}),
   SJobs(<<J(0, "writeq", TRUE), J(0, "readq", TRUE), J(2, "read", FALSE)>>,
         "global", {"stop"}),
   SJobs(<<J(0, "identify", TRUE), J(1, "write", TRUE), J(0, "flush", FALSE)>>,
         "global", {"stop", "reset"}),
   SJobs(<<J(0, "unknown", FALSE), J(1, "readq", TRUE), J(0, "verify", FALSE)>>,
         "port", {"reset"}),
   SJobs(<<J(1, "mode", FALSE), J(0, "writeq", TRUE), J(2, "writeq", FALSE)>>,
         "global", {})}

UJobs(js, r, g) == [jobs |-> js, retry |-> r, gets |-> g]
UFSDrivers ==
  {UJobs(<<J(0, "read", TRUE), J(1, "write", TRUE), J(0, "sync", FALSE)>>, TRUE, 1),
   UJobs(<<J(2, "write", TRUE), J(0, "read", FALSE), J(1, "mode", TRUE),
           J(2, "read", TRUE)>>, FALSE, 1),
   UJobs(<<J(1, "nop", FALSE), J(0, "inquiry", TRUE), J(1, "query", FALSE)>>, FALSE, 1),
   UJobs(<<J(1, "capacity", TRUE), J(0, "luns", TRUE), J(1, "verify", FALSE)>>, TRUE, 0),
   UJobs(<<J(1, "immed", FALSE), J(0, "native", FALSE), J(1, "ready", FALSE)>>, TRUE, 0)}
LBASizes == <<1, 2, 4>>
-----------------------------------------------------------------------------
D == INSTANCE NVMeDMA
       WITH PageSize <- 2, ListEntries <- 2, BlockSize <- 9, Unit <- 2,
            Capacity <- 4, Workloads <- DMAWorkloads, context <- pieces
S == INSTANCE SATA
       WITH Workloads <- SATAWorkloads, work <- jobs, moved <- linkMoved,
            answers <- responses
U == INSTANCE UFS WITH Workloads <- UFSWorkloads, work <- jobs, moved <- linkMoved

(* What the proofs about the two subsystems assume holds here.             *)
ASSUME SubsystemsSane == Sane /\ OCSane

(* Commands are typed.  A SATA driver uses slot 0 for a queued command     *)
(* only if it used it for queued ones before: one that is not queued may   *)
(* be seen complete while it is still to be fetched, and its request then  *)
(* fetches the next command of the slot a second time.                     *)
LinkCommands(kinds) == Seq([slot : Nat, kind : kinds, prdt : BOOLEAN])
ASSUME LinkAssumption ==
  /\ \A w \in SATAWorkloads :
       /\ w.jobs \in LinkCommands(S!Kinds)
       /\ \A i, j \in DOMAIN w.jobs :
            i < j /\ w.jobs[i].slot = 0 /\ w.jobs[j].slot = 0
              /\ w.jobs[j].kind \in S!Queued => w.jobs[i].kind \in S!Queued
  /\ \A w \in UFSWorkloads : w.jobs \in LinkCommands(DOMAIN U!Starts)

NVMRests ==
  /\ commands = <<>> /\ submitted = 0 /\ lNamespaces = <<>> /\ object = <<>>
  /\ allocated = 0 /\ context = <<>> /\ queueAllocated = 0 /\ setThis = 0
  /\ answers = <<>> /\ crashed = FALSE /\ log = <<>> /\ touched = {}
  /\ mixed = FALSE
OCRests ==
  /\ cmds = <<>> /\ started = 0 /\ chunk = <<>> /\ table = <<>>
  /\ badBlocks = <<>> /\ work = <<>> /\ queue = {} /\ armed = 0
  /\ lastScheduled = 0 /\ now = 0 /\ replies = <<>> /\ corrupted = FALSE
  /\ missed = FALSE
DMARests == shape = <<>> /\ pieces = <<>> /\ fifo = <<>> /\ moved = <<>>
LinkRests ==
  /\ jobs = <<>> /\ issued = <<>> /\ is = {} /\ line = FALSE /\ requests = <<>>
  /\ pending = <<>> /\ linkMoved = <<>> /\ phase = <<>> /\ complete = <<>>
SATARests ==
  /\ ci = {} /\ sact = {} /\ gis = FALSE /\ irqEn = FALSE /\ inited = FALSE
  /\ engine = "off" /\ responses = <<>> /\ upsets = {}
UFSRests ==
  /\ doorbell = {} /\ taken = {} /\ linkUp = FALSE /\ written = {}
  /\ finished = {} /\ seen = {} /\ gets = 0

HostInit ==
  \/ /\ LinkRests /\ SATARests /\ UFSRests
     /\ \/ unit = "nvm" /\ Init /\ OCRests /\ DMARests
        \/ unit = "oc" /\ OCInit /\ NVMRests /\ DMARests
        \/ unit = "dma" /\ D!Init /\ NVMRests /\ OCRests
  \/ /\ NVMRests /\ OCRests /\ DMARests
     /\ \/ unit = "sata" /\ S!Init /\ UFSRests
        \/ unit = "ufs" /\ U!Init /\ SATARests

NVM == unit = "nvm" /\ Next /\ UNCHANGED <<unit, ocvars, dmaVars, hostLinkVars>>
OpenChannelSSD == unit = "oc" /\ OCNext /\ UNCHANGED <<unit, nvmVars, dmaVars, hostLinkVars>>
DMA == unit = "dma" /\ D!Next /\ UNCHANGED <<unit, nvmVars, ocvars, hostLinkVars>>
SATA == unit = "sata" /\ S!Next /\ UNCHANGED <<unit, nvmeVars, ufsOnly>>
UFS == unit = "ufs" /\ U!Next /\ UNCHANGED <<unit, nvmeVars, sataOnly>>
HostNext == NVM \/ OpenChannelSSD \/ DMA \/ SATA \/ UFS

(* Fairness: the event engine runs what is scheduled, transfers and the    *)
(* flash answer, and a driver keeps reading completions; it need never     *)
(* submit more, stop or reset.                                             *)
OCStepHere == unit = "oc" /\ OCStep /\ UNCHANGED <<unit, nvmVars, dmaVars, hostLinkVars>>
Progress ==
  \/ unit = "nvm" /\ Step /\ UNCHANGED <<unit, ocvars, dmaVars, hostLinkVars>>
  \/ unit = "dma" /\ D!FIFOStep /\ UNCHANGED <<unit, nvmVars, ocvars, hostLinkVars>>
  \/ unit = "sata" /\ S!Progress /\ UNCHANGED <<unit, nvmeVars, ufsOnly>>
  \/ unit = "ufs" /\ U!Progress /\ UNCHANGED <<unit, nvmeVars, sataOnly>>
Fairness == /\ WF_hostVars(Progress)
            /\ <>[](unit = "oc" /\ CanStep) => []<><<OCStepHere>>_hostVars

HostSpec == HostInit /\ [][HostNext]_hostVars /\ Fairness
-----------------------------------------------------------------------------
(* A transfer that is answered moved exactly the bytes of its range, in    *)
(* order, and no event of the FIFO finds its queue empty or its usage      *)
(* wrong (PRPList, SGL, FIFO::insertReadDoneNext, transferWriteDoneNext).  *)
MovesRange == unit = "dma" => D!MovesRange /\ D!FIFOSound

(* In the end every command of the NVM subsystem is answered once, except  *)
(* where the code answers twice or never; every Open-Channel command is    *)
(* answered, unless its flash request ended in the tick just completed;    *)
(* and every transfer is answered, whatever shares the FIFO, except one    *)
(* that asks for an empty piece (the callback chains of Namespace,         *)
(* updateCompletion, commonDMAHandler).                                    *)
CommandsAnswered == <>[](/\ unit = "nvm" => AnsweredOnce
                         /\ unit = "oc" => Replied
                         /\ unit = "dma" => D!Answered)

(* The driver of either link sees a command complete only when its data    *)
(* has moved, the NAND has answered and the response is in memory: Device  *)
(* and HBA of SATA, whose responses share one queue and one interrupt, and *)
(* Host::completion of UFS.                                                *)
CompletedIsDone ==
  /\ unit = "sata" => S!CompletedIsDone
  /\ unit = "ufs" => U!CompletedIsDone

(* Every command of either driver is seen complete in the end: responses   *)
(* of SATA are sent again, acknowledged early and raised together          *)
(* (HBA::handleResponse and interruptCleared), doorbells of UFS are rung,  *)
(* cleared and rung again while others finish (Host::completion and        *)
(* processUTPTransfer).                                                    *)
LinksServed == <>[](/\ unit = "sata" => S!Settled
                    /\ unit = "ufs" => U!Settled)
=============================================================================
