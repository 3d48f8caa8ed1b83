--------------------------------- MODULE UFS ---------------------------------
(***************************************************************************)
(* The UFS host controller (hil/ufs/host.cc) and the device behind it      *)
(* (hil/ufs/device.cc), with the driver that rings the doorbell.           *)
(*                                                                         *)
(* A transfer request travels: doorbell UTRLDBR -> lRequestQueue ->        *)
(* request descriptor, command UPIU and PRDT over DMA -> the command's     *)
(* chain of NAND and DMA callbacks -> response UPIU and descriptor written *)
(* back -> lResponseQueue -> doorbell cleared and interrupt raised.        *)
(*                                                                         *)
(* Every callback in flight is one element <<job, piece>> of pending; they *)
(* end in any order.  UPIU fields, pages and addresses are left out.       *)
(***************************************************************************)
EXTENDS Naturals, Sequences, FiniteSets

\* A workload is [jobs, retry, gets]: the transfer requests the driver issues
\* in order, each [slot, kind, prdt]; whether its interrupt handler reads the
\* status again before it returns; and how many DME_GET commands it may send.
CONSTANT Workloads

VARIABLES work, issued,
          doorbell,     \* UTRLDBR, as a set of slots
          taken,        \* pendingInterrupt, as a set of slots
          is, line,     \* the IS register; the level driven at pInterface
          linkUp,       \* workEvent is scheduled, from DME_LINKSTARTUP on
          requests,     \* lRequestQueue, of slots
          pending,      \* callbacks in flight, as <<job, piece>>
          moved,        \* jobs whose data transfer and NAND work are done
          written,      \* jobs whose response UPIU and descriptor are written
          finished,     \* lResponseQueue, of slots
          phase, seen,  \* the driver's handler and the status it has read
          complete,     \* jobs the driver has seen complete
          gets          \* DME_GET commands still to send

vars == <<work, issued, doorbell, taken, is, line, linkUp, requests, pending,
          moved, written, finished, phase, seen, complete, gets>>

jobs == work.jobs
Outstanding == (1..issued) \ complete
JobOf(s) == CHOOSE j \in 1..issued :
              /\ jobs[j].slot = s
              /\ \A k \in (j + 1)..issued : jobs[k].slot # s

(***************************************************************************)
(* Host controller                                                         *)
(***************************************************************************)
\* processUIC answers in the register write itself.
processUIC(up) ==
    /\ linkUp' = (linkUp \/ up)
    /\ is' = is \cup {"uic"}
    /\ line' = TRUE
    /\ UNCHANGED <<work, issued, doorbell, taken, requests, pending, moved,
                   written, finished, phase, seen, complete>>

\* processUTPTransfer queues the slots rung and not taken yet; in slot order.
SlotsInOrder(S) == [i \in 1..Cardinality(S) |->
                      CHOOSE s \in S : Cardinality({t \in S : t < s}) = i - 1]
processUTPTransfer(bell) ==
    /\ taken' = taken \cup bell
    /\ requests' = requests \o SlotsInOrder(bell \ taken)

\* handleRequest, from workEvent or requestEvent: one descriptor per event.
handleRequest ==
    /\ linkUp /\ requests # <<>>
    /\ pending' = pending \cup {<<JobOf(Head(requests)), "descriptor">>}
    /\ requests' = Tail(requests)
    /\ UNCHANGED <<work, issued, doorbell, taken, is, line, linkUp, moved,
                   written, finished, phase, seen, complete, gets>>

\* completion: every response that is due clears its doorbell, then one
\* interrupt is raised for all of them.
completion ==
    /\ finished # {}
    /\ doorbell' = doorbell \ finished
    /\ taken' = taken \ finished
    /\ finished' = {}
    /\ is' = is \cup {"transfer"}
    /\ line' = TRUE
    /\ UNCHANGED <<work, issued, linkUp, requests, pending, moved, written,
                   phase, seen, complete, gets>>

(***************************************************************************)
(* A callback <<j, p>> ends and starts those in more.                      *)
(***************************************************************************)
Ends(j, p, more) == /\ <<j, p>> \in pending
                    /\ pending' = (pending \ {<<j, p>>}) \cup ({j} \X more)

CommandOnly == UNCHANGED <<work, issued, doorbell, taken, is, line, linkUp,
                           requests, phase, seen, complete, gets>>

\* processUTPCommand: the UPIU and the PRDT are read side by side.
processUTPCommand(j) ==
    /\ Ends(j, "descriptor", IF jobs[j].prdt THEN {"request", "prdt"}
                             ELSE {"request"})
    /\ CommandOnly /\ UNCHANGED <<moved, written, finished>>

\* What each command starts: a buffer that goes out, a transfer with the NAND,
\* or the CPU's work before the answer.  A SYNCHRONIZE CACHE waits for its
\* flush unless IMMED is set; a native UFS command starts nothing and is
\* never answered.
NopOut           == {"response"}
QueryRequest     == {"cpu"}
Inquiry          == {"out"}
ModeSense10      == {"out"}
ReadCapacity     == {"out"}
ReportLuns       == {"out"}
JustResponse     == {"cpu"}
Verify10         == {"cpu"}
Read10           == {"nandRead"}
Write10          == {"in"}
SynchronizeCache == [sync |-> {"flush"}, immed |-> {"cpu", "dummy"}]
NativeCommand    == {}
Starts == [nop |-> NopOut, query |-> QueryRequest, inquiry |-> Inquiry,
           mode |-> ModeSense10, capacity |-> ReadCapacity, luns |-> ReportLuns,
           ready |-> JustResponse, verify |-> Verify10, read |-> Read10,
           write |-> Write10, sync |-> SynchronizeCache.sync,
           immed |-> SynchronizeCache.immed, native |-> NativeCommand]
Buffers == {"inquiry", "mode", "capacity", "luns"}

\* doRequest: the second of the two reads to end runs the command.
doRequest(j, p) ==
    /\ LET other == IF p = "request" THEN "prdt" ELSE "request"
           last  == <<j, other>> \notin pending
       IN  Ends(j, p, IF last THEN Starts[jobs[j].kind] ELSE {})
    /\ CommandOnly /\ UNCHANGED <<moved, written, finished>>

\* doRead of a read: its data goes out once the NAND has answered.
NandReadDone(j) ==
    /\ Ends(j, "nandRead", {"out"})
    /\ CommandOnly /\ UNCHANGED <<moved, written, finished>>

\* doRead of a write: the NAND is written once its data is here.
DataIn(j) ==
    /\ Ends(j, "in", {"nandWrite"})
    /\ CommandOnly /\ UNCHANGED <<moved, written, finished>>

\* The last callback of a command's own chain hands over to the CPU.
ChainDone(j) ==
    /\ \E p \in {"out", "nandWrite", "flush"} : Ends(j, p, {"cpu"})
    /\ moved' = moved \cup {j}
    /\ CommandOnly /\ UNCHANGED <<written, finished>>

\* The flush of a SYNCHRONIZE CACHE with IMMED set ends on its own.
DummyDone(j) ==
    /\ Ends(j, "dummy", {})
    /\ CommandOnly /\ UNCHANGED <<moved, written, finished>>

\* done: the response UPIU is written.
done(j) ==
    /\ Ends(j, "cpu", {"response"})
    /\ CommandOnly /\ UNCHANGED <<moved, written, finished>>

\* doWrite of the response: the descriptor is written back.
ResponseWritten(j) ==
    /\ Ends(j, "response", {"status"})
    /\ CommandOnly /\ UNCHANGED <<moved, written, finished>>

\* doWrite of the descriptor: the completion is queued.
DescriptorWritten(j) ==
    /\ Ends(j, "status", {})
    /\ written' = written \cup {j}
    /\ finished' = finished \cup {jobs[j].slot}
    /\ CommandOnly /\ UNCHANGED moved

(***************************************************************************)
(* The driver (outside the repository)                                     *)
(***************************************************************************)
LinkStartup == ~linkUp /\ processUIC(TRUE) /\ UNCHANGED gets

\* One UIC command at a time: the driver waits for its interrupt.
Get == /\ gets > 0 /\ linkUp /\ "uic" \notin is
       /\ gets' = gets - 1
       /\ processUIC(FALSE)

Issue ==
    /\ issued < Len(jobs) /\ linkUp
    /\ LET s == jobs[issued + 1].slot
       IN  /\ \A k \in Outstanding : jobs[k].slot # s
           /\ doorbell' = doorbell \cup {s}
    /\ issued' = issued + 1
    /\ processUTPTransfer(doorbell')
    /\ UNCHANGED <<work, is, line, linkUp, pending, moved, written, finished,
                   phase, seen, complete, gets>>

EnterHandler ==
    /\ phase = "idle" /\ line
    /\ phase' = "read"
    /\ UNCHANGED <<work, issued, doorbell, taken, is, line, linkUp, requests,
                   pending, moved, written, finished, seen, complete, gets>>

ReadStatus ==
    /\ phase = "read"
    /\ seen' = is
    /\ phase' = IF is = {} THEN "idle" ELSE "clear"
    /\ UNCHANGED <<work, issued, doorbell, taken, is, line, linkUp, requests,
                   pending, moved, written, finished, complete, gets>>

\* A write to IS lowers the interrupt, whatever bits are left.
ClearStatus ==
    /\ phase = "clear"
    /\ phase' = "scan"
    /\ is' = is \ seen
    /\ line' = FALSE
    /\ UNCHANGED <<work, issued, doorbell, taken, linkUp, requests, pending,
                   moved, written, finished, seen, complete, gets>>

Scan ==
    /\ phase = "scan"
    /\ phase' = IF work.retry THEN "read" ELSE "idle"
    /\ complete' = IF "transfer" \in seen
                   THEN complete \cup
                          {j \in Outstanding : jobs[j].slot \notin doorbell}
                   ELSE complete
    /\ seen' = {}
    /\ UNCHANGED <<work, issued, doorbell, taken, is, line, linkUp, requests,
                   pending, moved, written, finished, gets>>

(***************************************************************************)
(* Specification                                                           *)
(***************************************************************************)
Init ==
    /\ work \in Workloads
    /\ issued = 0 /\ doorbell = {} /\ taken = {}
    /\ is = {} /\ line = FALSE /\ linkUp = FALSE
    /\ requests = <<>> /\ pending = {} /\ moved = {} /\ written = {}
    /\ finished = {} /\ phase = "idle" /\ seen = {} /\ complete = {}
    /\ gets = work.gets

Callback(j) == \/ processUTPCommand(j) \/ NandReadDone(j) \/ DataIn(j)
               \/ ChainDone(j) \/ DummyDone(j) \/ done(j)
               \/ ResponseWritten(j) \/ DescriptorWritten(j)
               \/ \E p \in {"request", "prdt"} : doRequest(j, p)

Progress == \/ LinkStartup \/ Issue \/ handleRequest \/ completion
            \/ EnterHandler \/ ReadStatus \/ ClearStatus \/ Scan
            \/ \E j \in 1..issued : Callback(j)

Next == Progress \/ Get

\* Callbacks, DMA and the driver never halt.
Spec == Init /\ [][Next]_vars /\ WF_vars(Progress)

(***************************************************************************)
(* Properties                                                              *)
(***************************************************************************)
\* The driver sees a command complete only after its data has moved, and its
\* response and descriptor are in memory, however slots are rung and reused
\* while other commands finish together.
CompletedIsDone ==
    \A j \in complete :
      /\ j \in written
      /\ jobs[j].kind \in {"read", "write", "sync"} \cup Buffers => j \in moved

\* A cause raised between a single read of the status and the write that
\* clears it: the write lowers the line for both.
Swallowed == ~work.retry /\ phase = "idle" /\ is # {} /\ ~line

\* Every command but a native UFS one is issued and seen complete, unless an
\* interrupt was swallowed by a driver that reads the status only once.
Settled == \/ \A j \in DOMAIN jobs : jobs[j].kind = "native" \/ j \in complete
           \/ Swallowed
=============================================================================
