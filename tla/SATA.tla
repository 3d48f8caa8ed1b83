-------------------------------- MODULE SATA --------------------------------
(***************************************************************************)
(* The AHCI host bus adapter (hil/sata/hba.cc) and the ATA device behind   *)
(* it (hil/sata/device.cc), with the driver that rings the doorbell.       *)
(*                                                                         *)
(* A command travels: doorbell PxCI -> lRequestQueue -> command header,    *)
(* command table and PRDT over DMA -> the command's own chain of NAND and  *)
(* DMA callbacks -> one or more FISes, which queue in lResponseQueue until *)
(* the driver acknowledges the front one by writing PxIS.                  *)
(*                                                                         *)
(* Every callback in flight is one element <<job, piece>> of pending; the  *)
(* engine may run them in any order.  FIS writes go through one FIFO and   *)
(* finish in order.  Blocks, PRDT entries and addresses are left out.      *)
(***************************************************************************)
EXTENDS Naturals, Sequences, FiniteSets

\* A workload is [jobs, order, upsets]: the commands the driver issues in
\* order, each [slot, kind, prdt]; whether it clears the port's or the global
\* interrupt status first; and the disturbances it may cause ("stop","reset").
CONSTANT Workloads

VARIABLES work,        \* the workload of this behaviour
          issued,      \* how many of its jobs the driver has issued
          ci, sact,    \* PxCI and PxSACT, as sets of slots
          is, gis,     \* PxIS as a set of causes; bit 0 of the global IS
          irqEn, line, \* HOST_IRQ_EN; the level driven by updateInterrupt
          inited,      \* deviceInited
          engine,      \* the scheduled event: "off", "work" or "request"
          requests,    \* lRequestQueue, of slots
          answers,     \* lResponseQueue and the FIS writes in flight
          pending,     \* callbacks in flight, as <<job, piece>>
          moved,       \* jobs whose data transfer and NAND work are done
          phase,       \* where the driver's interrupt handler stands
          complete,    \* jobs the driver has seen complete
          upsets       \* disturbances not used yet

vars == <<work, issued, ci, sact, is, gis, irqEn, line, inited, engine,
          requests, answers, pending, moved, phase, complete, upsets>>

jobs == work.jobs
Queued == {"readq", "writeq"}
Kinds == Queued \cup {"read", "write", "flush", "identify", "verify", "mode",
                      "unknown"}
Outstanding == (1..issued) \ complete

\* The job a slot stands for is the last one issued in it.
JobOf(s) == CHOOSE j \in 1..issued :
              /\ jobs[j].slot = s
              /\ \A k \in (j + 1)..issued : jobs[k].slot # s

(***************************************************************************)
(* HBA: responses                                                          *)
(***************************************************************************)
\* A Completion: the slot whose PxCI bit its acknowledgement clears, its FIS,
\* and the write whose setup its acknowledgement starts (0: none).
Completion(s, f, j) == [slot |-> s, fis |-> f, then |-> j]

\* Fault: responses wait for the front one's write, and nothing sends them.
handleResponseOnce(q) ==
    IF Len(q.queue) > 1 THEN q
    ELSE [q EXCEPT !.writes = Append(@, Head(q.queue).fis)]

\* handleResponse: submitFISPending is never set, so the front response is
\* written whether or not it is on its way already.
handleResponse(q) ==
    [q EXCEPT !.writes = Append(@, Head(q.queue).fis)]

\* submitFIS, except for the clearing of PxSACT by a Set Device Bits FIS.
submitFIS(q, c) == handleResponse([q EXCEPT !.queue = Append(@, c)])

\* _writeDMASetup: the DMA Setup FIS goes out as the data transfer begins.
writeDMASetup(q) == submitFIS(q, Completion(0, "setup", 0))

\* The bits of PxIS a write keeps whatever the value written; every cause
\* this device raises is outside them.
Retained == {"unknown"}

\* HBA::init on HOST_RESET: the interrupt enable goes, the queues stay.
HBAReset ==
    /\ "reset" \in upsets /\ Outstanding = {} /\ phase = "idle"
    /\ upsets' = upsets \ {"reset"}
    /\ gis' = FALSE /\ irqEn' = FALSE /\ inited' = FALSE
    /\ UNCHANGED <<work, issued, ci, sact, is, line, engine, requests,
                   answers, pending, moved, phase, complete>>

EnableInterrupt ==
    /\ ~irqEn
    /\ irqEn' = TRUE
    /\ UNCHANGED <<work, issued, ci, sact, is, gis, line, inited, engine,
                   requests, answers, pending, moved, phase, complete, upsets>>

\* The signature FIS of Device::init, which belongs to no slot.
Signature == Completion(0, "signal", 0)

\* PxSCTL asks for COMRESET: Device::init, HBA::submitSignal.
Connect ==
    /\ ~inited /\ irqEn
    /\ inited' = TRUE
    /\ answers' = [queue |-> Append(answers.queue, Signature),
                   writes |-> Append(answers.writes, Signature.fis)]
    /\ UNCHANGED <<work, issued, ci, sact, is, gis, irqEn, line, engine,
                   requests, pending, moved, phase, complete, upsets>>

\* doCompletion of a FIS write; only the signal's skips updateInterrupt's test.
FISWritten ==
    /\ answers.writes # <<>>
    /\ LET f == Head(answers.writes)
       IN  /\ is' = is \cup {f}
           /\ line' = (line \/ irqEn \/ f = "signal")
    /\ gis' = TRUE
    /\ answers' = [answers EXCEPT !.writes = Tail(@)]
    /\ UNCHANGED <<work, issued, ci, sact, irqEn, inited, engine, requests,
                   pending, moved, phase, complete, upsets>>

\* A write to PxIS and interruptCleared: the front response is done when none
\* of its causes is set, whether or not its FIS has been written.
WritePxIS ==
    /\ is' = is \cap Retained
    /\ IF answers.queue # <<>> /\ Head(answers.queue).fis \notin is'
       THEN LET front == Head(answers.queue)
                left  == [answers EXCEPT !.queue = Tail(@)]
                sent  == IF left.queue = <<>> THEN left
                         ELSE handleResponse(left)
            IN  /\ line' = FALSE
                /\ ci' = ci \ {front.slot}
                /\ IF front.then = 0
                   THEN answers' = sent /\ UNCHANGED pending
                   ELSE /\ answers' = writeDMASetup(sent)
                        /\ pending' = pending \cup {<<front.then, "in">>}
       ELSE UNCHANGED <<line, ci, answers, pending>>

(***************************************************************************)
(* HBA: requests                                                           *)
(***************************************************************************)
\* PxCMD.ST set or cleared.  Stopping cancels workEvent and not requestEvent.
Start ==
    /\ engine = "off" /\ inited
    /\ engine' = "work"
    /\ UNCHANGED <<work, issued, ci, sact, is, gis, irqEn, line, inited,
                   requests, answers, pending, moved, phase, complete, upsets>>

Stop ==
    /\ "stop" \in upsets /\ engine # "off"
    /\ upsets' = upsets \ {"stop"}
    /\ engine' = IF engine = "work" THEN "off" ELSE engine
    /\ UNCHANGED <<work, issued, ci, sact, is, gis, irqEn, line, inited,
                   requests, answers, pending, moved, phase, complete>>

\* work and handleRequest: one header is fetched per event; requestCounter
\* stays 0, so the next event comes early exactly while requests wait.
handleRequest ==
    /\ engine = "request" \/ (engine = "work" /\ requests # <<>>)
    /\ IF requests # <<>>
       THEN /\ pending' = pending \cup {<<JobOf(Head(requests)), "header">>}
            /\ requests' = Tail(requests)
       ELSE UNCHANGED <<pending, requests>>
    /\ engine' = IF requests' # <<>> THEN "request" ELSE "work"
    /\ UNCHANGED <<work, issued, ci, sact, is, gis, irqEn, line, inited,
                   answers, moved, phase, complete, upsets>>

(***************************************************************************)
(* Device: a callback <<j, p>> ends and starts those in more; it may move  *)
(* the job's data (Moves) and submit a FIS.                                *)
(***************************************************************************)
Ends(j, p, more) == /\ <<j, p>> \in pending
                    /\ pending' = (pending \ {<<j, p>>}) \cup ({j} \X more)

Moves(b, j) == moved' = IF b THEN moved \cup {j} ELSE moved

\* The Register D2H FIS that names the command's slot.
Answers(j, then) ==
    answers' = submitFIS(answers, Completion(jobs[j].slot, "d2h", then))

DeviceOnly == UNCHANGED <<work, issued, ci, is, gis, irqEn, line, inited,
                          engine, requests, phase, complete, upsets>>

\* submitCommand: the command table and the PRDT are read side by side.
submitCommand(j) ==
    /\ Ends(j, "header", IF jobs[j].prdt THEN {"request", "prdt"}
                         ELSE {"request"})
    /\ DeviceOnly /\ UNCHANGED <<sact, answers, moved>>

\* What each handler starts; the handlers that start nothing answer at once.
identifyDevice == {"out"}
setMode        == {}
readVerify     == {}
readDMA        == {"nandRead"}
writeDMA       == {"in"}
readNCQ        == {"nandRead", "notice"}
writeNCQ       == {"notice"}
flushCache     == {"flush"}
Starts == [identify |-> identifyDevice, mode |-> setMode, verify |-> readVerify,
           read |-> readDMA, write |-> writeDMA, readq |-> readNCQ,
           writeq |-> writeNCQ, flush |-> flushCache, unknown |-> {}]

\* doReqRead and doPRDTRead: the second of the two to end runs the command.
doRequest(j, p) ==
    /\ LET other == IF p = "request" THEN "prdt" ELSE "request"
           last  == <<j, other>> \notin pending
           more  == IF last THEN Starts[jobs[j].kind] ELSE {}
       IN  /\ Ends(j, p, more)
           /\ Moves(last /\ more = {}, j)
           /\ IF last /\ more = {} THEN Answers(j, 0) ELSE UNCHANGED answers
    /\ DeviceOnly /\ UNCHANGED sact

flushDone(j) ==
    /\ Ends(j, "flush", {}) /\ Answers(j, 0) /\ Moves(TRUE, j)
    /\ DeviceOnly /\ UNCHANGED sact

\* A Set Device Bits FIS clears PxSACT as it is submitted.
DeviceBits(j) ==
    /\ sact' = sact \ {jobs[j].slot}
    /\ answers' = submitFIS(answers, Completion(0, "bits", 0))

\* Fault: the Set Device Bits FIS is sent while the data still moves.
NandReadDoneEarly(j) ==
    /\ Ends(j, "nandRead", {"out"})
    /\ IF jobs[j].kind = "readq" THEN DeviceBits(j)
       ELSE UNCHANGED <<answers, sact>>
    /\ DeviceOnly /\ UNCHANGED moved

\* readDMA's doRead, and _readDMASetup of a queued read.
NandReadDone(j) ==
    /\ Ends(j, "nandRead", {"out"})
    /\ answers' = IF jobs[j].kind = "readq"
                  THEN submitFIS(answers, Completion(0, "setup", 0))
                  ELSE answers
    /\ DeviceOnly /\ UNCHANGED <<sact, moved>>

\* The end of prdtWrite: identifyDevice, readDMA, and _readDMADone.
DataOut(j) ==
    /\ Moves(TRUE, j)
    /\ IF jobs[j].kind = "readq"
       THEN Ends(j, "out", {"sdb"}) /\ UNCHANGED answers
       ELSE Ends(j, "out", {}) /\ Answers(j, 0)
    /\ DeviceOnly /\ UNCHANGED sact

\* The end of prdtRead: writeDMA's doRead, and _writeDMADone.
DataIn(j) ==
    /\ Ends(j, "in", {"nandWrite"})
    /\ DeviceOnly /\ UNCHANGED <<sact, answers, moved>>

NandWriteDone(j) ==
    /\ Ends(j, "nandWrite", {}) /\ Moves(TRUE, j)
    /\ IF jobs[j].kind = "writeq" THEN DeviceBits(j)
       ELSE Answers(j, 0) /\ UNCHANGED sact
    /\ DeviceOnly

ReadBits(j) ==
    /\ Ends(j, "sdb", {}) /\ DeviceBits(j)
    /\ DeviceOnly /\ UNCHANGED moved

\* doSubmit of readNCQ and writeNCQ: the command is accepted; a write's data
\* moves once the driver has acknowledged this FIS.
Notice(j) ==
    /\ Ends(j, "notice", {})
    /\ Answers(j, IF jobs[j].kind = "writeq" THEN j ELSE 0)
    /\ DeviceOnly /\ UNCHANGED <<sact, moved>>

(***************************************************************************)
(* The driver (outside the repository)                                     *)
(***************************************************************************)
\* Queued commands share the link with queued ones, others have it alone.
MayIssue(j) ==
    /\ irqEn /\ inited /\ engine # "off"
    /\ \A k \in Outstanding : jobs[k].slot # jobs[j].slot
    /\ IF jobs[j].kind \in Queued
       THEN \A k \in Outstanding : jobs[k].kind \in Queued
       ELSE Outstanding = {}

\* Writes to PxSACT and PxCI; processCommand queues the newly set bits.
Issue ==
    /\ issued < Len(jobs) /\ MayIssue(issued + 1)
    /\ LET c == jobs[issued + 1]
       IN  /\ issued' = issued + 1
           /\ sact' = IF c.kind \in Queued THEN sact \cup {c.slot} ELSE sact
           /\ ci' = ci \cup {c.slot}
           /\ requests' = IF c.slot \in ci THEN requests
                          ELSE Append(requests, c.slot)
    /\ UNCHANGED <<work, is, gis, irqEn, line, inited, engine, answers,
                   pending, moved, phase, complete, upsets>>

\* The handler runs while the line is up and the global status names the port.
EnterHandler ==
    /\ phase = "idle" /\ line /\ gis
    /\ phase' = "port"
    /\ gis' = (work.order = "port")
    /\ UNCHANGED <<work, issued, ci, sact, is, irqEn, line, inited, engine,
                   requests, answers, pending, moved, complete, upsets>>

AckPort ==
    /\ phase = "port"
    /\ phase' = "scan"
    /\ WritePxIS
    /\ UNCHANGED <<work, issued, sact, gis, irqEn, inited, engine, requests,
                   moved, complete, upsets>>

Scan ==
    /\ phase = "scan"
    /\ phase' = "idle"
    /\ gis' = (gis /\ work.order # "port")
    /\ complete' = complete \cup
         {j \in Outstanding : jobs[j].slot \notin ci \cup sact}
    /\ UNCHANGED <<work, issued, ci, sact, is, irqEn, line, inited, engine,
                   requests, answers, pending, moved, upsets>>

(***************************************************************************)
(* Specification                                                           *)
(***************************************************************************)
Init ==
    /\ work \in Workloads
    /\ issued = 0 /\ ci = {} /\ sact = {}
    /\ is = {} /\ gis = FALSE /\ irqEn = FALSE /\ line = FALSE
    /\ inited = FALSE /\ engine = "off"
    /\ requests = <<>> /\ answers = [queue |-> <<>>, writes |-> <<>>]
    /\ pending = {} /\ moved = {}
    /\ phase = "idle" /\ complete = {} /\ upsets = work.upsets

Callback(j) == \/ submitCommand(j) \/ flushDone(j) \/ NandReadDone(j)
               \/ DataOut(j) \/ DataIn(j) \/ NandWriteDone(j)
               \/ ReadBits(j) \/ Notice(j)
               \/ \E p \in {"request", "prdt"} : doRequest(j, p)

Progress == \/ EnableInterrupt \/ Connect \/ Start \/ Issue
            \/ handleRequest \/ FISWritten
            \/ EnterHandler \/ AckPort \/ Scan
            \/ \E j \in 1..issued : Callback(j)

Next == Progress \/ HBAReset \/ Stop

\* Callbacks, DMA and the driver never halt; a driver need never disturb.
Spec == Init /\ [][Next]_vars /\ WF_vars(Progress)

(***************************************************************************)
(* Properties                                                              *)
(***************************************************************************)
\* The driver sees a command complete only when its data has moved and its
\* NAND work is done.  A command that is not queued and sits in slot 0 is left
\* out: acknowledging a response that belongs to no slot clears its PxCI bit.
CompletedIsDone ==
    \A j \in complete :
      j \in moved \/ (jobs[j].slot = 0 /\ jobs[j].kind \notin Queued)

\* A cause that was raised between the two acknowledgements of a driver that
\* clears the global status last: nothing raises the interrupt for it again.
Swallowed == work.order = "port" /\ phase = "idle" /\ is # {} /\ ~gis

\* Every command the driver has is issued and seen complete, with responses
\* resent, acknowledged early or raised together, unless an interrupt was
\* swallowed by the driver's own order of acknowledgement.
Settled == complete = 1..Len(jobs) \/ Swallowed
=============================================================================
