---------------------------- MODULE OpenChannel ----------------------------
(***************************************************************************)
(* The Open-Channel SSD subsystems, version 1.2 and 2.0                    *)
(* (hil/nvme/ocssd.cc).  The host addresses physical pages; version 2.0    *)
(* keeps a descriptor with a write pointer for every chunk.                *)
(*                                                                         *)
(* A behaviour submits the commands of one workload, in order but without  *)
(* waiting for answers.  A command passes through the steps of its route:  *)
(*   list  the DMA list is built, and the core's work                      *)
(*   lbas  the list of addresses is read (when there are several)          *)
(*   data  the data is transferred                                         *)
(*   exec  the core's work before the flash is called                      *)
(*   nand  it is in completionQueue                                        *)
(* Addresses are dense: the geometry is made of powers of two.             *)
(***************************************************************************)
EXTENDS Integers, Sequences, FiniteSets, SequencesExt, FiniteSetsExt

CONSTANTS
  Chunks,        \* number of chunks (blocks) of the device
  Pages,         \* param.page, pages of a chunk
  WriteSize,     \* structure.writeSize, logical blocks of a page
  Latency,       \* bound on the latency of the flash
  Sessions       \* workloads: sequences of commands [op, lbas, slba, nlb, value]

VARIABLES
  cmds,          \* the commands of this behaviour
  started,       \* how many of them were submitted
  chunk,         \* pDescriptor: [state, wp] of every chunk, and its last programs
  table,         \* pDisk, a MemDisk: the blocks written and by which command
  badBlocks,     \* the bad block table: address -> value
  work,          \* per command: the steps that are left and what its context holds
  queue,         \* completionQueue: [cmd, at]
  armed,         \* the tick completionEvent is scheduled for, 0 if it is not
  lastScheduled,
  now,           \* the current tick
  replies,       \* per command, how often it was answered
  corrupted,     \* the program ended
  missed         \* history: an entry was queued for the tick just completed

ocvars == <<cmds, started, chunk, table, badBlocks, work, queue, armed,
            lastScheduled, now, replies, corrupted, missed>>

ChunkSize == Pages * WriteSize

(* The routes of the handlers; a command that is not listed is answered by *)
(* submitCommand itself, like a read of version 1.2, whose data is null.   *)
deviceIdentification == <<"list", "data">>
setBadBlockTable     == <<"list", "data">>
getBadBlockTable     == <<"list", "data">>
physicalBlockErase   == <<"list", "lbas", "nand">>
physicalPageWrite    == <<"list", "lbas", "data", "nand">>
physicalPageRead     == <<"list", "lbas", "nand", "data">>
Route12 ==
  [identify |-> deviceIdentification, setBad |-> setBadBlockTable,
   getBad |-> getBadBlockTable, erase12 |-> physicalBlockErase,
   write12 |-> physicalPageWrite, read12 |-> physicalPageRead]

getLogPage        == <<"list", "data">>
geometry          == <<"list", "data">>
read20            == <<"list", "exec", "nand", "data">>
write20           == <<"list", "data", "exec", "nand">>
datasetManagement20 == <<"list", "data", "exec", "nand">>
vectorChunkRead   == <<"list", "lbas", "exec", "nand", "data">>
vectorChunkWrite  == <<"list", "lbas", "exec", "nand", "data">>
vectorChunkReset  == <<"lbas", "exec", "nand">>
Route20 ==
  [chunkLog |-> getLogPage, geometry |-> geometry, read20 |-> read20,
   write20 |-> write20, trim20 |-> datasetManagement20, vread |-> vectorChunkRead,
   vwrite |-> vectorChunkWrite, vreset |-> vectorChunkReset]

Route(op) ==
  CASE op \in DOMAIN Route12 -> Route12[op]
    [] op \in DOMAIN Route20 -> Route20[op]
    [] OTHER -> <<>>

(* What the geometry and the commands are made of. *)
VectorLimit == 64   \* the blocks a vector command can name
OCCommandTypes == [op : STRING, lbas : Seq(Nat), slba : Nat, nlb : Nat, value : Nat]
OCSane ==
  /\ Chunks \in Nat /\ Pages \in Nat \ {0} /\ WriteSize \in Nat \ {0}
  /\ \A s \in Sessions : /\ s \in Seq(OCCommandTypes)
                          /\ \A c \in DOMAIN s : Len(s[c].lbas) <= VectorLimit

FreeChunk == [state |-> "FREE", wp |-> 0, programs |-> <<>>]
Idle == [left |-> <<>>, mask |-> {}, pages |-> 0, got |-> <<>>, entries |-> <<>>]

OCInit ==
  \E s \in Sessions :
    /\ cmds = s /\ started = 0
    /\ chunk = [c \in 0..(Chunks - 1) |-> FreeChunk]
    /\ table = <<>> /\ badBlocks = <<>>
    /\ work = [c \in DOMAIN s |-> Idle]
    /\ replies = [c \in DOMAIN s |-> 0]
    /\ queue = {} /\ armed = 0 /\ lastScheduled = 0 /\ now = 1
    /\ corrupted = FALSE /\ missed = FALSE
-----------------------------------------------------------------------------
(* Addresses. *)

(* parseLBA, parsePPA and convertUnit for one address. *)
Place(lba) == [chunk |-> lba \div ChunkSize,
               page  |-> (lba % ChunkSize) \div WriteSize]

(* mergeList and convertUnit: neighbours in the list that are on the same  *)
(* page, or for an erase in the same chunk, are one entry.                 *)
Merged(out, p, block) ==
  IF out # <<>> /\ Last(out).chunk = p.chunk /\ (block \/ Last(out).page = p.page)
  THEN out ELSE Append(out, p)
Merge(lbas, block) ==
  LET out[i \in 0..Len(lbas)] ==
        IF i = 0 THEN <<>> ELSE Merged(out[i - 1], Place(lbas[i]), block)
  IN out[Len(lbas)]

(* A range command passes {slba, nlb} to convertUnit, which goes from the  *)
(* first to before the second.                                             *)
RangeOf(slba, nlb) == [i \in 1..Max({nlb - slba, 0}) |-> slba + i - 1]

(* writeInternal: entry by entry; an error stays for the entries after it. *)
Behind(d, page) == d.state = "OPEN" /\ d.wp \div WriteSize > page + 1
OutOfOrder(d, page) == d.state = "OPEN" /\ d.wp \div WriteSize > page
Program(d, page) ==
  [state |-> IF page = Pages - 1 THEN "CLOSED" ELSE "OPEN",
   wp |-> (page + 1) * WriteSize, programs |-> Append(d.programs, page)]
WriteEntry(s, i, e) ==
  LET d == s.chunk[e.chunk] IN
  IF s.err \/ d.state = "CLOSED" \/ OutOfOrder(d, e.page)
  THEN [s EXCEPT !.err = TRUE, !.mask = @ \union {i}]
  ELSE [s EXCEPT !.chunk[e.chunk] = Program(d, e.page)]
Untouched == [chunk |-> chunk, err |-> FALSE, mask |-> {}]
WriteEntries(entries) ==
  LET s[i \in 0..Len(entries)] ==
        IF i = 0 THEN Untouched ELSE WriteEntry(s[i - 1], i, entries[i])
  IN s[Len(entries)]

(* eraseInternal: only a closed chunk can be reset; an error stays, and    *)
(* chunks after it are reset all the same.                                 *)
Reset(d) == FreeChunk
EraseEntry(s, i, e) ==
  LET d == s.chunk[e.chunk]
      err == s.err \/ d.state # "CLOSED"
  IN [chunk |-> IF d.state # "CLOSED" THEN s.chunk
                ELSE [s.chunk EXCEPT ![e.chunk] = Reset(d)],
      err |-> err, mask |-> s.mask \union (IF err THEN {i} ELSE {})]
EraseEntries(entries) ==
  LET s[i \in 0..Len(entries)] ==
        IF i = 0 THEN Untouched ELSE EraseEntry(s[i - 1], i, entries[i])
  IN s[Len(entries)]

(* The disk image. *)
Load(lbas) == [i \in DOMAIN lbas |->
                 IF lbas[i] \in DOMAIN table THEN table[lbas[i]] ELSE 0]
Store(set, c) == [b \in DOMAIN table \union set |-> IF b \in set THEN c ELSE table[b]]
Erase(set) == [b \in DOMAIN table \ set |-> table[b]]
Addressed(c) == {cmds[c].lbas[i] : i \in DOMAIN cmds[c].lbas}
Blocks(c) == [i \in 1..cmds[c].nlb |-> cmds[c].slba + i - 1]
BlockSet(c) == {cmds[c].slba + i - 1 : i \in 1..cmds[c].nlb}

(* vectorChunkWrite's dmaDone leaves out a block for which (1 << i) & mask *)
(* is not 0.  The 1 is an int of 32 bits and the mask has 64: the last bit *)
(* an int has is its sign, which fills the bits above it, and what a shift *)
(* further than that gives is undefined, so any of the blocks Beyond may   *)
(* be stored (chance).  The mask has a bit per entry, not per block.       *)
IntBits == 32
Tested(i) == IF i < IntBits THEN {i} ELSE IntBits..VectorLimit
Beyond(lbas) == {i \in DOMAIN lbas : i > IntBits}
StoredAll(lbas, mask, chance) == {lbas[i] : i \in DOMAIN lbas}
Stored(lbas, mask, chance) ==
  {lbas[i] : i \in chance \union {k \in DOMAIN lbas \ Beyond(lbas) :
                                   Tested(k) \intersect mask = {}}}
-----------------------------------------------------------------------------
(* The completion queue. *)

(* updateCompletion on the queue q: nothing is scheduled when the earliest *)
(* entry is for the tick that was scheduled last.                          *)
First(q) == Min({e.at : e \in q})
ScheduledSecond(q) == Cardinality(q) > 1 /\ lastScheduled # First(q)
Scheduled(q) == q # {} /\ lastScheduled # First(q)
UpdateCompletion(q, pending) ==
  IF Scheduled(q)
  THEN /\ lastScheduled' = Max({First(q), now}) /\ armed' = Max({First(q), now})
  ELSE /\ armed' = pending /\ UNCHANGED lastScheduled

(* The flash works on "n" entries: without any the request ends now. *)
Push(c, n) ==
  \E at \in IF n = 0 THEN {now} ELSE (now + 1)..(now + Latency) :
    /\ queue' = queue \union {[cmd |-> c, at |-> at]}
    /\ UpdateCompletion(queue', armed)
    /\ missed' = (missed \/ (at = lastScheduled /\ armed # at))

NoPush == UNCHANGED <<queue, armed, lastScheduled, missed>>

(* The next step of a command, or its answer after the last one. *)
Enter(c, w, n) ==
  /\ work' = [work EXCEPT ![c] = w]
  /\ IF w.left = <<>> THEN replies' = [replies EXCEPT ![c] = @ + 1] /\ NoPush
     ELSE /\ UNCHANGED replies
          /\ IF Head(w.left) = "nand" THEN Push(c, n) ELSE NoPush

(* submitCommand: an unknown opcode or namespace, a read of version 1.2    *)
(* and the log pages other than the chunk log are answered at once.        *)
OCSubmit(c) ==
  /\ ~corrupted /\ c = started + 1 /\ c \in DOMAIN cmds /\ started' = c
  /\ Enter(c, [Idle EXCEPT !.left = Route(cmds[c].op),
                           !.got = IF cmds[c].op = "getBad"
                                   THEN <<badBlocks>> ELSE <<>>], 0)
  /\ UNCHANGED <<cmds, chunk, table, badBlocks, now, corrupted>>

(* What the handlers do when a step of their route ends.  w is the rest of *)
(* the command's work, n the number of entries the flash is called for.    *)
Remaining(c) == [work[c] EXCEPT !.left = Tail(@)]
Vector(c) == Merge(cmds[c].lbas, cmds[c].op \in {"erase12", "vreset"})
Segment(c) == Merge(RangeOf(cmds[c].slba, cmds[c].nlb), cmds[c].op = "trim20")
Plain(c, w, n) == Enter(c, w, n) /\ UNCHANGED <<chunk, table, badBlocks>>

(* What writeInternal or eraseInternal made of the entries. *)
Applied(c, r, entries) ==
  /\ chunk' = r.chunk /\ UNCHANGED badBlocks
  /\ Enter(c, [Remaining(c) EXCEPT
                 !.mask = IF r.err THEN r.mask ELSE {},
                 !.entries = entries,
                 !.pages = Len(entries) -
                           (IF r.err THEN Cardinality(r.mask) ELSE 0)], 0)

EraseRead(c) ==
  /\ table' = Erase(Addressed(c)) /\ Enter(c, Remaining(c), Len(Vector(c)))
  /\ UNCHANGED <<chunk, badBlocks>>
PageWriteData(c) ==
  /\ table' = Store(Addressed(c), c) /\ Enter(c, Remaining(c), Len(Vector(c)))
  /\ UNCHANGED <<chunk, badBlocks>>
PageReadBegin(c) ==
  Plain(c, [Remaining(c) EXCEPT !.got = Load(cmds[c].lbas)], Len(Vector(c)))
SetBad(c) ==
  LET set == Addressed(c) IN
  /\ badBlocks' = IF cmds[c].value = 0
                  THEN [b \in DOMAIN badBlocks \ set |-> badBlocks[b]]
                  ELSE [b \in DOMAIN badBlocks \union set |->
                          IF b \in set THEN cmds[c].value ELSE badBlocks[b]]
  /\ Enter(c, Remaining(c), 0) /\ UNCHANGED <<chunk, table>>
ReadBegin(c) == Plain(c, [Remaining(c) EXCEPT !.pages = Len(Segment(c))], 0)
WriteData(c) ==
  table' = Store(BlockSet(c), c) /\ Applied(c, WriteEntries(Segment(c)), Segment(c))
TrimData(c) ==
  table' = Erase(BlockSet(c)) /\ Applied(c, EraseEntries(Segment(c)), Segment(c))
VectorReadBegin(c) == Plain(c, [Remaining(c) EXCEPT !.pages = Len(Vector(c))], 0)
VectorWriteBegin(c) ==
  UNCHANGED table /\ Applied(c, WriteEntries(Vector(c)), Vector(c))
VectorWriteData(c) ==
  /\ \E chance \in SUBSET Beyond(cmds[c].lbas) :
       table' = Store(Stored(cmds[c].lbas, work[c].mask, chance), c)
  /\ Enter(c, Remaining(c), 0) /\ UNCHANGED <<chunk, badBlocks>>
VectorResetBegin(c) ==
  UNCHANGED table /\ Applied(c, EraseEntries(Vector(c)), Vector(c))

Effect(c, s) ==
  CASE cmds[c].op = "erase12" /\ s = "lbas" -> EraseRead(c)
    [] cmds[c].op = "write12" /\ s = "data" -> PageWriteData(c)
    [] cmds[c].op = "read12"  /\ s = "lbas" -> PageReadBegin(c)
    [] cmds[c].op = "setBad"  /\ s = "data" -> SetBad(c)
    [] cmds[c].op = "read20"  /\ s = "list" -> ReadBegin(c)
    [] cmds[c].op = "write20" /\ s = "data" -> WriteData(c)
    [] cmds[c].op = "trim20"  /\ s = "data" -> TrimData(c)
    [] cmds[c].op = "vread"   /\ s = "lbas" -> VectorReadBegin(c)
    [] cmds[c].op = "vwrite"  /\ s = "lbas" -> VectorWriteBegin(c)
    [] cmds[c].op = "vwrite"  /\ s = "data" -> VectorWriteData(c)
    [] cmds[c].op = "vreset"  /\ s = "lbas" -> VectorResetBegin(c)
    [] OTHER -> Plain(c, Remaining(c), IF s = "exec" THEN work[c].pages ELSE 0)

(* A command that is answered or waits for the flash. *)
AtRest(c) == IF work[c].left = <<>> THEN TRUE ELSE Head(work[c].left) = "nand"

(* A step other than the flash's ends. *)
Proceed(c) ==
  /\ ~corrupted /\ ~AtRest(c)
  /\ Effect(c, Head(work[c].left))
  /\ UNCHANGED <<cmds, started, now, corrupted>>

(* datasetManagement passes its DMAContext as an IOContext, into which     *)
(* eraseInternal writes.                                                   *)
WrongContext(c) ==
  /\ ~corrupted /\ cmds[c].op = "trim20"
  /\ work[c].left # <<>> /\ Head(work[c].left) = "data"
  /\ corrupted' = TRUE
  /\ UNCHANGED <<cmds, started, chunk, table, badBlocks, work, queue, armed,
                 lastScheduled, now, replies, missed>>

(* completion: every entry that is due is called, then the next one is     *)
(* scheduled.  What the call does follows in the same tick.                *)
Completion ==
  /\ ~corrupted /\ armed = now
  /\ LET due == {e \in queue : e.at <= now}
         rest == queue \ due
         ends == {e.cmd : e \in {d \in due : Tail(work[d.cmd].left) = <<>>}}
     IN /\ queue' = rest
        /\ work' = [c \in DOMAIN work |->
             IF \E e \in due : e.cmd = c
             THEN [work[c] EXCEPT !.left = Tail(@),
                     !.got = CASE cmds[c].op = "read20" -> Load(Blocks(c))
                               [] cmds[c].op = "vread" -> Load(cmds[c].lbas)
                               [] OTHER -> @]
             ELSE work[c]]
        /\ replies' = [c \in DOMAIN replies |->
                         replies[c] + (IF c \in ends THEN 1 ELSE 0)]
        /\ UpdateCompletion(rest, 0)
  /\ UNCHANGED <<cmds, started, chunk, table, badBlocks, now, corrupted, missed>>

(* Time passes to the scheduled completion. *)
Tick ==
  /\ ~corrupted /\ armed > now /\ now' = now + 1
  /\ UNCHANGED <<cmds, started, chunk, table, badBlocks, work, queue, armed,
                 lastScheduled, replies, corrupted, missed>>

Done == /\ \/ corrupted
           \/ /\ started = Len(cmds) /\ armed = 0
              /\ \A c \in DOMAIN cmds : AtRest(c)
        /\ UNCHANGED ocvars

OCStep == \/ \E c \in DOMAIN cmds : OCSubmit(c) \/ Proceed(c)
        \/ Completion \/ Tick
OCNext == OCStep \/ (\E c \in DOMAIN cmds : WrongContext(c)) \/ Done

(* Fairness: the event engine runs what is scheduled, that is, whenever a  *)
(* step can be taken one is taken (the weak fairness of OCStep with its      *)
(* guard written out).                                                     *)
CanStep ==
  /\ ~corrupted
  /\ \/ started < Len(cmds) \/ armed >= now
     \/ \E c \in DOMAIN cmds : ~AtRest(c)
OCSpec == OCInit /\ [][OCNext]_ocvars /\ (<>[]CanStep => []<><<OCStep>>_ocvars)
-----------------------------------------------------------------------------
(* Properties. *)

(* A page is programmed at most once between two resets of its chunk, in   *)
(* ascending order, and a closed chunk is full (writeInternal's checks,    *)
(* across vector commands in flight and lists with several chunks).        *)
ProgramOnce ==
  \A k \in DOMAIN chunk :
    LET p == chunk[k].programs IN
    /\ \A i, j \in DOMAIN p : i < j => p[i] < p[j]
    /\ chunk[k].state = "CLOSED" <=> (p # <<>> /\ Last(p) = Pages - 1)

(* A vector write stores none of the first 32 blocks of its list that it   *)
(* refused, when each of its entries is one block; where neighbours share  *)
(* a page, the mask that vectorChunkWrite takes for blocks counts pages.   *)
(* A refused block further on, whose bit the shift misses, may be stored.  *)
StoredIsAccepted ==
  \A c \in DOMAIN cmds :
    (cmds[c].op = "vwrite" /\ work[c].left = <<>> /\ replies[c] = 1
       /\ (work[c].mask = {} \/ Len(work[c].entries) = Len(cmds[c].lbas))) =>
      \A i \in DOMAIN cmds[c].lbas :
        i \in work[c].mask /\ i <= IntBits =>
          \/ cmds[c].lbas[i] \notin DOMAIN table
          \/ table[cmds[c].lbas[i]] # c
          \/ \E j \in DOMAIN cmds[c].lbas :
               /\ j \notin work[c].mask \/ j > IntBits
               /\ cmds[c].lbas[j] = cmds[c].lbas[i]

(* Every command is answered once, unless a request ended in the very tick *)
(* whose completions were already handled: updateCompletion then schedules *)
(* nothing.                                                                *)
Replied == corrupted \/ missed \/ \A c \in DOMAIN cmds : replies[c] = 1
=============================================================================
