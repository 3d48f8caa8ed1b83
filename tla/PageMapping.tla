---------------------------- MODULE PageMapping ----------------------------
(***************************************************************************)
(* The page-level flash translation layer: ftl/page_mapping.cc and the     *)
(* Block objects of ftl/common/block.cc it drives.                         *)
(*                                                                         *)
(* One command of the cache layer (write, read, trim, format) runs to its  *)
(* end before the next one starts.  A command that needs garbage           *)
(* collection is a run of steps driven by pc: selectVictimBlock, then one  *)
(* step per page of the victims (the loop that only updates metadata),     *)
(* then the flash I/O, then one eraseInternal per victim.                  *)
(*                                                                         *)
(* Simulated time, the latency calls and the statistics counters are left  *)
(* out.  What the program never holds but its PAL requests imply, the      *)
(* content of the flash pages, is the variable flash.                      *)
(***************************************************************************)
EXTENDS Integers, Sequences, FiniteSets, SequencesExt

CONSTANTS
  TotalPhysicalBlocks,  \* param.totalPhysicalBlocks
  PagesInBlock,         \* param.pagesInBlock
  IoUnitInPage,         \* param.ioUnitInPage
  PageCountToMaxPerf,   \* param.pageCountToMaxPerf, the number of open blocks
  TotalLogicalPages,    \* param.totalLogicalBlocks * param.pagesInBlock
  RandomTweak,          \* FTL_USE_RANDOM_IO_TWEAK
  GCThreshold,          \* GC starts below this many free blocks
  GCMode,               \* FTL_GC_MODE: 0 or 1
  ReclaimBlocks,        \* FTL_GC_RECLAIM_BLOCK, used by mode 0
  ReclaimTarget,        \* free blocks mode 1 aims at
  EvictPolicy,          \* "GREEDY", "COST_BENEFIT", "RANDOM" or "DCHOICE"
  DChoiceParam,         \* FTL_GC_D_CHOICE_PARAM
  BadBlockThreshold,    \* FTL_BAD_BLOCK_THRESHOLD
  FillingMode,          \* FTL_FILLING_MODE: 0, 1 or 2
  NPagesToWarmup,       \* logical pages * FTL_FILL_RATIO
  NPagesToInvalidate,   \* logical pages * FTL_INVALID_PAGE_RATIO
  Commands,             \* the commands the cache layer issues in this instance
  Data,                 \* what a write can store in an I/O unit
  NoData                \* an erased I/O unit

ASSUME GeometryAssumption ==
  /\ PagesInBlock \in Nat \ {0}
  /\ IoUnitInPage \in Nat \ {0}
  /\ PageCountToMaxPerf \in Nat \ {0}
  /\ TotalLogicalPages \in Nat \ {0}
  /\ TotalPhysicalBlocks \in Nat
  /\ TotalPhysicalBlocks > PageCountToMaxPerf
  /\ RandomTweak \in BOOLEAN

ASSUME PolicyAssumption ==
  /\ GCThreshold \in Nat
  /\ GCMode \in {0, 1}
  /\ ReclaimBlocks \in Nat
  /\ ReclaimTarget \in Nat
  /\ ReclaimTarget >= GCThreshold
  /\ EvictPolicy \in {"GREEDY", "COST_BENEFIT", "RANDOM", "DCHOICE"}
  /\ DChoiceParam \in Nat
  /\ BadBlockThreshold \in Nat

ASSUME FillAssumption ==
  /\ FillingMode \in {0, 1, 2}
  /\ NPagesToWarmup \in 0..TotalLogicalPages
  /\ NPagesToInvalidate \in 0..TotalLogicalPages
  /\ FillingMode = 1 => NPagesToWarmup > 0

ASSUME DataAssumption ==
  /\ Data # {}
  /\ NoData \notin Data

Blocks == 0..(TotalPhysicalBlocks - 1)
Pages  == 0..(PagesInBlock - 1)
Lpns   == 0..(TotalLogicalPages - 1)
Opens  == 0..(PageCountToMaxPerf - 1)

(* bitsetSize: a logical page is mapped unit by unit only with the tweak.  *)
Units == 0..((IF RandomTweak THEN IoUnitInPage ELSE 1) - 1)

(* The mapping entry writeInternal creates before it knows the address.    *)
NoAddr == <<TotalPhysicalBlocks, PagesInBlock>>
Addrs  == Blocks \X Pages
Slots  == Blocks \X Pages \X Units

VARIABLES
  table,               \* [lpn][unit] -> address, NoAddr when not mapped
  blocks,              \* keys of the map of blocks in use
  freeBlocks,          \* the free list, cold blocks first
  lastFreeBlock,       \* the open block of each parallel unit
  lastFreeBlockIndex,
  lastFreeBlockIOMap,
  bReclaimMore,
  valid,               \* Block: validBits, the set of valid units of a page
  lpns,                \* Block: ppLPNs, never cleared
  nextWrite,           \* Block: pNextWritePageIndex
  eraseCount,          \* Block: eraseCount
  pc,                  \* where the running command is
  panic,               \* the message of the panic that stopped the program
  filled,              \* writes done by initialize
  victims,             \* blocksToReclaim
  gcBlock, gcPage,     \* the loop variables of doGarbageCollection
  copies,              \* its readRequests and writeRequests, paired
  flash                \* what the flash holds in each I/O unit

mapVars   == <<table, valid, lpns, nextWrite>>
poolVars  == <<blocks, freeBlocks, eraseCount>>
openVars  == <<lastFreeBlock, lastFreeBlockIndex, lastFreeBlockIOMap,
               bReclaimMore>>
gcVars    == <<victims, gcBlock, gcPage, copies>>
vars == <<mapVars, poolVars, openVars, gcVars, pc, panic, filled, flash>>

-----------------------------------------------------------------------------
(* Block                                                                   *)

(* getNextWritePageIndex() == pagesInBlock: the furthest unit is at the end *)
IsFull(b) == \E i \in Units : nextWrite[b][i] = PagesInBlock

(* getValidPageCountRaw *)
ValidPageCountRaw(b) ==
  Cardinality({s \in Pages \X Units : s[2] \in valid[b][s[1]]})

(* Mutated form: the valid bits are not consulted.                         *)
PageInfoAll(b, p) == Units

(* getPageInfo: the units GC must move.  A block with a single I/O unit    *)
(* reports its page whatever its valid bit says.                           *)
PageInfo(b, p) == IF IoUnitInPage = 1 THEN Units ELSE valid[b][p]

-----------------------------------------------------------------------------
(* Free blocks and open blocks                                             *)

nFreeBlocks == Len(freeBlocks)

(* getFreeBlock: first block of the wanted parallel unit, else the first.  *)
FreePosition(idx) ==
  LET fits == {k \in 1..Len(freeBlocks) :
                 freeBlocks[k] % PageCountToMaxPerf = idx}
  IN IF fits = {} THEN 1
     ELSE CHOOSE k \in fits : \A j \in fits : k <= j

(* Mutated form: the block handed out stays on the list.                   *)
FreeBlocksKept(idx) == freeBlocks

FreeBlocksWithout(idx) == RemoveAt(freeBlocks, FreePosition(idx))

(* getLastFreeBlock(iomap): the open block the next write goes to, after   *)
(* replacing it when it is full.                                           *)
Advances(iomap) == ~RandomTweak \/ lastFreeBlockIOMap \cap iomap # {}

OpenIndex(iomap) ==
  IF ~Advances(iomap) THEN lastFreeBlockIndex
  ELSE IF lastFreeBlockIndex + 1 = PageCountToMaxPerf THEN 0
  ELSE lastFreeBlockIndex + 1

OpenBlock(iomap)  == lastFreeBlock[OpenIndex(iomap)]
OpenIsFull(iomap) == IsFull(OpenBlock(iomap))

GetBlockPanic(iomap) ==
  IF OpenBlock(iomap) \notin blocks THEN "Corrupted"
  ELSE IF OpenIsFull(iomap) /\ nFreeBlocks = 0 THEN "No free block left"
  ELSE "none"

TargetBlock(iomap) ==
  IF OpenIsFull(iomap) THEN freeBlocks[FreePosition(OpenIndex(iomap))]
  ELSE OpenBlock(iomap)

(* Mutated form: the new block is not remembered as the open one.          *)
GetLastFreeBlockForgets(iomap) ==
  /\ lastFreeBlockIndex' = OpenIndex(iomap)
  /\ lastFreeBlockIOMap' = IF Advances(iomap) THEN iomap
                           ELSE lastFreeBlockIOMap \cup iomap
  /\ IF OpenIsFull(iomap)
     THEN /\ blocks' = blocks \cup {TargetBlock(iomap)}
          /\ freeBlocks' = FreeBlocksWithout(OpenIndex(iomap))
          /\ bReclaimMore' = TRUE
     ELSE UNCHANGED <<blocks, freeBlocks, bReclaimMore>>
  /\ UNCHANGED lastFreeBlock

GetLastFreeBlock(iomap) ==
  /\ lastFreeBlockIndex' = OpenIndex(iomap)
  /\ lastFreeBlockIOMap' = IF Advances(iomap) THEN iomap
                           ELSE lastFreeBlockIOMap \cup iomap
  /\ IF OpenIsFull(iomap)
     THEN /\ blocks' = blocks \cup {TargetBlock(iomap)}
          /\ freeBlocks' = FreeBlocksWithout(OpenIndex(iomap))
          /\ lastFreeBlock' =
               [lastFreeBlock EXCEPT ![OpenIndex(iomap)] = TargetBlock(iomap)]
          /\ bReclaimMore' = TRUE
     ELSE UNCHANGED <<blocks, freeBlocks, lastFreeBlock, bReclaimMore>>

(* Mutated form: the write pointer stays where it is.                      *)
ProgramInPlace(t, io, owner) ==
  /\ lpns' = [lpns EXCEPT ![t] =
       [p \in Pages |-> [i \in Units |->
          IF i \in io /\ p = nextWrite[t][i] THEN owner[i] ELSE lpns[t][p][i]]]]
  /\ UNCHANGED nextWrite

(* Block::write of every unit of io into block t: unit i goes to the next  *)
(* page of its column and remembers the logical page owner[i].             *)
Program(t, io, owner) ==
  /\ lpns' = [lpns EXCEPT ![t] =
       [p \in Pages |-> [i \in Units |->
          IF i \in io /\ p = nextWrite[t][i] THEN owner[i] ELSE lpns[t][p][i]]]]
  /\ nextWrite' = [nextWrite EXCEPT ![t] =
       [i \in Units |-> IF i \in io THEN nextWrite[t][i] + 1
                                    ELSE nextWrite[t][i]]]

Panic(msg) ==
  /\ pc' = "panic"
  /\ panic' = msg
  /\ UNCHANGED <<mapVars, poolVars, openVars, gcVars, filled, flash>>

-----------------------------------------------------------------------------
(* Commands                                                                *)

Mapped(l) == \E i \in Units : table[l][i] # NoAddr

(* ioFlag as the loops over bitsetSize see it: without the tweak every     *)
(* request moves the whole page.                                           *)
IoFlags == (SUBSET Units) \ {{}}

(* Mutated form: the old copy of a page stays valid.                       *)
NothingStale(l, io, b, p) == {}

(* "Invalidate current page": the units a write makes stale.               *)
Stale(l, io, b, p) == {i \in io : table[l][i] = <<b, p>>}

(* writeInternal up to the GC check; d is the data of the request.         *)
WriteInternal(l, io, d, next) ==
  IF GetBlockPanic(io) # "none" THEN Panic(GetBlockPanic(io))
  ELSE LET t == TargetBlock(io) IN
    /\ GetLastFreeBlock(io)
    /\ Program(t, io, [i \in Units |-> l])
    /\ valid' = [b \in Blocks |-> [p \in Pages |->
          (valid[b][p] \ Stale(l, io, b, p))
            \cup {i \in io : b = t /\ p = nextWrite[t][i]}]]
    /\ table' = [table EXCEPT ![l] =
          [i \in Units |-> IF i \in io THEN <<t, nextWrite[t][i]>>
                                       ELSE table[l][i]]]
    /\ flash' = [flash EXCEPT ![t] = [p \in Pages |-> [i \in Units |->
          IF i \in io /\ p = nextWrite[t][i] THEN d ELSE flash[t][p][i]]]]
    /\ pc' = next
    /\ UNCHANGED <<eraseCount, gcVars, panic>>

(* freeBlockRatio() < gcThreshold, on the free list the write leaves.      *)
GCNeeded(io) ==
  nFreeBlocks - (IF OpenIsFull(io) THEN 1 ELSE 0) < GCThreshold

Write(l, io, d) ==
  /\ pc = "idle"
  /\ "write" \in Commands
  /\ WriteInternal(l, io, d, IF GCNeeded(io) THEN "select" ELSE "idle")
  /\ UNCHANGED filled

(* readInternal changes nothing; it dies on a mapping into a block that is *)
(* not in use.                                                             *)
Read(l, io) ==
  /\ pc = "idle"
  /\ "read" \in Commands
  /\ IF \E i \in io : table[l][i] # NoAddr /\ table[l][i][1] \notin blocks
     THEN Panic("Block is not in use")
     ELSE UNCHANGED vars

(* The loops of trimInternal and format look up the block of every unit,   *)
(* mapped or not.                                                          *)
TrimPanics(ls) ==
  \E l \in ls : Mapped(l) /\ \E i \in Units : table[l][i][1] \notin blocks

(* Mutated form: the mapping entries survive.                              *)
UnmapKeepsEntry(ls) ==
  /\ valid' = [b \in Blocks |-> [p \in Pages |->
        valid[b][p] \ {i \in Units : \E l \in ls : table[l][i] = <<b, p>>}]]
  /\ UNCHANGED table

Unmap(ls) ==
  /\ valid' = [b \in Blocks |-> [p \in Pages |->
        valid[b][p] \ {i \in Units : \E l \in ls : table[l][i] = <<b, p>>}]]
  /\ table' = [l \in Lpns |-> IF l \in ls THEN [i \in Units |-> NoAddr]
                                          ELSE table[l]]

Trim(l) ==
  /\ pc = "idle"
  /\ "trim" \in Commands
  /\ IF TrimPanics({l}) THEN Panic("Block is not in use")
     ELSE /\ Unmap({l})
          /\ UNCHANGED <<lpns, nextWrite, poolVars, openVars, gcVars, pc,
                         panic, filled, flash>>

(* format: trim the range, then collect the blocks it had pages in, in     *)
(* ascending order and whether or not they are full or open.               *)
BlocksOf(ls) ==
  {b \in Blocks : \E l \in ls, i \in Units, p \in Pages :
                     table[l][i] = <<b, p>>}

(* std::sort and std::unique: the members of a set in ascending order.     *)
AscendingLists(B) ==
  {s \in [1..Cardinality(B) -> B] : \A j, k \in DOMAIN s : j < k => s[j] < s[k]}

Format(slpn, nlp) ==
  LET ls == {l \in Lpns : slpn <= l /\ l < slpn + nlp} IN
  /\ pc = "idle"
  /\ "format" \in Commands
  /\ IF TrimPanics(ls) THEN Panic("Block is not in use")
     ELSE /\ Unmap(ls)
          /\ victims' \in AscendingLists(BlocksOf(ls))
          /\ gcBlock' = 1
          /\ gcPage' = 0
          /\ copies' = {}
          /\ pc' = IF BlocksOf(ls) = {} THEN "idle" ELSE "collect"
          /\ UNCHANGED <<lpns, nextWrite, poolVars, openVars, panic, filled,
                         flash>>

-----------------------------------------------------------------------------
(* initialize: warm-up writes that must not start a collection.  They are  *)
(* not sent to the PAL; the page is taken to hold what it stands for.      *)

(* Mutated form: the threshold is not subtracted.                          *)
MaxPagesNoThreshold == PagesInBlock * (TotalPhysicalBlocks - PageCountToMaxPerf)

MaxPagesBeforeGC ==
  PagesInBlock * (TotalPhysicalBlocks - GCThreshold - PageCountToMaxPerf)

(* The unsigned difference wraps when the warm-up alone is too large; any  *)
(* count beyond the physical pages behaves like the wrapped one.           *)
WrappedCount == TotalPhysicalBlocks * PagesInBlock + 1

PagesToInvalidate ==
  IF NPagesToWarmup + NPagesToInvalidate <= MaxPagesBeforeGC
  THEN NPagesToInvalidate
  ELSE IF NPagesToWarmup <= MaxPagesBeforeGC
       THEN MaxPagesBeforeGC - NPagesToWarmup
       ELSE WrappedCount

FillLpns ==
  IF filled < NPagesToWarmup
  THEN IF FillingMode = 2 THEN Lpns ELSE {filled}
  ELSE CASE FillingMode = 0 -> {filled - NPagesToWarmup} \cap Lpns
         [] FillingMode = 1 -> 0..(NPagesToWarmup - 1)
         [] FillingMode = 2 -> Lpns

Fill(l, d) ==
  /\ pc = "fill"
  /\ filled < NPagesToWarmup + PagesToInvalidate
  /\ l \in FillLpns
  /\ IF GetBlockPanic(Units) # "none" THEN Panic(GetBlockPanic(Units))
     ELSE IF GCNeeded(Units)
     THEN Panic("ftl: GC triggered while in initialization")
     ELSE /\ WriteInternal(l, Units, d, "fill")
          /\ filled' = filled + 1

FillDone ==
  /\ pc = "fill"
  /\ filled = NPagesToWarmup + PagesToInvalidate
  /\ pc' = "idle"
  /\ UNCHANGED <<mapVars, poolVars, openVars, gcVars, panic, filled, flash>>

-----------------------------------------------------------------------------
(* Garbage collection                                                      *)

FullBlocks == {b \in blocks : IsFull(b)}

BlocksToReclaim ==
  (IF GCMode = 0 THEN ReclaimBlocks ELSE ReclaimTarget - nFreeBlocks)
  + (IF bReclaimMore THEN PageCountToMaxPerf ELSE 0)

(* The blocks the random policies draw before they sort.                   *)
SampleSize ==
  CASE EvictPolicy = "RANDOM"  -> BlocksToReclaim
    [] EvictPolicy = "DCHOICE" -> DChoiceParam * BlocksToReclaim
    [] OTHER -> Cardinality(FullBlocks)

(* The cost-benefit weight also depends on the age of the block, which is  *)
(* not modelled: every order is possible.                                  *)
Weight(b) == IF EvictPolicy = "COST_BENEFIT" THEN 0 ELSE ValidPageCountRaw(b)

(* The victim lists that sorting a sample by weight can give.              *)
VictimLists ==
  LET n == IF BlocksToReclaim < SampleSize THEN BlocksToReclaim
           ELSE SampleSize
  IN {s \in [1..n -> FullBlocks] :
        /\ \A j, k \in 1..n : j < k => s[j] # s[k] /\ Weight(s[j]) <= Weight(s[k])
        /\ \E sample \in SUBSET FullBlocks :
             /\ Cardinality(sample) = SampleSize
             /\ \A k \in 1..n : s[k] \in sample
             /\ \A b \in sample : \/ \E k \in 1..n : s[k] = b
                                  \/ \A k \in 1..n : Weight(s[k]) <= Weight(b)}

(* selectVictimBlock.  The random policies draw distinct blocks until they *)
(* have SampleSize of them, forever if there are fewer full blocks; if     *)
(* there is none the first draw is beyond the list, and the exception of   *)
(* weight.at ends the program.                                             *)
SelectVictim ==
  /\ pc = "select"
  /\ bReclaimMore' = FALSE
  /\ gcBlock' = 1
  /\ gcPage' = 0
  /\ copies' = {}
  /\ IF SampleSize > Cardinality(FullBlocks)
     THEN /\ pc' = IF FullBlocks = {} THEN "panic" ELSE "hang"
          /\ victims' = <<>>
     ELSE /\ victims' \in VictimLists
          /\ pc' = IF victims' = <<>> THEN "idle" ELSE "collect"
  /\ UNCHANGED <<mapVars, poolVars, lastFreeBlock, lastFreeBlockIndex,
                 lastFreeBlockIOMap, panic, filled, flash>>

Victim == victims[gcBlock]

(* Mutated form: the outer loop does not advance.                          *)
NextPageStuck ==
  IF gcPage + 1 < PagesInBlock
  THEN gcPage' = gcPage + 1 /\ UNCHANGED <<gcBlock, pc>>
  ELSE gcPage' = 0 /\ UNCHANGED <<gcBlock, pc>>

(* The next iteration of the two nested loops.                             *)
NextPage ==
  IF gcPage + 1 < PagesInBlock
  THEN gcPage' = gcPage + 1 /\ UNCHANGED <<gcBlock, pc>>
  ELSE /\ gcPage' = 0
       /\ IF gcBlock < Len(victims)
          THEN gcBlock' = gcBlock + 1 /\ UNCHANGED pc
          ELSE gcBlock' = 1 /\ pc' = "io"

(* One page of the collection loop: move its units to the open block in    *)
(* the metadata and queue the flash read and write.                        *)
CollectPage ==
  LET io == PageInfo(Victim, gcPage)
      owner == lpns[Victim][gcPage] IN
  /\ pc = "collect"
  /\ IF Victim \notin blocks THEN Panic("Invalid block")
     ELSE IF io = {}
     THEN /\ NextPage
          /\ UNCHANGED <<mapVars, poolVars, openVars, victims, copies, panic,
                         filled, flash>>
     ELSE IF GetBlockPanic(io) # "none" THEN Panic(GetBlockPanic(io))
     ELSE IF \E i \in io : ~Mapped(owner[i])
     THEN Panic("Invalid mapping table entry")
     ELSE LET t == TargetBlock(io) IN
       /\ GetLastFreeBlock(io)
       /\ Program(t, io, owner)
       /\ valid' = [b \in Blocks |-> [p \in Pages |->
             (valid[b][p] \ (IF b = Victim /\ p = gcPage THEN io ELSE {}))
               \cup {i \in io : b = t /\ p = nextWrite[t][i]}]]
       /\ table' = [l \in Lpns |-> [i \in Units |->
             IF i \in io /\ owner[i] = l THEN <<t, nextWrite[t][i]>>
                                         ELSE table[l][i]]]
       /\ copies' = copies \cup
             {[from |-> <<Victim, gcPage, i>>, to |-> <<t, nextWrite[t][i], i>>] :
                i \in io}
       /\ NextPage
       /\ UNCHANGED <<eraseCount, victims, panic, filled, flash>>

(* "Do actual I/O here": every queued read, then every queued write.       *)
Content(b, p, i) ==
  IF \E c \in copies : c.to = <<b, p, i>>
  THEN LET c == CHOOSE c \in copies : c.to = <<b, p, i>>
       IN flash[c.from[1]][c.from[2]][c.from[3]]
  ELSE flash[b][p][i]

CopyPages ==
  /\ pc = "io"
  /\ flash' = [b \in Blocks |-> [p \in Pages |-> [i \in Units |->
                 Content(b, p, i)]]]
  /\ copies' = {}
  /\ pc' = "erase"
  /\ UNCHANGED <<mapVars, poolVars, openVars, victims, gcBlock, gcPage, panic,
                 filled>>

(* eraseInternal puts the block behind the last free block that is not     *)
(* more worn than it.                                                      *)
FreeListPosition(n) ==
  LET before == {k \in 1..Len(freeBlocks) : eraseCount[freeBlocks[k]] <= n}
  IN IF before = {} THEN 1
     ELSE (CHOOSE k \in before : \A j \in before : j <= k) + 1

(* Mutated form: a block is used once more.                                *)
ReusableAtLimit(n) == n <= BadBlockThreshold

(* Mutated form: a block is retired one erase early.                       *)
ReusableShort(n) == n + 1 < BadBlockThreshold

Reusable(n) == n < BadBlockThreshold

EraseBlock ==
  /\ pc = "erase"
  /\ IF Victim \notin blocks THEN Panic("No such block")
     ELSE IF \E p \in Pages : valid[Victim][p] # {}
     THEN Panic("There are valid pages in victim block")
     ELSE
       /\ eraseCount' = [eraseCount EXCEPT ![Victim] = @ + 1]
       /\ nextWrite' = [nextWrite EXCEPT ![Victim] = [i \in Units |-> 0]]
       /\ flash' = [flash EXCEPT ![Victim] =
                      [p \in Pages |-> [i \in Units |-> NoData]]]
       /\ freeBlocks' =
            IF Reusable(eraseCount[Victim] + 1)
            THEN InsertAt(freeBlocks,
                          FreeListPosition(eraseCount[Victim] + 1), Victim)
            ELSE freeBlocks
       /\ blocks' = blocks \ {Victim}
       /\ IF gcBlock < Len(victims)
          THEN gcBlock' = gcBlock + 1 /\ UNCHANGED pc
          ELSE gcBlock' = 1 /\ pc' = "idle"
       /\ UNCHANGED <<table, valid, lpns, openVars, victims, gcPage, copies,
                      panic, filled>>

-----------------------------------------------------------------------------
(* The constructor opens block i for parallel unit i.                      *)
Init ==
  /\ table = [l \in Lpns |-> [i \in Units |-> NoAddr]]
  /\ blocks = Opens
  /\ freeBlocks = [k \in 1..(TotalPhysicalBlocks - PageCountToMaxPerf) |->
                     PageCountToMaxPerf + k - 1]
  /\ lastFreeBlock = [o \in Opens |-> o]
  /\ lastFreeBlockIndex = 0
  /\ lastFreeBlockIOMap = {}
  /\ bReclaimMore = FALSE
  /\ valid = [b \in Blocks |-> [p \in Pages |-> {}]]
  /\ lpns = [b \in Blocks |-> [p \in Pages |-> [i \in Units |-> 0]]]
  /\ nextWrite = [b \in Blocks |-> [i \in Units |-> 0]]
  /\ eraseCount = [b \in Blocks |-> 0]
  /\ pc = "fill"
  /\ panic = "none"
  /\ filled = 0
  /\ victims = <<>>
  /\ gcBlock = 1
  /\ gcPage = 0
  /\ copies = {}
  /\ flash = [b \in Blocks |-> [p \in Pages |-> [i \in Units |-> NoData]]]

(* A panic and an exception end the simulator; a hang never returns.       *)
Stopped == pc \in {"panic", "hang"} /\ UNCHANGED vars

Next ==
  \/ \E l \in Lpns, d \in Data : Fill(l, d)
  \/ FillDone
  \/ \E l \in Lpns, io \in IoFlags, d \in Data : Write(l, io, d)
  \/ \E l \in Lpns, io \in IoFlags : Read(l, io)
  \/ \E l \in Lpns : Trim(l)
  \/ \E s \in Lpns, n \in 1..TotalLogicalPages : Format(s, n)
  \/ SelectVictim
  \/ CollectPage
  \/ CopyPages
  \/ EraseBlock
  \/ Stopped

Spec == Init /\ [][Next]_vars

(* A collection runs inside the command that started it: once it starts,   *)
(* the single simulator thread takes its next step.                        *)
Collection == SelectVictim \/ CollectPage \/ CopyPages \/ EraseBlock

FairSpec == Spec /\ WF_vars(Collection)

-----------------------------------------------------------------------------
(* Type correctness of the FTL's tables, lists and loop variables.         *)
TypeOK ==
  /\ table \in [Lpns -> [Units -> Addrs \cup {NoAddr}]]
  /\ blocks \in SUBSET Blocks
  /\ freeBlocks \in Seq(Blocks)
  /\ lastFreeBlock \in [Opens -> Blocks]
  /\ lastFreeBlockIndex \in Opens
  /\ lastFreeBlockIOMap \in SUBSET Units
  /\ bReclaimMore \in BOOLEAN
  /\ valid \in [Blocks -> [Pages -> SUBSET Units]]
  /\ lpns \in [Blocks -> [Pages -> [Units -> Lpns]]]
  /\ nextWrite \in [Blocks -> [Units -> 0..PagesInBlock]]
  /\ eraseCount \in [Blocks -> Nat]
  /\ pc \in {"fill", "idle", "select", "collect", "io", "erase", "panic", "hang"}
  /\ filled \in Nat
  /\ victims \in Seq(Blocks)
  /\ gcBlock \in Nat \ {0}
  /\ gcPage \in Pages
  /\ copies \in SUBSET [from : Slots, to : Slots]
  /\ flash \in [Blocks -> [Pages -> [Units -> Data \cup {NoData}]]]

(* The collection loops stay inside the victim list.                       *)
GCLoopInRange == pc \in {"collect", "io", "erase"} => gcBlock <= Len(victims)

(* Only written units are valid, so the unit a block hands out next never  *)
(* holds data.                                                             *)
ValidIsWritten ==
  \A b \in Blocks, p \in Pages, i \in Units :
    i \in valid[b][p] => p < nextWrite[b][i]

(* Every mapped unit of a logical page lies in a block in use, on a valid  *)
(* flash unit that remembers that logical page: no overwrite, trim or      *)
(* collection leaves an entry that points to freed or foreign data.        *)
MappedIsValid ==
  \A l \in Lpns, i \in Units, b \in Blocks, p \in Pages :
    table[l][i] = <<b, p>> =>
      /\ b \in blocks
      /\ i \in valid[b][p]
      /\ lpns[b][p][i] = l

(* Every valid flash unit is the one its logical page maps to: no stale    *)
(* copy of a page stays valid, so collection never revives old data.       *)
ValidIsMapped ==
  \A b \in Blocks, p \in Pages, i \in Units :
    i \in valid[b][p] => table[lpns[b][p][i]][i] = <<b, p>>

(* A block is in use or on the free list, never both, never twice listed,  *)
(* and a free block is erased.                                             *)
FreeListSound ==
  /\ \A j, k \in 1..Len(freeBlocks) :
       j # k => freeBlocks[j] # freeBlocks[k]
  /\ \A k \in 1..Len(freeBlocks) :
       /\ freeBlocks[k] \notin blocks
       /\ \A i \in Units : nextWrite[freeBlocks[k]][i] = 0

(* A unit reads back what its mapping entry points to; between the         *)
(* metadata loop of a collection and its flash I/O the data is still on    *)
(* the page it will be copied from.                                        *)
ReadBack(l, i) ==
  IF table[l][i] = NoAddr THEN NoData
  ELSE Content(table[l][i][1], table[l][i][2], i)

Disk == INSTANCE LogicalDisk
          WITH disk  <- [l \in Lpns |-> [i \in Units |-> ReadBack(l, i)]],
               ready <- pc \in {"fill", "idle"}

(* Every write, trim and format has exactly its logical effect, and no     *)
(* victim selection, page move or block erase changes what a page reads.   *)
ImplementsLogicalDisk == Disk!Spec

(* The open block of every parallel unit is in use, so getLastFreeBlock    *)
(* never meets panic("Corrupted").                                         *)
OpenBlocksInUse ==
  pc \notin {"panic", "hang"} => \A o \in Opens : lastFreeBlock[o] \in blocks

(* A block erased BadBlockThreshold times never carries data again.        *)
WornOut == {b \in Blocks : eraseCount[b] >= BadBlockThreshold}

RetiredNeverReused ==
  \A b \in WornOut : b \notin blocks /\ \A k \in 1..Len(freeBlocks) :
                                          freeBlocks[k] # b

(* Collection keeps up with the writes: panic("No free block left") is met *)
(* only once blocks have been retired.                                     *)
RunsOutOnlyWhenWorn == panic = "No free block left" => WornOut # {}

(* "I assumed that init procedure never invokes GC" (writeInternal).       *)
FillNeverCollects == panic # "ftl: GC triggered while in initialization"

(* A collection that starts ends, with the command it is part of.          *)
CollectionEnds == pc = "select" ~> pc \in {"idle", "panic"}

(* Flash discipline: a unit is programmed only when it is erased, and it   *)
(* loses its content only when its whole block is erased.                  *)
EraseBeforeProgram ==
  [][\A b \in Blocks :
        \/ \A p \in Pages, i \in Units :
             flash'[b][p][i] # flash[b][p][i] => flash[b][p][i] = NoData
        \/ \A p \in Pages, i \in Units : flash'[b][p][i] = NoData]_vars

=============================================================================
