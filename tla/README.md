# A TLA+ model of the SimpleSSD storage stack

The repository is SimpleSSD 2.0, a discrete-event simulator of a solid-state
drive, extended with in-storage computing (ISC, "slets") and a scheduler that
shares the device between users. This directory holds TLA+ modules for the parts
that carry its control, TLC configurations that check them on small instances,
and TLAPS proofs about nine of them for every size.

`PROJECT.json` is the index: components, runs, mutants (a property together with
a plausible bug that breaks it), the map from definitions to source lines,
hazards, findings and theorems.

## 1. Inventory

A command travels downwards, its answer upwards:

    NVMe / SATA / UFS controller        hil/nvme, hil/sata, hil/ufs
      -> host interface layer (HIL)     hil/hil.cc       on cores: cpu/cpu.cc
          -> FCFS or credit scheduler   hil/scheduler
              -> internal cache (ICL)   icl
                  -> FTL                ftl
                      -> PAL            pal      flash timing and statistics
    ISC runtime and slets               isc      call the FTL directly, through
                                                 the credit gate of the scheduler

Everything runs in one thread. Concurrency comes from events: `schedule`,
`deschedule` and callbacks decide who runs next, and two events of one tick may
run in either order. Calls from HIL down to PAL are synchronous and return a
completion *tick*, which may lie far ahead of the simulator's clock. That is the
source of most of the hard behaviour: time inside a call and time outside it
differ.

| Component | State it keeps | Operations | What makes it correct |
|---|---|---|---|
| Page-mapping FTL (`ftl/page_mapping.cc`, `ftl/common/block.cc`) | mapping table, map of used blocks, free list, open block per parallel unit, valid bits, LPNs, write pointers and erase counts of blocks | initialize (warm-up), write, read, trim, format, victim selection, collection, erase | behaves as a disk; table and valid bits agree; flash is erased before it is programmed; wear order and retirement; collection ends |
| Internal cache (`icl/generic_cache.cc`) | lines with valid and dirty bits and tags, sequential detection, prefetch position | read, write, flush, trim, format, evict | nothing written is lost or cached twice; reads see the newest content; discarded data does not return |
| Credit scheduler (`hil/scheduler/credit_scheduler.cc`) | account per user, five queues, refill phase and timer | submitRequest, tick, processUntil, refill timer, ISC gates, reset | budget neither made nor lost; rate never exceeded; every request carried out once and before its caller goes on; timer not lost |
| FCFS scheduler | one queue, statistics | submitRequest, tick, processUntil | passes requests through in order |
| HIL (`hil/hil.cc`) | completion queue, one completion event, the current scheduler and the global pointer to it | read, write, flush, trim, format, isc_get, isc_set, switchScheduler, completion | each request answered once, on time; wake-up never lost |
| Firmware cores (`cpu/cpu.cc`) | job queue and event of each core | execute, jobDone, applyLatency | no job stranded |
| Event engine (`sim/`) | forwards to an engine outside the repository | schedule, deschedule | one pending tick per event, time monotone |
| NVMe controller and queues | submission and completion queues, per-user staging queues, legacy FIFO, completion FIFO, interrupt coalescing, registers | doorbells, fetch with arbitration, round robin with credit, completion, abort, queue creation and deletion, shutdown | each command completed once, none after its abort, no queue starves, interrupts not lost |
| NVMe subsystem and namespaces | list of namespaces and their page ranges, disk images, one context per command in flight | admin commands, I/O commands as chains of callbacks, creation, deletion, attachment, format | ranges disjoint; a read returns the last answered write of its namespace; one answer per command |
| NVMe DMA (`hil/nvme/dma.cc`, `util/fifo.cc`) | page and segment lists, the two queues of the FIFO | PRP and SGL walks, split, insert, transfer, merge | exactly the bytes of the range move, in order; every transfer answered |
| Open-Channel SSD (`hil/nvme/ocssd.cc`) | chunk states and write pointers, bad block table, completion queue with one event | plain, vector and physical page commands, chunk reset | pages programmed once and in order; only accepted data stored; every command answered |
| SATA, UFS | command slots, request and response queues, interrupt status | issue, work, transfer, respond, acknowledge, start, stop, reset | a command is seen complete only when it is, and in the end |
| PAL (`pal/pal_old.cc`, `pal/old/PAL2.cc`) | busy slots and free gaps of channels and dies | convert an address, find and book time, flush | nothing booked twice; addresses distinct |
| ISC runtime, ext4 reader, slets | registered slets and options, name and inode caches | add, start, delete, set and get options, lookups, kernels | lookups agree with the host's file system; a kernel answers what the host would compute |
| DRAM, statistics, latency tables, configuration, logs | counters | - | no control |

The hazards of this code, each at its line and with the properties that would
catch it, are in `PROJECT.json`.

## 2. Modules

| Module | Models | Checked through |
|---|---|---|
| `PageMapping` | the FTL with its blocks | `MCPageMapping`, `PageMappingProofs` |
| `LogicalDisk` | what the FTL promises: a disk of logical pages | instantiated by `PageMapping` as `Disk` |
| `GenericCache` | the internal cache over an abstract FTL | `MCGenericCache`, `GenericCacheProofs` |
| `CreditScheduler` | the scheduler with its three callers | `MCCreditScheduler`, `CreditSchedulerProofs` |
| `HIL` | HIL, the cores it runs on, the event engine as they see it | `MCHIL`, `HILProofs` |
| `NVMeController` | controller and queues, with the host driver | `MCNVMeController`, `NVMeControllerProofs`, `NVMeControllerCountProofs` |
| `NVMeSubsystem` | subsystem, namespaces, disk images | `MCHostCommands`, `SubsystemProofs` |
| `OpenChannel` | the Open-Channel drive, both versions | `MCHostCommands`, `SubsystemProofs` |
| `NVMeDMA` | page lists, segment lists, transfer FIFO | `MCHostCommands` |
| `SATA`, `UFS` | the two links with their drives and drivers | `MCHostCommands`, `LinkProofs` |
| `PAL` | address conversion and timetable of the flash array | `MCMedia` |
| `Ext4`, `ISC` | ext4 reader; runtime, slets and kernels over it | `MCMedia` |

A definition named in a mutant stands directly above the definition it mutates
and is used nowhere else.

`MCHostCommands` and `MCMedia` check several modules that do not share state in
one run. A variable (`unit`, `part`) says which of them this behaviour is about;
the others rest with fixed values. SATA and UFS share the variables that mean the
same in both. `MCHostCommands` extends `NVMeSubsystem` and `OpenChannel`, whose
properties it checks as they stand and the proofs are about (they say nothing of a
resting unit, which has no commands), and instantiates the other units; a property
that speaks of those is guarded by the unit. What the drivers of the links issue are its
constants `SATAWorkloads` and `UFSWorkloads`, so that the proofs hold for any.

### PageMapping

A command runs to its end before the next one starts, as in the code; a
collection is a run of steps driven by `pc` (`select`, `collect`, `io`, `erase`).
`CollectPage` is one turn of the metadata loop of `doGarbageCollection`,
`CopyPages` the "Do actual I/O here" part, `EraseBlock` one `eraseInternal`.
`Fill` and `FillDone` are `initialize`. Variables carry the names of the fields.
`flash` has no counterpart in the program, which moves no data: it is the
content the PAL requests imply, and it is what `LogicalDisk` is about.
Panics are modelled (`Panic`, `Stopped`): the code's own sanity checks are states
of the model, so a property can say that they are not reached. Where
`selectVictimBlock` draws distinct random blocks from too few it never ends
(`pc = "hang"`); from none at all, `weight.at` throws (`pc = "panic"`).

### GenericCache

One action per path through `read` and `write` for one line (hit, prefetch,
miss, read through; hit, empty way, evict, write around), and one each for
`flush`, `trim`, `format`. The lines a read claims in one call are a function `w`
from lines to ways. Content is `fresh`, `stale` or `none`. Ticks are dropped,
so an eviction policy is any choice among the ways it compares; what holds for
every choice holds for FIFO, LRU and random. `conf` is the configuration the
constructor reads; it never changes, and one run covers a set of configurations.

### CreditScheduler

`pc` walks through `tick()`: admin queue, refill, deferred requests, deferred ISC
results, round robin. `caller` says who runs it: `processUntil` (a host request,
which drives its own time forward in steps of `periodTicks_ / 10`), the refill
timer, or the blocking gate of `isc/sims/ftl.cc`. Fractions of a page are counted
in units of 1/`Scale`; `ShareAssumption` keeps them whole, which the doubles of
the code are not, so rounding is outside this model. The SLO branch is left out:
nothing sets `isSLO`. The queues no caller fills are left out as well.

### HIL

`Submit` puts a job on the least busy core, `JobDone` ends it and runs the body
of the HIL function (the calls below it are a latency), `Completion` is the
shared event. `Advance` moves the clock to the next event only when none is due;
events of one tick run in any order, which is all that the engine promises.
`instant` records the requests that ended in the tick of their own job.

### NVMeController

The driver (external) submits I/O and admin commands, sees an answer by its
phase bit once an interrupt is up, and writes the configuration register. `Work`
collects entries under both arbitrations, `ReadDone` puts a fetched command on
the legacy FIFO and on its user's queue, `HandleRequest` picks a user in turn
that has credit (`Refill` stands for the scheduler), the admin actions change the
queues, and `Completion`, `Send` and `PostDone` write answers and raise or
coalesce interrupts. The entry of a vector in `aggregation` is reset when an I/O
completion queue is created on it and erased (`Unset`) with the last one; coalescing
set on a vector that no such queue uses does nothing. Ring indices wrap as in `queue.cc`.

A round of `collectSQueue` is the list `Fetches` of the waiting entries (`Items`) in
the order `Before` the loops visit them; the other loops (`Sweep` over the legacy
FIFO, `Without` of `purgeSQFromUserQueues`, `Posted` of `completion`) are recursive
functions over their turns. `Sweeps` has several results, because an erase of the last
entry moves the iterator past the end. What a driver may plan is `Plans`; it aborts
I/O commands only, since answers carry no status here. `broken` is set when the code
panics or uses a deleted queue, and ends the behaviour.

### NVMeSubsystem

A behaviour submits the commands of one workload in order, without waiting.
`context[c].on` is what command `c` waits for: the core, the DMA list, the
transfer, credit, the HIL. Each callback runs at any later time. `object` keeps
namespaces that were deleted, because callbacks still point to them; what the
program does with a freed object or a null disk image is undefined, so the model
goes on or ends (`crashed`). `log`, `touched` and `mixed` are history.

### OpenChannel

Chunks hold a state, a write pointer and the pages programmed since the last
reset (history). A command is a list of entries that is merged into flash
requests; the loops of `mergeList`, `writeInternal` and `eraseInternal` are
recursive functions over their turns. A request ends up to `Latency` later, and
`updateCompletion` arms the one event as the code does, `missed` recording the tick
in which it does not. A vector list has up to 64 blocks, and which of them a write
stores is decided by `(1 << i) & mask` with an `int` of 32 bits: `Stored` tests all
bits from the 32nd on for the 32nd block, and for the ones `Beyond` it, where the
shift is undefined, storing is a nondeterministic choice. `StoredIsAccepted` is
therefore claimed for the first 32 blocks of a list; a refused block further on may
be stored, and an accepted 32nd one left out. One session of the run has a list
of 33 blocks.

### NVMeDMA

`shape` gives the lists of a transfer. `Pieces` cuts a range as `PRPList` and
`SGL` do; the two directions of the FIFO are separate machines with their wait and
transfer queues, pending flags and usage. `moved` records the addresses that
passed, byte by byte in the properties.

### SATA and UFS

Registers, command slots, the queue of requests and the queue of responses are
those of `HBA` and `Host`; the commands of `Device` are chains of transfers and
NAND work, in whatever order they end. The drivers are external: the SATA driver
acknowledges the port or the global status first, the UFS driver reads the
status once or until it is clear. Both workloads reuse slots.

### PAL

`convertCPDPBP` takes superpage addresses apart, for every geometry of the run. A
request is booked on its channel and die at whatever tick it arrives: find a gap,
take it from the free gaps in the buckets of their lengths, add what is left of
it, flush what is past. `booked` is the history the properties are about.

### Ext4 and ISC

An image is what the host put on the flash: inodes with extent trees, directory
blocks, data. The reader's state is its two LRU caches and the run of inodes that
starts a prefetch; buffers that are not set hold nothing or an old directory
(`Junk`). Kernels are functions of the image: `strstr` is the search with its bad
character shift, `md5sum` gives the blocks that `MD5Transform` is called with,
`sum` the statistics. Recursive operators live here, in modules only TLC uses.
An extent records its block in the file and its length with the mark of one never
written, and `Blocks` ignores both, as the code does: `LookupsRight` and
`KernelsRight` speak of the data of dense files only (`Dense`). The width of the
kernels' buffer size (`int`), of `md5sum`'s size and of the size in `statdir` is the
constant `Wide`: past half of it the slet fails and its old result stays, past the
whole the buffer is too small (`broken`). A kernel that finds no file for an entry
it counted looks up the empty path, under which there is no file system.

## 3. Runs

| Run | Result | What it shows |
|---|---|---|
| `ftl_units` | holds | Mapping by I/O unit, all four commands, d-choice collections, a warm-up whose ratio has to be cut. Table and valid bits agree in both directions (`MappedIsValid`, `ValidIsMapped`), no block is free and in use, the warm-up never collects. |
| `ftl_pages` | holds | Mapping by superpage through wear-out, mode 1 collections. The FTL implements `LogicalDisk`; flash is programmed only when erased; worn blocks never return; "No free block left" is met only when blocks have been retired; an open block is in use; a collection ends. |
| `ftl_parallel_open` | violated, as expected | With two open blocks a full open block is collected and stays open (finding 1). |
| `icl_cache` | holds | Six configurations. Nothing written is lost, eviction always makes room, a read returns the newest content, a flush leaves its range in the FTL, a formatted line stays gone. |
| `icl_read_evicts` | violated, as expected | A read miss drops a dirty victim (finding 3). |
| `credit_calls` | holds | Two users and uid 0, host requests, slet accesses, ISC results, the timer, a reset: budget conserved, every request carried out once and before the call returns, rate bounded until a reset. |
| `credit_reset_burst` | violated, as expected | After a reset the next request collects the budget of all phases since tick 0 (finding 4). |
| `hil_requests` | holds | Three requests of every kind on two cores, events of a tick in any order: no job stranded, every request in exactly one place, the event armed at the first end, no early or late answer, every request answered as long as none takes no time. |
| `hil_lost_wakeup` | violated, as expected | A request that ends in the tick of its job may never be answered (finding 2). |
| `nvme_controller` | holds | Every command is answered exactly once and in the end, no queue overflows, an answer the host can see has its interrupt - except for the commands that abort, queue deletion, shutdown or the code's own slips give up, which `Excused` and `Lost` name. |
| `host_commands` | holds | Five units. Namespaces stay apart, reads return the last answered write, chunk pages are programmed once, vector writes store what they accepted, transfers move exactly their range, a link reports what is done, and every command is answered. |
| `media` | holds | Channels and dies are never double-booked, flash addresses are distinct, lookups agree with the host's file system whatever the caches hold, kernels answer what the host would compute. |

### Bounds, and why they are enough

* FTL: four blocks (six in `ftl_parallel_open`) are the fewest with an open block, a victim, a
  target and a spare; two pages per block let a block be partly valid, two units
  per page let a write be partial. A block wears out after two erases, which also
  bounds the state space, so wear-out and an empty free list are reached.
  `ftl_pages` uses two values so that an old copy differs from the new one;
  `ftl_units` uses one, since its properties do not look at content. `GCMode`,
  policy, tweak and filling mode differ between the two runs so that every
  branch is taken; GREEDY and RANDOM select among the victims COST_BENEFIT and
  DCHOICE may select in these runs. The proofs cover all four, with any geometry.
* Cache: at most two sets of two ways and four to six lines, so a set overflows
  and eviction candidates may miss the set that needs room. The configurations
  are named in `MCGenericCache`.
* Credit: `Period` 2 with `Step` 1 makes phases and steps differ, `Budget` of one
  page per period for two users makes every share a fraction, the cap of two pages
  is reached, and three requests until tick 4 are enough for one to be deferred
  while another drives time ahead of the clock. `MaxIterations` 24 and `MaxGuard`
  4 stand for the round limits of `processUntil` and the gate.
* HIL: three requests on two cores give a core a second job while another core
  inserts an earlier end; latencies 1, 2, 4 let ends coincide, overtake and
  follow each other.
* NVMe controller: an admin pair and small I/O queues that wrap, two users, few
  enough commands that a completion queue fills only when the code lets it.
* Host commands: eight pages of two blocks for the namespaces, and formats of half
  a page, a page and two pages; two chunks of two pages; page lists of two
  entries, so that a list is chained; a FIFO of two units, so that a transfer is
  split and exceeds it; three or four commands on three slots for each link. The
  workloads are named sets in `MCHostCommands`, each built for an overlap: a
  delete under a write, two creations, a reset under a vector write, a slot rung
  again while another completes.
* Media: four requests whose arrivals overtake each other, three buckets per channel
  and die; for the addresses two channels of two dies of two planes, with every
  shape of a superpage, two allocation orders, multi-plane operation or not; an
  MD5 block of four bytes with a length of two; caches of three names and two
  inodes, so that lookups evict each other; images with extent trees of two
  levels, unused entries, checksum tails and indexed directories; a file with a
  hole, one never written, and files beyond half of `Wide` and beyond it (32 elements
  stand for 2^32 bytes, and the longest written extent has two blocks). Directories
  have no holes.

Deadlock is checked for the FTL and the cache. The other runs end when their
bounded supply of requests is used up, so they switch it off.

### Fairness

`FairSpec` of `PageMapping` has weak fairness of the steps of a collection: they
are iterations of loops inside one call. `FairSpec` of `HIL` has weak fairness of
`Engine` (run a due event, or advance to the next): the simulator's main loop does
nothing else. `NVMeController` and `MCHostCommands` assume the same of their
events, that transfers and the flash answer (they are events too), that the
scheduler grants credit again and again (its timer), and that a driver goes on
reading completions it was interrupted for. Nothing else is assumed about the
host: requests need not be made, nor a link stopped or reset.

## 4. Proofs

Eight modules of proofs, about nine components. Each theorem holds for every value of
the constants that the named assumptions allow; hypotheses beyond those are
in its statement, and each of them is there because the code needs it.

**`PageMappingProofs`**, for every geometry, policy, filling mode, command mix and
data set:

* `TypeCorrect`: `TypeInv == TypeOK /\ FreeListSound /\ GCLoopInRange` is
  inductive. Types alone are not: that the page a block hands out next is in range needs
  that free blocks are erased, which needs that no block is twice on the list; and
  `victims[gcBlock]` is a block only while the loops stay in range.
* `FreeListAlwaysSound`: its consequence `FreeListSound`. The lemmas on
  `RemoveAt` and `InsertAt` say how the list changes in `getFreeBlock` and
  `eraseInternal`.
* `MapConsistent` and `ValidUnitsMapped`, for more than one I/O unit per page:
  `MappedIsValid` and `ValidIsMapped` hold always. The invariant is `MapInv ==
  TypeInv /\ ValidIsWritten /\ MappedIsValid /\ ValidIsMapped`; `ValidIsWritten` makes
  the next place of a block free of valid data. A host write and a page move of the
  collector are one change of the map, `Relocates`, proved once (lemma
  `Relocation`). The hypothesis is needed: with one unit per page `getPageInfo`
  ignores the valid bits (`ftl/common/block.cc:258`) and a collection revives old
  copies.

Its second half goes on from there to wear and content:

* `RetiredBlocksStayRetired`: a block that reached the erase limit is on no list
  again, for every limit above 0.
* `FreshUnitsErased` and `FlashDiscipline`: the action property
  `EraseBeforeProgram`. A collection writes in a later step than it chose the page, so
  `FlashInv` carries, beside `TypeInv`, that the copies under way belong to the loop
  (`CopiesInLoop`), that a page not yet handed out is erased
  (`FreshIsErased`), and that the pages copies go to still are (`CopiesToErased`).
* `OpenBlockStaysInUse`: `OpenBlocksInUse`, with one parallel unit (finding 1
  refutes it with two) and without format, which collects open blocks.
* `FtlIsALogicalDisk`: the FTL implements `LogicalDisk`, from `DataKept` (`DataInv ==
  MapInv /\ FlashInv /\ VictimsFull /\ CopiesApart`: victims are full, so no host
  write enters them, and no two queued copies go to the same unit or to a
  victim). Every write and trim is a step of the disk, every step of a collection a stutter. It needs
  `MapConsistent`'s hypothesis, and no format for the reason above.
* `WarmupNeverCollects`: `FillNeverCollects`, whenever the warm-up fits the limit
  that `initialize` computes; `FillInv` counts the pages programmed and the blocks in use.

**`HILProofs`**, for any number of cores and requests of any kinds:

* `CoresNeverStall`: `CoreInv == TypeOK /\ CoresArmed` is inductive.
* `WakeupNeverLost`: `CompletionArmed`. By itself it is not inductive: whether
  `updateCompletion` schedules depends on `lastScheduled`, so `EventInv` adds that a
  pending event is at `lastScheduled`, that after it ran `lastScheduled` is not in
  the future, and that no end is in the past. It holds while `instant` is empty,
  which is where finding 2 begins.
* `NoneLostNoneTwice`: `EachOnce`, from `PlaceInv` (the jobs of all cores are
  pairwise apart, so are the ends in the queue, and none is missing).
* `CompletionsPunctual`: `Punctual`, from all of these and `DoneInv`, which says when
  an answered request ended.

**`GenericCacheProofs`**, for every geometry and configuration. The invariant is
`CacheInv == PlaceInv /\ (KeepsData(conf) => KeepInv) /\ (DropsData(conf) => Gone /\
CachedLatest)`: lines are in their sets and no line is cached twice; dirty
lines have the newest content; what was discarded is not in the FTL.

* `EvictionFreesAWay`: `NeverCorrupted`, without a hypothesis.
* `WrittenDataKept` and `FlushReachesFTL`: `NothingLost` and the action property
  `FlushDrains`, in the configurations of `KeepsData`. It excludes what section 5
  says of the cache: cached reads beside partial writes (a read marks its victims
  clean), several lines per super page beside flush, trim and format (whole pages
  are discarded, and the unit bits of a flush accumulate), several ways beside
  flush (an invalid line that stays dirty is flushed again).
* `DiscardedDataGone` and `ReadsReturnLatest`: `DiscardedGone` and `ReadsLatest`, in
  the configurations of `DropsData` (`KeepsData`, and no flush beside format), the second
  without trim, which skips lines that are not cached.

**`CreditSchedulerProofs`**, for any users, budgets, costs, round limits and order
of host calls, slet accesses, timer and resets:

* `NoRequestLostOrRepeated`: `EachOnce`. `QueueInv` says where the walk over the
  users stands and that a request has one place.
* `RefillConservesTokens`: `TokensConserved`. `AccountInv` adds that an inactive user
  holds no credit and that nothing is served unpaid.
* `ThroughputNeverExceeded`: `BoundedUntilReset`, from `PaceInv`, which relates the
  next refill to the phases done while `tick` runs ahead of and behind the clock.

As the library's induction theorems are out of reach, the lemmas about sums over
users argue by a least counterexample.

**`SubsystemProofs`** about the NVM subsystem, for every device size, set of block
formats and workload.
The hypothesis `Sane` says that commands are typed and that block and page sizes
divide one another; `MCHostCommands` assumes it, so TLC evaluates it on the run's
instance.

* `NamespacesStayApart`: `NamespacesApart`, in whatever order namespaces are
  created, deleted, attached and formatted while I/O is under way.
* `ReadsSeeTheirNamespace`: `ReadsAnswered`.

Both follow from `SystemInv == ContextInv /\ SpaceInv /\ TouchedInv /\ ImageInv`: a
context in flight names an existing object even when its namespace is deleted
meanwhile; ranges are apart and the count is exact; pages sent to the HIL belong to
their namespace; unless two `isc_set` commands of different namespaces met in the
static `dmaDone` (`mixed`), a disk image holds the newest answered writes, and what
a read took is no older than its submission. Most steps touch neither space nor
images and are proved once.

**`SubsystemProofs`** about the Open-Channel drive, for every geometry and list of
commands in flight. The hypothesis `OCSane` (typed commands of at most 64 blocks, a positive geometry) is evaluated like `Sane`.

* `PagesProgrammedOnce`: `ProgramOnce`. That a chunk is sound (`GoodChunk`) is kept
  by every turn of the loops of `writeInternal` and `eraseInternal`; the loops are
  recursive functions, and lemma `StaysIn` carries an invariant of one turn
  to the end of the loop.
* `RefusedNotStored`: `StoredIsAccepted`, for lists of up to 64 blocks, about their
  first 32. Between the check of the write
  pointers and the arrival of the data other commands write, erase and reset. `OCInv
  == ProgramInv /\ WorkInv /\ QueueInv /\ RouteInv /\ StoreInv`: a command has at most
  one entry in `completionQueue`, follows its route, keeps its mask, and stores in its
  last step only.

**`NVMeControllerProofs`** and **`NVMeControllerCountProofs`**, for every queue size, any users, any number of commands
and any plan of the host. The hypothesis `NumbersUsedOnce`, evaluated by
`MCNVMeController`, says that a plan does not create a queue under the number of one
it deletes: transfers under way would meet the new queue.

* `Consistent`: `SafeInv`, that is `FrontInv` and `BackInv` until `broken`. `FrontInv`
  is `PlanInv`, `HostInv`, `SQInv`, `FetchInv` and `EntryInv`: what a slot, a
  fetch or an entry names was submitted to that queue, and a queue that is gone was
  deleted by a command of the host. `BackInv` is `CQInv`, `PostInv` and `SignalInv`: a
  slot of a completion queue has the phase the host expects exactly when it
  holds an answer that was written, no two writes under way go to one slot,
  and the last write of a round carries its vectors.
* `SignalledAlways`: `Signalled`, which is `SignalInv` at the slot the phase bit points
  to. It has to be said of every written slot and of the writes under way, as the
  doorbell of one queue lowers the vector of another.

The second module counts:

* `Counted` and `EachOnceAlways`: `EachOnce`. `CountInv` says of each command more than
  how often it counts: it is on the legacy FIFO at most once, not before its fetch
  and not after it was answered from there; in a deleted queue it was answered or given up.
  `ArcInv` says that the slots between a fetch under way and the tail wait or are
  fetched later, so the slot at the tail, which `Submit` overwrites, is never under
  transfer. The sweep and the purge divide a list into what is kept and what is
  taken; that nothing is lost between them is proved turn by turn.
* `NoPanicAlways`: `NoPanic`. `OutInv` is the driver's promise, fewer commands
  outstanding than a completion queue has entries; `LiveInv` keeps the completion queue of
  every used submission queue. If a turn of `completion` met a full queue, each of its slots
  would belong to another outstanding command (lemma `NoOverflow`), one more than
  there are. A read that meets a deleted queue has a command in `gone`.

The loops of the controller are followed by lemma `UpTo`, an induction that argues by
a least counterexample.

**`LinkProofs`**, for every list of commands the drivers of SATA and UFS may issue:

* `LinksComplete`: `CompletedIsDone`. By itself it is not inductive: what the driver
  sees is a bit that is clear. `LinksInv` is `SATAInv` or `UFSInv`, and either says that a
  command waits in one place (the queue of requests, callbacks, or a response), that
  the bit of its slot is set while it does, and that no later command has the slot.
  A SATA command that is queued has two lives: `BitInv` follows it
  to the Set Device Bits FIS that clears its bit of `PxSACT`, `IssueInv` follows the acceptance
  FIS that clears `PxCI`, and only after which the data of a write moves. UFS has
  the doorbell only (`BellInv`). Every callback is an instance of one step (`Ending`,
  `Stage`): a piece ends, others start, at most one response is added and at most one bit
  cleared.

The assumption `LinkAssumption`, evaluated by every run of `MCHostCommands`, types the
commands and asks one thing of the SATA driver: it uses slot 0 for a queued command
only if the commands it put there before were queued too. Without it `CompletedIsDone` is
false. A response that belongs to no slot (a setup, the signature) clears the issue bit of
slot 0 when it is acknowledged, so a command there that is not queued can be seen complete
while its request still waits. The request then fetches the next command of the slot, which
is fetched again by its own; of its two Set Device Bits FISes the second clears the
bit of a third command that is still running. TLC finds it with an unknown command and
two queued writes in slot 0.

Only model-checked:

* liveness, out of the provers' reach: `CollectionEnds`, `TimedDelivered`, `Served`,
  `CommandsAnswered`, `LinksServed`;
* `MCMedia`'s `Exclusive`, `AddressesDistinct`, `LookupsRight` and `KernelsRight`: `PAL`,
  `Ext4` and `ISC` are built from recursive operators, and the last two
  properties are induction over data;
* `RunsOutOnlyWhenWorn`, which needs a bound on valid pages over all collections
  in flight, and `ServedOnReturn`, which depends on the round limit `MaxIterations`;
* the DMA's `MovesRange`, see the plan.

## 5. Where the code and its intentions disagree

Findings, each with a run that shows it:

1. `calculateVictimWeight` skips blocks that are not full, not the open ones: a
   full open block of another parallel unit is collected, and `getLastFreeBlock`
   then panics with "Corrupted".
2. `updateCompletion` does not schedule when the first end equals
   `lastScheduled`, also after that event has run. ISC requests that add no time
   can wait for ever.
3. The cache's `read` clears the dirty bit of its victim before `evictCache`
   tests it; the content is lost.
4. `resetStatValues` sets the refill phase to 0 and leaves the timer flag, so the
   next `tick` grants every phase since tick 0.

Met while modelling, listed as hazards, reproduced by the model where its
configuration allows, and kept out of the passing runs' claims:

* FTL: trim of a partly written logical page panics; single-unit `getPageInfo`
  ignores valid bits; format collects open blocks; an unsigned difference
  in `initialize` wraps for a fill ratio that is too high by itself; random and
  d-choice selection loop for ever with too few used blocks.
* HIL: after a switch from CREDIT to FCFS the global pointer dangles; under FCFS a
  request completes before the cache layer is done; a switch drops deferred ISC
  results.
* Cache: a write around the cache leaves an older cached line; with the default
  switches a read misses a dirty line; trim skips lines that are not cached; the
  two divisions of format can leave out the last page; an invalidated line keeps its dirty
  bit and can be flushed after a format; the unit bits of a flush accumulate.
* Scheduler: slet accesses before the first refill are free; a host request waits
  for the deferred work of all users; carry has no limit.
* NVMe controller: commands stay on the legacy FIFO after they ran, and abort and
  queue deletion answer them again; an aborted command still runs; shutdown clears
  only that FIFO; low-priority queues are never fetched from
  (`controller.cc:1518` tests for medium); a coalesced interrupt collected by a
  round without entries is lost (`:1977`).
* Subsystem: a compare trips the assertion of `req_record`, as do two commands
  submitted in one tick (a FIXME of the source); two creations in flight get one
  identifier; a formatted namespace advertises the whole device; the health log
  of a namespace is answered twice; refused queue creations and wrong selectors
  are never answered; `eachTrimDone` frees the shared context at every range.
* DMA: a list that continues on a second page loses a page; a range of two pages
  may take its second pointer for a list; an empty piece is never answered.
* Open-Channel: plain commands pass a start and a count where a list is expected;
  masks count merged pages but are used as blocks; dataset management passes the
  wrong context; plain writes store data that may still be refused.
* SATA: responses without a slot carry slot 0 and clear its issue bit, and the command
  that follows in the slot may run twice (section 4); the same response is sent again while it is not acknowledged; stopping cancels only one
  of the events. UFS: native commands are never answered; writing the status
  lowers the line whatever bits remain.
* PAL: gaps shorter than the smallest bucket are forgotten; the flushed time is a
  tick longer than the busy time.
* ISC: files with holes or preallocated blocks are read as if they were dense, past
  the buffer when it is shorter than the size; from 2 GiB on the kernels fail or
  overrun their buffer, and `statdir` gives the lower 32 bits of a size; the prefetch runs past the last group into an
  assertion; extents of a directory longer than a block overlap in its buffer; caches are never
  invalidated; an unused entry hides a live one of that name; patterns with bytes above 127 never
  match; grep without a match reads before its buffer; statistics start from 0,
  so an all-positive file has minimum 0; the branch of `namei` for ".." is never
  reached (which does no harm, as ".." is an entry).

## 6. Not modelled, and why

Latency values, power and statistics have no influence on control and are left
out everywhere; so is `PALStatistics.cc`, the latency tables and the DRAM model.
Configuration parsing, logs and image files are input and output. Contents of
identify pages, descriptors and log pages are records or left out. MD5Transform
is arithmetic without control, and the model says which blocks it is given.
googletest is vendored. The event engine is outside the repository and appears
only through its contract. `hil/scheduler/claude.cc` is another design of the
credit scheduler that the build does not use.

The layers are checked separately: the cache sees the FTL as a store of lines
(what `LogicalDisk` states), HIL sees the scheduler and the cache as a latency,
the subsystem sees DMA and HIL as callbacks, and the controller sees the
subsystem as an answer given later. So a hazard that needs several layers at once
(a scheduler switch that drops deferred ISC results, `hil/hil.cc:132`; credit
starvation of a deferred result, `credit_scheduler.cc:481`) is described and not
checked. Namespace commands submitted in one tick are left out.

## 7. Plan

Done, in this order: FTL with its abstract disk, HIL, cache, credit scheduler; NVMe
controller, subsystem, Open-Channel drive, DMA, SATA, UFS, PAL, ISC with its ext4
reader; then the proofs about the FTL and its refinement, HIL, cache, credit
scheduler, subsystem, Open-Channel drive, NVMe controller, SATA and UFS. Left, all proofs:

1. `NVMeDMA`: `MovesRange`, from an invariant that relates the pieces still to move to
   the range.
2. `RunsOutOnlyWhenWorn`, if a counting invariant for the collector can be found.
3. The reuse of queue numbers in the proofs of the controller: transfers would have to
   remember the queue they were started for.
