---------------------------- MODULE GenericCache ----------------------------
(***************************************************************************)
(* The set-associative DRAM cache between the host interface and the flash *)
(* translation layer (icl/generic_cache.cc).  ICL::read and ICL::write     *)
(* split a request into single lines and call the cache once per line, in  *)
(* one event, so a line is the unit of every action here.                  *)
(*                                                                         *)
(* The simulator moves no data.  What the properties are about is where    *)
(* the newest content of a line would be, so the model tags every place    *)
(* that can hold a line with "fresh" (what the host wrote last), "stale"   *)
(* (anything else) or "none" (never written, or discarded).  A write of    *)
(* part of a line makes the whole line fresh where it goes.                *)
(*                                                                         *)
(* Ticks are dropped, and with them insertedAt and lastAccessed: every     *)
(* choice that compares them (FIFO, LRU, the emptiest way) or draws a      *)
(* random number is any of the candidates.                                 *)
(***************************************************************************)
EXTENDS Naturals, FiniteSets

(* The configurations of this instance: a geometry, the modes and switches *)
(* the constructor reads, and the commands the host sends.                 *)
CONSTANT Configs

ConfigOK(c) ==
  /\ {c.setSize, c.waySize, c.lineCountInSuperPage, c.parallelIO, c.numLines}
       \subseteq Nat \ {0}
  /\ {c.evictMode, c.prefetchMode} \subseteq {"superpage", "all"}
  /\ {c.useReadCaching, c.useWriteCaching, c.useReadPrefetch} \subseteq BOOLEAN
  /\ c.useReadPrefetch => c.useReadCaching
  /\ c.commands \subseteq {"read", "part", "full", "flush", "trim", "format"}

ASSUME ConfigAssumption == \A c \in Configs : ConfigOK(c)

VARIABLES
  conf,            \* what the constructor read; never changes
  cacheData,       \* the lines
  ftl,             \* what the FTL holds for every line
  readDetect,      \* sequential detection: switched on, last line read
  prefetchTrigger, \* the line whose hit starts the next prefetch
  lastPrefetched,  \* where that prefetch begins
  bSuperPage,      \* set when an FTL page has several units
  corrupted,       \* "Cache corrupted!" has been raised
  written          \* ghost: the lines the host has written and not discarded

cvars == <<cacheData, ftl>>
pvars == <<readDetect, prefetchTrigger, lastPrefetched, bSuperPage>>
vars == <<conf, cacheData, ftl, readDetect, prefetchTrigger, lastPrefetched,
          bSuperPage, corrupted, written>>

SetSize == conf.setSize                \* sets of the cache
WaySize == conf.waySize                \* lines of a set
LineCountInSuperPage == conf.lineCountInSuperPage \* 1 without the random I/O tweak
ParallelIO == conf.parallelIO          \* FTL pages of one maximal I/O
NumLines == conf.numLines              \* logical lines of the device

LineCountInMaxIO == ParallelIO * LineCountInSuperPage
Lcas == 0 .. NumLines - 1

(* Read-ahead runs past the end of the device, by less than two I/Os.      *)
Tags == 0 .. NumLines + 2 * LineCountInMaxIO

(* The initial trigger, the largest uint64_t, is no line.                  *)
NoTrigger == NumLines + 2 * LineCountInMaxIO + 1
Slots == (0 .. SetSize - 1) \X (0 .. WaySize - 1)
(* A command carries a range of lines.                                     *)
Ranges == {r \in [slpn : Lcas, nlp : 1 .. NumLines] :
             r.slpn + r.nlp <= NumLines}
InRange(lca, r) == lca >= r.slpn /\ lca < r.slpn + r.nlp

---------------------------------------------------------------------------
(* Placement and look-up.                                                  *)

CalcSetIndex(lca) == lca % SetSize

CalcRow(lca) == (lca % LineCountInMaxIO) % LineCountInSuperPage
CalcCol(lca) == (lca % LineCountInMaxIO) \div LineCountInSuperPage
CalcIOPosition(lca) == <<CalcRow(lca), CalcCol(lca)>>

SlotsOfSet(s) == {i \in Slots : i[1] = s}

(* The ways getEmptyWay may return: it compares insertion times.           *)
GetEmptyWay(ls, lca) ==
  {i \in SlotsOfSet(CalcSetIndex(lca)) : ~ls[i].valid}

GetValidWay(ls, lca) ==
  {i \in SlotsOfSet(CalcSetIndex(lca)) : ls[i].valid /\ ls[i].tag = lca}

---------------------------------------------------------------------------
(* Ghost: a new write or a discard of the lines in R makes the content     *)
(* that was newest an old one, wherever it is.                             *)

Age(d) == IF d = "fresh" THEN "stale" ELSE d
AgedLines(R) ==
  [i \in Slots |-> IF cacheData[i].tag \in R
                   THEN [cacheData[i] EXCEPT !.data = Age(@)]
                   ELSE cacheData[i]]
AgedFTL(R) == [t \in Tags |-> IF t \in R THEN Age(ftl[t]) ELSE ftl[t]]

---------------------------------------------------------------------------
(* evictCache: the lines evictData points to are written when they are     *)
(* valid and dirty, and dropped.  Every caller passes or defaults flush to *)
(* true.                                                                   *)

(* Mutant: the loop over the rows stops one row early.                     *)
WriteBackShort(ls, E) ==
  {i \in E : /\ ls[i].valid /\ ls[i].dirty
             /\ CalcRow(ls[i].tag) + 1 < LineCountInSuperPage}

WriteBack(ls, E) == {i \in E : ls[i].valid /\ ls[i].dirty}

EvictToFTL(f, ls, E) ==
  LET W == WriteBack(ls, E)
  IN  [t \in Tags |-> IF \E i \in W : ls[i].tag = t
                      THEN ls[CHOOSE i \in W : ls[i].tag = t].data
                      ELSE f[t]]

EvictLines(ls, E) ==
  [i \in Slots |-> IF i \in E
                   THEN [ls[i] EXCEPT !.valid = FALSE, !.tag = 0,
                                      !.dirty = FALSE]
                   ELSE ls[i]]

---------------------------------------------------------------------------
(* read.                                                                   *)

(* checkSequential, with the counters and the offsets abstracted: a read   *)
(* that begins where the last one ended may switch detection on and cannot *)
(* switch it off; any other read switches it off.  Of two reads of one     *)
(* line, or of a line and the next, the second may or may not begin where  *)
(* the first ended, as each may be of part of its line.                    *)
CheckSequential(lca) ==
  {[on |-> FALSE, last |-> lca]} \union
  {[on |-> b, last |-> lca] :
     b \in IF lca \in {readDetect.last, readDetect.last + 1} THEN {readDetect.on, TRUE}
           ELSE {FALSE}}

Detect(lca) == IF conf.useReadPrefetch THEN CheckSequential(lca) ELSE {readDetect}

(* How far a read from NVM goes.                                           *)
Span == IF conf.prefetchMode = "all" \/ ~bSuperPage THEN LineCountInMaxIO
        ELSE LineCountInSuperPage

(* The first loop of read goes through the lines from begin on.  A run of  *)
(* it is a function w: the way the k-th line claims, or NoWay.             *)
NoWay == <<>>

(* The lines when the loop comes to its k-th line: the ways claimed before *)
(* are valid and clean, and keep their tags.                               *)
During(w, k) ==
  LET claimed == {w[m] : m \in 1 .. k - 1}
  IN  [i \in Slots |-> IF i \in claimed
                       THEN [cacheData[i] EXCEPT !.valid = TRUE, !.dirty = FALSE]
                       ELSE cacheData[i]]

(* The loop body: skip a line that is cached, else claim an empty way, or  *)
(* any way of its set when none is empty.                                  *)
Claim(ls, lca) ==
  IF GetValidWay(ls, lca) # {} THEN {NoWay}
  ELSE IF GetEmptyWay(ls, lca) # {} THEN GetEmptyWay(ls, lca)
  ELSE SlotsOfSet(CalcSetIndex(lca))

Claims(begin, n) ==
  {w \in [1 .. n -> Slots \union {NoWay}] :
     \A k \in 1 .. n : w[k] \in Claim(During(w, k), begin + k - 1)}

(* A dirty victim is put in evictData, over the line that is at its        *)
(* position, and is marked clean before evictCache sees it.                *)
Victim(w, begin, k) ==
  LET ls == During(w, k)
  IN  w[k] # NoWay /\ GetEmptyWay(ls, begin + k - 1) = {} /\ ls[w[k]].dirty

EvictData(w, begin) ==
  LET V == {k \in DOMAIN w : Victim(w, begin, k)}
      position(k) == CalcIOPosition(cacheData[w[k]].tag)
  IN  {w[k] : k \in {v \in V : \A m \in V : m > v => position(m) # position(v)}}

(* The second loop: every claimed line gets its tag and the data the FTL   *)
(* returns.  A line that was evicted on the way stays invalid.             *)
Fill(ls, f, w, begin) ==
  LET last(i) == CHOOSE k \in DOMAIN w :
                   w[k] = i /\ \A m \in DOMAIN w : w[m] = i => m <= k
      lca(i) == begin + last(i) - 1
  IN  [i \in Slots |-> IF \E k \in DOMAIN w : w[k] = i
                       THEN [ls[i] EXCEPT !.tag = lca(i), !.data = f[lca(i)]]
                       ELSE ls[i]]

(* The part of read that both a miss and a prefetch execute.               *)
ReadFromNVM(begin) ==
  LET n == IF readDetect'.on THEN Span ELSE 1
  IN  /\ IF readDetect'.on
         THEN /\ prefetchTrigger' = begin + Span \div 2
              /\ lastPrefetched' = begin + Span
         ELSE UNCHANGED <<prefetchTrigger, lastPrefetched>>
      /\ \E w \in Claims(begin, n) :
           LET ls == During(w, n + 1)
               E  == EvictData(w, begin)
               f  == EvictToFTL(ftl, ls, E)
           IN  /\ ftl' = f
               /\ cacheData' = Fill(EvictLines(ls, E), f, w, begin)

Ready(c) == c \in conf.commands /\ ~corrupted

ReadHit(lca) ==
  /\ Ready("read") /\ conf.useReadCaching
  /\ GetValidWay(cacheData, lca) # {}
  /\ ~(conf.useReadPrefetch /\ lca = prefetchTrigger)
  /\ readDetect' \in Detect(lca)
  /\ UNCHANGED <<conf, cvars, prefetchTrigger, lastPrefetched, bSuperPage,
                 corrupted, written>>

ReadPrefetch(lca) ==
  /\ Ready("read") /\ conf.useReadCaching
  /\ GetValidWay(cacheData, lca) # {}
  /\ conf.useReadPrefetch /\ lca = prefetchTrigger
  /\ readDetect' \in Detect(lca)
  /\ ReadFromNVM(lastPrefetched)
  /\ UNCHANGED <<conf, bSuperPage, corrupted, written>>

ReadMiss(lca) ==
  /\ Ready("read") /\ conf.useReadCaching
  /\ GetValidWay(cacheData, lca) = {}
  /\ readDetect' \in Detect(lca)
  /\ ReadFromNVM(lca)
  /\ UNCHANGED <<conf, bSuperPage, corrupted, written>>

(* Without read caching the FTL is read and the cache is not looked at.    *)
ReadThrough(lca) ==
  /\ Ready("read") /\ ~conf.useReadCaching
  /\ UNCHANGED vars

---------------------------------------------------------------------------
(* write.                                                                  *)

Sizes == {"part", "full"}

(* A full line goes to the FTL at once; part of one only becomes dirty.    *)
Dirty(size) == size = "part"
ToFTL(lca, size) ==
  IF Dirty(size) THEN AgedFTL({lca}) ELSE [AgedFTL({lca}) EXCEPT ![lca] = "fresh"]

HostWrites(lca) == written' = written \union {lca}

Update(lca, size, i) ==
  [AgedLines({lca}) EXCEPT ![i].dirty = Dirty(size), ![i].data = "fresh"]

WriteHit(lca, size) ==
  /\ Ready(size) /\ conf.useWriteCaching
  /\ \E i \in GetValidWay(cacheData, lca) :
       cacheData' = Update(lca, size, i)
  /\ ftl' = ToFTL(lca, size)
  /\ HostWrites(lca)
  /\ UNCHANGED <<conf, pvars, corrupted>>

Insert(ls, lca, i, d) ==
  [ls EXCEPT ![i] = [valid |-> TRUE, dirty |-> d, tag |-> lca,
                     data |-> "fresh"]]

WriteEmpty(lca, size) ==
  /\ Ready(size) /\ conf.useWriteCaching
  /\ GetValidWay(cacheData, lca) = {}
  /\ \E i \in GetEmptyWay(cacheData, lca) :
       cacheData' = Insert(AgedLines({lca}), lca, i, Dirty(size))
  /\ ftl' = ToFTL(lca, size)
  /\ HostWrites(lca)
  /\ UNCHANGED <<conf, pvars, corrupted>>

(* The lines evictData points to after the scan of the whole cache: one    *)
(* valid line for each I/O position that has one; in super-page mode the   *)
(* choices of a row are folded into the last column.                       *)
Group(lca) == IF conf.evictMode = "superpage" THEN <<CalcRow(lca), ParallelIO - 1>>
              ELSE CalcIOPosition(lca)

Scans(ls) ==
  LET V == {i \in Slots : ls[i].valid}
  IN  {E \in SUBSET V :
         \A i \in V :
           Cardinality({j \in E : Group(ls[j].tag) = Group(ls[i].tag)}) = 1}

(* Mutant: the set of the new line is not looked for.                      *)
ForSetNever(ls, E, s) == {E}

(* "We must flush setToFlush set": when no line of that set was chosen,    *)
(* one is put at its own position, over what is there.                     *)
ForSet(ls, E, s) ==
  IF \E i \in E : CalcSetIndex(ls[i].tag) = s THEN {E}
  ELSE {{j \in E : Group(ls[j].tag) # CalcIOPosition(ls[i].tag)} \union {i} :
          i \in {k \in SlotsOfSet(s) : ls[k].valid}}

(* The line that made the cache evict is dirty whatever its size.          *)
WriteEvict(lca, size) ==
  LET ls == AgedLines({lca})
      f  == ToFTL(lca, size)
  IN  /\ Ready(size) /\ conf.useWriteCaching
      /\ GetValidWay(cacheData, lca) = {}
      /\ GetEmptyWay(cacheData, lca) = {}
      /\ \E E0 \in Scans(ls) : \E E \in ForSet(ls, E0, CalcSetIndex(lca)) :
           LET rest == EvictLines(ls, E)
           IN  /\ ftl' = EvictToFTL(f, ls, E)
               /\ IF GetEmptyWay(rest, lca) = {}
                  THEN /\ corrupted' = TRUE
                       /\ cacheData' = rest
                  ELSE /\ UNCHANGED corrupted
                       /\ \E i \in GetEmptyWay(rest, lca) :
                            cacheData' = Insert(rest, lca, i, TRUE)
      /\ HostWrites(lca)
      /\ UNCHANGED <<conf, pvars>>

Around(lca, size) == [AgedFTL({lca}) EXCEPT ![lca] = "fresh"]

(* Without write caching every write goes to the FTL, and the cache, which *)
(* may still serve reads, is left as it is.                                *)
WriteAround(lca, size) ==
  /\ Ready(size) /\ ~conf.useWriteCaching
  /\ cacheData' = AgedLines({lca})
  /\ ftl' = Around(lca, size)
  /\ HostWrites(lca)
  /\ UNCHANGED <<conf, pvars, corrupted>>

---------------------------------------------------------------------------
(* flush, trim, format.                                                    *)

Caching == conf.useReadCaching \/ conf.useWriteCaching
Before(i, j) == i[1] < j[1] \/ (i[1] = j[1] /\ i[2] <= j[2])

(* Mutant: the range ends one line early.                                  *)
MatchingShort(r) == {i \in Slots : /\ InRange(cacheData[i].tag, r)
                                   /\ InRange(cacheData[i].tag + 1, r)}

(* The lines whose tag is in the range, valid or not.  Without any caching *)
(* there are no lines, and flush and trim do nothing.                      *)
Matching(r) == IF Caching THEN {i \in Slots : InRange(cacheData[i].tag, r)}
               ELSE {}

Flushed(r) == {i \in Matching(r) : cacheData[i].dirty}

(* The bits of ioFlag when line i is written: none is ever reset.          *)
FlagsAt(r, i) ==
  {CalcRow(cacheData[j].tag) : j \in {k \in Flushed(r) : Before(k, i)}}

(* The FTL after the loop: the last line with a tag wins; a unit that is   *)
(* only written because its bit was left set gets no line's data.          *)
FlushToFTL(r) ==
  LET D == Flushed(r)
      L == LineCountInSuperPage
      own(t) == {i \in D : cacheData[i].tag = t}
      swept(t) == \E i \in D : /\ cacheData[i].tag \div L = t \div L
                               /\ t % L \in FlagsAt(r, i)
      last(t) == CHOOSE i \in own(t) : \A j \in own(t) : Before(j, i)
  IN  [t \in Tags |-> IF own(t) # {} THEN cacheData[last(t)].data
                      ELSE IF swept(t) THEN "stale" ELSE ftl[t]]

Invalid(ls, S) ==
  [i \in Slots |-> IF i \in S THEN [ls[i] EXCEPT !.valid = FALSE] ELSE ls[i]]

(* A flushed line is invalidated and keeps its dirty bit and its tag.      *)
Flush(r) ==
  /\ Ready("flush")
  /\ ftl' = FlushToFTL(r)
  /\ cacheData' = Invalid(cacheData, Matching(r))
  /\ UNCHANGED <<conf, pvars, corrupted, written>>

PagesOf(S) == {t \in Tags : t \div LineCountInSuperPage \in S}
Drop(f, S) == [t \in Tags |-> IF t \in S THEN "none" ELSE f[t]]
RangeLcas(r) == {l \in Lcas : InRange(l, r)}

(* Trim goes through the lines of the cache, not through the range: the    *)
(* FTL hears of the pages of the lines found, and trims all their units.   *)
Trim(r) ==
  /\ Ready("trim")
  /\ ftl' = Drop(AgedFTL(RangeLcas(r)),
                 PagesOf({cacheData[i].tag \div LineCountInSuperPage :
                            i \in Matching(r)}))
  /\ cacheData' = Invalid(AgedLines(RangeLcas(r)), Matching(r))
  /\ written' = written \ RangeLcas(r)
  /\ UNCHANGED <<conf, pvars, corrupted>>

(* Mutant: the cached lines of the range stay valid.                       *)
FormattedNone(r) == {}

Formatted(r) ==
  IF Caching THEN UNION {GetValidWay(cacheData, l) : l \in RangeLcas(r)} ELSE {}

(* Mutant: the last page of the range is left out.                         *)
FormatPagesShort(r) ==
  LET first == r.slpn \div LineCountInSuperPage
      count == (r.nlp - 1) \div LineCountInSuperPage + 1
  IN  IF count = 1 THEN {first} ELSE first .. first + count - 2

(* "Convert unit": a range of lines to a range of FTL pages.               *)
FormatPages(r) ==
  LET first == r.slpn \div LineCountInSuperPage
      count == (r.nlp - 1) \div LineCountInSuperPage + 1
  IN  first .. first + count - 1

Format(r) ==
  /\ Ready("format")
  /\ ftl' = Drop(AgedFTL(RangeLcas(r)), PagesOf(FormatPages(r)))
  /\ cacheData' = Invalid(AgedLines(RangeLcas(r)), Formatted(r))
  /\ written' = written \ RangeLcas(r)
  /\ UNCHANGED <<conf, pvars, corrupted>>

---------------------------------------------------------------------------
NewLine == [valid |-> FALSE, dirty |-> FALSE, tag |-> 0, data |-> "none"]

(* Without the random I/O tweak the constructor has set bSuperPage, for a  *)
(* page of several units, or has left it unset, which is any value.  Only  *)
(* a prefetch looks at it.                                                 *)
UnsetSuperPage == LineCountInSuperPage = 1 /\ conf.useReadPrefetch

Init ==
  /\ conf \in Configs
  /\ cacheData = [i \in Slots |-> NewLine]
  /\ ftl = [t \in Tags |-> "none"]
  /\ readDetect = [on |-> FALSE, last |-> 0]
  /\ prefetchTrigger = NoTrigger
  /\ lastPrefetched = 0
  /\ bSuperPage \in IF UnsetSuperPage THEN BOOLEAN ELSE {TRUE}
  /\ corrupted = FALSE
  /\ written = {}

Next ==
  \/ \E lca \in Lcas : \/ ReadHit(lca)
                       \/ ReadPrefetch(lca)
                       \/ ReadMiss(lca)
                       \/ ReadThrough(lca)
  \/ \E lca \in Lcas, size \in Sizes : \/ WriteHit(lca, size)
                                       \/ WriteEmpty(lca, size)
                                       \/ WriteEvict(lca, size)
                                       \/ WriteAround(lca, size)
  \/ \E r \in Ranges : \/ Flush(r)
                       \/ Trim(r)
                       \/ Format(r)

Spec == Init /\ [][Next]_vars

---------------------------------------------------------------------------
(* The type invariant of the cache and of what it holds.                   *)
Contents == {"fresh", "stale", "none"}
Lines == [valid : BOOLEAN, dirty : BOOLEAN, tag : Tags, data : Contents]
TypeOK ==
  /\ conf \in Configs
  /\ cacheData \in [Slots -> Lines]
  /\ ftl \in [Tags -> Contents]
  /\ readDetect \in [on : BOOLEAN, last : Lcas]
  /\ prefetchTrigger \in Nat
  /\ lastPrefetched \in Nat
  /\ bSuperPage \in BOOLEAN
  /\ corrupted \in BOOLEAN
  /\ written \subseteq Lcas

(* The configurations that keep what the host writes.  Excluded are those  *)
(* in which a read replaces lines that only the cache holds (read marks    *)
(* them clean before it evicts them), those in which a flush, a trim or a  *)
(* format goes to pages of several lines (flush never resets ioFlag, trim  *)
(* and format discard whole pages), and those in which a flush may find an *)
(* old line in a second way, invalid but still dirty.                      *)
KeepsData(c) ==
  /\ c.useReadCaching /\ c.useWriteCaching /\ "read" \in c.commands =>
       "part" \notin c.commands
  /\ {"flush", "trim", "format"} \intersect c.commands # {} =>
       c.lineCountInSuperPage = 1
  /\ "flush" \in c.commands => c.waySize = 1

(* The configurations in which what was discarded is gone: a flush would   *)
(* write a line that was formatted while it was dirty.                     *)
DropsData(c) == KeepsData(c) /\ ~({"flush", "format"} \subseteq c.commands)

---------------------------------------------------------------------------
(* What the host wrote last is in the FTL, or in a valid line that is      *)
(* dirty, so that an eviction will write it: no order of writes, evictions *)
(* of any granularity and flushes loses it (write, evictCache, flush).     *)
NothingLost ==
  \A lca \in written :
    \/ ftl[lca] = "fresh"
    \/ \E i \in Slots : /\ cacheData[i].valid /\ cacheData[i].dirty
                        /\ cacheData[i].tag = lca
                        /\ cacheData[i].data = "fresh"

(* An eviction always frees a way in the set of the line being written, so *)
(* the panic "Cache corrupted!" of write is unreachable.                   *)
NeverCorrupted == ~corrupted

(* What read would return for a line now: the cached line if read caching  *)
(* finds one, else what the FTL holds.                                     *)
Seen(lca) ==
  IF conf.useReadCaching /\ GetValidWay(cacheData, lca) # {}
  THEN {cacheData[i].data : i \in GetValidWay(cacheData, lca)}
  ELSE {ftl[lca]}

(* With both kinds of caching on, a read returns what was written last,    *)
(* and nothing for a line that was never written or has been formatted     *)
(* (read, write, format).                                                  *)
ReadsLatest ==
  conf.useReadCaching /\ conf.useWriteCaching => \A lca \in Lcas :
    Seen(lca) = {IF lca \in written THEN "fresh" ELSE "none"}

(* A line that was never written, or was formatted by the last command on  *)
(* it, has no content in the FTL: it does not come back (format).  A trim  *)
(* gives no such promise: it tells the FTL only of cached lines.           *)
DiscardedGone ==
  "trim" \notin conf.commands => \A lca \in Lcas \ written : ftl[lca] = "none"

(* When flush returns, the newest content of every line of the range is in *)
(* the FTL (flush).                                                        *)
FlushDrains ==
  [][\A r \in Ranges : Flush(r) =>
       \A lca \in written : InRange(lca, r) => ftl'[lca] = "fresh"]_vars
=============================================================================
