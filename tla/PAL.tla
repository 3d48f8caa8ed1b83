--------------------------------- MODULE PAL ---------------------------------
(***************************************************************************)
(* The parallelism abstraction layer: superpage addresses are spread over  *)
(* channels, packages, dies and planes (pal/pal_old.cc), and every page    *)
(* operation is given a place on the timelines of its channel and its die  *)
(* (pal/old/PAL2.cc).                                                      *)
(*                                                                         *)
(* A timeline is [slots, point]: everything from point on is free, and     *)
(* before it the free gaps <<first, last>> are kept in buckets by length.  *)
(* An operation holds its channel for DMA0 and again for DMA1, and its die *)
(* from the start of DMA0 to the end of DMA1.                              *)
(***************************************************************************)
EXTENDS Integers, Sequences, FiniteSets, SequencesExt

CONSTANTS
  Size,        \* [channel, package, die, plane, block, page] -> how many
  ChClasses,   \* the bucket lengths of a channel
  DieClasses,  \* the bucket lengths of a die
  Latency,     \* Latency[op][page] = [dma0, mem, dma1]
  Workloads    \* of [super, order, multi, requests]

VARIABLES setup,    \* the workload of this behaviour
          served,   \* how many of its requests have been served
          channel,  \* timelines of the channels (ChFreeSlots, ChStartPoint)
          die,      \* timelines of the dies (DieFreeSlots, DieStartPoint)
          merged,   \* MergedTimeSlots
          booked,   \* history: what every page operation was given
          asserted  \* an assert of InsertFreeSlot failed

vars == <<setup, served, channel, die, merged, booked, asserted>>

Dims == {"channel", "package", "die", "plane"}
Larger(a, b) == IF a > b THEN a ELSE b
Smallest(S) == CHOOSE x \in S : \A y \in S : x <= y
Greatest(S) == CHOOSE x \in S : \A y \in S : y <= x

(***************************************************************************)
(* PAL::PAL and PALOLD::convertCPDPBP                                      *)
(***************************************************************************)
\* The dimensions a superpage spans, in allocation order; with multi-plane
\* operation the planes of a die act as one.
Spanned(s) == SelectSeq(s.order, LAMBDA d :
                d \in s.super /\ (d # "plane" \/ ~s.multi))

\* The dimensions the superblock index selects, in the same order.
Selected(s) == SelectSeq(s.order, LAMBDA d :
                 d \notin s.super /\ (d # "plane" \/ ~s.multi))

Product(ds) == FoldLeft(LAMBDA n, d : n * Size[d], 1, ds)
PagesInSuperPage(s) == Product(Spanned(s))
SuperBlocks(s) == Size.block * Product(Selected(s))

\* The radix of the digit itself divided out too.
DigitPast(n, ds, i) == (n \div Product(SubSeq(ds, 1, i))) % Size[ds[i]]

\* The i-th digit of n when the sizes of ds are the radices, lowest first.
Digit(n, ds, i) == (n \div Product(SubSeq(ds, 1, i - 1))) % Size[ds[i]]
DigitOf(n, ds, d) ==
    IF d \in ToSet(ds)
    THEN Digit(n, ds, CHOOSE i \in DOMAIN ds : ds[i] = d) ELSE 0

\* The physical page that bit t of the I/O flags stands for.
Address(s, block, page, t) ==
    [d \in Dims |-> IF d \in ToSet(Spanned(s)) THEN DigitOf(t, Spanned(s), d)
                    ELSE DigitOf(block, Selected(s), d)]
    @@ [block |-> block \div Product(Selected(s)), page |-> page]

convertCPDPBP(s, r) ==
    LET hit == SelectSeq([t \in 1..PagesInSuperPage(s) |-> t - 1],
                         LAMBDA t : t \in r.flags)
    IN  [i \in DOMAIN hit |-> Address(s, r.block, r.page, hit[i])]

CPDPBPtoDieIdx(a) ==
    a.die + a.package * Size.die + a.channel * Size.die * Size.package

(***************************************************************************)
(* PAL2: free slots of a timeline f with bucket lengths DOMAIN f.slots     *)
(***************************************************************************)
\* Buckets from the largest not longer than len on, or all of them.
Buckets(f, len) ==
    LET C == DOMAIN f.slots
        fit == {c \in C : c <= len}
    IN  IF fit = {} THEN C ELSE {c \in C : c >= Greatest(fit)}

\* FindFreeTime: the slot that holds len ticks at from, or else the earliest
\* later one that is long enough (conflict), or else none.
FindFreeTime(f, len, from) ==
    LET Before(c) == {x \in f.slots[c] : x[1] <= from}
        Pred(c)   == CHOOSE x \in Before(c) : \A y \in Before(c) : y[1] <= x[1]
        exact == {c \in Buckets(f, len) :
                    Before(c) # {} /\ Pred(c)[2] >= len + from - 1}
        later == {x \in UNION {f.slots[c] : c \in Buckets(f, len)} :
                    x[1] > from /\ x[2] >= len + x[1] - 1}
    IN  CASE exact # {} ->
               [found |-> TRUE, start |-> Pred(Smallest(exact))[1],
                conflicts |-> FALSE]
          [] exact = {} /\ later # {} ->
               [found |-> TRUE, start |-> Smallest({x[1] : x \in later}),
                conflicts |-> TRUE]
          [] OTHER -> [found |-> FALSE, start |-> f.point, conflicts |-> FALSE]

\* What every caller makes of it: the slot's start and the tick to begin at.
Begin(f, from, r) ==
    [tick |-> r.start,
     from |-> CASE ~r.found -> Larger(from, f.point)
                [] r.conflicts -> r.start
                [] OTHER -> from]
Search(f, len, from) == Begin(f, from, FindFreeTime(f, len, from))

\* A slot that ends where the next operation begins.
AddFreeSlotLong(f, len, from) ==
    LET fit == {c \in DOMAIN f.slots : c <= len}
    IN  IF fit = {} THEN f
        ELSE [f EXCEPT !.slots[Greatest(fit)] = @ \cup {<<from, from + len>>}]

\* AddFreeSlot: a gap shorter than every bucket is forgotten.
AddFreeSlot(f, len, from) ==
    LET fit == {c \in DOMAIN f.slots : c <= len}
    IN  IF fit = {} \/ \E x \in f.slots[Greatest(fit)] : x[1] = from THEN f
        ELSE [f EXCEPT !.slots[Greatest(fit)] =
                         @ \cup {<<from, from + len - 1>>}]

\* InsertFreeSlot takes [from, from + len) out of the slot that begins at
\* start; split gives it back as a slot of its own.
InsertFreeSlot(f, len, from, start, split) ==
    LET Given(g) == IF split THEN AddFreeSlot(g, len, from) ELSE g
        holds == {c \in Buckets(f, len) : \E x \in f.slots[c] : x[1] = start}
        at    == Smallest(holds)
        slot  == CHOOSE x \in f.slots[at] : x[1] = start
        gone  == [f EXCEPT !.slots[at] = @ \ {slot}]
        left  == IF slot[1] < from
                 THEN AddFreeSlot(gone, from - slot[1], slot[1]) ELSE gone
        end   == from + len - 1
    IN  CASE start = f.point /\ from = start ->
               [Given(f) EXCEPT !.point = start + len]
          [] start = f.point /\ from # start ->
               AddFreeSlot([Given(f) EXCEPT !.point = from + len],
                           from - start, start)
          [] start # f.point /\ holds # {} ->
               IF slot[2] > end
               THEN AddFreeSlot(Given(left), slot[2] - end, end + 1)
               ELSE Given(left)
          [] OTHER -> f

\* The asserts of InsertFreeSlot.
AssertsHold(f, len, from, start) ==
    /\ start = f.point => from >= start
    /\ start # f.point =>
         \A x \in UNION {f.slots[c] : c \in Buckets(f, len)} :
           x[1] = start => x[1] <= from /\ x[2] - from + 1 >= len

\* FlushAFreeSlot stops at the first slot of a bucket that is not over.
FlushAFreeSlot(f, now) ==
    [f EXCEPT !.slots = [c \in DOMAIN @ |->
       {x \in @[c] : \E y \in @[c] : y[1] <= x[1] /\ y[2] >= now}]]

\* FlushATimeSlotBusyTime does the same for MergedTimeSlots.
FlushATimeSlotBusyTime(ms, now) ==
    LET live == {i \in DOMAIN ms : ms[i][2] >= now}
    IN  IF live = {} THEN <<>> ELSE SubSeq(ms, Smallest(live), Len(ms))

(***************************************************************************)
(* PAL2::TimelineScheduling                                                *)
(***************************************************************************)
\* LOOP1: a tick from which the channel takes DMA0 and the die its work.
RECURSIVE FindDMA0(_, _, _, _)
FindDMA0(ch, di, l, from) ==
    LET a == Search(ch, l.dma0, from)
        m == Search(di, l.dma0 + l.mem, a.from)
    IN  CASE m.tick = a.tick ->
               [from |-> a.from, dma0 |-> a.tick, mem |-> m.tick]
          [] m.tick # a.tick
               /\ FindFreeTime(ch, l.dma0, m.from).start = a.tick ->
               [from |-> m.from, dma0 |-> a.tick, mem |-> m.tick]
          [] OTHER -> FindDMA0(ch, di, l, m.from)

\* LOOP0: the die must also be free until the end of DMA1.
RECURSIVE FindAll(_, _, _, _)
FindAll(ch, di, l, from) ==
    LET Held(p, x, total, again) ==
          IF again = p.mem THEN p @@ [dma1From |-> x.from, total |-> total]
          ELSE FindAll(ch, di, l, again)
        Whole(p, x, total) ==
          Held(p, x, total, FindFreeTime(di, total, p.from).start)
        Ending(p, x) == Whole(p, x, x.from + l.dma1 + l.anti - p.from)
        Begun(p) ==
          Ending(p, Search(ch, l.dma1 + l.anti, p.from + l.dma0 + l.mem))
    IN  Begun(FindDMA0(ch, di, l, from))

\* Position in MergedTimeSlots: inside a slot, or after it.
Position(ms, t) ==
    LET i == CHOOSE i \in DOMAIN ms :
               LET Here(k) == (ms[k][1] <= t /\ t <= ms[k][2])
                              \/ k = Len(ms) \/ t < ms[k + 1][1]
               IN  Here(i) /\ \A k \in 1..(i - 1) : ~Here(k)
    IN  [at |-> i, inside |-> ms[i][1] <= t /\ t <= ms[i][2]]

\* The merge of a die's interval into MergedTimeSlots, as it is written.
Merge(ms, ts) ==
    IF ms = <<>> THEN <<ts>>
    ELSE LET s == Position(ms, ts[1])
             e == Position(ms, ts[2])
             end == IF e.inside THEN (IF ~s.inside /\ s.at = e.at THEN ts[2]
                                      ELSE ms[e.at][2])
                    ELSE ts[2]
         IN  CASE s.inside /\ e.inside /\ s.at = e.at -> ms
               [] ~s.inside ->
                    SubSeq(ms, 1, s.at - 1) \o <<<<ms[s.at][1], end>>>>
                      \o SubSeq(ms, e.at + 1, Len(ms))
               [] OTHER -> <<<<ts[1], end>>>> \o SubSeq(ms, e.at + 1, Len(ms))

\* DMA1 goes to the place x that was found for it.
BookDMA1(ch, l, x) ==
    LET begin == Larger(x.from, x.tick) + l.anti
    IN  [begin |-> begin, sound |-> AssertsHold(ch, l.dma1, begin, x.tick),
         channel |-> InsertFreeSlot(ch, l.dma1, begin, x.tick, FALSE)]

\* What DMA0 leaves free behind it becomes a slot of its own, if it is there.
SplitAfter(ch, l, end, y) ==
    IF y.from = end THEN InsertFreeSlot(ch, 2 * l.anti, y.from, y.tick, TRUE)
    ELSE ch

\* One page operation: the timelines, and what it was given.  st is
\* [channel, die, merged, booked, asserted].
TimelineScheduling(st, op, addr, arrived) ==
    LET c == addr.channel
        d == CPDPBPtoDieIdx(addr)
        l == Latency[op][addr.page]
               @@ [anti |-> Latency["read"][addr.page].dma0]
        Booked(p, one) ==
          LET begin0 == Larger(p.from, p.dma0)
              end0   == begin0 + l.dma0
              beginM == Larger(p.from, p.mem)
              mem    == <<beginM, beginM + p.total - 1>>
          IN  [channel |-> [st.channel EXCEPT ![c] =
                 SplitAfter(one.channel, l, end0, Search(one.channel, 2 * l.anti, end0))],
               die |-> [st.die EXCEPT ![d] =
                          InsertFreeSlot(@, p.total, p.from, p.mem, FALSE)],
               merged |-> Merge(st.merged, mem),
               booked |-> Append(st.booked,
                            [channel |-> c, die |-> d, arrived |-> arrived,
                             dma0 |-> <<begin0, end0 - 1>>, mem |-> mem,
                             dma1 |-> <<one.begin, one.begin + l.dma1 - 1>>]),
               asserted |-> \/ st.asserted \/ ~one.sound
                            \/ ~AssertsHold(st.channel[c], l.dma0, p.from, p.dma0)
                            \/ ~AssertsHold(st.die[d], p.total, p.from, p.mem)]
        After0(p, ch) ==
          Booked(p, BookDMA1(ch, l, Search(ch, l.dma1 + l.anti, p.dma1From)))
        Found(p) ==
          After0(p, InsertFreeSlot(st.channel[c], l.dma0, p.from, p.dma0, FALSE))
    IN  Found(FindAll(st.channel[c], st.die[d], l, arrived))

(***************************************************************************)
(* Specification                                                           *)
(***************************************************************************)
Empty(C) == [slots |-> [c \in C |-> {}], point |-> 0]

Init ==
    /\ setup \in Workloads
    /\ served = 0
    /\ channel = [c \in 0..(Size.channel - 1) |-> Empty(ChClasses)]
    /\ die = [d \in 0..(Size.channel * Size.package * Size.die - 1) |->
                Empty(DieClasses)]
    /\ merged = <<>> /\ booked = <<>> /\ asserted = FALSE

\* PALOLD::read, write and erase: every page of the superpage in turn.
Serve ==
    /\ served < Len(setup.requests)
    /\ LET r == setup.requests[served + 1]
       IN  \E after \in {FoldLeft(LAMBDA st, a :
                                    TimelineScheduling(st, r.op, a, r.arrived),
                                  [channel |-> channel, die |-> die,
                                   merged |-> merged, booked |-> booked,
                                   asserted |-> asserted],
                                  convertCPDPBP(setup, r))} :
             /\ channel' = after.channel /\ die' = after.die
             /\ merged' = after.merged /\ booked' = after.booked
             /\ asserted' = after.asserted
    /\ served' = served + 1
    /\ UNCHANGED setup

\* flushEvent: FlushFreeSlots and FlushTimeSlots up to a tick that no later
\* request lies before.
Flush ==
    \E now \in {setup.requests[i].arrived : i \in (served + 1)..Len(setup.requests)} :
      /\ \A i \in (served + 1)..Len(setup.requests) :
           setup.requests[i].arrived >= now
      /\ channel' = [c \in DOMAIN channel |-> FlushAFreeSlot(channel[c], now)]
      /\ die' = [d \in DOMAIN die |-> FlushAFreeSlot(die[d], now)]
      /\ merged' = FlushATimeSlotBusyTime(merged, now)
      /\ UNCHANGED <<setup, served, booked, asserted>>

Next == Serve \/ Flush

Spec == Init /\ [][Next]_vars

(***************************************************************************)
(* Properties                                                              *)
(***************************************************************************)
Apart(x, y) == x[2] < y[1] \/ y[2] < x[1]

\* No two transfers hold a channel at once, no two operations a die, and none
\* begins before it arrived, however requests from different ticks interleave.
Exclusive ==
    /\ \A i, k \in DOMAIN booked : i < k =>
         LET a == booked[i]
             b == booked[k]
         IN  /\ a.channel = b.channel =>
                  \A x \in {a.dma0, a.dma1}, y \in {b.dma0, b.dma1} : Apart(x, y)
             /\ a.die = b.die => Apart(a.mem, b.mem)
    /\ \A i \in DOMAIN booked :
         /\ booked[i].arrived <= booked[i].dma0[1]
         /\ booked[i].dma0[2] < booked[i].dma1[1]
         /\ ~asserted

\* The die is held from the start of DMA0 to the end of DMA1.
HeldThroughout ==
    \A i \in DOMAIN booked : /\ booked[i].mem[1] = booked[i].dma0[1]
                             /\ booked[i].mem[2] = booked[i].dma1[2]

\* Every page of every superpage has a physical page of its own, inside the
\* device, and between them they fill it (planes joined by multi-plane
\* operation count as one).
AddressesDistinct ==
    LET All == (0..(SuperBlocks(setup) - 1)) \X (0..(Size.page - 1))
                 \X (0..(PagesInSuperPage(setup) - 1))
        Image == {Address(setup, x[1], x[2], x[3]) : x \in All}
    IN  /\ Cardinality(Image) = Cardinality(All)
        /\ Cardinality(All) = Size.channel * Size.package * Size.die
             * Size.block * Size.page * (IF setup.multi THEN 1 ELSE Size.plane)
        /\ \A a \in Image : \A d \in Dims \cup {"block"} : a[d] < Size[d]
==============================================================================
