------------------------------ MODULE NVMeDMA ------------------------------
(***************************************************************************)
(* Data transfer between host memory and the controller: physical region   *)
(* page lists and scatter gather lists (hil/nvme/dma.cc) cut a transfer    *)
(* into pieces, and the interconnect FIFO (util/fifo.cc) moves the pieces  *)
(* upstream, splitting what does not fit.                                  *)
(*                                                                         *)
(* A behaviour makes the transfers of one workload.  A transfer is the     *)
(* range [off, off + len) of a buffer of "total" bytes that starts "skew"  *)
(* bytes into its first page.                                              *)
(* The lists in host memory are the ones an NVMe driver builds (external): *)
(* the second pointer is a page when one page is left and a list           *)
(* otherwise, and a list that does not fit ends in a pointer to the next.  *)
(* Latencies are left out: what has been started ends at any later time,   *)
(* in the order that the code's timestamps enforce.                        *)
(***************************************************************************)
EXTENDS Integers, Sequences, FiniteSets, SequencesExt, FiniteSetsExt

CONSTANTS
  PageSize,       \* cfg.memoryPageSize
  ListEntries,    \* entries of a page of a list
  BlockSize,      \* bytes of a data block of a scatter gather list
  Unit,           \* param.transferUnit
  Capacity,       \* param.rqSize = param.wqSize
  Workloads       \* sequences of transfers [kind, dir, skew, total, off, len]

Dirs == {"read", "write"}

VARIABLES
  shape,      \* the transfers of this behaviour, in the order they are made
  context,    \* per transfer: [pieces, counter]; pieces is -1 before it is made
  fifo,       \* per direction, the state of the FIFO
  moved       \* per transfer, the ranges of host memory moved so far

vars == <<shape, context, fifo, moved>>

-----------------------------------------------------------------------------
(* Lists. *)

(* The buffer is scattered over pages or, for a scatter gather list, over  *)
(* blocks: extent k is at Addr(s, k) and byte b at ByteAddr(s, b).         *)
Extent(s) == IF s.kind = "prp" THEN PageSize ELSE BlockSize
Addr(s, k) == 2 * k * Extent(s)
ByteAddr(s, b) ==
  Addr(s, (s.skew + b) \div Extent(s)) + ((s.skew + b) % Extent(s))
PageAddr(k) == 2 * k * PageSize

Piece(addr, size) == [addr |-> addr, size |-> size]

PRPSizeWhole(addr) == PageSize
PRPSize(addr) == PageSize - (addr % PageSize)

(* The driver's list (external): data pages from page k on, n of them.  An *)
(* address below 0 points to the list of the pages from its negation on.   *)
DriverList(k, n) ==
  IF n <= ListEntries THEN [i \in 1..n |-> PageAddr(k + i - 1)]
  ELSE Append([i \in 1..(ListEntries - 1) |-> PageAddr(k + i - 1)],
              -(k + ListEntries - 1))

(* getPRPListFromPRP: entries are taken until "size" is covered; when a    *)
(* page of the list is not enough its last entry is followed, after its    *)
(* own size was subtracted like that of a data page.  Step i is the state  *)
(* after i pages of the list: [from, n] is the driver's list to read.      *)
Walk(s, k, size) ==
  LET pages == ((s.skew + s.total + PageSize - 1) \div PageSize) - k
      step[i \in 0..pages] ==
        IF i = 0 THEN [out |-> <<>>, from |-> k, n |-> pages, left |-> size]
        ELSE LET p == step[i - 1]
                 list == DriverList(p.from, p.n)
                 use  == Min({(p.left + PageSize - 1) \div PageSize,
                              Len(list)})
             IN IF p.left <= 0 THEN p
                ELSE IF use * PageSize >= p.left
                THEN [p EXCEPT !.out = @ \o [j \in 1..use |->
                                               Piece(list[j], PageSize)],
                               !.left = 0]
                ELSE [out  |-> p.out \o [j \in 1..(use - 1) |->
                                           Piece(list[j], PageSize)],
                      from |-> p.from + use - 1,
                      n    |-> p.n - use + 1,
                      left |-> p.left - use * PageSize]
  IN step[pages].out

(* The first page of PRPList::PRPList and whether the second pointer is    *)
(* read as a list.                                                         *)
FirstSize(s) == PRPSize(s.skew)
ReadsList(s) == /\ s.total > PageSize
                /\ ~(s.total <= 2 * PageSize /\ FirstSize(s) = PageSize)

(* The driver puts a list there only when more than a page is left.        *)
DriverPutsList(s) == s.total - FirstSize(s) > PageSize

(* PRPList::PRPList for data. *)
PRPList(s) ==
  IF s.total <= FirstSize(s) THEN <<Piece(s.skew, s.total)>>
  ELSE IF ReadsList(s)
  THEN <<Piece(s.skew, FirstSize(s))>> \o Walk(s, 1, s.total - FirstSize(s))
  ELSE <<Piece(s.skew, FirstSize(s)), Piece(PageAddr(1), PageSize)>>

(* SGL::SGL with parseSGLSegment and parseSGLDescriptor: the driver makes  *)
(* a data block of each block, or a bit bucket of every second one.        *)
Bucket(s, addr) == ((addr \div Extent(s)) \div 2) % 2 = 1
SGL(s) ==
  [i \in 1..((s.skew + s.total + BlockSize - 1) \div BlockSize) |->
     IF i = 1 THEN Piece(s.skew, Min({s.total, BlockSize - s.skew}))
     ELSE Piece(Addr(s, i - 1),
                Min({BlockSize, s.skew + s.total - (i - 1) * BlockSize}))]

(* PRPList::read, PRPList::write, SGL::read and SGL::write: the pieces of  *)
(* the list that make up the range, from the first one that reaches into   *)
(* it to the first later one that reaches its end.  The loop does not stop *)
(* when the first piece is enough: it then asks for an empty piece of the  *)
(* next one.                                                               *)
Begin(list, i) == FoldLeft(LAMBDA n, p : n + p.size, 0, SubSeq(list, 1, i - 1))
End(list, i) == Begin(list, i) + list[i].size

Cut(list, off, len) ==
  LET first == Min({i \in DOMAIN list : End(list, i) > off})
      last  == Min({i \in DOMAIN list : i > first /\ End(list, i) >= off + len}
                   \union {Len(list)})
      from(i) == Max({Begin(list, i), off})
      to(i)   == Min({End(list, i), off + len})
  IN [j \in 1..(last - first + 1) |->
        LET i == first + j - 1 IN
        Piece(list[i].addr + from(i) - Begin(list, i), Max({to(i) - from(i), 0}))]

(* The pieces that a transfer asks of the FIFO: a bit bucket is skipped.   *)
Pieces(s) ==
  IF s.kind = "prp" THEN Cut(PRPList(s), s.off, s.len)
  ELSE SelectSeq(Cut(SGL(s), s.off, s.len),
                 LAMBDA p : ~Bucket(s, p.addr))
-----------------------------------------------------------------------------
(* The FIFO.  In both directions "wait" is waitQueue and "transfer" is     *)
(* transferQueue; "events" are the scheduled ones of beginTransfer,        *)
(* insertDone and submitCompletion.  "dma" says that the upstream works,   *)
(* "ended" are the ids in readCompletion: those whose upstream transfer    *)
(* ended and those whose insertion ended.                                  *)

EmptyFIFO ==
  [wait |-> <<>>, transfer |-> <<>>, usage |-> 0, inserting |-> FALSE,
   transferring |-> FALSE, dma |-> FALSE, events |-> {},
   ended |-> [dma |-> {}, insert |-> {}], counter |-> 0]

CalcSize(size) == IF size < Unit THEN size
                  ELSE ((size + Unit - 1) \div Unit) * Unit

(* A request that is larger than the queue is split at a unit.             *)
Split(wait) ==
  LET e == Head(wait) IN
  IF CalcSize(e.size) <= Capacity THEN wait
  ELSE <<[e EXCEPT !.last = FALSE, !.size = Unit],
         [e EXCEPT !.last = TRUE, !.size = @ - Unit, !.addr = @ + Unit]>>
       \o Tail(wait)

(* The test of insertWrite and transferRead.  Neither what is pending nor  *)
(* the usage stops a request that has to be split.                         *)
MustWait(f, pending) ==
  LET size == CalcSize(Head(f.wait).size) IN
  size <= Capacity /\ (pending \/ f.usage + size > Capacity)

(* transferRead: ask the upstream for the request at the head.             *)
TransferRead(f) ==
  IF f.wait = <<>> \/ MustWait(f, f.transferring) THEN f
  ELSE LET wait == Split(f.wait)
           e    == [Head(wait) EXCEPT !.id = f.counter]
       IN [f EXCEPT !.wait = <<e>> \o Tail(wait),
                    !.transfer = Append(@, e),
                    !.usage = @ + CalcSize(e.size),
                    !.transferring = TRUE, !.dma = TRUE,
                    !.counter = @ + 1,
                    !.events = @ \union {"begin"}]

(* insertRead: move the oldest transferred request downstream.             *)
InsertRead(f) ==
  IF f.inserting THEN f
  ELSE [f EXCEPT !.inserting = TRUE, !.events = @ \union {"insertDone"}]

(* Start the next insertion, unless an event will.                         *)
Reinsert(f) == IF f.transfer # <<>> /\ "begin" \notin f.events
               THEN InsertRead(f) ELSE f

(* insertReadDoneNext without its callback.                                *)
ReadNext(f) ==
  LET rest == [f EXCEPT !.usage = @ - CalcSize(Head(f.transfer).size),
                        !.inserting = FALSE,
                        !.transfer = Tail(@)]
  IN TransferRead(Reinsert(rest))

(* transferReadDone: the upstream has read.  Completion is scheduled when  *)
(* the insertion was faster.                                               *)
ReadDMADone(f) ==
  LET id == Head(f.wait).id
      g  == IF id \in f.ended.insert
            THEN [f EXCEPT !.ended.insert = @ \ {id},
                           !.events = @ \union {"submit"}]
            ELSE [f EXCEPT !.ended.dma = @ \union {id}]
  IN TransferRead([g EXCEPT !.wait = Tail(@), !.transferring = FALSE,
                            !.dma = FALSE])

(* insertWrite: start to take in the request at the head.                  *)
InsertWrite(f) ==
  IF f.wait = <<>> \/ MustWait(f, f.inserting) THEN f
  ELSE LET wait == Split(f.wait) IN
       [f EXCEPT !.wait = wait,
                 !.transfer = Append(@, Head(wait)),
                 !.usage = @ + CalcSize(Head(wait).size),
                 !.inserting = TRUE,
                 !.events = @ \union {"insertDone", "begin"}]

(* transferWrite: hand the oldest request upstream.                        *)
TransferWrite(f) ==
  IF f.transferring THEN f
  ELSE [f EXCEPT !.transferring = TRUE, !.dma = TRUE]

(* transferWriteDoneNext without its callback.                             *)
WriteNext(f) ==
  LET rest == [f EXCEPT !.usage = @ - CalcSize(Head(f.transfer).size),
                        !.transferring = FALSE,
                        !.transfer = Tail(@)]
      next == IF rest.transfer # <<>> /\ "begin" \notin rest.events
              THEN TransferWrite(rest) ELSE rest
  IN InsertWrite(next)

(* dmaRead and dmaWrite for the pieces of a transfer; an empty request is  *)
(* ignored.  A request starts what waits at the head, which no later       *)
(* request of the same loop can start again.                               *)
Requests(f, dir, x, pieces) ==
  LET new == SelectSeq(pieces, LAMBDA p : p.size > 0)
      g   == [f EXCEPT !.wait = @ \o [i \in DOMAIN new |->
                [x |-> x, addr |-> new[i].addr, size |-> new[i].size,
                 last |-> TRUE, id |-> 0]]]
  IN IF dir = "read" THEN TransferRead(g) ELSE InsertWrite(g)

-----------------------------------------------------------------------------
Init ==
  /\ shape \in Workloads
  /\ context = [x \in DOMAIN shape |-> [pieces |-> -1, counter |-> 0]]
  /\ fifo = [d \in Dirs |-> EmptyFIFO]
  /\ moved = [x \in DOMAIN shape |-> <<>>]

Started(x) == context[x].pieces >= 0
Misread(s) == s.kind = "prp" /\ ReadsList(s) /\ ~DriverPutsList(s)

(* A transfer asks for all its pieces and counts them; one without pieces  *)
(* is answered at once.  When a page is taken for a list the transfer is   *)
(* left out: what happens depends on the data.                             *)
Start(x) ==
  /\ ~Started(x) /\ \A y \in 1..(x - 1) : Started(y) \/ Misread(shape[y])
  /\ ~Misread(shape[x])
  /\ LET p == Pieces(shape[x])
         d == shape[x].dir
     IN /\ context' = [context EXCEPT ![x] = [pieces |-> Len(p),
                                              counter |-> Len(p)]]
        /\ fifo' = [fifo EXCEPT ![d] = Requests(@, d, x, p)]
  /\ UNCHANGED <<shape, moved>>

(* The oldest request has passed the FIFO; its last part is called back,   *)
(* commonDMAHandler.                                                       *)
Passed(d, next(_)) ==
  LET e == Head(fifo[d].transfer) IN
  /\ fifo' = [fifo EXCEPT ![d] = next(@)]
  /\ moved' = [moved EXCEPT ![e.x] = Append(@, Piece(e.addr, e.size))]
  /\ context' = IF e.last THEN [context EXCEPT ![e.x].counter = @ - 1]
                ELSE context
  /\ UNCHANGED shape

Step(d, f) == fifo' = [fifo EXCEPT ![d] = f] /\ UNCHANGED <<shape, context, moved>>

(* The steps of reads: the upstream ends, the events fire.                 *)
Upstream == fifo["read"].dma /\ Step("read", ReadDMADone(fifo["read"]))

ReadBegin ==
  /\ "begin" \in fifo["read"].events
  /\ Step("read", InsertRead([fifo["read"] EXCEPT !.events = @ \ {"begin"}]))

ReadInsertDone ==
  LET f  == [fifo["read"] EXCEPT !.events = @ \ {"insertDone"}]
      id == Head(f.transfer).id
      g  == [f EXCEPT !.ended.dma = @ \ {id}]
  IN /\ "insertDone" \in fifo["read"].events
     /\ IF id \in f.ended.dma
        THEN \/ Passed("read", LAMBDA h : ReadNext(g))
             \/ Step("read", [g EXCEPT !.events = @ \union {"submit"}])
        ELSE Step("read", [f EXCEPT !.ended.insert = @ \union {id}])

ReadSubmit ==
  /\ "submit" \in fifo["read"].events
  /\ Passed("read", LAMBDA f : ReadNext([f EXCEPT !.events = @ \ {"submit"}]))

(* The steps of writes.  A request completes after its insertion ended.    *)
WriteInsertDone ==
  /\ "insertDone" \in fifo["write"].events
  /\ Step("write", InsertWrite([fifo["write"] EXCEPT
            !.events = @ \ {"insertDone"}, !.wait = Tail(@),
            !.inserting = FALSE]))

WriteBegin ==
  /\ "begin" \in fifo["write"].events
  /\ Step("write", TransferWrite([fifo["write"] EXCEPT
                                    !.events = @ \ {"begin"}]))

Inserted(f) == ~(f.inserting /\ Len(f.transfer) = 1)

WriteDMADone ==
  LET f == [fifo["write"] EXCEPT !.dma = FALSE] IN
  /\ fifo["write"].dma
  /\ \/ Inserted(f) /\ Passed("write", LAMBDA h : WriteNext(f))
     \/ Step("write", [f EXCEPT !.events = @ \union {"submit"}])

WriteSubmit ==
  /\ "submit" \in fifo["write"].events /\ Inserted(fifo["write"])
  /\ Passed("write", LAMBDA f : WriteNext([f EXCEPT !.events = @ \ {"submit"}]))

FIFOStep == \/ Upstream \/ ReadBegin \/ ReadInsertDone \/ ReadSubmit
            \/ WriteInsertDone \/ WriteBegin \/ WriteDMADone \/ WriteSubmit

Next == (\E x \in DOMAIN shape : Start(x)) \/ FIFOStep

(* Events fire and the upstream answers.                                   *)
Spec == Init /\ [][Next]_vars /\ WF_vars(FIFOStep)

-----------------------------------------------------------------------------
(* Properties *)

(* The bytes of the range, in order, without those of bit buckets.         *)
Wanted(s) ==
  LET all == [b \in 1..s.len |-> ByteAddr(s, s.off + b - 1)]
  IN IF s.kind = "prp" THEN all
     ELSE SelectSeq(all, LAMBDA a : ~Bucket(s, a))
Bytes(x) ==
  FlattenSeq([i \in DOMAIN moved[x] |->
                [b \in 1..moved[x][i].size |-> moved[x][i].addr + b - 1]])

Finished(x) == Started(x) /\ context[x].counter = 0
Chained(s) == s.kind = "prp" /\ s.total - FirstSize(s) > ListEntries * PageSize

(* When a transfer is answered exactly the bytes of its range were moved,  *)
(* each once and in order, across page lists, skewed first pages, splits   *)
(* and two transfers that share the FIFO; the exception is a page list     *)
(* that continues on a second page.                                        *)
MovesRange ==
  \A x \in DOMAIN shape :
    (Finished(x) /\ ~Chained(shape[x])) => Bytes(x) = Wanted(shape[x])

(* No event fires and no upstream transfer ends on an empty transferQueue, *)
(* and the usage is what the queue holds; it exceeds the capacity only     *)
(* while parts of a request larger than the queue pass.                    *)
FIFOSound ==
  \A d \in Dirs : LET f == fifo[d] IN
    /\ (f.events # {} \/ f.dma) => f.transfer # <<>>
    /\ f.usage = FoldLeft(LAMBDA n, e : n + CalcSize(e.size), 0,
                                        f.transfer)
    /\ f.usage > Capacity => \E x \in DOMAIN shape :
                               Started(x) /\ shape[x].len > Capacity

(* Every transfer that is made is answered, except one that ends inside    *)
(* the first piece of a longer list: it asks for an empty piece, which the *)
(* FIFO ignores.                                                           *)
EmptyPiece(s) == \E i \in DOMAIN Pieces(s) : Pieces(s)[i].size = 0
Answered ==
  \A x \in DOMAIN shape :
    Started(x) => Finished(x) \/ EmptyPiece(shape[x])
=============================================================================
