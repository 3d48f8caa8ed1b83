------------------------- MODULE PageMappingProofs -------------------------
(***************************************************************************)
(* Proofs about PageMapping for every geometry, policy and command mix:    *)
(* the type and map invariants, and on top of them what the flash holds    *)
(* and which blocks carry it (wear, erase before program, the open blocks, *)
(* the warm-up, and the refinement of LogicalDisk).                        *)
(***************************************************************************)
EXTENDS PageMapping, TLAPS, FiniteSetTheorems, SequenceTheorems, WellFoundedInduction

-----------------------------------------------------------------------------
(* Least and greatest elements, and positions in sequences                 *)

(* A non-empty set of naturals has a least element.                        *)
LEMMA LeastElement ==
  ASSUME NEW T \in SUBSET Nat, T # {}
  PROVE  \E m \in T : \A k \in T : m <= k
<1>1. PICK m \in T : \A k \in T : ~(<<k, m>> \in OpToRel(<, Nat))
  BY NatLessThanWellFounded, WFMin
<1>2. \A k \in T : ~(k < m)
  BY <1>1 DEF OpToRel
<1> QED
  BY <1>2

(* A non-empty set of positive numbers up to n has a greatest element.     *)
LEMMA GreatestElement ==
  ASSUME NEW n \in Nat, NEW T \in SUBSET (1..n), T # {}
  PROVE  \E m \in T : \A k \in T : k <= m
<1> DEFINE U == {j \in Nat : n - j \in T}
<1>1. PICK k0 \in T : TRUE
  OBVIOUS
<1>2. n - k0 \in U
  BY <1>1
<1>3. PICK j \in U : \A u \in U : j <= u
  BY <1>2, LeastElement
<1>4. \A k \in T : n - k \in U
  OBVIOUS
<1>5. \A k \in T : k <= n - j
  BY <1>3, <1>4
<1> QED
  BY <1>3, <1>5

(* RemoveAt drops position k and shifts what is behind it.                 *)
LEMMA RemoveAtLemma ==
  ASSUME NEW S, NEW s \in Seq(S), NEW k \in 1..Len(s)
  PROVE  /\ RemoveAt(s, k) \in Seq(S)
         /\ Len(RemoveAt(s, k)) = Len(s) - 1
         /\ \A j \in 1..(Len(s) - 1) :
              RemoveAt(s, k)[j] = IF j < k THEN s[j] ELSE s[j + 1]
<1> DEFINE front == SubSeq(s, 1, k - 1)
           back  == SubSeq(s, k + 1, Len(s))
<1>1. /\ front \in Seq(S) /\ Len(front) = k - 1
      /\ \A j \in 1..(k - 1) : front[j] = s[j]
  BY SubSeqProperties
<1>2. /\ back \in Seq(S) /\ Len(back) = Len(s) - k
      /\ \A j \in 1..(Len(s) - k) : back[j] = s[j + k]
  BY SubSeqProperties
<1>3. RemoveAt(s, k) = front \o back
  BY DEF RemoveAt
<1> HIDE DEF front, back
<1>4. /\ front \o back \in Seq(S)
      /\ Len(front \o back) = Len(s) - 1
      /\ \A j \in 1..(Len(s) - 1) :
           (front \o back)[j] = IF j <= k - 1 THEN front[j]
                                ELSE back[j - (k - 1)]
  <2>1. /\ front \o back \in Seq(S)
        /\ Len(front \o back) = Len(front) + Len(back)
        /\ \A j \in 1..(Len(front) + Len(back)) :
             (front \o back)[j] = IF j <= Len(front) THEN front[j]
                                  ELSE back[j - Len(front)]
    BY <1>1, <1>2, ConcatProperties
  <2> QED
    BY <2>1, <1>1, <1>2
<1>5. ASSUME NEW j \in 1..(Len(s) - 1)
      PROVE  (front \o back)[j] = IF j < k THEN s[j] ELSE s[j + 1]
  <2>1. CASE j < k
    BY <2>1, <1>1, <1>4
  <2>2. CASE ~(j < k)
    <3>1. j - (k - 1) \in 1..(Len(s) - k) /\ j - (k - 1) + k = j + 1
      BY <2>2
    <3> QED
      BY <2>2, <3>1, <1>2, <1>4
  <2> QED
    BY <2>1, <2>2
<1> QED
  BY <1>3, <1>4, <1>5

(* InsertAt puts e at position k and shifts what was there.                *)
LEMMA InsertAtLemma ==
  ASSUME NEW S, NEW s \in Seq(S), NEW k \in 1..(Len(s) + 1), NEW e \in S
  PROVE  /\ InsertAt(s, k, e) \in Seq(S)
         /\ Len(InsertAt(s, k, e)) = Len(s) + 1
         /\ \A j \in 1..(Len(s) + 1) :
              InsertAt(s, k, e)[j] = IF j < k THEN s[j]
                                     ELSE IF j = k THEN e ELSE s[j - 1]
<1> DEFINE front == SubSeq(s, 1, k - 1)
           back  == SubSeq(s, k, Len(s))
<1>1. /\ front \in Seq(S) /\ Len(front) = k - 1
      /\ \A j \in 1..(k - 1) : front[j] = s[j]
  BY SubSeqProperties
<1>2. /\ back \in Seq(S) /\ Len(back) = Len(s) - k + 1
      /\ \A j \in 1..(Len(s) - k + 1) : back[j] = s[j + k - 1]
  BY SubSeqProperties
<1>3. InsertAt(s, k, e) = front \o <<e>> \o back
  BY DEF InsertAt
<1> HIDE DEF front, back
<1>4. /\ front \o <<e>> \in Seq(S)
      /\ Len(front \o <<e>>) = k
      /\ \A j \in 1..k : (front \o <<e>>)[j] = IF j < k THEN s[j] ELSE e
  BY <1>1, ConcatProperties
<1> QED
  BY <1>2, <1>3, <1>4, ConcatProperties

-----------------------------------------------------------------------------
(* Types, the free list and the collection loop                            *)

TypeInv == TypeOK /\ FreeListSound /\ GCLoopInRange

(* getFreeBlock finds a position on a list that is not empty.              *)
LEMMA FreePositionLemma ==
  ASSUME TypeInv, NEW idx \in Opens, nFreeBlocks # 0
  PROVE  FreePosition(idx) \in 1..Len(freeBlocks)
<1> DEFINE fits == {k \in 1..Len(freeBlocks) :
                      freeBlocks[k] % PageCountToMaxPerf = idx}
<1>1. Len(freeBlocks) \in Nat /\ Len(freeBlocks) # 0
  BY DEF TypeInv, TypeOK, nFreeBlocks
<1>2. CASE fits = {}
  BY <1>1, <1>2 DEF FreePosition
<1>3. CASE fits # {}
  <2>1. \E k \in fits : \A j \in fits : k <= j
    <3>1. fits \in SUBSET Nat
      OBVIOUS
    <3> HIDE DEF fits
    <3> QED
      BY <1>3, <3>1, LeastElement
  <2>2. FreePosition(idx) = CHOOSE k \in fits : \A j \in fits : k <= j
    BY <1>3 DEF FreePosition
  <2>3. FreePosition(idx) \in fits
    <3> HIDE DEF fits
    <3> QED
      BY <2>1, <2>2
  <2> QED
    BY <2>3
<1> QED
  BY <1>2, <1>3

(* The block a write goes to exists and has room in every column.          *)
LEMMA TargetLemma ==
  ASSUME TypeInv, NEW io \in SUBSET Units, GetBlockPanic(io) = "none"
  PROVE  /\ OpenIndex(io) \in Opens
         /\ OpenIsFull(io) => FreePosition(OpenIndex(io)) \in 1..Len(freeBlocks)
         /\ TargetBlock(io) \in Blocks
         /\ \A i \in Units : nextWrite[TargetBlock(io)][i] \in Pages
<1>1. OpenIndex(io) \in Opens
  BY GeometryAssumption DEF TypeInv, TypeOK, OpenIndex, Opens
<1>2. OpenBlock(io) \in Blocks
  BY <1>1 DEF OpenBlock, TypeInv, TypeOK
<1>3. ASSUME OpenIsFull(io)
      PROVE  FreePosition(OpenIndex(io)) \in 1..Len(freeBlocks)
  <2>1. nFreeBlocks # 0
    BY <1>3 DEF GetBlockPanic
  <2> QED
    BY <1>1, <2>1, FreePositionLemma
<1>4. CASE OpenIsFull(io)
  <2>1. TargetBlock(io) = freeBlocks[FreePosition(OpenIndex(io))]
    BY <1>4 DEF TargetBlock
  <2>2. TargetBlock(io) \in Blocks
    BY <1>3, <1>4, <2>1 DEF TypeInv, TypeOK
  <2>3. \A i \in Units : nextWrite[TargetBlock(io)][i] = 0
    BY <1>3, <1>4, <2>1 DEF TypeInv, FreeListSound
  <2> QED
    BY <1>1, <1>3, <1>4, <2>2, <2>3, GeometryAssumption DEF Pages
<1>5. CASE ~OpenIsFull(io)
  <2>1. TargetBlock(io) = OpenBlock(io)
    BY <1>5 DEF TargetBlock
  <2>2. \A i \in Units : nextWrite[OpenBlock(io)][i] # PagesInBlock
    BY <1>5 DEF OpenIsFull, IsFull
  <2>3. \A i \in Units : nextWrite[OpenBlock(io)][i] \in 0..PagesInBlock
    BY <1>2 DEF TypeInv, TypeOK
  <2> QED
    BY <1>1, <1>2, <1>5, <2>1, <2>2, <2>3, GeometryAssumption DEF Pages
<1> QED
  BY <1>4, <1>5

(* What getLastFreeBlock leaves of the pool: the target is in use and off  *)
(* the free list, which otherwise only shrinks.                            *)
LEMMA PoolLemma ==
  ASSUME TypeInv, NEW io \in SUBSET Units, GetBlockPanic(io) = "none",
         GetLastFreeBlock(io)
  PROVE  /\ blocks' = blocks \cup {TargetBlock(io)}
         /\ freeBlocks' \in Seq(Blocks)
         /\ lastFreeBlock' \in [Opens -> Blocks]
         /\ lastFreeBlockIndex' \in Opens
         /\ lastFreeBlockIOMap' \in SUBSET Units
         /\ bReclaimMore' \in BOOLEAN
         /\ \A k \in 1..Len(freeBlocks') :
              /\ freeBlocks'[k] # TargetBlock(io)
              /\ \E j \in 1..Len(freeBlocks) : freeBlocks'[k] = freeBlocks[j]
         /\ \A j, k \in 1..Len(freeBlocks') :
              j # k => freeBlocks'[j] # freeBlocks'[k]
<1> DEFINE n == FreePosition(OpenIndex(io))
           t == TargetBlock(io)
<1>1. /\ OpenIndex(io) \in Opens
      /\ OpenIsFull(io) => n \in 1..Len(freeBlocks)
      /\ t \in Blocks
  BY TargetLemma
<1>2. freeBlocks \in Seq(Blocks) /\ Len(freeBlocks) \in Nat
  BY DEF TypeInv, TypeOK
<1>3. /\ lastFreeBlockIndex' \in Opens
      /\ lastFreeBlockIOMap' \in SUBSET Units
  BY <1>1 DEF GetLastFreeBlock, TypeInv, TypeOK
<1>4. CASE OpenIsFull(io)
  <2>1. /\ blocks' = blocks \cup {t}
        /\ freeBlocks' = RemoveAt(freeBlocks, n)
        /\ lastFreeBlock' = [lastFreeBlock EXCEPT ![OpenIndex(io)] = t]
        /\ bReclaimMore' = TRUE
    BY <1>4 DEF GetLastFreeBlock, FreeBlocksWithout
  <2>2. lastFreeBlock' \in [Opens -> Blocks]
    BY <1>1, <2>1 DEF TypeInv, TypeOK
  <2>3. t = freeBlocks[n]
    BY <1>4 DEF TargetBlock
  <2> HIDE DEF n, t
  <2>4. /\ freeBlocks' \in Seq(Blocks)
        /\ Len(freeBlocks') = Len(freeBlocks) - 1
        /\ \A j \in 1..(Len(freeBlocks) - 1) :
             freeBlocks'[j] = IF j < n THEN freeBlocks[j] ELSE freeBlocks[j + 1]
    BY <1>1, <1>2, <1>4, <2>1, RemoveAtLemma
  <2>5. \A j, k \in 1..Len(freeBlocks) :
          j # k => freeBlocks[j] # freeBlocks[k]
    BY DEF TypeInv, FreeListSound
  <2>6. n \in 1..Len(freeBlocks)
    BY <1>1, <1>4
  <2>7. ASSUME NEW k \in 1..Len(freeBlocks')
        PROVE  \E j \in 1..Len(freeBlocks) : j # n /\ freeBlocks'[k] = freeBlocks[j]
    BY <1>2, <2>4, <2>6
  <2>8. ASSUME NEW j \in 1..Len(freeBlocks'), NEW k \in 1..Len(freeBlocks'), j < k
        PROVE  freeBlocks'[j] # freeBlocks'[k]
    BY <1>2, <2>4, <2>5, <2>6, <2>8
  <2>9. Len(freeBlocks') \in Nat
    BY <2>4
  <2>10. ASSUME NEW j \in 1..Len(freeBlocks'), NEW k \in 1..Len(freeBlocks'), j # k
         PROVE  freeBlocks'[j] # freeBlocks'[k]
    <3>1. CASE j < k
      BY <3>1, <2>8
    <3>2. CASE k < j
      BY <3>2, <2>8
    <3> QED
      BY <2>9, <2>10, <3>1, <3>2
  <2>11. ASSUME NEW k \in 1..Len(freeBlocks')
         PROVE  freeBlocks'[k] # t
    BY <2>3, <2>5, <2>6, <2>7
  <2> QED
    BY <1>3, <2>1, <2>2, <2>4, <2>7, <2>10, <2>11 DEF t
<1>5. CASE ~OpenIsFull(io)
  <2>1. UNCHANGED <<blocks, freeBlocks, lastFreeBlock, bReclaimMore>>
    BY <1>5 DEF GetLastFreeBlock
  <2>2. t \in blocks
    BY <1>5 DEF TargetBlock, GetBlockPanic
  <2> QED
    BY <1>3, <2>1, <2>2 DEF TypeInv, TypeOK, FreeListSound
<1> QED
  BY <1>4, <1>5

(* Block::write stays inside the block and leaves the other blocks alone.  *)
LEMMA ProgramLemma ==
  ASSUME TypeInv, NEW t \in Blocks, NEW io \in SUBSET Units,
         NEW owner \in [Units -> Lpns],
         \A i \in Units : nextWrite[t][i] \in Pages,
         Program(t, io, owner)
  PROVE  /\ lpns' \in [Blocks -> [Pages -> [Units -> Lpns]]]
         /\ nextWrite' \in [Blocks -> [Units -> 0..PagesInBlock]]
         /\ \A b \in Blocks : b # t => nextWrite'[b] = nextWrite[b]
<1>1. lpns \in [Blocks -> [Pages -> [Units -> Lpns]]]
  BY DEF TypeInv, TypeOK
<1>2. nextWrite \in [Blocks -> [Units -> 0..PagesInBlock]]
  BY DEF TypeInv, TypeOK
<1>3. lpns' \in [Blocks -> [Pages -> [Units -> Lpns]]]
  BY <1>1 DEF Program
<1>4. [i \in Units |-> IF i \in io THEN nextWrite[t][i] + 1 ELSE nextWrite[t][i]]
        \in [Units -> 0..PagesInBlock]
  BY GeometryAssumption DEF Pages
<1>5. nextWrite' = [nextWrite EXCEPT ![t] =
         [i \in Units |-> IF i \in io THEN nextWrite[t][i] + 1
                                      ELSE nextWrite[t][i]]]
  BY DEF Program
<1> QED
  BY <1>2, <1>3, <1>4, <1>5

(* The free list after a step that takes the target from it and programs   *)
(* only the target.                                                        *)
LEMMA FreeListAfterProgram ==
  ASSUME TypeInv, NEW io \in SUBSET Units, GetBlockPanic(io) = "none",
         GetLastFreeBlock(io),
         \A b \in Blocks : b # TargetBlock(io) => nextWrite'[b] = nextWrite[b]
  PROVE  FreeListSound'
<1>1. \A k \in 1..Len(freeBlocks) :
        /\ freeBlocks[k] \in Blocks
        /\ freeBlocks[k] \notin blocks
        /\ \A i \in Units : nextWrite[freeBlocks[k]][i] = 0
  BY DEF TypeInv, TypeOK, FreeListSound
<1> QED
  BY <1>1, PoolLemma DEF FreeListSound

(* writeInternal keeps the type invariant, whatever the page, the units    *)
(* and the data.                                                           *)
LEMMA WriteInternalType ==
  ASSUME TypeInv, NEW l \in Lpns, NEW io \in SUBSET Units, NEW d \in Data,
         NEW next \in {"fill", "idle", "select"},
         GetBlockPanic(io) = "none",
         WriteInternal(l, io, d, next), filled' \in Nat
  PROVE  TypeInv'
<1> DEFINE t == TargetBlock(io)
<1>1. /\ GetLastFreeBlock(io)
      /\ Program(t, io, [i \in Units |-> l])
      /\ valid' = [b \in Blocks |-> [p \in Pages |->
            (valid[b][p] \ Stale(l, io, b, p))
              \cup {i \in io : b = t /\ p = nextWrite[t][i]}]]
      /\ table' = [table EXCEPT ![l] =
            [i \in Units |-> IF i \in io THEN <<t, nextWrite[t][i]>>
                                         ELSE table[l][i]]]
      /\ flash' = [flash EXCEPT ![t] = [p \in Pages |-> [i \in Units |->
            IF i \in io /\ p = nextWrite[t][i] THEN d ELSE flash[t][p][i]]]]
      /\ pc' = next
      /\ UNCHANGED <<eraseCount, gcVars, panic>>
  BY DEF WriteInternal
<1>2. t \in Blocks /\ \A i \in Units : nextWrite[t][i] \in Pages
  BY TargetLemma
<1>3. [i \in Units |-> l] \in [Units -> Lpns]
  OBVIOUS
<1>4. /\ lpns' \in [Blocks -> [Pages -> [Units -> Lpns]]]
      /\ nextWrite' \in [Blocks -> [Units -> 0..PagesInBlock]]
      /\ \A b \in Blocks : b # t => nextWrite'[b] = nextWrite[b]
  BY <1>1, <1>2, <1>3, ProgramLemma
<1>5. FreeListSound'
  BY <1>1, <1>4, FreeListAfterProgram
<1>6. /\ blocks' \in SUBSET Blocks
      /\ freeBlocks' \in Seq(Blocks)
      /\ lastFreeBlock' \in [Opens -> Blocks]
      /\ lastFreeBlockIndex' \in Opens
      /\ lastFreeBlockIOMap' \in SUBSET Units
      /\ bReclaimMore' \in BOOLEAN
  BY <1>1, <1>2, PoolLemma DEF TypeInv, TypeOK
<1> HIDE DEF t
<1>7. table' \in [Lpns -> [Units -> Addrs \cup {NoAddr}]]
  <2>1. [i \in Units |-> IF i \in io THEN <<t, nextWrite[t][i]>>
                                     ELSE table[l][i]]
          \in [Units -> Addrs \cup {NoAddr}]
    BY <1>2 DEF TypeInv, TypeOK, Addrs
  <2> QED
    BY <1>1, <2>1 DEF TypeInv, TypeOK
<1>8. valid' \in [Blocks -> [Pages -> SUBSET Units]]
  BY <1>1 DEF TypeInv, TypeOK
<1>9. flash' \in [Blocks -> [Pages -> [Units -> Data \cup {NoData}]]]
  <2>1. flash \in [Blocks -> [Pages -> [Units -> Data \cup {NoData}]]]
    BY DEF TypeInv, TypeOK
  <2>2. [p \in Pages |-> [i \in Units |->
            IF i \in io /\ p = nextWrite[t][i] THEN d ELSE flash[t][p][i]]]
          \in [Pages -> [Units -> Data \cup {NoData}]]
    BY <1>2, <2>1
  <2> QED
    BY <1>1, <2>1, <2>2
<1>10. UNCHANGED <<eraseCount, victims, gcBlock, gcPage, copies>> /\ pc' = next
  BY <1>1 DEF gcVars
<1>11. TypeOK'
  BY <1>4, <1>6, <1>7, <1>8, <1>9, <1>10 DEF TypeInv, TypeOK
<1> QED
  BY <1>5, <1>10, <1>11 DEF TypeInv, GCLoopInRange

(* A panic changes nothing but the program counter.                        *)
LEMMA PanicType ==
  ASSUME TypeInv, NEW msg, Panic(msg)
  PROVE  TypeInv'
<1>1. /\ pc' = "panic"
      /\ UNCHANGED <<table, valid, lpns, nextWrite, blocks, freeBlocks,
                     eraseCount, lastFreeBlock, lastFreeBlockIndex,
                     lastFreeBlockIOMap, bReclaimMore, victims, gcBlock,
                     gcPage, copies, filled, flash>>
  BY DEF Panic, mapVars, poolVars, openVars, gcVars
<1>2. TypeOK'
  BY <1>1 DEF TypeInv, TypeOK
<1>3. FreeListSound'
  BY <1>1 DEF TypeInv, FreeListSound
<1> QED
  BY <1>1, <1>2, <1>3 DEF TypeInv, GCLoopInRange

(* The victim the loops of doGarbageCollection look at is a block.         *)
LEMMA VictimLemma ==
  ASSUME TypeInv, pc \in {"collect", "erase"}
  PROVE  Victim \in Blocks
<1>1. gcBlock \in 1..Len(victims) /\ victims \in Seq(Blocks)
  BY DEF TypeInv, TypeOK, GCLoopInRange
<1> QED
  BY <1>1 DEF Victim

(* The loops of doGarbageCollection leave a victim list only by its end.   *)
LEMMA NextPageLemma ==
  ASSUME TypeInv, pc = "collect", NextPage, UNCHANGED victims
  PROVE  /\ gcPage' \in Pages
         /\ gcBlock' \in Nat \ {0}
         /\ pc' \in {"collect", "io"}
         /\ GCLoopInRange'
<1>1. /\ gcPage \in Pages /\ gcBlock \in Nat \ {0} /\ Len(victims) \in Nat
      /\ gcBlock <= Len(victims)
  BY DEF TypeInv, TypeOK, GCLoopInRange
<1> QED
  BY <1>1, GeometryAssumption DEF NextPage, Pages, GCLoopInRange

(* The step of CollectPage that moves the valid units of a page.           *)
Moves ==
  LET io == PageInfo(Victim, gcPage)
      owner == lpns[Victim][gcPage]
      t == TargetBlock(io) IN
  /\ pc = "collect"
  /\ Victim \in blocks
  /\ io # {}
  /\ GetBlockPanic(io) = "none"
  /\ \A i \in io : Mapped(owner[i])
  /\ GetLastFreeBlock(io)
  /\ Program(t, io, owner)
  /\ valid' = [b \in Blocks |-> [p \in Pages |->
        (valid[b][p] \ (IF b = Victim /\ p = gcPage THEN io ELSE {}))
          \cup {i \in io : b = t /\ p = nextWrite[t][i]}]]
  /\ table' = [l \in Lpns |-> [i \in Units |->
        IF i \in io /\ owner[i] = l THEN <<t, nextWrite[t][i]>>
                                    ELSE table[l][i]]]
  /\ copies' = copies \cup
        {[from |-> <<Victim, gcPage, i>>, to |-> <<t, nextWrite[t][i], i>>] :
           i \in io}
  /\ NextPage
  /\ UNCHANGED <<eraseCount, victims, panic, filled, flash>>

(* CollectPage panics, skips a page without valid units, or moves it.      *)
LEMMA CollectPageCases ==
  ASSUME CollectPage
  PROVE  \/ \E msg : Panic(msg)
         \/ /\ pc = "collect"
            /\ NextPage
            /\ UNCHANGED <<mapVars, poolVars, openVars, victims, copies, panic,
                           filled, flash>>
         \/ Moves
  BY DEF CollectPage, Moves

(* getPageInfo reports units of a page.                                    *)
LEMMA PageInfoType ==
  ASSUME TypeInv, NEW b \in Blocks, NEW p \in Pages
  PROVE  PageInfo(b, p) \in SUBSET Units
  BY DEF TypeInv, TypeOK, PageInfo

(* Moving a page of a victim keeps the type invariant.                     *)
LEMMA MovesType ==
  ASSUME TypeInv, Moves
  PROVE  TypeInv'
<1> DEFINE io == PageInfo(Victim, gcPage)
           owner == lpns[Victim][gcPage]
           t == TargetBlock(io)
<1>1. /\ pc = "collect" /\ GetBlockPanic(io) = "none"
      /\ GetLastFreeBlock(io) /\ Program(t, io, owner) /\ NextPage
      /\ UNCHANGED <<eraseCount, victims, panic, filled, flash>>
  BY DEF Moves
<1>2. Victim \in Blocks /\ gcPage \in Pages
  BY <1>1, VictimLemma DEF TypeInv, TypeOK
<1>3. io \in SUBSET Units
  BY <1>2, PageInfoType
<1>4. owner \in [Units -> Lpns]
  BY <1>2 DEF TypeInv, TypeOK
<1>5. t \in Blocks /\ \A i \in Units : nextWrite[t][i] \in Pages
  BY <1>1, <1>3, TargetLemma
<1>6. /\ lpns' \in [Blocks -> [Pages -> [Units -> Lpns]]]
      /\ nextWrite' \in [Blocks -> [Units -> 0..PagesInBlock]]
      /\ \A b \in Blocks : b # t => nextWrite'[b] = nextWrite[b]
  BY <1>1, <1>3, <1>4, <1>5, ProgramLemma
<1>7. FreeListSound'
  BY <1>1, <1>3, <1>6, FreeListAfterProgram
<1>8. /\ blocks' \in SUBSET Blocks
      /\ freeBlocks' \in Seq(Blocks)
      /\ lastFreeBlock' \in [Opens -> Blocks]
      /\ lastFreeBlockIndex' \in Opens
      /\ lastFreeBlockIOMap' \in SUBSET Units
      /\ bReclaimMore' \in BOOLEAN
  BY <1>1, <1>3, <1>5, PoolLemma DEF TypeInv, TypeOK
<1>9. /\ valid' = [b \in Blocks |-> [p \in Pages |->
            (valid[b][p] \ (IF b = Victim /\ p = gcPage THEN io ELSE {}))
              \cup {i \in io : b = t /\ p = nextWrite[t][i]}]]
      /\ table' = [l \in Lpns |-> [i \in Units |->
            IF i \in io /\ owner[i] = l THEN <<t, nextWrite[t][i]>>
                                        ELSE table[l][i]]]
      /\ copies' = copies \cup
            {[from |-> <<Victim, gcPage, i>>, to |-> <<t, nextWrite[t][i], i>>] :
               i \in io}
  BY DEF Moves
<1> HIDE DEF io, owner, t
<1>10. table' \in [Lpns -> [Units -> Addrs \cup {NoAddr}]]
  <2>1. \A i \in Units : <<t, nextWrite[t][i]>> \in Addrs
    BY <1>5 DEF Addrs
  <2> QED
    BY <1>9, <2>1 DEF TypeInv, TypeOK
<1>11. valid' \in [Blocks -> [Pages -> SUBSET Units]]
  BY <1>3, <1>9 DEF TypeInv, TypeOK
<1>12. copies' \in SUBSET [from : Slots, to : Slots]
  <2>1. \A i \in io : /\ <<Victim, gcPage, i>> \in Slots
                      /\ <<t, nextWrite[t][i], i>> \in Slots
    BY <1>2, <1>3, <1>5 DEF Slots
  <2>2. copies \in SUBSET [from : Slots, to : Slots]
    BY DEF TypeInv, TypeOK
  <2> QED
    BY <1>9, <2>1, <2>2
<1>13. /\ gcPage' \in Pages
       /\ gcBlock' \in Nat \ {0}
       /\ pc' \in {"collect", "io"}
       /\ GCLoopInRange'
  BY <1>1, NextPageLemma
<1>14. TypeOK'
  BY <1>1, <1>6, <1>8, <1>10, <1>11, <1>12, <1>13 DEF TypeInv, TypeOK
<1> QED
  BY <1>7, <1>13, <1>14 DEF TypeInv

(* eraseInternal finds a place on the free list.                           *)
LEMMA FreeListPositionLemma ==
  ASSUME TypeInv, NEW n \in Nat
  PROVE  FreeListPosition(n) \in 1..(Len(freeBlocks) + 1)
<1> DEFINE before == {k \in 1..Len(freeBlocks) : eraseCount[freeBlocks[k]] <= n}
<1>1. Len(freeBlocks) \in Nat
  BY DEF TypeInv, TypeOK
<1>2. CASE before = {}
  BY <1>1, <1>2 DEF FreeListPosition
<1>3. CASE before # {}
  <2>1. FreeListPosition(n) = (CHOOSE k \in before : \A j \in before : j <= k) + 1
    BY <1>3 DEF FreeListPosition
  <2>2. before \in SUBSET (1..Len(freeBlocks))
    OBVIOUS
  <2> HIDE DEF before
  <2>3. \E k \in before : \A j \in before : j <= k
    BY <1>1, <1>3, <2>2, GreatestElement
  <2>4. (CHOOSE k \in before : \A j \in before : j <= k) \in 1..Len(freeBlocks)
    BY <2>2, <2>3
  <2> QED
    BY <1>1, <2>1, <2>4
<1> QED
  BY <1>2, <1>3

(* The step of EraseBlock that erases its victim.                          *)
Erases ==
  /\ pc = "erase"
  /\ Victim \in blocks
  /\ \A p \in Pages : valid[Victim][p] = {}
  /\ eraseCount' = [eraseCount EXCEPT ![Victim] = @ + 1]
  /\ nextWrite' = [nextWrite EXCEPT ![Victim] = [i \in Units |-> 0]]
  /\ flash' = [flash EXCEPT ![Victim] =
                 [p \in Pages |-> [i \in Units |-> NoData]]]
  /\ freeBlocks' =
       IF Reusable(eraseCount[Victim] + 1)
       THEN InsertAt(freeBlocks, FreeListPosition(eraseCount[Victim] + 1), Victim)
       ELSE freeBlocks
  /\ blocks' = blocks \ {Victim}
  /\ IF gcBlock < Len(victims)
     THEN gcBlock' = gcBlock + 1 /\ UNCHANGED pc
     ELSE gcBlock' = 1 /\ pc' = "idle"
  /\ UNCHANGED <<table, valid, lpns, openVars, victims, gcPage, copies,
                 panic, filled>>

(* EraseBlock panics or erases.                                            *)
LEMMA EraseBlockCases ==
  ASSUME EraseBlock
  PROVE  (\E msg : Panic(msg)) \/ Erases
  BY DEF EraseBlock, Erases

(* The free list after an erase: the victim joins it, erased, or retires.  *)
LEMMA FreeListAfterErase ==
  ASSUME TypeInv, Erases
  PROVE  freeBlocks' \in Seq(Blocks) /\ FreeListSound'
<1> DEFINE n == eraseCount[Victim] + 1
           q == FreeListPosition(n)
<1>1. Victim \in Blocks /\ Victim \in blocks
  BY VictimLemma DEF Erases
<1>2. n \in Nat
  BY <1>1 DEF TypeInv, TypeOK
<1>3. /\ freeBlocks \in Seq(Blocks) /\ Len(freeBlocks) \in Nat
      /\ \A k \in 1..Len(freeBlocks) : freeBlocks[k] \in Blocks
  BY DEF TypeInv, TypeOK
<1>4. /\ \A j, k \in 1..Len(freeBlocks) : j # k => freeBlocks[j] # freeBlocks[k]
      /\ \A k \in 1..Len(freeBlocks) :
           /\ freeBlocks[k] \notin blocks
           /\ \A i \in Units : nextWrite[freeBlocks[k]][i] = 0
  BY DEF TypeInv, FreeListSound
<1>5. nextWrite \in [Blocks -> [Units -> 0..PagesInBlock]]
  BY DEF TypeInv, TypeOK
<1>6. /\ \A b \in Blocks : b # Victim => nextWrite'[b] = nextWrite[b]
      /\ \A i \in Units : nextWrite'[Victim][i] = 0
      /\ blocks' = blocks \ {Victim}
  BY <1>1, <1>5 DEF Erases
<1>7. CASE Reusable(n)
  <2>1. freeBlocks' = InsertAt(freeBlocks, q, Victim)
    BY <1>7 DEF Erases
  <2>2. q \in 1..(Len(freeBlocks) + 1)
    BY <1>2, FreeListPositionLemma
  <2> HIDE DEF q, n
  <2>3. /\ freeBlocks' \in Seq(Blocks)
        /\ Len(freeBlocks') = Len(freeBlocks) + 1
        /\ \A j \in 1..(Len(freeBlocks) + 1) :
             freeBlocks'[j] = IF j < q THEN freeBlocks[j]
                              ELSE IF j = q THEN Victim ELSE freeBlocks[j - 1]
    <3>1. /\ InsertAt(freeBlocks, q, Victim) \in Seq(Blocks)
          /\ Len(InsertAt(freeBlocks, q, Victim)) = Len(freeBlocks) + 1
          /\ \A j \in 1..(Len(freeBlocks) + 1) :
               InsertAt(freeBlocks, q, Victim)[j] =
                 IF j < q THEN freeBlocks[j]
                 ELSE IF j = q THEN Victim ELSE freeBlocks[j - 1]
      BY <1>1, <1>3, <2>2, InsertAtLemma
    <3> QED
      BY <2>1, <3>1
  <2>4. \A j \in 1..Len(freeBlocks') :
          \/ freeBlocks'[j] = Victim
          \/ \E k \in 1..Len(freeBlocks) : freeBlocks'[j] = freeBlocks[k]
    <3> TAKE j \in 1..Len(freeBlocks')
    <3>1. CASE j < q
      BY <1>3, <2>2, <2>3, <3>1
    <3>2. CASE j > q
      <4>1. j - 1 \in 1..Len(freeBlocks) /\ freeBlocks'[j] = freeBlocks[j - 1]
        BY <1>3, <2>2, <2>3, <3>2
      <4> QED
        BY <4>1
    <3>3. CASE j = q
      BY <1>3, <2>2, <2>3, <3>3
    <3> QED
      BY <1>3, <2>2, <2>3, <3>1, <3>2, <3>3
  <2>5. \A k \in 1..Len(freeBlocks) : freeBlocks[k] # Victim
    BY <1>1, <1>4
  <2>6. ASSUME NEW j \in 1..Len(freeBlocks'), NEW k \in 1..Len(freeBlocks'), j < k
        PROVE  freeBlocks'[j] # freeBlocks'[k]
    <3>1. CASE k < q
      BY <1>3, <1>4, <2>2, <2>3, <2>6, <3>1
    <3>2. CASE k = q
      BY <1>3, <2>2, <2>3, <2>5, <2>6, <3>2
    <3>3. CASE k > q /\ j = q
      BY <1>3, <2>2, <2>3, <2>5, <2>6, <3>3
    <3>4. CASE k > q /\ j < q
      <4>1. /\ freeBlocks'[j] = freeBlocks[j]
            /\ freeBlocks'[k] = freeBlocks[k - 1]
            /\ j \in 1..Len(freeBlocks)
            /\ k - 1 \in 1..Len(freeBlocks)
            /\ j # k - 1
        BY <1>3, <2>2, <2>3, <3>4
      <4> QED
        BY <1>4, <4>1
    <3>5. CASE k > q /\ j > q
      <4>1. /\ freeBlocks'[j] = freeBlocks[j - 1]
            /\ freeBlocks'[k] = freeBlocks[k - 1]
            /\ j - 1 \in 1..Len(freeBlocks)
            /\ k - 1 \in 1..Len(freeBlocks)
            /\ j - 1 # k - 1
        BY <1>3, <2>2, <2>3, <2>6, <3>5
      <4> QED
        BY <1>4, <4>1
    <3> QED
      BY <1>3, <2>2, <2>3, <3>1, <3>2, <3>3, <3>4, <3>5
  <2>7. \A j, k \in 1..Len(freeBlocks') : j # k => freeBlocks'[j] # freeBlocks'[k]
    <3>1. Len(freeBlocks') \in Nat
      BY <1>3, <2>3
    <3> TAKE j, k \in 1..Len(freeBlocks')
    <3>2. CASE j < k
      BY <3>2, <2>6
    <3>3. CASE k < j
      BY <3>3, <2>6
    <3> QED
      BY <3>1, <3>2, <3>3
  <2>8. ASSUME NEW j \in 1..Len(freeBlocks')
        PROVE  /\ freeBlocks'[j] \notin blocks'
               /\ \A i \in Units : nextWrite'[freeBlocks'[j]][i] = 0
    BY <1>3, <1>4, <1>6, <2>4, <2>5
  <2> QED
    BY <2>3, <2>7, <2>8 DEF FreeListSound
<1>8. CASE ~Reusable(n)
  <2>1. freeBlocks' = freeBlocks
    BY <1>8 DEF Erases
  <2> HIDE DEF n
  <2>2. ASSUME NEW k \in 1..Len(freeBlocks)
        PROVE  /\ freeBlocks[k] \notin blocks'
               /\ \A i \in Units : nextWrite'[freeBlocks[k]][i] = 0
    BY <1>1, <1>3, <1>4, <1>6
  <2> QED
    BY <1>3, <1>4, <2>1, <2>2 DEF FreeListSound
<1> QED
  BY <1>7, <1>8

(* eraseInternal keeps the type invariant.                                 *)
LEMMA ErasesType ==
  ASSUME TypeInv, Erases
  PROVE  TypeInv'
<1>1. Victim \in Blocks /\ freeBlocks' \in Seq(Blocks) /\ FreeListSound'
  BY VictimLemma, FreeListAfterErase DEF Erases
<1>2. /\ eraseCount' = [eraseCount EXCEPT ![Victim] = @ + 1]
      /\ nextWrite' = [nextWrite EXCEPT ![Victim] = [i \in Units |-> 0]]
      /\ flash' = [flash EXCEPT ![Victim] =
                     [p \in Pages |-> [i \in Units |-> NoData]]]
      /\ blocks' = blocks \ {Victim}
      /\ UNCHANGED <<table, valid, lpns, lastFreeBlock, lastFreeBlockIndex,
                     lastFreeBlockIOMap, bReclaimMore, victims, gcPage,
                     copies, filled>>
  BY DEF Erases, openVars
<1>3. /\ gcBlock' \in Nat \ {0}
      /\ pc' \in {"erase", "idle"}
      /\ GCLoopInRange'
  <2>1. gcBlock \in Nat \ {0} /\ Len(victims) \in Nat /\ pc = "erase"
    BY DEF TypeInv, TypeOK, Erases
  <2> QED
    BY <1>2, <2>1 DEF Erases, GCLoopInRange
<1>4. eraseCount' \in [Blocks -> Nat]
  BY <1>1, <1>2 DEF TypeInv, TypeOK
<1>5. nextWrite' \in [Blocks -> [Units -> 0..PagesInBlock]]
  BY <1>1, <1>2, GeometryAssumption DEF TypeInv, TypeOK
<1>6. flash' \in [Blocks -> [Pages -> [Units -> Data \cup {NoData}]]]
  BY <1>1, <1>2 DEF TypeInv, TypeOK
<1>7. TypeOK'
  BY <1>1, <1>2, <1>3, <1>4, <1>5, <1>6 DEF TypeInv, TypeOK
<1> QED
  BY <1>1, <1>3, <1>7 DEF TypeInv

(* Functions on 1..n are sequences, empty when n is not positive.          *)
LEMMA FunctionIsSeq ==
  ASSUME NEW S, NEW n \in Int, NEW s \in [1..n -> S]
  PROVE  s \in Seq(S) /\ (n \in Nat => Len(s) = n)
<1>1. CASE n \in Nat
  BY <1>1
<1>2. CASE n \notin Nat
  <2>1. 1..n = 1..0
    BY <1>2
  <2>2. s \in [1..0 -> S]
    BY <2>1
  <2> QED
    BY <1>2, <2>2
<1> QED
  BY <1>1, <1>2

(* There are finitely many blocks.                                         *)
LEMMA BlocksFinite ==
  ASSUME NEW B \in SUBSET Blocks
  PROVE  IsFiniteSet(B) /\ Cardinality(B) \in Nat /\ (B # {} => Cardinality(B) # 0)
<1>1. IsFiniteSet(Blocks)
  BY FS_Interval, GeometryAssumption DEF Blocks
<1> QED
  BY <1>1, FS_Subset, FS_CardinalityType, FS_EmptySet

(* selectVictimBlock returns a list of blocks and keeps the type           *)
(* invariant.                                                              *)
LEMMA SelectVictimType ==
  ASSUME TypeInv, SelectVictim
  PROVE  TypeInv'
<1>1. /\ bReclaimMore' = FALSE /\ gcBlock' = 1 /\ gcPage' = 0 /\ copies' = {}
      /\ UNCHANGED <<table, valid, lpns, nextWrite, blocks, freeBlocks,
                     eraseCount, lastFreeBlock, lastFreeBlockIndex,
                     lastFreeBlockIOMap, filled, flash>>
  BY DEF SelectVictim, mapVars, poolVars
<1>2. FullBlocks \in SUBSET Blocks /\ Cardinality(FullBlocks) \in Nat
  BY BlocksFinite DEF FullBlocks, TypeInv, TypeOK
<1>3. BlocksToReclaim \in Int
  BY PolicyAssumption, GeometryAssumption
     DEF BlocksToReclaim, nFreeBlocks, TypeInv, TypeOK
<1>4. SampleSize \in Int
  BY <1>2, <1>3, PolicyAssumption DEF SampleSize
<1>5. \A s \in VictimLists : s \in Seq(Blocks)
  <2> DEFINE n == IF BlocksToReclaim < SampleSize THEN BlocksToReclaim
                  ELSE SampleSize
  <2>1. n \in Int
    BY <1>3, <1>4
  <2>2. ASSUME NEW s \in VictimLists
        PROVE  s \in [1..n -> Blocks]
    BY <1>2 DEF VictimLists
  <2> HIDE DEF n
  <2> QED
    BY <2>1, <2>2, FunctionIsSeq
<1>6. /\ victims' \in Seq(Blocks)
      /\ pc' \in {"hang", "panic", "idle", "collect"}
      /\ pc' = "collect" => victims' # <<>>
  <2>1. CASE SampleSize > Cardinality(FullBlocks)
    <3>1. pc' \in {"hang", "panic"} /\ victims' = <<>>
      BY <2>1 DEF SelectVictim
    <3> QED
      BY <3>1
  <2>2. CASE ~(SampleSize > Cardinality(FullBlocks))
    <3>1. /\ victims' \in VictimLists
          /\ pc' = IF victims' = <<>> THEN "idle" ELSE "collect"
      BY <2>2 DEF SelectVictim
    <3> QED
      BY <3>1, <1>5
  <2> QED
    BY <2>1, <2>2
<1>7. GCLoopInRange'
  BY <1>1, <1>6 DEF GCLoopInRange
<1>8. TypeOK'
  <2>1. gcPage' \in Pages /\ gcBlock' \in Nat \ {0}
    BY <1>1, GeometryAssumption DEF Pages
  <2> QED
    BY <1>1, <1>6, <2>1 DEF TypeInv, TypeOK
<1>9. FreeListSound'
  BY <1>1 DEF TypeInv, FreeListSound
<1> QED
  BY <1>7, <1>8, <1>9 DEF TypeInv

(* Trimming pages keeps the types of the map and the valid bits.           *)
LEMMA UnmapType ==
  ASSUME TypeInv, NEW ls \in SUBSET Lpns, Unmap(ls)
  PROVE  /\ valid' \in [Blocks -> [Pages -> SUBSET Units]]
         /\ table' \in [Lpns -> [Units -> Addrs \cup {NoAddr}]]
  BY DEF Unmap, TypeInv, TypeOK

(* trim keeps the type invariant.                                          *)
LEMMA TrimType ==
  ASSUME TypeInv, NEW l \in Lpns, Trim(l)
  PROVE  TypeInv'
<1>1. CASE TrimPanics({l})
  BY <1>1, PanicType DEF Trim
<1>2. CASE ~TrimPanics({l})
  <2>1. /\ Unmap({l})
        /\ UNCHANGED <<lpns, nextWrite, blocks, freeBlocks, eraseCount,
                       lastFreeBlock, lastFreeBlockIndex, lastFreeBlockIOMap,
                       bReclaimMore, victims, gcBlock, gcPage, copies, pc,
                       filled, flash>>
    BY <1>2 DEF Trim, poolVars, openVars, gcVars
  <2>2. TypeOK'
    BY <2>1, UnmapType DEF TypeInv, TypeOK
  <2> QED
    BY <2>1, <2>2 DEF TypeInv, FreeListSound, GCLoopInRange
<1> QED
  BY <1>1, <1>2

(* format keeps the type invariant.                                        *)
LEMMA FormatType ==
  ASSUME TypeInv, NEW slpn \in Lpns, NEW nlp \in Nat, Format(slpn, nlp)
  PROVE  TypeInv'
<1> DEFINE ls == {l \in Lpns : slpn <= l /\ l < slpn + nlp}
           B  == BlocksOf(ls)
<1>1. CASE TrimPanics(ls)
  BY <1>1, PanicType DEF Format
<1>2. CASE ~TrimPanics(ls)
  <2>1. /\ Unmap(ls)
        /\ victims' \in AscendingLists(B)
        /\ gcBlock' = 1 /\ gcPage' = 0 /\ copies' = {}
        /\ pc' = IF B = {} THEN "idle" ELSE "collect"
        /\ UNCHANGED <<lpns, nextWrite, blocks, freeBlocks, eraseCount,
                       lastFreeBlock, lastFreeBlockIndex, lastFreeBlockIOMap,
                       bReclaimMore, filled, flash>>
    BY <1>2 DEF Format, poolVars, openVars
  <2>2. ls \in SUBSET Lpns /\ B \in SUBSET Blocks
    BY DEF BlocksOf
  <2> HIDE DEF ls, B
  <2>3. Cardinality(B) \in Nat /\ (B # {} => Cardinality(B) # 0)
    BY <2>2, BlocksFinite
  <2>4. victims' \in [1..Cardinality(B) -> Blocks]
    BY <2>1, <2>2 DEF AscendingLists
  <2>5. victims' \in Seq(Blocks) /\ Len(victims') = Cardinality(B)
    BY <2>3, <2>4, FunctionIsSeq
  <2>6. GCLoopInRange'
    BY <2>1, <2>3, <2>5 DEF GCLoopInRange
  <2>7. TypeOK'
    BY <2>1, <2>2, <2>5, UnmapType, GeometryAssumption DEF TypeInv, TypeOK, Pages
  <2>8. FreeListSound'
    BY <2>1 DEF TypeInv, FreeListSound
  <2> QED
    BY <2>6, <2>7, <2>8 DEF TypeInv
<1> QED
  BY <1>1, <1>2

(* The queued flash I/O keeps the type invariant.                          *)
LEMMA CopyPagesType ==
  ASSUME TypeInv, CopyPages
  PROVE  TypeInv'
<1>1. /\ pc = "io" /\ pc' = "erase" /\ copies' = {}
      /\ flash' = [b \in Blocks |-> [p \in Pages |-> [i \in Units |->
                     Content(b, p, i)]]]
      /\ UNCHANGED <<table, valid, lpns, nextWrite, blocks, freeBlocks,
                     eraseCount, lastFreeBlock, lastFreeBlockIndex,
                     lastFreeBlockIOMap, bReclaimMore, victims, gcBlock,
                     gcPage, filled>>
  BY DEF CopyPages, mapVars, poolVars, openVars
<1>2. ASSUME NEW b \in Blocks, NEW p \in Pages, NEW i \in Units
      PROVE  Content(b, p, i) \in Data \cup {NoData}
  <2>1. flash \in [Blocks -> [Pages -> [Units -> Data \cup {NoData}]]]
    BY DEF TypeInv, TypeOK
  <2>2. CASE \E c \in copies : c.to = <<b, p, i>>
    <3> DEFINE c == CHOOSE c \in copies : c.to = <<b, p, i>>
    <3>1. c \in copies
      BY <2>2
    <3>2. Content(b, p, i) = flash[c.from[1]][c.from[2]][c.from[3]]
      BY <2>2 DEF Content
    <3> HIDE DEF c
    <3>3. c.from \in Slots
      BY <3>1 DEF TypeInv, TypeOK
    <3>4. c.from[1] \in Blocks /\ c.from[2] \in Pages /\ c.from[3] \in Units
      BY <3>3 DEF Slots
    <3> QED
      BY <2>1, <3>2, <3>4
  <2>3. CASE ~\E c \in copies : c.to = <<b, p, i>>
    BY <2>1, <2>3 DEF Content
  <2> QED
    BY <2>2, <2>3
<1>3. flash' \in [Blocks -> [Pages -> [Units -> Data \cup {NoData}]]]
  BY <1>1, <1>2
<1>4. TypeOK'
  BY <1>1, <1>3 DEF TypeInv, TypeOK
<1>5. FreeListSound'
  BY <1>1 DEF TypeInv, FreeListSound
<1>6. GCLoopInRange'
  BY <1>1 DEF TypeInv, GCLoopInRange
<1> QED
  BY <1>4, <1>5, <1>6 DEF TypeInv

(* The constructor establishes the type invariant.                         *)
LEMMA TypeInvInit == Init => TypeInv
<1> SUFFICES ASSUME Init PROVE TypeInv
  OBVIOUS
<1>1. Opens \subseteq Blocks /\ 0 \in Opens /\ 0 \in Pages /\ 0 \in Lpns
  BY GeometryAssumption DEF Opens, Blocks, Pages, Lpns
<1>2. /\ blocks = Opens
      /\ freeBlocks = [k \in 1..(TotalPhysicalBlocks - PageCountToMaxPerf) |->
                         PageCountToMaxPerf + k - 1]
      /\ nextWrite = [b \in Blocks |-> [i \in Units |-> 0]]
      /\ pc = "fill"
  BY DEF Init
<1>3. /\ freeBlocks \in Seq(Blocks)
      /\ Len(freeBlocks) = TotalPhysicalBlocks - PageCountToMaxPerf
      /\ \A k \in 1..Len(freeBlocks) :
           /\ freeBlocks[k] = PageCountToMaxPerf + k - 1
           /\ freeBlocks[k] \in Blocks
  <2>1. \A k \in 1..(TotalPhysicalBlocks - PageCountToMaxPerf) :
          PageCountToMaxPerf + k - 1 \in Blocks
    BY GeometryAssumption DEF Blocks
  <2>2. freeBlocks \in [1..(TotalPhysicalBlocks - PageCountToMaxPerf) -> Blocks]
    BY <1>2, <2>1
  <2>3. TotalPhysicalBlocks - PageCountToMaxPerf \in Nat
    BY GeometryAssumption
  <2>4. /\ freeBlocks \in Seq(Blocks)
        /\ Len(freeBlocks) = TotalPhysicalBlocks - PageCountToMaxPerf
    BY <2>2, <2>3, FunctionIsSeq
  <2> QED
    BY <1>2, <2>1, <2>4
<1>4. TypeOK
  <2>1. table \in [Lpns -> [Units -> Addrs \cup {NoAddr}]]
    BY DEF Init
  <2>2. valid \in [Blocks -> [Pages -> SUBSET Units]]
    BY DEF Init
  <2>3. lpns \in [Blocks -> [Pages -> [Units -> Lpns]]]
    BY <1>1 DEF Init
  <2>4. nextWrite \in [Blocks -> [Units -> 0..PagesInBlock]]
    BY <1>2, GeometryAssumption
  <2>5. flash \in [Blocks -> [Pages -> [Units -> Data \cup {NoData}]]]
    BY DEF Init
  <2>6. eraseCount \in [Blocks -> Nat] /\ lastFreeBlock \in [Opens -> Blocks]
    BY <1>1 DEF Init
  <2>7. /\ lastFreeBlockIndex = 0 /\ lastFreeBlockIOMap = {}
        /\ bReclaimMore = FALSE /\ filled = 0 /\ victims = <<>>
        /\ gcBlock = 1 /\ gcPage = 0 /\ copies = {}
    BY DEF Init
  <2>8. /\ blocks \in SUBSET Blocks /\ freeBlocks \in Seq(Blocks)
        /\ pc \in {"fill", "idle", "select", "collect", "io", "erase", "panic",
                    "hang"}
    BY <1>1, <1>2, <1>3
  <2>9. /\ lastFreeBlockIndex \in Opens /\ lastFreeBlockIOMap \in SUBSET Units
        /\ bReclaimMore \in BOOLEAN /\ filled \in Nat
        /\ victims \in Seq(Blocks) /\ gcBlock \in Nat \ {0} /\ gcPage \in Pages
        /\ copies \in SUBSET [from : Slots, to : Slots]
    <3>1. victims \in Seq(Blocks)
      BY <2>7
    <3>2. copies \in SUBSET [from : Slots, to : Slots]
      BY <2>7
    <3>3. bReclaimMore \in BOOLEAN /\ lastFreeBlockIOMap \in SUBSET Units
      BY <2>7
    <3>4. /\ lastFreeBlockIndex \in Opens /\ gcPage \in Pages
          /\ filled \in Nat /\ gcBlock \in Nat \ {0}
      BY <1>1, <2>7
    <3> QED
      BY <3>1, <3>2, <3>3, <3>4
  <2> QED
    BY <2>1, <2>2, <2>3, <2>4, <2>5, <2>6, <2>8, <2>9 DEF TypeOK
<1>5. FreeListSound
  <2>1. \A k \in 1..Len(freeBlocks) : freeBlocks[k] \notin blocks
    BY <1>2, <1>3, GeometryAssumption DEF Opens
  <2>2. \A j, k \in 1..Len(freeBlocks) : j # k => freeBlocks[j] # freeBlocks[k]
    <3>1. Len(freeBlocks) \in Nat /\ PageCountToMaxPerf \in Nat
      BY <1>3, GeometryAssumption
    <3> TAKE j, k \in 1..Len(freeBlocks)
    <3> HAVE j # k
    <3>2. PageCountToMaxPerf + j - 1 # PageCountToMaxPerf + k - 1
      BY <3>1
    <3> QED
      BY <1>3, <3>2
  <2>3. \A k \in 1..Len(freeBlocks), i \in Units : nextWrite[freeBlocks[k]][i] = 0
    BY <1>2, <1>3
  <2> QED
    BY <2>1, <2>2, <2>3 DEF FreeListSound
<1>6. GCLoopInRange
  BY <1>2 DEF GCLoopInRange
<1> QED
  BY <1>4, <1>5, <1>6 DEF TypeInv

(* Every step keeps the type invariant: one case per action.               *)
LEMMA TypeInvNext ==
  ASSUME TypeInv, [Next]_vars
  PROVE  TypeInv'
<1>1. ASSUME NEW l \in Lpns, NEW d \in Data, Fill(l, d)
      PROVE  TypeInv'
  <2>1. CASE \E msg : Panic(msg)
    BY <2>1, PanicType
  <2>2. CASE ~\E msg : Panic(msg)
    <3>1. /\ WriteInternal(l, Units, d, "fill")
          /\ GetBlockPanic(Units) = "none"
          /\ filled' = filled + 1
      BY <1>1, <2>2 DEF Fill
    <3>2. filled' \in Nat
      BY <3>1 DEF TypeInv, TypeOK
    <3> QED
      BY <3>1, <3>2, WriteInternalType
  <2> QED
    BY <2>1, <2>2
<1>2. CASE FillDone
  <2>1. /\ pc' = "idle"
        /\ UNCHANGED <<table, valid, lpns, nextWrite, blocks, freeBlocks,
                       eraseCount, lastFreeBlock, lastFreeBlockIndex,
                       lastFreeBlockIOMap, bReclaimMore, victims, gcBlock,
                       gcPage, copies, filled, flash>>
    BY <1>2 DEF FillDone, mapVars, poolVars, openVars, gcVars
  <2>2. TypeOK'
    BY <2>1 DEF TypeInv, TypeOK
  <2> QED
    BY <2>1, <2>2 DEF TypeInv, FreeListSound, GCLoopInRange
<1>3. ASSUME NEW l \in Lpns, NEW io \in IoFlags, NEW d \in Data, Write(l, io, d)
      PROVE  TypeInv'
  <2>1. io \in SUBSET Units
    BY DEF IoFlags
  <2>2. CASE GetBlockPanic(io) # "none"
    BY <1>3, <2>2, PanicType DEF Write, WriteInternal
  <2>3. CASE GetBlockPanic(io) = "none"
    <3>1. PICK next \in {"idle", "select"} : WriteInternal(l, io, d, next)
      BY <1>3 DEF Write
    <3>2. filled' \in Nat
      BY <1>3 DEF Write, TypeInv, TypeOK
    <3> QED
      BY <2>1, <2>3, <3>1, <3>2, WriteInternalType
  <2> QED
    BY <2>2, <2>3
<1>4. CASE UNCHANGED vars
  BY <1>4 DEF TypeInv, TypeOK, FreeListSound, GCLoopInRange, vars, mapVars,
              poolVars, openVars, gcVars
<1>5. ASSUME NEW l \in Lpns, NEW io \in IoFlags, Read(l, io)
      PROVE  TypeInv'
  BY <1>4, <1>5, PanicType DEF Read
<1>6. ASSUME NEW s \in Lpns, NEW n \in 1..TotalLogicalPages, Format(s, n)
      PROVE  TypeInv'
  <2>1. n \in Nat
    BY GeometryAssumption
  <2> QED
    BY <1>6, <2>1, FormatType
<1>7. CASE CollectPage
  <2>1. CASE /\ pc = "collect"
             /\ NextPage
             /\ UNCHANGED <<mapVars, poolVars, openVars, victims, copies,
                            panic, filled, flash>>
    <3>1. UNCHANGED <<table, valid, lpns, nextWrite, blocks, freeBlocks,
                      eraseCount, lastFreeBlock, lastFreeBlockIndex,
                      lastFreeBlockIOMap, bReclaimMore, victims, copies,
                      filled, flash>>
      BY <2>1 DEF mapVars, poolVars, openVars
    <3>2. /\ gcPage' \in Pages
          /\ gcBlock' \in Nat \ {0}
          /\ pc' \in {"collect", "io"}
          /\ GCLoopInRange'
      BY <2>1, <3>1, NextPageLemma
    <3>3. TypeOK'
      BY <3>1, <3>2 DEF TypeInv, TypeOK
    <3>4. FreeListSound'
      BY <3>1 DEF TypeInv, FreeListSound
    <3> QED
      BY <3>2, <3>3, <3>4 DEF TypeInv
  <2> QED
    BY <1>7, <2>1, CollectPageCases, PanicType, MovesType
<1>8. CASE EraseBlock
  BY <1>8, EraseBlockCases, PanicType, ErasesType
<1> QED
  BY <1>1, <1>2, <1>3, <1>4, <1>5, <1>6, <1>7, <1>8, TrimType,
     SelectVictimType, CopyPagesType DEF Next, Stopped

(* Type correctness, a sound free list and loops that stay inside the      *)
(* victim list, whatever the geometry, the policies and the commands.      *)
THEOREM TypeCorrect == Spec => []TypeInv
  BY TypeInvInit, TypeInvNext, PTL DEF Spec

(* The free list never holds a block that is in use, or one twice, and     *)
(* getFreeBlock hands out erased blocks only.                              *)
THEOREM FreeListAlwaysSound == Spec => [](TypeOK /\ FreeListSound)
<1>1. TypeInv => TypeOK /\ FreeListSound
  BY DEF TypeInv
<1> QED
  BY <1>1, TypeCorrect, PTL

-----------------------------------------------------------------------------
(* The mapping table and the valid bits of the blocks agree.  A collection *)
(* trusts getPageInfo, which tells valid units apart only when a page has  *)
(* more than one I/O unit: hence the assumption of the theorems.           *)

MapInv == TypeInv /\ ValidIsWritten /\ MappedIsValid /\ ValidIsMapped

(* A write and a page move are the same change of the map: unit i of the   *)
(* logical page owner[i] leaves the place it had, if it had one, for the   *)
(* next place of block t.                                                  *)
Relocates(t, io, owner) ==
  /\ \A i \in Units : nextWrite[t][i] \in Pages
  /\ Program(t, io, owner)
  /\ blocks' = blocks \cup {t}
  /\ \A b \in Blocks, p \in Pages, i \in Units :
       i \in valid'[b][p] <=>
         \/ i \in valid[b][p] /\ ~(i \in io /\ table[owner[i]][i] = <<b, p>>)
         \/ i \in io /\ b = t /\ p = nextWrite[t][i]
  /\ \A l \in Lpns, i \in Units :
       table'[l][i] = IF i \in io /\ owner[i] = l THEN <<t, nextWrite[t][i]>>
                      ELSE table[l][i]

(* The heart of the map invariant: programming units into fresh slots of   *)
(* a block and redirecting exactly those entries keeps map and valid bits  *)
(* in step.                                                                *)
LEMMA Relocation ==
  ASSUME MapInv,
         NEW t \in Blocks, NEW io \in SUBSET Units,
         NEW owner \in [Units -> Lpns],
         Relocates(t, io, owner)
  PROVE  ValidIsWritten' /\ MappedIsValid' /\ ValidIsMapped'
<1> USE DEF Relocates
<1>1. /\ lpns \in [Blocks -> [Pages -> [Units -> Lpns]]]
      /\ nextWrite \in [Blocks -> [Units -> 0..PagesInBlock]]
      /\ table \in [Lpns -> [Units -> Addrs \cup {NoAddr}]]
  BY DEF MapInv, TypeInv, TypeOK
<1>2. ASSUME NEW b \in Blocks, NEW p \in Pages, NEW i \in Units
      PROVE  lpns'[b][p][i] = IF b = t /\ i \in io /\ p = nextWrite[t][i]
                              THEN owner[i] ELSE lpns[b][p][i]
  BY <1>1 DEF Program
<1>3. ASSUME NEW b \in Blocks, NEW i \in Units
      PROVE  nextWrite'[b][i] = IF b = t /\ i \in io THEN nextWrite[t][i] + 1
                                ELSE nextWrite[b][i]
  BY <1>1 DEF Program
<1>4. \A i \in Units : i \notin valid[t][nextWrite[t][i]]
  <2>1. \A i \in Units : nextWrite[t][i] \in Nat
    BY DEF Pages
  <2> QED
    BY <2>1 DEF MapInv, ValidIsWritten
<1>5. ValidIsWritten'
  <2> SUFFICES ASSUME NEW b \in Blocks, NEW p \in Pages, NEW i \in Units,
                      i \in valid'[b][p]
               PROVE  p < nextWrite'[b][i]
    BY DEF ValidIsWritten
  <2>1. p \in Nat /\ nextWrite[b][i] \in Nat /\ nextWrite[t][i] \in Nat
    BY <1>1, GeometryAssumption DEF Pages
  <2>2. CASE i \in valid[b][p]
    <3>1. p < nextWrite[b][i]
      BY <2>2 DEF MapInv, ValidIsWritten
    <3> QED
      BY <1>3, <2>1, <3>1
  <2>3. CASE i \in io /\ b = t /\ p = nextWrite[t][i]
    BY <1>3, <2>1, <2>3
  <2> QED
    BY <2>2, <2>3
<1>6. MappedIsValid'
  <2> SUFFICES ASSUME NEW l \in Lpns, NEW i \in Units,
                      NEW b \in Blocks, NEW p \in Pages,
                      table'[l][i] = <<b, p>>
               PROVE  b \in blocks' /\ i \in valid'[b][p] /\ lpns'[b][p][i] = l
    BY DEF MappedIsValid
  <2>1. CASE i \in io /\ owner[i] = l
    <3>1. <<b, p>> = <<t, nextWrite[t][i]>>
      BY <2>1
    <3>2. b = t /\ p = nextWrite[t][i]
      BY <3>1
    <3> QED
      BY <1>2, <2>1, <3>2
  <2>2. CASE ~(i \in io /\ owner[i] = l)
    <3>1. table[l][i] = <<b, p>>
      BY <2>2
    <3>2. b \in blocks /\ i \in valid[b][p] /\ lpns[b][p][i] = l
      BY <3>1 DEF MapInv, MappedIsValid
    <3>3. ~(i \in io /\ table[owner[i]][i] = <<b, p>>)
      <4> SUFFICES ASSUME i \in io, table[owner[i]][i] = <<b, p>>
                   PROVE  FALSE
        OBVIOUS
      <4>1. owner[i] \in Lpns
        OBVIOUS
      <4>2. lpns[b][p][i] = owner[i]
        BY <4>1 DEF MapInv, MappedIsValid
      <4> QED
        BY <2>2, <3>2, <4>2
    <3>4. i \in valid'[b][p]
      BY <3>2, <3>3
    <3>5. lpns'[b][p][i] = l
      BY <1>2, <1>4, <3>2
    <3> QED
      BY <3>2, <3>4, <3>5
  <2> QED
    BY <2>1, <2>2
<1>7. ValidIsMapped'
  <2> SUFFICES ASSUME NEW b \in Blocks, NEW p \in Pages, NEW i \in Units,
                      i \in valid'[b][p]
               PROVE  table'[lpns'[b][p][i]][i] = <<b, p>>
    BY DEF ValidIsMapped
  <2>1. CASE i \in io /\ b = t /\ p = nextWrite[t][i]
    BY <1>2, <2>1
  <2>2. CASE ~(i \in io /\ b = t /\ p = nextWrite[t][i])
    <3>1. /\ i \in valid[b][p]
          /\ ~(i \in io /\ table[owner[i]][i] = <<b, p>>)
      BY <2>2
    <3>2. lpns'[b][p][i] = lpns[b][p][i] /\ lpns[b][p][i] \in Lpns
      BY <1>1, <1>2, <2>2
    <3>3. table[lpns[b][p][i]][i] = <<b, p>>
      BY <3>1 DEF MapInv, ValidIsMapped
    <3>4. ~(i \in io /\ owner[i] = lpns[b][p][i])
      BY <3>1, <3>3
    <3>5. table'[lpns[b][p][i]][i] = table[lpns[b][p][i]][i]
      BY <3>2, <3>4
    <3> QED
      BY <3>2, <3>3, <3>5
  <2> QED
    BY <2>1, <2>2
<1> QED
  BY <1>5, <1>6, <1>7

(* writeInternal keeps the map invariant.                                  *)
LEMMA WriteInternalMap ==
  ASSUME MapInv, NEW l \in Lpns, NEW io \in SUBSET Units, NEW d \in Data,
         NEW next \in {"fill", "idle", "select"},
         GetBlockPanic(io) = "none",
         WriteInternal(l, io, d, next), filled' \in Nat
  PROVE  MapInv'
<1> DEFINE t == TargetBlock(io)
           owner == [i \in Units |-> l]
<1>1. TypeInv'
  BY WriteInternalType DEF MapInv
<1>2. /\ t \in Blocks /\ (\A i \in Units : nextWrite[t][i] \in Pages)
      /\ blocks' = blocks \cup {t}
  BY TargetLemma, PoolLemma DEF MapInv, WriteInternal
<1>3. Program(t, io, owner)
  BY DEF WriteInternal
<1>4. \A b \in Blocks, p \in Pages, i \in Units :
        i \in valid'[b][p] <=>
          \/ i \in valid[b][p] /\ ~(i \in io /\ table[owner[i]][i] = <<b, p>>)
          \/ i \in io /\ b = t /\ p = nextWrite[t][i]
  BY DEF WriteInternal, Stale
<1>5. table \in [Lpns -> [Units -> Addrs \cup {NoAddr}]]
  BY DEF TypeInv, TypeOK, MapInv
<1>6. \A m \in Lpns, i \in Units :
        table'[m][i] = IF i \in io /\ owner[i] = m THEN <<t, nextWrite[t][i]>>
                       ELSE table[m][i]
  BY <1>5 DEF WriteInternal
<1>7. owner \in [Units -> Lpns]
  OBVIOUS
<1> HIDE DEF t, owner
<1>8. Relocates(t, io, owner)
  BY <1>2, <1>3, <1>4, <1>6 DEF Relocates
<1>9. ValidIsWritten' /\ MappedIsValid' /\ ValidIsMapped'
  BY <1>2, <1>7, <1>8, Relocation
<1> QED
  BY <1>1, <1>9 DEF MapInv

(* Moving a page of a victim keeps the map invariant.                      *)
LEMMA MovesMap ==
  ASSUME MapInv, Moves, IoUnitInPage > 1
  PROVE  MapInv'
<1> DEFINE io == PageInfo(Victim, gcPage)
           owner == lpns[Victim][gcPage]
           t == TargetBlock(io)
<1>1. TypeInv'
  BY MovesType DEF MapInv
<1>2. pc = "collect" /\ Victim \in Blocks /\ gcPage \in Pages
  BY VictimLemma DEF MapInv, TypeInv, TypeOK, Moves
<1>3. io \in SUBSET Units /\ owner \in [Units -> Lpns]
  BY <1>2, PageInfoType DEF MapInv, TypeInv, TypeOK
<1>4. /\ t \in Blocks /\ (\A i \in Units : nextWrite[t][i] \in Pages)
      /\ blocks' = blocks \cup {t}
  BY <1>3, TargetLemma, PoolLemma DEF MapInv, Moves
<1>5. Program(t, io, owner)
  BY DEF Moves
<1>6. /\ valid' = [b \in Blocks |-> [p \in Pages |->
            (valid[b][p] \ (IF b = Victim /\ p = gcPage THEN io ELSE {}))
              \cup {i \in io : b = t /\ p = nextWrite[t][i]}]]
      /\ table' = [l \in Lpns |-> [i \in Units |->
            IF i \in io /\ owner[i] = l THEN <<t, nextWrite[t][i]>>
                                        ELSE table[l][i]]]
  BY DEF Moves
<1>7. io = valid[Victim][gcPage]
  BY GeometryAssumption DEF PageInfo
<1>8. \A i \in io : table[owner[i]][i] = <<Victim, gcPage>>
  BY <1>2, <1>3, <1>7 DEF MapInv, ValidIsMapped
<1> HIDE DEF io, owner, t
<1>10. \A b \in Blocks, p \in Pages, i \in Units :
         i \in valid'[b][p] <=>
           \/ i \in valid[b][p] /\ ~(i \in io /\ table[owner[i]][i] = <<b, p>>)
           \/ i \in io /\ b = t /\ p = nextWrite[t][i]
  BY <1>6, <1>8
<1>11. \A l \in Lpns, i \in Units :
         table'[l][i] = IF i \in io /\ owner[i] = l THEN <<t, nextWrite[t][i]>>
                        ELSE table[l][i]
  BY <1>6
<1>12. Relocates(t, io, owner)
  BY <1>4, <1>5, <1>10, <1>11 DEF Relocates
<1>13. ValidIsWritten' /\ MappedIsValid' /\ ValidIsMapped'
  BY <1>3, <1>4, <1>12, Relocation
<1> QED
  BY <1>1, <1>13 DEF MapInv

(* Steps that touch neither the map, nor the pool.                         *)
LEMMA MapUnchanged ==
  ASSUME MapInv, TypeInv', UNCHANGED <<table, valid, lpns, nextWrite, blocks>>
  PROVE  MapInv'
  BY DEF MapInv, ValidIsWritten, MappedIsValid, ValidIsMapped

(* A panic keeps the map invariant.                                        *)
LEMMA PanicMap ==
  ASSUME MapInv, NEW msg, Panic(msg)
  PROVE  MapInv'
<1>1. TypeInv'
  BY PanicType DEF MapInv
<1>2. UNCHANGED <<table, valid, lpns, nextWrite, blocks>>
  BY DEF Panic, mapVars, poolVars
<1> QED
  BY <1>1, <1>2, MapUnchanged

(* A trimmed or formatted page takes its valid bits with it, and no other  *)
(* page's.                                                                 *)
LEMMA UnmapMap ==
  ASSUME MapInv, TypeInv', NEW ls \in SUBSET Lpns, Unmap(ls),
         UNCHANGED <<lpns, nextWrite, blocks>>
  PROVE  MapInv'
<1>1. \A b \in Blocks, p \in Pages, i \in Units :
        i \in valid'[b][p] <=>
          i \in valid[b][p] /\ ~\E l \in ls : table[l][i] = <<b, p>>
  BY DEF Unmap
<1>2. \A l \in Lpns, i \in Units :
        table'[l][i] = IF l \in ls THEN NoAddr ELSE table[l][i]
  BY DEF Unmap
<1>3. lpns \in [Blocks -> [Pages -> [Units -> Lpns]]]
  BY DEF MapInv, TypeInv, TypeOK
<1>4. ValidIsWritten'
  BY <1>1 DEF MapInv, ValidIsWritten
<1>5. MappedIsValid'
  <2> SUFFICES ASSUME NEW l \in Lpns, NEW i \in Units,
                      NEW b \in Blocks, NEW p \in Pages,
                      table'[l][i] = <<b, p>>
               PROVE  b \in blocks' /\ i \in valid'[b][p] /\ lpns'[b][p][i] = l
    BY DEF MappedIsValid
  <2>1. <<b, p>> # NoAddr
    <3>1. b # TotalPhysicalBlocks
      BY GeometryAssumption DEF Blocks
    <3> QED
      BY <3>1 DEF NoAddr
  <2>2. l \notin ls /\ table[l][i] = <<b, p>>
    BY <1>2, <2>1
  <2>3. b \in blocks /\ i \in valid[b][p] /\ lpns[b][p][i] = l
    BY <2>2 DEF MapInv, MappedIsValid
  <2>4. \A m \in ls : table[m][i] # <<b, p>>
    BY <2>2, <2>3 DEF MapInv, MappedIsValid
  <2> QED
    BY <1>1, <2>3, <2>4
<1>6. ValidIsMapped'
  <2> SUFFICES ASSUME NEW b \in Blocks, NEW p \in Pages, NEW i \in Units,
                      i \in valid'[b][p]
               PROVE  table'[lpns[b][p][i]][i] = <<b, p>>
    BY DEF ValidIsMapped
  <2>1. i \in valid[b][p] /\ ~\E l \in ls : table[l][i] = <<b, p>>
    BY <1>1
  <2>2. table[lpns[b][p][i]][i] = <<b, p>> /\ lpns[b][p][i] \in Lpns
    BY <1>3, <2>1 DEF MapInv, ValidIsMapped
  <2> QED
    BY <1>2, <2>1, <2>2
<1> QED
  BY <1>4, <1>5, <1>6 DEF MapInv

(* An erased block had no valid unit, so nothing mapped into it.           *)
LEMMA ErasesMap ==
  ASSUME MapInv, Erases
  PROVE  MapInv'
<1>1. TypeInv'
  BY ErasesType DEF MapInv
<1>2. Victim \in Blocks
  BY VictimLemma DEF MapInv, Erases
<1>3. /\ \A p \in Pages : valid[Victim][p] = {}
      /\ blocks' = blocks \ {Victim}
      /\ nextWrite' = [nextWrite EXCEPT ![Victim] = [i \in Units |-> 0]]
      /\ UNCHANGED <<table, valid, lpns>>
  BY DEF Erases
<1>4. \A b \in Blocks : b # Victim => nextWrite'[b] = nextWrite[b]
  BY <1>3 DEF MapInv, TypeInv, TypeOK
<1>5. ValidIsWritten'
  BY <1>3, <1>4 DEF MapInv, ValidIsWritten
<1>6. MappedIsValid'
  BY <1>3 DEF MapInv, MappedIsValid
<1>7. ValidIsMapped'
  BY <1>3 DEF MapInv, ValidIsMapped
<1> QED
  BY <1>1, <1>5, <1>6, <1>7 DEF MapInv

(* The constructor establishes the map invariant.                          *)
LEMMA MapInvInit == Init => MapInv
<1> SUFFICES ASSUME Init PROVE MapInv
  OBVIOUS
<1>1. /\ table = [l \in Lpns |-> [i \in Units |-> NoAddr]]
      /\ valid = [b \in Blocks |-> [p \in Pages |-> {}]]
  BY DEF Init
<1>2. ValidIsWritten /\ ValidIsMapped
  BY <1>1 DEF ValidIsWritten, ValidIsMapped
<1>3. MappedIsValid
  <2>1. \A b \in Blocks, p \in Pages : <<b, p>> # NoAddr
    <3>1. \A b \in Blocks : b # TotalPhysicalBlocks
      BY GeometryAssumption DEF Blocks
    <3> QED
      BY <3>1 DEF NoAddr
  <2> QED
    BY <1>1, <2>1 DEF MappedIsValid
<1> QED
  BY <1>2, <1>3, TypeInvInit DEF MapInv

(* Every step keeps the map invariant: one case per action.                *)
LEMMA MapInvNext ==
  ASSUME MapInv, [Next]_vars, IoUnitInPage > 1
  PROVE  MapInv'
<1>1. TypeInv'
  BY TypeInvNext DEF MapInv
<1>2. ASSUME NEW l \in Lpns, NEW d \in Data, Fill(l, d)
      PROVE  MapInv'
  <2>1. CASE \E msg : Panic(msg)
    BY <2>1, PanicMap
  <2>2. CASE ~\E msg : Panic(msg)
    <3>1. /\ WriteInternal(l, Units, d, "fill")
          /\ GetBlockPanic(Units) = "none"
      BY <1>2, <2>2 DEF Fill
    <3>2. filled' \in Nat
      BY <1>1 DEF TypeInv, TypeOK
    <3> QED
      BY <3>1, <3>2, WriteInternalMap
  <2> QED
    BY <2>1, <2>2
<1>3. ASSUME NEW l \in Lpns, NEW io \in IoFlags, NEW d \in Data, Write(l, io, d)
      PROVE  MapInv'
  <2>1. io \in SUBSET Units
    BY DEF IoFlags
  <2>2. CASE GetBlockPanic(io) # "none"
    BY <1>3, <2>2, PanicMap DEF Write, WriteInternal
  <2>3. CASE GetBlockPanic(io) = "none"
    <3>1. PICK next \in {"idle", "select"} : WriteInternal(l, io, d, next)
      BY <1>3 DEF Write
    <3>2. filled' \in Nat
      BY <1>1 DEF TypeInv, TypeOK
    <3> QED
      BY <2>1, <2>3, <3>1, <3>2, WriteInternalMap
  <2> QED
    BY <2>2, <2>3
<1>4. ASSUME NEW l \in Lpns, NEW io \in IoFlags, Read(l, io)
      PROVE  MapInv'
  <2>1. CASE \E msg : Panic(msg)
    BY <2>1, PanicMap
  <2>2. CASE UNCHANGED vars
    BY <1>1, <2>2, MapUnchanged DEF vars, mapVars, poolVars
  <2> QED
    BY <1>4, <2>1, <2>2 DEF Read
<1>5. ASSUME NEW l \in Lpns, Trim(l)
      PROVE  MapInv'
  <2>1. CASE TrimPanics({l})
    BY <1>5, <2>1, PanicMap DEF Trim
  <2>2. CASE ~TrimPanics({l})
    <3>1. Unmap({l}) /\ UNCHANGED <<lpns, nextWrite, blocks>>
      BY <1>5, <2>2 DEF Trim, poolVars
    <3> QED
      BY <1>1, <3>1, UnmapMap
  <2> QED
    BY <2>1, <2>2
<1>6. ASSUME NEW s \in Lpns, NEW n \in 1..TotalLogicalPages, Format(s, n)
      PROVE  MapInv'
  <2> DEFINE ls == {l \in Lpns : s <= l /\ l < s + n}
  <2>1. CASE TrimPanics(ls)
    BY <1>6, <2>1, PanicMap DEF Format
  <2>2. CASE ~TrimPanics(ls)
    <3>1. Unmap(ls) /\ UNCHANGED <<lpns, nextWrite, blocks>>
      BY <1>6, <2>2 DEF Format, poolVars
    <3>2. ls \in SUBSET Lpns
      OBVIOUS
    <3> HIDE DEF ls
    <3> QED
      BY <1>1, <3>1, <3>2, UnmapMap
  <2> QED
    BY <2>1, <2>2
<1>7. CASE CollectPage
  <2>1. CASE /\ pc = "collect"
             /\ NextPage
             /\ UNCHANGED <<mapVars, poolVars, openVars, victims, copies,
                            panic, filled, flash>>
    BY <1>1, <2>1, MapUnchanged DEF mapVars, poolVars
  <2> QED
    BY <1>7, <2>1, CollectPageCases, PanicMap, MovesMap
<1>8. CASE EraseBlock
  BY <1>8, EraseBlockCases, PanicMap, ErasesMap
<1>9. CASE FillDone \/ SelectVictim \/ CopyPages \/ Stopped \/ UNCHANGED vars
  <2>1. UNCHANGED <<table, valid, lpns, nextWrite, blocks>>
    BY <1>9 DEF FillDone, SelectVictim, CopyPages, Stopped, vars, mapVars,
                poolVars
  <2> QED
    BY <1>1, <2>1, MapUnchanged
<1> QED
  BY <1>2, <1>3, <1>4, <1>5, <1>6, <1>7, <1>8, <1>9 DEF Next

(* Through writes, trims, formats and collections in any order the mapping *)
(* table and the blocks agree: every mapped unit is valid, in a block in   *)
(* use and owned by its logical page, and every valid unit is the one its  *)
(* logical page maps to.                                                   *)
THEOREM MapConsistent ==
  ASSUME IoUnitInPage > 1
  PROVE  Spec => [](MappedIsValid /\ ValidIsMapped)
<1>1. MapInv => MappedIsValid /\ ValidIsMapped
  BY DEF MapInv
<1>2. MapInv /\ [Next]_vars => MapInv'
  BY MapInvNext
<1> QED
  BY <1>1, <1>2, MapInvInit, PTL DEF Spec

(* No unit stays valid that no logical page maps to: collection never      *)
(* copies data nobody owns.                                                *)
THEOREM ValidUnitsMapped ==
  ASSUME IoUnitInPage > 1
  PROVE  Spec => []ValidIsMapped
<1>1. MapInv => ValidIsMapped
  BY DEF MapInv
<1>2. MapInv /\ [Next]_vars => MapInv'
  BY MapInvNext
<1> QED
  BY <1>1, <1>2, MapInvInit, PTL DEF Spec

-----------------------------------------------------------------------------
(* The steps of the FTL, each without the panics it may end in             *)

(* writeInternal, for the host or for the warm-up.                         *)
Writes ==
  /\ pc \in {"fill", "idle"}
  /\ \E l \in Lpns, io \in IoFlags, d \in Data,
        next \in {"fill", "idle", "select"} :
       /\ GetBlockPanic(io) = "none"
       /\ next = "fill" => pc = "fill"
       /\ WriteInternal(l, io, d, next)

(* trim, and what format does before it collects.                          *)
Discards(ls) ==
  /\ pc = "idle"
  /\ Unmap(ls)
  /\ UNCHANGED <<lpns, nextWrite, poolVars, openVars, panic, filled, flash>>
  /\ \/ UNCHANGED <<gcVars, pc>>
     \/ /\ "format" \in Commands
        /\ copies' = {}
        /\ pc' \in {"idle", "collect"}

(* A page of a victim without valid units.                                 *)
Skips ==
  /\ pc = "collect"
  /\ PageInfo(Victim, gcPage) = {}
  /\ NextPage
  /\ UNCHANGED <<mapVars, poolVars, openVars, victims, copies, panic, filled,
                 flash>>

(* Every step is a panic, one of these, or no step at all.                 *)
LEMMA StepCases ==
  ASSUME TypeInv, [Next]_vars
  PROVE  \/ \E msg : Panic(msg)
         \/ Writes
         \/ FillDone
         \/ \E ls \in SUBSET Lpns : Discards(ls)
         \/ SelectVictim
         \/ Skips
         \/ Moves
         \/ CopyPages
         \/ Erases
         \/ UNCHANGED vars
<1>1. ASSUME NEW l \in Lpns, NEW d \in Data, Fill(l, d)
      PROVE  (\E msg : Panic(msg)) \/ Writes
  <2>1. Units \in IoFlags
    BY GeometryAssumption DEF IoFlags, Units
  <2> QED
    BY <1>1, <2>1 DEF Fill, Writes
<1>2. ASSUME NEW l \in Lpns, NEW io \in IoFlags, NEW d \in Data, Write(l, io, d)
      PROVE  (\E msg : Panic(msg)) \/ Writes
  <2>1. CASE GetBlockPanic(io) # "none"
    BY <1>2, <2>1 DEF Write, WriteInternal
  <2>2. CASE GetBlockPanic(io) = "none"
    BY <1>2, <2>2 DEF Write, Writes
  <2> QED
    BY <2>1, <2>2
<1>3. ASSUME NEW l \in Lpns, NEW io \in IoFlags, Read(l, io)
      PROVE  (\E msg : Panic(msg)) \/ UNCHANGED vars
  BY <1>3 DEF Read
<1>4. ASSUME NEW l \in Lpns, Trim(l)
      PROVE  (\E msg : Panic(msg)) \/ \E ls \in SUBSET Lpns : Discards(ls)
  <2>1. CASE TrimPanics({l})
    BY <1>4, <2>1 DEF Trim
  <2>2. CASE ~TrimPanics({l})
    <3>1. Discards({l})
      BY <1>4, <2>2 DEF Trim, Discards
    <3> QED
      BY <3>1
  <2> QED
    BY <2>1, <2>2
<1>5. ASSUME NEW s \in Lpns, NEW n \in 1..TotalLogicalPages, Format(s, n)
      PROVE  (\E msg : Panic(msg)) \/ \E ls \in SUBSET Lpns : Discards(ls)
  <2> DEFINE ls == {l \in Lpns : s <= l /\ l < s + n}
  <2>1. CASE TrimPanics(ls)
    BY <1>5, <2>1 DEF Format
  <2>2. CASE ~TrimPanics(ls)
    <3>1. Discards(ls)
      BY <1>5, <2>2 DEF Format, Discards
    <3>2. ls \in SUBSET Lpns
      OBVIOUS
    <3> QED
      BY <3>1, <3>2
  <2> QED
    BY <2>1, <2>2
<1>6. ASSUME CollectPage
      PROVE  (\E msg : Panic(msg)) \/ Skips \/ Moves
  BY <1>6 DEF CollectPage, Skips, Moves
<1> QED
  BY <1>1, <1>2, <1>3, <1>4, <1>5, <1>6, EraseBlockCases DEF Next, Stopped

-----------------------------------------------------------------------------
(* Wear                                                                    *)

(* What InsertAt leaves in a sequence.                                     *)
LEMMA InsertAtElements ==
  ASSUME NEW S, NEW s \in Seq(S), NEW k \in 1..(Len(s) + 1), NEW e \in S,
         NEW j \in 1..Len(InsertAt(s, k, e))
  PROVE  InsertAt(s, k, e)[j] = e \/ \E m \in 1..Len(s) : InsertAt(s, k, e)[j] = s[m]
<1>1. /\ Len(InsertAt(s, k, e)) = Len(s) + 1
      /\ InsertAt(s, k, e)[j] = IF j < k THEN s[j]
                                ELSE IF j = k THEN e ELSE s[j - 1]
  BY InsertAtLemma
<1>2. CASE j < k
  BY <1>1, <1>2
<1>3. CASE j > k
  <2>1. j - 1 \in 1..Len(s) /\ InsertAt(s, k, e)[j] = s[j - 1]
    BY <1>1, <1>3
  <2> QED
    BY <2>1
<1> QED
  BY <1>1, <1>2, <1>3

(* What an erase leaves on the free list.                                  *)
LEMMA ErasesList ==
  ASSUME TypeInv, Erases, NEW j \in 1..Len(freeBlocks')
  PROVE  \/ freeBlocks'[j] = Victim /\ Reusable(eraseCount[Victim] + 1)
         \/ \E m \in 1..Len(freeBlocks) : freeBlocks'[j] = freeBlocks[m]
<1> DEFINE n == eraseCount[Victim] + 1
<1>1. Victim \in Blocks /\ n \in Nat /\ freeBlocks \in Seq(Blocks)
  BY VictimLemma DEF Erases, TypeInv, TypeOK
<1>2. freeBlocks' = IF Reusable(n)
                    THEN InsertAt(freeBlocks, FreeListPosition(n), Victim)
                    ELSE freeBlocks
  BY DEF Erases
<1>3. FreeListPosition(n) \in 1..(Len(freeBlocks) + 1)
  BY <1>1, FreeListPositionLemma
<1> HIDE DEF n
<1>4. CASE Reusable(n)
  BY <1>1, <1>2, <1>3, <1>4, InsertAtElements DEF n
<1>5. CASE ~Reusable(n)
  BY <1>2, <1>5
<1> QED
  BY <1>4, <1>5

(* The target of a write was in use or free.                               *)
LEMMA TargetSource ==
  ASSUME TypeInv, NEW io \in SUBSET Units, GetBlockPanic(io) = "none"
  PROVE  \/ TargetBlock(io) \in blocks /\ ~IsFull(TargetBlock(io))
         \/ \E k \in 1..Len(freeBlocks) : TargetBlock(io) = freeBlocks[k]
<1>1. CASE OpenIsFull(io)
  BY <1>1, TargetLemma DEF TargetBlock
<1>2. CASE ~OpenIsFull(io)
  BY <1>2 DEF TargetBlock, GetBlockPanic, OpenIsFull
<1> QED
  BY <1>1, <1>2

(* Taking a block for a write does not touch a worn-out one.               *)
LEMMA ProgramWear ==
  ASSUME TypeInv, RetiredNeverReused, NEW io \in SUBSET Units,
         GetBlockPanic(io) = "none", GetLastFreeBlock(io), UNCHANGED eraseCount
  PROVE  RetiredNeverReused'
<1>1. WornOut' = WornOut
  BY DEF WornOut
<1>2. TargetBlock(io) \notin WornOut
  BY TargetSource DEF RetiredNeverReused
<1>3. /\ blocks' = blocks \cup {TargetBlock(io)}
      /\ \A k \in 1..Len(freeBlocks') :
           \E j \in 1..Len(freeBlocks) : freeBlocks'[k] = freeBlocks[j]
  BY PoolLemma
<1> QED
  BY <1>1, <1>2, <1>3 DEF RetiredNeverReused

(* Every step keeps worn-out blocks out of use.                            *)
LEMMA WearNext ==
  ASSUME TypeInv, RetiredNeverReused, [Next]_vars
  PROVE  RetiredNeverReused'
<1>1. ASSUME UNCHANGED poolVars
      PROVE  RetiredNeverReused'
  BY <1>1 DEF poolVars, RetiredNeverReused, WornOut
<1>2. CASE Writes
  <2>1. PICK l \in Lpns, io \in IoFlags, d \in Data,
             next \in {"fill", "idle", "select"} :
               GetBlockPanic(io) = "none" /\ WriteInternal(l, io, d, next)
    BY <1>2 DEF Writes
  <2>2. io \in SUBSET Units /\ GetLastFreeBlock(io) /\ UNCHANGED eraseCount
    BY <2>1 DEF IoFlags, WriteInternal
  <2> QED
    BY <2>1, <2>2, ProgramWear
<1>3. CASE Moves
  <2> DEFINE io == PageInfo(Victim, gcPage)
  <2>1. io \in SUBSET Units
    BY <1>3, PageInfoType, VictimLemma DEF Moves, TypeInv, TypeOK
  <2>2. GetBlockPanic(io) = "none" /\ GetLastFreeBlock(io) /\ UNCHANGED eraseCount
    BY <1>3 DEF Moves
  <2> QED
    BY <2>1, <2>2, ProgramWear
<1>4. CASE Erases
  <2> SUFFICES ASSUME NEW b \in WornOut'
               PROVE  b \notin blocks' /\ \A k \in 1..Len(freeBlocks') :
                                            freeBlocks'[k] # b
    BY DEF RetiredNeverReused
  <2>1. /\ Victim \in Blocks /\ Victim \in blocks
        /\ eraseCount \in [Blocks -> Nat]
        /\ eraseCount' = [eraseCount EXCEPT ![Victim] = @ + 1]
        /\ blocks' = blocks \ {Victim}
        /\ BadBlockThreshold \in Nat
    BY <1>4, VictimLemma, PolicyAssumption DEF Erases, TypeInv, TypeOK
  <2>2. b \in Blocks /\ eraseCount'[b] >= BadBlockThreshold
    BY DEF WornOut
  <2>3. \A k \in 1..Len(freeBlocks') :
          \/ freeBlocks'[k] = Victim /\ Reusable(eraseCount[Victim] + 1)
          \/ \E m \in 1..Len(freeBlocks) : freeBlocks'[k] = freeBlocks[m]
    BY <1>4, ErasesList
  <2>4. \A m \in 1..Len(freeBlocks) : freeBlocks[m] # Victim
    BY <2>1 DEF TypeInv, FreeListSound
  <2>5. CASE b = Victim
    <3>1. ~Reusable(eraseCount[Victim] + 1)
      BY <2>1, <2>2, <2>5 DEF Reusable
    <3> QED
      BY <2>1, <2>3, <2>4, <2>5, <3>1
  <2>6. CASE b # Victim
    <3>1. b \in WornOut
      BY <2>1, <2>2, <2>6 DEF WornOut
    <3> QED
      BY <2>1, <2>3, <2>6, <3>1 DEF RetiredNeverReused
  <2> QED
    BY <2>5, <2>6
<1>5. CASE \/ \E msg : Panic(msg)
           \/ FillDone \/ SelectVictim \/ Skips \/ CopyPages \/ UNCHANGED vars
           \/ \E ls \in SUBSET Lpns : Discards(ls)
  <2>1. UNCHANGED poolVars
    BY <1>5 DEF Panic, FillDone, SelectVictim, Skips, CopyPages, Discards, vars
  <2> QED
    BY <1>1, <2>1
<1> QED
  BY <1>2, <1>3, <1>4, <1>5, StepCases

(* A block erased BadBlockThreshold times leaves the pool for good: no     *)
(* write or collection of any later command puts data on it, whichever     *)
(* policy picked it and wherever eraseInternal inserted its neighbours.    *)
THEOREM RetiredBlocksStayRetired ==
  ASSUME BadBlockThreshold > 0
  PROVE  Spec => []RetiredNeverReused
<1>1. Init => RetiredNeverReused
  <2> SUFFICES ASSUME Init PROVE RetiredNeverReused
    OBVIOUS
  <2>1. WornOut = {}
    BY PolicyAssumption DEF Init, WornOut
  <2> QED
    BY <2>1 DEF RetiredNeverReused
<1>2. TypeInv /\ RetiredNeverReused /\ [Next]_vars => RetiredNeverReused'
  BY WearNext
<1> QED
  BY <1>1, <1>2, TypeCorrect, PTL DEF Spec

-----------------------------------------------------------------------------
(* Erase before program                                                    *)

(* Copies are queued by the metadata loop and gone after the flash I/O.    *)
CopiesInLoop == pc \in {"fill", "idle", "select", "erase", "hang"} => copies = {}

(* A unit that its block has not handed out since the last erase is erased. *)
FreshIsErased ==
  \A b \in Blocks, p \in Pages, i \in Units :
    p >= nextWrite[b][i] => flash[b][p][i] = NoData

(* A queued copy goes to a unit that is handed out and still erased.       *)
CopiesToErased ==
  \A c \in copies :
    /\ c.to[2] < nextWrite[c.to[1]][c.to[3]]
    /\ flash[c.to[1]][c.to[2]][c.to[3]] = NoData

FlashInv == TypeInv /\ CopiesInLoop /\ FreshIsErased /\ CopiesToErased

(* The flash discipline as one step sees it.                               *)
FlashStep ==
  \A b \in Blocks :
    \/ \A p \in Pages, i \in Units :
         flash'[b][p][i] # flash[b][p][i] => flash[b][p][i] = NoData
    \/ \A p \in Pages, i \in Units : flash'[b][p][i] = NoData

(* The place of a queued copy, taken apart.                                *)
LEMMA CopyType ==
  ASSUME TypeOK, NEW c \in copies
  PROVE  /\ c.from \in Slots /\ c.to \in Slots
         /\ c.to[1] \in Blocks /\ c.to[2] \in Pages /\ c.to[3] \in Units
         /\ c.to = <<c.to[1], c.to[2], c.to[3]>>
         /\ c.from[1] \in Blocks /\ c.from[2] \in Pages /\ c.from[3] \in Units
         /\ c.from = <<c.from[1], c.from[2], c.from[3]>>
<1>1. c \in [from : Slots, to : Slots]
  BY DEF TypeOK
<1>2. c.from \in Slots /\ c.to \in Slots
  BY <1>1
<1> QED
  BY <1>2 DEF Slots

(* Where a page write or a page move advances the write pointers.          *)
LEMMA ProgramPointers ==
  ASSUME TypeInv, NEW t \in Blocks, NEW io \in SUBSET Units, NEW owner,
         Program(t, io, owner)
  PROVE  /\ \A b \in Blocks, i \in Units :
              /\ nextWrite[b][i] \in Nat
              /\ nextWrite'[b][i] = IF b = t /\ i \in io THEN nextWrite[b][i] + 1
                                    ELSE nextWrite[b][i]
<1>1. nextWrite \in [Blocks -> [Units -> 0..PagesInBlock]]
  BY DEF TypeInv, TypeOK
<1> QED
  BY <1>1, GeometryAssumption DEF Program

(* writeInternal programs the units its block handed out, which are        *)
(* erased.                                                                 *)
LEMMA WritesFlash ==
  ASSUME FlashInv, Writes, TypeInv'
  PROVE  FlashInv' /\ FlashStep
<1>1. PICK l \in Lpns, io \in IoFlags, d \in Data,
           next \in {"fill", "idle", "select"} :
             /\ GetBlockPanic(io) = "none"
             /\ WriteInternal(l, io, d, next)
  BY DEF Writes
<1>2. io \in SUBSET Units /\ copies = {}
  BY DEF IoFlags, Writes, FlashInv, CopiesInLoop
<1> DEFINE t == TargetBlock(io)
<1>3. /\ t \in Blocks /\ (\A i \in Units : nextWrite[t][i] \in Pages)
      /\ Program(t, io, [i \in Units |-> l])
      /\ flash' = [flash EXCEPT ![t] = [p \in Pages |-> [i \in Units |->
            IF i \in io /\ p = nextWrite[t][i] THEN d ELSE flash[t][p][i]]]]
      /\ UNCHANGED copies
  BY <1>1, <1>2, TargetLemma DEF WriteInternal, FlashInv, gcVars
<1> HIDE DEF t
<1>4. \A b \in Blocks, i \in Units :
        /\ nextWrite[b][i] \in Nat
        /\ nextWrite'[b][i] = IF b = t /\ i \in io THEN nextWrite[b][i] + 1
                              ELSE nextWrite[b][i]
  BY <1>2, <1>3, ProgramPointers DEF FlashInv
<1>5. \A b \in Blocks, p \in Pages, i \in Units :
        flash'[b][p][i] = IF b = t /\ i \in io /\ p = nextWrite[t][i] THEN d
                          ELSE flash[b][p][i]
  BY <1>3 DEF FlashInv, TypeInv, TypeOK
<1>6. \A p \in Pages : p \in Nat
  BY GeometryAssumption DEF Pages
<1>7. FlashStep
  BY <1>4, <1>5, <1>6 DEF FlashStep, FlashInv, FreshIsErased
<1>8. FreshIsErased'
  BY <1>4, <1>5, <1>6 DEF FlashInv, FreshIsErased
<1>9. copies' = {}
  BY <1>2, <1>3
<1> QED
  BY <1>7, <1>8, <1>9 DEF FlashInv, CopiesToErased, CopiesInLoop

(* A page move queues its copy to the units the target handed out.         *)
LEMMA MovesFlash ==
  ASSUME FlashInv, Moves, TypeInv'
  PROVE  FlashInv' /\ FlashStep
<1> DEFINE io == PageInfo(Victim, gcPage)
           owner == lpns[Victim][gcPage]
           t == TargetBlock(io)
<1>1. pc = "collect" /\ Victim \in Blocks /\ gcPage \in Pages
  BY VictimLemma DEF FlashInv, TypeInv, TypeOK, Moves
<1>2. io \in SUBSET Units
  BY <1>1, PageInfoType DEF FlashInv
<1>3. t \in Blocks /\ (\A i \in Units : nextWrite[t][i] \in Pages)
  BY <1>2, TargetLemma DEF FlashInv, Moves
<1>4. /\ Program(t, io, owner)
      /\ copies' = copies \cup
            {[from |-> <<Victim, gcPage, i>>, to |-> <<t, nextWrite[t][i], i>>] :
               i \in io}
      /\ UNCHANGED <<victims, flash>>
      /\ NextPage
  BY DEF Moves
<1> HIDE DEF io, owner, t
<1>5. \A b \in Blocks, i \in Units :
        /\ nextWrite[b][i] \in Nat
        /\ nextWrite'[b][i] = IF b = t /\ i \in io THEN nextWrite[b][i] + 1
                              ELSE nextWrite[b][i]
  BY <1>2, <1>3, <1>4, ProgramPointers DEF FlashInv
<1>6. FreshIsErased'
  <2>1. \A p \in Pages : p \in Nat
    BY GeometryAssumption DEF Pages
  <2> QED
    BY <1>4, <1>5, <2>1 DEF FlashInv, FreshIsErased
<1>7. CopiesToErased'
  <2> SUFFICES ASSUME NEW c \in copies'
               PROVE  /\ c.to[2] < nextWrite'[c.to[1]][c.to[3]]
                      /\ flash'[c.to[1]][c.to[2]][c.to[3]] = NoData
    BY DEF CopiesToErased
  <2>1. CASE c \in copies
    <3>1. /\ c.to[1] \in Blocks /\ c.to[2] \in Pages /\ c.to[3] \in Units
          /\ c.to[2] \in Nat
      BY <2>1, CopyType, GeometryAssumption DEF FlashInv, TypeInv, Pages
    <3>2. c.to[2] < nextWrite[c.to[1]][c.to[3]]
      BY <2>1 DEF FlashInv, CopiesToErased
    <3> QED
      BY <1>4, <1>5, <2>1, <3>1, <3>2 DEF FlashInv, CopiesToErased
  <2>2. CASE c \notin copies
    <3>1. PICK i \in io : c.to = <<t, nextWrite[t][i], i>>
      BY <1>4, <2>2
    <3>2. c.to[1] = t /\ c.to[2] = nextWrite[t][i] /\ c.to[3] = i
      BY <3>1
    <3>3. flash[t][nextWrite[t][i]][i] = NoData
      BY <1>2, <1>3, <1>5 DEF FlashInv, FreshIsErased
    <3>4. i \in Units /\ nextWrite[t][i] \in Nat /\ nextWrite'[t][i] = nextWrite[t][i] + 1
      BY <1>2, <1>3, <1>5
    <3>5. flash'[t][nextWrite[t][i]][i] = NoData
      BY <1>4, <3>3
    <3> QED
      BY <3>2, <3>4, <3>5
  <2> QED
    BY <2>1, <2>2
<1>8. CopiesInLoop'
  BY <1>1, <1>4, NextPageLemma DEF FlashInv, CopiesInLoop
<1>9. FlashStep
  BY <1>4 DEF FlashStep
<1> QED
  BY <1>6, <1>7, <1>8, <1>9 DEF FlashInv

(* The queued flash I/O programs only erased units.                        *)
LEMMA CopyPagesFlash ==
  ASSUME FlashInv, CopyPages, TypeInv'
  PROVE  FlashInv' /\ FlashStep
<1>1. /\ copies' = {} /\ UNCHANGED nextWrite
      /\ flash' = [b \in Blocks |-> [p \in Pages |-> [i \in Units |->
                     Content(b, p, i)]]]
  BY DEF CopyPages, mapVars
<1>2. ASSUME NEW b \in Blocks, NEW p \in Pages, NEW i \in Units,
             flash'[b][p][i] # flash[b][p][i]
      PROVE  flash[b][p][i] = NoData /\ p < nextWrite[b][i]
  <2>1. Content(b, p, i) # flash[b][p][i]
    BY <1>1, <1>2
  <2>2. PICK c \in copies : c.to = <<b, p, i>>
    BY <2>1 DEF Content
  <2>3. c.to[1] = b /\ c.to[2] = p /\ c.to[3] = i
    BY <2>2
  <2> QED
    BY <2>3 DEF FlashInv, CopiesToErased
<1>3. FreshIsErased'
  <2>1. \A b \in Blocks, p \in Pages, i \in Units :
          p \in Nat /\ nextWrite[b][i] \in Nat
    BY GeometryAssumption DEF Pages, FlashInv, TypeInv, TypeOK
  <2> SUFFICES ASSUME NEW b \in Blocks, NEW p \in Pages, NEW i \in Units,
                      p >= nextWrite'[b][i]
               PROVE  flash'[b][p][i] = NoData
    BY DEF FreshIsErased
  <2>2. ~(p < nextWrite[b][i]) /\ p >= nextWrite[b][i]
    BY <1>1, <2>1
  <2>3. flash[b][p][i] = NoData
    BY <2>2 DEF FlashInv, FreshIsErased
  <2> QED
    BY <1>2, <2>2, <2>3
<1>4. FlashStep
  BY <1>2 DEF FlashStep
<1> QED
  BY <1>1, <1>3, <1>4 DEF FlashInv, CopiesToErased, CopiesInLoop

(* An erase clears its whole block.                                        *)
LEMMA ErasesFlash ==
  ASSUME FlashInv, Erases, TypeInv'
  PROVE  FlashInv' /\ FlashStep
<1>1. Victim \in Blocks /\ copies = {}
  BY VictimLemma DEF Erases, FlashInv, CopiesInLoop
<1>2. /\ nextWrite' = [nextWrite EXCEPT ![Victim] = [i \in Units |-> 0]]
      /\ flash' = [flash EXCEPT ![Victim] =
                     [p \in Pages |-> [i \in Units |-> NoData]]]
      /\ UNCHANGED copies
  BY DEF Erases
<1>3. /\ \A b \in Blocks : b # Victim => /\ nextWrite'[b] = nextWrite[b]
                                         /\ flash'[b] = flash[b]
      /\ \A p \in Pages, i \in Units : flash'[Victim][p][i] = NoData
  BY <1>1, <1>2 DEF FlashInv, TypeInv, TypeOK
<1>4. FreshIsErased'
  BY <1>3 DEF FlashInv, FreshIsErased
<1>5. FlashStep
  BY <1>3 DEF FlashStep
<1> QED
  BY <1>1, <1>2, <1>4, <1>5 DEF FlashInv, CopiesToErased, CopiesInLoop

(* Every step keeps the invariant and the discipline.                      *)
LEMMA FlashNext ==
  ASSUME FlashInv, [Next]_vars
  PROVE  FlashInv' /\ FlashStep
<1>1. TypeInv'
  BY TypeInvNext DEF FlashInv
<1>2. CASE \/ \E msg : Panic(msg)
           \/ FillDone \/ SelectVictim \/ Skips \/ UNCHANGED vars
           \/ \E ls \in SUBSET Lpns : Discards(ls)
  <2>1. UNCHANGED <<nextWrite, flash>>
    BY <1>2 DEF Panic, FillDone, SelectVictim, Skips, Discards, vars, mapVars
  <2>2. copies' \in {copies, {}}
    BY <1>2 DEF Panic, FillDone, SelectVictim, Skips, Discards, vars, gcVars
  <2>3. CopiesInLoop'
    <3>1. CASE SelectVictim \/ \E ls \in SUBSET Lpns : Discards(ls)
      BY <3>1 DEF SelectVictim, Discards, FlashInv, CopiesInLoop, gcVars
    <3>2. CASE (\E msg : Panic(msg)) \/ FillDone \/ UNCHANGED vars
      BY <3>2 DEF Panic, FillDone, vars, gcVars, FlashInv, CopiesInLoop
    <3>3. CASE Skips
      BY <3>3, NextPageLemma DEF Skips, FlashInv, CopiesInLoop
    <3> QED
      BY <1>2, <3>1, <3>2, <3>3
  <2>4. FreshIsErased'
    BY <2>1 DEF FlashInv, FreshIsErased
  <2>5. CopiesToErased'
    BY <2>1, <2>2 DEF FlashInv, CopiesToErased
  <2>6. FlashStep
    BY <2>1 DEF FlashStep
  <2> QED
    BY <1>1, <2>3, <2>4, <2>5, <2>6 DEF FlashInv
<1> QED
  BY <1>1, <1>2, StepCases, WritesFlash, MovesFlash, CopyPagesFlash, ErasesFlash
     DEF FlashInv

(* The constructor leaves an erased flash and nothing queued.              *)
LEMMA FlashInit == Init => FlashInv
<1> SUFFICES ASSUME Init PROVE FlashInv
  OBVIOUS
<1>1. /\ flash = [b \in Blocks |-> [p \in Pages |-> [i \in Units |-> NoData]]]
      /\ copies = {}
  BY DEF Init
<1> QED
  BY <1>1, TypeInvInit DEF FlashInv, CopiesInLoop, FreshIsErased, CopiesToErased

(* The invariant behind the flash discipline.                              *)
THEOREM FreshUnitsErased == Spec => []FlashInv
  BY FlashInit, FlashNext, PTL DEF Spec

(* Writes, collections and formats in any order program a flash unit only  *)
(* when it is erased, and clear one only with its whole block: what the    *)
(* PAL's flash requires and nothing in the FTL checks.                     *)
THEOREM FlashDiscipline == Spec => EraseBeforeProgram
<1>1. FlashInv /\ [Next]_vars => [FlashStep]_vars
  BY FlashNext
<1>2. [][FlashStep]_vars => EraseBeforeProgram
  BY DEF EraseBeforeProgram, FlashStep
<1> QED
  BY <1>1, <1>2, FreshUnitsErased, PTL DEF Spec

-----------------------------------------------------------------------------
(* The victims of a collection.  format hands doGarbageCollection blocks   *)
(* that may be open or half full, so what follows is about programs that   *)
(* do not format.                                                          *)

(* While pages are moved, the victims are full blocks in use.              *)
VictimsFull ==
  pc \in {"collect", "io"} =>
    \A k \in 1..Len(victims) : victims[k] \in blocks /\ IsFull(victims[k])

(* selectVictimBlock takes full blocks only.                               *)
LEMMA SelectedFull ==
  ASSUME TypeInv, SelectVictim, NEW k \in 1..Len(victims')
  PROVE  victims'[k] \in FullBlocks
<1>1. CASE victims' = <<>>
  BY <1>1
<1>2. CASE victims' # <<>>
  <2>1. Cardinality(FullBlocks) \in Nat
    BY BlocksFinite DEF FullBlocks, TypeInv, TypeOK
  <2>2. BlocksToReclaim \in Int
    BY PolicyAssumption, GeometryAssumption
       DEF BlocksToReclaim, nFreeBlocks, TypeInv, TypeOK
  <2>3. SampleSize \in Int
    BY <2>1, <2>2, PolicyAssumption DEF SampleSize
  <2> DEFINE n == IF BlocksToReclaim < SampleSize THEN BlocksToReclaim
                  ELSE SampleSize
  <2>4. n \in Int /\ victims' \in [1..n -> FullBlocks]
    BY <1>2, <2>2, <2>3 DEF SelectVictim, VictimLists
  <2> HIDE DEF n
  <2>5. victims' \in Seq(FullBlocks)
    BY <2>4, FunctionIsSeq
  <2> QED
    BY <2>5
<1> QED
  BY <1>1, <1>2

(* A collection never moves a page into one of its own victims: those are  *)
(* full, and the target is an open block with room or a free one.          *)
LEMMA TargetNotVictim ==
  ASSUME TypeInv, VictimsFull, pc = "collect", NEW io \in SUBSET Units,
         GetBlockPanic(io) = "none", NEW k \in 1..Len(victims)
  PROVE  victims[k] # TargetBlock(io)
  BY TargetSource DEF VictimsFull, TypeInv, FreeListSound

(* A page move leaves every block but its target as it is.                 *)
LEMMA MovesBlocks ==
  ASSUME TypeInv, Moves
  PROVE  LET t == TargetBlock(PageInfo(Victim, gcPage)) IN
         /\ PageInfo(Victim, gcPage) \in SUBSET Units
         /\ GetBlockPanic(PageInfo(Victim, gcPage)) = "none"
         /\ t \in Blocks
         /\ blocks' = blocks \cup {t}
         /\ \A b \in Blocks : b # t => nextWrite'[b] = nextWrite[b]
<1> DEFINE io == PageInfo(Victim, gcPage)
           owner == lpns[Victim][gcPage]
           t == TargetBlock(io)
<1>1. pc = "collect" /\ Victim \in Blocks /\ gcPage \in Pages
  BY VictimLemma DEF TypeInv, TypeOK, Moves
<1>2. io \in SUBSET Units /\ owner \in [Units -> Lpns]
  BY <1>1, PageInfoType DEF TypeInv, TypeOK
<1>3. /\ t \in Blocks /\ (\A i \in Units : nextWrite[t][i] \in Pages)
      /\ blocks' = blocks \cup {t}
      /\ GetBlockPanic(io) = "none"
  BY <1>2, TargetLemma, PoolLemma DEF Moves
<1>4. Program(t, io, owner)
  BY DEF Moves
<1>5. \A b \in Blocks : b # t => nextWrite'[b] = nextWrite[b]
  BY <1>2, <1>3, <1>4, ProgramLemma
<1> QED
  BY <1>2, <1>3, <1>5

(* Every step keeps the victims full until they are erased.                *)
LEMMA VictimsNext ==
  ASSUME TypeInv, VictimsFull, [Next]_vars, "format" \notin Commands
  PROVE  VictimsFull'
<1>1. CASE SelectVictim
  <2>1. UNCHANGED <<nextWrite, blocks>>
    BY <1>1 DEF SelectVictim, mapVars, poolVars
  <2>2. \A k \in 1..Len(victims') : victims'[k] \in FullBlocks
    BY <1>1, SelectedFull
  <2> QED
    BY <2>1, <2>2 DEF VictimsFull, FullBlocks, IsFull
<1>2. CASE Skips
  <2>1. pc = "collect" /\ UNCHANGED <<nextWrite, blocks, victims>>
    BY <1>2 DEF Skips, mapVars, poolVars
  <2> QED
    BY <2>1 DEF VictimsFull, IsFull
<1>3. CASE Moves
  <2>1. pc = "collect" /\ UNCHANGED victims
    BY <1>3 DEF Moves
  <2>2. \A k \in 1..Len(victims) : /\ victims[k] \in Blocks
                                   /\ victims[k] \in blocks
                                   /\ IsFull(victims[k])
    BY <2>1 DEF VictimsFull, TypeInv, TypeOK
  <2> DEFINE t == TargetBlock(PageInfo(Victim, gcPage))
  <2>3. \A k \in 1..Len(victims) : victims[k] # t
    BY <1>3, <2>1, MovesBlocks, TargetNotVictim
  <2>4. /\ blocks' = blocks \cup {t}
        /\ \A b \in Blocks : b # t => nextWrite'[b] = nextWrite[b]
    BY <1>3, MovesBlocks
  <2> HIDE DEF t
  <2> QED
    BY <2>1, <2>2, <2>3, <2>4 DEF VictimsFull, IsFull
<1>4. CASE Writes
  BY <1>4 DEF Writes, WriteInternal, VictimsFull
<1>5. ASSUME NEW ls \in SUBSET Lpns, Discards(ls)
      PROVE  VictimsFull'
  BY <1>5 DEF Discards, VictimsFull
<1>6. CASE (\E msg : Panic(msg)) \/ FillDone \/ CopyPages \/ Erases
  BY <1>6 DEF Panic, FillDone, CopyPages, Erases, VictimsFull
<1>7. CASE UNCHANGED vars
  BY <1>7 DEF vars, mapVars, poolVars, gcVars, VictimsFull, IsFull
<1> QED
  BY <1>1, <1>2, <1>3, <1>4, <1>5, <1>6, <1>7, StepCases

-----------------------------------------------------------------------------
(* The open block, with one parallel unit.  A collection may pick the open *)
(* block itself once it is full, but the write that started it left a      *)
(* valid page there: moving that page replaces the open block before the   *)
(* victims are erased.                                                     *)

IsVictim(b) == \E k \in 1..Len(victims) : victims[k] = b

(* A page with valid units that the loops of doGarbageCollection have yet  *)
(* to visit.                                                               *)
AwaitsMove(k, p) ==
  /\ valid[victims[k]][p] # {}
  /\ k > gcBlock \/ (k = gcBlock /\ p >= gcPage)

OpenInv ==
  /\ OpenBlocksInUse
  /\ pc = "select" => \E p \in Pages : valid[lastFreeBlock[0]][p] # {}
  /\ pc = "collect" /\ IsVictim(lastFreeBlock[0]) =>
       \E k \in 1..Len(victims), p \in Pages :
         victims[k] = lastFreeBlock[0] /\ AwaitsMove(k, p)
  /\ pc \in {"io", "erase"} => ~IsVictim(lastFreeBlock[0])

(* With one parallel unit every write goes to open block 0.                *)
LEMMA OneOpen ==
  ASSUME TypeInv, PageCountToMaxPerf = 1, NEW io \in SUBSET Units,
         GetBlockPanic(io) = "none", GetLastFreeBlock(io)
  PROVE  /\ Opens = {0}
         /\ OpenBlock(io) = lastFreeBlock[0]
         /\ lastFreeBlock'[0] = TargetBlock(io)
<1>1. Opens = {0} /\ 0 \in Opens
  BY DEF Opens
<1>2. OpenIndex(io) = 0
  BY <1>1, TargetLemma
<1>3. OpenBlock(io) = lastFreeBlock[0]
  BY <1>2 DEF OpenBlock
<1>4. lastFreeBlock'[0] = TargetBlock(io)
  <2>1. CASE OpenIsFull(io)
    BY <1>1, <1>2, <2>1 DEF GetLastFreeBlock, TypeInv, TypeOK
  <2>2. CASE ~OpenIsFull(io)
    BY <1>3, <2>2 DEF GetLastFreeBlock, TargetBlock
  <2> QED
    BY <2>1, <2>2
<1> QED
  BY <1>1, <1>3, <1>4

(* A host write leaves a valid page in the open block.                     *)
LEMMA WritesOpen ==
  ASSUME TypeInv, OpenInv, Writes, PageCountToMaxPerf = 1
  PROVE  OpenInv'
<1>1. PICK l \in Lpns, io \in IoFlags, d \in Data,
           next \in {"fill", "idle", "select"} :
             /\ GetBlockPanic(io) = "none"
             /\ WriteInternal(l, io, d, next)
  BY DEF Writes
<1> DEFINE t == TargetBlock(io)
<1>2. io \in SUBSET Units /\ io # {}
  BY DEF IoFlags
<1>3. /\ GetLastFreeBlock(io)
      /\ valid' = [b \in Blocks |-> [p \in Pages |->
            (valid[b][p] \ Stale(l, io, b, p))
              \cup {i \in io : b = t /\ p = nextWrite[t][i]}]]
      /\ pc' = next
  BY <1>1 DEF WriteInternal
<1>4. /\ t \in Blocks /\ (\A i \in Units : nextWrite[t][i] \in Pages)
      /\ blocks' = blocks \cup {t}
      /\ Opens = {0} /\ lastFreeBlock'[0] = t
  BY <1>1, <1>2, <1>3, TargetLemma, PoolLemma, OneOpen
<1> HIDE DEF t
<1>5. \E p \in Pages : valid'[t][p] # {}
  <2>1. PICK i \in io : TRUE
    BY <1>2
  <2>2. nextWrite[t][i] \in Pages /\ i \in valid'[t][nextWrite[t][i]]
    BY <1>2, <1>3, <1>4
  <2> QED
    BY <2>2
<1>6. OpenBlocksInUse'
  BY <1>4 DEF OpenBlocksInUse
<1> QED
  BY <1>3, <1>4, <1>5, <1>6 DEF OpenInv

(* A page move leaves an open block that is not a victim.                  *)
LEMMA MovesOpen ==
  ASSUME TypeInv, VictimsFull, OpenInv, Moves, PageCountToMaxPerf = 1
  PROVE  OpenInv'
<1> DEFINE io == PageInfo(Victim, gcPage)
           t == TargetBlock(io)
<1>1. pc = "collect" /\ UNCHANGED victims /\ NextPage /\ GetLastFreeBlock(io)
  BY DEF Moves
<1>2. io \in SUBSET Units /\ GetBlockPanic(io) = "none" /\ blocks' = blocks \cup {t}
  BY MovesBlocks
<1>3. \A k \in 1..Len(victims) : victims[k] # t
  BY <1>1, <1>2, TargetNotVictim
<1>4. Opens = {0} /\ lastFreeBlock'[0] = t
  BY <1>1, <1>2, OneOpen
<1>5. pc' \in {"collect", "io"}
  BY <1>1, NextPageLemma
<1> HIDE DEF io, t
<1>6. OpenBlocksInUse'
  BY <1>2, <1>4 DEF OpenBlocksInUse
<1>7. ~IsVictim(lastFreeBlock[0])'
  BY <1>1, <1>3, <1>4 DEF IsVictim
<1> QED
  BY <1>5, <1>6, <1>7 DEF OpenInv

(* A skipped page is not the one that awaits its move.                     *)
LEMMA SkipsOpen ==
  ASSUME TypeInv, OpenInv, Skips, PageCountToMaxPerf = 1
  PROVE  OpenInv'
<1>1. /\ pc = "collect" /\ NextPage /\ PageInfo(Victim, gcPage) = {}
      /\ UNCHANGED <<valid, blocks, lastFreeBlock, victims>>
  BY DEF Skips, mapVars, poolVars, openVars
<1>2. valid[Victim][gcPage] = {}
  BY <1>1, GeometryAssumption DEF PageInfo, Units
<1>3. /\ gcPage \in Pages /\ gcBlock \in Nat \ {0} /\ Len(victims) \in Nat
      /\ gcBlock <= Len(victims) /\ PagesInBlock \in Nat \ {0}
  BY <1>1, GeometryAssumption DEF TypeInv, TypeOK, GCLoopInRange
<1>4. OpenBlocksInUse'
  BY <1>1, NextPageLemma DEF OpenInv, OpenBlocksInUse
<1>5. ASSUME IsVictim(lastFreeBlock[0])
      PROVE  /\ pc' = "collect"
             /\ \E k \in 1..Len(victims), p \in Pages :
                  victims[k] = lastFreeBlock[0] /\ AwaitsMove(k, p)'
  <2>1. PICK k \in 1..Len(victims), p \in Pages :
               victims[k] = lastFreeBlock[0] /\ AwaitsMove(k, p)
    BY <1>1, <1>5 DEF OpenInv
  <2>2. ~(k = gcBlock /\ p = gcPage)
    BY <1>2, <2>1 DEF AwaitsMove, Victim
  <2>3. p \in Nat /\ p < PagesInBlock /\ k \in Nat /\ k <= Len(victims)
        /\ gcPage \in Nat
    BY <1>3 DEF Pages
  <2>4. k > gcBlock \/ (k = gcBlock /\ p >= gcPage + 1)
    BY <1>3, <2>1, <2>2, <2>3 DEF AwaitsMove
  <2>5. CASE gcPage + 1 < PagesInBlock
    <3>1. gcPage' = gcPage + 1 /\ gcBlock' = gcBlock /\ pc' = pc
      BY <1>1, <2>5 DEF NextPage
    <3>2. AwaitsMove(k, p)'
      BY <1>1, <2>1, <2>4, <3>1 DEF AwaitsMove
    <3> QED
      BY <1>1, <2>1, <3>1, <3>2
  <2>6. CASE ~(gcPage + 1 < PagesInBlock)
    <3>1. k > gcBlock /\ gcBlock < Len(victims)
      BY <1>3, <2>3, <2>4, <2>6
    <3>2. gcPage' = 0 /\ gcBlock' = gcBlock + 1 /\ pc' = pc
      BY <1>1, <2>6, <3>1 DEF NextPage
    <3>3. k > gcBlock + 1 \/ (k = gcBlock + 1 /\ p >= 0)
      BY <1>3, <2>3, <3>1
    <3>4. AwaitsMove(k, p)'
      BY <1>1, <2>1, <3>2, <3>3 DEF AwaitsMove
    <3> QED
      BY <1>1, <2>1, <3>2, <3>4
  <2> QED
    BY <2>5, <2>6
<1>6. pc' \in {"collect", "io"} /\ (IsVictim(lastFreeBlock[0])' <=> IsVictim(lastFreeBlock[0]))
  BY <1>1, NextPageLemma DEF IsVictim
<1> QED
  BY <1>1, <1>4, <1>5, <1>6 DEF OpenInv

(* selectVictimBlock starts the loops before every page.                   *)
LEMMA SelectOpen ==
  ASSUME TypeInv, OpenInv, SelectVictim, PageCountToMaxPerf = 1
  PROVE  OpenInv'
<1>1. /\ pc = "select" /\ gcBlock' = 1 /\ gcPage' = 0
      /\ UNCHANGED <<valid, blocks, lastFreeBlock>>
      /\ pc' \in {"hang", "panic", "idle", "collect"}
  BY DEF SelectVictim, mapVars, poolVars
<1>2. PICK p \in Pages : valid[lastFreeBlock[0]][p] # {}
  BY <1>1 DEF OpenInv
<1>3. victims' \in Seq(Blocks) /\ p >= 0 /\ 0 \in Opens
  BY SelectVictimType, GeometryAssumption DEF TypeInv, TypeOK, Pages, Opens
<1>4. ASSUME IsVictim(lastFreeBlock[0])'
      PROVE  \E k \in 1..Len(victims'), q \in Pages :
               victims'[k] = lastFreeBlock[0]' /\ AwaitsMove(k, q)'
  <2>1. PICK k \in 1..Len(victims') : victims'[k] = lastFreeBlock[0]
    BY <1>1, <1>4 DEF IsVictim
  <2>2. k > 1 \/ (k = 1 /\ p >= 0)
    BY <1>3
  <2>3. AwaitsMove(k, p)'
    BY <1>1, <1>2, <2>1, <2>2 DEF AwaitsMove
  <2> QED
    BY <1>1, <2>1, <2>3
<1>5. OpenBlocksInUse'
  BY <1>1 DEF OpenInv, OpenBlocksInUse
<1> QED
  BY <1>1, <1>4, <1>5 DEF OpenInv

(* Every step keeps the open block in use.                                 *)
LEMMA OpenNext ==
  ASSUME TypeInv, VictimsFull, OpenInv, [Next]_vars, PageCountToMaxPerf = 1,
         "format" \notin Commands
  PROVE  OpenInv'
<1>1. CASE Erases
  <2>1. Victim \in Blocks /\ gcBlock \in 1..Len(victims)
    BY <1>1, VictimLemma DEF Erases, TypeInv, TypeOK, GCLoopInRange
  <2>2. /\ pc = "erase" /\ pc' \in {"erase", "idle"}
        /\ blocks' = blocks \ {Victim}
        /\ UNCHANGED <<valid, lastFreeBlock, victims>>
    BY <1>1 DEF Erases, openVars
  <2>3. ~IsVictim(lastFreeBlock[0]) /\ lastFreeBlock[0] # Victim
    BY <2>1, <2>2 DEF OpenInv, IsVictim, Victim
  <2>4. Opens = {0}
    BY DEF Opens
  <2>5. OpenBlocksInUse'
    BY <2>2, <2>3, <2>4 DEF OpenInv, OpenBlocksInUse
  <2> QED
    BY <2>2, <2>3, <2>5 DEF OpenInv, IsVictim
<1>2. CASE CopyPages
  <2>1. pc = "io" /\ pc' = "erase" /\ UNCHANGED <<valid, blocks, lastFreeBlock, victims>>
    BY <1>2 DEF CopyPages, mapVars, poolVars, openVars
  <2> QED
    BY <2>1 DEF OpenInv, OpenBlocksInUse, IsVictim
<1>3. ASSUME NEW ls \in SUBSET Lpns, Discards(ls)
      PROVE  OpenInv'
  BY <1>3 DEF Discards, poolVars, openVars, OpenInv, OpenBlocksInUse
<1>4. CASE (\E msg : Panic(msg)) \/ FillDone
  BY <1>4 DEF Panic, FillDone, poolVars, openVars, OpenInv, OpenBlocksInUse
<1>5. CASE UNCHANGED vars
  BY <1>5 DEF vars, mapVars, poolVars, openVars, gcVars, OpenInv,
              OpenBlocksInUse, IsVictim, AwaitsMove
<1> QED
  BY <1>1, <1>2, <1>3, <1>4, <1>5, StepCases, WritesOpen, MovesOpen, SkipsOpen,
     SelectOpen

(* With one parallel unit, and without format, a collection never erases   *)
(* the open block, so getLastFreeBlock never meets panic("Corrupted"):     *)
(* even when the open block is chosen as a victim, the write before the    *)
(* collection has left it a page whose move replaces it.                   *)
THEOREM OpenBlockStaysInUse ==
  ASSUME PageCountToMaxPerf = 1, "format" \notin Commands
  PROVE  Spec => []OpenBlocksInUse
<1>1. Init => VictimsFull /\ OpenInv
  BY DEF Init, VictimsFull, OpenInv, OpenBlocksInUse
<1>2. TypeInv /\ VictimsFull /\ OpenInv /\ [Next]_vars => VictimsFull' /\ OpenInv'
  BY VictimsNext, OpenNext
<1>3. OpenInv => OpenBlocksInUse
  BY DEF OpenInv
<1> QED
  BY <1>1, <1>2, <1>3, TypeCorrect, PTL DEF Spec

-----------------------------------------------------------------------------
(* The FTL implements the logical disk                                     *)

(* No two queued copies go to the same unit, and none to a victim, whose   *)
(* content is still to be read.                                            *)
CopiesApart ==
  pc \in {"collect", "io"} =>
    /\ \A c, d \in copies : c.to = d.to => c = d
    /\ \A c \in copies, k \in 1..Len(victims) : c.to[1] # victims[k]

DataInv == MapInv /\ FlashInv /\ VictimsFull /\ CopiesApart

(* Queued copies stay apart: a new one goes to a unit beyond the write     *)
(* pointer of a block that is not a victim.                                *)
LEMMA MovesApart ==
  ASSUME DataInv, Moves
  PROVE  CopiesApart'
<1> DEFINE io == PageInfo(Victim, gcPage)
           t == TargetBlock(io)
<1>1. /\ pc = "collect" /\ UNCHANGED victims
      /\ copies' = copies \cup
            {[from |-> <<Victim, gcPage, i>>, to |-> <<t, nextWrite[t][i], i>>] :
               i \in io}
  BY DEF Moves
<1>2. TypeInv /\ VictimsFull /\ CopiesApart /\ CopiesToErased
  BY DEF DataInv, FlashInv
<1>3. io \in SUBSET Units /\ GetBlockPanic(io) = "none"
  BY <1>2, MovesBlocks
<1>4. \A k \in 1..Len(victims) : victims[k] # t
  BY <1>1, <1>2, <1>3, TargetNotVictim
<1>5. \A i \in Units : nextWrite[t][i] \in Nat
  BY <1>2, <1>3, TargetLemma, GeometryAssumption DEF Pages
<1> HIDE DEF io, t
<1>6. ASSUME NEW c \in copies', c \notin copies
      PROVE  \E i \in io : /\ c = [from |-> <<Victim, gcPage, i>>,
                                   to |-> <<t, nextWrite[t][i], i>>]
                           /\ c.to[1] = t /\ c.to[2] = nextWrite[t][i] /\ c.to[3] = i
  <2>1. PICK i \in io : c = [from |-> <<Victim, gcPage, i>>,
                             to |-> <<t, nextWrite[t][i], i>>]
    BY <1>1, <1>6
  <2> QED
    BY <2>1
<1>7. ASSUME NEW c \in copies, NEW i \in io
      PROVE  c.to # <<t, nextWrite[t][i], i>>
  <2> SUFFICES ASSUME c.to = <<t, nextWrite[t][i], i>>
               PROVE  FALSE
    OBVIOUS
  <2>1. c.to[1] = t /\ c.to[2] = nextWrite[t][i] /\ c.to[3] = i
    OBVIOUS
  <2>2. c.to[2] < nextWrite[c.to[1]][c.to[3]]
    BY <1>2 DEF CopiesToErased
  <2> QED
    BY <1>3, <1>5, <2>1, <2>2
<1>8. ASSUME NEW c \in copies', NEW d \in copies', c.to = d.to
      PROVE  c = d
  <2>1. CASE c \in copies /\ d \in copies
    BY <1>1, <1>2, <1>8, <2>1 DEF CopiesApart
  <2>2. CASE c \in copies /\ d \notin copies
    <3>1. PICK i \in io : d = [from |-> <<Victim, gcPage, i>>,
                               to |-> <<t, nextWrite[t][i], i>>]
      BY <1>6, <2>2
    <3> QED
      BY <1>7, <1>8, <2>2, <3>1
  <2>3. CASE c \notin copies /\ d \in copies
    <3>1. PICK i \in io : c = [from |-> <<Victim, gcPage, i>>,
                               to |-> <<t, nextWrite[t][i], i>>]
      BY <1>6, <2>3
    <3> QED
      BY <1>7, <1>8, <2>3, <3>1
  <2>4. CASE c \notin copies /\ d \notin copies
    <3>1. PICK i \in io : /\ c = [from |-> <<Victim, gcPage, i>>,
                                  to |-> <<t, nextWrite[t][i], i>>]
                          /\ c.to[3] = i
      BY <1>6, <2>4
    <3>2. PICK j \in io : /\ d = [from |-> <<Victim, gcPage, j>>,
                                  to |-> <<t, nextWrite[t][j], j>>]
                          /\ d.to[3] = j
      BY <1>6, <2>4
    <3> QED
      BY <1>8, <3>1, <3>2
  <2> QED
    BY <2>1, <2>2, <2>3, <2>4
<1>9. ASSUME NEW c \in copies', NEW k \in 1..Len(victims)
      PROVE  c.to[1] # victims[k]
  <2>1. CASE c \in copies
    BY <1>1, <1>2, <2>1 DEF CopiesApart
  <2>2. CASE c \notin copies
    BY <1>4, <1>6, <2>2
  <2> QED
    BY <2>1, <2>2
<1> QED
  BY <1>1, <1>8, <1>9 DEF CopiesApart

(* Every step keeps the queued copies apart.                               *)
LEMMA ApartNext ==
  ASSUME DataInv, [Next]_vars, "format" \notin Commands
  PROVE  CopiesApart'
<1>1. TypeInv /\ CopiesInLoop /\ CopiesApart
  BY DEF DataInv, FlashInv
<1>2. CASE SelectVictim
  BY <1>2 DEF SelectVictim, CopiesApart
<1>3. CASE Skips
  BY <1>1, <1>3 DEF Skips, CopiesApart
<1>4. CASE Writes
  BY <1>4 DEF Writes, WriteInternal, CopiesApart
<1>5. ASSUME NEW ls \in SUBSET Lpns, Discards(ls)
      PROVE  CopiesApart'
  BY <1>5 DEF Discards, CopiesApart
<1>6. CASE (\E msg : Panic(msg)) \/ FillDone \/ CopyPages \/ Erases
  BY <1>6 DEF Panic, FillDone, CopyPages, Erases, CopiesApart
<1>7. CASE UNCHANGED vars
  BY <1>1, <1>7 DEF vars, gcVars, CopiesApart
<1> QED
  BY <1>1, <1>2, <1>3, <1>4, <1>5, <1>6, <1>7, StepCases, MovesApart

(* Every step of the FTL keeps the data invariant.                         *)
LEMMA DataNext ==
  ASSUME DataInv, [Next]_vars, IoUnitInPage > 1, "format" \notin Commands
  PROVE  DataInv'
  BY MapInvNext, FlashNext, VictimsNext, ApartNext DEF DataInv, MapInv

(* What a mapped unit points to.                                           *)
LEMMA MappedUnit ==
  ASSUME MapInv, NEW l \in Lpns, NEW i \in Units, table[l][i] # NoAddr
  PROVE  LET b == table[l][i][1]
             p == table[l][i][2]
         IN /\ b \in Blocks /\ p \in Pages /\ table[l][i] = <<b, p>>
            /\ i \in valid[b][p] /\ lpns[b][p][i] = l
            /\ p < nextWrite[b][i]
<1> DEFINE b == table[l][i][1]
           p == table[l][i][2]
<1>1. table[l][i] \in Addrs
  BY DEF MapInv, TypeInv, TypeOK
<1>2. b \in Blocks /\ p \in Pages /\ table[l][i] = <<b, p>>
  BY <1>1 DEF Addrs
<1> HIDE DEF b, p
<1>3. i \in valid[b][p] /\ lpns[b][p][i] = l
  BY <1>2 DEF MapInv, MappedIsValid
<1>4. p < nextWrite[b][i]
  BY <1>2, <1>3 DEF MapInv, ValidIsWritten
<1> QED
  BY <1>2, <1>3, <1>4 DEF b, p

(* A page move changes no page's content.                                  *)
LEMMA MovesRead ==
  ASSUME DataInv, Moves, IoUnitInPage > 1, CopiesApart',
         NEW l \in Lpns, NEW i \in Units
  PROVE  ReadBack(l, i)' = ReadBack(l, i)
<1> DEFINE io == PageInfo(Victim, gcPage)
           owner == lpns[Victim][gcPage]
           t == TargetBlock(io)
<1>1. /\ pc = "collect" /\ UNCHANGED <<victims, flash>> /\ NextPage
      /\ table' = [m \in Lpns |-> [j \in Units |->
            IF j \in io /\ owner[j] = m THEN <<t, nextWrite[t][j]>>
                                        ELSE table[m][j]]]
      /\ copies' = copies \cup
            {[from |-> <<Victim, gcPage, j>>, to |-> <<t, nextWrite[t][j], j>>] :
               j \in io}
  BY DEF Moves
<1>2. MapInv /\ TypeInv /\ VictimsFull /\ CopiesApart
  BY DEF DataInv, FlashInv
<1>3. /\ Victim \in Blocks /\ gcPage \in Pages
      /\ gcBlock \in 1..Len(victims) /\ Victim = victims[gcBlock]
  BY <1>1, <1>2, VictimLemma DEF TypeInv, TypeOK, GCLoopInRange, Victim
<1>4. io = valid[Victim][gcPage]
  BY GeometryAssumption DEF PageInfo
<1>5. /\ io \in SUBSET Units
      /\ t \in Blocks /\ (\A j \in Units : nextWrite[t][j] \in Pages)
  BY <1>2, MovesBlocks, TargetLemma
<1> HIDE DEF io, owner, t
<1>6. CASE i \in io /\ owner[i] = l
  <2>1. PICK vb \in Blocks, vp \in Pages : vb = Victim /\ vp = gcPage
    BY <1>3
  <2>2. PICK tb \in Blocks, tp \in Pages : tb = t /\ tp = nextWrite[t][i]
    BY <1>5
  <2>3. table[l][i] = <<vb, vp>>
    BY <1>2, <1>3, <1>4, <1>6, <2>1 DEF MapInv, ValidIsMapped, owner
  <2>4. table'[l][i] = <<tb, tp>>
    BY <1>1, <1>6, <2>2
  <2>5. \A b \in Blocks, p \in Pages : <<b, p>> # NoAddr
    <3>1. \A b \in Blocks : b # TotalPhysicalBlocks
      BY GeometryAssumption DEF Blocks
    <3> QED
      BY <3>1 DEF NoAddr
  <2>6. ReadBack(l, i) = Content(vb, vp, i) /\ ReadBack(l, i)' = Content(tb, tp, i)'
    BY <2>3, <2>4, <2>5 DEF ReadBack
  <2>7. Content(vb, vp, i) = flash[vb][vp][i]
    <3>1. \A c \in copies : c.to[1] # vb
      BY <1>1, <1>2, <1>3, <2>1 DEF CopiesApart
    <3>2. \A c \in copies : c.to # <<vb, vp, i>>
      BY <3>1
    <3> QED
      BY <3>2 DEF Content
  <2>8. Content(tb, tp, i)' = flash[vb][vp][i]
    <3> DEFINE c == [from |-> <<vb, vp, i>>, to |-> <<tb, tp, i>>]
    <3>1. c \in copies' /\ c.to = <<tb, tp, i>>
      BY <1>1, <1>6, <2>1, <2>2
    <3>2. pc' \in {"collect", "io"}
      BY <1>1, <1>2, NextPageLemma
    <3>3. \A d \in copies' : d.to = c.to => d = c
      BY <3>1, <3>2 DEF CopiesApart
    <3>4. c.from[1] = vb /\ c.from[2] = vp /\ c.from[3] = i
      OBVIOUS
    <3> HIDE DEF c
    <3>5. (CHOOSE d \in copies' : d.to = <<tb, tp, i>>) = c
      BY <3>1, <3>3
    <3>6. \E d \in copies' : d.to = <<tb, tp, i>>
      BY <3>1
    <3> QED
      BY <1>1, <3>4, <3>5, <3>6 DEF Content
  <2> QED
    BY <2>6, <2>7, <2>8
<1>7. CASE ~(i \in io /\ owner[i] = l)
  <2>1. table'[l][i] = table[l][i]
    BY <1>1, <1>7
  <2>2. CASE table[l][i] = NoAddr
    BY <2>1, <2>2 DEF ReadBack
  <2>3. CASE table[l][i] # NoAddr
    <3>1. PICK b \in Blocks, p \in Pages :
                 table[l][i] = <<b, p>> /\ p < nextWrite[b][i]
      BY <1>2, <2>3, MappedUnit
    <3>2. p \in Nat
      BY <3>1, GeometryAssumption DEF Pages
    <3>3. \A j \in io : <<t, nextWrite[t][j], j>> # <<b, p, i>>
      <4> SUFFICES ASSUME NEW j \in io, <<t, nextWrite[t][j], j>> = <<b, p, i>>
                   PROVE  FALSE
        OBVIOUS
      <4>1. t = b /\ nextWrite[t][j] = p /\ j = i
        OBVIOUS
      <4> QED
        BY <3>1, <3>2, <4>1
    <3>4. \A c : c.to = <<b, p, i>> => (c \in copies' <=> c \in copies)
      BY <1>1, <3>3
    <3>5. (CHOOSE c \in copies' : c.to = <<b, p, i>>)
            = (CHOOSE c \in copies : c.to = <<b, p, i>>)
      BY <3>4
    <3>6. (\E c \in copies' : c.to = <<b, p, i>>) <=> (\E c \in copies : c.to = <<b, p, i>>)
      BY <3>4
    <3>7. Content(b, p, i)' = Content(b, p, i)
      BY <1>1, <3>5, <3>6 DEF Content
    <3> QED
      BY <2>1, <3>1, <3>7 DEF ReadBack
  <2> QED
    BY <2>2, <2>3
<1> QED
  BY <1>6, <1>7

(* A collection's flash I/O brings every page's content to its new place.  *)
LEMMA CopyPagesRead ==
  ASSUME DataInv, CopyPages, NEW l \in Lpns, NEW i \in Units
  PROVE  ReadBack(l, i)' = ReadBack(l, i)
<1>1. /\ copies' = {} /\ UNCHANGED table
      /\ flash' = [b \in Blocks |-> [p \in Pages |-> [j \in Units |->
                     Content(b, p, j)]]]
  BY DEF CopyPages, mapVars
<1>2. CASE table[l][i] = NoAddr
  BY <1>1, <1>2 DEF ReadBack
<1>3. CASE table[l][i] # NoAddr
  <2>1. PICK b \in Blocks, p \in Pages : table[l][i] = <<b, p>>
    BY <1>3, MappedUnit DEF DataInv
  <2>2. Content(b, p, i)' = flash'[b][p][i]
    BY <1>1 DEF Content
  <2>3. flash'[b][p][i] = Content(b, p, i)
    BY <1>1
  <2> QED
    BY <1>1, <2>1, <2>2, <2>3 DEF ReadBack
<1> QED
  BY <1>2, <1>3

(* An erase takes no page's content: nothing maps into its block.          *)
LEMMA ErasesRead ==
  ASSUME DataInv, Erases, NEW l \in Lpns, NEW i \in Units
  PROVE  ReadBack(l, i)' = ReadBack(l, i)
<1>1. /\ UNCHANGED <<table, copies>>
      /\ flash' = [flash EXCEPT ![Victim] =
                     [p \in Pages |-> [j \in Units |-> NoData]]]
      /\ \A p \in Pages : valid[Victim][p] = {}
  BY DEF Erases
<1>2. copies = {}
  BY DEF Erases, DataInv, FlashInv, CopiesInLoop
<1>3. CASE table[l][i] = NoAddr
  BY <1>1, <1>3 DEF ReadBack
<1>4. CASE table[l][i] # NoAddr
  <2>1. PICK b \in Blocks, p \in Pages : table[l][i] = <<b, p>> /\ i \in valid[b][p]
    BY <1>4, MappedUnit DEF DataInv
  <2>2. flash'[b] = flash[b]
    BY <1>1, <2>1 DEF DataInv, FlashInv, TypeInv, TypeOK
  <2>3. Content(b, p, i)' = flash'[b][p][i] /\ Content(b, p, i) = flash[b][p][i]
    BY <1>1, <1>2 DEF Content
  <2> QED
    BY <1>1, <2>1, <2>2, <2>3 DEF ReadBack
<1> QED
  BY <1>3, <1>4

(* A write of the host or of the warm-up changes the units it names.       *)
LEMMA WritesRead ==
  ASSUME DataInv, Writes
  PROVE  \E l \in Lpns, io \in SUBSET Units, d \in Data :
           \A m \in Lpns, i \in Units :
             ReadBack(m, i)' = IF m = l /\ i \in io THEN d ELSE ReadBack(m, i)
<1>1. PICK l \in Lpns, io \in IoFlags, d \in Data,
           next \in {"fill", "idle", "select"} :
             /\ GetBlockPanic(io) = "none"
             /\ WriteInternal(l, io, d, next)
  BY DEF Writes
<1>2. TypeInv /\ MapInv /\ io \in SUBSET Units /\ copies = {}
  BY DEF IoFlags, Writes, DataInv, FlashInv, CopiesInLoop
<1>3. PICK t \in Blocks : t = TargetBlock(io)
  BY <1>1, <1>2, TargetLemma
<1>4. \A i \in Units : nextWrite[t][i] \in Pages
  BY <1>1, <1>2, <1>3, TargetLemma
<1>5. /\ table' = [table EXCEPT ![l] =
            [i \in Units |-> IF i \in io THEN <<t, nextWrite[t][i]>>
                                         ELSE table[l][i]]]
      /\ flash' = [flash EXCEPT ![t] = [p \in Pages |-> [i \in Units |->
            IF i \in io /\ p = nextWrite[t][i] THEN d ELSE flash[t][p][i]]]]
      /\ UNCHANGED copies
  BY <1>1, <1>3 DEF WriteInternal, gcVars
<1>6. \A m \in Lpns, i \in Units :
        table'[m][i] = IF m = l /\ i \in io THEN <<t, nextWrite[t][i]>>
                       ELSE table[m][i]
  BY <1>2, <1>5 DEF TypeInv, TypeOK
<1>7. \A b \in Blocks, p \in Pages, i \in Units :
        flash'[b][p][i] = IF b = t /\ i \in io /\ p = nextWrite[t][i] THEN d
                          ELSE flash[b][p][i]
  BY <1>2, <1>5 DEF TypeInv, TypeOK
<1>8. ASSUME NEW b \in Blocks, NEW p \in Pages, NEW i \in Units
      PROVE  Content(b, p, i) = flash[b][p][i] /\ Content(b, p, i)' = flash'[b][p][i]
  BY <1>2, <1>5 DEF Content
<1>9. ASSUME NEW m \in Lpns, NEW i \in Units
      PROVE  ReadBack(m, i)' = IF m = l /\ i \in io THEN d ELSE ReadBack(m, i)
  <2>1. CASE m = l /\ i \in io
    <3>1. PICK p \in Pages : p = nextWrite[t][i]
      BY <1>4
    <3>2. table'[m][i] = <<t, p>>
      BY <1>6, <2>1, <3>1
    <3>3. <<t, p>> # NoAddr
      <4>1. t # TotalPhysicalBlocks
        BY GeometryAssumption DEF Blocks
      <4> QED
        BY <4>1 DEF NoAddr
    <3>4. ReadBack(m, i)' = Content(t, p, i)'
      BY <3>2, <3>3 DEF ReadBack
    <3> QED
      BY <1>7, <1>8, <2>1, <3>1, <3>4
  <2>2. CASE ~(m = l /\ i \in io) /\ table[m][i] = NoAddr
    BY <1>6, <2>2 DEF ReadBack
  <2>3. CASE ~(m = l /\ i \in io) /\ table[m][i] # NoAddr
    <3>1. PICK b \in Blocks, p \in Pages :
                 table[m][i] = <<b, p>> /\ p < nextWrite[b][i]
      BY <1>2, <2>3, MappedUnit
    <3>2. p \in Nat
      BY <3>1, GeometryAssumption DEF Pages
    <3>3. flash'[b][p][i] = flash[b][p][i]
      BY <1>7, <3>1, <3>2
    <3>4. table'[m][i] = table[m][i]
      BY <1>6, <2>3
    <3> QED
      BY <1>8, <2>3, <3>1, <3>3, <3>4 DEF ReadBack
  <2> QED
    BY <2>1, <2>2, <2>3
<1> QED
  BY <1>2, <1>9

(* A trim or a format empties the pages of its range.                      *)
LEMMA DiscardsRead ==
  ASSUME DataInv, NEW ls \in SUBSET Lpns, Discards(ls),
         NEW m \in Lpns, NEW i \in Units
  PROVE  ReadBack(m, i)' = IF m \in ls THEN NoData ELSE ReadBack(m, i)
<1>1. /\ UNCHANGED flash
      /\ table' = [l \in Lpns |-> IF l \in ls THEN [j \in Units |-> NoAddr]
                                  ELSE table[l]]
  BY DEF Discards, Unmap
<1>2. copies = {} /\ copies' = {}
  BY DEF Discards, DataInv, FlashInv, CopiesInLoop, gcVars
<1>3. CASE m \in ls
  BY <1>1, <1>3 DEF ReadBack
<1>4. CASE m \notin ls /\ table[m][i] = NoAddr
  BY <1>1, <1>4 DEF ReadBack
<1>5. CASE m \notin ls /\ table[m][i] # NoAddr
  <2>1. PICK b \in Blocks, p \in Pages : table[m][i] = <<b, p>>
    BY <1>5, MappedUnit DEF DataInv
  <2>2. Content(b, p, i)' = Content(b, p, i)
    BY <1>1, <1>2 DEF Content
  <2> QED
    BY <1>1, <1>5, <2>1, <2>2 DEF ReadBack
<1> QED
  BY <1>3, <1>4, <1>5

(* A panic, the end of the warm-up, a victim selection and a skipped page  *)
(* change no page's content.                                               *)
LEMMA QuietRead ==
  ASSUME DataInv,
         \/ \E msg : Panic(msg)
         \/ FillDone \/ SelectVictim \/ Skips \/ UNCHANGED vars,
         NEW l \in Lpns, NEW i \in Units
  PROVE  ReadBack(l, i)' = ReadBack(l, i)
<1>1. UNCHANGED <<table, flash>>
  BY DEF Panic, FillDone, SelectVictim, Skips, vars, mapVars
<1>2. UNCHANGED copies
  <2>1. CASE SelectVictim
    BY <2>1 DEF SelectVictim, DataInv, FlashInv, CopiesInLoop
  <2>2. CASE ~SelectVictim
    BY <2>2 DEF Panic, FillDone, Skips, vars, gcVars
  <2> QED
    BY <2>1, <2>2
<1>3. CASE table[l][i] = NoAddr
  BY <1>1, <1>3 DEF ReadBack
<1>4. CASE table[l][i] # NoAddr
  <2>1. PICK b \in Blocks, p \in Pages : table[l][i] = <<b, p>>
    BY <1>4, MappedUnit DEF DataInv
  <2>2. Content(b, p, i)' = Content(b, p, i)
    BY <1>1, <1>2 DEF Content
  <2> QED
    BY <1>1, <1>4, <2>1, <2>2 DEF ReadBack
<1> QED
  BY <1>3, <1>4

(* The state the logical disk sees.                                        *)
DiskState  == [l \in Lpns |-> [i \in Units |-> ReadBack(l, i)]]
DiskReady  == pc \in {"fill", "idle"}

(* Every step of the FTL is a step of the logical disk: one case per step. *)
LEMMA DiskNext ==
  ASSUME DataInv, [Next]_vars, IoUnitInPage > 1, "format" \notin Commands
  PROVE  Disk!Next
<1> USE DEF DiskState, DiskReady
<1>1. ASSUME \A l \in Lpns, i \in Units : ReadBack(l, i)' = ReadBack(l, i)
      PROVE  Disk!Next
  <2>1. DiskState' = DiskState /\ DiskReady' \in BOOLEAN
    BY <1>1
  <2> QED
    BY <2>1 DEF Disk!Next, Disk!Housekeep
<1>2. CASE Writes
  <2>1. PICK l \in Lpns, io \in SUBSET Units, d \in Data :
               \A m \in Lpns, i \in Units :
                 ReadBack(m, i)' = IF m = l /\ i \in io THEN d ELSE ReadBack(m, i)
    BY <1>2, WritesRead
  <2>2. DiskState' = [DiskState EXCEPT ![l] =
                        [i \in Units |-> IF i \in io THEN d ELSE DiskState[l][i]]]
    BY <2>1
  <2>3. DiskReady /\ DiskReady' \in BOOLEAN
    BY <1>2 DEF Writes
  <2>4. Disk!Write(l, io, d)
    BY <2>2, <2>3 DEF Disk!Write
  <2> QED
    BY <2>4 DEF Disk!Next
<1>3. ASSUME NEW ls \in SUBSET Lpns, Discards(ls)
      PROVE  Disk!Next
  <2>1. \A m \in Lpns, i \in Units :
          ReadBack(m, i)' = IF m \in ls THEN NoData ELSE ReadBack(m, i)
    BY <1>3, DiscardsRead
  <2>2. DiskState' = [l \in Lpns |-> IF l \in ls THEN [i \in Units |-> NoData]
                                     ELSE DiskState[l]]
    BY <2>1
  <2>3. DiskReady /\ DiskReady' \in BOOLEAN
    BY <1>3 DEF Discards
  <2>4. Disk!Discard(ls)
    BY <2>2, <2>3 DEF Disk!Discard
  <2> QED
    BY <2>4 DEF Disk!Next
<1>4. CASE Moves
  BY <1>1, <1>4, MovesRead, ApartNext
<1>5. CASE CopyPages
  BY <1>1, <1>5, CopyPagesRead
<1>6. CASE Erases
  BY <1>1, <1>6, ErasesRead
<1>7. CASE \/ \E msg : Panic(msg)
           \/ FillDone \/ SelectVictim \/ Skips \/ UNCHANGED vars
  BY <1>1, <1>7, QuietRead
<1> QED
  BY <1>2, <1>3, <1>4, <1>5, <1>6, <1>7, StepCases DEF DataInv, MapInv

(* The constructor leaves an empty disk.                                   *)
LEMMA DiskInit == Init => DataInv /\ Disk!Init
<1> SUFFICES ASSUME Init PROVE DataInv /\ Disk!Init
  OBVIOUS
<1>1. pc = "fill" /\ table = [l \in Lpns |-> [i \in Units |-> NoAddr]]
  BY DEF Init
<1>2. DataInv
  BY <1>1, MapInvInit, FlashInit DEF DataInv, VictimsFull, CopiesApart
<1>3. \A l \in Lpns, i \in Units : ReadBack(l, i) = NoData
  BY <1>1 DEF ReadBack
<1> QED
  BY <1>1, <1>2, <1>3 DEF Disk!Init

(* What the mapping and the flash hold between commands, and what the      *)
(* queue of copies will make of them during a collection.                  *)
THEOREM DataKept ==
  ASSUME IoUnitInPage > 1, "format" \notin Commands
  PROVE  Spec => []DataInv
<1>1. DataInv /\ [Next]_vars => DataInv'
  BY DataNext
<1> QED
  BY <1>1, DiskInit, PTL DEF Spec

(* Without format, and with pages of more than one I/O unit, the FTL is a  *)
(* logical disk: writes and trims have exactly their effect, and victim    *)
(* selection, page moves, the copies' I/O and the erases have none, under  *)
(* every policy and however collections and commands follow each other.    *)
THEOREM FtlIsALogicalDisk ==
  ASSUME IoUnitInPage > 1, "format" \notin Commands
  PROVE  Spec => ImplementsLogicalDisk
<1>1. DataInv /\ [Next]_vars => Disk!Next
  BY DiskNext
<1> QED
  BY <1>1, DiskInit, DataKept, PTL DEF Spec, ImplementsLogicalDisk, Disk!Spec

-----------------------------------------------------------------------------
(* The warm-up                                                             *)

(* The pages handed out so far.  The warm-up writes whole pages, so every  *)
(* column of a block is as far as the first.                               *)
Written == {s \in Blocks \X Pages : s[2] < nextWrite[s[1]][0]}

FilledUp == {b \in blocks : nextWrite[b][0] = PagesInBlock}
OpenSet  == {lastFreeBlock[o] : o \in Opens}

(* One page per write, a block is in use or free, a block that is no       *)
(* longer open is full.                                                    *)
FillCount ==
  pc = "fill" =>
    /\ \A b \in Blocks, i \in Units : nextWrite[b][i] = nextWrite[b][0]
    /\ Cardinality(Written) = filled
    /\ Cardinality(blocks) + Len(freeBlocks) = TotalPhysicalBlocks
    /\ blocks \subseteq FilledUp \cup OpenSet

FillInv == TypeInv /\ FillCount /\ FillNeverCollects

(* Columns are numbered from 0.                                            *)
LEMMA ColumnZero == 0 \in Units
  BY GeometryAssumption DEF Units

(* Products with a common factor.                                          *)
LEMMA TimesMonotone ==
  ASSUME NEW k \in Nat, NEW a \in Int, NEW b \in Int, a <= b
  PROVE  k * a <= k * b
<1>1. k * b = k * a + k * (b - a)
  OBVIOUS
<1>2. k * (b - a) >= 0 /\ k * (b - a) \in Int /\ k * a \in Int
  OBVIOUS
<1> QED
  BY <1>1, <1>2

(* The numbers below n are n.                                              *)
LEMMA Below ==
  ASSUME NEW n \in Nat \ {0}
  PROVE  IsFiniteSet(0..(n - 1)) /\ Cardinality(0..(n - 1)) = n
<1>1. n - 1 \in Int /\ ~(0 > n - 1)
  OBVIOUS
<1>2. /\ IsFiniteSet(0..(n - 1))
      /\ Cardinality(0..(n - 1)) = IF 0 > n - 1 THEN 0 ELSE (n - 1) - 0 + 1
  BY <1>1, FS_Interval
<1> QED
  BY <1>1, <1>2

(* The sets the count is about are finite.                                 *)
LEMMA FillFinite ==
  ASSUME TypeInv
  PROVE  /\ IsFiniteSet(Written) /\ IsFiniteSet(blocks)
         /\ IsFiniteSet(FilledUp) /\ IsFiniteSet(OpenSet)
         /\ Cardinality(OpenSet) <= PageCountToMaxPerf
<1>1. IsFiniteSet(Blocks) /\ IsFiniteSet(Pages) /\ IsFiniteSet(Opens)
      /\ Cardinality(Opens) = PageCountToMaxPerf
  <2>1. TotalPhysicalBlocks \in Nat \ {0}
    BY GeometryAssumption
  <2> QED
    BY <2>1, Below, GeometryAssumption DEF Blocks, Pages, Opens
<1>2. IsFiniteSet(Blocks \X Pages)
  BY <1>1, FS_Product
<1>3. IsFiniteSet(Written)
  BY <1>2, FS_Subset DEF Written
<1>4. IsFiniteSet(blocks) /\ IsFiniteSet(FilledUp)
  BY BlocksFinite DEF TypeInv, TypeOK, FilledUp
<1>5. lastFreeBlock \in Surjection(Opens, OpenSet)
  BY DEF Surjection, OpenSet, TypeInv, TypeOK
<1>6. IsFiniteSet(OpenSet) /\ Cardinality(OpenSet) <= Cardinality(Opens)
  BY <1>1, <1>5, FS_Surjection
<1> QED
  BY <1>1, <1>3, <1>4, <1>6

(* A full block accounts for pagesInBlock of the pages written.            *)
LEMMA FullBlocksCount ==
  ASSUME TypeInv
  PROVE  /\ Cardinality(FilledUp) \in Nat
         /\ PagesInBlock * Cardinality(FilledUp) <= Cardinality(Written)
<1>1. FilledUp \X Pages \in SUBSET Written
  <2> SUFFICES ASSUME NEW b \in FilledUp, NEW p \in Pages
               PROVE  <<b, p>> \in Written
    OBVIOUS
  <2>1. b \in Blocks /\ nextWrite[b][0] = PagesInBlock /\ p < PagesInBlock
    BY GeometryAssumption DEF FilledUp, TypeInv, TypeOK, Pages
  <2> QED
    BY <2>1 DEF Written
<1>2. IsFiniteSet(Pages) /\ Cardinality(Pages) = PagesInBlock
  BY Below, GeometryAssumption DEF Pages
<1>3. IsFiniteSet(FilledUp) /\ IsFiniteSet(Written)
  BY FillFinite
<1>4. Cardinality(FilledUp \X Pages) = Cardinality(FilledUp) * PagesInBlock
  BY <1>2, <1>3, FS_Product
<1>5. Cardinality(FilledUp \X Pages) <= Cardinality(Written)
  BY <1>1, <1>3, FS_Subset
<1>6. Cardinality(FilledUp) \in Nat /\ PagesInBlock \in Nat
  BY <1>3, FS_CardinalityType, GeometryAssumption
<1> QED
  BY <1>4, <1>5, <1>6

(* A write of the warm-up that takes the free list below the threshold     *)
(* comes after maxPagesBeforeGC pages.                                     *)
LEMMA GCOnlyBeyondLimit ==
  ASSUME TypeInv, FillCount, pc = "fill", GetBlockPanic(Units) = "none",
         GCNeeded(Units)
  PROVE  filled > MaxPagesBeforeGC
<1> DEFINE F == Cardinality(FilledUp)
           O == Cardinality(OpenSet)
           B == Cardinality(blocks)
           I == Cardinality(FilledUp \cap OpenSet)
           K == TotalPhysicalBlocks - GCThreshold - PageCountToMaxPerf
<1>1. /\ IsFiniteSet(FilledUp) /\ IsFiniteSet(OpenSet) /\ IsFiniteSet(blocks)
      /\ O <= PageCountToMaxPerf
  BY FillFinite
<1>2. F \in Nat /\ O \in Nat /\ B \in Nat
  BY <1>1, FS_CardinalityType
<1>3. /\ IsFiniteSet(FilledUp \cup OpenSet)
      /\ Cardinality(FilledUp \cup OpenSet) = F + O - I
  BY <1>1, FS_Union
<1>4. B <= F + O - I
  BY <1>3, FS_Subset DEF FillCount
<1>5. I \in Nat
  BY <1>1, FS_Intersection, FS_CardinalityType
<1>6. K \in Int
  BY GeometryAssumption, PolicyAssumption
<1>7. ASSUME OpenIsFull(Units)
      PROVE  F >= K + 1
  <2>1. /\ OpenIndex(Units) \in Opens /\ OpenBlock(Units) \in Blocks
        /\ OpenBlock(Units) \in blocks
    BY TargetLemma DEF GetBlockPanic, OpenBlock, TypeInv, TypeOK
  <2>2. OpenBlock(Units) \in FilledUp
    BY <1>7, <2>1, ColumnZero DEF OpenIsFull, IsFull, FillCount, FilledUp
  <2>3. OpenBlock(Units) \in FilledUp \cap OpenSet
    BY <2>1, <2>2 DEF OpenSet, OpenBlock
  <2>4. I # 0
    BY <1>1, <2>3, FS_Intersection, FS_EmptySet
  <2>5. Len(freeBlocks) <= GCThreshold
    BY <1>7, PolicyAssumption DEF GCNeeded, nFreeBlocks, TypeInv, TypeOK
  <2>6. B >= TotalPhysicalBlocks - GCThreshold
    BY <1>2, <2>5, GeometryAssumption, PolicyAssumption
       DEF FillCount, TypeInv, TypeOK
  <2> QED
    BY <1>1, <1>2, <1>4, <1>5, <2>4, <2>6, GeometryAssumption, PolicyAssumption
<1>8. ASSUME ~OpenIsFull(Units)
      PROVE  F >= K + 1
  <2>1. Len(freeBlocks) < GCThreshold /\ Len(freeBlocks) \in Nat
    BY <1>8, PolicyAssumption DEF GCNeeded, nFreeBlocks, TypeInv, TypeOK
  <2>2. B >= TotalPhysicalBlocks - GCThreshold + 1
    BY <1>2, <2>1, GeometryAssumption, PolicyAssumption DEF FillCount
  <2> QED
    BY <1>1, <1>2, <1>4, <1>5, <2>2, GeometryAssumption, PolicyAssumption
<1>9. F >= K + 1
  BY <1>7, <1>8
<1> HIDE DEF F, K
<1>10. PagesInBlock * (K + 1) <= PagesInBlock * F
  BY <1>2, <1>9, <1>6, TimesMonotone, GeometryAssumption
<1>11. PagesInBlock * F <= filled
  BY FullBlocksCount DEF FillCount, F
<1>12. PagesInBlock * (K + 1) = PagesInBlock * K + PagesInBlock
  BY <1>6, GeometryAssumption
<1>13. PagesInBlock * K \in Int /\ PagesInBlock * F \in Int
  BY <1>2, <1>6, GeometryAssumption
<1>14. filled \in Nat /\ PagesInBlock \in Nat \ {0}
  BY GeometryAssumption DEF TypeInv, TypeOK
<1> QED
  BY <1>10, <1>11, <1>12, <1>13, <1>14 DEF MaxPagesBeforeGC, K

(* A write of the warm-up hands out one page and keeps the count.          *)
LEMMA FillWrites ==
  ASSUME TypeInv, FillCount, pc = "fill", NEW l \in Lpns, NEW d \in Data,
         GetBlockPanic(Units) = "none", WriteInternal(l, Units, d, "fill"),
         filled' = filled + 1
  PROVE  FillCount'
<1> DEFINE t == TargetBlock(Units)
           x == OpenIndex(Units)
<1>1. /\ t \in Blocks /\ (\A i \in Units : nextWrite[t][i] \in Pages)
      /\ x \in Opens
      /\ OpenIsFull(Units) => FreePosition(x) \in 1..Len(freeBlocks)
  BY TargetLemma
<1>2. /\ GetLastFreeBlock(Units)
      /\ Program(t, Units, [i \in Units |-> l])
  BY DEF WriteInternal
<1>3. blocks' = blocks \cup {t}
  BY <1>2, PoolLemma
<1>4. \A b \in Blocks, i \in Units :
        /\ nextWrite[b][i] \in Nat
        /\ nextWrite'[b][i] = IF b = t THEN nextWrite[b][i] + 1
                              ELSE nextWrite[b][i]
  <2>1. Units \in SUBSET Units
    OBVIOUS
  <2> HIDE DEF t
  <2>2. \A b \in Blocks, i \in Units :
          /\ nextWrite[b][i] \in Nat
          /\ nextWrite'[b][i] = IF b = t /\ i \in Units THEN nextWrite[b][i] + 1
                                ELSE nextWrite[b][i]
    BY <1>1, <1>2, <2>1, ProgramPointers
  <2> QED
    BY <2>2
<1>5. \A b \in Blocks, i \in Units : nextWrite'[b][i] = nextWrite'[b][0]
  BY <1>4, ColumnZero DEF FillCount
<1>6. Cardinality(Written') = filled'
  <2> DEFINE s == <<t, nextWrite[t][0]>>
  <2>1. s \in Blocks \X Pages /\ s \notin Written
    <3>1. nextWrite[t][0] \in Pages /\ nextWrite[t][0] \in Nat
      BY <1>1, <1>4, ColumnZero
    <3>2. ~(nextWrite[t][0] < nextWrite[t][0])
      BY <3>1
    <3> QED
      BY <1>1, <3>1, <3>2 DEF Written
  <2>2. \A b \in Blocks, p \in Pages :
          <<b, p>> \in Written' <=> <<b, p>> \in Written \/ <<b, p>> = s
    <3>1. \A p \in Pages : p \in Nat
      BY GeometryAssumption DEF Pages
    <3> QED
      BY <1>4, <3>1, ColumnZero DEF Written
  <2>3. Written' = Written \cup {s}
    BY <2>1, <2>2 DEF Written
  <2> HIDE DEF s
  <2>4. Cardinality(Written \cup {s}) = Cardinality(Written) + 1
    BY <2>1, FillFinite, FS_AddElement
  <2> QED
    BY <2>3, <2>4 DEF FillCount
<1>7. CASE OpenIsFull(Units)
  <2>1. /\ freeBlocks' = RemoveAt(freeBlocks, FreePosition(x))
        /\ t = freeBlocks[FreePosition(x)]
        /\ lastFreeBlock' = [lastFreeBlock EXCEPT ![x] = t]
    BY <1>2, <1>7 DEF GetLastFreeBlock, FreeBlocksWithout, TargetBlock
  <2>2. t \notin blocks
    BY <1>1, <1>7, <2>1 DEF TypeInv, FreeListSound
  <2>3. Cardinality(blocks') = Cardinality(blocks) + 1
    BY <1>3, <2>2, FillFinite, FS_AddElement
  <2>4. Len(freeBlocks') = Len(freeBlocks) - 1 /\ Len(freeBlocks) \in Nat
    <3>1. freeBlocks \in Seq(Blocks)
      BY DEF TypeInv, TypeOK
    <3> QED
      BY <1>1, <1>7, <2>1, <3>1, RemoveAtLemma
  <2>5. Cardinality(blocks) \in Nat
    BY FillFinite, FS_CardinalityType
  <2>6. Cardinality(blocks') + Len(freeBlocks') = TotalPhysicalBlocks
    BY <2>3, <2>4, <2>5, GeometryAssumption DEF FillCount
  <2>7. OpenBlock(Units) \in FilledUp
    <3>1. OpenBlock(Units) \in blocks /\ OpenBlock(Units) \in Blocks
      BY <1>1 DEF GetBlockPanic, OpenBlock, TypeInv, TypeOK
    <3> QED
      BY <1>7, <3>1 DEF OpenIsFull, IsFull, FillCount, FilledUp
  <2>8. ASSUME NEW b \in blocks', b # t
        PROVE  b \in (FilledUp \cup OpenSet)'
    <3>1. b \in blocks /\ b \in Blocks
      BY <1>3, <2>8 DEF TypeInv, TypeOK
    <3>2. CASE b \in FilledUp
      BY <1>4, <2>8, <3>1, <3>2, ColumnZero DEF FilledUp
    <3>3. CASE b \notin FilledUp
      <4>1. PICK o \in Opens : b = lastFreeBlock[o]
        BY <3>1, <3>3 DEF FillCount, OpenSet
      <4>2. o # x
        BY <2>7, <3>3, <4>1 DEF OpenBlock
      <4>3. lastFreeBlock'[o] = b
        BY <2>1, <4>1, <4>2 DEF TypeInv, TypeOK
      <4> QED
        BY <4>3 DEF OpenSet
    <3> QED
      BY <3>2, <3>3
  <2>9. t \in OpenSet'
    <3>1. lastFreeBlock'[x] = t
      BY <1>1, <2>1 DEF TypeInv, TypeOK
    <3> QED
      BY <1>1, <3>1 DEF OpenSet
  <2>10. blocks' \subseteq (FilledUp \cup OpenSet)'
    BY <2>8, <2>9
  <2> QED
    BY <1>5, <1>6, <2>6, <2>10 DEF FillCount
<1>8. CASE ~OpenIsFull(Units)
  <2>1. /\ UNCHANGED <<blocks, freeBlocks, lastFreeBlock>>
        /\ t = lastFreeBlock[x]
    BY <1>2, <1>8 DEF GetLastFreeBlock, TargetBlock, OpenBlock
  <2>2. ASSUME NEW b \in blocks'
        PROVE  b \in (FilledUp \cup OpenSet)'
    <3>1. b \in blocks /\ b \in Blocks
      BY <2>1 DEF TypeInv, TypeOK
    <3>2. CASE b \in OpenSet
      BY <2>1, <3>2 DEF OpenSet
    <3>3. CASE b \notin OpenSet
      <4>1. b # t /\ b \in FilledUp
        BY <1>1, <2>1, <3>1, <3>3 DEF OpenSet, FillCount
      <4> QED
        BY <1>4, <2>1, <3>1, <4>1, ColumnZero DEF FilledUp
    <3> QED
      BY <3>2, <3>3
  <2> QED
    BY <1>5, <1>6, <2>1, <2>2 DEF FillCount
<1> QED
  BY <1>7, <1>8

(* Once the warm-up is over, no panic is that of a collection in it.       *)
LEMMA OtherPanics ==
  ASSUME Next, pc # "fill"
  PROVE  \/ UNCHANGED panic
         \/ panic' \in {"Corrupted", "No free block left", "Block is not in use",
                        "Invalid block", "Invalid mapping table entry",
                        "No such block", "There are valid pages in victim block",
                        "none"}
<1>1. \A io : GetBlockPanic(io) \in {"Corrupted", "No free block left", "none"}
  BY DEF GetBlockPanic
<1>2. ASSUME NEW l \in Lpns, NEW io \in IoFlags, NEW d \in Data, Write(l, io, d)
      PROVE  UNCHANGED panic \/ panic' \in {"Corrupted", "No free block left", "none"}
  BY <1>1, <1>2 DEF Write, WriteInternal, Panic
<1>3. ASSUME CollectPage
      PROVE  \/ UNCHANGED panic
             \/ panic' \in {"Corrupted", "No free block left", "none",
                            "Invalid block", "Invalid mapping table entry"}
  BY <1>1, <1>3 DEF CollectPage, Panic
<1>4. ASSUME NEW l \in Lpns, NEW io \in IoFlags, Read(l, io)
      PROVE  UNCHANGED panic \/ panic' = "Block is not in use"
  BY <1>4 DEF Read, Panic, vars
<1>5. ASSUME NEW l \in Lpns, Trim(l)
      PROVE  UNCHANGED panic \/ panic' = "Block is not in use"
  BY <1>5 DEF Trim, Panic
<1>6. ASSUME NEW s \in Lpns, NEW n \in 1..TotalLogicalPages, Format(s, n)
      PROVE  UNCHANGED panic \/ panic' = "Block is not in use"
  BY <1>6 DEF Format, Panic
<1>7. ASSUME EraseBlock
      PROVE  \/ UNCHANGED panic
             \/ panic' \in {"No such block", "There are valid pages in victim block"}
  BY <1>7 DEF EraseBlock, Panic
<1>8. CASE SelectVictim \/ CopyPages \/ Stopped
  BY <1>8 DEF SelectVictim, CopyPages, Stopped, vars
<1>9. \A l \in Lpns, d \in Data : ~Fill(l, d)
  BY DEF Fill
<1>10. ~FillDone
  BY DEF FillDone
<1> QED
  BY <1>2, <1>3, <1>4, <1>5, <1>6, <1>7, <1>8, <1>9, <1>10 DEF Next

(* The warm-up never comes back.                                           *)
LEMMA FillOnce ==
  ASSUME TypeInv, [Next]_vars, pc # "fill"
  PROVE  pc' # "fill"
<1>1. CASE Writes
  BY <1>1 DEF Writes, WriteInternal
<1>2. CASE Skips \/ Moves
  <2>1. pc' \in {"collect", "io"}
    BY <1>2, NextPageLemma DEF Skips, Moves
  <2> QED
    BY <2>1
<1>3. CASE \/ \E msg : Panic(msg)
           \/ FillDone \/ SelectVictim \/ CopyPages \/ Erases \/ UNCHANGED vars
           \/ \E ls \in SUBSET Lpns : Discards(ls)
  BY <1>3 DEF Panic, FillDone, SelectVictim, CopyPages, Erases, Discards, vars
<1> QED
  BY <1>1, <1>2, <1>3, StepCases

(* Every step keeps the count of the warm-up and its promise.              *)
LEMMA FillInvNext ==
  ASSUME FillInv, [Next]_vars, NPagesToWarmup <= MaxPagesBeforeGC
  PROVE  FillInv'
<1>1. TypeInv'
  BY TypeInvNext DEF FillInv
<1>2. CASE UNCHANGED vars
  BY <1>1, <1>2 DEF FillInv, FillCount, FillNeverCollects, Written, FilledUp,
                    OpenSet, vars, mapVars, poolVars, openVars
<1>3. CASE pc # "fill" /\ Next
  BY <1>1, <1>3, OtherPanics, FillOnce DEF FillInv, FillCount, FillNeverCollects
<1>4. ASSUME pc = "fill", NEW l \in Lpns, NEW d \in Data, Fill(l, d)
      PROVE  FillInv'
  <2>1. CASE GetBlockPanic(Units) # "none"
    <3>1. GetBlockPanic(Units) \in {"Corrupted", "No free block left"}
      BY <2>1 DEF GetBlockPanic
    <3>2. pc' = "panic" /\ panic' = GetBlockPanic(Units)
      BY <1>4, <2>1 DEF Fill, Panic
    <3> QED
      BY <1>1, <3>1, <3>2 DEF FillInv, FillCount, FillNeverCollects
  <2>2. CASE GetBlockPanic(Units) = "none"
    <3>1. ~GCNeeded(Units)
      <4> SUFFICES ASSUME GCNeeded(Units) PROVE FALSE
        OBVIOUS
      <4>1. filled > MaxPagesBeforeGC
        BY <1>4, <2>2, GCOnlyBeyondLimit DEF FillInv
      <4>2. MaxPagesBeforeGC \in Int
        BY GeometryAssumption, PolicyAssumption DEF MaxPagesBeforeGC
      <4>3. filled < NPagesToWarmup + PagesToInvalidate
        BY <1>4 DEF Fill
      <4>4. NPagesToWarmup + PagesToInvalidate <= MaxPagesBeforeGC
        BY <4>2, FillAssumption, GeometryAssumption DEF PagesToInvalidate
      <4>5. filled \in Nat /\ NPagesToWarmup + PagesToInvalidate \in Int
        BY <4>2, FillAssumption, GeometryAssumption
           DEF PagesToInvalidate, FillInv, TypeInv, TypeOK
      <4> QED
        BY <4>1, <4>2, <4>3, <4>4, <4>5
    <3>2. WriteInternal(l, Units, d, "fill") /\ filled' = filled + 1
      BY <1>4, <2>2, <3>1 DEF Fill
    <3>3. FillCount'
      BY <1>4, <2>2, <3>2, FillWrites DEF FillInv
    <3>4. UNCHANGED panic
      BY <2>2, <3>2 DEF WriteInternal
    <3> QED
      BY <1>1, <3>3, <3>4 DEF FillInv, FillNeverCollects
  <2> QED
    BY <2>1, <2>2
<1>5. CASE FillDone
  BY <1>1, <1>5 DEF FillDone, FillInv, FillCount, FillNeverCollects
<1>6. ASSUME pc = "fill", Next
      PROVE  FillDone \/ \E l \in Lpns, d \in Data : Fill(l, d)
  BY <1>6 DEF Next, Write, Read, Trim, Format, SelectVictim, CollectPage,
              CopyPages, EraseBlock, Stopped
<1> QED
  BY <1>2, <1>3, <1>4, <1>5, <1>6

(* The constructor: nothing is written, every block is open or free.       *)
LEMMA FillInvInit == Init => FillInv
<1> SUFFICES ASSUME Init PROVE FillInv
  OBVIOUS
<1>1. TypeInv
  BY TypeInvInit
<1>2. /\ nextWrite = [b \in Blocks |-> [i \in Units |-> 0]]
      /\ blocks = Opens /\ filled = 0 /\ panic = "none"
      /\ lastFreeBlock = [o \in Opens |-> o]
      /\ freeBlocks = [k \in 1..(TotalPhysicalBlocks - PageCountToMaxPerf) |->
                         PageCountToMaxPerf + k - 1]
  BY DEF Init
<1>3. Written = {}
  <2>1. \A b \in Blocks, p \in Pages : ~(p < nextWrite[b][0])
    BY <1>2, ColumnZero DEF Pages
  <2> QED
    BY <2>1 DEF Written
<1>4. Cardinality(Written) = filled
  BY <1>2, <1>3, FS_EmptySet
<1>5. Cardinality(blocks) = PageCountToMaxPerf
  BY <1>2, Below, GeometryAssumption DEF Opens
<1>6. Len(freeBlocks) = TotalPhysicalBlocks - PageCountToMaxPerf
  BY <1>2, GeometryAssumption
<1>7. blocks \subseteq OpenSet
  BY <1>2 DEF OpenSet
<1>8. \A b \in Blocks, i \in Units : nextWrite[b][i] = nextWrite[b][0]
  BY <1>2, ColumnZero
<1>9. FillCount
  BY <1>4, <1>5, <1>6, <1>7, <1>8, GeometryAssumption DEF FillCount
<1> QED
  BY <1>1, <1>2, <1>9 DEF FillInv, FillNeverCollects

(* "I assumed that init procedure never invokes GC": true whenever the     *)
(* warm-up alone fits below maxPagesBeforeGC, for every geometry and fill  *)
(* mode, because each block the warm-up has left is full.                  *)
THEOREM WarmupNeverCollects ==
  ASSUME NPagesToWarmup <= MaxPagesBeforeGC
  PROVE  Spec => []FillNeverCollects
<1>1. FillInv /\ [Next]_vars => FillInv'
  BY FillInvNext
<1>2. FillInv => FillNeverCollects
  BY DEF FillInv
<1> QED
  BY <1>1, <1>2, FillInvInit, PTL DEF Spec

=============================================================================
