------------------------- MODULE GenericCacheProofs -------------------------
(* Proofs about GenericCache, for every geometry and every combination of  *)
(* modes, switches and commands the constants allow.                       *)
EXTENDS GenericCache, TLAPS, WellFoundedInduction

-----------------------------------------------------------------------------
(* The inductive invariant                                                 *)

(* A line that is valid or dirty is in the set of its tag.                 *)
Placed ==
  \A i \in Slots : cacheData[i].valid \/ cacheData[i].dirty =>
                     CalcSetIndex(cacheData[i].tag) = i[1]

(* No line is cached twice.                                                *)
Unique ==
  \A i, j \in Slots :
    cacheData[i].valid /\ cacheData[j].valid /\ cacheData[i].tag = cacheData[j].tag
      => i = j

(* Read-ahead stays within Tags.                                           *)
ReadAhead ==
  prefetchTrigger \in Lcas =>
    lastPrefetched + Span <= NumLines + 2 * LineCountInMaxIO

PlaceInv == TypeOK /\ Placed /\ Unique /\ ReadAhead /\ NeverCorrupted

(* Only write caching makes lines dirty.                                   *)
DirtyCached == ~conf.useWriteCaching => \A i \in Slots : ~cacheData[i].dirty

(* A dirty line, valid or, when it may be flushed again, invalid, has the  *)
(* newest content of its tag.                                              *)
DirtyFresh ==
  \A i \in Slots :
    cacheData[i].dirty /\ (cacheData[i].valid \/ "flush" \in conf.commands) =>
      (cacheData[i].tag \in written => cacheData[i].data = "fresh")

(* A dirty line is one of the host's, unless it was discarded.             *)
DirtyWritten ==
  \A i \in Slots :
    /\ cacheData[i].dirty /\ cacheData[i].valid => cacheData[i].tag \in written
    /\ cacheData[i].dirty /\ {"trim", "format"} \intersect conf.commands = {} =>
         cacheData[i].tag \in written

(* Where nothing is left in the cache only, the FTL has all.               *)
WrittenThrough ==
  "part" \notin conf.commands \/ ~conf.useWriteCaching =>
    \A t \in written : ftl[t] = "fresh"

KeepInv ==
  DirtyCached /\ DirtyFresh /\ DirtyWritten /\ WrittenThrough /\ NothingLost

(* What is not written is not in the FTL, read-ahead included.             *)
Gone == "trim" \notin conf.commands => \A t \in Tags \ written : ftl[t] = "none"

Expected(t) == IF t \in written THEN "fresh" ELSE "none"

(* A cached line has the content a read must return.                       *)
CachedLatest ==
  conf.useWriteCaching /\ "trim" \notin conf.commands =>
    \A i \in Slots : cacheData[i].valid => cacheData[i].data = Expected(cacheData[i].tag)

CacheInv ==
  /\ PlaceInv
  /\ KeepsData(conf) => KeepInv
  /\ DropsData(conf) => Gone /\ CachedLatest

-----------------------------------------------------------------------------
(* The geometry and the operators on lines                                 *)

(* The product of two positive numbers is no less than either.             *)
LEMMA Product ==
  ASSUME NEW m \in Nat \ {0}, NEW n \in Nat \ {0}
  PROVE  m * n \in Nat \ {0} /\ n <= m * n
<1>1. m * n = (m - 1) * n + n
  OBVIOUS
<1>2. m - 1 \in Nat /\ (m - 1) * n \in Nat
  OBVIOUS
<1> QED
  BY <1>1, <1>2

(* What the constructor has computed.                                      *)
LEMMA Geometry ==
  ASSUME conf \in Configs
  PROVE  /\ SetSize \in Nat \ {0} /\ WaySize \in Nat \ {0} /\ NumLines \in Nat \ {0}
         /\ LineCountInSuperPage \in Nat \ {0} /\ ParallelIO \in Nat \ {0}
         /\ LineCountInMaxIO \in Nat \ {0}
         /\ Span \in Nat \ {0} /\ Span <= LineCountInMaxIO
         /\ Lcas \subseteq Tags /\ 0 \in Tags /\ 0 \in Lcas
         /\ \A t \in Nat : t <= NumLines + 2 * LineCountInMaxIO => t \in Tags
         /\ Tags \subseteq Nat
<1>1. /\ SetSize \in Nat \ {0} /\ WaySize \in Nat \ {0} /\ NumLines \in Nat \ {0}
      /\ LineCountInSuperPage \in Nat \ {0} /\ ParallelIO \in Nat \ {0}
  BY ConfigAssumption
     DEF ConfigOK, SetSize, WaySize, NumLines, LineCountInSuperPage, ParallelIO
<1>2. LineCountInMaxIO \in Nat \ {0} /\ LineCountInSuperPage <= LineCountInMaxIO
  BY <1>1, Product DEF LineCountInMaxIO
<1>3. Span \in Nat \ {0} /\ Span <= LineCountInMaxIO
  BY <1>1, <1>2 DEF Span
<1>4. 2 * LineCountInMaxIO \in Nat
  BY <1>2
<1> QED
  BY <1>1, <1>2, <1>3, <1>4 DEF Lcas, Tags

(* No step changes the geometry.                                           *)
LEMMA SameGeometry ==
  ASSUME conf' = conf
  PROVE  /\ Slots' = Slots /\ Tags' = Tags /\ Lcas' = Lcas /\ Lines' = Lines
         /\ NumLines' = NumLines /\ LineCountInMaxIO' = LineCountInMaxIO
         /\ bSuperPage' = bSuperPage => Span' = Span
         /\ \A t : CalcSetIndex(t)' = CalcSetIndex(t)
         /\ KeepsData(conf)' = KeepsData(conf) /\ DropsData(conf)' = DropsData(conf)
  BY DEF Slots, Tags, Lcas, Lines, NumLines, LineCountInMaxIO, Span, CalcSetIndex,
         SetSize, WaySize, ParallelIO, LineCountInSuperPage, KeepsData, DropsData

(* What ageing does to the lines.                                          *)
LEMMA AgedLinesFact ==
  ASSUME TypeOK, NEW R
  PROVE  /\ AgedLines(R) \in [Slots -> Lines]
         /\ \A i \in Slots :
              /\ AgedLines(R)[i].valid = cacheData[i].valid
              /\ AgedLines(R)[i].dirty = cacheData[i].dirty
              /\ AgedLines(R)[i].tag = cacheData[i].tag
              /\ AgedLines(R)[i].data = IF cacheData[i].tag \in R
                                        THEN Age(cacheData[i].data)
                                        ELSE cacheData[i].data
<1> SUFFICES ASSUME NEW i \in Slots
             PROVE  /\ AgedLines(R)[i] \in Lines
                    /\ AgedLines(R)[i].valid = cacheData[i].valid
                    /\ AgedLines(R)[i].dirty = cacheData[i].dirty
                    /\ AgedLines(R)[i].tag = cacheData[i].tag
                    /\ AgedLines(R)[i].data = IF cacheData[i].tag \in R
                                              THEN Age(cacheData[i].data)
                                              ELSE cacheData[i].data
  BY DEF AgedLines
<1>1. cacheData[i] \in Lines
  BY DEF TypeOK
<1>2. Age(cacheData[i].data) \in Contents
  BY <1>1 DEF Age, Lines, Contents
<1> QED
  BY <1>1, <1>2 DEF AgedLines, Lines

(* What ageing does to the FTL.                                            *)
LEMMA AgedFTLFact ==
  ASSUME TypeOK, NEW R
  PROVE  /\ AgedFTL(R) \in [Tags -> Contents]
         /\ \A t \in Tags : AgedFTL(R)[t] = IF t \in R THEN Age(ftl[t]) ELSE ftl[t]
  BY DEF TypeOK, AgedFTL, Age, Contents

(* What evictCache leaves in the lines.                                    *)
LEMMA EvictLinesFact ==
  ASSUME conf \in Configs, NEW ls \in [Slots -> Lines], NEW E
  PROVE  /\ EvictLines(ls, E) \in [Slots -> Lines]
         /\ \A i \in Slots :
              IF i \in E THEN /\ ~EvictLines(ls, E)[i].valid
                              /\ ~EvictLines(ls, E)[i].dirty
              ELSE EvictLines(ls, E)[i] = ls[i]
<1>1. 0 \in Tags
  BY Geometry
<1> QED
  BY <1>1 DEF EvictLines, Lines

(* What evictCache writes to the FTL: the data of the dirty lines.         *)
LEMMA EvictToFTLFact ==
  ASSUME NEW ls \in [Slots -> Lines], NEW f \in [Tags -> Contents],
         NEW E \in SUBSET Slots
  PROVE  /\ EvictToFTL(f, ls, E) \in [Tags -> Contents]
         /\ \A t \in Tags :
              \/ \E i \in E : /\ ls[i].valid /\ ls[i].dirty /\ ls[i].tag = t
                              /\ EvictToFTL(f, ls, E)[t] = ls[i].data
              \/ /\ \A i \in E : ~(ls[i].valid /\ ls[i].dirty /\ ls[i].tag = t)
                 /\ EvictToFTL(f, ls, E)[t] = f[t]
<1> DEFINE W == WriteBack(ls, E)
           F == EvictToFTL(f, ls, E)
<1>1. F = [t \in Tags |-> IF \E i \in W : ls[i].tag = t
                          THEN ls[CHOOSE i \in W : ls[i].tag = t].data
                          ELSE f[t]]
  BY DEF EvictToFTL
<1>2. \A i : i \in W <=> i \in E /\ ls[i].valid /\ ls[i].dirty
  BY DEF WriteBack
<1> HIDE DEF W, F
<1>3. ASSUME NEW t \in Tags
      PROVE  \/ \E i \in E : /\ ls[i].valid /\ ls[i].dirty /\ ls[i].tag = t
                             /\ F[t] = ls[i].data
             \/ /\ \A i \in E : ~(ls[i].valid /\ ls[i].dirty /\ ls[i].tag = t)
                /\ F[t] = f[t]
  <2>1. CASE \E i \in W : ls[i].tag = t
    <3> DEFINE x == CHOOSE i \in W : ls[i].tag = t
    <3>1. x \in W /\ ls[x].tag = t
      BY <2>1
    <3>2. F[t] = ls[x].data
      BY <1>1, <2>1
    <3> QED
      BY <1>2, <3>1, <3>2
  <2>2. CASE ~ \E i \in W : ls[i].tag = t
    BY <1>1, <1>2, <2>2
  <2> QED
    BY <2>1, <2>2
<1>4. \A t \in Tags : F[t] \in Contents
  BY <1>3 DEF Lines
<1>5. F \in [Tags -> Contents]
  BY <1>1, <1>4
<1> QED
  BY <1>3, <1>5 DEF F

(* What flush, trim and format leave in the lines.                         *)
LEMMA InvalidFact ==
  ASSUME NEW ls \in [Slots -> Lines], NEW S
  PROVE  /\ Invalid(ls, S) \in [Slots -> Lines]
         /\ \A i \in Slots :
              /\ Invalid(ls, S)[i].valid = (ls[i].valid /\ i \notin S)
              /\ Invalid(ls, S)[i].dirty = ls[i].dirty
              /\ Invalid(ls, S)[i].tag = ls[i].tag
              /\ Invalid(ls, S)[i].data = ls[i].data
  BY DEF Invalid, Lines

-----------------------------------------------------------------------------
(* Cached writes                                                           *)

(* What the three paths of a cached write have in common: the line goes to *)
(* way x of its set and was valid in no other, the lines in E are evicted, *)
(* and part of a line stays dirty.                                         *)
StoresLine(lca, size, x, E) ==
  /\ cacheData' \in [Slots -> Lines]
  /\ cacheData'[x].valid /\ cacheData'[x].tag = lca /\ cacheData'[x].data = "fresh"
  /\ size = "part" => cacheData'[x].dirty
  /\ \A i \in Slots \ {x} :
       IF i \in E THEN ~cacheData'[i].valid /\ ~cacheData'[i].dirty
       ELSE /\ cacheData'[i].valid = cacheData[i].valid
            /\ cacheData'[i].dirty = cacheData[i].dirty
            /\ cacheData'[i].tag = cacheData[i].tag
            /\ cacheData[i].tag # lca => cacheData'[i].data = cacheData[i].data

StoresFTL(lca, size, E) ==
  /\ ftl' \in [Tags -> Contents]
  /\ size = "full" => ftl'[lca] = "fresh"
  /\ \A t \in Tags \ {lca} :
       \/ \E i \in E : /\ cacheData[i].valid /\ cacheData[i].dirty
                       /\ cacheData[i].tag = t /\ ftl'[t] = cacheData[i].data
       \/ /\ \A i \in E : ~(/\ cacheData[i].valid /\ cacheData[i].dirty
                            /\ cacheData[i].tag = t)
          /\ ftl'[t] = ftl[t]

Stores(lca, size, x, E) ==
  /\ lca \in Lcas /\ size \in Sizes /\ x \in Slots /\ E \in SUBSET Slots
  /\ conf.useWriteCaching /\ size \in conf.commands
  /\ CalcSetIndex(lca) = x[1]
  /\ \A i \in Slots \ {x} : cacheData[i].valid => cacheData[i].tag # lca
  /\ x \in E \/ ~cacheData[x].valid \/ cacheData[x].tag = lca
  /\ StoresLine(lca, size, x, E)
  /\ StoresFTL(lca, size, E)
  /\ written' = written \union {lca}
  /\ UNCHANGED <<conf, readDetect, prefetchTrigger, lastPrefetched, bSuperPage,
                 corrupted>>

(* The write to the FTL that precedes the look-up.                         *)
LEMMA ToFTLFact ==
  ASSUME TypeOK, NEW lca \in Lcas, NEW size \in Sizes
  PROVE  /\ ToFTL(lca, size) \in [Tags -> Contents]
         /\ size = "full" => ToFTL(lca, size)[lca] = "fresh"
         /\ \A t \in Tags \ {lca} : ToFTL(lca, size)[t] = ftl[t]
<1>1. lca \in Tags
  BY Geometry DEF TypeOK
<1>2. AgedFTL({lca}) \in [Tags -> Contents]
      /\ \A t \in Tags \ {lca} : AgedFTL({lca})[t] = ftl[t]
  BY AgedFTLFact
<1> QED
  BY <1>1, <1>2 DEF ToFTL, Sizes, Dirty, Contents

(* What write puts into a way.                                             *)
LEMMA InsertFact ==
  ASSUME conf \in Configs, NEW ls \in [Slots -> Lines], NEW lca \in Lcas,
         NEW x \in Slots, NEW d \in BOOLEAN
  PROVE  /\ Insert(ls, lca, x, d) \in [Slots -> Lines]
         /\ Insert(ls, lca, x, d)[x] = [valid |-> TRUE, dirty |-> d, tag |-> lca,
                                        data |-> "fresh"]
         /\ \A i \in Slots \ {x} : Insert(ls, lca, x, d)[i] = ls[i]
<1>1. lca \in Tags
  BY Geometry
<1> QED
  BY <1>1 DEF Insert, Lines, Contents

(* A line that getValidWay does not find is valid nowhere.                 *)
LEMMA NotCached ==
  ASSUME TypeOK, Placed, NEW t, GetValidWay(cacheData, t) = {}
  PROVE  \A i \in Slots : cacheData[i].valid => cacheData[i].tag # t
  BY DEF GetValidWay, SlotsOfSet, Placed

(* write to a line that is cached.                                         *)
LEMMA WriteHitStores ==
  ASSUME PlaceInv, NEW lca \in Lcas, NEW size \in Sizes, WriteHit(lca, size)
  PROVE  \E x \in Slots : Stores(lca, size, x, {})
<1> USE DEF PlaceInv
<1>1. PICK x \in GetValidWay(cacheData, lca) : cacheData' = Update(lca, size, x)
  BY DEF WriteHit
<1>2. /\ x \in Slots /\ CalcSetIndex(lca) = x[1]
      /\ cacheData[x].valid /\ cacheData[x].tag = lca
  BY DEF GetValidWay, SlotsOfSet
<1>3. \A i \in Slots \ {x} : cacheData[i].valid => cacheData[i].tag # lca
  BY <1>2 DEF Unique
<1>4. StoresLine(lca, size, x, {})
  <2> DEFINE A == AgedLines({lca})
  <2>1. /\ A \in [Slots -> Lines]
        /\ \A i \in Slots :
             /\ A[i].valid = cacheData[i].valid
             /\ A[i].dirty = cacheData[i].dirty
             /\ A[i].tag = cacheData[i].tag
             /\ cacheData[i].tag # lca => A[i].data = cacheData[i].data
    BY AgedLinesFact
  <2>2. cacheData' = [A EXCEPT ![x].dirty = Dirty(size), ![x].data = "fresh"]
    BY <1>1 DEF Update
  <2> HIDE DEF A
  <2>3. Dirty(size) \in BOOLEAN /\ (size = "part" => Dirty(size))
    BY DEF Dirty
  <2>4. /\ cacheData' \in [Slots -> Lines]
        /\ cacheData'[x] = [A[x] EXCEPT !.dirty = Dirty(size), !.data = "fresh"]
        /\ \A i \in Slots \ {x} : cacheData'[i] = A[i]
    <3> DEFINE y == [A[x] EXCEPT !.dirty = Dirty(size), !.data = "fresh"]
    <3>1. y \in Lines
      BY <1>2, <2>1, <2>3 DEF Lines, Contents
    <3>2. cacheData' = [A EXCEPT ![x] = y]
      BY <2>2
    <3> HIDE DEF y
    <3>3. cacheData' \in [Slots -> Lines] /\ cacheData'[x] = y
          /\ \A i \in Slots \ {x} : cacheData'[i] = A[i]
      BY <1>2, <2>1, <3>1, <3>2
    <3> QED
      BY <3>3 DEF y
  <2>5. A[x] \in Lines /\ A[x].valid /\ A[x].tag = lca
    BY <1>2, <2>1
  <2>6. /\ cacheData'[x].valid /\ cacheData'[x].tag = lca
        /\ cacheData'[x].dirty = Dirty(size) /\ cacheData'[x].data = "fresh"
    BY <2>4, <2>5 DEF Lines
  <2> QED
    BY <1>2, <2>1, <2>3, <2>4, <2>6 DEF StoresLine
<1>5. StoresFTL(lca, size, {})
  BY ToFTLFact DEF StoresFTL, WriteHit
<1> QED
  BY <1>2, <1>3, <1>4, <1>5 DEF Stores, WriteHit, Ready, HostWrites, pvars

(* write to an empty way.                                                  *)
LEMMA WriteEmptyStores ==
  ASSUME PlaceInv, NEW lca \in Lcas, NEW size \in Sizes, WriteEmpty(lca, size)
  PROVE  \E x \in Slots : Stores(lca, size, x, {})
<1> USE DEF PlaceInv
<1> DEFINE A == AgedLines({lca})
<1>1. PICK x \in GetEmptyWay(cacheData, lca) :
        cacheData' = Insert(A, lca, x, Dirty(size))
  BY DEF WriteEmpty
<1>2. x \in Slots /\ CalcSetIndex(lca) = x[1] /\ ~cacheData[x].valid
  BY DEF GetEmptyWay, SlotsOfSet
<1>3. \A i \in Slots : cacheData[i].valid => cacheData[i].tag # lca
  BY NotCached DEF WriteEmpty
<1>4. StoresLine(lca, size, x, {})
  <2>1. /\ A \in [Slots -> Lines]
        /\ \A i \in Slots :
             /\ A[i].valid = cacheData[i].valid
             /\ A[i].dirty = cacheData[i].dirty
             /\ A[i].tag = cacheData[i].tag
             /\ cacheData[i].tag # lca => A[i].data = cacheData[i].data
    BY AgedLinesFact
  <2> HIDE DEF A
  <2>2. Dirty(size) \in BOOLEAN /\ (size = "part" => Dirty(size))
    BY DEF Dirty
  <2>3. /\ cacheData' \in [Slots -> Lines]
        /\ cacheData'[x] = [valid |-> TRUE, dirty |-> Dirty(size), tag |-> lca,
                            data |-> "fresh"]
        /\ \A i \in Slots \ {x} : cacheData'[i] = A[i]
    BY <1>1, <1>2, <2>1, <2>2, InsertFact DEF TypeOK
  <2> QED
    BY <2>1, <2>2, <2>3 DEF StoresLine
<1>5. StoresFTL(lca, size, {})
  BY ToFTLFact DEF StoresFTL, WriteEmpty
<1> QED
  BY <1>2, <1>3, <1>4, <1>5 DEF Stores, WriteEmpty, Ready, HostWrites, pvars

(* The scan and setToFlush find only lines of the cache, and one of the    *)
(* set of the new line when all its ways are valid.                        *)
LEMMA EvictsFromSet ==
  ASSUME TypeOK, NEW ls \in [Slots -> Lines], NEW lca \in Lcas,
         \A i \in Slots : ls[i].valid => CalcSetIndex(ls[i].tag) = i[1],
         GetEmptyWay(ls, lca) = {},
         NEW E0 \in Scans(ls), NEW E \in ForSet(ls, E0, CalcSetIndex(lca))
  PROVE  E \in SUBSET Slots /\ \E i \in E : i[1] = CalcSetIndex(lca)
<1> DEFINE s == CalcSetIndex(lca)
<1>1. E0 \in SUBSET Slots /\ \A i \in E0 : ls[i].valid
  BY DEF Scans
<1>2. CASE \E i \in E0 : CalcSetIndex(ls[i].tag) = s
  <2>1. E = E0
    BY <1>2 DEF ForSet
  <2> QED
    BY <1>1, <1>2, <2>1
<1>3. CASE ~ \E i \in E0 : CalcSetIndex(ls[i].tag) = s
  <2>1. PICK i \in SlotsOfSet(s) :
          E = {j \in E0 : Group(ls[j].tag) # CalcIOPosition(ls[i].tag)} \union {i}
    BY <1>3 DEF ForSet
  <2> QED
    BY <1>1, <2>1 DEF SlotsOfSet
<1> QED
  BY <1>2, <1>3

(* write after an eviction: the panic is not reached.                      *)
LEMMA WriteEvictStores ==
  ASSUME PlaceInv, NEW lca \in Lcas, NEW size \in Sizes, WriteEvict(lca, size)
  PROVE  \E x \in Slots, E \in SUBSET Slots : Stores(lca, size, x, E)
<1> USE DEF PlaceInv
<1> DEFINE A == AgedLines({lca})
           f == ToFTL(lca, size)
<1>1. PICK E0 \in Scans(A) : \E E \in ForSet(A, E0, CalcSetIndex(lca)) :
           LET rest == EvictLines(A, E)
           IN  /\ ftl' = EvictToFTL(f, A, E)
               /\ IF GetEmptyWay(rest, lca) = {}
                  THEN /\ corrupted' = TRUE
                       /\ cacheData' = rest
                  ELSE /\ UNCHANGED corrupted
                       /\ \E i \in GetEmptyWay(rest, lca) :
                            cacheData' = Insert(rest, lca, i, TRUE)
  BY DEF WriteEvict
<1>2. PICK E \in ForSet(A, E0, CalcSetIndex(lca)) :
           LET rest == EvictLines(A, E)
           IN  /\ ftl' = EvictToFTL(f, A, E)
               /\ IF GetEmptyWay(rest, lca) = {}
                  THEN /\ corrupted' = TRUE
                       /\ cacheData' = rest
                  ELSE /\ UNCHANGED corrupted
                       /\ \E i \in GetEmptyWay(rest, lca) :
                            cacheData' = Insert(rest, lca, i, TRUE)
  BY <1>1
<1> DEFINE rest == EvictLines(A, E)
<1>3. /\ A \in [Slots -> Lines]
      /\ \A i \in Slots :
           /\ A[i].valid = cacheData[i].valid
           /\ A[i].dirty = cacheData[i].dirty
           /\ A[i].tag = cacheData[i].tag
           /\ cacheData[i].tag # lca => A[i].data = cacheData[i].data
  BY AgedLinesFact
<1>4. \A i \in SlotsOfSet(CalcSetIndex(lca)) : cacheData[i].valid
  BY DEF WriteEvict, GetEmptyWay
<1>5. E \in SUBSET Slots /\ \E i \in E : i[1] = CalcSetIndex(lca)
  <2>1. \A i \in Slots : A[i].valid => CalcSetIndex(A[i].tag) = i[1]
    BY <1>3 DEF Placed
  <2>2. GetEmptyWay(A, lca) = {}
    BY <1>3, <1>4 DEF GetEmptyWay, SlotsOfSet
  <2> HIDE DEF A
  <2> QED
    BY <1>1, <1>2, <1>3, <2>1, <2>2, EvictsFromSet
<1> HIDE DEF A, f
<1>6. /\ rest \in [Slots -> Lines]
      /\ \A i \in Slots : IF i \in E THEN ~rest[i].valid /\ ~rest[i].dirty
                          ELSE rest[i] = A[i]
  BY <1>3, EvictLinesFact DEF TypeOK
<1> HIDE DEF rest
<1>7. GetEmptyWay(rest, lca) # {}
  BY <1>5, <1>6 DEF GetEmptyWay, SlotsOfSet
<1>8. PICK x \in GetEmptyWay(rest, lca) : cacheData' = Insert(rest, lca, x, TRUE)
  BY <1>2, <1>7 DEF rest
<1>9. x \in Slots /\ CalcSetIndex(lca) = x[1] /\ x \in E
  BY <1>3, <1>4, <1>6, <1>8 DEF GetEmptyWay, SlotsOfSet
<1>10. \A i \in Slots : cacheData[i].valid => cacheData[i].tag # lca
  BY NotCached DEF WriteEvict
<1>11. StoresLine(lca, size, x, E)
  <2>1. /\ cacheData' \in [Slots -> Lines]
        /\ cacheData'[x] = [valid |-> TRUE, dirty |-> TRUE, tag |-> lca,
                            data |-> "fresh"]
        /\ \A i \in Slots \ {x} : cacheData'[i] = rest[i]
    <3>1. PICK d \in BOOLEAN : d = TRUE
      OBVIOUS
    <3>2. cacheData' = Insert(rest, lca, x, d) /\ conf \in Configs
      BY <1>8, <3>1 DEF TypeOK
    <3>3. /\ cacheData' \in [Slots -> Lines]
          /\ cacheData'[x] = [valid |-> TRUE, dirty |-> d, tag |-> lca,
                              data |-> "fresh"]
          /\ \A i \in Slots \ {x} : cacheData'[i] = rest[i]
      BY <1>6, <1>9, <3>2, InsertFact
    <3> QED
      BY <3>1, <3>3
  <2> QED
    BY <1>3, <1>6, <2>1 DEF StoresLine
<1>12. StoresFTL(lca, size, E)
  <2>1. /\ f \in [Tags -> Contents] /\ (size = "full" => f[lca] = "fresh")
        /\ \A t \in Tags \ {lca} : f[t] = ftl[t]
    BY ToFTLFact DEF f
  <2>2. /\ ftl' \in [Tags -> Contents]
        /\ \A t \in Tags :
             \/ \E i \in E : /\ A[i].valid /\ A[i].dirty /\ A[i].tag = t
                             /\ ftl'[t] = A[i].data
             \/ /\ \A i \in E : ~(A[i].valid /\ A[i].dirty /\ A[i].tag = t)
                /\ ftl'[t] = f[t]
    BY <1>2, <1>3, <1>5, <2>1, EvictToFTLFact
  <2>3. size = "full" => ftl'[lca] = "fresh"
    <3>1. lca \in Tags
      BY Geometry DEF TypeOK
    <3> QED
      BY <1>3, <1>5, <1>10, <2>1, <2>2, <3>1
  <2> QED
    BY <1>3, <1>5, <2>1, <2>2, <2>3 DEF StoresFTL
<1>13. UNCHANGED corrupted
  BY <1>2, <1>7 DEF rest
<1> QED
  BY <1>5, <1>9, <1>10, <1>11, <1>12, <1>13
     DEF Stores, WriteEvict, Ready, HostWrites, pvars

(* A cached write keeps the lines in their sets, once each.                *)
LEMMA StoresPlace ==
  ASSUME PlaceInv, NEW lca, NEW size, NEW x, NEW E, Stores(lca, size, x, E)
  PROVE  PlaceInv'
<1> USE DEF PlaceInv
<1>1. /\ conf' = conf /\ bSuperPage' = bSuperPage /\ lca \in Lcas /\ x \in Slots
      /\ CalcSetIndex(lca) = x[1]
      /\ \A i \in Slots \ {x} : cacheData[i].valid => cacheData[i].tag # lca
      /\ UNCHANGED <<readDetect, prefetchTrigger, lastPrefetched, corrupted>>
      /\ written' = written \union {lca}
  BY DEF Stores
<1>2. /\ cacheData' \in [Slots -> Lines] /\ ftl' \in [Tags -> Contents]
      /\ cacheData'[x].tag = lca
      /\ \A i \in Slots \ {x} :
           \/ ~cacheData'[i].valid /\ ~cacheData'[i].dirty
           \/ /\ cacheData'[i].valid = cacheData[i].valid
              /\ cacheData'[i].dirty = cacheData[i].dirty
              /\ cacheData'[i].tag = cacheData[i].tag
  BY DEF Stores, StoresLine, StoresFTL
<1>3. TypeOK'
  BY <1>1, <1>2, SameGeometry DEF TypeOK
<1>4. Placed'
  BY <1>1, <1>2, SameGeometry DEF Placed
<1>5. Unique'
  BY <1>1, <1>2, SameGeometry DEF Unique
<1>6. ReadAhead' /\ NeverCorrupted'
  BY <1>1, SameGeometry DEF ReadAhead, NeverCorrupted
<1> QED
  BY <1>3, <1>4, <1>5, <1>6

(* With one way per set a line can be in one slot only.                    *)
LEMMA OneWay ==
  ASSUME conf.waySize = 1, NEW i \in Slots, NEW j \in Slots, i[1] = j[1]
  PROVE  i = j
  BY DEF Slots, WaySize

(* A cached write keeps what the host wrote: evicted lines are written to  *)
(* the FTL, and the new line is dirty unless it is there.                  *)
LEMMA StoresKeep ==
  ASSUME PlaceInv, KeepsData(conf), KeepInv,
         NEW lca, NEW size, NEW x, NEW E, Stores(lca, size, x, E)
  PROVE  KeepInv'
<1> USE DEF PlaceInv
<1>1. /\ conf' = conf /\ lca \in Lcas /\ size \in Sizes /\ x \in Slots
      /\ E \in SUBSET Slots
      /\ conf.useWriteCaching /\ size \in conf.commands /\ CalcSetIndex(lca) = x[1]
      /\ \A i \in Slots \ {x} : cacheData[i].valid => cacheData[i].tag # lca
      /\ x \in E \/ ~cacheData[x].valid \/ cacheData[x].tag = lca
      /\ written' = written \union {lca}
  BY DEF Stores
<1>2. StoresLine(lca, size, x, E) /\ StoresFTL(lca, size, E)
  BY DEF Stores
<1>3. written \subseteq Tags /\ Slots' = Slots
  BY <1>1, Geometry, SameGeometry DEF TypeOK
<1>4. DirtyCached'
  BY <1>1 DEF DirtyCached
<1>5. DirtyFresh'
  <2> SUFFICES ASSUME NEW i \in Slots, cacheData'[i].dirty,
                      cacheData'[i].valid \/ "flush" \in conf.commands,
                      cacheData'[i].tag \in written'
               PROVE  cacheData'[i].data = "fresh"
    BY <1>1, <1>3 DEF DirtyFresh
  <2>1. CASE i = x
    BY <1>2, <2>1 DEF StoresLine
  <2>2. CASE i # x
    <3>1. /\ cacheData[i].valid = cacheData'[i].valid /\ cacheData[i].dirty
          /\ cacheData[i].tag = cacheData'[i].tag
          /\ cacheData[i].tag # lca => cacheData'[i].data = cacheData[i].data
      BY <1>2, <2>2 DEF StoresLine
    <3>2. cacheData[i].tag # lca
      <4>1. CASE cacheData[i].valid
        BY <1>1, <2>2, <4>1
      <4>2. CASE ~cacheData[i].valid
        <5>1. conf.waySize = 1
          BY <3>1, <4>2 DEF KeepsData
        <5>2. CalcSetIndex(cacheData[i].tag) = i[1]
          BY <3>1 DEF Placed
        <5> QED
          BY <1>1, <2>2, <5>1, <5>2, OneWay
      <4> QED
        BY <4>1, <4>2
    <3> QED
      BY <1>1, <3>1, <3>2 DEF KeepInv, DirtyFresh
  <2> QED
    BY <2>1, <2>2
<1>6. DirtyWritten'
  <2> SUFFICES ASSUME NEW i \in Slots, cacheData'[i].dirty,
                      cacheData'[i].valid
                        \/ {"trim", "format"} \intersect conf.commands = {}
               PROVE  cacheData'[i].tag \in written'
    BY <1>1, <1>3 DEF DirtyWritten
  <2>1. CASE i = x
    BY <1>1, <1>2, <2>1 DEF StoresLine
  <2>2. CASE i # x
    <3>1. /\ cacheData[i].valid = cacheData'[i].valid /\ cacheData[i].dirty
          /\ cacheData[i].tag = cacheData'[i].tag
      BY <1>2, <2>2 DEF StoresLine
    <3> QED
      BY <1>1, <3>1 DEF KeepInv, DirtyWritten
  <2> QED
    BY <2>1, <2>2
<1>7. WrittenThrough'
  <2> SUFFICES ASSUME "part" \notin conf.commands, NEW t \in written'
               PROVE  ftl'[t] = "fresh"
    BY <1>1 DEF WrittenThrough
  <2>1. CASE t = lca
    BY <1>1, <1>2, <2>1 DEF StoresFTL, Sizes
  <2>2. CASE t # lca
    <3>1. t \in written /\ t \in Tags \ {lca} /\ ftl[t] = "fresh"
      BY <1>1, <1>3, <2>2 DEF KeepInv, WrittenThrough
    <3> QED
      BY <1>1, <1>2, <3>1 DEF StoresFTL, KeepInv, DirtyFresh
  <2> QED
    BY <2>1, <2>2
<1>8. NothingLost'
  <2> SUFFICES ASSUME NEW t \in written'
               PROVE  \/ ftl'[t] = "fresh"
                      \/ \E i \in Slots :
                           /\ cacheData'[i].valid /\ cacheData'[i].dirty
                           /\ cacheData'[i].tag = t /\ cacheData'[i].data = "fresh"
    BY <1>3 DEF NothingLost
  <2>1. CASE t = lca
    BY <1>1, <1>2, <2>1 DEF StoresLine, StoresFTL, Sizes
  <2>2. CASE t # lca
    <3>1. t \in written /\ t \in Tags \ {lca}
      BY <1>1, <1>3, <2>2
    <3>2. CASE \E i \in E : /\ cacheData[i].valid /\ cacheData[i].dirty
                            /\ cacheData[i].tag = t /\ ftl'[t] = cacheData[i].data
      BY <1>1, <3>1, <3>2 DEF KeepInv, DirtyFresh
    <3>3. CASE /\ \A i \in E : ~(/\ cacheData[i].valid /\ cacheData[i].dirty
                                 /\ cacheData[i].tag = t)
               /\ ftl'[t] = ftl[t]
      <4>1. CASE ftl[t] = "fresh"
        BY <3>3, <4>1
      <4>2. CASE ftl[t] # "fresh"
        <5>1. PICK i \in Slots : /\ cacheData[i].valid /\ cacheData[i].dirty
                                 /\ cacheData[i].tag = t
                                 /\ cacheData[i].data = "fresh"
          BY <3>1, <4>2 DEF KeepInv, NothingLost
        <5>2. i # x /\ i \notin E
          BY <1>1, <2>2, <3>3, <5>1
        <5>3. /\ cacheData'[i].valid /\ cacheData'[i].dirty
              /\ cacheData'[i].tag = t /\ cacheData'[i].data = "fresh"
          BY <1>2, <2>2, <5>1, <5>2 DEF StoresLine
        <5> QED
          BY <5>3
      <4> QED
        BY <4>1, <4>2
    <3> QED
      BY <1>2, <3>1, <3>2, <3>3 DEF StoresFTL
  <2> QED
    BY <2>1, <2>2
<1> QED
  BY <1>4, <1>5, <1>6, <1>7, <1>8 DEF KeepInv

(* A cached write leaves the lines it does not write as they were.         *)
LEMMA StoresLatest ==
  ASSUME PlaceInv, KeepInv, Gone, CachedLatest,
         NEW lca, NEW size, NEW x, NEW E, Stores(lca, size, x, E)
  PROVE  Gone' /\ CachedLatest'
<1>1. /\ conf' = conf /\ lca \in Lcas /\ x \in Slots /\ E \in SUBSET Slots
      /\ \A i \in Slots \ {x} : cacheData[i].valid => cacheData[i].tag # lca
      /\ written' = written \union {lca}
  BY DEF Stores
<1>2. StoresLine(lca, size, x, E) /\ StoresFTL(lca, size, E)
  BY DEF Stores
<1>3. Slots' = Slots /\ Tags' = Tags
  BY <1>1, SameGeometry
<1>4. Gone'
  <2> SUFFICES ASSUME "trim" \notin conf.commands, NEW t \in Tags \ written'
               PROVE  ftl'[t] = "none"
    BY <1>1, <1>3 DEF Gone
  <2>1. t \in Tags \ {lca} /\ t \notin written /\ ftl[t] = "none"
    BY <1>1 DEF Gone
  <2> QED
    BY <1>1, <1>2, <2>1 DEF StoresFTL, KeepInv, DirtyWritten
<1>5. CachedLatest'
  <2> SUFFICES ASSUME conf.useWriteCaching, "trim" \notin conf.commands,
                      NEW i \in Slots, cacheData'[i].valid
               PROVE  cacheData'[i].data = IF cacheData'[i].tag \in written'
                                           THEN "fresh" ELSE "none"
    BY <1>1, <1>3 DEF CachedLatest, Expected
  <2>1. CASE i = x
    BY <1>1, <1>2, <2>1 DEF StoresLine
  <2>2. CASE i # x
    <3>1. /\ cacheData[i].valid /\ cacheData'[i].tag = cacheData[i].tag
          /\ cacheData[i].tag # lca /\ cacheData'[i].data = cacheData[i].data
      BY <1>1, <1>2, <2>2 DEF StoresLine
    <3> QED
      BY <1>1, <3>1 DEF CachedLatest, Expected
  <2> QED
    BY <2>1, <2>2
<1> QED
  BY <1>4, <1>5

-----------------------------------------------------------------------------
(* Steps that leave every line in its way                                  *)

(* A step that makes no line valid or dirty and changes no tag keeps the   *)
(* lines in their sets.                                                    *)
LEMMA SamePlace ==
  ASSUME PlaceInv, UNCHANGED <<conf, prefetchTrigger, lastPrefetched, bSuperPage,
                               corrupted>>,
         cacheData' \in [Slots -> Lines], ftl' \in [Tags -> Contents],
         readDetect' \in [on : BOOLEAN, last : Lcas], written' \subseteq Lcas,
         \A i \in Slots : /\ cacheData'[i].valid => cacheData[i].valid
                          /\ cacheData'[i].dirty => cacheData[i].dirty
                          /\ cacheData'[i].tag = cacheData[i].tag
  PROVE  PlaceInv'
<1> USE DEF PlaceInv
<1>1. conf' = conf /\ bSuperPage' = bSuperPage
  OBVIOUS
<1>2. TypeOK'
  BY <1>1, SameGeometry DEF TypeOK
<1>3. Placed' /\ Unique'
  BY <1>1, SameGeometry DEF Placed, Unique
<1>4. ReadAhead' /\ NeverCorrupted'
  BY <1>1, SameGeometry DEF ReadAhead, NeverCorrupted
<1> QED
  BY <1>2, <1>3, <1>4

(* checkSequential.                                                        *)
LEMMA DetectFact ==
  ASSUME TypeOK, NEW lca \in Lcas, readDetect' \in Detect(lca)
  PROVE  readDetect' \in [on : BOOLEAN, last : Lcas]
<1>1. readDetect \in [on : BOOLEAN, last : Lcas] /\ readDetect.on \in BOOLEAN
  BY DEF TypeOK
<1>2. \A b \in BOOLEAN : [on |-> b, last |-> lca] \in [on : BOOLEAN, last : Lcas]
  OBVIOUS
<1>3. {readDetect.on, TRUE} \subseteq BOOLEAN /\ FALSE \in BOOLEAN
  BY <1>1
<1>4. CheckSequential(lca) \subseteq [on : BOOLEAN, last : Lcas]
  BY <1>2, <1>3, Zenon DEF CheckSequential
<1> QED
  BY <1>1, <1>4 DEF Detect

(* A hit, and a read without read caching, change nothing but the          *)
(* detection of sequential reads.                                          *)
LEMMA ReadHitInv ==
  ASSUME CacheInv, NEW lca \in Lcas, ReadHit(lca) \/ ReadThrough(lca)
  PROVE  CacheInv'
<1>1. /\ UNCHANGED <<conf, cacheData, ftl, prefetchTrigger, lastPrefetched,
                     bSuperPage, corrupted, written>>
      /\ readDetect' \in [on : BOOLEAN, last : Lcas]
  BY DetectFact DEF ReadHit, ReadThrough, vars, cvars, CacheInv, PlaceInv, TypeOK
<1>2. PlaceInv'
  BY <1>1, SamePlace DEF CacheInv, PlaceInv, TypeOK
<1>3. KeepInv => KeepInv'
  BY <1>1, SameGeometry
     DEF KeepInv, DirtyCached, DirtyFresh, DirtyWritten, WrittenThrough, NothingLost
<1>4. Gone /\ CachedLatest => Gone' /\ CachedLatest'
  BY <1>1, SameGeometry DEF Gone, CachedLatest, Expected
<1> QED
  BY <1>1, <1>2, <1>3, <1>4, SameGeometry DEF CacheInv

(* Without write caching the FTL has every write.                          *)
LEMMA WriteAroundInv ==
  ASSUME CacheInv, NEW lca \in Lcas, NEW size \in Sizes, WriteAround(lca, size)
  PROVE  CacheInv'
<1> USE DEF CacheInv
<1>1. TypeOK /\ lca \in Tags
  BY Geometry DEF PlaceInv, TypeOK
<1>2. /\ UNCHANGED <<conf, readDetect, prefetchTrigger, lastPrefetched, bSuperPage,
                     corrupted>>
      /\ ~conf.useWriteCaching /\ written' = written \union {lca}
      /\ cacheData' = AgedLines({lca})
      /\ ftl' = [AgedFTL({lca}) EXCEPT ![lca] = "fresh"]
  BY DEF WriteAround, HostWrites, pvars, Around
<1>3. /\ cacheData' \in [Slots -> Lines]
      /\ \A i \in Slots : /\ cacheData'[i].valid = cacheData[i].valid
                          /\ cacheData'[i].dirty = cacheData[i].dirty
                          /\ cacheData'[i].tag = cacheData[i].tag
  BY <1>1, <1>2, AgedLinesFact
<1>4. /\ ftl' \in [Tags -> Contents] /\ ftl'[lca] = "fresh"
      /\ \A t \in Tags \ {lca} : ftl'[t] = ftl[t]
  <2>1. /\ AgedFTL({lca}) \in [Tags -> Contents]
        /\ \A t \in Tags \ {lca} : AgedFTL({lca})[t] = ftl[t]
    BY <1>1, AgedFTLFact
  <2> QED
    BY <1>1, <1>2, <2>1 DEF Contents
<1>5. PlaceInv'
  <2>1. written' \subseteq Lcas /\ readDetect' \in [on : BOOLEAN, last : Lcas]
    BY <1>1, <1>2 DEF TypeOK
  <2> QED
    BY <1>2, <1>3, <1>4, <2>1, SamePlace
<1>6. Slots' = Slots /\ Tags' = Tags /\ written \subseteq Tags
  BY <1>1, <1>2, SameGeometry, Geometry DEF TypeOK
<1>7. KeepInv => KeepInv'
  <2> SUFFICES ASSUME KeepInv PROVE KeepInv'
    OBVIOUS
  <2>1. \A i \in Slots : ~cacheData'[i].dirty
    BY <1>2, <1>3 DEF KeepInv, DirtyCached
  <2>2. DirtyCached' /\ DirtyFresh' /\ DirtyWritten'
    BY <1>6, <2>1 DEF DirtyCached, DirtyFresh, DirtyWritten
  <2>3. \A t \in written' : ftl'[t] = "fresh"
    BY <1>2, <1>4, <1>6 DEF KeepInv, WrittenThrough
  <2> QED
    BY <2>2, <2>3 DEF KeepInv, WrittenThrough, NothingLost
<1>8. Gone /\ CachedLatest => Gone' /\ CachedLatest'
  BY <1>2, <1>4, <1>6 DEF Gone, CachedLatest
<1> QED
  BY <1>2, <1>5, <1>7, <1>8, SameGeometry

-----------------------------------------------------------------------------
(* flush, trim and format                                                  *)

(* A bounded non-empty set of numbers has a greatest element.              *)
LEMMA Greatest ==
  ASSUME NEW n \in Nat, NEW S \in SUBSET (0 .. n), S # {}
  PROVE  \E k \in S : \A m \in S : m <= k
<1> DEFINE T == {n - k : k \in S}
<1>1. T \in SUBSET Nat /\ T # {}
  <2>1. \A k \in S : k \in 0 .. n
    OBVIOUS
  <2>2. \A k \in S : n - k \in Nat
    BY <2>1
  <2> QED
    BY <2>2
<1>2. PICK x \in T : \A y \in T : ~(<<y, x>> \in OpToRel(<, Nat))
  BY <1>1, NatLessThanWellFounded, WFMin
<1>3. \A y \in T : ~(y < x)
  BY <1>1, <1>2 DEF OpToRel
<1>4. PICK k \in S : x = n - k
  BY <1>2
<1>5. \A m \in S : m <= k
  <2> SUFFICES ASSUME NEW m \in S PROVE m <= k
    OBVIOUS
  <2>1. ~(n - m < n - k)
    BY <1>3, <1>4
  <2> QED
    BY <2>1
<1> QED
  BY <1>4, <1>5

(* Of a non-empty set of slots one is visited last.                        *)
LEMMA LastSlot ==
  ASSUME conf \in Configs, NEW D \in SUBSET Slots, D # {}
  PROVE  \E i \in D : \A j \in D : Before(j, i)
<1>1. SetSize - 1 \in Nat /\ WaySize - 1 \in Nat
  BY Geometry
<1>2. \A i \in D : i[1] \in 0 .. SetSize - 1 /\ i[2] \in 0 .. WaySize - 1
  BY DEF Slots
<1> DEFINE X == {i[1] : i \in D}
<1>3. X \in SUBSET (0 .. SetSize - 1) /\ X # {}
  BY <1>2
<1>4. PICK x \in X : \A y \in X : y <= x
  BY <1>1, <1>3, Greatest
<1> DEFINE F == {i \in D : i[1] = x}
           Y == {i[2] : i \in F}
<1>5. Y \in SUBSET (0 .. WaySize - 1) /\ Y # {}
  BY <1>2, <1>4
<1>6. PICK y \in Y : \A z \in Y : z <= y
  BY <1>1, <1>5, Greatest
<1>7. PICK i \in F : i[2] = y
  BY <1>6
<1>8. ASSUME NEW j \in D PROVE Before(j, i)
  <2>1. i \in D /\ i[1] = x /\ j[1] <= x /\ j[1] \in Nat /\ x \in Nat
    BY <1>2, <1>3, <1>4, <1>7
  <2>2. j[1] = x => j[2] <= i[2]
    BY <1>6, <1>7
  <2> QED
    BY <2>1, <2>2 DEF Before
<1> QED
  BY <1>7, <1>8

(* What flush leaves in the FTL: the data of a dirty line of the range,    *)
(* and, where a page is one line, nothing else.                            *)
LEMMA FlushFact ==
  ASSUME TypeOK, NEW r
  PROVE  /\ FlushToFTL(r) \in [Tags -> Contents]
         /\ conf.lineCountInSuperPage = 1 =>
              \A t \in Tags :
                \/ \E i \in Flushed(r) : /\ cacheData[i].tag = t
                                         /\ FlushToFTL(r)[t] = cacheData[i].data
                \/ /\ \A i \in Flushed(r) : cacheData[i].tag # t
                   /\ FlushToFTL(r)[t] = ftl[t]
<1> DEFINE D == Flushed(r)
           L == LineCountInSuperPage
           own(t) == {i \in D : cacheData[i].tag = t}
           swept(t) == \E i \in D : /\ cacheData[i].tag \div L = t \div L
                                    /\ t % L \in FlagsAt(r, i)
           last(t) == CHOOSE i \in own(t) : \A j \in own(t) : Before(j, i)
           F == FlushToFTL(r)
<1>1. F = [t \in Tags |-> IF own(t) # {} THEN cacheData[last(t)].data
                          ELSE IF swept(t) THEN "stale" ELSE ftl[t]]
  BY DEF FlushToFTL
<1>2. D \in SUBSET Slots
  BY DEF Flushed, Matching
<1>3. ASSUME NEW t, own(t) # {}
      PROVE  last(t) \in own(t)
  <2>1. own(t) \in SUBSET Slots
    BY <1>2
  <2>2. \E i \in own(t) : \A j \in own(t) : Before(j, i)
    BY <1>3, <2>1, LastSlot DEF TypeOK
  <2> QED
    BY <2>2
<1>4. \A i \in D : cacheData[i] \in Lines
  BY <1>2 DEF TypeOK
<1> HIDE DEF F, D, L, last, swept
<1>5. \A t \in Tags :
        \/ \E i \in D : cacheData[i].tag = t /\ F[t] = cacheData[i].data
        \/ /\ \A i \in D : cacheData[i].tag # t
           /\ F[t] = IF swept(t) THEN "stale" ELSE ftl[t]
  BY <1>1, <1>3
<1>6. F \in [Tags -> Contents]
  <2>1. \A t \in Tags : F[t] \in Contents
    BY <1>4, <1>5 DEF TypeOK, Lines, Contents
  <2> QED
    BY <1>1, <2>1
<1>7. ASSUME conf.lineCountInSuperPage = 1, NEW t \in Tags,
             \A i \in D : cacheData[i].tag # t
      PROVE  ~swept(t)
  <2>1. t \in Nat /\ \A i \in D : cacheData[i].tag \in Nat
    BY <1>4, Geometry DEF TypeOK, Lines
  <2>2. \A m \in Nat : m \div 1 = m
    OBVIOUS
  <2> QED
    BY <1>7, <2>1, <2>2 DEF swept, L, LineCountInSuperPage
<1> QED
  BY <1>5, <1>6, <1>7 DEF F, D

(* flush keeps the invariant: what it writes again is the newest content.  *)
LEMMA FlushInv ==
  ASSUME CacheInv, NEW r, Flush(r)
  PROVE  CacheInv'
<1> USE DEF CacheInv
<1> DEFINE M == Matching(r)
<1>1. /\ UNCHANGED <<conf, readDetect, prefetchTrigger, lastPrefetched, bSuperPage,
                     corrupted, written>>
      /\ "flush" \in conf.commands
      /\ ftl' = FlushToFTL(r) /\ cacheData' = Invalid(cacheData, M)
  BY DEF Flush, Ready, pvars
<1>2. TypeOK
  BY DEF PlaceInv
<1>3. /\ cacheData' \in [Slots -> Lines]
      /\ \A i \in Slots :
           /\ cacheData'[i].valid = (cacheData[i].valid /\ i \notin M)
           /\ cacheData'[i].dirty = cacheData[i].dirty
           /\ cacheData'[i].tag = cacheData[i].tag
           /\ cacheData'[i].data = cacheData[i].data
  BY <1>1, <1>2, InvalidFact DEF TypeOK
<1>4. /\ ftl' \in [Tags -> Contents]
      /\ conf.lineCountInSuperPage = 1 =>
              \A t \in Tags :
                \/ \E i \in Flushed(r) : /\ cacheData[i].tag = t
                                         /\ ftl'[t] = cacheData[i].data
                \/ /\ \A i \in Flushed(r) : cacheData[i].tag # t
                   /\ ftl'[t] = ftl[t]
  BY <1>1, <1>2, FlushFact
<1>5. PlaceInv'
  BY <1>1, <1>2, <1>3, <1>4, SamePlace DEF TypeOK
<1>6. Slots' = Slots /\ Tags' = Tags /\ written \subseteq Tags
  BY <1>1, <1>2, SameGeometry, Geometry DEF TypeOK
<1>7. \A i : i \in Flushed(r) <=> i \in M /\ cacheData[i].dirty
  BY DEF Flushed
<1>8. M \subseteq Slots
  BY DEF Matching
<1> HIDE DEF M
<1>9. ASSUME KeepsData(conf), KeepInv
      PROVE  KeepInv'
  <2>1. DirtyCached'
    BY <1>1, <1>3, <1>6, <1>9 DEF KeepInv, DirtyCached
  <2>2. DirtyFresh'
    BY <1>1, <1>3, <1>6, <1>9 DEF KeepInv, DirtyFresh
  <2>3. DirtyWritten'
    BY <1>1, <1>3, <1>6, <1>9 DEF KeepInv, DirtyWritten
  <2>4. ASSUME NEW t \in written
        PROVE  \/ ftl'[t] = "fresh"
               \/ ftl'[t] = ftl[t] /\ \A i \in Flushed(r) : cacheData[i].tag # t
    <3>1. conf.lineCountInSuperPage = 1 /\ t \in Tags
      BY <1>1, <1>6, <1>9 DEF KeepsData
    <3> QED
      BY <1>1, <1>4, <1>7, <1>8, <1>9, <3>1 DEF KeepInv, DirtyFresh
  <2>5. WrittenThrough'
    BY <1>1, <1>9, <2>4 DEF KeepInv, WrittenThrough
  <2>6. NothingLost'
    <3> SUFFICES ASSUME NEW t \in written, ftl'[t] # "fresh"
                 PROVE  \E i \in Slots :
                          /\ cacheData'[i].valid /\ cacheData'[i].dirty
                          /\ cacheData'[i].tag = t /\ cacheData'[i].data = "fresh"
      BY <1>1, <1>6 DEF NothingLost
    <3>1. ftl[t] # "fresh" /\ \A i \in Flushed(r) : cacheData[i].tag # t
      BY <2>4
    <3>2. PICK i \in Slots : /\ cacheData[i].valid /\ cacheData[i].dirty
                             /\ cacheData[i].tag = t /\ cacheData[i].data = "fresh"
      BY <1>9, <3>1 DEF KeepInv, NothingLost
    <3>3. i \notin M
      BY <1>7, <3>1, <3>2
    <3> QED
      BY <1>3, <3>2, <3>3
  <2> QED
    BY <2>1, <2>2, <2>3, <2>5, <2>6 DEF KeepInv
<1>10. ASSUME DropsData(conf), KeepInv, Gone, CachedLatest
       PROVE  Gone' /\ CachedLatest'
  <2>1. conf.lineCountInSuperPage = 1 /\ "format" \notin conf.commands
    BY <1>1, <1>10 DEF DropsData, KeepsData
  <2>2. Gone'
    <3> SUFFICES ASSUME "trim" \notin conf.commands, NEW t \in Tags \ written
                 PROVE  ftl'[t] = "none"
      BY <1>1, <1>6 DEF Gone
    <3>1. \A i \in Flushed(r) : cacheData[i].tag \in written
      BY <1>7, <1>8, <1>10, <2>1 DEF KeepInv, DirtyWritten
    <3> QED
      BY <1>4, <1>10, <2>1, <3>1 DEF Gone
  <2>3. CachedLatest'
    BY <1>1, <1>3, <1>6, <1>10 DEF CachedLatest, Expected
  <2> QED
    BY <2>2, <2>3
<1>11. KeepsData(conf)' = KeepsData(conf) /\ DropsData(conf)' = DropsData(conf)
  BY <1>1, SameGeometry
<1> QED
  BY <1>5, <1>9, <1>10, <1>11 DEF DropsData

(* What a discard has in common: the lines in M are invalidated, the lines *)
(* of the range are no longer written, and of the FTL only these change.   *)
Discards(R, M) ==
  /\ UNCHANGED <<conf, readDetect, prefetchTrigger, lastPrefetched, bSuperPage,
                 corrupted>>
  /\ R \subseteq Lcas
  /\ written' = written \ R
  /\ cacheData' = Invalid(AgedLines(R), M)
  /\ ftl' \in [Tags -> Contents]

(* A discard keeps the lines in their sets and, if it goes no further than *)
(* its range in the FTL, what the host wrote elsewhere.                    *)
LEMMA DiscardsKeep ==
  ASSUME CacheInv, NEW R, NEW M, Discards(R, M),
         "trim" \in conf.commands \/ "format" \in conf.commands,
         KeepsData(conf) =>
           /\ \A i \in M : cacheData[i].tag \in R
           /\ conf.useWriteCaching =>
                \A i \in Slots : cacheData[i].valid /\ cacheData[i].tag \in R => i \in M
           /\ \A t \in Lcas \ R : ftl'[t] = ftl[t]
  PROVE  PlaceInv' /\ (KeepsData(conf) => KeepInv')
<1> USE DEF CacheInv
<1>1. TypeOK /\ conf' = conf /\ written' = written \ R /\ written \subseteq Lcas
  BY DEF PlaceInv, Discards, TypeOK
<1>2. /\ cacheData' \in [Slots -> Lines]
      /\ \A i \in Slots :
           /\ cacheData'[i].valid = (cacheData[i].valid /\ i \notin M)
           /\ cacheData'[i].dirty = cacheData[i].dirty
           /\ cacheData'[i].tag = cacheData[i].tag
           /\ cacheData[i].tag \notin R => cacheData'[i].data = cacheData[i].data
  <2> DEFINE A == AgedLines(R)
  <2>1. /\ A \in [Slots -> Lines]
        /\ \A i \in Slots :
             /\ A[i].valid = cacheData[i].valid
             /\ A[i].dirty = cacheData[i].dirty
             /\ A[i].tag = cacheData[i].tag
             /\ cacheData[i].tag \notin R => A[i].data = cacheData[i].data
    BY <1>1, AgedLinesFact
  <2>2. cacheData' = Invalid(A, M)
    BY DEF Discards
  <2> HIDE DEF A
  <2>3. /\ cacheData' \in [Slots -> Lines]
        /\ \A i \in Slots :
             /\ cacheData'[i].valid = (A[i].valid /\ i \notin M)
             /\ cacheData'[i].dirty = A[i].dirty
             /\ cacheData'[i].tag = A[i].tag
             /\ cacheData'[i].data = A[i].data
    BY <2>1, <2>2, InvalidFact
  <2> QED
    BY <2>1, <2>3
<1>3. PlaceInv'
  <2>1. /\ written' \subseteq Lcas /\ readDetect' \in [on : BOOLEAN, last : Lcas]
        /\ ftl' \in [Tags -> Contents]
    BY <1>1 DEF Discards, TypeOK
  <2>2. UNCHANGED <<conf, prefetchTrigger, lastPrefetched, bSuperPage, corrupted>>
    BY DEF Discards
  <2> QED
    BY <1>2, <2>1, <2>2, SamePlace
<1>4. Slots' = Slots
  BY <1>1, SameGeometry
<1>5. ASSUME KeepsData(conf)
      PROVE  KeepInv'
  <2>1. DirtyCached'
    BY <1>1, <1>2, <1>4, <1>5 DEF KeepInv, DirtyCached
  <2>2. DirtyFresh'
    BY <1>1, <1>2, <1>4, <1>5 DEF KeepInv, DirtyFresh
  <2>3. DirtyWritten'
    <3>1. ASSUME NEW i \in Slots, cacheData'[i].dirty, cacheData'[i].valid
          PROVE  cacheData'[i].tag \in written'
      <4>1. conf.useWriteCaching /\ cacheData[i].tag \in written
        BY <1>2, <1>5, <3>1 DEF KeepInv, DirtyCached, DirtyWritten
      <4> QED
        BY <1>1, <1>2, <1>5, <3>1, <4>1
    <3> QED
      BY <1>1, <1>4, <3>1 DEF DirtyWritten
  <2>4. \A t \in written' : t \in written /\ t \notin R /\ ftl'[t] = ftl[t]
    BY <1>1, <1>5
  <2>5. WrittenThrough'
    BY <1>1, <1>5, <2>4 DEF KeepInv, WrittenThrough
  <2>6. NothingLost'
    <3> SUFFICES ASSUME NEW t \in written', ftl'[t] # "fresh"
                 PROVE  \E i \in Slots :
                          /\ cacheData'[i].valid /\ cacheData'[i].dirty
                          /\ cacheData'[i].tag = t /\ cacheData'[i].data = "fresh"
      BY <1>4 DEF NothingLost
    <3>1. PICK i \in Slots : /\ cacheData[i].valid /\ cacheData[i].dirty
                             /\ cacheData[i].tag = t /\ cacheData[i].data = "fresh"
      BY <1>5, <2>4 DEF KeepInv, NothingLost
    <3>2. i \notin M /\ cacheData[i].tag \notin R
      BY <1>5, <2>4, <3>1
    <3> QED
      BY <1>2, <3>1, <3>2
  <2> QED
    BY <2>1, <2>2, <2>3, <2>5, <2>6 DEF KeepInv
<1> QED
  BY <1>3, <1>5

(* The lines of a range.                                                   *)
LEMMA RangeFact ==
  ASSUME conf \in Configs, NEW r \in Ranges
  PROVE  /\ RangeLcas(r) \subseteq Lcas /\ r.slpn \in Nat /\ r.nlp \in Nat \ {0}
         /\ \A t \in Tags : InRange(t, r) <=> t \in RangeLcas(r)
<1>1. /\ r.slpn \in Lcas /\ r.nlp \in 1 .. NumLines /\ r.slpn + r.nlp <= NumLines
      /\ NumLines \in Nat /\ Tags \subseteq Nat
  BY Geometry DEF Ranges
<1> QED
  BY <1>1 DEF RangeLcas, InRange, Lcas

(* trim keeps the invariant.                                               *)
LEMMA TrimInv ==
  ASSUME CacheInv, NEW r \in Ranges, Trim(r)
  PROVE  CacheInv'
<1> USE DEF CacheInv
<1> DEFINE R == RangeLcas(r)
           M == Matching(r)
           P == PagesOf({cacheData[i].tag \div LineCountInSuperPage : i \in M})
<1>1. TypeOK /\ conf' = conf /\ "trim" \in conf.commands
  BY DEF PlaceInv, Trim, Ready
<1>2. /\ R \subseteq Lcas /\ \A t \in Tags : InRange(t, r) <=> t \in R
  BY <1>1, RangeFact DEF TypeOK
<1>3. /\ AgedFTL(R) \in [Tags -> Contents]
      /\ \A t \in Tags \ R : AgedFTL(R)[t] = ftl[t]
  BY <1>1, AgedFTLFact
<1>4. ftl' = Drop(AgedFTL(R), P)
  BY DEF Trim
<1>5. \A i \in Slots : cacheData[i].tag \in Tags
  BY <1>1 DEF TypeOK, Lines
<1>6. M \subseteq Slots /\ \A i \in M : cacheData[i].tag \in R
  BY <1>2, <1>5 DEF Matching
<1>7. Discards(R, M)
  BY <1>2, <1>3, <1>4 DEF Discards, Trim, pvars, Drop, Contents
<1>8. ASSUME KeepsData(conf)
      PROVE  \A t \in Lcas \ R : ftl'[t] = ftl[t]
  <2> SUFFICES ASSUME NEW t \in Lcas \ R PROVE ftl'[t] = ftl[t]
    OBVIOUS
  <2>1. LineCountInSuperPage = 1
    BY <1>1, <1>8 DEF KeepsData, LineCountInSuperPage
  <2>2. t \in Tags /\ Tags \subseteq Nat
    BY <1>1, Geometry DEF TypeOK
  <2>3. \A m \in Nat : m \div 1 = m
    OBVIOUS
  <2>4. t \notin P
    BY <1>5, <1>6, <2>1, <2>2, <2>3 DEF PagesOf
  <2> QED
    BY <1>3, <1>4, <2>2, <2>4 DEF Drop
<1>9. conf.useWriteCaching =>
        \A i \in Slots : cacheData[i].valid /\ cacheData[i].tag \in R => i \in M
  BY <1>2, <1>5 DEF Matching, Caching
<1> HIDE DEF R, M, P
<1>10. PlaceInv' /\ (KeepsData(conf) => KeepInv')
  BY <1>1, <1>6, <1>7, <1>8, <1>9, DiscardsKeep
<1>11. Gone' /\ CachedLatest'
  BY <1>1 DEF Gone, CachedLatest
<1> QED
  BY <1>1, <1>10, <1>11, SameGeometry

(* format keeps the invariant: it discards the range everywhere.           *)
LEMMA FormatInv ==
  ASSUME CacheInv, NEW r \in Ranges, Format(r)
  PROVE  CacheInv'
<1> USE DEF CacheInv
<1> DEFINE R == RangeLcas(r)
           M == Formatted(r)
           P == PagesOf(FormatPages(r))
<1>1. TypeOK /\ Placed /\ conf' = conf /\ "format" \in conf.commands
  BY DEF PlaceInv, Format, Ready
<1>2. /\ R \subseteq Lcas /\ r.slpn \in Nat /\ r.nlp \in Nat \ {0}
      /\ \A t \in Tags : InRange(t, r) <=> t \in R
  BY <1>1, RangeFact DEF TypeOK
<1>3. /\ AgedFTL(R) \in [Tags -> Contents]
      /\ \A t \in Tags : AgedFTL(R)[t] = IF t \in R THEN Age(ftl[t]) ELSE ftl[t]
  BY <1>1, AgedFTLFact
<1>4. ftl' = Drop(AgedFTL(R), P)
  BY DEF Format
<1>5. \A i \in Slots : cacheData[i].tag \in Tags
  BY <1>1 DEF TypeOK, Lines
<1>6. M \subseteq Slots /\ \A i \in M : cacheData[i].tag \in R
  BY DEF Formatted, GetValidWay, SlotsOfSet
<1>7. Discards(R, M)
  BY <1>2, <1>3, <1>4 DEF Discards, Format, pvars, Drop, Contents
<1>8. ASSUME conf.lineCountInSuperPage = 1
      PROVE  \A t \in Tags : t \in P <=> t \in R
  <2>1. Tags \subseteq Nat
    BY <1>1, Geometry DEF TypeOK
  <2>2. \A m \in Nat : m \div 1 = m
    OBVIOUS
  <2>3. FormatPages(r) = r.slpn .. r.slpn + r.nlp - 1
    <3>1. r.nlp - 1 \in Nat
      BY <1>2
    <3>2. r.slpn \div 1 = r.slpn /\ (r.nlp - 1) \div 1 = r.nlp - 1
      BY <1>2, <2>2, <3>1
    <3>3. FormatPages(r) = r.slpn .. r.slpn + (r.nlp - 1 + 1) - 1
      BY <1>8, <3>2 DEF FormatPages, LineCountInSuperPage
    <3> QED
      BY <1>2, <3>3
  <2>4. \A t \in Tags : t \in P <=> t \in r.slpn .. r.slpn + r.nlp - 1
    BY <1>8, <2>1, <2>2, <2>3 DEF PagesOf, LineCountInSuperPage
  <2>5. \A t \in Tags : InRange(t, r) <=> t \in r.slpn .. r.slpn + r.nlp - 1
    BY <1>2, <2>1 DEF InRange
  <2> HIDE DEF P, R
  <2> QED
    BY <1>2, <2>4, <2>5
<1>9. conf.useWriteCaching =>
        \A i \in Slots : cacheData[i].valid /\ cacheData[i].tag \in R => i \in M
  BY <1>1 DEF Formatted, GetValidWay, SlotsOfSet, Placed, Caching
<1>10. KeepsData(conf) => conf.lineCountInSuperPage = 1
  BY <1>1 DEF KeepsData
<1>11. Lcas \subseteq Tags
  BY <1>1, Geometry DEF TypeOK
<1> HIDE DEF R, M, P
<1>12. KeepsData(conf) => \A t \in Lcas \ R : ftl'[t] = ftl[t]
  BY <1>3, <1>4, <1>8, <1>10, <1>11 DEF Drop
<1>13. PlaceInv' /\ (KeepsData(conf) => KeepInv')
  BY <1>1, <1>6, <1>7, <1>9, <1>12, DiscardsKeep
<1>14. written' = written \ R /\ Slots' = Slots /\ Tags' = Tags
  BY <1>1, <1>7, SameGeometry DEF Discards
<1>15. ASSUME DropsData(conf)
       PROVE  Gone' /\ CachedLatest'
  <2>1. Gone /\ CachedLatest /\ conf.lineCountInSuperPage = 1
    BY <1>10, <1>15 DEF DropsData
  <2>2. Gone'
    <3> SUFFICES ASSUME "trim" \notin conf.commands, NEW t \in Tags \ written'
                 PROVE  ftl'[t] = "none"
      BY <1>1, <1>14 DEF Gone
    <3>1. t \in R \/ ftl[t] = "none"
      BY <1>14, <2>1 DEF Gone
    <3> QED
      BY <1>3, <1>4, <1>8, <2>1, <3>1 DEF Drop, Age
  <2>3. CachedLatest'
    <3> SUFFICES ASSUME conf.useWriteCaching, "trim" \notin conf.commands,
                        NEW i \in Slots, cacheData'[i].valid
                 PROVE  cacheData'[i].data = IF cacheData'[i].tag \in written'
                                             THEN "fresh" ELSE "none"
      BY <1>1, <1>14 DEF CachedLatest, Expected
    <3> DEFINE A == AgedLines(R)
    <3>1. /\ A \in [Slots -> Lines]
          /\ A[i].valid = cacheData[i].valid
          /\ A[i].tag = cacheData[i].tag
          /\ cacheData[i].tag \notin R => A[i].data = cacheData[i].data
      BY <1>1, AgedLinesFact
    <3>2. cacheData' = Invalid(A, M)
      BY <1>7 DEF Discards
    <3> HIDE DEF A
    <3>3. /\ cacheData'[i].valid = (A[i].valid /\ i \notin M)
          /\ cacheData'[i].tag = A[i].tag
          /\ cacheData'[i].data = A[i].data
      BY <3>1, <3>2, InvalidFact
    <3>4. cacheData[i].valid /\ cacheData[i].tag \notin R
      BY <1>9, <3>1, <3>3
    <3> QED
      BY <1>14, <2>1, <3>1, <3>3, <3>4 DEF CachedLatest, Expected
  <2> QED
    BY <2>2, <2>3
<1> QED
  BY <1>1, <1>13, <1>15, SameGeometry

-----------------------------------------------------------------------------
(* Reads from NVM                                                          *)

(* What a read that misses, or prefetches, does: every way in S gets one   *)
(* line that was not cached, clean, with what the FTL holds; no other way, *)
(* and nothing in the FTL, changes.                                        *)
Refills(S, t) ==
  /\ ftl' = ftl
  /\ cacheData' \in [Slots -> Lines]
  /\ \A i \in S : /\ ~cacheData'[i].dirty
                  /\ cacheData'[i].tag = t[i] /\ cacheData'[i].data = ftl[t[i]]
                  /\ CalcSetIndex(t[i]) = i[1] /\ GetValidWay(cacheData, t[i]) = {}
  /\ \A i, j \in S : t[i] = t[j] => i = j
  /\ \A i \in Slots \ S : cacheData'[i] = cacheData[i]

(* The two loops of read have this effect; a dirty victim is clean before  *)
(* evictCache looks at it, so that none is written.                        *)
LEMMA LoopsRefill ==
  ASSUME TypeOK, NEW begin \in Nat, NEW n \in Nat \ {0},
         begin + n - 1 <= NumLines + 2 * LineCountInMaxIO,
         NEW w \in Claims(begin, n),
         ftl' = EvictToFTL(ftl, During(w, n + 1), EvictData(w, begin)),
         cacheData' = Fill(EvictLines(During(w, n + 1), EvictData(w, begin)),
                           ftl', w, begin)
  PROVE  \E S \in SUBSET Slots : \E t \in [S -> Tags] : Refills(S, t)
<1> DEFINE S == {i \in Slots : \E k \in 1 .. n : w[k] = i}
           ls == During(w, n + 1)
           E == EvictData(w, begin)
           last(i) == CHOOSE k \in DOMAIN w :
                        w[k] = i /\ \A m \in DOMAIN w : w[m] = i => m <= k
           t == [i \in S |-> begin + last(i) - 1]
<1>1. /\ w \in [1 .. n -> Slots \union {NoWay}] /\ DOMAIN w = 1 .. n
      /\ \A k \in 1 .. n : w[k] \in Claim(During(w, k), begin + k - 1)
  BY DEF Claims
<1>2. conf \in Configs /\ cacheData \in [Slots -> Lines] /\ ftl \in [Tags -> Contents]
  BY DEF TypeOK
<1>3. NoWay \notin Slots
  BY DEF NoWay, Slots
<1>4. \A i \in Slots : ls[i] = IF i \in S
                               THEN [cacheData[i] EXCEPT !.valid = TRUE,
                                                         !.dirty = FALSE]
                               ELSE cacheData[i]
  <2>1. 1 .. (n + 1) - 1 = 1 .. n
    OBVIOUS
  <2> QED
    BY <2>1 DEF During
<1>5. ls \in [Slots -> Lines]
  <2>1. ASSUME NEW i \in Slots PROVE ls[i] \in Lines
    <3>1. cacheData[i] \in Lines
      BY <1>2
    <3>2. [cacheData[i] EXCEPT !.valid = TRUE, !.dirty = FALSE] \in Lines
      BY <3>1 DEF Lines
    <3> HIDE DEF ls
    <3> QED
      BY <3>1, <3>2, <1>4
  <2>2. ls = [i \in Slots |-> ls[i]]
    BY DEF During
  <2> QED
    BY <2>1, <2>2
<1>5a. \A i \in S : ~ls[i].dirty
  <2> SUFFICES ASSUME NEW i \in S PROVE ~ls[i].dirty
    OBVIOUS
  <2>1. i \in Slots /\ cacheData[i] \in Lines
    BY <1>2
  <2>2. ls[i] = [cacheData[i] EXCEPT !.valid = TRUE, !.dirty = FALSE]
    BY <1>4, <2>1
  <2> HIDE DEF ls
  <2> QED
    BY <2>1, <2>2 DEF Lines
<1>6. E \in SUBSET S
  <2> SUFFICES ASSUME NEW i \in E PROVE i \in S
    OBVIOUS
  <2>1. PICK k \in 1 .. n : i = w[k] /\ w[k] # NoWay
    BY <1>1 DEF EvictData, Victim
  <2> QED
    BY <1>1, <2>1
<1>7. ftl' = ftl
  <2>1. E \in SUBSET Slots /\ \A i \in E : ~ls[i].dirty
    <3> HIDE DEF ls, E
    <3> QED
      BY <1>6, <1>5a
  <2> HIDE DEF ls, E
  <2>2. /\ EvictToFTL(ftl, ls, E) \in [Tags -> Contents]
        /\ \A x \in Tags : EvictToFTL(ftl, ls, E)[x] = ftl[x]
    BY <1>2, <1>5, <2>1, EvictToFTLFact
  <2>3. EvictToFTL(ftl, ls, E) = ftl
    BY <1>2, <2>2
  <2> QED
    BY <2>3 DEF ls, E
<1>8. ASSUME NEW i \in S
      PROVE  last(i) \in 1 .. n /\ w[last(i)] = i
  <2> DEFINE K == {k \in 1 .. n : w[k] = i}
  <2>1. K \in SUBSET (0 .. n) /\ K # {}
    OBVIOUS
  <2>2. \E k \in K : \A m \in K : m <= k
    BY <2>1, Greatest
  <2>3. \E k \in DOMAIN w : w[k] = i /\ \A m \in DOMAIN w : w[m] = i => m <= k
    BY <1>1, <2>2
  <2> QED
    BY <1>1, <2>3
<1> DEFINE ev == EvictLines(ls, E)
<1>9. /\ ev \in [Slots -> Lines]
      /\ \A i \in S : ~ev[i].dirty
      /\ \A i \in Slots \ S : ev[i] = cacheData[i]
  <2>1. /\ ev \in [Slots -> Lines]
        /\ \A i \in Slots : IF i \in E THEN ~ev[i].valid /\ ~ev[i].dirty
                            ELSE ev[i] = ls[i]
    <3> HIDE DEF ls, E
    <3> QED
      BY <1>2, <1>5, EvictLinesFact
  <2> HIDE DEF ev, ls, E
  <2>3. \A i \in S : i \in Slots /\ ~ev[i].dirty
    BY <2>1, <1>5a
  <2>4. \A i \in Slots \ S : ev[i] = cacheData[i]
    BY <1>4, <1>6, <2>1
  <2> QED
    BY <2>1, <2>3, <2>4
<1>10. cacheData' = [i \in Slots |->
                       IF \E k \in DOMAIN w : w[k] = i
                       THEN [ev[i] EXCEPT !.tag = begin + last(i) - 1,
                                          !.data = ftl[begin + last(i) - 1]]
                       ELSE ev[i]]
  <2>1. cacheData' = Fill(ev, ftl', w, begin)
    OBVIOUS
  <2>2. cacheData' = Fill(ev, ftl, w, begin)
    BY <1>7, <2>1
  <2> QED
    BY <2>2, Zenon DEF Fill
<1> HIDE DEF ev, last, ls, E
<1>11. \A i \in S : t[i] = begin + last(i) - 1 /\ t[i] \in Tags
  <2> SUFFICES ASSUME NEW i \in S PROVE begin + last(i) - 1 \in Tags
    OBVIOUS
  <2>1. last(i) \in 1 .. n
    BY <1>8
  <2>2. /\ begin + last(i) - 1 \in Nat /\ begin + last(i) - 1 <= begin + n - 1
        /\ begin + n - 1 \in Nat
    BY <2>1
  <2>3. NumLines + 2 * LineCountInMaxIO \in Nat
    BY <1>2, Geometry
  <2>4. begin + last(i) - 1 <= NumLines + 2 * LineCountInMaxIO
    BY <2>2, <2>3
  <2> QED
    BY <1>2, <2>2, <2>4, Geometry
<1>12. t \in [S -> Tags]
  BY <1>11
<1>13. ASSUME NEW i \in S
       PROVE  CalcSetIndex(t[i]) = i[1] /\ GetValidWay(cacheData, t[i]) = {}
  <2> DEFINE k == last(i)
             D == During(w, k)
  <2>1. k \in 1 .. n /\ w[k] = i /\ t[i] = begin + k - 1 /\ i # NoWay /\ i \in Slots
    BY <1>3, <1>8, <1>11
  <2>2. i \in Claim(D, t[i])
    BY <1>1, <2>1
  <2>3. \A j \in Slots : (cacheData[j].valid => D[j].valid) /\ D[j].tag = cacheData[j].tag
    BY <1>2 DEF During, Lines
  <2> HIDE DEF k, D, t
  <2>4. GetValidWay(D, t[i]) = {}
    BY <2>1, <2>2 DEF Claim
  <2>5. i \in SlotsOfSet(CalcSetIndex(t[i]))
    BY <2>2, <2>4 DEF Claim, GetEmptyWay
  <2> QED
    BY <2>3, <2>4, <2>5 DEF GetValidWay, SlotsOfSet
<1>14. \A i, j \in S : t[i] = t[j] => i = j
  <2> SUFFICES ASSUME NEW i \in S, NEW j \in S, t[i] = t[j] PROVE i = j
    OBVIOUS
  <2>1. last(i) \in 1 .. n /\ last(j) \in 1 .. n /\ w[last(i)] = i /\ w[last(j)] = j
    BY <1>8
  <2>2. begin + last(i) - 1 = begin + last(j) - 1
    BY <1>11
  <2>3. last(i) = last(j)
    BY <2>1, <2>2
  <2> QED
    BY <2>1, <2>3
<1>15. \A i \in Slots \ S : cacheData'[i] = cacheData[i]
  BY <1>1, <1>9, <1>10
<1>16. \A i \in S : /\ cacheData'[i] = [ev[i] EXCEPT !.tag = t[i], !.data = ftl[t[i]]]
                    /\ i \in Slots
  BY <1>1, <1>10, <1>11
<1>17. \A i \in S : /\ cacheData'[i] \in Lines /\ ~cacheData'[i].dirty
                    /\ cacheData'[i].tag = t[i] /\ cacheData'[i].data = ftl[t[i]]
  <2> SUFFICES ASSUME NEW i \in S
               PROVE  /\ cacheData'[i] \in Lines /\ ~cacheData'[i].dirty
                      /\ cacheData'[i].tag = t[i] /\ cacheData'[i].data = ftl[t[i]]
    OBVIOUS
  <2>1. ev[i] \in Lines /\ ~ev[i].dirty /\ t[i] \in Tags /\ ftl[t[i]] \in Contents
    BY <1>2, <1>9, <1>11
  <2> HIDE DEF t, S
  <2> QED
    BY <1>16, <2>1 DEF Lines
<1>18. cacheData' \in [Slots -> Lines]
  <2>1. \A i \in Slots : cacheData'[i] \in Lines
    BY <1>2, <1>15, <1>17
  <2> QED
    BY <1>10, <2>1
<1>19. Refills(S, t)
  <2> HIDE DEF S, t
  <2> QED
    BY <1>7, <1>13, <1>14, <1>15, <1>17, <1>18 DEF Refills
<1>20. S \in SUBSET Slots
  OBVIOUS
<1> HIDE DEF S, t
<1> QED
  BY <1>12, <1>19, <1>20

(* A read that misses, or prefetches, keeps the invariant: where it may    *)
(* replace a dirty line the FTL has the line already.                      *)
LEMMA RefillInv ==
  ASSUME CacheInv, NEW lca \in Lcas, NEW begin \in Nat,
         begin + Span <= NumLines + 2 * LineCountInMaxIO + 1,
         Ready("read"), conf.useReadCaching,
         readDetect' \in Detect(lca), ReadFromNVM(begin),
         UNCHANGED <<conf, bSuperPage, corrupted, written>>
  PROVE  CacheInv'
<1> USE DEF CacheInv
<1> DEFINE n == IF readDetect'.on THEN Span ELSE 1
<1>1. TypeOK /\ conf' = conf /\ bSuperPage' = bSuperPage /\ "read" \in conf.commands
  BY DEF PlaceInv, Ready
<1>2. /\ Span \in Nat \ {0} /\ Span <= LineCountInMaxIO /\ LineCountInMaxIO \in Nat
      /\ NumLines \in Nat
  BY <1>1, Geometry DEF TypeOK
<1>3. n \in Nat \ {0} /\ n <= Span
  BY <1>2
<1>4. begin + n - 1 <= NumLines + 2 * LineCountInMaxIO
  <2>1. 2 * LineCountInMaxIO \in Nat
    BY <1>2
  <2> HIDE DEF n
  <2> QED
    BY <1>2, <1>3, <2>1
<1>5. PICK S \in SUBSET Slots : \E t \in [S -> Tags] : Refills(S, t)
  <2>1. PICK w \in Claims(begin, n) :
          /\ ftl' = EvictToFTL(ftl, During(w, n + 1), EvictData(w, begin))
          /\ cacheData' = Fill(EvictLines(During(w, n + 1), EvictData(w, begin)),
                               ftl', w, begin)
    BY DEF ReadFromNVM
  <2> HIDE DEF n
  <2> QED
    BY <1>1, <1>3, <1>4, <2>1, LoopsRefill
<1>6. PICK t \in [S -> Tags] : Refills(S, t)
  BY <1>5
<1>7. /\ ftl' = ftl /\ cacheData' \in [Slots -> Lines]
      /\ \A i \in S : /\ ~cacheData'[i].dirty
                      /\ cacheData'[i].tag = t[i] /\ cacheData'[i].data = ftl[t[i]]
                      /\ CalcSetIndex(t[i]) = i[1] /\ GetValidWay(cacheData, t[i]) = {}
      /\ \A i, j \in S : t[i] = t[j] => i = j
      /\ \A i \in Slots \ S : cacheData'[i] = cacheData[i]
  BY <1>6 DEF Refills
<1>8. Slots' = Slots /\ Tags' = Tags
  BY <1>1, SameGeometry
<1>9. readDetect' \in [on : BOOLEAN, last : Lcas]
  BY <1>1, DetectFact
<1>10. prefetchTrigger' \in Nat /\ lastPrefetched' \in Nat /\ ReadAhead'
  <2>1. CASE readDetect'.on
    <3>1. prefetchTrigger' = begin + Span \div 2 /\ lastPrefetched' = begin + Span
      BY <2>1 DEF ReadFromNVM
    <3>2. Span \div 2 \in Nat
      BY <1>2
    <3>3. ASSUME prefetchTrigger' \in Lcas
          PROVE  lastPrefetched' + Span <= NumLines + 2 * LineCountInMaxIO
      <4>1. begin + Span \div 2 <= NumLines - 1
        BY <1>2, <3>1, <3>2, <3>3 DEF Lcas
      <4> QED
        BY <1>2, <3>1, <3>2, <4>1
    <3> QED
      BY <1>1, <1>2, <3>1, <3>2, <3>3, SameGeometry DEF ReadAhead
  <2>2. CASE ~readDetect'.on
    <3>1. UNCHANGED <<prefetchTrigger, lastPrefetched>>
      BY <2>2 DEF ReadFromNVM
    <3> QED
      BY <1>1, <3>1, SameGeometry DEF PlaceInv, ReadAhead, TypeOK
  <2> QED
    BY <2>1, <2>2
<1>11. TypeOK'
  BY <1>1, <1>7, <1>9, <1>10, SameGeometry DEF TypeOK
<1>12. Placed'
  BY <1>1, <1>7, SameGeometry DEF PlaceInv, Placed
<1>13. Unique'
  <2> SUFFICES ASSUME NEW i \in Slots, NEW j \in Slots, cacheData'[i].valid,
                      cacheData'[j].valid, cacheData'[i].tag = cacheData'[j].tag
               PROVE  i = j
    BY <1>8 DEF Unique
  <2>1. \A x \in S, y \in Slots : cacheData[y].valid => cacheData[y].tag # t[x]
    BY <1>1, <1>7, NotCached DEF PlaceInv
  <2>2. CASE i \in S /\ j \in S
    BY <1>7, <2>2
  <2>3. CASE i \notin S /\ j \notin S
    BY <1>7, <2>3 DEF PlaceInv, Unique
  <2>4. CASE (i \in S /\ j \notin S) \/ (i \notin S /\ j \in S)
    BY <1>7, <2>1, <2>4
  <2> QED
    BY <2>2, <2>3, <2>4
<1>14. PlaceInv'
  BY <1>10, <1>11, <1>12, <1>13 DEF PlaceInv, NeverCorrupted
<1>15. \A i \in Slots : cacheData'[i].dirty => cacheData'[i] = cacheData[i]
  BY <1>7
<1>16. ASSUME KeepsData(conf), KeepInv
       PROVE  \A x \in written : ftl[x] = "fresh"
  BY <1>1, <1>16 DEF KeepsData, KeepInv, WrittenThrough
<1>17. ASSUME KeepsData(conf), KeepInv
       PROVE  KeepInv'
  <2>1. DirtyCached' /\ DirtyFresh' /\ DirtyWritten'
    BY <1>1, <1>8, <1>15, <1>17 DEF KeepInv, DirtyCached, DirtyFresh, DirtyWritten
  <2>2. WrittenThrough' /\ NothingLost'
    BY <1>7, <1>16, <1>17 DEF WrittenThrough, NothingLost
  <2> QED
    BY <2>1, <2>2 DEF KeepInv
<1>18. ASSUME DropsData(conf), KeepInv, Gone, CachedLatest
       PROVE  Gone' /\ CachedLatest'
  <2>1. Gone'
    BY <1>1, <1>7, <1>8, <1>18 DEF Gone
  <2>2. CachedLatest'
    <3> SUFFICES ASSUME conf.useWriteCaching, "trim" \notin conf.commands,
                        NEW i \in Slots, cacheData'[i].valid
                 PROVE  cacheData'[i].data = IF cacheData'[i].tag \in written
                                             THEN "fresh" ELSE "none"
      BY <1>1, <1>8 DEF CachedLatest, Expected
    <3>1. CASE i \in S
      <4>1. \A x \in written : ftl[x] = "fresh"
        BY <1>16, <1>18 DEF DropsData
      <4>2. \A x \in Tags \ written : ftl[x] = "none"
        BY <1>18 DEF Gone
      <4>3. /\ t[i] \in Tags /\ cacheData'[i].tag = t[i]
            /\ cacheData'[i].data = ftl[t[i]]
        BY <1>7, <3>1
      <4> QED
        BY <4>1, <4>2, <4>3
    <3>2. CASE i \notin S
      BY <1>7, <1>18, <3>2 DEF CachedLatest, Expected
    <3> QED
      BY <3>1, <3>2
  <2> QED
    BY <2>1, <2>2
<1>19. KeepsData(conf)' = KeepsData(conf) /\ DropsData(conf)' = DropsData(conf)
  BY <1>1, SameGeometry
<1> QED
  BY <1>14, <1>17, <1>18, <1>19 DEF DropsData

-----------------------------------------------------------------------------
(* The theorems                                                            *)

(* An empty cache over an empty FTL satisfies the invariant.               *)
LEMMA CacheInit ==
  ASSUME Init
  PROVE  CacheInv
<1>1. conf \in Configs
  BY DEF Init
<1>2. /\ 0 \in Tags /\ 0 \in Lcas /\ NumLines \in Nat /\ LineCountInMaxIO \in Nat
  BY <1>1, Geometry
<1>3. NewLine \in Lines
  BY <1>2 DEF NewLine, Lines, Contents
<1>4. bSuperPage \in BOOLEAN
  BY DEF Init
<1>5. NoTrigger \in Nat /\ NoTrigger \notin Lcas
  BY <1>2 DEF NoTrigger, Lcas
<1>6. TypeOK
  BY <1>1, <1>2, <1>3, <1>4, <1>5 DEF Init, TypeOK, Contents
<1>7. \A i \in Slots : ~cacheData[i].valid /\ ~cacheData[i].dirty
  BY DEF Init, NewLine
<1>8. PlaceInv
  BY <1>5, <1>6, <1>7 DEF Init, PlaceInv, Placed, Unique, ReadAhead, NeverCorrupted
<1>9. KeepInv
  BY <1>7 DEF Init, KeepInv, DirtyCached, DirtyFresh, DirtyWritten, WrittenThrough,
              NothingLost
<1>10. Gone /\ CachedLatest
  BY <1>7 DEF Init, Gone, CachedLatest
<1> QED
  BY <1>8, <1>9, <1>10 DEF CacheInv

(* A cached write keeps the invariant.                                     *)
LEMMA StoresInv ==
  ASSUME CacheInv, NEW lca, NEW size, NEW x, NEW E, Stores(lca, size, x, E)
  PROVE  CacheInv'
<1>1. conf' = conf
  BY DEF Stores
<1> QED
  BY <1>1, StoresPlace, StoresKeep, StoresLatest, SameGeometry
     DEF CacheInv, DropsData

(* Every step of the cache keeps the invariant.                            *)
LEMMA CacheNext ==
  ASSUME CacheInv, [Next]_vars
  PROVE  CacheInv'
<1>1. TypeOK /\ PlaceInv
  BY DEF CacheInv, PlaceInv
<1>2. /\ Span \in Nat \ {0} /\ Span <= LineCountInMaxIO /\ LineCountInMaxIO \in Nat
      /\ NumLines \in Nat
  BY <1>1, Geometry DEF TypeOK
<1>3. ASSUME NEW lca \in Lcas, ReadPrefetch(lca)
      PROVE  CacheInv'
  <2>1. lastPrefetched \in Nat /\ lastPrefetched + Span <= NumLines + 2 * LineCountInMaxIO
    BY <1>1, <1>3 DEF ReadPrefetch, PlaceInv, ReadAhead, TypeOK
  <2>2. lastPrefetched + Span <= NumLines + 2 * LineCountInMaxIO + 1
    BY <1>2, <2>1
  <2> QED
    BY <1>3, <2>1, <2>2, RefillInv DEF ReadPrefetch
<1>4. ASSUME NEW lca \in Lcas, ReadMiss(lca)
      PROVE  CacheInv'
  <2>1. lca \in Nat /\ lca + Span <= NumLines + 2 * LineCountInMaxIO + 1
    BY <1>2 DEF Lcas
  <2> QED
    BY <1>4, <2>1, RefillInv DEF ReadMiss
<1>5. ASSUME NEW lca \in Lcas, NEW size \in Sizes,
             WriteHit(lca, size) \/ WriteEmpty(lca, size) \/ WriteEvict(lca, size)
      PROVE  CacheInv'
  <2>1. \E x, E : Stores(lca, size, x, E)
    BY <1>1, <1>5, WriteHitStores, WriteEmptyStores, WriteEvictStores
  <2> QED
    BY <2>1, StoresInv
<1>6. CASE UNCHANGED vars
  <2>1. /\ UNCHANGED <<conf, cacheData, ftl, readDetect, prefetchTrigger,
                       lastPrefetched, bSuperPage, corrupted, written>>
    BY <1>6 DEF vars
  <2>2. PlaceInv'
    BY <1>1, <2>1, SamePlace DEF PlaceInv, TypeOK
  <2>3. KeepInv => KeepInv'
    BY <2>1, SameGeometry
       DEF KeepInv, DirtyCached, DirtyFresh, DirtyWritten, WrittenThrough, NothingLost
  <2>4. Gone /\ CachedLatest => Gone' /\ CachedLatest'
    BY <2>1, SameGeometry DEF Gone, CachedLatest, Expected
  <2> QED
    BY <2>1, <2>2, <2>3, <2>4, SameGeometry DEF CacheInv
<1> QED
  BY <1>3, <1>4, <1>5, <1>6, ReadHitInv, WriteAroundInv, FlushInv, TrimInv, FormatInv
     DEF Next

(* The panic "Cache corrupted!" of write is unreachable, in every geometry *)
(* and every combination of modes, switches and commands: an eviction      *)
(* always frees a way of the set it was started for.                       *)
THEOREM EvictionFreesAWay == Spec => []NeverCorrupted
<1>1. CacheInv => NeverCorrupted
  BY DEF CacheInv, PlaceInv
<1>2. Init => CacheInv
  BY CacheInit
<1>3. CacheInv /\ [Next]_vars => CacheInv'
  BY CacheNext
<1> QED
  BY <1>1, <1>2, <1>3, PTL DEF Spec

(* In the configurations that keep data no order of writes, evictions,     *)
(* reads, flushes and discards loses what the host wrote last.             *)
THEOREM WrittenDataKept ==
  ASSUME \A c \in Configs : KeepsData(c)
  PROVE  Spec => []NothingLost
<1>1. CacheInv => NothingLost
  BY DEF CacheInv, PlaceInv, TypeOK, KeepInv
<1>2. Init => CacheInv
  BY CacheInit
<1>3. CacheInv /\ [Next]_vars => CacheInv'
  BY CacheNext
<1> QED
  BY <1>1, <1>2, <1>3, PTL DEF Spec

(* In the configurations without a flush after a format, what was          *)
(* formatted or never written is not in the FTL.                           *)
THEOREM DiscardedDataGone ==
  ASSUME \A c \in Configs : DropsData(c)
  PROVE  Spec => []DiscardedGone
<1>1. CacheInv => DiscardedGone
  BY Geometry DEF CacheInv, PlaceInv, TypeOK, Gone, DiscardedGone
<1>2. Init => CacheInv
  BY CacheInit
<1>3. CacheInv /\ [Next]_vars => CacheInv'
  BY CacheNext
<1> QED
  BY <1>1, <1>2, <1>3, PTL DEF Spec

(* In these configurations, and without trims, a read returns what was     *)
(* written last, whether the cache or the FTL holds it.                    *)
THEOREM ReadsReturnLatest ==
  ASSUME \A c \in Configs : DropsData(c) /\ "trim" \notin c.commands
  PROVE  Spec => []ReadsLatest
<1>1. ASSUME CacheInv
      PROVE  ReadsLatest
  <2> SUFFICES ASSUME conf.useReadCaching, conf.useWriteCaching, NEW lca \in Lcas
               PROVE  Seen(lca) = {IF lca \in written THEN "fresh" ELSE "none"}
    BY DEF ReadsLatest
  <2>1. /\ TypeOK /\ Placed /\ NothingLost /\ Gone /\ CachedLatest
        /\ "trim" \notin conf.commands
    BY <1>1 DEF CacheInv, PlaceInv, TypeOK, KeepInv, DropsData
  <2>2. CASE GetValidWay(cacheData, lca) # {}
    <3>1. \A i \in GetValidWay(cacheData, lca) :
            cacheData[i].data = IF lca \in written THEN "fresh" ELSE "none"
      BY <2>1 DEF GetValidWay, SlotsOfSet, CachedLatest, Expected
    <3>2. Seen(lca) = {cacheData[i].data : i \in GetValidWay(cacheData, lca)}
      BY <2>2 DEF Seen
    <3> QED
      BY <2>2, <3>1, <3>2
  <2>3. CASE GetValidWay(cacheData, lca) = {}
    <3>1. \A i \in Slots : cacheData[i].valid => cacheData[i].tag # lca
      BY <2>1, <2>3, NotCached
    <3>2. lca \in Tags
      BY <2>1, Geometry DEF TypeOK
    <3>3. ftl[lca] = IF lca \in written THEN "fresh" ELSE "none"
      BY <2>1, <3>1, <3>2 DEF NothingLost, Gone
    <3> QED
      BY <2>3, <3>3 DEF Seen
  <2> QED
    BY <2>2, <2>3
<1>2. Init => CacheInv
  BY CacheInit
<1>3. CacheInv /\ [Next]_vars => CacheInv'
  BY CacheNext
<1> QED
  BY <1>1, <1>2, <1>3, PTL DEF Spec

(* In the configurations that keep data, when flush returns the FTL has    *)
(* the newest content of the whole range.                                  *)
THEOREM FlushReachesFTL ==
  ASSUME \A c \in Configs : KeepsData(c)
  PROVE  Spec => FlushDrains
<1> DEFINE Drained == \A r \in Ranges : Flush(r) =>
                        \A lca \in written : InRange(lca, r) => ftl'[lca] = "fresh"
<1>1. ASSUME CacheInv, [Next]_vars
      PROVE  Drained
  <2> SUFFICES ASSUME NEW r \in Ranges, Flush(r), NEW lca \in written,
                      InRange(lca, r), ftl'[lca] # "fresh"
               PROVE  FALSE
    OBVIOUS
  <2>1. CacheInv' /\ TypeOK /\ conf' = conf /\ written' = written
    BY <1>1, CacheNext DEF CacheInv, PlaceInv, Flush
  <2>2. KeepInv' /\ Slots' = Slots
    BY <2>1, SameGeometry DEF CacheInv, PlaceInv, TypeOK
  <2>3. PICK i \in Slots : cacheData'[i].valid /\ cacheData'[i].dirty
                           /\ cacheData'[i].tag = lca
    BY <2>1, <2>2 DEF KeepInv, NothingLost
  <2>4. conf.useWriteCaching
    BY <2>1, <2>2, <2>3 DEF KeepInv, DirtyCached
  <2>5. cacheData' = Invalid(cacheData, Matching(r))
    BY DEF Flush
  <2>6. /\ cacheData'[i].valid = (cacheData[i].valid /\ i \notin Matching(r))
        /\ cacheData'[i].tag = cacheData[i].tag
    BY <2>1, <2>5, InvalidFact DEF TypeOK
  <2>7. i \in Matching(r)
    BY <2>3, <2>4, <2>6 DEF Matching, Caching
  <2> QED
    BY <2>3, <2>6, <2>7
<1>2. Init => CacheInv
  BY CacheInit
<1>3. CacheInv /\ [Next]_vars => CacheInv'
  BY CacheNext
<1>4. CacheInv /\ [Next]_vars => [Drained]_vars
  BY <1>1
<1> HIDE DEF Drained
<1>5. Spec => [][Drained]_vars
  BY <1>2, <1>3, <1>4, PTL DEF Spec
<1> QED
  BY <1>5 DEF FlushDrains, Drained
=============================================================================
