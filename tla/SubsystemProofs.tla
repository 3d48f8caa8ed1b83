-------------------------- MODULE SubsystemProofs --------------------------
(***************************************************************************)
(* Proofs about the two subsystems of an NVMe controller, which have no    *)
(* state in common.                                                        *)
(*                                                                         *)
(* NVMeSubsystem, for every size of the device, every set of formats and   *)
(* every workload: the namespaces stay apart (SpaceInv), and a read        *)
(* returns the newest answered write (ImageInv).                           *)
(*                                                                         *)
(* OpenChannel, for every geometry, every latency of the flash and every   *)
(* list of commands in flight.  The loops of mergeList, writeInternal and  *)
(* eraseInternal are recursive functions; StaysIn says that such a loop    *)
(* stays in a set that each of its turns stays in.  With it every chunk    *)
(* stays good (GoodChunk), which is ProgramOnce, and StoreInv follows a    *)
(* vector write from its mask to the blocks it stores.                     *)
(***************************************************************************)
EXTENDS NVMeSubsystem, OpenChannel, FiniteSetTheorems, SequenceTheorems,
        WellFoundedInduction, TLAPS

-----------------------------------------------------------------------------
(* Numbers, least elements and sums *)

(* Every nonempty set of natural numbers has a least element.              *)
LEMMA NatLeast ==
  ASSUME NEW S, S \subseteq Nat, S # {}
  PROVE  \E i \in S : \A j \in S : i <= j
<1>1. PICK i \in S : \A j \in S : ~ (<<j, i>> \in OpToRel(<, Nat))
  BY NatLessThanWellFounded, WFMin
<1>2. \A j \in S : ~ (j < i)
  BY <1>1 DEF OpToRel
<1> QED
  BY <1>2

(* Min is that element.                                                    *)
LEMMA MinFact ==
  ASSUME NEW S, S \subseteq Nat, S # {}
  PROVE  Min(S) \in S /\ \A j \in S : Min(S) <= j
<1>1. \E i \in S : \A j \in S : i =< j
  BY NatLeast
<1> QED
  BY <1>1 DEF Min

(* A set that holds 0 and the successor of each of its members below n     *)
(* holds everything up to n.                                               *)
LEMMA UpTo ==
  ASSUME NEW n \in Nat, NEW G, 0 \in G, \A k \in 1..n : k - 1 \in G => k \in G
  PROVE  0..n \subseteq G
<1> DEFINE Bad == {k \in 0..n : k \notin G}
<1>1. SUFFICES ASSUME Bad # {} PROVE FALSE
  OBVIOUS
<1>2. Bad \subseteq Nat
  OBVIOUS
<1>3. PICK k \in Bad : \A j \in Bad : k <= j
  <2> HIDE DEF Bad
  <2> QED
    BY <1>1, <1>2, NatLeast
<1>4. k \in 1..n /\ k - 1 \in 0..n /\ k \notin G /\ ~ (k <= k - 1)
  BY <1>3
<1>5. k - 1 \in G
  BY <1>3, <1>4
<1> QED
  BY <1>4, <1>5

(* Max of a set of numbers up to n.                                        *)
LEMMA MaxFact ==
  ASSUME NEW n \in Nat, NEW S, S \subseteq 0..n, S # {}
  PROVE  Max(S) \in S /\ \A j \in S : j <= Max(S)
<1> DEFINE D == {n - j : j \in S}
<1>1. D \subseteq Nat /\ D # {}
  <2>1. PICK y \in S : TRUE
    OBVIOUS
  <2>2. n - y \in D
    OBVIOUS
  <2>3. \A j \in S : n - j \in Nat
    OBVIOUS
  <2> QED
    BY <2>2, <2>3
<1>2. PICK d \in D : \A e \in D : d <= e
  <2> HIDE DEF D
  <2> QED
    BY <1>1, NatLeast
<1>3. PICK x \in S : d = n - x
  BY <1>2
<1>4. \A j \in S : x >= j
  <2> SUFFICES ASSUME NEW j \in S PROVE x >= j
    OBVIOUS
  <2>1. n - j \in D /\ j \in 0..n /\ x \in 0..n
    OBVIOUS
  <2>2. n - x <= n - j
    BY <1>2, <1>3, <2>1
  <2> QED
    BY <2>1, <2>2
<1>5. Max(S) \in S /\ \A j \in S : Max(S) >= j
  BY <1>3, <1>4 DEF Max
<1>6. S \subseteq Int
  OBVIOUS
<1> QED
  BY <1>5, <1>6

(* s holds the partial sums of v.                                          *)
IsRow(s, v, n) ==
  /\ s \in [0..n -> Int] /\ s[0] = 0
  /\ \A k \in 1..n : s[k] = s[k - 1] + v[k]

(* Partial sums exist.                                                     *)
LEMMA RowExists ==
  ASSUME NEW n \in Nat, NEW v \in [1..n -> Int]
  PROVE  \E s : IsRow(s, v, n)
<1> DEFINE G == {m \in 0..n : \E s : IsRow(s, v, m)}
<1>1. 0 \in G
  <2>1. IsRow([k \in 0..0 |-> 0], v, 0)
    BY DEF IsRow
  <2> QED
    BY <2>1
<1>2. ASSUME NEW m \in 1..n, m - 1 \in G
      PROVE  m \in G
  <2>1. PICK s : IsRow(s, v, m - 1)
    BY <1>2
  <2> DEFINE t == [k \in 0..m |-> IF k = m THEN s[m - 1] + v[m] ELSE s[k]]
  <2>2. s \in [0..(m - 1) -> Int] /\ s[0] = 0 /\ v[m] \in Int
    BY <2>1 DEF IsRow
  <2>3. t \in [0..m -> Int] /\ t[0] = 0
    BY <2>2
  <2>4. \A k \in 1..m : t[k] = t[k - 1] + v[k]
    <3> SUFFICES ASSUME NEW k \in 1..m PROVE t[k] = t[k - 1] + v[k]
      OBVIOUS
    <3>1. CASE k = m
      BY <3>1
    <3>2. CASE k # m
      <4>1. k \in 1..(m - 1) /\ k \in 0..m /\ k - 1 \in 0..m /\ k - 1 # m
        BY <3>2
      <4> QED
        BY <4>1, <3>2, <2>1 DEF IsRow
    <3> QED
      BY <3>1, <3>2
  <2> HIDE DEF t
  <2>5. IsRow(t, v, m)
    BY <2>3, <2>4 DEF IsRow
  <2> QED
    BY <2>5
<1> HIDE DEF G
<1>3. 0..n \subseteq G
  BY <1>1, <1>2, UpTo
<1>4. n \in G
  BY <1>3
<1> QED
  BY <1>4 DEF G

(* u is v with the summand x put in at position p.                         *)
Inserted(v, u, n, p, x) ==
  /\ p \in 1..(n + 1) /\ x \in Int /\ v \in [1..n -> Int] /\ u \in [1..(n + 1) -> Int]
  /\ \A k \in 1..n : k < p => u[k] = v[k]
  /\ \A k \in 1..n : k >= p => u[k + 1] = v[k]
  /\ u[p] = x

(* It raises the sum by x.                                                 *)
LEMMA RowInsert ==
  ASSUME NEW n \in Nat, NEW p, NEW x, NEW v, NEW u, Inserted(v, u, n, p, x),
         NEW s, NEW t, IsRow(s, v, n), IsRow(t, u, n + 1)
  PROVE  t[n + 1] = s[n] + x
<1>0. /\ p \in 1..(n + 1) /\ x \in Int /\ v \in [1..n -> Int] /\ u \in [1..(n + 1) -> Int]
      /\ \A k \in 1..n : k < p => u[k] = v[k]
      /\ \A k \in 1..n : k >= p => u[k + 1] = v[k]
      /\ u[p] = x
  BY DEF Inserted
<1> DEFINE G == {k \in 0..n : (k < p => t[k] = s[k])
                              /\ (k >= p - 1 => t[k + 1] = s[k] + x)}
<1>1. /\ s \in [0..n -> Int] /\ s[0] = 0 /\ \A k \in 1..n : s[k] = s[k - 1] + v[k]
      /\ t \in [0..(n + 1) -> Int] /\ t[0] = 0
      /\ \A k \in 1..(n + 1) : t[k] = t[k - 1] + u[k]
  BY DEF IsRow
<1>2. 0 \in G
  <2>1. p - 1 = 0 => t[1] = t[0] + u[1] /\ u[1] = x
    BY <1>0, <1>1
  <2> QED
    BY <2>1, <1>0, <1>1
<1>3. ASSUME NEW k \in 1..n, k - 1 \in G
      PROVE  k \in G
  <2>1. /\ k - 1 < p => t[k - 1] = s[k - 1]
        /\ k - 1 >= p - 1 => t[k] = s[k - 1] + x
    BY <1>3
  <2>0. /\ k \in 0..n /\ k - 1 \in 0..n /\ k \in 1..(n + 1) /\ k + 1 \in 1..(n + 1)
        /\ k \in 0..(n + 1) /\ k - 1 \in 0..(n + 1) /\ (k + 1) - 1 = k
    BY <1>0
  <2>2. /\ s[k] = s[k - 1] + v[k] /\ t[k] = t[k - 1] + u[k]
        /\ t[k + 1] = t[(k + 1) - 1] + u[k + 1] /\ t[k + 1] = t[k] + u[k + 1]
    <3>1. t[k + 1] = t[(k + 1) - 1] + u[k + 1]
      BY <1>1, <2>0
    <3>2. s[k] = s[k - 1] + v[k] /\ t[k] = t[k - 1] + u[k]
      BY <1>1, <2>0
    <3> QED
      BY <3>1, <3>2, <2>0
  <2>3. /\ s[k] \in Int /\ s[k - 1] \in Int /\ t[k] \in Int /\ t[k - 1] \in Int
        /\ v[k] \in Int /\ u[k] \in Int /\ u[k + 1] \in Int
    BY <1>0, <1>1, <2>0
  <2>4. CASE k < p
    <3>1. u[k] = v[k] /\ t[k] = s[k]
      BY <1>0, <2>1, <2>2, <2>3, <2>4
    <3>2. k >= p - 1 => k + 1 = p
      BY <1>0, <2>4
    <3>3. k >= p - 1 => t[k + 1] = s[k] + x
      BY <1>0, <2>2, <3>1, <3>2
    <3> QED
      BY <1>0, <2>0, <3>1, <3>3
  <2>5. CASE k >= p
    <3>1. u[k + 1] = v[k] /\ t[k] = s[k - 1] + x
      BY <1>0, <2>1, <2>5
    <3>2. t[k + 1] = s[k] + x
      BY <1>0, <2>2, <2>3, <3>1
    <3> QED
      BY <1>0, <2>0, <2>5, <3>2
  <2> QED
    BY <1>0, <2>4, <2>5
<1> HIDE DEF G
<1>4. 0..n \subseteq G
  BY <1>2, <1>3, UpTo
<1>5. n \in G
  BY <1>4
<1> QED
  BY <1>0, <1>5 DEF G

(* Equal summands have equal sums.                                         *)
LEMMA RowSame ==
  ASSUME NEW n \in Nat, NEW v, NEW s, NEW t, IsRow(s, v, n), IsRow(t, v, n)
  PROVE  s[n] = t[n]
<1> DEFINE G == {k \in 0..n : s[k] = t[k]}
<1>1. 0 \in G
  BY DEF IsRow
<1>2. ASSUME NEW k \in 1..n, k - 1 \in G
      PROVE  k \in G
  <2>1. s[k] = s[k - 1] + v[k] /\ t[k] = t[k - 1] + v[k]
    BY DEF IsRow
  <2> QED
    BY <1>2, <2>1
<1> HIDE DEF G
<1>3. 0..n \subseteq G
  BY <1>1, <1>2, UpTo
<1>4. n \in G
  BY <1>3
<1> QED
  BY <1>4 DEF G

-----------------------------------------------------------------------------
(* Lists                                                                   *)

(* RemoveAt drops position k and shifts what is behind it.                 *)
LEMMA RemoveAtLemma ==
  ASSUME NEW S, NEW s \in Seq(S), NEW k \in 1..Len(s)
  PROVE  /\ RemoveAt(s, k) \in Seq(S)
         /\ Len(RemoveAt(s, k)) = Len(s) - 1
         /\ \A j \in 1..(Len(s) - 1) :
              RemoveAt(s, k)[j] = IF j < k THEN s[j] ELSE s[j + 1]
<1> DEFINE front == SubSeq(s, 1, k - 1)
           back  == SubSeq(s, k + 1, Len(s))
<1>1. /\ front \in Seq(S) /\ Len(front) = k - 1
      /\ \A j \in 1..(k - 1) : front[j] = s[j]
  BY SubSeqProperties
<1>2. /\ back \in Seq(S) /\ Len(back) = Len(s) - k
      /\ \A j \in 1..(Len(s) - k) : back[j] = s[j + k]
  BY SubSeqProperties
<1>3. RemoveAt(s, k) = front \o back
  BY DEF RemoveAt
<1> HIDE DEF front, back
<1>4. /\ front \o back \in Seq(S)
      /\ Len(front \o back) = Len(s) - 1
      /\ \A j \in 1..(Len(s) - 1) :
           (front \o back)[j] = IF j <= k - 1 THEN front[j]
                                ELSE back[j - (k - 1)]
  <2>1. /\ front \o back \in Seq(S)
        /\ Len(front \o back) = Len(front) + Len(back)
        /\ \A j \in 1..(Len(front) + Len(back)) :
             (front \o back)[j] = IF j <= Len(front) THEN front[j]
                                  ELSE back[j - Len(front)]
    BY <1>1, <1>2, ConcatProperties
  <2> QED
    BY <2>1, <1>1, <1>2
<1>5. ASSUME NEW j \in 1..(Len(s) - 1)
      PROVE  (front \o back)[j] = IF j < k THEN s[j] ELSE s[j + 1]
  <2>1. CASE j < k
    BY <2>1, <1>1, <1>4
  <2>2. CASE ~(j < k)
    <3>1. j - (k - 1) \in 1..(Len(s) - k) /\ j - (k - 1) + k = j + 1
      BY <2>2
    <3> QED
      BY <2>2, <3>1, <1>2, <1>4
  <2> QED
    BY <2>1, <2>2
<1> QED
  BY <1>3, <1>4, <1>5

(* InsertAt puts e at position k and shifts what was there.                *)
LEMMA InsertAtLemma ==
  ASSUME NEW S, NEW s \in Seq(S), NEW k \in 1..(Len(s) + 1), NEW e \in S
  PROVE  /\ InsertAt(s, k, e) \in Seq(S)
         /\ Len(InsertAt(s, k, e)) = Len(s) + 1
         /\ \A j \in 1..(Len(s) + 1) :
              InsertAt(s, k, e)[j] = IF j < k THEN s[j]
                                     ELSE IF j = k THEN e ELSE s[j - 1]
<1> DEFINE front == SubSeq(s, 1, k - 1)
           back  == SubSeq(s, k, Len(s))
<1>1. /\ front \in Seq(S) /\ Len(front) = k - 1
      /\ \A j \in 1..(k - 1) : front[j] = s[j]
  BY SubSeqProperties
<1>2. /\ back \in Seq(S) /\ Len(back) = Len(s) - k + 1
      /\ \A j \in 1..(Len(s) - k + 1) : back[j] = s[j + k - 1]
  BY SubSeqProperties
<1>3. InsertAt(s, k, e) = front \o <<e>> \o back
  BY DEF InsertAt
<1> HIDE DEF front, back
<1>4. /\ front \o <<e>> \in Seq(S)
      /\ Len(front \o <<e>>) = k
      /\ \A j \in 1..k : (front \o <<e>>)[j] = IF j < k THEN s[j] ELSE e
  BY <1>1, ConcatProperties
<1> QED
  BY <1>2, <1>3, <1>4, ConcatProperties

-----------------------------------------------------------------------------
(* The space of the device *)

Tables == UNION {[B -> Nat] : B \in SUBSET Nat}
Disks == {NoDisk} \cup [table : Tables]
Objects == [nsid : Nat, slpn : Nat, nlp : Nat \ {0}, size : Nat,
            format : DOMAIN LBASize, attached : BOOLEAN, disk : Disks,
            formatted : BOOLEAN]

(* What is known of a namespace.                                           *)
LEMMA ObjectFact ==
  ASSUME NEW o \in Objects
  PROVE  /\ o.nsid \in Nat /\ o.slpn \in Nat /\ o.nlp \in Nat /\ o.nlp > 0
         /\ o.size \in Nat /\ o.format \in DOMAIN LBASize /\ o.disk \in Disks
         /\ o.attached \in BOOLEAN /\ o.formatted \in BOOLEAN
  BY DEF Objects

SpaceTypes(list, obj, alloc) ==
  obj \in Seq(Objects) /\ list \in Seq(1..Len(obj)) /\ alloc \in Int

Before(o, q) == o.slpn + o.nlp <= q.slpn

Apart(list, obj) ==
  /\ \A k \in 1..Len(list) : obj[list[k]].slpn + obj[list[k]].nlp <= TotalPages
  /\ \A k, m \in 1..Len(list) :
       k # m => \/ Before(obj[list[k]], obj[list[m]])
                \/ Before(obj[list[m]], obj[list[k]])

Exact(list, obj, alloc) ==
  (\A i \in 1..Len(obj) : Whole(obj[i])) => alloc = PagesOf(list, obj)

(* As long as it is not formatted a namespace has the pages it asked for.  *)
Sized(obj) ==
  \A i \in 1..Len(obj) :
    ~obj[i].formatted => obj[i].nlp = Requested(obj[i].size, obj[i].format)

Space(list, obj, alloc) ==
  /\ SpaceTypes(list, obj, alloc) /\ Apart(list, obj)
  /\ Exact(list, obj, alloc) /\ Sized(obj)

SpaceInv == Space(lNamespaces, object, allocated)

(* The pages of the k-th namespace of the list.                            *)
Sizes(list, obj) == [k \in 1..Len(list) |-> obj[list[k]].nlp]

(* PagesOf is the last of the partial sums.                                *)
LEMMA PagesFact ==
  ASSUME NEW obj \in Seq(Objects), NEW list \in Seq(1..Len(obj))
  PROVE  /\ Len(list) \in Nat
         /\ Sizes(list, obj) \in [1..Len(list) -> Int]
         /\ \E s : IsRow(s, Sizes(list, obj), Len(list)) /\ PagesOf(list, obj) = s[Len(list)]
<1> DEFINE n == Len(list)
           v == Sizes(list, obj)
           R(s) == s = [k \in 0..n |-> IF k = 0 THEN 0 ELSE s[k - 1] + obj[list[k]].nlp]
           sum == CHOOSE s : R(s)
<1>1. n \in Nat /\ \A k \in 1..n : list[k] \in 1..Len(obj) /\ obj[list[k]].nlp \in Nat
  <2>1. \A k \in 1..n : list[k] \in 1..Len(obj)
    OBVIOUS
  <2>2. \A i \in 1..Len(obj) : obj[i] \in Objects
    OBVIOUS
  <2> QED
    BY <2>1, <2>2, ObjectFact
<1>2. v \in [1..n -> Int] /\ \A k \in 1..n : v[k] = obj[list[k]].nlp
  BY <1>1 DEF Sizes
<1>3. PagesOf(list, obj) = sum[n]
  BY DEF PagesOf
<1> HIDE DEF v
<1>4. PICK r : IsRow(r, v, n)
  BY <1>1, <1>2, RowExists
<1>5. R(r)
  <2>1. \A k \in 0..n : r[k] = IF k = 0 THEN 0 ELSE r[k - 1] + obj[list[k]].nlp
    BY <1>1, <1>2, <1>4 DEF IsRow
  <2>2. r = [k \in 0..n |-> r[k]]
    BY <1>4 DEF IsRow
  <2> QED
    BY <2>1, <2>2
<1>6. R(sum)
  BY <1>5
<1> HIDE DEF sum
<1>7. DOMAIN sum = 0..n
  BY <1>6
<1>8. \A k \in 0..n : sum[k] = IF k = 0 THEN 0 ELSE sum[k - 1] + obj[list[k]].nlp
  BY <1>6
<1>9. \A k \in 0..n : sum[k] = r[k]
  <2> DEFINE G == {k \in 0..n : sum[k] = r[k]}
  <2>1. 0 \in G
    BY <1>1, <1>4, <1>8 DEF IsRow
  <2>2. ASSUME NEW k \in 1..n, k - 1 \in G PROVE k \in G
    <3>0. k \in 0..n /\ k # 0
      BY <1>1
    <3>1. sum[k] = sum[k - 1] + v[k]
      BY <3>0, <1>2, <1>8
    <3>2. r[k] = r[k - 1] + v[k]
      BY <1>4 DEF IsRow
    <3>3. sum[k - 1] = r[k - 1]
      BY <2>2
    <3> QED
      BY <3>0, <3>1, <3>2, <3>3
  <2> HIDE DEF G
  <2>3. 0..n \subseteq G
    BY <1>1, <2>1, <2>2, UpTo
  <2> QED
    BY <2>3 DEF G
<1>10. PagesOf(list, obj) = r[n]
  BY <1>1, <1>3, <1>9
<1> QED
  BY <1>1, <1>2, <1>4, <1>10 DEF v

(* Namespaces of the same sizes have as many pages.                        *)
LEMMA PagesSame ==
  ASSUME NEW obj \in Seq(Objects), NEW list \in Seq(1..Len(obj)),
         NEW o2 \in Seq(Objects), list \in Seq(1..Len(o2)),
         \A k \in 1..Len(list) : o2[list[k]].nlp = obj[list[k]].nlp
  PROVE  PagesOf(list, o2) = PagesOf(list, obj)
<1>1. Sizes(list, o2) = Sizes(list, obj)
  BY DEF Sizes
<1>2. PICK s : IsRow(s, Sizes(list, obj), Len(list)) /\ PagesOf(list, obj) = s[Len(list)]
  BY PagesFact
<1>3. PICK t : IsRow(t, Sizes(list, o2), Len(list)) /\ PagesOf(list, o2) = t[Len(list)]
  BY PagesFact
<1>4. Len(list) \in Nat
  BY PagesFact
<1> QED
  BY <1>1, <1>2, <1>3, <1>4, RowSame

(* A namespace put into the list adds its pages.                           *)
LEMMA PagesInsert ==
  ASSUME NEW obj \in Seq(Objects), NEW list \in Seq(1..Len(obj)),
         NEW more \in Seq(1..Len(obj)), NEW p \in 1..(Len(list) + 1),
         NEW e \in 1..Len(obj), Len(more) = Len(list) + 1,
         \A j \in 1..(Len(list) + 1) :
           more[j] = IF j < p THEN list[j] ELSE IF j = p THEN e ELSE list[j - 1]
  PROVE  PagesOf(more, obj) = PagesOf(list, obj) + obj[e].nlp
<1> DEFINE n == Len(list)
           v == Sizes(list, obj)
           u == Sizes(more, obj)
<1>1. PICK s : IsRow(s, v, n) /\ PagesOf(list, obj) = s[n]
  BY PagesFact
<1>2. PICK t : IsRow(t, u, n + 1) /\ PagesOf(more, obj) = t[n + 1]
  BY PagesFact
<1>3. /\ n \in Nat /\ v \in [1..n -> Int] /\ u \in [1..(n + 1) -> Int]
  BY PagesFact
<1>4. obj[e].nlp \in Int
  <2>1. obj[e] \in Objects
    OBVIOUS
  <2> QED
    BY <2>1, ObjectFact
<1>5. \A k \in 1..n : k < p => u[k] = v[k]
  BY <1>3 DEF Sizes
<1>6. \A k \in 1..n : k >= p => u[k + 1] = v[k]
  <2> SUFFICES ASSUME NEW k \in 1..n, k >= p PROVE u[k + 1] = v[k]
    OBVIOUS
  <2>1. k + 1 \in 1..(n + 1) /\ ~ (k + 1 < p) /\ k + 1 # p /\ (k + 1) - 1 = k
    BY <1>3
  <2>2. more[k + 1] = list[k]
    BY <2>1
  <2> QED
    BY <2>1, <2>2 DEF Sizes
<1>7. u[p] = obj[e].nlp
  BY <1>3 DEF Sizes
<1>8. p \in 1..(n + 1)
  OBVIOUS
<1> DEFINE x == obj[e].nlp
<1>9. x \in Int /\ u[p] = x
  BY <1>4, <1>7
<1> HIDE DEF n, v, u, x
<1>10. Inserted(v, u, n, p, x)
  BY <1>3, <1>5, <1>6, <1>8, <1>9 DEF Inserted
<1>11. t[n + 1] = s[n] + x
  BY <1>1, <1>2, <1>3, <1>10, RowInsert
<1> QED
  BY <1>1, <1>2, <1>11 DEF x

(* A set of namespaces keeps the last page free of one that is put where   *)
(* the first gap that is long enough begins.                               *)
LEMMA GapIsFree ==
  ASSUME Sane, NEW list, NEW obj, NEW alloc, Space(list, obj, alloc),
         NEW n \in Nat \ {0}, FirstFit(Ranges(list, obj), n) # {}
  PROVE  LET m == Min(FirstFit(Ranges(list, obj), n)) IN
         /\ m \in Nat /\ m + n <= TotalPages
         /\ \A k \in 1..Len(list) : \/ obj[list[k]].slpn + obj[list[k]].nlp <= m
                                    \/ m + n <= obj[list[k]].slpn
<1> DEFINE R == Ranges(list, obj)
           F == FirstFit(R, n)
           m == Min(F)
<1>1. /\ obj \in Seq(Objects) /\ list \in Seq(1..Len(obj)) /\ Apart(list, obj)
      /\ TotalPages \in Nat
  BY DEF Space, SpaceTypes, Sane
<1>2. \A k \in 1..Len(list) :
        /\ list[k] \in 1..Len(obj) /\ obj[list[k]] \in Objects
        /\ obj[list[k]].slpn \in Nat /\ obj[list[k]].nlp \in Nat /\ obj[list[k]].nlp > 0
  <2>1. \A k \in 1..Len(list) : list[k] \in 1..Len(obj)
    BY <1>1
  <2>2. \A i \in 1..Len(obj) : obj[i] \in Objects
    BY <1>1
  <2> QED
    BY <2>1, <2>2, ObjectFact
<1>3. DOMAIN list = 1..Len(list)
  BY <1>1
<1>4. \A r \in R : /\ r.slpn \in Nat /\ r.nlp \in Nat
                   /\ \E k \in 1..Len(list) : /\ r.slpn = obj[list[k]].slpn
                                              /\ r.nlp = obj[list[k]].nlp
  <2> SUFFICES ASSUME NEW r \in R
               PROVE  /\ r.slpn \in Nat /\ r.nlp \in Nat
                      /\ \E k \in 1..Len(list) : /\ r.slpn = obj[list[k]].slpn
                                                 /\ r.nlp = obj[list[k]].nlp
    OBVIOUS
  <2>1. PICK i \in Range(list) : r = [slpn |-> obj[i].slpn, nlp |-> obj[i].nlp]
    BY DEF Ranges
  <2>2. PICK k \in 1..Len(list) : i = list[k]
    BY <1>3 DEF Range
  <2>3. r.slpn = obj[list[k]].slpn /\ r.nlp = obj[list[k]].nlp
    BY <2>1, <2>2
  <2> QED
    BY <1>2, <2>3
<1>5. \A k \in 1..Len(list) : \E r \in R : r.slpn = obj[list[k]].slpn /\ r.nlp = obj[list[k]].nlp
  <2> SUFFICES ASSUME NEW k \in 1..Len(list)
               PROVE  \E r \in R : r.slpn = obj[list[k]].slpn /\ r.nlp = obj[list[k]].nlp
    OBVIOUS
  <2> DEFINE r == [slpn |-> obj[list[k]].slpn, nlp |-> obj[list[k]].nlp]
  <2>1. list[k] \in Range(list)
    BY <1>3 DEF Range
  <2>2. r \in R
    BY <2>1 DEF Ranges
  <2>3. r.slpn = obj[list[k]].slpn /\ r.nlp = obj[list[k]].nlp
    OBVIOUS
  <2> QED
    BY <2>2, <2>3
<1> HIDE DEF R
<1>6. F \subseteq Nat /\ F \subseteq GapStarts(R)
  BY <1>4 DEF FirstFit, GapStarts
<1>7. F # {}
  BY DEF R
<1>8. m \in F /\ \A j \in F : m <= j
  <2> HIDE DEF F
  <2> QED
    BY <1>6, <1>7, MinFact
<1>9. m \in Nat /\ m \in GapStarts(R) /\ GapLength(R, m) >= n
  BY <1>6, <1>8 DEF FirstFit
<1> HIDE DEF F, m
<1> DEFINE E == {r.slpn : r \in {q \in R : q.slpn >= m}} \union {TotalPages}
<1>10. E \subseteq Nat /\ E # {} /\ GapLength(R, m) = Min(E) - m
  BY <1>1, <1>4 DEF GapLength
<1>11. TotalPages \in E /\ \A r \in R : r.slpn >= m => r.slpn \in E
  OBVIOUS
<1> HIDE DEF E
<1>12. Min(E) \in E /\ \A j \in E : Min(E) <= j
  BY <1>10, MinFact
<1>13. Min(E) \in Nat /\ Min(E) >= m + n
  <2>1. Min(E) \in Nat
    BY <1>10, <1>12
  <2>2. Min(E) - m >= n
    BY <1>9, <1>10
  <2> HIDE DEF E
  <2> QED
    BY <1>9, <2>1, <2>2
<1>14. m + n <= TotalPages
  BY <1>1, <1>9, <1>11, <1>12, <1>13
<1>15. \A r \in R : r.slpn >= m => m + n <= r.slpn
  <2> SUFFICES ASSUME NEW r \in R, r.slpn >= m PROVE m + n <= r.slpn
    OBVIOUS
  <2>1. Min(E) <= r.slpn /\ r.slpn \in Nat
    BY <1>4, <1>11, <1>12
  <2> QED
    BY <2>1, <1>9, <1>13
<1>16. ASSUME NEW k \in 1..Len(list), ~ (m + n <= obj[list[k]].slpn)
       PROVE  obj[list[k]].slpn + obj[list[k]].nlp <= m
  <2>1. obj[list[k]].slpn < m
    BY <1>2, <1>5, <1>9, <1>15, <1>16
  <2>2. m # 0
    BY <1>2, <2>1
  <2>3. PICK r \in R : m = r.slpn + r.nlp
    BY <1>9, <2>2 DEF GapStarts
  <2>4. PICK j \in 1..Len(list) : r.slpn = obj[list[j]].slpn /\ r.nlp = obj[list[j]].nlp
    BY <1>4
  <2>5. CASE j = k
    BY <2>3, <2>4, <2>5, <1>9
  <2>6. CASE j # k
    <3>1. \/ obj[list[j]].slpn + obj[list[j]].nlp <= obj[list[k]].slpn
          \/ obj[list[k]].slpn + obj[list[k]].nlp <= obj[list[j]].slpn
      BY <1>1, <2>6 DEF Apart, Before
    <3>2. /\ obj[list[j]].slpn \in Nat /\ obj[list[j]].nlp \in Nat
          /\ obj[list[k]].slpn \in Nat /\ obj[list[k]].nlp \in Nat
      BY <1>2
    <3>3. m = obj[list[j]].slpn + obj[list[j]].nlp
      BY <2>3, <2>4
    <3> DEFINE a == obj[list[j]].slpn
               b == obj[list[j]].nlp
               c == obj[list[k]].slpn
               d == obj[list[k]].nlp
    <3>4. /\ a \in Nat /\ b \in Nat /\ c \in Nat /\ d \in Nat
          /\ c < m /\ m = a + b /\ (a + b <= c \/ c + d <= a)
      BY <2>1, <3>1, <3>2, <3>3
    <3> HIDE DEF a, b, c, d
    <3>5. c + d <= m
      BY <3>4
    <3> QED
      BY <3>5 DEF c, d
  <2> QED
    BY <2>5, <2>6
<1> QED
  BY <1>9, <1>14, <1>16 DEF m, F, R

(* c is what createNamespace makes of a space, and what it is to be.       *)
Created(c, list, obj, alloc, nsid, size, format) ==
  \E ok : c = CreateNamespace([ok |-> ok, list |-> list, object |-> obj,
                               allocated |-> alloc], nsid, size, format)
Grown(c, list, obj) ==
  /\ Space(c.list, c.object, c.allocated)
  /\ c = [ok |-> c.ok, list |-> c.list, object |-> c.object,
          allocated |-> c.allocated]
  /\ \/ c.list = list /\ c.object = obj
     \/ \E o \in Objects : o.disk = NewDisk /\ c.object = Append(obj, o)

(* createNamespace keeps the space in order, and adds one namespace with   *)
(* an empty image or nothing.                                              *)
LEMMA Creation ==
  ASSUME Sane, NEW list, NEW obj, NEW alloc, Space(list, obj, alloc),
         NEW nsid \in Nat, NEW size \in Nat, NEW format \in DOMAIN LBASize,
         NEW c, Created(c, list, obj, alloc, nsid, size, format)
  PROVE  Grown(c, list, obj)
<1>0. PICK ok : c = CreateNamespace([ok |-> ok, list |-> list, object |-> obj,
                                     allocated |-> alloc], nsid, size, format)
  BY DEF Created
<1> DEFINE n == Requested(size, format)
           F == FirstFit(Ranges(list, obj), n)
           new == Len(obj) + 1
           A == {k \in DOMAIN list : obj[list[k]].nsid <= nsid}
           p == Cardinality(A) + 1
           o == [nsid |-> nsid, slpn |-> Min(F), nlp |-> n, size |-> size,
                 format |-> format, attached |-> FALSE, disk |-> NewDisk,
                 formatted |-> FALSE]
           obj2 == Append(obj, o)
           list2 == InsertAt(list, p, new)
<1>1. CASE n > TotalPages - alloc \/ F = {} \/ n = 0
  <2>1. c = [ok |-> FALSE, list |-> list, object |-> obj, allocated |-> alloc]
    BY <1>0, <1>1 DEF CreateNamespace
  <2>2. /\ c.list = list /\ c.object = obj /\ c.allocated = alloc /\ c.ok = FALSE
    BY <2>1
  <2> QED
    BY <2>1, <2>2 DEF Grown
<1>2. CASE ~ (n > TotalPages - alloc \/ F = {} \/ n = 0)
  <2>1. c = [ok |-> TRUE, list |-> list2, allocated |-> alloc + n, object |-> obj2]
    BY <1>0, <1>2 DEF CreateNamespace
  <2>2. /\ c.list = list2 /\ c.object = obj2 /\ c.allocated = alloc + n /\ c.ok = TRUE
        /\ c = [ok |-> c.ok, list |-> c.list, object |-> c.object,
                allocated |-> c.allocated]
    BY <2>1
  <2>3. n \in Nat \ {0} /\ F # {}
    <3>1. PageSize \in Nat \ {0} /\ LBASize[format] \in Nat
      BY DEF Sane
    <3>2. size \div PageSize \in Nat
      BY <3>1
    <3>3. n \in Nat
      BY <3>1, <3>2 DEF Requested
    <3> QED
      BY <1>2, <3>3
  <2>4. /\ obj \in Seq(Objects) /\ list \in Seq(1..Len(obj)) /\ alloc \in Int
        /\ Apart(list, obj) /\ Exact(list, obj, alloc) /\ Sized(obj)
        /\ Len(list) \in Nat /\ Len(obj) \in Nat /\ DOMAIN list = 1..Len(list)
    BY DEF Space, SpaceTypes
  <2>5. /\ Min(F) \in Nat /\ Min(F) + n <= TotalPages
        /\ \A k \in 1..Len(list) : \/ obj[list[k]].slpn + obj[list[k]].nlp <= Min(F)
                                   \/ Min(F) + n <= obj[list[k]].slpn
    <3> HIDE DEF n
    <3> QED
      BY <2>3, GapIsFree
  <2>6. o \in Objects
    <3>1. NewDisk \in Disks
      <4>1. <<>> \in [{} -> Nat]
        OBVIOUS
      <4>2. <<>> \in Tables
        BY <4>1 DEF Tables
      <4> QED
        BY <4>2 DEF NewDisk, Disks
    <3> HIDE DEF n, F
    <3> QED
      BY <2>3, <2>5, <3>1 DEF Objects
  <2>7. /\ o.slpn = Min(F) /\ o.nlp = n /\ o.size = size /\ o.format = format
        /\ o.disk = NewDisk /\ o.formatted = FALSE
    OBVIOUS
  <2> HIDE DEF o, n, F
  <2>8. /\ obj2 \in Seq(Objects) /\ Len(obj2) = Len(obj) + 1
        /\ \A i \in 1..Len(obj) : obj2[i] = obj[i]
        /\ obj2[new] = o
    BY <2>4, <2>6
  <2>9. p \in 1..(Len(list) + 1)
    <3>1. IsFiniteSet(1..Len(list)) /\ Cardinality(1..Len(list)) = Len(list)
      <4>1. ASSUME NEW b \in Nat
            PROVE  IsFiniteSet(1..b) /\ Cardinality(1..b) = b
        <5>1. 1 \in Int /\ b \in Int
          OBVIOUS
        <5>2. IsFiniteSet(1..b) /\ Cardinality(1..b) = IF 1 > b THEN 0 ELSE b - 1 + 1
          BY <5>1, FS_Interval, Zenon
        <5> QED
          BY <5>2
      <4> QED
        BY <2>4, <4>1
    <3>2. A \subseteq 1..Len(list)
      BY <2>4
    <3> HIDE DEF A
    <3>3. Cardinality(A) \in Nat /\ Cardinality(A) <= Len(list)
      BY <3>1, <3>2, FS_Subset, FS_CardinalityType
    <3> QED
      BY <2>4, <3>3
  <2> HIDE DEF p, obj2
  <2>10. list \in Seq(1..Len(obj2)) /\ new \in 1..Len(obj2)
    <3>1. \A k \in 1..Len(list) : list[k] \in 1..Len(obj2)
      BY <2>4, <2>8
    <3> QED
      BY <2>4, <2>8, <3>1
  <2> HIDE DEF new
  <2>11. /\ list2 \in Seq(1..Len(obj2)) /\ Len(list2) = Len(list) + 1
         /\ \A j \in 1..(Len(list) + 1) :
              list2[j] = IF j < p THEN list[j] ELSE IF j = p THEN new ELSE list[j - 1]
    <3> DEFINE S == 1..Len(obj2)
    <3>1. list \in Seq(S) /\ new \in S
      BY <2>10
    <3> HIDE DEF S
    <3>2. /\ list2 \in Seq(S) /\ Len(list2) = Len(list) + 1
          /\ \A j \in 1..(Len(list) + 1) :
               list2[j] = IF j < p THEN list[j] ELSE IF j = p THEN new ELSE list[j - 1]
      BY <2>9, <3>1, InsertAtLemma
    <3> QED
      BY <3>2 DEF S
  <2> HIDE DEF list2
  <2> DEFINE J(k) == IF k < p THEN k ELSE k - 1
  <2>12. \A k \in 1..Len(list2) :
           k # p => /\ J(k) \in 1..Len(list) /\ list2[k] = list[J(k)]
                    /\ obj2[list2[k]] = obj[list[J(k)]]
    <3> SUFFICES ASSUME NEW k \in 1..Len(list2), k # p
                 PROVE  /\ J(k) \in 1..Len(list) /\ list2[k] = list[J(k)]
                        /\ obj2[list2[k]] = obj[list[J(k)]]
      OBVIOUS
    <3>1. J(k) \in 1..Len(list) /\ list2[k] = list[J(k)]
      BY <2>4, <2>9, <2>11
    <3>2. list[J(k)] \in 1..Len(obj)
      BY <2>4, <3>1
    <3> QED
      BY <2>8, <3>1, <3>2
  <2>13. list2[p] = new /\ obj2[list2[p]] = o
    BY <2>8, <2>9, <2>11
  <2>14. \A k, m \in 1..Len(list2) : k # p /\ m # p /\ k # m => J(k) # J(m)
    BY <2>9, <2>11
  <2>15. SpaceTypes(list2, obj2, alloc + n)
    BY <2>3, <2>4, <2>8, <2>11 DEF SpaceTypes
  <2>16. Apart(list2, obj2)
    <3>1. \A k \in 1..Len(list2) :
            obj2[list2[k]].slpn + obj2[list2[k]].nlp <= TotalPages
      BY <2>4, <2>5, <2>7, <2>12, <2>13 DEF Apart
    <3>2. \A k, m \in 1..Len(list2) :
            k # m => \/ Before(obj2[list2[k]], obj2[list2[m]])
                     \/ Before(obj2[list2[m]], obj2[list2[k]])
      <4> SUFFICES ASSUME NEW k \in 1..Len(list2), NEW m \in 1..Len(list2), k # m
                   PROVE  \/ Before(obj2[list2[k]], obj2[list2[m]])
                          \/ Before(obj2[list2[m]], obj2[list2[k]])
        OBVIOUS
      <4>1. CASE k = p
        <5>1. obj2[list2[k]] = o /\ obj2[list2[m]] = obj[list[J(m)]] /\ J(m) \in 1..Len(list)
          BY <4>1, <2>12, <2>13
        <5> HIDE DEF J
        <5> QED
          BY <5>1, <2>5, <2>7 DEF Before
      <4>2. CASE m = p
        <5>1. obj2[list2[m]] = o /\ obj2[list2[k]] = obj[list[J(k)]] /\ J(k) \in 1..Len(list)
          BY <4>2, <2>12, <2>13
        <5> HIDE DEF J
        <5> QED
          BY <5>1, <2>5, <2>7 DEF Before
      <4>3. CASE k # p /\ m # p
        <5>1. /\ obj2[list2[k]] = obj[list[J(k)]] /\ J(k) \in 1..Len(list)
              /\ obj2[list2[m]] = obj[list[J(m)]] /\ J(m) \in 1..Len(list)
              /\ J(k) # J(m)
          BY <4>3, <2>12, <2>14
        <5> HIDE DEF J
        <5> QED
          BY <5>1, <2>4 DEF Apart
      <4> QED
        BY <4>1, <4>2, <4>3
    <3> QED
      BY <3>1, <3>2 DEF Apart
  <2>17. Exact(list2, obj2, alloc + n)
    <3> SUFFICES ASSUME \A i \in 1..Len(obj2) : Whole(obj2[i])
                 PROVE  alloc + n = PagesOf(list2, obj2)
      BY DEF Exact
    <3>1. \A i \in 1..Len(obj) : Whole(obj[i])
      <4> HIDE DEF obj2
      <4>1. \A i \in 1..Len(obj) : i \in 1..Len(obj2)
        BY <2>4, <2>8
      <4>2. \A i \in 1..Len(obj) : Whole(obj2[i])
        BY <4>1, Zenon
      <4> QED
        BY <4>2, <2>8
    <3>2. alloc = PagesOf(list, obj)
      BY <2>4, <3>1 DEF Exact
    <3>3. PagesOf(list, obj2) = PagesOf(list, obj)
      <4>0. \A k \in 1..Len(list) : list[k] \in 1..Len(obj)
        BY <2>4
      <4>1. \A k \in 1..Len(list) : obj2[list[k]].nlp = obj[list[k]].nlp
        BY <4>0, <2>8
      <4> QED
        BY <4>1, <2>4, <2>8, <2>10, PagesSame
    <3>4. PagesOf(list2, obj2) = PagesOf(list, obj2) + obj2[new].nlp
      BY <2>8, <2>9, <2>10, <2>11, PagesInsert
    <3> QED
      BY <2>7, <2>8, <3>2, <3>3, <3>4
  <2>18. Sized(obj2)
    <3> SUFFICES ASSUME NEW i \in 1..Len(obj2), ~obj2[i].formatted
                 PROVE  obj2[i].nlp = Requested(obj2[i].size, obj2[i].format)
      BY DEF Sized
    <3>1. CASE i = new
      BY <3>1, <2>7, <2>8 DEF n
    <3>2. CASE i # new
      <4>1. i \in 1..Len(obj)
        BY <3>2, <2>4, <2>8 DEF new
      <4> QED
        BY <4>1, <2>4, <2>8 DEF Sized
    <3> QED
      BY <3>1, <3>2
  <2>19. Space(list2, obj2, alloc + n)
    BY <2>15, <2>16, <2>17, <2>18 DEF Space
  <2> QED
    BY <2>2, <2>6, <2>7, <2>19 DEF obj2, Grown
<1> QED
  BY <1>1, <1>2

(* A change of namespaces that leaves each its pages, and its size unless  *)
(* it marks it formatted.                                                  *)
Keeps(obj, obj2) ==
  /\ obj2 \in Seq(Objects) /\ Len(obj2) = Len(obj)
  /\ \A i \in 1..Len(obj) :
       /\ obj2[i].slpn = obj[i].slpn /\ obj2[i].nlp = obj[i].nlp
       /\ \/ obj2[i].formatted
          \/ /\ obj2[i].formatted = obj[i].formatted
             /\ obj2[i].size = obj[i].size /\ obj2[i].format = obj[i].format

(* Such a change keeps the space in order.                                 *)
LEMMA SpaceKept ==
  ASSUME NEW list, NEW obj, NEW alloc, Space(list, obj, alloc),
         NEW obj2, Keeps(obj, obj2)
  PROVE  Space(list, obj2, alloc)
<1>1. /\ obj \in Seq(Objects) /\ list \in Seq(1..Len(obj)) /\ alloc \in Int
      /\ Apart(list, obj) /\ Exact(list, obj, alloc) /\ Sized(obj)
      /\ obj2 \in Seq(Objects) /\ Len(obj2) = Len(obj)
      /\ \A k \in 1..Len(list) : list[k] \in 1..Len(obj)
  BY DEF Space, SpaceTypes, Keeps
<1>2. SpaceTypes(list, obj2, alloc)
  BY <1>1 DEF SpaceTypes
<1>3. \A k \in 1..Len(list) : /\ obj2[list[k]].slpn = obj[list[k]].slpn
                              /\ obj2[list[k]].nlp = obj[list[k]].nlp
  BY <1>1 DEF Keeps
<1>4. Apart(list, obj2)
  BY <1>1, <1>3 DEF Apart, Before
<1>5. Exact(list, obj2, alloc)
  <2> SUFFICES ASSUME \A i \in 1..Len(obj2) : Whole(obj2[i])
               PROVE  alloc = PagesOf(list, obj2)
    BY DEF Exact
  <2>1. \A i \in 1..Len(obj) : Whole(obj[i])
    BY <1>1 DEF Keeps, Whole
  <2>2. alloc = PagesOf(list, obj)
    BY <1>1, <2>1 DEF Exact
  <2>3. list \in Seq(1..Len(obj2))
    BY <1>1
  <2>4. PagesOf(list, obj2) = PagesOf(list, obj)
    BY <1>1, <1>3, <2>3, PagesSame
  <2> QED
    BY <2>2, <2>4
<1>6. Sized(obj2)
  BY <1>1 DEF Sized, Keeps
<1> QED
  BY <1>2, <1>4, <1>5, <1>6 DEF Space

(* What init works on.                                                     *)
Fresh(r) ==
  /\ r = [ok |-> r.ok, list |-> r.list, object |-> r.object, allocated |-> r.allocated]
  /\ Space(r.list, r.object, r.allocated)
  /\ \A i \in 1..Len(r.object) : r.object[i].disk = NewDisk

InitSize(w) == ((TotalPages * PageSize) \div LBASize[w.format]) \div w.namespaces
NoNamespace == [ok |-> TRUE, list |-> <<>>, object |-> <<>>, allocated |-> 0]
Default(w, r, n) ==
  LET s == CreateNamespace(r, n, InitSize(w), w.format)
  IN  [s EXCEPT !.object[Len(s.list)].attached = TRUE]
IsInit(f, w, m) ==
  f = [n \in 0..m |-> IF n = 0 THEN NoNamespace ELSE Default(w, f[n - 1], n)]

(* The device without a namespace is in order.                             *)
LEMMA NoneFresh == Fresh(NoNamespace)
<1>1. <<>> \in Seq(Objects) /\ <<>> \in Seq(1..0) /\ Len(<<>>) = 0
  OBVIOUS
<1>2. NoNamespace.list = <<>> /\ NoNamespace.object = <<>> /\ NoNamespace.allocated = 0
  BY DEF NoNamespace
<1>3. SpaceTypes(<<>>, <<>>, 0) /\ Apart(<<>>, <<>>) /\ Sized(<<>>)
  BY <1>1 DEF SpaceTypes, Apart, Sized
<1>4. PagesOf(<<>>, <<>>) = 0
  <2>1. PICK s : IsRow(s, Sizes(<<>>, <<>>), Len(<<>>)) /\ PagesOf(<<>>, <<>>) = s[Len(<<>>)]
    <3>1. Len(<<>>) = 0 /\ <<>> \in Seq(Objects) /\ <<>> \in Seq(1..Len(<<>>))
      BY <1>1
    <3> QED
      BY <3>1, PagesFact
  <2> QED
    BY <1>1, <2>1 DEF IsRow
<1>5. Space(<<>>, <<>>, 0)
  BY <1>3, <1>4 DEF Space, Exact
<1> QED
  BY <1>1, <1>2, <1>5 DEF Fresh, NoNamespace

(* Namespaces of which one is marked attached.                             *)
LEMMA Attaching ==
  ASSUME NEW obj \in Seq(Objects), NEW l
  PROVE  LET obj2 == [obj EXCEPT ![l].attached = TRUE] IN
         /\ obj2 \in Seq(Objects) /\ Len(obj2) = Len(obj)
         /\ \A i \in 1..Len(obj) :
              obj2[i] = IF i = l THEN [obj[i] EXCEPT !.attached = TRUE] ELSE obj[i]
<1> DEFINE n == Len(obj)
           F(i) == IF i = l THEN [obj[i] EXCEPT !.attached = TRUE] ELSE obj[i]
           obj2 == [obj EXCEPT ![l].attached = TRUE]
<1>1. n \in Nat /\ DOMAIN obj = 1..n /\ \A i \in 1..n : obj[i] \in Objects
  OBVIOUS
<1>2. obj2 = [i \in DOMAIN obj |-> F(i)]
  OBVIOUS
<1>3. obj2 = [i \in 1..n |-> F(i)]
  BY <1>1, <1>2
<1>4. \A i \in 1..n : F(i) \in Objects
  <2> SUFFICES ASSUME NEW i \in 1..n PROVE F(i) \in Objects
    OBVIOUS
  <2>1. obj[i] \in Objects
    BY <1>1
  <2>2. [obj[i] EXCEPT !.attached = TRUE] \in Objects
    BY <2>1 DEF Objects
  <2> QED
    BY <2>1, <2>2
<1> HIDE DEF obj2, F
<1>5. obj2 \in [1..n -> Objects] /\ \A i \in 1..n : obj2[i] = F(i)
  BY <1>3, <1>4
<1>6. obj2 \in Seq(Objects) /\ Len(obj2) = n
  BY <1>1, <1>5
<1> QED
  BY <1>5, <1>6 DEF obj2, F

(* Each default namespace keeps it so.                                     *)
LEMMA DefaultFresh ==
  ASSUME Sane, NEW w \in Workloads, NEW r, Fresh(r), NEW n \in Nat
  PROVE  Fresh(Default(w, r, n))
<1> DEFINE c == CreateNamespace(r, n, InitSize(w), w.format)
           L == Len(c.list)
           obj2 == [c.object EXCEPT ![L].attached = TRUE]
<1>1. InitSize(w) \in Nat /\ w.format \in DOMAIN LBASize
  <2>1. /\ TotalPages \in Nat /\ PageSize \in Nat /\ w.format \in DOMAIN LBASize
        /\ LBASize[w.format] \in Nat \ {0} /\ w.namespaces \in Nat \ {0}
    BY DEF Sane
  <2>2. TotalPages * PageSize \in Nat
    BY <2>1
  <2>3. (TotalPages * PageSize) \div LBASize[w.format] \in Nat
    <3> DEFINE a == TotalPages * PageSize
    <3> HIDE DEF a
    <3> QED
      BY <2>1, <2>2 DEF a
  <2>4. InitSize(w) \in Nat
    <3> DEFINE b == (TotalPages * PageSize) \div LBASize[w.format]
    <3>1. b \in Nat
      BY <2>3
    <3> HIDE DEF b
    <3>2. b \div w.namespaces \in Nat
      BY <2>1, <3>1
    <3> QED
      BY <3>2 DEF InitSize, b
  <2> QED
    BY <2>1, <2>4
<1> HIDE DEF c
<1>2. /\ Space(c.list, c.object, c.allocated)
      /\ c = [ok |-> c.ok, list |-> c.list, object |-> c.object,
              allocated |-> c.allocated]
      /\ \/ c.list = r.list /\ c.object = r.object
         \/ \E o \in Objects : o.disk = NewDisk /\ c.object = Append(r.object, o)
  <2>1. c = CreateNamespace([ok |-> r.ok, list |-> r.list, object |-> r.object,
                             allocated |-> r.allocated], n, InitSize(w), w.format)
    BY DEF Fresh, c
  <2>2. Space(r.list, r.object, r.allocated)
    BY DEF Fresh
  <2>3. PICK list, obj, alloc :
          list = r.list /\ obj = r.object /\ alloc = r.allocated
    OBVIOUS
  <2>4. PICK size, format : size = InitSize(w) /\ format = w.format
    OBVIOUS
  <2>5. Created(c, list, obj, alloc, n, size, format)
    BY <2>1, <2>3, <2>4 DEF Created
  <2>6. Space(list, obj, alloc) /\ size \in Nat /\ format \in DOMAIN LBASize
    BY <1>1, <2>2, <2>3, <2>4
  <2>7. Grown(c, list, obj)
    BY <2>5, <2>6, Creation
  <2> QED
    BY <2>3, <2>7 DEF Grown
<1>3. c.object \in Seq(Objects) /\ r.object \in Seq(Objects)
  BY <1>2 DEF Space, SpaceTypes, Fresh
<1>4. \A i \in 1..Len(c.object) : c.object[i].disk = NewDisk
  <2>1. CASE c.object = r.object
    BY <2>1 DEF Fresh
  <2>2. CASE \E o \in Objects : o.disk = NewDisk /\ c.object = Append(r.object, o)
    BY <2>2, <1>3 DEF Fresh
  <2> QED
    BY <1>2, <2>1, <2>2
<1>5. /\ obj2 \in Seq(Objects) /\ Len(obj2) = Len(c.object)
      /\ \A i \in 1..Len(c.object) :
           obj2[i] = IF i = L THEN [c.object[i] EXCEPT !.attached = TRUE] ELSE c.object[i]
  BY <1>3, Attaching
<1>6. \A i \in 1..Len(c.object) :
        /\ obj2[i].slpn = c.object[i].slpn /\ obj2[i].nlp = c.object[i].nlp
        /\ obj2[i].formatted = c.object[i].formatted
        /\ obj2[i].size = c.object[i].size /\ obj2[i].format = c.object[i].format
        /\ obj2[i].disk = c.object[i].disk
  <2>1. \A i \in 1..Len(c.object) : c.object[i] \in Objects
    BY <1>3
  <2> HIDE DEF obj2, L
  <2> QED
    BY <1>5, <2>1 DEF Objects
<1>7. Default(w, r, n) = [ok |-> c.ok, list |-> c.list, object |-> obj2,
                          allocated |-> c.allocated]
  <2>1. Default(w, r, n) = [c EXCEPT !.object = obj2]
    BY DEF Default, c
  <2> HIDE DEF obj2
  <2> QED
    BY <1>2, <2>1
<1> HIDE DEF obj2
<1>8. Keeps(c.object, obj2)
  BY <1>5, <1>6 DEF Keeps
<1>9. Space(c.list, obj2, c.allocated)
  BY <1>2, <1>8, SpaceKept
<1>10. \A i \in 1..Len(obj2) : obj2[i].disk = NewDisk
  BY <1>4, <1>5, <1>6
<1> QED
  BY <1>7, <1>9, <1>10 DEF Fresh

(* Subsystem::init leaves the space in order and the images empty.         *)
LEMMA InitialFact ==
  ASSUME Sane, NEW w \in Workloads
  PROVE  Fresh(Initial(w))
<1> DEFINE N == w.namespaces
           E == {m \in 0..N : \E f : IsInit(f, w, m)}
           step == CHOOSE f : IsInit(f, w, N)
<1>1. N \in Nat
  BY DEF Sane
<1>2. 0 \in E
  <2>1. IsInit([k \in 0..0 |-> NoNamespace], w, 0)
    BY DEF IsInit
  <2> QED
    BY <1>1, <2>1
<1>3. ASSUME NEW m \in 1..N, m - 1 \in E PROVE m \in E
  <2>1. PICK f : IsInit(f, w, m - 1)
    BY <1>3
  <2> DEFINE g == [k \in 0..m |-> IF k = m THEN Default(w, f[m - 1], m) ELSE f[k]]
  <2>2. \A k \in 0..(m - 1) :
          f[k] = IF k = 0 THEN NoNamespace ELSE Default(w, f[k - 1], k)
    BY <2>1 DEF IsInit
  <2>3. \A k \in 0..m : g[k] = IF k = 0 THEN NoNamespace ELSE Default(w, g[k - 1], k)
    <3> SUFFICES ASSUME NEW k \in 0..m
                 PROVE  g[k] = IF k = 0 THEN NoNamespace ELSE Default(w, g[k - 1], k)
      OBVIOUS
    <3>1. CASE k = m
      <4>1. k # 0 /\ k - 1 \in 0..m /\ k - 1 # m
        BY <3>1, <1>1
      <4> QED
        BY <3>1, <4>1
    <3>2. CASE k = 0
      BY <3>2, <2>2, <1>1
    <3>3. CASE k # m /\ k # 0
      <4>1. k \in 0..(m - 1) /\ k - 1 \in 0..m /\ k - 1 # m
        BY <3>3, <1>1
      <4>2. g[k] = f[k] /\ g[k - 1] = f[k - 1]
        BY <3>3, <4>1
      <4> QED
        BY <2>2, <3>3, <4>1, <4>2
    <3> QED
      BY <3>1, <3>2, <3>3
  <2>4. g = [k \in 0..m |-> g[k]]
    OBVIOUS
  <2> HIDE DEF g
  <2>5. IsInit(g, w, m)
    BY <2>3, <2>4 DEF IsInit
  <2> QED
    BY <2>5, <1>1
<1> HIDE DEF E
<1>4. 0..N \subseteq E
  BY <1>1, <1>2, <1>3, UpTo
<1>5. \E f : IsInit(f, w, N)
  <2>1. N \in E
    BY <1>1, <1>4
  <2> QED
    BY <2>1 DEF E
<1>6. IsInit(step, w, N)
  BY <1>5
<1>7. Initial(w) = step[N]
  BY DEF Initial, IsInit, Default, InitSize, NoNamespace
<1> HIDE DEF step
<1> DEFINE G == {k \in 0..N : Fresh(step[k])}
<1>8. 0 \in G
  <2>1. step[0] = NoNamespace
    BY <1>1, <1>6 DEF IsInit
  <2> QED
    BY <1>1, <2>1, NoneFresh
<1>9. ASSUME NEW k \in 1..N, k - 1 \in G PROVE k \in G
  <2>1. step[k] = Default(w, step[k - 1], k)
    BY <1>1, <1>6 DEF IsInit
  <2>2. Fresh(step[k - 1]) /\ k \in Nat
    BY <1>1, <1>9
  <2>3. Fresh(step[k])
    BY <2>1, <2>2, DefaultFresh
  <2> QED
    BY <1>1, <2>3
<1> HIDE DEF G
<1>10. 0..N \subseteq G
  BY <1>1, <1>8, <1>9, UpTo
<1>11. N \in G
  BY <1>1, <1>10
<1> QED
  BY <1>7, <1>11 DEF G

-----------------------------------------------------------------------------
(* Deletion and the pages of a command *)

(* The pages that destroyNamespace gives back are those that the namespace *)
(* has, as long as its size is whole.                                      *)
LEMMA GivenBackExact ==
  ASSUME Sane, NEW o \in Objects, Whole(o), o.nlp = Requested(o.size, o.format)
  PROVE  GivenBack(o) = o.nlp
<1> DEFINE z == o.size
           l == LBASize[o.format]
           q == z \div PageSize
<1>1. PageSize \in Nat \ {0} /\ z \in Nat /\ l \in Nat \ {0} /\ z % PageSize = 0
  BY DEF Sane, Objects, Whole
<1>2. o.nlp = q * l /\ GivenBack(o) = (z * l) \div PageSize
  BY DEF Requested, GivenBack
<1> HIDE DEF z, l
<1>3. q \in Nat /\ z = q * PageSize
  BY <1>1
<1> HIDE DEF q
<1>4. z * l = PageSize * (q * l)
  <2>1. z * l = (q * PageSize) * l
    BY <1>3
  <2>2. (q * PageSize) * l = PageSize * (q * l)
    BY <1>1, <1>3
  <2> QED
    BY <2>1, <2>2
<1> DEFINE x == q * l
<1>5. x \in Nat /\ z * l = PageSize * x
  BY <1>1, <1>3, <1>4
<1> HIDE DEF x
<1>6. (PageSize * x) \div PageSize = x
  BY <1>1, <1>5
<1> QED
  BY <1>2, <1>5, <1>6 DEF x

(* destroyNamespace keeps the space in order.                              *)
LEMMA Deletion ==
  ASSUME Sane, NEW list, NEW obj, NEW alloc, Space(list, obj, alloc),
         NEW p \in 1..Len(list), NEW list2, list2 = RemoveAt(list, p),
         NEW back, back = GivenBack(obj[list[p]])
  PROVE  Space(list2, obj, alloc - back)
<1>1. /\ obj \in Seq(Objects) /\ list \in Seq(1..Len(obj)) /\ alloc \in Int
      /\ Apart(list, obj) /\ Exact(list, obj, alloc) /\ Sized(obj)
      /\ Len(list) \in Nat /\ list[p] \in 1..Len(obj)
  BY DEF Space, SpaceTypes
<1> DEFINE n == Len(list2)
           e == list[p]
<1>2. /\ list2 \in Seq(1..Len(obj)) /\ n = Len(list) - 1
      /\ \A j \in 1..(Len(list) - 1) :
           list2[j] = IF j < p THEN list[j] ELSE list[j + 1]
  BY <1>1, RemoveAtLemma
<1>3. n \in Nat /\ Len(list) = n + 1 /\ p \in 1..(n + 1)
      /\ \A j \in 1..n : list2[j] = IF j < p THEN list[j] ELSE list[j + 1]
  BY <1>1, <1>2
<1>4. obj[e] \in Objects
  BY <1>1
<1>5. back \in Int
  <2>1. PageSize \in Nat \ {0} /\ LBASize[obj[e].format] \in Nat /\ obj[e].size \in Nat
    BY <1>4 DEF Sane, Objects
  <2> DEFINE x == obj[e].size * LBASize[obj[e].format]
  <2>2. x \in Nat
    BY <2>1
  <2>3. back = x \div PageSize
    BY DEF GivenBack
  <2> HIDE DEF x
  <2> QED
    BY <2>1, <2>2, <2>3
<1>6. SpaceTypes(list2, obj, alloc - back)
  BY <1>1, <1>2, <1>5 DEF SpaceTypes
<1>7. Apart(list2, obj)
  <2> DEFINE at(j) == IF j < p THEN j ELSE j + 1
  <2>1. \A j \in 1..n : at(j) \in 1..Len(list) /\ list2[j] = list[at(j)]
    BY <1>3
  <2>2. \A j, k \in 1..n : j # k => at(j) # at(k)
    BY <1>3
  <2> HIDE DEF at
  <2>3. \A k \in 1..n : obj[list2[k]].slpn + obj[list2[k]].nlp <= TotalPages
    BY <1>1, <2>1 DEF Apart
  <2>4. \A k, m \in 1..n : k # m => \/ Before(obj[list2[k]], obj[list2[m]])
                                    \/ Before(obj[list2[m]], obj[list2[k]])
    <3> SUFFICES ASSUME NEW k \in 1..n, NEW m \in 1..n, k # m
                 PROVE  \/ Before(obj[list2[k]], obj[list2[m]])
                        \/ Before(obj[list2[m]], obj[list2[k]])
      OBVIOUS
    <3>1. /\ at(k) \in 1..Len(list) /\ at(m) \in 1..Len(list) /\ at(k) # at(m)
          /\ list2[k] = list[at(k)] /\ list2[m] = list[at(m)]
      BY <2>1, <2>2
    <3>2. \/ Before(obj[list[at(k)]], obj[list[at(m)]])
          \/ Before(obj[list[at(m)]], obj[list[at(k)]])
      BY <1>1, <3>1 DEF Apart
    <3> QED
      BY <3>1, <3>2
  <2> QED
    BY <2>3, <2>4 DEF Apart
<1>8. Exact(list2, obj, alloc - back)
  <2> SUFFICES ASSUME \A i \in 1..Len(obj) : Whole(obj[i])
               PROVE  alloc - back = PagesOf(list2, obj)
    BY DEF Exact
  <2>1. alloc = PagesOf(list, obj)
    BY <1>1 DEF Exact
  <2>2. back = obj[e].nlp
    <3>1. Whole(obj[e])
      BY <1>1
    <3>2. obj[e].nlp = Requested(obj[e].size, obj[e].format)
      BY <1>1, <3>1 DEF Sized, Whole
    <3> QED
      BY <1>4, <3>1, <3>2, GivenBackExact
  <2>3. \A j \in 1..(n + 1) :
          list[j] = IF j < p THEN list2[j] ELSE IF j = p THEN e ELSE list2[j - 1]
    <3> SUFFICES ASSUME NEW j \in 1..(n + 1)
                 PROVE  list[j] = IF j < p THEN list2[j] ELSE IF j = p THEN e ELSE list2[j - 1]
      OBVIOUS
    <3>1. CASE j < p
      BY <1>3, <3>1
    <3>2. CASE j = p
      BY <3>2
    <3>3. CASE j > p
      <4>1. j - 1 \in 1..n /\ ~ (j - 1 < p) /\ (j - 1) + 1 = j
        BY <1>3, <3>3
      <4> QED
        BY <1>3, <3>3, <4>1
    <3> QED
      BY <1>3, <3>1, <3>2, <3>3
  <2>4. e \in 1..Len(obj)
    BY <1>1
  <2> HIDE DEF e
  <2>5. PagesOf(list, obj) = PagesOf(list2, obj) + obj[e].nlp
    BY <1>1, <1>2, <1>3, <2>3, <2>4, PagesInsert
  <2>6. PICK s : IsRow(s, Sizes(list2, obj), Len(list2)) /\ PagesOf(list2, obj) = s[Len(list2)]
    BY <1>1, <1>2, PagesFact
  <2>7. PagesOf(list2, obj) \in Int
    BY <1>3, <2>6 DEF IsRow
  <2> QED
    BY <1>1, <1>5, <2>1, <2>2, <2>5, <2>7
<1> QED
  BY <1>1, <1>6, <1>7, <1>8 DEF Space

(* A command inside the size of its namespace stays inside its pages.      *)
LEMMA InsidePages ==
  ASSUME Sane, NEW o \in Objects, NEW slba \in Nat, NEW nlb \in Nat
  PROVE  /\ FirstPage(o, slba) \in Int /\ FirstPage(o, slba) >= o.slpn
         /\ PageCount(o, slba, nlb) \in Int
         /\ (slba + nlb <= o.size /\ o.size % PageSize = 0
              /\ o.nlp = Requested(o.size, o.format))
              => FirstPage(o, slba) + PageCount(o, slba, nlb) <= o.slpn + o.nlp
<1> DEFINE P == PageSize
           l == LBASize[o.format]
           z == o.size
           s == o.slpn
           q == z \div P
<1>1. /\ P \in Nat \ {0} /\ l \in Nat \ {0} /\ z \in Nat /\ s \in Nat
      /\ (P % l = 0 \/ l % P = 0) /\ o.nlp \in Nat
  BY DEF Sane, Objects
<1>2. /\ Requested(z, o.format) = q * l
      /\ FirstPage(o, slba) = s + (IF l <= P THEN slba \div (P \div l) ELSE slba * (l \div P))
      /\ PageCount(o, slba, nlb) =
           IF l <= P THEN (nlb + (slba % (P \div l)) + (P \div l) - 1) \div (P \div l)
                     ELSE nlb * (l \div P)
  BY DEF Requested, FirstPage, PageCount
<1>3. CASE l <= P
  <2> DEFINE r == P \div l
             a == slba \div r
             b == slba % r
             d == (nlb + b + r - 1) \div r
  <2>1. P % l = 0
    <3> HIDE DEF P, l
    <3>1. CASE l % P = 0
      <4>1. l = P
        <5>1. l >= P
          <6> SUFFICES ASSUME l < P PROVE FALSE
            BY <1>1
          <6>1. l % P = l
            BY <1>1
          <6> QED
            BY <1>1, <3>1, <6>1
        <5> QED
          BY <1>1, <1>3, <5>1
      <4>2. P % P = 0
        BY <1>1
      <4> QED
        BY <4>1, <4>2
    <3> QED
      BY <1>1, <3>1
  <2>2. r \in Nat \ {0} /\ P = r * l
    <3> HIDE DEF P, l
    <3>1. r \in Nat /\ P = l * r
      BY <1>1, <2>1
    <3>2. r # 0
      BY <1>1, <3>1
    <3> QED
      BY <1>1, <3>1, <3>2
  <2>3. FirstPage(o, slba) = s + a /\ PageCount(o, slba, nlb) = d
    BY <1>2, <1>3
  <2> HIDE DEF P, l, z, s, r
  <2>4. a \in Nat /\ b \in 0..(r - 1) /\ slba = r * a + b
    BY <2>2
  <2> HIDE DEF a, b
  <2>5. d \in Nat /\ r * d <= nlb + b + r - 1
    <3> DEFINE x == nlb + b + r - 1
    <3>1. x \in Nat /\ d = x \div r
      BY <2>2, <2>4
    <3> HIDE DEF x, d
    <3>2. d \in Nat /\ r * d <= x
      BY <2>2, <3>1
    <3> QED
      BY <3>2 DEF x
  <2> HIDE DEF d
  <2>6. ASSUME slba + nlb <= z, z % P = 0
        PROVE  a + d <= q * l
    <3>1. q \in Nat /\ z = P * q
      BY <1>1, <2>6
    <3> HIDE DEF q
    <3>2. P * q = r * (q * l)
      <4>1. P * q = (r * l) * q
        BY <2>2
      <4> QED
        BY <4>1, <1>1, <2>2, <3>1
    <3> DEFINE e == q * l
    <3>3. e \in Nat /\ z = r * e
      BY <1>1, <3>1, <3>2
    <3> HIDE DEF e
    <3> DEFINE ra == r * a
               rd == r * d
               re == r * e
    <3>4. /\ ra \in Nat /\ rd \in Nat /\ re \in Nat /\ slba = ra + b
          /\ rd <= nlb + b + r - 1 /\ slba + nlb <= re
      BY <2>2, <2>4, <2>5, <2>6, <3>3
    <3>5. ra + rd < re + r
      <4> HIDE DEF ra, rd, re
      <4> QED
        BY <2>2, <2>4, <3>4
    <3>6. r * (a + d) < r * (e + 1)
      <4>1. r * (a + d) = ra + rd /\ r * (e + 1) = re + r
        BY <2>2, <2>4, <2>5, <3>3
      <4> QED
        BY <3>5, <4>1
    <3>7. a + d < e + 1
      <4> SUFFICES ASSUME a + d >= e + 1 PROVE FALSE
        BY <2>4, <2>5, <3>3
      <4>1. r * (a + d) >= r * (e + 1)
        BY <2>2, <2>4, <2>5, <3>3
      <4> HIDE DEF ra, rd, re
      <4>2. r * (a + d) \in Int /\ r * (e + 1) \in Int
        BY <2>2, <2>4, <2>5, <3>3
      <4> QED
        BY <3>6, <4>1, <4>2
    <3> QED
      BY <2>4, <2>5, <3>3, <3>7 DEF e
  <2>7. q * l \in Int
    BY <1>1
  <2> QED
    BY <1>1, <1>2, <2>3, <2>4, <2>5, <2>6, <2>7 DEF z, s, P
<1>4. CASE ~ (l <= P)
  <2> DEFINE m == l \div P
  <2>1. l % P = 0
    <3> HIDE DEF P, l
    <3>1. CASE P % l = 0
      <4>1. P % l = P
        BY <1>1, <1>4
      <4> QED
        BY <1>1, <3>1, <4>1
    <3> QED
      BY <1>1, <3>1
  <2>2. m \in Nat /\ l = m * P
    <3> HIDE DEF P, l
    <3> QED
      BY <1>1, <2>1
  <2>3. FirstPage(o, slba) = s + slba * m /\ PageCount(o, slba, nlb) = nlb * m
    BY <1>2, <1>4
  <2> HIDE DEF P, l, z, s, m
  <2> DEFINE a == slba * m
             d == nlb * m
  <2>4. a \in Nat /\ d \in Nat
    BY <2>2
  <2>6. ASSUME slba + nlb <= z, z % P = 0
        PROVE  a + d <= q * l
    <3>1. q \in Nat /\ z = P * q
      BY <1>1, <2>6
    <3> HIDE DEF q
    <3>2. a + d = (slba + nlb) * m
      BY <2>2
    <3>3. (slba + nlb) * m <= z * m
      BY <1>1, <2>2, <2>6
    <3>4. z * m = q * l
      <4>1. z * m = (P * q) * m /\ q * l = q * (m * P)
        BY <2>2, <3>1
      <4> QED
        BY <4>1, <1>1, <2>2, <3>1
    <3> QED
      BY <3>2, <3>3, <3>4
  <2>7. q * l \in Int
    BY <1>1
  <2>8. FirstPage(o, slba) = s + a /\ PageCount(o, slba, nlb) = d
    BY <2>3
  <2> HIDE DEF a, d
  <2> QED
    BY <1>1, <1>2, <2>4, <2>6, <2>7, <2>8 DEF z, s, P
<1> QED
  BY <1>3, <1>4

-----------------------------------------------------------------------------
(* Contexts *)

IsContext(x) ==
  x = [on |-> x.on, ns |-> x.ns, n |-> x.n, buffer |-> x.buffer, got |-> x.got,
       floor |-> x.floor, id |-> x.id]

(* A context is sound, with so many objects and answered writes: it names  *)
(* an existing object, and it does so before a request is built.           *)
ContextOK(x, objs, logs) ==
  /\ IsContext(x) /\ x.ns \in 0..objs /\ x.buffer \in BOOLEAN
  /\ x.floor \in 0..logs /\ x.id \in Nat
  /\ "list" \in x.on \/ x.buffer => x.ns # 0

ContextInv ==
  /\ commands \in Seq(CommandTypes) /\ submitted \in 0..Len(commands)
  /\ log \in Seq(1..Len(commands)) /\ setThis \in Nat
  /\ context = [c \in 1..Len(commands) |-> context[c]]
  /\ \A c \in 1..Len(commands) :
       /\ ContextOK(context[c], Len(object), Len(log))
       /\ c > submitted => context[c] = NoContext
  /\ \A k \in 1..Len(log) : context[log[k]].ns # 0

(* What most steps do to the context of their command: y replaces x, with  *)
(* the same data, the namespace once it is known, and no new life.         *)
PlainContext(x, y, op, objs, logs) ==
  /\ ContextOK(y, objs, logs)
  /\ y.buffer = x.buffer
  /\ x.ns # 0 => y.ns = x.ns
  /\ op = "read" /\ y.got # <<>> => y.got = x.got /\ y.floor = x.floor
  /\ y.on # {} /\ y.buffer => x.on # {}

Moved(c) ==
  /\ commands' = commands /\ submitted' \in 0..Len(commands)
  /\ submitted <= submitted' /\ c <= submitted'

Replaced(c, y) ==
  context' = [d \in 1..Len(commands) |-> IF d = c THEN y ELSE context[d]]

PlainStep(c) ==
  /\ Moved(c)
  /\ \E y : Replaced(c, y) /\ PlainContext(context[c], y, commands[c].op,
                                           Len(object), Len(log))

(* What every step does at least.                                          *)
Sound(c) ==
  /\ Moved(c)
  /\ \E y : /\ Replaced(c, y) /\ ContextOK(y, Len(object), Len(log))
            /\ context[c].ns # 0 => y.ns = context[c].ns

(* What is known of a command and of its context.                          *)
LEMMA ContextFact ==
  ASSUME ContextInv, NEW c \in 1..Len(commands)
  PROVE  /\ Len(commands) \in Nat /\ Len(log) \in Nat /\ submitted \in Nat
         /\ commands[c] \in CommandTypes
         /\ ContextOK(context[c], Len(object), Len(log))
         /\ IsContext(context[c])
         /\ c > submitted => context[c] = NoContext
         /\ c > submitted => context[c].on = {} /\ ~context[c].buffer
                             /\ context[c].got = <<>> /\ context[c].ns = 0
<1>1. /\ Len(commands) \in Nat /\ Len(log) \in Nat /\ submitted \in Nat
      /\ commands[c] \in CommandTypes
  BY DEF ContextInv
<1>2. /\ ContextOK(context[c], Len(object), Len(log))
      /\ c > submitted => context[c] = NoContext
  BY DEF ContextInv
<1> QED
  BY <1>1, <1>2 DEF ContextOK, NoContext

(* A command that waits for something was submitted.                       *)
LEMMA Waiting ==
  ASSUME ContextInv, NEW c \in 1..Len(commands), context[c].on # {} \/ context[c].buffer,
         UNCHANGED <<commands, submitted>>
  PROVE  Moved(c)
<1>1. c <= submitted
  BY ContextFact
<1>2. submitted \in 0..Len(commands) /\ submitted <= submitted
  BY DEF ContextInv
<1> QED
  BY <1>1, <1>2 DEF Moved

(* So was one that is fetched now.                                         *)
LEMMA FetchedMoved ==
  ASSUME ContextInv, NEW c \in 1..Len(commands), Fetched(c), UNCHANGED commands
  PROVE  Moved(c) /\ context[c] = NoContext
  BY DEF Fetched, Moved, ContextInv

(* y is the context of a command that has just begun.                      *)
Begun(y, on, ns, got, floor, id) ==
  /\ IsContext(y) /\ y.on = on /\ y.ns = ns /\ y.buffer = FALSE
  /\ y.got = got /\ y.floor = floor /\ y.id = id

(* The assignments to the context of a command that is fetched.            *)
LEMMA FreshContext ==
  ASSUME ContextInv, NEW c \in 1..Len(commands), context[c] = NoContext,
         NEW on, NEW ns, NEW got, NEW floor, NEW id,
         \/ context' = [context EXCEPT ![c].on = on, ![c].ns = ns, ![c].floor = floor]
            /\ got = <<>> /\ id = 0
         \/ context' = [context EXCEPT ![c].on = on, ![c].got = got]
            /\ ns = 0 /\ floor = 0 /\ id = 0
         \/ context' = [context EXCEPT ![c].got = got]
            /\ on = {} /\ ns = 0 /\ floor = 0 /\ id = 0
         \/ context' = [context EXCEPT ![c].on = on, ![c].id = id]
            /\ got = <<>> /\ ns = 0 /\ floor = 0
  PROVE  \E y : Replaced(c, y) /\ Begun(y, on, ns, got, floor, id)
<1> DEFINE x == context[c]
<1>1. context = [d \in 1..Len(commands) |-> context[d]]
  BY DEF ContextInv
<1>2. c \in DOMAIN context
  BY <1>1
<1>3. /\ IsContext(x) /\ x.on = {} /\ x.ns = 0 /\ x.buffer = FALSE
      /\ x.got = <<>> /\ x.floor = 0 /\ x.id = 0
  BY DEF NoContext, IsContext
<1>4. CASE /\ context' = [context EXCEPT ![c].on = on, ![c].ns = ns, ![c].floor = floor]
          /\ got = <<>> /\ id = 0
  <2> DEFINE x1 == [x EXCEPT !.on = on]
             x2 == [x1 EXCEPT !.ns = ns]
             y == [x2 EXCEPT !.floor = floor]
  <2>1. context' = [context EXCEPT ![c] = y]
    BY <1>2, <1>4
  <2>2. /\ IsContext(x1) /\ x1.on = on /\ x1.ns = 0 /\ x1.buffer = FALSE
        /\ x1.got = <<>> /\ x1.floor = 0 /\ x1.id = 0
    BY <1>3 DEF IsContext
  <2> HIDE DEF x1
  <2>3. /\ IsContext(x2) /\ x2.on = on /\ x2.ns = ns /\ x2.buffer = FALSE
        /\ x2.got = <<>> /\ x2.floor = 0 /\ x2.id = 0
    BY <2>2 DEF IsContext
  <2> HIDE DEF x2
  <2>4. Begun(y, on, ns, got, floor, id)
    BY <2>3, <1>4 DEF Begun, IsContext
  <2> HIDE DEF y
  <2>5. Replaced(c, y)
    BY <1>1, <2>1 DEF Replaced
  <2> QED
    BY <2>4, <2>5
<1>5. CASE /\ context' = [context EXCEPT ![c].on = on, ![c].got = got]
          /\ ns = 0 /\ floor = 0 /\ id = 0
  <2> DEFINE x1 == [x EXCEPT !.on = on]
             y == [x1 EXCEPT !.got = got]
  <2>1. context' = [context EXCEPT ![c] = y]
    BY <1>2, <1>5
  <2>2. /\ IsContext(x1) /\ x1.on = on /\ x1.ns = 0 /\ x1.buffer = FALSE
        /\ x1.got = <<>> /\ x1.floor = 0 /\ x1.id = 0
    BY <1>3 DEF IsContext
  <2> HIDE DEF x1
  <2>3. Begun(y, on, ns, got, floor, id)
    BY <2>2, <1>5 DEF Begun, IsContext
  <2> HIDE DEF y
  <2>4. Replaced(c, y)
    BY <1>1, <2>1 DEF Replaced
  <2> QED
    BY <2>3, <2>4
<1>6. CASE /\ context' = [context EXCEPT ![c].got = got]
          /\ on = {} /\ ns = 0 /\ floor = 0 /\ id = 0
  <2> DEFINE y == [x EXCEPT !.got = got]
  <2>1. context' = [context EXCEPT ![c] = y]
    BY <1>2, <1>6
  <2>2. Begun(y, on, ns, got, floor, id)
    BY <1>3, <1>6 DEF Begun, IsContext
  <2> HIDE DEF y
  <2>3. Replaced(c, y)
    BY <1>1, <2>1 DEF Replaced
  <2> QED
    BY <2>2, <2>3
<1>7. CASE /\ context' = [context EXCEPT ![c].on = on, ![c].id = id]
          /\ got = <<>> /\ ns = 0 /\ floor = 0
  <2> DEFINE x1 == [x EXCEPT !.on = on]
             y == [x1 EXCEPT !.id = id]
  <2>1. context' = [context EXCEPT ![c] = y]
    BY <1>2, <1>7
  <2>2. /\ IsContext(x1) /\ x1.on = on /\ x1.ns = 0 /\ x1.buffer = FALSE
        /\ x1.got = <<>> /\ x1.floor = 0 /\ x1.id = 0
    BY <1>3 DEF IsContext
  <2> HIDE DEF x1
  <2>3. Begun(y, on, ns, got, floor, id)
    BY <2>2, <1>7 DEF Begun, IsContext
  <2> HIDE DEF y
  <2>4. Replaced(c, y)
    BY <1>1, <2>1 DEF Replaced
  <2> QED
    BY <2>3, <2>4
<1> QED
  BY <1>4, <1>5, <1>6, <1>7

(* y is x, waiting for something else.                                     *)
NowOn(x, y, on) ==
  /\ IsContext(y) /\ y.on = on /\ y.ns = x.ns /\ y.buffer = x.buffer
  /\ y.got = x.got /\ y.floor = x.floor /\ y.id = x.id

(* An assignment to "on" is such a change.                                 *)
LEMMA SetOn ==
  ASSUME ContextInv, NEW c \in 1..Len(commands), NEW on,
         context' = [context EXCEPT ![c].on = on]
  PROVE  \E y : Replaced(c, y) /\ NowOn(context[c], y, on)
<1>1. context = [d \in 1..Len(commands) |-> context[d]] /\ IsContext(context[c])
  BY ContextFact DEF ContextInv
<1> DEFINE y == [context[c] EXCEPT !.on = on]
<1>2. context' = [context EXCEPT ![c] = y]
  OBVIOUS
<1>3. NowOn(context[c], y, on)
  BY <1>1 DEF IsContext, NowOn
<1> HIDE DEF y
<1>4. Replaced(c, y)
  BY <1>1, <1>2 DEF Replaced
<1> QED
  BY <1>3, <1>4

(* Waiting for something else, or for nothing any more.                    *)
LEMMA PlainWait ==
  ASSUME ContextInv, NEW c \in 1..Len(commands), NEW on, "list" \notin on,
         context' = [context EXCEPT ![c].on = on], Moved(c),
         context[c].on # {} \/ ~context[c].buffer
  PROVE  PlainStep(c)
<1>1. PICK y : Replaced(c, y) /\ NowOn(context[c], y, on)
  BY SetOn
<1>2. ContextOK(context[c], Len(object), Len(log))
  BY ContextFact
<1>3. PlainContext(context[c], y, commands[c].op, Len(object), Len(log))
  BY <1>1, <1>2 DEF PlainContext, ContextOK, NowOn
<1> QED
  BY <1>1, <1>3 DEF PlainStep

(* Leaving the context alone.                                              *)
LEMMA PlainSame ==
  ASSUME ContextInv, NEW c \in 1..Len(commands), UNCHANGED context, Moved(c)
  PROVE  PlainStep(c)
<1> DEFINE y == context[c]
<1>1. Replaced(c, y)
  BY DEF Replaced, ContextInv
<1>2. ContextOK(y, Len(object), Len(log))
  BY ContextFact
<1>3. PlainContext(context[c], y, commands[c].op, Len(object), Len(log))
  BY <1>2 DEF PlainContext
<1> QED
  BY <1>1, <1>3 DEF PlainStep

(* A fetched command that begins to wait, with some of its fields set.     *)
LEMMA PlainBegin ==
  ASSUME ContextInv, NEW c \in 1..Len(commands), Fetched(c), UNCHANGED commands,
         NEW on, NEW ns \in 0..Len(object), NEW got, NEW floor \in 0..Len(log),
         NEW id \in Nat, "list" \notin on, commands[c].op = "read" => got = <<>>,
         \E y : Replaced(c, y) /\ Begun(y, on, ns, got, floor, id)
  PROVE  PlainStep(c)
<1>1. PICK y : Replaced(c, y) /\ Begun(y, on, ns, got, floor, id)
  OBVIOUS
<1>2. Moved(c) /\ context[c] = NoContext
  BY FetchedMoved
<1>3. context[c].buffer = FALSE /\ context[c].ns = 0
  BY <1>2 DEF NoContext
<1>4. PlainContext(context[c], y, commands[c].op, Len(object), Len(log))
  BY <1>1, <1>3 DEF PlainContext, ContextOK, Begun
<1> QED
  BY <1>1, <1>2, <1>4 DEF PlainStep

-----------------------------------------------------------------------------
(* The steps that leave the namespaces alone *)

(* A namespace that is found exists.                                       *)
LEMMA FindFact ==
  ASSUME SpaceInv, NEW nsid, Named(nsid) # {}
  PROVE  /\ Min(Named(nsid)) \in 1..Len(lNamespaces)
         /\ Find(nsid) \in 1..Len(object)
<1>1. /\ lNamespaces \in Seq(1..Len(object)) /\ Len(lNamespaces) \in Nat
      /\ DOMAIN lNamespaces = 1..Len(lNamespaces)
      /\ \A k \in 1..Len(lNamespaces) : lNamespaces[k] \in 1..Len(object)
  BY DEF SpaceInv, Space, SpaceTypes
<1>2. Named(nsid) \subseteq 1..Len(lNamespaces)
  BY <1>1 DEF Named
<1> DEFINE N == Named(nsid)
<1> HIDE DEF N
<1>3. N \subseteq Nat /\ N # {} /\ N \subseteq 1..Len(lNamespaces)
  BY <1>2 DEF N
<1>4. Min(N) \in N
  BY <1>3, MinFact
<1>5. Min(N) \in 1..Len(lNamespaces)
  BY <1>3, <1>4
<1> QED
  BY <1>1, <1>5 DEF N, Find

(* The lowest free identifier is a number.                                 *)
LEMMA LowestFreeFact ==
  ASSUME SpaceInv
  PROVE  LowestFree \in Nat
<1> DEFINE S == {n \in 0..Len(lNamespaces) :
                   \A k \in 1..n : object[lNamespaces[k]].nsid = k}
<1>1. Len(lNamespaces) \in Nat
  BY DEF SpaceInv, Space, SpaceTypes
<1>2. S \subseteq 0..Len(lNamespaces) /\ 0 \in S
  BY <1>1
<1>3. LowestFree = 1 + Max(S)
  BY DEF LowestFree
<1> HIDE DEF S
<1>4. Max(S) \in S
  BY <1>1, <1>2, MaxFact
<1>5. Max(S) \in 0..Len(lNamespaces)
  BY <1>2, <1>4
<1>6. 1 + Max(S) \in Nat
  BY <1>1, <1>5
<1> QED
  BY <1>3, <1>6

(* submitCommand's search for the namespace.                               *)
LEMMA DispatchedPlain ==
  ASSUME ContextInv, SpaceInv, NEW c \in 1..Len(commands), Fetched(c),
         UNCHANGED commands, NEW k, Dispatched(c, k)
  PROVE  PlainStep(c)
<1> DEFINE nsid == commands[c].nsid
           ns == IF nsid = AllNamespaces THEN 0 ELSE Find(nsid)
           on == {"submit"}
<1>1. Moved(c) /\ context[c] = NoContext
  BY FetchedMoved
<1>2. CASE ~ IF nsid = AllNamespaces THEN lNamespaces # <<>> ELSE Named(nsid) # {}
  <2>1. UNCHANGED context
    BY <1>2 DEF Dispatched
  <2> QED
    BY <1>1, <2>1, PlainSame
<1>3. CASE IF nsid = AllNamespaces THEN lNamespaces # <<>> ELSE Named(nsid) # {}
  <2>1. context' = [context EXCEPT ![c].on = on, ![c].ns = ns, ![c].floor = Len(log)]
    BY <1>3 DEF Dispatched
  <2>2. Len(object) \in Nat
    BY DEF SpaceInv, Space, SpaceTypes
  <2>3. ns \in 0..Len(object)
    <3>1. CASE nsid = AllNamespaces
      BY <2>2, <3>1
    <3>2. CASE nsid # AllNamespaces
      <4>1. Find(nsid) \in 1..Len(object)
        BY <1>3, <3>2, FindFact
      <4> QED
        BY <2>2, <3>2, <4>1
    <3> QED
      BY <3>1, <3>2
  <2>4. "list" \notin on /\ Len(log) \in 0..Len(log)
    BY ContextFact
  <2> HIDE DEF on, ns
  <2> DEFINE floor == Len(log)
  <2> HIDE DEF floor
  <2>5. \E y : Replaced(c, y) /\ Begun(y, on, ns, <<>>, floor, 0)
    BY <1>1, <2>1, FreshContext DEF floor
  <2> QED
    BY <2>3, <2>4, <2>5, PlainBegin DEF floor
<1> QED
  BY <1>2, <1>3

(* The commands that go to a namespace or are answered from a log.         *)
LEMMA SubmitPlain ==
  ASSUME ContextInv, SpaceInv, NEW c \in 1..Len(commands),
         SubmitDispatched(c) \/ SubmitLogPage(c)
  PROVE  PlainStep(c)
<1>1. Fetched(c) /\ UNCHANGED commands
  BY DEF SubmitDispatched, SubmitLogPage, settings
<1>2. Moved(c) /\ context[c] = NoContext
  BY <1>1, FetchedMoved
<1>3. ~context[c].buffer
  BY <1>2 DEF NoContext
<1>4. CASE SubmitDispatched(c)
  <2>1. Dispatched(c, 0)
    BY <1>4 DEF SubmitDispatched
  <2> QED
    BY <1>1, <2>1, DispatchedPlain
<1>5. CASE SubmitLogPage(c)
  <2>1. \/ UNCHANGED context
        \/ context' = [context EXCEPT ![c].on = {"transfer"}]
        \/ Dispatched(c, 1)
    BY <1>5 DEF SubmitLogPage, WaitFor
  <2>2. "list" \notin {"transfer"}
    OBVIOUS
  <2> QED
    BY <1>1, <1>2, <1>3, <2>1, <2>2, DispatchedPlain, PlainSame, PlainWait
<1> QED
  BY <1>4, <1>5

(* The other admin commands.                                               *)
LEMMA AdminPlain ==
  ASSUME ContextInv, SpaceInv, NEW c \in 1..Len(commands), SubmitAdmin(c)
  PROVE  PlainStep(c)
<1>1. Fetched(c) /\ UNCHANGED commands
  BY DEF SubmitAdmin
<1>2. Moved(c) /\ context[c] = NoContext
  BY <1>1, FetchedMoved
<1>3. /\ commands[c].op # "read"
      /\ \/ UNCHANGED context
         \/ \E data : Later(c, data)
         \/ context' = [context EXCEPT ![c].got = <<queueAllocated>>]
  <2>1. commands[c].op # "read"
    BY DEF SubmitAdmin
  <2>2. CASE deleteSQueue(c) \/ deleteCQueue(c) \/ abort(c) \/ Never(c) \/ setFeatures(c)
    BY <2>1, <2>2 DEF deleteSQueue, deleteCQueue, abort, Never, setFeatures, Now
  <2>3. CASE createSQueue(c) \/ createCQueue(c)
    BY <2>1, <2>3 DEF createSQueue, createCQueue, Now, Never
  <2>4. CASE identify(c)
    BY <2>1, <2>4 DEF identify
  <2>5. CASE identifyList(c)
    BY <2>1, <2>5 DEF identifyList, Now
  <2>6. CASE getFeatures(c)
    BY <2>1, <2>6 DEF getFeatures
  <2> QED
    BY <2>2, <2>3, <2>4, <2>5, <2>6 DEF SubmitAdmin
<1>4. ASSUME NEW on, NEW data, "list" \notin on,
             context' = [context EXCEPT ![c].on = on, ![c].got = data]
      PROVE  PlainStep(c)
  <2>1. \E y : Replaced(c, y) /\ Begun(y, on, 0, data, 0, 0)
    BY <1>2, <1>4, FreshContext
  <2>2. 0 \in 0..Len(object) /\ 0 \in 0..Len(log) /\ 0 \in Nat
    BY ContextFact DEF SpaceInv, Space, SpaceTypes
  <2> QED
    BY <1>1, <1>3, <1>4, <2>1, <2>2, PlainBegin
<1>5. CASE UNCHANGED context
  BY <1>2, <1>5, PlainSame
<1>6. CASE \E data : Later(c, data)
  <2>1. PICK data : context' = [context EXCEPT ![c].on = {"transfer"}, ![c].got = data]
    BY <1>6 DEF Later
  <2>2. "list" \notin {"transfer"}
    OBVIOUS
  <2> QED
    BY <1>4, <2>1, <2>2
<1>7. CASE context' = [context EXCEPT ![c].got = <<queueAllocated>>]
  <2> DEFINE data == <<queueAllocated>>
  <2>2. context' = [context EXCEPT ![c].got = data]
    BY <1>7
  <2> HIDE DEF data
  <2>3. \E y : Replaced(c, y) /\ Begun(y, {}, 0, data, 0, 0)
    BY <1>2, <2>2, FreshContext
  <2>4. 0 \in 0..Len(object) /\ 0 \in 0..Len(log) /\ 0 \in Nat /\ "list" \notin {}
    BY ContextFact DEF SpaceInv, Space, SpaceTypes
  <2> QED
    BY <1>1, <1>3, <2>3, <2>4, PlainBegin
<1> QED
  BY <1>3, <1>5, <1>6, <1>7

(* namespaceManagement and namespaceAttachment read their data first.      *)
LEMMA CreatePlain ==
  ASSUME ContextInv, SpaceInv, NEW c \in 1..Len(commands),
         SubmitCreate(c) \/ SubmitAttach(c)
  PROVE  PlainStep(c)
<1>1. Fetched(c) /\ UNCHANGED commands
  BY DEF SubmitCreate, SubmitAttach, settings
<1>2. Moved(c) /\ context[c] = NoContext
  BY <1>1, FetchedMoved
<1>3. CASE SubmitAttach(c)
  <2>1. context' = [context EXCEPT ![c].on = {"list of controllers"}]
    BY <1>3 DEF SubmitAttach, WaitFor
  <2>2. "list" \notin {"list of controllers"} /\ ~context[c].buffer
    BY <1>2 DEF NoContext
  <2> QED
    BY <1>2, <2>1, <2>2, PlainWait
<1>4. CASE SubmitCreate(c)
  <2>1. CASE UNCHANGED context
    BY <1>2, <2>1, PlainSame
  <2>2. CASE ~ UNCHANGED context
    <3> DEFINE id == LowestFree
               on == {"info"}
    <3>1. context' = [context EXCEPT ![c].on = on, ![c].id = id]
      BY <1>4, <2>2 DEF SubmitCreate
    <3>2. id \in Nat /\ "list" \notin on
      BY LowestFreeFact
    <3> HIDE DEF id, on
    <3>3. \E y : Replaced(c, y) /\ Begun(y, on, 0, <<>>, 0, id)
      BY <1>2, <3>1, FreshContext
    <3>4. 0 \in 0..Len(object) /\ 0 \in 0..Len(log)
      BY ContextFact DEF SpaceInv, Space, SpaceTypes
    <3> QED
      BY <1>1, <3>2, <3>3, <3>4, PlainBegin
  <2> QED
    BY <2>1, <2>2
<1> QED
  BY <1>3, <1>4

(* An assignment to "on" and to the counter changes no other field.        *)
LEMMA SetOnN ==
  ASSUME ContextInv, NEW c \in 1..Len(commands), NEW on, NEW n,
         \/ context' = [context EXCEPT ![c].on = on, ![c].n = n]
         \/ context' = [context EXCEPT ![c].n = n, ![c].on = on]
  PROVE  \E y : Replaced(c, y) /\ NowOn(context[c], y, on)
<1> DEFINE x == context[c]
           x1 == [x EXCEPT !.on = on]
           y1 == [x1 EXCEPT !.n = n]
           x2 == [x EXCEPT !.n = n]
           y2 == [x2 EXCEPT !.on = on]
<1>1. context = [d \in 1..Len(commands) |-> context[d]] /\ IsContext(x)
  BY ContextFact DEF ContextInv
<1>2. c \in DOMAIN context
  BY <1>1
<1>3. context' = [context EXCEPT ![c] = y1] \/ context' = [context EXCEPT ![c] = y2]
  BY <1>2
<1> HIDE DEF x
<1>4. /\ IsContext(x1) /\ x1.on = on /\ x1.ns = x.ns /\ x1.buffer = x.buffer
      /\ x1.got = x.got /\ x1.floor = x.floor /\ x1.id = x.id
  BY <1>1 DEF IsContext
<1>5. /\ IsContext(x2) /\ x2.ns = x.ns /\ x2.buffer = x.buffer
      /\ x2.got = x.got /\ x2.floor = x.floor /\ x2.id = x.id
  BY <1>1 DEF IsContext
<1> HIDE DEF x1, x2
<1>6. NowOn(x, y1, on)
  BY <1>4 DEF IsContext, NowOn
<1>7. NowOn(x, y2, on)
  BY <1>5 DEF IsContext, NowOn
<1> HIDE DEF y1, y2
<1>8. Replaced(c, y1) \/ Replaced(c, y2)
  BY <1>1, <1>3 DEF Replaced
<1> QED
  BY <1>6, <1>7, <1>8 DEF x

(* Any such change of a command that waits is plain.                       *)
LEMMA PlainOn ==
  ASSUME ContextInv, NEW c \in 1..Len(commands), NEW on, "list" \notin on,
         \E y : Replaced(c, y) /\ NowOn(context[c], y, on),
         context[c].on # {}, UNCHANGED <<commands, submitted>>
  PROVE  PlainStep(c)
<1>1. PICK y : Replaced(c, y) /\ NowOn(context[c], y, on)
  OBVIOUS
<1>2. ContextOK(context[c], Len(object), Len(log))
  BY ContextFact
<1>3. PlainContext(context[c], y, commands[c].op, Len(object), Len(log))
  BY <1>1, <1>2 DEF PlainContext, ContextOK, NowOn
<1>4. Moved(c)
  BY Waiting
<1> QED
  BY <1>1, <1>3, <1>4 DEF PlainStep

(* Namespace::submitCommand fixes the namespace.                           *)
LEMMA NamespaceSubmitPlain ==
  ASSUME ContextInv, SpaceInv, NEW c \in 1..Len(commands), NamespaceSubmit(c)
  PROVE  PlainStep(c)
<1> DEFINE x == context[c]
           ns == IF x.ns = 0 THEN Head(lNamespaces) ELSE x.ns
<1>1. "submit" \in x.on /\ UNCHANGED <<commands, submitted>>
      /\ (x.ns # 0 \/ lNamespaces # <<>>)
  BY DEF NamespaceSubmit, settings
<1>2. x.on # {}
  BY <1>1
<1>3. Moved(c)
  BY <1>1, <1>2, Waiting
<1>4. ContextOK(x, Len(object), Len(log)) /\ IsContext(x)
  BY ContextFact
<1>5. ns \in 1..Len(object) /\ Len(object) \in Nat
  <2>1. lNamespaces \in Seq(1..Len(object)) /\ Len(object) \in Nat
    BY DEF SpaceInv, Space, SpaceTypes
  <2>2. lNamespaces # <<>> => Head(lNamespaces) \in 1..Len(object)
    BY <2>1
  <2>3. x.ns \in 0..Len(object)
    BY <1>4 DEF ContextOK
  <2> QED
    BY <1>1, <2>1, <2>2, <2>3
<1>6. \/ context' = [context EXCEPT ![c].on = {}]
      \/ \E on : context' = [context EXCEPT ![c].on = on, ![c].ns = ns]
  BY DEF NamespaceSubmit, WaitFor
<1>7. CASE context' = [context EXCEPT ![c].on = {}]
  <2>1. "list" \notin {}
    OBVIOUS
  <2> QED
    BY <1>2, <1>3, <1>7, <2>1, PlainWait
<1>8. CASE \E on : context' = [context EXCEPT ![c].on = on, ![c].ns = ns]
  <2>1. PICK on : context' = [context EXCEPT ![c].on = on, ![c].ns = ns]
    BY <1>8
  <2>2. x.ns # 0 => ns = x.ns
    OBVIOUS
  <2> HIDE DEF ns
  <2> DEFINE x1 == [x EXCEPT !.on = on]
             y == [x1 EXCEPT !.ns = ns]
  <2>3. context = [d \in 1..Len(commands) |-> context[d]]
    BY DEF ContextInv
  <2>4. context' = [context EXCEPT ![c] = y]
    BY <2>1, <2>3
  <2> HIDE DEF x
  <2>5. /\ IsContext(x1) /\ x1.on = on /\ x1.buffer = x.buffer
        /\ x1.got = x.got /\ x1.floor = x.floor /\ x1.id = x.id
    BY <1>4 DEF IsContext
  <2> HIDE DEF x1
  <2>6. /\ IsContext(y) /\ y.ns = ns /\ y.buffer = x.buffer
        /\ y.got = x.got /\ y.floor = x.floor /\ y.id = x.id
    BY <2>5 DEF IsContext
  <2> HIDE DEF y
  <2>7. Replaced(c, y)
    BY <2>3, <2>4 DEF Replaced
  <2>8. PlainContext(x, y, commands[c].op, Len(object), Len(log))
    BY <1>2, <1>4, <1>5, <2>2, <2>6 DEF PlainContext, ContextOK
  <2> QED
    BY <1>3, <2>7, <2>8 DEF PlainStep, x
<1> QED
  BY <1>6, <1>7, <1>8

(* The callbacks that only answer or go on to the next stage.              *)
LEMMA CallbackPlain ==
  ASSUME ContextInv, SpaceInv, NEW c \in 1..Len(commands),
         \/ TransferDone(c) \/ Resume(c) \/ ToHIL(c) \/ FlushDone(c)
         \/ TrimRead(c) \/ EachTrimDone(c) \/ UseAfterDelete(c)
  PROVE  PlainStep(c)
<1> DEFINE x == context[c]
<1>1. ContextOK(x, Len(object), Len(log))
  BY ContextFact
<1>2. UNCHANGED <<commands, submitted>>
  BY DEF TransferDone, Resume, ToHIL, FlushDone, TrimRead, EachTrimDone,
         UseAfterDelete, Crash, settings
<1>3. x.on # {}
  BY DEF TransferDone, Resume, ToHIL, FlushDone, TrimRead, EachTrimDone, UseAfterDelete
<1>4. Moved(c)
  BY <1>2, <1>3, Waiting
<1>5. ASSUME NEW on, "list" \notin on, context' = [context EXCEPT ![c].on = on]
      PROVE  PlainStep(c)
  BY <1>3, <1>4, <1>5, PlainWait
<1>6. CASE TransferDone(c) \/ FlushDone(c)
  <2>1. "list" \notin {} /\ context' = [context EXCEPT ![c].on = {}]
    BY <1>6 DEF TransferDone, FlushDone, WaitFor
  <2> QED
    BY <1>5, <2>1
<1>7. CASE UseAfterDelete(c)
  <2>1. UNCHANGED context
    BY <1>7 DEF UseAfterDelete, Crash
  <2> QED
    BY <1>4, <2>1, PlainSame
<1>8. CASE EachTrimDone(c)
  <2>1. CASE UNCHANGED context
    BY <1>4, <2>1, PlainSame
  <2>2. CASE ~ UNCHANGED context
    <3>1. context' = [context EXCEPT ![c].n = @ - 1,
                                     ![c].on = IF context[c].n = 1 THEN {} ELSE @]
      BY <1>8, <2>2 DEF EachTrimDone
    <3> DEFINE n == context[c].n - 1
               on == IF context[c].n = 1 THEN {} ELSE context[c].on
    <3>2. context' = [context EXCEPT ![c].n = n, ![c].on = on]
      <4>1. context = [d \in 1..Len(commands) |-> context[d]] /\ IsContext(context[c])
        BY ContextFact DEF ContextInv
      <4>2. [context[c] EXCEPT !.n = n].on = context[c].on
        BY <4>1 DEF IsContext
      <4> QED
        BY <3>1, <4>1, <4>2
    <3> HIDE DEF n
    <3>3. \E y : Replaced(c, y) /\ NowOn(x, y, on)
      <4> HIDE DEF on
      <4> QED
        BY <3>2, SetOnN
    <3>4. PICK y : Replaced(c, y) /\ NowOn(x, y, on)
      BY <3>3
    <3>5. "list" \in on => "list" \in x.on
      OBVIOUS
    <3>6. PlainContext(x, y, commands[c].op, Len(object), Len(log))
      <4> HIDE DEF on, x
      <4> QED
        BY <1>1, <1>3, <3>4, <3>5 DEF PlainContext, ContextOK, NowOn
    <3> QED
      BY <1>4, <3>4, <3>6 DEF PlainStep
  <2> QED
    BY <2>1, <2>2
<1>9. CASE TrimRead(c)
  <2> DEFINE on == {"hil"}
             n == commands[c].nlb
  <2>1. context' = [context EXCEPT ![c].on = on, ![c].n = n]
    BY <1>9 DEF TrimRead
  <2>2. "list" \notin on
    OBVIOUS
  <2> HIDE DEF on, n
  <2>3. \E y : Replaced(c, y) /\ NowOn(x, y, on)
    BY <2>1, SetOnN
  <2> QED
    BY <1>2, <1>3, <2>2, <2>3, PlainOn
<1>10. ASSUME NEW on, NEW e, e # "list", context' = [context EXCEPT ![c].on = on],
              on \subseteq x.on \union {e}
       PROVE  PlainStep(c)
  <2>1. PICK y : Replaced(c, y) /\ NowOn(x, y, on)
    BY <1>10, SetOn
  <2>2. "list" \in on => "list" \in x.on
    BY <1>10
  <2>3. PlainContext(x, y, commands[c].op, Len(object), Len(log))
    BY <1>1, <1>3, <2>1, <2>2 DEF PlainContext, ContextOK, NowOn
  <2> QED
    BY <1>4, <2>1, <2>3 DEF PlainStep
<1>11. CASE Resume(c)
  <2> DEFINE on == (x.on \ {"credit"}) \union {"dma"}
  <2>1. context' = [context EXCEPT ![c].on = on] /\ "dma" # "list"
    BY <1>11 DEF Resume, WaitFor
  <2>2. on \subseteq x.on \union {"dma"}
    OBVIOUS
  <2> HIDE DEF on
  <2> QED
    BY <1>10, <2>1, <2>2
<1>12. CASE ToHIL(c)
  <2>1. CASE UNCHANGED context
    BY <1>4, <2>1, PlainSame
  <2>2. CASE ~ UNCHANGED context
    <3> DEFINE on == (x.on \ {"convert"}) \union {"hil"}
    <3>1. context' = [context EXCEPT ![c].on = on] /\ "hil" # "list"
      BY <1>12, <2>2 DEF ToHIL, WaitFor, Crash
    <3>2. on \subseteq x.on \union {"hil"}
      OBVIOUS
    <3> HIDE DEF on
    <3> QED
      BY <1>10, <3>1, <3>2
  <2> QED
    BY <2>1, <2>2
<1> QED
  BY <1>6, <1>7, <1>8, <1>9, <1>11, <1>12

-----------------------------------------------------------------------------
(* The steps that change namespaces *)

(* What a command may touch of its namespace o.                            *)
OwnPages(t, o) ==
  t.inside /\ o.size % PageSize = 0 /\ ~o.formatted =>
    t.from >= o.slpn /\ t.to <= o.slpn + o.nlp

TouchedInv == \A t \in touched : t.ns \in 1..Len(object) /\ OwnPages(t, object[t.ns])

(* A disk image stays or goes, and a new one is empty.                     *)
DisksKept(obj, obj2) ==
  /\ Len(obj) <= Len(obj2)
  /\ \A i \in 1..Len(obj) : obj2[i].disk = obj[i].disk \/ obj2[i].disk = NoDisk
  /\ \A i \in 1..Len(obj2) : i > Len(obj) => obj2[i].disk = NewDisk

(* What was touched before a namespace is created stays inside.            *)
LEMMA TouchedGrown ==
  ASSUME SpaceInv, TouchedInv, touched' = touched,
         \/ object' = object
         \/ \E o \in Objects : o.disk = NewDisk /\ object' = Append(object, o)
  PROVE  TouchedInv' /\ DisksKept(object, object')
<1>1. object \in Seq(Objects) /\ Len(object) \in Nat
  BY DEF SpaceInv, Space, SpaceTypes
<1>2. CASE object' = object
  BY <1>1, <1>2 DEF TouchedInv, OwnPages, DisksKept
<1>3. CASE \E o \in Objects : o.disk = NewDisk /\ object' = Append(object, o)
  <2>1. PICK o \in Objects : o.disk = NewDisk /\ object' = Append(object, o)
    BY <1>3
  <2>2. /\ Len(object') = Len(object) + 1 /\ object'[Len(object) + 1] = o
        /\ \A i \in 1..Len(object) : object'[i] = object[i]
    BY <1>1, <2>1
  <2>3. TouchedInv'
    BY <1>1, <2>2 DEF TouchedInv, OwnPages
  <2>4. DisksKept(object, object')
    BY <1>1, <2>1, <2>2 DEF DisksKept
  <2> QED
    BY <2>3, <2>4
<1> QED
  BY <1>2, <1>3

(* So does what was touched before a namespace is attached or formatted.   *)
LEMMA TouchedKept ==
  ASSUME SpaceInv, TouchedInv, touched' = touched, Keeps(object, object')
  PROVE  TouchedInv'
<1>1. /\ Len(object') = Len(object)
      /\ \A i \in 1..Len(object) :
           /\ object'[i].slpn = object[i].slpn /\ object'[i].nlp = object[i].nlp
           /\ \/ object'[i].formatted
              \/ /\ object'[i].formatted = object[i].formatted
                 /\ object'[i].size = object[i].size
  BY DEF Keeps
<1> QED
  BY <1>1 DEF TouchedInv, OwnPages

(* One namespace is replaced by another of the same pages.                 *)
Replaces(o, q) ==
  /\ o \in Objects /\ o.slpn = q.slpn /\ o.nlp = q.nlp
  /\ \/ o.formatted
     \/ o.formatted = q.formatted /\ o.size = q.size /\ o.format = q.format

Swapped(obj, obj2, i, o) == obj2 = [obj EXCEPT ![i] = o]
OnlyAt(obj, obj2, i, o) ==
  /\ Keeps(obj, obj2)
  /\ \A j \in 1..Len(obj) : obj2[j] = IF j = i THEN o ELSE obj[j]

(* The others stay as they are.                                            *)
LEMMA OneReplaced ==
  ASSUME NEW obj \in Seq(Objects), NEW i \in 1..Len(obj), NEW o,
         Replaces(o, obj[i]), NEW obj2, Swapped(obj, obj2, i, o)
  PROVE  OnlyAt(obj, obj2, i, o)
<1>1. /\ obj2 \in Seq(Objects) /\ Len(obj2) = Len(obj)
      /\ \A j \in 1..Len(obj) : obj2[j] = IF j = i THEN o ELSE obj[j]
  BY DEF Replaces, Swapped
<1> QED
  BY <1>1 DEF Keeps, Replaces, OnlyAt

(* What a step other than doRead and dmaDone is.                           *)
Steady(c) ==
  /\ PlainStep(c) /\ SpaceInv' /\ TouchedInv' /\ DisksKept(object, object')
  /\ log' = log /\ setThis' = setThis /\ mixed' = mixed

(* A step that leaves the namespaces alone.                                *)
LEMMA AloneSteady ==
  ASSUME SpaceInv, TouchedInv, NEW c, PlainStep(c),
         UNCHANGED <<lNamespaces, object, allocated, setThis, log, touched, mixed>>
  PROVE  Steady(c)
<1>1. TouchedInv' /\ DisksKept(object, object')
  BY TouchedGrown
<1>2. SpaceInv'
  BY DEF SpaceInv
<1> QED
  BY <1>1, <1>2 DEF Steady

(* A namespace is created.                                                 *)
LEMMA CreateSteady ==
  ASSUME Sane, ContextInv, SpaceInv, TouchedInv, NEW c \in 1..Len(commands), CreateDone(c)
  PROVE  Steady(c)
<1> DEFINE x == context[c]
           s == CreateNamespace([ok |-> TRUE, list |-> lNamespaces, object |-> object,
                                 allocated |-> allocated],
                                x.id, commands[c].size, commands[c].format)
<1>1. /\ "info" \in x.on /\ context' = [context EXCEPT ![c].on = {}]
      /\ UNCHANGED <<commands, submitted, setThis, log, touched, mixed>>
      /\ lNamespaces' = s.list /\ object' = s.object /\ allocated' = s.allocated
  BY DEF CreateDone, WaitFor, settings
<1>2. x.on # {} /\ "list" \notin {}
  BY <1>1
<1>3. Moved(c)
  BY <1>1, <1>2, Waiting
<1>4. PlainStep(c)
  BY <1>1, <1>2, <1>3, PlainWait
<1>5. PICK r, id, size, format : /\ r = s /\ id = x.id /\ size = commands[c].size
                                 /\ format = commands[c].format
  OBVIOUS
<1>6. id \in Nat /\ size \in Nat /\ format \in DOMAIN LBASize
  <2>1. ContextOK(x, Len(object), Len(log)) /\ commands[c] \in CommandTypes
    BY ContextFact
  <2>2. x.id \in Nat
    BY <2>1 DEF ContextOK
  <2>3. commands[c].size \in Nat /\ commands[c].format \in DOMAIN LBASize
    BY <2>1 DEF CommandTypes
  <2> HIDE DEF s, x
  <2> QED
    BY <1>5, <2>2, <2>3
<1>7. Created(r, lNamespaces, object, allocated, id, size, format)
  BY <1>5 DEF Created
<1> HIDE DEF s
<1>8. Grown(r, lNamespaces, object)
  BY <1>6, <1>7, Creation DEF SpaceInv
<1>9. /\ Space(lNamespaces', object', allocated')
      /\ \/ object' = object
         \/ \E o \in Objects : o.disk = NewDisk /\ object' = Append(object, o)
  BY <1>1, <1>5, <1>8 DEF Grown
<1>10. TouchedInv' /\ DisksKept(object, object')
  BY <1>1, <1>9, TouchedGrown
<1> QED
  BY <1>1, <1>4, <1>9, <1>10 DEF Steady, SpaceInv

(* A namespace is deleted.                                                 *)
LEMMA DeleteSteady ==
  ASSUME Sane, ContextInv, SpaceInv, TouchedInv, NEW c \in 1..Len(commands), SubmitDelete(c)
  PROVE  Steady(c)
<1> DEFINE nsid == commands[c].nsid
           p == Min(Named(nsid))
<1>1. /\ Fetched(c)
      /\ UNCHANGED <<commands, object, context, setThis, log, touched, mixed>>
  BY DEF SubmitDelete, settings
<1>2. PlainStep(c)
  BY <1>1, FetchedMoved, PlainSame
<1>3. TouchedInv' /\ DisksKept(object, object')
  BY <1>1, TouchedGrown
<1>4. SpaceInv'
  <2>1. CASE Named(nsid) = {}
    BY <1>1, <2>1 DEF SubmitDelete, SpaceInv
  <2>2. CASE Named(nsid) # {}
    <3>1. /\ lNamespaces' = RemoveAt(lNamespaces, p)
          /\ allocated' = allocated - GivenBack(object[lNamespaces[p]])
      BY <2>2 DEF SubmitDelete, Find
    <3>2. p \in 1..Len(lNamespaces)
      BY <2>2, FindFact
    <3> HIDE DEF p
    <3>3. PICK list2, back : /\ list2 = RemoveAt(lNamespaces, p)
                             /\ back = GivenBack(object[lNamespaces[p]])
      OBVIOUS
    <3>4. Space(list2, object, allocated - back)
      BY <3>2, <3>3, Deletion DEF SpaceInv
    <3> QED
      BY <1>1, <3>1, <3>3, <3>4 DEF SpaceInv
  <2> QED
    BY <2>1, <2>2
<1> QED
  BY <1>1, <1>2, <1>3, <1>4 DEF Steady

(* A namespace is attached or detached.                                    *)
LEMMA AttachSteady ==
  ASSUME Sane, ContextInv, SpaceInv, TouchedInv, NEW c \in 1..Len(commands), AttachDone(c)
  PROVE  Steady(c)
<1> DEFINE a == commands[c].op = "attach"
           hit(i) == i \in Live /\ object[i].nsid = commands[c].nsid
           o2(i) == IF hit(i) THEN [object[i] EXCEPT !.attached = a] ELSE object[i]
<1>1. /\ "list of controllers" \in context[c].on
      /\ context' = [context EXCEPT ![c].on = {}]
      /\ UNCHANGED <<commands, submitted, lNamespaces, allocated, setThis, log, touched, mixed>>
      /\ object' = object \/ object' = [i \in DOMAIN object |-> o2(i)]
  BY DEF AttachDone, WaitFor, settings
<1>2. context[c].on # {} /\ "list" \notin {}
  BY <1>1
<1>3. Moved(c)
  BY <1>1, <1>2, Waiting
<1>4. PlainStep(c)
  BY <1>1, <1>2, <1>3, PlainWait
<1>5. CASE object' = object
  BY <1>1, <1>4, <1>5, AloneSteady
<1>6. CASE object' = [i \in DOMAIN object |-> o2(i)]
  <2>1. object \in Seq(Objects) /\ Len(object) \in Nat /\ DOMAIN object = 1..Len(object)
        /\ \A i \in 1..Len(object) : object[i] \in Objects
    BY DEF SpaceInv, Space, SpaceTypes
  <2>2. ASSUME NEW i \in 1..Len(object)
        PROVE  /\ o2(i) \in Objects /\ o2(i).slpn = object[i].slpn
               /\ o2(i).nlp = object[i].nlp /\ o2(i).formatted = object[i].formatted
               /\ o2(i).size = object[i].size /\ o2(i).format = object[i].format
               /\ o2(i).disk = object[i].disk
    <3> DEFINE o == object[i]
               q == [o EXCEPT !.attached = a]
    <3>1. o \in Objects /\ a \in BOOLEAN
      BY <2>1
    <3> HIDE DEF o, a
    <3>2. /\ q \in Objects /\ q.slpn = o.slpn
          /\ q.nlp = o.nlp /\ q.formatted = o.formatted
          /\ q.size = o.size /\ q.format = o.format /\ q.disk = o.disk
      BY <3>1 DEF Objects
    <3>3. o2(i) = q \/ o2(i) = o
      BY DEF o
    <3> HIDE DEF q, o2
    <3> QED
      BY <3>1, <3>2, <3>3 DEF o
  <2> HIDE DEF o2
  <2>3. /\ object' \in Seq(Objects) /\ Len(object') = Len(object)
        /\ \A i \in 1..Len(object) : object'[i] = o2(i)
    <3>1. object' = [i \in 1..Len(object) |-> o2(i)]
      BY <1>6, <2>1
    <3>2. object' \in [1..Len(object) -> Objects]
      BY <2>2, <3>1
    <3> QED
      BY <2>1, <3>1, <3>2
  <2>4. Keeps(object, object')
    BY <2>2, <2>3 DEF Keeps
  <2>5. DisksKept(object, object')
    BY <2>1, <2>2, <2>3 DEF DisksKept
  <2>6. TouchedInv'
    BY <1>1, <2>4, TouchedKept
  <2>7. Space(lNamespaces, object', allocated)
    BY <2>4, SpaceKept DEF SpaceInv
  <2> QED
    BY <1>1, <1>4, <2>5, <2>6, <2>7 DEF Steady, SpaceInv
<1> QED
  BY <1>1, <1>5, <1>6

(* A namespace is formatted.                                               *)
LEMMA FormatSteady ==
  ASSUME Sane, ContextInv, SpaceInv, TouchedInv, NEW c \in 1..Len(commands), SubmitFormat(c)
  PROVE  Steady(c)
<1> DEFINE nsid == commands[c].nsid
           f == commands[c].format
           i == Find(nsid)
           z == (TotalPages * PageSize) \div LBASize[f]
           o == [object[i] EXCEPT !.format = f, !.disk = NoDisk, !.formatted = TRUE,
                                  !.size = z]
<1>1. /\ Fetched(c)
      /\ UNCHANGED <<commands, lNamespaces, allocated, setThis, log, touched, mixed>>
      /\ \/ UNCHANGED <<object, context>>
         \/ /\ Named(nsid) # {} /\ context' = [context EXCEPT ![c].on = {"transfer"}]
            /\ object' = [object EXCEPT ![i] = o]
  BY DEF SubmitFormat, WaitFor, settings
<1>2. Moved(c) /\ context[c] = NoContext
  BY <1>1, FetchedMoved
<1>3. CASE UNCHANGED <<object, context>>
  <2>1. PlainStep(c)
    BY <1>2, <1>3, PlainSame
  <2> QED
    BY <1>1, <1>3, <2>1, AloneSteady
<1>4. CASE /\ Named(nsid) # {} /\ context' = [context EXCEPT ![c].on = {"transfer"}]
           /\ object' = [object EXCEPT ![i] = o]
  <2>1. PlainStep(c)
    <3>1. ~context[c].buffer /\ "list" \notin {"transfer"}
      BY <1>2 DEF NoContext
    <3> QED
      BY <1>2, <1>4, <3>1, PlainWait
  <2>2. i \in 1..Len(object)
    BY <1>4, FindFact
  <2>3. object \in Seq(Objects) /\ Len(object) \in Nat /\ object[i] \in Objects
    BY <2>2 DEF SpaceInv, Space, SpaceTypes
  <2>4. f \in DOMAIN LBASize
    BY ContextFact DEF CommandTypes
  <2>5. z \in Nat
    <3>1. TotalPages \in Nat /\ PageSize \in Nat /\ LBASize[f] \in Nat \ {0}
      BY <2>4 DEF Sane
    <3> DEFINE y == TotalPages * PageSize
    <3>2. y \in Nat
      BY <3>1
    <3> HIDE DEF y, f
    <3>3. y \div LBASize[f] \in Nat
      BY <3>1, <3>2
    <3> QED
      BY <3>3 DEF y
  <2> HIDE DEF i, f, z
  <2>6. /\ o \in Objects /\ o.slpn = object[i].slpn /\ o.nlp = object[i].nlp
        /\ o.formatted /\ o.disk = NoDisk
    <3>1. PICK q : q = object[i]
      OBVIOUS
    <3>2. q \in Objects /\ NoDisk \in Disks
      BY <2>3, <3>1 DEF Disks
    <3>3. o = [q EXCEPT !.format = f, !.disk = NoDisk, !.formatted = TRUE, !.size = z]
      BY <3>1
    <3>4. PICK d : d = NoDisk
      OBVIOUS
    <3>5. LET p == [q EXCEPT !.format = f, !.disk = d, !.formatted = TRUE, !.size = z] IN
          p \in Objects /\ p.slpn = q.slpn /\ p.nlp = q.nlp /\ p.formatted /\ p.disk = d
      BY <2>4, <2>5, <3>2, <3>4 DEF Objects, f
    <3> QED
      BY <3>1, <3>3, <3>4, <3>5
  <2> HIDE DEF o
  <2>7. /\ Keeps(object, object')
        /\ \A j \in 1..Len(object) : object'[j] = IF j = i THEN o ELSE object[j]
    <3>1. Replaces(o, object[i])
      BY <2>6 DEF Replaces
    <3>2. PICK obj2 : obj2 = object'
      OBVIOUS
    <3>3. Swapped(object, obj2, i, o)
      BY <1>4, <3>2 DEF Swapped
    <3>4. OnlyAt(object, obj2, i, o)
      BY <2>2, <2>3, <3>1, <3>3, OneReplaced
    <3> QED
      BY <3>2, <3>4 DEF OnlyAt
  <2>8. DisksKept(object, object')
    BY <2>3, <2>6, <2>7 DEF DisksKept, Keeps
  <2>9. TouchedInv'
    BY <1>1, <2>7, TouchedKept
  <2>10. Space(lNamespaces, object', allocated)
    BY <2>7, SpaceKept DEF SpaceInv
  <2> QED
    BY <1>1, <2>1, <2>8, <2>9, <2>10 DEF Steady, SpaceInv
<1> QED
  BY <1>1, <1>3, <1>4

-----------------------------------------------------------------------------
(* Disk images and reads *)

(* Command d wrote block b of namespace i, and the last logged one to do.  *)
Wrote(d, i, b) ==
  /\ context[d].ns = i
  /\ b \in commands[d].slba..(commands[d].slba + commands[d].nlb - 1)
WrittenAt(i, b) == {k \in 1..Len(log) : Wrote(log[k], i, b)}
Newest(i, b) == IF WrittenAt(i, b) = {} THEN 0 ELSE log[Max(WrittenAt(i, b))]

Held(disk, b) == IF b \in DOMAIN disk.table THEN disk.table[b] ELSE 0

(* Each image that is left holds the newest logged writes.                 *)
DiskInv ==
  \A i \in 1..Len(object) : object[i].disk # NoDisk =>
    \A b \in Nat : Held(object[i].disk, b) = Newest(i, b)

(* What a read took is the newest write of the time of its submission, or  *)
(* a later one.                                                            *)
Early(c, b) == {k \in 1..context[c].floor : Wrote(log[k], context[c].ns, b)}
ReadOK(c, b) ==
  \/ \E k \in 1..Len(log) : /\ k > context[c].floor /\ Wrote(log[k], context[c].ns, b)
                            /\ context[c].got[b] = log[k]
  \/ context[c].got[b] = IF Early(c, b) = {} THEN 0 ELSE log[Max(Early(c, b))]
ReadInv ==
  \A c \in 1..Len(commands) :
    commands[c].op = "read" /\ context[c].got # <<>> =>
      context[c].ns # 0 /\ \A b \in DOMAIN context[c].got : ReadOK(c, b)

(* The static dmaDone has the namespace of every isc_set in flight.        *)
SetInv ==
  \A c \in 1..Len(commands) :
    commands[c].op = "iscSet" /\ context[c].on # {} /\ context[c].buffer =>
      setThis = context[c].ns

ImageInv == ~mixed => DiskInv /\ ReadInv /\ SetInv

SystemInv == ContextInv /\ SpaceInv /\ TouchedInv /\ ImageInv

(* What a plain step does to the context of each command.                  *)
Remembers ==
  /\ commands' = commands /\ Len(log) <= Len(log') /\ Len(log') \in Nat
  /\ \A k \in 1..Len(log) : log'[k] = log[k]
  /\ \A d \in 1..Len(commands) : context[d].ns # 0 => context'[d].ns = context[d].ns

(* Contexts stay sound, and a namespace once known is remembered.          *)
LEMMA ContextKept ==
  ASSUME ContextInv, NEW c \in 1..Len(commands), Sound(c),
         Len(object) \in Nat, Len(object') \in Nat, Len(object) <= Len(object'),
         log' = log \/ (log' = Append(log, c) /\ context[c].ns # 0),
         setThis' \in Nat
  PROVE  ContextInv' /\ Remembers
<1>1. PICK y : /\ Replaced(c, y) /\ ContextOK(y, Len(object), Len(log))
               /\ context[c].ns # 0 => y.ns = context[c].ns
  BY DEF Sound
<1>2. commands' = commands /\ submitted' \in 0..Len(commands)
      /\ submitted <= submitted' /\ c <= submitted'
  BY DEF Sound, Moved
<1>3. \A d \in 1..Len(commands) : context'[d] = IF d = c THEN y ELSE context[d]
  BY <1>1 DEF Replaced
<1>4. context' = [d \in 1..Len(commands) |-> context'[d]]
  BY <1>1 DEF Replaced
<1>5. \A d \in 1..Len(commands) : context[d].ns # 0 => context'[d].ns = context[d].ns
  BY <1>1, <1>3
<1>6. /\ log' \in Seq(1..Len(commands)) /\ Len(log) \in Nat /\ Len(log') \in Nat
      /\ Len(log) <= Len(log')
      /\ \A k \in 1..Len(log) : log'[k] = log[k] /\ log[k] \in 1..Len(commands)
      /\ \A k \in 1..Len(log') : k \in 1..Len(log) \/ (log'[k] = c /\ context[c].ns # 0)
  <2>1. log \in Seq(1..Len(commands))
    BY DEF ContextInv
  <2>2. CASE log' = log
    BY <2>1, <2>2
  <2>3. CASE log' = Append(log, c) /\ context[c].ns # 0
    BY <2>1, <2>3
  <2> QED
    BY <2>2, <2>3
<1>7. Remembers
  BY <1>2, <1>5, <1>6 DEF Remembers
<1>8. \A k \in 1..Len(log') : context'[log'[k]].ns # 0
  <2> SUFFICES ASSUME NEW k \in 1..Len(log') PROVE context'[log'[k]].ns # 0
    OBVIOUS
  <2>1. CASE k \in 1..Len(log)
    <3>1. log'[k] = log[k] /\ log[k] \in 1..Len(commands) /\ context[log[k]].ns # 0
      BY <1>6, <2>1 DEF ContextInv
    <3> QED
      BY <1>5, <3>1
  <2>2. CASE log'[k] = c /\ context[c].ns # 0
    BY <1>5, <2>2
  <2> QED
    BY <1>6, <2>1, <2>2
<1>9. ASSUME NEW d \in 1..Len(commands)
      PROVE  /\ ContextOK(context'[d], Len(object'), Len(log'))
             /\ d > submitted' => context'[d] = NoContext
  <2>1. ContextOK(context'[d], Len(object), Len(log))
    <3>1. CASE d = c
      BY <1>1, <1>3, <3>1
    <3>2. CASE d # c
      BY <1>3, <3>2, ContextFact
    <3> QED
      BY <3>1, <3>2
  <2>2. ContextOK(context'[d], Len(object'), Len(log'))
    <3> DEFINE x == context'[d]
    <3> HIDE DEF x
    <3>1. ContextOK(x, Len(object), Len(log))
      BY <2>1 DEF x
    <3>2. x.ns \in 0..Len(object') /\ x.floor \in 0..Len(log')
      BY <1>6, <3>1 DEF ContextOK
    <3>3. ContextOK(x, Len(object'), Len(log'))
      BY <3>1, <3>2 DEF ContextOK
    <3> QED
      BY <3>3 DEF x
  <2>3. d > submitted' => context'[d] = NoContext
    <3> SUFFICES ASSUME d > submitted' PROVE context'[d] = NoContext
      OBVIOUS
    <3>1. d # c /\ d > submitted
      BY <1>2 DEF ContextInv
    <3> QED
      BY <1>3, <3>1 DEF ContextInv
  <2> QED
    BY <2>2, <2>3
<1>10. commands' \in Seq(CommandTypes)
  BY <1>2 DEF ContextInv
<1> QED
  BY <1>2, <1>4, <1>6, <1>7, <1>8, <1>9, <1>10 DEF ContextInv

(* Who wrote a block does not change afterwards.                           *)
LEMMA WroteSame ==
  ASSUME ContextInv, Remembers, NEW k \in 1..Len(log), NEW i, NEW b
  PROVE  Wrote(log[k], i, b)' <=> Wrote(log[k], i, b)
<1>1. /\ log'[k] = log[k] /\ log[k] \in 1..Len(commands) /\ context[log[k]].ns # 0
      /\ commands' = commands
  BY DEF ContextInv, Remembers
<1>2. context'[log[k]].ns = context[log[k]].ns
  BY <1>1 DEF Remembers
<1> QED
  BY <1>1, <1>2 DEF Wrote

(* Nor does the newest write, while nothing is logged.                     *)
LEMMA NewestSame ==
  ASSUME ContextInv, Remembers, log' = log, NEW i, NEW b
  PROVE  Newest(i, b)' = Newest(i, b)
<1>1. WrittenAt(i, b)' = WrittenAt(i, b)
  BY WroteSame DEF WrittenAt
<1> QED
  BY <1>1 DEF Newest

(* A command that is logged becomes the newest where it wrote.             *)
LEMMA NewestAppend ==
  ASSUME ContextInv, Remembers, NEW c \in 1..Len(commands), context[c].ns # 0,
         log' = Append(log, c), NEW i, NEW b
  PROVE  Newest(i, b)' = IF Wrote(c, i, b) THEN c ELSE Newest(i, b)
<1> DEFINE n == Len(log)
           A == WrittenAt(i, b)
<1>1. /\ n \in Nat /\ Len(log') = n + 1 /\ log'[n + 1] = c
      /\ \A k \in 1..n : log'[k] = log[k]
  BY DEF ContextInv
<1>2. Wrote(c, i, b)' <=> Wrote(c, i, b)
  BY DEF Wrote, Remembers
<1>3. \A k \in 1..n : Wrote(log[k], i, b)' <=> Wrote(log[k], i, b)
  BY <1>1, WroteSame
<1>4. A \subseteq 1..n
  BY DEF WrittenAt
<1>5. CASE Wrote(c, i, b)
  <2>1. n + 1 \in WrittenAt(i, b)' /\ WrittenAt(i, b)' \subseteq 1..(n + 1)
    BY <1>1, <1>2, <1>5 DEF WrittenAt
  <2> DEFINE B == WrittenAt(i, b)'
  <2>2. B \subseteq 0..(n + 1) /\ n + 1 \in B /\ n + 1 \in Nat
    BY <1>1, <2>1
  <2> HIDE DEF B
  <2>3. Max(B) \in B /\ \A j \in B : j <= Max(B)
    BY <2>2, MaxFact
  <2>4. Max(B) = n + 1
    <3>1. Max(B) \in 0..(n + 1) /\ n + 1 <= Max(B)
      BY <2>2, <2>3
    <3> QED
      BY <1>1, <3>1
  <2>5. Newest(i, b)' = log'[Max(B)]
    BY <2>2 DEF Newest, B
  <2> QED
    BY <1>1, <1>5, <2>4, <2>5
<1>6. CASE ~Wrote(c, i, b)
  <2>1. WrittenAt(i, b)' = A
    <3>1. \A k \in 1..(n + 1) : k \in WrittenAt(i, b)' <=> k \in A
      <4> SUFFICES ASSUME NEW k \in 1..(n + 1)
                   PROVE  k \in WrittenAt(i, b)' <=> k \in A
        OBVIOUS
      <4>1. CASE k = n + 1
        BY <1>1, <1>2, <1>6, <4>1 DEF WrittenAt
      <4>2. CASE k \in 1..n
        BY <1>1, <1>3, <4>2 DEF WrittenAt
      <4> QED
        BY <1>1, <4>1, <4>2
    <3>2. WrittenAt(i, b)' \subseteq 1..(n + 1) /\ A \subseteq 1..(n + 1)
      BY <1>1, <1>4 DEF WrittenAt
    <3> HIDE DEF A
    <3> QED
      BY <3>1, <3>2
  <2>2. CASE A = {}
    BY <1>6, <2>1, <2>2 DEF Newest
  <2>3. CASE A # {}
    <3>1. A \subseteq 0..n
      BY <1>1, <1>4
    <3> DEFINE B == A
    <3> HIDE DEF B
    <3>2. Max(B) \in B
      BY <1>1, <2>3, <3>1, MaxFact DEF B
    <3>3. log'[Max(A)] = log[Max(A)]
      BY <1>1, <1>4, <3>2 DEF B
    <3> QED
      BY <1>6, <2>1, <2>3, <3>3 DEF Newest
  <2> QED
    BY <2>2, <2>3
<1> QED
  BY <1>5, <1>6

(* A read that is right stays right.                                       *)
LEMMA ReadKept ==
  ASSUME ContextInv, Remembers, NEW c \in 1..Len(commands), context[c].ns # 0,
         context'[c].got = context[c].got, context'[c].floor = context[c].floor,
         NEW b, ReadOK(c, b)
  PROVE  ReadOK(c, b)'
<1>1. /\ context'[c].ns = context[c].ns /\ Len(log) \in Nat
      /\ \A k \in 1..Len(log) : log'[k] = log[k] /\ k \in 1..Len(log')
      /\ context[c].floor \in 0..Len(log)
  BY ContextFact DEF Remembers, ContextInv, ContextOK
<1>2. ASSUME NEW k \in 1..Len(log)
      PROVE  Wrote(log[k], context[c].ns, b)' <=> Wrote(log[k], context[c].ns, b)
  <2>1. PICK i : i = context[c].ns
    OBVIOUS
  <2>2. Wrote(log[k], i, b)' <=> Wrote(log[k], i, b)
    BY WroteSame
  <2>3. Wrote(log[k], context[c].ns, b) <=> Wrote(log[k], i, b)
    BY <2>1
  <2>4. Wrote(log[k], context[c].ns, b)' <=> Wrote(log[k], i, b)'
    BY <1>1, <2>1 DEF Wrote
  <2> QED
    BY <2>2, <2>3, <2>4
<1>3. CASE \E k \in 1..Len(log) : /\ k > context[c].floor
                                  /\ Wrote(log[k], context[c].ns, b)
                                  /\ context[c].got[b] = log[k]
  <2>1. PICK k \in 1..Len(log) : /\ k > context[c].floor
                                 /\ Wrote(log[k], context[c].ns, b)
                                 /\ context[c].got[b] = log[k]
    BY <1>3
  <2>2. /\ k \in 1..Len(log') /\ k > context'[c].floor /\ log'[k] = log[k]
        /\ Wrote(log[k], context[c].ns, b)' /\ context'[c].got[b] = log'[k]
    BY <1>1, <1>2, <2>1
  <2> QED
    BY <1>1, <2>2 DEF ReadOK
<1>4. CASE context[c].got[b] = IF Early(c, b) = {} THEN 0 ELSE log[Max(Early(c, b))]
  <2> DEFINE f == context[c].floor
             E == Early(c, b)
  <2>1. \A k \in 1..f : k \in 1..Len(log)
    BY <1>1
  <2>2. Early(c, b)' = E
    <3>1. \A k \in 1..f : Wrote(log[k], context[c].ns, b)' <=> Wrote(log[k], context[c].ns, b)
      BY <1>2, <2>1
    <3> QED
      BY <1>1, <3>1 DEF Early
  <2>3. CASE E = {}
    BY <1>4, <2>2, <2>3 DEF ReadOK
  <2>4. CASE E # {}
    <3>1. E \subseteq 1..f
      BY DEF Early
    <3>2. E \subseteq 0..f /\ f \in Nat
      BY <1>1, <3>1
    <3> DEFINE B == E
    <3> HIDE DEF B, f
    <3>3. Max(B) \in B
      BY <2>4, <3>2, MaxFact DEF B
    <3>4. log'[Max(E)] = log[Max(E)]
      BY <1>1, <2>1, <3>1, <3>3 DEF B
    <3> QED
      BY <1>4, <2>2, <2>4, <3>4 DEF ReadOK
  <2> QED
    BY <2>3, <2>4
<1> QED
  BY <1>3, <1>4 DEF ReadOK

(* A plain step is a sound one.                                            *)
LEMMA PlainSound ==
  ASSUME NEW c, PlainStep(c)
  PROVE  Sound(c)
<1>1. PICK y : /\ Replaced(c, y)
               /\ PlainContext(context[c], y, commands[c].op, Len(object), Len(log))
  BY DEF PlainStep
<1>2. ContextOK(y, Len(object), Len(log)) /\ (context[c].ns # 0 => y.ns = context[c].ns)
  BY <1>1 DEF PlainContext
<1> QED
  BY <1>1, <1>2 DEF PlainStep, Sound

(* Reads and the object of the static dmaDone are right after it.          *)
LEMMA PlainKeeps ==
  ASSUME ContextInv, NEW c \in 1..Len(commands), PlainStep(c), Remembers,
         ReadInv, SetInv, setThis' = setThis
  PROVE  ReadInv' /\ SetInv'
<1>1. PICK y : /\ Replaced(c, y)
               /\ PlainContext(context[c], y, commands[c].op, Len(object), Len(log))
  BY DEF PlainStep
<1>2. \A d \in 1..Len(commands) : context'[d] = IF d = c THEN y ELSE context[d]
  BY <1>1 DEF Replaced
<1>3. commands' = commands
  BY DEF Remembers
<1>4. ASSUME NEW d \in 1..Len(commands), commands[d].op = "read", context'[d].got # <<>>
      PROVE  context'[d].ns # 0 /\ \A b \in DOMAIN context'[d].got : ReadOK(d, b)'
  <2>1. context'[d].got = context[d].got /\ context'[d].floor = context[d].floor
    <3>1. CASE d = c
      BY <1>1, <1>2, <1>4, <3>1 DEF PlainContext
    <3>2. CASE d # c
      BY <1>2, <3>2
    <3> QED
      BY <3>1, <3>2
  <2>2. context[d].ns # 0 /\ \A b \in DOMAIN context[d].got : ReadOK(d, b)
    BY <1>4, <2>1 DEF ReadInv
  <2>3. context'[d].ns # 0
    BY <2>2 DEF Remembers
  <2>4. ASSUME NEW b \in DOMAIN context[d].got PROVE ReadOK(d, b)'
    <3>1. ReadOK(d, b)
      BY <2>2
    <3> QED
      BY <2>1, <2>2, <3>1, ReadKept
  <2> QED
    BY <2>1, <2>3, <2>4
<1>5. ReadInv'
  BY <1>3, <1>4 DEF ReadInv
<1>6. ASSUME NEW d \in 1..Len(commands), commands[d].op = "iscSet",
             context'[d].on # {}, context'[d].buffer
      PROVE  setThis' = context'[d].ns
  <2>1. CASE d = c
    <3>1. context[c].on # {} /\ context[c].buffer
      BY <1>1, <1>2, <1>6, <2>1 DEF PlainContext
    <3>2. context[c].ns # 0
      BY <3>1, ContextFact DEF ContextOK
    <3>3. setThis = context[c].ns
      BY <1>6, <2>1, <3>1 DEF SetInv
    <3> QED
      BY <2>1, <3>2, <3>3 DEF Remembers
  <2>2. CASE d # c
    BY <1>2, <1>6, <2>2 DEF SetInv
  <2> QED
    BY <2>1, <2>2
<1>7. SetInv'
  BY <1>3, <1>6 DEF SetInv
<1> QED
  BY <1>5, <1>7

(* A steady step keeps the invariant.                                      *)
LEMMA SteadyKeeps ==
  ASSUME SystemInv, NEW c \in 1..Len(commands), Steady(c)
  PROVE  SystemInv'
<1>1. /\ ContextInv /\ SpaceInv /\ TouchedInv /\ ImageInv
      /\ PlainStep(c) /\ SpaceInv' /\ TouchedInv' /\ DisksKept(object, object')
      /\ log' = log /\ setThis' = setThis /\ mixed' = mixed
  BY DEF SystemInv, Steady
<1>2. Len(object) \in Nat /\ Len(object') \in Nat /\ Len(object) <= Len(object')
      /\ setThis' \in Nat
  BY <1>1 DEF SpaceInv, Space, SpaceTypes, DisksKept, ContextInv
<1>3. ContextInv' /\ Remembers
  BY <1>1, <1>2, PlainSound, ContextKept
<1>4. ASSUME ~mixed' PROVE DiskInv' /\ ReadInv' /\ SetInv'
  <2>1. DiskInv /\ ReadInv /\ SetInv
    BY <1>1, <1>4 DEF ImageInv
  <2>2. ReadInv' /\ SetInv'
    BY <1>1, <1>3, <2>1, PlainKeeps
  <2>3. ASSUME NEW i \in 1..Len(object'), object'[i].disk # NoDisk, NEW b \in Nat
        PROVE  Held(object'[i].disk, b) = Newest(i, b)'
    <3>1. Newest(i, b)' = Newest(i, b)
      BY <1>1, <1>3, NewestSame
    <3>2. CASE i \in 1..Len(object)
      <4>1. object'[i].disk = object[i].disk /\ object[i].disk # NoDisk
        BY <1>1, <2>3, <3>2 DEF DisksKept
      <4> QED
        BY <2>1, <3>1, <3>2, <4>1 DEF DiskInv
    <3>3. CASE i > Len(object)
      <4>1. object'[i].disk = NewDisk
        BY <1>1, <3>3 DEF DisksKept
      <4>2. Held(NewDisk, b) = 0
        BY DEF Held, NewDisk
      <4>3. \A k \in 1..Len(log) : ~Wrote(log[k], i, b)
        <5> SUFFICES ASSUME NEW k \in 1..Len(log) PROVE ~Wrote(log[k], i, b)
          OBVIOUS
        <5>1. log[k] \in 1..Len(commands)
          BY <1>1 DEF ContextInv
        <5>2. context[log[k]].ns \in 0..Len(object)
          BY <1>1, <5>1, ContextFact DEF ContextOK
        <5> QED
          BY <1>2, <3>3, <5>2 DEF Wrote
      <4>4. Newest(i, b) = 0
        BY <4>3 DEF Newest, WrittenAt
      <4> QED
        BY <3>1, <4>1, <4>2, <4>4
    <3> QED
      BY <1>2, <3>2, <3>3
  <2>4. DiskInv'
    BY <2>3 DEF DiskInv, Held
  <2> QED
    BY <2>2, <2>4
<1> QED
  BY <1>1, <1>3, <1>4 DEF SystemInv, ImageInv

(* What DiskWrite leaves in the image.                                     *)
LEMMA DiskWriteFact ==
  ASSUME NEW disk \in Disks, disk # NoDisk, NEW first \in Nat, NEW n \in Nat, NEW c \in Nat
  PROVE  /\ DiskWrite(disk, first, n, c) \in Disks
         /\ \A b \in Nat : Held(DiskWrite(disk, first, n, c), b) =
              IF b \in first..(first + n - 1) THEN c ELSE Held(disk, b)
<1> DEFINE T == disk.table
           W == first..(first + n - 1)
           U == [b \in DOMAIN T \union W |-> IF b \in W THEN c ELSE T[b]]
<1>1. disk \in [table : Tables]
  BY DEF Disks
<1>2. T \in Tables /\ disk = [table |-> T]
  BY <1>1
<1>3. PICK B \in SUBSET Nat : T \in [B -> Nat]
  BY <1>2 DEF Tables
<1>4. DiskWrite(disk, first, n, c) = [disk EXCEPT !.table = U]
  BY DEF DiskWrite
<1>5. W \subseteq Nat
  OBVIOUS
<1> HIDE DEF T, W
<1>6. U \in [B \union W -> Nat] /\ B \union W \in SUBSET Nat
  BY <1>3, <1>5
<1>7. U \in Tables
  BY <1>6 DEF Tables
<1>8. \A b \in Nat : (IF b \in DOMAIN U THEN U[b] ELSE 0) =
                     IF b \in W THEN c ELSE IF b \in DOMAIN T THEN T[b] ELSE 0
  BY <1>3
<1> HIDE DEF U
<1>9. [disk EXCEPT !.table = U] = [table |-> U]
  BY <1>2
<1>10. [table |-> U] \in Disks /\ [table |-> U].table = U
  BY <1>7 DEF Disks
<1> QED
  BY <1>4, <1>8, <1>9, <1>10 DEF Held, W, T

(* The data of a write reaches the image and the log together.             *)
LEMMA WriteKeeps ==
  ASSUME Sane, SystemInv, NEW c \in 1..Len(commands), PlainStep(c),
         context[c].on # {}, context[c].buffer, log' = Append(log, c),
         UNCHANGED <<lNamespaces, allocated, setThis, touched, mixed>>,
         NEW ns, ns = (IF commands[c].op = "iscSet" THEN setThis ELSE context[c].ns),
         object' = IF object[ns].disk = NoDisk THEN object
                   ELSE [object EXCEPT ![ns].disk =
                           DiskWrite(@, commands[c].slba, commands[c].nlb, c)]
  PROVE  SystemInv'
<1> DEFINE slba == commands[c].slba
           nlb == commands[c].nlb
           D == DiskWrite(object[ns].disk, slba, nlb, c)
           o == [object[ns] EXCEPT !.disk = D]
<1>1. /\ ContextInv /\ SpaceInv /\ TouchedInv /\ ImageInv
      /\ object \in Seq(Objects) /\ Len(object) \in Nat
      /\ \A i \in 1..Len(object) : object[i] \in Objects
  BY DEF SystemInv, SpaceInv, Space, SpaceTypes
<1>2. /\ context[c].ns \in 1..Len(object) /\ slba \in Nat /\ nlb \in Nat /\ c \in Nat
      /\ setThis' \in Nat
  <2>1. ContextOK(context[c], Len(object), Len(log)) /\ commands[c] \in CommandTypes
    BY <1>1, ContextFact
  <2>2. context[c].ns \in 1..Len(object)
    BY <1>1, <2>1 DEF ContextOK
  <2>3. slba \in Nat /\ nlb \in Nat
    BY <2>1 DEF CommandTypes
  <2> QED
    BY <1>1, <2>2, <2>3 DEF ContextInv
<1> DEFINE R == ns \in 1..Len(object) /\ object[ns].disk # NoDisk
<1>3. /\ R => object' = [object EXCEPT ![ns] = o]
      /\ ~R => object' = object
  <2>1. DOMAIN object = 1..Len(object)
    BY <1>1
  <2>2. CASE object[ns].disk = NoDisk
    BY <2>2
  <2>3. CASE object[ns].disk # NoDisk
    <3>1. object' = [object EXCEPT ![ns] = o]
      BY <2>3
    <3>2. CASE ns \notin DOMAIN object
      <4> HIDE DEF o
      <4>1. object' = object
        BY <1>1, <3>1, <3>2
      <4> QED
        BY <2>1, <3>2, <4>1
    <3> QED
      BY <2>1, <2>3, <3>1, <3>2
  <2> QED
    BY <2>2, <2>3
<1> HIDE DEF slba, nlb
<1>4. ASSUME ns \in 1..Len(object), object[ns].disk # NoDisk
      PROVE  /\ Replaces(o, object[ns]) /\ o.disk = D
             /\ \A b \in Nat : Held(D, b) =
                  IF b \in slba..(slba + nlb - 1) THEN c ELSE Held(object[ns].disk, b)
  <2>1. PICK q, d : q = object[ns] /\ d = q.disk
    OBVIOUS
  <2>2. q \in Objects /\ d \in Disks /\ d # NoDisk
    BY <1>1, <1>4, <2>1, ObjectFact
  <2>3. PICK e : e = DiskWrite(d, slba, nlb, c)
    OBVIOUS
  <2>4. /\ e \in Disks
        /\ \A b \in Nat : Held(e, b) =
             IF b \in slba..(slba + nlb - 1) THEN c ELSE Held(d, b)
    BY <1>2, <2>2, <2>3, DiskWriteFact
  <2>5. LET p == [q EXCEPT !.disk = e] IN Replaces(p, q) /\ p.disk = e
    BY <2>2, <2>4 DEF Replaces, Objects
  <2>6. D = e /\ o = [q EXCEPT !.disk = e]
    BY <2>1, <2>3
  <2> HIDE DEF D, o
  <2> QED
    BY <2>1, <2>4, <2>5, <2>6
<1> HIDE DEF o, D
<1>5. ASSUME R
      PROVE  /\ Keeps(object, object')
             /\ \A j \in 1..Len(object) : object'[j] = IF j = ns THEN o ELSE object[j]
  <2>1. ns \in 1..Len(object) /\ Replaces(o, object[ns])
    BY <1>4, <1>5
  <2>2. PICK obj2 : obj2 = object'
    OBVIOUS
  <2>3. Swapped(object, obj2, ns, o)
    BY <1>3, <1>5, <2>2 DEF Swapped
  <2>4. OnlyAt(object, obj2, ns, o)
    BY <1>1, <2>1, <2>3, OneReplaced
  <2> QED
    BY <2>2, <2>4 DEF OnlyAt
<1>6. SpaceInv' /\ TouchedInv' /\ Len(object') = Len(object)
  <2>1. CASE ~R
    BY <1>1, <1>3, <2>1 DEF SpaceInv, TouchedInv, OwnPages
  <2>2. CASE R
    <3>1. Space(lNamespaces, object', allocated)
      BY <1>1, <1>5, <2>2, SpaceKept DEF SpaceInv
    <3>2. TouchedInv'
      BY <1>1, <1>5, <2>2, TouchedKept
    <3> QED
      BY <1>5, <2>2, <3>1, <3>2 DEF SpaceInv, Keeps
  <2> QED
    BY <2>1, <2>2
<1>7. ContextInv' /\ Remembers
  <2>1. Sound(c) /\ context[c].ns # 0
    BY <1>2, PlainSound
  <2> QED
    BY <1>1, <1>2, <1>6, <2>1, ContextKept
<1>8. ASSUME ~mixed' PROVE DiskInv' /\ ReadInv' /\ SetInv'
  <2>1. DiskInv /\ ReadInv /\ SetInv
    BY <1>1, <1>8 DEF ImageInv
  <2>2. ReadInv' /\ SetInv'
    BY <1>1, <1>7, <2>1, PlainKeeps
  <2>3. ns = context[c].ns
    BY <2>1 DEF SetInv
  <2>4. ASSUME NEW i \in 1..Len(object), object'[i].disk # NoDisk, NEW b \in Nat
        PROVE  Held(object'[i].disk, b) = Newest(i, b)'
    <3>1. Newest(i, b)' = IF Wrote(c, i, b) THEN c ELSE Newest(i, b)
      <4>1. context[c].ns # 0
        BY <1>2
      <4> QED
        BY <1>1, <1>7, <4>1, NewestAppend
    <3>2. Wrote(c, i, b) <=> i = ns /\ b \in slba..(slba + nlb - 1)
      BY <2>3 DEF Wrote, slba, nlb
    <3>3. CASE ~R
      <4>1. i # ns /\ object[i].disk # NoDisk /\ object' = object
        BY <1>3, <2>4, <3>3
      <4> QED
        BY <2>1, <3>1, <3>2, <4>1 DEF DiskInv
    <3>4. CASE R /\ i # ns
      <4>1. object'[i] = object[i]
        BY <1>5, <3>4
      <4> QED
        BY <2>1, <2>4, <3>1, <3>2, <3>4, <4>1 DEF DiskInv
    <3>5. CASE R /\ i = ns
      <4>1. object'[i] = o /\ object[ns].disk # NoDisk
        BY <1>5, <3>5
      <4>2. o.disk = D /\ Held(D, b) =
              IF b \in slba..(slba + nlb - 1) THEN c ELSE Held(object[ns].disk, b)
        BY <1>4, <3>5, <4>1
      <4>3. Held(object[ns].disk, b) = Newest(i, b)
        BY <2>1, <3>5, <4>1 DEF DiskInv
      <4> QED
        BY <3>1, <3>2, <3>5, <4>1, <4>2, <4>3
    <3> QED
      BY <3>3, <3>4, <3>5, Zenon
  <2>5. DiskInv'
    BY <1>6, <2>4 DEF DiskInv, Held
  <2> QED
    BY <2>2, <2>5
<1> QED
  BY <1>6, <1>7, <1>8 DEF SystemInv, ImageInv

(* dmaDone keeps the invariant.                                            *)
LEMMA IODoneKeeps ==
  ASSUME Sane, SystemInv, NEW c \in 1..Len(commands), NEW who \in {"dma", "hil"},
         IODone(c, who)
  PROVE  SystemInv'
<1> DEFINE x == context[c]
           ns == IF commands[c].op = "iscSet" THEN setThis ELSE x.ns
           left == x.on \ {who}
<1>1. /\ who \in x.on
      /\ UNCHANGED <<commands, submitted, lNamespaces, allocated, setThis, touched, mixed>>
      /\ \/ /\ \E on, n : /\ context' = [context EXCEPT ![c].on = on, ![c].n = n]
                          /\ on = {"convert"} \/ on = left
            /\ UNCHANGED <<object, log>>
         \/ /\ \E on, n : /\ context' = [context EXCEPT ![c].on = on, ![c].n = n]
                          /\ on = {"convert"} \/ on = left
            /\ log' = (IF x.buffer THEN Append(log, c) ELSE log)
            /\ object' = IF ~x.buffer \/ object[ns].disk = NoDisk THEN object
                         ELSE [object EXCEPT ![ns].disk =
                                 DiskWrite(@, commands[c].slba, commands[c].nlb, c)]
  BY DEF IODone, settings
<1>2. ContextInv /\ SpaceInv /\ TouchedInv /\ ImageInv
  BY DEF SystemInv
<1>3. PICK on, n : /\ context' = [context EXCEPT ![c].on = on, ![c].n = n]
                   /\ on = {"convert"} \/ on = left
  BY <1>1
<1>4. PlainStep(c)
  <2>1. PICK y : Replaced(c, y) /\ NowOn(x, y, on)
    BY <1>2, <1>3, SetOnN
  <2>2. x.on # {} /\ ("list" \in on => "list" \in x.on)
    BY <1>1, <1>3
  <2>3. Moved(c) /\ ContextOK(x, Len(object), Len(log))
    BY <1>1, <1>2, <2>2, Waiting, ContextFact
  <2>4. PlainContext(x, y, commands[c].op, Len(object), Len(log))
    <3> HIDE DEF x
    <3> QED
      BY <2>1, <2>2, <2>3 DEF PlainContext, ContextOK, NowOn
  <2> QED
    BY <2>1, <2>3, <2>4 DEF PlainStep
<1>5. CASE UNCHANGED <<object, log>>
  <2>1. Steady(c)
    BY <1>1, <1>2, <1>4, <1>5, AloneSteady
  <2> QED
    BY <2>1, SteadyKeeps
<1>6. CASE ~ UNCHANGED <<object, log>>
  <2>1. /\ x.buffer /\ x.on # {} /\ log' = Append(log, c)
        /\ object' = IF object[ns].disk = NoDisk THEN object
                     ELSE [object EXCEPT ![ns].disk =
                             DiskWrite(@, commands[c].slba, commands[c].nlb, c)]
    BY <1>1, <1>6
  <2> QED
    BY <1>1, <1>4, <2>1, WriteKeeps
<1> QED
  BY <1>5, <1>6

(* v is what the row s has at the last of a set of positions.              *)
LastIn(v, A, s) == v = IF A = {} THEN 0 ELSE s[Max(A)]
Upto(E, A, f) == E = {k \in A : k <= f}

(* The last of a set of positions is behind f or the last one up to f.     *)
LEMMA LastOf ==
  ASSUME NEW n \in Nat, NEW f \in 0..n, NEW A, A \subseteq 1..n,
         NEW E, Upto(E, A, f), NEW s, NEW v, LastIn(v, A, s)
  PROVE  (\E k \in A : k > f /\ v = s[k]) \/ LastIn(v, E, s)
<1>0. E \subseteq A /\ \A k \in A : k <= f => k \in E
  BY DEF Upto
<1>1. CASE A = {}
  BY <1>0, <1>1 DEF LastIn
<1>2. CASE A # {}
  <2>1. A \subseteq 0..n
    OBVIOUS
  <2>2. Max(A) \in A /\ \A j \in A : j <= Max(A)
    BY <1>2, <2>1, MaxFact
  <2>3. CASE Max(A) > f
    BY <1>2, <2>2, <2>3 DEF LastIn
  <2>4. CASE ~ (Max(A) > f)
    <3>1. Max(A) \in 1..n
      BY <2>2
    <3>2. Max(A) \in E
      BY <1>0, <2>2, <2>4, <3>1
    <3>3. E \subseteq 0..n /\ E # {} /\ E \subseteq A
      BY <1>0, <2>1, <3>2
    <3>4. Max(E) \in E /\ \A j \in E : j <= Max(E)
      BY <3>3, MaxFact
    <3>5. Max(E) = Max(A)
      <4>1. Max(E) \in 0..n /\ Max(E) <= Max(A) /\ Max(A) <= Max(E)
        BY <2>2, <3>2, <3>3, <3>4
      <4> QED
        BY <3>1, <4>1
    <3> QED
      BY <1>2, <3>3, <3>5 DEF LastIn
  <2> QED
    BY <2>3, <2>4
<1> QED
  BY <1>1, <1>2

(* The newest write is one that a read may return.                         *)
LEMMA NewestRead ==
  ASSUME ContextInv, Remembers, log' = log, NEW c \in 1..Len(commands),
         context[c].ns # 0, context'[c].floor = context[c].floor,
         NEW b, context'[c].got[b] = Newest(context[c].ns, b)
  PROVE  ReadOK(c, b)'
<1>1. PICK n, f, A, E, v, i :
        /\ n = Len(log) /\ f = context[c].floor /\ i = context[c].ns
        /\ A = WrittenAt(i, b) /\ E = Early(c, b) /\ v = Newest(i, b)
  OBVIOUS
<1>2. /\ n \in Nat /\ f \in 0..n
  BY <1>1, ContextFact DEF ContextOK
<1>3. A \subseteq 1..n /\ Upto(E, A, f)
  BY <1>1, <1>2 DEF WrittenAt, Early, Upto
<1>4. LastIn(v, A, log)
  BY <1>1 DEF Newest, LastIn
<1>5. (\E k \in A : k > f /\ v = log[k]) \/ LastIn(v, E, log)
  BY <1>2, <1>3, <1>4, LastOf
<1>6. context'[c].ns = i /\ context'[c].got[b] = v /\ context'[c].floor = f
  BY <1>1 DEF Remembers
<1>7. \A k \in 1..n : Wrote(log[k], i, b)' <=> Wrote(log[k], i, b)
  BY <1>1, WroteSame
<1>8. CASE \E k \in A : k > f /\ v = log[k]
  <2>1. PICK k \in A : k > f /\ v = log[k]
    BY <1>8
  <2>2. k \in 1..n /\ Wrote(log[k], i, b)
    BY <1>1, <1>3, <2>1 DEF WrittenAt
  <2>3. Wrote(log[k], i, b)'
    BY <1>7, <2>2
  <2>4. /\ k \in 1..Len(log') /\ k > context'[c].floor
        /\ Wrote(log[k], context[c].ns, b)' /\ context'[c].got[b] = log'[k]
    BY <1>1, <1>6, <2>1, <2>2, <2>3 DEF Wrote
  <2> QED
    BY <2>4 DEF ReadOK
<1>9. CASE LastIn(v, E, log)
  <2>1. Early(c, b)' = E
    <3>1. \A k \in 1..f : Wrote(log[k], context[c].ns, b)' <=> Wrote(log[k], context[c].ns, b)
      <4> SUFFICES ASSUME NEW k \in 1..f
                   PROVE  Wrote(log[k], context[c].ns, b)' <=> Wrote(log[k], context[c].ns, b)
        OBVIOUS
      <4>1. Wrote(log[k], i, b)' <=> Wrote(log[k], i, b)
        BY <1>2, <1>7
      <4> QED
        BY <1>1, <1>6, <4>1 DEF Wrote
    <3> QED
      BY <1>1, <1>6, <3>1 DEF Early
  <2> QED
    BY <1>6, <1>9, <2>1 DEF ReadOK, LastIn
<1> QED
  BY <1>5, <1>8, <1>9

(* What the second part of a handler starts.                               *)
LEMMA HandlerFact ==
  ASSUME NEW o, NEW cmd, NEW granted
  PROVE  LET w == Handler(o, cmd, granted) IN
         /\ w = Work(w.on, w.buffer, w.got) /\ w.buffer \in BOOLEAN
         /\ "list" \notin w.on
         /\ cmd.op = "read" => w.got = FromDisk(o, cmd)
<1>1. cmd.op = "write" => Handler(o, cmd, granted) = Work({"convert", "dma"}, o.disk # NoDisk, <<>>)
  BY DEF Handler, write
<1>2. cmd.op = "read" => Handler(o, cmd, granted) = Work({"convert", "dma"}, FALSE, FromDisk(o, cmd))
  BY DEF Handler, read
<1>3. cmd.op = "iscGet" => Handler(o, cmd, granted)
                             = Work({"convert", IF granted THEN "dma" ELSE "credit"}, FALSE, <<>>)
  BY DEF Handler, isc_get
<1>4. cmd.op = "iscSet" => Handler(o, cmd, granted) = Work({"dma"}, o.disk # NoDisk, <<>>)
  BY DEF Handler, isc_set
<1>5. cmd.op = "compare" => Handler(o, cmd, granted) = Work({"convert", "dma"}, FALSE, FromDisk(o, cmd))
  BY DEF Handler, compare
<1>6. cmd.op \notin {"write", "read", "iscGet", "iscSet", "compare"}
        => Handler(o, cmd, granted) = Work({"dma"}, FALSE, <<>>)
  BY DEF Handler, datasetManagement
<1>7. \A on, buffer, got : /\ Work(on, buffer, got).on = on
                           /\ Work(on, buffer, got).buffer = buffer
                           /\ Work(on, buffer, got).got = got
  BY DEF Work
<1>8. PICK w : w = Handler(o, cmd, granted)
  OBVIOUS
<1>9. PICK on, buffer, got :
        /\ w = Work(on, buffer, got) /\ buffer \in BOOLEAN /\ "list" \notin on
        /\ cmd.op = "read" => got = FromDisk(o, cmd)
  <2>1. "list" \notin {"convert", "dma"} /\ "list" \notin {"dma"}
        /\ "list" \notin {"convert", IF granted THEN "dma" ELSE "credit"}
    OBVIOUS
  <2>2. CASE cmd.op = "write"
    BY <1>1, <1>8, <2>1, <2>2
  <2>3. CASE cmd.op = "read"
    BY <1>2, <1>8, <2>1, <2>3
  <2>4. CASE cmd.op = "iscGet"
    BY <1>3, <1>8, <2>1, <2>4
  <2>5. CASE cmd.op = "iscSet"
    BY <1>4, <1>8, <2>1, <2>5
  <2>6. CASE cmd.op = "compare"
    BY <1>5, <1>8, <2>1, <2>6
  <2>7. CASE cmd.op \notin {"write", "read", "iscGet", "iscSet", "compare"}
    BY <1>6, <1>8, <2>1, <2>7
  <2> QED
    BY <2>2, <2>3, <2>4, <2>5, <2>6, <2>7
<1> QED
  BY <1>7, <1>8, <1>9

(* y is x after the second part of a handler.                              *)
Started(x, y, w) ==
  /\ IsContext(y) /\ y.on = w.on /\ y.ns = x.ns /\ y.buffer = w.buffer
  /\ y.got = w.got /\ y.floor = x.floor /\ y.id = x.id

(* The assignments of the second part.                                     *)
LEMMA SetWork ==
  ASSUME ContextInv, NEW c \in 1..Len(commands), NEW w,
         context' = [context EXCEPT ![c].on = w.on, ![c].n = 0,
                                    ![c].buffer = w.buffer, ![c].got = w.got]
  PROVE  \E y : Replaced(c, y) /\ Started(context[c], y, w)
<1> DEFINE x == context[c]
           x1 == [x EXCEPT !.on = w.on]
           x2 == [x1 EXCEPT !.n = 0]
           x3 == [x2 EXCEPT !.buffer = w.buffer]
           y == [x3 EXCEPT !.got = w.got]
<1>1. context = [d \in 1..Len(commands) |-> context[d]] /\ IsContext(x)
  BY ContextFact DEF ContextInv
<1>2. c \in DOMAIN context
  BY <1>1
<1>3. context' = [context EXCEPT ![c] = y]
  BY <1>2
<1> HIDE DEF x
<1>4. /\ IsContext(x1) /\ x1.on = w.on /\ x1.ns = x.ns
      /\ x1.floor = x.floor /\ x1.id = x.id
  BY <1>1 DEF IsContext
<1> HIDE DEF x1
<1>5. /\ IsContext(x2) /\ x2.on = w.on /\ x2.ns = x.ns
      /\ x2.floor = x.floor /\ x2.id = x.id
  BY <1>4 DEF IsContext
<1> HIDE DEF x2
<1>6. /\ IsContext(x3) /\ x3.on = w.on /\ x3.ns = x.ns /\ x3.buffer = w.buffer
      /\ x3.floor = x.floor /\ x3.id = x.id
  BY <1>5 DEF IsContext
<1> HIDE DEF x3
<1>7. Started(x, y, w)
  BY <1>6 DEF IsContext, Started
<1> HIDE DEF y
<1>8. Replaced(c, y)
  BY <1>1, <1>3 DEF Replaced
<1> QED
  BY <1>7, <1>8 DEF x

(* doRead and its like keep the invariant.                                 *)
LEMMA BeginKeeps ==
  ASSUME Sane, SystemInv, NEW c \in 1..Len(commands), NEW granted, Begin(c, granted)
  PROVE  SystemInv'
<1> DEFINE x == context[c]
           cmd == commands[c]
           o == object[x.ns]
           w == Handler(o, cmd, granted)
<1>1. /\ "list" \in x.on
      /\ UNCHANGED <<commands, submitted, lNamespaces, object, allocated, log>>
      /\ context' = [context EXCEPT ![c].on = w.on, ![c].n = 0,
                                    ![c].buffer = w.buffer, ![c].got = w.got]
      /\ touched' = IF cmd.op \notin {"read", "write"} THEN touched
           ELSE touched \union
                {[ns |-> x.ns, from |-> FirstPage(o, cmd.slba),
                  to |-> FirstPage(o, cmd.slba) + PageCount(o, cmd.slba, cmd.nlb),
                  inside |-> cmd.slba + cmd.nlb <= o.size /\ ~o.formatted]}
      /\ IF cmd.op = "iscSet"
         THEN /\ setThis' = x.ns
              /\ mixed' = (mixed \/ \E d \in Commands \ {c} :
                             /\ commands[d].op = "iscSet" /\ context[d].on # {}
                             /\ context[d].ns # x.ns)
         ELSE UNCHANGED <<setThis, mixed>>
  BY DEF Begin, settings
<1>2. /\ ContextInv /\ SpaceInv /\ TouchedInv /\ ImageInv
      /\ object \in Seq(Objects) /\ Len(object) \in Nat /\ Sized(object)
      /\ \A i \in 1..Len(object) : object[i] \in Objects
  BY DEF SystemInv, SpaceInv, Space, SpaceTypes
<1>3. /\ ContextOK(x, Len(object), Len(log)) /\ cmd \in CommandTypes
      /\ x.ns \in 1..Len(object) /\ x.on # {}
  <2>1. ContextOK(x, Len(object), Len(log)) /\ cmd \in CommandTypes
    BY <1>2, ContextFact
  <2> QED
    BY <1>1, <1>2, <2>1 DEF ContextOK
<1>4. o \in Objects /\ cmd.slba \in Nat /\ cmd.nlb \in Nat
  BY <1>2, <1>3 DEF CommandTypes
<1>5. w.buffer \in BOOLEAN /\ "list" \notin w.on
      /\ (cmd.op = "read" => w.got = FromDisk(o, cmd))
  BY HandlerFact
<1> HIDE DEF w
<1>6. PICK y : Replaced(c, y) /\ Started(x, y, w)
  BY <1>1, <1>2, SetWork
<1>7. Sound(c)
  <2>1. Moved(c)
    BY <1>1, <1>2, <1>3, Waiting
  <2>2. ContextOK(y, Len(object), Len(log)) /\ y.ns = x.ns
    BY <1>3, <1>5, <1>6 DEF ContextOK, Started
  <2> QED
    BY <1>6, <2>1, <2>2 DEF Sound
<1>8. setThis' \in Nat
  BY <1>1, <1>2, <1>3 DEF ContextInv
<1>9. ContextInv' /\ Remembers
  BY <1>1, <1>2, <1>7, <1>8, ContextKept
<1>10. SpaceInv'
  BY <1>1, <1>2 DEF SpaceInv
<1>11. TouchedInv'
  <2> SUFFICES ASSUME NEW t \in touched'
               PROVE  t.ns \in 1..Len(object) /\ OwnPages(t, object[t.ns])
    BY <1>1 DEF TouchedInv, OwnPages
  <2>1. CASE t \in touched
    BY <1>2, <2>1 DEF TouchedInv
  <2>2. CASE t \notin touched
    <3> DEFINE f == FirstPage(o, cmd.slba)
               p == PageCount(o, cmd.slba, cmd.nlb)
    <3>1. /\ t.ns = x.ns /\ t.from = f /\ t.to = f + p
          /\ t.inside => cmd.slba + cmd.nlb <= o.size
      <4> DEFINE e == f + p
                 ok == cmd.slba + cmd.nlb <= o.size /\ ~o.formatted
                 r == [ns |-> x.ns, from |-> f, to |-> e, inside |-> ok]
      <4>1. touched' = touched \/ touched' = touched \union {r}
        BY <1>1
      <4>2. t = r
        <5> HIDE DEF r
        <5> QED
          BY <2>2, <4>1
      <4>3. ok => cmd.slba + cmd.nlb <= o.size
        OBVIOUS
      <4> HIDE DEF f, e, ok, x, o, cmd
      <4>4. t.ns = x.ns /\ t.from = f /\ t.to = e /\ t.inside = ok
        BY <4>2
      <4> QED
        BY <4>3, <4>4 DEF e
    <3>2. /\ f \in Int /\ f >= o.slpn /\ p \in Int
          /\ (cmd.slba + cmd.nlb <= o.size /\ o.size % PageSize = 0
               /\ o.nlp = Requested(o.size, o.format)) => f + p <= o.slpn + o.nlp
      BY <1>4, InsidePages
    <3>3. ~o.formatted => o.nlp = Requested(o.size, o.format)
      BY <1>2, <1>3 DEF Sized
    <3> HIDE DEF f, p
    <3>4. OwnPages(t, o)
      BY <3>1, <3>2, <3>3 DEF OwnPages
    <3> QED
      BY <1>3, <3>1, <3>4
  <2> QED
    BY <2>1, <2>2
<1>12. ASSUME ~mixed' PROVE DiskInv' /\ ReadInv' /\ SetInv'
  <2>1. ~mixed
    BY <1>1, <1>12
  <2>2. DiskInv /\ ReadInv /\ SetInv
    BY <1>2, <2>1 DEF ImageInv
  <2>3. \A i \in 1..Len(object), b \in Nat : Newest(i, b)' = Newest(i, b)
    BY <1>1, <1>2, <1>9, NewestSame
  <2>4. DiskInv'
    BY <1>1, <2>2, <2>3 DEF DiskInv, Held
  <2>5. \A d \in 1..Len(commands) : context'[d] = IF d = c THEN y ELSE context[d]
    BY <1>6 DEF Replaced
  <2>6. ASSUME NEW d \in 1..Len(commands), commands[d].op = "read", context'[d].got # <<>>
        PROVE  context'[d].ns # 0 /\ \A b \in DOMAIN context'[d].got : ReadOK(d, b)'
    <3>1. CASE d # c
      <4>1. context'[d] = context[d]
        BY <2>5, <3>1
      <4>2. context[d].ns # 0 /\ \A b \in DOMAIN context[d].got : ReadOK(d, b)
        BY <2>2, <2>6, <4>1 DEF ReadInv
      <4>3. ASSUME NEW b \in DOMAIN context[d].got PROVE ReadOK(d, b)'
        <5>1. ReadOK(d, b)
          BY <4>2
        <5> QED
          BY <1>2, <1>9, <4>1, <4>2, <5>1, ReadKept
      <4> QED
        BY <4>1, <4>2, <4>3
    <3>2. CASE d = c
      <4>1. /\ context'[c] = y /\ y.got = FromDisk(o, cmd) /\ y.floor = x.floor
            /\ y.ns = x.ns /\ y.got # <<>>
        BY <1>5, <1>6, <2>5, <2>6, <3>2 DEF Started
      <4>2. o.disk # NoDisk /\ y.got = DiskRead(o.disk, cmd.slba, cmd.nlb)
        BY <4>1 DEF FromDisk
      <4>3. ASSUME NEW b \in DOMAIN y.got PROVE ReadOK(c, b)'
        <5>1. b \in Nat /\ y.got[b] = Held(o.disk, b)
          BY <1>4, <4>2, <4>3 DEF DiskRead, Held
        <5>2. Held(o.disk, b) = Newest(x.ns, b)
          BY <1>3, <2>2, <4>2, <5>1 DEF DiskInv
        <5>3. /\ context'[c].got[b] = Newest(context[c].ns, b)
              /\ context[c].ns # 0 /\ context'[c].floor = context[c].floor
          BY <1>3, <4>1, <5>1, <5>2
        <5> QED
          BY <1>1, <1>2, <1>9, <5>3, NewestRead
      <4> QED
        BY <1>3, <3>2, <4>1, <4>3
    <3> QED
      BY <3>1, <3>2
  <2>7. ReadInv'
    BY <1>1, <2>6 DEF ReadInv
  <2>8. ASSUME NEW d \in 1..Len(commands), commands[d].op = "iscSet",
               context'[d].on # {}, context'[d].buffer
        PROVE  setThis' = context'[d].ns
    <3>1. CASE d = c
      <4>1. context'[c] = y /\ y.ns = x.ns
        BY <1>6, <2>5 DEF Started
      <4> QED
        BY <1>1, <2>8, <3>1, <4>1
    <3>2. CASE d # c
      <4>1. context'[d] = context[d]
        BY <2>5, <3>2
      <4>2. CASE cmd.op = "iscSet"
        <5>1. d \in Commands \ {c}
          BY <1>2, <3>2 DEF Commands, ContextInv
        <5>2. context[d].ns = x.ns
          BY <1>1, <1>12, <2>8, <4>1, <4>2, <5>1
        <5> QED
          BY <1>1, <4>1, <4>2, <5>2
      <4>3. CASE cmd.op # "iscSet"
        BY <1>1, <2>2, <2>8, <4>1, <4>3 DEF SetInv
      <4> QED
        BY <4>2, <4>3
    <3> QED
      BY <3>1, <3>2
  <2>9. SetInv'
    BY <1>1, <2>8 DEF SetInv
  <2> QED
    BY <2>4, <2>7, <2>9
<1> QED
  BY <1>9, <1>10, <1>11, <1>12 DEF SystemInv, ImageInv

-----------------------------------------------------------------------------
(* The theorems *)

(* Init establishes the invariant.                                         *)
LEMMA SystemInitially ==
  ASSUME Sane, Init
  PROVE  SystemInv
<1>1. PICK w \in Workloads :
        /\ commands = w.commands /\ submitted = 0
        /\ lNamespaces = Initial(w).list /\ object = Initial(w).object
        /\ allocated = Initial(w).allocated
        /\ context = [c \in DOMAIN w.commands |-> NoContext]
        /\ setThis = 0 /\ log = <<>> /\ touched = {} /\ mixed = FALSE
  BY DEF Init
<1>2. Fresh(Initial(w))
  BY InitialFact
<1>3. PICK r : r = Initial(w)
  OBVIOUS
<1>4. /\ Space(lNamespaces, object, allocated)
      /\ \A i \in 1..Len(object) : object[i].disk = NewDisk
  BY <1>1, <1>2, <1>3 DEF Fresh
<1>5. SpaceInv /\ TouchedInv
  BY <1>1, <1>4 DEF SpaceInv, TouchedInv
<1>6. Len(object) \in Nat
  BY <1>4 DEF Space, SpaceTypes
<1>7. commands \in Seq(CommandTypes) /\ DOMAIN commands = 1..Len(commands)
      /\ Len(commands) \in Nat
  BY <1>1 DEF Sane
<1>8. context = [c \in 1..Len(commands) |-> NoContext]
  BY <1>1, <1>7
<1>9. ContextOK(NoContext, Len(object), 0)
  BY <1>6 DEF ContextOK, NoContext, IsContext
<1>10. log = <<>> /\ Len(log) = 0 /\ log \in Seq(1..Len(commands))
  BY <1>1
<1>11. ContextInv
  <2>1. \A c \in 1..Len(commands) : context[c] = NoContext
    BY <1>8
  <2>2. context = [c \in 1..Len(commands) |-> context[c]]
    BY <1>8
  <2>3. submitted \in 0..Len(commands) /\ setThis \in Nat
    BY <1>1, <1>7
  <2> QED
    BY <1>7, <1>9, <1>10, <2>1, <2>2, <2>3 DEF ContextInv
<1>12. DiskInv
  <2>1. \A i, b : Newest(i, b) = 0
    BY <1>10 DEF Newest, WrittenAt
  <2>2. \A b : Held(NewDisk, b) = 0
    BY DEF Held, NewDisk
  <2> QED
    BY <1>4, <2>1, <2>2 DEF DiskInv
<1>13. ReadInv /\ SetInv
  BY <1>8 DEF ReadInv, SetInv, NoContext
<1> QED
  BY <1>5, <1>11, <1>12, <1>13 DEF SystemInv, ImageInv

(* Every step keeps it.                                                    *)
LEMMA SystemStep ==
  ASSUME Sane, SystemInv, [Next]_vars
  PROVE  SystemInv'
<1>0. ContextInv /\ SpaceInv /\ TouchedInv /\ ImageInv
  BY DEF SystemInv
<1>1. CASE UNCHANGED vars
  <2>1. UNCHANGED <<commands, submitted, lNamespaces, object, allocated, context,
                    setThis, log, touched, mixed>>
    BY <1>1 DEF vars
  <2>2. ContextInv'
    BY <1>0, <2>1 DEF ContextInv
  <2>3. SpaceInv' /\ TouchedInv'
    BY <1>0, <2>1 DEF SpaceInv, TouchedInv, OwnPages
  <2>4. \A i, b : Newest(i, b)' = Newest(i, b)
    BY <2>1 DEF Newest, WrittenAt, Wrote
  <2>5. DiskInv => DiskInv'
    BY <2>1, <2>4 DEF DiskInv, Held
  <2>6. \A c, b : ReadOK(c, b) => ReadOK(c, b)'
    BY <2>1 DEF ReadOK, Early, Wrote
  <2>7. ReadInv => ReadInv'
    BY <2>1, <2>6 DEF ReadInv
  <2>8. SetInv => SetInv'
    BY <2>1 DEF SetInv
  <2>9. ImageInv'
    BY <1>0, <2>1, <2>5, <2>7, <2>8 DEF ImageInv
  <2> QED
    BY <2>2, <2>3, <2>9 DEF SystemInv
<1>2. CASE Step
  <2>1. PICK c \in Commands : Submit(c) \/ Callback(c) \/ UseAfterDelete(c)
    BY <1>2 DEF Step
  <2>2. c \in 1..Len(commands)
    BY <1>0 DEF Commands, ContextInv
  <2>3. ASSUME Steady(c) PROVE SystemInv'
    BY <2>2, <2>3, SteadyKeeps
  <2>4. ASSUME PlainStep(c), UNCHANGED <<lNamespaces, object, allocated, setThis, log,
                                     touched, mixed>>
        PROVE  SystemInv'
    BY <1>0, <2>3, <2>4, AloneSteady
  <2>5. CASE SubmitDispatched(c) \/ SubmitLogPage(c)
    <3>1. UNCHANGED <<lNamespaces, object, allocated, setThis, log, touched, mixed>>
      BY <2>5 DEF SubmitDispatched, SubmitLogPage
    <3> QED
      BY <1>0, <2>2, <2>4, <2>5, <3>1, SubmitPlain
  <2>6. CASE SubmitAdmin(c)
    <3>1. UNCHANGED <<lNamespaces, object, allocated, setThis, log, touched, mixed>>
      BY <2>6 DEF SubmitAdmin
    <3> QED
      BY <1>0, <2>2, <2>4, <2>6, <3>1, AdminPlain
  <2>7. CASE SubmitCreate(c) \/ SubmitAttach(c)
    <3>1. UNCHANGED <<lNamespaces, object, allocated, setThis, log, touched, mixed>>
      BY <2>7 DEF SubmitCreate, SubmitAttach
    <3> QED
      BY <1>0, <2>2, <2>4, <2>7, <3>1, CreatePlain
  <2>8. CASE SubmitDelete(c)
    BY <1>0, <2>2, <2>3, <2>8, DeleteSteady
  <2>9. CASE SubmitFormat(c)
    BY <1>0, <2>2, <2>3, <2>9, FormatSteady
  <2>10. CASE CreateDone(c)
    BY <1>0, <2>2, <2>3, <2>10, CreateSteady
  <2>11. CASE AttachDone(c)
    BY <1>0, <2>2, <2>3, <2>11, AttachSteady
  <2>12. CASE NamespaceSubmit(c)
    <3>1. UNCHANGED <<lNamespaces, object, allocated, setThis, log, touched, mixed>>
      BY <2>12 DEF NamespaceSubmit
    <3> QED
      BY <1>0, <2>2, <2>4, <2>12, <3>1, NamespaceSubmitPlain
  <2>13. CASE \/ TransferDone(c) \/ Resume(c) \/ ToHIL(c) \/ FlushDone(c)
              \/ TrimRead(c) \/ EachTrimDone(c) \/ UseAfterDelete(c)
    <3>1. UNCHANGED <<lNamespaces, object, allocated, setThis, log, touched, mixed>>
      BY <2>13 DEF TransferDone, Resume, ToHIL, FlushDone, TrimRead, EachTrimDone,
                   UseAfterDelete, Crash
    <3> QED
      BY <1>0, <2>2, <2>4, <2>13, <3>1, CallbackPlain
  <2>14. CASE \E granted \in BOOLEAN : Begin(c, granted)
    BY <2>2, <2>14, BeginKeeps
  <2>15. CASE \E who \in {"dma", "hil"} : IODone(c, who)
    BY <2>2, <2>15, IODoneKeeps
  <2> QED
    BY <2>1, <2>5, <2>6, <2>7, <2>8, <2>9, <2>10, <2>11, <2>12, <2>13, <2>14, <2>15
       DEF Submit, Callback
<1>3. CASE Rest
  BY <1>1, <1>3 DEF Rest
<1> QED
  BY <1>1, <1>2, <1>3 DEF Next

(* The invariant says that the namespaces stay apart.                      *)
LEMMA SystemApart ==
  ASSUME SystemInv
  PROVE  NamespacesApart
<1>1. /\ object \in Seq(Objects) /\ lNamespaces \in Seq(1..Len(object))
      /\ Apart(lNamespaces, object) /\ Exact(lNamespaces, object, allocated)
      /\ TouchedInv
      /\ DOMAIN lNamespaces = 1..Len(lNamespaces) /\ DOMAIN object = 1..Len(object)
  BY DEF SystemInv, SpaceInv, Space, SpaceTypes
<1>2. Isolated
  BY <1>1 DEF TouchedInv, OwnPages, Isolated
<1>3. (\A i \in DOMAIN object : Whole(object[i])) => allocated = PagesOf(lNamespaces, object)
  BY <1>1 DEF Exact
<1>4. \A k \in DOMAIN lNamespaces :
        LET o == object[lNamespaces[k]] IN
        /\ o.slpn + o.nlp <= TotalPages
        /\ \A m \in DOMAIN lNamespaces \ {k} :
             LET q == object[lNamespaces[m]] IN
             o.slpn + o.nlp <= q.slpn \/ q.slpn + q.nlp <= o.slpn
  BY <1>1 DEF Apart, Before
<1> QED
  BY <1>2, <1>3, <1>4 DEF NamespacesApart, RangesDisjoint

(* It says that an answered read is right.                                 *)
LEMMA SystemReads ==
  ASSUME SystemInv
  PROVE  ReadsAnswered
<1>1. /\ ContextInv /\ ImageInv /\ DOMAIN commands = 1..Len(commands)
      /\ DOMAIN log = 1..Len(log)
  BY DEF SystemInv, ContextInv
<1> SUFFICES ASSUME NEW c \in 1..Len(commands), commands[c].op = "read",
                    context[c].got # <<>>, ~mixed, NEW b \in DOMAIN context[c].got
             PROVE  LET before == {k \in 1..context[c].floor : Covers(log[k], c, b)}
                        late   == {log[k] : k \in {j \in DOMAIN log : j > context[c].floor
                                                                   /\ Covers(log[j], c, b)}}
                    IN context[c].got[b] \in
                         late \union {IF before = {} THEN 0 ELSE log[Max(before)]}
  BY <1>1 DEF ReadsAnswered, Commands
<1>2. ReadOK(c, b)
  BY <1>1 DEF ImageInv, ReadInv
<1>3. \A d : Covers(d, c, b) <=> Wrote(d, context[c].ns, b)
  BY DEF Covers, Wrote
<1>4. {k \in 1..context[c].floor : Covers(log[k], c, b)} = Early(c, b)
  BY <1>3 DEF Early
<1>5. CASE \E k \in 1..Len(log) : /\ k > context[c].floor
                                  /\ Wrote(log[k], context[c].ns, b)
                                  /\ context[c].got[b] = log[k]
  BY <1>1, <1>3, <1>5
<1>6. CASE context[c].got[b] = IF Early(c, b) = {} THEN 0 ELSE log[Max(Early(c, b))]
  BY <1>4, <1>6
<1> QED
  BY <1>2, <1>5, <1>6 DEF ReadOK

(* Namespaces stay apart: whatever namespaces are created, deleted,        *)
(* attached and formatted, in any order and with any data still on its     *)
(* way, no two of the list share a page, all are inside the device, the    *)
(* count of allocated pages is exact while every size is whole, and a read *)
(* or write inside its namespace sends no page of another one to the HIL   *)
(* (createNamespace, destroyNamespace, convertUnit).                       *)
THEOREM NamespacesStayApart ==
  ASSUME Sane
  PROVE  Spec => []NamespacesApart
<1>1. Init => SystemInv
  BY SystemInitially
<1>2. SystemInv /\ [Next]_vars => SystemInv'
  BY SystemStep
<1>3. SystemInv => NamespacesApart
  BY SystemApart
<1> QED
  BY <1>1, <1>2, <1>3, PTL DEF Spec

(* A read that was answered returns for each block the newest write of its *)
(* own namespace that was answered before the read was submitted, or one   *)
(* answered since, however writes, formats, deletions and creations        *)
(* overlap with it, as long as no two isc_set commands of different        *)
(* namespaces meet in the static dmaDone.                                  *)
THEOREM ReadsSeeTheirNamespace ==
  ASSUME Sane
  PROVE  Spec => []ReadsAnswered
<1>1. Init => SystemInv
  BY SystemInitially
<1>2. SystemInv /\ [Next]_vars => SystemInv'
  BY SystemStep
<1>3. SystemInv => ReadsAnswered
  BY SystemReads
<1> QED
  BY <1>1, <1>2, <1>3, PTL DEF Spec

-----------------------------------------------------------------------------
(* Loops *)

(* A loop of n turns that starts with b in S, and whose turn k takes x in  *)
(* S to g[k][x] in S; and a run of it.                                     *)
IsLoop(n, S, b, g) == n \in Nat /\ b \in S /\ g \in [1..n -> [S -> S]]
IsRun(f, n, S, b, g) ==
  f \in [0..n -> S] /\ f[0] = b /\ \A k \in 1..n : f[k] = g[k][f[k - 1]]

(* Every loop has a run, by extending a shorter one.                       *)
LEMMA RunExists ==
  ASSUME NEW n, NEW S, NEW b, NEW g, IsLoop(n, S, b, g)
  PROVE  \E f : IsRun(f, n, S, b, g)
<1> USE DEF IsLoop, IsRun
<1> DEFINE Run(f, m) == /\ f \in [0..m -> S] /\ f[0] = b
                        /\ \A k \in 1..m : f[k] = g[k][f[k - 1]]
           G == {m \in 0..n : \E f : Run(f, m)}
<1>1. 0 \in G
  <2> DEFINE f == [k \in 0..0 |-> b]
  <2>1. Run(f, 0)
    OBVIOUS
  <2> HIDE DEF f
  <2> QED
    BY <2>1
<1>2. ASSUME NEW m \in 1..n, m - 1 \in G PROVE m \in G
  <2>1. PICK f : Run(f, m - 1)
    BY <1>2
  <2> DEFINE h == [k \in 0..m |-> IF k = m THEN g[m][f[m - 1]] ELSE f[k]]
  <2>2. f[m - 1] \in S /\ f[0] = b /\ \A k \in 0..(m - 1) : f[k] \in S
    BY <2>1
  <2>3. g[m][f[m - 1]] \in S
    BY <2>2
  <2>4. h \in [0..m -> S]
    BY <2>2, <2>3
  <2>5. h[0] = b
    BY <2>2
  <2>6. \A k \in 1..m : h[k] = g[k][h[k - 1]]
    BY <2>1
  <2> HIDE DEF h
  <2> QED
    BY <2>4, <2>5, <2>6
<1>3. 0..n \subseteq G
  <2> HIDE DEF G
  <2> QED
    BY <1>1, <1>2, UpTo
<1>4. n \in G
  BY <1>3
<1>5. PICK f : Run(f, n)
  BY <1>4
<1> QED
  BY <1>5

(* A loop that starts in S and leaves it in no turn stays in S.            *)
LEMMA StaysIn ==
  ASSUME NEW n \in Nat, NEW S, NEW f, f[0] \in S,
         \A k \in 1..n : f[k - 1] \in S => f[k] \in S
  PROVE  \A k \in 0..n : f[k] \in S
<1> DEFINE G == {k \in 0..n : f[k] \in S}
<1>1. 0 \in G
  OBVIOUS
<1>2. \A k \in 1..n : k - 1 \in G => k \in G
  OBVIOUS
<1>3. 0..n \subseteq G
  <2> HIDE DEF G
  <2> QED
    BY <1>1, <1>2, UpTo
<1> QED
  BY <1>3

-----------------------------------------------------------------------------
(* Entries *)

Entry == [chunk : Nat, page : 0..(Pages - 1)]

(* An address lies on a page of a chunk.                                   *)
LEMMA PlaceType ==
  ASSUME OCSane, NEW lba \in Nat
  PROVE  Place(lba) \in Entry
<1>1. Pages \in Nat \ {0} /\ WriteSize \in Nat \ {0}
  BY DEF OCSane
<1>2. ChunkSize \in Nat \ {0}
  <2>1. \A a, b \in Nat \ {0} : a * b \in Nat \ {0}
    OBVIOUS
  <2> QED
    BY <1>1, <2>1 DEF ChunkSize
<1>3. lba \div ChunkSize \in Nat /\ lba % ChunkSize \in Nat /\ lba % ChunkSize < ChunkSize
  BY <1>2
<1>4. (lba % ChunkSize) \div WriteSize \in 0..(Pages - 1)
  <2> DEFINE r == lba % ChunkSize
             q == r \div WriteSize
  <2>1. r \in Nat /\ r < Pages * WriteSize
    BY <1>3 DEF ChunkSize
  <2> HIDE DEF r
  <2>2. q \in Nat /\ WriteSize * q <= r
    BY <1>1, <2>1
  <2> HIDE DEF q
  <2>3. WriteSize * q < WriteSize * Pages
    <3>1. Pages * WriteSize = WriteSize * Pages /\ Pages * WriteSize \in Nat
          /\ WriteSize * q \in Nat
      BY <1>1, <2>2
    <3> QED
      BY <2>1, <2>2, <3>1
  <2>4. ~ (q >= Pages)
    <3>1. \A a, b, c \in Nat : a >= b => c * a >= c * b /\ c * a \in Nat /\ c * b \in Nat
      OBVIOUS
    <3> QED
      BY <1>1, <2>2, <2>3, <3>1
  <2>5. q \in 0..(Pages - 1)
    BY <1>1, <2>2, <2>4
  <2> QED
    BY <2>5 DEF q, r
<1> QED
  BY <1>3, <1>4 DEF Place, Entry

(* out is the run of the loop of mergeList.                                *)
IsMerge(out, lbas, block) ==
  out = [i \in 0..Len(lbas) |->
           IF i = 0 THEN <<>> ELSE Merged(out[i - 1], Place(lbas[i]), block)]

(* mergeList and convertUnit make entries.                                 *)
LEMMA MergeType ==
  ASSUME OCSane, NEW lbas \in Seq(Nat), NEW block \in BOOLEAN
  PROVE  Merge(lbas, block) \in Seq(Entry)
<1> DEFINE n == Len(lbas)
           S == Seq(Entry)
           g == [k \in 1..n |-> [x \in S |-> Merged(x, Place(lbas[k]), block)]]
<1>1. n \in Nat /\ \A k \in 1..n : Place(lbas[k]) \in Entry
  BY PlaceType
<1>2. ASSUME NEW k \in 1..n, NEW x \in S
      PROVE  Merged(x, Place(lbas[k]), block) \in S
  BY <1>1 DEF Merged
<1>3. g \in [1..n -> [S -> S]]
  BY <1>2
<1>4. \E f : IsMerge(f, lbas, block)
  <2> DEFINE b == <<>>
  <2>1. b \in S
    OBVIOUS
  <2>2. IsLoop(n, S, b, g)
    <3> HIDE DEF n, S, g, b
    <3> QED
      BY <1>1, <1>3, <2>1 DEF IsLoop
  <2>3. PICK f : IsRun(f, n, S, b, g)
    <3> HIDE DEF n, S, g, b
    <3> QED
      BY <2>2, RunExists
  <2>4. f \in [0..n -> S] /\ f[0] = b /\ \A k \in 1..n : f[k] = g[k][f[k - 1]]
    BY <2>3 DEF IsRun
  <2>5. \A k \in 1..n : f[k] = Merged(f[k - 1], Place(lbas[k]), block)
    <3> SUFFICES ASSUME NEW k \in 1..n
                 PROVE  f[k] = Merged(f[k - 1], Place(lbas[k]), block)
      OBVIOUS
    <3>1. f[k - 1] \in S
      <4>1. k - 1 \in 0..n
        BY <1>1
      <4> HIDE DEF n, S, g
      <4> QED
        BY <2>4, <4>1
    <3> HIDE DEF S
    <3> QED
      BY <2>4, <3>1
  <2>6. \A k \in 0..n : f[k] = IF k = 0 THEN <<>>
                               ELSE Merged(f[k - 1], Place(lbas[k]), block)
    <3> HIDE DEF S
    <3> QED
      BY <1>1, <2>4, <2>5
  <2>7. f = [k \in 0..n |-> f[k]]
    <3> HIDE DEF S
    <3> QED
      BY <2>4
  <2> QED
    BY <2>6, <2>7 DEF IsMerge
<1> DEFINE out == CHOOSE f : IsMerge(f, lbas, block)
<1>5. IsMerge(out, lbas, block)
  BY <1>4
<1>6. Merge(lbas, block) = out[n]
  BY DEF Merge, IsMerge
<1> HIDE DEF out
<1>7. \A k \in 0..n : out[k] = IF k = 0 THEN <<>>
                               ELSE Merged(out[k - 1], Place(lbas[k]), block)
  BY <1>5 DEF IsMerge
<1>8. out[0] \in S
  <2>1. 0 \in 0..n
    BY <1>1
  <2>2. out[0] = <<>>
    BY <1>7, <2>1
  <2> QED
    BY <2>2
<1>9. \A k \in 1..n : out[k - 1] \in S => out[k] \in S
  <2> HIDE DEF S
  <2> QED
    BY <1>1, <1>2, <1>7
<1>10. \A k \in 0..n : out[k] \in S
  <2> HIDE DEF n, S
  <2> QED
    BY <1>1, <1>8, <1>9, StaysIn
<1> QED
  BY <1>1, <1>6, <1>10

-----------------------------------------------------------------------------
(* Chunks *)

ChunkTypes == [state : {"FREE", "OPEN", "CLOSED"}, wp : Nat, programs : Seq(0..(Pages - 1))]

(* The pages programmed since the last reset ascend, and state and write   *)
(* pointer say how far they got.                                           *)
GoodChunk ==
  {d \in ChunkTypes :
     /\ \A i, j \in DOMAIN d.programs : i < j => d.programs[i] < d.programs[j]
     /\ d.state = "FREE" => d.programs = <<>>
     /\ d.state = "OPEN" =>
          /\ d.programs # <<>> /\ d.programs[Len(d.programs)] < Pages - 1
          /\ d.wp \div WriteSize = d.programs[Len(d.programs)] + 1
     /\ d.state = "CLOSED" =>
          d.programs # <<>> /\ d.programs[Len(d.programs)] = Pages - 1}
GoodChunks == [0..(Chunks - 1) -> GoodChunk]

(* What writeInternal and eraseInternal keep while they walk the entries.  *)
Walks == [chunk : GoodChunks, err : BOOLEAN, mask : SUBSET Nat]

(* A page number times the write size, divided by it, is the page number.  *)
LEMMA PageOfPointer ==
  ASSUME OCSane, NEW p \in Nat
  PROVE  p * WriteSize \in Nat /\ (p * WriteSize) \div WriteSize = p
<1>1. WriteSize \in Nat \ {0}
  BY DEF OCSane
<1> DEFINE x == p * WriteSize
           q == x \div WriteSize
<1>2. x \in Nat /\ x = WriteSize * p
  BY <1>1
<1>3. q \in Nat /\ WriteSize * q <= x /\ x < WriteSize * q + WriteSize
  <2> HIDE DEF x
  <2> QED
    BY <1>1, <1>2
<1> HIDE DEF x, q
<1>4. WriteSize * q <= WriteSize * p /\ WriteSize * p < WriteSize * (q + 1)
  <2>1. WriteSize * (q + 1) = WriteSize * q + WriteSize
    BY <1>1, <1>3
  <2> QED
    BY <1>2, <1>3, <2>1
<1>5. q <= p /\ p < q + 1
  <2>1. \A a, b, c \in Nat : a >= b => c * a >= c * b /\ c * a \in Nat /\ c * b \in Nat
    OBVIOUS
  <2>2. ~ (q >= p + 1)
    <3>1. WriteSize * (p + 1) = WriteSize * p + WriteSize /\ WriteSize * p \in Nat
      BY <1>1
    <3>2. ASSUME q >= p + 1 PROVE FALSE
      <4>1. WriteSize * q >= WriteSize * (p + 1) /\ WriteSize * q \in Nat
        BY <1>1, <1>3, <2>1, <3>2
      <4> QED
        BY <1>1, <1>4, <3>1, <4>1
    <3> QED
      BY <3>2
  <2>3. ~ (p >= q + 1)
    <3>1. ASSUME p >= q + 1 PROVE FALSE
      <4>1. WriteSize * p >= WriteSize * (q + 1) /\ WriteSize * p \in Nat /\ WriteSize * (q + 1) \in Nat
        BY <1>1, <1>3, <2>1, <3>1
      <4> QED
        BY <1>4, <4>1
    <3> QED
      BY <3>1
  <2> QED
    BY <1>3, <2>2, <2>3
<1>6. q = p
  BY <1>3, <1>5
<1> QED
  BY <1>2, <1>6 DEF x, q

(* A chunk that accepts a page has programmed only pages before it, and is *)
(* good again afterwards (writeInternal).                                  *)
LEMMA ProgramGood ==
  ASSUME OCSane, NEW d \in GoodChunk, NEW page \in 0..(Pages - 1),
         d.state # "CLOSED", ~OutOfOrder(d, page)
  PROVE  Program(d, page) \in GoodChunk
<1>1. Pages \in Nat \ {0}
  BY DEF OCSane
<1>2. d \in ChunkTypes
  BY DEF GoodChunk
<1> DEFINE p == d.programs
           r == Append(p, page)
           w == (page + 1) * WriteSize
<1>3. p \in Seq(0..(Pages - 1)) /\ d.state \in {"FREE", "OPEN"}
  BY <1>2 DEF ChunkTypes
<1>4. w \in Nat /\ w \div WriteSize = page + 1
  BY <1>1, PageOfPointer
<1>5. \A i \in DOMAIN p : p[i] < page
  <2>1. CASE d.state = "FREE"
    <3>1. p = <<>>
      BY <2>1 DEF GoodChunk
    <3> QED
      BY <3>1
  <2>2. CASE d.state = "OPEN"
    <3>1. /\ p # <<>> /\ d.wp \div WriteSize = p[Len(p)] + 1
          /\ \A i, j \in DOMAIN p : i < j => p[i] < p[j]
      BY <2>2 DEF GoodChunk
    <3>2. ~ (d.wp \div WriteSize > page)
      BY <2>2 DEF OutOfOrder
    <3>3. Len(p) \in DOMAIN p /\ p[Len(p)] \in Nat
      BY <1>1, <1>3, <3>1
    <3>4. p[Len(p)] < page
      BY <3>1, <3>2, <3>3, <1>1
    <3>5. \A i \in DOMAIN p : i = Len(p) \/ p[i] < p[Len(p)]
      BY <1>3, <3>1, <3>3
    <3>6. \A i \in DOMAIN p : p[i] \in Nat
      BY <1>1, <1>3
    <3> QED
      BY <3>3, <3>4, <3>5, <3>6, <1>1
  <2> QED
    BY <1>3, <2>1, <2>2
<1>6. /\ r \in Seq(0..(Pages - 1)) /\ Len(r) = Len(p) + 1 /\ r[Len(r)] = page
      /\ r # <<>> /\ DOMAIN r = 1..(Len(p) + 1) /\ DOMAIN p = 1..Len(p)
      /\ \A i \in 1..Len(p) : r[i] = p[i]
      /\ Len(p) \in Nat
  <2> HIDE DEF p
  <2>1. r \in Seq(0..(Pages - 1)) /\ Len(r) = Len(p) + 1 /\ Len(p) \in Nat
    BY <1>3
  <2>2. DOMAIN r = 1..(Len(p) + 1) /\ DOMAIN p = 1..Len(p)
    BY <1>3, <2>1
  <2>3. r[Len(p) + 1] = page /\ \A i \in 1..Len(p) : r[i] = p[i]
    BY <1>3
  <2>4. r # <<>>
    BY <1>3
  <2> QED
    BY <2>1, <2>2, <2>3, <2>4
<1>7. \A i, j \in DOMAIN p : i < j => p[i] < p[j]
  BY DEF GoodChunk
<1>8. \A i, j \in DOMAIN r : i < j => r[i] < r[j]
  <2> SUFFICES ASSUME NEW i \in DOMAIN r, NEW j \in DOMAIN r, i < j
               PROVE  r[i] < r[j]
    OBVIOUS
  <2> HIDE DEF p, r
  <2>1. i \in 1..Len(p)
    BY <1>6
  <2>2. CASE j = Len(p) + 1
    BY <1>5, <1>6, <2>1, <2>2
  <2>3. CASE j \in 1..Len(p)
    BY <1>6, <1>7, <2>1, <2>3
  <2> QED
    BY <1>6, <2>2, <2>3
<1> DEFINE s == IF page = Pages - 1 THEN "CLOSED" ELSE "OPEN"
           n == [state |-> s, wp |-> w, programs |-> r]
<1>9. Program(d, page) = n
  BY DEF Program
<1>10. /\ s \in {"FREE", "OPEN", "CLOSED"} /\ s # "FREE"
       /\ s = "CLOSED" => page = Pages - 1
       /\ s = "OPEN" => page < Pages - 1
  BY <1>1
<1> HIDE DEF p, r, w, s
<1>11. n \in ChunkTypes
  BY <1>4, <1>6, <1>10 DEF ChunkTypes
<1>12. n.state = s /\ n.programs = r /\ n.wp = w
  OBVIOUS
<1> HIDE DEF n
<1>13. n \in GoodChunk
  BY <1>4, <1>6, <1>8, <1>10, <1>11, <1>12 DEF GoodChunk
<1> QED
  BY <1>9, <1>13

(* A chunk after a reset is good.                                          *)
LEMMA FreeGood ==
  ASSUME OCSane
  PROVE  FreeChunk \in GoodChunk
  BY DEF OCSane, FreeChunk, GoodChunk, ChunkTypes

(* A turn of writeInternal keeps the chunks good.                          *)
LEMMA WriteEntryGood ==
  ASSUME OCSane, NEW s \in Walks, NEW i \in Nat, NEW e \in Entry
  PROVE  WriteEntry(s, i, e) \in Walks
<1> DEFINE d == s.chunk[e.chunk]
           x == e.chunk
           n == [s EXCEPT !.chunk[e.chunk] = Program(d, e.page)]
           m == [s EXCEPT !.err = TRUE, !.mask = @ \union {i}]
<1>1. s.chunk \in GoodChunks /\ s.err \in BOOLEAN /\ s.mask \in SUBSET Nat
  BY DEF Walks
<1>2. e.page \in 0..(Pages - 1)
  BY DEF Entry
<1>3. m \in Walks
  BY <1>1 DEF Walks
<1>4. CASE s.err \/ d.state = "CLOSED" \/ OutOfOrder(d, e.page)
  BY <1>3, <1>4 DEF WriteEntry
<1>5. CASE ~ (s.err \/ d.state = "CLOSED" \/ OutOfOrder(d, e.page))
  <2>1. x \in 0..(Chunks - 1) => Program(d, e.page) \in GoodChunk
    <3> SUFFICES ASSUME x \in 0..(Chunks - 1) PROVE Program(d, e.page) \in GoodChunk
      OBVIOUS
    <3>1. d \in GoodChunk
      BY <1>1 DEF GoodChunks
    <3> HIDE DEF d
    <3> QED
      BY <1>2, <1>5, <3>1, ProgramGood
  <2>2. [s.chunk EXCEPT ![x] = Program(d, e.page)] \in GoodChunks
    <3> DEFINE q == Program(d, e.page)
    <3> HIDE DEF q, d, x
    <3> QED
      BY <1>1, <2>1 DEF GoodChunks, q
  <2>3. n \in Walks
    BY <1>1, <2>2 DEF Walks
  <2> QED
    BY <1>5, <2>3 DEF WriteEntry
<1> QED
  BY <1>4, <1>5

(* A turn of eraseInternal keeps the chunks good.                          *)
LEMMA EraseEntryGood ==
  ASSUME OCSane, NEW s \in Walks, NEW i \in Nat, NEW e \in Entry
  PROVE  EraseEntry(s, i, e) \in Walks
<1> DEFINE d == s.chunk[e.chunk]
           x == e.chunk
           bad == s.err \/ d.state # "CLOSED"
           ch == IF d.state # "CLOSED" THEN s.chunk ELSE [s.chunk EXCEPT ![x] = Reset(d)]
           mk == s.mask \union (IF bad THEN {i} ELSE {})
<1>1. s.chunk \in GoodChunks /\ s.err \in BOOLEAN /\ s.mask \in SUBSET Nat
  BY DEF Walks
<1>2. Reset(d) \in GoodChunk
  BY FreeGood DEF Reset
<1>3. ch \in GoodChunks
  BY <1>1, <1>2 DEF GoodChunks
<1>4. bad \in BOOLEAN /\ mk \in SUBSET Nat
  BY <1>1
<1>5. EraseEntry(s, i, e) = [chunk |-> ch, err |-> bad, mask |-> mk]
  BY DEF EraseEntry
<1> HIDE DEF ch, bad, mk
<1> QED
  BY <1>3, <1>4, <1>5 DEF Walks

(* s is the run of the loop of writeInternal.                              *)
IsWrite(s, entries) ==
  s = [i \in 0..Len(entries) |->
         IF i = 0 THEN Untouched ELSE WriteEntry(s[i - 1], i, entries[i])]

(* writeInternal keeps the chunks good.                                    *)
LEMMA WriteEntriesGood ==
  ASSUME OCSane, chunk \in GoodChunks, NEW entries \in Seq(Entry)
  PROVE  WriteEntries(entries) \in Walks
<1> DEFINE n == Len(entries)
           g == [k \in 1..n |-> [x \in Walks |-> WriteEntry(x, k, entries[k])]]
<1>1. n \in Nat /\ \A k \in 1..n : k \in Nat /\ entries[k] \in Entry
  OBVIOUS
<1>2. ASSUME NEW k \in 1..n, NEW x \in Walks
      PROVE  WriteEntry(x, k, entries[k]) \in Walks
  BY <1>1, WriteEntryGood
<1>3. g \in [1..n -> [Walks -> Walks]]
  BY <1>2
<1>4. Untouched \in Walks
  BY DEF Untouched, Walks
<1>5. \E f : IsWrite(f, entries)
  <2>1. IsLoop(n, Walks, Untouched, g)
    <3> HIDE DEF n, g
    <3> QED
      BY <1>1, <1>3, <1>4 DEF IsLoop
  <2>2. PICK f : IsRun(f, n, Walks, Untouched, g)
    <3> HIDE DEF n, g
    <3> QED
      BY <2>1, RunExists
  <2>3. f \in [0..n -> Walks] /\ f[0] = Untouched /\ \A k \in 1..n : f[k] = g[k][f[k - 1]]
    BY <2>2 DEF IsRun
  <2>4. \A k \in 1..n : f[k] = WriteEntry(f[k - 1], k, entries[k])
    <3> SUFFICES ASSUME NEW k \in 1..n
                 PROVE  f[k] = WriteEntry(f[k - 1], k, entries[k])
      OBVIOUS
    <3>1. k - 1 \in 0..n
      BY <1>1
    <3>2. f[k - 1] \in Walks
      <4> HIDE DEF n, g
      <4> QED
        BY <2>3, <3>1
    <3> QED
      BY <2>3, <3>2
  <2>5. \A k \in 0..n : f[k] = IF k = 0 THEN Untouched
                               ELSE WriteEntry(f[k - 1], k, entries[k])
    BY <1>1, <2>3, <2>4
  <2>6. f = [k \in 0..n |-> f[k]]
    BY <2>3
  <2> QED
    BY <2>5, <2>6 DEF IsWrite
<1> DEFINE out == CHOOSE f : IsWrite(f, entries)
<1>6. IsWrite(out, entries)
  BY <1>5
<1>7. WriteEntries(entries) = out[n]
  BY DEF WriteEntries, IsWrite
<1> HIDE DEF out
<1>8. \A k \in 0..n : out[k] = IF k = 0 THEN Untouched
                               ELSE WriteEntry(out[k - 1], k, entries[k])
  BY <1>6 DEF IsWrite
<1>9. out[0] \in Walks
  <2>1. 0 \in 0..n
    BY <1>1
  <2> QED
    BY <1>4, <1>8, <2>1
<1>10. \A k \in 1..n : out[k - 1] \in Walks => out[k] \in Walks
  BY <1>1, <1>2, <1>8
<1>11. \A k \in 0..n : out[k] \in Walks
  <2> HIDE DEF n
  <2> QED
    BY <1>1, <1>9, <1>10, StaysIn
<1> QED
  BY <1>1, <1>7, <1>11

(* s is the run of the loop of eraseInternal.                              *)
IsErase(s, entries) ==
  s = [i \in 0..Len(entries) |->
         IF i = 0 THEN Untouched ELSE EraseEntry(s[i - 1], i, entries[i])]

(* eraseInternal keeps the chunks good.                                    *)
LEMMA EraseEntriesGood ==
  ASSUME OCSane, chunk \in GoodChunks, NEW entries \in Seq(Entry)
  PROVE  EraseEntries(entries) \in Walks
<1> DEFINE n == Len(entries)
           g == [k \in 1..n |-> [x \in Walks |-> EraseEntry(x, k, entries[k])]]
<1>1. n \in Nat /\ \A k \in 1..n : k \in Nat /\ entries[k] \in Entry
  OBVIOUS
<1>2. ASSUME NEW k \in 1..n, NEW x \in Walks
      PROVE  EraseEntry(x, k, entries[k]) \in Walks
  BY <1>1, EraseEntryGood
<1>3. g \in [1..n -> [Walks -> Walks]]
  BY <1>2
<1>4. Untouched \in Walks
  BY DEF Untouched, Walks
<1>5. \E f : IsErase(f, entries)
  <2>1. IsLoop(n, Walks, Untouched, g)
    <3> HIDE DEF n, g
    <3> QED
      BY <1>1, <1>3, <1>4 DEF IsLoop
  <2>2. PICK f : IsRun(f, n, Walks, Untouched, g)
    <3> HIDE DEF n, g
    <3> QED
      BY <2>1, RunExists
  <2>3. f \in [0..n -> Walks] /\ f[0] = Untouched /\ \A k \in 1..n : f[k] = g[k][f[k - 1]]
    BY <2>2 DEF IsRun
  <2>4. \A k \in 1..n : f[k] = EraseEntry(f[k - 1], k, entries[k])
    <3> SUFFICES ASSUME NEW k \in 1..n
                 PROVE  f[k] = EraseEntry(f[k - 1], k, entries[k])
      OBVIOUS
    <3>1. k - 1 \in 0..n
      BY <1>1
    <3>2. f[k - 1] \in Walks
      <4> HIDE DEF n, g
      <4> QED
        BY <2>3, <3>1
    <3> QED
      BY <2>3, <3>2
  <2>5. \A k \in 0..n : f[k] = IF k = 0 THEN Untouched
                               ELSE EraseEntry(f[k - 1], k, entries[k])
    BY <1>1, <2>3, <2>4
  <2>6. f = [k \in 0..n |-> f[k]]
    BY <2>3
  <2> QED
    BY <2>5, <2>6 DEF IsErase
<1> DEFINE out == CHOOSE f : IsErase(f, entries)
<1>6. IsErase(out, entries)
  BY <1>5
<1>7. EraseEntries(entries) = out[n]
  BY DEF EraseEntries, IsErase
<1> HIDE DEF out
<1>8. \A k \in 0..n : out[k] = IF k = 0 THEN Untouched
                               ELSE EraseEntry(out[k - 1], k, entries[k])
  BY <1>6 DEF IsErase
<1>9. out[0] \in Walks
  <2>1. 0 \in 0..n
    BY <1>1
  <2> QED
    BY <1>4, <1>8, <2>1
<1>10. \A k \in 1..n : out[k - 1] \in Walks => out[k] \in Walks
  BY <1>1, <1>2, <1>8
<1>11. \A k \in 0..n : out[k] \in Walks
  <2> HIDE DEF n
  <2> QED
    BY <1>1, <1>9, <1>10, StaysIn
<1> QED
  BY <1>1, <1>7, <1>11

-----------------------------------------------------------------------------
(* Steps of a command *)

ProgramInv == cmds \in Seq(OCCommandTypes) /\ chunk \in GoodChunks

(* The fields of a command's work.                                         *)
IsWork(w) == w = [left |-> w.left, mask |-> w.mask, pages |-> w.pages, got |-> w.got,
                  entries |-> w.entries]

(* A step takes c one further on its route; a vector write that stores its *)
(* data keeps its mask.                                                    *)
Advances(c) ==
  \E w, n : /\ Enter(c, w, n) /\ IsWork(w) /\ w.left = Tail(work[c].left)
            /\ cmds[c].op = "vwrite" /\ Head(work[c].left) = "data" =>
                 w.mask = work[c].mask

(* The blocks a vector write may store, whatever the shifts the language   *)
(* leaves undefined give.                                                  *)
MayStore(lbas, mask) == Stored(lbas, mask, Beyond(lbas))

(* It puts into the disk image only what c itself writes, and a vector     *)
(* write only at its last step and only what the mask leaves.              *)
KeepsWork(c) ==
  \A b \in DOMAIN table' :
    \/ b \in DOMAIN table /\ table'[b] = table[b]
    \/ /\ table'[b] = c
       /\ cmds[c].op = "vwrite" =>
            /\ Head(work[c].left) = "data"
            /\ b \in MayStore(cmds[c].lbas, work[c].mask)

Moves(c) == chunk' \in GoodChunks /\ Advances(c) /\ KeepsWork(c)

(* The fields of a command.                                                *)
LEMMA CommandFields ==
  ASSUME OCSane, ProgramInv, NEW c \in DOMAIN cmds
  PROVE  /\ cmds[c].lbas \in Seq(Nat) /\ cmds[c].slba \in Nat /\ cmds[c].nlb \in Nat
         /\ Vector(c) \in Seq(Entry) /\ Segment(c) \in Seq(Entry)
<1>1. cmds[c] \in OCCommandTypes
  BY DEF ProgramInv
<1>2. cmds[c].lbas \in Seq(Nat) /\ cmds[c].slba \in Nat /\ cmds[c].nlb \in Nat
  BY <1>1 DEF OCCommandTypes
<1>3. Vector(c) \in Seq(Entry)
  <2> DEFINE block == cmds[c].op \in {"erase12", "vreset"}
             lbas == cmds[c].lbas
  <2>1. block \in BOOLEAN /\ lbas \in Seq(Nat)
    BY <1>2
  <2>2. Vector(c) = Merge(lbas, block)
    BY DEF Vector
  <2> HIDE DEF block, lbas
  <2> QED
    BY <2>1, <2>2, MergeType
<1>4. RangeOf(cmds[c].slba, cmds[c].nlb) \in Seq(Nat)
  <2> DEFINE m == Max({cmds[c].nlb - cmds[c].slba, 0})
  <2>1. m \in Nat
    <3> DEFINE a == cmds[c].nlb - cmds[c].slba
    <3>1. a \in Int
      BY <1>2
    <3> HIDE DEF a
    <3>2. \E x \in {a, 0} : \A y \in {a, 0} : x >= y
      BY <3>1
    <3>3. Max({a, 0}) \in {a, 0} /\ \A y \in {a, 0} : Max({a, 0}) >= y
      BY <3>2 DEF Max
    <3>4. Max({a, 0}) \in Nat
      BY <3>1, <3>3
    <3> QED
      BY <3>4 DEF a
  <2> HIDE DEF m
  <2>2. \A i \in 1..m : cmds[c].slba + i - 1 \in Nat
    BY <1>2, <2>1
  <2>3. [i \in 1..m |-> cmds[c].slba + i - 1] \in Seq(Nat)
    BY <2>1, <2>2
  <2> QED
    BY <2>3 DEF RangeOf, m
<1>5. Segment(c) \in Seq(Entry)
  BY <1>4, MergeType DEF Segment
<1> QED
  BY <1>2, <1>3, <1>5

(* What is left of a command's work.                                       *)
LEMMA RemainingFields ==
  ASSUME NEW c, IsWork(work[c])
  PROVE  /\ IsWork(Remaining(c))
         /\ Remaining(c).left = Tail(work[c].left)
         /\ Remaining(c).mask = work[c].mask
         /\ Remaining(c).pages = work[c].pages
         /\ Remaining(c).got = work[c].got
         /\ Remaining(c).entries = work[c].entries
<1> DEFINE w == work[c]
           l == Tail(w.left)
<1>1. [w EXCEPT !.left = l] = [left |-> l, mask |-> w.mask, pages |-> w.pages,
                               got |-> w.got, entries |-> w.entries]
  <2> HIDE DEF w, l
  <2>1. IsWork(w)
    BY DEF w
  <2> QED
    BY <2>1 DEF IsWork
<1>2. Remaining(c) = [w EXCEPT !.left = l]
  BY DEF Remaining
<1> HIDE DEF w, l
<1> QED
  BY <1>1, <1>2 DEF IsWork, w, l

(* The same with other fields replaced.                                    *)
LEMMA WorkReplaced ==
  ASSUME NEW c, IsWork(work[c]), NEW x
  PROVE  /\ IsWork([Remaining(c) EXCEPT !.got = x])
         /\ [Remaining(c) EXCEPT !.got = x].left = Tail(work[c].left)
         /\ [Remaining(c) EXCEPT !.got = x].mask = work[c].mask
         /\ IsWork([Remaining(c) EXCEPT !.pages = x])
         /\ [Remaining(c) EXCEPT !.pages = x].left = Tail(work[c].left)
         /\ [Remaining(c) EXCEPT !.pages = x].mask = work[c].mask
<1> DEFINE r == Remaining(c)
<1>0. IsWork(r)
  BY RemainingFields
<1>1. r.left = Tail(work[c].left) /\ r.mask = work[c].mask
  BY RemainingFields
<1> HIDE DEF r
<1>2. [r EXCEPT !.got = x] = [left |-> r.left, mask |-> r.mask, pages |-> r.pages,
                              got |-> x, entries |-> r.entries]
  BY <1>0 DEF IsWork
<1>3. [r EXCEPT !.pages = x] = [left |-> r.left, mask |-> r.mask, pages |-> x,
                                got |-> r.got, entries |-> r.entries]
  BY <1>0 DEF IsWork
<1>4. /\ IsWork([r EXCEPT !.got = x])
      /\ [r EXCEPT !.got = x].left = r.left /\ [r EXCEPT !.got = x].mask = r.mask
  BY <1>2 DEF IsWork
<1>5. /\ IsWork([r EXCEPT !.pages = x])
      /\ [r EXCEPT !.pages = x].left = r.left /\ [r EXCEPT !.pages = x].mask = r.mask
  BY <1>3 DEF IsWork
<1> QED
  BY <1>1, <1>4, <1>5 DEF r

Marked(c, mask, entries, pages) ==
  [Remaining(c) EXCEPT !.mask = mask, !.entries = entries, !.pages = pages]

(* What is left, with mask, entries and pages replaced.                    *)
LEMMA MarkedFields ==
  ASSUME NEW c, IsWork(work[c]), NEW x, NEW y, NEW z
  PROVE  IsWork(Marked(c, x, y, z)) /\ Marked(c, x, y, z).left = Tail(work[c].left)
<1> DEFINE r == Remaining(c)
<1>0. IsWork(r)
  BY RemainingFields
<1>1. r.left = Tail(work[c].left) /\ r.mask = work[c].mask
  BY RemainingFields
<1> HIDE DEF r
<1>2. [r EXCEPT !.mask = x, !.entries = y, !.pages = z]
        = [left |-> r.left, mask |-> x, pages |-> z, got |-> r.got, entries |-> y]
  <2>1. [r EXCEPT !.mask = x] = [left |-> r.left, mask |-> x, pages |-> r.pages,
                                 got |-> r.got, entries |-> r.entries]
    BY <1>0 DEF IsWork
  <2> DEFINE a == [r EXCEPT !.mask = x]
             b == [a EXCEPT !.entries = y]
  <2>2. b = [left |-> r.left, mask |-> x, pages |-> r.pages, got |-> r.got, entries |-> y]
    <3>1. a = [left |-> r.left, mask |-> x, pages |-> r.pages,
               got |-> r.got, entries |-> r.entries]
      BY <2>1
    <3> HIDE DEF a
    <3> QED
      BY <3>1
  <2>3. [b EXCEPT !.pages = z]
          = [left |-> r.left, mask |-> x, pages |-> z, got |-> r.got, entries |-> y]
    <3> HIDE DEF b
    <3> QED
      BY <2>2
  <2>4. [r EXCEPT !.mask = x, !.entries = y, !.pages = z] = [b EXCEPT !.pages = z]
    OBVIOUS
  <2> QED
    BY <2>3, <2>4
<1>3. /\ IsWork([r EXCEPT !.mask = x, !.entries = y, !.pages = z])
      /\ [r EXCEPT !.mask = x, !.entries = y, !.pages = z].left = r.left
  BY <1>2 DEF IsWork
<1> QED
  BY <1>1, <1>3 DEF r, Marked

(* A step that only moves on.                                              *)
LEMMA PlainMoves ==
  ASSUME chunk \in GoodChunks, NEW c, NEW w, NEW n, Plain(c, w, n), IsWork(w),
         w.left = Tail(work[c].left), w.mask = work[c].mask
  PROVE  Moves(c)
<1>1. Advances(c)
  BY DEF Advances, Plain
<1>2. KeepsWork(c)
  BY DEF KeepsWork, Plain
<1> QED
  BY <1>1, <1>2 DEF Moves, Plain

(* A step that writes or erases blocks outside of a vector write.          *)
LEMMA ImageMoves ==
  ASSUME chunk \in GoodChunks, NEW c, NEW n, NEW set, IsWork(work[c]),
         table' = Store(set, c) \/ table' = Erase(set), cmds[c].op # "vwrite",
         Enter(c, Remaining(c), n), UNCHANGED chunk
  PROVE  Moves(c)
<1>1. Advances(c)
  BY RemainingFields DEF Advances
<1>2. KeepsWork(c)
  BY DEF KeepsWork, Store, Erase
<1> QED
  BY <1>1, <1>2 DEF Moves

(* A step that runs writeInternal or eraseInternal.                        *)
LEMMA AppliedMoves ==
  ASSUME NEW c, NEW r \in Walks, NEW entries, IsWork(work[c]), Applied(c, r, entries),
         ~ (cmds[c].op = "vwrite" /\ Head(work[c].left) = "data"), KeepsWork(c)
  PROVE  Moves(c)
<1> DEFINE x == IF r.err THEN r.mask ELSE {}
           z == Len(entries) - (IF r.err THEN Cardinality(r.mask) ELSE 0)
           w == [Remaining(c) EXCEPT !.mask = x, !.entries = entries, !.pages = z]
<1>1. Enter(c, w, 0) /\ chunk' = r.chunk
  BY DEF Applied
<1>2. IsWork(w) /\ w.left = Tail(work[c].left)
  <2>1. w = Marked(c, x, entries, z)
    BY DEF Marked
  <2> HIDE DEF w, x, z
  <2> QED
    BY <2>1, MarkedFields
<1> HIDE DEF w
<1>3. Advances(c)
  BY <1>1, <1>2 DEF Advances
<1>4. chunk' \in GoodChunks
  BY <1>1 DEF Walks
<1> QED
  BY <1>3, <1>4 DEF Moves

(* Every step of a command other than the flash's moves it on.             *)
LEMMA EffectMoves ==
  ASSUME OCSane, ProgramInv, NEW c \in DOMAIN cmds, IsWork(work[c]),
         Effect(c, Head(work[c].left))
  PROVE  Moves(c)
<1> DEFINE op == cmds[c].op
           s == Head(work[c].left)
<1>1. chunk \in GoodChunks
  BY DEF ProgramInv
<1>2. Vector(c) \in Seq(Entry) /\ Segment(c) \in Seq(Entry)
  BY CommandFields
<1>3. CASE op = "erase12" /\ s = "lbas"
  <2>1. EraseRead(c)
    BY <1>3 DEF Effect
  <2> QED
    BY <1>1, <1>3, <2>1, ImageMoves DEF EraseRead
<1>4. CASE op = "write12" /\ s = "data"
  <2>1. PageWriteData(c)
    BY <1>4 DEF Effect
  <2> QED
    BY <1>1, <1>4, <2>1, ImageMoves DEF PageWriteData
<1>5. CASE op = "read12" /\ s = "lbas"
  <2>1. PageReadBegin(c)
    BY <1>5 DEF Effect
  <2> QED
    BY <1>1, <2>1, PlainMoves, WorkReplaced DEF PageReadBegin
<1>6. CASE op = "setBad" /\ s = "data"
  <2>1. SetBad(c)
    BY <1>6 DEF Effect
  <2>2. Enter(c, Remaining(c), 0) /\ UNCHANGED <<chunk, table>>
    BY <2>1 DEF SetBad
  <2>3. Advances(c)
    BY <2>2, RemainingFields DEF Advances
  <2>4. KeepsWork(c)
    BY <2>2 DEF KeepsWork
  <2> QED
    BY <1>1, <2>2, <2>3, <2>4 DEF Moves
<1>7. CASE op = "read20" /\ s = "list"
  <2>1. ReadBegin(c)
    BY <1>7 DEF Effect
  <2> QED
    BY <1>1, <2>1, PlainMoves, WorkReplaced DEF ReadBegin
<1>8. CASE op = "write20" /\ s = "data"
  <2>1. WriteData(c)
    BY <1>8 DEF Effect
  <2>2. WriteEntries(Segment(c)) \in Walks
    BY <1>1, <1>2, WriteEntriesGood
  <2>3. KeepsWork(c)
    BY <1>8, <2>1 DEF KeepsWork, WriteData, Store
  <2> QED
    BY <1>8, <2>1, <2>2, <2>3, AppliedMoves DEF WriteData
<1>9. CASE op = "trim20" /\ s = "data"
  <2>1. TrimData(c)
    BY <1>9 DEF Effect
  <2>2. EraseEntries(Segment(c)) \in Walks
    BY <1>1, <1>2, EraseEntriesGood
  <2>3. KeepsWork(c)
    BY <2>1 DEF KeepsWork, TrimData, Erase
  <2> QED
    BY <1>9, <2>1, <2>2, <2>3, AppliedMoves DEF TrimData
<1>10. CASE op = "vread" /\ s = "lbas"
  <2>1. VectorReadBegin(c)
    BY <1>10 DEF Effect
  <2> QED
    BY <1>1, <2>1, PlainMoves, WorkReplaced DEF VectorReadBegin
<1>11. CASE op = "vwrite" /\ s = "lbas"
  <2>1. VectorWriteBegin(c)
    BY <1>11 DEF Effect
  <2>2. WriteEntries(Vector(c)) \in Walks
    BY <1>1, <1>2, WriteEntriesGood
  <2>3. KeepsWork(c)
    BY <2>1 DEF KeepsWork, VectorWriteBegin
  <2> QED
    BY <1>11, <2>1, <2>2, <2>3, AppliedMoves DEF VectorWriteBegin
<1>12. CASE op = "vwrite" /\ s = "data"
  <2>1. VectorWriteData(c)
    BY <1>12 DEF Effect
  <2>2. Enter(c, Remaining(c), 0) /\ UNCHANGED chunk
    BY <2>1 DEF VectorWriteData
  <2>3. Advances(c)
    BY <2>2, RemainingFields DEF Advances
  <2>4. KeepsWork(c)
    <3>1. PICK chance \in SUBSET Beyond(cmds[c].lbas) :
            table' = Store(Stored(cmds[c].lbas, work[c].mask, chance), c)
      BY <2>1 DEF VectorWriteData
    <3>2. Stored(cmds[c].lbas, work[c].mask, chance) \subseteq MayStore(cmds[c].lbas, work[c].mask)
      BY DEF Stored, MayStore
    <3> QED
      BY <1>12, <3>1, <3>2 DEF KeepsWork, Store
  <2> QED
    BY <1>1, <2>2, <2>3, <2>4 DEF Moves
<1>13. CASE op = "vreset" /\ s = "lbas"
  <2>1. VectorResetBegin(c)
    BY <1>13 DEF Effect
  <2>2. EraseEntries(Vector(c)) \in Walks
    BY <1>1, <1>2, EraseEntriesGood
  <2>3. KeepsWork(c)
    BY <2>1 DEF KeepsWork, VectorResetBegin
  <2> QED
    BY <1>13, <2>1, <2>2, <2>3, AppliedMoves DEF VectorResetBegin
<1>14. CASE Plain(c, Remaining(c), IF s = "exec" THEN work[c].pages ELSE 0)
  BY <1>1, <1>14, PlainMoves, RemainingFields
<1> QED
  BY <1>3, <1>4, <1>5, <1>6, <1>7, <1>8, <1>9, <1>10, <1>11, <1>12, <1>13, <1>14 DEF Effect

-----------------------------------------------------------------------------
(* The invariant *)

WorkInv == DOMAIN work = DOMAIN cmds /\ \A c \in DOMAIN cmds : IsWork(work[c])

(* An entry of completionQueue belongs to a command that waits for the     *)
(* flash, and no command has two.                                          *)
AtFlash(c) == work[c].left # <<>> /\ Head(work[c].left) = "nand"
QueueInv ==
  /\ \A e \in queue : e.cmd \in DOMAIN cmds /\ AtFlash(e.cmd)
  /\ \A e, f \in queue : e.cmd = f.cmd => e = f

(* Commands that were not submitted rest, and a vector write is on its     *)
(* route.                                                                  *)
VectorRoute ==
  {<<>>, <<"data">>, <<"nand", "data">>, <<"exec", "nand", "data">>,
   <<"lbas", "exec", "nand", "data">>, <<"list", "lbas", "exec", "nand", "data">>}
RouteInv ==
  /\ started \in Nat
  /\ \A c \in DOMAIN cmds : /\ c > started => work[c].left = <<>>
                            /\ cmds[c].op = "vwrite" => work[c].left \in VectorRoute

(* What a vector write put into the disk image is what its mask left, and  *)
(* it did so in its last step.                                             *)
StoreInv ==
  \A b \in DOMAIN table :
    LET c == table[b] IN
    /\ c \in DOMAIN cmds
    /\ cmds[c].op = "vwrite" => /\ work[c].left = <<>> /\ c <= started
                                /\ b \in MayStore(cmds[c].lbas, work[c].mask)

OCInv == ProgramInv /\ WorkInv /\ QueueInv /\ RouteInv /\ StoreInv

(* On its route a vector write stores its data last.                       *)
LEMMA VectorRouteTail ==
  ASSUME NEW r \in VectorRoute, r # <<>>
  PROVE  Tail(r) \in VectorRoute /\ (Head(r) = "data" => Tail(r) = <<>>)
<1>1. CASE r = <<"data">>
  <2>1. Tail(r) = <<>>
    BY <1>1
  <2> QED
    BY <2>1 DEF VectorRoute
<1>2. CASE r = <<"nand", "data">>
  <2>1. Tail(r) = <<"data">> /\ Head(r) = "nand"
    BY <1>2
  <2> QED
    BY <2>1 DEF VectorRoute
<1>3. CASE r = <<"exec", "nand", "data">>
  <2>1. Tail(r) = <<"nand", "data">> /\ Head(r) = "exec"
    BY <1>3
  <2> QED
    BY <2>1 DEF VectorRoute
<1>4. CASE r = <<"lbas", "exec", "nand", "data">>
  <2>1. Tail(r) = <<"exec", "nand", "data">> /\ Head(r) = "lbas"
    BY <1>4
  <2> QED
    BY <2>1 DEF VectorRoute
<1>5. CASE r = <<"list", "lbas", "exec", "nand", "data">>
  <2>1. Tail(r) = <<"lbas", "exec", "nand", "data">> /\ Head(r) = "list"
    BY <1>5
  <2> QED
    BY <2>1 DEF VectorRoute
<1> QED
  BY <1>1, <1>2, <1>3, <1>4, <1>5 DEF VectorRoute

(* A command that enters its next step is queued when that is the flash's. *)
LEMMA EnterKeeps ==
  ASSUME WorkInv, QueueInv, NEW c \in DOMAIN cmds, ~AtFlash(c), NEW w, NEW n,
         Enter(c, w, n), IsWork(w), UNCHANGED cmds
  PROVE  /\ WorkInv' /\ QueueInv'
         /\ work'[c] = w /\ \A d \in DOMAIN cmds : d # c => work'[d] = work[d]
<1>1. work' = [work EXCEPT ![c] = w]
  BY DEF Enter
<1>2. /\ DOMAIN work' = DOMAIN cmds
      /\ work'[c] = w /\ \A d \in DOMAIN cmds : d # c => work'[d] = work[d]
  BY <1>1 DEF WorkInv
<1>3. WorkInv'
  BY <1>2 DEF WorkInv
<1>4. \A e \in queue : e.cmd # c
  BY DEF QueueInv
<1>5a. \A e \in queue : e.cmd \in DOMAIN cmds' /\ AtFlash(e.cmd)'
  <2> SUFFICES ASSUME NEW e \in queue PROVE e.cmd \in DOMAIN cmds' /\ AtFlash(e.cmd)'
    OBVIOUS
  <2>1. e.cmd \in DOMAIN cmds /\ AtFlash(e.cmd) /\ e.cmd # c
    BY <1>4 DEF QueueInv
  <2>2. work'[e.cmd] = work[e.cmd]
    BY <1>2, <2>1
  <2> QED
    BY <2>1, <2>2 DEF AtFlash
<1>5b. \A e, f \in queue : e.cmd = f.cmd => e = f
  BY DEF QueueInv
<1>5. CASE queue' = queue
  BY <1>2, <1>3, <1>5a, <1>5b, <1>5 DEF QueueInv, AtFlash
<1>6. CASE queue' # queue
  <2>1. w.left # <<>> /\ Head(w.left) = "nand" /\ Push(c, n)
    BY <1>6 DEF Enter, NoPush
  <2>2. PICK at : queue' = queue \union {[cmd |-> c, at |-> at]}
    BY <2>1 DEF Push
  <2> DEFINE k == [cmd |-> c, at |-> at]
  <2>3. k.cmd = c
    OBVIOUS
  <2> HIDE DEF k
  <2>4. queue' = queue \union {k}
    BY <2>2 DEF k
  <2>5. AtFlash(c)'
    BY <1>2, <2>1 DEF AtFlash
  <2>6. c \in DOMAIN cmds'
    OBVIOUS
  <2>7. \A e \in queue' : e.cmd \in DOMAIN cmds' /\ AtFlash(e.cmd)'
    BY <1>5a, <2>3, <2>4, <2>5, <2>6
  <2>8. \A e, f \in queue' : e.cmd = f.cmd => e = f
    BY <1>5b, <1>4, <2>3, <2>4
  <2> QED
    BY <1>2, <1>3, <2>7, <2>8 DEF QueueInv, AtFlash
<1> QED
  BY <1>2, <1>3, <1>5, <1>6

(* The invariant holds initially.                                          *)
LEMMA OCInitially ==
  ASSUME OCSane, OCInit
  PROVE  OCInv
<1>1. PICK s \in Sessions : /\ cmds = s /\ started = 0
                            /\ chunk = [c \in 0..(Chunks - 1) |-> FreeChunk]
                            /\ table = <<>> /\ work = [c \in DOMAIN s |-> Idle]
                            /\ queue = {}
  BY DEF OCInit
<1>2. ProgramInv
  BY <1>1, FreeGood DEF ProgramInv, GoodChunks, OCSane
<1>3. IsWork(Idle) /\ Idle.left = <<>>
  BY DEF IsWork, Idle
<1>4. WorkInv /\ QueueInv
  BY <1>1, <1>3 DEF WorkInv, QueueInv
<1>5. RouteInv
  BY <1>1, <1>3 DEF RouteInv, VectorRoute
<1>6. StoreInv
  BY <1>1 DEF StoreInv
<1> QED
  BY <1>2, <1>4, <1>5, <1>6 DEF OCInv

(* A submission keeps the invariant.                                       *)
LEMMA SubmitKeeps ==
  ASSUME OCSane, OCInv, NEW c \in DOMAIN cmds, OCSubmit(c)
  PROVE  OCInv'
<1> DEFINE l == Route(cmds[c].op)
           g == IF cmds[c].op = "getBad" THEN <<badBlocks>> ELSE <<>>
           w == [Idle EXCEPT !.left = l, !.got = g]
<1>1. /\ c = started + 1 /\ started' = c /\ Enter(c, w, 0)
      /\ UNCHANGED <<cmds, chunk, table>>
  BY DEF OCSubmit
<1>2. ProgramInv /\ WorkInv /\ QueueInv /\ RouteInv /\ StoreInv /\ started \in Nat
  BY DEF OCInv, RouteInv
<1>3. IsWork(w) /\ w.left = l
  <2> HIDE DEF l, g
  <2> DEFINE v == Idle
             a == [v EXCEPT !.left = l]
  <2>1. IsWork(v)
    BY DEF IsWork, Idle
  <2>2. w = [a EXCEPT !.got = g]
    OBVIOUS
  <2> HIDE DEF v
  <2>3. a = [left |-> l, mask |-> v.mask, pages |-> v.pages, got |-> v.got,
             entries |-> v.entries]
    BY <2>1 DEF IsWork
  <2> HIDE DEF a, w
  <2>4. w = [left |-> l, mask |-> v.mask, pages |-> v.pages, got |-> g,
             entries |-> v.entries]
    BY <2>2, <2>3
  <2> QED
    BY <2>4 DEF IsWork
<1> HIDE DEF w
<1>4. work[c].left = <<>>
  BY <1>1, <1>2 DEF RouteInv
<1>5. /\ WorkInv' /\ QueueInv'
      /\ work'[c] = w /\ \A d \in DOMAIN cmds : d # c => work'[d] = work[d]
  BY <1>1, <1>2, <1>3, <1>4, EnterKeeps DEF AtFlash
<1>6. cmds[c].op = "vwrite" => l \in VectorRoute
  <2> SUFFICES ASSUME cmds[c].op = "vwrite" PROVE l \in VectorRoute
    OBVIOUS
  <2>1. "vwrite" \in DOMAIN Route20 /\ "vwrite" \notin DOMAIN Route12
        /\ Route20["vwrite"] = vectorChunkWrite
    BY DEF Route20, Route12
  <2>2. l = vectorChunkWrite
    BY <2>1 DEF Route
  <2> QED
    BY <2>2 DEF vectorChunkWrite, VectorRoute
<1>7. DOMAIN cmds \subseteq Nat
  BY <1>2 DEF ProgramInv
<1> HIDE DEF l
<1>8. RouteInv'
  BY <1>1, <1>2, <1>3, <1>5, <1>6, <1>7 DEF RouteInv
<1>9. StoreInv'
  <2> SUFFICES ASSUME NEW b \in DOMAIN table
               PROVE  /\ table[b] \in DOMAIN cmds
                      /\ cmds[table[b]].op = "vwrite" =>
                           /\ work'[table[b]].left = <<>> /\ table[b] <= started'
                           /\ b \in MayStore(cmds[table[b]].lbas, work'[table[b]].mask)
    BY <1>1 DEF StoreInv
  <2> DEFINE d == table[b]
  <2>1. d \in DOMAIN cmds /\ (cmds[d].op = "vwrite" =>
          work[d].left = <<>> /\ d <= started /\ b \in MayStore(cmds[d].lbas, work[d].mask))
    BY <1>2 DEF StoreInv
  <2> HIDE DEF d
  <2>2. cmds[d].op = "vwrite" => d # c /\ d <= started'
    BY <1>1, <1>2, <1>7, <2>1
  <2>3. /\ d \in DOMAIN cmds
        /\ cmds[d].op = "vwrite" => /\ work'[d].left = <<>> /\ d <= started'
                                    /\ b \in MayStore(cmds[d].lbas, work'[d].mask)
    BY <1>5, <2>1, <2>2
  <2> QED
    BY <2>3 DEF d
<1>10. ProgramInv'
  BY <1>1, <1>2 DEF ProgramInv
<1> QED
  BY <1>5, <1>8, <1>9, <1>10 DEF OCInv

(* A step of a command keeps the invariant.                                *)
LEMMA ProceedKeeps ==
  ASSUME OCSane, OCInv, NEW c \in DOMAIN cmds, Proceed(c)
  PROVE  OCInv'
<1>1. ProgramInv /\ WorkInv /\ QueueInv /\ RouteInv /\ StoreInv /\ started \in Nat
  BY DEF OCInv, RouteInv
<1>2. /\ work[c].left # <<>> /\ Head(work[c].left) # "nand" /\ UNCHANGED <<cmds, started>>
      /\ Effect(c, Head(work[c].left))
  BY DEF Proceed, AtRest
<1>3. Moves(c)
  BY <1>1, <1>2, EffectMoves DEF WorkInv
<1>4. ProgramInv'
  BY <1>1, <1>2, <1>3 DEF ProgramInv, Moves
<1>5. PICK w, n : /\ Enter(c, w, n) /\ IsWork(w) /\ w.left = Tail(work[c].left)
                  /\ cmds[c].op = "vwrite" /\ Head(work[c].left) = "data" =>
                       w.mask = work[c].mask
  BY <1>3 DEF Moves, Advances
<1>6. /\ WorkInv' /\ QueueInv'
      /\ work'[c] = w /\ \A d \in DOMAIN cmds : d # c => work'[d] = work[d]
  BY <1>1, <1>2, <1>5, EnterKeeps DEF AtFlash
<1>7. DOMAIN cmds \subseteq Nat
  BY <1>1 DEF ProgramInv
<1>8. c <= started
  BY <1>1, <1>2, <1>7 DEF RouteInv
<1>9. cmds[c].op = "vwrite" =>
        w.left \in VectorRoute /\ (Head(work[c].left) = "data" => w.left = <<>>)
  BY <1>1, <1>2, <1>5, VectorRouteTail DEF RouteInv
<1>10. RouteInv'
  <2> SUFFICES ASSUME NEW d \in DOMAIN cmds
               PROVE  /\ d > started => work'[d].left = <<>>
                      /\ cmds[d].op = "vwrite" => work'[d].left \in VectorRoute
    BY <1>1, <1>2 DEF RouteInv
  <2>1. CASE d = c
    BY <1>1, <1>6, <1>7, <1>8, <1>9, <2>1
  <2>2. CASE d # c
    BY <1>1, <1>6, <2>2 DEF RouteInv
  <2> QED
    BY <2>1, <2>2
<1>11. StoreInv'
  <2> SUFFICES ASSUME NEW b \in DOMAIN table'
               PROVE  /\ table'[b] \in DOMAIN cmds
                      /\ cmds[table'[b]].op = "vwrite" =>
                           /\ work'[table'[b]].left = <<>> /\ table'[b] <= started
                           /\ b \in MayStore(cmds[table'[b]].lbas, work'[table'[b]].mask)
    BY <1>2 DEF StoreInv, MayStore
  <2>1. CASE b \in DOMAIN table /\ table'[b] = table[b]
    <3> DEFINE d == table[b]
    <3>1. d \in DOMAIN cmds /\ (cmds[d].op = "vwrite" =>
            work[d].left = <<>> /\ d <= started /\ b \in MayStore(cmds[d].lbas, work[d].mask))
      BY <1>1, <2>1 DEF StoreInv
    <3>2. table'[b] = d
      BY <2>1
    <3> HIDE DEF d
    <3>3. cmds[d].op = "vwrite" => d # c
      BY <1>2, <3>1
    <3> QED
      BY <1>6, <3>1, <3>2, <3>3
  <2>2. CASE /\ table'[b] = c
             /\ cmds[c].op = "vwrite" =>
                  /\ Head(work[c].left) = "data"
                  /\ b \in MayStore(cmds[c].lbas, work[c].mask)
    BY <1>5, <1>6, <1>8, <1>9, <2>2
  <2> QED
    BY <1>3, <2>1, <2>2 DEF Moves, KeepsWork
<1> QED
  BY <1>4, <1>6, <1>10, <1>11 DEF OCInv

(* The completion event keeps the invariant: it moves on the commands it   *)
(* finds due, each of which has one entry.                                 *)
LEMMA CompletionKeeps ==
  ASSUME OCSane, OCInv, Completion
  PROVE  OCInv'
<1> DEFINE due == {e \in queue : e.at <= now}
           Due(c) == \E e \in due : e.cmd = c
           G(c) == CASE cmds[c].op = "read20" -> Load(Blocks(c))
                     [] cmds[c].op = "vread" -> Load(cmds[c].lbas)
                     [] OTHER -> work[c].got
           N(c) == [work[c] EXCEPT !.left = Tail(@), !.got = G(c)]
<1>1. ProgramInv /\ WorkInv /\ QueueInv /\ RouteInv /\ StoreInv /\ started \in Nat
  BY DEF OCInv, RouteInv
<1>2. /\ queue' = queue \ due /\ UNCHANGED <<cmds, started, chunk, table>>
      /\ work' = [c \in DOMAIN work |-> IF Due(c) THEN N(c) ELSE work[c]]
  BY DEF Completion
<1>3. ASSUME NEW c \in DOMAIN cmds
      PROVE  /\ IsWork(N(c)) /\ N(c).left = Tail(work[c].left) /\ N(c).mask = work[c].mask
  <2> DEFINE w == work[c]
             g == G(c)
             l == Tail(w.left)
             a == [w EXCEPT !.left = l]
  <2>1. IsWork(w)
    BY <1>1 DEF WorkInv
  <2>2. N(c) = [a EXCEPT !.got = g]
    OBVIOUS
  <2> HIDE DEF w, g, l, N, G
  <2>3. a = [left |-> l, mask |-> w.mask, pages |-> w.pages, got |-> w.got,
             entries |-> w.entries]
    BY <2>1 DEF IsWork
  <2> HIDE DEF a
  <2>4. N(c) = [left |-> l, mask |-> w.mask, pages |-> w.pages, got |-> g,
                entries |-> w.entries]
    BY <2>2, <2>3
  <2> QED
    BY <2>4 DEF IsWork, l, w
<1> HIDE DEF N, G
<1>4. \A c \in DOMAIN cmds : work'[c] = IF Due(c) THEN N(c) ELSE work[c]
  BY <1>1, <1>2 DEF WorkInv
<1>5. WorkInv'
  <2>1. DOMAIN work' = DOMAIN cmds
    BY <1>1, <1>2 DEF WorkInv
  <2>2. \A c \in DOMAIN cmds : IsWork(work[c])
    BY <1>1 DEF WorkInv
  <2>3. \A c \in DOMAIN cmds : IsWork(work'[c])
    <3> HIDE DEF due
    <3> QED
      BY <1>3, <1>4, <2>2
  <2> QED
    BY <1>2, <2>1, <2>3 DEF WorkInv
<1>6. \A c : Due(c) => c \in DOMAIN cmds /\ AtFlash(c)
  BY <1>1 DEF QueueInv
<1>7. \A e \in queue' : e \in queue /\ ~Due(e.cmd)
  BY <1>1, <1>2 DEF QueueInv
<1> HIDE DEF due, Due
<1>8. QueueInv'
  <2>1. \A e \in queue' : e.cmd \in DOMAIN cmds /\ AtFlash(e.cmd) /\ work'[e.cmd] = work[e.cmd]
    BY <1>1, <1>4, <1>7 DEF QueueInv
  <2>2. \A e, f \in queue' : e.cmd = f.cmd => e = f
    BY <1>1, <1>7 DEF QueueInv
  <2> QED
    BY <1>2, <2>1, <2>2 DEF QueueInv, AtFlash
<1>9. RouteInv'
  <2> SUFFICES ASSUME NEW d \in DOMAIN cmds
               PROVE  /\ d > started => work'[d].left = <<>>
                      /\ cmds[d].op = "vwrite" => work'[d].left \in VectorRoute
    BY <1>1, <1>2 DEF RouteInv
  <2>1. CASE Due(d)
    <3>1. work[d].left # <<>> /\ work'[d].left = Tail(work[d].left)
      BY <1>3, <1>4, <1>6, <2>1 DEF AtFlash
    <3> QED
      BY <1>1, <3>1, VectorRouteTail DEF RouteInv
  <2>2. CASE ~Due(d)
    BY <1>1, <1>4, <2>2 DEF RouteInv
  <2> QED
    BY <2>1, <2>2
<1>10. StoreInv'
  <2> SUFFICES ASSUME NEW b \in DOMAIN table
               PROVE  /\ table[b] \in DOMAIN cmds
                      /\ cmds[table[b]].op = "vwrite" =>
                           /\ work'[table[b]].left = <<>> /\ table[b] <= started
                           /\ b \in MayStore(cmds[table[b]].lbas, work'[table[b]].mask)
    BY <1>2 DEF StoreInv, MayStore
  <2> DEFINE d == table[b]
  <2>1. d \in DOMAIN cmds /\ (cmds[d].op = "vwrite" =>
          work[d].left = <<>> /\ d <= started /\ b \in MayStore(cmds[d].lbas, work[d].mask))
    BY <1>1 DEF StoreInv
  <2> HIDE DEF d
  <2>2. cmds[d].op = "vwrite" => ~Due(d)
    BY <1>6, <2>1 DEF AtFlash
  <2>3. cmds[d].op = "vwrite" => work'[d] = work[d]
    BY <1>4, <2>1, <2>2
  <2>4. /\ d \in DOMAIN cmds
        /\ cmds[d].op = "vwrite" => /\ work'[d].left = <<>> /\ d <= started
                                    /\ b \in MayStore(cmds[d].lbas, work'[d].mask)
    BY <2>1, <2>3
  <2> QED
    BY <2>4 DEF d
<1>11. ProgramInv'
  BY <1>1, <1>2 DEF ProgramInv
<1> QED
  BY <1>5, <1>8, <1>9, <1>10, <1>11 DEF OCInv

(* Every step keeps the invariant.                                         *)
LEMMA OCKeeps ==
  ASSUME OCSane, OCInv, [OCNext]_ocvars
  PROVE  OCInv'
<1>1. ASSUME UNCHANGED <<cmds, started, chunk, table, work, queue>>
      PROVE  OCInv'
  BY <1>1 DEF OCInv, ProgramInv, WorkInv, QueueInv, RouteInv, StoreInv, AtFlash, MayStore, Beyond, Stored
<1>2. CASE UNCHANGED ocvars
  BY <1>1, <1>2 DEF ocvars
<1>3. ASSUME NEW c \in DOMAIN cmds, OCSubmit(c) PROVE OCInv'
  BY <1>3, SubmitKeeps
<1>4. ASSUME NEW c \in DOMAIN cmds, Proceed(c) PROVE OCInv'
  BY <1>4, ProceedKeeps
<1>5. CASE Completion
  BY <1>5, CompletionKeeps
<1>6. CASE Tick
  BY <1>1, <1>6 DEF Tick
<1>7. ASSUME NEW c \in DOMAIN cmds, WrongContext(c) PROVE OCInv'
  BY <1>1, <1>7 DEF WrongContext
<1>8. CASE Done
  BY <1>1, <1>8 DEF Done, ocvars
<1> QED
  BY <1>2, <1>3, <1>4, <1>5, <1>6, <1>7, <1>8 DEF OCNext, OCStep

(* Pages of a chunk are programmed once between two resets, in ascending   *)
(* order, and a chunk is closed exactly when its last page is programmed,  *)
(* for every geometry and whatever vector and plain commands overlap       *)
(* (OpenChannelSSD20::writeInternal and eraseInternal).                    *)
THEOREM PagesProgrammedOnce ==
  ASSUME OCSane
  PROVE  OCSpec => []ProgramOnce
<1>1. OCInit => OCInv
  BY OCInitially
<1>2. OCInv /\ [OCNext]_ocvars => OCInv'
  BY OCKeeps
<1>3. OCInv => ProgramOnce
  <2> SUFFICES ASSUME OCInv, NEW k \in DOMAIN chunk
               PROVE  LET p == chunk[k].programs IN
                      /\ \A i, j \in DOMAIN p : i < j => p[i] < p[j]
                      /\ chunk[k].state = "CLOSED" <=> (p # <<>> /\ Last(p) = Pages - 1)
    BY DEF ProgramOnce
  <2>1. chunk[k] \in GoodChunk
    BY DEF OCInv, ProgramInv, GoodChunks
  <2> DEFINE d == chunk[k]
             p == d.programs
  <2> HIDE DEF d
  <2>2. d \in GoodChunk /\ d \in ChunkTypes
    BY <2>1 DEF d, GoodChunk
  <2>3. Last(p) = p[Len(p)]
    BY DEF Last
  <2>4. Pages \in Nat
    BY DEF OCSane
  <2>5. p # <<>> => p[Len(p)] \in 0..(Pages - 1)
    <3>1. p \in Seq(0..(Pages - 1))
      BY <2>2 DEF ChunkTypes
    <3> HIDE DEF p
    <3> QED
      BY <2>4, <3>1
  <2>6. d.state = "CLOSED" <=> (p # <<>> /\ p[Len(p)] = Pages - 1)
    <3>1. CASE d.state = "CLOSED"
      BY <2>2, <3>1 DEF GoodChunk
    <3>2. CASE d.state = "OPEN"
      <4>1. p # <<>> /\ p[Len(p)] < Pages - 1
        BY <2>2, <3>2 DEF GoodChunk
      <4> QED
        BY <3>2, <2>4, <2>5, <4>1
    <3>3. CASE d.state = "FREE"
      <4>1. p = <<>>
        BY <2>2, <3>3 DEF GoodChunk
      <4> QED
        BY <3>3, <4>1
    <3> QED
      BY <2>2, <3>1, <3>2, <3>3 DEF ChunkTypes
  <2>7. \A i, j \in DOMAIN p : i < j => p[i] < p[j]
    BY <2>2 DEF GoodChunk
  <2> QED
    BY <2>3, <2>6, <2>7 DEF d
<1> QED
  BY <1>1, <1>2, <1>3, PTL DEF OCSpec

(* A vector write never stores one of the first 32 blocks of its list that *)
(* it refused, whatever the other commands in flight write, erase and      *)
(* reset meanwhile and whatever the shifts past an int's width give: the   *)
(* mask that writeInternal made stays with the command until its data      *)
(* arrives (vectorChunkWrite).                                             *)
THEOREM RefusedNotStored ==
  ASSUME OCSane
  PROVE  OCSpec => []StoredIsAccepted
<1>1. OCInit => OCInv
  BY OCInitially
<1>2. OCInv /\ [OCNext]_ocvars => OCInv'
  BY OCKeeps
<1>3. OCInv => StoredIsAccepted
  <2> SUFFICES ASSUME OCInv, NEW c \in DOMAIN cmds, cmds[c].op = "vwrite",
                      NEW i \in DOMAIN cmds[c].lbas, i \in work[c].mask, i <= IntBits,
                      cmds[c].lbas[i] \in DOMAIN table, table[cmds[c].lbas[i]] = c
               PROVE  \E j \in DOMAIN cmds[c].lbas :
                        /\ j \notin work[c].mask \/ j > IntBits
                        /\ cmds[c].lbas[j] = cmds[c].lbas[i]
    BY DEF StoredIsAccepted
  <2> DEFINE b == cmds[c].lbas[i]
             lbas == cmds[c].lbas
             mask == work[c].mask
  <2>1. b \in MayStore(lbas, mask)
    BY DEF OCInv, StoreInv
  <2>2. PICK j \in DOMAIN lbas : /\ lbas[j] = b
                                /\ \/ j \in Beyond(lbas)
                                   \/ j \notin Beyond(lbas) /\ Tested(j) \intersect mask = {}
    BY <2>1 DEF MayStore, Stored, Beyond
  <2>3. CASE j \in Beyond(lbas)
    BY <2>2, <2>3 DEF Beyond
  <2>4. CASE j \notin Beyond(lbas) /\ Tested(j) \intersect mask = {}
    <3>1. cmds[c].lbas \in Seq(Nat)
      BY CommandFields DEF OCInv
    <3>2. j \in Nat /\ j <= IntBits
      BY <2>4, <3>1 DEF Beyond, IntBits
    <3>3. j \in Tested(j)
      BY <3>2 DEF Tested, IntBits, VectorLimit
    <3> QED
      BY <2>2, <2>4, <3>3
  <2> QED
    BY <2>2, <2>3, <2>4
<1> QED
  BY <1>1, <1>2, <1>3, PTL DEF OCSpec
=============================================================================
