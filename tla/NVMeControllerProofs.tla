------------------------ MODULE NVMeControllerProofs ------------------------
(***************************************************************************)
(* What holds of the controller for any queue size, any users, any number  *)
(* of commands and any plan of the host that uses the number of a queue    *)
(* once: the invariant, and Signalled.  EachOnce and NoPanic are in        *)
(* NVMeControllerCountProofs.                                              *)
(*                                                                         *)
(* The invariant has two halves.  FrontInv is about the host, the rings    *)
(* and transfers of submission entries and the staged and running entries; *)
(* BackInv about the completion rings, the transfers into them and the     *)
(* interrupts.  Both hold until the controller uses a deleted queue or     *)
(* panics (broken); no action is enabled after that.                       *)
(***************************************************************************)
EXTENDS NVMeController, FiniteSetTheorems, WellFoundedInduction, TLAPS

-----------------------------------------------------------------------------
(* The invariant *)

Cmds == 1..Len(cmd)
IOCommand == [op |-> "io"]
Commands == [q : Queues, op : Plans \union {IOCommand}, uid : Users]

Registers == [ready : BOOLEAN, shutdown : BOOLEAN, touched : BOOLEAN,
              arbitration : {"RR", "WRR"}, limit : 0..MaxCommands]

(* The host follows the plan of one scenario.                              *)
PlanInv ==
  \E s \in Scenarios :
    /\ plan \subseteq s.plan /\ registers.limit = s.limit
    /\ \A c \in Cmds : IF cmd[c].q = 0 THEN cmd[c].op \in s.plan
                       ELSE cmd[c].op = IOCommand

Planned(op) == \E c \in Cmds : cmd[c].op = op
DeletesSQ(q) == Planned([op |-> "deleteSQ", q |-> q])
DeletesCQ(q) == Planned([op |-> "deleteCQ", q |-> q])

HostInv ==
  /\ registers \in Registers
  /\ cmd \in Seq(Commands) /\ Len(cmd) <= registers.limit
  /\ answers \in [1..MaxCommands -> Nat]
  /\ \A c \in 1..MaxCommands : c \notin Cmds => answers[c] = 0
  /\ gone \subseteq Cmds /\ twice \subseteq Cmds /\ coalesced \subseteq Vectors
  /\ host = [up |-> host.up, head |-> host.head, phase |-> host.phase]
  /\ host.head = [q \in Queues |-> host.head[q]]
  /\ host.phase \in [Queues -> BOOLEAN]
  /\ \A q \in host.up : q \in Queues /\ sq[q].live /\ ~DeletesSQ(q)

(* Submission queues: what a slot holds was submitted to this queue, and   *)
(* waiting and fetched slots hold something.                               *)
SQs == [live : BOOLEAN, head : Slots, tail : Slots, cqID : Queues,
        priority : {URGENT, MEDIUM, LOW}, mem : [Slots -> Nat]]
SQInv ==
  /\ sq \in [Queues -> SQs] /\ sq[0].live /\ sq[0].cqID = 0
  /\ \A q \in Queues, i \in Slots :
       /\ sq[q].mem[i] # 0 => sq[q].mem[i] \in Cmds /\ cmd[sq[q].mem[i]].q = q
       /\ Occupied(sq[q], i) => sq[q].mem[i] # 0
  /\ \A c \in Cmds : sq[cmd[c].q].live \/ DeletesSQ(cmd[c].q)

FetchInv ==
  /\ fetching \in Seq([q : Queues, at : Slots, last : BOOLEAN])
  /\ \A i \in DOMAIN fetching : sq[fetching[i].q].mem[fetching[i].at] # 0

(* The entries in the controller.                                          *)
Entries == [c : Nat, sq : Queues, cq : Queues, head : Slots]
IsEntry(e) == e.c \in Cmds /\ e.sq = cmd[e.c].q /\ e.cq = sq[e.sq].cqID
Created(c) == cmd[c].op.op = "createSQ" => sq[cmd[c].op.q].live
EntryInv ==
  /\ lSQByUser \in [Users -> Seq(Entries)] /\ rrUsers \in Seq(Users)
  /\ uidSQMap \in [Users -> SUBSET Queues]
  /\ \A u \in Users : \A i \in DOMAIN lSQByUser[u] :
       IsEntry(lSQByUser[u][i]) /\ cmd[lSQByUser[u][i].c].uid = u
  /\ lSQFIFO \in Seq(Entries) /\ \A i \in DOMAIN lSQFIFO : IsEntry(lSQFIFO[i])
  /\ running \subseteq Entries /\ \A e \in running : IsEntry(e)
  /\ IsFiniteSet(running)
  /\ lCQFIFO \in Seq(Entries)
  /\ \A i \in DOMAIN lCQFIFO : IsEntry(lCQFIFO[i]) /\ Created(lCQFIFO[i].c)

(* Completion queues.  A slot of a live queue has the phase the host       *)
(* expects exactly when it holds an answer that has been written.          *)
Slips == [c : {0}, phase : BOOLEAN] \union
         [c : Nat, sq : Queues, head : Slots, phase : BOOLEAN]
CQs == [live : BOOLEAN, head : Slots, tail : Slots, phase : BOOLEAN,
        iv : Vectors, ien : {TRUE}, mem : [Slots -> Slips]]
Writes == [cq : Queues, at : Slots,
           val : [c : Nat, sq : Queues, head : Slots, phase : BOOLEAN]]
Expected(q, i) == IF cq[q].head <= i THEN host.phase[q] ELSE ~host.phase[q]
Answers(c, q) == c \in Cmds /\ sq[cmd[c].q].cqID = q /\ Created(c)
Written(q, i) == Occupied(cq[q], i) /\ ~Unwritten(q, i)
CQInv ==
  /\ cq \in [Queues -> CQs]
  /\ \A q \in Queues :
       IF cq[q].live
       THEN /\ cq[q].phase = IF cq[q].head <= cq[q].tail THEN host.phase[q]
                             ELSE ~host.phase[q]
            /\ \A i \in Slots :
                 /\ (cq[q].mem[i].phase = Expected(q, i)) <=> Written(q, i)
                 /\ Written(q, i) => Answers(cq[q].mem[i].c, q)
       ELSE DeletesCQ(q) \/ host.phase[q]

PostInv ==
  /\ posting \in Seq([write : Writes, last : BOOLEAN, ivs : SUBSET Vectors])
  /\ sending \in Seq(SUBSET Vectors) /\ intr \subseteq Vectors
  /\ \A j \in DOMAIN posting :
       LET w == posting[j].write IN
       /\ Answers(w.val.c, w.cq)
       /\ IF cq[w.cq].live
          THEN Occupied(cq[w.cq], w.at) /\ w.val.phase = Expected(w.cq, w.at)
          ELSE DeletesCQ(w.cq)
       /\ \A k \in DOMAIN posting :
            posting[k].write.cq = w.cq /\ posting[k].write.at = w.at => k = j

(* Interrupts.                                                             *)
Aggregations == [valid : BOOLEAN, pending : BOOLEAN, count : Nat, timed : BOOLEAN]
Coming(v) == \/ v \in intr
             \/ \E i \in DOMAIN posting : v \in posting[i].ivs
             \/ \E i \in DOMAIN sending : v \in sending[i]
SignalInv ==
  /\ aggregation \in [Vectors -> Aggregations]
  /\ \A v \in Vectors : aggregation[v].valid => v \in coalesced
  /\ \A j \in DOMAIN posting :
       /\ posting[j].ivs # {} => posting[j].last
       /\ LET q == posting[j].write.cq IN
          cq[q].live /\ cq[q].iv \notin coalesced =>
            \E k \in DOMAIN posting : j <= k /\ cq[q].iv \in posting[k].ivs
  /\ \A q \in Queues, i \in Slots :
       cq[q].live /\ cq[q].iv \notin coalesced /\ Written(q, i) =>
         Coming(cq[q].iv)

-----------------------------------------------------------------------------
(* Loops *)

(* Every nonempty set of natural numbers has a least element.              *)
LEMMA NatLeast ==
  ASSUME NEW S, S \subseteq Nat, S # {}
  PROVE  \E i \in S : \A j \in S : i <= j
<1>1. PICK i \in S : \A j \in S : ~ (<<j, i>> \in OpToRel(<, Nat))
  BY NatLessThanWellFounded, WFMin
<1>2. \A j \in S : ~ (j < i)
  BY <1>1 DEF OpToRel
<1> QED
  BY <1>2

(* A set that holds 0 and the successor of each of its members below n     *)
(* holds everything up to n.                                               *)
LEMMA UpTo ==
  ASSUME NEW n \in Nat, NEW G, 0 \in G, \A k \in 1..n : k - 1 \in G => k \in G
  PROVE  0..n \subseteq G
<1> DEFINE Bad == {k \in 0..n : k \notin G}
<1>1. SUFFICES ASSUME Bad # {} PROVE FALSE
  OBVIOUS
<1>2. Bad \subseteq Nat
  OBVIOUS
<1>3. PICK k \in Bad : \A j \in Bad : k <= j
  <2> HIDE DEF Bad
  <2> QED
    BY <1>1, <1>2, NatLeast
<1>4. k \in 1..n /\ k - 1 \in 0..n /\ k \notin G /\ ~ (k <= k - 1)
  BY <1>3
<1>5. k - 1 \in G
  BY <1>3, <1>4
<1> QED
  BY <1>4, <1>5

(* A loop of n turns that starts with b in S, and whose turn k takes x in  *)
(* S to g[k][x] in S; and a run of it.                                     *)
IsLoop(n, S, b, g) == n \in Nat /\ b \in S /\ g \in [1..n -> [S -> S]]
IsRun(f, n, S, b, g) ==
  f \in [0..n -> S] /\ f[0] = b /\ \A k \in 1..n : f[k] = g[k][f[k - 1]]

(* Every loop has a run, by extending a shorter one.                       *)
LEMMA RunExists ==
  ASSUME NEW n, NEW S, NEW b, NEW g, IsLoop(n, S, b, g)
  PROVE  \E f : IsRun(f, n, S, b, g)
<1> USE DEF IsLoop, IsRun
<1> DEFINE Run(f, m) == /\ f \in [0..m -> S] /\ f[0] = b
                        /\ \A k \in 1..m : f[k] = g[k][f[k - 1]]
           G == {m \in 0..n : \E f : Run(f, m)}
<1>1. 0 \in G
  <2> DEFINE f == [k \in 0..0 |-> b]
  <2>1. Run(f, 0)
    OBVIOUS
  <2> HIDE DEF f
  <2> QED
    BY <2>1
<1>2. ASSUME NEW m \in 1..n, m - 1 \in G PROVE m \in G
  <2>1. PICK f : Run(f, m - 1)
    BY <1>2
  <2> DEFINE h == [k \in 0..m |-> IF k = m THEN g[m][f[m - 1]] ELSE f[k]]
  <2>2. f[m - 1] \in S /\ f[0] = b /\ \A k \in 0..(m - 1) : f[k] \in S
    BY <2>1
  <2>3. g[m][f[m - 1]] \in S
    BY <2>2
  <2>4. h \in [0..m -> S]
    BY <2>2, <2>3
  <2>5. h[0] = b
    BY <2>2
  <2>6. \A k \in 1..m : h[k] = g[k][h[k - 1]]
    BY <2>1
  <2> HIDE DEF h
  <2> QED
    BY <2>4, <2>5, <2>6
<1>3. 0..n \subseteq G
  <2> HIDE DEF G
  <2> QED
    BY <1>1, <1>2, UpTo
<1>4. n \in G
  BY <1>3
<1>5. PICK f : Run(f, n)
  BY <1>4
<1> QED
  BY <1>5

(* A loop that starts in S and leaves it in no turn stays in S.            *)
LEMMA StaysIn ==
  ASSUME NEW n \in Nat, NEW S, NEW f, f[0] \in S,
         \A k \in 1..n : f[k - 1] \in S => f[k] \in S
  PROVE  \A k \in 0..n : f[k] \in S
<1> DEFINE G == {k \in 0..n : f[k] \in S}
<1>1. 0 \in G
  OBVIOUS
<1>2. \A k \in 1..n : k - 1 \in G => k \in G
  OBVIOUS
<1>3. 0..n \subseteq G
  <2> HIDE DEF G
  <2> QED
    BY <1>1, <1>2, UpTo
<1> QED
  BY <1>3

-----------------------------------------------------------------------------
(* Rings *)

(* The constants.                                                          *)
LEMMA Sizes ==
  /\ QueueSize \in Nat /\ QueueSize > 1 /\ Start \in Slots
  /\ 0 \in Users /\ Users \subseteq Nat /\ MaxCommands \in Nat
  /\ Queues = {0, 1, 2} /\ Vectors = {0, 1} /\ Slots \subseteq Nat
<1>1. MaxCommands \in Nat
  BY ControllerAssumption
<1> QED
  BY <1>1, ControllerAssumption DEF Queues, Vectors, Slots

(* Remainders of sums below twice the queue size.                          *)
LEMMA Wrap ==
  ASSUME NEW n \in 0..(2 * QueueSize - 1)
  PROVE  n % QueueSize = IF n < QueueSize THEN n ELSE n - QueueSize
<1>1. QueueSize \in Nat /\ QueueSize > 0
  BY Sizes
<1>2. CASE n < QueueSize
  BY <1>1, <1>2
<1>3. CASE n >= QueueSize
  <2> DEFINE m == n - QueueSize
  <2>1. m \in 0..(QueueSize - 1) /\ n = m + 1 * QueueSize
    BY <1>1, <1>3
  <2>2. (m + 1 * QueueSize) % QueueSize = m
    BY <1>1, <2>1
  <2> QED
    BY <1>1, <1>3, <2>1, <2>2
<1> QED
  BY <1>1, <1>2, <1>3

(* The next slot.                                                          *)
LEMMA IncFact ==
  ASSUME NEW i \in Slots
  PROVE  Inc(i) \in Slots /\ Inc(i) = IF i = QueueSize - 1 THEN 0 ELSE i + 1
<1>1. i + 1 \in 0..(2 * QueueSize - 1)
  BY Sizes DEF Slots
<1> DEFINE n == i + 1
<1>2. n % QueueSize = IF n < QueueSize THEN n ELSE n - QueueSize
  <2> HIDE DEF n
  <2> QED
    BY <1>1, Wrap DEF n
<1> QED
  BY <1>2, Sizes DEF Inc, Slots

-----------------------------------------------------------------------------
(* Counting *)

(* Positions moved up by m.                                                *)
Shifted(m, n, B) == {i \in (m + 1)..(m + n) : i - m \in B}

(* A finite set with as many elements as two others have together.         *)
AddsUp(C, A, B) == /\ IsFiniteSet(C)
                   /\ Cardinality(A) \in Nat /\ Cardinality(B) \in Nat
                   /\ Cardinality(C) = Cardinality(A) + Cardinality(B)

(* A set of positions, moved up, behind another one.                       *)
LEMMA CountBehind ==
  ASSUME NEW m \in Nat, NEW n \in Nat, 
         NEW A \in SUBSET (1..m), NEW B \in SUBSET (1..n)
  PROVE  AddsUp(A \union Shifted(m, n, B), A, B)
<1> DEFINE D == {i \in (m + 1)..(m + n) : i - m \in B}
           f == [b \in B |-> b + m]
<1>1. IsFiniteSet(A) /\ IsFiniteSet(B)
  <2>1. IsFiniteSet(1..m) /\ IsFiniteSet(1..n)
    BY FS_Interval
  <2> QED
    BY <2>1, FS_Subset
<1>2. f \in Bijection(B, D)
  <2>1. f \in [B -> D]
    OBVIOUS
  <2>2. \A a, b \in B : f[a] = f[b] => a = b
    OBVIOUS
  <2>3. \A d \in D : \E b \in B : f[b] = d
    <3> SUFFICES ASSUME NEW d \in D PROVE \E b \in B : f[b] = d
      OBVIOUS
    <3>1. d - m \in B /\ f[d - m] = d
      OBVIOUS
    <3> QED
      BY <3>1
  <2> QED
    BY <2>1, <2>2, <2>3 DEF Bijection, Injection, Surjection, IsInjective
<1>3. ExistsBijection(B, D)
  BY <1>2 DEF ExistsBijection
<1>4. IsFiniteSet(D) /\ Cardinality(D) = Cardinality(B)
  BY <1>1, <1>3, FS_Bijection
<1>5. A \cap D = {}
  OBVIOUS
<1>6. IsFiniteSet(A \union D)
      /\ Cardinality(A \union D) = Cardinality(A) + Cardinality(D) - Cardinality(A \cap D)
  <2> HIDE DEF D
  <2> QED
    BY <1>1, <1>4, FS_Union
<1>7. Cardinality(A) \in Nat /\ Cardinality(B) \in Nat /\ Cardinality({}) = 0
  BY <1>1, FS_CardinalityType, FS_EmptySet
<1> HIDE DEF D
<1>8. IsFiniteSet(A \union D) /\ Cardinality(A \union D) = Cardinality(A) + Cardinality(B)
  BY <1>4, <1>5, <1>6, <1>7
<1> QED
  BY <1>7, <1>8 DEF D, Shifted, AddsUp

(* Positions moved down, without the first.                                *)
Lowered(n, A) == {i \in 1..(n - 1) : i + 1 \in A}
TakesOff(A, B) ==
  /\ IsFiniteSet(B) /\ Cardinality(B) \in Nat
  /\ Cardinality(A) = Cardinality(B) + IF 1 \in A THEN 1 ELSE 0

(* A set of positions without the first, moved down.                       *)
LEMMA CountTail ==
  ASSUME NEW n \in Nat, n > 0, NEW A \in SUBSET (1..n)
  PROVE  TakesOff(A, Lowered(n, A))
<1> DEFINE B == {i \in 1..(n - 1) : i + 1 \in A}
           F == A \cap {1}
           C == F \union {i \in (1 + 1)..(1 + (n - 1)) : i - 1 \in B}
<1>1. F \subseteq 1..1 /\ B \subseteq 1..(n - 1) /\ n - 1 \in Nat /\ 1 \in Nat
  OBVIOUS
<1>2. Cardinality(C) = Cardinality(F) + Cardinality(B)
  <2> DEFINE k == n - 1
             o == 1
  <2>1. k \in Nat /\ o \in Nat /\ F \in SUBSET (1..o) /\ B \in SUBSET (1..k)
    OBVIOUS
  <2> HIDE DEF F, B, k, o
  <2>2. AddsUp(F \union Shifted(o, k, B), F, B)
    BY <2>1, CountBehind
  <2> QED
    BY <2>2 DEF k, o, Shifted, AddsUp
<1>3. C = A
  <2>1. ASSUME NEW x \in A PROVE x \in C
    <3>1. CASE x = 1
      BY <3>1
    <3>2. CASE x # 1
      <4>1. x \in 2..n /\ x - 1 \in 1..(n - 1) /\ (x - 1) + 1 = x
        BY <3>2
      <4> QED
        BY <4>1
    <3> QED
      BY <3>1, <3>2
  <2>2. ASSUME NEW x \in C PROVE x \in A
    <3>1. CASE x \in F
      BY <3>1
    <3>2. CASE x \notin F
      <4>1. x \in 2..n /\ (x - 1) + 1 \in A /\ (x - 1) + 1 = x
        BY <3>2
      <4> QED
        BY <4>1
    <3> QED
      BY <3>1, <3>2
  <2> QED
    BY <2>1, <2>2
<1>4. Cardinality(F) = IF 1 \in A THEN 1 ELSE 0
  <2>1. CASE 1 \in A
    <3>1. F = {1}
      BY <2>1
    <3> QED
      BY <3>1, <2>1, FS_Singleton
  <2>2. CASE 1 \notin A
    <3>1. F = {}
      BY <2>2
    <3> QED
      BY <3>1, <2>2, FS_EmptySet
  <2> QED
    BY <2>1, <2>2
<1>5. IsFiniteSet(B) /\ Cardinality(B) \in Nat
  <2>1. IsFiniteSet(1..(n - 1)) /\ B \subseteq 1..(n - 1)
    BY FS_Interval
  <2> HIDE DEF B
  <2> QED
    BY <2>1, FS_Subset, FS_CardinalityType
<1> HIDE DEF B, F, C
<1>6. TakesOff(A, B)
  BY <1>2, <1>3, <1>4, <1>5 DEF TakesOff
<1> QED
  BY <1>6 DEF B, Lowered

-----------------------------------------------------------------------------
(* Steps that keep what commands say *)

FrontInv == PlanInv /\ HostInv /\ SQInv /\ FetchInv /\ EntryInv
BackInv == CQInv /\ PostInv /\ SignalInv

(* Commands, the completion queues of their queues, and the queues that    *)
(* answered commands created, stay.                                        *)
Steady ==
  /\ Cmds \subseteq Cmds'
  /\ \A c \in Cmds : /\ cmd'[c] = cmd[c]
                     /\ sq'[cmd[c].q].cqID = sq[cmd[c].q].cqID
                     /\ Created(c) => Created(c)'

(* What is said of an entry, of an answer and of a planned command stays.  *)
LEMMA SteadyEntry ==
  ASSUME Steady
  PROVE  /\ \A e : IsEntry(e) => IsEntry(e)'
         /\ \A c \in Cmds : Created(c) => Created(c)'
         /\ \A c, q : Answers(c, q) => Answers(c, q)'
         /\ \A op : Planned(op) => Planned(op)'
         /\ \A q : DeletesSQ(q) => DeletesSQ(q)'
         /\ \A q : DeletesCQ(q) => DeletesCQ(q)'
<1>1. ASSUME NEW e, IsEntry(e) PROVE IsEntry(e)'
  BY <1>1 DEF Steady, IsEntry
<1>2. ASSUME NEW c \in Cmds, Created(c) PROVE Created(c)'
  BY <1>2 DEF Steady
<1>3. ASSUME NEW c, NEW q, Answers(c, q) PROVE Answers(c, q)'
  <2>1. Created(c)'
    BY <1>2, <1>3 DEF Answers
  <2> QED
    BY <1>3, <2>1 DEF Steady, Answers
<1>4. ASSUME NEW op, Planned(op) PROVE Planned(op)'
  BY <1>4 DEF Steady, Planned
<1>5. ASSUME NEW q, DeletesSQ(q) PROVE DeletesSQ(q)'
  BY <1>4, <1>5 DEF DeletesSQ
<1>6. ASSUME NEW q, DeletesCQ(q) PROVE DeletesCQ(q)'
  BY <1>4, <1>6 DEF DeletesCQ
<1> QED
  BY <1>1, <1>2, <1>3, <1>4, <1>5, <1>6

(* A step that touches neither commands nor submission queues is steady.   *)
LEMMA Still ==
  ASSUME UNCHANGED <<cmd, sq>>
  PROVE  Steady
BY DEF Steady, Cmds, Created

(* Steps that leave the plan alone.                                        *)
LEMMA PlanFrame ==
  ASSUME PlanInv, UNCHANGED <<plan, cmd>>, registers'.limit = registers.limit
  PROVE  PlanInv'
BY DEF PlanInv, Cmds

(* Steps that leave the host alone.                                        *)
LEMMA HostFrame ==
  ASSUME HostInv, UNCHANGED <<cmd, answers, gone, twice, coalesced, host>>,
         \A q \in Queues : sq'[q].live = sq[q].live,
         registers' \in Registers, registers'.limit = registers.limit
  PROVE  HostInv'
BY DEF HostInv, Cmds, DeletesSQ, Planned

(* Steps that leave commands and submission queues alone.                  *)
LEMMA SQFrame ==
  ASSUME SQInv, UNCHANGED <<cmd, sq>>
  PROVE  SQInv'
BY DEF SQInv, Cmds, DeletesSQ, Planned

(* Steps that leave the fetches alone.                                     *)
LEMMA FetchFrame ==
  ASSUME FetchInv, UNCHANGED <<fetching, sq>>
  PROVE  FetchInv'
BY DEF FetchInv

(* Steps that leave the entries alone, or clear the deprecated FIFO.       *)
LEMMA EntryFrame ==
  ASSUME EntryInv, Steady, lSQFIFO' = lSQFIFO \/ lSQFIFO' = <<>>,
         UNCHANGED <<lSQByUser, rrUsers, uidSQMap, running, lCQFIFO>>
  PROVE  EntryInv'
<1>1. \A u \in Users : \A i \in DOMAIN lSQByUser[u] :
        /\ IsEntry(lSQByUser[u][i])' /\ lSQByUser[u][i].c \in Cmds
        /\ cmd'[lSQByUser[u][i].c] = cmd[lSQByUser[u][i].c]
  BY SteadyEntry DEF EntryInv, IsEntry, Steady
<1>2. lSQFIFO' \in Seq(Entries) /\ \A i \in DOMAIN lSQFIFO' : IsEntry(lSQFIFO[i])'
  <2>1. CASE lSQFIFO' = <<>>
    BY <2>1
  <2>2. CASE lSQFIFO' = lSQFIFO
    BY <2>2, SteadyEntry DEF EntryInv
  <2> QED
    BY <2>1, <2>2
<1>3. \A e \in running : IsEntry(e)'
  BY SteadyEntry DEF EntryInv
<1>4. \A i \in DOMAIN lCQFIFO : IsEntry(lCQFIFO[i])' /\ Created(lCQFIFO[i].c)'
  BY SteadyEntry DEF EntryInv, IsEntry
<1> QED
  BY <1>1, <1>2, <1>3, <1>4 DEF EntryInv

(* Steps that leave the completion side alone.                             *)
LEMMA BackFrame ==
  ASSUME BackInv, Steady, host'.phase = host.phase,
         UNCHANGED <<cq, posting, sending, intr, aggregation, coalesced>>
  PROVE  BackInv'
<1>1. /\ \A q, i : Written(q, i)' = Written(q, i)
      /\ \A q, i : Expected(q, i)' = Expected(q, i)
  BY DEF Written, Unwritten, Occupied, Expected
<1>2. CQInv'
  BY <1>1, SteadyEntry DEF BackInv, CQInv
<1>3. PostInv'
  BY <1>1, SteadyEntry DEF BackInv, PostInv, Occupied
<1>4. SignalInv'
  BY <1>1 DEF BackInv, SignalInv, Coming
<1> QED
  BY <1>2, <1>3, <1>4 DEF BackInv

-----------------------------------------------------------------------------
(* Submitting *)

(* What a submission does to the queues and to the commands.               *)
Enqueued(q) ==
  /\ sq[q].tail \in Slots /\ sq' \in [Queues -> SQs]
  /\ \A r \in Queues :
       /\ sq'[r].live = sq[r].live /\ sq'[r].head = sq[r].head
       /\ sq'[r].cqID = sq[r].cqID /\ sq'[r].priority = sq[r].priority
       /\ sq'[r].tail = IF r = q THEN Inc(sq[q].tail) ELSE sq[r].tail
       /\ \A i \in Slots : sq'[r].mem[i] = IF r = q /\ i = sq[q].tail
                                           THEN Len(cmd) + 1 ELSE sq[r].mem[i]
Recorded(q, op, uid) ==
  /\ Cmds' = Cmds \union {Len(cmd) + 1} /\ Len(cmd) + 1 \notin Cmds
  /\ \A c \in Cmds : cmd'[c] = cmd[c]
  /\ cmd'[Len(cmd) + 1] = [q |-> q, op |-> op, uid |-> uid]
  /\ Len(cmd') = Len(cmd) + 1 /\ Len(cmd) \in Nat /\ Len(cmd') <= registers.limit
  /\ Len(cmd') \in 1..MaxCommands

(* A submission does it.                                                   *)
LEMMA SubmitSQ ==
  ASSUME SQInv, HostInv, NEW q \in Queues, NEW op, NEW uid, Submit(q, op, uid)
  PROVE  Enqueued(q)
<1>1. sq \in [Queues -> SQs] /\ sq[q] \in SQs /\ Len(cmd) \in Nat
  BY DEF SQInv, HostInv
<1>2. sq[q].tail \in Slots /\ sq[q].mem \in [Slots -> Nat] /\ Inc(sq[q].tail) \in Slots
  BY <1>1, IncFact DEF SQs
<1> DEFINE t == sq[q].tail
           n == Len(cmd) + 1
           new == [live |-> sq[q].live, head |-> sq[q].head, tail |-> Inc(sq[q].tail),
                   cqID |-> sq[q].cqID, priority |-> sq[q].priority,
                   mem |-> [sq[q].mem EXCEPT ![sq[q].tail] = Len(cmd) + 1]]
<1>3. sq' = [sq EXCEPT ![q].mem[t] = n, ![q].tail = Inc(t)]
  BY DEF Submit
<1>4. sq'[q] = new
  BY <1>1, <1>2, <1>3 DEF SQs
<1>5. \A r \in Queues : r # q => sq'[r] = sq[r]
  BY <1>1, <1>3
<1>6. new \in SQs
  BY <1>1, <1>2 DEF SQs
<1>7. sq' = [r \in Queues |-> IF r = q THEN new ELSE sq[r]]
  BY <1>1, <1>3, <1>4, <1>5
<1>8. sq' \in [Queues -> SQs]
  BY <1>1, <1>6, <1>7
<1>9. \A i \in Slots : new.mem[i] = IF i = sq[q].tail THEN Len(cmd) + 1 ELSE sq[q].mem[i]
  BY <1>2
<1> QED
  BY <1>1, <1>2, <1>4, <1>5, <1>8, <1>9 DEF Enqueued

(* And this to the commands.                                               *)
LEMMA SubmitCmd ==
  ASSUME HostInv, NEW q \in Queues, NEW op, NEW uid, Submit(q, op, uid)
  PROVE  Recorded(q, op, uid)
<1>1. cmd \in Seq(Commands) /\ cmd' = Append(cmd, [q |-> q, op |-> op, uid |-> uid])
      /\ registers \in Registers /\ Len(cmd) < registers.limit
  BY DEF HostInv, Submit
<1>2. Len(cmd') = Len(cmd) + 1 /\ Len(cmd) \in Nat
  BY <1>1
<1>3. Cmds' = Cmds \union {Len(cmd) + 1} /\ Len(cmd) + 1 \notin Cmds
  BY <1>2 DEF Cmds
<1>4. registers.limit \in 0..MaxCommands
  BY <1>1 DEF Registers
<1> QED
  BY <1>1, <1>2, <1>3, <1>4, Sizes DEF Cmds, Recorded

(* The type of a command.                                                  *)
LEMMA CmdType ==
  ASSUME HostInv
  PROVE  \A c \in Cmds : /\ cmd[c].q \in Queues /\ cmd[c].uid \in Users
                         /\ cmd[c].op \in Plans \union {IOCommand}
<1>1. \A c \in Cmds : cmd[c] \in Commands
  BY DEF HostInv, Cmds
<1> QED
  BY <1>1 DEF Commands

(* The type of a fetch.                                                    *)
LEMMA FetchType ==
  ASSUME FetchInv
  PROVE  \A i \in DOMAIN fetching : /\ fetching[i].q \in Queues /\ fetching[i].at \in Slots
                                    /\ fetching[i].last \in BOOLEAN
<1> DEFINE S == [q : Queues, at : Slots, last : BOOLEAN]
<1>1. fetching \in Seq(S)
  BY DEF FetchInv
<1>2. \A i \in DOMAIN fetching : fetching[i] \in S
  <2> HIDE DEF S
  <2> QED
    BY <1>1
<1> QED
  BY <1>2

(* The type of a write in flight.                                          *)
LEMMA PostType ==
  ASSUME PostInv
  PROVE  \A j \in DOMAIN posting :
           /\ posting[j].write \in Writes /\ posting[j].last \in BOOLEAN
           /\ posting[j].ivs \in SUBSET Vectors
<1> DEFINE S == [write : Writes, last : BOOLEAN, ivs : SUBSET Vectors]
<1>1. posting \in Seq(S)
  BY DEF PostInv
<1>2. \A j \in DOMAIN posting : posting[j] \in S
  <2> HIDE DEF S
  <2> QED
    BY <1>1
<1> QED
  BY <1>2

(* The queues that commands name.                                          *)
LEMMA OpType ==
  ASSUME NEW op \in Plans \union {IOCommand}
  PROVE  /\ op.op \in {"createSQ", "createCQ", "deleteSQ", "deleteCQ", "abort"}
              => op.q \in Queues \ {0}
         /\ op.op = "createSQ" => op.cq \in Queues /\ op.priority \in {URGENT, MEDIUM, LOW}
         /\ op.op = "createCQ" => op.iv \in Vectors
         /\ op.op = "coalesce" => op.iv \in Vectors /\ op.enable \in BOOLEAN
         /\ op.op = "deleteSQ" => op = [op |-> "deleteSQ", q |-> op.q]
         /\ op.op = "deleteCQ" => op = [op |-> "deleteCQ", q |-> op.q]
BY DEF Plans, IOCommand

(* A submission is steady.                                                 *)
LEMMA SubmitSteady ==
  ASSUME HostInv, NEW q \in Queues, NEW op, NEW uid,
         Enqueued(q), Recorded(q, op, uid)
  PROVE  Steady
<1>1. \A r \in Queues : sq'[r].live = sq[r].live /\ sq'[r].cqID = sq[r].cqID
  BY DEF Enqueued
<1>2. /\ Cmds \subseteq Cmds'
      /\ \A c \in Cmds : cmd'[c] = cmd[c]
  BY DEF Recorded
<1>3. \A c \in Cmds : /\ cmd[c].q \in Queues
                      /\ cmd[c].op.op = "createSQ" => cmd[c].op.q \in Queues
  BY CmdType, OpType
<1> QED
  BY <1>1, <1>2, <1>3 DEF Steady, Created

(* The submission queues and the fetches after a submission.               *)
LEMMA SubmitQueues ==
  ASSUME SQInv, HostInv, FetchInv, NEW q \in Queues, NEW op, NEW uid,
         Submit(q, op, uid), Enqueued(q), Recorded(q, op, uid)
  PROVE  SQInv' /\ FetchInv'
<1> DEFINE n == Len(cmd) + 1
<1>1. sq \in [Queues -> SQs] /\ n \in Nat /\ n # 0
  BY DEF SQInv, Recorded
<1>2. \A r \in Queues, i \in Slots :
        sq'[r].mem[i] = IF r = q /\ i = sq[q].tail THEN n ELSE sq[r].mem[i]
  BY DEF Enqueued
<1>3. q \in host.up /\ sq[q].live /\ ~DeletesSQ(q)
  BY DEF HostInv, Submit
<1>4. sq'[0].live /\ sq'[0].cqID = 0
  BY DEF SQInv, Queues, Enqueued
<1>5. ASSUME NEW r \in Queues, NEW i \in Slots
      PROVE  /\ sq'[r].mem[i] # 0 => sq'[r].mem[i] \in Cmds' /\ cmd'[sq'[r].mem[i]].q = r
             /\ Occupied(sq[r], i)' => sq'[r].mem[i] # 0
  <2>1. CASE r = q /\ i = sq[q].tail
    BY <1>2, <2>1, <1>1 DEF Recorded
  <2>2. CASE ~(r = q /\ i = sq[q].tail)
    <3>1. sq'[r].mem[i] = sq[r].mem[i]
      BY <1>2, <2>2
    <3>2. sq'[r].mem[i] # 0 => sq'[r].mem[i] \in Cmds' /\ cmd'[sq'[r].mem[i]].q = r
      BY <3>1 DEF SQInv, Recorded
    <3>3. Occupied(sq[r], i)' => Occupied(sq[r], i)
      <4>1. CASE r # q
        BY <4>1 DEF Occupied, Enqueued
      <4>2. CASE r = q
        <5>1. sq'[q].head = sq[q].head /\ sq'[q].tail = Inc(sq[q].tail)
          BY DEF Enqueued
        <5>2. sq[q].head \in Slots /\ sq[q].tail \in Slots
          BY <1>1 DEF SQs
        <5>3. Inc(sq[q].tail) = IF sq[q].tail = QueueSize - 1 THEN 0 ELSE sq[q].tail + 1
          BY <5>2, IncFact
        <5> QED
          BY <4>2, <2>2, <5>1, <5>2, <5>3, Sizes DEF Occupied, Slots
      <4> QED
        BY <4>1, <4>2
    <3> QED
      BY <3>1, <3>2, <3>3 DEF SQInv
  <2> QED
    BY <2>1, <2>2
<1>6. ASSUME NEW c \in Cmds' PROVE (sq[cmd[c].q].live \/ DeletesSQ(cmd[c].q))'
  <2>1. CASE c \in Cmds
    <3>1. cmd'[c] = cmd[c] /\ cmd[c].q \in Queues
      BY <2>1, CmdType DEF Recorded
    <3>2. sq'[cmd[c].q].live = sq[cmd[c].q].live
      BY <3>1 DEF Enqueued
    <3>3. Steady
      BY SubmitSteady
    <3>4. \A r : DeletesSQ(r) => DeletesSQ(r)'
      BY <3>3, SteadyEntry
    <3> QED
      BY <2>1, <3>1, <3>2, <3>4 DEF SQInv
  <2>2. CASE c \notin Cmds
    BY <1>3, <2>2 DEF Recorded, Enqueued
  <2> QED
    BY <2>1, <2>2
<1>7. SQInv'
  BY <1>4, <1>5, <1>6 DEF SQInv, Enqueued
<1>8. FetchInv'
  <2>1. UNCHANGED fetching
    BY DEF Submit
  <2> QED
    BY <1>1, <1>2, <2>1, FetchType DEF FetchInv
<1> QED
  BY <1>7, <1>8

(* The plan after a submission.                                            *)
LEMMA SubmitPlan ==
  ASSUME PlanInv, NEW q \in Queues, NEW op, NEW uid, Recorded(q, op, uid),
         UNCHANGED registers, plan' \subseteq plan,
         IF q = 0 THEN op \in plan ELSE op = IOCommand
  PROVE  PlanInv'
<1>1. PICK s \in Scenarios :
        /\ plan \subseteq s.plan /\ registers.limit = s.limit
        /\ \A c \in Cmds : IF cmd[c].q = 0 THEN cmd[c].op \in s.plan
                           ELSE cmd[c].op = IOCommand
  BY DEF PlanInv
<1>2. ASSUME NEW c \in Cmds'
      PROVE  IF cmd'[c].q = 0 THEN cmd'[c].op \in s.plan ELSE cmd'[c].op = IOCommand
  <2>1. CASE c \in Cmds
    BY <1>1, <2>1 DEF Recorded
  <2>2. CASE c \notin Cmds
    BY <1>1, <2>2 DEF Recorded
  <2> QED
    BY <2>1, <2>2
<1> QED
  BY <1>1, <1>2 DEF PlanInv

(* The host after a submission.                                            *)
LEMMA SubmitHost ==
  ASSUME HostInv, NEW q \in Queues, NEW op \in Plans \union {IOCommand},
         NEW uid \in Users, Submit(q, op, uid), Enqueued(q), Recorded(q, op, uid),
         host' = IF op.op = "deleteSQ" THEN [host EXCEPT !.up = @ \ {op.q}] ELSE host
  PROVE  HostInv'
<1>1. registers' \in Registers /\ Len(cmd') <= registers'.limit
  BY DEF HostInv, Submit, Recorded
<1>2. cmd' \in Seq(Commands)
  <2>1. [q |-> q, op |-> op, uid |-> uid] \in Commands
    BY DEF Commands
  <2> QED
    BY <2>1 DEF HostInv, Submit
<1>3. /\ answers' \in [1..MaxCommands -> Nat]
      /\ \A c \in 1..MaxCommands : c \notin Cmds' => answers'[c] = 0
  BY DEF HostInv, Submit, Recorded
<1>4. gone' \subseteq Cmds' /\ twice' \subseteq Cmds' /\ coalesced' \subseteq Vectors
  BY DEF HostInv, Submit, Recorded, histVars
<1>5. /\ host' = [up |-> host'.up, head |-> host.head, phase |-> host.phase]
      /\ host'.up = IF op.op = "deleteSQ" THEN host.up \ {op.q} ELSE host.up
      /\ host'.head = host.head /\ host'.phase = host.phase
  BY DEF HostInv
<1>6. ASSUME NEW r \in host'.up PROVE (r \in Queues /\ sq[r].live /\ ~DeletesSQ(r))'
  <2>1. r \in host.up /\ r \in Queues /\ sq[r].live /\ ~DeletesSQ(r)
    BY <1>5 DEF HostInv
  <2>2. sq'[r].live
    BY <2>1 DEF Enqueued
  <2>3. ASSUME DeletesSQ(r)' PROVE FALSE
    <3>1. PICK c \in Cmds' : cmd'[c].op = [op |-> "deleteSQ", q |-> r]
      BY <2>3 DEF DeletesSQ, Planned
    <3>2. c \notin Cmds
      BY <2>1, <3>1 DEF DeletesSQ, Planned, Recorded
    <3>3. op = [op |-> "deleteSQ", q |-> r]
      BY <3>1, <3>2 DEF Recorded
    <3>4. op.op = "deleteSQ" /\ op.q = r
      BY <3>3
    <3> QED
      BY <1>5, <3>4
  <2> QED
    BY <2>1, <2>2, <2>3
<1> QED
  BY <1>1, <1>2, <1>3, <1>4, <1>5, <1>6 DEF HostInv

(* Submitting keeps the invariants of the queues.                          *)
LEMMA SubmitBase ==
  ASSUME FrontInv, BackInv, NEW q \in Queues, NEW op \in Plans \union {IOCommand},
         NEW uid \in Users, Submit(q, op, uid), plan' \subseteq plan,
         IF q = 0 THEN op \in plan ELSE op = IOCommand,
         host' = IF op.op = "deleteSQ" THEN [host EXCEPT !.up = @ \ {op.q}] ELSE host
  PROVE  FrontInv' /\ BackInv'
<1>1. PlanInv /\ HostInv /\ SQInv /\ FetchInv /\ EntryInv
  BY DEF FrontInv
<1>2. Enqueued(q) /\ Recorded(q, op, uid)
  BY <1>1, SubmitSQ, SubmitCmd
<1>3. Steady
  BY <1>1, <1>2, SubmitSteady
<1>4. PlanInv'
  <2>1. UNCHANGED registers
    BY DEF Submit
  <2> QED
    BY <1>1, <1>2, <2>1, SubmitPlan
<1>5. HostInv'
  BY <1>1, <1>2, SubmitHost
<1>6. SQInv' /\ FetchInv'
  BY <1>1, <1>2, SubmitQueues
<1>7. EntryInv'
  <2>1. UNCHANGED <<lSQByUser, rrUsers, uidSQMap, lSQFIFO, running, lCQFIFO>>
    BY DEF Submit, postVars
  <2> QED
    BY <1>1, <1>3, <2>1, EntryFrame
<1>8. BackInv'
  <2>1. UNCHANGED <<cq, posting, sending, intr, aggregation, coalesced>>
    BY DEF Submit, postVars, histVars
  <2>2. host'.phase = host.phase
    BY <1>1 DEF HostInv
  <2> QED
    BY <1>3, <2>1, <2>2, BackFrame
<1> QED
  BY <1>4, <1>5, <1>6, <1>7, <1>8 DEF FrontInv

(* Submitting an I/O command or an admin command.                          *)
LEMMA SubmitStep ==
  ASSUME FrontInv, BackInv, SubmitIO \/ SubmitAdmin
  PROVE  FrontInv' /\ BackInv'
<1>1. CASE SubmitIO
  <2>1. PICK q \in Queues \ {0}, u \in Users :
          Submit(q, [op |-> "io"], u) /\ UNCHANGED <<plan, host>>
    BY <1>1 DEF SubmitIO
  <2>2. /\ IOCommand \in Plans \union {IOCommand} /\ IOCommand.op # "deleteSQ"
        /\ Submit(q, IOCommand, u)
    BY <2>1 DEF IOCommand
  <2> HIDE DEF IOCommand
  <2> QED
    BY <2>1, <2>2, SubmitBase
<1>2. CASE SubmitAdmin
  <2>1. PICK op \in plan :
          /\ Submit(0, op, 0) /\ plan' = plan \ {op}
          /\ host' = IF op.op = "deleteSQ" THEN [host EXCEPT !.up = @ \ {op.q}] ELSE host
    BY <1>2 DEF SubmitAdmin
  <2>2. op \in Plans
    BY ControllerAssumption DEF FrontInv, PlanInv
  <2>3. 0 \in Queues /\ 0 \in Users /\ op \in Plans \union {IOCommand}
    BY Sizes, <2>2
  <2> DEFINE q == 0
             uid == 0
  <2>4. q \in Queues /\ uid \in Users /\ Submit(q, op, uid) /\ q = 0
    BY <2>1, <2>3
  <2> HIDE DEF q, uid
  <2> QED
    BY <2>1, <2>3, <2>4, SubmitBase
<1> QED
  BY <1>1, <1>2

-----------------------------------------------------------------------------
(* Steps that touch little *)

(* Steps that leave the front alone.                                       *)
LEMMA FrontFrame ==
  ASSUME FrontInv,
         UNCHANGED <<plan, cmd, registers, answers, gone, twice, coalesced, host, sq,
                     fetching, lSQByUser, rrUsers, uidSQMap, lSQFIFO, running, lCQFIFO>>
  PROVE  FrontInv'
<1>1. PlanInv /\ HostInv /\ SQInv /\ FetchInv /\ EntryInv /\ registers \in Registers
  BY DEF FrontInv, HostInv
<1>2. PlanInv' /\ SQInv' /\ FetchInv'
  BY <1>1, PlanFrame, SQFrame, FetchFrame
<1>3. HostInv'
  BY <1>1, HostFrame
<1>4. EntryInv'
  BY <1>1, Still, EntryFrame
<1> QED
  BY <1>2, <1>3, <1>4 DEF FrontInv

(* A write of the configuration.                                           *)
LEMMA ConfigStep ==
  ASSUME FrontInv, BackInv, NEW r, r \in {"enable", "disable", "shutdown"}, WriteConfig(r)
  PROVE  FrontInv' /\ BackInv'
<1>1. PlanInv /\ HostInv /\ SQInv /\ FetchInv /\ EntryInv /\ registers \in Registers
  BY DEF FrontInv, HostInv
<1>2. UNCHANGED <<cmd, answers, gone, twice, coalesced, host, sq, fetching, lSQByUser,
                  rrUsers, uidSQMap, lSQFIFO, running, lCQFIFO, cq, posting, sending,
                  intr, aggregation>>
  BY DEF WriteConfig, fetchVars, postVars, histVars
<1>3. registers' \in Registers /\ registers'.limit = registers.limit
  BY <1>1 DEF WriteConfig, Registers
<1>4. PlanInv'
  <2>1. plan' \subseteq plan
    BY DEF WriteConfig
  <2> QED
    BY <1>1, <1>2, <1>3, <2>1 DEF PlanInv, Cmds
<1>5. HostInv' /\ SQInv' /\ FetchInv'
  BY <1>1, <1>2, <1>3, HostFrame, SQFrame, FetchFrame
<1>6. Steady
  BY <1>2, Still
<1>7. EntryInv' /\ BackInv'
  BY <1>1, <1>2, <1>6, EntryFrame, BackFrame
<1> QED
  BY <1>4, <1>5, <1>7 DEF FrontInv

(* A refill.                                                               *)
LEMMA RefillStep ==
  ASSUME FrontInv, BackInv, NEW u, Refill(u)
  PROVE  FrontInv' /\ BackInv'
<1>1. UNCHANGED <<plan, cmd, registers, answers, gone, twice, coalesced, host, sq,
                  fetching, lSQByUser, rrUsers, uidSQMap, lSQFIFO, running, lCQFIFO,
                  cq, posting, sending, intr, aggregation>>
  BY DEF Refill, fetchVars, postVars, histVars, hostVars
<1> QED
  BY <1>1, Still, FrontFrame, BackFrame

(* Interrupts are raised.                                                  *)
LEMMA SendStep ==
  ASSUME FrontInv, BackInv, Send
  PROVE  FrontInv' /\ BackInv'
<1>1. /\ UNCHANGED <<plan, cmd, registers, answers, gone, twice, coalesced, host, sq,
                     fetching, lSQByUser, rrUsers, uidSQMap, lSQFIFO, running, lCQFIFO,
                     cq, posting, aggregation>>
      /\ sending # <<>> /\ intr' = intr \union Head(sending) /\ sending' = Tail(sending)
  BY DEF Send, fetchVars, postVars, histVars, hostVars
<1>2. FrontInv'
  BY <1>1, FrontFrame
<1>3. Steady
  BY <1>1, Still
<1>4. /\ \A q, i : Written(q, i)' = Written(q, i)
      /\ \A q, i : Expected(q, i)' = Expected(q, i)
  BY <1>1 DEF Written, Unwritten, Occupied, Expected
<1>5. CQInv'
  BY <1>1, <1>3, <1>4, SteadyEntry DEF BackInv, CQInv
<1>6. sending \in Seq(SUBSET Vectors) /\ intr \subseteq Vectors
  BY DEF BackInv, PostInv
<1>7. sending' \in Seq(SUBSET Vectors) /\ intr' \subseteq Vectors
  <2>1. Head(sending) \in SUBSET Vectors /\ Tail(sending) \in Seq(SUBSET Vectors)
    BY <1>1, <1>6
  <2> QED
    BY <1>1, <1>6, <2>1
<1>8. PostInv'
  BY <1>1, <1>3, <1>4, <1>7, SteadyEntry DEF BackInv, PostInv, Occupied
<1>9. ASSUME NEW v, Coming(v) PROVE Coming(v)'
  <2>1. CASE v \in intr \/ \E i \in DOMAIN posting : v \in posting[i].ivs
    BY <1>1, <2>1 DEF Coming
  <2>2. CASE \E i \in DOMAIN sending : v \in sending[i]
    <3>1. PICK i \in DOMAIN sending : v \in sending[i]
      BY <2>2
    <3>2. CASE i = 1
      BY <1>1, <3>1, <3>2 DEF Coming
    <3>3. CASE i # 1
      <4>1. i - 1 \in DOMAIN Tail(sending) /\ Tail(sending)[i - 1] = sending[i]
        BY <1>1, <1>6, <3>1, <3>3
      <4> QED
        BY <1>1, <3>1, <4>1 DEF Coming
    <3> QED
      BY <3>2, <3>3
  <2> QED
    BY <1>9, <2>1, <2>2 DEF Coming
<1>10. SignalInv'
  BY <1>1, <1>4, <1>9 DEF BackInv, SignalInv
<1> QED
  BY <1>2, <1>5, <1>8, <1>10 DEF BackInv

-----------------------------------------------------------------------------
(* Counting entries of lists *)

(* Entries of a command at the positions of a list.                        *)
At(list, c) == {i \in DOMAIN list : list[i].c = c}

(* The places of a command in a list can be counted.                       *)
LEMMA AtFinite ==
  ASSUME NEW S, NEW s \in Seq(S), NEW c
  PROVE  /\ At(s, c) \in SUBSET (1..Len(s)) /\ IsFiniteSet(At(s, c))
         /\ InSeq(s, c) \in Nat /\ InSeq(s, c) = Cardinality(At(s, c))
         /\ InSeq(s, c) = 0 <=> \A i \in DOMAIN s : s[i].c # c
<1>1. At(s, c) \in SUBSET (1..Len(s)) /\ IsFiniteSet(1..Len(s))
  BY FS_Interval DEF At
<1>2. IsFiniteSet(At(s, c))
  BY <1>1, FS_Subset
<1>3. Cardinality(At(s, c)) \in Nat /\ (Cardinality(At(s, c)) = 0 <=> At(s, c) = {})
  BY <1>2, FS_CardinalityType, FS_EmptySet
<1>4. InSeq(s, c) = Cardinality(At(s, c))
  BY DEF InSeq, At
<1>5. At(s, c) = {} <=> \A i \in DOMAIN s : s[i].c # c
  BY DEF At
<1> QED
  BY <1>1, <1>2, <1>3, <1>4, <1>5

(* The entries of one list behind those of another.                        *)
LEMMA InConcat ==
  ASSUME NEW S, NEW s \in Seq(S), NEW t \in Seq(S), NEW c
  PROVE  InSeq(s \o t, c) = InSeq(s, c) + InSeq(t, c)
<1> DEFINE A == At(s, c)
           B == At(t, c)
<1>1. /\ Len(s) \in Nat /\ Len(t) \in Nat /\ A \in SUBSET (1..Len(s))
      /\ B \in SUBSET (1..Len(t)) /\ s \o t \in Seq(S)
  BY AtFinite
<1>2. AddsUp(A \union Shifted(Len(s), Len(t), B), A, B)
  BY <1>1, CountBehind
<1>3. At(s \o t, c) = A \union Shifted(Len(s), Len(t), B)
  <2>1. DOMAIN (s \o t) = 1..(Len(s) + Len(t)) /\ DOMAIN s = 1..Len(s) /\ DOMAIN t = 1..Len(t)
    OBVIOUS
  <2>2. \A i \in 1..(Len(s) + Len(t)) :
          (s \o t)[i] = IF i <= Len(s) THEN s[i] ELSE t[i - Len(s)]
    OBVIOUS
  <2> QED
    BY <1>1, <2>1, <2>2 DEF At, Shifted
<1>4. InSeq(s \o t, c) = Cardinality(At(s \o t, c)) /\ InSeq(s, c) = Cardinality(A)
      /\ InSeq(t, c) = Cardinality(B)
  BY <1>1, AtFinite
<1> HIDE DEF A, B
<1> QED
  BY <1>2, <1>3, <1>4 DEF AddsUp

(* One more entry.                                                         *)
LEMMA InAppend ==
  ASSUME NEW S, NEW s \in Seq(S), NEW e \in S, NEW c
  PROVE  InSeq(Append(s, e), c) = InSeq(s, c) + IF e.c = c THEN 1 ELSE 0
<1>1. <<e>> \in Seq(S) /\ Append(s, e) = s \o <<e>>
  OBVIOUS
<1>2. At(<<e>>, c) = IF e.c = c THEN {1} ELSE {}
  BY DEF At
<1>3. InSeq(<<e>>, c) = IF e.c = c THEN 1 ELSE 0
  <2>1. InSeq(<<e>>, c) = Cardinality(At(<<e>>, c))
    BY <1>1, AtFinite
  <2>2. Cardinality({1}) = 1 /\ Cardinality({}) = 0
    BY FS_Singleton, FS_EmptySet
  <2> QED
    BY <1>2, <2>1, <2>2
<1>4. InSeq(s, c) \in Nat
  BY AtFinite
<1>5. InSeq(s \o <<e>>, c) = InSeq(s, c) + InSeq(<<e>>, c)
  BY <1>1, InConcat
<1> QED
  BY <1>1, <1>3, <1>4, <1>5

(* The first entry taken off.                                              *)
LEMMA InTail ==
  ASSUME NEW S, NEW s \in Seq(S), s # <<>>, NEW c
  PROVE  InSeq(s, c) = InSeq(Tail(s), c) + IF Head(s).c = c THEN 1 ELSE 0
<1> DEFINE A == At(s, c)
           n == Len(s)
<1>1. n \in Nat /\ n > 0 /\ A \in SUBSET (1..n) /\ Tail(s) \in Seq(S) /\ s[1] = Head(s)
  BY AtFinite
<1>2. At(Tail(s), c) = Lowered(n, A)
  BY <1>1 DEF At, Lowered
<1>3. 1 \in A <=> Head(s).c = c
  BY <1>1 DEF At
<1>4. TakesOff(A, At(Tail(s), c))
  <2> HIDE DEF A, n
  <2> QED
    BY <1>1, <1>2, CountTail
<1>5. InSeq(s, c) = Cardinality(A) /\ InSeq(Tail(s), c) = Cardinality(At(Tail(s), c))
  BY <1>1, AtFinite
<1> HIDE DEF A
<1> QED
  BY <1>3, <1>4, <1>5 DEF TakesOff

-----------------------------------------------------------------------------
(* A list without some of its entries *)

(* A turn of the loop of Without, and a run of the loop.                   *)
Skipping(list, at, n, x) == IF n \in at THEN x ELSE Append(x, list[n])
IsWithout(f, list, at) ==
  f = [n \in 0..Len(list) |->
         IF n = 0 THEN <<>> ELSE Skipping(list, at, n, f[n - 1])]
RunsWithout(f, S, list, at) ==
  /\ f \in [0..Len(list) -> Seq(S)] /\ f[0] = <<>>
  /\ \A k \in 1..Len(list) : f[k] = Skipping(list, at, k, f[k - 1])
  /\ Without(list, at) = f[Len(list)]

(* The loop has a run, and it ends with a list of the same kind.           *)
LEMMA WithoutRun ==
  ASSUME NEW S, NEW list \in Seq(S), NEW at
  PROVE  \E f : RunsWithout(f, S, list, at)
<1> DEFINE n == Len(list)
           T == Seq(S)
           g == [k \in 1..n |-> [x \in T |-> Skipping(list, at, k, x)]]
           b == <<>>
<1>1. n \in Nat /\ b \in T /\ \A k \in 1..n : list[k] \in S
  OBVIOUS
<1>2. ASSUME NEW k \in 1..n, NEW x \in T PROVE Skipping(list, at, k, x) \in T
  BY <1>1 DEF Skipping
<1>3. g \in [1..n -> [T -> T]]
  BY <1>2
<1>4. PICK f : IsRun(f, n, T, b, g)
  <2> HIDE DEF n, T, b, g
  <2> QED
    BY <1>1, <1>3, RunExists DEF IsLoop
<1>5. f \in [0..n -> T] /\ f[0] = b /\ \A k \in 1..n : f[k] = g[k][f[k - 1]]
  BY <1>4 DEF IsRun
<1>6. ASSUME NEW k \in 1..n PROVE f[k] = Skipping(list, at, k, f[k - 1])
  <2>1. f[k - 1] \in T
    <3>1. k - 1 \in 0..n
      BY <1>1
    <3> HIDE DEF n, T, g
    <3> QED
      BY <1>5, <3>1
  <2> HIDE DEF T
  <2> QED
    BY <1>5, <2>1
<1>7. IsWithout(f, list, at)
  <2>1. f = [k \in 0..n |-> f[k]]
    <3> HIDE DEF T
    <3> QED
      BY <1>5
  <2>2. \A k \in 0..n : f[k] = IF k = 0 THEN <<>> ELSE Skipping(list, at, k, f[k - 1])
    <3> HIDE DEF T
    <3> QED
      BY <1>1, <1>5, <1>6
  <2> QED
    BY <2>1, <2>2 DEF IsWithout
<1> DEFINE out == CHOOSE h : IsWithout(h, list, at)
<1>8. IsWithout(out, list, at)
  BY <1>7
<1>9. Without(list, at) = out[n]
  BY DEF Without, IsWithout, Skipping
<1> HIDE DEF out
<1>10. \A k \in 0..n : out[k] = IF k = 0 THEN <<>> ELSE Skipping(list, at, k, out[k - 1])
  BY <1>8 DEF IsWithout
<1>11. \A k \in 0..n : out[k] \in T
  <2>1. out[0] \in T
    <3>1. 0 \in 0..n
      BY <1>1
    <3>2. out[0] = <<>>
      BY <1>10, <3>1
    <3> QED
      BY <1>1, <3>2
  <2>2. \A k \in 1..n : out[k - 1] \in T => out[k] \in T
    <3> HIDE DEF T
    <3> QED
      BY <1>1, <1>2, <1>10
  <2> HIDE DEF n, T
  <2> QED
    BY <1>1, <2>1, <2>2, StaysIn
<1>12. out \in [0..n -> T]
  <2>1. out = [k \in 0..n |-> out[k]]
    BY <1>8 DEF IsWithout
  <2> HIDE DEF T
  <2> QED
    BY <1>11, <2>1
<1>13. out[0] = <<>> /\ \A k \in 1..n : out[k] = Skipping(list, at, k, out[k - 1])
  BY <1>1, <1>10
<1> QED
  BY <1>9, <1>12, <1>13 DEF RunsWithout

(* What is left was in the list, outside of the positions.                 *)
LEMMA WithoutFact ==
  ASSUME NEW S, NEW list \in Seq(S), NEW at
  PROVE  /\ Without(list, at) \in Seq(S)
         /\ \A j \in DOMAIN Without(list, at) : \E i \in DOMAIN list :
              i \notin at /\ Without(list, at)[j] = list[i]
<1>1. PICK f : RunsWithout(f, S, list, at)
  BY WithoutRun
<1> DEFINE n == Len(list)
           From(k) == \A j \in DOMAIN f[k] : \E i \in 1..k : i \notin at /\ f[k][j] = list[i]
           G == {k \in 0..n : From(k)}
<1>2. /\ n \in Nat /\ \A k \in 0..n : f[k] \in Seq(S)
      /\ f[0] = <<>> /\ \A k \in 1..n : f[k] = Skipping(list, at, k, f[k - 1])
  <2> DEFINE T == Seq(S)
  <2>1. /\ n \in Nat /\ f \in [0..n -> T]
        /\ f[0] = <<>> /\ \A k \in 1..n : f[k] = Skipping(list, at, k, f[k - 1])
    BY <1>1 DEF RunsWithout
  <2>2. \A k \in 0..n : f[k] \in T
    <3> HIDE DEF T, n
    <3> QED
      BY <2>1
  <2> QED
    BY <2>1, <2>2
<1>3. 0 \in G
  BY <1>2
<1>4. ASSUME NEW k \in 1..n, k - 1 \in G PROVE k \in G
  <2>1. From(k - 1) /\ f[k - 1] \in Seq(S) /\ list[k] \in S /\ k \in 0..n
    BY <1>2, <1>4
  <2>2. CASE k \in at
    <3>1. f[k] = f[k - 1]
      BY <1>2, <2>2 DEF Skipping
    <3> QED
      BY <2>1, <3>1
  <2>3. CASE k \notin at
    <3> DEFINE s == f[k - 1]
    <3>1. f[k] = Append(s, list[k])
      BY <1>2, <2>3 DEF Skipping
    <3>2. /\ DOMAIN f[k] = 1..(Len(s) + 1) /\ f[k][Len(s) + 1] = list[k]
          /\ \A j \in 1..Len(s) : f[k][j] = s[j] /\ j \in DOMAIN s
      BY <2>1, <3>1
    <3>3. \A j \in DOMAIN f[k] : j = Len(s) + 1 \/ j \in 1..Len(s)
      BY <2>1, <3>2
    <3>4. \A j \in 1..Len(s) : \E i \in 1..k : i \notin at /\ f[k][j] = list[i]
      BY <2>1, <3>2
    <3>5. k \in 1..k /\ k \notin at /\ f[k][Len(s) + 1] = list[k]
      BY <2>3, <3>2
    <3>6. From(k)
      <4> HIDE DEF s
      <4> QED
        BY <3>3, <3>4, <3>5
    <3> QED
      BY <2>1, <3>6
  <2> QED
    BY <2>2, <2>3
<1>5. 0..n \subseteq G
  <2> HIDE DEF G, n
  <2> QED
    BY <1>2, <1>3, <1>4, UpTo
<1>6. From(n) /\ f[n] \in Seq(S)
  BY <1>2, <1>5
<1> QED
  BY <1>1, <1>6 DEF RunsWithout

-----------------------------------------------------------------------------
(* Picking a request *)

(* At most one user is selected, and it has something staged.              *)
LEMMA SelectedOne ==
  ASSUME EntryInv
  PROVE  \/ Selected = {}
         \/ \E u \in Users : Selected = {u} /\ lSQByUser[u] # <<>>
<1> DEFINE n == Len(rrUsers)
           able == {i \in 1..n : Servable(Turn(i))}
<1>1. rrUsers \in Seq(Users) /\ n \in Nat
  BY DEF EntryInv
<1>2. CASE lSQByUser[0] # <<>>
  BY <1>2, Sizes DEF Selected
<1>3. CASE lSQByUser[0] = <<>> /\ able = {}
  BY <1>3 DEF Selected
<1>4. CASE lSQByUser[0] = <<>> /\ able # {}
  <2>1. \E i \in able : \A j \in able : i <= j
    <3>1. able \subseteq Nat
      BY <1>1
    <3> HIDE DEF able
    <3> QED
      BY <1>4, <3>1, NatLeast
  <2>2. Min(able) \in able
    <3> HIDE DEF able
    <3> QED
      BY <2>1 DEF Min
  <2>3. Selected = {Turn(Min(able))}
    BY <1>4 DEF Selected
  <2> DEFINE i == Min(able)
  <2>4. i \in 1..n /\ Servable(Turn(i))
    BY <2>2
  <2> HIDE DEF able, i
  <2>5. Turn(i) \in Users
    <3> DEFINE start == IF lastUid # 0 /\ Contains(rrUsers, lastUid)
                        THEN CHOOSE k \in 1..n : rrUsers[k] = lastUid ELSE 0
    <3>1. start \in 0..n
      <4>1. CASE lastUid # 0 /\ Contains(rrUsers, lastUid)
        <5>1. \E k \in 1..n : rrUsers[k] = lastUid
          BY <4>1 DEF Contains
        <5> QED
          BY <4>1, <5>1
      <4>2. CASE ~(lastUid # 0 /\ Contains(rrUsers, lastUid))
        BY <4>2, <1>1
      <4> QED
        BY <4>1, <4>2
    <3>2. Turn(i) = rrUsers[((start + i - 1) % n) + 1]
      BY DEF Turn
    <3>3. ((start + i - 1) % n) + 1 \in 1..n
      <4> HIDE DEF start, n
      <4>1. start + i - 1 \in Nat /\ n > 0
        BY <1>1, <2>4, <3>1
      <4> QED
        BY <1>1, <4>1
    <3> QED
      BY <1>1, <3>2, <3>3
  <2> QED
    BY <2>3, <2>4, <2>5 DEF Servable, i
<1> QED
  BY <1>2, <1>3, <1>4

(* What a call of handleRequest does to the entries.                       *)
Picked ==
  \/ UNCHANGED <<running, lSQByUser>>
  \/ \E u \in Users : /\ lSQByUser[u] # <<>>
                      /\ running' = running \union {Head(lSQByUser[u])}
                      /\ lSQByUser' = [lSQByUser EXCEPT ![u] = Tail(@)]

(* It takes at most one entry.                                             *)
LEMMA HandlePicks ==
  ASSUME EntryInv, NEW b, HandleRequest(b)
  PROVE  Picked
<1>1. /\ running' = running \union {Head(lSQByUser[u]) : u \in Selected}
      /\ lSQByUser' = [u \in Users |-> StagedAfter(u)]
      /\ lSQByUser = [u \in Users |-> lSQByUser[u]]
  BY DEF HandleRequest, EntryInv
<1>2. CASE Selected = {}
  <2>1. lSQByUser' = [u \in Users |-> lSQByUser[u]]
    BY <1>1, <1>2 DEF StagedAfter
  <2> QED
    BY <1>1, <1>2, <2>1 DEF Picked
<1>3. ASSUME NEW u \in Users, Selected = {u}, lSQByUser[u] # <<>>
      PROVE  Picked
  <2>1. \A v \in Users : StagedAfter(v) = IF v = u THEN Tail(lSQByUser[u]) ELSE lSQByUser[v]
    BY <1>3 DEF StagedAfter
  <2>2. lSQByUser' = [lSQByUser EXCEPT ![u] = Tail(@)]
    BY <1>1, <2>1
  <2>3. running' = running \union {Head(lSQByUser[u])}
    BY <1>1, <1>3
  <2> QED
    BY <1>3, <2>2, <2>3 DEF Picked
<1> QED
  BY <1>2, <1>3, SelectedOne

(* The entries after a pick.                                               *)
LEMMA PickEntries ==
  ASSUME EntryInv, Picked, UNCHANGED <<cmd, sq, rrUsers, uidSQMap, lSQFIFO, lCQFIFO>>
  PROVE  EntryInv'
<1>1. CASE UNCHANGED <<running, lSQByUser>>
  BY <1>1, Still, EntryFrame
<1>2. ASSUME NEW u \in Users, lSQByUser[u] # <<>>,
             running' = running \union {Head(lSQByUser[u])},
             lSQByUser' = [lSQByUser EXCEPT ![u] = Tail(@)]
      PROVE  EntryInv'
  <2>1. lSQByUser \in [Users -> Seq(Entries)] /\ lSQByUser[u] \in Seq(Entries)
    BY DEF EntryInv
  <2> DEFINE s == lSQByUser[u]
  <2>2. /\ Head(s) = s[1] /\ 1 \in DOMAIN s /\ Head(s) \in Entries
        /\ Tail(s) \in Seq(Entries)
        /\ \A i \in DOMAIN Tail(s) : Tail(s)[i] = s[i + 1] /\ i + 1 \in DOMAIN s
    BY <1>2, <2>1
  <2>3. lSQByUser' \in [Users -> Seq(Entries)]
    BY <1>2, <2>1, <2>2
  <2>4. ASSUME NEW v \in Users, NEW i \in DOMAIN lSQByUser'[v]
        PROVE  IsEntry(lSQByUser'[v][i]) /\ cmd[lSQByUser'[v][i].c].uid = v
    <3>1. CASE v = u
      <4>1. lSQByUser'[v] = Tail(s)
        BY <1>2, <2>1, <3>1
      <4>2. lSQByUser'[v][i] = lSQByUser[u][i + 1] /\ i + 1 \in DOMAIN lSQByUser[u]
        BY <2>2, <4>1
      <4> QED
        BY <3>1, <4>2 DEF EntryInv
    <3>2. CASE v # u
      <4>1. lSQByUser'[v] = lSQByUser[v]
        BY <1>2, <2>1, <3>2
      <4> QED
        BY <4>1 DEF EntryInv
    <3> QED
      BY <3>1, <3>2
  <2>5. running' \subseteq Entries /\ IsFiniteSet(running')
    BY <1>2, <2>2, FS_AddElement DEF EntryInv
  <2>6. \A e \in running' : IsEntry(e)
    BY <1>2, <2>2 DEF EntryInv
  <2>7. \A e : IsEntry(e)' <=> IsEntry(e)
    BY DEF IsEntry, Cmds
  <2>8. \A c : Created(c)' <=> Created(c)
    BY DEF Created
  <2> QED
    BY <2>3, <2>4, <2>5, <2>6, <2>7, <2>8 DEF EntryInv
<1> QED
  BY <1>1, <1>2 DEF Picked

(* A call of handleRequest.                                                *)
LEMMA HandleStep ==
  ASSUME FrontInv, BackInv, NEW b, HandleRequest(b)
  PROVE  FrontInv' /\ BackInv'
<1>1. PlanInv /\ HostInv /\ SQInv /\ FetchInv /\ EntryInv /\ registers \in Registers
  BY DEF FrontInv, HostInv
<1>2. UNCHANGED <<registers, plan, cmd, answers, gone, twice, coalesced, host, sq,
                  fetching, rrUsers, uidSQMap, lSQFIFO, lCQFIFO, cq, posting, sending,
                  intr, aggregation>>
  BY DEF HandleRequest, postVars, histVars, hostVars
<1>3. PlanInv' /\ SQInv' /\ FetchInv' /\ HostInv'
  BY <1>1, <1>2, PlanFrame, SQFrame, FetchFrame, HostFrame
<1>4. EntryInv'
  BY <1>1, <1>2, HandlePicks, PickEntries
<1>5. BackInv'
  BY <1>2, Still, BackFrame
<1> QED
  BY <1>3, <1>4, <1>5 DEF FrontInv

-----------------------------------------------------------------------------
(* Fetching *)

(* The k-th entry of a queue lies in a slot that waits, and each slot that *)
(* waits is the place of one entry.                                        *)
PlaceOf(q, k) == (q.head + k - 1) % QueueSize
RankOf(q, i) == IF q.head <= i THEN i - q.head + 1 ELSE QueueSize - q.head + i + 1

(* Ranks and places of the waiting entries of a ring are inverse.          *)
LEMMA Places ==
  ASSUME NEW q, q.head \in Slots, q.tail \in Slots
  PROVE  /\ ItemCount(q) \in 0..(QueueSize - 1)
         /\ \A k \in 1..ItemCount(q) : /\ PlaceOf(q, k) \in Slots /\ Occupied(q, PlaceOf(q, k))
                                       /\ RankOf(q, PlaceOf(q, k)) = k
         /\ \A i \in Slots : Occupied(q, i) => /\ RankOf(q, i) \in 1..ItemCount(q)
                                               /\ PlaceOf(q, RankOf(q, i)) = i
<1> DEFINE h == q.head
           t == q.tail
<1>1. h \in Nat /\ t \in Nat /\ h < QueueSize /\ t < QueueSize /\ QueueSize \in Nat
      /\ QueueSize > 1
  BY Sizes DEF Slots
<1>2. ItemCount(q) \in 0..(QueueSize - 1)
      /\ ItemCount(q) = IF t >= h THEN t - h ELSE QueueSize - h + t
  BY <1>1 DEF ItemCount
<1>3. ASSUME NEW k \in 1..QueueSize
      PROVE  PlaceOf(q, k) = IF h + k - 1 < QueueSize THEN h + k - 1 ELSE h + k - 1 - QueueSize
  <2> DEFINE n == h + k - 1
  <2>1. n \in 0..(2 * QueueSize - 1)
    BY <1>1
  <2>2. n % QueueSize = IF n < QueueSize THEN n ELSE n - QueueSize
    <3> HIDE DEF n
    <3> QED
      BY <2>1, Wrap
  <2> QED
    BY <1>1, <2>1, <2>2 DEF PlaceOf
<1>4. ASSUME NEW k \in 1..ItemCount(q)
      PROVE  PlaceOf(q, k) \in Slots /\ Occupied(q, PlaceOf(q, k)) /\ RankOf(q, PlaceOf(q, k)) = k
  <2>1. k \in 1..QueueSize
    BY <1>1, <1>2
  <2>2. PlaceOf(q, k) = IF h + k - 1 < QueueSize THEN h + k - 1 ELSE h + k - 1 - QueueSize
    BY <1>3, <2>1
  <2> QED
    BY <1>1, <1>2, <2>1, <2>2 DEF Occupied, RankOf, Slots
<1>5. ASSUME NEW i \in Slots, Occupied(q, i)
      PROVE  RankOf(q, i) \in 1..ItemCount(q) /\ PlaceOf(q, RankOf(q, i)) = i
  <2> DEFINE k == RankOf(q, i)
  <2>1. k \in 1..ItemCount(q) /\ k \in 1..QueueSize
    BY <1>1, <1>2, <1>5 DEF Occupied, RankOf, Slots
  <2>2. PlaceOf(q, k) = IF h + k - 1 < QueueSize THEN h + k - 1 ELSE h + k - 1 - QueueSize
    <3> HIDE DEF k
    <3> QED
      BY <1>3, <2>1
  <2> QED
    BY <1>1, <2>1, <2>2 DEF RankOf, Slots
<1> QED
  BY <1>2, <1>4, <1>5

(* An item names an entry of a collected queue.                            *)
LEMMA ItemType ==
  ASSUME SQInv
  PROVE  /\ IsFiniteSet(Items) /\ Cardinality(Items) \in Nat
         /\ \A a \in Items : /\ a = <<a[1], a[2]>> /\ a[2] \in Queues /\ a[2] \in Collected
                             /\ a[1] \in 1..ItemCount(sq[a[2]]) /\ a[1] \in 1..QueueSize
         /\ \A q \in Collected : \A k \in 1..ItemCount(sq[q]) : <<k, q>> \in Items
<1>1. IsFiniteSet(1..QueueSize) /\ IsFiniteSet(Queues)
  <2>1. QueueSize \in Int
    BY Sizes
  <2>2. IsFiniteSet(1..QueueSize)
    BY <2>1, FS_Interval
  <2>3. IsFiniteSet(0..2)
    <3> DEFINE z == 0
               w == 2
    <3>1. z \in Int /\ w \in Int
      OBVIOUS
    <3>2. IsFiniteSet(z..w)
      <4> HIDE DEF z, w
      <4> QED
        BY <3>1, FS_Interval
    <3> QED
      BY <3>2
  <2> QED
    BY <2>2, <2>3 DEF Queues
<1>2. IsFiniteSet((1..QueueSize) \X Queues)
  BY <1>1, FS_Product
<1>3. Items \subseteq (1..QueueSize) \X Queues
  BY DEF Items
<1>4. IsFiniteSet(Items) /\ Cardinality(Items) \in Nat
  BY <1>2, <1>3, FS_Subset, FS_CardinalityType
<1>5. \A q \in Queues : ItemCount(sq[q]) \in 0..(QueueSize - 1)
  BY Places DEF SQInv, SQs
<1>6. \A a \in Items : /\ a = <<a[1], a[2]>> /\ a[2] \in Queues /\ a[2] \in Collected
                       /\ a[1] \in 1..QueueSize /\ a[1] <= ItemCount(sq[a[2]])
  BY DEF Items
<1>7. \A a \in Items : a[1] \in 1..ItemCount(sq[a[2]])
  BY <1>5, <1>6, Sizes
<1>8. ASSUME NEW q \in Collected, NEW k \in 1..ItemCount(sq[q]) PROVE <<k, q>> \in Items
  <2>1. q \in Queues /\ k \in 1..QueueSize /\ k <= ItemCount(sq[q])
    BY <1>5, Sizes DEF Collected
  <2> QED
    BY <2>1 DEF Items
<1> QED
  BY <1>4, <1>6, <1>7, <1>8

(* The order in which items are fetched is total.                          *)
LEMMA BeforeOrder ==
  ASSUME SQInv, NEW a \in Items, NEW b \in Items
  PROVE  /\ Before(a, a)
         /\ Before(a, b) \/ Before(b, a)
         /\ Before(a, b) /\ Before(b, a) => a = b
         /\ \A c \in Items : Before(c, a) /\ Before(a, b) => Before(c, b)
<1>1. \A c \in Items : /\ c = <<c[1], c[2]>> /\ c[1] \in Nat /\ c[2] \in Nat
                       /\ Class(c[2]) \in Nat
  BY ItemType, Sizes DEF Class
<1> QED
  BY <1>1 DEF Before

(* Each item has its turn, and each turn its item.                         *)
Rank(a) == Cardinality({b \in Items : Before(b, a)})

(* The items are numbered one to one.                                      *)
LEMMA Turns ==
  ASSUME SQInv
  PROVE  /\ \A a \in Items : Rank(a) \in 1..Cardinality(Items) /\ InTurn(Rank(a)) = a
         /\ \A i \in 1..Cardinality(Items) : InTurn(i) \in Items /\ Rank(InTurn(i)) = i
<1> DEFINE n == Cardinality(Items)
           D(a) == {b \in Items : Before(b, a)}
           f == [a \in Items |-> Rank(a)]
<1>1. IsFiniteSet(Items) /\ n \in Nat
  BY ItemType
<1>2. \A a \in Items : /\ D(a) \in SUBSET Items /\ IsFiniteSet(D(a)) /\ a \in D(a)
                       /\ Rank(a) = Cardinality(D(a))
  BY <1>1, FS_Subset, BeforeOrder DEF Rank
<1>3. \A a \in Items : Rank(a) \in 1..n
  <2> SUFFICES ASSUME NEW a \in Items PROVE Rank(a) \in 1..n
    OBVIOUS
  <2> DEFINE d == D(a)
  <2>1. d \in SUBSET Items /\ IsFiniteSet(d) /\ d # {} /\ Rank(a) = Cardinality(d)
    BY <1>2
  <2> HIDE DEF d
  <2>2. Cardinality(d) \in Nat /\ Cardinality(d) # 0 /\ Cardinality(d) <= n
    BY <1>1, <2>1, FS_Subset, FS_CardinalityType, FS_EmptySet
  <2> QED
    BY <1>1, <2>1, <2>2
<1>4. ASSUME NEW a \in Items, NEW b \in Items, a # b, Before(a, b)
      PROVE  Rank(a) # Rank(b)
  <2> DEFINE d == D(a)
             e == D(b)
  <2>1. d \in SUBSET e
    BY <1>4, BeforeOrder
  <2>2. b \in e /\ b \notin d
    BY <1>4, BeforeOrder
  <2>3. IsFiniteSet(e) /\ Rank(a) = Cardinality(d) /\ Rank(b) = Cardinality(e)
    BY <1>2
  <2> HIDE DEF d, e
  <2>4. Cardinality(e) = Cardinality(d) => e = d
    BY <2>1, <2>3, FS_Subset
  <2> QED
    BY <2>2, <2>3, <2>4
<1>5. \A a, b \in Items : Rank(a) = Rank(b) => a = b
  BY <1>4, BeforeOrder
<1>6. f \in Injection(Items, 1..n)
  BY <1>3, <1>5 DEF Injection, IsInjective
<1>7. IsFiniteSet(1..n) /\ Cardinality(1..n) = n
  BY <1>1, FS_Interval
<1>8. f \in Surjection(Items, 1..n)
  <2> DEFINE T == 1..n
  <2>1. f \in Injection(Items, T) /\ IsFiniteSet(T) /\ Cardinality(Items) = Cardinality(T)
    BY <1>6, <1>7
  <2> HIDE DEF T, f
  <2> QED
    BY <2>1, FS_Injection DEF T
<1>9. \A i \in 1..n : \E a \in Items : Rank(a) = i
  BY <1>8 DEF Surjection
<1>10. \A i : InTurn(i) = CHOOSE a \in Items : Rank(a) = i
  BY DEF InTurn, Rank
<1>11. \A i \in 1..n : InTurn(i) \in Items /\ Rank(InTurn(i)) = i
  BY <1>9, <1>10
<1>12. \A a \in Items : InTurn(Rank(a)) = a
  BY <1>3, <1>5, <1>11
<1> QED
  BY <1>3, <1>11, <1>12

(* A fetch names a slot that waits in a collected queue.                   *)
FetchesOf(n) ==
  /\ n = Cardinality(Items) /\ n \in Nat
  /\ Fetches \in Seq([q : Queues, at : Slots, last : BOOLEAN]) /\ DOMAIN Fetches = 1..n
  /\ \A i \in 1..n :
       LET f == Fetches[i] IN
       /\ f.q \in Collected /\ f.q = InTurn(i)[2] /\ f.q \in Queues
       /\ InTurn(i)[1] \in 1..ItemCount(sq[f.q]) /\ f.at = PlaceOf(sq[f.q], InTurn(i)[1])
       /\ f.at \in Slots /\ Occupied(sq[f.q], f.at)

(* Every fetch of a round does.                                            *)
LEMMA FetchesFact ==
  ASSUME SQInv
  PROVE  \E n : FetchesOf(n)
<1> DEFINE n == Cardinality(Items)
           S == [q : Queues, at : Slots, last : BOOLEAN]
<1>1. n \in Nat
  BY ItemType
<1>2. ASSUME NEW i \in 1..n
      PROVE  /\ InTurn(i)[2] \in Collected /\ InTurn(i)[2] \in Queues
             /\ InTurn(i)[1] \in 1..ItemCount(sq[InTurn(i)[2]])
             /\ PlaceOf(sq[InTurn(i)[2]], InTurn(i)[1]) \in Slots
             /\ Occupied(sq[InTurn(i)[2]], PlaceOf(sq[InTurn(i)[2]], InTurn(i)[1]))
  <2>1. InTurn(i) \in Items
    BY Turns
  <2>2. /\ InTurn(i)[2] \in Collected /\ InTurn(i)[2] \in Queues
        /\ InTurn(i)[1] \in 1..ItemCount(sq[InTurn(i)[2]])
    BY <2>1, ItemType
  <2>3. sq[InTurn(i)[2]].head \in Slots /\ sq[InTurn(i)[2]].tail \in Slots
    BY <2>2 DEF SQInv, SQs
  <2> QED
    BY <2>2, <2>3, Places
<1>3. Fetches = [i \in 1..n |-> [q |-> InTurn(i)[2],
                                 at |-> PlaceOf(sq[InTurn(i)[2]], InTurn(i)[1]),
                                 last |-> i = n]]
  BY DEF Fetches, PlaceOf
<1>4. \A i \in 1..n : Fetches[i] \in S
  BY <1>2, <1>3
<1>5. Fetches \in Seq(S)
  <2> HIDE DEF S, n
  <2>1. Fetches = [i \in 1..n |-> Fetches[i]]
    BY <1>3
  <2> QED
    BY <1>1, <1>4, <2>1
<1> QED
  BY <1>1, <1>2, <1>3, <1>5 DEF FetchesOf

(* What the end of a round does to the registers and the FIFO.             *)
LEMMA FetchedFact ==
  ASSUME registers \in Registers, NEW fifo, NEW scheduled, Fetched(fifo, scheduled)
  PROVE  /\ registers' \in Registers /\ registers'.limit = registers.limit
         /\ lSQFIFO' = fifo \/ lSQFIFO' = <<>>
BY DEF Fetched, Registers

(* What Work does to the queues.                                           *)
Emptied ==
  /\ sq' \in [Queues -> SQs]
  /\ \A r \in Queues :
       /\ sq'[r].live = sq[r].live /\ sq'[r].tail = sq[r].tail
       /\ sq'[r].cqID = sq[r].cqID /\ sq'[r].priority = sq[r].priority
       /\ sq'[r].mem = sq[r].mem
       /\ sq'[r].head = IF r \in Collected THEN sq[r].tail ELSE sq[r].head
  /\ fetching' = fetching \o Fetches
Worked ==
  /\ UNCHANGED <<sq, fetching>> \/ Emptied
  /\ registers' \in Registers /\ registers'.limit = registers.limit
  /\ lSQFIFO' = lSQFIFO \/ lSQFIFO' = <<>>

(* Every step of Work does that.                                           *)
LEMMA WorkEffect ==
  ASSUME FrontInv, Work
  PROVE  Worked
<1>1. registers \in Registers /\ sq \in [Queues -> SQs]
  BY DEF FrontInv, HostInv, SQInv
<1>2. registers' \in Registers /\ registers'.limit = registers.limit
      /\ (lSQFIFO' = lSQFIFO \/ lSQFIFO' = <<>>)
  <2>1. CASE registers.ready /\ Fetches = <<>>
    BY <1>1, <2>1, FetchedFact DEF Work
  <2>2. CASE ~(registers.ready /\ Fetches = <<>>)
    BY <1>1, <2>2 DEF Work
  <2> QED
    BY <2>1, <2>2
<1>3. CASE ~registers.ready
  BY <1>2, <1>3 DEF Work, Worked
<1>4. CASE registers.ready
  <2>1. /\ fetching' = fetching \o Fetches
        /\ sq' = [q \in Queues |-> IF q \in Collected
                                   THEN [sq[q] EXCEPT !.head = sq[q].tail] ELSE sq[q]]
    BY <1>4 DEF Work
  <2>2. \A q \in Queues :
          /\ sq[q] \in SQs
          /\ [sq[q] EXCEPT !.head = sq[q].tail] =
             [live |-> sq[q].live, head |-> sq[q].tail, tail |-> sq[q].tail,
              cqID |-> sq[q].cqID, priority |-> sq[q].priority, mem |-> sq[q].mem]
    BY <1>1 DEF SQs
  <2>3. \A q \in Queues : sq'[q] \in SQs
    <3> SUFFICES ASSUME NEW q \in Queues PROVE sq'[q] \in SQs
      OBVIOUS
    <3>1. CASE q \in Collected
      <4>1. sq'[q] = [live |-> sq[q].live, head |-> sq[q].tail, tail |-> sq[q].tail,
                      cqID |-> sq[q].cqID, priority |-> sq[q].priority, mem |-> sq[q].mem]
        BY <2>1, <2>2, <3>1
      <4> QED
        BY <1>1, <4>1 DEF SQs
    <3>2. CASE q \notin Collected
      BY <2>1, <2>2, <3>2
    <3> QED
      BY <3>1, <3>2
  <2>4. sq' \in [Queues -> SQs]
    BY <2>1, <2>3
  <2>5. Emptied
    BY <2>1, <2>2, <2>4 DEF Emptied
  <2> QED
    BY <1>2, <2>5 DEF Worked
<1> QED
  BY <1>3, <1>4

(* The queues and the fetches after Work.                                  *)
LEMMA WorkQueues ==
  ASSUME SQInv, FetchInv, HostInv, Emptied, UNCHANGED cmd
  PROVE  SQInv' /\ FetchInv' /\ Steady
<1>1. PICK n : FetchesOf(n)
  BY FetchesFact
<1>2. \A r \in Queues, i \in Slots : Occupied(sq[r], i)' => Occupied(sq[r], i)
  <2> SUFFICES ASSUME NEW r \in Queues, NEW i \in Slots, Occupied(sq[r], i)'
               PROVE  Occupied(sq[r], i)
    OBVIOUS
  <2>1. sq[r].head \in Nat /\ sq[r].tail \in Nat /\ i \in Nat
    BY Sizes DEF SQInv, SQs, Slots
  <2> QED
    BY <2>1 DEF Emptied, Occupied
<1>3. Steady
  BY CmdType, OpType DEF Steady, Emptied, Created, Cmds
<1>4. \A r : DeletesSQ(r)' <=> DeletesSQ(r)
  BY DEF DeletesSQ, Planned, Cmds
<1>5. SQInv'
  <2>1. sq'[0].live /\ sq'[0].cqID = 0 /\ sq' \in [Queues -> SQs]
    BY DEF SQInv, Emptied, Queues
  <2>2. \A q \in Queues, i \in Slots :
          /\ sq'[q].mem[i] # 0 => sq'[q].mem[i] \in Cmds' /\ cmd'[sq'[q].mem[i]].q = q
          /\ Occupied(sq[q], i)' => sq'[q].mem[i] # 0
    BY <1>2 DEF SQInv, Emptied, Cmds
  <2>3. \A c \in Cmds : sq'[cmd[c].q].live \/ DeletesSQ(cmd[c].q)'
    BY <1>4, CmdType DEF SQInv, Emptied
  <2> QED
    BY <2>1, <2>2, <2>3 DEF SQInv, Cmds
<1>6. FetchInv'
  <2> DEFINE S == [q : Queues, at : Slots, last : BOOLEAN]
  <2>1. fetching \in Seq(S) /\ Fetches \in Seq(S) /\ fetching' = fetching \o Fetches
        /\ n \in Nat /\ DOMAIN Fetches = 1..n
    BY <1>1 DEF FetchInv, FetchesOf, Emptied
  <2>2. /\ fetching' \in Seq(S)
        /\ \A i \in DOMAIN fetching' :
             \/ i \in DOMAIN fetching /\ fetching'[i] = fetching[i]
             \/ \E k \in DOMAIN Fetches : fetching'[i] = Fetches[k]
    <3> HIDE DEF S
    <3>1. /\ fetching' \in Seq(S) /\ DOMAIN fetching' = 1..(Len(fetching) + Len(Fetches))
          /\ DOMAIN fetching = 1..Len(fetching) /\ Len(fetching) \in Nat
          /\ DOMAIN Fetches = 1..Len(Fetches) /\ Len(Fetches) \in Nat
          /\ \A i \in 1..(Len(fetching) + Len(Fetches)) :
               fetching'[i] = IF i <= Len(fetching) THEN fetching[i]
                              ELSE Fetches[i - Len(fetching)]
      BY <2>1
    <3>2. ASSUME NEW i \in 1..(Len(fetching) + Len(Fetches)), ~(i <= Len(fetching))
          PROVE  i - Len(fetching) \in 1..Len(Fetches)
      BY <3>1, <3>2
    <3> QED
      BY <3>1, <3>2
  <2>3. \A i \in DOMAIN fetching : sq'[fetching[i].q].mem[fetching[i].at] # 0
    BY FetchType DEF FetchInv, Emptied
  <2>4. ASSUME NEW k \in DOMAIN Fetches PROVE sq'[Fetches[k].q].mem[Fetches[k].at] # 0
    <3>1. /\ Fetches[k].q \in Queues /\ Fetches[k].at \in Slots
          /\ Occupied(sq[Fetches[k].q], Fetches[k].at)
      BY <1>1, <2>1 DEF FetchesOf
    <3>2. sq[Fetches[k].q].mem[Fetches[k].at] # 0
      BY <3>1 DEF SQInv
    <3> QED
      BY <3>1, <3>2 DEF Emptied
  <2>5. \A i \in DOMAIN fetching' : sq'[fetching'[i].q].mem[fetching'[i].at] # 0
    BY <2>2, <2>3, <2>4
  <2> QED
    BY <2>2, <2>5 DEF FetchInv
<1> QED
  BY <1>3, <1>5, <1>6

(* The work event.                                                         *)
LEMMA WorkStep ==
  ASSUME FrontInv, BackInv, Work
  PROVE  FrontInv' /\ BackInv'
<1>1. PlanInv /\ HostInv /\ SQInv /\ FetchInv /\ EntryInv /\ Worked
  BY WorkEffect DEF FrontInv
<1>2. UNCHANGED <<plan, cmd, answers, gone, twice, coalesced, host, lSQByUser, rrUsers,
                  uidSQMap, running, lCQFIFO, cq, posting, sending, intr, aggregation>>
  BY DEF Work, postVars, histVars, hostVars
<1>3. /\ registers' \in Registers /\ registers'.limit = registers.limit
      /\ lSQFIFO' = lSQFIFO \/ lSQFIFO' = <<>>
  BY <1>1 DEF Worked
<1>4. SQInv' /\ FetchInv' /\ Steady /\ \A q \in Queues : sq'[q].live = sq[q].live
  <2>1. CASE Emptied
    BY <1>1, <1>2, <2>1, WorkQueues DEF Emptied
  <2>2. CASE UNCHANGED <<sq, fetching>>
    BY <1>1, <1>2, <2>2, SQFrame, FetchFrame, Still
  <2> QED
    BY <1>1, <2>1, <2>2 DEF Worked
<1>5. PlanInv' /\ HostInv'
  BY <1>1, <1>2, <1>3, <1>4, PlanFrame, HostFrame
<1>6. EntryInv'
  BY <1>1, <1>2, <1>3, <1>4, EntryFrame
<1>7. BackInv'
  BY <1>2, <1>4, BackFrame
<1> QED
  BY <1>4, <1>5, <1>6, <1>7 DEF FrontInv

(* What a read does: the entry of command c is staged.                     *)
ReadOut(c, e) ==
  /\ fetching # <<>> /\ fetching' = Tail(fetching)
  /\ c \in Cmds /\ c = sq[Head(fetching).q].mem[Head(fetching).at]
  /\ Head(fetching).q = cmd[c].q /\ sq[cmd[c].q].live
  /\ e \in Entries /\ IsEntry(e) /\ e.c = c /\ cmd[c].uid \in Users
  /\ Stage(e, cmd[c].uid)
  /\ lSQFIFO' = Append(lSQFIFO, e) \/ lSQFIFO' = <<>>
  /\ registers' \in Registers /\ registers'.limit = registers.limit

(* Every read that meets a live queue does that.                           *)
LEMMA ReadEffect ==
  ASSUME FrontInv, ReadDone, ~broken'
  PROVE  \E c, e : ReadOut(c, e) /\ UNCHANGED sq
<1> DEFINE f == Head(fetching)
           c == sq[f.q].mem[f.at]
           e == Wrapper(c, f.q)
<1>1. SQInv /\ FetchInv /\ HostInv /\ registers \in Registers /\ fetching # <<>>
  BY DEF FrontInv, HostInv, ReadDone
<1>2. sq[f.q].live
  BY DEF ReadDone
<1>3. f = fetching[1] /\ 1 \in DOMAIN fetching
  BY <1>1 DEF FetchInv
<1>4. f.q \in Queues /\ f.at \in Slots /\ c # 0
  BY <1>1, <1>3, FetchType DEF FetchInv
<1>5. c \in Cmds /\ cmd[c].q = f.q
  BY <1>1, <1>4 DEF SQInv
<1>6. cmd[c].uid \in Users /\ c \in Nat
  BY <1>1, <1>5, CmdType DEF Cmds
<1>7. sq[f.q] \in SQs
  BY <1>1, <1>4 DEF SQInv
<1>8. e \in Entries /\ e.c = c /\ e.sq = f.q /\ e.cq = sq[f.q].cqID
  BY <1>4, <1>6, <1>7 DEF Entries, Wrapper, SQs
<1>9. IsEntry(e)
  BY <1>5, <1>8 DEF IsEntry
<1>10. /\ fetching' = Tail(fetching) /\ Stage(e, cmd[c].uid) /\ UNCHANGED sq
       /\ IF f.last THEN Fetched(Append(lSQFIFO, e), events)
          ELSE lSQFIFO' = Append(lSQFIFO, e) /\ UNCHANGED registers
  BY <1>2 DEF ReadDone
<1>11. /\ registers' \in Registers /\ registers'.limit = registers.limit
       /\ lSQFIFO' = Append(lSQFIFO, e) \/ lSQFIFO' = <<>>
  <2> HIDE DEF e, f
  <2> QED
    BY <1>1, <1>10, FetchedFact
<1> HIDE DEF e, c
<1>12. ReadOut(c, e)
  BY <1>1, <1>2, <1>5, <1>6, <1>8, <1>9, <1>10, <1>11 DEF ReadOut, c
<1> QED
  BY <1>10, <1>12

(* The entries after a read.                                               *)
LEMMA ReadEntries ==
  ASSUME EntryInv, NEW c, NEW e, ReadOut(c, e), UNCHANGED <<cmd, sq, running, lCQFIFO>>
  PROVE  EntryInv'
<1> DEFINE u == cmd[c].uid
<1>1. /\ e \in Entries /\ IsEntry(e) /\ e.c = c /\ u \in Users /\ e.sq \in Queues
      /\ lSQByUser' = [lSQByUser EXCEPT ![u] = Append(@, e)]
      /\ uidSQMap' = [uidSQMap EXCEPT ![u] = @ \union {e.sq}]
      /\ rrUsers' = rrUsers \/ rrUsers' = Append(rrUsers, u)
  BY DEF ReadOut, Stage, Entries
<1>2. /\ lSQByUser \in [Users -> Seq(Entries)] /\ rrUsers \in Seq(Users)
      /\ uidSQMap \in [Users -> SUBSET Queues] /\ lSQFIFO \in Seq(Entries)
  BY DEF EntryInv
<1>3. \A v \in Users : lSQByUser'[v] = IF v = u THEN Append(lSQByUser[u], e) ELSE lSQByUser[v]
  BY <1>1, <1>2
<1>4. lSQByUser' \in [Users -> Seq(Entries)]
  <2> HIDE DEF u
  <2> QED
    BY <1>1, <1>2
<1>5. uidSQMap' \in [Users -> SUBSET Queues] /\ rrUsers' \in Seq(Users)
  <2> HIDE DEF u
  <2>1. uidSQMap[u] \union {e.sq} \in SUBSET Queues
    BY <1>1, <1>2
  <2>2. uidSQMap' \in [Users -> SUBSET Queues]
    BY <1>1, <1>2, <2>1
  <2>3. rrUsers \in Seq(Users) /\ u \in Users
    BY <1>1, <1>2
  <2>4. Append(rrUsers, u) \in Seq(Users)
    BY <2>3
  <2>5. rrUsers' \in Seq(Users)
    BY <1>1, <2>3, <2>4
  <2> QED
    BY <2>2, <2>5
<1>6. ASSUME NEW v \in Users, NEW i \in DOMAIN lSQByUser'[v]
      PROVE  IsEntry(lSQByUser'[v][i]) /\ cmd[lSQByUser'[v][i].c].uid = v
  <2>1. CASE v = u
    <3> DEFINE s == lSQByUser[u]
    <3>1. s \in Seq(Entries) /\ lSQByUser'[v] = Append(s, e)
      BY <1>1, <1>2, <1>3, <2>1
    <3>2. (i \in DOMAIN s /\ lSQByUser'[v][i] = s[i]) \/ lSQByUser'[v][i] = e
      <4> HIDE DEF s
      <4> QED
        BY <3>1
    <3> QED
      BY <1>1, <2>1, <3>2 DEF EntryInv
  <2>2. CASE v # u
    BY <1>3, <2>2 DEF EntryInv
  <2> QED
    BY <2>1, <2>2
<1>7. lSQFIFO' \in Seq(Entries) /\ \A i \in DOMAIN lSQFIFO' : IsEntry(lSQFIFO'[i])
  <2>1. CASE lSQFIFO' = <<>>
    BY <2>1
  <2>2. CASE lSQFIFO' = Append(lSQFIFO, e)
    <3>1. \A i \in DOMAIN lSQFIFO' : (i \in DOMAIN lSQFIFO /\ lSQFIFO'[i] = lSQFIFO[i])
                                     \/ lSQFIFO'[i] = e
      BY <1>1, <1>2, <2>2
    <3> QED
      BY <1>1, <1>2, <2>2, <3>1 DEF EntryInv
  <2> QED
    BY <2>1, <2>2 DEF ReadOut
<1>8. \A x : IsEntry(x)' <=> IsEntry(x)
  BY DEF IsEntry, Cmds
<1>9. \A x : Created(x)' <=> Created(x)
  BY DEF Created
<1> QED
  BY <1>4, <1>5, <1>6, <1>7, <1>8, <1>9 DEF EntryInv

(* The end of a read.                                                      *)
LEMMA ReadStep ==
  ASSUME FrontInv, BackInv, ReadDone, ~broken'
  PROVE  FrontInv' /\ BackInv'
<1>1. PlanInv /\ HostInv /\ SQInv /\ FetchInv /\ EntryInv
  BY DEF FrontInv
<1>2. UNCHANGED <<plan, cmd, answers, gone, twice, coalesced, host, running, lCQFIFO, cq,
                  posting, sending, intr, aggregation>>
  BY DEF ReadDone, postVars, histVars, hostVars
<1>3. PICK c, e : ReadOut(c, e) /\ UNCHANGED sq
  BY ReadEffect
<1>4. registers' \in Registers /\ registers'.limit = registers.limit
      /\ fetching # <<>> /\ fetching' = Tail(fetching)
  BY <1>3 DEF ReadOut
<1>5. PlanInv' /\ HostInv' /\ SQInv'
  BY <1>1, <1>2, <1>3, <1>4, PlanFrame, HostFrame, SQFrame
<1>6. FetchInv'
  <2> DEFINE S == [q : Queues, at : Slots, last : BOOLEAN]
  <2>1. fetching \in Seq(S)
    BY <1>1 DEF FetchInv
  <2>2. fetching' \in Seq(S)
        /\ \A i \in DOMAIN fetching' : i + 1 \in DOMAIN fetching /\ fetching'[i] = fetching[i + 1]
    <3> HIDE DEF S
    <3> QED
      BY <1>4, <2>1
  <2> QED
    BY <1>1, <1>3, <2>2 DEF FetchInv
<1>7. EntryInv'
  BY <1>1, <1>2, <1>3, ReadEntries
<1>8. BackInv'
  BY <1>2, <1>3, Still, BackFrame
<1> QED
  BY <1>5, <1>6, <1>7, <1>8 DEF FrontInv

-----------------------------------------------------------------------------
(* The sweep over the deprecated FIFO *)

(* The places of a command among the first k of a list.                    *)
UpToAt(list, c, k) == {i \in 1..k : list[i].c = c}
PlacesGrow(list, c, k) ==
  /\ Cardinality(UpToAt(list, c, k - 1)) \in Nat
  /\ Cardinality(UpToAt(list, c, k)) =
       Cardinality(UpToAt(list, c, k - 1)) + IF list[k].c = c THEN 1 ELSE 0

(* They grow by one where the command is.                                  *)
LEMMA UpToGrows ==
  ASSUME NEW list, NEW c, NEW k \in Nat, k > 0
  PROVE  PlacesGrow(list, c, k)
<1> DEFINE A == UpToAt(list, c, k - 1)
<1>1. IsFiniteSet(1..(k - 1)) /\ A \subseteq 1..(k - 1)
  BY FS_Interval DEF UpToAt
<1>2. IsFiniteSet(A) /\ k \notin A
  BY <1>1, FS_Subset
<1>3. UpToAt(list, c, k) = IF list[k].c = c THEN A \union {k} ELSE A
  BY DEF UpToAt
<1> HIDE DEF A
<1>4. Cardinality(A) \in Nat /\ Cardinality(A \union {k}) = Cardinality(A) + 1
  BY <1>2, FS_CardinalityType, FS_AddElement
<1> QED
  BY <1>3, <1>4 DEF PlacesGrow, A

(* How many places there are before the first entry and up to the last.    *)
LEMMA UpToEnds ==
  ASSUME NEW S, NEW list \in Seq(S), NEW c
  PROVE  /\ Cardinality(UpToAt(list, c, 0)) = 0
         /\ Cardinality(UpToAt(list, c, Len(list))) = InSeq(list, c)
<1>1. UpToAt(list, c, 0) = {}
  BY DEF UpToAt
<1>2. UpToAt(list, c, Len(list)) = {i \in DOMAIN list : list[i].c = c}
  BY DEF UpToAt
<1> QED
  BY <1>1, <1>2, FS_EmptySet DEF InSeq

(* The states of the sweep: what is kept, and what of queue q is answered. *)
SweepStates(E, q) == [kept : Seq(E), done : Seq({x \in E : x.sq = q}), skip : BOOLEAN]
Divided(s, c) == InSeq(s.kept, c) + InSeq(s.done, c)
Divides(s, fifo, done, c) == Divided(s, c) = InSeq(fifo, c) + InSeq(done, c)

(* A turn of the sweep.                                                    *)
LEMMA TurnedFact ==
  ASSUME NEW E, NEW q, NEW s \in SweepStates(E, q), NEW e \in E, NEW c
  PROVE  /\ Turned(s, e, q) \in SweepStates(E, q)
         /\ Divided(s, c) \in Nat
         /\ Divided(Turned(s, e, q), c) = Divided(s, c) + IF e.c = c THEN 1 ELSE 0
<1> DEFINE D == {x \in E : x.sq = q}
<1>1. s.kept \in Seq(E) /\ s.done \in Seq(D) /\ s.skip \in BOOLEAN
  BY DEF SweepStates
<1>2. InSeq(s.kept, c) \in Nat /\ InSeq(s.done, c) \in Nat
  <2> HIDE DEF D
  <2> QED
    BY <1>1, AtFinite
<1>3. CASE ~s.skip /\ e.sq = q
  <2>1. Turned(s, e, q) = [kept |-> s.kept, done |-> Append(s.done, e), skip |-> TRUE]
    BY <1>3 DEF Turned
  <2>2. e \in D
    BY <1>3
  <2>3. Append(s.done, e) \in Seq(D)
        /\ InSeq(Append(s.done, e), c) = InSeq(s.done, c) + IF e.c = c THEN 1 ELSE 0
    <3> HIDE DEF D
    <3> QED
      BY <1>1, <2>2, InAppend
  <2>4. Turned(s, e, q) \in SweepStates(E, q)
    BY <1>1, <2>1, <2>3 DEF SweepStates
  <2> QED
    BY <1>2, <2>1, <2>3, <2>4 DEF Divided
<1>4. CASE ~(~s.skip /\ e.sq = q)
  <2>1. Turned(s, e, q) = [kept |-> Append(s.kept, e), done |-> s.done, skip |-> FALSE]
    BY <1>4 DEF Turned
  <2>2. Append(s.kept, e) \in Seq(E)
        /\ InSeq(Append(s.kept, e), c) = InSeq(s.kept, c) + IF e.c = c THEN 1 ELSE 0
    BY <1>1, InAppend
  <2>3. Turned(s, e, q) \in SweepStates(E, q)
    BY <1>1, <2>1, <2>2 DEF SweepStates
  <2> QED
    BY <1>2, <2>1, <2>2, <2>3 DEF Divided
<1> QED
  BY <1>3, <1>4

IsSweep(f, fifo, done, q) ==
  f = [n \in 0..Len(fifo) |-> IF n = 0 THEN [kept |-> <<>>, done |-> done, skip |-> FALSE]
                              ELSE Turned(f[n - 1], fifo[n], q)]
SweepRuns(f, E, fifo, done, q) ==
  /\ f[0] = [kept |-> <<>>, done |-> done, skip |-> FALSE]
  /\ \A k \in 0..Len(fifo) : f[k] \in SweepStates(E, q)
  /\ \A k \in 1..Len(fifo) : f[k] = Turned(f[k - 1], fifo[k], q)
  /\ Sweep(fifo, done, q) = f[Len(fifo)]

(* The sweep has a run.                                                    *)
LEMMA SweepRun ==
  ASSUME NEW E, NEW q, NEW fifo \in Seq(E), NEW done \in Seq({x \in E : x.sq = q})
  PROVE  \E f : SweepRuns(f, E, fifo, done, q)
<1> DEFINE n == Len(fifo)
           T == SweepStates(E, q)
           b == [kept |-> <<>>, done |-> done, skip |-> FALSE]
           g == [k \in 1..n |-> [x \in T |-> Turned(x, fifo[k], q)]]
<1>1. n \in Nat /\ \A k \in 1..n : fifo[k] \in E
  OBVIOUS
<1>2. b \in T
  BY DEF SweepStates
<1>3. ASSUME NEW k \in 1..n, NEW x \in T PROVE Turned(x, fifo[k], q) \in T
  <2> HIDE DEF n
  <2> QED
    BY <1>1, TurnedFact
<1> HIDE DEF b, T
<1>4. g \in [1..n -> [T -> T]]
  BY <1>3
<1>5. PICK f : IsRun(f, n, T, b, g)
  <2> HIDE DEF n, g
  <2> QED
    BY <1>1, <1>2, <1>4, RunExists DEF IsLoop
<1>6. f \in [0..n -> T] /\ f[0] = b /\ \A k \in 1..n : f[k] = g[k][f[k - 1]]
  BY <1>5 DEF IsRun
<1>7. ASSUME NEW k \in 1..n PROVE f[k] = Turned(f[k - 1], fifo[k], q)
  <2>1. f[k - 1] \in T
    <3>1. k - 1 \in 0..n
      BY <1>1
    <3> HIDE DEF n, g
    <3> QED
      BY <1>6, <3>1
  <2> QED
    BY <1>6, <2>1
<1>8. IsSweep(f, fifo, done, q)
  <2>1. f = [k \in 0..n |-> f[k]]
    BY <1>6
  <2>2. \A k \in 0..n : f[k] = IF k = 0 THEN b ELSE Turned(f[k - 1], fifo[k], q)
    BY <1>1, <1>6, <1>7
  <2> QED
    BY <2>1, <2>2 DEF IsSweep, b
<1> DEFINE out == CHOOSE h : IsSweep(h, fifo, done, q)
<1>9. IsSweep(out, fifo, done, q)
  BY <1>8
<1>10. Sweep(fifo, done, q) = out[n]
  BY DEF Sweep, IsSweep
<1> HIDE DEF out
<1>11. \A k \in 0..n : out[k] = IF k = 0 THEN b ELSE Turned(out[k - 1], fifo[k], q)
  BY <1>9 DEF IsSweep, b
<1>12. out[0] = b
  <2>1. 0 \in 0..n
    BY <1>1
  <2> QED
    BY <1>11, <2>1
<1>13. \A k \in 1..n : out[k] = Turned(out[k - 1], fifo[k], q)
  BY <1>1, <1>11
<1>14. \A k \in 0..n : out[k] \in T
  <2>1. \A k \in 1..n : out[k - 1] \in T => out[k] \in T
    BY <1>3, <1>13
  <2> HIDE DEF n
  <2> QED
    BY <1>1, <1>2, <1>12, <2>1, StaysIn
<1> QED
  BY <1>10, <1>12, <1>13, <1>14 DEF SweepRuns, b, T

(* A sweep divides the FIFO.                                               *)
LEMMA SweepFact ==
  ASSUME NEW E, NEW q, NEW fifo \in Seq(E), NEW done \in Seq({x \in E : x.sq = q}), NEW c
  PROVE  /\ Sweep(fifo, done, q) \in SweepStates(E, q)
         /\ Divides(Sweep(fifo, done, q), fifo, done, c)
<1>1. PICK f : SweepRuns(f, E, fifo, done, q)
  BY SweepRun
<1> DEFINE n == Len(fifo)
           U(k) == Cardinality(UpToAt(fifo, c, k))
           G == {k \in 0..n : U(k) \in Nat /\ Divided(f[k], c) = U(k) + InSeq(done, c)}
<1>2. /\ n \in Nat /\ \A k \in 1..n : fifo[k] \in E
      /\ f[0] = [kept |-> <<>>, done |-> done, skip |-> FALSE]
      /\ \A k \in 0..n : f[k] \in SweepStates(E, q)
      /\ \A k \in 1..n : f[k] = Turned(f[k - 1], fifo[k], q)
  BY <1>1 DEF SweepRuns
<1>3. InSeq(done, c) \in Nat /\ InSeq(<<>>, c) = 0
  <2>1. InSeq(done, c) \in Nat
    <3> DEFINE D == {x \in E : x.sq = q}
    <3>1. done \in Seq(D)
      OBVIOUS
    <3> HIDE DEF D
    <3> QED
      BY <3>1, AtFinite
  <2>2. {i \in DOMAIN <<>> : <<>>[i].c = c} = {}
    OBVIOUS
  <2> QED
    BY <2>1, <2>2, FS_EmptySet DEF InSeq
<1>4. 0 \in G
  <2>1. U(0) = 0
    BY UpToEnds
  <2>2. Divided(f[0], c) = InSeq(done, c)
    BY <1>2, <1>3 DEF Divided
  <2> HIDE DEF U
  <2> QED
    BY <1>2, <1>3, <2>1, <2>2
<1>5. ASSUME NEW k \in 1..n, k - 1 \in G PROVE k \in G
  <2>1. f[k - 1] \in SweepStates(E, q) /\ fifo[k] \in E /\ f[k] = Turned(f[k - 1], fifo[k], q)
    BY <1>2
  <2>2. Divided(f[k], c) = Divided(f[k - 1], c) + IF fifo[k].c = c THEN 1 ELSE 0
    BY <2>1, TurnedFact
  <2>3. PlacesGrow(fifo, c, k)
    BY <1>2, UpToGrows
  <2>4. U(k) = U(k - 1) + (IF fifo[k].c = c THEN 1 ELSE 0) /\ U(k - 1) \in Nat
    BY <2>3 DEF PlacesGrow
  <2>5. Divided(f[k - 1], c) = U(k - 1) + InSeq(done, c)
    BY <1>5
  <2> HIDE DEF U
  <2> QED
    BY <1>3, <2>2, <2>4, <2>5
<1>6. 0..n \subseteq G
  <2> HIDE DEF G, n
  <2> QED
    BY <1>2, <1>4, <1>5, UpTo
<1>7. Divided(f[n], c) = U(n) + InSeq(done, c) /\ f[n] \in SweepStates(E, q)
  BY <1>2, <1>6
<1>8. U(n) = InSeq(fifo, c)
  BY UpToEnds
<1> QED
  BY <1>1, <1>7, <1>8 DEF SweepRuns, Divides

(* One more pass.                                                          *)
Divisions(E, q, fifo) ==
  {s \in SweepStates(E, q) : \A c \in Nat : Divided(s, c) = InSeq(fifo, c)}

(* A further pass divides the FIFO as well.                                *)
LEMMA AgainFact ==
  ASSUME NEW E, NEW q, NEW fifo \in Seq(E), NEW s \in Divisions(E, q, fifo)
  PROVE  Again(s, q) \in Divisions(E, q, fifo)
<1>1. s \in SweepStates(E, q) /\ \A c \in Nat : Divided(s, c) = InSeq(fifo, c)
  BY DEF Divisions
<1>2. CASE s.skip
  <2> DEFINE D == {x \in E : x.sq = q}
             t == Sweep(s.kept, s.done, q)
  <2>1. s.kept \in Seq(E) /\ s.done \in Seq(D)
    BY <1>1 DEF SweepStates
  <2>2. t \in SweepStates(E, q) /\ Again(s, q) = t
    BY <1>2, <2>1, SweepFact DEF Again
  <2>3. ASSUME NEW c \in Nat PROVE Divided(t, c) = InSeq(fifo, c)
    <3>1. Divides(t, s.kept, s.done, c)
      BY <2>1, SweepFact
    <3>2. Divided(s, c) = InSeq(fifo, c)
      BY <1>1
    <3> HIDE DEF t
    <3> QED
      BY <3>1, <3>2 DEF Divided, Divides
  <2> HIDE DEF t
  <2> QED
    BY <2>2, <2>3 DEF Divisions
<1>3. CASE ~s.skip
  BY <1>3 DEF Again
<1> QED
  BY <1>2, <1>3

IsSweeps(f, fifo, q) ==
  f = [n \in 0..Len(fifo) |-> IF n = 0 THEN Sweep(fifo, <<>>, q) ELSE Again(f[n - 1], q)]

(* Whatever number of passes the loop makes, it divides the FIFO into what *)
(* is kept and what of the queue is answered.                              *)
LEMMA SweepsFact ==
  ASSUME NEW E, NEW q, NEW fifo \in Seq(E), NEW s \in Sweeps(fifo, q)
  PROVE  s \in Divisions(E, q, fifo)
<1> DEFINE n == Len(fifo)
           T == Divisions(E, q, fifo)
           b == Sweep(fifo, <<>>, q)
           g == [k \in 1..n |-> [x \in T |-> Again(x, q)]]
<1>1. n \in Nat
  OBVIOUS
<1>2. b \in T
  <2> DEFINE none == <<>>
             D == {x \in E : x.sq = q}
  <2>1. none \in Seq(D)
    OBVIOUS
  <2>3. ASSUME NEW c \in Nat PROVE InSeq(none, c) = 0
    <3>1. {i \in DOMAIN <<>> : <<>>[i].c = c} = {}
      OBVIOUS
    <3> QED
      BY <3>1, FS_EmptySet DEF InSeq
  <2> HIDE DEF none
  <2>4. ASSUME NEW c \in Nat
        PROVE  /\ Sweep(fifo, none, q) \in SweepStates(E, q)
               /\ Divided(Sweep(fifo, none, q), c) = InSeq(fifo, c)
    <3>1. InSeq(fifo, c) \in Nat
      BY AtFinite
    <3>2. /\ Sweep(fifo, none, q) \in SweepStates(E, q)
          /\ Divides(Sweep(fifo, none, q), fifo, none, c)
      BY <2>1, SweepFact
    <3> QED
      BY <2>3, <3>1, <3>2 DEF Divides
  <2>5. 0 \in Nat
    OBVIOUS
  <2>6. Sweep(fifo, none, q) \in SweepStates(E, q)
    BY <2>4, <2>5
  <2>7. Sweep(fifo, none, q) \in T
    BY <2>4, <2>6 DEF Divisions
  <2> QED
    BY <2>7 DEF none
<1>3. ASSUME NEW x \in T PROVE Again(x, q) \in T
  BY AgainFact
<1> HIDE DEF b, T
<1>4. g \in [1..n -> [T -> T]]
  BY <1>3
<1>5. PICK f : IsRun(f, n, T, b, g)
  <2> HIDE DEF n, g
  <2> QED
    BY <1>1, <1>2, <1>4, RunExists DEF IsLoop
<1>6. f \in [0..n -> T] /\ f[0] = b /\ \A k \in 1..n : f[k] = g[k][f[k - 1]]
  BY <1>5 DEF IsRun
<1>7. ASSUME NEW k \in 1..n PROVE f[k] = Again(f[k - 1], q)
  <2>1. f[k - 1] \in T
    <3>1. k - 1 \in 0..n
      BY <1>1
    <3> HIDE DEF n, g
    <3> QED
      BY <1>6, <3>1
  <2> QED
    BY <1>6, <2>1
<1>8. IsSweeps(f, fifo, q)
  <2>1. f = [k \in 0..n |-> f[k]]
    BY <1>6
  <2>2. \A k \in 0..n : f[k] = IF k = 0 THEN b ELSE Again(f[k - 1], q)
    BY <1>1, <1>6, <1>7
  <2> QED
    BY <2>1, <2>2 DEF IsSweeps, b
<1> DEFINE out == CHOOSE h : IsSweeps(h, fifo, q)
<1>9. IsSweeps(out, fifo, q)
  BY <1>8
<1>10. Sweeps(fifo, q) = {out[k] : k \in 0..n}
  BY DEF Sweeps, IsSweeps
<1> HIDE DEF out
<1>11. \A k \in 0..n : out[k] = IF k = 0 THEN b ELSE Again(out[k - 1], q)
  BY <1>9 DEF IsSweeps, b
<1>12. out[0] = b
  <2>1. 0 \in 0..n
    BY <1>1
  <2> QED
    BY <1>11, <2>1
<1>13. \A k \in 1..n : out[k] = Again(out[k - 1], q)
  BY <1>1, <1>11
<1>14. \A k \in 0..n : out[k] \in T
  <2>1. \A k \in 1..n : out[k - 1] \in T => out[k] \in T
    BY <1>3, <1>13
  <2> HIDE DEF n
  <2> QED
    BY <1>1, <1>2, <1>12, <2>1, StaysIn
<1> QED
  BY <1>10, <1>14 DEF T

(* How often a command is left in a list without some of its entries.      *)
LeftAt(list, at, c, k) == {i \in 1..k : i \notin at /\ list[i].c = c}

(* It is in the rest as often as at the places that stay.                  *)
LEMMA WithoutCount ==
  ASSUME NEW S, NEW list \in Seq(S), NEW at, NEW c
  PROVE  InSeq(Without(list, at), c) = Cardinality(LeftAt(list, at, c, Len(list)))
<1>1. PICK f : RunsWithout(f, S, list, at)
  BY WithoutRun
<1> DEFINE n == Len(list)
           T == Seq(S)
           U(k) == Cardinality(LeftAt(list, at, c, k))
           G == {k \in 0..n : InSeq(f[k], c) = U(k)}
<1>2. /\ n \in Nat /\ f \in [0..n -> T] /\ \A k \in 1..n : list[k] \in S
      /\ f[0] = <<>> /\ \A k \in 1..n : f[k] = Skipping(list, at, k, f[k - 1])
  BY <1>1 DEF RunsWithout
<1>3. \A k \in 0..n : f[k] \in T
  <2> HIDE DEF T, n
  <2> QED
    BY <1>2
<1>4. 0 \in G
  <2>1. LeftAt(list, at, c, 0) = {} /\ {i \in DOMAIN <<>> : <<>>[i].c = c} = {}
    BY DEF LeftAt
  <2> QED
    BY <1>2, <2>1, FS_EmptySet DEF InSeq
<1>5. ASSUME NEW k \in 1..n, k - 1 \in G PROVE k \in G
  <2> DEFINE A == LeftAt(list, at, c, k - 1)
             s == f[k - 1]
  <2>1. s \in T /\ list[k] \in S /\ f[k] = Skipping(list, at, k, s)
        /\ InSeq(s, c) = Cardinality(A) /\ k \in 0..n
    BY <1>2, <1>3, <1>5
  <2>2. IsFiniteSet(1..(k - 1)) /\ A \subseteq 1..(k - 1) /\ k \notin A
    BY FS_Interval DEF LeftAt
  <2>3. LeftAt(list, at, c, k) = IF k \notin at /\ list[k].c = c THEN A \union {k} ELSE A
    BY DEF LeftAt
  <2> HIDE DEF A
  <2>4. IsFiniteSet(A) /\ Cardinality(A) \in Nat
        /\ Cardinality(A \union {k}) = Cardinality(A) + 1
    BY <2>2, FS_Subset, FS_CardinalityType, FS_AddElement
  <2>5. CASE k \in at
    BY <2>1, <2>3, <2>5 DEF Skipping
  <2>6. CASE k \notin at
    <3>1. f[k] = Append(s, list[k])
      BY <2>1, <2>6 DEF Skipping
    <3>2. InSeq(Append(s, list[k]), c) = InSeq(s, c) + IF list[k].c = c THEN 1 ELSE 0
      <4> HIDE DEF s
      <4> QED
        BY <2>1, InAppend
    <3>3. InSeq(f[k], c) = Cardinality(A) + IF list[k].c = c THEN 1 ELSE 0
      <4> HIDE DEF s
      <4> QED
        BY <2>1, <3>1, <3>2
    <3>4. Cardinality(LeftAt(list, at, c, k)) = Cardinality(A) + IF list[k].c = c THEN 1 ELSE 0
      BY <2>3, <2>4, <2>6
    <3> QED
      BY <2>1, <3>3, <3>4
  <2> QED
    BY <2>5, <2>6
<1>6. 0..n \subseteq G
  <2> HIDE DEF G, n
  <2> QED
    BY <1>2, <1>4, <1>5, UpTo
<1>7. n \in G
  BY <1>2, <1>6
<1> QED
  BY <1>1, <1>7 DEF RunsWithout

-----------------------------------------------------------------------------
(* Answering *)

(* A queue number is not both created and deleted.                         *)
LEMMA OnceSQ ==
  ASSUME PlanInv, HostInv, NumbersUsedOnce, NEW c \in Cmds, cmd[c].op.op = "createSQ"
  PROVE  ~DeletesSQ(cmd[c].op.q)
<1> DEFINE q == cmd[c].op.q
           d == [op |-> "deleteSQ", q |-> q]
<1>1. PICK s \in Scenarios : \A x \in Cmds : IF cmd[x].q = 0 THEN cmd[x].op \in s.plan
                                              ELSE cmd[x].op = IOCommand
  BY DEF PlanInv
<1>2. SUFFICES ASSUME DeletesSQ(q) PROVE FALSE
  OBVIOUS
<1>3. PICK x \in Cmds : cmd[x].op = d
  BY <1>2 DEF DeletesSQ, Planned
<1>4. d \in s.plan
  BY <1>1, <1>3 DEF IOCommand
<1>5. cmd[c].op \in s.plan
  BY <1>1 DEF IOCommand
<1>6. q \in Queues
  BY CmdType, OpType
<1> HIDE DEF d
<1> QED
  BY <1>4, <1>5, <1>6 DEF NumbersUsedOnce, d

(* The same for completion queues.                                         *)
LEMMA OnceCQ ==
  ASSUME PlanInv, HostInv, NumbersUsedOnce, NEW c \in Cmds, cmd[c].op.op = "createCQ"
  PROVE  ~DeletesCQ(cmd[c].op.q)
<1> DEFINE q == cmd[c].op.q
           d == [op |-> "deleteCQ", q |-> q]
<1>1. PICK s \in Scenarios : \A x \in Cmds : IF cmd[x].q = 0 THEN cmd[x].op \in s.plan
                                              ELSE cmd[x].op = IOCommand
  BY DEF PlanInv
<1>2. SUFFICES ASSUME DeletesCQ(q) PROVE FALSE
  OBVIOUS
<1>3. PICK x \in Cmds : cmd[x].op = d
  BY <1>2 DEF DeletesCQ, Planned
<1>4. d \in s.plan
  BY <1>1, <1>3 DEF IOCommand
<1>5. cmd[c].op \in s.plan
  BY <1>1 DEF IOCommand
<1>6. q \in Queues
  BY CmdType, OpType
<1> HIDE DEF d
<1> QED
  BY <1>4, <1>5, <1>6 DEF NumbersUsedOnce, d

(* A command that is not an admin command creates nothing.                 *)
LEMMA CreatedIO ==
  ASSUME PlanInv, HostInv, NEW c \in Cmds, cmd[c].q # 0
  PROVE  cmd[c].op = IOCommand /\ Created(c)
<1>1. cmd[c].op = IOCommand
  BY DEF PlanInv
<1> QED
  BY <1>1 DEF Created, IOCommand

(* What happens to the entries when a command ends: some staged entries    *)
(* and some of the FIFO are dropped, and the answers in list are added.    *)
Drops ==
  /\ lSQByUser' \in [Users -> Seq(Entries)]
  /\ \A u \in Users : \A i \in DOMAIN lSQByUser'[u] :
       \E j \in DOMAIN lSQByUser[u] : lSQByUser'[u][i] = lSQByUser[u][j]
  /\ rrUsers' \in Seq(Users) /\ uidSQMap' \in [Users -> SUBSET Queues]
  /\ lSQFIFO' \in Seq(Entries)
  /\ \A i \in DOMAIN lSQFIFO' : \E j \in DOMAIN lSQFIFO : lSQFIFO'[i] = lSQFIFO[j]
Ends(e, list) ==
  /\ running' = running \ {e} /\ list \in Seq(Entries) /\ lCQFIFO' = lCQFIFO \o list
  /\ \A i \in DOMAIN list : IsEntry(list[i]) /\ Created(list[i].c)'

(* Nothing is dropped.                                                     *)
LEMMA DropsNothing ==
  ASSUME EntryInv, UNCHANGED <<lSQByUser, uidSQMap, rrUsers, lSQFIFO>>
  PROVE  Drops
<1>1. /\ lSQByUser' \in [Users -> Seq(Entries)] /\ rrUsers' \in Seq(Users)
      /\ uidSQMap' \in [Users -> SUBSET Queues] /\ lSQFIFO' \in Seq(Entries)
  BY DEF EntryInv
<1> QED
  BY <1>1 DEF Drops

(* The entries after the end of a command.                                 *)
LEMMA EndEntries ==
  ASSUME EntryInv, Steady, NEW e, NEW list, Drops, Ends(e, list)
  PROVE  EntryInv'
<1>1. /\ lSQByUser' \in [Users -> Seq(Entries)] /\ rrUsers' \in Seq(Users)
      /\ uidSQMap' \in [Users -> SUBSET Queues] /\ lSQFIFO' \in Seq(Entries)
  BY DEF Drops
<1>2. ASSUME NEW u \in Users, NEW i \in DOMAIN lSQByUser'[u]
      PROVE  (IsEntry(lSQByUser[u][i]) /\ cmd[lSQByUser[u][i].c].uid = u)'
  <2>1. PICK j \in DOMAIN lSQByUser[u] : lSQByUser'[u][i] = lSQByUser[u][j]
    BY DEF Drops
  <2> DEFINE x == lSQByUser[u][j]
  <2>2. IsEntry(x) /\ cmd[x.c].uid = u
    BY DEF EntryInv
  <2>3. \E y : y = x /\ IsEntry(y) /\ cmd[y.c].uid = u
    BY <2>2
  <2> HIDE DEF x
  <2>4. PICK y : y = x /\ IsEntry(y) /\ cmd[y.c].uid = u
    BY <2>3
  <2>5. IsEntry(y)' /\ cmd'[y.c] = cmd[y.c]
    BY <2>4, SteadyEntry DEF Steady, IsEntry
  <2> QED
    BY <2>1, <2>4, <2>5 DEF x
<1>3. ASSUME NEW i \in DOMAIN lSQFIFO' PROVE IsEntry(lSQFIFO[i])'
  <2>1. PICK j \in DOMAIN lSQFIFO : lSQFIFO'[i] = lSQFIFO[j]
    BY DEF Drops
  <2>2. PICK y : y = lSQFIFO[j] /\ IsEntry(y)
    BY DEF EntryInv
  <2>3. IsEntry(y)'
    BY <2>2, SteadyEntry
  <2> QED
    BY <2>1, <2>2, <2>3
<1>4. /\ running' \subseteq Entries /\ IsFiniteSet(running') /\ \A x \in running' : IsEntry(x)'
  BY SteadyEntry, FS_RemoveElement DEF EntryInv, Ends
<1>5. /\ lCQFIFO' \in Seq(Entries)
      /\ \A i \in DOMAIN lCQFIFO' : (IsEntry(lCQFIFO[i]) /\ Created(lCQFIFO[i].c))'
  <2>1. lCQFIFO \in Seq(Entries) /\ list \in Seq(Entries) /\ lCQFIFO' = lCQFIFO \o list
    BY DEF EntryInv, Ends
  <2>2. lCQFIFO' \in Seq(Entries)
    BY <2>1
  <2>3. \A i \in DOMAIN lCQFIFO' : \/ i \in DOMAIN lCQFIFO /\ lCQFIFO'[i] = lCQFIFO[i]
                                   \/ \E k \in DOMAIN list : lCQFIFO'[i] = list[k]
    <3>1. /\ DOMAIN lCQFIFO' = 1..(Len(lCQFIFO) + Len(list)) /\ Len(lCQFIFO) \in Nat
          /\ DOMAIN lCQFIFO = 1..Len(lCQFIFO) /\ DOMAIN list = 1..Len(list)
          /\ Len(list) \in Nat
          /\ \A i \in 1..(Len(lCQFIFO) + Len(list)) :
               lCQFIFO'[i] = IF i <= Len(lCQFIFO) THEN lCQFIFO[i] ELSE list[i - Len(lCQFIFO)]
      BY <2>1
    <3>2. ASSUME NEW i \in 1..(Len(lCQFIFO) + Len(list)), ~(i <= Len(lCQFIFO))
          PROVE  i - Len(lCQFIFO) \in 1..Len(list)
      BY <3>1, <3>2
    <3> QED
      BY <3>1, <3>2
  <2>4. ASSUME NEW i \in DOMAIN lCQFIFO' PROVE (IsEntry(lCQFIFO[i]) /\ Created(lCQFIFO[i].c))'
    <3>1. PICK y : y = lCQFIFO'[i]
      OBVIOUS
    <3>2. CASE i \in DOMAIN lCQFIFO /\ lCQFIFO'[i] = lCQFIFO[i]
      <4>1. IsEntry(y) /\ Created(y.c)
        BY <3>1, <3>2 DEF EntryInv
      <4>2. IsEntry(y)' /\ Created(y.c)'
        BY <4>1, SteadyEntry DEF IsEntry
      <4> QED
        BY <3>1, <4>2
    <3>3. CASE \E k \in DOMAIN list : lCQFIFO'[i] = list[k]
      <4>1. IsEntry(y) /\ Created(y.c)'
        BY <3>1, <3>3 DEF Ends
      <4>2. IsEntry(y)'
        BY <4>1, SteadyEntry
      <4> QED
        BY <3>1, <4>1, <4>2
    <3> QED
      BY <2>3, <3>2, <3>3
  <2> QED
    BY <2>2, <2>4
<1> QED
  BY <1>1, <1>2, <1>3, <1>4, <1>5 DEF EntryInv

(* What the end of a command leaves alone.                                 *)
EndFrame(e) ==
  /\ running' = running \ {e}
  /\ UNCHANGED <<registers, fetching, posting, sending, intr, plan, cmd, host, answers>>

(* The front after the end of a command that leaves the submission queues  *)
(* alone.                                                                  *)
LEMMA EndFront ==
  ASSUME FrontInv, EntryInv', NEW e, EndFrame(e), UNCHANGED sq,
         gone' \subseteq Cmds, twice' \subseteq Cmds, coalesced' \subseteq Vectors
  PROVE  FrontInv'
<1>1. PlanInv /\ HostInv /\ SQInv /\ FetchInv
  BY DEF FrontInv
<1>2. UNCHANGED <<registers, fetching, plan, cmd, host, answers>>
  BY DEF EndFrame
<1>3. PlanInv' /\ SQInv' /\ FetchInv'
  BY <1>1, <1>2, PlanFrame, SQFrame, FetchFrame
<1>4. HostInv'
  BY <1>1, <1>2 DEF HostInv, Cmds, DeletesSQ, Planned
<1> QED
  BY <1>3, <1>4 DEF FrontInv

(* The command that ends.                                                  *)
LEMMA EndingCommand ==
  ASSUME FrontInv, NEW e \in running
  PROVE  /\ PlanInv /\ HostInv /\ SQInv /\ FetchInv /\ EntryInv
         /\ e \in Entries /\ IsEntry(e) /\ e.c \in Cmds
         /\ cmd[e.c].op \in Plans \union {IOCommand}
         /\ gone \subseteq Cmds /\ twice \subseteq Cmds /\ coalesced \subseteq Vectors
<1>1. e \in Entries /\ IsEntry(e) /\ e.c \in Cmds /\ HostInv
  BY DEF FrontInv, EntryInv, IsEntry
<1> QED
  BY <1>1, CmdType DEF FrontInv, HostInv

(* An answer to the command itself.                                        *)
LEMMA EndsAlone ==
  ASSUME NEW e \in Entries, IsEntry(e), Created(e.c)', EndFrame(e), Answer(<<e>>, FALSE)
  PROVE  Ends(e, <<e>>)
<1>1. <<e>> \in Seq(Entries) /\ lCQFIFO' = lCQFIFO \o <<e>> /\ running' = running \ {e}
  BY DEF Answer, EndFrame
<1>2. \A i \in DOMAIN <<e>> : <<e>>[i] = e
  OBVIOUS
<1> QED
  BY <1>1, <1>2 DEF Ends

(* Commands that are only answered.                                        *)
LEMMA EndJustAnswer ==
  ASSUME FrontInv, BackInv, NEW e \in running, EndFrame(e), JustAnswer(e, cmd[e.c].op)
  PROVE  FrontInv' /\ BackInv'
<1> DEFINE op == cmd[e.c].op
<1>1. /\ Answer(<<e>>, FALSE) /\ op.op # "createSQ"
      /\ UNCHANGED <<sq, cq, lSQByUser, uidSQMap, rrUsers, lSQFIFO, aggregation, gone,
                     twice, coalesced>>
  BY DEF JustAnswer
<1>2. /\ EntryInv /\ e \in Entries /\ IsEntry(e)
      /\ gone \subseteq Cmds /\ twice \subseteq Cmds /\ coalesced \subseteq Vectors
  BY EndingCommand
<1>3. UNCHANGED <<cmd, posting, sending, intr, host>>
  BY DEF EndFrame
<1>4. Steady
  BY <1>1, <1>3, Still
<1>5. Created(e.c)'
  BY <1>1, <1>3 DEF Created
<1>6. Ends(e, <<e>>) /\ Drops
  BY <1>1, <1>2, <1>5, EndsAlone, DropsNothing
<1>7. EntryInv'
  BY <1>2, <1>4, <1>6, EndEntries
<1>8. FrontInv'
  BY <1>1, <1>2, <1>7, EndFront
<1>9. BackInv'
  BY <1>1, <1>3, <1>4, BackFrame
<1> QED
  BY <1>8, <1>9

(* A refused creation.                                                     *)
LEMMA EndRefuse ==
  ASSUME FrontInv, BackInv, NEW e \in running, EndFrame(e), RefuseCreate(e, cmd[e.c].op)
  PROVE  FrontInv' /\ BackInv'
<1>1. /\ gone' = gone \union {e.c}
      /\ UNCHANGED <<sq, cq, lSQByUser, uidSQMap, rrUsers, lSQFIFO, lCQFIFO, aggregation,
                     twice, coalesced>>
  BY DEF RefuseCreate
<1>2. /\ EntryInv /\ e \in Entries /\ IsEntry(e) /\ e.c \in Cmds
      /\ gone \subseteq Cmds /\ twice \subseteq Cmds /\ coalesced \subseteq Vectors
  BY EndingCommand
<1>3. UNCHANGED <<cmd, posting, sending, intr, host>>
  BY DEF EndFrame
<1>4. Steady
  BY <1>1, <1>3, Still
<1>5. Ends(e, <<>>)
  BY <1>1, <1>2 DEF Ends, EndFrame, EntryInv
<1>6. EntryInv'
  BY <1>1, <1>2, <1>4, <1>5, DropsNothing, EndEntries
<1>7. FrontInv'
  BY <1>1, <1>2, <1>6, EndFront
<1>8. BackInv'
  BY <1>1, <1>3, <1>4, BackFrame
<1> QED
  BY <1>7, <1>8

(* What the removal of an entry of the FIFO by abort does.                 *)
LEMMA AbortFact ==
  ASSUME FrontInv, NEW e \in running, EndFrame(e), NEW op \in Plans \union {IOCommand},
         op.op = "abort", op = cmd[e.c].op, Abort(e, op)
  PROVE  /\ UNCHANGED <<sq, cq, lSQByUser, uidSQMap, rrUsers, aggregation, gone, coalesced>>
         /\ \/ Answer(<<e>>, FALSE) /\ UNCHANGED <<lSQFIFO, twice>>
            \/ \E i \in DOMAIN lSQFIFO, w \in Entries :
                 /\ w = [lSQFIFO[i] EXCEPT !.head = sq[op.q].head]
                 /\ IsEntry(w) /\ w.c = lSQFIFO[i].c /\ cmd[w.c].q # 0
                 /\ lSQFIFO' = Without(lSQFIFO, {i}) /\ twice' = twice \union {w.c}
                 /\ Answer(<<w, e>>, ~sq[op.q].live)
<1> DEFINE at == {i \in DOMAIN lSQFIFO : lSQFIFO[i].c = op.c /\ lSQFIFO[i].sq = op.q}
<1>1. UNCHANGED <<sq, cq, lSQByUser, uidSQMap, rrUsers, aggregation, gone, coalesced>>
  BY DEF Abort
<1>2. CASE at = {}
  BY <1>1, <1>2 DEF Abort
<1>3. CASE at # {}
  <2>1. EntryInv /\ lSQFIFO \in Seq(Entries) /\ SQInv /\ HostInv /\ PlanInv
    BY DEF FrontInv, EntryInv
  <2>2. op.q \in Queues /\ op.q # 0
    BY OpType
  <2>3. \E i \in at : \A j \in at : i <= j
    <3>1. at \subseteq Nat
      BY <2>1
    <3> HIDE DEF at
    <3> QED
      BY <1>3, <3>1, NatLeast
  <2>4. Min(at) \in at
    <3> HIDE DEF at
    <3> QED
      BY <2>3 DEF Min
  <2> DEFINE i == Min(at)
             w == [lSQFIFO[i] EXCEPT !.head = sq[op.q].head]
  <2>5. /\ lSQFIFO' = Without(lSQFIFO, {i}) /\ twice' = twice \union {lSQFIFO[i].c}
        /\ Answer(<<w, e>>, ~sq[op.q].live)
    BY <1>3 DEF Abort
  <2>6. i \in DOMAIN lSQFIFO /\ lSQFIFO[i].sq = op.q
    BY <2>4
  <2> HIDE DEF i
  <2>7. lSQFIFO[i] \in Entries /\ IsEntry(lSQFIFO[i]) /\ sq[op.q].head \in Slots
    BY <2>1, <2>2, <2>6 DEF EntryInv, SQInv, SQs
  <2>8. w \in Entries /\ w.c = lSQFIFO[i].c /\ w.sq = lSQFIFO[i].sq /\ w.cq = lSQFIFO[i].cq
    BY <2>7 DEF Entries
  <2>9. IsEntry(w) /\ cmd[w.c].q # 0
    BY <2>2, <2>6, <2>7, <2>8 DEF IsEntry
  <2> HIDE DEF w
  <2>10. /\ w \in Entries /\ IsEntry(w) /\ w.c = lSQFIFO[i].c /\ cmd[w.c].q # 0
         /\ lSQFIFO' = Without(lSQFIFO, {i}) /\ twice' = twice \union {w.c}
         /\ Answer(<<w, e>>, ~sq[op.q].live)
    BY <2>5, <2>8, <2>9
  <2> QED
    BY <1>1, <2>6, <2>10 DEF w
<1> QED
  BY <1>2, <1>3

(* An abort.                                                               *)
LEMMA EndAbort ==
  ASSUME FrontInv, BackInv, NEW e \in running, EndFrame(e),
         cmd[e.c].op.op = "abort", Abort(e, cmd[e.c].op)
  PROVE  FrontInv' /\ BackInv'
<1> DEFINE op == cmd[e.c].op
<1>1. /\ PlanInv /\ HostInv /\ EntryInv /\ e \in Entries /\ IsEntry(e) /\ e.c \in Cmds
      /\ op \in Plans \union {IOCommand}
      /\ gone \subseteq Cmds /\ twice \subseteq Cmds /\ coalesced \subseteq Vectors
  BY EndingCommand
<1>2. /\ UNCHANGED <<sq, cq, lSQByUser, uidSQMap, rrUsers, aggregation, gone, coalesced>>
      /\ \/ Answer(<<e>>, FALSE) /\ UNCHANGED <<lSQFIFO, twice>>
         \/ \E i \in DOMAIN lSQFIFO, w \in Entries :
              /\ w = [lSQFIFO[i] EXCEPT !.head = sq[op.q].head]
              /\ IsEntry(w) /\ w.c = lSQFIFO[i].c /\ cmd[w.c].q # 0
              /\ lSQFIFO' = Without(lSQFIFO, {i}) /\ twice' = twice \union {w.c}
              /\ Answer(<<w, e>>, ~sq[op.q].live)
  BY <1>1, AbortFact
<1>3. UNCHANGED <<cmd, posting, sending, intr, host>>
  BY DEF EndFrame
<1>4. Steady
  BY <1>2, <1>3, Still
<1>5. BackInv'
  BY <1>2, <1>3, <1>4, BackFrame
<1>6. Created(e.c)'
  BY <1>3 DEF Created
<1>7. CASE Answer(<<e>>, FALSE) /\ UNCHANGED <<lSQFIFO, twice>>
  <2>1. Ends(e, <<e>>) /\ Drops
    BY <1>1, <1>2, <1>6, <1>7, EndsAlone, DropsNothing
  <2>2. EntryInv'
    BY <1>1, <1>4, <2>1, EndEntries
  <2>3. FrontInv'
    BY <1>1, <1>2, <1>7, <2>2, EndFront
  <2> QED
    BY <1>5, <2>3
<1>8. ASSUME NEW i \in DOMAIN lSQFIFO, NEW w \in Entries, IsEntry(w), cmd[w.c].q # 0,
             lSQFIFO' = Without(lSQFIFO, {i}), twice' = twice \union {w.c},
             Answer(<<w, e>>, ~sq[op.q].live)
      PROVE  FrontInv'
  <2>1. w.c \in Cmds
    BY <1>8 DEF IsEntry
  <2>2. Created(w.c)'
    BY <1>1, <1>4, <1>8, <2>1, CreatedIO, SteadyEntry
  <2>3. Ends(e, <<w, e>>)
    <3>1. <<w, e>> \in Seq(Entries) /\ lCQFIFO' = lCQFIFO \o <<w, e>> /\ running' = running \ {e}
      BY <1>1, <1>8 DEF Answer, EndFrame
    <3>2. \A k \in DOMAIN <<w, e>> : <<w, e>>[k] = w \/ <<w, e>>[k] = e
      OBVIOUS
    <3> QED
      BY <1>1, <1>6, <1>8, <2>2, <3>1, <3>2 DEF Ends
  <2>4. Drops
    <3>1. lSQFIFO \in Seq(Entries)
      BY <1>1 DEF EntryInv
    <3>2. lSQFIFO' \in Seq(Entries)
          /\ \A j \in DOMAIN lSQFIFO' : \E k \in DOMAIN lSQFIFO : lSQFIFO'[j] = lSQFIFO[k]
      <4> DEFINE at == {i}
      <4>1. lSQFIFO' = Without(lSQFIFO, at)
        BY <1>8
      <4> HIDE DEF at
      <4> QED
        BY <3>1, <4>1, WithoutFact
    <3> QED
      BY <1>1, <1>2, <3>2 DEF Drops, EntryInv
  <2>5. EntryInv'
    BY <1>1, <1>4, <2>3, <2>4, EndEntries
  <2>6. twice' \subseteq Cmds /\ gone' \subseteq Cmds /\ coalesced' \subseteq Vectors
    BY <1>1, <1>2, <1>8, <2>1
  <2> QED
    BY <1>2, <2>5, <2>6, EndFront
<1> QED
  BY <1>2, <1>5, <1>7, <1>8

(* Coalescing is set.                                                      *)
LEMMA EndCoalesce ==
  ASSUME FrontInv, BackInv, NEW e \in running, EndFrame(e),
         cmd[e.c].op.op = "coalesce", SetCoalescing(e, cmd[e.c].op)
  PROVE  FrontInv' /\ BackInv'
<1> DEFINE op == cmd[e.c].op
<1>1. /\ EntryInv /\ e \in Entries /\ IsEntry(e) /\ op \in Plans \union {IOCommand}
      /\ gone \subseteq Cmds /\ twice \subseteq Cmds /\ coalesced \subseteq Vectors
  BY EndingCommand
<1>2. op.iv \in Vectors /\ op.enable \in BOOLEAN
  BY <1>1, OpType
<1>3. /\ UNCHANGED <<sq, cq, lSQByUser, uidSQMap, rrUsers, lSQFIFO, gone, twice>>
      /\ Answer(<<e>>, FALSE)
      /\ \/ UNCHANGED <<aggregation, coalesced>>
         \/ /\ coalesced' = coalesced \union {op.iv}
            /\ aggregation' = [aggregation EXCEPT ![op.iv] = [Unset EXCEPT !.valid = op.enable]]
  BY DEF SetCoalescing
<1> HIDE DEF op
<1>4. UNCHANGED <<cmd, posting, sending, intr, host>>
  BY DEF EndFrame
<1>5. Steady
  BY <1>3, <1>4, Still
<1>6. Created(e.c)'
  BY <1>4 DEF Created
<1>7. Ends(e, <<e>>) /\ Drops
  BY <1>1, <1>3, <1>6, EndsAlone, DropsNothing
<1>8. EntryInv'
  BY <1>1, <1>5, <1>7, EndEntries
<1>9. FrontInv'
  BY <1>1, <1>2, <1>3, <1>8, EndFront
<1>10. /\ \A q, i : Written(q, i)' = Written(q, i)
       /\ \A q, i : Expected(q, i)' = Expected(q, i)
  BY <1>3, <1>4 DEF Written, Unwritten, Occupied, Expected
<1>11. CQInv'
  BY <1>3, <1>4, <1>5, <1>10, SteadyEntry DEF BackInv, CQInv
<1>12. PostInv'
  BY <1>3, <1>4, <1>5, <1>10, SteadyEntry DEF BackInv, PostInv, Occupied
<1>13. SignalInv'
  <2>1. aggregation \in [Vectors -> Aggregations]
    BY DEF BackInv, SignalInv
  <2> DEFINE a == [Unset EXCEPT !.valid = op.enable]
  <2>2. a \in Aggregations
    BY <1>2 DEF Aggregations, Unset
  <2> HIDE DEF a
  <2>3. \/ UNCHANGED <<aggregation, coalesced>>
        \/ /\ coalesced' = coalesced \union {op.iv}
           /\ aggregation' = [v \in Vectors |-> IF v = op.iv THEN a ELSE aggregation[v]]
    BY <1>3, <2>1 DEF a
  <2>4. aggregation' \in [Vectors -> Aggregations]
    BY <2>1, <2>2, <2>3
  <2>5. \A v \in Vectors : aggregation'[v].valid => v \in coalesced'
    BY <2>3 DEF BackInv, SignalInv
  <2>6. \A v : Coming(v)' = Coming(v)
    BY <1>4 DEF Coming
  <2>7. coalesced \subseteq coalesced'
    BY <1>3
  <2> QED
    BY <1>3, <1>4, <1>10, <2>4, <2>5, <2>6, <2>7 DEF BackInv, SignalInv
<1> QED
  BY <1>9, <1>11, <1>12, <1>13 DEF BackInv

(* What the deletion of a completion queue does to it.                     *)
Closed(q) ==
  /\ cq' \in [Queues -> CQs]
  /\ \A r \in Queues : /\ cq'[r].live = (cq[r].live /\ r # q)
                       /\ cq'[r].head = cq[r].head /\ cq'[r].tail = cq[r].tail
                       /\ cq'[r].phase = cq[r].phase /\ cq'[r].iv = cq[r].iv
                       /\ cq'[r].mem = cq[r].mem

(* DeleteCQ does that.                                                     *)
LEMMA CloseCQ ==
  ASSUME CQInv, NEW q \in Queues, cq' = [cq EXCEPT ![q].live = FALSE]
  PROVE  Closed(q)
<1>1. cq \in [Queues -> CQs] /\ \A r \in Queues : cq[r] \in CQs
  BY DEF CQInv
<1>2. \A r \in Queues : cq'[r] = IF r = q THEN [cq[q] EXCEPT !.live = FALSE] ELSE cq[r]
  BY <1>1
<1>3. [cq[q] EXCEPT !.live = FALSE] =
        [live |-> FALSE, head |-> cq[q].head, tail |-> cq[q].tail, phase |-> cq[q].phase,
         iv |-> cq[q].iv, ien |-> cq[q].ien, mem |-> cq[q].mem]
  <2>1. PICK x \in CQs : x = cq[q]
    BY <1>1
  <2>2. PICK y : y = [x EXCEPT !.live = FALSE]
    OBVIOUS
  <2>3. y \in CQs /\ y.live = FALSE /\ y.head = x.head /\ y.tail = x.tail /\ y.phase = x.phase
        /\ y.iv = x.iv /\ y.ien = x.ien /\ y.mem = x.mem
    BY <2>2 DEF CQs
  <2>4. y = [live |-> y.live, head |-> y.head, tail |-> y.tail, phase |-> y.phase,
             iv |-> y.iv, ien |-> y.ien, mem |-> y.mem]
    BY <2>3 DEF CQs
  <2> QED
    BY <2>1, <2>2, <2>3, <2>4
<1> DEFINE new == [live |-> FALSE, head |-> cq[q].head, tail |-> cq[q].tail,
                   phase |-> cq[q].phase, iv |-> cq[q].iv, ien |-> cq[q].ien,
                   mem |-> cq[q].mem]
<1>4. new \in CQs
  BY <1>1 DEF CQs
<1>5. cq' = [r \in Queues |-> IF r = q THEN new ELSE cq[r]]
  BY <1>1, <1>2, <1>3
<1>6. cq' \in [Queues -> CQs]
  BY <1>1, <1>4, <1>5
<1>7. \A r \in Queues : cq[r].live \in BOOLEAN
  BY <1>1 DEF CQs
<1> QED
  BY <1>2, <1>3, <1>6, <1>7 DEF Closed

(* A completion queue is deleted.                                          *)
LEMMA EndDeleteCQ ==
  ASSUME FrontInv, BackInv, NEW e \in running, EndFrame(e),
         cmd[e.c].op.op = "deleteCQ", DeleteCQ(e, cmd[e.c].op.q)
  PROVE  FrontInv' /\ BackInv'
<1> DEFINE op == cmd[e.c].op
           q == op.q
<1>1. /\ EntryInv /\ e \in Entries /\ IsEntry(e) /\ e.c \in Cmds
      /\ op \in Plans \union {IOCommand}
      /\ gone \subseteq Cmds /\ twice \subseteq Cmds /\ coalesced \subseteq Vectors
  BY EndingCommand
<1>2. q \in Queues /\ op = [op |-> "deleteCQ", q |-> q]
  BY <1>1, OpType
<1>3. /\ UNCHANGED <<sq, lSQByUser, uidSQMap, rrUsers, lSQFIFO, gone, twice, coalesced>>
      /\ Answer(<<e>>, FALSE) /\ cq' = [cq EXCEPT ![q].live = FALSE]
      /\ \/ UNCHANGED aggregation
         \/ aggregation' = [aggregation EXCEPT ![cq[q].iv] = Unset]
  BY DEF DeleteCQ
<1>4. UNCHANGED <<cmd, posting, sending, intr, host>>
  BY DEF EndFrame
<1>5. Steady
  BY <1>3, <1>4, Still
<1>6. Created(e.c)'
  BY <1>4 DEF Created
<1>7. Ends(e, <<e>>) /\ Drops
  BY <1>1, <1>3, <1>6, EndsAlone, DropsNothing
<1>8. EntryInv'
  BY <1>1, <1>5, <1>7, EndEntries
<1>9. FrontInv'
  BY <1>1, <1>3, <1>8, EndFront
<1>10. DeletesCQ(q)
  BY <1>1, <1>2 DEF DeletesCQ, Planned
<1>11. \A r : DeletesCQ(r) => DeletesCQ(r)'
  BY <1>5, SteadyEntry
<1>12. Closed(q)
  BY <1>2, <1>3, CloseCQ DEF BackInv
<1> HIDE DEF q, op
<1>13. /\ \A r \in Queues, i \in Slots : Written(r, i)' <=> Written(r, i)
       /\ \A r \in Queues, i \in Slots : Expected(r, i)' = Expected(r, i)
       /\ \A r \in Queues, i \in Slots : Occupied(cq[r], i)' <=> Occupied(cq[r], i)
  BY <1>4, <1>12 DEF Written, Unwritten, Occupied, Expected, Closed
<1>14. CQInv'
  <2>1. ASSUME NEW r \in Queues, cq'[r].live
        PROVE  /\ cq'[r].phase = IF cq'[r].head <= cq'[r].tail THEN host'.phase[r]
                                 ELSE ~host'.phase[r]
               /\ \A i \in Slots :
                    /\ (cq'[r].mem[i].phase = Expected(r, i)') <=> Written(r, i)'
                    /\ Written(r, i)' => (Answers(cq[r].mem[i].c, r))'
    <3>1. cq[r].live
      BY <1>12, <2>1 DEF Closed
    <3>2. cq'[r].phase = IF cq'[r].head <= cq'[r].tail THEN host'.phase[r]
                         ELSE ~host'.phase[r]
      BY <1>4, <1>12, <3>1 DEF Closed, BackInv, CQInv
    <3>3. ASSUME NEW i \in Slots
          PROVE  /\ (cq'[r].mem[i].phase = Expected(r, i)') <=> Written(r, i)'
                 /\ Written(r, i)' => (Answers(cq[r].mem[i].c, r))'
      <4>1. cq'[r].mem = cq[r].mem
        BY <1>12 DEF Closed
      <4>2. /\ (cq[r].mem[i].phase = Expected(r, i)) <=> Written(r, i)
            /\ Written(r, i) => Answers(cq[r].mem[i].c, r)
        BY <3>1 DEF BackInv, CQInv
      <4>3. PICK x : x = cq[r].mem[i]
        OBVIOUS
      <4>4. Answers(x.c, r) => Answers(x.c, r)'
        BY <1>5, SteadyEntry
      <4> QED
        BY <1>13, <4>1, <4>2, <4>3, <4>4
    <3> QED
      BY <3>2, <3>3
  <2>2. ASSUME NEW r \in Queues, ~cq'[r].live PROVE DeletesCQ(r)' \/ host'.phase[r]
    BY <1>4, <1>10, <1>11, <1>12, <2>2 DEF Closed, BackInv, CQInv
  <2> QED
    BY <1>12, <2>1, <2>2 DEF CQInv, Closed
<1>15. PostInv'
  <2>1. PostInv
    BY DEF BackInv
  <2>2. \A j \in DOMAIN posting : posting[j].write.cq \in Queues /\ posting[j].write.at \in Slots
    BY <2>1, PostType DEF Writes
  <2>3. ASSUME NEW j \in DOMAIN posting
        PROVE  /\ Answers(posting[j].write.val.c, posting[j].write.cq)'
               /\ IF cq'[posting[j].write.cq].live
                  THEN /\ Occupied(cq[posting[j].write.cq], posting[j].write.at)'
                       /\ posting[j].write.val.phase = Expected(posting[j].write.cq, posting[j].write.at)'
                  ELSE DeletesCQ(posting[j].write.cq)'
    <3>1. PICK w : w = posting[j].write
      OBVIOUS
    <3>2. /\ Answers(w.val.c, w.cq) /\ w.cq \in Queues /\ w.at \in Slots
          /\ IF cq[w.cq].live
             THEN Occupied(cq[w.cq], w.at) /\ w.val.phase = Expected(w.cq, w.at)
             ELSE DeletesCQ(w.cq)
      BY <2>1, <2>2, <3>1 DEF PostInv
    <3>3. Answers(w.val.c, w.cq)'
      BY <1>5, <3>2, SteadyEntry
    <3>4. IF cq'[w.cq].live
          THEN Occupied(cq[w.cq], w.at)' /\ w.val.phase = Expected(w.cq, w.at)'
          ELSE DeletesCQ(w.cq)'
      BY <1>10, <1>11, <1>12, <1>13, <3>2 DEF Closed
    <3> QED
      BY <1>4, <3>1, <3>3, <3>4
  <2> QED
    BY <1>4, <2>1, <2>3 DEF PostInv
<1>16. SignalInv'
  <2>1. \A v : Coming(v)' = Coming(v)
    BY <1>4 DEF Coming
  <2>2. aggregation \in [Vectors -> Aggregations]
    BY DEF BackInv, SignalInv
  <2>3. Unset \in Aggregations /\ ~Unset.valid
    BY DEF Unset, Aggregations
  <2>4. /\ aggregation' \in [Vectors -> Aggregations]
        /\ \A v \in Vectors : aggregation'[v].valid => aggregation[v].valid
    BY <1>3, <2>2, <2>3
  <2>5. \A v \in Vectors : aggregation'[v].valid => v \in coalesced'
    BY <1>3, <2>4 DEF BackInv, SignalInv
  <2> QED
    BY <1>3, <1>4, <1>12, <1>13, <2>1, <2>4, <2>5 DEF BackInv, SignalInv, Closed
<1> QED
  BY <1>9, <1>14, <1>15, <1>16 DEF BackInv

(* What the creation of a completion queue does.                           *)
Opened(q, iv) ==
  /\ cq' \in [Queues -> CQs]
  /\ \A r \in Queues : r # q => cq'[r] = cq[r]
  /\ cq'[q].live /\ cq'[q].head = 0 /\ cq'[q].tail = 0 /\ cq'[q].phase = TRUE /\ cq'[q].iv = iv
  /\ \A i \in Slots : cq'[q].mem[i].phase = FALSE

(* A new completion queue is empty, in the first phase.                    *)
LEMMA OpenCQ ==
  ASSUME CQInv, NEW q \in Queues, NEW iv \in Vectors, cq' = [cq EXCEPT ![q] = NewCQ(iv, TRUE)]
  PROVE  Opened(q, iv)
<1> DEFINE new == NewCQ(iv, TRUE)
           m == [i \in Slots |-> [c |-> 0, phase |-> FALSE]]
<1>1. cq \in [Queues -> CQs]
  BY DEF CQInv
<1>2. 0 \in Slots
  BY Sizes DEF Slots
<1>3. m \in [Slots -> Slips] /\ \A i \in Slots : m[i].phase = FALSE
  BY DEF Slips
<1>4. new = [live |-> TRUE, head |-> 0, tail |-> 0, phase |-> TRUE, iv |-> iv, ien |-> TRUE,
             mem |-> m]
  BY DEF NewCQ
<1> HIDE DEF m
<1>5. /\ new \in CQs /\ new.live /\ new.head = 0 /\ new.tail = 0 /\ new.phase = TRUE /\ new.iv = iv
      /\ new.mem = m
  <2> HIDE DEF new
  <2> QED
    BY <1>2, <1>3, <1>4 DEF CQs
<1> HIDE DEF new
<1>6. cq' = [cq EXCEPT ![q] = new]
  BY DEF new
<1> QED
  BY <1>1, <1>3, <1>5, <1>6 DEF Opened

(* A completion queue is created: no transfer is left from an earlier one  *)
(* of its number.                                                          *)
LEMMA EndCreateCQ ==
  ASSUME FrontInv, BackInv, NumbersUsedOnce, NEW e \in running, EndFrame(e),
         cmd[e.c].op.op = "createCQ", CreateCQ(e, cmd[e.c].op)
  PROVE  FrontInv' /\ BackInv'
<1> DEFINE op == cmd[e.c].op
<1>0. PICK q : q = op.q
  OBVIOUS
<1>1. /\ PlanInv /\ HostInv /\ EntryInv /\ e \in Entries /\ IsEntry(e) /\ e.c \in Cmds
      /\ op \in Plans \union {IOCommand}
      /\ gone \subseteq Cmds /\ twice \subseteq Cmds /\ coalesced \subseteq Vectors
  BY EndingCommand
<1>2. q \in Queues /\ op.iv \in Vectors
  BY <1>0, <1>1, OpType
<1>3. /\ UNCHANGED <<sq, lSQByUser, uidSQMap, rrUsers, lSQFIFO, gone, twice, coalesced>>
      /\ Answer(<<e>>, FALSE) /\ cq' = [cq EXCEPT ![q] = NewCQ(op.iv, TRUE)] /\ ~cq[q].live
  BY <1>0 DEF CreateCQ
<1>4. UNCHANGED <<cmd, posting, sending, intr, host>>
  BY DEF EndFrame
<1>5. Steady
  BY <1>3, <1>4, Still
<1>6. Created(e.c)'
  BY <1>4 DEF Created
<1>7. Ends(e, <<e>>) /\ Drops
  BY <1>1, <1>3, <1>6, EndsAlone, DropsNothing
<1>8. EntryInv'
  BY <1>1, <1>5, <1>7, EndEntries
<1>9. FrontInv'
  BY <1>1, <1>3, <1>8, EndFront
<1>10. ~DeletesCQ(q)
  BY <1>0, <1>1, OnceCQ
<1>11. Opened(q, op.iv)
  BY <1>2, <1>3, OpenCQ DEF BackInv
<1>12. host.phase[q] = TRUE
  BY <1>2, <1>3, <1>10 DEF BackInv, CQInv, FrontInv, HostInv
<1>13. \A j \in DOMAIN posting : posting[j].write.cq # q
  BY <1>3, <1>10 DEF BackInv, PostInv
<1>14. \A i \in Slots : ~(Occupied(cq[q], i)') /\ ~(Written(q, i)') /\ Expected(q, i)' = TRUE
  BY <1>4, <1>11, <1>12, Sizes DEF Opened, Occupied, Written, Expected, Slots
<1>15. \A r \in Queues : r # q =>
         /\ cq'[r] = cq[r]
         /\ \A i \in Slots : /\ Written(r, i)' <=> Written(r, i)
                             /\ Expected(r, i)' = Expected(r, i)
                             /\ Occupied(cq[r], i)' <=> Occupied(cq[r], i)
  BY <1>4, <1>11 DEF Opened, Written, Unwritten, Occupied, Expected
<1>16. aggregation' \in [Vectors -> Aggregations]
       /\ \A v \in Vectors : aggregation'[v].valid => aggregation[v].valid
  <2>1. aggregation \in [Vectors -> Aggregations]
    BY DEF BackInv, SignalInv
  <2>2. PICK p \in BOOLEAN : aggregation' =
          [aggregation EXCEPT ![op.iv] = [Unset EXCEPT !.pending = p]]
    BY DEF CreateCQ
  <2> DEFINE a == [Unset EXCEPT !.pending = p]
  <2>3. a \in Aggregations /\ ~a.valid
    BY DEF Aggregations, Unset
  <2>4. aggregation' = [aggregation EXCEPT ![op.iv] = a]
    BY <2>2
  <2> HIDE DEF a, op
  <2> QED
    BY <1>2, <2>1, <2>3, <2>4
<1> HIDE DEF op
<1>17. CQInv'
  <2>1. ASSUME NEW r \in Queues, cq'[r].live
        PROVE  /\ cq'[r].phase = IF cq'[r].head <= cq'[r].tail THEN host'.phase[r]
                                 ELSE ~host'.phase[r]
               /\ \A i \in Slots :
                    /\ (cq'[r].mem[i].phase = Expected(r, i)') <=> Written(r, i)'
                    /\ Written(r, i)' => (Answers(cq[r].mem[i].c, r))'
    <3>1. CASE r = q
      <4>1. \A i \in Slots : cq'[r].mem[i].phase # Expected(r, i)'
        BY <1>11, <1>14, <3>1 DEF Opened
      <4>2. cq'[r].phase = TRUE /\ cq'[r].head <= cq'[r].tail /\ host'.phase[r] = TRUE
        BY <1>4, <1>11, <1>12, <3>1 DEF Opened
      <4>3. \A i \in Slots : ~(Written(r, i)')
        BY <1>14, <3>1
      <4> QED
        BY <4>1, <4>2, <4>3
    <3>2. CASE r # q
      <4>1. cq[r].live /\ cq'[r] = cq[r]
        BY <1>15, <2>1, <3>2
      <4>2. cq'[r].phase = IF cq'[r].head <= cq'[r].tail THEN host'.phase[r]
                           ELSE ~host'.phase[r]
        BY <1>4, <4>1 DEF BackInv, CQInv
      <4>3. ASSUME NEW i \in Slots
            PROVE  /\ (cq'[r].mem[i].phase = Expected(r, i)') <=> Written(r, i)'
                   /\ Written(r, i)' => (Answers(cq[r].mem[i].c, r))'
        <5>1. /\ (cq[r].mem[i].phase = Expected(r, i)) <=> Written(r, i)
              /\ Written(r, i) => Answers(cq[r].mem[i].c, r)
          BY <4>1 DEF BackInv, CQInv
        <5>2. PICK x : x = cq[r].mem[i]
          OBVIOUS
        <5>3. Answers(x.c, r) => Answers(x.c, r)'
          BY <1>5, SteadyEntry
        <5> QED
          BY <1>15, <3>2, <4>1, <5>1, <5>2, <5>3
      <4> QED
        BY <4>2, <4>3
    <3> QED
      BY <3>1, <3>2
  <2>2. ASSUME NEW r \in Queues, ~cq'[r].live PROVE DeletesCQ(r)' \/ host'.phase[r]
    BY <1>4, <1>5, <1>11, <1>15, <2>2, SteadyEntry DEF Opened, BackInv, CQInv
  <2> QED
    BY <1>11, <2>1, <2>2 DEF CQInv, Opened
<1>18. PostInv'
  <2>1. PostInv
    BY DEF BackInv
  <2>2. \A j \in DOMAIN posting : posting[j].write.cq \in Queues /\ posting[j].write.at \in Slots
    BY <2>1, PostType DEF Writes
  <2>3. ASSUME NEW j \in DOMAIN posting
        PROVE  /\ Answers(posting[j].write.val.c, posting[j].write.cq)'
               /\ IF cq'[posting[j].write.cq].live
                  THEN /\ Occupied(cq[posting[j].write.cq], posting[j].write.at)'
                       /\ posting[j].write.val.phase = Expected(posting[j].write.cq, posting[j].write.at)'
                  ELSE DeletesCQ(posting[j].write.cq)'
    <3>1. PICK w : w = posting[j].write
      OBVIOUS
    <3>2. /\ Answers(w.val.c, w.cq) /\ w.cq \in Queues /\ w.at \in Slots /\ w.cq # q
          /\ IF cq[w.cq].live
             THEN Occupied(cq[w.cq], w.at) /\ w.val.phase = Expected(w.cq, w.at)
             ELSE DeletesCQ(w.cq)
      BY <1>13, <2>1, <2>2, <3>1 DEF PostInv
    <3>3. Answers(w.val.c, w.cq)'
      BY <1>5, <3>2, SteadyEntry
    <3>4. IF cq'[w.cq].live
          THEN Occupied(cq[w.cq], w.at)' /\ w.val.phase = Expected(w.cq, w.at)'
          ELSE DeletesCQ(w.cq)'
      BY <1>5, <1>15, <3>2, SteadyEntry
    <3> QED
      BY <1>4, <3>1, <3>3, <3>4
  <2> QED
    BY <1>4, <2>1, <2>3 DEF PostInv
<1>19. SignalInv'
  <2>1. \A v : Coming(v)' = Coming(v)
    BY <1>4 DEF Coming
  <2>2. ASSUME NEW j \in DOMAIN posting PROVE cq'[posting[j].write.cq] = cq[posting[j].write.cq]
    <3>1. posting[j].write.cq \in Queues
      BY PostType DEF BackInv, Writes
    <3> QED
      BY <1>13, <1>15, <3>1
  <2>3. ASSUME NEW j \in DOMAIN posting
        PROVE  /\ posting[j].ivs # {} => posting[j].last
               /\ cq'[posting[j].write.cq].live /\ cq'[posting[j].write.cq].iv \notin coalesced =>
                    \E k \in DOMAIN posting : j <= k /\ cq'[posting[j].write.cq].iv \in posting[k].ivs
    BY <2>2 DEF BackInv, SignalInv
  <2>4. ASSUME NEW r \in Queues, NEW i \in Slots, cq'[r].live, cq'[r].iv \notin coalesced,
               Written(r, i)'
        PROVE  (Coming(cq[r].iv))'
    <3>1. r # q /\ cq'[r] = cq[r] /\ Written(r, i)
      BY <1>14, <1>15, <2>4
    <3>2. Coming(cq[r].iv)
      BY <2>4, <3>1 DEF BackInv, SignalInv
    <3> QED
      BY <2>1, <3>1, <3>2
  <2>5. \A v \in Vectors : aggregation'[v].valid => v \in coalesced'
    BY <1>3, <1>16 DEF BackInv, SignalInv
  <2>6. \A j \in DOMAIN posting' :
          /\ posting'[j].ivs # {} => posting'[j].last
          /\ cq'[posting'[j].write.cq].live /\ cq'[posting'[j].write.cq].iv \notin coalesced' =>
               \E k \in DOMAIN posting' : j <= k /\ cq'[posting'[j].write.cq].iv \in posting'[k].ivs
    <3>1. posting' = posting /\ coalesced' = coalesced
      BY <1>3, <1>4
    <3> QED
      BY <2>3, <3>1
  <2>7. \A r \in Queues, i \in Slots :
          cq'[r].live /\ cq'[r].iv \notin coalesced' /\ Written(r, i)' => (Coming(cq[r].iv))'
    BY <1>3, <2>4
  <2> QED
    BY <1>16, <2>5, <2>6, <2>7 DEF SignalInv
<1> QED
  BY <1>9, <1>17, <1>18, <1>19 DEF BackInv

(* What the creation of a submission queue does.                           *)
NewlySQ(q) ==
  /\ sq' \in [Queues -> SQs]
  /\ \A r \in Queues : r # q => sq'[r] = sq[r]
  /\ sq'[q].live /\ sq'[q].head = 0 /\ sq'[q].tail = 0
  /\ \A i \in Slots : sq'[q].mem[i] = 0

(* A new submission queue is empty.                                        *)
LEMMA OpenSQ ==
  ASSUME SQInv, NEW q \in Queues, NEW x \in Queues, NEW p \in {URGENT, MEDIUM, LOW},
         sq' = [sq EXCEPT ![q] = NewSQ(x, p)]
  PROVE  NewlySQ(q)
<1> DEFINE new == NewSQ(x, p)
           m == [i \in Slots |-> 0]
<1>1. sq \in [Queues -> SQs]
  BY DEF SQInv
<1>2. 0 \in Slots
  BY Sizes DEF Slots
<1>3. m \in [Slots -> Nat] /\ \A i \in Slots : m[i] = 0
  OBVIOUS
<1>4. new = [live |-> TRUE, head |-> 0, tail |-> 0, cqID |-> x, priority |-> p, mem |-> m]
  BY DEF NewSQ
<1> HIDE DEF m
<1>5. new \in SQs /\ new.live /\ new.head = 0 /\ new.tail = 0 /\ new.mem = m
  <2> HIDE DEF new
  <2> QED
    BY <1>2, <1>3, <1>4 DEF SQs
<1> HIDE DEF new
<1>6. sq' = [sq EXCEPT ![q] = new]
  BY DEF new
<1> QED
  BY <1>1, <1>3, <1>5, <1>6 DEF NewlySQ

(* A submission queue is created: no command, fetch or entry of an earlier *)
(* one of its number is left.                                              *)
LEMMA EndCreateSQ ==
  ASSUME FrontInv, BackInv, NumbersUsedOnce, NEW e \in running, EndFrame(e),
         cmd[e.c].op.op = "createSQ", CreateSQ(e, cmd[e.c].op)
  PROVE  FrontInv' /\ BackInv'
<1> DEFINE op == cmd[e.c].op
<1>0. PICK q : q = op.q
  OBVIOUS
<1>1. /\ PlanInv /\ HostInv /\ SQInv /\ FetchInv /\ EntryInv
      /\ e \in Entries /\ IsEntry(e) /\ e.c \in Cmds
      /\ op \in Plans \union {IOCommand}
      /\ gone \subseteq Cmds /\ twice \subseteq Cmds /\ coalesced \subseteq Vectors
  BY EndingCommand
<1>2. q \in Queues /\ op.cq \in Queues /\ op.priority \in {URGENT, MEDIUM, LOW}
  BY <1>0, <1>1, OpType
<1>3. /\ UNCHANGED <<cq, lSQByUser, uidSQMap, rrUsers, lSQFIFO, aggregation, gone, twice,
                     coalesced>>
      /\ Answer(<<e>>, FALSE) /\ ~sq[q].live
  BY <1>0 DEF CreateSQ
<1>4. UNCHANGED <<cmd, posting, sending, intr, host, registers, fetching, plan, answers>>
  BY DEF EndFrame
<1>5. NewlySQ(q)
  <2>1. sq' = [sq EXCEPT ![q] = NewSQ(op.cq, op.priority)]
    BY <1>0 DEF CreateSQ
  <2> HIDE DEF op
  <2> QED
    BY <1>1, <1>2, <2>1, OpenSQ
<1>6. q # 0 /\ \A c \in Cmds : cmd[c].q # q
  <2>1. ~DeletesSQ(q)
    BY <1>0, <1>1, OnceSQ
  <2> QED
    BY <1>1, <1>3, <2>1 DEF SQInv
<1>7. Cmds' = Cmds /\ cmd' = cmd
  BY <1>4 DEF Cmds
<1>8. \A c \in Cmds : cmd[c].q \in Queues
  BY <1>1, CmdType
<1>9. Steady
  <2>1. ASSUME NEW c \in Cmds, Created(c) PROVE Created(c)'
    <3>1. CASE cmd[c].op.op = "createSQ"
      <4>1. cmd[c].op.q \in Queues
        BY <1>1, <3>1, CmdType, OpType
      <4> QED
        BY <1>3, <1>5, <1>7, <2>1, <3>1, <4>1 DEF Created, NewlySQ
    <3>2. CASE cmd[c].op.op # "createSQ"
      BY <1>7, <3>2 DEF Created
    <3> QED
      BY <3>1, <3>2
  <2> QED
    BY <1>5, <1>6, <1>7, <1>8, <2>1 DEF Steady, NewlySQ
<1>10. Created(e.c)'
  BY <1>0, <1>4, <1>5 DEF Created, NewlySQ
<1>11. EntryInv'
  BY <1>1, <1>3, <1>9, <1>10, EndsAlone, DropsNothing, EndEntries
<1>12. PlanInv'
  BY <1>1, <1>4, PlanFrame
<1>13. \A r : DeletesSQ(r)' <=> DeletesSQ(r)
  BY <1>7 DEF DeletesSQ, Planned
<1>14. HostInv'
  <2>1. \A r \in Queues : sq[r].live => sq'[r].live
    BY <1>5 DEF NewlySQ
  <2>2. \A r \in host.up : r \in Queues /\ sq'[r].live /\ ~DeletesSQ(r)'
    BY <1>1, <1>13, <2>1 DEF HostInv
  <2> QED
    BY <1>1, <1>3, <1>4, <1>7, <2>2 DEF HostInv
<1>15. SQInv'
  <2>1. sq' \in [Queues -> SQs] /\ sq'[0].live /\ sq'[0].cqID = 0
    BY <1>1, <1>5, <1>6, Sizes DEF SQInv, NewlySQ
  <2>2. ASSUME NEW r \in Queues, NEW i \in Slots
        PROVE  /\ sq'[r].mem[i] # 0 => sq'[r].mem[i] \in Cmds /\ cmd[sq'[r].mem[i]].q = r
               /\ Occupied(sq'[r], i) => sq'[r].mem[i] # 0
    <3>1. CASE r = q
      <4>1. sq'[r].mem[i] = 0
        BY <1>5, <3>1 DEF NewlySQ
      <4>2. ~Occupied(sq'[r], i)
        BY <1>5, <3>1, Sizes DEF NewlySQ, Occupied, Slots
      <4> QED
        BY <4>1, <4>2
    <3>2. CASE r # q
      BY <1>1, <1>5, <3>2 DEF SQInv, NewlySQ
    <3> QED
      BY <3>1, <3>2
  <2>3. \A c \in Cmds : sq'[cmd[c].q].live \/ DeletesSQ(cmd[c].q)
    BY <1>1, <1>5, <1>6, <1>8 DEF SQInv, NewlySQ
  <2>4. \A r \in Queues, i \in Slots :
          /\ sq'[r].mem[i] # 0 => sq'[r].mem[i] \in Cmds' /\ cmd'[sq'[r].mem[i]].q = r
          /\ Occupied(sq[r], i)' => sq'[r].mem[i] # 0
    BY <1>7, <2>2 DEF Occupied
  <2>5. \A c \in Cmds' : (sq[cmd[c].q].live \/ DeletesSQ(cmd[c].q))'
    <3>1. ASSUME NEW c \in Cmds' PROVE (sq[cmd[c].q].live \/ DeletesSQ(cmd[c].q))'
      <4>1. PICK r : r = cmd[c].q
        OBVIOUS
      <4> QED
        BY <1>7, <1>13, <2>3, <4>1
    <3> QED
      BY <3>1
  <2> QED
    BY <2>1, <2>4, <2>5 DEF SQInv
<1>16. FetchInv'
  <2>1. ASSUME NEW i \in DOMAIN fetching PROVE sq'[fetching[i].q].mem[fetching[i].at] # 0
    <3>1. fetching[i].q \in Queues /\ fetching[i].at \in Slots
      BY <1>1, FetchType
    <3>2. sq[fetching[i].q].mem[fetching[i].at] # 0
      BY <1>1 DEF FetchInv
    <3>3. fetching[i].q # q
      BY <1>1, <1>6, <3>1, <3>2 DEF SQInv
    <3> QED
      BY <1>5, <3>1, <3>2, <3>3 DEF NewlySQ
  <2> QED
    BY <1>1, <1>4, <2>1 DEF FetchInv
<1>17. BackInv'
  BY <1>3, <1>4, <1>9, BackFrame
<1> QED
  BY <1>11, <1>12, <1>14, <1>15, <1>16, <1>17 DEF FrontInv

(* The entries of a list.                                                  *)
Held(list) == {x \in Entries : \E j \in DOMAIN list : x = list[j]}

(* What the sweep of a deletion answers: entries of the FIFO that belong   *)
(* to the queue, in the order of s.done.                                   *)
Swept(e, q, s, done) ==
  /\ s \in Divisions(Held(lSQFIFO), q, lSQFIFO) /\ lSQFIFO' = s.kept
  /\ done \in Seq(Entries) /\ Len(done) = Len(s.done)
  /\ \A i \in DOMAIN done : /\ done[i].c = s.done[i].c /\ IsEntry(done[i])
                            /\ done[i].sq = q
                            /\ \E j \in DOMAIN lSQFIFO : lSQFIFO[j].c = done[i].c
  /\ Answer(done \o <<e>>, FALSE)
  /\ twice' = twice \union {done[i].c : i \in DOMAIN done}

(* The sweep of a deletion.                                                *)
LEMMA SweptFact ==
  ASSUME SQInv, EntryInv, NEW e \in Entries, NEW q \in Queues, DeleteSQ(e, q)
  PROVE  \E s, done : Swept(e, q, s, done)
<1> DEFINE E == Held(lSQFIFO)
<1>1. lSQFIFO \in Seq(Entries) /\ \A j \in DOMAIN lSQFIFO : IsEntry(lSQFIFO[j])
  BY DEF EntryInv
<1>2. lSQFIFO \in Seq(E)
  <2>1. \A j \in DOMAIN lSQFIFO : lSQFIFO[j] \in E
    BY <1>1 DEF Held
  <2> HIDE DEF E
  <2> QED
    BY <1>1, <2>1
<1>3. \A x \in E : x \in Entries /\ IsEntry(x) /\ \E j \in DOMAIN lSQFIFO : lSQFIFO[j] = x
  BY <1>1 DEF Held
<1>4. sq[q].head \in Slots
  BY DEF SQInv, SQs
<1>5. PICK s \in Sweeps(lSQFIFO, q) :
        /\ lSQFIFO' = s.kept
        /\ Answer([i \in DOMAIN s.done |-> [s.done[i] EXCEPT !.head = sq[q].head]] \o <<e>>, FALSE)
        /\ twice' = twice \union {s.done[i].c : i \in DOMAIN s.done}
  BY DEF DeleteSQ
<1>6. s \in Divisions(E, q, lSQFIFO)
  <2> HIDE DEF E
  <2> QED
    BY <1>2, SweepsFact
<1> DEFINE D == {x \in E : x.sq = q}
<1>7. s.done \in Seq(D)
  BY <1>6 DEF Divisions, SweepStates
<1> DEFINE done == [i \in DOMAIN s.done |-> [s.done[i] EXCEPT !.head = sq[q].head]]
<1>8. /\ DOMAIN s.done = 1..Len(s.done) /\ Len(s.done) \in Nat
      /\ \A i \in DOMAIN s.done : s.done[i] \in D
  <2> HIDE DEF D
  <2> QED
    BY <1>7
<1>9. ASSUME NEW x \in D
      PROVE  /\ [x EXCEPT !.head = sq[q].head] \in Entries
             /\ [x EXCEPT !.head = sq[q].head].c = x.c
             /\ [x EXCEPT !.head = sq[q].head].sq = q
             /\ IsEntry([x EXCEPT !.head = sq[q].head])
             /\ \E j \in DOMAIN lSQFIFO : lSQFIFO[j].c = x.c
  <2>1. x \in Entries /\ IsEntry(x) /\ x.sq = q /\ \E j \in DOMAIN lSQFIFO : lSQFIFO[j] = x
    <3> HIDE DEF E
    <3> QED
      BY <1>3
  <2>2. PICK y : y = [x EXCEPT !.head = sq[q].head]
    OBVIOUS
  <2>3. y \in Entries /\ y.c = x.c /\ y.sq = x.sq /\ y.cq = x.cq
    BY <1>4, <2>1, <2>2 DEF Entries
  <2>4. IsEntry(y)
    BY <2>1, <2>3 DEF IsEntry
  <2> QED
    BY <2>1, <2>2, <2>3, <2>4
<1> HIDE DEF D, E
<1>10. \A i \in DOMAIN s.done : /\ done[i] \in Entries /\ done[i].c = s.done[i].c
                               /\ done[i].sq = q /\ IsEntry(done[i])
                               /\ \E j \in DOMAIN lSQFIFO : lSQFIFO[j].c = done[i].c
  BY <1>8, <1>9
<1>11. DOMAIN done = 1..Len(s.done) /\ done = [i \in 1..Len(s.done) |-> done[i]]
  BY <1>8
<1>12. Answer(done \o <<e>>, FALSE) /\ twice' = twice \union {s.done[i].c : i \in DOMAIN s.done}
       /\ lSQFIFO' = s.kept
  BY <1>5
<1> HIDE DEF done
<1>13. done \in Seq(Entries) /\ Len(done) = Len(s.done)
  <2>1. PICK n \in Nat : n = Len(s.done)
    BY <1>8
  <2>2. done \in [1..n -> Entries]
    BY <1>8, <1>10, <1>11, <2>1
  <2> QED
    BY <2>1, <2>2
<1>14. {s.done[i].c : i \in DOMAIN s.done} = {done[i].c : i \in DOMAIN done}
  BY <1>8, <1>10, <1>11
<1>15. Swept(e, q, s, done)
  BY <1>6, <1>8, <1>10, <1>11, <1>12, <1>13, <1>14 DEF Swept, E
<1> QED
  BY <1>15

(* What the deletion of a submission queue does to it.                     *)
ClosedSQ(q) ==
  /\ sq' \in [Queues -> SQs]
  /\ \A r \in Queues : /\ sq'[r].live = (sq[r].live /\ r # q)
                       /\ sq'[r].head = sq[r].head /\ sq'[r].tail = sq[r].tail
                       /\ sq'[r].cqID = sq[r].cqID /\ sq'[r].mem = sq[r].mem
                       /\ sq'[r].priority = sq[r].priority

(* A deleted submission queue keeps everything but its life.               *)
LEMMA CloseSQ ==
  ASSUME SQInv, NEW q \in Queues, sq' = [sq EXCEPT ![q].live = FALSE]
  PROVE  ClosedSQ(q)
<1>1. sq \in [Queues -> SQs] /\ \A r \in Queues : sq[r] \in SQs
  BY DEF SQInv
<1>2. PICK x \in SQs : x = sq[q]
  BY <1>1
<1>3. PICK y : y = [x EXCEPT !.live = FALSE]
  OBVIOUS
<1>4. /\ y \in SQs /\ y.live = FALSE /\ y.head = x.head /\ y.tail = x.tail /\ y.cqID = x.cqID
      /\ y.priority = x.priority /\ y.mem = x.mem
  BY <1>3 DEF SQs
<1>5. sq' = [r \in Queues |-> IF r = q THEN y ELSE sq[r]]
  BY <1>1, <1>2, <1>3
<1>6. sq' \in [Queues -> SQs]
  BY <1>1, <1>4, <1>5
<1>7. \A r \in Queues : sq[r].live \in BOOLEAN
  BY <1>1 DEF SQs
<1>8. \A r \in Queues : sq'[r] = IF r = q THEN y ELSE sq[r]
  BY <1>5
<1>9. ASSUME NEW r \in Queues
      PROVE  /\ sq'[r].live = (sq[r].live /\ r # q)
             /\ sq'[r].head = sq[r].head /\ sq'[r].tail = sq[r].tail
             /\ sq'[r].cqID = sq[r].cqID /\ sq'[r].mem = sq[r].mem
             /\ sq'[r].priority = sq[r].priority
  <2>1. CASE r = q
    <3>1. sq'[r] = y
      BY <1>8, <2>1
    <3>2. sq'[r].live = FALSE
      BY <1>4, <3>1
    <3>3. (sq[r].live /\ r # q) = FALSE
      BY <2>1
    <3> QED
      BY <1>2, <1>4, <2>1, <3>1, <3>2, <3>3
  <2>2. CASE r # q
    BY <1>7, <1>8, <2>2
  <2> QED
    BY <2>1, <2>2
<1> QED
  BY <1>6, <1>9 DEF ClosedSQ

(* What a deletion leaves of the staged entries.                           *)
LEMMA PurgeDrops ==
  ASSUME EntryInv, NEW q, Purge(q), lSQFIFO' \in Seq(Entries),
         \A i \in DOMAIN lSQFIFO' : \E j \in DOMAIN lSQFIFO : lSQFIFO'[i] = lSQFIFO[j]
  PROVE  Drops
<1> DEFINE own(u) == {i \in DOMAIN lSQByUser[u] : lSQByUser[u][i].sq = q}
           rest(u) == Without(lSQByUser[u], own(u))
           drop == {u \in Users : /\ uidSQMap[u] # {}
                                  /\ uidSQMap[u] \subseteq {q}
                                  /\ rest(u) = <<>>}
           gap == {i \in DOMAIN rrUsers : rrUsers[i] \in drop}
<1>1. /\ lSQByUser \in [Users -> Seq(Entries)] /\ rrUsers \in Seq(Users)
      /\ uidSQMap \in [Users -> SUBSET Queues]
  BY DEF EntryInv
<1>2. /\ lSQByUser' = [u \in Users |-> rest(u)]
      /\ uidSQMap' = [u \in Users |-> uidSQMap[u] \ {q}]
      /\ rrUsers' = Without(rrUsers, gap)
  BY DEF Purge
<1>3. ASSUME NEW u \in Users
      PROVE  /\ rest(u) \in Seq(Entries)
             /\ \A i \in DOMAIN rest(u) : \E j \in DOMAIN lSQByUser[u] : rest(u)[i] = lSQByUser[u][j]
  <2>1. lSQByUser[u] \in Seq(Entries)
    BY <1>1
  <2> DEFINE at == own(u)
  <2> HIDE DEF at
  <2>2. /\ Without(lSQByUser[u], at) \in Seq(Entries)
        /\ \A i \in DOMAIN Without(lSQByUser[u], at) :
             \E j \in DOMAIN lSQByUser[u] : j \notin at /\ Without(lSQByUser[u], at)[i] = lSQByUser[u][j]
    BY <2>1, WithoutFact
  <2> QED
    BY <2>2 DEF at
<1>4. rrUsers' \in Seq(Users)
  <2> HIDE DEF gap
  <2> QED
    BY <1>1, <1>2, WithoutFact
<1>5. uidSQMap' \in [Users -> SUBSET Queues]
  BY <1>1, <1>2
<1> HIDE DEF rest
<1>6. /\ lSQByUser' \in [Users -> Seq(Entries)]
      /\ \A u \in Users : lSQByUser'[u] = rest(u)
  BY <1>2, <1>3
<1>7. ASSUME NEW u \in Users, NEW i \in DOMAIN lSQByUser'[u]
      PROVE  \E j \in DOMAIN lSQByUser[u] : lSQByUser'[u][i] = lSQByUser[u][j]
  <2>1. lSQByUser'[u] = rest(u) /\ i \in DOMAIN rest(u)
    BY <1>6
  <2> QED
    BY <1>3, <2>1
<1> QED
  BY <1>4, <1>5, <1>6, <1>7 DEF Drops

(* A submission queue is deleted.                                          *)
LEMMA EndDeleteSQ ==
  ASSUME FrontInv, BackInv, NumbersUsedOnce, NEW e \in running, EndFrame(e),
         cmd[e.c].op.op = "deleteSQ", DeleteSQ(e, cmd[e.c].op.q)
  PROVE  FrontInv' /\ BackInv'
<1> DEFINE op == cmd[e.c].op
<1>0. PICK q : q = op.q
  OBVIOUS
<1>1. /\ PlanInv /\ HostInv /\ SQInv /\ FetchInv /\ EntryInv
      /\ e \in Entries /\ IsEntry(e) /\ e.c \in Cmds
      /\ op \in Plans \union {IOCommand}
      /\ gone \subseteq Cmds /\ twice \subseteq Cmds /\ coalesced \subseteq Vectors
  BY EndingCommand
<1>2. q \in Queues /\ q # 0 /\ op = [op |-> "deleteSQ", q |-> q]
  BY <1>0, <1>1, OpType
<1>3. DeleteSQ(e, q)
  BY <1>0
<1>4. /\ UNCHANGED <<cq, aggregation, coalesced>> /\ Purge(q) /\ gone' = gone \union Lost(q)
      /\ sq' = [sq EXCEPT ![q].live = FALSE]
  BY <1>3 DEF DeleteSQ
<1>5. UNCHANGED <<cmd, posting, sending, intr, host, registers, fetching, plan, answers>>
      /\ running' = running \ {e}
  BY DEF EndFrame
<1>6. PICK s, done : Swept(e, q, s, done)
  BY <1>1, <1>2, <1>3, SweptFact
<1>7. ClosedSQ(q)
  BY <1>1, <1>2, <1>4, CloseSQ
<1>8. DeletesSQ(q)
  BY <1>1, <1>2 DEF DeletesSQ, Planned
<1>9. Cmds' = Cmds /\ cmd' = cmd
  BY <1>5 DEF Cmds
<1>10. \A c \in Cmds : cmd[c].q \in Queues
  BY <1>1, CmdType
<1>11. Steady
  <2>1. ASSUME NEW c \in Cmds, Created(c) PROVE Created(c)'
    <3>1. CASE cmd[c].op.op = "createSQ"
      <4>1. cmd[c].op.q \in Queues /\ cmd[c].op.q # q
        BY <1>1, <1>8, <3>1, CmdType, OpType, OnceSQ
      <4> QED
        BY <1>7, <1>9, <2>1, <3>1, <4>1 DEF Created, ClosedSQ
    <3>2. CASE cmd[c].op.op # "createSQ"
      BY <1>9, <3>2 DEF Created
    <3> QED
      BY <3>1, <3>2
  <2> QED
    BY <1>7, <1>9, <1>10, <2>1 DEF Steady, ClosedSQ
<1>12. Created(e.c)'
  BY <1>5 DEF Created
<1>13. Ends(e, done \o <<e>>)
  <2>1. /\ done \in Seq(Entries) /\ \A i \in DOMAIN done : IsEntry(done[i]) /\ done[i].sq = q
        /\ lCQFIFO' = lCQFIFO \o (done \o <<e>>)
    BY <1>6 DEF Swept, Answer
  <2>2. \A i \in DOMAIN done : Created(done[i].c)'
    <3>1. ASSUME NEW i \in DOMAIN done PROVE Created(done[i].c)'
      <4>1. PICK c : c = done[i].c
        OBVIOUS
      <4>2. c \in Cmds /\ cmd[c].q # 0
        BY <1>2, <2>1, <4>1 DEF IsEntry
      <4>3. Created(c)'
        BY <1>1, <1>11, <4>2, CreatedIO, SteadyEntry
      <4> QED
        BY <4>1, <4>3
    <3> QED
      BY <3>1
  <2>3. done \o <<e>> \in Seq(Entries) /\ \A i \in DOMAIN (done \o <<e>>) :
          (i \in DOMAIN done /\ (done \o <<e>>)[i] = done[i]) \/ (done \o <<e>>)[i] = e
    BY <1>1, <2>1
  <2> QED
    BY <1>1, <1>5, <1>12, <2>1, <2>2, <2>3 DEF Ends
<1>14. Drops
  <2>1. s.kept \in Seq(Held(lSQFIFO)) /\ lSQFIFO' = s.kept
    BY <1>6 DEF Swept, Divisions, SweepStates
  <2> DEFINE E == Held(lSQFIFO)
  <2>2. \A x \in E : x \in Entries /\ \E j \in DOMAIN lSQFIFO : x = lSQFIFO[j]
    BY DEF Held
  <2> HIDE DEF E
  <2>3. lSQFIFO' \in Seq(E) /\ \A i \in DOMAIN lSQFIFO' : lSQFIFO'[i] \in E
    BY <2>1 DEF E
  <2>4. lSQFIFO' \in Seq(Entries)
    BY <2>2, <2>3
  <2> QED
    BY <1>1, <1>4, <2>2, <2>3, <2>4, PurgeDrops
<1>15. EntryInv'
  BY <1>1, <1>11, <1>13, <1>14, EndEntries
<1>16. PlanInv'
  BY <1>1, <1>5, PlanFrame
<1>17. \A r : DeletesSQ(r)' <=> DeletesSQ(r)
  BY <1>9 DEF DeletesSQ, Planned
<1>18. HostInv'
  <2>1. \A r \in host.up : r \in Queues /\ sq'[r].live /\ ~DeletesSQ(r)'
    BY <1>1, <1>7, <1>8, <1>17 DEF HostInv, ClosedSQ
  <2>2. twice' \subseteq Cmds
    <3>1. \A i \in DOMAIN done : done[i].c \in Cmds
      BY <1>6 DEF Swept, IsEntry
    <3> QED
      BY <1>1, <1>6, <3>1 DEF Swept
  <2>3. gone' \subseteq Cmds
    BY <1>1, <1>4 DEF Lost, Cmds
  <2> QED
    BY <1>1, <1>4, <1>5, <1>9, <2>1, <2>2, <2>3 DEF HostInv
<1>19. SQInv'
  <2>1. sq' \in [Queues -> SQs] /\ sq'[0].live /\ sq'[0].cqID = 0
    BY <1>1, <1>2, <1>7, Sizes DEF SQInv, ClosedSQ
  <2>2. ASSUME NEW r \in Queues, NEW i \in Slots
        PROVE  /\ sq'[r].mem[i] # 0 => sq'[r].mem[i] \in Cmds' /\ cmd'[sq'[r].mem[i]].q = r
               /\ Occupied(sq[r], i)' => sq'[r].mem[i] # 0
    <3>1. sq'[r].head = sq[r].head /\ sq'[r].tail = sq[r].tail /\ sq'[r].mem = sq[r].mem
      BY <1>7 DEF ClosedSQ
    <3>2. /\ sq[r].mem[i] # 0 => sq[r].mem[i] \in Cmds /\ cmd[sq[r].mem[i]].q = r
          /\ Occupied(sq[r], i) => sq[r].mem[i] # 0
      BY <1>1 DEF SQInv
    <3>3. Occupied(sq[r], i)' <=> Occupied(sq[r], i)
      BY <3>1 DEF Occupied
    <3> QED
      BY <1>9, <3>1, <3>2, <3>3
  <2>3. \A c \in Cmds : sq'[cmd[c].q].live \/ DeletesSQ(cmd[c].q)
    <3>1. ASSUME NEW c \in Cmds PROVE sq'[cmd[c].q].live \/ DeletesSQ(cmd[c].q)
      <4>1. PICK r \in Queues : r = cmd[c].q
        BY <1>10
      <4>2. sq[r].live \/ DeletesSQ(r)
        BY <1>1, <4>1 DEF SQInv
      <4>3. sq'[r].live = (sq[r].live /\ r # q)
        BY <1>7 DEF ClosedSQ
      <4> QED
        BY <1>8, <4>1, <4>2, <4>3
    <3> QED
      BY <3>1
  <2>4. \A c \in Cmds' : (sq[cmd[c].q].live \/ DeletesSQ(cmd[c].q))'
    <3>1. ASSUME NEW c \in Cmds' PROVE (sq[cmd[c].q].live \/ DeletesSQ(cmd[c].q))'
      <4>1. PICK r : r = cmd[c].q
        OBVIOUS
      <4> QED
        BY <1>9, <1>17, <2>3, <4>1
    <3> QED
      BY <3>1
  <2> QED
    BY <2>1, <2>2, <2>4 DEF SQInv
<1>20. FetchInv'
  <2>1. ASSUME NEW i \in DOMAIN fetching PROVE sq'[fetching[i].q].mem[fetching[i].at] # 0
    BY <1>1, <1>7, FetchType DEF FetchInv, ClosedSQ
  <2> QED
    BY <1>1, <1>5, <2>1 DEF FetchInv
<1>21. BackInv'
  BY <1>4, <1>5, <1>11, BackFrame
<1> QED
  BY <1>15, <1>16, <1>18, <1>19, <1>20, <1>21 DEF FrontInv

(* The end of a command.                                                   *)
LEMMA FinishStep ==
  ASSUME FrontInv, BackInv, NumbersUsedOnce, NEW e \in running, Finish(e)
  PROVE  FrontInv' /\ BackInv'
<1>1. EndFrame(e)
  BY DEF Finish, EndFrame, hostVars
<1>2. \/ cmd[e.c].op.op = "deleteSQ" /\ DeleteSQ(e, cmd[e.c].op.q)
      \/ cmd[e.c].op.op = "createSQ" /\ CreateSQ(e, cmd[e.c].op)
      \/ RefuseCreate(e, cmd[e.c].op)
      \/ cmd[e.c].op.op = "createCQ" /\ CreateCQ(e, cmd[e.c].op)
      \/ cmd[e.c].op.op = "deleteCQ" /\ DeleteCQ(e, cmd[e.c].op.q)
      \/ cmd[e.c].op.op = "abort" /\ Abort(e, cmd[e.c].op)
      \/ cmd[e.c].op.op = "coalesce" /\ SetCoalescing(e, cmd[e.c].op)
      \/ JustAnswer(e, cmd[e.c].op)
  BY DEF Finish
<1> QED
  BY <1>1, <1>2, EndDeleteSQ, EndCreateSQ, EndRefuse, EndCreateCQ, EndDeleteCQ, EndAbort,
     EndCoalesce, EndJustAnswer

-----------------------------------------------------------------------------
(* Reading answers *)

(* A ring whose head moves over an occupied slot loses this slot only.     *)
LEMMA HeadMoves ==
  ASSUME NEW a, NEW b, a.head \in Slots, a.tail \in Slots, a.head # a.tail,
         b.head = Inc(a.head), b.tail = a.tail, NEW i \in Slots
  PROVE  /\ Occupied(b, i) <=> Occupied(a, i) /\ i # a.head
         /\ a.head = QueueSize - 1 => b.head = 0 /\ a.head > a.tail
         /\ a.head # QueueSize - 1 => b.head = a.head + 1
         /\ Occupied(a, i) => ItemCount(a) > 0
BY IncFact, Sizes DEF Occupied, Slots, ItemCount

(* What the reading of an answer does.                                     *)
Consumed(q) ==
  /\ cq' \in [Queues -> CQs]
  /\ \A r \in Queues : r # q => cq'[r] = cq[r]
  /\ cq'[q].live /\ cq'[q].head = Inc(cq[q].head) /\ cq'[q].tail = cq[q].tail
  /\ cq'[q].phase = cq[q].phase /\ cq'[q].iv = cq[q].iv /\ cq'[q].mem = cq[q].mem
  /\ cq[q].live /\ cq[q].head \in Slots /\ cq[q].tail \in Slots
  /\ Written(q, cq[q].head) /\ Answers(cq[q].mem[cq[q].head].c, q)
  /\ host' = [up |-> host'.up, head |-> host'.head, phase |-> host'.phase]
  /\ host'.head = [s \in Queues |-> host'.head[s]]
  /\ host'.phase \in [Queues -> BOOLEAN]
  /\ \A r \in Queues : r # q => host'.phase[r] = host.phase[r]
  /\ host'.phase[q] = IF Inc(cq[q].head) = 0 THEN ~host.phase[q] ELSE host.phase[q]

(* The answer that is read is one that was written.                        *)
LEMMA ConsumeEffect ==
  ASSUME FrontInv, BackInv, NEW q \in Queues, Consume(q)
  PROVE  Consumed(q)
<1>1. cq \in [Queues -> CQs] /\ \A r \in Queues : cq[r] \in CQs
  BY DEF BackInv, CQInv
<1>2. PICK x \in CQs : x = cq[q]
  BY <1>1
<1>3. x.head \in Slots /\ x.tail \in Slots /\ Inc(x.head) \in Slots
  <2>1. x.head \in Slots /\ x.tail \in Slots
    BY DEF CQs
  <2> QED
    BY <2>1, IncFact
<1>4. PICK y : y = [x EXCEPT !.head = Inc(@)]
  OBVIOUS
<1>5. /\ y \in CQs /\ y.live = x.live /\ y.head = Inc(x.head) /\ y.tail = x.tail
      /\ y.phase = x.phase /\ y.iv = x.iv /\ y.mem = x.mem
  BY <1>3, <1>4 DEF CQs
<1>6. cq' = [r \in Queues |-> IF r = q THEN y ELSE cq[r]]
  <2>1. cq' = [cq EXCEPT ![q].head = Inc(@)]
    BY DEF Consume
  <2> QED
    BY <1>1, <1>2, <1>4, <2>1
<1>7. cq' \in [Queues -> CQs] /\ cq'[q] = y /\ \A r \in Queues : r # q => cq'[r] = cq[r]
  BY <1>1, <1>5, <1>6
<1>8. cq[q].live /\ cq[q].mem[cq[q].head].phase = host.phase[q]
  BY DEF Consume, Visible
<1>9. Written(q, x.head) /\ Answers(cq[q].mem[x.head].c, q)
  <2>1. Expected(q, x.head) = host.phase[q]
    BY <1>2, <1>3, Sizes DEF Expected, Slots
  <2>2. /\ (cq[q].mem[x.head].phase = Expected(q, x.head)) <=> Written(q, x.head)
        /\ Written(q, x.head) => Answers(cq[q].mem[x.head].c, q)
    BY <1>3, <1>8 DEF BackInv, CQInv
  <2> QED
    BY <1>2, <1>8, <2>1, <2>2
<1>10. host = [up |-> host.up, head |-> host.head, phase |-> host.phase]
       /\ host.phase \in [Queues -> BOOLEAN]
       /\ host.head = [s \in Queues |-> host.head[s]]
  BY DEF FrontInv, HostInv
<1> DEFINE e == cq[q].mem[cq[q].head]
           op == cmd[e.c].op
           ph == [host.phase EXCEPT ![q] = IF cq'[q].head = 0 THEN ~@ ELSE @]
           hd == [s \in Queues |-> IF s = e.sq THEN e.head
                                   ELSE IF op.op = "createSQ" /\ s = op.q THEN 0 ELSE host.head[s]]
           up == IF op.op = "createSQ" THEN host.up \union {op.q} ELSE host.up
<1>11. host' = [host EXCEPT !.phase = ph, !.head = hd, !.up = up]
  <2>1. host' = [host EXCEPT !.phase[q] = IF cq'[q].head = 0 THEN ~@ ELSE @,
                             !.head = hd, !.up = up]
    BY DEF Consume
  <2> HIDE DEF hd, up
  <2> QED
    BY <1>10, <2>1
<1> HIDE DEF hd, up, ph
<1>12. host'.phase = ph /\ host'.head = hd /\ host'.up = up
       /\ host' = [up |-> host'.up, head |-> host'.head, phase |-> host'.phase]
  BY <1>10, <1>11
<1>13. hd = [s \in Queues |-> hd[s]]
  BY DEF hd
<1>14. /\ ph \in [Queues -> BOOLEAN] /\ \A r \in Queues : r # q => ph[r] = host.phase[r]
       /\ ph[q] = IF Inc(cq[q].head) = 0 THEN ~host.phase[q] ELSE host.phase[q]
  BY <1>2, <1>5, <1>7, <1>10 DEF ph
<1> QED
  BY <1>2, <1>3, <1>5, <1>7, <1>8, <1>9, <1>12, <1>13, <1>14 DEF Consumed

(* The rings after the reading of an answer.                               *)
LEMMA ConsumeRings ==
  ASSUME NEW q \in Queues, Consumed(q), HostInv, posting' = posting
  PROVE  /\ \A i \in Slots : /\ Occupied(cq[q], i)' <=> Occupied(cq[q], i) /\ i # cq[q].head
                             /\ Written(q, i)' <=> Written(q, i) /\ i # cq[q].head
                             /\ i # cq[q].head => Expected(q, i)' = Expected(q, i)
                             /\ i = cq[q].head => Expected(q, i)' = ~Expected(q, i)
         /\ \A r \in Queues, i \in Slots : r # q =>
              /\ Occupied(cq[r], i)' <=> Occupied(cq[r], i)
              /\ Written(r, i)' <=> Written(r, i)
              /\ Expected(r, i)' = Expected(r, i)
         /\ cq[q].phase = (IF cq[q].head <= cq[q].tail THEN host.phase[q] ELSE ~host.phase[q])
              => cq'[q].phase = IF cq'[q].head <= cq'[q].tail THEN host'.phase[q] ELSE ~host'.phase[q]
<1> DEFINE h == cq[q].head
           t == cq[q].tail
<1>1. /\ h \in Slots /\ t \in Slots /\ cq'[q].head = Inc(h) /\ cq'[q].tail = t
      /\ Occupied(cq[q], h)
  BY DEF Consumed, Written
<1>2. h # t
  BY <1>1, Sizes DEF Occupied, Slots
<1>3. host.phase \in [Queues -> BOOLEAN] /\ host'.phase[q] \in BOOLEAN /\ host.phase[q] \in BOOLEAN
  BY DEF HostInv, Consumed
<1>4. ASSUME NEW i \in Slots
      PROVE  /\ Occupied(cq[q], i)' <=> Occupied(cq[q], i) /\ i # h
             /\ h = QueueSize - 1 => cq'[q].head = 0 /\ h > t
             /\ h # QueueSize - 1 => cq'[q].head = h + 1
  <2>1. PICK a, b : a = cq[q] /\ b = cq'[q]
    OBVIOUS
  <2>2. /\ Occupied(b, i) <=> Occupied(a, i) /\ i # a.head
        /\ a.head = QueueSize - 1 => b.head = 0 /\ a.head > a.tail
        /\ a.head # QueueSize - 1 => b.head = a.head + 1
    BY <1>1, <1>2, <2>1, HeadMoves
  <2>3. Occupied(cq[q], i)' <=> Occupied(b, i)
    BY <2>1 DEF Occupied
  <2> QED
    BY <2>1, <2>2, <2>3
<1>5. \A i \in Slots : Unwritten(q, i)' <=> Unwritten(q, i)
  BY DEF Unwritten
<1>6. \A i \in Slots : Written(q, i)' <=> Written(q, i) /\ i # h
  BY <1>4, <1>5 DEF Written
<1>7. host'.phase[q] = IF Inc(h) = 0 THEN ~host.phase[q] ELSE host.phase[q]
  BY DEF Consumed
<1>8. ASSUME NEW i \in Slots
      PROVE  /\ i # h => Expected(q, i)' = Expected(q, i)
             /\ i = h => Expected(q, i)' = ~Expected(q, i)
  <2>1. CASE h = QueueSize - 1
    <3>1. cq'[q].head = 0 /\ cq'[q].head <= i /\ host'.phase[q] = ~host.phase[q]
      BY <1>1, <1>4, <1>7, <2>1, Sizes DEF Slots
    <3>2. Expected(q, i)' = ~host.phase[q]
      BY <3>1 DEF Expected
    <3>3. CASE i = h
      <4>1. Expected(q, i) = host.phase[q]
        BY <1>1, <3>3, Sizes DEF Expected, Slots
      <4> QED
        BY <3>2, <3>3, <4>1
    <3>4. CASE i # h
      <4>1. Expected(q, i) = ~host.phase[q]
        BY <1>1, <2>1, <3>4, Sizes DEF Expected, Slots
      <4> QED
        BY <3>2, <3>4, <4>1
    <3> QED
      BY <3>3, <3>4
  <2>2. CASE h # QueueSize - 1
    <3>1. cq'[q].head = h + 1 /\ Inc(h) # 0
      BY <1>1, <1>4, <2>2, Sizes DEF Slots
    <3>2. host'.phase[q] = host.phase[q]
      BY <1>7, <3>1
    <3>3. CASE i = h
      <4>1. ~(cq'[q].head <= i) /\ cq[q].head <= i
        BY <1>1, <3>1, <3>3, Sizes DEF Slots
      <4> QED
        BY <1>3, <3>2, <3>3, <4>1 DEF Expected
    <3>4. CASE i # h
      <4>1. cq'[q].head <= i <=> cq[q].head <= i
        BY <1>1, <3>1, <3>4, Sizes DEF Slots
      <4> QED
        BY <3>2, <3>4, <4>1 DEF Expected
    <3> QED
      BY <3>3, <3>4
  <2> QED
    BY <2>1, <2>2
<1>9. \A r \in Queues, i \in Slots : r # q =>
        /\ Occupied(cq[r], i)' <=> Occupied(cq[r], i)
        /\ Written(r, i)' <=> Written(r, i)
        /\ Expected(r, i)' = Expected(r, i)
  BY DEF Consumed, Occupied, Written, Unwritten, Expected
<1>10. ASSUME cq[q].phase = IF h <= t THEN host.phase[q] ELSE ~host.phase[q]
       PROVE  cq'[q].phase = IF cq'[q].head <= cq'[q].tail THEN host'.phase[q] ELSE ~host'.phase[q]
  <2>1. cq'[q].phase = cq[q].phase
    BY DEF Consumed
  <2>2. CASE h = QueueSize - 1
    <3>1. ~(h <= t) /\ cq'[q].head <= t
      BY <1>1, <1>4, <2>2, Sizes DEF Slots
    <3>2. host'.phase[q] = ~host.phase[q]
      BY <1>1, <1>4, <1>7, <2>2
    <3> QED
      BY <1>1, <1>10, <2>1, <3>1, <3>2
  <2>3. CASE h # QueueSize - 1
    <3>1. (h <= t) <=> (cq'[q].head <= t)
      BY <1>1, <1>2, <1>4, <2>3, Sizes DEF Slots
    <3>2. host'.phase[q] = host.phase[q]
      BY <1>1, <1>4, <1>7, <2>3, Sizes DEF Slots
    <3> QED
      BY <1>1, <1>10, <2>1, <3>1, <3>2
  <2> QED
    BY <2>2, <2>3
<1> QED
  BY <1>4, <1>6, <1>8, <1>9, <1>10

(* The host after the reading of an answer.                                *)
LEMMA ConsumeHost ==
  ASSUME FrontInv, NumbersUsedOnce, NEW q \in Queues, Consume(q), Consumed(q)
  PROVE  HostInv'
<1> DEFINE e == cq[q].mem[cq[q].head]
           op == cmd[e.c].op
<1>1. HostInv /\ PlanInv /\ Answers(e.c, q)
  BY DEF FrontInv, Consumed
<1>2. UNCHANGED <<registers, cmd, sq, gone, twice, coalesced>> /\ Cmds' = Cmds
  BY DEF Consume, fetchVars, histVars, Cmds
<1>3. e.c \in Cmds /\ Created(e.c)
  BY <1>1 DEF Answers
<1>4. Len(cmd) \in Nat /\ Len(cmd) <= MaxCommands
  BY <1>1, Sizes DEF HostInv, Registers
<1>5. e.c \in 1..MaxCommands
  BY <1>3, <1>4, Sizes DEF Cmds
<1>6. answers' = [answers EXCEPT ![e.c] = @ + 1]
  BY DEF Consume
<1> HIDE DEF e
<1>7. /\ answers' \in [1..MaxCommands -> Nat]
      /\ \A c \in 1..MaxCommands : c \notin Cmds => answers'[c] = 0
  BY <1>1, <1>3, <1>5, <1>6 DEF HostInv
<1>8. host'.up \subseteq host.up \union (IF op.op = "createSQ" THEN {op.q} ELSE {})
  <2> DEFINE hd == [s \in Queues |-> IF s = e.sq THEN e.head
                                     ELSE IF op.op = "createSQ" /\ s = op.q THEN 0 ELSE host.head[s]]
             up == IF op.op = "createSQ" THEN host.up \union {op.q} ELSE host.up
  <2>1. host' = [host EXCEPT !.phase[q] = IF cq'[q].head = 0 THEN ~@ ELSE @,
                             !.head = hd, !.up = up]
    BY DEF Consume, e
  <2>2. host = [up |-> host.up, head |-> host.head, phase |-> host.phase]
    BY <1>1 DEF HostInv
  <2> HIDE DEF hd, op, up
  <2>3. host'.up = up
    BY <2>1, <2>2
  <2> QED
    BY <2>3 DEF up
<1>9. \A r : DeletesSQ(r)' <=> DeletesSQ(r)
  BY <1>2 DEF DeletesSQ, Planned
<1>10. \A r \in host'.up : r \in Queues /\ sq'[r].live /\ ~DeletesSQ(r)'
  <2>1. ASSUME NEW r \in host'.up PROVE r \in Queues /\ sq[r].live /\ ~DeletesSQ(r)
    <3>1. CASE r \in host.up
      BY <1>1, <3>1 DEF HostInv
    <3>2. CASE op.op = "createSQ" /\ r = op.q
      <4>1. r \in Queues
        BY <1>1, <1>3, <3>2, CmdType, OpType
      <4> QED
        BY <1>1, <1>3, <3>2, <4>1, OnceSQ DEF Created
    <3> QED
      BY <1>8, <3>1, <3>2
  <2> QED
    BY <1>2, <1>9, <2>1
<1> QED
  BY <1>1, <1>2, <1>7, <1>10 DEF HostInv, Consumed

(* The host reads an answer.                                               *)
LEMMA ConsumeStep ==
  ASSUME FrontInv, BackInv, NumbersUsedOnce, NEW q \in Queues, Consume(q)
  PROVE  FrontInv' /\ BackInv'
<1>1. Consumed(q)
  BY ConsumeEffect
<1>2. UNCHANGED <<registers, cmd, sq, gone, twice, coalesced, plan, fetching, lSQByUser, rrUsers,
                  uidSQMap, lSQFIFO, running, lCQFIFO, posting, sending, aggregation>>
  BY DEF Consume, fetchVars, histVars
<1>3. Steady
  BY <1>2, Still
<1>4. FrontInv'
  BY <1>1, <1>2, <1>3, ConsumeHost, PlanFrame, SQFrame, FetchFrame, EntryFrame DEF FrontInv
<1>5. HostInv /\ CQInv /\ PostInv /\ SignalInv
  BY DEF FrontInv, BackInv
<1>6. /\ \A i \in Slots : /\ Occupied(cq[q], i)' <=> Occupied(cq[q], i) /\ i # cq[q].head
                          /\ Written(q, i)' <=> Written(q, i) /\ i # cq[q].head
                          /\ i # cq[q].head => Expected(q, i)' = Expected(q, i)
                          /\ i = cq[q].head => Expected(q, i)' = ~Expected(q, i)
      /\ \A r \in Queues, i \in Slots : r # q =>
           /\ Occupied(cq[r], i)' <=> Occupied(cq[r], i)
           /\ Written(r, i)' <=> Written(r, i)
           /\ Expected(r, i)' = Expected(r, i)
      /\ cq[q].phase = (IF cq[q].head <= cq[q].tail THEN host.phase[q] ELSE ~host.phase[q])
           => cq'[q].phase = IF cq'[q].head <= cq'[q].tail THEN host'.phase[q] ELSE ~host'.phase[q]
  BY <1>1, <1>2, <1>5, ConsumeRings
<1>7. /\ cq[q].live /\ cq'[q].live /\ cq'[q].iv = cq[q].iv /\ cq'[q].mem = cq[q].mem
      /\ Written(q, cq[q].head) /\ cq[q].head \in Slots
      /\ \A r \in Queues : r # q => cq'[r] = cq[r] /\ host'.phase[r] = host.phase[r]
  BY <1>1 DEF Consumed
<1>8. \A r \in Queues : /\ cq'[r].live <=> cq[r].live
                        /\ cq'[r].iv = cq[r].iv /\ cq'[r].mem = cq[r].mem
  BY <1>7
<1>9. CQInv'
  <2>1. ASSUME NEW r \in Queues, cq'[r].live
        PROVE  cq'[r].phase = IF cq'[r].head <= cq'[r].tail THEN host'.phase[r] ELSE ~host'.phase[r]
    <3>1. cq[r].phase = IF cq[r].head <= cq[r].tail THEN host.phase[r] ELSE ~host.phase[r]
      BY <1>5, <1>8, <2>1 DEF CQInv
    <3>2. CASE r = q
      BY <1>6, <3>1, <3>2
    <3>3. CASE r # q
      <4>1. cq'[r] = cq[r] /\ host'.phase[r] = host.phase[r]
        BY <1>7, <3>3
      <4> QED
        BY <3>1, <4>1
    <3> QED
      BY <3>2, <3>3
  <2>2. ASSUME NEW r \in Queues, cq'[r].live, NEW i \in Slots
        PROVE  /\ (cq'[r].mem[i].phase = Expected(r, i)') <=> Written(r, i)'
               /\ Written(r, i)' => (Answers(cq[r].mem[i].c, r))'
    <3>1. PICK x : x = cq[r].mem[i]
      OBVIOUS
    <3>2. /\ (x.phase = Expected(r, i)) <=> Written(r, i)
          /\ Written(r, i) => Answers(x.c, r)
      BY <1>5, <1>8, <2>2, <3>1 DEF CQInv
    <3>3. Answers(x.c, r) => Answers(x.c, r)'
      BY <1>3, SteadyEntry
    <3>4. cq'[r].mem[i] = x
      BY <1>8, <3>1
    <3>5. CASE r = q /\ i = cq[q].head
      <4>1. Written(r, i) /\ ~(Written(r, i)') /\ Expected(r, i)' = ~Expected(r, i)
        BY <1>6, <1>7, <3>5
      <4>2. Expected(r, i) \in BOOLEAN
        BY <1>5 DEF HostInv, Expected
      <4>3. x.phase = Expected(r, i)
        BY <3>2, <4>1
      <4>4. x.phase # Expected(r, i)'
        BY <4>1, <4>2, <4>3
      <4> QED
        BY <3>4, <4>1, <4>4
    <3>6. CASE ~(r = q /\ i = cq[q].head)
      <4>1. (Written(r, i)' <=> Written(r, i)) /\ Expected(r, i)' = Expected(r, i)
        BY <1>6, <3>6
      <4> QED
        BY <3>2, <3>3, <3>4, <4>1
    <3> QED
      BY <3>5, <3>6
  <2>3. ASSUME NEW r \in Queues, ~cq'[r].live PROVE DeletesCQ(r)' \/ host'.phase[r]
    BY <1>3, <1>5, <1>7, <2>3, SteadyEntry DEF CQInv
  <2> QED
    BY <1>1, <2>1, <2>2, <2>3 DEF CQInv, Consumed
<1>10. PostInv'
  <2>1. \A j \in DOMAIN posting : posting[j].write.cq \in Queues /\ posting[j].write.at \in Slots
    BY <1>5, PostType DEF Writes
  <2>2. ASSUME NEW j \in DOMAIN posting
        PROVE  /\ Answers(posting[j].write.val.c, posting[j].write.cq)'
               /\ IF cq'[posting[j].write.cq].live
                  THEN /\ Occupied(cq[posting[j].write.cq], posting[j].write.at)'
                       /\ posting[j].write.val.phase = Expected(posting[j].write.cq, posting[j].write.at)'
                  ELSE DeletesCQ(posting[j].write.cq)'
    <3>1. PICK w : w = posting[j].write
      OBVIOUS
    <3>2. /\ Answers(w.val.c, w.cq) /\ w.cq \in Queues /\ w.at \in Slots
          /\ IF cq[w.cq].live
             THEN Occupied(cq[w.cq], w.at) /\ w.val.phase = Expected(w.cq, w.at)
             ELSE DeletesCQ(w.cq)
      BY <1>5, <2>1, <3>1 DEF PostInv
    <3>3. Answers(w.val.c, w.cq)'
      BY <1>3, <3>2, SteadyEntry
    <3>4. ~(w.cq = q /\ w.at = cq[q].head)
      <4>1. ~Unwritten(q, cq[q].head)
        BY <1>7 DEF Written
      <4> QED
        BY <3>1, <4>1 DEF Unwritten
    <3>5. IF cq'[w.cq].live
          THEN Occupied(cq[w.cq], w.at)' /\ w.val.phase = Expected(w.cq, w.at)'
          ELSE DeletesCQ(w.cq)'
      BY <1>3, <1>6, <1>8, <3>2, <3>4, SteadyEntry
    <3> QED
      BY <1>2, <3>1, <3>3, <3>5
  <2>3. intr' \subseteq Vectors
    <3>1. cq[q].iv \in Vectors
      BY <1>5 DEF CQInv, CQs
    <3> QED
      BY <1>5, <3>1 DEF PostInv, Consume, AfterClear
  <2> QED
    BY <1>2, <1>5, <2>2, <2>3 DEF PostInv
<1>11. SignalInv'
  <2>1. cq[q].ien = TRUE
    BY <1>5 DEF CQInv, CQs
  <2>2. intr' = AfterClear(cq[q].iv, cq')
    BY <2>1 DEF Consume
  <2>3. ASSUME NEW r \in Queues, NEW i \in Slots, cq'[r].live, cq'[r].iv \notin coalesced,
               Written(r, i)'
        PROVE  (Coming(cq[r].iv))'
    <3>1. PICK v : v = cq[r].iv
      OBVIOUS
    <3>2. cq'[r].iv = v /\ Written(r, i) /\ cq[r].live
      BY <1>6, <1>8, <2>3, <3>1
    <3>3. Coming(v)
      BY <1>5, <2>3, <3>1, <3>2 DEF SignalInv
    <3>4. CASE v = cq[q].iv
      <4>1. Occupied(cq'[r], i)
        BY <2>3 DEF Written, Occupied
      <4>2. ItemCount(cq'[r]) > 0
        <5>1. cq'[r].head \in Slots /\ cq'[r].tail \in Slots
          BY <1>1 DEF Consumed, CQs
        <5> QED
          BY <4>1, <5>1, Sizes DEF Occupied, ItemCount, Slots
      <4>3. v \in intr'
        BY <2>2, <2>3, <3>2, <3>4, <4>2 DEF AfterClear
      <4> QED
        BY <3>2, <4>3 DEF Coming
    <3>5. CASE v # cq[q].iv
      <4>1. v \in intr => v \in intr'
        BY <2>2, <3>5 DEF AfterClear
      <4>2. Coming(v)'
        BY <1>2, <3>3, <4>1 DEF Coming
      <4> QED
        BY <3>2, <4>2
    <3> QED
      BY <3>4, <3>5
  <2>4. posting' = posting /\ coalesced' = coalesced /\ aggregation' = aggregation
    BY <1>2
  <2>5. ASSUME NEW j \in DOMAIN posting
        PROVE  /\ posting[j].ivs # {} => posting[j].last
               /\ cq'[posting[j].write.cq].live /\ cq'[posting[j].write.cq].iv \notin coalesced =>
                    \E k \in DOMAIN posting : j <= k /\ cq'[posting[j].write.cq].iv \in posting[k].ivs
    <3>1. posting[j].write.cq \in Queues
      BY <1>5, PostType DEF Writes
    <3>2. PICK r \in Queues : r = posting[j].write.cq
      BY <3>1
    <3>3. (cq'[r].live <=> cq[r].live) /\ cq'[r].iv = cq[r].iv
      BY <1>8
    <3> QED
      BY <1>5, <3>2, <3>3 DEF SignalInv
  <2>6. \A j \in DOMAIN posting' :
          /\ posting'[j].ivs # {} => posting'[j].last
          /\ cq'[posting'[j].write.cq].live /\ cq'[posting'[j].write.cq].iv \notin coalesced' =>
               \E k \in DOMAIN posting' : j <= k /\ cq'[posting'[j].write.cq].iv \in posting'[k].ivs
    BY <2>4, <2>5
  <2>7. \A r \in Queues, i \in Slots :
          cq'[r].live /\ cq'[r].iv \notin coalesced' /\ Written(r, i)' => (Coming(cq[r].iv))'
    BY <2>3, <2>4
  <2>8. aggregation' \in [Vectors -> Aggregations]
        /\ \A v \in Vectors : aggregation'[v].valid => v \in coalesced'
    BY <1>5, <2>4 DEF SignalInv
  <2> QED
    BY <2>6, <2>7, <2>8 DEF SignalInv
<1> QED
  BY <1>4, <1>9, <1>10, <1>11 DEF BackInv

-----------------------------------------------------------------------------
(* Writing answers *)

(* What the end of a write does.                                           *)
Delivered(q, at, val) ==
  /\ q \in Queues /\ at \in Slots /\ val \in Slips /\ cq[q].live
  /\ cq' \in [Queues -> CQs]
  /\ \A r \in Queues :
       /\ cq'[r].live = cq[r].live /\ cq'[r].head = cq[r].head /\ cq'[r].tail = cq[r].tail
       /\ cq'[r].phase = cq[r].phase /\ cq'[r].iv = cq[r].iv
       /\ \A i \in Slots : cq'[r].mem[i] = IF r = q /\ i = at THEN val ELSE cq[r].mem[i]
  /\ posting # <<>> /\ posting' = Tail(posting)
  /\ posting[1].write.cq = q /\ posting[1].write.at = at /\ posting[1].write.val = val
  /\ sending' = IF posting[1].last THEN Append(sending, posting[1].ivs) ELSE sending

(* The write at the head of the transfers ends.                            *)
LEMMA PostDoneEffect ==
  ASSUME BackInv, PostDone, ~broken'
  PROVE  \E q, at, val : Delivered(q, at, val)
<1>1. PostInv /\ CQInv
  BY DEF BackInv
<1>2. posting # <<>> /\ 1 \in DOMAIN posting /\ posting' = Tail(posting) /\ Head(posting) = posting[1]
  <2> DEFINE S == [write : Writes, last : BOOLEAN, ivs : SUBSET Vectors]
  <2>1. posting \in Seq(S)
    BY <1>1 DEF PostInv
  <2> HIDE DEF S
  <2> QED
    BY <2>1 DEF PostDone
<1>3. PICK w : w = posting[1].write
  OBVIOUS
<1>4. w \in Writes
  BY <1>1, <1>2, <1>3, PostType
<1>5. w.cq \in Queues /\ w.at \in Slots /\ w.val \in Slips
  BY <1>4 DEF Writes, Slips
<1>6. /\ cq' = [cq EXCEPT ![w.cq].mem[w.at] = w.val] /\ cq[w.cq].live
      /\ sending' = IF posting[1].last THEN Append(sending, posting[1].ivs) ELSE sending
  BY <1>2, <1>3 DEF PostDone
<1>7. PICK q, at, val : q = w.cq /\ at = w.at /\ val = w.val
  OBVIOUS
<1>8. cq \in [Queues -> CQs] /\ \A r \in Queues : cq[r] \in CQs
  BY <1>1 DEF CQInv
<1>9. PICK x \in CQs : x = cq[q]
  BY <1>5, <1>7, <1>8
<1>10. PICK m : m = [x.mem EXCEPT ![at] = val]
  OBVIOUS
<1>11. x.mem \in [Slots -> Slips]
  BY DEF CQs
<1>12. m \in [Slots -> Slips] /\ \A i \in Slots : m[i] = IF i = at THEN val ELSE x.mem[i]
  BY <1>5, <1>7, <1>10, <1>11
<1>13. PICK y : y = [x EXCEPT !.mem = m]
  OBVIOUS
<1>14. /\ y \in CQs /\ y.live = x.live /\ y.head = x.head /\ y.tail = x.tail
       /\ y.phase = x.phase /\ y.iv = x.iv /\ y.mem = m
  BY <1>12, <1>13 DEF CQs
<1>15. cq' = [r \in Queues |-> IF r = q THEN y ELSE cq[r]]
  <2>1. cq' = [cq EXCEPT ![q] = [cq[q] EXCEPT !.mem = [cq[q].mem EXCEPT ![at] = val]]]
    BY <1>6, <1>7
  <2> QED
    BY <1>8, <1>9, <1>10, <1>13, <2>1
<1>16. cq' \in [Queues -> CQs] /\ \A r \in Queues : cq'[r] = IF r = q THEN y ELSE cq[r]
  BY <1>8, <1>14, <1>15
<1>17. ASSUME NEW r \in Queues
       PROVE  /\ cq'[r].live = cq[r].live /\ cq'[r].head = cq[r].head /\ cq'[r].tail = cq[r].tail
              /\ cq'[r].phase = cq[r].phase /\ cq'[r].iv = cq[r].iv
              /\ \A i \in Slots : cq'[r].mem[i] = IF r = q /\ i = at THEN val ELSE cq[r].mem[i]
  <2>1. CASE r = q
    <3>1. cq'[r] = y /\ cq[r] = x
      BY <1>9, <1>16, <2>1
    <3> QED
      BY <1>12, <1>14, <2>1, <3>1
  <2>2. CASE r # q
    <3>1. cq'[r] = cq[r]
      BY <1>16, <2>2
    <3> QED
      BY <2>2, <3>1
  <2> QED
    BY <2>1, <2>2
<1>18. Delivered(q, at, val)
  BY <1>2, <1>3, <1>5, <1>6, <1>7, <1>16, <1>17 DEF Delivered
<1> QED
  BY <1>18

(* What is left to write.                                                  *)
LEMMA DeliveredRings ==
  ASSUME BackInv, NEW q, NEW at, NEW val, Delivered(q, at, val), host'.phase = host.phase
  PROVE  /\ posting' \in Seq([write : Writes, last : BOOLEAN, ivs : SUBSET Vectors])
         /\ 1 \in DOMAIN posting
         /\ \A j \in DOMAIN posting' : j + 1 \in DOMAIN posting /\ posting'[j] = posting[j + 1]
         /\ \A j \in DOMAIN posting : j \in Nat /\ (j # 1 => j - 1 \in DOMAIN posting')
         /\ \A r \in Queues, i \in Slots :
              /\ Occupied(cq[r], i)' <=> Occupied(cq[r], i)
              /\ Expected(r, i)' = Expected(r, i)
              /\ Unwritten(r, i)' <=> Unwritten(r, i) /\ ~(r = q /\ i = at)
<1>1. Delivered(q, at, val)
  OBVIOUS
<1>2. host'.phase = host.phase
  OBVIOUS
<1>5. CQInv /\ PostInv /\ SignalInv
  BY DEF BackInv
<1>6. /\ q \in Queues /\ at \in Slots /\ cq[q].live
      /\ posting[1].write.cq = q /\ posting[1].write.at = at /\ posting[1].write.val = val
      /\ \A r \in Queues :
           /\ cq'[r].live = cq[r].live /\ cq'[r].head = cq[r].head /\ cq'[r].tail = cq[r].tail
           /\ cq'[r].phase = cq[r].phase /\ cq'[r].iv = cq[r].iv
           /\ \A i \in Slots : cq'[r].mem[i] = IF r = q /\ i = at THEN val ELSE cq[r].mem[i]
  BY <1>1 DEF Delivered
<1> DEFINE S == [write : Writes, last : BOOLEAN, ivs : SUBSET Vectors]
<1>7. /\ posting' \in Seq(S) /\ 1 \in DOMAIN posting
      /\ \A j \in DOMAIN posting' : j + 1 \in DOMAIN posting /\ posting'[j] = posting[j + 1]
      /\ \A j \in DOMAIN posting : j \in Nat /\ (j # 1 => j - 1 \in DOMAIN posting')
  <2>1. posting \in Seq(S)
    BY <1>5 DEF PostInv
  <2> HIDE DEF S
  <2> QED
    BY <1>1, <2>1 DEF Delivered
<1> HIDE DEF S
<1>8. \A r \in Queues, i \in Slots :
        /\ Occupied(cq[r], i)' <=> Occupied(cq[r], i)
        /\ Expected(r, i)' = Expected(r, i)
        /\ Unwritten(r, i)' <=> Unwritten(r, i) /\ ~(r = q /\ i = at)
  <2>1. ASSUME NEW r \in Queues, NEW i \in Slots
        PROVE  Unwritten(r, i)' <=> Unwritten(r, i) /\ ~(r = q /\ i = at)
    <3>1. ASSUME Unwritten(r, i)' PROVE Unwritten(r, i) /\ ~(r = q /\ i = at)
      <4>1. PICK j \in DOMAIN posting' : posting'[j].write.cq = r /\ posting'[j].write.at = i
        BY <3>1 DEF Unwritten
      <4>2. j + 1 \in DOMAIN posting /\ posting'[j] = posting[j + 1] /\ j \in Nat /\ j # 0
        BY <1>7, <4>1
      <4>3. ~(r = q /\ i = at)
        BY <1>5, <1>6, <1>7, <4>1, <4>2 DEF PostInv
      <4> QED
        BY <4>1, <4>2, <4>3 DEF Unwritten
    <3>2. ASSUME Unwritten(r, i), ~(r = q /\ i = at) PROVE Unwritten(r, i)'
      <4>1. PICK j \in DOMAIN posting : posting[j].write.cq = r /\ posting[j].write.at = i
        BY <3>2 DEF Unwritten
      <4>2. j # 1 /\ j \in Nat
        BY <1>6, <1>7, <3>2, <4>1
      <4>3. j - 1 \in DOMAIN posting' /\ posting'[j - 1] = posting[j]
        BY <1>7, <4>2
      <4> QED
        BY <4>1, <4>3 DEF Unwritten
    <3> QED
      BY <3>1, <3>2
  <2> QED
    BY <1>2, <1>6, <2>1 DEF Occupied, Expected
<1> QED
  BY <1>7, <1>8 DEF S

(* A completion entry is in host memory.                                   *)
LEMMA PostDoneStep ==
  ASSUME FrontInv, BackInv, PostDone, ~broken'
  PROVE  FrontInv' /\ BackInv'
<1>1. PICK q, at, val : Delivered(q, at, val)
  BY PostDoneEffect
<1>2. UNCHANGED <<registers, cmd, sq, gone, twice, coalesced, plan, host, answers, fetching,
                  lSQByUser, rrUsers, uidSQMap, lSQFIFO, running, lCQFIFO, intr, aggregation>>
  BY DEF PostDone, fetchVars, histVars, hostVars
<1>3. Steady
  BY <1>2, Still
<1>4. FrontInv'
  <2>1. registers' \in Registers
    BY <1>2 DEF FrontInv, HostInv
  <2> QED
    BY <1>2, <1>3, <2>1, HostFrame, PlanFrame, SQFrame, FetchFrame, EntryFrame DEF FrontInv
<1>5. CQInv /\ PostInv /\ SignalInv
  BY DEF BackInv
<1>6. /\ q \in Queues /\ at \in Slots /\ cq[q].live
      /\ posting[1].write.cq = q /\ posting[1].write.at = at /\ posting[1].write.val = val
      /\ \A r \in Queues :
           /\ cq'[r].live = cq[r].live /\ cq'[r].head = cq[r].head /\ cq'[r].tail = cq[r].tail
           /\ cq'[r].phase = cq[r].phase /\ cq'[r].iv = cq[r].iv
           /\ \A i \in Slots : cq'[r].mem[i] = IF r = q /\ i = at THEN val ELSE cq[r].mem[i]
  BY <1>1 DEF Delivered
<1> DEFINE S == [write : Writes, last : BOOLEAN, ivs : SUBSET Vectors]
<1>7. /\ posting' \in Seq(S) /\ 1 \in DOMAIN posting
      /\ \A j \in DOMAIN posting' : j + 1 \in DOMAIN posting /\ posting'[j] = posting[j + 1]
      /\ \A j \in DOMAIN posting : j \in Nat /\ (j # 1 => j - 1 \in DOMAIN posting')
  BY <1>1, <1>2, DeliveredRings
<1> HIDE DEF S
<1>8. \A r \in Queues, i \in Slots :
        /\ Occupied(cq[r], i)' <=> Occupied(cq[r], i)
        /\ Expected(r, i)' = Expected(r, i)
        /\ Unwritten(r, i)' <=> Unwritten(r, i) /\ ~(r = q /\ i = at)
  BY <1>1, <1>2, DeliveredRings
<1>9. /\ Answers(val.c, q) /\ Occupied(cq[q], at) /\ val.phase = Expected(q, at)
  BY <1>5, <1>6, <1>7 DEF PostInv
<1>10. CQInv'
  <2>1. ASSUME NEW r \in Queues, cq'[r].live
        PROVE  cq'[r].phase = IF cq'[r].head <= cq'[r].tail THEN host'.phase[r] ELSE ~host'.phase[r]
    BY <1>2, <1>5, <1>6, <2>1 DEF CQInv
  <2>2. ASSUME NEW r \in Queues, cq'[r].live, NEW i \in Slots
        PROVE  /\ (cq'[r].mem[i].phase = Expected(r, i)') <=> Written(r, i)'
               /\ Written(r, i)' => (Answers(cq[r].mem[i].c, r))'
    <3>1. PICK x : x = cq'[r].mem[i]
      OBVIOUS
    <3>2. CASE r = q /\ i = at
      <4>1. x = val /\ Written(r, i)'
        BY <1>6, <1>8, <1>9, <3>1, <3>2 DEF Written
      <4>2. Answers(x.c, r)'
        BY <1>3, <1>9, <3>2, <4>1, SteadyEntry
      <4>3. x.phase = Expected(r, i)'
        BY <1>8, <1>9, <3>2, <4>1
      <4> QED
        BY <3>1, <4>1, <4>2, <4>3
    <3>3. CASE ~(r = q /\ i = at)
      <4>1. x = cq[r].mem[i] /\ cq[r].live
        BY <1>6, <2>2, <3>1, <3>3
      <4>2. (Written(r, i)' <=> Written(r, i)) /\ Expected(r, i)' = Expected(r, i)
        BY <1>8, <3>3 DEF Written
      <4>3. /\ (x.phase = Expected(r, i)) <=> Written(r, i)
            /\ Written(r, i) => Answers(x.c, r)
        BY <1>5, <4>1 DEF CQInv
      <4>4. Answers(x.c, r) => Answers(x.c, r)'
        BY <1>3, SteadyEntry
      <4> QED
        BY <3>1, <4>2, <4>3, <4>4
    <3> QED
      BY <3>2, <3>3
  <2>3. ASSUME NEW r \in Queues, ~cq'[r].live PROVE DeletesCQ(r)' \/ host'.phase[r]
    BY <1>2, <1>3, <1>5, <1>6, <2>3, SteadyEntry DEF CQInv
  <2> QED
    BY <1>1, <2>1, <2>2, <2>3 DEF CQInv, Delivered
<1>11. PostInv'
  <2>1. ASSUME NEW j \in DOMAIN posting'
        PROVE  /\ (Answers(posting[j].write.val.c, posting[j].write.cq))'
               /\ IF (cq[posting[j].write.cq].live)'
                  THEN /\ (Occupied(cq[posting[j].write.cq], posting[j].write.at))'
                       /\ (posting[j].write.val.phase = Expected(posting[j].write.cq, posting[j].write.at))'
                  ELSE (DeletesCQ(posting[j].write.cq))'
               /\ \A k \in DOMAIN posting' :
                    (/\ posting'[k].write.cq = posting'[j].write.cq
                     /\ posting'[k].write.at = posting'[j].write.at) => k = j
    <3>1. PICK w : w = posting'[j].write
      OBVIOUS
    <3>2. j + 1 \in DOMAIN posting /\ posting[j + 1].write = w /\ j \in Nat
      BY <1>7, <3>1
    <3>3. /\ Answers(w.val.c, w.cq)
          /\ IF cq[w.cq].live
             THEN Occupied(cq[w.cq], w.at) /\ w.val.phase = Expected(w.cq, w.at)
             ELSE DeletesCQ(w.cq)
          /\ \A k \in DOMAIN posting :
               posting[k].write.cq = w.cq /\ posting[k].write.at = w.at => k = j + 1
      BY <1>5, <3>2 DEF PostInv
    <3>4. w.cq \in Queues /\ w.at \in Slots
      BY <1>5, <3>2, PostType DEF Writes
    <3>5. Answers(w.val.c, w.cq)'
      BY <1>3, <3>3, SteadyEntry
    <3>6. IF cq'[w.cq].live
          THEN Occupied(cq[w.cq], w.at)' /\ w.val.phase = Expected(w.cq, w.at)'
          ELSE DeletesCQ(w.cq)'
      BY <1>3, <1>6, <1>8, <3>3, <3>4, SteadyEntry
    <3>7. ASSUME NEW k \in DOMAIN posting', posting'[k].write.cq = w.cq, posting'[k].write.at = w.at
          PROVE  k = j
      <4>1. k + 1 \in DOMAIN posting /\ posting'[k] = posting[k + 1] /\ k \in Nat
        BY <1>7
      <4>2. k + 1 = j + 1
        BY <3>3, <3>7, <4>1
      <4> QED
        BY <3>2, <4>1, <4>2
    <3> QED
      BY <3>1, <3>5, <3>6, <3>7
  <2>2. sending' \in Seq(SUBSET Vectors)
    <3>1. posting[1].ivs \in SUBSET Vectors
      BY <1>5, <1>7, PostType
    <3>2. sending \in Seq(SUBSET Vectors)
      BY <1>5 DEF PostInv
    <3> DEFINE V == SUBSET Vectors
    <3> HIDE DEF V
    <3>3. posting[1].ivs \in V /\ sending \in Seq(V)
      BY <3>1, <3>2 DEF V
    <3>4. sending' \in Seq(V)
      BY <1>1, <3>3 DEF Delivered
    <3> QED
      BY <3>4 DEF V
  <2> QED
    BY <1>2, <1>5, <1>7, <2>1, <2>2 DEF PostInv, S
<1>12. \A v : (\E j \in DOMAIN posting : v \in posting[j].ivs) => Coming(v)'
  <2>1. ASSUME NEW v, NEW j \in DOMAIN posting, v \in posting[j].ivs PROVE Coming(v)'
    <3>1. CASE j = 1
      <4>1. posting[1].last
        BY <1>5, <2>1, <3>1 DEF SignalInv
      <4>2. sending' = Append(sending, posting[1].ivs)
        BY <1>1, <4>1 DEF Delivered
      <4>3. sending \in Seq(SUBSET Vectors)
        BY <1>5 DEF PostInv
      <4> DEFINE V == SUBSET Vectors
      <4> HIDE DEF V
      <4>4. sending \in Seq(V)
        BY <4>3 DEF V
      <4>5. Len(sending) + 1 \in DOMAIN sending' /\ sending'[Len(sending) + 1] = posting[1].ivs
        BY <4>2, <4>4
      <4> QED
        BY <2>1, <3>1, <4>5 DEF Coming
    <3>2. CASE j # 1
      <4>1. j - 1 \in DOMAIN posting' /\ posting'[j - 1] = posting[j]
        BY <1>7, <3>2
      <4> QED
        BY <2>1, <4>1 DEF Coming
    <3> QED
      BY <3>1, <3>2
  <2> QED
    BY <2>1
<1>13. \A v : Coming(v) => Coming(v)'
  <2>1. ASSUME NEW v, NEW j \in DOMAIN sending, v \in sending[j] PROVE Coming(v)'
    <3> DEFINE V == SUBSET Vectors
    <3>1. sending \in Seq(V)
      BY <1>5 DEF PostInv
    <3> HIDE DEF V
    <3>2. j \in DOMAIN sending' /\ sending'[j] = sending[j]
      <4>1. CASE posting[1].last
        <5>1. sending' = Append(sending, posting[1].ivs)
          BY <1>1, <4>1 DEF Delivered
        <5> QED
          BY <3>1, <5>1
      <4>2. CASE ~posting[1].last
        BY <1>1, <4>2 DEF Delivered
      <4> QED
        BY <4>1, <4>2
    <3> QED
      BY <2>1, <3>2 DEF Coming
  <2> QED
    BY <1>2, <1>12, <2>1 DEF Coming
<1>14. SignalInv'
  <2>1. ASSUME NEW r \in Queues, NEW i \in Slots, cq'[r].live, cq'[r].iv \notin coalesced,
               Written(r, i)'
        PROVE  (Coming(cq[r].iv))'
    <3>1. PICK v : v = cq[r].iv
      OBVIOUS
    <3>2. cq'[r].iv = v /\ cq[r].live
      BY <1>6, <2>1, <3>1
    <3>3. CASE r = q /\ i = at
      <4>1. \E k \in DOMAIN posting : v \in posting[k].ivs
        BY <1>5, <1>6, <1>7, <2>1, <3>1, <3>2, <3>3 DEF SignalInv
      <4> QED
        BY <1>12, <3>2, <4>1
    <3>4. CASE ~(r = q /\ i = at)
      <4>1. Written(r, i)
        BY <1>8, <2>1, <3>4 DEF Written
      <4>2. Coming(v)
        BY <1>5, <2>1, <3>1, <3>2, <4>1 DEF SignalInv
      <4> QED
        BY <1>13, <3>2, <4>2
    <3> QED
      BY <3>3, <3>4
  <2>2. ASSUME NEW j \in DOMAIN posting'
        PROVE  /\ posting'[j].ivs # {} => posting'[j].last
               /\ cq'[posting'[j].write.cq].live /\ cq'[posting'[j].write.cq].iv \notin coalesced =>
                    \E k \in DOMAIN posting' : j <= k /\ cq'[posting'[j].write.cq].iv \in posting'[k].ivs
    <3>1. j + 1 \in DOMAIN posting /\ posting'[j] = posting[j + 1] /\ j \in Nat
      BY <1>7
    <3>2. PICK r \in Queues : r = posting[j + 1].write.cq
      BY <1>5, <3>1, PostType DEF Writes
    <3>3. cq'[r].live = cq[r].live /\ cq'[r].iv = cq[r].iv
      BY <1>6
    <3>4. ASSUME cq[r].live, cq[r].iv \notin coalesced
          PROVE  \E k \in DOMAIN posting' : j <= k /\ cq[r].iv \in posting'[k].ivs
      <4>1. PICK k \in DOMAIN posting : j + 1 <= k /\ cq[r].iv \in posting[k].ivs
        BY <1>5, <3>1, <3>2, <3>4 DEF SignalInv
      <4>2. k \in Nat /\ k # 1
        BY <1>7, <3>1, <4>1
      <4>3. k - 1 \in DOMAIN posting' /\ posting'[k - 1] = posting[k] /\ j <= k - 1
        BY <1>7, <3>1, <4>1, <4>2
      <4> QED
        BY <4>1, <4>3
    <3>5. posting[j + 1].ivs # {} => posting[j + 1].last
      BY <1>5, <3>1 DEF SignalInv
    <3> QED
      BY <3>1, <3>2, <3>3, <3>4, <3>5
  <2>3. coalesced' = coalesced /\ aggregation' = aggregation
    BY <1>2
  <2>4. \A j \in DOMAIN posting' :
          /\ posting'[j].ivs # {} => posting'[j].last
          /\ cq'[posting'[j].write.cq].live /\ cq'[posting'[j].write.cq].iv \notin coalesced' =>
               \E k \in DOMAIN posting' : j <= k /\ cq'[posting'[j].write.cq].iv \in posting'[k].ivs
    BY <2>2, <2>3
  <2>5. \A r \in Queues, i \in Slots :
          cq'[r].live /\ cq'[r].iv \notin coalesced' /\ Written(r, i)' => (Coming(cq[r].iv))'
    BY <2>1, <2>3
  <2>6. aggregation' \in [Vectors -> Aggregations]
        /\ \A v \in Vectors : aggregation'[v].valid => v \in coalesced'
    BY <1>5, <2>3 DEF SignalInv
  <2> QED
    BY <2>4, <2>5, <2>6 DEF SignalInv
<1> QED
  BY <1>4, <1>10, <1>11, <1>14 DEF BackInv

-----------------------------------------------------------------------------
(* Posting answers *)

(* A ring whose tail moves without meeting its head gains this slot only.  *)
LEMMA TailMoves ==
  ASSUME NEW a, NEW b, a.head \in Slots, a.tail \in Slots, Inc(a.tail) # a.head,
         b.head = a.head, b.tail = Inc(a.tail), NEW i \in Slots
  PROVE  /\ Occupied(b, i) <=> Occupied(a, i) \/ i = a.tail
         /\ ~Occupied(a, a.tail)
         /\ Inc(a.tail) = 0 => a.head <= a.tail /\ ~(b.head <= b.tail)
         /\ Inc(a.tail) # 0 => (a.head <= a.tail <=> b.head <= b.tail)
BY IncFact, Sizes DEF Occupied, Slots

(* The states of the loop of completion, and what a turn does.             *)
Rounds == [cq : [Queues -> CQs], agg : [Vectors -> Aggregations], open : SUBSET Vectors,
           ivs : SUBSET Vectors, writes : Seq(Writes), bad : BOOLEAN]
TakesTurn(s, t, e) ==
  /\ t \in Rounds
  /\ \A r \in Queues :
       /\ t.cq[r].live = s.cq[r].live /\ t.cq[r].head = s.cq[r].head
       /\ t.cq[r].iv = s.cq[r].iv /\ t.cq[r].mem = s.cq[r].mem
       /\ r # e.cq => t.cq[r].tail = s.cq[r].tail /\ t.cq[r].phase = s.cq[r].phase
  /\ t.cq[e.cq].tail = Inc(s.cq[e.cq].tail)
  /\ t.cq[e.cq].phase = IF Inc(s.cq[e.cq].tail) = 0 THEN ~s.cq[e.cq].phase ELSE s.cq[e.cq].phase
  /\ \A v \in Vectors : t.agg[v].valid = s.agg[v].valid
  /\ s.ivs \subseteq t.ivs
  /\ ~s.agg[s.cq[e.cq].iv].valid => s.cq[e.cq].iv \in t.ivs
  /\ t.writes = Append(s.writes, [cq |-> e.cq, at |-> s.cq[e.cq].tail,
                                  val |-> [c |-> e.c, sq |-> e.sq, head |-> e.head,
                                           phase |-> s.cq[e.cq].phase]])
  /\ ~t.bad => ~s.bad /\ s.cq[e.cq].live /\ Inc(s.cq[e.cq].tail) # s.cq[e.cq].head

(* A turn of the loop.                                                     *)
LEMMA PostOneEffect ==
  ASSUME NEW s \in Rounds, NEW e \in Entries
  PROVE  TakesTurn(s, PostOne(s, e), e)
<1>1. e.cq \in Queues /\ e.c \in Nat /\ e.sq \in Queues /\ e.head \in Slots
  BY DEF Entries
<1>2. /\ s.cq \in [Queues -> CQs] /\ s.agg \in [Vectors -> Aggregations] /\ s.open \in SUBSET Vectors
      /\ s.ivs \in SUBSET Vectors /\ s.writes \in Seq(Writes) /\ s.bad \in BOOLEAN
  BY DEF Rounds
<1> DEFINE q == s.cq[e.cq]
           a == s.agg[q.iv]
           hold == e.cq > 0 /\ a.valid /\ q.iv \in s.open /\ a.count + 1 <= Threshold
           new == SetData(q)
           agg == IF ~q.ien \/ e.cq = 0 \/ ~a.valid THEN s.agg
                  ELSE IF hold
                  THEN [s.agg EXCEPT ![q.iv] = [a EXCEPT !.count = a.count + 1, !.pending = TRUE]]
                  ELSE [s.agg EXCEPT ![q.iv] = [a EXCEPT !.count = 0, !.timed = TRUE]]
           open == IF q.ien /\ ~hold /\ e.cq > 0 /\ a.valid THEN s.open \union {q.iv} ELSE s.open
           ivs == IF q.ien /\ ~hold THEN s.ivs \union {q.iv} ELSE s.ivs
           w == [cq |-> e.cq, at |-> q.tail,
                 val |-> [c |-> e.c, sq |-> e.sq, head |-> e.head, phase |-> q.phase]]
           bad == s.bad \/ ~q.live \/ Overflow(q)
           queues == [s.cq EXCEPT ![e.cq] = new]
<1>3. PostOne(s, e) = [cq |-> queues, agg |-> agg, open |-> open, ivs |-> ivs,
                       writes |-> Append(s.writes, w), bad |-> bad]
  BY DEF PostOne
<1>4. q \in CQs
  BY <1>1, <1>2
<1> HIDE DEF q
<1>5. /\ q.live \in BOOLEAN /\ q.tail \in Slots /\ q.phase \in BOOLEAN /\ q.iv \in Vectors
      /\ q.ien = TRUE
  BY <1>4 DEF CQs
<1>6. Inc(q.tail) \in Slots
  BY <1>5, IncFact
<1>7. a \in Aggregations
  BY <1>2, <1>5
<1> HIDE DEF a
<1>8. /\ new \in CQs /\ new.live = q.live /\ new.head = q.head /\ new.iv = q.iv /\ new.mem = q.mem
      /\ new.tail = Inc(q.tail) /\ new.phase = IF Inc(q.tail) = 0 THEN ~q.phase ELSE q.phase
  <2>1. PICK ph \in BOOLEAN : ph = IF Inc(q.tail) = 0 THEN ~q.phase ELSE q.phase
    BY <1>5
  <2>2. new = [q EXCEPT !.tail = Inc(q.tail), !.phase = ph]
    BY <2>1 DEF SetData
  <2>3. PICK n : n = Inc(q.tail)
    OBVIOUS
  <2>4. new = [q EXCEPT !.tail = n, !.phase = ph] /\ n \in Slots
    BY <1>6, <2>2, <2>3
  <2> HIDE DEF new
  <2>5. /\ new \in CQs /\ new.live = q.live /\ new.head = q.head /\ new.iv = q.iv /\ new.mem = q.mem
        /\ new.tail = n /\ new.phase = ph
    BY <1>4, <2>4 DEF CQs
  <2> QED
    BY <2>1, <2>3, <2>5
<1> HIDE DEF new
<1>9. queues \in [Queues -> CQs] /\ queues[e.cq] = new
      /\ \A r \in Queues : r # e.cq => queues[r] = s.cq[r]
  BY <1>1, <1>2, <1>8
<1>10. agg \in [Vectors -> Aggregations] /\ \A v \in Vectors : agg[v].valid = s.agg[v].valid
  <2>1. PICK a1 : a1 = [a EXCEPT !.count = a.count + 1, !.pending = TRUE]
    OBVIOUS
  <2>2. a1 \in Aggregations /\ a1.valid = a.valid
    <3>1. PICK n \in Nat : n = a.count + 1
      BY <1>7 DEF Aggregations
    <3>2. a1 = [a EXCEPT !.count = n, !.pending = TRUE]
      BY <2>1, <3>1
    <3> QED
      BY <1>7, <3>2 DEF Aggregations
  <2>3. PICK a2 : a2 = [a EXCEPT !.count = 0, !.timed = TRUE]
    OBVIOUS
  <2>4. a2 \in Aggregations /\ a2.valid = a.valid
    BY <1>7, <2>3 DEF Aggregations
  <2>5. \/ agg = s.agg \/ agg = [s.agg EXCEPT ![q.iv] = a1] \/ agg = [s.agg EXCEPT ![q.iv] = a2]
    BY <2>1, <2>3
  <2> HIDE DEF agg
  <2>6. CASE agg = s.agg
    BY <1>2, <2>6
  <2>7. CASE agg = [s.agg EXCEPT ![q.iv] = a1]
    BY <1>2, <1>5, <2>2, <2>7 DEF a
  <2>8. CASE agg = [s.agg EXCEPT ![q.iv] = a2]
    BY <1>2, <1>5, <2>4, <2>8 DEF a
  <2> QED
    BY <2>5, <2>6, <2>7, <2>8
<1>11. open \in SUBSET Vectors /\ ivs \in SUBSET Vectors /\ s.ivs \subseteq ivs
       /\ (~a.valid => q.iv \in ivs)
  BY <1>2, <1>5
<1>12. w \in Writes
  BY <1>1, <1>5 DEF Writes
<1>13. bad \in BOOLEAN /\ (~bad => ~s.bad /\ q.live /\ Inc(q.tail) # q.head)
  BY <1>2, <1>5 DEF Overflow
<1> HIDE DEF queues, agg, open, ivs, bad
<1>14. Append(s.writes, w) \in Seq(Writes)
  <2> HIDE DEF w
  <2> QED
    BY <1>2, <1>12
<1>15. PICK t : t = PostOne(s, e)
  OBVIOUS
<1>16. /\ t.cq = queues /\ t.agg = agg /\ t.open = open /\ t.ivs = ivs
       /\ t.writes = Append(s.writes, w) /\ t.bad = bad /\ t \in Rounds
  <2> HIDE DEF w
  <2> QED
    BY <1>3, <1>9, <1>10, <1>11, <1>13, <1>14, <1>15 DEF Rounds
<1>17. ASSUME NEW r \in Queues
       PROVE  /\ t.cq[r].live = s.cq[r].live /\ t.cq[r].head = s.cq[r].head
              /\ t.cq[r].iv = s.cq[r].iv /\ t.cq[r].mem = s.cq[r].mem
              /\ r # e.cq => t.cq[r].tail = s.cq[r].tail /\ t.cq[r].phase = s.cq[r].phase
  <2>1. CASE r = e.cq
    <3>1. t.cq[r] = new /\ s.cq[r] = q
      BY <1>9, <1>16, <2>1 DEF q
    <3> QED
      BY <1>8, <2>1, <3>1
  <2>2. CASE r # e.cq
    <3>1. t.cq[r] = s.cq[r]
      BY <1>9, <1>16, <2>2
    <3> QED
      BY <3>1
  <2> QED
    BY <2>1, <2>2
<1>18. /\ t.cq[e.cq].tail = Inc(s.cq[e.cq].tail)
       /\ t.cq[e.cq].phase = IF Inc(s.cq[e.cq].tail) = 0 THEN ~s.cq[e.cq].phase ELSE s.cq[e.cq].phase
  <2>1. t.cq[e.cq] = new /\ s.cq[e.cq] = q
    BY <1>9, <1>16 DEF q
  <2> QED
    BY <1>8, <2>1
<1>19. \A v \in Vectors : t.agg[v].valid = s.agg[v].valid
  BY <1>10, <1>16
<1>20. /\ s.ivs \subseteq t.ivs
       /\ ~s.agg[s.cq[e.cq].iv].valid => s.cq[e.cq].iv \in t.ivs
       /\ ~t.bad => ~s.bad /\ s.cq[e.cq].live /\ Inc(s.cq[e.cq].tail) # s.cq[e.cq].head
  BY <1>11, <1>13, <1>16 DEF q, a
<1>21. t.writes = Append(s.writes, [cq |-> e.cq, at |-> s.cq[e.cq].tail,
                                    val |-> [c |-> e.c, sq |-> e.sq, head |-> e.head,
                                             phase |-> s.cq[e.cq].phase]])
  BY <1>16 DEF q
<1>22. TakesTurn(s, t, e)
  BY <1>16, <1>17, <1>18, <1>19, <1>20, <1>21 DEF TakesTurn
<1> QED
  BY <1>15, <1>22

(* What holds after n turns that met no panic: a write goes to a slot of a *)
(* live queue that was free, no two to the same one, and its phase is what *)
(* the host expects there.                                                 *)
RoundQueues(s) ==
  \A r \in Queues :
    /\ s.cq[r].live = cq[r].live /\ s.cq[r].head = cq[r].head
    /\ s.cq[r].iv = cq[r].iv /\ s.cq[r].mem = cq[r].mem
    /\ cq[r].live => s.cq[r].phase = IF s.cq[r].head <= s.cq[r].tail THEN host.phase[r]
                                     ELSE ~host.phase[r]
RoundWrite(s, w) ==
  /\ w.cq \in Queues /\ w.at \in Slots /\ cq[w.cq].live
  /\ ~Occupied(cq[w.cq], w.at) /\ Occupied(s.cq[w.cq], w.at)
  /\ w.val.phase = Expected(w.cq, w.at)
  /\ cq[w.cq].iv \notin coalesced => cq[w.cq].iv \in s.ivs
RoundWrites(s, n) ==
  /\ Len(s.writes) = n
  /\ \A j \in 1..n :
       /\ RoundWrite(s, s.writes[j])
       /\ s.writes[j].cq = lCQFIFO[j].cq /\ s.writes[j].val.c = lCQFIFO[j].c
       /\ \A k \in 1..n : s.writes[k].cq = s.writes[j].cq /\ s.writes[k].at = s.writes[j].at => k = j
RoundSlots(s, n) ==
  \A r \in Queues, i \in Slots :
    Occupied(s.cq[r], i) <=> \/ Occupied(cq[r], i)
                             \/ \E j \in 1..n : s.writes[j].cq = r /\ s.writes[j].at = i
RoundInv(s, n) ==
  ~s.bad => /\ RoundQueues(s) /\ RoundWrites(s, n) /\ RoundSlots(s, n)
            /\ \A v \in Vectors : s.agg[v].valid = aggregation[v].valid

(* A turn keeps it.                                                        *)
LEMMA RoundTurn ==
  ASSUME HostInv, BackInv, NEW s \in Rounds, NEW n \in Nat, NEW e \in Entries,
         e = lCQFIFO[n + 1], NEW t, TakesTurn(s, t, e), RoundInv(s, n)
  PROVE  RoundInv(t, n + 1)
<1>1. SUFFICES ASSUME ~t.bad
               PROVE  /\ RoundQueues(t) /\ RoundWrites(t, n + 1) /\ RoundSlots(t, n + 1)
                      /\ \A v \in Vectors : t.agg[v].valid = aggregation[v].valid
  BY DEF RoundInv
<1> DEFINE q == e.cq
           w == [cq |-> e.cq, at |-> s.cq[e.cq].tail,
                 val |-> [c |-> e.c, sq |-> e.sq, head |-> e.head, phase |-> s.cq[e.cq].phase]]
<1>2. /\ ~s.bad /\ s.cq[q].live /\ Inc(s.cq[q].tail) # s.cq[q].head
      /\ t.cq[q].tail = Inc(s.cq[q].tail)
      /\ t.cq[q].phase = IF Inc(s.cq[q].tail) = 0 THEN ~s.cq[q].phase ELSE s.cq[q].phase
      /\ t.writes = Append(s.writes, w) /\ s.ivs \subseteq t.ivs
      /\ ~s.agg[s.cq[q].iv].valid => s.cq[q].iv \in t.ivs
  BY <1>1 DEF TakesTurn
<1>3. \A r \in Queues :
        /\ t.cq[r].live = s.cq[r].live /\ t.cq[r].head = s.cq[r].head
        /\ t.cq[r].iv = s.cq[r].iv /\ t.cq[r].mem = s.cq[r].mem
        /\ r # q => t.cq[r].tail = s.cq[r].tail /\ t.cq[r].phase = s.cq[r].phase
  BY DEF TakesTurn
<1>4. /\ RoundQueues(s) /\ RoundWrites(s, n) /\ RoundSlots(s, n)
      /\ \A v \in Vectors : s.agg[v].valid = aggregation[v].valid
  BY <1>2 DEF RoundInv
<1>5. q \in Queues /\ s.cq[q] \in CQs /\ s.cq[q].head \in Slots /\ s.cq[q].tail \in Slots
      /\ s.cq[q].iv \in Vectors
  BY DEF Entries, Rounds, CQs
<1>6. s.writes \in Seq(Writes)
  BY DEF Rounds
<1>7. /\ cq[q].live /\ s.cq[q].iv = cq[q].iv /\ s.cq[q].head = cq[q].head
      /\ s.cq[q].phase = IF s.cq[q].head <= s.cq[q].tail THEN host.phase[q] ELSE ~host.phase[q]
  BY <1>2, <1>4, <1>5 DEF RoundQueues
<1>8. ASSUME NEW i \in Slots
      PROVE  /\ Occupied(t.cq[q], i) <=> Occupied(s.cq[q], i) \/ i = s.cq[q].tail
             /\ ~Occupied(s.cq[q], s.cq[q].tail)
             /\ Inc(s.cq[q].tail) = 0 => s.cq[q].head <= s.cq[q].tail /\ ~(t.cq[q].head <= t.cq[q].tail)
             /\ Inc(s.cq[q].tail) # 0 =>
                  (s.cq[q].head <= s.cq[q].tail <=> t.cq[q].head <= t.cq[q].tail)
  <2>1. PICK a, b : a = s.cq[q] /\ b = t.cq[q]
    OBVIOUS
  <2>2. /\ a.head \in Slots /\ a.tail \in Slots /\ Inc(a.tail) # a.head /\ b.head = a.head
        /\ b.tail = Inc(a.tail)
    BY <1>2, <1>3, <1>5, <2>1
  <2>3. /\ Occupied(b, i) <=> Occupied(a, i) \/ i = a.tail
        /\ ~Occupied(a, a.tail)
        /\ Inc(a.tail) = 0 => a.head <= a.tail /\ ~(b.head <= b.tail)
        /\ Inc(a.tail) # 0 => (a.head <= a.tail <=> b.head <= b.tail)
    BY <2>2, TailMoves
  <2> QED
    BY <2>1, <2>3
<1>9. \A r \in Queues, i \in Slots : r # q => (Occupied(t.cq[r], i) <=> Occupied(s.cq[r], i))
  BY <1>3 DEF Occupied
<1>10. RoundQueues(t)
  <2>1. ASSUME NEW r \in Queues, cq[r].live
        PROVE  t.cq[r].phase = IF t.cq[r].head <= t.cq[r].tail THEN host.phase[r] ELSE ~host.phase[r]
    <3>1. CASE r # q
      <4>1. t.cq[r].head = s.cq[r].head /\ t.cq[r].tail = s.cq[r].tail /\ t.cq[r].phase = s.cq[r].phase
        BY <1>3, <3>1
      <4> QED
        BY <1>4, <2>1, <4>1 DEF RoundQueues
    <3>2. CASE r = q
      <4>1. host.phase[q] \in BOOLEAN
        BY <1>5 DEF HostInv
      <4>2. CASE Inc(s.cq[q].tail) = 0
        <5>1. s.cq[q].phase = host.phase[q] /\ t.cq[q].phase = ~s.cq[q].phase
          BY <1>2, <1>5, <1>7, <1>8, <4>2
        <5>2. ~(t.cq[q].head <= t.cq[q].tail)
          BY <1>5, <1>8, <4>2
        <5> QED
          BY <3>2, <5>1, <5>2
      <4>3. CASE Inc(s.cq[q].tail) # 0
        <5>1. t.cq[q].phase = s.cq[q].phase
          BY <1>2, <4>3
        <5>2. s.cq[q].head <= s.cq[q].tail <=> t.cq[q].head <= t.cq[q].tail
          BY <1>5, <1>8, <4>3
        <5> QED
          BY <1>7, <3>2, <5>1, <5>2
      <4> QED
        BY <4>2, <4>3
    <3> QED
      BY <3>1, <3>2
  <2> QED
    BY <1>3, <1>4, <2>1 DEF RoundQueues
<1>11. w.cq = q /\ w.at = s.cq[q].tail /\ w.val.c = e.c /\ w.val.phase = s.cq[q].phase
  OBVIOUS
<1> HIDE DEF w, q
<1>12. /\ Len(t.writes) = n + 1 /\ t.writes[n + 1] = w
       /\ \A j \in 1..n : t.writes[j] = s.writes[j]
  <2>1. Len(s.writes) = n
    BY <1>4 DEF RoundWrites
  <2> QED
    BY <1>2, <1>6, <2>1
<1>13. RoundWrite(t, w)
  <2>1. ~Occupied(s.cq[q], w.at) /\ Occupied(t.cq[q], w.at)
    BY <1>5, <1>8, <1>11
  <2>2. ~Occupied(cq[q], w.at)
    BY <1>4, <1>5, <1>11, <2>1 DEF RoundSlots
  <2>3. w.val.phase = Expected(q, w.at)
    BY <1>7, <1>11 DEF Expected
  <2>4. cq[q].iv \notin coalesced => cq[q].iv \in t.ivs
    BY <1>2, <1>4, <1>5, <1>7 DEF BackInv, SignalInv
  <2> QED
    BY <1>5, <1>7, <1>11, <2>1, <2>2, <2>3, <2>4 DEF RoundWrite
<1>14. \A j \in 1..n : /\ RoundWrite(t, s.writes[j])
                       /\ ~(s.writes[j].cq = w.cq /\ s.writes[j].at = w.at)
  <2>1. ASSUME NEW j \in 1..n
        PROVE  RoundWrite(t, s.writes[j]) /\ ~(s.writes[j].cq = w.cq /\ s.writes[j].at = w.at)
    <3>1. PICK x : x = s.writes[j]
      OBVIOUS
    <3>2. RoundWrite(s, x)
      BY <1>4, <3>1 DEF RoundWrites
    <3>3. x.cq \in Queues /\ x.at \in Slots /\ Occupied(s.cq[x.cq], x.at)
      BY <3>2 DEF RoundWrite
    <3>4. Occupied(t.cq[x.cq], x.at)
      <4>1. CASE x.cq = q
        BY <1>8, <3>3, <4>1
      <4>2. CASE x.cq # q
        BY <1>9, <3>3, <4>2
      <4> QED
        BY <4>1, <4>2
    <3>5. ~(x.cq = w.cq /\ x.at = w.at)
      BY <1>8, <1>5, <1>11, <3>3
    <3> QED
      BY <1>2, <3>1, <3>2, <3>4, <3>5 DEF RoundWrite
  <2> QED
    BY <2>1
<1>15. RoundWrites(t, n + 1)
  <2>1. ASSUME NEW j \in 1..(n + 1)
        PROVE  /\ RoundWrite(t, t.writes[j])
               /\ t.writes[j].cq = lCQFIFO[j].cq /\ t.writes[j].val.c = lCQFIFO[j].c
    <3>1. CASE j = n + 1
      BY <1>11, <1>12, <1>13, <3>1 DEF q
    <3>2. CASE j # n + 1
      <4>1. j \in 1..n
        BY <3>2
      <4> QED
        BY <1>4, <1>12, <1>14, <4>1 DEF RoundWrites
    <3> QED
      BY <3>1, <3>2
  <2>2. ASSUME NEW j \in 1..(n + 1), NEW k \in 1..(n + 1),
               t.writes[k].cq = t.writes[j].cq, t.writes[k].at = t.writes[j].at
        PROVE  k = j
    <3>1. CASE j = n + 1 /\ k # n + 1
      <4>1. k \in 1..n
        BY <3>1
      <4> QED
        BY <1>12, <1>14, <2>2, <3>1, <4>1
    <3>2. CASE k = n + 1 /\ j # n + 1
      <4>1. j \in 1..n
        BY <3>2
      <4> QED
        BY <1>12, <1>14, <2>2, <3>2, <4>1
    <3>3. CASE k # n + 1 /\ j # n + 1
      <4>1. j \in 1..n /\ k \in 1..n
        BY <3>3
      <4> QED
        BY <1>4, <1>12, <2>2, <4>1 DEF RoundWrites
    <3> QED
      BY <3>1, <3>2, <3>3
  <2> QED
    BY <1>12, <2>1, <2>2 DEF RoundWrites
<1>16. RoundSlots(t, n + 1)
  <2>1. ASSUME NEW r \in Queues, NEW i \in Slots
        PROVE  Occupied(t.cq[r], i) <=>
                 \/ Occupied(cq[r], i)
                 \/ \E j \in 1..(n + 1) : t.writes[j].cq = r /\ t.writes[j].at = i
    <3>1. (\E j \in 1..(n + 1) : t.writes[j].cq = r /\ t.writes[j].at = i) <=>
            \/ \E j \in 1..n : s.writes[j].cq = r /\ s.writes[j].at = i
            \/ w.cq = r /\ w.at = i
      <4>1. n + 1 \in 1..(n + 1) /\ \A j \in 1..n : j \in 1..(n + 1)
        OBVIOUS
      <4>2. \A j \in 1..(n + 1) : j \in 1..n \/ j = n + 1
        OBVIOUS
      <4> QED
        BY <1>12, <4>1, <4>2
    <3>2. Occupied(t.cq[r], i) <=> Occupied(s.cq[r], i) \/ (r = q /\ i = s.cq[q].tail)
      BY <1>8, <1>9
    <3>3. Occupied(s.cq[r], i) <=> \/ Occupied(cq[r], i)
                                   \/ \E j \in 1..n : s.writes[j].cq = r /\ s.writes[j].at = i
      BY <1>4 DEF RoundSlots
    <3> QED
      BY <1>11, <3>1, <3>2, <3>3
  <2> QED
    BY <2>1 DEF RoundSlots
<1>17. \A v \in Vectors : t.agg[v].valid = aggregation[v].valid
  BY <1>4 DEF TakesTurn
<1> QED
  BY <1>10, <1>15, <1>16, <1>17

IsPosted(f, open) ==
  f = [n \in 0..Len(lCQFIFO) |->
         IF n = 0 THEN [cq |-> cq, agg |-> aggregation, open |-> open,
                        ivs |-> {}, writes |-> <<>>, bad |-> FALSE]
         ELSE PostOne(f[n - 1], lCQFIFO[n])]

(* The turns of the loop of completion.                                    *)
PostedBy(out, open) ==
  /\ Posted(open) = out[Len(lCQFIFO)] /\ out[0].bad = FALSE
  /\ \A k \in 1..Len(lCQFIFO) : out[k] = PostOne(out[k - 1], lCQFIFO[k])
  /\ \A k \in 0..Len(lCQFIFO) : out[k] \in Rounds /\ RoundInv(out[k], k)

(* The loop takes these turns.                                             *)
LEMMA PostedTurns ==
  ASSUME HostInv, EntryInv, BackInv, NEW open \in SUBSET Vectors
  PROVE  \E out : PostedBy(out, open)
<1> DEFINE n == Len(lCQFIFO)
           b == [cq |-> cq, agg |-> aggregation, open |-> open,
                 ivs |-> {}, writes |-> <<>>, bad |-> FALSE]
           g == [k \in 1..n |-> [x \in Rounds |-> PostOne(x, lCQFIFO[k])]]
<1>1. lCQFIFO \in Seq(Entries) /\ n \in Nat /\ \A k \in 1..n : lCQFIFO[k] \in Entries
  BY DEF EntryInv
<1>2. b \in Rounds
  <2>1. cq \in [Queues -> CQs] /\ aggregation \in [Vectors -> Aggregations]
    BY DEF BackInv, CQInv, SignalInv
  <2>2. <<>> \in Seq(Writes)
    OBVIOUS
  <2> QED
    BY <2>1, <2>2 DEF Rounds
<1>3. ASSUME NEW k \in 1..n, NEW x \in Rounds
      PROVE  PostOne(x, lCQFIFO[k]) \in Rounds /\ TakesTurn(x, PostOne(x, lCQFIFO[k]), lCQFIFO[k])
  <2>1. TakesTurn(x, PostOne(x, lCQFIFO[k]), lCQFIFO[k])
    <3> HIDE DEF n
    <3> QED
      BY <1>1, PostOneEffect
  <2> QED
    BY <2>1 DEF TakesTurn
<1> HIDE DEF b
<1>4. g \in [1..n -> [Rounds -> Rounds]]
  BY <1>3
<1>5. PICK f : IsRun(f, n, Rounds, b, g)
  <2> HIDE DEF n, g
  <2> QED
    BY <1>1, <1>2, <1>4, RunExists DEF IsLoop
<1>6. f \in [0..n -> Rounds] /\ f[0] = b /\ \A k \in 1..n : f[k] = g[k][f[k - 1]]
  BY <1>5 DEF IsRun
<1>7. ASSUME NEW k \in 1..n PROVE f[k] = PostOne(f[k - 1], lCQFIFO[k])
  <2>1. f[k - 1] \in Rounds
    <3>1. k - 1 \in 0..n
      BY <1>1
    <3> HIDE DEF n, g
    <3> QED
      BY <1>6, <3>1
  <2> QED
    BY <1>6, <2>1
<1>8. IsPosted(f, open)
  <2>1. f = [k \in 0..n |-> f[k]]
    BY <1>6
  <2>2. \A k \in 0..n : f[k] = IF k = 0 THEN b ELSE PostOne(f[k - 1], lCQFIFO[k])
    BY <1>1, <1>6, <1>7
  <2> QED
    BY <2>1, <2>2 DEF IsPosted, b
<1> DEFINE out == CHOOSE h : IsPosted(h, open)
<1>9. IsPosted(out, open)
  BY <1>8
<1>10. Posted(open) = out[n]
  BY DEF Posted, IsPosted
<1> HIDE DEF out
<1>11. \A k \in 0..n : out[k] = IF k = 0 THEN b ELSE PostOne(out[k - 1], lCQFIFO[k])
  BY <1>9 DEF IsPosted, b
<1>12. out[0] = b
  <2>1. 0 \in 0..n
    BY <1>1
  <2> QED
    BY <1>11, <2>1
<1>13. \A k \in 1..n : out[k] = PostOne(out[k - 1], lCQFIFO[k])
  BY <1>1, <1>11
<1> DEFINE G == {k \in 0..n : out[k] \in Rounds /\ RoundInv(out[k], k)}
<1>14. 0 \in G
  <2>1. RoundInv(b, 0)
    <3>1. /\ b.cq = cq /\ b.agg = aggregation /\ b.writes = <<>> /\ Len(b.writes) = 0
      BY DEF b
    <3>2. RoundQueues(b)
      BY <3>1 DEF RoundQueues, BackInv, CQInv
    <3>3. RoundWrites(b, 0)
      BY <3>1 DEF RoundWrites
    <3>4. RoundSlots(b, 0)
      BY <3>1 DEF RoundSlots
    <3> QED
      BY <3>1, <3>2, <3>3, <3>4 DEF RoundInv
  <2> QED
    BY <1>1, <1>2, <1>12, <2>1
<1>15. ASSUME NEW k \in 1..n, k - 1 \in G PROVE k \in G
  <2>1. PICK m \in Nat : m = k - 1
    BY <1>1
  <2>2. out[m] \in Rounds /\ RoundInv(out[m], m)
    BY <1>15, <2>1
  <2>3. out[k] = PostOne(out[m], lCQFIFO[k]) /\ lCQFIFO[k] \in Entries
    BY <1>1, <1>13, <2>1
  <2>4. TakesTurn(out[m], out[k], lCQFIFO[k]) /\ out[k] \in Rounds
    BY <1>3, <2>2, <2>3
  <2>5. k = m + 1
    BY <2>1
  <2>6. RoundInv(out[k], k)
    <3>1. PICK x : x = out[k]
      OBVIOUS
    <3>2. RoundInv(x, m + 1)
      BY <2>2, <2>3, <2>4, <2>5, <3>1, RoundTurn
    <3> QED
      BY <2>5, <3>1, <3>2
  <2> QED
    BY <2>4, <2>6
<1>16. 0..n \subseteq G
  <2> HIDE DEF G, n
  <2> QED
    BY <1>1, <1>14, <1>15, UpTo
<1>17. out[0].bad = FALSE
  BY <1>12 DEF b
<1>18. \A k \in 0..n : out[k] \in Rounds /\ RoundInv(out[k], k)
  BY <1>16
<1>19. PostedBy(out, open)
  BY <1>10, <1>13, <1>17, <1>18 DEF PostedBy
<1> QED
  BY <1>19

(* The loop of completion.                                                 *)
LEMMA PostedFact ==
  ASSUME HostInv, EntryInv, BackInv, NEW open \in SUBSET Vectors
  PROVE  Posted(open) \in Rounds /\ RoundInv(Posted(open), Len(lCQFIFO))
<1>1. PICK out : PostedBy(out, open)
  BY PostedTurns
<1>2. Len(lCQFIFO) \in 0..Len(lCQFIFO)
  BY DEF EntryInv
<1> QED
  BY <1>1, <1>2 DEF PostedBy

(* What a completion round does: m writes are under way and n are added.   *)
Rounded(s, m, n, ivs) ==
  /\ s \in Rounds /\ RoundQueues(s) /\ RoundWrites(s, n) /\ RoundSlots(s, n)
  /\ m \in Nat /\ n \in Nat /\ s.ivs \subseteq ivs /\ ivs \subseteq Vectors
  /\ cq' = s.cq /\ lCQFIFO' = <<>> /\ Len(lCQFIFO) = n
  /\ aggregation' \in [Vectors -> Aggregations]
  /\ \A v \in Vectors : aggregation'[v].valid => aggregation[v].valid
  /\ posting' \in Seq([write : Writes, last : BOOLEAN, ivs : SUBSET Vectors])
  /\ DOMAIN posting = 1..m /\ DOMAIN posting' = 1..(m + n)
  /\ \A j \in 1..m : posting'[j] = posting[j]
  /\ \A i \in 1..n : /\ posting'[m + i].write = s.writes[i]
                     /\ i = n => posting'[m + i].last /\ posting'[m + i].ivs = ivs
                     /\ i # n => posting'[m + i].ivs = {}

(* A completion round without a panic.                                     *)
LEMMA CompletionEffect ==
  ASSUME FrontInv, BackInv, Completion, ~broken'
  PROVE  \E s, m, n, ivs : Rounded(s, m, n, ivs)
<1>1. HostInv /\ EntryInv /\ PostInv
  BY DEF FrontInv, BackInv
<1>2. PICK open \in SUBSET {v \in Vectors : aggregation[v].valid /\ aggregation[v].timed} :
       LET s   == Posted(open)
           due == {v \in Vectors : /\ s.agg[v].valid /\ s.agg[v].pending
                                   /\ v \notin s.open}
           n   == Len(s.writes)
       IN /\ cq' = s.cq
          /\ aggregation' = [v \in Vectors |->
               IF v \in due THEN [valid |-> TRUE, pending |-> FALSE,
                                  count |-> 0, timed |-> TRUE]
               ELSE s.agg[v]]
          /\ posting' = posting \o
               [i \in 1..n |-> [write |-> s.writes[i], last |-> i = n,
                                ivs |-> IF i = n THEN s.ivs \union due
                                        ELSE {}]]
          /\ broken' = s.bad
  BY DEF Completion
<1>3. open \in SUBSET Vectors
  OBVIOUS
<1>4. PICK s : s = Posted(open)
  OBVIOUS
<1> DEFINE due == {v \in Vectors : s.agg[v].valid /\ s.agg[v].pending /\ v \notin s.open}
           k == Len(s.writes)
           ivs == s.ivs \union due
           new == [i \in 1..k |-> [write |-> s.writes[i], last |-> i = k,
                                   ivs |-> IF i = k THEN ivs ELSE {}]]
           idle == [valid |-> TRUE, pending |-> FALSE, count |-> 0, timed |-> TRUE]
<1>5. /\ cq' = s.cq /\ ~s.bad /\ posting' = posting \o new
      /\ aggregation' = [v \in Vectors |-> IF v \in due THEN idle ELSE s.agg[v]]
  BY <1>2, <1>4
<1>6. PICK n : n = Len(lCQFIFO)
  OBVIOUS
<1>7. s \in Rounds /\ RoundInv(s, n) /\ n \in Nat
  BY <1>1, <1>3, <1>4, <1>6, PostedFact DEF EntryInv
<1>8. /\ RoundQueues(s) /\ RoundWrites(s, n) /\ RoundSlots(s, n)
      /\ \A v \in Vectors : s.agg[v].valid = aggregation[v].valid
  BY <1>5, <1>7 DEF RoundInv
<1>9. k = n /\ s.writes \in Seq(Writes) /\ s.ivs \in SUBSET Vectors
      /\ s.agg \in [Vectors -> Aggregations]
  BY <1>7, <1>8 DEF RoundWrites, Rounds
<1>10. /\ aggregation' \in [Vectors -> Aggregations]
       /\ \A v \in Vectors : aggregation'[v].valid => aggregation[v].valid
  <2>1. idle \in Aggregations
    BY DEF Aggregations
  <2>2. \A v \in due : v \in Vectors /\ s.agg[v].valid
    OBVIOUS
  <2> HIDE DEF due, idle
  <2>3. aggregation' \in [Vectors -> Aggregations]
    BY <1>5, <1>9, <2>1
  <2>4. \A v \in Vectors : aggregation'[v] = IF v \in due THEN idle ELSE s.agg[v]
    BY <1>5
  <2> QED
    BY <1>8, <2>2, <2>3, <2>4
<1> DEFINE S == [write : Writes, last : BOOLEAN, ivs : SUBSET Vectors]
<1>11. ivs \in SUBSET Vectors /\ s.ivs \subseteq ivs
  BY <1>9
<1>12. PICK x : x = ivs
  OBVIOUS
<1>13. \A i \in 1..n : s.writes[i] \in Writes
  BY <1>9
<1>14. new = [i \in 1..n |-> [write |-> s.writes[i], last |-> i = n, ivs |-> IF i = n THEN x ELSE {}]]
  BY <1>9, <1>12
<1> HIDE DEF ivs, new
<1>15. \A i \in 1..n : /\ new[i] \in S /\ new[i].write = s.writes[i]
                       /\ i = n => new[i].last /\ new[i].ivs = x
                       /\ i # n => new[i].ivs = {}
  <2>1. ASSUME NEW i \in 1..n
        PROVE  /\ new[i] \in S /\ new[i].write = s.writes[i]
               /\ i = n => new[i].last /\ new[i].ivs = x
               /\ i # n => new[i].ivs = {}
    <3>1. PICK w \in Writes : w = s.writes[i]
      BY <1>13
    <3>2. PICK y \in SUBSET Vectors : y = IF i = n THEN x ELSE {}
      BY <1>11, <1>12
    <3>3. PICK b \in BOOLEAN : b = (i = n)
      OBVIOUS
    <3>4. new[i] = [write |-> w, last |-> b, ivs |-> y]
      BY <1>14, <3>1, <3>2, <3>3
    <3>5. new[i] \in S
      BY <3>4
    <3>6. new[i].write = w /\ new[i].last = b /\ new[i].ivs = y
      BY <3>4
    <3> HIDE DEF S
    <3> QED
      BY <3>1, <3>2, <3>3, <3>5, <3>6
  <2> QED
    BY <2>1
<1>16. posting \in Seq(S)
  BY <1>1 DEF PostInv
<1> HIDE DEF S
<1>17. new \in Seq(S) /\ Len(new) = n
  <2>1. new \in [1..n -> S]
    BY <1>14, <1>15
  <2> QED
    BY <1>7, <2>1
<1>18. PICK m \in Nat : m = Len(posting)
  BY <1>16
<1>19. /\ posting' \in Seq(S) /\ DOMAIN posting = 1..m /\ DOMAIN posting' = 1..(m + n)
       /\ \A j \in 1..m : posting'[j] = posting[j]
       /\ \A i \in 1..n : posting'[m + i] = new[i]
  <2>1. posting' = posting \o new /\ n \in Nat
    BY <1>5, <1>7
  <2> QED
    BY <1>16, <1>17, <1>18, <2>1
<1>20. lCQFIFO' = <<>>
  BY DEF Completion
<1>21. Rounded(s, m, n, x)
  BY <1>5, <1>6, <1>7, <1>8, <1>10, <1>11, <1>12, <1>15, <1>18, <1>19, <1>20 DEF Rounded, S
<1> QED
  BY <1>21

(* What a completion round adds is not written yet.                        *)
LEMMA RoundedRings ==
  ASSUME NEW s, NEW m, NEW n, NEW ivs, Rounded(s, m, n, ivs)
  PROVE  /\ \A r \in Queues, i \in Slots :
              Occupied(cq[r], i)' <=> \/ Occupied(cq[r], i)
                                      \/ \E j \in 1..n : s.writes[j].cq = r /\ s.writes[j].at = i
         /\ \A r \in Queues, i \in Slots :
              Unwritten(r, i)' <=> \/ Unwritten(r, i)
                                   \/ \E j \in 1..n : s.writes[j].cq = r /\ s.writes[j].at = i
         /\ \A r \in Queues, i \in Slots : Written(r, i)' <=> Written(r, i)
<1>1. Rounded(s, m, n, ivs)
  OBVIOUS
<1>6. /\ m \in Nat /\ n \in Nat /\ s.ivs \subseteq ivs /\ ivs \subseteq Vectors /\ cq' = s.cq
      /\ DOMAIN posting = 1..m /\ DOMAIN posting' = 1..(m + n)
      /\ \A j \in 1..m : posting'[j] = posting[j]
      /\ \A i \in 1..n : /\ posting'[m + i].write = s.writes[i]
                         /\ i = n => posting'[m + i].last /\ posting'[m + i].ivs = ivs
                         /\ i # n => posting'[m + i].ivs = {}
      /\ Len(lCQFIFO) = n
  BY <1>1 DEF Rounded
<1>8. \A i \in 1..n :
        /\ s.writes[i].cq \in Queues /\ s.writes[i].at \in Slots
        /\ cq[s.writes[i].cq].live
        /\ ~Occupied(cq[s.writes[i].cq], s.writes[i].at)
        /\ s.writes[i].val.phase = Expected(s.writes[i].cq, s.writes[i].at)
        /\ cq[s.writes[i].cq].iv \notin coalesced => cq[s.writes[i].cq].iv \in s.ivs
        /\ s.writes[i].cq = lCQFIFO[i].cq /\ s.writes[i].val.c = lCQFIFO[i].c
        /\ \A k \in 1..n : s.writes[k].cq = s.writes[i].cq /\ s.writes[k].at = s.writes[i].at => k = i
  BY <1>1 DEF Rounded, RoundWrites, RoundWrite
<1>9. \A r \in Queues, i \in Slots :
        Occupied(cq[r], i)' <=> \/ Occupied(cq[r], i)
                                \/ \E j \in 1..n : s.writes[j].cq = r /\ s.writes[j].at = i
  <2>1. \A r \in Queues, i \in Slots : Occupied(cq[r], i)' <=> Occupied(s.cq[r], i)
    BY <1>6 DEF Occupied
  <2> QED
    BY <1>1, <2>1 DEF Rounded, RoundSlots
<1>11. /\ \A j \in 1..(m + n) : j \in 1..m \/ \E i \in 1..n : j = m + i
       /\ \A i \in 1..n : m + i \in 1..(m + n)
       /\ \A j \in 1..m : j \in 1..(m + n)
  <2>1. ASSUME NEW j \in 1..(m + n), j \notin 1..m PROVE \E i \in 1..n : j = m + i
    <3>1. j - m \in 1..n /\ j = m + (j - m)
      BY <1>6, <2>1
    <3> QED
      BY <3>1
  <2> QED
    BY <1>6, <2>1
<1>12. \A r \in Queues, i \in Slots :
         Unwritten(r, i)' <=> \/ Unwritten(r, i)
                              \/ \E j \in 1..n : s.writes[j].cq = r /\ s.writes[j].at = i
  <2>1. ASSUME NEW r, NEW i, Unwritten(r, i)'
        PROVE  Unwritten(r, i) \/ \E j \in 1..n : s.writes[j].cq = r /\ s.writes[j].at = i
    <3>1. PICK j \in 1..(m + n) : posting'[j].write.cq = r /\ posting'[j].write.at = i
      BY <1>6, <2>1 DEF Unwritten
    <3>2. CASE j \in 1..m
      BY <1>6, <3>1, <3>2 DEF Unwritten
    <3>3. CASE \E x \in 1..n : j = m + x
      BY <1>6, <3>1, <3>3
    <3> QED
      BY <1>11, <3>2, <3>3
  <2>2. ASSUME NEW r, NEW i, Unwritten(r, i) PROVE Unwritten(r, i)'
    BY <1>6, <1>11, <2>2 DEF Unwritten
  <2>3. ASSUME NEW r, NEW i, NEW j \in 1..n, s.writes[j].cq = r, s.writes[j].at = i
        PROVE  Unwritten(r, i)'
    <3>1. m + j \in DOMAIN posting' /\ posting'[m + j].write = s.writes[j]
      BY <1>6, <1>11
    <3> QED
      BY <2>3, <3>1 DEF Unwritten
  <2> QED
    BY <2>1, <2>2, <2>3
<1>13. \A r \in Queues, i \in Slots : Written(r, i)' <=> Written(r, i)
  BY <1>8, <1>9, <1>12 DEF Written
<1> QED
  BY <1>9, <1>12, <1>13

(* A completion round.                                                     *)
LEMMA CompletionStep ==
  ASSUME FrontInv, BackInv, Completion, ~broken'
  PROVE  FrontInv' /\ BackInv'
<1>1. PICK s, m, n, ivs : Rounded(s, m, n, ivs)
  BY CompletionEffect
<1>2. UNCHANGED <<registers, cmd, sq, gone, twice, coalesced, plan, host, answers, fetching,
                  lSQByUser, rrUsers, uidSQMap, lSQFIFO, running, intr, sending>>
  BY DEF Completion, fetchVars, histVars, hostVars
<1>3. Steady
  BY <1>2, Still
<1>4. CQInv /\ PostInv /\ SignalInv /\ EntryInv
  BY DEF BackInv, FrontInv
<1>5. FrontInv'
  <2>1. registers' \in Registers
    BY <1>2 DEF FrontInv, HostInv
  <2>2. \A e : IsEntry(e)' <=> IsEntry(e)
    BY <1>2 DEF IsEntry, Cmds
  <2>3. EntryInv'
    <3>1. lCQFIFO' \in Seq(Entries) /\ DOMAIN lCQFIFO' = {}
      BY <1>1 DEF Rounded
    <3> QED
      BY <1>2, <1>4, <2>2, <3>1 DEF EntryInv
  <2> QED
    BY <1>2, <2>1, <2>3, HostFrame, PlanFrame, SQFrame, FetchFrame DEF FrontInv
<1>6. /\ m \in Nat /\ n \in Nat /\ s.ivs \subseteq ivs /\ ivs \subseteq Vectors /\ cq' = s.cq
      /\ DOMAIN posting = 1..m /\ DOMAIN posting' = 1..(m + n)
      /\ \A j \in 1..m : posting'[j] = posting[j]
      /\ \A i \in 1..n : /\ posting'[m + i].write = s.writes[i]
                         /\ i = n => posting'[m + i].last /\ posting'[m + i].ivs = ivs
                         /\ i # n => posting'[m + i].ivs = {}
      /\ Len(lCQFIFO) = n
  BY <1>1 DEF Rounded
<1>7. \A r \in Queues :
        /\ cq'[r].live = cq[r].live /\ cq'[r].head = cq[r].head
        /\ cq'[r].iv = cq[r].iv /\ cq'[r].mem = cq[r].mem
        /\ cq[r].live => cq'[r].phase = IF cq'[r].head <= cq'[r].tail THEN host.phase[r]
                                        ELSE ~host.phase[r]
  BY <1>1 DEF Rounded, RoundQueues
<1>8. \A i \in 1..n :
        /\ s.writes[i].cq \in Queues /\ s.writes[i].at \in Slots
        /\ cq[s.writes[i].cq].live
        /\ ~Occupied(cq[s.writes[i].cq], s.writes[i].at)
        /\ s.writes[i].val.phase = Expected(s.writes[i].cq, s.writes[i].at)
        /\ cq[s.writes[i].cq].iv \notin coalesced => cq[s.writes[i].cq].iv \in s.ivs
        /\ s.writes[i].cq = lCQFIFO[i].cq /\ s.writes[i].val.c = lCQFIFO[i].c
        /\ \A k \in 1..n : s.writes[k].cq = s.writes[i].cq /\ s.writes[k].at = s.writes[i].at => k = i
  BY <1>1 DEF Rounded, RoundWrites, RoundWrite
<1>9. \A r \in Queues, i \in Slots :
        Occupied(cq[r], i)' <=> \/ Occupied(cq[r], i)
                                \/ \E j \in 1..n : s.writes[j].cq = r /\ s.writes[j].at = i
  BY <1>1, RoundedRings
<1>10. \A r \in Queues, i \in Slots : Expected(r, i)' = Expected(r, i)
  BY <1>2, <1>7 DEF Expected
<1>11. /\ \A j \in 1..(m + n) : j \in 1..m \/ \E i \in 1..n : j = m + i
       /\ \A i \in 1..n : m + i \in 1..(m + n)
       /\ \A j \in 1..m : j \in 1..(m + n)
  <2>1. ASSUME NEW j \in 1..(m + n), j \notin 1..m PROVE \E i \in 1..n : j = m + i
    <3>1. j - m \in 1..n /\ j = m + (j - m)
      BY <1>6, <2>1
    <3> QED
      BY <3>1
  <2> QED
    BY <1>6, <2>1
<1>12. \A r \in Queues, i \in Slots :
         Unwritten(r, i)' <=> \/ Unwritten(r, i)
                              \/ \E j \in 1..n : s.writes[j].cq = r /\ s.writes[j].at = i
  BY <1>1, RoundedRings
<1>13. \A r \in Queues, i \in Slots : Written(r, i)' <=> Written(r, i)
  BY <1>1, RoundedRings
<1>14. CQInv'
  <2>1. ASSUME NEW r \in Queues, cq'[r].live, NEW i \in Slots
        PROVE  /\ (cq'[r].mem[i].phase = Expected(r, i)') <=> Written(r, i)'
               /\ Written(r, i)' => (Answers(cq[r].mem[i].c, r))'
    <3>1. PICK x : x = cq[r].mem[i]
      OBVIOUS
    <3>2. cq'[r].mem[i] = x /\ cq[r].live
      BY <1>7, <2>1, <3>1
    <3>3. /\ (x.phase = Expected(r, i)) <=> Written(r, i)
          /\ Written(r, i) => Answers(x.c, r)
      BY <1>4, <3>1, <3>2 DEF CQInv
    <3>4. Answers(x.c, r) => Answers(x.c, r)'
      BY <1>3, SteadyEntry
    <3> QED
      BY <1>10, <1>13, <3>2, <3>3, <3>4
  <2>2. ASSUME NEW r \in Queues, ~cq'[r].live PROVE DeletesCQ(r)' \/ host'.phase[r]
    BY <1>2, <1>3, <1>4, <1>7, <2>2, SteadyEntry DEF CQInv
  <2>3. ASSUME NEW r \in Queues, cq'[r].live
        PROVE  cq'[r].phase = IF cq'[r].head <= cq'[r].tail THEN host'.phase[r] ELSE ~host'.phase[r]
    <3>1. cq'[r].phase = IF cq'[r].head <= cq'[r].tail THEN host.phase[r] ELSE ~host.phase[r]
      BY <1>7, <2>3
    <3> QED
      BY <1>2, <3>1
  <2>4. cq' \in [Queues -> CQs]
    BY <1>1 DEF Rounded, Rounds
  <2> QED
    BY <2>1, <2>2, <2>3, <2>4 DEF CQInv
<1>15. PostInv'
  <2>1. ASSUME NEW j \in 1..m, NEW w, w = posting'[j].write
        PROVE  /\ Answers(w.val.c, w.cq)'
               /\ IF cq'[w.cq].live
                  THEN Occupied(cq[w.cq], w.at)' /\ w.val.phase = Expected(w.cq, w.at)'
                  ELSE DeletesCQ(w.cq)'
               /\ IF cq[w.cq].live THEN Occupied(cq[w.cq], w.at) ELSE TRUE
    <3>2. j \in DOMAIN posting /\ posting[j].write = w
      BY <1>6, <2>1
    <3>3. /\ Answers(w.val.c, w.cq)
          /\ IF cq[w.cq].live
             THEN Occupied(cq[w.cq], w.at) /\ w.val.phase = Expected(w.cq, w.at)
             ELSE DeletesCQ(w.cq)
      BY <1>4, <3>2 DEF PostInv
    <3>4. w.cq \in Queues /\ w.at \in Slots
      BY <1>4, <3>2, PostType DEF Writes
    <3>5. Answers(w.val.c, w.cq)'
      BY <1>3, <3>3, SteadyEntry
    <3>6. IF cq'[w.cq].live
          THEN Occupied(cq[w.cq], w.at)' /\ w.val.phase = Expected(w.cq, w.at)'
          ELSE DeletesCQ(w.cq)'
      BY <1>3, <1>7, <1>9, <1>10, <3>3, <3>4, SteadyEntry
    <3> QED
      BY <3>3, <3>5, <3>6
  <2>2. ASSUME NEW i \in 1..n
        PROVE  LET w == s.writes[i] IN
               /\ Answers(w.val.c, w.cq)'
               /\ cq'[w.cq].live
               /\ Occupied(cq[w.cq], w.at)' /\ w.val.phase = Expected(w.cq, w.at)'
    <3>1. PICK w : w = s.writes[i]
      OBVIOUS
    <3>2. /\ w.cq \in Queues /\ w.at \in Slots /\ cq[w.cq].live
          /\ w.val.phase = Expected(w.cq, w.at)
          /\ w.cq = lCQFIFO[i].cq /\ w.val.c = lCQFIFO[i].c
      BY <1>8, <3>1
    <3>3. Answers(w.val.c, w.cq)
      <4>1. i \in DOMAIN lCQFIFO
        BY <1>4, <1>6 DEF EntryInv
      <4>2. IsEntry(lCQFIFO[i]) /\ Created(lCQFIFO[i].c)
        BY <1>4, <4>1 DEF EntryInv
      <4> QED
        BY <3>2, <4>2 DEF Answers, IsEntry
    <3>4. Answers(w.val.c, w.cq)'
      BY <1>3, <3>3, SteadyEntry
    <3>5. Occupied(cq[w.cq], w.at)' /\ cq'[w.cq].live /\ w.val.phase = Expected(w.cq, w.at)'
      BY <1>7, <1>9, <1>10, <3>1, <3>2
    <3> QED
      BY <3>1, <3>4, <3>5
  <2>3. ASSUME NEW j \in DOMAIN posting'
        PROVE  /\ (Answers(posting[j].write.val.c, posting[j].write.cq))'
               /\ IF (cq[posting[j].write.cq].live)'
                  THEN /\ (Occupied(cq[posting[j].write.cq], posting[j].write.at))'
                       /\ (posting[j].write.val.phase = Expected(posting[j].write.cq, posting[j].write.at))'
                  ELSE (DeletesCQ(posting[j].write.cq))'
    <3>1. PICK w : w = posting'[j].write
      OBVIOUS
    <3>2. /\ Answers(w.val.c, w.cq)'
          /\ IF cq'[w.cq].live
             THEN Occupied(cq[w.cq], w.at)' /\ w.val.phase = Expected(w.cq, w.at)'
             ELSE DeletesCQ(w.cq)'
      <4>1. CASE j \in 1..m
        BY <2>1, <3>1, <4>1
      <4>2. CASE \E i \in 1..n : j = m + i
        <5>1. PICK i \in 1..n : j = m + i
          BY <4>2
        <5>2. w = s.writes[i]
          BY <1>6, <3>1, <5>1
        <5> QED
          BY <2>2, <5>2
      <4> QED
        BY <1>6, <1>11, <4>1, <4>2
    <3> QED
      BY <3>1, <3>2
  <2>4. ASSUME NEW j \in DOMAIN posting', NEW k \in DOMAIN posting',
               posting'[k].write.cq = posting'[j].write.cq,
               posting'[k].write.at = posting'[j].write.at
        PROVE  k = j
    <3>1. ASSUME NEW a \in 1..m, NEW i \in 1..n, posting'[a].write.cq = s.writes[i].cq,
                 posting'[a].write.at = s.writes[i].at
          PROVE  FALSE
      BY <1>8, <2>1, <3>1
    <3>2. CASE j \in 1..m /\ k \in 1..m
      BY <1>4, <1>6, <2>4, <3>2 DEF PostInv
    <3>3. CASE j \in 1..m /\ \E i \in 1..n : k = m + i
      BY <1>6, <2>4, <3>1, <3>3
    <3>4. CASE k \in 1..m /\ \E i \in 1..n : j = m + i
      BY <1>6, <2>4, <3>1, <3>4
    <3>5. CASE (\E i \in 1..n : j = m + i) /\ (\E i \in 1..n : k = m + i)
      <4>1. PICK i \in 1..n : j = m + i
        BY <3>5
      <4>2. PICK x \in 1..n : k = m + x
        BY <3>5
      <4>3. x = i
        BY <1>6, <1>8, <2>4, <4>1, <4>2
      <4> QED
        BY <4>1, <4>2, <4>3
    <3> QED
      BY <1>6, <1>11, <3>2, <3>3, <3>4, <3>5
  <2>5. posting' \in Seq([write : Writes, last : BOOLEAN, ivs : SUBSET Vectors])
    BY <1>1 DEF Rounded
  <2> QED
    BY <1>2, <1>4, <2>3, <2>4, <2>5 DEF PostInv
<1>16. \A v : Coming(v) => Coming(v)'
  BY <1>2, <1>6, <1>11 DEF Coming
<1>17. SignalInv'
  <2>1. ASSUME NEW r \in Queues, NEW i \in Slots, cq'[r].live, cq'[r].iv \notin coalesced,
               Written(r, i)'
        PROVE  (Coming(cq[r].iv))'
    <3>1. PICK v : v = cq[r].iv
      OBVIOUS
    <3>2. cq'[r].iv = v /\ cq[r].live /\ Written(r, i)
      BY <1>7, <1>13, <2>1, <3>1
    <3>3. Coming(v)
      BY <1>4, <2>1, <3>1, <3>2 DEF SignalInv
    <3> QED
      BY <1>16, <3>2, <3>3
  <2>2. ASSUME NEW j \in DOMAIN posting'
        PROVE  /\ posting'[j].ivs # {} => posting'[j].last
               /\ cq'[posting'[j].write.cq].live /\ cq'[posting'[j].write.cq].iv \notin coalesced =>
                    \E k \in DOMAIN posting' : j <= k /\ cq'[posting'[j].write.cq].iv \in posting'[k].ivs
    <3>1. CASE j \in 1..m
      <4>1. posting'[j] = posting[j] /\ j \in DOMAIN posting
        BY <1>6, <3>1
      <4>2. PICK r \in Queues : r = posting[j].write.cq
        BY <1>4, <4>1, PostType DEF Writes
      <4>3. cq'[r].live = cq[r].live /\ cq'[r].iv = cq[r].iv
        BY <1>7
      <4>4. ASSUME cq[r].live, cq[r].iv \notin coalesced
            PROVE  \E k \in DOMAIN posting' : j <= k /\ cq[r].iv \in posting'[k].ivs
        <5>1. PICK k \in DOMAIN posting : j <= k /\ cq[r].iv \in posting[k].ivs
          BY <1>4, <4>1, <4>2, <4>4 DEF SignalInv
        <5>2. k \in DOMAIN posting' /\ posting'[k] = posting[k]
          BY <1>6, <1>11
        <5> QED
          BY <5>1, <5>2
      <4>5. posting[j].ivs # {} => posting[j].last
        BY <1>4, <4>1 DEF SignalInv
      <4> QED
        BY <4>1, <4>2, <4>3, <4>4, <4>5
    <3>2. CASE \E i \in 1..n : j = m + i
      <4>1. PICK i \in 1..n : j = m + i
        BY <3>2
      <4>2. PICK r \in Queues : r = s.writes[i].cq
        BY <1>8
      <4>3. cq'[r].iv = cq[r].iv /\ (cq[r].iv \notin coalesced => cq[r].iv \in ivs)
        BY <1>6, <1>7, <1>8, <4>2
      <4>4. n \in 1..n /\ m + n \in DOMAIN posting' /\ j <= m + n /\ posting'[m + n].ivs = ivs
        BY <1>6, <4>1
      <4>5. posting'[j].ivs # {} => posting'[j].last
        BY <1>6, <4>1
      <4>6. posting'[j].write.cq = r
        BY <1>6, <4>1, <4>2
      <4> QED
        BY <4>3, <4>4, <4>5, <4>6
    <3> QED
      BY <1>6, <1>11, <3>1, <3>2
  <2>3. coalesced' = coalesced
    BY <1>2
  <2>4. \A j \in DOMAIN posting' :
          /\ posting'[j].ivs # {} => posting'[j].last
          /\ cq'[posting'[j].write.cq].live /\ cq'[posting'[j].write.cq].iv \notin coalesced' =>
               \E k \in DOMAIN posting' : j <= k /\ cq'[posting'[j].write.cq].iv \in posting'[k].ivs
    BY <2>2, <2>3
  <2>5. \A r \in Queues, i \in Slots :
          cq'[r].live /\ cq'[r].iv \notin coalesced' /\ Written(r, i)' => (Coming(cq[r].iv))'
    BY <2>1, <2>3
  <2>6. aggregation' \in [Vectors -> Aggregations]
        /\ \A v \in Vectors : aggregation'[v].valid => v \in coalesced'
    BY <1>1, <1>4, <2>3 DEF SignalInv, Rounded
  <2> QED
    BY <2>4, <2>5, <2>6 DEF SignalInv
<1> QED
  BY <1>5, <1>14, <1>15, <1>17 DEF BackInv

-----------------------------------------------------------------------------
(* Every behaviour *)

(* A queue pair at the beginning.                                          *)
FreshSQ(x, q) == /\ x \in SQs /\ x.cqID = q /\ (x.live <=> q < 2)
                 /\ x.head = Start /\ x.tail = Start
                 /\ \A i \in Slots : x.mem[i] = 0
FreshCQ(x) == /\ x \in CQs /\ x.head = Start /\ x.tail = Start /\ x.phase = TRUE
              /\ \A i \in Slots : x.mem[i].phase <=> i < Start

(* The pairs of Init are fresh.                                            *)
LEMMA UsedQueues ==
  ASSUME NEW q \in Queues, NEW p \in {URGENT, MEDIUM, LOW}
  PROVE  FreshSQ(UsedSQ(q, p), q) /\ FreshCQ(UsedCQ(q))
<1> DEFINE m == [i \in Slots |-> 0]
           n == [i \in Slots |-> [c |-> 0, phase |-> FALSE]]
           k == [i \in Slots |-> [c |-> 0, phase |-> i < Start]]
<1>1. Start \in Slots /\ 0 \in Slots /\ 0 \in Vectors
  BY Sizes DEF Slots
<1>2. PICK b \in BOOLEAN : b = (q < 2)
  <2>1. (q < 2) \in BOOLEAN
    BY Sizes
  <2> QED
    BY <2>1
<1>3. m \in [Slots -> Nat] /\ \A i \in Slots : m[i] = 0
  OBVIOUS
<1>4. k \in [Slots -> Slips] /\ \A i \in Slots : k[i].phase = (i < Start)
  BY DEF Slips
<1>5. n \in [Slots -> Slips]
  BY DEF Slips
<1>6. PICK x : x = NewSQ(q, p)
  OBVIOUS
<1>7. PICK y : y = NewCQ(0, TRUE)
  OBVIOUS
<1>8. x \in SQs /\ x.cqID = q /\ x.mem = m
  <2>1. x = [live |-> TRUE, head |-> 0, tail |-> 0, cqID |-> q, priority |-> p, mem |-> m]
    BY <1>6 DEF NewSQ
  <2> HIDE DEF m
  <2> QED
    BY <1>1, <1>3, <2>1 DEF SQs
<1>9. y \in CQs /\ y.phase = TRUE
  <2>1. y = [live |-> TRUE, head |-> 0, tail |-> 0, phase |-> TRUE, iv |-> 0,
             ien |-> TRUE, mem |-> n]
    BY <1>7 DEF NewCQ
  <2> HIDE DEF n
  <2> QED
    BY <1>1, <1>5, <2>1 DEF CQs
<1>10. PICK z : z = [x EXCEPT !.live = b, !.head = Start, !.tail = Start]
  OBVIOUS
<1>11. PICK w : w = [y EXCEPT !.live = b, !.head = Start, !.tail = Start, !.mem = k]
  OBVIOUS
<1>12. UsedSQ(q, p) = z
  BY <1>2, <1>6, <1>10 DEF UsedSQ
<1>13. UsedCQ(q) = w
  BY <1>2, <1>7, <1>11 DEF UsedCQ
<1> HIDE DEF m, n, k
<1>14. z \in SQs /\ z.cqID = q /\ z.live = b /\ z.head = Start /\ z.tail = Start /\ z.mem = m
  BY <1>1, <1>8, <1>10 DEF SQs
<1>15. w \in CQs /\ w.head = Start /\ w.tail = Start /\ w.phase = TRUE /\ w.mem = k
  BY <1>1, <1>4, <1>9, <1>11 DEF CQs
<1>16. FreshSQ(z, q)
  BY <1>2, <1>3, <1>14 DEF FreshSQ
<1>17. FreshCQ(w)
  <2>1. \A i \in Slots : w.mem[i].phase = (i < Start)
    BY <1>4, <1>15
  <2> QED
    BY <1>15, <2>1 DEF FreshCQ
<1> QED
  BY <1>12, <1>13, <1>16, <1>17

(* The initial state.                                                      *)
LEMMA InitLemma ==
  ASSUME Init
  PROVE  FrontInv /\ BackInv
<1>1. PICK s \in Scenarios :
        /\ registers = [ready |-> TRUE, shutdown |-> FALSE, touched |-> FALSE,
                        arbitration |-> s.arbitration, limit |-> s.limit]
        /\ sq = [q \in Queues |-> UsedSQ(q, IF q = 0 THEN URGENT ELSE s.priority)]
        /\ plan = s.plan
  BY DEF Init
<1>2. /\ s.arbitration \in {"RR", "WRR"} /\ s.priority \in {URGENT, MEDIUM, LOW}
      /\ s.limit \in 0..MaxCommands
  BY ControllerAssumption
<1>3. cmd = <<>> /\ Cmds = {} /\ Len(cmd) = 0
  BY DEF Init, Cmds
<1>4. PlanInv
  BY <1>1, <1>3 DEF PlanInv
<1>5. \A q \in Queues : FreshSQ(sq[q], q)
  <2>1. ASSUME NEW q \in Queues PROVE FreshSQ(sq[q], q)
    <3>1. PICK p \in {URGENT, MEDIUM, LOW} : p = IF q = 0 THEN URGENT ELSE s.priority
      BY <1>2
    <3>2. sq[q] = UsedSQ(q, p)
      BY <1>1, <3>1
    <3> QED
      BY <3>2, UsedQueues
  <2> QED
    BY <2>1
<1>6. \A q \in Queues : FreshCQ(cq[q])
  <2>1. ASSUME NEW q \in Queues PROVE FreshCQ(cq[q])
    <3>1. cq[q] = UsedCQ(q)
      BY DEF Init
    <3>2. URGENT \in {URGENT, MEDIUM, LOW}
      OBVIOUS
    <3> QED
      BY <3>1, <3>2, UsedQueues
  <2> QED
    BY <2>1
<1>7. Start \in Nat /\ Queues = {0, 1, 2} /\ Start <= Start
  BY Sizes
<1>8. HostInv
  <2>1. registers \in Registers
    BY <1>1, <1>2 DEF Registers
  <2>2. host = [up |-> {0, 1}, head |-> [q \in Queues |-> Start], phase |-> [q \in Queues |-> TRUE]]
        /\ gone = {} /\ twice = {} /\ coalesced = {} /\ answers = [c \in 1..MaxCommands |-> 0]
    BY DEF Init
  <2>3. ASSUME NEW q \in host.up PROVE q \in Queues /\ sq[q].live /\ ~DeletesSQ(q)
    <3>1. q \in Queues /\ q < 2
      BY <1>7, <2>2
    <3>2. ~DeletesSQ(q)
      BY <1>3 DEF DeletesSQ, Planned
    <3> QED
      BY <1>5, <3>1, <3>2 DEF FreshSQ
  <2>4. cmd \in Seq(Commands) /\ Len(cmd) <= registers.limit
    <3>1. registers.limit \in Nat
      BY <2>1, Sizes DEF Registers
    <3> QED
      BY <1>3, <3>1
  <2>5. answers \in [1..MaxCommands -> Nat] /\ \A c \in 1..MaxCommands : answers[c] = 0
    BY <2>2
  <2>6. /\ host = [up |-> host.up, head |-> host.head, phase |-> host.phase]
        /\ host.head = [q \in Queues |-> host.head[q]] /\ host.phase \in [Queues -> BOOLEAN]
    BY <2>2
  <2> QED
    BY <2>1, <2>2, <2>3, <2>4, <2>5, <2>6 DEF HostInv
<1>9. SQInv
  <2>1. sq \in [Queues -> SQs]
    BY <1>1, <1>5 DEF FreshSQ
  <2>2. \A q \in Queues, i \in Slots : ~Occupied(sq[q], i) /\ sq[q].mem[i] = 0
    <3>1. ASSUME NEW q \in Queues, NEW i \in Slots PROVE ~Occupied(sq[q], i) /\ sq[q].mem[i] = 0
      <4>1. sq[q].head = Start /\ sq[q].tail = Start /\ sq[q].mem[i] = 0 /\ i \in Nat
        BY <1>5, Sizes DEF FreshSQ
      <4> QED
        BY <1>7, <4>1 DEF Occupied
    <3> QED
      BY <3>1
  <2>3. sq[0].live /\ sq[0].cqID = 0
    BY <1>5, <1>7 DEF FreshSQ
  <2>4. \A c \in Cmds : sq[cmd[c].q].live \/ DeletesSQ(cmd[c].q)
    BY <1>3
  <2> QED
    BY <2>1, <2>2, <2>3, <2>4 DEF SQInv
<1>10. FetchInv
  BY DEF Init, FetchInv
<1>11. EntryInv
  <2>1. lSQByUser = [u \in Users |-> <<>>] /\ rrUsers = <<>> /\ uidSQMap = [u \in Users |-> {}]
        /\ lSQFIFO = <<>> /\ running = {} /\ lCQFIFO = <<>>
    BY DEF Init
  <2>2. /\ lSQByUser \in [Users -> Seq(Entries)] /\ rrUsers \in Seq(Users)
        /\ uidSQMap \in [Users -> SUBSET Queues] /\ lSQFIFO \in Seq(Entries)
        /\ lCQFIFO \in Seq(Entries)
    BY <2>1
  <2>3. \A u \in Users : DOMAIN lSQByUser[u] = {}
    BY <2>1
  <2>4. IsFiniteSet(running) /\ DOMAIN lSQFIFO = {} /\ DOMAIN lCQFIFO = {}
    BY <2>1, FS_EmptySet
  <2> QED
    BY <2>1, <2>2, <2>3, <2>4 DEF EntryInv
<1>12. posting = <<>> /\ sending = <<>> /\ intr = {}
       /\ host.phase = [q \in Queues |-> TRUE]
       /\ DOMAIN posting = {}
  BY DEF Init
<1>13. \A q \in Queues, i \in Slots : ~Occupied(cq[q], i) /\ ~Written(q, i)
  <2>1. ASSUME NEW q \in Queues, NEW i \in Slots PROVE ~Occupied(cq[q], i)
    <3>1. cq[q].head = Start /\ cq[q].tail = Start /\ i \in Nat
      BY <1>6, Sizes DEF FreshCQ
    <3> QED
      BY <1>7, <3>1 DEF Occupied
  <2> QED
    BY <2>1 DEF Written
<1>14. CQInv
  <2>1. cq \in [Queues -> CQs]
    BY <1>6 DEF Init, FreshCQ
  <2>2. ASSUME NEW q \in Queues, NEW i \in Slots PROVE cq[q].mem[i].phase # Expected(q, i)
    <3>1. i \in Nat /\ cq[q].head = Start /\ host.phase[q] = TRUE
          /\ cq[q].mem[i].phase \in BOOLEAN /\ (cq[q].mem[i].phase <=> i < Start)
      <4>1. cq[q].mem[i] \in Slips
        BY <2>1 DEF CQs
      <4> QED
        BY <1>6, <1>12, <4>1, Sizes DEF FreshCQ, Slips
    <3>2. CASE Start <= i
      BY <1>7, <3>1, <3>2 DEF Expected
    <3>3. CASE ~(Start <= i)
      BY <1>7, <3>1, <3>3 DEF Expected
    <3> QED
      BY <3>2, <3>3
  <2>3. \A q \in Queues : host.phase[q] = TRUE /\ cq[q].head <= cq[q].tail /\ cq[q].phase = TRUE
    BY <1>6, <1>7, <1>12 DEF FreshCQ
  <2> QED
    BY <1>13, <2>1, <2>2, <2>3 DEF CQInv
<1>15. PostInv
  BY <1>12 DEF PostInv
<1>16. SignalInv
  <2>1. aggregation = [v \in Vectors |-> Unset]
    BY DEF Init
  <2>2. aggregation \in [Vectors -> Aggregations] /\ \A v \in Vectors : ~aggregation[v].valid
    BY <2>1 DEF Aggregations, Unset
  <2> QED
    BY <1>12, <1>13, <2>2 DEF SignalInv
<1> QED
  BY <1>4, <1>8, <1>9, <1>10, <1>11, <1>14, <1>15, <1>16 DEF FrontInv, BackInv

(* Every step that does not end in a panic.                                *)
LEMMA NextLemma ==
  ASSUME NumbersUsedOnce, FrontInv, BackInv, [Next]_vars, ~broken'
  PROVE  FrontInv' /\ BackInv'
<1>1. CASE SubmitIO \/ SubmitAdmin
  BY <1>1, SubmitStep
<1>2. ASSUME NEW q \in Queues, Consume(q) PROVE FrontInv' /\ BackInv'
  BY <1>2, ConsumeStep
<1>3. ASSUME NEW r \in {"enable", "disable", "shutdown"}, WriteConfig(r) PROVE FrontInv' /\ BackInv'
  BY <1>3, ConfigStep
<1>4. ASSUME NEW u \in Users, Refill(u) PROVE FrontInv' /\ BackInv'
  BY <1>4, RefillStep
<1>5. CASE Work
  BY <1>5, WorkStep
<1>6. CASE ReadDone
  BY <1>6, ReadStep
<1>7. ASSUME NEW b \in BOOLEAN, HandleRequest(b) PROVE FrontInv' /\ BackInv'
  BY <1>7, HandleStep
<1>8. ASSUME NEW e \in running, Finish(e) PROVE FrontInv' /\ BackInv'
  BY <1>8, FinishStep
<1>9. CASE Completion
  BY <1>9, CompletionStep
<1>10. CASE PostDone
  BY <1>10, PostDoneStep
<1>11. CASE Send
  BY <1>11, SendStep
<1>12. CASE UNCHANGED vars
  <2>1. UNCHANGED <<plan, cmd, registers, answers, gone, twice, coalesced, host, sq, fetching,
                    lSQByUser, rrUsers, uidSQMap, lSQFIFO, running, lCQFIFO, cq, posting,
                    sending, intr, aggregation>>
    BY <1>12 DEF vars, fetchVars, pickVars, postVars, hostVars, histVars
  <2>2. registers' \in Registers
    BY <2>1 DEF FrontInv, HostInv
  <2>3. Steady
    BY <2>1, Still
  <2>4. FrontInv'
    BY <2>1, <2>2, <2>3, PlanFrame, HostFrame, SQFrame, FetchFrame, EntryFrame DEF FrontInv
  <2>5. BackInv'
    BY <2>1, <2>3, BackFrame
  <2> QED
    BY <2>4, <2>5
<1> QED
  BY <1>1, <1>2, <1>3, <1>4, <1>5, <1>6, <1>7, <1>8, <1>9, <1>10, <1>11, <1>12 DEF Next, Host

(* What holds until a panic.                                               *)
SafeInv == ~broken => FrontInv /\ BackInv

(* The invariant holds in every state that no panic led to.                *)
THEOREM Consistent == ASSUME NumbersUsedOnce PROVE Spec => []SafeInv
<1>1. Init => SafeInv
  BY InitLemma DEF SafeInv
<1>2. SafeInv /\ [Next]_vars => SafeInv'
  <2>1. SUFFICES ASSUME SafeInv, [Next]_vars, ~broken' PROVE FrontInv' /\ BackInv'
    BY DEF SafeInv
  <2>2. ~broken
    BY <2>1 DEF Next, Work, ReadDone, HandleRequest, Finish, Completion, PostDone, Send, vars
  <2> QED
    BY <2>1, <2>2, NextLemma DEF SafeInv
<1> QED
  BY <1>1, <1>2, PTL DEF Spec

(* Whenever an answer is in host memory on a queue with interrupts whose   *)
(* vector was never coalesced, the interrupt of the vector is up, or a     *)
(* transfer or a call under way will raise it (completion, clearInterrupt  *)
(* and updateInterrupt of controller.cc).                                  *)
THEOREM SignalledAlways == ASSUME NumbersUsedOnce PROVE Spec => []Signalled
<1>1. SafeInv => Signalled
  <2>1. SUFFICES ASSUME SafeInv, NEW q \in Queues, Visible(q), cq[q].ien,
                        cq[q].iv \notin coalesced, ~broken
                 PROVE  Coming(cq[q].iv)
    BY DEF Signalled, Coming
  <2>2. FrontInv /\ BackInv
    BY <2>1 DEF SafeInv
  <2>3. cq[q].head \in Slots
    BY <2>2 DEF BackInv, CQInv, CQs
  <2>4. cq[q].live /\ cq[q].mem[cq[q].head].phase = host.phase[q]
    BY <2>1 DEF Visible
  <2>5. Expected(q, cq[q].head) = host.phase[q]
    BY <2>3, Sizes DEF Expected
  <2>6. Written(q, cq[q].head)
    BY <2>2, <2>3, <2>4, <2>5 DEF BackInv, CQInv
  <2> QED
    BY <2>1, <2>2, <2>3, <2>4, <2>6 DEF BackInv, SignalInv
<1> QED
  BY <1>1, Consistent, PTL

=============================================================================
