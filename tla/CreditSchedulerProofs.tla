----------------------- MODULE CreditSchedulerProofs -----------------------
(***************************************************************************)
(* Proofs about CreditScheduler, for any number of users, any period,      *)
(* budget, cap and latency, any mix of calls and any number of resets.     *)
(*                                                                         *)
(* The module first shows what Total computes; then that every request is  *)
(* in one place (QueueInv); then the balance of the accounts (AccountInv); *)
(* then the pace of the refill (PaceInv), which with the balance bounds    *)
(* the throughput.                                                         *)
(***************************************************************************)
EXTENDS CreditScheduler, FiniteSetTheorems, WellFoundedInduction, TLAPS

-----------------------------------------------------------------------------
(* Arithmetic *)

(* Division rounds down.                                                   *)
LEMMA DivFacts ==
  ASSUME NEW a \in Nat, NEW b \in Nat \ {0}
  PROVE  /\ a \div b \in Nat
         /\ b * (a \div b) <= a
         /\ a % b = 0 => b * (a \div b) = a
  OBVIOUS

(* Products distribute over sums.                                          *)
LEMMA Distribute ==
  ASSUME NEW c \in Int, NEW a \in Int, NEW b \in Int
  PROVE  /\ c * (a + b) = c * a + c * b
         /\ c * a \in Int
         /\ c * 0 = 0
  OBVIOUS

(* A larger factor makes a larger product.                                 *)
LEMMA ScaleUp ==
  ASSUME NEW c \in Nat, NEW a \in Int, NEW b \in Int, a <= b
  PROVE  c * a <= c * b
  OBVIOUS

(* Inequalities add.                                                       *)
LEMMA AddUp ==
  ASSUME NEW a \in Int, NEW b \in Int, NEW c \in Int, NEW d \in Int,
         a <= b, c <= d
  PROVE  a + c <= b + d
  OBVIOUS

(* The order of three factors does not matter.                             *)
LEMMA Commute ==
  ASSUME NEW a \in Int, NEW b \in Int, NEW c \in Int
  PROVE  a * b * c = b * (a * c)
  OBVIOUS

(* Nor does the order of the outer two.                                    *)
LEMMA Swap ==
  ASSUME NEW a \in Int, NEW b \in Int, NEW c \in Int
  PROVE  a * (b * c) = b * (a * c)
  OBVIOUS

-----------------------------------------------------------------------------
(* Sums over the users *)

N == Len(UserOrder)

(* The partial sums of f.                                                  *)
IsSum(s, f, m) ==
  s = [k \in 0..m |-> IF k = 0 THEN 0 ELSE s[k - 1] + f[UserOrder[k]]]

(* There is at least one user and each has one position.                   *)
LEMMA UserFacts ==
  /\ N \in Nat /\ N > 0
  /\ \A k \in 1..N : UserOrder[k] \in Users
  /\ \A u \in Users : \E k \in 1..N : UserOrder[k] = u
  /\ \A j, k \in 1..N : UserOrder[j] = UserOrder[k] => j = k
  /\ Admin \notin Users
  /\ NoUser \notin Users
  BY UserAssumption DEF N, Users

(* Every nonempty set of natural numbers has a least element.              *)
LEMMA NatLeast ==
  ASSUME NEW S, S \subseteq Nat, S # {}
  PROVE  \E i \in S : \A j \in S : i <= j
<1>1. PICK i \in S : \A j \in S : ~ (<<j, i>> \in OpToRel(<, Nat))
  BY NatLessThanWellFounded, WFMin
<1>2. \A j \in S : ~ (j < i)
  BY <1>1 DEF OpToRel
<1> QED
  BY <1>2

(* Partial sums exist, by extending a shorter row of them.                 *)
LEMMA SumExists ==
  ASSUME NEW f \in [Users -> Int], NEW m \in 0..N
  PROVE  \E s \in [0..m -> Int] : IsSum(s, f, m)
<1> DEFINE Bad == {i \in Nat : i <= N /\ ~ \E s \in [0..i -> Int] : IsSum(s, f, i)}
<1>1. SUFFICES ASSUME Bad # {} PROVE FALSE
  BY UserFacts
<1>2. PICK i \in Bad : \A j \in Bad : i <= j
  <2>1. Bad \subseteq Nat
    OBVIOUS
  <2> HIDE DEF Bad
  <2> QED
    BY <1>1, <2>1, NatLeast
<1>3. i # 0
  <2> DEFINE s == [k \in 0..0 |-> 0]
  <2>1. s \in [0..0 -> Int] /\ IsSum(s, f, 0)
    BY DEF IsSum
  <2> QED
    BY <2>1
<1>4. i - 1 \in Nat /\ i - 1 \notin Bad /\ i <= N /\ i \in Nat
  <2>1. i \in Nat /\ i <= N
    BY <1>2
  <2> HIDE DEF Bad
  <2> QED
    BY <2>1, <1>2, <1>3
<1>5. PICK s \in [0..(i - 1) -> Int] : IsSum(s, f, i - 1)
  BY <1>4, UserFacts
<1> DEFINE t == [k \in 0..i |-> IF k = i THEN s[i - 1] + f[UserOrder[i]] ELSE s[k]]
<1>6. UserOrder[i] \in Users
  BY <1>3, <1>4, UserFacts
<1>7. t \in [0..i -> Int]
  BY <1>4, <1>5, <1>6
<1>8. IsSum(t, f, i)
  <2>1. \A k \in 0..(i - 1) :
           s[k] = IF k = 0 THEN 0 ELSE s[k - 1] + f[UserOrder[k]]
    BY <1>5 DEF IsSum
  <2>2. \A k \in 0..i : t[k] = IF k = 0 THEN 0 ELSE t[k - 1] + f[UserOrder[k]]
    BY <2>1, <1>3, <1>4
  <2> HIDE DEF t
  <2> QED
    BY <2>2, <1>7 DEF IsSum
<1> QED
  BY <1>2, <1>7, <1>8

(* Total is the last of the partial sums.                                  *)
LEMMA TotalFacts ==
  ASSUME NEW f \in [Users -> Int]
  PROVE  \E s \in [0..N -> Int] :
           /\ s[0] = 0
           /\ \A k \in 1..N : s[k] = s[k - 1] + f[UserOrder[k]]
           /\ Total(f) = s[N]
<1> DEFINE sum == CHOOSE s : IsSum(s, f, N)
<1>1. PICK r \in [0..N -> Int] : IsSum(r, f, N)
  BY SumExists, UserFacts
<1>2. IsSum(sum, f, N)
  BY <1>1
<1>3. Total(f) = sum[N]
  BY DEF Total, IsSum, N
<1> HIDE DEF sum
<1>4. DOMAIN sum = 0..N
  BY <1>2 DEF IsSum
<1>5. \A k \in 0..N : sum[k] = IF k = 0 THEN 0 ELSE sum[k - 1] + f[UserOrder[k]]
  BY <1>2 DEF IsSum
<1>6. sum \in [0..N -> Int]
  <2> DEFINE Bad == {k \in 0..N : sum[k] \notin Int}
  <2>1. SUFFICES ASSUME Bad # {} PROVE FALSE
    BY <1>2, <1>4 DEF IsSum
  <2>2. PICK k \in Bad : \A j \in Bad : k <= j
    <3>1. Bad \subseteq Nat
      BY UserFacts
    <3> HIDE DEF Bad
    <3> QED
      BY <2>1, <3>1, NatLeast
  <2>3. k \in 0..N /\ sum[k] \notin Int
    OBVIOUS
  <2>4. k # 0
    BY <1>5, <2>3
  <2>5. k - 1 \in 0..N /\ k \in 1..N
    BY <2>3, <2>4, UserFacts
  <2>6. sum[k - 1] \in Int
    BY <2>2, <2>5, UserFacts
  <2>7. f[UserOrder[k]] \in Int
    BY <2>5, UserFacts
  <2> QED
    BY <1>5, <2>3, <2>4, <2>6, <2>7
<1>7. sum[0] = 0 /\ \A k \in 1..N : sum[k] = sum[k - 1] + f[UserOrder[k]]
  BY <1>5, UserFacts
<1> QED
  BY <1>3, <1>6, <1>7

(* The sum of nothing.                                                     *)
LEMMA TotalZero ==
  ASSUME NEW f \in [Users -> Int], \A u \in Users : f[u] = 0
  PROVE  Total(f) = 0
<1>1. PICK s \in [0..N -> Int] :
        /\ s[0] = 0
        /\ \A k \in 1..N : s[k] = s[k - 1] + f[UserOrder[k]]
        /\ Total(f) = s[N]
  BY TotalFacts
<1> DEFINE Bad == {k \in 0..N : s[k] # 0}
<1>2. SUFFICES ASSUME Bad # {} PROVE FALSE
  BY <1>1, UserFacts
<1>3. PICK k \in Bad : \A j \in Bad : k <= j
  <2>1. Bad \subseteq Nat
    BY UserFacts
  <2> HIDE DEF Bad
  <2> QED
    BY <1>2, <2>1, NatLeast
<1>4. k \in 1..N /\ k - 1 \in 0..N /\ s[k] # 0
  BY <1>1, <1>3, UserFacts
<1>5. s[k - 1] = 0
  BY <1>3, <1>4
<1>6. f[UserOrder[k]] = 0
  BY <1>4, UserFacts
<1> QED
  BY <1>1, <1>4, <1>5, <1>6

(* Raising the same amount for every user of a set raises the sum by that  *)
(* amount for each.                                                        *)
LEMMA TotalShares ==
  ASSUME NEW f \in [Users -> Int], NEW g \in [Users -> Int],
         NEW A \in SUBSET Users, NEW c \in Int,
         \A u \in Users : g[u] = f[u] + (IF u \in A THEN c ELSE 0)
  PROVE  /\ IsFiniteSet(A)
         /\ Total(g) = Total(f) + c * Cardinality(A)
<1>1. PICK s \in [0..N -> Int] :
        /\ s[0] = 0
        /\ \A k \in 1..N : s[k] = s[k - 1] + f[UserOrder[k]]
        /\ Total(f) = s[N]
  BY TotalFacts
<1>2. PICK t \in [0..N -> Int] :
        /\ t[0] = 0
        /\ \A k \in 1..N : t[k] = t[k - 1] + g[UserOrder[k]]
        /\ Total(g) = t[N]
  BY TotalFacts
<1> DEFINE First(k) == {u \in A : \E j \in 1..k : UserOrder[j] = u}
           Good(k) == /\ IsFiniteSet(First(k))
                      /\ t[k] = s[k] + c * Cardinality(First(k))
           Bad == {k \in 0..N : ~ Good(k)}
<1> HIDE DEF Good, Bad, First
<1>3. Good(0)
  <2>1. First(0) = {}
    BY DEF First
  <2>2. IsFiniteSet(First(0)) /\ Cardinality(First(0)) = 0
    BY <2>1, FS_EmptySet
  <2> QED
    BY <1>1, <1>2, <2>2 DEF Good
<1>4. ASSUME NEW k \in 1..N, Good(k - 1)
      PROVE  Good(k)
  <2>0. k \in 0..N /\ k - 1 \in 0..N /\ UserOrder[k] \in Users
    BY UserFacts
  <2>9. 1..k = 1..(k - 1) \cup {k} /\ k \notin 1..(k - 1) /\ 1..(k - 1) \subseteq 1..N
    BY UserFacts
  <2>1. t[k] = t[k - 1] + g[UserOrder[k]] /\ s[k] = s[k - 1] + f[UserOrder[k]]
    BY <1>1, <1>2
  <2>2. /\ t[k - 1] \in Int /\ s[k - 1] \in Int /\ t[k] \in Int /\ s[k] \in Int
        /\ f[UserOrder[k]] \in Int /\ g[UserOrder[k]] \in Int
    BY <2>0
  <2>3. CASE UserOrder[k] \in A
    <3>1. First(k) = First(k - 1) \cup {UserOrder[k]}
      BY <2>3, <2>9 DEF First
    <3>2. UserOrder[k] \notin First(k - 1)
      BY <2>9, UserFacts DEF First
    <3> DEFINE P == First(k - 1)
    <3>3. IsFiniteSet(P) /\ t[k - 1] = s[k - 1] + c * Cardinality(P)
      BY <1>4 DEF Good
    <3> HIDE DEF P
    <3>4. /\ IsFiniteSet(P \cup {UserOrder[k]})
          /\ Cardinality(P \cup {UserOrder[k]}) = Cardinality(P) + 1
          /\ Cardinality(P) \in Nat
      BY <3>2, <3>3, FS_AddElement, FS_CardinalityType DEF P
    <3>5. c * (Cardinality(P) + 1) = c * Cardinality(P) + c
      BY <3>4
    <3>6. g[UserOrder[k]] = f[UserOrder[k]] + c
      BY <2>0, <2>3
    <3>7. c * Cardinality(P) \in Int
      BY <3>4
    <3>8. t[k] = s[k] + (c * Cardinality(P) + c)
      <4> DEFINE X == c * Cardinality(P)
                 fu == f[UserOrder[k]]
                 gu == g[UserOrder[k]]
      <4>1. /\ X \in Int /\ fu \in Int /\ gu \in Int
            /\ t[k] = t[k - 1] + gu /\ s[k] = s[k - 1] + fu
            /\ t[k - 1] = s[k - 1] + X /\ gu = fu + c
        BY <2>1, <2>2, <3>3, <3>6, <3>7, Zenon
      <4> HIDE DEF X, fu, gu
      <4>2. ASSUME NEW a \in Int, NEW b \in Int, NEW x \in Int, NEW y \in Int,
                   a = b + gu, x = y + fu, b = y + X
            PROVE  a = x + (X + c)
        BY <4>1, <4>2
      <4>3. t[k] = s[k] + (X + c)
        BY <4>1, <4>2, <2>2
      <4> QED
        BY <4>3 DEF X
    <3> QED
      BY <3>1, <3>4, <3>5, <3>8 DEF P, Good
  <2>4. CASE UserOrder[k] \notin A
    <3>1. First(k) = First(k - 1)
      BY <2>4, <2>9 DEF First
    <3>2. g[UserOrder[k]] = f[UserOrder[k]]
      BY <2>0, <2>4
    <3> DEFINE P == First(k - 1)
    <3>3. IsFiniteSet(P) /\ t[k - 1] = s[k - 1] + c * Cardinality(P)
      BY <1>4 DEF Good
    <3>4. First(k) = P
      BY <3>1
    <3> HIDE DEF P
    <3>5. c * Cardinality(P) \in Int
      BY <3>3, FS_CardinalityType
    <3>6. t[k] = s[k] + c * Cardinality(P)
      BY <2>1, <2>2, <3>2, <3>3, <3>5
    <3> QED
      BY <3>3, <3>4, <3>6 DEF Good
  <2> QED
    BY <2>3, <2>4
<1>5. Bad = {}
  <2>1. SUFFICES ASSUME Bad # {} PROVE FALSE
    OBVIOUS
  <2>2. PICK k \in Bad : \A j \in Bad : k <= j
    <3>1. Bad \subseteq Nat
      BY UserFacts DEF Bad
    <3> QED
      BY <2>1, <3>1, NatLeast
  <2>3. k \in 1..N /\ k - 1 \in 0..N /\ ~ Good(k)
    BY <1>3, <2>2, UserFacts DEF Bad
  <2>4. Good(k - 1)
    BY <2>2, <2>3 DEF Bad
  <2> QED
    BY <1>4, <2>3, <2>4
<1>6. Good(N)
  <2>1. N \in 0..N
    BY UserFacts
  <2> QED
    BY <1>5, <2>1 DEF Bad
<1>7. First(N) = A
  BY UserFacts DEF First
<1> QED
  BY <1>1, <1>2, <1>6, <1>7 DEF Good

(* A bound for every user bounds the sum.                                  *)
LEMMA TotalBound ==
  ASSUME NEW f \in [Users -> Int], NEW g \in [Users -> Int], NEW c \in Nat,
         \A u \in Users : c * f[u] <= g[u]
  PROVE  c * Total(f) <= Total(g) /\ Total(f) \in Int /\ Total(g) \in Int
<1>1. PICK s \in [0..N -> Int] :
        /\ s[0] = 0
        /\ \A k \in 1..N : s[k] = s[k - 1] + f[UserOrder[k]]
        /\ Total(f) = s[N]
  BY TotalFacts
<1>2. PICK t \in [0..N -> Int] :
        /\ t[0] = 0
        /\ \A k \in 1..N : t[k] = t[k - 1] + g[UserOrder[k]]
        /\ Total(g) = t[N]
  BY TotalFacts
<1> DEFINE Bad == {k \in 0..N : ~ (c * s[k] <= t[k])}
<1>3. SUFFICES ASSUME Bad # {} PROVE FALSE
  <2>1. ASSUME Bad = {}
        PROVE  c * s[N] <= t[N]
    <3>1. N \in 0..N
      BY UserFacts
    <3> QED
      BY <2>1, <3>1
  <2>2. s[N] \in Int /\ t[N] \in Int
    BY UserFacts
  <2> HIDE DEF Bad
  <2> QED
    BY <1>1, <1>2, <2>1, <2>2
<1>4. PICK k \in Bad : \A j \in Bad : k <= j
  <2>1. Bad \subseteq Nat
    BY UserFacts
  <2> HIDE DEF Bad
  <2> QED
    BY <1>3, <2>1, NatLeast
<1>5. k \in 0..N /\ ~ (c * s[k] <= t[k])
  OBVIOUS
<1>6. k # 0
  BY <1>1, <1>2, <1>5
<1>7. k \in 1..N /\ k - 1 \in 0..N /\ UserOrder[k] \in Users
  BY <1>5, <1>6, UserFacts
<1>8. c * s[k - 1] <= t[k - 1]
  BY <1>4, <1>7
<1>9. /\ s[k - 1] \in Int /\ t[k - 1] \in Int
      /\ f[UserOrder[k]] \in Int /\ g[UserOrder[k]] \in Int
  BY <1>7
<1>10. c * (s[k - 1] + f[UserOrder[k]])
         = c * s[k - 1] + c * f[UserOrder[k]]
  BY <1>9, Distribute
<1>11. c * f[UserOrder[k]] <= g[UserOrder[k]]
  BY <1>7
<1>12. c * s[k - 1] \in Int /\ c * f[UserOrder[k]] \in Int
  BY <1>9
<1>13. c * s[k] = c * s[k - 1] + c * f[UserOrder[k]] /\ t[k] = t[k - 1] + g[UserOrder[k]]
  BY <1>1, <1>2, <1>7, <1>10
<1> HIDE DEF Bad
<1>14. c * s[k - 1] + c * f[UserOrder[k]] <= t[k - 1] + g[UserOrder[k]]
  BY <1>8, <1>9, <1>11, <1>12, AddUp, Zenon
<1> QED
  BY <1>5, <1>13, <1>14

-----------------------------------------------------------------------------
(* The inductive invariant *)

Pcs == {"idle", "admin", "refill", "deferred", "resume", "dispatch", "ticked",
        "gate", "slet"}

(* The types of the clocks and counters, ...                               *)
ClockTypes ==
  /\ clock \in Nat /\ now \in Nat /\ reached \in Nat /\ simTick \in Nat
  /\ epoch \in Nat /\ next \in Nat /\ phases \in Nat /\ resets \in Nat
  /\ timerStarted \in BOOLEAN

(* ... of the accounts, ...                                                *)
AccountTypes ==
  /\ credit \in [Users -> Nat] /\ carry \in [Users -> Nat]
  /\ consumed \in [Users -> Nat] /\ served \in [Users -> Nat]
  /\ active \in [Users -> BOOLEAN]

(* ... and of the queues and the walk through them.                        *)
QueueTypes ==
  /\ pc \in Pcs /\ caller \in {"until", "timer", "gate"}
  /\ queue \in [Users -> Seq(Requests)]
  /\ adminQueue \in Seq(Requests)
  /\ deferred \in Seq(Requests) /\ deferredISC \in Seq(Requests)
  /\ left \in Nat /\ scan \in Seq(Users)
  /\ reqCount \in 0..MaxRequests
  /\ dispatched \in [1..MaxRequests -> 0..1]

(* Whose requests a queue holds.                                           *)
Of(q, U) == \A k \in 1..Len(q) : q[k].uid \in U

(* Where tick() is and what it may still visit: the deferred loops never   *)
(* run past the end of their queue, and the admin queue is empty outside   *)
(* its own loop, so that a reset has nothing to drop.                      *)
Walk ==
  /\ Of(adminQueue, {Admin}) /\ Of(deferred, Users) /\ Of(deferredISC, Users)
  /\ \A u \in Users : Of(queue[u], {u})
  /\ pc # "admin" => adminQueue = <<>>
  /\ pc = "deferred" => left <= Len(deferred)
  /\ pc = "resume" => left <= Len(deferredISC)
  /\ pc \in {"gate", "slet"} => caller = "gate"
  /\ caller = "gate" /\ pc # "idle" =>
       req \in Requests /\ req.uid \in Users /\ req.id \in Accepted

(* The requests of a queue, each once.                                     *)
Ids(q) == {q[k].id : k \in 1..Len(q)}
Distinct(q) == \A j, k \in 1..Len(q) : q[j].id = q[k].id => j = k

(* The requests that were not carried out yet.                             *)
Open == {id \in Accepted : dispatched[id] = 0}

(* The requests A in the admin queue, D deferred, R results, G at the gate *)
(* and Q[u] in the queues are apart, and together they are W.              *)
Apart(A, D, R, G, Q, W) ==
  /\ A \cap D = {} /\ A \cap R = {} /\ A \cap G = {}
  /\ D \cap R = {} /\ D \cap G = {} /\ R \cap G = {}
  /\ \A u \in Users : Q[u] \cap (A \cup D \cup R \cup G) = {}
  /\ \A u, v \in Users : u # v => Q[u] \cap Q[v] = {}
  /\ W = A \cup D \cup R \cup G \cup (UNION {Q[u] : u \in Users})

InQueues == [u \in Users |-> Ids(queue[u])]

(* Every request that was not carried out is in one place.                 *)
OnePlace ==
  /\ Distinct(adminQueue) /\ Distinct(deferred) /\ Distinct(deferredISC)
  /\ \A u \in Users : Distinct(queue[u])
  /\ Apart(Ids(adminQueue), Ids(deferred), Ids(deferredISC), AtGate, InQueues, Open)
  /\ \A id \in (1..MaxRequests) \ Accepted : dispatched[id] = 0

QueueInv == QueueTypes /\ Walk /\ OnePlace

(* The balance of the accounts.  A user that is not active has no credit,  *)
(* so that activating it takes none away, and nothing is served unpaid.    *)
AccountInv ==
  /\ AccountTypes
  /\ \A u \in Users : ~active[u] => credit[u] = 0
  /\ \A u \in Users : served[u] <= consumed[u]
  /\ phases \in Nat
  /\ TokensConserved

(* The pace of the refill: until a reset the phases are a period apart,    *)
(* the first of them a period after the timer started.                     *)
PaceInv ==
  /\ ClockTypes
  /\ clock <= reached /\ now <= reached
  /\ resets = 0 =>
       IF timerStarted
       THEN /\ ActiveUsers # {}
            /\ next = epoch + Period * phases + Period
            /\ epoch + Period * phases <= reached
       ELSE phases = 0 /\ epoch = 0

-----------------------------------------------------------------------------
(* Queues *)

(* Taking the first request.                                               *)
LEMMA TakeFacts ==
  ASSUME NEW q \in Seq(Requests), q # <<>>, Distinct(q)
  PROVE  /\ Head(q) \in Requests /\ Tail(q) \in Seq(Requests)
         /\ Len(q) \in Nat /\ Len(q) > 0 /\ Len(Tail(q)) = Len(q) - 1
         /\ Head(q).id \in Ids(q)
         /\ Ids(Tail(q)) = Ids(q) \ {Head(q).id}
         /\ Distinct(Tail(q))
<1>1. /\ Len(q) \in Nat /\ Len(q) > 0 /\ Head(q) = q[1] /\ Tail(q) \in Seq(Requests)
      /\ Len(Tail(q)) = Len(q) - 1
      /\ \A k \in 1..Len(Tail(q)) : k + 1 \in 1..Len(q) /\ Tail(q)[k] = q[k + 1]
  OBVIOUS
<1>2. \A k \in 1..Len(q) : q[k] \in Requests
  OBVIOUS
<1>3. \A k \in 1..Len(q) : k # 1 => k - 1 \in 1..Len(Tail(q)) /\ Tail(q)[k - 1] = q[k]
  BY <1>1
<1>4. Ids(Tail(q)) = Ids(q) \ {Head(q).id}
  <2>1. ASSUME NEW i \in Ids(Tail(q)) PROVE i \in Ids(q) \ {Head(q).id}
    <3>1. PICK k \in 1..Len(Tail(q)) : i = Tail(q)[k].id
      BY DEF Ids
    <3> QED
      BY <1>1, <3>1 DEF Ids, Distinct
  <2>2. ASSUME NEW i \in Ids(q), i # Head(q).id PROVE i \in Ids(Tail(q))
    <3>1. PICK k \in 1..Len(q) : i = q[k].id
      BY DEF Ids
    <3> QED
      BY <1>1, <1>3, <2>2, <3>1 DEF Ids
  <2> QED
    BY <2>1, <2>2
<1>5. Distinct(Tail(q))
  <2> SUFFICES ASSUME NEW j \in 1..Len(Tail(q)), NEW k \in 1..Len(Tail(q)),
                      Tail(q)[j].id = Tail(q)[k].id
               PROVE  j = k
    BY DEF Distinct
  <2>1. j + 1 = k + 1
    BY <1>1 DEF Distinct
  <2> QED
    BY <2>1, <1>1
<1>6. 1 \in 1..Len(q)
  BY <1>1
<1>7. Head(q) \in Requests
  BY <1>1, <1>2, <1>6
<1>8. Head(q).id \in Ids(q)
  BY <1>1, <1>6 DEF Ids
<1> QED
  BY <1>1, <1>4, <1>5, <1>7, <1>8

(* The requests left are of the same users.                                *)
LEMMA TakeOf ==
  ASSUME NEW q \in Seq(Requests), q # <<>>, NEW U, Of(q, U)
  PROVE  Head(q).uid \in U /\ Of(Tail(q), U)
<1>1. /\ Len(q) \in Nat /\ Len(q) > 0 /\ Head(q) = q[1]
      /\ Len(Tail(q)) = Len(q) - 1
      /\ \A k \in 1..Len(Tail(q)) : k + 1 \in 1..Len(q) /\ Tail(q)[k] = q[k + 1]
  OBVIOUS
<1> QED
  BY <1>1 DEF Of

(* Adding a request at the end.                                            *)
LEMMA PutFacts ==
  ASSUME NEW q \in Seq(Requests), Distinct(q), NEW r \in Requests,
         r.id \notin Ids(q)
  PROVE  /\ Append(q, r) \in Seq(Requests)
         /\ Len(q) \in Nat /\ Len(Append(q, r)) = Len(q) + 1
         /\ Ids(Append(q, r)) = Ids(q) \cup {r.id}
         /\ Distinct(Append(q, r))
<1> DEFINE a == Append(q, r)
<1>1. /\ a \in Seq(Requests) /\ Len(q) \in Nat /\ Len(a) = Len(q) + 1
      /\ \A k \in 1..Len(q) : k \in 1..Len(a) /\ a[k] = q[k]
      /\ a[Len(q) + 1] = r
  OBVIOUS
<1> HIDE DEF a
<1>2. \A k \in 1..Len(a) : k \in 1..Len(q) \/ k = Len(q) + 1
  BY <1>1
<1>3. Ids(a) = Ids(q) \cup {r.id}
  BY <1>1, <1>2 DEF Ids
<1>4. Distinct(a)
  <2> SUFFICES ASSUME NEW j \in 1..Len(a), NEW k \in 1..Len(a), a[j].id = a[k].id
               PROVE  j = k
    BY DEF Distinct
  <2>1. \A m \in 1..Len(q) : q[m].id # r.id
    BY DEF Ids
  <2>2. CASE j \in 1..Len(q) /\ k \in 1..Len(q)
    BY <1>1, <2>2 DEF Distinct
  <2>3. CASE j \in 1..Len(q) /\ k = Len(q) + 1
    BY <1>1, <2>1, <2>3
  <2>4. CASE j = Len(q) + 1 /\ k \in 1..Len(q)
    BY <1>1, <2>1, <2>4
  <2> QED
    BY <1>2, <2>2, <2>3, <2>4
<1> QED
  BY <1>1, <1>3, <1>4 DEF a

(* The requests with the new one are of the same users.                    *)
LEMMA PutOf ==
  ASSUME NEW q \in Seq(Requests), NEW r \in Requests, NEW U, Of(q, U), r.uid \in U
  PROVE  Of(Append(q, r), U)
<1> DEFINE a == Append(q, r)
<1>1. /\ Len(q) \in Nat /\ Len(a) = Len(q) + 1
      /\ \A k \in 1..Len(q) : a[k] = q[k]
      /\ a[Len(q) + 1] = r
  OBVIOUS
<1> HIDE DEF a
<1>2. \A k \in 1..Len(a) : k \in 1..Len(q) \/ k = Len(q) + 1
  BY <1>1
<1> QED
  BY <1>1, <1>2 DEF Of, a

(* Putting the first request back at the end.                              *)
LEMMA RotateFacts ==
  ASSUME NEW q \in Seq(Requests), q # <<>>, Distinct(q)
  PROVE  /\ Append(Tail(q), Head(q)) \in Seq(Requests)
         /\ Len(Append(Tail(q), Head(q))) = Len(q) /\ Len(q) \in Nat
         /\ Ids(Append(Tail(q), Head(q))) = Ids(q)
         /\ Distinct(Append(Tail(q), Head(q)))
<1> DEFINE r == Head(q)
           t == Tail(q)
<1>1. /\ r \in Requests /\ t \in Seq(Requests) /\ Len(q) \in Nat
      /\ Len(t) = Len(q) - 1 /\ r.id \in Ids(q) /\ Ids(t) = Ids(q) \ {r.id}
      /\ Distinct(t)
  BY TakeFacts
<1> HIDE DEF r, t
<1>2. /\ Append(t, r) \in Seq(Requests)
      /\ Len(Append(t, r)) = Len(t) + 1
      /\ Ids(Append(t, r)) = Ids(t) \cup {r.id}
      /\ Distinct(Append(t, r))
  BY <1>1, PutFacts
<1>3. Ids(t) \cup {r.id} = Ids(q)
  BY <1>1
<1>4. Len(Append(t, r)) = Len(q)
  BY <1>1, <1>2
<1> QED
  BY <1>1, <1>2, <1>3, <1>4 DEF r, t

(* An empty queue.                                                         *)
LEMMA EmptyFacts ==
  /\ <<>> \in Seq(Requests) /\ Ids(<<>>) = {} /\ Distinct(<<>>)
  /\ \A U : Of(<<>>, U)
  BY DEF Ids, Distinct, Of

-----------------------------------------------------------------------------
(* The places of the requests *)

(* A request leaves the admin queue, the deferred requests, the results or *)
(* the gate, having been carried out.                                      *)
LEMMA ApartLeave ==
  ASSUME NEW A, NEW D, NEW R, NEW G, NEW Q, NEW W, Apart(A, D, R, G, Q, W), NEW i
  PROVE  /\ i \in A => Apart(A \ {i}, D, R, G, Q, W \ {i})
         /\ i \in D => Apart(A, D \ {i}, R, G, Q, W \ {i})
         /\ i \in R => Apart(A, D, R \ {i}, G, Q, W \ {i})
         /\ i \in G => Apart(A, D, R, G \ {i}, Q, W \ {i})
  BY DEF Apart

(* A new request joins the admin queue, the results or the gate.           *)
LEMMA ApartJoin ==
  ASSUME NEW A, NEW D, NEW R, NEW G, NEW Q, NEW W, Apart(A, D, R, G, Q, W),
         NEW i, i \notin W
  PROVE  /\ Apart(A \cup {i}, D, R, G, Q, W \cup {i})
         /\ Apart(A, D, R \cup {i}, G, Q, W \cup {i})
         /\ Apart(A, D, R, G \cup {i}, Q, W \cup {i})
  BY DEF Apart

(* A request leaves the queue of its user, having been carried out or      *)
(* because it is deferred.                                                 *)
LEMMA ApartServe ==
  ASSUME NEW A, NEW D, NEW R, NEW G, NEW W,
         NEW Q, NEW P, Apart(A, D, R, G, Q, W), NEW u \in Users, NEW i, i \in Q[u],
         P = [v \in Users |-> IF v = u THEN Q[u] \ {i} ELSE Q[v]]
  PROVE  /\ Apart(A, D, R, G, P, W \ {i})
         /\ Apart(A, D \cup {i}, R, G, P, W)
         /\ i \in W /\ i \notin D
<1>1. \A v \in Users : P[v] = IF v = u THEN Q[u] \ {i} ELSE Q[v]
  OBVIOUS
<1>2. \A j : (\E v \in Users : j \in P[v]) <=> (j # i /\ \E v \in Users : j \in Q[v])
  BY <1>1 DEF Apart
<1>3. \A v \in Users : P[v] \subseteq Q[v] /\ i \notin P[v]
  BY <1>1 DEF Apart
<1>4. i \in W /\ i \notin D /\ i \notin A /\ i \notin R /\ i \notin G
  BY DEF Apart
<1>5. UNION {P[v] : v \in Users} = (UNION {Q[v] : v \in Users}) \ {i}
  BY <1>2
<1> HIDE DEF Apart
<1>6. /\ A \cap D = {} /\ A \cap R = {} /\ A \cap G = {}
      /\ D \cap R = {} /\ D \cap G = {} /\ R \cap G = {}
      /\ \A v \in Users : Q[v] \cap (A \cup D \cup R \cup G) = {}
      /\ \A v, w \in Users : v # w => Q[v] \cap Q[w] = {}
      /\ W = A \cup D \cup R \cup G \cup (UNION {Q[v] : v \in Users})
      /\ i \in UNION {Q[v] : v \in Users}
  BY DEF Apart
<1>7. \A v, w \in Users : v # w => P[v] \cap P[w] = {}
  BY <1>3, <1>6
<1>8. \A v \in Users : P[v] \cap (A \cup D \cup R \cup G) = {}
  BY <1>3, <1>6
<1>9. \A v \in Users : P[v] \cap (A \cup (D \cup {i}) \cup R \cup G) = {}
  BY <1>3, <1>8
<1>10. W \ {i} = A \cup D \cup R \cup G \cup (UNION {P[v] : v \in Users})
  BY <1>4, <1>5, <1>6
<1>11. W = A \cup (D \cup {i}) \cup R \cup G \cup (UNION {P[v] : v \in Users})
  BY <1>4, <1>5, <1>6
<1>12. Apart(A, D, R, G, P, W \ {i})
  BY <1>6, <1>7, <1>8, <1>10 DEF Apart
<1>13. Apart(A, D \cup {i}, R, G, P, W)
  BY <1>4, <1>6, <1>7, <1>9, <1>11 DEF Apart
<1> QED
  BY <1>4, <1>12, <1>13

(* A new request joins the queue of its user.                              *)
LEMMA ApartSubmit ==
  ASSUME NEW A, NEW D, NEW R, NEW G, NEW W,
         NEW Q, NEW P, Apart(A, D, R, G, Q, W), NEW u \in Users, NEW i, i \notin W,
         P = [v \in Users |-> IF v = u THEN Q[u] \cup {i} ELSE Q[v]]
  PROVE  Apart(A, D, R, G, P, W \cup {i})
<1>1. \A v \in Users : P[v] = IF v = u THEN Q[u] \cup {i} ELSE Q[v]
  OBVIOUS
<1>2. UNION {P[v] : v \in Users} = (UNION {Q[v] : v \in Users}) \cup {i}
  BY <1>1
<1>3. i \notin A \cup D \cup R \cup G /\ \A v \in Users : i \notin Q[v]
  BY DEF Apart
<1>4. \A v, w \in Users : v # w => P[v] \cap P[w] = {}
  BY <1>1, <1>3 DEF Apart
<1>5. \A v \in Users : P[v] \cap (A \cup D \cup R \cup G) = {}
  BY <1>1, <1>3 DEF Apart
<1>6. W \cup {i} = A \cup D \cup R \cup G \cup (UNION {P[v] : v \in Users})
  BY <1>2 DEF Apart
<1> QED
  BY <1>4, <1>5, <1>6 DEF Apart

(* Carrying out an open request.                                           *)
LEMMA CarryOut ==
  ASSUME QueueTypes, NEW i \in Open, reqCount' = reqCount,
         dispatched' = [dispatched EXCEPT ![i] = @ + 1],
         \A id \in (1..MaxRequests) \ Accepted : dispatched[id] = 0
  PROVE  /\ Open' = Open \ {i}
         /\ dispatched' \in [1..MaxRequests -> 0..1]
         /\ \A id \in (1..MaxRequests) \ Accepted' : dispatched'[id] = 0
<1>1. i \in 1..MaxRequests /\ i \in Accepted /\ dispatched[i] = 0
  BY ScheduleAssumption DEF Open, Accepted, QueueTypes
<1>2. dispatched \in [1..MaxRequests -> 0..1]
  BY DEF QueueTypes
<1>3. \A id \in 1..MaxRequests : dispatched'[id] = IF id = i THEN 1 ELSE dispatched[id]
  BY <1>1, <1>2
<1>4. dispatched' \in [1..MaxRequests -> 0..1]
  BY <1>1, <1>2
<1>5. Accepted' = Accepted /\ Accepted \subseteq 1..MaxRequests
  BY ScheduleAssumption DEF Accepted, QueueTypes
<1>6. Open' = Open \ {i}
  BY <1>3, <1>5 DEF Open
<1> QED
  BY <1>1, <1>3, <1>4, <1>5, <1>6

(* Accepting a request.                                                    *)
LEMMA Accept ==
  ASSUME QueueTypes, reqCount < MaxRequests, reqCount' = reqCount + 1,
         \A id \in (1..MaxRequests) \ Accepted : dispatched[id] = 0
  PROVE  /\ reqCount + 1 \notin Open /\ reqCount + 1 \in 1..MaxRequests
         /\ reqCount' \in 0..MaxRequests /\ reqCount + 1 \in Accepted'
         /\ Accepted' = Accepted \cup {reqCount + 1}
         /\ UNCHANGED dispatched =>
              /\ Open' = Open \cup {reqCount + 1}
              /\ \A id \in (1..MaxRequests) \ Accepted' : dispatched'[id] = 0
         /\ dispatched' = [dispatched EXCEPT ![reqCount + 1] = @ + 1] =>
              /\ Open' = Open
              /\ dispatched' \in [1..MaxRequests -> 0..1]
              /\ \A id \in (1..MaxRequests) \ Accepted' : dispatched'[id] = 0
<1> DEFINE i == reqCount + 1
<1>1. /\ i \in 1..MaxRequests /\ i \notin Accepted /\ reqCount' \in 0..MaxRequests
      /\ Accepted' = Accepted \cup {i} /\ Accepted \subseteq 1..MaxRequests
  BY ScheduleAssumption DEF Accepted, QueueTypes
<1> HIDE DEF i
<1>2. dispatched[i] = 0 /\ i \notin Open
  BY <1>1 DEF Open
<1>3. dispatched \in [1..MaxRequests -> 0..1]
  BY DEF QueueTypes
<1>4. ASSUME UNCHANGED dispatched
      PROVE  Open' = Open \cup {i}
  BY <1>1, <1>2, <1>4 DEF Open
<1>5. ASSUME dispatched' = [dispatched EXCEPT ![i] = @ + 1]
      PROVE  /\ Open' = Open
             /\ dispatched' \in [1..MaxRequests -> 0..1]
             /\ \A id \in (1..MaxRequests) \ Accepted' : dispatched'[id] = 0
  <2>1. \A id \in 1..MaxRequests : dispatched'[id] = IF id = i THEN 1 ELSE dispatched[id]
    BY <1>1, <1>2, <1>3, <1>5
  <2>2. dispatched' \in [1..MaxRequests -> 0..1]
    BY <1>1, <1>2, <1>3, <1>5
  <2>3. dispatched'[i] # 0 /\ \A id \in Accepted : dispatched'[id] = dispatched[id]
    BY <1>1, <2>1
  <2>4. Open' = Open
    BY <1>1, <2>3 DEF Open
  <2>5. \A id \in (1..MaxRequests) \ Accepted' : dispatched'[id] = 0
    BY <1>1, <2>1
  <2> QED
    BY <2>2, <2>4, <2>5
<1>6. i \in Accepted'
  BY <1>1
<1> QED
  BY <1>1, <1>2, <1>4, <1>5, <1>6 DEF i

(* A step that moves no request.                                           *)
LEMMA SamePlaces ==
  ASSUME OnePlace, AtGate' = AtGate,
         UNCHANGED <<queue, adminQueue, deferred, deferredISC, dispatched, reqCount>>
  PROVE  OnePlace'
  BY DEF OnePlace, InQueues, Open, Accepted

(* A function on 1..n is a sequence.                                       *)
LEMMA SeqFunction ==
  ASSUME NEW S, NEW n \in Nat, NEW f \in [1..n -> S]
  PROVE  f \in Seq(S)
  OBVIOUS

(* The orders of a round-robin scan are orders of the users.               *)
LEMMA RotationType ==
  ASSUME NEW last, NEW s \in RoundRobin(last)
  PROVE  s \in Seq(Users)
<1>1. PICK j \in 1..N : s = Rotation(j)
  BY DEF RoundRobin, N
<1>2. \A k \in 1..N : ((j + k - 1) % N) + 1 \in 1..N
  BY UserFacts
<1>3. s = [k \in 1..N |-> UserOrder[((j + k - 1) % N) + 1]]
  BY <1>1 DEF Rotation, N
<1>4. s \in [1..N -> Users]
  BY <1>2, <1>3, UserFacts
<1> QED
  BY <1>4, UserFacts, SeqFunction

-----------------------------------------------------------------------------
(* Every request is in one place: the steps *)

(* The invariant holds at the beginning.                                   *)
LEMMA QueueInit == Init => QueueInv
<1> SUFFICES ASSUME Init PROVE QueueInv
  OBVIOUS
<1>1. QueueTypes
  BY EmptyFacts, ScheduleAssumption DEF Init, QueueTypes, Pcs
<1>2. Walk
  BY EmptyFacts DEF Init, Walk
<1>3. Open = {} /\ AtGate = {} /\ \A u \in Users : InQueues[u] = {}
  BY EmptyFacts DEF Init, Open, Accepted, AtGate, InQueues
<1>4. OnePlace
  <2>1. Apart({}, {}, {}, {}, InQueues, {})
    BY <1>3 DEF Apart
  <2> QED
    BY <1>3, <2>1, EmptyFacts DEF Init, OnePlace
<1> QED
  BY <1>1, <1>2, <1>4 DEF QueueInv

(* The parts of the state that say where requests are.                     *)
placeVars == <<queue, adminQueue, deferred, deferredISC, dispatched, reqCount>>

(* The steps of tick() that move no request.                               *)
LEMMA TickQuiet ==
  ASSUME QueueInv, AdminDone \/ Refill \/ RefillDone \/ DeferredDone \/ ResumeDone
                     \/ TickDone
  PROVE  QueueInv'
<1>1. UNCHANGED <<placeVars, caller, req>>
  BY DEF AdminDone, Refill, RefillDone, DeferredDone, ResumeDone, TickDone, placeVars,
         history, account, timer
<1>2. AtGate' = AtGate
  BY <1>1 DEF AtGate, AdminDone, Refill, RefillDone, DeferredDone, ResumeDone, TickDone
<1>3. OnePlace'
  BY <1>1, <1>2, SamePlaces DEF QueueInv, placeVars
<1>4. /\ scan' \in Seq(Users) /\ pc' \in Pcs /\ left' \in Nat
  <2>1. CASE AdminDone \/ Refill \/ TickDone
    BY <2>1 DEF AdminDone, Refill, TickDone, QueueInv, QueueTypes, Pcs
  <2>2. CASE RefillDone \/ DeferredDone
    BY <2>2 DEF RefillDone, DeferredDone, QueueInv, QueueTypes, Pcs
  <2>3. CASE ResumeDone
    BY <2>3, RotationType DEF ResumeDone, QueueInv, QueueTypes, Pcs
  <2> QED
    BY <2>1, <2>2, <2>3
<1>5. QueueTypes'
  BY <1>1, <1>4 DEF QueueInv, QueueTypes, placeVars, Requests
<1>6. Walk'
  <2>1. /\ Of(adminQueue, {Admin})' /\ Of(deferred, Users)' /\ Of(deferredISC, Users)'
        /\ \A u \in Users : Of(queue[u], {u})'
    BY <1>1 DEF QueueInv, Walk, placeVars, Of
  <2>2. /\ Len(deferred) \in Nat /\ Len(deferredISC) \in Nat
        /\ Accepted' = Accepted /\ Requests' = Requests
    BY <1>1 DEF QueueInv, QueueTypes, placeVars, Accepted, Requests
  <2>3. pc' # "admin" => adminQueue' = <<>>
    BY <1>1 DEF QueueInv, Walk, placeVars, AdminDone, Refill, RefillDone, DeferredDone,
                ResumeDone, TickDone
  <2>4. /\ pc' = "deferred" => left' <= Len(deferred')
        /\ pc' = "resume" => left' <= Len(deferredISC')
    BY <1>1, <2>2 DEF QueueInv, Walk, placeVars, AdminDone, Refill, RefillDone,
                      DeferredDone, ResumeDone, TickDone
  <2>5. /\ pc' \notin {"gate", "slet", "idle"}
        /\ pc # "idle"
    BY DEF AdminDone, Refill, RefillDone, DeferredDone, ResumeDone, TickDone
  <2> QED
    BY <1>1, <2>1, <2>2, <2>3, <2>4, <2>5 DEF QueueInv, Walk
<1> QED
  BY <1>3, <1>5, <1>6 DEF QueueInv

(* The steps between the calls that move no request.                       *)
LEMMA CallQuiet ==
  ASSUME QueueInv, TryAgain \/ Return \/ Timer \/ TimerDone \/ SletEnd \/ GateWait
                     \/ GateTicked \/ Advance \/ Reset
  PROVE  QueueInv'
<1>1. UNCHANGED <<placeVars, left, scan>>
  BY DEF TryAgain, Return, Timer, TimerDone, SletEnd, GateWait, GateTicked, Advance,
         Reset, EnterTick, placeVars, history, account, timer, QueueInv, Walk
<1>2. AtGate' = AtGate
  BY DEF AtGate, TryAgain, Return, Timer, TimerDone, SletEnd, GateWait, GateTicked,
         Advance, Reset, EnterTick, QueueInv, Walk
<1>3. OnePlace'
  BY <1>1, <1>2, SamePlaces DEF QueueInv, placeVars
<1>4. pc' \in Pcs /\ caller' \in {"until", "timer", "gate"}
  BY DEF TryAgain, Return, Timer, TimerDone, SletEnd, GateWait, GateTicked, Advance,
         Reset, EnterTick, QueueInv, QueueTypes, Pcs
<1>5. QueueTypes'
  BY <1>1, <1>4 DEF QueueInv, QueueTypes, placeVars, Requests
<1>6. Walk'
  BY <1>1 DEF QueueInv, QueueTypes, Walk, placeVars, Of, Accepted, Requests, TryAgain,
              Return, Timer, TimerDone, SletEnd, GateWait, GateTicked, Advance, Reset,
              EnterTick
<1> QED
  BY <1>3, <1>5, <1>6 DEF QueueInv

(* The parts of the invariant a step of tick() on the queues leaves alone. *)
LEMMA TickWalk ==
  ASSUME QueueInv, QueueTypes', UNCHANGED <<pc, caller, req, reqCount>>,
         pc \in {"admin", "deferred", "resume", "dispatch"},
         Of(adminQueue, {Admin})', Of(deferred, Users)', Of(deferredISC, Users)',
         \A u \in Users : Of(queue[u], {u})',
         pc # "admin" => UNCHANGED adminQueue,
         pc = "deferred" => left' <= Len(deferred'),
         pc = "resume" => left' <= Len(deferredISC')
  PROVE  Walk' /\ AtGate' = AtGate
<1>1. Accepted' = Accepted /\ Requests' = Requests
  BY DEF Accepted, Requests
<1>2. AtGate' = AtGate
  BY DEF AtGate
<1> QED
  BY <1>1, <1>2 DEF Walk, QueueInv

(* A request of uid 0.                                                     *)
LEMMA AdminDispatchInv ==
  ASSUME QueueInv, AdminDispatch
  PROVE  QueueInv'
<1> DEFINE r == Head(adminQueue)
<1>1. /\ pc = "admin" /\ adminQueue # <<>> /\ adminQueue' = Tail(adminQueue)
      /\ dispatched' = [dispatched EXCEPT ![r.id] = @ + 1]
      /\ UNCHANGED <<pc, caller, req, queue, deferred, deferredISC, left, scan, reqCount>>
  BY DEF AdminDispatch, DispatchICL
<1>2. QueueTypes /\ Walk /\ OnePlace
  BY DEF QueueInv
<1>3. adminQueue \in Seq(Requests) /\ Distinct(adminQueue) /\ Of(adminQueue, {Admin})
  BY <1>2 DEF QueueTypes, OnePlace, Walk
<1>4. /\ r \in Requests /\ Tail(adminQueue) \in Seq(Requests)
      /\ r.id \in Ids(adminQueue) /\ Ids(Tail(adminQueue)) = Ids(adminQueue) \ {r.id}
      /\ Distinct(Tail(adminQueue)) /\ Of(Tail(adminQueue), {Admin})
  BY <1>1, <1>3, TakeFacts, TakeOf
<1> HIDE DEF r
<1>5. Apart(Ids(adminQueue), Ids(deferred), Ids(deferredISC), AtGate, InQueues, Open)
  BY <1>2 DEF OnePlace
<1>6. r.id \in Open
  BY <1>4, <1>5 DEF Apart
<1>7. /\ Open' = Open \ {r.id} /\ dispatched' \in [1..MaxRequests -> 0..1]
      /\ \A id \in (1..MaxRequests) \ Accepted' : dispatched'[id] = 0
  BY <1>1, <1>2, <1>6, CarryOut DEF OnePlace
<1>8. Apart(Ids(adminQueue) \ {r.id}, Ids(deferred), Ids(deferredISC), AtGate, InQueues,
            Open \ {r.id})
  BY <1>4, <1>5, ApartLeave
<1>9. QueueTypes'
  BY <1>1, <1>2, <1>4, <1>7 DEF QueueTypes, Requests
<1>10. Walk' /\ AtGate' = AtGate
  <2>1. /\ Of(adminQueue, {Admin})' /\ Of(deferred, Users)' /\ Of(deferredISC, Users)'
        /\ \A u \in Users : Of(queue[u], {u})'
    BY <1>1, <1>2, <1>4 DEF Walk, Of
  <2> QED
    BY <1>1, <1>9, <2>1, TickWalk
<1>11. OnePlace'
  BY <1>1, <1>2, <1>4, <1>7, <1>8, <1>10 DEF OnePlace, InQueues
<1> QED
  BY <1>9, <1>10, <1>11 DEF QueueInv

(* A deferred request, paid now or put back.                               *)
LEMMA VisitDeferredInv ==
  ASSUME QueueInv, VisitDeferred
  PROVE  QueueInv'
<1> DEFINE r == Head(deferred)
<1>1. /\ pc = "deferred" /\ left > 0 /\ left' = left - 1
      /\ UNCHANGED <<pc, caller, req, queue, adminQueue, deferredISC, scan, reqCount>>
      /\ \/ /\ dispatched' = [dispatched EXCEPT ![r.id] = @ + 1]
            /\ deferred' = Tail(deferred)
         \/ UNCHANGED dispatched /\ deferred' = Append(Tail(deferred), r)
  BY DEF VisitDeferred, DispatchICL
<1>2. QueueTypes /\ Walk /\ OnePlace
  BY DEF QueueInv
<1>3. deferred \in Seq(Requests) /\ Distinct(deferred) /\ Of(deferred, Users)
  BY <1>2 DEF QueueTypes, OnePlace, Walk
<1>4. deferred # <<>> /\ left \in Nat /\ left <= Len(deferred) /\ left' \in Nat
  BY <1>1, <1>2, <1>3 DEF QueueTypes, Walk
<1>5. /\ r \in Requests /\ Tail(deferred) \in Seq(Requests) /\ Len(deferred) \in Nat
      /\ Len(Tail(deferred)) = Len(deferred) - 1
      /\ r.id \in Ids(deferred) /\ Ids(Tail(deferred)) = Ids(deferred) \ {r.id}
      /\ Distinct(Tail(deferred)) /\ Of(Tail(deferred), Users) /\ r.uid \in Users
  BY <1>3, <1>4, TakeFacts, TakeOf
<1>6. /\ Append(Tail(deferred), r) \in Seq(Requests)
      /\ Len(Append(Tail(deferred), r)) = Len(deferred)
      /\ Ids(Append(Tail(deferred), r)) = Ids(deferred)
      /\ Distinct(Append(Tail(deferred), r))
  BY <1>3, <1>4, RotateFacts
<1> HIDE DEF r
<1>7. Of(Append(Tail(deferred), r), Users)
  BY <1>5, PutOf
<1>8. Apart(Ids(adminQueue), Ids(deferred), Ids(deferredISC), AtGate, InQueues, Open)
  BY <1>2 DEF OnePlace
<1>9. CASE dispatched' = [dispatched EXCEPT ![r.id] = @ + 1] /\ deferred' = Tail(deferred)
  <2>1. r.id \in Open
    BY <1>5, <1>8 DEF Apart
  <2>2. /\ Open' = Open \ {r.id} /\ dispatched' \in [1..MaxRequests -> 0..1]
        /\ \A id \in (1..MaxRequests) \ Accepted' : dispatched'[id] = 0
    BY <1>1, <1>2, <1>9, <2>1, CarryOut DEF OnePlace
  <2>3. Apart(Ids(adminQueue), Ids(deferred) \ {r.id}, Ids(deferredISC), AtGate, InQueues,
              Open \ {r.id})
    BY <1>5, <1>8, ApartLeave
  <2>4. QueueTypes'
    BY <1>1, <1>2, <1>4, <1>5, <1>9, <2>2 DEF QueueTypes, Requests
  <2>5. Walk' /\ AtGate' = AtGate
    <3>1. /\ Of(adminQueue, {Admin})' /\ Of(deferred, Users)' /\ Of(deferredISC, Users)'
          /\ \A u \in Users : Of(queue[u], {u})'
      BY <1>1, <1>2, <1>5, <1>9 DEF Walk, Of
    <3>2. left' <= Len(deferred')
      BY <1>1, <1>4, <1>5, <1>9
    <3> QED
      BY <1>1, <2>4, <3>1, <3>2, TickWalk
  <2>6. OnePlace'
    BY <1>1, <1>2, <1>5, <1>9, <2>2, <2>3, <2>5 DEF OnePlace, InQueues
  <2> QED
    BY <2>4, <2>5, <2>6 DEF QueueInv
<1>10. CASE UNCHANGED dispatched /\ deferred' = Append(Tail(deferred), r)
  <2>1. QueueTypes'
    BY <1>1, <1>2, <1>4, <1>6, <1>10 DEF QueueTypes, Requests
  <2>2. Walk' /\ AtGate' = AtGate
    <3>1. /\ Of(adminQueue, {Admin})' /\ Of(deferred, Users)' /\ Of(deferredISC, Users)'
          /\ \A u \in Users : Of(queue[u], {u})'
      BY <1>1, <1>2, <1>7, <1>10 DEF Walk, Of
    <3>2. left' <= Len(deferred')
      BY <1>1, <1>4, <1>5, <1>6, <1>10
    <3> QED
      BY <1>1, <2>1, <3>1, <3>2, TickWalk
  <2>3. OnePlace'
    BY <1>1, <1>2, <1>6, <1>10, <2>2 DEF OnePlace, InQueues, Open, Accepted
  <2> QED
    BY <2>1, <2>2, <2>3 DEF QueueInv
<1> QED
  BY <1>1, <1>9, <1>10 DEF r

(* A deferredISC ISC result, paid now or put back.                            *)
LEMMA VisitISCInv ==
  ASSUME QueueInv, VisitISC
  PROVE  QueueInv'
<1> DEFINE r == Head(deferredISC)
<1>1. /\ pc = "resume" /\ left > 0 /\ left' = left - 1
      /\ UNCHANGED <<pc, caller, req, queue, adminQueue, deferred, scan, reqCount>>
      /\ \/ /\ dispatched' = [dispatched EXCEPT ![r.id] = @ + 1]
            /\ deferredISC' = Tail(deferredISC)
         \/ UNCHANGED dispatched /\ deferredISC' = Append(Tail(deferredISC), r)
  BY DEF VisitISC
<1>2. QueueTypes /\ Walk /\ OnePlace
  BY DEF QueueInv
<1>3. deferredISC \in Seq(Requests) /\ Distinct(deferredISC) /\ Of(deferredISC, Users)
  BY <1>2 DEF QueueTypes, OnePlace, Walk
<1>4. deferredISC # <<>> /\ left \in Nat /\ left <= Len(deferredISC) /\ left' \in Nat
  BY <1>1, <1>2, <1>3 DEF QueueTypes, Walk
<1>5. /\ r \in Requests /\ Tail(deferredISC) \in Seq(Requests) /\ Len(deferredISC) \in Nat
      /\ Len(Tail(deferredISC)) = Len(deferredISC) - 1
      /\ r.id \in Ids(deferredISC) /\ Ids(Tail(deferredISC)) = Ids(deferredISC) \ {r.id}
      /\ Distinct(Tail(deferredISC)) /\ Of(Tail(deferredISC), Users) /\ r.uid \in Users
  BY <1>3, <1>4, TakeFacts, TakeOf
<1>6. /\ Append(Tail(deferredISC), r) \in Seq(Requests)
      /\ Len(Append(Tail(deferredISC), r)) = Len(deferredISC)
      /\ Ids(Append(Tail(deferredISC), r)) = Ids(deferredISC)
      /\ Distinct(Append(Tail(deferredISC), r))
  BY <1>3, <1>4, RotateFacts
<1> HIDE DEF r
<1>7. Of(Append(Tail(deferredISC), r), Users)
  BY <1>5, PutOf
<1>8. Apart(Ids(adminQueue), Ids(deferred), Ids(deferredISC), AtGate, InQueues, Open)
  BY <1>2 DEF OnePlace
<1>9. CASE dispatched' = [dispatched EXCEPT ![r.id] = @ + 1] /\ deferredISC' = Tail(deferredISC)
  <2>1. r.id \in Open
    BY <1>5, <1>8 DEF Apart
  <2>2. /\ Open' = Open \ {r.id} /\ dispatched' \in [1..MaxRequests -> 0..1]
        /\ \A id \in (1..MaxRequests) \ Accepted' : dispatched'[id] = 0
    BY <1>1, <1>2, <1>9, <2>1, CarryOut DEF OnePlace
  <2>3. Apart(Ids(adminQueue), Ids(deferred), Ids(deferredISC) \ {r.id}, AtGate, InQueues,
              Open \ {r.id})
    BY <1>5, <1>8, ApartLeave
  <2>4. QueueTypes'
    BY <1>1, <1>2, <1>4, <1>5, <1>9, <2>2 DEF QueueTypes, Requests
  <2>5. Walk' /\ AtGate' = AtGate
    <3>1. /\ Of(adminQueue, {Admin})' /\ Of(deferred, Users)' /\ Of(deferredISC, Users)'
          /\ \A u \in Users : Of(queue[u], {u})'
      BY <1>1, <1>2, <1>5, <1>9 DEF Walk, Of
    <3>2. left' <= Len(deferredISC')
      BY <1>1, <1>4, <1>5, <1>9
    <3> QED
      BY <1>1, <2>4, <3>1, <3>2, TickWalk
  <2>6. OnePlace'
    BY <1>1, <1>2, <1>5, <1>9, <2>2, <2>3, <2>5 DEF OnePlace, InQueues
  <2> QED
    BY <2>4, <2>5, <2>6 DEF QueueInv
<1>10. CASE UNCHANGED dispatched /\ deferredISC' = Append(Tail(deferredISC), r)
  <2>1. QueueTypes'
    BY <1>1, <1>2, <1>4, <1>6, <1>10 DEF QueueTypes, Requests
  <2>2. Walk' /\ AtGate' = AtGate
    <3>1. /\ Of(adminQueue, {Admin})' /\ Of(deferred, Users)' /\ Of(deferredISC, Users)'
          /\ \A u \in Users : Of(queue[u], {u})'
      BY <1>1, <1>2, <1>7, <1>10 DEF Walk, Of
    <3>2. left' <= Len(deferredISC')
      BY <1>1, <1>4, <1>5, <1>6, <1>10
    <3> QED
      BY <1>1, <2>1, <3>1, <3>2, TickWalk
  <2>3. OnePlace'
    BY <1>1, <1>2, <1>6, <1>10, <2>2 DEF OnePlace, InQueues, Open, Accepted
  <2> QED
    BY <2>1, <2>2, <2>3 DEF QueueInv
<1> QED
  BY <1>1, <1>9, <1>10 DEF r

(* A user of the round-robin scan: its first request is paid and sent to   *)
(* the cache layer, or deferred.                                           *)
LEMMA VisitUserInv ==
  ASSUME QueueInv, VisitUser
  PROVE  QueueInv'
<1> DEFINE u == Head(scan)
           q == queue[u]
           r == Head(q)
<1>1. /\ pc = "dispatch" /\ scan # <<>>
      /\ UNCHANGED <<pc, caller, req, adminQueue, deferredISC, left, reqCount>>
      /\ \/ scan' = Tail(scan) /\ UNCHANGED <<queue, deferred, dispatched>>
         \/ /\ q # <<>> /\ queue' = [queue EXCEPT ![u] = Tail(@)]
            /\ dispatched' = [dispatched EXCEPT ![r.id] = @ + 1]
            /\ scan' \in RoundRobin(u) /\ UNCHANGED deferred
         \/ /\ q # <<>> /\ queue' = [queue EXCEPT ![u] = Tail(@)]
            /\ deferred' = Append(deferred, r)
            /\ scan' = Tail(scan) /\ UNCHANGED dispatched
  BY DEF VisitUser, DispatchICL, Defer
<1>2. QueueTypes /\ Walk /\ OnePlace
  BY DEF QueueInv
<1>3. u \in Users /\ Tail(scan) \in Seq(Users)
  <2>1. scan \in Seq(Users)
    BY <1>2 DEF QueueTypes
  <2> QED
    BY <1>1, <2>1
<1>4. scan' \in Seq(Users)
  BY <1>1, <1>3, RotationType
<1> HIDE DEF u
<1>5. q \in Seq(Requests) /\ Distinct(q) /\ Of(q, {u}) /\ deferred \in Seq(Requests)
  BY <1>2, <1>3 DEF QueueTypes, OnePlace, Walk
<1>6. Apart(Ids(adminQueue), Ids(deferred), Ids(deferredISC), AtGate, InQueues, Open)
  BY <1>2 DEF OnePlace
<1>7. CASE UNCHANGED <<queue, deferred, dispatched>>
  <2>1. QueueTypes'
    BY <1>1, <1>2, <1>4, <1>7 DEF QueueTypes, Requests
  <2>2. /\ Of(adminQueue, {Admin})' /\ Of(deferred, Users)' /\ Of(deferredISC, Users)'
        /\ \A v \in Users : Of(queue[v], {v})'
    BY <1>1, <1>2, <1>7 DEF Walk, Of
  <2>3. Walk' /\ AtGate' = AtGate
    BY <1>1, <2>1, <2>2, TickWalk
  <2>4. OnePlace'
    BY <1>1, <1>2, <1>7, <2>3, SamePlaces
  <2> QED
    BY <2>1, <2>3, <2>4 DEF QueueInv
<1>8. ASSUME q # <<>>, queue' = [queue EXCEPT ![u] = Tail(@)]
      PROVE  /\ r \in Requests /\ r.uid \in Users /\ r.id \in InQueues[u]
             /\ queue' \in [Users -> Seq(Requests)]
             /\ \A v \in Users : Of(queue[v], {v})' /\ Distinct(queue[v])'
             /\ InQueues' = [v \in Users |-> IF v = u THEN InQueues[u] \ {r.id}
                                             ELSE InQueues[v]]
  <2>1. /\ r \in Requests /\ Tail(q) \in Seq(Requests)
        /\ r.id \in Ids(q) /\ Ids(Tail(q)) = Ids(q) \ {r.id}
        /\ Distinct(Tail(q)) /\ Of(Tail(q), {u}) /\ r.uid \in {u}
    BY <1>5, <1>8, TakeFacts, TakeOf
  <2>2. queue \in [Users -> Seq(Requests)]
    BY <1>2 DEF QueueTypes
  <2> HIDE DEF r
  <2>3. queue' \in [Users -> Seq(Requests)]
    BY <1>3, <1>8, <2>1, <2>2
  <2>4. \A v \in Users : queue'[v] = IF v = u THEN Tail(q) ELSE queue[v]
    BY <1>3, <1>8, <2>2
  <2> HIDE DEF q
  <2>5. \A v \in Users : Of(queue'[v], {v}) /\ Distinct(queue'[v])
    BY <1>2, <2>1, <2>4 DEF Walk, OnePlace
  <2>6. \A v \in Users : Of(queue[v], {v})' /\ Distinct(queue[v])'
    BY <2>5 DEF Of, Distinct
  <2>7. \A v \in Users : Ids(queue'[v]) = IF v = u THEN Ids(q) \ {r.id} ELSE Ids(queue[v])
    BY <2>1, <2>4
  <2>8. InQueues' = [v \in Users |-> Ids(queue'[v])]
    BY DEF InQueues, Ids
  <2>9. InQueues = [v \in Users |-> Ids(queue[v])] /\ Ids(q) = Ids(queue[u])
    BY DEF InQueues, q
  <2> QED
    BY <1>3, <2>1, <2>3, <2>6, <2>7, <2>8, <2>9
<1> HIDE DEF q, r
<1>9. CASE /\ q # <<>> /\ queue' = [queue EXCEPT ![u] = Tail(@)]
           /\ dispatched' = [dispatched EXCEPT ![r.id] = @ + 1] /\ UNCHANGED deferred
  <2>1. /\ Apart(Ids(adminQueue), Ids(deferred), Ids(deferredISC), AtGate, InQueues',
                 Open \ {r.id})
        /\ r.id \in Open
    <3>1. /\ r.id \in InQueues[u]
          /\ InQueues' = [v \in Users |-> IF v = u THEN InQueues[u] \ {r.id}
                                          ELSE InQueues[v]]
      BY <1>8, <1>9
    <3>2. PICK i : i = r.id
      OBVIOUS
    <3>3. PICK P : P = InQueues'
      OBVIOUS
    <3>4. /\ i \in InQueues[u]
          /\ P = [v \in Users |-> IF v = u THEN InQueues[u] \ {i} ELSE InQueues[v]]
      BY <3>1, <3>2, <3>3
    <3>5. u \in Users
      BY <1>3
    <3>6. /\ Apart(Ids(adminQueue), Ids(deferred), Ids(deferredISC), AtGate, P, Open \ {i})
          /\ Apart(Ids(adminQueue), Ids(deferred) \cup {i}, Ids(deferredISC), AtGate, P, Open)
          /\ i \in Open /\ i \notin Ids(deferred)
      BY <1>6, <3>4, <3>5, ApartServe, ZenonT(30)
    <3> QED
      BY <3>2, <3>3, <3>6
  <2>2. /\ Open' = Open \ {r.id} /\ dispatched' \in [1..MaxRequests -> 0..1]
        /\ \A id \in (1..MaxRequests) \ Accepted' : dispatched'[id] = 0
    BY <1>1, <1>2, <1>9, <2>1, CarryOut DEF OnePlace
  <2>3. QueueTypes'
    BY <1>1, <1>2, <1>4, <1>8, <1>9, <2>2 DEF QueueTypes, Requests
  <2>4. Walk' /\ AtGate' = AtGate
    <3>1. Of(adminQueue, {Admin})' /\ Of(deferred, Users)' /\ Of(deferredISC, Users)'
      BY <1>1, <1>2, <1>9 DEF Walk, Of
    <3> QED
      BY <1>1, <1>8, <1>9, <2>3, <3>1, TickWalk
  <2>5. OnePlace'
    BY <1>1, <1>2, <1>8, <1>9, <2>1, <2>2, <2>4 DEF OnePlace
  <2> QED
    BY <2>3, <2>4, <2>5 DEF QueueInv
<1>10. CASE /\ q # <<>> /\ queue' = [queue EXCEPT ![u] = Tail(@)]
            /\ deferred' = Append(deferred, r) /\ UNCHANGED dispatched
  <2>1. /\ Apart(Ids(adminQueue), Ids(deferred) \cup {r.id}, Ids(deferredISC), AtGate,
                 InQueues', Open)
        /\ r.id \notin Ids(deferred)
    <3>1. /\ r.id \in InQueues[u]
          /\ InQueues' = [v \in Users |-> IF v = u THEN InQueues[u] \ {r.id}
                                          ELSE InQueues[v]]
      BY <1>8, <1>10
    <3>2. PICK i : i = r.id
      OBVIOUS
    <3>3. PICK P : P = InQueues'
      OBVIOUS
    <3>4. /\ i \in InQueues[u]
          /\ P = [v \in Users |-> IF v = u THEN InQueues[u] \ {i} ELSE InQueues[v]]
      BY <3>1, <3>2, <3>3
    <3>5. u \in Users
      BY <1>3
    <3>6. /\ Apart(Ids(adminQueue), Ids(deferred), Ids(deferredISC), AtGate, P, Open \ {i})
          /\ Apart(Ids(adminQueue), Ids(deferred) \cup {i}, Ids(deferredISC), AtGate, P, Open)
          /\ i \in Open /\ i \notin Ids(deferred)
      BY <1>6, <3>4, <3>5, ApartServe, ZenonT(30)
    <3> QED
      BY <3>2, <3>3, <3>6
  <2>2. Distinct(deferred) /\ Of(deferred, Users)
    BY <1>2 DEF OnePlace, Walk
  <2>3. /\ deferred' \in Seq(Requests) /\ Ids(deferred') = Ids(deferred) \cup {r.id}
        /\ Distinct(deferred') /\ Of(deferred', Users)
    BY <1>5, <1>8, <1>10, <2>1, <2>2, PutFacts, PutOf
  <2>4. QueueTypes'
    BY <1>1, <1>2, <1>4, <1>8, <1>10, <2>3 DEF QueueTypes, Requests
  <2>5. Walk' /\ AtGate' = AtGate
    <3>1. Of(adminQueue, {Admin})' /\ Of(deferred, Users)' /\ Of(deferredISC, Users)'
      BY <1>1, <1>2, <2>3 DEF Walk, Of
    <3> QED
      BY <1>1, <1>8, <1>10, <2>4, <3>1, TickWalk
  <2>6. Open' = Open /\ Accepted' = Accepted
    BY <1>1, <1>10 DEF Open, Accepted
  <2>7. OnePlace'
    BY <1>1, <1>2, <1>8, <1>10, <2>1, <2>3, <2>5, <2>6 DEF OnePlace
  <2> QED
    BY <2>4, <2>5, <2>7 DEF QueueInv
<1> QED
  BY <1>1, <1>7, <1>9, <1>10 DEF q, r

(* A call to processUntil: the request joins a queue.                      *)
LEMMA SubmitInv ==
  ASSUME QueueInv, NEW u \in Users \cup {Admin}, NEW n \in Lengths, Submit(u, n)
  PROVE  QueueInv'
<1> DEFINE r == [id |-> reqCount + 1, uid |-> u, pages |-> n]
<1>1. /\ pc = "idle" /\ reqCount < MaxRequests /\ reqCount' = reqCount + 1
      /\ caller' = "until" /\ pc' = "admin" /\ req' = r
      /\ UNCHANGED <<deferred, deferredISC, left, scan, dispatched>>
      /\ IF u = Admin
         THEN adminQueue' = Append(adminQueue, r) /\ UNCHANGED queue
         ELSE queue' = [queue EXCEPT ![u] = Append(@, r)] /\ UNCHANGED adminQueue
  BY DEF Submit, EnterTick
<1>2. QueueTypes /\ Walk /\ OnePlace
  BY DEF QueueInv
<1>3. /\ reqCount + 1 \notin Open /\ reqCount + 1 \in 1..MaxRequests
      /\ reqCount' \in 0..MaxRequests /\ Open' = Open \cup {reqCount + 1}
      /\ \A id \in (1..MaxRequests) \ Accepted' : dispatched'[id] = 0
  BY <1>1, <1>2, Accept DEF OnePlace
<1>4. r \in Requests /\ r.id = reqCount + 1 /\ r.uid = u
  BY <1>3 DEF Requests
<1> HIDE DEF r
<1>5. AtGate = {} /\ AtGate' = {}
  BY <1>1 DEF AtGate
<1>6. Apart(Ids(adminQueue), Ids(deferred), Ids(deferredISC), AtGate, InQueues, Open)
  BY <1>2 DEF OnePlace
<1>7. Of(deferred, Users)' /\ Of(deferredISC, Users)'
  BY <1>1, <1>2 DEF Walk, Of
<1>8. CASE u = Admin
  <2>1. /\ adminQueue \in Seq(Requests) /\ Distinct(adminQueue) /\ Of(adminQueue, {Admin})
        /\ r.id \notin Ids(adminQueue)
    BY <1>2, <1>3, <1>4, <1>6 DEF QueueTypes, OnePlace, Walk, Apart
  <2>2. /\ adminQueue' \in Seq(Requests) /\ Ids(adminQueue') = Ids(adminQueue) \cup {r.id}
        /\ Distinct(adminQueue') /\ Of(adminQueue', {Admin})
    BY <1>1, <1>4, <1>8, <2>1, PutFacts, PutOf
  <2>3. QueueTypes'
    BY <1>1, <1>2, <1>3, <1>8, <2>2 DEF QueueTypes, Requests, Pcs
  <2>4. Walk'
    <3>1. Of(adminQueue, {Admin})' /\ \A v \in Users : Of(queue[v], {v})'
      BY <1>1, <1>2, <1>8, <2>2 DEF Walk, Of
    <3> QED
      BY <1>1, <1>7, <3>1 DEF Walk
  <2>5. Apart(Ids(adminQueue) \cup {r.id}, Ids(deferred), Ids(deferredISC), AtGate,
              InQueues, Open \cup {r.id})
    BY <1>3, <1>4, <1>6, ApartJoin
  <2>6. InQueues' = InQueues
    BY <1>1, <1>8 DEF InQueues
  <2>7. OnePlace'
    BY <1>1, <1>2, <1>3, <1>4, <1>5, <1>8, <2>2, <2>5, <2>6 DEF OnePlace
  <2> QED
    BY <2>3, <2>4, <2>7 DEF QueueInv
<1>9. CASE u # Admin
  <2>1. u \in Users
    BY <1>9
  <2>2. /\ queue \in [Users -> Seq(Requests)] /\ Distinct(queue[u]) /\ Of(queue[u], {u})
        /\ queue[u] \in Seq(Requests)
    BY <1>2, <2>1 DEF QueueTypes, OnePlace, Walk
  <2>3. r.id \notin Ids(queue[u])
    BY <1>3, <1>4, <1>6, <2>1 DEF Apart, InQueues
  <2>4. /\ Append(queue[u], r) \in Seq(Requests)
        /\ Ids(Append(queue[u], r)) = Ids(queue[u]) \cup {r.id}
        /\ Distinct(Append(queue[u], r)) /\ Of(Append(queue[u], r), {u})
    BY <1>4, <2>2, <2>3, PutFacts, PutOf
  <2>5. /\ queue' \in [Users -> Seq(Requests)]
        /\ \A v \in Users : queue'[v] = IF v = u THEN Append(queue[u], r) ELSE queue[v]
    BY <1>1, <1>9, <2>1, <2>2, <2>4
  <2>6. \A v \in Users : Of(queue'[v], {v}) /\ Distinct(queue'[v])
    BY <1>2, <2>4, <2>5 DEF Walk, OnePlace
  <2>7. \A v \in Users : Of(queue[v], {v})' /\ Distinct(queue[v])'
    BY <2>6 DEF Of, Distinct
  <2>8. InQueues' = [v \in Users |-> IF v = u THEN InQueues[u] \cup {r.id}
                                     ELSE InQueues[v]]
    <3>1. \A v \in Users : Ids(queue'[v]) = IF v = u THEN Ids(queue[u]) \cup {r.id}
                                            ELSE Ids(queue[v])
      BY <2>4, <2>5
    <3>2. InQueues' = [v \in Users |-> Ids(queue'[v])]
      BY DEF InQueues, Ids
    <3>3. InQueues = [v \in Users |-> Ids(queue[v])]
      BY DEF InQueues
    <3> QED
      BY <2>1, <3>1, <3>2, <3>3
  <2>9. Apart(Ids(adminQueue), Ids(deferred), Ids(deferredISC), AtGate, InQueues',
              Open \cup {r.id})
    BY <1>3, <1>4, <1>6, <2>1, <2>8, ApartSubmit
  <2>10. QueueTypes'
    BY <1>1, <1>2, <1>3, <1>9, <2>5 DEF QueueTypes, Requests, Pcs
  <2>11. Walk'
    <3>1. Of(adminQueue, {Admin})'
      BY <1>1, <1>2, <1>9 DEF Walk, Of
    <3> QED
      BY <1>1, <1>7, <2>7, <3>1 DEF Walk
  <2>12. OnePlace'
    BY <1>1, <1>2, <1>3, <1>4, <1>5, <1>9, <2>7, <2>9 DEF OnePlace
  <2> QED
    BY <2>10, <2>11, <2>12 DEF QueueInv
<1> QED
  BY <1>8, <1>9

(* A result is charged and sent at once, or waits for the credit.          *)
LEMMA IscResultInv ==
  ASSUME QueueInv, NEW u \in Users \cup {Admin}, NEW n \in Lengths, IscResult(u, n)
  PROVE  QueueInv'
<1> DEFINE r == [id |-> reqCount + 1, uid |-> u, pages |-> n]
<1>1. /\ pc = "idle" /\ reqCount < MaxRequests /\ reqCount' = reqCount + 1
      /\ UNCHANGED <<pc, caller, req, queue, adminQueue, deferred, left, scan>>
      /\ \/ /\ dispatched' = [dispatched EXCEPT ![reqCount + 1] = @ + 1]
            /\ UNCHANGED deferredISC
         \/ /\ u # Admin /\ deferredISC' = Append(deferredISC, r)
            /\ UNCHANGED dispatched
  BY DEF IscResult, CheckCredit
<1>2. QueueTypes /\ Walk /\ OnePlace
  BY DEF QueueInv
<1>3. /\ reqCount + 1 \notin Open /\ reqCount + 1 \in 1..MaxRequests
      /\ reqCount' \in 0..MaxRequests
      /\ \A id \in (1..MaxRequests) \ Accepted' : dispatched'[id] = 0
      /\ UNCHANGED dispatched => Open' = Open \cup {reqCount + 1}
      /\ dispatched' = [dispatched EXCEPT ![reqCount + 1] = @ + 1] =>
           Open' = Open /\ dispatched' \in [1..MaxRequests -> 0..1]
  BY <1>1, <1>2, Accept DEF OnePlace
<1>4. r \in Requests /\ r.id = reqCount + 1 /\ r.uid = u
  BY <1>3 DEF Requests
<1> HIDE DEF r
<1>5. AtGate' = AtGate
  BY <1>1 DEF AtGate
<1>6. Apart(Ids(adminQueue), Ids(deferred), Ids(deferredISC), AtGate, InQueues, Open)
  BY <1>2 DEF OnePlace
<1>7. InQueues' = InQueues
  BY <1>1 DEF InQueues
<1>8. /\ Of(adminQueue, {Admin})' /\ Of(deferred, Users)'
      /\ \A v \in Users : Of(queue[v], {v})'
  BY <1>1, <1>2 DEF Walk, Of
<1>9. adminQueue' = <<>>
  BY <1>1, <1>2 DEF Walk
<1>10. CASE /\ dispatched' = [dispatched EXCEPT ![reqCount + 1] = @ + 1]
            /\ UNCHANGED deferredISC
  <2>1. Of(deferredISC, Users)'
    BY <1>2, <1>10 DEF Walk, Of
  <2>2. QueueTypes'
    BY <1>1, <1>2, <1>3, <1>10 DEF QueueTypes, Requests
  <2>3. Walk'
    BY <1>1, <1>8, <1>9, <2>1 DEF Walk
  <2>4. OnePlace'
    BY <1>1, <1>2, <1>3, <1>5, <1>7, <1>10 DEF OnePlace
  <2> QED
    BY <2>2, <2>3, <2>4 DEF QueueInv
<1>11. CASE /\ u # Admin /\ deferredISC' = Append(deferredISC, r)
            /\ UNCHANGED dispatched
  <2>1. /\ deferredISC \in Seq(Requests) /\ Distinct(deferredISC) /\ Of(deferredISC, Users)
        /\ r.id \notin Ids(deferredISC) /\ r.uid \in Users
    BY <1>2, <1>3, <1>4, <1>6, <1>11 DEF QueueTypes, OnePlace, Walk, Apart
  <2>2. /\ deferredISC' \in Seq(Requests) /\ Ids(deferredISC') = Ids(deferredISC) \cup {r.id}
        /\ Distinct(deferredISC') /\ Of(deferredISC', Users)
    BY <1>4, <1>11, <2>1, PutFacts, PutOf
  <2>3. Apart(Ids(adminQueue), Ids(deferred), Ids(deferredISC) \cup {r.id}, AtGate,
              InQueues, Open \cup {r.id})
    BY <1>3, <1>4, <1>6, ApartJoin
  <2>4. QueueTypes'
    BY <1>1, <1>2, <1>3, <1>11, <2>2 DEF QueueTypes, Requests
  <2>5. Of(deferredISC, Users)'
    BY <2>2 DEF Of
  <2>6. Walk'
    BY <1>1, <1>8, <1>9, <2>5 DEF Walk
  <2>7. OnePlace'
    BY <1>1, <1>2, <1>3, <1>4, <1>5, <1>7, <1>11, <2>2, <2>3 DEF OnePlace
  <2> QED
    BY <2>4, <2>6, <2>7 DEF QueueInv
<1> QED
  BY <1>1, <1>10, <1>11

(* An access of a slet comes to the gate.                                  *)
LEMMA GateEnterInv ==
  ASSUME QueueInv, NEW u \in Users, NEW n \in Lengths, NEW t,
         pc \in {"idle", "slet"}, GateEnter(u, n, t)
  PROVE  QueueInv'
<1> DEFINE r == [id |-> reqCount + 1, uid |-> u, pages |-> n]
<1>1. /\ reqCount < MaxRequests /\ reqCount' = reqCount + 1
      /\ caller' = "gate" /\ pc' = "gate" /\ req' = r
      /\ UNCHANGED <<queue, adminQueue, deferred, deferredISC, left, scan, dispatched>>
  BY DEF GateEnter
<1>2. QueueTypes /\ Walk /\ OnePlace
  BY DEF QueueInv
<1>3. /\ reqCount + 1 \notin Open /\ reqCount + 1 \in 1..MaxRequests
      /\ reqCount' \in 0..MaxRequests /\ reqCount + 1 \in Accepted'
      /\ Open' = Open \cup {reqCount + 1}
      /\ \A id \in (1..MaxRequests) \ Accepted' : dispatched'[id] = 0
  BY <1>1, <1>2, Accept DEF OnePlace
<1>4. r \in Requests /\ r.id = reqCount + 1 /\ r.uid = u
  BY <1>3 DEF Requests
<1> HIDE DEF r
<1>5. AtGate = {} /\ AtGate' = {r.id}
  BY <1>1 DEF AtGate
<1>6. Apart(Ids(adminQueue), Ids(deferred), Ids(deferredISC), AtGate, InQueues, Open)
  BY <1>2 DEF OnePlace
<1>7. Apart(Ids(adminQueue), Ids(deferred), Ids(deferredISC), AtGate \cup {r.id}, InQueues,
            Open \cup {r.id})
  BY <1>3, <1>4, <1>6, ApartJoin
<1>8. InQueues' = InQueues /\ AtGate \cup {r.id} = AtGate'
  BY <1>1, <1>5 DEF InQueues
<1>9. /\ Of(adminQueue, {Admin})' /\ Of(deferred, Users)' /\ Of(deferredISC, Users)'
      /\ \A v \in Users : Of(queue[v], {v})'
  BY <1>1, <1>2 DEF Walk, Of
<1>10. QueueTypes'
  BY <1>1, <1>2, <1>3 DEF QueueTypes, Requests, Pcs
<1>11. adminQueue' = <<>> /\ req' \in Requests'
  BY <1>1, <1>2, <1>4 DEF Walk, Requests
<1>12. Walk'
  BY <1>1, <1>3, <1>4, <1>9, <1>11 DEF Walk
<1>13. OnePlace'
  BY <1>1, <1>2, <1>3, <1>4, <1>7, <1>8 DEF OnePlace
<1> QED
  BY <1>10, <1>12, <1>13 DEF QueueInv

(* The gate opens.                                                         *)
LEMMA GateOpenInv ==
  ASSUME QueueInv, GateOpen
  PROVE  QueueInv'
<1>1. /\ pc = "gate" /\ pc' = "slet"
      /\ dispatched' = [dispatched EXCEPT ![req.id] = @ + 1]
      /\ UNCHANGED <<caller, req, queue, adminQueue, deferred, deferredISC, left, scan,
                     reqCount>>
  BY DEF GateOpen
<1>2. QueueTypes /\ Walk /\ OnePlace
  BY DEF QueueInv
<1>3. caller = "gate" /\ AtGate = {req.id} /\ AtGate' = {}
  BY <1>1, <1>2 DEF Walk, AtGate
<1>4. Apart(Ids(adminQueue), Ids(deferred), Ids(deferredISC), AtGate, InQueues, Open)
  BY <1>2 DEF OnePlace
<1>5. req.id \in Open
  BY <1>3, <1>4 DEF Apart
<1>6. /\ Open' = Open \ {req.id} /\ dispatched' \in [1..MaxRequests -> 0..1]
      /\ \A id \in (1..MaxRequests) \ Accepted' : dispatched'[id] = 0
  BY <1>1, <1>2, <1>5, CarryOut DEF OnePlace
<1>7. Apart(Ids(adminQueue), Ids(deferred), Ids(deferredISC), AtGate \ {req.id}, InQueues,
            Open \ {req.id})
  BY <1>3, <1>4, ApartLeave
<1>8. InQueues' = InQueues /\ AtGate' = AtGate \ {req.id}
  BY <1>1, <1>3 DEF InQueues
<1>9. /\ Of(adminQueue, {Admin})' /\ Of(deferred, Users)' /\ Of(deferredISC, Users)'
      /\ \A v \in Users : Of(queue[v], {v})'
  BY <1>1, <1>2 DEF Walk, Of
<1>10. QueueTypes'
  BY <1>1, <1>2, <1>6 DEF QueueTypes, Requests, Pcs
<1>11. /\ adminQueue' = <<>> /\ req' \in Requests' /\ req'.uid \in Users
       /\ req'.id \in Accepted'
  BY <1>1, <1>2, <1>3 DEF Walk, Requests, Accepted
<1>12. Walk'
  BY <1>1, <1>3, <1>9, <1>11 DEF Walk
<1>13. OnePlace'
  BY <1>1, <1>2, <1>6, <1>7, <1>8 DEF OnePlace
<1> QED
  BY <1>10, <1>12, <1>13 DEF QueueInv

(* Every step keeps every request in one place.                            *)
LEMMA QueueNext == QueueInv /\ [Next]_vars => QueueInv'
<1> SUFFICES ASSUME QueueInv, [Next]_vars PROVE QueueInv'
  OBVIOUS
<1>1. CASE UNCHANGED vars
  <2>1. UNCHANGED <<placeVars, pc, caller, req, left, scan>>
    BY <1>1 DEF vars, placeVars, history
  <2>2. AtGate' = AtGate
    BY <2>1 DEF AtGate
  <2>3. OnePlace'
    BY <2>1, <2>2, SamePlaces DEF QueueInv, placeVars
  <2>4. QueueTypes'
    BY <2>1 DEF QueueInv, QueueTypes, placeVars, Requests
  <2>5. Walk'
    BY <2>1 DEF QueueInv, Walk, placeVars, Of, Accepted, Requests
  <2> QED
    BY <2>3, <2>4, <2>5 DEF QueueInv
<1>2. CASE Tick
  BY <1>2, TickQuiet, AdminDispatchInv, VisitDeferredInv, VisitISCInv, VisitUserInv DEF Tick
<1>3. ASSUME NEW u \in Users, NEW n \in Lengths, SletRun(u, n)
      PROVE  QueueInv'
  BY <1>3, GateEnterInv DEF SletRun
<1>4. ASSUME NEW n \in Lengths, SletRead(n)
      PROVE  QueueInv'
  <2>1. pc = "slet" /\ GateEnter(req.uid, n, simTick)
    BY <1>4 DEF SletRead
  <2>2. req.uid \in Users
    BY <2>1 DEF QueueInv, Walk
  <2> QED
    BY <2>1, <2>2, GateEnterInv
<1> QED
  BY <1>1, <1>2, <1>3, <1>4, SubmitInv, IscResultInv, CallQuiet, GateOpenInv DEF Next

(* Every request, slet access and ISC result is in exactly one queue or    *)
(* was carried out once, for any number of users and requests: tick()      *)
(* neither loses nor repeats what it moves between the queues.             *)
THEOREM NoRequestLostOrRepeated == Spec => []EachOnce
<1>1. ASSUME QueueInv
      PROVE  EachOnce
  <2> SUFFICES ASSUME NEW id \in Accepted
               PROVE  dispatched[id] + Cardinality(Places(id)) = 1
    BY DEF EachOnce
  <2> DEFINE In(place, u, q) ==
               {<<place, u, k>> : k \in {n \in 1..Len(q) : q[n].id = id}}
  <2>1. Places(id) = In("admin", Admin, adminQueue) \cup In("deferred", Admin, deferred)
                       \cup In("result", Admin, deferredISC)
                       \cup (UNION {In("queue", u, queue[u]) : u \in Users})
                       \cup {<<"gate", Admin, i>> : i \in AtGate \cap {id}}
    BY DEF Places
  <2>2. ASSUME NEW place, NEW u, NEW q, Distinct(q)
        PROVE  /\ id \notin Ids(q) => In(place, u, q) = {}
               /\ id \in Ids(q) => \E k : In(place, u, q) = {<<place, u, k>>}
    <3>1. ASSUME id \notin Ids(q) PROVE In(place, u, q) = {}
      BY <3>1 DEF Ids
    <3>2. ASSUME id \in Ids(q) PROVE \E k : In(place, u, q) = {<<place, u, k>>}
      <4>1. PICK k \in 1..Len(q) : q[k].id = id
        BY <3>2 DEF Ids
      <4>2. {n \in 1..Len(q) : q[n].id = id} = {k}
        BY <4>1, <2>2 DEF Distinct
      <4> QED
        BY <4>2
    <3> QED
      BY <3>1, <3>2
  <2> HIDE DEF In
  <2> DEFINE A == In("admin", Admin, adminQueue)
             D == In("deferred", Admin, deferred)
             R == In("result", Admin, deferredISC)
             U == UNION {In("queue", u, queue[u]) : u \in Users}
             G == {<<"gate", Admin, i>> : i \in AtGate \cap {id}}
  <2>3. /\ Distinct(adminQueue) /\ Distinct(deferred) /\ Distinct(deferredISC)
        /\ \A u \in Users : Distinct(queue[u])
        /\ Apart(Ids(adminQueue), Ids(deferred), Ids(deferredISC), AtGate, InQueues, Open)
    BY <1>1 DEF QueueInv, OnePlace
  <2>4. \A u \in Users : InQueues[u] = Ids(queue[u])
    BY DEF InQueues
  <2>5. /\ id \notin Ids(adminQueue) => A = {}
        /\ id \in Ids(adminQueue) => \E p : A = {p}
        /\ id \notin Ids(deferred) => D = {}
        /\ id \in Ids(deferred) => \E p : D = {p}
        /\ id \notin Ids(deferredISC) => R = {}
        /\ id \in Ids(deferredISC) => \E p : R = {p}
        /\ \A u \in Users : id \notin InQueues[u] => In("queue", u, queue[u]) = {}
        /\ \A u \in Users : id \in InQueues[u] => \E p : In("queue", u, queue[u]) = {p}
    BY <2>2, <2>3, <2>4
  <2>6. /\ id \notin AtGate => G = {}
        /\ id \in AtGate => G = {<<"gate", Admin, id>>}
    OBVIOUS
  <2>7. /\ (\A u \in Users : id \notin InQueues[u]) => U = {}
        /\ \A u \in Users : id \in InQueues[u] => \E p : U = {p}
    <3>1. ASSUME \A u \in Users : id \notin InQueues[u] PROVE U = {}
      BY <3>1, <2>5
    <3>2. ASSUME NEW u \in Users, id \in InQueues[u] PROVE \E p : U = {p}
      <4>1. \A v \in Users : v # u => In("queue", v, queue[v]) = {}
        BY <3>2, <2>3, <2>5 DEF Apart
      <4>2. U = In("queue", u, queue[u])
        BY <4>1
      <4> QED
        BY <4>2, <3>2, <2>5
    <3> QED
      BY <3>1, <3>2
  <2>8. Places(id) = A \cup D \cup R \cup U \cup G
    BY <2>1
  <2> HIDE DEF A, D, R, U, G
  <2>9. dispatched[id] \in 0..1 /\ (id \in Open <=> dispatched[id] = 0)
    BY <1>1, ScheduleAssumption DEF QueueInv, QueueTypes, Open, Accepted
  <2>10. CASE id \notin Open
    <3>1. /\ id \notin Ids(adminQueue) /\ id \notin Ids(deferred)
          /\ id \notin Ids(deferredISC) /\ id \notin AtGate
          /\ \A u \in Users : id \notin InQueues[u]
      BY <2>3, <2>10 DEF Apart
    <3>2. Places(id) = {}
      BY <2>5, <2>6, <2>7, <2>8, <3>1
    <3>3. Cardinality(Places(id)) = 0
      BY <3>2, FS_EmptySet
    <3>4. dispatched[id] = 1
      BY <2>9, <2>10
    <3> QED
      BY <3>3, <3>4
  <2>11. CASE id \in Open
    <3>1. \/ id \in Ids(adminQueue) \/ id \in Ids(deferred)
          \/ id \in Ids(deferredISC) \/ id \in AtGate
          \/ \E u \in Users : id \in InQueues[u]
      BY <2>3, <2>11 DEF Apart
    <3>2. /\ id \in Ids(adminQueue) => /\ id \notin Ids(deferred)
                                       /\ id \notin Ids(deferredISC) /\ id \notin AtGate
                                       /\ \A u \in Users : id \notin InQueues[u]
          /\ id \in Ids(deferred) => /\ id \notin Ids(deferredISC) /\ id \notin AtGate
                                     /\ \A u \in Users : id \notin InQueues[u]
          /\ id \in Ids(deferredISC) => /\ id \notin AtGate
                                        /\ \A u \in Users : id \notin InQueues[u]
          /\ id \in AtGate => \A u \in Users : id \notin InQueues[u]
      BY <2>3 DEF Apart
    <3>3. \E p : Places(id) = {p}
      <4>1. CASE id \in Ids(adminQueue)
        BY <2>5, <2>6, <2>7, <2>8, <3>2, <4>1
      <4>2. CASE id \in Ids(deferred)
        BY <2>5, <2>6, <2>7, <2>8, <3>2, <4>2
      <4>3. CASE id \in Ids(deferredISC)
        BY <2>5, <2>6, <2>7, <2>8, <3>2, <4>3
      <4>4. CASE id \in AtGate
        BY <2>5, <2>6, <2>7, <2>8, <3>2, <4>4
      <4>5. CASE \E u \in Users : id \in InQueues[u]
        BY <2>5, <2>6, <2>7, <2>8, <3>2, <4>5
      <4> QED
        BY <3>1, <4>1, <4>2, <4>3, <4>4, <4>5
    <3>4. Cardinality(Places(id)) = 1
      BY <3>3, FS_Singleton
    <3>5. dispatched[id] = 0
      BY <2>9, <2>11
    <3> QED
      BY <3>4, <3>5
  <2> QED
    BY <2>10, <2>11
<1>2. Init => QueueInv
  BY QueueInit
<1>3. QueueInv /\ [Next]_vars => QueueInv'
  BY QueueNext
<1> QED
  BY <1>1, <1>2, <1>3, PTL DEF Spec

(* No set of users is larger than their number.                            *)
LEMMA CountUsers ==
  ASSUME NEW A \in SUBSET Users
  PROVE  Cardinality(A) <= N
<1>1. IsFiniteSet(1..N) /\ Cardinality(1..N) = N
  BY UserFacts, FS_Interval
<1> DEFINE B == {k \in 1..N : UserOrder[k] \in A}
           f == [k \in B |-> UserOrder[k]]
<1>2. B \subseteq 1..N
  OBVIOUS
<1>3. IsFiniteSet(B) /\ Cardinality(B) <= N
  BY <1>1, <1>2, FS_Subset
<1>4. f \in Bijection(B, A)
  BY UserFacts DEF Bijection, Injection, Surjection, IsInjective
<1>5. Cardinality(A) = Cardinality(B)
  BY <1>3, <1>4, FS_Bijection DEF ExistsBijection
<1> QED
  BY <1>3, <1>5

-----------------------------------------------------------------------------
(* The balance of the accounts *)

(* A step that touches no account.                                         *)
LEMMA SameAccounts ==
  ASSUME AccountInv, UNCHANGED <<account, served, phases>>
  PROVE  AccountInv'
<1>1. UNCHANGED <<credit, carry, consumed, active>>
  BY DEF account
<1>2. Held' = Held
  BY <1>1 DEF Held
<1>3. TokensConserved'
  BY <1>2 DEF AccountInv, TokensConserved
<1> QED
  BY <1>1, <1>3 DEF AccountInv, AccountTypes

(* What accounts with credits c, payments p and carried fractions r hold.  *)
LEMMA HeldOf ==
  ASSUME NEW c \in [Users -> Nat], NEW p \in [Users -> Nat], NEW r \in [Users -> Nat]
  PROVE  /\ [u \in Users |-> Scale * (c[u] + p[u]) + r[u]] \in [Users -> Int]
         /\ \A u \in Users : Scale * (c[u] + p[u]) \in Int
<1>1. \A u \in Users : c[u] + p[u] \in Int /\ r[u] \in Int
  OBVIOUS
<1>2. Scale \in Int
  BY ScheduleAssumption
<1>3. \A u \in Users : Scale * (c[u] + p[u]) \in Int
  BY <1>1, <1>2, Distribute
<1> QED
  BY <1>1, <1>3

(* The sum that TokensConserved is about is one of integers.               *)
LEMMA HeldType ==
  ASSUME AccountTypes
  PROVE  /\ Held \in [Users -> Int]
         /\ \A u \in Users : /\ Held[u] = Scale * (credit[u] + consumed[u]) + carry[u]
                             /\ Scale * (credit[u] + consumed[u]) \in Int
  BY HeldOf DEF Held, AccountTypes

(* A payment moves pages from what a user has to what it paid.             *)
LEMMA PayInv ==
  ASSUME AccountInv, NEW u \in Users, NEW n \in Nat, n <= credit[u], Pay(u, n),
         UNCHANGED <<carry, active, phases>>,
         \/ UNCHANGED served
         \/ served' = [served EXCEPT ![u] = @ + n]
  PROVE  AccountInv'
<1>1. AccountTypes
  BY DEF AccountInv
<1>2. \A v \in Users :
        /\ credit'[v] = IF v = u THEN credit[u] - n ELSE credit[v]
        /\ consumed'[v] = IF v = u THEN consumed[u] + n ELSE consumed[v]
        /\ served'[v] = served[v] \/ (v = u /\ served'[v] = served[v] + n)
  BY <1>1 DEF AccountTypes, Pay
<1>3. /\ credit' \in [Users -> Nat] /\ consumed' \in [Users -> Nat]
      /\ served' \in [Users -> Nat]
  BY <1>1 DEF AccountTypes, Pay
<1>4. \A v \in Users : credit'[v] + consumed'[v] = credit[v] + consumed[v]
  BY <1>1, <1>2 DEF AccountTypes
<1>5. Held' = Held
  BY <1>4 DEF Held
<1>6. TokensConserved'
  BY <1>5 DEF AccountInv, TokensConserved
<1>7. \A v \in Users : served'[v] <= consumed'[v]
  BY <1>1, <1>2 DEF AccountInv, AccountTypes
<1>8. \A v \in Users : ~active'[v] => credit'[v] = 0
  BY <1>1, <1>2 DEF AccountInv, AccountTypes
<1> QED
  BY <1>1, <1>3, <1>6, <1>7, <1>8 DEF AccountInv, AccountTypes

(* Activating a user takes nothing away, since it had nothing.             *)
LEMMA ActivateInv ==
  ASSUME AccountInv, NEW u, Activate(u), UNCHANGED <<carry, consumed, served, phases>>
  PROVE  AccountInv' /\ credit' = credit
<1>1. AccountTypes
  BY DEF AccountInv
<1>2. credit' = credit /\ active' \in [Users -> BOOLEAN]
      /\ \A v \in Users : active[v] => active'[v]
  <2>1. CASE u \in Users /\ ~active[u]
    <3>1. credit[u] = 0
      BY <2>1 DEF AccountInv
    <3>2. credit' = [credit EXCEPT ![u] = 0] /\ active' = [active EXCEPT ![u] = TRUE]
      BY <2>1 DEF Activate
    <3>3. credit' = credit
      BY <1>1, <3>1, <3>2 DEF AccountTypes
    <3> QED
      BY <1>1, <2>1, <3>2, <3>3 DEF AccountTypes
  <2>2. CASE ~(u \in Users /\ ~active[u])
    BY <1>1, <2>2 DEF Activate, AccountTypes
  <2> QED
    BY <2>1, <2>2
<1>3. Held' = Held
  BY <1>2 DEF Held
<1>4. TokensConserved'
  BY <1>3 DEF AccountInv, TokensConserved
<1> QED
  BY <1>1, <1>2, <1>4 DEF AccountInv, AccountTypes

(* What a gate charges is at most what there is.                           *)
LEMMA UseCreditInv ==
  ASSUME AccountInv, NEW u \in Users \cup {Admin}, NEW n \in Nat, UseCreditISC(u, n),
         UNCHANGED <<carry, active, phases, served>>
  PROVE  AccountInv'
<1>1. CASE u = Admin
  BY <1>1, SameAccounts DEF UseCreditISC, account
<1>2. CASE u # Admin
  <2> DEFINE m == IF n > credit[u] THEN credit[u] ELSE n
  <2>1. u \in Users /\ Pay(u, m)
    BY <1>2 DEF UseCreditISC
  <2>2. m \in Nat /\ m <= credit[u]
    BY <2>1 DEF AccountInv, AccountTypes
  <2> HIDE DEF m
  <2> QED
    BY <2>1, <2>2, PayInv
<1> QED
  BY <1>1, <1>2

(* The grant is what the share and the cap allow; the rest is carried.     *)
LEMMA GrantFacts ==
  ASSUME AccountTypes, NEW u \in Users, NEW s \in Nat, Share(u) = s
  PROVE  /\ Grant(u) \in Nat /\ CarryLeft(u) \in Nat
         /\ Scale * (credit[u] + Grant(u) + consumed[u]) + CarryLeft(u)
              = Scale * (credit[u] + consumed[u]) + s
<1>1. Scale \in Nat \ {0} /\ Cap \in Nat /\ credit[u] \in Nat /\ consumed[u] \in Nat
  BY ScheduleAssumption DEF AccountTypes
<1>2. s \div Scale \in Nat /\ Scale * (s \div Scale) <= s
  BY <1>1, DivFacts
<1>3. Headroom(u) \in Nat
  BY <1>1 DEF Headroom
<1>4. Grant(u) \in Nat /\ Grant(u) <= s \div Scale
  BY <1>2, <1>3 DEF Grant
<1>5. PICK g \in Nat : g = Grant(u)
  BY <1>4
<1>6. Scale * g <= Scale * (s \div Scale) /\ Scale * g \in Nat
  BY <1>1, <1>2, <1>4, <1>5, ScaleUp
<1>7. CarryLeft(u) = s - Scale * g
  BY <1>5 DEF CarryLeft
<1>8. CarryLeft(u) \in Nat
  <2>1. Scale * (s \div Scale) \in Int
    BY <1>1, <1>2
  <2> QED
    BY <1>2, <1>6, <1>7, <2>1
<1>9. Scale * (credit[u] + g + consumed[u]) = Scale * (credit[u] + consumed[u]) + Scale * g
  <2>1. credit[u] + g + consumed[u] = (credit[u] + consumed[u]) + g
    BY <1>1
  <2> QED
    BY <1>1, <2>1, Distribute
<1>10. Scale * (credit[u] + consumed[u]) \in Int
  BY <1>1
<1> QED
  BY <1>4, <1>5, <1>6, <1>7, <1>8, <1>9, <1>10

(* A phase hands out its whole budget, as credit or carried over.          *)
LEMMA RefillInv ==
  ASSUME AccountInv, Refill
  PROVE  AccountInv'
<1> DEFINE A == ActiveUsers
           share == Budget \div Cardinality(A)
<1>1. AccountTypes /\ TokensConserved /\ phases \in Nat
  BY DEF AccountInv
<1>2. /\ \A u \in Users : /\ credit'[u] = IF active[u] THEN credit[u] + Grant(u) ELSE credit[u]
                          /\ carry'[u] = IF active[u] THEN CarryLeft(u) ELSE carry[u]
      /\ credit' = [u \in Users |-> IF active[u] THEN credit[u] + Grant(u) ELSE credit[u]]
      /\ carry' = [u \in Users |-> IF active[u] THEN CarryLeft(u) ELSE carry[u]]
      /\ UNCHANGED <<consumed, active, served>>
      /\ phases' = IF A = {} THEN phases ELSE phases + 1
  BY DEF Refill
<1>3. A \in SUBSET Users /\ \A u \in Users : u \in A <=> active[u]
  BY DEF ActiveUsers
<1>4. IsFiniteSet(A) /\ Cardinality(A) \in Nat
  <2>1. IsFiniteSet(A)
    <3>1. \A u \in Users : Held[u] \in Int
      BY <1>1, HeldType
    <3> DEFINE z == [u \in Users |-> 0]
    <3>2. z \in [Users -> Int] /\ \A u \in Users : z[u] = z[u] + (IF u \in A THEN 0 ELSE 0)
      OBVIOUS
    <3> HIDE DEF z, A
    <3> QED
      BY <1>3, <3>2, TotalShares
  <2> QED
    BY <2>1, FS_CardinalityType
<1>5. CASE A = {}
  <2>1. \A u \in Users : ~active[u]
    BY <1>3, <1>5
  <2>2. credit' = credit /\ carry' = carry
    BY <1>1, <1>2, <2>1 DEF AccountTypes
  <2> QED
    BY <1>2, <1>5, <2>2, SameAccounts DEF account
<1>6. CASE A # {}
  <2>1. Cardinality(A) \in 1..N
    <3>1. Cardinality(A) # 0
      BY <1>4, <1>6, FS_EmptySet
    <3>2. Cardinality(A) <= N
      BY <1>3, CountUsers
    <3> QED
      BY <1>4, <3>1, <3>2, UserFacts
  <2>2. share \in Nat /\ Cardinality(A) * share = Budget /\ Budget \in Nat
    <3>1. PICK n \in 1..N : n = Cardinality(A)
      BY <2>1
    <3>2. n \in Nat \ {0} /\ Budget \in Nat
      BY ScheduleAssumption, UserFacts
    <3>3. Budget % n = 0
      BY ShareAssumption DEF N
    <3>4. Budget \div n \in Nat /\ n * (Budget \div n) = Budget
      BY <3>2, <3>3, DivFacts
    <3> QED
      BY <3>1, <3>2, <3>4
  <2> HIDE DEF share
  <2>3. ASSUME NEW u \in Users, active[u]
        PROVE  /\ Grant(u) \in Nat /\ CarryLeft(u) \in Nat
               /\ Scale * (credit[u] + Grant(u) + consumed[u]) + CarryLeft(u)
                    = Held[u] + share
    <3>1. Share(u) = share + carry[u]
      BY DEF Share, share
    <3>2. carry[u] \in Nat /\ Scale * (credit[u] + consumed[u]) \in Int
      BY <1>1, HeldType DEF AccountTypes
    <3>3. Held[u] = Scale * (credit[u] + consumed[u]) + carry[u]
      BY <1>1, HeldType
    <3>4. /\ Grant(u) \in Nat /\ CarryLeft(u) \in Nat
          /\ Scale * (credit[u] + Grant(u) + consumed[u]) + CarryLeft(u)
               = Scale * (credit[u] + consumed[u]) + (share + carry[u])
      BY <1>1, <2>2, <3>1, <3>2, GrantFacts
    <3> QED
      BY <2>2, <3>2, <3>3, <3>4
  <2>4. credit' \in [Users -> Nat] /\ carry' \in [Users -> Nat]
    BY <1>1, <1>2, <2>3 DEF AccountTypes
  <2>5. AccountTypes'
    BY <1>1, <1>2, <2>4 DEF AccountTypes
  <2>6. Held' \in [Users -> Int]
    BY <2>5, HeldOf DEF Held, AccountTypes
  <2>7. \A u \in Users : Held'[u] = Held[u] + (IF u \in A THEN share ELSE 0)
    <3> SUFFICES ASSUME NEW u \in Users
                 PROVE  Held'[u] = Held[u] + (IF u \in A THEN share ELSE 0)
      OBVIOUS
    <3>1. Held'[u] = Scale * (credit'[u] + consumed'[u]) + carry'[u]
      BY DEF Held
    <3>2. CASE active[u]
      BY <1>2, <1>3, <2>3, <3>1, <3>2
    <3>3. CASE ~active[u]
      <4>1. Held'[u] = Held[u]
        BY <1>2, <3>1, <3>3 DEF Held
      <4>2. Held[u] \in Int
        BY <1>1, HeldType
      <4> QED
        BY <1>3, <3>3, <4>1, <4>2
    <3> QED
      BY <3>2, <3>3
  <2>8. Total(Held') = Total(Held) + share * Cardinality(A)
    <3> HIDE DEF A
    <3> QED
      BY <1>1, <1>3, <2>2, <2>6, <2>7, HeldType, TotalShares
  <2>9. Total(Held') = Budget * phases + Budget
    BY <1>1, <1>4, <2>2, <2>8 DEF TokensConserved
  <2>10. Budget * phases + Budget = Budget * (phases + 1)
    BY <1>1, <2>2
  <2>11. TokensConserved'
    BY <1>2, <1>6, <2>9, <2>10 DEF TokensConserved
  <2>12. \A u \in Users : served'[u] <= consumed'[u] /\ (~active'[u] => credit'[u] = 0)
    BY <1>2 DEF AccountInv
  <2>13. phases' \in Nat
    BY <1>1, <1>2
  <2> QED
    BY <2>5, <2>11, <2>12, <2>13 DEF AccountInv
<1> QED
  BY <1>5, <1>6

(* The pages of the requests are natural numbers.                          *)
LEMMA PagesNat ==
  /\ Lengths \subseteq Nat
  /\ \A r \in Requests : r.pages \in Nat
<1>1. \A n \in Lengths : n \in 1..Cap
  BY ScheduleAssumption
<1>2. Lengths \subseteq Nat
  BY <1>1, ScheduleAssumption
<1>3. \A r \in Requests : r.pages \in Lengths
  BY DEF Requests
<1> QED
  BY <1>2, <1>3

(* The accounts are empty at the beginning.                                *)
LEMMA AccountInit == Init => AccountInv
<1> SUFFICES ASSUME Init PROVE AccountInv
  OBVIOUS
<1>1. AccountTypes
  BY DEF Init, AccountTypes
<1>2. Held \in [Users -> Int] /\ \A u \in Users : Held[u] = 0
  <2>1. \A u \in Users : credit[u] = 0 /\ consumed[u] = 0 /\ carry[u] = 0
    BY DEF Init
  <2>2. \A u \in Users : Held[u] = Scale * (credit[u] + consumed[u]) + carry[u]
    BY <1>1, HeldType
  <2> QED
    BY <1>1, <2>1, <2>2, HeldType, ScheduleAssumption
<1>3. Total(Held) = 0 /\ Budget * phases = 0
  BY <1>2, TotalZero, ScheduleAssumption DEF Init
<1> QED
  BY <1>1, <1>3 DEF Init, AccountInv, TokensConserved

(* A reset empties them again.                                             *)
LEMMA ResetInv ==
  ASSUME AccountInv, Reset
  PROVE  AccountInv'
<1>1. AccountTypes'
  BY DEF Reset, AccountTypes
<1>2. Held' \in [Users -> Int] /\ \A u \in Users : Held'[u] = 0
  <2>1. Held' \in [Users -> Int]
    BY <1>1, HeldOf DEF Held, AccountTypes
  <2>2. \A u \in Users : Held'[u] = Scale * (credit'[u] + consumed'[u]) + carry'[u]
    BY DEF Held
  <2>3. \A u \in Users : credit'[u] = 0 /\ consumed'[u] = 0 /\ carry'[u] = 0
    BY DEF Reset
  <2> QED
    BY <2>1, <2>2, <2>3, ScheduleAssumption
<1>3. Total(Held') = 0 /\ Budget * phases' = 0
  BY <1>2, TotalZero, ScheduleAssumption DEF Reset
<1> QED
  BY <1>1, <1>3 DEF Reset, AccountInv, TokensConserved

(* Every step keeps the balance.                                           *)
LEMMA AccountNext == QueueInv /\ AccountInv /\ [Next]_vars => AccountInv'
<1> SUFFICES ASSUME QueueInv, AccountInv, [Next]_vars PROVE AccountInv'
  OBVIOUS
<1>1. QueueTypes /\ Walk /\ AccountTypes
  BY DEF QueueInv, AccountInv
<1>2. CASE UNCHANGED vars
  BY <1>2, SameAccounts DEF vars, history
<1>3. CASE \/ AdminDone \/ RefillDone \/ DeferredDone \/ ResumeDone \/ TickDone
           \/ TryAgain \/ Return \/ Timer \/ TimerDone \/ Advance
           \/ SletEnd \/ GateWait \/ GateTicked
  <2>1. UNCHANGED <<account, served, phases>>
    BY <1>3 DEF AdminDone, RefillDone, DeferredDone, ResumeDone, TickDone, TryAgain,
                Return, Timer, TimerDone, Advance, SletEnd, GateWait, GateTicked, history
  <2> QED
    BY <2>1, SameAccounts
<1>4. CASE AdminDispatch
  <2>1. Head(adminQueue).uid = Admin
    <3>1. adminQueue \in Seq(Requests) /\ adminQueue # <<>> /\ Of(adminQueue, {Admin})
      BY <1>1, <1>4 DEF QueueTypes, Walk, AdminDispatch
    <3> QED
      BY <3>1, TakeOf
  <2>2. UNCHANGED <<account, served, phases>>
    BY <1>4, <2>1 DEF AdminDispatch, DispatchICL
  <2> QED
    BY <2>2, SameAccounts
<1>5. CASE VisitDeferred
  <2> DEFINE r == Head(deferred)
  <2>1. deferred # <<>> /\ deferred \in Seq(Requests) /\ Of(deferred, Users)
    BY <1>1, <1>5 DEF QueueTypes, Walk, VisitDeferred
  <2>2. r \in Requests /\ r.uid \in Users
    BY <2>1, TakeOf
  <2>3. r.pages \in Nat /\ r.uid # Admin
    BY <2>2, PagesNat, UserFacts
  <2>4. /\ UNCHANGED <<carry, active, phases>>
        /\ \/ /\ r.pages <= credit[r.uid] /\ Pay(r.uid, r.pages)
              /\ served' = [served EXCEPT ![r.uid] = @ + r.pages]
           \/ UNCHANGED <<credit, consumed, served>>
    BY <1>1, <1>5, <2>2, <2>3 DEF VisitDeferred, DispatchICL, AccountTypes
  <2> HIDE DEF r
  <2> QED
    BY <2>2, <2>3, <2>4, PayInv, SameAccounts DEF account
<1>6. CASE VisitISC
  <2> DEFINE r == Head(deferredISC)
  <2>1. deferredISC # <<>> /\ deferredISC \in Seq(Requests) /\ Of(deferredISC, Users)
    BY <1>1, <1>6 DEF QueueTypes, Walk, VisitISC
  <2>2. r \in Requests /\ r.uid \in Users
    BY <2>1, TakeOf
  <2>3. r.pages \in Nat
    BY <2>2, PagesNat
  <2>4. /\ UNCHANGED <<carry, active, phases, served>>
        /\ \/ r.pages <= credit[r.uid] /\ Pay(r.uid, r.pages)
           \/ UNCHANGED <<credit, consumed>>
    BY <1>1, <1>6, <2>2, <2>3 DEF VisitISC, AccountTypes
  <2> HIDE DEF r
  <2> QED
    BY <2>2, <2>3, <2>4, PayInv, SameAccounts DEF account
<1>7. CASE VisitUser
  <2> DEFINE u == Head(scan)
             r == Head(queue[u])
  <2>1. u \in Users
    <3>1. scan \in Seq(Users) /\ scan # <<>>
      BY <1>1, <1>7 DEF QueueTypes, VisitUser
    <3> QED
      BY <3>1
  <2>2. ASSUME queue[u] # <<>>
        PROVE  r \in Requests /\ r.uid = u /\ r.pages \in Nat /\ r.uid # Admin
    <3>1. queue[u] \in Seq(Requests) /\ Of(queue[u], {u})
      BY <1>1, <2>1 DEF QueueTypes, Walk
    <3>2. r.uid = u /\ r \in Requests
      BY <2>2, <3>1, TakeOf
    <3> QED
      BY <2>1, <3>2, PagesNat, UserFacts
  <2>3. /\ UNCHANGED <<carry, active, phases>>
        /\ \/ /\ queue[u] # <<>> /\ r.pages <= credit[u] /\ Pay(u, r.pages)
              /\ served' = [served EXCEPT ![u] = @ + r.pages]
           \/ UNCHANGED <<credit, consumed, served>>
    BY <1>1, <1>7, <2>1, <2>2 DEF VisitUser, DispatchICL, AccountTypes
  <2> HIDE DEF u, r
  <2> QED
    BY <2>1, <2>2, <2>3, PayInv, SameAccounts DEF account
<1>8. ASSUME NEW u \in Users \cup {Admin}, NEW n \in Lengths, Submit(u, n)
      PROVE  AccountInv'
  BY <1>8, ActivateInv DEF Submit
<1>9. ASSUME NEW u \in Users \cup {Admin}, NEW n \in Lengths, IscResult(u, n)
      PROVE  AccountInv'
  BY <1>9, PagesNat, UseCreditInv, SameAccounts DEF IscResult, account
<1>10. ASSUME NEW u, NEW n, NEW t, GateEnter(u, n, t)
       PROVE  AccountInv'
  BY <1>10, ActivateInv DEF GateEnter
<1>11. CASE GateOpen
  <2>1. req \in Requests /\ req.uid \in Users
    BY <1>1, <1>11 DEF Walk, GateOpen
  <2>2. req.pages \in Nat
    BY <2>1, PagesNat
  <2> QED
    BY <1>11, <2>1, <2>2, UseCreditInv, SameAccounts DEF GateOpen, account
<1>12. CASE Tick
  BY <1>3, <1>4, <1>5, <1>6, <1>7, <1>12, RefillInv DEF Tick
<1>13. CASE \/ \E u \in Users, n \in Lengths : SletRun(u, n)
            \/ \E n \in Lengths : SletRead(n)
  BY <1>10, <1>13 DEF SletRun, SletRead
<1> QED
  BY <1>2, <1>3, <1>8, <1>9, <1>11, <1>12, <1>13, ResetInv DEF Next

(* The refill neither makes nor loses pages, for any number of users, any  *)
(* share of the budget and any cap: what the cap cuts off is carried over, *)
(* and payments, resets and activations keep the balance.                  *)
THEOREM RefillConservesTokens == Spec => []TokensConserved
<1> DEFINE Inv == QueueInv /\ AccountInv
<1>1. Init => Inv
  BY QueueInit, AccountInit
<1>2. Inv /\ [Next]_vars => Inv'
  BY QueueNext, AccountNext
<1>3. Inv => TokensConserved
  BY DEF AccountInv
<1> QED
  BY <1>1, <1>2, <1>3, PTL DEF Spec

-----------------------------------------------------------------------------
(* The pace of the refill *)

(* The later of two ticks.                                                 *)
LEMMA MaxOfFacts ==
  ASSUME NEW a \in Nat, NEW b \in Nat
  PROVE  MaxOf(a, b) \in Nat /\ a <= MaxOf(a, b) /\ b <= MaxOf(a, b)
  BY DEF MaxOf

(* A step after which the clocks stand later and the refill where it was.  *)
LEMMA LaterPace ==
  ASSUME PaceInv, UNCHANGED <<active, timerStarted, next, phases, epoch, resets>>,
         clock' \in Nat, now' \in Nat, simTick' \in Nat, reached' \in Nat,
         reached <= reached', clock' <= reached', now' <= reached'
  PROVE  PaceInv'
<1>1. ActiveUsers' = ActiveUsers
  BY DEF ActiveUsers
<1>2. Period * phases \in Nat
  BY ScheduleAssumption DEF PaceInv, ClockTypes
<1>3. ASSUME resets' = 0, timerStarted'
      PROVE  /\ ActiveUsers' # {} /\ next' = epoch' + Period * phases' + Period
             /\ epoch' + Period * phases' <= reached'
  BY <1>1, <1>2, <1>3 DEF PaceInv, ClockTypes
<1>4. ASSUME resets' = 0, ~timerStarted'
      PROVE  phases' = 0 /\ epoch' = 0
  BY <1>4 DEF PaceInv
<1> QED
  BY <1>3, <1>4 DEF PaceInv, ClockTypes

(* The first activity of a user, at the present or before.                 *)
LEMMA ActivatePace ==
  ASSUME PaceInv, active \in [Users -> BOOLEAN], NEW u, Activate(u),
         UNCHANGED <<phases, resets>>,
         clock' = clock, now' \in Nat, simTick' \in Nat, reached' \in Nat,
         reached <= reached', now' <= reached'
  PROVE  PaceInv'
<1>1. Period * phases \in Nat /\ Period \in Nat
  BY ScheduleAssumption DEF PaceInv, ClockTypes
<1>2. CASE u \in Users /\ ~active[u] /\ ~timerStarted
  <2>1. timerStarted' /\ next' = clock + Period /\ epoch' = clock /\ active'[u]
    BY <1>2 DEF Activate, FirstPhase
  <2>2. ActiveUsers' # {}
    BY <1>2, <2>1 DEF ActiveUsers
  <2>3. timerStarted' = TRUE /\ timerStarted' \in BOOLEAN
    BY <1>2 DEF Activate
  <2>4. resets = 0 => phases = 0
    BY <1>2 DEF PaceInv
  <2>5. resets = 0 => epoch' + Period * phases' = clock
    BY <2>1, <2>4, <1>1 DEF PaceInv, ClockTypes
  <2> QED
    BY <1>1, <2>1, <2>2, <2>3, <2>5 DEF PaceInv, ClockTypes
<1>3. CASE u \in Users /\ ~active[u] /\ timerStarted
  <2>1. UNCHANGED <<timerStarted, next, epoch>> /\ active' = [active EXCEPT ![u] = TRUE]
    BY <1>3 DEF Activate, timer
  <2>2. u \in ActiveUsers'
    BY <1>3, <2>1 DEF ActiveUsers
  <2> QED
    BY <1>1, <1>3, <2>1, <2>2 DEF PaceInv, ClockTypes
<1>4. CASE ~(u \in Users /\ ~active[u])
  <2>1. UNCHANGED <<active, timerStarted, next, epoch>>
    BY <1>4 DEF Activate, timer
  <2>2. clock' \in Nat /\ clock' <= reached'
    BY DEF PaceInv, ClockTypes
  <2> QED
    BY <2>1, <2>2, LaterPace
<1> QED
  BY <1>2, <1>3, <1>4

(* One phase: it is due, so it is not ahead of the time reached.           *)
LEMMA RefillPace ==
  ASSUME PaceInv, Refill
  PROVE  PaceInv'
<1>1. /\ timerStarted /\ now >= next /\ next' = next + Period
      /\ phases' = IF ActiveUsers = {} THEN phases ELSE phases + 1
      /\ UNCHANGED <<clock, now, active, timerStarted, simTick, epoch, reached, resets>>
  BY DEF Refill, RefillDue
<1>2. ActiveUsers' = ActiveUsers
  BY <1>1 DEF ActiveUsers
<1>3. ClockTypes /\ Period \in Nat /\ Period * phases \in Nat
  BY ScheduleAssumption DEF PaceInv, ClockTypes
<1>4. Period * (phases + 1) = Period * phases + Period
  BY <1>3 DEF ClockTypes
<1>5. ClockTypes'
  BY <1>1, <1>3 DEF ClockTypes
<1>6. ASSUME resets' = 0
      PROVE  /\ ActiveUsers' # {} /\ next' = epoch' + Period * phases' + Period
             /\ epoch' + Period * phases' <= reached'
  <2>1. /\ ActiveUsers # {} /\ next = epoch + Period * phases + Period
        /\ now <= reached
    BY <1>1, <1>6 DEF PaceInv
  <2>2. phases' = phases + 1
    BY <1>1, <2>1
  <2>3. Period * phases' = Period * phases + Period
    BY <1>4, <2>2
  <2> QED
    BY <1>1, <1>2, <1>3, <2>1, <2>3 DEF ClockTypes
<1> QED
  BY <1>1, <1>5, <1>6 DEF PaceInv

(* Every step keeps the pace.                                              *)
LEMMA PaceNext == QueueInv /\ AccountInv /\ PaceInv /\ [Next]_vars => PaceInv'
<1> SUFFICES ASSUME QueueInv, AccountInv, PaceInv, [Next]_vars PROVE PaceInv'
  OBVIOUS
<1>1. /\ ClockTypes /\ clock <= reached /\ now <= reached
      /\ IclLatency \in Nat /\ Period \in Nat /\ Step \in Nat
  BY ScheduleAssumption DEF PaceInv
<1> DEFINE still == UNCHANGED <<active, timerStarted, next, phases, epoch, resets>>
<1>2. CASE \/ AdminDone \/ RefillDone \/ DeferredDone \/ ResumeDone \/ TickDone \/ VisitISC
           \/ Return \/ TimerDone \/ SletEnd \/ GateTicked
           \/ \E u \in Users \cup {Admin}, n \in Lengths : IscResult(u, n)
           \/ UNCHANGED vars
  <2>1. still /\ UNCHANGED <<clock, reached, simTick>> /\ (now' = now \/ now' = clock)
    BY <1>2 DEF AdminDone, RefillDone, DeferredDone, ResumeDone, TickDone, VisitISC, Return,
                TimerDone, SletEnd, GateTicked, IscResult, vars, account, timer, history
  <2> QED
    BY <1>1, <2>1, LaterPace DEF ClockTypes
<1>3. CASE AdminDispatch \/ VisitDeferred \/ VisitUser
  <2>1. /\ still /\ UNCHANGED <<clock, simTick>> /\ reached' = MaxOf(now', reached)
        /\ now' = now \/ now' = now + IclLatency
    BY <1>3 DEF AdminDispatch, VisitDeferred, VisitUser, DispatchICL, account, timer
  <2>2. now' \in Nat
    BY <1>1, <2>1 DEF ClockTypes
  <2>3. reached' \in Nat /\ reached <= reached' /\ now' <= reached'
    BY <1>1, <2>1, <2>2, MaxOfFacts DEF ClockTypes
  <2> QED
    BY <1>1, <2>1, <2>2, <2>3, LaterPace DEF ClockTypes
<1>4. CASE TryAgain \/ Timer \/ GateWait
  <2>1. PICK t \in Nat : /\ still /\ clock' = clock /\ simTick' \in Nat
                         /\ now' = t /\ reached' = MaxOf(t, reached)
    <3>1. CASE TryAgain
      BY <1>1, <3>1 DEF TryAgain, EnterTick, ClockTypes, account, timer
    <3>2. CASE Timer
      BY <1>1, <3>2 DEF Timer, EnterTick, ClockTypes, account
    <3>3. CASE GateWait
      BY <1>1, <3>3 DEF GateWait, EnterTick, ClockTypes, account, timer
    <3> QED
      BY <1>4, <3>1, <3>2, <3>3
  <2>2. reached' \in Nat /\ reached <= reached' /\ now' <= reached'
    BY <1>1, <2>1, MaxOfFacts DEF ClockTypes
  <2> QED
    BY <1>1, <2>1, <2>2, LaterPace DEF ClockTypes
<1>5. CASE Advance
  <2>1. /\ still /\ clock' = clock + 1 /\ now' = clock + 1 /\ simTick' = simTick
        /\ reached' = MaxOf(clock + 1, reached)
    BY <1>5 DEF Advance, account, timer
  <2>2. reached' \in Nat /\ reached <= reached' /\ now' <= reached' /\ clock' \in Nat
    BY <1>1, <2>1, MaxOfFacts DEF ClockTypes
  <2> QED
    BY <1>1, <2>1, <2>2, LaterPace DEF ClockTypes
<1>6. CASE GateOpen
  <2>1. /\ still /\ UNCHANGED <<clock, now>> /\ simTick' = simTick + IclLatency
        /\ reached' = MaxOf(simTick', reached)
    BY <1>6 DEF GateOpen, timer
  <2>2. simTick' \in Nat
    BY <1>1, <2>1 DEF ClockTypes
  <2>3. reached' \in Nat /\ reached <= reached'
    BY <1>1, <2>1, <2>2, MaxOfFacts DEF ClockTypes
  <2> QED
    BY <1>1, <2>1, <2>2, <2>3, LaterPace DEF ClockTypes
<1>7. ASSUME NEW u \in Users \cup {Admin}, NEW n \in Lengths, Submit(u, n)
      PROVE  PaceInv'
  <2>1. /\ Activate(u) /\ UNCHANGED <<clock, simTick, phases, resets>>
        /\ now' = clock /\ reached' = MaxOf(clock, reached)
    BY <1>7 DEF Submit, EnterTick
  <2>2. reached' \in Nat /\ reached <= reached' /\ now' <= reached'
    BY <1>1, <2>1, MaxOfFacts DEF ClockTypes
  <2> QED
    BY <1>1, <2>1, <2>2, ActivatePace DEF ClockTypes, AccountInv, AccountTypes
<1>8. ASSUME NEW u, NEW n, NEW t \in Nat, GateEnter(u, n, t)
      PROVE  PaceInv'
  <2>1. Activate(u) /\ UNCHANGED <<clock, now, reached, phases, resets>> /\ simTick' = t
    BY <1>8 DEF GateEnter
  <2> QED
    BY <1>1, <2>1, ActivatePace DEF ClockTypes, AccountInv, AccountTypes
<1>9. CASE \/ \E u \in Users, n \in Lengths : SletRun(u, n)
           \/ \E n \in Lengths : SletRead(n)
  BY <1>1, <1>8, <1>9 DEF SletRun, SletRead, ClockTypes
<1>10. CASE Reset
  <2>1. /\ resets' = resets + 1 /\ next' = 0 /\ phases' = 0 /\ epoch' = clock
        /\ UNCHANGED <<clock, now, reached, simTick, timerStarted>>
    BY <1>10 DEF Reset
  <2>2. resets' # 0
    BY <1>1, <2>1 DEF ClockTypes
  <2> QED
    BY <1>1, <2>1, <2>2 DEF PaceInv, ClockTypes
<1>11. CASE Tick
  BY <1>2, <1>3, <1>11, RefillPace DEF Tick
<1> QED
  BY <1>2, <1>4, <1>5, <1>6, <1>7, <1>9, <1>10, <1>11 DEF Next

(* Until the statistics are reset, the host pages that reached the cache   *)
(* layer never outrun the device rate: what was served was paid, what was  *)
(* paid came from the phases, and the phases are a period apart.           *)
THEOREM ThroughputNeverExceeded == Spec => []BoundedUntilReset
<1> DEFINE Inv == QueueInv /\ AccountInv /\ PaceInv
<1>1. Init => Inv
  <2>1. ASSUME Init PROVE PaceInv
    <3>1. /\ clock = 0 /\ now = 0 /\ reached = 0 /\ simTick = 0 /\ epoch = 0 /\ next = 0
          /\ phases = 0 /\ resets = 0 /\ timerStarted = FALSE
      BY <2>1, Zenon DEF Init
    <3>2. ClockTypes /\ clock <= reached /\ now <= reached
      <4>1. clock \in Nat /\ now \in Nat /\ reached \in Nat /\ simTick \in Nat
        BY <3>1
      <4>2. epoch \in Nat /\ next \in Nat /\ phases \in Nat /\ resets \in Nat
        BY <3>1
      <4>3. timerStarted \in BOOLEAN
        BY <3>1
      <4>4. clock <= reached /\ now <= reached
        BY <3>1
      <4> QED
        BY <4>1, <4>2, <4>3, <4>4 DEF ClockTypes
    <3>3. ~timerStarted
      BY <3>1
    <3> QED
      BY <3>1, <3>2, <3>3, Zenon DEF PaceInv
  <2> QED
    BY <2>1, QueueInit, AccountInit
<1>2. Inv /\ [Next]_vars => Inv'
  BY QueueNext, AccountNext, PaceNext
<1>3. ASSUME AccountInv, PaceInv
      PROVE  BoundedUntilReset
  <2> SUFFICES ASSUME resets = 0
               PROVE  Scale * Period * Total(served) <= Budget * (reached - epoch)
    BY DEF BoundedUntilReset, ThroughputBounded
  <2>1. /\ AccountTypes /\ TokensConserved /\ ClockTypes
        /\ Scale \in Nat /\ Period \in Nat /\ Budget \in Nat
    BY <1>3, ScheduleAssumption DEF AccountInv, PaceInv
  <2>2. ASSUME NEW u \in Users
        PROVE  Scale * served[u] <= Held[u]
    <3>1. /\ served[u] \in Nat /\ credit[u] \in Nat /\ consumed[u] \in Nat /\ carry[u] \in Nat
          /\ served[u] <= credit[u] + consumed[u]
      BY <1>3, <2>1 DEF AccountInv, AccountTypes
    <3>2. Scale * served[u] <= Scale * (credit[u] + consumed[u])
      BY <2>1, <3>1, ScaleUp
    <3>3. Scale * (credit[u] + consumed[u]) \in Int /\ Scale * served[u] \in Int
      BY <2>1, <3>1
    <3>4. Held[u] = Scale * (credit[u] + consumed[u]) + carry[u]
      BY DEF Held
    <3> QED
      BY <3>1, <3>2, <3>3, <3>4
  <2>3. /\ Scale * Total(served) <= Total(Held)
        /\ Total(served) \in Int /\ Total(Held) \in Int
    <3>1. served \in [Users -> Int] /\ Held \in [Users -> Int]
      BY <2>1, HeldType DEF AccountTypes
    <3> QED
      BY <2>1, <2>2, <3>1, TotalBound
  <2>4. Scale * Total(served) <= Budget * phases
    BY <2>1, <2>3 DEF TokensConserved
  <2>5. Period * phases <= reached - epoch /\ phases \in Nat /\ reached - epoch \in Int
        /\ Period * phases \in Int
    <3>1. reached \in Nat /\ epoch \in Nat /\ phases \in Nat
      BY <2>1 DEF ClockTypes
    <3>2. Period * phases \in Int
      BY <2>1, <3>1
    <3>3. CASE timerStarted
      BY <1>3, <3>1, <3>2, <3>3 DEF PaceInv
    <3>4. CASE ~timerStarted
      <4>1. phases = 0 /\ epoch = 0
        BY <1>3, <3>4 DEF PaceInv
      <4> QED
        BY <2>1, <3>1, <3>2, <4>1
    <3> QED
      BY <3>1, <3>2, <3>3, <3>4
  <2>6. Period * (Scale * Total(served)) <= Period * (Budget * phases)
    BY <2>1, <2>3, <2>4, <2>5, ScaleUp
  <2>7. Budget * (Period * phases) <= Budget * (reached - epoch)
    BY <2>1, <2>5, ScaleUp
  <2>8. Scale * Period * Total(served) = Period * (Scale * Total(served))
    BY <2>1, <2>3, Commute
  <2>9. Period * (Budget * phases) = Budget * (Period * phases)
    BY <2>1, <2>5, Swap
  <2>10. Period * (Scale * Total(served)) \in Int /\ Budget * (Period * phases) \in Int
         /\ Budget * (reached - epoch) \in Int
    BY <2>1, <2>3, <2>5
  <2> QED
    BY <2>6, <2>7, <2>8, <2>9, <2>10
<1> QED
  BY <1>1, <1>2, <1>3, PTL DEF Spec

=============================================================================
