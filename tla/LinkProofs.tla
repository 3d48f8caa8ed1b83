----------------------------- MODULE LinkProofs -----------------------------
(***************************************************************************)
(* The driver of either link sees a command complete only when it is, for  *)
(* every list of commands it may issue (CompletedIsDone).                  *)
(*                                                                         *)
(* A command waits in one place: in the queue of requests, in a callback   *)
(* under way or in a response.  While it does the bit of its slot is set   *)
(* (PxSACT or PxCI of SATA, the doorbell of UFS), and no later command has *)
(* the slot; the step that clears the bit is the last one.                 *)
(***************************************************************************)
EXTENDS MCHostCommands, FiniteSetTheorems, WellFoundedInduction, TLAPS

-----------------------------------------------------------------------------
(* The invariant *)

Slot(j) == jobs.jobs[j].slot
Kind(j) == jobs.jobs[j].kind
Jobs == 1..issued
Open == Jobs \ complete
Latest(j) == \A k \in Jobs : Slot(k) = Slot(j) => k <= j

(* Both links: what the driver issued and what waits to be fetched.  The   *)
(* outstanding command of a slot is the latest one in it.                  *)
LinkInv(kinds) ==
  /\ jobs.jobs \in LinkCommands(kinds)
  /\ issued \in Nat /\ issued <= Len(jobs.jobs)
  /\ complete \subseteq Jobs /\ linkMoved \subseteq Jobs
  /\ requests \in Seq(Nat)
  /\ \A i \in DOMAIN requests : \E j \in Jobs : Slot(j) = requests[i]
  /\ \A j \in Open : Latest(j)

-----------------------------------------------------------------------------
(* SATA *)

IsQueued(j) == Kind(j) \in S!Queued
SPieces == {"header", "request", "prdt", "notice", "nandRead", "out", "sdb", "in",
            "nandWrite", "flush"}
Together(p, q) == p = q \/ {p, q} \subseteq {"request", "prdt"}

(* The pieces a command may have under way.                                *)
Belongs(j, p) ==
  \/ p \in {"header", "request", "prdt"}
  \/ p = "notice" /\ IsQueued(j)
  \/ p = "nandRead" /\ Kind(j) \in {"read", "readq"}
  \/ p = "out" /\ Kind(j) \in {"read", "readq", "identify"}
  \/ p = "sdb" /\ Kind(j) = "readq" /\ j \in linkMoved
  \/ p \in {"in", "nandWrite"} /\ Kind(j) \in {"write", "writeq"}
  \/ p = "flush" /\ Kind(j) = "flush"

Responses == [slot : Nat, fis : {"d2h", "setup", "bits", "signal"}, then : Nat]
Waits(j) == \E i \in DOMAIN responses.queue : responses.queue[i].then = j
Answering(s) == \E i \in DOMAIN responses.queue : responses.queue[i].slot = s

PlaceInv ==
  /\ pending \subseteq Jobs \X SPieces
  /\ \A j \in Jobs, p \in SPieces : <<j, p>> \in pending => Belongs(j, p)
  /\ responses = [queue |-> responses.queue, writes |-> responses.writes]
  /\ responses.queue \in Seq(Responses)

(* A queued command is answered by the bit of its slot in PxSACT.  Until   *)
(* then it is in one place.                                                *)
SHolds(j, p) == IsQueued(j) /\ (p = "notice" => Kind(j) = "writeq")
BitInv ==
  /\ \A j \in Jobs : IsQueued(j) /\ j \notin linkMoved => Slot(j) \in sact
  /\ \A j \in Jobs, p \in SPieces : <<j, p>> \in pending /\ SHolds(j, p) =>
       /\ Slot(j) \in sact /\ j \notin complete /\ ~Waits(j)
       /\ \A q \in SPieces : <<j, q>> \in pending /\ SHolds(j, q) => Together(p, q)
  /\ \A i \in DOMAIN responses.queue :
       LET j == responses.queue[i].then IN
       j # 0 => /\ j \in Jobs /\ Kind(j) = "writeq" /\ Slot(j) \in sact /\ j \notin complete
                /\ \A k \in DOMAIN responses.queue : responses.queue[k].then = j => k = i
  /\ \A i \in DOMAIN requests, j \in Jobs :
       requests[i] = Slot(j) /\ IsQueued(j) /\ Latest(j) =>
         /\ Slot(j) \in sact /\ j \notin complete /\ ~Waits(j)
         /\ \A p \in SPieces : <<j, p>> \in pending => ~SHolds(j, p)
         /\ \A k \in DOMAIN requests : requests[k] = requests[i] => k = i

(* The bit of a slot other than 0 in PxCI is cleared by the one response   *)
(* of its command.                                                         *)
CHolds(j, p) == /\ Slot(j) # 0
                /\ IsQueued(j) => p \in {"header", "request", "prdt", "notice"}
IssueInv ==
  /\ \A s \in ci : \E j \in Open : Slot(j) = s
  /\ \A j \in Jobs : ~IsQueued(j) /\ Slot(j) # 0 /\ j \notin linkMoved => Slot(j) \in ci
  /\ \A j \in Jobs, p \in SPieces : <<j, p>> \in pending /\ CHolds(j, p) =>
       /\ Slot(j) \in ci /\ j \notin complete /\ ~Answering(Slot(j))
       /\ \A q \in SPieces : <<j, q>> \in pending /\ CHolds(j, q) => Together(p, q)
  /\ \A i \in DOMAIN responses.queue :
       LET s == responses.queue[i].slot IN
       s # 0 => /\ s \in ci
                /\ \A k \in DOMAIN responses.queue : responses.queue[k].slot = s => k = i
                /\ \A j \in Open : Slot(j) = s /\ ~IsQueued(j) => j \in linkMoved
  /\ \A i \in DOMAIN requests : requests[i] # 0 =>
       /\ requests[i] \in ci /\ ~Answering(requests[i])
       /\ \A k \in DOMAIN requests : requests[k] = requests[i] => k = i
       /\ \A j \in Open, p \in SPieces :
            Slot(j) = requests[i] /\ <<j, p>> \in pending => ~CHolds(j, p)

SATAInv == LinkInv(S!Kinds) /\ jobs \in SATAWorkloads /\ PlaceInv /\ BitInv /\ IssueInv
           /\ S!CompletedIsDone

-----------------------------------------------------------------------------
(* UFS *)

UPieces == {"descriptor", "request", "prdt", "nandRead", "in", "out", "nandWrite",
            "flush", "cpu", "dummy", "response", "status"}
HasData(j) == Kind(j) \in {"read", "write", "sync"} \union U!Buffers
IsDone(j) == j \in written /\ (HasData(j) => j \in linkMoved)

(* Every command is in one place until its doorbell is cleared.            *)
BellInv ==
  /\ pending \subseteq Jobs \X UPieces /\ taken = doorbell
  /\ \A s \in doorbell : \E j \in Open : Slot(j) = s
  /\ \A j \in Jobs : IsDone(j) \/ Slot(j) \in doorbell
  /\ \A j \in Jobs, p \in UPieces : <<j, p>> \in pending /\ p # "dummy" =>
       /\ Slot(j) \in doorbell \ finished /\ j \notin complete
       /\ p \in {"cpu", "response", "status"} /\ HasData(j) => j \in linkMoved
       /\ \A q \in UPieces : <<j, q>> \in pending /\ q # "dummy" => Together(p, q)
  /\ \A i \in DOMAIN requests :
       /\ requests[i] \in doorbell \ finished
       /\ \A k \in DOMAIN requests : requests[k] = requests[i] => k = i
       /\ \A j \in Open, p \in UPieces :
            Slot(j) = requests[i] /\ <<j, p>> \in pending => p = "dummy"
  /\ \A s \in finished : s \in doorbell /\ \A j \in Open : Slot(j) = s => IsDone(j)

UFSInv == LinkInv(DOMAIN U!Starts) /\ jobs \in UFSWorkloads /\ BellInv /\ U!CompletedIsDone

(* Either link, whichever is there.                                        *)
LinksInv == /\ unit = "sata" => SATAInv
            /\ unit = "ufs" => UFSInv

-----------------------------------------------------------------------------
(* Slots *)

(* Among the commands issued in a slot there is a latest.                  *)
LEMMA LatestExists ==
  ASSUME issued \in Nat, NEW s, NEW k \in Jobs, Slot(k) = s
  PROVE  \E j \in Jobs : Slot(j) = s /\ Latest(j)
<1> DEFINE Left == {n \in Nat : \E j \in Jobs : Slot(j) = s /\ n = issued - j}
<1>1. Left \subseteq Nat /\ issued - k \in Left
  BY DEF Jobs
<1>2. PICK n \in Left : \A m \in Left : ~ (<<m, n>> \in OpToRel(<, Nat))
  <2> HIDE DEF Left
  <2> QED
    BY <1>1, NatLessThanWellFounded, WFMin
<1>3. PICK j \in Jobs : Slot(j) = s /\ n = issued - j
  BY <1>2
<1>4. ASSUME NEW m \in Jobs, Slot(m) = Slot(j) PROVE m <= j
  <2>1. issued - m \in Left
    BY <1>3, <1>4 DEF Jobs
  <2>2. ~ (issued - m < n)
    BY <1>2, <2>1 DEF OpToRel
  <2> QED
    BY <1>3, <2>2 DEF Jobs
<1> QED
  BY <1>3, <1>4 DEF Latest

(* JobOf finds it.                                                         *)
LEMMA JobOfFact ==
  ASSUME issued \in Nat, NEW s, NEW k \in Jobs, Slot(k) = s
  PROVE  /\ S!JobOf(s) \in Jobs /\ Slot(S!JobOf(s)) = s /\ Latest(S!JobOf(s))
         /\ U!JobOf(s) = S!JobOf(s)
<1> DEFINE Fits(j) == /\ jobs.jobs[j].slot = s
                      /\ \A m \in (j + 1)..issued : jobs.jobs[m].slot # s
           c == CHOOSE j \in 1..issued : Fits(j)
<1>1. S!JobOf(s) = c /\ U!JobOf(s) = c
  BY DEF S!JobOf, U!JobOf, S!jobs, U!jobs
<1>2. PICK j \in Jobs : Slot(j) = s /\ Latest(j)
  BY LatestExists
<1>3. \E i \in 1..issued : Fits(i)
  <2>1. ASSUME NEW m \in (j + 1)..issued PROVE jobs.jobs[m].slot # s
    BY <1>2, <2>1 DEF Jobs, Latest, Slot
  <2> QED
    BY <1>2, <2>1 DEF Jobs, Slot
<1>4. c \in 1..issued /\ Fits(c)
  <2> HIDE DEF Fits
  <2> QED
    BY <1>3
<1>5. ASSUME NEW m \in Jobs, Slot(m) = Slot(c) PROVE m <= c
  <2>1. m \notin (c + 1)..issued
    BY <1>4, <1>5 DEF Slot
  <2> HIDE DEF c
  <2> QED
    BY <1>4, <1>5, <2>1 DEF Jobs
<1> QED
  BY <1>1, <1>4, <1>5 DEF Jobs, Slot, Latest

(* A list of commands.                                                     *)
LEMMA CommandList ==
  ASSUME NEW kinds, NEW list \in LinkCommands(kinds)
  PROVE  /\ Len(list) \in Nat /\ DOMAIN list = 1..Len(list)
         /\ \A i \in 1..Len(list) : list[i] \in [slot : Nat, kind : kinds, prdt : BOOLEAN]
<1> DEFINE T == [slot : Nat, kind : kinds, prdt : BOOLEAN]
<1>1. list \in Seq(T)
  BY DEF LinkCommands
<1> HIDE DEF T
<1>2. Len(list) \in Nat /\ DOMAIN list = 1..Len(list) /\ \A i \in 1..Len(list) : list[i] \in T
  BY <1>1
<1> QED
  BY <1>2 DEF T

-----------------------------------------------------------------------------
(* Callbacks of SATA *)

(* At most one response is added, and it is r.                             *)
Grows(r) ==
  /\ responses' = [queue |-> responses'.queue, writes |-> responses'.writes]
  /\ responses'.queue \in Seq(Responses)
  /\ \A i \in DOMAIN responses.queue :
       i \in DOMAIN responses'.queue /\ responses'.queue[i] = responses.queue[i]
  /\ \A i \in DOMAIN responses'.queue :
       i \notin DOMAIN responses.queue =>
         /\ responses'.queue[i] = r
         /\ \A k \in DOMAIN responses'.queue : k \notin DOMAIN responses.queue => k = i

(* Piece p is the only one of its kind under way.                          *)
Alone(j, p) == \A q \in SPieces : <<j, q>> \in pending /\ Together(p, q) => q = p

(* Piece p of command j ends and starts those in more; r is the response   *)
(* it may submit.                                                          *)
Passes(j, p, more) ==
  /\ <<j, p>> \in pending /\ pending' = (pending \ {<<j, p>>}) \cup ({j} \X more)
  /\ p \in SPieces /\ more \subseteq SPieces
  /\ \A q \in more : /\ Alone(j, p) /\ Belongs(j, q)'
                     /\ (SHolds(j, q) => SHolds(j, p)) /\ (CHolds(j, q) => CHolds(j, p))
                     /\ \A o \in more : \/ Together(q, o)
                                        \/ ~(SHolds(j, q) /\ SHolds(j, o)) /\ ~(CHolds(j, q) /\ CHolds(j, o))
Sends(j, p, more, r) ==
  /\ Grows(r)
  /\ \/ r.slot = 0
     \/ /\ r.slot = Slot(j) /\ CHolds(j, p) /\ Alone(j, p) /\ (IsQueued(j) \/ j \in linkMoved')
        /\ \A q \in more : ~CHolds(j, q)
  /\ \/ r.then = 0
     \/ /\ r.then = j /\ Kind(j) = "writeq" /\ SHolds(j, p) /\ Alone(j, p)
        /\ \A q \in more : ~SHolds(j, q)
Clears(j, p, more, r) ==
  \/ UNCHANGED sact
  \/ /\ sact' = sact \ {Slot(j)} /\ SHolds(j, p) /\ Alone(j, p) /\ j \in linkMoved'
     /\ r.then = 0 /\ more = {}
Ending(j, p, more, r) ==
  /\ j \in Jobs /\ Passes(j, p, more) /\ Sends(j, p, more, r) /\ Clears(j, p, more, r)
  /\ UNCHANGED <<jobs, issued, ci, requests, complete>>
  /\ linkMoved \subseteq linkMoved' /\ linkMoved' \subseteq linkMoved \union {j}

(* What stays when the driver does nothing.                                *)
LEMMA SameJobs ==
  ASSUME UNCHANGED <<jobs, issued, complete>>
  PROVE  /\ Jobs' = Jobs /\ Open' = Open
         /\ \A j : /\ Slot(j)' = Slot(j) /\ Kind(j)' = Kind(j) /\ (IsQueued(j)' <=> IsQueued(j))
                   /\ (Latest(j)' <=> Latest(j))
                   /\ \A p : (SHolds(j, p)' <=> SHolds(j, p)) /\ (CHolds(j, p)' <=> CHolds(j, p))
BY DEF Jobs, Open, Slot, Kind, IsQueued, Latest, SHolds, CHolds, S!Queued

(* The types.                                                              *)
LEMMA CallbackTypes ==
  ASSUME SATAInv, NEW j, NEW p, NEW more, NEW r, Ending(j, p, more, r)
  PROVE  LinkInv(S!Kinds)' /\ (jobs \in SATAWorkloads)' /\ PlaceInv' /\ S!CompletedIsDone'
<1>1. UNCHANGED <<jobs, issued, ci, requests, complete>> /\ j \in Jobs /\ linkMoved \subseteq linkMoved'
      /\ linkMoved' \subseteq linkMoved \union {j}
  BY DEF Ending
<1>2. /\ Jobs' = Jobs /\ Open' = Open
      /\ \A k : Slot(k)' = Slot(k) /\ Kind(k)' = Kind(k) /\ (Latest(k)' <=> Latest(k))
                /\ (IsQueued(k)' <=> IsQueued(k))
  BY <1>1, SameJobs
<1>3. LinkInv(S!Kinds)'
  BY <1>1, <1>2 DEF SATAInv, LinkInv
<1>4. PlaceInv'
  <2>1. pending' \subseteq Jobs \X SPieces
    BY <1>1 DEF Ending, Passes, SATAInv, PlaceInv
  <2>2. ASSUME NEW k \in Jobs, NEW q \in SPieces, <<k, q>> \in pending' PROVE Belongs(k, q)'
    <3>1. CASE <<k, q>> \in pending
      BY <1>1, <1>2, <3>1 DEF SATAInv, PlaceInv, Belongs
    <3>2. CASE k = j /\ q \in more
      BY <3>2 DEF Ending, Passes
    <3> QED
      BY <2>2, <3>1, <3>2 DEF Ending, Passes
  <2>3. /\ responses' = [queue |-> responses'.queue, writes |-> responses'.writes]
        /\ responses'.queue \in Seq(Responses)
    BY DEF Ending, Sends, Grows
  <2> QED
    BY <1>2, <2>1, <2>2, <2>3 DEF PlaceInv
<1>5. S!CompletedIsDone'
  BY <1>1 DEF SATAInv, S!CompletedIsDone, S!jobs, S!Queued
<1> QED
  BY <1>1, <1>3, <1>4, <1>5 DEF SATAInv

(* A slot has one outstanding command.                                     *)
LEMMA OpenOne ==
  ASSUME NEW kinds, LinkInv(kinds), NEW a \in Open, NEW b \in Open, Slot(a) = Slot(b)
  PROVE  a = b
<1>1. a \in Jobs /\ b \in Jobs /\ Latest(a) /\ Latest(b) /\ issued \in Nat
  BY DEF Open, LinkInv
<1>2. a <= b /\ b <= a
  BY <1>1 DEF Latest
<1> QED
  BY <1>1, <1>2 DEF Jobs

(* The bits of PxSACT.                                                     *)
LEMMA CallbackBits ==
  ASSUME SATAInv, NEW j, NEW p, NEW more, NEW r, Ending(j, p, more, r)
  PROVE  BitInv'
<1>1. /\ UNCHANGED <<jobs, issued, ci, requests, complete>> /\ j \in Jobs
      /\ linkMoved \subseteq linkMoved' /\ linkMoved' \subseteq linkMoved \union {j}
      /\ Passes(j, p, more) /\ Sends(j, p, more, r) /\ Clears(j, p, more, r)
  BY DEF Ending
<1>2. /\ Jobs' = Jobs /\ Open' = Open
      /\ \A k : /\ Slot(k)' = Slot(k) /\ Kind(k)' = Kind(k) /\ (Latest(k)' <=> Latest(k))
                /\ (IsQueued(k)' <=> IsQueued(k))
                /\ \A q : SHolds(k, q)' <=> SHolds(k, q)
  BY <1>1, SameJobs
<1>3. LinkInv(S!Kinds) /\ PlaceInv /\ BitInv
  BY DEF SATAInv
<1>4. ASSUME SHolds(j, p)
      PROVE  /\ Slot(j) \in sact /\ j \in Open /\ ~Waits(j)
             /\ \A q \in SPieces : <<j, q>> \in pending /\ SHolds(j, q) => Together(p, q)
  BY <1>1, <1>3, <1>4 DEF Passes, BitInv, Open
<1>5. ASSUME NEW k \in Open, Slot(k) \in sact, SHolds(j, p) => k # j
      PROVE  Slot(k) \in sact'
  <2>1. CASE UNCHANGED sact
    BY <2>1, <1>5
  <2>2. CASE sact' = sact \ {Slot(j)} /\ SHolds(j, p)
    <3>1. Slot(k) # Slot(j)
      BY <1>3, <1>4, <1>5, <2>2, OpenOne
    <3> QED
      BY <1>5, <2>2, <3>1
  <2> QED
    BY <1>1, <2>1, <2>2 DEF Clears
<1>6. ASSUME NEW k \in Jobs, Waits(k)', ~Waits(k)
      PROVE  k = j /\ r.then = j /\ SHolds(j, p) /\ Alone(j, p) /\ Kind(j) = "writeq"
             /\ \A q \in more : ~SHolds(j, q)
  <2>1. PICK i \in DOMAIN responses'.queue : responses'.queue[i].then = k
    BY <1>6 DEF Waits
  <2>2. i \notin DOMAIN responses.queue
    BY <1>1, <1>6, <2>1 DEF Sends, Grows, Waits
  <2>3. r.then = k /\ k # 0
    BY <1>1, <1>3, <2>1, <2>2 DEF Sends, Grows, Jobs
  <2> QED
    BY <1>1, <2>3 DEF Sends
<1>7. ASSUME NEW k \in Jobs, NEW q \in SPieces, <<k, q>> \in pending', SHolds(k, q)
      PROVE  <<k, q>> \in pending \/ (k = j /\ q \in more /\ SHolds(j, p) /\ Alone(j, p))
  BY <1>1, <1>7 DEF Passes
<1>8. ASSUME NEW k \in Jobs, IsQueued(k), k \notin linkMoved' PROVE Slot(k) \in sact'
  <2>1. k \notin linkMoved /\ Slot(k) \in sact
    BY <1>1, <1>3, <1>8 DEF BitInv
  <2>2. CASE UNCHANGED sact
    BY <2>1, <2>2
  <2>3. CASE sact' = sact \ {Slot(j)} /\ SHolds(j, p) /\ j \in linkMoved'
    <3>1. ~ (k \in complete)
      BY <1>8, <2>1 DEF SATAInv, S!CompletedIsDone, S!jobs, IsQueued, Kind
    <3>2. k \in Open /\ k # j
      BY <1>8, <2>3, <3>1 DEF Open
    <3> QED
      BY <1>5, <2>1, <3>2
  <2> QED
    BY <1>1, <2>2, <2>3 DEF Clears
<1>9. ASSUME NEW k \in Jobs, NEW q \in SPieces, <<k, q>> \in pending', SHolds(k, q)
      PROVE  /\ Slot(k) \in sact' /\ k \notin complete /\ ~Waits(k)'
             /\ \A o \in SPieces : <<k, o>> \in pending' /\ SHolds(k, o) => Together(q, o)
  <2>1. CASE k # j
    <3>1. <<k, q>> \in pending /\ \A o \in SPieces : <<k, o>> \in pending' => <<k, o>> \in pending
      BY <1>1, <1>9, <2>1 DEF Passes
    <3>2. /\ Slot(k) \in sact /\ k \notin complete /\ ~Waits(k)
          /\ \A o \in SPieces : <<k, o>> \in pending /\ SHolds(k, o) => Together(q, o)
      BY <1>3, <1>9, <3>1 DEF BitInv
    <3>3. Slot(k) \in sact'
      BY <1>5, <2>1, <3>2 DEF Open
    <3> QED
      BY <1>6, <2>1, <3>1, <3>2, <3>3
  <2>2. CASE k = j /\ SHolds(j, p) /\ Alone(j, p)
    <3>1. \A o \in SPieces : <<j, o>> \in pending' /\ SHolds(j, o) => o \in more
      BY <1>1, <1>4, <2>2 DEF Passes, Alone
    <3>2. q \in more
      BY <1>9, <2>2, <3>1
    <3>3. UNCHANGED sact
      BY <1>1, <3>2 DEF Clears
    <3>4. ~Waits(j)'
      BY <1>1, <1>4, <1>6, <1>9, <2>2, <3>2
    <3>5. ASSUME NEW o \in SPieces, <<j, o>> \in pending', SHolds(j, o) PROVE Together(q, o)
      BY <1>1, <1>9, <2>2, <3>1, <3>2, <3>5 DEF Passes
    <3> QED
      BY <1>4, <2>2, <3>3, <3>4, <3>5 DEF Open
  <2>3. CASE k = j /\ <<k, q>> \in pending /\ ~(SHolds(j, p) /\ Alone(j, p))
    <3>1. /\ Slot(k) \in sact /\ k \notin complete /\ ~Waits(k)
          /\ \A o \in SPieces : <<k, o>> \in pending /\ SHolds(k, o) => Together(q, o)
      BY <1>3, <1>9, <2>3 DEF BitInv
    <3>2. \A o \in SPieces : <<k, o>> \in pending' /\ SHolds(k, o) => <<k, o>> \in pending
      BY <1>7, <2>3
    <3>3. UNCHANGED sact
      BY <1>1, <2>3 DEF Clears
    <3> QED
      BY <1>6, <2>3, <3>1, <3>2, <3>3
  <2> QED
    BY <1>7, <1>9, <2>1, <2>2, <2>3
<1>10. ASSUME NEW i \in DOMAIN responses'.queue, NEW k, k = responses'.queue[i].then, k # 0
       PROVE  /\ k \in Jobs /\ Kind(k) = "writeq" /\ Slot(k) \in sact' /\ k \notin complete
              /\ \A m \in DOMAIN responses'.queue : responses'.queue[m].then = k => m = i
  <2>1. CASE i \in DOMAIN responses.queue
    <3>1. responses'.queue[i] = responses.queue[i] /\ Waits(k)
      BY <1>1, <1>10, <2>1 DEF Sends, Grows, Waits
    <3>2. /\ k \in Jobs /\ Kind(k) = "writeq" /\ Slot(k) \in sact /\ k \notin complete
          /\ \A m \in DOMAIN responses.queue : responses.queue[m].then = k => m = i
      BY <1>3, <1>10, <2>1, <3>1 DEF BitInv
    <3>3. SHolds(j, p) => k # j
      BY <1>4, <3>1
    <3>4. Slot(k) \in sact'
      BY <1>5, <3>2, <3>3 DEF Open
    <3>5. ASSUME NEW m \in DOMAIN responses'.queue, responses'.queue[m].then = k PROVE m = i
      <4>1. m \in DOMAIN responses.queue
        BY <1>1, <1>10, <3>3, <3>5 DEF Sends, Grows
      <4> QED
        BY <1>1, <3>2, <3>5, <4>1 DEF Sends, Grows
    <3> QED
      BY <3>2, <3>4, <3>5
  <2>2. CASE i \notin DOMAIN responses.queue
    <3>1. r.then = k /\ k = j /\ Kind(j) = "writeq" /\ SHolds(j, p)
      BY <1>1, <1>10, <2>2 DEF Sends, Grows
    <3>2. UNCHANGED sact
      BY <1>1, <1>10, <3>1 DEF Clears
    <3>3. ASSUME NEW m \in DOMAIN responses'.queue, responses'.queue[m].then = k PROVE m = i
      <4>1. m \notin DOMAIN responses.queue
        BY <1>1, <1>4, <3>1, <3>3 DEF Sends, Grows, Waits
      <4> QED
        BY <1>1, <2>2, <4>1 DEF Sends, Grows
    <3> QED
      BY <1>1, <1>4, <3>1, <3>2, <3>3 DEF Open
  <2> QED
    BY <2>1, <2>2
<1>11. ASSUME NEW i \in DOMAIN requests, NEW k \in Jobs, requests[i] = Slot(k), IsQueued(k), Latest(k)
       PROVE  /\ Slot(k) \in sact' /\ k \notin complete /\ ~Waits(k)'
              /\ \A q \in SPieces : <<k, q>> \in pending' => ~SHolds(k, q)
              /\ \A m \in DOMAIN requests : requests[m] = requests[i] => m = i
  <2>1. /\ Slot(k) \in sact /\ k \notin complete /\ ~Waits(k)
        /\ \A q \in SPieces : <<k, q>> \in pending => ~SHolds(k, q)
        /\ \A m \in DOMAIN requests : requests[m] = requests[i] => m = i
    BY <1>3, <1>11 DEF BitInv
  <2>2. SHolds(j, p) => k # j
    BY <1>1, <2>1 DEF Passes
  <2>3. Slot(k) \in sact'
    BY <1>5, <2>1, <2>2 DEF Open
  <2>4. ~Waits(k)'
    BY <1>6, <2>1, <2>2
  <2>5. \A q \in SPieces : <<k, q>> \in pending' => ~SHolds(k, q)
    BY <1>7, <2>1, <2>2
  <2> QED
    BY <2>1, <2>3, <2>4, <2>5
<1>12. requests' = requests /\ complete' = complete
  BY <1>1
<1> QED
  BY <1>2, <1>8, <1>9, <1>10, <1>11, <1>12 DEF BitInv

(* The bits of PxCI.                                                       *)
LEMMA CallbackIssue ==
  ASSUME SATAInv, NEW j, NEW p, NEW more, NEW r, Ending(j, p, more, r)
  PROVE  IssueInv'
<1>1. /\ UNCHANGED <<jobs, issued, ci, requests, complete>> /\ j \in Jobs
      /\ linkMoved \subseteq linkMoved' /\ linkMoved' \subseteq linkMoved \union {j}
      /\ Passes(j, p, more) /\ Sends(j, p, more, r)
  BY DEF Ending
<1>2. /\ Jobs' = Jobs /\ Open' = Open
      /\ \A k : /\ Slot(k)' = Slot(k) /\ (IsQueued(k)' <=> IsQueued(k))
                /\ \A q : CHolds(k, q)' <=> CHolds(k, q)
  BY <1>1, SameJobs
<1>3. LinkInv(S!Kinds) /\ PlaceInv /\ IssueInv
  BY DEF SATAInv
<1>4. ASSUME CHolds(j, p)
      PROVE  /\ Slot(j) \in ci /\ j \in Open /\ ~Answering(Slot(j))
             /\ \A q \in SPieces : <<j, q>> \in pending /\ CHolds(j, q) => Together(p, q)
  BY <1>1, <1>3, <1>4 DEF Passes, IssueInv, Open
<1>5. ASSUME NEW s, s # 0, Answering(s)', ~Answering(s)
      PROVE  s = Slot(j) /\ r.slot = s /\ CHolds(j, p) /\ Alone(j, p)
             /\ \A q \in more : ~CHolds(j, q)
  <2>1. PICK i \in DOMAIN responses'.queue : responses'.queue[i].slot = s
    BY <1>5 DEF Answering
  <2>2. i \notin DOMAIN responses.queue
    BY <1>1, <1>5, <2>1 DEF Sends, Grows, Answering
  <2>3. r.slot = s
    BY <1>1, <2>1, <2>2 DEF Sends, Grows
  <2> QED
    BY <1>1, <1>5, <2>3 DEF Sends
<1>6. ASSUME NEW k \in Jobs, NEW q \in SPieces, <<k, q>> \in pending', CHolds(k, q)
      PROVE  <<k, q>> \in pending \/ (k = j /\ q \in more /\ CHolds(j, p) /\ Alone(j, p))
  BY <1>1, <1>6 DEF Passes
<1>7. ASSUME NEW k \in Jobs, NEW q \in SPieces, <<k, q>> \in pending', CHolds(k, q)
      PROVE  /\ Slot(k) \in ci /\ k \notin complete /\ ~Answering(Slot(k))'
             /\ \A o \in SPieces : <<k, o>> \in pending' /\ CHolds(k, o) => Together(q, o)
  <2>0. Slot(k) # 0
    BY <1>7 DEF CHolds
  <2>1. CASE k # j
    <3>1. <<k, q>> \in pending /\ \A o \in SPieces : <<k, o>> \in pending' => <<k, o>> \in pending
      BY <1>1, <1>7, <2>1 DEF Passes
    <3>2. /\ Slot(k) \in ci /\ k \notin complete /\ ~Answering(Slot(k))
          /\ \A o \in SPieces : <<k, o>> \in pending /\ CHolds(k, o) => Together(q, o)
      BY <1>3, <1>7, <3>1 DEF IssueInv
    <3>3. CHolds(j, p) => Slot(k) # Slot(j)
      BY <1>3, <1>4, <2>1, <3>2, OpenOne DEF Open
    <3>4. PICK s : s = Slot(k)
      OBVIOUS
    <3>5. ~Answering(s)'
      BY <1>5, <2>0, <3>2, <3>3, <3>4
    <3>6. ~Answering(Slot(k))'
      BY <1>2, <3>4, <3>5 DEF Answering
    <3> QED
      BY <3>1, <3>2, <3>6
  <2>2. CASE k = j /\ CHolds(j, p) /\ Alone(j, p)
    <3>1. \A o \in SPieces : <<j, o>> \in pending' /\ CHolds(j, o) => o \in more
      BY <1>1, <1>4, <2>2 DEF Passes, Alone
    <3>2. q \in more
      BY <1>7, <2>2, <3>1
    <3>3. PICK s : s = Slot(j)
      OBVIOUS
    <3>4. ~Answering(s)'
      BY <1>4, <1>5, <1>7, <2>0, <2>2, <3>2, <3>3
    <3>5. ~Answering(Slot(j))'
      BY <1>2, <3>3, <3>4 DEF Answering
    <3>6. ASSUME NEW o \in SPieces, <<j, o>> \in pending', CHolds(j, o) PROVE Together(q, o)
      BY <1>1, <1>7, <2>2, <3>1, <3>2, <3>6 DEF Passes
    <3> QED
      BY <1>4, <2>2, <3>5, <3>6 DEF Open
  <2>3. CASE k = j /\ <<k, q>> \in pending /\ ~(CHolds(j, p) /\ Alone(j, p))
    <3>1. /\ Slot(k) \in ci /\ k \notin complete /\ ~Answering(Slot(k))
          /\ \A o \in SPieces : <<k, o>> \in pending /\ CHolds(k, o) => Together(q, o)
      BY <1>3, <1>7, <2>3 DEF IssueInv
    <3>2. \A o \in SPieces : <<k, o>> \in pending' /\ CHolds(k, o) => <<k, o>> \in pending
      BY <1>6, <2>3
    <3>3. PICK s : s = Slot(k)
      OBVIOUS
    <3>4. ~Answering(s)'
      BY <1>5, <2>0, <2>3, <3>1, <3>3
    <3>5. ~Answering(Slot(k))'
      BY <1>2, <3>3, <3>4 DEF Answering
    <3> QED
      BY <3>1, <3>2, <3>5
  <2> QED
    BY <1>6, <1>7, <2>1, <2>2, <2>3
<1>8. ASSUME NEW i \in DOMAIN responses'.queue, NEW s, s = responses'.queue[i].slot, s # 0
      PROVE  /\ s \in ci
             /\ \A m \in DOMAIN responses'.queue : responses'.queue[m].slot = s => m = i
             /\ \A k \in Open : Slot(k) = s /\ ~IsQueued(k) => k \in linkMoved'
  <2>1. CASE i \in DOMAIN responses.queue
    <3>1. responses'.queue[i] = responses.queue[i] /\ Answering(s)
      BY <1>1, <1>8, <2>1 DEF Sends, Grows, Answering
    <3>2. /\ s \in ci
          /\ \A m \in DOMAIN responses.queue : responses.queue[m].slot = s => m = i
          /\ \A k \in Open : Slot(k) = s /\ ~IsQueued(k) => k \in linkMoved
      BY <1>3, <1>8, <2>1, <3>1 DEF IssueInv
    <3>3. CHolds(j, p) => s # Slot(j)
      BY <1>4, <3>1
    <3>4. ASSUME NEW m \in DOMAIN responses'.queue, responses'.queue[m].slot = s PROVE m = i
      <4>1. m \in DOMAIN responses.queue
        BY <1>1, <1>8, <3>3, <3>4 DEF Sends, Grows
      <4> QED
        BY <1>1, <3>2, <3>4, <4>1 DEF Sends, Grows
    <3> QED
      BY <1>1, <3>2, <3>4
  <2>2. CASE i \notin DOMAIN responses.queue
    <3>1. r.slot = s /\ s = Slot(j) /\ CHolds(j, p) /\ (IsQueued(j) \/ j \in linkMoved')
      BY <1>1, <1>8, <2>2 DEF Sends, Grows
    <3>2. ASSUME NEW m \in DOMAIN responses'.queue, responses'.queue[m].slot = s PROVE m = i
      <4>1. m \notin DOMAIN responses.queue
        BY <1>1, <1>4, <3>1, <3>2 DEF Sends, Grows, Answering
      <4> QED
        BY <1>1, <2>2, <4>1 DEF Sends, Grows
    <3>3. ASSUME NEW k \in Open, Slot(k) = s, ~IsQueued(k) PROVE k \in linkMoved'
      <4>1. k = j
        BY <1>3, <1>4, <3>1, <3>3, OpenOne
      <4> QED
        BY <3>1, <3>3, <4>1
    <3> QED
      BY <1>4, <3>1, <3>2, <3>3
  <2> QED
    BY <2>1, <2>2
<1>9. ASSUME NEW i \in DOMAIN requests, NEW s, s = requests[i], s # 0
      PROVE  /\ s \in ci /\ ~Answering(s)'
             /\ \A m \in DOMAIN requests : requests[m] = s => m = i
             /\ \A k \in Open, q \in SPieces : Slot(k) = s /\ <<k, q>> \in pending' => ~CHolds(k, q)
  <2>1. /\ s \in ci /\ ~Answering(s)
        /\ \A m \in DOMAIN requests : requests[m] = s => m = i
        /\ \A k \in Open, q \in SPieces : Slot(k) = s /\ <<k, q>> \in pending => ~CHolds(k, q)
    BY <1>3, <1>9 DEF IssueInv
  <2>2. CHolds(j, p) => s # Slot(j)
    BY <1>1, <1>4, <2>1 DEF Passes
  <2>3. ~Answering(s)'
    BY <1>5, <1>9, <2>1, <2>2
  <2>4. \A k \in Open, q \in SPieces : Slot(k) = s /\ <<k, q>> \in pending' => ~CHolds(k, q)
    BY <1>6, <2>1, <2>2 DEF Open
  <2> QED
    BY <2>1, <2>3, <2>4
<1>10. requests' = requests /\ complete' = complete /\ ci' = ci
  BY <1>1
<1>11. \A s \in ci : \E k \in Open : Slot(k) = s
  BY <1>3 DEF IssueInv
<1>12. \A k \in Jobs : ~IsQueued(k) /\ Slot(k) # 0 /\ k \notin linkMoved' => Slot(k) \in ci
  BY <1>1, <1>3 DEF IssueInv
<1>13. \A i \in DOMAIN requests : requests[i] # 0 =>
         /\ requests[i] \in ci /\ ~Answering(requests[i])'
         /\ \A m \in DOMAIN requests : requests[m] = requests[i] => m = i
         /\ \A k \in Open, q \in SPieces :
              Slot(k) = requests[i] /\ <<k, q>> \in pending' => ~CHolds(k, q)
  <2>1. ASSUME NEW i \in DOMAIN requests, requests[i] # 0 PROVE ~Answering(requests[i])'
    <3>1. PICK s : s = requests[i]
      OBVIOUS
    <3>2. ~Answering(s)'
      BY <1>9, <2>1, <3>1
    <3> QED
      BY <1>10, <3>1, <3>2 DEF Answering
  <2> QED
    BY <1>9, <2>1
<1> QED
  BY <1>2, <1>7, <1>8, <1>10, <1>11, <1>12, <1>13 DEF IssueInv

(* Together.                                                               *)
LEMMA CallbackKeeps ==
  ASSUME SATAInv, NEW j, NEW p, NEW more, NEW r, Ending(j, p, more, r)
  PROVE  SATAInv'
BY CallbackTypes, CallbackBits, CallbackIssue DEF SATAInv

(* submitFIS adds one response.                                            *)
LEMMA GrowsByOne ==
  ASSUME PlaceInv, NEW r \in Responses, responses' = S!submitFIS(responses, r)
  PROVE  Grows(r)
<1>1. PICK q : q = responses.queue
  OBVIOUS
<1>2. PICK w : w = responses.writes
  OBVIOUS
<1>3. q \in Seq(Responses) /\ responses = [queue |-> q, writes |-> w]
  BY <1>1, <1>2 DEF PlaceInv
<1>4. [responses EXCEPT !.queue = Append(@, r)] = [queue |-> Append(q, r), writes |-> w]
  BY <1>3
<1>5. responses' = [queue |-> Append(q, r), writes |-> Append(w, Head(Append(q, r)).fis)]
  BY <1>4 DEF S!submitFIS, S!handleResponse
<1>6. PICK a : a = Append(q, r)
  OBVIOUS
<1>7. PICK v : responses' = [queue |-> a, writes |-> v]
  BY <1>5, <1>6
<1>8. responses'.queue = a /\ responses' = [queue |-> responses'.queue, writes |-> responses'.writes]
  BY <1>7
<1>9. /\ Append(q, r) \in Seq(Responses) /\ DOMAIN q = 1..Len(q) /\ Len(q) \in Nat
      /\ DOMAIN Append(q, r) = 1..(Len(q) + 1)
      /\ \A i \in 1..Len(q) : Append(q, r)[i] = q[i]
      /\ Append(q, r)[Len(q) + 1] = r
  BY <1>3
<1> QED
  BY <1>1, <1>6, <1>8, <1>9 DEF Grows

(* Nothing is submitted.                                                   *)
LEMMA GrowsByNone ==
  ASSUME PlaceInv, NEW r, UNCHANGED responses
  PROVE  Grows(r)
<1>1. responses' = responses
  OBVIOUS
<1> QED
  BY <1>1 DEF Grows, PlaceInv

(* The responses of a callback.                                            *)
LEMMA CompletionFacts ==
  ASSUME NEW s \in Nat, NEW f \in {"d2h", "setup", "bits", "signal"}, NEW t \in Nat
  PROVE  /\ S!Completion(s, f, t) \in Responses /\ S!Completion(s, f, t).slot = s
         /\ S!Completion(s, f, t).then = t
BY DEF S!Completion, Responses

(* What a command is.                                                      *)
LEMMA JobTypes ==
  ASSUME SATAInv, NEW j \in Jobs
  PROVE  Slot(j) \in Nat /\ Kind(j) \in S!Kinds /\ j \in Nat /\ j # 0
         /\ jobs.jobs[j].prdt \in BOOLEAN
<1> DEFINE T == [slot : Nat, kind : S!Kinds, prdt : BOOLEAN]
<1>1. jobs.jobs \in Seq(T) /\ issued \in Nat /\ issued <= Len(jobs.jobs)
  BY DEF SATAInv, LinkInv, LinkCommands
<1>2. j \in 1..Len(jobs.jobs)
  BY <1>1 DEF Jobs
<1>3. jobs.jobs[j] \in T
  <2> HIDE DEF T
  <2> QED
    BY <1>1, <1>2
<1> QED
  BY <1>2, <1>3 DEF Slot, Kind

(* What no callback of the device touches.                                 *)
LEMMA DeviceFrame ==
  ASSUME S!DeviceOnly
  PROVE  UNCHANGED <<jobs, issued, ci, requests, complete>>
BY DEF S!DeviceOnly

(* A callback that ends without a word.                                    *)
LEMMA Quietly ==
  ASSUME SATAInv, NEW j \in Jobs, NEW p, NEW more, Passes(j, p, more), S!DeviceOnly,
         UNCHANGED <<sact, responses, linkMoved>>
  PROVE  SATAInv'
<1>1. PICK r : r = S!Completion(0, "setup", 0)
  OBVIOUS
<1>2. Sends(j, p, more, r)
  BY <1>1, GrowsByNone, CompletionFacts DEF Sends, SATAInv
<1>3. UNCHANGED <<jobs, issued, ci, requests, complete>>
  BY DeviceFrame
<1>4. Ending(j, p, more, r)
  BY <1>2, <1>3 DEF Ending, Clears
<1> QED
  BY <1>4, CallbackKeeps

(* submitCommand                                                           *)
LEMMA SubmitKeeps ==
  ASSUME SATAInv, NEW j \in Jobs, S!submitCommand(j)
  PROVE  SATAInv'
<1>1. PICK more : more = IF jobs.jobs[j].prdt THEN {"request", "prdt"} ELSE {"request"}
  OBVIOUS
<1>2. more \subseteq {"request", "prdt"}
  BY <1>1, JobTypes
<1>3. Passes(j, "header", more)
  <2>1. <<j, "header">> \in pending /\ pending' = (pending \ {<<j, "header">>}) \cup ({j} \X more)
    BY <1>1 DEF S!submitCommand, S!Ends, S!jobs
  <2>2. Alone(j, "header")
    BY DEF Alone, Together
  <2> QED
    BY <1>2, <2>1, <2>2 DEF Passes, SPieces, Belongs, SHolds, CHolds, Together
<1> QED
  BY <1>3, Quietly DEF S!submitCommand

(* DataIn                                                                  *)
LEMMA DataInKeeps ==
  ASSUME SATAInv, NEW j \in Jobs, S!DataIn(j)
  PROVE  SATAInv'
<1>1. <<j, "in">> \in pending /\ pending' = (pending \ {<<j, "in">>}) \cup ({j} \X {"nandWrite"})
      /\ S!DeviceOnly /\ UNCHANGED <<sact, responses, linkMoved>>
  BY DEF S!DataIn, S!Ends
<1>2. Kind(j) \in {"write", "writeq"}
  BY <1>1 DEF SATAInv, PlaceInv, Belongs, SPieces
<1>3. Belongs(j, "nandWrite")'
  BY <1>1, <1>2 DEF Belongs, Kind, S!DeviceOnly
<1>4. Alone(j, "in")
  BY DEF Alone, Together
<1>5. Passes(j, "in", {"nandWrite"})
  BY <1>1, <1>3, <1>4 DEF Passes, SPieces, SHolds, CHolds, Together
<1> QED
  BY <1>1, <1>5, Quietly

(* NandReadDone                                                            *)
LEMMA NandReadKeeps ==
  ASSUME SATAInv, NEW j \in Jobs, S!NandReadDone(j)
  PROVE  SATAInv'
<1>1. /\ <<j, "nandRead">> \in pending
      /\ pending' = (pending \ {<<j, "nandRead">>}) \cup ({j} \X {"out"})
      /\ S!DeviceOnly /\ UNCHANGED <<sact, linkMoved>>
  BY DEF S!NandReadDone, S!Ends
<1>2. Kind(j) \in {"read", "readq"}
  BY <1>1 DEF SATAInv, PlaceInv, Belongs, SPieces
<1>3. Belongs(j, "out")'
  BY <1>1, <1>2 DEF Belongs, Kind, S!DeviceOnly
<1>4. Alone(j, "nandRead")
  BY DEF Alone, Together
<1>5. Passes(j, "nandRead", {"out"})
  BY <1>1, <1>3, <1>4 DEF Passes, SPieces, SHolds, CHolds, Together
<1>6. PICK r : r = S!Completion(0, "setup", 0)
  OBVIOUS
<1>7. Grows(r)
  <2>1. CASE Kind(j) = "readq"
    BY <1>6, <2>1, GrowsByOne, CompletionFacts DEF S!NandReadDone, S!jobs, Kind, SATAInv
  <2>2. CASE Kind(j) # "readq"
    BY <2>2, GrowsByNone DEF S!NandReadDone, S!jobs, Kind, SATAInv
  <2> QED
    BY <2>1, <2>2
<1>8. Sends(j, "nandRead", {"out"}, r)
  BY <1>6, <1>7, CompletionFacts DEF Sends
<1>9. Ending(j, "nandRead", {"out"}, r)
  BY <1>1, <1>5, <1>8, DeviceFrame DEF Ending, Clears
<1> QED
  BY <1>9, CallbackKeeps

(* A command that is not queued ends with the FIS that names its slot.     *)
LEMMA PlainEnds ==
  ASSUME SATAInv, NEW j \in Jobs, NEW p \in SPieces, Alone(j, p), ~IsQueued(j), S!Ends(j, p, {}),
         S!Answers(j, 0), S!Moves(TRUE, j), S!DeviceOnly, UNCHANGED sact
  PROVE  SATAInv'
<1>1. PICK r : r = S!Completion(Slot(j), "d2h", 0)
  OBVIOUS
<1>2. r \in Responses /\ r.slot = Slot(j) /\ r.then = 0
  BY <1>1, JobTypes, CompletionFacts
<1>3. Grows(r)
  BY <1>1, <1>2, GrowsByOne DEF S!Answers, S!jobs, Slot, SATAInv
<1>4. linkMoved' = linkMoved \union {j}
  BY DEF S!Moves
<1>5. Sends(j, p, {}, r)
  BY <1>2, <1>3, <1>4 DEF Sends, CHolds
<1>6. Passes(j, p, {})
  BY DEF Passes, S!Ends
<1>7. Ending(j, p, {}, r)
  BY <1>4, <1>5, <1>6, DeviceFrame DEF Ending, Clears
<1> QED
  BY <1>7, CallbackKeeps

(* A queued one ends with a Set Device Bits FIS.                           *)
LEMMA QueuedEnds ==
  ASSUME SATAInv, NEW j \in Jobs, NEW p \in SPieces, p \notin {"request", "prdt", "notice"},
         IsQueued(j), S!Ends(j, p, {}), S!DeviceBits(j), j \in linkMoved',
         linkMoved \subseteq linkMoved', linkMoved' \subseteq linkMoved \union {j}, S!DeviceOnly
  PROVE  SATAInv'
<1>1. PICK r : r = S!Completion(0, "bits", 0)
  OBVIOUS
<1>2. r \in Responses /\ r.slot = 0 /\ r.then = 0
  BY <1>1, CompletionFacts
<1>3. Grows(r)
  BY <1>1, <1>2, GrowsByOne DEF S!DeviceBits, SATAInv
<1>4. Sends(j, p, {}, r)
  BY <1>2, <1>3 DEF Sends
<1>5. Passes(j, p, {})
  BY DEF Passes, S!Ends
<1>6. Alone(j, p)
  BY DEF Alone, Together
<1>7. Clears(j, p, {}, r)
  BY <1>2, <1>6 DEF Clears, S!DeviceBits, S!jobs, Slot, SHolds
<1>8. Ending(j, p, {}, r)
  BY <1>4, <1>5, <1>7, DeviceFrame DEF Ending
<1> QED
  BY <1>8, CallbackKeeps

(* flushDone                                                               *)
LEMMA FlushKeeps ==
  ASSUME SATAInv, NEW j \in Jobs, S!flushDone(j)
  PROVE  SATAInv'
<1>1. <<j, "flush">> \in pending
  BY DEF S!flushDone, S!Ends
<1>2. ~IsQueued(j)
  BY <1>1 DEF SATAInv, PlaceInv, Belongs, SPieces, IsQueued, S!Queued
<1>3. Alone(j, "flush") /\ "flush" \in SPieces
  BY DEF Alone, Together, SPieces
<1> QED
  BY <1>2, <1>3, PlainEnds DEF S!flushDone

(* DataOut                                                                 *)
LEMMA DataOutKeeps ==
  ASSUME SATAInv, NEW j \in Jobs, S!DataOut(j)
  PROVE  SATAInv'
<1>1. <<j, "out">> \in pending /\ linkMoved' = linkMoved \union {j} /\ S!DeviceOnly /\ UNCHANGED sact
  BY DEF S!DataOut, S!Ends, S!Moves
<1>2. Kind(j) \in {"read", "readq", "identify"}
  BY <1>1 DEF SATAInv, PlaceInv, Belongs, SPieces
<1>3. Alone(j, "out") /\ "out" \in SPieces
  BY DEF Alone, Together, SPieces
<1>4. CASE Kind(j) = "readq"
  <2>1. S!Ends(j, "out", {"sdb"}) /\ UNCHANGED responses
    BY <1>4 DEF S!DataOut, S!jobs, Kind
  <2>2. Belongs(j, "sdb")'
    BY <1>1, <1>4 DEF Belongs, Kind, S!DeviceOnly
  <2>3. Passes(j, "out", {"sdb"})
    BY <1>3, <2>1, <2>2 DEF Passes, S!Ends, SPieces, SHolds, CHolds, Together
  <2>4. PICK r : r = S!Completion(0, "setup", 0)
    OBVIOUS
  <2>5. Sends(j, "out", {"sdb"}, r)
    BY <2>1, <2>4, GrowsByNone, CompletionFacts DEF Sends, SATAInv
  <2>6. Ending(j, "out", {"sdb"}, r)
    BY <1>1, <2>3, <2>5, DeviceFrame DEF Ending, Clears
  <2> QED
    BY <2>6, CallbackKeeps
<1>5. CASE Kind(j) # "readq"
  <2>1. ~IsQueued(j)
    BY <1>2, <1>5 DEF IsQueued, S!Queued
  <2>2. S!Ends(j, "out", {}) /\ S!Answers(j, 0) /\ S!Moves(TRUE, j)
    BY <1>5 DEF S!DataOut, S!jobs, Kind
  <2> QED
    BY <1>1, <1>3, <2>1, <2>2, PlainEnds
<1> QED
  BY <1>4, <1>5

(* NandWriteDone                                                           *)
LEMMA NandWriteKeeps ==
  ASSUME SATAInv, NEW j \in Jobs, S!NandWriteDone(j)
  PROVE  SATAInv'
<1>1. /\ <<j, "nandWrite">> \in pending /\ S!Ends(j, "nandWrite", {}) /\ S!Moves(TRUE, j)
      /\ linkMoved' = linkMoved \union {j} /\ S!DeviceOnly
  BY DEF S!NandWriteDone, S!Ends, S!Moves
<1>2. Kind(j) \in {"write", "writeq"}
  BY <1>1 DEF SATAInv, PlaceInv, Belongs, SPieces
<1>3. Alone(j, "nandWrite") /\ "nandWrite" \in SPieces
  BY DEF Alone, Together, SPieces
<1>4. CASE Kind(j) = "writeq"
  <2>1. S!DeviceBits(j)
    BY <1>4 DEF S!NandWriteDone, S!jobs, Kind
  <2>2. IsQueued(j)
    BY <1>4 DEF IsQueued, S!Queued
  <2> QED
    BY <1>1, <1>3, <2>1, <2>2, QueuedEnds
<1>5. CASE Kind(j) # "writeq"
  <2>1. S!Answers(j, 0) /\ UNCHANGED sact
    BY <1>5 DEF S!NandWriteDone, S!jobs, Kind
  <2>2. ~IsQueued(j)
    BY <1>2, <1>5 DEF IsQueued, S!Queued
  <2> QED
    BY <1>1, <1>3, <2>1, <2>2, PlainEnds
<1> QED
  BY <1>4, <1>5

(* ReadBits                                                                *)
LEMMA ReadBitsKeeps ==
  ASSUME SATAInv, NEW j \in Jobs, S!ReadBits(j)
  PROVE  SATAInv'
<1>1. /\ <<j, "sdb">> \in pending /\ S!Ends(j, "sdb", {}) /\ S!DeviceBits(j)
      /\ linkMoved' = linkMoved /\ S!DeviceOnly
  BY DEF S!ReadBits, S!Ends
<1>2. Kind(j) = "readq" /\ j \in linkMoved
  BY <1>1 DEF SATAInv, PlaceInv, Belongs, SPieces
<1>3. IsQueued(j) /\ "sdb" \in SPieces
  BY <1>2 DEF IsQueued, S!Queued, SPieces
<1> QED
  BY <1>1, <1>2, <1>3, QueuedEnds

(* Notice                                                                  *)
LEMMA NoticeKeeps ==
  ASSUME SATAInv, NEW j \in Jobs, S!Notice(j)
  PROVE  SATAInv'
<1>1. PICK t : t = IF Kind(j) = "writeq" THEN j ELSE 0
  OBVIOUS
<1>2. /\ <<j, "notice">> \in pending /\ S!Ends(j, "notice", {}) /\ S!Answers(j, t)
      /\ S!DeviceOnly /\ UNCHANGED <<sact, linkMoved>>
  BY <1>1 DEF S!Notice, S!Ends, S!jobs, Kind
<1>3. IsQueued(j)
  BY <1>2 DEF SATAInv, PlaceInv, Belongs, SPieces
<1>4. Alone(j, "notice") /\ "notice" \in SPieces
  BY DEF Alone, Together, SPieces
<1>5. PICK r : r = S!Completion(Slot(j), "d2h", t)
  OBVIOUS
<1>6. r \in Responses /\ r.slot = Slot(j) /\ r.then = t
  BY <1>1, <1>5, JobTypes, CompletionFacts
<1>7. Grows(r)
  BY <1>2, <1>5, <1>6, GrowsByOne DEF S!Answers, S!jobs, Slot, SATAInv
<1>8. Sends(j, "notice", {}, r)
  BY <1>1, <1>3, <1>4, <1>6, <1>7 DEF Sends, CHolds, SHolds
<1>9. Ending(j, "notice", {}, r)
  BY <1>2, <1>4, <1>8, DeviceFrame DEF Ending, Clears, Passes, S!Ends
<1> QED
  BY <1>9, CallbackKeeps

(* What a command starts belongs to it.                                    *)
LEMMA StartsBelong ==
  ASSUME SATAInv, NEW j \in Jobs, NEW p \in {"request", "prdt"}, Alone(j, p), UNCHANGED jobs,
         NEW more, more = S!Starts[Kind(j)]
  PROVE  /\ more \subseteq SPieces
         /\ \A q \in more : /\ Belongs(j, q)'
                            /\ (SHolds(j, q) => SHolds(j, p)) /\ (CHolds(j, q) => CHolds(j, p))
                            /\ \A o \in more : \/ Together(q, o)
                                               \/ ~(SHolds(j, q) /\ SHolds(j, o)) /\ ~(CHolds(j, q) /\ CHolds(j, o))
<1>1. Kind(j) \in S!Kinds /\ Kind(j)' = Kind(j)
  BY JobTypes DEF Kind
<1>2. CASE Kind(j) \in {"mode", "verify", "unknown"}
  <2>1. more = {}
    BY <1>2 DEF S!Starts, S!setMode, S!readVerify
  <2> QED
    BY <2>1
<1>3. CASE Kind(j) = "identify"
  <2>1. more = {"out"}
    BY <1>3 DEF S!Starts, S!identifyDevice
  <2> QED
    BY <1>1, <1>3, <2>1 DEF SPieces, Belongs, SHolds, CHolds, Together, IsQueued, S!Queued
<1>4. CASE Kind(j) = "read"
  <2>1. more = {"nandRead"}
    BY <1>4 DEF S!Starts, S!readDMA
  <2> QED
    BY <1>1, <1>4, <2>1 DEF SPieces, Belongs, SHolds, CHolds, Together, IsQueued, S!Queued
<1>5. CASE Kind(j) = "write"
  <2>1. more = {"in"}
    BY <1>5 DEF S!Starts, S!writeDMA
  <2> QED
    BY <1>1, <1>5, <2>1 DEF SPieces, Belongs, SHolds, CHolds, Together, IsQueued, S!Queued
<1>6. CASE Kind(j) = "flush"
  <2>1. more = {"flush"}
    BY <1>6 DEF S!Starts, S!flushCache
  <2> QED
    BY <1>1, <1>6, <2>1 DEF SPieces, Belongs, SHolds, CHolds, Together, IsQueued, S!Queued
<1>7. CASE Kind(j) = "readq"
  <2>1. more = {"nandRead", "notice"}
    BY <1>7 DEF S!Starts, S!readNCQ
  <2> QED
    BY <1>1, <1>7, <2>1 DEF SPieces, Belongs, SHolds, CHolds, Together, IsQueued, S!Queued
<1>8. CASE Kind(j) = "writeq"
  <2>1. more = {"notice"}
    BY <1>8 DEF S!Starts, S!writeNCQ
  <2> QED
    BY <1>1, <1>8, <2>1 DEF SPieces, Belongs, SHolds, CHolds, Together, IsQueued, S!Queued
<1> QED
  BY <1>1, <1>2, <1>3, <1>4, <1>5, <1>6, <1>7, <1>8 DEF S!Kinds, S!Queued

(* A command that starts nothing is not queued.                            *)
LEMMA IdleStarts ==
  ASSUME SATAInv, NEW j \in Jobs, S!Starts[Kind(j)] = {}
  PROVE  ~IsQueued(j)
BY DEF S!Starts, S!readNCQ, S!writeNCQ, IsQueued, S!Queued

(* doRequest                                                               *)
LEMMA RequestKeeps ==
  ASSUME SATAInv, NEW j \in Jobs, NEW p \in {"request", "prdt"}, S!doRequest(j, p)
  PROVE  SATAInv'
<1>1. PICK other : other = IF p = "request" THEN "prdt" ELSE "request"
  OBVIOUS
<1>2. S!DeviceOnly /\ UNCHANGED sact /\ UNCHANGED jobs /\ p \in SPieces
  BY DEF S!doRequest, S!DeviceOnly, SPieces
<1>3. CASE <<j, other>> \in pending
  <2>1. S!Ends(j, p, {}) /\ UNCHANGED <<responses, linkMoved>>
    BY <1>1, <1>3 DEF S!doRequest, S!Moves
  <2>2. Passes(j, p, {})
    BY <1>2, <2>1 DEF Passes, S!Ends
  <2> QED
    BY <1>2, <2>1, <2>2, Quietly
<1>4. CASE <<j, other>> \notin pending
  <2>1. PICK more : more = S!Starts[Kind(j)]
    OBVIOUS
  <2>2. Alone(j, p)
    BY <1>1, <1>4 DEF Alone, Together
  <2>3. CASE more = {}
    <3>1. S!Ends(j, p, {}) /\ S!Answers(j, 0) /\ S!Moves(TRUE, j)
      BY <1>1, <1>4, <2>1, <2>3 DEF S!doRequest, S!jobs, Kind
    <3> QED
      BY <1>2, <2>1, <2>2, <2>3, <3>1, IdleStarts, PlainEnds
  <2>4. CASE more # {}
    <3>1. S!Ends(j, p, more) /\ UNCHANGED <<responses, linkMoved>>
      BY <1>1, <1>4, <2>1, <2>4 DEF S!doRequest, S!jobs, Kind, S!Moves
    <3>2. Passes(j, p, more)
      BY <1>2, <2>1, <2>2, <3>1, StartsBelong DEF Passes, S!Ends
    <3> QED
      BY <1>2, <3>1, <3>2, Quietly
  <2> QED
    BY <2>3, <2>4
<1> QED
  BY <1>3, <1>4

(* Every callback of the device.                                           *)
LEMMA DeviceKeeps ==
  ASSUME SATAInv, NEW j \in Jobs, S!Callback(j)
  PROVE  SATAInv'
BY SubmitKeeps, FlushKeeps, NandReadKeeps, DataOutKeeps, DataInKeeps, NandWriteKeeps,
   ReadBitsKeeps, NoticeKeeps, RequestKeeps DEF S!Callback

-----------------------------------------------------------------------------
(* The adapter *)

(* Responses that belong to a command move n places forward, and none is   *)
(* added.                                                                  *)
Forward(n) ==
  /\ responses' = [queue |-> responses'.queue, writes |-> responses'.writes]
  /\ responses'.queue \in Seq(Responses)
  /\ \A i \in DOMAIN responses'.queue :
       responses'.queue[i].slot # 0 \/ responses'.queue[i].then # 0 =>
         /\ i + n \in DOMAIN responses.queue
         /\ responses'.queue[i] = responses.queue[i + n]

(* A response that belongs to no command is added, or none.                *)
LEMMA ForwardNone ==
  ASSUME PlaceInv, NEW r, Grows(r), r.slot = 0, r.then = 0
  PROVE  Forward(0)
<1>1. /\ responses' = [queue |-> responses'.queue, writes |-> responses'.writes]
      /\ responses'.queue \in Seq(Responses)
  BY DEF Grows
<1>2. ASSUME NEW i \in DOMAIN responses'.queue,
             responses'.queue[i].slot # 0 \/ responses'.queue[i].then # 0
      PROVE  i + 0 \in DOMAIN responses.queue /\ responses'.queue[i] = responses.queue[i + 0]
  <2>1. i \in Nat
    BY <1>1
  <2>2. i \in DOMAIN responses.queue
    BY <1>2 DEF Grows
  <2> QED
    BY <2>1, <2>2 DEF Grows
<1> QED
  BY <1>1, <1>2 DEF Forward

(* Nobody new waits or answers.                                            *)
LEMMA ForwardWaits ==
  ASSUME NEW n \in Nat, Forward(n)
  PROVE  /\ \A k : k # 0 /\ Waits(k)' => Waits(k)
         /\ \A s : s # 0 /\ Answering(s)' => Answering(s)
<1>1. ASSUME NEW k, k # 0, Waits(k)' PROVE Waits(k)
  <2>1. PICK i \in DOMAIN responses'.queue : responses'.queue[i].then = k
    BY <1>1 DEF Waits
  <2> QED
    BY <1>1, <2>1 DEF Forward, Waits
<1>2. ASSUME NEW s, s # 0, Answering(s)' PROVE Answering(s)
  <2>1. PICK i \in DOMAIN responses'.queue : responses'.queue[i].slot = s
    BY <1>2 DEF Answering
  <2> QED
    BY <1>2, <2>1 DEF Forward, Answering
<1> QED
  BY <1>1, <1>2

(* Two of them moved from two.                                             *)
LEMMA ForwardOne ==
  ASSUME NEW n \in Nat, Forward(n), NEW i \in DOMAIN responses'.queue, NEW m \in DOMAIN responses'.queue,
         i + n = m + n
  PROVE  i = m
<1>1. i \in Nat /\ m \in Nat
  BY DEF Forward
<1> QED
  BY <1>1

(* The front response goes, PxCI loses the bit of its slot, and the data   *)
(* of a queued write starts to move; or (n = 0) nothing of it happens.     *)
Acknowledged(n) ==
  /\ n \in {0, 1} /\ Forward(n)
  /\ UNCHANGED <<jobs, issued, sact, requests, linkMoved, complete>>
  /\ n = 0 => UNCHANGED <<ci, pending>>
  /\ n = 1 => LET f == responses.queue[1] IN
       /\ 1 \in DOMAIN responses.queue /\ ci' = ci \ {f.slot}
       /\ pending' = IF f.then = 0 THEN pending ELSE pending \union {<<f.then, "in">>}

(* What starts, and what it belonged to.                                   *)
LEMMA AckStarts ==
  ASSUME SATAInv, NEW n, Acknowledged(n), NEW k, NEW q, <<k, q>> \in pending', <<k, q>> \notin pending
  PROVE  /\ n = 1 /\ q = "in" /\ k = responses.queue[1].then /\ k # 0 /\ Waits(k) /\ k \in Jobs
         /\ Kind(k) = "writeq" /\ Slot(k) \in sact /\ k \notin complete /\ ~Waits(k)'
<1>1. n = 1 /\ 1 \in DOMAIN responses.queue /\ k = responses.queue[1].then /\ q = "in" /\ k # 0
  BY DEF Acknowledged
<1>2. /\ k \in Jobs /\ Kind(k) = "writeq" /\ Slot(k) \in sact /\ k \notin complete
      /\ \A m \in DOMAIN responses.queue : responses.queue[m].then = k => m = 1
  BY <1>1 DEF SATAInv, BitInv
<1>3. Waits(k)
  BY <1>1 DEF Waits
<1>4. ASSUME Waits(k)' PROVE FALSE
  <2>1. PICK i \in DOMAIN responses'.queue : responses'.queue[i].then = k
    BY <1>4 DEF Waits
  <2>2. i \in Nat /\ i # 0 /\ i + 1 \in DOMAIN responses.queue /\ responses.queue[i + 1].then = k
    BY <1>1, <2>1 DEF Acknowledged, Forward
  <2> QED
    BY <1>2, <2>2
<1> QED
  BY <1>1, <1>2, <1>3, <1>4

(* Types and PxSACT.                                                       *)
LEMMA AckBits ==
  ASSUME SATAInv, NEW n, Acknowledged(n)
  PROVE  LinkInv(S!Kinds)' /\ (jobs \in SATAWorkloads)' /\ PlaceInv' /\ S!CompletedIsDone' /\ BitInv'
<1>1. UNCHANGED <<jobs, issued, sact, requests, linkMoved, complete>> /\ n \in {0, 1} /\ Forward(n)
      /\ pending \subseteq pending'
  BY DEF Acknowledged
<1>2. /\ Jobs' = Jobs /\ Open' = Open
      /\ \A k : /\ Slot(k)' = Slot(k) /\ Kind(k)' = Kind(k) /\ (Latest(k)' <=> Latest(k))
                /\ (IsQueued(k)' <=> IsQueued(k))
                /\ \A q : SHolds(k, q)' <=> SHolds(k, q)
  BY <1>1, SameJobs
<1>3. LinkInv(S!Kinds) /\ PlaceInv /\ BitInv
  BY DEF SATAInv
<1>4. LinkInv(S!Kinds)' /\ (jobs \in SATAWorkloads)' /\ S!CompletedIsDone'
  BY <1>1, <1>2 DEF SATAInv, LinkInv, S!CompletedIsDone, S!jobs, S!Queued
<1>5. PlaceInv'
  <2>1. ASSUME NEW k, NEW q, <<k, q>> \in pending', <<k, q>> \notin pending
        PROVE  k \in Jobs /\ q \in SPieces /\ Belongs(k, q)'
    BY <1>2, <2>1, AckStarts DEF SPieces, Belongs
  <2>2. ASSUME NEW k \in Jobs, NEW q \in SPieces, <<k, q>> \in pending' PROVE Belongs(k, q)'
    BY <1>1, <1>2, <1>3, <2>1, <2>2 DEF PlaceInv, Belongs
  <2>3. pending' \subseteq Jobs \X SPieces
    <3>1. pending' \subseteq pending \union {<<responses.queue[1].then, "in">>}
      BY DEF Acknowledged
    <3>2. ASSUME NEW e \in pending' PROVE e \in Jobs \X SPieces
      BY <1>3, <2>1, <3>1 DEF PlaceInv
    <3> QED
      BY <3>2
  <2> QED
    BY <1>1, <1>2, <2>2, <2>3 DEF PlaceInv, Forward
<1>6. \A k \in Jobs : IsQueued(k) /\ k \notin linkMoved' => Slot(k) \in sact'
  BY <1>1, <1>3 DEF BitInv
<1>7. \A k \in Jobs : Waits(k)' => Waits(k)
  BY <1>1, <1>3, ForwardWaits DEF Jobs
<1>8. ASSUME NEW k \in Jobs, NEW q \in SPieces, <<k, q>> \in pending', SHolds(k, q)
      PROVE  /\ Slot(k) \in sact' /\ k \notin complete /\ ~Waits(k)'
             /\ \A o \in SPieces : <<k, o>> \in pending' /\ SHolds(k, o) => Together(q, o)
  <2>1. CASE <<k, q>> \in pending
    <3>1. /\ Slot(k) \in sact /\ k \notin complete /\ ~Waits(k)
          /\ \A o \in SPieces : <<k, o>> \in pending /\ SHolds(k, o) => Together(q, o)
      BY <1>3, <1>8, <2>1 DEF BitInv
    <3>2. \A o \in SPieces : <<k, o>> \in pending' => <<k, o>> \in pending
      BY <3>1, AckStarts
    <3> QED
      BY <1>1, <1>7, <3>1, <3>2
  <2>2. CASE <<k, q>> \notin pending
    <3>1. q = "in" /\ Slot(k) \in sact /\ k \notin complete /\ ~Waits(k)' /\ Waits(k)
      BY <1>8, <2>2, AckStarts
    <3>2. ASSUME NEW o \in SPieces, <<k, o>> \in pending', SHolds(k, o) PROVE Together(q, o)
      <4>1. <<k, o>> \notin pending
        BY <1>3, <3>1, <3>2 DEF BitInv
      <4>2. o = "in"
        BY <3>2, <4>1, AckStarts
      <4> QED
        BY <3>1, <4>2 DEF Together
    <3> QED
      BY <1>1, <3>1, <3>2
  <2> QED
    BY <2>1, <2>2
<1>9. ASSUME NEW i \in DOMAIN responses'.queue, NEW k, k = responses'.queue[i].then, k # 0
      PROVE  /\ k \in Jobs /\ Kind(k) = "writeq" /\ Slot(k) \in sact' /\ k \notin complete
             /\ \A m \in DOMAIN responses'.queue : responses'.queue[m].then = k => m = i
  <2>1. i + n \in DOMAIN responses.queue /\ responses.queue[i + n].then = k
    BY <1>1, <1>9 DEF Forward
  <2>2. /\ k \in Jobs /\ Kind(k) = "writeq" /\ Slot(k) \in sact /\ k \notin complete
        /\ \A m \in DOMAIN responses.queue : responses.queue[m].then = k => m = i + n
    BY <1>3, <1>9, <2>1 DEF BitInv
  <2>3. ASSUME NEW m \in DOMAIN responses'.queue, responses'.queue[m].then = k PROVE m = i
    <3>1. m + n \in DOMAIN responses.queue /\ responses.queue[m + n].then = k
      BY <1>1, <1>9, <2>3 DEF Forward
    <3>2. m + n = i + n
      BY <2>2, <3>1
    <3> QED
      BY <1>1, <3>2, ForwardOne
  <2> QED
    BY <1>1, <2>2, <2>3
<1>10. ASSUME NEW i \in DOMAIN requests, NEW k \in Jobs, requests[i] = Slot(k), IsQueued(k), Latest(k)
       PROVE  /\ Slot(k) \in sact' /\ k \notin complete /\ ~Waits(k)'
              /\ \A q \in SPieces : <<k, q>> \in pending' => ~SHolds(k, q)
              /\ \A m \in DOMAIN requests : requests[m] = requests[i] => m = i
  <2>1. /\ Slot(k) \in sact /\ k \notin complete /\ ~Waits(k)
        /\ \A q \in SPieces : <<k, q>> \in pending => ~SHolds(k, q)
        /\ \A m \in DOMAIN requests : requests[m] = requests[i] => m = i
    BY <1>3, <1>10 DEF BitInv
  <2>2. \A q \in SPieces : <<k, q>> \in pending' => <<k, q>> \in pending
    BY <2>1, AckStarts
  <2> QED
    BY <1>1, <1>7, <2>1, <2>2
<1>11. requests' = requests /\ complete' = complete
  BY <1>1
<1>12. BitInv'
  BY <1>2, <1>6, <1>8, <1>9, <1>10, <1>11 DEF BitInv
<1> QED
  BY <1>4, <1>5, <1>12

(* PxCI.                                                                   *)
LEMMA AckIssue ==
  ASSUME SATAInv, NEW n, Acknowledged(n)
  PROVE  IssueInv'
<1>1. UNCHANGED <<jobs, issued, sact, requests, linkMoved, complete>> /\ n \in {0, 1} /\ Forward(n)
  BY DEF Acknowledged
<1>2. /\ Jobs' = Jobs /\ Open' = Open
      /\ \A k : /\ Slot(k)' = Slot(k) /\ (IsQueued(k)' <=> IsQueued(k))
                /\ \A q : CHolds(k, q)' <=> CHolds(k, q)
  BY <1>1, SameJobs
<1>3. LinkInv(S!Kinds) /\ PlaceInv /\ IssueInv
  BY DEF SATAInv
<1>4. ci' \subseteq ci
  BY DEF Acknowledged
<1>5. ASSUME NEW s \in ci, s \notin ci'
      PROVE  /\ s # 0 => /\ Answering(s)
                         /\ \A k \in Open : Slot(k) = s /\ ~IsQueued(k) => k \in linkMoved
             /\ ~ (s # 0 /\ Answering(s)')
  <2>1. n = 1 /\ 1 \in DOMAIN responses.queue /\ s = responses.queue[1].slot
    BY <1>5 DEF Acknowledged
  <2>2. CASE s # 0
    <3>1. /\ \A m \in DOMAIN responses.queue : responses.queue[m].slot = s => m = 1
          /\ \A k \in Open : Slot(k) = s /\ ~IsQueued(k) => k \in linkMoved
      BY <1>3, <2>1, <2>2 DEF IssueInv
    <3>2. Answering(s)
      BY <2>1 DEF Answering
    <3>3. ASSUME Answering(s)' PROVE FALSE
      <4>1. PICK i \in DOMAIN responses'.queue : responses'.queue[i].slot = s
        BY <3>3 DEF Answering
      <4>2. i \in Nat /\ i # 0 /\ i + 1 \in DOMAIN responses.queue /\ responses.queue[i + 1].slot = s
        BY <1>1, <2>1, <2>2, <4>1 DEF Forward
      <4> QED
        BY <3>1, <4>2
    <3> QED
      BY <3>1, <3>2, <3>3
  <2> QED
    BY <2>2
<1>6. \A k \in Jobs, q \in SPieces : <<k, q>> \in pending' /\ CHolds(k, q) => <<k, q>> \in pending
  <2>1. ASSUME NEW k \in Jobs, NEW q \in SPieces, <<k, q>> \in pending', <<k, q>> \notin pending
        PROVE  ~CHolds(k, q)
    BY <2>1, AckStarts DEF CHolds, IsQueued, S!Queued
  <2> QED
    BY <2>1
<1>7. \A s : s # 0 /\ Answering(s)' => Answering(s)
  BY <1>1, ForwardWaits
<1>8. \A s \in ci' : \E k \in Open : Slot(k) = s
  BY <1>3, <1>4 DEF IssueInv
<1>9. ASSUME NEW k \in Jobs, ~IsQueued(k), Slot(k) # 0, k \notin linkMoved PROVE Slot(k) \in ci'
  <2>1. Slot(k) \in ci
    BY <1>3, <1>9 DEF IssueInv
  <2>2. k \in Open
    BY <1>9 DEF SATAInv, S!CompletedIsDone, S!jobs, Slot, Open
  <2> QED
    BY <1>5, <1>9, <2>1, <2>2
<1>10. ASSUME NEW k \in Jobs, NEW q \in SPieces, <<k, q>> \in pending', CHolds(k, q)
       PROVE  /\ Slot(k) \in ci' /\ k \notin complete /\ ~Answering(Slot(k))'
              /\ \A o \in SPieces : <<k, o>> \in pending' /\ CHolds(k, o) => Together(q, o)
  <2>1. /\ Slot(k) \in ci /\ k \notin complete /\ ~Answering(Slot(k)) /\ Slot(k) # 0
        /\ \A o \in SPieces : <<k, o>> \in pending /\ CHolds(k, o) => Together(q, o)
    BY <1>3, <1>6, <1>10 DEF IssueInv, CHolds
  <2>2. Slot(k) \in ci'
    BY <1>5, <2>1
  <2>3. PICK s : s = Slot(k)
    OBVIOUS
  <2>4. ~Answering(s)'
    BY <1>7, <2>1, <2>3
  <2>5. ~Answering(Slot(k))'
    BY <1>2, <2>3, <2>4 DEF Answering
  <2> QED
    BY <1>6, <2>1, <2>2, <2>5
<1>11. ASSUME NEW i \in DOMAIN responses'.queue, NEW s, s = responses'.queue[i].slot, s # 0
       PROVE  /\ s \in ci'
              /\ \A m \in DOMAIN responses'.queue : responses'.queue[m].slot = s => m = i
              /\ \A k \in Open : Slot(k) = s /\ ~IsQueued(k) => k \in linkMoved
  <2>1. i + n \in DOMAIN responses.queue /\ responses.queue[i + n].slot = s
    BY <1>1, <1>11 DEF Forward
  <2>2. /\ s \in ci
        /\ \A m \in DOMAIN responses.queue : responses.queue[m].slot = s => m = i + n
        /\ \A k \in Open : Slot(k) = s /\ ~IsQueued(k) => k \in linkMoved
    BY <1>3, <1>11, <2>1 DEF IssueInv
  <2>3. s \in ci'
    <3>1. Answering(s)'
      BY <1>11 DEF Answering
    <3> QED
      BY <1>5, <1>11, <2>2, <3>1
  <2>4. ASSUME NEW m \in DOMAIN responses'.queue, responses'.queue[m].slot = s PROVE m = i
    <3>1. m + n \in DOMAIN responses.queue /\ responses.queue[m + n].slot = s
      BY <1>1, <1>11, <2>4 DEF Forward
    <3>2. m + n = i + n
      BY <2>2, <3>1
    <3> QED
      BY <1>1, <3>2, ForwardOne
  <2> QED
    BY <2>2, <2>3, <2>4
<1>12. \A i \in DOMAIN requests : requests[i] # 0 =>
         /\ requests[i] \in ci' /\ ~Answering(requests[i])'
         /\ \A m \in DOMAIN requests : requests[m] = requests[i] => m = i
         /\ \A k \in Open, q \in SPieces :
              Slot(k) = requests[i] /\ <<k, q>> \in pending' => ~CHolds(k, q)
  <2>1. ASSUME NEW i \in DOMAIN requests, requests[i] # 0
        PROVE  /\ requests[i] \in ci' /\ ~Answering(requests[i])'
               /\ \A m \in DOMAIN requests : requests[m] = requests[i] => m = i
               /\ \A k \in Open, q \in SPieces :
                    Slot(k) = requests[i] /\ <<k, q>> \in pending' => ~CHolds(k, q)
    <3>1. PICK s : s = requests[i]
      OBVIOUS
    <3>2. /\ s \in ci /\ ~Answering(s)
          /\ \A m \in DOMAIN requests : requests[m] = s => m = i
          /\ \A k \in Open, q \in SPieces : Slot(k) = s /\ <<k, q>> \in pending => ~CHolds(k, q)
      BY <1>3, <2>1, <3>1 DEF IssueInv
    <3>3. s \in ci' /\ ~Answering(s)'
      BY <1>5, <1>7, <2>1, <3>1, <3>2
    <3>4. ~Answering(requests[i])'
      BY <1>1, <3>1, <3>3 DEF Answering
    <3> QED
      BY <1>6, <3>1, <3>2, <3>3, <3>4 DEF Open
  <2> QED
    BY <2>1
<1>13. requests' = requests /\ complete' = complete /\ linkMoved' = linkMoved
  BY <1>1
<1> QED
  BY <1>2, <1>8, <1>9, <1>10, <1>11, <1>12, <1>13 DEF IssueInv

(* Together.                                                               *)
LEMMA AckKeeps ==
  ASSUME SATAInv, NEW n, Acknowledged(n)
  PROVE  SATAInv'
BY AckBits, AckIssue DEF SATAInv

(* A step that leaves the commands alone, and adds at most one response    *)
(* that belongs to none.                                                   *)
LEMMA AsideKeeps ==
  ASSUME SATAInv, NEW r, Grows(r), r.slot = 0, r.then = 0,
         UNCHANGED <<jobs, issued, ci, sact, requests, pending, linkMoved, complete>>
  PROVE  SATAInv'
<1>1. Forward(0)
  BY ForwardNone DEF SATAInv
<1>2. Acknowledged(0)
  BY <1>1 DEF Acknowledged
<1> QED
  BY <1>2, AckKeeps

(* The same, without a response.                                           *)
LEMMA IdleKeeps ==
  ASSUME SATAInv, UNCHANGED <<jobs, issued, ci, sact, requests, pending, linkMoved, complete, responses>>
  PROVE  SATAInv'
<1>1. PICK r : r = S!Completion(0, "setup", 0)
  OBVIOUS
<1>2. Grows(r)
  BY GrowsByNone DEF SATAInv
<1>3. r.slot = 0 /\ r.then = 0
  BY <1>1, CompletionFacts
<1> QED
  BY <1>2, <1>3, AsideKeeps

(* HBAReset, EnableInterrupt, Start, Stop and EnterHandler                 *)
LEMMA SwitchKeeps ==
  ASSUME SATAInv, S!HBAReset \/ S!EnableInterrupt \/ S!Start \/ S!Stop \/ S!EnterHandler
  PROVE  SATAInv'
<1>1. UNCHANGED <<jobs, issued, ci, sact, requests, pending, linkMoved, complete, responses>>
  BY DEF S!HBAReset, S!EnableInterrupt, S!Start, S!Stop, S!EnterHandler
<1> QED
  BY <1>1, IdleKeeps

(* Connect                                                                 *)
LEMMA ConnectKeeps ==
  ASSUME SATAInv, S!Connect
  PROVE  SATAInv'
<1>1. PICK r : r = S!Completion(0, "signal", 0)
  OBVIOUS
<1>2. r \in Responses /\ r.slot = 0 /\ r.then = 0
  BY <1>1, CompletionFacts
<1>3. PICK q : q = responses.queue
  OBVIOUS
<1>4. q \in Seq(Responses)
  BY <1>3 DEF SATAInv, PlaceInv
<1>5. PICK w : responses' = [queue |-> Append(q, r), writes |-> w]
  BY <1>1, <1>3 DEF S!Connect, S!Signature
<1>6. PICK a : a = Append(q, r)
  OBVIOUS
<1>7. responses'.queue = a /\ responses' = [queue |-> responses'.queue, writes |-> responses'.writes]
  BY <1>5, <1>6
<1>8. /\ Append(q, r) \in Seq(Responses) /\ DOMAIN q = 1..Len(q) /\ Len(q) \in Nat
      /\ DOMAIN Append(q, r) = 1..(Len(q) + 1)
      /\ \A i \in 1..Len(q) : Append(q, r)[i] = q[i]
      /\ Append(q, r)[Len(q) + 1] = r
  BY <1>2, <1>4
<1>9. Grows(r)
  BY <1>3, <1>6, <1>7, <1>8 DEF Grows
<1>10. UNCHANGED <<jobs, issued, ci, sact, requests, pending, linkMoved, complete>>
  BY DEF S!Connect
<1> QED
  BY <1>2, <1>9, <1>10, AsideKeeps

(* FISWritten                                                              *)
LEMMA WrittenKeeps ==
  ASSUME SATAInv, S!FISWritten
  PROVE  SATAInv'
<1>1. PICK q : q = responses.queue
  OBVIOUS
<1>2. PICK w : w = responses.writes
  OBVIOUS
<1>3. q \in Seq(Responses) /\ responses = [queue |-> q, writes |-> w]
  BY <1>1, <1>2 DEF SATAInv, PlaceInv
<1>4. responses' = [queue |-> q, writes |-> Tail(w)]
  BY <1>3 DEF S!FISWritten
<1>5. responses'.queue = q /\ responses' = [queue |-> responses'.queue, writes |-> responses'.writes]
  BY <1>4
<1>6. PICK r : r = S!Completion(0, "setup", 0)
  OBVIOUS
<1>7. Grows(r)
  BY <1>1, <1>3, <1>5 DEF Grows
<1>8. r.slot = 0 /\ r.then = 0
  BY <1>6, CompletionFacts
<1>9. UNCHANGED <<jobs, issued, ci, sact, requests, pending, linkMoved, complete>>
  BY DEF S!FISWritten
<1> QED
  BY <1>7, <1>8, <1>9, AsideKeeps

(* The fields of the response queue.                                       *)
LEMMA QueueFields ==
  ASSUME NEW q, NEW w, NEW d, d = [queue |-> q, writes |-> w], NEW x
  PROVE  /\ d.queue = q /\ d.writes = w
         /\ [d EXCEPT !.queue = x] = [queue |-> x, writes |-> w]
         /\ [d EXCEPT !.writes = x] = [queue |-> q, writes |-> x]
OBVIOUS

(* handleResponse writes the FIS of the front response.                    *)
LEMMA HandleFields ==
  ASSUME NEW q, NEW w, NEW d, d = [queue |-> q, writes |-> w]
  PROVE  S!handleResponse(d) = [queue |-> q, writes |-> Append(w, Head(q).fis)]
<1>1. d.queue = q /\ d.writes = w
  BY QueueFields
<1>2. PICK x : x = Append(w, Head(q).fis)
  OBVIOUS
<1>3. [d EXCEPT !.writes = x] = [queue |-> q, writes |-> x]
  BY QueueFields
<1> QED
  BY <1>1, <1>2, <1>3 DEF S!handleResponse

(* The front response goes, others move forward and the next is written.   *)
LEMMA FrontGoes ==
  ASSUME PlaceInv, responses.queue # <<>>, NEW sent,
         LET left == [responses EXCEPT !.queue = Tail(@)]
         IN  sent = IF left.queue = <<>> THEN left ELSE S!handleResponse(left)
  PROVE  \E w : sent = [queue |-> Tail(responses.queue), writes |-> w]
<1>1. PICK q : q = responses.queue
  OBVIOUS
<1>2. PICK w : w = responses.writes
  OBVIOUS
<1>3. responses = [queue |-> q, writes |-> w]
  BY <1>1, <1>2 DEF PlaceInv
<1>4. PICK t : t = Tail(q)
  OBVIOUS
<1>5. [responses EXCEPT !.queue = t] = [queue |-> t, writes |-> w]
  BY <1>3, QueueFields
<1>6. PICK left : left = [queue |-> t, writes |-> w] /\ left = [responses EXCEPT !.queue = Tail(@)]
  BY <1>1, <1>4, <1>5
<1>7. S!handleResponse(left) = [queue |-> t, writes |-> Append(w, Head(t).fis)]
  BY <1>6, HandleFields
<1>8. sent = left \/ sent = S!handleResponse(left)
  BY <1>6
<1> QED
  BY <1>1, <1>4, <1>6, <1>7, <1>8

(* What stands where afterwards: the tail, or the tail and a DMA setup.    *)
LEMMA ForwardFront ==
  ASSUME NEW q \in Seq(Responses), q # <<>>, q = responses.queue, NEW w,
         \/ responses' = [queue |-> Tail(q), writes |-> w]
         \/ responses' = [queue |-> Append(Tail(q), S!Completion(0, "setup", 0)), writes |-> w]
  PROVE  Forward(1)
<1>1. PICK r : r = S!Completion(0, "setup", 0)
  OBVIOUS
<1>2. r \in Responses /\ r.slot = 0 /\ r.then = 0
  BY <1>1, CompletionFacts
<1>3. PICK t : t = Tail(q)
  OBVIOUS
<1>4. /\ t \in Seq(Responses) /\ DOMAIN t = 1..Len(t) /\ Len(t) \in Nat /\ Len(q) = Len(t) + 1
      /\ DOMAIN q = 1..Len(q) /\ \A i \in 1..Len(t) : t[i] = q[i + 1]
  BY <1>3
<1>5. PICK a : a = Append(t, r)
  OBVIOUS
<1>6. /\ a \in Seq(Responses) /\ DOMAIN a = 1..(Len(t) + 1) /\ \A i \in 1..Len(t) : a[i] = t[i]
      /\ a[Len(t) + 1] = r
  BY <1>2, <1>4, <1>5
<1>7. CASE responses' = [queue |-> t, writes |-> w]
  <2>1. responses'.queue = t /\ responses' = [queue |-> responses'.queue, writes |-> responses'.writes]
    BY <1>7
  <2> QED
    BY <1>4, <2>1 DEF Forward
<1>8. CASE responses' = [queue |-> a, writes |-> w]
  <2>1. responses'.queue = a /\ responses' = [queue |-> responses'.queue, writes |-> responses'.writes]
    BY <1>8
  <2>2. ASSUME NEW i \in DOMAIN a, a[i].slot # 0 \/ a[i].then # 0
        PROVE  i + 1 \in DOMAIN q /\ a[i] = q[i + 1]
    BY <1>2, <1>4, <1>6, <2>2
  <2> QED
    BY <1>6, <2>1, <2>2 DEF Forward
<1> QED
  BY <1>1, <1>3, <1>5, <1>7, <1>8

(* AckPort                                                                 *)
LEMMA AckPortKeeps ==
  ASSUME SATAInv, S!AckPort
  PROVE  SATAInv'
<1>1. UNCHANGED <<jobs, issued, sact, requests, linkMoved, complete>> /\ S!WritePxIS /\ PlaceInv
  BY DEF S!AckPort, SATAInv
<1>2. CASE ~(responses.queue # <<>> /\ Head(responses.queue).fis \notin is')
  <2>1. UNCHANGED <<ci, responses, pending>>
    BY <1>1, <1>2 DEF S!WritePxIS
  <2> QED
    BY <1>1, <2>1, IdleKeeps
<1>3. CASE responses.queue # <<>> /\ Head(responses.queue).fis \notin is'
  <2>1. PICK sent : LET left == [responses EXCEPT !.queue = Tail(@)]
                    IN  sent = IF left.queue = <<>> THEN left ELSE S!handleResponse(left)
    OBVIOUS
  <2>2. PICK f : f = Head(responses.queue)
    OBVIOUS
  <2>3. /\ ci' = ci \ {f.slot}
        /\ f.then = 0 => responses' = sent /\ pending' = pending
        /\ f.then # 0 => responses' = S!writeDMASetup(sent) /\ pending' = pending \union {<<f.then, "in">>}
    BY <1>1, <1>3, <2>1, <2>2 DEF S!WritePxIS
  <2>4. PICK q : q = responses.queue
    OBVIOUS
  <2>5. q \in Seq(Responses) /\ q # <<>>
    BY <1>1, <1>3, <2>4 DEF PlaceInv
  <2>6. PICK w : sent = [queue |-> Tail(q), writes |-> w]
    BY <1>1, <1>3, <2>1, <2>4, FrontGoes
  <2>7. Forward(1)
    <3>1. CASE f.then = 0
      BY <2>3, <2>4, <2>5, <2>6, <3>1, ForwardFront
    <3>2. CASE f.then # 0
      <4>1. PICK t : t = Tail(q)
        OBVIOUS
      <4>2. PICK r : r = S!Completion(0, "setup", 0)
        OBVIOUS
      <4>3. [sent EXCEPT !.queue = Append(@, r)] = [queue |-> Append(t, r), writes |-> w]
        <5>1. sent.queue = t
          BY <2>6, <4>1, QueueFields
        <5>2. PICK a : a = Append(t, r)
          OBVIOUS
        <5>3. [sent EXCEPT !.queue = a] = [queue |-> a, writes |-> w]
          BY <2>6, <4>1, QueueFields
        <5> QED
          BY <5>1, <5>2, <5>3
      <4>4. S!writeDMASetup(sent) = S!handleResponse([queue |-> Append(t, r), writes |-> w])
        BY <4>2, <4>3 DEF S!writeDMASetup, S!submitFIS
      <4>5. PICK d : d = [queue |-> Append(t, r), writes |-> w]
        OBVIOUS
      <4>6. S!handleResponse(d) = [queue |-> Append(t, r), writes |-> Append(w, Head(Append(t, r)).fis)]
        BY <4>5, HandleFields
      <4>7. PICK v : v = Append(w, Head(Append(t, r)).fis)
        OBVIOUS
      <4>8. S!writeDMASetup(sent) = [queue |-> Append(t, r), writes |-> v]
        BY <4>4, <4>5, <4>6, <4>7
      <4> QED
        BY <2>3, <2>4, <2>5, <3>2, <4>1, <4>2, <4>8, ForwardFront
    <3> QED
      BY <3>1, <3>2
  <2>8. 1 \in DOMAIN q /\ f = q[1]
    BY <2>2, <2>4, <2>5
  <2>9. Acknowledged(1)
    BY <1>1, <2>3, <2>4, <2>7, <2>8 DEF Acknowledged
  <2> QED
    BY <2>9, AckKeeps
<1> QED
  BY <1>2, <1>3

(* The command a request stands for.                                       *)
LEMMA FetchFacts ==
  ASSUME SATAInv, requests # <<>>
  PROVE  LET s == Head(requests)  j == S!JobOf(s) IN
         /\ j \in Jobs /\ Slot(j) = s /\ Latest(j)
         /\ Len(requests) \in Nat /\ requests[1] = s /\ 1 \in DOMAIN requests
         /\ Tail(requests) \in Seq(Nat)
         /\ \A i \in DOMAIN Tail(requests) :
              i \in Nat /\ i # 0 /\ i + 1 \in DOMAIN requests /\ Tail(requests)[i] = requests[i + 1]
<1>1. requests \in Seq(Nat) /\ issued \in Nat
      /\ \A i \in DOMAIN requests : \E j \in Jobs : Slot(j) = requests[i]
  BY DEF SATAInv, LinkInv
<1>2. 1 \in DOMAIN requests /\ requests[1] = Head(requests) /\ Len(requests) \in Nat
  BY <1>1
<1>3. PICK k \in Jobs : Slot(k) = Head(requests)
  BY <1>1, <1>2
<1>4. S!JobOf(Head(requests)) \in Jobs /\ Slot(S!JobOf(Head(requests))) = Head(requests)
      /\ Latest(S!JobOf(Head(requests)))
  BY <1>1, <1>3, JobOfFact
<1>5. Tail(requests) \in Seq(Nat)
  BY <1>1
<1>6. ASSUME NEW i \in DOMAIN Tail(requests)
      PROVE  i \in Nat /\ i # 0 /\ i + 1 \in DOMAIN requests /\ Tail(requests)[i] = requests[i + 1]
  BY <1>1
<1> QED
  BY <1>2, <1>4, <1>5, <1>6

(* A request is taken: its command begins.                                 *)
HeaderRead(j) ==
  /\ j \in Jobs /\ Latest(j) /\ 1 \in DOMAIN requests /\ requests[1] = Slot(j)
  /\ UNCHANGED <<jobs, issued, ci, sact, responses, linkMoved, complete>>
  /\ pending' = pending \union {<<j, "header">>} /\ requests' \in Seq(Nat)
  /\ \A i \in DOMAIN requests' :
       i \in Nat /\ i # 0 /\ i + 1 \in DOMAIN requests /\ requests'[i] = requests[i + 1]

(* What does not change.                                                   *)
LEMMA SameResponses ==
  ASSUME UNCHANGED responses
  PROVE  /\ \A k : Waits(k)' <=> Waits(k)
         /\ \A s : Answering(s)' <=> Answering(s)
BY DEF Waits, Answering

(* Types and PxSACT.                                                       *)
LEMMA FetchBits ==
  ASSUME SATAInv, NEW j, HeaderRead(j)
  PROVE  LinkInv(S!Kinds)' /\ (jobs \in SATAWorkloads)' /\ PlaceInv' /\ S!CompletedIsDone' /\ BitInv'
<1>1. /\ UNCHANGED <<jobs, issued, ci, sact, responses, linkMoved, complete>>
      /\ pending' = pending \union {<<j, "header">>} /\ j \in Jobs /\ Latest(j)
      /\ 1 \in DOMAIN requests /\ requests[1] = Slot(j)
  BY DEF HeaderRead
<1>2. /\ Jobs' = Jobs /\ Open' = Open
      /\ \A k : /\ Slot(k)' = Slot(k) /\ Kind(k)' = Kind(k) /\ (Latest(k)' <=> Latest(k))
                /\ (IsQueued(k)' <=> IsQueued(k))
                /\ \A q : SHolds(k, q)' <=> SHolds(k, q)
  BY <1>1, SameJobs
<1>3. LinkInv(S!Kinds) /\ PlaceInv /\ BitInv
  BY DEF SATAInv
<1>4. /\ requests' \in Seq(Nat)
      /\ \A i \in DOMAIN requests' :
           i \in Nat /\ i # 0 /\ i + 1 \in DOMAIN requests /\ requests'[i] = requests[i + 1]
  BY DEF HeaderRead
<1>5. (jobs \in SATAWorkloads)' /\ S!CompletedIsDone'
  BY <1>1 DEF SATAInv, S!CompletedIsDone, S!jobs, S!Queued
<1>6. LinkInv(S!Kinds)'
  <2>1. \A i \in DOMAIN requests' : \E k \in Jobs : Slot(k) = requests'[i]
    BY <1>3, <1>4 DEF LinkInv
  <2> QED
    BY <1>1, <1>2, <1>3, <1>4, <2>1 DEF LinkInv
<1>7. PlaceInv'
  <2>1. ASSUME NEW k \in Jobs, NEW q \in SPieces, <<k, q>> \in pending' PROVE Belongs(k, q)'
    BY <1>1, <1>2, <1>3, <2>1 DEF PlaceInv, Belongs
  <2>2. pending' \subseteq Jobs \X SPieces
    BY <1>1, <1>3 DEF PlaceInv, SPieces
  <2> QED
    BY <1>1, <1>2, <1>3, <2>1, <2>2 DEF PlaceInv
<1>8. \A k : Waits(k)' <=> Waits(k)
  BY <1>1, SameResponses
<1>9. IsQueued(j) => /\ Slot(j) \in sact /\ j \notin complete /\ ~Waits(j)
                     /\ \A p \in SPieces : <<j, p>> \in pending => ~SHolds(j, p)
                     /\ \A k \in DOMAIN requests : requests[k] = requests[1] => k = 1
  BY <1>1, <1>3 DEF BitInv
<1>10. ASSUME NEW k \in Jobs, NEW q \in SPieces, <<k, q>> \in pending', SHolds(k, q)
       PROVE  /\ Slot(k) \in sact /\ k \notin complete /\ ~Waits(k)
              /\ \A o \in SPieces : <<k, o>> \in pending' /\ SHolds(k, o) => Together(q, o)
  <2>1. CASE k # j
    BY <1>1, <1>3, <1>10, <2>1 DEF BitInv
  <2>2. CASE k = j
    BY <1>1, <1>9, <1>10, <2>2 DEF SHolds, Together
  <2> QED
    BY <2>1, <2>2
<1>11. \A i \in DOMAIN responses'.queue :
         LET k == responses'.queue[i].then IN
         k # 0 => /\ k \in Jobs /\ Kind(k) = "writeq" /\ Slot(k) \in sact /\ k \notin complete
                  /\ \A m \in DOMAIN responses'.queue : responses'.queue[m].then = k => m = i
  BY <1>1, <1>3 DEF BitInv
<1>12. ASSUME NEW i \in DOMAIN requests', NEW k \in Jobs, requests'[i] = Slot(k), IsQueued(k), Latest(k)
       PROVE  /\ Slot(k) \in sact /\ k \notin complete /\ ~Waits(k)
              /\ \A q \in SPieces : <<k, q>> \in pending' => ~SHolds(k, q)
              /\ \A m \in DOMAIN requests' : requests'[m] = requests'[i] => m = i
  <2>1. i \in Nat /\ i # 0 /\ i + 1 \in DOMAIN requests /\ requests[i + 1] = Slot(k)
    BY <1>4, <1>12
  <2>2. /\ Slot(k) \in sact /\ k \notin complete /\ ~Waits(k)
        /\ \A q \in SPieces : <<k, q>> \in pending => ~SHolds(k, q)
        /\ \A m \in DOMAIN requests : requests[m] = requests[i + 1] => m = i + 1
    BY <1>3, <1>12, <2>1 DEF BitInv
  <2>3. k # j
    BY <1>1, <2>1, <2>2
  <2>4. ASSUME NEW m \in DOMAIN requests', requests'[m] = requests'[i] PROVE m = i
    <3>1. m \in Nat /\ m + 1 \in DOMAIN requests /\ requests[m + 1] = requests[i + 1]
      BY <1>4, <1>12, <2>4
    <3>2. m + 1 = i + 1
      BY <2>2, <3>1
    <3> QED
      BY <2>1, <3>1, <3>2
  <2> QED
    BY <1>1, <2>2, <2>3, <2>4
<1>13. \A k \in Jobs : IsQueued(k) /\ k \notin linkMoved => Slot(k) \in sact
  BY <1>3 DEF BitInv
<1>14. sact' = sact /\ complete' = complete /\ linkMoved' = linkMoved
  BY <1>1
<1>15. BitInv'
  BY <1>2, <1>8, <1>10, <1>11, <1>12, <1>13, <1>14 DEF BitInv
<1> QED
  BY <1>5, <1>6, <1>7, <1>15

(* PxCI.                                                                   *)
LEMMA FetchIssue ==
  ASSUME SATAInv, NEW j, HeaderRead(j)
  PROVE  IssueInv'
<1>1. /\ UNCHANGED <<jobs, issued, ci, sact, responses, linkMoved, complete>>
      /\ pending' = pending \union {<<j, "header">>} /\ j \in Jobs /\ Latest(j)
      /\ 1 \in DOMAIN requests /\ requests[1] = Slot(j)
  BY DEF HeaderRead
<1>2. /\ Jobs' = Jobs /\ Open' = Open
      /\ \A k : /\ Slot(k)' = Slot(k) /\ (IsQueued(k)' <=> IsQueued(k))
                /\ \A q : CHolds(k, q)' <=> CHolds(k, q)
  BY <1>1, SameJobs
<1>3. LinkInv(S!Kinds) /\ PlaceInv /\ IssueInv
  BY DEF SATAInv
<1>4. \A i \in DOMAIN requests' :
        i \in Nat /\ i # 0 /\ i + 1 \in DOMAIN requests /\ requests'[i] = requests[i + 1]
  BY DEF HeaderRead
<1>5. (\A k : Waits(k)' <=> Waits(k)) /\ \A s : Answering(s)' <=> Answering(s)
  BY <1>1, SameResponses
<1>6. ASSUME Slot(j) # 0
      PROVE  /\ Slot(j) \in ci /\ j \in Open /\ ~Answering(Slot(j))
             /\ \A p \in SPieces : <<j, p>> \in pending => ~CHolds(j, p)
             /\ \A k \in DOMAIN requests : requests[k] = requests[1] => k = 1
  <2>1. /\ Slot(j) \in ci /\ ~Answering(Slot(j))
        /\ \A k \in DOMAIN requests : requests[k] = requests[1] => k = 1
        /\ \A k \in Open, p \in SPieces : Slot(k) = Slot(j) /\ <<k, p>> \in pending => ~CHolds(k, p)
    BY <1>1, <1>3, <1>6 DEF IssueInv
  <2>2. PICK m \in Open : Slot(m) = Slot(j)
    BY <1>3, <2>1 DEF IssueInv
  <2>3. m \in Jobs /\ Latest(m) /\ issued \in Nat
    BY <1>3, <2>2 DEF LinkInv, Open
  <2>4. m <= j /\ j <= m
    BY <1>1, <2>2, <2>3 DEF Latest
  <2>5. m = j
    BY <1>1, <2>3, <2>4 DEF Jobs
  <2> QED
    BY <2>1, <2>2, <2>5
<1>7. ASSUME NEW k \in Jobs, NEW q \in SPieces, <<k, q>> \in pending', CHolds(k, q)
      PROVE  /\ Slot(k) \in ci /\ k \notin complete /\ ~Answering(Slot(k))
             /\ \A o \in SPieces : <<k, o>> \in pending' /\ CHolds(k, o) => Together(q, o)
  <2>1. CASE k # j
    BY <1>1, <1>3, <1>7, <2>1 DEF IssueInv
  <2>2. CASE k = j
    <3>1. Slot(j) # 0
      BY <1>7, <2>2 DEF CHolds
    <3> QED
      BY <1>1, <1>6, <1>7, <2>2, <3>1 DEF Open, Together
  <2> QED
    BY <2>1, <2>2
<1>8. ASSUME NEW i \in DOMAIN requests', requests'[i] # 0
      PROVE  /\ requests'[i] \in ci /\ ~Answering(requests'[i])
             /\ \A m \in DOMAIN requests' : requests'[m] = requests'[i] => m = i
             /\ \A k \in Open, q \in SPieces :
                  Slot(k) = requests'[i] /\ <<k, q>> \in pending' => ~CHolds(k, q)
  <2>1. i \in Nat /\ i # 0 /\ i + 1 \in DOMAIN requests /\ requests'[i] = requests[i + 1]
    BY <1>4, <1>8
  <2>2. /\ requests[i + 1] \in ci /\ ~Answering(requests[i + 1])
        /\ \A m \in DOMAIN requests : requests[m] = requests[i + 1] => m = i + 1
        /\ \A k \in Open, q \in SPieces :
             Slot(k) = requests[i + 1] /\ <<k, q>> \in pending => ~CHolds(k, q)
    BY <1>3, <1>8, <2>1 DEF IssueInv
  <2>3. Slot(j) # requests[i + 1]
    BY <1>1, <2>1, <2>2
  <2>4. ASSUME NEW m \in DOMAIN requests', requests'[m] = requests'[i] PROVE m = i
    <3>1. m \in Nat /\ m + 1 \in DOMAIN requests /\ requests[m + 1] = requests[i + 1]
      BY <1>4, <2>1, <2>4
    <3>2. m + 1 = i + 1
      BY <2>2, <3>1
    <3> QED
      BY <2>1, <3>1, <3>2
  <2>5. ASSUME NEW k \in Open, NEW q \in SPieces, Slot(k) = requests'[i], <<k, q>> \in pending'
        PROVE  ~CHolds(k, q)
    BY <1>1, <2>1, <2>2, <2>3, <2>5
  <2> QED
    BY <2>1, <2>2, <2>4, <2>5
<1>9. \A i \in DOMAIN responses'.queue :
        LET s == responses'.queue[i].slot IN
        s # 0 => /\ s \in ci
                 /\ \A k \in DOMAIN responses'.queue : responses'.queue[k].slot = s => k = i
                 /\ \A k \in Open : Slot(k) = s /\ ~IsQueued(k) => k \in linkMoved
  BY <1>1, <1>3 DEF IssueInv
<1>10. /\ \A s \in ci : \E k \in Open : Slot(k) = s
       /\ \A k \in Jobs : ~IsQueued(k) /\ Slot(k) # 0 /\ k \notin linkMoved => Slot(k) \in ci
  BY <1>3 DEF IssueInv
<1>11. ci' = ci /\ complete' = complete /\ linkMoved' = linkMoved
  BY <1>1
<1>12. \A i \in DOMAIN requests' : ~Answering(requests'[i]) => ~Answering(requests[i])'
  BY <1>1 DEF Answering
<1>13. \A k \in Jobs : ~Answering(Slot(k)) => ~Answering(Slot(k))'
  BY <1>1, <1>2 DEF Answering
<1> QED
  BY <1>2, <1>7, <1>8, <1>9, <1>10, <1>11, <1>12, <1>13 DEF IssueInv

(* handleRequest                                                           *)
LEMMA HandleKeeps ==
  ASSUME SATAInv, S!handleRequest
  PROVE  SATAInv'
<1>1. UNCHANGED <<jobs, issued, ci, sact, responses, linkMoved, complete>>
  BY DEF S!handleRequest
<1>2. CASE requests = <<>>
  <2>1. UNCHANGED <<pending, requests>>
    BY <1>2 DEF S!handleRequest
  <2> QED
    BY <1>1, <2>1, IdleKeeps
<1>3. CASE requests # <<>>
  <2>1. PICK j : j = S!JobOf(Head(requests))
    OBVIOUS
  <2>2. pending' = pending \union {<<j, "header">>} /\ requests' = Tail(requests)
    BY <1>3, <2>1 DEF S!handleRequest
  <2>3. HeaderRead(j)
    BY <1>1, <1>3, <2>1, <2>2, FetchFacts DEF HeaderRead
  <2> QED
    BY <2>3, FetchBits, FetchIssue DEF SATAInv
<1> QED
  BY <1>2, <1>3

-----------------------------------------------------------------------------
(* The driver of SATA *)

(* A command more.                                                         *)
LEMMA OneMoreJob ==
  ASSUME issued \in Nat, complete \subseteq Jobs, UNCHANGED <<jobs, complete>>, issued' = issued + 1,
         NEW n, n = issued + 1, \A k \in Open : Slot(k) # Slot(n)
  PROVE  /\ Jobs' = Jobs \union {n} /\ n \notin Jobs /\ Open' = Open \union {n}
         /\ \A k : /\ Slot(k)' = Slot(k) /\ Kind(k)' = Kind(k) /\ (IsQueued(k)' <=> IsQueued(k))
                   /\ \A q : (SHolds(k, q)' <=> SHolds(k, q)) /\ (CHolds(k, q)' <=> CHolds(k, q))
         /\ \A k \in Jobs : Latest(k)' <=> Latest(k) /\ Slot(k) # Slot(n)
         /\ \A k \in Open : Latest(k) => Latest(k)'
         /\ Latest(n)'
<1>1. Jobs' = Jobs \union {n} /\ n \notin Jobs /\ n \in Nat
  BY DEF Jobs
<1>2. Open' = Open \union {n}
  BY <1>1 DEF Open
<1>3. \A k : Slot(k)' = Slot(k) /\ Kind(k)' = Kind(k)
  BY DEF Slot, Kind
<1>4. \A k : /\ IsQueued(k)' <=> IsQueued(k)
             /\ \A q : (SHolds(k, q)' <=> SHolds(k, q)) /\ (CHolds(k, q)' <=> CHolds(k, q))
  BY <1>3 DEF IsQueued, SHolds, CHolds, S!Queued
<1>5. \A k \in Jobs : k < n /\ k \in Nat
  BY DEF Jobs
<1>6. \A k \in Jobs : Latest(k)' <=> Latest(k) /\ Slot(k) # Slot(n)
  BY <1>1, <1>3, <1>5 DEF Latest
<1>7. Latest(n)'
  BY <1>1, <1>3, <1>5 DEF Latest
<1> QED
  BY <1>1, <1>2, <1>3, <1>4, <1>6, <1>7 DEF Open

(* A command is issued in a slot that is free: its bits are clear, and it  *)
(* is not in the queue.                                                    *)
Entered(n) ==
  /\ n = issued + 1 /\ issued' = n /\ n <= Len(jobs.jobs) /\ (\A k \in Open : Slot(k) # Slot(n))
  /\ UNCHANGED <<jobs, responses, pending, linkMoved, complete>>
  /\ sact' = IF IsQueued(n) THEN sact \union {Slot(n)} ELSE sact
  /\ ci' = ci \union {Slot(n)}
  /\ Slot(n) \notin ci /\ (Slot(n) # 0 => ~Answering(Slot(n)))
  /\ requests' \in Seq(Nat) /\ DOMAIN requests' = DOMAIN requests \union {Len(requests) + 1}
  /\ Len(requests) + 1 \notin DOMAIN requests
  /\ requests'[Len(requests) + 1] = Slot(n) /\ \A i \in DOMAIN requests : requests'[i] = requests[i]
  /\ IsQueued(n) \/ Slot(n) # 0 => \A i \in DOMAIN requests : requests[i] # Slot(n)

(* Issue is that.                                                          *)
LEMMA IssueEnters ==
  ASSUME SATAInv, S!Issue
  PROVE  Entered(issued + 1)
<1>1. PICK n : n = issued + 1
  OBVIOUS
<1>2. LinkInv(S!Kinds) /\ PlaceInv /\ BitInv /\ IssueInv /\ issued \in Nat /\ requests \in Seq(Nat)
      /\ issued < Len(jobs.jobs)
  BY DEF SATAInv, LinkInv, S!Issue, S!jobs
<1>3. \A k \in Open : Slot(k) # Slot(n)
  BY <1>1 DEF S!Issue, S!MayIssue, S!Outstanding, S!jobs, Open, Jobs, Slot
<1>4. Slot(n) \notin ci
  BY <1>2, <1>3 DEF IssueInv
<1>5. Slot(n) # 0 => ~Answering(Slot(n))
  BY <1>2, <1>4 DEF IssueInv, Answering
<1>6. /\ issued' = n /\ UNCHANGED <<jobs, responses, pending, linkMoved, complete>>
      /\ sact' = IF IsQueued(n) THEN sact \union {Slot(n)} ELSE sact
      /\ ci' = ci \union {Slot(n)} /\ requests' = Append(requests, Slot(n))
  BY <1>1, <1>4 DEF S!Issue, S!jobs, Slot, Kind, IsQueued
<1>7. n \in 1..Len(jobs.jobs) /\ Slot(n) \in Nat
  <2> DEFINE T == [slot : Nat, kind : S!Kinds, prdt : BOOLEAN]
  <2>1. n \in 1..Len(jobs.jobs) /\ jobs.jobs \in Seq(T)
    BY <1>1, <1>2 DEF LinkInv, LinkCommands
  <2>2. jobs.jobs[n] \in T
    <3> HIDE DEF T
    <3> QED
      BY <2>1
  <2> QED
    BY <2>1, <2>2 DEF Slot
<1>8. /\ Append(requests, Slot(n)) \in Seq(Nat) /\ Len(requests) \in Nat
      /\ DOMAIN Append(requests, Slot(n)) = DOMAIN requests \union {Len(requests) + 1}
      /\ Len(requests) + 1 \notin DOMAIN requests
      /\ Append(requests, Slot(n))[Len(requests) + 1] = Slot(n)
      /\ \A i \in DOMAIN requests : Append(requests, Slot(n))[i] = requests[i]
  BY <1>2, <1>7
<1>9. ASSUME NEW i \in DOMAIN requests, requests[i] = Slot(n), IsQueued(n) \/ Slot(n) # 0 PROVE FALSE
  <2>1. CASE Slot(n) # 0
    BY <1>2, <1>4, <1>9, <2>1 DEF IssueInv
  <2>2. CASE Slot(n) = 0 /\ IsQueued(n)
    <3>1. PICK a \in Jobs : Slot(a) = Slot(n)
      BY <1>2, <1>9 DEF LinkInv
    <3>2. PICK b \in Jobs : Slot(b) = Slot(n) /\ Latest(b)
      BY <1>2, <3>1, LatestExists
    <3>3. IsQueued(b)
      <4>1. b \in DOMAIN jobs.jobs /\ n \in DOMAIN jobs.jobs /\ b < n
        <5>1. jobs.jobs \in LinkCommands(S!Kinds)
          BY <1>2 DEF LinkInv
        <5>2. Len(jobs.jobs) \in Nat /\ DOMAIN jobs.jobs = 1..Len(jobs.jobs)
          BY <5>1, CommandList
        <5>3. b \in 1..issued
          BY DEF Jobs
        <5> QED
          BY <1>1, <1>2, <5>2, <5>3
      <4>2. jobs \in SATAWorkloads
        BY DEF SATAInv
      <4> QED
        BY <2>2, <3>2, <4>1, <4>2, LinkAssumption DEF Slot, Kind, IsQueued
    <3>4. b \in Open
      BY <1>2, <1>9, <3>2, <3>3 DEF BitInv, Open
    <3> QED
      BY <1>3, <3>2, <3>4
  <2> QED
    BY <1>9, <2>1, <2>2
<1> QED
  BY <1>1, <1>3, <1>4, <1>5, <1>6, <1>7, <1>8, <1>9 DEF Entered

(* Types and PxSACT.                                                       *)
LEMMA EnterBits ==
  ASSUME SATAInv, NEW n, Entered(n)
  PROVE  LinkInv(S!Kinds)' /\ (jobs \in SATAWorkloads)' /\ PlaceInv' /\ S!CompletedIsDone' /\ BitInv'
<1>1. /\ UNCHANGED <<jobs, responses, pending, linkMoved, complete>> /\ n = issued + 1 /\ issued' = n
      /\ n <= Len(jobs.jobs) /\ (\A k \in Open : Slot(k) # Slot(n))
  BY DEF Entered
<1>2. LinkInv(S!Kinds) /\ PlaceInv /\ BitInv /\ complete \subseteq Jobs /\ linkMoved \subseteq Jobs
      /\ issued \in Nat
  BY DEF SATAInv, LinkInv
<1>3. /\ Jobs' = Jobs \union {n} /\ n \notin Jobs /\ Open' = Open \union {n}
      /\ \A k : /\ Slot(k)' = Slot(k) /\ Kind(k)' = Kind(k) /\ (IsQueued(k)' <=> IsQueued(k))
                /\ \A q : SHolds(k, q)' <=> SHolds(k, q)
      /\ \A k \in Jobs : Latest(k)' <=> Latest(k) /\ Slot(k) # Slot(n)
      /\ \A k \in Open : Latest(k) => Latest(k)'
      /\ Latest(n)'
  BY <1>1, <1>2, OneMoreJob
<1>4. /\ requests' \in Seq(Nat) /\ DOMAIN requests' = DOMAIN requests \union {Len(requests) + 1}
      /\ requests'[Len(requests) + 1] = Slot(n) /\ \A i \in DOMAIN requests : requests'[i] = requests[i]
  BY DEF Entered
<1>5. LinkInv(S!Kinds)'
  <2>1. \A i \in DOMAIN requests' : \E k \in Jobs' : Slot(k) = requests'[i]
    BY <1>2, <1>3, <1>4 DEF LinkInv
  <2>2. \A k \in Open' : Latest(k)'
    BY <1>2, <1>3 DEF LinkInv
  <2> QED
    BY <1>1, <1>2, <1>3, <1>4, <2>1, <2>2 DEF LinkInv
<1>6. (jobs \in SATAWorkloads)' /\ S!CompletedIsDone'
  BY <1>1 DEF SATAInv, S!CompletedIsDone, S!jobs, S!Queued
<1>7. PlaceInv'
  <2>1. ASSUME NEW k \in Jobs', NEW q \in SPieces, <<k, q>> \in pending' PROVE Belongs(k, q)'
    <3>1. k \in Jobs /\ <<k, q>> \in pending
      BY <1>1, <1>2, <2>1 DEF PlaceInv
    <3> QED
      BY <1>1, <1>2, <1>3, <3>1 DEF PlaceInv, Belongs
  <2> QED
    BY <1>1, <1>2, <1>3, <2>1 DEF PlaceInv
<1>8. \A k : Waits(k)' <=> Waits(k)
  BY <1>1, SameResponses
<1>9. sact \subseteq sact' /\ (IsQueued(n) => Slot(n) \in sact')
  BY DEF Entered
<1>10. \A k \in Jobs' : IsQueued(k) /\ k \notin linkMoved => Slot(k) \in sact'
  BY <1>2, <1>3, <1>9 DEF BitInv
<1>11. ~Waits(n)
  <2>1. ASSUME NEW i \in DOMAIN responses.queue, responses.queue[i].then = n PROVE FALSE
    <3>1. n # 0
      BY <1>1, <1>2
    <3> QED
      BY <1>2, <1>3, <2>1, <3>1 DEF BitInv
  <2> QED
    BY <2>1 DEF Waits
<1>12. \A k, q : <<k, q>> \in pending => k \in Jobs
  BY <1>2 DEF PlaceInv
<1>13. ASSUME NEW k \in Jobs', NEW q \in SPieces, <<k, q>> \in pending, SHolds(k, q)
       PROVE  /\ Slot(k) \in sact' /\ k \notin complete /\ ~Waits(k)
              /\ \A o \in SPieces : <<k, o>> \in pending /\ SHolds(k, o) => Together(q, o)
  BY <1>2, <1>9, <1>12, <1>13 DEF BitInv
<1>14. \A i \in DOMAIN responses.queue :
         LET k == responses.queue[i].then IN
         k # 0 => /\ k \in Jobs' /\ Kind(k) = "writeq" /\ Slot(k) \in sact' /\ k \notin complete
                  /\ \A m \in DOMAIN responses.queue : responses.queue[m].then = k => m = i
  BY <1>2, <1>3, <1>9 DEF BitInv
<1>15. ASSUME NEW i \in DOMAIN requests', NEW k \in Jobs', requests'[i] = Slot(k), IsQueued(k), Latest(k)'
       PROVE  /\ Slot(k) \in sact' /\ k \notin complete /\ ~Waits(k)
              /\ \A q \in SPieces : <<k, q>> \in pending => ~SHolds(k, q)
              /\ \A m \in DOMAIN requests' : requests'[m] = requests'[i] => m = i
  <2>1. CASE k = n
    <3>1. \A m \in DOMAIN requests : requests[m] # Slot(n)
      BY <1>15, <2>1 DEF Entered
    <3>2. ASSUME NEW m \in DOMAIN requests', requests'[m] = requests'[i] PROVE m = i
      BY <1>4, <1>15, <2>1, <3>1, <3>2
    <3>3. n \notin complete /\ \A q \in SPieces : <<n, q>> \notin pending
      BY <1>2, <1>3, <1>12
    <3> QED
      BY <1>9, <1>11, <1>15, <2>1, <3>2, <3>3
  <2>2. CASE k # n
    <3>1. k \in Jobs /\ Latest(k) /\ Slot(k) # Slot(n)
      BY <1>3, <1>15, <2>2
    <3>2. i \in DOMAIN requests /\ requests[i] = Slot(k)
      BY <1>4, <1>15, <3>1
    <3>3. /\ Slot(k) \in sact /\ k \notin complete /\ ~Waits(k)
          /\ \A q \in SPieces : <<k, q>> \in pending => ~SHolds(k, q)
          /\ \A m \in DOMAIN requests : requests[m] = requests[i] => m = i
      BY <1>2, <1>15, <3>1, <3>2 DEF BitInv
    <3>4. ASSUME NEW m \in DOMAIN requests', requests'[m] = requests'[i] PROVE m = i
      BY <1>4, <1>15, <3>1, <3>2, <3>3, <3>4
    <3> QED
      BY <1>9, <3>3, <3>4
  <2> QED
    BY <2>1, <2>2
<1>16. BitInv'
  <2>1. responses' = responses /\ pending' = pending /\ linkMoved' = linkMoved /\ complete' = complete
    BY <1>1
  <2> QED
    BY <1>3, <1>8, <1>10, <1>13, <1>14, <1>15, <2>1 DEF BitInv
<1> QED
  BY <1>5, <1>6, <1>7, <1>16

(* PxCI.                                                                   *)
LEMMA EnterIssue ==
  ASSUME SATAInv, NEW n, Entered(n)
  PROVE  IssueInv'
<1>1. /\ UNCHANGED <<jobs, responses, pending, linkMoved, complete>> /\ n = issued + 1 /\ issued' = n
      /\ (\A k \in Open : Slot(k) # Slot(n)) /\ ci' = ci \union {Slot(n)}
      /\ Slot(n) \notin ci /\ (Slot(n) # 0 => ~Answering(Slot(n)))
  BY DEF Entered
<1>2. LinkInv(S!Kinds) /\ PlaceInv /\ IssueInv /\ complete \subseteq Jobs /\ issued \in Nat
  BY DEF SATAInv, LinkInv
<1>3. /\ Jobs' = Jobs \union {n} /\ n \notin Jobs /\ Open' = Open \union {n}
      /\ \A k : /\ Slot(k)' = Slot(k) /\ (IsQueued(k)' <=> IsQueued(k))
                /\ \A q : CHolds(k, q)' <=> CHolds(k, q)
  BY <1>1, <1>2, OneMoreJob
<1>4. /\ DOMAIN requests' = DOMAIN requests \union {Len(requests) + 1}
      /\ requests'[Len(requests) + 1] = Slot(n) /\ \A i \in DOMAIN requests : requests'[i] = requests[i]
  BY DEF Entered
<1>5. \A k, q : <<k, q>> \in pending => k \in Jobs
  BY <1>2 DEF PlaceInv
<1>6. \A s \in ci' : \E k \in Open' : Slot(k) = s
  BY <1>1, <1>2, <1>3 DEF IssueInv
<1>7. \A k \in Jobs' : ~IsQueued(k) /\ Slot(k) # 0 /\ k \notin linkMoved => Slot(k) \in ci'
  BY <1>1, <1>2, <1>3 DEF IssueInv
<1>8. ASSUME NEW k \in Jobs', NEW q \in SPieces, <<k, q>> \in pending, CHolds(k, q)
      PROVE  /\ Slot(k) \in ci' /\ k \notin complete /\ ~Answering(Slot(k))
             /\ \A o \in SPieces : <<k, o>> \in pending /\ CHolds(k, o) => Together(q, o)
  BY <1>1, <1>2, <1>5, <1>8 DEF IssueInv
<1>9. ASSUME NEW i \in DOMAIN responses.queue, NEW s, s = responses.queue[i].slot, s # 0
      PROVE  /\ s \in ci'
             /\ \A m \in DOMAIN responses.queue : responses.queue[m].slot = s => m = i
             /\ \A k \in Open' : Slot(k) = s /\ ~IsQueued(k) => k \in linkMoved
  <2>1. /\ s \in ci
        /\ \A m \in DOMAIN responses.queue : responses.queue[m].slot = s => m = i
        /\ \A k \in Open : Slot(k) = s /\ ~IsQueued(k) => k \in linkMoved
    BY <1>2, <1>9 DEF IssueInv
  <2> QED
    BY <1>1, <1>3, <2>1
<1>10. ASSUME NEW i \in DOMAIN requests', requests'[i] # 0
       PROVE  /\ requests'[i] \in ci' /\ ~Answering(requests'[i])
              /\ \A m \in DOMAIN requests' : requests'[m] = requests'[i] => m = i
              /\ \A k \in Open', q \in SPieces :
                   Slot(k) = requests'[i] /\ <<k, q>> \in pending => ~CHolds(k, q)
  <2>1. CASE i \in DOMAIN requests
    <3>1. /\ requests[i] \in ci /\ ~Answering(requests[i]) /\ requests'[i] = requests[i]
          /\ \A m \in DOMAIN requests : requests[m] = requests[i] => m = i
          /\ \A k \in Open, q \in SPieces :
               Slot(k) = requests[i] /\ <<k, q>> \in pending => ~CHolds(k, q)
      BY <1>2, <1>4, <1>10, <2>1 DEF IssueInv
    <3>2. requests[i] # Slot(n)
      BY <1>1, <3>1
    <3>3. ASSUME NEW m \in DOMAIN requests', requests'[m] = requests'[i] PROVE m = i
      BY <1>4, <3>1, <3>2, <3>3
    <3>4. ASSUME NEW k \in Open', NEW q \in SPieces, Slot(k) = requests'[i], <<k, q>> \in pending
          PROVE  ~CHolds(k, q)
      BY <1>3, <3>1, <3>2, <3>4
    <3> QED
      BY <1>1, <3>1, <3>3, <3>4
  <2>2. CASE i = Len(requests) + 1
    <3>1. requests'[i] = Slot(n) /\ Slot(n) # 0
      BY <1>4, <1>10, <2>2
    <3>2. \A m \in DOMAIN requests : requests[m] # Slot(n)
      BY <3>1 DEF Entered
    <3>3. ASSUME NEW m \in DOMAIN requests', requests'[m] = requests'[i] PROVE m = i
      BY <1>4, <2>2, <3>1, <3>2, <3>3
    <3>4. ASSUME NEW k \in Open', NEW q \in SPieces, Slot(k) = requests'[i], <<k, q>> \in pending
          PROVE  FALSE
      BY <1>1, <1>3, <1>5, <3>1, <3>4
    <3> QED
      BY <1>1, <3>1, <3>3, <3>4
  <2> QED
    BY <1>4, <2>1, <2>2
<1>11. \A i \in DOMAIN requests' : ~Answering(requests'[i]) => ~Answering(requests[i])'
  BY <1>1 DEF Answering
<1>12. \A k : ~Answering(Slot(k)) => ~Answering(Slot(k))'
  BY <1>1, <1>3 DEF Answering
<1>13. responses' = responses /\ pending' = pending /\ linkMoved' = linkMoved /\ complete' = complete
  BY <1>1
<1> QED
  BY <1>3, <1>6, <1>7, <1>8, <1>9, <1>10, <1>11, <1>12, <1>13 DEF IssueInv

(* Scan                                                                    *)
LEMMA ScanKeeps ==
  ASSUME SATAInv, S!Scan
  PROVE  SATAInv'
<1>1. /\ UNCHANGED <<jobs, issued, ci, sact, requests, responses, pending, linkMoved>>
      /\ complete' = complete \union {j \in Open : Slot(j) \notin ci \union sact}
  BY DEF S!Scan, S!Outstanding, S!jobs, Open, Jobs, Slot
<1>2. /\ Jobs' = Jobs
      /\ \A k : Slot(k)' = Slot(k) /\ Kind(k)' = Kind(k)
  BY <1>1 DEF Jobs, Slot, Kind
<1>3. \A k : /\ (IsQueued(k)' <=> IsQueued(k)) /\ (Latest(k)' <=> Latest(k))
             /\ \A q : (SHolds(k, q)' <=> SHolds(k, q)) /\ (CHolds(k, q)' <=> CHolds(k, q))
  BY <1>1, <1>2 DEF IsQueued, Latest, SHolds, CHolds, S!Queued
<1>4. LinkInv(S!Kinds) /\ PlaceInv /\ BitInv /\ IssueInv
  BY DEF SATAInv
<1>5. Open' \subseteq Open /\ \A k \in Open : Slot(k) \in ci \union sact => k \in Open'
  BY <1>1, <1>2 DEF Open
<1>6. \A k \in Jobs : k \notin complete /\ Slot(k) \in ci \union sact => k \notin complete'
  BY <1>1
<1>7. LinkInv(S!Kinds)'
  BY <1>1, <1>2, <1>3, <1>4, <1>5 DEF LinkInv, Open
<1>8. PlaceInv'
  BY <1>1, <1>2, <1>3, <1>4 DEF PlaceInv, Belongs
<1>9. (\A k : Waits(k)' <=> Waits(k)) /\ \A s : Answering(s)' <=> Answering(s)
  BY <1>1, SameResponses
<1>10. BitInv'
  <2>1. requests' = requests /\ responses' = responses /\ pending' = pending /\ linkMoved' = linkMoved
        /\ sact' = sact
    BY <1>1
  <2> QED
    BY <1>2, <1>3, <1>4, <1>6, <1>9, <2>1 DEF BitInv
<1>11. IssueInv'
  <2>1. requests' = requests /\ responses' = responses /\ pending' = pending /\ linkMoved' = linkMoved
        /\ ci' = ci
    BY <1>1
  <2>2. \A s \in ci : \E k \in Open' : Slot(k) = s
    BY <1>4, <1>5 DEF IssueInv
  <2>3. \A i \in DOMAIN requests : ~Answering(requests[i]) => ~Answering(requests[i])'
    BY <1>1 DEF Answering
  <2>4. \A k : ~Answering(Slot(k)) => ~Answering(Slot(k))'
    BY <1>1, <1>2 DEF Answering
  <2> QED
    BY <1>2, <1>3, <1>4, <1>5, <1>6, <2>1, <2>2, <2>3, <2>4 DEF IssueInv
<1>12. S!CompletedIsDone'
  <2>1. ASSUME NEW k \in complete'
        PROVE  k \in linkMoved \/ (Slot(k) = 0 /\ ~IsQueued(k))
    <3>1. CASE k \in complete
      BY <3>1 DEF SATAInv, S!CompletedIsDone, S!jobs, Slot, Kind, IsQueued
    <3>2. CASE k \in Open /\ Slot(k) \notin ci \union sact
      BY <1>4, <3>2 DEF BitInv, IssueInv, Open
    <3> QED
      BY <1>1, <2>1, <3>1, <3>2
  <2> QED
    BY <1>1, <2>1 DEF S!CompletedIsDone, S!jobs, Slot, Kind, IsQueued, S!Queued
<1> QED
  BY <1>1, <1>7, <1>8, <1>10, <1>11, <1>12 DEF SATAInv

(* Every step of SATA.                                                     *)
LEMMA SATAStep ==
  ASSUME SATAInv, S!Next
  PROVE  SATAInv'
<1>1. CASE S!Issue
  BY <1>1, IssueEnters, EnterBits, EnterIssue DEF SATAInv
<1>2. CASE S!HBAReset \/ S!EnableInterrupt \/ S!Start \/ S!Stop \/ S!EnterHandler
  BY <1>2, SwitchKeeps
<1>3. CASE S!Connect \/ S!FISWritten \/ S!AckPort \/ S!handleRequest \/ S!Scan
  BY <1>3, ConnectKeeps, WrittenKeeps, AckPortKeeps, HandleKeeps, ScanKeeps
<1>4. CASE \E j \in 1..issued : S!Callback(j)
  BY <1>4, DeviceKeeps DEF Jobs
<1> QED
  BY <1>1, <1>2, <1>3, <1>4 DEF S!Next, S!Progress

(* It starts well.                                                         *)
LEMMA SATAStart ==
  ASSUME S!Init
  PROVE  SATAInv
<1>1. /\ jobs \in SATAWorkloads /\ issued = 0 /\ ci = {} /\ sact = {} /\ requests = <<>>
      /\ responses = [queue |-> <<>>, writes |-> <<>>] /\ pending = {} /\ linkMoved = {}
      /\ complete = {}
  BY DEF S!Init
<1>2. Jobs = {} /\ Open = {} /\ jobs.jobs \in LinkCommands(S!Kinds) /\ 0 <= Len(jobs.jobs)
  <2>1. jobs.jobs \in LinkCommands(S!Kinds)
    BY <1>1, LinkAssumption
  <2>2. Len(jobs.jobs) \in Nat
    BY <2>1, CommandList
  <2> QED
    BY <1>1, <2>1, <2>2 DEF Jobs, Open
<1>3. DOMAIN requests = {} /\ responses.queue = <<>> /\ DOMAIN responses.queue = {}
      /\ requests \in Seq(Nat) /\ responses.queue \in Seq(Responses)
      /\ responses = [queue |-> responses.queue, writes |-> responses.writes]
  BY <1>1
<1>4. LinkInv(S!Kinds)
  BY <1>1, <1>2, <1>3 DEF LinkInv
<1>5. PlaceInv /\ BitInv /\ IssueInv /\ S!CompletedIsDone
  BY <1>1, <1>2, <1>3 DEF PlaceInv, BitInv, IssueInv, S!CompletedIsDone
<1> QED
  BY <1>1, <1>4, <1>5 DEF SATAInv

-----------------------------------------------------------------------------
(* Callbacks of UFS *)

(* What stays when the driver does nothing.                                *)
LEMMA SameData ==
  ASSUME UNCHANGED <<jobs, issued, complete>>, linkMoved \subseteq linkMoved', written \subseteq written'
  PROVE  \A j : (HasData(j)' <=> HasData(j)) /\ (IsDone(j) => IsDone(j)')
BY DEF HasData, IsDone, Kind, U!Buffers

(* Piece p of command j is the only one of its kind under way.             *)
Only(j, p) == \A q \in UPieces : <<j, q>> \in pending /\ Together(p, q) => q = p

(* Piece p of command j ends and starts those in more; the last one        *)
(* finishes the command.                                                   *)
Follows(j, p, more) ==
  /\ <<j, p>> \in pending /\ pending' = (pending \ {<<j, p>>}) \cup ({j} \X more)
  /\ p \in UPieces /\ more \subseteq UPieces
  /\ \A q \in more : /\ Only(j, p) /\ (q # "dummy" => p # "dummy")
                     /\ q \in {"cpu", "response", "status"} /\ HasData(j) => j \in linkMoved'
                     /\ \A o \in more : q # "dummy" /\ o # "dummy" => Together(q, o)
Finishes(j, p, more) ==
  \/ UNCHANGED finished
  \/ /\ finished' = finished \union {Slot(j)} /\ p # "dummy" /\ Only(j, p) /\ more = {}
     /\ IsDone(j)'
Stage(j, p, more) ==
  /\ j \in Jobs /\ Follows(j, p, more) /\ Finishes(j, p, more)
  /\ UNCHANGED <<jobs, issued, doorbell, taken, requests, complete>>
  /\ linkMoved \subseteq linkMoved' /\ linkMoved' \subseteq linkMoved \union {j}
  /\ written \subseteq written'

(* Such a step keeps the invariant.                                        *)
LEMMA StageKeeps ==
  ASSUME UFSInv, NEW j, NEW p, NEW more, Stage(j, p, more)
  PROVE  UFSInv'
<1>1. /\ UNCHANGED <<jobs, issued, doorbell, taken, requests, complete>> /\ j \in Jobs
      /\ linkMoved \subseteq linkMoved' /\ linkMoved' \subseteq linkMoved \union {j}
      /\ written \subseteq written' /\ Follows(j, p, more) /\ Finishes(j, p, more)
  BY DEF Stage
<1>2. /\ Jobs' = Jobs /\ Open' = Open
      /\ \A k : Slot(k)' = Slot(k) /\ (Latest(k)' <=> Latest(k))
  BY <1>1, SameJobs
<1>3. LinkInv(DOMAIN U!Starts) /\ BellInv
  BY DEF UFSInv
<1>4. \A k : (HasData(k)' <=> HasData(k)) /\ (IsDone(k) => IsDone(k)')
  BY <1>1, SameData
<1>5. LinkInv(DOMAIN U!Starts)' /\ (jobs \in UFSWorkloads)'
  <2>1. (DOMAIN U!Starts)' = DOMAIN U!Starts
    BY DEF U!Starts
  <2> QED
    BY <1>1, <1>2, <2>1 DEF UFSInv, LinkInv
<1>6. ASSUME p # "dummy"
      PROVE  /\ Slot(j) \in doorbell \ finished /\ j \in Open
             /\ \A q \in UPieces : <<j, q>> \in pending /\ q # "dummy" => Together(p, q)
  BY <1>1, <1>3, <1>6 DEF Follows, BellInv, Open
<1>7. ASSUME NEW s \in finished', s \notin finished
      PROVE  s = Slot(j) /\ p # "dummy" /\ Only(j, p) /\ more = {} /\ IsDone(j)'
  BY <1>1, <1>7 DEF Finishes
<1>8. finished \subseteq finished'
  BY <1>1 DEF Finishes
<1>9. pending' \subseteq Jobs \X UPieces /\ taken' = doorbell'
  BY <1>1, <1>3 DEF BellInv, Follows
<1>10. /\ \A s \in doorbell : \E k \in Open : Slot(k) = s
       /\ \A k \in Jobs : IsDone(k)' \/ Slot(k) \in doorbell
  BY <1>3, <1>4 DEF BellInv
<1>11. ASSUME NEW k \in Jobs, NEW q \in UPieces, <<k, q>> \in pending', q # "dummy"
       PROVE  /\ Slot(k) \in doorbell \ finished' /\ k \notin complete
              /\ q \in {"cpu", "response", "status"} /\ HasData(k) => k \in linkMoved'
              /\ \A o \in UPieces : <<k, o>> \in pending' /\ o # "dummy" => Together(q, o)
  <2>1. CASE k # j
    <3>1. <<k, q>> \in pending /\ \A o \in UPieces : <<k, o>> \in pending' => <<k, o>> \in pending
      BY <1>1, <1>11, <2>1 DEF Follows
    <3>2. /\ Slot(k) \in doorbell \ finished /\ k \notin complete
          /\ q \in {"cpu", "response", "status"} /\ HasData(k) => k \in linkMoved
          /\ \A o \in UPieces : <<k, o>> \in pending /\ o # "dummy" => Together(q, o)
      BY <1>3, <1>11, <3>1 DEF BellInv
    <3>3. p # "dummy" => Slot(k) # Slot(j)
      BY <1>3, <1>6, <2>1, <3>2, OpenOne DEF Open
    <3>4. Slot(k) \notin finished'
      BY <1>7, <3>2, <3>3
    <3> QED
      BY <1>1, <3>1, <3>2, <3>4
  <2>2. CASE k = j /\ q \in more
    <3>1. p # "dummy" /\ Only(j, p) /\ (q \in {"cpu", "response", "status"} /\ HasData(j) => j \in linkMoved')
      BY <1>1, <1>11, <2>2 DEF Follows
    <3>2. finished' = finished
      BY <1>1, <2>2 DEF Finishes
    <3>3. ASSUME NEW o \in UPieces, <<j, o>> \in pending', o # "dummy" PROVE Together(q, o)
      <4>1. o \in more
        BY <1>1, <1>6, <3>1, <3>3 DEF Follows, Only
      <4> QED
        BY <1>1, <1>11, <2>2, <3>3, <4>1 DEF Follows
    <3> QED
      BY <1>6, <2>2, <3>1, <3>2, <3>3 DEF Open
  <2>3. CASE k = j /\ q \notin more
    <3>1. <<j, q>> \in pending /\ q # p
      BY <1>1, <1>11, <2>3 DEF Follows
    <3>2. /\ Slot(j) \in doorbell \ finished /\ j \notin complete
          /\ q \in {"cpu", "response", "status"} /\ HasData(j) => j \in linkMoved
          /\ \A o \in UPieces : <<j, o>> \in pending /\ o # "dummy" => Together(q, o)
      BY <1>1, <1>3, <1>11, <3>1 DEF BellInv
    <3>3. ~(p # "dummy" /\ Only(j, p))
      BY <1>6, <1>11, <3>1 DEF Only
    <3>4. Slot(j) \notin finished'
      BY <1>7, <3>2, <3>3
    <3>5. ASSUME NEW o \in UPieces, <<j, o>> \in pending', o # "dummy" PROVE <<j, o>> \in pending
      BY <1>1, <3>3, <3>5 DEF Follows
    <3> QED
      BY <1>1, <2>3, <3>2, <3>4, <3>5
  <2> QED
    BY <2>1, <2>2, <2>3
<1>12. ASSUME NEW i \in DOMAIN requests
       PROVE  /\ requests[i] \in doorbell \ finished'
              /\ \A m \in DOMAIN requests : requests[m] = requests[i] => m = i
              /\ \A k \in Open, q \in UPieces :
                   Slot(k) = requests[i] /\ <<k, q>> \in pending' => q = "dummy"
  <2>1. /\ requests[i] \in doorbell \ finished
        /\ \A m \in DOMAIN requests : requests[m] = requests[i] => m = i
        /\ \A k \in Open, q \in UPieces :
             Slot(k) = requests[i] /\ <<k, q>> \in pending => q = "dummy"
    BY <1>3 DEF BellInv
  <2>2. p # "dummy" => requests[i] # Slot(j)
    BY <1>1, <1>6, <2>1 DEF Follows
  <2>3. requests[i] \notin finished'
    BY <1>7, <2>1, <2>2
  <2>4. ASSUME NEW k \in Open, NEW q \in UPieces, Slot(k) = requests[i], <<k, q>> \in pending', q # "dummy"
        PROVE  FALSE
    <3>1. <<k, q>> \in pending \/ (k = j /\ q \in more)
      BY <1>1, <2>4 DEF Follows
    <3> QED
      BY <1>1, <2>1, <2>2, <2>4, <3>1 DEF Follows
  <2> QED
    BY <2>1, <2>3, <2>4
<1>13. ASSUME NEW s \in finished' PROVE s \in doorbell /\ \A k \in Open : Slot(k) = s => IsDone(k)'
  <2>1. CASE s \in finished
    BY <1>3, <1>4, <2>1 DEF BellInv
  <2>2. CASE s \notin finished
    <3>1. s = Slot(j) /\ p # "dummy" /\ IsDone(j)'
      BY <1>7, <2>2
    <3>2. ASSUME NEW k \in Open, Slot(k) = s PROVE IsDone(k)'
      <4>1. k = j
        BY <1>3, <1>6, <3>1, <3>2, OpenOne
      <4> QED
        BY <3>1, <4>1
    <3> QED
      BY <1>6, <3>1, <3>2
  <2> QED
    BY <2>1, <2>2
<1>14. doorbell' = doorbell /\ requests' = requests /\ complete' = complete
  BY <1>1
<1>15. BellInv'
  BY <1>2, <1>4, <1>9, <1>10, <1>11, <1>12, <1>13, <1>14 DEF BellInv
<1>16. U!CompletedIsDone'
  BY <1>1 DEF UFSInv, U!CompletedIsDone, U!jobs, U!Buffers
<1> QED
  BY <1>5, <1>15, <1>16 DEF UFSInv

(* What no callback of the device touches.                                 *)
LEMMA CommandFrame ==
  ASSUME U!CommandOnly
  PROVE  UNCHANGED <<jobs, issued, doorbell, taken, requests, complete>>
BY DEF U!CommandOnly

(* A piece with none beside it is the only one.                            *)
LEMMA OnlyOne ==
  ASSUME NEW j, NEW p \in UPieces, p \notin {"request", "prdt"}
  PROVE  Only(j, p)
BY DEF Only, Together

(* A callback that only passes on.                                         *)
LEMMA PassesOn ==
  ASSUME UFSInv, NEW j \in Jobs, NEW p, NEW more, Follows(j, p, more), U!CommandOnly,
         UNCHANGED <<linkMoved, written, finished>>
  PROVE  UFSInv'
<1>1. Stage(j, p, more)
  BY CommandFrame DEF Stage, Finishes
<1> QED
  BY <1>1, StageKeeps

(* NandReadDone, DataIn, DummyDone, done and ResponseWritten               *)
LEMMA PiecesKeep ==
  ASSUME UFSInv, NEW j \in Jobs,
         U!NandReadDone(j) \/ U!DataIn(j) \/ U!DummyDone(j) \/ U!done(j) \/ U!ResponseWritten(j)
  PROVE  UFSInv'
<1>1. U!CommandOnly /\ UNCHANGED <<linkMoved, written, finished>>
  BY DEF U!NandReadDone, U!DataIn, U!DummyDone, U!done, U!ResponseWritten
<1>2. \A p \in UPieces : <<j, p>> \in pending /\ p \in {"cpu", "response", "status"} /\ HasData(j)
        => j \in linkMoved
  BY DEF UFSInv, BellInv
<1>3. CASE U!NandReadDone(j)
  <2>1. Follows(j, "nandRead", {"out"})
    BY <1>3, OnlyOne DEF U!NandReadDone, U!Ends, Follows, UPieces, Together
  <2> QED
    BY <1>1, <2>1, PassesOn
<1>4. CASE U!DataIn(j)
  <2>1. Follows(j, "in", {"nandWrite"})
    BY <1>4, OnlyOne DEF U!DataIn, U!Ends, Follows, UPieces, Together
  <2> QED
    BY <1>1, <2>1, PassesOn
<1>5. CASE U!DummyDone(j)
  <2>1. Follows(j, "dummy", {})
    BY <1>5 DEF U!DummyDone, U!Ends, Follows, UPieces
  <2> QED
    BY <1>1, <2>1, PassesOn
<1>6. CASE U!done(j)
  <2>1. Follows(j, "cpu", {"response"})
    BY <1>1, <1>2, <1>6, OnlyOne DEF U!done, U!Ends, Follows, UPieces, Together
  <2> QED
    BY <1>1, <2>1, PassesOn
<1>7. CASE U!ResponseWritten(j)
  <2>1. Follows(j, "response", {"status"})
    BY <1>1, <1>2, <1>7, OnlyOne DEF U!ResponseWritten, U!Ends, Follows, UPieces, Together
  <2> QED
    BY <1>1, <2>1, PassesOn
<1> QED
  BY <1>3, <1>4, <1>5, <1>6, <1>7

(* processUTPCommand                                                       *)
LEMMA CommandKeeps ==
  ASSUME UFSInv, NEW j \in Jobs, U!processUTPCommand(j)
  PROVE  UFSInv'
<1>1. PICK more : more \subseteq {"request", "prdt"} /\ U!Ends(j, "descriptor", more)
  <2>1. CASE jobs.jobs[j].prdt
    BY <2>1 DEF U!processUTPCommand, U!jobs
  <2>2. CASE ~jobs.jobs[j].prdt
    BY <2>2 DEF U!processUTPCommand, U!jobs
  <2> QED
    BY <2>1, <2>2
<1>2. Follows(j, "descriptor", more)
  BY <1>1, OnlyOne DEF Follows, U!Ends, UPieces, Together
<1> QED
  BY <1>2, PassesOn DEF U!processUTPCommand

(* ChainDone                                                               *)
LEMMA ChainKeeps ==
  ASSUME UFSInv, NEW j \in Jobs, U!ChainDone(j)
  PROVE  UFSInv'
<1>1. PICK p \in {"out", "nandWrite", "flush"} : U!Ends(j, p, {"cpu"})
  BY DEF U!ChainDone
<1>2. linkMoved' = linkMoved \union {j} /\ U!CommandOnly /\ UNCHANGED <<written, finished>>
  BY DEF U!ChainDone
<1>3. Follows(j, p, {"cpu"})
  BY <1>1, <1>2, OnlyOne DEF Follows, U!Ends, UPieces, Together
<1>4. Stage(j, p, {"cpu"})
  BY <1>2, <1>3, CommandFrame DEF Stage, Finishes
<1> QED
  BY <1>4, StageKeeps

(* DescriptorWritten                                                       *)
LEMMA DescriptorKeeps ==
  ASSUME UFSInv, NEW j \in Jobs, U!DescriptorWritten(j)
  PROVE  UFSInv'
<1>1. /\ U!Ends(j, "status", {}) /\ written' = written \union {j} /\ linkMoved' = linkMoved
      /\ finished' = finished \union {Slot(j)} /\ U!CommandOnly
  BY DEF U!DescriptorWritten, U!jobs, Slot
<1>2. HasData(j) => j \in linkMoved
  BY <1>1 DEF UFSInv, BellInv, U!Ends, UPieces
<1>3. UNCHANGED <<jobs, issued, doorbell, taken, requests, complete>>
  BY <1>1, CommandFrame
<1>4. IsDone(j)'
  BY <1>1, <1>2, <1>3 DEF IsDone, HasData, Kind, U!Buffers
<1>5. Only(j, "status") /\ "status" \in UPieces
  BY OnlyOne DEF UPieces
<1>6. Follows(j, "status", {})
  BY <1>1, <1>5 DEF Follows, U!Ends
<1>7. Stage(j, "status", {})
  BY <1>1, <1>3, <1>4, <1>5, <1>6 DEF Stage, Finishes
<1> QED
  BY <1>7, StageKeeps

(* What a command starts: only one without data goes to its answer.        *)
LEMMA UFSStarts ==
  ASSUME UFSInv, NEW j \in Jobs, NEW more, more = U!Starts[Kind(j)]
  PROVE  /\ more \subseteq UPieces
         /\ \A q \in more : /\ q \in {"cpu", "response", "status"} => ~HasData(j)
                            /\ \A o \in more : q # "dummy" /\ o # "dummy" => Together(q, o)
<1>1. Kind(j) \in DOMAIN U!Starts
  <2>1. jobs.jobs \in LinkCommands(DOMAIN U!Starts) /\ issued \in Nat /\ issued <= Len(jobs.jobs)
    BY DEF UFSInv, LinkInv
  <2>2. Len(jobs.jobs) \in Nat
        /\ \A i \in 1..Len(jobs.jobs) : jobs.jobs[i] \in [slot : Nat, kind : DOMAIN U!Starts, prdt : BOOLEAN]
    BY <2>1, CommandList
  <2>3. j \in 1..Len(jobs.jobs)
    BY <2>1, <2>2 DEF Jobs
  <2> QED
    BY <2>2, <2>3 DEF Kind
<1>2. DOMAIN U!Starts = {"nop", "query", "inquiry", "mode", "capacity", "luns", "ready", "verify",
                         "read", "write", "sync", "immed", "native"}
  BY DEF U!Starts
<1>3. CASE Kind(j) = "nop"
  <2>1. more = {"response"}
    BY <1>3 DEF U!Starts, U!NopOut
  <2> QED
    BY <1>3, <2>1 DEF UPieces, HasData, U!Buffers, Together
<1>4. CASE Kind(j) \in {"query", "ready", "verify"}
  <2>1. more = {"cpu"}
    BY <1>4 DEF U!Starts, U!QueryRequest, U!JustResponse, U!Verify10
  <2> QED
    BY <1>4, <2>1 DEF UPieces, HasData, U!Buffers, Together
<1>5. CASE Kind(j) \in {"inquiry", "mode", "capacity", "luns"}
  <2>1. more = {"out"}
    BY <1>5 DEF U!Starts, U!Inquiry, U!ModeSense10, U!ReadCapacity, U!ReportLuns
  <2> QED
    BY <2>1 DEF UPieces, Together
<1>6. CASE Kind(j) \in {"read", "write", "sync", "native"}
  <2>1. more \in {{"nandRead"}, {"in"}, {"flush"}, {}}
    BY <1>6 DEF U!Starts, U!Read10, U!Write10, U!SynchronizeCache, U!NativeCommand
  <2> QED
    BY <2>1 DEF UPieces, Together
<1>7. CASE Kind(j) = "immed"
  <2>1. more = {"cpu", "dummy"}
    BY <1>7 DEF U!Starts, U!SynchronizeCache
  <2> QED
    BY <1>7, <2>1 DEF UPieces, HasData, U!Buffers, Together
<1> QED
  BY <1>1, <1>2, <1>3, <1>4, <1>5, <1>6, <1>7

(* doRequest                                                               *)
LEMMA RunKeeps ==
  ASSUME UFSInv, NEW j \in Jobs, NEW p \in {"request", "prdt"}, U!doRequest(j, p)
  PROVE  UFSInv'
<1>1. PICK other : other = IF p = "request" THEN "prdt" ELSE "request"
  OBVIOUS
<1>2. U!CommandOnly /\ UNCHANGED <<linkMoved, written, finished>> /\ p \in UPieces
  BY DEF U!doRequest, UPieces
<1>3. CASE <<j, other>> \in pending
  <2>1. U!Ends(j, p, {})
    BY <1>1, <1>3 DEF U!doRequest
  <2>2. Follows(j, p, {})
    BY <1>2, <2>1 DEF Follows, U!Ends
  <2> QED
    BY <1>2, <2>2, PassesOn
<1>4. CASE <<j, other>> \notin pending
  <2>1. PICK more : more = U!Starts[Kind(j)]
    OBVIOUS
  <2>2. Only(j, p)
    BY <1>1, <1>4 DEF Only, Together
  <2>3. U!Ends(j, p, more)
    BY <1>1, <1>4, <2>1 DEF U!doRequest, U!jobs, Kind
  <2>4. Follows(j, p, more)
    BY <1>2, <2>1, <2>2, <2>3, UFSStarts DEF Follows, U!Ends
  <2> QED
    BY <1>2, <2>4, PassesOn
<1> QED
  BY <1>3, <1>4

-----------------------------------------------------------------------------
(* The host controller and the driver of UFS *)

(* A step that leaves the commands alone.                                  *)
LEMMA RestKeeps ==
  ASSUME UFSInv, UNCHANGED <<jobs, issued, doorbell, taken, requests, pending, linkMoved, written,
                             finished, complete>>
  PROVE  UFSInv'
<1>1. /\ Jobs' = Jobs /\ Open' = Open
      /\ \A k : Slot(k)' = Slot(k) /\ (Latest(k)' <=> Latest(k))
  BY SameJobs
<1>2. \A k : (HasData(k)' <=> HasData(k)) /\ (IsDone(k) => IsDone(k)')
  BY SameData
<1>3. (DOMAIN U!Starts)' = DOMAIN U!Starts
  BY DEF U!Starts
<1>4. LinkInv(DOMAIN U!Starts)' /\ (jobs \in UFSWorkloads)'
  BY <1>1, <1>3 DEF UFSInv, LinkInv
<1>5. BellInv'
  BY <1>1, <1>2 DEF UFSInv, BellInv
<1>6. U!CompletedIsDone'
  BY DEF UFSInv, U!CompletedIsDone, U!jobs, U!Buffers
<1> QED
  BY <1>4, <1>5, <1>6 DEF UFSInv

(* LinkStartup, Get, EnterHandler, ReadStatus and ClearStatus              *)
LEMMA StatusKeeps ==
  ASSUME UFSInv, U!LinkStartup \/ U!Get \/ U!EnterHandler \/ U!ReadStatus \/ U!ClearStatus
  PROVE  UFSInv'
<1>1. UNCHANGED <<jobs, issued, doorbell, taken, requests, pending, linkMoved, written, finished,
                  complete>>
  BY DEF U!LinkStartup, U!Get, U!processUIC, U!EnterHandler, U!ReadStatus, U!ClearStatus
<1> QED
  BY <1>1, RestKeeps

(* handleRequest                                                           *)
LEMMA TakeKeeps ==
  ASSUME UFSInv, U!handleRequest
  PROVE  UFSInv'
<1>1. LinkInv(DOMAIN U!Starts) /\ BellInv /\ issued \in Nat /\ requests \in Seq(Nat)
      /\ \A i \in DOMAIN requests : \E j \in Jobs : Slot(j) = requests[i]
  BY DEF UFSInv, LinkInv
<1>2. PICK j : j = U!JobOf(Head(requests))
  OBVIOUS
<1>3. /\ requests # <<>> /\ pending' = pending \union {<<j, "descriptor">>} /\ requests' = Tail(requests)
      /\ UNCHANGED <<jobs, issued, doorbell, taken, linkMoved, written, finished, complete>>
  BY <1>2 DEF U!handleRequest
<1>4. 1 \in DOMAIN requests /\ requests[1] = Head(requests) /\ Len(requests) \in Nat
      /\ requests' \in Seq(Nat)
      /\ \A i \in DOMAIN requests' :
           i \in Nat /\ i # 0 /\ i + 1 \in DOMAIN requests /\ requests'[i] = requests[i + 1]
  BY <1>1, <1>3
<1>5. j \in Jobs /\ Slot(j) = requests[1] /\ Latest(j)
  <2>1. PICK k \in Jobs : Slot(k) = Head(requests)
    BY <1>1, <1>4
  <2> QED
    BY <1>1, <1>2, <1>4, <2>1, JobOfFact
<1>6. /\ Jobs' = Jobs /\ Open' = Open
      /\ \A k : Slot(k)' = Slot(k) /\ (Latest(k)' <=> Latest(k))
  BY <1>3, SameJobs
<1>7. \A k : (HasData(k)' <=> HasData(k)) /\ (IsDone(k) => IsDone(k)')
  BY <1>3, SameData
<1>8. LinkInv(DOMAIN U!Starts)' /\ (jobs \in UFSWorkloads)'
  <2>1. (DOMAIN U!Starts)' = DOMAIN U!Starts
    BY DEF U!Starts
  <2>2. \A i \in DOMAIN requests' : \E k \in Jobs : Slot(k) = requests'[i]
    BY <1>1, <1>4
  <2> QED
    BY <1>1, <1>3, <1>4, <1>6, <2>1, <2>2 DEF UFSInv, LinkInv
<1>9. /\ Slot(j) \in doorbell \ finished
      /\ \A k \in DOMAIN requests : requests[k] = requests[1] => k = 1
      /\ \A k \in Open, p \in UPieces : Slot(k) = Slot(j) /\ <<k, p>> \in pending => p = "dummy"
  BY <1>1, <1>4, <1>5 DEF BellInv
<1>10. j \in Open
  <2>1. PICK m \in Open : Slot(m) = Slot(j)
    BY <1>1, <1>9 DEF BellInv
  <2>2. m \in Jobs /\ Latest(m)
    BY <1>1, <2>1 DEF LinkInv, Open
  <2>3. m <= j /\ j <= m
    BY <1>5, <2>1, <2>2 DEF Latest
  <2>4. m = j
    BY <1>1, <1>5, <2>2, <2>3 DEF Jobs
  <2> QED
    BY <2>1, <2>4
<1>11. pending' \subseteq Jobs \X UPieces /\ taken' = doorbell'
  BY <1>1, <1>3, <1>5 DEF BellInv, UPieces
<1>12. ASSUME NEW k \in Jobs, NEW q \in UPieces, <<k, q>> \in pending', q # "dummy"
       PROVE  /\ Slot(k) \in doorbell \ finished /\ k \notin complete
              /\ q \in {"cpu", "response", "status"} /\ HasData(k) => k \in linkMoved
              /\ \A o \in UPieces : <<k, o>> \in pending' /\ o # "dummy" => Together(q, o)
  <2>1. CASE k # j
    BY <1>1, <1>3, <1>12, <2>1 DEF BellInv
  <2>2. CASE k = j
    BY <1>3, <1>9, <1>10, <1>12, <2>2 DEF Open, Together
  <2> QED
    BY <2>1, <2>2
<1>13. ASSUME NEW i \in DOMAIN requests'
       PROVE  /\ requests'[i] \in doorbell \ finished
              /\ \A m \in DOMAIN requests' : requests'[m] = requests'[i] => m = i
              /\ \A k \in Open, q \in UPieces :
                   Slot(k) = requests'[i] /\ <<k, q>> \in pending' => q = "dummy"
  <2>1. i \in Nat /\ i # 0 /\ i + 1 \in DOMAIN requests /\ requests'[i] = requests[i + 1]
    BY <1>4
  <2>2. /\ requests[i + 1] \in doorbell \ finished
        /\ \A m \in DOMAIN requests : requests[m] = requests[i + 1] => m = i + 1
        /\ \A k \in Open, q \in UPieces :
             Slot(k) = requests[i + 1] /\ <<k, q>> \in pending => q = "dummy"
    BY <1>1, <2>1 DEF BellInv
  <2>3. Slot(j) # requests[i + 1]
    BY <1>4, <1>5, <2>1, <2>2
  <2>4. ASSUME NEW m \in DOMAIN requests', requests'[m] = requests'[i] PROVE m = i
    <3>1. m \in Nat /\ m + 1 \in DOMAIN requests /\ requests[m + 1] = requests[i + 1]
      BY <1>4, <2>1, <2>4
    <3>2. m + 1 = i + 1
      BY <2>2, <3>1
    <3> QED
      BY <2>1, <3>1, <3>2
  <2>5. ASSUME NEW k \in Open, NEW q \in UPieces, Slot(k) = requests'[i], <<k, q>> \in pending'
        PROVE  q = "dummy"
    BY <1>3, <2>1, <2>2, <2>3, <2>5
  <2> QED
    BY <2>1, <2>2, <2>4, <2>5
<1>14. /\ \A s \in doorbell : \E k \in Open : Slot(k) = s
       /\ \A k \in Jobs : IsDone(k)' \/ Slot(k) \in doorbell
       /\ \A s \in finished : s \in doorbell /\ \A k \in Open : Slot(k) = s => IsDone(k)'
  BY <1>1, <1>7 DEF BellInv
<1>15. doorbell' = doorbell /\ finished' = finished /\ complete' = complete /\ linkMoved' = linkMoved
  BY <1>3
<1>16. BellInv'
  BY <1>6, <1>7, <1>11, <1>12, <1>13, <1>14, <1>15 DEF BellInv
<1>17. U!CompletedIsDone'
  BY <1>3 DEF UFSInv, U!CompletedIsDone, U!jobs, U!Buffers
<1> QED
  BY <1>8, <1>16, <1>17 DEF UFSInv

(* What the driver saw complete is done.                                   *)
LEMMA SeenDone ==
  ASSUME U!CompletedIsDone, NEW k \in complete
  PROVE  IsDone(k)
BY DEF U!CompletedIsDone, U!jobs, IsDone, HasData, Kind

(* completion                                                              *)
LEMMA CompletionKeeps ==
  ASSUME UFSInv, U!completion
  PROVE  UFSInv'
<1>1. /\ doorbell' = doorbell \ finished /\ taken' = taken \ finished /\ finished' = {}
      /\ UNCHANGED <<jobs, issued, requests, pending, linkMoved, written, complete>>
  BY DEF U!completion
<1>2. LinkInv(DOMAIN U!Starts) /\ BellInv /\ U!CompletedIsDone
  BY DEF UFSInv
<1>3. /\ Jobs' = Jobs /\ Open' = Open
      /\ \A k : Slot(k)' = Slot(k) /\ (Latest(k)' <=> Latest(k))
  BY <1>1, SameJobs
<1>4. \A k : (HasData(k)' <=> HasData(k)) /\ (IsDone(k) => IsDone(k)')
  BY <1>1, SameData
<1>5. LinkInv(DOMAIN U!Starts)' /\ (jobs \in UFSWorkloads)'
  <2>1. (DOMAIN U!Starts)' = DOMAIN U!Starts
    BY DEF U!Starts
  <2> QED
    BY <1>1, <1>3, <2>1 DEF UFSInv, LinkInv
<1>6. ASSUME NEW k \in Jobs PROVE IsDone(k)' \/ Slot(k) \in doorbell'
  <2>1. CASE Slot(k) \in finished
    <3>1. CASE k \in complete
      BY <1>2, <1>4, <3>1, SeenDone
    <3>2. CASE k \in Open
      BY <1>2, <1>4, <2>1, <3>2 DEF BellInv
    <3> QED
      BY <3>1, <3>2 DEF Open
  <2>2. CASE Slot(k) \notin finished
    BY <1>1, <1>2, <1>4, <2>2 DEF BellInv
  <2> QED
    BY <2>1, <2>2
<1>7. \A s \in doorbell' : \E k \in Open : Slot(k) = s
  BY <1>1, <1>2 DEF BellInv
<1>8. BellInv'
  <2>1. pending' = pending /\ requests' = requests /\ complete' = complete /\ linkMoved' = linkMoved
        /\ doorbell' \ finished' = doorbell \ finished /\ taken' = doorbell'
    BY <1>1, <1>2 DEF BellInv
  <2> QED
    BY <1>1, <1>2, <1>3, <1>4, <1>6, <1>7, <2>1 DEF BellInv
<1>9. U!CompletedIsDone'
  BY <1>1, <1>2 DEF U!CompletedIsDone, U!jobs, U!Buffers
<1> QED
  BY <1>5, <1>8, <1>9 DEF UFSInv

(* The cardinality UFS names is that of the library.                       *)
LEMMA SameCardinality == ASSUME NEW T PROVE U!Cardinality(T) = Cardinality(T)
BY Zenon DEF U!Cardinality, Cardinality

(* One slot is rung: it alone is queued.                                   *)
LEMMA OneSlot ==
  ASSUME NEW x \in Nat
  PROVE  U!SlotsInOrder({x}) = <<x>>
<1> DEFINE at(i) == CHOOSE s \in {x} : U!Cardinality({t \in {x} : t < s}) = i - 1
<1>1. U!Cardinality({x}) = 1 /\ U!Cardinality({}) = 0
  BY FS_Singleton, FS_EmptySet, SameCardinality
<1>2. U!SlotsInOrder({x}) = [i \in 1..U!Cardinality({x}) |-> at(i)]
  BY Zenon DEF U!SlotsInOrder
<1>3. \A i \in 1..1 : at(i) = x
  <2>1. {t \in {x} : t < x} = {}
    OBVIOUS
  <2>2. \E s \in {x} : U!Cardinality({t \in {x} : t < s}) = 1 - 1
    BY <1>1, <2>1
  <2>3. at(1) \in {x}
    BY <2>2
  <2> QED
    BY <2>3
<1> HIDE DEF at
<1>4. [i \in 1..1 |-> at(i)] = [i \in 1..1 |-> x]
  BY <1>3
<1>5. [i \in 1..1 |-> x] = <<x>>
  OBVIOUS
<1> QED
  BY <1>1, <1>2, <1>4, <1>5

(* Issue                                                                   *)
LEMMA RingKeeps ==
  ASSUME UFSInv, U!Issue
  PROVE  UFSInv'
<1>1. LinkInv(DOMAIN U!Starts) /\ BellInv /\ issued \in Nat /\ requests \in Seq(Nat)
      /\ complete \subseteq Jobs /\ linkMoved \subseteq Jobs /\ jobs.jobs \in LinkCommands(DOMAIN U!Starts)
  BY DEF UFSInv, LinkInv
<1>2. PICK n : n = issued + 1
  OBVIOUS
<1>3. /\ issued' = issued + 1 /\ issued < Len(jobs.jobs) /\ (\A k \in Open : Slot(k) # Slot(n))
      /\ doorbell' = doorbell \union {Slot(n)} /\ taken' = taken \union doorbell'
      /\ requests' = requests \o U!SlotsInOrder(doorbell' \ taken)
      /\ UNCHANGED <<jobs, pending, linkMoved, written, finished, complete>>
  BY <1>2 DEF U!Issue, U!processUTPTransfer, U!Outstanding, U!jobs, Open, Jobs, Slot
<1>4. Slot(n) \in Nat /\ n \in 1..Len(jobs.jobs) /\ Len(jobs.jobs) \in Nat
  <2>1. Len(jobs.jobs) \in Nat
        /\ \A i \in 1..Len(jobs.jobs) : jobs.jobs[i] \in [slot : Nat, kind : DOMAIN U!Starts, prdt : BOOLEAN]
    BY <1>1, CommandList
  <2>2. n \in 1..Len(jobs.jobs)
    BY <1>1, <1>2, <1>3, <2>1
  <2> QED
    BY <2>1, <2>2 DEF Slot
<1>5. Slot(n) \notin doorbell /\ taken = doorbell /\ finished \subseteq doorbell
  BY <1>1, <1>3 DEF BellInv
<1>6. doorbell' \ taken = {Slot(n)} /\ taken' = doorbell'
  BY <1>3, <1>5
<1>7. requests' = requests \o <<Slot(n)>>
  BY <1>3, <1>4, <1>6, OneSlot
<1>8. /\ requests' \in Seq(Nat) /\ DOMAIN requests' = DOMAIN requests \union {Len(requests) + 1}
      /\ requests'[Len(requests) + 1] = Slot(n) /\ \A i \in DOMAIN requests : requests'[i] = requests[i]
  BY <1>1, <1>4, <1>7
<1>9. /\ Jobs' = Jobs \union {n} /\ n \notin Jobs /\ Open' = Open \union {n}
      /\ \A k : Slot(k)' = Slot(k) /\ Kind(k)' = Kind(k)
      /\ \A k \in Open : Latest(k) => Latest(k)'
      /\ Latest(n)'
  BY <1>1, <1>2, <1>3, OneMoreJob
<1>10. \A k : (HasData(k)' <=> HasData(k)) /\ (IsDone(k) => IsDone(k)')
  BY <1>3, <1>9 DEF HasData, IsDone, U!Buffers
<1>11. LinkInv(DOMAIN U!Starts)' /\ (jobs \in UFSWorkloads)'
  <2>1. (DOMAIN U!Starts)' = DOMAIN U!Starts
    BY DEF U!Starts
  <2>2. \A i \in DOMAIN requests' : \E k \in Jobs' : Slot(k) = requests'[i]
    BY <1>1, <1>8, <1>9 DEF LinkInv
  <2>3. \A k \in Open' : Latest(k)'
    BY <1>1, <1>9 DEF LinkInv
  <2>4. issued' \in Nat /\ issued' <= Len(jobs.jobs)
    BY <1>1, <1>3, <1>4
  <2>5. complete' \subseteq Jobs' /\ linkMoved' \subseteq Jobs' /\ jobs' = jobs /\ jobs \in UFSWorkloads
    BY <1>1, <1>3, <1>9 DEF UFSInv
  <2> QED
    BY <1>1, <1>8, <1>9, <2>1, <2>2, <2>3, <2>4, <2>5 DEF LinkInv
<1>12. \A k, q : <<k, q>> \in pending => k \in Jobs
  BY <1>1 DEF BellInv
<1>13. /\ \A s \in doorbell' : \E k \in Open' : Slot(k) = s
       /\ \A k \in Jobs' : IsDone(k)' \/ Slot(k) \in doorbell'
  BY <1>1, <1>3, <1>9, <1>10 DEF BellInv
<1>14. ASSUME NEW k \in Jobs', NEW q \in UPieces, <<k, q>> \in pending, q # "dummy"
       PROVE  /\ Slot(k) \in doorbell' \ finished /\ k \notin complete
              /\ q \in {"cpu", "response", "status"} /\ HasData(k) => k \in linkMoved
              /\ \A o \in UPieces : <<k, o>> \in pending /\ o # "dummy" => Together(q, o)
  BY <1>1, <1>3, <1>12, <1>14 DEF BellInv
<1>15. ASSUME NEW i \in DOMAIN requests'
       PROVE  /\ requests'[i] \in doorbell' \ finished
              /\ \A m \in DOMAIN requests' : requests'[m] = requests'[i] => m = i
              /\ \A k \in Open', q \in UPieces :
                   Slot(k) = requests'[i] /\ <<k, q>> \in pending => q = "dummy"
  <2>0. \A m \in DOMAIN requests : requests[m] \in doorbell /\ requests[m] # Slot(n)
    BY <1>1, <1>5 DEF BellInv
  <2>1. CASE i \in DOMAIN requests
    <3>1. /\ requests[i] \in doorbell \ finished /\ requests'[i] = requests[i]
          /\ \A m \in DOMAIN requests : requests[m] = requests[i] => m = i
          /\ \A k \in Open, q \in UPieces :
               Slot(k) = requests[i] /\ <<k, q>> \in pending => q = "dummy"
      BY <1>1, <1>8, <2>1 DEF BellInv
    <3>2. ASSUME NEW m \in DOMAIN requests', requests'[m] = requests'[i] PROVE m = i
      BY <1>8, <2>0, <2>1, <3>1, <3>2
    <3>3. ASSUME NEW k \in Open', NEW q \in UPieces, Slot(k) = requests'[i], <<k, q>> \in pending
          PROVE  q = "dummy"
      BY <1>9, <1>12, <3>1, <3>3
    <3> QED
      BY <1>3, <3>1, <3>2, <3>3
  <2>2. CASE i = Len(requests) + 1
    <3>1. requests'[i] = Slot(n)
      BY <1>8, <2>2
    <3>2. ASSUME NEW m \in DOMAIN requests', requests'[m] = requests'[i] PROVE m = i
      BY <1>8, <2>0, <2>2, <3>1, <3>2
    <3>3. ASSUME NEW k \in Open', NEW q \in UPieces, Slot(k) = requests'[i], <<k, q>> \in pending
          PROVE  FALSE
      BY <1>3, <1>9, <1>12, <3>1, <3>3
    <3> QED
      BY <1>3, <1>5, <3>1, <3>2, <3>3
  <2> QED
    BY <1>8, <2>1, <2>2
<1>16. \A s \in finished : s \in doorbell' /\ \A k \in Open' : Slot(k) = s => IsDone(k)'
  BY <1>1, <1>3, <1>5, <1>9, <1>10 DEF BellInv
<1>17. pending \subseteq Jobs' \X UPieces
  BY <1>1, <1>9 DEF BellInv
<1>18. pending' = pending /\ finished' = finished /\ complete' = complete /\ linkMoved' = linkMoved
  BY <1>3
<1>19. BellInv'
  BY <1>6, <1>9, <1>10, <1>13, <1>14, <1>15, <1>16, <1>17, <1>18 DEF BellInv
<1>20. U!CompletedIsDone'
  BY <1>3 DEF UFSInv, U!CompletedIsDone, U!jobs, U!Buffers
<1> QED
  BY <1>11, <1>19, <1>20 DEF UFSInv

(* Scan                                                                    *)
LEMMA UFSScanKeeps ==
  ASSUME UFSInv, U!Scan
  PROVE  UFSInv'
<1>1. /\ UNCHANGED <<jobs, issued, doorbell, taken, requests, pending, linkMoved, written, finished>>
      /\ complete \subseteq complete'
      /\ complete' \subseteq complete \union {j \in Open : Slot(j) \notin doorbell}
  BY DEF U!Scan, U!Outstanding, U!jobs, Open, Jobs, Slot
<1>2. LinkInv(DOMAIN U!Starts) /\ BellInv /\ U!CompletedIsDone
  BY DEF UFSInv
<1>3. Jobs' = Jobs /\ \A k : Slot(k)' = Slot(k) /\ Kind(k)' = Kind(k)
  BY <1>1 DEF Jobs, Slot, Kind
<1>4. \A k : /\ (Latest(k)' <=> Latest(k)) /\ (HasData(k)' <=> HasData(k))
             /\ (IsDone(k)' <=> IsDone(k))
  BY <1>1, <1>3 DEF Latest, HasData, IsDone, U!Buffers
<1>5. Open' \subseteq Open /\ \A k \in Open : Slot(k) \in doorbell => k \in Open'
  BY <1>1, <1>3 DEF Open
<1>6. \A k \in Jobs : k \notin complete /\ Slot(k) \in doorbell => k \notin complete'
  BY <1>1
<1>7. LinkInv(DOMAIN U!Starts)' /\ (jobs \in UFSWorkloads)'
  <2>1. (DOMAIN U!Starts)' = DOMAIN U!Starts
    BY DEF U!Starts
  <2>2. complete' \subseteq Jobs
    BY <1>1, <1>2 DEF LinkInv, Open
  <2> QED
    BY <1>1, <1>2, <1>3, <1>4, <1>5, <2>1, <2>2 DEF UFSInv, LinkInv
<1>8. BellInv'
  <2>1. pending' = pending /\ requests' = requests /\ doorbell' = doorbell /\ taken' = taken
        /\ finished' = finished /\ linkMoved' = linkMoved
    BY <1>1
  <2>2. \A s \in doorbell : \E k \in Open' : Slot(k) = s
    BY <1>2, <1>5 DEF BellInv
  <2> QED
    BY <1>2, <1>3, <1>4, <1>5, <1>6, <2>1, <2>2 DEF BellInv
<1>9. U!CompletedIsDone'
  <2>1. ASSUME NEW k \in complete' PROVE IsDone(k)
    <3>1. CASE k \in complete
      BY <1>2, <3>1, SeenDone
    <3>2. CASE k \in Open /\ Slot(k) \notin doorbell
      BY <1>2, <3>2 DEF BellInv, Open
    <3> QED
      BY <1>1, <2>1, <3>1, <3>2
  <2> QED
    BY <1>1, <2>1 DEF U!CompletedIsDone, U!jobs, U!Buffers, IsDone, HasData, Kind
<1> QED
  BY <1>7, <1>8, <1>9 DEF UFSInv

(* Every step of UFS.                                                      *)
LEMMA UFSStep ==
  ASSUME UFSInv, U!Next
  PROVE  UFSInv'
<1>1. CASE U!LinkStartup \/ U!Get \/ U!EnterHandler \/ U!ReadStatus \/ U!ClearStatus
  BY <1>1, StatusKeeps
<1>2. CASE U!Issue \/ U!handleRequest \/ U!completion \/ U!Scan
  BY <1>2, RingKeeps, TakeKeeps, CompletionKeeps, UFSScanKeeps
<1>3. ASSUME NEW j \in Jobs, U!Callback(j) PROVE UFSInv'
  BY <1>3, CommandKeeps, PiecesKeep, ChainKeeps, DescriptorKeeps, RunKeeps DEF U!Callback
<1> QED
  BY <1>1, <1>2, <1>3 DEF U!Next, U!Progress, Jobs

(* It starts well.                                                         *)
LEMMA UFSStart ==
  ASSUME U!Init
  PROVE  UFSInv
<1>1. /\ jobs \in UFSWorkloads /\ issued = 0 /\ doorbell = {} /\ taken = {} /\ requests = <<>>
      /\ pending = {} /\ linkMoved = {} /\ written = {} /\ finished = {} /\ complete = {}
  BY DEF U!Init
<1>2. Jobs = {} /\ Open = {} /\ jobs.jobs \in LinkCommands(DOMAIN U!Starts) /\ 0 <= Len(jobs.jobs)
  <2>1. jobs.jobs \in LinkCommands(DOMAIN U!Starts)
    BY <1>1, LinkAssumption
  <2>2. Len(jobs.jobs) \in Nat
    BY <2>1, CommandList
  <2> QED
    BY <1>1, <2>1, <2>2 DEF Jobs, Open
<1>3. DOMAIN requests = {} /\ requests \in Seq(Nat)
  BY <1>1
<1>4. LinkInv(DOMAIN U!Starts)
  BY <1>1, <1>2, <1>3 DEF LinkInv
<1>5. BellInv /\ U!CompletedIsDone
  BY <1>1, <1>2, <1>3 DEF BellInv, U!CompletedIsDone
<1> QED
  BY <1>1, <1>4, <1>5 DEF UFSInv

-----------------------------------------------------------------------------
(* Either link *)

(* The other units of a host leave the links alone.                        *)
LEMMA LinksStart ==
  ASSUME HostInit
  PROVE  LinksInv
BY SATAStart, UFSStart DEF HostInit, LinksInv

(* Every step of the host keeps the invariant of the link it has.          *)
LEMMA LinksStep ==
  ASSUME LinksInv, [HostNext]_hostVars
  PROVE  LinksInv'
<1>1. CASE SATA
  BY <1>1, SATAStep DEF SATA, LinksInv
<1>2. CASE UFS
  BY <1>2, UFSStep DEF UFS, LinksInv
<1>3. CASE NVM \/ OpenChannelSSD \/ DMA
  BY <1>3 DEF NVM, OpenChannelSSD, DMA, LinksInv
<1>4. CASE UNCHANGED hostVars
  <2>1. /\ unit' = unit
        /\ UNCHANGED <<jobs, issued, ci, sact, requests, pending, linkMoved, complete, responses>>
        /\ UNCHANGED <<doorbell, taken, written, finished>>
    BY <1>4 DEF hostVars, hostLinkVars, linkVars, sataOnly, ufsOnly
  <2> QED
    BY <2>1, IdleKeeps, RestKeeps DEF LinksInv
<1> QED
  BY <1>1, <1>2, <1>3, <1>4 DEF HostNext

(* For every list of commands its driver may issue, a command of SATA or   *)
(* of UFS is seen complete only when its data has moved, the NAND has      *)
(* answered and, with UFS, its response is in memory (Device and HBA of    *)
(* SATA; Host::completion and Device of UFS).                              *)
THEOREM LinksComplete == HostSpec => []CompletedIsDone
<1>1. HostInit => LinksInv
  BY LinksStart
<1>2. LinksInv /\ [HostNext]_hostVars => LinksInv'
  BY LinksStep
<1>3. LinksInv => CompletedIsDone
  BY DEF LinksInv, SATAInv, UFSInv, CompletedIsDone
<1> QED
  BY <1>1, <1>2, <1>3, PTL DEF HostSpec
=============================================================================
