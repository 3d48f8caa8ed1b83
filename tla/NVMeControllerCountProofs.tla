--------------------- MODULE NVMeControllerCountProofs ---------------------
(***************************************************************************)
(* Where the commands of the controller are: EachOnce and NoPanic, on top  *)
(* of the invariant of NVMeControllerProofs.                               *)
(*                                                                         *)
(* CountInv and ArcInv count the places of each command.  OutInv and       *)
(* LiveInv bound the answers that may be under way to a completion queue   *)
(* by the room in it.                                                      *)
(***************************************************************************)
EXTENDS NVMeControllerProofs

-----------------------------------------------------------------------------
(* Counting a command *)

(* Where a command is.                                                     *)
WaitsAt(c) == {i \in Slots : /\ sq[cmd[c].q].live /\ Occupied(sq[cmd[c].q], i)
                             /\ sq[cmd[c].q].mem[i] = c}
FetchedAt(c) == {i \in DOMAIN fetching : sq[fetching[i].q].mem[fetching[i].at] = c}
Staged(c) == InSeq(lSQByUser[cmd[c].uid], c)
RunningOf(c) == {e \in running : e.c = c}
PostedAt(c) == {i \in DOMAIN posting : posting[i].write.val.c = c}
HostAt(c) == {s \in Queues \X Slots : /\ cq[s[1]].live /\ Written(s[1], s[2])
                                      /\ cq[s[1]].mem[s[2]].c = c}
Running(c) == Cardinality(RunningOf(c))
Posting(c) == Cardinality(PostedAt(c))
FrontCount(c) == Waiting(c) + Fetching(c) + Staged(c) + Running(c)
BackCount(c) == InSeq(lCQFIFO, c) + Posting(c) + InHostMemory(c) + answers[c]
Numbers(c) ==
  /\ IsFiniteSet(WaitsAt(c)) /\ Waiting(c) = Cardinality(WaitsAt(c)) /\ Waiting(c) \in Nat
  /\ IsFiniteSet(FetchedAt(c)) /\ Fetching(c) = Cardinality(FetchedAt(c)) /\ Fetching(c) \in Nat
  /\ Staged(c) \in Nat
  /\ IsFiniteSet(RunningOf(c)) /\ Running(c) \in Nat
  /\ InSeq(lSQFIFO, c) \in Nat /\ InSeq(lCQFIFO, c) \in Nat
  /\ IsFiniteSet(PostedAt(c)) /\ Posting(c) \in Nat
  /\ IsFiniteSet(HostAt(c)) /\ InHostMemory(c) = Cardinality(HostAt(c)) /\ InHostMemory(c) \in Nat
  /\ answers[c] \in Nat

(* Everything can be counted.                                              *)
LEMMA NumbersFact ==
  FrontInv /\ BackInv => \A c \in Cmds : Numbers(c) /\ Count(c) = FrontCount(c) + BackCount(c)
<1> SUFFICES ASSUME FrontInv, BackInv, NEW c \in Cmds
             PROVE  Numbers(c) /\ Count(c) = FrontCount(c) + BackCount(c)
  OBVIOUS
<1>1. HostInv /\ SQInv /\ FetchInv /\ EntryInv /\ CQInv /\ PostInv
  BY DEF FrontInv, BackInv
<1>2. IsFiniteSet(Slots) /\ IsFiniteSet(Queues) /\ IsFiniteSet(Queues \X Slots)
  <2>1. QueueSize - 1 \in Int
    BY Sizes
  <2>2. PICK a \in Int, b \in Int, d \in Int : a = 0 /\ b = 2 /\ d = QueueSize - 1
    BY <2>1
  <2>3. IsFiniteSet(a..b) /\ IsFiniteSet(a..d)
    BY FS_Interval
  <2>4. IsFiniteSet(Slots) /\ IsFiniteSet(Queues)
    BY <2>2, <2>3 DEF Slots, Queues
  <2> QED
    BY <2>4, FS_Product
<1>3. IsFiniteSet(WaitsAt(c)) /\ IsFiniteSet(HostAt(c))
  <2>1. WaitsAt(c) \in SUBSET Slots /\ HostAt(c) \in SUBSET (Queues \X Slots)
    BY DEF WaitsAt, HostAt
  <2> QED
    BY <1>2, <2>1, FS_Subset
<1>4. IsFiniteSet(DOMAIN fetching) /\ IsFiniteSet(DOMAIN posting)
  <2>1. Len(fetching) \in Nat /\ DOMAIN fetching = 1..Len(fetching)
    BY <1>1 DEF FetchInv
  <2>2. Len(posting) \in Nat /\ DOMAIN posting = 1..Len(posting)
    BY <1>1 DEF PostInv
  <2> QED
    BY <2>1, <2>2, FS_Interval
<1>5. IsFiniteSet(FetchedAt(c)) /\ IsFiniteSet(PostedAt(c))
  <2>1. FetchedAt(c) \in SUBSET DOMAIN fetching /\ PostedAt(c) \in SUBSET DOMAIN posting
    BY DEF FetchedAt, PostedAt
  <2> QED
    BY <1>4, <2>1, FS_Subset
<1>6. IsFiniteSet(RunningOf(c))
  <2>1. IsFiniteSet(running) /\ RunningOf(c) \in SUBSET running
    BY <1>1 DEF EntryInv, RunningOf
  <2> QED
    BY <2>1, FS_Subset
<1>7. InSeq(lSQFIFO, c) \in Nat /\ InSeq(lCQFIFO, c) \in Nat
  BY <1>1, AtFinite DEF EntryInv
<1>8. Staged(c) \in Nat
  <2>1. cmd[c].uid \in Users
    BY <1>1, CmdType
  <2>2. lSQByUser[cmd[c].uid] \in Seq(Entries)
    BY <1>1, <2>1 DEF EntryInv
  <2> QED
    BY <2>2, AtFinite DEF Staged
<1>9. Waiting(c) = Cardinality(WaitsAt(c)) /\ Fetching(c) = Cardinality(FetchedAt(c))
  BY DEF Waiting, Fetching, WaitsAt, FetchedAt
<1>10. InHostMemory(c) = Cardinality(HostAt(c))
  <2>1. HostAt(c) = {s \in Queues \X Slots :
                 LET q == cq[s[1]] IN
                 /\ q.live /\ Occupied(q, s[2]) /\ q.mem[s[2]].c = c
                 /\ ~Unwritten(s[1], s[2])}
    BY DEF HostAt, Written
  <2> QED
    BY <2>1 DEF InHostMemory
<1>11. answers[c] \in Nat
  <2>1. Len(cmd) \in Nat /\ registers.limit \in 0..MaxCommands /\ Len(cmd) <= registers.limit
    BY <1>1 DEF HostInv, Registers
  <2>2. c \in 1..MaxCommands
    BY <2>1, Sizes DEF Cmds
  <2> QED
    BY <1>1, <2>2 DEF HostInv
<1>12. Numbers(c)
  <2>1. \A S : IsFiniteSet(S) => Cardinality(S) \in Nat
    BY FS_CardinalityType
  <2> QED
    BY <1>3, <1>5, <1>6, <1>7, <1>8, <1>9, <1>10, <1>11, <2>1 DEF Numbers, Running, Posting
<1>13. Count(c) = FrontCount(c) + BackCount(c)
  <2>1. Count(c) = Waiting(c) + Fetching(c) + Staged(c) + Running(c) + InSeq(lCQFIFO, c)
                   + Posting(c) + InHostMemory(c) + answers[c]
    BY DEF Count, Staged, Running, RunningOf, Posting, PostedAt
  <2> QED
    BY <1>12, <2>1 DEF Numbers, FrontCount, BackCount
<1> QED
  BY <1>12, <1>13

(* After a step as well.                                                   *)
LEMMA NumbersNext ==
  FrontInv' /\ BackInv' =>
    \A c \in Cmds' : Numbers(c)' /\ Count(c)' = FrontCount(c)' + BackCount(c)'
<1> DEFINE P == \A c \in Cmds : Numbers(c) /\ Count(c) = FrontCount(c) + BackCount(c)
<1>1. FrontInv /\ BackInv => P
  BY NumbersFact
<1> HIDE DEF P
<1>2. FrontInv' /\ BackInv' => P'
  BY <1>1, PTL
<1> QED
  BY <1>2 DEF P

(* What is said of the count of a command: a command that was answered     *)
(* from the deprecated FIFO counts at most twice, and was fetched; the     *)
(* others count once, or not at all when nobody will answer them.          *)
Tally(c) ==
  /\ c \in twice => Count(c) <= 2
  /\ c \notin twice => Count(c) <= 1
  /\ c \notin twice /\ c \notin gone => Count(c) = 1
  /\ InSeq(lSQFIFO, c) <= 1
  /\ InSeq(lSQFIFO, c) = 1 => c \notin twice
  /\ Waiting(c) > 0 \/ Fetching(c) > 0 =>
       /\ c \notin twice /\ InSeq(lSQFIFO, c) = 0
       /\ c \in gone => ~sq[cmd[c].q].live
  /\ ~sq[cmd[c].q].live => answers[c] > 0 \/ c \in gone
CountInv == \A c \in Cmds : Tally(c)

(* A command that moves, or does not.                                      *)
Kept(c) ==
  /\ (c \in twice)' <=> c \in twice
  /\ (c \in gone)' <=> c \in gone
  /\ sq'[cmd'[c].q].live = sq[cmd[c].q].live
  /\ answers'[c] >= answers[c]
  /\ InSeq(lSQFIFO, c)' <= InSeq(lSQFIFO, c)
  /\ Waiting(c)' + Fetching(c)' <= Waiting(c) + Fetching(c)
  /\ Count(c)' <= Count(c) /\ (Count(c) = 1 => Count(c)' = 1)

(* What is said of its count stays.                                        *)
LEMMA TallyKept ==
  ASSUME NEW c, Numbers(c), Numbers(c)', Count(c) \in Nat, Count(c)' \in Nat, Tally(c), Kept(c)
  PROVE  Tally(c)'
<1>1. Count(c) \in Nat /\ Count(c)' \in Nat
  OBVIOUS
<1>2. PICK w, f, l, a, x, y, m, b \in Nat :
        /\ w = Waiting(c) /\ f = Fetching(c) /\ l = InSeq(lSQFIFO, c) /\ a = answers[c]
        /\ x = Waiting(c)' /\ y = Fetching(c)' /\ m = InSeq(lSQFIFO, c)' /\ b = answers'[c]
  BY DEF Numbers
<1>3. /\ x + y <= w + f /\ m <= l /\ b >= a
      /\ x > 0 \/ y > 0 => w > 0 \/ f > 0
  BY <1>2 DEF Kept
<1>4. /\ (c \in twice)' => Count(c)' <= 2
      /\ (c \notin twice)' => Count(c)' <= 1
      /\ (c \notin twice)' /\ (c \notin gone)' => Count(c)' = 1
  BY <1>1 DEF Tally, Kept
<1>5. /\ l <= 1 /\ (l = 1 => c \notin twice)
      /\ w > 0 \/ f > 0 => c \notin twice /\ l = 0 /\ (c \in gone => ~sq[cmd[c].q].live)
  BY <1>2 DEF Tally
<1>8. (c \in twice' <=> c \in twice) /\ (c \in gone' <=> c \in gone)
      /\ sq'[cmd'[c].q].live = sq[cmd[c].q].live
  BY DEF Kept
<1>9. m <= 1 /\ (m = 1 => l = 1) /\ (l = 0 => m = 0)
  <2>1. m \in Nat /\ l \in Nat /\ m <= l /\ l <= 1
    BY <1>3, <1>5
  <2> QED
    BY <2>1
<1>6. x > 0 \/ y > 0 => c \notin twice' /\ m = 0 /\ (c \in gone' => ~sq'[cmd'[c].q].live)
  <2>1. SUFFICES ASSUME x > 0 \/ y > 0
                 PROVE  c \notin twice' /\ m = 0 /\ (c \in gone' => ~sq'[cmd'[c].q].live)
    OBVIOUS
  <2>2. w > 0 \/ f > 0
    BY <1>3, <2>1
  <2>3. c \notin twice /\ l = 0 /\ (c \in gone => ~sq[cmd[c].q].live)
    BY <1>5, <2>2
  <2> QED
    BY <1>8, <1>9, <2>3
<1>7. ~sq'[cmd'[c].q].live => b > 0 \/ c \in gone'
  <2>1. ~sq[cmd[c].q].live => a > 0 \/ c \in gone
    BY <1>2 DEF Tally
  <2>2. a > 0 => b > 0
    BY <1>3
  <2> QED
    BY <1>8, <2>1, <2>2
<1> QED
  BY <1>2, <1>4, <1>5, <1>6, <1>7, <1>8, <1>9 DEF Tally

(* Steps that submit nothing and answer nothing twice.                     *)
Good == FrontInv /\ BackInv

(* The counts stay right when every command keeps its own.                 *)
LEMMA CountKept ==
  ASSUME Good, Good', CountInv, Cmds' = Cmds, \A c \in Cmds : Kept(c)
  PROVE  CountInv'
<1>1. ASSUME NEW c \in Cmds PROVE Tally(c)'
  <2>1. Numbers(c) /\ Count(c) = FrontCount(c) + BackCount(c)
    BY NumbersFact DEF Good
  <2>2. Numbers(c)' /\ Count(c)' = FrontCount(c)' + BackCount(c)'
    BY NumbersNext DEF Good
  <2>3. Tally(c) /\ Kept(c)
    BY DEF CountInv
  <2>4. Count(c) \in Nat /\ Count(c)' \in Nat
    BY <2>1, <2>2 DEF Numbers, FrontCount, BackCount
  <2> QED
    BY <2>1, <2>2, <2>3, <2>4, TallyKept
<1> QED
  BY <1>1 DEF CountInv

(* What a step leaves alone.                                               *)
SameFront(c) == /\ Waiting(c)' = Waiting(c) /\ Fetching(c)' = Fetching(c)
                /\ Staged(c)' = Staged(c) /\ Running(c)' = Running(c)
SameBack(c) == /\ InSeq(lCQFIFO, c)' = InSeq(lCQFIFO, c) /\ Posting(c)' = Posting(c)
               /\ InHostMemory(c)' = InHostMemory(c) /\ answers'[c] = answers[c]

(* Steps behind the execution leave the places before it alone.            *)
LEMMA FrontStays ==
  ASSUME UNCHANGED <<cmd, sq, fetching, lSQByUser, running>>, NEW c
  PROVE  SameFront(c)
BY DEF SameFront, Waiting, Fetching, Staged, Running, RunningOf, Occupied, InSeq

(* Steps before it leave the places behind it alone.                       *)
LEMMA BackStays ==
  ASSUME UNCHANGED <<lCQFIFO, posting, cq, answers>>, NEW c
  PROVE  SameBack(c)
BY DEF SameBack, InSeq, Posting, PostedAt, InHostMemory, Unwritten, Occupied

(* Steps that move commands on.                                            *)
Moves(c) == /\ answers'[c] >= answers[c]
            /\ Waiting(c)' + Fetching(c)' <= Waiting(c) + Fetching(c)
            /\ Count(c)' <= Count(c) /\ (Count(c) = 1 => Count(c)' = 1)
MoveFrame == /\ UNCHANGED <<cmd, gone, twice>>
             /\ \A q \in Queues : sq'[q].live = sq[q].live
             /\ lSQFIFO' = lSQFIFO \/ lSQFIFO' = <<>>

(* The counts stay right when commands are only moved on.                  *)
LEMMA MoveCount ==
  ASSUME Good, Good', CountInv, MoveFrame, \A c \in Cmds : Moves(c)
  PROVE  CountInv'
<1>1. Cmds' = Cmds
  BY DEF Cmds, MoveFrame
<1>2. ASSUME NEW c \in Cmds PROVE Kept(c)
  <2>1. InSeq(lSQFIFO, c) \in Nat
    BY <1>1, NumbersFact DEF Good, Numbers
  <2>2. InSeq(lSQFIFO, c)' <= InSeq(lSQFIFO, c)
    <3>1. CASE lSQFIFO' = lSQFIFO
      <4>1. InSeq(lSQFIFO, c)' = InSeq(lSQFIFO, c)
        BY <3>1 DEF InSeq
      <4> QED
        BY <2>1, <4>1
    <3>2. CASE lSQFIFO' = <<>>
      <4>1. InSeq(<<>>, c) = 0
        <5>1. {i \in DOMAIN <<>> : <<>>[i].c = c} = {}
          OBVIOUS
        <5> QED
          BY <5>1, FS_EmptySet DEF InSeq
      <4>2. InSeq(lSQFIFO, c)' = InSeq(<<>>, c)
        BY <3>2 DEF InSeq
      <4> QED
        BY <2>1, <4>1, <4>2
    <3> QED
      BY <3>1, <3>2 DEF MoveFrame
  <2>3. cmd[c].q \in Queues
    BY CmdType DEF Good, FrontInv
  <2>4. Moves(c)
    OBVIOUS
  <2> QED
    BY <2>2, <2>3, <2>4 DEF Kept, Moves, MoveFrame
<1> QED
  BY <1>1, <1>2, CountKept

(* The numbers before and after a step.                                    *)
Both(c) == /\ Numbers(c) /\ Count(c) = FrontCount(c) + BackCount(c)
           /\ Numbers(c)' /\ Count(c)' = FrontCount(c)' + BackCount(c)'

(* Both can be counted.                                                    *)
LEMMA BothFact ==
  ASSUME Good, Good', NEW c \in Cmds, Cmds \subseteq Cmds'
  PROVE  Both(c)
BY NumbersFact, NumbersNext DEF Good, Both

(* Steps that move no command.                                             *)
LEMMA QuietCount ==
  ASSUME Good, Good', CountInv, MoveFrame, \A c \in Cmds : SameFront(c) /\ SameBack(c)
  PROVE  CountInv'
<1>1. ASSUME NEW c \in Cmds PROVE Moves(c)
  <2>1. Both(c)
    BY BothFact DEF MoveFrame, Cmds
  <2>2. Count(c)' = Count(c) /\ Count(c) \in Nat
    BY <2>1 DEF Both, Numbers, FrontCount, BackCount, SameFront, SameBack
  <2>3. Waiting(c)' + Fetching(c)' <= Waiting(c) + Fetching(c) /\ answers'[c] >= answers[c]
    BY <2>1 DEF Both, Numbers, SameFront, SameBack
  <2> QED
    BY <2>2, <2>3 DEF Moves
<1> QED
  BY <1>1, MoveCount

(* A call of handleRequest takes a staged entry to the subsystem.          *)
LEMMA HandleCount ==
  ASSUME Good, Good', CountInv, NEW b, HandleRequest(b)
  PROVE  CountInv'
<1>1. UNCHANGED <<cmd, answers, gone, twice, sq, fetching, lSQFIFO, lCQFIFO, cq, posting>>
  BY DEF HandleRequest, postVars, histVars, hostVars
<1>2. MoveFrame /\ EntryInv
  BY <1>1 DEF MoveFrame, Good, FrontInv
<1>3. Picked
  BY <1>2, HandlePicks
<1>4. \A c \in Cmds : SameBack(c)
  BY <1>1, BackStays
<1>5. CASE UNCHANGED <<running, lSQByUser>>
  BY <1>1, <1>2, <1>4, <1>5, FrontStays, QuietCount
<1>6. ASSUME NEW u \in Users, lSQByUser[u] # <<>>,
             running' = running \union {Head(lSQByUser[u])},
             lSQByUser' = [lSQByUser EXCEPT ![u] = Tail(@)],
             NEW c \in Cmds
      PROVE  Moves(c)
  <2>1. lSQByUser[u] \in Seq(Entries) /\ lSQByUser \in [Users -> Seq(Entries)]
    BY <1>2 DEF EntryInv
  <2>2. PICK e : e = Head(lSQByUser[u])
    OBVIOUS
  <2>3. e = lSQByUser[u][1] /\ 1 \in DOMAIN lSQByUser[u]
    BY <1>6, <2>1, <2>2
  <2>4. e.c \in Cmds /\ cmd[e.c].uid = u
    BY <1>2, <2>3 DEF EntryInv, IsEntry
  <2>5. Both(c)
    BY <1>1, BothFact DEF Cmds
  <2>6. Waiting(c)' = Waiting(c) /\ Fetching(c)' = Fetching(c)
    BY <1>1 DEF Waiting, Fetching, Occupied
  <2>7. cmd[c].uid \in Users
    BY CmdType DEF Good, FrontInv
  <2>8. CASE c = e.c
    <3>1. Staged(c) = InSeq(lSQByUser[u], c)
      BY <2>4, <2>8 DEF Staged
    <3>2. Staged(c)' = InSeq(Tail(lSQByUser[u]), c)
      <4>1. lSQByUser'[cmd'[c].uid] = Tail(lSQByUser[u])
        BY <1>1, <1>6, <2>1, <2>4, <2>8
      <4> QED
        BY <4>1 DEF Staged, InSeq
    <3>3. InSeq(lSQByUser[u], c) = InSeq(Tail(lSQByUser[u]), c) + IF Head(lSQByUser[u]).c = c THEN 1 ELSE 0
      BY <1>6, <2>1, InTail
    <3>4. Staged(c) = Staged(c)' + 1
      BY <2>2, <2>8, <3>1, <3>2, <3>3
    <3>5. RunningOf(c)' = RunningOf(c) \union {e}
      BY <1>6, <2>2, <2>8 DEF RunningOf
    <3>6. IsFiniteSet(RunningOf(c)) /\ Running(c) \in Nat
      BY <2>5 DEF Both, Numbers
    <3>7. /\ e \in RunningOf(c) => Running(c)' = Running(c) /\ Running(c) > 0
          /\ e \notin RunningOf(c) => Running(c)' = Running(c) + 1
      <4>1. Running(c) = Cardinality(RunningOf(c)) /\ Running(c)' = Cardinality(RunningOf(c)')
        BY DEF Running
      <4>2. ASSUME e \in RunningOf(c) PROVE Running(c)' = Running(c) /\ Running(c) > 0
        <5>1. RunningOf(c)' = RunningOf(c) /\ RunningOf(c) # {}
          BY <3>5, <4>2
        <5>2. Cardinality(RunningOf(c)) # 0
          BY <3>6, <5>1, FS_EmptySet
        <5> QED
          BY <3>6, <4>1, <5>1, <5>2
      <4>3. ASSUME e \notin RunningOf(c) PROVE Running(c)' = Running(c) + 1
        BY <3>5, <3>6, <4>1, <4>3, FS_AddElement
      <4> QED
        BY <4>2, <4>3
    <3>8. Count(c)' <= Count(c) /\ (Count(c) = 1 => Count(c)' = 1)
      <4>1. CASE e \in RunningOf(c)
        <5>1. Running(c)' = Running(c) /\ Running(c) > 0
          BY <3>7, <4>1
        <5> QED
          BY <1>4, <2>5, <2>6, <3>4, <5>1 DEF Both, Numbers, FrontCount, BackCount, SameBack
      <4>2. CASE e \notin RunningOf(c)
        <5>1. Running(c)' = Running(c) + 1
          BY <3>7, <4>2
        <5> QED
          BY <1>4, <2>5, <2>6, <3>4, <5>1 DEF Both, Numbers, FrontCount, BackCount, SameBack
      <4> QED
        BY <4>1, <4>2
    <3> QED
      BY <1>4, <2>5, <2>6, <3>8 DEF Moves, SameBack, Both, Numbers
  <2>9. CASE c # e.c
    <3>1. Staged(c)' = Staged(c)
      <4>1. CASE cmd[c].uid = u
        <5>1. lSQByUser'[cmd'[c].uid] = Tail(lSQByUser[u])
          BY <1>1, <1>6, <2>1, <4>1
        <5>2. Staged(c)' = InSeq(Tail(lSQByUser[u]), c) /\ Staged(c) = InSeq(lSQByUser[u], c)
          BY <4>1, <5>1 DEF Staged, InSeq
        <5>3. InSeq(lSQByUser[u], c) = InSeq(Tail(lSQByUser[u]), c) + IF Head(lSQByUser[u]).c = c THEN 1 ELSE 0
          BY <1>6, <2>1, InTail
        <5>4. Tail(lSQByUser[u]) \in Seq(Entries)
          BY <1>6, <2>1
        <5>5. InSeq(Tail(lSQByUser[u]), c) \in Nat
          BY <5>4, AtFinite
        <5> QED
          BY <2>2, <2>9, <5>2, <5>3, <5>5
      <4>2. CASE cmd[c].uid # u
        <5>1. lSQByUser'[cmd'[c].uid] = lSQByUser[cmd[c].uid]
          BY <1>1, <1>6, <2>1, <2>7, <4>2
        <5> QED
          BY <5>1 DEF Staged, InSeq
      <4> QED
        BY <4>1, <4>2
    <3>2. RunningOf(c)' = RunningOf(c)
      BY <1>6, <2>2, <2>9 DEF RunningOf
    <3>3. Running(c)' = Running(c)
      BY <3>2 DEF Running
    <3>4. Count(c)' = Count(c) /\ Count(c) \in Nat
      BY <1>4, <2>5, <2>6, <3>1, <3>3 DEF Both, Numbers, FrontCount, BackCount, SameBack
    <3> QED
      BY <1>4, <2>5, <2>6, <3>4 DEF Moves, SameBack, Both, Numbers
  <2> QED
    BY <2>8, <2>9
<1> QED
  BY <1>2, <1>3, <1>5, <1>6, MoveCount DEF Picked

(* The host reads an answer.                                               *)
LEMMA ConsumeCount ==
  ASSUME Good, Good', CountInv, NEW q \in Queues, Consume(q)
  PROVE  CountInv'
<1>1. UNCHANGED <<cmd, gone, twice, sq, fetching, lSQByUser, running, lSQFIFO, lCQFIFO, posting>>
  BY DEF Consume, fetchVars, histVars
<1>2. MoveFrame /\ HostInv /\ CQInv
  BY <1>1 DEF MoveFrame, Good, FrontInv, BackInv
<1>3. Consumed(q)
  BY ConsumeEffect DEF Good
<1>4. \A c \in Cmds : SameFront(c)
  BY <1>1, FrontStays
<1>5. PICK h, x : h = cq[q].head /\ x = cq[q].mem[h].c
  OBVIOUS
<1>6. x \in Cmds /\ h \in Slots /\ cq[q].live /\ Written(q, h)
  BY <1>3, <1>5 DEF Consumed, Answers
<1>7. answers' = [answers EXCEPT ![x] = @ + 1]
  BY <1>5 DEF Consume
<1>8. \A r \in Queues, i \in Slots :
        /\ cq'[r].live = cq[r].live /\ cq'[r].mem = cq[r].mem
        /\ Written(r, i)' <=> Written(r, i) /\ ~(r = q /\ i = h)
  <2>1. \A r \in Queues : cq'[r].live = cq[r].live /\ cq'[r].mem = cq[r].mem
    <3>1. \A r \in Queues : cq[r].live \in BOOLEAN /\ cq'[r].live \in BOOLEAN
      BY <1>2, <1>3 DEF CQInv, CQs, Consumed
    <3>2. cq'[q].live = cq[q].live
      BY <1>3, <3>1 DEF Consumed
    <3> QED
      BY <1>3, <3>2 DEF Consumed
  <2>2. /\ \A i \in Slots : Written(q, i)' <=> Written(q, i) /\ i # cq[q].head
        /\ \A r \in Queues, i \in Slots : r # q => (Written(r, i)' <=> Written(r, i))
    BY <1>1, <1>2, <1>3, ConsumeRings
  <2> QED
    BY <1>5, <2>1, <2>2
<1>9. ASSUME NEW c \in Cmds PROVE Moves(c)
  <2>1. Both(c) /\ SameFront(c)
    BY <1>1, <1>4, BothFact DEF Cmds
  <2>2. InSeq(lCQFIFO, c)' = InSeq(lCQFIFO, c) /\ Posting(c)' = Posting(c)
    BY <1>1 DEF InSeq, Posting, PostedAt
  <2>3. PICK p : p = <<q, h>>
    OBVIOUS
  <2>4. p \in Queues \X Slots /\ p[1] = q /\ p[2] = h
    BY <1>6, <2>3
  <2>5. \A s \in Queues \X Slots : s = <<s[1], s[2]>> /\ s[1] \in Queues /\ s[2] \in Slots
    OBVIOUS
  <2>6. \A s \in Queues \X Slots : s = p <=> s[1] = q /\ s[2] = h
    BY <2>3, <2>5
  <2>7. \A s \in Queues \X Slots :
          /\ cq'[s[1]].live = cq[s[1]].live /\ cq'[s[1]].mem = cq[s[1]].mem
          /\ Written(s[1], s[2])' <=> Written(s[1], s[2]) /\ s # p
    BY <1>8, <2>5, <2>6
  <2>8. CASE c = x
    <3>1. answers'[c] = answers[c] + 1
      <4>1. c \in DOMAIN answers
        <5>1. Len(cmd) \in Nat /\ registers.limit \in 0..MaxCommands /\ Len(cmd) <= registers.limit
          BY <1>2 DEF HostInv, Registers
        <5> QED
          BY <1>2, <5>1, Sizes DEF Cmds, HostInv
      <4> QED
        BY <1>7, <2>8, <4>1
    <3>2. p \in HostAt(c)
      BY <1>5, <1>6, <2>4, <2>8 DEF HostAt
    <3>3. HostAt(c)' = HostAt(c) \ {p}
      <4>1. HostAt(c)' = {s \in Queues \X Slots : cq'[s[1]].live /\ Written(s[1], s[2])' /\ cq'[s[1]].mem[s[2]].c = c}
        BY DEF HostAt
      <4> QED
        BY <2>7, <4>1 DEF HostAt
    <3>4. InHostMemory(c) = InHostMemory(c)' + 1
      <4>1. IsFiniteSet(HostAt(c)) /\ InHostMemory(c) = Cardinality(HostAt(c)) /\ InHostMemory(c) \in Nat
            /\ InHostMemory(c)' = Cardinality(HostAt(c)')
        BY <2>1 DEF Both, Numbers
      <4>2. Cardinality(HostAt(c) \ {p}) = Cardinality(HostAt(c)) - 1
        BY <3>2, <4>1, FS_RemoveElement
      <4> QED
        BY <3>3, <4>1, <4>2
    <3>5. Count(c)' = Count(c) /\ Count(c) \in Nat
      BY <2>1, <2>2, <3>1, <3>4 DEF Both, Numbers, FrontCount, BackCount, SameFront
    <3> QED
      BY <2>1, <3>1, <3>5 DEF Moves, SameFront, Both, Numbers
  <2>9. CASE c # x
    <3>1. answers'[c] = answers[c]
      BY <1>2, <1>7, <2>9 DEF HostInv
    <3>2. HostAt(c)' = HostAt(c)
      <4>1. HostAt(c)' = {s \in Queues \X Slots : cq'[s[1]].live /\ Written(s[1], s[2])' /\ cq'[s[1]].mem[s[2]].c = c}
        BY DEF HostAt
      <4>2. p \notin HostAt(c)
        BY <1>5, <2>4, <2>9 DEF HostAt
      <4> QED
        BY <2>7, <4>1, <4>2 DEF HostAt
    <3>3. InHostMemory(c)' = InHostMemory(c)
      BY <2>1, <3>2 DEF Both, Numbers
    <3>5. Count(c)' = Count(c) /\ Count(c) \in Nat
      BY <2>1, <2>2, <3>1, <3>3 DEF Both, Numbers, FrontCount, BackCount, SameFront
    <3> QED
      BY <2>1, <3>1, <3>5 DEF Moves, SameFront, Both, Numbers
  <2> QED
    BY <2>8, <2>9
<1> QED
  BY <1>2, <1>9, MoveCount

(* An answer is written.                                                   *)
LEMMA PostDoneCount ==
  ASSUME Good, Good', CountInv, PostDone, ~broken'
  PROVE  CountInv'
<1>1. UNCHANGED <<cmd, gone, twice, sq, fetching, lSQByUser, running, lSQFIFO, lCQFIFO, answers, host>>
  BY DEF PostDone, fetchVars, histVars, hostVars
<1>2. MoveFrame /\ PostInv /\ CQInv /\ BackInv
  BY <1>1 DEF MoveFrame, Good, BackInv
<1>3. PICK q, at, val : Delivered(q, at, val)
  BY <1>2, PostDoneEffect
<1>4. /\ q \in Queues /\ at \in Slots /\ cq[q].live /\ posting # <<>>
      /\ posting[1].write.cq = q /\ posting[1].write.at = at /\ posting[1].write.val = val
      /\ \A r \in Queues :
           /\ cq'[r].live = cq[r].live
           /\ \A i \in Slots : cq'[r].mem[i] = IF r = q /\ i = at THEN val ELSE cq[r].mem[i]
  BY <1>3 DEF Delivered
<1>5. /\ 1 \in DOMAIN posting
      /\ \A j \in DOMAIN posting' : posting'[j] = posting[j + 1]
      /\ \A r \in Queues, i \in Slots :
           /\ Occupied(cq[r], i)' <=> Occupied(cq[r], i)
           /\ Unwritten(r, i)' <=> Unwritten(r, i) /\ ~(r = q /\ i = at)
  BY <1>1, <1>2, <1>3, DeliveredRings
<1>6. Occupied(cq[q], at) /\ Unwritten(q, at)
  BY <1>2, <1>4, <1>5 DEF PostInv, Unwritten
<1>7. PICK n \in Nat : n > 0 /\ DOMAIN posting = 1..n /\ DOMAIN posting' = 1..(n - 1)
  <2> DEFINE S == [write : Writes, last : BOOLEAN, ivs : SUBSET Vectors]
  <2>1. posting \in Seq(S) /\ posting # <<>> /\ posting' = Tail(posting)
    BY <1>2, <1>3 DEF PostInv, Delivered
  <2> HIDE DEF S
  <2>2. Len(posting) \in Nat /\ Len(posting) > 0 /\ DOMAIN posting = 1..Len(posting)
        /\ DOMAIN posting' = 1..(Len(posting) - 1)
    BY <2>1
  <2> QED
    BY <2>2
<1>8. PICK p : p = <<q, at>>
  OBVIOUS
<1>9. p \in Queues \X Slots /\ p[1] = q /\ p[2] = at
  BY <1>4, <1>8
<1>10. \A s \in Queues \X Slots : s[1] \in Queues /\ s[2] \in Slots
                                  /\ (s = p <=> s[1] = q /\ s[2] = at)
  BY <1>8
<1>11. \A s \in Queues \X Slots :
         /\ cq'[s[1]].live = cq[s[1]].live
         /\ cq'[s[1]].mem[s[2]] = IF s = p THEN val ELSE cq[s[1]].mem[s[2]]
         /\ Written(s[1], s[2])' <=> Written(s[1], s[2]) \/ s = p
         /\ Written(s[1], s[2]) => s # p
  BY <1>4, <1>5, <1>6, <1>9, <1>10 DEF Written
<1>12. ASSUME NEW c \in Cmds PROVE Moves(c)
  <2>1. Both(c) /\ SameFront(c)
    BY <1>1, FrontStays, BothFact DEF Cmds
  <2>2. InSeq(lCQFIFO, c)' = InSeq(lCQFIFO, c) /\ answers'[c] = answers[c]
    BY <1>1 DEF InSeq
  <2>3. TakesOff(PostedAt(c), PostedAt(c)') /\ (1 \in PostedAt(c) <=> val.c = c)
    <3>1. PostedAt(c) \in SUBSET (1..n)
      BY <1>7 DEF PostedAt
    <3>2. PostedAt(c)' = Lowered(n, PostedAt(c))
      <4>1. PostedAt(c)' = {j \in 1..(n - 1) : posting'[j].write.val.c = c}
        BY <1>7 DEF PostedAt
      <4>2. \A j \in 1..(n - 1) : posting'[j] = posting[j + 1] /\ j + 1 \in 1..n
        BY <1>5, <1>7
      <4> QED
        BY <1>7, <4>1, <4>2 DEF PostedAt, Lowered
    <3>3. 1 \in PostedAt(c) <=> val.c = c
      BY <1>4, <1>5 DEF PostedAt
    <3> QED
      BY <1>7, <3>1, <3>2, <3>3, CountTail
  <2>4. Posting(c) = Posting(c)' + (IF val.c = c THEN 1 ELSE 0) /\ Posting(c)' \in Nat
    BY <2>1, <2>3 DEF TakesOff, Posting, Both, Numbers
  <2>5. HostAt(c)' = {s \in Queues \X Slots : cq'[s[1]].live /\ Written(s[1], s[2])' /\ cq'[s[1]].mem[s[2]].c = c}
    BY DEF HostAt
  <2>6. /\ IsFiniteSet(HostAt(c)) /\ InHostMemory(c) = Cardinality(HostAt(c)) /\ InHostMemory(c) \in Nat
        /\ InHostMemory(c)' = Cardinality(HostAt(c)')
    BY <2>1 DEF Both, Numbers
  <2>7. InHostMemory(c)' = InHostMemory(c) + IF val.c = c THEN 1 ELSE 0
    <3>1. CASE val.c = c
      <4>1. HostAt(c)' = HostAt(c) \union {p}
        BY <1>4, <1>9, <1>11, <2>5, <3>1 DEF HostAt
      <4>2. p \notin HostAt(c)
        BY <1>11 DEF HostAt
      <4>3. Cardinality(HostAt(c) \union {p}) = Cardinality(HostAt(c)) + 1
        BY <2>6, <4>2, FS_AddElement
      <4> QED
        BY <2>6, <3>1, <4>1, <4>3
    <3>2. CASE val.c # c
      <4>1. HostAt(c)' = HostAt(c)
        BY <1>11, <2>5, <3>2 DEF HostAt
      <4> QED
        BY <2>6, <3>2, <4>1
    <3> QED
      BY <3>1, <3>2
  <2>8. Count(c)' = Count(c) /\ Count(c) \in Nat
    <3>1. CASE val.c = c
      BY <2>1, <2>2, <2>4, <2>7, <3>1 DEF Both, Numbers, FrontCount, BackCount, SameFront
    <3>2. CASE val.c # c
      BY <2>1, <2>2, <2>4, <2>7, <3>2 DEF Both, Numbers, FrontCount, BackCount, SameFront
    <3> QED
      BY <3>1, <3>2
  <2> QED
    BY <2>1, <2>2, <2>8 DEF Moves, SameFront, Both, Numbers
<1> QED
  BY <1>2, <1>12, MoveCount

(* A completion round starts the writes.                                   *)
LEMMA CompletionCount ==
  ASSUME Good, Good', CountInv, Completion, ~broken'
  PROVE  CountInv'
<1>1. UNCHANGED <<cmd, gone, twice, sq, fetching, lSQByUser, running, lSQFIFO, answers>>
  BY DEF Completion, fetchVars, histVars, hostVars
<1>2. MoveFrame /\ EntryInv
  BY <1>1 DEF MoveFrame, Good, FrontInv
<1>3. PICK s, m, n, ivs : Rounded(s, m, n, ivs)
  BY CompletionEffect DEF Good
<1>4. /\ m \in Nat /\ n \in Nat /\ DOMAIN posting = 1..m /\ DOMAIN posting' = 1..(m + n)
      /\ \A j \in 1..m : posting'[j] = posting[j]
      /\ \A i \in 1..n : posting'[m + i].write = s.writes[i]
      /\ cq' = s.cq /\ lCQFIFO' = <<>> /\ Len(lCQFIFO) = n
  BY <1>3 DEF Rounded
<1>5. /\ \A i \in 1..n : s.writes[i].val.c = lCQFIFO[i].c
      /\ \A r \in Queues : cq'[r].live = cq[r].live /\ cq'[r].mem = cq[r].mem
  BY <1>3, <1>4 DEF Rounded, RoundWrites, RoundQueues
<1>6. \A r \in Queues, i \in Slots : Written(r, i)' <=> Written(r, i)
  BY <1>3, RoundedRings
<1>7. ASSUME NEW c \in Cmds PROVE Moves(c)
  <2>1. Both(c) /\ SameFront(c)
    BY <1>1, FrontStays, BothFact DEF Cmds
  <2>2. answers'[c] = answers[c]
    BY <1>1
  <2>3. InHostMemory(c)' = InHostMemory(c)
    <3>1. HostAt(c)' = {x \in Queues \X Slots : cq'[x[1]].live /\ Written(x[1], x[2])' /\ cq'[x[1]].mem[x[2]].c = c}
      BY DEF HostAt
    <3>2. \A x \in Queues \X Slots : x[1] \in Queues /\ x[2] \in Slots
      OBVIOUS
    <3>3. HostAt(c)' = HostAt(c)
      BY <1>5, <1>6, <3>1, <3>2 DEF HostAt
    <3> QED
      BY <2>1, <3>3 DEF Both, Numbers
  <2>4. InSeq(lCQFIFO, c)' = 0
    <3>1. {i \in DOMAIN <<>> : <<>>[i].c = c} = {}
      OBVIOUS
    <3> QED
      BY <1>4, <3>1, FS_EmptySet DEF InSeq
  <2>5. Posting(c)' = Posting(c) + InSeq(lCQFIFO, c)
    <3> DEFINE A == PostedAt(c)
               B == At(lCQFIFO, c)
    <3>1. A \in SUBSET (1..m)
      BY <1>4 DEF PostedAt
    <3>2. lCQFIFO \in Seq(Entries) /\ DOMAIN lCQFIFO = 1..n
      BY <1>2, <1>4 DEF EntryInv
    <3>3. B \in SUBSET (1..n) /\ InSeq(lCQFIFO, c) = Cardinality(B)
      BY <1>4, <3>2, AtFinite
    <3>4. PostedAt(c)' = A \union Shifted(m, n, B)
      <4>1. PostedAt(c)' = {j \in 1..(m + n) : posting'[j].write.val.c = c}
        BY <1>4 DEF PostedAt
      <4>2. \A j \in 1..m : posting'[j].write.val.c = c <=> j \in A
        BY <1>4 DEF PostedAt
      <4>3. \A i \in 1..n : posting'[m + i].write.val.c = c <=> i \in B
        BY <1>4, <1>5, <3>2 DEF At
      <4> HIDE DEF A, B
      <4>4. ASSUME NEW j \in 1..(m + n)
            PROVE  posting'[j].write.val.c = c <=> j \in A \union Shifted(m, n, B)
        <5>1. CASE j \in 1..m
          BY <1>4, <4>2, <5>1 DEF Shifted
        <5>2. CASE j \notin 1..m
          <6>1. j - m \in 1..n /\ m + (j - m) = j /\ j \in (m + 1)..(m + n)
            BY <1>4, <5>2
          <6>2. posting'[j].write.val.c = c <=> j - m \in B
            BY <4>3, <6>1
          <6> QED
            BY <3>1, <5>2, <6>1, <6>2 DEF Shifted
        <5> QED
          BY <5>1, <5>2
      <4>5. \A j \in A \union Shifted(m, n, B) : j \in 1..(m + n)
        BY <1>4, <3>1 DEF Shifted
      <4> QED
        BY <4>1, <4>4, <4>5
    <3> HIDE DEF A, B
    <3>5. AddsUp(A \union Shifted(m, n, B), A, B)
      BY <1>4, <3>1, <3>3, CountBehind
    <3> QED
      BY <3>3, <3>4, <3>5 DEF AddsUp, A, Posting
  <2>6. Count(c)' = Count(c) /\ Count(c) \in Nat
    BY <2>1, <2>2, <2>3, <2>4, <2>5 DEF Both, Numbers, FrontCount, BackCount, SameFront
  <2> QED
    BY <2>1, <2>2, <2>6 DEF Moves, SameFront, Both, Numbers
<1> QED
  BY <1>2, <1>7, MoveCount

(* The entries that Work starts to fetch are those that wait.              *)
RoundAt(n, c) == {k \in 1..n : sq[Fetches[k].q].mem[Fetches[k].at] = c}

(* Each of them is fetched once.                                           *)
LEMMA FetchesAll ==
  ASSUME HostInv, SQInv, NEW n, FetchesOf(n), NEW c \in Cmds
  PROVE  /\ cmd[c].q \in Collected =>
              ExistsBijection(RoundAt(n, c), WaitsAt(c))
         /\ cmd[c].q \notin Collected => RoundAt(n, c) = {}
<1>1. PICK q : q = cmd[c].q
  OBVIOUS
<1>2. q \in Queues /\ c # 0 /\ sq[q].head \in Slots /\ sq[q].tail \in Slots
  BY <1>1, CmdType DEF SQInv, SQs, Cmds
<1>3. n \in Nat /\ n = Cardinality(Items)
  BY DEF FetchesOf
<1>4. ASSUME NEW k \in 1..n
      PROVE  /\ Fetches[k].q \in Collected /\ Fetches[k].q \in Queues /\ Fetches[k].at \in Slots
             /\ Fetches[k].q = InTurn(k)[2] /\ Fetches[k].at = PlaceOf(sq[Fetches[k].q], InTurn(k)[1])
             /\ InTurn(k)[1] \in 1..ItemCount(sq[Fetches[k].q])
             /\ Occupied(sq[Fetches[k].q], Fetches[k].at)
             /\ InTurn(k) \in Items /\ Rank(InTurn(k)) = k
             /\ InTurn(k) = <<InTurn(k)[1], InTurn(k)[2]>>
  BY <1>3, Turns, ItemType DEF FetchesOf
<1>5. ASSUME NEW k \in RoundAt(n, c)
      PROVE  /\ k \in 1..n /\ Fetches[k].q = q /\ q \in Collected /\ Fetches[k].at \in WaitsAt(c)
             /\ RankOf(sq[q], Fetches[k].at) = InTurn(k)[1]
  <2>1. k \in 1..n /\ sq[Fetches[k].q].mem[Fetches[k].at] = c
    BY DEF RoundAt
  <2>2. Fetches[k].q = q
    BY <1>1, <1>2, <1>4, <2>1 DEF SQInv
  <2>3. q \in Collected /\ sq[q].live
    BY <1>4, <2>1, <2>2 DEF Collected
  <2>4. Fetches[k].at \in WaitsAt(c)
    BY <1>1, <1>4, <2>1, <2>2, <2>3 DEF WaitsAt
  <2>5. RankOf(sq[q], Fetches[k].at) = InTurn(k)[1]
    BY <1>2, <1>4, <2>1, <2>2, Places
  <2> QED
    BY <2>1, <2>2, <2>3, <2>4, <2>5
<1>6. ASSUME q \in Collected PROVE ExistsBijection(RoundAt(n, c), WaitsAt(c))
  <2> DEFINE B == RoundAt(n, c)
             W == WaitsAt(c)
             g == [k \in B |-> Fetches[k].at]
  <2>1. g \in [B -> W]
    BY <1>5
  <2>2. ASSUME NEW k \in B, NEW l \in B, g[k] = g[l] PROVE k = l
    <3>1. Fetches[k].at = Fetches[l].at
      BY <2>2
    <3>2. InTurn(k)[1] = InTurn(l)[1] /\ InTurn(k)[2] = q /\ InTurn(l)[2] = q
      BY <1>4, <1>5, <3>1
    <3>3. InTurn(k) = InTurn(l)
      BY <1>4, <1>5, <3>2
    <3> QED
      BY <1>4, <1>5, <3>3
  <2>3. ASSUME NEW i \in W PROVE \E k \in B : g[k] = i
    <3>1. i \in Slots /\ Occupied(sq[q], i) /\ sq[q].mem[i] = c
      BY <1>1 DEF WaitsAt
    <3>2. PICK r : r = RankOf(sq[q], i)
      OBVIOUS
    <3>3. r \in 1..ItemCount(sq[q]) /\ PlaceOf(sq[q], r) = i
      BY <1>2, <3>1, <3>2, Places
    <3>4. PICK a : a = <<r, q>>
      OBVIOUS
    <3>5. a \in Items /\ a[1] = r /\ a[2] = q
      BY <1>6, <3>3, <3>4, ItemType
    <3>6. Rank(a) \in 1..n /\ InTurn(Rank(a)) = a
      BY <1>3, <3>5, Turns
    <3>7. PICK k : k = Rank(a)
      OBVIOUS
    <3>8. k \in 1..n /\ Fetches[k].q = q /\ Fetches[k].at = i
      <4>1. k \in 1..n /\ InTurn(k)[2] = q /\ InTurn(k)[1] = r
        BY <3>5, <3>6, <3>7
      <4>2. Fetches[k].q = q /\ Fetches[k].at = PlaceOf(sq[q], r)
        BY <1>4, <4>1
      <4> QED
        BY <3>3, <4>1, <4>2
    <3>9. k \in B
      BY <3>1, <3>8 DEF RoundAt
    <3> QED
      BY <3>8, <3>9
  <2>4. g \in Bijection(B, W)
    <3> HIDE DEF g, B, W
    <3> QED
      BY <2>1, <2>2, <2>3 DEF Bijection, Injection, Surjection, IsInjective
  <2> QED
    BY <2>4 DEF ExistsBijection
<1>7. ASSUME q \notin Collected PROVE RoundAt(n, c) = {}
  BY <1>5, <1>7
<1> QED
  BY <1>1, <1>6, <1>7

(* The fetches of a round, behind those under way.                         *)
Behind(m, n) ==
  /\ m \in Nat /\ n \in Nat /\ DOMAIN fetching = 1..m /\ DOMAIN fetching' = 1..(m + n)
  /\ \A j \in 1..m : fetching'[j] = fetching[j]
  /\ \A j \in 1..n : fetching'[m + j] = Fetches[j]

(* Work adds them there.                                                   *)
LEMMA FetchesBehind ==
  ASSUME FetchInv, NEW n, FetchesOf(n), Emptied
  PROVE  \E m : Behind(m, n)
<1> DEFINE S == [q : Queues, at : Slots, last : BOOLEAN]
<1>1. fetching \in Seq(S) /\ Fetches \in Seq(S) /\ DOMAIN Fetches = 1..n /\ n \in Nat
      /\ fetching' = fetching \o Fetches
  BY DEF FetchInv, FetchesOf, Emptied
<1> HIDE DEF S
<1>2. Len(Fetches) = n /\ Len(fetching) \in Nat
  BY <1>1
<1>3. PICK m \in Nat : m = Len(fetching)
  BY <1>2
<1>4. /\ DOMAIN fetching' = 1..(Len(fetching) + Len(Fetches))
      /\ DOMAIN fetching = 1..Len(fetching)
      /\ \A i \in 1..(Len(fetching) + Len(Fetches)) :
           fetching'[i] = IF i <= Len(fetching) THEN fetching[i]
                          ELSE Fetches[i - Len(fetching)]
  BY <1>1
<1>5. /\ DOMAIN fetching' = 1..(m + n) /\ DOMAIN fetching = 1..m
      /\ \A i \in 1..(m + n) : fetching'[i] = IF i <= m THEN fetching[i] ELSE Fetches[i - m]
  BY <1>2, <1>3, <1>4
<1>6. \A j \in 1..m : fetching'[j] = fetching[j]
  BY <1>1, <1>5
<1>7. \A j \in 1..n : fetching'[m + j] = Fetches[j]
  BY <1>1, <1>2, <1>3
<1>8. Behind(m, n)
  BY <1>1, <1>5, <1>6, <1>7 DEF Behind
<1> QED
  BY <1>8

(* The work event.                                                         *)
LEMMA WorkCount ==
  ASSUME Good, Good', CountInv, Work
  PROVE  CountInv'
<1>1. UNCHANGED <<cmd, gone, twice, lSQByUser, running, lCQFIFO, posting, cq, answers>>
  BY DEF Work, postVars, histVars, hostVars
<1>2. HostInv /\ SQInv /\ FetchInv
  BY DEF Good, FrontInv
<1>3. Worked
  BY WorkEffect DEF Good
<1>4. \A c \in Cmds : SameBack(c)
  BY <1>1, BackStays
<1>5. CASE UNCHANGED <<sq, fetching>>
  <2>1. MoveFrame
    BY <1>1, <1>3, <1>5 DEF MoveFrame, Worked
  <2> QED
    BY <1>1, <1>4, <1>5, <2>1, FrontStays, QuietCount
<1>6. CASE Emptied
  <2>1. MoveFrame
    BY <1>1, <1>3, <1>6 DEF MoveFrame, Worked, Emptied
  <2>2. PICK n : FetchesOf(n)
    BY <1>2, FetchesFact
  <2>3. ASSUME NEW c \in Cmds PROVE Moves(c)
    <3>1. Both(c) /\ SameBack(c)
      BY <1>1, <1>4, BothFact DEF Cmds
    <3>2. cmd[c].q \in Queues
      BY <1>2, CmdType
    <3>3. Staged(c)' = Staged(c) /\ Running(c)' = Running(c)
      BY <1>1 DEF Staged, Running, RunningOf, InSeq
    <3>4. PICK m : Behind(m, n)
      BY <1>2, <1>6, <2>2, FetchesBehind
    <3>5. \A r \in Queues : sq'[r].mem = sq[r].mem
      BY <1>6 DEF Emptied
    <3>6. AddsUp(FetchedAt(c)', FetchedAt(c), RoundAt(n, c))
      <4> DEFINE A == FetchedAt(c)
                 B == RoundAt(n, c)
      <4>1. A \in SUBSET (1..m) /\ B \in SUBSET (1..n)
        BY <3>4 DEF FetchedAt, RoundAt, Behind
      <4>2. FetchedAt(c)' = {j \in 1..(m + n) : sq'[fetching'[j].q].mem[fetching'[j].at] = c}
        BY <3>4 DEF FetchedAt, Behind
      <4>3. \A j \in 1..m : sq'[fetching'[j].q].mem[fetching'[j].at] = c <=> j \in A
        BY <1>2, <3>4, <3>5, FetchType DEF FetchedAt, Behind
      <4>4. \A j \in 1..n : sq'[fetching'[m + j].q].mem[fetching'[m + j].at] = c <=> j \in B
        BY <2>2, <3>4, <3>5 DEF RoundAt, FetchesOf, Behind
      <4> HIDE DEF A, B
      <4>5. ASSUME NEW j \in 1..(m + n)
            PROVE  sq'[fetching'[j].q].mem[fetching'[j].at] = c <=> j \in A \union Shifted(m, n, B)
        <5>1. CASE j \in 1..m
          BY <3>4, <4>3, <5>1 DEF Shifted, Behind
        <5>2. CASE j \notin 1..m
          <6>1. j - m \in 1..n /\ m + (j - m) = j /\ j \in (m + 1)..(m + n)
            BY <3>4, <5>2 DEF Behind
          <6>2. sq'[fetching'[j].q].mem[fetching'[j].at] = c <=> j - m \in B
            BY <4>4, <6>1
          <6> QED
            BY <4>1, <5>2, <6>1, <6>2 DEF Shifted
        <5> QED
          BY <5>1, <5>2
      <4>6. \A j \in A \union Shifted(m, n, B) : j \in 1..(m + n)
        BY <3>4, <4>1 DEF Shifted, Behind
      <4>7. FetchedAt(c)' = A \union Shifted(m, n, B)
        BY <4>2, <4>5, <4>6
      <4>9. m \in Nat /\ n \in Nat
        BY <3>4 DEF Behind
      <4>8. AddsUp(A \union Shifted(m, n, B), A, B)
        BY <4>1, <4>9, CountBehind
      <4> QED
        BY <4>7, <4>8 DEF A, B
    <3>7. /\ Fetching(c)' = Fetching(c) + Cardinality(RoundAt(n, c)) /\ Cardinality(RoundAt(n, c)) \in Nat
          /\ IsFiniteSet(WaitsAt(c)) /\ Waiting(c) = Cardinality(WaitsAt(c))
          /\ Waiting(c)' = Cardinality(WaitsAt(c)')
      BY <3>1, <3>6 DEF Both, Numbers, AddsUp
    <3>8. Waiting(c)' + Fetching(c)' = Waiting(c) + Fetching(c)
      <4>1. CASE cmd[c].q \in Collected
        <5>1. ExistsBijection(RoundAt(n, c), WaitsAt(c))
          BY <1>2, <2>2, <4>1, FetchesAll
        <5>2. IsFiniteSet(RoundAt(n, c))
          <6>1. IsFiniteSet(1..n) /\ RoundAt(n, c) \in SUBSET (1..n)
            BY <3>4, FS_Interval DEF RoundAt, Behind
          <6> QED
            BY <6>1, FS_Subset
        <5>3. Cardinality(RoundAt(n, c)) = Cardinality(WaitsAt(c))
          BY <5>1, <5>2, FS_Bijection
        <5>4. WaitsAt(c)' = {}
          <6>1. sq'[cmd[c].q].head = sq'[cmd[c].q].tail /\ sq'[cmd[c].q].head \in Slots
            BY <1>6, <3>2, <4>1 DEF Emptied, SQs
          <6>2. \A i \in Slots : ~(Occupied(sq[cmd[c].q], i))'
            BY <1>1, <6>1, Sizes DEF Occupied, Slots
          <6> QED
            BY <6>2 DEF WaitsAt
        <5>5. Waiting(c)' = 0
          BY <3>7, <5>4, FS_EmptySet
        <5> QED
          BY <3>1, <3>7, <5>3, <5>5 DEF Both, Numbers
      <4>2. CASE cmd[c].q \notin Collected
        <5>1. RoundAt(n, c) = {}
          BY <1>2, <2>2, <4>2, FetchesAll
        <5>2. WaitsAt(c)' = WaitsAt(c)
          BY <1>1, <1>6, <3>2, <4>2 DEF WaitsAt, Occupied, Emptied
        <5>3. Cardinality(RoundAt(n, c)) = 0
          BY <5>1, FS_EmptySet
        <5> QED
          BY <3>1, <3>7, <5>2, <5>3 DEF Both, Numbers
      <4> QED
        BY <4>1, <4>2
    <3>9. Count(c)' = Count(c) /\ Count(c) \in Nat
      BY <3>1, <3>3, <3>8 DEF Both, Numbers, FrontCount, BackCount, SameBack
    <3> QED
      BY <3>1, <3>8, <3>9 DEF Moves, SameBack, Both, Numbers
  <2> QED
    BY <2>1, <2>3, MoveCount
<1> QED
  BY <1>3, <1>5, <1>6 DEF Worked

(* The tally of a command before a step, in numbers.                       *)
LEMMA TallyFact ==
  ASSUME Good, CountInv, NEW c \in Cmds
  PROVE  /\ Numbers(c) /\ Count(c) = FrontCount(c) + BackCount(c) /\ Count(c) \in Nat /\ Tally(c)
         /\ Waiting(c) > 0 \/ Fetching(c) > 0 =>
              /\ Waiting(c) + Fetching(c) = 1 /\ Staged(c) = 0 /\ Running(c) = 0 /\ BackCount(c) = 0
              /\ InSeq(lCQFIFO, c) = 0 /\ Posting(c) = 0 /\ InHostMemory(c) = 0 /\ answers[c] = 0
<1>1. Numbers(c) /\ Count(c) = FrontCount(c) + BackCount(c)
  BY NumbersFact DEF Good
<1>2. Tally(c)
  BY DEF CountInv
<1>3. Count(c) \in Nat
  BY <1>1 DEF Numbers, FrontCount, BackCount
<1>4. ASSUME Waiting(c) > 0 \/ Fetching(c) > 0
      PROVE  /\ Waiting(c) + Fetching(c) = 1 /\ Staged(c) = 0 /\ Running(c) = 0 /\ BackCount(c) = 0
             /\ InSeq(lCQFIFO, c) = 0 /\ Posting(c) = 0 /\ InHostMemory(c) = 0 /\ answers[c] = 0
  <2>1. Count(c) <= 1
    BY <1>2, <1>4 DEF Tally
  <2>2. PICK w, f, s, r, l, p, h, a \in Nat :
          /\ w = Waiting(c) /\ f = Fetching(c) /\ s = Staged(c) /\ r = Running(c)
          /\ l = InSeq(lCQFIFO, c) /\ p = Posting(c) /\ h = InHostMemory(c) /\ a = answers[c]
    BY <1>1 DEF Numbers
  <2>3. (w + f + s + r) + (l + p + h + a) <= 1
    BY <1>1, <2>1, <2>2 DEF FrontCount, BackCount
  <2>4. w > 0 \/ f > 0
    BY <1>4, <2>2
  <2>5. w + f = 1 /\ s = 0 /\ r = 0 /\ l = 0 /\ p = 0 /\ h = 0 /\ a = 0
    BY <2>3, <2>4
  <2> QED
    BY <2>2, <2>5 DEF BackCount
<1> QED
  BY <1>1, <1>2, <1>3, <1>4

(* A fetched entry is staged.                                              *)
LEMMA ReadCount ==
  ASSUME Good, Good', CountInv, ReadDone, ~broken'
  PROVE  CountInv'
<1>1. UNCHANGED <<cmd, answers, gone, twice, running, lCQFIFO, cq, posting>>
  BY DEF ReadDone, postVars, histVars, hostVars
<1>2. SQInv /\ FetchInv /\ EntryInv /\ HostInv
  BY DEF Good, FrontInv
<1>3. PICK d, e : ReadOut(d, e) /\ UNCHANGED sq
  BY ReadEffect DEF Good
<1>4. Cmds' = Cmds /\ d \in Cmds /\ e.c = d /\ e \in Entries /\ sq[cmd[d].q].live
  BY <1>1, <1>3 DEF Cmds, ReadOut
<1>5. PICK n \in Nat : n > 0 /\ DOMAIN fetching = 1..n /\ DOMAIN fetching' = 1..(n - 1)
          /\ (\A j \in 1..(n - 1) : fetching'[j] = fetching[j + 1])
          /\ sq[fetching[1].q].mem[fetching[1].at] = d
  <2> DEFINE S == [q : Queues, at : Slots, last : BOOLEAN]
  <2>1. fetching \in Seq(S) /\ fetching # <<>> /\ fetching' = Tail(fetching)
        /\ sq[Head(fetching).q].mem[Head(fetching).at] = d
    BY <1>2, <1>3 DEF FetchInv, ReadOut
  <2> HIDE DEF S
  <2>2. Len(fetching) \in Nat /\ Len(fetching) > 0 /\ DOMAIN fetching = 1..Len(fetching)
        /\ DOMAIN fetching' = 1..(Len(fetching) - 1) /\ Head(fetching) = fetching[1]
        /\ (\A j \in 1..(Len(fetching) - 1) : fetching'[j] = fetching[j + 1])
    BY <2>1
  <2> QED
    BY <2>1, <2>2
<1>6. ASSUME NEW c \in Cmds
      PROVE  /\ Both(c) /\ SameBack(c) /\ Waiting(c)' = Waiting(c) /\ Running(c)' = Running(c)
             /\ Fetching(c) = Fetching(c)' + IF c = d THEN 1 ELSE 0
             /\ Staged(c)' = Staged(c) + IF c = d THEN 1 ELSE 0
             /\ \/ InSeq(lSQFIFO, c)' = 0
                \/ InSeq(lSQFIFO, c)' = InSeq(lSQFIFO, c) + IF c = d THEN 1 ELSE 0
  <2>1. Both(c) /\ SameBack(c)
    BY <1>1, <1>4, BothFact, BackStays
  <2>2. Waiting(c)' = Waiting(c) /\ Running(c)' = Running(c)
    BY <1>1, <1>3 DEF Waiting, Running, RunningOf, Occupied
  <2>3. Fetching(c) = Fetching(c)' + IF c = d THEN 1 ELSE 0
    <3>1. FetchedAt(c) \in SUBSET (1..n)
      BY <1>5 DEF FetchedAt
    <3>2. FetchedAt(c)' = Lowered(n, FetchedAt(c))
      <4>1. FetchedAt(c)' = {j \in 1..(n - 1) : sq[fetching[j + 1].q].mem[fetching[j + 1].at] = c}
        BY <1>3, <1>5 DEF FetchedAt
      <4>2. \A j \in 1..(n - 1) : j + 1 \in 1..n
        BY <1>5
      <4> QED
        BY <1>5, <4>1, <4>2 DEF FetchedAt, Lowered
    <3>3. 1 \in FetchedAt(c) <=> c = d
      BY <1>5 DEF FetchedAt
    <3>4. TakesOff(FetchedAt(c), FetchedAt(c)')
      BY <1>5, <3>1, <3>2, CountTail
    <3>5. Fetching(c) = Cardinality(FetchedAt(c)) /\ Fetching(c)' = Cardinality(FetchedAt(c)')
      BY <2>1 DEF Both, Numbers
    <3> QED
      BY <3>3, <3>4, <3>5 DEF TakesOff
  <2>4. Staged(c)' = Staged(c) + IF c = d THEN 1 ELSE 0
    <3>1. PICK u \in Users : u = cmd[c].uid
      BY <1>2, CmdType
    <3>2. PICK v \in Users : v = cmd[d].uid
      BY <1>2, <1>4, CmdType
    <3>3. lSQByUser' = [lSQByUser EXCEPT ![v] = Append(@, e)] /\ lSQByUser \in [Users -> Seq(Entries)]
      BY <1>2, <1>3, <3>2 DEF ReadOut, Stage, EntryInv
    <3>4. Staged(c) = InSeq(lSQByUser[u], c)
      BY <3>1 DEF Staged
    <3>5. CASE u = v
      <4>1. lSQByUser'[cmd'[c].uid] = Append(lSQByUser[u], e)
        BY <1>1, <3>1, <3>3, <3>5
      <4>2. Staged(c)' = InSeq(Append(lSQByUser[u], e), c)
        BY <4>1 DEF Staged, InSeq
      <4>3. lSQByUser[u] \in Seq(Entries)
        BY <3>3
      <4>4. InSeq(Append(lSQByUser[u], e), c) = InSeq(lSQByUser[u], c) + IF e.c = c THEN 1 ELSE 0
        BY <1>4, <4>3, InAppend
      <4> QED
        BY <1>4, <3>4, <4>2, <4>4
    <3>6. CASE u # v
      <4>1. lSQByUser'[cmd'[c].uid] = lSQByUser[u]
        BY <1>1, <3>1, <3>3, <3>6
      <4>2. Staged(c)' = Staged(c) /\ c # d
        BY <3>1, <3>2, <3>4, <3>6, <4>1 DEF Staged, InSeq
      <4> QED
        BY <2>1, <4>2 DEF Both, Numbers
    <3> QED
      BY <3>5, <3>6
  <2>5. \/ InSeq(lSQFIFO, c)' = 0
        \/ InSeq(lSQFIFO, c)' = InSeq(lSQFIFO, c) + IF c = d THEN 1 ELSE 0
    <3>1. CASE lSQFIFO' = <<>>
      <4>1. {i \in DOMAIN <<>> : <<>>[i].c = c} = {}
        OBVIOUS
      <4> QED
        BY <3>1, <4>1, FS_EmptySet DEF InSeq
    <3>2. CASE lSQFIFO' = Append(lSQFIFO, e)
      <4>1. InSeq(lSQFIFO, c)' = InSeq(Append(lSQFIFO, e), c)
        BY <3>2 DEF InSeq
      <4>2. lSQFIFO \in Seq(Entries)
        BY <1>2 DEF EntryInv
      <4>3. InSeq(Append(lSQFIFO, e), c) = InSeq(lSQFIFO, c) + IF e.c = c THEN 1 ELSE 0
        BY <1>4, <4>2, InAppend
      <4> QED
        BY <1>4, <4>1, <4>3
    <3> QED
      BY <1>3, <3>1, <3>2 DEF ReadOut
  <2> QED
    BY <2>1, <2>2, <2>3, <2>4, <2>5
<1>7. ASSUME NEW c \in Cmds, c # d PROVE Tally(c)'
  <2>1. /\ Both(c) /\ SameBack(c) /\ Waiting(c)' = Waiting(c) /\ Running(c)' = Running(c)
        /\ Fetching(c)' \in Nat /\ Fetching(c) = Fetching(c)' + 0 /\ Staged(c)' = Staged(c) + 0
        /\ (InSeq(lSQFIFO, c)' = 0 \/ InSeq(lSQFIFO, c)' = InSeq(lSQFIFO, c) + 0)
    BY <1>6, <1>7 DEF Both, Numbers
  <2>2. Count(c)' = Count(c) /\ Count(c) \in Nat
    BY <2>1 DEF Both, Numbers, FrontCount, BackCount, SameBack
  <2>3. Waiting(c)' + Fetching(c)' <= Waiting(c) + Fetching(c) /\ answers'[c] >= answers[c]
        /\ InSeq(lSQFIFO, c)' <= InSeq(lSQFIFO, c)
    BY <2>1 DEF Both, Numbers, SameBack
  <2>4. Kept(c)
    BY <1>1, <1>3, <2>2, <2>3 DEF Kept
  <2> QED
    BY <2>1, <2>2, <2>4, TallyKept DEF Both, CountInv
<1>8. Tally(d)'
  <2>1. /\ Both(d) /\ SameBack(d) /\ Waiting(d)' = Waiting(d) /\ Running(d)' = Running(d)
        /\ Fetching(d)' \in Nat /\ Fetching(d) = Fetching(d)' + 1 /\ Staged(d)' = Staged(d) + 1
        /\ (InSeq(lSQFIFO, d)' = 0 \/ InSeq(lSQFIFO, d)' = InSeq(lSQFIFO, d) + 1)
    BY <1>4, <1>6 DEF Both, Numbers
  <2>2. Fetching(d) > 0
    BY <2>1
  <2>3. d \notin twice /\ InSeq(lSQFIFO, d) = 0 /\ d \notin gone
    BY <1>4, <2>2 DEF CountInv, Tally
  <2>4. Waiting(d) + Fetching(d) = 1 /\ Staged(d) = 0 /\ Running(d) = 0 /\ BackCount(d) = 0
        /\ Waiting(d) \in Nat
    BY <1>4, <2>2, TallyFact DEF Numbers
  <2>5. Waiting(d)' = 0 /\ Fetching(d)' = 0
    BY <2>1, <2>4
  <2>6. Count(d)' = 1
    BY <2>1, <2>4, <2>5 DEF Both, Numbers, FrontCount, BackCount, SameBack
  <2>7. InSeq(lSQFIFO, d)' <= 1
    BY <2>1, <2>3
  <2>8. d \notin twice' /\ d \notin gone' /\ sq'[cmd'[d].q].live
    BY <1>1, <1>3, <1>4, <2>3
  <2> QED
    BY <2>5, <2>6, <2>7, <2>8 DEF Tally
<1> QED
  BY <1>4, <1>7, <1>8 DEF CountInv

-----------------------------------------------------------------------------
(* The slots behind the tail *)

(* How far a slot of queue q lies behind the tail.                         *)
Depth(q, s) == IF s < q.tail THEN q.tail - s ELSE QueueSize + q.tail - s

(* Slot s of queue q is read by fetch i or a later one.                    *)
FetchFrom(i, q, s) == \E j \in DOMAIN fetching : i <= j /\ fetching[j].q = q /\ fetching[j].at = s

(* From the tail of a queue down to a slot that is fetched, every slot     *)
(* waits or is fetched, the lower ones first.                              *)
ArcInv ==
  \A i \in DOMAIN fetching : \A q \in Queues, s \in Slots :
    /\ fetching[i].q = q /\ sq[q].live /\ ~Occupied(sq[q], s)
    /\ Depth(sq[q], s) <= Depth(sq[q], fetching[i].at)
    => FetchFrom(i, q, s)

(* The slot at the tail is the deepest, and a slot less deep than one that *)
(* waits also waits, and behind it.                                        *)
LEMMA DepthFact ==
  ASSUME NEW q, q.head \in Slots, q.tail \in Slots, NEW a \in Slots, NEW s \in Slots
  PROVE  /\ Depth(q, s) \in 1..QueueSize /\ Depth(q, q.tail) = QueueSize
         /\ Occupied(q, a) /\ Depth(q, s) <= Depth(q, a) => /\ Occupied(q, s)
                                                           /\ RankOf(q, a) <= RankOf(q, s)
         /\ RankOf(q, s) \in Int
BY Sizes DEF Depth, Occupied, RankOf, Slots

(* When the tail moves every slot but the one at the tail is deeper by one.*)
LEMMA DepthMoves ==
  ASSUME NEW q, NEW r, q.tail \in Slots, r.tail = Inc(q.tail), NEW s \in Slots, s # q.tail
  PROVE  Depth(r, s) = Depth(q, s) + 1
<1>1. Inc(q.tail) = IF q.tail = QueueSize - 1 THEN 0 ELSE q.tail + 1
  BY IncFact
<1> QED
  BY <1>1, Sizes DEF Depth, Slots

(* An item that comes before another one has its turn before it.           *)
LEMMA RankOrder ==
  ASSUME SQInv, NEW a \in Items, NEW b \in Items, Before(a, b)
  PROVE  Rank(a) <= Rank(b)
<1> DEFINE A == {x \in Items : Before(x, a)}
           B == {x \in Items : Before(x, b)}
<1>1. A \subseteq B
  BY BeforeOrder
<1>2. IsFiniteSet(B)
  <2>1. IsFiniteSet(Items) /\ B \in SUBSET Items
    BY ItemType
  <2> QED
    BY <2>1, FS_Subset
<1>3. Cardinality(A) <= Cardinality(B)
  <2> HIDE DEF A, B
  <2> QED
    BY <1>1, <1>2, FS_Subset
<1> QED
  BY <1>3 DEF Rank

(* A slot that waits behind one that a round fetches is fetched after it.  *)
LEMMA RoundOrder ==
  ASSUME SQInv, NEW n, FetchesOf(n), NEW k \in 1..n, NEW q, q = Fetches[k].q,
         NEW s \in Slots, Occupied(sq[q], s),
         RankOf(sq[q], Fetches[k].at) <= RankOf(sq[q], s)
  PROVE  \E l \in 1..n : k <= l /\ Fetches[l].q = q /\ Fetches[l].at = s
<1>1. /\ n \in Nat /\ n = Cardinality(Items) /\ q \in Queues /\ q \in Collected
      /\ q = InTurn(k)[2] /\ InTurn(k)[1] \in 1..ItemCount(sq[q])
      /\ Fetches[k].at = PlaceOf(sq[q], InTurn(k)[1])
  BY DEF FetchesOf
<1>2. sq[q].head \in Slots /\ sq[q].tail \in Slots
  BY <1>1 DEF SQInv, SQs
<1>3. PICK r : r = RankOf(sq[q], s)
  OBVIOUS
<1>4. r \in 1..ItemCount(sq[q]) /\ PlaceOf(sq[q], r) = s
      /\ RankOf(sq[q], Fetches[k].at) = InTurn(k)[1]
  BY <1>1, <1>2, <1>3, Places
<1>5. PICK a, b : a = InTurn(k) /\ b = <<r, q>>
  OBVIOUS
<1>6. a \in Items /\ Rank(a) = k /\ a[2] = q /\ a[1] <= r
  BY <1>1, <1>3, <1>4, <1>5, Turns
<1>7. b \in Items /\ b[1] = r /\ b[2] = q
  BY <1>1, <1>4, <1>5, ItemType
<1>8. Before(a, b)
  <2>1. a[1] \in Int /\ q \in Int
    BY <1>1, <1>5, Sizes
  <2>2. a[1] < r \/ a[1] = r
    BY <1>4, <1>6, <2>1
  <2> QED
    BY <1>6, <1>7, <2>1, <2>2 DEF Before
<1>9. PICK l : l = Rank(b)
  OBVIOUS
<1>10. l \in 1..n /\ InTurn(l) = b /\ k <= l
  BY <1>1, <1>6, <1>7, <1>8, <1>9, Turns, RankOrder
<1>11. Fetches[l].q = q /\ Fetches[l].at = s
  <2>1. Fetches[l].q = InTurn(l)[2] /\ Fetches[l].at = PlaceOf(sq[Fetches[l].q], InTurn(l)[1])
    BY <1>10 DEF FetchesOf
  <2> QED
    BY <1>4, <1>7, <1>10, <2>1
<1> QED
  BY <1>10, <1>11

(* Steps that leave the fetches and the rings alone.                       *)
LEMMA ArcFrame ==
  ASSUME ArcInv, UNCHANGED <<sq, fetching>>
  PROVE  ArcInv'
BY DEF ArcInv, FetchFrom, Occupied, Depth

(* A round keeps the order.                                                *)
LEMMA WorkArc ==
  ASSUME ArcInv, FrontInv, Work
  PROVE  ArcInv'
<1>1. SQInv /\ FetchInv
  BY DEF FrontInv
<1>2. Worked
  BY WorkEffect
<1>3. CASE UNCHANGED <<sq, fetching>>
  BY <1>3, ArcFrame
<1>4. CASE Emptied
  <2>1. PICK n : FetchesOf(n)
    BY <1>1, FetchesFact
  <2>2. PICK m : Behind(m, n)
    BY <1>1, <1>4, <2>1, FetchesBehind
  <2>3. ASSUME NEW i \in DOMAIN fetching', NEW q \in Queues, NEW s \in Slots,
               fetching'[i].q = q, sq'[q].live, ~(Occupied(sq[q], s))',
               (Depth(sq[q], s))' <= Depth(sq'[q], fetching'[i].at)
        PROVE  FetchFrom(i, q, s)'
    <3>1. /\ sq'[q].live = sq[q].live /\ sq'[q].tail = sq[q].tail
          /\ sq'[q].head = IF q \in Collected THEN sq[q].tail ELSE sq[q].head
      BY <1>4 DEF Emptied
    <3>2. sq[q].head \in Slots /\ sq[q].tail \in Slots
      BY <1>1 DEF SQInv, SQs
    <3>3. sq[q].live /\ Depth(sq[q], s) <= Depth(sq[q], fetching'[i].at)
      BY <2>3, <3>1 DEF Depth
    <3>4. ASSUME NEW j \in DOMAIN fetching', i <= j, fetching'[j].q = q, fetching'[j].at = s
          PROVE  FetchFrom(i, q, s)'
      BY <3>4 DEF FetchFrom
    <3>5. CASE i \in 1..m /\ ~Occupied(sq[q], s)
      <4>1. i \in DOMAIN fetching /\ fetching'[i] = fetching[i]
        BY <2>2, <3>5 DEF Behind
      <4>2. FetchFrom(i, q, s)
        BY <2>3, <3>3, <3>5, <4>1 DEF ArcInv
      <4>3. PICK j \in DOMAIN fetching : i <= j /\ fetching[j].q = q /\ fetching[j].at = s
        BY <4>2 DEF FetchFrom
      <4>4. j \in DOMAIN fetching' /\ fetching'[j] = fetching[j]
        BY <2>2, <4>3 DEF Behind
      <4> QED
        BY <3>4, <4>3, <4>4
    <3>6. CASE i \in 1..m /\ Occupied(sq[q], s)
      <4>1. q \in Collected
        BY <2>3, <3>1, <3>6 DEF Occupied
      <4>2. PICK l \in 1..n : Fetches[l].q = q /\ Fetches[l].at = s
        <5>1. PICK r : r = RankOf(sq[q], s)
          OBVIOUS
        <5>2. r \in 1..ItemCount(sq[q]) /\ PlaceOf(sq[q], r) = s
          BY <3>2, <3>6, <5>1, Places
        <5>3. PICK b : b = <<r, q>>
          OBVIOUS
        <5>4. b \in Items /\ b[1] = r /\ b[2] = q
          BY <1>1, <4>1, <5>2, <5>3, ItemType
        <5>5. PICK l : l = Rank(b)
          OBVIOUS
        <5>6. l \in 1..n /\ InTurn(l) = b
          BY <1>1, <2>1, <5>4, <5>5, Turns DEF FetchesOf
        <5>7. Fetches[l].q = InTurn(l)[2] /\ Fetches[l].at = PlaceOf(sq[Fetches[l].q], InTurn(l)[1])
          BY <2>1, <5>6 DEF FetchesOf
        <5> QED
          BY <5>2, <5>4, <5>6, <5>7
      <4>3. m + l \in DOMAIN fetching' /\ fetching'[m + l] = Fetches[l] /\ i <= m + l
        BY <2>2, <3>6 DEF Behind
      <4> QED
        BY <3>4, <4>2, <4>3
    <3>7. CASE i \notin 1..m
      <4>1. PICK k \in 1..n : i = m + k
        <5>1. i - m \in 1..n /\ i = m + (i - m)
          BY <2>2, <3>7 DEF Behind
        <5> QED
          BY <5>1
      <4>2. fetching'[i] = Fetches[k]
        BY <2>2, <4>1 DEF Behind
      <4>3. Fetches[k].q = q /\ Fetches[k].at \in Slots /\ Occupied(sq[q], Fetches[k].at)
        BY <2>1, <2>3, <4>2 DEF FetchesOf
      <4>4. Occupied(sq[q], s) /\ RankOf(sq[q], Fetches[k].at) <= RankOf(sq[q], s)
        BY <3>2, <3>3, <4>2, <4>3, DepthFact
      <4>5. PICK l \in 1..n : k <= l /\ Fetches[l].q = q /\ Fetches[l].at = s
        BY <1>1, <2>1, <4>3, <4>4, RoundOrder
      <4>6. m + l \in DOMAIN fetching' /\ fetching'[m + l] = Fetches[l] /\ i <= m + l
        BY <2>2, <4>1, <4>5 DEF Behind
      <4> QED
        BY <3>4, <4>5, <4>6
    <3> QED
      BY <3>5, <3>6, <3>7
  <2> QED
    BY <2>3 DEF ArcInv
<1> QED
  BY <1>2, <1>3, <1>4 DEF Worked

(* The read that ends was the first.                                       *)
LEMMA ReadArc ==
  ASSUME ArcInv, FrontInv, ReadDone, ~broken'
  PROVE  ArcInv'
<1>1. PICK d, e : ReadOut(d, e) /\ UNCHANGED sq
  BY ReadEffect
<1>2. PICK n \in Nat : DOMAIN fetching = 1..n /\ DOMAIN fetching' = 1..(n - 1)
          /\ (\A j \in 1..(n - 1) : fetching'[j] = fetching[j + 1])
  <2> DEFINE S == [q : Queues, at : Slots, last : BOOLEAN]
  <2>1. fetching \in Seq(S) /\ fetching # <<>> /\ fetching' = Tail(fetching)
    BY <1>1 DEF FetchInv, FrontInv, ReadOut
  <2> HIDE DEF S
  <2>2. Len(fetching) \in Nat /\ Len(fetching) > 0 /\ DOMAIN fetching = 1..Len(fetching)
        /\ DOMAIN fetching' = 1..(Len(fetching) - 1)
        /\ (\A j \in 1..(Len(fetching) - 1) : fetching'[j] = fetching[j + 1])
    BY <2>1
  <2> QED
    BY <2>1, <2>2
<1>3. ASSUME NEW i \in DOMAIN fetching', NEW q \in Queues, NEW s \in Slots,
             fetching'[i].q = q, sq'[q].live, ~(Occupied(sq[q], s))',
             (Depth(sq[q], s))' <= Depth(sq'[q], fetching'[i].at)
      PROVE  FetchFrom(i, q, s)'
  <2>1. i + 1 \in DOMAIN fetching /\ fetching'[i] = fetching[i + 1]
    BY <1>2
  <2>2. /\ fetching[i + 1].q = q /\ sq[q].live /\ ~Occupied(sq[q], s)
        /\ Depth(sq[q], s) <= Depth(sq[q], fetching[i + 1].at)
    BY <1>1, <1>3, <2>1 DEF Occupied, Depth
  <2>3. FetchFrom(i + 1, q, s)
    BY <2>1, <2>2 DEF ArcInv
  <2>4. PICK j \in DOMAIN fetching : i + 1 <= j /\ fetching[j].q = q /\ fetching[j].at = s
    BY <2>3 DEF FetchFrom
  <2>5. j - 1 \in DOMAIN fetching' /\ i <= j - 1 /\ fetching'[j - 1] = fetching[j]
    <3>1. j \in Int /\ i \in Int /\ j - 1 \in 1..(n - 1) /\ i <= j - 1 /\ (j - 1) + 1 = j
      BY <1>2, <2>4
    <3> QED
      BY <1>2, <3>1
  <2> QED
    BY <2>4, <2>5 DEF FetchFrom
<1> QED
  BY <1>3 DEF ArcInv

(* A finite set with one element, and with two.                            *)
LEMMA OneTwo ==
  ASSUME NEW S, IsFiniteSet(S), NEW a \in S
  PROVE  Cardinality(S) >= 1 /\ \A b \in S : b # a => Cardinality(S) >= 2
<1>1. Cardinality(S) \in Nat /\ IsFiniteSet(S \ {a}) /\ Cardinality(S \ {a}) = Cardinality(S) - 1
      /\ Cardinality(S \ {a}) \in Nat
  BY FS_CardinalityType, FS_RemoveElement
<1>2. ASSUME NEW b \in S, b # a PROVE Cardinality(S) >= 2
  <2>1. S \ {a} # {}
    BY <1>2
  <2>2. Cardinality(S \ {a}) # 0
    BY <1>1, <2>1, FS_EmptySet
  <2> QED
    BY <1>1, <2>2
<1> QED
  BY <1>1, <1>2

(* The slots of a queue that a submission must not overwrite.              *)
Busy(q) == {s \in Slots : Occupied(sq[q], s) \/ FetchFrom(1, q, s)}

(* They hold commands of the queue that nobody answered.                   *)
LEMMA BusyCommand ==
  ASSUME Good, CountInv, NEW q \in Queues, sq[q].live, NEW s \in Busy(q)
  PROVE  LET c == sq[q].mem[s] IN
         /\ c \in Outstanding(sq[q].cqID) /\ c \in Cmds /\ cmd[c].q = q
         /\ Waiting(c) \in Nat /\ Fetching(c) \in Nat /\ Waiting(c) + Fetching(c) = 1
         /\ Occupied(sq[q], s) => s \in WaitsAt(c)
         /\ Numbers(c)
<1>1. SQInv /\ FetchInv
  BY DEF Good, FrontInv
<1>2. PICK c : c = sq[q].mem[s]
  OBVIOUS
<1>3. s \in Slots
  BY DEF Busy
<1>4. c # 0
  <2>1. CASE Occupied(sq[q], s)
    BY <1>1, <1>2, <1>3, <2>1 DEF SQInv
  <2>2. CASE FetchFrom(1, q, s)
    BY <1>1, <1>2, <2>2 DEF FetchInv, FetchFrom
  <2> QED
    BY <2>1, <2>2 DEF Busy
<1>5. c \in Cmds /\ cmd[c].q = q
  BY <1>1, <1>2, <1>3, <1>4 DEF SQInv
<1>6. Numbers(c) /\ Tally(c)
  BY <1>5, TallyFact
<1>7. Occupied(sq[q], s) => s \in WaitsAt(c)
  BY <1>2, <1>3, <1>5 DEF WaitsAt
<1>8. Waiting(c) > 0 \/ Fetching(c) > 0
  <2>1. CASE Occupied(sq[q], s)
    <3>1. Waiting(c) >= 1
      BY <1>6, <1>7, <2>1, OneTwo DEF Numbers
    <3> QED
      BY <1>6, <3>1 DEF Numbers
  <2>2. CASE FetchFrom(1, q, s)
    <3>1. PICK i \in FetchedAt(c) : TRUE
      BY <1>2, <2>2 DEF FetchFrom, FetchedAt
    <3>2. Fetching(c) >= 1
      BY <1>6, <3>1, OneTwo DEF Numbers
    <3> QED
      BY <1>6, <3>2 DEF Numbers
  <2> QED
    BY <2>1, <2>2 DEF Busy
<1>9. answers[c] = 0 /\ Waiting(c) + Fetching(c) = 1
  BY <1>5, <1>8, TallyFact
<1>10. c \notin gone
  BY <1>5, <1>6, <1>8 DEF Tally
<1>11. c \in Outstanding(sq[q].cqID)
  BY <1>5, <1>9, <1>10 DEF Outstanding, Cmds
<1> QED
  BY <1>2, <1>5, <1>6, <1>7, <1>9, <1>11 DEF Numbers

(* So there are not more of them than outstanding commands.                *)
LEMMA BusyBound ==
  ASSUME Good, CountInv, NEW q \in Queues, sq[q].live
  PROVE  /\ IsFiniteSet(Busy(q)) /\ IsFiniteSet(Outstanding(sq[q].cqID))
         /\ Cardinality(Busy(q)) <= Cardinality(Outstanding(sq[q].cqID))
<1> DEFINE B == Busy(q)
           T == Outstanding(sq[q].cqID)
           f == [s \in B |-> sq[q].mem[s]]
<1>1. IsFiniteSet(T)
  <2>1. Len(cmd) \in Nat
    BY DEF Good, FrontInv, HostInv
  <2>2. PICK a \in Int, b \in Int : a = 1 /\ b = Len(cmd)
    BY <2>1
  <2>3. IsFiniteSet(a..b) /\ T \in SUBSET (a..b)
    BY <2>2, FS_Interval DEF Outstanding
  <2> QED
    BY <2>3, FS_Subset
<1>2. f \in [B -> T]
  BY BusyCommand
<1>3. ASSUME NEW s \in B, NEW r \in B, f[s] = f[r] PROVE s = r
  <2>1. SUFFICES ASSUME s # r PROVE FALSE
    OBVIOUS
  <2>2. PICK c : c = sq[q].mem[s] /\ c = sq[q].mem[r]
    BY <1>3
  <2>3. /\ Waiting(c) \in Nat /\ Fetching(c) \in Nat /\ Waiting(c) + Fetching(c) = 1 /\ Numbers(c)
        /\ Occupied(sq[q], s) => s \in WaitsAt(c)
    <3>1. LET d == sq[q].mem[s] IN
            /\ Waiting(d) \in Nat /\ Fetching(d) \in Nat /\ Waiting(d) + Fetching(d) = 1 /\ Numbers(d)
            /\ Occupied(sq[q], s) => s \in WaitsAt(d)
      <4> HIDE DEF f
      <4> QED
        BY BusyCommand
    <3>2. c = sq[q].mem[s]
      BY <2>2
    <3> QED
      BY <3>1, <3>2
  <2>10. Occupied(sq[q], r) => r \in WaitsAt(c)
    BY <2>2, BusyCommand
  <2>4. /\ IsFiniteSet(WaitsAt(c)) /\ Waiting(c) = Cardinality(WaitsAt(c))
        /\ IsFiniteSet(FetchedAt(c)) /\ Fetching(c) = Cardinality(FetchedAt(c))
    BY <2>3 DEF Numbers
  <2>5. ASSUME NEW t \in B, ~Occupied(sq[q], t), sq[q].mem[t] = c
        PROVE  \E i \in FetchedAt(c) : fetching[i].at = t
    <3>1. FetchFrom(1, q, t)
      BY <2>5 DEF Busy
    <3> QED
      BY <2>5, <3>1 DEF FetchFrom, FetchedAt
  <2>6. CASE Occupied(sq[q], s) /\ Occupied(sq[q], r)
    <3>1. Waiting(c) >= 2
      BY <2>1, <2>3, <2>4, <2>6, <2>10, OneTwo
    <3> QED
      BY <2>3, <3>1
  <2>7. CASE Occupied(sq[q], s) /\ ~Occupied(sq[q], r)
    <3>1. PICK i \in FetchedAt(c) : TRUE
      BY <2>2, <2>5, <2>7
    <3>2. Waiting(c) >= 1 /\ Fetching(c) >= 1
      BY <2>3, <2>4, <2>7, <3>1, OneTwo
    <3> QED
      BY <2>3, <3>2
  <2>8. CASE ~Occupied(sq[q], s) /\ Occupied(sq[q], r)
    <3>1. PICK i \in FetchedAt(c) : TRUE
      BY <2>2, <2>5, <2>8
    <3>2. Waiting(c) >= 1 /\ Fetching(c) >= 1
      BY <2>4, <2>8, <2>10, <3>1, OneTwo
    <3> QED
      BY <2>3, <3>2
  <2>9. CASE ~Occupied(sq[q], s) /\ ~Occupied(sq[q], r)
    <3>1. PICK i \in FetchedAt(c), j \in FetchedAt(c) : fetching[i].at = s /\ fetching[j].at = r
      BY <2>2, <2>5, <2>9
    <3>2. i # j
      BY <2>1, <3>1
    <3>3. Fetching(c) >= 2
      BY <2>4, <3>1, <3>2, OneTwo
    <3> QED
      BY <2>3, <3>3
  <2> QED
    BY <2>6, <2>7, <2>8, <2>9
<1>4. f \in Injection(B, T)
  <2> HIDE DEF f, B, T
  <2> QED
    BY <1>2, <1>3 DEF Injection, IsInjective
<1>5. IsFiniteSet(B) /\ Cardinality(B) <= Cardinality(T)
  <2> HIDE DEF f, B, T
  <2> QED
    BY <1>1, <1>4, FS_Injection
<1> QED
  BY <1>1, <1>5

(* A submission finds a slot that neither waits nor is fetched, and leaves *)
(* another one free.                                                       *)
LEMMA Room ==
  ASSUME Good, CountInv, ArcInv, NEW q \in Queues, NEW op, NEW uid, Submit(q, op, uid)
  PROVE  Inc(sq[q].tail) # sq[q].head /\ ~FetchFrom(1, q, sq[q].tail) /\ sq[q].live
<1>1. SQInv /\ HostInv /\ FetchInv
  BY DEF Good, FrontInv
<1>2. sq[q].live /\ Cardinality(Outstanding(sq[q].cqID)) < QueueSize - 1
  BY <1>1 DEF Submit, HostInv
<1>3. sq[q].head \in Slots /\ sq[q].tail \in Slots
  BY <1>1 DEF SQInv, SQs
<1>4. ASSUME Slots \ {sq[q].tail} \subseteq Busy(q) PROVE FALSE
  <2>1. PICK a \in Int, b \in Int : a = 0 /\ b = QueueSize - 1
    BY Sizes
  <2>2. IsFiniteSet(a..b) /\ Cardinality(a..b) = b - a + 1
    <3>1. ~(a > b)
      BY <2>1, Sizes
    <3> QED
      BY <3>1, FS_Interval
  <2>3. IsFiniteSet(Slots) /\ Cardinality(Slots) = QueueSize
    BY <2>1, <2>2, Sizes DEF Slots
  <2>4. Cardinality(Slots \ {sq[q].tail}) = QueueSize - 1
    BY <1>3, <2>3, FS_RemoveElement
  <2>5. IsFiniteSet(Busy(q)) /\ IsFiniteSet(Outstanding(sq[q].cqID))
        /\ Cardinality(Busy(q)) <= Cardinality(Outstanding(sq[q].cqID))
    BY <1>2, BusyBound
  <2>6. QueueSize - 1 <= Cardinality(Busy(q))
    BY <1>4, <2>4, <2>5, FS_Subset
  <2>7. Cardinality(Busy(q)) \in Nat /\ Cardinality(Outstanding(sq[q].cqID)) \in Nat
    BY <2>5, FS_CardinalityType
  <2> QED
    BY <1>2, <2>5, <2>6, <2>7, Sizes
<1>5. Inc(sq[q].tail) # sq[q].head
  <2>1. SUFFICES ASSUME Inc(sq[q].tail) = sq[q].head PROVE Slots \ {sq[q].tail} \subseteq Busy(q)
    BY <1>4
  <2>2. Inc(sq[q].tail) = IF sq[q].tail = QueueSize - 1 THEN 0 ELSE sq[q].tail + 1
    BY <1>3, IncFact
  <2>3. \A s \in Slots : s # sq[q].tail => Occupied(sq[q], s)
    BY <1>3, <2>1, <2>2, Sizes DEF Occupied, Slots
  <2> QED
    BY <2>3 DEF Busy
<1>6. ~FetchFrom(1, q, sq[q].tail)
  <2>1. SUFFICES ASSUME FetchFrom(1, q, sq[q].tail) PROVE Slots \ {sq[q].tail} \subseteq Busy(q)
    BY <1>4
  <2>2. PICK i \in DOMAIN fetching : fetching[i].q = q /\ fetching[i].at = sq[q].tail /\ 1 <= i
    BY <2>1 DEF FetchFrom
  <2>3. ASSUME NEW s \in Slots, ~Occupied(sq[q], s) PROVE FetchFrom(1, q, s)
    <3>1. Depth(sq[q], s) <= Depth(sq[q], sq[q].tail)
      <4>1. Depth(sq[q], s) \in 1..QueueSize /\ Depth(sq[q], sq[q].tail) = QueueSize
        BY <1>3, DepthFact
      <4> QED
        BY <4>1
    <3>2. FetchFrom(i, q, s)
      BY <1>2, <2>2, <2>3, <3>1 DEF ArcInv
    <3>3. DOMAIN fetching \subseteq Nat
      <4> DEFINE S == [q : Queues, at : Slots, last : BOOLEAN]
      <4>1. fetching \in Seq(S)
        BY <1>1 DEF FetchInv
      <4> HIDE DEF S
      <4> QED
        BY <4>1
    <3>4. PICK j \in DOMAIN fetching : i <= j /\ fetching[j].q = q /\ fetching[j].at = s
      BY <3>2 DEF FetchFrom
    <3>5. 1 <= j
      BY <2>2, <3>3, <3>4
    <3> QED
      BY <3>4, <3>5 DEF FetchFrom
  <2> QED
    BY <2>3 DEF Busy
<1> QED
  BY <1>2, <1>5, <1>6

(* What a submission does to the ring of its queue.                        *)
LEMMA SubmitRing ==
  ASSUME Good, CountInv, ArcInv, NEW q \in Queues, NEW op, NEW uid, Submit(q, op, uid), Enqueued(q)
  PROVE  /\ \A i \in Slots : (Occupied(sq[q], i))' <=> Occupied(sq[q], i) \/ i = sq[q].tail
         /\ ~Occupied(sq[q], sq[q].tail) /\ sq[q].tail \in Slots /\ sq[q].live
         /\ \A i \in DOMAIN fetching : ~(fetching[i].q = q /\ fetching[i].at = sq[q].tail)
         /\ UNCHANGED fetching
<1>1. Inc(sq[q].tail) # sq[q].head /\ ~FetchFrom(1, q, sq[q].tail) /\ sq[q].live
  BY Room
<1>2. sq[q].head \in Slots /\ sq[q].tail \in Slots
  BY DEF Good, FrontInv, SQInv, SQs
<1>3. sq'[q].head = sq[q].head /\ sq'[q].tail = Inc(sq[q].tail)
  BY DEF Enqueued
<1>4. /\ \A i \in Slots : Occupied(sq'[q], i) <=> Occupied(sq[q], i) \/ i = sq[q].tail
      /\ ~Occupied(sq[q], sq[q].tail)
  BY <1>1, <1>2, <1>3, TailMoves
<1>5. \A i \in Slots : (Occupied(sq[q], i))' <=> Occupied(sq'[q], i)
  BY DEF Occupied
<1>6. ASSUME NEW i \in DOMAIN fetching, fetching[i].q = q, fetching[i].at = sq[q].tail PROVE FALSE
  <2> DEFINE S == [q : Queues, at : Slots, last : BOOLEAN]
  <2>1. fetching \in Seq(S)
    BY DEF Good, FrontInv, FetchInv
  <2> HIDE DEF S
  <2>2. 1 <= i
    BY <2>1
  <2> QED
    BY <1>1, <1>6, <2>2 DEF FetchFrom
<1>7. UNCHANGED fetching
  BY DEF Submit
<1> QED
  BY <1>1, <1>2, <1>4, <1>5, <1>6, <1>7

(* A submission keeps the order of the fetches.                            *)
LEMMA SubmitArc ==
  ASSUME Good, CountInv, ArcInv, NEW q \in Queues, NEW op, NEW uid, Submit(q, op, uid), Enqueued(q)
  PROVE  ArcInv'
<1>1. /\ \A i \in Slots : (Occupied(sq[q], i))' <=> Occupied(sq[q], i) \/ i = sq[q].tail
      /\ sq[q].tail \in Slots
      /\ \A i \in DOMAIN fetching : ~(fetching[i].q = q /\ fetching[i].at = sq[q].tail)
      /\ UNCHANGED fetching
  BY SubmitRing
<1>2. ASSUME NEW i \in DOMAIN fetching', NEW r \in Queues, NEW s \in Slots,
             fetching'[i].q = r, sq'[r].live, ~(Occupied(sq[r], s))',
             (Depth(sq[r], s))' <= Depth(sq'[r], fetching'[i].at)
      PROVE  FetchFrom(i, r, s)'
  <2>1. SUFFICES FetchFrom(i, r, s)
    BY <1>1 DEF FetchFrom
  <2>2. i \in DOMAIN fetching /\ fetching'[i] = fetching[i] /\ sq[r].live /\ fetching[i].at \in Slots
    BY <1>1, <1>2, FetchType DEF Enqueued, Good, FrontInv
  <2>3. (Depth(sq[r], s))' = Depth(sq'[r], s)
    BY DEF Depth
  <2>4. CASE r = q
    <3>1. s # sq[q].tail /\ ~Occupied(sq[q], s) /\ fetching[i].at # sq[q].tail
      BY <1>1, <1>2, <2>2, <2>4
    <3>2. sq'[q].tail = Inc(sq[q].tail)
      BY DEF Enqueued
    <3>3. /\ Depth(sq'[q], s) = Depth(sq[q], s) + 1
          /\ Depth(sq'[q], fetching[i].at) = Depth(sq[q], fetching[i].at) + 1
      BY <1>1, <2>2, <3>1, <3>2, DepthMoves
    <3>4. sq[q].head \in Slots
      BY DEF Good, FrontInv, SQInv, SQs
    <3>5. Depth(sq[q], s) \in 1..QueueSize /\ Depth(sq[q], fetching[i].at) \in 1..QueueSize
      BY <1>1, <2>2, <3>4, DepthFact
    <3>6. Depth(sq[q], s) <= Depth(sq[q], fetching[i].at)
      BY <1>2, <2>2, <2>3, <2>4, <3>3, <3>5
    <3> QED
      BY <1>2, <2>2, <2>4, <3>1, <3>6 DEF ArcInv
  <2>5. CASE r # q
    <3>1. sq'[r].head = sq[r].head /\ sq'[r].tail = sq[r].tail
      BY <2>5 DEF Enqueued
    <3>2. ~Occupied(sq[r], s) /\ Depth(sq[r], s) <= Depth(sq[r], fetching[i].at)
      BY <1>2, <2>2, <3>1 DEF Occupied, Depth
    <3> QED
      BY <1>2, <2>2, <3>2 DEF ArcInv
  <2> QED
    BY <2>4, <2>5
<1> QED
  BY <1>2 DEF ArcInv

(* Nothing is counted of a command that is not submitted yet.              *)
LEMMA NewCommand ==
  ASSUME Good, NEW n, n = Len(cmd) + 1, n \in 1..MaxCommands
  PROVE  /\ \A q \in Queues, s \in Slots : sq[q].mem[s] # n
         /\ \A i \in DOMAIN fetching : sq[fetching[i].q].mem[fetching[i].at] # n
         /\ \A u \in Users : InSeq(lSQByUser[u], n) = 0
         /\ InSeq(lSQFIFO, n) = 0 /\ RunningOf(n) = {} /\ InSeq(lCQFIFO, n) = 0
         /\ PostedAt(n) = {} /\ HostAt(n) = {} /\ answers[n] = 0
         /\ n \notin twice /\ n \notin gone /\ n \notin Cmds
<1>1. SQInv /\ FetchInv /\ EntryInv /\ HostInv /\ CQInv /\ PostInv
  BY DEF Good, FrontInv, BackInv
<1>2. n \notin Cmds /\ n # 0
  <2>1. Len(cmd) \in Nat
    BY <1>1 DEF HostInv
  <2> QED
    BY <2>1 DEF Cmds
<1>3. \A q \in Queues, s \in Slots : sq[q].mem[s] # n
  BY <1>1, <1>2 DEF SQInv
<1>4. \A i \in DOMAIN fetching : sq[fetching[i].q].mem[fetching[i].at] # n
  BY <1>1, <1>3, FetchType
<1>5. ASSUME NEW u \in Users PROVE InSeq(lSQByUser[u], n) = 0
  <2>1. lSQByUser[u] \in Seq(Entries) /\ \A i \in DOMAIN lSQByUser[u] : lSQByUser[u][i].c # n
    BY <1>1, <1>2 DEF EntryInv, IsEntry
  <2> QED
    BY <2>1, AtFinite
<1>6. InSeq(lSQFIFO, n) = 0
  <2>1. lSQFIFO \in Seq(Entries) /\ \A i \in DOMAIN lSQFIFO : lSQFIFO[i].c # n
    BY <1>1, <1>2 DEF EntryInv, IsEntry
  <2> QED
    BY <2>1, AtFinite
<1>7. InSeq(lCQFIFO, n) = 0
  <2>1. lCQFIFO \in Seq(Entries) /\ \A i \in DOMAIN lCQFIFO : lCQFIFO[i].c # n
    BY <1>1, <1>2 DEF EntryInv, IsEntry
  <2> QED
    BY <2>1, AtFinite
<1>8. RunningOf(n) = {}
  BY <1>1, <1>2 DEF EntryInv, IsEntry, RunningOf
<1>9. PostedAt(n) = {}
  BY <1>1, <1>2 DEF PostedAt, PostInv, Answers
<1>10. HostAt(n) = {}
  <2>1. ASSUME NEW s \in Queues \X Slots, cq[s[1]].live, Written(s[1], s[2]), cq[s[1]].mem[s[2]].c = n
        PROVE  FALSE
    <3>1. s[1] \in Queues /\ s[2] \in Slots
      OBVIOUS
    <3>2. Answers(cq[s[1]].mem[s[2]].c, s[1])
      BY <1>1, <2>1, <3>1 DEF CQInv
    <3> QED
      BY <1>2, <2>1, <3>2 DEF Answers
  <2> QED
    BY <2>1 DEF HostAt
<1>11. answers[n] = 0 /\ n \notin twice /\ n \notin gone
  BY <1>1, <1>2 DEF HostInv
<1> QED
  BY <1>2, <1>3, <1>4, <1>5, <1>6, <1>7, <1>8, <1>9, <1>10, <1>11

(* A submission: the new command waits, and nothing is lost.               *)
LEMMA SubmitCount ==
  ASSUME Good, Good', CountInv, ArcInv, NEW q \in Queues, NEW op, NEW uid \in Users,
         Submit(q, op, uid), Enqueued(q), Recorded(q, op, uid)
  PROVE  CountInv'
<1>1. /\ \A i \in Slots : (Occupied(sq[q], i))' <=> Occupied(sq[q], i) \/ i = sq[q].tail
      /\ ~Occupied(sq[q], sq[q].tail) /\ sq[q].tail \in Slots /\ sq[q].live
      /\ \A i \in DOMAIN fetching : ~(fetching[i].q = q /\ fetching[i].at = sq[q].tail)
      /\ UNCHANGED fetching
  BY SubmitRing
<1>2. UNCHANGED <<lSQByUser, lSQFIFO, running, cq, lCQFIFO, posting, answers, gone, twice>>
  BY DEF Submit, postVars, histVars
<1>3. PICK n : n = Len(cmd) + 1
  OBVIOUS
<1>4. /\ Cmds' = Cmds \union {n} /\ n \notin Cmds /\ \A c \in Cmds : cmd'[c] = cmd[c]
      /\ cmd'[n] = [q |-> q, op |-> op, uid |-> uid] /\ n \in 1..MaxCommands
  BY <1>3 DEF Recorded
<1>5. \A r \in Queues : /\ sq'[r].live = sq[r].live /\ sq'[r].head = sq[r].head
                        /\ sq'[r].tail = IF r = q THEN Inc(sq[q].tail) ELSE sq[r].tail
                        /\ \A i \in Slots : sq'[r].mem[i] = IF r = q /\ i = sq[q].tail
                                                            THEN n ELSE sq[r].mem[i]
  BY <1>3 DEF Enqueued
<1>6. /\ \A r \in Queues, s \in Slots : sq[r].mem[s] # n
      /\ \A i \in DOMAIN fetching : sq[fetching[i].q].mem[fetching[i].at] # n
      /\ InSeq(lSQByUser[uid], n) = 0 /\ InSeq(lSQFIFO, n) = 0 /\ RunningOf(n) = {}
      /\ InSeq(lCQFIFO, n) = 0 /\ PostedAt(n) = {} /\ HostAt(n) = {} /\ answers[n] = 0
      /\ n \notin twice /\ n \notin gone
  BY <1>3, <1>4, NewCommand
<1>7. \A i \in DOMAIN fetching : /\ fetching[i].q \in Queues /\ fetching[i].at \in Slots
                                 /\ sq'[fetching[i].q].mem[fetching[i].at]
                                      = sq[fetching[i].q].mem[fetching[i].at]
  BY <1>1, <1>5, FetchType DEF Good, FrontInv
<1>8. ASSUME NEW c \in Cmds PROVE Tally(c)'
  <2>1. Both(c) /\ SameBack(c)
    BY <1>2, <1>4, BothFact, BackStays
  <2>2. cmd'[c] = cmd[c] /\ cmd[c].q \in Queues /\ c # n
    BY <1>4, CmdType DEF Good, FrontInv
  <2>3. WaitsAt(c)' = WaitsAt(c)
    <3>1. WaitsAt(c)' = {i \in Slots : /\ sq'[cmd[c].q].live /\ (Occupied(sq[cmd[c].q], i))'
                                       /\ sq'[cmd[c].q].mem[i] = c}
      BY <2>2 DEF WaitsAt, Occupied
    <3>2. CASE cmd[c].q = q
      BY <1>1, <1>5, <2>2, <3>1, <3>2 DEF WaitsAt
    <3>3. CASE cmd[c].q # q
      <4>1. sq'[cmd[c].q].head = sq[cmd[c].q].head /\ sq'[cmd[c].q].tail = sq[cmd[c].q].tail
            /\ \A i \in Slots : sq'[cmd[c].q].mem[i] = sq[cmd[c].q].mem[i]
        BY <1>5, <2>2, <3>3
      <4>2. WaitsAt(c)' = {i \in Slots : /\ sq'[cmd[c].q].live /\ Occupied(sq'[cmd[c].q], i)
                                         /\ sq'[cmd[c].q].mem[i] = c}
        BY <2>2 DEF WaitsAt, Occupied
      <4>3. \A i \in Slots : Occupied(sq'[cmd[c].q], i) <=> Occupied(sq[cmd[c].q], i)
        BY <4>1 DEF Occupied
      <4> QED
        BY <1>5, <2>2, <4>1, <4>2, <4>3 DEF WaitsAt
    <3> QED
      BY <3>2, <3>3
  <2>4. FetchedAt(c)' = FetchedAt(c)
    BY <1>1, <1>7 DEF FetchedAt
  <2>5. Waiting(c)' = Waiting(c) /\ Fetching(c)' = Fetching(c)
    BY <2>1, <2>3, <2>4 DEF Both, Numbers
  <2>6. Staged(c)' = Staged(c) /\ Running(c)' = Running(c) /\ InSeq(lSQFIFO, c)' = InSeq(lSQFIFO, c)
    BY <1>2, <2>2 DEF Staged, Running, RunningOf, InSeq
  <2>7. Count(c)' = Count(c) /\ Count(c) \in Nat
    BY <2>1, <2>5, <2>6 DEF Both, Numbers, FrontCount, BackCount, SameBack
  <2>8. Waiting(c)' + Fetching(c)' <= Waiting(c) + Fetching(c) /\ answers'[c] >= answers[c]
        /\ InSeq(lSQFIFO, c)' <= InSeq(lSQFIFO, c)
    BY <2>1, <2>5, <2>6 DEF Both, Numbers, SameBack
  <2>9. Kept(c)
    BY <1>2, <1>5, <2>2, <2>7, <2>8 DEF Kept
  <2> QED
    BY <2>1, <2>7, <2>9, TallyKept DEF Both, CountInv
<1>9. Tally(n)'
  <2>1. Numbers(n)' /\ Count(n)' = FrontCount(n)' + BackCount(n)'
    BY <1>4, NumbersNext DEF Good
  <2>2. WaitsAt(n)' = {sq[q].tail}
    <3>1. WaitsAt(n)' = {i \in Slots : /\ sq'[q].live /\ (Occupied(sq[q], i))' /\ sq'[q].mem[i] = n}
      BY <1>4 DEF WaitsAt, Occupied
    <3> QED
      BY <1>1, <1>5, <1>6, <3>1
  <2>3. FetchedAt(n)' = {}
    BY <1>1, <1>6, <1>7 DEF FetchedAt
  <2>4. Waiting(n)' = 1 /\ Fetching(n)' = 0
    <3>1. Waiting(n)' = Cardinality(WaitsAt(n)') /\ Fetching(n)' = Cardinality(FetchedAt(n)')
      BY <2>1 DEF Numbers
    <3>2. Cardinality({sq[q].tail}) = 1 /\ Cardinality({}) = 0
      BY FS_Singleton, FS_EmptySet
    <3> QED
      BY <2>2, <2>3, <3>1, <3>2
  <2>5. Staged(n)' = 0 /\ InSeq(lSQFIFO, n)' = 0 /\ InSeq(lCQFIFO, n)' = 0
    BY <1>2, <1>4, <1>6 DEF Staged, InSeq
  <2>6. Running(n)' = 0
    <3>1. RunningOf(n)' = {}
      BY <1>2, <1>6 DEF RunningOf
    <3> QED
      BY <3>1, FS_EmptySet DEF Running
  <2>7. Posting(n)' = 0
    <3>1. PostedAt(n)' = {}
      BY <1>2, <1>6 DEF PostedAt
    <3> QED
      BY <3>1, FS_EmptySet DEF Posting
  <2>8. InHostMemory(n)' = 0
    <3>1. HostAt(n)' = {}
      BY <1>2, <1>6 DEF HostAt, Written, Occupied, Unwritten
    <3>2. InHostMemory(n)' = Cardinality(HostAt(n)')
      BY <2>1 DEF Numbers
    <3> QED
      BY <3>1, <3>2, FS_EmptySet
  <2>9. answers'[n] = 0 /\ n \notin twice' /\ n \notin gone'
    BY <1>2, <1>6
  <2>10. Count(n)' = 1
    BY <2>1, <2>4, <2>5, <2>6, <2>7, <2>8, <2>9 DEF FrontCount, BackCount
  <2>11. sq'[cmd'[n].q].live
    BY <1>1, <1>4, <1>5
  <2> QED
    BY <2>5, <2>9, <2>10, <2>11 DEF Tally
<1> QED
  BY <1>4, <1>8, <1>9 DEF CountInv

-----------------------------------------------------------------------------
(* Ends of commands *)

(* What the end of a command does to command c, when d entries of the      *)
(* deprecated FIFO are answered for it.                                    *)
Ended(c, d) ==
  /\ d \in Nat /\ d + InSeq(lSQFIFO, c)' <= InSeq(lSQFIFO, c)
  /\ c \in twice' <=> c \in twice \/ d > 0
  /\ c \in gone => c \in gone'
  /\ c \in gone' => c \in gone \/ ~sq'[cmd'[c].q].live \/ Running(c) > 0
  /\ sq'[cmd'[c].q].live => sq[cmd[c].q].live
  /\ ~sq'[cmd'[c].q].live => answers'[c] > 0 \/ c \in gone'
  /\ Waiting(c)' <= Waiting(c) /\ Fetching(c)' <= Fetching(c)
  /\ Count(c)' <= Count(c) + d
  /\ c \notin gone' /\ c \notin twice' => Count(c)' = Count(c)

(* What is said of its count stays.                                        *)
LEMMA EndTally ==
  ASSUME Good, Good', CountInv, Cmds' = Cmds, NEW c \in Cmds, NEW d, Ended(c, d)
  PROVE  Tally(c)'
<1>1. /\ Numbers(c) /\ Count(c) \in Nat /\ Tally(c)
      /\ Waiting(c) > 0 \/ Fetching(c) > 0 => Running(c) = 0
  BY TallyFact
<1>2. Numbers(c)' /\ Count(c)' \in Nat
  <2>1. Numbers(c)' /\ Count(c)' = FrontCount(c)' + BackCount(c)'
    BY NumbersNext DEF Good
  <2> QED
    BY <2>1 DEF Numbers, FrontCount, BackCount
<1>3. PICK w, f, r, l, x, y, m, n, k \in Nat :
        /\ w = Waiting(c) /\ f = Fetching(c) /\ r = Running(c) /\ l = InSeq(lSQFIFO, c)
        /\ x = Waiting(c)' /\ y = Fetching(c)' /\ m = InSeq(lSQFIFO, c)'
        /\ n = Count(c) /\ k = Count(c)'
  BY <1>1, <1>2 DEF Numbers
<1>4. d \in Nat /\ d + m <= l /\ x <= w /\ y <= f /\ k <= n + d
  BY <1>3 DEF Ended
<1>5. /\ l <= 1 /\ (l = 1 => c \notin twice)
      /\ c \in twice => n <= 2
      /\ c \notin twice => n <= 1
      /\ c \notin twice /\ c \notin gone => n = 1
  BY <1>1, <1>3 DEF Tally
<1>6. w > 0 \/ f > 0 => c \notin twice /\ l = 0 /\ r = 0 /\ (c \in gone => ~sq[cmd[c].q].live)
  BY <1>1, <1>3 DEF Tally
<1>7. c \in twice' => k <= 2
  <2>1. CASE c \in twice
    <3>1. n <= 2 /\ l # 1
      BY <1>5, <2>1
    <3>2. d = 0
      BY <1>4, <1>5, <3>1
    <3> QED
      BY <1>4, <3>1, <3>2
  <2>2. CASE c \notin twice
    <3>1. n <= 1 /\ l <= 1
      BY <1>5, <2>2
    <3> QED
      BY <1>4, <3>1
  <2> QED
    BY <2>1, <2>2
<1>8. c \notin twice' => c \notin twice /\ d = 0
  BY <1>4 DEF Ended
<1>9. c \notin twice' => k <= 1
  BY <1>4, <1>5, <1>8
<1>10. c \notin twice' /\ c \notin gone' => k = 1
  <2>1. ASSUME c \notin twice', c \notin gone' PROVE k = 1
    <3>1. k = n /\ c \notin gone
      BY <1>3, <2>1 DEF Ended
    <3> QED
      BY <1>5, <1>8, <2>1, <3>1
  <2> QED
    BY <2>1
<1>11. m <= 1
  BY <1>4, <1>5
<1>12. m = 1 => c \notin twice'
  <2>1. ASSUME m = 1 PROVE c \notin twice'
    <3>1. l = 1 /\ d = 0
      BY <1>4, <1>5, <2>1
    <3> QED
      BY <1>5, <3>1 DEF Ended
  <2> QED
    BY <2>1
<1>13. x > 0 \/ y > 0 => c \notin twice' /\ m = 0 /\ (c \in gone' => ~sq'[cmd'[c].q].live)
  <2>1. ASSUME x > 0 \/ y > 0 PROVE c \notin twice' /\ m = 0 /\ (c \in gone' => ~sq'[cmd'[c].q].live)
    <3>1. w > 0 \/ f > 0
      BY <1>4, <2>1
    <3>2. c \notin twice /\ l = 0 /\ r = 0 /\ (c \in gone => ~sq[cmd[c].q].live)
      BY <1>6, <3>1
    <3>3. d = 0 /\ m = 0
      BY <1>4, <3>2
    <3>4. c \notin twice'
      BY <3>2, <3>3 DEF Ended
    <3>5. ~(Running(c) > 0)
      BY <1>3, <3>2
    <3> QED
      BY <3>2, <3>3, <3>4, <3>5 DEF Ended
  <2> QED
    BY <2>1
<1>14. ~sq'[cmd'[c].q].live => answers'[c] > 0 \/ c \in gone'
  BY DEF Ended
<1> QED
  BY <1>3, <1>7, <1>9, <1>10, <1>11, <1>12, <1>13, <1>14 DEF Tally

(* The numbers that change when a command ends, with d answers from the    *)
(* FIFO.                                                                   *)
EndSum(c, d) ==
  /\ Both(c) /\ d \in Nat /\ Fetching(c)' = Fetching(c)
  /\ Running(c)' + InSeq(lCQFIFO, c)' = Running(c) + InSeq(lCQFIFO, c) + d
  /\ Posting(c)' = Posting(c) /\ answers'[c] = answers[c]

(* A command that ends is not running any more.                            *)
LEMMA EndRunning ==
  ASSUME Good, Good', NEW e \in running, EndFrame(e), NEW c \in Cmds
  PROVE  /\ Both(c) /\ Cmds' = Cmds /\ Posting(c)' = Posting(c) /\ answers'[c] = answers[c]
         /\ cmd' = cmd
         /\ Running(c) = Running(c)' + IF e.c = c THEN 1 ELSE 0
<1>1. running' = running \ {e} /\ UNCHANGED <<posting, answers, cmd>>
  BY DEF EndFrame
<1>2. Cmds' = Cmds
  BY <1>1 DEF Cmds
<1>3. Both(c)
  BY <1>2, BothFact
<1>4. Posting(c)' = Posting(c)
  BY <1>1 DEF Posting, PostedAt
<1>5. IsFiniteSet(RunningOf(c)) /\ Running(c) \in Nat /\ Running(c)' \in Nat
  BY <1>3 DEF Both, Numbers
<1>6. CASE e.c = c
  <2>1. RunningOf(c)' = RunningOf(c) \ {e} /\ e \in RunningOf(c)
    BY <1>1, <1>6 DEF RunningOf
  <2>2. Cardinality(RunningOf(c) \ {e}) = Cardinality(RunningOf(c)) - 1
    BY <1>5, <2>1, FS_RemoveElement
  <2> QED
    BY <1>1, <1>2, <1>3, <1>4, <1>5, <1>6, <2>1, <2>2 DEF Running
<1>7. CASE e.c # c
  <2>1. RunningOf(c)' = RunningOf(c)
    BY <1>1, <1>7 DEF RunningOf
  <2> QED
    BY <1>1, <1>2, <1>3, <1>4, <1>5, <1>7, <2>1 DEF Running
<1> QED
  BY <1>6, <1>7

(* It is answered, after some entries of the FIFO.                         *)
LEMMA EndAnswers ==
  ASSUME Good, Good', NEW e \in running, EndFrame(e), NEW c \in Cmds,
         NEW done \in Seq(Entries), lCQFIFO' = lCQFIFO \o (done \o <<e>>),
         \A i \in DOMAIN fetching : sq'[fetching[i].q].mem = sq[fetching[i].q].mem
  PROVE  EndSum(c, InSeq(done, c))
<1>1. /\ Both(c) /\ Posting(c)' = Posting(c) /\ answers'[c] = answers[c]
      /\ Running(c) = Running(c)' + IF e.c = c THEN 1 ELSE 0
  BY EndRunning
<1>2. e \in Entries /\ lCQFIFO \in Seq(Entries)
  BY DEF Good, FrontInv, EntryInv
<1>3. done \o <<e>> = Append(done, e) /\ Append(done, e) \in Seq(Entries)
  BY <1>2
<1>4. InSeq(lCQFIFO \o Append(done, e), c) = InSeq(lCQFIFO, c) + InSeq(Append(done, e), c)
  <2>1. PICK t : t = Append(done, e)
    OBVIOUS
  <2>2. t \in Seq(Entries)
    BY <1>3, <2>1
  <2>3. InSeq(lCQFIFO \o t, c) = InSeq(lCQFIFO, c) + InSeq(t, c)
    BY <1>2, <2>2, InConcat
  <2> QED
    BY <2>1, <2>3
<1>5. InSeq(Append(done, e), c) = InSeq(done, c) + IF e.c = c THEN 1 ELSE 0
  BY <1>2, InAppend
<1>6. InSeq(lCQFIFO, c)' = InSeq(lCQFIFO \o Append(done, e), c)
  BY <1>3 DEF InSeq
<1>7. PICK d : d = InSeq(done, c)
  OBVIOUS
<1>8. d \in Nat
  BY <1>7, AtFinite
<1>9. PICK r, s, l, m \in Nat : /\ r = Running(c) /\ s = Running(c)'
                                /\ l = InSeq(lCQFIFO, c) /\ m = InSeq(lCQFIFO, c)'
  BY <1>1 DEF Both, Numbers
<1>10. Running(c)' + InSeq(lCQFIFO, c)' = Running(c) + InSeq(lCQFIFO, c) + d
  <2>1. CASE e.c = c
    <3>1. m = l + (d + 1) /\ r = s + 1
      BY <1>1, <1>4, <1>5, <1>6, <1>7, <1>9, <2>1
    <3>2. s + m = r + l + d
      BY <1>8, <3>1
    <3> QED
      BY <1>9, <3>2
  <2>2. CASE e.c # c
    <3>1. m = l + (d + 0) /\ r = s + 0
      BY <1>1, <1>4, <1>5, <1>6, <1>7, <1>9, <2>2
    <3>2. s + m = r + l + d
      BY <1>8, <3>1
    <3> QED
      BY <1>9, <3>2
  <2> QED
    BY <2>1, <2>2
<1>11. Fetching(c)' = Fetching(c)
  <2>1. FetchedAt(c)' = FetchedAt(c)
    BY DEF EndFrame, FetchedAt
  <2> QED
    BY <1>1, <2>1 DEF Both, Numbers
<1> QED
  BY <1>1, <1>7, <1>8, <1>10, <1>11 DEF EndSum

(* Its count.                                                              *)
LEMMA EndCounted ==
  ASSUME NEW c, NEW d, EndSum(c, d), Waiting(c)' <= Waiting(c), Staged(c)' <= Staged(c),
         InHostMemory(c)' <= InHostMemory(c)
  PROVE  /\ Count(c)' <= Count(c) + d
         /\ d = 0 /\ Waiting(c)' = Waiting(c) /\ Staged(c)' = Staged(c)
              /\ InHostMemory(c)' = InHostMemory(c) => Count(c)' = Count(c)
<1>1. Both(c)
  BY DEF EndSum
<1>2. PICK w, f, s, r, l, p, h, a \in Nat :
        /\ w = Waiting(c) /\ f = Fetching(c) /\ s = Staged(c) /\ r = Running(c)
        /\ l = InSeq(lCQFIFO, c) /\ p = Posting(c) /\ h = InHostMemory(c) /\ a = answers[c]
  BY <1>1 DEF Both, Numbers
<1>3. PICK x, t, u, m, i \in Nat :
        /\ x = Waiting(c)' /\ t = Staged(c)' /\ u = Running(c)'
        /\ m = InSeq(lCQFIFO, c)' /\ i = InHostMemory(c)'
  BY <1>1 DEF Both, Numbers
<1>4. Count(c) = (w + f + s + r) + (l + p + h + a)
  BY <1>1, <1>2 DEF Both, FrontCount, BackCount
<1>5. Count(c)' = (x + f + t + u) + (m + p + i + a)
  BY <1>1, <1>2, <1>3 DEF Both, FrontCount, BackCount, EndSum
<1>6. d \in Nat /\ u + m = r + l + d /\ x <= w /\ t <= s /\ i <= h
  BY <1>2, <1>3 DEF EndSum
<1>7. (x + f + t + u) + (m + p + i + a) <= (w + f + s + r) + (l + p + h + a) + d
  BY <1>6
<1>8. d = 0 /\ x = w /\ t = s /\ i = h =>
        (x + f + t + u) + (m + p + i + a) = (w + f + s + r) + (l + p + h + a)
  BY <1>6
<1> QED
  BY <1>2, <1>3, <1>4, <1>5, <1>7, <1>8

(* An answer to the command itself, of a step that leaves the other places *)
(* alone.                                                                  *)
SamePlaces(c) ==
  /\ Waiting(c)' = Waiting(c) /\ InHostMemory(c)' = InHostMemory(c)
  /\ sq'[cmd[c].q].live = sq[cmd[c].q].live

(* It keeps the counts.                                                    *)
LEMMA AloneCount ==
  ASSUME Good, Good', CountInv, NEW e \in running, EndFrame(e), Answer(<<e>>, FALSE),
         UNCHANGED <<lSQByUser, lSQFIFO, gone, twice>>, \A c \in Cmds : SamePlaces(c),
         \A i \in DOMAIN fetching : sq'[fetching[i].q].mem = sq[fetching[i].q].mem
  PROVE  CountInv'
<1>1. ASSUME NEW c \in Cmds PROVE Tally(c)'
  <2>1. Both(c) /\ Cmds' = Cmds /\ cmd' = cmd /\ answers'[c] = answers[c]
    BY EndRunning
  <2>2. PICK done : done = <<>>
    OBVIOUS
  <2>3. done \in Seq(Entries) /\ InSeq(done, c) = 0 /\ lCQFIFO' = lCQFIFO \o (done \o <<e>>)
    <3>1. e \in Entries
      BY DEF Good, FrontInv, EntryInv
    <3>2. done \in Seq(Entries) /\ \A i \in DOMAIN done : done[i].c # c
      BY <2>2
    <3>3. done \o <<e>> = <<e>>
      BY <2>2, <3>1
    <3> QED
      BY <3>2, <3>3, AtFinite DEF Answer
  <2>4. EndSum(c, 0)
    <3>1. EndSum(c, InSeq(done, c))
      BY <2>3, EndAnswers
    <3> QED
      BY <2>3, <3>1
  <2>5. Staged(c)' = Staged(c) /\ InSeq(lSQFIFO, c)' = InSeq(lSQFIFO, c)
    BY <2>1 DEF Staged, InSeq
  <2>6. SamePlaces(c) /\ Tally(c)
    BY DEF CountInv
  <2>7. /\ Waiting(c)' <= Waiting(c) /\ Staged(c)' <= Staged(c) /\ Fetching(c)' <= Fetching(c)
        /\ InHostMemory(c)' <= InHostMemory(c)
    BY <2>1, <2>4, <2>5, <2>6 DEF Both, Numbers, SamePlaces, EndSum
  <2>8. Count(c)' <= Count(c) + 0 /\ Count(c)' = Count(c)
    BY <2>4, <2>5, <2>6, <2>7, EndCounted DEF SamePlaces
  <2>9. 0 + InSeq(lSQFIFO, c)' <= InSeq(lSQFIFO, c)
    BY <2>1, <2>5 DEF Both, Numbers
  <2>10. Ended(c, 0)
    BY <2>1, <2>6, <2>7, <2>8, <2>9 DEF Ended, SamePlaces, Tally
  <2> QED
    BY <2>1, <2>10, EndTally
<1>2. Cmds' = Cmds
  BY DEF EndFrame, Cmds
<1> QED
  BY <1>1, <1>2 DEF CountInv

(* Commands that are only answered, and coalescing.                        *)
LEMMA AnswerCount ==
  ASSUME Good, Good', CountInv, NEW e \in running, EndFrame(e),
         JustAnswer(e, cmd[e.c].op) \/ SetCoalescing(e, cmd[e.c].op)
  PROVE  CountInv'
<1>1. UNCHANGED <<sq, cq, lSQByUser, lSQFIFO, gone, twice>> /\ Answer(<<e>>, FALSE)
  BY DEF JustAnswer, SetCoalescing
<1>2. UNCHANGED <<cmd, fetching, posting, answers>>
  BY DEF EndFrame
<1>3. ASSUME NEW c \in Cmds PROVE SamePlaces(c)
  BY <1>1, <1>2 DEF SamePlaces, Waiting, Occupied, InHostMemory, Unwritten
<1>4. \A i \in DOMAIN fetching : sq'[fetching[i].q].mem = sq[fetching[i].q].mem
  BY <1>1
<1> QED
  BY <1>1, <1>3, <1>4, AloneCount

(* A completion queue is created.                                          *)
LEMMA CreateCQCount ==
  ASSUME Good, Good', CountInv, NEW e \in running, EndFrame(e),
         cmd[e.c].op.op = "createCQ", CreateCQ(e, cmd[e.c].op)
  PROVE  CountInv'
<1>1. PICK q, iv : q = cmd[e.c].op.q /\ iv = cmd[e.c].op.iv
  OBVIOUS
<1>2. q \in Queues /\ iv \in Vectors
  BY <1>1, EndingCommand, OpType DEF Good
<1>3. /\ UNCHANGED <<sq, lSQByUser, lSQFIFO, gone, twice>> /\ Answer(<<e>>, FALSE)
      /\ ~cq[q].live /\ cq' = [cq EXCEPT ![q] = NewCQ(iv, TRUE)]
  BY <1>1 DEF CreateCQ
<1>4. UNCHANGED <<cmd, fetching, posting, answers>>
  BY DEF EndFrame
<1>5. Opened(q, iv)
  BY <1>2, <1>3, OpenCQ DEF Good, BackInv
<1>6. \A r \in Queues, i \in Slots :
        /\ r # q => cq'[r] = cq[r] /\ (Written(r, i)' <=> Written(r, i))
        /\ r = q => ~cq[r].live /\ ~Written(r, i)'
  <2>1. ASSUME NEW r \in Queues, NEW i \in Slots, r # q
        PROVE  cq'[r] = cq[r] /\ (Written(r, i)' <=> Written(r, i))
    <3>1. cq'[r] = cq[r]
      BY <1>5, <2>1 DEF Opened
    <3>2. Written(r, i)' <=> (Occupied(cq'[r], i) /\ ~Unwritten(r, i))
      BY <1>4 DEF Written, Occupied, Unwritten
    <3> QED
      BY <3>1, <3>2 DEF Written
  <2>2. ASSUME NEW i \in Slots PROVE ~Written(q, i)'
    <3>1. cq'[q].head = 0 /\ cq'[q].tail = 0 /\ i \in Nat
      BY <1>5, Sizes DEF Opened
    <3> QED
      BY <3>1 DEF Written, Occupied
  <2> QED
    BY <1>3, <2>1, <2>2
<1>7. ASSUME NEW c \in Cmds PROVE SamePlaces(c)
  <2>1. HostAt(c)' = {s \in Queues \X Slots : cq'[s[1]].live /\ Written(s[1], s[2])' /\ cq'[s[1]].mem[s[2]].c = c}
    BY DEF HostAt
  <2>2. \A s \in Queues \X Slots : s[1] \in Queues /\ s[2] \in Slots
    OBVIOUS
  <2>3. HostAt(c)' = HostAt(c)
    BY <1>6, <2>1, <2>2 DEF HostAt
  <2>4. Both(c)
    BY EndRunning
  <2>5. InHostMemory(c)' = InHostMemory(c)
    BY <2>3, <2>4 DEF Both, Numbers
  <2> QED
    BY <1>3, <1>4, <2>5 DEF SamePlaces, Waiting, Occupied
<1>8. \A i \in DOMAIN fetching : sq'[fetching[i].q].mem = sq[fetching[i].q].mem
  BY <1>3
<1> QED
  BY <1>3, <1>7, <1>8, AloneCount

(* Nothing is left of an earlier queue of the number that a submission     *)
(* queue is created with.                                                  *)
LEMMA FreshNumber ==
  ASSUME FrontInv, NumbersUsedOnce, NEW e \in running, NEW q,
         cmd[e.c].op.op = "createSQ", q = cmd[e.c].op.q, CreateSQ(e, cmd[e.c].op)
  PROVE  /\ q \in Queues /\ NewlySQ(q) /\ ~sq[q].live /\ sq'[q].cqID = cmd[e.c].op.cq
         /\ \A c \in Cmds : cmd[c].q # q
         /\ \A i \in DOMAIN fetching : fetching[i].q # q
<1>1. /\ PlanInv /\ HostInv /\ SQInv /\ FetchInv /\ e.c \in Cmds
      /\ cmd[e.c].op \in Plans \union {IOCommand}
  BY EndingCommand
<1>2. PICK x, p : x = cmd[e.c].op.cq /\ p = cmd[e.c].op.priority
  OBVIOUS
<1>3. q \in Queues /\ x \in Queues /\ p \in {URGENT, MEDIUM, LOW}
  BY <1>1, <1>2, OpType
<1>4. ~sq[q].live /\ sq' = [sq EXCEPT ![q] = NewSQ(x, p)]
  BY <1>2 DEF CreateSQ
<1>5. NewlySQ(q)
  BY <1>1, <1>3, <1>4, OpenSQ
<1>6. \A c \in Cmds : cmd[c].q # q
  <2>1. ~DeletesSQ(q)
    BY <1>1, OnceSQ
  <2> QED
    BY <1>1, <1>4, <2>1 DEF SQInv
<1>7. \A i \in DOMAIN fetching : fetching[i].q # q
  BY <1>1, <1>6, FetchType DEF FetchInv, SQInv
<1>8. sq'[q].cqID = x
  BY <1>1, <1>3, <1>4 DEF NewSQ, SQInv
<1> QED
  BY <1>2, <1>3, <1>4, <1>5, <1>6, <1>7, <1>8

(* A submission queue is created.                                          *)
LEMMA CreateSQCount ==
  ASSUME Good, Good', CountInv, NumbersUsedOnce, NEW e \in running, EndFrame(e),
         cmd[e.c].op.op = "createSQ", CreateSQ(e, cmd[e.c].op)
  PROVE  CountInv'
<1>1. PICK q : q = cmd[e.c].op.q
  OBVIOUS
<1>2. /\ q \in Queues /\ NewlySQ(q) /\ \A c \in Cmds : cmd[c].q # q
      /\ \A i \in DOMAIN fetching : fetching[i].q # q
  BY <1>1, FreshNumber DEF Good
<1>3. UNCHANGED <<cq, lSQByUser, lSQFIFO, gone, twice>> /\ Answer(<<e>>, FALSE)
  BY DEF CreateSQ
<1>4. UNCHANGED <<cmd, fetching, posting, answers>>
  BY DEF EndFrame
<1>5. \A c \in Cmds : cmd[c].q \in Queues /\ sq'[cmd[c].q] = sq[cmd[c].q]
  BY <1>2, CmdType DEF Good, FrontInv, NewlySQ
<1>6. ASSUME NEW c \in Cmds PROVE SamePlaces(c)
  <2>1. InHostMemory(c)' = InHostMemory(c)
    BY <1>3, <1>4 DEF InHostMemory, Occupied, Unwritten
  <2>2. sq'[cmd'[c].q] = sq[cmd[c].q]
    BY <1>4, <1>5
  <2> QED
    BY <1>4, <1>5, <2>1, <2>2 DEF SamePlaces, Waiting, Occupied
<1>7. \A i \in DOMAIN fetching : sq'[fetching[i].q].mem = sq[fetching[i].q].mem
  BY <1>2, FetchType DEF NewlySQ, Good, FrontInv
<1> QED
  BY <1>3, <1>6, <1>7, AloneCount

(* The order of the fetches when a submission queue is created.            *)
LEMMA CreateSQArc ==
  ASSUME FrontInv, ArcInv, NumbersUsedOnce, NEW e \in running, EndFrame(e),
         cmd[e.c].op.op = "createSQ", CreateSQ(e, cmd[e.c].op)
  PROVE  ArcInv'
<1>1. PICK q : q = cmd[e.c].op.q
  OBVIOUS
<1>2. /\ q \in Queues /\ NewlySQ(q) /\ UNCHANGED fetching
      /\ \A i \in DOMAIN fetching : fetching[i].q # q
  BY <1>1, FreshNumber DEF EndFrame
<1>3. ASSUME NEW i \in DOMAIN fetching', NEW r \in Queues, NEW s \in Slots,
             fetching'[i].q = r, sq'[r].live, ~(Occupied(sq[r], s))',
             (Depth(sq[r], s))' <= Depth(sq'[r], fetching'[i].at)
      PROVE  FetchFrom(i, r, s)'
  <2>1. i \in DOMAIN fetching /\ fetching'[i] = fetching[i] /\ sq'[r] = sq[r]
    BY <1>2, <1>3 DEF NewlySQ
  <2>2. ~Occupied(sq[r], s) /\ Depth(sq[r], s) <= Depth(sq[r], fetching[i].at) /\ sq[r].live
    BY <1>3, <2>1 DEF Occupied, Depth
  <2>3. FetchFrom(i, r, s)
    BY <1>3, <2>1, <2>2 DEF ArcInv
  <2> QED
    BY <1>2, <2>3 DEF FetchFrom
<1> QED
  BY <1>3 DEF ArcInv

(* A creation is refused: nobody answers the command.                      *)
LEMMA RefuseCount ==
  ASSUME Good, Good', CountInv, NEW e \in running, EndFrame(e), RefuseCreate(e, cmd[e.c].op)
  PROVE  CountInv'
<1>1. UNCHANGED <<sq, cq, lSQByUser, lSQFIFO, lCQFIFO, twice>> /\ gone' = gone \union {e.c}
  BY DEF RefuseCreate
<1>2. UNCHANGED <<cmd, fetching, posting, answers>>
  BY DEF EndFrame
<1>3. ASSUME NEW c \in Cmds PROVE Tally(c)'
  <2>1. /\ Both(c) /\ Cmds' = Cmds
        /\ Running(c) = Running(c)' + IF e.c = c THEN 1 ELSE 0
    BY EndRunning
  <2>2. SameBack(c)
    BY <1>1, <1>2, BackStays
  <2>3. Waiting(c)' = Waiting(c) /\ Fetching(c)' = Fetching(c) /\ Staged(c)' = Staged(c)
        /\ InSeq(lSQFIFO, c)' = InSeq(lSQFIFO, c)
    BY <1>1, <1>2 DEF Waiting, Fetching, Occupied, Staged, InSeq
  <2>4. Tally(c)
    BY DEF CountInv
  <2>5. 0 + InSeq(lSQFIFO, c)' <= InSeq(lSQFIFO, c) /\ Waiting(c)' <= Waiting(c)
        /\ Fetching(c)' <= Fetching(c)
    BY <2>1, <2>3 DEF Both, Numbers
  <2>6. CASE e.c = c
    <3>1. Running(c) = Running(c)' + 1 /\ Running(c)' \in Nat
      BY <2>1, <2>6 DEF Both, Numbers
    <3>2. Count(c)' <= Count(c) + 0
      BY <2>1, <2>2, <2>3, <3>1 DEF Both, Numbers, FrontCount, BackCount, SameBack
    <3>3. Running(c) > 0 /\ c \in gone'
      BY <1>1, <2>6, <3>1
    <3>4. Ended(c, 0)
      BY <1>1, <1>2, <2>4, <2>5, <3>2, <3>3 DEF Ended, Tally
    <3> QED
      BY <2>1, <3>4, EndTally
  <2>7. CASE e.c # c
    <3>1. Running(c) = Running(c)'
      BY <2>1, <2>7 DEF Both, Numbers
    <3>2. Count(c)' = Count(c) /\ Count(c)' <= Count(c) + 0
      BY <2>1, <2>2, <2>3, <3>1 DEF Both, Numbers, FrontCount, BackCount, SameBack
    <3>3. c \in gone' <=> c \in gone
      BY <1>1, <2>7
    <3>4. Ended(c, 0)
      BY <1>1, <1>2, <2>4, <2>5, <3>2, <3>3 DEF Ended, Tally
    <3> QED
      BY <2>1, <3>4, EndTally
  <2> QED
    BY <2>6, <2>7
<1>4. Cmds' = Cmds
  BY <1>2 DEF Cmds
<1> QED
  BY <1>3, <1>4 DEF CountInv

(* A command that was answered, and not twice, is nowhere else.            *)
LEMMA AnsweredOnly ==
  ASSUME Good, CountInv, NEW c \in Cmds, c \notin twice, answers[c] # 0
  PROVE  Waiting(c) = 0 /\ Staged(c) = 0 /\ InHostMemory(c) = 0
<1>1. Numbers(c) /\ Count(c) = FrontCount(c) + BackCount(c) /\ Tally(c)
  BY TallyFact
<1>2. PICK w, f, s, r, l, p, h, a \in Nat :
        /\ w = Waiting(c) /\ f = Fetching(c) /\ s = Staged(c) /\ r = Running(c)
        /\ l = InSeq(lCQFIFO, c) /\ p = Posting(c) /\ h = InHostMemory(c) /\ a = answers[c]
  BY <1>1 DEF Numbers
<1>3. (w + f + s + r) + (l + p + h + a) <= 1 /\ a # 0
  BY <1>1, <1>2 DEF Tally, FrontCount, BackCount
<1>4. w = 0 /\ s = 0 /\ h = 0
  BY <1>3
<1> QED
  BY <1>2, <1>4

(* A completion queue is deleted: the answers in it were to commands of    *)
(* deleted submission queues.                                              *)
LEMMA DeleteCQCount ==
  ASSUME Good, Good', CountInv, NEW e \in running, EndFrame(e),
         cmd[e.c].op.op = "deleteCQ", DeleteCQ(e, cmd[e.c].op.q)
  PROVE  CountInv'
<1>1. PICK q : q = cmd[e.c].op.q
  OBVIOUS
<1>2. q \in Queues /\ q # 0
  BY <1>1, EndingCommand, OpType DEF Good
<1>3. /\ UNCHANGED <<sq, lSQByUser, lSQFIFO, gone, twice>> /\ Answer(<<e>>, FALSE)
      /\ cq' = [cq EXCEPT ![q].live = FALSE]
      /\ \A s \in Queues \ {0} : sq[s].live => sq[s].cqID # q
  BY <1>1 DEF DeleteCQ
<1>4. UNCHANGED <<cmd, fetching, posting, answers>>
  BY DEF EndFrame
<1>5. Closed(q)
  BY <1>2, <1>3, CloseCQ DEF Good, BackInv
<1>6. \A r \in Queues : /\ cq'[r].live => cq[r].live
                        /\ r # q => cq'[r].live = cq[r].live
                        /\ cq'[r].mem = cq[r].mem
                        /\ \A i \in Slots : Written(r, i)' <=> Written(r, i)
  <2>1. ASSUME NEW r \in Queues, NEW i \in Slots PROVE Written(r, i)' <=> Written(r, i)
    <3>1. cq'[r].head = cq[r].head /\ cq'[r].tail = cq[r].tail
      BY <1>5 DEF Closed
    <3>2. Occupied(cq[r], i)' <=> Occupied(cq[r], i)
      BY <3>1 DEF Occupied
    <3> QED
      BY <1>4, <3>2 DEF Written, Unwritten
  <2>2. ASSUME NEW r \in Queues
        PROVE  /\ cq'[r].live => cq[r].live
               /\ r # q => cq'[r].live = cq[r].live
               /\ cq'[r].mem = cq[r].mem
    <3>1. cq[r].live \in BOOLEAN
      BY DEF Good, BackInv, CQInv, CQs
    <3>2. CASE r = q
      BY <1>5, <3>1, <3>2 DEF Closed
    <3>3. CASE r # q
      <4>1. (cq[r].live /\ r # q) = cq[r].live
        BY <3>1, <3>3
      <4> QED
        BY <1>5, <4>1 DEF Closed
    <3> QED
      BY <3>2, <3>3
  <2> QED
    BY <2>1, <2>2
<1>7. ASSUME NEW c \in Cmds PROVE Tally(c)'
  <2>1. Both(c) /\ Cmds' = Cmds
    BY EndRunning
  <2>2. PICK done : done = <<>>
    OBVIOUS
  <2>3. done \in Seq(Entries) /\ InSeq(done, c) = 0 /\ lCQFIFO' = lCQFIFO \o (done \o <<e>>)
    <3>1. e \in Entries
      BY DEF Good, FrontInv, EntryInv
    <3>2. done \in Seq(Entries) /\ \A i \in DOMAIN done : done[i].c # c
      BY <2>2
    <3>3. done \o <<e>> = <<e>>
      BY <2>2, <3>1
    <3> QED
      BY <1>3, <3>2, <3>3, AtFinite DEF Answer
  <2>4. EndSum(c, 0)
    <3>1. EndSum(c, InSeq(done, c))
      BY <1>3, <2>3, EndAnswers
    <3> QED
      BY <2>3, <3>1
  <2>5. Staged(c)' = Staged(c) /\ InSeq(lSQFIFO, c)' = InSeq(lSQFIFO, c) /\ Waiting(c)' = Waiting(c)
    BY <1>3, <1>4 DEF Staged, InSeq, Waiting, Occupied
  <2>6. HostAt(c)' = {s \in Queues \X Slots : cq'[s[1]].live /\ Written(s[1], s[2])' /\ cq'[s[1]].mem[s[2]].c = c}
    BY DEF HostAt
  <2>7. \A s \in Queues \X Slots : s[1] \in Queues /\ s[2] \in Slots
    OBVIOUS
  <2>8. HostAt(c)' \subseteq HostAt(c)
    BY <1>6, <2>6, <2>7 DEF HostAt
  <2>9. /\ InHostMemory(c)' = Cardinality(HostAt(c)') /\ InHostMemory(c) = Cardinality(HostAt(c))
        /\ IsFiniteSet(HostAt(c)) /\ InHostMemory(c) \in Nat /\ InHostMemory(c)' \in Nat
    BY <2>1 DEF Both, Numbers
  <2>10. InHostMemory(c)' <= InHostMemory(c)
    BY <2>8, <2>9, FS_Subset
  <2>11. Tally(c)
    BY DEF CountInv
  <2>12. ASSUME c \notin gone, c \notin twice PROVE InHostMemory(c)' = InHostMemory(c)
    <3>1. ASSUME NEW s \in HostAt(c) PROVE s[1] # q
      <4>1. s[1] \in Queues /\ s[2] \in Slots /\ cq[s[1]].live /\ Written(s[1], s[2])
            /\ cq[s[1]].mem[s[2]].c = c
        BY DEF HostAt
      <4>2. Answers(c, s[1])
        BY <4>1 DEF Good, BackInv, CQInv
      <4>3. SUFFICES ASSUME s[1] = q PROVE FALSE
        OBVIOUS
      <4>4. sq[cmd[c].q].cqID = q /\ cmd[c].q \in Queues
        BY <4>2, <4>3, CmdType DEF Answers, Good, FrontInv
      <4>5. ~sq[cmd[c].q].live
        BY <1>2, <1>3, <4>4 DEF Good, FrontInv, SQInv
      <4>6. answers[c] # 0
        BY <2>1, <2>11, <2>12, <4>5 DEF Tally, Both, Numbers
      <4>7. InHostMemory(c) = 0
        BY <2>12, <4>6, AnsweredOnly
      <4>8. InHostMemory(c) >= 1
        BY <2>9, OneTwo
      <4> QED
        BY <4>7, <4>8
    <3>2. HostAt(c)' = HostAt(c)
      BY <1>6, <2>6, <2>7, <3>1 DEF HostAt
    <3> QED
      BY <2>9, <3>2
  <2>13. Waiting(c)' <= Waiting(c) /\ Staged(c)' <= Staged(c) /\ Fetching(c)' <= Fetching(c)
    BY <2>1, <2>4, <2>5 DEF Both, Numbers, EndSum
  <2>14. Count(c)' <= Count(c) + 0 /\ (InHostMemory(c)' = InHostMemory(c) => Count(c)' = Count(c))
    BY <2>4, <2>5, <2>10, <2>13, EndCounted
  <2>15. 0 + InSeq(lSQFIFO, c)' <= InSeq(lSQFIFO, c)
    BY <2>1, <2>5 DEF Both, Numbers
  <2>16. Ended(c, 0)
    BY <1>3, <1>4, <2>11, <2>12, <2>13, <2>14, <2>15 DEF Ended, Tally
  <2> QED
    BY <2>1, <2>16, EndTally
<1>8. Cmds' = Cmds
  BY <1>4 DEF Cmds
<1> QED
  BY <1>7, <1>8 DEF CountInv

(* A list without one of its entries.                                      *)
LEMMA WithoutOne ==
  ASSUME NEW S, NEW list \in Seq(S), NEW i \in DOMAIN list, NEW c
  PROVE  InSeq(list, c) = InSeq(Without(list, {i}), c) + IF list[i].c = c THEN 1 ELSE 0
<1>1. InSeq(Without(list, {i}), c) = Cardinality(LeftAt(list, {i}, c, Len(list)))
  BY WithoutCount
<1>2. /\ At(list, c) \in SUBSET (1..Len(list)) /\ IsFiniteSet(At(list, c))
      /\ InSeq(list, c) \in Nat /\ InSeq(list, c) = Cardinality(At(list, c))
  BY AtFinite
<1>3. LeftAt(list, {i}, c, Len(list)) = At(list, c) \ {i}
  BY DEF LeftAt, At
<1>4. i \in At(list, c) <=> list[i].c = c
  BY DEF At
<1>5. Cardinality(At(list, c) \ {i}) =
        IF i \in At(list, c) THEN Cardinality(At(list, c)) - 1 ELSE Cardinality(At(list, c))
  BY <1>2, FS_RemoveElement
<1>6. PICK m, n : m = InSeq(Without(list, {i}), c) /\ n = InSeq(list, c) /\ n \in Nat
  BY <1>2
<1>7. CASE list[i].c = c
  <2>1. m = n - 1
    BY <1>1, <1>2, <1>3, <1>4, <1>5, <1>6, <1>7
  <2>2. n = m + 1
    BY <1>6, <2>1
  <2> QED
    BY <1>6, <1>7, <2>2
<1>8. CASE list[i].c # c
  <2>1. m = n
    BY <1>1, <1>2, <1>3, <1>4, <1>5, <1>6, <1>8
  <2>2. n = m + 0
    BY <1>6, <2>1
  <2> QED
    BY <1>6, <1>8, <2>2
<1> QED
  BY <1>7, <1>8

(* The entries of two lists put together.                                  *)
LEMMA Concatenated ==
  ASSUME NEW S, NEW s \in Seq(S), NEW t \in Seq(S)
  PROVE  /\ s \o t \in Seq(S) /\ Len(s \o t) = Len(s) + Len(t)
         /\ \A k \in 1..Len(s) : (s \o t)[k] = s[k]
         /\ \A k \in 1..Len(t) : (s \o t)[Len(s) + k] = t[k]
<1>1. s \o t \in Seq(S) /\ Len(s \o t) = Len(s) + Len(t)
  OBVIOUS
<1>2. \A k \in 1..Len(s) : (s \o t)[k] = s[k]
  OBVIOUS
<1>3. \A k \in 1..Len(t) : (s \o t)[Len(s) + k] = t[k]
  OBVIOUS
<1> QED
  BY <1>1, <1>2, <1>3

(* Two answers.                                                            *)
LEMMA TwoEntries ==
  ASSUME NEW S, NEW w \in S, NEW e \in S
  PROVE  <<w>> \in Seq(S) /\ <<w>> \o <<e>> = <<w, e>>
<1>1. <<w>> \in Seq(S) /\ <<e>> \in Seq(S) /\ <<w, e>> \in Seq(S)
  OBVIOUS
<1>2. PICK s : s = <<w>>
  OBVIOUS
<1>3. PICK t : t = <<e>>
  OBVIOUS
<1>4. PICK u : u = s \o t
  OBVIOUS
<1>5. PICK v : v = <<w, e>>
  OBVIOUS
<1>6. /\ s \in Seq(S) /\ Len(s) = 1 /\ s[1] = w
      /\ t \in Seq(S) /\ Len(t) = 1 /\ t[1] = e
      /\ v \in Seq(S) /\ Len(v) = 2 /\ v[1] = w /\ v[2] = e
  BY <1>1, <1>2, <1>3, <1>5
<1>7. u \in Seq(S) /\ Len(u) = 2 /\ u[1] = w /\ u[2] = e
  <2>1. /\ s \o t \in Seq(S) /\ Len(s \o t) = Len(s) + Len(t)
        /\ \A k \in 1..Len(s) : (s \o t)[k] = s[k]
        /\ \A k \in 1..Len(t) : (s \o t)[Len(s) + k] = t[k]
    <3>1. s \in Seq(S) /\ t \in Seq(S)
      BY <1>6
    <3> QED
      BY <3>1, Concatenated
  <2>2. u[1] = s[1] /\ u[1 + 1] = t[1]
    BY <1>4, <1>6, <2>1
  <2> QED
    BY <1>4, <1>6, <2>1, <2>2
<1>8. DOMAIN u = 1..2 /\ DOMAIN v = 1..2 /\ \A k \in 1..2 : u[k] = v[k]
  BY <1>6, <1>7
<1>9. u = [k \in 1..2 |-> u[k]] /\ v = [k \in 1..2 |-> v[k]]
  BY <1>6, <1>7, <1>8
<1>10. u = v
  BY <1>8, <1>9
<1> QED
  BY <1>1, <1>2, <1>3, <1>4, <1>5, <1>10

(* An abort.                                                               *)
LEMMA AbortCount ==
  ASSUME Good, Good', CountInv, NEW e \in running, EndFrame(e),
         cmd[e.c].op.op = "abort", Abort(e, cmd[e.c].op)
  PROVE  CountInv'
<1>1. PICK op : op = cmd[e.c].op
  OBVIOUS
<1>2. op \in Plans \union {IOCommand} /\ e \in Entries
  BY <1>1, EndingCommand DEF Good
<1>3. /\ UNCHANGED <<sq, cq, lSQByUser, gone>>
      /\ \/ Answer(<<e>>, FALSE) /\ UNCHANGED <<lSQFIFO, twice>>
         \/ \E i \in DOMAIN lSQFIFO, w \in Entries :
              /\ w.c = lSQFIFO[i].c
              /\ lSQFIFO' = Without(lSQFIFO, {i}) /\ twice' = twice \union {w.c}
              /\ Answer(<<w, e>>, ~sq[op.q].live)
  BY <1>1, <1>2, AbortFact DEF Good
<1>4. UNCHANGED <<cmd, fetching, posting, answers>>
  BY DEF EndFrame
<1>5. ASSUME NEW c \in Cmds PROVE SamePlaces(c)
  BY <1>3, <1>4 DEF SamePlaces, Waiting, Occupied, InHostMemory, Unwritten
<1>6. \A i \in DOMAIN fetching : sq'[fetching[i].q].mem = sq[fetching[i].q].mem
  BY <1>3
<1>7. CASE Answer(<<e>>, FALSE) /\ UNCHANGED <<lSQFIFO, twice>>
  BY <1>3, <1>5, <1>6, <1>7, AloneCount
<1>8. ASSUME NEW i \in DOMAIN lSQFIFO, NEW w \in Entries, w.c = lSQFIFO[i].c,
             lSQFIFO' = Without(lSQFIFO, {i}), twice' = twice \union {w.c},
             Answer(<<w, e>>, ~sq[op.q].live), NEW c \in Cmds
      PROVE  Tally(c)'
  <2>1. Both(c) /\ Cmds' = Cmds
    BY EndRunning
  <2>2. PICK done : done = <<w>>
    OBVIOUS
  <2>3. done \in Seq(Entries) /\ lCQFIFO' = lCQFIFO \o (done \o <<e>>)
    <3>1. done \in Seq(Entries) /\ done \o <<e>> = <<w, e>>
      BY <1>2, <2>2, TwoEntries
    <3> QED
      BY <1>8, <3>1 DEF Answer
  <2>4. PICK d : d = InSeq(done, c)
    OBVIOUS
  <2>5. EndSum(c, d)
    BY <1>6, <2>3, <2>4, EndAnswers
  <2>6. d = IF w.c = c THEN 1 ELSE 0
    <3>1. PICK z : z = <<>>
      OBVIOUS
    <3>2. z \in Seq(Entries) /\ done = Append(z, w) /\ \A j \in DOMAIN z : z[j].c # c
      BY <2>2, <3>1
    <3>3. InSeq(z, c) = 0
      BY <3>2, AtFinite
    <3>4. InSeq(Append(z, w), c) = InSeq(z, c) + IF w.c = c THEN 1 ELSE 0
      BY <3>2, InAppend
    <3> QED
      BY <2>4, <3>2, <3>3, <3>4
  <2>7. InSeq(lSQFIFO, c) = InSeq(lSQFIFO, c)' + d
    <3>1. lSQFIFO \in Seq(Entries)
      BY DEF Good, FrontInv, EntryInv
    <3>2. InSeq(lSQFIFO, c) = InSeq(Without(lSQFIFO, {i}), c) + IF lSQFIFO[i].c = c THEN 1 ELSE 0
      BY <3>1, WithoutOne
    <3>3. InSeq(lSQFIFO, c)' = InSeq(Without(lSQFIFO, {i}), c)
      BY <1>8 DEF InSeq
    <3> QED
      BY <1>8, <2>6, <3>2, <3>3
  <2>8. d + InSeq(lSQFIFO, c)' <= InSeq(lSQFIFO, c) /\ d \in Nat
    BY <2>1, <2>5, <2>7 DEF Both, Numbers, EndSum
  <2>9. Staged(c)' = Staged(c) /\ SamePlaces(c) /\ Tally(c)
    BY <1>3, <1>4, <1>5 DEF Staged, InSeq, CountInv
  <2>10. Waiting(c)' <= Waiting(c) /\ Staged(c)' <= Staged(c) /\ Fetching(c)' <= Fetching(c)
         /\ InHostMemory(c)' <= InHostMemory(c)
    BY <2>1, <2>5, <2>9 DEF Both, Numbers, EndSum, SamePlaces
  <2>11. Count(c)' <= Count(c) + d /\ (d = 0 => Count(c)' = Count(c))
    BY <2>5, <2>9, <2>10, EndCounted DEF SamePlaces
  <2>12. c \in twice' <=> c \in twice \/ d > 0
    <3>1. CASE w.c = c
      BY <1>8, <2>6, <3>1
    <3>2. CASE w.c # c
      BY <1>8, <2>6, <3>2
    <3> QED
      BY <3>1, <3>2
  <2>13. c \notin twice' => d = 0
    BY <2>8, <2>12
  <2>14. Ended(c, d)
    BY <1>3, <1>4, <2>8, <2>9, <2>10, <2>11, <2>12, <2>13 DEF Ended, Tally
  <2> QED
    BY <2>1, <2>14, EndTally
<1>9. Cmds' = Cmds
  BY <1>4 DEF Cmds
<1>10. ASSUME NEW i \in DOMAIN lSQFIFO, NEW w \in Entries, w.c = lSQFIFO[i].c,
             lSQFIFO' = Without(lSQFIFO, {i}), twice' = twice \union {w.c},
             Answer(<<w, e>>, ~sq[op.q].live)
      PROVE  CountInv'
  BY <1>8, <1>9, <1>10 DEF CountInv
<1> QED
  BY <1>3, <1>7, <1>10

(* How the sweep of a deletion divides the entries of a command.           *)
LEMMA SweptCount ==
  ASSUME EntryInv, NEW e, NEW q, NEW s, NEW done, Swept(e, q, s, done), NEW c \in Nat
  PROVE  /\ InSeq(done, c) \in Nat /\ InSeq(done, c) + InSeq(lSQFIFO, c)' <= InSeq(lSQFIFO, c)
         /\ c \in twice' <=> c \in twice \/ InSeq(done, c) > 0
<1>1. /\ s \in Divisions(Held(lSQFIFO), q, lSQFIFO) /\ lSQFIFO' = s.kept
      /\ done \in Seq(Entries) /\ Len(done) = Len(s.done)
      /\ \A i \in DOMAIN done : done[i].c = s.done[i].c
      /\ twice' = twice \union {done[i].c : i \in DOMAIN done}
  BY DEF Swept
<1>2. PICK E : E = Held(lSQFIFO)
  OBVIOUS
<1>3. PICK D : D = {x \in E : x.sq = q}
  OBVIOUS
<1>4. /\ s.kept \in Seq(E) /\ s.done \in Seq(D)
      /\ InSeq(s.kept, c) + InSeq(s.done, c) = InSeq(lSQFIFO, c)
  BY <1>1, <1>2, <1>3 DEF Divisions, SweepStates, Divided
<1>5. At(done, c) = At(s.done, c)
  <2>1. DOMAIN done = DOMAIN s.done
    BY <1>1, <1>4
  <2> QED
    BY <1>1, <2>1 DEF At
<1>6. /\ InSeq(done, c) \in Nat /\ InSeq(done, c) = Cardinality(At(done, c))
      /\ InSeq(done, c) = 0 <=> \A i \in DOMAIN done : done[i].c # c
  BY <1>1, AtFinite
<1>7. InSeq(s.done, c) = Cardinality(At(s.done, c))
  <2>1. PICK t : t = s.done
    OBVIOUS
  <2>2. InSeq(t, c) = Cardinality(At(t, c))
    BY <1>4, <2>1, AtFinite
  <2> QED
    BY <2>1, <2>2
<1>8. InSeq(s.kept, c) \in Nat
  <2>1. PICK t : t = s.kept
    OBVIOUS
  <2>2. InSeq(t, c) \in Nat
    BY <1>4, <2>1, AtFinite
  <2> QED
    BY <2>1, <2>2
<1>9. InSeq(lSQFIFO, c)' = InSeq(s.kept, c)
  BY <1>1 DEF InSeq
<1>10. PICK d, k \in Nat : d = InSeq(done, c) /\ k = InSeq(s.kept, c)
  BY <1>6, <1>8
<1>11. k + d = InSeq(lSQFIFO, c)
  BY <1>4, <1>5, <1>6, <1>7, <1>10
<1>12. d + k <= InSeq(lSQFIFO, c)
  BY <1>11
<1>13. c \in {done[i].c : i \in DOMAIN done} <=> InSeq(done, c) # 0
  BY <1>6
<1>14. InSeq(done, c) # 0 <=> InSeq(done, c) > 0
  BY <1>6
<1>15. c \in twice' <=> c \in twice \/ c \in {done[i].c : i \in DOMAIN done}
  BY <1>1
<1> QED
  BY <1>6, <1>9, <1>10, <1>12, <1>13, <1>14, <1>15

(* What a deletion leaves of a staged command.                             *)
LEMMA PurgeCount ==
  ASSUME HostInv, EntryInv, NEW q, Purge(q), UNCHANGED cmd, NEW c \in Cmds
  PROVE  Staged(c)' <= Staged(c) /\ (cmd[c].q # q => Staged(c)' = Staged(c))
<1>1. PICK u : u = cmd[c].uid
  OBVIOUS
<1>2. u \in Users
  BY <1>1, CmdType
<1>3. PICK list : list = lSQByUser[u]
  OBVIOUS
<1>4. list \in Seq(Entries) /\ \A i \in DOMAIN list : IsEntry(list[i])
  BY <1>2, <1>3 DEF EntryInv
<1>5. PICK own : own = {i \in DOMAIN lSQByUser[u] : lSQByUser[u][i].sq = q}
  OBVIOUS
<1>6. lSQByUser'[u] = Without(list, own)
  BY <1>2, <1>3, <1>5 DEF Purge
<1>7. Staged(c)' = InSeq(Without(list, own), c)
  BY <1>1, <1>6 DEF Staged, InSeq
<1>8. Staged(c) = InSeq(list, c)
  BY <1>1, <1>3 DEF Staged
<1>9. InSeq(Without(list, own), c) = Cardinality(LeftAt(list, own, c, Len(list)))
  BY <1>4, WithoutCount
<1>10. IsFiniteSet(At(list, c)) /\ InSeq(list, c) = Cardinality(At(list, c))
  BY <1>4, AtFinite
<1>11. DOMAIN list = 1..Len(list)
  BY <1>4
<1>12. LeftAt(list, own, c, Len(list)) \subseteq At(list, c)
  BY <1>11 DEF LeftAt, At
<1>13. Cardinality(LeftAt(list, own, c, Len(list))) <= Cardinality(At(list, c))
  BY <1>10, <1>12, FS_Subset
<1>14. ASSUME cmd[c].q # q PROVE LeftAt(list, own, c, Len(list)) = At(list, c)
  <2>1. ASSUME NEW i \in DOMAIN list, list[i].c = c PROVE i \notin own
    <3>1. list[i].sq # q
      BY <1>4, <1>14, <2>1 DEF IsEntry
    <3> QED
      BY <1>3, <1>5, <3>1
  <2> QED
    BY <1>11, <2>1 DEF LeftAt, At
<1> QED
  BY <1>7, <1>8, <1>9, <1>10, <1>13, <1>14

(* A submission queue is deleted: the commands that are lost with it were  *)
(* not answered.                                                           *)
LEMMA DeleteSQCount ==
  ASSUME Good, Good', CountInv, NEW e \in running, EndFrame(e),
         cmd[e.c].op.op = "deleteSQ", DeleteSQ(e, cmd[e.c].op.q)
  PROVE  CountInv'
<1>1. PICK q : q = cmd[e.c].op.q
  OBVIOUS
<1>2. /\ q \in Queues /\ HostInv /\ SQInv /\ EntryInv /\ FetchInv /\ e \in Entries
  BY <1>1, EndingCommand, OpType DEF Good
<1>3. /\ UNCHANGED cq /\ Purge(q) /\ gone' = gone \union Lost(q) /\ DeleteSQ(e, q)
      /\ sq' = [sq EXCEPT ![q].live = FALSE]
  BY <1>1 DEF DeleteSQ
<1>4. UNCHANGED <<cmd, fetching, posting, answers>>
  BY DEF EndFrame
<1>5. ClosedSQ(q)
  BY <1>2, <1>3, CloseSQ
<1>6. PICK s, done : Swept(e, q, s, done)
  BY <1>2, <1>3, SweptFact
<1>7. done \in Seq(Entries) /\ lCQFIFO' = lCQFIFO \o (done \o <<e>>)
  BY <1>6 DEF Swept, Answer
<1>8. \A i \in DOMAIN fetching : sq'[fetching[i].q].mem = sq[fetching[i].q].mem
  BY <1>2, <1>5, FetchType DEF ClosedSQ
<1>9. ASSUME NEW c \in Cmds PROVE Tally(c)'
  <2>1. Both(c) /\ Cmds' = Cmds /\ c \in Nat /\ cmd[c].q \in Queues
    BY <1>2, EndRunning, CmdType DEF Cmds
  <2>2. PICK d : d = InSeq(done, c)
    OBVIOUS
  <2>3. EndSum(c, d)
    BY <1>7, <1>8, <2>2, EndAnswers
  <2>4. /\ d \in Nat /\ d + InSeq(lSQFIFO, c)' <= InSeq(lSQFIFO, c)
        /\ c \in twice' <=> c \in twice \/ d > 0
    BY <1>2, <1>6, <2>1, <2>2, SweptCount
  <2>5. Staged(c)' <= Staged(c) /\ (cmd[c].q # q => Staged(c)' = Staged(c))
    BY <1>2, <1>3, <1>4, PurgeCount
  <2>6. InHostMemory(c)' = InHostMemory(c)
    BY <1>3, <1>4 DEF InHostMemory, Occupied, Unwritten
  <2>7. Tally(c)
    BY DEF CountInv
  <2>8. PICK r : r = cmd[c].q
    OBVIOUS
  <2>9. /\ sq'[r].head = sq[r].head /\ sq'[r].tail = sq[r].tail /\ sq'[r].mem = sq[r].mem
        /\ sq'[r].live = (sq[r].live /\ r # q) /\ cmd'[c].q = r /\ r \in Queues
    BY <1>4, <1>5, <2>1, <2>8 DEF ClosedSQ
  <2>10. Waiting(c)' <= Waiting(c) /\ (r # q => Waiting(c)' = Waiting(c))
    <3>1. \A i \in Slots : Occupied(sq'[r], i) <=> Occupied(sq[r], i)
      BY <2>9 DEF Occupied
    <3>2. WaitsAt(c)' = {i \in Slots : sq'[r].live /\ Occupied(sq'[r], i) /\ sq'[r].mem[i] = c}
      BY <2>9 DEF WaitsAt, Occupied
    <3>3. WaitsAt(c)' \subseteq WaitsAt(c) /\ (r # q => WaitsAt(c)' = WaitsAt(c))
      BY <2>8, <2>9, <3>1, <3>2 DEF WaitsAt
    <3>4. /\ Waiting(c)' = Cardinality(WaitsAt(c)') /\ Waiting(c) = Cardinality(WaitsAt(c))
          /\ IsFiniteSet(WaitsAt(c))
      BY <2>1 DEF Both, Numbers
    <3>5. Cardinality(WaitsAt(c)') <= Cardinality(WaitsAt(c))
      BY <3>3, <3>4, FS_Subset
    <3> QED
      BY <3>3, <3>4, <3>5
  <2>11. InHostMemory(c)' <= InHostMemory(c) /\ Fetching(c)' <= Fetching(c)
    BY <2>1, <2>3, <2>6 DEF Both, Numbers, EndSum
  <2>12. /\ Count(c)' <= Count(c) + d
         /\ d = 0 /\ Waiting(c)' = Waiting(c) /\ Staged(c)' = Staged(c) => Count(c)' = Count(c)
    BY <2>3, <2>5, <2>6, <2>10, <2>11, EndCounted
  <2>13. c \in gone' <=> c \in gone \/ (r = q /\ answers[c] = 0)
    BY <1>3, <2>8 DEF Lost, Cmds
  <2>14. ASSUME c \notin gone', c \notin twice' PROVE Count(c)' = Count(c)
    <3>1. d = 0 /\ c \notin twice
      BY <2>4, <2>14
    <3>2. CASE r # q
      BY <2>5, <2>8, <2>10, <2>12, <3>1, <3>2
    <3>3. CASE r = q
      <4>1. answers[c] # 0
        BY <2>13, <2>14, <3>3
      <4>2. Waiting(c) = 0 /\ Staged(c) = 0
        BY <3>1, <4>1, AnsweredOnly
      <4>3. Waiting(c)' = 0 /\ Staged(c)' = 0
        BY <2>1, <2>5, <2>10, <4>2 DEF Both, Numbers
      <4> QED
        BY <2>12, <3>1, <4>2, <4>3
    <3> QED
      BY <3>2, <3>3
  <2>15. sq[r].live \in BOOLEAN
    BY <1>2, <2>9 DEF SQInv, SQs
  <2>16. /\ sq'[cmd'[c].q].live => sq[cmd[c].q].live
         /\ r = q => ~sq'[cmd'[c].q].live
         /\ r # q => sq'[cmd'[c].q].live = sq[cmd[c].q].live
    BY <2>8, <2>9, <2>15
  <2>17. ~sq'[cmd'[c].q].live => answers'[c] > 0 \/ c \in gone'
    <3>1. CASE r = q
      BY <1>4, <2>1, <2>13, <3>1 DEF Both, Numbers
    <3>2. CASE r # q
      BY <1>4, <2>7, <2>13, <2>16, <3>2 DEF Tally
    <3> QED
      BY <3>1, <3>2
  <2>18. c \in gone' => c \in gone \/ ~sq'[cmd'[c].q].live
    BY <2>13, <2>16
  <2>19. c \in gone => c \in gone'
    BY <2>13
  <2>20. Ended(c, d)
    BY <2>4, <2>10, <2>11, <2>12, <2>14, <2>16, <2>17, <2>18, <2>19 DEF Ended
  <2> QED
    BY <2>1, <2>20, EndTally
<1>10. Cmds' = Cmds
  BY <1>4 DEF Cmds
<1> QED
  BY <1>9, <1>10 DEF CountInv

(* The order of the fetches when a submission queue is deleted.            *)
LEMMA DeleteSQArc ==
  ASSUME FrontInv, ArcInv, NEW e \in running, EndFrame(e),
         cmd[e.c].op.op = "deleteSQ", DeleteSQ(e, cmd[e.c].op.q)
  PROVE  ArcInv'
<1>1. PICK q : q = cmd[e.c].op.q
  OBVIOUS
<1>2. q \in Queues /\ SQInv /\ UNCHANGED fetching
  BY <1>1, EndingCommand, OpType DEF EndFrame
<1>3. sq' = [sq EXCEPT ![q].live = FALSE]
  BY <1>1 DEF DeleteSQ
<1>4. ClosedSQ(q)
  BY <1>2, <1>3, CloseSQ
<1>5. ASSUME NEW i \in DOMAIN fetching', NEW r \in Queues, NEW s \in Slots,
             fetching'[i].q = r, sq'[r].live, ~(Occupied(sq[r], s))',
             (Depth(sq[r], s))' <= Depth(sq'[r], fetching'[i].at)
      PROVE  FetchFrom(i, r, s)'
  <2>1. /\ i \in DOMAIN fetching /\ fetching'[i] = fetching[i]
        /\ sq'[r].head = sq[r].head /\ sq'[r].tail = sq[r].tail
        /\ sq'[r].live = (sq[r].live /\ r # q)
    BY <1>2, <1>4, <1>5 DEF ClosedSQ
  <2>2. ~Occupied(sq[r], s) /\ Depth(sq[r], s) <= Depth(sq[r], fetching[i].at) /\ sq[r].live
    BY <1>5, <2>1 DEF Occupied, Depth
  <2>3. FetchFrom(i, r, s)
    BY <1>5, <2>1, <2>2 DEF ArcInv
  <2> QED
    BY <1>2, <2>3 DEF FetchFrom
<1> QED
  BY <1>5 DEF ArcInv

(* The end of a command keeps the counts and the order.                    *)
LEMMA FinishCount ==
  ASSUME Good, Good', CountInv, ArcInv, NumbersUsedOnce, NEW e \in running, Finish(e)
  PROVE  CountInv' /\ ArcInv'
<1>1. EndFrame(e)
  BY DEF Finish, EndFrame, hostVars
<1>2. FrontInv /\ UNCHANGED fetching
  BY <1>1 DEF Good, EndFrame
<1>3. CASE cmd[e.c].op.op = "deleteSQ" /\ DeleteSQ(e, cmd[e.c].op.q)
  BY <1>1, <1>2, <1>3, DeleteSQCount, DeleteSQArc
<1>4. CASE cmd[e.c].op.op = "createSQ" /\ CreateSQ(e, cmd[e.c].op)
  BY <1>1, <1>2, <1>4, CreateSQCount, CreateSQArc
<1>5. CASE RefuseCreate(e, cmd[e.c].op)
  <2>1. UNCHANGED sq
    BY <1>5 DEF RefuseCreate
  <2> QED
    BY <1>1, <1>2, <1>5, <2>1, RefuseCount, ArcFrame
<1>6. CASE cmd[e.c].op.op = "createCQ" /\ CreateCQ(e, cmd[e.c].op)
  <2>1. UNCHANGED sq
    BY <1>6 DEF CreateCQ
  <2> QED
    BY <1>1, <1>2, <1>6, <2>1, CreateCQCount, ArcFrame
<1>7. CASE cmd[e.c].op.op = "deleteCQ" /\ DeleteCQ(e, cmd[e.c].op.q)
  <2>1. UNCHANGED sq
    BY <1>7 DEF DeleteCQ
  <2> QED
    BY <1>1, <1>2, <1>7, <2>1, DeleteCQCount, ArcFrame
<1>8. CASE cmd[e.c].op.op = "abort" /\ Abort(e, cmd[e.c].op)
  <2>1. UNCHANGED sq
    BY <1>8 DEF Abort
  <2> QED
    BY <1>1, <1>2, <1>8, <2>1, AbortCount, ArcFrame
<1>9. CASE JustAnswer(e, cmd[e.c].op) \/ SetCoalescing(e, cmd[e.c].op)
  <2>1. UNCHANGED sq
    BY <1>9 DEF JustAnswer, SetCoalescing
  <2> QED
    BY <1>1, <1>2, <1>9, <2>1, AnswerCount, ArcFrame
<1> QED
  BY <1>3, <1>4, <1>5, <1>6, <1>7, <1>8, <1>9 DEF Finish

(* A submission of either kind.                                            *)
LEMMA Submits ==
  ASSUME SubmitIO \/ SubmitAdmin
  PROVE  \E q \in Queues, uid \in Users : \E op : Submit(q, op, uid)
<1>1. CASE SubmitIO
  BY <1>1 DEF SubmitIO
<1>2. CASE SubmitAdmin
  <2>1. 0 \in Queues /\ 0 \in Users
    BY Sizes, ControllerAssumption
  <2> QED
    BY <1>2, <2>1 DEF SubmitAdmin
<1> QED
  BY <1>1, <1>2

(* Steps that leave the places of the commands alone.                      *)
Quiet == UNCHANGED <<cmd, gone, twice, sq, fetching, lSQByUser, running, lSQFIFO, lCQFIFO,
                     posting, cq, answers>>

(* They keep the counts.                                                   *)
LEMMA QuietStep ==
  ASSUME Good, Good', CountInv, ArcInv, Quiet
  PROVE  CountInv' /\ ArcInv'
<1>1. /\ UNCHANGED <<cmd, sq, fetching, lSQByUser, running>>
      /\ UNCHANGED <<lCQFIFO, posting, cq, answers>>
      /\ UNCHANGED <<cmd, gone, twice>> /\ UNCHANGED lSQFIFO
  BY DEF Quiet
<1>2. MoveFrame
  BY <1>1 DEF MoveFrame
<1>3. \A c \in Cmds : SameFront(c) /\ SameBack(c)
  BY <1>1, FrontStays, BackStays
<1> QED
  BY <1>1, <1>2, <1>3, QuietCount, ArcFrame

(* Every step that does not end in a panic keeps the counts and the order. *)
LEMMA CountNext ==
  ASSUME NumbersUsedOnce, Good, Good', CountInv, ArcInv, [Next]_vars, ~broken'
  PROVE  CountInv' /\ ArcInv'
<1>1. CASE SubmitIO \/ SubmitAdmin
  <2>1. PICK q \in Queues, uid \in Users : \E op : Submit(q, op, uid)
    BY <1>1, Submits
  <2>2. PICK op : Submit(q, op, uid)
    BY <2>1
  <2>3. Enqueued(q) /\ Recorded(q, op, uid)
    BY <2>2, SubmitSQ, SubmitCmd DEF Good, FrontInv
  <2> QED
    BY <2>2, <2>3, SubmitCount, SubmitArc
<1>2. ASSUME NEW q \in Queues, Consume(q) PROVE CountInv' /\ ArcInv'
  <2>1. UNCHANGED <<sq, fetching>>
    BY <1>2 DEF Consume, fetchVars
  <2> QED
    BY <1>2, <2>1, ConsumeCount, ArcFrame
<1>3. ASSUME NEW r \in {"enable", "disable", "shutdown"}, WriteConfig(r) PROVE CountInv' /\ ArcInv'
  <2>1. Quiet
    BY <1>3 DEF WriteConfig, fetchVars, postVars, histVars, Quiet
  <2> QED
    BY <2>1, QuietStep
<1>4. ASSUME NEW u \in Users, Refill(u) PROVE CountInv' /\ ArcInv'
  <2>1. Quiet
    BY <1>4 DEF Refill, fetchVars, postVars, hostVars, histVars, Quiet
  <2> QED
    BY <2>1, QuietStep
<1>5. CASE Work
  BY <1>5, WorkCount, WorkArc DEF Good
<1>6. CASE ReadDone
  BY <1>6, ReadCount, ReadArc DEF Good
<1>7. ASSUME NEW b \in BOOLEAN, HandleRequest(b) PROVE CountInv' /\ ArcInv'
  <2>1. UNCHANGED <<sq, fetching>>
    BY <1>7 DEF HandleRequest
  <2> QED
    BY <1>7, <2>1, HandleCount, ArcFrame
<1>8. ASSUME NEW e \in running, Finish(e) PROVE CountInv' /\ ArcInv'
  BY <1>8, FinishCount
<1>9. CASE Completion
  <2>1. UNCHANGED <<sq, fetching>>
    BY <1>9 DEF Completion, fetchVars
  <2> QED
    BY <1>9, <2>1, CompletionCount, ArcFrame
<1>10. CASE PostDone
  <2>1. UNCHANGED <<sq, fetching>>
    BY <1>10 DEF PostDone, fetchVars
  <2> QED
    BY <1>10, <2>1, PostDoneCount, ArcFrame
<1>11. CASE Send
  <2>1. Quiet
    BY <1>11 DEF Send, fetchVars, hostVars, histVars, Quiet
  <2> QED
    BY <2>1, QuietStep
<1>12. CASE UNCHANGED vars
  <2>1. Quiet
    BY <1>12 DEF vars, fetchVars, pickVars, postVars, hostVars, histVars, Quiet
  <2> QED
    BY <2>1, QuietStep
<1> QED
  BY <1>1, <1>2, <1>3, <1>4, <1>5, <1>6, <1>7, <1>8, <1>9, <1>10, <1>11, <1>12 DEF Next, Host

(* What the counts need, until a panic.                                    *)
CountedInv == ~broken => Good /\ CountInv /\ ArcInv

(* The counts are right in every state that no panic led to.               *)
THEOREM Counted == ASSUME NumbersUsedOnce PROVE Spec => []CountedInv
<1>1. Init => CountedInv
  <2>1. SUFFICES ASSUME Init PROVE Good /\ CountInv /\ ArcInv
    BY DEF CountedInv
  <2>2. Cmds = {} /\ fetching = <<>>
    <3>1. cmd = <<>> /\ fetching = <<>>
      BY <2>1 DEF Init
    <3>2. Len(cmd) = 0
      BY <3>1
    <3> QED
      BY <3>1, <3>2 DEF Cmds
  <2> QED
    BY <2>1, <2>2, InitLemma DEF Good, CountInv, ArcInv
<1>2. CountedInv /\ [Next]_vars => CountedInv'
  <2>1. SUFFICES ASSUME CountedInv, [Next]_vars, ~broken' PROVE Good' /\ CountInv' /\ ArcInv'
    BY DEF CountedInv
  <2>2. ~broken
    BY <2>1 DEF Next, Work, ReadDone, HandleRequest, Finish, Completion, PostDone, Send, vars
  <2>3. Good /\ CountInv /\ ArcInv
    BY <2>1, <2>2 DEF CountedInv
  <2>4. Good'
    BY <2>1, <2>3, NextLemma DEF Good
  <2> QED
    BY <2>1, <2>3, <2>4, CountNext
<1> QED
  BY <1>1, <1>2, PTL DEF Spec

(* Every command the host submitted is in exactly one place on its way     *)
(* through the rings, the transfers, the staging per user, the subsystem   *)
(* and the completion rounds of controller.cc, or answered exactly once;   *)
(* only a command whose queue was deleted may be lost, and only one found  *)
(* in the deprecated FIFO is ever answered twice.                          *)
THEOREM EachOnceAlways == ASSUME NumbersUsedOnce PROVE Spec => []EachOnce
<1>1. CountedInv => EachOnce
  BY DEF CountedInv, EachOnce, CountInv, Tally, Cmds
<1> QED
  BY <1>1, Counted, PTL

-----------------------------------------------------------------------------
(* Room in the completion queues *)

(* A command that was not answered twice is behind its execution in one    *)
(* place.                                                                  *)
LEMMA OneSpot ==
  ASSUME Good, CountInv, NEW c \in Cmds, c \notin twice
  PROVE  /\ \A i \in At(lCQFIFO, c), j \in At(lCQFIFO, c) : i = j
         /\ \A i \in PostedAt(c), j \in PostedAt(c) : i = j
         /\ \A i \in HostAt(c), j \in HostAt(c) : i = j
         /\ At(lCQFIFO, c) # {} => PostedAt(c) = {} /\ HostAt(c) = {}
         /\ PostedAt(c) # {} => HostAt(c) = {}
         /\ At(lCQFIFO, c) # {} \/ PostedAt(c) # {} \/ HostAt(c) # {} => answers[c] = 0
<1>1. Numbers(c) /\ Count(c) = FrontCount(c) + BackCount(c) /\ Tally(c)
  BY TallyFact
<1>2. PICK w, f, s, r, l, p, h, a \in Nat :
        /\ w = Waiting(c) /\ f = Fetching(c) /\ s = Staged(c) /\ r = Running(c)
        /\ l = InSeq(lCQFIFO, c) /\ p = Posting(c) /\ h = InHostMemory(c) /\ a = answers[c]
  BY <1>1 DEF Numbers
<1>3. (w + f + s + r) + (l + p + h + a) <= 1
  BY <1>1, <1>2 DEF Tally, FrontCount, BackCount
<1>4. l + p + h + a <= 1
  BY <1>3
<1>5. PICK A : A = At(lCQFIFO, c)
  OBVIOUS
<1>6. PICK P : P = PostedAt(c)
  OBVIOUS
<1>7. PICK H : H = HostAt(c)
  OBVIOUS
<1>8. IsFiniteSet(A) /\ l = Cardinality(A)
  <2>1. lCQFIFO \in Seq(Entries)
    BY DEF Good, FrontInv, EntryInv
  <2> QED
    BY <1>2, <1>5, <2>1, AtFinite
<1>9. IsFiniteSet(P) /\ p = Cardinality(P) /\ IsFiniteSet(H) /\ h = Cardinality(H)
  BY <1>1, <1>2, <1>6, <1>7 DEF Numbers, Posting
<1>10. /\ \A i \in A, j \in A : i # j => l >= 2
       /\ \A i \in P, j \in P : i # j => p >= 2
       /\ \A i \in H, j \in H : i # j => h >= 2
  BY <1>8, <1>9, OneTwo
<1>11. (A # {} => l >= 1) /\ (P # {} => p >= 1) /\ (H # {} => h >= 1)
  BY <1>8, <1>9, OneTwo
<1>12. ~(l >= 2) /\ ~(p >= 2) /\ ~(h >= 2)
  BY <1>4
<1>13. /\ l >= 1 => ~(p >= 1) /\ ~(h >= 1) /\ a = 0
       /\ p >= 1 => ~(h >= 1) /\ a = 0
       /\ h >= 1 => a = 0
  BY <1>4
<1>14. /\ \A i \in A, j \in A : i = j
       /\ \A i \in P, j \in P : i = j
       /\ \A i \in H, j \in H : i = j
  BY <1>10, <1>12
<1>15. /\ A # {} => P = {} /\ H = {} /\ a = 0
       /\ P # {} => H = {} /\ a = 0
       /\ H # {} => a = 0
  BY <1>11, <1>13
<1> QED
  BY <1>2, <1>5, <1>6, <1>7, <1>14, <1>15

(* Command c takes, or will take, slot i of completion queue q: it is      *)
(* there, its entry is under way, or the loop of completion is past it or  *)
(* at it.                                                                  *)
Spot(s, n, q, i, c) ==
  \/ <<q, i>> \in HostAt(c)
  \/ \E j \in PostedAt(c) : posting[j].write.cq = q /\ posting[j].write.at = i
  \/ \E j \in At(lCQFIFO, c) : \/ j \in 1..n /\ s.writes[j].cq = q /\ s.writes[j].at = i
                               \/ j = n + 1 /\ i = s.cq[q].tail

(* It takes one slot.                                                      *)
LEMMA SpotOne ==
  ASSUME Good, CountInv, NEW c \in Cmds, c \notin twice, NEW s, NEW n \in Nat, NEW q,
         NEW i, NEW r, Spot(s, n, q, i, c), Spot(s, n, q, r, c)
  PROVE  i = r
<1>1. /\ \A a \in At(lCQFIFO, c), b \in At(lCQFIFO, c) : a = b
      /\ \A a \in PostedAt(c), b \in PostedAt(c) : a = b
      /\ \A a \in HostAt(c), b \in HostAt(c) : a = b
      /\ At(lCQFIFO, c) # {} => PostedAt(c) = {} /\ HostAt(c) = {}
      /\ PostedAt(c) # {} => HostAt(c) = {}
  BY OneSpot
<1>2. CASE <<q, i>> \in HostAt(c)
  <2>1. <<q, r>> \in HostAt(c)
    BY <1>1, <1>2 DEF Spot
  <2>2. <<q, i>> = <<q, r>>
    BY <1>1, <1>2, <2>1
  <2> QED
    BY <2>2
<1>3. ASSUME NEW j \in PostedAt(c), posting[j].write.cq = q, posting[j].write.at = i PROVE i = r
  <2>1. PICK k \in PostedAt(c) : posting[k].write.cq = q /\ posting[k].write.at = r
    BY <1>1, <1>3 DEF Spot
  <2>2. j = k
    BY <1>1, <2>1
  <2> QED
    BY <1>3, <2>1, <2>2
<1>4. ASSUME NEW j \in At(lCQFIFO, c), \/ j \in 1..n /\ s.writes[j].cq = q /\ s.writes[j].at = i
                                       \/ j = n + 1 /\ i = s.cq[q].tail
      PROVE  i = r
  <2>1. PICK k \in At(lCQFIFO, c) : \/ k \in 1..n /\ s.writes[k].cq = q /\ s.writes[k].at = r
                                    \/ k = n + 1 /\ r = s.cq[q].tail
    BY <1>1, <1>4 DEF Spot
  <2>2. j = k
    BY <1>1, <2>1
  <2>3. n + 1 \notin 1..n
    OBVIOUS
  <2> QED
    BY <1>4, <2>1, <2>2, <2>3
<1> QED
  BY <1>2, <1>3, <1>4 DEF Spot

(* The command is outstanding.                                             *)
LEMMA SpotOut ==
  ASSUME Good, CountInv, NEW c \in Cmds, c \notin twice, c \notin gone, NEW s, NEW n, NEW q,
         NEW i, Spot(s, n, q, i, c), sq[cmd[c].q].cqID = q
  PROVE  c \in Outstanding(q)
<1>1. At(lCQFIFO, c) # {} \/ PostedAt(c) # {} \/ HostAt(c) # {}
  BY DEF Spot
<1>2. answers[c] = 0
  BY <1>1, OneSpot
<1> QED
  BY <1>2 DEF Outstanding, Cmds

(* When the loop of completion meets a full queue, every slot of it is     *)
(* taken by a command.                                                     *)
LEMMA SpotAt ==
  ASSUME Good, NEW s \in Rounds, NEW n \in Nat, RoundInv(s, n), ~s.bad,
         n + 1 \in DOMAIN lCQFIFO, NEW q \in Queues, q = lCQFIFO[n + 1].cq, cq[q].live,
         Inc(s.cq[q].tail) = s.cq[q].head, NEW i \in Slots
  PROVE  \E c \in Cmds : sq[cmd[c].q].cqID = q /\ Spot(s, n, q, i, c)
<1>1. /\ lCQFIFO \in Seq(Entries) /\ \A j \in DOMAIN lCQFIFO : IsEntry(lCQFIFO[j])
  BY DEF Good, FrontInv, EntryInv
<1>2. \A j \in DOMAIN lCQFIFO :
        LET c == lCQFIFO[j].c IN c \in Cmds /\ j \in At(lCQFIFO, c) /\ sq[cmd[c].q].cqID = lCQFIFO[j].cq
  BY <1>1 DEF IsEntry, At
<1>3. CASE i = s.cq[q].tail
  <2>1. PICK c : c = lCQFIFO[n + 1].c
    OBVIOUS
  <2>2. c \in Cmds /\ n + 1 \in At(lCQFIFO, c) /\ sq[cmd[c].q].cqID = q
    BY <1>2, <2>1
  <2>3. Spot(s, n, q, i, c)
    BY <1>3, <2>2 DEF Spot
  <2> QED
    BY <2>2, <2>3
<1>4. CASE i # s.cq[q].tail
  <2>1. s.cq[q].tail \in Slots /\ s.cq[q].head \in Slots
    BY DEF Rounds, CQs
  <2>2. Occupied(s.cq[q], i)
    <3>1. Inc(s.cq[q].tail) = IF s.cq[q].tail = QueueSize - 1 THEN 0 ELSE s.cq[q].tail + 1
      BY <2>1, IncFact
    <3> QED
      BY <1>4, <2>1, <3>1, Sizes DEF Occupied, Slots
  <2>3. Occupied(cq[q], i) \/ \E j \in 1..n : s.writes[j].cq = q /\ s.writes[j].at = i
    BY <2>2 DEF RoundInv, RoundSlots
  <2>4. CASE Written(q, i)
    <3>1. PICK c : c = cq[q].mem[i].c
      OBVIOUS
    <3>2. c \in Cmds /\ sq[cmd[c].q].cqID = q
      BY <2>4, <3>1 DEF Good, BackInv, CQInv, Answers
    <3>3. <<q, i>> \in HostAt(c)
      BY <2>4, <3>1 DEF HostAt
    <3>4. Spot(s, n, q, i, c)
      BY <3>3 DEF Spot
    <3> QED
      BY <3>2, <3>4
  <2>5. CASE Unwritten(q, i)
    <3>1. PICK j \in DOMAIN posting : posting[j].write.cq = q /\ posting[j].write.at = i
      BY <2>5 DEF Unwritten
    <3>2. PICK c : c = posting[j].write.val.c
      OBVIOUS
    <3>3. c \in Cmds /\ sq[cmd[c].q].cqID = q
      BY <3>1, <3>2 DEF Good, BackInv, PostInv, Answers
    <3>4. j \in PostedAt(c)
      BY <3>2 DEF PostedAt
    <3>5. Spot(s, n, q, i, c)
      BY <3>1, <3>4 DEF Spot
    <3> QED
      BY <3>3, <3>5
  <2>6. ASSUME NEW j \in 1..n, s.writes[j].cq = q, s.writes[j].at = i
        PROVE  \E c \in Cmds : sq[cmd[c].q].cqID = q /\ Spot(s, n, q, i, c)
    <3>1. PICK c : c = lCQFIFO[j].c
      OBVIOUS
    <3>2. j \in DOMAIN lCQFIFO
      BY <1>1
    <3>3. lCQFIFO[j].cq = q
      BY <2>6 DEF RoundInv, RoundWrites
    <3>4. c \in Cmds /\ j \in At(lCQFIFO, c) /\ sq[cmd[c].q].cqID = q
      BY <1>2, <3>1, <3>2, <3>3
    <3>5. Spot(s, n, q, i, c)
      BY <2>6, <3>4 DEF Spot
    <3> QED
      BY <3>4, <3>5
  <2> QED
    BY <2>3, <2>4, <2>5, <2>6 DEF Written
<1> QED
  BY <1>3, <1>4

(* At most QueueSize - 1 commands are outstanding on a completion queue.   *)
OutInv == \A q \in Queues : Cardinality(Outstanding(q)) <= QueueSize - 1

(* Outstanding commands are finitely many.                                 *)
LEMMA OutFinite ==
  ASSUME HostInv, NEW q
  PROVE  IsFiniteSet(Outstanding(q)) /\ Cardinality(Outstanding(q)) \in Nat
<1>1. Len(cmd) \in Nat
  BY DEF HostInv
<1>2. PICK a \in Int, b \in Int : a = 1 /\ b = Len(cmd)
  BY <1>1
<1>3. IsFiniteSet(a..b) /\ Outstanding(q) \in SUBSET (a..b)
  BY <1>2, FS_Interval DEF Outstanding
<1> QED
  BY <1>3, FS_Subset, FS_CardinalityType

(* So the loop of completion meets no full queue.                          *)
LEMMA NoOverflow ==
  ASSUME Good, CountInv, OutInv, gone = {}, twice = {},
         NEW s \in Rounds, NEW n \in Nat, RoundInv(s, n), ~s.bad,
         n + 1 \in DOMAIN lCQFIFO, NEW q \in Queues, q = lCQFIFO[n + 1].cq, cq[q].live
  PROVE  Inc(s.cq[q].tail) # s.cq[q].head
<1>1. SUFFICES ASSUME Inc(s.cq[q].tail) = s.cq[q].head PROVE FALSE
  OBVIOUS
<1> DEFINE Fits(i, c) == c \in Cmds /\ sq[cmd[c].q].cqID = q /\ Spot(s, n, q, i, c)
           T == Outstanding(q)
           f == [i \in Slots |-> CHOOSE c : Fits(i, c)]
<1>2. \A i \in Slots : \E c : Fits(i, c)
  BY <1>1, SpotAt
<1>3. \A i \in Slots : Fits(i, f[i])
  <2> HIDE DEF Fits
  <2> QED
    BY <1>2
<1>4. \A i \in Slots : f[i] \in T
  <2>1. ASSUME NEW i \in Slots PROVE f[i] \in T
    <3>1. PICK c : c = f[i]
      OBVIOUS
    <3>2. c \in Cmds /\ sq[cmd[c].q].cqID = q /\ Spot(s, n, q, i, c)
      BY <1>3, <3>1
    <3> HIDE DEF f
    <3> QED
      BY <3>1, <3>2, SpotOut
  <2> QED
    BY <2>1
<1>5. ASSUME NEW i \in Slots, NEW r \in Slots, f[i] = f[r] PROVE i = r
  <2>1. PICK c : c = f[i]
    OBVIOUS
  <2>2. c \in Cmds /\ Spot(s, n, q, i, c)
    BY <1>3, <2>1
  <2>3. Spot(s, n, q, r, c)
    BY <1>3, <1>5, <2>1
  <2> HIDE DEF f
  <2> QED
    BY <2>2, <2>3, SpotOne
<1>6. f \in [Slots -> T]
  BY <1>4
<1>7. f \in Injection(Slots, T)
  <2> HIDE DEF f, T
  <2> QED
    BY <1>5, <1>6 DEF Injection, IsInjective
<1>8. IsFiniteSet(T) /\ Cardinality(T) \in Nat
  BY OutFinite DEF Good, FrontInv
<1>9. Cardinality(Slots) <= Cardinality(T)
  <2> HIDE DEF f, T
  <2> QED
    BY <1>7, <1>8, FS_Injection
<1>10. Cardinality(Slots) = QueueSize
  <2>1. PICK a \in Int, b \in Int : a = 0 /\ b = QueueSize - 1 /\ ~(a > b)
    BY Sizes
  <2>2. Cardinality(a..b) = b - a + 1
    BY <2>1, FS_Interval
  <2> QED
    BY <2>1, <2>2, Sizes DEF Slots
<1>11. Cardinality(T) <= QueueSize - 1
  BY DEF OutInv
<1> QED
  BY <1>8, <1>9, <1>10, <1>11, Sizes

-----------------------------------------------------------------------------
(* Panics *)

(* The completion queue of a submission queue in use, and of every queue   *)
(* that was used, is live unless the host deletes it.                      *)
LiveInv ==
  \A q \in Queues : sq[q].live \/ (\E c \in Cmds : cmd[c].q = q) =>
    cq[sq[q].cqID].live \/ DeletesCQ(sq[q].cqID)

(* Steps that submit nothing and create no submission queue.               *)
StaySQ == /\ UNCHANGED cmd
          /\ \A q \in Queues : (sq'[q].live => sq[q].live) /\ sq'[q].cqID = sq[q].cqID
StayCQ == \A q \in Queues : cq[q].live => cq'[q].live \/ DeletesCQ(q)
StayOut == gone \subseteq gone' /\ \A c \in Cmds : answers'[c] = 0 => answers[c] = 0

(* They keep the completion queues.                                        *)
LEMMA LiveFrame ==
  ASSUME SQInv, LiveInv, StaySQ, StayCQ
  PROVE  LiveInv'
<1>1. UNCHANGED cmd /\ Cmds' = Cmds
  BY DEF StaySQ, Cmds
<1>2. \A q : DeletesCQ(q)' <=> DeletesCQ(q)
  BY <1>1 DEF DeletesCQ, Planned
<1>3. ASSUME NEW q \in Queues, sq'[q].live \/ \E c \in Cmds' : cmd'[c].q = q
      PROVE  cq'[sq'[q].cqID].live \/ DeletesCQ(sq[q].cqID)'
  <2>1. PICK r : r = sq[q].cqID
    OBVIOUS
  <2>2. r \in Queues /\ sq'[q].cqID = r
    BY <2>1 DEF SQInv, SQs, StaySQ
  <2>3. sq[q].live \/ \E c \in Cmds : cmd[c].q = q
    BY <1>1, <1>3 DEF StaySQ
  <2>4. cq[r].live \/ DeletesCQ(r)
    BY <2>1, <2>3 DEF LiveInv
  <2>5. cq'[r].live \/ DeletesCQ(r)
    BY <2>2, <2>4 DEF StayCQ
  <2>6. DeletesCQ(sq[q].cqID)' <=> DeletesCQ(r)
    BY <1>1, <2>2 DEF DeletesCQ, Planned
  <2> QED
    BY <2>2, <2>5, <2>6
<1> QED
  BY <1>3 DEF LiveInv

(* Steps after which no more commands are outstanding.                     *)
LEMMA OutFrame ==
  ASSUME HostInv, OutInv, UNCHANGED cmd, StayOut,
         \A c \in Cmds : sq'[cmd[c].q].cqID = sq[cmd[c].q].cqID
  PROVE  OutInv'
<1>1. ASSUME NEW q \in Queues PROVE Cardinality(Outstanding(q)') <= QueueSize - 1
  <2>1. PICK S : S = Outstanding(q)
    OBVIOUS
  <2>2. PICK T : T = Outstanding(q)'
    OBVIOUS
  <2>3. T \subseteq S
    BY <2>1, <2>2 DEF Outstanding, StayOut, Cmds
  <2>4. IsFiniteSet(S) /\ Cardinality(S) \in Nat /\ Cardinality(S) <= QueueSize - 1
    BY <2>1, OutFinite DEF OutInv
  <2>5. Cardinality(T) <= Cardinality(S) /\ Cardinality(T) \in Nat
    BY <2>3, <2>4, FS_Subset, FS_CardinalityType
  <2> QED
    BY <2>2, <2>4, <2>5, Sizes
<1> QED
  BY <1>1 DEF OutInv

(* Steps that do both.                                                     *)
LEMMA LimitFrame ==
  ASSUME Good, OutInv, LiveInv, StaySQ, StayCQ, StayOut
  PROVE  OutInv' /\ LiveInv'
<1>1. HostInv /\ SQInv /\ UNCHANGED cmd
  BY DEF Good, FrontInv, StaySQ
<1>2. \A c \in Cmds : sq'[cmd[c].q].cqID = sq[cmd[c].q].cqID
  BY <1>1, CmdType DEF StaySQ
<1> QED
  BY <1>1, <1>2, LiveFrame, OutFrame

(* A submission keeps within the limit of outstanding commands.            *)
LEMMA SubmitLimit ==
  ASSUME Good, OutInv, LiveInv, NEW q \in Queues, NEW op, NEW uid,
         Submit(q, op, uid), Enqueued(q), Recorded(q, op, uid)
  PROVE  OutInv' /\ LiveInv'
<1>1. HostInv /\ SQInv /\ UNCHANGED <<answers, gone, cq>>
  BY DEF Good, FrontInv, Submit, histVars, postVars
<1>2. PICK n : n = Len(cmd) + 1
  OBVIOUS
<1>3. /\ Cmds' = Cmds \union {n} /\ \A c \in Cmds : cmd'[c] = cmd[c] /\ cmd[c].q \in Queues
      /\ cmd'[n].q = q
  BY <1>1, <1>2, CmdType DEF Recorded
<1>4. \A r \in Queues : sq'[r].cqID = sq[r].cqID /\ sq'[r].live = sq[r].live
  BY DEF Enqueued
<1>5. ASSUME NEW r \in Queues PROVE Cardinality(Outstanding(r)') <= QueueSize - 1
  <2>1. PICK S : S = Outstanding(r)
    OBVIOUS
  <2>2. PICK T : T = Outstanding(r)'
    OBVIOUS
  <2>3. IsFiniteSet(S) /\ Cardinality(S) \in Nat /\ Cardinality(S) <= QueueSize - 1
    BY <1>1, <2>1, OutFinite DEF OutInv
  <2>4. T = {c \in Cmds' : sq'[cmd'[c].q].cqID = r /\ answers'[c] = 0 /\ c \notin gone'}
    BY <2>2 DEF Outstanding, Cmds
  <2>5. S = {c \in Cmds : sq[cmd[c].q].cqID = r /\ answers[c] = 0 /\ c \notin gone}
    BY <2>1 DEF Outstanding, Cmds
  <2>6. T \subseteq S \union {n} /\ (sq[q].cqID # r => T \subseteq S)
    BY <1>1, <1>3, <1>4, <2>4, <2>5
  <2>7. CASE sq[q].cqID = r
    <3>1. Cardinality(S) < QueueSize - 1
      BY <2>1, <2>7 DEF Submit
    <3>2. IsFiniteSet(S \union {n}) /\ Cardinality(S \union {n}) <= Cardinality(S) + 1
          /\ Cardinality(S \union {n}) \in Nat
      <4>1. IsFiniteSet(S \union {n})
            /\ Cardinality(S \union {n}) = IF n \in S THEN Cardinality(S) ELSE Cardinality(S) + 1
        BY <2>3, FS_AddElement
      <4> QED
        BY <2>3, <4>1
    <3>3. Cardinality(T) <= Cardinality(S \union {n}) /\ Cardinality(T) \in Nat
      BY <2>6, <3>2, FS_Subset, FS_CardinalityType
    <3> QED
      BY <2>2, <2>3, <3>1, <3>2, <3>3, Sizes
  <2>8. CASE sq[q].cqID # r
    <3>1. Cardinality(T) <= Cardinality(S) /\ Cardinality(T) \in Nat
      BY <2>3, <2>6, <2>8, FS_Subset, FS_CardinalityType
    <3> QED
      BY <2>2, <2>3, <3>1, Sizes
  <2> QED
    BY <2>7, <2>8
<1>6. sq[q].live
  BY <1>1 DEF Submit, HostInv
<1>7. ASSUME NEW r \in Queues, sq'[r].live \/ \E c \in Cmds' : cmd'[c].q = r
      PROVE  cq'[sq'[r].cqID].live \/ DeletesCQ(sq[r].cqID)'
  <2>1. sq[r].live \/ \E c \in Cmds : cmd[c].q = r
    BY <1>3, <1>4, <1>6, <1>7
  <2>2. PICK x : x = sq[r].cqID
    OBVIOUS
  <2>3. cq[x].live \/ DeletesCQ(x)
    BY <2>1, <2>2 DEF LiveInv
  <2>4. sq'[r].cqID = x
    BY <1>4, <2>2
  <2>5. DeletesCQ(x) => DeletesCQ(sq[r].cqID)'
    BY <1>3, <2>4 DEF DeletesCQ, Planned
  <2> QED
    BY <1>1, <2>3, <2>4, <2>5
<1> QED
  BY <1>5, <1>7 DEF OutInv, LiveInv

(* The end of a command.                                                   *)
LEMMA FinishLimit ==
  ASSUME Good, OutInv, LiveInv, NumbersUsedOnce, NEW e \in running, Finish(e)
  PROVE  OutInv' /\ LiveInv'
<1>1. UNCHANGED <<cmd, answers>> /\ SQInv /\ HostInv /\ CQInv /\ FrontInv /\ Cmds' = Cmds
  BY DEF Finish, hostVars, Good, FrontInv, BackInv, Cmds
<1>2. ASSUME gone \subseteq gone', UNCHANGED <<sq, cq>> PROVE OutInv' /\ LiveInv'
  <2>1. StaySQ /\ StayCQ /\ StayOut
    BY <1>1, <1>2 DEF StaySQ, StayCQ, StayOut
  <2> QED
    BY <2>1, LimitFrame
<1>3. CASE cmd[e.c].op.op = "deleteSQ" /\ DeleteSQ(e, cmd[e.c].op.q)
  <2>1. PICK q : q = cmd[e.c].op.q
    OBVIOUS
  <2>2. q \in Queues /\ ClosedSQ(q)
    <3>1. q \in Queues /\ sq' = [sq EXCEPT ![q].live = FALSE]
      BY <1>1, <1>3, <2>1, EndingCommand, OpType DEF DeleteSQ
    <3> QED
      BY <1>1, <3>1, CloseSQ
  <2>3. \A r \in Queues : (sq'[r].live => sq[r].live) /\ sq'[r].cqID = sq[r].cqID
    <3>1. ASSUME NEW r \in Queues
          PROVE  (sq'[r].live => sq[r].live) /\ sq'[r].cqID = sq[r].cqID
      BY <2>2 DEF ClosedSQ
    <3> QED
      BY <3>1
  <2>4. StaySQ /\ StayCQ /\ StayOut
    BY <1>1, <1>3, <2>3 DEF StaySQ, StayCQ, StayOut, DeleteSQ
  <2> QED
    BY <2>4, LimitFrame
<1>4. CASE cmd[e.c].op.op = "createSQ" /\ CreateSQ(e, cmd[e.c].op)
  <2>1. PICK q, x : q = cmd[e.c].op.q /\ x = cmd[e.c].op.cq
    OBVIOUS
  <2>2. q \in Queues /\ NewlySQ(q) /\ (\A c \in Cmds : cmd[c].q # q) /\ sq'[q].cqID = x
    BY <1>1, <1>4, <2>1, FreshNumber
  <2>3. cq[x].live /\ UNCHANGED <<cq, gone>>
    BY <1>4, <2>1 DEF CreateSQ
  <2>4. \A r \in Queues : r # q => sq'[r] = sq[r]
    BY <2>2 DEF NewlySQ
  <2>5. \A c \in Cmds : sq'[cmd[c].q].cqID = sq[cmd[c].q].cqID
    BY <1>1, <2>2, <2>4, CmdType
  <2>6. StayOut
    BY <1>1, <2>3 DEF StayOut
  <2>7. OutInv'
    BY <1>1, <2>5, <2>6, OutFrame
  <2>8. ASSUME NEW r \in Queues, sq'[r].live \/ \E c \in Cmds' : cmd'[c].q = r
        PROVE  cq'[sq'[r].cqID].live \/ DeletesCQ(sq[r].cqID)'
    <3>1. CASE r = q
      BY <2>2, <2>3, <3>1
    <3>2. CASE r # q
      <4>1. cq[sq[r].cqID].live \/ DeletesCQ(sq[r].cqID)
        BY <1>1, <2>4, <2>8, <3>2 DEF LiveInv
      <4>2. DeletesCQ(sq[r].cqID)' <=> DeletesCQ(sq[r].cqID)
        BY <1>1, <2>4, <3>2 DEF DeletesCQ, Planned
      <4> QED
        BY <2>3, <2>4, <3>2, <4>1, <4>2
    <3> QED
      BY <3>1, <3>2
  <2> QED
    BY <2>7, <2>8 DEF LiveInv
<1>5. CASE RefuseCreate(e, cmd[e.c].op)
  BY <1>2, <1>5 DEF RefuseCreate
<1>6. CASE cmd[e.c].op.op = "createCQ" /\ CreateCQ(e, cmd[e.c].op)
  <2>1. PICK q, iv : q = cmd[e.c].op.q /\ iv = cmd[e.c].op.iv
    OBVIOUS
  <2>2. q \in Queues /\ iv \in Vectors
    BY <1>1, <1>6, <2>1, EndingCommand, OpType
  <2>3. cq' = [cq EXCEPT ![q] = NewCQ(iv, TRUE)] /\ UNCHANGED <<sq, gone>>
    BY <1>6, <2>1 DEF CreateCQ
  <2>4. Opened(q, iv)
    BY <1>1, <2>2, <2>3, OpenCQ
  <2>5. \A r \in Queues : cq[r].live => cq'[r].live
    BY <2>4 DEF Opened
  <2>6. StaySQ /\ StayCQ /\ StayOut
    BY <1>1, <2>3, <2>5 DEF StaySQ, StayCQ, StayOut
  <2> QED
    BY <2>6, LimitFrame
<1>7. CASE cmd[e.c].op.op = "deleteCQ" /\ DeleteCQ(e, cmd[e.c].op.q)
  <2>1. PICK q : q = cmd[e.c].op.q
    OBVIOUS
  <2>2. q \in Queues /\ e.c \in Cmds /\ cmd[e.c].op = [op |-> "deleteCQ", q |-> q]
    BY <1>1, <1>7, <2>1, EndingCommand, OpType
  <2>3. cq' = [cq EXCEPT ![q].live = FALSE] /\ UNCHANGED <<sq, gone>>
    BY <1>7, <2>1 DEF DeleteCQ
  <2>4. Closed(q) /\ DeletesCQ(q)
    BY <1>1, <2>2, <2>3, CloseCQ DEF DeletesCQ, Planned
  <2>5. ASSUME NEW r \in Queues, cq[r].live PROVE cq'[r].live \/ DeletesCQ(r)
    <3>1. CASE r = q
      BY <2>4, <3>1
    <3>2. CASE r # q
      <4>1. cq'[r] = cq[r]
        BY <1>1, <2>3, <3>2 DEF CQInv
      <4> QED
        BY <2>5, <4>1
    <3> QED
      BY <3>1, <3>2
  <2>6. StaySQ /\ StayCQ /\ StayOut
    BY <1>1, <2>3, <2>5 DEF StaySQ, StayCQ, StayOut
  <2> QED
    BY <2>6, LimitFrame
<1>8. CASE cmd[e.c].op.op = "abort" /\ Abort(e, cmd[e.c].op)
  BY <1>2, <1>8 DEF Abort
<1>9. CASE JustAnswer(e, cmd[e.c].op) \/ SetCoalescing(e, cmd[e.c].op)
  BY <1>2, <1>9 DEF JustAnswer, SetCoalescing
<1> QED
  BY <1>3, <1>4, <1>5, <1>6, <1>7, <1>8, <1>9 DEF Finish

(* Every step that does not end in a panic keeps the limits.               *)
LEMMA LimitNext ==
  ASSUME NumbersUsedOnce, Good, OutInv, LiveInv, [Next]_vars, ~broken'
  PROVE  OutInv' /\ LiveInv'
<1>0. ASSUME UNCHANGED <<cmd, gone, answers, sq, cq>> PROVE OutInv' /\ LiveInv'
  <2>1. StaySQ /\ StayCQ /\ StayOut
    BY <1>0 DEF StaySQ, StayCQ, StayOut
  <2> QED
    BY <2>1, LimitFrame
<1>1. CASE SubmitIO \/ SubmitAdmin
  <2>1. PICK q \in Queues, uid \in Users : \E op : Submit(q, op, uid)
    BY <1>1, Submits
  <2>2. PICK op : Submit(q, op, uid)
    BY <2>1
  <2>3. Enqueued(q) /\ Recorded(q, op, uid)
    BY <2>2, SubmitSQ, SubmitCmd DEF Good, FrontInv
  <2> QED
    BY <2>2, <2>3, SubmitLimit
<1>2. ASSUME NEW q \in Queues, Consume(q) PROVE OutInv' /\ LiveInv'
  <2>1. UNCHANGED <<cmd, sq, gone>> /\ Consumed(q)
    BY <1>2, ConsumeEffect DEF Consume, fetchVars, histVars, Good
  <2>2. PICK x : x = cq[q].mem[cq[q].head].c
    OBVIOUS
  <2>3. answers' = [answers EXCEPT ![x] = @ + 1]
    BY <1>2, <2>2 DEF Consume
  <2>4. ASSUME NEW c \in Cmds, answers'[c] = 0 PROVE answers[c] = 0
    <3>1. c \in 1..MaxCommands /\ answers \in [1..MaxCommands -> Nat]
      BY Sizes DEF Good, FrontInv, HostInv, Registers, Cmds
    <3>2. answers[c] \in Nat /\ answers'[c] = IF c = x THEN answers[c] + 1 ELSE answers[c]
      BY <2>3, <3>1
    <3> QED
      BY <2>4, <3>2
  <2>5. \A r \in Queues : cq[r].live => cq'[r].live
    BY <2>1 DEF Consumed
  <2>6. StaySQ /\ StayCQ /\ StayOut
    BY <2>1, <2>4, <2>5 DEF StaySQ, StayCQ, StayOut
  <2> QED
    BY <2>6, LimitFrame
<1>3. ASSUME NEW r \in {"enable", "disable", "shutdown"}, WriteConfig(r) PROVE OutInv' /\ LiveInv'
  BY <1>0, <1>3 DEF WriteConfig, fetchVars, postVars, histVars
<1>4. ASSUME NEW u \in Users, Refill(u) PROVE OutInv' /\ LiveInv'
  BY <1>0, <1>4 DEF Refill, fetchVars, postVars, hostVars, histVars
<1>5. CASE Work
  <2>1. UNCHANGED <<cmd, gone, answers, cq>>
    BY <1>5 DEF Work, postVars, hostVars, histVars
  <2>2. Worked
    BY <1>5, WorkEffect DEF Good
  <2>3. CASE UNCHANGED <<sq, fetching>>
    BY <1>0, <2>1, <2>3
  <2>4. CASE Emptied
    <3>1. \A r \in Queues : (sq'[r].live => sq[r].live) /\ sq'[r].cqID = sq[r].cqID
      BY <2>4 DEF Emptied
    <3>2. StaySQ /\ StayCQ /\ StayOut
      BY <2>1, <3>1 DEF StaySQ, StayCQ, StayOut
    <3> QED
      BY <3>2, LimitFrame
  <2> QED
    BY <2>2, <2>3, <2>4 DEF Worked
<1>6. CASE ReadDone
  <2>1. UNCHANGED <<cmd, gone, answers, cq>>
    BY <1>6 DEF ReadDone, postVars, hostVars, histVars
  <2>2. UNCHANGED sq
    BY <1>6, ReadEffect DEF Good
  <2> QED
    BY <1>0, <2>1, <2>2
<1>7. ASSUME NEW b \in BOOLEAN, HandleRequest(b) PROVE OutInv' /\ LiveInv'
  BY <1>0, <1>7 DEF HandleRequest, postVars, hostVars, histVars
<1>8. ASSUME NEW e \in running, Finish(e) PROVE OutInv' /\ LiveInv'
  BY <1>8, FinishLimit
<1>9. CASE Completion
  <2>1. UNCHANGED <<cmd, gone, answers, sq>>
    BY <1>9 DEF Completion, fetchVars, hostVars, histVars
  <2>2. PICK s, m, n, ivs : Rounded(s, m, n, ivs)
    BY <1>9, CompletionEffect DEF Good
  <2>3. \A r \in Queues : cq'[r].live = cq[r].live
    BY <2>2 DEF Rounded, RoundQueues
  <2>4. StaySQ /\ StayCQ /\ StayOut
    BY <2>1, <2>3 DEF StaySQ, StayCQ, StayOut
  <2> QED
    BY <2>4, LimitFrame
<1>10. CASE PostDone
  <2>1. UNCHANGED <<cmd, gone, answers, sq>>
    BY <1>10 DEF PostDone, fetchVars, hostVars, histVars
  <2>2. PICK q, at, val : Delivered(q, at, val)
    BY <1>10, PostDoneEffect DEF Good
  <2>3. \A r \in Queues : cq'[r].live = cq[r].live
    BY <2>2 DEF Delivered
  <2>4. StaySQ /\ StayCQ /\ StayOut
    BY <2>1, <2>3 DEF StaySQ, StayCQ, StayOut
  <2> QED
    BY <2>4, LimitFrame
<1>11. CASE Send
  BY <1>0, <1>11 DEF Send, fetchVars, hostVars, histVars
<1>12. CASE UNCHANGED vars
  BY <1>0, <1>12 DEF vars, fetchVars, postVars, hostVars, histVars
<1> QED
  BY <1>1, <1>2, <1>3, <1>4, <1>5, <1>6, <1>7, <1>8, <1>9, <1>10, <1>11, <1>12 DEF Next, Host

(* What excuses a panic.                                                   *)
Excuse == gone # {} \/ twice # {} \/ \E c \in Cmds : cmd[c].op.op = "deleteCQ"

(* The deletion of a completion queue does.                                *)
LEMMA DeletionExcuses ==
  ASSUME NEW q, DeletesCQ(q)
  PROVE  Excuse
BY DEF DeletesCQ, Planned, Excuse

(* The completion queue of a command is live otherwise.                    *)
LEMMA AnswersLive ==
  ASSUME Good, LiveInv, ~Excuse, NEW e \in Entries, IsEntry(e)
  PROVE  cq[e.cq].live
<1>1. e.c \in Cmds /\ e.sq = cmd[e.c].q /\ e.cq = sq[e.sq].cqID /\ e.sq \in Queues
  BY DEF IsEntry, Entries
<1>2. cq[e.cq].live \/ DeletesCQ(e.cq)
  BY <1>1 DEF LiveInv
<1> QED
  BY <1>2, DeletionExcuses

(* A read of an entry of a deleted submission queue.                       *)
LEMMA ReadPanics ==
  ASSUME Good, CountInv, ReadDone, ~broken, broken'
  PROVE  Excuse
<1> DEFINE f == Head(fetching)
           c == sq[f.q].mem[f.at]
<1>1. SQInv /\ FetchInv /\ fetching # <<>>
  BY DEF Good, FrontInv, ReadDone
<1>2. ~sq[f.q].live
  BY DEF ReadDone
<1>3. f = fetching[1] /\ 1 \in DOMAIN fetching
  BY <1>1 DEF FetchInv
<1>4. f.q \in Queues /\ f.at \in Slots /\ c # 0
  BY <1>1, <1>3, FetchType DEF FetchInv
<1>5. c \in Cmds /\ cmd[c].q = f.q /\ 1 \in FetchedAt(c)
  BY <1>1, <1>3, <1>4 DEF SQInv, FetchedAt
<1>6. PICK d : d = c
  OBVIOUS
<1>7. d \in Cmds /\ ~sq[cmd[d].q].live /\ 1 \in FetchedAt(d)
  BY <1>2, <1>5, <1>6
<1>8. /\ Numbers(d) /\ Tally(d)
      /\ Fetching(d) > 0 => BackCount(d) = 0
  BY <1>7, TallyFact
<1>9. Fetching(d) >= 1
  BY <1>7, <1>8, OneTwo DEF Numbers
<1>10. BackCount(d) = 0
  BY <1>8, <1>9 DEF Numbers
<1>11. answers[d] = 0
  <2>1. PICK l, p, h, a \in Nat :
          l = InSeq(lCQFIFO, d) /\ p = Posting(d) /\ h = InHostMemory(d) /\ a = answers[d]
    BY <1>8 DEF Numbers
  <2>2. l + p + h + a = 0
    BY <1>10, <2>1 DEF BackCount
  <2>3. a = 0
    BY <2>2
  <2> QED
    BY <2>1, <2>3
<1>12. d \in gone
  BY <1>7, <1>8, <1>11 DEF Tally
<1> QED
  BY <1>12 DEF Excuse

(* A write of an entry of a deleted completion queue.                      *)
LEMMA PostPanics ==
  ASSUME Good, PostDone, ~broken, broken'
  PROVE  Excuse
<1>1. PostInv /\ posting # <<>> /\ ~cq[Head(posting).write.cq].live
  BY DEF Good, BackInv, PostDone
<1>2. 1 \in DOMAIN posting /\ Head(posting) = posting[1]
  <2> DEFINE S == [write : Writes, last : BOOLEAN, ivs : SUBSET Vectors]
  <2>1. posting \in Seq(S)
    BY <1>1 DEF PostInv
  <2> HIDE DEF S
  <2> QED
    BY <1>1, <2>1
<1>3. PICK q : q = posting[1].write.cq
  OBVIOUS
<1>4. DeletesCQ(q)
  BY <1>1, <1>2, <1>3 DEF PostInv
<1> QED
  BY <1>4, DeletionExcuses

(* An answer to a deleted completion queue.                                *)
LEMMA FinishPanics ==
  ASSUME Good, LiveInv, NEW e \in running, Finish(e), ~broken, broken'
  PROVE  Excuse'
<1>1. /\ UNCHANGED cmd /\ Cmds' = Cmds /\ FrontInv /\ e \in Entries /\ IsEntry(e) /\ EndFrame(e)
      /\ cmd[e.c].op \in Plans \union {IOCommand} /\ SQInv /\ EntryInv
  BY EndingCommand DEF Finish, hostVars, Good, Cmds, EndFrame
<1>2. SUFFICES ASSUME ~Excuse' PROVE FALSE
  OBVIOUS
<1>3. gone' = {} /\ twice' = {}
  BY <1>2 DEF Excuse
<1>4. ASSUME gone \subseteq gone', twice \subseteq twice' PROVE cq[e.cq].live
  <2>1. ~Excuse
    BY <1>1, <1>2, <1>3, <1>4 DEF Excuse
  <2> QED
    BY <1>1, <2>1, AnswersLive
<1>5. ASSUME gone \subseteq gone', twice \subseteq twice', Answer(<<e>>, FALSE) PROVE FALSE
  <2>1. PICK i \in DOMAIN <<e>> : ~cq[<<e>>[i].cq].live
    BY <1>5 DEF Answer
  <2>2. <<e>>[i] = e
    BY <2>1
  <2> QED
    BY <1>4, <1>5, <2>1, <2>2
<1>6. CASE cmd[e.c].op.op = "deleteSQ" /\ DeleteSQ(e, cmd[e.c].op.q)
  <2>1. PICK q : q = cmd[e.c].op.q
    OBVIOUS
  <2>2. q \in Queues /\ DeleteSQ(e, q) /\ gone' = gone \union Lost(q)
    BY <1>1, <1>6, <2>1, OpType DEF DeleteSQ
  <2>3. PICK s, done : Swept(e, q, s, done)
    BY <1>1, <2>2, SweptFact
  <2>4. /\ done \in Seq(Entries) /\ Answer(done \o <<e>>, FALSE)
        /\ twice' = twice \union {done[i].c : i \in DOMAIN done}
    BY <2>3 DEF Swept
  <2>5. DOMAIN done = {}
    BY <1>3, <2>4
  <2>6. done = <<>>
    BY <2>4, <2>5
  <2>7. done \o <<e>> = <<e>>
    BY <1>1, <2>6
  <2> QED
    BY <1>5, <2>2, <2>4, <2>7
<1>7. CASE cmd[e.c].op.op = "createSQ" /\ CreateSQ(e, cmd[e.c].op)
  BY <1>5, <1>7 DEF CreateSQ
<1>8. CASE RefuseCreate(e, cmd[e.c].op)
  BY <1>8 DEF RefuseCreate
<1>9. CASE cmd[e.c].op.op = "createCQ" /\ CreateCQ(e, cmd[e.c].op)
  BY <1>5, <1>9 DEF CreateCQ
<1>10. CASE cmd[e.c].op.op = "deleteCQ" /\ DeleteCQ(e, cmd[e.c].op.q)
  BY <1>5, <1>10 DEF DeleteCQ
<1>11. CASE cmd[e.c].op.op = "abort" /\ Abort(e, cmd[e.c].op)
  <2>1. PICK op : op = cmd[e.c].op
    OBVIOUS
  <2>2. /\ UNCHANGED gone
        /\ \/ Answer(<<e>>, FALSE) /\ UNCHANGED <<lSQFIFO, twice>>
           \/ \E w : twice' = twice \union {w}
    <3>1. op \in Plans \union {IOCommand} /\ op.op = "abort" /\ Abort(e, op)
      BY <1>1, <1>11, <2>1
    <3> QED
      BY <1>1, <2>1, <3>1, AbortFact
  <2> QED
    BY <1>3, <1>5, <2>2
<1>12. CASE JustAnswer(e, cmd[e.c].op) \/ SetCoalescing(e, cmd[e.c].op)
  BY <1>5, <1>12 DEF JustAnswer, SetCoalescing
<1> QED
  BY <1>6, <1>7, <1>8, <1>9, <1>10, <1>11, <1>12 DEF Finish

(* A turn of the loop of completion meets no panic.                        *)
LEMMA TurnSafe ==
  ASSUME Good, CountInv, OutInv, LiveInv, ~Excuse, NEW s \in Rounds, NEW n \in Nat,
         RoundInv(s, n), s.bad = FALSE, n + 1 \in DOMAIN lCQFIFO
  PROVE  PostOne(s, lCQFIFO[n + 1]).bad = FALSE
<1>1. PICK e : e = lCQFIFO[n + 1]
  OBVIOUS
<1>2. e \in Entries /\ IsEntry(e)
  BY <1>1 DEF Good, FrontInv, EntryInv
<1>3. PICK q : q = e.cq
  OBVIOUS
<1>4. q \in Queues /\ cq[q].live
  BY <1>2, <1>3, AnswersLive DEF Entries
<1>5. gone = {} /\ twice = {}
  BY DEF Excuse
<1>6. Inc(s.cq[q].tail) # s.cq[q].head
  BY <1>1, <1>3, <1>4, <1>5, NoOverflow
<1>7. s.cq[q].live
  BY <1>4 DEF RoundInv, RoundQueues
<1>8. PostOne(s, e).bad = (s.bad \/ ~s.cq[q].live \/ Overflow(s.cq[q]))
  BY <1>3 DEF PostOne
<1> QED
  BY <1>1, <1>6, <1>7, <1>8 DEF Overflow

(* Posting answers.                                                        *)
LEMMA CompletionPanics ==
  ASSUME Good, CountInv, OutInv, LiveInv, Completion, ~broken, broken'
  PROVE  Excuse
<1>1. SUFFICES ASSUME ~Excuse PROVE FALSE
  OBVIOUS
<1>2. PICK open \in SUBSET {v \in Vectors : aggregation[v].valid /\ aggregation[v].timed} :
        broken' = Posted(open).bad
  BY DEF Completion
<1>3. open \in SUBSET Vectors /\ HostInv /\ EntryInv /\ BackInv
  BY <1>2 DEF Good, FrontInv
<1>4. PICK out : PostedBy(out, open)
  BY <1>3, PostedTurns
<1>5. PICK n \in Nat : n = Len(lCQFIFO) /\ DOMAIN lCQFIFO = 1..n
  BY <1>3 DEF EntryInv
<1>6. /\ Posted(open) = out[n] /\ out[0].bad = FALSE
      /\ \A k \in 1..n : out[k] = PostOne(out[k - 1], lCQFIFO[k])
      /\ \A k \in 0..n : out[k] \in Rounds /\ RoundInv(out[k], k)
  BY <1>4, <1>5 DEF PostedBy
<1> DEFINE G == {k \in 0..n : out[k].bad = FALSE}
<1>7. 0 \in G
  BY <1>6
<1>8. ASSUME NEW k \in 1..n, k - 1 \in G PROVE k \in G
  <2>1. PICK m \in Nat : m = k - 1 /\ k = m + 1
    OBVIOUS
  <2>2. PICK s : s = out[m]
    OBVIOUS
  <2>3. s \in Rounds /\ RoundInv(s, m) /\ s.bad = FALSE
    BY <1>6, <1>8, <2>1, <2>2
  <2>4. m + 1 \in DOMAIN lCQFIFO
    BY <1>5, <2>1
  <2>5. PostOne(s, lCQFIFO[m + 1]).bad = FALSE
    BY <1>1, <2>3, <2>4, TurnSafe
  <2>6. out[k] = PostOne(s, lCQFIFO[m + 1])
    BY <1>6, <2>1, <2>2
  <2> QED
    BY <2>5, <2>6
<1>9. 0..n \subseteq G
  <2> HIDE DEF G
  <2> QED
    BY <1>7, <1>8, UpTo
<1>10. out[n].bad = FALSE
  BY <1>9
<1> QED
  BY <1>2, <1>6, <1>10

(* Every panic is excused.                                                 *)
LEMMA PanicNext ==
  ASSUME Good, CountInv, OutInv, LiveInv, ~broken, [Next]_vars, broken'
  PROVE  Excuse'
<1>0. ASSUME UNCHANGED broken PROVE Excuse'
  BY <1>0
<1>1. ASSUME UNCHANGED <<cmd, gone, twice>>, Excuse PROVE Excuse'
  BY <1>1 DEF Excuse, Cmds
<1>2. CASE Host
  <2>1. UNCHANGED broken
    BY <1>2 DEF Host, SubmitIO, SubmitAdmin, Submit, Consume, WriteConfig, Refill
  <2> QED
    BY <1>0, <2>1
<1>3. CASE Work \/ Send \/ UNCHANGED vars
  <2>1. UNCHANGED broken
    BY <1>3 DEF Work, Send, vars
  <2> QED
    BY <1>0, <2>1
<1>4. ASSUME NEW b \in BOOLEAN, HandleRequest(b) PROVE Excuse'
  <2>1. UNCHANGED broken
    BY <1>4 DEF HandleRequest
  <2> QED
    BY <1>0, <2>1
<1>5. CASE ReadDone
  <2>1. UNCHANGED <<cmd, gone, twice>>
    BY <1>5 DEF ReadDone, hostVars, histVars
  <2> QED
    BY <1>1, <1>5, <2>1, ReadPanics
<1>6. ASSUME NEW e \in running, Finish(e) PROVE Excuse'
  BY <1>6, FinishPanics
<1>7. CASE Completion
  <2>1. UNCHANGED <<cmd, gone, twice>>
    BY <1>7 DEF Completion, hostVars, histVars
  <2> QED
    BY <1>1, <1>7, <2>1, CompletionPanics
<1>8. CASE PostDone
  <2>1. UNCHANGED <<cmd, gone, twice>>
    BY <1>8 DEF PostDone, hostVars, histVars
  <2> QED
    BY <1>1, <1>8, <2>1, PostPanics
<1> QED
  BY <1>2, <1>3, <1>4, <1>5, <1>6, <1>7, <1>8 DEF Next

(* What the absence of panics needs beside the counts.                     *)
LimitInv == (~broken => OutInv /\ LiveInv) /\ NoPanic

(* It holds when the behaviour begins.                                     *)
LEMMA InitLimit == Init => LimitInv
<1>1. SUFFICES ASSUME Init PROVE OutInv /\ LiveInv /\ ~broken
  BY DEF LimitInv, NoPanic
<1>2. ~broken /\ cmd = <<>>
  BY <1>1 DEF Init
<1>3. Len(cmd) = 0
  BY <1>2
<1>4. Cmds = {} /\ \A q : Outstanding(q) = {}
  BY <1>3 DEF Cmds, Outstanding
<1>5. OutInv
  <2>1. Cardinality({}) = 0
    BY FS_EmptySet
  <2>2. 0 <= QueueSize - 1
    BY ControllerAssumption
  <2> QED
    BY <1>4, <2>1, <2>2 DEF OutInv
<1>6. LiveInv
  <2>1. SUFFICES ASSUME NEW q \in Queues, sq[q].live PROVE cq[sq[q].cqID].live
    BY <1>4 DEF LiveInv
  <2>2. PICK p : sq[q] = UsedSQ(q, p)
    BY <1>1 DEF Init
  <2>3. sq[q].live = (q < 2) /\ sq[q].cqID = q
    BY <2>2 DEF UsedSQ, NewSQ
  <2>4. cq[q] = UsedCQ(q)
    BY <1>1 DEF Init
  <2>5. cq[q].live = (q < 2)
    BY <2>4 DEF UsedCQ, NewCQ
  <2> QED
    BY <2>1, <2>3, <2>5
<1> QED
  BY <1>2, <1>5, <1>6

(* A driver that keeps within its completion queues and deletes no queue   *)
(* never makes the controller run into the panic of a full completion      *)
(* queue or use a deleted queue, unless an abort answered a command from   *)
(* the deprecated FIFO (submit, completion and checkQueue of               *)
(* controller.cc, setData of queue.cc).                                    *)
THEOREM NoPanicAlways == ASSUME NumbersUsedOnce PROVE Spec => []NoPanic
<1>1. Init => LimitInv
  BY InitLimit
<1>2. CountedInv /\ LimitInv /\ [Next]_vars => LimitInv'
  <2>1. SUFFICES ASSUME CountedInv, LimitInv, [Next]_vars PROVE LimitInv'
    OBVIOUS
  <2>2. CASE broken
    <3>1. UNCHANGED vars
      BY <2>1, <2>2 DEF Next, Work, ReadDone, HandleRequest, Finish, Completion, PostDone, Send
    <3>2. UNCHANGED <<broken, gone, twice, cmd>>
      BY <3>1 DEF vars, hostVars, histVars
    <3> QED
      BY <2>1, <2>2, <3>2 DEF LimitInv, NoPanic
  <2>3. CASE ~broken
    <3>1. Good /\ CountInv /\ OutInv /\ LiveInv
      BY <2>1, <2>3 DEF CountedInv, LimitInv
    <3>2. CASE broken'
      <4>1. Excuse'
        BY <2>1, <2>3, <3>1, <3>2, PanicNext
      <4> QED
        BY <3>2, <4>1 DEF Excuse, Cmds, LimitInv, NoPanic
    <3>3. CASE ~broken'
      <4>1. OutInv' /\ LiveInv'
        BY <2>1, <3>1, <3>3, LimitNext
      <4> QED
        BY <3>3, <4>1 DEF LimitInv, NoPanic
    <3> QED
      BY <3>2, <3>3
  <2> QED
    BY <2>2, <2>3
<1>3. LimitInv => NoPanic
  BY DEF LimitInv
<1> QED
  BY <1>1, <1>2, <1>3, Counted, PTL DEF Spec

=============================================================================
