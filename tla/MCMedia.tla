------------------------------- MODULE MCMedia -------------------------------
(***************************************************************************)
(* What lies beside and below the FTL: the timelines of the flash (PAL)    *)
(* and in-storage computing over the file system (ISC).  A behaviour       *)
(* exercises one of the two; the variables of the other rest.              *)
(***************************************************************************)
EXTENDS Integers, Sequences, SequencesExt, FiniteSets, TLC

VARIABLES part,   \* "pal" or "isc"
          setup, served, channel, die, merged, booked, asserted,
          script, step, image, mem, lSlet, nextSletId, answer, rewritten

palVars == <<setup, served, channel, die, merged, booked, asserted>>
iscVars == <<script, step, image, mem, lSlet, nextSletId, answer, rewritten>>
vars == <<part, palVars, iscVars>>
-----------------------------------------------------------------------------
(* Flash: every geometry without requests, and four requests whose arrival *)
(* times are not in the order they are served in.                          *)

MCSize == [channel |-> 2, package |-> 1, die |-> 2, plane |-> 2, block |-> 2, page |-> 2]
L(a, m, b) == [dma0 |-> a, mem |-> m, dma1 |-> b]
MCLatency == [read |-> (0 :> L(1, 2, 2) @@ 1 :> L(1, 3, 2)),
              write |-> (0 :> L(2, 3, 1) @@ 1 :> L(2, 5, 1)),
              erase |-> (0 :> L(1, 6, 1) @@ 1 :> L(1, 6, 1))]
R(o, b, p, f, t) == [op |-> o, block |-> b, page |-> p, flags |-> f, arrived |-> t]
Forward == <<"channel", "package", "die", "plane">>
Setup(s, o, m, rs) == [super |-> s, order |-> o, multi |-> m, requests |-> rs]
MCWorkloads ==
  {Setup(s, o, m, <<>>) :
     s \in SUBSET {"channel", "package", "die", "plane"},
     o \in {Forward, <<"plane", "die", "package", "channel">>}, m \in BOOLEAN}
  \cup {Setup({"channel"}, Forward, TRUE, rs) :
          rs \in {<<R(o1, 0, 0, {0}, 0), R(o2, b2, p2, {0}, t2), R(o3, b3, 0, f3, t3),
                    R("read", 0, 0, {0}, t4)>> :
                    o1, o2, o3 \in {"read", "write", "erase"}, b2, b3 \in {0, 1},
                    p2 \in {0, 1}, f3 \in {{0}, {0, 1}},
                    t2 \in {0, 3}, t3 \in {0, 4}, t4 \in {1, 6}}}
-----------------------------------------------------------------------------
(* Images of a file system; a block holds four elements. *)

At(k, b, n) == [block |-> k, slbn |-> b, len |-> n]
X(b, n) == At(0, b, n)
Leaf(exts) == [kids |-> <<>>, exts |-> exts]
File(exts, n) == [extents |-> TRUE, index |-> FALSE, bytes |-> n, root |-> Leaf(exts)]
E(i, n, t) == [ino |-> i, name |-> n, type |-> t]
EndOf == E(0, "", "tail")
Nothing == [extents |-> FALSE, index |-> FALSE, bytes |-> 0, root |-> Leaf(<<>>)]
Table(f) == f @@ [i \in 1..12 |-> Nothing]
Live(block) == SelectSeq(block, LAMBDA e : e.ino # 0)

RootDir(f) == <<E(2, "..", "dir"), E(3, "a", "dir"), E(4, "b", "dir"), E(f, "f", "reg"), EndOf>>
DirA == <<E(2, "..", "dir"), E(6, "f", "reg"), E(7, "x", "link"), EndOf>>
DirB == <<E(0, "f", "reg"), E(8, "f", "reg"), E(0, "g", "reg"), EndOf>>
Tree(f) ==
  [inode |-> Table(2 :> File(<<X(10, 1)>>, 4) @@ 3 :> File(<<X(11, 1)>>, 4)
               @@ 4 :> File(<<X(12, 1)>>, 4) @@ 5 :> File(<<X(20, 1)>>, 3)
               @@ 6 :> File(<<X(21, 2)>>, 7)
               @@ 8 :> [File(<<>>, 6) EXCEPT !.root.kids = <<30, 31>>]),
   block |-> 10 :> RootDir(f) @@ 11 :> DirA @@ 12 :> DirB @@ 20 :> <<1, 2, 3, 0>>
               @@ 21 :> <<4, 5, 6, 7>> @@ 22 :> <<8, 9, 10, 0>> @@ 23 :> <<11, 12, 13, 14>>
               @@ 24 :> <<15, 16, 0, 0>> @@ 30 :> Leaf(<<X(23, 1)>>) @@ 31 :> Leaf(<<At(1, 24, 1)>>)
               @@ (0 - 1) :> <<E(9, "f", "reg"), EndOf>>,
   dirs  |-> {2, 3, 4},
   holds |-> 2 :> Live(RootDir(f)) @@ 3 :> Live(DirA) @@ 4 :> Live(DirB)
               @@ 5 :> <<1, 2, 3>> @@ 6 :> <<4, 5, 6, 7, 8, 9, 10>>
               @@ 8 :> <<11, 12, 13, 14, 15, 16>>]

(* A directory of three blocks in two extents, the first of two blocks,    *)
(* and one with an index.                                                  *)
Spread ==
  [Tree(5) EXCEPT
     !.inode = (3 :> File(<<X(13, 2), At(2, 11, 1)>>, 12)
                  @@ 4 :> [File(<<X(12, 1)>>, 4) EXCEPT !.index = TRUE]) @@ @,
     !.block = (13 :> <<E(2, "..", "dir"), EndOf>> @@ 14 :> <<E(5, "y", "reg"), EndOf>>) @@ @,
     !.holds = (3 :> <<E(2, "..", "dir"), E(5, "y", "reg")>> \o Live(DirA)) @@ @]

Ex(p) == [op |-> "exts", path |-> p]
In(i) == [op |-> "inode", ino |-> i]
Lookups == {Ex(<<"f">>), Ex(<<"a", "f">>), Ex(<<"b", "f">>), Ex(<<"a", "..", "b", ".", "f">>),
            Ex(<<"a", "z">>), Ex(<<"a", "x">>), Ex(<<"b", "g">>)} \cup {In(i) : i \in 4..6}
S(i, s) == [image |-> i, steps |-> s]
Finding ==
  {S(Tree(5), <<Lookups, Lookups, Lookups, Lookups>>),
   S(Tree(5), <<{In(5)}, {In(6)}, {In(7), Ex(<<"f">>)}, {In(8)}, {In(9)}, {In(10)}, {In(11)}>>),
   S(Tree(5), <<Lookups, {[op |-> "host", image |-> Tree(6)]}, Lookups>>),
   S(Spread, <<{Ex(<<"a", "y">>), Ex(<<"b", "f">>), Ex(<<"a", "f">>)}, Lookups, Lookups>>)}

(* Slets: one is added, given its options, started and asked for its       *)
(* result.  The only file, or two of them, have a given content.           *)
Pad(t) == t \o [i \in 1..(8 - Len(t)) |-> 0]
Holding(t, u, dir) ==
  [inode |-> Table(2 :> File(<<X(10, 1)>>, 4) @@ 3 :> File(<<X(11, 1), At(1, 12, 1)>>, 8)
               @@ 4 :> File(<<>>, 0)
               @@ 5 :> File(<<X(20, 1), At(1, 25, 1)>>, Len(t)) @@ 6 :> File(<<X(22, 2)>>, Len(u))),
   block |-> 10 :> <<E(3, "d", "dir"), E(5, "f", "reg")>> @@ 11 :> dir[1] @@ 12 :> dir[2]
               @@ 20 :> SubSeq(Pad(t), 1, 4) @@ 25 :> SubSeq(Pad(t), 5, 8)
               @@ 22 :> SubSeq(Pad(u), 1, 4) @@ 23 :> SubSeq(Pad(u), 5, 8),
   dirs  |-> {2, 3},
   holds |-> 2 :> <<E(3, "d", "dir"), E(5, "f", "reg")>> @@ 3 :> Live(dir[1] \o dir[2])
               @@ 4 :> <<>> @@ 5 :> t @@ 6 :> u]
Add(k) == {[op |-> "add", kind |-> k]}
Set(k, v) == {[op |-> "set", id |-> 1, key |-> k, value |-> v]}
Start == {[op |-> "start", id |-> 1]}
Get == {[op |-> "get", id |-> 1]}
Run(k, path, key, v) == <<Add(k), Set("path", path), Set(key, v), Start, Get>>
PF == [names |-> <<"f">>, slash |-> FALSE]
PD == [names |-> <<"d">>, slash |-> TRUE]
Plain == <<<<E(5, "g", "reg"), E(4, "s", "dir"), E(6, "h", "reg"), EndOf>>, <<EndOf>>>>
Tailed == <<<<E(5, "g", "reg"), EndOf>>, <<E(4, "s", "dir"), E(6, "h", "reg"), EndOf>>>>
Linked == <<<<E(5, "g", "reg"), E(7, "l", "link"), EndOf>>, <<E(6, "h", "reg"), EndOf>>>>
Holed == <<<<E(5, "g", "reg"), E(0, "o", "reg"), EndOf>>, <<E(6, "h", "reg"), EndOf>>>>
Dirs == {Plain, Tailed, Linked, Holed}

a == 97
b == 98
Texts(n, c) == UNION {[1..k -> c] : k \in 0..n}
Greps ==
  {S(Holding(t, <<>>, Plain), Run("grep", PF, "pattern", p)) :
     t \in Texts(4, {a, b, 10}) \cup Texts(6, {a, b}),
     p \in {<<a, b>>, <<a, a>>, <<b, a, b>>, <<a, 10>>}}
  \cup {S(Holding(<<200, a>>, <<>>, Plain), Run("grep", PF, "pattern", <<200>>))}
  \cup {S(Holding(<<a, 10, a, b>>, <<b, a, b, 10, b>>, d), Run("grep", PD, "pattern", <<a, b>>)) :
          d \in Dirs}
Sums ==
  {S(Holding(t, <<>>, Plain), Run("md5", PF, "name", "md5")) : t \in Texts(7, {7})}
  \cup {S(Holding(t, <<>>, Plain), Run(k, PF, "name", k)) :
          t \in Texts(3, {0 - 2, 0, 3}), k \in {"stats32", "stats64"}}
  \cup {S(Holding(<<1, 2, 3>>, <<4, 5>>, d), Run(k, PD, "name", k)) :
          d \in Dirs, k \in {"md5", "stats32", "stats64", "listdir", "statdir"}}
  \cup {S(Tree(5), Run("listdir", p, "name", "listdir")) :
          p \in {PD, [names |-> <<"a">>, slash |-> TRUE]}}
Reads ==
  {S(Tree(5), Run("seqread", [names |-> p, slash |-> FALSE], "name", "seqread")) :
     p \in {<<"b", "f">>, <<"a", "f">>, <<"a", "x">>, <<"q">>}}
  \cup {S(Tree(5), <<Add("randread"), Set("path", [names |-> <<"b", "f">>, slash |-> FALSE]),
                     Set("conf", 2), Set("offsets", o), Start, Get>>) :
          o \in {<<x, y>> : x, y \in 0..5}}

(* Files the kernels do not read whole: with a hole, not written, and of   *)
(* sizes an int of 32 values cannot hold; the other file is as it should   *)
(* be.                                                                     *)
Odd(exts, n, held) ==
  [Holding(<<>>, <<1, 2, a, b, 3>>, Plain) EXCEPT
     !.inode = (5 :> File(exts, n)) @@ @,
     !.block = [x \in 30..37 |-> <<a, b, 10, 7>>] @@ @, !.holds = (5 :> held) @@ @]
Large(n) == Odd([k \in 1..(n \div 2) |-> At(2 * k - 2, 28 + 2 * k, 2)], 4 * n,
                FlattenSeq([k \in 1..n |-> <<a, b, 10, 7>>]))
Odds ==
  {Odd(<<X(30, 1), At(2, 31, 1)>>, 11, <<a, b, 10, 7, 0, 0, 0, 0, a, b, 10>>),
   Odd(<<X(30, 3)>>, 3, <<0, 0, 0>>)} \cup {Large(n) : n \in {2, 4, 8}}
PG == [names |-> <<"d", "h">>, slash |-> FALSE]
Kernels == {"grep", "md5", "stats32", "stats64"}
Unwhole ==
  {S(i, <<Add(k), Set("path", PG), Set("pattern", <<a, b>>), Start, Set("path", p), Start, Get>>) :
     i \in Odds, k \in Kernels, p \in {PF, PD}}
  \cup {S(i, Run("seqread", PF, "name", "seqread")) : i \in Odds}
  \cup {S(Holding(<<a>>, <<b>>, <<<<E(7, "l", "link"), EndOf>>, <<EndOf>>>>),
          Run("grep", PD, "pattern", <<a>>))}

(* Without the reader, and slets that come and go. *)
Given == [k \in 1..2 |-> [exts |-> <<X(20, 1), At(1, 25, 1)>>, bytes |-> 4 + k]]
Others ==
  {S(Holding([k \in 1..6 |-> k], <<>>, Plain),
     <<Add("md5"), Set("path", PF), Set("exts", Given), Start, Get>>),
   S(Holding(<<a, b>>, <<b>>, Plain),
     <<Add("stats32"), Add("grep"), Start \cup Set("path", PF), Start, Set("path", PD) \cup Get,
       Start \cup {[op |-> "del", id |-> 1]}, Start \cup Set("path", PF), Get, Get>>)}
MCScripts == Finding \cup Greps \cup Sums \cup Reads \cup Unwhole \cup Others
-----------------------------------------------------------------------------
P == INSTANCE PAL WITH Size <- MCSize, ChClasses <- {1, 2, 3}, DieClasses <- {3, 5, 8},
       Latency <- MCLatency, Workloads <- MCWorkloads
I == INSTANCE ISC WITH NameiCapacity <- 3, InodeCapacity <- 2, PrefetchThreshold <- 2,
       PrefetchNum <- 3, InodesPerGroup <- 4, Groups <- 3, Chunk <- 4, LengthSize <- 2,
       Wide <- 32, ExtentMax <- 2, Scripts <- MCScripts

Init ==
  \/ /\ part = "pal" /\ P!Init
     /\ script = <<>> /\ step = 0 /\ image = <<>> /\ mem = <<>> /\ lSlet = <<>>
     /\ nextSletId = 0 /\ answer = <<>> /\ rewritten = FALSE
  \/ /\ part = "isc" /\ I!Init
     /\ setup = <<>> /\ served = 0 /\ channel = <<>> /\ die = <<>> /\ merged = <<>>
     /\ booked = <<>> /\ asserted = FALSE

PAL == part = "pal" /\ P!Next /\ UNCHANGED <<part, iscVars>>
ISC == part = "isc" /\ I!Next /\ UNCHANGED <<part, palVars>>
Next == PAL \/ ISC
Spec == Init /\ [][Next]_vars
-----------------------------------------------------------------------------
(* No two transfers hold a channel at once and no two operations a die,    *)
(* and each holds its die from its first transfer to its last              *)
(* (PAL2::TimelineScheduling), whatever the order of arrival.              *)
Exclusive == part = "pal" => P!Exclusive /\ P!HeldThroughout

(* Every page of every superpage has a physical page of its own, and       *)
(* between them they fill the device (PALOLD::convertCPDPBP).              *)
AddressesDistinct == part = "pal" => P!AddressesDistinct

(* Lookups find what the host stored under a path, whatever is in the      *)
(* caches (Ext4::namei, getInode and getExtent).                           *)
LookupsRight == part = "isc" => I!LookupsRight

(* A slet's result is what the host would compute from the same files      *)
(* (builtin_startup of the slets).                                         *)
KernelsRight == part = "isc" => I!KernelsRight
=============================================================================
