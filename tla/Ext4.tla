-------------------------------- MODULE Ext4 --------------------------------
(***************************************************************************)
(* The ext4 reader of in-storage computing (isc/fs/ext4/ext4.cc) and the   *)
(* LRU regions of its DRAM (isc/sims/dram.cc).                             *)
(*                                                                         *)
(* An image is what the host's file system (external) put on the flash:    *)
(*   inode[i]  [extents, index, bytes, root] for every slot of the tables  *)
(*   block[b]  entries of a directory, a node of an extent tree or data    *)
(* A node is [kids, exts]: the blocks of the nodes below, or a leaf's      *)
(* extents [block, slbn, len]: the block of the file they begin at, where  *)
(* they lie, and ee_len as it is recorded, above the longest written       *)
(* extent for one that was not written.  A directory entry is [ino, name,  *)
(* type].                                                                  *)
(*                                                                         *)
(* mem is what the reader keeps: [names, inodes, last, contig, broken].    *)
(* broken says that an assertion failed or that behaviour is undefined.    *)
(***************************************************************************)
EXTENDS Integers, Sequences, FiniteSets, SequencesExt

CONSTANTS
  NameiCapacity,       \* entries of NameiCache
  InodeCapacity,       \* entries of lruInoCache
  PrefetchThreshold,   \* INODE_PREFETCH_THRESHOLD
  PrefetchNum,         \* INODE_PREFETCH_NUM
  InodesPerGroup,      \* s_inodes_per_group
  Groups               \* nrGrps

ERROR_INO == 0
ROOT_INO == 2
-----------------------------------------------------------------------------
(* LRURegion: the most recently used entry first. *)

Holds(c, key) == \E i \in DOMAIN c : c[i].key = key
Value(c, key) == c[CHOOSE i \in DOMAIN c : c[i].key = key].val
Without(c, key) == SelectSeq(c, LAMBDA e : e.key # key)

LRURead(c, key) == <<[key |-> key, val |-> Value(c, key)]>> \o Without(c, key)
LRUWrite(c, key, val, n) ==
  LET rest == IF Holds(c, key) THEN Without(c, key)
              ELSE IF Len(c) = n THEN Front(c) ELSE c
  IN <<[key |-> key, val |-> val]>> \o rest
-----------------------------------------------------------------------------
(* Inodes. *)

Mounted == [names |-> <<>>, inodes |-> <<>>, last |-> 0, contig |-> 0,
            broken |-> FALSE]
NoInode == [extents |-> FALSE, index |-> FALSE, bytes |-> 0,
            root |-> [kids |-> <<>>, exts |-> <<>>]]

(* getGrpDesc asserts that there is such a group. *)
getGrpDesc(i) == (i - 1) \div InodesPerGroup < Groups

(* getInode's doit: the cache, or else the table of the inode's group. *)
Fetch(img, mem, i) ==
  CASE i = ERROR_INO -> mem
    [] i # ERROR_INO /\ Holds(mem.inodes, i) ->
         [mem EXCEPT !.inodes = LRURead(@, i)]
    [] i # ERROR_INO /\ ~Holds(mem.inodes, i) /\ getGrpDesc(i) ->
         [mem EXCEPT !.inodes = LRUWrite(@, i, img.inode[i], InodeCapacity)]
    [] OTHER -> [mem EXCEPT !.broken = TRUE]

(* getInode: after a number of inodes in a row the next ones are fetched   *)
(* as well.                                                                *)
getInode(img, mem, i) ==
  LET got  == Fetch(img, mem, i)
      run  == IF i # mem.last + 1 \/ mem.contig + 1 >= PrefetchNum THEN 0
              ELSE mem.contig + 1
      more == IF i = mem.last + 1 /\ run = PrefetchThreshold
              THEN FoldLeft(LAMBDA m, k : Fetch(img, m, i + k), got,
                            [k \in 1..PrefetchNum |-> k])
              ELSE got
  IN [mem |-> [more EXCEPT !.last = i, !.contig = run],
      inode |-> IF Holds(got.inodes, i) THEN Value(got.inodes, i) ELSE NoInode]
-----------------------------------------------------------------------------
(* Extents. *)

(* calcExtentSize and extractExtents walk the tree depth first. *)
RECURSIVE calcExtentSize(_, _)
calcExtentSize(img, node) ==
  IF node.kids = <<>> THEN Len(node.exts)
  ELSE FoldLeft(LAMBDA n, b : n + calcExtentSize(img, img.block[b]), 0, node.kids)

RECURSIVE extractExtents(_, _)
extractExtents(img, node) ==
  IF node.kids = <<>> THEN node.exts
  ELSE FoldLeft(LAMBDA el, b : el \o extractExtents(img, img.block[b]),
                <<>>, node.kids)

(* getExtent: the list is sized first and filled then; there is no inode 0 *)
(* to look into.                                                           *)
ExtentsOf(img, i, g) ==
  LET root == g.inode.root
      exts == IF g.inode.extents THEN extractExtents(img, root) ELSE <<>>
      fits == g.inode.extents => Len(exts) = calcExtentSize(img, root)
  IN [mem |-> [g.mem EXCEPT !.broken = @ \/ i = ERROR_INO \/ ~fits],
      ok |-> g.inode.extents, exts |-> exts, inode |-> g.inode]
getExtent(img, mem, i) == ExtentsOf(img, i, getInode(img, mem, i))

(* The blocks of a list, one after the other: no caller asks for the block *)
(* of the file an extent begins at, or whether it was written.             *)
Blocks(exts) ==
  FlattenSeq([i \in DOMAIN exts |-> [k \in 1..exts[i].len |-> exts[i].slbn + k - 1]])
-----------------------------------------------------------------------------
(* Directories. *)

(* dirSearchFile puts extent ie at block ie of its buffer, however long    *)
(* the extents before it are: what a later extent covers is lost, and at   *)
(* the end stays what the memory held before (junk).                       *)
Placed(img, exts, junk) ==
  [p \in 1..Len(Blocks(exts)) |->
     LET over == {i \in DOMAIN exts : i <= p /\ p < i + exts[i].len} IN
     IF over = {} THEN junk
     ELSE LET i == CHOOSE k \in over : \A j \in over : j <= k
          IN img.block[exts[i].slbn + p - i]]

(* The entries of a buffer up to one that ends the scan. *)
UpTo(entries, stop(_)) ==
  SubSeq(entries, 1, Len(entries)
           - (IF \E i \in DOMAIN entries : stop(entries[i])
              THEN Len(entries) + 1 -
                   (CHOOSE i \in DOMAIN entries :
                      stop(entries[i]) /\ \A k \in 1..(i - 1) : ~stop(entries[k]))
              ELSE 0))

(* A name is cached under its directory. *)
KeyOfName(dir, name) == <<0, name>>
Key(dir, name) == <<dir, name>>

(* dirSearchFile looks into the cache first.  Otherwise every entry of the *)
(* buffer goes to the cache, and the last one with the name is the answer. *)
(* A directory with an index is not searched.                              *)
Scanned(img, dir, name, junk, x) ==
  LET list == IF x.inode.index THEN <<>>
              ELSE UpTo(FlattenSeq(Placed(img, x.exts, junk)), LAMBDA e : e.type = "end")
      hits == SelectSeq(list, LAMBDA e : e.name = name)
  IN IF ~x.ok THEN [mem |-> x.mem, ino |-> ERROR_INO]
     ELSE [mem |-> [x.mem EXCEPT
                      !.names = FoldLeft(LAMBDA c, e :
                                  LRUWrite(c, Key(dir, e.name), e.ino, NameiCapacity),
                                  @, list),
                      !.broken = @ \/ x.exts = <<>>],
           ino |-> IF hits = <<>> THEN ERROR_INO ELSE Last(hits).ino]
dirSearchFile(img, mem, dir, name, junk) ==
  IF Holds(mem.names, Key(dir, name))
  THEN [mem |-> [mem EXCEPT !.names = LRURead(@, Key(dir, name))],
        ino |-> Value(mem.names, Key(dir, name))]
  ELSE Scanned(img, dir, name, junk, getExtent(img, mem, dir))

(* namei: every path is taken from the root; ".." is an entry like others, *)
(* as the branch for it asks for a component both shorter than two and two *)
(* characters long.                                                        *)
namei(img, mem, path, junk) ==
  FoldLeft(LAMBDA s, name :
             IF s.ino = ERROR_INO \/ name = "." \/ s.mem.broken THEN s
             ELSE dirSearchFile(img, s.mem, s.ino, name, junk),
           [mem |-> mem, ino |-> ROOT_INO], path)

(* builtin_getExt: the size of a file without extents is what the stack    *)
(* held before (-1).                                                       *)
Sized(x) == [mem |-> x.mem, ok |-> x.ok, exts |-> x.exts,
             bytes |-> IF x.ok THEN x.inode.bytes ELSE -1]
ExtOf(img, n) ==
  IF n.ino = ERROR_INO \/ n.mem.broken
  THEN [mem |-> n.mem, ok |-> FALSE, exts |-> <<>>, bytes |-> 0]
  ELSE Sized(getExtent(img, n.mem, n.ino))
builtin_getExt(img, mem, path, junk) == ExtOf(img, namei(img, mem, path, junk))
=============================================================================
