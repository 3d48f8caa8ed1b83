-------------------------------- MODULE ISC --------------------------------
(***************************************************************************)
(* In-storage computing: the runtime with its slets and their options      *)
(* (isc/runtime.cc, isc/slet/slet.cc) and the kernels of isc/slet over the *)
(* ext4 reader.                                                            *)
(*                                                                         *)
(* A behaviour performs one operation of each set of a script.  A path is  *)
(* [names, slash]; slash says that it ends in one.  The elements of a data *)
(* block are bytes or, for the statistics, integers, and the size of a     *)
(* file counts them.                                                       *)
(***************************************************************************)
EXTENDS Ext4

CONSTANTS
  Chunk,       \* bytes of an MD5 block, 64
  LengthSize,  \* bytes of the length at its end, 8
  Wide,        \* the elements of 2^32 bytes
  ExtentMax,   \* blocks of the longest written extent, 32768
  Scripts      \* of [image, steps]

VARIABLES
  script,      \* the script of this behaviour
  step,        \* how many of its operations were performed
  image,       \* the file system on the flash
  mem,         \* what the reader keeps
  lSlet,       \* the slets: [id, kind, opt]; ran (history): opt at the last start
  nextSletId,
  answer,      \* what the last operation answered
  rewritten    \* history: the host changed the file system after the mount

vars == <<script, step, image, mem, lSlet, nextSletId, answer, rewritten>>

End == [ino |-> 0, name |-> "", type |-> "end"]
None == [what |-> "none"]
Path(opt) == opt.path.names
Sub(names, name) == IF name = "" THEN names ELSE Append(names, name)
Data(img, exts) == FlattenSeq([i \in DOMAIN Blocks(exts) |-> img.block[Blocks(exts)[i]]])
Lesser(a, b) == IF a < b THEN a ELSE b
Greater(a, b) == IF a > b THEN a ELSE b
-----------------------------------------------------------------------------
(* grep. *)

NewLine == 10
Signed(c) == IF c > 127 THEN c - 256 ELSE c

(* The last place of a character in the pattern, -1 if there is none. *)
badChar(pat, c) ==
  LET at == {i \in DOMAIN pat : pat[i] = c} IN
  IF at = {} THEN -1 ELSE (CHOOSE i \in at : \A k \in at : k <= i) - 1

(* strstr from an offset: characters of the pattern are signed, those of   *)
(* the text are not.                                                       *)
Shift(pat, bad, c) == Greater(1, bad - badChar(pat, c))
RECURSIVE strstr(_, _, _)
strstr(src, pat, shift) ==
  LET differ == {i \in DOMAIN pat : Signed(pat[i]) # src[shift + i]}
      bad    == CHOOSE i \in differ : \A k \in differ : k <= i
  IN CASE shift > Len(src) - Len(pat) -> -1
       [] shift <= Len(src) - Len(pat) /\ differ = {} -> shift
       [] OTHER -> strstr(src, pat, shift + Shift(pat, bad - 1, src[shift + bad]))

(* grep: the line around the first match.  Without a match it begins one   *)
(* byte before the file (-1), and for a file shorter than the pattern the  *)
(* length of the answer is not set.  A kernel takes the size n for the     *)
(* file's, however much of it the buffer holds.                            *)
grep(buf, n, pat) ==
  LET src   == SubSeq(buf, 1, Lesser(n, Len(buf)))
      ofs   == strstr(src, pat, 0)
      byte  == [i \in -1..(Len(src) - 1) |-> IF i < 0 THEN -1 ELSE src[i + 1]]
      first == CHOOSE b \in -1..ofs :
                 /\ b = ofs \/ \A k \in b..(ofs - 1) : byte[k] # NewLine
                 /\ b <= 0 => (b = 0 \/ ofs = -1)
                 /\ b > 0 => byte[b - 1] = NewLine
      end   == CHOOSE e \in (ofs + Len(pat))..Len(src) :
                 /\ e = Len(src) \/ byte[e] = NewLine
                 /\ \A k \in (ofs + Len(pat))..(e - 1) : byte[k] # NewLine
  IN IF n < Len(pat) \/ (n > Len(buf) /\ (ofs = -1 \/ end = Len(src)))
     THEN [broken |-> TRUE, out |-> <<>>]
     ELSE [broken |-> FALSE, out |-> [i \in 1..(end - first) |-> byte[first + i - 1]]]
-----------------------------------------------------------------------------
(* md5: MD5Transform is called for each block of ctx.blocks. *)

MD5Update(ctx, in) ==
  LET part == Chunk - Len(ctx.pending)
      full == IF Len(in) < part THEN 0 ELSE (Len(in) - part) \div Chunk
  IN IF Len(in) < part
     THEN [ctx EXCEPT !.pending = @ \o in, !.count = @ + Len(in)]
     ELSE [count |-> ctx.count + Len(in),
           pending |-> SubSeq(in, part + full * Chunk + 1, Len(in)),
           blocks |-> Append(ctx.blocks, ctx.pending \o SubSeq(in, 1, part))
                        \o [k \in 1..full |->
                              SubSeq(in, part + (k - 1) * Chunk + 1, part + k * Chunk)]]

Encode(n) == [i \in 1..LengthSize |-> (n \div (256^(i - 1))) % 256]
PadLenEqual(index) == IF index <= Chunk - LengthSize THEN (Chunk - LengthSize) - index
                      ELSE (2 * Chunk - LengthSize) - index
PadLen(index) == IF index < Chunk - LengthSize THEN (Chunk - LengthSize) - index
                 ELSE (2 * Chunk - LengthSize) - index

(* The size of the input is a uint32_t. *)
md5sum(in, n) ==
  LET data == MD5Update([count |-> 0, pending |-> <<>>, blocks |-> <<>>],
                        SubSeq(in, 1, n % Wide))
      pad  == [i \in 1..PadLen(data.count % Chunk) |-> IF i = 1 THEN 128 ELSE 0]
  IN IF n % Wide > Len(in) THEN [broken |-> TRUE, out |-> <<>>]
     ELSE [broken |-> FALSE,
           out |-> MD5Update(MD5Update(data, pad), Encode(8 * data.count)).blocks]
-----------------------------------------------------------------------------
(* Stats32APP::sum and Stats64APP::sum: the result begins with zeros. *)

sum(src, n) ==
  [broken |-> n > Len(src),
   out |-> FoldLeft(LAMBDA r, x : [sum |-> r.sum + x, max |-> Greater(r.max, x),
                                   min |-> Lesser(r.min, x)],
                    [sum |-> 0, max |-> 0, min |-> 0], SubSeq(src, 1, Lesser(n, Len(src))))]
-----------------------------------------------------------------------------
(* The kernels over one or many files. *)

(* First pass: the entries that are no directories, up to an unused one. *)
Counted(entries) ==
  Len(SelectSeq(UpTo(entries, LAMBDA e : e.ino = 0 /\ e.type # "tail"),
                LAMBDA e : e.ino # 0 /\ e.type # "dir"))

(* Second pass: the next entry that is a file for the kernel.  When there  *)
(* is none the path stays what it was, at first empty (not named).         *)
NextFile(s, entries, keep(_), dir) ==
  LET rest == {i \in DOMAIN entries : i >= s.pos /\ keep(entries[i])} IN
  IF rest = {} THEN [s EXCEPT !.pos = Len(entries) + 1]
  ELSE LET i == CHOOSE k \in rest : \A j \in rest : k <= j
       IN [s EXCEPT !.pos = i + 1, !.path = Sub(dir, entries[i].name), !.named = TRUE]

(* szBufFile is an int: half of the sizes it cannot hold come out negative *)
(* and cannot be allocated, the others too small for the data.             *)
szBufFile(data) ==
  LET n == Len(data) % Wide IN IF 2 * n < Wide THEN n ELSE n - Wide

(* Read a file and work on it; the bytes of the directory itself (own) are *)
(* worked on like those of any file.                                       *)
Perform(img, s, x, own, work(_, _)) ==
  LET data == Data(img, x.exts)
      w    == IF x.exts # <<>> /\ x.exts = own THEN [broken |-> FALSE, out |-> <<"entries">>]
              ELSE work(data, x.bytes)
  IN CASE s.failed \/ s.mem.broken -> s
       [] ~s.failed /\ ~s.mem.broken /\ szBufFile(data) < 0 ->
            [s EXCEPT !.mem = x.mem, !.failed = TRUE]
       [] OTHER ->
            IF x.mem.broken \/ x.bytes < 0 \/ szBufFile(data) < Len(data)
            THEN [s EXCEPT !.mem.broken = TRUE]
            ELSE [s EXCEPT !.mem = [x.mem EXCEPT !.broken = w.broken],
                           !.out = Append(@, w.out)]

(* builtin_startup of the kernels: the host gives the extents itself       *)
(* (nofsa), a directory or a file.  There is no file system under "".      *)
Fresh(m) == [mem |-> m, pos |-> 1, path |-> <<>>, named |-> FALSE, failed |-> FALSE,
             out |-> <<>>]
OneFile(img, s, junk, own, work(_, _)) ==
  Perform(img, s,
          IF s.named THEN builtin_getExt(img, s.mem, s.path, junk)
          ELSE [mem |-> s.mem, ok |-> FALSE, exts |-> <<>>, bytes |-> 0],
          own, work)
EachFile(img, dir, opt, junk, keep(_), work(_, _)) ==
  LET list == Data(img, dir.exts)
  IN FoldLeft(LAMBDA s, i : OneFile(img, NextFile(s, list, keep, Path(opt)), junk, dir.exts, work),
              Fresh(dir.mem), [i \in 1..Counted(list) |-> i])
Startup(img, m, opt, junk, keep(_), work(_, _)) ==
  CASE "exts" \in DOMAIN opt ->
         FoldLeft(LAMBDA s, x : Perform(img, s, [mem |-> s.mem] @@ x, <<>>, work),
                  Fresh(m), opt.exts)
    [] "exts" \notin DOMAIN opt /\ opt.path.slash ->
         EachFile(img, builtin_getExt(img, m, Path(opt), junk), opt, junk, keep, work)
    [] OTHER -> OneFile(img, [Fresh(m) EXCEPT !.path = Path(opt), !.named = TRUE], junk, <<>>, work)

GrepAPP(img, m, opt, junk) ==
  Startup(img, m, opt, junk, LAMBDA e : e.type = "reg",
          LAMBDA src, n : grep(src, n, opt.pattern))
MD5APP(img, m, opt, junk) ==
  Startup(img, m, opt, junk, LAMBDA e : e.type # "dir", md5sum)
Stats32APP(img, m, opt, junk) ==
  Startup(img, m, opt, junk, LAMBDA e : e.type # "dir", sum)
Stats64APP(img, m, opt, junk) ==
  Startup(img, m, opt, junk, LAMBDA e : e.type # "dir", sum)
-----------------------------------------------------------------------------
(* The other slets; the two that read a file fail when it is not found.    *)

WholeFile(img, x) == [mem |-> x.mem, failed |-> ~x.ok, out |-> Data(img, x.exts)]
SeqReadAPP(img, m, opt, junk) == WholeFile(img, builtin_getExt(img, m, Path(opt), junk))

(* RandReadAPP: "want" elements at distance "dist", extent by extent. *)
RECURSIVE ReadAt(_, _, _, _)
ReadAt(img, exts, dist, want) ==
  LET data == Data(img, <<Head(exts)>>)
      len  == Lesser(Len(data) - dist, want)
  IN CASE exts = <<>> -> <<>>
       [] exts # <<>> /\ dist >= Len(data) ->
            ReadAt(img, Tail(exts), dist - Len(data), want)
       [] OTHER -> SubSeq(data, dist + 1, dist + len)
                     \o (IF len = want THEN <<>>
                         ELSE ReadAt(img, Tail(exts), 0, want - len))
AtOffsets(img, opt, x) ==
  LET past == \E i \in DOMAIN opt.offsets :
                opt.offsets[i] + opt.conf > Len(Data(img, x.exts))
  IN [mem |-> [x.mem EXCEPT !.broken = @ \/ (x.ok /\ past)], failed |-> ~x.ok,
      out |-> FlattenSeq([i \in DOMAIN opt.offsets |->
                            ReadAt(img, x.exts, opt.offsets[i], opt.conf)])]
RandReadAPP(img, m, opt, junk) == AtOffsets(img, opt, builtin_getExt(img, m, Path(opt), junk))

EntriesOf(img, x) ==
  [mem |-> x.mem, failed |-> FALSE, out |-> FlattenSeq(Placed(img, x.exts, <<End>>))]
ListdirAPP(img, m, opt, junk) == EntriesOf(img, builtin_getExt(img, m, Path(opt), junk))

(* StatdirAPP: inodeFilter steps over one tail after each entry, and any   *)
(* other unused entry is its last.  Of a size it takes the lower 32 bits.  *)
Walked(list) ==
  LET over(i) == list[i].type = "tail" /\ i > 1 /\ list[i - 1].ino # 0
      stops   == {i \in DOMAIN list : list[i].ino = 0 /\ ~over(i)}
      end     == CHOOSE i \in stops \union {Len(list) + 1} : \A k \in stops : i <= k
  IN SelectSeq(SubSeq(list, 1, end - 1), LAMBDA e : e.ino # 0)
inodeFilter(img, list) ==
  FoldLeft(LAMBDA s, e :
             LET g == getInode(img, s.mem, e.ino) IN
             [s EXCEPT !.mem = g.mem,
                       !.out = Append(@, <<e.name, g.inode.bytes % Wide>>)],
           [list EXCEPT !.out = <<>>], Walked(list.out))
StatdirAPP(img, m, opt, junk) ==
  inodeFilter(img, EntriesOf(img, builtin_getExt(img, m, Path(opt), junk)))

Startup_of(kind, img, m, opt, junk) ==
  CASE kind = "grep"     -> GrepAPP(img, m, opt, junk)
    [] kind = "md5"      -> MD5APP(img, m, opt, junk)
    [] kind = "stats32"  -> Stats32APP(img, m, opt, junk)
    [] kind = "stats64"  -> Stats64APP(img, m, opt, junk)
    [] kind = "seqread"  -> SeqReadAPP(img, m, opt, junk)
    [] kind = "randread" -> RandReadAPP(img, m, opt, junk)
    [] kind = "listdir"  -> ListdirAPP(img, m, opt, junk)
    [] kind = "statdir"  -> StatdirAPP(img, m, opt, junk)
-----------------------------------------------------------------------------
(* The runtime. *)

(* An option that was not set: two slets refuse, the others use a null     *)
(* pointer.                                                                *)
Lacking(s) == \/ "path" \notin DOMAIN s.opt
              \/ s.kind = "grep" /\ "pattern" \notin DOMAIN s.opt
              \/ s.kind = "randread" /\ ~({"conf", "offsets"} \subseteq DOMAIN s.opt)
Refuses(s) == s.kind \in {"seqread", "randread"}

Init ==
  \E s \in Scripts :
    /\ script = s /\ step = 0 /\ image = s.image /\ mem = Mounted
    /\ lSlet = <<>> /\ nextSletId = 0 /\ answer = None /\ rewritten = FALSE

Slets(id) == {i \in DOMAIN lSlet : lSlet[i].id = id}
Slet(id) == CHOOSE i \in Slets(id) : \A k \in Slets(id) : i <= k

(* What the memory of a buffer may hold: nothing or an old directory. *)
Junk == {<<End>>} \union {image.block[b] : b \in {x \in DOMAIN image.block : x < 0}}

Chosen(o, op) ==
  /\ ~mem.broken /\ step < Len(script.steps) /\ o \in script.steps[step + 1]
  /\ o.op = op /\ step' = step + 1 /\ UNCHANGED script

AddSlet(o) ==
  /\ Chosen(o, "add")
  /\ nextSletId' = nextSletId + 1
  /\ lSlet' = Append(lSlet, [id |-> nextSletId + 1, kind |-> o.kind,
                            opt |-> [name |-> o.kind], ran |-> None])
  /\ answer' = None
  /\ UNCHANGED <<image, mem, rewritten>>

DelSlet(o) ==
  /\ Chosen(o, "del")
  /\ lSlet' = SelectSeq(lSlet, LAMBDA s : s.id # o.id)
  /\ answer' = None
  /\ UNCHANGED <<image, mem, nextSletId, rewritten>>

(* setOpt replaces the value of a key. *)
SetOpt(o) ==
  /\ Chosen(o, "set")
  /\ lSlet' = IF Slets(o.id) = {} THEN lSlet
              ELSE [lSlet EXCEPT ![Slet(o.id)].opt = (o.key :> o.value) @@ @]
  /\ answer' = None
  /\ UNCHANGED <<image, mem, nextSletId, rewritten>>

GetOpt(o) ==
  /\ Chosen(o, "get")
  /\ answer' = IF Slets(o.id) # {} /\ "result" \in DOMAIN lSlet[Slet(o.id)].opt
               THEN [what |-> "result", slet |-> lSlet[Slet(o.id)]] ELSE None
  /\ UNCHANGED <<image, mem, lSlet, nextSletId, rewritten>>

(* A slet that fails leaves the result of the run before. *)
StartSlet(o) ==
  /\ Chosen(o, "start")
  /\ IF Slets(o.id) = {} \/ Lacking(lSlet[Slet(o.id)])
     THEN /\ UNCHANGED lSlet
          /\ mem' = [mem EXCEPT !.broken = Slets(o.id) # {} /\ ~Refuses(lSlet[Slet(o.id)])]
     ELSE \E junk \in Junk :
            LET s == lSlet[Slet(o.id)] IN
            \E r \in {Startup_of(s.kind, image, mem, s.opt, junk)} :
              /\ mem' = r.mem
              /\ lSlet' = IF r.failed THEN lSlet
                          ELSE [lSlet EXCEPT ![Slet(o.id)].opt = ("result" :> r.out) @@ @,
                                             ![Slet(o.id)].ran = s.opt]
  /\ answer' = None
  /\ UNCHANGED <<image, nextSletId, rewritten>>

(* Runtime::getExts and Runtime::getInode; one file system is mounted. *)
GetExts(o) ==
  /\ Chosen(o, "exts")
  /\ \E junk \in Junk : \E x \in {builtin_getExt(image, mem, o.path, junk)} :
       /\ mem' = x.mem
       /\ answer' = [what |-> "exts", path |-> o.path, ok |-> x.ok, exts |-> x.exts]
  /\ UNCHANGED <<image, lSlet, nextSletId, rewritten>>

GetInode(o) ==
  /\ Chosen(o, "inode")
  /\ LET g == getInode(image, mem, o.ino)
     IN mem' = g.mem /\ answer' = [what |-> "inode", ino |-> o.ino, inode |-> g.inode]
  /\ UNCHANGED <<image, lSlet, nextSletId, rewritten>>

(* The host changes the file system; nothing tells the reader. *)
HostWrite(o) ==
  /\ Chosen(o, "host") /\ image' = o.image /\ rewritten' = TRUE /\ answer' = None
  /\ UNCHANGED <<mem, lSlet, nextSletId>>

Next ==
  \E o \in UNION {script.steps[k] : k \in DOMAIN script.steps} :
    \/ AddSlet(o) \/ DelSlet(o) \/ SetOpt(o) \/ GetOpt(o) \/ StartSlet(o)
    \/ GetExts(o) \/ GetInode(o) \/ HostWrite(o)

Spec == Init /\ [][Next]_vars
-----------------------------------------------------------------------------
(* Properties.  image.holds is what the host stored: the live entries of a *)
(* directory and the data of a file, by inode.                             *)

Named(img, dir, name) == {e \in ToSet(img.holds[dir]) : e.name = name}
Resolve(img, path) ==
  FoldLeft(LAMBDA i, name : CASE i = 0 \/ name = "." -> i
                              [] Named(img, i, name) = {} -> 0
                              [] OTHER -> (CHOOSE e \in Named(img, i, name) : TRUE).ino,
           ROOT_INO, path)

(* A directory the reader can read: not indexed, only its last extent is   *)
(* longer than a block, and no unused entry follows the live one of that   *)
(* name.                                                                   *)
Readable(img, i) ==
  LET root    == img.inode[i].root
      entries == Data(img, extractExtents(img, root))
  IN /\ ~img.inode[i].index
     /\ \A k \in 1..(Len(extractExtents(img, root)) - 1) :
          extractExtents(img, root)[k].len = 1
     /\ \A a, b \in DOMAIN entries :
          a < b /\ entries[a].name = entries[b].name => entries[b].ino # 0

(* A file without holes and extents that were not written, read whole.     *)
Dense(img, i) ==
  LET exts == extractExtents(img, img.inode[i].root) IN
  /\ \A k \in DOMAIN exts : /\ exts[k].block = Len(Blocks(SubSeq(exts, 1, k - 1)))
                             /\ exts[k].len <= ExtentMax
  /\ img.inode[i].bytes <= Len(Data(img, exts))

ReadablePath(img, path) ==
  \A n \in 0..(Len(path) - 1) :
    LET dir == Resolve(img, SubSeq(path, 1, n)) IN dir = 0 \/ Readable(img, dir)

(* However the lookups before it filled and emptied the two caches, a      *)
(* lookup finds the inode the host's file system has under that path, and  *)
(* its extents are those the data of a dense file lies in; an inode is the *)
(* one of the table.  The host must not have written the file system since the mount. *)
LookupsRight ==
  /\ answer.what = "exts" /\ ~rewritten /\ ~mem.broken /\ ReadablePath(image, answer.path) =>
       LET i == Resolve(image, answer.path) IN
       /\ answer.ok <=> i # 0 /\ image.inode[i].extents
       /\ answer.ok => answer.exts = extractExtents(image, image.inode[i].root)
       /\ answer.ok /\ i \notin image.dirs /\ Dense(image, i) =>
            SubSeq(Data(image, answer.exts), 1, image.inode[i].bytes) = image.holds[i]
  /\ answer.what = "inode" /\ ~rewritten /\ answer.ino # 0 =>
       answer.inode = image.inode[answer.ino]

(* The line of the first occurrence of a pattern. *)
Occurs(src, pat) == {k \in 0..(Len(src) - Len(pat)) : SubSeq(src, k + 1, k + Len(pat)) = pat}
FirstLine(src, pat) ==
  LET at    == CHOOSE k \in Occurs(src, pat) : \A j \in Occurs(src, pat) : k <= j
      stops == {0, Len(src) + 1} \union {k \in DOMAIN src : src[k] = NewLine}
      from  == CHOOSE k \in stops : k <= at /\ \A j \in stops : j <= at => j <= k
      to    == CHOOSE k \in stops : k > at + Len(pat) /\ \A j \in stops :
                                      j > at + Len(pat) => k <= j
  IN SubSeq(src, from + 1, to - 1)

(* The message a digest is computed of. *)
Message(src) ==
  LET fill == CHOOSE z \in 0..(Chunk - 1) : (Len(src) + 1 + z + LengthSize) % Chunk = 0
  IN src \o <<128>> \o [i \in 1..fill |-> 0] \o Encode(8 * Len(src))

(* What a kernel is to answer for one file. *)
Right(kind, opt, src, out) ==
  CASE kind = "grep" ->
         (Occurs(src, opt.pattern) # {} /\ \A i \in DOMAIN opt.pattern : opt.pattern[i] < 128)
           => out = FirstLine(src, opt.pattern)
    [] kind = "md5" -> /\ FlattenSeq(out) = Message(src)
                       /\ \A i \in DOMAIN out : Len(out[i]) = Chunk
    [] kind \in {"stats32", "stats64"} ->
         /\ out.sum = FoldLeft(LAMBDA a, b : a + b, 0, src)
         /\ (\E x \in ToSet(src) : x >= 0) =>
              out.max \in ToSet(src) /\ \A x \in ToSet(src) : x <= out.max
         /\ (\E x \in ToSet(src) : x <= 0) =>
              out.min \in ToSet(src) /\ \A x \in ToSet(src) : x >= out.min

(* A directory the kernels can work through: files and directories only,   *)
(* and nothing unused, or that a kernel takes for a file, before a file.   *)
Regular(entries) == SelectSeq(entries, LAMBDA e : e.type = "reg")
Orderly(img, kind, i) ==
  LET entries == Data(img, extractExtents(img, img.inode[i].root)) IN
  /\ Readable(img, i)
  /\ \A a, b \in DOMAIN entries : a < b /\ entries[b].ino # 0 =>
       \/ entries[a].ino # 0
       \/ /\ kind \in {"grep", "statdir"} /\ entries[a].type = "tail"
          /\ kind = "statdir" => a > 1 /\ entries[a - 1].ino # 0
  /\ \A a \in DOMAIN entries :
       entries[a].ino # 0 => entries[a].type \in {"reg", "dir"}

(* A finished slet answers for every file of its directory, in order, what *)
(* the host would compute from the data it stored.                         *)
KernelsRight ==
  answer.what = "result" /\ ~rewritten /\ "path" \in DOMAIN answer.slet.ran =>
    LET kind == answer.slet.kind
        opt  == answer.slet.ran
        out  == answer.slet.opt.result
        i    == Resolve(image, Path(opt))
        file == Regular(image.holds[i])
    IN CASE "exts" \in DOMAIN opt ->
              /\ Len(out) = Len(opt.exts)
              /\ \A k \in DOMAIN out :
                   opt.exts[k].bytes <= Len(Data(image, opt.exts[k].exts)) =>
                   Right(kind, opt, SubSeq(Data(image, opt.exts[k].exts), 1, opt.exts[k].bytes),
                         out[k])
         [] "exts" \notin DOMAIN opt /\ (i = 0 \/ ~ReadablePath(image, Path(opt))) -> TRUE
         [] OTHER ->
              CASE kind \in {"grep", "md5", "stats32", "stats64"} /\ opt.path.slash ->
                     Orderly(image, kind, i) =>
                       /\ Len(out) = Len(file)
                       /\ \A k \in DOMAIN file :
                            Dense(image, file[k].ino) =>
                              Right(kind, opt, image.holds[file[k].ino], out[k])
                [] kind \in {"grep", "md5", "stats32", "stats64"} /\ ~opt.path.slash ->
                     Dense(image, i) => Right(kind, opt, image.holds[i], out[1])
                [] kind = "seqread" ->
                     Dense(image, i) => SubSeq(out, 1, image.inode[i].bytes) = image.holds[i]
                [] kind = "randread" ->
                     \A k \in DOMAIN opt.offsets :
                       Dense(image, i) /\ opt.offsets[k] + opt.conf <= Len(image.holds[i]) =>
                         SubSeq(out, (k - 1) * opt.conf + 1, k * opt.conf)
                           = SubSeq(image.holds[i], opt.offsets[k] + 1, opt.offsets[k] + opt.conf)
                [] kind = "listdir" ->
                     Readable(image, i) =>
                       SelectSeq(out, LAMBDA e : e.ino # 0) = image.holds[i]
                [] kind = "statdir" ->
                     Orderly(image, "statdir", i) =>
                       out = [k \in DOMAIN image.holds[i] |->
                                <<image.holds[i][k].name,
                                  image.inode[image.holds[i][k].ino].bytes % Wide>>]
=============================================================================
