--------------------------- MODULE MCGenericCache ---------------------------
(* Instances of GenericCache: the configurations of each run.              *)
EXTENDS GenericCache

(* Write caching without read caching, the default switches; two sets of   *)
(* two ways, a maximal I/O of three lines.                                 *)
WriteCache ==
  [setSize |-> 2, waySize |-> 2, lineCountInSuperPage |-> 3, parallelIO |-> 1,
   numLines |-> 6, evictMode |-> "all", prefetchMode |-> "all",
   useReadCaching |-> FALSE, useWriteCaching |-> TRUE,
   useReadPrefetch |-> FALSE, commands |-> {"read", "part", "full"}]

(* The same with one line per super page and super-page eviction.          *)
SuperPageCache ==
  [WriteCache EXCEPT !.lineCountInSuperPage = 1, !.parallelIO = 3,
                     !.numLines = 5,
                     !.evictMode = "superpage", !.commands = {"part", "full"}]

(* Read caching and super-page prefetch without write caching.             *)
ReadCache ==
  [WriteCache EXCEPT !.lineCountInSuperPage = 2, !.numLines = 4,
                     !.prefetchMode = "superpage", !.useReadCaching = TRUE,
                     !.useWriteCaching = FALSE, !.useReadPrefetch = TRUE]

(* A direct-mapped write cache that is flushed and trimmed.                *)
FlushedCache ==
  [WriteCache EXCEPT !.waySize = 1, !.lineCountInSuperPage = 1,
                     !.parallelIO = 2, !.numLines = 4,
                     !.commands = {"part", "full", "flush", "trim"}]

(* One set of two ways, formatted between writes of parts of lines.        *)
FormattedCache ==
  [WriteCache EXCEPT !.setSize = 1, !.lineCountInSuperPage = 1,
                     !.parallelIO = 2, !.numLines = 4,
                     !.commands = {"part", "full", "format"}]

(* Read and write caching with prefetch, for whole-line writes.            *)
FullCache ==
  [WriteCache EXCEPT !.setSize = 1, !.lineCountInSuperPage = 1,
                     !.parallelIO = 2, !.numLines = 3, !.useReadCaching = TRUE,
                     !.useReadPrefetch = TRUE,
                     !.commands = {"read", "full", "format"}]

CacheConfigs ==
  {WriteCache, SuperPageCache, ReadCache, FlushedCache, FormattedCache, FullCache}

(* Read and write caching without prefetch, for writes of part of a line.  *)
PartialCache ==
  [FullCache EXCEPT !.useReadPrefetch = FALSE, !.commands = {"read", "part"}]

PartialConfigs == {PartialCache}
=============================================================================
