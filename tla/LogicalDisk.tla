---------------------------- MODULE LogicalDisk ----------------------------
(***************************************************************************)
(* What the flash translation layer promises the cache above it: an array  *)
(* of logical pages, each a row of I/O units, in which a unit holds the    *)
(* last data written to it, or nothing once its page has been trimmed or   *)
(* formatted.  A command takes effect at once and may leave the disk busy  *)
(* with housekeeping, which takes as long as it likes and changes nothing. *)
(***************************************************************************)
CONSTANTS Lpns, Units, Data, NoData

VARIABLES disk, ready

Init ==
  /\ disk = [l \in Lpns |-> [i \in Units |-> NoData]]
  /\ ready = TRUE

(* A write replaces the requested units and no other.                      *)
Write(l, io, d) ==
  /\ ready
  /\ disk' = [disk EXCEPT ![l] = [i \in Units |-> IF i \in io THEN d
                                                  ELSE disk[l][i]]]
  /\ ready' \in BOOLEAN

(* Trim and format drop every unit of the pages in the range.              *)
Discard(ls) ==
  /\ ready
  /\ disk' = [l \in Lpns |-> IF l \in ls THEN [i \in Units |-> NoData]
                             ELSE disk[l]]
  /\ ready' \in BOOLEAN

(* Housekeeping ends, or the program stops.                                *)
Housekeep ==
  /\ UNCHANGED disk
  /\ ready' \in BOOLEAN

Next ==
  \/ \E l \in Lpns, io \in SUBSET Units, d \in Data : Write(l, io, d)
  \/ \E ls \in SUBSET Lpns : Discard(ls)
  \/ Housekeep

Spec == Init /\ [][Next]_<<disk, ready>>
=============================================================================
