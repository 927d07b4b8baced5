--------------------------- MODULE BufferedPages ---------------------------
(***************************************************************************)
(* What the buffer pool promises its callers: pages that read back what    *)
(* was last written.  A kill of the process loses at most what was written *)
(* since the last flush of a page; so does a call that raises, of one page *)
(* and only then.                                                          *)
(***************************************************************************)
CONSTANTS Page, Image, Empty, Absent, Nothing,
          MayRaise  (* calls may raise, and the caller go on               *)

VARIABLES
  mem,    (* page -> what a read returns                                   *)
  cand,   (* page -> what a read may return after a kill                   *)
  held    (* the page the last call returned                               *)

Initially ==
  /\ mem = [p \in Page |-> Absent]
  /\ cand = [p \in Page |-> {Absent}]
  /\ held = Nothing

Get(p) ==
  /\ mem[p] # Absent
  /\ held' = p
  /\ UNCHANGED <<mem, cand>>

Allocate(p) ==
  /\ mem[p] = Absent
  /\ mem' = [mem EXCEPT ![p] = Empty]
  /\ cand' = [cand EXCEPT ![p] = {Empty}]
  /\ held' = p

Write(v) ==
  /\ held # Nothing
  /\ mem' = [mem EXCEPT ![held] = v]
  /\ cand' = [cand EXCEPT ![held] = @ \cup {v}]
  /\ UNCHANGED held

Flush(pages) ==
  /\ cand' = [p \in Page |-> IF p \in pages THEN {mem[p]} ELSE cand[p]]
  /\ UNCHANGED <<mem, held>>

(* A page that was there falls back to something a kill might have left;   *)
(* another may have been allocated.                                        *)
Raise ==
  /\ MayRaise
  /\ held' = Nothing
  /\ \E q \in Page, new \in {{}} \cup {{p} : p \in Page} :
       /\ mem[q] # Absent
       /\ \A p \in new : mem[p] = Absent
       /\ cand' = [p \in Page |-> IF p \in new THEN {Empty} ELSE cand[p]]
       /\ mem'[q] \in cand[q]
       /\ mem' = [p \in Page |-> IF p = q THEN mem'[q]
                                 ELSE IF p \in new THEN Empty ELSE mem[p]]

Kill ==
  /\ mem' \in [Page -> Image \cup {Empty, Absent}]
  /\ \A p \in Page : mem'[p] \in cand[p]
  /\ cand' = [p \in Page |-> {mem'[p]}]
  /\ held' = Nothing

Next ==
  \/ \E p \in Page : Get(p) \/ Allocate(p) \/ Flush({p})
  \/ \E v \in Image : Write(v)
  \/ Flush(Page)
  \/ Raise \/ Kill

Spec == Initially /\ [][Next]_<<mem, cand, held>>
=============================================================================
