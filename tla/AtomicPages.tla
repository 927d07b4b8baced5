---------------------------- MODULE AtomicPages ----------------------------
(***************************************************************************)
(* What the pager with its write-ahead log promises to the layers above    *)
(* it: pages that are written one at a time, each write all or nothing,    *)
(* and lasting once it has returned.  A kill of the process appears only   *)
(* as the loss of the request that was in progress.                        *)
(***************************************************************************)
CONSTANTS Page, Value

VARIABLES
  store,    (* page -> what it holds, now and after any number of kills    *)
  pending   (* the write in progress, if any: a set of at most one         *)

Write == [page : Page, img : Value]

Initially == pending = {}

Begin(w) == pending = {} /\ pending' = {w} /\ UNCHANGED store

Stores(w) == store' = [store EXCEPT ![w.page] = w.img]

Effect(w) == w \in pending /\ Stores(w) /\ UNCHANGED pending

(* The write returns; the next one of the same call may follow at once.    *)
Return(w, following) ==
  w \in pending /\ Stores(w) /\ pending' = following

Killed == pending' = {} /\ UNCHANGED store

Next ==
  \/ \E w \in Write : Begin(w) \/ Effect(w)
  \/ \E w \in pending : Return(w, {})
  \/ \E w \in pending, v \in Write : Return(w, {v})
  \/ Killed

Spec == Initially /\ [][Next]_<<store, pending>>
=============================================================================
