------------------------------ MODULE RowStore ------------------------------
(***************************************************************************)
(* What a heap file promises: rows that keep their RowId and their bytes   *)
(* from the insert that returned the RowId to the delete that names it.    *)
(* Rows are saved page by page; a kill takes the table back to what was    *)
(* saved.                                                                  *)
(***************************************************************************)
CONSTANTS
  PageNo, SlotNo,
  Acceptable,   (* the records insert does not refuse                      *)
  None          (* no row                                                  *)

RowId == PageNo \X SlotNo

VARIABLES
  rows,     (* RowId -> the record stored there, or None                   *)
  saved,    (* what is left of rows after a kill                           *)
  answer    (* what the last call returned                                 *)

Initially ==
  /\ rows = [rid \in RowId |-> None]
  /\ saved = [rid \in RowId |-> None]
  /\ answer = [is |-> "nothing", rid |-> None]

Insert(record) ==
  \E rid \in RowId :
    /\ rows[rid] = None
    /\ rows' = [rows EXCEPT ![rid] = record]
    /\ answer' = [is |-> "inserted", rid |-> rid]
    /\ UNCHANGED saved

Delete(rid) ==
  /\ rows' = [rows EXCEPT ![rid] = None]
  /\ answer' = [is |-> IF rows[rid] = None THEN "absent" ELSE "deleted", rid |-> rid]
  /\ UNCHANGED saved

SavePage(p) ==
  /\ saved' = [rid \in RowId |-> IF rid[1] = p THEN rows[rid] ELSE saved[rid]]
  /\ UNCHANGED <<rows, answer>>

Kill ==
  /\ rows' = saved
  /\ answer' = [is |-> "nothing", rid |-> None]
  /\ UNCHANGED saved

Next ==
  \/ \E record \in Acceptable : Insert(record)
  \/ \E rid \in RowId : Delete(rid)
  \/ \E p \in PageNo : SavePage(p)
  \/ Kill

Spec == Initially /\ [][Next]_<<rows, saved, answer>>
=============================================================================
