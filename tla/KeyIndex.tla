------------------------------ MODULE KeyIndex ------------------------------
(***************************************************************************)
(* What an index promises, whatever its structure: a bag of (key, RowId)   *)
(* entries, an insert that adds one, and a delete that removes the one it  *)
(* names and says whether it did.  While complete is FALSE a delete may    *)
(* miss an entry that is there; it then says so and changes nothing.  A    *)
(* kill leaves every entry alone that was not touched since the last       *)
(* flush, as long as the index is sound; nothing is promised of one that   *)
(* is not.                                                                 *)
(***************************************************************************)
EXTENDS Bags, Sequences

CONSTANTS Key, RowId

VARIABLES
  entries,    (* a bag of pairs of a key and a RowId                       *)
  touched,    (* the entries inserted or deleted since the last flush      *)
  complete,   (* lookups find all there is                                 *)
  sound,      (* no kill has taken the index apart                         *)
  answer      (* the last delete: its entry and what it returned, or << >> *)

Copies(entry, bag) == IF BagIn(entry, bag) THEN bag[entry] ELSE 0

Initially == entries = EmptyBag /\ answer = << >> /\ touched = {}

Insert(entry) ==
  /\ answer' = << >>
  /\ entries' = entries (+) SetToBag({entry})
  /\ touched' = touched \cup {entry}
  /\ sound' = sound

Delete(entry) ==
  /\ \/ /\ answer' = Append(entry, TRUE)
        /\ BagIn(entry, entries)
        /\ entries' = entries (-) SetToBag({entry})
        /\ touched' = touched \cup {entry}
     \/ /\ answer' = Append(entry, FALSE)
        /\ complete => ~BagIn(entry, entries)
        /\ UNCHANGED <<entries, touched>>
  /\ sound' = sound

Flush ==
  /\ touched' = {} /\ answer' = << >>
  /\ UNCHANGED <<entries, sound>>

Reopen ==
  /\ touched' = {} /\ answer' = << >>
  /\ sound' => \A entry \in (Key \X RowId) \ touched :
       Copies(entry, entries') = Copies(entry, entries)

Next ==
  \/ Flush \/ Reopen
  \/ \E entry \in Key \X RowId : Delete(entry) \/ Insert(entry)

Spec == Initially /\ [][sound => Next]_<<entries, touched, sound, answer>>
=============================================================================
