------------------------------ MODULE MCPager ------------------------------
(* Values for TLC's runs of Pager.                                         *)
EXTENDS Pager

CONSTANT a

MCImages == {a}

(* Always with the log, where a log with two torn records is of no use;    *)
(* and with and without it, whatever is torn.                              *)
MCLogged == [modes |-> {TRUE}, tornBehindTorn |-> FALSE, maxLog |-> 3]
MCAnything == [modes |-> BOOLEAN, tornBehindTorn |-> TRUE, maxLog |-> 2]
MCEnvironments == {MCLogged, MCAnything}
MCTornTwice == {[modes |-> {TRUE}, tornBehindTorn |-> TRUE, maxLog |-> 5]}
=============================================================================
