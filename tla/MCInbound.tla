------------------------------ MODULE MCInbound ------------------------------
(***************************************************************************)
(* A room with one event, two that other servers add (the second refers to *)
(* the first, which may therefore come along, or come late), one built     *)
(* here, and a join whose signed event also arrives in a transaction.      *)
(***************************************************************************)
EXTENDS Inbound, TLC

Chain == [e \in Remote |-> IF e = "x" THEN {"r"} ELSE {"r", "x"}]
OneBuilder == [b \in {"b"} |-> "l"]
OneJoin == [j \in {"j"} |-> "x"]
HandlerSymmetry == Permutations(Handlers)
=============================================================================
