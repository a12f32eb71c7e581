------------------------------ MODULE MCOrderStorage ------------------------------
(* Small instances of OrderStorage: three orders, so that a removal from    *)
(* the middle of a queue moves an entry, of size 3, so that a fill can take *)
(* less or more than half.                                                  *)
EXTENDS OrderStorage

MCOrderArgs ==
    { [orderType |-> "LIMIT", triggerPrice |-> 0, limitPrice |-> 1],
      [orderType |-> "STOP", triggerPrice |-> 0, limitPrice |-> 1] }

Symmetry == Permutations(Markets) \cup Permutations(Traders)

=============================================================================
