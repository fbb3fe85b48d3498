--------------------------- MODULE MCManualStorage ---------------------------
(***************************************************************************)
(* Instances of ManualStorage for TLC: two disks of two slots, of which     *)
(* the first holds two partitions and the second none.                      *)
(***************************************************************************)
EXTENDS ManualStorage

Empty == [o \in 1..Slots |-> Free]

MCOriginal ==
  [disks |-> <<[slots |-> [Empty EXCEPT ![1] = 1, ![2] = 2], boot |-> FALSE],
               [slots |-> Empty, boot |-> FALSE]>>,
   roots |-> {}]
=============================================================================
