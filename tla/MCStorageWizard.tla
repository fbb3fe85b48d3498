--------------------------- MODULE MCStorageWizard ---------------------------
(***************************************************************************)
(* Instances of StorageWizard for TLC.  The targets are those of a machine  *)
(* with two disks: both can be reformatted, one holds a partition that can  *)
(* be shrunk, or else a gap, and another Ubuntu that can be replaced.       *)
(***************************************************************************)
EXTENDS StorageWizard, TLC

CONSTANTS disk1, disk2, shrink, gap, replace, manual

MCTarget == {disk1, disk2, shrink, gap, replace, manual}

MCKind == disk1 :> "reformat" @@ disk2 :> "reformat" @@ shrink :> "resize"
          @@ gap :> "use_gap" @@ replace :> "erase_install" @@ manual :> "manual"
MCRank == disk1 :> 0 @@ disk2 :> 1 @@ shrink :> 2 @@ gap :> 3 @@ replace :> 4 @@ manual :> 5
MCGapSize == [t \in MCTarget |-> IF t = gap THEN 1 ELSE 0]

\* A classic image: the same layouts on every target.
ClassicAllowed ==
  [t \in MCTarget |-> IF t = manual THEN <<"MANUAL">> ELSE <<"DIRECT", "LVM", "LVM_LUKS">>]

\* An image that also has a TPM-backed layout, which takes a whole disk.
TpmAllowed ==
  [t \in MCTarget |-> IF t \in {disk1, disk2}
                      THEN <<"DIRECT", "LVM", "LVM_LUKS", "CORE_BOOT_ENCRYPTED">>
                      ELSE ClassicAllowed[t]]

\* An image without advanced layouts: the pages that offer them are skipped.
PlainAllowed == [t \in MCTarget |-> IF t = manual THEN <<"MANUAL">> ELSE <<"DIRECT">>]

\* Choosing a larger source leaves room on one disk only.
TwoDisks == {disk1, disk2, shrink, replace, manual}
OneDisk == {disk1, gap, manual}
NoRoomBeside == {disk1, disk2, manual}
MCTargetSets == {TwoDisks, OneDisk}
TwoDisksOnly == {TwoDisks}
TwoSources == {TwoDisks, NoRoomBeside}
=============================================================================
