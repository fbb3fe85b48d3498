---------------------------- MODULE ManualStorage ----------------------------
(***************************************************************************)
(* Manual partitioning: ManualStorageModel with the buttons and dialogs of  *)
(* its page, over Subiquity's storage endpoints.                            *)
(*                                                                          *)
(* Every operation is a request whose answer is the whole new layout; the   *)
(* model replaces its list by it and keeps the selection, two indexes.  The *)
(* page stays live while requests are outstanding.  The server carries them *)
(* out in the order in which they were sent, and names a partition by its   *)
(* number: its rank on the disk, as for the logical partitions of an MBR    *)
(* disk, which move up when one before them is deleted.                     *)
(***************************************************************************)
EXTENDS Naturals, Sequences, FiniteSets, SequencesExt

CONSTANTS
  Slots,        \* a disk is divided into this many slots
  Original,     \* the layout that was found on the machine
  MaxRequests,  \* bound on the requests of a behaviour
  MaxInFlight,  \* bound on the outstanding ones
  Faults,       \* whether requests fail
  Free,         \* an unused slot
  NoDialog,
  Asked,        \* a request that is not yet carried out
  Lost          \* a request that failed

\* A new partition is named after the request that adds it.
Originals == UNION {Range(d.slots) : d \in Range(Original.disks)} \ {Free}
Partitions == Originals \cup {MaxRequests + n : n \in 1..MaxRequests}

DiskType == [slots : [1..Slots -> Partitions \cup {Free}], boot : BOOLEAN]
Layouts == [disks : Seq(DiskType), roots : SUBSET Partitions]

ASSUME ManualAssumption ==
  /\ Slots \in Nat \ {0} /\ MaxRequests \in Nat /\ MaxInFlight \in Nat
  /\ Original \in Layouts
  /\ Originals \subseteq 1..MaxRequests
  /\ Faults \in BOOLEAN
  /\ {Free, NoDialog, Asked, Lost} \cap Nat = {}
  /\ Asked # Lost /\ Asked \notin Layouts /\ Lost \notin Layouts

VARIABLES
  layout,      \* the server's configuration
  requests,    \* the outstanding requests, in the order they were sent
  sent,        \* how many were sent
  page,        \* "manual", "failed" after a failed Next, "left" after a successful one
  disks,       \* ManualStorageModel._disks with the roots behind needRoot
  selected,    \* _selectedDiskIndex and _selectedObjectIndex, from 1; 0 is Dart's -1
  bootDisk,    \* _bootDiskIndex, from 1
  waiting,     \* _waitingForReply
  dialog,      \* the request that the open dialog will send
  history      \* see Histories

vars == <<layout, requests, sent, page, disks, selected, bootDisk, waiting, dialog, history>>

-----------------------------------------------------------------------------
(* Layouts.                                                                *)

IsPartition(d, o) == o \in 1..Slots /\ d.slots[o] # Free

\* The objects of Disk.partitions, each as its first slot: partitions, and
\* gaps, which are the longest runs of free slots.  The list has them in the
\* order of the slots.
Objects(d) == {o \in 1..Slots : IsPartition(d, o) \/ o = 1 \/ IsPartition(d, o - 1)}

PlaceOf(d, o) == Cardinality({q \in Objects(d) : q <= o})

PartitionCount(d) == Cardinality({o \in 1..Slots : IsPartition(d, o)})

\* The number of the partition in slot o, and the slot of number n.
NumberOf(d, o) == Cardinality({q \in 1..o : IsPartition(d, q)})
SlotOf(d, n) == {o \in 1..Slots : IsPartition(d, o) /\ NumberOf(d, o) = n}

BootIndex(l) ==
  LET boots == {i \in DOMAIN l.disks : l.disks[i].boot}
  IN IF boots = {} THEN 0 ELSE CHOOSE i \in boots : \A j \in boots : i <= j

Present(l) == UNION {Range(d.slots) : d \in Range(l.disks)}
NeedRoot(l) == l.roots \cap Present(l) = {}
NeedBoot(l) == BootIndex(l) = 0

-----------------------------------------------------------------------------
(* What the page shows.                                                    *)

DiskIndex == selected[1]
ObjectIndex == selected[2]

SelectedDisk == disks.disks[DiskIndex]

\* The slot of the selected object, or 0; an index that the list no longer has
\* selects nothing.
SelectedSlot ==
  IF DiskIndex \in DOMAIN disks.disks /\ \E o \in Objects(SelectedDisk) : PlaceOf(SelectedDisk, o) = ObjectIndex
  THEN CHOOSE o \in Objects(SelectedDisk) : PlaceOf(SelectedDisk, o) = ObjectIndex ELSE 0

SelectedPartition == SelectedSlot # 0 /\ IsPartition(SelectedDisk, SelectedSlot)
SelectedGap == SelectedSlot # 0 /\ ~IsPartition(SelectedDisk, SelectedSlot)

\* Mutant: only one of the two is missing.
IsValidOr == ~NeedRoot(disks) \/ ~NeedBoot(disks)

IsValid == ~NeedRoot(disks) /\ ~NeedBoot(disks)

-----------------------------------------------------------------------------
(* Requests.  seen is history: the partition that the user saw behind the   *)
(* number.                                                                 *)

Request(op, d, slot, number, seen, root) ==
  [op |-> op, disk |-> d, slot |-> slot, number |-> number, seen |-> seen, root |-> root,
   id |-> MaxRequests + sent + 1, answer |-> Asked]

Simple(op) == Request(op, 0, 0, 0, Free, FALSE)
OnDisk(op, d) == Request(op, d, 0, 0, Free, FALSE)
OnGap(root) == Request("add", DiskIndex, SelectedSlot, 0, Free, root)
\* Mutant: the index instead of the number.
OnPartitionIndex(op, d, slot, root) ==
  Request(op, d, 0, NumberOf(disks.disks[d], slot) - 1, disks.disks[d].slots[slot], root)

OnPartition(op, d, slot, root) ==
  Request(op, d, 0, NumberOf(disks.disks[d], slot), disks.disks[d].slots[slot], root)
OnSelected(op, root) == OnPartition(op, DiskIndex, SelectedSlot, root)

\* overlapped: the user began an operation while a request was outstanding.
\* overtaken: an answer was handled before the answer of an earlier request.
\* failed: a request has failed.
\* hit: a request was carried out on another partition than the user saw.
\* released: an answer came for another request while a delete was outstanding.
Histories == {"overlapped", "overtaken", "failed", "hit", "released"}

Note(b, name) == history' = IF b THEN history \cup {name} ELSE history

Busy == requests # <<>>

Send(request) ==
  /\ sent < MaxRequests /\ Len(requests) < MaxInFlight
  /\ requests' = Append(requests, request)
  /\ sent' = sent + 1
  /\ Note(Busy, "overlapped")

Live == page # "left" /\ dialog = NoDialog

modelVars == <<disks, selected, bootDisk>>

Init ==
  /\ layout = Original /\ requests = <<>> /\ sent = 0
  /\ page = "manual"
  /\ disks = Original
  /\ selected = IF Original.disks = <<>> THEN <<0, 0>> ELSE <<1, 0>>
  /\ bootDisk = BootIndex(Original)
  /\ waiting = FALSE /\ dialog = NoDialog /\ history = {}

-----------------------------------------------------------------------------
(* The user.                                                               *)

SelectStorage ==
  /\ Live
  /\ \E d \in DOMAIN disks.disks :
       \E o \in 0..Cardinality(Objects(disks.disks[d])) :
         selected' = <<d, o>> /\ selected' # selected
  /\ UNCHANGED <<layout, requests, sent, page, disks, bootDisk, waiting, dialog, history>>

\* The dialogs for a new partition, a change and a new table capture what is
\* selected when they open.
OpenDialog ==
  /\ Live /\ sent < MaxRequests
  /\ \/ SelectedGap /\ \E root \in BOOLEAN : dialog' = OnGap(root)
     \/ SelectedPartition /\ \E root \in BOOLEAN : dialog' = OnSelected("edit", root)
     \/ DiskIndex # 0 /\ SelectedSlot = 0 /\ dialog' = OnDisk("reformat", DiskIndex)
  /\ Note(Busy, "overlapped")
  /\ UNCHANGED <<layout, requests, sent, page, modelVars, waiting>>

CloseDialog ==
  /\ dialog # NoDialog
  /\ \/ Send(dialog)
     \/ UNCHANGED <<requests, sent, history>>
  /\ dialog' = NoDialog
  /\ UNCHANGED <<layout, page, modelVars, waiting>>

\* Mutant: the reply is not waited for.
DeletePartitionAgain ==
  /\ Live /\ SelectedPartition /\ ~waiting
  /\ Send(OnSelected("delete", FALSE))
  /\ UNCHANGED <<layout, page, modelVars, waiting, dialog>>

DeletePartition ==
  /\ Live /\ SelectedPartition /\ ~waiting
  /\ Send(OnSelected("delete", FALSE))
  /\ waiting' = TRUE
  /\ UNCHANGED <<layout, page, modelVars, dialog>>

\* The check box of a row changes its partition, selected or not.
Wipe ==
  /\ Live
  /\ \E d \in DOMAIN disks.disks, slot \in 1..Slots :
       /\ IsPartition(disks.disks[d], slot)
       /\ Send(OnPartition("edit", d, slot, disks.disks[d].slots[slot] \in disks.roots))
  /\ UNCHANGED <<layout, page, modelVars, waiting, dialog>>

\* The index changes before the request is carried out, and nobody awaits it.
SelectBootDisk ==
  /\ Live
  /\ \E d \in DOMAIN disks.disks :
       /\ bootDisk # d /\ ~disks.disks[d].boot
       /\ Send(OnDisk("boot", d))
       /\ bootDisk' = d
  /\ UNCHANGED <<layout, page, disks, selected, waiting, dialog>>

Revert ==
  /\ Live
  /\ Send(Simple("reset"))
  /\ UNCHANGED <<layout, page, modelVars, waiting, dialog>>

\* NextWizardButton is disabled while its onNext is under way or has failed.
SetStorage ==
  /\ Live /\ page = "manual" /\ IsValid
  /\ \A i \in DOMAIN requests : requests[i].op # "set"
  /\ Send(Simple("set"))
  /\ UNCHANGED <<layout, page, modelVars, waiting, dialog>>

User ==
  \/ SelectStorage \/ OpenDialog \/ CloseDialog
  \/ DeletePartition \/ Wipe \/ SelectBootDisk \/ Revert \/ SetStorage

-----------------------------------------------------------------------------
(* The server.                                                             *)

\* The partition a request names, as a set of slots.
Named(r) == IF r.disk \in DOMAIN layout.disks THEN SlotOf(layout.disks[r.disk], r.number) ELSE {}

Put(d, slot, content) == [layout EXCEPT !.disks[d].slots[slot] = content]

\* The layouts a request may lead to; none when the server refuses it.
Carried(r) ==
  CASE r.op = "add" /\ r.disk \in DOMAIN layout.disks ->
         {[Put(r.disk, o, r.id) EXCEPT !.roots = IF r.root THEN @ \cup {r.id} ELSE @] :
            o \in {o \in Objects(layout.disks[r.disk]) :
                     o = r.slot /\ ~IsPartition(layout.disks[r.disk], o) /\ (r.root => NeedRoot(layout))}}
    [] r.op = "edit" ->
         {[layout EXCEPT !.roots = IF r.root THEN @ \cup {layout.disks[r.disk].slots[o]}
                                             ELSE @ \ {layout.disks[r.disk].slots[o]}] : o \in Named(r)}
    [] r.op = "delete" -> {Put(r.disk, o, Free) : o \in Named(r)}
    [] r.op = "boot" /\ r.disk \in DOMAIN layout.disks ->
         {[layout EXCEPT !.disks[r.disk].boot = TRUE]}
    [] r.op = "reformat" /\ r.disk \in DOMAIN layout.disks ->
         {[layout EXCEPT !.disks[r.disk] = [slots |-> [o \in 1..Slots |-> Free], boot |-> FALSE]]}
    [] r.op = "reset" ->
         {[Original EXCEPT !.disks = SubSeq(@, 1, n)] : n \in 1..Len(Original.disks)}
    [] r.op = "set" -> {layout}
    [] OTHER -> {}

\* The first request that is not carried out yet.
NextAsked(i) ==
  /\ requests[i].answer = Asked
  /\ \A j \in DOMAIN requests : j < i => requests[j].answer # Asked

\* A reset reads the disks again: the last one may have been unplugged.
Serve ==
  /\ \E i \in DOMAIN requests :
       LET r == requests[i]
           Answer(a) == requests' = [requests EXCEPT ![i].answer = a]
       IN  /\ NextAsked(i)
           /\ \/ \E l \in Carried(r) :
                   /\ layout' = l
                   /\ Answer(l) \/ (Faults /\ Answer(Lost))
                   /\ Note(\E o \in Named(r) : layout.disks[r.disk].slots[o] # r.seen, "hit")
              \/ /\ Faults \/ Carried(r) = {}
                 /\ Answer(Lost)
                 /\ UNCHANGED <<layout, history>>
  /\ UNCHANGED <<sent, page, modelVars, waiting, dialog>>

-----------------------------------------------------------------------------
(* The answers, which may overtake each other.                             *)

\* Mutant: one more index counts as a disk.
KeptIndexOffByOne(l) == DiskIndex # 0 /\ DiskIndex <= Len(l.disks) + 1

KeptIndex(l) == DiskIndex # 0 /\ DiskIndex <= Len(l.disks)

\* The selection after an answer: kept as long as its disk index is one, and moved
\* after an added partition to the index before the number of partitions.
SelectionAfter(l, op) ==
  LET kept == IF KeptIndex(l) THEN selected ELSE <<IF l.disks = <<>> THEN 0 ELSE 1, 0>>
  IN IF op = "add" /\ kept[1] # 0
     THEN <<kept[1], PartitionCount(l.disks[kept[1]])>> ELSE kept

\* Mutant: the flag is cleared for every answer but that of a delete.
UpdateDisksKeepsWaiting(l, op) ==
  /\ disks' = l
  /\ selected' = SelectionAfter(l, op)
  /\ bootDisk' = BootIndex(l)
  /\ waiting' = (waiting /\ op = "delete")

\* Mutant: the boot disk stays as it was selected.
UpdateDisksKeepsBoot(l, op) ==
  /\ disks' = l
  /\ selected' = SelectionAfter(l, op)
  /\ bootDisk' = IF bootDisk = 0 THEN BootIndex(l) ELSE bootDisk
  /\ waiting' = FALSE

UpdateDisks(l, op) ==
  /\ disks' = l
  /\ selected' = SelectionAfter(l, op)
  /\ bootDisk' = BootIndex(l)
  /\ waiting' = FALSE

AnswerArrives(i) ==
  LET r == requests[i] IN
  /\ r.answer \notin {Asked, Lost}
  /\ UpdateDisks(r.answer, r.op)
  /\ page' = IF r.op = "set" THEN "left" ELSE page
  /\ requests' = RemoveAt(requests, i)
  /\ history' = history
       \cup (IF i > 1 THEN {"overtaken"} ELSE {})
       \cup (IF \E j \in DOMAIN requests \ {i} : requests[j].op = "delete" THEN {"released"} ELSE {})
  /\ UNCHANGED <<layout, sent, dialog>>

\* Nobody catches the exception, and nothing else changes.
RequestFails(i) ==
  /\ requests[i].answer = Lost
  /\ page' = IF requests[i].op = "set" THEN "failed" ELSE page
  /\ requests' = RemoveAt(requests, i)
  /\ Note(TRUE, "failed")
  /\ UNCHANGED <<layout, sent, modelVars, waiting, dialog>>

Reply == \E i \in DOMAIN requests : AnswerArrives(i) \/ RequestFails(i)

Next == User \/ Serve \/ Reply

Spec == Init /\ [][Next]_vars /\ WF_vars(Serve) /\ WF_vars(Reply)

-----------------------------------------------------------------------------
(* Properties.                                                             *)

RequestType ==
  [op : {"add", "edit", "delete", "boot", "reformat", "reset", "set"},
   disk : Nat, slot : 0..Slots, number : 0..Slots, seen : Partitions \cup {Free},
   root : BOOLEAN, id : Partitions, answer : {Asked, Lost} \cup Layouts]

\* The values of the variables.
TypeOK ==
  /\ layout \in Layouts /\ disks \in Layouts
  /\ requests \in Seq(RequestType) /\ Len(requests) <= MaxInFlight
  /\ sent \in 0..MaxRequests
  /\ page \in {"manual", "failed", "left"}
  /\ selected \in Nat \X (0..Slots)
  /\ bootDisk \in Nat
  /\ waiting \in BOOLEAN
  /\ dialog \in RequestType \cup {NoDialog}
  /\ history \subseteq Histories

Deletes == {i \in DOMAIN requests : requests[i].op = "delete"}

\* waitingForReply is there "in order to prevent sending multiple requests when
\* subiquity is slow to respond".  As far as it goes: two deletes are outstanding
\* together only after the answer of another request has cleared the flag.
DeletesOneByOne == Cardinality(Deletes) <= 1 \/ "released" \in history

\* The flag does not stay: the user can delete again, unless a request has failed.
WaitingEnds == waiting ~> (~waiting \/ "failed" \in history)

\* A user who waits for every answer changes and deletes the partitions that the list
\* shows, although requests carry numbers that move with every deletion.
TargetIsShown == "hit" \in history => history \cap {"overlapped", "failed"} # {}

\* Once all is answered, in order and without a failure, list and boot disk are the
\* server's, however the user hurried.
ListIsServers ==
  (~Busy /\ history \cap {"overtaken", "failed"} = {})
    => disks = layout /\ bootDisk = BootIndex(layout)

\* The selected disk is one of the list, also when disks have vanished.
SelectedDiskIsListed ==
  IF disks.disks = <<>> THEN DiskIndex = 0 ELSE DiskIndex \in DOMAIN disks.disks

\* The layout that Next applies has its root and its boot partition, unless the user
\* went on while a request was outstanding.
LeftIsComplete ==
  (page = "left" /\ history \cap {"overlapped", "failed"} = {})
    => ~NeedRoot(layout) /\ ~NeedBoot(layout)
=============================================================================
