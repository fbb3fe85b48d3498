------------------------- MODULE ManualStorageProofs -------------------------
(***************************************************************************)
(* What the manual page guarantees to which user, for disks of any size,    *)
(* any number of requests and any number of them outstanding.               *)
(***************************************************************************)
EXTENDS ManualStorage, SequenceTheorems, FiniteSetTheorems, WellFoundedInduction, TLAPS

\* A delete is only sent while the flag is not set, and the flag is only
\* cleared by answers: unless one of them was for another request, a delete
\* that is outstanding is the only one and the flag is set.
FlagOK ==
  "released" \notin history =>
    \A i \in Deletes : waiting /\ \A j \in Deletes : i = j

\* The server carries requests out in their order.
AnsweredFirst ==
  \A i, j \in DOMAIN requests : i < j /\ requests[j].answer # Asked => requests[i].answer # Asked

\* The last answer given is the configuration; before the first one, or after
\* all of them, the list is.
OrderOK ==
  (history \cap {"overtaken", "failed"} = {} /\ \A i \in DOMAIN requests : requests[i].answer # Lost) =>
    /\ \A i \in DOMAIN requests :
         requests[i].answer # Asked /\ (\A j \in DOMAIN requests : j > i => requests[j].answer = Asked)
           => requests[i].answer = layout
    /\ (\A i \in DOMAIN requests : requests[i].answer = Asked) => disks = layout
    /\ requests = <<>> => bootDisk = BootIndex(layout)

\* What a dialog sends.
DialogOK == dialog # NoDialog => dialog.answer = Asked /\ dialog.op \in {"add", "edit", "reformat"}

\* The number of a request names the partition that its user saw.
OnTarget(r) ==
  r.disk \in DOMAIN layout.disks =>
    \A o \in SlotOf(layout.disks[r.disk], r.number) : layout.disks[r.disk].slots[o] = r.seen

Complete(l) == ~NeedRoot(l) /\ ~NeedBoot(l)

\* For a user who waits for answers: there is one request, sent for the
\* configuration that the server has.
PatientOK ==
  history \cap {"overlapped", "failed"} = {} =>
    /\ "hit" \notin history
    /\ Len(requests) <= 1
    /\ requests = <<>> => disks = layout
    /\ \A i \in DOMAIN requests :
         /\ dialog = NoDialog
         /\ requests[i].answer = Asked => disks = layout /\ OnTarget(requests[i])
         /\ requests[i].answer \notin {Asked, Lost} => requests[i].answer = layout
         /\ requests[i].op = "set" => Complete(layout)
    /\ dialog # NoDialog => OnTarget(dialog)
    /\ page = "left" => requests = <<>> /\ dialog = NoDialog /\ Complete(layout)

IInv == TypeOK /\ SelectedDiskIsListed /\ DialogOK /\ FlagOK /\ AnsweredFirst /\ OrderOK /\ PatientOK

------------------------------------------------------------------------------
(* Data.                                                                    *)

LEMMA LeastOf ==
  ASSUME NEW T, T \subseteq Nat, T # {}
  PROVE  \E i \in T : \A j \in T : i <= j
<1>1. PICK i \in T : \A j \in T : ~(<<j, i>> \in OpToRel(<, Nat))
  BY WFMin, NatLessThanWellFounded, Zenon
<1>2. \A j \in T : ~(j < i)
  BY <1>1 DEF OpToRel
<1> QED BY <1>2

\* A layout has a sequence of disks.
LEMMA LayoutType ==
  ASSUME NEW l \in Layouts
  PROVE  /\ l.disks \in Seq(DiskType)
         /\ Len(l.disks) \in Nat
         /\ DOMAIN l.disks = 1..Len(l.disks)
         /\ \A d \in DOMAIN l.disks : l.disks[d] \in DiskType
         /\ l.disks = <<>> <=> Len(l.disks) = 0
<1>1. l.disks \in Seq(DiskType)
  BY DEF Layouts
<1> QED BY <1>1, LenProperties, ElementOfSeq, EmptySeq

LEMMA BootIndexType ==
  ASSUME NEW l \in Layouts
  PROVE  BootIndex(l) \in Nat
<1> DEFINE boots == {i \in DOMAIN l.disks : l.disks[i].boot}
<1>1. boots \subseteq Nat
  BY LayoutType
<1>2. CASE boots = {}
  BY <1>2 DEF BootIndex
<1>3. CASE boots # {}
  <2>1. \E i \in boots : \A j \in boots : i <= j
    BY <1>1, <1>3, LeastOf
  <2> QED BY <1>1, <1>3, <2>1 DEF BootIndex
<1> QED BY <1>2, <1>3

\* Sets of slots are counted up to the number of slots.
LEMMA CountSlots ==
  ASSUME NEW S \in SUBSET (1..Slots)
  PROVE  IsFiniteSet(S) /\ Cardinality(S) \in 0..Slots
<1>1. Slots \in Nat
  BY ManualAssumption
<1>2. IsFiniteSet(1..Slots) /\ Cardinality(1..Slots) = Slots
  BY <1>1, FS_Interval
<1>3. IsFiniteSet(S) /\ Cardinality(S) <= Slots
  BY <1>2, FS_Subset
<1> QED BY <1>1, <1>3, FS_CardinalityType

\* Numbers start at one and tell partitions apart.
LEMMA NumbersTell ==
  ASSUME NEW d, NEW o \in 1..Slots
  PROVE  /\ NumberOf(d, o) \in 0..Slots
         /\ IsPartition(d, o) => NumberOf(d, o) # 0 /\ SlotOf(d, NumberOf(d, o)) = {o}
<1>0. Slots \in Nat
  BY ManualAssumption
<1> DEFINE Upto(p) == {q \in 1..p : IsPartition(d, q)}
<1>1. \A p \in 1..Slots : IsFiniteSet(Upto(p)) /\ Cardinality(Upto(p)) \in 0..Slots
  BY <1>0, CountSlots
<1>2. ASSUME NEW p \in 1..Slots, IsPartition(d, p)
      PROVE  Cardinality(Upto(p)) # 0
  <2>1. p \in Upto(p)
    BY <1>0, <1>2
  <2> QED BY <1>1, <2>1, FS_EmptySet
<1>3. ASSUME NEW p \in 1..Slots, NEW q \in 1..Slots, IsPartition(d, q), p < q
      PROVE  Cardinality(Upto(p)) # Cardinality(Upto(q))
  <2>1. Upto(p) \in SUBSET Upto(q) /\ q \in Upto(q) /\ q \notin Upto(p)
    BY <1>0, <1>3
  <2> QED BY <1>1, <2>1, FS_Subset
<1>4. ASSUME IsPartition(d, o), NEW p \in 1..Slots, IsPartition(d, p),
             Cardinality(Upto(p)) = Cardinality(Upto(o))
      PROVE  p = o
  BY <1>0, <1>3, <1>4
<1> QED BY <1>1, <1>2, <1>4 DEF NumberOf, SlotOf

LEMMA NoNumberZero ==
  ASSUME NEW d
  PROVE  SlotOf(d, 0) = {}
  BY NumbersTell DEF SlotOf

\* A slot of a disk is filled or emptied.
LEMMA PutType ==
  ASSUME layout \in Layouts, NEW d \in DOMAIN layout.disks, NEW slot \in 1..Slots,
         NEW content \in Partitions \cup {Free}
  PROVE  Put(d, slot, content) \in Layouts
<1> DEFINE disk == [layout.disks[d] EXCEPT !.slots[slot] = content]
<1>1. layout.disks \in Seq(DiskType) /\ layout.disks[d] \in DiskType /\ DOMAIN layout.disks = 1..Len(layout.disks)
  BY LayoutType
<1>2. disk \in DiskType
  BY <1>1 DEF DiskType
<1>3. [layout.disks EXCEPT ![d] = disk] \in Seq(DiskType)
  BY <1>1, <1>2, ExceptSeq
<1>4. Put(d, slot, content) = [layout EXCEPT !.disks = [layout.disks EXCEPT ![d] = disk]]
  BY DEF Put, Layouts
<1> HIDE DEF disk
<1> QED BY <1>3, <1>4 DEF Layouts

\* What the server makes of a request is a layout.
LEMMA CarriedType ==
  ASSUME layout \in Layouts, NEW r \in RequestType, NEW l \in Carried(r)
  PROVE  l \in Layouts
<1>0. r.disk \in Nat /\ r.id \in Partitions
  BY DEF RequestType
<1>1. Named(r) \subseteq 1..Slots /\ (Named(r) # {} => r.disk \in DOMAIN layout.disks)
  BY DEF Named, SlotOf
<1>2. \A d \in DOMAIN layout.disks : \A o \in 1..Slots : layout.disks[d].slots[o] \in Partitions \cup {Free}
  BY LayoutType DEF DiskType
<1>3. CASE r.op = "add"
  <2>1. PICK o \in 1..Slots : /\ r.disk \in DOMAIN layout.disks
                              /\ l = [Put(r.disk, o, r.id) EXCEPT !.roots = IF r.root THEN @ \cup {r.id} ELSE @]
    BY <1>3 DEF Carried, Objects
  <2>2. Put(r.disk, o, r.id) \in Layouts
    BY <1>0, <2>1, PutType
  <2> QED BY <1>0, <2>1, <2>2 DEF Layouts
<1>4. CASE r.op = "edit"
  <2>1. PICK o \in Named(r) : l = [layout EXCEPT !.roots = IF r.root THEN @ \cup {layout.disks[r.disk].slots[o]}
                                                                     ELSE @ \ {layout.disks[r.disk].slots[o]}]
    BY <1>4 DEF Carried
  <2>2. layout.disks[r.disk].slots[o] \in Partitions
    BY <1>1, <1>2 DEF Named, SlotOf, IsPartition
  <2> QED BY <2>1, <2>2 DEF Layouts
<1>5. CASE r.op = "delete"
  <2>1. PICK o \in Named(r) : l = Put(r.disk, o, Free)
    BY <1>5 DEF Carried
  <2> QED BY <1>1, <2>1, PutType
<1>6. CASE r.op = "boot"
  <2> DEFINE disk == [layout.disks[r.disk] EXCEPT !.boot = TRUE]
  <2>1. r.disk \in DOMAIN layout.disks /\ l = [layout EXCEPT !.disks[r.disk].boot = TRUE]
    BY <1>6 DEF Carried
  <2>2. disk \in DiskType
    BY <2>1, LayoutType DEF DiskType
  <2>3. [layout.disks EXCEPT ![r.disk] = disk] \in Seq(DiskType)
    BY <2>1, <2>2, LayoutType, ExceptSeq
  <2>4. l = [layout EXCEPT !.disks = [layout.disks EXCEPT ![r.disk] = disk]]
    BY <2>1 DEF Layouts
  <2> HIDE DEF disk
  <2> QED BY <2>3, <2>4 DEF Layouts
<1>7. CASE r.op = "reformat"
  <2> DEFINE disk == [slots |-> [o \in 1..Slots |-> Free], boot |-> FALSE]
  <2>1. r.disk \in DOMAIN layout.disks /\ l = [layout EXCEPT !.disks[r.disk] = disk]
    BY <1>7 DEF Carried
  <2>2. disk \in DiskType
    BY DEF DiskType
  <2> HIDE DEF disk
  <2>3. [layout.disks EXCEPT ![r.disk] = disk] \in Seq(DiskType)
    BY <2>1, <2>2, LayoutType, ExceptSeq
  <2>4. l = [layout EXCEPT !.disks = [layout.disks EXCEPT ![r.disk] = disk]]
    BY <2>1 DEF Layouts
  <2> QED BY <2>3, <2>4 DEF Layouts
<1>8. CASE r.op = "reset"
  <2>1. PICK n \in 1..Len(Original.disks) : l = [Original EXCEPT !.disks = SubSeq(Original.disks, 1, n)]
    BY <1>8 DEF Carried
  <2>2. Original \in Layouts
    BY ManualAssumption
  <2>3. \A i \in 1..n : Original.disks[i] \in DiskType
    BY <2>2, LayoutType
  <2>4. SubSeq(Original.disks, 1, n) \in Seq(DiskType)
    BY <2>2, <2>3, LayoutType, SubSeqProperties
  <2> QED BY <2>1, <2>2, <2>4 DEF Layouts
<1>9. CASE r.op = "set"
  BY <1>9 DEF Carried
<1> QED BY <1>3, <1>4, <1>5, <1>6, <1>7, <1>8, <1>9 DEF Carried, RequestType

\* The queue without one of its requests.
LEMMA RemoveEntry ==
  ASSUME NEW S, NEW s \in Seq(S), NEW i \in DOMAIN s
  PROVE  /\ RemoveAt(s, i) \in Seq(S)
         /\ Len(RemoveAt(s, i)) = Len(s) - 1
         /\ DOMAIN RemoveAt(s, i) = 1..(Len(s) - 1)
         /\ \A k \in 1..(Len(s) - 1) : RemoveAt(s, i)[k] = IF k < i THEN s[k] ELSE s[k + 1]
<1>1. /\ Len(s) \in Nat /\ DOMAIN s = 1..Len(s) /\ i \in 1..Len(s)
      /\ \A k \in 1..Len(s) : s[k] \in S
  BY LenProperties, ElementOfSeq
<1> DEFINE front == SubSeq(s, 1, i - 1)
           back == SubSeq(s, i + 1, Len(s))
<1>2. /\ front \in Seq(S)
      /\ Len(front) = i - 1
      /\ \A k \in 1..(i - 1) : front[k] = s[k]
  BY <1>1, SubSeqProperties
<1>3. /\ back \in Seq(S)
      /\ Len(back) = Len(s) - i
      /\ \A k \in 1..(Len(s) - i) : back[k] = s[i + k]
  BY <1>1, SubSeqProperties
<1>4. RemoveAt(s, i) = front \o back
  BY DEF RemoveAt
<1> HIDE DEF front, back
<1>5. /\ front \o back \in Seq(S)
      /\ Len(front \o back) = Len(front) + Len(back)
      /\ \A k \in 1..(Len(front) + Len(back)) :
           (front \o back)[k] = IF k <= Len(front) THEN front[k] ELSE back[k - Len(front)]
  BY <1>2, <1>3, ConcatProperties
<1> DEFINE rest == RemoveAt(s, i)
<1>7. /\ rest \in Seq(S)
      /\ Len(rest) = Len(s) - 1
      /\ \A k \in 1..(Len(s) - 1) : rest[k] = IF k <= i - 1 THEN front[k] ELSE back[k - (i - 1)]
  BY <1>1, <1>2, <1>3, <1>4, <1>5
<1> HIDE DEF rest
<1>6. ASSUME NEW k \in 1..(Len(s) - 1)
      PROVE  rest[k] = IF k < i THEN s[k] ELSE s[k + 1]
  <2>1. CASE k < i
    BY <1>1, <1>2, <1>7, <2>1
  <2>2. CASE ~(k < i)
    <3> DEFINE j == k - (i - 1)
    <3>1. j \in 1..(Len(s) - i) /\ i + j = k + 1
      BY <1>1, <2>2
    <3>2. rest[k] = back[j]
      BY <1>1, <1>7, <2>2
    <3> HIDE DEF j
    <3> QED BY <1>3, <2>2, <3>1, <3>2
  <2> QED BY <2>1, <2>2
<1>8. DOMAIN rest = 1..(Len(s) - 1)
  BY <1>7, LenProperties
<1> QED BY <1>6, <1>7, <1>8 DEF rest

\* Every request of the queue without one was in it, at the place or behind.
LEMMA RemainingEntry ==
  ASSUME TypeOK, NEW i \in DOMAIN requests, requests' = RemoveAt(requests, i)
  PROVE  /\ requests' \in Seq(RequestType) /\ Len(requests') = Len(requests) - 1
         /\ \A k \in DOMAIN requests' :
              /\ k \in 1..(Len(requests) - 1) /\ k \in DOMAIN requests /\ k + 1 \in DOMAIN requests
              /\ requests'[k] = IF k < i THEN requests[k] ELSE requests[k + 1]
<1>1. requests \in Seq(RequestType)
  BY DEF TypeOK
<1>2. /\ requests' \in Seq(RequestType) /\ Len(requests') = Len(requests) - 1
      /\ DOMAIN requests' = 1..(Len(requests) - 1)
      /\ \A k \in 1..(Len(requests) - 1) : requests'[k] = IF k < i THEN requests[k] ELSE requests[k + 1]
  BY <1>1, RemoveEntry
<1>3. Len(requests) \in Nat /\ DOMAIN requests = 1..Len(requests)
  BY <1>1, LenProperties
<1> QED BY <1>2, <1>3

\* A request is sent behind the others.
LEMMA SentEntry ==
  ASSUME TypeOK, NEW r \in RequestType, Send(r)
  PROVE  /\ requests' \in Seq(RequestType) /\ Len(requests') = Len(requests) + 1
         /\ Len(requests) \in Nat
         /\ DOMAIN requests = 1..Len(requests)
         /\ DOMAIN requests' = 1..(Len(requests) + 1)
         /\ \A k \in DOMAIN requests : requests'[k] = requests[k]
         /\ requests'[Len(requests) + 1] = r
         /\ sent' \in 0..MaxRequests /\ Len(requests') <= MaxInFlight
         /\ history' = IF Busy THEN history \cup {"overlapped"} ELSE history
<1>1. requests \in Seq(RequestType) /\ requests' = Append(requests, r)
  BY DEF TypeOK, Send
<1>2. /\ requests' \in Seq(RequestType) /\ Len(requests') = Len(requests) + 1
      /\ \A k \in 1..Len(requests) : requests'[k] = requests[k]
      /\ requests'[Len(requests) + 1] = r
  BY <1>1, AppendProperties
<1>3. Len(requests) \in Nat /\ DOMAIN requests = 1..Len(requests) /\ DOMAIN requests' = 1..(Len(requests) + 1)
  BY <1>1, <1>2, LenProperties
<1> QED BY <1>1, <1>2, <1>3, ManualAssumption DEF Send, Note, TypeOK

\* What the page sends.
LEMMA RequestTypes ==
  ASSUME TypeOK, sent < MaxRequests
  PROVE  /\ \A op \in {"reset", "set"} : Simple(op) \in RequestType
         /\ \A op \in {"boot", "reformat"} : \A d \in Nat : OnDisk(op, d) \in RequestType
         /\ \A root \in BOOLEAN : OnGap(root) \in RequestType
         /\ \A op \in {"edit", "delete"}, d \in DOMAIN disks.disks, slot \in 1..Slots, root \in BOOLEAN :
              OnPartition(op, d, slot, root) \in RequestType
<1>1. MaxRequests + sent + 1 \in Partitions
  <2>1. MaxRequests + sent + 1 = MaxRequests + (sent + 1) /\ sent + 1 \in 1..MaxRequests
    BY ManualAssumption DEF TypeOK
  <2> QED BY <2>1 DEF Partitions
<1>2. 0 \in 0..Slots /\ Slots \in Nat
  BY ManualAssumption
<1>3. SelectedSlot \in 0..Slots
  BY <1>2 DEF SelectedSlot, Objects
<1>4. DiskIndex \in Nat
  BY DEF TypeOK, DiskIndex
<1>5. \A d \in DOMAIN disks.disks : d \in Nat /\ disks.disks[d] \in DiskType
  BY LayoutType DEF TypeOK
<1>6. \A d, slot : slot \in 1..Slots => NumberOf(d, slot) \in 0..Slots
  BY NumbersTell
<1>7. \A d \in DOMAIN disks.disks : \A slot \in 1..Slots : disks.disks[d].slots[slot] \in Partitions \cup {Free}
  BY <1>5 DEF DiskType
<1>8. \A op \in {"reset", "set"} : Simple(op) \in RequestType
  BY <1>1, <1>2 DEF Simple, Request, RequestType
<1>9. \A op \in {"boot", "reformat"} : \A d \in Nat : OnDisk(op, d) \in RequestType
  BY <1>1, <1>2 DEF OnDisk, Request, RequestType
<1>10. \A root \in BOOLEAN : OnGap(root) \in RequestType
  BY <1>1, <1>2, <1>3, <1>4 DEF OnGap, Request, RequestType
<1>11. ASSUME NEW op \in {"edit", "delete"}, NEW d \in DOMAIN disks.disks, NEW slot \in 1..Slots, NEW root \in BOOLEAN
       PROVE  OnPartition(op, d, slot, root) \in RequestType
  BY <1>1, <1>2, <1>5, <1>6, <1>7 DEF OnPartition, Request, RequestType
<1> QED BY <1>8, <1>9, <1>10, <1>11

\* The selected partition is one of the list.
LEMMA SelectedIsListed ==
  ASSUME SelectedPartition
  PROVE  DiskIndex \in DOMAIN disks.disks /\ SelectedSlot \in 1..Slots
  BY DEF SelectedPartition, SelectedSlot, IsPartition

------------------------------------------------------------------------------
\* With the list up to date, a number names what the user sees.
LEMMA SeenIsNamed ==
  ASSUME TypeOK, disks = layout
  PROVE  /\ \A op, d, root : \A slot \in 1..Slots :
              IsPartition(disks.disks[d], slot) => OnTarget(OnPartition(op, d, slot, root))
         /\ \A r : r.number = 0 => OnTarget(r)
<1>1. ASSUME NEW op, NEW d, NEW root, NEW slot \in 1..Slots, IsPartition(disks.disks[d], slot)
      PROVE  OnTarget(OnPartition(op, d, slot, root))
  <2> DEFINE r == OnPartition(op, d, slot, root)
  <2>1. r.disk = d /\ r.number = NumberOf(disks.disks[d], slot) /\ r.seen = disks.disks[d].slots[slot]
    BY DEF OnPartition, Request
  <2>2. SlotOf(disks.disks[d], r.number) = {slot}
    BY <1>1, <2>1, NumbersTell
  <2> QED BY <2>1, <2>2 DEF OnTarget
<1>2. ASSUME NEW r, r.number = 0
      PROVE  OnTarget(r)
  BY <1>2, NoNumberZero DEF OnTarget
<1> QED BY <1>1, <1>2

\* A request is sent from the page or from its dialog.
LEMMA SendStep ==
  ASSUME IInv, NEW r \in RequestType, Send(r), r.answer = Asked,
         r.op = "delete" => ~waiting /\ waiting',
         waiting => waiting',
         (~Busy /\ history \cap {"overlapped", "failed"} = {}) =>
            page # "left" /\ OnTarget(r) /\ (r.op = "set" => Complete(layout)),
         UNCHANGED <<layout, page, disks, selected>>,
         bootDisk' \in Nat, waiting' \in BOOLEAN, dialog' = NoDialog
  PROVE  IInv'
<1> DEFINE n == Len(requests) + 1
<1>1. /\ TypeOK
      /\ requests' \in Seq(RequestType) /\ Len(requests') = n
      /\ Len(requests) \in Nat /\ n \in Nat
      /\ DOMAIN requests = 1..Len(requests) /\ DOMAIN requests' = DOMAIN requests \cup {n} /\ n \notin DOMAIN requests
      /\ \A k \in DOMAIN requests : requests'[k] = requests[k] /\ k < n
      /\ requests'[n] = r
      /\ sent' \in 0..MaxRequests /\ Len(requests') <= MaxInFlight
      /\ history' = IF Busy THEN history \cup {"overlapped"} ELSE history
  <2>1. /\ TypeOK
        /\ requests' \in Seq(RequestType) /\ Len(requests') = Len(requests) + 1
        /\ Len(requests) \in Nat
        /\ DOMAIN requests = 1..Len(requests)
        /\ DOMAIN requests' = 1..(Len(requests) + 1)
        /\ \A k \in DOMAIN requests : requests'[k] = requests[k]
        /\ requests'[Len(requests) + 1] = r
        /\ sent' \in 0..MaxRequests /\ Len(requests') <= MaxInFlight
        /\ history' = IF Busy THEN history \cup {"overlapped"} ELSE history
    BY SentEntry DEF IInv
  <2>2. /\ n \in Nat /\ DOMAIN requests' = DOMAIN requests \cup {n} /\ n \notin DOMAIN requests
        /\ \A k \in DOMAIN requests : k < n
    BY <2>1
  <2> QED BY <2>1, <2>2
<1>2. requests' # <<>>
  BY <1>1, EmptySeq
<1>3. /\ history' \cap {"overtaken", "failed"} = {} => history \cap {"overtaken", "failed"} = {}
      /\ "released" \in history' <=> "released" \in history
      /\ "hit" \in history' <=> "hit" \in history
      /\ history' \cap {"overlapped", "failed"} = {} =>
           ~Busy /\ history \cap {"overlapped", "failed"} = {}
  BY <1>1
<1> HIDE DEF n
<1>4. TypeOK'
  BY <1>1 DEF TypeOK, Histories
<1>5. SelectedDiskIsListed' /\ DialogOK'
  BY DEF IInv, SelectedDiskIsListed, DiskIndex, DialogOK
<1>6. FlagOK'
  <2>1. \A i \in Deletes' : i \in Deletes \/ (i = n /\ r.op = "delete")
    BY <1>1 DEF Deletes
  <2>2. CASE r.op = "delete"
    BY <1>3, <2>1, <2>2 DEF IInv, FlagOK
  <2>3. CASE r.op # "delete"
    BY <1>3, <2>1, <2>3 DEF IInv, FlagOK
  <2> QED BY <2>2, <2>3
<1>7. AnsweredFirst'
  BY <1>1 DEF IInv, AnsweredFirst
<1>8. OrderOK'
  <2> SUFFICES ASSUME history' \cap {"overtaken", "failed"} = {}, \A i \in DOMAIN requests' : requests'[i].answer # Lost
               PROVE  /\ \A i \in DOMAIN requests' :
                           requests'[i].answer # Asked /\ (\A j \in DOMAIN requests' : j > i => requests'[j].answer = Asked)
                             => requests'[i].answer = layout'
                      /\ (\A i \in DOMAIN requests' : requests'[i].answer = Asked) => disks' = layout'
                      /\ requests' = <<>> => bootDisk' = BootIndex(layout')
    BY DEF OrderOK
  <2> QED BY <1>1, <1>2, <1>3 DEF IInv, OrderOK
<1>9. PatientOK'
  <2> SUFFICES ASSUME history' \cap {"overlapped", "failed"} = {}
               PROVE  PatientOK'
    BY DEF PatientOK
  <2>1. requests = <<>> /\ "hit" \notin history' /\ disks = layout /\ page # "left"
    BY <1>3 DEF IInv, PatientOK, Busy
  <2>2. OnTarget(r)' /\ (r.op = "set" => Complete(layout)')
    BY <1>3 DEF OnTarget, Complete, NeedRoot, NeedBoot, BootIndex, Present
  <2>3. n = 1 /\ DOMAIN requests' = {1} /\ Len(requests') <= 1
    BY <1>1, <2>1, EmptySeq DEF n
  <2> QED BY <1>1, <1>2, <2>1, <2>2, <2>3 DEF PatientOK, OnTarget
<1> QED BY <1>4, <1>5, <1>6, <1>7, <1>8, <1>9 DEF IInv

\* Selecting, and opening and closing dialogs.
LEMMA DialogStep ==
  ASSUME IInv, SelectStorage \/ OpenDialog \/ (CloseDialog /\ UNCHANGED <<requests, sent, history>>)
  PROVE  IInv'
<1>1. TypeOK /\ UNCHANGED <<layout, requests, sent, page, disks, bootDisk, waiting>>
  BY DEF IInv, SelectStorage, OpenDialog, CloseDialog, modelVars
<1>2. CASE SelectStorage
  <2>0. PICK d \in DOMAIN disks.disks : \E o \in 0..Cardinality(Objects(disks.disks[d])) : selected' = <<d, o>>
    BY <1>2 DEF SelectStorage
  <2>1. PICK o \in 0..Cardinality(Objects(disks.disks[d])) : selected' = <<d, o>>
    BY <2>0
  <2>2. d \in Nat /\ disks.disks # <<>>
    BY <1>1, <2>1, LayoutType, EmptySeq DEF TypeOK
  <2>3. o \in 0..Slots
    BY <2>1, CountSlots, ManualAssumption DEF Objects
  <2>4. UNCHANGED <<dialog, history>>
    BY <1>2 DEF SelectStorage
  <2>5. TypeOK' /\ SelectedDiskIsListed'
    BY <1>1, <2>1, <2>2, <2>3, <2>4 DEF TypeOK, SelectedDiskIsListed, DiskIndex
  <2> QED BY <1>1, <2>4, <2>5 DEF IInv, DialogOK, FlagOK, Deletes, AnsweredFirst, OrderOK, PatientOK, OnTarget
<1>3. CASE OpenDialog
  <2>1. UNCHANGED selected /\ sent < MaxRequests /\ page # "left"
    BY <1>3 DEF OpenDialog, Live, modelVars
  <2>2. history' = IF Busy THEN history \cup {"overlapped"} ELSE history
    BY <1>3 DEF OpenDialog, Note
  <2>3. PICK r \in RequestType : dialog' = r /\ r.answer = Asked /\ r.op \in {"add", "edit", "reformat"} /\ (disks = layout => OnTarget(r))
    <3>1. CASE SelectedGap /\ \E root \in BOOLEAN : dialog' = OnGap(root)
      <4>1. PICK root \in BOOLEAN : dialog' = OnGap(root)
        BY <3>1
      <4>2. OnGap(root).answer = Asked /\ OnGap(root).op = "add" /\ OnGap(root).number = 0
        BY DEF OnGap, Request
      <4> QED BY <1>1, <2>1, <4>1, <4>2, RequestTypes, SeenIsNamed
    <3>2. CASE SelectedPartition /\ \E root \in BOOLEAN : dialog' = OnSelected("edit", root)
      <4>1. PICK root \in BOOLEAN : dialog' = OnPartition("edit", DiskIndex, SelectedSlot, root)
        BY <3>2 DEF OnSelected
      <4>2. /\ OnPartition("edit", DiskIndex, SelectedSlot, root).answer = Asked
            /\ OnPartition("edit", DiskIndex, SelectedSlot, root).op = "edit"
        BY DEF OnPartition, Request
      <4>3. DiskIndex \in DOMAIN disks.disks /\ SelectedSlot \in 1..Slots /\ IsPartition(disks.disks[DiskIndex], SelectedSlot)
        BY <3>2, SelectedIsListed DEF SelectedPartition, SelectedDisk
      <4> QED BY <1>1, <2>1, <4>1, <4>2, <4>3, RequestTypes, SeenIsNamed
    <3>3. CASE dialog' = OnDisk("reformat", DiskIndex)
      <4>1. DiskIndex \in Nat
        BY <1>1 DEF TypeOK, DiskIndex
      <4>2. /\ OnDisk("reformat", DiskIndex).answer = Asked /\ OnDisk("reformat", DiskIndex).op = "reformat"
            /\ OnDisk("reformat", DiskIndex).number = 0
        BY DEF OnDisk, Request
      <4> QED BY <1>1, <2>1, <3>3, <4>1, <4>2, RequestTypes, SeenIsNamed
    <3> QED BY <1>3, <3>1, <3>2, <3>3 DEF OpenDialog
  <2>4. TypeOK' /\ SelectedDiskIsListed' /\ DialogOK'
    BY <1>1, <2>1, <2>2, <2>3 DEF IInv, TypeOK, Histories, SelectedDiskIsListed, DiskIndex, DialogOK
  <2>5. FlagOK' /\ AnsweredFirst' /\ OrderOK'
    BY <1>1, <2>2 DEF IInv, FlagOK, Deletes, AnsweredFirst, OrderOK
  <2>6. PatientOK'
    <3> SUFFICES ASSUME history' \cap {"overlapped", "failed"} = {}
                 PROVE  PatientOK'
      BY DEF PatientOK
    <3>1. requests = <<>> /\ history' = history /\ disks = layout
      BY <2>2 DEF IInv, PatientOK, Busy
    <3>2. OnTarget(r)'
      BY <1>1, <2>3, <3>1 DEF OnTarget
    <3>3. DOMAIN requests' = {} /\ Len(requests') <= 1
      BY <1>1, <3>1, EmptySeq, LenProperties DEF TypeOK
    <3> QED BY <1>1, <2>1, <2>3, <3>1, <3>2, <3>3 DEF IInv, PatientOK, OnTarget
  <2> QED BY <2>4, <2>5, <2>6 DEF IInv
<1>4. CASE CloseDialog /\ UNCHANGED <<requests, sent, history>>
  <2>1. UNCHANGED <<selected, history>> /\ dialog' = NoDialog
    BY <1>4 DEF CloseDialog, modelVars
  <2> QED BY <1>1, <2>1 DEF IInv, TypeOK, SelectedDiskIsListed, DiskIndex, DialogOK, FlagOK, Deletes, AnsweredFirst,
                            OrderOK, PatientOK, OnTarget
<1> QED BY <1>2, <1>3, <1>4

LEMMA UserStep ==
  ASSUME IInv, User
  PROVE  IInv'
<1>0. TypeOK
  BY DEF IInv
<1>1. ~Busy /\ history \cap {"overlapped", "failed"} = {} => disks = layout
  BY DEF IInv, PatientOK, Busy
<1>2. CASE CloseDialog /\ Send(dialog)
  <2>1. dialog \in RequestType /\ dialog # NoDialog /\ dialog' = NoDialog
    BY <1>0, <1>2 DEF CloseDialog, TypeOK
  <2>2. dialog.answer = Asked /\ dialog.op \notin {"delete", "set"}
    BY <2>1 DEF IInv, DialogOK
  <2>3. ~Busy /\ history \cap {"overlapped", "failed"} = {} => page # "left" /\ OnTarget(dialog)
    BY <2>1 DEF IInv, PatientOK, Busy
  <2>4. UNCHANGED <<layout, page, disks, selected, bootDisk, waiting>>
    BY <1>2 DEF CloseDialog, modelVars
  <2> QED BY <1>0, <1>2, <2>1, <2>2, <2>3, <2>4, SendStep DEF TypeOK
<1>3. CASE DeletePartition
  <2> DEFINE r == OnPartition("delete", DiskIndex, SelectedSlot, FALSE)
  <2>1. DiskIndex \in DOMAIN disks.disks /\ SelectedSlot \in 1..Slots /\ IsPartition(disks.disks[DiskIndex], SelectedSlot)
    BY <1>3, SelectedIsListed DEF DeletePartition, SelectedPartition, SelectedDisk
  <2>2. r \in RequestType /\ (disks = layout => OnTarget(r))
    BY <1>0, <1>3, <2>1, RequestTypes, SeenIsNamed DEF DeletePartition, Send
  <2>3. r.answer = Asked /\ r.op = "delete"
    BY DEF OnPartition, Request
  <2>4. Send(r) /\ ~waiting /\ waiting' = TRUE /\ page # "left" /\ dialog' = NoDialog
    BY <1>3 DEF DeletePartition, OnSelected, Live
  <2>5. UNCHANGED <<layout, page, disks, selected, bootDisk>>
    BY <1>3 DEF DeletePartition, modelVars
  <2> HIDE DEF r
  <2> QED BY <1>0, <1>1, <2>2, <2>3, <2>4, <2>5, SendStep DEF TypeOK
<1>4. CASE Wipe
  <2>1. PICK d \in DOMAIN disks.disks, slot \in 1..Slots, root \in BOOLEAN :
          /\ IsPartition(disks.disks[d], slot)
          /\ Send(OnPartition("edit", d, slot, root))
    <3>1. PICK d \in DOMAIN disks.disks, slot \in 1..Slots :
            /\ IsPartition(disks.disks[d], slot)
            /\ Send(OnPartition("edit", d, slot, disks.disks[d].slots[slot] \in disks.roots))
      BY <1>4 DEF Wipe
    <3> DEFINE root == disks.disks[d].slots[slot] \in disks.roots
    <3>2. root \in BOOLEAN
      OBVIOUS
    <3>3. Send(OnPartition("edit", d, slot, root))
      BY <3>1
    <3> HIDE DEF root
    <3> QED BY <3>1, <3>2, <3>3
  <2> DEFINE r == OnPartition("edit", d, slot, root)
  <2>2. r \in RequestType /\ (disks = layout => OnTarget(r))
    BY <1>0, <2>1, RequestTypes, SeenIsNamed DEF Send
  <2>3. r.answer = Asked /\ r.op = "edit"
    BY DEF OnPartition, Request
  <2>4. Send(r) /\ UNCHANGED <<layout, page, disks, selected, bootDisk, waiting, dialog>> /\ page # "left" /\ dialog = NoDialog
    BY <1>4, <2>1 DEF Wipe, modelVars, Live
  <2> HIDE DEF r
  <2> QED BY <1>0, <1>1, <2>2, <2>3, <2>4, SendStep DEF TypeOK
<1>5. CASE SelectBootDisk
  <2>1. PICK d \in DOMAIN disks.disks : Send(OnDisk("boot", d)) /\ bootDisk' = d
    BY <1>5 DEF SelectBootDisk
  <2> DEFINE r == OnDisk("boot", d)
  <2>2. d \in Nat
    BY <1>0, LayoutType DEF TypeOK
  <2>3. r.answer = Asked /\ r.op = "boot" /\ r.number = 0
    BY DEF OnDisk, Request
  <2>4. r \in RequestType /\ (disks = layout => OnTarget(r))
    BY <1>0, <2>1, <2>2, <2>3, RequestTypes, SeenIsNamed DEF Send
  <2>5. Send(r) /\ UNCHANGED <<layout, page, disks, selected, waiting, dialog>> /\ page # "left" /\ dialog = NoDialog
    BY <1>5, <2>1 DEF SelectBootDisk, Live
  <2> HIDE DEF r
  <2> QED BY <1>0, <1>1, <2>1, <2>2, <2>3, <2>4, <2>5, SendStep DEF TypeOK
<1>6. CASE Revert \/ SetStorage
  <2>1. PICK op \in {"reset", "set"} : Send(Simple(op)) /\ (op = "set" => IsValid)
    BY <1>6 DEF Revert, SetStorage
  <2> DEFINE r == Simple(op)
  <2>2. r.answer = Asked /\ r.op = op /\ r.number = 0
    BY DEF Simple, Request
  <2>3. r \in RequestType /\ (disks = layout => OnTarget(r))
    BY <1>0, <2>1, <2>2, RequestTypes, SeenIsNamed DEF Send
  <2>4. disks = layout /\ op = "set" => Complete(layout)
    BY <2>1 DEF IsValid, Complete
  <2>5. Send(r) /\ UNCHANGED <<layout, page, disks, selected, bootDisk, waiting, dialog>> /\ page # "left" /\ dialog = NoDialog
    BY <1>6, <2>1 DEF Revert, SetStorage, modelVars, Live
  <2> HIDE DEF r
  <2> QED BY <1>0, <1>1, <2>2, <2>3, <2>4, <2>5, SendStep DEF TypeOK
<1> QED BY <1>2, <1>3, <1>4, <1>5, <1>6, DialogStep DEF User, CloseDialog

------------------------------------------------------------------------------
\* The server answers the first request that it has not carried out.
LEMMA AnswerEntry ==
  ASSUME TypeOK, NEW i \in DOMAIN requests, NEW a \in {Lost} \cup Layouts,
         requests' = [requests EXCEPT ![i].answer = a]
  PROVE  /\ requests' \in Seq(RequestType) /\ Len(requests') = Len(requests)
         /\ DOMAIN requests' = DOMAIN requests
         /\ \A k \in DOMAIN requests :
              /\ requests'[k].op = requests[k].op
              /\ requests'[k].answer = IF k = i THEN a ELSE requests[k].answer
              /\ k # i => requests'[k] = requests[k]
<1>1. requests \in Seq(RequestType) /\ i \in 1..Len(requests) /\ DOMAIN requests = 1..Len(requests)
  BY LenProperties DEF TypeOK
<1>2. requests[i] \in RequestType
  BY <1>1, ElementOfSeq
<1> DEFINE r == [requests[i] EXCEPT !.answer = a]
<1>3. r \in RequestType /\ r.op = requests[i].op /\ r.answer = a
  BY <1>2 DEF RequestType
<1>4. requests' = [requests EXCEPT ![i] = r]
  OBVIOUS
<1> HIDE DEF r
<1>5. /\ requests' \in Seq(RequestType) /\ Len(requests') = Len(requests)
      /\ \A k \in 1..Len(requests) : requests'[k] = IF k = i THEN r ELSE requests[k]
  BY <1>1, <1>3, <1>4, ExceptSeq
<1> QED BY <1>1, <1>3, <1>4, <1>5

LEMMA ServeStep ==
  ASSUME IInv, Serve
  PROVE  IInv'
<1>1. PICK i \in DOMAIN requests :
        /\ NextAsked(i)
        /\ \/ \E l \in Carried(requests[i]) :
                /\ layout' = l
                /\ \/ requests' = [requests EXCEPT ![i].answer = l]
                   \/ requests' = [requests EXCEPT ![i].answer = Lost]
                /\ Note(\E o \in Named(requests[i]) : layout.disks[requests[i].disk].slots[o] # requests[i].seen, "hit")
           \/ requests' = [requests EXCEPT ![i].answer = Lost] /\ UNCHANGED <<layout, history>>
  BY DEF Serve
<1> DEFINE r == requests[i]
<1>2. TypeOK /\ UNCHANGED <<sent, page, disks, selected, bootDisk, waiting, dialog>>
  BY DEF IInv, Serve, modelVars
<1>3. r \in RequestType /\ i \in 1..Len(requests) /\ DOMAIN requests = 1..Len(requests) /\ Len(requests) \in Nat
  BY <1>2, ElementOfSeq, LenProperties DEF TypeOK
<1>4. PICK a \in {Lost} \cup Layouts :
        /\ requests' = [requests EXCEPT ![i].answer = a]
        /\ layout' \in Layouts
        /\ a # Lost => layout' = a
        /\ layout' = layout \/ layout' \in Carried(r)
        /\ \/ history' = history
           \/ history' = history \cup {"hit"} /\ \E o \in Named(r) : layout.disks[r.disk].slots[o] # r.seen
  <2>1. CASE requests' = [requests EXCEPT ![i].answer = Lost] /\ UNCHANGED <<layout, history>>
    BY <1>2, <2>1 DEF TypeOK
  <2>2. ASSUME NEW l \in Carried(r), layout' = l,
               \/ requests' = [requests EXCEPT ![i].answer = l]
               \/ requests' = [requests EXCEPT ![i].answer = Lost],
               Note(\E o \in Named(r) : layout.disks[r.disk].slots[o] # r.seen, "hit")
        PROVE  \E a \in {Lost} \cup Layouts :
                 /\ requests' = [requests EXCEPT ![i].answer = a]
                 /\ layout' \in Layouts
                 /\ a # Lost => layout' = a
                 /\ layout' = layout \/ layout' \in Carried(r)
                 /\ \/ history' = history
                    \/ history' = history \cup {"hit"} /\ \E o \in Named(r) : layout.disks[r.disk].slots[o] # r.seen
    <3>1. l \in Layouts
      BY <1>2, <1>3, CarriedType DEF TypeOK
    <3>2. \/ history' = history
          \/ history' = history \cup {"hit"} /\ \E o \in Named(r) : layout.disks[r.disk].slots[o] # r.seen
      BY <2>2 DEF Note
    <3>3. l # Lost
      BY <3>1, ManualAssumption
    <3> QED BY <2>2, <3>1, <3>2, <3>3
  <2> QED BY <1>1, <2>1, <2>2
<1>5. /\ requests' \in Seq(RequestType) /\ Len(requests') = Len(requests)
      /\ DOMAIN requests' = DOMAIN requests
      /\ \A k \in DOMAIN requests :
           /\ requests'[k].op = requests[k].op
           /\ requests'[k].answer = IF k = i THEN a ELSE requests[k].answer
           /\ k # i => requests'[k] = requests[k]
  BY <1>2, <1>4, AnswerEntry
<1>6. a # Asked /\ requests # <<>> /\ requests' # <<>>
  BY <1>3, <1>5, ManualAssumption, EmptySeq
<1>7. r.answer = Asked /\ \A j \in DOMAIN requests : j < i => requests[j].answer # Asked
  BY <1>1 DEF NextAsked
<1>8. /\ history' \cap {"overtaken", "failed"} = {} => history \cap {"overtaken", "failed"} = {}
      /\ "released" \in history' <=> "released" \in history
      /\ history' \cap {"overlapped", "failed"} = {} => history \cap {"overlapped", "failed"} = {}
      /\ history' \subseteq Histories
  BY <1>2, <1>4 DEF TypeOK, Histories
<1>9. TypeOK'
  BY <1>2, <1>4, <1>5, <1>8 DEF TypeOK
<1>10. SelectedDiskIsListed' /\ DialogOK'
  BY <1>2 DEF IInv, SelectedDiskIsListed, DiskIndex, DialogOK
<1>11. FlagOK'
  BY <1>2, <1>5, <1>8 DEF IInv, FlagOK, Deletes
<1>12. AnsweredFirst'
  BY <1>3, <1>5, <1>6, <1>7 DEF IInv, AnsweredFirst
<1>13. OrderOK'
  <2> SUFFICES ASSUME history' \cap {"overtaken", "failed"} = {}, \A k \in DOMAIN requests' : requests'[k].answer # Lost
               PROVE  /\ \A k \in DOMAIN requests' :
                           requests'[k].answer # Asked /\ (\A j \in DOMAIN requests' : j > k => requests'[j].answer = Asked)
                             => requests'[k].answer = layout'
                      /\ (\A k \in DOMAIN requests' : requests'[k].answer = Asked) => disks' = layout'
                      /\ requests' = <<>> => bootDisk' = BootIndex(layout')
    BY DEF OrderOK
  <2>1. a = layout'
    BY <1>4, <1>5
  <2>2. ASSUME NEW k \in DOMAIN requests', requests'[k].answer # Asked,
               \A j \in DOMAIN requests' : j > k => requests'[j].answer = Asked
        PROVE  k = i
    <3>1. ~(i > k)
      BY <1>5, <1>6, <2>2
    <3>2. ~(k > i)
      BY <1>3, <1>5, <1>7, <2>2 DEF IInv, AnsweredFirst
    <3> QED BY <1>3, <1>5, <3>1, <3>2
  <2> QED BY <1>5, <1>6, <2>1, <2>2
<1>14. PatientOK'
  <2> SUFFICES ASSUME history' \cap {"overlapped", "failed"} = {}
               PROVE  PatientOK'
    BY DEF PatientOK
  <2>1. /\ "hit" \notin history /\ Len(requests) <= 1 /\ dialog = NoDialog /\ OnTarget(r)
        /\ r.op = "set" => Complete(layout)
        /\ page # "left"
    BY <1>6, <1>7, <1>8 DEF IInv, PatientOK
  <2>2. \A k \in DOMAIN requests : k = i
    BY <1>3, <2>1
  <2>3. \A o \in Named(r) : layout.disks[r.disk].slots[o] = r.seen
    BY <2>1 DEF OnTarget, Named
  <2>4. history' = history
    BY <1>4, <2>3
  <2>5. r.op = "set" => layout' = layout
    BY <1>4 DEF Carried
  <2>6. r.op = "set" => Complete(layout)'
    BY <2>1, <2>5 DEF Complete, NeedRoot, NeedBoot, BootIndex, Present
  <2> QED BY <1>2, <1>4, <1>5, <1>6, <2>1, <2>2, <2>4, <2>6 DEF PatientOK
<1> QED BY <1>9, <1>10, <1>11, <1>12, <1>13, <1>14 DEF IInv

------------------------------------------------------------------------------
\* The selection after an answer is one of its list.
LEMMA SelectionType ==
  ASSUME selected \in Nat \X (0..Slots), NEW l \in Layouts, NEW op
  PROVE  /\ SelectionAfter(l, op) \in Nat \X (0..Slots)
         /\ IF l.disks = <<>> THEN SelectionAfter(l, op)[1] = 0 ELSE SelectionAfter(l, op)[1] \in DOMAIN l.disks
<1> DEFINE kept == IF KeptIndex(l) THEN selected ELSE <<IF l.disks = <<>> THEN 0 ELSE 1, 0>>
<1>1. \A d : PartitionCount(d) \in 0..Slots
  BY CountSlots DEF PartitionCount
<1>2. /\ Len(l.disks) \in Nat /\ DOMAIN l.disks = 1..Len(l.disks)
      /\ l.disks = <<>> <=> Len(l.disks) = 0
  BY LayoutType
<1>3. Slots \in Nat
  BY ManualAssumption
<1>4. /\ kept \in Nat \X (0..Slots)
      /\ IF l.disks = <<>> THEN kept[1] = 0 ELSE kept[1] \in DOMAIN l.disks
  BY <1>2, <1>3 DEF KeptIndex, DiskIndex
<1>5. SelectionAfter(l, op) = IF op = "add" /\ kept[1] # 0
                              THEN <<kept[1], PartitionCount(l.disks[kept[1]])>> ELSE kept
  BY DEF SelectionAfter
<1> HIDE DEF kept
<1> QED BY <1>1, <1>2, <1>4, <1>5

\* An answer replaces the list.
LEMMA AnswerStep ==
  ASSUME IInv, NEW i \in DOMAIN requests, AnswerArrives(i)
  PROVE  IInv'
<1> DEFINE r == requests[i]
           a == requests[i].answer
<1>1. /\ TypeOK /\ requests' = RemoveAt(requests, i)
      /\ UNCHANGED <<layout, sent, dialog>>
      /\ disks' = a /\ selected' = SelectionAfter(a, r.op) /\ bootDisk' = BootIndex(a) /\ waiting' = FALSE
      /\ page' = IF r.op = "set" THEN "left" ELSE page
      /\ a # Asked /\ a # Lost
  BY DEF IInv, AnswerArrives, UpdateDisks
<1>2. /\ requests \in Seq(RequestType) /\ i \in 1..Len(requests) /\ DOMAIN requests = 1..Len(requests)
      /\ Len(requests) \in Nat /\ r \in RequestType
  BY <1>1, ElementOfSeq, LenProperties DEF TypeOK
<1>3. a \in Layouts
  BY <1>1, <1>2 DEF RequestType
<1>4. /\ requests' \in Seq(RequestType) /\ Len(requests') = Len(requests) - 1
      /\ DOMAIN requests' = 1..(Len(requests) - 1)
      /\ \A k \in DOMAIN requests' : requests'[k] = IF k < i THEN requests[k] ELSE requests[k + 1]
  <2>1. DOMAIN requests' = 1..(Len(requests) - 1)
    BY <1>1, <1>2, RemoveEntry
  <2> QED BY <1>1, <2>1, RemainingEntry
<1>5. /\ history \subseteq history' /\ history' \subseteq Histories
      /\ "overtaken" \notin history' => i = 1
      /\ "released" \notin history' => \A j \in DOMAIN requests : j # i => requests[j].op # "delete"
      /\ "hit" \in history' => "hit" \in history
  <2>1. history' = history \cup (IF i > 1 THEN {"overtaken"} ELSE {})
                           \cup (IF \E j \in DOMAIN requests \ {i} : requests[j].op = "delete" THEN {"released"} ELSE {})
    BY DEF AnswerArrives
  <2> QED BY <1>1, <1>2, <2>1 DEF TypeOK, Histories
<1>6. TypeOK'
  <2>1. bootDisk' \in Nat
    BY <1>1, <1>3, BootIndexType
  <2>2. selected' \in Nat \X (0..Slots)
    BY <1>1, <1>3, SelectionType DEF TypeOK
  <2>3. Len(requests') <= MaxInFlight
    BY <1>1, <1>2, <1>4, ManualAssumption DEF TypeOK
  <2> QED BY <1>1, <1>3, <1>4, <1>5, <2>1, <2>2, <2>3 DEF TypeOK
<1>7. SelectedDiskIsListed'
  BY <1>1, <1>3, SelectionType DEF TypeOK, SelectedDiskIsListed, DiskIndex
<1>8. DialogOK'
  BY <1>1 DEF IInv, DialogOK
<1>9. FlagOK'
  <2>1. "released" \notin history' => Deletes' = {}
    BY <1>2, <1>4, <1>5 DEF Deletes
  <2> QED BY <2>1 DEF FlagOK
<1>10. AnsweredFirst'
  <2> SUFFICES ASSUME NEW j \in DOMAIN requests', NEW k \in DOMAIN requests', j < k, requests'[k].answer # Asked
               PROVE  requests'[j].answer # Asked
    BY DEF AnsweredFirst
  <2>1. PICK m \in DOMAIN requests : requests'[k] = requests[m] /\ m = IF k < i THEN k ELSE k + 1
    BY <1>2, <1>4
  <2>2. PICK n \in DOMAIN requests : requests'[j] = requests[n] /\ n = IF j < i THEN j ELSE j + 1
    BY <1>2, <1>4
  <2>3. n < m
    BY <1>2, <1>4, <2>1, <2>2
  <2> QED BY <2>1, <2>2, <2>3 DEF IInv, AnsweredFirst
<1>11. OrderOK'
  <2> SUFFICES ASSUME history' \cap {"overtaken", "failed"} = {}, \A k \in DOMAIN requests' : requests'[k].answer # Lost
               PROVE  /\ \A k \in DOMAIN requests' :
                           requests'[k].answer # Asked /\ (\A j \in DOMAIN requests' : j > k => requests'[j].answer = Asked)
                             => requests'[k].answer = layout'
                      /\ (\A k \in DOMAIN requests' : requests'[k].answer = Asked) => disks' = layout'
                      /\ requests' = <<>> => bootDisk' = BootIndex(layout')
    BY DEF OrderOK
  <2>1. i = 1 /\ history \cap {"overtaken", "failed"} = {}
    BY <1>5
  <2>2. \A k \in DOMAIN requests : k # 1 => k - 1 \in DOMAIN requests' /\ requests[k] = requests'[k - 1]
    BY <1>2, <1>4, <2>1
  <2>3. \A k \in DOMAIN requests' : k + 1 \in DOMAIN requests /\ requests'[k] = requests[k + 1]
    BY <1>2, <1>4, <2>1
  <2>4. \A k \in DOMAIN requests : requests[k].answer # Lost
    BY <1>1, <2>1, <2>2
  <2>5. \A k \in DOMAIN requests :
          requests[k].answer # Asked /\ (\A j \in DOMAIN requests : j > k => requests[j].answer = Asked)
            => requests[k].answer = layout
    BY <2>1, <2>4 DEF IInv, OrderOK
  <2>6. ASSUME NEW k \in DOMAIN requests', requests'[k].answer # Asked,
               \A j \in DOMAIN requests' : j > k => requests'[j].answer = Asked
        PROVE  requests'[k].answer = layout'
    <3>1. ASSUME NEW j \in DOMAIN requests, j > k + 1
          PROVE  requests[j].answer = Asked
      <4>1. j # 1 /\ j - 1 > k
        BY <1>2, <1>4, <3>1
      <4>2. j - 1 \in DOMAIN requests' /\ requests[j] = requests'[j - 1]
        BY <2>2, <4>1
      <4> QED BY <2>6, <4>1, <4>2
    <3> QED BY <1>1, <2>3, <2>5, <2>6, <3>1
  <2>7. ASSUME \A k \in DOMAIN requests' : requests'[k].answer = Asked
        PROVE  disks' = layout' /\ bootDisk' = BootIndex(layout')
    <3>1. \A j \in DOMAIN requests : j > 1 => requests[j].answer = Asked
      BY <1>2, <2>2, <2>7
    <3>2. a = layout
      BY <1>1, <2>1, <2>5, <3>1
    <3>3. BootIndex(layout') = BootIndex(layout)
      BY <1>1 DEF BootIndex
    <3> QED BY <1>1, <3>2, <3>3
  <2>8. requests' = <<>> => DOMAIN requests' = {}
    BY <1>4, EmptySeq
  <2> QED BY <2>6, <2>7, <2>8
<1>12. PatientOK'
  <2> SUFFICES ASSUME history' \cap {"overlapped", "failed"} = {}
               PROVE  PatientOK'
    BY DEF PatientOK
  <2>1. history \cap {"overlapped", "failed"} = {} /\ requests # <<>>
    BY <1>2, <1>5, EmptySeq
  <2>2. /\ "hit" \notin history' /\ Len(requests) <= 1 /\ dialog = NoDialog /\ a = layout /\ page # "left"
        /\ r.op = "set" => Complete(layout)
    BY <1>1, <1>5, <2>1 DEF IInv, PatientOK
  <2>3. Len(requests') = 0 /\ DOMAIN requests' = {} /\ requests' = <<>>
    BY <1>2, <1>4, <2>2, EmptySeq
  <2>4. r.op = "set" => Complete(layout)'
    BY <1>1, <2>2 DEF Complete, NeedRoot, NeedBoot, BootIndex, Present
  <2> QED BY <1>1, <2>2, <2>3, <2>4 DEF PatientOK
<1> QED BY <1>6, <1>7, <1>8, <1>9, <1>10, <1>11, <1>12 DEF IInv

LEMMA FailStep ==
  ASSUME IInv, NEW i \in DOMAIN requests, RequestFails(i)
  PROVE  IInv'
<1>1. /\ TypeOK /\ requests' = RemoveAt(requests, i)
      /\ UNCHANGED <<layout, sent, disks, selected, bootDisk, waiting, dialog>>
      /\ page' \in {"failed", page}
      /\ history' = history \cup {"failed"}
  BY DEF IInv, RequestFails, modelVars, Note
<1>2. /\ Len(requests) \in Nat /\ DOMAIN requests = 1..Len(requests) /\ Len(requests) <= MaxInFlight
  BY <1>1, LenProperties DEF TypeOK
<1>3. /\ requests' \in Seq(RequestType) /\ Len(requests') = Len(requests) - 1
      /\ \A k \in DOMAIN requests' :
           /\ k \in Nat /\ k \in DOMAIN requests /\ k + 1 \in DOMAIN requests
           /\ requests'[k] = IF k < i THEN requests[k] ELSE requests[k + 1]
  <2>1. /\ requests' \in Seq(RequestType) /\ Len(requests') = Len(requests) - 1
        /\ \A k \in DOMAIN requests' :
             /\ k \in 1..(Len(requests) - 1) /\ k \in DOMAIN requests /\ k + 1 \in DOMAIN requests
             /\ requests'[k] = IF k < i THEN requests[k] ELSE requests[k + 1]
    BY <1>1, RemainingEntry
  <2> QED BY <1>2, <2>1
<1>4. TypeOK'
  BY <1>1, <1>2, <1>3, ManualAssumption DEF TypeOK, Histories
<1>5. SelectedDiskIsListed' /\ DialogOK'
  BY <1>1 DEF IInv, SelectedDiskIsListed, DiskIndex, DialogOK
<1>6. \A j, k \in DOMAIN requests' : \E m, n \in DOMAIN requests :
         requests'[j] = requests[m] /\ requests'[k] = requests[n] /\ (j < k => m < n) /\ (k < j => n < m)
  <2> SUFFICES ASSUME NEW j \in DOMAIN requests', NEW k \in DOMAIN requests'
               PROVE  \E m, n \in DOMAIN requests :
                        requests'[j] = requests[m] /\ requests'[k] = requests[n] /\ (j < k => m < n) /\ (k < j => n < m)
    OBVIOUS
  <2> DEFINE m == IF j < i THEN j ELSE j + 1
             n == IF k < i THEN k ELSE k + 1
  <2>1. m \in DOMAIN requests /\ n \in DOMAIN requests /\ requests'[j] = requests[m] /\ requests'[k] = requests[n]
    BY <1>3
  <2>2. (j < k => m < n) /\ (k < j => n < m)
    BY <1>2, <1>3
  <2> QED BY <2>1, <2>2
<1>7. AnsweredFirst'
  BY <1>6 DEF IInv, AnsweredFirst
<1>8. FlagOK'
  <2> SUFFICES ASSUME "released" \notin history, NEW j \in Deletes'
               PROVE  waiting /\ \A k \in Deletes' : j = k
    BY <1>1 DEF FlagOK
  <2>1. waiting
    BY <1>6 DEF IInv, FlagOK, Deletes
  <2>2. ASSUME NEW k \in Deletes'
        PROVE  ~(j < k) /\ ~(k < j) /\ j \in Nat /\ k \in Nat
    <3>1. j \in DOMAIN requests' /\ k \in DOMAIN requests' /\ requests'[j].op = "delete" /\ requests'[k].op = "delete"
      BY DEF Deletes
    <3>2. PICK m \in DOMAIN requests, n \in DOMAIN requests :
            requests'[j] = requests[m] /\ requests'[k] = requests[n] /\ (j < k => m < n) /\ (k < j => n < m)
      BY <1>6, <3>1
    <3>3. m = n
      BY <3>1, <3>2 DEF IInv, FlagOK, Deletes
    <3> QED BY <1>2, <1>3, <3>1, <3>2, <3>3
  <2> QED BY <2>1, <2>2
<1>9. OrderOK' /\ PatientOK'
  BY <1>1 DEF OrderOK, PatientOK
<1> QED BY <1>4, <1>5, <1>7, <1>8, <1>9 DEF IInv

------------------------------------------------------------------------------
LEMMA Inductive == Spec => []IInv
<1>1. Init => IInv
  <2> SUFFICES ASSUME Init PROVE IInv
    OBVIOUS
  <2>1. Original \in Layouts /\ 0 \in 0..Slots /\ MaxRequests \in Nat /\ MaxInFlight \in Nat
    BY ManualAssumption
  <2>2. requests = <<>> /\ requests \in Seq(RequestType) /\ Len(requests) = 0 /\ DOMAIN requests = {}
    BY EmptySeq, LenProperties DEF Init
  <2>3. BootIndex(Original) \in Nat
    BY <2>1, BootIndexType
  <2>4. selected \in Nat \X (0..Slots)
    BY <2>1 DEF Init
  <2>5. TypeOK
    <3>1. layout \in Layouts /\ disks \in Layouts /\ bootDisk \in Nat
      BY <2>1, <2>3 DEF Init
    <3>2. sent \in 0..MaxRequests /\ Len(requests) <= MaxInFlight
      BY <2>1, <2>2 DEF Init
    <3>3. dialog \in RequestType \cup {NoDialog} /\ page \in {"manual", "failed", "left"} /\ waiting \in BOOLEAN
          /\ history \subseteq Histories
      BY DEF Init
    <3> QED BY <2>2, <2>4, <3>1, <3>2, <3>3 DEF TypeOK
  <2>6. SelectedDiskIsListed
    BY <2>1, LayoutType DEF Init, SelectedDiskIsListed, DiskIndex
  <2>7. DialogOK /\ FlagOK /\ AnsweredFirst /\ OrderOK
    BY <2>2 DEF Init, DialogOK, FlagOK, Deletes, AnsweredFirst, OrderOK
  <2>8. PatientOK
    BY <2>2 DEF Init, PatientOK
  <2> QED BY <2>5, <2>6, <2>7, <2>8 DEF IInv
<1>2. IInv /\ [Next]_vars => IInv'
  <2> SUFFICES ASSUME IInv, [Next]_vars PROVE IInv'
    OBVIOUS
  <2>1. CASE UNCHANGED vars
    BY <2>1 DEF vars, IInv, TypeOK, SelectedDiskIsListed, DiskIndex, DialogOK, FlagOK, Deletes,
                AnsweredFirst, OrderOK, PatientOK, OnTarget
  <2> QED BY <2>1, UserStep, ServeStep, AnswerStep, FailStep DEF Next, Reply
<1> QED BY <1>1, <1>2, PTL DEF Spec

------------------------------------------------------------------------------
\* List, selection, requests and configuration stay well typed: no request
\* and no answer leads outside the layouts, and indexes stay in range.
THEOREM TypeCorrect == Spec => []TypeOK
<1>1. IInv => TypeOK BY DEF IInv
<1> QED BY <1>1, Inductive, PTL

\* The selected disk is one of the list, however many disks have vanished.
THEOREM SelectionListed == Spec => []SelectedDiskIsListed
<1>1. IInv => SelectedDiskIsListed BY DEF IInv
<1> QED BY <1>1, Inductive, PTL

\* Two deletes are outstanding together only after the answer of another
\* request, for any number of outstanding requests.
THEOREM OneDelete == Spec => []DeletesOneByOne
<1>1. ASSUME FlagOK, "released" \notin history
      PROVE  Cardinality(Deletes) <= 1
  <2>1. CASE Deletes = {}
    BY <2>1, FS_EmptySet
  <2>2. CASE Deletes # {}
    <3>1. PICK i \in Deletes : Deletes = {i}
      BY <1>1, <2>2 DEF FlagOK
    <3> QED BY <3>1, FS_Singleton
  <2> QED BY <2>1, <2>2
<1>2. IInv => DeletesOneByOne
  BY <1>1 DEF IInv, DeletesOneByOne
<1> QED BY <1>2, Inductive, PTL

\* Answers that come in order leave the list and the boot disk of the server,
\* however many requests were outstanding together.
THEOREM ListServers == Spec => []ListIsServers
<1>1. ASSUME IInv PROVE ListIsServers
  <2> SUFFICES ASSUME requests = <<>>, history \cap {"overtaken", "failed"} = {}
               PROVE  disks = layout /\ bootDisk = BootIndex(layout)
    BY DEF ListIsServers, Busy
  <2>1. DOMAIN requests = {}
    BY EmptySeq, LenProperties DEF IInv, TypeOK
  <2> QED BY <1>1, <2>1 DEF IInv, OrderOK
<1> QED BY <1>1, Inductive, PTL

\* The requests of a user who waits for answers are carried out on the
\* partitions that he has seen, although numbers move.
THEOREM TargetShown == Spec => []TargetIsShown
<1>1. IInv => TargetIsShown
  BY DEF IInv, PatientOK, TargetIsShown
<1> QED BY <1>1, Inductive, PTL

\* The layout that such a user leaves with is complete.
THEOREM LeftComplete == Spec => []LeftIsComplete
<1>1. IInv => LeftIsComplete
  BY DEF IInv, PatientOK, LeftIsComplete, Complete
<1> QED BY <1>1, Inductive, PTL
=============================================================================
