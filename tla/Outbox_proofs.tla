---------------------------- MODULE Outbox_proofs ----------------------------
(* What the proofs about both outboxes share: facts about batches, the      *)
(* inductive invariants, and that the steps the stores have in common       *)
(* preserve them.                                                           *)
EXTENDS Outbox, SequenceTheorems, TLAPS

-------------------------------------------------------------------------------
(* Batches.                                                                 *)

NoRepeat(s) == \A j, k \in 1..Len(s) : s[j] = s[k] => j = k

LEMMA EmptyBatch ==
  /\ \A x : ~Contains(<<>>, x)
  /\ NoRepeat(<<>>)
BY DEF Contains, NoRepeat

\* The elements of a batch after a claim.
LEMMA AppendContains ==
  ASSUME NEW S, NEW s \in Seq(S), NEW x \in S
  PROVE  /\ Append(s, x) \in Seq(S)
         /\ Append(s, x) # <<>>
         /\ \A y : Contains(Append(s, x), y) <=> Contains(s, y) \/ y = x
         /\ NoRepeat(s) /\ ~Contains(s, x) => NoRepeat(Append(s, x))
<1>1. /\ Append(s, x) \in Seq(S)
      /\ Append(s, x) # <<>>
      /\ Len(Append(s, x)) = Len(s) + 1
      /\ \A i \in 1..Len(s) : Append(s, x)[i] = s[i]
      /\ Append(s, x)[Len(s) + 1] = x
  BY AppendProperties
<1>2. Len(s) \in Nat
  BY LenProperties
<1>3. \A i \in 1..(Len(s) + 1) : i \in 1..Len(s) \/ i = Len(s) + 1
  BY <1>2
<1>4. ASSUME NEW y PROVE Contains(Append(s, x), y) <=> Contains(s, y) \/ y = x
  BY <1>1, <1>2, <1>3 DEF Contains
<1>5. ASSUME NoRepeat(s), ~Contains(s, x) PROVE NoRepeat(Append(s, x))
  BY <1>1, <1>2, <1>3, <1>5 DEF Contains, NoRepeat
<1> QED
  BY <1>1, <1>4, <1>5

\* The head of a batch is in it, and not in the rest.
LEMMA TailContains ==
  ASSUME NEW S, NEW s \in Seq(S), s # <<>>
  PROVE  /\ Head(s) \in S
         /\ Tail(s) \in Seq(S)
         /\ Contains(s, Head(s))
         /\ \A y : Contains(Tail(s), y) => Contains(s, y)
         /\ NoRepeat(s) => NoRepeat(Tail(s)) /\ ~Contains(Tail(s), Head(s))
<1>1. /\ Head(s) \in S
      /\ Tail(s) \in Seq(S)
      /\ Len(Tail(s)) = Len(s) - 1
      /\ \A i \in 1..Len(Tail(s)) : Tail(s)[i] = s[i + 1]
  BY HeadTailProperties
<1>2. Len(s) \in Nat /\ Len(s) > 0 /\ Head(s) = s[1]
  BY EmptySeq, LenProperties
<1>3. \A i \in 1..Len(Tail(s)) : i + 1 \in 1..Len(s) /\ i + 1 # 1
  BY <1>1, <1>2
<1>4. Contains(s, Head(s))
  BY <1>2 DEF Contains
<1>5. ASSUME NEW y, Contains(Tail(s), y) PROVE Contains(s, y)
  BY <1>1, <1>3, <1>5 DEF Contains
<1>6. ASSUME NoRepeat(s) PROVE NoRepeat(Tail(s))
  <2> SUFFICES ASSUME NEW j \in 1..Len(Tail(s)), NEW k \in 1..Len(Tail(s)),
                      Tail(s)[j] = Tail(s)[k]
               PROVE  j = k
    BY DEF NoRepeat
  <2> QED
    BY <1>1, <1>2, <1>3, <1>6 DEF NoRepeat
<1>7. ASSUME NoRepeat(s) PROVE ~Contains(Tail(s), Head(s))
  BY <1>1, <1>2, <1>3, <1>7 DEF Contains, NoRepeat
<1> QED
  BY <1>1, <1>4, <1>5, <1>6, <1>7

\* A batch of rows stays one when rows are added.
LEMMA BatchGrows ==
  ASSUME NEW S, NEW T, S \subseteq T, NEW s \in Seq(S)
  PROVE  s \in Seq(T)
BY SeqDef

LEMMA FunctionIsSeq ==
  ASSUME NEW S, NEW n \in Nat, NEW s \in [1..n -> S]
  PROVE  s \in Seq(S)
BY SeqDef

\* What a batch holds are rows.
LEMMA BatchHoldsRows ==
  ASSUME NEW S, NEW s \in Seq(S), NEW x, Contains(s, x)
  PROVE  x \in S
BY ElementOfSeq DEF Contains

-------------------------------------------------------------------------------
(* The inductive invariants.                                                *)

\* TypeOK, and a drain that does not run has no batch.
TypeInv == TypeOK /\ \A d \in Drainers : pc[d] = "idle" => batch[d] = <<>>

\* Behind PublishedWasStored: a drain about to mark its row has had it confirmed.
Confirmed == \A d \in Drainers : pc[d] \in {"mark", "marking"} => copies[Current(d)] > 0
StoredInv == PublishedWasStored /\ Confirmed

\* Behind ClaimedOnce: a row is in one batch at most and once in it, where its
\* status is one of S during the claim and processing from then on.
HeldStatus(S, d) == IF pc[d] = "claim" THEN S ELSE {"processing"}
Owned(S) ==
  \A d \in Drainers :
    /\ NoRepeat(batch[d])
    /\ \A i \in DOMAIN rows :
         Contains(batch[d], i) => /\ rows[i].status \in HeldStatus(S, d)
                                  /\ \A c \in Drainers : Contains(batch[c], i) => c = d
OwnedInv(S) == ~Fault("lease") => Owned(S)

\* Behind PublishedOnce: a row the broker has is published, or about to be.
Marking(i) == \E d \in Drainers : pc[d] \in {"mark", "marking"} /\ Current(d) = i
StoredOnce == \A i \in DOMAIN rows : /\ copies[i] <= 1
                                     /\ copies[i] > 0 => rows[i].status = "published" \/ Marking(i)
OnceInv == setting.faults \subseteq {"broker"} => StoredOnce

-------------------------------------------------------------------------------
(* The beginning.                                                           *)

LEMMA InitTypes == Init => TypeInv
<1> SUFFICES ASSUME Init PROVE TypeInv
  OBVIOUS
<1>1. setting \in Setting /\ rows \in Seq(RowType)
  BY OutboxAssumption DEF Init, Setting
<1>2. batch \in [Drainers -> Seq(DOMAIN rows)]
  BY EmptySeq DEF Init
<1> QED
  BY <1>1, <1>2 DEF Init, TypeInv, TypeOK, Statuses

LEMMA InitInvariants == Init => StoredInv /\ (\A S : OwnedInv(S)) /\ OnceInv
<1> SUFFICES ASSUME Init PROVE StoredInv /\ (\A S : OwnedInv(S)) /\ OnceInv
  OBVIOUS
<1>1. StoredInv
  BY DEF Init, StoredInv, PublishedWasStored, Confirmed
<1>2. \A S : OwnedInv(S)
  BY EmptyBatch DEF Init, OwnedInv, Owned
<1>3. OnceInv
  BY DEF Init, OnceInv, StoredOnce
<1> QED
  BY <1>1, <1>2, <1>3

-------------------------------------------------------------------------------
(* The steps that both stores take.                                         *)

Abandoned(d) == Abandon(d) /\ UNCHANGED rows /\ (Fault("crash") \/ Fault("store"))

Shared == \/ \E k \in Keys : Enqueue(k)
          \/ \E d \in Drainers : \/ StartDrain(d)
                                 \/ PublishConfirmed(d) \/ PublishFails(d) \/ MarkFails(d)
                                 \/ Abandoned(d)
          \/ \E i \in DOMAIN rows : ClaimExpires(i)
          \/ UNCHANGED vars

\* The row a drain works on is one, and in its batch.
LEMMA CurrentIsHeld ==
  ASSUME TypeOK, NEW d \in Drainers, pc[d] \notin {"idle", "claim"}
  PROVE  /\ Current(d) \in DOMAIN rows
         /\ Contains(batch[d], Current(d))
BY TailContains DEF TypeOK, Current

\* What setting a status changes.
LEMMA StatusIsSet ==
  ASSUME TypeOK, NEW i \in DOMAIN rows, NEW t \in Statuses, SetStatus(i, t)
  PROVE  /\ rows' \in Seq(RowType)
         /\ DOMAIN rows' = DOMAIN rows
         /\ rows'[i].status = t
         /\ \A j \in DOMAIN rows : /\ rows'[j].key = rows[j].key
                                   /\ j # i => rows'[j] = rows[j]
<1>1. rows \in [1..Len(rows) -> RowType] /\ DOMAIN rows = 1..Len(rows) /\ Len(rows) \in Nat
  BY LenProperties DEF TypeOK
<1>2. /\ rows' \in [1..Len(rows) -> RowType]
      /\ DOMAIN rows' = DOMAIN rows
  BY <1>1 DEF SetStatus, RowType
<1>3. rows' \in Seq(RowType)
  BY <1>1, <1>2, FunctionIsSeq
<1> QED
  BY <1>1, <1>2, <1>3 DEF SetStatus, RowType

\* What a message that the broker stores changes.
LEMMA CopyIsStored ==
  ASSUME copies \in [DOMAIN rows -> Nat], NEW i \in DOMAIN rows, Store(i)
  PROVE  /\ copies' \in [DOMAIN rows -> Nat]
         /\ copies'[i] > 0
         /\ \A j \in DOMAIN rows : copies[j] > 0 => copies'[j] > 0
<1> DEFINE n == IF copies[i] < MaxCopies THEN copies[i] + 1 ELSE copies[i]
<1>1. n \in Nat /\ n > 0
  <2>1. copies[i] \in Nat
    OBVIOUS
  <2> QED
    BY <2>1, OutboxAssumption
<1>2. copies' = [copies EXCEPT ![i] = n]
  BY DEF Store
<1> HIDE DEF n
<1> QED
  BY <1>1, <1>2

\* What storing a row changes.
LEMMA RowIsAdded ==
  ASSUME TypeOK, NEW k \in Keys, Enqueue(k)
  PROVE  /\ rows' \in Seq(RowType)
         /\ DOMAIN rows \subseteq DOMAIN rows'
         /\ copies' \in [DOMAIN rows' -> Nat]
         /\ \A i \in DOMAIN rows : rows'[i] = rows[i] /\ copies'[i] = copies[i]
         /\ \A i \in DOMAIN rows' \ DOMAIN rows : rows'[i].status = "pending" /\ copies'[i] = 0
<1> DEFINE row == [key |-> k, status |-> "pending"]
<1>1. row \in RowType
  BY DEF RowType, Statuses
<1>2. rows \in Seq(RowType) /\ rows' = Append(rows, row) /\ copies' = Append(copies, 0)
  BY DEF TypeOK, Enqueue
<1> HIDE DEF row
<1>3. /\ rows' \in Seq(RowType)
      /\ Len(rows) \in Nat /\ DOMAIN rows = 1..Len(rows) /\ DOMAIN rows' = 1..(Len(rows) + 1)
      /\ \A i \in DOMAIN rows : rows'[i] = rows[i]
      /\ rows'[Len(rows) + 1] = row
  BY <1>1, <1>2, AppendProperties, LenProperties
<1>4. copies \in [1..Len(rows) -> Nat]
  BY <1>3 DEF TypeOK
<1>5. copies \in Seq(Nat)
  BY <1>3, <1>4, FunctionIsSeq
<1>6. Len(copies) = Len(rows)
  BY <1>3, <1>4, <1>5, LenProperties
<1>7. /\ copies' \in Seq(Nat) /\ Len(copies') = Len(rows) + 1
      /\ \A i \in DOMAIN rows : copies'[i] = copies[i]
      /\ copies'[Len(rows) + 1] = 0
  BY <1>2, <1>3, <1>5, <1>6, AppendProperties
<1>8. copies' \in [DOMAIN rows' -> Nat]
  BY <1>3, <1>7, LenProperties
<1>9. \A i \in DOMAIN rows' \ DOMAIN rows : i = Len(rows) + 1
  BY <1>3
<1> QED
  BY <1>3, <1>7, <1>8, <1>9 DEF row

\* Turning to the next row, under whatever status the current one is left in.
LEMMA RowIsLeft ==
  ASSUME TypeInv, NEW d \in Drainers, pc[d] \notin {"idle", "claim"}, NextRow(d)
  PROVE  /\ Current(d) \in DOMAIN rows /\ Contains(batch[d], Current(d))
         /\ batch' \in [Drainers -> Seq(DOMAIN rows)]
         /\ pc' \in [Drainers -> {"idle", "claim", "publish", "mark", "marking",
                                   "release", "releasing"}]
         /\ seen' \in [Drainers -> Statuses \cup {"none"}]
         /\ pc'[d] \in {"idle", "publish"}
         /\ pc'[d] = "idle" <=> batch'[d] = <<>>
         /\ \A c \in Drainers : c # d => pc'[c] = pc[c] /\ batch'[c] = batch[c]
         /\ \A i : Contains(batch'[d], i) => Contains(batch[d], i)
         /\ NoRepeat(batch[d]) => NoRepeat(batch'[d]) /\ ~Contains(batch'[d], Current(d))
<1>0. /\ pc'[d] \in {"idle", "publish"}
      /\ pc' = [pc EXCEPT ![d] = pc'[d]] /\ seen' = [seen EXCEPT ![d] = "none"]
  BY DEF NextRow, Goto, TypeInv, TypeOK
<1>1. batch[d] \in Seq(DOMAIN rows) /\ batch[d] # <<>>
  BY DEF TypeInv, TypeOK
<1>2. batch'[d] = Tail(batch[d])
  BY DEF NextRow, TypeInv, TypeOK
<1>3. batch' \in [Drainers -> Seq(DOMAIN rows)]
  BY <1>1, TailContains DEF NextRow, TypeInv, TypeOK
<1>4. /\ pc' \in [Drainers -> {"idle", "claim", "publish", "mark", "marking",
                                "release", "releasing"}]
      /\ seen' \in [Drainers -> Statuses \cup {"none"}]
  BY <1>0 DEF TypeInv, TypeOK
<1> QED
  BY <1>0, <1>4, <1>1, <1>2, <1>3, TailContains DEF NextRow, Goto, Current, TypeInv, TypeOK

\* A step that leaves the number of rows alone keeps batches well typed.
LEMMA SharedTypes == TypeInv /\ Shared => TypeInv'
<1> SUFFICES ASSUME TypeInv, Shared PROVE TypeInv'
  OBVIOUS
<1> USE DEF TypeInv, TypeOK, Goto
<1>1. ASSUME NEW k \in Keys, Enqueue(k) PROVE TypeInv'
  <2>1. \A d \in Drainers : batch[d] \in Seq(DOMAIN rows')
    BY <1>1, RowIsAdded, BatchGrows
  <2> QED
    BY <1>1, <2>1, RowIsAdded DEF Enqueue
<1>2. ASSUME NEW d \in Drainers, StartDrain(d) PROVE TypeInv'
  BY <1>2 DEF StartDrain
<1>3. ASSUME NEW d \in Drainers, PublishConfirmed(d) PROVE TypeInv'
  <2>1. Current(d) \in DOMAIN rows
    BY <1>3, CurrentIsHeld DEF PublishConfirmed
  <2>2. copies' \in [DOMAIN rows -> Nat]
    BY <1>3, <2>1, CopyIsStored DEF PublishConfirmed
  <2> QED
    BY <1>3, <2>2 DEF PublishConfirmed
<1>4. ASSUME NEW d \in Drainers, PublishFails(d) PROVE TypeInv'
  <2>1. Current(d) \in DOMAIN rows
    BY <1>4, CurrentIsHeld DEF PublishFails
  <2>2. copies' \in [DOMAIN rows -> Nat]
    BY <1>4, <2>1, CopyIsStored DEF PublishFails
  <2> QED
    BY <1>4, <2>2 DEF PublishFails
<1>5. ASSUME NEW d \in Drainers, MarkFails(d) PROVE TypeInv'
  BY <1>5 DEF MarkFails
<1>6. ASSUME NEW d \in Drainers, Abandoned(d) PROVE TypeInv'
  BY <1>6, EmptySeq DEF Abandoned, Abandon
<1>7. ASSUME NEW i \in DOMAIN rows, ClaimExpires(i) PROVE TypeInv'
  <2>1. /\ rows' \in Seq(RowType)
        /\ DOMAIN rows' = DOMAIN rows
    BY <1>7, StatusIsSet DEF ClaimExpires, Statuses
  <2> QED
    BY <1>7, <2>1 DEF ClaimExpires
<1>8. CASE UNCHANGED vars
  BY <1>8 DEF vars
<1> QED
  BY <1>1, <1>2, <1>3, <1>4, <1>5, <1>6, <1>7, <1>8 DEF Shared

\* Published rows stay stored: shared steps mark nothing, and who is about to
\* mark has just had a confirm.
LEMMA SharedStored == TypeInv /\ StoredInv /\ Shared => StoredInv'
<1> SUFFICES ASSUME TypeInv, StoredInv, Shared PROVE StoredInv'
  OBVIOUS
<1> USE DEF TypeInv, StoredInv, PublishedWasStored, Confirmed, Goto, Current
<1>1. ASSUME NEW k \in Keys, Enqueue(k) PROVE StoredInv'
  <2>1. \A d \in Drainers : pc[d] \in {"mark", "marking"} => Current(d) \in DOMAIN rows
    BY CurrentIsHeld
  <2> QED
    BY <1>1, <2>1, RowIsAdded DEF Enqueue
<1>2. ASSUME NEW d \in Drainers, StartDrain(d) PROVE StoredInv'
  BY <1>2 DEF StartDrain, TypeOK
<1>3. ASSUME NEW d \in Drainers, PublishConfirmed(d) PROVE StoredInv'
  <2>1. \A c \in Drainers : pc[c] \in {"publish", "mark", "marking"} => Current(c) \in DOMAIN rows
    BY CurrentIsHeld
  <2>2. /\ copies'[Current(d)] > 0
        /\ \A i \in DOMAIN rows : copies[i] > 0 => copies'[i] > 0
    BY <1>3, <2>1, CopyIsStored DEF PublishConfirmed, TypeOK
  <2> QED
    BY <1>3, <2>1, <2>2 DEF PublishConfirmed, TypeOK
<1>4. ASSUME NEW d \in Drainers, PublishFails(d) PROVE StoredInv'
  <2>1. \A c \in Drainers : pc[c] \in {"publish", "mark", "marking"} => Current(c) \in DOMAIN rows
    BY CurrentIsHeld
  <2>2. \A i \in DOMAIN rows : copies[i] > 0 => copies'[i] > 0
    BY <1>4, <2>1, CopyIsStored DEF PublishFails, TypeOK
  <2> QED
    BY <1>4, <2>1, <2>2 DEF PublishFails, TypeOK
<1>5. ASSUME NEW d \in Drainers, MarkFails(d) PROVE StoredInv'
  BY <1>5 DEF MarkFails, TypeOK
<1>6. ASSUME NEW d \in Drainers, Abandoned(d) PROVE StoredInv'
  BY <1>6 DEF Abandoned, Abandon, TypeOK
<1>7. ASSUME NEW i \in DOMAIN rows, ClaimExpires(i) PROVE StoredInv'
  BY <1>7, StatusIsSet DEF ClaimExpires, Statuses
<1>8. CASE UNCHANGED vars
  BY <1>8 DEF vars
<1> QED
  BY <1>1, <1>2, <1>3, <1>4, <1>5, <1>6, <1>7, <1>8 DEF Shared

\* No shared step claims a row, and a claim does not expire under its drain.
LEMMA SharedOwned ==
  ASSUME NEW S
  PROVE  TypeInv /\ OwnedInv(S) /\ Shared => OwnedInv(S)'
<1> SUFFICES ASSUME TypeInv, Owned(S), Shared, ~Fault("lease") PROVE Owned(S)'
  BY DEF OwnedInv, Fault, Shared, Enqueue, StartDrain, PublishConfirmed, PublishFails, MarkFails,
         Abandoned, Abandon, ClaimExpires, vars
<1> USE DEF TypeInv, Owned, HeldStatus, Goto
<1>1. ASSUME NEW k \in Keys, Enqueue(k) PROVE Owned(S)'
  <2>1. \A d \in Drainers, i \in DOMAIN rows' : Contains(batch[d], i) => i \in DOMAIN rows
    BY BatchHoldsRows DEF TypeOK
  <2> QED
    BY <1>1, <2>1, RowIsAdded DEF Enqueue
<1>2. ASSUME NEW d \in Drainers, StartDrain(d) PROVE Owned(S)'
  <2>1. batch[d] = <<>>
    BY <1>2 DEF StartDrain
  <2> QED
    BY <1>2, <2>1, EmptyBatch DEF StartDrain, TypeOK
<1>3. ASSUME NEW d \in Drainers, PublishConfirmed(d) PROVE Owned(S)'
  BY <1>3 DEF PublishConfirmed, TypeOK
<1>4. ASSUME NEW d \in Drainers, PublishFails(d) PROVE Owned(S)'
  BY <1>4 DEF PublishFails, TypeOK
<1>5. ASSUME NEW d \in Drainers, MarkFails(d) PROVE Owned(S)'
  BY <1>5 DEF MarkFails, TypeOK
<1>6. ASSUME NEW d \in Drainers, Abandoned(d) PROVE Owned(S)'
  BY <1>6, EmptyBatch DEF Abandoned, Abandon, TypeOK
<1>7. ASSUME NEW i \in DOMAIN rows, ClaimExpires(i) PROVE Owned(S)'
  BY <1>7, StatusIsSet DEF ClaimExpires, Statuses
<1>8. CASE UNCHANGED vars
  BY <1>8 DEF vars
<1> QED
  BY <1>1, <1>2, <1>3, <1>4, <1>5, <1>6, <1>7, <1>8 DEF Shared

\* A row is published by the one drain that holds it, and only while it is
\* processing.
LEMMA SharedOnce ==
  ASSUME NEW S
  PROVE  TypeInv /\ OwnedInv(S) /\ OnceInv /\ Shared => OnceInv'
<1> SUFFICES ASSUME TypeInv, OwnedInv(S), StoredOnce, Shared, setting.faults \subseteq {"broker"}
             PROVE  StoredOnce'
  BY DEF OnceInv, Shared, Enqueue, StartDrain, PublishConfirmed, PublishFails, MarkFails,
         Abandoned, Abandon, ClaimExpires, vars
<1> USE DEF TypeInv, StoredOnce, Marking, Goto
<1>0. Owned(S)
  BY DEF OwnedInv, Fault
<1>1. ASSUME NEW k \in Keys, Enqueue(k) PROVE StoredOnce'
  BY <1>1, RowIsAdded DEF Enqueue, Current
<1>2. ASSUME NEW d \in Drainers, StartDrain(d) PROVE StoredOnce'
  BY <1>2 DEF StartDrain, TypeOK, Current
<1>3. ASSUME NEW d \in Drainers, PublishConfirmed(d) PROVE StoredOnce'
  <2> PICK i \in DOMAIN rows : i = Current(d)
    BY <1>3, CurrentIsHeld DEF PublishConfirmed
  <2>1. Contains(batch[d], i) /\ rows[i].status = "processing"
    BY <1>3, <1>0, CurrentIsHeld DEF PublishConfirmed, Owned, HeldStatus
  <2>2. ~Marking(i)
    BY <1>3, <1>0, <2>1, CurrentIsHeld DEF PublishConfirmed, Owned
  <2>3. copies[i] = 0
    <3>1. copies[i] \in Nat
      BY DEF TypeOK
    <3>2. ~(copies[i] > 0)
      BY <2>1, <2>2
    <3> QED
      BY <3>1, <3>2
  <2>4. copies' = [copies EXCEPT ![i] = IF copies[i] < MaxCopies THEN copies[i] + 1 ELSE copies[i]]
    BY <1>3 DEF PublishConfirmed, Store
  <2>5. /\ copies'[i] = 1
        /\ \A j \in DOMAIN rows : j # i => copies'[j] = copies[j]
    BY <2>3, <2>4, OutboxAssumption DEF TypeOK
  <2>6. pc' = [pc EXCEPT ![d] = "mark"] /\ UNCHANGED <<rows, batch>>
    BY <1>3 DEF PublishConfirmed
  <2>7. /\ Marking(i)'
        /\ \A j \in DOMAIN rows : Marking(j) => Marking(j)'
    BY <1>3, <2>6 DEF PublishConfirmed, Current, TypeOK
  <2> QED
    BY <2>5, <2>6, <2>7
<1>4. ASSUME NEW d \in Drainers, PublishFails(d) PROVE StoredOnce'
  BY <1>4 DEF PublishFails, TypeOK, Current, Fault
<1>5. ASSUME NEW d \in Drainers, MarkFails(d) PROVE FALSE
  BY <1>5 DEF MarkFails, Fault
<1>6. ASSUME NEW d \in Drainers, Abandoned(d) PROVE FALSE
  BY <1>6 DEF Abandoned, Fault
<1>7. ASSUME NEW i \in DOMAIN rows, ClaimExpires(i) PROVE StoredOnce'
  BY <1>7, StatusIsSet DEF ClaimExpires, Statuses, Current
<1>8. CASE UNCHANGED vars
  BY <1>8 DEF vars, Current
<1> QED
  BY <1>1, <1>2, <1>3, <1>4, <1>5, <1>6, <1>7, <1>8 DEF Shared
===============================================================================
