-------------------------- MODULE PricerOutbox_proofs --------------------------
(* Theorems about the outbox of the pricer, for every number of drains, rows *)
(* and settings.                                                             *)
EXTENDS PricerOutbox, Outbox_proofs

\* In this store a row keeps its status until the claim commits, and while drains
\* keep their leases what a mark or a release has read is still so when it writes.
ReadsHold == \A d \in Drainers : pc[d] \in {"marking", "releasing"} => seen[d] = "processing"
Own == OwnedInv({"pending", "stale"}) /\ (~Fault("lease") => ReadsHold)

\* The steps that end with the next row.
Settles(d) == MarkWrites(d) \/ ReleaseSkips(d) \/ ReleaseWrites(d)

LEMMA Steps ==
  [Next]_vars => \/ Shared
                 \/ \E d \in Drainers : \/ ClaimNext(d) \/ ClaimCommits(d)
                                        \/ MarkReads(d) \/ ReleaseReads(d) \/ Settles(d)
BY DEF Next, DrainStep, ClaimFails, ReleaseFails, Crash, Shared, Abandoned, Settles

\* The row that a claim locks.
LEMMA ClaimTakes ==
  ASSUME TypeInv, NEW d \in Drainers, ClaimNext(d)
  PROVE  \E i \in DOMAIN rows :
           /\ rows[i].status \in {"pending", "stale"}
           /\ ~Contains(batch[d], i) /\ ~Locked(i)
           /\ batch' \in [Drainers -> Seq(DOMAIN rows)]
           /\ \A c \in Drainers : c # d => batch'[c] = batch[c]
           /\ batch'[d] # <<>>
           /\ \A j : Contains(batch'[d], j) <=> Contains(batch[d], j) \/ j = i
           /\ NoRepeat(batch[d]) => NoRepeat(batch'[d])
<1>1. PICK i \in DOMAIN rows : /\ rows[i].status \in {"pending", "stale"}
                               /\ ~Contains(batch[d], i) /\ ~Locked(i)
                               /\ batch' = [batch EXCEPT ![d] = Append(batch[d], i)]
  BY DEF ClaimNext, Oldest, Claimable
<1>2. batch[d] \in Seq(DOMAIN rows)
  BY DEF TypeInv, TypeOK
<1>3. /\ batch'[d] = Append(batch[d], i)
      /\ batch' \in [Drainers -> Seq(DOMAIN rows)]
      /\ \A c \in Drainers : c # d => batch'[c] = batch[c]
  BY <1>1, <1>2, AppendContains DEF TypeInv, TypeOK
<1> QED
  BY <1>1, <1>2, <1>3, AppendContains

\* What the commit of a claim changes.
LEMMA ClaimIsWritten ==
  ASSUME TypeInv, NEW d \in Drainers, ClaimCommits(d)
  PROVE  /\ rows' \in Seq(RowType) /\ DOMAIN rows' = DOMAIN rows
         /\ \A i \in DOMAIN rows :
              /\ rows'[i].key = rows[i].key
              /\ Contains(batch[d], i) => rows'[i].status = "processing"
              /\ ~Contains(batch[d], i) => rows'[i] = rows[i]
<1>1. rows \in [1..Len(rows) -> RowType] /\ DOMAIN rows = 1..Len(rows) /\ Len(rows) \in Nat
  BY LenProperties DEF TypeInv, TypeOK
<1>2. /\ rows' \in [1..Len(rows) -> RowType]
      /\ DOMAIN rows' = DOMAIN rows
  BY <1>1 DEF ClaimCommits, RowType, Statuses
<1>3. rows' \in Seq(RowType)
  BY <1>1, <1>2, FunctionIsSeq
<1> QED
  BY <1>1, <1>2, <1>3 DEF ClaimCommits, RowType

\* What the end of a mark or a release changes.
LEMMA RowIsSettled ==
  ASSUME TypeInv, NEW d \in Drainers, Settles(d)
  PROVE  /\ pc[d] \in {"marking", "release", "releasing"}
         /\ NextRow(d) /\ UNCHANGED <<copies, setting>>
         /\ rows' \in Seq(RowType) /\ DOMAIN rows' = DOMAIN rows
         /\ \A i \in DOMAIN rows :
              /\ rows'[i].key = rows[i].key
              /\ i # Current(d) => rows'[i] = rows[i]
         /\ rows'[Current(d)].status = "published" =>
              pc[d] = "marking" \/ rows[Current(d)].status = "published"
         /\ pc[d] = "marking" /\ seen[d] # "published" => rows'[Current(d)].status = "published"
<1>1. pc[d] \in {"marking", "release", "releasing"} /\ NextRow(d) /\ UNCHANGED <<copies, setting>>
  BY DEF Settles, MarkWrites, ReleaseSkips, ReleaseWrites
<1>2. Current(d) \in DOMAIN rows
  BY <1>1, CurrentIsHeld DEF TypeInv
<1>3. CASE MarkWrites(d)
  BY <1>1, <1>2, <1>3, StatusIsSet DEF MarkWrites, TypeInv, TypeOK, Statuses
<1>4. CASE ReleaseSkips(d)
  BY <1>1, <1>4 DEF ReleaseSkips, TypeInv, TypeOK
<1>5. CASE ReleaseWrites(d)
  BY <1>1, <1>2, <1>5, StatusIsSet DEF ReleaseWrites, TypeInv, Statuses
<1> QED
  BY <1>3, <1>4, <1>5 DEF Settles

\* A mark or a release reads the current row and changes nothing else.
LEMMA RowIsRead ==
  ASSUME TypeInv, NEW d \in Drainers, MarkReads(d) \/ ReleaseReads(d)
  PROVE  /\ UNCHANGED <<rows, copies, batch, setting>>
         /\ seen'[d] = rows[Current(d)].status
         /\ seen' \in [Drainers -> Statuses \cup {"none"}]
         /\ \A c \in Drainers : c # d => pc'[c] = pc[c] /\ seen'[c] = seen[c]
         /\ \/ pc[d] = "mark" /\ pc' = [pc EXCEPT ![d] = "marking"]
            \/ pc[d] = "release" /\ pc' = [pc EXCEPT ![d] = "releasing"]
<1>1. pc[d] \in {"mark", "release"}
  BY DEF MarkReads, ReleaseReads
<1>2. rows[Current(d)].status \in Statuses
  <2>1. Current(d) \in DOMAIN rows
    BY <1>1, CurrentIsHeld DEF TypeInv
  <2>2. rows[Current(d)] \in RowType
    BY <2>1, ElementOfSeq, LenProperties DEF TypeInv, TypeOK
  <2> QED
    BY <2>2 DEF RowType
<1> QED
  BY <1>1, <1>2 DEF MarkReads, ReleaseReads, Read, Goto, TypeInv, TypeOK

-------------------------------------------------------------------------------
LEMMA TypeStep == TypeInv /\ [Next]_vars => TypeInv'
<1> SUFFICES ASSUME TypeInv, [Next]_vars PROVE TypeInv'
  OBVIOUS
<1>1. ASSUME NEW d \in Drainers, ClaimNext(d) PROVE TypeInv'
  <2>1. pc[d] = "claim" /\ UNCHANGED <<rows, copies, pc, seen, setting>>
    BY <1>1 DEF ClaimNext
  <2> QED
    BY <1>1, <2>1, ClaimTakes DEF TypeInv, TypeOK
<1>2. ASSUME NEW d \in Drainers, ClaimCommits(d) PROVE TypeInv'
  <2>1. rows' \in Seq(RowType) /\ DOMAIN rows' = DOMAIN rows
    BY <1>2, ClaimIsWritten
  <2>2. /\ pc' = [pc EXCEPT ![d] = IF batch[d] = <<>> THEN "idle" ELSE "publish"]
        /\ UNCHANGED <<copies, batch, seen, setting>>
    BY <1>2 DEF ClaimCommits, Goto
  <2> QED
    BY <2>1, <2>2 DEF TypeInv, TypeOK
<1>3. ASSUME NEW d \in Drainers, MarkReads(d) \/ ReleaseReads(d) PROVE TypeInv'
  BY <1>3, RowIsRead DEF TypeInv, TypeOK
<1>4. ASSUME NEW d \in Drainers, Settles(d) PROVE TypeInv'
  <2>1. /\ pc[d] \in {"marking", "release", "releasing"}
        /\ NextRow(d) /\ UNCHANGED <<copies, setting>>
        /\ rows' \in Seq(RowType) /\ DOMAIN rows' = DOMAIN rows
    BY <1>4, RowIsSettled
  <2> QED
    BY <2>1, RowIsLeft DEF TypeInv, TypeOK
<1> QED
  BY <1>1, <1>2, <1>3, <1>4, Steps, SharedTypes

\* The types of TypeOK hold in every behaviour.
THEOREM PricerOutboxTypes == Spec => []TypeOK
<1>1. TypeInv => TypeOK
  BY DEF TypeInv
<1> QED
  BY <1>1, InitTypes, TypeStep, PTL DEF Spec

-------------------------------------------------------------------------------
(* Published means stored.                                                  *)

LEMMA StoredStep == TypeInv /\ StoredInv /\ [Next]_vars => StoredInv'
<1> SUFFICES ASSUME TypeInv, StoredInv, [Next]_vars PROVE StoredInv'
  OBVIOUS
<1> USE DEF StoredInv, PublishedWasStored, Confirmed
<1>1. ASSUME NEW d \in Drainers, ClaimNext(d) PROVE StoredInv'
  <2>1. pc[d] = "claim" /\ UNCHANGED <<rows, copies, pc>>
    BY <1>1 DEF ClaimNext
  <2> QED
    BY <1>1, <2>1, ClaimTakes DEF Current
<1>2. ASSUME NEW d \in Drainers, ClaimCommits(d) PROVE StoredInv'
  <2>1. Confirmed'
    BY <1>2 DEF ClaimCommits, Goto, Current, TypeInv, TypeOK
  <2>2. PublishedWasStored'
    BY <1>2, ClaimIsWritten DEF ClaimCommits
  <2> QED
    BY <2>1, <2>2
<1>3. ASSUME NEW d \in Drainers, MarkReads(d) \/ ReleaseReads(d) PROVE StoredInv'
  BY <1>3, RowIsRead DEF Current, TypeInv, TypeOK
<1>4. ASSUME NEW d \in Drainers, Settles(d) PROVE StoredInv'
  <2>1. Confirmed'
    BY <1>4, RowIsSettled, RowIsLeft DEF Current
  <2>2. PublishedWasStored'
    BY <1>4, RowIsSettled
  <2> QED
    BY <2>1, <2>2
<1> QED
  BY <1>1, <1>2, <1>3, <1>4, Steps, SharedStored

\* A row marked as published has reached the broker, whatever fails and however
\* many drains deal with it.
THEOREM PricerPublishedMeansStored == Spec => []PublishedWasStored
<1>1. StoredInv => PublishedWasStored
  BY DEF StoredInv
<1> QED
  BY <1>1, InitTypes, InitInvariants, TypeStep, StoredStep, PTL DEF Spec

-------------------------------------------------------------------------------
(* Drains share the rows.                                                   *)

\* What was read stays so: nobody else writes a row that a batch holds.
LEMMA ReadsStep ==
  TypeInv /\ Own /\ ~Fault("lease") /\ [Next]_vars => ReadsHold'
<1> SUFFICES ASSUME TypeInv, Own, ~Fault("lease"), [Next]_vars PROVE ReadsHold'
  OBVIOUS
<1> USE DEF ReadsHold
<1>1. CASE Shared
  BY <1>1 DEF Own, Shared, Enqueue, StartDrain, PublishConfirmed, PublishFails, MarkFails,
              Abandoned, Abandon, ClaimExpires, Goto, vars, TypeInv, TypeOK
<1>2. ASSUME NEW d \in Drainers, ClaimNext(d) \/ ClaimCommits(d) PROVE ReadsHold'
  BY <1>2 DEF Own, ClaimNext, ClaimCommits, Goto, TypeInv, TypeOK
<1>3. ASSUME NEW d \in Drainers, MarkReads(d) \/ ReleaseReads(d) PROVE ReadsHold'
  <2>1. rows[Current(d)].status = "processing"
    BY <1>3, CurrentIsHeld DEF MarkReads, ReleaseReads, Own, OwnedInv, Owned, HeldStatus, TypeInv
  <2> QED
    BY <1>3, <2>1, RowIsRead DEF Own, TypeInv, TypeOK
<1>4. ASSUME NEW d \in Drainers, Settles(d) PROVE ReadsHold'
  <2>1. NextRow(d) /\ pc[d] \notin {"idle", "claim"}
    BY <1>4, RowIsSettled
  <2>2. pc'[d] \in {"idle", "publish"}
    BY <2>1, RowIsLeft
  <2> QED
    BY <2>1, <2>2 DEF NextRow, Goto, Own, TypeInv, TypeOK
<1> QED
  BY <1>1, <1>2, <1>3, <1>4, Steps

LEMMA OwnStep == TypeInv /\ Own /\ [Next]_vars => Own'
<1> SUFFICES ASSUME TypeInv, Own, [Next]_vars PROVE Own'
  OBVIOUS
<1>0. setting' = setting
  BY Steps DEF Shared, Enqueue, StartDrain, PublishConfirmed, PublishFails, MarkFails, Abandoned,
               Abandon, ClaimExpires, vars, ClaimNext, ClaimCommits, MarkReads, ReleaseReads,
               Read, Settles, MarkWrites, ReleaseSkips, ReleaseWrites
<1> SUFFICES ASSUME Owned({"pending", "stale"}), ~Fault("lease"), ~Shared
             PROVE  Owned({"pending", "stale"})'
  BY <1>0, SharedOwned, ReadsStep DEF Own, OwnedInv, Fault
<1> USE DEF Owned, HeldStatus
<1>1. ASSUME NEW d \in Drainers, ClaimNext(d) PROVE Owned({"pending", "stale"})'
  <2>1. PICK i \in DOMAIN rows :
           /\ rows[i].status \in {"pending", "stale"}
           /\ ~Contains(batch[d], i) /\ ~Locked(i)
           /\ \A c \in Drainers : c # d => batch'[c] = batch[c]
           /\ \A j : Contains(batch'[d], j) <=> Contains(batch[d], j) \/ j = i
           /\ NoRepeat(batch[d]) => NoRepeat(batch'[d])
    BY <1>1, ClaimTakes
  <2>2. pc[d] = "claim" /\ UNCHANGED <<rows, pc>>
    BY <1>1 DEF ClaimNext
  <2>3. \A c \in Drainers : ~Contains(batch[c], i)
    BY <2>1 DEF Locked
  <2> QED
    BY <2>1, <2>2, <2>3
<1>2. ASSUME NEW d \in Drainers, ClaimCommits(d) PROVE Owned({"pending", "stale"})'
  <2>1. /\ pc[d] = "claim" /\ batch' = batch
        /\ pc'[d] # "claim" /\ \A c \in Drainers : c # d => pc'[c] = pc[c]
    BY <1>2 DEF ClaimCommits, Goto, TypeInv, TypeOK
  <2> QED
    BY <1>2, <2>1, ClaimIsWritten
<1>3. ASSUME NEW d \in Drainers, MarkReads(d) \/ ReleaseReads(d)
      PROVE  Owned({"pending", "stale"})'
  <2>1. UNCHANGED <<rows, batch>> /\ \A c \in Drainers : pc'[c] = "claim" <=> pc[c] = "claim"
    BY <1>3, RowIsRead DEF TypeInv, TypeOK
  <2> QED
    BY <2>1
<1>4. ASSUME NEW d \in Drainers, Settles(d) PROVE Owned({"pending", "stale"})'
  <2>1. /\ pc[d] \in {"marking", "release", "releasing"} /\ NextRow(d)
        /\ DOMAIN rows' = DOMAIN rows
        /\ \A i \in DOMAIN rows : i # Current(d) => rows'[i] = rows[i]
    BY <1>4, RowIsSettled
  <2>2. /\ \A c \in Drainers : c # d => batch'[c] = batch[c] /\ pc'[c] = pc[c]
        /\ pc'[d] # "claim"
        /\ \A i : Contains(batch'[d], i) => Contains(batch[d], i)
        /\ NoRepeat(batch'[d]) /\ ~Contains(batch'[d], Current(d))
        /\ Current(d) \in DOMAIN rows /\ Contains(batch[d], Current(d))
    BY <2>1, RowIsLeft
  <2> QED
    BY <2>1, <2>2
<1> QED
  BY <1>1, <1>2, <1>3, <1>4, Steps

LEMMA OwnInit == Init => Own
BY InitInvariants DEF Own, Init, ReadsHold

\* While no drain outlives its lease, a row is in one batch only: locked during
\* the claim, processing from its commit on.
THEOREM PricerRowsClaimedOnce == Spec => []ClaimedOnce
<1>1. Own => ClaimedOnce
  BY DEF Own, OwnedInv, Owned, HeldStatus, ClaimedOnce
<1> QED
  BY <1>1, InitTypes, OwnInit, TypeStep, OwnStep, PTL DEF Spec

-------------------------------------------------------------------------------
(* Published is final.                                                      *)

LEMMA FinalStep ==
  TypeInv /\ Own /\ [Next]_vars =>
    \A i \in DOMAIN rows :
      /\ i \in DOMAIN rows'
      /\ rows'[i].key = rows[i].key
      /\ rows[i].status = "published" /\ ~Fault("lease") => rows'[i] = rows[i]
<1> SUFFICES ASSUME TypeInv, Own, [Next]_vars, NEW i \in DOMAIN rows
             PROVE  /\ i \in DOMAIN rows'
                    /\ rows'[i].key = rows[i].key
                    /\ rows[i].status = "published" /\ ~Fault("lease") => rows'[i] = rows[i]
  OBVIOUS
<1>0. ASSUME ~Fault("lease"), rows[i].status = "published", NEW d \in Drainers
      PROVE  ~Contains(batch[d], i)
  BY <1>0 DEF Own, OwnedInv, Owned, HeldStatus
<1>1. CASE Shared
  <2>1. ASSUME NEW k \in Keys, Enqueue(k) PROVE i \in DOMAIN rows' /\ rows'[i] = rows[i]
    BY <2>1, RowIsAdded DEF TypeInv
  <2>2. ASSUME NEW j \in DOMAIN rows, ClaimExpires(j)
        PROVE  /\ i \in DOMAIN rows'
               /\ rows'[i].key = rows[i].key
               /\ rows[i].status = "published" => rows'[i] = rows[i]
    BY <2>2, StatusIsSet DEF ClaimExpires, TypeInv, Statuses
  <2> QED
    BY <1>1, <2>1, <2>2 DEF Shared, StartDrain, PublishConfirmed, PublishFails, MarkFails,
                            Abandoned, vars
<1>2. ASSUME NEW d \in Drainers, ClaimNext(d) \/ MarkReads(d) \/ ReleaseReads(d)
      PROVE  rows' = rows
  BY <1>2 DEF ClaimNext, MarkReads, ReleaseReads, Read
<1>3. ASSUME NEW d \in Drainers, ClaimCommits(d)
      PROVE  /\ i \in DOMAIN rows'
             /\ rows'[i].key = rows[i].key
             /\ rows[i].status = "published" /\ ~Fault("lease") => rows'[i] = rows[i]
  BY <1>0, <1>3, ClaimIsWritten
<1>4. ASSUME NEW d \in Drainers, Settles(d)
      PROVE  /\ i \in DOMAIN rows'
             /\ rows'[i].key = rows[i].key
             /\ rows[i].status = "published" /\ ~Fault("lease") => rows'[i] = rows[i]
  <2>1. Contains(batch[d], Current(d))
    BY <1>4, RowIsSettled, CurrentIsHeld DEF TypeInv
  <2> QED
    BY <1>0, <1>4, <2>1, RowIsSettled
<1> QED
  BY <1>1, <1>2, <1>3, <1>4, Steps

\* While no drain outlives its lease, a published row is never offered again
\* although marks and releases write what they decided on an older read: nobody
\* else writes the row in between.
THEOREM PricerPublishedIsFinal ==
  ASSUME \A s \in Settings : s.store = "sql"
  PROVE  Spec => PublishedIsFinal
<1>1. TypeInv => setting.store = "sql"
  BY DEF TypeInv, TypeOK
<1>2. TypeInv /\ Own /\ [Next]_vars =>
        [\A i \in DOMAIN rows :
           /\ i \in DOMAIN rows'
           /\ rows'[i].key = rows[i].key
           /\ rows[i].status = "published" /\ (setting.store = "sql" => ~Fault("lease"))
                => rows'[i] = rows[i]]_vars
  BY <1>1, FinalStep
<1> QED
  BY <1>2, InitTypes, OwnInit, TypeStep, OwnStep, PTL DEF Spec, PublishedIsFinal

-------------------------------------------------------------------------------
(* Rows are published once.                                                 *)

LEMMA OnceStep == TypeInv /\ Own /\ OnceInv /\ [Next]_vars => OnceInv'
<1> SUFFICES ASSUME TypeInv, Own, OnceInv, [Next]_vars, ~Shared PROVE OnceInv'
  BY SharedOnce DEF Own
<1> SUFFICES ASSUME StoredOnce, setting.faults \subseteq {"broker"} PROVE StoredOnce'
  BY Steps, RowIsSettled DEF OnceInv, ClaimNext, ClaimCommits, MarkReads, ReleaseReads, Read
<1>0. Owned({"pending", "stale"}) /\ ReadsHold
  BY DEF Own, OwnedInv, Fault
<1> USE DEF StoredOnce
<1>1. ASSUME NEW d \in Drainers, ClaimNext(d) PROVE StoredOnce'
  <2>1. pc[d] = "claim" /\ UNCHANGED <<rows, copies, pc>>
    BY <1>1 DEF ClaimNext
  <2>2. \A j \in DOMAIN rows : Marking(j) => Marking(j)'
    BY <1>1, <2>1, ClaimTakes DEF Marking, Current
  <2> QED
    BY <2>1, <2>2
<1>2. ASSUME NEW d \in Drainers, ClaimCommits(d) PROVE StoredOnce'
  <2>1. pc[d] = "claim" /\ UNCHANGED <<copies, batch>>
    BY <1>2 DEF ClaimCommits
  <2>2. \A j \in DOMAIN rows : Marking(j) => Marking(j)'
    BY <1>2 DEF ClaimCommits, Goto, Marking, Current, TypeInv, TypeOK
  <2>3. \A j \in DOMAIN rows : rows[j].status = "published" => ~Contains(batch[d], j)
    BY <1>0, <2>1 DEF Owned, HeldStatus
  <2> QED
    BY <1>2, <2>1, <2>2, <2>3, ClaimIsWritten
<1>3. ASSUME NEW d \in Drainers, MarkReads(d) \/ ReleaseReads(d) PROVE StoredOnce'
  <2>1. UNCHANGED <<rows, copies, batch>>
    BY <1>3, RowIsRead
  <2>2. \A j \in DOMAIN rows : Marking(j) => Marking(j)'
    BY <1>3, RowIsRead DEF Marking, Current, TypeInv, TypeOK
  <2> QED
    BY <2>1, <2>2
<1>4. ASSUME NEW d \in Drainers, Settles(d) PROVE StoredOnce'
  <2> PICK i \in DOMAIN rows : i = Current(d) /\ Contains(batch[d], i)
    BY <1>4, RowIsSettled, CurrentIsHeld DEF TypeInv
  <2>1. /\ pc[d] \in {"marking", "release", "releasing"} /\ NextRow(d) /\ UNCHANGED copies
        /\ DOMAIN rows' = DOMAIN rows /\ \A j \in DOMAIN rows : j # i => rows'[j] = rows[j]
    BY <1>4, RowIsSettled
  <2>2. \A j \in DOMAIN rows : j # i /\ Marking(j) => Marking(j)'
    <3>1. \A c \in Drainers : c # d => pc'[c] = pc[c] /\ batch'[c] = batch[c]
      BY <2>1, RowIsLeft
    <3> QED
      BY <3>1 DEF Marking, Current
  <2>3. CASE pc[d] = "marking"
    <3>1. rows'[i].status = "published"
      BY <1>0, <1>4, <2>3, RowIsSettled DEF ReadsHold
    <3> QED
      BY <2>1, <2>2, <3>1
  <2>4. CASE pc[d] \in {"release", "releasing"}
    <3>1. rows[i].status = "processing" /\ ~Marking(i)
      BY <1>0, <2>4, CurrentIsHeld DEF Marking, Owned, HeldStatus, TypeInv
    <3> QED
      BY <2>1, <2>2, <3>1
  <2> QED
    BY <2>1, <2>3, <2>4
<1> QED
  BY <1>1, <1>2, <1>3, <1>4, Steps

\* With no failure after the broker took a message, a row is published once
\* however many replicas drain.
THEOREM PricerRowsPublishedOnce == Spec => []PublishedOnce
<1>1. OnceInv => PublishedOnce
  BY DEF OnceInv, StoredOnce, PublishedOnce
<1>2. Init => OnceInv
  BY InitInvariants
<1> QED
  BY <1>1, <1>2, InitTypes, OwnInit, TypeStep, OwnStep, OnceStep, PTL DEF Spec
===============================================================================
