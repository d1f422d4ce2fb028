------------------------ MODULE EnrichmentOutbox_proofs ------------------------
(* Theorems about the outbox of the enrichment service, for every number of *)
(* drains, rows and settings.                                               *)
EXTENDS EnrichmentOutbox, Outbox_proofs

\* In this store a row is processing as soon as a batch has it.
Own == OwnedInv({"processing"})

\* A step is one of the steps both stores take, or one of these three.
LEMMA Steps ==
  [Next]_vars => \/ Shared
                 \/ \E d \in Drainers : \/ ClaimNext(d) \/ ClaimEnds(d)
                                        \/ MarkPublished(d) \/ ReleaseClaim(d)
BY DEF Next, DrainStep, ClaimFails, ReleaseFails, Crash, Shared, Abandoned

\* The row that a claim takes.
LEMMA ClaimTakes ==
  ASSUME TypeOK, NEW d \in Drainers, ClaimNext(d)
  PROVE  \E i \in DOMAIN rows : /\ rows[i].status \in {"legacy", "pending", "stale"}
                                /\ ~Contains(batch[d], i)
                                /\ SetStatus(i, "processing")
                                /\ batch' = [batch EXCEPT ![d] = Append(batch[d], i)]
BY DEF ClaimNext, Oldest, Claimable

\* What a mark or a release does to its row.
LEMMA RowIsSettled ==
  ASSUME TypeInv, NEW d \in Drainers, MarkPublished(d) \/ ReleaseClaim(d)
  PROVE  /\ rows' \in Seq(RowType) /\ DOMAIN rows' = DOMAIN rows
         /\ \A i \in DOMAIN rows :
              /\ rows'[i].key = rows[i].key
              /\ i # Current(d) \/ rows[i].status = "published" => rows'[i] = rows[i]
         /\ rows'[Current(d)].status = "published" =>
              MarkPublished(d) \/ rows[Current(d)].status = "published"
<1>1. Current(d) \in DOMAIN rows
  BY CurrentIsHeld DEF TypeInv, MarkPublished, ReleaseClaim
<1> QED
  BY <1>1, StatusIsSet DEF MarkPublished, ReleaseClaim, Claimed, TypeInv, TypeOK, Statuses

-------------------------------------------------------------------------------
LEMMA TypeStep == TypeInv /\ [Next]_vars => TypeInv'
<1> SUFFICES ASSUME TypeInv, [Next]_vars PROVE TypeInv'
  OBVIOUS
<1>1. ASSUME NEW d \in Drainers, ClaimNext(d) PROVE TypeInv'
  <2>1. PICK i \in DOMAIN rows : /\ SetStatus(i, "processing")
                                 /\ batch' = [batch EXCEPT ![d] = Append(batch[d], i)]
    BY <1>1, ClaimTakes DEF TypeInv
  <2>2. rows' \in Seq(RowType) /\ DOMAIN rows' = DOMAIN rows
    BY <2>1, StatusIsSet DEF TypeInv, Statuses
  <2>3. Append(batch[d], i) \in Seq(DOMAIN rows) /\ Append(batch[d], i) # <<>>
    BY AppendContains DEF TypeInv, TypeOK
  <2>4. batch' \in [Drainers -> Seq(DOMAIN rows)] /\ batch'[d] # <<>>
        /\ \A c \in Drainers : c # d => batch'[c] = batch[c]
    BY <2>1, <2>3 DEF TypeInv, TypeOK
  <2> QED
    BY <1>1, <2>2, <2>4 DEF ClaimNext, TypeInv, TypeOK
<1>2. ASSUME NEW d \in Drainers, ClaimEnds(d) PROVE TypeInv'
  BY <1>2 DEF ClaimEnds, Goto, TypeInv, TypeOK
<1>3. ASSUME NEW d \in Drainers, MarkPublished(d) \/ ReleaseClaim(d) PROVE TypeInv'
  <2>1. /\ pc[d] \in {"mark", "release"} /\ NextRow(d) /\ UNCHANGED <<copies, setting>>
    BY <1>3 DEF MarkPublished, ReleaseClaim
  <2>2. rows' \in Seq(RowType) /\ DOMAIN rows' = DOMAIN rows
    BY <1>3, RowIsSettled
  <2> QED
    BY <2>1, <2>2, RowIsLeft DEF TypeInv, TypeOK
<1> QED
  BY <1>1, <1>2, <1>3, Steps, SharedTypes

\* The types of TypeOK hold in every behaviour.
THEOREM EnrichmentOutboxTypes == Spec => []TypeOK
<1>1. TypeInv => TypeOK
  BY DEF TypeInv
<1> QED
  BY <1>1, InitTypes, TypeStep, PTL DEF Spec

-------------------------------------------------------------------------------
(* Published means stored.                                                  *)

LEMMA StoredStep == TypeInv /\ StoredInv /\ [Next]_vars => StoredInv'
<1> SUFFICES ASSUME TypeInv, StoredInv, [Next]_vars PROVE StoredInv'
  OBVIOUS
<1> USE DEF StoredInv, PublishedWasStored, Confirmed
<1>1. ASSUME NEW d \in Drainers, ClaimNext(d) PROVE StoredInv'
  <2>1. PICK i \in DOMAIN rows : /\ SetStatus(i, "processing")
                                 /\ batch' = [batch EXCEPT ![d] = Append(batch[d], i)]
    BY <1>1, ClaimTakes DEF TypeInv
  <2>2. \A c \in Drainers : c # d => batch'[c] = batch[c]
    BY <2>1 DEF TypeInv, TypeOK
  <2>3. pc[d] = "claim" /\ UNCHANGED <<copies, pc>>
    BY <1>1 DEF ClaimNext
  <2>4. Confirmed'
    BY <2>2, <2>3 DEF Current
  <2>5. PublishedWasStored'
    BY <2>1, <2>3, StatusIsSet DEF TypeInv, Statuses
  <2> QED
    BY <2>4, <2>5
<1>2. ASSUME NEW d \in Drainers, ClaimEnds(d) PROVE StoredInv'
  BY <1>2 DEF ClaimEnds, Goto, Current, TypeInv, TypeOK
<1>3. ASSUME NEW d \in Drainers, MarkPublished(d) \/ ReleaseClaim(d) PROVE StoredInv'
  <2>1. /\ pc[d] \in {"mark", "release"} /\ NextRow(d) /\ UNCHANGED <<copies, setting>>
        /\ MarkPublished(d) => pc[d] = "mark"
    BY <1>3 DEF MarkPublished, ReleaseClaim
  <2>2. Confirmed'
    BY <2>1, RowIsLeft DEF Current
  <2>3. PublishedWasStored'
    BY <1>3, <2>1, RowIsSettled
  <2> QED
    BY <2>2, <2>3
<1> QED
  BY <1>1, <1>2, <1>3, Steps, SharedStored

\* A row marked as published has reached the broker, whatever fails and however
\* many drains deal with it.
THEOREM EnrichmentPublishedMeansStored == Spec => []PublishedWasStored
<1>1. StoredInv => PublishedWasStored
  BY DEF StoredInv
<1> QED
  BY <1>1, InitTypes, InitInvariants, TypeStep, StoredStep, PTL DEF Spec

-------------------------------------------------------------------------------
(* Published is final.                                                      *)

LEMMA FinalStep ==
  TypeInv /\ [Next]_vars =>
    \A i \in DOMAIN rows : /\ i \in DOMAIN rows'
                           /\ rows'[i].key = rows[i].key
                           /\ rows[i].status = "published" => rows'[i] = rows[i]
<1> SUFFICES ASSUME TypeInv, [Next]_vars, NEW i \in DOMAIN rows
             PROVE  /\ i \in DOMAIN rows'
                    /\ rows'[i].key = rows[i].key
                    /\ rows[i].status = "published" => rows'[i] = rows[i]
  OBVIOUS
<1>1. CASE Shared
  <2>1. ASSUME NEW k \in Keys, Enqueue(k) PROVE i \in DOMAIN rows' /\ rows'[i] = rows[i]
    BY <2>1, RowIsAdded DEF TypeInv
  <2>2. ASSUME NEW j \in DOMAIN rows, ClaimExpires(j)
        PROVE  /\ i \in DOMAIN rows'
               /\ rows'[i].key = rows[i].key
               /\ rows[i].status = "published" => rows'[i] = rows[i]
    BY <2>2, StatusIsSet DEF ClaimExpires, TypeInv, Statuses
  <2> QED
    BY <1>1, <2>1, <2>2 DEF Shared, StartDrain, PublishConfirmed, PublishFails, MarkFails,
                            Abandoned, vars
<1>2. ASSUME NEW d \in Drainers, ClaimNext(d)
      PROVE  /\ i \in DOMAIN rows'
             /\ rows'[i].key = rows[i].key
             /\ rows[i].status = "published" => rows'[i] = rows[i]
  BY <1>2, ClaimTakes, StatusIsSet DEF TypeInv, Statuses
<1>3. ASSUME NEW d \in Drainers, ClaimEnds(d) PROVE rows' = rows
  BY <1>3 DEF ClaimEnds
<1>4. ASSUME NEW d \in Drainers, MarkPublished(d) \/ ReleaseClaim(d)
      PROVE  /\ i \in DOMAIN rows'
             /\ rows'[i].key = rows[i].key
             /\ rows[i].status = "published" => rows'[i] = rows[i]
  BY <1>4, RowIsSettled
<1> QED
  BY <1>1, <1>2, <1>3, <1>4, Steps

\* A published row is never offered again, even to a drain that outlives its
\* claim: every write of this store asks for the status it changes.
THEOREM EnrichmentPublishedIsFinal == Spec => PublishedIsFinal
<1>1. TypeInv /\ [Next]_vars =>
        [\A i \in DOMAIN rows :
           /\ i \in DOMAIN rows'
           /\ rows'[i].key = rows[i].key
           /\ rows[i].status = "published" /\ (setting.store = "sql" => ~Fault("lease"))
                => rows'[i] = rows[i]]_vars
  BY FinalStep
<1> QED
  BY <1>1, InitTypes, TypeStep, PTL DEF Spec, PublishedIsFinal

-------------------------------------------------------------------------------
(* Drains share the rows.                                                   *)

LEMMA OwnStep == TypeInv /\ Own /\ [Next]_vars => Own'
<1> SUFFICES ASSUME TypeInv, Own, [Next]_vars, ~Shared PROVE Own'
  BY SharedOwned DEF Own
<1> SUFFICES ASSUME Owned({"processing"}), ~Fault("lease") PROVE Owned({"processing"})'
  BY Steps DEF Own, OwnedInv, Fault, ClaimNext, ClaimEnds, MarkPublished, ReleaseClaim
<1> USE DEF Owned, HeldStatus
<1>1. ASSUME NEW d \in Drainers, ClaimNext(d) PROVE Owned({"processing"})'
  <2>1. PICK i \in DOMAIN rows : /\ rows[i].status \in {"legacy", "pending", "stale"}
                                 /\ ~Contains(batch[d], i)
                                 /\ SetStatus(i, "processing")
                                 /\ batch' = [batch EXCEPT ![d] = Append(batch[d], i)]
    BY <1>1, ClaimTakes DEF TypeInv
  <2>2. \A c \in Drainers : ~Contains(batch[c], i)
    BY <2>1
  <2>3. /\ NoRepeat(batch'[d])
        /\ \A j : Contains(batch'[d], j) <=> Contains(batch[d], j) \/ j = i
        /\ \A c \in Drainers : c # d => batch'[c] = batch[c]
    BY <2>1, AppendContains DEF TypeInv, TypeOK
  <2>4. /\ DOMAIN rows' = DOMAIN rows /\ rows'[i].status = "processing"
        /\ \A j \in DOMAIN rows : j # i => rows'[j] = rows[j]
    BY <2>1, StatusIsSet DEF TypeInv, Statuses
  <2> QED
    BY <2>2, <2>3, <2>4
<1>2. ASSUME NEW d \in Drainers, ClaimEnds(d) PROVE Owned({"processing"})'
  BY <1>2 DEF ClaimEnds
<1>3. ASSUME NEW d \in Drainers, MarkPublished(d) \/ ReleaseClaim(d)
      PROVE  Owned({"processing"})'
  <2>1. pc[d] \in {"mark", "release"} /\ NextRow(d)
    BY <1>3 DEF MarkPublished, ReleaseClaim
  <2>2. /\ \A c \in Drainers : c # d => batch'[c] = batch[c]
        /\ \A i : Contains(batch'[d], i) => Contains(batch[d], i)
        /\ NoRepeat(batch'[d]) /\ ~Contains(batch'[d], Current(d))
        /\ Current(d) \in DOMAIN rows /\ Contains(batch[d], Current(d))
    BY <2>1, RowIsLeft
  <2>3. /\ DOMAIN rows' = DOMAIN rows
        /\ \A i \in DOMAIN rows : i # Current(d) => rows'[i] = rows[i]
    BY <1>3, RowIsSettled
  <2> QED
    BY <2>2, <2>3
<1> QED
  BY <1>1, <1>2, <1>3, Steps

\* While no drain outlives its lease, a row is in one batch only, processing.
THEOREM EnrichmentRowsClaimedOnce == Spec => []ClaimedOnce
<1>1. Own => ClaimedOnce
  BY DEF Own, OwnedInv, Owned, HeldStatus, ClaimedOnce
<1>2. Init => Own
  BY InitInvariants DEF Own
<1> QED
  BY <1>1, <1>2, InitTypes, TypeStep, OwnStep, PTL DEF Spec

-------------------------------------------------------------------------------
(* Rows are published once.                                                 *)

LEMMA OnceStep == TypeInv /\ Own /\ OnceInv /\ [Next]_vars => OnceInv'
<1> SUFFICES ASSUME TypeInv, Own, OnceInv, [Next]_vars, ~Shared PROVE OnceInv'
  BY SharedOnce DEF Own
<1> SUFFICES ASSUME StoredOnce, setting.faults \subseteq {"broker"} PROVE StoredOnce'
  BY Steps DEF OnceInv, ClaimNext, ClaimEnds, MarkPublished, ReleaseClaim
<1>0. Owned({"processing"})
  BY DEF Own, OwnedInv, Fault
<1> USE DEF StoredOnce
<1>1. ASSUME NEW d \in Drainers, ClaimNext(d) PROVE StoredOnce'
  <2>1. PICK i \in DOMAIN rows : /\ rows[i].status \in {"legacy", "pending", "stale"}
                                 /\ SetStatus(i, "processing")
                                 /\ batch' = [batch EXCEPT ![d] = Append(batch[d], i)]
    BY <1>1, ClaimTakes DEF TypeInv
  <2>2. pc[d] = "claim" /\ UNCHANGED <<copies, pc>>
    BY <1>1 DEF ClaimNext
  <2>3. ~Marking(i)
    BY <2>1, <1>0, CurrentIsHeld DEF Marking, Owned, HeldStatus, TypeInv
  <2>4. \A j \in DOMAIN rows : Marking(j) => Marking(j)'
    BY <2>1, <2>2 DEF Marking, Current, TypeInv, TypeOK
  <2>5. /\ DOMAIN rows' = DOMAIN rows
        /\ \A j \in DOMAIN rows : j # i => rows'[j] = rows[j]
    BY <2>1, StatusIsSet DEF TypeInv, Statuses
  <2> QED
    BY <2>1, <2>2, <2>3, <2>4, <2>5
<1>2. ASSUME NEW d \in Drainers, ClaimEnds(d) PROVE StoredOnce'
  <2>1. \A j \in DOMAIN rows : Marking(j) => Marking(j)'
    BY <1>2 DEF ClaimEnds, Goto, Marking, Current, TypeInv, TypeOK
  <2> QED
    BY <1>2, <2>1 DEF ClaimEnds
<1>3. ASSUME NEW d \in Drainers, MarkPublished(d) \/ ReleaseClaim(d) PROVE StoredOnce'
  <2> PICK i \in DOMAIN rows : i = Current(d) /\ Contains(batch[d], i)
    BY <1>3, CurrentIsHeld DEF MarkPublished, ReleaseClaim, TypeInv
  <2>1. /\ pc[d] \in {"mark", "release"} /\ NextRow(d) /\ UNCHANGED <<copies, setting>>
        /\ MarkPublished(d) <=> pc[d] = "mark"
    BY <1>3 DEF MarkPublished, ReleaseClaim
  <2>2. \A j \in DOMAIN rows : j # i /\ Marking(j) => Marking(j)'
    BY <2>1, RowIsLeft DEF Marking, Current
  <2>3. rows[i].status = "processing"
    BY <2>1, <1>0 DEF Owned, HeldStatus
  <2>4. CASE pc[d] = "mark"
    <3>1. rows'[i].status = "published"
      BY <2>1, <2>3, <2>4, StatusIsSet DEF MarkPublished, Claimed, TypeInv, Statuses
    <3> QED
      BY <1>3, <2>1, <2>2, <3>1, RowIsSettled
  <2>5. CASE pc[d] = "release"
    <3>1. ~Marking(i)
      BY <1>0, <2>5, CurrentIsHeld DEF Marking, Owned, TypeInv
    <3> QED
      BY <1>3, <2>1, <2>2, <2>3, <3>1, RowIsSettled
  <2> QED
    BY <2>1, <2>4, <2>5
<1> QED
  BY <1>1, <1>2, <1>3, Steps

\* With no failure after the broker took a message, a row is published once
\* however many replicas drain.
THEOREM EnrichmentRowsPublishedOnce == Spec => []PublishedOnce
<1>1. OnceInv => PublishedOnce
  BY DEF OnceInv, StoredOnce, PublishedOnce
<1>2. Init => Own /\ OnceInv
  BY InitInvariants DEF Own
<1> QED
  BY <1>1, <1>2, InitTypes, TypeStep, OwnStep, OnceStep, PTL DEF Spec
===============================================================================
