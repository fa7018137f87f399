------------------------- MODULE GithubBatchProofs -------------------------
(***************************************************************************)
(* Type correctness and single ownership of GithubBatch, and that it       *)
(* implements BoundedWork, for every set of items, batches and             *)
(* invocations and every limit.                                            *)
(***************************************************************************)
EXTENDS GithubBatch, TLAPS

\* Every item that may still be claimed, or is yet to be inserted, has an
\* attempt left: classify schedules a retry only then, and the claim, which
\* does not look at max_attempts, relies on it.
AttemptsLeft ==
  \A i \in Items : status[i] \in Claimable \cup {"absent"} => attempts[i] < MaxAttempts

\* Between its claim and the finalization an invocation has a current batch.
HasBatch ==
  \A w \in Invocations :
    pc[w] \in {"take", "read_batch", "work", "finalize"} => cur[w] \in Batches

IInv == TypeOK /\ OneHolder /\ AttemptsLeft /\ HasBatch

USE LimitAssumption, NoneAssumption, KindAssumption

\* The initial state satisfies the inductive invariant: there are no items,
\* no receipts and no invocation.
LEMMA InitIInv == Init => IInv
  BY DEF Init, IInv, TypeOK, OneHolder, AttemptsLeft, HasBatch, BatchStatus, ItemStatus,
         Quality, PC, Receipt

\* The shape of a claim's rows: the items of S are running, leased and one
\* attempt older, and nothing else about items changes.
LEMMA TakeRowsEffect ==
  ASSUME NEW b \in Batches, NEW S \in SUBSET Candidates(b),
         TypeOK, AttemptsLeft, TakeRows(b, S)
  PROVE  /\ status' \in [Items -> ItemStatus]
         /\ attempts' \in [Items -> 0..MaxAttempts]
         /\ lease' \in [Items -> {"none", "held", "expired"}]
         /\ batchStatus' \in [Batches -> BatchStatus]
         /\ \A i \in S : i \in Items /\ status[i] \in Claimable
         /\ \A i \in S : status'[i] = "running" /\ lease'[i] = "held"
                         /\ attempts'[i] = attempts[i] + 1
         /\ \A i \in Items \ S : status'[i] = status[i] /\ lease'[i] = lease[i]
                                 /\ attempts'[i] = attempts[i]
  <1>1. S \subseteq Items /\ \A i \in S : status[i] \in Claimable
    BY DEF Candidates, OnLane, With, ItemsOf
  <1>2. \A i \in S : attempts[i] + 1 \in 0..MaxAttempts
    BY <1>1 DEF AttemptsLeft, TypeOK
  <1>3. status' \in [Items -> ItemStatus]
    BY <1>1 DEF TakeRows, Assign, TypeOK, ItemStatus
  <1>4. lease' \in [Items -> {"none", "held", "expired"}]
    BY <1>1 DEF TakeRows, Assign, TypeOK
  <1>5. attempts' \in [Items -> 0..MaxAttempts]
    BY <1>1, <1>2 DEF TakeRows, TypeOK
  <1>6. batchStatus' \in [Batches -> BatchStatus]
    BY DEF TakeRows, MarkRunning, TypeOK, BatchStatus
  <1>7. QED
    BY <1>1, <1>3, <1>4, <1>5, <1>6 DEF TakeRows, Assign, TypeOK

\* The shape of a finish: one running row gets the status and quality of a
\* verdict and loses its lease; a retry verdict leaves an attempt.
LEMMA FinishEffect ==
  ASSUME NEW i \in Items, NEW v \in Verdicts(i), TypeOK, Finish(i, v)
  PROVE  /\ status' \in [Items -> ItemStatus]
         /\ quality' \in [Items -> Quality]
         /\ lease' \in [Items -> {"none", "held", "expired"}]
         /\ status[i] = "running"
         /\ status'[i] \in {"succeeded", "failed", "retry"}
         /\ status'[i] = "retry" => attempts[i] < MaxAttempts
         /\ \A j \in Items \ {i} : status'[j] = status[j] /\ lease'[j] = lease[j]
         /\ UNCHANGED <<batchStatus, receipts, attempts, batchOf, origin>>
  <1>1. /\ v.status \in {"succeeded", "failed", "retry"}
        /\ v.quality \in Quality
        /\ v.status = "retry" => attempts[i] < MaxAttempts
    BY DEF Verdicts, Quality
  <1>2. QED
    BY <1>1 DEF Finish, TypeOK, ItemStatus

\* A step that hands no item to an invocation keeps single ownership when
\* the rows of the items that stay in hand stay running and leased.
LEMMA HolderFrame ==
  ASSUME OneHolder,
         \A w \in Invocations : held'[w] \subseteq held[w],
         \A w \in Invocations : \A i \in held'[w] : status'[i] = "running" /\ lease'[i] # "none"
  PROVE  OneHolder'
  BY DEF OneHolder

\* Inserting a batch keeps the invariant: its items were absent, so nobody
\* held them and none of their attempts is used.
LEMMA InsertIInv ==
  ASSUME NEW b \in Batches, NEW S \in SUBSET Items, NEW orig,
         \A i \in S : orig[i] \in Items \cup {NoItem},
         IInv, Insert(b, S, orig)
  PROVE  IInv'
  <1> USE DEF IInv
  <1>1. TypeOK'
    BY DEF Insert, Assign, TypeOK, BatchStatus, ItemStatus, local
  <1>2. \A w \in Invocations : \A i \in held[w] : i \in Items \ S
    BY DEF OneHolder, Insert, TypeOK
  <1>3. \A i \in Items \ S : status'[i] = status[i] /\ lease'[i] = lease[i]
    BY DEF Insert, Assign, TypeOK
  <1>4. OneHolder'
    BY <1>2, <1>3, HolderFrame DEF Insert, local, OneHolder
  <1>5. AttemptsLeft'
    BY DEF AttemptsLeft, Insert, Assign, TypeOK, Claimable
  <1>6. HasBatch'
    BY DEF HasBatch, Insert, local
  <1>7. QED
    BY <1>1, <1>4, <1>5, <1>6

\* Cancelling keeps the invariant: it rewrites claimable rows only.
LEMMA CancelIInv ==
  ASSUME NEW b \in Batches, IInv, Cancel(b)
  PROVE  IInv'
  <1> USE DEF IInv
  <1> DEFINE S == Cancellable(b)
  <1>1. S \subseteq Items /\ \A i \in S : status[i] \in Claimable
    BY DEF Cancellable, With, ItemsOf
  <1>2. receipts[b] \subseteq Receipt
    BY DEF TypeOK
  <1>3. ReceiptOnce(receipts[b], "batch_cancelled", "cancelled") \subseteq Receipt
    BY <1>2 DEF ReceiptOnce, Receipt
  <1>4. receipts' \in [Batches -> SUBSET Receipt]
    BY <1>3 DEF Cancel, TypeOK
  <1>5. TypeOK'
    BY <1>1, <1>4 DEF Cancel, Assign, TypeOK, BatchStatus, ItemStatus, Quality, local
  <1>6. \A w \in Invocations : \A i \in held[w] : i \in Items \ S
    BY <1>1 DEF OneHolder, TypeOK, Claimable
  <1>7. \A i \in Items \ S : status'[i] = status[i] /\ lease'[i] = lease[i]
    BY DEF Cancel, Assign, TypeOK
  <1>8. OneHolder'
    BY <1>6, <1>7, HolderFrame DEF Cancel, local, OneHolder
  <1>9. AttemptsLeft'
    BY <1>1 DEF AttemptsLeft, Cancel, Assign, TypeOK, Claimable
  <1>10. HasBatch'
    BY DEF HasBatch, Cancel, local
  <1>11. QED
    BY <1>5, <1>8, <1>9, <1>10

\* The receipts a finalization writes are receipts.
LEMMA FinalReceiptsType ==
  ASSUME NEW b \in Batches, NEW rs \in SUBSET Receipt
  PROVE  FinalReceipts(b, rs) \in SUBSET Receipt /\ BatchVerdict(b) \in BatchStatus
  <1>1. BatchVerdict(b) \in Finalized \cup {"running"}
    BY DEF BatchVerdict, Finalized
  <1>2. With(b, Unfinished) = {} => BatchVerdict(b) \in Finalized
    BY DEF BatchVerdict, Finalized
  <1>3. BatchVerdict(b) \in BatchStatus
    BY <1>1 DEF Finalized, BatchStatus
  <1>4. CASE With(b, Unfinished) # {}
    BY <1>3, <1>4 DEF FinalReceipts
  <1>5. CASE With(b, Unfinished) = {}
    <2> DEFINE q == IF QualityOK(b) THEN "passed" ELSE "failed"
               mid == ReceiptOnce(rs, "quality_finalized", q)
    <2>1. [type |-> "quality_finalized", outcome |-> q] \in Receipt
      BY DEF Receipt
    <2>2. mid \subseteq Receipt
      BY <2>1 DEF ReceiptOnce
    <2>3. [type |-> "batch_completed", outcome |-> BatchVerdict(b)] \in Receipt
      BY <1>2, <1>5 DEF Receipt
    <2>4. ReceiptOnce(mid, "batch_completed", BatchVerdict(b)) \subseteq Receipt
      BY <2>2, <2>3 DEF ReceiptOnce
    <2>5. QED
      BY <1>3, <1>5, <2>4 DEF FinalReceipts
  <1>6. QED
    BY <1>4, <1>5

\* A finalization keeps the types of the batch rows.
LEMMA FinalizeType ==
  ASSUME NEW b \in Batches, TypeOK, Finalize(b)
  PROVE  /\ batchStatus' \in [Batches -> BatchStatus]
         /\ receipts' \in [Batches -> SUBSET Receipt]
         /\ UNCHANGED itemRows
  <1>1. receipts[b] \in SUBSET Receipt
    BY DEF TypeOK
  <1>2. FinalReceipts(b, receipts[b]) \in SUBSET Receipt /\ BatchVerdict(b) \in BatchStatus
    BY <1>1, FinalReceiptsType
  <1>3. QED
    BY <1>2 DEF Finalize, TypeOK

\* Claiming keeps the invariant: the items taken were claimable, so nobody
\* held them, and each had an attempt left.
LEMMA ClaimIInv ==
  ASSUME NEW w \in Invocations, IInv,
         TakeItems(w) \/ TakeNothing(w) \/ ClaimFails(w)
  PROVE  IInv'
  <1> USE DEF IInv
  <1>1. pc[w] = "take" /\ cur[w] \in Batches
    BY DEF TakeItems, TakeNothing, ClaimFails, HasBatch
  <1>2. CASE TakeItems(w)
    <2>1. PICK S \in SUBSET Candidates(cur[w]) :
             TakeRows(cur[w], S) /\ held' = [held EXCEPT ![w] = S]
      BY <1>2 DEF TakeItems
    <2>2. /\ status' \in [Items -> ItemStatus]
          /\ attempts' \in [Items -> 0..MaxAttempts]
          /\ lease' \in [Items -> {"none", "held", "expired"}]
          /\ batchStatus' \in [Batches -> BatchStatus]
          /\ \A i \in S : i \in Items /\ status[i] \in Claimable
          /\ \A i \in S : status'[i] = "running" /\ lease'[i] = "held"
          /\ \A i \in Items \ S : status'[i] = status[i] /\ lease'[i] = lease[i]
                                  /\ attempts'[i] = attempts[i]
      BY <1>1, <2>1, TakeRowsEffect
    <2>3. TypeOK'
      BY <1>1, <1>2, <2>1, <2>2 DEF TakeItems, TakeRows, Goto, TypeOK, PC
    <2>4. \A x \in Invocations : held[x] \cap S = {}
      BY <2>2 DEF OneHolder, Claimable
    <2>5. \A x \in Invocations : held'[x] = IF x = w THEN S ELSE held[x]
      BY <2>1 DEF TypeOK
    <2>6. \A x \in Invocations : held[x] \subseteq Items
      BY DEF TypeOK
    <2>7. OneHolder'
      BY <2>2, <2>4, <2>5, <2>6 DEF OneHolder
    <2>8. AttemptsLeft'
      BY <2>2 DEF AttemptsLeft, Claimable
    <2>9. HasBatch'
      BY <1>1, <1>2 DEF TakeItems, Goto, HasBatch, TypeOK
    <2>10. QED
      BY <2>3, <2>7, <2>8, <2>9
  <1>3. CASE TakeNothing(w)
    <2>1. TypeOK'
      BY <1>1, <1>3 DEF TakeNothing, MarkRunning, Goto, TypeOK, itemRows, local, PC, BatchStatus
    <2>2. OneHolder' /\ AttemptsLeft'
      BY <1>3 DEF TakeNothing, itemRows, local, OneHolder, AttemptsLeft
    <2>3. HasBatch'
      BY <1>3 DEF TakeNothing, Goto, local, HasBatch, TypeOK
    <2>4. QED
      BY <2>1, <2>2, <2>3
  <1>4. CASE ClaimFails(w)
    <2>1. /\ faults' \in 0..MaxFaults /\ pc' \in [Invocations -> PC]
          /\ UNCHANGED <<dispatch, local>>
      BY <1>4 DEF ClaimFails, Fault, Goto, TypeOK, PC
    <2>2. HasBatch'
      BY <1>4 DEF ClaimFails, Goto, local, HasBatch, TypeOK
    <2>3. CASE UNCHANGED rows
      <3>1. TypeOK'
        BY <2>1, <2>3 DEF rows, local, TypeOK
      <3>2. OneHolder' /\ AttemptsLeft'
        BY <2>1, <2>3 DEF rows, local, OneHolder, AttemptsLeft
      <3>3. QED
        BY <2>2, <3>1, <3>2
    <2>4. ASSUME NEW S \in SUBSET Candidates(cur[w]), TakeRows(cur[w], S)
          PROVE  IInv'
      <3>1. /\ status' \in [Items -> ItemStatus]
            /\ attempts' \in [Items -> 0..MaxAttempts]
            /\ lease' \in [Items -> {"none", "held", "expired"}]
            /\ batchStatus' \in [Batches -> BatchStatus]
            /\ \A i \in S : i \in Items /\ status[i] \in Claimable
            /\ \A i \in S : status'[i] = "running" /\ lease'[i] = "held"
            /\ \A i \in Items \ S : status'[i] = status[i] /\ lease'[i] = lease[i]
                                    /\ attempts'[i] = attempts[i]
        BY <1>1, <2>4, TakeRowsEffect
      <3>2. TypeOK'
        BY <2>1, <2>4, <3>1 DEF TakeRows, TypeOK, local
      <3>3. OneHolder'
        <4>1. \A x \in Invocations : held'[x] = held[x] /\ held[x] \subseteq Items
          BY <2>1 DEF local, TypeOK
        <4>2. \A x \in Invocations : \A i \in held'[x] : status'[i] = "running" /\ lease'[i] # "none"
          BY <3>1, <4>1 DEF OneHolder, Claimable
        <4>3. QED
          BY <4>1, <4>2, HolderFrame
      <3>4. AttemptsLeft'
        BY <3>1 DEF AttemptsLeft, Claimable
      <3>5. QED
        BY <2>2, <3>2, <3>3, <3>4
    <2>5. QED
      BY <1>4, <2>3, <2>4 DEF ClaimFails
  <1>5. QED
    BY <1>2, <1>3, <1>4

\* Inserting a fresh batch or a replay keeps the invariant.
LEMMA CallersIInv ==
  ASSUME IInv, Callers
  PROVE  IInv'
  <1>1. ASSUME NEW b \in Batches, NEW S \in SUBSET Items, CreateBatch(b, S)
        PROVE  IInv'
    BY <1>1, InsertIInv DEF CreateBatch
  <1>2. ASSUME NEW src \in Batches, NEW b \in Batches, NEW S \in SUBSET Items,
               ReplayFailures(src, b, S)
        PROVE  IInv'
    <2>1. PICK copy \in [S -> DeadLetters(src)] : Insert(b, S, copy)
      BY <1>2 DEF ReplayFailures
    <2>2. \A i \in S : copy[i] \in Items
      BY DEF DeadLetters, With, ItemsOf
    <2>3. QED
      BY <2>1, <2>2, InsertIInv
  <1>3. ASSUME NEW b \in Batches, Cancel(b)
        PROVE  IInv'
    BY <1>3, CancelIInv
  <1>4. QED
    BY <1>1, <1>2, <1>3 DEF Callers

\* A step that leaves every row alone and hands out no item keeps the
\* invariant if it keeps the types of what it changes and the current batch.
LEMMA LocalFrame ==
  ASSUME IInv, UNCHANGED rows,
         dispatch' \in [owner : Invocations \cup {NoInvocation}, live : BOOLEAN],
         pc' \in [Invocations -> PC],
         held' \in [Invocations -> SUBSET Items],
         cur' \in [Invocations -> Batches \cup {NoBatch}],
         cycle' \in [Invocations -> 0..MaxCycles],
         touched' \in [Invocations -> SUBSET Batches],
         faults' \in 0..MaxFaults,
         \A w \in Invocations : held'[w] \subseteq held[w],
         HasBatch'
  PROVE  IInv'
  <1> USE DEF IInv
  <1>1. TypeOK'
    BY DEF TypeOK, rows
  <1>2. OneHolder'
    BY DEF OneHolder, rows
  <1>3. AttemptsLeft'
    BY DEF AttemptsLeft, rows
  <1>4. QED
    BY <1>1, <1>2, <1>3

\* Starting an invocation, selecting a batch and reading it change no row.
LEMMA StartIInv ==
  ASSUME NEW w \in Invocations, IInv,
         \/ Invoke(w) \/ SelectBatch(w) \/ SelectNothing(w) \/ ReadBatch(w)
         \/ ReadBatchFails(w) \/ SweepDone(w)
  PROVE  IInv'
  <1>1. TypeOK /\ HasBatch
    BY DEF IInv
  <1>2. CASE Invoke(w)
    BY <1>1, <1>2, LocalFrame DEF Invoke, Goto, TypeOK, HasBatch, PC
  <1>3. CASE SelectBatch(w)
    BY <1>1, <1>3, LocalFrame DEF SelectBatch, Goto, TypeOK, HasBatch, PC
  <1>4. CASE SelectNothing(w)
    BY <1>1, <1>4, LocalFrame DEF SelectNothing, Goto, TypeOK, HasBatch, PC, local
  <1>5. CASE ReadBatch(w)
    BY <1>1, <1>5, LocalFrame DEF ReadBatch, Goto, TypeOK, HasBatch, PC, local
  <1>6. CASE ReadBatchFails(w)
    BY <1>1, <1>6, LocalFrame DEF ReadBatchFails, Fault, Goto, TypeOK, HasBatch, PC
  <1>7. CASE SweepDone(w)
    BY <1>1, <1>7, LocalFrame DEF SweepDone, Goto, TypeOK, HasBatch, PC, local
  <1>8. QED
    BY <1>2, <1>3, <1>4, <1>5, <1>6, <1>7

\* An ending handler and a crash change no row, and take items from an
\* invocation at most.
LEMMA EndIInv ==
  ASSUME NEW w \in Invocations, IInv,
         Release(w) \/ ReleaseFails(w) \/ Crash(w)
  PROVE  IInv'
  <1>1. TypeOK /\ HasBatch
    BY DEF IInv
  <1>2. CASE Release(w)
    <2>1. dispatch' \in [owner : Invocations \cup {NoInvocation}, live : BOOLEAN]
      BY <1>1, <1>2 DEF Release, ReleaseLease, TypeOK
    <2>2. QED
      BY <1>1, <1>2, <2>1, LocalFrame
         DEF Release, EndHandler, Forget, Goto, TypeOK, HasBatch, PC
  <1>3. CASE ReleaseFails(w)
    BY <1>1, <1>3, LocalFrame
       DEF ReleaseFails, Fault, EndHandler, Forget, Goto, TypeOK, HasBatch, PC
  <1>4. CASE Crash(w)
    BY <1>1, <1>4, LocalFrame DEF Crash, Fault, Forget, Goto, TypeOK, HasBatch, PC
  <1>5. QED
    BY <1>2, <1>3, <1>4

\* Time changes leases only: the dispatch row, or the lease of one item that
\* keeps being leased.
LEMMA LapseIInv ==
  ASSUME IInv, DispatchLeaseLapses \/ \E i \in Items : ItemLeaseLapses(i)
  PROVE  IInv'
  <1>1. TypeOK /\ HasBatch /\ OneHolder /\ AttemptsLeft
    BY DEF IInv
  <1>2. CASE DispatchLeaseLapses
    BY <1>1, <1>2, LocalFrame DEF DispatchLeaseLapses, TypeOK, HasBatch, local
  <1>3. ASSUME NEW i \in Items, ItemLeaseLapses(i)
        PROVE  IInv'
    <2>1. TypeOK'
      BY <1>1, <1>3 DEF ItemLeaseLapses, TypeOK, local
    <2>2. OneHolder'
      BY <1>1, <1>3 DEF ItemLeaseLapses, TypeOK, OneHolder, local
    <2>3. AttemptsLeft' /\ HasBatch'
      BY <1>1, <1>3 DEF ItemLeaseLapses, AttemptsLeft, HasBatch, local
    <2>4. QED
      BY <2>1, <2>2, <2>3 DEF IInv
  <1>4. QED
    BY <1>2, <1>3

\* What a finish does to the rows keeps the parts of the invariant about
\* rows, when the finished item is put down by the invocation that holds it.
LEMMA FinishRows ==
  ASSUME IInv, NEW w \in Invocations, NEW i \in held[w], NEW v \in Verdicts(i),
         Finish(i, v),
         held' \in [Invocations -> SUBSET Items],
         i \notin held'[w],
         \A x \in Invocations : held'[x] \subseteq held[x]
  PROVE  /\ status' \in [Items -> ItemStatus]
         /\ quality' \in [Items -> Quality]
         /\ lease' \in [Items -> {"none", "held", "expired"}]
         /\ UNCHANGED <<batchStatus, receipts, attempts, batchOf, origin>>
         /\ OneHolder' /\ AttemptsLeft'
  <1>1. TypeOK /\ OneHolder /\ AttemptsLeft /\ i \in Items
    BY DEF IInv, TypeOK
  <1>2. /\ status' \in [Items -> ItemStatus]
        /\ quality' \in [Items -> Quality]
        /\ lease' \in [Items -> {"none", "held", "expired"}]
        /\ status'[i] \in {"succeeded", "failed", "retry"}
        /\ status'[i] = "retry" => attempts[i] < MaxAttempts
        /\ \A j \in Items \ {i} : status'[j] = status[j] /\ lease'[j] = lease[j]
        /\ UNCHANGED <<batchStatus, receipts, attempts, batchOf, origin>>
    BY <1>1, FinishEffect
  <1>3. \A x \in Invocations : \A j \in held'[x] : j \in held[x] /\ j \in Items \ {i}
    BY <1>1 DEF OneHolder, TypeOK
  <1>4. \A x \in Invocations : \A j \in held'[x] : status'[j] = "running" /\ lease'[j] # "none"
    BY <1>1, <1>2, <1>3 DEF OneHolder
  <1>5. OneHolder'
    BY <1>1, <1>4, HolderFrame
  <1>6. AttemptsLeft'
    BY <1>1, <1>2 DEF AttemptsLeft, Claimable
  <1>7. QED
    BY <1>2, <1>5, <1>6

\* Finishing an item keeps the invariant, whether or not the RPC fails and
\* whether or not a failed one committed.
LEMMA FinishIInv ==
  ASSUME IInv, NEW w \in Invocations, NEW i \in Items,
         FinishItem(w, i) \/ FinishItemFails(w, i)
  PROVE  IInv'
  <1>1. TypeOK /\ OneHolder /\ AttemptsLeft /\ HasBatch
    BY DEF IInv
  <1>2. i \in held[w]
    BY DEF FinishItem, FinishItemFails, Ready
  <1>3. CASE FinishItem(w, i)
    <2>1. PICK v \in Verdicts(i) : Finish(i, v)
      BY <1>3 DEF FinishItem
    <2>2. /\ held' \in [Invocations -> SUBSET Items]
          /\ i \notin held'[w]
          /\ \A x \in Invocations : held'[x] \subseteq held[x]
          /\ UNCHANGED <<dispatch, cur, cycle, touched, faults>>
      BY <1>1, <1>3 DEF FinishItem, TypeOK
    <2>3. /\ status' \in [Items -> ItemStatus]
          /\ quality' \in [Items -> Quality]
          /\ lease' \in [Items -> {"none", "held", "expired"}]
          /\ UNCHANGED <<batchStatus, receipts, attempts, batchOf, origin>>
          /\ OneHolder' /\ AttemptsLeft'
      BY <1>2, <2>1, <2>2, FinishRows
    <2>4. AfterItem(w, held[w] \ {i}) \in {pc[w]}
            \cup (IF pc[w] = "work" THEN {"finalize"} ELSE {"idle"})
      BY DEF AfterItem
    <2>5. pc' \in [Invocations -> PC] /\ HasBatch'
      BY <1>1, <1>3, <2>2, <2>4 DEF FinishItem, Goto, TypeOK, PC, HasBatch
    <2>6. TypeOK'
      BY <1>1, <2>2, <2>3, <2>5 DEF TypeOK
    <2>7. QED
      BY <2>3, <2>5, <2>6 DEF IInv
  <1>4. CASE FinishItemFails(w, i)
    <2>1. /\ held' \in [Invocations -> SUBSET Items]
          /\ i \notin held'[w]
          /\ \A x \in Invocations : held'[x] \subseteq held[x]
          /\ UNCHANGED <<dispatch, cur, cycle, touched>>
          /\ faults' \in 0..MaxFaults
      BY <1>1, <1>4 DEF FinishItemFails, Fault, TypeOK
    <2>2. pc' \in [Invocations -> PC] /\ HasBatch'
      BY <1>1, <1>4, <2>1 DEF FinishItemFails, Goto, TypeOK, PC, HasBatch
    <2>3. CASE UNCHANGED rows
      <3>1. UNCHANGED rows /\ dispatch' = dispatch /\ cur' = cur /\ cycle' = cycle
            /\ touched' = touched
        BY <2>1, <2>3
      <3>2. QED
        BY <1>1, <2>1, <2>2, <3>1, LocalFrame DEF TypeOK
    <2>4. ASSUME NEW v \in Verdicts(i), Finish(i, v)
          PROVE  IInv'
      <3>1. /\ status' \in [Items -> ItemStatus]
            /\ quality' \in [Items -> Quality]
            /\ lease' \in [Items -> {"none", "held", "expired"}]
            /\ UNCHANGED <<batchStatus, receipts, attempts, batchOf, origin>>
            /\ OneHolder' /\ AttemptsLeft'
        BY <1>2, <2>1, <2>4, FinishRows
      <3>2. TypeOK'
        BY <1>1, <2>1, <2>2, <3>1 DEF TypeOK
      <3>3. QED
        BY <2>2, <3>1, <3>2 DEF IInv
    <2>5. QED
      BY <1>4, <2>3, <2>4 DEF FinishItemFails
  <1>5. QED
    BY <1>3, <1>4

\* A finalization rewrites batch rows only.
LEMMA FinalizeIInv ==
  ASSUME IInv, NEW w \in Invocations,
         \/ FinalizeCurrent(w) \/ FinalizeCurrentFails(w)
         \/ \E b \in Batches : SweepBatch(w, b) \/ SweepBatchFails(w, b)
  PROVE  IInv'
  <1>1. TypeOK /\ OneHolder /\ AttemptsLeft /\ HasBatch
    BY DEF IInv
  <1>2. ASSUME NextCycle(w), pc[w] = "finalize", UNCHANGED <<held, cur>>
        PROVE  /\ pc' \in [Invocations -> PC] /\ HasBatch'
               /\ cycle' \in [Invocations -> 0..MaxCycles]
    <2>1. CASE cycle[w] < MaxCycles /\ cycle' = [cycle EXCEPT ![w] = @ + 1] /\ Goto(w, "select")
      BY <1>1, <1>2, <2>1 DEF Goto, TypeOK, PC, HasBatch
    <2>2. CASE Goto(w, "sweep") /\ UNCHANGED cycle
      BY <1>1, <1>2, <2>2 DEF Goto, TypeOK, PC, HasBatch
    <2>3. QED
      BY <1>2, <2>1, <2>2 DEF NextCycle
  <1>3. CASE FinalizeCurrent(w)
    <2>1. cur[w] \in Batches
      BY <1>1, <1>3 DEF FinalizeCurrent, HasBatch
    <2>2. /\ batchStatus' \in [Batches -> BatchStatus]
          /\ receipts' \in [Batches -> SUBSET Receipt]
          /\ UNCHANGED itemRows
      BY <1>1, <1>3, <2>1, FinalizeType DEF FinalizeCurrent
    <2>3. /\ pc' \in [Invocations -> PC] /\ HasBatch'
          /\ cycle' \in [Invocations -> 0..MaxCycles]
          /\ UNCHANGED <<dispatch, held, cur, touched, faults>>
      BY <1>2, <1>3 DEF FinalizeCurrent
    <2>4. TypeOK'
      BY <1>1, <2>2, <2>3 DEF TypeOK, itemRows
    <2>5. OneHolder' /\ AttemptsLeft'
      BY <1>1, <2>2, <2>3 DEF OneHolder, AttemptsLeft, itemRows
    <2>6. QED
      BY <2>3, <2>4, <2>5 DEF IInv
  <1>4. CASE FinalizeCurrentFails(w)
    <2>1. /\ pc' \in [Invocations -> PC] /\ HasBatch'
          /\ cycle' \in [Invocations -> 0..MaxCycles]
          /\ faults' \in 0..MaxFaults
          /\ UNCHANGED <<rows, dispatch, held, cur, touched>>
      BY <1>1, <1>2, <1>4 DEF FinalizeCurrentFails, Fault, TypeOK
    <2>2. QED
      BY <1>1, <2>1, LocalFrame DEF TypeOK
  <1>5. ASSUME NEW b \in Batches, SweepBatch(w, b)
        PROVE  IInv'
    <2>1. /\ batchStatus' \in [Batches -> BatchStatus]
          /\ receipts' \in [Batches -> SUBSET Receipt]
          /\ UNCHANGED itemRows
      BY <1>1, <1>5, FinalizeType DEF SweepBatch
    <2>2. TypeOK'
      BY <1>1, <1>5, <2>1 DEF SweepBatch, TypeOK, itemRows
    <2>3. OneHolder' /\ AttemptsLeft' /\ HasBatch'
      BY <1>1, <1>5, <2>1 DEF SweepBatch, OneHolder, AttemptsLeft, HasBatch, itemRows
    <2>4. QED
      BY <2>2, <2>3 DEF IInv
  <1>6. ASSUME NEW b \in Batches, SweepBatchFails(w, b)
        PROVE  IInv'
    BY <1>1, <1>6, LocalFrame DEF SweepBatchFails, Fault, TypeOK, HasBatch
  <1>7. QED
    BY <1>3, <1>4, <1>5, <1>6

\* A stuttering step keeps the invariant.
LEMMA StutterIInv ==
  ASSUME IInv, UNCHANGED vars
  PROVE  IInv'
  BY DEF IInv, TypeOK, OneHolder, AttemptsLeft, HasBatch, vars, rows, local

\* Every step of the batch plane keeps the invariant.
LEMMA NextIInv ==
  ASSUME IInv, [Next]_vars
  PROVE  IInv'
  <1>1. ASSUME NEW w \in Invocations, Invoke(w) \/ Step(w) \/ Failure(w)
        PROVE  IInv'
    <2>1. CASE Invoke(w)
      BY <2>1, StartIInv
    <2>2. CASE Step(w)
      BY <2>2, StartIInv, ClaimIInv, FinishIInv, FinalizeIInv, EndIInv DEF Step
    <2>3. CASE Failure(w)
      BY <2>3, StartIInv, ClaimIInv, FinishIInv, FinalizeIInv, EndIInv DEF Failure
    <2>4. QED
      BY <1>1, <2>1, <2>2, <2>3
  <1>2. QED
    BY <1>1, CallersIInv, LapseIInv, StutterIInv DEF Next

\* The inductive invariant holds in every reachable state.
THEOREM InvariantHolds == Spec => []IInv
  <1>1. Init => IInv
    BY InitIInv
  <1>2. IInv /\ [Next]_vars => IInv'
    BY NextIInv
  <1>3. QED
    BY <1>1, <1>2, PTL DEF Spec

\* Every row and every invocation stays within its type, in particular no
\* item is ever attempted more than MaxAttempts times.
THEOREM TypeCorrect == Spec => []TypeOK
  <1>1. IInv => TypeOK
    BY DEF IInv
  <1>2. QED
    BY <1>1, InvariantHolds, PTL

\* However the invocations overlap, whatever lease lapses and whichever RPC
\* fails, no two invocations hold the same item, and what one holds is running
\* under a lease.
THEOREM SingleHolder == Spec => []OneHolder
  <1>1. IInv => OneHolder
    BY DEF IInv
  <1>2. QED
    BY <1>1, InvariantHolds, PTL

-----------------------------------------------------------------------------
(* Who changes an item.                                                    *)

Untouched == UNCHANGED <<status, attempts>>

Inserted == \E S \in SUBSET Items :
  /\ S # {}
  /\ \A i \in S : status[i] = "absent"
  /\ status' = [i \in Items |-> IF i \in S THEN "pending" ELSE status[i]]
  /\ attempts' = attempts

Withdrawn == \E S \in SUBSET Items :
  /\ \A i \in S : status[i] \in Claimable
  /\ status' = [i \in Items |-> IF i \in S THEN "cancelled" ELSE status[i]]
  /\ attempts' = attempts

Taken == \E S \in SUBSET Items :
  /\ S # {}
  /\ \A i \in S : status[i] \in Claimable
  /\ status' = [i \in Items |-> IF i \in S THEN "running" ELSE status[i]]
  /\ attempts' = [i \in Items |-> IF i \in S THEN attempts[i] + 1 ELSE attempts[i]]

Finished == \E w \in Invocations : \E i \in held[w] :
  /\ i \notin held'[w]
  /\ status'[i] \in {"succeeded", "failed", "retry"}
  /\ status'[i] = "retry" => attempts[i] < MaxAttempts
  /\ \A j \in Items \ {i} : status'[j] = status[j]
  /\ status' \in [Items -> ItemStatus]
  /\ attempts' = attempts

\* A claim takes rows as Taken says.
LEMMA TakeRowsTaken ==
  ASSUME TypeOK, NEW b \in Batches, NEW S \in SUBSET Candidates(b), TakeRows(b, S)
  PROVE  Taken
  <1>1. S \in SUBSET Items /\ \A i \in S : status[i] \in Claimable
    BY DEF Candidates, OnLane, With, ItemsOf
  <1>2. status' = [i \in Items |-> IF i \in S THEN "running" ELSE status[i]]
    BY DEF TakeRows, Assign, TypeOK
  <1>3. attempts' = [i \in Items |-> IF i \in S THEN attempts[i] + 1 ELSE attempts[i]]
    BY DEF TakeRows, TypeOK
  <1>4. QED
    BY <1>1, <1>2, <1>3 DEF Taken, TakeRows

\* A finish, committed by an RPC that succeeds or by one that fails, changes
\* one item, which its invocation holds and puts down.
LEMMA FinishFinished ==
  ASSUME IInv, NEW w \in Invocations, NEW i \in Items,
         FinishItem(w, i) \/ FinishItemFails(w, i)
  PROVE  Untouched \/ Finished
  <1>1. TypeOK /\ i \in held[w]
    BY DEF IInv, FinishItem, FinishItemFails, Ready
  <1>2. i \notin held'[w]
    BY <1>1 DEF FinishItem, FinishItemFails, TypeOK
  <1>3. ASSUME NEW v \in Verdicts(i), Finish(i, v)
        PROVE  Finished
    <2>1. /\ status' \in [Items -> ItemStatus]
          /\ status'[i] \in {"succeeded", "failed", "retry"}
          /\ status'[i] = "retry" => attempts[i] < MaxAttempts
          /\ \A j \in Items \ {i} : status'[j] = status[j]
          /\ attempts' = attempts
      BY <1>1, <1>3, FinishEffect
    <2>2. QED
      BY <1>1, <1>2, <2>1 DEF Finished
  <1>4. QED
    BY <1>3 DEF FinishItem, FinishItemFails, Untouched, rows

\* Every step of the batch plane changes items in one of these ways.
LEMMA StepShape ==
  ASSUME IInv, [Next]_vars
  PROVE  Untouched \/ Inserted \/ Withdrawn \/ Taken \/ Finished
  <1>1. TypeOK /\ HasBatch
    BY DEF IInv
  <1>2. ASSUME NEW b \in Batches, NEW S \in SUBSET Items, NEW orig, Insert(b, S, orig)
        PROVE  Inserted
    BY <1>1, <1>2 DEF Insert, Inserted, Assign, TypeOK
  <1>3. CASE Callers
    <2>1. ASSUME NEW b \in Batches, Cancel(b)
          PROVE  Withdrawn
      <3> DEFINE S == Cancellable(b)
      <3>1. S \in SUBSET Items /\ \A i \in S : status[i] \in Claimable
        BY DEF Cancellable, With, ItemsOf
      <3>2. status' = [i \in Items |-> IF i \in S THEN "cancelled" ELSE status[i]]
        BY <1>1, <2>1 DEF Cancel, Assign, TypeOK
      <3>3. QED
        BY <2>1, <3>1, <3>2 DEF Cancel, Withdrawn
    <2>2. QED
      BY <1>2, <1>3, <2>1 DEF Callers, CreateBatch, ReplayFailures
  <1>4. ASSUME NEW w \in Invocations, TakeItems(w) \/ ClaimFails(w)
        PROVE  Untouched \/ Taken
    <2>1. cur[w] \in Batches
      BY <1>1, <1>4 DEF TakeItems, ClaimFails, HasBatch
    <2>2. QED
      BY <1>1, <1>4, <2>1, TakeRowsTaken DEF TakeItems, ClaimFails, Untouched, rows
  <1>5. ASSUME NEW w \in Invocations, Step(w)
        PROVE  Untouched \/ Taken \/ Finished
    BY <1>4, <1>5, FinishFinished
       DEF Step, SelectBatch, SelectNothing, TakeNothing, ReadBatch, FinalizeCurrent,
           SweepBatch, Finalize, SweepDone, Release, EndHandler, Untouched, rows, itemRows
  <1>6. ASSUME NEW w \in Invocations, Failure(w)
        PROVE  Untouched \/ Taken \/ Finished
    BY <1>4, <1>6, FinishFinished
       DEF Failure, ReadBatchFails, FinalizeCurrentFails, SweepBatchFails, ReleaseFails,
           EndHandler, Crash, Untouched, rows
  <1>7. QED
    BY <1>3, <1>5, <1>6
       DEF Next, Invoke, DispatchLeaseLapses, ItemLeaseLapses, Untouched, vars, rows

\* A running item leaves that status only in the hands of the invocation that
\* claimed it: cancellations, lapsing leases, replays and other invocations
\* leave it alone.
THEOREM HolderSettles == Spec => OnlyHolderSettles
  <1> DEFINE A == \A i \in Items : status[i] = "running" /\ status'[i] # "running" =>
                    \E w \in Invocations : i \in held[w] /\ i \notin held'[w]
  <1>1. IInv /\ [Next]_vars => [A]_vars
    <2> SUFFICES ASSUME IInv, [Next]_vars, NEW i \in Items,
                        status[i] = "running", status'[i] # "running"
                 PROVE  \E w \in Invocations : i \in held[w] /\ i \notin held'[w]
      OBVIOUS
    <2>1. Untouched \/ Inserted \/ Withdrawn \/ Taken \/ Finished
      BY StepShape
    <2>2. ~Untouched /\ ~Inserted /\ ~Withdrawn /\ ~Taken
      BY DEF Untouched, Inserted, Withdrawn, Taken, Claimable
    <2>3. QED
      BY <2>1, <2>2 DEF Finished
  <1>2. QED
    BY <1>1, InvariantHolds, PTL DEF Spec, OnlyHolderSettles

\* The phase of each status.
LEMMA PhaseValues ==
  /\ PhaseOf("absent") = "absent"
  /\ \A s \in Claimable : PhaseOf(s) = "waiting"
  /\ PhaseOf("running") = "working"
  /\ \A s \in SettledStatus : PhaseOf(s) = "settled"
  /\ "pending" \in Claimable /\ "retry" \in Claimable /\ "cancelled" \in SettledStatus
  BY DEF PhaseOf, Claimable, SettledStatus

\* The batch plane implements BoundedWork: with the batches, leases and
\* invocations projected away, every step starts, settles, gives back or
\* withdraws work as the abstract queue may, or leaves it alone.
THEOREM QueueImplemented == Spec => ImplementsBoundedWork
  <1>1. Init => Queue!Init
    BY PhaseValues DEF Init, Queue!Init, WorkPhase
  <1>2. IInv /\ [Next]_vars => [Queue!Next]_(Queue!vars)
    <2> SUFFICES ASSUME IInv, [Next]_vars
                 PROVE  [Queue!Next]_(Queue!vars)
      OBVIOUS
    <2>1. TypeOK /\ OneHolder /\ AttemptsLeft
      BY DEF IInv
    <2>2. Untouched \/ Inserted \/ Withdrawn \/ Taken \/ Finished
      BY StepShape
    <2>4. CASE Untouched
      BY <2>4 DEF Untouched, Queue!vars, WorkPhase
    <2>5. CASE Inserted
      <3>1. PICK S \in SUBSET Items :
              /\ S # {}
              /\ \A i \in S : status[i] = "absent"
              /\ status' = [i \in Items |-> IF i \in S THEN "pending" ELSE status[i]]
              /\ attempts' = attempts
        BY <2>5 DEF Inserted
      <3>2. \A i \in S : WorkPhase[i] = "absent"
        BY <3>1, PhaseValues DEF WorkPhase
      <3>3. WorkPhase' = [i \in Items |-> IF i \in S THEN "waiting" ELSE WorkPhase[i]]
        BY <3>1, PhaseValues DEF WorkPhase
      <3>4. QED
        BY <3>1, <3>2, <3>3 DEF Queue!Next, Queue!Accept
    <2>6. CASE Withdrawn
      <3>1. PICK S \in SUBSET Items :
              /\ \A i \in S : status[i] \in Claimable
              /\ status' = [i \in Items |-> IF i \in S THEN "cancelled" ELSE status[i]]
              /\ attempts' = attempts
        BY <2>6 DEF Withdrawn
      <3>2. \A i \in S : WorkPhase[i] = "waiting"
        BY <3>1, PhaseValues DEF WorkPhase
      <3>3. WorkPhase' = [i \in Items |-> IF i \in S THEN "settled" ELSE WorkPhase[i]]
        BY <3>1, PhaseValues DEF WorkPhase
      <3>4. CASE S = {}
        BY <3>1, <3>4 DEF Queue!vars, WorkPhase
      <3>5. CASE S # {}
        BY <3>1, <3>2, <3>3, <3>5 DEF Queue!Next, Queue!Withdraw
      <3>6. QED
        BY <3>4, <3>5
    <2>7. CASE Taken
      <3>1. PICK S \in SUBSET Items :
              /\ S # {}
              /\ \A i \in S : status[i] \in Claimable
              /\ status' = [i \in Items |-> IF i \in S THEN "running" ELSE status[i]]
              /\ attempts' = [i \in Items |-> IF i \in S THEN attempts[i] + 1 ELSE attempts[i]]
        BY <2>7 DEF Taken
      <3>2. \A i \in S : WorkPhase[i] = "waiting" /\ attempts[i] < MaxAttempts
        BY <2>1, <3>1, PhaseValues DEF WorkPhase, AttemptsLeft
      <3>3. WorkPhase' = [i \in Items |-> IF i \in S THEN "working" ELSE WorkPhase[i]]
        BY <3>1, PhaseValues DEF WorkPhase
      <3>4. QED
        BY <3>1, <3>2, <3>3 DEF Queue!Next, Queue!Begin
    <2>8. CASE Finished
      <3>1. PICK w \in Invocations : \E i \in held[w] :
              /\ status'[i] \in {"succeeded", "failed", "retry"}
              /\ status'[i] = "retry" => attempts[i] < MaxAttempts
              /\ \A j \in Items \ {i} : status'[j] = status[j]
              /\ status' \in [Items -> ItemStatus]
              /\ attempts' = attempts
        BY <2>8 DEF Finished
      <3>0. PICK i \in held[w] :
              /\ status'[i] \in {"succeeded", "failed", "retry"}
              /\ status'[i] = "retry" => attempts[i] < MaxAttempts
              /\ \A j \in Items \ {i} : status'[j] = status[j]
              /\ status' \in [Items -> ItemStatus]
              /\ attempts' = attempts
        BY <3>1
      <3>2. i \in Items /\ WorkPhase[i] = "working"
        BY <2>1, PhaseValues DEF TypeOK, OneHolder, WorkPhase
      <3>3. WorkPhase' = [WorkPhase EXCEPT ![i] = PhaseOf(status'[i])]
        BY <3>0 DEF WorkPhase
      <3>4. CASE status'[i] = "retry"
        <4>1. PhaseOf(status'[i]) = "waiting"
          BY <3>4, PhaseValues DEF Claimable
        <4>2. Queue!GiveBack(i)
          BY <3>0, <3>2, <3>3, <3>4, <4>1 DEF Queue!GiveBack
        <4>3. QED
          BY <3>2, <4>2 DEF Queue!Next
      <3>5. CASE status'[i] \in {"succeeded", "failed"}
        <4>1. PhaseOf(status'[i]) = "settled"
          BY <3>5, PhaseValues DEF SettledStatus
        <4>2. Queue!Settle(i)
          BY <3>0, <3>2, <3>3, <4>1 DEF Queue!Settle
        <4>3. QED
          BY <3>2, <4>2 DEF Queue!Next
      <3>6. QED
        BY <3>0, <3>4, <3>5
    <2>3. QED
      BY <2>2, <2>4, <2>5, <2>6, <2>7, <2>8
  <1>3. QED
    BY <1>1, <1>2, InvariantHolds, PTL DEF Spec, ImplementsBoundedWork, Queue!Spec

-----------------------------------------------------------------------------
(* Final receipts.                                                         *)

\* A row that does not exist yet belongs to no batch.
FreshItems == \A i \in Items : status[i] = "absent" => batchOf[i] = NoBatch

RInv == IInv /\ FinalReceiptTrue /\ FreshItems

\* The verdict of a batch is a function of its items' rows.
LEMMA VerdictFrame ==
  ASSUME NEW b \in Batches, ItemsOf(b)' = ItemsOf(b),
         \A i \in ItemsOf(b) : status'[i] = status[i] /\ quality'[i] = quality[i]
  PROVE  BatchVerdict(b)' = BatchVerdict(b)
  <1>1. With(b, Unfinished)' = With(b, Unfinished)
    BY DEF With
  <1>2. With(b, {"failed"})' = With(b, {"failed"})
    BY DEF With
  <1>3. With(b, {"succeeded"})' = With(b, {"succeeded"})
    BY DEF With
  <1>4. QualityOK(b)' = QualityOK(b)
    BY <1>3 DEF QualityOK
  <1>5. QED
    BY <1>1, <1>2, <1>4 DEF BatchVerdict

\* A batch with a final receipt has nothing left to claim, run or retry.
LEMMA FinalHasNothingOpen ==
  ASSUME IInv, FinalReceiptTrue, NEW b \in Batches, NEW r \in receipts[b],
         r.type = "batch_completed"
  PROVE  /\ batchStatus[b] = r.outcome /\ BatchVerdict(b) = r.outcome
         /\ r.outcome \in Finalized
         /\ \A i \in ItemsOf(b) : status[i] \notin Unfinished
  <1>1. r \in Receipt
    BY DEF IInv, TypeOK
  <1>2. r.outcome \in Finalized
    BY <1>1 DEF Receipt
  <1>3. batchStatus[b] = r.outcome /\ BatchVerdict(b) = r.outcome
    BY DEF FinalReceiptTrue
  <1>4. With(b, Unfinished) = {}
    BY <1>2, <1>3 DEF BatchVerdict, Finalized
  <1>5. QED
    BY <1>2, <1>3, <1>4 DEF With

\* A step that writes no receipt keeps the final receipts true if it leaves
\* the status of finalized batches alone and changes only items that are in
\* no batch or are open.
LEMMA ReceiptFrame ==
  ASSUME IInv, FinalReceiptTrue, UNCHANGED <<receipts, batchOf>>,
         \A b \in Batches : batchStatus[b] \in Finalized => batchStatus'[b] = batchStatus[b],
         \A i \in Items : status[i] \notin Unfinished =>
                            status'[i] = status[i] /\ quality'[i] = quality[i]
  PROVE  FinalReceiptTrue'
  <1> SUFFICES ASSUME NEW b \in Batches, NEW r \in receipts[b], r.type = "batch_completed"
               PROVE  batchStatus'[b] = r.outcome /\ BatchVerdict(b)' = r.outcome
    BY DEF FinalReceiptTrue
  <1>1. /\ batchStatus[b] = r.outcome /\ BatchVerdict(b) = r.outcome
        /\ r.outcome \in Finalized
        /\ \A i \in ItemsOf(b) : status[i] \notin Unfinished
    BY FinalHasNothingOpen
  <1>2. ItemsOf(b)' = ItemsOf(b) /\ ItemsOf(b) \subseteq Items
    BY DEF ItemsOf
  <1>3. BatchVerdict(b)' = BatchVerdict(b)
    BY <1>1, <1>2, VerdictFrame
  <1>4. QED
    BY <1>1, <1>3

\* A finalization writes the receipt of the verdict it writes as the status.
LEMMA FinalizeReceipts ==
  ASSUME IInv, FinalReceiptTrue, NEW c \in Batches, Finalize(c)
  PROVE  FinalReceiptTrue'
  <1> SUFFICES ASSUME NEW b \in Batches, NEW r \in receipts'[b], r.type = "batch_completed"
               PROVE  batchStatus'[b] = r.outcome /\ BatchVerdict(b)' = r.outcome
    BY DEF FinalReceiptTrue
  <1>1. TypeOK
    BY DEF IInv
  <1>2. ItemsOf(b)' = ItemsOf(b) /\ status' = status /\ quality' = quality
    BY DEF Finalize, itemRows, ItemsOf
  <1>3. BatchVerdict(b)' = BatchVerdict(b)
    BY <1>2, VerdictFrame
  <1>4. CASE b # c
    BY <1>1, <1>3, <1>4 DEF Finalize, TypeOK, FinalReceiptTrue
  <1>5. CASE b = c
    <2>1. batchStatus'[b] = BatchVerdict(b) /\ receipts'[b] = FinalReceipts(b, receipts[b])
      BY <1>1, <1>5 DEF Finalize, TypeOK
    <2>2. r \in receipts[b] \/ r.outcome = BatchVerdict(b)
      BY <2>1 DEF FinalReceipts, ReceiptOnce
    <2>3. r.outcome = BatchVerdict(b)
      BY <2>2 DEF FinalReceiptTrue
    <2>4. QED
      BY <1>3, <2>1, <2>3
  <1>6. QED
    BY <1>4, <1>5

\* A new batch takes items of no batch, so no finalized batch gains an item.
LEMMA InsertReceipts ==
  ASSUME RInv, NEW c \in Batches, NEW S \in SUBSET Items, NEW orig, Insert(c, S, orig)
  PROVE  FinalReceiptTrue' /\ FreshItems'
  <1>1. TypeOK /\ IInv /\ FinalReceiptTrue /\ FreshItems
    BY DEF RInv, IInv
  <1>2. /\ \A i \in Items \ S : status'[i] = status[i] /\ batchOf'[i] = batchOf[i]
        /\ \A i \in S : status'[i] = "pending" /\ batchOf'[i] = c /\ batchOf[i] = NoBatch
        /\ UNCHANGED <<receipts, quality>>
        /\ \A b \in Batches \ {c} : batchStatus'[b] = batchStatus[b]
    BY <1>1 DEF Insert, Assign, TypeOK, FreshItems
  <1>3. FreshItems'
    BY <1>1, <1>2 DEF FreshItems
  <1>4. ASSUME NEW b \in Batches, NEW r \in receipts[b], r.type = "batch_completed"
        PROVE  batchStatus'[b] = r.outcome /\ BatchVerdict(b)' = r.outcome
    <2>1. /\ batchStatus[b] = r.outcome /\ BatchVerdict(b) = r.outcome
          /\ r.outcome \in Finalized
      BY <1>1, <1>4, FinalHasNothingOpen
    <2>2. b # c
      BY <2>1 DEF Insert, Finalized
    <2>3. ItemsOf(b)' = ItemsOf(b)
      BY <1>2, <2>2 DEF ItemsOf
    <2>4. \A i \in ItemsOf(b) : status'[i] = status[i] /\ quality'[i] = quality[i]
      BY <1>2, <2>2 DEF ItemsOf
    <2>5. QED
      BY <1>2, <2>1, <2>2, <2>3, <2>4, VerdictFrame
  <1>5. QED
    BY <1>2, <1>3, <1>4 DEF FinalReceiptTrue

\* A cancellation leaves a finalized batch its status and finds nothing of it
\* to cancel.
LEMMA CancelReceipts ==
  ASSUME RInv, NEW c \in Batches, Cancel(c)
  PROVE  FinalReceiptTrue' /\ FreshItems'
  <1>1. TypeOK /\ IInv /\ FinalReceiptTrue /\ FreshItems
    BY DEF RInv, IInv
  <1> DEFINE S == Cancellable(c)
  <1>2. /\ \A i \in Items \ S : status'[i] = status[i] /\ quality'[i] = quality[i]
        /\ \A i \in S : status[i] \in Claimable /\ i \in Items /\ status'[i] = "cancelled"
        /\ batchOf' = batchOf
    BY <1>1 DEF Cancel, Cancellable, Assign, TypeOK, With, ItemsOf
  <1>3. FreshItems'
    BY <1>1, <1>2 DEF FreshItems
  <1>4. ASSUME NEW b \in Batches, NEW r \in receipts'[b], r.type = "batch_completed"
        PROVE  batchStatus'[b] = r.outcome /\ BatchVerdict(b)' = r.outcome
    <2>1. r \in receipts[b]
      BY <1>1, <1>4 DEF Cancel, ReceiptOnce, TypeOK
    <2>2. /\ batchStatus[b] = r.outcome /\ BatchVerdict(b) = r.outcome
          /\ r.outcome \in Finalized
          /\ \A i \in ItemsOf(b) : status[i] \notin Unfinished
      BY <1>1, <1>4, <2>1, FinalHasNothingOpen
    <2>3. batchStatus'[b] = batchStatus[b]
      BY <1>1, <2>2 DEF Cancel, TypeOK
    <2>4. ItemsOf(b)' = ItemsOf(b) /\ \A i \in ItemsOf(b) : i \in Items \ S
      BY <1>2, <2>2 DEF ItemsOf, Unfinished, Claimable
    <2>5. BatchVerdict(b)' = BatchVerdict(b)
      BY <1>2, <2>4, VerdictFrame
    <2>6. QED
      BY <2>2, <2>3, <2>5
  <1>5. QED
    BY <1>3, <1>4 DEF FinalReceiptTrue

\* The steps of an invocation: a finish and a claim change open items, a
\* finalization writes what it finds, and the rest changes no row.
LEMMA WorkerReceipts ==
  ASSUME RInv, NEW w \in Invocations, Invoke(w) \/ Step(w) \/ Failure(w)
  PROVE  FinalReceiptTrue' /\ FreshItems'
  <1>1. TypeOK /\ IInv /\ FinalReceiptTrue /\ FreshItems /\ HasBatch /\ OneHolder
    BY DEF RInv, IInv
  <1>2. CASE UNCHANGED rows
    <2>1. FreshItems'
      BY <1>1, <1>2 DEF rows, FreshItems
    <2>2. QED
      BY <1>1, <1>2, <2>1, ReceiptFrame DEF rows
  <1>3. ASSUME NEW b \in Batches, NEW S \in SUBSET Candidates(b), TakeRows(b, S)
        PROVE  FinalReceiptTrue' /\ FreshItems'
    <2>1. /\ \A i \in Items \ S : status'[i] = status[i]
          /\ \A i \in S : status[i] \in Claimable /\ status'[i] = "running"
      BY <1>1, <1>3, TakeRowsEffect DEF IInv
    <2>2. \A c \in Batches : batchStatus[c] \in Finalized => batchStatus'[c] = batchStatus[c]
      BY <1>1, <1>3 DEF TakeRows, MarkRunning, TypeOK, Finalized
    <2>3. UNCHANGED <<receipts, batchOf, quality>>
      BY <1>3 DEF TakeRows
    <2>4. FreshItems'
      BY <1>1, <2>1, <2>3 DEF FreshItems, Claimable
    <2>5. FinalReceiptTrue'
      BY <1>1, <2>1, <2>2, <2>3, ReceiptFrame DEF Claimable, Unfinished
    <2>6. QED
      BY <2>4, <2>5
  <1>4. ASSUME NEW i \in Items, NEW v \in Verdicts(i), Finish(i, v)
        PROVE  FinalReceiptTrue' /\ FreshItems'
    <2>1. /\ status[i] = "running" /\ status'[i] # "absent"
          /\ \A j \in Items \ {i} : status'[j] = status[j]
          /\ UNCHANGED <<batchStatus, receipts, batchOf>>
      BY <1>1, <1>4, FinishEffect
    <2>2. \A j \in Items \ {i} : quality'[j] = quality[j]
      BY <1>1, <1>4 DEF Finish, TypeOK
    <2>3. FreshItems'
      BY <1>1, <2>1 DEF FreshItems
    <2>4. FinalReceiptTrue'
      BY <1>1, <2>1, <2>2, ReceiptFrame DEF Unfinished
    <2>5. QED
      BY <2>3, <2>4
  <1>5. ASSUME NEW b \in Batches, Finalize(b)
        PROVE  FinalReceiptTrue' /\ FreshItems'
    BY <1>1, <1>5, FinalizeReceipts DEF Finalize, itemRows, FreshItems
  <1>6. CASE TakeNothing(w)
    <2>1. UNCHANGED <<receipts, itemRows>> /\ MarkRunning(cur[w])
      BY <1>6 DEF TakeNothing
    <2>2. \A c \in Batches : batchStatus[c] \in Finalized => batchStatus'[c] = batchStatus[c]
      BY <1>1, <2>1 DEF MarkRunning, TypeOK, Finalized
    <2>3. QED
      BY <1>1, <2>1, <2>2, ReceiptFrame DEF itemRows, FreshItems
  <1>7. CASE TakeItems(w) \/ ClaimFails(w)
    <2>1. cur[w] \in Batches
      BY <1>1, <1>7 DEF TakeItems, ClaimFails, HasBatch
    <2>2. QED
      BY <1>2, <1>3, <1>7, <2>1 DEF TakeItems, ClaimFails
  <1>8. ASSUME NEW i \in Items, FinishItem(w, i) \/ FinishItemFails(w, i)
        PROVE  FinalReceiptTrue' /\ FreshItems'
    BY <1>2, <1>4, <1>8 DEF FinishItem, FinishItemFails
  <1>9. CASE FinalizeCurrent(w)
    BY <1>1, <1>5, <1>9 DEF FinalizeCurrent, HasBatch
  <1>10. ASSUME NEW b \in Batches, SweepBatch(w, b)
         PROVE  FinalReceiptTrue' /\ FreshItems'
    BY <1>5, <1>10 DEF SweepBatch
  <1>11. CASE Step(w)
    BY <1>2, <1>6, <1>7, <1>8, <1>9, <1>10, <1>11
       DEF Step, SelectBatch, SelectNothing, ReadBatch, SweepDone, Release, EndHandler
  <1>12. CASE Failure(w)
    BY <1>2, <1>7, <1>8, <1>12
       DEF Failure, ReadBatchFails, FinalizeCurrentFails, SweepBatchFails, ReleaseFails,
           EndHandler, Crash
  <1>13. QED
    BY <1>2, <1>11, <1>12 DEF Invoke

\* Once written, the batch_completed receipt of a batch names the batch's
\* status, and the verdict its items earn, for ever.
THEOREM FinalReceiptsStayTrue == Spec => []FinalReceiptTrue
  <1>1. Init => RInv
    BY InitIInv DEF RInv, Init, FinalReceiptTrue, FreshItems
  <1>2. RInv /\ [Next]_vars => RInv'
    <2> SUFFICES ASSUME RInv, [Next]_vars
                 PROVE  RInv'
      OBVIOUS
    <2>1. IInv /\ FinalReceiptTrue /\ FreshItems
      BY DEF RInv
    <2>2. IInv'
      BY <2>1, NextIInv
    <2>3. CASE Callers
      <3>1. ASSUME NEW b \in Batches, NEW S \in SUBSET Items, CreateBatch(b, S)
            PROVE  FinalReceiptTrue' /\ FreshItems'
        BY <3>1, InsertReceipts DEF CreateBatch
      <3>2. ASSUME NEW src \in Batches, NEW b \in Batches, NEW S \in SUBSET Items,
                   ReplayFailures(src, b, S)
            PROVE  FinalReceiptTrue' /\ FreshItems'
        BY <3>2, InsertReceipts DEF ReplayFailures
      <3>3. ASSUME NEW b \in Batches, Cancel(b)
            PROVE  FinalReceiptTrue' /\ FreshItems'
        BY <3>3, CancelReceipts
      <3>4. QED
        BY <2>2, <2>3, <3>1, <3>2, <3>3 DEF Callers, RInv
    <2>4. ASSUME NEW w \in Invocations, Invoke(w) \/ Step(w) \/ Failure(w)
          PROVE  RInv'
      BY <2>2, <2>4, WorkerReceipts DEF RInv
    <2>5. CASE DispatchLeaseLapses \/ (\E i \in Items : ItemLeaseLapses(i)) \/ UNCHANGED vars
      <3>1. UNCHANGED <<batchStatus, receipts, status, quality, batchOf>>
        BY <2>5 DEF DispatchLeaseLapses, ItemLeaseLapses, vars, rows
      <3>2. QED
        BY <2>1, <2>2, <3>1, ReceiptFrame DEF FreshItems, RInv
    <2>6. QED
      BY <2>3, <2>4, <2>5 DEF Next
  <1>3. RInv => FinalReceiptTrue
    BY DEF RInv
  <1>4. QED
    BY <1>1, <1>2, <1>3, PTL DEF Spec

=============================================================================
