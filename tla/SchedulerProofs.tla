-------------------------- MODULE SchedulerProofs --------------------------
(***************************************************************************)
(* Theorems about Scheduler, for every set of transactions, senders and    *)
(* candidates, every limit and every fee bump.                             *)
(***************************************************************************)
EXTENDS Scheduler, FiniteSetTheorems, WellFoundedInduction, TLAPS

----------------------------------------------------------------------------
(* Fees *)

\* `replacement_fee` is a number for every transaction.
LEMMA ReplacementFeeType ==
    ASSUME NEW h \in Hashes
    PROVE  ReplacementFee(h) \in Nat
BY SchedulerAssumption, TransactionAssumption DEF ReplacementFee, UnwrapOr, TxRecord, OptionalFee

\* Rounding the quotient up never loses the remainder.
LEMMA DivCeilBound ==
    ASSUME NEW n \in Nat
    PROVE  DivCeil(n, 10000) \in Nat /\ DivCeil(n, 10000) * 10000 >= n
BY DEF DivCeil

\* Without saturation, a fee that reaches `replacement_threshold_fee` is higher
\* than the incumbent's by the configured bump.
LEMMA ThresholdIsABump ==
    ASSUME NEW h \in Hashes, NEW incumbent \in Hashes, NoFeeSaturation,
           ReplacementFee(h) >= ReplacementThresholdFee(incumbent)
    PROVE  ReplacementFee(h) * 10000 >= ReplacementFee(incumbent) * (10000 + FeeBumpBps)
<1> DEFINE product == ReplacementFee(incumbent) * (10000 + FeeBumpBps)
<1>1. product \in Nat
  BY ReplacementFeeType, SchedulerAssumption, TransactionAssumption
<1>2. ReplacementThresholdFee(incumbent) = DivCeil(product, 10000)
  BY <1>1, SchedulerAssumption, TransactionAssumption DEF ReplacementThresholdFee, Saturate, NoFeeSaturation
<1>3. DivCeil(product, 10000) \in Nat /\ DivCeil(product, 10000) * 10000 >= product
  BY <1>1, DivCeilBound
<1> HIDE DEF product
<1>4. ReplacementFee(h) \in Nat /\ ReplacementFee(h) >= DivCeil(product, 10000)
  BY <1>2, ReplacementFeeType
<1>5. ReplacementFee(h) * 10000 >= product
  BY <1>1, <1>3, <1>4
<1>6. QED
  BY <1>5 DEF product

----------------------------------------------------------------------------
(* Nonce-gap classification *)

\* Every nonempty set of naturals has a least element.
LEMMA LeastNat ==
    ASSUME NEW T \in SUBSET Nat, T # {}
    PROVE  \E x \in T : \A y \in T : x <= y
<1>1. PICK x \in T : \A y \in T : ~(<<y, x>> \in OpToRel(<, Nat))
  BY NatLessThanWellFounded, WFMin, Zenon
<1>2. \A y \in T : ~(y < x)
  BY <1>1, Zenon DEF OpToRel
<1>3. QED
  BY <1>2

\* The set of nonces in use is finite, and so is every part of it.
LEMMA NoncesFinite ==
    ASSUME NEW T \in SUBSET Nonces
    PROVE  IsFiniteSet(T) /\ Cardinality(T) \in Nat
<1>1. IsFiniteSet(Nonces)
  BY FS_Interval, SchedulerAssumption, TransactionAssumption DEF Nonces
<1>2. IsFiniteSet(T)
  BY <1>1, FS_Subset
<1>3. QED
  BY <1>2, FS_CardinalityType

\* A nonempty queue has a ready run and waits for a definite nonce.
LEMMA ExpectedNonceType ==
    ASSUME NEW occupied \in SUBSET Nonces, occupied # {}
    PROVE  ExpectedNonce(occupied) \in Nat
<1> DEFINE ready == ReadyNonces(occupied)
           distance == {MaxNonce - n : n \in ready}
<1>1. PICK least \in occupied : \A n \in occupied : least <= n
  BY LeastNat, SchedulerAssumption, TransactionAssumption DEF Nonces
<1>2. least \in ready
  BY <1>1, SchedulerAssumption, TransactionAssumption DEF ReadyNonces, Nonces
<1>3. ready \subseteq Nonces
  BY DEF ReadyNonces
<1>4. distance \in SUBSET Nat /\ distance # {}
  BY <1>2, <1>3, SchedulerAssumption, TransactionAssumption DEF Nonces
<1>5. PICK d \in distance : \A e \in distance : d <= e
  BY <1>4, LeastNat
<1>6. PICK last \in ready : d = MaxNonce - last
  BY <1>5
<1>7. \A n \in ready : n <= last
  <2> TAKE n \in ready
  <2>1. MaxNonce - last <= MaxNonce - n
    BY <1>5, <1>6
  <2>2. QED
    BY <2>1, <1>3, SchedulerAssumption, TransactionAssumption DEF Nonces
<1>8. (CHOOSE n \in ready : \A m \in ready : m <= n) \in ready
  BY <1>7
<1>9. QED
  BY <1>8, <1>3, SchedulerAssumption, TransactionAssumption DEF ExpectedNonce, Nonces

LEMMA QueueEntryStateType ==
    ASSUME NEW occupied \in SUBSET Nonces, occupied # {}, NEW n
    PROVE  QueueEntryState(occupied, n) \in QueueState
BY ExpectedNonceType DEF QueueEntryState, Ready, Blocked, QueueState

\* `classify_sender_queue_counts` counts a finite queue.
LEMMA ClassifyType ==
    ASSUME NEW p, NEW queue
    PROVE  ClassifySenderQueueCounts(p, queue) \in [ready : Nat, blocked : Nat]
<1> DEFINE occupied == Occupied(p, queue)
           ready == ReadyNonces(occupied)
<1>1. occupied \in SUBSET Nonces /\ ready \in SUBSET Nonces
  BY DEF Occupied, ReadyNonces
<1>2. Cardinality(ready) \in Nat /\ Cardinality(occupied \ ready) \in Nat
  BY <1>1, NoncesFinite
<1>3. QED
  BY <1>2 DEF ClassifySenderQueueCounts

----------------------------------------------------------------------------
(* Type correctness *)

\* What placing a transaction in its slot makes of the admission state.
LEMMA PlaceType ==
    ASSUME TypeOK, NEW h \in Hashes, NEW removed, Place(h, removed)
    PROVE  /\ pending' \subseteq Hashes
           /\ sender_queues' \in [Senders -> [Nonces -> Hashes \cup {None}]]
           /\ sender_queue_counts' \in [Senders -> [ready : Nat, blocked : Nat]]
           /\ ready_total' \in Nat
           /\ blocked_total' \in Nat
           /\ observed' \in [Hashes -> QueueState \cup {None}]
<1> DEFINE s == Tx[h].sender
           nextPending == (pending \ {removed}) \cup {h}
           nextQueue == [sender_queues[s] EXCEPT ![Tx[h].nonce] = h]
           next == SenderQueuePositions(nextPending, nextQueue)
           occupied == Occupied(nextPending, nextQueue)
<1>1. s \in Senders /\ Tx[h].nonce \in Nonces
  BY SchedulerAssumption, TransactionAssumption DEF TxRecord
<1>2. pending' = nextPending /\ sender_queues' = [sender_queues EXCEPT ![s] = nextQueue]
  BY DEF Place
<1>3. nextQueue \in [Nonces -> Hashes \cup {None}]
  BY <1>1 DEF TypeOK
<1>4. pending' \subseteq Hashes /\ sender_queues' \in [Senders -> [Nonces -> Hashes \cup {None}]]
  BY <1>1, <1>2, <1>3 DEF TypeOK
<1>5. RefreshSenderCounts(s, nextPending, nextQueue)
  BY DEF Place
<1>6. /\ sender_queue_counts' \in [Senders -> [ready : Nat, blocked : Nat]]
      /\ ready_total' \in Nat
      /\ blocked_total' \in Nat
  <2> DEFINE counts == ClassifySenderQueueCounts(nextPending, nextQueue)
             previous == sender_queue_counts[s]
  <2>1. counts \in [ready : Nat, blocked : Nat]
    BY ClassifyType
  <2>2. /\ sender_queue_counts' = [sender_queue_counts EXCEPT ![s] = counts]
        /\ ready_total' = SaturatingSub(ready_total, previous.ready) + counts.ready
        /\ blocked_total' = SaturatingSub(blocked_total, previous.blocked) + counts.blocked
    BY <1>5 DEF RefreshSenderCounts
  <2>3. previous \in [ready : Nat, blocked : Nat]
    BY <1>1 DEF TypeOK
  <2> HIDE DEF counts, previous
  <2>4. sender_queue_counts' \in [Senders -> [ready : Nat, blocked : Nat]]
    BY <2>1, <2>2 DEF TypeOK
  <2>5. SaturatingSub(ready_total, previous.ready) \in Nat /\ counts.ready \in Nat
    BY <2>1, <2>3 DEF TypeOK, SaturatingSub
  <2>6. SaturatingSub(blocked_total, previous.blocked) \in Nat /\ counts.blocked \in Nat
    BY <2>1, <2>3 DEF TypeOK, SaturatingSub
  <2>7. QED
    BY <2>2, <2>4, <2>5, <2>6
<1>7. occupied \in SUBSET Nonces
  BY DEF Occupied
<1>8. \A x \in DOMAIN next : next[x] \in QueueState
  <2> TAKE x \in DOMAIN next
  <2>1. DOMAIN next = {nextQueue[n] : n \in occupied}
    BY DEF SenderQueuePositions
  <2>2. occupied # {}
    BY <2>1
  <2>3. next[x] = QueueEntryState(occupied, CHOOSE n \in occupied : nextQueue[n] = x)
    BY <2>1 DEF SenderQueuePositions
  <2>4. QED
    BY <1>7, <2>2, <2>3, QueueEntryStateType
<1>9. observed' \in [Hashes -> QueueState \cup {None}]
  <2> DEFINE previous == SenderQueuePositions(pending, sender_queues[s])
             changed == QueueTransitions(previous, next)
  <2>1. observed' = [x \in Hashes |->
                       IF x \in changed THEN next[x]
                       ELSE IF x = removed THEN None ELSE observed[x]]
    BY DEF Place
  <2>2. changed \subseteq DOMAIN next
    BY DEF QueueTransitions
  <2> HIDE DEF changed, next
  <2>3. QED
    BY <1>8, <2>1, <2>2 DEF TypeOK
<1>10. QED
  BY <1>4, <1>6, <1>9

LEMMA BumpType ==
    ASSUME NEW n \in 0..CounterMax
    PROVE  Bump(n) \in 0..CounterMax
BY SchedulerAssumption, TransactionAssumption DEF Bump, Saturate

LEMMA InitTypeOK == Init => TypeOK
<1> SUFFICES ASSUME Init PROVE TypeOK
  OBVIOUS
<1>1. metrics \in Metrics
  BY SchedulerAssumption, TransactionAssumption DEF Init, NoQueues, Metrics
<1>2. sender_queues \in [Senders -> [Nonces -> Hashes \cup {None}]]
  BY DEF Init, NoQueues
<1>3. QED
  BY <1>1, <1>2, SchedulerAssumption, TransactionAssumption DEF Init, NoQueues, TypeOK

LEMMA AdmitTypeOK ==
    ASSUME TypeOK, NEW h \in Hashes, Admit(h)
    PROVE  TypeOK'
<1>1. CASE AdmitDuplicate(h) \/ AdmitUnderpriced(h) \/ AdmitOverLimit(h)
  <2>1. metrics' \in Metrics
    BY <1>1, BumpType
       DEF AdmitDuplicate, AdmitUnderpriced, AdmitOverLimit, TypeOK, Metrics
  <2>2. UNCHANGED <<admission_vars, candidate_vars, head_block_number>>
    BY <1>1 DEF AdmitDuplicate, AdmitUnderpriced, AdmitOverLimit
  <2>3. QED
    BY <2>1, <2>2 DEF TypeOK, admission_vars, candidate_vars
<1>2. CASE AdmitReplacement(h)
  <2>1. metrics' \in Metrics
    BY <1>2, BumpType DEF AdmitReplacement, TypeOK, Metrics
  <2>2. Place(h, Incumbent(h))
    BY <1>2 DEF AdmitReplacement
  <2>3. retired' \subseteq Hashes
    BY <1>2 DEF AdmitReplacement, TypeOK
  <2>4. UNCHANGED <<candidate_vars, head_block_number>>
    BY <1>2 DEF AdmitReplacement
  <2>5. QED
    BY <2>1, <2>2, <2>3, <2>4, PlaceType DEF TypeOK, candidate_vars
<1>3. CASE AdmitNew(h)
  <2>1. metrics' \in Metrics
    BY <1>3, BumpType DEF AdmitNew, TypeOK, Metrics
  <2>2. Place(h, None)
    BY <1>3 DEF AdmitNew
  <2>3. UNCHANGED <<retired, candidate_vars, head_block_number>>
    BY <1>3 DEF AdmitNew
  <2>4. QED
    BY <2>1, <2>2, <2>3, PlaceType DEF TypeOK, candidate_vars
<1>4. QED
  BY <1>1, <1>2, <1>3 DEF Admit

LEMMA NextGenerationType ==
    ASSUME TypeOK, NEW id \in CandidateIds, NextGeneration(id) <= MaxGeneration
    PROVE  NextGeneration(id) \in 0..MaxGeneration
BY SchedulerAssumption, TransactionAssumption DEF NextGeneration, TypeOK, CandidateEntry

LEMMA RegisterTypeOK ==
    ASSUME TypeOK, NEW batch \in RegistrationBatches, RegisterCandidates(batch)
    PROVE  TypeOK'
<1> DEFINE ids == {c.candidate_id : c \in batch}
           specOf(id) == CHOOSE c \in batch : c.candidate_id = id
<1>1. batch \subseteq CandidateSpec
  BY SchedulerAssumption, TransactionAssumption DEF RegistrationBatches
<1>2. \A id \in ids : id \in CandidateIds /\ NextGeneration(id) \in 0..MaxGeneration
  BY <1>1, NextGenerationType DEF RegisterCandidates, CandidateSpec
<1>3. \A id \in ids : specOf(id) \in CandidateSpec
  BY <1>1
<1>4. \A id \in ids : [tx_hash |-> specOf(id).tx_hash,
                       member_tx_hashes |-> specOf(id).member_tx_hashes,
                       block_number |-> head_block_number,
                       generation |-> NextGeneration(id)] \in CandidateEntry
  BY <1>2, <1>3 DEF CandidateEntry, CandidateSpec, TypeOK
<1>5. candidates' \in [CandidateIds -> CandidateEntry \cup {None}]
  BY <1>4 DEF RegisterCandidates, TypeOK
<1>6. \A c \in batch : TaskFor(c) \in SimulationTaskSpec
  <2> TAKE c \in batch
  <2>1. c \in CandidateSpec /\ c.candidate_id \in ids
    BY <1>1
  <2>2. MembersOf(c) \in SUBSET Hashes
    BY <2>1 DEF MembersOf, NormalizedMemberHashes, CandidateSpec
  <2>3. QED
    BY <1>2, <2>1, <2>2 DEF TaskFor, SimulationTaskSpec, CandidateSpec, TypeOK
<1>7. tasks' = tasks \cup {TaskFor(c) : c \in batch}
  BY DEF RegisterCandidates
<1>8. superseded' \subseteq tasks'
  BY DEF RegisterCandidates, TypeOK
<1>9. QED
  BY <1>5, <1>6, <1>7, <1>8 DEF RegisterCandidates, TypeOK, admission_vars

LEMMA ApplyTypeOK ==
    ASSUME TypeOK, NEW t \in tasks, ApplySimulationResult(t)
    PROVE  TypeOK'
<1>1. candidates[t.candidate_id] \in CandidateEntry /\ t.candidate_id \in CandidateIds
  BY DEF ApplySimulationResult, AcceptsResult, TypeOK, SimulationTaskSpec
<1>2. [candidates[t.candidate_id] EXCEPT !.generation = @ + 1] \in CandidateEntry
  BY <1>1, SchedulerAssumption, TransactionAssumption
     DEF ApplySimulationResult, AcceptsResult, CandidateEntry
<1>3. candidates' \in [CandidateIds -> CandidateEntry \cup {None}]
  BY <1>1, <1>2 DEF ApplySimulationResult, TypeOK
<1>4. superseded' \subseteq tasks'
  BY DEF ApplySimulationResult, TypeOK
<1>5. QED
  BY <1>3, <1>4 DEF ApplySimulationResult, TypeOK, admission_vars

LEMMA InvalidateTypeOK ==
    ASSUME TypeOK, NEW h \in Hashes, InvalidateCandidateHash(h)
    PROVE  TypeOK'
<1> DEFINE hit(id) == candidates[id] # None /\ Touches(candidates[id], h)
<1>1. \A id \in CandidateIds : hit(id) =>
         [candidates[id] EXCEPT !.generation = @ + 1] \in CandidateEntry
  <2> SUFFICES ASSUME NEW id \in CandidateIds, hit(id)
               PROVE  [candidates[id] EXCEPT !.generation = @ + 1] \in CandidateEntry
    OBVIOUS
  <2>1. candidates[id] \in CandidateEntry /\ candidates[id].generation < MaxGeneration
    BY DEF InvalidateCandidateHash, TypeOK
  <2>2. QED
    BY <2>1, SchedulerAssumption, TransactionAssumption DEF CandidateEntry
<1>2. candidates' \in [CandidateIds -> CandidateEntry \cup {None}]
  BY <1>1 DEF InvalidateCandidateHash, TypeOK
<1>3. superseded' \subseteq tasks'
  BY DEF InvalidateCandidateHash, TypeOK
<1>4. QED
  BY <1>2, <1>3 DEF InvalidateCandidateHash, TypeOK, admission_vars

LEMMA NextTypeOK == TypeOK /\ [Next]_vars => TypeOK'
<1> SUFFICES ASSUME TypeOK, [Next]_vars PROVE TypeOK'
  OBVIOUS
<1>1. CASE \E h \in Hashes : Admit(h)
  BY <1>1, AdmitTypeOK
<1>2. CASE \E batch \in RegistrationBatches : RegisterCandidates(batch)
  BY <1>2, RegisterTypeOK
<1>3. CASE \E t \in tasks : ApplySimulationResult(t)
  BY <1>3, ApplyTypeOK
<1>4. CASE \E t \in tasks : RecordStaleSimulationResult(t)
  <2>1. metrics' \in Metrics
    BY <1>4, BumpType DEF RecordStaleSimulationResult, TypeOK, Metrics
  <2>2. QED
    BY <1>4, <2>1
       DEF RecordStaleSimulationResult, TypeOK, admission_vars, candidate_vars
<1>5. CASE \E h \in Hashes : InvalidateCandidateHash(h)
  BY <1>5, InvalidateTypeOK
<1>6. CASE \E b \in Blocks : AdvanceHead(b)
  BY <1>6 DEF AdvanceHead, TypeOK, admission_vars, candidate_vars
<1>7. CASE UNCHANGED vars
  BY <1>7 DEF vars, TypeOK, admission_vars, candidate_vars
<1>8. QED
  BY <1>1, <1>2, <1>3, <1>4, <1>5, <1>6, <1>7 DEF Next

\* Every state of the scheduler is well typed, in particular the generation and
\* counter arithmetic stays within its bounds.
THEOREM TypeCorrect == Spec => []TypeOK
<1>1. Init => TypeOK
  BY InitTypeOK
<1>2. TypeOK /\ [Next]_vars => TypeOK'
  BY NextTypeOK
<1>3. QED
  BY <1>1, <1>2, PTL DEF Spec

----------------------------------------------------------------------------
(* The two indexes of the pool *)

LEMMA TxType ==
    ASSUME NEW h \in Hashes
    PROVE  Tx[h].sender \in Senders /\ Tx[h].nonce \in Nonces
BY SchedulerAssumption, TransactionAssumption DEF TxRecord

\* Both admitting branches of `admit` put h in place of what its slot holds.
LEMMA AdmittedIsPlaced ==
    ASSUME TypeOK, QueuesMatchPending, NEW h \in Hashes,
           AdmitReplacement(h) \/ AdmitNew(h)
    PROVE  /\ h \notin pending
           /\ Place(h, Incumbent(h))
           /\ AdmitReplacement(h) => Incumbent(h) \in pending
           /\ AdmitNew(h) =>
                Incumbent(h) = None /\ SenderQueueLen(Tx[h].sender) < MaxPendingPerSender
<1>1. CASE AdmitReplacement(h)
  <2>1. ~AdmitNew(h)
    BY <1>1 DEF AdmitReplacement, AdmitNew
  <2>2. QED
    BY <1>1, <2>1 DEF AdmitReplacement
<1>2. CASE AdmitNew(h)
  <2>1. Incumbent(h) = None
    BY <1>2, TxType DEF AdmitNew, QueuesMatchPending, Incumbent, SlotOf
  <2>2. ~AdmitReplacement(h)
    BY <1>2 DEF AdmitReplacement, AdmitNew
  <2>3. QED
    BY <1>2, <2>1, <2>2 DEF AdmitNew
<1>3. QED
  BY <1>1, <1>2

\* The slots after h was placed.
LEMMA PlacedSlots ==
    ASSUME TypeOK, NEW h \in Hashes, NEW removed, Place(h, removed)
    PROVE  /\ pending' = (pending \ {removed}) \cup {h}
           /\ \A s \in Senders, n \in Nonces :
                sender_queues'[s][n] =
                    IF s = Tx[h].sender /\ n = Tx[h].nonce THEN h ELSE sender_queues[s][n]
           /\ \A s \in Senders : s # Tx[h].sender => sender_queues'[s] = sender_queues[s]
<1>1. Tx[h].sender \in Senders /\ Tx[h].nonce \in Nonces
  BY TxType
<1>2. /\ pending' = (pending \ {removed}) \cup {h}
      /\ sender_queues' = [sender_queues EXCEPT ![Tx[h].sender] =
                               [sender_queues[Tx[h].sender] EXCEPT ![Tx[h].nonce] = h]]
  BY DEF Place
<1>3. QED
  BY <1>1, <1>2 DEF TypeOK

LEMMA PlaceKeepsIndexes ==
    ASSUME TypeOK, QueuesMatchPending, NEW h \in Hashes, h \notin pending,
           Place(h, Incumbent(h))
    PROVE  QueuesMatchPending'
<1> DEFINE removed == Incumbent(h)
<1>1. /\ pending' = (pending \ {removed}) \cup {h}
      /\ \A s \in Senders, n \in Nonces :
           sender_queues'[s][n] =
               IF s = Tx[h].sender /\ n = Tx[h].nonce THEN h ELSE sender_queues[s][n]
  BY PlacedSlots
<1>2. removed # None => Tx[removed].sender = Tx[h].sender /\ Tx[removed].nonce = Tx[h].nonce
  BY TxType DEF QueuesMatchPending, Incumbent, SlotOf
<1>3. ASSUME NEW s \in Senders, NEW n \in Nonces, sender_queues'[s][n] # None
      PROVE  /\ sender_queues'[s][n] \in pending'
             /\ Tx[sender_queues'[s][n]].sender = s
             /\ Tx[sender_queues'[s][n]].nonce = n
  <2>1. CASE s = Tx[h].sender /\ n = Tx[h].nonce
    BY <1>1, <2>1
  <2>2. CASE ~(s = Tx[h].sender /\ n = Tx[h].nonce)
    <3>1. sender_queues'[s][n] = sender_queues[s][n]
      BY <1>1, <2>2
    <3>2. /\ sender_queues[s][n] \in pending
          /\ Tx[sender_queues[s][n]].sender = s
          /\ Tx[sender_queues[s][n]].nonce = n
      BY <1>3, <3>1 DEF QueuesMatchPending
    <3>3. sender_queues[s][n] # removed
      BY <1>2, <1>3, <2>2, <3>1, <3>2
    <3>4. QED
      BY <1>1, <3>1, <3>2, <3>3
  <2>3. QED
    BY <2>1, <2>2
<1>4. ASSUME NEW g \in pending'
      PROVE  sender_queues'[Tx[g].sender][Tx[g].nonce] = g
  <2>1. CASE g = h
    BY <1>1, <2>1, TxType
  <2>2. CASE g # h
    <3>1. g \in pending /\ g # removed /\ g \in Hashes
      BY <1>1, <1>4, <2>2 DEF TypeOK
    <3>2. sender_queues[Tx[g].sender][Tx[g].nonce] = g
      BY <3>1 DEF QueuesMatchPending, Incumbent, SlotOf
    <3>3. ~(Tx[g].sender = Tx[h].sender /\ Tx[g].nonce = Tx[h].nonce)
      BY <3>1, <3>2 DEF Incumbent, SlotOf
    <3>4. QED
      BY <1>1, <3>1, <3>2, <3>3, TxType
  <2>3. QED
    BY <2>1, <2>2
<1>5. QED
  BY <1>3, <1>4 DEF QueuesMatchPending, Incumbent, SlotOf

\* What every step but an admitting one leaves alone.
LEMMA OtherStepsKeepPool ==
    ASSUME [Next]_vars, ~(\E h \in Hashes : AdmitReplacement(h) \/ AdmitNew(h))
    PROVE  /\ UNCHANGED admission_vars
<1>1. CASE \E h \in Hashes : Admit(h)
  BY <1>1 DEF Admit, AdmitDuplicate, AdmitUnderpriced, AdmitOverLimit
<1>2. CASE UNCHANGED vars
  BY <1>2 DEF vars
<1>3. CASE ~(\E h \in Hashes : Admit(h)) /\ ~UNCHANGED vars
  BY <1>3 DEF Next, RegisterCandidates, ApplySimulationResult, RecordStaleSimulationResult,
              InvalidateCandidateHash, AdvanceHead
<1>4. QED
  BY <1>1, <1>2, <1>3

\* They agree when the scheduler is empty.
LEMMA IndexesAgreeAtFirst == Init => QueuesMatchPending
BY DEF Init, NoQueues, QueuesMatchPending

\* Every step of the scheduler keeps the two indexes of the pool in agreement.
LEMMA StepKeepsIndexes ==
    TypeOK /\ QueuesMatchPending /\ [Next]_vars => QueuesMatchPending'
<1> SUFFICES ASSUME TypeOK, QueuesMatchPending, [Next]_vars
             PROVE  QueuesMatchPending'
  OBVIOUS
<1>1. CASE \E h \in Hashes : AdmitReplacement(h) \/ AdmitNew(h)
  BY <1>1, AdmittedIsPlaced, PlaceKeepsIndexes
<1>2. CASE ~(\E h \in Hashes : AdmitReplacement(h) \/ AdmitNew(h))
  BY <1>2, OtherStepsKeepPool DEF admission_vars, QueuesMatchPending, Incumbent, SlotOf
<1>3. QED
  BY <1>1, <1>2

\* The pending map and the sender queues agree in every reachable state.
THEOREM IndexesAgree == Spec => []QueuesMatchPending
BY IndexesAgreeAtFirst, StepKeepsIndexes, TypeCorrect, PTL DEF Spec

----------------------------------------------------------------------------
(* Limits and totals *)

\* No sender has more than its limit when the scheduler is empty.
LEMMA LimitHoldsAtFirst == Init => SenderLimitHolds
<1> SUFFICES ASSUME Init, NEW s \in Senders
             PROVE  SenderQueueLen(s) <= MaxPendingPerSender
  BY DEF SenderLimitHolds
<1>1. {n \in Nonces : sender_queues[s][n] # None} = {}
  BY DEF Init, NoQueues
<1>2. QED
  BY <1>1, FS_EmptySet, SchedulerAssumption, TransactionAssumption DEF SenderQueueLen

\* No step takes a sender over its limit.
LEMMA StepKeepsLimit ==
    TypeOK /\ QueuesMatchPending /\ SenderLimitHolds /\ [Next]_vars => SenderLimitHolds'
<1> SUFFICES ASSUME TypeOK, QueuesMatchPending, SenderLimitHolds, [Next]_vars,
                    NEW s \in Senders
             PROVE  SenderQueueLen(s)' <= MaxPendingPerSender
  BY DEF SenderLimitHolds
<1> DEFINE used == {n \in Nonces : sender_queues[s][n] # None}
<1>1. ASSUME NEW h \in Hashes, AdmitReplacement(h) \/ AdmitNew(h)
      PROVE  SenderQueueLen(s)' <= MaxPendingPerSender
  <2>1. CASE s # Tx[h].sender
    <3>1. sender_queues'[s] = sender_queues[s]
      BY <1>1, <2>1, AdmittedIsPlaced, PlacedSlots
    <3>2. used' = used
      BY <3>1
    <3>3. QED
      BY <3>2 DEF SenderLimitHolds, SenderQueueLen
  <2>2. CASE s = Tx[h].sender
    <3>1. used' = used \cup {Tx[h].nonce}
      BY <1>1, <2>2, AdmittedIsPlaced, PlacedSlots, TxType, SchedulerAssumption, TransactionAssumption
    <3>2. IsFiniteSet(used) /\ Cardinality(used) \in Nat
      BY NoncesFinite
    <3>3. CASE AdmitReplacement(h)
      <4>1. Tx[h].nonce \in used
        BY <2>2, <3>3, TxType, SchedulerAssumption, TransactionAssumption DEF AdmitReplacement, Incumbent, SlotOf, TypeOK
      <4>2. used' = used
        BY <3>1, <4>1
      <4>3. QED
        BY <4>2 DEF SenderLimitHolds, SenderQueueLen
    <3>4. CASE AdmitNew(h)
      <4>1. Cardinality(used) < MaxPendingPerSender
        BY <2>2, <3>4, AdmittedIsPlaced DEF SenderQueueLen
      <4>2. Cardinality(used \cup {Tx[h].nonce}) =
              IF Tx[h].nonce \in used THEN Cardinality(used) ELSE Cardinality(used) + 1
        BY <3>2, FS_AddElement
      <4>3. Cardinality(used') <= MaxPendingPerSender
        <5> DEFINE size == Cardinality(used)
                   grown == Cardinality(used \cup {Tx[h].nonce})
        <5>1. size \in Nat /\ size < MaxPendingPerSender
          BY <3>2, <4>1
        <5>2. grown = size \/ grown = size + 1
          BY <4>2
        <5>3. Cardinality(used') = grown
          BY <3>1
        <5> HIDE DEF size, grown
        <5>4. QED
          BY <5>1, <5>2, <5>3, SchedulerAssumption, TransactionAssumption
      <4>4. QED
        BY <4>3 DEF SenderQueueLen
    <3>5. QED
      BY <1>1, <3>3, <3>4
  <2>3. QED
    BY <2>1, <2>2
<1>2. CASE ~(\E h \in Hashes : AdmitReplacement(h) \/ AdmitNew(h))
  <2>1. sender_queues' = sender_queues
    BY <1>2, OtherStepsKeepPool DEF admission_vars
  <2>2. QED
    BY <2>1 DEF SenderLimitHolds, SenderQueueLen
<1>3. QED
  BY <1>1, <1>2

\* No sequence of admissions and replacements takes a sender over its limit.
THEOREM LimitHolds == Spec => []SenderLimitHolds
BY LimitHoldsAtFirst, StepKeepsLimit, TypeCorrect, IndexesAgree, PTL DEF Spec

\* The slots that a choice of nonces per sender stands for.
Slots(chosen) == {slot \in Senders \X Nonces : slot[2] \in chosen[slot[1]]}

\* Changing the choice of one sender changes the number of slots by the
\* difference for that sender: the arithmetic behind `refresh_sender_counts`.
LEMMA OneSenderRecount ==
    ASSUME NEW old \in [Senders -> SUBSET Nonces], NEW new \in [Senders -> SUBSET Nonces],
           NEW s \in Senders, \A x \in Senders : x # s => new[x] = old[x]
    PROVE  /\ Cardinality(old[s]) \in Nat
           /\ Cardinality(new[s]) \in Nat
           /\ Cardinality(Slots(old)) \in Nat
           /\ Cardinality(old[s]) <= Cardinality(Slots(old))
           /\ Cardinality(Slots(new)) =
                Cardinality(Slots(old)) - Cardinality(old[s]) + Cardinality(new[s])
<1> DEFINE rest == {slot \in Slots(old) : slot[1] # s}
<1>1. IsFiniteSet(Senders \X Nonces)
  BY FS_Product, NoncesFinite, SchedulerAssumption, TransactionAssumption
<1>2. IsFiniteSet(rest) /\ Cardinality(rest) \in Nat
  BY <1>1, FS_Subset, FS_CardinalityType DEF Slots
<1>3. ASSUME NEW f \in [Senders -> SUBSET Nonces], \A x \in Senders : x # s => f[x] = old[x]
      PROVE  /\ Cardinality(f[s]) \in Nat
             /\ Cardinality(Slots(f)) = Cardinality(f[s]) + Cardinality(rest)
  <2>1. IsFiniteSet(f[s]) /\ Cardinality(f[s]) \in Nat
    BY NoncesFinite
  <2>2. IsFiniteSet({s}) /\ Cardinality({s}) = 1
    BY FS_Singleton
  <2>3. IsFiniteSet({s} \X f[s]) /\ Cardinality({s} \X f[s]) = Cardinality(f[s])
    <3>1. /\ IsFiniteSet({s} \X f[s])
          /\ Cardinality({s} \X f[s]) = Cardinality({s}) * Cardinality(f[s])
      BY <2>1, <2>2, FS_Product
    <3>2. QED
      BY <2>1, <2>2, <3>1
  <2>4. Slots(f) = ({s} \X f[s]) \cup rest
    <3>1. ASSUME NEW slot \in Slots(f) PROVE slot \in ({s} \X f[s]) \cup rest
      BY <1>3, <3>1 DEF Slots
    <3>2. ASSUME NEW slot \in ({s} \X f[s]) \cup rest PROVE slot \in Slots(f)
      BY <1>3, <3>2 DEF Slots
    <3>3. QED
      BY <3>1, <3>2
  <2>5. ({s} \X f[s]) \cap rest = {}
    OBVIOUS
  <2>6. /\ Cardinality(({s} \X f[s]) \cup rest) =
            Cardinality({s} \X f[s]) + Cardinality(rest) - Cardinality(({s} \X f[s]) \cap rest)
    BY <1>2, <2>3, FS_Union
  <2>7. Cardinality(({s} \X f[s]) \cap rest) = 0
    BY <2>5, FS_EmptySet
  <2>8. QED
    BY <1>2, <2>1, <2>3, <2>4, <2>6, <2>7
<1>4. /\ Cardinality(old[s]) \in Nat
      /\ Cardinality(Slots(old)) = Cardinality(old[s]) + Cardinality(rest)
  BY <1>3
<1>5. /\ Cardinality(new[s]) \in Nat
      /\ Cardinality(Slots(new)) = Cardinality(new[s]) + Cardinality(rest)
  BY <1>3
<1>6. QED
  BY <1>2, <1>4, <1>5

\* Classification only looks at the pending entries of one queue, so placing h
\* leaves the occupied nonces of every other sender as they were.
LEMMA OthersKeepNonces ==
    ASSUME TypeOK, QueuesMatchPending, NEW h \in Hashes, h \notin pending,
           Place(h, Incumbent(h)), NEW s \in Senders, s # Tx[h].sender
    PROVE  /\ sender_queues'[s] = sender_queues[s]
           /\ Occupied(pending', sender_queues'[s]) = Occupied(pending, sender_queues[s])
<1>1. /\ sender_queues'[s] = sender_queues[s]
      /\ pending' = (pending \ {Incumbent(h)}) \cup {h}
  BY PlacedSlots
<1>2. \A n \in Nonces : sender_queues[s][n] \in pending => sender_queues[s][n] # Incumbent(h)
  BY TxType, SchedulerAssumption, TransactionAssumption DEF QueuesMatchPending, Incumbent, SlotOf, TypeOK
<1>3. \A n \in Nonces : sender_queues[s][n] # h
  BY SchedulerAssumption, TransactionAssumption DEF QueuesMatchPending
<1>4. QED
  BY <1>1, <1>2, <1>3 DEF Occupied

\* The ready and the blocked nonces of every sender, as functions.
ReadyOf(p, queues) == [s \in Senders |-> ReadyNonces(Occupied(p, queues[s]))]
BlockedOf(p, queues) ==
    [s \in Senders |-> Occupied(p, queues[s]) \ ReadyNonces(Occupied(p, queues[s]))]

LEMMA SlotsAreRecounted ==
    /\ ReadySlots = Slots(ReadyOf(pending, sender_queues))
    /\ OccupiedSlots \ ReadySlots = Slots(BlockedOf(pending, sender_queues))
<1>1. ReadySlots = Slots(ReadyOf(pending, sender_queues))
  BY DEF ReadySlots, Slots, ReadyOf
<1>2. OccupiedSlots \ ReadySlots = Slots(BlockedOf(pending, sender_queues))
  BY DEF ReadySlots, OccupiedSlots, Slots, BlockedOf
<1>3. QED
  BY <1>1, <1>2

LEMMA PlaceKeepsTotals ==
    ASSUME TypeOK, QueuesMatchPending, TotalsMatchRecount,
           NEW h \in Hashes, h \notin pending, Place(h, Incumbent(h))
    PROVE  TotalsMatchRecount'
<1> DEFINE s == Tx[h].sender
           ready == ReadyOf(pending, sender_queues)
           blocked == BlockedOf(pending, sender_queues)
           counts == ClassifySenderQueueCounts(pending', sender_queues'[s])
<1>1. s \in Senders
  BY TxType
<1>2. /\ ready \in [Senders -> SUBSET Nonces] /\ ready' \in [Senders -> SUBSET Nonces]
      /\ blocked \in [Senders -> SUBSET Nonces] /\ blocked' \in [Senders -> SUBSET Nonces]
  BY DEF ReadyOf, BlockedOf, ReadyNonces, Occupied
<1>3. \A x \in Senders : x # s =>
         /\ Occupied(pending', sender_queues'[x]) = Occupied(pending, sender_queues[x])
         /\ sender_queues'[x] = sender_queues[x]
  BY OthersKeepNonces
<1>4. \A x \in Senders : x # s => ready'[x] = ready[x] /\ blocked'[x] = blocked[x]
  BY <1>3 DEF ReadyOf, BlockedOf
<1>5. /\ sender_queue_counts' = [sender_queue_counts EXCEPT ![s] = counts]
      /\ ready_total' =
           SaturatingSub(ready_total, sender_queue_counts[s].ready) + counts.ready
      /\ blocked_total' =
           SaturatingSub(blocked_total, sender_queue_counts[s].blocked) + counts.blocked
  <2>1. sender_queues'[s] = [sender_queues[s] EXCEPT ![Tx[h].nonce] = h]
    BY <1>1 DEF Place, TypeOK
  <2>2. pending' = (pending \ {Incumbent(h)}) \cup {h}
    BY DEF Place
  <2>3. QED
    BY <2>1, <2>2 DEF Place, RefreshSenderCounts
<1>6. /\ counts.ready = Cardinality(ready'[s])
      /\ counts.blocked = Cardinality(blocked'[s])
      /\ sender_queue_counts[s].ready = Cardinality(ready[s])
      /\ sender_queue_counts[s].blocked = Cardinality(blocked[s])
  <2>1. \A p, queue :
          LET occupied == Occupied(p, queue)
          IN  /\ ClassifySenderQueueCounts(p, queue).ready = Cardinality(ReadyNonces(occupied))
              /\ ClassifySenderQueueCounts(p, queue).blocked =
                   Cardinality(occupied \ ReadyNonces(occupied))
    BY DEF ClassifySenderQueueCounts
  <2>2. /\ ready[s] = ReadyNonces(Occupied(pending, sender_queues[s]))
        /\ blocked[s] = Occupied(pending, sender_queues[s]) \ ready[s]
    BY <1>1 DEF ReadyOf, BlockedOf
  <2>3. /\ ready'[s] = ReadyNonces(Occupied(pending', sender_queues'[s]))
        /\ blocked'[s] = Occupied(pending', sender_queues'[s]) \ ready'[s]
    BY <1>1 DEF ReadyOf, BlockedOf
  <2>4. sender_queue_counts[s] = ClassifySenderQueueCounts(pending, sender_queues[s])
    BY <1>1 DEF TotalsMatchRecount
  <2> HIDE DEF ready, blocked
  <2>5. QED
    BY <2>1, <2>2, <2>3, <2>4
<1>7. \A x \in Senders :
         sender_queue_counts'[x] = ClassifySenderQueueCounts(pending', sender_queues'[x])
  <2> TAKE x \in Senders
  <2>1. CASE x = s
    BY <1>5, <2>1 DEF TypeOK
  <2>2. CASE x # s
    <3>1. sender_queue_counts'[x] = ClassifySenderQueueCounts(pending, sender_queues[x])
      BY <1>5, <2>2 DEF TotalsMatchRecount, TypeOK
    <3>2. QED
      BY <1>3, <2>2, <3>1 DEF ClassifySenderQueueCounts
  <2>3. QED
    BY <2>1, <2>2
<1> HIDE DEF ready, blocked, counts, s
<1>8. ready_total = Cardinality(Slots(ready)) /\ blocked_total = Cardinality(Slots(blocked))
  BY SlotsAreRecounted DEF TotalsMatchRecount, ready, blocked
<1>9. ready_total' = Cardinality(Slots(ready'))
  <2>1. /\ Cardinality(ready[s]) \in Nat /\ Cardinality(ready'[s]) \in Nat
        /\ Cardinality(Slots(ready)) \in Nat
        /\ Cardinality(ready[s]) <= Cardinality(Slots(ready))
        /\ Cardinality(Slots(ready')) =
             Cardinality(Slots(ready)) - Cardinality(ready[s]) + Cardinality(ready'[s])
    BY <1>1, <1>2, <1>4, OneSenderRecount
  <2>2. ready_total' = SaturatingSub(ready_total, Cardinality(ready[s])) + Cardinality(ready'[s])
    BY <1>5, <1>6
  <2>3. QED
    BY <1>8, <2>1, <2>2 DEF SaturatingSub
<1>10. blocked_total' = Cardinality(Slots(blocked'))
  <2>1. /\ Cardinality(blocked[s]) \in Nat /\ Cardinality(blocked'[s]) \in Nat
        /\ Cardinality(Slots(blocked)) \in Nat
        /\ Cardinality(blocked[s]) <= Cardinality(Slots(blocked))
        /\ Cardinality(Slots(blocked')) =
             Cardinality(Slots(blocked)) - Cardinality(blocked[s]) + Cardinality(blocked'[s])
    BY <1>1, <1>2, <1>4, OneSenderRecount
  <2>2. blocked_total' =
          SaturatingSub(blocked_total, Cardinality(blocked[s])) + Cardinality(blocked'[s])
    BY <1>5, <1>6
  <2>3. QED
    BY <1>8, <2>1, <2>2 DEF SaturatingSub
<1>11. /\ ReadySlots' = Slots(ready')
       /\ (OccupiedSlots \ ReadySlots)' = Slots(blocked')
  <2>1. ReadySlots' = Slots(ready')
    BY DEF ReadySlots, Slots, ReadyOf, ready
  <2>2. (OccupiedSlots \ ReadySlots)' = Slots(blocked')
    BY DEF ReadySlots, OccupiedSlots, Slots, BlockedOf, blocked
  <2>3. QED
    BY <2>1, <2>2
<1>12. QED
  BY <1>7, <1>9, <1>10, <1>11 DEF TotalsMatchRecount

\* The totals of an empty scheduler are those of a recount.
LEMMA TotalsCorrectAtFirst == Init => TotalsMatchRecount
<1> SUFFICES ASSUME Init PROVE TotalsMatchRecount
  OBVIOUS
<1>1. \A s \in Senders : Occupied(pending, sender_queues[s]) = {}
  BY DEF Init, NoQueues, Occupied
<1>2. ReadyNonces({}) = {}
  BY DEF ReadyNonces
<1>3. ReadySlots = {} /\ OccupiedSlots = {}
  BY <1>1, <1>2 DEF ReadySlots, OccupiedSlots
<1>4. Cardinality({}) = 0
  BY FS_EmptySet
<1>5. \A s \in Senders :
        sender_queue_counts[s] = ClassifySenderQueueCounts(pending, sender_queues[s])
  BY <1>1, <1>2, <1>4 DEF Init, NoQueues, ClassifySenderQueueCounts
<1>6. QED
  BY <1>3, <1>4, <1>5 DEF Init, NoQueues, TotalsMatchRecount

\* Every step of the scheduler keeps the totals equal to the recount.
LEMMA StepKeepsTotals ==
    TypeOK /\ QueuesMatchPending /\ TotalsMatchRecount /\ [Next]_vars => TotalsMatchRecount'
<1> SUFFICES ASSUME TypeOK, QueuesMatchPending, TotalsMatchRecount, [Next]_vars
             PROVE  TotalsMatchRecount'
  OBVIOUS
<1>1. CASE \E h \in Hashes : AdmitReplacement(h) \/ AdmitNew(h)
  BY <1>1, AdmittedIsPlaced, PlaceKeepsTotals
<1>2. CASE ~(\E h \in Hashes : AdmitReplacement(h) \/ AdmitNew(h))
  BY <1>2, OtherStepsKeepPool
     DEF admission_vars, TotalsMatchRecount, ReadySlots, OccupiedSlots
<1>3. QED
  BY <1>1, <1>2

\* The incrementally maintained totals equal a recount in every reachable state.
THEOREM TotalsCorrect == Spec => []TotalsMatchRecount
BY TotalsCorrectAtFirst, StepKeepsTotals, TypeCorrect, IndexesAgree, PTL DEF Spec

----------------------------------------------------------------------------
(* Replacement *)

\* In every step and for every slot, the fee policy holds.
THEOREM FeesRise == Spec => SlotFeesRise
<1> DEFINE Rises ==
      NoFeeSaturation =>
         \A s \in Senders, n \in Nonces :
            LET old == sender_queues[s][n]
                new == sender_queues'[s][n]
            IN  old # None /\ new # old =>
                  /\ new # None
                  /\ ReplacementFee(new) * 10000
                       >= ReplacementFee(old) * (10000 + FeeBumpBps)
<1>1. TypeOK /\ QueuesMatchPending /\ [Next]_vars => [Rises]_vars
  <2> SUFFICES ASSUME TypeOK, QueuesMatchPending, [Next]_vars, NoFeeSaturation,
                      NEW s \in Senders, NEW n \in Nonces,
                      sender_queues[s][n] # None,
                      sender_queues'[s][n] # sender_queues[s][n]
               PROVE  /\ sender_queues'[s][n] # None
                      /\ ReplacementFee(sender_queues'[s][n]) * 10000
                           >= ReplacementFee(sender_queues[s][n]) * (10000 + FeeBumpBps)
    OBVIOUS
  <2>1. PICK h \in Hashes : AdmitReplacement(h) \/ AdmitNew(h)
    BY OtherStepsKeepPool DEF admission_vars
  <2>2. Place(h, Incumbent(h))
    BY <2>1, AdmittedIsPlaced
  <2>3. s = Tx[h].sender /\ n = Tx[h].nonce /\ sender_queues'[s][n] = h
    BY <2>2, PlacedSlots
  <2>4. sender_queues[s][n] = Incumbent(h) /\ Incumbent(h) \in Hashes
    BY <2>3 DEF Incumbent, SlotOf, TypeOK
  <2>5. AdmitReplacement(h)
    BY <2>1, <2>4, AdmittedIsPlaced
  <2>6. ReplacementFee(h) >= ReplacementThresholdFee(Incumbent(h))
    BY <2>5 DEF AdmitReplacement
  <2>7. QED
    BY <2>3, <2>4, <2>6, ThresholdIsABump, SchedulerAssumption, TransactionAssumption
<1>2. QED
  BY <1>1, TypeCorrect, IndexesAgree, PTL DEF Spec, SlotFeesRise

\* The inductive form of ReplacedStayOut: a replaced transaction pays less than
\* whatever now holds its slot.
RetiredPayLess ==
    OrdinaryFees =>
        \A h \in retired :
            /\ Incumbent(h) \in Hashes
            /\ ReplacementFee(h) < ReplacementFee(Incumbent(h))

LEMMA ReplacementPaysMore ==
    ASSUME OrdinaryFees, NEW h \in Hashes, NEW incumbent \in Hashes,
           ReplacementFee(h) >= ReplacementThresholdFee(incumbent)
    PROVE  ReplacementFee(incumbent) < ReplacementFee(h)
<1> DEFINE new == ReplacementFee(h)
           old == ReplacementFee(incumbent)
<1>1. new * 10000 >= old * (10000 + FeeBumpBps)
  BY ThresholdIsABump DEF OrdinaryFees
<1>2. new \in Nat /\ old \in Nat /\ old > 0 /\ FeeBumpBps \in Nat /\ FeeBumpBps > 0
  BY ReplacementFeeType, SchedulerAssumption, TransactionAssumption DEF OrdinaryFees
<1> HIDE DEF new, old
<1>3. old * (10000 + FeeBumpBps) = old * 10000 + old * FeeBumpBps
  BY <1>2
<1>4. old * FeeBumpBps \in Nat /\ old * FeeBumpBps > 0
  BY <1>2
<1>5. new > old
  BY <1>1, <1>2, <1>3, <1>4
<1>6. QED
  BY <1>5 DEF new, old

\* Under ordinary fees no replaced transaction ever returns to the pool.
THEOREM ReplacementIsFinal == Spec => []ReplacedStayOut
<1>1. Init => RetiredPayLess
  BY DEF Init, NoQueues, RetiredPayLess
<1>2. TypeOK /\ QueuesMatchPending /\ RetiredPayLess /\ [Next]_vars => RetiredPayLess'
  <2> SUFFICES ASSUME TypeOK, QueuesMatchPending, RetiredPayLess, [Next]_vars, OrdinaryFees,
                      NEW g \in retired'
               PROVE  /\ Incumbent(g)' \in Hashes
                      /\ ReplacementFee(g) < ReplacementFee(Incumbent(g)')
    BY DEF RetiredPayLess
  <2>1. ASSUME NEW h \in Hashes, AdmitReplacement(h) \/ AdmitNew(h)
        PROVE  /\ Incumbent(g)' \in Hashes
               /\ ReplacementFee(g) < ReplacementFee(Incumbent(g)')
    <3>1. Place(h, Incumbent(h))
      BY <2>1, AdmittedIsPlaced
    <3>2. CASE g \in retired
      <4>1. g \in Hashes /\ Incumbent(g) \in Hashes
             /\ ReplacementFee(g) < ReplacementFee(Incumbent(g))
        BY <3>2 DEF RetiredPayLess, TypeOK
      <4>2. CASE Tx[g].sender = Tx[h].sender /\ Tx[g].nonce = Tx[h].nonce
        <5>1. Incumbent(g)' = h /\ Incumbent(g) = Incumbent(h)
          BY <3>1, <4>2, PlacedSlots, TxType DEF Incumbent, SlotOf
        <5>2. AdmitReplacement(h)
          BY <2>1, <4>1, <5>1, AdmittedIsPlaced, SchedulerAssumption, TransactionAssumption
        <5>3. ReplacementFee(Incumbent(g)) < ReplacementFee(h)
          BY <4>1, <5>1, <5>2, ReplacementPaysMore DEF AdmitReplacement
        <5>4. /\ ReplacementFee(g) \in Nat /\ ReplacementFee(h) \in Nat
              /\ ReplacementFee(Incumbent(g)) \in Nat
          BY <4>1, ReplacementFeeType
        <5>5. QED
          BY <4>1, <5>1, <5>3, <5>4
      <4>3. CASE ~(Tx[g].sender = Tx[h].sender /\ Tx[g].nonce = Tx[h].nonce)
        <5>1. Incumbent(g)' = Incumbent(g)
          BY <3>1, <4>1, <4>3, PlacedSlots, TxType DEF Incumbent, SlotOf
        <5>2. QED
          BY <4>1, <5>1
      <4>4. QED
        BY <4>2, <4>3
    <3>3. CASE g \notin retired
      <4>1. AdmitReplacement(h) /\ g = Incumbent(h)
        BY <2>1, <3>3 DEF AdmitReplacement, AdmitNew
      <4>2. g \in Hashes /\ Tx[g].sender = Tx[h].sender /\ Tx[g].nonce = Tx[h].nonce
        BY <4>1, TxType, SchedulerAssumption, TransactionAssumption
           DEF AdmitReplacement, QueuesMatchPending, Incumbent, SlotOf, TypeOK
      <4>3. Incumbent(g)' = h
        BY <3>1, <4>2, PlacedSlots, TxType DEF Incumbent, SlotOf
      <4>4. QED
        BY <4>1, <4>2, <4>3, ReplacementPaysMore DEF AdmitReplacement
    <3>4. QED
      BY <3>2, <3>3
  <2>2. CASE ~(\E h \in Hashes : AdmitReplacement(h) \/ AdmitNew(h))
    BY <2>2, OtherStepsKeepPool DEF admission_vars, RetiredPayLess, Incumbent, SlotOf
  <2>3. QED
    BY <2>1, <2>2
<1>3. TypeOK /\ QueuesMatchPending /\ RetiredPayLess => ReplacedStayOut
  <2> SUFFICES ASSUME TypeOK, QueuesMatchPending, RetiredPayLess, OrdinaryFees,
                      NEW h \in retired, h \in pending
               PROVE  FALSE
    BY DEF ReplacedStayOut, OrdinaryFees
  <2>1. Incumbent(h) = h /\ ReplacementFee(h) < ReplacementFee(h)
    BY DEF QueuesMatchPending, RetiredPayLess
  <2>2. QED
    BY <2>1, ReplacementFeeType DEF TypeOK
<1>4. QED
  BY <1>1, <1>2, <1>3, TypeCorrect, IndexesAgree, PTL DEF Spec

----------------------------------------------------------------------------
(* Accounting *)

\* The inductive form of PendingBalance: the pool is finite as well.
PoolCounted == IsFiniteSet(pending) /\ PendingBalance

LEMMA AdmissionsCounted ==
    ASSUME TypeOK, QueuesMatchPending, PoolCounted, NEW h \in Hashes,
           AdmitReplacement(h) \/ AdmitNew(h)
    PROVE  PoolCounted'
<1> DEFINE admitted == metrics.admitted_total
           replaced == metrics.replacement_total
           rest == pending \ {Incumbent(h)}
<1>1. h \notin pending /\ pending' = rest \cup {h}
  BY AdmittedIsPlaced, PlacedSlots
<1>2. admitted \in 0..CounterMax /\ replaced \in 0..CounterMax
  BY DEF TypeOK, Metrics
<1>3. /\ IsFiniteSet(rest)
      /\ Cardinality(rest) = IF Incumbent(h) \in pending
                             THEN Cardinality(pending) - 1 ELSE Cardinality(pending)
  BY FS_RemoveElement DEF PoolCounted
<1>4. IsFiniteSet(pending') /\ Cardinality(pending') = Cardinality(rest) + 1
  BY <1>1, <1>3, FS_AddElement
<1>5. Cardinality(pending) \in Nat
  BY FS_CardinalityType DEF PoolCounted
<1>6. metrics'.admitted_total = Bump(admitted)
  BY DEF AdmitReplacement, AdmitNew, TypeOK, Metrics
<1>7. /\ AdmitReplacement(h) => metrics'.replacement_total = Bump(replaced)
      /\ AdmitNew(h) => metrics'.replacement_total = replaced
  BY DEF AdmitReplacement, AdmitNew, TypeOK, Metrics
<1>8. ASSUME metrics'.admitted_total < CounterMax
      PROVE  Cardinality(pending') = metrics'.admitted_total - metrics'.replacement_total
  <2>1. admitted < CounterMax /\ metrics'.admitted_total = admitted + 1
    BY <1>2, <1>6, <1>8, SchedulerAssumption, TransactionAssumption DEF Bump, Saturate
  <2>2. Cardinality(pending) = admitted - replaced
    BY <2>1 DEF PoolCounted, PendingBalance
  <2>3. CASE AdmitReplacement(h)
    <3>1. Incumbent(h) \in pending
      BY <2>3 DEF AdmitReplacement
    <3>2. metrics'.replacement_total = replaced + 1
      BY <1>2, <1>5, <1>7, <2>1, <2>2, <2>3, SchedulerAssumption, TransactionAssumption DEF Bump, Saturate
    <3>3. QED
      BY <1>2, <1>3, <1>4, <1>5, <2>1, <2>2, <3>1, <3>2
  <2>4. CASE AdmitNew(h)
    <3>1. Incumbent(h) \notin pending
      BY <2>4 DEF AdmitNew
    <3>2. QED
      BY <1>2, <1>3, <1>4, <1>5, <1>7, <2>1, <2>2, <2>4, <3>1
  <2>5. QED
    BY <2>3, <2>4
<1>9. QED
  BY <1>4, <1>8 DEF PoolCounted, PendingBalance

\* What is pending is what was admitted and not replaced.
THEOREM PoolBalances == Spec => []PendingBalance
<1>1. Init => PoolCounted
  BY FS_EmptySet DEF Init, NoQueues, PoolCounted, PendingBalance
<1>2. TypeOK /\ QueuesMatchPending /\ PoolCounted /\ [Next]_vars => PoolCounted'
  <2> SUFFICES ASSUME TypeOK, QueuesMatchPending, PoolCounted, [Next]_vars
               PROVE  PoolCounted'
    OBVIOUS
  <2>1. CASE \E h \in Hashes : AdmitReplacement(h) \/ AdmitNew(h)
    BY <2>1, AdmissionsCounted
  <2>2. CASE ~(\E h \in Hashes : AdmitReplacement(h) \/ AdmitNew(h))
    <3>1. pending' = pending
      BY <2>2, OtherStepsKeepPool DEF admission_vars
    <3>2. /\ metrics'.admitted_total = metrics.admitted_total
          /\ metrics'.replacement_total = metrics.replacement_total
      <4>1. CASE \E h \in Hashes : Admit(h)
        BY <2>2, <4>1 DEF Admit, AdmitDuplicate, AdmitUnderpriced, AdmitOverLimit, TypeOK, Metrics
      <4>2. CASE \E t \in tasks : RecordStaleSimulationResult(t)
        BY <4>2 DEF RecordStaleSimulationResult, TypeOK, Metrics
      <4>3. CASE metrics' = metrics
        BY <4>3
      <4>4. QED
        BY <4>1, <4>2, <4>3
           DEF Next, vars, RegisterCandidates, ApplySimulationResult,
               InvalidateCandidateHash, AdvanceHead
    <3>3. QED
      BY <3>1, <3>2 DEF PoolCounted, PendingBalance
  <2>3. QED
    BY <2>1, <2>2
<1>3. PoolCounted => PendingBalance
  BY DEF PoolCounted
<1>4. QED
  BY <1>1, <1>2, <1>3, TypeCorrect, IndexesAgree, PTL DEF Spec

\* Limit and balance together: every transaction of the pool is accounted for after
\* any sequence of commands.
THEOREM PoolIsAccounted == Spec => []PoolAccounted
<1>1. SenderLimitHolds /\ PendingBalance => PoolAccounted
  BY DEF PoolAccounted
<1>2. QED
  BY <1>1, LimitHolds, PoolBalances, PTL

----------------------------------------------------------------------------
(* The queue transitions *)

\* The pending map p and the queue of sender s agree.
QueueMatches(p, queue, s) ==
    /\ \A n \in Nonces : queue[n] \in p =>
         Tx[queue[n]].sender = s /\ Tx[queue[n]].nonce = n
    /\ \A h \in p : Tx[h].sender = s => queue[Tx[h].nonce] = h

\* The positions of a queue are those of its sender's pending transactions.
LEMMA PositionsDomain ==
    ASSUME NEW p \in SUBSET Hashes, NEW queue, NEW s, QueueMatches(p, queue, s)
    PROVE  DOMAIN SenderQueuePositions(p, queue) = {h \in p : Tx[h].sender = s}
<1> DEFINE occupied == Occupied(p, queue)
           hashes == {queue[n] : n \in occupied}
<1>1. DOMAIN SenderQueuePositions(p, queue) = hashes
  BY DEF SenderQueuePositions
<1>2. ASSUME NEW h \in hashes PROVE h \in p /\ Tx[h].sender = s
  <2>1. PICK n \in occupied : h = queue[n]
    OBVIOUS
  <2>2. QED
    BY <2>1 DEF Occupied, QueueMatches
<1>3. ASSUME NEW h \in p, Tx[h].sender = s PROVE h \in hashes
  <2>1. Tx[h].nonce \in occupied /\ queue[Tx[h].nonce] = h
    BY <1>3, TxType DEF Occupied, QueueMatches
  <2>2. QED
    BY <2>1
<1>4. QED
  BY <1>1, <1>2, <1>3

\* Each has the state of its own nonce: the one that `CHOOSE` finds.
LEMMA PositionsState ==
    ASSUME NEW p \in SUBSET Hashes, NEW queue, NEW s, QueueMatches(p, queue, s),
           NEW h \in p, Tx[h].sender = s
    PROVE  SenderQueuePositions(p, queue)[h] =
               QueueEntryState(Occupied(p, queue), Tx[h].nonce)
<1> DEFINE occupied == Occupied(p, queue)
           nonceOf(x) == CHOOSE n \in occupied : queue[n] = x
           hashes == {queue[n] : n \in occupied}
<1>1. Tx[h].nonce \in occupied /\ queue[Tx[h].nonce] = h
  BY TxType DEF Occupied, QueueMatches
<1>2. \A n \in occupied : queue[n] = h => n = Tx[h].nonce
  BY DEF Occupied, QueueMatches
<1>3. nonceOf(h) = Tx[h].nonce
  BY <1>1, <1>2
<1>4. h \in hashes
  BY <1>1
<1>5. SenderQueuePositions(p, queue) = [x \in hashes |-> QueueEntryState(occupied, nonceOf(x))]
  BY DEF SenderQueuePositions
<1> HIDE DEF hashes, nonceOf
<1>6. QED
  BY <1>3, <1>4, <1>5

\* Telling only what changed is enough: a state that is not told is the one the
\* follower already has.
LEMMA PlaceTellsAll ==
    ASSUME TypeOK, QueuesMatchPending, TransitionsTellAll,
           TypeOK', QueuesMatchPending', NEW h \in Hashes, h \notin pending,
           Place(h, Incumbent(h))
    PROVE  TransitionsTellAll'
<1> DEFINE s == Tx[h].sender
           removed == Incumbent(h)
           old == sender_queues[s]
           new == sender_queues'[s]
           previous == SenderQueuePositions(pending, old)
           next == SenderQueuePositions(pending', new)
<1>1. s \in Senders /\ Tx[h].nonce \in Nonces
  BY TxType
<1>2. pending' = (pending \ {removed}) \cup {h}
  BY PlacedSlots
<1>3. /\ DOMAIN previous = {x \in pending : Tx[x].sender = s}
      /\ \A x \in pending : Tx[x].sender = s =>
           previous[x] = QueueEntryState(Occupied(pending, old), Tx[x].nonce)
  <2>1. pending \in SUBSET Hashes
    BY DEF TypeOK
  <2>2. QueueMatches(pending, old, s)
    BY <1>1, <2>1, TransactionAssumption
       DEF QueueMatches, QueuesMatchPending, Incumbent, SlotOf
  <2> HIDE DEF s, old
  <2>3. DOMAIN previous = {x \in pending : Tx[x].sender = s}
    BY <2>1, <2>2, PositionsDomain
  <2>4. QED
    BY <2>1, <2>2, <2>3, PositionsState
<1>4. /\ DOMAIN next = {x \in pending' : Tx[x].sender = s}
      /\ \A x \in pending' : Tx[x].sender = s =>
           next[x] = QueueEntryState(Occupied(pending', new), Tx[x].nonce)
  <2>1. pending' \in SUBSET Hashes
    BY DEF TypeOK
  <2>2. QueueMatches(pending', new, s)
    BY <1>1, <2>1, TransactionAssumption
       DEF QueueMatches, QueuesMatchPending, Incumbent, SlotOf
  <2> HIDE DEF s, new
  <2>3. DOMAIN next = {x \in pending' : Tx[x].sender = s}
    BY <2>1, <2>2, PositionsDomain
  <2>4. QED
    BY <2>1, <2>2, <2>3, PositionsState
<1>5. \A x \in Hashes :
        observed'[x] = IF x \in DOMAIN next /\ (x \notin DOMAIN previous \/ previous[x] # next[x])
                       THEN next[x]
                       ELSE IF x = removed THEN None ELSE observed[x]
  <2>1. new = [sender_queues[s] EXCEPT ![Tx[h].nonce] = h]
    BY <1>1 DEF Place, TypeOK
  <2>2. observed' = [x \in Hashes |->
                          IF x \in QueueTransitions(previous, next) THEN next[x]
                          ELSE IF x = removed THEN None ELSE observed[x]]
    BY <1>2, <2>1 DEF Place
  <2> HIDE DEF previous, next, removed
  <2>3. QED
    BY <2>2 DEF QueueTransitions
<1> HIDE DEF previous, next, old, new
<1> SUFFICES ASSUME NEW x \in Hashes
             PROVE  observed'[x] =
                      IF x \in pending'
                      THEN QueueEntryState(Occupied(pending', sender_queues'[Tx[x].sender]), Tx[x].nonce)
                      ELSE None
  BY DEF TransitionsTellAll
<1>6. observed[x] = IF x \in pending
                    THEN QueueEntryState(Occupied(pending, sender_queues[Tx[x].sender]), Tx[x].nonce)
                    ELSE None
  BY DEF TransitionsTellAll
<1>7. CASE x \in pending' /\ Tx[x].sender = s
  <2>1. next[x] = QueueEntryState(Occupied(pending', new), Tx[x].nonce) /\ x \in DOMAIN next
    BY <1>4, <1>7
  <2>2. x \in DOMAIN previous =>
          /\ x \in pending
          /\ previous[x] = QueueEntryState(Occupied(pending, old), Tx[x].nonce)
    BY <1>3, <1>7
  <2>3. x # removed \/ x \notin DOMAIN previous
    BY <1>2, <1>7, <2>2
  <2>4. observed'[x] = next[x]
    BY <1>5, <1>6, <1>7, <2>1, <2>2, <2>3 DEF old
  <2>5. QED
    BY <1>7, <2>1, <2>4 DEF new
<1>8. CASE x \in pending' /\ Tx[x].sender # s
  <2>1. x \in pending /\ x # removed
    BY <1>2, <1>8
  <2>2. Occupied(pending', sender_queues'[Tx[x].sender]) =
          Occupied(pending, sender_queues[Tx[x].sender])
    BY <1>8, TxType, OthersKeepNonces
  <2>3. observed'[x] = observed[x]
    BY <1>4, <1>5, <1>8, <2>1
  <2>4. QED
    BY <1>6, <1>8, <2>1, <2>2, <2>3
<1>9. CASE x \notin pending'
  BY <1>2, <1>4, <1>5, <1>6, <1>9
<1>10. QED
  BY <1>7, <1>8, <1>9

\* A follower of the queue transitions knows the state of every pending
\* transaction, whatever was admitted and replaced and in whatever order.
THEOREM TransitionsSuffice == Spec => []TransitionsTellAll
<1>1. Init => TransitionsTellAll
  BY DEF Init, TransitionsTellAll
<1>2. TypeOK /\ QueuesMatchPending /\ TransitionsTellAll /\ [Next]_vars => TransitionsTellAll'
  <2> SUFFICES ASSUME TypeOK, QueuesMatchPending, TransitionsTellAll, [Next]_vars
               PROVE  TransitionsTellAll'
    OBVIOUS
  <2>1. CASE \E h \in Hashes : AdmitReplacement(h) \/ AdmitNew(h)
    <3>1. PICK h \in Hashes : AdmitReplacement(h) \/ AdmitNew(h)
      BY <2>1
    <3>2. h \notin pending /\ Place(h, Incumbent(h))
      BY <3>1, AdmittedIsPlaced
    <3>3. TypeOK' /\ QueuesMatchPending'
      BY <3>2, NextTypeOK, PlaceKeepsIndexes
    <3>4. QED
      BY <3>2, <3>3, PlaceTellsAll
  <2>2. CASE ~(\E h \in Hashes : AdmitReplacement(h) \/ AdmitNew(h))
    BY <2>2, OtherStepsKeepPool DEF admission_vars, TransitionsTellAll
  <2>3. QED
    BY <2>1, <2>2
<1>3. QED
  BY <1>1, <1>2, TypeCorrect, IndexesAgree, PTL DEF Spec

----------------------------------------------------------------------------
(* Stale simulation results *)

\* The inductive form of StaleResultsRejected: a candidate's generation is never
\* below that of its tasks, and above that of its superseded ones.
GenerationsAhead ==
    /\ \A t \in tasks :
         /\ candidates[t.candidate_id] # None
         /\ t.generation <= candidates[t.candidate_id].generation
         /\ \/ t.generation < candidates[t.candidate_id].generation
            \/ /\ t.tx_hash = candidates[t.candidate_id].tx_hash
               /\ MembersOf(t) = MembersOf(candidates[t.candidate_id])
    /\ \A t \in superseded : t.generation < candidates[t.candidate_id].generation

LEMMA EntryType ==
    ASSUME TypeOK, NEW t \in tasks
    PROVE  /\ t.candidate_id \in CandidateIds
           /\ t.generation \in Nat
           /\ candidates[t.candidate_id] # None =>
                /\ candidates[t.candidate_id] \in CandidateEntry
                /\ candidates[t.candidate_id].generation \in Nat
BY SchedulerAssumption, TransactionAssumption DEF TypeOK, SimulationTaskSpec, CandidateEntry

LEMMA RegisterKeepsAhead ==
    ASSUME TypeOK, GenerationsAhead, NEW batch \in RegistrationBatches,
           RegisterCandidates(batch)
    PROVE  GenerationsAhead'
<1> DEFINE ids == {c.candidate_id : c \in batch}
           specOf(id) == CHOOSE c \in batch : c.candidate_id = id
           entry(id) == [tx_hash |-> specOf(id).tx_hash,
                         member_tx_hashes |-> specOf(id).member_tx_hashes,
                         block_number |-> head_block_number,
                         generation |-> NextGeneration(id)]
<1>1. \A id \in CandidateIds :
         candidates'[id] = IF id \in ids THEN entry(id) ELSE candidates[id]
  BY DEF RegisterCandidates
<1>2. TypeOK'
  BY RegisterTypeOK
<1>3. ASSUME NEW t \in tasks
      PROVE  /\ candidates'[t.candidate_id] # None
             /\ t.candidate_id \notin ids =>
                  candidates'[t.candidate_id] = candidates[t.candidate_id]
             /\ t.candidate_id \in ids =>
                  t.generation < candidates'[t.candidate_id].generation
  <2>1. /\ t.candidate_id \in CandidateIds
        /\ t.generation \in Nat
        /\ candidates[t.candidate_id] # None
        /\ candidates[t.candidate_id].generation \in Nat
        /\ t.generation <= candidates[t.candidate_id].generation
    BY EntryType DEF GenerationsAhead
  <2>2. CASE t.candidate_id \in ids
    <3>2. candidates'[t.candidate_id] = entry(t.candidate_id)
      BY <1>1, <2>1, <2>2
    <3>1. candidates'[t.candidate_id].generation = candidates[t.candidate_id].generation + 1
      <4>1. candidates'[t.candidate_id].generation = NextGeneration(t.candidate_id)
        BY <3>2
      <4>2. QED
        BY <2>1, <4>1 DEF NextGeneration
    <3>3. entry(t.candidate_id) \in CandidateEntry
      <4>1. t.candidate_id \in CandidateIds /\ NextGeneration(t.candidate_id) <= MaxGeneration
        BY <2>1, <2>2 DEF RegisterCandidates
      <4>2. NextGeneration(t.candidate_id) \in 0..MaxGeneration
        BY <4>1, NextGenerationType
      <4>3. specOf(t.candidate_id) \in CandidateSpec
        BY <2>2, SchedulerAssumption, TransactionAssumption DEF RegistrationBatches
      <4>4. QED
        BY <4>2, <4>3 DEF CandidateEntry, CandidateSpec, TypeOK
    <3>4. QED
      BY <2>1, <2>2, <3>1, <3>2, <3>3, SchedulerAssumption, TransactionAssumption
  <2>3. CASE t.candidate_id \notin ids
    BY <1>1, <2>1, <2>3
  <2>4. QED
    BY <2>2, <2>3
<1>4. ASSUME NEW c \in batch
      PROVE  LET t == TaskFor(c)
                 e == candidates'[t.candidate_id]
             IN  /\ e # None
                 /\ t.generation = e.generation
                 /\ t.tx_hash = e.tx_hash
                 /\ MembersOf(t) = MembersOf(e)
  <2>1. c \in CandidateSpec /\ c.candidate_id \in ids
    BY SchedulerAssumption, TransactionAssumption DEF RegistrationBatches
  <2>2. specOf(c.candidate_id) = c
    BY DEF RegistrationBatches
  <2>3. candidates'[c.candidate_id] =
          [tx_hash |-> c.tx_hash, member_tx_hashes |-> c.member_tx_hashes,
           block_number |-> head_block_number, generation |-> NextGeneration(c.candidate_id)]
    BY <1>1, <2>1, <2>2 DEF CandidateSpec
  <2>4. candidates'[c.candidate_id] # None
    <3>a. c.candidate_id \in CandidateIds
      BY <2>1 DEF CandidateSpec
    <3>b. \A id \in ids : NextGeneration(id) <= MaxGeneration
      BY DEF RegisterCandidates
    <3>2. NextGeneration(c.candidate_id) \in 0..MaxGeneration
      BY <2>1, <3>a, <3>b, NextGenerationType
    <3>3. candidates'[c.candidate_id] \in CandidateEntry
      BY <2>1, <2>3, <3>2 DEF CandidateEntry, CandidateSpec, TypeOK
    <3>4. QED
      BY <3>3, SchedulerAssumption, TransactionAssumption
  <2>5. MembersOf(TaskFor(c)) = MembersOf(c)
    BY DEF TaskFor, MembersOf, NormalizedMemberHashes
  <2>6. MembersOf(candidates'[c.candidate_id]) = MembersOf(c)
    BY <2>3 DEF MembersOf
  <2>7. QED
    BY <2>3, <2>4, <2>5, <2>6 DEF TaskFor
<1>5. tasks' = tasks \cup {TaskFor(c) : c \in batch}
  BY DEF RegisterCandidates
<1>6. superseded' = superseded \cup {t \in tasks : t.candidate_id \in ids}
  BY DEF RegisterCandidates
<1>7. ASSUME NEW t \in tasks'
      PROVE  LET e == candidates'[t.candidate_id]
             IN  /\ e # None
                 /\ t.generation <= e.generation
                 /\ \/ t.generation < e.generation
                    \/ t.tx_hash = e.tx_hash /\ MembersOf(t) = MembersOf(e)
  <2> DEFINE e == candidates'[t.candidate_id]
  <2>1. e # None
    BY <1>3, <1>4, <1>5, <1>7
  <2>2. t.generation \in Nat /\ e.generation \in Nat
    BY <1>2, <1>7, <2>1, SchedulerAssumption, TransactionAssumption DEF TypeOK, SimulationTaskSpec, CandidateEntry
  <2>3. CASE t \in tasks /\ t.candidate_id \in ids
    BY <1>3, <2>1, <2>2, <2>3
  <2>4. CASE t \in tasks /\ t.candidate_id \notin ids
    <3>1. e = candidates[t.candidate_id]
      BY <1>3, <2>4
    <3>2. QED
      BY <2>1, <2>2, <2>4, <3>1 DEF GenerationsAhead
  <2>5. CASE \E c \in batch : t = TaskFor(c)
    BY <1>4, <2>1, <2>2, <2>5
  <2>6. QED
    BY <1>5, <1>7, <2>3, <2>4, <2>5
<1>8. ASSUME NEW t \in superseded'
      PROVE  t.generation < candidates'[t.candidate_id].generation
  <2>1. t \in tasks
    BY <1>6, <1>8 DEF TypeOK
  <2>2. CASE t.candidate_id \in ids
    BY <1>3, <2>1, <2>2
  <2>3. CASE t.candidate_id \notin ids
    BY <1>3, <1>6, <1>8, <2>1, <2>3 DEF GenerationsAhead
  <2>4. QED
    BY <2>2, <2>3
<1>9. QED
  BY <1>7, <1>8 DEF GenerationsAhead

\* Moving generations on keeps them ahead, if the newly superseded tasks are
\* among those whose candidate moved.
LEMMA MovingOnKeepsAhead ==
    ASSUME TypeOK, GenerationsAhead, UNCHANGED tasks,
           \A id \in CandidateIds :
               \/ candidates'[id] = candidates[id]
               \/ /\ candidates[id] # None
                  /\ candidates[id].generation < MaxGeneration
                  /\ candidates'[id] = [candidates[id] EXCEPT !.generation = @ + 1],
           superseded' \subseteq tasks,
           \A t \in superseded' :
               t \in superseded \/ t.generation < candidates'[t.candidate_id].generation
    PROVE  GenerationsAhead'
<1>1. ASSUME NEW t \in tasks
      PROVE  LET e == candidates[t.candidate_id]
                 f == candidates'[t.candidate_id]
             IN  /\ f # None
                 /\ e.generation \in Nat /\ f.generation \in Nat
                 /\ e.generation <= f.generation
                 /\ f.tx_hash = e.tx_hash /\ MembersOf(f) = MembersOf(e)
  <2> DEFINE e == candidates[t.candidate_id]
             f == candidates'[t.candidate_id]
  <2>1. t.candidate_id \in CandidateIds /\ e # None /\ e \in CandidateEntry
    BY EntryType DEF GenerationsAhead
  <2>2. e.generation \in Nat
    BY <2>1, SchedulerAssumption, TransactionAssumption DEF CandidateEntry
  <2>3. CASE f = e
    BY <2>1, <2>2, <2>3
  <2>4. CASE /\ e.generation < MaxGeneration
              /\ f = [e EXCEPT !.generation = @ + 1]
    <3>1. /\ f.generation = e.generation + 1
          /\ f.tx_hash = e.tx_hash
          /\ f.member_tx_hashes = e.member_tx_hashes
      BY <2>1, <2>4 DEF CandidateEntry
    <3>2. f # None
      <4>1. e.generation + 1 \in 0..MaxGeneration
        BY <2>2, <2>4, SchedulerAssumption, TransactionAssumption
      <4>3. f \in CandidateEntry
        BY <2>1, <2>4, <4>1 DEF CandidateEntry
      <4>4. QED
        BY <4>3, SchedulerAssumption, TransactionAssumption
    <3>3. QED
      BY <2>2, <3>1, <3>2 DEF MembersOf
  <2>5. QED
    BY <2>1, <2>3, <2>4
<1>2. \A t \in tasks : t.generation \in Nat
  BY EntryType
<1>3. \A t \in tasks :
         /\ candidates'[t.candidate_id] # None
         /\ t.generation <= candidates'[t.candidate_id].generation
         /\ \/ t.generation < candidates'[t.candidate_id].generation
            \/ /\ t.tx_hash = candidates'[t.candidate_id].tx_hash
               /\ MembersOf(t) = MembersOf(candidates'[t.candidate_id])
  BY <1>1, <1>2 DEF GenerationsAhead
<1>4. \A t \in superseded' : t.generation < candidates'[t.candidate_id].generation
  BY <1>1, <1>2 DEF GenerationsAhead
<1>5. QED
  BY <1>3, <1>4 DEF GenerationsAhead

LEMMA ApplyKeepsAhead ==
    ASSUME TypeOK, GenerationsAhead, NEW t \in tasks, ApplySimulationResult(t)
    PROVE  GenerationsAhead'
<1>1. t.candidate_id \in CandidateIds /\ candidates[t.candidate_id] # None
  BY EntryType DEF GenerationsAhead
<1>2. candidates[t.candidate_id].generation = t.generation /\ t.generation < MaxGeneration
  BY DEF ApplySimulationResult, AcceptsResult
<1>3. \A id \in CandidateIds :
         candidates'[id] = IF id = t.candidate_id
                           THEN [candidates[id] EXCEPT !.generation = @ + 1]
                           ELSE candidates[id]
  BY <1>1 DEF ApplySimulationResult, TypeOK
<1>4. t.generation < candidates'[t.candidate_id].generation
  <2>1. candidates[t.candidate_id] \in CandidateEntry /\ t.generation \in Nat
    BY <1>1, EntryType
  <2>2. candidates'[t.candidate_id].generation = t.generation + 1
    BY <1>1, <1>2, <1>3, <2>1 DEF CandidateEntry
  <2>3. QED
    BY <2>1, <2>2
<1>5. UNCHANGED tasks /\ superseded' = superseded \cup {t}
  BY DEF ApplySimulationResult
<1>6. superseded' \subseteq tasks
  BY <1>5 DEF TypeOK
<1>7. \A id \in CandidateIds :
         \/ candidates'[id] = candidates[id]
         \/ /\ candidates[id] # None
            /\ candidates[id].generation < MaxGeneration
            /\ candidates'[id] = [candidates[id] EXCEPT !.generation = @ + 1]
  BY <1>1, <1>2, <1>3
<1>8. QED
  BY <1>4, <1>5, <1>6, <1>7, MovingOnKeepsAhead

LEMMA InvalidateKeepsAhead ==
    ASSUME TypeOK, GenerationsAhead, NEW hash \in Hashes, InvalidateCandidateHash(hash)
    PROVE  GenerationsAhead'
<1> DEFINE hit(id) == candidates[id] # None /\ Touches(candidates[id], hash)
<1>1. \A id \in CandidateIds :
         /\ hit(id) => candidates[id].generation < MaxGeneration
         /\ candidates'[id] = IF hit(id)
                              THEN [candidates[id] EXCEPT !.generation = @ + 1]
                              ELSE candidates[id]
  BY DEF InvalidateCandidateHash
<1>2. UNCHANGED tasks /\ superseded' = superseded \cup {t \in tasks : Touches(t, hash)}
  BY DEF InvalidateCandidateHash
<1>3. superseded' \subseteq tasks
  BY <1>2 DEF TypeOK
<1>4. ASSUME NEW t \in tasks, Touches(t, hash)
      PROVE  t.generation < candidates'[t.candidate_id].generation
  <2> DEFINE e == candidates[t.candidate_id]
  <2>1. /\ t.candidate_id \in CandidateIds /\ e # None /\ e \in CandidateEntry
        /\ t.generation \in Nat /\ e.generation \in Nat /\ t.generation <= e.generation
    BY EntryType DEF GenerationsAhead
  <2>2. CASE hit(t.candidate_id)
    <3>1. candidates'[t.candidate_id].generation = e.generation + 1
      BY <1>1, <2>1, <2>2 DEF CandidateEntry
    <3>2. QED
      BY <2>1, <3>1
  <2>3. CASE ~hit(t.candidate_id)
    <3>1. ~(t.tx_hash = e.tx_hash /\ MembersOf(t) = MembersOf(e))
      BY <1>4, <2>1, <2>3 DEF Touches
    <3>2. t.generation < e.generation
      BY <3>1 DEF GenerationsAhead
    <3>3. QED
      BY <1>1, <2>1, <2>3, <3>2
  <2>4. QED
    BY <2>2, <2>3
<1>5. \A id \in CandidateIds :
         \/ candidates'[id] = candidates[id]
         \/ /\ candidates[id] # None
            /\ candidates[id].generation < MaxGeneration
            /\ candidates'[id] = [candidates[id] EXCEPT !.generation = @ + 1]
  BY <1>1
<1>6. QED
  BY <1>2, <1>3, <1>4, <1>5, MovingOnKeepsAhead

\* A candidate's generation is ahead of its tasks in every reachable state.
LEMMA GenerationsStayAhead == Spec => []GenerationsAhead
<1>1. Init => GenerationsAhead
  BY DEF Init, NoQueues, GenerationsAhead
<1>2. TypeOK /\ GenerationsAhead /\ [Next]_vars => GenerationsAhead'
  <2> SUFFICES ASSUME TypeOK, GenerationsAhead, [Next]_vars
               PROVE  GenerationsAhead'
    OBVIOUS
  <2>1. CASE \E batch \in RegistrationBatches : RegisterCandidates(batch)
    BY <2>1, RegisterKeepsAhead
  <2>2. CASE \E t \in tasks : ApplySimulationResult(t)
    BY <2>2, ApplyKeepsAhead
  <2>3. CASE \E hash \in Hashes : InvalidateCandidateHash(hash)
    BY <2>3, InvalidateKeepsAhead
  <2>4. CASE UNCHANGED candidate_vars
    BY <2>4 DEF candidate_vars, GenerationsAhead
  <2>5. QED
    BY <2>1, <2>2, <2>3, <2>4
       DEF Next, vars, Admit, AdmitDuplicate, AdmitReplacement, AdmitUnderpriced,
           AdmitOverLimit, AdmitNew, RecordStaleSimulationResult, AdvanceHead
<1>3. QED
  BY <1>1, <1>2, TypeCorrect, PTL DEF Spec

\* A simulation result whose task was settled, registered again or invalidated
\* is never accepted again, for any number of candidates, blocks and commands.
THEOREM StaleNeverAccepted == Spec => []StaleResultsRejected
<1>1. TypeOK /\ GenerationsAhead => StaleResultsRejected
  BY SchedulerAssumption, TransactionAssumption
     DEF TypeOK, SimulationTaskSpec, GenerationsAhead, StaleResultsRejected, AcceptsResult
<1>2. QED
  BY <1>1, TypeCorrect, GenerationsStayAhead, PTL

----------------------------------------------------------------------------
(* The traversals of `queue_entry_state` *)

\* Induction over the natural numbers, with the property as a set.
LEMMA NatSetInduction ==
    ASSUME NEW Good, 0 \in Good, \A n \in Nat : n \in Good => n + 1 \in Good
    PROVE  \A n \in Nat : n \in Good
<1> DEFINE Bad == Nat \ Good
<1> SUFFICES ASSUME Bad # {} PROVE FALSE
  OBVIOUS
<1>1. PICK m \in Bad : \A n \in Bad : m <= n
  BY LeastNat
<1>2. m \in Nat /\ m # 0 /\ m - 1 \in Nat /\ ~(m <= m - 1)
  OBVIOUS
<1>3. m - 1 \in Good
  BY <1>1, <1>2
<1>4. (m - 1) + 1 = m
  BY <1>2
<1>5. QED
  BY <1>2, <1>3, <1>4

\* The step of a traversal at nonce n, after f for the nonces before it.
ScanAt(f, occupied, n) ==
    IF n = 0 THEN [next |-> None, gap_seen |-> FALSE]
    ELSE IF n - 1 \in occupied THEN ScannedOn(f[n - 1], n - 1) ELSE f[n - 1]

\* f is what a traversal carries when it comes to each nonce.
Scans(f, occupied) == f = [n \in Nonces |-> ScanAt(f, occupied, n)]

\* The step looks at the one before it only.
LEMMA ScanAtLocal ==
    ASSUME NEW f, NEW g, NEW occupied, NEW n, n # 0 => f[n - 1] = g[n - 1]
    PROVE  ScanAt(f, occupied, n) = ScanAt(g, occupied, n)
BY DEF ScanAt

\* A traversal is well defined.
LEMMA ScansExist ==
    ASSUME NEW occupied
    PROVE  \E f : Scans(f, occupied)
<1>0. MaxNonce \in Nat
  BY TransactionAssumption
<1> DEFINE Good == {m \in Nat : \E f : f = [n \in 0..m |-> ScanAt(f, occupied, n)]}
<1>1. 0 \in Good
  <2>1. PICK f : f = [n \in 0..0 |-> [next |-> None, gap_seen |-> FALSE]]
    OBVIOUS
  <2>2. \A n \in 0..0 : ScanAt(f, occupied, n) = [next |-> None, gap_seen |-> FALSE]
    BY DEF ScanAt
  <2>3. f = [n \in 0..0 |-> ScanAt(f, occupied, n)]
    BY <2>1, <2>2
  <2>4. QED
    BY <2>3
<1>2. ASSUME NEW m \in Nat, m \in Good PROVE m + 1 \in Good
  <2>1. PICK f : f = [n \in 0..m |-> ScanAt(f, occupied, n)]
    BY <1>2
  <2>2. PICK g : g = [n \in 0..(m + 1) |-> ScanAt(f, occupied, n)]
    OBVIOUS
  <2>3. \A n \in 0..m : f[n] = ScanAt(f, occupied, n)
    BY <2>1
  <2>4. \A n \in 0..(m + 1) : g[n] = ScanAt(f, occupied, n)
    BY <2>2
  <2>5. \A n \in 0..(m + 1) : n # 0 => g[n - 1] = f[n - 1]
    <3> SUFFICES ASSUME NEW n \in 0..(m + 1), n # 0 PROVE g[n - 1] = f[n - 1]
      OBVIOUS
    <3>1. n - 1 \in 0..m /\ n - 1 \in 0..(m + 1)
      OBVIOUS
    <3>2. QED
      BY <2>3, <2>4, <3>1
  <2>6. \A n \in 0..(m + 1) : ScanAt(g, occupied, n) = ScanAt(f, occupied, n)
    BY <2>5, ScanAtLocal
  <2>7. g = [n \in 0..(m + 1) |-> ScanAt(g, occupied, n)]
    BY <2>2, <2>6
  <2>8. QED
    BY <2>7
<1> HIDE DEF Good
<1>3. MaxNonce \in Good
  BY <1>0, <1>1, <1>2, NatSetInduction
<1>4. QED
  BY <1>3 DEF Good, Scans, Nonces

\* What a traversal carries at nonce n: nothing before the first entry; then one past the
\* ready run, and whether an entry behind a gap was met.
ScanCarries(scan, occupied, n) ==
    LET met == {m \in occupied : m < n} IN
    \/ met = {} /\ scan = [next |-> None, gap_seen |-> FALSE]
    \/ /\ scan \in [next : Nat, gap_seen : BOOLEAN]
       /\ scan.next - 1 \in ReadyNonces(occupied) /\ scan.next <= n
       /\ scan.next = n \/ scan.next \notin occupied
       /\ scan.gap_seen <=> \E m \in met : scan.next <= m

\* An entry is classified alike, whichever way.
LEMMA ScanClassifies ==
    ASSUME NEW occupied \in SUBSET Nonces, NEW n \in occupied, NEW scan,
           ScanCarries(scan, occupied, n)
    PROVE  /\ ScannedState(scan, n) = QueueEntryState(occupied, n)
           /\ InLine(scan, n) <=> n \in ReadyNonces(occupied)
<1>1. Nonces \subseteq Nat /\ None \notin Nat
  BY TransactionAssumption DEF Nonces
<1>2. CASE scan = [next |-> None, gap_seen |-> FALSE] /\ {m \in occupied : m < n} = {}
  <2>1. \A m \in occupied : m <= n => m = n
    BY <1>1, <1>2
  <2>2. n..n = {n}
    BY <1>1
  <2>3. n \in ReadyNonces(occupied)
    BY <2>1, <2>2 DEF ReadyNonces
  <2>4. InLine(scan, n)
    BY <1>2 DEF InLine
  <2>5. QED
    BY <2>3, <2>4 DEF ScannedState, QueueEntryState
<1>3. CASE /\ scan \in [next : Nat, gap_seen : BOOLEAN]
           /\ scan.next - 1 \in ReadyNonces(occupied) /\ scan.next <= n
           /\ scan.next = n \/ scan.next \notin occupied
           /\ scan.gap_seen <=> \E m \in {m \in occupied : m < n} : scan.next <= m
  <2> DEFINE last == scan.next - 1
  <2>1. /\ scan.next \in Nat /\ scan.next # None
        /\ last \in occupied /\ last \in Nat /\ scan.next = last + 1
    BY <1>1, <1>3 DEF ReadyNonces
  <2>2. CASE scan.next = n
    <3>1. ~scan.gap_seen
      BY <1>1, <1>3, <2>2
    <3>2. \A m \in occupied : m <= n => m..n \subseteq occupied
      <4> SUFFICES ASSUME NEW m \in occupied, m <= n, NEW k \in m..n PROVE k \in occupied
        OBVIOUS
      <4>1. k = n \/ (m <= last /\ k \in m..last)
        BY <1>1, <2>1, <2>2
      <4>2. QED
        BY <1>3, <4>1 DEF ReadyNonces
    <3>3. n \in ReadyNonces(occupied)
      BY <3>2 DEF ReadyNonces
    <3>4. InLine(scan, n)
      BY <2>2, <3>1 DEF InLine
    <3>5. QED
      BY <3>3, <3>4 DEF ScannedState, QueueEntryState
  <2>3. CASE scan.next # n
    <3>1. scan.next \notin occupied /\ scan.next < n
      BY <1>1, <1>3, <2>1, <2>3
    <3>2. ~InLine(scan, n)
      BY <2>1, <2>3 DEF InLine
    <3>3. \A m \in ReadyNonces(occupied) : m <= last
      <4> SUFFICES ASSUME NEW m \in ReadyNonces(occupied), ~(m <= last) PROVE FALSE
        OBVIOUS
      <4>1. m \in Nat /\ last <= m /\ scan.next \in last..m
        BY <1>1, <2>1 DEF ReadyNonces
      <4>2. last..m \subseteq occupied
        BY <2>1, <4>1 DEF ReadyNonces
      <4>3. QED
        BY <3>1, <4>1, <4>2
    <3>4. n \notin ReadyNonces(occupied)
      BY <1>1, <2>1, <3>1, <3>3
    <3>5. ExpectedNonce(occupied) = scan.next
      <4> DEFINE ready == ReadyNonces(occupied)
      <4>1. last \in ready /\ \A m \in ready : m <= last
        BY <1>3, <3>3
      <4>2. ready \subseteq Nat
        BY <1>1 DEF ReadyNonces
      <4> HIDE DEF ready
      <4>3. \A k \in ready : (\A m \in ready : m <= k) => k = last
        BY <2>1, <4>1, <4>2
      <4>4. (CHOOSE k \in ready : \A m \in ready : m <= k) = last
        BY <4>1, <4>3
      <4>5. ExpectedNonce(occupied) = 1 + last
        <5> HIDE DEF last
        <5>1. QED
          BY <4>4, Zenon DEF ExpectedNonce, ready
      <4>6. QED
        BY <2>1, <4>4, <4>5
    <3>6. QED
      BY <3>2, <3>4, <3>5 DEF ScannedState, QueueEntryState
  <2>4. QED
    BY <2>2, <2>3
<1>4. QED
  BY <1>2, <1>3 DEF ScanCarries

\* An entry, or a nonce without one, carries the traversal on.
LEMMA ScanGoesOn ==
    ASSUME NEW occupied \in SUBSET Nonces, NEW n \in Nonces, NEW scan,
           ScanCarries(scan, occupied, n)
    PROVE  ScanCarries(IF n \in occupied THEN ScannedOn(scan, n) ELSE scan, occupied, n + 1)
<1>1. Nonces \subseteq Nat /\ None \notin Nat /\ n \in Nat /\ occupied \subseteq Nat
  BY TransactionAssumption DEF Nonces
<1> DEFINE met == {m \in occupied : m < n}
           metNow == {m \in occupied : m < n + 1}
<1>2. metNow = {m \in occupied : m < n \/ m = n}
  <2>1. \A m \in occupied : m < n + 1 <=> m < n \/ m = n
    BY <1>1
  <2>2. QED
    BY <2>1
<1>3. CASE n \notin occupied
  <2>1. metNow = met
    BY <1>2, <1>3
  <2>2. CASE met = {} /\ scan = [next |-> None, gap_seen |-> FALSE]
    BY <1>3, <2>1, <2>2 DEF ScanCarries
  <2>3. CASE ~(met = {} /\ scan = [next |-> None, gap_seen |-> FALSE])
    <3>1. /\ scan \in [next : Nat, gap_seen : BOOLEAN]
          /\ scan.next - 1 \in ReadyNonces(occupied) /\ scan.next <= n
          /\ scan.next = n \/ scan.next \notin occupied
          /\ scan.gap_seen <=> \E m \in met : scan.next <= m
      BY <2>3 DEF ScanCarries
    <3>2. scan.next \notin occupied /\ scan.next <= n + 1
      BY <1>1, <1>3, <3>1
    <3>3. QED
      BY <1>3, <2>1, <3>1, <3>2 DEF ScanCarries
  <2>4. QED
    BY <2>2, <2>3
<1>4. CASE n \in occupied
  <2>1. PICK next : next = ScannedOn(scan, n)
    OBVIOUS
  <2>2. metNow # {} /\ n \in metNow
    BY <1>2, <1>4
  <2>3. InLine(scan, n) <=> n \in ReadyNonces(occupied)
    BY <1>4, ScanClassifies
  <2>4. \/ met = {} /\ scan = [next |-> None, gap_seen |-> FALSE]
        \/ /\ scan \in [next : Nat, gap_seen : BOOLEAN]
           /\ scan.next - 1 \in ReadyNonces(occupied) /\ scan.next <= n
           /\ scan.next = n \/ scan.next \notin occupied
           /\ scan.gap_seen <=> \E m \in met : scan.next <= m
    BY DEF ScanCarries
  <2>5. CASE InLine(scan, n)
    <3>1. ~scan.gap_seen
      BY <1>1, <2>4, <2>5 DEF InLine
    <3>2. next = [next |-> n + 1, gap_seen |-> FALSE]
      <4>1. next = [scan EXCEPT !.next = n + 1]
        BY <2>1, <2>5 DEF ScannedOn
      <4>2. CASE scan = [next |-> None, gap_seen |-> FALSE]
        BY <4>1, <4>2
      <4>3. CASE scan \in [next : Nat, gap_seen : BOOLEAN]
        BY <3>1, <4>1, <4>3
      <4>4. QED
        BY <2>4, <4>2, <4>3
    <3>3. ~\E m \in metNow : n + 1 <= m
      BY <1>1
    <3>4. (n + 1) - 1 \in ReadyNonces(occupied)
      BY <1>1, <2>3, <2>5
    <3>5. /\ next \in [next : Nat, gap_seen : BOOLEAN]
          /\ next.next = n + 1 /\ next.gap_seen = FALSE
      BY <1>1, <3>2
    <3>6. QED
      BY <1>4, <2>1, <3>3, <3>4, <3>5 DEF ScanCarries
  <2>6. CASE ~InLine(scan, n)
    <3>1. /\ scan \in [next : Nat, gap_seen : BOOLEAN]
          /\ scan.next - 1 \in ReadyNonces(occupied) /\ scan.next <= n
          /\ scan.next = n \/ scan.next \notin occupied
      BY <2>4, <2>6 DEF InLine
    <3>2. scan.next # n
      <4> SUFFICES ASSUME scan.next = n PROVE FALSE
        OBVIOUS
      <4>1. ~scan.gap_seen
        BY <1>1, <2>4, <2>6 DEF InLine
      <4>2. QED
        BY <2>6, <4>1 DEF InLine
    <3>3. next = [next |-> scan.next, gap_seen |-> TRUE]
      BY <2>1, <2>6, <3>1 DEF ScannedOn
    <3>4. /\ next \in [next : Nat, gap_seen : BOOLEAN]
          /\ next.next = scan.next /\ next.gap_seen = TRUE
      BY <3>1, <3>3
    <3>5. \E m \in metNow : scan.next <= m
      BY <2>2, <3>1
    <3>6. scan.next \notin occupied /\ scan.next <= n + 1
      BY <1>1, <3>1, <3>2
    <3>7. QED
      BY <1>4, <2>1, <3>1, <3>4, <3>5, <3>6 DEF ScanCarries
  <2>7. QED
    BY <2>5, <2>6
<1>5. QED
  BY <1>3, <1>4

\* The closed form is what a traversal computes, for every set of occupied nonces.
LEMMA ScanIsClosedForm ==
    ASSUME NEW occupied \in SUBSET Nonces
    PROVE  \A n \in occupied : QueueScan(occupied)[n] = QueueEntryState(occupied, n)
<1>0. MaxNonce \in Nat
  BY TransactionAssumption
<1>1. PICK f : f = CHOOSE g : Scans(g, occupied)
  OBVIOUS
<1>2. Scans(f, occupied)
  BY <1>1, ScansExist
<1>3. \A n \in Nonces : f[n] = ScanAt(f, occupied, n)
  BY <1>2 DEF Scans
<1>4. QueueScan(occupied) = [n \in occupied |-> ScannedState(f[n], n)]
  BY <1>1 DEF QueueScan, Scans, ScanAt
<1> DEFINE Good == {n \in Nat : n <= MaxNonce => ScanCarries(f[n], occupied, n)}
<1>5. 0 \in Good
  <2>1. f[0] = [next |-> None, gap_seen |-> FALSE]
    <3>1. 0 \in Nonces
      BY <1>0 DEF Nonces
    <3>2. QED
      BY <1>3, <3>1 DEF ScanAt
  <2>2. {m \in occupied : m < 0} = {}
    <3>1. \A m \in occupied : m \in Nat
      BY <1>0 DEF Nonces
    <3>2. QED
      BY <3>1
  <2>3. QED
    BY <2>1, <2>2 DEF ScanCarries
<1>6. ASSUME NEW n \in Nat, n \in Good PROVE n + 1 \in Good
  <2> SUFFICES ASSUME n + 1 <= MaxNonce PROVE ScanCarries(f[n + 1], occupied, n + 1)
    OBVIOUS
  <2>1. n \in Nonces /\ n + 1 \in Nonces /\ n + 1 # 0 /\ (n + 1) - 1 = n
    BY <1>0 DEF Nonces
  <2>2. f[n + 1] = IF n \in occupied THEN ScannedOn(f[n], n) ELSE f[n]
    BY <1>3, <2>1 DEF ScanAt
  <2>3. ScanCarries(f[n], occupied, n)
    BY <1>0, <1>6
  <2>4. QED
    BY <2>1, <2>2, <2>3, ScanGoesOn
<1>7. \A n \in Nonces : ScanCarries(f[n], occupied, n)
  <2>1. \A n \in Nat : n \in Good
    <3> HIDE DEF Good
    <3>1. QED
      BY <1>5, <1>6, NatSetInduction
  <2>2. QED
    BY <1>0, <2>1 DEF Nonces
<1>8. QED
  BY <1>4, <1>7, ScanClassifies

\* `classify_by_sender`, `sender_queue_positions` and the other traversals give every
\* queue the states in terms of which everything else is stated here.
THEOREM ClassifierIsScan == Spec => []ClassifierMatchesScan
<1>1. \A s \in Senders : Occupied(pending, sender_queues[s]) \in SUBSET Nonces
  BY DEF Occupied
<1>2. ClassifierMatchesScan
  BY <1>1, ScanIsClosedForm DEF ClassifierMatchesScan
<1>3. QED
  BY <1>2, PTL

============================================================================
