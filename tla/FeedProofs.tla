----------------------------- MODULE FeedProofs -----------------------------
(***************************************************************************)
(* The two ends of the node.  What the worker of a chain processes of the  *)
(* announcements it gets, for every number of endpoints and hashes and     *)
(* every size of its batches and its memory; and what a subscriber of the  *)
(* dashboard's event stream has been told, for every number of events and  *)
(* connections and every capacity.                                         *)
(***************************************************************************)
EXTENDS ChainWorker, DashboardStream, FiniteSetTheorems, SequenceTheorems, TLAPS

----------------------------------------------------------------------------
(* The worker of a chain processes what is announced once *)

Phases ==
    {"pool", "rebuilding", "done", "sleeping", "connecting", "reading", "flushing",
     "fetching", "processing"}

\* Every frame is followed by a flush with budget for what waits, so that no more than one
\* announcement ever waits, and none outside a flush.
WaitingInv ==
    /\ phase \in Phases
    /\ budget \in Nat
    /\ pending_hashes = <<>>
         \/ /\ phase = "flushing" /\ budget > 0
            /\ \E x \in Hashes \cup {Malformed} : pending_hashes = <<x>>

\* The memory is consistent and has not forgotten what was handled.  The session loop
\* starts with an empty one.
MemoryInv ==
    /\ seen_order \in Seq(Hashes)
    /\ \A i, j \in 1..Len(seen_order) : seen_order[i] = seen_order[j] => i = j
    /\ \A i \in 1..Len(seen_order) : seen_order[i] \in seen_hashes
    /\ handled \subseteq seen_hashes
    /\ phase \in {"pool", "rebuilding", "done"} => seen_order = <<>> /\ handled = {}

\* What is fetched or processed is remembered, and was not handled before.
BatchInv ==
    phase \in {"fetching", "processing"} =>
        \E h \in Hashes : batch = <<h>> /\ h \in seen_hashes /\ h \notin handled

DedupInv == WaitingInv /\ MemoryInv /\ BatchInv

\* The memory before a batch.
Memory == [seen |-> seen_hashes, order |-> seen_order, fresh |-> <<>>]

\* What a batch of none or of one announcement does to the memory.
LEMMA RememberNone == RememberBatch(<<>>) = Memory
<1> DEFINE after == CHOOSE f : f = [n \in 0..0 |->
                      IF n = 0 THEN Memory
                      ELSE IF <<>>[n] = Malformed THEN f[n - 1]
                      ELSE RememberHash(f[n - 1], <<>>[n])]
<1>1. RememberBatch(<<>>) = after[0]
  BY Len(<<>>) = 0 DEF RememberBatch, Memory
<1>2. \E f : f = [n \in 0..0 |-> IF n = 0 THEN Memory
                      ELSE IF <<>>[n] = Malformed THEN f[n - 1]
                      ELSE RememberHash(f[n - 1], <<>>[n])]
  <2>1. PICK g : g = [n \in 0..0 |-> Memory]
    OBVIOUS
  <2>2. g = [n \in 0..0 |-> IF n = 0 THEN Memory
                      ELSE IF <<>>[n] = Malformed THEN g[n - 1]
                      ELSE RememberHash(g[n - 1], <<>>[n])]
    BY <2>1
  <2>3. QED
    BY <2>2
<1>3. after = [n \in 0..0 |-> IF n = 0 THEN Memory
                      ELSE IF <<>>[n] = Malformed THEN after[n - 1]
                      ELSE RememberHash(after[n - 1], <<>>[n])]
  BY <1>2
<1> HIDE DEF after
<1>4. QED
  BY <1>1, <1>3

LEMMA RememberOne ==
    ASSUME NEW x
    PROVE  RememberBatch(<<x>>) = IF x = Malformed THEN Memory ELSE RememberHash(Memory, x)
<1> DEFINE after == CHOOSE f : f = [n \in 0..1 |->
                      IF n = 0 THEN Memory
                      ELSE IF <<x>>[n] = Malformed THEN f[n - 1]
                      ELSE RememberHash(f[n - 1], <<x>>[n])]
<1>1. RememberBatch(<<x>>) = after[1]
  BY Len(<<x>>) = 1 DEF RememberBatch, Memory
<1>2. \E f : f = [n \in 0..1 |-> IF n = 0 THEN Memory
                      ELSE IF <<x>>[n] = Malformed THEN f[n - 1]
                      ELSE RememberHash(f[n - 1], <<x>>[n])]
  <2>1. PICK g : g = [n \in 0..1 |-> IF n = 0 THEN Memory
                      ELSE IF <<x>>[n] = Malformed THEN Memory
                      ELSE RememberHash(Memory, <<x>>[n])]
    OBVIOUS
  <2>2. g[0] = Memory
    BY <2>1
  <2>3. \A n \in 0..1 : n # 0 => n - 1 = 0
    OBVIOUS
  <2>4. g = [n \in 0..1 |-> IF n = 0 THEN Memory
                      ELSE IF <<x>>[n] = Malformed THEN g[n - 1]
                      ELSE RememberHash(g[n - 1], <<x>>[n])]
    BY <2>1, <2>2, <2>3
  <2>5. QED
    BY <2>4
<1>3. after = [n \in 0..1 |-> IF n = 0 THEN Memory
                      ELSE IF <<x>>[n] = Malformed THEN after[n - 1]
                      ELSE RememberHash(after[n - 1], <<x>>[n])]
  BY <1>2
<1> HIDE DEF after
<1>4. after[0] = Memory
  BY <1>3
<1>5. after[1] = IF <<x>>[1] = Malformed THEN after[1 - 1] ELSE RememberHash(after[1 - 1], <<x>>[1])
  BY <1>3
<1>6. QED
  BY <1>1, <1>4, <1>5, <<x>>[1] = x, 1 - 1 = 0

\* A fresh hash is remembered, whatever is forgotten for it, and the memory stays consistent.
LEMMA FreshIsRemembered ==
    ASSUME MemoryInv, NEW h \in Hashes, h \notin seen_hashes
    PROVE  LET memory == RememberHash(Memory, h)
           IN  /\ memory.fresh = <<h>>
               /\ h \in memory.seen
               /\ memory.order \in Seq(Hashes)
               /\ \A i, j \in 1..Len(memory.order) : memory.order[i] = memory.order[j] => i = j
               /\ \A i \in 1..Len(memory.order) : memory.order[i] \in memory.seen
<1> DEFINE order == Append(seen_order, h)
           memory == RememberHash(Memory, h)
<1>1. /\ order \in Seq(Hashes) /\ Len(order) = Len(seen_order) + 1 /\ Len(seen_order) \in Nat
      /\ \A i \in 1..Len(seen_order) : order[i] = seen_order[i]
      /\ order[Len(order)] = h
  BY DEF MemoryInv
<1>2. \A i, j \in 1..Len(order) : order[i] = order[j] => i = j
  BY <1>1 DEF MemoryInv
<1>3. \A i \in 1..Len(order) : order[i] \in seen_hashes \cup {h}
  BY <1>1 DEF MemoryInv
<1>4. /\ memory.seen = (seen_hashes \cup {h})
                          \ (IF Len(order) > MaxSeenHashes THEN {Head(order)} ELSE {})
      /\ memory.order = IF Len(order) > MaxSeenHashes THEN Tail(order) ELSE order
      /\ memory.fresh = Append(<<>>, h)
  BY DEF RememberHash, Memory
<1>5. memory.fresh = <<h>>
  BY <1>4
<1> HIDE DEF order, memory
<1>6. CASE Len(order) > MaxSeenHashes
  <2>1. MaxSeenHashes \in Nat \ {0}
    BY ChainWorkerAssumption
  <2>2. Len(order) >= 2
    BY <1>1, <1>6, <2>1
  <2>3. /\ Head(order) = order[1]
        /\ Tail(order) \in Seq(Hashes) /\ Len(Tail(order)) = Len(order) - 1
        /\ \A i \in 1..Len(Tail(order)) : Tail(order)[i] = order[i + 1]
    BY <1>1, <2>2
  <2>4. Head(order) # h
    BY <1>1, <1>2, <2>2, <2>3
  <2>5. \A i \in 1..Len(Tail(order)) : i + 1 \in 1..Len(order) /\ i + 1 # 1
    BY <1>1, <2>3
  <2>6. 1 \in 1..Len(order)
    BY <1>1, <2>2
  <2>7. \A i, j \in 1..Len(Tail(order)) : Tail(order)[i] = Tail(order)[j] => i = j
    <3> SUFFICES ASSUME NEW i \in 1..Len(Tail(order)), NEW j \in 1..Len(Tail(order)),
                        Tail(order)[i] = Tail(order)[j]
                 PROVE  i = j
      OBVIOUS
    <3>1. i + 1 = j + 1
      BY <1>2, <2>3, <2>5
    <3>2. QED
      BY <3>1, <1>1, <2>3
  <2>8. \A i \in 1..Len(Tail(order)) : Tail(order)[i] # Head(order)
    BY <1>2, <2>3, <2>5, <2>6
  <2>9. \A i \in 1..Len(Tail(order)) : Tail(order)[i] \in seen_hashes \cup {h}
    BY <1>3, <2>3, <2>5
  <2>10. QED
    BY <1>4, <1>5, <1>6, <2>3, <2>4, <2>7, <2>8, <2>9 DEF memory
<1>7. CASE ~(Len(order) > MaxSeenHashes)
  BY <1>1, <1>2, <1>3, <1>4, <1>5, <1>7 DEF memory
<1>8. QED
  BY <1>6, <1>7

\* A flush has budget for a batch if anything waits.
LEMMA BudgetSuffices ==
    /\ DispatchableBatchCount(0) \in Nat
    /\ DispatchableBatchCount(1) \in Nat /\ DispatchableBatchCount(1) > 0
<1>1. BatchSize \in Nat \ {0} /\ MaxInFlight \in Nat \ {0}
  BY ChainWorkerAssumption
<1>2. DivCeil(0, BatchSize) \in Nat
  BY <1>1, SMT DEF DivCeil
<1>3. DivCeil(1, BatchSize) = 1
  BY <1>1, SMT DEF DivCeil
<1>4. \A m \in Nat : Min({m, MaxInFlight}) \in {m, MaxInFlight}
  <2> SUFFICES ASSUME NEW m \in Nat PROVE Min({m, MaxInFlight}) \in {m, MaxInFlight}
    OBVIOUS
  <2>1. \E x \in {m, MaxInFlight} : \A y \in {m, MaxInFlight} : x <= y
    BY <1>1
  <2>2. QED
    BY <2>1 DEF Min
<1>5. QED
  BY <1>1, <1>2, <1>3, <1>4 DEF DispatchableBatchCount

\* All that waits is taken at once.
LEMMA AllIsTaken ==
    ASSUME WaitingInv
    PROVE  LET size == Min({BatchSize, Len(pending_hashes)})
           IN  /\ SubSeq(pending_hashes, 1, size) = pending_hashes
               /\ SubSeq(pending_hashes, size + 1, Len(pending_hashes)) = <<>>
<1> DEFINE size == Min({BatchSize, Len(pending_hashes)})
<1>1. BatchSize \in Nat \ {0}
  BY ChainWorkerAssumption
<1>2. Len(pending_hashes) = 0 \/ Len(pending_hashes) = 1
  BY DEF WaitingInv
<1>3. size = Len(pending_hashes)
  <2>1. \E x \in {BatchSize, Len(pending_hashes)} :
          \A y \in {BatchSize, Len(pending_hashes)} : x <= y
    BY <1>1, <1>2
  <2>2. /\ size \in {BatchSize, Len(pending_hashes)}
        /\ \A y \in {BatchSize, Len(pending_hashes)} : size <= y
    BY <2>1 DEF Min
  <2> HIDE DEF size
  <2>3. CASE Len(pending_hashes) = 0
    BY <1>1, <2>2, <2>3
  <2>4. CASE Len(pending_hashes) = 1
    BY <1>1, <2>2, <2>4
  <2>5. QED
    BY <1>2, <2>3, <2>4
<1> HIDE DEF size
<1>4. pending_hashes \in Seq(Hashes \cup {Malformed})
  <2>1. CASE pending_hashes = <<>>
    BY <2>1
  <2>2. ASSUME NEW x \in Hashes \cup {Malformed}, pending_hashes = <<x>>
        PROVE  pending_hashes \in Seq(Hashes \cup {Malformed})
    BY <2>2
  <2>3. QED
    BY <2>1, <2>2 DEF WaitingInv
<1>5. SubSeq(pending_hashes, 1, size) = pending_hashes
  BY <1>2, <1>3, <1>4
<1>6. SubSeq(pending_hashes, size + 1, Len(pending_hashes)) = <<>>
  BY <1>2, <1>3, <1>4
<1>7. QED
  BY <1>5, <1>6 DEF size

\* A failed session leaves nothing behind but the memory.
LEMMA FailKeepsDedup ==
    ASSUME DedupInv, Fail, phase \notin {"pool", "rebuilding", "done"}
    PROVE  DedupInv'
BY DEF DedupInv, WaitingInv, MemoryInv, BatchInv, Phases, Fail, ResetSession, memory_vars

\* The session loop begins with an empty memory.
LEMMA BeginKeepsDedup ==
    ASSUME DedupInv, BeginSessions, phase \in {"pool", "rebuilding"}
    PROVE  DedupInv'
BY DEF DedupInv, WaitingInv, MemoryInv, BatchInv, Phases, BeginSessions, ResetSession

LEMMA EndRebuildKeepsDedup ==
    ASSUME DedupInv, EndRebuildOnly, phase \in {"pool", "rebuilding"}
    PROVE  DedupInv'
BY DEF DedupInv, WaitingInv, MemoryInv, BatchInv, Phases, EndRebuildOnly, session_vars, memory_vars

LEMMA RebuildKeepsDedup ==
    ASSUME DedupInv, Rebuild
    PROVE  DedupInv'
<1>1. CASE PoolFails
  <2>1. CASE pool_endpoint + 1 < EndpointCount
    BY <1>1, <2>1 DEF PoolFails, DedupInv, WaitingInv, MemoryInv, BatchInv, session_vars, memory_vars
  <2>2. CASE ~(pool_endpoint + 1 < EndpointCount)
    BY <1>1, <2>2, BeginKeepsDedup, EndRebuildKeepsDedup DEF PoolFails
  <2>3. QED
    BY <2>1, <2>2
<1>2. CASE PoolFetched
  BY <1>2 DEF PoolFetched, DedupInv, WaitingInv, MemoryInv, BatchInv, Phases, memory_vars
<1>3. CASE RebuildNext
  BY <1>3 DEF RebuildNext, DedupInv, WaitingInv, MemoryInv, BatchInv
<1>4. CASE RebuildEnds
  BY <1>4, BeginKeepsDedup, EndRebuildKeepsDedup DEF RebuildEnds
<1>5. QED
  BY <1>1, <1>2, <1>3, <1>4 DEF Rebuild

\* A frame leaves one announcement to flush at most, and budget for it.
LEMMA FramesKeepDedup ==
    ASSUME DedupInv, phase = "reading",
           \/ pending_hashes' = pending_hashes
           \/ \E x \in Hashes \cup {Malformed} : pending_hashes' = Append(pending_hashes, x),
           StartFlush(pending_hashes'), UNCHANGED <<batch, memory_vars, handled>>
    PROVE  DedupInv'
<1>1. pending_hashes = <<>>
  BY DEF DedupInv, WaitingInv
<1>2. WaitingInv'
  <2>1. CASE pending_hashes' = <<>>
    BY <2>1, BudgetSuffices, Len(<<>>) = 0 DEF WaitingInv, StartFlush, Phases
  <2>2. ASSUME NEW x \in Hashes \cup {Malformed}, pending_hashes' = Append(pending_hashes, x)
        PROVE  WaitingInv'
    <3>1. pending_hashes' = <<x>> /\ Len(pending_hashes') = 1
      BY <1>1, <2>2
    <3>2. QED
      BY <3>1, BudgetSuffices DEF WaitingInv, StartFlush, Phases
  <2>3. QED
    BY <1>1, <2>1, <2>2
<1>3. MemoryInv' /\ BatchInv'
  BY DEF DedupInv, MemoryInv, BatchInv, StartFlush, memory_vars
<1>4. QED
  BY <1>2, <1>3 DEF DedupInv

\* A batch is remembered before it is fetched, and is not what was handled.
LEMMA TakeBatchKeepsDedup ==
    ASSUME DedupInv, TakeBatch
    PROVE  DedupInv'
<1> DEFINE size == Min({BatchSize, Len(pending_hashes)})
           memory == RememberBatch(SubSeq(pending_hashes, 1, size))
<1>1. /\ phase = "flushing" /\ budget > 0 /\ budget' = budget - 1
      /\ pending_hashes' = SubSeq(pending_hashes, size + 1, Len(pending_hashes))
      /\ seen_hashes' = memory.seen /\ seen_order' = memory.order /\ batch' = memory.fresh
      /\ handled' = handled \cap memory.seen
      /\ phase' = IF memory.fresh = <<>> THEN "flushing" ELSE "fetching"
  BY DEF TakeBatch
<1>2. pending_hashes' = <<>> /\ memory = RememberBatch(pending_hashes)
  BY <1>1, AllIsTaken DEF DedupInv
<1> HIDE DEF memory, size
<1>3. WaitingInv'
  BY <1>1, <1>2 DEF DedupInv, WaitingInv, Phases
<1>4. CASE memory = Memory
  <2>1. memory.seen = seen_hashes /\ memory.order = seen_order /\ memory.fresh = <<>>
    BY <1>4 DEF Memory
  <2>2. QED
    BY <1>1, <1>3, <2>1 DEF DedupInv, MemoryInv, BatchInv
<1>5. ASSUME NEW h \in Hashes, h \notin seen_hashes, memory = RememberHash(Memory, h)
      PROVE  DedupInv'
  <2>1. /\ memory.fresh = <<h>>
        /\ h \in memory.seen
        /\ memory.order \in Seq(Hashes)
        /\ \A i, j \in 1..Len(memory.order) : memory.order[i] = memory.order[j] => i = j
        /\ \A i \in 1..Len(memory.order) : memory.order[i] \in memory.seen
    BY <1>5, FreshIsRemembered DEF DedupInv
  <2>2. phase' = "fetching"
    BY <1>1, <2>1
  <2>3. h \notin handled
    BY <1>5 DEF DedupInv, MemoryInv
  <2>4. MemoryInv'
    BY <1>1, <2>1, <2>2 DEF MemoryInv
  <2>5. BatchInv'
    BY <1>1, <2>1, <2>3 DEF BatchInv
  <2>6. QED
    BY <1>3, <2>4, <2>5 DEF DedupInv
<1>6. CASE pending_hashes = <<>>
  BY <1>2, <1>4, <1>6, RememberNone
<1>7. ASSUME NEW x \in Hashes \cup {Malformed}, pending_hashes = <<x>>
      PROVE  DedupInv'
  <2>1. memory = IF x = Malformed THEN Memory ELSE RememberHash(Memory, x)
    BY <1>2, <1>7, RememberOne
  <2>2. CASE x = Malformed
    BY <1>4, <2>1, <2>2
  <2>3. CASE x \in Hashes /\ x \in seen_hashes
    <3>1. x # Malformed
      BY <2>3, ChainWorkerAssumption
    <3>2. RememberHash(Memory, x) = Memory
      BY <2>3 DEF RememberHash, Memory
    <3>3. QED
      BY <1>4, <2>1, <3>1, <3>2
  <2>4. CASE x \in Hashes /\ x \notin seen_hashes
    <3>1. x # Malformed
      BY <2>4, ChainWorkerAssumption
    <3>2. QED
      BY <1>5, <2>1, <2>4, <3>1
  <2>5. QED
    BY <1>7, <2>2, <2>3, <2>4
<1>8. QED
  BY <1>6, <1>7 DEF DedupInv, WaitingInv

\* Fetching and processing a batch.
LEMMA BatchKeepsDedup ==
    ASSUME DedupInv, FetchSucceeds \/ FetchFails \/ ProcessNext \/ ProcessingFails
    PROVE  DedupInv'
<1>1. CASE FetchSucceeds
  BY <1>1 DEF FetchSucceeds, DedupInv, WaitingInv, MemoryInv, BatchInv, Phases, memory_vars
<1>2. CASE FetchFails
  <2>1. CASE attempt >= RetryAttempts
    BY <1>2, <2>1, FailKeepsDedup DEF FetchFails
  <2>2. CASE ~(attempt >= RetryAttempts)
    BY <1>2, <2>2 DEF FetchFails, DedupInv, WaitingInv, MemoryInv, BatchInv, memory_vars
  <2>3. QED
    BY <2>1, <2>2
<1>3. CASE ProcessNext
  <2>1. PICK h \in Hashes : batch = <<h>> /\ h \in seen_hashes
    BY <1>3 DEF ProcessNext, DedupInv, BatchInv
  <2>2. Head(batch) = h /\ Len(batch) = 1
    BY <2>1
  <2>3. QED
    BY <1>3, <2>1, <2>2
       DEF ProcessNext, DedupInv, WaitingInv, MemoryInv, BatchInv, Phases, memory_vars
<1>4. CASE ProcessingFails
  BY <1>4, FailKeepsDedup DEF ProcessingFails
<1>5. QED
  BY <1>1, <1>2, <1>3, <1>4

LEMMA StepKeepsDedup ==
    ASSUME DedupInv, [Next]_vars
    PROVE  DedupInv'
<1>1. CASE Rebuild
  BY <1>1, RebuildKeepsDedup
<1>2. CASE WakeUp
  BY <1>2 DEF WakeUp, DedupInv, WaitingInv, MemoryInv, BatchInv, Phases, session_vars, memory_vars
<1>3. CASE OpenSession
  BY <1>3 DEF OpenSession, ResetSession, DedupInv, WaitingInv, MemoryInv, BatchInv, Phases,
              memory_vars
<1>4. CASE ConnectionFails
  BY <1>4, FailKeepsDedup DEF ConnectionFails
<1>5. CASE ReceiveNothing
  BY <1>5, FramesKeepDedup DEF ReceiveNothing, StartFlush
<1>6. CASE TakeBatch
  BY <1>6, TakeBatchKeepsDedup
<1>7. CASE FetchSucceeds \/ FetchFails \/ ProcessNext \/ ProcessingFails
  BY <1>7, BatchKeepsDedup
<1>8. CASE FinishFlush
  <2>1. CASE ShouldRotateSilentChain
    BY <1>8, <2>1, FailKeepsDedup DEF FinishFlush
  <2>2. CASE ~ShouldRotateSilentChain
    BY <1>8, <2>2
       DEF FinishFlush, DedupInv, WaitingInv, MemoryInv, BatchInv, Phases, session_vars, memory_vars
  <2>3. QED
    BY <2>1, <2>2
<1>9. CASE FinishSession
  BY <1>9 DEF FinishSession, ResetSession, DedupInv, WaitingInv, MemoryInv, BatchInv, Phases,
              memory_vars
<1>10. ASSUME NEW frame \in Frames, ReceiveText(frame) PROVE DedupInv'
  <2> DEFINE hash == ParsePendingHash(frame)
  <2>1. hash = None \/ hash \in Hashes \cup {Malformed}
    BY DEF ParsePendingHash, Frames
  <2>2. /\ phase = "reading" /\ StartFlush(pending_hashes')
        /\ UNCHANGED <<batch, memory_vars, handled>>
        /\ IF hash = None THEN pending_hashes' = pending_hashes
                          ELSE pending_hashes' = Append(pending_hashes, hash)
    BY <1>10 DEF ReceiveText
  <2> HIDE DEF hash
  <2>3. QED
    BY <2>1, <2>2, FramesKeepDedup
<1>11. CASE ReceiveClose
  BY <1>11, FramesKeepDedup DEF ReceiveClose, StartFlush
<1>12. CASE Tick
  BY <1>12 DEF Tick, DedupInv, WaitingInv, MemoryInv, BatchInv, session_vars, memory_vars
<1>13. CASE UNCHANGED vars
  BY <1>13 DEF vars, DedupInv, WaitingInv, MemoryInv, BatchInv, session_vars, memory_vars
<1>14. QED
  BY <1>1, <1>2, <1>3, <1>4, <1>5, <1>6, <1>7, <1>8, <1>9, <1>10, <1>11, <1>12, <1>13
     DEF Next, Work

\* However often a hash is announced, whatever fetches and sessions fail and however small
\* the memory of the worker is, nothing goes down the pipeline twice until it is forgotten.
THEOREM AnnouncedOnce == Spec => ProcessedOnce
<1> DEFINE Once == phase = "processing" /\ phase' # "sleeping" /\ batch' = Tail(batch)
                     => Head(batch) \notin handled
<1>1. Init => DedupInv
  BY DEF Init, DedupInv, WaitingInv, MemoryInv, BatchInv, Phases
<1>2. DedupInv => Once
  <2> SUFFICES ASSUME DedupInv, phase = "processing" PROVE Head(batch) \notin handled
    OBVIOUS
  <2>1. PICK h \in Hashes : batch = <<h>> /\ h \notin handled
    BY DEF DedupInv, BatchInv
  <2>2. QED
    BY <2>1
<1>3. DedupInv /\ [Next]_vars => [Once]_vars
  BY <1>2
<1>4. DedupInv /\ [Next]_vars => DedupInv'
  BY StepKeepsDedup
<1>5. Spec => [][Once]_vars
  BY <1>1, <1>3, <1>4, PTL DEF Spec
<1>6. QED
  BY <1>5 DEF ProcessedOnce

----------------------------------------------------------------------------
(* The subscriber of the event stream *)

\* The transactions stored.
Tx == {i \in DOMAIN events : events[i] = "tx"}

\* Those after position `a` up to `b` are all in S.
Told(a, b, S) == \A x \in Tx : a < x /\ x <= b => x \in S

DeltaType == [since : Nat, seq : Nat, txs : SUBSET Nat, has_gap : BOOLEAN]
FrameType == [event : {"delta", "reset"}, id : Nat, delta : DeltaType]

Publishing == producer.pc \in {"watermark", "replay", "send"}

TypeOK ==
    /\ events \in Seq({"tx", "other"})
    /\ producer \in [pc : {"tick", "skip", "watermark", "replay", "send"},
                     after : Nat, delta : DeltaType]
    /\ replay \in Seq(DeltaType)
    /\ latest_seq_id \in Nat
    /\ client \in [pc : {"new", "off", "copied", "on", "beat", "lag"}, cursor : Nat,
                   pending : Seq(FrameType), queue : Seq(DeltaType), lagged : BOOLEAN,
                   known : SUBSET Nat, resync : Nat, connections : Nat]
    /\ excused \subseteq Nat

\* The id of the last delta that was put into the window.
LastSeq == IF replay = <<>> THEN 0 ELSE replay[Len(replay)].seq

\* The position up to which the producer has sent what it had to tell.
Sent == IF Publishing THEN producer.delta.since ELSE producer.after

\* A delta that can be on its way: its ids are of stored events, and it tells the
\* transaction it is named after.
Sound(d) == d.seq <= Len(events) /\ d.txs \subseteq Tx /\ (d.seq \in Tx => d.seq \in d.txs)

\* The producer: everything between the window's end and what was sent is excused, a
\* delta that is being published tells what is new or is flagged as a gap, and the
\* watermark is the window's end or runs ahead of it by that delta.
ProducerInv ==
    /\ producer.after <= Len(events)
    /\ producer.pc # "send" => LastSeq <= Sent /\ Told(LastSeq, Sent, excused)
    /\ producer.pc = "send" => LastSeq = producer.delta.seq
    /\ Publishing => LET d == producer.delta IN
         /\ Sound(d) /\ d.seq = producer.after /\ d.since < d.seq
         /\ d.has_gap \/ Told(d.since, d.seq, d.txs \cup excused)
    /\ latest_seq_id = IF producer.pc \in {"replay", "send"} THEN producer.delta.seq ELSE LastSeq

\* The window: in the order of the ids, each delta telling what is new since the
\* one before.
WindowInv ==
    /\ \A i \in 1..Len(replay) : Sound(replay[i])
    /\ \A i, j \in 1..Len(replay) : i < j => replay[i].seq < replay[j].seq
    /\ \A i, j \in 1..Len(replay) : j = i + 1 =>
         replay[j].has_gap \/ Told(replay[i].seq, replay[j].seq, replay[j].txs \cup excused)

\* What the snapshot that was asked for is to tell.
Due == {x \in Tx : x <= client.resync}

\* What a subscriber was told, will be by that snapshot, or is excused.
Covered == client.known \cup excused \cup Due

\* A subscriber that was told everything up to `a` has been told everything up to
\* its id after the frame f.
Fits(a, f) == f.event = "reset" \/ f.delta.has_gap \/ Told(a, f.id, f.delta.txs \cup Covered)

\* Where the frames of the copied window end, and where the stream ends.
PendingEnd ==
    IF client.pending = <<>> THEN client.cursor ELSE client.pending[Len(client.pending)].id
StreamEnd ==
    IF client.queue = <<>> THEN PendingEnd ELSE client.queue[Len(client.queue)].seq

\* A frame that can be on its way.
SoundFrame(f) == f.id <= Len(events) /\ (f.event = "delta" => f.delta.seq = f.id)
                 /\ f.delta.txs \subseteq Tx

\* The subscriber: the claim itself, and nothing is on its way without a connection.
ClientInv ==
    /\ client.cursor <= Len(events) /\ client.known \subseteq Tx
    /\ client.pc # "new" => Told(0, client.cursor, Covered)
    /\ client.pc \in {"new", "off", "beat", "lag"} => client.pending = <<>>
    /\ ~Subscribed => client.queue = <<>>

\* The frames of the copied window follow on the cursor and on one another ...
PendingInv ==
    /\ \A i \in 1..Len(client.pending) : SoundFrame(client.pending[i])
    /\ \A i, j \in 1..Len(client.pending) : i < j => client.pending[i].id <= client.pending[j].id
    /\ client.pending # <<>> => Fits(client.cursor, client.pending[1])
    /\ \A i, j \in 1..Len(client.pending) : j = i + 1 =>
         Fits(client.pending[i].id, client.pending[j])

\* ... and the deltas of the receiver on them, unless it lags or is about to be reset
\* for that; the watermark is not behind them.
QueueInv ==
    /\ \A i \in 1..Len(client.queue) :
         Sound(client.queue[i]) /\ client.queue[i].seq <= latest_seq_id
    /\ ~client.lagged /\ client.pc # "lag" /\ client.queue # <<>> =>
         Fits(PendingEnd, Delta(client.queue[1]))
    /\ \A i, j \in 1..Len(client.queue) : j = i + 1 =>
         Fits(client.queue[i].seq, Delta(client.queue[j]))

\* What was sent and is not in the stream any more has been told; when a keepalive is
\* due, what is in the stream is excused.
CaughtUp ==
    /\ client.pc = "copied" \/ Subscribed => Told(StreamEnd, Sent, Covered)
    /\ client.pc = "beat" => Told(client.cursor, Sent, Covered)

StreamInv == ProducerInv /\ WindowInv /\ ClientInv /\ PendingInv /\ QueueInv /\ CaughtUp

----------------------------------------------------------------------------
(* Stored transactions *)

\* The transactions are stored events, and TxIds picks those of a range.
LEMMA TxFacts ==
    ASSUME TypeOK
    PROVE  /\ Len(events) \in Nat
           /\ Tx \subseteq Nat
           /\ \A x \in Tx : 1 <= x /\ x <= Len(events)
           /\ \A a, b \in Int : \A x : x \in TxIds(a, b) <=> x \in Tx /\ a <= x /\ x <= b
<1>1. Len(events) \in Nat /\ DOMAIN events = 1..Len(events)
  BY LenProperties DEF TypeOK
<1>2. QED
  BY <1>1 DEF Tx, TxIds

\* The same after a step.
LEMMA TxFactsNext ==
    ASSUME TypeOK'
    PROVE  /\ Len(events') \in Nat
           /\ Tx' \subseteq Nat
           /\ \A x \in Tx' : 1 <= x /\ x <= Len(events')
<1>1. Len(events') \in Nat /\ DOMAIN events' = 1..Len(events')
  BY LenProperties DEF TypeOK
<1>2. QED
  BY <1>1 DEF Tx

\* A snapshot shows some of them.
LEMMA SnapshotShows ==
    ASSUME TypeOK
    PROVE  /\ Snapshot \subseteq Tx
           /\ TxIds(1, Len(events)) = Tx
<1>1. Len(events) \in Nat /\ DOMAIN events = 1..Len(events)
  BY LenProperties DEF TypeOK
<1>2. TxIds(1, Len(events)) = Tx
  BY <1>1 DEF Tx, TxIds
<1>3. QED
  BY <1>2 DEF Snapshot

\* The events are only ever appended to.
Grows ==
    /\ Len(events) <= Len(events')
    /\ \A x \in Tx : x \in Tx'
    /\ \A x \in Tx' : x <= Len(events) => x \in Tx

\* Every step of the stream appends to the stored events or leaves them alone.
LEMMA EventsGrow == TypeOK /\ [StreamNext]_stream_vars => Grows
<1> SUFFICES ASSUME TypeOK, [StreamNext]_stream_vars PROVE Grows
  OBVIOUS
<1>1. CASE events' = events
  BY <1>1, TxFacts DEF Grows, Tx
<1>2. CASE StoreEvent
  <2>1. PICK kind \in {"tx", "other"} : events' = Append(events, kind)
    BY <1>2 DEF StoreEvent
  <2>2. /\ Len(events') = Len(events) + 1 /\ Len(events) \in Nat
        /\ DOMAIN events = 1..Len(events) /\ DOMAIN events' = 1..(Len(events) + 1)
        /\ \A i \in 1..Len(events) : events'[i] = events[i]
    BY <2>1, AppendProperties, LenProperties DEF TypeOK
  <2>3. QED
    BY <2>2 DEF Grows, Tx
<1>3. QED
  BY <1>1, <1>2
  DEF StreamNext, stream_vars, Produce, Stream, BuildDispatch, BuildNothing, SkipToLatest,
      PublishWatermark, PushReplay, BroadcastSend, Bootstrap, Resync, Connect, Subscribe,
      SendPending, SendLive, ReceiveLagged, SendLag, Receive, HeartbeatFires, SendKeepalive,
      Disconnect

\* What a scan finds.
LEMMA DispatchFacts ==
    ASSUME TypeOK, BuildDispatch
    PROVE  \E s, e \in Nat : \E gap \in BOOLEAN :
             /\ producer.after < s /\ s <= e /\ e <= Len(events)
             /\ producer' = [pc |-> "watermark", after |-> e,
                             delta |-> [since |-> producer.after, seq |-> e,
                                        txs |-> TxIds(s, e), has_gap |-> gap]]
             /\ gap \/ producer.after = 0 \/ s = producer.after + 1
             /\ excused' = IF producer.after = 0 THEN excused \cup TxIds(1, s - 1) ELSE excused
<1> DEFINE s == ScanStart(producer.after)
           e == ScanEnd(producer.after)
           txs == TxIds(s, e)
           gap == HasGap(producer.after, txs)
<1>1. producer.after \in Nat /\ Len(events) \in Nat /\ EventCapacity \in Nat \ {0}
      /\ ScanLimit \in Nat \ {0}
  BY TxFacts, StreamAssumption DEF TypeOK
<1>2. s \in Nat /\ producer.after < s
  BY <1>1 DEF ScanStart, Oldest, MaxOf
<1>3. e \in Int /\ e <= Len(events)
  BY <1>1, <1>2 DEF ScanEnd
<1>4. /\ txs # {}
      /\ producer' = [pc |-> "watermark", after |-> e,
                      delta |-> [since |-> producer.after, seq |-> e,
                                 txs |-> txs, has_gap |-> gap]]
      /\ excused' = IF producer.after = 0 THEN excused \cup TxIds(1, s - 1) ELSE excused
  BY DEF BuildDispatch
<1>5. gap \in BOOLEAN /\ (gap \/ producer.after = 0 \/ s = producer.after + 1)
  <2>1. gap \in BOOLEAN
    BY DEF HasGap
  <2>2. producer.after > 0 /\ s > producer.after + 1 => gap
    BY DEF HasGap
  <2>3. QED
    BY <1>1, <1>2, <2>1, <2>2
<1> HIDE DEF s, e, gap
<1>6. s <= e
  BY <1>2, <1>3, <1>4, TxFacts
<1>7. e \in Nat
  BY <1>2, <1>3, <1>6
<1>8. QED
  BY <1>2, <1>3, <1>4, <1>5, <1>6, <1>7

----------------------------------------------------------------------------
(* What a connection copies of the window *)

\* An initial segment of 1..n is known by its size.
LEMMA Segment ==
    ASSUME NEW n \in Nat, NEW S \in SUBSET (1..n)
    PROVE  /\ Cardinality(S) \in Nat /\ Cardinality(S) <= n
           /\ (\A i \in S : \A j \in 1..n : j < i => j \in S) => S = 1..Cardinality(S)
<1>1. IsFiniteSet(1..n) /\ Cardinality(1..n) = n
  BY FS_Interval
<1>2. IsFiniteSet(S) /\ Cardinality(S) <= n
  BY <1>1, FS_Subset
<1>3. Cardinality(S) \in Nat
  BY <1>2, FS_CardinalityType
<1>4. ASSUME \A i \in S : \A j \in 1..n : j < i => j \in S
      PROVE  S = 1..Cardinality(S)
  <2>1. ASSUME NEW i \in S
        PROVE  i <= Cardinality(S)
    <3>1. 1..i \in SUBSET S
      BY <1>4
    <3>2. Cardinality(1..i) <= Cardinality(S)
      BY <1>2, <3>1, FS_Subset
    <3>3. Cardinality(1..i) = i
      BY FS_Interval
    <3>4. QED
      BY <3>2, <3>3
  <2>2. S \in SUBSET (1..Cardinality(S))
    BY <1>3, <2>1
  <2>3. IsFiniteSet(1..Cardinality(S)) /\ Cardinality(1..Cardinality(S)) = Cardinality(S)
    BY <1>3, FS_Interval
  <2>4. QED
    BY <2>2, <2>3, FS_Subset
<1>5. QED
  BY <1>2, <1>3, <1>4

\* Later keeps the frames of the window's end.
LEMMA LaterFacts ==
    ASSUME TypeOK, NEW after \in Nat
    PROVE  \E k \in 0..Len(replay) :
             /\ Later(after) = [i \in 1..(Len(replay) - k) |-> Delta(replay[k + i])]
             /\ WindowInv => \A i \in 1..Len(replay) : replay[i].seq <= after <=> i <= k
<1> DEFINE S == {i \in DOMAIN replay : replay[i].seq <= after}
           k == Cardinality(S)
<1>1. /\ Len(replay) \in Nat /\ DOMAIN replay = 1..Len(replay)
      /\ \A i \in 1..Len(replay) : replay[i].seq \in Nat
  <2>1. \A i \in 1..Len(replay) : replay[i] \in DeltaType
    BY ElementOfSeq DEF TypeOK
  <2>2. QED
    BY <2>1, LenProperties DEF TypeOK, DeltaType
<1>2. S \in SUBSET (1..Len(replay)) /\ \A i \in 1..Len(replay) : i \in S <=> replay[i].seq <= after
  BY <1>1
<1>3. Later(after) = [i \in 1..(Len(replay) - k) |-> Delta(replay[k + i])]
  BY DEF Later
<1> HIDE DEF S
<1>4. k \in 0..Len(replay)
  BY <1>1, <1>2, Segment
<1>5. ASSUME WindowInv
      PROVE  \A i \in 1..Len(replay) : replay[i].seq <= after <=> i <= k
  <2>1. \A i \in S : \A j \in 1..Len(replay) : j < i => j \in S
    BY <1>1, <1>2, <1>5 DEF WindowInv
  <2>2. S = 1..k
    BY <1>1, <1>2, <2>1, Segment
  <2>3. QED
    BY <1>1, <1>2, <1>4, <2>2
<1>6. QED
  BY <1>3, <1>4, <1>5

\* Frames have their types.
LEMMA FrameTypes ==
    /\ NoDelta \in DeltaType
    /\ \A d \in DeltaType : Delta(d) \in FrameType
    /\ \A id \in Nat : Reset(id) \in FrameType
    /\ \A f \in FrameType : FrameOf(f) \in FrameType
<1>1. NoDelta \in DeltaType
  BY DEF NoDelta, DeltaType
<1>2. /\ \A d \in DeltaType : Delta(d) \in FrameType
      /\ \A id \in Nat : Reset(id) \in FrameType
  BY <1>1 DEF Delta, Reset, FrameType, DeltaType
<1>3. QED
  BY <1>1, <1>2 DEF FrameOf, FrameType

\* What subscribe_from copies is a sequence of frames.
LEMMA InitialEventsType ==
    ASSUME TypeOK, NEW after \in Nat
    PROVE  InitialEvents(after) \in Seq(FrameType)
<1>1. Len(replay) \in Nat /\ \A i \in 1..Len(replay) : replay[i] \in DeltaType
  BY LenProperties, ElementOfSeq DEF TypeOK
<1>2. Later(after) \in Seq(FrameType)
  <2>1. PICK k \in 0..Len(replay) :
          Later(after) = [i \in 1..(Len(replay) - k) |-> Delta(replay[k + i])]
    BY LaterFacts
  <2>2. /\ Len(replay) - k \in Nat
        /\ \A i \in 1..(Len(replay) - k) : Delta(replay[k + i]) \in FrameType
    BY <1>1, FrameTypes
  <2>3. QED
    BY <2>1, <2>2, IsASeq
<1>3. ASSUME replay # <<>>
      PROVE  <<Reset(MaxOf(latest_seq_id, replay[1].seq))>> \in Seq(FrameType)
  <2>1. replay[1] \in DeltaType
    BY <1>1, <1>3, EmptySeq, LenProperties DEF TypeOK
  <2>2. MaxOf(latest_seq_id, replay[1].seq) \in Nat
    BY <2>1 DEF MaxOf, TypeOK, DeltaType
  <2>3. QED
    BY <2>2, FrameTypes
<1>4. QED
  BY <1>2, <1>3 DEF InitialEvents

----------------------------------------------------------------------------
(* Types *)

ProducerType ==
    [pc : {"tick", "skip", "watermark", "replay", "send"}, after : Nat, delta : DeltaType]
ClientType ==
    [pc : {"new", "off", "copied", "on", "beat", "lag"}, cursor : Nat,
     pending : Seq(FrameType), queue : Seq(DeltaType), lagged : BOOLEAN,
     known : SUBSET Nat, resync : Nat, connections : Nat]

\* The first element of a sequence, and the rest of it.
LEMMA HeadTail ==
    ASSUME NEW T, NEW s \in Seq(T), s # <<>>
    PROVE  /\ Len(s) \in Nat /\ Len(s) >= 1 /\ Head(s) = s[1] /\ s[1] \in T
           /\ Tail(s) \in Seq(T) /\ Len(Tail(s)) = Len(s) - 1
           /\ \A i \in 1..(Len(s) - 1) : Tail(s)[i] = s[i + 1]
<1>1. Len(s) \in Nat /\ Len(s) # 0
  BY EmptySeq, LenProperties
<1>2. s[1] \in T
  BY <1>1, ElementOfSeq
<1>3. QED
  BY <1>1, <1>2, HeadTailProperties

\* What a broadcast does to the subscriber.
LEMMA ReceiverGets ==
    ASSUME TypeOK, BroadcastSend
    PROVE  LET queue == Append(client.queue, producer.delta) IN
           \/ ~Subscribed /\ client' = client
           \/ /\ Subscribed /\ Len(queue) <= ChannelCapacity
              /\ client' = [client EXCEPT !.queue = queue]
           \/ /\ Subscribed /\ Len(queue) > ChannelCapacity
              /\ client' = [client EXCEPT !.queue = Tail(queue), !.lagged = TRUE]
<1> DEFINE queue == Append(client.queue, producer.delta)
<1>1. Len(queue) \in Nat /\ ChannelCapacity \in Nat
  BY AppendProperties, LenProperties, StreamAssumption DEF TypeOK
<1>2. CASE ~Subscribed
  BY <1>2 DEF BroadcastSend
<1>3. CASE Subscribed /\ Len(queue) <= ChannelCapacity
  BY <1>1, <1>3 DEF BroadcastSend
<1>4. CASE Subscribed /\ Len(queue) > ChannelCapacity
  BY <1>1, <1>4 DEF BroadcastSend
<1>5. QED
  BY <1>1, <1>2, <1>3, <1>4

\* The producer keeps the types.
LEMMA ProduceTypeOK ==
    ASSUME TypeOK, Produce
    PROVE  TypeOK'
<1> USE DEF ProducerType, ClientType
<1>1. CASE BuildDispatch
  <2>1. PICK s, e \in Nat, gap \in BOOLEAN :
          /\ producer' = [pc |-> "watermark", after |-> e,
                          delta |-> [since |-> producer.after, seq |-> e,
                                     txs |-> TxIds(s, e), has_gap |-> gap]]
          /\ excused' = IF producer.after = 0 THEN excused \cup TxIds(1, s - 1) ELSE excused
    BY <1>1, DispatchFacts
  <2>2. TxIds(s, e) \subseteq Nat /\ TxIds(1, s - 1) \subseteq Nat
    BY TxFacts
  <2>3. [since |-> producer.after, seq |-> e, txs |-> TxIds(s, e), has_gap |-> gap] \in DeltaType
    BY <2>2 DEF TypeOK, DeltaType
  <2>4. producer' \in ProducerType /\ excused' \subseteq Nat
    BY <2>1, <2>2, <2>3 DEF TypeOK
  <2>5. QED
    BY <1>1, <2>4 DEF BuildDispatch, TypeOK
<1>2. CASE BuildNothing
  BY <1>2 DEF BuildNothing, TypeOK
<1>3. CASE SkipToLatest
  <2>1. MaxOf(producer.after, Len(events)) \in Nat
    BY TxFacts DEF MaxOf, TypeOK
  <2>2. producer' \in ProducerType
    BY <1>3, <2>1 DEF SkipToLatest, TypeOK
  <2>3. TxIds(producer.after + 1, Len(events)) \subseteq Nat
    BY TxFacts DEF TypeOK
  <2>4. QED
    BY <1>3, <2>2, <2>3 DEF SkipToLatest, TypeOK
<1>4. CASE PublishWatermark
  <2>1. latest_seq_id' \in Nat
    BY <1>4 DEF PublishWatermark, MaxOf, TypeOK, DeltaType
  <2>2. QED
    BY <1>4, <2>1 DEF PublishWatermark, TypeOK
<1>5. CASE PushReplay
  <2>1. producer.delta \in DeltaType
    BY DEF TypeOK
  <2>2. ReplayCapacity \in Nat \ {0}
    BY StreamAssumption
  <2>3. (IF Len(replay) >= ReplayCapacity THEN Tail(replay) ELSE replay) \in Seq(DeltaType)
    BY <2>2, EmptySeq, HeadTail DEF TypeOK
  <2>4. replay' \in Seq(DeltaType)
    BY <1>5, <2>1, <2>3, AppendProperties DEF PushReplay
  <2>5. QED
    BY <1>5, <2>4 DEF PushReplay, TypeOK
<1>6. CASE BroadcastSend
  <2> DEFINE queue == Append(client.queue, producer.delta)
  <2>1. queue \in Seq(DeltaType) /\ queue # <<>>
    BY AppendProperties, EmptySeq DEF TypeOK
  <2>2. Tail(queue) \in Seq(DeltaType)
    BY <2>1, HeadTail
  <2>3. \/ client' = client
        \/ client' = [client EXCEPT !.queue = queue]
        \/ client' = [client EXCEPT !.queue = Tail(queue), !.lagged = TRUE]
    BY <1>6, ReceiverGets
  <2> HIDE DEF queue
  <2>4. client' \in ClientType
    BY <2>1, <2>2, <2>3 DEF TypeOK
  <2>5. Subject(producer.delta) \subseteq Nat
    BY TxFacts DEF Subject, TypeOK, DeltaType
  <2>6. excused' \subseteq Nat
    BY <1>6, <2>5 DEF BroadcastSend, TypeOK
  <2>7. QED
    BY <1>6, <2>4, <2>6 DEF BroadcastSend, TypeOK
<1>7. QED
  BY <1>1, <1>2, <1>3, <1>4, <1>5, <1>6 DEF Produce

\* A frame received keeps the types.
LEMMA ReceiveTypeOK ==
    ASSUME TypeOK, NEW frame \in FrameType, NEW rest \in ClientType, Receive(frame, rest)
    PROVE  TypeOK'
<1>1. /\ rest.known \cup frame.delta.txs \in SUBSET Nat
      /\ MaxOf(rest.resync, frame.id) \in Nat
  BY DEF MaxOf, ClientType, FrameType, DeltaType
<1>2. client' \in ClientType
  BY <1>1 DEF Receive, ClientType, FrameType
<1>3. QED
  BY <1>2 DEF Receive, TypeOK, ClientType

\* The subscriber keeps the types.
LEMMA SubscriberTypeOK ==
    ASSUME TypeOK, Bootstrap \/ Resync \/ Stream \/ HeartbeatFires \/ Disconnect
    PROVE  TypeOK'
<1> USE DEF ClientType
<1>0. /\ Snapshot \subseteq Nat /\ TxIds(1, Len(events)) \subseteq Nat /\ Len(events) \in Nat
      /\ TxIds(1, client.resync) \subseteq Nat
  BY TxFacts, SnapshotShows DEF TypeOK
<1>1. CASE Bootstrap \/ Resync
  <2>1. client' \in ClientType
    <3>1. client \in ClientType /\ client.known \cup Snapshot \in SUBSET Nat
      BY <1>0 DEF TypeOK
    <3>2. CASE Bootstrap
      BY <1>0, <3>1, <3>2 DEF Bootstrap
    <3>3. CASE Resync
      <4>1. PICK known \in SUBSET Nat : known = client.known \cup Snapshot
        BY <3>1
      <4>2. client' = [client EXCEPT !.resync = 0, !.known = known]
        BY <3>3, <4>1 DEF Resync
      <4>3. QED
        BY <3>1, <4>2
    <3>4. QED
      BY <1>1, <3>2, <3>3
  <2>2. excused' \subseteq Nat
    BY <1>0, <1>1 DEF Bootstrap, Resync, TypeOK
  <2>3. QED
    BY <1>1, <2>1, <2>2 DEF Bootstrap, Resync, TypeOK
<1>2. CASE Connect
  <2>1. PICK pending \in Seq(FrameType) : pending = InitialEvents(client.cursor)
    BY InitialEventsType DEF TypeOK
  <2>2. client' \in ClientType
    <3>1. PICK n \in Nat : n = client.connections + 1
      BY DEF TypeOK
    <3>2. client' = [client EXCEPT !.pc = "copied", !.connections = n, !.pending = pending]
      BY <1>2, <2>1, <3>1 DEF Connect
    <3>3. QED
      BY <3>2 DEF TypeOK
  <2>3. excused' \subseteq Nat
    <3>1. ASSUME replay # <<>>
          PROVE  TxIds(1, replay[1].seq) \subseteq Nat
      <4>1. replay[1] \in DeltaType
        BY <3>1, HeadTail DEF TypeOK
      <4>2. replay[1].seq \in Int /\ 1 \in Int
        BY <4>1 DEF DeltaType
      <4>3. QED
        BY <4>2, TxFacts
    <3>2. QED
      BY <1>2, <3>1 DEF Connect, TypeOK
  <2>4. QED
    BY <1>2, <2>2, <2>3 DEF Connect, TypeOK
<1>3. CASE Subscribe
  BY <1>3, EmptySeq DEF Subscribe, TypeOK
<1>4. CASE SendPending
  <2>1. Head(client.pending) \in FrameType /\ Tail(client.pending) \in Seq(FrameType)
    BY <1>4, HeadTail DEF SendPending, TypeOK
  <2>2. [client EXCEPT !.pending = Tail(@)] \in ClientType
    BY <2>1 DEF TypeOK
  <2>3. QED
    BY <1>4, <2>1, <2>2, FrameTypes, ReceiveTypeOK DEF SendPending
<1>5. CASE SendLive
  <2>1. Head(client.queue) \in DeltaType /\ Tail(client.queue) \in Seq(DeltaType)
    BY <1>5, HeadTail DEF SendLive, TypeOK
  <2>2. [client EXCEPT !.queue = Tail(@)] \in ClientType
    BY <2>1 DEF TypeOK
  <2>3. QED
    BY <1>5, <2>1, <2>2, FrameTypes, ReceiveTypeOK DEF SendLive
<1>6. CASE SendLag
  <2>1. [client EXCEPT !.pc = "on"] \in ClientType
    BY DEF TypeOK
  <2>2. Reset(latest_seq_id) \in FrameType
    BY FrameTypes DEF TypeOK
  <2>3. QED
    BY <1>6, <2>1, <2>2, ReceiveTypeOK DEF SendLag
<1>7. CASE SendKeepalive
  <2>1. Subject(producer.delta) \subseteq Nat
    BY TxFacts DEF Subject, TypeOK, DeltaType
  <2>2. client' \in ClientType
    BY <1>7 DEF SendKeepalive, TypeOK
  <2>3. QED
    BY <1>7, <2>1, <2>2 DEF SendKeepalive, TypeOK
<1>8. CASE Disconnect
  BY <1>8, EmptySeq DEF Disconnect, TypeOK
<1>9. CASE ReceiveLagged \/ HeartbeatFires
  BY <1>9 DEF ReceiveLagged, HeartbeatFires, TypeOK
<1>10. QED
  BY <1>1, <1>2, <1>3, <1>4, <1>5, <1>6, <1>7, <1>8, <1>9 DEF Stream

\* Every step keeps the types.
LEMMA NextTypeOK == TypeOK /\ [StreamNext]_stream_vars => TypeOK'
<1> SUFFICES ASSUME TypeOK, [StreamNext]_stream_vars PROVE TypeOK'
  OBVIOUS
<1>1. CASE StoreEvent
  <2>1. events' \in Seq({"tx", "other"})
    BY <1>1, AppendProperties DEF StoreEvent, TypeOK
  <2>2. QED
    BY <1>1, <2>1 DEF StoreEvent, TypeOK
<1>2. CASE UNCHANGED stream_vars
  BY <1>2 DEF stream_vars, TypeOK
<1>3. QED
  BY <1>1, <1>2, ProduceTypeOK, SubscriberTypeOK DEF StreamNext

\* The state of the stream keeps its types.
THEOREM StreamTypeCorrect == StreamSpec => []TypeOK
<1>1. StreamInit => TypeOK
  BY FrameTypes, EmptySeq DEF StreamInit, TypeOK
<1>2. QED
  BY <1>1, NextTypeOK, PTL DEF StreamSpec

----------------------------------------------------------------------------
(* What a step leaves alone stays as it was *)

\* The elements of the sequences.
Elements ==
    /\ Len(replay) \in Nat /\ \A i \in 1..Len(replay) : replay[i] \in DeltaType
    /\ replay # <<>> => Len(replay) >= 1
    /\ Len(client.pending) \in Nat
    /\ \A i \in 1..Len(client.pending) : client.pending[i] \in FrameType
    /\ client.pending # <<>> => Len(client.pending) >= 1
    /\ Len(client.queue) \in Nat
    /\ \A i \in 1..Len(client.queue) : client.queue[i] \in DeltaType
    /\ client.queue # <<>> => Len(client.queue) >= 1

\* They have their types, and a sequence that is not empty has a first one.
LEMMA ElementTypes == TypeOK => Elements
<1> SUFFICES ASSUME TypeOK PROVE Elements
  OBVIOUS
<1>1. /\ replay \in Seq(DeltaType) /\ client.pending \in Seq(FrameType)
      /\ client.queue \in Seq(DeltaType)
  BY DEF TypeOK
<1>2. Len(replay) \in Nat /\ \A i \in 1..Len(replay) : replay[i] \in DeltaType
  BY <1>1, LenProperties, ElementOfSeq
<1>3. /\ Len(client.pending) \in Nat
      /\ \A i \in 1..Len(client.pending) : client.pending[i] \in FrameType
  BY <1>1, LenProperties, ElementOfSeq
<1>4. /\ Len(client.queue) \in Nat
      /\ \A i \in 1..Len(client.queue) : client.queue[i] \in DeltaType
  BY <1>1, LenProperties, ElementOfSeq
<1>5. /\ replay # <<>> => Len(replay) >= 1
      /\ client.pending # <<>> => Len(client.pending) >= 1
      /\ client.queue # <<>> => Len(client.queue) >= 1
  BY <1>1, HeadTail
<1>6. QED
  BY <1>2, <1>3, <1>4, <1>5 DEF Elements

\* The positions that Sent and LastSeq name.
LEMMA Positions ==
    ASSUME TypeOK, ProducerInv
    PROVE  /\ Sent \in Nat /\ Sent <= Len(events) /\ LastSeq \in Nat /\ LastSeq <= Len(events)
           /\ latest_seq_id <= Len(events)
<1>1. producer.after \in Nat /\ producer.delta \in DeltaType /\ Len(events) \in Nat
  BY TxFacts DEF TypeOK
<1>2. producer.delta.since \in Nat /\ producer.delta.seq \in Nat
  BY <1>1 DEF DeltaType
<1>3. Sent \in Nat /\ Sent <= Len(events)
  BY <1>1, <1>2 DEF Sent, ProducerInv, Sound, Publishing
<1>4. LastSeq \in Nat
  BY ElementTypes DEF Elements, LastSeq, DeltaType
<1>5. LastSeq <= Len(events)
  BY <1>1, <1>2, <1>3, <1>4 DEF ProducerInv, Publishing
<1>6. QED
  BY <1>1, <1>2, <1>3, <1>4, <1>5 DEF ProducerInv, Publishing, Sound

\* A step that leaves the producer and the window alone.
LEMMA ProducerKept ==
    ASSUME TypeOK, TypeOK', Grows, ProducerInv, UNCHANGED <<producer, replay, latest_seq_id>>,
           excused \subseteq excused'
    PROVE  ProducerInv'
<1>1. /\ Sent \in Nat /\ Sent <= Len(events) /\ Len(events) \in Nat /\ Tx \subseteq Nat
      /\ producer.after \in Nat /\ producer.delta.seq \in Nat /\ Tx' \subseteq Nat
  BY Positions, TxFacts, TxFactsNext DEF TypeOK, DeltaType
<1>2. Sent' = Sent /\ LastSeq' = LastSeq /\ Publishing' = Publishing
  BY DEF Sent, LastSeq, Publishing
<1>3. producer.after' <= Len(events')
  BY <1>1 DEF Grows, ProducerInv
<1>4. producer.pc # "send" =>
        LastSeq <= Sent /\ \A x \in Tx' : LastSeq < x /\ x <= Sent => x \in excused'
  BY <1>1 DEF Grows, ProducerInv, Told
<1>5. Publishing => LET d == producer.delta IN
         /\ d.seq <= Len(events') /\ d.txs \subseteq Tx' /\ (d.seq \in Tx' => d.seq \in d.txs)
         /\ d.seq = producer.after /\ d.since < d.seq
         /\ d.has_gap \/ \A x \in Tx' : d.since < x /\ x <= d.seq => x \in d.txs \cup excused'
  <2> DEFINE d == producer.delta
  <2> SUFFICES ASSUME Publishing
               PROVE  /\ d.seq <= Len(events') /\ d.txs \subseteq Tx'
                      /\ d.seq \in Tx' => d.seq \in d.txs
                      /\ d.seq = producer.after /\ d.since < d.seq
                      /\ ~d.has_gap => \A x \in Tx' : d.since < x /\ x <= d.seq
                                                     => x \in d.txs \cup excused'
    OBVIOUS
  <2>1. /\ Sound(d) /\ d.seq = producer.after /\ d.since < d.seq /\ d.seq \in Nat
        /\ ~d.has_gap => Told(d.since, d.seq, d.txs \cup excused)
    BY <1>1 DEF ProducerInv
  <2> HIDE DEF d
  <2>2. d.seq <= Len(events) /\ d.txs \subseteq Tx /\ (d.seq \in Tx => d.seq \in d.txs)
    BY <2>1 DEF Sound
  <2>3. \A x \in Tx' : x <= d.seq => x \in Tx
    BY <1>1, <2>1, <2>2 DEF Grows
  <2>4. d.seq <= Len(events') /\ d.txs \subseteq Tx' /\ (d.seq \in Tx' => d.seq \in d.txs)
    <3>1. d.seq <= Len(events')
      BY <1>1, <2>1, <2>2, TxFactsNext DEF Grows
    <3>2. d.txs \subseteq Tx'
      BY <2>2 DEF Grows
    <3>3. QED
      BY <2>1, <2>2, <2>3, <3>1, <3>2
  <2>5. QED
    BY <2>1, <2>3, <2>4 DEF Told
<1>6. QED
  BY <1>2, <1>3, <1>4, <1>5 DEF ProducerInv, Told, Sound

\* A step that leaves the window alone.
LEMMA WindowKept ==
    ASSUME TypeOK, TypeOK', Grows, WindowInv, replay' = replay,
           excused \subseteq excused'
    PROVE  WindowInv'
<1>1. \A i \in 1..Len(replay) : replay[i].seq \in Nat /\ replay[i].txs \subseteq Nat
  BY ElementTypes DEF Elements, DeltaType
<1>2. Len(replay) \in Nat /\ Len(events) \in Nat /\ Len(events') \in Nat /\ Tx \subseteq Nat
  BY TxFacts, ElementTypes DEF Elements, Grows
<1>3. \A i \in 1..Len(replay) : Sound(replay[i])'
  BY <1>1, <1>2 DEF WindowInv, Sound, Grows
<1>4. ASSUME NEW i \in 1..Len(replay), NEW j \in 1..Len(replay), j = i + 1, ~replay[j].has_gap,
             NEW x \in Tx', replay[i].seq < x, x <= replay[j].seq
      PROVE  x \in replay[j].txs \cup excused'
  <2>1. replay[j].seq <= Len(events) /\ x \in Tx
    BY <1>1, <1>2, <1>4, TxFacts, TxFactsNext DEF WindowInv, Sound, Grows
  <2>2. QED
    BY <1>4, <2>1 DEF WindowInv, Told
<1>5. QED
  BY <1>3, <1>4 DEF WindowInv, Told

\* What is covered stays so while a subscriber learns and awaits no less.
LEMMA CoveredGrows ==
    ASSUME Grows, excused \subseteq excused', client.known \subseteq client'.known,
           client'.resync = client.resync
    PROVE  Covered \subseteq Covered'
BY DEF Grows, Covered, Due

\* A frame that fits goes on fitting while the subscriber learns more.
LEMMA FitsMore ==
    ASSUME Tx' = Tx, Covered \subseteq Covered'
    PROVE  \A f, a : Fits(a, f) =>
             f.event = "reset" \/ f.delta.has_gap
             \/ \A x \in Tx' : a < x /\ x <= f.id => x \in f.delta.txs \cup Covered'
BY DEF Fits, Told

\* A step that leaves the subscriber alone.
LEMMA ClientKept ==
    ASSUME TypeOK, TypeOK', Grows, ClientInv, UNCHANGED client, excused \subseteq excused'
    PROVE  ClientInv'
<1>1. client.cursor \in Nat /\ Len(events) \in Nat /\ Len(events') \in Nat /\ Tx' \subseteq Nat
  BY TxFacts, TxFactsNext DEF TypeOK
<1>2. \A x \in Tx' : x <= client.cursor => x \in Tx
  BY <1>1 DEF ClientInv, Grows
<1>3. client.cursor <= Len(events')
  BY <1>1 DEF ClientInv, Grows
<1>4. client.known \subseteq Tx'
  BY DEF ClientInv, Grows
<1>5. client.pc # "new" =>
        \A x \in Tx' : 0 < x /\ x <= client.cursor => x \in Covered'
  BY <1>2, CoveredGrows DEF ClientInv, Told
<1>6. QED
  BY <1>3, <1>4, <1>5 DEF ClientInv, Told, Subscribed

\* A frame goes on fitting while what is covered grows.
LEMMA FitsKept ==
    ASSUME TypeOK, TypeOK', Grows, Covered \subseteq Covered', NEW a, NEW f,
           f.id \in Nat, f.id <= Len(events), Fits(a, f)
    PROVE  f.event = "reset" \/ f.delta.has_gap
           \/ \A x \in Tx' : a < x /\ x <= f.id => x \in f.delta.txs \cup Covered'
<1>1. Len(events) \in Nat /\ Tx' \subseteq Nat
  BY TxFacts, TxFactsNext
<1>2. \A x \in Tx' : x <= f.id => x \in Tx
  BY <1>1 DEF Grows
<1>3. QED
  BY <1>2 DEF Fits, Told

\* The frames pending go on fitting while what is covered grows.
LEMMA PendingKept ==
    ASSUME TypeOK, TypeOK', Grows, PendingInv, Covered \subseteq Covered',
           client'.pending = client.pending, client'.cursor = client.cursor
    PROVE  PendingInv'
<1> DEFINE p == client.pending
<1>1. /\ Len(p) \in Nat /\ \A i \in 1..Len(p) : p[i] \in FrameType
      /\ p # <<>> => Len(p) >= 1
      /\ Len(events) \in Nat /\ Len(events') \in Nat
  BY ElementTypes, TxFacts, TxFactsNext DEF Elements
<1>2. \A i \in 1..Len(p) : p[i].id \in Nat /\ p[i].id <= Len(events)
  BY <1>1 DEF PendingInv, SoundFrame, FrameType
<1>3. \A i \in 1..Len(p) : SoundFrame(p[i])'
  BY <1>1, <1>2 DEF PendingInv, SoundFrame, Grows
<1>4. ASSUME p # <<>>
      PROVE  Fits(client.cursor, p[1])'
  <2>1. Fits(client.cursor, p[1]) /\ p[1].id \in Nat /\ p[1].id <= Len(events)
    BY <1>1, <1>2, <1>4 DEF PendingInv
  <2>2. p[1].event = "reset" \/ p[1].delta.has_gap
        \/ \A x \in Tx' : client.cursor < x /\ x <= p[1].id => x \in p[1].delta.txs \cup Covered'
    BY <2>1, FitsKept
  <2>3. QED
    BY <2>2 DEF Fits, Told
<1>5. \A i, j \in 1..Len(p) : j = i + 1 => Fits(p[i].id, p[j])'
  BY <1>1, <1>2, FitsKept DEF PendingInv, Fits, Told
<1>6. QED
  BY <1>3, <1>4, <1>5 DEF PendingInv

\* So do the deltas queued.
LEMMA QueueKept ==
    ASSUME TypeOK, TypeOK', Grows, QueueInv, Covered \subseteq Covered',
           client'.pending = client.pending, client'.cursor = client.cursor,
           client'.queue = client.queue, client'.lagged = client.lagged,
           client'.pc = client.pc, latest_seq_id <= latest_seq_id'
    PROVE  QueueInv'
<1> DEFINE q == client.queue
<1>1. /\ Len(q) \in Nat /\ \A i \in 1..Len(q) : q[i] \in DeltaType
      /\ q # <<>> => Len(q) >= 1
      /\ Len(events) \in Nat /\ Len(events') \in Nat
  BY ElementTypes, TxFacts, TxFactsNext DEF Elements
<1>2. \A i \in 1..Len(q) : Delta(q[i]).id \in Nat /\ Delta(q[i]).id <= Len(events)
  BY <1>1 DEF QueueInv, Sound, DeltaType, Delta
<1>3. \A i \in 1..Len(q) : Sound(q[i])' /\ q[i].seq <= latest_seq_id'
  <2>1. \A i \in 1..Len(q) : Sound(q[i])'
    BY <1>1, <1>2 DEF QueueInv, Sound, Grows, Delta, DeltaType
  <2>2. latest_seq_id \in Nat /\ latest_seq_id' \in Nat
    BY DEF TypeOK
  <2>3. \A i \in 1..Len(q) : q[i].seq <= latest_seq_id'
    BY <1>1, <2>2 DEF QueueInv, DeltaType
  <2>4. QED
    BY <2>1, <2>3
<1>4. PendingEnd' = PendingEnd
  BY DEF PendingEnd
<1>5. ~client.lagged /\ client.pc # "lag" /\ q # <<>> => Fits(PendingEnd, Delta(q[1]))'
  BY <1>1, <1>2, <1>4, FitsKept DEF QueueInv, Fits, Told
<1>6. \A i, j \in 1..Len(q) : j = i + 1 => Fits(q[i].seq, Delta(q[j]))'
  BY <1>1, <1>2, FitsKept DEF QueueInv, Fits, Told
<1>7. QED
  BY <1>3, <1>5, <1>6 DEF QueueInv

\* Nothing more was sent, and the subscriber is where it was.
LEMMA CaughtUpKept ==
    ASSUME TypeOK, TypeOK', Grows, ProducerInv, CaughtUp, UNCHANGED client,
           excused \subseteq excused', Sent' = Sent
    PROVE  CaughtUp'
<1>1. Sent \in Nat /\ Sent <= Len(events) /\ Len(events) \in Nat /\ Tx' \subseteq Nat
  BY Positions, TxFacts, TxFactsNext
<1>2. \A x \in Tx' : x <= Sent => x \in Tx
  BY <1>1 DEF Grows
<1>3. StreamEnd' = StreamEnd
  BY DEF StreamEnd, PendingEnd
<1>4. Covered \subseteq Covered'
  BY CoveredGrows
<1>5. QED
  BY <1>2, <1>3, <1>4 DEF CaughtUp, Told, Subscribed

----------------------------------------------------------------------------
(* The producer *)

\* A step of the producer that leaves the subscriber alone.
LEMMA SubscriberKept ==
    ASSUME TypeOK, TypeOK', Grows, StreamInv, client' = client, excused \subseteq excused',
           latest_seq_id <= latest_seq_id'
    PROVE  ClientInv' /\ PendingInv' /\ QueueInv'
<1>1. Covered \subseteq Covered'
  BY CoveredGrows
<1>2. ClientInv'
  BY ClientKept DEF StreamInv
<1>3. PendingInv'
  BY <1>1, PendingKept DEF StreamInv
<1>4. QueueInv'
  BY <1>1, QueueKept DEF StreamInv
<1>5. QED
  BY <1>2, <1>3, <1>4

\* A delta is built: what its scan leaves out is flagged as a gap or excused.
LEMMA BuildDispatchKeeps ==
    ASSUME TypeOK, TypeOK', Grows, StreamInv, BuildDispatch
    PROVE  StreamInv'
<1>1. PICK s, e \in Nat, gap \in BOOLEAN :
        /\ producer.after < s /\ s <= e /\ e <= Len(events)
        /\ producer' = [pc |-> "watermark", after |-> e,
                        delta |-> [since |-> producer.after, seq |-> e,
                                   txs |-> TxIds(s, e), has_gap |-> gap]]
        /\ gap \/ producer.after = 0 \/ s = producer.after + 1
        /\ excused' = IF producer.after = 0 THEN excused \cup TxIds(1, s - 1) ELSE excused
  BY DispatchFacts
<1>2. producer.pc = "tick" /\ UNCHANGED <<events, replay, latest_seq_id, client>>
  BY DEF BuildDispatch
<1>3. Tx' = Tx /\ LastSeq' = LastSeq /\ excused \subseteq excused' /\ producer.after \in Nat
  BY <1>1, <1>2 DEF Tx, LastSeq, TypeOK
<1>4. /\ producer'.pc = "watermark" /\ producer'.after = e
      /\ producer'.delta.since = producer.after /\ producer'.delta.seq = e
      /\ producer'.delta.txs = TxIds(s, e) /\ producer'.delta.has_gap = gap
  BY <1>1
<1>5. Sent = producer.after /\ Sent' = producer.after /\ Publishing'
  BY <1>2, <1>4 DEF Sent, Publishing
<1>6. LastSeq <= producer.after /\ Told(LastSeq, producer.after, excused)
      /\ latest_seq_id = LastSeq
  BY <1>2, <1>5 DEF StreamInv, ProducerInv
<1>7. \A x : x \in TxIds(s, e) <=> x \in Tx /\ s <= x /\ x <= e
  BY TxFacts
<1>8. gap \/ \A x \in Tx : producer.after < x /\ x <= e => x \in TxIds(s, e) \cup excused'
  <2> SUFFICES ASSUME ~gap, NEW x \in Tx, producer.after < x, x <= e, x \notin TxIds(s, e)
               PROVE  x \in excused'
    OBVIOUS
  <2>1. x \in Nat /\ x < s
    BY <1>7, TxFacts
  <2>2. producer.after = 0
    BY <1>1, <1>3, <2>1
  <2>3. x \in TxIds(1, s - 1)
    BY <2>1, <2>2, TxFacts
  <2>4. QED
    BY <1>1, <2>2, <2>3
<1>9. ProducerInv'
  <2>1. Sound(producer.delta)'
    BY <1>1, <1>2, <1>3, <1>4, <1>7 DEF Sound
  <2>2. Told(LastSeq, Sent, excused)'
    BY <1>3, <1>5, <1>6 DEF Told
  <2>3. producer.delta.has_gap' \/ Told(producer.delta.since, producer.delta.seq,
                                        producer.delta.txs \cup excused)'
    BY <1>3, <1>4, <1>8 DEF Told
  <2>4. QED
    BY <1>1, <1>2, <1>3, <1>4, <1>5, <1>6, <2>1, <2>2, <2>3 DEF ProducerInv
<1>10. WindowInv'
  BY <1>2, <1>3, WindowKept DEF StreamInv
<1>11. CaughtUp'
  BY <1>2, <1>3, <1>5, CaughtUpKept DEF StreamInv
<1>12. latest_seq_id <= latest_seq_id'
  BY <1>2 DEF TypeOK
<1>13. QED
  BY <1>2, <1>3, <1>9, <1>10, <1>11, <1>12, SubscriberKept DEF StreamInv

\* An empty scan, and the look at the latest id after it.
LEMMA SkipKeeps ==
    ASSUME TypeOK, TypeOK', Grows, StreamInv, BuildNothing \/ SkipToLatest
    PROVE  StreamInv'
<1>1. /\ UNCHANGED <<events, replay, latest_seq_id, client>>
      /\ producer.pc \in {"tick", "skip"} /\ producer'.pc \in {"tick", "skip"}
      /\ producer'.delta = producer.delta
      /\ excused' = excused \cup TxIds(producer.after + 1, producer'.after)
      /\ producer.after <= producer'.after /\ producer'.after <= Len(events)
  <2>1. producer.after \in Nat /\ Len(events) \in Nat /\ producer.after <= Len(events)
    BY TxFacts DEF TypeOK, StreamInv, ProducerInv
  <2>2. CASE BuildNothing
    <3>1. TxIds(producer.after + 1, producer.after) = {}
      BY <2>1, TxFacts
    <3>2. producer'.after = producer.after
      BY <2>2 DEF BuildNothing, TypeOK
    <3>3. QED
      BY <2>1, <2>2, <3>1, <3>2 DEF BuildNothing, TypeOK
  <2>3. CASE SkipToLatest
    <3>1. producer'.after = Len(events)
      BY <2>1, <2>3 DEF SkipToLatest, MaxOf, TypeOK
    <3>2. QED
      BY <2>1, <2>3, <3>1 DEF SkipToLatest, TypeOK
  <2>4. QED
    BY <2>2, <2>3
<1>2. /\ Tx' = Tx /\ LastSeq' = LastSeq /\ excused \subseteq excused'
      /\ producer.after \in Nat /\ producer'.after \in Nat
  BY <1>1 DEF Tx, LastSeq, TypeOK
<1>3. Sent = producer.after /\ Sent' = producer'.after /\ ~Publishing /\ ~Publishing'
  BY <1>1 DEF Sent, Publishing
<1>4. ASSUME NEW x \in Tx, producer.after < x, x <= producer'.after
      PROVE  x \in excused'
  <2>1. x \in Nat
    BY TxFacts
  <2>2. x \in TxIds(producer.after + 1, producer'.after)
    BY <1>2, <1>4, <2>1, TxFacts
  <2>3. QED
    BY <1>1, <2>2
<1>5. ProducerInv'
  <2>1. LastSeq <= producer.after /\ Told(LastSeq, producer.after, excused)
        /\ latest_seq_id = LastSeq
    BY <1>1, <1>3 DEF StreamInv, ProducerInv
  <2>2. LastSeq \in Nat /\ Tx \subseteq Nat
    BY TxFacts, Positions DEF StreamInv
  <2>3. LastSeq' <= Sent'
    BY <1>1, <1>2, <1>3, <2>1, <2>2
  <2>4. ASSUME NEW x \in Tx, LastSeq < x, x <= producer'.after
        PROVE  x \in excused'
    BY <1>2, <1>4, <2>1, <2>2, <2>4 DEF Told
  <2>5. LastSeq' <= Sent' /\ Told(LastSeq, Sent, excused)'
    BY <1>2, <1>3, <2>3, <2>4 DEF Told
  <2>6. QED
    BY <1>1, <1>2, <1>3, <2>1, <2>5 DEF ProducerInv
<1>6. WindowInv'
  BY <1>1, <1>2, WindowKept DEF StreamInv
<1>7. CaughtUp'
  <2>1. StreamEnd' = StreamEnd
    BY <1>1 DEF StreamEnd, PendingEnd
  <2>2. Tx \subseteq Nat
    BY TxFacts
  <2>3. Covered \subseteq Covered' /\ excused' \subseteq Covered'
    BY <1>1, <1>2, CoveredGrows DEF Covered
  <2>4. QED
    BY <1>1, <1>2, <1>3, <1>4, <2>1, <2>2, <2>3 DEF StreamInv, CaughtUp, Told, Subscribed
<1>8. latest_seq_id <= latest_seq_id'
  BY <1>1 DEF TypeOK
<1>9. QED
  BY <1>1, <1>2, <1>5, <1>6, <1>7, <1>8, SubscriberKept DEF StreamInv

\* The watermark moves to the delta that is being published.
LEMMA PublishWatermarkKeeps ==
    ASSUME TypeOK, TypeOK', Grows, StreamInv, PublishWatermark
    PROVE  StreamInv'
<1>1. /\ UNCHANGED <<events, replay, client, excused>>
      /\ producer.pc = "watermark" /\ producer'.pc = "replay"
      /\ producer'.delta = producer.delta /\ producer'.after = producer.after
      /\ latest_seq_id' = MaxOf(latest_seq_id, producer.delta.seq)
  BY DEF PublishWatermark, TypeOK
<1>2. /\ Tx' = Tx /\ LastSeq' = LastSeq /\ Sent = producer.delta.since /\ Sent' = Sent
      /\ Publishing /\ Publishing'
  BY <1>1 DEF Tx, LastSeq, Sent, Publishing
<1>3. /\ LastSeq \in Nat /\ LastSeq <= producer.delta.since /\ latest_seq_id = LastSeq
      /\ producer.delta.since \in Nat /\ producer.delta.seq \in Nat
      /\ producer.delta.since < producer.delta.seq
  BY <1>1, <1>2, Positions DEF StreamInv, ProducerInv, TypeOK, DeltaType
<1>4. latest_seq_id' = producer.delta.seq /\ latest_seq_id <= latest_seq_id'
  BY <1>1, <1>3 DEF MaxOf
<1>5. ProducerInv'
  BY <1>1, <1>2, <1>4 DEF StreamInv, ProducerInv, Told, Sound
<1>6. WindowInv'
  BY <1>1, WindowKept DEF StreamInv
<1>7. CaughtUp'
  BY <1>1, <1>2, CaughtUpKept DEF StreamInv
<1>8. QED
  BY <1>1, <1>4, <1>5, <1>6, <1>7, SubscriberKept DEF StreamInv

\* What the window is without its oldest delta, when it is full.
LEMMA TrimmedWindow ==
    ASSUME TypeOK, NEW w \in Seq(DeltaType), NEW k \in {0, 1},
           Len(w) = Len(replay) - k, \A i \in 1..Len(w) : w[i] = replay[i + k],
           NEW d \in DeltaType, replay' = Append(w, d)
    PROVE  /\ Len(replay') = Len(replay) - k + 1 /\ Len(replay) - k \in Nat
           /\ \A i \in 1..(Len(replay) - k) : replay'[i] = replay[i + k]
           /\ replay'[Len(replay')] = d
<1>1. Len(w) \in Nat
  BY LenProperties
<1>2. /\ Len(replay') = Len(w) + 1 /\ replay'[Len(w) + 1] = d
      /\ \A i \in 1..Len(w) : replay'[i] = w[i]
  BY AppendProperties
<1>3. QED
  BY <1>1, <1>2

\* The delta follows on the last one of the window.
LEMMA PushReplayKeeps ==
    ASSUME TypeOK, TypeOK', Grows, StreamInv, PushReplay
    PROVE  StreamInv'
<1> DEFINE d == producer.delta
           n == Len(replay)
<1>1. /\ UNCHANGED <<events, latest_seq_id, client, excused>>
      /\ producer.pc = "replay" /\ producer'.pc = "send"
      /\ producer'.delta = d /\ producer'.after = producer.after
  BY DEF PushReplay, TypeOK
<1>2. /\ Tx' = Tx /\ Sent = d.since /\ Sent' = Sent /\ Publishing /\ Publishing'
  BY <1>1 DEF Tx, Sent, Publishing
<1>3. /\ Sound(d) /\ LastSeq <= d.since /\ d.since < d.seq /\ d.seq = producer.after
      /\ Told(LastSeq, d.since, excused) /\ latest_seq_id = d.seq
      /\ producer.after <= Len(events)
      /\ d.has_gap \/ Told(d.since, d.seq, d.txs \cup excused)
  BY <1>1, <1>2 DEF StreamInv, ProducerInv
<1>4. /\ LastSeq \in Nat /\ d.since \in Nat /\ d.seq \in Nat /\ d \in DeltaType /\ Tx \subseteq Nat
      /\ n \in Nat /\ \A i \in 1..n : replay[i].seq \in Nat
  BY Positions, TxFacts, ElementTypes DEF TypeOK, DeltaType, Elements, StreamInv
<1>5. PICK k \in {0, 1} :
        /\ Len(replay') = n - k + 1 /\ n - k \in Nat
        /\ \A i \in 1..(n - k) : replay'[i] = replay[i + k]
        /\ replay'[Len(replay')] = d
  <2>1. CASE n >= ReplayCapacity
    <3>1. replay # <<>>
      BY <2>1, EmptySeq, StreamAssumption
    <3>2. /\ Tail(replay) \in Seq(DeltaType) /\ Len(Tail(replay)) = n - 1
          /\ \A i \in 1..(n - 1) : Tail(replay)[i] = replay[i + 1]
      BY <3>1, HeadTail DEF TypeOK
    <3>3. replay' = Append(Tail(replay), d)
      BY <2>1 DEF PushReplay
    <3>4. QED
      BY <1>4, <3>2, <3>3, TrimmedWindow
  <2>2. CASE ~(n >= ReplayCapacity)
    <3>1. replay' = Append(replay, d)
      BY <2>2 DEF PushReplay
    <3>2. replay \in Seq(DeltaType) /\ n = n - 0 /\ \A i \in 1..n : replay[i] = replay[i + 0]
      <4>1. n - 0 = n /\ \A i \in 1..n : i + 0 = i
        <5> HIDE DEF n
        <5>1. QED
          BY <1>4
      <4>2. QED
        BY <4>1 DEF TypeOK
    <3>3. QED
      BY <1>4, <3>1, <3>2, TrimmedWindow
  <2>3. QED
    BY <2>1, <2>2
<1>6. replay' # <<>> /\ LastSeq' = d.seq
  BY <1>5, EmptySeq DEF LastSeq
<1>7. /\ k \in Nat /\ Len(replay') = n - k + 1
      /\ \A i \in 1..(n - k) : i + k \in 1..n /\ replay'[i] = replay[i + k]
      /\ \A i \in 1..Len(replay') : i \in 1..(n - k) \/ (i = n - k + 1 /\ replay'[i] = d)
  BY <1>4, <1>5
<1> HIDE DEF n
<1> HIDE DEF d
<1>8. ProducerInv'
  BY <1>1, <1>2, <1>3, <1>6 DEF ProducerInv, Told, Sound, d
<1>9. \A i \in 1..n : replay[i].seq <= LastSeq
  BY <1>4 DEF LastSeq, StreamInv, WindowInv, n
<1>10. WindowInv'
  <2>1. ASSUME NEW i \in 1..Len(replay')
        PROVE  Sound(replay[i])'
    <3>1. \A j \in 1..n : Sound(replay[j])
      BY DEF StreamInv, WindowInv, n
    <3>2. Sound(replay'[i])
      BY <1>3, <1>7, <3>1
    <3>3. QED
      BY <1>1, <1>2, <3>2 DEF Sound
  <2>2. ASSUME NEW i \in 1..Len(replay'), NEW j \in 1..Len(replay'), i < j
        PROVE  replay'[i].seq < replay'[j].seq
    <3>1. CASE j \in 1..(n - k)
      <4>1. /\ i \in 1..(n - k) /\ i + k \in 1..n /\ j + k \in 1..n /\ i + k < j + k
            /\ replay'[i] = replay[i + k] /\ replay'[j] = replay[j + k]
        BY <1>4, <1>7, <2>2, <3>1
      <4>2. QED
        BY <4>1 DEF StreamInv, WindowInv, n
    <3>2. CASE j = n - k + 1
      <4>1. replay'[i].seq <= LastSeq /\ replay'[i].seq \in Nat
        BY <1>4, <1>9, <1>7, <2>2, <3>2
      <4>2. QED
        BY <1>3, <1>4, <1>7, <3>2, <4>1
    <3>3. QED
      BY <1>7, <3>1, <3>2
  <2>3. ASSUME NEW i \in 1..Len(replay'), NEW j \in 1..Len(replay'), j = i + 1,
               ~replay'[j].has_gap, NEW x \in Tx, replay'[i].seq < x, x <= replay'[j].seq
        PROVE  x \in replay'[j].txs \cup excused
    <3>1. CASE j \in 1..(n - k)
      <4>1. /\ i \in 1..(n - k) /\ i + k \in 1..n /\ j + k \in 1..n /\ j + k = (i + k) + 1
            /\ replay'[i] = replay[i + k] /\ replay'[j] = replay[j + k]
        <5>1. i \in 1..(n - k) /\ i \in Nat /\ k \in Nat
          BY <1>4, <1>7, <2>3, <3>1
        <5>2. j + k = (i + k) + 1
          BY <2>3, <5>1
        <5>3. QED
          BY <1>7, <3>1, <5>1, <5>2
      <4>2. QED
        BY <2>3, <4>1 DEF StreamInv, WindowInv, Told, n
    <3>2. CASE j = n - k + 1
      <4>1. replay'[i].seq = LastSeq /\ replay'[j] = d
        <5>1. i \in 1..(n - k) /\ i + k = n /\ replay'[j] = d
          BY <1>4, <1>7, <2>3, <3>2
        <5>2. replay'[i] = replay[n] /\ replay # <<>>
          BY <1>4, <1>7, <5>1, EmptySeq DEF n
        <5>3. QED
          BY <5>1, <5>2 DEF LastSeq, n
      <4>2. QED
        BY <1>3, <1>4, <2>3, <4>1 DEF Told
    <3>3. QED
      BY <1>7, <3>1, <3>2
  <2>4. QED
    BY <1>1, <1>2, <2>1, <2>2, <2>3 DEF WindowInv, Told
<1>11. CaughtUp'
  BY <1>1, <1>2, CaughtUpKept DEF StreamInv
<1>12. latest_seq_id <= latest_seq_id'
  BY <1>1 DEF TypeOK
<1>13. QED
  BY <1>1, <1>8, <1>10, <1>11, <1>12, SubscriberKept DEF StreamInv

\* A broadcast to a receiver: its queue without the oldest k deltas, and the new one.
LEMMA QueueGrows ==
    ASSUME TypeOK, TypeOK', Grows, StreamInv, UNCHANGED <<events, latest_seq_id>>,
           excused \subseteq excused', Subscribed, producer.pc = "send",
           NEW k \in Nat, NEW n, n = Len(client.queue), k <= n,
           client'.pc = client.pc, client'.resync = client.resync,
           client'.pending = client.pending, client'.cursor = client.cursor,
           client'.known = client.known, k = 0 => client'.lagged = client.lagged,
           k # 0 => client'.lagged,
           Len(client'.queue) = n - k + 1,
           \A i \in 1..(n - k) : client'.queue[i] = client.queue[i + k],
           client'.queue[n - k + 1] = producer.delta
    PROVE  QueueInv' /\ StreamEnd' = producer.delta.seq
<1> DEFINE d == producer.delta
           q == client.queue
           p == client'.queue
<1>1. Tx' = Tx /\ Covered \subseteq Covered' /\ PendingEnd' = PendingEnd
  BY CoveredGrows DEF Tx, PendingEnd
<1>2. n \in Nat /\ n - k \in Nat /\ \A i \in 1..n : q[i].seq \in Nat
  BY ElementTypes DEF Elements, DeltaType
<1>3. /\ \A i \in 1..(n - k) : i + k \in 1..n /\ p[i] = q[i + k]
      /\ \A i \in 1..Len(p) : i \in 1..(n - k) \/ (i = n - k + 1 /\ p[i] = d)
  <2>1. /\ \A i \in 1..(n - k) : p[i] = q[i + k]
        /\ Len(p) = n - k + 1 /\ p[n - k + 1] = d
    OBVIOUS
  <2>2. \A i \in 1..(n - k) : i + k \in 1..n
    BY <1>2
  <2> HIDE DEF p, q, d
  <2>3. PICK m \in Nat : m = n - k
    BY <1>2
  <2>4. \A i \in 1..Len(p) : i \in 1..m \/ (i = m + 1 /\ p[i] = d)
    <3>1. Len(p) = m + 1 /\ p[m + 1] = d
      BY <2>1, <2>3
    <3>2. QED
      BY <3>1
  <2>5. QED
    BY <2>1, <2>2, <2>3, <2>4
<1>4. /\ Sound(d) /\ d.since \in Nat /\ d.seq \in Nat /\ Sent = d.since
      /\ d.has_gap \/ Told(d.since, d.seq, d.txs \cup excused)
      /\ d.seq <= latest_seq_id
  <2>1. Publishing /\ Sent = d.since
    BY DEF Publishing, Sent
  <2>2. d \in DeltaType
    BY DEF TypeOK
  <2>3. d.since \in Nat /\ d.seq \in Nat
    BY <2>2 DEF DeltaType
  <2>4. /\ Sound(d) /\ latest_seq_id = d.seq
        /\ d.has_gap \/ Told(d.since, d.seq, d.txs \cup excused)
    BY <2>1 DEF StreamInv, ProducerInv
  <2>5. QED
    BY <2>1, <2>3, <2>4
<1>5. Fits(StreamEnd, Delta(d))
  <2> SUFFICES ASSUME ~d.has_gap, NEW x \in Tx, StreamEnd < x, x <= d.seq
               PROVE  x \in d.txs \cup Covered
    BY DEF Fits, Told, Delta
  <2>1. x \in Nat
    BY TxFacts
  <2>2. CASE x <= d.since
    BY <1>4, <2>2 DEF StreamInv, CaughtUp, Told
  <2>3. CASE d.since < x
    BY <1>4, <2>3 DEF Told, Covered
  <2>4. QED
    BY <1>4, <2>1, <2>2, <2>3
<1>6. q # <<>> <=> n >= 1
  BY <1>2, EmptySeq, ElementTypes DEF Elements
<1>7. StreamEnd' = d.seq
  <2>1. client'.queue # <<>>
    BY <1>2, EmptySeq
  <2>2. QED
    BY <2>1 DEF StreamEnd
<1> HIDE DEF d
<1>8. \A i \in 1..Len(p) : Sound(p[i]) /\ p[i].seq <= latest_seq_id
  BY <1>3, <1>4 DEF StreamInv, QueueInv
<1>9. ~client'.lagged /\ client.pc # "lag" => Fits(PendingEnd, Delta(p[1]))
  <2> SUFFICES ASSUME ~client'.lagged, client.pc # "lag" PROVE Fits(PendingEnd, Delta(p[1]))
    OBVIOUS
  <2>1. k = 0 /\ ~client.lagged
    OBVIOUS
  <2>2. CASE n = 0
    BY <1>2, <1>3, <1>5, <1>6, <2>1, <2>2 DEF StreamEnd
  <2>3. CASE n >= 1
    <3>1. p[1] = q[1]
      BY <1>2, <1>3, <2>1, <2>3
    <3>2. QED
      BY <1>6, <2>1, <2>3, <3>1 DEF StreamInv, QueueInv
  <2>4. QED
    BY <1>2, <2>2, <2>3
<1>10. ASSUME NEW i \in 1..Len(p), NEW j \in 1..Len(p), j = i + 1
       PROVE  Fits(p[i].seq, Delta(p[j]))
  <2>1. i \in 1..(n - k) /\ p[i] = q[i + k] /\ i + k \in 1..n
    BY <1>2, <1>3, <1>10
  <2>2. CASE j \in 1..(n - k)
    <3>1. j + k = (i + k) + 1 /\ p[j] = q[j + k] /\ j + k \in 1..n
      <4>1. i \in Nat /\ k \in Nat
        BY <1>2, <2>1
      <4>2. j + k = (i + k) + 1
        BY <1>10, <4>1
      <4>3. QED
        BY <1>3, <2>2, <4>2
    <3>2. QED
      BY <2>1, <3>1 DEF StreamInv, QueueInv
  <2>3. CASE j = n - k + 1 /\ p[j] = d
    <3>1. i + k = n
      BY <1>2, <1>10, <2>3
    <3>2. StreamEnd = p[i].seq
      BY <1>6, <2>1, <3>1 DEF StreamEnd
    <3>3. QED
      BY <1>5, <2>3, <3>2
  <2>4. QED
    BY <1>3, <2>2, <2>3
<1>11. QueueInv'
  <2>1. \A i \in 1..Len(p) : Sound(client.queue[i])' /\ p[i].seq <= latest_seq_id'
    BY <1>1, <1>8 DEF Sound
  <2>2. ~client'.lagged /\ client.pc # "lag" => Fits(PendingEnd, Delta(client.queue[1]))'
    BY <1>1, <1>9, FitsMore DEF Fits, Told
  <2>3. \A i, j \in 1..Len(p) : j = i + 1 => Fits(client.queue[i].seq, Delta(client.queue[j]))'
    BY <1>1, <1>10, FitsMore DEF Fits, Told
  <2>4. QED
    BY <2>1, <2>2, <2>3 DEF QueueInv
<1>12. QED
  BY <1>7, <1>11 DEF d

\* The broadcast: the delta is queued, in the copied window, or excused.
LEMMA BroadcastSendKeeps ==
    ASSUME TypeOK, TypeOK', Grows, StreamInv, BroadcastSend
    PROVE  StreamInv'
<1> DEFINE d == producer.delta
<1>1. /\ UNCHANGED <<events, replay, latest_seq_id>>
      /\ producer.pc = "send" /\ producer'.pc = "tick" /\ producer'.after = producer.after
      /\ client.pc = "beat" \/ (client.pc = "copied" /\ ~InPending(d)) =>
           excused' = excused \cup Subject(d)
      /\ excused' \in {excused, excused \cup Subject(d)}
  BY DEF BroadcastSend, TypeOK
<1>2. /\ Tx' = Tx /\ LastSeq' = LastSeq /\ Sent = d.since /\ Sent' = producer.after
      /\ Publishing /\ ~Publishing' /\ excused \subseteq excused'
  BY <1>1 DEF Tx, LastSeq, Sent, Publishing
<1>3. /\ LastSeq = d.seq /\ d.seq = producer.after /\ latest_seq_id = d.seq
      /\ d.seq \in Nat /\ d.since \in Nat /\ producer.after <= Len(events) /\ Tx \subseteq Nat
  BY <1>1, <1>2, TxFacts DEF StreamInv, ProducerInv, TypeOK, DeltaType
<1>4. ProducerInv'
  BY <1>1, <1>2, <1>3 DEF ProducerInv, Told
<1>5. WindowInv'
  BY <1>1, <1>2, WindowKept DEF StreamInv
<1>6. CASE ~Subscribed
  <2>1. client' = client /\ latest_seq_id <= latest_seq_id'
    <3>1. client' = client
      BY <1>6, ReceiverGets
    <3>2. QED
      BY <1>1, <3>1 DEF TypeOK
  <2>2. CaughtUp'
    <3> SUFFICES ASSUME client.pc = "copied", NEW x \in Tx, StreamEnd < x, x <= d.seq
                 PROVE  x \in Covered'
      <4>1. StreamEnd' = StreamEnd
        BY <2>1 DEF StreamEnd, PendingEnd
      <4>2. QED
        BY <1>2, <1>3, <1>6, <2>1, <4>1 DEF CaughtUp, Told, Subscribed
    <3>0. Covered \subseteq Covered' /\ excused' \subseteq Covered'
      BY <1>2, <2>1, CoveredGrows DEF Covered
    <3>1. CASE x <= d.since
      BY <1>2, <3>0, <3>1 DEF StreamInv, CaughtUp, Told
    <3>2. CASE d.since < x /\ ~InPending(d)
      <4>1. x \in Subject(d)
        BY <1>3, <3>2, TxFacts DEF Subject
      <4>2. QED
        BY <1>1, <3>0, <3>2, <4>1
    <3>3. CASE InPending(d)
      <4>1. PICK i \in DOMAIN client.pending :
              client.pending[i].event = "delta" /\ client.pending[i].delta = d
        BY <3>3 DEF InPending
      <4>2. Len(client.pending) \in Nat /\ i \in 1..Len(client.pending)
        BY LenProperties DEF TypeOK
      <4>3. client.pending # <<>> /\ client.pending[Len(client.pending)].id \in Nat
        BY <4>2, EmptySeq, ElementTypes DEF Elements, FrameType
      <4>4. client.queue = <<>> /\ StreamEnd = client.pending[Len(client.pending)].id
        BY <1>6, <4>3 DEF StreamInv, ClientInv, StreamEnd, PendingEnd
      <4>5. client.pending[i].id = d.seq
        BY <4>1, <4>2 DEF StreamInv, PendingInv, SoundFrame
      <4>6. d.seq <= StreamEnd
        BY <1>3, <4>2, <4>4, <4>5 DEF StreamInv, PendingInv
      <4>7. QED
        BY <1>3, <4>3, <4>4, <4>6
    <3>4. QED
      BY <1>3, <3>1, <3>2, <3>3
  <2>3. QED
    BY <1>2, <1>4, <1>5, <2>1, <2>2, SubscriberKept DEF StreamInv
<1>7. CASE Subscribed
  <2> DEFINE n == Len(client.queue)
             q == Append(client.queue, d)
  <2>2. /\ n \in Nat /\ q \in Seq(DeltaType) /\ Len(q) = n + 1 /\ q[n + 1] = d
        /\ \A i \in 1..n : q[i] = client.queue[i]
    BY AppendProperties, LenProperties DEF TypeOK
  <2>3. PICK k \in {0, 1} :
          /\ k <= n
          /\ client'.pc = client.pc /\ client'.pending = client.pending
          /\ client'.resync = client.resync
          /\ client'.cursor = client.cursor /\ client'.known = client.known
          /\ k = 0 => client'.lagged = client.lagged
          /\ k # 0 => client'.lagged
          /\ Len(client'.queue) = n - k + 1
          /\ \A i \in 1..(n - k) : client'.queue[i] = client.queue[i + k]
          /\ client'.queue[n - k + 1] = d
    <3>1. CASE client' = [client EXCEPT !.queue = q]
      <4> HIDE DEF q, n, d
      <4>2. client'.queue = q /\ UNCHANGED <<client.pc, client.pending, client.cursor,
                                              client.known, client.resync, client.lagged>>
        BY <3>1 DEF TypeOK
      <4>3. n - 0 = n /\ \A i \in 1..n : i + 0 = i
        BY <2>2
      <4>4. QED
        BY <2>2, <4>2, <4>3
    <3>2. CASE /\ Len(q) > ChannelCapacity
               /\ client' = [client EXCEPT !.queue = Tail(q), !.lagged = TRUE]
      <4>2. n >= 1
        BY <2>2, <3>2, StreamAssumption
      <4>3. q # <<>>
        BY <2>2, EmptySeq
      <4> HIDE DEF q, n, d
      <4>4. Len(Tail(q)) = n /\ \A i \in 1..n : Tail(q)[i] = q[i + 1]
        BY <2>2, <4>3, HeadTail
      <4>5. /\ client'.queue = Tail(q) /\ client'.lagged
            /\ UNCHANGED <<client.pc, client.pending, client.cursor, client.known,
                           client.resync>>
        BY <3>2 DEF TypeOK
      <4>6. /\ Tail(q)[n] = d /\ n - 1 + 1 = n
            /\ \A i \in 1..(n - 1) : Tail(q)[i] = client.queue[i + 1]
        BY <2>2, <4>2, <4>4
      <4>7. /\ Len(client'.queue) = n - 1 + 1 /\ client'.queue[n - 1 + 1] = d
            /\ \A i \in 1..(n - 1) : client'.queue[i] = client.queue[i + 1]
        BY <4>4, <4>5, <4>6
      <4>8. 1 \in {0, 1} /\ 1 # 0 /\ 1 <= n
        BY <2>2, <4>2
      <4>9. QED
        BY <4>5, <4>7, <4>8, Zenon
    <3>3. QED
      BY <1>7, <3>1, <3>2, ReceiverGets
  <2>4. k \in Nat
    OBVIOUS
  <2>5. QueueInv' /\ StreamEnd' = d.seq
    BY <1>1, <1>2, <1>7, <2>3, <2>4, QueueGrows
  <2>6. Covered \subseteq Covered' /\ excused' \subseteq Covered'
    BY <1>2, <2>3, CoveredGrows DEF Covered
  <2>7. PendingInv'
    BY <2>3, <2>6, PendingKept DEF StreamInv
  <2>8. ClientInv'
    BY <1>1, <1>2, <1>7, <2>3, <2>6 DEF StreamInv, ClientInv, Told, Subscribed
  <2>9. CaughtUp'
    <3>1. Told(StreamEnd, Sent, Covered)'
      BY <1>2, <1>3, <2>5 DEF Told
    <3>2. ASSUME client.pc = "beat", NEW x \in Tx, client.cursor < x, x <= d.seq
          PROVE  x \in Covered'
      <4>1. CASE x <= d.since
        BY <1>2, <2>6, <3>2, <4>1 DEF StreamInv, CaughtUp, Told
      <4>2. CASE d.since < x
        <5>1. x \in Subject(d)
          BY <1>3, <3>2, <4>2, TxFacts DEF Subject
        <5>2. QED
          BY <1>1, <2>6, <3>2, <5>1
      <4>3. QED
        BY <1>3, <4>1, <4>2
    <3>3. QED
      BY <1>2, <1>3, <2>3, <3>1, <3>2 DEF CaughtUp, Told
  <2>10. QED
    BY <1>4, <1>5, <2>5, <2>7, <2>8, <2>9 DEF StreamInv
<1>8. QED
  BY <1>6, <1>7
----------------------------------------------------------------------------
(* The subscriber *)

\* A new event is after everything anyone has been told.
LEMMA StoreEventKeeps ==
    ASSUME TypeOK, TypeOK', Grows, StreamInv, StoreEvent
    PROVE  StreamInv'
<1>1. UNCHANGED <<producer, replay, latest_seq_id, client, excused>>
  BY DEF StoreEvent
<1>2. Sent' = Sent
  BY <1>1 DEF Sent, Publishing
<1>3. latest_seq_id <= latest_seq_id'
  BY <1>1 DEF TypeOK
<1>4. QED
  BY <1>1, <1>2, <1>3, ProducerKept, WindowKept, SubscriberKept, CaughtUpKept DEF StreamInv

\* A step of the subscriber leaves the producer and the window alone.
LEMMA ServerKept ==
    ASSUME TypeOK, TypeOK', Grows, StreamInv,
           UNCHANGED <<events, producer, replay, latest_seq_id>>, excused \subseteq excused'
    PROVE  ProducerInv' /\ WindowInv' /\ Tx' = Tx /\ Sent' = Sent
<1>1. ProducerInv'
  BY ProducerKept DEF StreamInv
<1>2. WindowInv'
  BY WindowKept DEF StreamInv
<1>3. QED
  BY <1>1, <1>2 DEF Tx, Sent, Publishing

\* With nothing on its way, a stream is in order.
LEMMA NothingPending ==
    ASSUME client'.pending = <<>>
    PROVE  PendingInv'
BY EmptySeq DEF PendingInv

\* And with nothing queued.
LEMMA NothingQueued ==
    ASSUME client'.queue = <<>>
    PROVE  QueueInv'
BY EmptySeq DEF QueueInv

\* Without a connection: the snapshot at the start, and a lost connection.
LEMMA OffKeeps ==
    ASSUME TypeOK, TypeOK', Grows, StreamInv, Bootstrap \/ Disconnect
    PROVE  StreamInv'
<1>1. /\ UNCHANGED <<events, producer, replay, latest_seq_id>> /\ excused \subseteq excused'
      /\ client'.pc = "off" /\ client'.pending = <<>> /\ client'.queue = <<>>
  BY DEF Bootstrap, Disconnect, TypeOK, StreamInv, ClientInv, Subscribed
<1>2. ProducerInv' /\ WindowInv' /\ Tx' = Tx
  BY <1>1, ServerKept
<1>3. ClientInv'
  <2>1. CASE Bootstrap
    <3>1. /\ client'.cursor = Len(events) /\ client'.known = Snapshot
          /\ excused' = excused \cup (Tx \ Snapshot)
      BY <2>1, SnapshotShows DEF Bootstrap, TypeOK
    <3>2. client'.known \subseteq Tx /\ Tx \subseteq Covered'
      BY <3>1, SnapshotShows DEF Covered
    <3>3. QED
      BY <1>1, <1>2, <3>1, <3>2, TxFacts DEF ClientInv, Told
  <2>2. CASE Disconnect
    <3>1. UNCHANGED <<client.cursor, client.known, client.resync>> /\ client.pc # "new"
      BY <2>2 DEF Disconnect, TypeOK, Subscribed
    <3>2. Covered \subseteq Covered'
      BY <1>1, <3>1, CoveredGrows
    <3>3. QED
      BY <1>1, <1>2, <3>1, <3>2 DEF StreamInv, ClientInv, Told
  <2>3. QED
    BY <2>1, <2>2
<1>4. CaughtUp'
  BY <1>1 DEF CaughtUp, Subscribed
<1>5. QED
  BY <1>1, <1>2, <1>3, <1>4, NothingPending, NothingQueued DEF StreamInv

\* The snapshot a reset asked for: it tells what is due, but for what it is too short
\* for.
LEMMA ResyncKeeps ==
    ASSUME TypeOK, TypeOK', Grows, StreamInv, Resync
    PROVE  StreamInv'
<1>1. /\ UNCHANGED <<events, producer, replay, latest_seq_id>> /\ excused \subseteq excused'
      /\ UNCHANGED <<client.pc, client.cursor, client.pending, client.queue, client.lagged>>
      /\ client'.known = client.known \cup Snapshot
      /\ excused' = excused \cup (TxIds(1, client.resync) \ Snapshot)
      /\ latest_seq_id <= latest_seq_id'
  BY DEF Resync, TypeOK
<1>2. ProducerInv' /\ WindowInv' /\ Tx' = Tx /\ Sent' = Sent
  BY <1>1, ServerKept
<1>3. Due \subseteq TxIds(1, client.resync)
  BY TxFacts DEF Due, TypeOK
<1>4. Covered \subseteq Covered'
  BY <1>1, <1>3 DEF Covered
<1>5. ClientInv'
  BY <1>1, <1>2, <1>4, SnapshotShows DEF StreamInv, ClientInv, Told, Subscribed
<1>6. PendingInv'
  BY <1>1, <1>4, PendingKept DEF StreamInv
<1>7. QueueInv'
  BY <1>1, <1>4, QueueKept DEF StreamInv
<1>8. CaughtUp'
  <2>1. StreamEnd' = StreamEnd
    BY <1>1 DEF StreamEnd, PendingEnd
  <2>2. QED
    BY <1>1, <1>2, <1>4, <2>1 DEF StreamInv, CaughtUp, Told, Subscribed
<1>9. QED
  BY <1>2, <1>5, <1>6, <1>7, <1>8 DEF StreamInv

\* The receiver reports that it lagged, or the heartbeat's time is over.
LEMMA WakeKeeps ==
    ASSUME TypeOK, TypeOK', Grows, StreamInv, ReceiveLagged \/ HeartbeatFires
    PROVE  StreamInv'
<1>1. /\ UNCHANGED <<events, producer, replay, latest_seq_id, excused>>
      /\ UNCHANGED <<client.cursor, client.pending, client.queue, client.known,
                     client.resync>>
      /\ client.pc = "on" /\ client.pending = <<>>
      /\ \/ client'.pc = "lag"
         \/ client'.pc = "beat" /\ client.queue = <<>>
  BY DEF ReceiveLagged, HeartbeatFires, TypeOK
<1>2. ProducerInv' /\ WindowInv' /\ Tx' = Tx /\ Sent' = Sent
  BY <1>1, ServerKept
<1>3. /\ Covered' = Covered /\ PendingEnd' = PendingEnd /\ StreamEnd' = StreamEnd
      /\ client.queue = <<>> => StreamEnd = client.cursor
  BY <1>1, <1>2 DEF Covered, Due, PendingEnd, StreamEnd
<1>4. ClientInv'
  BY <1>1, <1>2, <1>3 DEF StreamInv, ClientInv, Told, Subscribed
<1>5. QueueInv'
  <2>1. CASE client'.pc = "lag"
    BY <1>1, <1>2, <1>3, <2>1 DEF StreamInv, QueueInv, Sound, Fits, Told
  <2>2. CASE client.queue = <<>>
    BY <1>1, <2>2, NothingQueued
  <2>3. QED
    BY <1>1, <2>1, <2>2
<1>6. CaughtUp'
  BY <1>1, <1>2, <1>3 DEF StreamInv, CaughtUp, Told, Subscribed
<1>7. QED
  BY <1>1, <1>2, <1>4, <1>5, <1>6, NothingPending DEF StreamInv

\* The receiver starts empty after the copied window.
LEMMA SubscribeKeeps ==
    ASSUME TypeOK, TypeOK', Grows, StreamInv, Subscribe
    PROVE  StreamInv'
<1>1. /\ UNCHANGED <<events, producer, replay, latest_seq_id, excused>>
      /\ client.pc = "copied" /\ client'.pc = "on" /\ client'.queue = <<>>
      /\ UNCHANGED <<client.pending, client.cursor, client.known, client.resync>>
  BY DEF Subscribe, TypeOK
<1>2. ProducerInv' /\ WindowInv' /\ Tx' = Tx /\ Sent' = Sent
  BY <1>1, ServerKept
<1>3. client.queue = <<>> /\ StreamEnd' = StreamEnd /\ Covered' = Covered
  BY <1>1, <1>2 DEF StreamInv, ClientInv, StreamEnd, PendingEnd, Covered, Due, Subscribed
<1>4. ClientInv'
  BY <1>1, <1>2, <1>3 DEF StreamInv, ClientInv, Told, Subscribed
<1>5. PendingInv'
  BY <1>1, <1>3, PendingKept DEF StreamInv
<1>6. CaughtUp'
  BY <1>1, <1>2, <1>3 DEF StreamInv, CaughtUp, Told
<1>7. QED
  BY <1>1, <1>2, <1>4, <1>5, <1>6, NothingQueued DEF StreamInv

\* Whoever has been told everything up to the window's end or up to the watermark
\* has been told everything that was sent.
LEMMA SentIsTold ==
    ASSUME TypeOK, StreamInv
    PROVE  /\ LastSeq \in Nat /\ latest_seq_id \in Nat /\ Sent \in Nat
           /\ LastSeq <= latest_seq_id /\ latest_seq_id <= Len(events)
           /\ Told(LastSeq, Sent, excused)
           /\ producer.pc \notin {"replay", "send"} => latest_seq_id <= Sent
           /\ producer.pc \in {"replay", "send"} =>
                latest_seq_id = producer.delta.seq /\ Sent = producer.delta.since
<1>1. /\ LastSeq \in Nat /\ Sent \in Nat /\ latest_seq_id <= Len(events)
      /\ producer.delta.seq \in Nat /\ producer.delta.since \in Nat /\ latest_seq_id \in Nat
      /\ Tx \subseteq Nat
  BY Positions, TxFacts DEF StreamInv, TypeOK, DeltaType
<1>2. CASE producer.pc = "send"
  BY <1>1, <1>2 DEF StreamInv, ProducerInv, Publishing, Sent, Told
<1>3. CASE producer.pc # "send"
  BY <1>1, <1>3 DEF StreamInv, ProducerInv, Publishing, Sent
<1>4. QED
  BY <1>2, <1>3

\* A cursor at the watermark is ahead of every delta queued and of what was sent.
LEMMA CursorAtWatermark ==
    ASSUME TypeOK, TypeOK', StreamInv, UNCHANGED <<events, producer, replay, latest_seq_id>>,
           excused \subseteq excused', Covered \subseteq Covered', Subscribed, Sent' = Sent,
           client.pending = <<>>, client'.pc = "on", client'.pending = <<>>,
           client'.queue = client.queue, client'.cursor = latest_seq_id
    PROVE  QueueInv' /\ CaughtUp'
<1> DEFINE q == client.queue
<1>1. Tx' = Tx /\ Tx \subseteq Nat /\ PendingEnd' = latest_seq_id
  BY TxFacts DEF Tx, PendingEnd
<1>2. /\ Len(q) \in Nat /\ \A i \in 1..Len(q) : q[i].seq \in Nat
      /\ q # <<>> => 1 \in 1..Len(q)
  BY ElementTypes DEF Elements, DeltaType
<1>3. \A i \in 1..Len(q) : Sound(q[i])' /\ q[i].seq <= latest_seq_id
  BY <1>1 DEF StreamInv, QueueInv, Sound
<1>4. ASSUME q # <<>>
      PROVE  Fits(PendingEnd, Delta(client.queue[1]))'
  <2>1. q[1].seq <= latest_seq_id /\ q[1].seq \in Nat /\ latest_seq_id \in Nat
    BY <1>2, <1>3, <1>4 DEF TypeOK
  <2>2. \A x \in Tx : ~(latest_seq_id < x /\ x <= q[1].seq)
    BY <1>1, <2>1
  <2>3. QED
    BY <1>1, <2>2 DEF Fits, Told, Delta
<1>5. \A i, j \in 1..Len(q) : j = i + 1 => Fits(client.queue[i].seq, Delta(client.queue[j]))'
  BY <1>1, FitsMore DEF StreamInv, QueueInv, Fits, Told
<1>6. QueueInv'
  BY <1>3, <1>4, <1>5 DEF QueueInv
<1>7. Told(StreamEnd, Sent, Covered)'
  <2>1. CASE q = <<>>
    <3>1. StreamEnd' = latest_seq_id
      BY <1>1, <2>1 DEF StreamEnd
    <3>2. \A x \in Tx : latest_seq_id < x /\ x <= Sent => x \in excused
      BY <1>1, SentIsTold DEF Told
    <3>3. excused \subseteq Covered'
      BY DEF Covered
    <3>4. QED
      BY <1>1, <3>1, <3>2, <3>3 DEF Told
  <2>2. CASE q # <<>>
    <3>1. StreamEnd' = StreamEnd
      BY <2>2 DEF StreamEnd
    <3>2. QED
      BY <1>1, <3>1 DEF StreamInv, CaughtUp, Told
  <2>3. QED
    BY <2>1, <2>2
<1>8. QED
  BY <1>6, <1>7 DEF CaughtUp

\* A keepalive moves the cursor over what was sent and over the deltas it excuses.
LEMMA SendKeepaliveKeeps ==
    ASSUME TypeOK, TypeOK', Grows, StreamInv, SendKeepalive
    PROVE  StreamInv'
<1> DEFINE d == producer.delta
<1>1. /\ UNCHANGED <<events, producer, replay, latest_seq_id>>
      /\ client.pc = "beat" /\ client'.pc = "on" /\ Subscribed
      /\ UNCHANGED <<client.known, client.resync, client.pending, client.queue>>
      /\ client'.cursor = latest_seq_id
      /\ excused' = IF producer.pc \in {"replay", "send"} THEN excused \cup Subject(d)
                    ELSE excused
  BY DEF SendKeepalive, TypeOK, Subscribed
<1>2. excused \subseteq excused' /\ client.pending = <<>> /\ client'.pending = <<>>
  BY <1>1 DEF StreamInv, ClientInv
<1>3. ProducerInv' /\ WindowInv' /\ Tx' = Tx /\ Sent' = Sent
  BY <1>1, <1>2, ServerKept
<1>4. Covered \subseteq Covered' /\ excused' \subseteq Covered'
  BY <1>1, <1>2, CoveredGrows DEF Covered
<1>5. ASSUME NEW x \in Tx, x <= latest_seq_id
      PROVE  x \in Covered'
  <2>1. x \in Nat /\ 0 < x /\ client.cursor \in Nat
    BY TxFacts DEF TypeOK
  <2>2. CASE x <= client.cursor
    BY <1>1, <1>4, <2>1, <2>2 DEF StreamInv, ClientInv, Told
  <2>3. CASE client.cursor < x /\ x <= Sent
    BY <1>1, <1>4, <2>3 DEF StreamInv, CaughtUp, Told
  <2>4. CASE Sent < x
    <3>1. producer.pc \in {"replay", "send"} /\ Sent = d.since /\ latest_seq_id = d.seq
      BY <1>5, <2>1, <2>4, SentIsTold
    <3>2. x \in Subject(d)
      BY <1>5, <2>1, <2>4, <3>1, SentIsTold, TxFacts DEF Subject
    <3>3. QED
      BY <1>1, <1>4, <3>1, <3>2
  <2>5. QED
    BY <2>1, <2>2, <2>3, <2>4, SentIsTold
<1>6. ClientInv'
  BY <1>1, <1>3, <1>5, SentIsTold DEF StreamInv, ClientInv, Told, Subscribed
<1>7. QueueInv' /\ CaughtUp'
  BY <1>1, <1>2, <1>3, <1>4, CursorAtWatermark
<1>8. QED
  BY <1>2, <1>3, <1>6, <1>7, NothingPending DEF StreamInv

\* A frame brings the cursor to its id, and everything up to there has been told.
LEMMA FrameTells ==
    ASSUME TypeOK, Grows, StreamInv, Subscribed, UNCHANGED <<events, excused>>,
           NEW f \in FrameType, SoundFrame(f), Fits(client.cursor, f), NEW rest \in ClientType,
           rest.known = client.known, rest.resync = client.resync, rest.pc = "on",
           Receive(FrameOf(f), rest)
    PROVE  /\ client'.cursor = f.id /\ client'.pc = "on" /\ client'.pending = rest.pending
           /\ client'.queue = rest.queue /\ client'.lagged = rest.lagged
           /\ Covered \subseteq Covered' /\ ClientInv'
<1> DEFINE g == FrameOf(f)
<1>1. g.id = f.id /\ (g.event = "reset" <=> f.event = "reset" \/ f.delta.has_gap)
  BY DEF FrameOf, Reset, FrameType, DeltaType
<1>2. (g.event # "reset" => g = f) /\ g.delta.txs \subseteq f.delta.txs
  BY <1>1 DEF FrameOf, Reset, NoDelta
<1>3. client' = [rest EXCEPT !.cursor = g.id, !.known = @ \cup g.delta.txs,
         !.resync = IF g.event = "reset" THEN MaxOf(@, g.id) ELSE @]
  BY DEF Receive
<1> HIDE DEF g
<1>4. /\ client'.cursor = f.id /\ client'.pc = "on" /\ client'.pending = rest.pending
      /\ client'.queue = rest.queue /\ client'.lagged = rest.lagged
      /\ client'.known = client.known \cup g.delta.txs
      /\ client'.resync = IF g.event = "reset" THEN MaxOf(client.resync, f.id)
                          ELSE client.resync
  BY <1>1, <1>3 DEF ClientType
<1>5. client.known \subseteq Tx /\ f.delta.txs \subseteq Tx /\ f.id <= Len(events)
  BY DEF StreamInv, ClientInv, SoundFrame
<1>6. /\ Tx' = Tx /\ client'.known \subseteq Tx /\ f.id \in Nat /\ client.resync \in Nat
      /\ client'.resync \in Nat /\ client.resync <= client'.resync
      /\ g.event = "reset" => f.id <= client'.resync
  BY <1>2, <1>4, <1>5 DEF Tx, MaxOf, TypeOK, FrameType
<1>7. Covered \subseteq Covered'
  <2>1. Due \subseteq Due'
    BY <1>6, TxFacts DEF Due
  <2>2. QED
    BY <1>4, <2>1 DEF Covered
<1>8. ASSUME NEW x \in Tx, x <= f.id
      PROVE  x \in Covered'
  <2>1. x \in Nat /\ 0 < x /\ client.cursor \in Nat
    BY TxFacts DEF TypeOK
  <2>2. CASE g.event = "reset"
    <3>1. x \in Due'
      BY <1>6, <1>8, <2>1, <2>2 DEF Due
    <3>2. QED
      BY <3>1 DEF Covered
  <2>3. CASE g.event # "reset"
    <3>1. Told(client.cursor, f.id, f.delta.txs \cup Covered) /\ g = f
      BY <1>1, <1>2, <2>3 DEF Fits
    <3>2. client.pc # "new"
      BY DEF Subscribed
    <3>3. x \in f.delta.txs \cup Covered
      BY <1>8, <2>1, <3>1, <3>2 DEF StreamInv, ClientInv, Told
    <3>4. f.delta.txs \subseteq Covered'
      BY <1>4, <3>1 DEF Covered
    <3>5. QED
      BY <1>7, <3>3, <3>4
  <2>4. QED
    BY <2>2, <2>3
<1>9. ClientInv'
  BY <1>4, <1>5, <1>6, <1>8 DEF ClientInv, Told, Subscribed
<1>10. QED
  BY <1>4, <1>7, <1>9

\* A sequence without its first element.
LEMMA Shifted ==
    ASSUME NEW S, NEW s \in Seq(S), s # <<>>, NEW n \in Nat, n = Len(s)
    PROVE  /\ n >= 1 /\ Head(s) = s[1] /\ Head(s) \in S /\ Len(Tail(s)) = n - 1
           /\ \A i \in 1..(n - 1) : i + 1 \in 1..n /\ Tail(s)[i] = s[i + 1]
           /\ Tail(s) = <<>> => n = 1
           /\ Tail(s) # <<>> => n > 1 /\ Tail(s)[n - 1] = s[n]
<1>1. /\ Head(s) \in S /\ Tail(s) \in Seq(S) /\ n >= 1 /\ Head(s) = s[1] /\ Len(Tail(s)) = n - 1
      /\ \A i \in 1..(n - 1) : Tail(s)[i] = s[i + 1]
  BY HeadTail
<1>2. Tail(s) = <<>> <=> Len(Tail(s)) = 0
  BY <1>1, EmptySeq
<1>3. \A i \in 1..(n - 1) : i + 1 \in 1..n
  BY <1>1
<1>4. n > 1 => n - 1 \in 1..(n - 1) /\ (n - 1) + 1 = n
  OBVIOUS
<1>5. QED
  BY <1>1, <1>2, <1>3, <1>4

\* A frame of the copied window is sent.
LEMMA SendPendingKeeps ==
    ASSUME TypeOK, TypeOK', Grows, StreamInv, SendPending
    PROVE  StreamInv'
<1>1. PICK p \in Seq(FrameType) : p = client.pending
  BY DEF TypeOK
<1>2. PICK n \in Nat : n = Len(p)
  BY LenProperties
<1>3. /\ client.pc = "on" /\ p # <<>>
      /\ UNCHANGED <<events, producer, replay, latest_seq_id, excused>>
  BY <1>1 DEF SendPending, Receive
<1>4. PICK rest : rest = [client EXCEPT !.pending = Tail(p)]
  OBVIOUS
<1>5. Receive(FrameOf(Head(p)), rest)
  BY <1>1, <1>4 DEF SendPending
<1>6. /\ n >= 1 /\ Head(p) = p[1] /\ Head(p) \in FrameType /\ Len(Tail(p)) = n - 1
      /\ \A i \in 1..(n - 1) : i + 1 \in 1..n /\ Tail(p)[i] = p[i + 1]
      /\ Tail(p) = <<>> => n = 1
      /\ Tail(p) # <<>> => n > 1 /\ Tail(p)[n - 1] = p[n]
  BY <1>2, <1>3, Shifted
<1>7. rest \in ClientType /\ rest.known = client.known /\ rest.pc = "on"
      /\ rest.resync = client.resync /\ Subscribed
      /\ rest.pending = Tail(p) /\ rest.queue = client.queue /\ rest.lagged = client.lagged
  BY <1>3, <1>4, HeadTail DEF TypeOK, ClientType, Subscribed
<1>8. SoundFrame(p[1]) /\ Fits(client.cursor, p[1])
  BY <1>1, <1>2, <1>3, <1>6 DEF StreamInv, PendingInv
<1>9. /\ client'.cursor = p[1].id /\ client'.pc = "on" /\ client'.pending = Tail(p)
      /\ client'.queue = client.queue /\ client'.lagged = client.lagged
      /\ Covered \subseteq Covered' /\ ClientInv'
  BY <1>3, <1>5, <1>6, <1>7, <1>8, FrameTells
<1>10. ProducerInv' /\ WindowInv' /\ Tx' = Tx /\ Sent' = Sent
  BY <1>3, ServerKept
<1>11. /\ \A i \in 1..n : SoundFrame(p[i]) /\ p[i].id \in Nat /\ p[i].id <= Len(events)
       /\ \A i, j \in 1..n : i < j => p[i].id <= p[j].id
       /\ \A i, j \in 1..n : j = i + 1 => Fits(p[i].id, p[j])
  BY <1>1, <1>2, ElementTypes DEF StreamInv, PendingInv, Elements, FrameType, SoundFrame
<1>12. PendingEnd' = PendingEnd /\ StreamEnd' = StreamEnd
  <2>1. PendingEnd' = PendingEnd
    BY <1>1, <1>2, <1>3, <1>6, <1>9 DEF PendingEnd
  <2>2. QED
    BY <1>9, <2>1 DEF StreamEnd
<1>13. PendingInv'
  <2> DEFINE t == Tail(p)
  <2>1. \A i \in 1..Len(t) : SoundFrame(t[i])
    BY <1>6, <1>11
  <2>2. ASSUME NEW i \in 1..Len(t), NEW j \in 1..Len(t), i < j
        PROVE  t[i].id <= t[j].id
    BY <1>6, <1>11, <2>2
  <2>3. ASSUME t # <<>>
        PROVE  Fits(p[1].id, t[1])
    <3>1. 1 \in 1..n /\ 2 \in 1..n /\ 2 = 1 + 1 /\ t[1] = p[2]
      BY <1>6, <2>3
    <3>2. QED
      BY <1>11, <3>1
  <2>4. ASSUME NEW i \in 1..Len(t), NEW j \in 1..Len(t), j = i + 1
        PROVE  Fits(t[i].id, t[j])
    <3>1. i + 1 \in 1..n /\ j + 1 \in 1..n /\ t[i] = p[i + 1] /\ t[j] = p[j + 1]
      BY <1>6
    <3>2. j + 1 = (i + 1) + 1
      BY <2>4
    <3>3. QED
      BY <1>11, <3>1, <3>2
  <2>5. \A i \in 1..Len(t) : SoundFrame(t[i])'
    BY <1>3, <1>10, <2>1 DEF SoundFrame
  <2>6. t # <<>> => Fits(client.cursor, client.pending[1])'
    BY <1>9, <1>10, <2>3, FitsMore DEF Fits, Told
  <2>7. \A i, j \in 1..Len(t) : j = i + 1 => Fits(client.pending[i].id, client.pending[j])'
    BY <1>9, <1>10, <2>4, FitsMore DEF Fits, Told
  <2> HIDE DEF t
  <2>8. QED
    BY <1>9, <2>2, <2>5, <2>6, <2>7 DEF PendingInv, t
<1>14. QueueInv'
  <2> DEFINE q == client.queue
  <2>1. ~client.lagged /\ q # <<>> => Fits(PendingEnd, Delta(client.queue[1]))'
    BY <1>3, <1>9, <1>10, <1>12, FitsMore DEF StreamInv, QueueInv, Fits, Told
  <2>2. \A i, j \in 1..Len(q) : j = i + 1 => Fits(q[i].seq, Delta(q[j]))'
    BY <1>9, <1>10, FitsMore DEF StreamInv, QueueInv, Fits, Told
  <2>3. \A i \in 1..Len(q) : Sound(q[i])' /\ q[i].seq <= latest_seq_id'
    BY <1>3, <1>9, <1>10 DEF StreamInv, QueueInv, Sound
  <2>4. QED
    BY <1>9, <2>1, <2>2, <2>3 DEF QueueInv
<1>15. CaughtUp'
  BY <1>3, <1>7, <1>9, <1>10, <1>12 DEF StreamInv, CaughtUp, Told
<1>16. QED
  BY <1>9, <1>10, <1>13, <1>14, <1>15 DEF StreamInv

\* A delta of the receiver is sent.
LEMMA SendLiveKeeps ==
    ASSUME TypeOK, TypeOK', Grows, StreamInv, SendLive
    PROVE  StreamInv'
<1>1. PICK q \in Seq(DeltaType) : q = client.queue
  BY DEF TypeOK
<1>2. PICK n \in Nat : n = Len(q)
  BY LenProperties
<1>3. /\ client.pc = "on" /\ client.pending = <<>> /\ ~client.lagged /\ q # <<>>
      /\ UNCHANGED <<events, producer, replay, latest_seq_id, excused>>
  BY <1>1 DEF SendLive, Receive
<1>4. PICK rest : rest = [client EXCEPT !.queue = Tail(q)]
  OBVIOUS
<1>5. Receive(FrameOf(Delta(Head(q))), rest)
  BY <1>1, <1>4 DEF SendLive
<1>6. /\ n >= 1 /\ Head(q) = q[1] /\ Head(q) \in DeltaType /\ Len(Tail(q)) = n - 1
      /\ \A i \in 1..(n - 1) : i + 1 \in 1..n /\ Tail(q)[i] = q[i + 1]
      /\ Tail(q) = <<>> => n = 1
      /\ Tail(q) # <<>> => n > 1 /\ Tail(q)[n - 1] = q[n]
  BY <1>2, <1>3, Shifted
<1>7. rest \in ClientType /\ rest.known = client.known /\ rest.pc = "on"
      /\ rest.resync = client.resync /\ Subscribed
      /\ rest.pending = <<>> /\ rest.queue = Tail(q) /\ rest.lagged = client.lagged
  BY <1>3, <1>4, HeadTail DEF TypeOK, ClientType, Subscribed
<1>8. /\ \A i \in 1..n : Sound(q[i]) /\ q[i].seq \in Nat /\ q[i].seq <= latest_seq_id
      /\ \A i, j \in 1..n : j = i + 1 => Fits(q[i].seq, Delta(q[j]))
      /\ Fits(client.cursor, Delta(q[1]))
  BY <1>1, <1>2, <1>3, ElementTypes DEF StreamInv, QueueInv, Elements, DeltaType, PendingEnd
<1>9. SoundFrame(Delta(q[1])) /\ Delta(q[1]) \in FrameType /\ Delta(q[1]).id = q[1].seq
  BY <1>6, <1>8, FrameTypes DEF Sound, SoundFrame, Delta
<1>10. /\ client'.cursor = q[1].seq /\ client'.pc = "on" /\ client'.pending = <<>>
       /\ client'.queue = Tail(q)
       /\ Covered \subseteq Covered' /\ ClientInv'
  BY <1>3, <1>5, <1>6, <1>7, <1>8, <1>9, FrameTells
<1>11. ProducerInv' /\ WindowInv' /\ Tx' = Tx /\ Sent' = Sent
  BY <1>3, ServerKept
<1>12. PendingEnd' = q[1].seq /\ StreamEnd' = StreamEnd
  <2>1. PendingEnd' = q[1].seq
    BY <1>10 DEF PendingEnd
  <2>2. QED
    BY <1>1, <1>2, <1>3, <1>6, <1>10, <2>1 DEF StreamEnd
<1>13. QueueInv'
  <2> DEFINE t == Tail(q)
  <2>1. \A i \in 1..Len(t) : Sound(t[i]) /\ t[i].seq <= latest_seq_id
    BY <1>6, <1>8
  <2>2. ASSUME t # <<>>
        PROVE  Fits(q[1].seq, Delta(t[1]))
    <3>1. 1 \in 1..n /\ 2 \in 1..n /\ 2 = 1 + 1 /\ t[1] = q[2]
      BY <1>6, <2>2
    <3>2. QED
      BY <1>8, <3>1
  <2>3. ASSUME NEW i \in 1..Len(t), NEW j \in 1..Len(t), j = i + 1
        PROVE  Fits(t[i].seq, Delta(t[j]))
    <3>1. i + 1 \in 1..n /\ j + 1 \in 1..n /\ t[i] = q[i + 1] /\ t[j] = q[j + 1]
      BY <1>6
    <3>2. j + 1 = (i + 1) + 1
      BY <2>3
    <3>3. QED
      BY <1>8, <3>1, <3>2
  <2>4. \A i \in 1..Len(t) : Sound(t[i])' /\ t[i].seq <= latest_seq_id'
    BY <1>3, <1>11, <2>1 DEF Sound
  <2>5. t # <<>> => Fits(PendingEnd, Delta(client.queue[1]))'
    BY <1>10, <1>11, <1>12, <2>2, FitsMore DEF Fits, Told
  <2>6. \A i, j \in 1..Len(t) : j = i + 1 => Fits(client.queue[i].seq, Delta(client.queue[j]))'
    BY <1>10, <1>11, <2>3, FitsMore DEF Fits, Told
  <2> HIDE DEF t
  <2>7. QED
    BY <1>10, <2>4, <2>5, <2>6 DEF QueueInv, t
<1>14. CaughtUp'
  BY <1>3, <1>7, <1>10, <1>11, <1>12 DEF StreamInv, CaughtUp, Told
<1>15. QED
  BY <1>10, <1>11, <1>13, <1>14, NothingPending DEF StreamInv

\* A receiver that lost deltas gets a reset, which promises everything up to its id.
LEMMA SendLagKeeps ==
    ASSUME TypeOK, TypeOK', Grows, StreamInv, SendLag
    PROVE  StreamInv'
<1>1. PICK f : f = Reset(latest_seq_id)
  OBVIOUS
<1>2. f \in FrameType /\ FrameOf(f) = f /\ f.event = "reset" /\ f.id = latest_seq_id
      /\ f.delta.txs = {}
  BY <1>1, FrameTypes DEF TypeOK, FrameOf, Reset, NoDelta
<1>3. SoundFrame(f) /\ Fits(client.cursor, f)
  BY <1>2, SentIsTold DEF SoundFrame, Fits
<1>4. PICK rest : rest = [client EXCEPT !.pc = "on"]
  OBVIOUS
<1>5. /\ client.pc = "lag" /\ Subscribed /\ client.pending = <<>> /\ Receive(FrameOf(f), rest)
      /\ UNCHANGED <<events, producer, replay, latest_seq_id, excused>>
  BY <1>1, <1>2, <1>4 DEF SendLag, Receive, Subscribed, StreamInv, ClientInv
<1>6. rest \in ClientType /\ rest.known = client.known /\ rest.pc = "on"
      /\ rest.resync = client.resync /\ rest.pending = <<>> /\ rest.queue = client.queue
  BY <1>4, <1>5 DEF TypeOK, ClientType
<1>7. /\ client'.pending = <<>> /\ client'.queue = client.queue /\ client'.pc = "on"
      /\ client'.cursor = latest_seq_id /\ Covered \subseteq Covered' /\ ClientInv'
  BY <1>2, <1>3, <1>5, <1>6, FrameTells
<1>8. ProducerInv' /\ WindowInv' /\ Sent' = Sent
  BY <1>5, ServerKept
<1>9. QueueInv' /\ CaughtUp'
  BY <1>5, <1>7, <1>8, CursorAtWatermark
<1>10. QED
  BY <1>7, <1>8, <1>9, NothingPending DEF StreamInv

\* What a connection copies of the window follows on its cursor.
LEMMA LaterFits ==
    ASSUME TypeOK, TypeOK', StreamInv, WindowInv', Connect, UNCHANGED <<events, replay>>,
           excused \subseteq excused', client'.cursor = client.cursor,
           client'.pending = Later(client.cursor),
           ~(replay # <<>> /\ client.cursor > 0 /\ replay[1].seq > client.cursor + 1),
           Tx' = Tx
    PROVE  PendingInv' /\ LastSeq <= PendingEnd'
<1>1. PICK c \in Nat : c = client.cursor
  BY DEF TypeOK
<1>2. PICK n \in Nat : n = Len(replay)
  BY ElementTypes DEF Elements
<1>3. PICK k \in 0..n :
        /\ Later(c) = [i \in 1..(n - k) |-> Delta(replay[k + i])]
        /\ \A i \in 1..n : replay[i].seq <= c <=> i <= k
  BY <1>1, <1>2, LaterFacts DEF StreamInv
<1>4. PICK m \in Nat : m = n - k
  OBVIOUS
<1>5. PICK p : p = client'.pending
  OBVIOUS
<1>6. p = [i \in 1..m |-> Delta(replay[k + i])] /\ p \in Seq(FrameType)
  BY <1>1, <1>3, <1>4, <1>5 DEF TypeOK
<1>7. Len(p) = m
  <2>1. DOMAIN p = 1..m /\ DOMAIN p = 1..Len(p) /\ Len(p) \in Nat
    BY <1>6, LenProperties
  <2>2. QED
    BY <2>1
<1>8. \A i \in 1..n : /\ replay[i].seq \in Nat /\ Sound(replay[i])
                      /\ Delta(replay[i]).id = replay[i].seq
                      /\ Delta(replay[i]).delta = replay[i]
  BY <1>2, ElementTypes DEF Elements, DeltaType, StreamInv, WindowInv, Delta
<1>9. \A i \in 1..m : /\ k + i \in 1..n /\ p[i] = Delta(replay[k + i])
                      /\ p[i].id = replay[k + i].seq /\ p[i].delta = replay[k + i]
  <2>1. \A i \in 1..m : k + i \in 1..n
    BY <1>4
  <2>2. QED
    BY <1>6, <1>8, <2>1
<1>10. /\ \A i, j \in 1..n : i < j => replay[i].seq < replay[j].seq
       /\ \A i, j \in 1..n : j = i + 1 => replay[j].has_gap
            \/ Told(replay[i].seq, replay[j].seq, replay[j].txs \cup excused)
  BY <1>2 DEF StreamInv, WindowInv
<1>11. \A i \in 1..m : SoundFrame(p[i])'
  <2> SUFFICES ASSUME NEW i \in 1..m PROVE SoundFrame(p[i])'
    OBVIOUS
  <2>1. Sound(replay[k + i]) /\ p[i].id = replay[k + i].seq /\ p[i].delta = replay[k + i]
    BY <1>8, <1>9
  <2>2. QED
    BY <2>1 DEF Sound, SoundFrame
<1>12. \A i, j \in 1..m : i < j => p[i].id <= p[j].id
  <2> SUFFICES ASSUME NEW i \in 1..m, NEW j \in 1..m, i < j PROVE p[i].id <= p[j].id
    OBVIOUS
  <2>1. k + i \in 1..n /\ k + j \in 1..n /\ k + i < k + j
    BY <1>9
  <2>2. QED
    BY <1>8, <1>9, <1>10, <2>1
<1>13. ASSUME NEW i \in 1..m, NEW j \in 1..m, j = i + 1
       PROVE  Fits(p[i].id, p[j])'
  <2>1. k + i \in 1..n /\ k + j \in 1..n /\ k + j = (k + i) + 1
    <3>1. k \in Nat /\ i \in Nat
      OBVIOUS
    <3>2. k + j = (k + i) + 1
      BY <1>13, <3>1
    <3>3. QED
      BY <1>9, <3>2
  <2>2. replay[k + j].has_gap
        \/ Told(replay[k + i].seq, replay[k + j].seq, replay[k + j].txs \cup excused)
    BY <1>10, <2>1
  <2>3. QED
    BY <1>9, <2>2 DEF Fits, Told, Covered
<1>14. ASSUME m > 0, ~p[1].delta.has_gap, NEW x \in Tx, c < x, x <= p[1].id
       PROVE  x \in p[1].delta.txs \cup excused'
  <2>1. /\ 1 \in 1..m /\ k + 1 \in 1..n /\ p[1].id = replay[k + 1].seq
        /\ p[1].delta = replay[k + 1] /\ x \in Nat
    BY <1>9, <1>14, TxFacts
  <2>2. CASE k > 0
    <3>1. k \in 1..n /\ replay[k].seq <= c /\ replay[k].seq \in Nat
      BY <1>3, <1>8, <2>2
    <3>2. replay[k].seq < x
      BY <1>14, <2>1, <3>1
    <3>3. Told(replay[k].seq, replay[k + 1].seq, replay[k + 1].txs \cup excused)
      BY <1>10, <1>14, <2>1, <3>1
    <3>4. QED
      BY <1>14, <2>1, <3>2, <3>3 DEF Told
  <2>3. CASE k = 0
    <3>1. replay # <<>> /\ p[1].id = replay[1].seq /\ p[1].delta = replay[1] /\ 1 \in 1..n
      BY <1>2, <2>1, <2>3, EmptySeq
    <3>2. CASE c = 0
      <4>1. excused' = excused \cup (TxIds(1, replay[1].seq) \ replay[1].txs)
        BY <1>1, <3>1, <3>2 DEF Connect
      <4>2. x \in TxIds(1, replay[1].seq)
        BY <1>8, <1>14, <2>1, <3>1, <3>2, TxFacts
      <4>3. QED
        BY <3>1, <4>1, <4>2
    <3>3. CASE c > 0
      <4>1. replay[1].seq <= c + 1 /\ replay[1].seq \in Nat
        BY <1>1, <1>8, <3>1, <3>3
      <4>2. x = replay[1].seq
        BY <1>14, <2>1, <3>1, <4>1
      <4>3. QED
        BY <1>8, <3>1, <4>2 DEF Sound
    <3>4. QED
      BY <3>2, <3>3
  <2>4. QED
    BY <2>2, <2>3
<1>15. m > 0 => Fits(client.cursor, client.pending[1])'
  BY <1>1, <1>5, <1>14 DEF Fits, Told, Covered
<1>16. PendingInv'
  <2>1. client'.pending # <<>> => m > 0
    BY <1>5, <1>6, <1>7, EmptySeq
  <2>2. QED
    BY <1>5, <1>7, <1>11, <1>12, <1>13, <1>15, <2>1 DEF PendingInv
<1>17. LastSeq <= PendingEnd'
  <2>1. CASE m > 0
    <3>1. client'.pending # <<>> /\ replay # <<>> /\ m \in 1..m /\ k + m = n
      BY <1>2, <1>4, <1>5, <1>7, <2>1, EmptySeq
    <3>2. PendingEnd' = replay[n].seq
      BY <1>5, <1>7, <1>9, <3>1 DEF PendingEnd
    <3>3. replay[n].seq \in Nat /\ LastSeq = replay[n].seq
      BY <1>2, <1>8, <1>9, <3>1 DEF LastSeq
    <3>4. QED
      BY <3>2, <3>3
  <2>2. CASE m = 0
    <3>1. client'.pending = <<>> /\ k = n
      BY <1>4, <1>5, <1>6, <1>7, <2>2, EmptySeq
    <3>2. PendingEnd' = c
      BY <1>1, <3>1 DEF PendingEnd
    <3>3. replay # <<>> => n \in 1..n
      BY <1>2, EmptySeq, ElementTypes DEF Elements
    <3>4. QED
      BY <1>2, <1>3, <3>1, <3>2, <3>3 DEF LastSeq
  <2>3. QED
    BY <2>1, <2>2
<1>18. QED
  BY <1>16, <1>17

\* Or the window starts too late, and all that is copied is a reset.
LEMMA ResetFits ==
    ASSUME TypeOK, TypeOK', StreamInv, events' = events, Tx' = Tx, replay # <<>>,
           client'.pending = <<Reset(MaxOf(latest_seq_id, replay[1].seq))>>
    PROVE  PendingInv' /\ LastSeq <= PendingEnd'
<1>1. Len(replay) \in Nat /\ Len(replay) >= 1 /\ \A i \in 1..Len(replay) : replay[i].seq \in Nat
  BY ElementTypes DEF Elements, DeltaType
<1>2. replay[1].seq <= LastSeq
  BY <1>1 DEF StreamInv, WindowInv, LastSeq
<1>3. 1 \in 1..Len(replay) /\ replay[1].seq \in Nat
  BY <1>1
<1>4. MaxOf(latest_seq_id, replay[1].seq) = latest_seq_id
  BY <1>2, <1>3, SentIsTold DEF MaxOf
<1>5. PICK f : f = Reset(latest_seq_id)
  OBVIOUS
<1>6. client'.pending = <<f>> /\ f.event = "reset" /\ f.id = latest_seq_id /\ f.delta.txs = {}
  BY <1>4, <1>5 DEF Reset, NoDelta
<1>7. SoundFrame(f)'
  BY <1>6, SentIsTold DEF SoundFrame
<1>8. /\ Len(client'.pending) = 1 /\ client'.pending # <<>> /\ client'.pending[1] = f
  BY <1>6
<1>9. PendingInv'
  BY <1>6, <1>7, <1>8 DEF PendingInv, Fits
<1>10. PendingEnd' = latest_seq_id
  BY <1>6, <1>8 DEF PendingEnd
<1>11. QED
  BY <1>9, <1>10, SentIsTold

\* Where the copied window ends is a position.
LEMMA NextEnds ==
    ASSUME TypeOK'
    PROVE  PendingEnd' \in Nat
<1>1. /\ client'.cursor \in Nat /\ client'.pending \in Seq(FrameType)
  BY DEF TypeOK
<1>2. client'.pending # <<>> => client'.pending[Len(client'.pending)] \in FrameType
  BY <1>1, LenProperties, EmptySeq, ElementOfSeq
<1>3. QED
  BY <1>1, <1>2 DEF PendingEnd, FrameType

\* A connection: what it copies reaches to the end of the window.
LEMMA ConnectKeeps ==
    ASSUME TypeOK, TypeOK', Grows, StreamInv, Connect
    PROVE  StreamInv'
<1>1. /\ UNCHANGED <<events, producer, replay, latest_seq_id>>
      /\ client.pc = "off" /\ client'.pc = "copied" /\ client'.queue = client.queue
      /\ client'.cursor = client.cursor /\ client'.known = client.known
      /\ client'.resync = client.resync
      /\ client'.pending = InitialEvents(client.cursor)
  BY DEF Connect, TypeOK
<1>2. excused \subseteq excused'
  BY DEF Connect
<1>3. ProducerInv' /\ WindowInv' /\ Tx' = Tx /\ Sent' = Sent
  BY <1>1, <1>2, ServerKept
<1>4. client'.queue = <<>> /\ Covered \subseteq Covered'
  BY <1>1, <1>2, CoveredGrows DEF StreamInv, ClientInv, Subscribed
<1>5. ClientInv'
  BY <1>1, <1>3, <1>4 DEF StreamInv, ClientInv, Told
<1>6. PendingInv' /\ LastSeq <= PendingEnd'
  <2>1. CASE replay # <<>> /\ client.cursor > 0 /\ replay[1].seq > client.cursor + 1
    BY <1>1, <1>3, <2>1, ResetFits DEF InitialEvents
  <2>2. CASE ~(replay # <<>> /\ client.cursor > 0 /\ replay[1].seq > client.cursor + 1)
    BY <1>1, <1>2, <1>3, <2>2, LaterFits DEF InitialEvents
  <2>3. QED
    BY <2>1, <2>2
<1>7. CaughtUp'
  <2>1. StreamEnd' = PendingEnd'
    BY <1>4 DEF StreamEnd
  <2>2. PendingEnd' \in Nat
    BY <1>1, NextEnds
  <2>3. \A x \in Tx : PendingEnd' < x /\ x <= Sent => x \in excused
    BY <1>6, <2>2, SentIsTold, TxFacts DEF Told
  <2>4. excused \subseteq Covered'
    BY <1>2 DEF Covered
  <2>5. QED
    BY <1>1, <1>3, <2>1, <2>3, <2>4 DEF CaughtUp, Told
<1>8. QED
  BY <1>3, <1>4, <1>5, <1>6, <1>7, NothingQueued DEF StreamInv

----------------------------------------------------------------------------
(* The theorem *)

\* Every step keeps the invariant.
LEMMA NextKeeps == TypeOK /\ TypeOK' /\ StreamInv /\ [StreamNext]_stream_vars => StreamInv'
<1> SUFFICES ASSUME TypeOK, TypeOK', StreamInv, [StreamNext]_stream_vars PROVE StreamInv'
  OBVIOUS
<1>1. Grows
  BY EventsGrow
<1>2. CASE StoreEvent
  BY <1>1, <1>2, StoreEventKeeps
<1>3. CASE Produce
  BY <1>1, <1>3, BuildDispatchKeeps, SkipKeeps, PublishWatermarkKeeps, PushReplayKeeps,
     BroadcastSendKeeps DEF Produce
<1>4. CASE Bootstrap \/ Disconnect
  BY <1>1, <1>4, OffKeeps
<1>5. CASE Stream
  BY <1>1, <1>5, ConnectKeeps, SubscribeKeeps, SendPendingKeeps, SendLiveKeeps, WakeKeeps,
     SendLagKeeps, SendKeepaliveKeeps DEF Stream
<1>6. CASE Resync \/ HeartbeatFires
  BY <1>1, <1>6, ResyncKeeps, WakeKeeps
<1>7. CASE UNCHANGED stream_vars
  <2>1. /\ UNCHANGED <<events, producer, replay, latest_seq_id, client, excused>>
        /\ Sent' = Sent /\ latest_seq_id <= latest_seq_id'
    BY <1>7 DEF stream_vars, Sent, Publishing, TypeOK
  <2>2. QED
    BY <1>1, <2>1, ProducerKept, WindowKept, SubscriberKept, CaughtUpKept DEF StreamInv
<1>8. QED
  BY <1>2, <1>3, <1>4, <1>5, <1>6, <1>7 DEF StreamNext

\* A subscriber that resumes from its cursor has been told every transaction up to
\* it, except in the windows MissedOnlyInWindows names: for every number of events
\* and connections and every capacity of the ring, the page, the window and the
\* receiver.
THEOREM SubscriberMissesOnlyWindows == StreamSpec => []MissedOnlyInWindows
<1>1. StreamInit => StreamInv
  <2> SUFFICES ASSUME StreamInit PROVE StreamInv
    OBVIOUS
  <2>1. events = <<>> /\ replay = <<>> /\ client.pending = <<>> /\ client.queue = <<>>
        /\ Len(events) = 0 /\ DOMAIN events = {} /\ Len(replay) = 0
        /\ Len(client.pending) = 0 /\ Len(client.queue) = 0
    BY DEF StreamInit
  <2>2. Tx = {} /\ LastSeq = 0 /\ ~Publishing /\ Sent = 0
    BY <2>1 DEF StreamInit, Tx, LastSeq, Publishing, Sent
  <2>3. QED
    BY <2>1, <2>2 DEF StreamInit, StreamInv, ProducerInv, WindowInv, ClientInv, PendingInv,
       QueueInv, CaughtUp, Told, Covered, Subscribed
<1>2. TypeOK /\ StreamInv => MissedOnlyInWindows
  <2> SUFFICES ASSUME TypeOK, StreamInv, client.pc # "new", client.resync = 0,
                      NEW x \in TxIds(1, client.cursor)
               PROVE  x \in client.known \cup excused
    BY DEF MissedOnlyInWindows
  <2>1. x \in Tx /\ 0 < x /\ x <= client.cursor
    BY TxFacts DEF TypeOK
  <2>2. x \in Covered /\ x \notin Due
    BY <2>1, TxFacts DEF StreamInv, ClientInv, Told, Due
  <2>3. QED
    BY <2>2 DEF Covered
<1>3. QED
  BY <1>1, <1>2, NextKeeps, StreamTypeCorrect, PTL DEF StreamSpec
=============================================================================
