--------------------------- MODULE ReadSideProofs ---------------------------
(***************************************************************************)
(* What the node shows: the replay engine after any log, with the queues   *)
(* it shows and a replay that is resumed from a checkpoint; and the read   *)
(* model after any writes, with its indexes and the dashboard's cache.     *)
(*                                                                         *)
(* What an event does to the pending hashes and to the queue slots that    *)
(* hold a pending hash depends on nothing else in the state.  That is why  *)
(* a resumed replay, which has lost the rest, stays in step.               *)
(***************************************************************************)
EXTENDS CheckpointReplay, ReadModel, FiniteSetTheorems, SequenceTheorems,
        WellFoundedInduction, TLAPS

----------------------------------------------------------------------------
(* Replay: slots and entries *)

\* The pending hash in a slot, None if the slot holds none.
LiveSlot(m, s, n) ==
    LET h == m.sender_queues[s][n] IN IF h # None /\ IsPending(m, h) THEN h ELSE None

\* A queued hash is under its own sender and nonce.
Positioned(m) ==
    \A s \in Senders, n \in Nonces :
        LET h == m.sender_queues[s][n] IN h # None => Tx[h].sender = s /\ Tx[h].nonce = n

\* An event has told h's sender and nonce.
HasPlace(m, h) == m.txs[h] # None /\ m.txs[h].placed

\* A pending hash that is queued has told its sender.
LivePlaced(m) ==
    \A s \in Senders, n \in Nonces :
        LET h == LiveSlot(m, s, n) IN h # None => m.txs[h].placed

\* A queue has pending hashes only ...
AllLive(m, s) == \A n \in Nonces : m.sender_queues[s][n] = LiveSlot(m, s, n)

\* ... and their states are those of a fresh classification.
FreshStates(m, s) ==
    \A n \in PendingNonces(m, s) :
        m.txs[m.sender_queues[s][n]].queue_state = QueueEntryState(PendingNonces(m, s), n)

\* A state that a full replay can be in.
Good(m) ==
    /\ m \in MempoolState
    /\ Positioned(m)
    /\ LivePlaced(m)
    /\ \A s \in Senders : AllLive(m, s)

AllFresh(m) == \A s \in Senders : FreshStates(m, s)

\* What a full replay must show after an event: what it did before is kept.
KeepsGood(m, u) ==
    Good(m) => Good(u) /\ (AllFresh(m) => AllFresh(u))

\* u differs from m in h's entry at most.
ChangesOnly(m, u, h) ==
    /\ u.sender_queues = m.sender_queues
    /\ \A x \in Hashes : x # h => u.txs[x] = m.txs[x]

\* The event takes h out: what remains pending, and what remains queued.
TakesOut(m, u, h) ==
    /\ \A x \in Hashes : IsPending(u, x) <=> x # h /\ IsPending(m, x)
    /\ \A s \in Senders, n \in Nonces :
         LiveSlot(u, s, n) = IF LiveSlot(m, s, n) = h THEN None ELSE LiveSlot(m, s, n)

\* The event puts h into its slot, and `gone` is not pending any more.
PutsIn(m, u, h, gone) ==
    /\ \A x \in Hashes : IsPending(u, x) <=> x = h \/ (x # gone /\ IsPending(m, x))
    /\ \A s \in Senders, n \in Nonces :
         LiveSlot(u, s, n) = IF s = Tx[h].sender /\ n = Tx[h].nonce THEN h
                             ELSE LiveSlot(m, s, n)

----------------------------------------------------------------------------
(* Types *)

\* Every nonempty set of naturals has a least element.
LEMMA LeastNat ==
    ASSUME NEW T \in SUBSET Nat, T # {}
    PROVE  \E x \in T : \A y \in T : x <= y
<1>1. PICK x \in T : \A y \in T : ~(<<y, x>> \in OpToRel(<, Nat))
  BY NatLessThanWellFounded, WFMin, Zenon
<1>2. \A y \in T : ~(y < x)
  BY <1>1, Zenon DEF OpToRel
<1>3. QED
  BY <1>2

\* A nonempty queue has a ready run and waits for a definite nonce.
LEMMA ExpectedNonceType ==
    ASSUME NEW occupied \in SUBSET Nonces, occupied # {}
    PROVE  ExpectedNonce(occupied) \in Nat
<1> DEFINE ready == ReadyNonces(occupied)
           distance == {MaxNonce - n : n \in ready}
<1>1. PICK least \in occupied : \A n \in occupied : least <= n
  BY LeastNat, TransactionAssumption DEF Nonces
<1>2. least \in ready /\ ready \subseteq Nonces
  <2>1. least \in ready
    BY <1>1, TransactionAssumption DEF ReadyNonces, Nonces
  <2>2. QED
    BY <2>1 DEF ReadyNonces
<1>3. distance \in SUBSET Nat /\ distance # {}
  BY <1>2, TransactionAssumption DEF Nonces
<1>4. PICK d \in distance : \A e \in distance : d <= e
  BY <1>3, LeastNat
<1>5. PICK last \in ready : d = MaxNonce - last
  BY <1>4
<1>6. ASSUME NEW n \in ready
      PROVE  n <= last
  <2>1. MaxNonce - last <= MaxNonce - n
    BY <1>4, <1>5
  <2>2. QED
    BY <1>2, <2>1, TransactionAssumption DEF Nonces
<1>7. (CHOOSE n \in ready : \A k \in ready : k <= n) \in ready
  BY <1>6
<1>8. QED
  BY <1>2, <1>7, TransactionAssumption DEF ExpectedNonce, Nonces

\* So that every classification is a queue state.
LEMMA QueueEntryStateType ==
    ASSUME NEW occupied \in SUBSET Nonces, occupied # {}, NEW n
    PROVE  QueueEntryState(occupied, n) \in QueueState
BY ExpectedNonceType DEF QueueEntryState, Ready, Blocked, QueueState

\* The parts of a state.
LEMMA StateParts ==
    ASSUME NEW m \in MempoolState
    PROVE  /\ \A h \in Hashes : m.txs[h] \in TxEntry \cup {None}
           /\ \A s \in Senders, n \in Nonces : m.sender_queues[s][n] \in Hashes \cup {None}
           /\ \A h \in Hashes : Tx[h].sender \in Senders /\ Tx[h].nonce \in Nonces
           /\ None \notin Hashes /\ None \notin TxEntry
BY TransactionAssumption, ReplayAssumption DEF MempoolState, TxRecord

----------------------------------------------------------------------------
(* `recompute_sender_queue_states` *)

\* It writes nothing but queue states, keeps the pending hashes of the queue and
\* classifies them afresh.
LEMMA RecomputeFacts ==
    ASSUME NEW m \in MempoolState, Positioned(m), NEW s \in Senders, NEW r,
           r = RecomputeSenderQueueStates(m, s)
    PROVE  /\ r \in MempoolState
           /\ \A h \in Hashes :
                /\ r.txs[h] = None <=> m.txs[h] = None
                /\ m.txs[h] # None => /\ r.txs[h].status = m.txs[h].status
                                      /\ r.txs[h].placed = m.txs[h].placed
                /\ Tx[h].sender # s => r.txs[h] = m.txs[h]
           /\ \A n \in Nonces : r.sender_queues[s][n] = LiveSlot(m, s, n)
           /\ \A t \in Senders : t # s => r.sender_queues[t] = m.sender_queues[t]
           /\ FreshStates(r, s)
<1> DEFINE occupied == PendingNonces(m, s)
           queue == m.sender_queues[s]
           place(h) == CHOOSE k \in Nonces : queue[k] = h
           stateIn(h) == IF place(h) \in occupied THEN QueueEntryState(occupied, place(h))
                         ELSE None
           entry(h) == IF m.txs[h] # None /\ \E n \in Nonces : queue[n] = h
                       THEN [m.txs[h] EXCEPT !.queue_state = stateIn(h)]
                       ELSE m.txs[h]
           slot(n) == IF n \in occupied THEN queue[n] ELSE None
<1>1. /\ r.txs = [h \in Hashes |-> entry(h)]
      /\ r.sender_queues = [m.sender_queues EXCEPT ![s] = [n \in Nonces |-> slot(n)]]
      /\ r = [txs |-> r.txs, sender_queues |-> r.sender_queues]
  BY DEF RecomputeSenderQueueStates
<1>2. occupied \subseteq Nonces /\ \A n \in Nonces : n \in occupied <=> LiveSlot(m, s, n) # None
  BY StateParts DEF PendingNonces, LiveSlot
<1>3. ASSUME NEW h
      PROVE  stateIn(h) \in QueueState \cup {None}
  BY <1>2, QueueEntryStateType
<1>4. ASSUME NEW h \in Hashes, NEW n \in Nonces, queue[n] = h
      PROVE  stateIn(h) = IF n \in occupied THEN QueueEntryState(occupied, n) ELSE None
  <2>1. \A k \in Nonces : queue[k] = h <=> k = n
    BY <1>4, StateParts DEF Positioned
  <2>2. place(h) = n
    BY <2>1
  <2> HIDE DEF place
  <2>3. QED
    BY <2>2
<1> HIDE DEF stateIn
<1>5. ASSUME NEW h \in Hashes
      PROVE  /\ entry(h) \in TxEntry \cup {None}
             /\ entry(h) = None <=> m.txs[h] = None
             /\ m.txs[h] # None => /\ entry(h).status = m.txs[h].status
                                   /\ entry(h).placed = m.txs[h].placed
             /\ Tx[h].sender # s => entry(h) = m.txs[h]
             /\ \A n \in Nonces : m.txs[h] # None /\ queue[n] = h =>
                                    entry(h).queue_state = stateIn(h)
  <2>1. m.txs[h] \in TxEntry \cup {None} /\ None \notin TxEntry /\ h # None
    BY StateParts
  <2>2. m.txs[h] # None => [m.txs[h] EXCEPT !.queue_state = stateIn(h)] \in TxEntry
    BY <1>3, <2>1 DEF TxEntry
  <2>3. entry(h) \in TxEntry \cup {None} /\ (entry(h) = None <=> m.txs[h] = None)
    BY <2>1, <2>2
  <2>4. m.txs[h] # None => entry(h).status = m.txs[h].status /\ entry(h).placed = m.txs[h].placed
    BY <2>1 DEF TxEntry
  <2>5. Tx[h].sender # s => entry(h) = m.txs[h]
    BY <2>1 DEF Positioned
  <2>6. \A n \in Nonces : m.txs[h] # None /\ queue[n] = h => entry(h).queue_state = stateIn(h)
    BY <2>1 DEF TxEntry
  <2>7. QED
    BY <2>3, <2>4, <2>5, <2>6
<1> HIDE DEF entry
<1>6. ASSUME NEW n \in Nonces
      PROVE  slot(n) = LiveSlot(m, s, n) /\ slot(n) \in Hashes \cup {None}
  BY <1>2, StateParts DEF LiveSlot
<1> HIDE DEF slot
<1>7. /\ \A n \in Nonces : r.sender_queues[s][n] = slot(n)
      /\ \A t \in Senders : t # s => r.sender_queues[t] = m.sender_queues[t]
      /\ \A h \in Hashes : r.txs[h] = entry(h)
  BY <1>1 DEF MempoolState
<1>8. r \in MempoolState
  <2>1. r.txs \in [Hashes -> TxEntry \cup {None}]
    BY <1>1, <1>5
  <2>2. [n \in Nonces |-> slot(n)] \in [Nonces -> Hashes \cup {None}]
    BY <1>6
  <2>3. r.sender_queues \in [Senders -> [Nonces -> Hashes \cup {None}]]
    BY <1>1, <2>2 DEF MempoolState
  <2>4. QED
    BY <1>1, <2>1, <2>3 DEF MempoolState
<1>9. \A h \in Hashes : IsPending(r, h) <=> IsPending(m, h)
  BY <1>5, <1>7 DEF IsPending
<1>10. PendingNonces(r, s) = occupied
  <2>1. ASSUME NEW n \in Nonces
        PROVE  n \in PendingNonces(r, s) <=> n \in occupied
    <3>1. r.sender_queues[s][n] = LiveSlot(m, s, n) /\ LiveSlot(m, s, n) \in Hashes \cup {None}
      BY <1>6, <1>7
    <3>2. LiveSlot(m, s, n) # None => IsPending(m, LiveSlot(m, s, n))
      BY DEF LiveSlot
    <3>3. QED
      BY <1>2, <1>9, <3>1, <3>2 DEF PendingNonces
  <2>2. QED
    BY <1>2, <2>1 DEF PendingNonces
<1>11. FreshStates(r, s)
  <2> SUFFICES ASSUME NEW n \in occupied
               PROVE  r.txs[r.sender_queues[s][n]].queue_state = QueueEntryState(occupied, n)
    BY <1>10 DEF FreshStates
  <2>1. PICK h \in Hashes : h = queue[n] /\ IsPending(m, h)
    BY <1>2, StateParts DEF PendingNonces
  <2>2. n \in Nonces /\ r.sender_queues[s][n] = h
    BY <1>2, <1>7, <2>1 DEF slot
  <2>3. r.txs[h].queue_state = stateIn(h)
    BY <1>5, <1>7, <2>1, <2>2 DEF IsPending
  <2>4. QED
    BY <1>4, <2>1, <2>2, <2>3
<1>12. QED
  BY <1>5, <1>6, <1>7, <1>8, <1>11

\* So what is pending, and what of it is queued, stays.
LEMMA RecomputeKeeps ==
    ASSUME NEW m \in MempoolState, Positioned(m), NEW s \in Senders, NEW r,
           r = RecomputeSenderQueueStates(m, s)
    PROVE  /\ Positioned(r)
           /\ \A h \in Hashes : IsPending(r, h) <=> IsPending(m, h)
           /\ \A t \in Senders, n \in Nonces : LiveSlot(r, t, n) = LiveSlot(m, t, n)
           /\ AllLive(r, s)
           /\ \A t \in Senders : AllLive(m, t) => AllLive(r, t)
<1>1. /\ \A h \in Hashes : /\ r.txs[h] = None <=> m.txs[h] = None
                           /\ m.txs[h] # None => r.txs[h].status = m.txs[h].status
      /\ \A n \in Nonces : r.sender_queues[s][n] = LiveSlot(m, s, n)
      /\ \A t \in Senders : t # s => r.sender_queues[t] = m.sender_queues[t]
  BY RecomputeFacts
<1>2. \A h \in Hashes : IsPending(r, h) <=> IsPending(m, h)
  BY <1>1 DEF IsPending
<1>3. \A t \in Senders, n \in Nonces :
        LiveSlot(m, t, n) = None \/ /\ LiveSlot(m, t, n) = m.sender_queues[t][n]
                                    /\ LiveSlot(m, t, n) \in Hashes
                                    /\ IsPending(m, LiveSlot(m, t, n))
  BY StateParts DEF LiveSlot
<1>4. Positioned(r)
  BY <1>1, <1>3 DEF Positioned
<1>5. ASSUME NEW t \in Senders, NEW n \in Nonces
      PROVE  LiveSlot(r, t, n) = LiveSlot(m, t, n)
  <2>1. CASE t = s
    BY <1>1, <1>2, <1>3, <2>1 DEF LiveSlot
  <2>2. CASE t # s
    BY <1>1, <1>2, <2>2, StateParts DEF LiveSlot
  <2>3. QED
    BY <2>1, <2>2
<1>6. AllLive(r, s)
  BY <1>1, <1>5 DEF AllLive
<1>7. \A t \in Senders : AllLive(m, t) => AllLive(r, t)
  BY <1>1, <1>5, <1>6 DEF AllLive
<1>8. QED
  BY <1>2, <1>4, <1>5, <1>6, <1>7

\* The states of the other senders are none of its business.
LEMMA OthersStayFresh ==
    ASSUME NEW m \in MempoolState, NEW u, Positioned(m), NEW s \in Senders,
           \A t \in Senders : t # s => u.sender_queues[t] = m.sender_queues[t],
           \A h \in Hashes : Tx[h].sender # s => u.txs[h] = m.txs[h]
    PROVE  \A t \in Senders : t # s /\ FreshStates(m, t) => FreshStates(u, t)
<1> SUFFICES ASSUME NEW t \in Senders, t # s, FreshStates(m, t)
             PROVE  FreshStates(u, t)
  OBVIOUS
<1>1. u.sender_queues[t] = m.sender_queues[t]
  OBVIOUS
<1>2. \A n \in Nonces : m.sender_queues[t][n] # None =>
        /\ m.sender_queues[t][n] \in Hashes
        /\ u.txs[m.sender_queues[t][n]] = m.txs[m.sender_queues[t][n]]
  BY StateParts DEF Positioned
<1>3. PendingNonces(u, t) = PendingNonces(m, t)
  BY <1>1, <1>2 DEF PendingNonces, IsPending
<1>4. \A n \in PendingNonces(m, t) : n \in Nonces /\ m.sender_queues[t][n] # None
  BY DEF PendingNonces
<1>5. QED
  BY <1>1, <1>2, <1>3, <1>4 DEF FreshStates

----------------------------------------------------------------------------
(* A hash enters a queue *)

\* `ensure_sender_queue_entry`
LEMMA EnsureFacts ==
    ASSUME NEW m \in MempoolState, Positioned(m), NEW h \in Hashes, NEW e,
           e = EnsureSenderQueueEntry(m, h)
    PROVE  /\ e \in MempoolState /\ Positioned(e)
           /\ e.txs[h] # None /\ e.txs[h].placed /\ IsPending(e, h)
           /\ \A x \in Hashes : x # h => e.txs[x] = m.txs[x]
           /\ SlotOf(e.sender_queues, h) = h
           /\ \A s \in Senders, n \in Nonces : ~(s = Tx[h].sender /\ n = Tx[h].nonce) =>
                e.sender_queues[s][n] = m.sender_queues[s][n]
           /\ \A s \in Senders : s # Tx[h].sender => e.sender_queues[s] = m.sender_queues[s]
<1> DEFINE entry == [EntryOf(m, h) EXCEPT !.placed = TRUE, !.status = "pending",
                                          !.block_hash = None]
           s0 == Tx[h].sender
           n0 == Tx[h].nonce
<1>1. /\ e.txs = [m.txs EXCEPT ![h] = entry]
      /\ e.sender_queues = [m.sender_queues EXCEPT ![s0][n0] = h]
      /\ e = [txs |-> e.txs, sender_queues |-> e.sender_queues]
  BY DEF EnsureSenderQueueEntry
<1>2. EntryOf(m, h) \in TxEntry
  BY StateParts DEF EntryOf, UnplacedEntry, TxEntry
<1>3. entry \in TxEntry /\ entry.placed /\ entry.status = "pending"
  BY <1>2 DEF TxEntry
<1> HIDE DEF entry
<1>4. s0 \in Senders /\ n0 \in Nonces /\ None \notin TxEntry
  BY StateParts
<1>5. /\ m.txs \in [Hashes -> TxEntry \cup {None}]
      /\ m.sender_queues \in [Senders -> [Nonces -> Hashes \cup {None}]]
  BY DEF MempoolState
<1>6. e.txs \in [Hashes -> TxEntry \cup {None}]
  BY <1>1, <1>3, <1>5
<1>7. e.sender_queues \in [Senders -> [Nonces -> Hashes \cup {None}]]
  BY <1>1, <1>4, <1>5
<1>8. e \in MempoolState
  BY <1>1, <1>6, <1>7 DEF MempoolState
<1>9. e.txs[h] = entry /\ \A x \in Hashes : x # h => e.txs[x] = m.txs[x]
  BY <1>1, <1>5
<1>10. /\ e.sender_queues[s0][n0] = h
       /\ \A s \in Senders, n \in Nonces : ~(s = s0 /\ n = n0) =>
            e.sender_queues[s][n] = m.sender_queues[s][n]
       /\ \A s \in Senders : s # s0 => e.sender_queues[s] = m.sender_queues[s]
  BY <1>1, <1>4, <1>5
<1>11. Positioned(e)
  BY <1>10 DEF Positioned
<1>12. QED
  BY <1>3, <1>4, <1>8, <1>9, <1>10, <1>11 DEF IsPending, SlotOf

\* A change of h's entry alone concerns nobody but h's sender.
LEMMA OneEntryChanged ==
    ASSUME NEW m \in MempoolState, Positioned(m), NEW u \in MempoolState, NEW h \in Hashes,
           u.sender_queues = m.sender_queues,
           \A x \in Hashes : x # h => u.txs[x] = m.txs[x]
    PROVE  /\ Positioned(u)
           /\ \A x \in Hashes : x # h => (IsPending(u, x) <=> IsPending(m, x))
           /\ \A s \in Senders, n \in Nonces :
                m.sender_queues[s][n] # h => LiveSlot(u, s, n) = LiveSlot(m, s, n)
           /\ \A t \in Senders : t # Tx[h].sender =>
                /\ AllLive(m, t) => AllLive(u, t)
                /\ FreshStates(m, t) => FreshStates(u, t)
           /\ LivePlaced(m) /\ (IsPending(u, h) => u.txs[h].placed) => LivePlaced(u)
<1> DEFINE s0 == Tx[h].sender
<1>1. Positioned(u)
  BY DEF Positioned
<1>2. \A x \in Hashes : x # h => (IsPending(u, x) <=> IsPending(m, x))
  BY DEF IsPending
<1>3. \A s \in Senders, n \in Nonces :
        m.sender_queues[s][n] # h => LiveSlot(u, s, n) = LiveSlot(m, s, n)
  BY <1>2, StateParts DEF LiveSlot
<1>4. \A t \in Senders, n \in Nonces : t # s0 => m.sender_queues[t][n] # h
  BY StateParts DEF Positioned
<1>5. \A t \in Senders : t # s0 /\ AllLive(m, t) => AllLive(u, t)
  BY <1>3, <1>4 DEF AllLive
<1>6. \A t \in Senders : t # s0 /\ FreshStates(m, t) => FreshStates(u, t)
  <2>1. s0 \in Senders
    BY StateParts
  <2>2. \A x \in Hashes : Tx[x].sender # s0 => u.txs[x] = m.txs[x]
    OBVIOUS
  <2>3. \A t \in Senders : t # s0 => u.sender_queues[t] = m.sender_queues[t]
    OBVIOUS
  <2> HIDE DEF s0
  <2>4. QED
    BY <2>1, <2>2, <2>3, OthersStayFresh
<1>7. ASSUME LivePlaced(m), IsPending(u, h) => u.txs[h].placed
      PROVE  LivePlaced(u)
  <2> SUFFICES ASSUME NEW s \in Senders, NEW n \in Nonces, LiveSlot(u, s, n) # None
               PROVE  u.txs[LiveSlot(u, s, n)].placed
    BY DEF LivePlaced
  <2>1. /\ LiveSlot(u, s, n) = m.sender_queues[s][n]
        /\ LiveSlot(u, s, n) \in Hashes
        /\ IsPending(u, LiveSlot(u, s, n))
    BY StateParts DEF LiveSlot
  <2>2. CASE LiveSlot(u, s, n) = h
    BY <1>7, <2>1, <2>2
  <2>3. CASE LiveSlot(u, s, n) # h
    <3>1. LiveSlot(u, s, n) = LiveSlot(m, s, n)
      BY <1>3, <2>1, <2>3
    <3>2. m.txs[LiveSlot(m, s, n)].placed
      BY <1>7, <3>1 DEF LivePlaced
    <3>3. QED
      BY <2>1, <2>3, <3>1, <3>2
  <2>4. QED
    BY <2>2, <2>3
<1>8. QED
  BY <1>1, <1>2, <1>3, <1>5, <1>6, <1>7

\* In a full replay a hash that has not told its sender is in no queue ...
LEMMA UnplacedNowhere ==
    ASSUME NEW m, Good(m), NEW h \in Hashes, m.txs[h] = None \/ ~m.txs[h].placed
    PROVE  \A s \in Senders, n \in Nonces : m.sender_queues[s][n] # h
<1> SUFFICES ASSUME NEW s \in Senders, NEW n \in Nonces, m.sender_queues[s][n] = h
             PROVE  FALSE
  OBVIOUS
<1>1. m \in MempoolState /\ LivePlaced(m) /\ AllLive(m, s)
  BY DEF Good
<1>2. h # None
  BY <1>1, StateParts
<1>3. LiveSlot(m, s, n) = h
  BY <1>1 DEF AllLive
<1>4. m.txs[h].placed
  BY <1>1, <1>2, <1>3 DEF LivePlaced
<1>5. m.txs[h] # None
  BY <1>2, <1>3 DEF LiveSlot, IsPending
<1>6. QED
  BY <1>4, <1>5

\* ... so that its entry may change as it will.
LEMMA UnplacedChange ==
    ASSUME NEW m, Good(m), NEW u \in MempoolState, NEW h \in Hashes,
           m.txs[h] = None \/ ~m.txs[h].placed,
           u.sender_queues = m.sender_queues,
           \A x \in Hashes : x # h => u.txs[x] = m.txs[x]
    PROVE  Good(u) /\ (AllFresh(m) => AllFresh(u))
<1>1. m \in MempoolState /\ Positioned(m) /\ LivePlaced(m) /\ \A s \in Senders : AllLive(m, s)
  BY DEF Good
<1>2. \A s \in Senders, n \in Nonces : m.sender_queues[s][n] # h
  BY UnplacedNowhere
<1>3. Positioned(u) /\ \A s \in Senders, n \in Nonces : LiveSlot(u, s, n) = LiveSlot(m, s, n)
  BY <1>1, <1>2, OneEntryChanged
<1>4. \A s \in Senders : AllLive(u, s)
  BY <1>1, <1>3 DEF AllLive
<1>5. LivePlaced(u)
  <2> SUFFICES ASSUME NEW s \in Senders, NEW n \in Nonces, LiveSlot(u, s, n) # None
               PROVE  u.txs[LiveSlot(u, s, n)].placed
    BY DEF LivePlaced
  <2>1. /\ LiveSlot(m, s, n) = m.sender_queues[s][n] /\ LiveSlot(m, s, n) \in Hashes
        /\ m.txs[LiveSlot(m, s, n)].placed
    BY <1>1, <1>3, StateParts DEF LivePlaced, LiveSlot
  <2>2. QED
    BY <1>2, <1>3, <2>1
<1>6. Good(u)
  BY <1>3, <1>4, <1>5 DEF Good
<1>7. ASSUME NEW t \in Senders, FreshStates(m, t)
      PROVE  FreshStates(u, t)
  <2>1. \A n \in Nonces : m.sender_queues[t][n] # None =>
          /\ m.sender_queues[t][n] \in Hashes
          /\ u.txs[m.sender_queues[t][n]] = m.txs[m.sender_queues[t][n]]
    BY <1>1, <1>2, StateParts
  <2>2. PendingNonces(u, t) = PendingNonces(m, t)
    BY <2>1 DEF PendingNonces, IsPending
  <2>3. \A n \in PendingNonces(m, t) : n \in Nonces /\ m.sender_queues[t][n] # None
    BY DEF PendingNonces
  <2>4. QED
    BY <1>7, <2>1, <2>2, <2>3 DEF FreshStates
<1>8. QED
  BY <1>6, <1>7 DEF AllFresh

\* `ensure_sender_queue_entry` and the classification after it.
LEMMA PlacedFacts ==
    ASSUME NEW m \in MempoolState, Positioned(m), NEW h \in Hashes, NEW p,
           p = Placed(m, h)
    PROVE  /\ p \in MempoolState /\ Positioned(p)
           /\ p.txs[h] # None
           /\ PutsIn(m, p, h, None)
           /\ LivePlaced(m) => LivePlaced(p)
           /\ AllLive(p, Tx[h].sender) /\ FreshStates(p, Tx[h].sender)
           /\ \A t \in Senders : t # Tx[h].sender =>
                /\ AllLive(m, t) => AllLive(p, t)
                /\ FreshStates(m, t) => FreshStates(p, t)
<1>1. PICK s0 \in Senders, n0 \in Nonces : s0 = Tx[h].sender /\ n0 = Tx[h].nonce
  BY StateParts
<1>2. PICK e : e = EnsureSenderQueueEntry(m, h)
  OBVIOUS
<1>3. /\ e \in MempoolState /\ Positioned(e)
      /\ e.txs[h] # None /\ e.txs[h].placed /\ IsPending(e, h)
      /\ \A x \in Hashes : x # h => e.txs[x] = m.txs[x]
      /\ e.sender_queues[s0][n0] = h
      /\ \A s \in Senders, n \in Nonces : ~(s = s0 /\ n = n0) =>
           e.sender_queues[s][n] = m.sender_queues[s][n]
      /\ \A s \in Senders : s # s0 => e.sender_queues[s] = m.sender_queues[s]
  BY <1>1, <1>2, EnsureFacts DEF SlotOf
<1>4. p = RecomputeSenderQueueStates(e, s0)
  BY <1>1, <1>2 DEF Placed
<1>5. /\ p \in MempoolState
      /\ \A x \in Hashes :
           /\ p.txs[x] = None <=> e.txs[x] = None
           /\ e.txs[x] # None => p.txs[x].placed = e.txs[x].placed
           /\ Tx[x].sender # s0 => p.txs[x] = e.txs[x]
      /\ \A t \in Senders : t # s0 => p.sender_queues[t] = e.sender_queues[t]
      /\ FreshStates(p, s0)
  BY <1>3, <1>4, RecomputeFacts
<1>6. /\ Positioned(p)
      /\ \A x \in Hashes : IsPending(p, x) <=> IsPending(e, x)
      /\ \A t \in Senders, n \in Nonces : LiveSlot(p, t, n) = LiveSlot(e, t, n)
      /\ AllLive(p, s0)
      /\ \A t \in Senders : AllLive(e, t) => AllLive(p, t)
  BY <1>3, <1>4, RecomputeKeeps
<1>7. ASSUME NEW x \in Hashes
      PROVE  IsPending(p, x) <=> x = h \/ IsPending(m, x)
  <2>1. CASE x = h
    BY <1>3, <1>6, <2>1
  <2>2. CASE x # h
    <3>1. e.txs[x] = m.txs[x]
      BY <1>3, <2>2
    <3>2. IsPending(e, x) <=> IsPending(m, x)
      BY <3>1 DEF IsPending
    <3>3. QED
      BY <1>6, <2>2, <3>2
  <2>3. QED
    BY <2>1, <2>2
<1>8. \A s \in Senders, n \in Nonces : ~(s = s0 /\ n = n0) => m.sender_queues[s][n] # h
  BY <1>1, StateParts DEF Positioned
<1>9. ASSUME NEW s \in Senders, NEW n \in Nonces
      PROVE  LiveSlot(p, s, n) = IF s = s0 /\ n = n0 THEN h ELSE LiveSlot(m, s, n)
  <2>1. CASE s = s0 /\ n = n0
    BY <1>3, <1>6, <2>1, StateParts DEF LiveSlot
  <2>2. CASE ~(s = s0 /\ n = n0)
    <3>1. e.sender_queues[s][n] = m.sender_queues[s][n] /\ m.sender_queues[s][n] # h
      BY <1>3, <1>8, <2>2
    <3>2. m.sender_queues[s][n] # None =>
            (IsPending(e, m.sender_queues[s][n]) <=> IsPending(m, m.sender_queues[s][n]))
      BY <1>3, <3>1, StateParts DEF IsPending
    <3>3. LiveSlot(e, s, n) = LiveSlot(m, s, n)
      BY <3>1, <3>2 DEF LiveSlot
    <3>4. QED
      BY <1>6, <2>2, <3>3
  <2>3. QED
    BY <2>1, <2>2
<1>10. PutsIn(m, p, h, None)
  BY <1>1, <1>7, <1>9, StateParts DEF PutsIn
<1>11. ASSUME LivePlaced(m)
       PROVE  LivePlaced(p)
  <2> SUFFICES ASSUME NEW s \in Senders, NEW n \in Nonces, LiveSlot(p, s, n) # None
               PROVE  p.txs[LiveSlot(p, s, n)].placed
    BY DEF LivePlaced
  <2>1. CASE LiveSlot(p, s, n) = h
    BY <1>3, <1>5, <2>1
  <2>2. CASE LiveSlot(p, s, n) # h
    <3>1. LiveSlot(p, s, n) = LiveSlot(m, s, n)
      BY <1>9, <2>2
    <3>2. /\ LiveSlot(m, s, n) \in Hashes /\ m.txs[LiveSlot(m, s, n)] # None
          /\ m.txs[LiveSlot(m, s, n)].placed
      BY <1>11, <3>1, StateParts DEF LivePlaced, LiveSlot, IsPending
    <3>3. QED
      BY <1>3, <1>5, <2>2, <3>1, <3>2
  <2>3. QED
    BY <2>1, <2>2
<1>12. ASSUME NEW t \in Senders, t # s0, AllLive(m, t)
       PROVE  AllLive(p, t)
  BY <1>3, <1>5, <1>9, <1>12 DEF AllLive
<1>13. \A t \in Senders : t # s0 /\ FreshStates(m, t) => FreshStates(p, t)
  <2>1. \A x \in Hashes : Tx[x].sender # s0 => p.txs[x] = m.txs[x]
    BY <1>1, <1>3, <1>5
  <2>2. \A t \in Senders : t # s0 => p.sender_queues[t] = m.sender_queues[t]
    BY <1>3, <1>5
  <2>3. QED
    BY <2>1, <2>2, OthersStayFresh
<1>14. p.txs[h] # None
  BY <1>3, <1>5
<1>15. QED
  BY <1>1, <1>5, <1>6, <1>10, <1>11, <1>12, <1>13, <1>14

\* A full replay after h was placed: the queue of h's sender is new, and the
\* others have to be right already.
LEMMA PlacedGood ==
    ASSUME NEW m \in MempoolState, Positioned(m), LivePlaced(m), NEW h \in Hashes, NEW p,
           p = Placed(m, h),
           \A t \in Senders : t # Tx[h].sender => AllLive(m, t)
    PROVE  /\ Good(p)
           /\ (\A t \in Senders : t # Tx[h].sender => FreshStates(m, t)) => AllFresh(p)
<1>1. /\ p \in MempoolState /\ Positioned(p) /\ LivePlaced(p)
      /\ AllLive(p, Tx[h].sender) /\ FreshStates(p, Tx[h].sender)
      /\ \A t \in Senders : t # Tx[h].sender => AllLive(p, t)
      /\ \A t \in Senders : t # Tx[h].sender /\ FreshStates(m, t) => FreshStates(p, t)
  BY PlacedFacts
<1>2. QED
  BY <1>1 DEF Good, AllFresh

----------------------------------------------------------------------------
(* A hash changes its status *)

\* `set_status` to a status that is not pending.
LEMMA SetStatusFacts ==
    ASSUME NEW m \in MempoolState, Positioned(m), NEW h \in Hashes,
           NEW status \in {"replaced", "dropped", "provisional", "final"},
           NEW block \in BlockHashes \cup {None}, NEW d, d = SetStatus(m, h, status, block)
    PROVE  /\ d \in MempoolState /\ Positioned(d)
           /\ d.txs[h] # None /\ ~IsPending(d, h)
           /\ HasPlace(d, h) <=> HasPlace(m, h)
           /\ ChangesOnly(m, d, h)
           /\ TakesOut(m, d, h)
<1> DEFINE entry == [EntryOf(m, h) EXCEPT !.status = status, !.block_hash = block,
                                          !.queue_state = None]
<1>1. EntryOf(m, h) \in TxEntry /\ EntryOf(m, h).placed = (m.txs[h] # None /\ m.txs[h].placed)
  BY StateParts DEF EntryOf, UnplacedEntry, TxEntry
<1>2. /\ entry \in TxEntry /\ entry.status = status
      /\ entry.placed = (m.txs[h] # None /\ m.txs[h].placed)
  BY <1>1 DEF TxEntry
<1>3. d = [m EXCEPT !.txs[h] = entry]
  BY DEF SetStatus
<1> HIDE DEF entry
<1>4. /\ m.txs \in [Hashes -> TxEntry \cup {None}]
      /\ m.sender_queues \in [Senders -> [Nonces -> Hashes \cup {None}]]
      /\ None \notin TxEntry
  BY StateParts DEF MempoolState
<1>5. d.sender_queues = m.sender_queues /\ d.txs = [m.txs EXCEPT ![h] = entry]
  BY <1>3 DEF MempoolState
<1>6. d \in MempoolState
  BY <1>2, <1>3 DEF MempoolState
<1>7. d.txs[h] = entry /\ \A x \in Hashes : x # h => d.txs[x] = m.txs[x]
  BY <1>4, <1>5
<1>8. d.txs[h] # None /\ ~IsPending(d, h)
  BY <1>2, <1>4, <1>7 DEF IsPending
<1>9. /\ Positioned(d)
      /\ \A x \in Hashes : x # h => (IsPending(d, x) <=> IsPending(m, x))
      /\ \A s \in Senders, n \in Nonces :
           m.sender_queues[s][n] # h => LiveSlot(d, s, n) = LiveSlot(m, s, n)
  <2>1. d.sender_queues = m.sender_queues /\ \A x \in Hashes : x # h => d.txs[x] = m.txs[x]
    BY <1>5, <1>7
  <2>2. QED
    BY <1>6, <2>1, OneEntryChanged
<1>10. ASSUME NEW s \in Senders, NEW n \in Nonces
       PROVE  LiveSlot(d, s, n) = IF LiveSlot(m, s, n) = h THEN None ELSE LiveSlot(m, s, n)
  <2>1. CASE m.sender_queues[s][n] = h
    <3>1. LiveSlot(d, s, n) = None
      BY <1>5, <1>8, <2>1 DEF LiveSlot
    <3>2. LiveSlot(m, s, n) = h \/ LiveSlot(m, s, n) = None
      BY <2>1 DEF LiveSlot
    <3>3. QED
      BY <3>1, <3>2
  <2>2. CASE m.sender_queues[s][n] # h
    <3>1. LiveSlot(m, s, n) # h
      BY <2>2, StateParts DEF LiveSlot
    <3>2. QED
      BY <1>9, <2>2, <3>1
  <2>3. QED
    BY <2>1, <2>2
<1>11. TakesOut(m, d, h)
  BY <1>8, <1>9, <1>10 DEF TakesOut
<1>12. HasPlace(d, h) <=> HasPlace(m, h)
  BY <1>2, <1>7, <1>8 DEF HasPlace
<1>13. ChangesOnly(m, d, h)
  BY <1>5, <1>7 DEF ChangesOnly
<1>14. QED
  BY <1>6, <1>8, <1>9, <1>11, <1>12, <1>13

\* `remove_sender_queue_entry` of a hash that is not pending.
LEMMA RemoveFacts ==
    ASSUME NEW m \in MempoolState, Positioned(m), NEW h \in Hashes, ~IsPending(m, h), NEW r,
           r = RemoveSenderQueueEntry(m, h)
    PROVE  /\ r \in MempoolState /\ Positioned(r)
           /\ r.txs = m.txs
           /\ \A s \in Senders, n \in Nonces : LiveSlot(r, s, n) = LiveSlot(m, s, n)
           /\ \A s \in Senders : s # Tx[h].sender => r.sender_queues[s] = m.sender_queues[s]
<1>1. PICK s0 \in Senders, n0 \in Nonces : s0 = Tx[h].sender /\ n0 = Tx[h].nonce
  BY StateParts
<1>2. CASE m.sender_queues[s0][n0] = h
  <2>1. r = [m EXCEPT !.sender_queues[s0][n0] = None]
    BY <1>1, <1>2 DEF RemoveSenderQueueEntry, SlotOf
  <2>2. m.sender_queues \in [Senders -> [Nonces -> Hashes \cup {None}]]
    BY DEF MempoolState
  <2>3. r.txs = m.txs /\ r.sender_queues = [m.sender_queues EXCEPT ![s0][n0] = None]
    BY <2>1 DEF MempoolState
  <2>4. r.sender_queues \in [Senders -> [Nonces -> Hashes \cup {None}]]
    BY <2>2, <2>3
  <2>5. r \in MempoolState
    <3>1. r = [txs |-> m.txs, sender_queues |-> r.sender_queues]
      BY <2>1 DEF MempoolState
    <3>2. QED
      BY <2>4, <3>1 DEF MempoolState
  <2>6. /\ r.sender_queues[s0][n0] = None
        /\ \A s \in Senders, n \in Nonces : ~(s = s0 /\ n = n0) =>
             r.sender_queues[s][n] = m.sender_queues[s][n]
        /\ \A s \in Senders : s # s0 => r.sender_queues[s] = m.sender_queues[s]
    BY <2>2, <2>3
  <2>7. Positioned(r)
    BY <2>6 DEF Positioned
  <2>8. \A x : IsPending(r, x) <=> IsPending(m, x)
    BY <2>3 DEF IsPending
  <2>9. ASSUME NEW s \in Senders, NEW n \in Nonces
        PROVE  LiveSlot(r, s, n) = LiveSlot(m, s, n)
    <3>1. CASE s = s0 /\ n = n0
      BY <1>2, <2>6, <3>1 DEF LiveSlot
    <3>2. CASE ~(s = s0 /\ n = n0)
      BY <2>6, <2>8, <3>2 DEF LiveSlot
    <3>3. QED
      BY <3>1, <3>2
  <2>10. QED
    BY <1>1, <2>3, <2>5, <2>6, <2>7, <2>9
<1>3. CASE m.sender_queues[s0][n0] # h
  BY <1>1, <1>3 DEF RemoveSenderQueueEntry, SlotOf
<1>4. QED
  BY <1>2, <1>3

\* A dropped, replaced or confirmed transaction: whatever is known of it, it is
\* pending no more and queued no more.
LEMMA FinishedFacts ==
    ASSUME NEW m \in MempoolState, Positioned(m), NEW h \in Hashes,
           NEW status \in {"replaced", "dropped", "provisional", "final"},
           NEW block \in BlockHashes \cup {None}, NEW u,
           u = Unqueued(SetStatus(m, h, status, block), h)
    PROVE  /\ u \in MempoolState /\ Positioned(u)
           /\ TakesOut(m, u, h)
           /\ KeepsGood(m, u)
<1>1. PICK d : d = SetStatus(m, h, status, block)
  OBVIOUS
<1>2. /\ d \in MempoolState /\ Positioned(d)
      /\ d.sender_queues = m.sender_queues
      /\ d.txs[h] # None /\ ~IsPending(d, h)
      /\ HasPlace(d, h) <=> HasPlace(m, h)
      /\ \A x \in Hashes : x # h => d.txs[x] = m.txs[x]
      /\ TakesOut(m, d, h)
  <2>1. d \in MempoolState /\ Positioned(d)
    BY <1>1, SetStatusFacts
  <2>2. d.txs[h] # None /\ ~IsPending(d, h) /\ TakesOut(m, d, h)
    BY <1>1, SetStatusFacts
  <2>3. HasPlace(d, h) <=> HasPlace(m, h)
    BY <1>1, SetStatusFacts
  <2>4. ChangesOnly(m, d, h)
    BY <1>1, SetStatusFacts
  <2>5. QED
    BY <2>1, <2>2, <2>3, <2>4 DEF ChangesOnly
<1>3. u = Unqueued(d, h)
  BY <1>1
<1>4. CASE ~d.txs[h].placed
  <2>1. u = d
    BY <1>3, <1>4 DEF Unqueued
  <2>2. m.txs[h] = None \/ ~m.txs[h].placed
    BY <1>2, <1>4 DEF HasPlace
  <2>3. KeepsGood(m, u)
    BY <1>2, <2>1, <2>2, UnplacedChange DEF KeepsGood
  <2>4. QED
    BY <1>2, <2>1, <2>3
<1>5. CASE d.txs[h].placed
  <2>1. PICK s0 \in Senders : s0 = Tx[h].sender
    BY StateParts
  <2>2. PICK r : r = RemoveSenderQueueEntry(d, h)
    OBVIOUS
  <2>3. /\ r \in MempoolState /\ Positioned(r)
        /\ r.txs = d.txs
        /\ \A s \in Senders, n \in Nonces : LiveSlot(r, s, n) = LiveSlot(d, s, n)
        /\ \A s \in Senders : s # s0 => r.sender_queues[s] = d.sender_queues[s]
    BY <1>2, <2>1, <2>2, RemoveFacts
  <2>4. u = RecomputeSenderQueueStates(r, s0)
    BY <1>3, <1>5, <2>1, <2>2 DEF Unqueued
  <2>5. /\ u \in MempoolState
        /\ \A x \in Hashes :
             /\ r.txs[x] # None => u.txs[x].placed = r.txs[x].placed
             /\ Tx[x].sender # s0 => u.txs[x] = r.txs[x]
        /\ \A t \in Senders : t # s0 => u.sender_queues[t] = r.sender_queues[t]
        /\ FreshStates(u, s0)
    BY <2>3, <2>4, RecomputeFacts
  <2>6. /\ Positioned(u)
        /\ \A x \in Hashes : IsPending(u, x) <=> IsPending(r, x)
        /\ \A t \in Senders, n \in Nonces : LiveSlot(u, t, n) = LiveSlot(r, t, n)
        /\ AllLive(u, s0)
        /\ \A t \in Senders : AllLive(r, t) => AllLive(u, t)
    BY <2>3, <2>4, RecomputeKeeps
  <2>7. TakesOut(m, u, h)
    <3>1. \A x \in Hashes : IsPending(u, x) <=> IsPending(d, x)
      BY <2>3, <2>6 DEF IsPending
    <3>2. \A s \in Senders, n \in Nonces : LiveSlot(u, s, n) = LiveSlot(d, s, n)
      BY <2>3, <2>6
    <3>3. QED
      BY <1>2, <3>1, <3>2 DEF TakesOut
  <2>8. ASSUME Good(m)
        PROVE  Good(u) /\ (AllFresh(m) => AllFresh(u))
    <3>1. /\ LivePlaced(m) /\ \A s \in Senders : AllLive(m, s)
      BY <2>8 DEF Good
    <3>2. /\ LivePlaced(d)
          /\ \A t \in Senders : t # s0 => AllLive(d, t)
          /\ \A t \in Senders : t # s0 /\ FreshStates(m, t) => FreshStates(d, t)
      BY <1>2, <2>1, <3>1, OneEntryChanged
    <3>3. ASSUME NEW t \in Senders, t # s0
          PROVE  AllLive(u, t)
      BY <2>3, <2>6, <3>2, <3>3 DEF AllLive
    <3>4. LivePlaced(u)
      <4> SUFFICES ASSUME NEW s \in Senders, NEW n \in Nonces, LiveSlot(u, s, n) # None
                   PROVE  u.txs[LiveSlot(u, s, n)].placed
        BY DEF LivePlaced
      <4>1. LiveSlot(u, s, n) = LiveSlot(d, s, n)
        BY <2>3, <2>6
      <4>2. /\ LiveSlot(d, s, n) \in Hashes /\ d.txs[LiveSlot(d, s, n)] # None
        BY <1>2, <4>1, StateParts DEF LiveSlot, IsPending
      <4>3. d.txs[LiveSlot(d, s, n)].placed
        BY <3>2, <4>1 DEF LivePlaced
      <4>4. QED
        BY <2>3, <2>5, <4>1, <4>2, <4>3
    <3>5. Good(u)
      BY <2>5, <2>6, <3>3, <3>4 DEF Good
    <3>6. \A t \in Senders : t # s0 /\ FreshStates(d, t) => FreshStates(u, t)
      <4>1. \A x \in Hashes : Tx[x].sender # s0 => u.txs[x] = d.txs[x]
        BY <2>3, <2>5
      <4>2. \A t \in Senders : t # s0 => u.sender_queues[t] = d.sender_queues[t]
        BY <2>3, <2>5
      <4>3. QED
        BY <1>2, <4>1, <4>2, OthersStayFresh
    <3>7. AllFresh(m) => AllFresh(u)
      BY <2>5, <3>2, <3>6 DEF AllFresh
    <3>8. QED
      BY <3>5, <3>7
  <2>9. QED
    BY <2>5, <2>6, <2>7, <2>8 DEF KeepsGood
<1>6. QED
  BY <1>4, <1>5

----------------------------------------------------------------------------
(* The events *)

\* TxDecoded: the pending hash that held the slot is replaced by h.
LEMMA DecodedFacts ==
    ASSUME NEW m \in MempoolState, Positioned(m), NEW h \in Hashes, NEW u,
           u = ApplyDecoded(m, h)
    PROVE  /\ u \in MempoolState /\ Positioned(u)
           /\ PutsIn(m, u, h, LiveSlot(m, Tx[h].sender, Tx[h].nonce))
           /\ KeepsGood(m, u)
<1>1. PICK s0 \in Senders, n0 \in Nonces : s0 = Tx[h].sender /\ n0 = Tx[h].nonce
  BY StateParts
<1>2. PICK old \in Hashes \cup {None} : old = m.sender_queues[s0][n0]
  BY StateParts
<1>3. None \notin Hashes
  BY StateParts
<1>4. CASE old # None /\ old # h /\ m.txs[old] # None
  <2>1. PICK d : d = SetStatus(m, old, "replaced", None)
    OBVIOUS
  <2>2. u = Placed(d, h)
    BY <1>1, <1>2, <1>4, <2>1 DEF ApplyDecoded, SlotOf
  <2>3. /\ old \in Hashes /\ Tx[old].sender = s0
        /\ \A s \in Senders, n \in Nonces : ~(s = s0 /\ n = n0) => m.sender_queues[s][n] # old
    BY <1>1, <1>2, <1>4 DEF Positioned
  <2>4. /\ d \in MempoolState /\ Positioned(d)
        /\ d.sender_queues = m.sender_queues
        /\ ~IsPending(d, old)
        /\ \A x \in Hashes : x # old => d.txs[x] = m.txs[x]
        /\ TakesOut(m, d, old)
    BY <2>1, <2>3, SetStatusFacts DEF ChangesOnly
  <2>5. u \in MempoolState /\ Positioned(u) /\ PutsIn(d, u, h, None)
    BY <2>2, <2>4, PlacedFacts
  <2>6. LiveSlot(m, s0, n0) = IF IsPending(m, old) THEN old ELSE None
    BY <1>2, <1>4 DEF LiveSlot
  <2>7. \A x \in Hashes :
          IsPending(u, x) <=> x = h \/ (x # LiveSlot(m, s0, n0) /\ IsPending(m, x))
    BY <1>3, <1>4, <2>3, <2>4, <2>5, <2>6 DEF PutsIn, TakesOut
  <2>8. ASSUME NEW s \in Senders, NEW n \in Nonces
        PROVE  LiveSlot(u, s, n) = IF s = s0 /\ n = n0 THEN h ELSE LiveSlot(m, s, n)
    <3>1. LiveSlot(u, s, n) = IF s = s0 /\ n = n0 THEN h ELSE LiveSlot(d, s, n)
      BY <1>1, <2>5 DEF PutsIn
    <3>2. ~(s = s0 /\ n = n0) => LiveSlot(m, s, n) # old
      BY <1>3, <2>3 DEF LiveSlot
    <3>3. QED
      BY <2>4, <3>1, <3>2 DEF TakesOut
  <2>9. PutsIn(m, u, h, LiveSlot(m, s0, n0))
    BY <1>1, <2>7, <2>8 DEF PutsIn
  <2>10. ASSUME Good(m)
         PROVE  Good(u) /\ (AllFresh(m) => AllFresh(u))
    <3>1. /\ LivePlaced(m) /\ \A s \in Senders : AllLive(m, s)
      BY <2>10 DEF Good
    <3>2. /\ LivePlaced(d)
          /\ \A t \in Senders : t # s0 => AllLive(d, t)
          /\ \A t \in Senders : t # s0 /\ FreshStates(m, t) => FreshStates(d, t)
      BY <2>3, <2>4, <3>1, OneEntryChanged
    <3>3. /\ Good(u)
          /\ (\A t \in Senders : t # s0 => FreshStates(d, t)) => AllFresh(u)
      BY <1>1, <2>2, <2>4, <3>2, PlacedGood
    <3>4. QED
      BY <3>2, <3>3 DEF AllFresh
  <2>11. QED
    BY <1>1, <2>5, <2>9, <2>10 DEF KeepsGood
<1>5. CASE ~(old # None /\ old # h /\ m.txs[old] # None)
  <2>1. u = Placed(m, h)
    BY <1>1, <1>2, <1>5 DEF ApplyDecoded, SlotOf
  <2>2. u \in MempoolState /\ Positioned(u) /\ PutsIn(m, u, h, None)
    BY <2>1, PlacedFacts
  <2>3. LiveSlot(m, s0, n0) = h \/ LiveSlot(m, s0, n0) = None
    BY <1>2, <1>5 DEF LiveSlot, IsPending
  <2>4. PutsIn(m, u, h, LiveSlot(m, s0, n0))
    BY <1>3, <2>2, <2>3 DEF PutsIn
  <2>5. ASSUME Good(m)
        PROVE  Good(u) /\ (AllFresh(m) => AllFresh(u))
    <3>1. /\ LivePlaced(m) /\ \A s \in Senders : AllLive(m, s)
      BY <2>5 DEF Good
    <3>2. Good(u) /\ ((\A t \in Senders : t # s0 => FreshStates(m, t)) => AllFresh(u))
      BY <1>1, <2>1, <3>1, PlacedGood
    <3>3. QED
      BY <3>2 DEF AllFresh
  <2>6. QED
    BY <1>1, <2>2, <2>4, <2>5 DEF KeepsGood
<1>6. QED
  BY <1>4, <1>5

\* TxReplaced, of a known or an unknown hash.
LEMMA ReplacedFacts ==
    ASSUME NEW m \in MempoolState, Positioned(m), NEW h \in Hashes, NEW u,
           u = ApplyReplaced(m, h)
    PROVE  /\ u \in MempoolState /\ Positioned(u)
           /\ TakesOut(m, u, h)
           /\ KeepsGood(m, u)
<1>1. CASE m.txs[h] = None
  <2>1. u = m
    BY <1>1 DEF ApplyReplaced
  <2>2. ~IsPending(m, h)
    BY <1>1 DEF IsPending
  <2>3. \A s \in Senders, n \in Nonces : LiveSlot(m, s, n) # h
    BY <2>2, StateParts DEF LiveSlot
  <2>4. QED
    BY <2>1, <2>2, <2>3 DEF TakesOut, KeepsGood
<1>2. CASE m.txs[h] # None
  <2>1. u = Unqueued(SetStatus(m, h, "replaced", None), h)
    BY <1>2 DEF ApplyReplaced
  <2>2. QED
    BY <2>1, FinishedFacts
<1>3. QED
  BY <1>1, <1>2

\* TxReady and TxBlocked: h is placed, and the recorder's word goes over its state.
LEMMA ClaimFacts ==
    ASSUME NEW m \in MempoolState, Positioned(m), NEW h \in Hashes, NEW q \in QueueState, NEW u,
           u = [Placed(m, h) EXCEPT !.txs[h].queue_state = q] \/ u = Placed(m, h)
    PROVE  /\ u \in MempoolState /\ Positioned(u)
           /\ PutsIn(m, u, h, None)
           /\ Good(m) => Good(u)
<1>1. PICK p : p = Placed(m, h)
  OBVIOUS
<1>2. p \in MempoolState /\ Positioned(p) /\ p.txs[h] # None /\ PutsIn(m, p, h, None)
  BY <1>1, PlacedFacts
<1>3. Good(m) => Good(p)
  BY <1>1, PlacedGood DEF Good
<1>4. CASE u = p
  BY <1>2, <1>3, <1>4
<1>5. CASE u = [p EXCEPT !.txs[h].queue_state = q]
  <2>1. PICK entry : entry = [p.txs[h] EXCEPT !.queue_state = q]
    OBVIOUS
  <2>2. p.txs[h] \in TxEntry /\ None \notin TxEntry
    BY <1>2, StateParts
  <2>3. entry \in TxEntry /\ entry.status = p.txs[h].status /\ entry.placed = p.txs[h].placed
    BY <2>1, <2>2 DEF TxEntry
  <2>4. /\ u.sender_queues = p.sender_queues /\ u.txs = [p.txs EXCEPT ![h] = entry]
        /\ u = [txs |-> u.txs, sender_queues |-> u.sender_queues]
    BY <1>2, <1>5, <2>1 DEF MempoolState
  <2>5. /\ p.txs \in [Hashes -> TxEntry \cup {None}]
        /\ p.sender_queues \in [Senders -> [Nonces -> Hashes \cup {None}]]
    BY <1>2 DEF MempoolState
  <2>6. u \in MempoolState
    BY <2>3, <2>4, <2>5 DEF MempoolState
  <2>7. u.txs[h] = entry /\ \A x \in Hashes : x # h => u.txs[x] = p.txs[x]
    BY <2>4, <2>5
  <2>8. Positioned(u)
    BY <1>2, <2>4 DEF Positioned
  <2>9. \A x \in Hashes : IsPending(u, x) <=> IsPending(p, x)
    BY <1>2, <2>2, <2>3, <2>7 DEF IsPending
  <2>10. \A s \in Senders, n \in Nonces : LiveSlot(u, s, n) = LiveSlot(p, s, n)
    BY <1>2, <2>4, <2>9, StateParts DEF LiveSlot
  <2>11. PutsIn(m, u, h, None)
    BY <1>2, <2>9, <2>10 DEF PutsIn
  <2>12. ASSUME Good(p)
         PROVE  Good(u)
    <3>1. LivePlaced(p) /\ \A s \in Senders : AllLive(p, s)
      BY <2>12 DEF Good
    <3>2. \A s \in Senders : AllLive(u, s)
      BY <2>4, <2>10, <3>1 DEF AllLive
    <3>3. LivePlaced(u)
      <4> SUFFICES ASSUME NEW s \in Senders, NEW n \in Nonces, LiveSlot(u, s, n) # None
                   PROVE  u.txs[LiveSlot(u, s, n)].placed
        BY DEF LivePlaced
      <4>1. /\ LiveSlot(u, s, n) = LiveSlot(p, s, n)
            /\ LiveSlot(p, s, n) \in Hashes
        BY <1>2, <2>10, StateParts DEF LiveSlot
      <4>2. p.txs[LiveSlot(p, s, n)].placed
        BY <3>1, <4>1 DEF LivePlaced
      <4>3. CASE LiveSlot(p, s, n) = h
        BY <2>3, <2>7, <4>1, <4>2, <4>3
      <4>4. CASE LiveSlot(p, s, n) # h
        BY <2>7, <4>1, <4>2, <4>4
      <4>5. QED
        BY <4>3, <4>4
    <3>4. QED
      BY <2>6, <2>8, <3>2, <3>3 DEF Good
  <2>13. QED
    BY <1>3, <2>6, <2>8, <2>11, <2>12
<1>6. QED
  BY <1>1, <1>4, <1>5

\* TxReorged in a full replay: h is pending again, and queued if its sender is known.
LEMMA ReorgedFacts ==
    ASSUME NEW m, Good(m), NEW h \in Hashes, NEW block \in BlockHashes, NEW u,
           u = ApplyReorged(m, h, block)
    PROVE  Good(u) /\ (AllFresh(m) => AllFresh(u))
<1>1. m \in MempoolState /\ Positioned(m) /\ LivePlaced(m) /\ \A s \in Senders : AllLive(m, s)
  BY DEF Good
<1>2. CASE m.txs[h] = None \/ m.txs[h].block_hash # block
  <2>1. u = m
    BY <1>2 DEF ApplyReorged
  <2>2. QED
    BY <2>1
<1>3. CASE ~(m.txs[h] = None \/ m.txs[h].block_hash # block)
  <2>1. PICK d : d = [m EXCEPT !.txs[h].status = "pending", !.txs[h].block_hash = None]
    OBVIOUS
  <2>2. PICK entry : entry = [m.txs[h] EXCEPT !.status = "pending", !.block_hash = None]
    OBVIOUS
  <2>3. m.txs[h] \in TxEntry /\ None \notin TxEntry
    BY <1>1, <1>3, StateParts
  <2>4. entry \in TxEntry /\ entry.placed = m.txs[h].placed
    BY <2>2, <2>3 DEF TxEntry
  <2>5. /\ m.txs \in [Hashes -> TxEntry \cup {None}]
        /\ m.sender_queues \in [Senders -> [Nonces -> Hashes \cup {None}]]
        /\ m = [txs |-> m.txs, sender_queues |-> m.sender_queues]
    BY <1>1 DEF MempoolState
  <2>6. /\ d.sender_queues = m.sender_queues /\ d.txs = [m.txs EXCEPT ![h] = entry]
        /\ d = [txs |-> d.txs, sender_queues |-> d.sender_queues]
    BY <1>1, <2>1, <2>2, <2>3, <2>5 DEF MempoolState
  <2>7. d \in MempoolState
    BY <2>4, <2>5, <2>6 DEF MempoolState
  <2>8. d.txs[h] = entry /\ \A x \in Hashes : x # h => d.txs[x] = m.txs[x]
    BY <2>5, <2>6
  <2>9. CASE ~m.txs[h].placed
    <3>1. u = d
      BY <1>3, <2>1, <2>9 DEF ApplyReorged
    <3>2. QED
      BY <2>6, <2>7, <2>8, <2>9, <3>1, UnplacedChange
  <2>10. CASE m.txs[h].placed
    <3>1. u = Placed(d, h)
      BY <1>3, <2>1, <2>10 DEF ApplyReorged
    <3>2. d.txs[h].placed
      BY <2>4, <2>8, <2>10
    <3>3. /\ Positioned(d) /\ LivePlaced(d)
          /\ \A t \in Senders : t # Tx[h].sender => AllLive(d, t)
          /\ \A t \in Senders : t # Tx[h].sender /\ FreshStates(m, t) => FreshStates(d, t)
      BY <1>1, <2>6, <2>7, <2>8, <3>2, OneEntryChanged
    <3>4. /\ Good(u)
          /\ (\A t \in Senders : t # Tx[h].sender => FreshStates(d, t)) => AllFresh(u)
      BY <2>7, <3>1, <3>3, PlacedGood
    <3>5. QED
      BY <3>3, <3>4 DEF AllFresh
  <2>11. QED
    BY <2>9, <2>10
<1>4. QED
  BY <1>2, <1>3

----------------------------------------------------------------------------
(* The replay that resumes *)

\* The two replays agree on what is pending and on what of it is queued.
Agree(a, b) ==
    /\ \A h \in Hashes : IsPending(a, h) <=> IsPending(b, h)
    /\ \A s \in Senders, n \in Nonces : LiveSlot(a, s, n) = LiveSlot(b, s, n)

\* What a full replay shows of the queue slots.
LEMMA ViewFacts ==
    ASSUME NEW m \in MempoolState, NEW s \in Senders, NEW n \in Nonces
    PROVE  LET shown == SenderQueuesView(m)[s][n]
           IN  /\ shown = None <=> LiveSlot(m, s, n) = None
               /\ shown # None => shown.hash = LiveSlot(m, s, n)
<1> DEFINE shown == SenderQueuesView(m)[s][n]
           h == m.sender_queues[s][n]
           state == IF m.txs[h].queue_state # None THEN m.txs[h].queue_state
                    ELSE QueueEntryState(PendingNonces(m, s), n)
<1>1. shown = IF n \notin PendingNonces(m, s) THEN None ELSE [hash |-> h, state |-> state]
  BY DEF SenderQueuesView
<1>2. n \in PendingNonces(m, s) <=> h # None /\ IsPending(m, h)
  BY DEF PendingNonces
<1>3. CASE n \notin PendingNonces(m, s)
  BY <1>1, <1>2, <1>3 DEF LiveSlot
<1>4. CASE n \in PendingNonces(m, s)
  <2>1. /\ h \in Hashes /\ h # None /\ m.txs[h] \in TxEntry
        /\ LiveSlot(m, s, n) = h
    BY <1>2, <1>4, StateParts DEF LiveSlot, IsPending
  <2>2. m.txs[h].queue_state \in QueueState \cup {None}
    BY <2>1 DEF TxEntry
  <2>3. QueueEntryState(PendingNonces(m, s), n) \in QueueState
    BY <1>4, QueueEntryStateType DEF PendingNonces
  <2>4. state \in QueueState
    BY <2>2, <2>3
  <2> HIDE DEF state, h
  <2>5. shown = [hash |-> h, state |-> state]
    BY <1>1, <1>4
  <2>6. shown \in QueueEntry /\ shown.hash = h
    BY <2>1, <2>4, <2>5 DEF QueueEntry
  <2>7. shown # None
    BY <2>6, ReplayAssumption
  <2>8. QED
    BY <2>1, <2>6, <2>7
<1>5. QED
  BY <1>3, <1>4

\* A checkpoint keeps both.
LEMMA CheckpointFacts ==
    ASSUME NEW m \in MempoolState, Positioned(m), NEW b, b = FromCheckpoint(Frame(m))
    PROVE  b \in MempoolState /\ Positioned(b) /\ Agree(m, b)
<1> DEFINE view == SenderQueuesView(m)
           queued(h) == SlotOf(view, h) # None /\ SlotOf(view, h).hash = h
           claim(h) == [UnplacedEntry EXCEPT !.placed = TRUE,
                                             !.queue_state = SlotOf(view, h).state]
           slot(s, n) == IF view[s][n] = None THEN None ELSE view[s][n].hash
<1>1. /\ b.txs = [h \in Hashes |-> IF h \in PendingHashes(m) THEN UnplacedEntry
                                   ELSE IF queued(h) THEN claim(h) ELSE None]
      /\ b.sender_queues = [s \in Senders |-> [n \in Nonces |-> slot(s, n)]]
      /\ b = [txs |-> b.txs, sender_queues |-> b.sender_queues]
  BY DEF FromCheckpoint, Frame
<1>2. ASSUME NEW s \in Senders, NEW n \in Nonces
      PROVE  slot(s, n) = LiveSlot(m, s, n)
  BY ViewFacts
<1>3. ASSUME NEW h \in Hashes, queued(h)
      PROVE  h \in PendingHashes(m)
  <2>1. PICK s \in Senders, n \in Nonces : s = Tx[h].sender /\ n = Tx[h].nonce
    BY StateParts
  <2>2. LiveSlot(m, s, n) = h
    BY <1>2, <1>3, <2>1 DEF SlotOf
  <2>3. h # None
    BY StateParts
  <2>4. QED
    BY <2>2, <2>3 DEF LiveSlot, PendingHashes
<1> HIDE DEF slot, queued, claim
<1>4. b.txs = [h \in Hashes |-> IF h \in PendingHashes(m) THEN UnplacedEntry ELSE None]
  BY <1>1, <1>3
<1>5. /\ UnplacedEntry \in TxEntry /\ UnplacedEntry.status = "pending"
      /\ UnplacedEntry # None
  <2>1. UnplacedEntry \in TxEntry /\ UnplacedEntry.status = "pending"
    BY DEF UnplacedEntry, TxEntry
  <2>2. QED
    BY <2>1, ReplayAssumption
<1>6. \A s \in Senders, n \in Nonces :
        /\ b.sender_queues[s][n] = LiveSlot(m, s, n)
        /\ LiveSlot(m, s, n) \in Hashes \cup {None}
  BY <1>1, <1>2, StateParts DEF LiveSlot
<1>7. b \in MempoolState
  <2>1. b.txs \in [Hashes -> TxEntry \cup {None}]
    BY <1>4, <1>5
  <2>2. \A s \in Senders, n \in Nonces : slot(s, n) \in Hashes \cup {None}
    BY <1>2, <1>6
  <2>3. b.sender_queues \in [Senders -> [Nonces -> Hashes \cup {None}]]
    BY <1>1, <2>2
  <2>4. QED
    BY <1>1, <2>1, <2>3 DEF MempoolState
<1>8. \A h \in Hashes : IsPending(m, h) <=> IsPending(b, h)
  BY <1>4, <1>5 DEF IsPending, PendingHashes
<1>9. \A s \in Senders, n \in Nonces :
        LiveSlot(m, s, n) # None => /\ LiveSlot(m, s, n) = m.sender_queues[s][n]
                                    /\ IsPending(m, LiveSlot(m, s, n))
  BY DEF LiveSlot
<1>10. Positioned(b)
  BY <1>6, <1>9 DEF Positioned
<1>11. \A s \in Senders, n \in Nonces : LiveSlot(b, s, n) = LiveSlot(m, s, n)
  BY <1>6, <1>8, <1>9 DEF LiveSlot
<1>12. QED
  BY <1>7, <1>8, <1>10, <1>11 DEF Agree

----------------------------------------------------------------------------
(* The inductive invariant *)

\* `resumed` need not be a state of a full replay, but its queues are in place.
InStep ==
    resumed # None /\ ~reorged =>
        resumed \in MempoolState /\ Positioned(resumed) /\ Agree(full, resumed)

\* The inductive invariant of both theorems about replay.
ReplayInv ==
    /\ Good(full)
    /\ ~claimed => AllFresh(full)
    /\ InStep

\* Nothing is known before the first event, and nothing was resumed.
LEMMA InitReplay ==
    ASSUME ReplayInit
    PROVE  ReplayInv
<1>1. /\ full.txs = [h \in Hashes |-> None]
      /\ full.sender_queues = [s \in Senders |-> [n \in Nonces |-> None]]
      /\ full = [txs |-> full.txs, sender_queues |-> full.sender_queues]
      /\ resumed = None
  BY DEF ReplayInit, EmptyMempool, NoQueues
<1>2. full \in MempoolState
  BY <1>1 DEF MempoolState
<1>3. \A s \in Senders, n \in Nonces : full.sender_queues[s][n] = None
  BY <1>1
<1>4. \A s \in Senders, n \in Nonces : LiveSlot(full, s, n) = None
  BY <1>3 DEF LiveSlot
<1>5. Good(full)
  BY <1>2, <1>3, <1>4 DEF Good, Positioned, LivePlaced, AllLive
<1>6. AllFresh(full)
  BY <1>3 DEF AllFresh, FreshStates, PendingNonces
<1>7. QED
  BY <1>1, <1>5, <1>6 DEF ReplayInv, InStep

\* An event that takes the same hash out of both keeps them in step.
LEMMA AgreeOut ==
    ASSUME NEW a, NEW b, NEW c, NEW d, NEW h \in Hashes,
           Agree(a, b), TakesOut(a, c, h), TakesOut(b, d, h)
    PROVE  Agree(c, d)
BY DEF Agree, TakesOut

\* The same for an event that puts h in and displaces the same hash in both.
LEMMA AgreeIn ==
    ASSUME NEW a, NEW b, NEW c, NEW d, NEW h \in Hashes, NEW gone,
           Agree(a, b), PutsIn(a, c, h, gone), PutsIn(b, d, h, gone)
    PROVE  Agree(c, d)
BY DEF Agree, PutsIn

\* An event of the log that is not a reorg.
LEMMA EventKeeps ==
    ASSUME ReplayInv, NEW f, NEW g, Advance(f, g), reorged' = reorged,
           Good(f), AllFresh(full) => AllFresh(f) \/ claimed',
           claimed => claimed',
           resumed # None /\ ~reorged => g \in MempoolState /\ Positioned(g) /\ Agree(f, g)
    PROVE  ReplayInv'
<1>1. full' = f /\ (resumed = None => resumed' = None) /\ (resumed # None => resumed' = g)
  BY DEF Advance
<1>2. Good(full)' /\ (AllFresh(f) => AllFresh(full)')
  BY <1>1
<1>3. ~claimed' => AllFresh(full)'
  BY <1>2 DEF ReplayInv
<1>4. InStep'
  BY <1>1 DEF InStep
<1>5. QED
  BY <1>2, <1>3, <1>4 DEF ReplayInv

\* Both replays read a TxDecoded: they displace the same hash, if any.
LEMMA DecodedKeeps ==
    ASSUME ReplayInv, NEW h \in Hashes, Decoded(h)
    PROVE  ReplayInv'
<1>1. PICK f : f = ApplyDecoded(full, h)
  OBVIOUS
<1>2. PICK g : g = ApplyDecoded(resumed, h)
  OBVIOUS
<1>3. Advance(f, g) /\ reorged' = reorged /\ claimed' = claimed
  BY <1>1, <1>2 DEF Decoded
<1>4. Good(full) /\ full \in MempoolState /\ Positioned(full)
  BY DEF ReplayInv, Good
<1>5. /\ PutsIn(full, f, h, LiveSlot(full, Tx[h].sender, Tx[h].nonce))
      /\ KeepsGood(full, f)
  BY <1>1, <1>4, DecodedFacts
<1>6. ASSUME resumed # None, ~reorged
      PROVE  g \in MempoolState /\ Positioned(g) /\ Agree(f, g)
  <2>1. resumed \in MempoolState /\ Positioned(resumed) /\ Agree(full, resumed)
    BY <1>6 DEF ReplayInv, InStep
  <2>2. /\ g \in MempoolState /\ Positioned(g)
        /\ PutsIn(resumed, g, h, LiveSlot(resumed, Tx[h].sender, Tx[h].nonce))
    BY <1>2, <2>1, DecodedFacts
  <2>3. LiveSlot(resumed, Tx[h].sender, Tx[h].nonce) = LiveSlot(full, Tx[h].sender, Tx[h].nonce)
    BY <1>4, <2>1, StateParts DEF Agree
  <2>4. QED
    BY <1>5, <2>1, <2>2, <2>3, AgreeIn
<1>7. QED
  BY <1>3, <1>4, <1>5, <1>6, EventKeeps DEF KeepsGood

\* A status that ends a transaction; `Dropped` and `Confirmed` are such steps.
LEMMA FinishedKeeps ==
    ASSUME ReplayInv, NEW h \in Hashes,
           NEW status \in {"replaced", "dropped", "provisional", "final"},
           NEW block \in BlockHashes \cup {None},
           Advance(Unqueued(SetStatus(full, h, status, block), h),
                   Unqueued(SetStatus(resumed, h, status, block), h)),
           reorged' = reorged, claimed' = claimed
    PROVE  ReplayInv'
<1>1. PICK f : f = Unqueued(SetStatus(full, h, status, block), h)
  OBVIOUS
<1>2. PICK g : g = Unqueued(SetStatus(resumed, h, status, block), h)
  OBVIOUS
<1>3. Advance(f, g)
  BY <1>1, <1>2
<1>4. Good(full) /\ full \in MempoolState /\ Positioned(full)
  BY DEF ReplayInv, Good
<1>5. TakesOut(full, f, h) /\ KeepsGood(full, f)
  BY <1>1, <1>4, FinishedFacts
<1>6. ASSUME resumed # None, ~reorged
      PROVE  g \in MempoolState /\ Positioned(g) /\ Agree(f, g)
  <2>1. resumed \in MempoolState /\ Positioned(resumed) /\ Agree(full, resumed)
    BY <1>6 DEF ReplayInv, InStep
  <2>2. g \in MempoolState /\ Positioned(g) /\ TakesOut(resumed, g, h)
    BY <1>2, <2>1, FinishedFacts
  <2>3. QED
    BY <1>5, <2>1, <2>2, AgreeOut
<1>7. QED
  BY <1>3, <1>4, <1>5, <1>6, EventKeeps DEF KeepsGood

\* Both read a TxReplaced, of which perhaps only one knows the hash.
LEMMA ReplacedKeeps ==
    ASSUME ReplayInv, NEW h \in Hashes, Replaced(h)
    PROVE  ReplayInv'
<1>1. PICK f : f = ApplyReplaced(full, h)
  OBVIOUS
<1>2. PICK g : g = ApplyReplaced(resumed, h)
  OBVIOUS
<1>3. Advance(f, g) /\ reorged' = reorged /\ claimed' = claimed
  BY <1>1, <1>2 DEF Replaced
<1>4. Good(full) /\ full \in MempoolState /\ Positioned(full)
  BY DEF ReplayInv, Good
<1>5. TakesOut(full, f, h) /\ KeepsGood(full, f)
  BY <1>1, <1>4, ReplacedFacts
<1>6. ASSUME resumed # None, ~reorged
      PROVE  g \in MempoolState /\ Positioned(g) /\ Agree(f, g)
  <2>1. resumed \in MempoolState /\ Positioned(resumed) /\ Agree(full, resumed)
    BY <1>6 DEF ReplayInv, InStep
  <2>2. g \in MempoolState /\ Positioned(g) /\ TakesOut(resumed, g, h)
    BY <1>2, <2>1, ReplacedFacts
  <2>3. QED
    BY <1>5, <2>1, <2>2, AgreeOut
<1>7. QED
  BY <1>3, <1>4, <1>5, <1>6, EventKeeps DEF KeepsGood

\* `QueueReady` and `QueueBlocked`, whatever the recorder claims.
LEMMA ClaimKeeps ==
    ASSUME ReplayInv, NEW h \in Hashes, NEW q \in QueueState, NEW f, NEW g, Advance(f, g),
           \/ /\ f = [Placed(full, h) EXCEPT !.txs[h].queue_state = q]
              /\ g = [Placed(resumed, h) EXCEPT !.txs[h].queue_state = q]
           \/ f = Placed(full, h) /\ g = Placed(resumed, h),
           reorged' = reorged, claimed'
    PROVE  ReplayInv'
<1>1. Good(full) /\ full \in MempoolState /\ Positioned(full)
  BY DEF ReplayInv, Good
<1>2. f = [Placed(full, h) EXCEPT !.txs[h].queue_state = q] \/ f = Placed(full, h)
  OBVIOUS
<1>3. g = [Placed(resumed, h) EXCEPT !.txs[h].queue_state = q] \/ g = Placed(resumed, h)
  OBVIOUS
<1>4. PutsIn(full, f, h, None) /\ Good(f)
  BY <1>1, <1>2, ClaimFacts
<1>5. ASSUME resumed # None, ~reorged
      PROVE  g \in MempoolState /\ Positioned(g) /\ Agree(f, g)
  <2>1. resumed \in MempoolState /\ Positioned(resumed) /\ Agree(full, resumed)
    BY <1>5 DEF ReplayInv, InStep
  <2>2. g \in MempoolState /\ Positioned(g) /\ PutsIn(resumed, g, h, None)
    BY <1>3, <2>1, ClaimFacts
  <2>3. QED
    BY <1>4, <2>1, <2>2, AgreeIn
<1>6. QED
  BY <1>4, <1>5, EventKeeps

\* A reorg keeps the full replay right; the resumed one is compared no more.
LEMMA ReorgedKeeps ==
    ASSUME ReplayInv, NEW h \in Hashes, NEW block \in BlockHashes, Reorged(h, block)
    PROVE  ReplayInv'
<1>1. PICK f : f = ApplyReorged(full, h, block)
  OBVIOUS
<1>2. /\ full' = f /\ (resumed = None => resumed' = None)
      /\ resumed # None => reorged'
      /\ claimed' = claimed
  BY <1>1 DEF Reorged, Advance
<1>3. Good(full)
  BY DEF ReplayInv
<1>4. Good(f) /\ (AllFresh(full) => AllFresh(f))
  BY <1>1, <1>3, ReorgedFacts
<1>5. Good(full)' /\ (~claimed' => AllFresh(full)')
  BY <1>2, <1>4 DEF ReplayInv
<1>6. InStep'
  BY <1>2 DEF InStep
<1>7. QED
  BY <1>5, <1>6 DEF ReplayInv

\* The checkpoint shows what is pending and queued, so its replay starts in step.
LEMMA CheckpointKeeps ==
    ASSUME ReplayInv, TakeCheckpoint
    PROVE  ReplayInv'
<1>1. PICK b : b = FromCheckpoint(Frame(full))
  OBVIOUS
<1>2. full' = full /\ resumed' = b /\ claimed' = claimed
  BY <1>1 DEF TakeCheckpoint
<1>3. Good(full) /\ full \in MempoolState /\ Positioned(full)
  BY DEF ReplayInv, Good
<1>4. b \in MempoolState /\ Positioned(b) /\ Agree(full, b)
  BY <1>1, <1>3, CheckpointFacts
<1>5. Good(full)' /\ (~claimed' => AllFresh(full)')
  BY <1>2 DEF ReplayInv
<1>6. InStep'
  BY <1>2, <1>4 DEF InStep
<1>7. QED
  BY <1>5, <1>6 DEF ReplayInv

\* Every step keeps the invariant.
LEMMA NextReplay ==
    ASSUME ReplayInv, [ReplayNext]_replay_vars
    PROVE  ReplayInv'
<1>1. ASSUME NEW h \in Hashes, Dropped(h)
      PROVE  ReplayInv'
  BY <1>1, FinishedKeeps DEF Dropped, ApplyDropped
<1>2. ASSUME NEW h \in Hashes, NEW block \in BlockHashes, NEW status \in {"provisional", "final"},
             Confirmed(h, status, block)
      PROVE  ReplayInv'
  BY <1>2, FinishedKeeps DEF Confirmed, ApplyConfirmed
<1>3. ASSUME NEW h \in Hashes, QueueReady(h)
      PROVE  ReplayInv'
  <2>1. Ready \in QueueState
    BY DEF Ready, QueueState
  <2>2. Advance([Placed(full, h) EXCEPT !.txs[h].queue_state = Ready],
                [Placed(resumed, h) EXCEPT !.txs[h].queue_state = Ready])
    BY <1>3 DEF QueueReady, ApplyReady
  <2>3. reorged' = reorged /\ claimed'
    BY <1>3 DEF QueueReady
  <2>4. QED
    BY <2>1, <2>2, <2>3, ClaimKeeps
<1>4. ASSUME NEW h \in Hashes, NEW n \in Nonces \cup {None}, QueueBlocked(h, n)
      PROVE  ReplayInv'
  <2>1. Blocked(n) \in QueueState
    BY TransactionAssumption DEF Blocked, QueueState, Nonces
  <2>2. reorged' = reorged /\ claimed'
    BY <1>4 DEF QueueBlocked
  <2>3. CASE n = None
    <3>1. Advance(Placed(full, h), Placed(resumed, h))
      BY <1>4, <2>3 DEF QueueBlocked, ApplyBlocked
    <3>2. QED
      BY <2>1, <2>2, <3>1, ClaimKeeps
  <2>4. CASE n # None
    <3>1. Advance([Placed(full, h) EXCEPT !.txs[h].queue_state = Blocked(n)],
                  [Placed(resumed, h) EXCEPT !.txs[h].queue_state = Blocked(n)])
      BY <1>4, <2>4 DEF QueueBlocked, ApplyBlocked
    <3>2. QED
      BY <2>1, <2>2, <3>1, ClaimKeeps
  <2>5. QED
    BY <2>3, <2>4
<1>5. CASE UNCHANGED replay_vars
  BY <1>5 DEF replay_vars, ReplayInv, InStep
<1>6. CASE ReplayNext
  BY <1>1, <1>2, <1>3, <1>4, <1>6, DecodedKeeps, ReplacedKeeps, ReorgedKeeps, CheckpointKeeps
     DEF ReplayNext
<1>7. QED
  BY <1>5, <1>6

----------------------------------------------------------------------------
(* Theorems *)

\* Whatever log is replayed, its events lost, repeated or out of order: the queues
\* of the replay engine hold pending transactions only, each under its own sender
\* and nonce, and until a recorder's TxReady or TxBlocked is read their states are
\* those that a fresh classification gives.
THEOREM ReplayKeepsQueues == ReplaySpec => []ReplayedQueuesCorrect
<1>1. ReplayInv => ReplayedQueuesCorrect
  <2> SUFFICES ASSUME ReplayInv
               PROVE  ReplayedQueuesCorrect
    OBVIOUS
  <2>1. Positioned(full) /\ \A s \in Senders : AllLive(full, s)
    BY DEF ReplayInv, Good
  <2>2. QueuesHoldPending
    BY <2>1 DEF QueuesHoldPending, Positioned, AllLive, LiveSlot
  <2>3. StatesMatchFreshScan
    BY DEF ReplayInv, AllFresh, FreshStates, StatesMatchFreshScan
  <2>4. QED
    BY <2>2, <2>3 DEF ReplayedQueuesCorrect
<1>2. QED
  BY <1>1, InitReplay, NextReplay, PTL DEF ReplaySpec

\* A replay resumed from a checkpoint of the log taken anywhere shows the pending set
\* of the full replay, after every later event but a reorg.
THEOREM ResumedInStep == ReplaySpec => []ResumedPendingAgrees
<1>1. ReplayInv => ResumedPendingAgrees
  <2> SUFFICES ASSUME ReplayInv, resumed # None, ~reorged
               PROVE  PendingHashes(resumed) = PendingHashes(full)
    BY DEF ResumedPendingAgrees
  <2>1. Agree(full, resumed)
    BY DEF ReplayInv, InStep
  <2>2. QED
    BY <2>1 DEF Agree, PendingHashes
<1>2. QED
  BY <1>1, InitReplay, NextReplay, PTL DEF ReplaySpec

----------------------------------------------------------------------------
(* Hash-indexed tables *)

\* A table of rows S.
IsTable(t, S) ==
    t \in [rows : Seq(S), counts : [Hashes -> Nat], lookup : [Hashes -> S \cup {None}]]

\* The place of the newest row.
LEMMA Latest ==
    ASSUME NEW P, NEW n \in P, P \subseteq Nat, \A m \in P : m <= n
    PROVE  Max(P) = n
<1>1. \A m \in P : n >= m
  OBVIOUS
<1>2. \A k \in P : (\A m \in P : k >= m) => k = n
  OBVIOUS
<1>3. QED
  BY <1>1, <1>2 DEF Max

\* A nonempty finite set of places has a last one.
LEMMA HasLatest ==
    ASSUME NEW P, NEW n \in Nat, P \subseteq 1..n, P # {}
    PROVE  Max(P) \in P /\ \A m \in P : m <= Max(P)
<1>1. P \subseteq Int /\ \A m \in P : m <= n
  OBVIOUS
<1> DEFINE D == {n - m : m \in P}
<1>2. D \subseteq Nat /\ D # {}
  <2>1. \A m \in P : n - m \in Nat
    OBVIOUS
  <2>2. QED
    BY <2>1
<1> HIDE DEF D
<1>3. PICK d \in D : \A e \in D : <<e, d>> \notin OpToRel(<, Nat)
  BY <1>2, NatLessThanWellFounded, WFMin
<1>4. \A e \in D : d <= e
  <2>1. \A e \in D : ~(e < d)
    BY <1>2, <1>3, Zenon DEF OpToRel
  <2>2. QED
    BY <1>2, <2>1
<1>5. PICK k \in P : d = n - k
  BY DEF D
<1>6. \A m \in P : m <= k
  <2> TAKE m \in P
  <2>1. n - m \in D
    BY DEF D
  <2>2. n - k <= n - m
    BY <1>4, <1>5, <2>1
  <2>3. QED
    BY <1>1, <2>2
<1>7. Max(P) = k
  <2>1. P \subseteq Nat
    OBVIOUS
  <2>2. QED
    BY <1>6, <2>1, Latest
<1>8. QED
  BY <1>6, <1>7

\* The rows of a hash are finitely many.
LEMMA PlacesType ==
    ASSUME NEW S, NEW t, IsTable(t, S), NEW h
    PROVE  /\ Len(t.rows) \in Nat /\ DOMAIN t.rows = 1..Len(t.rows)
           /\ PlacesOf(t, h) \subseteq 1..Len(t.rows)
           /\ IsFiniteSet(PlacesOf(t, h)) /\ Cardinality(PlacesOf(t, h)) \in Nat
<1>1. Len(t.rows) \in Nat /\ DOMAIN t.rows = 1..Len(t.rows)
  BY LenProperties DEF IsTable
<1>2. PlacesOf(t, h) \subseteq 1..Len(t.rows)
  BY <1>1 DEF PlacesOf
<1>3. IsFiniteSet(1..Len(t.rows))
  BY <1>1, FS_Interval
<1>4. IsFiniteSet(PlacesOf(t, h))
  BY <1>2, <1>3, FS_Subset
<1>5. QED
  BY <1>1, <1>2, <1>4, FS_CardinalityType

\* A new row is the newest of its hash and no other hash's.
LEMMA Pushed ==
    ASSUME NEW S, NEW t, IsTable(t, S), IndexExact(t), NEW row \in S, row.hash \in Hashes
    PROVE  /\ IsTable(PushRow(t, row), S)
           /\ IndexExact(PushRow(t, row))
           /\ Len(PushRow(t, row).rows) = Len(t.rows) + 1
<1> DEFINE u == PushRow(t, row)
           n == Len(t.rows)
<1>1. /\ t.rows \in Seq(S) /\ t.counts \in [Hashes -> Nat]
      /\ t.lookup \in [Hashes -> S \cup {None}]
  BY DEF IsTable
<1>2. n \in Nat /\ DOMAIN t.rows = 1..n
  BY <1>1, LenProperties
<1>3. /\ u.rows = Append(t.rows, row)
      /\ u.counts = [t.counts EXCEPT ![row.hash] = @ + 1]
      /\ u.lookup = [t.lookup EXCEPT ![row.hash] = row]
      /\ u = [rows |-> u.rows, counts |-> u.counts, lookup |-> u.lookup]
  BY DEF PushRow
<1>4. /\ u.rows \in Seq(S) /\ Len(u.rows) = n + 1 /\ DOMAIN u.rows = 1..(n + 1)
      /\ \A i \in 1..n : u.rows[i] = t.rows[i]
      /\ u.rows[n + 1] = row
  BY <1>1, <1>2, <1>3, AppendProperties, LenProperties
<1>5. u.counts \in [Hashes -> Nat] /\ u.lookup \in [Hashes -> S \cup {None}]
  BY <1>1, <1>3
<1> HIDE DEF u
<1>6. IsTable(u, S)
  BY <1>3, <1>4, <1>5 DEF IsTable
<1>7. ASSUME NEW h \in Hashes
      PROVE  u.counts[h] = Cardinality(PlacesOf(u, h)) /\ u.lookup[h] = NewestRow(u, h)
  <2> DEFINE P == PlacesOf(t, h)
             Q == PlacesOf(u, h)
  <2>1. /\ P \subseteq 1..n /\ IsFiniteSet(P) /\ Cardinality(P) \in Nat
        /\ n + 1 \notin P
    BY <1>2, PlacesType
  <2>2. t.counts[h] = Cardinality(P) /\ t.lookup[h] = NewestRow(t, h)
    BY DEF IndexExact
  <2>3. CASE h = row.hash
    <3>1. Q = P \cup {n + 1}
      BY <1>2, <1>4, <2>3 DEF PlacesOf
    <3>2. Cardinality(Q) = Cardinality(P) + 1
      BY <2>1, <3>1, FS_AddElement
    <3>3. Q # {} /\ n + 1 \in Q /\ Q \subseteq Nat /\ \A m \in Q : m <= n + 1
      BY <1>2, <2>1, <3>1
    <3>4. Max(Q) = n + 1
      BY <3>3, Latest
    <3>5. NewestRow(u, h) = row
      BY <1>4, <3>3, <3>4 DEF NewestRow
    <3>6. QED
      BY <1>1, <1>3, <2>2, <2>3, <3>2, <3>5
  <2>4. CASE h # row.hash
    <3>1. Q = P
      BY <1>2, <1>4, <2>4 DEF PlacesOf
    <3>2. NewestRow(u, h) = NewestRow(t, h)
      <4>1. CASE P = {}
        BY <3>1, <4>1 DEF NewestRow
      <4>2. CASE P # {}
        <5>1. Max(P) \in 1..n
          BY <1>2, <2>1, <4>2, HasLatest
        <5>2. QED
          BY <1>4, <3>1, <4>2, <5>1 DEF NewestRow
      <4>3. QED
        BY <4>1, <4>2
    <3>3. QED
      BY <1>1, <1>3, <2>2, <2>4, <3>1, <3>2
  <2>5. QED
    BY <2>3, <2>4
<1>8. QED
  BY <1>4, <1>6, <1>7 DEF IndexExact, u

\* The oldest row leaves: the lookup of its hash is kept unless it was the last one.
LEMMA Evicted ==
    ASSUME NEW S, NEW t, IsTable(t, S), IndexExact(t), Len(t.rows) > 0,
           \A row \in S : row.hash \in Hashes
    PROVE  /\ IsTable(EvictOldest(t), S)
           /\ IndexExact(EvictOldest(t))
           /\ Len(EvictOldest(t).rows) = Len(t.rows) - 1
<1> DEFINE u == EvictOldest(t)
           n == Len(t.rows)
           g == Head(t.rows).hash
<1>1. /\ t.rows \in Seq(S) /\ t.counts \in [Hashes -> Nat]
      /\ t.lookup \in [Hashes -> S \cup {None}]
  BY DEF IsTable
<1>2. n \in Nat /\ DOMAIN t.rows = 1..n /\ n > 0 /\ 1 \in 1..n
  BY <1>1, LenProperties
<1>3. t.rows # <<>> /\ Head(t.rows) = t.rows[1] /\ g \in Hashes
  BY <1>1, <1>2, HeadTailProperties
<1>4. /\ u.rows = Tail(t.rows)
      /\ u.counts = [t.counts EXCEPT ![g] = t.counts[g] - 1]
      /\ u.lookup = IF t.counts[g] - 1 = 0 THEN [t.lookup EXCEPT ![g] = None] ELSE t.lookup
      /\ u = [rows |-> u.rows, counts |-> u.counts, lookup |-> u.lookup]
  BY DEF EvictOldest
<1>5. /\ u.rows \in Seq(S) /\ Len(u.rows) = n - 1 /\ DOMAIN u.rows = 1..(n - 1)
      /\ \A i \in 1..(n - 1) : u.rows[i] = t.rows[i + 1]
  BY <1>1, <1>2, <1>3, <1>4, HeadTailProperties, LenProperties
<1>6. 1 \in PlacesOf(t, g) /\ t.counts[g] = Cardinality(PlacesOf(t, g))
  BY <1>2, <1>3 DEF PlacesOf, IndexExact
<1>7. t.counts[g] - 1 \in Nat
  <2>1. PlacesOf(t, g) # {} /\ IsFiniteSet(PlacesOf(t, g))
    BY <1>6, PlacesType
  <2>2. t.counts[g] # 0 /\ t.counts[g] \in Nat
    BY <1>1, <1>3, <1>6, <2>1, FS_EmptySet
  <2>3. QED
    BY <2>2
<1>8. u.counts \in [Hashes -> Nat] /\ u.lookup \in [Hashes -> S \cup {None}]
  BY <1>1, <1>3, <1>4, <1>7
<1> HIDE DEF u
<1>9. IsTable(u, S)
  BY <1>4, <1>5, <1>8 DEF IsTable
<1>10. ASSUME NEW h \in Hashes
       PROVE  u.counts[h] = Cardinality(PlacesOf(u, h)) /\ u.lookup[h] = NewestRow(u, h)
  <2> DEFINE P == PlacesOf(t, h)
             Q == PlacesOf(u, h)
             R == P \ {1}
  <2>1. /\ P \subseteq 1..n /\ IsFiniteSet(P) /\ Cardinality(P) \in Nat
        /\ Q \subseteq 1..(n - 1) /\ IsFiniteSet(Q)
        /\ \A i \in 1..n : i \in P <=> t.rows[i].hash = h
        /\ \A i \in 1..(n - 1) : i \in Q <=> i + 1 \in P
    <3>1. P \subseteq 1..n /\ IsFiniteSet(P) /\ Cardinality(P) \in Nat
      BY PlacesType
    <3>2. Q \subseteq 1..(n - 1) /\ IsFiniteSet(Q)
      BY <1>5, <1>9, PlacesType
    <3>3. \A i \in 1..n : i \in P <=> t.rows[i].hash = h
      BY <1>2 DEF PlacesOf
    <3>4. \A i \in 1..(n - 1) : i \in Q <=> u.rows[i].hash = h
      BY <1>5 DEF PlacesOf
    <3>5. \A i \in 1..(n - 1) : i + 1 \in 1..n
      BY <1>2
    <3>6. QED
      BY <1>5, <3>1, <3>2, <3>3, <3>4, <3>5
  <2>2. t.counts[h] = Cardinality(P) /\ t.lookup[h] = NewestRow(t, h)
    BY DEF IndexExact
  <2> HIDE DEF P, Q
  <2>3. Cardinality(Q) = Cardinality(R) /\ IsFiniteSet(R)
    <3>1. IsFiniteSet(R)
      BY <2>1, FS_RemoveElement
    <3>2. PICK f : f = [i \in R |-> i - 1]
      OBVIOUS
    <3>3. \A i \in R : i \in 2..n /\ i - 1 \in 1..(n - 1) /\ (i - 1) + 1 = i
      BY <1>2, <2>1
    <3>4. \A i \in R : i - 1 \in Q
      BY <2>1, <3>3
    <3>5. \A j \in Q : j + 1 \in R /\ (j + 1) - 1 = j
      BY <1>2, <2>1
    <3>6. f \in [R -> Q]
      BY <3>2, <3>4
    <3>7. \A i, j \in R : f[i] = f[j] => i = j
      BY <3>2, <3>3
    <3>8. \A j \in Q : \E i \in R : f[i] = j
      BY <3>2, <3>5
    <3>9. f \in Bijection(R, Q)
      BY <3>6, <3>7, <3>8 DEF Bijection, Injection, IsInjective, Surjection
    <3>10. ExistsBijection(R, Q)
      BY <3>9 DEF ExistsBijection
    <3>11. QED
      BY <3>1, <3>10, FS_Bijection
  <2>4. Cardinality(R) = IF 1 \in P THEN Cardinality(P) - 1 ELSE Cardinality(P)
    BY <2>1, FS_RemoveElement
  <2>5. 1 \in P <=> h = g
    BY <1>2, <1>3, <2>1
  <2>6. u.counts[h] = Cardinality(Q)
    BY <1>1, <1>4, <2>2, <2>3, <2>4, <2>5
  <2>7. Q = {} <=> R = {}
    BY <2>1, <2>3, FS_EmptySet
  <2>8. CASE R = {}
    <3>1. NewestRow(u, h) = None
      BY <2>7, <2>8 DEF NewestRow, Q
    <3>2. CASE h = g
      <4>1. t.counts[g] - 1 = 0
        BY <1>6, <2>2, <2>4, <2>5, <2>8, <3>2, FS_EmptySet
      <4>2. QED
        BY <1>1, <1>4, <2>6, <3>1, <3>2, <4>1 DEF Q
    <3>3. CASE h # g
      <4>1. P = {}
        BY <2>5, <2>8, <3>3
      <4>2. NewestRow(t, h) = None
        BY <4>1 DEF NewestRow, P
      <4>3. QED
        BY <1>1, <1>4, <2>2, <2>6, <3>1, <3>3, <4>2 DEF Q
    <3>4. QED
      BY <3>2, <3>3
  <2>9. CASE R # {}
    <3>1. R \subseteq 1..n
      BY <2>1
    <3>2. PICK k : k \in R /\ \A m \in R : m <= k
      BY <1>2, <2>9, <3>1, HasLatest
    <3>3. k \in 2..n /\ k - 1 \in 1..(n - 1) /\ (k - 1) + 1 = k /\ k \in P
      BY <1>2, <2>1, <3>2
    <3>4. k - 1 \in Q
      BY <2>1, <3>3
    <3>5. \A m \in P : m <= k
      BY <2>1, <3>2, <3>3
    <3>6. Max(P) = k
      <4>1. P \subseteq Nat
        BY <2>1
      <4>2. QED
        BY <3>3, <3>5, <4>1, Latest
    <3>7. \A m \in Q : m <= k - 1
      <4> TAKE m \in Q
      <4>1. m + 1 \in P /\ m \in Nat
        BY <2>1
      <4>2. m + 1 <= k
        BY <3>5, <4>1
      <4>3. QED
        BY <3>3, <4>1, <4>2
    <3>8. Max(Q) = k - 1
      <4>1. Q \subseteq Nat
        BY <2>1
      <4>2. QED
        BY <3>4, <3>7, <4>1, Latest
    <3>9. NewestRow(u, h) = u.rows[k - 1]
      BY <3>4, <3>8 DEF NewestRow, Q
    <3>10. NewestRow(t, h) = t.rows[k]
      BY <3>3, <3>6 DEF NewestRow, P
    <3>11. NewestRow(u, h) = t.lookup[h]
      BY <1>5, <2>2, <3>3, <3>9, <3>10
    <3>12. u.lookup[h] = t.lookup[h]
      <4>1. CASE h = g
        <5>1. Cardinality(R) # 0
          BY <2>3, <2>9, FS_EmptySet
        <5>2. t.counts[g] - 1 # 0
          BY <2>2, <2>4, <2>5, <4>1, <5>1
        <5>3. QED
          BY <1>4, <5>2
      <4>2. CASE h # g
        BY <1>1, <1>4, <4>2
      <4>3. QED
        BY <4>1, <4>2
    <3>13. QED
      BY <2>6, <3>11, <3>12 DEF Q
  <2>10. QED
    BY <2>8, <2>9
<1>11. QED
  BY <1>5, <1>9, <1>10 DEF IndexExact, u

\* What `push_bounded_hash_indexed` makes of a table with exact indexes.
LEMMA PushedBounded ==
    ASSUME NEW S, NEW t, IsTable(t, S), IndexExact(t), NEW row \in S,
           \A r \in S : r.hash \in Hashes, NEW capacity \in Nat
    PROVE  /\ IsTable(PushBoundedHashIndexed(t, row, capacity), S)
           /\ IndexExact(PushBoundedHashIndexed(t, row, capacity))
<1>1. PICK u : u = PushRow(t, row)
  OBVIOUS
<1>2. IsTable(u, S) /\ IndexExact(u)
  BY <1>1, Pushed
<1>3. Len(u.rows) > capacity => Len(u.rows) > 0
  BY <1>2, PlacesType
<1>4. CASE Len(u.rows) > capacity
  <2>1. PushBoundedHashIndexed(t, row, capacity) = EvictOldest(u)
    BY <1>1, <1>4 DEF PushBoundedHashIndexed
  <2>2. QED
    BY <1>2, <1>3, <1>4, <2>1, Evicted
<1>5. CASE ~(Len(u.rows) > capacity)
  BY <1>1, <1>2, <1>5 DEF PushBoundedHashIndexed
<1>6. QED
  BY <1>4, <1>5

----------------------------------------------------------------------------
(* The feature summary *)

\* The rows of the feature table.
FeatureRow == [hash : Hashes, bucket : Buckets, at : Nat]

\* The hashes whose newest row is in bucket b.
Counted(lookup, b) == {h \in Hashes : lookup[h] # None /\ lookup[h].bucket = b}

\* The summary s counts exactly those.
SummaryExact(s, lookup) == s = [b \in Buckets |-> Cardinality(Counted(lookup, b))]

\* `increment_feature_summary_count` for a hash that was not counted.
LEMMA CountedOnce ==
    ASSUME NEW lookup \in [Hashes -> FeatureRow \cup {None}], NEW h \in Hashes,
           lookup[h] = None, NEW row \in FeatureRow, NEW s, SummaryExact(s, lookup)
    PROVE  SummaryExact([s EXCEPT ![row.bucket] = @ + 1], [lookup EXCEPT ![h] = row])
<1>1. row.bucket \in Buckets /\ row # None
  BY ReadModelAssumption DEF FeatureRow
<1>2. PICK next : next = [lookup EXCEPT ![h] = row]
  OBVIOUS
<1>3. ASSUME NEW b \in Buckets
      PROVE  Cardinality(Counted(next, b)) =
                 IF b = row.bucket THEN Cardinality(Counted(lookup, b)) + 1
                                   ELSE Cardinality(Counted(lookup, b))
  <2>1. h \notin Counted(lookup, b) /\ IsFiniteSet(Counted(lookup, b))
    <3>1. Counted(lookup, b) \subseteq Hashes
      BY DEF Counted
    <3>2. QED
      BY <3>1, FS_Subset, ReadModelAssumption DEF Counted
  <2>2. CASE b = row.bucket
    <3>1. Counted(next, b) = Counted(lookup, b) \cup {h}
      BY <1>1, <1>2, <2>2 DEF Counted
    <3>2. QED
      BY <2>1, <2>2, <3>1, FS_AddElement
  <2>3. CASE b # row.bucket
    <3>1. Counted(next, b) = Counted(lookup, b)
      BY <1>1, <1>2, <2>3 DEF Counted
    <3>2. QED
      BY <2>3, <3>1
  <2>4. QED
    BY <2>2, <2>3
<1>4. [s EXCEPT ![row.bucket] = @ + 1] =
        [b \in Buckets |-> IF b = row.bucket THEN Cardinality(Counted(lookup, b)) + 1
                                             ELSE Cardinality(Counted(lookup, b))]
  BY <1>1 DEF SummaryExact
<1>5. QED
  BY <1>2, <1>3, <1>4 DEF SummaryExact

\* `decrement_feature_summary_count` for a hash that was counted.
LEMMA UncountedOnce ==
    ASSUME NEW lookup \in [Hashes -> FeatureRow \cup {None}], NEW h \in Hashes,
           lookup[h] # None, NEW s, SummaryExact(s, lookup)
    PROVE  SummaryExact([s EXCEPT ![lookup[h].bucket] = @ - 1], [lookup EXCEPT ![h] = None])
<1>1. lookup[h].bucket \in Buckets
  BY DEF FeatureRow
<1>2. PICK next : next = [lookup EXCEPT ![h] = None]
  OBVIOUS
<1>3. ASSUME NEW b \in Buckets
      PROVE  Cardinality(Counted(next, b)) =
                 IF b = lookup[h].bucket THEN Cardinality(Counted(lookup, b)) - 1
                                         ELSE Cardinality(Counted(lookup, b))
  <2>1. IsFiniteSet(Counted(lookup, b))
    <3>1. Counted(lookup, b) \subseteq Hashes
      BY DEF Counted
    <3>2. QED
      BY <3>1, FS_Subset, ReadModelAssumption
  <2>2. CASE b = lookup[h].bucket
    <3>1. Counted(next, b) = Counted(lookup, b) \ {h} /\ h \in Counted(lookup, b)
      BY <1>2, <2>2 DEF Counted
    <3>2. QED
      BY <2>1, <2>2, <3>1, FS_RemoveElement
  <2>3. CASE b # lookup[h].bucket
    <3>1. Counted(next, b) = Counted(lookup, b)
      BY <1>2, <2>3 DEF Counted
    <3>2. QED
      BY <2>3, <3>1
  <2>4. QED
    BY <2>2, <2>3
<1>4. [s EXCEPT ![lookup[h].bucket] = @ - 1] =
        [b \in Buckets |-> IF b = lookup[h].bucket THEN Cardinality(Counted(lookup, b)) - 1
                                                   ELSE Cardinality(Counted(lookup, b))]
  BY <1>1 DEF SummaryExact
<1>5. QED
  BY <1>2, <1>3, <1>4 DEF SummaryExact

\* A feature row is written: the summary follows the lookup through replacement and eviction.
LEMMA SummaryFollows ==
    ASSUME NEW t, IsTable(t, FeatureRow), IndexExact(t), SummaryExact(summary, t.lookup),
           NEW row \in FeatureRow
    PROVE  SummaryExact(UpsertedSummary(t, row),
                        PushBoundedHashIndexed(t, row, TableCapacity).lookup)
<1>1. /\ t.lookup \in [Hashes -> FeatureRow \cup {None}]
      /\ row.hash \in Hashes /\ \A r \in FeatureRow : r.hash \in Hashes
      /\ None \notin FeatureRow /\ TableCapacity \in Nat
  BY ReadModelAssumption DEF IsTable, FeatureRow
<1> DEFINE previous == t.lookup[row.hash]
           replaced == IF previous = None THEN summary
                       ELSE [summary EXCEPT ![previous.bucket] = @ - 1]
           counted == [replaced EXCEPT ![row.bucket] = @ + 1]
           bare == [t.lookup EXCEPT ![row.hash] = None]
<1>2. bare \in [Hashes -> FeatureRow \cup {None}] /\ bare[row.hash] = None
  BY <1>1
<1>3. SummaryExact(replaced, bare)
  <2>1. CASE previous = None
    <3>1. bare = t.lookup
      BY <1>1, <2>1
    <3>2. QED
      BY <2>1, <3>1
  <2>2. CASE previous # None
    BY <1>1, <2>2, UncountedOnce
  <2>3. QED
    BY <2>1, <2>2
<1>4. [bare EXCEPT ![row.hash] = row] = [t.lookup EXCEPT ![row.hash] = row]
  BY <1>1
<1>5. PICK u : u = PushRow(t, row)
  OBVIOUS
<1>6. u.lookup = [t.lookup EXCEPT ![row.hash] = row]
  BY <1>5 DEF PushRow
<1>7. SummaryExact(counted, u.lookup)
  <2> HIDE DEF replaced, bare
  <2>1. SummaryExact(counted, [bare EXCEPT ![row.hash] = row])
    BY <1>1, <1>2, <1>3, CountedOnce
  <2>2. QED
    BY <1>4, <1>6, <2>1 DEF bare
<1>8. /\ IsTable(u, FeatureRow) /\ IndexExact(u) /\ Len(u.rows) = Len(t.rows) + 1
      /\ Len(t.rows) \in Nat
  BY <1>1, <1>5, Pushed, PlacesType
<1> DEFINE evicted == Head(u.rows).hash
<1>9. UpsertedSummary(t, row) =
        IF Len(u.rows) > TableCapacity /\ u.counts[evicted] = 1
        THEN [counted EXCEPT ![u.lookup[evicted].bucket] = @ - 1]
        ELSE counted
  BY <1>5 DEF UpsertedSummary
<1>10. /\ PushBoundedHashIndexed(t, row, TableCapacity) =
            IF Len(u.rows) > TableCapacity THEN EvictOldest(u) ELSE u
       /\ EvictOldest(u).lookup =
            IF u.counts[evicted] - 1 = 0 THEN [u.lookup EXCEPT ![evicted] = None] ELSE u.lookup
  BY <1>5 DEF PushBoundedHashIndexed, EvictOldest
<1>11. evicted \in Hashes /\ u.lookup[evicted] # None
  <2>1. /\ u.rows \in Seq(FeatureRow) /\ Len(u.rows) > 0
        /\ DOMAIN u.rows = 1..Len(u.rows) /\ Len(u.rows) \in Nat
    BY <1>8, PlacesType DEF IsTable
  <2>2. u.rows # <<>> /\ Head(u.rows) = u.rows[1] /\ evicted \in Hashes
    BY <1>1, <2>1, HeadTailProperties
  <2>3. 1 \in PlacesOf(u, evicted)
    BY <2>1, <2>2 DEF PlacesOf
  <2>4. Max(PlacesOf(u, evicted)) \in 1..Len(u.rows)
    <3>1. PlacesOf(u, evicted) \subseteq 1..Len(u.rows)
      BY <1>8, PlacesType
    <3>2. QED
      BY <2>1, <2>3, <3>1, HasLatest
  <2>5. NewestRow(u, evicted) \in FeatureRow
    BY <2>1, <2>3, <2>4, ElementOfSeq DEF NewestRow
  <2>6. u.lookup[evicted] = NewestRow(u, evicted)
    BY <1>8, <2>2 DEF IndexExact
  <2>7. QED
    BY <1>1, <2>2, <2>5, <2>6
<1>12. /\ u.counts \in [Hashes -> Nat]
       /\ u.lookup \in [Hashes -> FeatureRow \cup {None}]
  BY <1>8 DEF IsTable
<1> HIDE DEF counted, evicted
<1>13. CASE Len(u.rows) > TableCapacity /\ u.counts[evicted] = 1
  <2>1. SummaryExact([counted EXCEPT ![u.lookup[evicted].bucket] = @ - 1],
                     [u.lookup EXCEPT ![evicted] = None])
    BY <1>7, <1>11, <1>12, UncountedOnce
  <2>2. QED
    BY <1>9, <1>10, <1>13, <2>1
<1>14. CASE ~(Len(u.rows) > TableCapacity /\ u.counts[evicted] = 1)
  <2>1. u.counts[evicted] \in Nat
    BY <1>11, <1>12
  <2>2. PushBoundedHashIndexed(t, row, TableCapacity).lookup = u.lookup
    BY <1>10, <1>14, <2>1
  <2>3. QED
    BY <1>7, <1>9, <1>14, <2>2
<1>15. QED
  BY <1>13, <1>14

----------------------------------------------------------------------------
(* The read model *)

\* The rows of the other tables.
StampedRow == [hash : Hashes, at : Nat]
FullRow == [hash : Hashes, chain : Chains, at : Nat]
LifecycleRow == [hash : Hashes, status : {"pending", "dropped", "replaced"}, at : Nat]

\* Every index is exact and the counters of the market are, whatever was written.
TablesInv ==
    /\ revision \in Nat
    /\ IsTable(tx_seen, StampedRow) /\ IndexExact(tx_seen)
    /\ IsTable(recent, StampedRow) /\ IndexExact(recent)
    /\ IsTable(tx_full, FullRow) /\ IndexExact(tx_full)
    /\ IsTable(tx_lifecycle, LifecycleRow) /\ IndexExact(tx_lifecycle)
    /\ IsTable(tx_features, FeatureRow) /\ IndexExact(tx_features)
    /\ SummaryExact(summary, tx_features.lookup)
    /\ market_stats \in [total_tx : Nat, signals : Nat, high : Nat, lower : Nat]
    /\ market_stats.signals = market_stats.high + market_stats.lower

\* An empty table is exact.
LEMMA EmptyIsExact ==
    ASSUME NEW S
    PROVE  IsTable(EmptyTable, S) /\ IndexExact(EmptyTable)
<1>1. \A h \in Hashes : PlacesOf(EmptyTable, h) = {}
  BY DEF PlacesOf, EmptyTable
<1>2. \A h \in Hashes : EmptyTable.counts[h] = 0 /\ EmptyTable.lookup[h] = None
  BY DEF EmptyTable
<1>3. IndexExact(EmptyTable)
  BY <1>1, <1>2, FS_EmptySet DEF IndexExact, NewestRow
<1>4. IsTable(EmptyTable, S)
  BY DEF IsTable, EmptyTable
<1>5. QED
  BY <1>3, <1>4

\* A fresh store.
LEMMA InitTables == Init => TablesInv
<1> SUFFICES ASSUME Init PROVE TablesInv
  OBVIOUS
<1>1. \A b \in Buckets : Counted(EmptyTable.lookup, b) = {}
  BY DEF Counted, EmptyTable
<1>2. SummaryExact([b \in Buckets |-> 0], EmptyTable.lookup)
  BY <1>1, FS_EmptySet DEF SummaryExact
<1>3. QED
  BY <1>2, EmptyIsExact DEF Init, TablesInv

\* What each write does to the tables it touches.
LEMMA WriteKeepsTables ==
    ASSUME TablesInv, Write
    PROVE  TablesInv'
<1>1. /\ TableCapacity \in Nat /\ RecentCapacity \in Nat
      /\ revision \in Nat /\ revision + 1 \in Nat /\ revision + 2 \in Nat
  BY ReadModelAssumption DEF TablesInv
<1>2. /\ \A r \in StampedRow : r.hash \in Hashes
      /\ \A r \in FullRow : r.hash \in Hashes
      /\ \A r \in LifecycleRow : r.hash \in Hashes
      /\ \A r \in FeatureRow : r.hash \in Hashes
  BY DEF StampedRow, FullRow, LifecycleRow, FeatureRow
<1>3. PICK h \in Hashes :
        \/ UpsertTxSeen(h)
        \/ \E chain \in Chains : UpsertTxFull(h, chain)
        \/ \E b \in Buckets : UpsertTxFeatures(h, b)
        \/ \E kind \in {"decoded", "dropped", "replaced", "queued"} : AppendEvent(kind, h)
  BY DEF Write
<1>4. CASE UpsertTxSeen(h)
  <2>1. [hash |-> h, at |-> revision] \in StampedRow
    BY <1>1 DEF StampedRow
  <2>2. IsTable(tx_seen, StampedRow) /\ IndexExact(tx_seen)
    BY DEF TablesInv
  <2>3. IsTable(tx_seen', StampedRow) /\ IndexExact(tx_seen)'
    <3>1. tx_seen' = PushBoundedHashIndexed(tx_seen, [hash |-> h, at |-> revision], TableCapacity)
      BY <1>4 DEF UpsertTxSeen
    <3>2. IsTable(tx_seen', StampedRow) /\ IndexExact(tx_seen')
      BY <1>1, <1>2, <2>1, <2>2, <3>1, PushedBounded
    <3>3. QED
      BY <3>2
  <2>4. /\ market_stats' = [market_stats EXCEPT !.total_tx = @ + 1]
        /\ revision' = revision + 1
        /\ UNCHANGED <<tx_full, tx_features, tx_lifecycle, recent, summary>>
    BY <1>4 DEF UpsertTxSeen
  <2>5. /\ market_stats' \in [total_tx : Nat, signals : Nat, high : Nat, lower : Nat]
        /\ market_stats'.signals = market_stats'.high + market_stats'.lower
    BY <2>4 DEF TablesInv
  <2>6. QED
    BY <1>1, <2>3, <2>4, <2>5 DEF TablesInv
<1>5. ASSUME NEW chain \in Chains, UpsertTxFull(h, chain) PROVE TablesInv'
  <2>1. [hash |-> h, chain |-> chain, at |-> revision] \in FullRow
    BY <1>1 DEF FullRow
  <2>2. IsTable(tx_full, FullRow) /\ IndexExact(tx_full)
    BY DEF TablesInv
  <2>3. /\ tx_full' = PushBoundedHashIndexed(
                        tx_full, [hash |-> h, chain |-> chain, at |-> revision], TableCapacity)
        /\ revision' = revision + 1
        /\ UNCHANGED <<tx_seen, tx_features, tx_lifecycle, recent, summary, market_stats>>
    BY <1>5 DEF UpsertTxFull
  <2>4. IsTable(tx_full', FullRow) /\ IndexExact(tx_full')
    BY <1>1, <1>2, <2>1, <2>2, <2>3, PushedBounded
  <2>5. QED
    BY <1>1, <2>3, <2>4 DEF TablesInv
<1>6. ASSUME NEW b \in Buckets, UpsertTxFeatures(h, b) PROVE TablesInv'
  <2>1. PICK row : row = [hash |-> h, bucket |-> b, at |-> revision]
    OBVIOUS
  <2>2. row \in FeatureRow
    BY <1>1, <2>1 DEF FeatureRow
  <2>3. /\ IsTable(tx_features, FeatureRow) /\ IndexExact(tx_features)
        /\ SummaryExact(summary, tx_features.lookup)
    BY DEF TablesInv
  <2>4. /\ tx_features' = PushBoundedHashIndexed(tx_features, row, TableCapacity)
        /\ summary' = UpsertedSummary(tx_features, row)
        /\ market_stats' =
              [market_stats EXCEPT !.signals = @ + 1,
                                   !.high = IF b \in HighRisk THEN @ + 1 ELSE @,
                                   !.lower = IF b \in HighRisk THEN @ ELSE @ + 1]
        /\ revision' = revision + 1
        /\ UNCHANGED <<tx_seen, tx_full, tx_lifecycle, recent>>
    BY <1>6, <2>1 DEF UpsertTxFeatures
  <2>5. IsTable(tx_features', FeatureRow) /\ IndexExact(tx_features')
    BY <1>1, <1>2, <2>2, <2>3, <2>4, PushedBounded
  <2>6. SummaryExact(summary', tx_features'.lookup)
    BY <2>2, <2>3, <2>4, SummaryFollows
  <2>7. /\ market_stats' \in [total_tx : Nat, signals : Nat, high : Nat, lower : Nat]
        /\ market_stats'.signals = market_stats'.high + market_stats'.lower
    <3>1. /\ market_stats \in [total_tx : Nat, signals : Nat, high : Nat, lower : Nat]
          /\ market_stats.signals = market_stats.high + market_stats.lower
      BY DEF TablesInv
    <3>2. CASE b \in HighRisk
      <4>1. market_stats' =
              [total_tx |-> market_stats.total_tx, signals |-> market_stats.signals + 1,
               high |-> market_stats.high + 1, lower |-> market_stats.lower]
        BY <2>4, <3>1, <3>2
      <4>2. /\ market_stats'.signals = market_stats.signals + 1
            /\ market_stats'.high = market_stats.high + 1
            /\ market_stats'.lower = market_stats.lower
        BY <4>1
      <4>3. /\ market_stats.signals \in Nat /\ market_stats.high \in Nat
            /\ market_stats.lower \in Nat /\ market_stats.total_tx \in Nat
        BY <3>1
      <4>4. QED
        BY <3>1, <4>1, <4>2, <4>3
    <3>3. CASE b \notin HighRisk
      <4>1. market_stats' =
              [total_tx |-> market_stats.total_tx, signals |-> market_stats.signals + 1,
               high |-> market_stats.high, lower |-> market_stats.lower + 1]
        BY <2>4, <3>1, <3>3
      <4>2. /\ market_stats'.signals = market_stats.signals + 1
            /\ market_stats'.high = market_stats.high
            /\ market_stats'.lower = market_stats.lower + 1
        BY <4>1
      <4>3. /\ market_stats.signals \in Nat /\ market_stats.high \in Nat
            /\ market_stats.lower \in Nat /\ market_stats.total_tx \in Nat
        BY <3>1
      <4>4. QED
        BY <3>1, <4>1, <4>2, <4>3
    <3>4. QED
      BY <3>2, <3>3
  <2>8. QED
    BY <1>1, <2>4, <2>5, <2>6, <2>7 DEF TablesInv
<1>7. ASSUME NEW kind \in {"decoded", "dropped", "replaced", "queued"}, AppendEvent(kind, h)
      PROVE  TablesInv'
  <2> DEFINE status == LifecycleUpdate(kind)
             row == [hash |-> h, at |-> revision]
             lifecycle == [hash |-> h, status |-> status, at |-> revision]
  <2>1. row \in StampedRow /\ (status # None => lifecycle \in LifecycleRow)
    BY <1>1 DEF StampedRow, LifecycleRow, LifecycleUpdate
  <2>2. /\ IsTable(recent, StampedRow) /\ IndexExact(recent)
        /\ IsTable(tx_lifecycle, LifecycleRow) /\ IndexExact(tx_lifecycle)
    BY DEF TablesInv
  <2>3. /\ recent' = IF kind = "decoded"
                     THEN PushBoundedHashIndexed(recent, row, RecentCapacity) ELSE recent
        /\ tx_lifecycle' =
              IF status = None THEN tx_lifecycle
              ELSE PushBoundedHashIndexed(tx_lifecycle, lifecycle, TableCapacity)
        /\ revision' = revision + (IF status # None \/ kind = "queued" THEN 2 ELSE 1)
        /\ UNCHANGED <<tx_seen, tx_full, tx_features, summary, market_stats>>
    BY <1>7 DEF AppendEvent
  <2> HIDE DEF status, row, lifecycle
  <2>4. IsTable(recent', StampedRow) /\ IndexExact(recent')
    <3>1. CASE kind = "decoded"
      BY <1>1, <1>2, <2>1, <2>2, <2>3, <3>1, PushedBounded
    <3>2. CASE kind # "decoded"
      BY <2>2, <2>3, <3>2
    <3>3. QED
      BY <3>1, <3>2
  <2>5. IsTable(tx_lifecycle', LifecycleRow) /\ IndexExact(tx_lifecycle')
    <3>1. CASE status # None
      BY <1>1, <1>2, <2>1, <2>2, <2>3, <3>1, PushedBounded
    <3>2. CASE status = None
      BY <2>2, <2>3, <3>2
    <3>3. QED
      BY <3>1, <3>2
  <2>6. revision' \in Nat
    BY <1>1, <2>3
  <2>7. QED
    BY <2>3, <2>4, <2>5, <2>6 DEF TablesInv
<1>8. QED
  BY <1>3, <1>4, <1>5, <1>6, <1>7

\* Every index of the storage and the summary are exact after any writes and evictions.
THEOREM IndexesStayExact == Spec => []IndexesExact
<1>1. TablesInv /\ [Next]_vars => TablesInv'
  <2> SUFFICES ASSUME TablesInv, [Next]_vars PROVE TablesInv'
    OBVIOUS
  <2>1. CASE Write
    BY <2>1, WriteKeepsTables
  <2>2. CASE UNCHANGED <<tables, revision>>
    BY <2>2 DEF TablesInv, tables
  <2>3. QED
    BY <2>1, <2>2 DEF Next, vars, ReadDashboard, StartCollection, CollectPage
<1>2. TablesInv => IndexesExact
  <2> SUFFICES ASSUME TablesInv PROVE IndexesExact
    OBVIOUS
  <2>1. \A t \in {tx_seen, tx_full, tx_features, tx_lifecycle, recent} : IndexExact(t)
    BY DEF TablesInv
  <2>2. ASSUME NEW b \in Buckets
        PROVE  summary[b] = Cardinality({h \in Hashes :
                                           /\ NewestRow(tx_features, h) # None
                                           /\ NewestRow(tx_features, h).bucket = b})
    <3>1. summary[b] = Cardinality(Counted(tx_features.lookup, b))
      BY DEF TablesInv, SummaryExact
    <3>2. \A h \in Hashes : tx_features.lookup[h] = NewestRow(tx_features, h)
      BY DEF TablesInv, IndexExact
    <3>3. Counted(tx_features.lookup, b) =
            {h \in Hashes : NewestRow(tx_features, h) # None
                             /\ NewestRow(tx_features, h).bucket = b}
      BY <3>2 DEF Counted
    <3>4. QED
      BY <3>1, <3>3
  <2>3. QED
    BY <2>1, <2>2 DEF IndexesExact, TablesInv
<1>3. QED
  BY <1>1, <1>2, InitTables, PTL DEF Spec

\* The cache is of an earlier revision or shows what a rebuild would.
CacheInv ==
    /\ revision \in Nat
    /\ cache.revision = None \/ (cache.revision \in Nat /\ cache.revision <= revision)
    /\ CacheNeverStale

\* What the views are made of.
LEMMA ViewsUnchanged ==
    ASSUME UNCHANGED <<events, tables>>
    PROVE  Views' = Views
BY DEF Views, tables

\* A reader at an unchanged revision gets what a rebuild would show.
THEOREM CacheIsFresh == Spec => []CacheNeverStale
<1>0. None \notin Nat
  BY TransactionAssumption
<1>1. Init => CacheInv
  BY <1>0 DEF Init, CacheInv, CacheNeverStale
<1>2. CacheInv /\ [Next]_vars => CacheInv'
  <2> SUFFICES ASSUME CacheInv, [Next]_vars PROVE CacheInv'
    OBVIOUS
  <2>1. CASE Write
    <3>1. cache' = cache /\ revision' \in Nat /\ revision' > revision
      <4>1. cache' = cache
        BY <2>1 DEF Write, UpsertTxSeen, UpsertTxFull, UpsertTxFeatures, AppendEvent
      <4>2. revision' = revision + 1 \/ revision' = revision + 2
        BY <2>1 DEF Write, UpsertTxSeen, UpsertTxFull, UpsertTxFeatures, AppendEvent
      <4>3. QED
        BY <4>1, <4>2 DEF CacheInv
    <3>2. cache'.revision # revision'
      BY <1>0, <3>1 DEF CacheInv
    <3>3. QED
      BY <3>1, <3>2 DEF CacheInv, CacheNeverStale
  <2>2. CASE ReadDashboard
    <3>1. /\ cache'.revision = revision /\ cache'.views = Views
          /\ revision' = revision
      BY <2>2 DEF ReadDashboard
    <3>2. Views' = Views
      BY <2>2, ViewsUnchanged DEF ReadDashboard
    <3>3. QED
      BY <3>1, <3>2 DEF CacheInv, CacheNeverStale
  <2>3. CASE UNCHANGED <<events, tables, revision, cache>>
    <3>1. Views' = Views
      BY <2>3, ViewsUnchanged
    <3>2. QED
      BY <2>3, <3>1 DEF CacheInv, CacheNeverStale
  <2>4. QED
    BY <2>1, <2>2, <2>3 DEF Next, vars, StartCollection, CollectPage
<1>3. CacheInv => CacheNeverStale
  BY DEF CacheInv
<1>4. QED
  BY <1>1, <1>2, <1>3, PTL DEF Spec

============================================================================
