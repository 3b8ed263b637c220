---------------------------- MODULE SenderQueue ----------------------------
(***************************************************************************)
(* What the scheduler (crates/scheduler) and the replay engine             *)
(* (crates/replay) have in common: transactions, and the nonce-gap         *)
(* classification of one sender's queue, which each of them implements for *)
(* itself and which must come out the same.                                *)
(*                                                                         *)
(* A hash stands for its transaction: Tx[h] is what was signed.  A map     *)
(* entry that does not exist is None.                                      *)
(***************************************************************************)
EXTENDS Integers

CONSTANTS
    Hashes,    \* transaction hashes
    Senders,   \* addresses
    MaxNonce,  \* bound: the largest nonce used
    Tx,        \* the decoded transaction behind every hash
    None       \* an absent Option or map entry

Nonces == 0..MaxNonce
OptionalFee == Nat \cup {None}

\* The fields of `TxDecoded` that admission and replay read.
TxRecord ==
    [sender : Senders, nonce : Nonces, tx_type : Nat,
     gas_price_wei : OptionalFee, max_fee_per_gas_wei : OptionalFee]

ASSUME TransactionAssumption ==
    /\ MaxNonce \in Nat
    /\ Tx \in [Hashes -> TxRecord]
    /\ None \notin Hashes
    /\ None \notin Nat

\* The hash a set of sender queues holds at h's sender and nonce.
SlotOf(queues, h) == queues[Tx[h].sender][Tx[h].nonce]

NoQueues == [s \in Senders |-> [n \in Nonces |-> None]]

\* `SchedulerQueueState` and `ReplayQueueState`.
QueueState ==
    [state : {"ready", "blocked"}, expected_nonce : Nat \cup {None}]

Ready == [state |-> "ready", expected_nonce |-> None]
Blocked(expected) == [state |-> "blocked", expected_nonce |-> expected]

\* `queue_entry_state`, which every traversal of a queue calls for one entry after the
\* other in the order of their nonces.  It carries next_executable_nonce and gap_seen.
InLine(scan, n) == scan.next = None \/ (~scan.gap_seen /\ n = scan.next)
ScannedState(scan, n) == IF InLine(scan, n) THEN Ready ELSE Blocked(scan.next)
ScannedOn(scan, n) ==
    IF InLine(scan, n) THEN [scan EXCEPT !.next = n + 1] ELSE [scan EXCEPT !.gap_seen = TRUE]

\* The states that a traversal of the whole queue gives its entries.
QueueScan(occupied) ==
    LET before[n \in Nonces] ==
          IF n = 0 THEN [next |-> None, gap_seen |-> FALSE]
          ELSE IF n - 1 \in occupied THEN ScannedOn(before[n - 1], n - 1) ELSE before[n - 1]
    IN  [n \in occupied |-> ScannedState(before[n], n)]

\* The same states in closed form, which the specifications use.

\* Faulty ReadyNonces: a run after a gap counts as ready again.
ReadyAfterGap(occupied) ==
    {n \in occupied : n - 1 \in occupied \/ \A m \in occupied : n <= m}

\* Ready: the least occupied nonce and all that follow it without a gap.
ReadyNonces(occupied) ==
    {n \in occupied : \A m \in occupied : m <= n => m..n \subseteq occupied}

\* The nonce the queue waits for: one past the ready run.
ExpectedNonce(occupied) ==
    LET ready == ReadyNonces(occupied)
    IN  1 + CHOOSE n \in ready : \A m \in ready : m <= n

QueueEntryState(occupied, n) ==
    IF n \in ReadyNonces(occupied) THEN Ready ELSE Blocked(ExpectedNonce(occupied))
=============================================================================
