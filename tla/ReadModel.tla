----------------------------- MODULE ReadModel -----------------------------
(***************************************************************************)
(* The read model of `InMemoryStorage` (crates/storage) and the queries    *)
(* that the dashboard API (crates/viz-api) answers from it.                *)
(*                                                                         *)
(* A hash-indexed table is a bounded queue of rows, the number of rows of  *)
(* each hash in it and the newest row of each hash.  A row is its hash,    *)
(* the fields a property tells apart and `at`, the revision that wrote it, *)
(* which also stands for its time: the clock follows the order of writes.  *)
(* `peer_stats`, the write latencies and the scheduler snapshot are not    *)
(* read by these queries; UpsertOpportunity, UpsertTxLifecycle and         *)
(* UpsertPeerStats have no producer outside the tests.                     *)
(*                                                                         *)
(* The writer task holds the write lock for one operation and a query the  *)
(* read lock, so that each is one step; a replay over a range of events    *)
(* collects them page by page, each under a read lock of its own.          *)
(***************************************************************************)
EXTENDS MempoolReplay, SequencesExt

CONSTANTS
    Buckets,          \* (protocol, category) pairs, as numbers in their sort order
    HighRisk,         \* the buckets whose mev_score is at least 80
    Chains,
    EventCapacity, TableCapacity, RecentCapacity,
    ListLimit,        \* the `limit` of the listing queries
    PageSize,         \* PAGE_SIZE of a range replay
    MaxScanEvents,    \* MAX_SCAN_EVENTS of a range replay
    MaxWrites,        \* bound: operations the writer applies
    Feeds             \* bound: the kinds of operations and queries considered together

ASSUME ReadModelAssumption ==
    /\ IsFiniteSet(Hashes)
    /\ Buckets \subseteq Nat /\ HighRisk \subseteq Buckets /\ None \notin Chains
    /\ None \notin [hash : Hashes, bucket : Buckets, at : Nat]
    /\ {EventCapacity, TableCapacity, RecentCapacity, ListLimit, PageSize, MaxScanEvents}
         \subseteq Nat \ {0}
    /\ Feeds \subseteq SUBSET {"rows", "events", "dashboard", "range"}

VARIABLES
    feed,             \* one of Feeds, chosen at the start
    events,           \* event_index: sorted by sequence id, here also arrival order
    tx_seen, tx_full, tx_features, tx_lifecycle,   \* hash-indexed tables
    recent,           \* recent_tx_order, recent_tx_counts, recent_tx_lookup
    summary,          \* feature_summary_counts, 0 where absent
    opportunities,
    market_stats,
    revision,         \* read_model_revision
    writes,           \* operations applied
    cache,            \* DashboardReadCache
    collection        \* the locals of a range replay, None before it

tables == <<tx_seen, tx_full, tx_features, tx_lifecycle, recent, summary,
            opportunities, market_stats>>

vars == <<feed, events, tables, revision, writes, cache, collection>>

----------------------------------------------------------------------------
(* Bounded tables *)

EmptyTable ==
    [rows |-> <<>>, counts |-> [h \in Hashes |-> 0], lookup |-> [h \in Hashes |-> None]]

\* The queue is over its capacity by at most the row just pushed, so the loop
\* evicts once.
PushBounded(queue, row, capacity) ==
    LET pushed == Append(queue, row)
    IN  IF Len(pushed) > capacity THEN Tail(pushed) ELSE pushed

\* The oldest row leaves; the newest row of its hash leaves with the last one.
EvictOldest(t) ==
    LET h == Head(t.rows).hash
        left == t.counts[h] - 1
    IN  [rows |-> Tail(t.rows),
         counts |-> [t.counts EXCEPT ![h] = left],
         lookup |-> IF left = 0 THEN [t.lookup EXCEPT ![h] = None] ELSE t.lookup]

PushRow(t, row) ==
    [rows |-> Append(t.rows, row),
     counts |-> [t.counts EXCEPT ![row.hash] = @ + 1],
     lookup |-> [t.lookup EXCEPT ![row.hash] = row]]

PushBoundedHashIndexed(t, row, capacity) ==
    LET pushed == PushRow(t, row)
    IN  IF Len(pushed.rows) > capacity THEN EvictOldest(pushed) ELSE pushed

\* Faulty UpsertedSummary: a row that leaves the table keeps its count.
SummaryWithoutEviction(t, row) ==
    LET replaced == IF t.lookup[row.hash] = None THEN summary
                    ELSE [summary EXCEPT ![t.lookup[row.hash].bucket] = @ - 1]
    IN  [replaced EXCEPT ![row.bucket] = @ + 1]

\* feature_summary_counts after a feature row is written: the previous newest row
\* of the hash is uncounted, and so is a hash whose last row is evicted.
UpsertedSummary(t, row) ==
    LET previous == t.lookup[row.hash]
        replaced == IF previous = None THEN summary
                    ELSE [summary EXCEPT ![previous.bucket] = @ - 1]
        counted == [replaced EXCEPT ![row.bucket] = @ + 1]
        pushed == PushRow(t, row)
        evicted == Head(pushed.rows).hash
    IN  IF Len(pushed.rows) > TableCapacity /\ pushed.counts[evicted] = 1
        THEN [counted EXCEPT ![pushed.lookup[evicted].bucket] = @ - 1]
        ELSE counted

----------------------------------------------------------------------------
(* The writer: one operation under the write lock *)

CanWrite == writes < MaxWrites /\ writes' = writes + 1

UpsertTxSeen(h) ==
    /\ CanWrite
    /\ tx_seen' = PushBoundedHashIndexed(tx_seen, [hash |-> h, at |-> revision], TableCapacity)
    /\ market_stats' = [market_stats EXCEPT !.total_tx = @ + 1]
    /\ revision' = revision + 1
    /\ UNCHANGED <<events, tx_full, tx_features, tx_lifecycle, recent, summary,
                   opportunities, cache, collection>>

UpsertTxFull(h, chain) ==
    /\ CanWrite
    /\ tx_full' = PushBoundedHashIndexed(
                     tx_full, [hash |-> h, chain |-> chain, at |-> revision], TableCapacity)
    /\ revision' = revision + 1
    /\ UNCHANGED <<events, tx_seen, tx_features, tx_lifecycle, recent, summary,
                   opportunities, market_stats, cache, collection>>

\* Faulty UpsertTxFeatures: the read model changes under the same revision.
UpsertTxFeaturesQuietly(h, b) ==
    LET row == [hash |-> h, bucket |-> b, at |-> revision]
    IN  /\ CanWrite
        /\ tx_features' = PushBoundedHashIndexed(tx_features, row, TableCapacity)
        /\ summary' = UpsertedSummary(tx_features, row)
        /\ UNCHANGED <<events, tx_seen, tx_full, tx_lifecycle, recent, opportunities,
                       market_stats, revision, cache, collection>>

\* A bucket stands for its mev_score too: low and medium risk are one class here.
UpsertTxFeatures(h, b) ==
    LET row == [hash |-> h, bucket |-> b, at |-> revision]
    IN  /\ CanWrite
        /\ tx_features' = PushBoundedHashIndexed(tx_features, row, TableCapacity)
        /\ summary' = UpsertedSummary(tx_features, row)
        /\ market_stats' =
              [market_stats EXCEPT !.signals = @ + 1,
                                   !.high = IF b \in HighRisk THEN @ + 1 ELSE @,
                                   !.lower = IF b \in HighRisk THEN @ ELSE @ + 1]
        /\ revision' = revision + 1
        /\ UNCHANGED <<events, tx_seen, tx_full, tx_lifecycle, recent, opportunities,
                       cache, collection>>

NextSeqId == IF events = <<>> THEN 1 ELSE Last(events).seq_id + 1

\* The status an event's payload gives its transaction, None if it gives none.
LifecycleUpdate(kind) ==
    CASE kind = "decoded" -> "pending"
      [] kind = "dropped" -> "dropped"
      [] kind = "replaced" -> "replaced"
      [] OTHER -> None

\* `append_event`: the projections of the payload, each a mutation of its own, and
\* then the event itself.
AppendEvent(kind, h) ==
    LET event == [seq_id |-> NextSeqId, kind |-> kind, hash |-> h]
        status == LifecycleUpdate(kind)
        row == [hash |-> h, at |-> revision]
    IN  /\ CanWrite
        /\ events' = PushBounded(events, event, EventCapacity)
        /\ recent' = IF kind = "decoded"
                     THEN PushBoundedHashIndexed(recent, row, RecentCapacity) ELSE recent
        /\ tx_lifecycle' =
              IF status = None THEN tx_lifecycle
              ELSE PushBoundedHashIndexed(
                      tx_lifecycle, [hash |-> h, status |-> status, at |-> revision],
                      TableCapacity)
        /\ opportunities' = IF kind = "queued"
                            THEN PushBounded(opportunities, row, TableCapacity)
                            ELSE opportunities
        /\ revision' = revision + (IF status # None \/ kind = "queued" THEN 2 ELSE 1)
        /\ UNCHANGED <<tx_seen, tx_full, tx_features, summary, market_stats, cache,
                       collection>>

----------------------------------------------------------------------------
(* What the queries build from the rows *)

Take(s, n) == SubSeq(s, 1, IF Len(s) < n THEN Len(s) ELSE n)

\* Where the rows of a hash are.
PlacesOf(t, h) == {i \in DOMAIN t.rows : t.rows[i].hash = h}

\* The newest row of a hash found by scanning the rows, None if there is none.
NewestRow(t, h) == IF PlacesOf(t, h) = {} THEN None ELSE t.rows[Max(PlacesOf(t, h))]

\* The newest row of every hash, newest first.
NewestRows(t) ==
    SelectSeq(Reverse(t.rows), LAMBDA row : row = NewestRow(t, row.hash))

ApplyEvent(m, e) ==
    CASE e.kind = "decoded" -> ApplyDecoded(m, e.hash)
      [] e.kind = "dropped" -> ApplyDropped(m, e.hash)
      [] e.kind = "replaced" -> ApplyReplaced(m, e.hash)
      [] OTHER -> m

ReplayOf(s) == FoldLeft(ApplyEvent, EmptyMempool, s)

\* replay_frames at stride 1: what is pending after each retained event.
ReplayPoints(s) ==
    [i \in DOMAIN s |->
       [seq_hi |-> s[i].seq_id,
        pending_count |-> Cardinality(PendingHashes(ReplayOf(SubSeq(s, 1, i))))]]

\* build_feature_summary counts rows, not transactions: most rows first.
FeatureSummary(t) ==
    LET count(b) == Cardinality({i \in DOMAIN t.rows : t.rows[i].bucket = b})
        shown == {<<b, count(b)>> : b \in {c \in Buckets : count(c) > 0}}
    IN  SetToSortSeq(shown, LAMBDA p, q : p[2] > q[2] \/ (p[2] = q[2] /\ p[1] < q[1]))

FeatureDetails(t) == NewestRows(t)

\* Newest detection first.
Opportunities(rows) == SortSeq(rows, LAMBDA p, q : p.at > q.at)

Views ==
    [replay_points |-> ReplayPoints(events),
     feature_summary |-> FeatureSummary(tx_features),
     feature_details |-> FeatureDetails(tx_features),
     opportunities |-> Opportunities(opportunities)]

\* `recent_transactions`: the newest distinct hashes by observation.
RecentTransactions(limit) == Take(NewestRows(recent), limit)

ScanLimit(limit, chain) == IF chain = None THEN limit ELSE 4 * limit

ChainMatches(row_chain, chain) == chain = None \/ row_chain = chain

ChainOfFull(row) == IF row = None THEN None ELSE row.chain

\* `current_lifecycle`: the status that replaying the retained events gives.
CurrentLifecycle(h) ==
    LET m == ReplayOf(events) IN IF m.txs[h] = None THEN None ELSE m.txs[h].status

\* The joined row of one transaction, as the listing shows it.
ListedDetail(h) ==
    LET lifecycle == NewestRow(tx_lifecycle, h)
    IN  [seen |-> NewestRow(tx_seen, h),
         full |-> NewestRow(tx_full, h),
         feature |-> NewestRow(tx_features, h),
         status |-> IF lifecycle = None THEN None ELSE lifecycle.status]

TransactionDetails(limit) ==
    LET newest == Take(NewestRows(tx_seen), limit)
    IN  [i \in DOMAIN newest |-> ListedDetail(newest[i].hash)]

\* Faulty TransactionDetailByHash: the first row of the hash is shown.
TransactionDetailOldest(h) ==
    LET first(t) == IF PlacesOf(t, h) = {} THEN None ELSE t.rows[Min(PlacesOf(t, h))]
    IN  IF first(tx_seen) = None THEN None
        ELSE [seen |-> first(tx_seen), full |-> first(tx_full),
              feature |-> first(tx_features), status |-> CurrentLifecycle(h)]

\* The row of one transaction by its hash: an evicted lifecycle row is recovered
\* by replaying the retained events.
TransactionDetailByHash(h) ==
    IF NewestRow(tx_seen, h) = None THEN None
    ELSE [ListedDetail(h) EXCEPT !.status =
            IF NewestRow(tx_lifecycle, h) = None THEN CurrentLifecycle(h) ELSE @]

\* /transactions: each row's chain is that of its detail, a query of its own.
TransactionsOfChain(chain) ==
    LET detail(h) == TransactionDetailByHash(h)
        of_chain(row) == \/ chain = None
                         \/ /\ detail(row.hash) # None
                            /\ ChainMatches(ChainOfFull(detail(row.hash).full), chain)
    IN  Take(SelectSeq(RecentTransactions(ScanLimit(ListLimit, chain)), of_chain), ListLimit)

\* The transactions of /dashboard/snapshot-v2: chains come from the full table.
SnapshotTransactions(chain) ==
    LET of_chain(row) == ChainMatches(ChainOfFull(NewestRow(tx_full, row.hash)), chain)
    IN  Take(SelectSeq(RecentTransactions(ScanLimit(ListLimit, chain)), of_chain), ListLimit)

----------------------------------------------------------------------------
(* Reads that keep state *)

\* `dashboard_cache_snapshot`: rebuilt when the revision moved.
ReadDashboard ==
    /\ cache.revision # revision
    /\ cache' = [revision |-> revision, views |-> Views]
    /\ UNCHANGED <<events, tables, revision, writes, collection>>

\* A range replay up to `to` begins.
StartCollection(to) ==
    /\ collection = None
    /\ events # <<>>
    /\ collection' = [to |-> to, after_seq_id |-> 0, out |-> <<>>, done |-> FALSE,
                      oldest |-> Head(events).seq_id,    \* history
                      newest |-> Last(events).seq_id]    \* history
    /\ UNCHANGED <<events, tables, revision, writes, cache>>

\* `events(after_seq_id, .., PAGE_SIZE)`
Page(after_seq_id) ==
    Take(SelectSeq(events, LAMBDA e : e.seq_id > after_seq_id), PageSize)

\* `collect_events_up_to_seq` reads its next page, unless it has enough.
CollectPage ==
    LET page == Page(collection.after_seq_id)
        wanted == SelectSeq(page, LAMBDA e : e.seq_id <= collection.to)
    IN  /\ collection # None /\ ~collection.done
        /\ collection' =
              IF Len(collection.out) >= MaxScanEvents \/ page = <<>>
              THEN [collection EXCEPT !.done = TRUE]
              ELSE [collection EXCEPT !.after_seq_id = Last(page).seq_id,
                                      !.out = @ \o wanted,
                                      !.done = Last(page).seq_id >= collection.to]
        /\ UNCHANGED <<events, tables, revision, writes, cache>>

\* `lifecycle_snapshot`: None without an event of that id.
LifecycleSnapshot(s, seq_id) ==
    IF \E i \in DOMAIN s : s[i].seq_id = seq_id
    THEN Frame(ReplayOf(SelectSeq(s, LAMBDA e : e.seq_id <= seq_id)))
    ELSE None

\* `replay_from_checkpoint` at stride 1.
FramesFrom(s, checkpoint, seq_id) ==
    LET tail == SelectSeq(s, LAMBDA e : e.seq_id > seq_id)
        resumed(i) == FoldLeft(ApplyEvent, FromCheckpoint(checkpoint), SubSeq(tail, 1, i))
    IN  [i \in DOMAIN tail |-> [seq_hi |-> tail[i].seq_id,
                                pending_count |-> Cardinality(PendingHashes(resumed(i)))]]

\* `replay_diff_summary`
ReplayDiffSummary(s, from, to) ==
    LET before == LifecycleSnapshot(s, from)
        after == LifecycleSnapshot(s, to)
    IN  IF None \in {before, after} THEN None
        ELSE [added_pending |-> after.pending \ before.pending,
              removed_pending |-> before.pending \ after.pending]

\* The answer of /replay with a range, None for NOT_FOUND.
RangeReplay(s, from, to) ==
    IF ReplayDiffSummary(s, from, to) = None THEN None
    ELSE [summary |-> ReplayDiffSummary(s, from, to),
          frames |-> FramesFrom(s, LifecycleSnapshot(s, from), from)]

----------------------------------------------------------------------------
Init ==
    /\ feed \in Feeds
    /\ events = <<>> /\ opportunities = <<>>
    /\ tx_seen = EmptyTable /\ tx_full = EmptyTable /\ tx_features = EmptyTable
    /\ tx_lifecycle = EmptyTable /\ recent = EmptyTable
    /\ summary = [b \in Buckets |-> 0]
    /\ market_stats = [total_tx |-> 0, signals |-> 0, high |-> 0, lower |-> 0]
    /\ revision = 0 /\ writes = 0
    /\ cache = [revision |-> None, views |-> None]
    /\ collection = None

Write ==
    \E h \in Hashes :
       \/ /\ "rows" \in feed
          /\ \/ UpsertTxSeen(h)
             \/ \E chain \in Chains : UpsertTxFull(h, chain)
             \/ \E b \in Buckets : UpsertTxFeatures(h, b)
       \/ /\ "events" \in feed
          /\ \E kind \in {"decoded", "dropped", "replaced", "queued"} : AppendEvent(kind, h)

Next ==
    /\ \/ Write
       \/ "dashboard" \in feed /\ ReadDashboard
       \/ "range" \in feed /\ (CollectPage \/ \E to \in 1..MaxWrites : StartCollection(to))
    /\ UNCHANGED feed

Spec == Init /\ [][Next]_vars

----------------------------------------------------------------------------
(* Properties *)

IndexExact(t) ==
    \A h \in Hashes : t.counts[h] = Cardinality(PlacesOf(t, h)) /\ t.lookup[h] = NewestRow(t, h)

\* Every hash index of the storage gives the newest retained row of its hash, and
\* feature_summary_counts the number of retained transactions in each bucket,
\* however often a hash was written again and whatever was evicted.
IndexesExact ==
    /\ \A t \in {tx_seen, tx_full, tx_features, tx_lifecycle, recent} : IndexExact(t)
    /\ \A b \in Buckets :
          summary[b] = Cardinality({h \in Hashes :
                                      /\ NewestRow(tx_features, h) # None
                                      /\ NewestRow(tx_features, h).bucket = b})
    /\ market_stats.signals = market_stats.high + market_stats.lower

\* The dashboard cache answers a reader at an unchanged revision with what a
\* rebuild would show: no write of the storage goes without a new revision.
CacheNeverStale == cache.revision = revision => cache.views = Views

\* The routes agree: a row of /transactions/all is what the by-hash route answers,
\* up to a status recovered from the log, and /transactions lists for a chain what
\* the dashboard snapshot shows, unless a `tx_seen` row it needs was evicted.  And a
\* range replay that collected its pages while the writer went on shows the points
\* that /replay does, unless an event was evicted meanwhile, and shows them if both
\* ends were there at the start and the scan bound is not reached.
RoutesAgree ==
    /\ collection # None /\ collection.done /\ collection.oldest = Head(events).seq_id
       => \A from \in 1..collection.to :
            LET answer == RangeReplay(collection.out, from, collection.to)
            IN  IF answer = None
                THEN \/ from < collection.oldest \/ collection.to > collection.newest
                     \/ Len(collection.out) >= MaxScanEvents
                ELSE answer.frames =
                       SelectSeq(ReplayPoints(events), LAMBDA p : from < p.seq_hi /\ p.seq_hi <= collection.to)
    /\ \A i \in DOMAIN TransactionDetails(ListLimit) :
          LET listed == TransactionDetails(ListLimit)[i]
              shown == TransactionDetailByHash(listed.seen.hash)
          IN  /\ shown # None
              /\ listed.seen = shown.seen /\ listed.full = shown.full
              /\ listed.feature = shown.feature
              /\ listed.status # None => listed.status = shown.status
    /\ \A chain \in Chains :
          (\A h \in Hashes : NewestRow(tx_seen, h) # None)
              => TransactionsOfChain(chain) = SnapshotTransactions(chain)
=============================================================================
