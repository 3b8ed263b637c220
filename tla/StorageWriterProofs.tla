------------------------ MODULE StorageWriterProofs ------------------------
(***************************************************************************)
(* What the storage writer delivers and when a record may leave the log,   *)
(* for every queue, batch and ring capacity, every number of events, and   *)
(* every failure of the sink, the disk and the process; that an intact log *)
(* is what the event store serves after any restart; and that no two       *)
(* events of log and memory share an id.                                   *)
(***************************************************************************)
EXTENDS StorageWriter, SequenceTheorems, FiniteSetTheorems, TLAPS

----------------------------------------------------------------------------
(* Sequences over whatever they hold *)

\* s is a sequence, of whatever it holds.
IsSeq(s) == s \in Seq(Range(s))

\* A sequence over any set is one over its own elements.
LEMMA SeqIsSeq ==
    ASSUME NEW S, NEW s \in Seq(S)
    PROVE  IsSeq(s) /\ Len(s) \in Nat /\ DOMAIN s = 1..Len(s) /\ Range(s) \subseteq S
<1>1. Len(s) \in Nat /\ DOMAIN s = 1..Len(s) /\ \A i \in 1..Len(s) : s[i] \in S
  BY LenProperties, ElementOfSeq
<1>2. s \in Seq(Range(s))
  BY <1>1, SeqMonotonic DEF Range
<1>3. QED
  BY <1>1, <1>2 DEF IsSeq, Range

\* The empty sequence.
LEMMA EmptyIsSeq == IsSeq(<<>>) /\ Range(<<>>) = {} /\ Len(<<>>) = 0 /\ DOMAIN <<>> = {}
BY DEF IsSeq, Range

\* What appending does to length, elements and range.
LEMMA AppendIsSeq ==
    ASSUME NEW s, IsSeq(s), NEW e
    PROVE  /\ IsSeq(Append(s, e))
           /\ Len(s) \in Nat
           /\ Len(Append(s, e)) = Len(s) + 1
           /\ DOMAIN Append(s, e) = 1..(Len(s) + 1)
           /\ Range(Append(s, e)) = Range(s) \cup {e}
           /\ \A i \in 1..(Len(s) + 1) : Append(s, e)[i] = IF i = Len(s) + 1 THEN e ELSE s[i]
<1> DEFINE S == Range(s) \cup {e}
<1>1. s \in Seq(S) /\ e \in S
  BY SeqMonotonic DEF IsSeq
<1>2. Len(s) \in Nat /\ DOMAIN s = 1..Len(s)
  BY LenProperties DEF IsSeq
<1>3. /\ Append(s, e) \in Seq(S)
      /\ Len(Append(s, e)) = Len(s) + 1
      /\ \A i \in 1..Len(s) : Append(s, e)[i] = s[i]
      /\ Append(s, e)[Len(s) + 1] = e
  BY <1>1, AppendProperties
<1>4. IsSeq(Append(s, e)) /\ DOMAIN Append(s, e) = 1..(Len(s) + 1)
  BY <1>3, SeqIsSeq
<1>5. Range(Append(s, e)) = S
  BY <1>2, <1>3, <1>4 DEF Range
<1>6. QED
  BY <1>2, <1>3, <1>4, <1>5

\* What concatenation does to length, elements and range.
LEMMA ConcatIsSeq ==
    ASSUME NEW s, IsSeq(s), NEW t, IsSeq(t)
    PROVE  /\ IsSeq(s \o t)
           /\ Len(s) \in Nat /\ Len(t) \in Nat
           /\ DOMAIN (s \o t) = 1..(Len(s) + Len(t))
           /\ Range(s \o t) = Range(s) \cup Range(t)
           /\ \A i \in 1..(Len(s) + Len(t)) :
                (s \o t)[i] = IF i <= Len(s) THEN s[i] ELSE t[i - Len(s)]
<1> DEFINE S == Range(s) \cup Range(t)
<1>1. s \in Seq(S) /\ t \in Seq(S)
  BY SeqMonotonic DEF IsSeq
<1>2. /\ Len(s) \in Nat /\ DOMAIN s = 1..Len(s)
      /\ Len(t) \in Nat /\ DOMAIN t = 1..Len(t)
  BY LenProperties DEF IsSeq
<1>3. /\ s \o t \in Seq(S)
      /\ Len(s \o t) = Len(s) + Len(t)
      /\ \A i \in 1..(Len(s) + Len(t)) :
           (s \o t)[i] = IF i <= Len(s) THEN s[i] ELSE t[i - Len(s)]
  BY <1>1, ConcatProperties
<1>4. IsSeq(s \o t) /\ DOMAIN (s \o t) = 1..(Len(s) + Len(t))
  BY <1>3, SeqIsSeq
<1>5. Range(s \o t) \subseteq S
  BY <1>2, <1>3, <1>4 DEF Range
<1>6. ASSUME NEW x \in Range(s) PROVE x \in Range(s \o t)
  <2>1. PICK i \in 1..Len(s) : x = s[i]
    BY <1>2 DEF Range
  <2>2. QED
    BY <1>2, <1>3, <1>4, <2>1 DEF Range
<1>7. ASSUME NEW x \in Range(t) PROVE x \in Range(s \o t)
  <2>1. PICK i \in 1..Len(t) : x = t[i]
    BY <1>2 DEF Range
  <2>2. Len(s) + i \in 1..(Len(s) + Len(t)) /\ (s \o t)[Len(s) + i] = x
    BY <1>2, <1>3, <2>1
  <2>3. QED
    BY <1>4, <2>2 DEF Range
<1>8. QED
  BY <1>2, <1>3, <1>4, <1>5, <1>6, <1>7

\* What taking the head off does to length, elements and range.
LEMMA TailIsSeq ==
    ASSUME NEW s, IsSeq(s), s # <<>>
    PROVE  /\ IsSeq(Tail(s))
           /\ Len(s) \in Nat \ {0} /\ DOMAIN s = 1..Len(s)
           /\ Head(s) = s[1]
           /\ DOMAIN Tail(s) = 1..(Len(s) - 1)
           /\ \A i \in 1..(Len(s) - 1) : Tail(s)[i] = s[i + 1]
           /\ Range(Tail(s)) \subseteq Range(s)
           /\ Range(s) = {Head(s)} \cup Range(Tail(s))
<1>1. /\ Len(s) \in Nat \ {0} /\ DOMAIN s = 1..Len(s)
      /\ Tail(s) \in Seq(Range(s))
      /\ Len(Tail(s)) = Len(s) - 1
      /\ \A i \in 1..(Len(s) - 1) : Tail(s)[i] = s[i + 1]
      /\ Head(s) = s[1]
  BY HeadTailProperties, LenProperties, EmptySeq DEF IsSeq
<1>2. IsSeq(Tail(s)) /\ DOMAIN Tail(s) = 1..(Len(s) - 1) /\ Range(Tail(s)) \subseteq Range(s)
  BY <1>1, SeqIsSeq
<1>3. ASSUME NEW x \in Range(s), x # Head(s) PROVE x \in Range(Tail(s))
  <2>1. PICK i \in 1..Len(s) : x = s[i]
    BY <1>1 DEF Range
  <2>2. i - 1 \in 1..(Len(s) - 1) /\ Tail(s)[i - 1] = x
    BY <1>1, <1>3, <2>1
  <2>3. QED
    BY <1>2, <2>2 DEF Range
<1>4. Head(s) \in Range(s)
  BY <1>1 DEF Range
<1>5. QED
  BY <1>1, <1>2, <1>3, <1>4

----------------------------------------------------------------------------
(* The order of delivery *)

\* The events of s in the order of their acceptance.
Ascending(s) == \A i, j \in DOMAIN s : i < j => s[i].payload < s[j].payload

\* Every number of A is below every number of B.
Below(A, B) == \A m \in A, n \in B : m < n

\* The accepted events the writer has not taken out of the queue.
Waiting == Range(queue) \ {Upsert}

\* An event moves from the queue through the batch and the flush to the sink,
\* and what is further on was accepted earlier.
DeliveryOrder ==
    /\ accepted \in Nat
    /\ queue \in Seq(0..accepted)
    /\ \A i, j \in DOMAIN queue :
         i < j /\ queue[i] # Upsert /\ queue[j] # Upsert => queue[i] < queue[j]
    /\ IsSeq(sink)
    /\ IsSeq(flushing) /\ Ascending(flushing)
    /\ IsSeq(batch) /\ Ascending(batch)
    /\ Below(Payloads(sink), Payloads(flushing) \cup Payloads(batch) \cup Waiting)
    /\ Below(Payloads(flushing), Payloads(batch) \cup Waiting)
    /\ Below(Payloads(batch), Waiting)
    /\ Payloads(sink) \cup Payloads(flushing) \cup Payloads(batch) \subseteq 1..accepted

\* What the writer still has before it.
Undelivered == Payloads(flushing) \cup Payloads(batch) \cup Waiting

\* Batches given up share no event with each other, with the sink or with what is
\* still to be delivered.
UnansweredApart ==
    /\ \A rows \in unanswered :
         /\ IsSeq(rows) /\ Ascending(rows)
         /\ Payloads(rows) \cap Payloads(sink) = {}
         /\ Below(Payloads(rows), Undelivered)
         /\ Payloads(rows) \subseteq 1..accepted
    /\ \A b, c \in unanswered : b # c => Payloads(b) \cap Payloads(c) = {}

\* The payloads of a sequence are those of its elements.
LEMMA PayloadsOfRange ==
    ASSUME NEW s
    PROVE  Payloads(s) = {e.payload : e \in Range(s)}
BY DEF Payloads, Range

\* An empty stage is in order.
LEMMA EmptyIsAscending == IsSeq(<<>>) /\ Ascending(<<>>) /\ Payloads(<<>>) = {}
BY EmptyIsSeq DEF Ascending, Payloads

\* An event above all others of a stage may be appended to it.
LEMMA AppendAscending ==
    ASSUME NEW s, IsSeq(s), Ascending(s), NEW e, Below(Payloads(s), {e.payload})
    PROVE  /\ IsSeq(Append(s, e)) /\ Ascending(Append(s, e))
           /\ Payloads(Append(s, e)) = Payloads(s) \cup {e.payload}
<1>1. /\ Len(s) \in Nat
      /\ DOMAIN Append(s, e) = 1..(Len(s) + 1)
      /\ Range(Append(s, e)) = Range(s) \cup {e}
      /\ \A i \in 1..(Len(s) + 1) : Append(s, e)[i] = IF i = Len(s) + 1 THEN e ELSE s[i]
      /\ IsSeq(Append(s, e))
  BY AppendIsSeq
<1>2. DOMAIN s = 1..Len(s)
  BY SeqIsSeq DEF IsSeq
<1>3. \A i \in 1..Len(s) : s[i].payload < e.payload
  BY <1>2 DEF Below, Payloads
<1>4. Ascending(Append(s, e))
  BY <1>1, <1>2, <1>3 DEF Ascending
<1>5. Payloads(Append(s, e)) = Payloads(s) \cup {e.payload}
  BY <1>1, PayloadsOfRange
<1>6. QED
  BY <1>1, <1>4, <1>5

\* A stage may be appended to one that is below it.
LEMMA ConcatAscending ==
    ASSUME NEW s, IsSeq(s), Ascending(s), NEW t, IsSeq(t), Ascending(t),
           Below(Payloads(s), Payloads(t))
    PROVE  /\ IsSeq(s \o t) /\ Ascending(s \o t)
           /\ Payloads(s \o t) = Payloads(s) \cup Payloads(t)
<1>1. /\ IsSeq(s \o t)
      /\ Len(s) \in Nat /\ Len(t) \in Nat
      /\ DOMAIN (s \o t) = 1..(Len(s) + Len(t))
      /\ Range(s \o t) = Range(s) \cup Range(t)
      /\ \A i \in 1..(Len(s) + Len(t)) :
           (s \o t)[i] = IF i <= Len(s) THEN s[i] ELSE t[i - Len(s)]
  BY ConcatIsSeq
<1>2. DOMAIN s = 1..Len(s) /\ DOMAIN t = 1..Len(t)
  BY SeqIsSeq DEF IsSeq
<1>3. \A i \in 1..Len(s), j \in 1..Len(t) : s[i].payload < t[j].payload
  BY <1>2 DEF Below, Payloads
<1>4. Ascending(s \o t)
  <2> SUFFICES ASSUME NEW i \in 1..(Len(s) + Len(t)), NEW j \in 1..(Len(s) + Len(t)), i < j
               PROVE  (s \o t)[i].payload < (s \o t)[j].payload
    BY <1>1 DEF Ascending
  <2>1. CASE j <= Len(s)
    BY <1>1, <1>2, <2>1 DEF Ascending
  <2>2. CASE i <= Len(s) /\ j > Len(s)
    BY <1>1, <1>3, <2>2
  <2>3. CASE i > Len(s)
    <3>1. i - Len(s) \in DOMAIN t /\ j - Len(s) \in DOMAIN t /\ i - Len(s) < j - Len(s)
      BY <1>1, <1>2, <2>3
    <3>2. (s \o t)[i] = t[i - Len(s)] /\ (s \o t)[j] = t[j - Len(s)]
      BY <1>1, <2>3
    <3>3. QED
      BY <3>1, <3>2 DEF Ascending
  <2>4. QED
    BY <1>1, <2>1, <2>2, <2>3
<1>5. Payloads(s \o t) = Payloads(s) \cup Payloads(t)
  BY <1>1, PayloadsOfRange
<1>6. QED
  BY <1>1, <1>4, <1>5

\* The oldest entry of the queue is the next one in order.
LEMMA HeadOfQueue ==
    ASSUME DeliveryOrder, queue # <<>>
    PROVE  /\ Tail(queue) \in Seq(0..accepted)
           /\ \A i, j \in DOMAIN Tail(queue) :
                i < j /\ Tail(queue)[i] # Upsert /\ Tail(queue)[j] # Upsert =>
                    Tail(queue)[i] < Tail(queue)[j]
           /\ Range(Tail(queue)) \subseteq Range(queue)
           /\ Head(queue) \in Range(queue)
           /\ Head(queue) # Upsert => Below({Head(queue)}, Range(Tail(queue)) \ {Upsert})
<1>1. IsSeq(queue)
  BY SeqIsSeq DEF DeliveryOrder
<1>2. /\ Len(queue) \in Nat \ {0} /\ DOMAIN queue = 1..Len(queue)
      /\ Head(queue) = queue[1]
      /\ DOMAIN Tail(queue) = 1..(Len(queue) - 1)
      /\ \A i \in 1..(Len(queue) - 1) : Tail(queue)[i] = queue[i + 1]
      /\ Range(Tail(queue)) \subseteq Range(queue)
      /\ Range(queue) = {Head(queue)} \cup Range(Tail(queue))
  BY <1>1, TailIsSeq
<1>3. Tail(queue) \in Seq(0..accepted)
  BY HeadTailProperties DEF DeliveryOrder
<1>4. \A i, j \in DOMAIN Tail(queue) :
        i < j /\ Tail(queue)[i] # Upsert /\ Tail(queue)[j] # Upsert =>
            Tail(queue)[i] < Tail(queue)[j]
  BY <1>2 DEF DeliveryOrder
<1>5. Head(queue) # Upsert => Below({Head(queue)}, Range(Tail(queue)) \ {Upsert})
  <2> SUFFICES ASSUME Head(queue) # Upsert, NEW n \in Range(Tail(queue)), n # Upsert
               PROVE  Head(queue) < n
    BY DEF Below
  <2>1. PICK i \in 1..(Len(queue) - 1) : n = queue[i + 1]
    BY <1>2 DEF Range
  <2>2. i + 1 \in DOMAIN queue /\ 1 \in DOMAIN queue /\ 1 < i + 1
    BY <1>2
  <2>3. QED
    BY <1>2, <2>1, <2>2 DEF DeliveryOrder
<1>6. QED
  BY <1>2, <1>3, <1>4, <1>5

\* `enqueue`: what is accepted now comes after everything accepted before.
LEMMA EnqueueKeepsOrder ==
    ASSUME DeliveryOrder, EnqueueEvent \/ EnqueueUpsert
    PROVE  DeliveryOrder'
<1>1. PICK entry \in {accepted + 1, Upsert} :
         /\ queue' = Append(queue, entry)
         /\ accepted' = IF entry = Upsert THEN accepted ELSE entry
  BY DEF EnqueueEvent, EnqueueUpsert, Upsert, DeliveryOrder
<1>2. UNCHANGED <<batch, flushing, sink>>
  BY DEF EnqueueEvent, EnqueueUpsert, memory_vars, sink_vars
<1>3. accepted' \in Nat /\ accepted <= accepted' /\ entry \in 0..accepted'
  BY <1>1 DEF DeliveryOrder, Upsert
<1>4. IsSeq(queue) /\ DOMAIN queue = 1..Len(queue) /\ Range(queue) \subseteq 0..accepted
  BY SeqIsSeq DEF DeliveryOrder
<1>5. /\ Len(queue) \in Nat
      /\ DOMAIN queue' = 1..(Len(queue) + 1)
      /\ Range(queue') = Range(queue) \cup {entry}
      /\ \A i \in 1..(Len(queue) + 1) : queue'[i] = IF i = Len(queue) + 1 THEN entry ELSE queue[i]
  BY <1>1, <1>4, AppendIsSeq
<1>6. queue' \in Seq(0..accepted')
  <2>1. queue \in Seq(0..accepted')
    BY <1>3, SeqMonotonic DEF DeliveryOrder
  <2>2. QED
    BY <1>1, <1>3, <2>1, AppendProperties
<1>7. ASSUME NEW i \in DOMAIN queue', NEW j \in DOMAIN queue', i < j,
             queue'[i] # Upsert, queue'[j] # Upsert
      PROVE  queue'[i] < queue'[j]
  <2>1. i \in DOMAIN queue /\ queue'[i] = queue[i] /\ queue[i] \in 0..accepted
    BY <1>4, <1>5, <1>7 DEF Range
  <2>2. CASE j = Len(queue) + 1
    BY <1>1, <1>3, <1>5, <1>7, <2>1, <2>2 DEF DeliveryOrder
  <2>3. CASE j # Len(queue) + 1
    BY <1>4, <1>5, <1>7, <2>1, <2>3 DEF DeliveryOrder
  <2>4. QED
    BY <2>2, <2>3
<1>8. Waiting' \subseteq Waiting \cup {accepted + 1}
  BY <1>1, <1>5 DEF Waiting
<1>9. Payloads(sink) \cup Payloads(flushing) \cup Payloads(batch) \subseteq 1..accepted'
  BY <1>3 DEF DeliveryOrder
<1>10. \A m \in 1..accepted : m < accepted + 1
  BY DEF DeliveryOrder
<1>11. /\ Below(Payloads(sink), Payloads(flushing) \cup Payloads(batch) \cup Waiting')
       /\ Below(Payloads(flushing), Payloads(batch) \cup Waiting')
       /\ Below(Payloads(batch), Waiting')
  BY <1>8, <1>10 DEF DeliveryOrder, Below
<1>12. QED
  BY <1>2, <1>3, <1>6, <1>7, <1>9, <1>11 DEF DeliveryOrder, Ascending, Payloads, IsSeq

\* Taking an event out of the queue puts it behind the batch, which the flush may
\* take over at once.
LEMMA ApplyKeepsOrder ==
    ASSUME DeliveryOrder, flushing = <<>>, NEW outcome, ApplyEvent(outcome)
    PROVE  DeliveryOrder'
<1> DEFINE grown == Append(batch, NextEvent)
<1>1. /\ queue # <<>> /\ Head(queue) # Upsert
      /\ queue' = Tail(queue)
      /\ UNCHANGED <<sink, accepted>>
      /\ \/ flushing' = grown /\ batch' = <<>>
         \/ batch' = grown /\ flushing' = <<>>
  BY DEF ApplyEvent, BeginFlush, sink_vars
<1>2. /\ queue' \in Seq(0..accepted)
      /\ \A i, j \in DOMAIN queue' :
           i < j /\ queue'[i] # Upsert /\ queue'[j] # Upsert => queue'[i] < queue'[j]
      /\ Waiting' \subseteq Waiting
      /\ Head(queue) \in Waiting
      /\ Below({Head(queue)}, Waiting')
  BY <1>1, HeadOfQueue DEF Waiting
<1>3. NextEvent.payload = Head(queue)
  BY DEF NextEvent
<1>4. Head(queue) \in 1..accepted
  <2>1. Range(queue) \subseteq 0..accepted
    BY SeqIsSeq DEF DeliveryOrder
  <2>2. QED
    BY <1>2, <2>1 DEF Waiting, Upsert, DeliveryOrder
<1>5. Below(Payloads(batch), {Head(queue)})
  BY <1>2 DEF DeliveryOrder, Below
<1>6. /\ IsSeq(grown) /\ Ascending(grown)
      /\ Payloads(grown) = Payloads(batch) \cup {Head(queue)}
  BY <1>3, <1>5, AppendAscending DEF DeliveryOrder
<1> HIDE DEF grown
<1>7. /\ Below(Payloads(sink), Payloads(grown) \cup Waiting')
      /\ Below(Payloads(grown), Waiting')
      /\ Payloads(sink) \cup Payloads(grown) \subseteq 1..accepted
  BY <1>2, <1>4, <1>6 DEF DeliveryOrder, Below
<1>8. /\ IsSeq(flushing') /\ Ascending(flushing') /\ IsSeq(batch') /\ Ascending(batch')
      /\ Below(Payloads(sink), Payloads(flushing') \cup Payloads(batch') \cup Waiting')
      /\ Below(Payloads(flushing'), Payloads(batch') \cup Waiting')
      /\ Below(Payloads(batch'), Waiting')
      /\ Payloads(sink) \cup Payloads(flushing') \cup Payloads(batch') \subseteq 1..accepted
  <2>1. CASE flushing' = grown /\ batch' = <<>>
    BY <1>6, <1>7, <2>1, EmptyIsAscending DEF Below
  <2>2. CASE batch' = grown /\ flushing' = <<>>
    BY <1>6, <1>7, <2>2, EmptyIsAscending DEF Below
  <2>3. QED
    BY <1>1, <2>1, <2>2
<1>9. QED
  BY <1>1, <1>2, <1>8 DEF DeliveryOrder, Ascending, Payloads, IsSeq

\* Every other step forgets the front of the queue, hands the batch to the flush,
\* ends the flush, or loses the memory.
LEMMA MovesKeepOrder ==
    ASSUME DeliveryOrder, UNCHANGED accepted,
           \/ UNCHANGED queue
           \/ queue # <<>> /\ queue' = Tail(queue)
           \/ queue' = <<>>,
           \/ UNCHANGED <<batch, flushing, sink>>
           \/ flushing' = batch /\ batch' = <<>> /\ UNCHANGED sink
           \/ /\ flushing' = <<>> /\ (UNCHANGED batch \/ batch' = <<>>)
              /\ sink' \in {sink, sink \o flushing}
    PROVE  DeliveryOrder'
<1>1. /\ queue' \in Seq(0..accepted)
      /\ \A i, j \in DOMAIN queue' :
           i < j /\ queue'[i] # Upsert /\ queue'[j] # Upsert => queue'[i] < queue'[j]
      /\ Waiting' \subseteq Waiting
  <2>1. CASE UNCHANGED queue
    BY <2>1 DEF DeliveryOrder, Waiting
  <2>2. CASE queue # <<>> /\ queue' = Tail(queue)
    BY <2>2, HeadOfQueue DEF Waiting
  <2>3. CASE queue' = <<>>
    BY <2>3, EmptySeq, EmptyIsSeq DEF Waiting
  <2>4. QED
    BY <2>1, <2>2, <2>3
<1>2. /\ IsSeq(sink \o flushing)
      /\ Payloads(sink \o flushing) = Payloads(sink) \cup Payloads(flushing)
  BY ConcatIsSeq, PayloadsOfRange DEF DeliveryOrder
<1>3. /\ IsSeq(sink')
      /\ IsSeq(flushing') /\ Ascending(flushing') /\ IsSeq(batch') /\ Ascending(batch')
      /\ Below(Payloads(sink'), Payloads(flushing') \cup Payloads(batch') \cup Waiting')
      /\ Below(Payloads(flushing'), Payloads(batch') \cup Waiting')
      /\ Below(Payloads(batch'), Waiting')
      /\ Payloads(sink') \cup Payloads(flushing') \cup Payloads(batch') \subseteq 1..accepted
  <2>1. CASE UNCHANGED <<batch, flushing, sink>>
    BY <1>1, <2>1 DEF DeliveryOrder, Below
  <2>2. CASE flushing' = batch /\ batch' = <<>> /\ UNCHANGED sink
    BY <1>1, <2>2, EmptyIsAscending DEF DeliveryOrder, Below
  <2>3. CASE /\ flushing' = <<>> /\ (UNCHANGED batch \/ batch' = <<>>)
             /\ sink' \in {sink, sink \o flushing}
    BY <1>1, <1>2, <2>3, EmptyIsAscending DEF DeliveryOrder, Below
  <2>4. QED
    BY <2>1, <2>2, <2>3
<1>4. QED
  BY <1>1, <1>3 DEF DeliveryOrder, Ascending, Payloads, IsSeq

\* Which of batch and flush may hold events in which phase of the writer.
Stages ==
    /\ phase # "flushing" => flushing = <<>>
    /\ phase \in {"flushing", "clearing"} => batch = <<>>
    /\ life_start \in Nat

\* `BeginFlush` leaves the batch empty until the flush and the removal are over.
LEMMA StepKeepsStages ==
    ASSUME Stages, accepted \in Nat, [Next]_vars
    PROVE  Stages'
<1>1. CASE Start
  BY <1>1 DEF Stages, Start
<1>2. CASE Producers
  BY <1>2 DEF Stages, Producers, EnqueueEvent, EnqueueUpsert, Close, memory_vars
<1>3. CASE \E outcome \in AppendOutcomes : ApplyEvent(outcome)
  <2>1. PICK outcome \in AppendOutcomes : ApplyEvent(outcome)
    BY <1>3
  <2>2. phase = "idle" /\ UNCHANGED life_start
    BY <2>1 DEF ApplyEvent
  <2>3. \/ batch' = <<>> /\ phase' = "flushing"
        \/ UNCHANGED <<flushing, phase>>
    BY <2>1 DEF ApplyEvent, BeginFlush
  <2>4. QED
    BY <2>2, <2>3 DEF Stages
<1>4. CASE ApplyUpsert \/ ClearSegment \/ ClearDone \/ ClearFails \/ FlushSucceeds \/ FlushFails
  BY <1>4 DEF Stages, ApplyUpsert, ClearSegment, ClearDone, ClearFails, FlushSucceeds,
              FlushFails, memory_vars
<1>5. CASE Tick \/ Finish
  BY <1>5 DEF Stages, Tick, Finish, BeginFlush
<1>6. CASE Crash \/ (\E outcome : CrashInAppend(outcome)) \/ Exit
  BY <1>6 DEF Stages, Crash, CrashInAppend, Exit, LoseMemory
<1>7. CASE UNCHANGED vars \/ Sink
  BY <1>7 DEF Stages, vars, memory_vars, Sink, LateInsert
<1>8. QED
  BY <1>1, <1>2, <1>3, <1>4, <1>5, <1>6, <1>7 DEF Next, Writer, Process

\* A batch given up that ClickHouse stores after all comes before everything the
\* writer still has to deliver.
LEMMA LateInsertKeepsOrder ==
    ASSUME DeliveryOrder, UnansweredApart, NEW rows \in unanswered, LateInsert(rows)
    PROVE  DeliveryOrder' /\ UnansweredApart'
<1>1. /\ UNCHANGED <<accepted, queue, batch, flushing>>
      /\ sink' = sink \o rows
      /\ unanswered' = unanswered \ {rows}
  BY DEF LateInsert, memory_vars
<1>2. Waiting' = Waiting /\ Undelivered' = Undelivered
  BY <1>1 DEF Waiting, Undelivered, Payloads
<1>3. IsSeq(sink') /\ Payloads(sink') = Payloads(sink) \cup Payloads(rows)
  <2>1. IsSeq(sink) /\ IsSeq(rows)
    BY DEF DeliveryOrder, UnansweredApart
  <2>2. /\ IsSeq(sink \o rows)
        /\ Payloads(sink \o rows) = Payloads(sink) \cup Payloads(rows)
    BY <2>1, ConcatIsSeq, PayloadsOfRange
  <2>3. QED
    BY <1>1, <2>2
<1>4. Below(Payloads(sink) \cup Payloads(rows), Undelivered)
  BY DEF DeliveryOrder, UnansweredApart, Below, Undelivered
<1>5. Payloads(sink) \cup Payloads(rows) \subseteq 1..accepted
  BY DEF DeliveryOrder, UnansweredApart
<1>6. DeliveryOrder'
  <2>1. /\ Below(Payloads(sink'), Payloads(flushing') \cup Payloads(batch') \cup Waiting')
        /\ Payloads(sink') \cup Payloads(flushing') \cup Payloads(batch') \subseteq 1..accepted'
    BY <1>1, <1>2, <1>3, <1>4, <1>5 DEF DeliveryOrder, Undelivered
  <2>2. /\ IsSeq(flushing') /\ Ascending(flushing') /\ IsSeq(batch') /\ Ascending(batch')
        /\ Below(Payloads(flushing'), Payloads(batch') \cup Waiting')
        /\ Below(Payloads(batch'), Waiting')
    BY <1>1, <1>2 DEF DeliveryOrder
  <2>3. QED
    BY <1>1, <1>3, <2>1, <2>2 DEF DeliveryOrder
<1>7. \A b \in unanswered \ {rows} : Payloads(b) \cap (Payloads(sink) \cup Payloads(rows)) = {}
  BY DEF UnansweredApart
<1>8. QED
  BY <1>1, <1>2, <1>3, <1>6, <1>7 DEF UnansweredApart

\* The writer has nothing before it that it did not have, but for what the queue
\* accepts now.
LEMMA UndeliveredGrows ==
    ASSUME Stages, DeliveryOrder, [Next]_vars
    PROVE  /\ accepted' \in Nat /\ accepted <= accepted'
           /\ Undelivered' \subseteq Undelivered \cup {accepted + 1}
<1>0. IsSeq(queue) /\ IsSeq(batch) /\ accepted \in Nat
  BY SeqIsSeq DEF DeliveryOrder
<1>1. ASSUME UNCHANGED accepted, Undelivered' \subseteq Undelivered
      PROVE  /\ accepted' \in Nat /\ accepted <= accepted'
             /\ Undelivered' \subseteq Undelivered \cup {accepted + 1}
  BY <1>0, <1>1
<1>2. CASE EnqueueEvent \/ EnqueueUpsert
  <2>1. PICK entry \in {accepted + 1, Upsert} : queue' = Append(queue, entry)
    BY <1>2 DEF EnqueueEvent, EnqueueUpsert
  <2>2. Waiting' \subseteq Waiting \cup {accepted + 1}
    BY <1>0, <2>1, AppendIsSeq DEF Waiting
  <2>3. UNCHANGED <<batch, flushing>> /\ (accepted' = accepted \/ accepted' = accepted + 1)
    BY <1>2 DEF EnqueueEvent, EnqueueUpsert, memory_vars
  <2>4. QED
    BY <1>0, <2>2, <2>3 DEF Undelivered
<1>3. CASE \E outcome \in AppendOutcomes : ApplyEvent(outcome)
  <2>1. PICK outcome \in AppendOutcomes : ApplyEvent(outcome)
    BY <1>3
  <2> DEFINE grown == Append(batch, NextEvent)
  <2>2. /\ queue # <<>> /\ Head(queue) # Upsert /\ queue' = Tail(queue) /\ UNCHANGED accepted
        /\ \/ flushing' = grown /\ batch' = <<>>
           \/ batch' = grown /\ UNCHANGED flushing
    BY <2>1 DEF ApplyEvent, BeginFlush
  <2>3. Waiting' \subseteq Waiting /\ Head(queue) \in Waiting
    BY <2>2, HeadOfQueue DEF Waiting
  <2>4. Payloads(grown) = Payloads(batch) \cup {Head(queue)}
    BY <1>0, AppendIsSeq, PayloadsOfRange DEF NextEvent
  <2> HIDE DEF grown
  <2>5. Undelivered' \subseteq Undelivered
    BY <2>2, <2>3, <2>4, EmptyIsAscending DEF Undelivered
  <2>6. QED
    BY <1>1, <2>2, <2>5
<1>4. CASE ApplyUpsert
  <2>1. Waiting' \subseteq Waiting
    BY <1>4, HeadOfQueue DEF Waiting, ApplyUpsert
  <2>2. QED
    BY <1>1, <1>4, <2>1 DEF Undelivered, ApplyUpsert, memory_vars
<1>5. CASE Tick \/ Finish \/ FlushSucceeds \/ FlushFails
  <2>1. /\ UNCHANGED <<accepted, queue>>
        /\ \/ flushing' = batch /\ batch' = <<>>
           \/ UNCHANGED <<batch, flushing>>
           \/ UNCHANGED batch /\ flushing' = <<>>
    BY <1>5 DEF Tick, Finish, FlushSucceeds, FlushFails, BeginFlush, memory_vars
  <2>2. Undelivered' \subseteq Undelivered
    BY <2>1, EmptyIsAscending DEF Undelivered, Waiting
  <2>3. QED
    BY <1>1, <2>1, <2>2
<1>6. CASE Crash \/ (\E outcome : CrashInAppend(outcome)) \/ Exit
  <2>1. queue' = <<>> /\ batch' = <<>> /\ flushing' = <<>> /\ UNCHANGED accepted
    BY <1>6 DEF Crash, CrashInAppend, Exit, LoseMemory
  <2>2. Undelivered' \subseteq Undelivered
    BY <2>1, EmptyIsAscending, EmptyIsSeq DEF Undelivered, Waiting
  <2>3. QED
    BY <1>1, <2>1, <2>2
<1>7. CASE Start \/ Close \/ ClearSegment \/ ClearDone \/ ClearFails \/ Sink \/ UNCHANGED vars
  <2>1. UNCHANGED <<accepted, queue, batch, flushing>>
    BY <1>7 DEF Start, Close, ClearSegment, ClearDone, ClearFails, Sink, LateInsert, vars,
                memory_vars
  <2>2. Undelivered' \subseteq Undelivered
    BY <2>1 DEF Undelivered, Waiting
  <2>3. QED
    BY <1>1, <2>1, <2>2
<1>8. QED
  BY <1>2, <1>3, <1>4, <1>5, <1>6, <1>7 DEF Next, Producers, Writer, Process

\* The batches given up stay apart when another one joins them.
LEMMA GiveUpKeepsApart ==
    ASSUME DeliveryOrder, UnansweredApart, GiveUp, UNCHANGED <<sink, accepted>>,
           Undelivered' \subseteq Payloads(batch) \cup Waiting
    PROVE  UnansweredApart'
<1>1. Undelivered' \subseteq Undelivered
  BY DEF Undelivered
<1>2. /\ IsSeq(flushing) /\ Ascending(flushing)
      /\ Payloads(flushing) \cap Payloads(sink) = {}
      /\ Below(Payloads(flushing), Undelivered')
      /\ Payloads(flushing) \subseteq 1..accepted
  <2>1. \A n \in Payloads(flushing) : ~(n < n)
    BY DEF DeliveryOrder
  <2>2. QED
    BY <2>1 DEF DeliveryOrder, Below
<1>3. ASSUME NEW rows \in unanswered
      PROVE  /\ Payloads(rows) \cap Payloads(flushing) = {}
             /\ Below(Payloads(rows), Undelivered')
  <2>1. \A n \in Payloads(flushing) : ~(n < n)
    BY DEF DeliveryOrder
  <2>2. QED
    BY <1>1, <2>1 DEF UnansweredApart, Below, Undelivered
<1>4. \A rows \in unanswered' : rows \in unanswered \/ rows = flushing
  BY DEF GiveUp
<1>5. QED
  BY <1>2, <1>3, <1>4 DEF UnansweredApart

\* UnansweredApart is inductive relative to DeliveryOrder.
LEMMA StepKeepsApart ==
    ASSUME Stages, DeliveryOrder, UnansweredApart, [Next]_vars
    PROVE  UnansweredApart'
<1>1. /\ accepted \in Nat /\ accepted' \in Nat /\ accepted <= accepted'
      /\ Undelivered' \subseteq Undelivered \cup {accepted + 1}
  BY UndeliveredGrows DEF DeliveryOrder
<1>2. ASSUME UNCHANGED unanswered,
             \A rows \in unanswered : Payloads(rows) \cap Payloads(sink') = {}
      PROVE  UnansweredApart'
  <2>1. ASSUME NEW rows \in unanswered
        PROVE  Below(Payloads(rows), Undelivered') /\ Payloads(rows) \subseteq 1..accepted'
    BY <1>1 DEF UnansweredApart, Below
  <2>2. QED
    BY <1>2, <2>1 DEF UnansweredApart
<1>3. CASE UNCHANGED sink_vars
  BY <1>2, <1>3 DEF UnansweredApart, sink_vars
<1>4. CASE FlushSucceeds
  <2>1. sink' = sink \o flushing /\ UNCHANGED unanswered
    BY <1>4 DEF FlushSucceeds
  <2>2. Payloads(sink') = Payloads(sink) \cup Payloads(flushing)
    BY <2>1, ConcatIsSeq, PayloadsOfRange DEF DeliveryOrder
  <2>3. \A n \in Payloads(flushing) : ~(n < n)
    BY DEF DeliveryOrder
  <2>4. \A rows \in unanswered : Payloads(rows) \cap Payloads(sink') = {}
    BY <2>2, <2>3 DEF UnansweredApart, Below, Undelivered
  <2>5. QED
    BY <1>2, <2>1, <2>4
<1>5. CASE FlushFails
  <2>1. GiveUp /\ UNCHANGED <<sink, accepted, batch, queue>> /\ flushing' = <<>>
    BY <1>5 DEF FlushFails, memory_vars
  <2>2. Undelivered' \subseteq Payloads(batch) \cup Waiting
    BY <2>1, EmptyIsAscending DEF Undelivered, Waiting
  <2>3. QED
    BY <2>1, <2>2, GiveUpKeepsApart
<1>6. CASE Crash
  <2>1. /\ GiveUp /\ UNCHANGED <<sink, accepted>>
        /\ flushing' = <<>> /\ batch' = <<>> /\ queue' = <<>>
    BY <1>6 DEF Crash, LoseMemory
  <2>2. Undelivered' \subseteq Payloads(batch) \cup Waiting
    BY <2>1, EmptyIsAscending, EmptyIsSeq DEF Undelivered, Waiting
  <2>3. QED
    BY <2>1, <2>2, GiveUpKeepsApart
<1>7. CASE Sink
  BY <1>7, LateInsertKeepsOrder DEF Sink
<1>8. CASE Start \/ Producers \/ Tick \/ Exit \/ UNCHANGED vars
  BY <1>3, <1>8 DEF Start, Producers, EnqueueEvent, EnqueueUpsert, Close, Tick, Exit, vars
<1>9. CASE \/ \E outcome \in AppendOutcomes : ApplyEvent(outcome)
           \/ ApplyUpsert \/ Finish \/ ClearSegment \/ ClearDone \/ ClearFails
           \/ \E outcome : CrashInAppend(outcome)
  BY <1>3, <1>9 DEF ApplyEvent, ApplyUpsert, Finish, ClearSegment, ClearDone, ClearFails,
                    CrashInAppend
<1>10. QED
  BY <1>4, <1>5, <1>6, <1>7, <1>8, <1>9 DEF Next, Writer, Process

\* DeliveryOrder is inductive relative to Stages and UnansweredApart.
LEMMA StepKeepsOrder ==
    ASSUME Stages, DeliveryOrder, UnansweredApart, [Next]_vars
    PROVE  DeliveryOrder'
<1>1. CASE EnqueueEvent \/ EnqueueUpsert
  BY <1>1, EnqueueKeepsOrder
<1>2. CASE \E outcome \in AppendOutcomes : ApplyEvent(outcome)
  BY <1>2, ApplyKeepsOrder DEF Stages, ApplyEvent
<1>3. CASE ApplyUpsert
  BY <1>3, MovesKeepOrder DEF ApplyUpsert, memory_vars, sink_vars
<1>4. CASE Tick \/ Finish
  BY <1>4, MovesKeepOrder DEF Tick, Finish, BeginFlush, sink_vars
<1>5. CASE FlushSucceeds \/ FlushFails
  BY <1>5, MovesKeepOrder DEF FlushSucceeds, FlushFails, memory_vars
<1>6. CASE Crash \/ (\E outcome : CrashInAppend(outcome)) \/ Exit
  BY <1>6, MovesKeepOrder DEF Crash, CrashInAppend, Exit, LoseMemory, sink_vars
<1>7. CASE Start \/ Close \/ ClearSegment \/ ClearDone \/ ClearFails \/ UNCHANGED vars
  BY <1>7, MovesKeepOrder
     DEF Start, Close, ClearSegment, ClearDone, ClearFails, vars, memory_vars, sink_vars
<1>8. CASE Sink
  BY <1>8, LateInsertKeepsOrder DEF Sink
<1>9. QED
  BY <1>1, <1>2, <1>3, <1>4, <1>5, <1>6, <1>7, <1>8 DEF Next, Producers, Writer, Process

\* The stages of delivery stay in the order of acceptance and apart from what was
\* given up, across failed flushes, crashes and restarts.
THEOREM DeliveryOrdered == Spec => [](Stages /\ DeliveryOrder /\ UnansweredApart)
<1>1. Init => Stages /\ DeliveryOrder /\ UnansweredApart
  <2> SUFFICES ASSUME Init PROVE Stages /\ DeliveryOrder /\ UnansweredApart
    OBVIOUS
  <2>1. /\ queue = <<>> /\ sink = <<>> /\ flushing = <<>> /\ batch = <<>>
        /\ accepted = 0 /\ life_start = 0 /\ unanswered = {}
    BY DEF Init
  <2>2. Waiting = {}
    BY <2>1, EmptyIsSeq DEF Waiting
  <2>3. QED
    BY <2>1, <2>2, EmptyIsAscending, EmptyIsSeq, EmptySeq
       DEF Stages, DeliveryOrder, UnansweredApart, Below
<1>2. Stages /\ DeliveryOrder /\ UnansweredApart /\ [Next]_vars
        => (Stages /\ DeliveryOrder /\ UnansweredApart)'
  BY StepKeepsStages, StepKeepsOrder, StepKeepsApart DEF DeliveryOrder
<1>3. QED
  BY <1>1, <1>2, PTL DEF Spec

\* What a step of SinkInOrder may do to the sink.
StoresInOrder ==
    sink' # sink =>
      \E rows \in unanswered \cup {flushing} :
          /\ sink' = sink \o rows
          /\ \A i, j \in DOMAIN rows : i < j => rows[i].payload < rows[j].payload
          /\ Payloads(rows) \cap Payloads(sink) = {}
          /\ \/ rows \in unanswered
             \/ \A m \in Payloads(sink), n \in Payloads(rows) : m < n

\* ClickHouse stores no event twice, and stores every batch in the order of
\* acceptance and after everything accepted before it, except a batch whose INSERT
\* was given up unanswered: a failed flush is not sent again, and what a start
\* recovers from the log is never flushed.
THEOREM DeliveredInOrder == Spec => SinkInOrder
<1>1. ASSUME Stages, DeliveryOrder, UnansweredApart, [Next]_vars
      PROVE  StoresInOrder
  <2>1. CASE FlushSucceeds
    <3>1. sink' = sink \o flushing
      BY <2>1 DEF FlushSucceeds
    <3>2. /\ Ascending(flushing)
          /\ \A m \in Payloads(sink), n \in Payloads(flushing) : m < n
          /\ \A n \in Payloads(flushing) : ~(n < n)
      BY <1>1 DEF DeliveryOrder, Below
    <3>3. QED
      BY <3>1, <3>2 DEF StoresInOrder, Ascending
  <2>2. CASE Sink
    <3>1. PICK rows \in unanswered : LateInsert(rows)
      BY <2>2 DEF Sink
    <3>2. QED
      BY <1>1, <3>1 DEF StoresInOrder, UnansweredApart, Ascending, LateInsert
  <2>3. CASE UNCHANGED sink
    BY <2>3 DEF StoresInOrder
  <2>4. CASE Start \/ Producers \/ Tick \/ Crash \/ Exit \/ FlushFails \/ UNCHANGED vars
    BY <2>3, <2>4 DEF Start, Producers, EnqueueEvent, EnqueueUpsert, Close, Tick, Crash, Exit,
                      FlushFails, vars, sink_vars
  <2>5. CASE \/ \E outcome \in AppendOutcomes : ApplyEvent(outcome)
             \/ ApplyUpsert \/ Finish \/ ClearSegment \/ ClearDone \/ ClearFails
             \/ \E outcome : CrashInAppend(outcome)
    BY <2>3, <2>5 DEF ApplyEvent, ApplyUpsert, Finish, ClearSegment, ClearDone, ClearFails,
                      CrashInAppend, sink_vars
  <2>6. QED
    BY <1>1, <2>1, <2>2, <2>4, <2>5 DEF Next, Writer, Process
<1>2. Stages /\ DeliveryOrder /\ UnansweredApart /\ [Next]_vars => [StoresInOrder]_vars
  BY <1>1
<1>3. [][StoresInOrder]_vars => SinkInOrder
  BY PTL DEF SinkInOrder, StoresInOrder
<1>4. QED
  BY <1>2, <1>3, DeliveryOrdered, PTL DEF Spec

----------------------------------------------------------------------------
(* Nothing is lost while the process lives *)

\* Where an accepted event of this process may be.
Accounted ==
    Range(queue) \cup Payloads(batch) \cup Payloads(flushing) \cup Payloads(sink)
      \cup {e.payload : e \in abandoned}

\* No step of a living process drops an accepted event.
LEMMA StepKeepsAccount ==
    ASSUME Stages, DeliveryOrder, UnansweredApart, NothingUnaccounted, [Next]_vars
    PROVE  NothingUnaccounted'
<1> SUFFICES ASSUME phase' # "down"
             PROVE  (life_start' + 1)..accepted' \subseteq Accounted'
  BY DEF NothingUnaccounted, Accounted
<1>0. /\ phase # "down" => (life_start + 1)..accepted \subseteq Accounted
      /\ accepted \in Nat /\ life_start \in Nat
      /\ IsSeq(queue) /\ IsSeq(batch) /\ IsSeq(flushing) /\ IsSeq(sink)
  BY SeqIsSeq DEF NothingUnaccounted, Accounted, Stages, DeliveryOrder
<1>1. CASE Start
  BY <1>0, <1>1 DEF Start
<1>2. ASSUME phase # "down", life_start' = life_start, accepted' = accepted,
             Accounted \subseteq Accounted' \cup {Upsert}
      PROVE  (life_start' + 1)..accepted' \subseteq Accounted'
  BY <1>0, <1>2 DEF Upsert
<1>3. CASE EnqueueEvent
  <2>1. Range(queue') = Range(queue) \cup {accepted + 1}
    BY <1>0, <1>3, AppendIsSeq DEF EnqueueEvent
  <2>2. Accounted' = Accounted \cup {accepted + 1}
    BY <1>3, <2>1 DEF EnqueueEvent, Accounted, memory_vars, sink_vars, Payloads
  <2>3. phase # "down" /\ life_start' = life_start /\ accepted' = accepted + 1
    BY <1>3 DEF EnqueueEvent
  <2>4. QED
    BY <1>0, <2>2, <2>3
<1>4. CASE EnqueueUpsert
  <2>1. Range(queue') = Range(queue) \cup {Upsert}
    BY <1>0, <1>4, AppendIsSeq DEF EnqueueUpsert
  <2>2. Accounted \subseteq Accounted'
    BY <1>4, <2>1 DEF EnqueueUpsert, Accounted, memory_vars, sink_vars, Payloads
  <2>3. QED
    BY <1>2, <1>4, <2>2 DEF EnqueueUpsert
<1>5. CASE \E outcome \in AppendOutcomes : ApplyEvent(outcome)
  <2>1. PICK outcome \in AppendOutcomes : ApplyEvent(outcome)
    BY <1>5
  <2> DEFINE grown == Append(batch, NextEvent)
  <2>2. /\ phase = "idle" /\ queue # <<>> /\ queue' = Tail(queue)
        /\ UNCHANGED <<sink, accepted, life_start, abandoned>>
        /\ \/ flushing' = grown /\ batch' = <<>>
           \/ batch' = grown /\ flushing' = flushing
    BY <2>1 DEF ApplyEvent, BeginFlush, sink_vars
  <2>3. Range(queue) = {Head(queue)} \cup Range(queue')
    BY <1>0, <2>2, TailIsSeq
  <2>4. Payloads(grown) = Payloads(batch) \cup {Head(queue)}
    BY <1>0, AppendIsSeq, PayloadsOfRange DEF NextEvent
  <2>5. Payloads(flushing) = {}
    BY <2>2, EmptyIsAscending DEF Stages
  <2>6. Payloads(batch') \cup Payloads(flushing') = Payloads(batch) \cup {Head(queue)}
    BY <2>2, <2>4, <2>5, EmptyIsAscending
  <2>7. Accounted \subseteq Accounted'
    BY <2>2, <2>3, <2>5, <2>6 DEF Accounted
  <2>8. QED
    BY <1>2, <2>2, <2>7
<1>6. CASE ApplyUpsert
  <2>1. Range(queue) = {Upsert} \cup Range(queue')
    BY <1>0, <1>6, TailIsSeq DEF ApplyUpsert
  <2>2. Accounted \subseteq Accounted' \cup {Upsert}
    BY <1>6, <2>1 DEF ApplyUpsert, Accounted, memory_vars, sink_vars
  <2>3. QED
    BY <1>2, <1>6, <2>2 DEF ApplyUpsert
<1>7. CASE Tick \/ Finish
  <2>1. /\ phase = "idle" /\ UNCHANGED <<queue, sink, accepted, life_start, abandoned>>
        /\ \/ flushing' = batch /\ batch' = <<>>
           \/ UNCHANGED <<batch, flushing>>
    BY <1>7 DEF Tick, Finish, BeginFlush, sink_vars
  <2>2. Payloads(flushing) = {}
    BY <2>1, EmptyIsAscending DEF Stages
  <2>3. Accounted \subseteq Accounted'
    BY <2>1, <2>2, EmptyIsAscending DEF Accounted
  <2>4. QED
    BY <1>2, <2>1, <2>3
<1>8. CASE FlushSucceeds \/ FlushFails
  <2>1. /\ phase = "flushing" /\ UNCHANGED <<queue, batch, accepted, life_start>>
        /\ sink' \in {sink, sink \o flushing}
        /\ abandoned \subseteq abandoned'
        /\ sink' = sink \o flushing \/ Range(flushing) \subseteq abandoned'
    BY <1>8 DEF FlushSucceeds, FlushFails, memory_vars, sink_vars
  <2>2. Payloads(sink \o flushing) = Payloads(sink) \cup Payloads(flushing)
    BY <1>0, ConcatIsSeq, PayloadsOfRange
  <2>3. Payloads(flushing) \subseteq Payloads(sink') \cup {e.payload : e \in abandoned'}
    BY <2>1, <2>2, PayloadsOfRange
  <2>4. Payloads(sink) \subseteq Payloads(sink')
    BY <2>1, <2>2
  <2>5. Accounted \subseteq Accounted'
    BY <2>1, <2>3, <2>4 DEF Accounted
  <2>6. QED
    BY <1>2, <2>1, <2>5
<1>9. CASE Close \/ ClearSegment \/ ClearDone \/ ClearFails \/ UNCHANGED vars
  <2>1. UNCHANGED <<queue, batch, flushing, sink, accepted, life_start, abandoned>>
        /\ phase # "down"
    BY <1>9 DEF Close, ClearSegment, ClearDone, ClearFails, vars, memory_vars, sink_vars
  <2>2. QED
    BY <1>2, <2>1 DEF Accounted
<1>10. CASE Crash \/ (\E outcome : CrashInAppend(outcome)) \/ Exit
  BY <1>10 DEF Crash, CrashInAppend, Exit, LoseMemory
<1>11. CASE Sink
  <2>1. PICK rows \in unanswered : LateInsert(rows)
    BY <1>11 DEF Sink
  <2>2. /\ UNCHANGED <<phase, queue, batch, flushing, accepted, life_start, abandoned>>
        /\ sink' = sink \o rows
    BY <2>1 DEF LateInsert, memory_vars
  <2>3. Payloads(sink) \subseteq Payloads(sink')
    BY <1>0, <2>2, ConcatIsSeq, PayloadsOfRange DEF UnansweredApart
  <2>4. Accounted \subseteq Accounted'
    BY <2>2, <2>3 DEF Accounted
  <2>5. QED
    BY <1>2, <2>2, <2>4
<1>12. QED
  BY <1>1, <1>3, <1>4, <1>5, <1>6, <1>7, <1>8, <1>9, <1>10, <1>11 DEF Next, Producers, Writer, Process

\* While the process lives, every event its queue accepted is waiting, in the
\* batch, on its way, stored by the sink or part of a flush that failed.
THEOREM EventsAccounted == Spec => []NothingUnaccounted
<1>1. Init => NothingUnaccounted
  BY DEF Init, NothingUnaccounted
<1>2. Stages /\ DeliveryOrder /\ UnansweredApart /\ NothingUnaccounted /\ [Next]_vars
        => NothingUnaccounted'
  BY StepKeepsAccount
<1>3. QED
  BY <1>1, <1>2, DeliveryOrdered, PTL DEF Spec

----------------------------------------------------------------------------
(* What leaves the log *)

\* The lines of a log, and what a log is.
LinesOf(log) == UNION {Range(log[i]) : i \in DOMAIN log}

\* A log is a sequence of segments, each a sequence of lines.
IsLog(log) == IsSeq(log) /\ \A i \in DOMAIN log : IsSeq(log[i])

\* What one append leaves in the file is at most one line, about e or torn.
LEMMA WrittenLines ==
    ASSUME NEW e, NEW outcome \in {"complete", "unterminated", "torn", "nothing"}
    PROVE  /\ IsSeq(WrittenAs(e, outcome))
           /\ \A line \in Range(WrittenAs(e, outcome)) :
                /\ line.event \in {e, None}
                /\ outcome = "complete" => line.ended
<1>1. ASSUME NEW line PROVE IsSeq(<<line>>) /\ Range(<<line>>) = {line}
  BY DEF IsSeq, Range
<1>2. CASE outcome = "complete"
  BY <1>1, <1>2 DEF WrittenAs
<1>3. CASE outcome = "unterminated"
  BY <1>1, <1>3 DEF WrittenAs
<1>4. CASE outcome = "torn"
  BY <1>1, <1>4 DEF WrittenAs
<1>5. CASE outcome = "nothing"
  BY <1>5, EmptyIsSeq DEF WrittenAs
<1>6. QED
  BY <1>2, <1>3, <1>4, <1>5

\* A segment gets the written line, or its last line swallows it; if every line
\* of it was ended, it loses none.
LEMMA AppendedSegment ==
    ASSUME NEW segment, IsSeq(segment), NEW written, IsSeq(written)
    PROVE  LET after == AppendToSegment(segment, written) IN
           /\ IsSeq(after)
           /\ \A line \in Range(after) :
                line \in Range(segment) \cup Range(written) \/ line.event = None
           /\ (\A line \in Range(segment) : line.ended) =>
                Range(after) = Range(segment) \cup Range(written)
<1> DEFINE swallowed == [event |-> None, ended |-> written[1].ended]
<1>1. IsSeq(segment \o written) /\ Range(segment \o written) = Range(segment) \cup Range(written)
  BY ConcatIsSeq
<1>2. CASE ~(written # <<>> /\ segment # <<>> /\ ~Last(segment).ended)
  BY <1>1, <1>2 DEF AppendToSegment
<1>3. CASE written # <<>> /\ segment # <<>> /\ ~Last(segment).ended
  <2>1. Len(segment) \in Nat \ {0} /\ DOMAIN segment = 1..Len(segment)
    BY <1>3, TailIsSeq
  <2>2. Last(segment) \in Range(segment)
    BY <2>1 DEF Last, Range
  <2>3. Front(segment) \in Seq(Range(segment))
    BY <2>1 DEF Front, IsSeq
  <2>4. IsSeq(Front(segment)) /\ Range(Front(segment)) \subseteq Range(segment)
    BY <2>3, SeqIsSeq
  <2>5. IsSeq(<<swallowed>>) /\ Range(<<swallowed>>) = {swallowed}
    BY DEF IsSeq, Range
  <2>6. /\ IsSeq(Front(segment) \o <<swallowed>>)
        /\ Range(Front(segment) \o <<swallowed>>) = Range(Front(segment)) \cup {swallowed}
    BY <2>4, <2>5, ConcatIsSeq
  <2>7. AppendToSegment(segment, written) = Front(segment) \o <<swallowed>>
    BY <1>3 DEF AppendToSegment
  <2>8. swallowed.event = None
    OBVIOUS
  <2> HIDE DEF swallowed
  <2>9. QED
    BY <1>3, <2>2, <2>4, <2>6, <2>7, <2>8
<1>4. QED
  BY <1>2, <1>3

\* An append adds at most its own record; on a log whose lines are all ended it
\* takes none away.
LEMMA LogGrows ==
    ASSUME IsLog(wal), NEW e, NEW outcome \in {"complete", "unterminated", "torn", "nothing"},
           NEW after \in LogsAfter(e, outcome)
    PROVE  /\ IsLog(after)
           /\ \A line \in LinesOf(after) : line \in LinesOf(wal) \/ line.event \in {e, None}
           /\ (\A line \in LinesOf(wal) : line.ended) =>
                /\ LinesOf(wal) \subseteq LinesOf(after)
                /\ outcome = "complete" => \A line \in LinesOf(after) : line.ended
<1> DEFINE written == WrittenAs(e, outcome)
<1>1. /\ IsSeq(written)
      /\ \A line \in Range(written) :
           line.event \in {e, None} /\ (outcome = "complete" => line.ended)
  BY WrittenLines
<1>2. IsSeq(wal) /\ Len(wal) \in Nat /\ DOMAIN wal = 1..Len(wal)
  BY SeqIsSeq DEF IsLog, IsSeq
<1>3. CASE after = Append(wal, written)
  <2>1. /\ IsSeq(after)
        /\ DOMAIN after = 1..(Len(wal) + 1)
        /\ \A i \in 1..(Len(wal) + 1) : after[i] = IF i = Len(wal) + 1 THEN written ELSE wal[i]
    BY <1>2, <1>3, AppendIsSeq
  <2>2. IsLog(after)
    BY <1>1, <1>2, <2>1 DEF IsLog
  <2>3. LinesOf(after) = LinesOf(wal) \cup Range(written)
    BY <1>2, <2>1 DEF LinesOf
  <2>4. QED
    BY <1>1, <2>2, <2>3
<1>4. CASE wal # <<>> /\ after = [wal EXCEPT ![Len(wal)] = AppendToSegment(@, written)]
  <2> DEFINE last == Len(wal)
             grown == AppendToSegment(wal[last], written)
  <2>1. last \in DOMAIN wal
    BY <1>2, <1>4, TailIsSeq
  <2>2. /\ IsSeq(grown)
        /\ \A line \in Range(grown) :
             line \in Range(wal[last]) \cup Range(written) \/ line.event = None
        /\ (\A line \in Range(wal[last]) : line.ended) =>
             Range(grown) = Range(wal[last]) \cup Range(written)
    BY <1>1, <2>1, AppendedSegment DEF IsLog
  <2> HIDE DEF grown
  <2>3. /\ DOMAIN after = DOMAIN wal
        /\ \A i \in DOMAIN wal : after[i] = IF i = last THEN grown ELSE wal[i]
    BY <1>2, <1>4, <2>1 DEF grown
  <2>4. IsSeq(after)
    <3>1. after \in [1..Len(wal) -> Range(after)]
      BY <1>2, <1>4, <2>3 DEF Range
    <3>2. QED
      BY <1>2, <3>1 DEF IsSeq
  <2>5. IsLog(after)
    BY <2>2, <2>3, <2>4 DEF IsLog
  <2>6. Range(wal[last]) \subseteq LinesOf(wal)
    BY <2>1 DEF LinesOf
  <2>7. \A line \in LinesOf(after) : line \in LinesOf(wal) \/ line \in Range(grown)
    BY <2>3 DEF LinesOf
  <2>8. \A line \in LinesOf(wal) : line \in LinesOf(after) \/ line \in Range(wal[last])
    BY <2>3 DEF LinesOf
  <2>9. Range(grown) \subseteq LinesOf(after)
    BY <2>1, <2>3 DEF LinesOf
  <2>10. QED
    BY <1>1, <2>2, <2>5, <2>6, <2>7, <2>8, <2>9
<1>5. QED
  BY <1>3, <1>4 DEF LogsAfter

\* What the log holds while the process lives: records the sink was or will be
\* offered, or that were given up.  A log without a failed append has no
\* unended line.
LogAccounted ==
    /\ IsLog(wal)
    /\ phase # "down" =>
         \A e \in LogEvents : \/ e \in Range(batch) \cup Range(flushing) \cup abandoned
                              \/ e.payload \in Payloads(sink)
    /\ wal_intact => \A line \in LogLines : line.ended

\* The lines of the log.
LEMMA LogLinesOf == LogLines = LinesOf(wal)
BY DEF LogLines, LinesOf

\* Both ways of appending to the log leave the records of an intact one alone.
LEMMA AppendKeepsLog ==
    ASSUME LogAccounted, NEW outcome \in {"complete", "unterminated", "torn", "nothing"},
           wal' \in LogsAfter(NextEvent, outcome),
           wal_intact' = (wal_intact /\ outcome = "complete")
    PROVE  /\ IsLog(wal')
           /\ LogEvents' \subseteq LogEvents \cup {NextEvent}
           /\ wal_intact => LogEvents \subseteq LogEvents'
           /\ wal_intact' => \A line \in LogLines' : line.ended
<1>1. PICK after \in LogsAfter(NextEvent, outcome) : wal' = after
  OBVIOUS
<1>2. LogLines' = LinesOf(after)
  BY <1>1 DEF LogLines, LinesOf
<1>3. /\ IsLog(after)
      /\ \A line \in LinesOf(after) : line \in LogLines \/ line.event \in {NextEvent, None}
      /\ (\A line \in LogLines : line.ended) =>
           /\ LogLines \subseteq LinesOf(after)
           /\ outcome = "complete" => \A line \in LinesOf(after) : line.ended
  BY LogGrows, LogLinesOf DEF LogAccounted
<1>4. QED
  BY <1>1, <1>2, <1>3 DEF LogEvents, LogAccounted

\* The step condition of LoggedUntilDelivered.
KeepsUndelivered ==
    wal_intact =>
        \A e \in LogEvents \ LogEvents' : e.payload \in Payloads(sink) \/ e \in abandoned

\* A step that leaves the log alone keeps LogAccounted if the records of the
\* batch and of the flush stay accounted for.
LEMMA UntouchedLog ==
    ASSUME LogAccounted, UNCHANGED wal, wal_intact' => wal_intact,
           \/ phase' = "down"
           \/ /\ phase # "down"
              /\ \A e \in Range(batch) \cup Range(flushing) \cup abandoned :
                   \/ e \in Range(batch') \cup Range(flushing') \cup abandoned'
                   \/ e.payload \in Payloads(sink')
              /\ Payloads(sink) \subseteq Payloads(sink')
    PROVE  LogAccounted' /\ KeepsUndelivered
<1>1. LogLines' = LogLines /\ LogEvents' = LogEvents
  BY DEF LogLines, LogEvents
<1>2. IsLog(wal') /\ (wal_intact' => \A line \in LogLines' : line.ended)
  BY <1>1 DEF LogAccounted
<1>3. phase' # "down" =>
        \A e \in LogEvents : \/ e \in Range(batch') \cup Range(flushing') \cup abandoned'
                             \/ e.payload \in Payloads(sink')
  BY DEF LogAccounted
<1>4. KeepsUndelivered
  BY <1>1 DEF KeepsUndelivered
<1>5. LogAccounted'
  BY <1>1, <1>2, <1>3 DEF LogAccounted
<1>6. QED
  BY <1>4, <1>5

\* A record enters the log together with its event entering the batch.
LEMMA ApplyKeepsLog ==
    ASSUME Stages, DeliveryOrder, LogAccounted, NEW outcome \in AppendOutcomes,
           ApplyEvent(outcome)
    PROVE  LogAccounted' /\ KeepsUndelivered
<1> DEFINE grown == Append(batch, NextEvent)
<1>1. /\ phase = "idle" /\ UNCHANGED <<sink, abandoned>>
      /\ wal' \in LogsAfter(NextEvent, outcome)
      /\ wal_intact' = (wal_intact /\ outcome = "complete")
      /\ \/ flushing' = grown /\ batch' = <<>>
         \/ batch' = grown /\ flushing' = flushing
  BY DEF ApplyEvent, BeginFlush, sink_vars
<1>2. outcome \in {"complete", "unterminated", "torn", "nothing"}
  BY DEF AppendOutcomes
<1>3. /\ IsLog(wal')
      /\ LogEvents' \subseteq LogEvents \cup {NextEvent}
      /\ wal_intact => LogEvents \subseteq LogEvents'
      /\ wal_intact' => \A line \in LogLines' : line.ended
  BY <1>1, <1>2, AppendKeepsLog
<1>4. Range(grown) = Range(batch) \cup {NextEvent}
  BY AppendIsSeq DEF DeliveryOrder
<1> HIDE DEF grown
<1>5. Range(flushing) = {}
  BY <1>1, EmptyIsSeq DEF Stages
<1>6. Range(batch) \cup {NextEvent} \subseteq Range(batch') \cup Range(flushing')
  BY <1>1, <1>4
<1>7. \A e \in LogEvents' : \/ e \in Range(batch') \cup Range(flushing') \cup abandoned
                            \/ e.payload \in Payloads(sink)
  BY <1>1, <1>3, <1>5, <1>6 DEF LogAccounted
<1>8. LogAccounted'
  BY <1>1, <1>3, <1>7 DEF LogAccounted
<1>9. KeepsUndelivered
  BY <1>3 DEF KeepsUndelivered
<1>10. QED
  BY <1>8, <1>9

\* A crash during the append takes no ended line away.
LEMMA CrashInAppendKeepsLog ==
    ASSUME LogAccounted, NEW outcome \in {"complete", "unterminated", "torn"},
           CrashInAppend(outcome)
    PROVE  LogAccounted' /\ KeepsUndelivered
<1>1. /\ phase' = "down"
      /\ wal' \in LogsAfter(NextEvent, outcome)
      /\ wal_intact' = (wal_intact /\ outcome = "complete")
  BY DEF CrashInAppend, LoseMemory
<1>2. outcome \in {"complete", "unterminated", "torn", "nothing"}
  OBVIOUS
<1>3. /\ IsLog(wal')
      /\ wal_intact => LogEvents \subseteq LogEvents'
      /\ wal_intact' => \A line \in LogLines' : line.ended
  BY <1>1, <1>2, AppendKeepsLog
<1>4. LogAccounted'
  BY <1>1, <1>3 DEF LogAccounted
<1>5. KeepsUndelivered
  BY <1>3 DEF KeepsUndelivered
<1>6. QED
  BY <1>4, <1>5

\* Removing a segment takes away records that the sink has or that were given up:
\* at that point batch and flush are empty.
LEMMA ClearKeepsLog ==
    ASSUME Stages, LogAccounted, ClearSegment
    PROVE  LogAccounted' /\ KeepsUndelivered
<1>1. /\ phase = "clearing" /\ wal # <<>> /\ wal' = Tail(wal)
      /\ UNCHANGED <<phase, batch, flushing, sink, abandoned, wal_intact>>
  BY DEF ClearSegment, memory_vars, sink_vars
<1>2. IsSeq(wal) /\ \A i \in DOMAIN wal : IsSeq(wal[i])
  BY DEF LogAccounted, IsLog
<1>3. /\ IsSeq(wal') /\ Len(wal) \in Nat \ {0} /\ DOMAIN wal = 1..Len(wal)
      /\ DOMAIN wal' = 1..(Len(wal) - 1)
      /\ \A i \in 1..(Len(wal) - 1) : wal'[i] = wal[i + 1]
  BY <1>1, <1>2, TailIsSeq
<1>4. \A i \in DOMAIN wal' : i + 1 \in DOMAIN wal /\ wal'[i] = wal[i + 1]
  BY <1>3
<1>5. IsLog(wal')
  BY <1>2, <1>3, <1>4 DEF IsLog
<1>6. LogLines' \subseteq LogLines
  BY <1>4 DEF LogLines
<1>7. LogEvents' \subseteq LogEvents
  BY <1>6 DEF LogEvents
<1>8. LogAccounted'
  BY <1>1, <1>5, <1>6, <1>7 DEF LogAccounted
<1>9. Range(batch) = {} /\ Range(flushing) = {}
  BY <1>1, EmptyIsSeq DEF Stages
<1>10. KeepsUndelivered
  BY <1>1, <1>9 DEF LogAccounted, KeepsUndelivered
<1>11. QED
  BY <1>8, <1>10

\* LogAccounted is inductive, and every step keeps undelivered records.
LEMMA StepKeepsLog ==
    ASSUME Stages, DeliveryOrder, UnansweredApart, LogAccounted, [Next]_vars
    PROVE  LogAccounted' /\ KeepsUndelivered
<1>0. IsSeq(sink) /\ IsSeq(flushing)
  BY DEF DeliveryOrder
<1>1. CASE Start
  <2>1. /\ UNCHANGED <<wal, wal_intact>> /\ LogEvents \subseteq abandoned'
    BY <1>1 DEF Start
  <2>2. LogLines' = LogLines /\ LogEvents' = LogEvents
    BY <2>1 DEF LogLines, LogEvents
  <2>3. QED
    BY <2>1, <2>2 DEF LogAccounted, KeepsUndelivered
<1>2. CASE \E outcome \in AppendOutcomes : ApplyEvent(outcome)
  BY <1>2, ApplyKeepsLog
<1>3. CASE Tick \/ Finish
  <2>1. /\ phase = "idle" /\ UNCHANGED <<wal, wal_intact, sink, abandoned>>
        /\ \/ flushing' = batch /\ batch' = <<>>
           \/ UNCHANGED <<batch, flushing>>
    BY <1>3 DEF Tick, Finish, BeginFlush, sink_vars
  <2>2. Range(flushing) = {}
    BY <2>1, EmptyIsSeq DEF Stages
  <2>3. QED
    BY <2>1, <2>2, UntouchedLog
<1>4. CASE FlushSucceeds \/ FlushFails
  <2>1. /\ phase = "flushing" /\ UNCHANGED <<wal, wal_intact, batch>>
        /\ sink' \in {sink, sink \o flushing}
        /\ abandoned \subseteq abandoned'
        /\ sink' = sink \o flushing \/ Range(flushing) \subseteq abandoned'
    BY <1>4 DEF FlushSucceeds, FlushFails, memory_vars
  <2>2. Payloads(sink \o flushing) = Payloads(sink) \cup Payloads(flushing)
    BY <1>0, ConcatIsSeq, PayloadsOfRange
  <2>3. \A e \in Range(flushing) : e.payload \in Payloads(sink') \/ e \in abandoned'
    BY <2>1, <2>2, PayloadsOfRange
  <2>4. Payloads(sink) \subseteq Payloads(sink')
    BY <2>1, <2>2
  <2>5. QED
    BY <2>1, <2>3, <2>4, UntouchedLog
<1>5. CASE ClearSegment
  BY <1>5, ClearKeepsLog
<1>6. CASE ClearDone
  <2>1. /\ wal = <<>> /\ phase = "clearing"
        /\ UNCHANGED <<wal, batch, flushing, sink, abandoned>>
    BY <1>6 DEF ClearDone, memory_vars, sink_vars
  <2>2. LogLines = {} /\ LogLines' = {}
    BY <2>1, EmptyIsSeq DEF LogLines
  <2>3. LogEvents = {} /\ LogEvents' = {}
    BY <2>2 DEF LogEvents
  <2>4. QED
    BY <2>1, <2>2, <2>3 DEF LogAccounted, KeepsUndelivered
<1>7. CASE Crash \/ Exit
  BY <1>7, UntouchedLog DEF Crash, Exit, LoseMemory
<1>8. CASE \E outcome \in {"complete", "unterminated", "torn"} : CrashInAppend(outcome)
  BY <1>8, CrashInAppendKeepsLog
<1>9. CASE Producers \/ ApplyUpsert \/ ClearFails \/ UNCHANGED vars
  <2>1. UNCHANGED <<wal, wal_intact, batch, flushing, sink, abandoned>>
    BY <1>9 DEF Producers, EnqueueEvent, EnqueueUpsert, Close, ApplyUpsert, ClearFails, vars,
                memory_vars, sink_vars
  <2>2. phase' = "down" \/ phase # "down"
    BY <1>9 DEF Producers, EnqueueEvent, EnqueueUpsert, Close, ApplyUpsert, ClearFails, vars
  <2>3. QED
    BY <2>1, <2>2, UntouchedLog
<1>10. CASE Sink
  <2>1. PICK rows \in unanswered : LateInsert(rows)
    BY <1>10 DEF Sink
  <2>2. /\ UNCHANGED <<wal, wal_intact, phase, batch, flushing, abandoned>>
        /\ sink' = sink \o rows
    BY <2>1 DEF LateInsert, memory_vars
  <2>3. Payloads(sink) \subseteq Payloads(sink')
    BY <1>0, <2>2, ConcatIsSeq, PayloadsOfRange DEF UnansweredApart
  <2>4. QED
    BY <2>2, <2>3, UntouchedLog
<1>11. QED
  BY <1>1, <1>2, <1>3, <1>4, <1>5, <1>6, <1>7, <1>8, <1>9, <1>10 DEF Next, Writer, Process

\* A record leaves the log only after the sink has stored its event, unless its
\* flush failed or it was recovered at an earlier start.
THEOREM LogOutlivesFlush == Spec => LoggedUntilDelivered
<1>1. Init => LogAccounted
  <2> SUFFICES ASSUME Init PROVE LogAccounted
    OBVIOUS
  <2>1. wal = <<>> /\ phase = "down"
    BY DEF Init
  <2>2. IsLog(wal) /\ LogLines = {}
    BY <2>1, EmptyIsSeq DEF IsLog, LogLines
  <2>3. QED
    BY <2>1, <2>2 DEF LogAccounted
<1>2. Stages /\ DeliveryOrder /\ UnansweredApart /\ LogAccounted /\ [Next]_vars => LogAccounted'
  BY StepKeepsLog
<1>3. Stages /\ DeliveryOrder /\ UnansweredApart /\ LogAccounted /\ [Next]_vars => [KeepsUndelivered]_vars
  BY StepKeepsLog
<1>4. [][KeepsUndelivered]_vars <=> LoggedUntilDelivered
  BY DEF KeepsUndelivered, LoggedUntilDelivered
<1>5. QED
  BY <1>1, <1>2, <1>3, <1>4, DeliveryOrdered, PTL DEF Spec

----------------------------------------------------------------------------
(* Inserting and removing *)

\* What inserting after the first k elements does.
LEMMA InsertedAt ==
    ASSUME NEW S, NEW s \in Seq(S), NEW e \in S, NEW k \in 0..Len(s)
    PROVE  /\ InsertAt(s, k + 1, e) \in Seq(S)
           /\ Len(InsertAt(s, k + 1, e)) = Len(s) + 1
           /\ \A i \in 1..(Len(s) + 1) :
                InsertAt(s, k + 1, e)[i] =
                    IF i <= k THEN s[i] ELSE IF i = k + 1 THEN e ELSE s[i - 1]
<1>1. Len(s) \in Nat
  BY LenProperties
<1>2. PICK p, q : p = SubSeq(s, 1, k) /\ q = SubSeq(s, k + 1, Len(s))
  OBVIOUS
<1>3. p \in Seq(S) /\ Len(p) = k /\ \A i \in 1..k : p[i] = s[i]
  BY <1>1, <1>2, SubSeqProperties
<1>4. q \in Seq(S) /\ Len(q) = Len(s) - k /\ \A i \in 1..(Len(s) - k) : q[i] = s[k + i]
  BY <1>1, <1>2, SubSeqProperties
<1>5. PICK m : m = <<e>>
  OBVIOUS
<1>6. m \in Seq(S) /\ Len(m) = 1 /\ m[1] = e
  BY <1>5
<1>7. PICK r : r = p \o m
  OBVIOUS
<1>8. r \in Seq(S) /\ Len(r) = k + 1
      /\ \A i \in 1..(k + 1) : r[i] = IF i <= k THEN s[i] ELSE e
  <2>1. /\ r \in Seq(S) /\ Len(r) = k + 1
        /\ \A i \in 1..(k + 1) : r[i] = IF i <= k THEN p[i] ELSE m[i - k]
    <3>1. /\ p \o m \in Seq(S) /\ Len(p \o m) = Len(p) + Len(m)
          /\ \A i \in 1..(Len(p) + Len(m)) :
               (p \o m)[i] = IF i <= Len(p) THEN p[i] ELSE m[i - Len(p)]
      BY <1>3, <1>6, ConcatProperties
    <3>2. QED
      BY <1>3, <1>6, <1>7, <3>1
  <2>2. \A i \in 1..(k + 1) : i <= k => i \in 1..k
    BY <1>1
  <2>3. \A i \in 1..(k + 1) : ~(i <= k) => i - k = 1
    BY <1>1
  <2>4. QED
    BY <1>3, <1>6, <2>1, <2>2, <2>3
<1>9. r \o q \in Seq(S) /\ Len(r \o q) = Len(s) + 1
      /\ \A i \in 1..(Len(s) + 1) : (r \o q)[i] = IF i <= k + 1 THEN r[i] ELSE q[i - (k + 1)]
  BY <1>1, <1>4, <1>8, ConcatProperties
<1>10. InsertAt(s, k + 1, e) = r \o q
  <2>1. (k + 1) - 1 = k
    BY <1>1
  <2>2. QED
    BY <1>2, <1>5, <1>7, <2>1 DEF InsertAt
<1>11. \A i \in 1..(Len(s) + 1) : (r \o q)[i] =
          IF i <= k THEN s[i] ELSE IF i = k + 1 THEN e ELSE s[i - 1]
  <2> SUFFICES ASSUME NEW i \in 1..(Len(s) + 1)
               PROVE  (r \o q)[i] = IF i <= k THEN s[i] ELSE IF i = k + 1 THEN e ELSE s[i - 1]
    OBVIOUS
  <2>1. CASE i <= k + 1
    BY <1>1, <1>8, <1>9, <2>1
  <2>2. CASE i > k + 1
    <3>1. i - (k + 1) \in 1..(Len(s) - k) /\ k + (i - (k + 1)) = i - 1
      BY <1>1, <2>2
    <3>2. q[i - (k + 1)] = s[i - 1]
      BY <1>4, <3>1
    <3>3. QED
      BY <1>9, <2>2, <3>2
  <2>3. i <= k + 1 \/ i > k + 1
    BY <1>1
  <2>4. QED
    BY <2>1, <2>2, <2>3
<1>12. PICK t : t = InsertAt(s, k + 1, e)
  OBVIOUS
<1>13. /\ t \in Seq(S) /\ Len(t) = Len(s) + 1
       /\ \A i \in 1..(Len(s) + 1) :
            t[i] = IF i <= k THEN s[i] ELSE IF i = k + 1 THEN e ELSE s[i - 1]
  <2>1. t = r \o q
    BY <1>10, <1>12
  <2>2. QED
    BY <1>9, <1>11, <2>1
<1>14. QED
  BY <1>12, <1>13

\* What removing element k does.
LEMMA RemovedAt ==
    ASSUME NEW S, NEW s \in Seq(S), NEW k \in 1..Len(s)
    PROVE  /\ RemoveAt(s, k) \in Seq(S)
           /\ Len(RemoveAt(s, k)) = Len(s) - 1
           /\ \A i \in 1..(Len(s) - 1) : RemoveAt(s, k)[i] = IF i < k THEN s[i] ELSE s[i + 1]
<1>1. Len(s) \in Nat
  BY LenProperties
<1>2. PICK p, q : p = SubSeq(s, 1, k - 1) /\ q = SubSeq(s, k + 1, Len(s))
  OBVIOUS
<1>3. p \in Seq(S) /\ Len(p) = k - 1 /\ \A i \in 1..(k - 1) : p[i] = s[i]
  BY <1>1, <1>2, SubSeqProperties
<1>4. q \in Seq(S) /\ Len(q) = Len(s) - k /\ \A i \in 1..(Len(s) - k) : q[i] = s[k + i]
  BY <1>1, <1>2, SubSeqProperties
<1>5. p \o q \in Seq(S) /\ Len(p \o q) = Len(s) - 1
      /\ \A i \in 1..(Len(s) - 1) : (p \o q)[i] = IF i <= k - 1 THEN p[i] ELSE q[i - (k - 1)]
  BY <1>1, <1>3, <1>4, ConcatProperties
<1>6. RemoveAt(s, k) = p \o q
  BY <1>2 DEF RemoveAt
<1>7. \A i \in 1..(Len(s) - 1) : (p \o q)[i] = IF i < k THEN s[i] ELSE s[i + 1]
  <2> SUFFICES ASSUME NEW i \in 1..(Len(s) - 1)
               PROVE  (p \o q)[i] = IF i < k THEN s[i] ELSE s[i + 1]
    OBVIOUS
  <2>1. CASE i < k
    BY <1>1, <1>3, <1>5, <2>1
  <2>2. CASE i >= k
    <3>1. i - (k - 1) \in 1..(Len(s) - k) /\ k + (i - (k - 1)) = i + 1
      BY <1>1, <2>2
    <3>2. q[i - (k - 1)] = s[i + 1]
      BY <1>4, <3>1
    <3>3. QED
      BY <1>5, <2>2, <3>2
  <2>3. i < k \/ i >= k
    BY <1>1
  <2>4. QED
    BY <2>1, <2>2, <2>3
<1>8. QED
  BY <1>5, <1>6, <1>7

\* The elements of s, each once.
Distinct(s) == \A i, j \in DOMAIN s : i # j => s[i] # s[j]

\* Where an element occurs once, that occurrence is the first.
LEMMA RemovedFirst ==
    ASSUME NEW S, NEW s \in Seq(S), Distinct(s), NEW k \in 1..Len(s)
    PROVE  RemoveFirst(s, s[k]) = RemoveAt(s, k)
<1>1. Len(s) \in Nat /\ DOMAIN s = 1..Len(s)
  BY LenProperties
<1>2. {i \in 1..Len(s) : s[i] = s[k]} = {k}
  BY <1>1 DEF Distinct
<1>3. Min({k}) = k
  BY <1>1 DEF Min
<1>4. SelectInSeq(s, LAMBDA v : v = s[k]) = k
  BY <1>2, <1>3 DEF SelectInSeq
<1>5. QED
  BY <1>4 DEF RemoveFirst

\* A part of 1..n that contains what is below its elements is an interval.
LEMMA InitialPart ==
    ASSUME NEW n \in Nat, NEW T \in SUBSET (1..n),
           \A i \in T : \A j \in 1..i : j \in T
    PROVE  Cardinality(T) \in 0..n /\ T = 1..Cardinality(T)
<1>2. \A m \in Nat : Cardinality(1..m) = m /\ IsFiniteSet(1..m)
  BY FS_Interval
<1>3. IsFiniteSet(T) /\ Cardinality(T) <= n
  <2>1. PICK all : all = 1..n
    OBVIOUS
  <2>2. IsFiniteSet(all) /\ Cardinality(all) = n /\ T \in SUBSET all
    BY <1>2, <2>1
  <2>3. IsFiniteSet(T) /\ Cardinality(T) <= Cardinality(all)
    BY <2>2, FS_Subset
  <2>4. QED
    BY <2>2, <2>3
<1>1. Cardinality(T) \in Nat
  BY <1>3, FS_CardinalityType
<1>4. \A i \in T : i <= Cardinality(T)
  <2> SUFFICES ASSUME NEW i \in T PROVE i <= Cardinality(T)
    OBVIOUS
  <2>1. 1..i \in SUBSET T /\ i \in Nat
    OBVIOUS
  <2>2. QED
    <3>1. PICK low : low = 1..i
      OBVIOUS
    <3>2. low \in SUBSET T /\ Cardinality(low) = i
      BY <1>2, <2>1, <3>1
    <3>3. Cardinality(low) <= Cardinality(T)
      BY <1>3, <3>2, FS_Subset
    <3>4. QED
      BY <3>2, <3>3
<1>5. T \in SUBSET (1..Cardinality(T))
  BY <1>1, <1>4
<1>6. T = 1..Cardinality(T)
  BY <1>1, <1>2, <1>5, FS_Subset
<1>7. QED
  BY <1>1, <1>3, <1>6

----------------------------------------------------------------------------
(* The index: events sorted by cmp_deterministic *)

\* An index in the order of `cmp_deterministic`.
Sorted(index) == \A i, j \in DOMAIN index : i < j => ~Before(index[j], index[i])

\* `cmp_deterministic` compares two numbers, so it is an order in which events may tie.
LEMMA BeforeOrders ==
    /\ \A d, e \in Event : Before(d, e) => ~Before(e, d)
    /\ \A d, e, f \in Event : ~Before(e, d) /\ ~Before(f, e) => ~Before(f, d)
    /\ \A d, e, f \in Event : ~Before(e, d) /\ Before(e, f) => Before(d, f)
    /\ \A d, e \in Event : ~Before(e, d) => d.seq_id <= e.seq_id
<1>1. \A e \in Event : e.seq_id \in Nat /\ SourceAndHash[e.payload] \in Nat
  BY WriterAssumption DEF Event
<1> DEFINE K(e) == SourceAndHash[e.payload]
<1>2. \A d, e \in Event : Before(d, e) <=> (d.seq_id < e.seq_id \/ (d.seq_id = e.seq_id /\ K(d) < K(e)))
  BY DEF Before
<1>3. \A e \in Event : e.seq_id \in Nat /\ K(e) \in Nat
  BY <1>1
<1> HIDE DEF K
<1>4. QED
  BY <1>2, <1>3

\* Where `append_event` puts an event in a sorted index.
LEMMA InsertedPlace ==
    ASSUME NEW index \in Seq(Event), Sorted(index), NEW e \in Event
    PROVE  \E k \in 0..Len(index) :
             /\ InsertSorted(index, e) = InsertAt(index, k + 1, e)
             /\ \A i \in 1..k : ~Before(e, index[i])
             /\ \A i \in (k + 1)..Len(index) : ~Before(index[i], e)
<1>1. /\ Len(index) \in Nat /\ DOMAIN index = 1..Len(index)
      /\ \A i \in 1..Len(index) : index[i] \in Event
  BY LenProperties, ElementOfSeq
<1>2. CASE index = <<>> \/ ~Before(e, Last(index))
  <2>1. InsertSorted(index, e) = InsertAt(index, Len(index) + 1, e)
    BY <1>2 DEF InsertSorted
  <2>2. ASSUME NEW i \in 1..Len(index) PROVE ~Before(e, index[i])
    <3>1. Len(index) \in 1..Len(index) /\ Last(index) = index[Len(index)]
      BY <1>1 DEF Last
    <3>2. index # <<>>
      BY <1>1, EmptySeq
    <3>3. ~Before(e, index[Len(index)])
      BY <1>2, <3>1, <3>2
    <3>4. i = Len(index) \/ ~Before(index[Len(index)], index[i])
      <4>1. i = Len(index) \/ i < Len(index)
        <5>1. \A n \in Nat : \A m \in 1..n : m = n \/ m < n
          OBVIOUS
        <5>2. QED
          BY <1>1, <5>1
      <4>2. i \in DOMAIN index /\ Len(index) \in DOMAIN index
        BY <1>1, <3>1
      <4>3. QED
        BY <4>1, <4>2 DEF Sorted
    <3>5. QED
      BY <1>1, <3>1, <3>3, <3>4, BeforeOrders
  <2>3. Len(index) \in 0..Len(index) /\ (Len(index) + 1)..Len(index) = {}
    BY <1>1
  <2>4. QED
    BY <2>1, <2>2, <2>3
<1>3. CASE ~(index = <<>> \/ ~Before(e, Last(index)))
  <2>1. PICK T : T = {i \in 1..Len(index) : Before(index[i], e)}
    OBVIOUS
  <2>2. PICK k : k = Cardinality(T)
    OBVIOUS
  <2>3. InsertSorted(index, e) = InsertAt(index, k + 1, e)
    BY <1>1, <1>3, <2>1, <2>2 DEF InsertSorted
  <2>4. ASSUME NEW i \in T, NEW j \in 1..i PROVE j \in T
    <3>1. j \in 1..Len(index) /\ i \in 1..Len(index) /\ Before(index[i], e)
      BY <1>1, <2>1
    <3>2. j = i \/ ~Before(index[i], index[j])
      BY <1>1, <3>1 DEF Sorted
    <3>3. Before(index[j], e)
      BY <1>1, <3>1, <3>2, BeforeOrders
    <3>4. QED
      BY <2>1, <3>1, <3>3
  <2>5. T \in SUBSET (1..Len(index))
    BY <2>1
  <2>6. k \in 0..Len(index) /\ T = 1..k
    BY <1>1, <2>2, <2>4, <2>5, InitialPart
  <2>7. \A i \in 1..k : ~Before(e, index[i])
    BY <1>1, <2>1, <2>6, BeforeOrders
  <2>8. \A i \in (k + 1)..Len(index) : ~Before(index[i], e)
    <3> SUFFICES ASSUME NEW i \in (k + 1)..Len(index) PROVE ~Before(index[i], e)
      OBVIOUS
    <3>1. i \in 1..Len(index) /\ i \notin 1..k
      BY <1>1, <2>6
    <3>2. QED
      BY <2>1, <2>6, <3>1
  <2>9. QED
    BY <2>3, <2>6, <2>7, <2>8
<1>4. QED
  BY <1>2, <1>3

\* Inserting keeps the index sorted and its elements distinct.
LEMMA Inserted ==
    ASSUME NEW index \in Seq(Event), Sorted(index), Distinct(index),
           NEW e \in Event, e \notin Range(index)
    PROVE  /\ InsertSorted(index, e) \in Seq(Event)
           /\ Len(InsertSorted(index, e)) = Len(index) + 1
           /\ Sorted(InsertSorted(index, e)) /\ Distinct(InsertSorted(index, e))
           /\ Range(InsertSorted(index, e)) = Range(index) \cup {e}
<1>1. /\ Len(index) \in Nat /\ DOMAIN index = 1..Len(index)
      /\ \A i \in 1..Len(index) : index[i] \in Event
  BY LenProperties, ElementOfSeq
<1>2. PICK k \in 0..Len(index) :
        /\ InsertSorted(index, e) = InsertAt(index, k + 1, e)
        /\ \A i \in 1..k : ~Before(e, index[i])
        /\ \A i \in (k + 1)..Len(index) : ~Before(index[i], e)
  BY InsertedPlace
<1>3. PICK t : t = InsertSorted(index, e)
  OBVIOUS
<1>4. /\ t \in Seq(Event)
      /\ Len(t) = Len(index) + 1
      /\ \A i \in 1..(Len(index) + 1) :
           t[i] = IF i <= k THEN index[i] ELSE IF i = k + 1 THEN e ELSE index[i - 1]
  <2>1. t = InsertAt(index, k + 1, e)
    BY <1>2, <1>3
  <2>2. /\ InsertAt(index, k + 1, e) \in Seq(Event)
        /\ Len(InsertAt(index, k + 1, e)) = Len(index) + 1
        /\ \A i \in 1..(Len(index) + 1) :
             InsertAt(index, k + 1, e)[i] =
                 IF i <= k THEN index[i] ELSE IF i = k + 1 THEN e ELSE index[i - 1]
    BY InsertedAt
  <2>3. QED
    BY <2>1, <2>2
<1>5. DOMAIN t = 1..(Len(index) + 1)
  BY <1>4, LenProperties
<1>6. ASSUME NEW i \in 1..(Len(index) + 1)
      PROVE  \/ i \in 1..k /\ i \in 1..Len(index) /\ t[i] = index[i]
             \/ i = k + 1 /\ t[i] = e
             \/ i - 1 \in (k + 1)..Len(index) /\ i - 1 \in 1..Len(index) /\ t[i] = index[i - 1]
  BY <1>1, <1>4
<1>7. \A i \in 1..Len(index) : index[i] # e
  BY <1>1 DEF Range
<1>8. ASSUME NEW i \in 1..(Len(index) + 1), NEW j \in 1..(Len(index) + 1), i < j
      PROVE  ~Before(t[j], t[i]) /\ t[i] # t[j]
  <2>1. \A a, b \in 1..Len(index) :
          a < b => ~Before(index[b], index[a]) /\ index[a] # index[b]
    BY <1>1 DEF Sorted, Distinct
  <2>2. CASE j \in 1..k /\ t[j] = index[j] /\ j \in 1..Len(index)
    <3>1. i \in 1..k /\ i \in 1..Len(index) /\ t[i] = index[i]
      BY <1>1, <1>6, <1>8, <2>2
    <3>2. QED
      BY <1>8, <2>1, <2>2, <3>1
  <2>3. CASE j = k + 1 /\ t[j] = e
    <3>1. i \in 1..k /\ i \in 1..Len(index) /\ t[i] = index[i]
      BY <1>1, <1>6, <1>8, <2>3
    <3>2. QED
      BY <1>2, <1>7, <2>3, <3>1
  <2>4. CASE j - 1 \in (k + 1)..Len(index) /\ j - 1 \in 1..Len(index) /\ t[j] = index[j - 1]
    <3>1. CASE i \in 1..k /\ i \in 1..Len(index) /\ t[i] = index[i]
      <4>1. i < j - 1
        BY <1>1, <2>4, <3>1
      <4>2. QED
        BY <2>1, <2>4, <3>1, <4>1
    <3>2. CASE i = k + 1 /\ t[i] = e
      BY <1>2, <1>7, <2>4, <3>2
    <3>3. CASE i - 1 \in (k + 1)..Len(index) /\ i - 1 \in 1..Len(index) /\ t[i] = index[i - 1]
      <4>1. i - 1 < j - 1
        BY <1>8
      <4>2. QED
        BY <2>1, <2>4, <3>3, <4>1
    <3>4. QED
      BY <1>6, <3>1, <3>2, <3>3
  <2>5. QED
    BY <1>6, <2>2, <2>3, <2>4
<1>9. Sorted(t)
  BY <1>5, <1>8 DEF Sorted
<1>10. Distinct(t)
  <2> SUFFICES ASSUME NEW i \in 1..(Len(index) + 1), NEW j \in 1..(Len(index) + 1), i # j
               PROVE  t[i] # t[j]
    BY <1>5 DEF Distinct
  <2>1. i < j \/ j < i
    BY <1>1
  <2>2. QED
    BY <1>8, <2>1
<1>11. Range(t) \subseteq Range(index) \cup {e}
  <2> SUFFICES ASSUME NEW i \in 1..(Len(index) + 1) PROVE t[i] \in Range(index) \cup {e}
    BY <1>5 DEF Range
  <2>1. QED
    BY <1>1, <1>6 DEF Range
<1>12. e \in Range(t)
  <2>1. k + 1 \in 1..(Len(index) + 1) /\ t[k + 1] = e
    BY <1>1, <1>4
  <2>2. QED
    BY <1>5, <2>1 DEF Range
<1>13. Range(index) \subseteq Range(t)
  <2> SUFFICES ASSUME NEW i \in 1..Len(index) PROVE index[i] \in Range(t)
    BY <1>1 DEF Range
  <2>1. CASE i <= k
    <3>1. i \in 1..(Len(index) + 1) /\ t[i] = index[i]
      BY <1>1, <1>4, <2>1
    <3>2. QED
      BY <1>5, <3>1 DEF Range
  <2>2. CASE i > k
    <3>1. i + 1 \in 1..(Len(index) + 1) /\ ~(i + 1 <= k) /\ i + 1 # k + 1 /\ (i + 1) - 1 = i
      BY <1>1, <2>2
    <3>2. t[i + 1] = index[i]
      BY <1>4, <3>1
    <3>3. QED
      BY <1>5, <3>1, <3>2 DEF Range
  <2>3. i <= k \/ i > k
    BY <1>1
  <2>4. QED
    BY <2>1, <2>2, <2>3
<1>14. QED
  BY <1>3, <1>4, <1>9, <1>10, <1>11, <1>12, <1>13

\* So does removing an event that is in it.
LEMMA Removed ==
    ASSUME NEW index \in Seq(Event), Sorted(index), Distinct(index), NEW e \in Range(index)
    PROVE  /\ RemoveFirst(index, e) \in Seq(Event)
           /\ Len(RemoveFirst(index, e)) = Len(index) - 1
           /\ Sorted(RemoveFirst(index, e)) /\ Distinct(RemoveFirst(index, e))
           /\ Range(RemoveFirst(index, e)) = Range(index) \ {e}
<1>1. Len(index) \in Nat /\ DOMAIN index = 1..Len(index)
  BY LenProperties
<1>2. PICK k \in 1..Len(index) : e = index[k]
  BY <1>1 DEF Range
<1>3. PICK t : t = RemoveFirst(index, e)
  OBVIOUS
<1>4. t = RemoveAt(index, k)
  BY <1>2, <1>3, RemovedFirst
<1>5. /\ t \in Seq(Event)
      /\ Len(t) = Len(index) - 1
      /\ \A i \in 1..(Len(index) - 1) : t[i] = IF i < k THEN index[i] ELSE index[i + 1]
  BY <1>4, RemovedAt
<1>6. DOMAIN t = 1..(Len(index) - 1)
  BY <1>5, LenProperties
<1> DEFINE from(i) == IF i < k THEN i ELSE i + 1
<1>7. \A i \in 1..(Len(index) - 1) : from(i) \in 1..Len(index) /\ from(i) # k /\ t[i] = index[from(i)]
  BY <1>1, <1>5
<1>8. \A i, j \in 1..(Len(index) - 1) : i < j => from(i) < from(j)
  BY <1>1
<1>9. Sorted(t)
  <2> HIDE DEF from
  <2>1. QED
    BY <1>1, <1>6, <1>7, <1>8 DEF Sorted
<1>10. Distinct(t)
  <2> SUFFICES ASSUME NEW i \in 1..(Len(index) - 1), NEW j \in 1..(Len(index) - 1), i # j
               PROVE  t[i] # t[j]
    BY <1>6 DEF Distinct
  <2>1. from(i) # from(j)
    BY <1>1
  <2> HIDE DEF from
  <2>2. QED
    BY <1>1, <1>7, <2>1 DEF Distinct
<1>11. Range(t) \subseteq Range(index) \ {e}
  <2> HIDE DEF from
  <2> SUFFICES ASSUME NEW i \in 1..(Len(index) - 1) PROVE t[i] \in Range(index) /\ t[i] # e
    BY <1>6 DEF Range
  <2>1. QED
    BY <1>1, <1>2, <1>7 DEF Range, Distinct
<1>12. Range(index) \ {e} \subseteq Range(t)
  <2> SUFFICES ASSUME NEW i \in 1..Len(index), index[i] # e PROVE index[i] \in Range(t)
    BY <1>1 DEF Range
  <2>1. i # k
    BY <1>2
  <2>2. CASE i < k
    <3>1. i \in 1..(Len(index) - 1) /\ t[i] = index[i]
      BY <1>1, <1>5, <2>2
    <3>2. QED
      BY <1>6, <3>1 DEF Range
  <2>3. CASE i > k
    <3>1. i - 1 \in 1..(Len(index) - 1) /\ ~(i - 1 < k) /\ (i - 1) + 1 = i
      BY <1>1, <2>3
    <3>2. t[i - 1] = index[i]
      BY <1>5, <3>1
    <3>3. QED
      BY <1>6, <3>1, <3>2 DEF Range
  <2>4. i < k \/ i > k
    BY <1>1, <2>1
  <2>5. QED
    BY <2>2, <2>3, <2>4
<1>13. QED
  BY <1>3, <1>5, <1>9, <1>10, <1>11, <1>12

----------------------------------------------------------------------------
(* One event stored: ring and index, and which ids are kept *)

\* The ring and the index of a store: the same events, each once, the index sorted and
\* the ring in the order of their ids.
StoreOK(ring, index) ==
    /\ ring \in Seq(Event) /\ index \in Seq(Event)
    /\ Len(ring) <= EventCapacity /\ Len(index) = Len(ring)
    /\ Range(index) = Range(ring)
    /\ Sorted(index) /\ Distinct(index) /\ Distinct(ring)
    /\ \A i, j \in DOMAIN ring : i < j => ring[i].seq_id <= ring[j].seq_id

\* The ring after an append: e is new, and at the capacity one leaves that has no
\* larger id than any other.
Follows(ring, after, e) ==
    \/ Len(ring) < EventCapacity /\ Range(after) = Range(ring) \cup {e}
    \/ /\ Len(after) = EventCapacity
       /\ \E old \in Range(ring) : /\ Range(after) = (Range(ring) \ {old}) \cup {e}
                                   /\ \A d \in Range(ring) : old.seq_id <= d.seq_id

\* `append_event` of an event with the largest id.
LEMMA Stored ==
    ASSUME NEW ring, NEW index, StoreOK(ring, index), NEW e \in Event, e \notin Range(ring),
           \A d \in Range(ring) : d.seq_id <= e.seq_id
    PROVE  \E after, index2 :
             /\ StoreEvent([events |-> ring, event_index |-> index], e)
                  = [events |-> after, event_index |-> index2]
             /\ StoreOK(after, index2)
             /\ Follows(ring, after, e)
<1>1. /\ ring \in Seq(Event) /\ index \in Seq(Event)
      /\ Len(ring) <= EventCapacity /\ Len(index) = Len(ring)
      /\ Range(index) = Range(ring)
      /\ Sorted(index) /\ Distinct(index) /\ Distinct(ring)
      /\ \A i, j \in DOMAIN ring : i < j => ring[i].seq_id <= ring[j].seq_id
  BY DEF StoreOK
<1>2. /\ Len(ring) \in Nat /\ DOMAIN ring = 1..Len(ring)
      /\ EventCapacity \in Nat \ {0}
  BY <1>1, LenProperties, WriterAssumption
<1>3. PICK more : more = Append(ring, e)
  OBVIOUS
<1>4. /\ more \in Seq(Event) /\ Len(more) = Len(ring) + 1
      /\ \A i \in 1..Len(ring) : more[i] = ring[i]
      /\ more[Len(ring) + 1] = e
  BY <1>1, <1>3, AppendProperties
<1>5. DOMAIN more = 1..(Len(ring) + 1)
  BY <1>4, LenProperties
<1>6. Range(more) = Range(ring) \cup {e}
  BY <1>1, <1>3, SeqIsSeq, AppendIsSeq
<1>7. \A i \in 1..Len(ring) : ring[i] # e /\ ring[i].seq_id <= e.seq_id
  BY <1>2 DEF Range
<1>8. ASSUME NEW i \in 1..(Len(ring) + 1), NEW j \in 1..(Len(ring) + 1), i < j
      PROVE  more[i] # more[j] /\ more[i].seq_id <= more[j].seq_id
  <2>1. i \in 1..Len(ring) /\ more[i] = ring[i]
    BY <1>2, <1>4, <1>8
  <2>2. CASE j = Len(ring) + 1
    BY <1>4, <1>7, <2>1, <2>2
  <2>3. CASE j # Len(ring) + 1
    <3>1. j \in 1..Len(ring) /\ more[j] = ring[j]
      BY <1>2, <1>4, <2>3
    <3>2. i # j
      BY <1>8
    <3>3. QED
      BY <1>1, <1>2, <1>8, <2>1, <3>1, <3>2 DEF Distinct
  <2>4. QED
    BY <2>2, <2>3
<1>9. PICK grown : grown = InsertSorted(index, e)
  OBVIOUS
<1>10. /\ grown \in Seq(Event) /\ Len(grown) = Len(index) + 1
       /\ Sorted(grown) /\ Distinct(grown)
       /\ Range(grown) = Range(ring) \cup {e}
  BY <1>1, <1>9, Inserted
<1>11. CASE ~(Len(more) > EventCapacity)
  <2>1. StoreEvent([events |-> ring, event_index |-> index], e)
          = [events |-> more, event_index |-> grown]
    BY <1>3, <1>9, <1>11 DEF StoreEvent
  <2>2. Distinct(more)
    BY <1>2, <1>5, <1>8 DEF Distinct
  <2>3. StoreOK(more, grown)
    BY <1>1, <1>2, <1>4, <1>5, <1>6, <1>8, <1>10, <1>11, <2>2 DEF StoreOK
  <2>4. Follows(ring, more, e)
    BY <1>2, <1>4, <1>6, <1>11 DEF Follows
  <2>5. QED
    BY <2>1, <2>3, <2>4
<1>12. CASE Len(more) > EventCapacity
  <2>1. Len(ring) = EventCapacity
    BY <1>1, <1>2, <1>4, <1>12
  <2>2. PICK after, old : after = Tail(more) /\ old = Head(more)
    OBVIOUS
  <2>3. more # <<>>
    BY <1>2, <1>4, EmptySeq
  <2>4. /\ after \in Seq(Event) /\ Len(after) = Len(ring)
        /\ \A i \in 1..Len(ring) : after[i] = more[i + 1]
    BY <1>2, <1>4, <2>2, <2>3, HeadTailProperties
  <2>5. DOMAIN after = 1..Len(ring)
    BY <2>4, LenProperties
  <2>6. old = more[1] /\ old = ring[1] /\ 1 \in 1..Len(ring)
    <3>1. old = more[1]
      BY <1>4, <2>2, <2>3
    <3>2. 1 \in 1..Len(ring)
      BY <1>2, <2>1
    <3>3. QED
      BY <1>4, <3>1, <3>2
  <2>7. old \in Range(ring) /\ \A d \in Range(ring) : old.seq_id <= d.seq_id
    <3>1. old \in Range(ring)
      BY <1>2, <2>6 DEF Range
    <3>2. ASSUME NEW d \in Range(ring) PROVE old.seq_id <= d.seq_id
      <4>1. PICK i \in 1..Len(ring) : d = ring[i]
        BY <1>2 DEF Range
      <4>2. CASE i = 1
        <5>1. d \in Event /\ d = old
          BY <1>1, <2>6, <4>1, <4>2, ElementOfSeq
        <5>2. QED
          BY <5>1 DEF Event
      <4>3. CASE i # 1
        <5>1. 1 < i
          BY <1>2, <4>3
        <5>2. QED
          BY <1>1, <1>2, <2>6, <4>1, <5>1
      <4>4. QED
        BY <4>2, <4>3
    <3>3. QED
      BY <3>1, <3>2
  <2>8. Range(after) = (Range(ring) \ {old}) \cup {e}
    <3>1. /\ Range(more) = {old} \cup Range(after)
      BY <1>4, <2>2, <2>3, SeqIsSeq, TailIsSeq
    <3>2. old \notin Range(after)
      <4> SUFFICES ASSUME NEW i \in 1..Len(ring) PROVE after[i] # old
        BY <2>5 DEF Range
      <4>1. i + 1 \in 1..(Len(ring) + 1) /\ 1 \in 1..(Len(ring) + 1) /\ 1 < i + 1
        BY <1>2
      <4>2. QED
        BY <1>8, <2>4, <2>6, <4>1
    <3>3. old # e
      BY <2>7
    <3>4. QED
      BY <1>6, <3>1, <3>2, <3>3
  <2>9. ASSUME NEW i \in 1..Len(ring), NEW j \in 1..Len(ring), i < j
        PROVE  after[i] # after[j] /\ after[i].seq_id <= after[j].seq_id
    <3>1. i + 1 \in 1..(Len(ring) + 1) /\ j + 1 \in 1..(Len(ring) + 1) /\ i + 1 < j + 1
      BY <1>2, <2>9
    <3>2. QED
      BY <1>8, <2>4, <3>1
  <2>10. Distinct(after)
    BY <1>2, <2>5, <2>9 DEF Distinct
  <2>11. PICK index2 : index2 = RemoveFirst(grown, old)
    OBVIOUS
  <2>12. /\ index2 \in Seq(Event) /\ Len(index2) = Len(grown) - 1
         /\ Sorted(index2) /\ Distinct(index2)
         /\ Range(index2) = Range(grown) \ {old}
    BY <1>10, <2>7, <2>11, Removed
  <2>13. Range(index2) = Range(after)
    BY <1>10, <2>7, <2>8, <2>12
  <2>14. StoreEvent([events |-> ring, event_index |-> index], e)
           = [events |-> after, event_index |-> index2]
    BY <1>3, <1>9, <1>12, <2>2, <2>11 DEF StoreEvent
  <2>15. StoreOK(after, index2)
    <3>1. Len(after) <= EventCapacity /\ Len(index2) = Len(after)
      BY <1>1, <1>2, <1>10, <2>1, <2>4, <2>12
    <3>2. QED
      BY <2>4, <2>5, <2>9, <2>10, <2>12, <2>13, <3>1 DEF StoreOK
  <2>16. Follows(ring, after, e)
    BY <2>1, <2>4, <2>7, <2>8 DEF Follows
  <2>17. QED
    BY <2>14, <2>15, <2>16
<1>13. QED
  BY <1>11, <1>12

\* x is in the ring, or a full ring has only larger ids.
Covers(ring, x) ==
    \/ x \in Range(ring)
    \/ Len(ring) = EventCapacity /\ \A d \in Range(ring) : d.seq_id > x.seq_id

\* An append of a larger id covers what was covered before, if x shares its id with
\* nothing else in the ring.
LEMMA StillCovered ==
    ASSUME NEW ring \in Seq(Event), NEW after, NEW e \in Event, Follows(ring, after, e),
           NEW x \in Event, Covers(ring, x), x.seq_id < e.seq_id,
           \A d \in Range(ring) : d.seq_id = x.seq_id => d = x
    PROVE  Covers(after, x)
<1>1. /\ \A d \in Range(ring) : d \in Event /\ d.seq_id \in Nat
      /\ x.seq_id \in Nat /\ e.seq_id \in Nat
      /\ Len(ring) \in Nat /\ EventCapacity \in Nat
  <2>1. Range(ring) \subseteq Event /\ Len(ring) \in Nat
    BY SeqIsSeq
  <2>2. \A d \in Event : d.seq_id \in Nat
    BY DEF Event
  <2>3. QED
    BY <2>1, <2>2, WriterAssumption
<1>2. CASE Len(ring) < EventCapacity /\ Range(after) = Range(ring) \cup {e}
  BY <1>1, <1>2 DEF Covers
<1>3. CASE /\ Len(after) = EventCapacity
           /\ \E old \in Range(ring) : /\ Range(after) = (Range(ring) \ {old}) \cup {e}
                                       /\ \A d \in Range(ring) : old.seq_id <= d.seq_id
  <2>1. PICK old \in Range(ring) : /\ Range(after) = (Range(ring) \ {old}) \cup {e}
                                   /\ \A d \in Range(ring) : old.seq_id <= d.seq_id
    BY <1>3
  <2>2. CASE x \in Range(ring) /\ x # old
    BY <2>1, <2>2 DEF Covers
  <2>3. CASE x = old
    <3>1. \A d \in Range(ring) \ {old} : d.seq_id > x.seq_id
      BY <1>1, <2>1, <2>3
    <3>2. QED
      BY <1>1, <1>3, <2>1, <3>1 DEF Covers
  <2>4. CASE \A d \in Range(ring) : d.seq_id > x.seq_id
    BY <1>1, <1>3, <2>1, <2>4 DEF Covers
  <2>5. QED
    BY <2>2, <2>3, <2>4 DEF Covers
<1>4. QED
  BY <1>2, <1>3 DEF Follows

----------------------------------------------------------------------------
(* Storing what was recovered, one event after the other *)

\* Induction over the natural numbers, with the property as a set.
LEMMA NatSetInduction ==
    ASSUME NEW Good, 0 \in Good, \A n \in Nat : n \in Good => n + 1 \in Good
    PROVE  \A n \in Nat : n \in Good
<1> DEFINE Bad == Nat \ Good
<1> SUFFICES ASSUME Bad # {} PROVE FALSE
  OBVIOUS
<1>1. Bad \subseteq Nat
  OBVIOUS
<1> HIDE DEF Bad
<1>2. PICK m \in Bad : \A n \in Bad : <<n, m>> \notin OpToRel(<, Nat)
  BY <1>1, NatLessThanWellFounded, WFMin
<1>3. m \in Nat /\ m \notin Good
  BY <1>2 DEF Bad
<1>4. m # 0 /\ m - 1 \in Nat
  BY <1>3
<1>5. <<m - 1, m>> \in OpToRel(<, Nat)
  BY <1>3, <1>4 DEF OpToRel
<1>6. m - 1 \in Good
  BY <1>2, <1>4, <1>5 DEF Bad
<1>7. QED
  BY <1>3, <1>4, <1>6

\* The store of a process that has recovered nothing.
EmptyStore == [events |-> <<>>, event_index |-> <<>>]

\* f is the store after each of the recovered events.
Fills(f, s) ==
    f = [n \in 0..Len(s) |-> IF n = 0 THEN EmptyStore ELSE StoreEvent(f[n - 1], s[n])]

\* `StoreAll` is well defined.
LEMMA FillsExist ==
    ASSUME NEW S, NEW s \in Seq(S)
    PROVE  \E f : Fills(f, s)
<1>1. Len(s) \in Nat
  BY LenProperties
<1> DEFINE Step(f, n) == IF n = 0 THEN EmptyStore ELSE StoreEvent(f[n - 1], s[n])
           Good == {m \in Nat : \E f : DOMAIN f = 0..m /\ \A n \in 0..m : f[n] = Step(f, n)}
<1>2. 0 \in Good
  <2>1. PICK f : f = [n \in 0..0 |-> EmptyStore]
    OBVIOUS
  <2>2. DOMAIN f = 0..0 /\ \A n \in 0..0 : f[n] = Step(f, n)
    BY <2>1
  <2>3. QED
    BY <2>2
<1>3. ASSUME NEW m \in Nat, m \in Good PROVE m + 1 \in Good
  <2>1. PICK f : DOMAIN f = 0..m /\ \A n \in 0..m : f[n] = Step(f, n)
    BY <1>3
  <2>2. PICK last : last = Step(f, m + 1)
    OBVIOUS
  <2>3. PICK g : g = [n \in 0..(m + 1) |-> IF n = m + 1 THEN last ELSE f[n]]
    OBVIOUS
  <2>4. DOMAIN g = 0..(m + 1)
    BY <2>3
  <2>5. \A n \in 0..m : g[n] = f[n]
    BY <2>3
  <2>6. g[m + 1] = last
    BY <2>3
  <2>7. \A n \in 0..m : Step(g, n) = Step(f, n)
    <3> SUFFICES ASSUME NEW n \in 0..m PROVE Step(g, n) = Step(f, n)
      OBVIOUS
    <3>1. CASE n = 0
      BY <3>1
    <3>2. CASE n # 0
      <4>1. n - 1 \in 0..m
        BY <3>2
      <4>2. g[n - 1] = f[n - 1]
        BY <2>5, <4>1
      <4>3. QED
        BY <3>2, <4>2
    <3>3. QED
      BY <3>1, <3>2
  <2>8. Step(g, m + 1) = last
    <3>1. (m + 1) - 1 = m /\ m \in 0..m /\ m + 1 # 0
      OBVIOUS
    <3>2. g[m] = f[m]
      BY <2>5, <3>1
    <3>3. QED
      BY <2>2, <3>1, <3>2
  <2> HIDE DEF Step
  <2>9. \A n \in 0..(m + 1) : g[n] = Step(g, n)
    <3> SUFFICES ASSUME NEW n \in 0..(m + 1) PROVE g[n] = Step(g, n)
      OBVIOUS
    <3>1. n = m + 1 \/ n \in 0..m
      OBVIOUS
    <3>2. QED
      BY <2>1, <2>5, <2>6, <2>7, <2>8, <3>1
  <2>10. QED
    BY <2>4, <2>9
<1> HIDE DEF Good
<1>4. Len(s) \in Good
  BY <1>1, <1>2, <1>3, NatSetInduction
<1>5. PICK f : DOMAIN f = 0..Len(s) /\ \A n \in 0..Len(s) : f[n] = Step(f, n)
  BY <1>4 DEF Good
<1>6. PICK f2 : f2 = [n \in 0..Len(s) |-> f[n]]
  OBVIOUS
<1>7. \A n \in 0..Len(s) : f2[n] = f[n]
  BY <1>6
<1>8. \A n \in 0..Len(s) : f[n] = Step(f2, n)
  <2> SUFFICES ASSUME NEW n \in 0..Len(s) PROVE Step(f, n) = Step(f2, n)
    BY <1>5
  <2>1. CASE n = 0
    BY <2>1
  <2>2. CASE n # 0
    <3>1. n - 1 \in 0..Len(s)
      BY <1>1, <2>2
    <3>2. f2[n - 1] = f[n - 1]
      BY <1>7, <3>1
    <3>3. QED
      BY <2>2, <3>2
  <2>3. QED
    BY <2>1, <2>2
<1>9. f2 = [n \in 0..Len(s) |-> Step(f2, n)]
  <2> HIDE DEF Step
  <2>1. QED
    BY <1>6, <1>8
<1>10. QED
  BY <1>9 DEF Fills

\* The records of an intact log have different ids.
Ascends(s) == \A i, j \in DOMAIN s : i < j => s[i].seq_id < s[j].seq_id

\* What a start makes of records that are sorted by their ids.
LEMMA AllStored ==
    ASSUME NEW s \in Seq(Event), Distinct(s),
           \A i, j \in DOMAIN s : i < j => s[i].seq_id <= s[j].seq_id
    PROVE  /\ StoreOK(StoreAll(s).events, StoreAll(s).event_index)
           /\ Range(StoreAll(s).events) \subseteq Range(s)
           /\ Ascends(s) => \A x \in Range(s) : Covers(StoreAll(s).events, x)
<1>1. /\ Len(s) \in Nat /\ DOMAIN s = 1..Len(s)
      /\ \A i \in 1..Len(s) : s[i] \in Event
  BY LenProperties, ElementOfSeq
<1>2. PICK f : f = CHOOSE g : Fills(g, s)
  OBVIOUS
<1>3. Fills(f, s)
  BY <1>2, FillsExist
<1>4. StoreAll(s) = f[Len(s)]
  BY <1>2 DEF StoreAll, Fills, EmptyStore
<1>5. \A n \in 0..Len(s) : f[n] = IF n = 0 THEN EmptyStore ELSE StoreEvent(f[n - 1], s[n])
  BY <1>3 DEF Fills
<1> DEFINE Past(n) == {s[i] : i \in 1..n}
           Is(n) == \E ring, index :
                      /\ f[n] = [events |-> ring, event_index |-> index]
                      /\ StoreOK(ring, index)
                      /\ Range(ring) \subseteq Past(n)
                      /\ Ascends(s) => \A x \in Past(n) : Covers(ring, x)
           Good == {n \in Nat : n \in 0..Len(s) => Is(n)}
<1>6. 0 \in Good
  <2>1. 0 \in 0..Len(s) /\ f[0] = EmptyStore
    BY <1>1, <1>5
  <2>2. StoreOK(<<>>, <<>>)
    BY EmptyIsSeq, EmptySeq, WriterAssumption DEF StoreOK, Sorted, Distinct
  <2>3. Past(0) = {} /\ Range(<<>>) \subseteq Past(0)
    BY EmptyIsSeq
  <2> HIDE DEF Past
  <2>4. Is(0)
    BY <2>1, <2>2, <2>3 DEF EmptyStore
  <2>5. QED
    BY <2>4
<1>7. ASSUME NEW n \in Nat, n \in Good PROVE n + 1 \in Good
  <2> SUFFICES ASSUME n + 1 \in 0..Len(s) PROVE Is(n + 1)
    <3> HIDE DEF Is
    <3>1. n + 1 \in Nat
      OBVIOUS
    <3>2. QED
      BY <3>1
  <2>1. n \in 0..Len(s) /\ n + 1 \in 1..Len(s) /\ n + 1 # 0 /\ (n + 1) - 1 = n
    BY <1>1
  <2>2. Is(n)
    BY <1>7, <2>1
  <2>3. PICK ring, index : /\ f[n] = [events |-> ring, event_index |-> index]
                           /\ StoreOK(ring, index)
                           /\ Range(ring) \subseteq Past(n)
                           /\ Ascends(s) => \A x \in Past(n) : Covers(ring, x)
    BY <2>2
  <2>4. PICK e : e = s[n + 1]
    OBVIOUS
  <2>5. e \in Event /\ f[n + 1] = StoreEvent(f[n], e)
    BY <1>1, <1>5, <2>1, <2>4
  <2>6. ASSUME NEW i \in 1..n
        PROVE  s[i] \in Event /\ s[i] # e /\ s[i].seq_id <= e.seq_id
               /\ (Ascends(s) => s[i].seq_id < e.seq_id)
    <3>1. i \in DOMAIN s /\ n + 1 \in DOMAIN s /\ i < n + 1 /\ i # n + 1
      BY <1>1, <2>1
    <3>2. QED
      BY <1>1, <2>4, <3>1 DEF Distinct, Ascends
  <2>7. \A x \in Past(n) : x \in Event /\ x # e /\ x.seq_id <= e.seq_id
                           /\ (Ascends(s) => x.seq_id < e.seq_id)
    BY <2>6
  <2>8. Past(n + 1) = Past(n) \cup {e}
    <3>1. 1..(n + 1) = (1..n) \cup {n + 1}
      OBVIOUS
    <3>2. QED
      BY <2>4, <3>1
  <2>9. ASSUME Ascends(s), NEW x \in Past(n), NEW d \in Past(n), d.seq_id = x.seq_id
        PROVE  d = x
    <3>1. PICK i \in 1..n : x = s[i]
      BY <2>9
    <3>2. PICK j \in 1..n : d = s[j]
      BY <2>9
    <3>3. i \in DOMAIN s /\ j \in DOMAIN s /\ (i = j \/ i < j \/ j < i)
      BY <1>1, <2>1
    <3>4. x.seq_id \in Nat /\ d.seq_id \in Nat
      BY <1>1, <3>1, <3>2, <3>3 DEF Event
    <3>5. QED
      BY <2>9, <3>1, <3>2, <3>3, <3>4 DEF Ascends
  <2> HIDE DEF Past
  <2>10. PICK after, index2 :
           /\ StoreEvent([events |-> ring, event_index |-> index], e)
                = [events |-> after, event_index |-> index2]
           /\ StoreOK(after, index2)
           /\ Follows(ring, after, e)
    <3>1. e \notin Range(ring) /\ \A d \in Range(ring) : d.seq_id <= e.seq_id
      BY <2>3, <2>7
    <3>2. QED
      BY <2>3, <2>5, <3>1, Stored
  <2>11. Range(after) \subseteq Range(ring) \cup {e} /\ e \in Range(after)
    BY <2>10 DEF Follows
  <2>12. ASSUME Ascends(s), NEW x \in Past(n) PROVE Covers(after, x)
    <3>1. ring \in Seq(Event) /\ Covers(ring, x) /\ x \in Event /\ x.seq_id < e.seq_id
      BY <2>3, <2>7, <2>12 DEF StoreOK
    <3>2. \A d \in Range(ring) : d.seq_id = x.seq_id => d = x
      BY <2>3, <2>9, <2>12
    <3>3. QED
      BY <2>5, <2>10, <3>1, <3>2, StillCovered
  <2>13. Ascends(s) => \A x \in Past(n + 1) : Covers(after, x)
    BY <2>8, <2>11, <2>12 DEF Covers
  <2>14. f[n + 1] = [events |-> after, event_index |-> index2]
    BY <2>3, <2>5, <2>10
  <2>15. Range(after) \subseteq Past(n + 1)
    BY <2>3, <2>8, <2>11
  <2>16. QED
    BY <2>10, <2>13, <2>14, <2>15
<1>8. Past(Len(s)) = Range(s)
  BY <1>1 DEF Range
<1>9. Is(Len(s))
  <2> HIDE DEF Is
  <2>1. Len(s) \in Nat /\ Len(s) \in 0..Len(s)
    BY <1>1
  <2>2. Len(s) \in Good
    <3> HIDE DEF Good
    <3>1. QED
      BY <1>6, <1>7, <2>1, NatSetInduction
  <2>3. QED
    BY <2>1, <2>2
<1> HIDE DEF Past
<1>10. PICK ring, index : /\ f[Len(s)] = [events |-> ring, event_index |-> index]
                          /\ StoreOK(ring, index)
                          /\ Range(ring) \subseteq Past(Len(s))
                          /\ Ascends(s) => \A x \in Past(Len(s)) : Covers(ring, x)
  BY <1>9
<1>11. StoreAll(s).events = ring /\ StoreAll(s).event_index = index
  BY <1>4, <1>10
<1>12. QED
  BY <1>8, <1>10, <1>11

----------------------------------------------------------------------------
(* Places of a log and their ranks *)

\* How many elements of P precede p in the relation R.
Rank(P, R, p) == Cardinality({q \in P : <<q, p>> \in R}) + 1

\* In a finite total order the ranks are 1, 2, ... and follow the order.
LEMMA Ranked ==
    ASSUME NEW P, IsFiniteSet(P), NEW R,
           \A p \in P : <<p, p>> \notin R,
           \A p, q, r \in P : <<p, q>> \in R /\ <<q, r>> \in R => <<p, r>> \in R,
           \A p, q \in P : p = q \/ <<p, q>> \in R \/ <<q, p>> \in R
    PROVE  /\ Cardinality(P) \in Nat
           /\ \A k \in 1..Cardinality(P) : \E p \in P : Rank(P, R, p) = k
           /\ \A p \in P : Rank(P, R, p) \in 1..Cardinality(P)
           /\ \A p, q \in P : <<p, q>> \in R => Rank(P, R, p) < Rank(P, R, q)
<1> DEFINE before(p) == {q \in P : <<q, p>> \in R}
<1>1. Cardinality(P) \in Nat
  BY FS_CardinalityType
<1>2. ASSUME NEW p \in P
      PROVE  IsFiniteSet(before(p)) /\ Cardinality(before(p)) \in Nat
  <2>1. before(p) \in SUBSET P
    OBVIOUS
  <2> HIDE DEF before
  <2>2. QED
    BY <2>1, FS_Subset, FS_CardinalityType
<1>3. ASSUME NEW p \in P PROVE Cardinality(before(p)) < Cardinality(P)
  <2>1. before(p) \in SUBSET P /\ p \notin before(p)
    OBVIOUS
  <2> HIDE DEF before
  <2>2. /\ Cardinality(before(p)) <= Cardinality(P)
        /\ Cardinality(P) = Cardinality(before(p)) => P = before(p)
    BY <2>1, FS_Subset
  <2>3. QED
    BY <1>1, <1>2, <2>1, <2>2
<1>4. ASSUME NEW p \in P, NEW q \in P, <<p, q>> \in R
      PROVE  Cardinality(before(p)) < Cardinality(before(q))
  <2>1. before(p) \in SUBSET before(q) /\ p \notin before(p) /\ p \in before(q)
    BY <1>4
  <2>2. IsFiniteSet(before(q)) /\ Cardinality(before(q)) \in Nat /\ Cardinality(before(p)) \in Nat
    BY <1>2
  <2> HIDE DEF before
  <2>3. /\ Cardinality(before(p)) <= Cardinality(before(q))
        /\ Cardinality(before(q)) = Cardinality(before(p)) => before(q) = before(p)
    BY <2>1, <2>2, FS_Subset
  <2>4. QED
    BY <2>1, <2>2, <2>3
<1>5. \A p \in P : Rank(P, R, p) = Cardinality(before(p)) + 1
  BY DEF Rank
<1> HIDE DEF before
<1>6. \A p, q \in P : <<p, q>> \in R => Rank(P, R, p) < Rank(P, R, q)
  BY <1>2, <1>4, <1>5
<1>7. \A p \in P : Rank(P, R, p) \in 1..Cardinality(P)
  BY <1>1, <1>2, <1>3, <1>5
<1>8. PICK N : N = Cardinality(P)
  OBVIOUS
<1>9. PICK f : f = [p \in P |-> Rank(P, R, p)]
  OBVIOUS
<1>10. f \in [P -> 1..N]
  BY <1>7, <1>8, <1>9
<1>11. \A p, q \in P : f[p] = f[q] => p = q
  <2> SUFFICES ASSUME NEW p \in P, NEW q \in P, p # q PROVE f[p] # f[q]
    OBVIOUS
  <2>1. Rank(P, R, p) < Rank(P, R, q) \/ Rank(P, R, q) < Rank(P, R, p)
    BY <1>6
  <2>2. Rank(P, R, p) \in Nat /\ Rank(P, R, q) \in Nat
    BY <1>2, <1>5
  <2>3. QED
    BY <1>9, <2>1, <2>2
<1>12. f \in Injection(P, 1..N)
  BY <1>10, <1>11 DEF Injection, IsInjective
<1>13. IsFiniteSet(1..N) /\ Cardinality(1..N) = N
  BY <1>1, <1>8, FS_Interval
<1>14. f \in Surjection(P, 1..N)
  BY <1>8, <1>12, <1>13, FS_Injection
<1>15. \A k \in 1..N : \E p \in P : f[p] = k
  BY <1>14 DEF Surjection
<1>16. QED
  BY <1>1, <1>6, <1>7, <1>8, <1>9, <1>15

\* The places of the lines in a log.
Places(log) == UNION {{i} \X DOMAIN log[i] : i \in DOMAIN log}

\* The line at a place.
LineAt(log, p) == log[p[1]][p[2]]

\* One place comes before another in the files.
Ahead(p, q) == p[1] < q[1] \/ (p[1] = q[1] /\ p[2] < q[2])

\* A place is a segment and a line of it.
LEMMA PlaceIs ==
    ASSUME NEW log, IsLog(log)
    PROVE  /\ \A p \in Places(log) : /\ p = <<p[1], p[2]>>
                                     /\ p[1] \in DOMAIN log /\ p[2] \in DOMAIN log[p[1]]
                                     /\ p[1] \in Nat /\ p[2] \in Nat
           /\ \A i \in DOMAIN log : \A j \in DOMAIN log[i] : <<i, j>> \in Places(log)
           /\ LinesOf(log) = {LineAt(log, p) : p \in Places(log)}
<1>1. DOMAIN log = 1..Len(log) /\ Len(log) \in Nat /\ \A i \in DOMAIN log : IsSeq(log[i])
  BY SeqIsSeq DEF IsLog, IsSeq
<1>2. \A i \in DOMAIN log : DOMAIN log[i] = 1..Len(log[i]) /\ Len(log[i]) \in Nat
  BY <1>1, SeqIsSeq DEF IsSeq
<1>3. ASSUME NEW p \in Places(log)
      PROVE  /\ p = <<p[1], p[2]>>
             /\ p[1] \in DOMAIN log /\ p[2] \in DOMAIN log[p[1]]
             /\ p[1] \in Nat /\ p[2] \in Nat
  <2>1. PICK i \in DOMAIN log : p \in {i} \X DOMAIN log[i]
    BY DEF Places
  <2>2. p = <<p[1], p[2]>> /\ p[1] = i /\ p[2] \in DOMAIN log[i]
    BY <2>1
  <2>3. QED
    BY <1>1, <1>2, <2>2
<1>4. ASSUME NEW i \in DOMAIN log, NEW j \in DOMAIN log[i] PROVE <<i, j>> \in Places(log)
  BY DEF Places
<1>5. ASSUME NEW line \in LinesOf(log) PROVE \E p \in Places(log) : line = LineAt(log, p)
  <2>1. PICK i \in DOMAIN log : line \in Range(log[i])
    BY DEF LinesOf
  <2>2. PICK j \in DOMAIN log[i] : line = log[i][j]
    BY <2>1 DEF Range
  <2>3. <<i, j>> \in Places(log) /\ line = LineAt(log, <<i, j>>)
    BY <1>4, <2>2 DEF LineAt
  <2>4. QED
    BY <2>3
<1>6. ASSUME NEW p \in Places(log) PROVE LineAt(log, p) \in LinesOf(log)
  <2>1. LineAt(log, p) \in Range(log[p[1]])
    BY <1>3 DEF LineAt, Range
  <2>2. QED
    BY <1>3, <2>1 DEF LinesOf
<1>7. QED
  BY <1>3, <1>4, <1>5, <1>6

\* There are finitely many lines.
LEMMA PlacesFinite ==
    ASSUME NEW log, IsLog(log)
    PROVE  IsFiniteSet(Places(log))
<1>1. DOMAIN log = 1..Len(log) /\ Len(log) \in Nat /\ \A i \in DOMAIN log : IsSeq(log[i])
  BY SeqIsSeq DEF IsLog, IsSeq
<1>2. \A i \in DOMAIN log : DOMAIN log[i] = 1..Len(log[i]) /\ Len(log[i]) \in Nat
  BY <1>1, SeqIsSeq DEF IsSeq
<1>3. PICK X : X = {{i} \X DOMAIN log[i] : i \in DOMAIN log}
  OBVIOUS
<1>4. PICK D : D = DOMAIN log
  OBVIOUS
<1>5. PICK f : f = [i \in D |-> {i} \X DOMAIN log[i]]
  OBVIOUS
<1>6. f \in Surjection(D, X)
  BY <1>3, <1>4, <1>5 DEF Surjection
<1>7. IsFiniteSet(D)
  BY <1>1, <1>4, FS_Interval
<1>8. IsFiniteSet(X)
  BY <1>6, <1>7, FS_Surjection
<1>9. ASSUME NEW x \in X PROVE IsFiniteSet(x)
  <2>1. PICK i \in DOMAIN log : x = {i} \X DOMAIN log[i]
    BY <1>3
  <2>2. IsFiniteSet({i}) /\ IsFiniteSet(DOMAIN log[i])
    <3>1. PICK n : n = Len(log[i])
      OBVIOUS
    <3>2. n \in Nat /\ DOMAIN log[i] = 1..n
      BY <1>2, <3>1
    <3>3. IsFiniteSet(1..n)
      BY <3>2, FS_Interval
    <3>4. QED
      BY <3>2, <3>3, FS_Singleton
  <2>3. QED
    BY <2>1, <2>2, FS_Product
<1>10. QED
  BY <1>3, <1>8, <1>9, FS_UNION DEF Places

----------------------------------------------------------------------------
(* What recovery reads *)

\* What the lines of a log are: records of accepted events, in the order of acceptance.
RecordsInOrder(log) ==
    /\ \A line \in LinesOf(log) : line.event \in Event \cup {None}
    /\ \A p, q \in Places(log) :
         Ahead(p, q) /\ LineAt(log, p).event # None /\ LineAt(log, q).event # None =>
             LineAt(log, p).event.payload < LineAt(log, q).event.payload

\* The ids rise along the log, and every line decodes.
IdsInOrder(log) ==
    /\ \A line \in LinesOf(log) : line.event # None
    /\ \A p, q \in Places(log) :
         Ahead(p, q) => LineAt(log, p).event.seq_id < LineAt(log, q).event.seq_id

\* `recover_events` on a log it can read.
LEMMA Recovered ==
    ASSUME IsLog(wal), RecordsInOrder(wal), Recoverable
    PROVE  /\ RecoverEvents \in Seq(Event)
           /\ Distinct(RecoverEvents)
           /\ \A i, j \in DOMAIN RecoverEvents :
                i < j => RecoverEvents[i].seq_id <= RecoverEvents[j].seq_id
           /\ Range(RecoverEvents) = LogEvents
           /\ IdsInOrder(wal) => Ascends(RecoverEvents)
<1> DEFINE record(p) == LineAt(wal, p).event
           sooner(p, q) == \/ record(p).seq_id < record(q).seq_id
                           \/ record(p).seq_id = record(q).seq_id /\ Ahead(p, q)
<1>1. PICK P : P = Places(wal)
  OBVIOUS
<1>2. IsFiniteSet(P) /\ \A p \in P : p = <<p[1], p[2]>> /\ p[1] \in Nat /\ p[2] \in Nat
  BY <1>1, PlaceIs, PlacesFinite
<1>3. \A p \in P : LineAt(wal, p) \in LogLines
  BY <1>1, PlaceIs, LogLinesOf
<1>4. \A p \in P : record(p) \in Event
  BY <1>3, LogLinesOf DEF RecordsInOrder, Recoverable
<1>5. \A p \in P : record(p).seq_id \in Nat /\ record(p).payload \in Nat
  BY <1>4 DEF Event
<1>6. \A p, q \in P : Ahead(p, q) => record(p).payload < record(q).payload
  BY <1>1, <1>3 DEF RecordsInOrder, Recoverable
<1>7. LogEvents = {record(p) : p \in P}
  <2>1. LogLines = {LineAt(wal, p) : p \in P}
    BY <1>1, PlaceIs, LogLinesOf
  <2>2. \A p \in P : record(p) # None
    BY <1>4, WriterAssumption
  <2>3. QED
    BY <2>1, <2>2 DEF LogEvents
<1>8. PICK R : R = {pq \in P \X P : sooner(pq[1], pq[2])}
  OBVIOUS
<1>9. \A p, q \in P : <<p, q>> \in R <=> sooner(p, q)
  BY <1>8
<1>10. \A p, q \in P : p = q \/ Ahead(p, q) \/ Ahead(q, p)
  <2> SUFFICES ASSUME NEW p \in P, NEW q \in P PROVE p = q \/ Ahead(p, q) \/ Ahead(q, p)
    OBVIOUS
  <2>1. p[1] = q[1] /\ p[2] = q[2] => p = q
    BY <1>2
  <2>2. QED
    BY <1>2, <2>1 DEF Ahead
<1>11. \A p, q, r \in P : Ahead(p, q) /\ Ahead(q, r) => Ahead(p, r)
  BY <1>2 DEF Ahead
<1>12. \A p \in P : ~Ahead(p, p)
  BY <1>2 DEF Ahead
<1>13. RecoverEvents = [k \in 1..Cardinality(P) |-> record(CHOOSE p \in P : Rank(P, R, p) = k)]
  <2> DEFINE places == UNION {{i} \X DOMAIN wal[i] : i \in DOMAIN wal}
             entry(p) == wal[p[1]][p[2]].event
             earlier(p, q) == \/ entry(p).seq_id < entry(q).seq_id
                              \/ /\ entry(p).seq_id = entry(q).seq_id
                                 /\ p[1] < q[1] \/ (p[1] = q[1] /\ p[2] < q[2])
             rank(p) == Cardinality({q \in places : earlier(q, p)}) + 1
  <2>1. RecoverEvents = [k \in 1..Cardinality(places) |->
                            entry(CHOOSE p \in places : rank(p) = k)]
    BY DEF RecoverEvents
  <2>2. places = P
    BY <1>1 DEF Places
  <2>3. \A p : entry(p) = record(p)
    BY DEF LineAt
  <2>4. \A p, q : earlier(p, q) <=> sooner(p, q)
    BY DEF LineAt, Ahead
  <2> HIDE DEF places, entry, earlier, record, sooner
  <2>5. \A p \in P : rank(p) = Rank(P, R, p)
    <3> SUFFICES ASSUME NEW p \in P PROVE rank(p) = Rank(P, R, p)
      OBVIOUS
    <3>1. {q \in places : earlier(q, p)} = {q \in P : <<q, p>> \in R}
      BY <1>9, <2>2, <2>4
    <3>2. QED
      BY <3>1 DEF Rank
  <2> HIDE DEF rank
  <2> DEFINE found(k) == CHOOSE p \in places : rank(p) = k
             ranked(k) == CHOOSE p \in P : Rank(P, R, p) = k
  <2>6. \A k : found(k) = ranked(k)
    BY <2>2, <2>5
  <2>7. \A k : entry(found(k)) = record(ranked(k))
    <3> HIDE DEF found, ranked
    <3>1. QED
      BY <2>3, <2>6
  <2>8. RecoverEvents = [k \in 1..Cardinality(places) |-> entry(found(k))]
    BY <2>1
  <2>9. RecoverEvents = [k \in 1..Cardinality(P) |-> record(ranked(k))]
    <3> HIDE DEF found, ranked
    <3>1. QED
      BY <2>2, <2>7, <2>8
  <2>10. QED
    BY <2>9
<1>14. /\ \A p \in P : ~sooner(p, p)
       /\ \A p, q, r \in P : sooner(p, q) /\ sooner(q, r) => sooner(p, r)
       /\ \A p, q \in P : p = q \/ sooner(p, q) \/ sooner(q, p)
  <2> HIDE DEF record
  <2>1. QED
    BY <1>5, <1>10, <1>11, <1>12
<1> HIDE DEF sooner
<1>15. /\ Cardinality(P) \in Nat
       /\ \A k \in 1..Cardinality(P) : \E p \in P : Rank(P, R, p) = k
       /\ \A p \in P : Rank(P, R, p) \in 1..Cardinality(P)
       /\ \A p, q \in P : <<p, q>> \in R => Rank(P, R, p) < Rank(P, R, q)
  <2>1. /\ \A p \in P : <<p, p>> \notin R
        /\ \A p, q, r \in P : <<p, q>> \in R /\ <<q, r>> \in R => <<p, r>> \in R
        /\ \A p, q \in P : p = q \/ <<p, q>> \in R \/ <<q, p>> \in R
    BY <1>9, <1>14
  <2>2. QED
    BY <1>2, <2>1, Ranked
<1>16. PICK N : N = Cardinality(P)
  OBVIOUS
<1>17. PICK at : at = [k \in 1..N |-> CHOOSE p \in P : Rank(P, R, p) = k]
  OBVIOUS
<1>18. \A k \in 1..N : at[k] \in P /\ Rank(P, R, at[k]) = k
  BY <1>15, <1>16, <1>17
<1>19. PICK s : s = RecoverEvents
  OBVIOUS
<1>20. N \in Nat /\ s = [k \in 1..N |-> record(at[k])]
  <2> HIDE DEF record
  <2>1. QED
    BY <1>13, <1>15, <1>16, <1>17, <1>19
<1>21. \A k, l \in 1..N : k < l => sooner(at[k], at[l])
  <2> SUFFICES ASSUME NEW k \in 1..N, NEW l \in 1..N, k < l PROVE sooner(at[k], at[l])
    OBVIOUS
  <2>1. at[k] # at[l]
    BY <1>18, <1>20
  <2>2. ~sooner(at[l], at[k])
    <3>1. <<at[l], at[k]>> \in R => l < k
      BY <1>15, <1>18
    <3>2. QED
      BY <1>9, <1>18, <1>20, <3>1
  <2>3. QED
    BY <1>14, <1>18, <2>1, <2>2
<1>22. /\ s \in Seq(Event) /\ DOMAIN s = 1..N
       /\ \A k \in 1..N : s[k] = record(at[k])
  <2> HIDE DEF record
  <2>1. QED
    BY <1>4, <1>18, <1>20
<1>23. \A p \in P : \E k \in 1..N : at[k] = p
  <2> SUFFICES ASSUME NEW p \in P PROVE \E k \in 1..N : at[k] = p
    OBVIOUS
  <2>1. PICK k \in 1..N : k = Rank(P, R, p)
    BY <1>15, <1>16
  <2>2. Rank(P, R, at[k]) = Rank(P, R, p) /\ at[k] \in P
    BY <1>18, <2>1
  <2>3. ~(k < k)
    BY <1>20
  <2>4. <<at[k], p>> \notin R /\ <<p, at[k]>> \notin R
    BY <1>15, <2>1, <2>2, <2>3
  <2>5. QED
    BY <1>9, <1>14, <2>2, <2>4
<1>24. Range(s) = LogEvents
  <2> HIDE DEF record
  <2>1. QED
    BY <1>7, <1>18, <1>22, <1>23 DEF Range
<1>25. ASSUME NEW k \in 1..N, NEW l \in 1..N, k < l
       PROVE  /\ s[k].seq_id <= s[l].seq_id /\ s[k] # s[l]
              /\ IdsInOrder(wal) => s[k].seq_id < s[l].seq_id
  <2>1. PICK p, q : p = at[k] /\ q = at[l]
    OBVIOUS
  <2>2. p \in P /\ q \in P /\ sooner(p, q) /\ s[k] = record(p) /\ s[l] = record(q)
    BY <1>18, <1>21, <1>22, <1>25, <2>1
  <2>3. record(p).seq_id <= record(q).seq_id
    <3> HIDE DEF record
    <3>1. QED
      BY <1>5, <2>2 DEF sooner
  <2>4. p # q
    BY <1>14, <2>2
  <2>5. record(p) # record(q)
    <3> HIDE DEF record
    <3>1. record(p).payload # record(q).payload
      BY <1>5, <1>6, <1>10, <2>2, <2>4
    <3>2. QED
      BY <3>1
  <2>6. IdsInOrder(wal) => record(p).seq_id # record(q).seq_id
    <3>1. IdsInOrder(wal) => \A x, y \in P : Ahead(x, y) => record(x).seq_id < record(y).seq_id
      BY <1>1 DEF IdsInOrder
    <3> HIDE DEF record
    <3>2. QED
      BY <1>5, <1>10, <2>2, <2>4, <3>1
  <2>7. record(p).seq_id \in Nat /\ record(q).seq_id \in Nat
    BY <1>5, <2>2
  <2> HIDE DEF record
  <2>8. QED
    BY <2>2, <2>3, <2>5, <2>6, <2>7
<1>26. Distinct(s)
  <2> SUFFICES ASSUME NEW i \in 1..N, NEW j \in 1..N, i # j PROVE s[i] # s[j]
    BY <1>22 DEF Distinct
  <2>1. i < j \/ j < i
    BY <1>20
  <2>2. QED
    BY <1>25, <2>1
<1>27. \A i, j \in DOMAIN s : i < j => s[i].seq_id <= s[j].seq_id
  BY <1>22, <1>25
<1>28. IdsInOrder(wal) => Ascends(s)
  BY <1>22, <1>25 DEF Ascends
<1> HIDE DEF record
<1>29. QED
  BY <1>19, <1>22, <1>24, <1>26, <1>27, <1>28

----------------------------------------------------------------------------
(* What an append leaves on disk *)

\* One append writes at most one line.
LEMMA WrittenOnce ==
    ASSUME NEW e, NEW outcome \in {"complete", "unterminated", "torn", "nothing"}
    PROVE  LET written == WrittenAs(e, outcome) IN
           \/ written = <<>>
           \/ \E line : /\ written = <<line>>
                        /\ line.event = e \/ (line.event = None /\ outcome # "complete")
<1>1. CASE outcome \in {"complete", "unterminated", "torn"}
  <2>1. PICK line : /\ WrittenAs(e, outcome) = <<line>>
                    /\ line.event = e \/ (line.event = None /\ outcome # "complete")
    BY <1>1 DEF WrittenAs
  <2>2. QED
    BY <2>1
<1>2. CASE outcome = "nothing"
  BY <1>2 DEF WrittenAs
<1>3. QED
  BY <1>1, <1>2

\* The lines of a segment after an append: those it had, one that swallowed the last one
\* because that was not ended, or the one written, at the end.
LEMMA SegmentLines ==
    ASSUME NEW segment, IsSeq(segment), NEW line, NEW written, written \in {<<>>, <<line>>}
    PROVE  \A j \in DOMAIN AppendToSegment(segment, written) :
             LET after == AppendToSegment(segment, written) IN
             \/ j \in DOMAIN segment /\ after[j] = segment[j]
             \/ after[j].event = None /\ \E l \in Range(segment) : ~l.ended
             \/ /\ written = <<line>> /\ after[j] = line
                /\ \A k \in DOMAIN after : ~(j < k)
<1>1. Len(segment) \in Nat /\ DOMAIN segment = 1..Len(segment)
  BY SeqIsSeq DEF IsSeq
<1>2. PICK after : after = AppendToSegment(segment, written)
  OBVIOUS
<1>3. IsSeq(<<line>>) /\ Len(<<line>>) = 1 /\ <<line>>[1] = line
  BY DEF IsSeq, Range
<1>4. CASE ~(written # <<>> /\ segment # <<>> /\ ~Last(segment).ended)
  <2>1. after = segment \o written
    BY <1>2, <1>4 DEF AppendToSegment
  <2>2. CASE written = <<>>
    <3>1. after = segment
      BY <2>1, <2>2 DEF IsSeq
    <3>2. QED
      BY <1>2, <3>1
  <2>3. CASE written = <<line>>
    <3>1. /\ DOMAIN after = 1..(Len(segment) + 1)
          /\ \A i \in 1..(Len(segment) + 1) :
               after[i] = IF i <= Len(segment) THEN segment[i] ELSE <<line>>[i - Len(segment)]
      BY <1>3, <2>1, <2>3, ConcatIsSeq
    <3>2. \A i \in 1..Len(segment) : after[i] = segment[i]
      BY <1>1, <3>1
    <3>3. after[Len(segment) + 1] = line
      <4>1. /\ Len(segment) + 1 \in 1..(Len(segment) + 1) /\ ~(Len(segment) + 1 <= Len(segment))
            /\ (Len(segment) + 1) - Len(segment) = 1
        BY <1>1
      <4>2. QED
        BY <1>3, <3>1, <4>1
    <3>4. ASSUME NEW j \in DOMAIN after
          PROVE  \/ j \in DOMAIN segment
                 \/ j = Len(segment) + 1 /\ \A k \in DOMAIN after : ~(j < k)
      BY <1>1, <3>1
    <3>5. QED
      BY <1>1, <1>2, <2>3, <3>2, <3>3, <3>4
  <2>4. QED
    BY <2>2, <2>3
<1>5. CASE written # <<>> /\ segment # <<>> /\ ~Last(segment).ended
  <2>1. PICK last : last = [event |-> None, ended |-> written[1].ended]
    OBVIOUS
  <2>2. after = Front(segment) \o <<last>>
    BY <1>2, <1>5, <2>1 DEF AppendToSegment
  <2>3. Len(segment) # 0
    BY <1>1, <1>5, TailIsSeq
  <2>4. Last(segment) \in Range(segment)
    BY <1>1, <2>3 DEF Last, Range
  <2>5. PICK n : n = Len(segment) - 1
    OBVIOUS
  <2>6. n \in Nat /\ Len(segment) = n + 1
    BY <1>1, <2>3, <2>5
  <2>7. PICK front : front = Front(segment)
    OBVIOUS
  <2>8. front = [i \in 1..n |-> segment[i]] /\ Len(front) = n
    <3>1. front = SubSeq(segment, 1, n)
      BY <2>5, <2>7 DEF Front
    <3>2. \A i \in 1..n : segment[i] \in Range(segment)
      BY <1>1, <2>6 DEF Range
    <3>3. front \in Seq(Range(segment)) /\ Len(front) = n /\ \A i \in 1..n : front[i] = segment[i]
      BY <2>6, <3>1, <3>2, SubSeqProperties
    <3>4. DOMAIN front = 1..n
      BY <3>3, LenProperties
    <3>5. QED
      BY <3>3, <3>4
  <2>9. IsSeq(front) /\ Len(front) = n
    <3>1. front \in Seq(Range(front))
      BY <2>6, <2>8 DEF Range
    <3>2. QED
      BY <2>8, <3>1 DEF IsSeq
  <2>10. IsSeq(<<last>>) /\ Len(<<last>>) = 1 /\ <<last>>[1] = last
    BY DEF IsSeq, Range
  <2>11. /\ DOMAIN after = 1..(n + 1)
         /\ \A i \in 1..(n + 1) : after[i] = IF i <= n THEN front[i] ELSE <<last>>[i - n]
    BY <2>2, <2>7, <2>9, <2>10, ConcatIsSeq
  <2>12. \A i \in 1..n : i \in DOMAIN segment /\ after[i] = segment[i]
    BY <1>1, <2>6, <2>8, <2>11
  <2>13. after[n + 1] = last
    <3>1. n + 1 \in 1..(n + 1) /\ ~(n + 1 <= n) /\ (n + 1) - n = 1
      BY <2>6
    <3>2. QED
      BY <2>10, <2>11, <3>1
  <2>14. last.event = None
    BY <2>1
  <2>15. \A j \in DOMAIN after : j \in 1..n \/ j = n + 1
    BY <2>6, <2>11
  <2>16. QED
    BY <1>2, <1>5, <2>4, <2>12, <2>13, <2>14, <2>15
<1>6. QED
  BY <1>4, <1>5

\* The lines of the log after an append: those it had, one that does not decode, or the
\* record of e, at the end.
LEMMA LastLine ==
    ASSUME IsLog(wal), NEW e, NEW outcome \in {"complete", "unterminated", "torn", "nothing"},
           NEW after \in LogsAfter(e, outcome)
    PROVE  \A p \in Places(after) :
             \/ p \in Places(wal) /\ LineAt(after, p) = LineAt(wal, p)
             \/ /\ LineAt(after, p).event = None
                /\ outcome # "complete" \/ \E line \in LinesOf(wal) : ~line.ended
             \/ LineAt(after, p).event = e /\ \A q \in Places(after) : ~Ahead(p, q)
<1>1. PICK written : written = WrittenAs(e, outcome)
  OBVIOUS
<1>2. PICK line : /\ written \in {<<>>, <<line>>}
                  /\ written = <<line>> =>
                       line.event = e \/ (line.event = None /\ outcome # "complete")
  <2>1. \/ written = <<>>
        \/ \E line : /\ written = <<line>>
                     /\ line.event = e \/ (line.event = None /\ outcome # "complete")
    BY <1>1, WrittenOnce
  <2>2. CASE written = <<>>
    <3>1. \A line : written # <<line>>
      BY <2>2
    <3>2. QED
      BY <2>2, <3>1
  <2>3. QED
    BY <2>1, <2>2
<1>3. /\ IsLog(after)
  BY LogGrows
<1>4. /\ \A p \in Places(after) : /\ p = <<p[1], p[2]>>
                                  /\ p[1] \in DOMAIN after /\ p[2] \in DOMAIN after[p[1]]
                                  /\ p[1] \in Nat /\ p[2] \in Nat
  BY <1>3, PlaceIs
<1>5. \A i \in DOMAIN wal : \A j \in DOMAIN wal[i] : <<i, j>> \in Places(wal)
  BY PlaceIs
<1>6. Len(wal) \in Nat /\ DOMAIN wal = 1..Len(wal) /\ IsSeq(wal)
  BY SeqIsSeq DEF IsLog, IsSeq
<1>7. CASE after = Append(wal, written)
  <2>1. /\ DOMAIN after = 1..(Len(wal) + 1)
        /\ \A i \in 1..(Len(wal) + 1) : after[i] = IF i = Len(wal) + 1 THEN written ELSE wal[i]
    BY <1>6, <1>7, AppendIsSeq
  <2> SUFFICES ASSUME NEW p \in Places(after)
               PROVE  \/ p \in Places(wal) /\ LineAt(after, p) = LineAt(wal, p)
                      \/ LineAt(after, p).event = None /\ outcome # "complete"
                      \/ LineAt(after, p).event = e /\ \A q \in Places(after) : ~Ahead(p, q)
    OBVIOUS
  <2>2. CASE p[1] # Len(wal) + 1
    <3>1. p[1] \in DOMAIN wal /\ after[p[1]] = wal[p[1]]
      BY <1>4, <1>6, <2>1, <2>2
    <3>2. QED
      BY <1>4, <1>5, <3>1 DEF LineAt
  <2>3. CASE p[1] = Len(wal) + 1
    <3>1. after[p[1]] = written /\ p[2] \in DOMAIN written
      BY <1>4, <2>1, <2>3
    <3>2. written = <<line>> /\ DOMAIN written = {1}
      <4>1. DOMAIN <<>> = {}
        BY EmptyIsSeq
      <4>2. written = <<line>>
        BY <1>2, <3>1, <4>1
      <4>3. DOMAIN <<line>> = {1}
        OBVIOUS
      <4>4. QED
        BY <4>2, <4>3
    <3>3. LineAt(after, p) = line
      BY <3>1, <3>2 DEF LineAt
    <3>4. ASSUME NEW q \in Places(after) PROVE ~Ahead(p, q)
      <4>1. q[1] \in 1..(Len(wal) + 1) /\ q[2] \in DOMAIN after[q[1]]
        BY <1>4, <2>1
      <4>2. CASE q[1] = Len(wal) + 1
        <5>1. q[2] = 1 /\ p[2] = 1
          BY <2>1, <3>1, <3>2, <4>1, <4>2
        <5>2. QED
          BY <1>6, <2>3, <4>2, <5>1 DEF Ahead
      <4>3. CASE q[1] # Len(wal) + 1
        BY <1>6, <2>3, <4>1, <4>3 DEF Ahead
      <4>4. QED
        BY <4>2, <4>3
    <3>5. QED
      BY <1>2, <3>2, <3>3, <3>4
  <2>4. QED
    BY <2>2, <2>3
<1>8. CASE wal # <<>> /\ after = [wal EXCEPT ![Len(wal)] = AppendToSegment(@, written)]
  <2>1. PICK last, grown : last = Len(wal) /\ grown = AppendToSegment(wal[last], written)
    OBVIOUS
  <2>2. last \in DOMAIN wal /\ last \in Nat
    BY <1>6, <1>8, <2>1, TailIsSeq
  <2>3. /\ DOMAIN after = DOMAIN wal
        /\ after[last] = grown
        /\ \A i \in DOMAIN wal : i # last => after[i] = wal[i]
    BY <1>6, <1>8, <2>1, <2>2
  <2>4. \A j \in DOMAIN grown :
          \/ j \in DOMAIN wal[last] /\ grown[j] = wal[last][j]
          \/ grown[j].event = None /\ \E l \in Range(wal[last]) : ~l.ended
          \/ /\ written = <<line>> /\ grown[j] = line
             /\ \A k \in DOMAIN grown : ~(j < k)
    <3>1. IsSeq(wal[last])
      BY <2>2 DEF IsLog
    <3>2. PICK segment : segment = wal[last]
      OBVIOUS
    <3>3. QED
      BY <1>2, <2>1, <3>1, <3>2, SegmentLines
  <2>5. \A l \in Range(wal[last]) : l \in LinesOf(wal)
    BY <2>2 DEF LinesOf
  <2> SUFFICES ASSUME NEW p \in Places(after)
               PROVE  \/ p \in Places(wal) /\ LineAt(after, p) = LineAt(wal, p)
                      \/ /\ LineAt(after, p).event = None
                         /\ outcome # "complete" \/ \E l \in LinesOf(wal) : ~l.ended
                      \/ LineAt(after, p).event = e /\ \A q \in Places(after) : ~Ahead(p, q)
    OBVIOUS
  <2>6. CASE p[1] # last
    <3>1. p[1] \in DOMAIN wal /\ after[p[1]] = wal[p[1]]
      BY <1>4, <2>3, <2>6
    <3>2. QED
      BY <1>4, <1>5, <3>1 DEF LineAt
  <2>7. CASE p[1] = last
    <3>1. p[2] \in DOMAIN grown /\ LineAt(after, p) = grown[p[2]]
      BY <1>4, <2>3, <2>7 DEF LineAt
    <3>2. CASE p[2] \in DOMAIN wal[last] /\ grown[p[2]] = wal[last][p[2]]
      <4>1. <<last, p[2]>> \in Places(wal) /\ p = <<last, p[2]>>
        BY <1>4, <1>5, <2>2, <2>7, <3>2
      <4>2. LineAt(wal, p) = wal[last][p[2]]
        BY <2>7 DEF LineAt
      <4>3. QED
        BY <3>1, <3>2, <4>1, <4>2
    <3>3. CASE grown[p[2]].event = None /\ \E l \in Range(wal[last]) : ~l.ended
      BY <2>5, <3>1, <3>3
    <3>4. CASE /\ written = <<line>> /\ grown[p[2]] = line
               /\ \A k \in DOMAIN grown : ~(p[2] < k)
      <4>1. ASSUME NEW q \in Places(after) PROVE ~Ahead(p, q)
        <5>1. q[1] \in 1..last /\ q[2] \in DOMAIN after[q[1]]
          BY <1>4, <1>6, <2>1, <2>3
        <5>2. CASE q[1] = last
          <6>1. q[2] \in DOMAIN grown
            BY <2>3, <5>1, <5>2
          <6>2. QED
            BY <2>2, <2>7, <3>4, <5>2, <6>1 DEF Ahead
        <5>3. CASE q[1] # last
          BY <2>2, <2>7, <5>1, <5>3 DEF Ahead
        <5>4. QED
          BY <5>2, <5>3
      <4>2. QED
        BY <1>2, <3>1, <3>4, <4>1
    <3>5. QED
      BY <2>4, <3>1, <3>2, <3>3, <3>4
  <2>8. QED
    BY <2>6, <2>7
<1>9. QED
  BY <1>1, <1>7, <1>8 DEF LogsAfter

----------------------------------------------------------------------------
(* Order of the records, and ids *)

\* An append keeps the records in the order of acceptance, and those of an intact log in
\* the order of their ids.
LEMMA AppendedInOrder ==
    ASSUME IsLog(wal), RecordsInOrder(wal), NEW e \in Event,
           \A d \in LogEvents : d.payload < e.payload,
           NEW outcome \in {"complete", "unterminated", "torn", "nothing"},
           NEW after \in LogsAfter(e, outcome)
    PROVE  /\ RecordsInOrder(after)
           /\ /\ \A line \in LinesOf(wal) : line.ended
              /\ outcome = "complete"
              /\ IdsInOrder(wal)
              /\ \A d \in LogEvents : d.seq_id < e.seq_id
              => IdsInOrder(after)
<1> DEFINE rec(p) == LineAt(after, p).event
           intact == /\ \A line \in LinesOf(wal) : line.ended
                     /\ outcome = "complete"
                     /\ IdsInOrder(wal)
                     /\ \A d \in LogEvents : d.seq_id < e.seq_id
<1>1. \A p \in Places(after) :
        \/ p \in Places(wal) /\ LineAt(after, p) = LineAt(wal, p)
        \/ /\ LineAt(after, p).event = None
           /\ outcome # "complete" \/ \E line \in LinesOf(wal) : ~line.ended
        \/ LineAt(after, p).event = e /\ \A q \in Places(after) : ~Ahead(p, q)
  BY LastLine
<1>2. LinesOf(after) = {LineAt(after, p) : p \in Places(after)}
  BY LogGrows, PlaceIs
<1>3. LinesOf(wal) = {LineAt(wal, p) : p \in Places(wal)}
  BY PlaceIs
<1>4. \A p \in Places(wal) : LineAt(wal, p).event \in Event \cup {None}
  BY <1>3 DEF RecordsInOrder
<1>5. \A p \in Places(wal) : LineAt(wal, p).event # None => LineAt(wal, p).event \in LogEvents
  BY <1>3, LogLinesOf DEF LogEvents
<1>6. ASSUME NEW line \in LinesOf(after) PROVE line.event \in Event \cup {None}
  <2>1. PICK p \in Places(after) : line = LineAt(after, p)
    BY <1>2
  <2>2. QED
    BY <1>1, <1>4, <2>1
<1>7. ASSUME NEW p \in Places(after), NEW q \in Places(after), Ahead(p, q),
             rec(p) # None, rec(q) # None
      PROVE  rec(p).payload < rec(q).payload
  <2>1. p \in Places(wal) /\ rec(p) = LineAt(wal, p).event
    BY <1>1, <1>7
  <2>2. rec(p) \in LogEvents
    BY <1>5, <1>7, <2>1
  <2>3. CASE q \in Places(wal) /\ LineAt(after, q) = LineAt(wal, q)
    BY <1>7, <2>1, <2>3 DEF RecordsInOrder
  <2>4. CASE rec(q) = e
    BY <2>2, <2>4
  <2>5. QED
    BY <1>1, <1>7, <2>3, <2>4
<1>8. RecordsInOrder(after)
  BY <1>6, <1>7 DEF RecordsInOrder
<1>9. ASSUME intact PROVE IdsInOrder(after)
  <2>1. \A p \in Places(after) :
          \/ p \in Places(wal) /\ LineAt(after, p) = LineAt(wal, p)
          \/ rec(p) = e /\ \A q \in Places(after) : ~Ahead(p, q)
    BY <1>1, <1>9
  <2>2. \A p \in Places(wal) : LineAt(wal, p).event # None
    BY <1>3, <1>9 DEF IdsInOrder
  <2>3. e # None
    BY WriterAssumption
  <2>4. ASSUME NEW line \in LinesOf(after) PROVE line.event # None
    <3>1. PICK p \in Places(after) : line = LineAt(after, p)
      BY <1>2
    <3>2. QED
      BY <2>1, <2>2, <2>3, <3>1
  <2>5. ASSUME NEW p \in Places(after), NEW q \in Places(after), Ahead(p, q)
        PROVE  rec(p).seq_id < rec(q).seq_id
    <3>1. p \in Places(wal) /\ rec(p) = LineAt(wal, p).event
      BY <2>1, <2>5
    <3>2. rec(p) \in LogEvents
      BY <1>5, <2>2, <3>1
    <3>3. CASE q \in Places(wal) /\ LineAt(after, q) = LineAt(wal, q)
      BY <1>9, <2>5, <3>1, <3>3 DEF IdsInOrder
    <3>4. CASE rec(q) = e
      BY <1>9, <3>2, <3>4
    <3>5. QED
      BY <2>1, <3>3, <3>4
  <2>6. QED
    BY <2>4, <2>5 DEF IdsInOrder
<1>10. QED
  BY <1>8, <1>9

\* So does the removal of the oldest segment.
LEMMA TailInOrder ==
    ASSUME NEW log, IsLog(log), log # <<>>, RecordsInOrder(log)
    PROVE  /\ RecordsInOrder(Tail(log))
           /\ IdsInOrder(log) => IdsInOrder(Tail(log))
<1>1. PICK rest : rest = Tail(log)
  OBVIOUS
<1>2. /\ IsSeq(rest) /\ Len(log) \in Nat \ {0} /\ DOMAIN log = 1..Len(log)
      /\ DOMAIN rest = 1..(Len(log) - 1)
      /\ \A i \in 1..(Len(log) - 1) : rest[i] = log[i + 1]
  BY <1>1, TailIsSeq DEF IsLog
<1>3. \A i \in DOMAIN rest : i + 1 \in DOMAIN log /\ rest[i] = log[i + 1]
  BY <1>2
<1>4. IsLog(rest)
  BY <1>2, <1>3 DEF IsLog
<1> DEFINE moved(p) == <<p[1] + 1, p[2]>>
<1>5. ASSUME NEW p \in Places(rest)
      PROVE  /\ moved(p) \in Places(log) /\ LineAt(rest, p) = LineAt(log, moved(p))
             /\ p[1] \in Nat /\ p[2] \in Nat
  <2>1. p[1] \in DOMAIN rest /\ p[2] \in DOMAIN rest[p[1]] /\ p[1] \in Nat /\ p[2] \in Nat
    BY <1>4, PlaceIs
  <2>2. p[1] + 1 \in DOMAIN log /\ p[2] \in DOMAIN log[p[1] + 1]
    BY <1>3, <2>1
  <2>3. moved(p) \in Places(log)
    BY <2>2, PlaceIs
  <2>4. LineAt(rest, p) = LineAt(log, moved(p))
    BY <1>3, <2>1 DEF LineAt
  <2>5. QED
    BY <2>1, <2>3, <2>4
<1>6. ASSUME NEW p \in Places(rest), NEW q \in Places(rest), Ahead(p, q)
      PROVE  Ahead(moved(p), moved(q))
  <2>1. /\ moved(p)[1] = p[1] + 1 /\ moved(p)[2] = p[2]
        /\ moved(q)[1] = q[1] + 1 /\ moved(q)[2] = q[2]
    OBVIOUS
  <2>2. p[1] \in Nat /\ q[1] \in Nat
    BY <1>5
  <2> HIDE DEF moved
  <2>3. QED
    BY <1>6, <2>1, <2>2 DEF Ahead
<1> HIDE DEF moved
<1>7. LinesOf(rest) \subseteq LinesOf(log)
  BY <1>3 DEF LinesOf
<1>8. RecordsInOrder(rest)
  BY <1>5, <1>6, <1>7 DEF RecordsInOrder
<1>9. IdsInOrder(log) => IdsInOrder(rest)
  BY <1>5, <1>6, <1>7 DEF IdsInOrder
<1>10. QED
  BY <1>1, <1>8, <1>9

\* Where the ids rise, they are different.
LEMMA IdsDiffer ==
    ASSUME IsLog(wal), RecordsInOrder(wal), IdsInOrder(wal)
    PROVE  \A d, e \in LogEvents : d.seq_id = e.seq_id => d = e
<1>1. LogLines = {LineAt(wal, p) : p \in Places(wal)}
  BY PlaceIs, LogLinesOf
<1>2. \A p \in Places(wal) : p = <<p[1], p[2]>> /\ p[1] \in Nat /\ p[2] \in Nat
  BY PlaceIs
<1> SUFFICES ASSUME NEW d \in LogEvents, NEW e \in LogEvents, d.seq_id = e.seq_id PROVE d = e
  OBVIOUS
<1>3. PICK p \in Places(wal) : d = LineAt(wal, p).event
  BY <1>1 DEF LogEvents
<1>4. PICK q \in Places(wal) : e = LineAt(wal, q).event
  BY <1>1 DEF LogEvents
<1>5. p = q \/ Ahead(p, q) \/ Ahead(q, p)
  <2>1. p[1] = q[1] /\ p[2] = q[2] => p = q
    BY <1>2
  <2>2. QED
    BY <1>2, <2>1 DEF Ahead
<1>6. d.seq_id \in Nat /\ e.seq_id \in Nat
  <2>1. d \in Event /\ e \in Event
    <3>1. \A line \in LogLines : line.event \in Event \cup {None}
      BY LogLinesOf DEF RecordsInOrder
    <3>2. QED
      BY <3>1 DEF LogEvents
  <2>2. QED
    BY <2>1 DEF Event
<1>7. QED
  BY <1>3, <1>4, <1>5, <1>6 DEF IdsInOrder

\* `latest_seq_id` is the largest id in the store.
LEMMA LatestIsLargest ==
    ASSUME NEW ring, NEW index, StoreOK(ring, index)
    PROVE  /\ LatestSeqId(index) \in Nat
           /\ \A e \in Range(ring) : e.seq_id <= LatestSeqId(index)
<1>1. index \in Seq(Event) /\ Sorted(index) /\ Range(index) = Range(ring)
  BY DEF StoreOK
<1>2. /\ Len(index) \in Nat /\ DOMAIN index = 1..Len(index)
      /\ \A i \in 1..Len(index) : index[i] \in Event
  BY <1>1, LenProperties, ElementOfSeq
<1>3. CASE index = <<>>
  BY <1>1, <1>3, EmptyIsSeq DEF LatestSeqId
<1>4. CASE index # <<>>
  <2>1. PICK n : n = Len(index)
    OBVIOUS
  <2>2. n \in 1..n /\ n \in Nat
    BY <1>1, <1>2, <1>4, <2>1, EmptySeq
  <2>3. LatestSeqId(index) = index[n].seq_id /\ index[n] \in Event
    BY <1>2, <1>4, <2>1, <2>2 DEF LatestSeqId, Last
  <2>4. ASSUME NEW e \in Range(index) PROVE e.seq_id <= index[n].seq_id
    <3>1. PICK i \in 1..n : e = index[i]
      BY <1>2, <2>1 DEF Range
    <3>2. e \in Event
      BY <1>2, <2>1, <3>1
    <3>3. CASE i = n
      BY <2>3, <3>1, <3>3 DEF Event
    <3>4. CASE i < n
      <4>1. ~Before(index[n], index[i])
        BY <1>1, <1>2, <2>1, <2>2, <3>4 DEF Sorted
      <4>2. QED
        BY <2>3, <3>1, <3>2, <4>1, BeforeOrders
    <3>5. i = n \/ i < n
      BY <2>2
    <3>6. QED
      BY <3>3, <3>4, <3>5
  <2>5. QED
    BY <1>1, <2>3, <2>4 DEF Event
<1>5. QED
  BY <1>3, <1>4

----------------------------------------------------------------------------
(* The log is served, and the numbering is ahead of it *)

\* The records of the log are of accepted events, in order, all accepted before what
\* waits in the queue; in an intact log the ids rise too.
LogInv ==
    /\ accepted <= MaxEvents
    /\ RecordsInOrder(wal)
    /\ \A e \in LogEvents : e.payload <= accepted /\ \A n \in Waiting : e.payload < n
    /\ wal_intact => IdsInOrder(wal)

\* Ring and index agree, and the numbering is ahead of them.
RingInv ==
    /\ StoreOK(events, event_index)
    /\ next_seq_id \in Nat \ {0}
    /\ \A e \in Range(events) : e.seq_id < next_seq_id

\* The record e is numbered before the next event, shares its id with no other event in
\* the ring, and is in the ring unless that has moved past it.
Served(e) ==
    /\ e.seq_id < next_seq_id
    /\ Covers(events, e)
    /\ \A d \in Range(events) : d.seq_id = e.seq_id => d = e

\* While the process lives, whatever an intact log holds is served.
ServedInv == wal_intact /\ phase # "down" => \A e \in LogEvents : Served(e)

\* An event taken from the queue is new to the log and to the ring.
LEMMA NextEventIs ==
    ASSUME DeliveryOrder, LogInv, RingInv, queue # <<>>, Head(queue) # Upsert
    PROVE  /\ NextEvent \in Event
           /\ NextEvent.seq_id = next_seq_id /\ NextEvent.payload = Head(queue)
           /\ Head(queue) \in 1..accepted /\ Head(queue) \in Waiting
           /\ \A d \in LogEvents : d.payload < NextEvent.payload
           /\ NextEvent \notin Range(events)
<1>1. Head(queue) \in Range(queue)
  BY HeadOfQueue
<1>2. Range(queue) \subseteq 0..accepted /\ accepted \in Nat
  BY SeqIsSeq DEF DeliveryOrder
<1>3. Head(queue) \in 1..accepted /\ Head(queue) \in Waiting
  BY <1>1, <1>2 DEF Waiting, Upsert
<1>4. NextEvent.seq_id = next_seq_id /\ NextEvent.payload = Head(queue)
  BY DEF NextEvent
<1>5. next_seq_id \in Nat /\ Head(queue) \in 1..MaxEvents
  <2>1. MaxEvents \in Nat /\ accepted <= MaxEvents
    BY WriterAssumption DEF LogInv
  <2>2. QED
    BY <1>2, <1>3, <2>1 DEF RingInv
<1>6. NextEvent \in Event
  BY <1>5 DEF NextEvent, Event
<1>7. \A d \in LogEvents : d.payload < NextEvent.payload
  BY <1>3, <1>4 DEF LogInv
<1>8. NextEvent \notin Range(events)
  BY <1>4, <1>5 DEF RingInv
<1>9. QED
  BY <1>3, <1>4, <1>6, <1>7, <1>8

\* Both ways of appending to the log.
LEMMA AppendKeepsLogInv ==
    ASSUME DeliveryOrder, LogAccounted, LogInv, RingInv, ServedInv, phase # "down",
           queue # <<>>, Head(queue) # Upsert,
           NEW outcome \in {"complete", "unterminated", "torn", "nothing"},
           wal' \in LogsAfter(NextEvent, outcome),
           wal_intact' = (wal_intact /\ outcome = "complete"),
           queue' \in {Tail(queue), <<>>}, UNCHANGED accepted
    PROVE  LogInv'
<1>1. /\ NextEvent \in Event
      /\ NextEvent.seq_id = next_seq_id /\ NextEvent.payload = Head(queue)
      /\ Head(queue) \in 1..accepted /\ Head(queue) \in Waiting
      /\ \A d \in LogEvents : d.payload < NextEvent.payload
  BY NextEventIs
<1>2. PICK after \in LogsAfter(NextEvent, outcome) : wal' = after
  OBVIOUS
<1>3. RecordsInOrder(after)
  BY <1>1, AppendedInOrder DEF LogInv, LogAccounted
<1>4. wal_intact' => IdsInOrder(after)
  <2> SUFFICES ASSUME wal_intact, outcome = "complete" PROVE IdsInOrder(after)
    OBVIOUS
  <2>1. \A line \in LinesOf(wal) : line.ended
    BY LogLinesOf DEF LogAccounted
  <2>2. \A d \in LogEvents : d.seq_id < NextEvent.seq_id
    BY <1>1 DEF ServedInv, Served
  <2>3. IsLog(wal) /\ RecordsInOrder(wal) /\ IdsInOrder(wal)
    BY DEF LogInv, LogAccounted
  <2>4. QED
    BY <1>1, <2>1, <2>2, <2>3, AppendedInOrder
<1>5. LogEvents' \subseteq LogEvents \cup {NextEvent}
  BY AppendKeepsLog
<1>6. Waiting' \subseteq Waiting /\ \A n \in Waiting' : Head(queue) < n
  <2>1. Range(Tail(queue)) \subseteq Range(queue)
        /\ Below({Head(queue)}, Range(Tail(queue)) \ {Upsert})
    BY HeadOfQueue
  <2>2. CASE queue' = Tail(queue)
    BY <2>1, <2>2 DEF Waiting, Below
  <2>3. CASE queue' = <<>>
    BY <2>3, EmptyIsSeq DEF Waiting
  <2>4. QED
    BY <2>2, <2>3
<1>7. Head(queue) <= accepted
  BY <1>1 DEF DeliveryOrder
<1>8. \A e \in LogEvents' : e.payload <= accepted /\ \A n \in Waiting' : e.payload < n
  BY <1>1, <1>5, <1>6, <1>7 DEF LogInv
<1>9. RecordsInOrder(wal')
  BY <1>2, <1>3
<1>10. wal_intact' => IdsInOrder(wal')
  BY <1>2, <1>4
<1>11. QED
  BY <1>8, <1>9, <1>10 DEF LogInv

\* `apply_write_op`: log, ring and numbering advance together.
LEMMA ApplyKeepsServed ==
    ASSUME DeliveryOrder, LogAccounted, LogInv, RingInv, ServedInv,
           NEW outcome \in AppendOutcomes, ApplyEvent(outcome)
    PROVE  LogInv' /\ RingInv' /\ ServedInv'
<1>1. /\ phase = "idle" /\ queue # <<>> /\ Head(queue) # Upsert
      /\ wal' \in LogsAfter(NextEvent, outcome)
      /\ wal_intact' = (wal_intact /\ outcome = "complete")
      /\ next_seq_id' = next_seq_id + 1
      /\ queue' = Tail(queue) /\ UNCHANGED accepted
  BY DEF ApplyEvent
<1>2. outcome \in {"complete", "unterminated", "torn", "nothing"}
  BY DEF AppendOutcomes
<1>3. LogInv'
  BY <1>1, <1>2, AppendKeepsLogInv
<1>4. PICK e : e = NextEvent
  OBVIOUS
<1>5. e \in Event /\ e.seq_id = next_seq_id /\ e \notin Range(events)
  BY <1>1, <1>4, NextEventIs
<1>6. /\ StoreOK(events, event_index) /\ next_seq_id \in Nat \ {0}
      /\ \A d \in Range(events) : d.seq_id < next_seq_id
  BY DEF RingInv
<1>7. events \in Seq(Event) /\ Range(events) \subseteq Event
  BY <1>6, SeqIsSeq DEF StoreOK
<1>8. \A d \in Event : d.seq_id \in Nat
  BY DEF Event
<1>9. PICK after, index :
        /\ StoreEvent([events |-> events, event_index |-> event_index], e)
             = [events |-> after, event_index |-> index]
        /\ StoreOK(after, index)
        /\ Follows(events, after, e)
  <2>1. \A d \in Range(events) : d.seq_id <= e.seq_id
    BY <1>5, <1>6, <1>7, <1>8
  <2>2. QED
    BY <1>5, <1>6, <2>1, Stored
<1>10. events' = after /\ event_index' = index
  <2>1. PICK store : store = StoreEvent([events |-> events, event_index |-> event_index], e)
    OBVIOUS
  <2>2. events' = store.events /\ event_index' = store.event_index
    BY <1>4, <2>1 DEF ApplyEvent
  <2>3. QED
    BY <1>9, <2>1, <2>2
<1>11. Range(after) \subseteq Range(events) \cup {e} /\ e \in Range(after)
  BY <1>9 DEF Follows
<1>12. RingInv'
  <2>1. \A d \in Range(after) : d.seq_id < next_seq_id + 1
    BY <1>5, <1>6, <1>7, <1>8, <1>11
  <2>2. next_seq_id + 1 \in Nat \ {0}
    BY <1>6
  <2>3. QED
    BY <1>1, <1>9, <1>10, <2>1, <2>2 DEF RingInv
<1>13. ServedInv'
  <2> SUFFICES ASSUME wal_intact, NEW x \in LogEvents' PROVE Served(x)'
    BY <1>1 DEF ServedInv
  <2>1. x \in LogEvents \/ x = e
    BY <1>1, <1>2, <1>4, AppendKeepsLog
  <2>2. CASE x = e
    <3>1. x.seq_id < next_seq_id + 1
      BY <1>5, <1>6, <2>2
    <3>2. Covers(after, x)
      BY <1>11, <2>2 DEF Covers
    <3>3. \A d \in Range(after) : d.seq_id = x.seq_id => d = x
      BY <1>5, <1>6, <1>7, <1>8, <1>11, <2>2
    <3>4. QED
      BY <1>1, <1>10, <3>1, <3>2, <3>3 DEF Served, Covers
  <2>3. CASE x \in LogEvents
    <3>1. Served(x)
      BY <1>1, <2>3 DEF ServedInv
    <3>2. x \in Event
      <4>1. \A line \in LogLines : line.event \in Event \cup {None}
        BY LogLinesOf DEF LogInv, RecordsInOrder
      <4>2. QED
        BY <2>3, <4>1 DEF LogEvents
    <3>3. x.seq_id < e.seq_id /\ x.seq_id < next_seq_id + 1
      BY <1>5, <1>6, <1>8, <3>1, <3>2 DEF Served
    <3>4. Covers(after, x)
      BY <1>5, <1>7, <1>9, <3>1, <3>2, <3>3, StillCovered DEF Served
    <3>5. \A d \in Range(after) : d.seq_id = x.seq_id => d = x
      BY <1>5, <1>8, <1>11, <3>1, <3>2, <3>3 DEF Served
    <3>6. QED
      BY <1>1, <1>10, <3>3, <3>4, <3>5 DEF Served, Covers
  <2>4. QED
    BY <2>1, <2>2, <2>3
<1>14. QED
  BY <1>3, <1>12, <1>13

\* A start on any log.
LEMMA StartServes ==
    ASSUME LogAccounted, LogInv, Start
    PROVE  RingInv' /\ ServedInv'
<1>1. IsLog(wal) /\ RecordsInOrder(wal)
  BY DEF LogAccounted, LogInv
<1>2. UNCHANGED <<wal, wal_intact>> /\ phase' = "idle"
  BY DEF Start
<1>3. LogEvents' = LogEvents
  BY <1>2 DEF LogEvents, LogLines
<1>4. PICK s : s = IF Recoverable THEN RecoverEvents ELSE <<>>
  OBVIOUS
<1>5. /\ s \in Seq(Event) /\ Distinct(s)
      /\ \A i, j \in DOMAIN s : i < j => s[i].seq_id <= s[j].seq_id
  <2>1. CASE Recoverable
    BY <1>1, <1>4, <2>1, Recovered
  <2>2. CASE ~Recoverable
    BY <1>4, <2>2, EmptyIsSeq DEF Distinct
  <2>3. QED
    BY <2>1, <2>2
<1>6. PICK ring, index : ring = StoreAll(s).events /\ index = StoreAll(s).event_index
  OBVIOUS
<1>7. /\ StoreOK(ring, index)
      /\ Range(ring) \subseteq Range(s)
      /\ Ascends(s) => \A x \in Range(s) : Covers(ring, x)
  BY <1>5, <1>6, AllStored
<1>8. events' = ring /\ event_index' = index /\ next_seq_id' = LatestSeqId(index) + 1
  BY <1>4, <1>6 DEF Start
<1>9. LatestSeqId(index) \in Nat /\ \A e \in Range(ring) : e.seq_id <= LatestSeqId(index)
  BY <1>7, LatestIsLargest
<1>10. Range(ring) \subseteq Event /\ Len(ring) \in Nat /\ DOMAIN ring = 1..Len(ring)
  BY <1>7, SeqIsSeq DEF StoreOK
<1>11. \A d \in Event : d.seq_id \in Nat
  BY DEF Event
<1>12. RingInv'
  <2>1. \A e \in Range(ring) : e.seq_id < LatestSeqId(index) + 1
    BY <1>9, <1>10, <1>11
  <2>2. LatestSeqId(index) + 1 \in Nat \ {0}
    BY <1>9
  <2>3. QED
    BY <1>7, <1>8, <2>1, <2>2 DEF RingInv
<1>13. ServedInv'
  <2> SUFFICES ASSUME wal_intact, NEW x \in LogEvents PROVE Served(x)'
    BY <1>2, <1>3 DEF ServedInv
  <2>1. IdsInOrder(wal)
    BY DEF LogInv
  <2>2. Recoverable
    BY <2>1, LogLinesOf DEF IdsInOrder, Recoverable
  <2>3. s = RecoverEvents
    BY <1>4, <2>2
  <2>4. Range(s) = LogEvents /\ Ascends(s)
    BY <1>1, <2>1, <2>2, <2>3, Recovered
  <2>5. Covers(ring, x)
    BY <1>7, <2>4
  <2>6. \A d \in Range(ring) : d.seq_id = x.seq_id => d = x
    BY <1>1, <1>7, <2>1, <2>4, IdsDiffer
  <2>7. x \in Event
    BY <1>5, <2>4, SeqIsSeq
  <2>8. x.seq_id < LatestSeqId(index) + 1
    <3>1. CASE x \in Range(ring)
      BY <1>9, <1>11, <2>7, <3>1
    <3>2. CASE Len(ring) = EventCapacity /\ \A d \in Range(ring) : d.seq_id > x.seq_id
      <4>1. 1 \in DOMAIN ring
        BY <1>10, <3>2, WriterAssumption
      <4>2. ring[1] \in Range(ring)
        BY <4>1 DEF Range
      <4>3. PICK d \in Range(ring) : d = ring[1]
        BY <4>2
      <4>4. d.seq_id > x.seq_id /\ d.seq_id <= LatestSeqId(index) /\ d.seq_id \in Nat
        BY <1>9, <1>10, <1>11, <3>2
      <4>5. QED
        BY <1>9, <1>11, <2>7, <4>4
    <3>3. QED
      BY <2>5, <3>1, <3>2 DEF Covers
  <2>9. QED
    BY <1>8, <2>5, <2>6, <2>8 DEF Served, Covers
<1>14. QED
  BY <1>12, <1>13

\* An empty store.
LEMMA EmptyRing ==
    ASSUME events = <<>>, event_index = <<>>, next_seq_id = 1
    PROVE  RingInv
BY EmptyIsSeq, EmptySeq, WriterAssumption DEF RingInv, StoreOK, Sorted, Distinct

\* LogInv, RingInv and ServedInv are inductive relative to the order of delivery.
LEMMA StepKeepsServed ==
    ASSUME DeliveryOrder, DeliveryOrder', LogAccounted, LogInv, RingInv, ServedInv, [Next]_vars
    PROVE  LogInv' /\ RingInv' /\ ServedInv'
<1> DEFINE LogSame == UNCHANGED <<wal, wal_intact>>
           MemorySame == UNCHANGED <<events, event_index, next_seq_id>>
<1>1. ASSUME LogSame PROVE LogEvents' = LogEvents
  BY <1>1 DEF LogEvents, LogLines
<1>2. ASSUME LogSame, Waiting' \subseteq Waiting, accepted' = accepted PROVE LogInv'
  BY <1>1, <1>2 DEF LogInv
<1>3. ASSUME MemorySame PROVE RingInv'
  BY <1>3 DEF RingInv
<1>4. ASSUME LogSame, MemorySame, phase' # "down" => phase # "down" PROVE ServedInv'
  <2>1. LogEvents' = LogEvents
    BY <1>1, <1>4
  <2>2. QED
    BY <1>4, <2>1 DEF ServedInv, Served, Covers
<1>5. ASSUME LoseMemory PROVE RingInv' /\ ServedInv' /\ Waiting' = {} /\ accepted' = accepted
  <2>1. /\ events' = <<>> /\ event_index' = <<>> /\ next_seq_id' = 1
        /\ phase' = "down" /\ queue' = <<>> /\ accepted' = accepted
    BY <1>5 DEF LoseMemory
  <2>2. RingInv'
    BY <2>1, EmptyIsSeq, EmptySeq, WriterAssumption DEF RingInv, StoreOK, Sorted, Distinct
  <2>3. QED
    BY <2>1, <2>2, EmptyIsSeq DEF ServedInv, Waiting
<1>6. CASE Start
  <2>1. LogSame /\ UNCHANGED <<queue, accepted>>
    BY <1>6 DEF Start
  <2>2. LogInv'
    BY <1>2, <2>1 DEF Waiting
  <2>3. QED
    BY <1>6, <2>2, StartServes
<1>7. CASE EnqueueEvent
  <2>1. /\ LogSame /\ MemorySame /\ UNCHANGED phase
        /\ accepted < MaxEvents /\ accepted' = accepted + 1
        /\ queue' = Append(queue, accepted + 1)
    BY <1>7 DEF EnqueueEvent, memory_vars
  <2>2. accepted \in Nat /\ MaxEvents \in Nat /\ IsSeq(queue)
    BY WriterAssumption, SeqIsSeq DEF DeliveryOrder
  <2>3. Range(queue') = Range(queue) \cup {accepted + 1}
    BY <2>1, <2>2, AppendIsSeq
  <2>4. Waiting' \subseteq Waiting \cup {accepted + 1}
    BY <2>3 DEF Waiting
  <2>5. LogEvents' = LogEvents
    BY <1>1, <2>1
  <2>6. \A e \in LogEvents : e.payload \in Nat
    <3>1. \A line \in LogLines : line.event \in Event \cup {None}
      BY LogLinesOf DEF LogInv, RecordsInOrder
    <3>2. QED
      BY <3>1 DEF LogEvents, Event
  <2>7. \A e \in LogEvents : e.payload <= accepted + 1 /\ e.payload < accepted + 1
    BY <2>2, <2>6 DEF LogInv
  <2>8. LogInv'
    BY <2>1, <2>2, <2>4, <2>5, <2>7 DEF LogInv
  <2>9. QED
    BY <1>3, <1>4, <2>1, <2>8
<1>8. CASE EnqueueUpsert
  <2>1. /\ LogSame /\ MemorySame /\ UNCHANGED <<phase, accepted>>
        /\ queue' = Append(queue, Upsert)
    BY <1>8 DEF EnqueueUpsert, memory_vars
  <2>2. IsSeq(queue)
    BY SeqIsSeq DEF DeliveryOrder
  <2>3. Range(queue') = Range(queue) \cup {Upsert}
    BY <2>1, <2>2, AppendIsSeq
  <2>4. Waiting' \subseteq Waiting
    BY <2>3 DEF Waiting
  <2>5. QED
    BY <1>2, <1>3, <1>4, <2>1, <2>4
<1>9. CASE \/ Close \/ Tick \/ Finish \/ FlushSucceeds \/ FlushFails \/ ClearFails \/ Sink
           \/ UNCHANGED vars
  <2>1. /\ LogSame /\ MemorySame /\ UNCHANGED <<queue, accepted>>
    BY <1>9 DEF Close, Tick, Finish, BeginFlush, FlushSucceeds, FlushFails, ClearFails, Sink,
                LateInsert, vars, memory_vars
  <2>2. phase' # "down" => phase # "down"
    BY <1>9 DEF Close, Tick, Finish, BeginFlush, FlushSucceeds, FlushFails, ClearFails, Sink,
                LateInsert, vars
  <2>3. Waiting' = Waiting
    BY <2>1 DEF Waiting
  <2>4. QED
    BY <1>2, <1>3, <1>4, <2>1, <2>2, <2>3
<1>10. CASE \E outcome \in AppendOutcomes : ApplyEvent(outcome)
  BY <1>10, ApplyKeepsServed
<1>11. CASE ApplyUpsert
  <2>1. /\ LogSame /\ MemorySame /\ UNCHANGED <<phase, accepted>>
        /\ queue # <<>> /\ queue' = Tail(queue)
    BY <1>11 DEF ApplyUpsert, memory_vars
  <2>2. Waiting' \subseteq Waiting
    BY <2>1, HeadOfQueue DEF Waiting
  <2>3. QED
    BY <1>2, <1>3, <1>4, <2>1, <2>2
<1>12. CASE ClearSegment
  <2>1. /\ MemorySame /\ UNCHANGED <<phase, queue, accepted, wal_intact>>
        /\ wal # <<>> /\ wal' = Tail(wal)
    BY <1>12 DEF ClearSegment, memory_vars
  <2>2. PICK rest : rest = Tail(wal)
    OBVIOUS
  <2>3. RecordsInOrder(rest) /\ (IdsInOrder(wal) => IdsInOrder(rest))
    BY <2>1, <2>2, TailInOrder DEF LogInv, LogAccounted
  <2>4. LogEvents' \subseteq LogEvents
    <3>1. IsSeq(wal)
      BY DEF LogAccounted, IsLog
    <3>2. /\ Len(wal) \in Nat /\ DOMAIN wal = 1..Len(wal) /\ DOMAIN rest = 1..(Len(wal) - 1)
          /\ \A i \in 1..(Len(wal) - 1) : rest[i] = wal[i + 1]
      BY <2>1, <2>2, <3>1, TailIsSeq
    <3>3. \A i \in DOMAIN rest : i + 1 \in DOMAIN wal /\ rest[i] = wal[i + 1]
      BY <3>2
    <3>4. LinesOf(rest) \subseteq LinesOf(wal)
      BY <3>3 DEF LinesOf
    <3>5. LogLines' = LinesOf(rest)
      BY <2>1, <2>2 DEF LogLines, LinesOf
    <3>6. QED
      BY <3>4, <3>5, LogLinesOf DEF LogEvents
  <2>5. Waiting' = Waiting
    BY <2>1 DEF Waiting
  <2>6. RecordsInOrder(wal') /\ (wal_intact' => IdsInOrder(wal'))
    BY <2>1, <2>2, <2>3 DEF LogInv
  <2>7. LogInv'
    BY <2>1, <2>4, <2>5, <2>6 DEF LogInv
  <2>8. ServedInv'
    BY <2>1, <2>4 DEF ServedInv, Served, Covers
  <2>9. QED
    BY <1>3, <2>1, <2>7, <2>8
<1>13. CASE ClearDone
  <2>1. MemorySame /\ UNCHANGED <<queue, accepted, wal>> /\ wal = <<>>
    BY <1>13 DEF ClearDone, memory_vars
  <2>2. LinesOf(<<>>) = {} /\ Places(<<>>) = {}
    BY EmptyIsSeq DEF LinesOf, Places
  <2>3. RecordsInOrder(<<>>) /\ IdsInOrder(<<>>)
    BY <2>2 DEF RecordsInOrder, IdsInOrder
  <2>4. LogEvents' = {}
    BY <2>1, <2>2 DEF LogEvents, LogLines, LinesOf
  <2>5. RecordsInOrder(wal') /\ IdsInOrder(wal')
    BY <2>1, <2>3
  <2>6. QED
    BY <1>3, <2>1, <2>4, <2>5 DEF LogInv, ServedInv
<1>14. CASE Crash \/ Exit
  <2>1. LoseMemory /\ LogSame
    BY <1>14 DEF Crash, Exit
  <2>2. RingInv' /\ ServedInv' /\ Waiting' = {} /\ accepted' = accepted
    BY <1>5, <2>1
  <2>3. QED
    BY <1>2, <2>1, <2>2
<1>15. CASE \E outcome \in {"complete", "unterminated", "torn"} : CrashInAppend(outcome)
  <2>1. PICK outcome \in {"complete", "unterminated", "torn"} : CrashInAppend(outcome)
    BY <1>15
  <2>2. /\ phase = "idle" /\ queue # <<>> /\ Head(queue) # Upsert /\ LoseMemory
        /\ wal' \in LogsAfter(NextEvent, outcome)
        /\ wal_intact' = (wal_intact /\ outcome = "complete")
    BY <2>1 DEF CrashInAppend
  <2>3. queue' = <<>> /\ UNCHANGED accepted
    BY <2>2 DEF LoseMemory
  <2>4. LogInv'
    BY <2>2, <2>3, AppendKeepsLogInv
  <2>5. QED
    BY <1>5, <2>2, <2>4
<1>16. QED
  BY <1>6, <1>7, <1>8, <1>9, <1>10, <1>11, <1>12, <1>13, <1>14, <1>15
     DEF Next, Producers, Writer, Process

\* The log and what is served of it stay in order.
THEOREM LogServed == Spec => [](LogAccounted /\ LogInv /\ RingInv /\ ServedInv)
<1>1. Init => LogAccounted /\ LogInv /\ RingInv /\ ServedInv
  <2> SUFFICES ASSUME Init PROVE LogAccounted /\ LogInv /\ RingInv /\ ServedInv
    OBVIOUS
  <2>1. /\ wal = <<>> /\ phase = "down" /\ accepted = 0 /\ events = <<>> /\ event_index = <<>>
        /\ next_seq_id = 1
    BY DEF Init
  <2>2. IsLog(<<>>) /\ LinesOf(<<>>) = {} /\ Places(<<>>) = {}
    BY EmptyIsSeq DEF IsLog, LinesOf, Places
  <2>3. LogLines = {} /\ LogEvents = {}
    BY <2>1, <2>2, LogLinesOf DEF LogEvents
  <2>4. RecordsInOrder(wal) /\ IdsInOrder(wal)
    BY <2>1, <2>2 DEF RecordsInOrder, IdsInOrder
  <2>5. LogAccounted
    BY <2>1, <2>2, <2>3 DEF LogAccounted
  <2>6. LogInv /\ ServedInv
    BY <2>1, <2>3, <2>4, WriterAssumption DEF LogInv, ServedInv
  <2>7. QED
    BY <2>1, <2>5, <2>6, EmptyRing
<1>2. Stages /\ DeliveryOrder /\ UnansweredApart /\ DeliveryOrder'
      /\ LogAccounted /\ LogInv /\ RingInv /\ ServedInv /\ [Next]_vars
      => (LogAccounted /\ LogInv /\ RingInv /\ ServedInv)'
  BY StepKeepsLog, StepKeepsServed
<1>3. QED
  BY <1>1, <1>2, DeliveryOrdered, PTL DEF Spec

\* The numbering stays ahead of every event that memory or an intact log holds.
THEOREM NumberingIsAhead == Spec => []IdsAhead
<1>1. LogAccounted /\ LogInv /\ RingInv /\ ServedInv => IdsAhead
  <2> SUFFICES ASSUME LogAccounted, LogInv, RingInv, ServedInv PROVE IdsAhead
    OBVIOUS
  <2>1. wal_intact => \A d, e \in LogEvents : d.seq_id = e.seq_id => d = e
    BY IdsDiffer DEF LogAccounted, LogInv
  <2>2. QED
    BY <2>1 DEF IdsAhead, RingInv, ServedInv, Served
<1>2. QED
  BY <1>1, LogServed, PTL

\* A sequence without repetitions has as many elements as places.
LEMMA DistinctCounted ==
    ASSUME NEW S, NEW s \in Seq(S), Distinct(s)
    PROVE  Cardinality(Range(s)) = Len(s)
<1>1. Len(s) \in Nat /\ DOMAIN s = 1..Len(s) /\ s \in [1..Len(s) -> Range(s)]
  BY LenProperties DEF Range
<1>2. s \in Bijection(1..Len(s), Range(s))
  BY <1>1 DEF Bijection, Injection, IsInjective, Surjection, Range, Distinct
<1>3. IsFiniteSet(1..Len(s)) /\ Cardinality(1..Len(s)) = Len(s)
  BY <1>1, FS_Interval
<1>4. ExistsBijection(1..Len(s), Range(s))
  BY <1>2 DEF ExistsBijection
<1>5. QED
  BY <1>3, <1>4, FS_Bijection

\* A running process serves every event of an intact log from memory, or holds a full
\* ring of younger ones; ring and index agree always.
THEOREM LogIsServed == Spec => []ReadModelCoversLog
<1>1. LogAccounted /\ LogInv /\ RingInv /\ ServedInv => ReadModelCoversLog
  <2> SUFFICES ASSUME RingInv, ServedInv PROVE ReadModelCoversLog
    OBVIOUS
  <2>1. /\ events \in Seq(Event) /\ event_index \in Seq(Event)
        /\ Len(event_index) = Len(events) /\ Range(event_index) = Range(events)
        /\ Sorted(event_index) /\ Distinct(events)
    BY DEF RingInv, StoreOK
  <2>2. Len(event_index) \in Nat /\ DOMAIN event_index = 1..Len(event_index)
    BY <2>1, LenProperties
  <2>3. \A i \in 1..(Len(event_index) - 1) : ~Before(event_index[i + 1], event_index[i])
    BY <2>1, <2>2 DEF Sorted
  <2>4. IndexIsSortedRing
    BY <2>1, <2>3 DEF IndexIsSortedRing
  <2>5. ASSUME wal_intact, phase # "down", NEW e \in LogEvents, e \notin Range(event_index)
        PROVE  Cardinality({d \in Range(event_index) : d.seq_id > e.seq_id}) = EventCapacity
    <3>1. Len(events) = EventCapacity /\ \A d \in Range(events) : d.seq_id > e.seq_id
      BY <2>1, <2>5 DEF ServedInv, Served, Covers
    <3>2. {d \in Range(event_index) : d.seq_id > e.seq_id} = Range(events)
      BY <2>1, <3>1
    <3>3. Cardinality(Range(events)) = Len(events)
      BY <2>1, DistinctCounted
    <3>4. QED
      BY <3>1, <3>2, <3>3
  <2>6. QED
    BY <2>4, <2>5 DEF ReadModelCoversLog
<1>2. QED
  BY <1>1, LogServed, PTL

============================================================================
