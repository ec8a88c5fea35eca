------------------------------ MODULE CatalogFeed ------------------------------
(***************************************************************************)
(* Catalog events from the Book Service's transactions through the outbox  *)
(* and Kafka to the Search Service's index: writeCatalogEvent in           *)
(* internal/book/adapter/postgres/repository.go, the consumer loop in      *)
(* internal/messaging/kafka/consumer.go, internal/search.                  *)
(***************************************************************************)
EXTENDS OutboxRelay

VARIABLES
    shelf,          \* revision of each catalog.books row, 0 when there is none
    feed,           \* payload of each event: revision, version, deleted
    index,          \* the document of each book and the version it was written with
    position,       \* next offset the consumer polls
    committed,      \* next offset after a restart
    forgotten,      \* books whose deletion the index no longer remembers (history)
    processed, dead \* offsets handled and offsets set aside (history)

feedVars == <<shelf, feed, index, position, committed, forgotten, processed, dead>>
catalogVars == <<relayVars, feedVars>>

NoDocument == [rev |-> 0, version |-> 0, present |-> FALSE]

CatalogInit ==
    /\ RelayInit
    /\ shelf = [a \in Aggregates |-> 0]
    /\ feed = <<>>
    /\ index = [a \in Aggregates |-> NoDocument]
    /\ position = 1 /\ committed = 1
    /\ forgotten = {} /\ processed = {} /\ dead = {}

\* The version is the clock, which the request read before it waited for the row:
\* it may lie just before the version of any event that was committed meanwhile.
Versions(a) ==
    {2 * (Len(outbox) + 1)}
        \cup {v \in {2 * e - 1 : e \in {f \in Events : outbox[f].aggregate = a}} :
                  \A e \in Events : feed[e].version # v}

\* Create, Update, ReserveStock, ReleaseStock and Delete: the row and its event in
\* one transaction, which holds the row lock.  The id of a deleted book never
\* comes back.
Mutate(a, deleted) ==
    /\ deleted => shelf[a] > 0
    /\ \A e \in Events : outbox[e].aggregate = a => ~feed[e].deleted
    /\ WriteEvent(a)
    /\ \E version \in Versions(a) :
        feed' = Append(feed, [rev |-> Len(outbox) + 1, version |-> version, deleted |-> deleted])
    /\ shelf' = [shelf EXCEPT ![a] = IF deleted THEN 0 ELSE Len(outbox) + 1]
    /\ UNCHANGED <<topic, batch, step, index, position, committed, forgotten, processed, dead>>

Record == feed[topic[position]]
Book == outbox[topic[position]].aggregate

\* Mutation: the document is written whatever its version.
AcceptsAny(a, version) == TRUE

\* version_type external_gte; a deleted document keeps its version.
Accepts(a, version) == version >= index[a].version

\* ApplyCatalogEvent within handleWithRetry succeeds, and the offset is committed;
\* the commit may fail.
Process ==
    /\ position <= Len(topic)
    /\ Accepts(Book, Record.version)
    /\ index' = [index EXCEPT ![Book] =
           [rev |-> Record.rev, version |-> Record.version, present |-> ~Record.deleted]]
    /\ processed' = processed \cup {position}
    /\ committed' \in {committed, position + 1}
    /\ position' = position + 1
    /\ UNCHANGED <<shelf, feed, forgotten, dead, relayVars>>

\* All attempts failed, because the index is unreachable or has a newer version
\* (status 409): the record goes to the dead-letter topic and is committed.
SetAside ==
    /\ position <= Len(topic)
    /\ dead' = dead \cup {position}
    /\ committed' \in {committed, position + 1}
    /\ position' = position + 1
    /\ UNCHANGED <<shelf, feed, index, forgotten, processed, relayVars>>

\* The dead-letter topic is unreachable too: the loop returns to PollRecords
\* without a commit, and polls the next record.
DeadLetterFails ==
    /\ position <= Len(topic)
    /\ position' = position + 1
    /\ UNCHANGED <<shelf, feed, index, committed, forgotten, processed, dead, relayVars>>

\* Mutation: a restart ignores the committed offset.
RestartFromStart ==
    /\ position # committed
    /\ position' = 1
    /\ UNCHANGED <<shelf, feed, index, committed, forgotten, processed, dead, relayVars>>

\* A restart or a rebalance continues from the committed offset.
Restart ==
    /\ position # committed
    /\ position' = committed
    /\ UNCHANGED <<shelf, feed, index, committed, forgotten, processed, dead, relayVars>>

\* Elasticsearch keeps the version of a deleted document for a minute
\* (index.gc_deletes, which the index leaves at its default).
ForgetDeletion(a) ==
    /\ ~index[a].present /\ index[a] # NoDocument
    /\ index' = [index EXCEPT ![a] = NoDocument]
    /\ forgotten' = forgotten \cup {a}
    /\ UNCHANGED <<shelf, feed, position, committed, processed, dead, relayVars>>

Consume == Process \/ SetAside \/ DeadLetterFails

CatalogNext ==
    \/ \E a \in Aggregates, deleted \in BOOLEAN : Mutate(a, deleted)
    \/ RelayNext /\ UNCHANGED feedVars
    \/ Consume
    \/ Restart
    \/ \E a \in Aggregates : ForgetDeletion(a)

CatalogSpec == CatalogInit /\ [][CatalogNext]_catalogVars

-----------------------------------------------------------------------------
\* Type invariant of the outbox, the topic, the consumer and the index.
CatalogTypeOK ==
    /\ \A e \in Events : outbox[e] \in
           [aggregate: Aggregates, status: RowStatuses]
    /\ Len(feed) = Len(outbox)
    /\ topic \in Seq(Events)
    /\ batch \in [Dispatchers -> SUBSET Events]
    /\ step \in [Dispatchers -> {"publish", "mark", "release"}]
    /\ position \in 1..(Len(topic) + 1) /\ committed \in 1..position
    /\ processed \subseteq 1..(position - 1) \cup 1..Len(topic)
    /\ \A a \in Aggregates : index[a].rev \in 0..MaxEvents

\* Offsets are committed only after the record was processed or set aside.
CommittedIsProcessed == \A i \in 1..(committed - 1) : i \in processed \cup dead

\* A replayed or late record never overwrites a newer document: whatever was
\* processed, the document is at least as new, by version, as the record, except
\* that a deletion forgotten by the index gives way to a late copy of a change.
IndexKeepsUp ==
    \A i \in {j \in processed : outbox[topic[j]].aggregate \notin forgotten} :
        index[outbox[topic[i]].aggregate].version >= feed[topic[i]].version

\* Once everything is published and polled, search shows the catalogue of every
\* book whose newest event was processed, whose versions follow its commits and
\* whose deletion is not forgotten, however records were repeated or set aside.
SearchShowsCatalog ==
    LET Of(a) == {e \in Events : outbox[e].aggregate = a}
        Newest(a) == {e \in Of(a) : \A f \in Of(a) : f <= e}
        InClockOrder(a) == \A e, f \in Of(a) : e < f => feed[e].version < feed[f].version IN
    (committed = Len(topic) + 1 /\ \A e \in Events : Published(e)) =>
        \A a \in {b \in Aggregates \ forgotten : InClockOrder(b)} : \A e \in Newest(a) :
            \/ Offsets(e) \cap processed = {}
            \/ index[a].rev = e /\ index[a].present = (shelf[a] > 0)
=============================================================================
