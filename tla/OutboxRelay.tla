------------------------------ MODULE OutboxRelay ------------------------------
(***************************************************************************)
(* The transactional outbox and its dispatchers, several replicas of which *)
(* share one table: internal/platform/outbox/dispatcher.go.  The broker    *)
(* topic is one partition, a sequence of what the dispatchers published.   *)
(* An event is its sequence number; its aggregate is the partition key.    *)
(***************************************************************************)
EXTENDS Naturals, Sequences, FiniteSets

CONSTANTS
    Dispatchers,    \* replicas that run a dispatcher on the table
    Aggregates,     \* aggregate ids
    MaxEvents,      \* bound: rows the table ever holds
    MaxTopic        \* bound: records the partition ever holds

ASSUME RelayAssumption == MaxEvents \in Nat /\ MaxTopic \in Nat

\* "held" has processing_at set less than a minute ago, "waiting" has available_at
\* in the future, "published" has published_at set.
RowStatuses == {"free", "held", "waiting", "published"}

VARIABLES
    outbox,     \* rows by sequence number: the aggregate and the row's status
    topic,      \* sequence numbers in the order of their offsets
    batch,      \* events each dispatcher has claimed and not dealt with yet
    step        \* what it does with the first of them

relayVars == <<outbox, topic, batch, step>>

Events == 1..Len(outbox)
Published(e) == outbox[e].status = "published"

RelayInit ==
    /\ outbox = <<>> /\ topic = <<>>
    /\ batch = [d \in Dispatchers |-> {}]
    /\ step = [d \in Dispatchers |-> "publish"]

First(d) == CHOOSE e \in batch[d] : \A f \in batch[d] : e <= f

\* The row is part of the transaction that changes its aggregate.
WriteEvent(a) ==
    /\ Len(outbox) < MaxEvents
    /\ outbox' = Append(outbox, [aggregate |-> a, status |-> "free"])

\* Mutation: a later event does not wait for its predecessor.
ClaimableAnyOrder == {e \in Events : outbox[e].status = "free"}

Claimable ==
    {e \in Events :
        /\ outbox[e].status = "free"
        /\ \A p \in 1..(e - 1) : outbox[p].aggregate = outbox[e].aggregate => Published(p)}

\* processing_at is a lease of one minute.
Claim(d) ==
    /\ batch[d] = {} /\ Claimable # {}
    /\ batch' = [batch EXCEPT ![d] = Claimable]
    /\ outbox' = [e \in Events |-> IF e \in Claimable THEN [outbox[e] EXCEPT !.status = "held"] ELSE outbox[e]]
    /\ UNCHANGED <<topic, step>>

\* The publication takes up to ten seconds; an error may come after the broker
\* has stored the record.
Publish(d) ==
    /\ batch[d] # {} /\ step[d] = "publish"
    /\ \/ /\ Len(topic) < MaxTopic
          /\ topic' = Append(topic, First(d))
          /\ \E next \in {"mark", "release"} : step' = [step EXCEPT ![d] = next]
       \/ step' = [step EXCEPT ![d] = "release"] /\ UNCHANGED topic
    /\ UNCHANGED <<outbox, batch>>

Proceed(d) ==
    /\ batch' = [batch EXCEPT ![d] = @ \ {First(d)}]
    /\ step' = [step EXCEPT ![d] = "publish"]
    /\ UNCHANGED topic

\* Both updates name the row by its id only, whoever holds the lease by now; a
\* failed update is logged and leaves the row as it was.
MarkPublished(d) ==
    /\ batch[d] # {} /\ step[d] = "mark"
    /\ \/ outbox' = [outbox EXCEPT ![First(d)].status = "published"]
       \/ UNCHANGED outbox
    /\ Proceed(d)

\* Mutation: a failed publication is marked as published all the same.
MarkFailed(d) ==
    /\ batch[d] # {} /\ step[d] = "release"
    /\ outbox' = [outbox EXCEPT ![First(d)].status = "published"]
    /\ Proceed(d)

ReleaseWithError(d) ==
    /\ batch[d] # {} /\ step[d] = "release"
    /\ \/ outbox' = [outbox EXCEPT ![First(d)].status = IF Published(First(d)) THEN @ ELSE "waiting"]
       \/ UNCHANGED outbox
    /\ Proceed(d)

\* A replica stops or is killed: what it had claimed waits for its lease to end.
DispatcherStops(d) ==
    /\ batch[d] # {}
    /\ batch' = [batch EXCEPT ![d] = {}]
    /\ step' = [step EXCEPT ![d] = "publish"]
    /\ UNCHANGED <<outbox, topic>>

\* A minute has passed since the claim, however far its holder has come, or
\* available_at is reached after the backoff.
Waited(e) ==
    /\ outbox[e].status \in {"held", "waiting"}
    /\ outbox' = [outbox EXCEPT ![e].status = "free"]
    /\ UNCHANGED <<topic, batch, step>>

Dispatch(d) == Claim(d) \/ Publish(d) \/ MarkPublished(d) \/ ReleaseWithError(d)

RelayNext ==
    \/ \E d \in Dispatchers : Dispatch(d) \/ DispatcherStops(d)
    \/ \E e \in Events : Waited(e)

-----------------------------------------------------------------------------
Offsets(e) == {i \in 1..Len(topic) : topic[i] = e}

\* No event is lost: a row that is marked published is in the topic, whichever of
\* two dispatchers with the same row failed or was late.
PublishedIsInTopic == \A e \in Events : Published(e) => Offsets(e) # {}

\* Several replicas and retries never let a later event of an aggregate overtake
\* an earlier one: it comes into the topic only after the earlier one has.
NoOvertaking ==
    \A i \in 1..Len(topic) : \A e \in 1..(topic[i] - 1) :
        outbox[e].aggregate = outbox[topic[i]].aggregate => \E j \in Offsets(e) : j < i
=============================================================================
