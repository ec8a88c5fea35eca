------------------------------ MODULE EventProofs ------------------------------
(***************************************************************************)
(* The outbox and what two of its consumers make of it, for any number of  *)
(* dispatchers, aggregates, events and records: no event is lost or        *)
(* overtaken, and no replayed record overwrites a newer document.          *)
(***************************************************************************)
EXTENDS CatalogFeed, ProfileSync, FiniteSetTheorems, WellFoundedInduction, TLAPS

Row == [aggregate: Aggregates, status: RowStatuses]

RelayTypeOK ==
    /\ outbox \in Seq(Row)
    /\ topic \in Seq(Events)
    /\ batch \in [Dispatchers -> SUBSET Events]
    /\ step \in [Dispatchers -> {"publish", "mark", "release"}]

InTopic(e) == \E i \in 1..Len(topic) : topic[i] = e
Earlier(e) == {p \in 1..(e - 1) : outbox[p].aggregate = outbox[e].aggregate}

\* Whatever a dispatcher has claimed, its predecessors are published for good;
\* what it is about to mark, it has published; with nothing claimed it marks nothing.
ClaimsFollow ==
    \A d \in Dispatchers :
        /\ \A e \in batch[d] : \A p \in Earlier(e) : Published(p)
        /\ batch[d] = {} => step[d] = "publish"
        /\ batch[d] # {} /\ step[d] = "mark" => InTopic(First(d))

PublishedIn == \A e \in Events : Published(e) => InTopic(e)

InOrder ==
    \A i \in 1..Len(topic) : \A e \in Earlier(topic[i]) : \E j \in 1..(i - 1) : topic[j] = e

RelayInv == RelayTypeOK /\ ClaimsFollow /\ PublishedIn /\ InOrder

-----------------------------------------------------------------------------
(* A set of natural numbers up to n that is not empty has a smallest one:  *)
(* its part up to k is smallest, among such parts, for the smallest k.     *)
LEMMA SmallestOf ==
    ASSUME NEW n \in Nat, NEW S \in SUBSET (1..n), S # {}
    PROVE  \E e \in S : \A f \in S : e <= f
<1> DEFINE Upto(k) == S \cap (1..k)
           Parts == {Upto(k) : k \in S}
<1>1. IsFiniteSet(1..n)
    BY FS_Interval
<1>0. IsFiniteSet(S)
    BY <1>1, FS_Subset
<1>2. IsWellFoundedOn(StrictSubsetOrdering(S), SUBSET S)
    BY <1>0, FS_StrictSubsetOrderingWellFounded, FS_FiniteSubsetsOfFinite
<1>3. Parts \subseteq SUBSET S /\ Parts # {}
    OBVIOUS
<1> HIDE DEF Parts
<1>4. PICK P \in Parts : \A Q \in Parts : ~(<<Q, P>> \in StrictSubsetOrdering(S))
    BY <1>2, <1>3, WFMin
<1>5. PICK e \in S : P = Upto(e)
    BY DEF Parts
<1>6. ASSUME NEW f \in S, ~(e <= f)
      PROVE  FALSE
    <2>1. Upto(f) \in Parts /\ Upto(f) \subseteq Upto(e) /\ e \in Upto(e) /\ e \notin Upto(f)
        BY <1>6 DEF Parts
    <2>2. <<Upto(f), Upto(e)>> \in StrictSubsetOrdering(S)
        BY <2>1 DEF StrictSubsetOrdering
    <2> QED
        BY <1>4, <1>5, <2>1, <2>2
<1> QED
    BY <1>6

(* A dispatcher with a batch works on an event of the batch.               *)
LEMMA FirstInBatch ==
    ASSUME RelayTypeOK, NEW d \in Dispatchers, batch[d] # {}
    PROVE  First(d) \in batch[d] /\ First(d) \in Events
<1>1. Len(outbox) \in Nat /\ batch[d] \in SUBSET (1..Len(outbox))
    BY DEF RelayTypeOK, Events
<1>2. \E e \in batch[d] : \A f \in batch[d] : e <= f
    BY <1>1, SmallestOf
<1> QED
    BY <1>1, <1>2 DEF First, Events

-----------------------------------------------------------------------------
\* Rows are added and change their status only, and never back from "published".
RowsGrow ==
    /\ outbox' \in Seq(Row) /\ Len(outbox) <= Len(outbox')
    /\ \A e \in Events : /\ outbox'[e].aggregate = outbox[e].aggregate
                         /\ Published(e) => outbox'[e].status = "published"

\* A step of the dispatchers: it adds no row, and records only at the end.
DispatcherStep ==
    /\ RowsGrow /\ Len(outbox') = Len(outbox)
    /\ Len(topic) <= Len(topic') /\ \A i \in 1..Len(topic) : topic'[i] = topic[i]

(* A change of one row's status.                                           *)
LEMMA StatusWrite ==
    ASSUME RelayTypeOK, NEW e \in Events, NEW s \in RowStatuses,
           outbox' = [outbox EXCEPT ![e].status = s]
    PROVE  /\ outbox' \in Seq(Row) /\ Len(outbox') = Len(outbox)
           /\ outbox'[e] = [aggregate |-> outbox[e].aggregate, status |-> s]
           /\ \A f \in Events : /\ outbox'[f].aggregate = outbox[f].aggregate
                                /\ f # e => outbox'[f] = outbox[f]
<1>1. Len(outbox) \in Nat /\ e \in 1..Len(outbox) /\ outbox[e] \in Row
    BY DEF RelayTypeOK, Events
<1>2. /\ [outbox[e] EXCEPT !.status = s] \in Row
      /\ [outbox[e] EXCEPT !.status = s] = [aggregate |-> outbox[e].aggregate, status |-> s]
    BY <1>1 DEF Row
<1>3. outbox' = [outbox EXCEPT ![e] = [outbox[e] EXCEPT !.status = s]]
    OBVIOUS
<1>4. outbox' \in Seq(Row) /\ Len(outbox') = Len(outbox)
    BY <1>1, <1>2, <1>3 DEF RelayTypeOK
<1>5. outbox'[e] = [outbox[e] EXCEPT !.status = s]
      /\ \A f \in Events : f # e => outbox'[f] = outbox[f]
    BY <1>1, <1>3 DEF RelayTypeOK, Events
<1>6. \A f \in Events : outbox'[f].aggregate = outbox[f].aggregate
    <2> SUFFICES ASSUME NEW f \in Events PROVE outbox'[f].aggregate = outbox[f].aggregate
        OBVIOUS
    <2>1. CASE f = e
        BY <1>2, <1>5, <2>1
    <2>2. CASE f # e
        BY <1>5, <2>2
    <2> QED
        BY <2>1, <2>2
<1> QED
    BY <1>2, <1>4, <1>5, <1>6

(* When rows only grow and what is in the topic stays, the order of the    *)
(* earlier records is as it was.                                           *)
LEMMA EarlierStays ==
    ASSUME RelayTypeOK, RowsGrow, NEW e \in Events
    PROVE  Earlier(e)' = Earlier(e) /\ Earlier(e) \subseteq Events /\ e \in Events'
<1>1. Len(outbox) \in Nat /\ Len(outbox') \in Nat /\ e \in 1..Len(outbox)
    BY DEF RelayTypeOK, RowsGrow, Events
<1>2. \A p \in 1..(e - 1) : p \in Events
    BY <1>1 DEF Events
<1> QED
    BY <1>1, <1>2 DEF Earlier, RowsGrow, Events

\* What a dispatcher does while the topic stays: nothing, or it takes up or puts
\* down rows whose predecessors are published.
Moves(d) ==
    \/ batch'[d] = batch[d] /\ step'[d] = step[d]
    \/ step'[d] = "publish" /\ \A e \in batch'[d] : \A p \in Earlier(e) : Published(p)

(* A step that adds no record to the topic.                                *)
LEMMA RowStepKeeps ==
    ASSUME RelayInv, RowsGrow, UNCHANGED topic,
           batch' \in [Dispatchers -> SUBSET Events],
           step' \in [Dispatchers -> {"publish", "mark", "release"}],
           \A d \in Dispatchers : Moves(d),
           \A e \in Events' : outbox'[e].status = "published" => e \in Events /\ InTopic(e)
    PROVE  RelayInv'
<1> USE DEF RelayInv
<1>1. Events \subseteq Events'
    BY DEF RelayTypeOK, RowsGrow, Events
<1>2. RelayTypeOK'
    <2>1. topic \in Seq(Events') /\ batch' \in [Dispatchers -> SUBSET Events']
        BY <1>1 DEF RelayTypeOK
    <2> QED
        BY <1>1, <2>1 DEF RelayTypeOK, RowsGrow
<1>3. \A d \in Dispatchers : batch'[d] = batch[d] => First(d)' = First(d)
    BY DEF First
<1>5. \A i \in 1..Len(topic) : topic[i] \in Events
    BY DEF RelayTypeOK
<1>6. ClaimsFollow'
    <2> SUFFICES ASSUME NEW d \in Dispatchers
                 PROVE  /\ \A e \in batch'[d] : \A p \in Earlier(e)' : Published(p)'
                        /\ batch'[d] = {} => step'[d] = "publish"
                        /\ batch'[d] # {} /\ step'[d] = "mark" => InTopic(First(d))'
        BY DEF ClaimsFollow
    <2>1. \A e \in batch'[d] : Earlier(e)' = Earlier(e) /\ Earlier(e) \subseteq Events
        BY EarlierStays
    <2>2. \A e \in batch'[d] : \A p \in Earlier(e) : Published(p)
        BY DEF ClaimsFollow, Moves
    <2>3. \A e \in batch'[d] : \A p \in Earlier(e)' : Published(p)'
        BY <2>1, <2>2 DEF RowsGrow, Published
    <2>4. \A e : InTopic(e)' = InTopic(e)
        BY DEF InTopic
    <2>5. /\ batch'[d] = {} => step'[d] = "publish"
          /\ batch'[d] # {} /\ step'[d] = "mark" => InTopic(First(d))'
        BY <1>3, <2>4 DEF ClaimsFollow, Moves
    <2> QED
        BY <2>3, <2>5
<1>7. PublishedIn'
    BY DEF PublishedIn, Published, InTopic
<1>8. InOrder'
    <2>1. \A i \in 1..Len(topic) : Earlier(topic[i])' = Earlier(topic[i])
        BY <1>5, EarlierStays
    <2> SUFFICES ASSUME NEW i \in 1..Len(topic'), NEW e \in Earlier(topic[i])'
                 PROVE  \E j \in 1..(i - 1) : topic'[j] = e
        BY DEF InOrder
    <2>2. i \in 1..Len(topic) /\ e \in Earlier(topic[i])
        BY <2>1
    <2> QED
        BY <2>2 DEF InOrder
<1> QED
    BY <1>2, <1>6, <1>7, <1>8

(* A new row is neither published nor before any other.                    *)
LEMMA WriteEventKeeps ==
    ASSUME RelayInv, NEW a \in Aggregates, WriteEvent(a), UNCHANGED <<topic, batch, step>>
    PROVE  /\ RelayInv' /\ RowsGrow
           /\ Len(outbox') = Len(outbox) + 1 /\ outbox'[Len(outbox) + 1].aggregate = a
<1>1. outbox \in Seq(Row) /\ Len(outbox) \in Nat
    BY DEF RelayInv, RelayTypeOK
<1>2. [aggregate |-> a, status |-> "free"] \in Row
    BY DEF Row, RowStatuses
<1>3. /\ outbox' \in Seq(Row) /\ Len(outbox') = Len(outbox) + 1
      /\ outbox'[Len(outbox) + 1] = [aggregate |-> a, status |-> "free"]
      /\ \A e \in 1..Len(outbox) : outbox'[e] = outbox[e]
    BY <1>1, <1>2 DEF WriteEvent
<1>4. RowsGrow
    BY <1>1, <1>3 DEF RowsGrow, Events, Published
<1>5. \A e \in Events' : outbox'[e].status = "published" => e \in Events /\ InTopic(e)
    BY <1>1, <1>3 DEF RelayInv, PublishedIn, Published, Events
<1> QED
    BY <1>3, <1>4, <1>5, RowStepKeeps DEF RelayInv, RelayTypeOK, Moves

(* A batch is the rows that are free and whose predecessors are published. *)
LEMMA ClaimKeeps ==
    ASSUME RelayInv, NEW d \in Dispatchers, Claim(d)
    PROVE  RelayInv' /\ DispatcherStep
<1> DEFINE Held(r) == [r EXCEPT !.status = "held"]
<1>1. outbox \in Seq(Row) /\ Len(outbox) \in Nat /\ Claimable \subseteq Events
    BY DEF RelayInv, RelayTypeOK, Claimable
<1>2. \A e \in Events : outbox[e] \in Row
    BY <1>1 DEF Events
<1>3. \A r \in Row : Held(r) \in Row /\ Held(r).aggregate = r.aggregate /\ Held(r).status = "held"
    BY DEF Row, RowStatuses
<1>a. outbox' = [e \in Events |-> IF e \in Claimable THEN Held(outbox[e]) ELSE outbox[e]]
    BY DEF Claim
<1> HIDE DEF Held
<1>4. /\ outbox' \in [1..Len(outbox) -> Row]
      /\ \A e \in Events : outbox'[e] = IF e \in Claimable THEN Held(outbox[e]) ELSE outbox[e]
    BY <1>1, <1>2, <1>3, <1>a DEF Events
<1>5. outbox' \in Seq(Row) /\ Len(outbox') = Len(outbox)
    BY <1>1, <1>4
<1>6. \A e \in Events : /\ outbox'[e].aggregate = outbox[e].aggregate
                        /\ e \in Claimable => ~Published(e) /\ outbox'[e].status = "held"
                        /\ e \notin Claimable => outbox'[e] = outbox[e]
    BY <1>2, <1>3, <1>4 DEF Claimable, Published
<1>7. RowsGrow
    BY <1>1, <1>5, <1>6 DEF RowsGrow, Published
<1>8. Events' = Events
    BY <1>5 DEF Events
<1>9. \A e \in Events' : outbox'[e].status = "published" => e \in Events /\ InTopic(e)
    BY <1>6, <1>8 DEF RelayInv, PublishedIn, Published
<1>10. /\ batch' \in [Dispatchers -> SUBSET Events] /\ step' = step /\ topic' = topic
       /\ batch'[d] = Claimable /\ step[d] = "publish"
       /\ \A c \in Dispatchers : c # d => batch'[c] = batch[c]
    BY <1>1 DEF Claim, RelayInv, RelayTypeOK, ClaimsFollow
<1>11. \A e \in Claimable : \A p \in Earlier(e) : Published(p)
    BY DEF Claimable, Earlier
<1>12. \A c \in Dispatchers : Moves(c)
    BY <1>10, <1>11 DEF Moves
<1> QED
    <2>1. RelayInv'
        BY <1>7, <1>9, <1>10, <1>12, RowStepKeeps DEF RelayInv, RelayTypeOK
    <2>2. Len(topic) \in Nat
        BY DEF RelayInv, RelayTypeOK
    <2> QED
        BY <1>5, <1>7, <1>10, <2>1, <2>2 DEF DispatcherStep

(* A row that is put down, whatever its status becomes, keeps the others.  *)
LEMMA PutDownKeeps ==
    ASSUME RelayInv, NEW d \in Dispatchers, NEW s \in RowStatuses,
           batch[d] # {}, Proceed(d),
           \/ UNCHANGED outbox
           \/ outbox' = [outbox EXCEPT ![First(d)].status = s],
           s = "published" <=> step[d] = "mark" \/ Published(First(d))
    PROVE  RelayInv' /\ DispatcherStep
<1>1. First(d) \in Events /\ outbox \in Seq(Row)
    BY FirstInBatch DEF RelayInv, RelayTypeOK
<1>2. /\ outbox' \in Seq(Row) /\ Len(outbox') = Len(outbox)
      /\ \A e \in Events : /\ outbox'[e].aggregate = outbox[e].aggregate
                           /\ outbox'[e] = outbox[e] \/ (e = First(d) /\ outbox'[e].status = s)
    <2>1. CASE UNCHANGED outbox
        BY <1>1, <2>1
    <2>2. CASE outbox' = [outbox EXCEPT ![First(d)].status = s]
        <3>1. /\ outbox' \in Seq(Row) /\ Len(outbox') = Len(outbox)
              /\ outbox'[First(d)] = [aggregate |-> outbox[First(d)].aggregate, status |-> s]
              /\ \A f \in Events : /\ outbox'[f].aggregate = outbox[f].aggregate
                                   /\ f # First(d) => outbox'[f] = outbox[f]
            BY <1>1, <2>2, StatusWrite DEF RelayInv
        <3> QED
            BY <3>1
    <2> QED
        BY <2>1, <2>2
<1>3. RowsGrow
    BY <1>1, <1>2 DEF RowsGrow, Published
<1>4. step[d] = "mark" \/ Published(First(d)) => InTopic(First(d))
    BY <1>1 DEF RelayInv, ClaimsFollow, PublishedIn
<1>5. \A e \in Events' : outbox'[e].status = "published" => e \in Events /\ InTopic(e)
    BY <1>1, <1>2, <1>4 DEF RelayInv, PublishedIn, Published, Events
<1>6. /\ batch' \in [Dispatchers -> SUBSET Events] /\ topic' = topic
      /\ step' \in [Dispatchers -> {"publish", "mark", "release"}]
      /\ \A c \in Dispatchers : Moves(c)
    BY DEF Proceed, RelayInv, RelayTypeOK, ClaimsFollow, Moves
<1> QED
    <2>1. RelayInv'
        BY <1>3, <1>5, <1>6, RowStepKeeps
    <2>2. Len(topic) \in Nat
        BY DEF RelayInv, RelayTypeOK
    <2> QED
        BY <1>2, <1>3, <1>6, <2>1, <2>2 DEF DispatcherStep

(* A publication: whatever precedes the event is in the topic already.     *)
LEMMA PublishKeeps ==
    ASSUME RelayInv, NEW d \in Dispatchers, Publish(d)
    PROVE  RelayInv' /\ DispatcherStep
<1> USE DEF RelayInv
<1>1. First(d) \in batch[d] /\ First(d) \in Events /\ First(d)' = First(d)
    BY FirstInBatch DEF Publish, First
<1>2. /\ Events' = Events /\ \A e : Earlier(e)' = Earlier(e) /\ Published(e)' = Published(e)
      /\ Len(topic) \in Nat /\ outbox \in Seq(Row) /\ Len(outbox) \in Nat
    BY DEF Publish, Events, Earlier, Published, RelayTypeOK
<1>3. CASE UNCHANGED topic /\ step' = [step EXCEPT ![d] = "release"]
    <2>1. RelayTypeOK' /\ ClaimsFollow'
        BY <1>1, <1>2, <1>3 DEF Publish, RelayTypeOK, ClaimsFollow, InTopic, First
    <2> QED
        <3>1. RelayInv'
            BY <1>3, <2>1 DEF Publish, PublishedIn, InOrder, InTopic, Events, Published, Earlier
        <3>2. RowsGrow
            BY <1>2 DEF Publish, RowsGrow, Published
        <3> QED
            BY <1>2, <1>3, <3>1, <3>2 DEF Publish, DispatcherStep
<1>4. ASSUME topic' = Append(topic, First(d)), NEW next \in {"mark", "release"},
             step' = [step EXCEPT ![d] = next]
      PROVE  RelayInv' /\ DispatcherStep
    <2>1. /\ topic' \in Seq(Events) /\ Len(topic') = Len(topic) + 1
          /\ topic'[Len(topic) + 1] = First(d)
          /\ \A i \in 1..Len(topic) : topic'[i] = topic[i]
        BY <1>1, <1>4 DEF RelayTypeOK
    <2>2. InTopic(First(d))' /\ \A e : InTopic(e) => InTopic(e)'
        BY <1>1, <1>2, <2>1 DEF InTopic
    <2>3. RelayTypeOK'
        BY <1>2, <1>4, <2>1 DEF Publish, RelayTypeOK
    <2>4. ClaimsFollow'
        <3> SUFFICES ASSUME NEW c \in Dispatchers
                     PROVE  /\ \A e \in batch'[c] : \A p \in Earlier(e)' : Published(p)'
                            /\ batch'[c] = {} => step'[c] = "publish"
                            /\ batch'[c] # {} /\ step'[c] = "mark" => InTopic(First(c))'
            BY DEF ClaimsFollow
        <3>1. UNCHANGED <<outbox, batch>> /\ batch[d] # {} /\ First(c)' = First(c)
            BY DEF Publish, First
        <3>2. \A e : Earlier(e)' = Earlier(e) /\ (Published(e)' <=> Published(e))
            BY <3>1 DEF Earlier, Published
        <3>3. step'[c] = IF c = d THEN next ELSE step[c]
            BY <1>4 DEF RelayTypeOK
        <3> QED
            BY <2>2, <3>1, <3>2, <3>3 DEF ClaimsFollow
    <2>5. PublishedIn'
        BY <1>2, <2>2 DEF PublishedIn
    <2>6. \A p \in Earlier(First(d)) : InTopic(p)
        BY <1>1, <1>2 DEF ClaimsFollow, PublishedIn, Earlier, Events
    <2>7. InOrder'
        <3> SUFFICES ASSUME NEW i \in 1..(Len(topic) + 1), NEW e \in Earlier(topic'[i])
                     PROVE  \E j \in 1..(i - 1) : topic'[j] = e
            BY <1>2, <2>1 DEF InOrder
        <3>1. CASE i = Len(topic) + 1
            BY <1>2, <2>1, <2>6, <3>1 DEF InTopic
        <3>2. CASE i \in 1..Len(topic)
            <4>1. PICK j \in 1..(i - 1) : topic[j] = e
                BY <2>1, <3>2 DEF InOrder
            <4> QED
                BY <1>2, <2>1, <3>2, <4>1
        <3> QED
            BY <1>2, <3>1, <3>2
    <2>8. RowsGrow
        BY <1>2 DEF Publish, RowsGrow, Published
    <2>9. DispatcherStep
        BY <1>2, <2>1, <2>8 DEF Publish, DispatcherStep
    <2> QED
        BY <2>3, <2>4, <2>5, <2>7, <2>9
<1> QED
    BY <1>3, <1>4 DEF Publish

(* A lease or a backoff ends: the row is free again, and not published.    *)
LEMMA WaitedKeeps ==
    ASSUME RelayInv, NEW e \in Events, Waited(e)
    PROVE  RelayInv' /\ DispatcherStep
<1>1. /\ outbox' \in Seq(Row) /\ Len(outbox') = Len(outbox) /\ outbox \in Seq(Row)
      /\ outbox'[e].status = "free" /\ ~Published(e)
      /\ \A f \in Events : /\ outbox'[f].aggregate = outbox[f].aggregate
                           /\ f # e => outbox'[f] = outbox[f]
    <2>1. RelayTypeOK /\ "free" \in RowStatuses /\ outbox' = [outbox EXCEPT ![e].status = "free"] /\ ~Published(e)
        BY DEF Waited, RowStatuses, RelayInv, Published
    <2>2. /\ outbox' \in Seq(Row) /\ Len(outbox') = Len(outbox)
          /\ outbox'[e] = [aggregate |-> outbox[e].aggregate, status |-> "free"]
          /\ \A f \in Events : /\ outbox'[f].aggregate = outbox[f].aggregate
                               /\ f # e => outbox'[f] = outbox[f]
        BY <2>1, StatusWrite
    <2>3. outbox \in Seq(Row)
        BY DEF RelayInv, RelayTypeOK
    <2> QED
        BY <2>1, <2>2, <2>3
<1>2. RowsGrow
    BY <1>1 DEF RowsGrow, Published
<1>3. \A f \in Events' : outbox'[f].status = "published" => f \in Events /\ InTopic(f)
    BY <1>1 DEF RelayInv, PublishedIn, Published, Events
<1> QED
    <2>1. RelayInv'
        BY <1>2, <1>3, RowStepKeeps DEF Waited, RelayInv, RelayTypeOK, Moves
    <2>2. Len(topic) \in Nat
        BY DEF RelayInv, RelayTypeOK
    <2> QED
        BY <1>1, <1>2, <2>1, <2>2 DEF Waited, DispatcherStep

(* Every step of the dispatchers.                                          *)
LEMMA RelayStep ==
    ASSUME RelayInv, RelayNext
    PROVE  RelayInv' /\ DispatcherStep
<1>1. ASSUME NEW d \in Dispatchers, MarkPublished(d)
      PROVE  RelayInv' /\ DispatcherStep
    BY <1>1, PutDownKeeps DEF MarkPublished, RowStatuses
<1>2. ASSUME NEW d \in Dispatchers, ReleaseWithError(d)
      PROVE  RelayInv' /\ DispatcherStep
    <2>1. First(d) \in Events
        BY <1>2, FirstInBatch DEF ReleaseWithError, RelayInv
    <2>2. CASE Published(First(d))
        <3>1. \/ UNCHANGED outbox
              \/ outbox' = [outbox EXCEPT ![First(d)].status = "published"]
            BY <1>2, <2>1, <2>2 DEF ReleaseWithError, Published, RelayInv, RelayTypeOK, Events
        <3> QED
            BY <1>2, <2>2, <3>1, PutDownKeeps DEF ReleaseWithError, RowStatuses
    <2>3. CASE ~Published(First(d))
        BY <1>2, <2>3, PutDownKeeps DEF ReleaseWithError, RowStatuses
    <2> QED
        BY <2>2, <2>3
<1>3. ASSUME NEW d \in Dispatchers, DispatcherStops(d)
      PROVE  RelayInv' /\ DispatcherStep
    <2>1. RowsGrow
        BY <1>3 DEF DispatcherStops, RowsGrow, RelayInv, RelayTypeOK, Published
    <2>2. \A e \in Events' : outbox'[e].status = "published" => e \in Events /\ InTopic(e)
        BY <1>3 DEF DispatcherStops, RelayInv, PublishedIn, Published, Events
    <2> QED
        <3>1. RelayInv'
            BY <1>3, <2>1, <2>2, RowStepKeeps DEF DispatcherStops, RelayInv, RelayTypeOK, Moves
        <3> QED
            BY <1>3, <2>1, <3>1 DEF DispatcherStops, DispatcherStep, RelayInv, RelayTypeOK
<1> QED
    BY <1>1, <1>2, <1>3, ClaimKeeps, PublishKeeps, WaitedKeeps DEF RelayNext, Dispatch

-----------------------------------------------------------------------------
Payload == [rev: Nat, version: Nat \ {0}, deleted: BOOLEAN]

\* The payload of every event, and the room left in the table.
FeedTypeOK ==
    /\ Len(outbox) <= MaxEvents /\ Len(feed) = Len(outbox)
    /\ feed \in Seq(Payload)
    /\ \A e \in Events : feed[e].rev = e

ConsumerTypeOK ==
    /\ position \in 1..(Len(topic) + 1) /\ committed \in 1..position
    /\ processed \subseteq 1..Len(topic)
    /\ shelf \in [Aggregates -> Nat]
    /\ index \in [Aggregates -> [rev: 0..MaxEvents, version: Nat, present: BOOLEAN]]

\* The event a row of catalog.books was last written with says whether it is there.
ShelfIsNewest ==
    \A e \in Events :
        (\A f \in Events : outbox[f].aggregate = outbox[e].aggregate => f <= e)
            => (shelf[outbox[e].aggregate] > 0) = ~feed[e].deleted

\* A document of the index is what some event of the book made of it.
DocumentsAreRecords ==
    \A a \in Aggregates :
        \/ index[a] = NoDocument
        \/ \E e \in Events : /\ outbox[e].aggregate = a
                             /\ index[a] = [rev |-> e, version |-> feed[e].version, present |-> ~feed[e].deleted]

CatalogInv ==
    RelayInv /\ FeedTypeOK /\ ConsumerTypeOK /\ ShelfIsNewest /\ DocumentsAreRecords /\ IndexKeepsUp

(* A step of neither the writers nor the dispatchers.                      *)
LEMMA RelayIdle ==
    ASSUME RelayInv, UNCHANGED <<outbox, topic, batch, step>>
    PROVE  RelayInv' /\ Events' = Events
BY DEF RelayInv, RelayTypeOK, ClaimsFollow, PublishedIn, InOrder, Events, Published, InTopic, Earlier, First

(* What a record of the topic refers to.                                   *)
LEMMA RecordsRefer ==
    ASSUME CatalogInv
    PROVE  /\ \A i \in 1..Len(topic) : topic[i] \in Events
           /\ \A e \in Events : /\ outbox[e].aggregate \in Aggregates
                                /\ feed[e] \in Payload
                                /\ e \in 1..MaxEvents /\ feed[e].rev = e
<1>1. /\ Len(outbox) \in Nat /\ Len(outbox) <= MaxEvents /\ Len(feed) = Len(outbox)
      /\ \A i \in 1..Len(topic) : topic[i] \in Events
      /\ feed \in Seq(Payload)
    BY DEF CatalogInv, RelayInv, RelayTypeOK, FeedTypeOK
<1>2. \A e \in Events : outbox[e] \in Row
    BY DEF CatalogInv, RelayInv, RelayTypeOK, Events
<1>3. \A e \in Events : outbox[e].aggregate \in Aggregates
    BY <1>2 DEF Row
<1>4. \A e \in Events : feed[e] \in Payload
    BY <1>1 DEF Events
<1> QED
    BY <1>1, <1>3, <1>4, RelayAssumption DEF CatalogInv, FeedTypeOK, Events

(* The empty table, topic and index.                                       *)
LEMMA CatalogInvInit ==
    ASSUME CatalogInit
    PROVE  CatalogInv
<1> USE DEF CatalogInit, RelayInit
<1>1. Events = {} /\ Len(outbox) = 0 /\ Len(topic) = 0 /\ Len(feed) = 0
    BY DEF Events
<1>2. RelayInv
    <2>1. RelayTypeOK
        BY <1>1 DEF RelayTypeOK
    <2> QED
        BY <1>1, <2>1 DEF RelayInv, ClaimsFollow, PublishedIn, InOrder
<1>3. FeedTypeOK
    BY <1>1, RelayAssumption DEF FeedTypeOK
<1>4. NoDocument \in [rev: 0..MaxEvents, version: Nat, present: BOOLEAN]
    BY RelayAssumption DEF NoDocument
<1>5. ConsumerTypeOK
    BY <1>1, <1>4 DEF ConsumerTypeOK
<1>6. ShelfIsNewest /\ DocumentsAreRecords /\ IndexKeepsUp
    BY <1>1 DEF ShelfIsNewest, DocumentsAreRecords, IndexKeepsUp
<1> QED
    BY <1>2, <1>3, <1>5, <1>6 DEF CatalogInv

(* The dispatchers move records, and no payload, offset or document.       *)
LEMMA DispatchersKeepCatalog ==
    ASSUME CatalogInv, RelayInv', DispatcherStep, UNCHANGED feedVars
    PROVE  CatalogInv'
<1> USE DEF CatalogInv
<1>1. /\ Events' = Events /\ feed' = feed /\ index' = index /\ shelf' = shelf /\ processed' = processed
      /\ \A e \in Events : outbox'[e].aggregate = outbox[e].aggregate
    BY DEF DispatcherStep, RowsGrow, Events, feedVars
<1>2. FeedTypeOK'
    BY <1>1 DEF FeedTypeOK, DispatcherStep
<1>3. ConsumerTypeOK'
    <2>1. Len(topic) \in Nat /\ Len(topic') \in Nat
        BY DEF RelayInv, RelayTypeOK
    <2> QED
        BY <2>1 DEF ConsumerTypeOK, DispatcherStep, feedVars
<1>4. ShelfIsNewest' /\ DocumentsAreRecords'
    BY <1>1 DEF ShelfIsNewest, DocumentsAreRecords, NoDocument
<1>5. IndexKeepsUp'
    <2>1. \A i \in processed : topic'[i] = topic[i] /\ topic[i] \in Events
        BY DEF ConsumerTypeOK, DispatcherStep, RelayInv, RelayTypeOK
    <2> QED
        BY <1>1, <2>1 DEF IndexKeepsUp, feedVars
<1> QED
    BY <1>2, <1>3, <1>4, <1>5

(* A transaction of the Book Service: its event is the newest of the book. *)
LEMMA MutateKeeps ==
    ASSUME CatalogInv, NEW a \in Aggregates, NEW deleted \in BOOLEAN, Mutate(a, deleted)
    PROVE  CatalogInv'
<1> USE DEF CatalogInv
<1> DEFINE n == Len(outbox)
<1>1. /\ RelayInv' /\ RowsGrow
      /\ Len(outbox') = n + 1 /\ outbox'[n + 1].aggregate = a
    BY WriteEventKeeps DEF Mutate
<1>2. n \in Nat /\ n + 1 <= MaxEvents /\ Len(feed) = n
    BY RelayAssumption DEF Mutate, WriteEvent, RelayInv, RelayTypeOK, FeedTypeOK
<1>3. PICK version \in Versions(a) :
          feed' = Append(feed, [rev |-> n + 1, version |-> version, deleted |-> deleted])
    BY DEF Mutate
<1>4. version \in Nat \ {0}
    BY <1>2 DEF Versions, Events
<1>5. [rev |-> n + 1, version |-> version, deleted |-> deleted] \in Payload
    BY <1>2, <1>4 DEF Payload
<1>6. /\ feed' \in Seq(Payload) /\ Len(feed') = n + 1
      /\ feed'[n + 1] = [rev |-> n + 1, version |-> version, deleted |-> deleted]
      /\ \A e \in Events : feed'[e] = feed[e]
    BY <1>2, <1>3, <1>5 DEF FeedTypeOK, Events
<1>7. /\ Events' = Events \cup {n + 1} /\ \A e \in Events : e \in Nat /\ e <= n
      /\ \A e \in Events : outbox'[e].aggregate = outbox[e].aggregate /\ outbox[e].aggregate \in Aggregates
    <2>1. \A e \in Events : outbox[e] \in Row
        BY DEF RelayInv, RelayTypeOK, Events
    <2> QED
        BY <1>1, <1>2, <2>1 DEF RowsGrow, Events, Row
<1> HIDE DEF n
<1>8. FeedTypeOK'
    BY <1>1, <1>2, <1>6, <1>7 DEF FeedTypeOK
<1>9. ConsumerTypeOK'
    BY <1>2 DEF ConsumerTypeOK, Mutate, n
<1>10. ShelfIsNewest'
    <2> SUFFICES ASSUME NEW e \in Events',
                        \A f \in Events' : outbox'[f].aggregate = outbox'[e].aggregate => f <= e
                 PROVE  (shelf'[outbox'[e].aggregate] > 0) = ~feed'[e].deleted
        BY DEF ShelfIsNewest
    <2>1. shelf' = [shelf EXCEPT ![a] = IF deleted THEN 0 ELSE n + 1] /\ shelf \in [Aggregates -> Nat]
        BY DEF Mutate, ConsumerTypeOK, n
    <2>2. CASE e = n + 1
        BY <1>1, <1>2, <1>6, <2>1, <2>2
    <2>3. CASE e \in Events
        <3>1. outbox[e].aggregate # a
            BY <1>1, <1>2, <1>7, <2>3
        <3>2. (shelf[outbox[e].aggregate] > 0) = ~feed[e].deleted
            BY <1>7, <2>3 DEF ShelfIsNewest
        <3> QED
            BY <1>6, <1>7, <2>1, <2>3, <3>1, <3>2
    <2> QED
        BY <1>7, <2>2, <2>3
<1>11. DocumentsAreRecords'
    <2> SUFFICES ASSUME NEW b \in Aggregates, index[b] # NoDocument
                 PROVE  \E e \in Events' : /\ outbox'[e].aggregate = b
                                           /\ index[b] = [rev |-> e, version |-> feed'[e].version, present |-> ~feed'[e].deleted]
        <3>1. index' = index /\ NoDocument' = NoDocument
            BY DEF Mutate, NoDocument
        <3> QED
            BY <3>1 DEF DocumentsAreRecords
    <2>1. PICK e \in Events : /\ outbox[e].aggregate = b
                              /\ index[b] = [rev |-> e, version |-> feed[e].version, present |-> ~feed[e].deleted]
        BY DEF DocumentsAreRecords
    <2> QED
        BY <1>6, <1>7, <2>1
<1>12. IndexKeepsUp'
    <2>1. \A i \in processed : topic[i] \in Events
        BY DEF ConsumerTypeOK, RelayInv, RelayTypeOK
    <2> QED
        BY <1>6, <1>7, <2>1 DEF IndexKeepsUp, Mutate
<1> QED
    BY <1>1, <1>8, <1>9, <1>10, <1>11, <1>12

(* A record the index accepts: the document becomes what its event says.   *)
LEMMA ProcessKeeps ==
    ASSUME CatalogInv, Process
    PROVE  CatalogInv'
<1> USE DEF CatalogInv
<1> DEFINE e == topic[position]
           doc == [rev |-> Record.rev, version |-> Record.version, present |-> ~Record.deleted]
<1>1. Len(topic) \in Nat /\ position \in 1..Len(topic) /\ e \in Events
    BY DEF Process, ConsumerTypeOK, RelayInv, RelayTypeOK
<1>2. /\ Record = feed[e] /\ Record.rev = e /\ Book = outbox[e].aggregate
      /\ feed[e] \in Payload
      /\ Events = 1..Len(feed) /\ Len(feed) \in Nat /\ Len(feed) <= MaxEvents
    <2>1. Record = feed[e] /\ Book = outbox[e].aggregate
        BY DEF Record, Book
    <2>2. Events = 1..Len(feed) /\ Len(feed) \in Nat /\ Len(feed) <= MaxEvents
        BY DEF FeedTypeOK, Events
    <2> HIDE DEF e
    <2> QED
        BY <1>1, <2>1, <2>2, RecordsRefer
<1>3. Book \in Aggregates
    BY <1>1, <1>2, RecordsRefer
<1>4. doc = [rev |-> e, version |-> feed[e].version, present |-> ~feed[e].deleted]
      /\ doc \in [rev: 0..MaxEvents, version: Nat, present: BOOLEAN]
    BY <1>1, <1>2, RelayAssumption DEF Payload
<1>5. /\ index' = [index EXCEPT ![Book] = doc]
      /\ UNCHANGED <<shelf, feed, forgotten, relayVars>> /\ processed' = processed \cup {position}
      /\ committed' \in {committed, position + 1} /\ position' = position + 1
      /\ doc.version >= index[Book].version /\ doc.version = feed[e].version
    BY <1>4 DEF Process, Accepts
<1> HIDE DEF e, doc
<1>6. RelayInv' /\ FeedTypeOK' /\ ShelfIsNewest'
    <2>1. UNCHANGED <<outbox, topic, batch, step, feed, shelf>>
        BY <1>5 DEF relayVars
    <2>2. RelayInv'
        BY <2>1, RelayIdle
    <2> QED
        BY <2>1, <2>2 DEF FeedTypeOK, ShelfIsNewest, Events
<1>7. ConsumerTypeOK'
    BY <1>1, <1>3, <1>4, <1>5 DEF ConsumerTypeOK, relayVars
<1>8. Events' = Events /\ outbox' = outbox /\ feed' = feed /\ topic' = topic /\ forgotten' = forgotten
    BY <1>5 DEF relayVars, Events
<1>9. /\ index'[Book] = doc
      /\ \A a \in Aggregates : a # Book => index'[a] = index[a]
    BY <1>3, <1>5 DEF ConsumerTypeOK
<1>10. DocumentsAreRecords'
    <2>1. /\ e \in Events' /\ outbox'[e].aggregate = Book
          /\ index'[Book] = [rev |-> e, version |-> feed'[e].version, present |-> ~feed'[e].deleted]
        BY <1>1, <1>2, <1>4, <1>8, <1>9, RecordsRefer
    <2> SUFFICES ASSUME NEW a \in Aggregates
                 PROVE  \/ index'[a] = NoDocument
                        \/ \E f \in Events' : /\ outbox'[f].aggregate = a
                                               /\ index'[a] = [rev |-> f, version |-> feed'[f].version,
                                                               present |-> ~feed'[f].deleted]
        BY DEF DocumentsAreRecords, NoDocument
    <2>2. CASE a = Book
        BY <2>1, <2>2
    <2>3. CASE a # Book
        BY <1>8, <1>9, <2>3 DEF DocumentsAreRecords
    <2> QED
        BY <2>2, <2>3
<1>11. IndexKeepsUp'
    <2> SUFFICES ASSUME NEW i \in processed \cup {position}, outbox[topic[i]].aggregate \notin forgotten
                 PROVE  index'[outbox[topic[i]].aggregate].version >= feed[topic[i]].version
        BY <1>5, <1>8 DEF IndexKeepsUp
    <2>1. topic[i] \in Events /\ outbox[topic[i]].aggregate \in Aggregates /\ feed[topic[i]].version \in Nat
        <3>1. i \in 1..Len(topic)
            BY <1>1 DEF ConsumerTypeOK
        <3>2. \A f \in Events : feed[f] \in Payload => feed[f].version \in Nat
            BY DEF Payload
        <3> QED
            BY <3>1, <3>2, RecordsRefer
    <2>2. doc.version \in Nat /\ \A a \in Aggregates : index[a].version \in Nat
        BY <1>4 DEF ConsumerTypeOK
    <2>3. CASE i = position
        BY <1>2, <1>5, <1>9, <2>2, <2>3 DEF e
    <2>4. CASE i \in processed
        <3>1. index[outbox[topic[i]].aggregate].version >= feed[topic[i]].version
            BY <2>4 DEF IndexKeepsUp
        <3> QED
            BY <1>3, <1>5, <1>9, <2>1, <2>2, <3>1
    <2> QED
        BY <2>3, <2>4
<1> QED
    BY <1>6, <1>7, <1>10, <1>11

(* The other steps of the consumer: records set aside, failures, restarts. *)
LEMMA OffsetsKeep ==
    ASSUME CatalogInv, SetAside \/ DeadLetterFails \/ Restart
    PROVE  CatalogInv'
<1> USE DEF CatalogInv
<1>1. UNCHANGED <<outbox, topic, batch, step, feed, shelf, index, forgotten, processed>>
    BY DEF SetAside, DeadLetterFails, Restart, relayVars
<1>2. RelayInv'
    BY <1>1, RelayIdle
<1>3. Len(topic) \in Nat
    BY DEF RelayInv, RelayTypeOK
<1>4. ConsumerTypeOK'
    BY <1>1, <1>3 DEF ConsumerTypeOK, SetAside, DeadLetterFails, Restart
<1>5. FeedTypeOK' /\ ShelfIsNewest' /\ DocumentsAreRecords' /\ IndexKeepsUp'
    BY <1>1 DEF FeedTypeOK, ShelfIsNewest, DocumentsAreRecords, IndexKeepsUp, Events, NoDocument
<1> QED
    BY <1>2, <1>4, <1>5

(* The index drops a deleted document, and the book is marked forgotten.   *)
LEMMA ForgetKeeps ==
    ASSUME CatalogInv, NEW a \in Aggregates, ForgetDeletion(a)
    PROVE  CatalogInv'
<1> USE DEF CatalogInv
<1>1. UNCHANGED <<outbox, topic, batch, step, feed, shelf, position, committed, processed>>
    BY DEF ForgetDeletion, relayVars
<1>2. RelayInv'
    BY <1>1, RelayIdle
<1>3. NoDocument \in [rev: 0..MaxEvents, version: Nat, present: BOOLEAN]
    BY RelayAssumption DEF NoDocument
<1>4. /\ index' \in [Aggregates -> [rev: 0..MaxEvents, version: Nat, present: BOOLEAN]]
      /\ index'[a] = NoDocument /\ \A b \in Aggregates : b # a => index'[b] = index[b]
      /\ forgotten' = forgotten \cup {a}
    BY <1>3 DEF ForgetDeletion, ConsumerTypeOK
<1>5. ConsumerTypeOK'
    BY <1>1, <1>4 DEF ConsumerTypeOK
<1>6. FeedTypeOK' /\ ShelfIsNewest'
    BY <1>1 DEF FeedTypeOK, ShelfIsNewest, Events
<1>7. DocumentsAreRecords'
    <2>1. Events' = Events /\ NoDocument' = NoDocument
        BY <1>1 DEF Events, NoDocument
    <2> QED
        <3> SUFFICES ASSUME NEW b \in Aggregates
                     PROVE  \/ index'[b] = NoDocument
                            \/ \E e \in Events : /\ outbox[e].aggregate = b
                                                 /\ index'[b] = [rev |-> e, version |-> feed[e].version,
                                                                 present |-> ~feed[e].deleted]
            BY <1>1, <2>1 DEF DocumentsAreRecords
        <3>1. CASE b = a
            BY <1>4, <3>1
        <3>2. CASE b # a
            <4>1. index'[b] = index[b]
                BY <1>4, <3>2
            <4> QED
                BY <4>1 DEF DocumentsAreRecords
        <3> QED
            BY <3>1, <3>2
<1>8. IndexKeepsUp'
    <2>1. \A i \in processed : outbox[topic[i]].aggregate \in Aggregates
        BY RecordsRefer DEF ConsumerTypeOK
    <2> QED
        BY <1>1, <1>4, <2>1 DEF IndexKeepsUp
<1> QED
    BY <1>2, <1>5, <1>6, <1>7, <1>8

(* Every step of the feed.                                                 *)
LEMMA CatalogStep ==
    ASSUME CatalogInv, [CatalogNext]_catalogVars
    PROVE  CatalogInv'
<1>1. ASSUME RelayNext, UNCHANGED feedVars
      PROVE  CatalogInv'
    BY <1>1, RelayStep, DispatchersKeepCatalog DEF CatalogInv
<1>2. CASE Consume \/ Restart
    BY <1>2, ProcessKeeps, OffsetsKeep DEF Consume
<1>3. CASE UNCHANGED catalogVars
    <2>1. UNCHANGED <<outbox, topic, batch, step, feed, shelf, index, position, committed, forgotten, processed>>
        BY <1>3 DEF catalogVars, relayVars, feedVars
    <2>2. RelayInv' /\ Events' = Events
        BY <2>1, RelayIdle DEF CatalogInv
    <2> QED
        BY <2>1, <2>2 DEF CatalogInv, FeedTypeOK, ConsumerTypeOK, ShelfIsNewest, DocumentsAreRecords, IndexKeepsUp, NoDocument
<1> QED
    BY <1>1, <1>2, <1>3, MutateKeeps, ForgetKeeps DEF CatalogNext

(* The inductive invariant of the outbox, the consumer and the index.      *)
THEOREM CatalogSafety == CatalogSpec => []CatalogInv
<1>1. CatalogInit => CatalogInv
    BY CatalogInvInit
<1>2. CatalogInv /\ [CatalogNext]_catalogVars => CatalogInv'
    BY CatalogStep
<1> QED
    BY <1>1, <1>2, PTL DEF CatalogSpec

(* Types of the feed: rows, topic, batches, offsets and documents.         *)
THEOREM CatalogTypes == CatalogSpec => []CatalogTypeOK
<1>1. ASSUME CatalogInv
      PROVE  CatalogTypeOK
    <2>1. \A e \in Events : outbox[e] \in Row
        BY <1>1 DEF CatalogInv, RelayInv, RelayTypeOK, Events
    <2>2. \A a \in Aggregates : index[a].rev \in 0..MaxEvents
        BY <1>1 DEF CatalogInv, ConsumerTypeOK
    <2> QED
        BY <1>1, <2>1, <2>2 DEF CatalogTypeOK, CatalogInv, RelayInv, RelayTypeOK, FeedTypeOK, ConsumerTypeOK, Row
<1> QED
    BY <1>1, CatalogSafety, PTL

(* What the invariant of the outbox says of offsets.                       *)
LEMMA RelayPromises ==
    ASSUME RelayInv
    PROVE  PublishedIsInTopic /\ NoOvertaking
<1>1. PublishedIsInTopic
    BY DEF RelayInv, PublishedIsInTopic, PublishedIn, InTopic, Offsets
<1>2. NoOvertaking
    <2>1. Len(topic) \in Nat
        BY DEF RelayInv, RelayTypeOK
    <2> QED
        BY <2>1 DEF RelayInv, NoOvertaking, InOrder, Earlier, Offsets
<1> QED
    BY <1>1, <1>2

(* No catalog event is lost by the dispatchers, whichever of two with the  *)
(* same row failed or was late (outbox/dispatcher.go).                     *)
THEOREM NoEventIsLost == CatalogSpec => []PublishedIsInTopic
<1>1. CatalogInv => PublishedIsInTopic
    BY RelayPromises DEF CatalogInv
<1> QED
    BY <1>1, CatalogSafety, PTL

(* No event of a book overtakes an earlier one of the same book, however   *)
(* many replicas run and however often they retry.                         *)
THEOREM EventsKeepTheirOrder == CatalogSpec => []NoOvertaking
<1>1. CatalogInv => NoOvertaking
    BY RelayPromises DEF CatalogInv
<1> QED
    BY <1>1, CatalogSafety, PTL

(* A replayed record never overwrites a newer document.                    *)
THEOREM IndexNeverGoesBack == CatalogSpec => []IndexKeepsUp
<1>1. CatalogInv => IndexKeepsUp
    BY DEF CatalogInv
<1> QED
    BY <1>1, CatalogSafety, PTL

(* Once all is published and polled, the document of a book is that of its *)
(* newest event: it has that event's version at least, and no other event  *)
(* of the book has as much.                                                *)
THEOREM SearchConverges == CatalogSpec => []SearchShowsCatalog
<1>1. ASSUME CatalogInv
      PROVE  SearchShowsCatalog
    <2> DEFINE Of(a) == {e \in Events : outbox[e].aggregate = a}
    <2> SUFFICES ASSUME NEW a \in Aggregates \ forgotten,
                        \A e, f \in Of(a) : e < f => feed[e].version < feed[f].version,
                        NEW e \in Of(a), \A f \in Of(a) : f <= e,
                        NEW i \in Offsets(e) \cap processed
                 PROVE  index[a].rev = e /\ index[a].present = (shelf[a] > 0)
        BY DEF SearchShowsCatalog
    <2>1. topic[i] = e /\ e \in Events /\ outbox[e].aggregate = a
        BY DEF Offsets
    <2>2. index[a].version >= feed[e].version
        BY <1>1, <2>1 DEF CatalogInv, IndexKeepsUp
    <2>3. feed[e].version \in Nat \ {0} /\ \A f \in Events : feed[f].version \in Nat /\ f \in Nat
        BY <1>1, <2>1, RecordsRefer DEF Payload
    <2>4. index[a] # NoDocument
        BY <2>2, <2>3 DEF NoDocument
    <2>5. PICK f \in Events : /\ outbox[f].aggregate = a
                              /\ index[a] = [rev |-> f, version |-> feed[f].version, present |-> ~feed[f].deleted]
        BY <1>1, <2>4 DEF CatalogInv, DocumentsAreRecords
    <2>6. f = e
        BY <2>1, <2>2, <2>3, <2>5
    <2>7. (shelf[a] > 0) = ~feed[e].deleted
        BY <1>1, <2>1 DEF CatalogInv, ShelfIsNewest
    <2> QED
        BY <2>5, <2>6, <2>7
<1> QED
    BY <1>1, CatalogSafety, PTL

-----------------------------------------------------------------------------
AccountStates == {"none", "registered", "deleted"}

SyncTypeOK ==
    /\ Len(events) = Len(outbox) /\ events \in Seq(AccountStates)
    /\ accounts \in [Aggregates -> AccountStates]
    /\ settled \subseteq 1..Len(topic) /\ profiles \subseteq Aggregates

\* An account is what its last row says, and no row is ahead of it.
RowsTellAccounts ==
    /\ \A e \in Events : LET a == outbox[e].aggregate IN
           /\ events[e] = "deleted" => accounts[a] = "deleted"
           /\ events[e] # "none" /\ accounts[a] # "none"
    /\ \A a \in Aggregates : accounts[a] # "none" =>
           \E e \in Events : outbox[e].aggregate = a /\ events[e] = accounts[a]
    /\ \A a \in profiles : accounts[a] # "none"

\* What an acknowledged message has done still holds, whatever was handled since.
SettledIsDone ==
    \A i \in settled :
        /\ accounts[Subject(i)] = "registered" => Subject(i) \in profiles
        /\ events[topic[i]] = "deleted" /\ Subject(i) \in profiles => Subject(i) \in late

SyncInv == RelayInv /\ SyncTypeOK /\ RowsTellAccounts /\ SettledIsDone

(* What a message refers to.                                               *)
LEMMA MessagesRefer ==
    ASSUME SyncInv
    PROVE  /\ Len(topic) \in Nat
           /\ \A i \in 1..Len(topic) : topic[i] \in Events /\ Subject(i) \in Aggregates
           /\ \A e \in Events : outbox[e].aggregate \in Aggregates /\ events[e] \in AccountStates
<1>1. /\ Len(topic) \in Nat /\ \A i \in 1..Len(topic) : topic[i] \in Events
      /\ \A e \in Events : outbox[e] \in Row
    BY DEF SyncInv, RelayInv, RelayTypeOK, Events
<1>2. \A e \in Events : events[e] \in AccountStates
    BY DEF SyncInv, SyncTypeOK, Events
<1>3. \A e \in Events : outbox[e].aggregate \in Aggregates
    BY <1>1 DEF Row
<1> QED
    BY <1>1, <1>2, <1>3 DEF Subject

(* An account changes together with the row that announces it.             *)
LEMMA ChangeKeeps ==
    ASSUME SyncInv, NEW a \in Aggregates, CreateAccount(a) \/ RemoveAccount(a)
    PROVE  SyncInv'
<1> USE DEF SyncInv
<1> DEFINE n == Len(outbox)
<1>1. PICK to \in {"registered", "deleted"} :
          /\ Change(a, to)
          /\ to = "registered" <=> accounts[a] = "none"
          /\ to = "deleted" <=> accounts[a] = "registered"
    BY DEF CreateAccount, RemoveAccount
<1>2. /\ RelayInv' /\ RowsGrow /\ UNCHANGED <<topic, settled, profiles, late>>
      /\ Len(outbox') = n + 1 /\ outbox'[n + 1].aggregate = a
    BY <1>1, WriteEventKeeps DEF Change
<1>3. n \in Nat /\ Events' = Events \cup {n + 1} /\ \A e \in Events : e \in 1..n
    BY <1>2 DEF RelayInv, RelayTypeOK, Events
<1>4. /\ events' \in Seq(AccountStates) /\ Len(events') = n + 1 /\ events'[n + 1] = to
      /\ \A e \in Events : events'[e] = events[e]
    BY <1>1, <1>3 DEF Change, SyncTypeOK, AccountStates
<1>5. /\ accounts' \in [Aggregates -> AccountStates] /\ accounts'[a] = to
      /\ \A b \in Aggregates : b # a => accounts'[b] = accounts[b]
    BY <1>1 DEF Change, SyncTypeOK, AccountStates
<1>6. \A e \in Events : outbox'[e].aggregate = outbox[e].aggregate /\ outbox[e].aggregate \in Aggregates
    BY <1>2, MessagesRefer DEF RowsGrow
<1> HIDE DEF n
<1>7. SyncTypeOK'
    BY <1>2, <1>4, <1>5 DEF SyncTypeOK
<1>8. RowsTellAccounts'
    <2>1. ASSUME NEW e \in Events'
          PROVE  /\ events'[e] = "deleted" => accounts'[outbox'[e].aggregate] = "deleted"
                 /\ events'[e] # "none" /\ accounts'[outbox'[e].aggregate] # "none"
        <3>1. CASE e = n + 1
            BY <1>1, <1>2, <1>4, <1>5, <3>1
        <3>2. CASE e \in Events
            BY <1>1, <1>4, <1>5, <1>6, <3>2 DEF RowsTellAccounts
        <3> QED
            BY <1>3, <3>1, <3>2
    <2>2. ASSUME NEW b \in Aggregates, accounts'[b] # "none"
          PROVE  \E e \in Events' : outbox'[e].aggregate = b /\ events'[e] = accounts'[b]
        <3>1. CASE b = a
            BY <1>2, <1>3, <1>4, <1>5, <3>1
        <3>2. CASE b # a
            BY <1>3, <1>4, <1>5, <1>6, <2>2, <3>2 DEF RowsTellAccounts
        <3> QED
            BY <3>1, <3>2
    <2>3. \A b \in profiles' : accounts'[b] # "none"
        BY <1>1, <1>2, <1>5 DEF RowsTellAccounts, SyncTypeOK
    <2> QED
        BY <2>1, <2>2, <2>3 DEF RowsTellAccounts
<1>9. SettledIsDone'
    <2> SUFFICES ASSUME NEW i \in settled
                 PROVE  /\ accounts'[Subject(i)'] = "registered" => Subject(i)' \in profiles
                        /\ events'[topic[i]] = "deleted" /\ Subject(i)' \in profiles => Subject(i)' \in late
        BY <1>2 DEF SettledIsDone
    <2>1. /\ topic[i] \in Events /\ Subject(i) \in Aggregates /\ Subject(i)' = Subject(i)
          /\ events'[topic[i]] = events[topic[i]]
        BY <1>2, <1>4, <1>6, MessagesRefer DEF SyncTypeOK, Subject
    <2>2. accounts[Subject(i)] # "none"
        BY <2>1 DEF RowsTellAccounts, Subject
    <2>3. accounts'[Subject(i)] = "registered" => accounts[Subject(i)] = "registered"
        BY <1>1, <1>5, <2>1, <2>2
    <2> QED
        BY <2>1, <2>3 DEF SettledIsDone
<1> QED
    BY <1>2, <1>7, <1>8, <1>9

(* A message that is handled, delivered again or not: a profile is created *)
(* or deleted, and late deliveries are remembered as such.                 *)
LEMMA HandleKeeps ==
    ASSUME SyncInv, NEW i \in Queued, Handle(i)
    PROVE  SyncInv'
<1> USE DEF SyncInv
<1> DEFINE a == Subject(i)
<1>1. /\ UNCHANGED <<outbox, topic, batch, step, accounts, events>> /\ i \in 1..Len(topic)
      /\ settled \subseteq settled' /\ settled' \subseteq settled \cup {i}
    BY DEF Handle, Queued, relayVars
<1>2. /\ a \in Aggregates /\ a = outbox[topic[i]].aggregate /\ topic[i] \in Events
      /\ events[topic[i]] \in {"registered", "deleted"} /\ accounts[a] # "none"
      /\ events[topic[i]] = "deleted" => accounts[a] = "deleted"
    BY <1>1, MessagesRefer DEF Subject, RowsTellAccounts, AccountStates
<1>3. \/ /\ events[topic[i]] = "registered" /\ profiles' = profiles \cup {a}
         /\ late' = IF accounts[a] = "deleted" /\ a \notin profiles THEN late \cup {a} ELSE late
      \/ events[topic[i]] = "deleted" /\ profiles' = profiles \ {a} /\ late' = late \ {a}
    BY <1>2 DEF Handle, CreateProfile, DeleteProfile
<1>4. /\ \A j : Subject(j)' = Subject(j)
      /\ \A j \in settled : Subject(j) \in Aggregates /\ topic[j] \in Events
      /\ \A j \in settled : events[topic[j]] = "deleted" => accounts[Subject(j)] = "deleted"
    BY <1>1, MessagesRefer DEF Subject, SyncTypeOK, RowsTellAccounts
<1> HIDE DEF a
<1>5. RelayInv' /\ Events' = Events
    BY <1>1, RelayIdle
<1>6. SyncTypeOK' /\ RowsTellAccounts'
    BY <1>1, <1>2, <1>3, <1>5 DEF SyncTypeOK, RowsTellAccounts
<1>7. SettledIsDone'
    <2> SUFFICES ASSUME NEW j \in settled'
                 PROVE  /\ accounts[Subject(j)] = "registered" => Subject(j) \in profiles'
                        /\ events[topic[j]] = "deleted" /\ Subject(j) \in profiles' => Subject(j) \in late'
        BY <1>1, <1>4 DEF SettledIsDone
    <2>1. CASE j = i
        BY <1>2, <1>3, <2>1 DEF a
    <2>2. CASE j \in settled
        BY <1>2, <1>3, <1>4, <2>2 DEF SettledIsDone
    <2> QED
        BY <1>1, <2>1, <2>2
<1> QED
    BY <1>5, <1>6, <1>7

(* Every step of the accounts, the dispatchers and the worker.             *)
LEMMA SyncStep ==
    ASSUME SyncInv, [SyncNext]_syncVars
    PROVE  SyncInv'
<1> USE DEF SyncInv
<1>1. ASSUME RelayInv', DispatcherStep, UNCHANGED <<accounts, events, settled, profiles, late>>
      PROVE  SyncInv'
    <2>1. /\ Events' = Events /\ \A e \in Events : outbox'[e].aggregate = outbox[e].aggregate
          /\ Len(topic') \in Nat /\ Len(topic) \in Nat
        BY <1>1 DEF DispatcherStep, RowsGrow, Events, RelayInv, RelayTypeOK
    <2>2. SyncTypeOK' /\ RowsTellAccounts'
        BY <1>1, <2>1 DEF SyncTypeOK, RowsTellAccounts, DispatcherStep
    <2>3. \A i \in settled : topic'[i] = topic[i] /\ Subject(i)' = Subject(i)
        BY <1>1, <2>1, MessagesRefer DEF SyncTypeOK, DispatcherStep, Subject
    <2> QED
        BY <1>1, <2>2, <2>3 DEF SettledIsDone
<1>2. ASSUME RelayNext, UNCHANGED profileVars
      PROVE  SyncInv'
    BY <1>1, <1>2, RelayStep DEF profileVars
<1>3. ASSUME UNCHANGED <<outbox, topic, batch, step, accounts, events, settled, profiles, late>>
      PROVE  SyncInv'
    <2>1. DispatcherStep
        BY <1>3 DEF DispatcherStep, RowsGrow, RelayInv, RelayTypeOK, Published
    <2> QED
        BY <1>1, <1>3, <2>1, RelayIdle
<1>4. ASSUME NEW i \in 1..MaxTopic, Handle(i) \/ Nack(i)
      PROVE  SyncInv'
    BY <1>3, <1>4, HandleKeeps DEF Handle, Nack, relayVars
<1>5. CASE UNCHANGED syncVars
    BY <1>3, <1>5 DEF syncVars, relayVars, profileVars
<1> QED
    BY <1>2, <1>4, <1>5, ChangeKeeps DEF SyncNext

(* The inductive invariant of the accounts, their events and the profiles. *)
THEOREM SyncSafety == SyncSpec => []SyncInv
<1>1. SyncInit => SyncInv
    <2> SUFFICES ASSUME SyncInit PROVE SyncInv
        OBVIOUS
    <2> USE DEF SyncInit, RelayInit
    <2>1. Events = {} /\ Len(outbox) = 0 /\ Len(topic) = 0 /\ Len(events) = 0
        BY DEF Events
    <2>2. RelayTypeOK
        BY <2>1 DEF RelayTypeOK
    <2>3. RelayInv
        BY <2>1, <2>2 DEF RelayInv, ClaimsFollow, PublishedIn, InOrder
    <2>4. SyncTypeOK
        BY <2>1 DEF SyncTypeOK, AccountStates
    <2> QED
        BY <2>1, <2>3, <2>4 DEF SyncInv, RowsTellAccounts, SettledIsDone
<1>2. SyncInv /\ [SyncNext]_syncVars => SyncInv'
    BY SyncStep
<1> QED
    BY <1>1, <1>2, PTL DEF SyncSpec

(* Once every event is published and acknowledged, exactly the registered  *)
(* accounts have a profile, late deliveries apart.                         *)
THEOREM ProfilesConverge == SyncSpec => []ProfilesFollowAccounts
<1>1. ASSUME SyncInv
      PROVE  ProfilesFollowAccounts
    <2> SUFFICES ASSUME Queued = {}, discarded = {}, \A e \in Events : Published(e),
                        NEW a \in Aggregates, a \notin late
                 PROVE  (a \in profiles) = (accounts[a] = "registered")
        BY DEF ProfilesFollowAccounts
    <2>1. CASE accounts[a] = "none"
        BY <1>1, <2>1 DEF SyncInv, RowsTellAccounts
    <2>2. CASE accounts[a] # "none"
        <3>1. PICK e \in Events : outbox[e].aggregate = a /\ events[e] = accounts[a]
            BY <1>1, <2>2 DEF SyncInv, RowsTellAccounts
        <3>2. PICK i \in 1..Len(topic) : topic[i] = e
            BY <1>1 DEF SyncInv, RelayInv, PublishedIn, InTopic
        <3>3. i \in settled /\ Subject(i) = a
            BY <3>1, <3>2 DEF Queued, Subject
        <3>4. accounts[a] \in AccountStates
            BY <1>1 DEF SyncInv, SyncTypeOK
        <3> QED
            BY <1>1, <2>2, <3>1, <3>2, <3>3, <3>4 DEF SyncInv, SettledIsDone, AccountStates
    <2> QED
        BY <2>1, <2>2
<1> QED
    BY <1>1, SyncSafety, PTL
=============================================================================
