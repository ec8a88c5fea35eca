------------------------------ MODULE CartProofs ------------------------------
(***************************************************************************)
(* For any readers, replicas, writers and changes of the cart, a list that *)
(* begins after a change was invalidated shows it; for any history of an   *)
(* order, any clocks and any order of handling, the analytics row is what  *)
(* the events received say.                                                *)
(***************************************************************************)
EXTENDS CartCache, OrderReadModel, FiniteSetTheorems, TLAPS

(* How far an order has come: what an event follows has a lower rank.      *)
Rank(status) ==
    CASE status = "none" -> 0
      [] status = "pending" -> 1
      [] status = "stock_reserved" -> 2
      [] status = "payment_pending" -> 3
      [] status \in {"confirmed", "compensation_pending"} -> 4
      [] status = "cancelled" -> 5
      [] OTHER -> 6

FailureStages == {"", "stock_commit", "stock_reservation", "payment", "compensation", "customer"}

ReadModelTypeOK ==
    /\ announced \in Seq([status: {edge[2] : edge \in Contract!Edges}, at: Clocks, stage: FailureStages])
    /\ received \subseteq 1..Len(announced)
    /\ lifecycle \in [last: Nat, at: Nat, created: Nat, stage: FailureStages, stamps: [Columns -> Nat]]

\* No status is announced twice, and no two that fill in the same column.
StatusesRise ==
    \A i, j \in 1..Len(announced) : i < j => Rank(announced[i].status) < Rank(announced[j].status)

ReadModelInv ==
    /\ ReadModelTypeOK
    /\ StatusesRise
    /\ received = {} => lifecycle.last = 0
    /\ received # {} => lifecycle.at = announced[lifecycle.last].at
    /\ ReadModelConverges

(* Every step of an order takes it to a higher rank (OrderLifecycle).      *)
LEMMA EdgesRise ==
    ASSUME NEW edge \in Contract!Edges
    PROVE  Rank(edge[1]) \in Nat /\ Rank(edge[2]) \in Nat /\ Rank(edge[1]) < Rank(edge[2])
BY DEF Contract!Edges, Rank

(* Two events that fill in one column have the same rank (eventTimes and   *)
(* terminalEventTimes).                                                    *)
LEMMA OneRankPerColumn ==
    ASSUME NEW e, NEW f, NEW c, Sets(e, c), Sets(f, c)
    PROVE  Rank(e.status) = Rank(f.status)
BY DEF Sets, Fills, Rank

(* The next status leaves the events that were announced as they are, and  *)
(* has a higher rank than all of them (writeOrderEvent).                   *)
LEMMA AnnounceRises ==
    ASSUME ReadModelInv, NEW target, NEW clock \in Clocks, Announce(target, clock),
           target \in {edge[2] : edge \in Contract!Edges}
    PROVE  ReadModelInv'
<1>1. PICK stage \in Stages(target) :
          announced' = Append(announced, [status |-> target, at |-> clock, stage |-> stage])
    BY DEF Announce
<1>2. stage \in FailureStages
    BY <1>1 DEF Stages, FailureStages
<1>3. /\ Len(announced') = Len(announced) + 1
      /\ Len(announced) \in Nat
      /\ announced'[Len(announced) + 1] = [status |-> target, at |-> clock, stage |-> stage]
      /\ \A i \in 1..Len(announced) : announced'[i] = announced[i]
      /\ announced' \in Seq([status: {edge[2] : edge \in Contract!Edges}, at: Clocks, stage: FailureStages])
    BY <1>1, <1>2 DEF ReadModelInv, ReadModelTypeOK
<1>4. received' = received /\ overtaken' = overtaken /\ lifecycle' = lifecycle
    BY DEF Announce
<1>5. \A i \in 1..Len(announced) : Rank(announced[i].status) < Rank(target)
    <2>1. Rank(Status) \in Nat /\ Rank(target) \in Nat /\ Rank(Status) < Rank(target)
        <3> DEFINE edge == <<Status, target>>
        <3>1. edge \in Contract!Edges
            BY DEF Announce
        <3>2. edge[1] = Status /\ edge[2] = target
            OBVIOUS
        <3> HIDE DEF edge
        <3> QED
            BY <3>1, <3>2, EdgesRise
    <2>2. ASSUME NEW i \in 1..Len(announced) PROVE Rank(announced[i].status) < Rank(target)
        <3>1. announced # <<>> /\ Len(announced) \in 1..Len(announced)
            BY <1>3, <2>2 DEF ReadModelInv, ReadModelTypeOK
        <3>2. Status = announced[Len(announced)].status
            BY <3>1 DEF Status
        <3>3. CASE i = Len(announced)
            BY <2>1, <3>2, <3>3
        <3>4. CASE i < Len(announced)
            <4> DEFINE Event == [status: {edge[2] : edge \in Contract!Edges}, at: Clocks, stage: FailureStages]
            <4>1. announced \in Seq(Event)
                BY DEF ReadModelInv, ReadModelTypeOK
            <4>2. announced[i] \in Event
                <5> HIDE DEF Event
                <5> QED
                    BY <4>1, <2>2
            <4>3. announced[i].status \in {edge[2] : edge \in Contract!Edges}
                BY <4>2
            <4>4. Rank(announced[i].status) \in Nat
                BY <4>3, EdgesRise
            <4>5. Rank(announced[i].status) < Rank(Status)
                BY <3>1, <3>2, <3>4, <2>2 DEF ReadModelInv, StatusesRise
            <4> QED
                BY <4>4, <4>5, <2>1
        <3> QED
            BY <3>3, <3>4, <1>3, <2>2
    <2> QED
        BY <2>2
<1>6. StatusesRise'
    <2> SUFFICES ASSUME NEW i \in 1..Len(announced'), NEW j \in 1..Len(announced'), i < j
                 PROVE  Rank(announced'[i].status) < Rank(announced'[j].status)
        BY DEF StatusesRise
    <2>1. i \in 1..Len(announced)
        BY <1>3
    <2>2. CASE j = Len(announced) + 1
        BY <2>1, <2>2, <1>3, <1>5
    <2>3. CASE j \in 1..Len(announced)
        BY <2>1, <2>3, <1>3 DEF ReadModelInv, StatusesRise
    <2> QED
        BY <2>2, <2>3, <1>3
<1>7. ReadModelTypeOK'
    BY <1>3, <1>4 DEF ReadModelInv, ReadModelTypeOK
<1>8. \A i \in received : announced'[i] = announced[i] /\ i \in 1..Len(announced)
    BY <1>3 DEF ReadModelInv, ReadModelTypeOK
<1>9. received # {} => lifecycle.last \in received
    BY DEF ReadModelInv, ReadModelConverges
<1>10. ReadModelConverges'
    <2> SUFFICES ASSUME received # {}
                 PROVE  ReadModelConverges'
        BY <1>4 DEF ReadModelConverges
    <2>1. /\ lifecycle.last \in received
          /\ \A i \in received :
                /\ announced[i].at <= announced[lifecycle.last].at
                /\ announced[i].at = announced[lifecycle.last].at /\ i > lifecycle.last
                       => lifecycle.last \in overtaken
          /\ \A c \in Columns :
                /\ \A i \in received : Sets(announced[i], c) => lifecycle.stamps[c] = announced[i].at
                /\ lifecycle.stamps[c] # 0 => \E i \in received : Sets(announced[i], c)
          /\ 1 \in received \ overtaken => lifecycle.created = announced[1].at
        BY DEF ReadModelInv, ReadModelConverges
    <2>2. \A i \in received : announced'[i] = announced[i]
        BY <1>8
    <2>3. announced'[lifecycle.last] = announced[lifecycle.last]
        BY <2>1, <2>2
    <2>4. \A i \in received :
                /\ announced'[i].at <= announced'[lifecycle.last].at
                /\ announced'[i].at = announced'[lifecycle.last].at /\ i > lifecycle.last
                       => lifecycle.last \in overtaken
        BY <2>1, <2>2, <2>3
    <2>5. \A c \in Columns :
                /\ \A i \in received : Sets(announced'[i], c) => lifecycle.stamps[c] = announced'[i].at
                /\ lifecycle.stamps[c] # 0 => \E i \in received : Sets(announced'[i], c)
        <3> SUFFICES ASSUME NEW c \in Columns
                     PROVE  /\ \A i \in received : Sets(announced'[i], c) => lifecycle.stamps[c] = announced'[i].at
                            /\ lifecycle.stamps[c] # 0 => \E i \in received : Sets(announced'[i], c)
            OBVIOUS
        <3>1. \A i \in received : Sets(announced'[i], c) <=> Sets(announced[i], c)
            BY <2>2 DEF Sets
        <3> QED
            BY <2>1, <2>2, <3>1
    <2>6. 1 \in received \ overtaken => lifecycle.created = announced'[1].at
        BY <2>1, <2>2
    <2> QED
        BY <2>1, <2>4, <2>5, <2>6, <1>4 DEF ReadModelConverges, Sets
<1> QED
    BY <1>4, <1>6, <1>7, <1>8, <1>9, <1>10 DEF ReadModelInv

(* What an event brings to the row (ApplyOrderEvent's INSERT).             *)
LEMMA InsertedFields ==
    ASSUME ReadModelInv, NEW i \in 1..Len(announced)
    PROVE  /\ announced[i].at \in Nat \ {0} /\ announced[i].stage \in FailureStages
           /\ Inserted(i).last = i /\ Inserted(i).at = announced[i].at
           /\ Inserted(i).created = announced[i].at /\ Inserted(i).stage = announced[i].stage
           /\ Inserted(i).stamps \in [Columns -> Nat]
           /\ \A c \in Columns :
                Inserted(i).stamps[c] = IF Sets(announced[i], c) THEN announced[i].at ELSE 0
<1> DEFINE Event == [status: {edge[2] : edge \in Contract!Edges}, at: Clocks, stage: FailureStages]
<1>1. announced \in Seq(Event)
    BY DEF ReadModelInv, ReadModelTypeOK
<1>2. announced[i] \in Event
    <2> HIDE DEF Event
    <2> QED
        BY <1>1
<1>3. announced[i].at \in Clocks /\ announced[i].stage \in FailureStages
    BY <1>2
<1>4. announced[i].at \in Nat \ {0}
    BY <1>3, ClockAssumption
<1> QED
    BY <1>3, <1>4 DEF Inserted

(* The row after an event that was handled for the first time: the first   *)
(* one makes it, the others change it as ON CONFLICT says.                 *)
LEMMA UpsertFields ==
    ASSUME ReadModelInv, NEW i \in 1..Len(announced)
    PROVE  LET newer == received = {} \/ announced[i].at >= announced[lifecycle.last].at
               row == Upsert(i) IN
           /\ row \in [last: Nat, at: Nat, created: Nat, stage: FailureStages, stamps: [Columns -> Nat]]
           /\ row.last = IF newer THEN i ELSE lifecycle.last
           /\ row.at = IF newer THEN announced[i].at ELSE announced[lifecycle.last].at
           /\ row.created = IF received = {} THEN announced[i].at ELSE lifecycle.created
           /\ \A c \in Columns :
                row.stamps[c] = IF received # {} /\ lifecycle.stamps[c] # 0 THEN lifecycle.stamps[c]
                                ELSE IF Sets(announced[i], c) THEN announced[i].at ELSE 0
<1>1. CASE received = {}
    <2>1. Upsert(i) = Inserted(i)
        BY <1>1 DEF Upsert, ReadModelInv
    <2>2. Inserted(i) = [last |-> Inserted(i).last, at |-> Inserted(i).at, created |-> Inserted(i).created,
                         stage |-> Inserted(i).stage, stamps |-> Inserted(i).stamps]
        BY DEF Inserted
    <2>3. Inserted(i) \in [last: Nat, at: Nat, created: Nat, stage: FailureStages, stamps: [Columns -> Nat]]
        BY <2>2, InsertedFields
    <2> QED
        BY <1>1, <2>1, <2>3, InsertedFields
<1>2. CASE received # {}
    <2>1. lifecycle.last \in received /\ lifecycle.last \in Nat \ {0}
          /\ lifecycle.at = announced[lifecycle.last].at
          /\ lifecycle.at \in Nat
        BY <1>2 DEF ReadModelInv, ReadModelConverges, ReadModelTypeOK
    <2> DEFINE new == Inserted(i)
               newer == new.at >= lifecycle.at
               stamps == [c \in Columns |-> IF lifecycle.stamps[c] # 0 THEN lifecycle.stamps[c] ELSE new.stamps[c]]
    <2>2. Upsert(i) = [last |-> IF newer THEN i ELSE lifecycle.last,
                       at |-> IF newer THEN new.at ELSE lifecycle.at,
                       created |-> lifecycle.created,
                       stamps |-> stamps,
                       stage |-> IF lifecycle.stage = "" /\ newer THEN new.stage ELSE lifecycle.stage]
        BY <2>1 DEF Upsert
    <2>3. lifecycle.created \in Nat /\ lifecycle.stage \in FailureStages /\ lifecycle.stamps \in [Columns -> Nat]
        BY DEF ReadModelInv, ReadModelTypeOK
    <2>4. /\ new.at = announced[i].at /\ new.at \in Nat /\ new.stage \in FailureStages
          /\ new.stamps \in [Columns -> Nat]
          /\ \A c \in Columns : new.stamps[c] = IF Sets(announced[i], c) THEN announced[i].at ELSE 0
        BY InsertedFields
    <2> HIDE DEF new
    <2>5. /\ stamps \in [Columns -> Nat]
          /\ \A c \in Columns : stamps[c] = IF lifecycle.stamps[c] # 0 THEN lifecycle.stamps[c]
                                            ELSE IF Sets(announced[i], c) THEN announced[i].at ELSE 0
        BY <2>3, <2>4
    <2> HIDE DEF stamps
    <2> DEFINE last == IF newer THEN i ELSE lifecycle.last
               at == IF newer THEN new.at ELSE lifecycle.at
               stage == IF lifecycle.stage = "" /\ newer THEN new.stage ELSE lifecycle.stage
    <2>6. Upsert(i) = [last |-> last, at |-> at, created |-> lifecycle.created, stamps |-> stamps, stage |-> stage]
        BY <2>2
    <2>7. last \in Nat /\ at \in Nat /\ stage \in FailureStages
        <3>1. last \in Nat
            BY <2>1
        <3>2. at \in Nat
            BY <2>1, <2>4
        <3>3. stage \in FailureStages
            BY <2>3, <2>4
        <3> QED
            BY <3>1, <3>2, <3>3
    <2>8. last = (IF newer THEN i ELSE lifecycle.last) /\ at = (IF newer THEN new.at ELSE lifecycle.at)
        OBVIOUS
    <2> HIDE DEF last, at, stage
    <2>9. /\ Upsert(i).last = last /\ Upsert(i).at = at
          /\ Upsert(i).created = lifecycle.created /\ Upsert(i).stamps = stamps
        BY <2>6
    <2>10. Upsert(i) \in [last: Nat, at: Nat, created: Nat, stage: FailureStages, stamps: [Columns -> Nat]]
        BY <2>3, <2>5, <2>6, <2>7
    <2>11. newer <=> received = {} \/ announced[i].at >= announced[lifecycle.last].at
        BY <1>2, <2>1, <2>4
    <2>12. \A c \in Columns :
             Upsert(i).stamps[c] = IF received # {} /\ lifecycle.stamps[c] # 0 THEN lifecycle.stamps[c]
                                   ELSE IF Sets(announced[i], c) THEN announced[i].at ELSE 0
        BY <1>2, <2>5, <2>9
    <2> HIDE DEF newer
    <2> QED
        BY <1>2, <2>1, <2>4, <2>8, <2>9, <2>10, <2>11, <2>12
<1> QED
    BY <1>1, <1>2

(* One event handled for the first time (ApplyOrderEvent).                 *)
LEMMA ApplyConverges ==
    ASSUME ReadModelInv, NEW i \in 1..Len(announced), ApplyOrderEvent(i)
    PROVE  ReadModelInv'
<1> DEFINE newer == received = {} \/ announced[i].at >= announced[lifecycle.last].at
<1>1. /\ i \notin received /\ received' = received \cup {i} /\ announced' = announced
      /\ overtaken \subseteq overtaken'
      /\ (\E j \in received : j > i) => i \in overtaken'
      /\ \A j \in received : j \in overtaken' => j \in overtaken
    BY DEF ApplyOrderEvent
<1>2. /\ lifecycle' \in [last: Nat, at: Nat, created: Nat, stage: FailureStages, stamps: [Columns -> Nat]]
      /\ lifecycle'.last = IF newer THEN i ELSE lifecycle.last
      /\ lifecycle'.at = IF newer THEN announced[i].at ELSE announced[lifecycle.last].at
      /\ lifecycle'.created = IF received = {} THEN announced[i].at ELSE lifecycle.created
      /\ \A c \in Columns :
            lifecycle'.stamps[c] = IF received # {} /\ lifecycle.stamps[c] # 0 THEN lifecycle.stamps[c]
                                   ELSE IF Sets(announced[i], c) THEN announced[i].at ELSE 0
    <2>1. lifecycle' = Upsert(i)
        BY DEF ApplyOrderEvent
    <2> QED
        BY <2>1, UpsertFields
<1>3. received \subseteq 1..Len(announced) /\ Len(announced) \in Nat
    BY DEF ReadModelInv, ReadModelTypeOK
<1>4. \A j \in received \cup {i} : announced[j].at \in Nat \ {0}
    BY <1>3, InsertedFields
<1>5. received # {} =>
        /\ lifecycle.last \in received
        /\ \A j \in received :
            /\ announced[j].at <= announced[lifecycle.last].at
            /\ announced[j].at = announced[lifecycle.last].at /\ j > lifecycle.last
                   => lifecycle.last \in overtaken
        /\ \A c \in Columns :
            /\ \A j \in received : Sets(announced[j], c) => lifecycle.stamps[c] = announced[j].at
            /\ lifecycle.stamps[c] # 0 => \E j \in received : Sets(announced[j], c)
        /\ 1 \in received \ overtaken => lifecycle.created = announced[1].at
    BY DEF ReadModelInv, ReadModelConverges
<1>6. lifecycle'.last \in received'
    BY <1>1, <1>2, <1>5
<1>7. \A j \in received' : announced[j].at <= announced[lifecycle'.last].at
    <2> SUFFICES ASSUME NEW j \in received'
                 PROVE  announced[j].at <= announced[lifecycle'.last].at
        OBVIOUS
    <2>1. j \in received \/ j = i
        BY <1>1
    <2>2. announced[i].at \in Nat
        BY <1>4
    <2>3. CASE received = {}
        BY <2>1, <2>2, <2>3, <1>2
    <2>4. CASE received # {}
        <3>1. announced[j].at \in Nat /\ announced[lifecycle.last].at \in Nat
              /\ (j \in received => announced[j].at <= announced[lifecycle.last].at)
            BY <2>1, <2>4, <1>4, <1>5
        <3>2. CASE newer
            BY <3>1, <3>2, <2>1, <2>2, <2>4, <1>2
        <3>3. CASE ~newer
            BY <3>1, <3>3, <2>1, <2>2, <2>4, <1>2
        <3> QED
            BY <3>2, <3>3
    <2> QED
        BY <2>3, <2>4
<1>8. ASSUME NEW j \in received', announced[j].at = announced[lifecycle'.last].at, j > lifecycle'.last
      PROVE  lifecycle'.last \in overtaken'
    <2>1. CASE newer
        BY <2>1, <1>1, <1>2, <1>3, <1>8
    <2>2. CASE ~newer
        BY <2>2, <1>1, <1>2, <1>4, <1>5, <1>8
    <2> QED
        BY <2>1, <2>2
\* Two events of one column have one rank, hence are one event.
<1>9. ASSUME NEW j \in received, NEW c \in Columns, Sets(announced[j], c) PROVE ~Sets(announced[i], c)
    <2>1. SUFFICES ASSUME Sets(announced[i], c) PROVE FALSE
        OBVIOUS
    <2>2. Rank(announced[j].status) = Rank(announced[i].status)
        BY <1>9, <2>1, OneRankPerColumn
    <2>3. j < i \/ i < j
        BY <1>1, <1>3
    <2>4. Rank(announced[j].status) < Rank(announced[i].status) \/ Rank(announced[i].status) < Rank(announced[j].status)
        BY <2>3, <1>3 DEF ReadModelInv, StatusesRise
    <2>5. Rank(announced[j].status) \in Nat
        BY DEF Rank
    <2> QED
        BY <2>2, <2>4, <2>5
<1>10. ASSUME NEW c \in Columns, NEW j \in received', Sets(announced[j], c)
       PROVE  lifecycle'.stamps[c] = announced[j].at
    <2>1. CASE j \in received
        BY <2>1, <1>2, <1>4, <1>5, <1>10
    <2>2. CASE j = i
        <3>1. received # {} => lifecycle.stamps[c] = 0
            BY <2>2, <1>5, <1>9, <1>10
        <3> QED
            BY <3>1, <2>2, <1>2, <1>10
    <2> QED
        BY <2>1, <2>2, <1>1
<1>11. ASSUME NEW c \in Columns, lifecycle'.stamps[c] # 0
       PROVE  \E j \in received' : Sets(announced[j], c)
    BY <1>1, <1>2, <1>5, <1>11
<1>12. 1 \in received' \ overtaken' => lifecycle'.created = announced[1].at
    <2>1. CASE received = {}
        BY <2>1, <1>1, <1>2
    <2>2. CASE received # {} /\ i = 1
        <3>1. PICK j \in received : TRUE
            BY <2>2
        <3>2. j > i
            BY <3>1, <2>2, <1>1, <1>3
        <3> QED
            BY <3>1, <3>2, <2>2, <1>1
    <2>3. CASE received # {} /\ i # 1
        BY <2>3, <1>1, <1>2, <1>5
    <2> QED
        BY <2>1, <2>2, <2>3
<1>13. ReadModelConverges'
    BY <1>1, <1>6, <1>7, <1>8, <1>10, <1>11, <1>12 DEF ReadModelConverges, Sets
<1>14. ReadModelTypeOK' /\ StatusesRise'
    BY <1>1, <1>2, <1>3 DEF ReadModelInv, ReadModelTypeOK, StatusesRise
<1>15. received' # {} /\ lifecycle'.at = announced'[lifecycle'.last].at
    BY <1>1, <1>2
<1> QED
    BY <1>13, <1>14, <1>15 DEF ReadModelInv

(* In whatever order, and however often, the records of an order come, its *)
(* row is what the events it has seen say: the latest of them, each        *)
(* timestamp from the one event that has it (ApplyOrderEvent in analytics).*)
THEOREM ReportsConverge == ReadModelSpec => []ReadModelConverges
<1>1. ReadModelInit => ReadModelInv
    <2> SUFFICES ASSUME ReadModelInit PROVE ReadModelInv
        OBVIOUS
    <2>1. announced = <<>> /\ Len(announced) = 0 /\ received = {}
        BY DEF ReadModelInit
    <2>2. lifecycle \in [last: Nat, at: Nat, created: Nat, stage: FailureStages, stamps: [Columns -> Nat]]
          /\ lifecycle.last = 0
        BY DEF ReadModelInit, FailureStages
    <2> QED
        BY <2>1, <2>2 DEF ReadModelInv, ReadModelTypeOK, StatusesRise, ReadModelConverges
<1>2. ReadModelInv /\ [ReadModelNext]_readModelVars => ReadModelInv'
    <2> SUFFICES ASSUME ReadModelInv, [ReadModelNext]_readModelVars PROVE ReadModelInv'
        OBVIOUS
    <2>1. ASSUME NEW edge \in Contract!Edges, NEW clock \in Clocks, Announce(edge[2], clock)
          PROVE  ReadModelInv'
        BY <2>1, AnnounceRises
    <2>2. ASSUME NEW i \in 1..Len(announced), ApplyOrderEvent(i)
          PROVE  ReadModelInv'
        BY <2>2, ApplyConverges
    <2>3. CASE UNCHANGED readModelVars
        BY <2>3 DEF readModelVars, ReadModelInv, ReadModelTypeOK, StatusesRise, ReadModelConverges, Sets
    <2> QED
        BY <2>1, <2>2, <2>3 DEF ReadModelNext
<1>3. ReadModelInv => ReadModelConverges
    BY DEF ReadModelInv
<1> QED
    BY <1>1, <1>2, <1>3, PTL DEF ReadModelSpec

-----------------------------------------------------------------------------
\* A reader knows the version of the cart it looks for.
Past == {"get", "flight", "follow", "recheck", "lock", "wait", "load", "store"}

Pending == {w \in Writers : writer[w] # 0}

Requests == [at: Past \cup {"idle", "version", "done"}, version: Nat, since: Nat, value: Nat]

CartTypeOK ==
    /\ cart \in 1..MaxRevision /\ acked \in Nat /\ version \in Nat
    /\ cached \in [Versions -> Nat]
    /\ reader \in [Readers -> Requests]
    /\ writer \in [Writers -> Nat]

\* The version counts changes whose writers are done, so that it has a key.
VersionCounts == version + Cardinality(Pending) < cart

\* What was acknowledged is in the rows, and a reader asks for no more.
AckedIsStored ==
    /\ acked <= cart /\ \A w \in Writers : writer[w] <= cart
    /\ \A r \in Readers : reader[r].since <= acked

\* Under the current version there is nothing older than what was acknowledged,
\* and under versions to come nothing at all.
CurrentIsFresh ==
    /\ \A v \in Versions : v > version => cached[v] = 0
    /\ \A r \in Readers : reader[r].at \in Past => reader[r].version <= version
    /\ \A v \in Versions : v = version /\ cached[v] # 0 => cached[v] >= acked
    /\ \A r \in Readers : reader[r].at = "store" /\ reader[r].version = version => reader[r].value >= acked

\* Nothing stored, or about to be, under a reader's version is older than what
\* the reader asks for.
EntriesServe ==
    \A r \in Readers : reader[r].at \in Past =>
        /\ \A v \in Versions : v = reader[r].version /\ cached[v] # 0 => cached[v] >= reader[r].since
        /\ \A l \in Readers : reader[l].at = "store" /\ reader[l].version = reader[r].version
               => reader[l].value >= reader[r].since

CartInv == CartTypeOK /\ VersionCounts /\ AckedIsStored /\ CurrentIsFresh /\ EntriesServe /\ FreshRead

-----------------------------------------------------------------------------
(* A reader that goes on keeps what it knows.                              *)
LEMMA GoToFields ==
    ASSUME CartTypeOK, NEW r \in Readers, NEW at \in Past \cup {"idle", "version", "done"}, GoTo(r, at)
    PROVE  /\ reader' \in [Readers -> Requests]
           /\ \A f \in Readers : /\ reader'[f].at = IF f = r THEN at ELSE reader[f].at
                                 /\ reader'[f].version = reader[f].version
                                 /\ reader'[f].since = reader[f].since
                                 /\ reader'[f].value = reader[f].value
<1>1. reader[r] \in Requests /\ reader' = [reader EXCEPT ![r] = [reader[r] EXCEPT !.at = at]]
    BY DEF CartTypeOK, GoTo
<1>2. /\ [reader[r] EXCEPT !.at = at] \in Requests
      /\ [reader[r] EXCEPT !.at = at].at = at
      /\ [reader[r] EXCEPT !.at = at].version = reader[r].version
      /\ [reader[r] EXCEPT !.at = at].since = reader[r].since
      /\ [reader[r] EXCEPT !.at = at].value = reader[r].value
    BY <1>1 DEF Requests
<1> QED
    BY <1>1, <1>2 DEF CartTypeOK

(* An answer to one reader.                                                *)
LEMMA AnswerFields ==
    ASSUME CartTypeOK, NEW r \in Readers, NEW value \in Nat, Answer(r, value)
    PROVE  /\ reader' \in [Readers -> Requests]
           /\ \A f \in Readers : /\ reader'[f].at = IF f = r THEN "done" ELSE reader[f].at
                                 /\ reader'[f].version = reader[f].version
                                 /\ reader'[f].since = reader[f].since
                                 /\ reader'[f].value = IF f = r THEN value ELSE reader[f].value
<1>1. reader[r] \in Requests
      /\ reader' = [reader EXCEPT ![r] = [reader[r] EXCEPT !.at = "done", !.value = value]]
    BY DEF CartTypeOK, Answer
<1>2. /\ [reader[r] EXCEPT !.at = "done", !.value = value] \in Requests
      /\ [reader[r] EXCEPT !.at = "done", !.value = value].at = "done"
      /\ [reader[r] EXCEPT !.at = "done", !.value = value].version = reader[r].version
      /\ [reader[r] EXCEPT !.at = "done", !.value = value].since = reader[r].since
      /\ [reader[r] EXCEPT !.at = "done", !.value = value].value = value
    BY <1>1 DEF Requests
<1> QED
    BY <1>1, <1>2 DEF CartTypeOK

(* The result of a flight reaches its leader and readers of its version.   *)
LEMMA SharedFields ==
    ASSUME CartTypeOK, NEW r \in Readers, NEW at \in {"idle", "done"}, NEW value \in Nat,
           Shared(r, at, value)
    PROVE  /\ reader' \in [Readers -> Requests]
           /\ \A f \in Readers :
                 /\ reader'[f].version = reader[f].version /\ reader'[f].since = reader[f].since
                 /\ \/ reader'[f].at = reader[f].at /\ reader'[f].value = reader[f].value /\ f # r
                    \/ /\ reader'[f].at = at /\ reader'[f].value = value
                       /\ f = r \/ (reader[f].at = "follow" /\ reader[f].version = reader[r].version)
<1>1. ASSUME NEW f \in Readers
      PROVE  /\ [reader[f] EXCEPT !.at = at, !.value = value] \in Requests
             /\ [reader[f] EXCEPT !.at = at, !.value = value].at = at
             /\ [reader[f] EXCEPT !.at = at, !.value = value].version = reader[f].version
             /\ [reader[f] EXCEPT !.at = at, !.value = value].since = reader[f].since
             /\ [reader[f] EXCEPT !.at = at, !.value = value].value = value
    <2>1. reader[f] \in Requests
        BY DEF CartTypeOK
    <2> QED
        BY <2>1 DEF Requests
<1>2. \A f \in Readers :
          \/ reader'[f] = reader[f] /\ f # r
          \/ /\ reader'[f] = [reader[f] EXCEPT !.at = at, !.value = value]
             /\ f = r \/ (reader[f].at = "follow" /\ reader[f].version = reader[r].version)
    BY DEF Shared, Leads
<1>3. reader' \in [Readers -> Requests]
    <2>1. \A f \in Readers : reader'[f] \in Requests
        BY <1>1, <1>2 DEF CartTypeOK
    <2> QED
        BY <2>1 DEF Shared
<1> QED
    BY <1>1, <1>2, <1>3

(* The writers that have still to invalidate.                              *)
LEMMA PendingFinite == IsFiniteSet(Pending) /\ Cardinality(Pending) \in Nat
<1>1. Pending \subseteq Writers
    BY DEF Pending
<1> QED
    BY <1>1, WritersAssumption, FS_Subset, FS_CardinalityType

(* The version never runs out of keys.                                     *)
LEMMA VersionHasKey ==
    ASSUME CartTypeOK, VersionCounts
    PROVE  version \in Versions
BY PendingFinite, WritersAssumption DEF CartTypeOK, VersionCounts, Versions

(* The key of a reader is a version that was.                              *)
LEMMA ReaderHasKey ==
    ASSUME CartInv, NEW r \in Readers, reader[r].at \in Past
    PROVE  reader[r].version \in Versions /\ Entry(r) \in Nat /\ (Entry(r) # 0 => Entry(r) >= reader[r].since)
<1>1. version \in Versions /\ version \in Nat
    BY VersionHasKey DEF CartInv, CartTypeOK
<1>2. reader[r].version \in Nat /\ reader[r].version <= version
    BY DEF CartInv, CartTypeOK, Requests, CurrentIsFresh
<1>3. reader[r].version \in Versions
    BY <1>1, <1>2, WritersAssumption DEF Versions
<1> QED
    BY <1>3 DEF CartInv, CartTypeOK, EntriesServe, Entry

(* A change of the rows, with a writer to invalidate it or without.        *)
LEMMA ChangeKeeps ==
    ASSUME CartInv, (\E w \in Writers : ChangeCart(w)) \/ RestoreCartItems
    PROVE  CartInv'
<1> USE DEF CartInv
<1>1. /\ cart' = cart + 1 /\ UNCHANGED <<acked, version, cached, stampede, reader>> /\ cart < MaxRevision
      /\ writer' \in [Writers -> Nat] /\ \A w \in Writers : writer'[w] = writer[w] \/ writer'[w] = cart + 1
    BY DEF ChangeCart, RestoreCartItems, CartTypeOK
<1>2. CartTypeOK'
    BY <1>1, WritersAssumption DEF CartTypeOK, Versions
<1>3. VersionCounts'
    <2>1. Cardinality(Pending') \in Nat /\ Cardinality(Pending') <= Cardinality(Pending) + 1
        <3>1. ASSUME NEW w \in Writers, ChangeCart(w)
              PROVE  Cardinality(Pending') \in Nat /\ Cardinality(Pending') <= Cardinality(Pending) + 1
            <4>1. Pending' = Pending \cup {w} /\ w \notin Pending
                BY <3>1 DEF ChangeCart, Pending, CartTypeOK
            <4> QED
                BY <4>1, PendingFinite, FS_AddElement
        <3>2. CASE RestoreCartItems
            BY <3>2, PendingFinite DEF RestoreCartItems, Pending
        <3> QED
            BY <3>1, <3>2
    <2> QED
        BY <1>1, <2>1, PendingFinite DEF VersionCounts, CartTypeOK
<1>4. AckedIsStored'
    BY <1>1 DEF AckedIsStored, CartTypeOK, Requests
<1>5. CurrentIsFresh' /\ EntriesServe' /\ FreshRead'
    BY <1>1 DEF CurrentIsFresh, EntriesServe, FreshRead, Versions
<1> QED
    BY <1>2, <1>3, <1>4, <1>5

(* The end of a writer, with a new version or without.                     *)
LEMMA WriterEndKeeps ==
    ASSUME CartInv, NEW w \in Writers, InvalidateCart(w) \/ InvalidationFails(w)
    PROVE  CartInv'
<1> USE DEF CartInv
<1>1. /\ writer[w] # 0 /\ writer' = [writer EXCEPT ![w] = 0] /\ UNCHANGED <<cart, cached, reader>>
      /\ \/ version' = version + 1 /\ acked' = IF writer[w] > acked THEN writer[w] ELSE acked
         \/ version' = version /\ acked' = acked
    BY DEF InvalidateCart, InvalidationFails, Acknowledge
<1>2. CartTypeOK' /\ acked' >= acked /\ acked' <= cart
    BY <1>1 DEF CartTypeOK, AckedIsStored
<1>3. VersionCounts'
    <2>1. Pending' = Pending \ {w} /\ w \in Pending
        BY <1>1 DEF Pending, CartTypeOK
    <2>2. Cardinality(Pending') = Cardinality(Pending) - 1
        BY <2>1, PendingFinite, FS_RemoveElement
    <2> QED
        BY <1>1, <2>2, PendingFinite DEF VersionCounts, CartTypeOK
<1>4. AckedIsStored'
    BY <1>1, <1>2 DEF AckedIsStored, CartTypeOK, Requests
<1>5. CurrentIsFresh'
    <2>1. version \in Nat /\ \A r \in Readers : reader[r].version \in Nat
        BY DEF CartTypeOK, Requests
    <2>2. \A v \in Versions : v \in Nat
        BY WritersAssumption DEF Versions
    <2>3. CASE version' = version /\ acked' = acked
        BY <1>1, <2>3 DEF CurrentIsFresh, Versions
    <2>4. CASE version' = version + 1
        BY <1>1, <2>1, <2>2, <2>4 DEF CurrentIsFresh, Past, Versions
    <2> QED
        BY <1>1, <2>3, <2>4
<1>6. EntriesServe' /\ FreshRead'
    BY <1>1 DEF EntriesServe, FreshRead, Versions
<1> QED
    BY <1>2, <1>3, <1>4, <1>5, <1>6

(* A list that begins asks for what was acknowledged.                      *)
LEMMA ListKeeps ==
    ASSUME CartInv, NEW r \in Readers, ListCart(r)
    PROVE  CartInv'
<1> USE DEF CartInv
<1> DEFINE fresh == [at |-> "version", version |-> 0, since |-> acked, value |-> 0]
<1>1. reader' = [reader EXCEPT ![r] = fresh] /\ UNCHANGED <<cart, acked, version, writer, cached>>
    BY DEF ListCart, ReaderStep
<1>2. fresh \in Requests /\ fresh.since = acked /\ fresh.at \notin Past \cup {"done"}
    BY DEF Requests, CartTypeOK, Past
<1> HIDE DEF fresh
<1>3. \A f \in Readers : reader'[f] = IF f = r THEN fresh ELSE reader[f]
    BY <1>1 DEF CartTypeOK
<1>4. CartTypeOK' /\ VersionCounts'
    BY <1>1, <1>2 DEF CartTypeOK, VersionCounts, Pending, Versions
<1>5. AckedIsStored'
    BY <1>1, <1>2, <1>3 DEF AckedIsStored, CartTypeOK
<1>6. CurrentIsFresh' /\ EntriesServe' /\ FreshRead'
    BY <1>1, <1>2, <1>3 DEF CurrentIsFresh, EntriesServe, FreshRead, Past, Versions
<1> QED
    BY <1>4, <1>5, <1>6

(* A reader that learns the current version finds only what is fresh.      *)
LEMMA ReadVersionKeeps ==
    ASSUME CartInv, NEW r \in Readers, ReadVersion(r)
    PROVE  CartInv'
<1> USE DEF CartInv
<1>1. UNCHANGED <<cart, acked, version, writer, cached>> /\ reader[r].at = "version"
    BY DEF ReadVersion, ReaderStep
<1>2. cart \in Nat /\ version \in Nat /\ acked \in Nat /\ reader[r].since <= acked /\ acked <= cart
      /\ reader[r].since \in Nat
    BY DEF CartTypeOK, AckedIsStored, Requests
<1>3. CASE Answer(r, cart)
    <2>1. /\ reader' \in [Readers -> Requests]
          /\ \A f \in Readers : /\ reader'[f].at = IF f = r THEN "done" ELSE reader[f].at
                                /\ reader'[f].version = reader[f].version
                                /\ reader'[f].since = reader[f].since
                                /\ reader'[f].value = IF f = r THEN cart ELSE reader[f].value
        BY <1>2, <1>3, AnswerFields
    <2>2. CartTypeOK' /\ VersionCounts' /\ AckedIsStored'
        BY <1>1, <2>1 DEF CartTypeOK, VersionCounts, Pending, Versions, AckedIsStored
    <2>3. CurrentIsFresh' /\ EntriesServe' /\ FreshRead'
        BY <1>1, <1>2, <2>1 DEF CurrentIsFresh, EntriesServe, FreshRead, Past, Versions
    <2> QED
        BY <2>2, <2>3
<1>4. CASE reader' = [reader EXCEPT ![r].at = "get", ![r].version = version]
    <2>1. /\ reader' \in [Readers -> Requests]
          /\ \A f \in Readers : /\ reader'[f].at = IF f = r THEN "get" ELSE reader[f].at
                                /\ reader'[f].version = IF f = r THEN version ELSE reader[f].version
                                /\ reader'[f].since = reader[f].since
                                /\ reader'[f].value = reader[f].value
        <3>1. reader[r] \in Requests
              /\ reader' = [reader EXCEPT ![r] = [reader[r] EXCEPT !.at = "get", !.version = version]]
            BY <1>4 DEF CartTypeOK
        <3>2. /\ [reader[r] EXCEPT !.at = "get", !.version = version] \in Requests
              /\ [reader[r] EXCEPT !.at = "get", !.version = version].at = "get"
              /\ [reader[r] EXCEPT !.at = "get", !.version = version].version = version
              /\ [reader[r] EXCEPT !.at = "get", !.version = version].since = reader[r].since
              /\ [reader[r] EXCEPT !.at = "get", !.version = version].value = reader[r].value
            BY <1>2, <3>1 DEF Requests, Past
        <3> QED
            BY <3>1, <3>2 DEF CartTypeOK
    <2>2. CartTypeOK' /\ VersionCounts' /\ AckedIsStored'
        BY <1>1, <2>1 DEF CartTypeOK, VersionCounts, Pending, Versions, AckedIsStored
    <2>3. CurrentIsFresh' /\ FreshRead'
        BY <1>1, <1>2, <2>1 DEF CurrentIsFresh, FreshRead, Versions
    <2>4. EntriesServe'
        <3>1. \A v \in Versions : v = version /\ cached[v] # 0 => cached[v] >= reader[r].since
            BY <1>2 DEF CurrentIsFresh, CartTypeOK
        <3>2. \A l \in Readers : reader[l].at = "store" /\ reader[l].version = version
                  => reader[l].value >= reader[r].since
            BY <1>2 DEF CurrentIsFresh, CartTypeOK, Requests
        <3> QED
            BY <1>1, <2>1, <3>1, <3>2 DEF EntriesServe, Versions
    <2> QED
        BY <2>2, <2>3, <2>4
<1> QED
    BY <1>3, <1>4 DEF ReadVersion

(* A reader that only goes on, or waits for a leader.                      *)
LEMMA GoToKeeps ==
    ASSUME CartInv, NEW r \in Readers, NEW at \in (Past \cup {"idle"}) \ {"store"}, GoTo(r, at),
           at = "idle" \/ reader[r].at \in Past, UNCHANGED <<cart, acked, version, cached, writer>>
    PROVE  CartInv'
<1> USE DEF CartInv
<1>1. /\ reader' \in [Readers -> Requests]
      /\ \A f \in Readers : /\ reader'[f].at = IF f = r THEN at ELSE reader[f].at
                            /\ reader'[f].version = reader[f].version
                            /\ reader'[f].since = reader[f].since
                            /\ reader'[f].value = reader[f].value
    BY GoToFields
<1>2. CartTypeOK' /\ VersionCounts' /\ AckedIsStored'
    BY <1>1 DEF CartTypeOK, VersionCounts, Pending, Versions, AckedIsStored
<1>3. CurrentIsFresh' /\ EntriesServe' /\ FreshRead'
    BY <1>1 DEF CurrentIsFresh, EntriesServe, FreshRead, Past, Versions
<1> QED
    BY <1>2, <1>3

(* A result that serves everyone who gets it.                              *)
LEMMA SharedKeeps ==
    ASSUME CartInv, NEW r \in Readers, NEW value \in Nat, NEW at \in {"idle", "done"},
           Shared(r, at, value), UNCHANGED <<cart, acked, version, writer>>,
           reader[r].at \in Past,
           at = "done" => \A f \in Readers :
               reader[f].at \in Past /\ reader[f].version = reader[r].version => value >= reader[f].since,
           \/ cached' = cached
           \/ cached' = [cached EXCEPT ![reader[r].version] = value] /\ reader[r].at = "store"
              /\ value = reader[r].value
    PROVE  CartInv'
<1> USE DEF CartInv
<1>1. /\ reader' \in [Readers -> Requests]
      /\ \A f \in Readers :
            /\ reader'[f].version = reader[f].version /\ reader'[f].since = reader[f].since
            /\ \/ reader'[f].at = reader[f].at /\ reader'[f].value = reader[f].value /\ f # r
               \/ /\ reader'[f].at = at /\ reader'[f].value = value
                  /\ f = r \/ (reader[f].at = "follow" /\ reader[f].version = reader[r].version)
    BY SharedFields
<1>2. CartTypeOK' /\ VersionCounts' /\ AckedIsStored'
    BY <1>1 DEF CartTypeOK, VersionCounts, Pending, Versions, AckedIsStored
<1>3. FreshRead'
    BY <1>1 DEF FreshRead, Past
<1>4. CASE cached' = cached
    BY <1>1, <1>2, <1>3, <1>4 DEF CurrentIsFresh, EntriesServe, Past, Versions
<1>5. CASE /\ cached' = [cached EXCEPT ![reader[r].version] = value]
           /\ reader[r].at = "store" /\ value = reader[r].value
    <2>1. \A v \in Versions : cached'[v] = IF v = reader[r].version THEN value ELSE cached[v]
        BY <1>5 DEF CartTypeOK
    <2>2. reader[r].version \in Nat /\ reader[r].version <= version /\ version \in Nat
        BY DEF CurrentIsFresh, CartTypeOK, Requests
    <2>3. CurrentIsFresh'
        BY <1>1, <1>5, <2>1, <2>2, WritersAssumption DEF CurrentIsFresh, Past, Versions
    <2>4. EntriesServe'
        BY <1>1, <1>5, <2>1 DEF EntriesServe, Past, Versions
    <2> QED
        BY <1>2, <1>3, <2>3, <2>4
<1> QED
    BY <1>4, <1>5

(* An entry serves the readers of its version.                             *)
LEMMA EntryShared ==
    ASSUME CartInv, NEW r \in Readers, reader[r].at \in Past, Entry(r) # NoEntry,
           Shared(r, "done", Entry(r)) \/ Answer(r, Entry(r)),
           UNCHANGED <<cart, acked, version, cached, writer>>
    PROVE  CartInv'
<1> USE DEF CartInv
<1>1. Entry(r) \in Nat /\ Entry(r) >= reader[r].since /\ reader[r].version \in Versions
    BY ReaderHasKey DEF NoEntry
<1>2. CASE Shared(r, "done", Entry(r))
    <2>1. \A f \in Readers :
              reader[f].at \in Past /\ reader[f].version = reader[r].version => Entry(r) >= reader[f].since
        BY <1>1 DEF EntriesServe, Entry, NoEntry
    <2> HIDE DEF CartInv
    <2> QED
        BY <1>1, <1>2, <2>1, SharedKeeps
<1>3. CASE Answer(r, Entry(r))
    <2>1. /\ reader' \in [Readers -> Requests]
          /\ \A f \in Readers : /\ reader'[f].at = IF f = r THEN "done" ELSE reader[f].at
                                /\ reader'[f].version = reader[f].version
                                /\ reader'[f].since = reader[f].since
                                /\ reader'[f].value = IF f = r THEN Entry(r) ELSE reader[f].value
        BY <1>1, <1>3, AnswerFields
    <2>2. CartTypeOK' /\ VersionCounts' /\ AckedIsStored'
        BY <2>1 DEF CartTypeOK, VersionCounts, Pending, Versions, AckedIsStored
    <2>3. CurrentIsFresh' /\ EntriesServe' /\ FreshRead'
        BY <1>1, <2>1 DEF CurrentIsFresh, EntriesServe, FreshRead, Past, Versions
    <2> QED
        BY <2>2, <2>3
<1> QED
    BY <1>2, <1>3

(* The rows a leader loads are no older than what anyone asks for.         *)
LEMMA LoadKeeps ==
    ASSUME CartInv, NEW r \in Readers, Load(r)
    PROVE  CartInv'
<1> USE DEF CartInv
<1>1. UNCHANGED <<cart, acked, version, writer, cached>> /\ reader[r].at = "load"
    BY DEF Load, ReaderStep
<1>2. CASE Shared(r, "idle", 0)
    <2> HIDE DEF CartInv
    <2> QED
        BY <1>1, <1>2, SharedKeeps DEF Past
<1>3. CASE reader' = [reader EXCEPT ![r].at = "store", ![r].value = cart]
    <2>1. /\ reader' \in [Readers -> Requests]
          /\ \A f \in Readers : /\ reader'[f].at = IF f = r THEN "store" ELSE reader[f].at
                                /\ reader'[f].version = reader[f].version
                                /\ reader'[f].since = reader[f].since
                                /\ reader'[f].value = IF f = r THEN cart ELSE reader[f].value
        <3>0. cart \in Nat
            BY DEF CartTypeOK
        <3>1. reader[r] \in Requests
              /\ reader' = [reader EXCEPT ![r] = [reader[r] EXCEPT !.at = "store", !.value = cart]]
            BY <1>3 DEF CartTypeOK
        <3>2. /\ [reader[r] EXCEPT !.at = "store", !.value = cart] \in Requests
              /\ [reader[r] EXCEPT !.at = "store", !.value = cart].at = "store"
              /\ [reader[r] EXCEPT !.at = "store", !.value = cart].version = reader[r].version
              /\ [reader[r] EXCEPT !.at = "store", !.value = cart].since = reader[r].since
              /\ [reader[r] EXCEPT !.at = "store", !.value = cart].value = cart
            BY <3>0, <3>1 DEF Requests, Past
        <3> QED
            BY <3>1, <3>2 DEF CartTypeOK
    <2>2. CartTypeOK' /\ VersionCounts' /\ AckedIsStored'
        BY <1>1, <2>1 DEF CartTypeOK, VersionCounts, Pending, Versions, AckedIsStored
    <2>3. cart >= acked /\ \A f \in Readers : cart >= reader[f].since
        BY DEF AckedIsStored, CartTypeOK, Requests
    <2>4. CurrentIsFresh' /\ EntriesServe' /\ FreshRead'
        BY <1>1, <2>1, <2>3 DEF CurrentIsFresh, EntriesServe, FreshRead, Past, Versions
    <2> QED
        BY <2>2, <2>4
<1> QED
    BY <1>2, <1>3 DEF Load

(* What a leader stores and shares it has loaded late enough for all.      *)
LEMMA StoreKeeps ==
    ASSUME CartInv, NEW r \in Readers, Store(r)
    PROVE  CartInv'
<1>1. /\ UNCHANGED <<cart, acked, version, writer>> /\ reader[r].at = "store"
      /\ Shared(r, "done", reader[r].value)
      /\ cached' = cached \/ cached' = [cached EXCEPT ![reader[r].version] = reader[r].value]
    BY DEF Store, ReaderStep
<1>2. reader[r].value \in Nat
    BY DEF CartInv, CartTypeOK, Requests
<1>3. \A f \in Readers :
          reader[f].at \in Past /\ reader[f].version = reader[r].version => reader[r].value >= reader[f].since
    BY <1>1 DEF CartInv, EntriesServe
<1> QED
    BY <1>1, <1>2, <1>3, SharedKeeps DEF Past

(* The steps of a reader that change neither the database nor the shared   *)
(* result.                                                                 *)
LEMMA ReaderKeeps ==
    ASSUME CartInv, NEW r \in Readers,
           \/ ReadCache(r) \/ JoinFlight(r) \/ TryLock(r) \/ WaitForCache(r) \/ Return(r)
    PROVE  CartInv'
<1>1. UNCHANGED <<cart, acked, version, cached, writer>>
    BY DEF ReadCache, JoinFlight, TryLock, WaitForCache, Return, ReaderStep
<1>2. CASE ReadCache(r)
    BY <1>1, <1>2, GoToKeeps, EntryShared DEF ReadCache, Past
<1>3. CASE JoinFlight(r)
    <2>1. GoTo(r, "follow") \/ GoTo(r, "recheck")
        BY <1>3 DEF JoinFlight
    <2> QED
        BY <1>1, <1>3, <2>1, GoToKeeps DEF JoinFlight, Past
<1>4. CASE TryLock(r)
    BY <1>1, <1>4, GoToKeeps DEF TryLock, Past
<1>5. CASE WaitForCache(r)
    BY <1>1, <1>5, GoToKeeps, EntryShared DEF WaitForCache, Past
<1>6. CASE Return(r)
    BY <1>1, <1>6, GoToKeeps DEF Return
<1> QED
    BY <1>2, <1>3, <1>4, <1>5, <1>6

(* Entries and locks may go at any time.                                   *)
LEMMA ExpireKeeps ==
    ASSUME CartInv, (\E v \in Versions : Expire(v)) \/ UNCHANGED cartVars
    PROVE  CartInv'
<1>1. /\ UNCHANGED <<cart, acked, version, reader, writer>>
      /\ cached' \in [Versions -> Nat] /\ \A v \in Versions : cached'[v] = cached[v] \/ cached'[v] = 0
    BY DEF Expire, NoEntry, cartVars, CartInv, CartTypeOK
<1>2. CartTypeOK' /\ VersionCounts' /\ AckedIsStored'
    BY <1>1 DEF CartInv, CartTypeOK, VersionCounts, Pending, AckedIsStored, Versions
<1>3. CurrentIsFresh' /\ EntriesServe' /\ FreshRead'
    BY <1>1 DEF CartInv, CurrentIsFresh, EntriesServe, FreshRead, Versions
<1> QED
    BY <1>2, <1>3 DEF CartInv

(* A list that begins after a change returned, its invalidation done,      *)
(* shows the change, for any number of readers, replicas and writers and   *)
(* whatever locks and entries expire (cache.go, store.go).                 *)
THEOREM CartReadsAreFresh == CartSpec => []FreshRead
<1>1. CartInit => CartInv
    <2> SUFFICES ASSUME CartInit PROVE CartInv
        OBVIOUS
    <2>1. Pending = {} /\ Cardinality({}) = 0
        BY FS_EmptySet DEF CartInit, Pending
    <2>2. CartTypeOK
        BY WritersAssumption DEF CartInit, CartTypeOK, Requests, NoEntry, Versions
    <2>3. VersionCounts /\ AckedIsStored
        BY <2>1 DEF CartInit, VersionCounts, AckedIsStored
    <2>4. CurrentIsFresh /\ EntriesServe /\ FreshRead
        BY DEF CartInit, CurrentIsFresh, EntriesServe, FreshRead, Past, NoEntry
    <2> QED
        BY <2>2, <2>3, <2>4 DEF CartInv
<1>2. CartInv /\ [CartNext]_cartVars => CartInv'
    BY ChangeKeeps, WriterEndKeeps, ListKeeps, ReadVersionKeeps, ReaderKeeps, LoadKeeps, StoreKeeps, ExpireKeeps
       DEF CartNext
<1> QED
    BY <1>1, <1>2, PTL DEF CartSpec, CartInv
=============================================================================
