---------------------------- MODULE MessagingProofs ----------------------------
(***************************************************************************)
(* For any number of sockets, members, transactions, devices and workers:  *)
(* a broadcast never sends on a closed channel, a conversation's preview   *)
(* is of its newest message, and no delivery is sent more often than it    *)
(* was claimed.                                                            *)
(***************************************************************************)
EXTENDS ChatHub, ChatConversation, NotificationDelivery, FiniteSetTheorems, TLAPS

HubTypeOK ==
    /\ socket \in [Sockets -> {"new", "added", "open", "dropped", "gone"}]
    /\ clients \subseteq Sockets /\ closedChannels \subseteq Sockets /\ broadcast \subseteq Sockets
    /\ broadcasting \in BOOLEAN

\* A socket in the map has its channel open; a broadcast visits sockets that were
\* in the map when it took the lock, and nothing leaves the map until it is over.
HubInv ==
    /\ HubTypeOK
    /\ broadcast \subseteq clients /\ (~broadcasting => broadcast = {})
    /\ \A s \in clients : socket[s] \in {"added", "open"}
    /\ \A s \in closedChannels : socket[s] \in {"dropped", "gone"}

(* Every step of the hub keeps its maps and channels together.             *)
LEMMA HubStep == HubInv /\ [HubNext]_hubVars => HubInv'
<1> SUFFICES ASSUME HubInv, [HubNext]_hubVars PROVE HubInv'
    OBVIOUS
<1> USE DEF HubInv, HubTypeOK
<1>1. ASSUME NEW s \in Sockets,
             RegisterSocket(s) \/ CountIn(s) \/ UnregisterSocket(s) \/ CountOut(s)
      PROVE  HubInv'
    BY <1>1 DEF RegisterSocket, CountIn, UnregisterSocket, Drop, CountOut, Move
<1>2. ASSUME NEW s \in Sockets, Deliver(s) \/ Write(s)
      PROVE  HubInv'
    BY <1>2 DEF Deliver, Write
<1>3. CASE BeginBroadcast \/ EndBroadcast \/ PresenceExpires \/ UNCHANGED hubVars
    BY <1>3 DEF BeginBroadcast, EndBroadcast, PresenceExpires, hubVars
<1> QED
    BY <1>1, <1>2, <1>3 DEF HubNext

(* The gateway never panics on a send to a closed channel: unregister      *)
(* closes it under the lock a broadcast holds (chat_realtime.go).          *)
THEOREM HubNeverSendsOnClosed == HubSpec => []NoSendOnClosed
<1>1. HubInit => HubInv
    BY DEF HubInit, HubInv, HubTypeOK
<1>2. HubInv => NoSendOnClosed
    BY DEF HubInv, HubTypeOK, NoSendOnClosed
<1> QED
    BY <1>1, <1>2, HubStep, PTL DEF HubSpec

-----------------------------------------------------------------------------
MessageRows == [by: Members, text: Nat, deleted: BOOLEAN]
ChatTxRecords ==
    [op: {"none", "create", "edit", "delete"}, by: Members \cup {"none"}, of: Nat, deleted: BOOLEAN]

ChatTypeOK ==
    /\ messages \in Seq(MessageRows)
    /\ lastMessage \in [of: Nat, shows: Nat \cup {DeletedText}]
    /\ lastRead \in [Members -> Nat]
    /\ chatTx \in [ChatTxs -> ChatTxRecords]

\* The conversation row has one holder, who writes the next message; an edit or a
\* deletion names a message there is.
NextIsFree ==
    /\ \A q \in ChatTxs : chatTx[q].op = "create" =>
           chatTx[q].of = lastMessage.of + 1 /\ chatTx[q].by \in Members
    /\ \A p, q \in ChatTxs : chatTx[p].op = "create" /\ chatTx[q].op = "create" => p = q
    /\ \A q \in ChatTxs : chatTx[q].op \in {"edit", "delete"} => chatTx[q].of \in 1..Len(messages)

ChatInv == ChatTypeOK /\ NextIsFree /\ PreviewIsOfLast

(* Every row of the conversation is well formed.                           *)
LEMMA RowsTyped ==
    ASSUME ChatTypeOK, NEW i \in 1..Len(messages)
    PROVE  /\ messages[i] \in MessageRows /\ messages[i].by \in Members
           /\ messages[i].text \in Nat /\ messages[i].deleted \in BOOLEAN
           /\ messages[i] = [by |-> messages[i].by, text |-> messages[i].text,
                             deleted |-> messages[i].deleted]
<1>1. messages[i] \in MessageRows
    BY DEF ChatTypeOK
<1> QED
    BY <1>1 DEF MessageRows

(* An edit and a deletion leave a row well formed and its author the same. *)
LEMMA RowChanges ==
    ASSUME NEW row \in MessageRows
    PROVE  /\ [row EXCEPT !.text = @ + 1] \in MessageRows
           /\ [row EXCEPT !.text = @ + 1].by = row.by
           /\ [row EXCEPT !.deleted = TRUE] \in MessageRows
           /\ [row EXCEPT !.deleted = TRUE].by = row.by
<1>1. row.text + 1 \in Nat
    BY DEF MessageRows
<1>2. ASSUME NEW text \in Nat
      PROVE  [row EXCEPT !.text = text] \in MessageRows /\ [row EXCEPT !.text = text].by = row.by
    BY DEF MessageRows
<1>3. [row EXCEPT !.deleted = TRUE] \in MessageRows /\ [row EXCEPT !.deleted = TRUE].by = row.by
    BY DEF MessageRows
<1> QED
    BY <1>1, <1>2, <1>3

(* The lock of the conversation row gives a new message the next number.   *)
LEMMA CreateMessageKeeps ==
    ASSUME ChatInv, NEW q \in ChatTxs, CreateMessage(q)
    PROVE  ChatInv'
<1> USE DEF ChatInv, CreateMessage
<1> DEFINE m == chatTx[q].by
           n == chatTx[q].of
<1>1. m \in Members /\ n = Len(messages) + 1 /\ n \in Nat
    BY DEF ChatTypeOK, NextIsFree, PreviewIsOfLast
<1>2. NoChatTx \in ChatTxRecords /\ NoChatTx.op = "none"
    BY DEF NoChatTx, ChatTxRecords
<1>3. /\ messages' = Append(messages, [by |-> m, text |-> 1, deleted |-> FALSE])
      /\ lastMessage' = [of |-> n, shows |-> 1]
      /\ lastRead' = [lastRead EXCEPT ![m] = IF n > @ THEN n ELSE @]
      /\ chatTx' = [chatTx EXCEPT ![q] = NoChatTx]
    OBVIOUS
<1>4. messages' \in Seq(MessageRows) /\ Len(messages') = n
    <2>1. [by |-> m, text |-> 1, deleted |-> FALSE] \in MessageRows
        BY <1>1 DEF MessageRows
    <2> QED
        BY <1>1, <1>3, <2>1 DEF ChatTypeOK
<1> HIDE DEF CreateMessage, n, m
<1>5. ChatTypeOK'
    BY <1>1, <1>2, <1>3, <1>4 DEF ChatTypeOK
<1>6. NextIsFree'
    <2>1. \A p \in ChatTxs : chatTx'[p] = IF p = q THEN NoChatTx ELSE chatTx[p]
        BY <1>3 DEF ChatTypeOK
    <2>2. \A p \in ChatTxs : chatTx'[p].op # "create"
        BY <1>2, <2>1 DEF NextIsFree, CreateMessage
    <2>3. \A p \in ChatTxs : chatTx'[p].op \in {"edit", "delete"} => chatTx'[p].of \in 1..Len(messages)
        BY <1>2, <2>1 DEF NextIsFree
    <2> QED
        BY <1>1, <1>4, <2>2, <2>3 DEF NextIsFree
<1>7. PreviewIsOfLast'
    <2>1. \A i \in 1..Len(messages) : messages'[i] = messages[i]
        BY <1>1, <1>3 DEF ChatTypeOK
    <2>2. messages'[n] = [by |-> m, text |-> 1, deleted |-> FALSE]
        BY <1>1, <1>3 DEF ChatTypeOK
    <2>3. \A i \in 1..n : lastRead'[messages'[i].by] >= i
        <3>1. \A p \in Members : lastRead'[p] >= lastRead[p] /\ lastRead[p] \in Nat /\ lastRead'[p] \in Nat
            BY <1>1, <1>3 DEF ChatTypeOK
        <3>2. \A i \in 1..Len(messages) : messages[i].by \in Members /\ lastRead[messages[i].by] >= i
            BY RowsTyped DEF PreviewIsOfLast
        <3>3. lastRead'[m] >= n
            BY <1>1, <1>3 DEF ChatTypeOK
        <3>4. \A i \in 1..Len(messages) : lastRead'[messages[i].by] >= i
            BY <3>1, <3>2
        <3> QED
            BY <1>1, <2>1, <2>2, <3>3, <3>4
    <2> QED
        BY <1>3, <1>4, <2>2, <2>3 DEF PreviewIsOfLast
<1> QED
    BY <1>5, <1>6, <1>7

(* Reads of a message and ends of a transaction write nothing.             *)
LEMMA ChatReadsKeep ==
    ASSUME ChatInv, NEW q \in ChatTxs,
           \/ \E m \in Members : BeginMessage(q, m)
           \/ \E n \in 1..Len(messages), op \in {"edit", "delete"} : FindMessage(q, n, op)
           \/ ChatTxFails(q)
    PROVE  ChatInv'
<1> USE DEF ChatInv
<1>1. UNCHANGED <<messages, lastMessage, lastRead>>
    BY DEF BeginMessage, FindMessage, ChatTxFails
<1>2. PreviewIsOfLast'
    BY <1>1 DEF PreviewIsOfLast
<1>3. ChatTypeOK' /\ NextIsFree'
    <2>1. ASSUME NEW m \in Members, BeginMessage(q, m)
          PROVE  ChatTypeOK' /\ NextIsFree'
        BY <1>1, <2>1 DEF BeginMessage, ConversationLocked, ChatTypeOK, ChatTxRecords, NextIsFree
    <2>2. ASSUME NEW n \in 1..Len(messages), NEW op \in {"edit", "delete"}, FindMessage(q, n, op)
          PROVE  ChatTypeOK' /\ NextIsFree'
        <3>1. messages[n].by \in Members /\ n \in Nat
            <4>1. n \in Nat
                OBVIOUS
            <4> QED
                BY <4>1, RowsTyped
        <3> QED
            BY <1>1, <2>2, <3>1 DEF FindMessage, ChatTypeOK, ChatTxRecords, NextIsFree
    <2>3. CASE ChatTxFails(q)
        BY <1>1, <2>3 DEF ChatTxFails, NoChatTx, ChatTypeOK, ChatTxRecords, NextIsFree
    <2> QED
        BY <2>1, <2>2, <2>3
<1> QED
    BY <1>2, <1>3

(* An edit or a deletion of the newest message writes the preview as well. *)
LEMMA ChangesKeep ==
    ASSUME ChatInv, NEW q \in ChatTxs, UpdateMessage(q) \/ SoftDeleteMessage(q)
    PROVE  ChatInv'
<1> USE DEF ChatInv
<1> DEFINE n == chatTx[q].of
<1>1. n \in 1..Len(messages) /\ chatTx' = [chatTx EXCEPT ![q] = NoChatTx] /\ lastRead' = lastRead
    BY DEF UpdateMessage, SoftDeleteMessage, NextIsFree
<1>2. NoChatTx \in ChatTxRecords /\ NoChatTx.op = "none"
    BY DEF NoChatTx, ChatTxRecords
<1>3. /\ Len(messages') = Len(messages) /\ messages' \in Seq(MessageRows)
      /\ \A i \in 1..Len(messages) : messages'[i].by = messages[i].by
      /\ \A i \in 1..Len(messages) : i # n => messages'[i] = messages[i]
    <2>1. ASSUME NEW row \in MessageRows, messages' = [messages EXCEPT ![n] = row],
                 row.by = messages[n].by
          PROVE  /\ Len(messages') = Len(messages) /\ messages' \in Seq(MessageRows)
                 /\ \A i \in 1..Len(messages) : messages'[i].by = messages[i].by
                 /\ \A i \in 1..Len(messages) : i # n => messages'[i] = messages[i]
        BY <1>1, <2>1 DEF ChatTypeOK
    <2>2. /\ [messages[n] EXCEPT !.text = @ + 1] \in MessageRows
          /\ [messages[n] EXCEPT !.text = @ + 1].by = messages[n].by
          /\ [messages[n] EXCEPT !.deleted = TRUE] \in MessageRows
          /\ [messages[n] EXCEPT !.deleted = TRUE].by = messages[n].by
        <3>1. messages[n] \in MessageRows
            BY <1>1, RowsTyped
        <3> QED
            BY <3>1, RowChanges
    <2>3. \/ messages' = [messages EXCEPT ![n] = [messages[n] EXCEPT !.text = @ + 1]]
          \/ messages' = [messages EXCEPT ![n] = [messages[n] EXCEPT !.deleted = TRUE]]
        BY DEF UpdateMessage, SoftDeleteMessage
    <2> QED
        BY <2>1, <2>2, <2>3
<1>4. /\ lastMessage'.of = lastMessage.of /\ lastMessage' \in [of: Nat, shows: Nat \cup {DeletedText}]
      /\ lastMessage.of # n => lastMessage' = lastMessage
      /\ lastMessage.of = n => messages'[n].deleted \/ lastMessage'.shows = messages'[n].text
    <2>1. messages[n] \in MessageRows
        BY <1>1 DEF ChatTypeOK
    <2>2. PICK text \in Nat \cup {DeletedText} :
              UpdateLastPreview(n, text) /\ (messages'[n].deleted \/ text = messages'[n].text)
        <3>1. CASE UpdateMessage(q)
            BY <1>1, <2>1, <3>1 DEF UpdateMessage, ChatTypeOK, MessageRows
        <3>2. CASE SoftDeleteMessage(q)
            BY <1>1, <2>1, <3>2 DEF SoftDeleteMessage, ChatTypeOK, MessageRows
        <3> QED
            BY <3>1, <3>2
    <2> QED
        BY <2>2 DEF UpdateLastPreview, ChatTypeOK
<1> HIDE DEF n
<1>5. ChatTypeOK'
    BY <1>1, <1>2, <1>3, <1>4 DEF ChatTypeOK
<1>6. NextIsFree'
    BY <1>1, <1>2, <1>3, <1>4 DEF NextIsFree, ChatTypeOK
<1>7. PreviewIsOfLast'
    BY <1>1, <1>3, <1>4 DEF PreviewIsOfLast, ChatTypeOK
<1> QED
    BY <1>5, <1>6, <1>7

(* Reading marks only move forward.                                        *)
LEMMA MarkReadKeeps ==
    ASSUME ChatInv, NEW m \in Members, NEW n \in 0..MaxMessages, MarkRead(m, n)
    PROVE  ChatInv'
<1> USE DEF ChatInv
<1>1. /\ UNCHANGED <<messages, lastMessage, chatTx>> /\ lastRead' \in [Members -> Nat]
      /\ \A p \in Members : lastRead'[p] >= lastRead[p] /\ lastRead[p] \in Nat
    BY DEF MarkRead, ChatTypeOK
<1>2. \A i \in 1..Len(messages) : messages[i].by \in Members
    BY RowsTyped
<1> QED
    BY <1>1, <1>2 DEF ChatTypeOK, NextIsFree, PreviewIsOfLast

(* A conversation's preview belongs to its newest message and shows its    *)
(* text, and nobody has his own message unread, however many transactions  *)
(* write, edit and delete at once (internal/chat/adapter/postgres).        *)
THEOREM ConversationPreview == ChatSpec => []PreviewIsOfLast
<1>1. ChatInit => ChatInv
    BY DEF ChatInit, NoChatTx, ChatInv, ChatTypeOK, ChatTxRecords, NextIsFree, PreviewIsOfLast
<1>2. ChatInv /\ [ChatNext]_chatVars => ChatInv'
    <2>1. ChatInv /\ UNCHANGED chatVars => ChatInv'
        BY DEF chatVars, ChatInv, ChatTypeOK, NextIsFree, PreviewIsOfLast
    <2> QED
        BY <2>1, CreateMessageKeeps, ChatReadsKeep, ChangesKeep, MarkReadKeeps DEF ChatNext
<1> QED
    BY <1>1, <1>2, PTL DEF ChatSpec, ChatInv

-----------------------------------------------------------------------------
Rows == [status: {"none", "skipped", "sent"} \cup Unfinished, attempts: Nat, recent: BOOLEAN]
Outcomes == Deliveries \X {"sent", "failed", "invalid"}
Work == [claimed: SUBSET Deliveries, outcome: {<<>>} \cup Outcomes]

NoticeTypeOK ==
    /\ device \in [Devices -> {"unknown", "enabled", "disabled"}]
    /\ delivery \in [Deliveries -> Rows]
    /\ sender \in [Senders -> Work]
    /\ sends \in [Deliveries -> Nat]

\* Workers that have claimed x and not called the provider with it yet.
Due(x) == {w \in Senders : x \in sender[w].claimed
                           /\ (sender[w].outcome = <<>> \/ sender[w].outcome[1] # x)}

\* Only rows of processed events are claimed, sent or counted.
OnlyProcessed ==
    /\ \A x \in Deliveries : x[1] \notin inbox =>
           delivery[x].status = "none" /\ delivery[x].attempts = 0
    /\ \A w \in Senders :
        /\ \A x \in sender[w].claimed : x[1] \in inbox
        /\ sender[w].outcome # <<>> => sender[w].outcome[1][1] \in inbox

\* Every call of the provider, made or still to be made, is an attempt that was
\* counted with its claim, and no claim takes a row at its limit.
CallsAreCounted ==
    \A x \in Deliveries :
        /\ sends[x] + Cardinality(Due(x)) <= delivery[x].attempts
        /\ delivery[x].attempts <= MaxAttempts

NoticeInv == NoticeTypeOK /\ OnlyProcessed /\ CallsAreCounted

(* The workers that still have to send x are finitely many.                *)
LEMMA DueFinite ==
    ASSUME NEW x
    PROVE  IsFiniteSet(Due(x)) /\ Cardinality(Due(x)) \in Nat
<1>1. Due(x) \subseteq Senders
    BY DEF Due
<1> QED
    BY <1>1, SendersAssumption, FS_Subset, FS_CardinalityType

(* Fewer workers, no more calls to come.                                   *)
LEMMA DueShrinks ==
    ASSUME NEW x, Due(x)' \subseteq Due(x)
    PROVE  Cardinality(Due(x)') \in Nat /\ Cardinality(Due(x)') <= Cardinality(Due(x))
BY DueFinite, FS_Subset, FS_CardinalityType

(* One worker more, one call more to come.                                 *)
LEMMA DueGrows ==
    ASSUME NEW x, NEW w \in Senders, Due(x)' \subseteq Due(x) \cup {w}
    PROVE  Cardinality(Due(x)') \in Nat /\ Cardinality(Due(x)') <= Cardinality(Due(x)) + 1
<1> DEFINE D == Due(x) \cup {w}
<1>1. IsFiniteSet(D) /\ Cardinality(D) <= Cardinality(Due(x)) + 1 /\ Cardinality(D) \in Nat
    <2>1. IsFiniteSet(Due(x)) /\ Cardinality(Due(x)) \in Nat
        BY DueFinite
    <2> HIDE DEF D
    <2>2. IsFiniteSet(Due(x) \cup {w})
          /\ Cardinality(Due(x) \cup {w}) = IF w \in Due(x) THEN Cardinality(Due(x)) ELSE Cardinality(Due(x)) + 1
        BY <2>1, FS_AddElement
    <2> QED
        BY <2>1, <2>2, FS_CardinalityType DEF D
<1>2. Due(x)' \subseteq D
    OBVIOUS
<1> HIDE DEF D
<1>3. Cardinality(Due(x)') <= Cardinality(D) /\ Cardinality(Due(x)') \in Nat
    BY <1>1, <1>2, FS_Subset, FS_CardinalityType
<1> QED
    BY <1>1, <1>3, DueFinite

(* One worker that has sent x has one call less to make.                   *)
LEMMA DueLoses ==
    ASSUME NEW x, NEW w \in Due(x), Due(x)' = Due(x) \ {w}
    PROVE  Cardinality(Due(x)') = Cardinality(Due(x)) - 1
BY DueFinite, FS_RemoveElement

(* As long as the counts of attempts stay and no worker claims, nothing    *)
(* that was counted is lost.                                               *)
LEMMA QuietSteps ==
    ASSUME NoticeInv, sends' = sends, NoticeTypeOK',
           \A x \in Deliveries : delivery'[x].attempts = delivery[x].attempts /\ Due(x)' \subseteq Due(x)
    PROVE  CallsAreCounted'
<1> SUFFICES ASSUME NEW x \in Deliveries
             PROVE  /\ sends'[x] + Cardinality(Due(x)') <= delivery'[x].attempts
                    /\ delivery'[x].attempts <= MaxAttempts
    BY DEF CallsAreCounted
<1>1. Cardinality(Due(x)') \in Nat /\ Cardinality(Due(x)') <= Cardinality(Due(x)) /\ Cardinality(Due(x)) \in Nat
    BY DueShrinks, DueFinite
<1>2. sends[x] \in Nat /\ delivery[x].attempts \in Nat
    BY DEF NoticeInv, NoticeTypeOK, Rows
<1> QED
    BY <1>1, <1>2, SendersAssumption DEF NoticeInv, CallsAreCounted

(* A worker's record with one field written.                               *)
LEMMA WorkChanges ==
    ASSUME NEW work \in Work, NEW c, NEW o
    PROVE  /\ [work EXCEPT !.claimed = c] = [claimed |-> c, outcome |-> work.outcome]
           /\ [work EXCEPT !.outcome = o] = [claimed |-> work.claimed, outcome |-> o]
BY DEF Work

(* The rows of an event that was processed for the first time start anew.  *)
LEMMA ProcessEventKeeps ==
    ASSUME NoticeInv, NEW e \in Inputs, ProcessEvent(e)
    PROVE  NoticeInv'
<1> USE DEF NoticeInv, ProcessEvent
<1>1. NoticeTypeOK'
    BY DEF NoticeTypeOK, Rows, Unfinished
<1>2. \A x \in Deliveries : delivery'[x].attempts = delivery[x].attempts
    BY DEF OnlyProcessed
<1>3. OnlyProcessed'
    BY DEF OnlyProcessed
<1>4. \A x \in Deliveries : Due(x)' = Due(x)
    BY DEF Due
<1> QED
    BY <1>1, <1>2, <1>3, <1>4, QuietSteps

(* Disabling a device changes the status of unfinished rows only.          *)
LEMMA DisabledKeeps ==
    ASSUME NoticeInv, NEW d \in Channels, Disabled(d)
    PROVE  /\ device' \in [Devices -> {"unknown", "enabled", "disabled"}]
           /\ delivery' \in [Deliveries -> Rows]
           /\ \A x \in Deliveries : /\ delivery'[x].attempts = delivery[x].attempts
                                    /\ delivery[x].status = "none" => delivery'[x].status = "none"
<1> USE DEF NoticeInv, NoticeTypeOK, Disabled
<1>1. device' \in [Devices -> {"unknown", "enabled", "disabled"}]
    OBVIOUS
<1>2. ASSUME NEW x \in Deliveries
      PROVE  /\ delivery'[x] \in Rows
             /\ delivery'[x].attempts = delivery[x].attempts
             /\ delivery[x].status = "none" => delivery'[x].status = "none"
    BY DEF Rows, Unfinished
<1> QED
    BY <1>1, <1>2

(* Registering or removing a device changes no attempt that was counted.   *)
LEMMA DevicesKeep ==
    ASSUME NoticeInv, NEW d \in Devices, RegisterDevice(d) \/ UnregisterDevice(d)
    PROVE  NoticeInv'
<1> USE DEF NoticeInv
<1>1. UNCHANGED <<inbox, sender, sends>>
    BY DEF RegisterDevice, UnregisterDevice
<1>2. /\ device' \in [Devices -> {"unknown", "enabled", "disabled"}]
      /\ delivery' \in [Deliveries -> Rows]
      /\ \A x \in Deliveries : /\ delivery'[x].attempts = delivery[x].attempts
                               /\ delivery[x].status = "none" => delivery'[x].status = "none"
    BY DisabledKeeps DEF Channels, RegisterDevice, UnregisterDevice, NoticeTypeOK
<1>3. NoticeTypeOK' /\ OnlyProcessed'
    BY <1>1, <1>2 DEF NoticeTypeOK, OnlyProcessed
<1>4. \A x \in Deliveries : Due(x)' = Due(x)
    BY <1>1 DEF Due
<1> QED
    BY <1>1, <1>2, <1>3, <1>4, QuietSteps

(* A claim counts an attempt for each row it takes.                        *)
LEMMA ClaimKeeps ==
    ASSUME NoticeInv, NEW w \in Senders, NEW kind \in {"email", "push"}, ClaimRetryable(w, kind)
    PROVE  NoticeInv'
<1> USE DEF NoticeInv, ClaimRetryable, ClaimFor
<1> DEFINE taken == Retryable(kind)
<1>1. taken \subseteq Deliveries
      /\ \A x \in taken : delivery[x].attempts < MaxAttempts /\ delivery[x].status # "none"
    BY DEF Retryable
<1>2. /\ sender' = [sender EXCEPT ![w].claimed = taken]
      /\ \A x \in Deliveries : delivery'[x] = IF x \in taken
             THEN [status |-> "sending", attempts |-> delivery[x].attempts + 1, recent |-> TRUE]
             ELSE delivery[x]
      /\ UNCHANGED <<inbox, device, sends>> /\ sender[w].claimed = {}
      /\ delivery' = [x \in Deliveries |-> delivery'[x]]
    OBVIOUS
<1> HIDE DEF taken, ClaimRetryable, ClaimFor
<1>3. NoticeTypeOK'
    <2>1. ASSUME NEW x \in Deliveries
          PROVE  delivery'[x] \in Rows
        <3>1. delivery[x] \in Rows /\ delivery[x].attempts + 1 \in Nat
            BY DEF NoticeTypeOK, Rows
        <3>2. [status |-> "sending", attempts |-> delivery[x].attempts + 1, recent |-> TRUE] \in Rows
            BY <3>1 DEF Rows, Unfinished
        <3> QED
            BY <1>2, <3>1, <3>2
    <2>2. [sender[w] EXCEPT !.claimed = taken] \in Work
        BY <1>1 DEF NoticeTypeOK, Work
    <2> QED
        BY <1>2, <2>1, <2>2 DEF NoticeTypeOK
<1>4. sender' = [v \in Senders |-> IF v = w THEN [claimed |-> taken, outcome |-> sender[w].outcome] ELSE sender[v]]
    <2>1. sender \in [Senders -> Work]
        BY DEF NoticeTypeOK
    <2>2. [sender[w] EXCEPT !.claimed = taken] = [claimed |-> taken, outcome |-> sender[w].outcome]
        BY <2>1, WorkChanges
    <2> QED
        BY <1>2, <2>1, <2>2
<1>5. OnlyProcessed'
    BY <1>1, <1>2, <1>4 DEF OnlyProcessed
<1>6. CallsAreCounted'
    <2> SUFFICES ASSUME NEW x \in Deliveries
                 PROVE  /\ sends'[x] + Cardinality(Due(x)') <= delivery'[x].attempts
                        /\ delivery'[x].attempts <= MaxAttempts
        BY DEF CallsAreCounted
    <2>1. /\ sends[x] \in Nat /\ delivery[x].attempts \in Nat /\ Cardinality(Due(x)) \in Nat
          /\ sends'[x] = sends[x] /\ sends[x] + Cardinality(Due(x)) <= delivery[x].attempts
          /\ delivery[x].attempts <= MaxAttempts
        BY <1>2, DueFinite DEF NoticeTypeOK, Rows, CallsAreCounted
    <2>2. CASE x \in taken
        <3>1. Due(x)' \subseteq Due(x) \cup {w}
            BY <1>4 DEF Due
        <3>2. Cardinality(Due(x)') \in Nat /\ Cardinality(Due(x)') <= Cardinality(Due(x)) + 1
            BY <3>1, DueGrows
        <3> QED
            BY <1>1, <1>2, <2>1, <2>2, <3>2, SendersAssumption
    <2>3. CASE x \notin taken
        <3>1. Due(x)' \subseteq Due(x)
            BY <1>4, <2>3 DEF Due
        <3> QED
            BY <1>2, <2>1, <2>3, <3>1, DueShrinks
    <2> QED
        BY <2>2, <2>3
<1> QED
    BY <1>3, <1>5, <1>6

(* A call of the provider uses up the worker's claim of the row.           *)
LEMMA SendKeeps ==
    ASSUME NoticeInv, NEW w \in Senders, NEW x \in Deliveries, Send(w, x)
    PROVE  NoticeInv'
<1> USE DEF NoticeInv
<1>1. PICK outcome \in {"sent", "failed", "invalid"} : sender' = [sender EXCEPT ![w].outcome = <<x, outcome>>]
    BY DEF Send
<1>2. /\ x \in sender[w].claimed /\ sender[w].outcome = <<>> /\ sends' = [sends EXCEPT ![x] = @ + 1]
      /\ UNCHANGED <<inbox, device, delivery>>
    BY DEF Send
<1>3. sender' = [v \in Senders |-> IF v = w THEN [claimed |-> sender[w].claimed, outcome |-> <<x, outcome>>] ELSE sender[v]]
    <2>1. sender \in [Senders -> Work]
        BY DEF NoticeTypeOK
    <2>2. [sender[w] EXCEPT !.outcome = <<x, outcome>>] = [claimed |-> sender[w].claimed, outcome |-> <<x, outcome>>]
        BY <2>1, WorkChanges
    <2> QED
        BY <1>1, <2>1, <2>2
<1>4. <<x, outcome>> # <<>> /\ <<x, outcome>>[1] = x /\ <<x, outcome>> \in Outcomes
    BY DEF Outcomes
<1>5. NoticeTypeOK'
    <2>1. [claimed |-> sender[w].claimed, outcome |-> <<x, outcome>>] \in Work
        BY <1>4 DEF NoticeTypeOK, Work
    <2> QED
        BY <1>2, <1>3, <2>1 DEF NoticeTypeOK
<1>6. OnlyProcessed'
    BY <1>2, <1>3, <1>4 DEF OnlyProcessed
<1>7. w \in Due(x) /\ Due(x)' = Due(x) \ {w}
    BY <1>2, <1>3, <1>4 DEF Due
<1>8. \A y \in Deliveries : y # x => Due(y)' = Due(y)
    BY <1>2, <1>3, <1>4 DEF Due
<1>9. CallsAreCounted'
    <2> SUFFICES ASSUME NEW y \in Deliveries
                 PROVE  /\ sends'[y] + Cardinality(Due(y)') <= delivery'[y].attempts
                        /\ delivery'[y].attempts <= MaxAttempts
        BY DEF CallsAreCounted
    <2>1. /\ sends[y] \in Nat /\ delivery[y].attempts \in Nat /\ Cardinality(Due(y)) \in Nat
          /\ sends[y] + Cardinality(Due(y)) <= delivery[y].attempts
          /\ delivery[y].attempts <= MaxAttempts /\ delivery' = delivery
        BY <1>2, DueFinite DEF NoticeTypeOK, Rows, CallsAreCounted
    <2>2. CASE y = x
        <3>1. Cardinality(Due(x)') = Cardinality(Due(x)) - 1
            BY <1>7, DueLoses
        <3>2. sends'[y] = sends[y] + 1
            BY <1>2, <2>2 DEF NoticeTypeOK
        <3> QED
            BY <2>1, <2>2, <3>1, <3>2
    <2>3. CASE y # x
        BY <1>2, <1>8, <2>1, <2>3 DEF NoticeTypeOK
    <2> QED
        BY <2>2, <2>3
<1> QED
    BY <1>5, <1>6, <1>9

(* The record of an outcome ends a claim and leaves the counts alone.      *)
LEMMA RecordKeeps ==
    ASSUME NoticeInv, NEW w \in Senders, RecordOutcome(w)
    PROVE  NoticeInv'
<1> USE DEF NoticeInv
<1> DEFINE x == sender[w].outcome[1]
           result == sender[w].outcome[2]
           work == [claimed |-> sender[w].claimed \ {x}, outcome |-> <<>>]
<1>1. sender[w] \in Work /\ sender[w].outcome # <<>>
    BY DEF NoticeTypeOK, RecordOutcome
<1>2. /\ x \in Deliveries /\ x[1] \in inbox /\ result \in {"sent", "failed", "invalid"}
      /\ result = "invalid" \/ result \in {"sent", "failed"}
    BY <1>1 DEF Work, Outcomes, OnlyProcessed
<1>3. /\ UNCHANGED <<inbox, sends>> /\ sender' = [sender EXCEPT ![w] = work]
      /\ \/ IF result = "invalid" THEN Disabled(x[2])
              ELSE /\ delivery' = [delivery EXCEPT ![x].status = result, ![x].recent = TRUE]
                   /\ UNCHANGED device
         \/ UNCHANGED <<device, delivery>>
    BY DEF RecordOutcome
<1>4. work \in Work
    BY <1>1 DEF Work
<1>5. /\ device' \in [Devices -> {"unknown", "enabled", "disabled"}]
      /\ delivery' \in [Deliveries -> Rows]
      /\ \A y \in Deliveries : /\ delivery'[y].attempts = delivery[y].attempts
                               /\ y # x /\ delivery[y].status = "none" => delivery'[y].status = "none"
    <2>1. CASE UNCHANGED <<device, delivery>>
        BY <2>1 DEF NoticeTypeOK
    <2>2. CASE result = "invalid" /\ Disabled(x[2])
        <3>1. x[2] \in Channels
            BY <1>2 DEF Deliveries
        <3> QED
            BY <2>2, <3>1, DisabledKeeps
    <2>3. CASE /\ result # "invalid" /\ UNCHANGED device
               /\ delivery' = [delivery EXCEPT ![x].status = result, ![x].recent = TRUE]
        <3>1. delivery[x] \in Rows /\ result \in {"sent", "failed"}
            BY <1>2, <2>3 DEF NoticeTypeOK
        <3>2. /\ [delivery[x] EXCEPT !.status = result, !.recent = TRUE] \in Rows
              /\ [delivery[x] EXCEPT !.status = result, !.recent = TRUE].attempts = delivery[x].attempts
            BY <3>1 DEF Rows, Unfinished
        <3> HIDE DEF x, result
        <3> QED
            BY <1>2, <2>3, <3>2 DEF NoticeTypeOK
    <2> QED
        BY <1>3, <2>1, <2>2, <2>3
<1>6. NoticeTypeOK'
    BY <1>3, <1>4, <1>5 DEF NoticeTypeOK
<1>7. OnlyProcessed'
    BY <1>1, <1>2, <1>3, <1>5 DEF OnlyProcessed, NoticeTypeOK
<1>8. \A y \in Deliveries : Due(y)' \subseteq Due(y)
    BY <1>1, <1>3 DEF Due, NoticeTypeOK
<1> QED
    BY <1>3, <1>5, <1>6, <1>7, <1>8, QuietSteps

(* A worker that stops gives up its claims; a delay that ends only makes a *)
(* row due again.                                                          *)
LEMMA StopsKeep ==
    ASSUME NoticeInv,
           \/ \E w \in Senders : SenderStops(w)
           \/ \E x \in Deliveries : DelayPasses(x)
           \/ UNCHANGED noticeVars
    PROVE  NoticeInv'
<1> USE DEF NoticeInv
<1>1. ASSUME NEW w \in Senders, SenderStops(w)
      PROVE  NoticeInv'
    <2>1. /\ sender' = [sender EXCEPT ![w] = [claimed |-> {}, outcome |-> <<>>]]
          /\ UNCHANGED <<inbox, device, delivery, sends>>
        BY <1>1 DEF SenderStops
    <2>2. [claimed |-> {}, outcome |-> <<>>] \in Work
        BY DEF Work
    <2>3. NoticeTypeOK'
        BY <2>1, <2>2 DEF NoticeTypeOK
    <2>4. OnlyProcessed' /\ \A x \in Deliveries : Due(x)' \subseteq Due(x)
        BY <2>1 DEF NoticeTypeOK, OnlyProcessed, Due
    <2> QED
        BY <2>1, <2>3, <2>4, QuietSteps
<1>2. ASSUME NEW x \in Deliveries, DelayPasses(x)
      PROVE  NoticeInv'
    <2>1. /\ delivery' = [delivery EXCEPT ![x].recent = FALSE]
          /\ UNCHANGED <<inbox, device, sender, sends>>
        BY <1>2 DEF DelayPasses
    <2>2. delivery[x] \in Rows
        BY DEF NoticeTypeOK
    <2>3. /\ [delivery[x] EXCEPT !.recent = FALSE] \in Rows
          /\ [delivery[x] EXCEPT !.recent = FALSE].attempts = delivery[x].attempts
          /\ [delivery[x] EXCEPT !.recent = FALSE].status = delivery[x].status
        BY <2>2 DEF Rows
    <2>4. NoticeTypeOK'
        BY <2>1, <2>3 DEF NoticeTypeOK
    <2>5. \A y \in Deliveries : delivery'[y].attempts = delivery[y].attempts /\ delivery'[y].status = delivery[y].status
        BY <2>1, <2>3 DEF NoticeTypeOK
    <2>6. OnlyProcessed' /\ \A y \in Deliveries : Due(y)' \subseteq Due(y)
        BY <2>1, <2>5 DEF OnlyProcessed, Due
    <2> QED
        BY <2>1, <2>4, <2>5, <2>6, QuietSteps
<1>3. CASE UNCHANGED noticeVars
    <2>1. NoticeTypeOK' /\ OnlyProcessed' /\ \A x \in Deliveries : Due(x)' \subseteq Due(x)
        BY <1>3 DEF noticeVars, NoticeTypeOK, OnlyProcessed, Due
    <2> QED
        BY <1>3, <2>1, QuietSteps DEF noticeVars
<1> QED
    BY <1>1, <1>2, <1>3

(* At first no message has been handled, and so nothing is due and nothing *)
(* sent.                                                                   *)
LEMMA NoticeInvInit == NoticeInit => NoticeInv
<1> SUFFICES ASSUME NoticeInit PROVE NoticeInv
    OBVIOUS
<1>1. NoRow \in Rows
    BY DEF NoRow, Rows
<1>2. NoticeTypeOK
    <2>1. [claimed |-> {}, outcome |-> <<>>] \in Work
        BY DEF Work
    <2> QED
        BY <1>1, <2>1 DEF NoticeInit, NoticeTypeOK
<1>3. OnlyProcessed
    BY DEF NoticeInit, OnlyProcessed, NoRow
<1>4. CallsAreCounted
    <2>1. \A x \in Deliveries : Due(x) = {}
        BY DEF NoticeInit, Due
    <2> QED
        <3>1. \A x \in Deliveries : Cardinality(Due(x)) = 0
            BY <2>1, FS_EmptySet
        <3> QED
            BY <3>1, SendersAssumption DEF NoticeInit, CallsAreCounted, NoRow
<1> QED
    BY <1>2, <1>3, <1>4 DEF NoticeInv

(* Nobody gets a message more than MaxAttempts times, although a row may   *)
(* be claimed again while its holder still works on it and outcomes are    *)
(* recorded by id alone (notification/adapter/postgres/repository.go).     *)
THEOREM DeliveriesBounded == NoticeSpec => []SendsBounded
<1>1. NoticeInv /\ [NoticeNext]_noticeVars => NoticeInv'
    BY ProcessEventKeeps, DevicesKeep, ClaimKeeps, SendKeeps, RecordKeeps, StopsKeep DEF NoticeNext
<1>2. NoticeInv => SendsBounded
    <2> SUFFICES ASSUME NoticeInv, NEW x \in Deliveries PROVE sends[x] <= MaxAttempts
        BY DEF SendsBounded
    <2>1. sends[x] \in Nat /\ delivery[x].attempts \in Nat /\ Cardinality(Due(x)) \in Nat
        BY DueFinite DEF NoticeInv, NoticeTypeOK, Rows
    <2> QED
        BY <2>1, SendersAssumption DEF NoticeInv, CallsAreCounted
<1> QED
    BY <1>1, <1>2, NoticeInvInit, PTL DEF NoticeSpec
=============================================================================
