--------------------------- MODULE ChatConversation ---------------------------
(***************************************************************************)
(* One support conversation: CreateMessage, UpdateMessage,                 *)
(* SoftDeleteMessage and MarkRead in                                       *)
(* internal/chat/adapter/postgres/repository.go.                           *)
(***************************************************************************)
EXTENDS Naturals, Sequences

CONSTANTS
    Members,        \* the customer and administrators who may take part
    ChatTxs,        \* concurrent transactions
    MaxMessages,    \* bound: messages of the conversation
    MaxEdits        \* bound: edits of one message

VARIABLES
    messages,       \* rows by sequence_number
    lastMessage,    \* last_message_sequence and what last_message_preview shows
    lastRead,       \* last_read_sequence of each member
    chatTx          \* a transaction and what it has read

chatVars == <<messages, lastMessage, lastRead, chatTx>>

DeletedText == "deleted"
NoChatTx == [op |-> "none", by |-> "none", of |-> 0, deleted |-> FALSE]

ChatInit ==
    /\ messages = <<>>
    /\ lastMessage = [of |-> 0, shows |-> 0]
    /\ lastRead = [m \in Members |-> 0]
    /\ chatTx = [q \in ChatTxs |-> NoChatTx]

ConversationLocked == \E q \in ChatTxs : chatTx[q].op = "create"

\* lockConversation; the sequence number comes from the locked row.
BeginMessage(q, m) ==
    /\ chatTx[q].op = "none" /\ ~ConversationLocked /\ Len(messages) < MaxMessages
    /\ chatTx' = [chatTx EXCEPT ![q] = [op |-> "create", by |-> m, of |-> lastMessage.of + 1, deleted |-> FALSE]]
    /\ UNCHANGED <<messages, lastMessage, lastRead>>

CreateMessage(q) ==
    /\ chatTx[q].op = "create"
    /\ LET m == chatTx[q].by
           n == chatTx[q].of IN
        /\ messages' = Append(messages, [by |-> m, text |-> 1, deleted |-> FALSE])
        /\ lastMessage' = [of |-> n, shows |-> 1]
        /\ lastRead' = [lastRead EXCEPT ![m] = IF n > @ THEN n ELSE @]
    /\ chatTx' = [chatTx EXCEPT ![q] = NoChatTx]

\* findMessage takes no lock.
FindMessage(q, n, op) ==
    /\ chatTx[q].op = "none"
    /\ ~messages[n].deleted
    /\ chatTx' = [chatTx EXCEPT ![q] = [op |-> op, by |-> messages[n].by, of |-> n, deleted |-> FALSE]]
    /\ UNCHANGED <<messages, lastMessage, lastRead>>

\* Mutation: the preview is written without last_message_sequence in its WHERE.
PreviewOfAny(n, text) == lastMessage' = [lastMessage EXCEPT !.shows = text]

UpdateLastPreview(n, text) ==
    lastMessage' = IF lastMessage.of = n THEN [lastMessage EXCEPT !.shows = text] ELSE lastMessage

\* The update of the message row and of the preview, which waits for a message
\* that is being created; a deletion since FindMessage goes unseen.
UpdateMessage(q) ==
    /\ chatTx[q].op = "edit" /\ ~ConversationLocked
    /\ LET n == chatTx[q].of IN
        /\ messages[n].text < MaxEdits
        /\ messages' = [messages EXCEPT ![n].text = @ + 1]
        /\ UpdateLastPreview(n, messages[n].text + 1)
    /\ chatTx' = [chatTx EXCEPT ![q] = NoChatTx]
    /\ UNCHANGED lastRead

SoftDeleteMessage(q) ==
    /\ chatTx[q].op = "delete" /\ ~ConversationLocked
    /\ messages' = [messages EXCEPT ![chatTx[q].of].deleted = TRUE]
    /\ UpdateLastPreview(chatTx[q].of, DeletedText)
    /\ chatTx' = [chatTx EXCEPT ![q] = NoChatTx]
    /\ UNCHANGED lastRead

\* A sequence beyond the last message, or 0, stands for the last message.
MarkRead(m, n) ==
    /\ ~ConversationLocked
    /\ LET upTo == IF n = 0 \/ n > lastMessage.of THEN lastMessage.of ELSE n IN
        lastRead' = [lastRead EXCEPT ![m] = IF upTo > @ THEN upTo ELSE @]
    /\ UNCHANGED <<messages, lastMessage, chatTx>>

ChatTxFails(q) ==
    /\ chatTx[q].op # "none"
    /\ chatTx' = [chatTx EXCEPT ![q] = NoChatTx]
    /\ UNCHANGED <<messages, lastMessage, lastRead>>

ChatNext ==
    \/ \E q \in ChatTxs :
        \/ \E m \in Members : BeginMessage(q, m)
        \/ \E n \in 1..Len(messages), op \in {"edit", "delete"} : FindMessage(q, n, op)
        \/ CreateMessage(q) \/ UpdateMessage(q) \/ SoftDeleteMessage(q) \/ ChatTxFails(q)
    \/ \E m \in Members, n \in 0..MaxMessages : MarkRead(m, n)

ChatSpec == ChatInit /\ [][ChatNext]_chatVars

-----------------------------------------------------------------------------
\* The preview of a conversation belongs to its newest message and, unless that
\* one is deleted, shows its current text, while messages are written, edited and
\* deleted at once; nobody has his own message unread.
PreviewIsOfLast ==
    /\ lastMessage.of = Len(messages)
    /\ messages # <<>> =>
        LET newest == messages[Len(messages)] IN
            newest.deleted \/ lastMessage.shows = newest.text
    /\ \A n \in 1..Len(messages) : lastRead[messages[n].by] >= n
=============================================================================
