------------------------- MODULE NotificationDelivery -------------------------
(***************************************************************************)
(* E-mail and push deliveries of one customer's notifications:             *)
(* ProcessEvent, the claims and the outcomes in                            *)
(* internal/notification/adapter/postgres/repository.go, ProcessEmails and *)
(* ProcessPushes in internal/notification/application/service.go.          *)
(***************************************************************************)
EXTENDS Naturals, FiniteSets

CONSTANTS
    Inputs,         \* event ids the consumer receives, each any number of times
    Devices,        \* push installations
    Senders,        \* replicas of the delivery worker
    MaxAttempts     \* email_max_attempts, push_max_attempts

ASSUME SendersAssumption == IsFiniteSet(Senders) /\ MaxAttempts \in Nat

VARIABLES
    inbox,          \* event ids processed
    device,         \* "unknown", "enabled" or "disabled"
    delivery,       \* rows by event and channel
    sender,         \* deliveries each worker has claimed, with the outcome of the first
    sends           \* calls of the provider for each delivery (history)

noticeVars == <<inbox, device, delivery, sender, sends>>

Channels == Devices \cup {"email"}
Deliveries == Inputs \X Channels
NoRow == [status |-> "none", attempts |-> 0, recent |-> FALSE]
Unfinished == {"pending", "failed", "sending"}

NoticeInit ==
    /\ inbox = {}
    /\ device = [d \in Devices |-> "unknown"]
    /\ delivery = [x \in Deliveries |-> NoRow]
    /\ sender = [w \in Senders |-> [claimed |-> {}, outcome |-> <<>>]]
    /\ sends = [x \in Deliveries |-> 0]

\* A repeated event finds its id in the inbox and changes nothing.
ProcessEvent(e) ==
    /\ e \notin inbox
    /\ inbox' = inbox \cup {e}
    /\ delivery' = [x \in Deliveries |->
           IF x[1] = e /\ (x[2] = "email" \/ device[x[2]] = "enabled")
             THEN [status |-> "pending", attempts |-> 0, recent |-> FALSE] ELSE delivery[x]]
    /\ UNCHANGED <<device, sender, sends>>

\* A registration token that has moved to d disables the device it was on.
RegisterDevice(d) ==
    /\ \E moved \in SUBSET {v \in Devices \ {d} : device[v] = "enabled"} :
        device' = [v \in Devices |->
            IF v = d THEN "enabled" ELSE IF v \in moved THEN "disabled" ELSE device[v]]
    /\ UNCHANGED <<inbox, delivery, sender, sends>>

\* UnregisterDevice and DisableInstallation skip what is not finished.
Disabled(d) ==
    /\ device' = [device EXCEPT ![d] = "disabled"]
    /\ delivery' = [x \in Deliveries |->
           IF x[2] = d /\ delivery[x].status \in Unfinished
             THEN [delivery[x] EXCEPT !.status = "skipped", !.recent = TRUE] ELSE delivery[x]]

UnregisterDevice(d) ==
    /\ device[d] # "unknown"
    /\ Disabled(d)
    /\ UNCHANGED <<inbox, sender, sends>>

Retryable(kind) ==
    {x \in Deliveries :
        /\ (x[2] = "email") = (kind = "email")
        /\ delivery[x].attempts < MaxAttempts
        /\ \/ delivery[x].status = "pending"
           \/ delivery[x].status \in {"failed", "sending"} /\ ~delivery[x].recent
        /\ x[2] = "email" \/ device[x[2]] = "enabled"}

\* E-mails and pushes are claimed by separate calls.
ClaimFor(w, kind, counted) ==
    /\ sender[w].claimed = {} /\ Retryable(kind) # {}
    /\ sender' = [sender EXCEPT ![w].claimed = Retryable(kind)]
    /\ delivery' = [x \in Deliveries |->
           IF x \in Retryable(kind)
             THEN [status |-> "sending", attempts |-> delivery[x].attempts + counted, recent |-> TRUE]
             ELSE delivery[x]]
    /\ UNCHANGED <<inbox, device, sends>>

\* Mutation: the attempt is counted with the outcome, not with the claim.
ClaimUncounted(w, kind) == ClaimFor(w, kind, 0)

ClaimRetryable(w, kind) == ClaimFor(w, kind, 1)

Send(w, x) ==
    /\ x \in sender[w].claimed /\ sender[w].outcome = <<>>
    /\ sends' = [sends EXCEPT ![x] = @ + 1]
    /\ \E outcome \in {"sent", "failed"} \cup IF x[2] = "email" THEN {} ELSE {"invalid"} :
        sender' = [sender EXCEPT ![w].outcome = <<x, outcome>>]
    /\ UNCHANGED <<inbox, device, delivery>>

\* Rows are updated by id alone, whoever has claimed them meanwhile; an invalid
\* registration disables the installation.
RecordOutcome(w) ==
    /\ sender[w].outcome # <<>>
    /\ LET x == sender[w].outcome[1]
           outcome == sender[w].outcome[2] IN
        /\ \/ /\ IF outcome = "invalid" THEN Disabled(x[2])
                 ELSE /\ delivery' = [delivery EXCEPT ![x].status = outcome, ![x].recent = TRUE]
                      /\ UNCHANGED device
           \/ UNCHANGED <<device, delivery>>
        /\ sender' = [sender EXCEPT ![w] = [claimed |-> @.claimed \ {x}, outcome |-> <<>>]]
    /\ UNCHANGED <<inbox, sends>>

SenderStops(w) ==
    /\ sender[w].claimed # {}
    /\ sender' = [sender EXCEPT ![w] = [claimed |-> {}, outcome |-> <<>>]]
    /\ UNCHANGED <<inbox, device, delivery, sends>>

\* The retry delay has passed since updated_at.
DelayPasses(x) ==
    /\ delivery[x].recent
    /\ delivery' = [delivery EXCEPT ![x].recent = FALSE]
    /\ UNCHANGED <<inbox, device, sender, sends>>

NoticeNext ==
    \/ \E e \in Inputs : ProcessEvent(e)
    \/ \E d \in Devices : RegisterDevice(d) \/ UnregisterDevice(d)
    \/ \E w \in Senders :
        \/ \E kind \in {"email", "push"} : ClaimRetryable(w, kind)
        \/ RecordOutcome(w) \/ SenderStops(w)
        \/ \E x \in Deliveries : Send(w, x)
    \/ \E x \in Deliveries : DelayPasses(x)

NoticeSpec == NoticeInit /\ [][NoticeNext]_noticeVars

-----------------------------------------------------------------------------
\* Nobody gets a message more than MaxAttempts times, whatever happens to the
\* workers between a claim, a provider's answer and its record.
SendsBounded == \A x \in Deliveries : sends[x] <= MaxAttempts
=============================================================================
