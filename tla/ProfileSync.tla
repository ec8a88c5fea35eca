------------------------------ MODULE ProfileSync ------------------------------
(***************************************************************************)
(* Accounts of the Auth Service and the profiles the worker keeps for them *)
(* in the User Service: Create and Delete in                               *)
(* internal/auth/adapter/postgres/repository.go, the outbox, the RabbitMQ  *)
(* consumer in internal/messaging/rabbitmq/consumer.go, the handler in     *)
(* internal/worker/profile_handler.go and the profile repository.          *)
(***************************************************************************)
EXTENDS OutboxRelay

CONSTANTS
    Email,          \* e-mail address of each account (Aggregates are account ids)
    MaxDeliveries   \* maxDeliveryAttempts

VARIABLES
    accounts,       \* "none", "registered" or "deleted", by account id
    events,         \* type of each outbox row
    attempts,       \* deliveries of each published message so far
    settled,        \* messages acknowledged
    discarded,      \* messages in the dead-letter queue
    profiles,       \* ids with a row in users.user_profiles
    late            \* accounts whose registration was handled after a deletion (history)

profileVars == <<accounts, events, attempts, settled, discarded, profiles, late>>
syncVars == <<relayVars, profileVars>>

SyncInit ==
    /\ RelayInit
    /\ accounts = [a \in Aggregates |-> "none"]
    /\ events = <<>>
    /\ attempts = [i \in 1..MaxTopic |-> 0]
    /\ settled = {} /\ discarded = {} /\ profiles = {} /\ late = {}

\* The account and its event in one transaction; the address is unique.
Change(a, to) ==
    /\ accounts' = [accounts EXCEPT ![a] = to]
    /\ events' = Append(events, to)
    /\ WriteEvent(a)
    /\ UNCHANGED <<topic, batch, step, attempts, settled, discarded, profiles, late>>

CreateAccount(a) ==
    /\ accounts[a] = "none"
    /\ \A b \in Aggregates : accounts[b] = "registered" => Email[b] # Email[a]
    /\ Change(a, "registered")

RemoveAccount(a) == accounts[a] = "registered" /\ Change(a, "deleted")

Queued == {i \in 1..Len(topic) : i \notin settled \cup discarded}
Subject(i) == outbox[topic[i]].aggregate

\* CreateProfile: an id that is there already is a success; another profile with
\* the same address is an error.
CreateProfile(a) ==
    /\ \A b \in profiles \ {a} : Email[b] # Email[a]
    /\ profiles' = profiles \cup {a}
    /\ late' = IF accounts[a] = "deleted" /\ a \notin profiles THEN late \cup {a} ELSE late

DeleteProfile(a) == profiles' = profiles \ {a} /\ late' = late \ {a}

\* The handler succeeds; the acknowledgement may be lost with the connection, and
\* the message is then delivered again.
Handle(i) ==
    /\ i \in Queued
    /\ IF events[topic[i]] = "registered" THEN CreateProfile(Subject(i)) ELSE DeleteProfile(Subject(i))
    /\ \/ settled' = settled \cup {i} /\ UNCHANGED attempts
       \/ attempts[i] < MaxDeliveries /\ attempts' = [attempts EXCEPT ![i] = @ + 1] /\ UNCHANGED settled
    /\ UNCHANGED <<relayVars, accounts, events, discarded>>

\* Mutation: a message whose handler failed is acknowledged.
AckFailed(i) ==
    /\ i \in Queued
    /\ settled' = settled \cup {i}
    /\ UNCHANGED <<relayVars, accounts, events, attempts, discarded, profiles, late>>

\* The handler fails: back to the queue, or to the dead-letter queue.
Nack(i) ==
    /\ i \in Queued
    /\ IF attempts[i] < MaxDeliveries
         THEN attempts' = [attempts EXCEPT ![i] = @ + 1] /\ UNCHANGED discarded
         ELSE discarded' = discarded \cup {i} /\ UNCHANGED attempts
    /\ UNCHANGED <<relayVars, accounts, events, settled, profiles, late>>

SyncNext ==
    \/ \E a \in Aggregates : CreateAccount(a) \/ RemoveAccount(a)
    \/ RelayNext /\ UNCHANGED profileVars
    \/ \E i \in 1..MaxTopic : Handle(i) \/ Nack(i)

SyncSpec == SyncInit /\ [][SyncNext]_syncVars

-----------------------------------------------------------------------------
\* When every event is published and every message acknowledged, exactly the
\* registered accounts have a profile: through crashed dispatchers, expired leases,
\* repeated and reordered deliveries and addresses that are used again.  The one
\* exception is a registration handled, again or for the first time, after the deletion.
ProfilesFollowAccounts ==
    (Queued = {} /\ discarded = {} /\ \A e \in Events : Published(e)) =>
        \A a \in Aggregates : (a \in profiles) = (accounts[a] = "registered") \/ a \in late
=============================================================================
