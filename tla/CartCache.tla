------------------------------- MODULE CartCache -------------------------------
(***************************************************************************)
(* The cart of one customer in PostgreSQL and its cache in Redis:          *)
(* internal/order/application/cache.go and service.go,                     *)
(* internal/platform/rediscache/store.go.  Entries are keyed by a version  *)
(* that every change of the cart increments.  The cart is represented by   *)
(* its revision.                                                           *)
(***************************************************************************)
EXTENDS Naturals, FiniteSets

CONSTANTS
    Readers,        \* requests that list the cart
    Replica,        \* the replica of the Order Service each reader runs in
    Writers,        \* requests that change the cart
    MaxRevision     \* bound: changes of the cart

ASSUME WritersAssumption == IsFiniteSet(Writers) /\ MaxRevision \in Nat \ {0}

Nobody == "nobody"
NoEntry == 0

VARIABLES
    cart,           \* revision of the rows, from 1 on
    acked,          \* newest revision whose writer has invalidated the cache (history)
    version,        \* cache:carts:user:<id>:version, 0 when the key is missing
    cached,         \* the revision stored under each version
    stampede,       \* holder of the lock of each version's key
    reader, writer

cartVars == <<cart, acked, version, cached, stampede, reader, writer>>
Versions == 0..MaxRevision

CartInit ==
    /\ cart = 1 /\ acked = 1 /\ version = 0
    /\ cached = [v \in Versions |-> NoEntry]
    /\ stampede = [v \in Versions |-> Nobody]
    /\ reader = [r \in Readers |-> [at |-> "idle", version |-> 0, since |-> 0, value |-> 0]]
    /\ writer = [w \in Writers |-> 0]

\* AddToCart, UpdateCartItem, RemoveFromCart and the clean-up of reserveOrder
\* change the rows, ...
ChangeCart(w) ==
    /\ writer[w] = 0 /\ cart < MaxRevision
    /\ cart' = cart + 1
    /\ writer' = [writer EXCEPT ![w] = cart + 1]
    /\ UNCHANGED <<acked, version, cached, stampede, reader>>

Acknowledge(w) ==
    /\ acked' = IF writer[w] > acked THEN writer[w] ELSE acked
    /\ writer' = [writer EXCEPT ![w] = 0]
    /\ UNCHANGED <<cart, cached, stampede, reader>>

\* Mutation: the request returns without the invalidation.
ForgetInvalidation(w) == writer[w] # 0 /\ UNCHANGED version /\ Acknowledge(w)

\* ... and then increment the version.
InvalidateCart(w) == writer[w] # 0 /\ version' = version + 1 /\ Acknowledge(w)

\* Redis does not answer: a warning, and the request succeeds.
InvalidationFails(w) ==
    /\ writer[w] # 0
    /\ writer' = [writer EXCEPT ![w] = 0]
    /\ UNCHANGED <<cart, acked, version, cached, stampede, reader>>

\* A cancelled or failed order gives its lines back; nothing is invalidated.
RestoreCartItems ==
    /\ cart < MaxRevision
    /\ cart' = cart + 1
    /\ UNCHANGED <<acked, version, cached, stampede, reader, writer>>

GoTo(r, at) == reader' = [reader EXCEPT ![r].at = at]
Answer(r, value) == reader' = [reader EXCEPT ![r].at = "done", ![r].value = value]
ReaderStep == UNCHANGED <<cart, acked, version, writer>>

\* ListCart reads the version; without Redis it reads the rows.
ListCart(r) ==
    /\ reader[r].at = "idle"
    /\ reader' = [reader EXCEPT ![r] =
           [at |-> "version", version |-> 0, since |-> acked, value |-> 0]]
    /\ ReaderStep /\ UNCHANGED <<cached, stampede>>

ReadVersion(r) ==
    /\ reader[r].at = "version"
    /\ \/ reader' = [reader EXCEPT ![r].at = "get", ![r].version = version]
       \/ Answer(r, cart)
    /\ ReaderStep /\ UNCHANGED <<cached, stampede>>

Entry(r) == cached[reader[r].version]

Leads(l, r) ==
    /\ l # r /\ Replica[l] = Replica[r] /\ reader[l].version = reader[r].version
    /\ reader[l].at \in {"recheck", "lock", "wait", "load", "store"}

\* The result of a flight goes to everyone who waits for it, an error too.
Shared(r, at, value) ==
    reader' = [f \in Readers |->
        IF f = r \/ (reader[f].at = "follow" /\ Leads(r, f))
          THEN [reader[f] EXCEPT !.at = at, !.value = value] ELSE reader[f]]

\* readCartCache before the flight and once more by the flight's leader; an error
\* of Redis counts as a miss.
ReadCache(r) ==
    /\ \/ reader[r].at = "get" /\ GoTo(r, "flight")
       \/ reader[r].at = "recheck" /\ GoTo(r, "lock")
       \/ reader[r].at = "get" /\ Entry(r) # NoEntry /\ Answer(r, Entry(r))
       \/ reader[r].at = "recheck" /\ Entry(r) # NoEntry /\ Shared(r, "done", Entry(r))
    /\ ReaderStep /\ UNCHANGED <<cached, stampede>>

\* singleflight: one leader per replica and key; the others share its result.
JoinFlight(r) ==
    /\ reader[r].at = "flight"
    /\ GoTo(r, IF \E l \in Readers : Leads(l, r) THEN "follow" ELSE "recheck")
    /\ ReaderStep /\ UNCHANGED <<cached, stampede>>

TryLock(r) ==
    /\ reader[r].at = "lock"
    /\ \/ /\ stampede[reader[r].version] = Nobody
          /\ stampede' = [stampede EXCEPT ![reader[r].version] = r]
          /\ GoTo(r, "load")
       \/ stampede[reader[r].version] # Nobody /\ GoTo(r, "wait") /\ UNCHANGED stampede
       \/ GoTo(r, "load") /\ UNCHANGED stampede
    /\ ReaderStep /\ UNCHANGED cached

\* Three looks, 15 ms apart, then the rows.
WaitForCache(r) ==
    /\ reader[r].at = "wait"
    /\ \/ Entry(r) # NoEntry /\ Shared(r, "done", Entry(r))
       \/ GoTo(r, "load")
    /\ ReaderStep /\ UNCHANGED <<cached, stampede>>

\* The lock is released if it is still its own.
ReleaseLock(r) == stampede' = [v \in Versions |-> IF stampede[v] = r THEN Nobody ELSE stampede[v]]

Load(r) ==
    /\ reader[r].at = "load"
    /\ \/ /\ reader' = [reader EXCEPT ![r].at = "store", ![r].value = cart]
          /\ UNCHANGED stampede
       \/ Shared(r, "idle", 0) /\ ReleaseLock(r)
    /\ ReaderStep /\ UNCHANGED cached

\* SetJSON, which may fail.
Store(r) ==
    /\ reader[r].at = "store"
    /\ \/ cached' = [cached EXCEPT ![reader[r].version] = reader[r].value]
       \/ UNCHANGED cached
    /\ Shared(r, "done", reader[r].value)
    /\ ReleaseLock(r)
    /\ ReaderStep

Return(r) == reader[r].at = "done" /\ GoTo(r, "idle") /\ ReaderStep /\ UNCHANGED <<cached, stampede>>

\* The TTL of an entry or of a lock ends.
Expire(v) ==
    /\ \/ cached[v] # NoEntry /\ cached' = [cached EXCEPT ![v] = NoEntry] /\ UNCHANGED stampede
       \/ stampede[v] # Nobody /\ stampede' = [stampede EXCEPT ![v] = Nobody] /\ UNCHANGED cached
    /\ UNCHANGED <<cart, acked, version, reader, writer>>

CartNext ==
    \/ \E w \in Writers : ChangeCart(w) \/ InvalidateCart(w) \/ InvalidationFails(w)
    \/ RestoreCartItems
    \/ \E r \in Readers :
        \/ ListCart(r) \/ ReadVersion(r) \/ ReadCache(r) \/ JoinFlight(r) \/ TryLock(r)
        \/ WaitForCache(r) \/ Load(r) \/ Store(r) \/ Return(r)
    \/ \E v \in Versions : Expire(v)

CartSpec == CartInit /\ [][CartNext]_cartVars

-----------------------------------------------------------------------------
\* A list that begins after a change has returned, its invalidation done, shows
\* that change, however slow loaders, expired locks and shared flights interleave.
\* Changes that do not invalidate (RestoreCartItems) are not promised.
FreshRead == \A r \in Readers : reader[r].at = "done" => reader[r].value >= reader[r].since
=============================================================================
