---------------------------- MODULE RefreshSessions ----------------------------
(***************************************************************************)
(* Refresh sessions of one account and their rotation:                     *)
(* RotateRefreshSession, RevokeRefreshSession, the sessions that Create,   *)
(* CreateRefreshSession and LinkIdentity add and Delete takes away, in     *)
(* internal/auth/adapter/postgres/repository.go.  A session is named by    *)
(* its token; the first token of a family names the family.                *)
(***************************************************************************)
EXTENDS Naturals, FiniteSets

CONSTANTS
    Tokens,         \* bound: refresh tokens ever issued
    Rotations       \* requests that rotate, one transaction each

VARIABLES
    session,        \* state of the row of each token
    family,         \* family_id
    expired,        \* tokens whose expires_at has passed
    rotation        \* a transaction and what it has read

sessionVars == <<session, family, expired, rotation>>

NoRotation == [at |-> "idle", token |-> "none", was |-> "none", seen |-> {}, alone |-> TRUE]

SessionInit ==
    /\ session = [t \in Tokens |-> "none"]
    /\ family = [t \in Tokens |-> t]
    /\ expired = {}
    /\ rotation = [q \in Rotations |-> NoRotation]

Active(f) == {t \in Tokens : session[t] = "active" /\ family[t] = f}
RowLocked(t) == \E q \in Rotations : rotation[q].at \in {"read", "revoke"} /\ rotation[q].token = t

Login(t) ==
    /\ session[t] = "none"
    /\ session' = [session EXCEPT ![t] = "active"]
    /\ family' = [family EXCEPT ![t] = t]
    /\ expired' = expired \ {t}
    /\ UNCHANGED rotation

\* What FOR UPDATE returns; "alone" records (as history) whether any other
\* transaction of the family overlaps this one.
Present(q, t) ==
    /\ rotation[q].at = "idle" /\ session[t] # "none"
    /\ rotation' = [p \in Rotations |->
           IF p = q
             THEN [at |-> "read", token |-> t, was |-> session[t], seen |-> {},
                   alone |-> \A o \in Rotations : rotation[o].at \in {"idle", "reused"}
                                                  \/ family[rotation[o].token] # family[t]]
           ELSE IF rotation[p].at # "idle" /\ family[rotation[p].token] = family[t]
             THEN [rotation[p] EXCEPT !.alone = FALSE] ELSE rotation[p]]
    /\ UNCHANGED <<session, family, expired>>

\* Mutation: the row is read without FOR UPDATE.
ReadRow(q, t) == Present(q, t)

LockRow(q, t) == ~RowLocked(t) /\ Present(q, t)

Commit(q, at) == rotation' = [rotation EXCEPT ![q] = [NoRotation EXCEPT !.at = at]]

\* A valid token: the replacement is inserted and the row revoked.
Replace(q) ==
    /\ rotation[q].at = "read" /\ rotation[q].was = "active" /\ rotation[q].token \notin expired
    /\ \E n \in Tokens :
        /\ session[n] = "none"
        /\ session' = [session EXCEPT ![n] = "active", ![rotation[q].token] = "revoked"]
        /\ family' = [family EXCEPT ![n] = family[rotation[q].token]]
    /\ Commit(q, "idle")
    /\ UNCHANGED expired

RefuseExpired(q) ==
    /\ rotation[q].at = "read" /\ rotation[q].was = "active" /\ rotation[q].token \in expired
    /\ session' = [session EXCEPT ![rotation[q].token] = "revoked"]
    /\ Commit(q, "idle")
    /\ UNCHANGED <<family, expired>>

\* A token used before: the UPDATE of the family sees the committed rows, ...
DetectReuse(q) ==
    /\ rotation[q].at = "read" /\ rotation[q].was = "revoked"
    /\ rotation' = [rotation EXCEPT ![q].at = "revoke", ![q].seen = Active(family[rotation[q].token])]
    /\ UNCHANGED <<session, family, expired>>

\* Mutation: the error is returned inside the transaction, which rolls back.
RollBackReuse(q) ==
    /\ rotation[q].at = "revoke"
    /\ rotation' = [rotation EXCEPT ![q].at = "reused"]
    /\ UNCHANGED <<session, family, expired>>

\* ... waits for those that are locked and revokes the ones that are still active.
RevokeFamily(q) ==
    /\ rotation[q].at = "revoke"
    /\ \A t \in rotation[q].seen : ~RowLocked(t)
    /\ session' = [t \in Tokens |->
           IF t \in rotation[q].seen /\ session[t] = "active" THEN "revoked" ELSE session[t]]
    /\ rotation' = [rotation EXCEPT ![q].at = "reused"]
    /\ UNCHANGED <<family, expired>>

Answered(q) ==
    /\ rotation[q].at = "reused"
    /\ Commit(q, "idle")
    /\ UNCHANGED <<session, family, expired>>

\* A database error or a crash rolls back.
RotationFails(q) ==
    /\ rotation[q].at \in {"read", "revoke"}
    /\ Commit(q, "idle")
    /\ UNCHANGED <<session, family, expired>>

\* Logout: one UPDATE, which waits for the row.
RevokeRefreshSession(t) ==
    /\ session[t] = "active" /\ ~RowLocked(t)
    /\ session' = [session EXCEPT ![t] = "revoked"]
    /\ UNCHANGED <<family, expired, rotation>>

\* Deleting the account deletes its sessions, once no transaction holds one.
DeleteAccount ==
    /\ \A t \in Tokens : ~RowLocked(t)
    /\ \E t \in Tokens : session[t] # "none"
    /\ session' = [t \in Tokens |-> "none"]
    /\ UNCHANGED <<family, expired, rotation>>

Lapse(t) ==
    /\ session[t] # "none" /\ t \notin expired
    /\ expired' = expired \cup {t}
    /\ UNCHANGED <<session, family, rotation>>

SessionNext ==
    \/ \E t \in Tokens : Login(t) \/ RevokeRefreshSession(t) \/ Lapse(t)
    \/ \E q \in Rotations :
        \/ \E t \in Tokens : LockRow(q, t)
        \/ Replace(q) \/ RefuseExpired(q) \/ DetectReuse(q) \/ RevokeFamily(q)
        \/ Answered(q) \/ RotationFails(q)
    \/ DeleteAccount

SessionSpec == SessionInit /\ [][SessionNext]_sessionVars

-----------------------------------------------------------------------------
\* Two refreshes with one token, at once or one after the other, never leave two
\* usable sessions of a family.
OneActivePerFamily == \A f \in Tokens : Cardinality(Active(f)) <= 1

\* A token that is presented again ends its family: when the call is answered, no
\* session of the family is usable, unless another rotation overlapped it.
ReuseEndsFamily ==
    [][\A q \in Rotations :
        (rotation[q].at = "revoke" /\ rotation'[q].at = "reused" /\ rotation[q].alone)
            => \A t \in Tokens : family[t] = family[rotation[q].token] => session'[t] # "active"]_sessionVars
=============================================================================
