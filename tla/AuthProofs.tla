------------------------------ MODULE AuthProofs ------------------------------
(***************************************************************************)
(* For every set of tokens, concurrent rotations, accounts, roles and      *)
(* administration requests: rotation never leaves two usable sessions in a *)
(* family, reuse ends the family, and a super_admin remains.               *)
(***************************************************************************)
EXTENDS RefreshSessions, RoleAdmin, FiniteSetTheorems, TLAPS

Overlapping == {"read", "revoke"}

RotationRecords ==
    [at: {"idle", "read", "revoke", "reused"}, token: Tokens \cup {"none"},
     was: {"none", "active", "revoked"}, seen: SUBSET Tokens, alone: BOOLEAN]

SessionTypeOK ==
    /\ session \in [Tokens -> {"none", "active", "revoked"}]
    /\ family \in [Tokens -> Tokens]
    /\ rotation \in [Rotations -> RotationRecords]
    /\ \A q \in Rotations : rotation[q].at # "idle" => rotation[q].token \in Tokens

\* Two usable tokens of a family are the same token.
OneUsable ==
    \A t, u \in Tokens :
        session[t] = "active" /\ session[u] = "active" /\ family[t] = family[u] => t = u

\* The token that names the family of a row is itself a row, so that a login
\* never opens a family that exists.
FamilyHasRoot == \A t \in Tokens : session[t] # "none" => session[family[t]] # "none"

\* A locked row is what its transaction read, and has one holder.
LockedRowsStay ==
    /\ \A q \in Rotations :
        /\ rotation[q].at = "read" =>
               session[rotation[q].token] = rotation[q].was /\ rotation[q].was # "none"
        /\ rotation[q].at = "revoke" => session[rotation[q].token] = "revoked"
    /\ \A p, q \in Rotations :
        rotation[p].at \in Overlapping /\ rotation[q].at \in Overlapping
            /\ rotation[p].token = rotation[q].token => p = q

\* No other transaction works on the family of one that is alone, and what it
\* saw of the family is still all there is to revoke.
AloneSeesAll ==
    \A q \in Rotations : rotation[q].alone /\ rotation[q].at \in Overlapping =>
        /\ \A p \in Rotations \ {q} : rotation[p].at \in Overlapping =>
               family[rotation[p].token] # family[rotation[q].token]
        /\ rotation[q].at = "revoke" => Active(family[rotation[q].token]) \subseteq rotation[q].seen

SessionInv == SessionTypeOK /\ OneUsable /\ FamilyHasRoot /\ LockedRowsStay /\ AloneSeesAll

AccountUnchanged(q, p) == account[p] = view[q].account[p]

\* A registration is the one change that takes no lock.
RegisteredSince(q, p) ==
    /\ account[p] = [exists |-> TRUE, roles |-> {"customer"}]
    /\ view[q].account[p] = [exists |-> FALSE, roles |-> {}]

Accounts == [People -> [exists: BOOLEAN, roles: SUBSET Codes]]
RoleTables == [Codes -> [exists: BOOLEAN, grants: SUBSET Permissions]]

Views == [at: {"checking"}, account: Accounts, role: RoleTables]

RoleTypeOK ==
    /\ account \in Accounts
    /\ role \in RoleTables
    /\ view \in [Requests -> {NoView} \cup Views]

\* The advisory lock: one transaction at a time, and what it read is what the
\* tables hold, but for accounts registered since.
ViewsHold ==
    /\ \A p, q \in Requests : view[p].at = "checking" /\ view[q].at = "checking" => p = q
    /\ \A q \in Requests : view[q].at = "checking" =>
           /\ view[q].role = role
           /\ \A p \in People : AccountUnchanged(q, p) \/ RegisteredSince(q, p)

\* The system roles are seeded and never changed; roles belong to accounts.
SystemRolesStay ==
    /\ \A c \in SystemRoles : role[c] = [exists |-> TRUE, grants |-> SystemGrants(c)]
    /\ \A p \in People : ~account[p].exists => account[p].roles = {}

RoleInv == RoleTypeOK /\ ViewsHold /\ SystemRolesStay
-----------------------------------------------------------------------------
(* A record of a rotation with a field changed.                            *)
LEMMA RotationFields ==
    ASSUME NEW x \in RotationRecords, NEW seen \in SUBSET Tokens
    PROVE  LET y == [x EXCEPT !.alone = FALSE]
               z == [x EXCEPT !.at = "revoke", !.seen = seen] IN
           /\ y \in RotationRecords /\ y.at = x.at /\ y.token = x.token
           /\ z \in RotationRecords /\ z.token = x.token
BY DEF RotationRecords

(* At first there is no session and no rotation is under way.              *)
LEMMA SessionInvInit == SessionInit => SessionInv
BY DEF SessionInit, NoRotation, SessionInv, SessionTypeOK, RotationRecords, OneUsable, FamilyHasRoot,
       LockedRowsStay, AloneSeesAll, Overlapping

\* A rotation that ends leaves the record of none.
LEMMA IdleRotation ==
    /\ [NoRotation EXCEPT !.at = "idle"] \in RotationRecords
    /\ [NoRotation EXCEPT !.at = "idle"].at = "idle"
BY DEF NoRotation, RotationRecords

(* A login opens a family of its own: its token has never named a row.     *)
LEMMA LoginKeeps ==
    ASSUME SessionInv, NEW t \in Tokens, Login(t)
    PROVE  SessionInv'
<1> USE DEF SessionInv, Login
<1>1. SessionTypeOK'
    BY DEF SessionTypeOK, RotationRecords
<1>2. OneUsable'
    BY DEF SessionTypeOK, RotationRecords, OneUsable, FamilyHasRoot
<1>3. FamilyHasRoot'
    BY DEF SessionTypeOK, RotationRecords, FamilyHasRoot
<1>4. LockedRowsStay'
    BY DEF SessionTypeOK, RotationRecords, LockedRowsStay, Overlapping
<1>5. AloneSeesAll'
    BY DEF SessionTypeOK, RotationRecords, LockedRowsStay, AloneSeesAll, Overlapping, Active, FamilyHasRoot
<1> QED
    BY <1>1, <1>2, <1>3, <1>4, <1>5

(* The row a rotation locks is read as it is, and by one holder at a time. *)
LEMMA PresentKeeps ==
    ASSUME SessionInv, NEW q \in Rotations, NEW t \in Tokens, LockRow(q, t)
    PROVE  SessionInv'
<1> USE DEF SessionInv, LockRow, Present
<1>1. SessionTypeOK'
    <2>1. ASSUME NEW p \in Rotations
          PROVE  rotation'[p] \in RotationRecords /\ (rotation'[p].at # "idle" => rotation'[p].token \in Tokens)
        <3>1. CASE p = q
            BY <3>1 DEF SessionTypeOK, RotationRecords
        <3>2. CASE rotation'[p] = rotation[p]
            BY <3>2 DEF SessionTypeOK
        <3>3. CASE rotation'[p] = [rotation[p] EXCEPT !.alone = FALSE]
            BY <3>3, RotationFields DEF SessionTypeOK
        <3> QED
            BY <3>1, <3>2, <3>3
    <2> QED
        BY <2>1 DEF SessionTypeOK
<1>2. OneUsable' /\ FamilyHasRoot'
    BY DEF OneUsable, FamilyHasRoot
<1>3. LockedRowsStay'
    BY DEF SessionTypeOK, RotationRecords, LockedRowsStay, Overlapping, RowLocked
<1>4. AloneSeesAll'
    BY DEF SessionTypeOK, RotationRecords, LockedRowsStay, AloneSeesAll, Overlapping, Active, RowLocked
<1> QED
    BY <1>1, <1>2, <1>3, <1>4

(* A rotation revokes the token it read active before it issues the next   *)
(* one of the family.                                                      *)
LEMMA ReplaceKeeps ==
    ASSUME SessionInv, NEW q \in Rotations, Replace(q)
    PROVE  SessionInv'
<1> USE DEF SessionInv, Replace, Commit, NoRotation
<1>1. SessionTypeOK'
    <2>1. rotation' = [rotation EXCEPT ![q] = [NoRotation EXCEPT !.at = "idle"]]
        OBVIOUS
    <2> HIDE DEF NoRotation
    <2> QED
        BY <2>1, IdleRotation DEF SessionTypeOK
<1>2. OneUsable'
    BY DEF SessionTypeOK, RotationRecords, LockedRowsStay, OneUsable
<1>3. FamilyHasRoot'
    BY DEF SessionTypeOK, RotationRecords, FamilyHasRoot, LockedRowsStay
<1>4. LockedRowsStay'
    BY DEF SessionTypeOK, RotationRecords, LockedRowsStay, Overlapping
<1>5. AloneSeesAll'
    BY DEF SessionTypeOK, RotationRecords, LockedRowsStay, AloneSeesAll, Overlapping, Active
<1> QED
    BY <1>1, <1>2, <1>3, <1>4, <1>5

(* A rotation that finds its token expired ends and changes no session.    *)
LEMMA RefuseExpiredKeeps ==
    ASSUME SessionInv, NEW q \in Rotations, RefuseExpired(q)
    PROVE  SessionInv'
<1> USE DEF SessionInv, RefuseExpired, Commit, NoRotation
<1>1. SessionTypeOK'
    <2>1. rotation' = [rotation EXCEPT ![q] = [NoRotation EXCEPT !.at = "idle"]]
        OBVIOUS
    <2> HIDE DEF NoRotation
    <2> QED
        BY <2>1, IdleRotation DEF SessionTypeOK
<1>2. OneUsable' /\ FamilyHasRoot'
    BY DEF SessionTypeOK, RotationRecords, LockedRowsStay, OneUsable, FamilyHasRoot
<1>4. LockedRowsStay'
    BY DEF SessionTypeOK, RotationRecords, LockedRowsStay, Overlapping
<1>5. AloneSeesAll'
    BY DEF SessionTypeOK, RotationRecords, LockedRowsStay, AloneSeesAll, Overlapping, Active
<1> QED
    BY <1>1, <1>2, <1>4, <1>5

(* A rotation that finds its token revoked has seen the usable tokens of   *)
(* the family when it goes on to revoke them.                              *)
LEMMA DetectReuseKeeps ==
    ASSUME SessionInv, NEW q \in Rotations, DetectReuse(q)
    PROVE  SessionInv'
<1> USE DEF SessionInv, DetectReuse
<1>1. SessionTypeOK'
    <2>1. Active(family[rotation[q].token]) \in SUBSET Tokens /\ rotation[q].token \in Tokens
        BY DEF SessionTypeOK, Active
    <2> DEFINE z == [rotation[q] EXCEPT !.at = "revoke", !.seen = Active(family[rotation[q].token])]
    <2>2. z \in RotationRecords /\ z.token = rotation[q].token
        <3>1. rotation[q] \in RotationRecords
            BY DEF SessionTypeOK
        <3> QED
            BY <2>1, <3>1, RotationFields
    <2>3. rotation' = [rotation EXCEPT ![q] = z]
        OBVIOUS
    <2> HIDE DEF z
    <2> QED
        BY <2>1, <2>2, <2>3 DEF SessionTypeOK
<1>2. OneUsable' /\ FamilyHasRoot'
    BY DEF OneUsable, FamilyHasRoot
<1>4. LockedRowsStay'
    BY DEF SessionTypeOK, RotationRecords, LockedRowsStay, Overlapping
<1>5. AloneSeesAll'
    BY DEF SessionTypeOK, RotationRecords, LockedRowsStay, AloneSeesAll, Overlapping, Active
<1> QED
    BY <1>1, <1>2, <1>4, <1>5

(* What it has seen of the family is revoked; no other row changes.        *)
LEMMA RevokeFamilyKeeps ==
    ASSUME SessionInv, NEW q \in Rotations, RevokeFamily(q)
    PROVE  SessionInv'
<1> USE DEF SessionInv, RevokeFamily
<1>1. SessionTypeOK'
    BY DEF SessionTypeOK, RotationRecords
<1>2. OneUsable' /\ FamilyHasRoot'
    BY DEF SessionTypeOK, RotationRecords, OneUsable, FamilyHasRoot
<1>4. LockedRowsStay'
    BY DEF SessionTypeOK, RotationRecords, LockedRowsStay, Overlapping, RowLocked
<1>5. AloneSeesAll'
    BY DEF SessionTypeOK, RotationRecords, LockedRowsStay, AloneSeesAll, Overlapping, Active
<1> QED
    BY <1>1, <1>2, <1>4, <1>5

(* A rotation that answers or fails lets its row go.                       *)
LEMMA EndOfRotationKeeps ==
    ASSUME SessionInv, NEW q \in Rotations, Answered(q) \/ RotationFails(q)
    PROVE  SessionInv'
<1> USE DEF SessionInv, Answered, RotationFails, Commit, NoRotation
<1>1. SessionTypeOK'
    <2>1. rotation' = [rotation EXCEPT ![q] = [NoRotation EXCEPT !.at = "idle"]]
        OBVIOUS
    <2> HIDE DEF NoRotation
    <2> QED
        BY <2>1, IdleRotation DEF SessionTypeOK
<1>2. OneUsable' /\ FamilyHasRoot'
    BY DEF OneUsable, FamilyHasRoot
<1>4. LockedRowsStay'
    BY DEF SessionTypeOK, RotationRecords, LockedRowsStay, Overlapping
<1>5. AloneSeesAll'
    BY DEF SessionTypeOK, RotationRecords, LockedRowsStay, AloneSeesAll, Overlapping, Active
<1> QED
    BY <1>1, <1>2, <1>4, <1>5

(* Logout, expiry and the deletion of the account only make sessions       *)
(* unusable.                                                               *)
LEMMA OutsideRotationKeeps ==
    ASSUME SessionInv,
           \/ \E t \in Tokens : RevokeRefreshSession(t) \/ Lapse(t)
           \/ DeleteAccount
           \/ UNCHANGED sessionVars
    PROVE  SessionInv'
<1> USE DEF SessionInv
<1>1. ASSUME NEW t \in Tokens, RevokeRefreshSession(t)
      PROVE  SessionInv'
    BY <1>1 DEF RevokeRefreshSession, SessionTypeOK, OneUsable, FamilyHasRoot, LockedRowsStay,
                AloneSeesAll, Overlapping, Active, RowLocked
<1>2. CASE DeleteAccount
    BY <1>2 DEF DeleteAccount, SessionTypeOK, OneUsable, FamilyHasRoot, LockedRowsStay,
                AloneSeesAll, Overlapping, Active, RowLocked
<1>3. CASE (\E t \in Tokens : Lapse(t)) \/ UNCHANGED sessionVars
    BY <1>3 DEF Lapse, sessionVars, SessionTypeOK, OneUsable, FamilyHasRoot, LockedRowsStay,
                AloneSeesAll, Active
<1> QED
    BY <1>1, <1>2, <1>3

(* Every step of the session store keeps the invariant.                    *)
LEMMA SessionStep == SessionInv /\ [SessionNext]_sessionVars => SessionInv'
BY LoginKeeps, PresentKeeps, ReplaceKeeps, RefuseExpiredKeeps, DetectReuseKeeps,
   RevokeFamilyKeeps, EndOfRotationKeeps, OutsideRotationKeeps DEF SessionNext

(* Whatever rotations overlap: two usable tokens are never of one family,  *)
(* a locked row stays what its holder read, and a rotation alone with its  *)
(* family has seen all of it.                                              *)
THEOREM SessionSafety == SessionSpec => []SessionInv
BY SessionInvInit, SessionStep, PTL DEF SessionSpec

(* No two different usable tokens means at most one.                       *)
LEMMA FamilyActiveOnce ==
    ASSUME SessionInv, NEW f \in Tokens
    PROVE  Cardinality(Active(f)) <= 1
<1>1. CASE Active(f) = {}
    BY <1>1, FS_EmptySet
<1>2. ASSUME NEW t \in Active(f)
      PROVE  Cardinality(Active(f)) <= 1
    <2>1. Active(f) = {t}
        BY <1>2 DEF SessionInv, OneUsable, Active
    <2>2. Cardinality({t}) = 1
        BY FS_Singleton
    <2> QED
        BY <2>1, <2>2
<1> QED
    BY <1>1, <1>2

(* A family of refresh tokens never has two usable ones                    *)
(* (RotateRefreshSession).                                                 *)
THEOREM RotationKeepsOne == SessionSpec => []OneActivePerFamily
<1>1. SessionInv => OneActivePerFamily
    BY FamilyActiveOnce DEF OneActivePerFamily
<1> QED
    BY <1>1, SessionSafety, PTL

(* A rotation that is alone with its family and detects a reuse leaves no  *)
(* usable token in it.                                                     *)
THEOREM ReuseRevokesFamily == SessionSpec => ReuseEndsFamily
<1>1. ASSUME SessionInv, [SessionNext]_sessionVars, NEW q \in Rotations,
             rotation[q].at = "revoke", rotation'[q].at = "reused", rotation[q].alone,
             NEW t \in Tokens, family[t] = family[rotation[q].token]
      PROVE  session'[t] # "active"
    <2>0. /\ rotation \in [Rotations -> RotationRecords]
          /\ \A p \in Rotations : rotation[p].at \in {"idle", "read", "revoke", "reused"}
        BY <1>1 DEF SessionInv, SessionTypeOK, RotationRecords
    <2>1. ASSUME NEW p \in Rotations, NEW u \in Tokens, LockRow(p, u)
          PROVE  FALSE
        BY <1>1, <2>0, <2>1 DEF LockRow, Present, RotationRecords
    <2>2. ASSUME NEW p \in Rotations,
                 Replace(p) \/ RefuseExpired(p) \/ Answered(p) \/ RotationFails(p)
          PROVE  FALSE
        <3>1. rotation' = [rotation EXCEPT ![p] = [NoRotation EXCEPT !.at = "idle"]]
            BY <2>2 DEF Replace, RefuseExpired, Answered, RotationFails, Commit
        <3>2. [NoRotation EXCEPT !.at = "idle"].at = "idle"
            BY IdleRotation
        <3> QED
            BY <1>1, <2>0, <3>1, <3>2
    <2>3. ASSUME NEW p \in Rotations, DetectReuse(p)
          PROVE  FALSE
        BY <1>1, <2>0, <2>3 DEF DetectReuse, RotationRecords
    <2>4. ASSUME NEW p \in Rotations, RevokeFamily(p)
          PROVE  p = q
        BY <1>1, <2>0, <2>4 DEF RevokeFamily, RotationRecords
    <2>5. CASE UNCHANGED rotation
        BY <1>1, <2>5
    <2>6. RevokeFamily(q)
        BY <1>1, <2>1, <2>2, <2>3, <2>4, <2>5
           DEF SessionNext, sessionVars, Login, RevokeRefreshSession, Lapse, DeleteAccount
    <2> QED
        BY <1>1, <2>6 DEF RevokeFamily, SessionInv, SessionTypeOK, RotationRecords, AloneSeesAll, Overlapping, Active
<1>2. SessionInv /\ [SessionNext]_sessionVars =>
        [\A q \in Rotations :
            (rotation[q].at = "revoke" /\ rotation'[q].at = "reused" /\ rotation[q].alone)
                => \A t \in Tokens : family[t] = family[rotation[q].token] => session'[t] # "active"]_sessionVars
    BY <1>1
<1> QED
    BY <1>2, SessionSafety, PTL DEF SessionSpec, ReuseEndsFamily

-----------------------------------------------------------------------------
(* A transaction that goes on knows the roles and every account it read to *)
(* exist as they are.                                                      *)
LEMMA ReadAccountsHold ==
    ASSUME RoleInv, NEW q \in Requests, NEW p \in People, view[q].at = "checking"
    PROVE  /\ view[q].role = role
           /\ Exists(q, p) => account[p] = view[q].account[p]
           /\ "super_admin" \in Holds(q, p) <=> "super_admin" \in account[p].roles
           /\ "super_admin" \in account[p].roles => account[p].exists
<1> USE DEF RoleInv
<1>1. AccountUnchanged(q, p) \/ RegisteredSince(q, p)
    BY DEF ViewsHold
<1>2. CASE AccountUnchanged(q, p)
    BY <1>2 DEF AccountUnchanged, Holds, SystemRolesStay, ViewsHold
<1>3. CASE RegisteredSince(q, p)
    BY <1>3 DEF RegisteredSince, Exists, Holds, ViewsHold
<1> QED
    BY <1>1, <1>2, <1>3

(* A registration is seen by no transaction under way.                     *)
LEMMA RegisterKeeps ==
    ASSUME RoleInv, NEW p \in People, Register(p)
    PROVE  RoleInv'
<1> USE DEF RoleInv, Register
<1>0. account[p] = [exists |-> FALSE, roles |-> {}] /\ account \in Accounts
    BY DEF RoleTypeOK, Accounts, SystemRolesStay
<1>1. RoleTypeOK'
    <2>1. [exists |-> TRUE, roles |-> {"customer"}] \in [exists: BOOLEAN, roles: SUBSET Codes]
        BY DEF Codes, SystemRoles
    <2> QED
        BY <2>1 DEF RoleTypeOK, Accounts
<1>2. ViewsHold'
    BY <1>0 DEF ViewsHold, AccountUnchanged, RegisteredSince, Accounts
<1>3. SystemRolesStay'
    BY <1>0 DEF SystemRolesStay, Accounts
<1> QED
    BY <1>1, <1>2, <1>3

(* The lock admits one transaction, which reads the tables as they are.    *)
LEMMA LockKeeps ==
    ASSUME RoleInv, NEW q \in Requests, AuthorizationLock(q)
    PROVE  RoleInv'
<1> USE DEF RoleInv, AuthorizationLock, Read
<1>1. RoleTypeOK'
    BY DEF RoleTypeOK, NoView, Views
<1>2. ViewsHold'
    BY DEF ViewsHold, AccountUnchanged, RegisteredSince, RoleTypeOK, NoView, Views
<1>3. SystemRolesStay'
    BY DEF SystemRolesStay
<1> QED
    BY <1>1, <1>2, <1>3

(* A transaction ends: whatever it wrote keeps the types and the system    *)
(* roles, no view is left.                                                 *)
LEMMA EndKeeps ==
    ASSUME RoleInv, NEW q \in Requests, view[q].at = "checking",
           view' = [view EXCEPT ![q] = NoView],
           account' \in Accounts, role' \in RoleTables,
           \A c \in SystemRoles : role'[c] = role[c],
           \A p \in People : ~account'[p].exists => account'[p].roles = {}
    PROVE  RoleInv'
<1> USE DEF RoleInv
<1>1. RoleTypeOK'
    BY DEF RoleTypeOK
<1>2. \A p \in Requests : view'[p].at # "checking"
    BY DEF ViewsHold, RoleTypeOK, NoView, Views
<1>3. ViewsHold'
    BY <1>2 DEF ViewsHold
<1>4. SystemRolesStay'
    BY DEF SystemRolesStay
<1> QED
    BY <1>1, <1>3, <1>4

(* Saving or deleting a role ends the only request that is under way, and  *)
(* spares the system roles.                                                *)
LEMMA RoleWritesKeep ==
    ASSUME RoleInv, NEW q \in Requests, NEW a \in People, NEW c \in Codes,
           \/ \E grants \in SUBSET Permissions, create \in BOOLEAN : SaveRole(q, a, c, grants, create)
           \/ DeleteRole(q, a, c)
    PROVE  RoleInv'
<1> USE DEF RoleInv
<1>1. view[q].at = "checking" /\ view' = [view EXCEPT ![q] = NoView] /\ account' = account
    BY DEF SaveRole, DeleteRole, By
<1>2. PICK grants \in SUBSET Permissions, e \in BOOLEAN :
          role' = [role EXCEPT ![c] = [exists |-> e, grants |-> grants]] /\ c \notin SystemRoles
    BY DEF SaveRole, DeleteRole
<1>3. role' \in RoleTables
    BY <1>2 DEF RoleTypeOK, RoleTables
<1>4. \A d \in SystemRoles : role'[d] = role[d]
    BY <1>2
<1> QED
    BY <1>1, <1>3, <1>4, EndKeeps DEF RoleTypeOK, SystemRolesStay

(* So does giving an account its roles or deleting a customer; a deleted   *)
(* account keeps none.                                                     *)
LEMMA AccountWritesKeep ==
    ASSUME RoleInv, NEW q \in Requests, NEW a \in People, NEW p \in People,
           \/ \E codes \in SUBSET Codes : AssignRoles(q, a, p, codes)
           \/ DeleteCustomer(q, a, p)
    PROVE  RoleInv'
<1> USE DEF RoleInv
<1>1. /\ view[q].at = "checking" /\ view' = [view EXCEPT ![q] = NoView] /\ role' = role
      /\ Exists(q, p)
    BY DEF AssignRoles, DeleteCustomer, By, MayAssign
<1>2. account \in Accounts /\ account[p].exists
    BY <1>1, ReadAccountsHold DEF RoleTypeOK, Exists
<1>3. account' \in Accounts /\ \A o \in People : ~account'[o].exists => account'[o].roles = {}
    <2>1. ASSUME NEW codes \in SUBSET Codes, AssignRoles(q, a, p, codes)
          PROVE  account' \in Accounts /\ \A o \in People : ~account'[o].exists => account'[o].roles = {}
        BY <1>2, <2>1 DEF AssignRoles, Accounts, SystemRolesStay
    <2>2. CASE DeleteCustomer(q, a, p)
        BY <1>2, <2>2 DEF DeleteCustomer, Accounts, SystemRolesStay
    <2> QED
        BY <2>1, <2>2
<1> QED
    BY <1>1, <1>3, EndKeeps DEF RoleTypeOK

(* What the transactions read is what they change, through every step.     *)
LEMMA RoleStep == RoleInv /\ [RoleNext]_roleVars => RoleInv'
<1> SUFFICES ASSUME RoleInv, [RoleNext]_roleVars PROVE RoleInv'
    OBVIOUS
<1>1. ASSUME NEW q \in Requests, Refuse(q)
      PROVE  RoleInv'
    BY <1>1, EndKeeps DEF Refuse, RoleInv, RoleTypeOK, SystemRolesStay
<1>2. CASE UNCHANGED roleVars
    BY <1>2 DEF roleVars, RoleInv, RoleTypeOK, ViewsHold, SystemRolesStay,
                AccountUnchanged, RegisteredSince
<1> QED
    BY <1>1, <1>2, RegisterKeeps, LockKeeps, RoleWritesKeep, AccountWritesKeep DEF RoleNext

(* The tables start as the migrations seed them, and no request is under   *)
(* way.                                                                    *)
LEMMA RoleInvInit == RoleInit => RoleInv
<1> SUFFICES ASSUME RoleInit PROVE RoleInv
    OBVIOUS
<1>1. account \in Accounts /\ \A p \in People : ~account[p].exists => account[p].roles = {}
    <2>1. {"super_admin"} \in SUBSET Codes /\ {} \in SUBSET Codes
        BY DEF Codes, SystemRoles
    <2>2. ASSUME NEW p \in People
          PROVE  account[p] \in [exists: BOOLEAN, roles: SUBSET Codes]
        BY <2>1 DEF RoleInit
    <2> QED
        BY <2>2 DEF RoleInit, Accounts
<1>2. role \in RoleTables
    BY DEF RoleInit, RoleTables, SystemGrants, Permissions, Codes, SystemRoles
<1>3. \A c \in SystemRoles : role[c] = [exists |-> TRUE, grants |-> SystemGrants(c)]
    BY DEF RoleInit, Codes
<1> QED
    BY <1>1, <1>2, <1>3 DEF RoleInit, RoleInv, RoleTypeOK, ViewsHold, SystemRolesStay, NoView

(* Every transaction decides on the roles as they are.                     *)
THEOREM RolesAreLocked == RoleSpec => []RoleInv
BY RoleInvInit, RoleStep, PTL DEF RoleSpec

(* Demotions, deletions and changes of roles, however many at once, never  *)
(* leave the shop without a super_admin, provided the migration found an   *)
(* administrator to start with (protectLastSuper in authorization.go).     *)
THEOREM SuperAdminKept == FirstAdmins # {} /\ RoleSpec => []SuperAdminRemains
<1>1. FirstAdmins # {} /\ RoleInit => SuperAdminRemains
    <2> SUFFICES ASSUME NEW p \in FirstAdmins, RoleInit PROVE SuperAdminRemains
        OBVIOUS
    <2>1. p \in People /\ account[p] = [exists |-> TRUE, roles |-> {"super_admin"}]
        BY AdminsAssumption DEF RoleInit
    <2> QED
        BY <2>1 DEF SuperAdminRemains
<1>2. RoleInv /\ SuperAdminRemains /\ [RoleNext]_roleVars => SuperAdminRemains'
    <2> SUFFICES ASSUME RoleInv, SuperAdminRemains, [RoleNext]_roleVars
                 PROVE  SuperAdminRemains'
        OBVIOUS
    <2>0. account \in Accounts
        BY DEF RoleInv, RoleTypeOK
    <2>1. ASSUME NEW p \in People, Register(p)
          PROVE  SuperAdminRemains'
        BY <2>0, <2>1 DEF Register, SuperAdminRemains, Accounts
    <2>2. ASSUME NEW q \in Requests, NEW a \in People, NEW p \in People, NEW codes \in SUBSET Codes,
                 AssignRoles(q, a, p, codes)
          PROVE  SuperAdminRemains'
        <3>1. view[q].at = "checking" /\ Exists(q, p) /\ account' = [account EXCEPT ![p].roles = codes]
            BY <2>2 DEF AssignRoles, By, MayAssign
        <3>2. CASE "super_admin" \in codes \/ "super_admin" \notin account[p].roles
            BY <2>0, <3>1, <3>2, ReadAccountsHold DEF SuperAdminRemains, Accounts, Exists
        <3>3. CASE "super_admin" \in account[p].roles \ codes
            <4>1. PICK o \in People \ {p} : "super_admin" \in Holds(q, o)
                BY <2>2, <3>1, <3>3, ReadAccountsHold DEF AssignRoles, MayAssign, ProtectLastSuper
            <4>2. "super_admin" \in account[o].roles /\ account[o].exists
                BY <3>1, <4>1, ReadAccountsHold
            <4> QED
                BY <2>0, <3>1, <4>1, <4>2 DEF SuperAdminRemains, Accounts
        <3> QED
            BY <3>2, <3>3
    <2>3. ASSUME NEW q \in Requests, NEW a \in People, NEW p \in People, DeleteCustomer(q, a, p)
          PROVE  SuperAdminRemains'
        <3>1. "super_admin" \notin account[p].roles
            BY <2>3, ReadAccountsHold DEF DeleteCustomer, By
        <3> QED
            BY <2>0, <2>3, <3>1 DEF DeleteCustomer, SuperAdminRemains, Accounts
    <2>4. CASE UNCHANGED account
        BY <2>4 DEF SuperAdminRemains
    <2> QED
        BY <2>1, <2>2, <2>3, <2>4
           DEF RoleNext, roleVars, AuthorizationLock, Read, SaveRole, DeleteRole, Refuse
<1> QED
    BY <1>1, <1>2, RolesAreLocked, PTL DEF RoleSpec

(* Nobody raises himself or grants what he does not have, by roles he      *)
(* assigns or by roles he changes (SaveRole, AssignRoles).                 *)
THEOREM GrantsComeFromActor == RoleSpec => GainedFromActor
<1>1. ASSUME RoleInv, [RoleNext]_roleVars, NEW p \in People, Gained(p) # {}
      PROVE  actor' \in People \ {p} /\ Gained(p) \subseteq Grants(account, role, actor')
    <2>0. account \in Accounts /\ role \in RoleTables
        BY <1>1 DEF RoleInv, RoleTypeOK
    <2>1. ASSUME NEW o \in People, Register(o)
          PROVE  FALSE
        <3>1. role'["customer"].grants = {} /\ role' = role
            BY <1>1, <2>1 DEF RoleInv, SystemRolesStay, SystemRoles, SystemGrants, Register
        <3> QED
            BY <1>1, <2>0, <2>1, <3>1 DEF Register, Gained, Grants, Accounts
    <2>2. ASSUME NEW q \in Requests, view[q].at = "checking", NEW a \in People, Exists(q, a)
          PROVE  /\ Allowed(q, a) = Grants(account, role, a)
                 /\ Holds(q, a) = account[a].roles
        BY <1>1, <2>2, ReadAccountsHold DEF Allowed, Grants, Holds
    <2>3. ASSUME NEW q \in Requests, NEW a \in People, NEW c \in Codes,
                 NEW grants \in SUBSET Permissions, NEW create \in BOOLEAN,
                 SaveRole(q, a, c, grants, create)
          PROVE  actor' \in People \ {p} /\ Gained(p) \subseteq Grants(account, role, actor')
        <3>1. /\ actor' = a /\ c \notin account[a].roles /\ grants \subseteq Grants(account, role, a)
              /\ account' = account /\ role' = [role EXCEPT ![c] = [exists |-> TRUE, grants |-> grants]]
            BY <2>2, <2>3 DEF SaveRole, By
        <3>2. c \in account[p].roles /\ Gained(p) \subseteq grants
            BY <1>1, <2>0, <3>1 DEF Gained, Grants, RoleTables, Accounts
        <3> QED
            BY <3>1, <3>2
    <2>4. ASSUME NEW q \in Requests, NEW a \in People, NEW c \in Codes, DeleteRole(q, a, c)
          PROVE  FALSE
        BY <1>1, <2>0, <2>4 DEF DeleteRole, Gained, Grants, RoleTables, Accounts
    <2>5. ASSUME NEW q \in Requests, NEW a \in People, NEW o \in People, NEW codes \in SUBSET Codes,
                 AssignRoles(q, a, o, codes)
          PROVE  actor' \in People \ {p} /\ Gained(p) \subseteq Grants(account, role, actor')
        <3>1. /\ actor' = a /\ a # o /\ account' = [account EXCEPT ![o].roles = codes] /\ role' = role
              /\ view[q].at = "checking" /\ Exists(q, a)
              /\ \A c \in codes : view[q].role[c].grants \subseteq Allowed(q, a)
            BY <2>5 DEF AssignRoles, By, MayAssign
        <3>2. \A c \in codes : role[c].grants \subseteq Grants(account, role, a)
            BY <1>1, <2>2, <3>1, ReadAccountsHold
        <3>3. p = o /\ \A g \in Gained(p) : \E c \in codes : g \in role[c].grants
            BY <1>1, <2>0, <3>1 DEF Gained, Grants, Accounts
        <3> QED
            BY <3>1, <3>2, <3>3
    <2>6. ASSUME NEW q \in Requests, NEW a \in People, NEW o \in People, DeleteCustomer(q, a, o)
          PROVE  FALSE
        BY <1>1, <2>0, <2>6 DEF DeleteCustomer, Gained, Grants, Accounts
    <2>7. CASE UNCHANGED <<account, role>>
        BY <1>1, <2>7 DEF Gained, Grants
    <2> QED
        BY <1>1, <2>1, <2>3, <2>4, <2>5, <2>6, <2>7
           DEF RoleNext, roleVars, AuthorizationLock, Read, Refuse
<1>2. RoleInv /\ [RoleNext]_roleVars =>
        [\A p \in People : Gained(p) # {} =>
            actor' \in People \ {p} /\ Gained(p) \subseteq Grants(account, role, actor')]_roleVars
    BY <1>1
<1> QED
    BY <1>2, RolesAreLocked, PTL DEF RoleSpec, GainedFromActor
=============================================================================
