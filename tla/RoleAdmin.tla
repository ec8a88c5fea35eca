------------------------------- MODULE RoleAdmin -------------------------------
(***************************************************************************)
(* Roles, permissions and their administration:                            *)
(* internal/auth/adapter/postgres/authorization.go and Delete in           *)
(* repository.go.  Every mutation takes one advisory lock, reads what it   *)
(* checks, and commits; what it has read is in "view".                     *)
(***************************************************************************)
EXTENDS Naturals, FiniteSets

CONSTANTS
    People,             \* account ids
    CustomRoles,        \* role codes that may be created
    Requests,           \* concurrent transactions
    FirstAdmins,        \* accounts that start as super_admin
    MaxRoles            \* most roles one assignment may name (30 in the code)

ASSUME AdminsAssumption == FirstAdmins \subseteq People

\* One permission for each kind of check; the business permissions are one.
Permissions == {"roles.manage", "users.assign_roles", "customers.delete"}
SystemRoles == {"super_admin", "admin", "customer"}
SystemGrants(c) ==
    CASE c = "super_admin" -> Permissions
      [] c = "admin" -> {"customers.delete"}
      [] OTHER -> {}

VARIABLES
    account,            \* roles of each account, {} with exists = FALSE when there is none
    role,               \* permissions of each role, with exists
    view,               \* what each transaction has read
    actor               \* who made the last change (history)

roleVars == <<account, role, view, actor>>
Codes == SystemRoles \cup CustomRoles
NoView == [at |-> "idle"]

RoleInit ==
    /\ account = [p \in People |-> [exists |-> p \in FirstAdmins,
                                    roles |-> IF p \in FirstAdmins THEN {"super_admin"} ELSE {}]]
    /\ role = [c \in Codes |-> [exists |-> c \in SystemRoles,
                                grants |-> SystemGrants(c)]]
    /\ view = [q \in Requests |-> NoView]
    /\ actor = "none"

Grants(accounts, roles, p) == UNION {roles[c].grants : c \in accounts[p].roles}

Register(p) ==
    /\ ~account[p].exists
    /\ account' = [account EXCEPT ![p] = [exists |-> TRUE, roles |-> {"customer"}]]
    /\ actor' = "none"
    /\ UNCHANGED <<role, view>>

Read(q) ==
    /\ view[q].at = "idle"
    /\ view' = [view EXCEPT ![q] = [at |-> "checking", account |-> account, role |-> role]]
    /\ UNCHANGED <<account, role, actor>>

\* Mutation: the transaction does not take the advisory lock.
BeginUnlocked(q) == Read(q)

\* pg_advisory_xact_lock, held until the end of the transaction.
AuthorizationLock(q) == (\A o \in Requests : view[o].at = "idle") /\ Read(q)

Holds(q, p) == view[q].account[p].roles
Allowed(q, p) == Grants(view[q].account, view[q].role, p)
Exists(q, p) == view[q].account[p].exists

By(q, a) ==
    /\ view[q].at = "checking" /\ Exists(q, a)
    /\ view' = [view EXCEPT ![q] = NoView]
    /\ actor' = a

SaveRole(q, a, c, grants, create) ==
    /\ By(q, a)
    /\ "roles.manage" \in Allowed(q, a)
    /\ c \notin SystemRoles /\ grants # {}
    /\ view[q].role[c].exists = ~create
    /\ c \notin Holds(q, a)
    /\ grants \subseteq Allowed(q, a) /\ view[q].role[c].grants \subseteq Allowed(q, a)
    /\ role' = [role EXCEPT ![c] = [exists |-> TRUE, grants |-> grants]]
    /\ UNCHANGED account

DeleteRole(q, a, c) ==
    /\ By(q, a)
    /\ "roles.manage" \in Allowed(q, a)
    /\ c \notin SystemRoles /\ view[q].role[c].exists
    /\ c \notin Holds(q, a)
    /\ view[q].role[c].grants \subseteq Allowed(q, a)
    /\ \A p \in People : c \notin Holds(q, p)
    /\ role' = [role EXCEPT ![c] = [exists |-> FALSE, grants |-> {}]]
    /\ UNCHANGED account

ProtectLastSuper(q, p) == \E o \in People \ {p} : "super_admin" \in Holds(q, o)

\* What AssignRoles checks before the grants of the roles it assigns.
MayAssign(q, a, p, codes) ==
    /\ a # p /\ "users.assign_roles" \in Allowed(q, a)
    /\ Exists(q, p) /\ codes # {} /\ Cardinality(codes) <= MaxRoles
    /\ "super_admin" \in Holds(q, a) \/ "super_admin" \notin Holds(q, p) \cup codes
    /\ Allowed(q, p) \subseteq Allowed(q, a)
    /\ \A c \in codes : view[q].role[c].exists
    /\ "super_admin" \in Holds(q, p) \ codes => ProtectLastSuper(q, p)

\* Mutation: only the codes are checked, not what the roles grant.
AssignAnyRoles(q, a, p, codes) ==
    /\ By(q, a) /\ MayAssign(q, a, p, codes)
    /\ account' = [account EXCEPT ![p].roles = codes]
    /\ UNCHANGED role

AssignRoles(q, a, p, codes) ==
    /\ By(q, a) /\ MayAssign(q, a, p, codes)
    /\ \A c \in codes : view[q].role[c].grants \subseteq Allowed(q, a)
    /\ account' = [account EXCEPT ![p].roles = codes]
    /\ UNCHANGED role

DeleteCustomer(q, a, p) ==
    /\ By(q, a) /\ a # p /\ Exists(q, p)
    /\ "customers.delete" \in Allowed(q, a)
    /\ Allowed(q, p) \subseteq Allowed(q, a)
    /\ "super_admin" \notin Holds(q, p)
    /\ account' = [account EXCEPT ![p] = [exists |-> FALSE, roles |-> {}]]
    /\ UNCHANGED role

\* Any check fails: the transaction rolls back.
Refuse(q) ==
    /\ view[q].at = "checking"
    /\ view' = [view EXCEPT ![q] = NoView]
    /\ UNCHANGED <<account, role, actor>>

RoleNext ==
    \/ \E p \in People : Register(p)
    \/ \E q \in Requests :
        \/ AuthorizationLock(q)
        \/ \E a \in People :
            \/ \E c \in Codes, grants \in SUBSET Permissions, create \in BOOLEAN : SaveRole(q, a, c, grants, create)
            \/ \E c \in Codes : DeleteRole(q, a, c)
            \/ \E p \in People, codes \in SUBSET Codes : AssignRoles(q, a, p, codes)
            \/ \E p \in People : DeleteCustomer(q, a, p)
        \/ Refuse(q)

RoleSpec == RoleInit /\ [][RoleNext]_roleVars

-----------------------------------------------------------------------------
\* Administrators who demote and delete one another at once never leave the
\* system without a super_admin.
SuperAdminRemains == \E p \in People : account[p].exists /\ "super_admin" \in account[p].roles

\* What p may do after a step and could not do before.
Gained(p) == Grants(account', role', p) \ Grants(account, role, p)

\* Whatever somebody gains, by new roles or by changed ones, the one who made the
\* change had it before, and nobody gains anything by his own change.
GainedFromActor ==
    [][\A p \in People : Gained(p) # {} =>
        actor' \in People \ {p} /\ Gained(p) \subseteq Grants(account, role, actor')]_roleVars
=============================================================================
