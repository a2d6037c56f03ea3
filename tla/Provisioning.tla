---------------------------- MODULE Provisioning ----------------------------
(***************************************************************************)
(* Local identities of one tenant: the explicit first-administrator        *)
(* bootstrap, the demonstration seed and the user and group services, each *)
(* in a transaction of its own (packages/auth: bootstrap.py, seed.py,      *)
(* user_service.py, group_service.py).                                     *)
(*                                                                         *)
(* PostgreSQL at READ COMMITTED: bootstrap locks the tenant row FOR UPDATE,*)
(* an insert that refers to the tenant holds a key-share lock on it until  *)
(* its transaction ends, and the two exclude each other.  A unique entry   *)
(* or a referenced row under change makes the other transaction wait.      *)
(***************************************************************************)
EXTENDS Naturals, FiniteSets

CONSTANTS
    Admins,      \* transactions in progress at the same time
    Names,       \* usernames; the seed's user is SeedName
    SeedName,
    MaxGroups    \* bound on the groups ever created

ASSUME ProvisionAssumption == SeedName \in Names /\ MaxGroups \in Nat

VARIABLES
    tenant,      \* the committed tenant row: on, and the bootstrap marker
    groups,      \* group id -> committed name and origin; "none": no row
    users,       \* username -> committed row
    made,        \* group ids handed out
    tx,          \* transaction -> where it is and what it has read or flushed
    lock         \* transaction -> its lock on the tenant row

provisionVars == <<tenant, groups, users, made, tx, lock>>

GroupIds == 1..MaxGroups
NoGroup == [name |-> "none", by |-> "none"]
NoUser == [on |-> FALSE, group |-> 0, version |-> 0]
Ended == [at |-> "away", user |-> SeedName, group |-> 0, name |-> "none",
          seen |-> {}]

\* A user belongs to a group that was made, a version moves once per change of
\* group, and a lock is held within a transaction only.
ProvisionTypeOK ==
    /\ tenant.admin \in Names \cup {"none"} /\ tenant.group \in 0..MaxGroups
    /\ made \in 0..MaxGroups
    /\ \A g \in GroupIds : groups[g] # NoGroup => g <= made
    /\ \A u \in Names : users[u].group \in 0..made /\ users[u].version \in 0..2
    /\ \A a \in Admins : tx[a].at = "away" => lock[a] = "none"

ProvisionInit ==
    /\ tenant = [on |-> FALSE, admin |-> "none", group |-> 0]
    /\ groups = [g \in GroupIds |-> NoGroup]
    /\ users = [u \in Names |-> NoUser]
    /\ made = 0
    /\ tx = [a \in Admins |-> Ended]
    /\ lock = [a \in Admins |-> "none"]

Moves(a, at) == tx' = [tx EXCEPT ![a].at = at]
Locks(a, mode) == lock' = [lock EXCEPT ![a] = mode]
Ends(a) == tx' = [tx EXCEPT ![a] = Ended] /\ Locks(a, "none")

\* What the others flushed and have not committed: names under a unique index.
Flushed(a, at) == {b \in Admins \ {a} : tx[b].at = at}
NameHeld(a, name) ==
    \E b \in Admins \ {a} : /\ tx[b].at \in {"grouped", "seeded", "renamed"}
                            /\ tx[b].name = name
UserHeld(a, user) == \E b \in Flushed(a, "joined") : tx[b].user = user
NameTaken(name) == \E g \in GroupIds : groups[g].name = name

\* A migration or AuthRepository.create_tenant: a tenant with no identities.
CreateTenant ==
    /\ ~tenant.on /\ \A a \in Admins : lock[a] # "update"
    /\ tenant' = [tenant EXCEPT !.on = TRUE]
    /\ UNCHANGED <<groups, users, made, tx, lock>>

\* A call is made; a request that fails validation opens no transaction.
Call(a) ==
    /\ tx[a].at = "away"
    /\ \/ \E u \in Names : tx' = [tx EXCEPT ![a] = [Ended EXCEPT !.at = "boot", !.user = u]]
       \/ tx' = [tx EXCEPT ![a] = [Ended EXCEPT !.at = "seed", !.name = "seed"]]
       \/ \E u \in Names, g \in 0..made :
            tx' = [tx EXCEPT ![a] = [Ended EXCEPT !.at = "join", !.user = u, !.group = g]]
       \/ tx' = [tx EXCEPT ![a] = [Ended EXCEPT !.at = "group", !.name = "other"]]
       \/ \E g \in 1..made, at \in {"rename", "delete"} :
            tx' = [tx EXCEPT ![a] = [Ended EXCEPT !.at = at, !.group = g, !.name = "other"]]
    /\ UNCHANGED <<tenant, groups, users, made, lock>>

Unlocked(a) == TRUE   \* seeded fault
\* SELECT ... FOR UPDATE waits for every lock on the tenant row.
RowFree(a) == \A b \in Admins \ {a} : lock[b] = "none"

\* An absent tenant is inserted instead; the loser of that race conflicts.
BootLock(a) ==
    /\ tx[a].at \in {"boot", "new"}
    /\ IF tx[a].at = "boot" /\ ~tenant.on THEN Moves(a, "new") /\ UNCHANGED lock
       ELSE /\ RowFree(a)
            /\ IF tx[a].at = "boot" THEN Locks(a, "update") /\ Moves(a, "check")
               ELSE IF tenant.on THEN Ends(a)
               ELSE Locks(a, "update") /\ Moves(a, "write")
    /\ UNCHANGED <<tenant, groups, users, made>>

NoIdentity == /\ \A u \in Names : ~users[u].on
              /\ \A g \in GroupIds : groups[g] = NoGroup

\* A marker is answered from the identities found (_existing_result); any
\* identity without a marker is a conflict. Both end without a write.
BootCheck(a) ==
    /\ tx[a].at = "check"
    /\ IF tenant.admin = "none" /\ NoIdentity THEN Moves(a, "write") /\ UNCHANGED lock
       ELSE Ends(a)
    /\ UNCHANGED <<tenant, groups, users, made>>

\* Tenant, group, administrator and marker in one commit.
BootCommit(a) ==
    /\ tx[a].at = "write" /\ made < MaxGroups
    /\ made' = made + 1
    /\ groups' = [groups EXCEPT ![made'] = [name |-> "boot", by |-> "boot"]]
    /\ users' = [users EXCEPT ![tx[a].user] = [on |-> TRUE, group |-> made', version |-> 1]]
    /\ tenant' = [on |-> TRUE, admin |-> tx[a].user, group |-> made']
    /\ Ends(a)

\* An insert that refers to the tenant: it must exist, and its row be free of
\* a bootstrap, whose lock the insert's own then excludes.
Refers(a, at) ==
    /\ \A b \in Admins \ {a} : lock[b] # "update"
    /\ IF tenant.on THEN Locks(a, "share") /\ Moves(a, at) ELSE Ends(a)

\* create_user: the group is looked up first and must still be there when the
\* row is flushed; either integrity error reads "Username is not available".
FindGroup(a) ==
    /\ tx[a].at = "join"
    /\ IF tx[a].group # 0 /\ groups[tx[a].group] = NoGroup THEN Ends(a)
       ELSE Moves(a, "insert") /\ UNCHANGED lock
    /\ UNCHANGED <<tenant, groups, users, made>>

CreateUser(a) ==
    /\ tx[a].at = "insert"
    /\ ~UserHeld(a, tx[a].user)
    /\ IF users[tx[a].user].on \/ (tx[a].group # 0 /\ groups[tx[a].group] = NoGroup)
       THEN Ends(a) ELSE Refers(a, "joined")
    /\ UNCHANGED <<tenant, groups, users, made>>

UserCommit(a) ==
    /\ tx[a].at = "joined"
    /\ users' = [users EXCEPT ![tx[a].user] = [on |-> TRUE, group |-> tx[a].group, version |-> 1]]
    /\ Ends(a)
    /\ UNCHANGED <<tenant, groups, made>>

CreateGroup(a) ==
    /\ tx[a].at = "group"
    /\ ~NameHeld(a, tx[a].name)
    /\ IF NameTaken(tx[a].name) THEN Ends(a) ELSE Refers(a, "grouped")
    /\ UNCHANGED <<tenant, groups, users, made>>

GroupCommit(a) ==
    /\ tx[a].at = "grouped" /\ made < MaxGroups
    /\ made' = made + 1
    /\ groups' = [groups EXCEPT ![made'] = [name |-> tx[a].name, by |-> "api"]]
    /\ Ends(a)
    /\ UNCHANGED <<tenant, users>>

\* update_group: a group that vanished, or a name that is taken, is refused.
UpdateGroup(a) ==
    /\ tx[a].at = "rename"
    /\ ~NameHeld(a, tx[a].name)
    /\ groups' = IF groups[tx[a].group] = NoGroup \/ NameTaken(tx[a].name) THEN groups
                 ELSE [groups EXCEPT ![tx[a].group].name = tx[a].name]
    /\ Ends(a)
    /\ UNCHANGED <<tenant, users, made>>

Members(g) == {u \in Names : users[u].on /\ users[u].group = g}

\* delete_group's UPDATE of the members it sees, whose rows stay locked. A
\* user whose insert is in flight or follows still refers to the group.
EmptyGroup(a) ==
    /\ tx[a].at = "delete"
    /\ \A b \in Flushed(a, "emptied") : tx[b].group # tx[a].group \/ tx[b].seen = {}
    /\ IF groups[tx[a].group] = NoGroup THEN Ends(a)
       ELSE tx' = [tx EXCEPT ![a].at = "emptied", ![a].seen = Members(tx[a].group)] /\ UNCHANGED lock
    /\ UNCHANGED <<tenant, groups, users, made>>

\* Members lose the group and, with the new version, their sessions.
Emptied(a) ==
    [u \in Names |-> IF u \in tx[a].seen
                     THEN [users[u] EXCEPT !.group = 0, !.version = @ + 1] ELSE users[u]]

\* The foreign key of local_users to user_groups.
Referenced(a) == Members(tx[a].group) \ tx[a].seen # {}

\* The DELETE waits for inserts that refer to the group; one that committed
\* after the UPDATE is a foreign-key violation and rolls everything back.
DeleteGroup(a) ==
    /\ tx[a].at = "emptied"
    /\ \A b \in Flushed(a, "joined") : tx[b].group # tx[a].group
    /\ IF Referenced(a) THEN UNCHANGED <<users, groups>>
       ELSE users' = Emptied(a) /\ groups' = [groups EXCEPT ![tx[a].group] = NoGroup]
    /\ Ends(a)
    /\ UNCHANGED <<tenant, made>>

\* _seed: skip the group that exists or flush it ...
SeedGroup(a) ==
    /\ tx[a].at = "seed"
    /\ ~NameHeld(a, "seed")
    /\ IF NameTaken("seed") THEN Moves(a, "map") /\ UNCHANGED lock ELSE Refers(a, "seeded")
    /\ UNCHANGED <<tenant, groups, users, made>>

\* ... resolve its id, which is none when the group was deleted meanwhile.
MapGroup(a) ==
    /\ tx[a].at = "map"
    /\ \E g \in 0..made : /\ IF NameTaken("seed") THEN g # 0 /\ groups[g].name = "seed" ELSE g = 0
                          /\ tx' = [tx EXCEPT ![a].at = "fill", ![a].group = g]
    /\ UNCHANGED <<tenant, groups, users, made, lock>>

\* The flushed group with its user, in one commit.
SeedNew(a) ==
    /\ tx[a].at = "seeded" /\ made < MaxGroups
    /\ ~UserHeld(a, SeedName)
    /\ made' = made + 1
    /\ groups' = [groups EXCEPT ![made'] = [name |-> "seed", by |-> "seed"]]
    /\ users' = IF users[SeedName].on THEN users
                ELSE [users EXCEPT ![SeedName] = [on |-> TRUE, group |-> made', version |-> 1]]
    /\ Ends(a)
    /\ UNCHANGED tenant

\* The user of a group that existed: its insert refers to tenant and group.
SeedUser(a) ==
    /\ tx[a].at = "fill"
    /\ ~UserHeld(a, SeedName)
    /\ \A b \in Admins \ {a} : lock[b] # "update"
    /\ users' = IF users[SeedName].on \/ (tx[a].group # 0 /\ groups[tx[a].group] = NoGroup)
                THEN users
                ELSE [users EXCEPT ![SeedName] = [on |-> TRUE, group |-> tx[a].group, version |-> 1]]
    /\ Ends(a)
    /\ UNCHANGED <<tenant, groups, made>>

\* A statement fails, or the process dies: the transaction rolls back.
FailAdmin(a) ==
    /\ tx[a].at # "away"
    /\ Ends(a)
    /\ UNCHANGED <<tenant, groups, users, made>>

ProvisionNext ==
    \/ CreateTenant
    \/ \E a \in Admins :
        \/ Call(a) \/ BootLock(a) \/ BootCheck(a) \/ BootCommit(a)
        \/ FindGroup(a) \/ CreateUser(a) \/ UserCommit(a) \/ CreateGroup(a) \/ GroupCommit(a)
        \/ UpdateGroup(a) \/ EmptyGroup(a) \/ DeleteGroup(a)
        \/ SeedGroup(a) \/ MapGroup(a) \/ SeedNew(a) \/ SeedUser(a) \/ FailAdmin(a)

-----------------------------------------------------------------------------
\* Bootstrap adopts nothing: it writes only into a tenant that has no
\* identity at the instant of its commit and no marker, whatever seed, user
\* or group calls and other bootstraps run beside it ("creating only
\* brand-new identities"; the tenant row's lock against the inserts').
AdoptsNothing ==
    [][ tenant'.admin # tenant.admin => NoIdentity /\ tenant.admin = "none" ]_provisionVars

\* Losing a group ends the user's sessions: a member changes group only to
\* none and only with a new auth_version, and no row is ever taken over by a
\* second creation (delete_group, the unique username).
MembersBumped ==
    [][ \A u \in Names :
          users[u].on /\ users'[u] # users[u]
            => /\ users[u].group # 0 /\ users'[u].group = 0
               /\ users'[u].version = users[u].version + 1 ]_provisionVars

\* The seed is all or nothing: a group it created never exists without its
\* user (one commit at the end of _seed).
SeedWhole ==
    (\E g \in GroupIds : groups[g].by = "seed") => users[SeedName].on

\* Every user's group exists: a group never goes while a user created beside
\* its deletion refers to it (the tenant/group foreign key, delete_group's
\* UPDATE before its DELETE).
GroupsExist ==
    \A u \in Names : users[u].group # 0 => groups[users[u].group] # NoGroup
=============================================================================
