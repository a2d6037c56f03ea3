--------------------------- MODULE WorkflowProofs ---------------------------
(***************************************************************************)
(* Proofs about Provisioning, SupportTickets and ReviewQueue: rows that    *)
(* several callers read, check and write in overlapping transactions. Each *)
(* component has an inductive invariant (ProvisionInv, TicketInv,          *)
(* ReviewInv) that says what a transaction in flight has locked, read or   *)
(* flushed, and what the others may not have done since.                   *)
(***************************************************************************)
EXTENDS Provisioning, SupportTickets, ReviewQueue, TLAPS

-----------------------------------------------------------------------------
(* Tenants, groups and users *)
\* Provisioning by itself.
ProvisionSpec == ProvisionInit /\ [][ProvisionNext]_provisionVars

Places == {"away", "boot", "new", "check", "write", "join", "insert", "joined", "group", "grouped",
           "rename", "delete", "emptied", "seed", "seeded", "map", "fill"}
TenantRow == [on : BOOLEAN, admin : Names \cup {"none"}, group : 0..MaxGroups]
GroupRow == [name : {"none", "boot", "seed", "other"}, by : {"none", "boot", "seed", "api"}]
MemberRow == [on : BOOLEAN, group : 0..MaxGroups, version : Nat]
TxRow == [at : Places, user : Names, group : 0..MaxGroups, name : {"none", "seed", "other"}, seen : SUBSET Names]

ProvisionTyped ==
    /\ tenant \in TenantRow /\ made \in 0..MaxGroups
    /\ groups \in [GroupIds -> GroupRow] /\ users \in [Names -> MemberRow]
    /\ tx \in [Admins -> TxRow] /\ lock \in [Admins -> {"none", "share", "update"}]

\* The lock on the tenant row that goes with a place.
LockOf(at) == IF at \in {"check", "write"} THEN "update"
              ELSE IF at \in {"joined", "grouped", "seeded"} THEN "share" ELSE "none"

\* What the committed rows are to each other.
RowsOK ==
    /\ ~tenant.on => NoIdentity /\ tenant.admin = "none"
    /\ \A g \in GroupIds : /\ g > made => groups[g] = NoGroup
                           /\ groups[g].by = "seed" => users[SeedName].on
    /\ \A u \in Names : users[u].group # 0 => users[u].on /\ groups[users[u].group] # NoGroup

\* What a transaction in flight relies on.
TxOK(a, t) ==
    /\ lock[a] = LockOf(t.at)
    /\ t.at \in {"joined", "grouped", "seeded", "map", "fill", "check"} => tenant.on
    /\ t.at = "write" => NoIdentity /\ tenant.admin = "none"
    /\ t.at \in {"group", "grouped", "rename"} => t.name = "other"
    /\ t.at \in {"rename", "delete", "emptied"} => t.group # 0
    /\ t.at = "joined" => ~users[t.user].on /\ (t.group # 0 => groups[t.group] # NoGroup)
    /\ t.at = "emptied" => \A u \in t.seen : users[u].on /\ users[u].group = t.group

\* Two transactions keep apart.
Apart(a, b) ==
    /\ lock[a] = "update" => lock[b] = "none"
    /\ tx[a].at = "joined" /\ tx[b].at = "joined" => tx[a].user # tx[b].user
    /\ tx[a].at = "emptied" /\ tx[b].at = "emptied" /\ tx[a].group = tx[b].group
         => tx[a].seen \cap tx[b].seen = {}

ProvisionInv ==
    /\ ProvisionTyped /\ RowsOK
    /\ \A a \in Admins : TxOK(a, tx[a])
    /\ \A a, b \in Admins : a # b => Apart(a, b)

-----------------------------------------------------------------------------
\* The rows that stand for nothing.
LEMMA EndedRow == /\ Ended \in TxRow /\ Ended.at = "away" /\ NoGroup \in GroupRow
                  /\ NoGroup.name = "none" /\ NoGroup.by = "none" /\ NoUser \in MemberRow
<1>1. Ended \in TxRow
    BY ProvisionAssumption DEF Ended, TxRow, Places
<1> QED
    BY <1>1, ProvisionAssumption DEF Ended, NoGroup, GroupRow, NoUser, MemberRow

\* A step that changes nothing keeps the invariant.
LEMMA ProvisionStutter ==
    ASSUME ProvisionInv, UNCHANGED provisionVars
    PROVE  ProvisionInv'
<1>1. /\ tenant' = tenant /\ groups' = groups /\ users' = users /\ made' = made
      /\ tx' = tx /\ lock' = lock
    BY Zenon DEF provisionVars
<1>2. ProvisionTyped'
    BY <1>1 DEF ProvisionInv, ProvisionTyped
<1>3. RowsOK'
    BY <1>1 DEF ProvisionInv, RowsOK, NoIdentity
<1>4. \A a \in Admins : TxOK(a, tx[a])'
    BY <1>1 DEF ProvisionInv, TxOK, NoIdentity
<1>5. \A a, b \in Admins : a # b => Apart(a, b)'
    BY <1>1 DEF ProvisionInv, Apart
<1> QED
    BY Zenon, <1>2, <1>3, <1>4, <1>5 DEF ProvisionInv

\* A group a user belongs to is a group's number.
LEMMA MemberGroup ==
    ASSUME ProvisionInv, NEW w \in Names, users[w].group # 0
    PROVE  users[w].group \in GroupIds /\ users[w].on /\ groups[users[w].group] # NoGroup
<1>1. users[w] \in MemberRow /\ users[w].on /\ groups[users[w].group] # NoGroup
    BY Zenon DEF ProvisionInv, ProvisionTyped, RowsOK
<1> QED
    BY <1>1, ProvisionAssumption DEF MemberRow, GroupIds

\* Groups that are not made yet have no row.
LEMMA Unmade ==
    ASSUME ProvisionInv, NEW g \in GroupIds, g > made
    PROVE  groups[g] = NoGroup
BY Zenon DEF ProvisionInv, RowsOK

\* The row of a group made through the API.
LEMMA ApiGroup ==
    ASSUME NEW r, r = [name |-> "other", by |-> "api"]
    PROVE  r.by # "seed" /\ r # NoGroup
BY Zenon DEF NoGroup

\* The row of a user who joins a group.
LEMMA JoinedUser ==
    ASSUME NEW r, NEW g, r = [on |-> TRUE, group |-> g, version |-> 1]
    PROVE  r.on /\ r.group = g
BY Zenon

\* The first state.
LEMMA ProvisionInitial == ProvisionInit => ProvisionInv
<1> SUFFICES ASSUME ProvisionInit PROVE ProvisionInv
    BY Zenon
<1>1. ProvisionTyped
    BY EndedRow, ProvisionAssumption DEF ProvisionInit, ProvisionTyped, TenantRow
<1>2. RowsOK
    BY Zenon, ProvisionAssumption DEF ProvisionInit, RowsOK, NoIdentity, NoUser, NoGroup
<1>3. \A a \in Admins : TxOK(a, tx[a])
    BY Zenon, EndedRow DEF ProvisionInit, TxOK, LockOf
<1>4. \A a, b \in Admins : a # b => Apart(a, b)
    BY Zenon, EndedRow DEF ProvisionInit, Apart
<1> QED
    BY Zenon, <1>1, <1>2, <1>3, <1>4 DEF ProvisionInv

\* A transaction that another step leaves alone.
LEMMA OtherTx ==
    ASSUME NEW b \in Admins, TxOK(b, tx[b]), tx'[b] = tx[b], lock'[b] = lock[b],
           tenant.on => tenant'.on,
           tx[b].at = "write" => NoIdentity' /\ tenant'.admin = "none",
           tx[b].at = "joined" => /\ ~users'[tx[b].user].on
                                  /\ tx[b].group # 0 => groups'[tx[b].group] # NoGroup,
           tx[b].at = "emptied" => \A u \in tx[b].seen : users'[u].on /\ users'[u].group = tx[b].group
    PROVE  TxOK(b, tx[b])'
BY ZenonT(30) DEF TxOK

\* A step of one transaction that writes no row.
LEMMA QuietStep ==
    ASSUME ProvisionInv, NEW a \in Admins, NEW d \in TxRow, UNCHANGED <<tenant, groups, users, made>>,
           tx' = [tx EXCEPT ![a] = d], lock' = [lock EXCEPT ![a] = LockOf(d.at)],
           TxOK(a, d)',
           \A b \in Admins \ {a} :
              /\ lock'[a] = "update" => lock[b] = "none"
              /\ lock[b] = "update" => lock'[a] = "none"
              /\ d.at = "joined" /\ tx[b].at = "joined" => d.user # tx[b].user
              /\ d.at = "emptied" /\ tx[b].at = "emptied" /\ d.group = tx[b].group
                   => d.seen \cap tx[b].seen = {}
    PROVE  ProvisionInv'
<1> USE DEF ProvisionInv
<1>0. /\ tx'[a] = d /\ \A b \in Admins \ {a} : tx'[b] = tx[b] /\ lock'[b] = lock[b]
    BY Zenon DEF ProvisionTyped
<1>1. ProvisionTyped'
    BY Zenon DEF ProvisionTyped, LockOf
<1>2. RowsOK'
    BY Zenon DEF RowsOK, NoIdentity
<1>3. \A b \in Admins : TxOK(b, tx[b])'
    <2> TAKE b \in Admins
    <2>1. CASE b = a
        BY <1>0, <2>1 DEF TxOK
    <2>2. CASE b # a
        BY <1>0, <2>2 DEF TxOK, NoIdentity
    <2> QED
        BY Zenon, <2>1, <2>2
<1>4. ASSUME NEW b \in Admins, NEW c \in Admins, b # c PROVE Apart(b, c)'
    <2>1. CASE b = a
        BY <1>0, <1>4, <2>1 DEF Apart
    <2>2. CASE c = a
        BY <1>0, <1>4, <2>2 DEF Apart
    <2>3. CASE b # a /\ c # a
        BY <1>0, <1>4, <2>3 DEF Apart
    <2> QED
        BY Zenon, <2>1, <2>2, <2>3
<1> QED
    BY Zenon, <1>1, <1>2, <1>3, <1>4

\* A transaction ends, rolled back or with the rows it wrote.
LEMMA EndStep ==
    ASSUME ProvisionInv, NEW a \in Admins, Ends(a), RowsOK',
           tenant' \in TenantRow, made' \in 0..MaxGroups, groups' \in [GroupIds -> GroupRow],
           users' \in [Names -> MemberRow],
           tenant.on => tenant'.on,
           \A b \in Admins \ {a} :
              /\ tx[b].at = "write" => NoIdentity' /\ tenant'.admin = "none"
              /\ tx[b].at = "joined" => /\ ~users'[tx[b].user].on
                                        /\ tx[b].group # 0 => groups'[tx[b].group] # NoGroup
              /\ tx[b].at = "emptied" => \A u \in tx[b].seen : users'[u].on /\ users'[u].group = tx[b].group
    PROVE  ProvisionInv'
<1> USE DEF ProvisionInv
<1>0. /\ tx' = [tx EXCEPT ![a] = Ended] /\ lock' = [lock EXCEPT ![a] = "none"]
      /\ tx'[a] = Ended /\ lock'[a] = "none" /\ \A b \in Admins \ {a} : tx'[b] = tx[b] /\ lock'[b] = lock[b]
    BY Zenon DEF ProvisionTyped, Ends, Locks
<1>1. ProvisionTyped'
    BY Zenon, <1>0, EndedRow DEF ProvisionTyped
<1>3. \A b \in Admins : TxOK(b, tx[b])'
    <2> TAKE b \in Admins
    <2>1. CASE b = a
        BY <1>0, <2>1, EndedRow DEF TxOK, LockOf
    <2>2. CASE b # a
        BY Zenon, <1>0, <2>2, OtherTx
    <2> QED
        BY Zenon, <2>1, <2>2
<1>4. ASSUME NEW b \in Admins, NEW c \in Admins, b # c PROVE Apart(b, c)'
    <2>1. CASE b = a
        BY ZenonT(30), <1>0, <1>4, <2>1, EndedRow DEF Apart
    <2>2. CASE c = a
        BY ZenonT(30), <1>0, <1>4, <2>2, EndedRow DEF Apart
    <2>3. CASE b # a /\ c # a
        BY <1>0, <1>4, <2>3 DEF Apart
    <2> QED
        BY Zenon, <2>1, <2>2, <2>3
<1> QED
    BY Zenon, <1>1, <1>3, <1>4

\* A transaction rolled back leaves the rows as they were.
LEMMA RolledBack ==
    ASSUME ProvisionInv, NEW a \in Admins, Ends(a), UNCHANGED <<tenant, groups, users, made>>
    PROVE  ProvisionInv'
<1>1. RowsOK'
    BY Zenon DEF ProvisionInv, RowsOK, NoIdentity
<1>2. \A b \in Admins \ {a} :
              /\ tx[b].at = "write" => NoIdentity' /\ tenant'.admin = "none"
              /\ tx[b].at = "joined" => /\ ~users'[tx[b].user].on
                                        /\ tx[b].group # 0 => groups'[tx[b].group] # NoGroup
              /\ tx[b].at = "emptied" => \A u \in tx[b].seen : users'[u].on /\ users'[u].group = tx[b].group
    BY DEF ProvisionInv, TxOK, NoIdentity
<1> QED
    BY <1>1, <1>2, EndStep DEF ProvisionInv, ProvisionTyped

\* The tenant row is created.
LEMMA CreateTenantStep == ProvisionInv /\ CreateTenant => ProvisionInv'
<1> SUFFICES ASSUME ProvisionInv, CreateTenant PROVE ProvisionInv'
    OBVIOUS
<1> USE DEF ProvisionInv
<1>1. /\ tenant' \in TenantRow /\ tenant'.on /\ tenant'.admin = tenant.admin
      /\ UNCHANGED <<groups, users, made, tx, lock>>
    BY Zenon DEF CreateTenant, ProvisionTyped, TenantRow
<1>2. ProvisionTyped'
    BY <1>1 DEF ProvisionTyped
<1>3. RowsOK'
    BY Zenon, <1>1 DEF RowsOK
<1>4. \A b \in Admins : TxOK(b, tx[b])'
    BY <1>1 DEF TxOK, NoIdentity
<1>5. \A a, b \in Admins : a # b => Apart(a, b)'
    BY Zenon, <1>1 DEF Apart
<1> QED
    BY <1>2, <1>3, <1>4, <1>5

\* A transaction moves on to another place, keeping what it carries.
LEMMA MoveStep ==
    ASSUME ProvisionInv, NEW a \in Admins, NEW at \in Places, Moves(a, at), at # "emptied",
           UNCHANGED <<tenant, groups, users, made>>, lock' = [lock EXCEPT ![a] = LockOf(at)],
           at \in {"joined", "grouped", "seeded", "map", "fill", "check"} => tenant.on,
           at = "write" => NoIdentity /\ tenant.admin = "none",
           at \in {"group", "grouped", "rename"} => tx[a].name = "other",
           at \notin {"rename", "delete"},
           at = "joined" => /\ ~users[tx[a].user].on
                            /\ tx[a].group # 0 => groups[tx[a].group] # NoGroup
                            /\ \A b \in Admins \ {a} : tx[b].at = "joined" => tx[a].user # tx[b].user,
           \A b \in Admins \ {a} :
              /\ LockOf(at) = "update" => lock[b] = "none"
              /\ lock[b] = "update" => LockOf(at) = "none"
    PROVE  ProvisionInv'
<1> PICK d : d = [tx[a] EXCEPT !.at = at]
    BY Zenon
<1>1. tx[a] \in TxRow /\ lock'[a] = LockOf(at)
    BY Zenon DEF ProvisionInv, ProvisionTyped
<1>2. d \in TxRow /\ d.at = at /\ d.user = tx[a].user /\ d.group = tx[a].group /\ d.name = tx[a].name
    BY <1>1 DEF TxRow
<1>3. tx' = [tx EXCEPT ![a] = d]
    BY DEF Moves, ProvisionInv, ProvisionTyped
<1>4. TxOK(a, d)'
    BY <1>1, <1>2 DEF TxOK, NoIdentity
<1>5. \A b \in Admins \ {a} :
              /\ lock'[a] = "update" => lock[b] = "none"
              /\ lock[b] = "update" => lock'[a] = "none"
              /\ d.at = "joined" /\ tx[b].at = "joined" => d.user # tx[b].user
              /\ d.at # "emptied"
    BY <1>1, <1>2
<1>6. lock' = [lock EXCEPT ![a] = LockOf(d.at)]
    BY <1>2
<1> QED
    BY ZenonT(30), <1>2, <1>3, <1>4, <1>5, <1>6, QuietStep

\* A step between two places with the same lock leaves the locks alone.
LEMMA LocksSame ==
    ASSUME ProvisionInv, NEW a \in Admins, NEW at, LockOf(at) = LockOf(tx[a].at), UNCHANGED lock
    PROVE  lock' = [lock EXCEPT ![a] = LockOf(at)]
BY DEF ProvisionInv, ProvisionTyped, TxOK

\* A call begins: bootstrap, seed, or an endpoint of users and groups.
LEMMA ProvisionCallStep == ASSUME NEW a \in Admins PROVE ProvisionInv /\ Call(a) => ProvisionInv'
<1> SUFFICES ASSUME ProvisionInv, Call(a) PROVE ProvisionInv'
    BY Zenon
<1>1. tx[a] \in TxRow /\ tx[a].at = "away" /\ lock[a] = "none" /\ made \in 0..MaxGroups /\ MaxGroups \in Nat
    BY Zenon, ProvisionAssumption DEF ProvisionInv, ProvisionTyped, TxOK, LockOf, Call
<1>2. PICK d : /\ tx' = [tx EXCEPT ![a] = d]
               /\ \/ \E u \in Names : d = [Ended EXCEPT !.at = "boot", !.user = u]
                  \/ d = [Ended EXCEPT !.at = "seed", !.name = "seed"]
                  \/ \E u \in Names, g \in 0..made : d = [Ended EXCEPT !.at = "join", !.user = u, !.group = g]
                  \/ d = [Ended EXCEPT !.at = "group", !.name = "other"]
                  \/ \E g \in 1..made, at \in {"rename", "delete"} :
                        d = [Ended EXCEPT !.at = at, !.group = g, !.name = "other"]
    BY ZenonT(30) DEF Call
<1>3. /\ d \in TxRow /\ d.at \in {"boot", "seed", "join", "group", "rename", "delete"}
      /\ d.at \in {"group", "rename"} => d.name = "other"
      /\ d.at \in {"rename", "delete"} => d.group # 0
    <2>1. CASE \E u \in Names : d = [Ended EXCEPT !.at = "boot", !.user = u]
        BY Zenon, <2>1, EndedRow DEF TxRow, Places
    <2>2. CASE d = [Ended EXCEPT !.at = "seed", !.name = "seed"]
        BY Zenon, <2>2, EndedRow DEF TxRow, Places
    <2>3. CASE \E u \in Names, g \in 0..made : d = [Ended EXCEPT !.at = "join", !.user = u, !.group = g]
        <3> PICK u \in Names, g \in 0..made : d = [Ended EXCEPT !.at = "join", !.user = u, !.group = g]
            BY Zenon, <2>3
        <3>1. g \in 0..MaxGroups
            BY <1>1
        <3> QED
            BY Zenon, <3>1, EndedRow DEF TxRow, Places
    <2>4. CASE d = [Ended EXCEPT !.at = "group", !.name = "other"]
        BY Zenon, <2>4, EndedRow DEF TxRow, Places
    <2>5. CASE \E g \in 1..made, at \in {"rename", "delete"} :
                        d = [Ended EXCEPT !.at = at, !.group = g, !.name = "other"]
        <3> PICK g \in 1..made, at \in {"rename", "delete"} :
                    d = [Ended EXCEPT !.at = at, !.group = g, !.name = "other"]
            BY Zenon, <2>5
        <3>1. g \in 0..MaxGroups /\ g # 0
            BY <1>1
        <3> QED
            BY Zenon, <3>1, EndedRow DEF TxRow, Places
    <2> QED
        BY Zenon, <1>2, <2>1, <2>2, <2>3, <2>4, <2>5
<1>4. LockOf(d.at) = "none" /\ LockOf(tx[a].at) = "none"
    BY Zenon, <1>1, <1>3 DEF LockOf
<1>5. lock' = [lock EXCEPT ![a] = LockOf(d.at)] /\ lock'[a] = "none"
    BY Zenon, <1>1, <1>4, LocksSame DEF Call
<1>6. UNCHANGED <<tenant, groups, users, made>>
    BY Zenon DEF Call
<1>7. TxOK(a, d)'
    BY Zenon, <1>3, <1>4, <1>5 DEF TxOK
<1> QED
    BY Zenon, <1>2, <1>3, <1>5, <1>6, <1>7, QuietStep

\* Bootstrap takes the row lock of the tenant.
LEMMA BootLockStep == ASSUME NEW a \in Admins PROVE ProvisionInv /\ BootLock(a) => ProvisionInv'
<1> SUFFICES ASSUME ProvisionInv, BootLock(a) PROVE ProvisionInv'
    BY Zenon
<1>1. /\ tx[a].at \in {"boot", "new"} /\ UNCHANGED <<tenant, groups, users, made>>
      /\ ~tenant.on => NoIdentity /\ tenant.admin = "none"
    BY Zenon DEF BootLock, ProvisionInv, RowsOK
<1>2. CASE tx[a].at = "boot" /\ ~tenant.on
    <2>1. Moves(a, "new") /\ UNCHANGED lock
        BY Zenon, <1>2 DEF BootLock
    <2> QED
        BY Zenon, <1>1, <2>1, MoveStep, LocksSame DEF LockOf, Places
<1>3. CASE ~(tx[a].at = "boot" /\ ~tenant.on)
    <2>1. RowFree(a)
        BY Zenon, <1>3 DEF BootLock
    <2>2. CASE tx[a].at = "boot"
        <3>1. lock' = [lock EXCEPT ![a] = LockOf("check")] /\ Moves(a, "check") /\ tenant.on
            BY Zenon, <1>3, <2>2 DEF BootLock, Locks, LockOf
        <3> QED
            BY Zenon, <1>1, <2>1, <3>1, MoveStep DEF LockOf, Places, RowFree
    <2>3. CASE tx[a].at # "boot" /\ tenant.on
        <3>1. Ends(a)
            BY Zenon, <2>3 DEF BootLock
        <3> QED
            BY Zenon, <1>1, <3>1, RolledBack
    <2>4. CASE tx[a].at # "boot" /\ ~tenant.on
        <3>1. lock' = [lock EXCEPT ![a] = LockOf("write")] /\ Moves(a, "write")
            BY Zenon, <2>4 DEF BootLock, Locks, LockOf
        <3> QED
            BY Zenon, <1>1, <2>1, <2>4, <3>1, MoveStep DEF LockOf, Places, RowFree
    <2> QED
        BY Zenon, <2>2, <2>3, <2>4
<1> QED
    BY Zenon, <1>2, <1>3

\* Bootstrap looks for identities and for its marker.
LEMMA BootCheckStep == ASSUME NEW a \in Admins PROVE ProvisionInv /\ BootCheck(a) => ProvisionInv'
<1> SUFFICES ASSUME ProvisionInv, BootCheck(a) PROVE ProvisionInv'
    OBVIOUS
<1>1. tx[a].at = "check" /\ UNCHANGED <<tenant, groups, users, made>> /\ lock[a] = "update"
    BY Zenon DEF BootCheck, ProvisionInv, TxOK, LockOf
<1>2. CASE tenant.admin = "none" /\ NoIdentity
    <2>1. Moves(a, "write") /\ UNCHANGED lock
        BY Zenon, <1>2 DEF BootCheck
    <2>2. \A b \in Admins \ {a} : lock[b] = "none"
        BY Zenon, <1>1 DEF ProvisionInv, Apart
    <2> QED
        BY Zenon, <1>1, <1>2, <2>1, <2>2, MoveStep, LocksSame DEF LockOf, Places
<1>3. CASE ~(tenant.admin = "none" /\ NoIdentity)
    <2>1. Ends(a)
        BY Zenon, <1>3 DEF BootCheck
    <2> QED
        BY Zenon, <1>1, <2>1, RolledBack
<1> QED
    BY Zenon, <1>2, <1>3

\* An insert that refers to the tenant row waits for a bootstrap.
LEMMA RefersStep ==
    ASSUME ProvisionInv, NEW a \in Admins, NEW at \in {"joined", "grouped", "seeded"}, Refers(a, at),
           UNCHANGED <<tenant, groups, users, made>>, at = "grouped" => tx[a].name = "other",
           at = "joined" => /\ ~users[tx[a].user].on
                            /\ tx[a].group # 0 => groups[tx[a].group] # NoGroup
                            /\ \A b \in Admins \ {a} : tx[b].at = "joined" => tx[a].user # tx[b].user
    PROVE  ProvisionInv'
<1>1. CASE tenant.on
    <2>1. Moves(a, at) /\ lock' = [lock EXCEPT ![a] = LockOf(at)] /\ LockOf(at) = "share"
        BY Zenon, <1>1 DEF Refers, Locks, LockOf
    <2>2. \A b \in Admins \ {a} : lock[b] # "update"
        BY Zenon DEF Refers
    <2> QED
        BY Zenon, <1>1, <2>1, <2>2, MoveStep DEF Places
<1>2. CASE ~tenant.on
    BY Zenon, <1>2, RolledBack DEF Refers
<1> QED
    BY Zenon, <1>1, <1>2

\* create_user finds the group.
LEMMA FindGroupStep == ASSUME NEW a \in Admins PROVE ProvisionInv /\ FindGroup(a) => ProvisionInv'
<1> SUFFICES ASSUME ProvisionInv, FindGroup(a) PROVE ProvisionInv'
    OBVIOUS
<1>1. tx[a].at = "join" /\ UNCHANGED <<tenant, groups, users, made>>
    BY Zenon DEF FindGroup
<1>2. CASE Ends(a)
    BY Zenon, <1>1, <1>2, RolledBack
<1>3. CASE Moves(a, "insert") /\ UNCHANGED lock
    BY Zenon, <1>1, <1>3, MoveStep, LocksSame DEF LockOf, Places
<1> QED
    BY Zenon, <1>2, <1>3 DEF FindGroup

\* create_user inserts its row, sharing the tenant row.
LEMMA CreateUserStep == ASSUME NEW a \in Admins PROVE ProvisionInv /\ CreateUser(a) => ProvisionInv'
<1> SUFFICES ASSUME ProvisionInv, CreateUser(a) PROVE ProvisionInv'
    OBVIOUS
<1>1. UNCHANGED <<tenant, groups, users, made>>
    BY Zenon DEF CreateUser
<1>2. CASE Ends(a)
    BY Zenon, <1>1, <1>2, RolledBack
<1>3. CASE ~Ends(a)
    <2>1. /\ Refers(a, "joined") /\ ~users[tx[a].user].on
          /\ tx[a].group # 0 => groups[tx[a].group] # NoGroup
        BY Zenon, <1>3 DEF CreateUser
    <2>2. \A b \in Admins \ {a} : tx[b].at = "joined" => tx[a].user # tx[b].user
        BY Zenon DEF CreateUser, UserHeld, Flushed
    <2> QED
        BY Zenon, <1>1, <2>1, <2>2, RefersStep
<1> QED
    BY Zenon, <1>2, <1>3

\* create_group inserts its row, sharing the tenant row.
LEMMA CreateGroupStep == ASSUME NEW a \in Admins PROVE ProvisionInv /\ CreateGroup(a) => ProvisionInv'
<1> SUFFICES ASSUME ProvisionInv, CreateGroup(a) PROVE ProvisionInv'
    OBVIOUS
<1>1. UNCHANGED <<tenant, groups, users, made>> /\ tx[a].name = "other"
    BY Zenon DEF CreateGroup, ProvisionInv, TxOK
<1>2. CASE Ends(a)
    BY Zenon, <1>1, <1>2, RolledBack
<1>3. CASE Refers(a, "grouped")
    BY Zenon, <1>1, <1>3, RefersStep
<1> QED
    BY Zenon, <1>2, <1>3 DEF CreateGroup

\* The seed looks up, or inserts, its group.
LEMMA SeedGroupStep == ASSUME NEW a \in Admins PROVE ProvisionInv /\ SeedGroup(a) => ProvisionInv'
<1> SUFFICES ASSUME ProvisionInv, SeedGroup(a) PROVE ProvisionInv'
    OBVIOUS
<1>1. UNCHANGED <<tenant, groups, users, made>> /\ tx[a].at = "seed"
    BY Zenon DEF SeedGroup
<1>2. CASE NameTaken("seed")
    <2>1. Moves(a, "map") /\ UNCHANGED lock
        BY Zenon, <1>2 DEF SeedGroup
    <2>2. tenant.on
        BY Zenon, <1>2, EndedRow DEF NameTaken, ProvisionInv, RowsOK, NoIdentity
    <2> QED
        BY Zenon, <1>1, <2>1, <2>2, MoveStep, LocksSame DEF LockOf, Places
<1>3. CASE Refers(a, "seeded")
    BY Zenon, <1>1, <1>3, RefersStep
<1> QED
    BY Zenon, <1>2, <1>3 DEF SeedGroup

\* The seed finds its group.
LEMMA MapGroupStep == ASSUME NEW a \in Admins PROVE ProvisionInv /\ MapGroup(a) => ProvisionInv'
<1> SUFFICES ASSUME ProvisionInv, MapGroup(a) PROVE ProvisionInv'
    OBVIOUS
<1> PICK g \in 0..made : tx' = [tx EXCEPT ![a].at = "fill", ![a].group = g]
    BY Zenon DEF MapGroup
<1> PICK d : d = [tx[a] EXCEPT !.at = "fill", !.group = g]
    BY Zenon
<1>1. /\ UNCHANGED <<tenant, groups, users, made, lock>> /\ tx[a].at = "map" /\ tx[a] \in TxRow
      /\ TxOK(a, tx[a])
    BY Zenon DEF MapGroup, ProvisionInv, ProvisionTyped
<1>2. g \in 0..MaxGroups
    BY ProvisionAssumption DEF ProvisionInv, ProvisionTyped
<1>3. d \in TxRow /\ d.at = "fill"
    BY Zenon, <1>1, <1>2 DEF TxRow, Places
<1>4. tx' = [tx EXCEPT ![a] = d] /\ lock' = [lock EXCEPT ![a] = LockOf(d.at)] /\ lock'[a] = "none"
    <2>1. LockOf(d.at) = "none" /\ LockOf(tx[a].at) = "none" /\ lock[a] = "none"
        BY <1>1, <1>3 DEF LockOf, TxOK
    <2>2. tx' = [tx EXCEPT ![a] = d]
        BY Zenon DEF ProvisionInv, ProvisionTyped
    <2> QED
        BY Zenon, <1>1, <2>1, <2>2, LocksSame
<1>5. TxOK(a, d)'
    BY Zenon, <1>1, <1>3, <1>4 DEF TxOK, LockOf
<1> QED
    BY Zenon, <1>1, <1>3, <1>4, <1>5, QuietStep

\* delete_group takes its members out, in the transaction.
LEMMA EmptyGroupStep == ASSUME NEW a \in Admins PROVE ProvisionInv /\ EmptyGroup(a) => ProvisionInv'
<1> SUFFICES ASSUME ProvisionInv, EmptyGroup(a) PROVE ProvisionInv'
    OBVIOUS
<1>1. /\ UNCHANGED <<tenant, groups, users, made>> /\ tx[a].at = "delete" /\ tx[a] \in TxRow
      /\ TxOK(a, tx[a])
    BY Zenon DEF EmptyGroup, ProvisionInv, ProvisionTyped
<1>2. CASE Ends(a)
    BY Zenon, <1>1, <1>2, RolledBack
<1>3. CASE tx' = [tx EXCEPT ![a].at = "emptied", ![a].seen = Members(tx[a].group)] /\ UNCHANGED lock
    <2> PICK d : d = [tx[a] EXCEPT !.at = "emptied", !.seen = Members(tx[a].group)]
        BY Zenon
    <2>1. d \in TxRow /\ d.at = "emptied" /\ d.group = tx[a].group /\ d.seen = Members(tx[a].group)
        BY Zenon, <1>1 DEF TxRow, Places, Members
    <2>2. tx' = [tx EXCEPT ![a] = d] /\ lock' = [lock EXCEPT ![a] = LockOf(d.at)] /\ lock'[a] = "none"
        <3>1. LockOf(d.at) = "none" /\ LockOf(tx[a].at) = "none" /\ lock[a] = "none"
            BY Zenon, <1>1, <2>1 DEF LockOf, TxOK
        <3>2. tx' = [tx EXCEPT ![a] = d]
            BY Zenon, <1>3 DEF ProvisionInv, ProvisionTyped
        <3> QED
            BY Zenon, <1>1, <1>3, <3>1, <3>2, LocksSame
    <2>3. TxOK(a, d)'
        BY Zenon, <1>1, <2>1, <2>2 DEF TxOK, LockOf, Members
    <2>4. \A b \in Admins \ {a} : tx[b].at = "emptied" /\ d.group = tx[b].group => d.seen \cap tx[b].seen = {}
        BY Zenon, <2>1 DEF EmptyGroup, Flushed
    <2> QED
        BY Zenon, <1>1, <2>1, <2>2, <2>3, <2>4, QuietStep
<1> QED
    BY Zenon, <1>2, <1>3 DEF EmptyGroup

\* The tenant row's lock: beside one who holds it nobody is about to bootstrap.
LEMMA NoWriter ==
    ASSUME ProvisionInv, NEW a \in Admins, lock[a] # "none", NEW b \in Admins \ {a}
    PROVE  tx[b].at \notin {"check", "write"}
BY Zenon DEF ProvisionInv, TxOK, Apart, LockOf

\* A transaction fails.
LEMMA FailAdminStep == ASSUME NEW a \in Admins PROVE ProvisionInv /\ FailAdmin(a) => ProvisionInv'
BY Zenon, RolledBack DEF FailAdmin

\* Bootstrap commits the tenant's first group and admin.
LEMMA BootCommitStep == ASSUME NEW a \in Admins PROVE ProvisionInv /\ BootCommit(a) => ProvisionInv'
<1> SUFFICES ASSUME ProvisionInv, BootCommit(a) PROVE ProvisionInv'
    OBVIOUS
<1> DEFINE u == tx[a].user
<1>1. /\ tx[a].at = "write" /\ lock[a] = "update" /\ NoIdentity /\ u \in Names /\ Ends(a) /\ made \in Nat
      /\ made' = made + 1 /\ made' \in GroupIds /\ MaxGroups \in Nat
    <2>1. /\ tx[a].at = "write" /\ lock[a] = "update" /\ NoIdentity /\ Ends(a) /\ tx[a] \in TxRow
        BY ZenonT(30) DEF BootCommit, ProvisionInv, ProvisionTyped, TxOK, LockOf
    <2>2. /\ made \in Nat /\ made' = made + 1 /\ made' \in GroupIds /\ MaxGroups \in Nat
        BY SMT, SMTT(20), ProvisionAssumption DEF BootCommit, ProvisionInv, ProvisionTyped, GroupIds
    <2> QED
        BY Zenon, <2>1, <2>2 DEF TxRow
<1>2. /\ tenant' \in TenantRow /\ tenant'.on
      /\ groups' \in [GroupIds -> GroupRow] /\ users' \in [Names -> MemberRow]
    BY SMT, SMTT(20), <1>1
       DEF BootCommit, ProvisionInv, ProvisionTyped, TenantRow, GroupRow, MemberRow, GroupIds
<1>3. /\ groups'[made'] = [name |-> "boot", by |-> "boot"]
      /\ \A g \in GroupIds \ {made'} : groups'[g] = groups[g]
      /\ users'[u] = [on |-> TRUE, group |-> made', version |-> 1]
      /\ \A w \in Names \ {u} : users'[w] = users[w]
    BY Zenon, <1>1 DEF BootCommit, ProvisionInv, ProvisionTyped
<1>4. RowsOK'
    <2>1. ASSUME NEW g \in GroupIds PROVE (g > made => groups[g] = NoGroup)' /\ groups'[g].by # "seed"
        BY SMT, SMTT(20), <1>1, <1>3 DEF NoIdentity, NoGroup, GroupIds
    <2>2. ASSUME NEW w \in Names PROVE (users[w].group # 0 => users[w].on /\ groups[users[w].group] # NoGroup)'
        BY SMT, SMTT(20), <1>1, <1>3, MemberGroup DEF NoIdentity, NoGroup
    <2> QED
        BY Zenon, <1>2, <2>1, <2>2 DEF RowsOK
<1>5. \A b \in Admins \ {a} : /\ tx[b].at \notin {"write", "joined"}
                              /\ tx[b].at = "emptied" => tx[b].seen = {}
    <2> TAKE b \in Admins \ {a}
    <2>1. lock[b] = "none" /\ TxOK(b, tx[b]) /\ tx[b] \in TxRow
        BY Zenon, <1>1 DEF ProvisionInv, Apart, ProvisionTyped
    <2>2. tx[b].seen \subseteq Names
        BY Zenon, <2>1 DEF TxRow
    <2> QED
        BY Zenon, <1>1, <2>1, <2>2 DEF TxOK, LockOf, NoIdentity
<1>6. made' \in 0..MaxGroups
    BY SMT, SMTT(20), <1>1 DEF GroupIds
<1> QED
    BY Zenon, <1>1, <1>2, <1>4, <1>5, <1>6, EndStep

\* create_user commits.
LEMMA UserCommitStep == ASSUME NEW a \in Admins PROVE ProvisionInv /\ UserCommit(a) => ProvisionInv'
<1> SUFFICES ASSUME ProvisionInv, UserCommit(a) PROVE ProvisionInv'
    OBVIOUS
<1> DEFINE u == tx[a].user
<1>1. /\ tx[a].at = "joined" /\ lock[a] = "share" /\ ~users[u].on /\ tenant.on /\ Ends(a) /\ tx[a] \in TxRow
      /\ tx[a].group # 0 => groups[tx[a].group] # NoGroup
      /\ UNCHANGED <<tenant, groups, made>>
    BY Zenon DEF UserCommit, ProvisionInv, ProvisionTyped, TxOK, LockOf
<1>2. u \in Names /\ tx[a].group \in 0..MaxGroups
    BY Zenon, <1>1 DEF TxRow
<1>3. /\ users'[u] = [on |-> TRUE, group |-> tx[a].group, version |-> 1]
      /\ \A w \in Names \ {u} : users'[w] = users[w]
      /\ users' \in [Names -> MemberRow]
    BY Zenon, <1>2 DEF UserCommit, ProvisionInv, ProvisionTyped, MemberRow
<1>4. RowsOK'
    <2>1. ASSUME NEW g \in GroupIds PROVE (g > made => groups[g] = NoGroup)' /\ (groups[g].by = "seed" => users[SeedName].on)'
        BY Zenon, <1>1, <1>3, ProvisionAssumption DEF ProvisionInv, RowsOK
    <2>2. ASSUME NEW w \in Names PROVE (users[w].group # 0 => users[w].on /\ groups[users[w].group] # NoGroup)'
        <3>1. users'[u].on /\ users'[u].group = tx[a].group
            BY ZenonT(30), <1>3, JoinedUser
        <3> QED
            BY ZenonT(30), <1>1, <1>3, <3>1, MemberGroup
    <2> QED
        BY Zenon, <1>1, <2>1, <2>2 DEF RowsOK
<1>5. ASSUME NEW b \in Admins \ {a}
      PROVE  /\ tx[b].at # "write"
             /\ tx[b].at = "joined" => /\ ~users'[tx[b].user].on
                                       /\ tx[b].group # 0 => groups'[tx[b].group] # NoGroup
             /\ tx[b].at = "emptied" => \A w \in tx[b].seen : users'[w].on /\ users'[w].group = tx[b].group
    <2>1. TxOK(b, tx[b]) /\ tx[b] \in TxRow /\ Apart(b, a) /\ tx[b].at # "write"
        BY <1>1, NoWriter DEF ProvisionInv, ProvisionTyped
    <2>2. tx[b].seen \subseteq Names /\ tx[b].user \in Names
        BY Zenon, <2>1 DEF TxRow
    <2> QED
        BY ZenonT(30), <1>1, <1>3, <2>1, <2>2 DEF TxOK, Apart
<1> QED
    BY Zenon, <1>1, <1>3, <1>4, <1>5, EndStep DEF ProvisionInv, ProvisionTyped

\* create_group commits.
LEMMA GroupCommitStep == ASSUME NEW a \in Admins PROVE ProvisionInv /\ GroupCommit(a) => ProvisionInv'
<1> SUFFICES ASSUME ProvisionInv, GroupCommit(a) PROVE ProvisionInv'
    OBVIOUS
<1>1. /\ tx[a].at = "grouped" /\ lock[a] = "share" /\ tx[a].name = "other" /\ tenant.on /\ Ends(a)
      /\ UNCHANGED <<tenant, users>>
    BY DEF GroupCommit, ProvisionInv, TxOK, LockOf
<1>2. /\ made \in Nat /\ made' = made + 1 /\ made' \in GroupIds /\ made' \in 0..MaxGroups
    BY SMT, SMTT(20), ProvisionAssumption DEF GroupCommit, ProvisionInv, ProvisionTyped, GroupIds
<1>3. /\ groups'[made'] = [name |-> "other", by |-> "api"]
      /\ \A g \in GroupIds \ {made'} : groups'[g] = groups[g]
      /\ groups' \in [GroupIds -> GroupRow]
    BY Zenon, <1>1, <1>2 DEF GroupCommit, ProvisionInv, ProvisionTyped, GroupRow
<1>4. RowsOK'
    <2>1. ASSUME NEW g \in GroupIds PROVE (g > made => groups[g] = NoGroup)' /\ (groups[g].by = "seed" => users[SeedName].on)'
        <3>1. g > made' => g > made /\ g # made'
            BY SMT, SMTT(20), <1>2 DEF GroupIds
        <3>2. groups'[made'].by # "seed"
            BY Zenon, <1>3, ApiGroup
        <3> QED
            BY Zenon, <1>1, <1>3, <3>1, <3>2, Unmade DEF ProvisionInv, RowsOK
    <2>2. ASSUME NEW w \in Names PROVE (users[w].group # 0 => users[w].on /\ groups[users[w].group] # NoGroup)'
        <3>1. groups'[made'] # NoGroup
            BY ZenonT(30), <1>3, ApiGroup
        <3> QED
            BY Zenon, <1>1, <1>3, <3>1, MemberGroup
    <2> QED
        BY Zenon, <1>1, <2>1, <2>2 DEF RowsOK
<1>5. ASSUME NEW b \in Admins \ {a}
      PROVE  /\ tx[b].at # "write"
             /\ tx[b].at = "joined" => /\ ~users'[tx[b].user].on
                                       /\ tx[b].group # 0 => groups'[tx[b].group] # NoGroup
             /\ tx[b].at = "emptied" => \A w \in tx[b].seen : users'[w].on /\ users'[w].group = tx[b].group
    <2>1. TxOK(b, tx[b]) /\ tx[b] \in TxRow /\ tx[b].at # "write"
        BY Zenon, <1>1, NoWriter DEF ProvisionInv, ProvisionTyped
    <2>2. tx[b].group # 0 => tx[b].group \in GroupIds
        BY SMT, SMTT(20), <2>1, ProvisionAssumption DEF TxRow, GroupIds
    <2> QED
        BY SMT, SMTT(20), <1>1, <1>3, <2>1, <2>2 DEF TxOK, NoGroup
<1> QED
    BY ZenonT(30), <1>1, <1>2, <1>3, <1>4, <1>5, EndStep DEF ProvisionInv, ProvisionTyped

\* update_group renames a group.
LEMMA UpdateGroupStep == ASSUME NEW a \in Admins PROVE ProvisionInv /\ UpdateGroup(a) => ProvisionInv'
<1> SUFFICES ASSUME ProvisionInv, UpdateGroup(a) PROVE ProvisionInv'
    OBVIOUS
<1> DEFINE g == tx[a].group
<1>1. /\ tx[a].at = "rename" /\ tx[a].name = "other" /\ Ends(a) /\ UNCHANGED <<tenant, users, made>>
      /\ tx[a] \in TxRow /\ g # 0
    BY Zenon DEF UpdateGroup, ProvisionInv, ProvisionTyped, TxOK
<1>2. g \in GroupIds
    BY SMT, SMTT(20), <1>1, ProvisionAssumption DEF TxRow, GroupIds
<1>3. CASE groups' = groups
    BY Zenon, <1>1, <1>3, RolledBack
<1>4. CASE groups' # groups
    <2>1. groups[g] # NoGroup /\ groups' = [groups EXCEPT ![g].name = "other"]
        BY Zenon, <1>1, <1>4 DEF UpdateGroup
    <2>2. groups' \in [GroupIds -> GroupRow] /\ groups'[g].name = "other" /\ groups'[g].by = groups[g].by
        BY ZenonT(30), <1>2, <2>1 DEF ProvisionInv, ProvisionTyped, GroupRow
    <2>3. \A h \in GroupIds \ {g} : groups'[h] = groups[h]
        BY Zenon, <2>1 DEF ProvisionInv, ProvisionTyped
    <2>4. \A h \in GroupIds : groups'[h] = NoGroup <=> groups[h] = NoGroup
        BY Zenon, <2>1, <2>2, <2>3 DEF NoGroup
    <2>5. \A h \in GroupIds : groups'[h].by = groups[h].by
        BY Zenon, <2>2, <2>3
    <2>6. NoIdentity <=> NoIdentity'
        BY Zenon, <1>1, <2>4 DEF NoIdentity
    <2>7. RowsOK'
        <3>1. ASSUME NEW h \in GroupIds PROVE (h > made => groups[h] = NoGroup)' /\ (groups[h].by = "seed" => users[SeedName].on)'
            BY Zenon, <1>1, <2>4, <2>5 DEF ProvisionInv, RowsOK
        <3>2. ASSUME NEW w \in Names PROVE (users[w].group # 0 => users[w].on /\ groups[users[w].group] # NoGroup)'
            BY Zenon, <1>1, <2>4, MemberGroup
        <3> QED
            BY Zenon, <1>1, <2>6, <3>1, <3>2 DEF ProvisionInv, RowsOK
    <2>8. ASSUME NEW b \in Admins \ {a}
          PROVE  /\ tx[b].at = "write" => NoIdentity' /\ tenant'.admin = "none"
                 /\ tx[b].at = "joined" => /\ ~users'[tx[b].user].on
                                           /\ tx[b].group # 0 => groups'[tx[b].group] # NoGroup
                 /\ tx[b].at = "emptied" => \A w \in tx[b].seen : users'[w].on /\ users'[w].group = tx[b].group
        <3>1. TxOK(b, tx[b]) /\ tx[b] \in TxRow
            BY Zenon DEF ProvisionInv, ProvisionTyped
        <3>2. tx[b].group # 0 => tx[b].group \in GroupIds
            BY SMT, SMTT(20), <3>1, ProvisionAssumption DEF TxRow, GroupIds
        <3> QED
            BY Zenon, <1>1, <2>4, <2>6, <3>1, <3>2 DEF TxOK
    <2> QED
        BY Zenon, <1>1, <2>2, <2>7, <2>8, EndStep DEF ProvisionInv, ProvisionTyped
<1> QED
    BY Zenon, <1>3, <1>4

\* What the end of delete_group does to the users.
LEMMA EmptiedUsers ==
    ASSUME ProvisionInv, NEW a \in Admins, tx[a].at = "emptied", users' = Emptied(a)
    PROVE  /\ users' \in [Names -> MemberRow]
           /\ \A u \in Names \ tx[a].seen : users'[u] = users[u]
           /\ \A u \in tx[a].seen : /\ u \in Names /\ users[u].on /\ users[u].group = tx[a].group
                                    /\ users'[u].on /\ users'[u].group = 0
                                    /\ users'[u].version = users[u].version + 1
<1>1. tx[a] \in TxRow /\ TxOK(a, tx[a]) /\ users \in [Names -> MemberRow] /\ 0 \in 0..MaxGroups
    BY SMT, SMTT(20), ProvisionAssumption DEF ProvisionInv, ProvisionTyped
<1>2. tx[a].seen \subseteq Names
    BY Zenon, <1>1 DEF TxRow
<1>3. ASSUME NEW u \in Names PROVE [users[u] EXCEPT !.group = 0, !.version = @ + 1] \in MemberRow
    <2>1. users[u] \in MemberRow
        BY Zenon, <1>1
    <2>2. users[u].version + 1 \in Nat
        BY SMT, SMTT(20), <2>1 DEF MemberRow
    <2> QED
        BY Zenon, <1>1, <2>1, <2>2 DEF MemberRow
<1>4. users' \in [Names -> MemberRow]
    BY Zenon, <1>1, <1>3 DEF Emptied
<1>5. \A u \in Names \ tx[a].seen : users'[u] = users[u]
    BY Zenon DEF Emptied
<1>6. ASSUME NEW u \in tx[a].seen
      PROVE  /\ users'[u].on = users[u].on /\ users'[u].group = 0
             /\ users'[u].version = users[u].version + 1
    BY Zenon, <1>1, <1>2 DEF Emptied, MemberRow
<1>7. \A u \in tx[a].seen : u \in Names /\ users[u].on /\ users[u].group = tx[a].group
    BY Zenon, <1>1, <1>2 DEF TxOK
<1> QED
    BY Zenon, <1>4, <1>5, <1>6, <1>7

\* delete_group commits: the group and its memberships go together.
LEMMA DeleteGroupStep == ASSUME NEW a \in Admins PROVE ProvisionInv /\ DeleteGroup(a) => ProvisionInv'
<1> SUFFICES ASSUME ProvisionInv, DeleteGroup(a) PROVE ProvisionInv'
    OBVIOUS
<1> DEFINE g == tx[a].group
<1>1. /\ tx[a].at = "emptied" /\ Ends(a) /\ UNCHANGED <<tenant, made>> /\ tx[a] \in TxRow /\ g # 0
    BY Zenon DEF DeleteGroup, ProvisionInv, ProvisionTyped, TxOK
<1>2. g \in GroupIds
    BY <1>1, ProvisionAssumption DEF TxRow, GroupIds
<1>3. CASE Referenced(a)
    BY Zenon, <1>1, <1>3, RolledBack DEF DeleteGroup
<1>4. CASE ~Referenced(a)
    <2>1. users' = Emptied(a) /\ groups' = [groups EXCEPT ![g] = NoGroup]
        BY Zenon, <1>4 DEF DeleteGroup
    <2>2. /\ groups' \in [GroupIds -> GroupRow] /\ groups'[g] = NoGroup
          /\ \A h \in GroupIds \ {g} : groups'[h] = groups[h]
        BY Zenon, <1>2, <2>1, EndedRow DEF ProvisionInv, ProvisionTyped
    <2>3. /\ users' \in [Names -> MemberRow]
          /\ \A u \in Names \ tx[a].seen : users'[u] = users[u]
          /\ \A u \in tx[a].seen : /\ u \in Names /\ users[u].on /\ users[u].group = g
                                   /\ users'[u].on /\ users'[u].group = 0
        BY Zenon, <1>1, <2>1, EmptiedUsers
    <2>4. \A u \in Names : users[u].on /\ users[u].group = g => u \in tx[a].seen
        BY Zenon, <1>4 DEF Referenced, Members
    <2>5. \A u \in Names : users'[u].on <=> users[u].on
        BY Zenon, <2>3
    <2>6. NoIdentity => NoIdentity'
        BY Zenon, <2>2, <2>5 DEF NoIdentity
    <2>7. RowsOK'
        <3>1. ASSUME NEW h \in GroupIds PROVE (h > made => groups[h] = NoGroup)' /\ (groups[h].by = "seed" => users[SeedName].on)'
            BY Zenon, <1>1, <2>2, <2>5, EndedRow, ProvisionAssumption DEF ProvisionInv, RowsOK
        <3>2. ASSUME NEW w \in Names PROVE (users[w].group # 0 => users[w].on /\ groups[users[w].group] # NoGroup)'
            <4>1. users[w].group # 0 => users[w].group \in GroupIds
                BY SMT, SMTT(20), ProvisionAssumption DEF ProvisionInv, ProvisionTyped, MemberRow, GroupIds
            <4>2. users[w].group # 0 => users[w].on /\ groups[users[w].group] # NoGroup
                BY Zenon DEF ProvisionInv, RowsOK
            <4> QED
                BY ZenonT(30), <2>2, <2>3, <2>4, <4>1, <4>2
        <3> QED
            BY Zenon, <1>1, <2>6, <3>1, <3>2 DEF ProvisionInv, RowsOK
    <2>8. ASSUME NEW b \in Admins \ {a}
          PROVE  /\ tx[b].at = "write" => NoIdentity' /\ tenant'.admin = "none"
                 /\ tx[b].at = "joined" => /\ ~users'[tx[b].user].on
                                           /\ tx[b].group # 0 => groups'[tx[b].group] # NoGroup
                 /\ tx[b].at = "emptied" => \A w \in tx[b].seen : users'[w].on /\ users'[w].group = tx[b].group
        <3>1. TxOK(b, tx[b]) /\ tx[b] \in TxRow /\ Apart(a, b)
            BY Zenon DEF ProvisionInv, ProvisionTyped
        <3>2. (tx[b].group # 0 => tx[b].group \in GroupIds) /\ tx[b].user \in Names /\ tx[b].seen \subseteq Names
            BY SMT, SMTT(20), <3>1, ProvisionAssumption DEF TxRow, GroupIds
        <3>3. tx[b].at = "write" => NoIdentity' /\ tenant'.admin = "none"
            BY Zenon, <1>1, <2>6, <3>1 DEF TxOK
        <3>4. tx[b].at = "joined" => tx[b].group # g
            BY Zenon DEF DeleteGroup, Flushed
        <3>5. tx[b].at = "joined" => /\ ~users'[tx[b].user].on
                                     /\ tx[b].group # 0 => groups'[tx[b].group] # NoGroup
            BY Zenon, <2>2, <2>5, <3>1, <3>2, <3>4 DEF TxOK
        <3>6. ASSUME tx[b].at = "emptied", NEW w \in tx[b].seen PROVE users'[w].on /\ users'[w].group = tx[b].group
            <4>1. w \notin tx[a].seen
                BY ZenonT(30), <1>1, <2>3, <3>1, <3>6 DEF TxOK, Apart
            <4> QED
                BY Zenon, <2>3, <3>1, <3>2, <3>6, <4>1 DEF TxOK
        <3> QED
            BY <3>3, <3>5, <3>6
    <2> QED
        BY Zenon, <1>1, <2>2, <2>3, <2>7, <2>8, EndStep DEF ProvisionInv, ProvisionTyped
<1> QED
    BY <1>3, <1>4

\* A seed's user beside the others: it is created only while nobody bootstraps
\* and nobody else inserts it.
LEMMA SeedUserApart ==
    ASSUME ProvisionInv, NEW a \in Admins, ~UserHeld(a, SeedName), ~users[SeedName].on,
           NEW row, row.on, users' = [users EXCEPT ![SeedName] = row],
           NEW b \in Admins \ {a}
    PROVE  /\ tx[b].at = "joined" => ~users'[tx[b].user].on
           /\ tx[b].at = "emptied" => \A w \in tx[b].seen : users'[w].on /\ users'[w].group = tx[b].group
<1>1. TxOK(b, tx[b]) /\ tx[b] \in TxRow
    BY Zenon DEF ProvisionInv, ProvisionTyped
<1>2. tx[b].user \in Names /\ tx[b].seen \subseteq Names
    BY Zenon, <1>1 DEF TxRow
<1>3. \A w \in Names \ {SeedName} : users'[w] = users[w]
    BY Zenon DEF ProvisionInv, ProvisionTyped
<1>4. tx[b].at = "joined" => tx[b].user # SeedName
    BY Zenon DEF UserHeld, Flushed
<1> QED
    BY ZenonT(30), <1>1, <1>2, <1>3, <1>4 DEF TxOK

\* The seed commits a new user with a new or an existing group.
LEMMA SeedNewStep == ASSUME NEW a \in Admins PROVE ProvisionInv /\ SeedNew(a) => ProvisionInv'
<1> SUFFICES ASSUME ProvisionInv, SeedNew(a) PROVE ProvisionInv'
    OBVIOUS
<1>1. /\ tx[a].at = "seeded" /\ lock[a] = "share" /\ tenant.on /\ Ends(a) /\ UNCHANGED tenant
      /\ ~UserHeld(a, SeedName) /\ SeedName \in Names
    BY Zenon, ProvisionAssumption DEF SeedNew, ProvisionInv, TxOK, LockOf
<1>2. /\ made \in Nat /\ made' = made + 1 /\ made' \in GroupIds /\ made' \in 0..MaxGroups /\ made' # 0
    BY SMT, SMTT(20), ProvisionAssumption DEF SeedNew, ProvisionInv, ProvisionTyped, GroupIds
<1>3. /\ groups'[made'] = [name |-> "seed", by |-> "seed"]
      /\ \A g \in GroupIds \ {made'} : groups'[g] = groups[g]
      /\ groups' \in [GroupIds -> GroupRow]
    BY Zenon, <1>1, <1>2 DEF SeedNew, ProvisionInv, ProvisionTyped, GroupRow
<1> PICK row : row = [on |-> TRUE, group |-> made', version |-> 1]
    BY Zenon
<1>4. row \in MemberRow /\ row.on /\ row.group = made'
    BY Zenon, <1>2 DEF MemberRow
<1>5. users' = IF users[SeedName].on THEN users ELSE [users EXCEPT ![SeedName] = row]
    BY Zenon DEF SeedNew
<1>6. /\ users' \in [Names -> MemberRow] /\ users'[SeedName].on
      /\ users'[SeedName] = users[SeedName] \/ users'[SeedName] = row
      /\ \A w \in Names \ {SeedName} : users'[w] = users[w]
    BY Zenon, <1>1, <1>4, <1>5 DEF ProvisionInv, ProvisionTyped
<1>7. \A h \in GroupIds : groups[h] # NoGroup => groups'[h] # NoGroup
    BY SMT, SMTT(20), <1>3, EndedRow
<1>8. RowsOK'
    <2>1. ASSUME NEW g \in GroupIds PROVE (g > made => groups[g] = NoGroup)'
        <3>1. g > made' => g > made /\ g # made'
            BY SMT, SMTT(20), <1>2 DEF GroupIds
        <3> QED
            BY Zenon, <1>3, <3>1, Unmade
    <2>2. ASSUME NEW w \in Names PROVE (users[w].group # 0 => users[w].on /\ groups[users[w].group] # NoGroup)'
        <3>1. users[w].group # 0 => users[w].group \in GroupIds
            BY Zenon, MemberGroup
        <3>2. groups'[made'] # NoGroup
            BY <1>3, EndedRow
        <3> QED
            BY ZenonT(30), <1>4, <1>6, <1>7, <3>1, <3>2, MemberGroup
    <2> QED
        BY Zenon, <1>1, <1>6, <2>1, <2>2 DEF RowsOK
<1>9. ASSUME NEW b \in Admins \ {a}
      PROVE  /\ tx[b].at # "write"
             /\ tx[b].at = "joined" => /\ ~users'[tx[b].user].on
                                       /\ tx[b].group # 0 => groups'[tx[b].group] # NoGroup
             /\ tx[b].at = "emptied" => \A w \in tx[b].seen : users'[w].on /\ users'[w].group = tx[b].group
    <2>1. TxOK(b, tx[b]) /\ tx[b] \in TxRow /\ tx[b].at # "write"
        BY Zenon, <1>1, NoWriter DEF ProvisionInv, ProvisionTyped
    <2>2. tx[b].group # 0 => tx[b].group \in GroupIds
        BY <2>1, ProvisionAssumption DEF TxRow, GroupIds
    <2>3. /\ tx[b].at = "joined" => ~users'[tx[b].user].on
          /\ tx[b].at = "emptied" => \A w \in tx[b].seen : users'[w].on /\ users'[w].group = tx[b].group
        <3>1. CASE users[SeedName].on
            BY Zenon, <1>5, <2>1, <3>1 DEF TxOK
        <3>2. CASE ~users[SeedName].on
            <4>1. users' = [users EXCEPT ![SeedName] = row]
                BY <1>5, <3>2
            <4> QED
                BY ZenonT(30), <1>1, <1>4, <3>2, <4>1, SeedUserApart
        <3> QED
            BY Zenon, <3>1, <3>2
    <2> QED
        BY Zenon, <1>7, <2>1, <2>2, <2>3 DEF TxOK
<1> QED
    BY Zenon, <1>1, <1>2, <1>3, <1>6, <1>8, <1>9, EndStep DEF ProvisionInv, ProvisionTyped

\* The seed commits for a user that is there already.
LEMMA SeedUserStep == ASSUME NEW a \in Admins PROVE ProvisionInv /\ SeedUser(a) => ProvisionInv'
<1> SUFFICES ASSUME ProvisionInv, SeedUser(a) PROVE ProvisionInv'
    OBVIOUS
<1> DEFINE g == tx[a].group
<1>1. /\ tx[a].at = "fill" /\ tenant.on /\ Ends(a) /\ UNCHANGED <<tenant, groups, made>>
      /\ ~UserHeld(a, SeedName) /\ SeedName \in Names /\ tx[a] \in TxRow
      /\ \A b \in Admins \ {a} : lock[b] # "update"
    BY Zenon, ProvisionAssumption DEF SeedUser, ProvisionInv, ProvisionTyped, TxOK
<1>2. CASE users' = users
    BY Zenon, <1>1, <1>2, RolledBack
<1>3. CASE users' # users
    <2> PICK row : row = [on |-> TRUE, group |-> g, version |-> 1]
        BY Zenon
    <2>1. /\ ~users[SeedName].on /\ (g # 0 => groups[g] # NoGroup)
          /\ users' = [users EXCEPT ![SeedName] = row]
        BY Zenon, <1>3 DEF SeedUser
    <2>2. row \in MemberRow /\ row.on /\ row.group = g
        BY Zenon, <1>1 DEF MemberRow, TxRow
    <2>3. /\ users' \in [Names -> MemberRow] /\ users'[SeedName] = row
          /\ \A w \in Names \ {SeedName} : users'[w] = users[w]
        BY Zenon, <1>1, <2>1, <2>2 DEF ProvisionInv, ProvisionTyped
    <2>4. RowsOK'
        <3>1. ASSUME NEW h \in GroupIds PROVE (h > made => groups[h] = NoGroup)'
            BY Zenon, <1>1 DEF ProvisionInv, RowsOK
        <3>2. ASSUME NEW w \in Names PROVE (users[w].group # 0 => users[w].on /\ groups[users[w].group] # NoGroup)'
            BY Zenon, <1>1, <2>1, <2>2, <2>3 DEF ProvisionInv, RowsOK
        <3> QED
            BY Zenon, <1>1, <2>2, <2>3, <3>1, <3>2 DEF RowsOK
    <2>5. ASSUME NEW b \in Admins \ {a}
          PROVE  /\ tx[b].at # "write"
                 /\ tx[b].at = "joined" => /\ ~users'[tx[b].user].on
                                           /\ tx[b].group # 0 => groups'[tx[b].group] # NoGroup
                 /\ tx[b].at = "emptied" => \A w \in tx[b].seen : users'[w].on /\ users'[w].group = tx[b].group
        <3>1. TxOK(b, tx[b]) /\ tx[b].at # "write"
            BY Zenon, <1>1 DEF ProvisionInv, TxOK, LockOf
        <3>2. /\ tx[b].at = "joined" => ~users'[tx[b].user].on
              /\ tx[b].at = "emptied" => \A w \in tx[b].seen : users'[w].on /\ users'[w].group = tx[b].group
            BY ZenonT(30), <1>1, <2>1, <2>2, SeedUserApart
        <3> QED
            BY Zenon, <1>1, <3>1, <3>2 DEF TxOK
    <2> QED
        BY Zenon, <1>1, <2>3, <2>4, <2>5, EndStep DEF ProvisionInv, ProvisionTyped
<1> QED
    BY <1>2, <1>3

\* The inductive invariant holds in every reachable state.
LEMMA ProvisionInvariant == ProvisionSpec => []ProvisionInv
<1>1. ProvisionInv /\ [ProvisionNext]_provisionVars => ProvisionInv'
    <2> SUFFICES ASSUME ProvisionInv, [ProvisionNext]_provisionVars PROVE ProvisionInv'
        BY ZenonT(30)
    <2>1. CASE UNCHANGED provisionVars
        BY Zenon, <2>1, ProvisionStutter
    <2>2. CASE CreateTenant
        BY Zenon, <2>2, CreateTenantStep
    <2>3. ASSUME NEW a \in Admins,
                 \/ Call(a) \/ BootLock(a) \/ BootCheck(a) \/ BootCommit(a)
                 \/ FindGroup(a) \/ CreateUser(a) \/ UserCommit(a) \/ CreateGroup(a) \/ GroupCommit(a)
                 \/ UpdateGroup(a) \/ EmptyGroup(a) \/ DeleteGroup(a)
                 \/ SeedGroup(a) \/ MapGroup(a) \/ SeedNew(a) \/ SeedUser(a) \/ FailAdmin(a)
          PROVE  ProvisionInv'
        BY Zenon, <2>3, ProvisionCallStep, BootLockStep, BootCheckStep, BootCommitStep, FindGroupStep,
           CreateUserStep, UserCommitStep, CreateGroupStep, GroupCommitStep, UpdateGroupStep,
           EmptyGroupStep, DeleteGroupStep, SeedGroupStep, MapGroupStep, SeedNewStep, SeedUserStep,
           FailAdminStep
    <2> QED
        BY Zenon, <2>1, <2>2, <2>3 DEF ProvisionNext
<1> QED
    BY <1>1, ProvisionInitial, PTL DEF ProvisionSpec

\* The seed is all or nothing, whatever runs beside it (_seed).
THEOREM SeedIsWhole == ProvisionSpec => []SeedWhole
<1>1. ProvisionInv => SeedWhole
    BY Zenon DEF ProvisionInv, RowsOK, SeedWhole
<1> QED
    BY <1>1, ProvisionInvariant, PTL

\* A user's group exists, for any interleaving of creations and deletions
\* (the foreign key, delete_group).
THEOREM UsersHaveGroups == ProvisionSpec => []GroupsExist
<1>1. ProvisionInv => GroupsExist
    BY DEF ProvisionInv, RowsOK, GroupsExist
<1> QED
    BY <1>1, ProvisionInvariant, PTL

\* Bootstrap writes only into a tenant without identity or marker, for any
\* number of transactions beside it (the lock on the tenant row).
THEOREM BootstrapAdoptsNothing == ProvisionSpec => AdoptsNothing
<1>1. ProvisionInv /\ [ProvisionNext]_provisionVars
        => [tenant'.admin # tenant.admin => NoIdentity /\ tenant.admin = "none"]_provisionVars
    <2> SUFFICES ASSUME ProvisionInv, ProvisionNext, tenant'.admin # tenant.admin
                 PROVE  NoIdentity /\ tenant.admin = "none"
        BY Zenon
    <2>1. ASSUME NEW a \in Admins, BootCommit(a) PROVE NoIdentity /\ tenant.admin = "none"
        BY <2>1 DEF BootCommit, ProvisionInv, TxOK
    <2>2. ~CreateTenant
        BY Zenon DEF CreateTenant, ProvisionInv, ProvisionTyped, TenantRow
    <2>3. PICK a \in Admins : BootCommit(a)
        BY ZenonT(30), <2>2
           DEF ProvisionNext, Call, BootLock, BootCheck, FindGroup, CreateUser, UserCommit, CreateGroup,
                    GroupCommit, UpdateGroup, EmptyGroup, DeleteGroup, SeedGroup, MapGroup, SeedNew, SeedUser,
                    FailAdmin
    <2> QED
        BY Zenon, <2>1, <2>3
<1> QED
    BY <1>1, ProvisionInvariant, PTL DEF ProvisionSpec, AdoptsNothing

\* A member changes group only to none, and only with a new auth_version
\* (delete_group).
THEOREM MembersLoseSessions == ProvisionSpec => MembersBumped
<1> DEFINE Kept(u) == users[u].on /\ users'[u] # users[u]
                        => /\ users[u].group # 0 /\ users'[u].group = 0
                           /\ users'[u].version = users[u].version + 1
<1>1. ProvisionInv /\ [ProvisionNext]_provisionVars => [\A u \in Names : Kept(u)]_provisionVars
    <2> SUFFICES ASSUME ProvisionInv, ProvisionNext, NEW u \in Names PROVE Kept(u)
        BY Zenon
    <2>0. users \in [Names -> MemberRow]
        BY Zenon DEF ProvisionInv, ProvisionTyped
    <2>1. ASSUME NEW a \in Admins, BootCommit(a) PROVE ~users[u].on
        BY Zenon, <2>1 DEF BootCommit, ProvisionInv, TxOK, NoIdentity
    <2>2. ASSUME NEW a \in Admins, UserCommit(a), users[u].on PROVE users'[u] = users[u]
        <3>1. ~users[tx[a].user].on
            BY Zenon, <2>2 DEF UserCommit, ProvisionInv, TxOK
        <3> QED
            BY Zenon, <2>0, <2>2, <3>1 DEF UserCommit
    <2>3. ASSUME NEW a \in Admins, DeleteGroup(a) PROVE Kept(u)
        <3>1. tx[a].at = "emptied" /\ tx[a].group # 0 /\ (users' = users \/ users' = Emptied(a))
            BY Zenon, <2>3 DEF DeleteGroup, ProvisionInv, TxOK
        <3> QED
            BY Zenon, <3>1, EmptiedUsers
    <2>4. ASSUME NEW a \in Admins, SeedNew(a) \/ SeedUser(a), users[u].on PROVE users'[u] = users[u]
        BY Zenon, <2>0, <2>4 DEF SeedNew, SeedUser
    <2>5. \/ users' = users
          \/ \E a \in Admins : BootCommit(a) \/ UserCommit(a) \/ DeleteGroup(a) \/ SeedNew(a) \/ SeedUser(a)
        BY ZenonT(30)
           DEF ProvisionNext, CreateTenant, Call, BootLock, BootCheck, FindGroup, CreateUser, CreateGroup,
               GroupCommit, UpdateGroup, EmptyGroup, SeedGroup, MapGroup, FailAdmin
    <2> QED
        BY Zenon, <2>1, <2>2, <2>3, <2>4, <2>5
<1> QED
    BY <1>1, ProvisionInvariant, PTL DEF ProvisionSpec, MembersBumped

-----------------------------------------------------------------------------
(* Support tickets *)
\* The tickets by themselves.
TicketSpec == TicketInit /\ [][TicketNext]_ticketVars

\* The rows a ticket may go through: revision, status and audit rows agree.
TicketStatuses == {"open", "in_progress", "resolved"}
Trails == << <<"open">>, <<"open", "in_progress">>, <<"open", "in_progress", "resolved">> >>
TicketRow == [id : 0..MaxCalls, print : Prints, status : TicketStatuses, revision : 1..3, audit : Seq(TicketStatuses)]
Lives == {t \in TicketRow : t.status = Statuses[t.revision] /\ t.audit = Trails[t.revision]}

\* What a caller knows, by the place it is at.
CallerOK(c, x) ==
    /\ x.at \in {"away", "new", "insert", "retry", "commit", "refresh", "manage", "move"}
    /\ x.at \in {"new", "insert", "retry", "refresh"} => x.print \in Prints
    /\ x.at \in {"manage", "move"} => x.print = "none" /\ x.revision \in 1..3
    /\ x.at = "move" => x.revision \in 1..2 /\ x.status = Statuses[x.revision]
    /\ x.at = "refresh" => ticket \in Lives /\ ticket.print = x.print
    /\ x.at = "commit" <=> holder = c
    /\ x.at = "commit" => IF x.print = "none" THEN ticket \in Lives
                          ELSE ticket = NoTicket /\ draft.print = x.print

\* Only the holder of the row has a draft: a first row, or the next revision
\* of the one that is committed.
DraftOK ==
    IF holder = "none" THEN draft = NoTicket
    ELSE /\ draft \in Lives
         /\ IF ticket = NoTicket THEN draft.revision = 1
            ELSE /\ draft.id = ticket.id /\ draft.print = ticket.print
                 /\ draft.revision = ticket.revision + 1

Points == {"away", "new", "insert", "retry", "commit", "refresh", "manage", "move"}
CallerRow == [at : Points, print : Prints \cup {"none"}, revision : 0..3,
              status : {"none", "open", "in_progress", "resolved"}]

TicketInv ==
    /\ ticket \in Lives \cup {NoTicket}
    /\ holder \in Callers \cup {"none"}
    /\ caller \in [Callers -> CallerRow]
    /\ calls \in 0..MaxCalls
    /\ ticket = NoTicket => answers = {}
    /\ OneTicket
    /\ DraftOK
    /\ \A c \in Callers : CallerOK(c, caller[c])

\* The fields of a row of a ticket's life.
LEMMA LifeFields ==
  ASSUME NEW t \in Lives
  PROVE  /\ t.id \in 0..MaxCalls /\ t.print \in Prints /\ t.revision \in 1..3
         /\ t.status = Statuses[t.revision] /\ t.audit = Trails[t.revision]
         /\ t # NoTicket
BY SMT, SMTT(20) DEF Lives, TicketRow, NoTicket

\* The fields of a pair.
LEMMA PairFields == \A x, y : <<x, y>>[1] = x /\ <<x, y>>[2] = y
BY Zenon

\* Appending e to s gives t when t has one more element, ends in e and agrees
\* with s before that.
LEMMA AppendIs ==
  ASSUME NEW S, NEW s \in Seq(S), NEW e \in S, NEW t \in Seq(S), Len(t) = Len(s) + 1,
         t[Len(s) + 1] = e, \A i \in 1..Len(s) : t[i] = s[i]
  PROVE  Append(s, e) = t
<1> DEFINE u == Append(s, e)
<1>1. u \in Seq(S) /\ Len(u) = Len(s) + 1 /\ u[Len(s) + 1] = e /\ \A i \in 1..Len(s) : u[i] = s[i]
  BY SMT, SMTT(20)
<1> HIDE DEF u
<1>2. \A i \in 1..Len(u) : u[i] = t[i]
  BY SMT, SMTT(20), <1>1
<1>3. u \in [1..Len(u) -> S] /\ t \in [1..Len(u) -> S]
  BY SMT, SMTT(20), <1>1
<1>4. u = t
  BY SMT, SMTT(20), <1>2, <1>3
<1> QED BY Zenon, <1>4 DEF u

\* Each trail is the one before it and the next status.
LEMMA TrailGrows ==
  ASSUME NEW r \in 1..2
  PROVE  /\ NextStatus(Statuses[r]) = Statuses[r + 1] /\ Statuses[r + 1] \in TicketStatuses
         /\ Trails[r] \in Seq(TicketStatuses) /\ Trails[r + 1] \in Seq(TicketStatuses)
         /\ Append(Trails[r], Statuses[r + 1]) = Trails[r + 1]
<1>0. /\ Trails[1] \in Seq(TicketStatuses) /\ Len(Trails[1]) = 1
      /\ Trails[2] \in Seq(TicketStatuses) /\ Len(Trails[2]) = 2
      /\ Trails[3] \in Seq(TicketStatuses) /\ Len(Trails[3]) = 3
  BY SMT, SMTT(20) DEF Trails, TicketStatuses
<1>a. r = 1 \/ r = 2
  BY SMT, SMTT(20)
<1>b. 1 + 1 = 2 /\ 2 + 1 = 3
  BY SMT, SMTT(20)
<1>c. (r = 1 /\ r + 1 = 2) \/ (r = 2 /\ r + 1 = 3)
  BY Zenon, <1>a, <1>b
<1>1. Trails[r] \in Seq(TicketStatuses) /\ Len(Trails[r]) = r
  BY Zenon, <1>0, <1>c
<1>2. Trails[r + 1] \in Seq(TicketStatuses) /\ Len(Trails[r + 1]) = r + 1
  BY Zenon, <1>0, <1>c
<1>3. /\ NextStatus(Statuses[r]) = Statuses[r + 1] /\ Statuses[r + 1] \in TicketStatuses
      /\ Trails[r + 1][r + 1] = Statuses[r + 1]
  BY SMT, SMTT(20) DEF Trails, Statuses, NextStatus, TicketStatuses
<1>4. \A i \in 1..r : Trails[r + 1][i] = Trails[r][i]
  BY SMT, SMTT(20) DEF Trails
<1>5. Append(Trails[r], Statuses[r + 1]) = Trails[r + 1]
  BY ZenonT(30), <1>1, <1>2, <1>3, <1>4, AppendIs
<1> QED BY Zenon, <1>1, <1>2, <1>3, <1>5

\* The row a manager writes is the next one of the ticket's life.
LEMMA LifeNext ==
  ASSUME NEW t \in Lives, t.revision \in 1..2,
         NEW s, s = NextStatus(Statuses[t.revision])
  PROVE  LET u == [t EXCEPT !.status = s, !.revision = t.revision + 1, !.audit = Append(@, s)]
         IN /\ u \in Lives /\ u.id = t.id /\ u.print = t.print
            /\ u.revision = t.revision + 1
<1> DEFINE r == t.revision
           u == [t EXCEPT !.status = s, !.revision = t.revision + 1, !.audit = Append(@, s)]
<1>1. t \in TicketRow /\ t.audit = Trails[r]
  BY DEF Lives
<1>2. s = Statuses[r + 1] /\ s \in TicketStatuses /\ Append(t.audit, s) = Trails[r + 1]
      /\ Trails[r + 1] \in Seq(TicketStatuses)
  BY Zenon, <1>1, TrailGrows
<1>3. r + 1 \in 1..3
  OBVIOUS
<1>4. u = [t EXCEPT !.status = s, !.revision = r + 1, !.audit = Trails[r + 1]]
  BY <1>1, <1>2 DEF TicketRow
<1>5. u \in TicketRow
  BY Zenon, <1>1, <1>2, <1>3, <1>4 DEF TicketRow
<1>6. u.status = s /\ u.revision = r + 1 /\ u.audit = Trails[r + 1] /\ u.id = t.id /\ u.print = t.print
  BY Zenon, <1>1, <1>4 DEF TicketRow
<1> QED BY Zenon, <1>2, <1>5, <1>6 DEF Lives

\* A caller's move keeps the record of callers well typed.
LEMMA CallerMoves ==
  ASSUME caller \in [Callers -> CallerRow], NEW c \in Callers
  PROVE  /\ Gone(c) => caller' \in [Callers -> CallerRow] /\ caller'[c] = Away
         /\ \A at \in Points : Goes(c, at) =>
              /\ caller' \in [Callers -> CallerRow]
              /\ caller'[c].at = at /\ caller'[c].print = caller[c].print
              /\ caller'[c].revision = caller[c].revision /\ caller'[c].status = caller[c].status
         /\ \A at \in Points : Gone(c) \/ Goes(c, at) =>
              \A d \in Callers \ {c} : caller'[d] = caller[d]
<1>1. Away \in CallerRow
  BY DEF Away, CallerRow, Points
<1>2. \A r \in CallerRow, at \in Points : [r EXCEPT !.at = at] \in CallerRow
  BY Zenon DEF CallerRow
<1>3. caller[c] \in CallerRow
  BY Zenon
<1>4. \A r \in CallerRow, at \in Points :
        /\ [r EXCEPT !.at = at].at = at /\ [r EXCEPT !.at = at].print = r.print
        /\ [r EXCEPT !.at = at].revision = r.revision /\ [r EXCEPT !.at = at].status = r.status
  BY Zenon DEF CallerRow
<1>5. Gone(c) => caller' \in [Callers -> CallerRow] /\ caller'[c] = Away
  BY Zenon, <1>1 DEF Gone
<1>6. ASSUME NEW at \in Points, Goes(c, at)
      PROVE  caller' \in [Callers -> CallerRow] /\ caller'[c] = [caller[c] EXCEPT !.at = at]
  BY Zenon, <1>2, <1>3, <1>6 DEF Goes
<1>7. \A at \in Points : Gone(c) \/ Goes(c, at) => \A d \in Callers \ {c} : caller'[d] = caller[d]
  BY Zenon DEF Gone, Goes
<1>8. \A at \in Points : Goes(c, at) =>
        /\ caller' \in [Callers -> CallerRow]
        /\ caller'[c].at = at /\ caller'[c].print = caller[c].print
        /\ caller'[c].revision = caller[c].revision /\ caller'[c].status = caller[c].status
  <2> TAKE at \in Points
  <2> HAVE Goes(c, at)
  <2>1. caller' \in [Callers -> CallerRow] /\ caller'[c] = [caller[c] EXCEPT !.at = at]
    BY Zenon, <1>6
  <2> QED BY SMT, SMTT(20), <1>3, <1>4, <2>1
<1> QED BY <1>5, <1>7, <1>8

\* Away is a place every caller may be in while another holds the row.
LEMMA AwayOK ==
  ASSUME NEW c \in Callers, holder # c
  PROVE  CallerOK(c, Away)
BY Zenon DEF CallerOK, Away

\* A step that leaves the rows and their holder alone only has to place its caller.
LEMMA CallerStep ==
  ASSUME TicketInv, NEW c \in Callers, UNCHANGED <<ticket, draft, holder>>,
         caller' \in [Callers -> CallerRow], calls' \in 0..MaxCalls,
         \A d \in Callers \ {c} : caller'[d] = caller[d],
         CallerOK(c, caller'[c]),
         ticket = NoTicket => answers' = {},
         \A a \in answers' : a \in answers \/ (a[2] = ticket /\ a[1] = ticket.print)
  PROVE  TicketInv'
<1>1. \A d \in Callers : CallerOK(d, caller[d])'
  BY SMT, SMTT(20) DEF TicketInv, CallerOK
<1>2. DraftOK'
  BY Zenon DEF TicketInv, DraftOK
<1>3. OneTicket'
  BY Zenon DEF TicketInv, OneTicket
<1> QED BY ZenonT(30), <1>1, <1>2, <1>3 DEF TicketInv

\* A caller asks for a ticket, or a manager for a change.
LEMMA AskStep ==
  ASSUME TicketInv, NEW c \in Callers, TicketAsk(c)
  PROVE  TicketInv'
<1>0. Away \in CallerRow /\ Away.print = "none"
  BY SMT, SMTT(20) DEF Away, CallerRow, Points
<1>1. PICK x \in CallerRow : /\ caller' = [caller EXCEPT ![c] = x]
                             /\ CallerOK(c, x)
  <2>0. holder # c
    BY Zenon DEF TicketInv, CallerOK, TicketAsk
  <2>1. CASE \E p \in Prints : caller' = [caller EXCEPT ![c] = [Away EXCEPT !.at = "new", !.print = p]]
    <3>1. PICK p \in Prints : caller' = [caller EXCEPT ![c] = [Away EXCEPT !.at = "new", !.print = p]]
      BY Zenon, <2>1
    <3> DEFINE x == [Away EXCEPT !.at = "new", !.print = p]
    <3>2. x \in CallerRow
      BY Zenon, <1>0 DEF CallerRow, Points
    <3>4. x.at = "new" /\ x.print = p
      BY Zenon, <1>0 DEF CallerRow
    <3>3. CallerOK(c, x)
      BY Zenon, <2>0, <3>4 DEF CallerOK
    <3> QED BY Zenon, <3>1, <3>2, <3>3
  <2>2. CASE \E r \in 1..Len(Statuses) :
               caller' = [caller EXCEPT ![c] = [Away EXCEPT !.at = "manage", !.revision = r]]
    <3>0. Len(Statuses) = 3
      BY Zenon DEF Statuses
    <3>1. PICK r \in 1..3 : caller' = [caller EXCEPT ![c] = [Away EXCEPT !.at = "manage", !.revision = r]]
      BY Zenon, <2>2, <3>0
    <3> DEFINE x == [Away EXCEPT !.at = "manage", !.revision = r]
    <3>5. r \in 0..3
      BY SMT, SMTT(20)
    <3>2. x \in CallerRow
      BY Zenon, <1>0, <3>5 DEF CallerRow, Points
    <3>4. x.at = "manage" /\ x.print = "none" /\ x.revision = r
      BY Zenon, <1>0 DEF CallerRow
    <3>3. CallerOK(c, x)
      BY Zenon, <2>0, <3>4 DEF CallerOK
    <3> QED BY Zenon, <3>1, <3>2, <3>3
  <2> QED BY Zenon, <2>1, <2>2 DEF TicketAsk
<1>2. /\ caller' \in [Callers -> CallerRow] /\ caller'[c] = x
      /\ \A d \in Callers \ {c} : caller'[d] = caller[d]
  BY Zenon, <1>1 DEF TicketInv
<1>3. UNCHANGED <<ticket, draft, holder, answers>>
  BY Zenon DEF TicketAsk
<1>4. calls' \in 0..MaxCalls
  <2>1. calls < MaxCalls /\ calls' = calls + 1
    BY Zenon DEF TicketAsk
  <2>2. calls \in 0..MaxCalls
    BY Zenon DEF TicketInv
  <2> QED BY SMT, SMTT(20), <2>1, <2>2, TicketAssumption
<1> QED BY Zenon, <1>1, <1>2, <1>3, <1>4, CallerStep DEF TicketInv

\* _existing reads by owner and reference, before the insert or after a lost race.
LEMMA ByReferenceStep ==
  ASSUME TicketInv, NEW c \in Callers, ByReference(c)
  PROVE  TicketInv'
<1>0. holder # c /\ caller[c].at \in {"new", "retry"} /\ caller[c].print \in Prints
  BY Zenon DEF TicketInv, CallerOK, ByReference
<1>1. UNCHANGED <<ticket, draft, holder, calls>>
  BY Zenon DEF ByReference
<1>2. /\ caller' \in [Callers -> CallerRow]
      /\ \A d \in Callers \ {c} : caller'[d] = caller[d]
      /\ CallerOK(c, caller'[c])
  <2>1. CASE Gone(c)
    BY Zenon, <1>0, <2>1, CallerMoves, AwayOK DEF TicketInv, Points
  <2>2. CASE Goes(c, "insert")
    <3>1. /\ caller' \in [Callers -> CallerRow]
          /\ \A d \in Callers \ {c} : caller'[d] = caller[d]
          /\ caller'[c].at = "insert" /\ caller'[c].print = caller[c].print
      BY Zenon, <2>2, CallerMoves DEF TicketInv, Points
    <3> QED BY Zenon, <1>0, <3>1 DEF CallerOK
  <2> QED BY Zenon, <2>1, <2>2 DEF ByReference
<1>3. ticket = NoTicket => answers' = {}
  BY Zenon DEF ByReference, TicketInv
<1>4. \A a \in answers' : a \in answers \/ (a[2] = ticket /\ a[1] = ticket.print)
  <2>1. answers' = answers \/ answers' = answers \cup {<<ticket.print, ticket>>}
    BY Zenon DEF ByReference, Existing
  <2>2. <<ticket.print, ticket>>[1] = ticket.print /\ <<ticket.print, ticket>>[2] = ticket
    BY Zenon, PairFields
  <2> QED BY Zenon, <2>1, <2>2
<1> QED BY Zenon, <1>1, <1>2, <1>3, <1>4, CallerStep DEF TicketInv

\* A manager reads the ticket.
LEMMA GetTicketStep ==
  ASSUME TicketInv, NEW c \in Callers, GetTicket(c)
  PROVE  TicketInv'
<1>0. holder # c /\ caller[c].at = "manage" /\ caller[c].print = "none" /\ caller[c].revision \in 1..3
  BY Zenon DEF TicketInv, CallerOK, GetTicket
<1>1. UNCHANGED <<ticket, draft, holder, answers, calls>>
  BY Zenon DEF GetTicket
<1>2. /\ caller' \in [Callers -> CallerRow]
      /\ \A d \in Callers \ {c} : caller'[d] = caller[d]
      /\ CallerOK(c, caller'[c])
  <2>1. CASE Gone(c)
    BY Zenon, <1>0, <2>1, CallerMoves, AwayOK DEF TicketInv, Points
  <2>2. CASE MayMove(c) /\ caller' = [caller EXCEPT ![c].at = "move", ![c].status = ticket.status]
    <3>1. ticket \in Lives /\ ticket.revision = caller[c].revision /\ ticket.status # "resolved"
      BY Zenon, <2>2 DEF MayMove, TicketInv
    <3>2. /\ ticket.status = Statuses[caller[c].revision] /\ caller[c].revision \in 1..2
          /\ ticket.status \in {"none", "open", "in_progress", "resolved"}
      BY SMT, SMTT(20), <1>0, <3>1, LifeFields DEF Statuses
    <3> DEFINE x == [caller[c] EXCEPT !.at = "move", !.status = ticket.status]
    <3>3. caller[c] \in CallerRow
      BY Zenon DEF TicketInv
    <3>4. x \in CallerRow
      BY Zenon, <3>2, <3>3 DEF CallerRow, Points
    <3>5. x.at = "move" /\ x.print = caller[c].print /\ x.revision = caller[c].revision /\ x.status = ticket.status
      BY Zenon, <3>3 DEF CallerRow
    <3>6. CallerOK(c, x)
      BY Zenon, <1>0, <3>2, <3>5 DEF CallerOK
    <3>7. caller' = [caller EXCEPT ![c] = x]
      BY ZenonT(30), <2>2 DEF TicketInv
    <3> QED BY Zenon, <3>4, <3>6, <3>7 DEF TicketInv
  <2> QED BY Zenon, <2>1, <2>2 DEF GetTicket
<1> QED BY Zenon, <1>1, <1>2, CallerStep DEF TicketInv

\* The creator reads back the row it committed.
LEMMA RefreshStep ==
  ASSUME TicketInv, NEW c \in Callers, Refresh(c)
  PROVE  TicketInv'
<1>0. holder # c /\ caller[c].at = "refresh" /\ ticket \in Lives /\ ticket.print = caller[c].print
  BY Zenon DEF TicketInv, CallerOK, Refresh
<1>1. UNCHANGED <<ticket, draft, holder, calls>>
  BY Zenon DEF Refresh
<1>2. /\ caller' \in [Callers -> CallerRow]
      /\ \A d \in Callers \ {c} : caller'[d] = caller[d]
      /\ CallerOK(c, caller'[c])
  BY Zenon, <1>0, CallerMoves, AwayOK DEF TicketInv, Points, Refresh
<1>3. ticket # NoTicket
  BY Zenon, <1>0, LifeFields
<1>4. \A a \in answers' : a \in answers \/ (a[2] = ticket /\ a[1] = ticket.print)
  BY SMT, SMTT(20), <1>0 DEF Refresh
<1> QED BY Zenon, <1>1, <1>2, <1>3, <1>4, CallerStep DEF TicketInv

\* A step that takes the row for its caller, with what it flushed.
LEMMA TakesRow ==
  ASSUME TicketInv, NEW c \in Callers, holder = "none", holder' = c,
         UNCHANGED <<ticket, answers, calls>>, DraftOK', Goes(c, "commit"),
         CallerOK(c, caller[c]),
         IF caller[c].print = "none" THEN ticket \in Lives
         ELSE ticket = NoTicket /\ draft'.print = caller[c].print
  PROVE  TicketInv'
<1>1. /\ caller' \in [Callers -> CallerRow]
      /\ \A d \in Callers \ {c} : caller'[d] = caller[d]
      /\ caller'[c].at = "commit" /\ caller'[c].print = caller[c].print
  BY Zenon, CallerMoves DEF TicketInv, Points
<1>2. \A d \in Callers \ {c} : CallerOK(d, caller[d])'
  <2> TAKE d \in Callers \ {c}
  <2>1. CallerOK(d, caller[d]) /\ caller'[d] = caller[d] /\ holder # d /\ holder' # d
    BY Zenon, <1>1, TicketAssumption DEF TicketInv
  <2> QED BY Zenon, <2>1 DEF CallerOK
<1>3. CallerOK(c, caller[c])'
  BY Zenon, <1>1 DEF CallerOK
<1>4. OneTicket' /\ (ticket' = NoTicket => answers' = {})
  BY Zenon DEF OneTicket, TicketInv
<1> QED BY Zenon, <1>1, <1>2, <1>3, <1>4 DEF TicketInv

\* create flushes its row, or loses the race for it.
LEMMA InsertStep ==
  ASSUME TicketInv, NEW c \in Callers, Insert(c)
  PROVE  TicketInv'
<1>0. /\ holder = "none" /\ caller[c].at = "insert" /\ caller[c].print \in Prints
      /\ CallerOK(c, caller[c]) /\ UNCHANGED <<ticket, answers, calls>>
  BY Zenon DEF TicketInv, CallerOK, Insert
<1>1. CASE ticket = NoTicket
  <2> DEFINE t == [id |-> calls, print |-> caller[c].print, status |-> "open",
                   revision |-> 1, audit |-> <<Statuses[1]>>]
  <2>1. draft' = t /\ holder' = c /\ Goes(c, "commit")
    BY Zenon, <1>1 DEF Insert, Flush
  <2>2. <<Statuses[1]>> = Trails[1] /\ Statuses[1] = "open" /\ Trails[1] \in Seq(TicketStatuses)
    BY SMT, SMTT(20) DEF Statuses, Trails, TicketStatuses
  <2>3. t \in TicketRow
    <3>1. calls \in 0..MaxCalls
      BY Zenon DEF TicketInv
    <3>2. "open" \in TicketStatuses /\ 1 \in 1..3
      BY SMT, SMTT(20) DEF TicketStatuses
    <3> QED BY Zenon, <1>0, <2>2, <3>1, <3>2 DEF TicketRow
  <2>4. t \in Lives
    BY Zenon, <2>2, <2>3 DEF Lives
  <2>5. DraftOK'
    BY Zenon, <1>0, <1>1, <2>1, <2>4, TicketAssumption DEF DraftOK
  <2>6. caller[c].print # "none"
    BY Zenon, <1>0, TicketAssumption
  <2> QED BY ZenonT(30), <1>0, <1>1, <2>1, <2>5, <2>6, TakesRow
<1>2. CASE ticket # NoTicket
  <2>1. Goes(c, "retry") /\ UNCHANGED <<draft, holder>>
    BY Zenon, <1>2 DEF Insert, Flush
  <2>2. /\ caller' \in [Callers -> CallerRow]
        /\ \A d \in Callers \ {c} : caller'[d] = caller[d]
        /\ caller'[c].at = "retry" /\ caller'[c].print = caller[c].print
    BY ZenonT(30), <2>1, CallerMoves DEF TicketInv, Points
  <2>3. CallerOK(c, caller'[c])
    BY Zenon, <1>0, <2>2 DEF CallerOK
  <2> QED BY Zenon, <1>0, <1>2, <2>1, <2>2, <2>3, CallerStep DEF TicketInv
<1> QED BY Zenon, <1>1, <1>2

\* transition updates the row it read, or finds that it has moved.
LEMMA TransitionStep ==
  ASSUME TicketInv, NEW c \in Callers, Transition(c)
  PROVE  TicketInv'
<1>0. /\ holder = "none" /\ caller[c].at = "move" /\ caller[c].print = "none"
      /\ caller[c].revision \in 1..2 /\ caller[c].status = Statuses[caller[c].revision]
      /\ CallerOK(c, caller[c]) /\ UNCHANGED <<ticket, answers, calls>>
  BY Zenon DEF TicketInv, CallerOK, Transition
<1>1. CASE Matches(c)
  <2> DEFINE s == NextStatus(caller[c].status)
             t == [ticket EXCEPT !.status = s, !.revision = caller[c].revision + 1,
                                 !.audit = Append(@, s)]
  <2>1. draft' = t /\ holder' = c /\ Goes(c, "commit")
    BY Zenon, <1>1 DEF Transition
  <2>2. ticket.revision = caller[c].revision
    BY ZenonT(30), <1>1 DEF Matches
  <2>3. ticket \in Lives
    <3>1. ticket \in Lives \cup {NoTicket}
      BY Zenon DEF TicketInv
    <3> QED BY SMT, SMTT(20), <1>0, <2>2, <3>1 DEF NoTicket
  <2>4. t \in Lives /\ t.id = ticket.id /\ t.print = ticket.print /\ t.revision = ticket.revision + 1
    BY ZenonT(30), <1>0, <2>2, <2>3, LifeNext
  <2>5. DraftOK'
    BY Zenon, <1>0, <2>1, <2>3, <2>4, LifeFields, TicketAssumption DEF DraftOK
  <2> QED BY Zenon, <1>0, <2>1, <2>3, <2>5, TakesRow
<1>2. CASE ~Matches(c)
  <2>1. Gone(c) /\ UNCHANGED <<draft, holder>>
    BY Zenon, <1>2 DEF Transition
  <2>2. holder # c
    BY Zenon, <1>0, TicketAssumption
  <2>3. /\ caller' \in [Callers -> CallerRow]
        /\ \A d \in Callers \ {c} : caller'[d] = caller[d]
        /\ CallerOK(c, caller'[c])
    BY Zenon, <2>1, <2>2, CallerMoves, AwayOK DEF TicketInv, Points
  <2> QED BY Zenon, <1>0, <2>1, <2>3, CallerStep DEF TicketInv
<1> QED BY Zenon, <1>1, <1>2

\* A holder that ends leaves the row as it was, or as it flushed it, and in
\* both cases with the identity the other callers know it by.
LEMMA ReleasesRow ==
  ASSUME TicketInv, NEW c \in Callers, holder = c, holder' = "none", draft' = NoTicket,
         ticket' = ticket \/ ticket' = draft,
         caller' \in [Callers -> CallerRow], UNCHANGED calls,
         \A d \in Callers \ {c} : caller'[d] = caller[d],
         CallerOK(c, caller[c])',
         \A a \in answers' : a \in answers \/ (a[1] = "moved" /\ a[2] = draft /\ ticket' = draft)
  PROVE  TicketInv'
<1>0. holder # "none" /\ holder' \notin Callers
  BY Zenon, TicketAssumption
<1>1. /\ draft \in Lives
      /\ ticket # NoTicket => draft.id = ticket.id /\ draft.print = ticket.print
  BY Zenon, <1>0 DEF TicketInv, DraftOK
<1>2. ticket' \in Lives \cup {NoTicket} /\ draft # NoTicket
  BY Zenon, <1>1, LifeFields DEF TicketInv
<1>3. \A d \in Callers \ {c} : CallerOK(d, caller[d])'
  <2> TAKE d \in Callers \ {c}
  <2>1. CallerOK(d, caller[d]) /\ caller'[d] = caller[d] /\ holder # d /\ holder' # d
    BY Zenon, <1>0 DEF TicketInv
  <2>2. ticket \in Lives => ticket' \in Lives /\ ticket'.print = ticket.print
    BY Zenon, <1>1, LifeFields
  <2> QED BY Zenon, <2>1, <2>2 DEF CallerOK
<1>4. OneTicket'
  <2> SUFFICES ASSUME NEW a \in answers'
               PROVE  a[2].id = ticket'.id /\ (a[1] # "moved" => a[1] = ticket'.print)
    BY Zenon DEF OneTicket
  <2>1. CASE a \in answers
    <3>1. ticket # NoTicket /\ a[2].id = ticket.id /\ (a[1] # "moved" => a[1] = ticket.print)
      BY Zenon, <2>1 DEF TicketInv, OneTicket
    <3> QED BY Zenon, <1>1, <3>1
  <2> QED BY Zenon, <2>1
<1>5. ticket' = NoTicket => answers' = {}
  <2> SUFFICES ASSUME ticket' = NoTicket PROVE answers' = {}
    BY Zenon
  <2>1. ticket = NoTicket /\ ticket' # draft
    BY Zenon, <1>2
  <2>2. answers = {}
    BY Zenon, <2>1 DEF TicketInv
  <2> QED BY Zenon, <2>1, <2>2
<1>6. DraftOK'
  BY Zenon DEF DraftOK
<1> QED BY Zenon, <1>2, <1>3, <1>4, <1>5, <1>6 DEF TicketInv

\* A commit makes the draft the ticket.
LEMMA CommitStep ==
  ASSUME TicketInv, NEW c \in Callers, CommitTicket(c)
  PROVE  TicketInv'
<1>0. /\ holder = c /\ caller[c].at = "commit" /\ holder' = "none" /\ draft' = NoTicket
      /\ ticket' = draft /\ UNCHANGED calls /\ holder' # c
      /\ caller[c].print # "none" => draft.print = caller[c].print
  BY Zenon, TicketAssumption DEF TicketInv, CallerOK, CommitTicket, Committed
<1>1. draft \in Lives
  BY Zenon, <1>0, TicketAssumption DEF TicketInv, DraftOK
<1>2. CASE caller[c].print = "none"
  <2>1. Gone(c) /\ answers' = answers \cup {<<"moved", draft>>}
    BY Zenon, <1>2 DEF CommitTicket
  <2>2. /\ caller' \in [Callers -> CallerRow] /\ caller'[c] = Away
        /\ \A d \in Callers \ {c} : caller'[d] = caller[d]
    BY ZenonT(30), <2>1, CallerMoves DEF TicketInv, Points
  <2>3. CallerOK(c, caller[c])'
    BY SMT, SMTT(20), <1>0, <2>2 DEF CallerOK, Away
  <2> QED BY SMT, SMTT(20), <1>0, <2>1, <2>2, <2>3, ReleasesRow
<1>3. CASE caller[c].print # "none"
  <2>1. Goes(c, "refresh") /\ UNCHANGED answers
    BY Zenon, <1>3 DEF CommitTicket
  <2>2. /\ caller' \in [Callers -> CallerRow]
        /\ caller'[c].at = "refresh" /\ caller'[c].print = caller[c].print
        /\ \A d \in Callers \ {c} : caller'[d] = caller[d]
    BY Zenon, <2>1, CallerMoves DEF TicketInv, Points
  <2>3. caller[c].print \in Prints
    BY ZenonT(30), <1>0, <1>1, <1>3, LifeFields
  <2>4. CallerOK(c, caller[c])'
    BY Zenon, <1>0, <1>1, <1>3, <2>2, <2>3 DEF CallerOK
  <2> QED BY Zenon, <1>0, <2>1, <2>2, <2>4, ReleasesRow
<1> QED BY Zenon, <1>2, <1>3

\* A call fails and its draft goes.
LEMMA FailStep ==
  ASSUME TicketInv, NEW c \in Callers, FailTicket(c)
  PROVE  TicketInv'
<1>0. UNCHANGED <<answers, calls>> /\ Gone(c) /\ CallerOK(c, caller[c])
  BY Zenon DEF FailTicket, TicketInv
<1>1. /\ caller' \in [Callers -> CallerRow] /\ caller'[c] = Away
      /\ \A d \in Callers \ {c} : caller'[d] = caller[d]
  BY Zenon, <1>0, CallerMoves DEF TicketInv, Points
<1>2. CASE holder = c
  <2>1. holder' = "none" /\ draft' = NoTicket /\ (ticket' = ticket \/ ticket' = draft) /\ holder' # c
    BY Zenon, <1>2, TicketAssumption DEF FailTicket, Committed
  <2>2. CallerOK(c, caller[c])'
    BY SMT, SMTT(20), <1>1, <2>1 DEF CallerOK, Away
  <2> QED BY Zenon, <1>0, <1>1, <1>2, <2>1, <2>2, ReleasesRow
<1>3. CASE holder # c
  <2>1. UNCHANGED <<ticket, draft, holder>>
    BY Zenon, <1>0, <1>3 DEF FailTicket, CallerOK
  <2> QED BY Zenon, <1>0, <1>1, <1>3, <2>1, AwayOK, CallerStep DEF TicketInv
<1> QED BY Zenon, <1>2, <1>3

\* The inductive invariant holds in every reachable state.
LEMMA TicketInvariant == TicketSpec => []TicketInv
<1>1. TicketInit => TicketInv
  <2> SUFFICES ASSUME TicketInit PROVE TicketInv
    OBVIOUS
  <2>1. Away \in CallerRow
    BY SMT, SMTT(20) DEF Away, CallerRow, Points
  <2>2. caller \in [Callers -> CallerRow] /\ calls \in 0..MaxCalls
    BY SMT, SMTT(20), <2>1, TicketAssumption DEF TicketInit
  <2>3. \A c \in Callers : CallerOK(c, caller[c])
    <3> TAKE c \in Callers
    <3>1. holder # c /\ caller[c] = Away
      BY Zenon, TicketAssumption DEF TicketInit
    <3> QED BY Zenon, <3>1, AwayOK
  <2> QED BY Zenon, <2>2, <2>3 DEF TicketInit, TicketInv, DraftOK, OneTicket
<1>2. TicketInv /\ [TicketNext]_ticketVars => TicketInv'
  <2> SUFFICES ASSUME TicketInv, [TicketNext]_ticketVars PROVE TicketInv'
    BY Zenon
  <2>1. CASE UNCHANGED ticketVars
    BY ZenonT(30), <2>1 DEF ticketVars, TicketInv, OneTicket, DraftOK, CallerOK
  <2>2. CASE TicketNext
    BY Zenon, <2>2, AskStep, ByReferenceStep, InsertStep, GetTicketStep, TransitionStep, CommitStep,
       RefreshStep, FailStep DEF TicketNext
  <2> QED BY Zenon, <2>1, <2>2
<1> QED BY <1>1, <1>2, PTL DEF TicketSpec

\* Every caller that was given a ticket for a reference was given the stored
\* one, for any number of callers (create, _existing).
THEOREM TicketsAreOne == TicketSpec => []OneTicket
<1>1. TicketInv => OneTicket
  BY Zenon DEF TicketInv
<1> QED BY <1>1, TicketInvariant, PTL

\* The audit rows are the life of the ticket (_audit).
THEOREM TicketsAudited == TicketSpec => []TicketAudited
<1>1. TicketInv => TicketAudited
  <2> SUFFICES ASSUME TicketInv PROVE TicketAudited
    BY Zenon
  <2>1. CASE ticket = NoTicket
    BY SMT, SMTT(20), <2>1 DEF TicketAudited, NoTicket
  <2>2. CASE ticket \in Lives
    <3>1. /\ ticket.revision \in 1..3 /\ ticket.status = Statuses[ticket.revision]
          /\ ticket.audit = Trails[ticket.revision]
      BY Zenon, <2>2, LifeFields
    <3>2. CASE ticket.revision = 1
      BY SMT, SMTT(20), <2>2, <3>1, <3>2, LifeFields DEF TicketAudited, Trails, Statuses
    <3>3. CASE ticket.revision = 2
      BY SMT, SMTT(20), <2>2, <3>1, <3>3, LifeFields DEF TicketAudited, Trails, Statuses
    <3>4. CASE ticket.revision = 3
      BY SMT, SMTT(20), <2>2, <3>1, <3>4, LifeFields DEF TicketAudited, Trails, Statuses
    <3> QED BY SMT, SMTT(20), <3>1, <3>2, <3>3, <3>4
  <2> QED BY Zenon, <2>1, <2>2 DEF TicketInv
<1> QED BY <1>1, TicketInvariant, PTL

\* A ticket is never moved backwards, moved twice from one revision, or
\* replaced (transition).
THEOREM TicketsGoForward == TicketSpec => TicketForward
<1>1. ASSUME TicketInv, [TicketNext]_ticketVars, ticket # NoTicket, ticket' # ticket
      PROVE  /\ ticket'.id = ticket.id /\ ticket'.print = ticket.print
             /\ ticket'.revision = ticket.revision + 1
             /\ ticket'.status = Statuses[ticket'.revision]
  <2>1. PICK c \in Callers : CommitTicket(c) \/ FailTicket(c)
    BY Zenon, <1>1 DEF TicketNext, ticketVars, TicketAsk, ByReference, Insert, GetTicket, Transition, Refresh
  <2>2. ticket' = draft /\ caller[c].at = "commit"
    BY Zenon, <1>1, <2>1 DEF CommitTicket, FailTicket, Committed
  <2>3. holder # "none"
    BY Zenon, <1>1, <2>2, TicketAssumption DEF TicketInv, CallerOK
  <2>4. draft \in Lives /\ draft.id = ticket.id /\ draft.print = ticket.print
        /\ draft.revision = ticket.revision + 1
    BY Zenon, <1>1, <2>3 DEF TicketInv, DraftOK
  <2> QED BY Zenon, <2>2, <2>4, LifeFields
<1> QED BY <1>1, TicketInvariant, PTL DEF TicketSpec, TicketForward

-----------------------------------------------------------------------------
(* The human review queue *)
\* The review queue by itself.
ReviewSpec == ReviewInit /\ [][ReviewNext]_reviewVars

ItemRow == [status : ReviewStatuses \cup {"none"}, history : Seq(ReviewStatuses), candidate : Nat]
ReviewRow == [at : {"away", "read", "write", "audit"}, to : ReviewStatuses, converts : Nat, read : ItemRow]

\* A path of allowed transitions from open to the status s.
Path(h, s) ==
    /\ h \in Seq(ReviewStatuses) /\ h # <<>> /\ s \in ReviewStatuses
    /\ h[1] = "open" /\ h[Len(h)] = s
    /\ \A i \in 1..(Len(h) - 1) : h[i+1] \in AllowedTransitions[h[i]]

\* The steps of a history up to its n-th entry have their audit records.
AuditedTo(h, n) ==
    \A i \in 1..(n - 1) : \E a \in audited : a[1] = h[i] /\ a[2] = h[i+1]

CandidateAudited == item.candidate # 0 => \E a \in audited : a[3] = item.candidate

\* What the holder of the row has flushed, x being its call: a first row, or
\* one step more than the item it read.
WrittenOK(x) ==
    /\ Path(written.history, written.status)
    /\ \/ Len(written.history) = 1
       \/ /\ AuditedTo(written.history, Len(written.history) - 1)
          /\ written.history[Len(written.history) - 1] = x.read.status
    /\ written.candidate \in {0, item.candidate, x.converts}

\* What a call x of reviewer r has read and checked, by the place it is at.
CallOK(r, x) ==
    /\ x.at = "read" => item # NoItem
    /\ x.at = "write" =>
          /\ Path(x.read.history, x.read.status)
          /\ AuditedTo(x.read.history, Len(x.read.history))
          /\ x.to \in AllowedTransitions[x.read.status]
    /\ x.at = "audit" <=> writer = r
    /\ x.at = "audit" => WrittenOK(x)

ItemOK ==
    /\ item # NoItem => Path(item.history, item.status)
    /\ AuditedTo(item.history, Len(item.history))
    /\ CandidateAudited

ReviewTyped ==
    /\ item \in ItemRow /\ written \in ItemRow /\ writer \in Reviewers \cup {"none"}
    /\ review \in [Reviewers -> ReviewRow] /\ reviews \in Nat

ReviewInv == ReviewTyped /\ ItemOK /\ \A r \in Reviewers : CallOK(r, review[r])

\* A transition leads to a status.
LEMMA Transitions ==
  ASSUME NEW s \in ReviewStatuses, NEW t \in AllowedTransitions[s]
  PROVE  t \in ReviewStatuses
BY SMT, SMTT(20) DEF ReviewStatuses, AllowedTransitions

\* The rows that stand for nothing, and the fields of an item.
LEMMA RowTypes ==
  /\ NoItem \in ItemRow /\ Unseen \in ReviewRow /\ Unseen.at = "away"
  /\ \A x \in ItemRow : x.history \in Seq(ReviewStatuses) /\ x.candidate \in Nat
                        /\ x.status \in ReviewStatuses \cup {"none"}
<1>1. NoItem \in ItemRow
  BY SMT, SMTT(20) DEF NoItem, ItemRow
<1>2. "open" \in ReviewStatuses
  BY Zenon DEF ReviewStatuses, AllowedTransitions
<1>3. Unseen \in ReviewRow
  BY Zenon, <1>1, <1>2 DEF Unseen, ReviewRow
<1> QED BY Zenon, <1>1, <1>3 DEF Unseen, ItemRow

\* What is read off a path.
LEMMA PathFacts ==
  ASSUME NEW h, NEW s, Path(h, s)
  PROVE  h \in Seq(ReviewStatuses) /\ Len(h) \in Nat /\ Len(h) >= 1 /\ h[Len(h)] = s
BY SMT, SMTT(20) DEF Path

\* An item with a path is there.
LEMMA PathItem ==
  ASSUME NEW x, Path(x.history, x.status)
  PROVE  x # NoItem
<1>1. NoItem.history = <<>>
  BY Zenon DEF NoItem
<1> QED BY Zenon, <1>1 DEF Path

\* A legal step added to a path makes a path, and audits no more than it.
LEMMA PathGrows ==
  ASSUME NEW h, NEW s, Path(h, s), NEW t \in AllowedTransitions[s]
  PROVE  /\ Path(Append(h, t), t)
         /\ Len(Append(h, t)) = Len(h) + 1 /\ Append(h, t)[Len(h)] = s
         /\ AuditedTo(h, Len(h)) => AuditedTo(Append(h, t), Len(h))
<1> DEFINE g == Append(h, t)
<1>1. h \in Seq(ReviewStatuses) /\ h # <<>> /\ s \in ReviewStatuses /\ t \in ReviewStatuses
  BY Zenon, Transitions DEF Path
<1>2. Len(h) \in Nat /\ Len(h) >= 1
  BY SMT, SMTT(20), <1>1
<1>3. /\ g \in Seq(ReviewStatuses) /\ g # <<>> /\ Len(g) = Len(h) + 1
      /\ \A i \in 1..Len(h) : g[i] = h[i]
      /\ g[Len(h) + 1] = t
  BY SMT, SMTT(20), <1>1
<1>4. g[1] = "open" /\ g[Len(g)] = t /\ g[Len(h)] = s
  BY SMT, SMTT(20), <1>2, <1>3 DEF Path
<1>5. ASSUME NEW i \in 1..(Len(g) - 1) PROVE g[i+1] \in AllowedTransitions[g[i]]
  <2>1. CASE i = Len(h)
    BY Zenon, <1>3, <1>4, <2>1
  <2>2. CASE i # Len(h)
    <3>1. i \in 1..(Len(h) - 1) /\ g[i] = h[i] /\ g[i+1] = h[i+1]
      BY SMT, SMTT(20), <1>2, <1>3, <2>2
    <3> QED BY Zenon, <3>1 DEF Path
  <2> QED BY Zenon, <2>1, <2>2
<1>6. AuditedTo(h, Len(h)) => AuditedTo(g, Len(h))
  <2> SUFFICES ASSUME AuditedTo(h, Len(h)), NEW i \in 1..(Len(h) - 1)
               PROVE  \E a \in audited : a[1] = g[i] /\ a[2] = g[i+1]
    BY Zenon DEF AuditedTo
  <2>1. g[i] = h[i] /\ g[i+1] = h[i+1]
    BY SMT, SMTT(20), <1>2, <1>3
  <2> QED BY Zenon, <2>1 DEF AuditedTo
<1> HIDE DEF g
<1>7. Path(g, t)
  BY Zenon, <1>1, <1>3, <1>4, <1>5 DEF Path
<1> QED BY Zenon, <1>3, <1>4, <1>6, <1>7 DEF g

\* A call that neither takes nor leaves the row only has to be placed itself.
LEMMA ReviewCallStep ==
  ASSUME ReviewInv, NEW r \in Reviewers, NEW x \in ReviewRow, review' = [review EXCEPT ![r] = x],
         UNCHANGED <<item, written, writer, audited>>, reviews' \in Nat, CallOK(r, x)
  PROVE  ReviewInv'
<1>1. review' \in [Reviewers -> ReviewRow] /\ review'[r] = x
      /\ \A q \in Reviewers \ {r} : review'[q] = review[q]
  BY Zenon DEF ReviewInv, ReviewTyped
<1>2. ASSUME NEW q \in Reviewers PROVE CallOK(q, review[q])'
  <2>1. CallOK(q, review'[q])
    BY Zenon, <1>1 DEF ReviewInv
  <2> QED BY Zenon, <2>1 DEF CallOK, WrittenOK, AuditedTo
<1>3. ItemOK'
  BY Zenon DEF ReviewInv, ItemOK, AuditedTo, CandidateAudited
<1>4. ReviewTyped'
  BY Zenon, <1>1 DEF ReviewInv, ReviewTyped
<1> QED BY Zenon, <1>2, <1>3, <1>4 DEF ReviewInv

\* A step that takes the row for its call.
LEMMA TakesItem ==
  ASSUME ReviewInv, NEW r \in Reviewers, writer = "none", writer' = r,
         review' = [review EXCEPT ![r].at = "audit"], UNCHANGED <<item, audited>>,
         written' \in ItemRow, reviews' \in Nat, WrittenOK(review[r])'
  PROVE  ReviewInv'
<1>1. review[r] \in ReviewRow
  BY Zenon DEF ReviewInv, ReviewTyped
<1>2. [review[r] EXCEPT !.at = "audit"] \in ReviewRow /\ [review[r] EXCEPT !.at = "audit"].at = "audit"
  BY Zenon, <1>1 DEF ReviewRow
<1>3. review' \in [Reviewers -> ReviewRow] /\ review'[r].at = "audit"
      /\ \A q \in Reviewers \ {r} : review'[q] = review[q]
  BY ZenonT(30), <1>2 DEF ReviewInv, ReviewTyped
<1>4. ASSUME NEW q \in Reviewers \ {r} PROVE CallOK(q, review[q])'
  <2>1. CallOK(q, review[q]) /\ review'[q] = review[q] /\ writer # q /\ writer' # q
    BY ZenonT(30), <1>3, ReviewAssumption DEF ReviewInv
  <2> QED BY SMT, SMTT(20), <2>1 DEF CallOK, AuditedTo
<1>5. CallOK(r, review[r])'
  BY Zenon, <1>3 DEF CallOK
<1>6. ItemOK'
  BY Zenon DEF ReviewInv, ItemOK, AuditedTo, CandidateAudited
<1>7. ReviewTyped'
  BY Zenon, <1>3 DEF ReviewInv, ReviewTyped
<1> QED BY Zenon, <1>4, <1>5, <1>6, <1>7 DEF ReviewInv

\* An item is created, open.
LEMMA CreateItemStep ==
  ASSUME ReviewInv, NEW r \in Reviewers, CreateItem(r)
  PROVE  ReviewInv'
<1>1. "open" \in ReviewStatuses
  BY Zenon DEF ReviewStatuses, AllowedTransitions
<1>2. written'.status = "open" /\ written'.history = <<"open">> /\ written'.candidate = 0
  BY Zenon DEF CreateItem
<1>3. <<"open">> \in Seq(ReviewStatuses) /\ Len(<<"open">>) = 1
  BY SMT, SMTT(20), <1>1
<1>4. written' \in ItemRow
  BY Zenon, <1>1, <1>3 DEF CreateItem, ItemRow
<1>5. WrittenOK(review[r])'
  <2>1. Path(<<"open">>, "open")
    BY SMT, SMTT(20), <1>1, <1>3 DEF Path
  <2> QED BY Zenon, <1>2, <1>3, <2>1 DEF WrittenOK
<1>6. reviews' \in Nat
  BY SMT, SMTT(20) DEF CreateItem, ReviewInv, ReviewTyped
<1> QED BY Zenon, <1>4, <1>5, <1>6, TakesItem DEF CreateItem

\* A reviewer asks for a change.
LEMMA AskReviewStep ==
  ASSUME ReviewInv, NEW r \in Reviewers, AskReview(r)
  PROVE  ReviewInv'
<1>1. reviews' \in Nat /\ item # NoItem /\ UNCHANGED <<item, written, writer, audited>>
  BY SMT, SMTT(20) DEF AskReview, ReviewInv, ReviewTyped
<1>2. PICK s \in ReviewStatuses, n \in Nat :
        review' = [review EXCEPT ![r] = [Unseen EXCEPT !.at = "read", !.to = s, !.converts = n]]
  BY Zenon, <1>1 DEF AskReview
<1> DEFINE x == [Unseen EXCEPT !.at = "read", !.to = s, !.converts = n]
<1>3. x \in ReviewRow
  BY Zenon, RowTypes DEF ReviewRow
<1>4. x.at = "read"
  BY Zenon, RowTypes DEF ReviewRow
<1>5. writer # r
  BY Zenon DEF AskReview, ReviewInv, CallOK
<1>6. CallOK(r, x)
  BY Zenon, <1>1, <1>4, <1>5 DEF CallOK
<1> QED BY Zenon, <1>1, <1>2, <1>3, <1>6, ReviewCallStep

\* The record is read, and the transition checked against it.
LEMMA GetRecordStep ==
  ASSUME ReviewInv, NEW r \in Reviewers, GetRecord(r)
  PROVE  ReviewInv'
<1>1. /\ UNCHANGED <<item, written, writer, audited, reviews>> /\ review[r] \in ReviewRow
      /\ item \in ItemRow /\ item # NoItem /\ writer # r /\ reviews' \in Nat
  BY Zenon DEF GetRecord, ReviewInv, ReviewTyped, CallOK
<1>2. CASE AssertTransition(r)
  <2> DEFINE x == [review[r] EXCEPT !.at = "write", !.read = item]
  <2>1. review' = [review EXCEPT ![r] = x]
    BY Zenon, <1>2 DEF GetRecord, ReviewInv, ReviewTyped
  <2>2. x \in ReviewRow
    BY Zenon, <1>1 DEF ReviewRow
  <2>3. x.at = "write" /\ x.read = item /\ x.to = review[r].to
    BY Zenon, <1>1 DEF ReviewRow
  <2>4. CallOK(r, x)
    BY Zenon, <1>1, <1>2, <2>3 DEF CallOK, AssertTransition, ReviewInv, ItemOK
  <2> QED BY Zenon, <1>1, <2>1, <2>2, <2>4, ReviewCallStep
<1>3. CASE ~AssertTransition(r)
  <2>1. review' = [review EXCEPT ![r] = Unseen]
    BY Zenon, <1>3 DEF GetRecord
  <2>2. CallOK(r, Unseen)
    BY Zenon, <1>1, RowTypes DEF CallOK
  <2> QED BY Zenon, <1>1, <2>1, <2>2, RowTypes, ReviewCallStep
<1> QED BY <1>2, <1>3

\* update_status flushes the item it read, one step further.
LEMMA UpdateStatusStep ==
  ASSUME ReviewInv, NEW r \in Reviewers, UpdateStatus(r)
  PROVE  ReviewInv'
<1> DEFINE x == review[r]
           h == Append(x.read.history, x.to)
<1>1. /\ Path(x.read.history, x.read.status) /\ AuditedTo(x.read.history, Len(x.read.history))
      /\ x.to \in AllowedTransitions[x.read.status]
  BY Zenon DEF UpdateStatus, ReviewInv, CallOK
<1>2. /\ Path(h, x.to) /\ Len(h) = Len(x.read.history) + 1
      /\ h[Len(x.read.history)] = x.read.status /\ AuditedTo(h, Len(x.read.history))
  <2>1. PICK g, s, t : g = x.read.history /\ s = x.read.status /\ t = x.to
    BY Zenon
  <2>2. Path(g, s) /\ AuditedTo(g, Len(g)) /\ t \in AllowedTransitions[s]
    BY Zenon, <1>1, <2>1
  <2>3. /\ Path(Append(g, t), t) /\ Len(Append(g, t)) = Len(g) + 1
        /\ Append(g, t)[Len(g)] = s /\ AuditedTo(Append(g, t), Len(g))
    BY ZenonT(30), <2>2, PathGrows
  <2> QED BY Zenon, <2>1, <2>3
<1>3. Len(x.read.history) \in Nat
  BY SMT, SMTT(20), <1>1 DEF Path
<1>4. x \in ReviewRow /\ item \in ItemRow /\ reviews' \in Nat
  BY Zenon DEF UpdateStatus, ReviewInv, ReviewTyped
<1>5. x.to \in ReviewStatuses /\ x.converts \in Nat /\ item.candidate \in Nat
  BY Zenon, <1>4, RowTypes DEF ReviewRow
<1>6. written' = Overwrite(r) /\ review' = [review EXCEPT ![r].at = "audit"]
  BY Zenon DEF UpdateStatus
<1>7. /\ written'.status = x.to /\ written'.history = h
      /\ written'.candidate \in {0, item.candidate, x.converts}
  <2>1. Overwrite(r).status = x.to /\ Overwrite(r).history = h
    BY Zenon DEF Overwrite
  <2>2. Overwrite(r).candidate \in {0, item.candidate, x.converts}
    BY ZenonT(30) DEF Overwrite
  <2> QED BY Zenon, <1>6, <2>1, <2>2
<1>8. h \in Seq(ReviewStatuses)
  BY Zenon, <1>2 DEF Path
<1>9. written' \in ItemRow
  BY Zenon, <1>5, <1>6, <1>8 DEF Overwrite, ItemRow
<1>10. review'[r].read = x.read /\ review'[r].converts = x.converts
  BY Zenon, <1>4, <1>6 DEF ReviewRow, ReviewInv, ReviewTyped
<1>11. item' = item /\ audited' = audited
  BY Zenon DEF UpdateStatus
<1>12. WrittenOK(review[r])'
  <2> HIDE DEF h, x
  <2>1. Len(h) - 1 = Len(x.read.history)
    BY SMT, SMTT(20), <1>2, <1>3
  <2>2. h[Len(h) - 1] = x.read.status
    BY Zenon, <1>2, <2>1
  <2>3. AuditedTo(h, Len(h) - 1)
    BY Zenon, <1>2, <2>1
  <2>4. AuditedTo(written.history, Len(written.history) - 1)'
    BY Zenon, <1>7, <1>11, <2>3 DEF AuditedTo
  <2>5. Path(written'.history, written'.status)
    BY Zenon, <1>2, <1>7
  <2>6. written'.candidate \in {0, item'.candidate, review'[r].converts}
    BY Zenon, <1>7, <1>10, <1>11
  <2>7. written'.history[Len(written'.history) - 1] = review'[r].read.status
    BY Zenon, <1>7, <1>10, <2>2
  <2> QED BY Zenon, <2>4, <2>5, <2>6, <2>7 DEF WrittenOK
<1> QED BY Zenon, <1>4, <1>6, <1>9, <1>12, TakesItem DEF UpdateStatus, ItemFree

\* The commit stores the flushed row together with the record of its step.
LEMMA CommitReviewStep ==
  ASSUME ReviewInv, NEW r \in Reviewers, CommitReview(r)
  PROVE  ReviewInv'
<1> DEFINE h == written.history
           x == review[r]
<1>1. /\ writer = r /\ WrittenOK(x) /\ written \in ItemRow /\ x \in ReviewRow
      /\ review \in [Reviewers -> ReviewRow]
  BY Zenon DEF CommitReview, ReviewInv, ReviewTyped, CallOK
<1>2. /\ item' = written /\ writer' = "none" /\ written' = NoItem /\ reviews' = reviews
      /\ audited' = audited \cup {<<x.read.status, written.status, x.converts>>}
      /\ review' = [review EXCEPT ![r] = Unseen]
  BY Zenon DEF CommitReview, RecordReview, AuditRow
<1>3. Path(h, written.status) /\ h \in Seq(ReviewStatuses) /\ Len(h) \in Nat /\ Len(h) >= 1
      /\ h[Len(h)] = written.status
  <2>1. Path(h, written.status)
    BY Zenon, <1>1 DEF WrittenOK
  <2> QED BY Zenon, <2>1, PathFacts
<1>4. ASSUME NEW g, NEW n, AuditedTo(g, n) PROVE \A i \in 1..(n - 1) : \E a \in audited' : a[1] = g[i] /\ a[2] = g[i+1]
  BY Zenon, <1>2, <1>4 DEF AuditedTo
<1>5. AuditedTo(item.history, Len(item.history))'
  <2> SUFFICES ASSUME NEW i \in 1..(Len(h) - 1)
               PROVE  \E a \in audited' : a[1] = h[i] /\ a[2] = h[i+1]
    BY ZenonT(30), <1>2 DEF AuditedTo
  <2>1. /\ AuditedTo(h, Len(h) - 1) /\ h[Len(h) - 1] = x.read.status
    BY SMT, SMTT(20), <1>1, <1>3 DEF WrittenOK
  <2>2. CASE i = Len(h) - 1
    <3>1. h[i] = x.read.status /\ h[i+1] = written.status
      BY SMT, SMTT(20), <1>3, <2>1, <2>2
    <3> DEFINE a == <<x.read.status, written.status, x.converts>>
    <3>2. a \in audited' /\ a[1] = x.read.status /\ a[2] = written.status
      BY Zenon, <1>2
    <3> QED BY Zenon, <3>1, <3>2
  <2>3. CASE i # Len(h) - 1
    <3>1. i \in 1..((Len(h) - 1) - 1)
      BY <1>3, <2>3
    <3> QED BY ZenonT(30), <1>4, <2>1, <3>1
  <2> QED BY Zenon, <2>2, <2>3
<1>6. CandidateAudited'
  <2> SUFFICES ASSUME written.candidate # 0 PROVE \E a \in audited' : a[3] = written.candidate
    BY Zenon, <1>2 DEF CandidateAudited
  <2>1. written.candidate = item.candidate \/ written.candidate = x.converts
    BY Zenon, <1>1 DEF WrittenOK
  <2>2. CASE written.candidate = item.candidate
    BY Zenon, <1>2, <2>2 DEF ReviewInv, ItemOK, CandidateAudited
  <2>3. CASE written.candidate = x.converts
    <3>1. <<x.read.status, written.status, x.converts>>[3] = x.converts
      BY Zenon
    <3> QED BY Zenon, <1>2, <2>3, <3>1
  <2> QED BY Zenon, <2>1, <2>2, <2>3
<1>7. item' # NoItem
  BY ZenonT(30), <1>2, <1>3, PathItem
<1>8. ItemOK'
  BY Zenon, <1>2, <1>3, <1>5, <1>6 DEF ItemOK
<1>9. /\ review' \in [Reviewers -> ReviewRow] /\ review'[r] = Unseen
      /\ \A q \in Reviewers \ {r} : review'[q] = review[q]
  BY Zenon, <1>1, <1>2, RowTypes
<1>10. ReviewTyped'
  BY Zenon, <1>1, <1>2, <1>9, RowTypes DEF ReviewInv, ReviewTyped
<1>11. \A q \in Reviewers : CallOK(q, review[q])'
  <2> TAKE q \in Reviewers
  <2>1. writer' # q
    BY Zenon, <1>2, ReviewAssumption
  <2>2. CASE q = r
    BY Zenon, <1>9, <2>1, <2>2, RowTypes DEF CallOK
  <2>3. CASE q # r
    <3>1. review'[q] = review[q] /\ CallOK(q, review[q]) /\ writer # q
      BY Zenon, <1>1, <1>9, <2>3 DEF ReviewInv
    <3>2. review[q].at # "audit"
      BY Zenon, <3>1 DEF CallOK
    <3>3. ASSUME review[q].at = "write"
          PROVE  /\ Path(review[q].read.history, review[q].read.status)'
                 /\ AuditedTo(review[q].read.history, Len(review[q].read.history))'
                 /\ review'[q].to \in AllowedTransitions[review'[q].read.status]
      <4>1. AuditedTo(review[q].read.history, Len(review[q].read.history))
        BY ZenonT(30), <3>1, <3>3 DEF CallOK
      <4>2. AuditedTo(review[q].read.history, Len(review[q].read.history))'
        BY ZenonT(30), <1>2, <3>1, <4>1 DEF AuditedTo
      <4> QED BY Zenon, <3>1, <3>3, <4>2 DEF CallOK
    <3> QED BY Zenon, <1>7, <2>1, <3>1, <3>2, <3>3 DEF CallOK
  <2> QED BY Zenon, <2>2, <2>3
<1> QED BY ZenonT(30), <1>8, <1>10, <1>11 DEF ReviewInv

\* A call fails and what it flushed goes.
LEMMA FailReviewStep ==
  ASSUME ReviewInv, NEW r \in Reviewers, FailReview(r)
  PROVE  ReviewInv'
<1>1. /\ review' = [review EXCEPT ![r] = Unseen] /\ UNCHANGED <<item, audited, reviews>>
      /\ reviews' \in Nat
  BY DEF FailReview, ReviewInv, ReviewTyped
<1>2. CASE writer # r
  <2>1. CallOK(r, Unseen)
    BY Zenon, <1>2, RowTypes DEF CallOK
  <2>2. UNCHANGED <<written, writer>>
    BY Zenon, <1>2 DEF FailReview
  <2> QED BY Zenon, <1>1, <2>1, <2>2, RowTypes, ReviewCallStep
<1>3. CASE writer = r
  <2>1. writer' = "none" /\ written' = NoItem
    BY Zenon, <1>3 DEF FailReview
  <2>2. /\ review' \in [Reviewers -> ReviewRow] /\ review'[r] = Unseen
        /\ \A q \in Reviewers \ {r} : review'[q] = review[q]
    BY Zenon, <1>1, RowTypes DEF ReviewInv, ReviewTyped
  <2>3. ASSUME NEW q \in Reviewers PROVE CallOK(q, review[q])'
    <3>1. writer' # q
      BY ZenonT(30), <2>1, ReviewAssumption
    <3>2. CASE q = r
      BY Zenon, <2>2, <3>1, <3>2, RowTypes DEF CallOK
    <3>3. CASE q # r
      <4>1. review'[q] = review[q] /\ CallOK(q, review[q]) /\ writer # q
        BY <1>3, <2>2, <3>3 DEF ReviewInv
      <4> QED BY ZenonT(30), <1>1, <3>1, <4>1 DEF CallOK, AuditedTo
    <3> QED BY Zenon, <3>2, <3>3
  <2>4. ItemOK'
    BY Zenon, <1>1 DEF ReviewInv, ItemOK, AuditedTo, CandidateAudited
  <2>5. ReviewTyped'
    BY Zenon, <1>1, <2>1, <2>2, RowTypes DEF ReviewInv, ReviewTyped
  <2> QED BY Zenon, <2>3, <2>4, <2>5 DEF ReviewInv
<1> QED BY <1>2, <1>3

\* The inductive invariant holds in every reachable state.
LEMMA ReviewInvariant == ReviewSpec => []ReviewInv
<1>1. ReviewInit => ReviewInv
  <2> SUFFICES ASSUME ReviewInit PROVE ReviewInv
    OBVIOUS
  <2>1. ReviewTyped
    BY Zenon, RowTypes DEF ReviewInit, ReviewTyped
  <2>2. ItemOK
    BY DEF ReviewInit, ItemOK, AuditedTo, CandidateAudited, NoItem
  <2>3. \A r \in Reviewers : CallOK(r, review[r])
    BY Zenon, RowTypes, ReviewAssumption DEF ReviewInit, CallOK
  <2> QED BY <2>1, <2>2, <2>3 DEF ReviewInv
<1>2. ReviewInv /\ [ReviewNext]_reviewVars => ReviewInv'
  <2> SUFFICES ASSUME ReviewInv, [ReviewNext]_reviewVars PROVE ReviewInv'
    OBVIOUS
  <2>1. CASE UNCHANGED reviewVars
    BY Zenon, <2>1
       DEF reviewVars, ReviewInv, ReviewTyped, ItemOK, CandidateAudited, AuditedTo, CallOK, WrittenOK
  <2>2. CASE ReviewNext
    BY Zenon, <2>2, CreateItemStep, AskReviewStep, GetRecordStep, UpdateStatusStep, CommitReviewStep,
       FailReviewStep DEF ReviewNext
  <2> QED BY <2>1, <2>2
<1> QED BY <1>1, <1>2, PTL DEF ReviewSpec

\* The stored history is a path of allowed transitions that ends in the stored
\* status, for any number of reviewers overwriting each other.
THEOREM HistoriesLegal == ReviewSpec => []HistoryLegal
<1>1. ReviewInv => HistoryLegal
  BY ZenonT(30) DEF ReviewInv, ItemOK, Path, HistoryLegal
<1> QED BY <1>1, ReviewInvariant, PTL

\* Nothing is stored without its audit record, however often it is overwritten
\* (the audit port commits both).
THEOREM ReviewsAudited == ReviewSpec => []ReviewAudited
<1>1. ReviewInv => ReviewAudited
  BY DEF ReviewInv, ItemOK, AuditedTo, CandidateAudited, ReviewAudited
<1> QED BY <1>1, ReviewInvariant, PTL
=============================================================================
