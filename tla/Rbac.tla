-------------------------------- MODULE Rbac --------------------------------
(***************************************************************************)
(* RbacStore (src/auth/rbac.cpp): users, groups and permissions in memory, *)
(* and the JSON file they are saved to after every operation.              *)
(*                                                                         *)
(* Every operation holds mu_ from its first check to the end of Save(), so *)
(* operations do not interleave; what can come in between is the end of    *)
(* the process.  An operation changes the maps, then saves: the steps of   *)
(* Save() are the phases "write" (the temporary file), "rename" and        *)
(* "return".  A process that died leaves its last memory and phase in the  *)
(* variables; the next Open() overwrites them.                             *)
(***************************************************************************)
EXTENDS Functions

CONSTANTS Users, Groups,
          Admin,              \* "admin", the user a new store has
          Permissions,        \* the permissions with a name: one bit each
          SpareBits,          \* the bits of kAdmin that have no name
          NoFile, Damaged,    \* no file; a file that does not parse
          Stores              \* the files an earlier process may have left

VARIABLES up,      \* a process has the store open
          users,   \* users_: user -> [groups, permissions]
          groups,  \* groups_: group -> permissions
          phase,   \* how far the operation that holds mu_ has got; "idle": mu_ is free
          tmp,     \* what the operation has written to <store_path_>.tmp
          file,    \* what is at store_path_
          result,  \* the Status the last operation returned
          acked,   \* history: the maps when an operation last reported success,
                   \* or what the process found in the file
          touched  \* history: users and groups named by operations since then

memory == <<users, groups>>
history == <<acked, touched>>
rbacVars == <<up, users, groups, phase, tmp, file, result, acked, touched>>

kAdmin == Permissions \cup SpareBits

\* the masks ParsePermission knows
Masks == {{p} : p \in Permissions} \cup {kAdmin}

UserRecord == [groups : SUBSET Groups, permissions : SUBSET kAdmin]
NewUser == [groups |-> {}, permissions |-> {}]
Empty == [x \in {} |-> NewUser]
EmptyImage == [users |-> Empty, groups |-> Empty]
Image == [users |-> users, groups |-> groups]
Put(f, x, v) == [y \in DOMAIN f \cup {x} |-> IF y = x THEN v ELSE f[y]]

-----------------------------------------------------------------------------
IsImage(m) ==
    /\ m = [users |-> m.users, groups |-> m.groups]
    /\ DOMAIN m.users \subseteq Users /\ m.users \in [DOMAIN m.users -> UserRecord]
    /\ DOMAIN m.groups \subseteq Groups /\ m.groups \in [DOMAIN m.groups -> SUBSET kAdmin]

Consistent(m) == \A u \in DOMAIN m.users : m.users[u].groups \subseteq DOMAIN m.groups

ASSUME RbacAssumption ==
    /\ Admin \in Users
    /\ Users \cap Groups = {}
    /\ \A m \in Stores : IsImage(m) /\ Consistent(m)

RbacInit ==
    /\ up = FALSE
    /\ users = Empty /\ groups = Empty
    /\ phase = "idle"
    /\ tmp = NoFile
    /\ file \in Stores \cup {NoFile}
    /\ result = "ok"
    /\ acked = IF file = NoFile THEN EmptyImage ELSE file
    /\ touched = Users \cup Groups

\* Open of a directory without a store: the first user, which is then saved.
OpenNew ==
    /\ ~up /\ file = NoFile
    /\ up' = TRUE
    /\ users' = Put(Empty, Admin, [groups |-> {}, permissions |-> kAdmin])
    /\ groups' = Empty
    /\ phase' = "write"
    /\ tmp' = NoFile
    /\ touched' = {Admin}
    /\ acked' = EmptyImage
    /\ UNCHANGED <<file, result>>

\* Load
OpenLoads ==
    /\ ~up /\ file \notin {NoFile, Damaged}
    /\ up' = TRUE
    /\ users' = file.users /\ groups' = file.groups
    /\ phase' = "idle" /\ result' = "ok"
    /\ tmp' = NoFile
    /\ acked' = file /\ touched' = {}
    /\ UNCHANGED file

\* Load gives up on a file it cannot open or parse, before it fills the maps.
\* StorageService does not look at the status: the store is used, empty.
OpenFails ==
    /\ ~up /\ file # NoFile
    /\ up' = TRUE
    /\ users' = Empty /\ groups' = Empty
    /\ phase' = "idle" /\ result' = "error"
    /\ tmp' = NoFile
    /\ acked' = IF file = Damaged THEN acked ELSE file
    /\ touched' = Users \cup Groups
    /\ UNCHANGED file

Open == OpenNew \/ OpenLoads \/ OpenFails

-----------------------------------------------------------------------------
(* Save(), at the end of every operation.                                  *)

\* ofstream(tmp) fails
SaveCannotWrite ==
    /\ up /\ phase = "write"
    /\ phase' = "idle" /\ result' = "error"
    /\ UNCHANGED <<up, memory, tmp, file, history>>

\* the stream is not looked at again: a full disk leaves half a document
SaveWrites ==
    /\ up /\ phase = "write"
    /\ phase' = "rename"
    /\ tmp' \in {Image, Damaged}
    /\ UNCHANGED <<up, memory, file, result, history>>

\* mutant: the file is written in place, so that a failed rename is not noticed
RenameAnyway ==
    /\ up /\ phase = "rename"
    /\ phase' = "return"
    /\ file' \in {tmp, file}
    /\ tmp' = NoFile
    /\ UNCHANGED <<up, memory, result, history>>

SaveRenames ==
    /\ up /\ phase = "rename"
    /\ phase' = "return"
    /\ file' = tmp
    /\ tmp' = NoFile
    /\ UNCHANGED <<up, memory, result, history>>

\* the temporary file stays, and the next Save truncates it
SaveCannotRename ==
    /\ up /\ phase = "rename"
    /\ phase' = "idle" /\ result' = "error"
    /\ tmp' = NoFile
    /\ UNCHANGED <<up, memory, file, history>>

SaveReturns ==
    /\ up /\ phase = "return"
    /\ phase' = "idle" /\ result' = "ok"
    /\ acked' = Image /\ touched' = {}
    /\ UNCHANGED <<up, memory, tmp, file>>

Save == SaveCannotWrite \/ SaveWrites \/ SaveRenames \/ SaveCannotRename \/ SaveReturns

\* The process dies, in the middle of an operation or not.
ProcessEnds ==
    /\ up
    /\ up' = FALSE
    /\ UNCHANGED <<memory, phase, tmp, file, result, history>>

-----------------------------------------------------------------------------
(* The operations.                                                         *)

MuFree == up /\ phase = "idle"

\* x is what the operation names; the maps change, then Save() runs
Change(us, gs, names) ==
    /\ users' = us /\ groups' = gs
    /\ phase' = "write"
    /\ touched' = touched \cup names
    /\ UNCHANGED <<up, tmp, file, result, acked>>

\* an operation whose check fails returns before it changes anything
Refuse ==
    /\ result' = "error"
    /\ UNCHANGED <<up, memory, phase, tmp, file, history>>

CreateUser(u) ==
    /\ MuFree
    /\ IF u \in DOMAIN users THEN Refuse
       ELSE Change(Put(users, u, NewUser), groups, {u})

DropUser(u) ==
    /\ MuFree
    /\ IF u \notin DOMAIN users THEN Refuse
       ELSE Change(Restrict(users, DOMAIN users \ {u}), groups, {u})

CreateGroup(g) ==
    /\ MuFree
    /\ IF g \in DOMAIN groups THEN Refuse
       ELSE Change(users, Put(groups, g, {}), {g})

Without(g) == [u \in DOMAIN users |-> [users[u] EXCEPT !.groups = @ \ {g}]]

\* mutant: the group stays in its members' records
DropGroupOnly(g) ==
    /\ MuFree
    /\ IF g \notin DOMAIN groups THEN Refuse
       ELSE Change(users, Restrict(groups, DOMAIN groups \ {g}), {g})

DropGroup(g) ==
    /\ MuFree
    /\ IF g \notin DOMAIN groups THEN Refuse
       ELSE Change(Without(g), Restrict(groups, DOMAIN groups \ {g}), {g})

AddUserToGroup(u, g) ==
    /\ MuFree
    /\ IF u \notin DOMAIN users \/ g \notin DOMAIN groups THEN Refuse
       ELSE Change([users EXCEPT ![u].groups = @ \cup {g}], groups, {u})

RemoveUserFromGroup(u, g) ==
    /\ MuFree
    /\ IF u \notin DOMAIN users THEN Refuse
       ELSE Change([users EXCEPT ![u].groups = @ \ {g}], groups, {u})

GrantToUser(u, mask) ==
    /\ MuFree
    /\ IF u \notin DOMAIN users THEN Refuse
       ELSE Change([users EXCEPT ![u].permissions = @ \cup mask], groups, {u})

RevokeFromUser(u, mask) ==
    /\ MuFree
    /\ IF u \notin DOMAIN users THEN Refuse
       ELSE Change([users EXCEPT ![u].permissions = @ \ mask], groups, {u})

\* mutant: the group's members are given the permission, too
GrantToMembers(g, mask) ==
    /\ MuFree
    /\ IF g \notin DOMAIN groups THEN Refuse
       ELSE Change([u \in DOMAIN users |-> IF g \in users[u].groups
                       THEN [users[u] EXCEPT !.permissions = @ \cup mask] ELSE users[u]],
                   [groups EXCEPT ![g] = @ \cup mask], {g})

GrantToGroup(g, mask) ==
    /\ MuFree
    /\ IF g \notin DOMAIN groups THEN Refuse
       ELSE Change(users, [groups EXCEPT ![g] = @ \cup mask], {g})

RevokeFromGroup(g, mask) ==
    /\ MuFree
    /\ IF g \notin DOMAIN groups THEN Refuse
       ELSE Change(users, [groups EXCEPT ![g] = @ \ mask], {g})

Flush == MuFree /\ Change(users, groups, {})

\* HasPermission, for a permission with a name
Gives(permissions, p) == permissions = kAdmin \/ p \in permissions

HasPermission(u, p) ==
    /\ u \in DOMAIN users
    /\ \/ Gives(users[u].permissions, p)
       \/ \E g \in users[u].groups \cap DOMAIN groups : Gives(groups[g], p)

Operation ==
    \/ \E u \in Users : CreateUser(u) \/ DropUser(u)
    \/ \E g \in Groups : CreateGroup(g) \/ DropGroup(g)
    \/ \E u \in Users, g \in Groups : AddUserToGroup(u, g) \/ RemoveUserFromGroup(u, g)
    \/ \E u \in Users, m \in Masks : GrantToUser(u, m) \/ RevokeFromUser(u, m)
    \/ \E g \in Groups, m \in Masks : GrantToGroup(g, m) \/ RevokeFromGroup(g, m)
    \/ Flush

RbacNext == Open \/ Save \/ ProcessEnds \/ Operation

RbacSpec == RbacInit /\ [][RbacNext]_rbacVars

-----------------------------------------------------------------------------
RbacTypeOK ==
    /\ up \in BOOLEAN
    /\ IsImage(Image) /\ IsImage(acked)
    /\ phase \in {"idle", "write", "rename", "return"}
    /\ tmp \in {NoFile, Damaged} \/ IsImage(tmp)
    /\ file \in {NoFile, Damaged} \/ IsImage(file)
    /\ result \in {"ok", "error"}
    /\ touched \subseteq Users \cup Groups

\* Save() replaces the file in one step: at any moment, crashes and failed saves
\* included, the file is what the last operation that reported success left, or
\* what the operation that is about to report it leaves.  (It may not parse when
\* the disk was full, which nothing reports.)
FileIsAcknowledged ==
    file \in {NoFile, Damaged} \/ file = (IF phase = "return" THEN Image ELSE acked)

\* A user is only in groups that exist, in memory and in the file: a group that
\* is dropped and created again starts without members, also after a restart.
MembershipsAreReal ==
    /\ Consistent(Image)
    /\ file \notin {NoFile, Damaged} => Consistent(file)

Differ(f, g, x) == (x \in DOMAIN f) # (x \in DOMAIN g) \/ (x \in DOMAIN f /\ f[x] # g[x])

\* u's record differs from the acknowledged one in touched groups at most
OnlyInGroups(u) ==
    /\ u \in DOMAIN users /\ u \in DOMAIN acked.users
    /\ users[u].permissions = acked.users[u].permissions
    /\ users[u].groups \ touched = acked.users[u].groups \ touched

\* An operation that fails to save leaves its change in memory, and the next one
\* that succeeds saves it too.  Still, memory never differs from what was last
\* acknowledged in anything but the users and groups that operations have named
\* since (a user also in belonging to such a group).
UnsavedIsNamed ==
    /\ \A g \in Groups : Differ(groups, acked.groups, g) => g \in touched
    /\ \A u \in Users : Differ(users, acked.users, u) => u \in touched \/ OnlyInGroups(u)
=============================================================================
