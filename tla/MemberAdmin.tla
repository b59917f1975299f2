--------------------------- MODULE MemberAdmin ---------------------------
\* The /workspaces/:id/members routes over DrizzleWorkspaceMembersRepository.
\* Its writes are transactions of Postgres at READ COMMITTED: a statement sees
\* the rows committed when it starts, waits for the rows another transaction has
\* locked, and skips those that are gone by then.  What a transaction has deleted
\* or locked is kept here until it commits; its last insert commits with it.
EXTENDS AdminDb

VARIABLES
    lock,  \* [Slots -> membership rows inserted or deleted and not yet committed]
    want,  \* [Slots -> role rows that a delete has seen and not yet locked]
    cut    \* [Slots -> role rows deleted and not yet committed]

memberVars == <<lock, want, cut>>

MemberOps == {"addMember", "replaceRoles", "removeMember"}

Seat(s) == <<req[s].user, req[s].ws>>
Granted(s) == {<<req[s].user, req[s].ws, r>> : r \in req[s].roles}
RolesOf(s) == {x \in roles : x[1] = req[s].user /\ x[2] = req[s].ws}
Others(s, held) == UNION {held[t] : t \in Slots \ {s}}

MemberInit == lock = [s \in Slots |-> {}] /\ want = lock /\ cut = lock

\* The end of a transaction: its locks go, and the deletes that wait for rows it
\* has deleted will not find them.
EndTxn(s, deleted) ==
    /\ lock' = [lock EXCEPT ![s] = {}]
    /\ cut' = [cut EXCEPT ![s] = {}]
    /\ want' = [t \in Slots |-> IF t = s THEN {} ELSE want[t] \ deleted]

Commit(s, newMembers, deleted, inserted) ==
    /\ members' = newMembers
    /\ roles' = (roles \ deleted) \cup inserted
    /\ EndTxn(s, deleted)
    /\ Succeed(s, "done")
    /\ UNCHANGED <<registered, life, slug, templates, attached, policy, providers, bindings>>

Rollback(s, code) == EndTxn(s, {}) /\ Refuse(s, code) /\ UNCHANGED tables

\* All three routes first look for the workspace.
MemberWorkspace(s) ==
    /\ Handling(s, MemberOps, "ws")
    /\ IF Live(req[s].ws)
         THEN /\ Await(s, CASE req[s].op = "addMember" -> "user"
                            [] req[s].op = "replaceRoles" -> "seat"
                            [] req[s].op = "removeMember" -> "leave")
              /\ reply' = None
         ELSE Refuse(s, "workspace_not_found")
    /\ UNCHANGED <<tables, memberVars>>

UserExists(s) ==
    /\ Handling(s, {"addMember"}, "user")
    /\ IF req[s].user \in registered
         THEN Await(s, "join") /\ reply' = None
         ELSE Refuse(s, "user_not_found")
    /\ UNCHANGED <<tables, memberVars>>

\* add: insert into user_workspaces.  It waits for a transaction that has
\* inserted or deleted the same row.
Join(s) ==
    /\ Handling(s, {"addMember"}, "join")
    /\ Seat(s) \notin Others(s, lock)
    /\ IF Seat(s) \in members
         THEN Rollback(s, "member_exists")
         ELSE /\ lock' = [lock EXCEPT ![s] = {Seat(s)}]
              /\ Await(s, "grant")
              /\ reply' = None
              /\ UNCHANGED <<tables, want, cut>>

\* replaceRoles: the membership is read and not locked.
SeeSeat(s) ==
    /\ Handling(s, {"replaceRoles"}, "seat")
    /\ IF Seat(s) \in members
         THEN Await(s, "clear") /\ reply' = None /\ UNCHANGED <<tables, memberVars>>
         ELSE Rollback(s, "member_not_found")

\* remove: delete from user_workspaces.  A row it sees may be locked.
Leave(s) ==
    /\ Handling(s, {"removeMember"}, "leave")
    /\ IF Seat(s) \in members
         THEN /\ Seat(s) \notin Others(s, lock)
              /\ lock' = [lock EXCEPT ![s] = {Seat(s)}]
              /\ Await(s, "clear")
              /\ reply' = None
              /\ UNCHANGED <<tables, want, cut>>
         ELSE Rollback(s, "member_not_found")

\* replaceRoles and remove: delete from user_role_workspaces, its snapshot ...
ClearSnapshot(s) ==
    /\ Handling(s, {"replaceRoles", "removeMember"}, "clear")
    /\ want' = [want EXCEPT ![s] = RolesOf(s)]
    /\ Await(s, "clearing")
    /\ reply' = None
    /\ UNCHANGED <<tables, lock, cut>>

\* Mutant: outside of a transaction, each statement commits.
ClearRowsAtOnce(s) ==
    /\ Handling(s, {"replaceRoles", "removeMember"}, "clearing")
    /\ want[s] \cap Others(s, cut) = {}
    /\ roles' = roles \ want[s]
    /\ want' = [want EXCEPT ![s] = {}]
    /\ AwaitWritten(s, "grant")
    /\ reply' = None
    /\ UNCHANGED <<registered, life, slug, members, templates, attached, policy, providers, bindings, lock, cut>>

\* ... and its rows, once no other transaction holds one of them.  It is the
\* last statement of remove.
ClearRows(s) ==
    /\ Handling(s, {"replaceRoles", "removeMember"}, "clearing")
    /\ want[s] \cap Others(s, cut) = {}
    /\ IF req[s].op = "removeMember"
         THEN Commit(s, members \ {Seat(s)}, want[s], {})
         ELSE /\ cut' = [cut EXCEPT ![s] = want[s]]
              /\ want' = [want EXCEPT ![s] = {}]
              /\ Await(s, "grant")
              /\ reply' = None
              /\ UNCHANGED <<tables, lock>>

\* Mutant: only the roles that the member lacked before the delete.
GrantOnlyNew(s) ==
    /\ Handling(s, {"addMember", "replaceRoles"}, "grant")
    /\ Granted(s) \cap Others(s, cut) = {}
    /\ Commit(s, members \cup lock[s], cut[s], Granted(s) \ roles)

\* add and replaceRoles: insert into user_role_workspaces and commit.  A row that
\* is there violates the primary key, which no handler expects; one that another
\* transaction has deleted is waited for.
Grant(s) ==
    /\ Handling(s, {"addMember", "replaceRoles"}, "grant")
    /\ Granted(s) \cap Others(s, cut) = {}
    /\ IF Granted(s) \cap (roles \ cut[s]) # {}
         THEN Rollback(s, "failed")
         ELSE Commit(s, members \cup lock[s], cut[s], Granted(s))

MemberFails(s) ==
    /\ req[s] # None /\ req[s].op \in MemberOps
    /\ Rollback(s, "failed")

MemberStep(s) ==
    \/ MemberWorkspace(s) \/ UserExists(s) \/ Join(s) \/ SeeSeat(s) \/ Leave(s)
    \/ ClearSnapshot(s) \/ ClearRows(s) \/ Grant(s)
=============================================================================
