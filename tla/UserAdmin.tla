------------------------------- MODULE UserAdmin -------------------------------
(***************************************************************************)
(* The users table of http-remote as administrators change it: several     *)
(* requests to create, update and delete users at once, each a sequence of *)
(* SQL statements without a transaction, and restarts of the server.       *)
(* is_admin is always written together with role and says the same.        *)
(***************************************************************************)
EXTENDS Integers, FiniteSets

CONSTANTS Ids,          \* ids AUTOINCREMENT hands out, none of them twice
          Names,
          Requests,     \* handlers that may run at the same time
          DefaultAdmin  \* cfg.Admin.Username

Roles == {"admin", "operator", "viewer"}

ASSUME UserAdminAssumption == /\ DefaultAdmin \in Names
                              /\ Ids # {}
                              /\ IsFiniteSet(Ids)

VARIABLES users,  \* users[i]: the row with id i
          req     \* req[q]: where the handler of q is, and its input

vars == <<users, req>>

NeverUsed == [name |-> "none", role |-> "unused"]
Deleted == [name |-> "none", role |-> "deleted"]
Row == [name : Names, role : Roles]

Present == {i \in Ids : users[i] \notin {NeverUsed, Deleted}}
CanManageUsers(i) == i \in Present /\ users[i].role = "admin"

\* A request to update a user (row is what it is to become), or to delete it
Request == [at : {"read", "count", "write"}, kind : {"update", "delete"},
            id : Ids, row : Row]
Idle == [at |-> "idle"]

TypeOK == /\ users \in [Ids -> Row \cup {NeverUsed, Deleted}]
          /\ req \in [Requests -> Request \cup {Idle}]

\* After the first start: EnsureAdminUser has created the administrator.
Init == /\ \E i \in Ids : users = [j \in Ids |->
              IF j = i THEN [name |-> DefaultAdmin, role |-> "admin"]
              ELSE NeverUsed]
        /\ req = [q \in Requests |-> Idle]

-------------------------------------------------------------------------------
(* UserHandler *)

Taken(n) == \E i \in Present : users[i].name = n

\* CreateUserWithRole: an INSERT with a UNIQUE name
Insert(i, r) ==
  /\ users[i] = NeverUsed
  /\ ~Taken(r.name)
  /\ users' = [users EXCEPT ![i] = r]

\* Create, one statement after the check of the permission
Create(i, r) ==
  /\ \E a \in Ids : CanManageUsers(a)
  /\ Insert(i, r)
  /\ UNCHANGED req

\* Update or Delete: the permission of the user in the context, and no request
\* about oneself
Begin(q, a, kind, i, r) ==
  /\ req[q] = Idle
  /\ CanManageUsers(a)
  /\ i # a
  /\ req' = [req EXCEPT ![q] = [at |-> "read", kind |-> kind, id |-> i,
                                row |-> r]]
  /\ UNCHANGED users

Goto(q, p) == req' = [req EXCEPT ![q].at = p]
Answer(q) == req' = [req EXCEPT ![q] = Idle]

\* Mutant of Forbidden: the default administrator is not protected.
MutForbidNothing(q) == FALSE

\* The default administrator is not deleted, renamed or demoted.
Forbidden(q) ==
  /\ users[req[q].id].name = DefaultAdmin
  /\ \/ req[q].kind = "delete"
     \/ req[q].row # [name |-> DefaultAdmin, role |-> "admin"]

\* An administrator who is to be one no more
Removes(q) == /\ users[req[q].id].role = "admin"
              /\ req[q].kind = "delete" \/ req[q].row.role # "admin"

\* GetUserByID of the target, and the checks on what it returns
Read(q) ==
  /\ req[q].at = "read"
  /\ \/ /\ req[q].id \notin Present \/ Forbidden(q)
        /\ Answer(q)
     \/ /\ req[q].id \in Present /\ ~Forbidden(q)
        /\ Goto(q, IF Removes(q) THEN "count" ELSE "write")
  /\ UNCHANGED users

\* CountAdminUsers
Count(q) ==
  /\ req[q].at = "count"
  /\ IF Cardinality({i \in Ids : CanManageUsers(i)}) <= 1
     THEN Answer(q) ELSE Goto(q, "write")
  /\ UNCHANGED users

\* UPDATE users ... WHERE id = ?: an error when another row has the name
UpdateUser(q) ==
  /\ req[q].at = "write"
  /\ req[q].kind = "update"
  /\ users' = IF /\ req[q].id \in Present
                 /\ \A i \in Present \ {req[q].id} :
                       users[i].name # req[q].row.name
              THEN [users EXCEPT ![req[q].id] = req[q].row] ELSE users
  /\ Answer(q)

\* DELETE FROM users WHERE id = ?; the sessions, deleted first, would go with
\* the row in any case (ON DELETE CASCADE).
DeleteUser(q) ==
  /\ req[q].at = "write"
  /\ req[q].kind = "delete"
  /\ users' = IF req[q].id \in Present
              THEN [users EXCEPT ![req[q].id] = Deleted] ELSE users
  /\ Answer(q)

\* The server starts again: EnsureAdminUser, with the same configuration.
Restart ==
  /\ req' = [q \in Requests |-> Idle]
  /\ IF Taken(DefaultAdmin) THEN UNCHANGED users
     ELSE \E i \in Ids : Insert(i, [name |-> DefaultAdmin, role |-> "admin"])

Next ==
  \/ \E i \in Ids, r \in Row : Create(i, r)
  \/ \E q \in Requests, a, i \in Ids, k \in {"update", "delete"}, r \in Row :
       Begin(q, a, k, i, r)
  \/ \E q \in Requests : Read(q) \/ Count(q) \/ UpdateUser(q) \/ DeleteUser(q)
  \/ Restart

Spec == Init /\ [][Next]_vars

-------------------------------------------------------------------------------
(* Properties *)

\* An administrator is always left, although two requests may both count two
\* administrators before each removes one of them: the protection of the
\* default administrator is what decides.
AdminRemains == \E i \in Ids : CanManageUsers(i)
===============================================================================
