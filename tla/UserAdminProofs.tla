---------------------------- MODULE UserAdminProofs ----------------------------
(***************************************************************************)
(* An administrator always remains.  The counts of CountAdminUsers play no *)
(* part in the proof: what is needed is that no request that has passed    *)
(* its checks can harm the row of the default administrator.               *)
(***************************************************************************)
EXTENDS UserAdmin, TLAPS

Root == [name |-> DefaultAdmin, role |-> "admin"]

\* d is the default administrator, and no request past its checks removes it.
Safe(d) == /\ users[d] = Root
           /\ \A q \in Requests :
                req[q].at \in {"count", "write"} /\ req[q].id = d =>
                  req[q].kind = "update" /\ req[q].row = Root

AdminInv == TypeOK /\ \E d \in Ids : Safe(d)

LEMMA RootIsAdmin ==
  /\ Root \in Row
  /\ Root # NeverUsed /\ Root # Deleted
  /\ NeverUsed \notin Row /\ Deleted \notin Row
<1>1. Root \in Row
  BY UserAdminAssumption DEF Root, Row, Roles
<1>2. NeverUsed.role \notin Roles /\ Deleted.role \notin Roles
  BY DEF NeverUsed, Deleted, Roles
<1>3. \A r \in Row : r.role \in Roles
  BY DEF Row
<1>4. QED BY <1>1, <1>2, <1>3

\* The default administrator keeps the permission, and its name is taken.
LEMMA RootCounts ==
  ASSUME NEW d \in Ids, users[d] = Root
  PROVE  d \in Present /\ CanManageUsers(d) /\ Taken(DefaultAdmin)
<1>1. d \in Present BY RootIsAdmin DEF Present
<1>2. QED BY <1>1 DEF CanManageUsers, Taken, Root

LEMMA TypeStep == TypeOK /\ [Next]_vars => TypeOK'
<1> SUFFICES ASSUME TypeOK, [Next]_vars PROVE TypeOK'
  OBVIOUS
<1>1. /\ users \in [Ids -> Row \cup {NeverUsed, Deleted}]
      /\ req \in [Requests -> Request \cup {Idle}]
  BY DEF TypeOK
<1>a. \A q \in Requests : req[q].at # "idle" => req[q] \in Request
  BY <1>1 DEF Idle
<1>b. ASSUME NEW q \in Requests, NEW p \in {"count", "write"},
             req[q].at # "idle", Goto(q, p)
      PROVE  req' \in [Requests -> Request \cup {Idle}]
  <2>1. [req[q] EXCEPT !.at = p] \in Request
    <3>1. req[q] \in Request BY <1>a, <1>b
    <3>2. PICK k \in {"update", "delete"}, i \in Ids, r \in Row, t \in {"read", "count", "write"} :
             req[q] = [at |-> t, kind |-> k, id |-> i, row |-> r]
      BY <3>1 DEF Request
    <3>3. [req[q] EXCEPT !.at = p] = [at |-> p, kind |-> k, id |-> i, row |-> r]
      BY <3>2
    <3>4. QED BY <3>3, <1>b DEF Request
  <2>2. QED BY <2>1, <1>1, <1>b DEF Goto
<1>c. ASSUME NEW q \in Requests, Answer(q)
      PROVE  req' \in [Requests -> Request \cup {Idle}]
  BY <1>1, <1>c DEF Answer
<1>2. ASSUME NEW i \in Ids, NEW r \in Row, Create(i, r) PROVE TypeOK'
  BY <1>1, <1>2 DEF Create, Insert, TypeOK
<1>3. ASSUME NEW q \in Requests, NEW a \in Ids, NEW i \in Ids,
             NEW k \in {"update", "delete"}, NEW r \in Row, Begin(q, a, k, i, r)
      PROVE  TypeOK'
  <2>1. [at |-> "read", kind |-> k, id |-> i, row |-> r] \in Request
    BY DEF Request
  <2>2. QED BY <2>1, <1>1, <1>3 DEF Begin, TypeOK
<1>4. ASSUME NEW q \in Requests, Read(q) PROVE TypeOK'
  <2>1. req' \in [Requests -> Request \cup {Idle}]
    BY <1>b, <1>c, <1>4 DEF Read
  <2>2. QED BY <2>1, <1>1, <1>4 DEF Read, TypeOK
<1>5. ASSUME NEW q \in Requests, Count(q) PROVE TypeOK'
  <2>1. req' \in [Requests -> Request \cup {Idle}]
    BY <1>b, <1>c, <1>5 DEF Count
  <2>2. QED BY <2>1, <1>1, <1>5 DEF Count, TypeOK
<1>6. ASSUME NEW q \in Requests, UpdateUser(q) PROVE TypeOK'
  <2>1. req[q].id \in Ids /\ req[q].row \in Row
    BY <1>a, <1>6 DEF UpdateUser, Request
  <2>2. users' \in [Ids -> Row \cup {NeverUsed, Deleted}]
    BY <2>1, <1>1, <1>6 DEF UpdateUser
  <2>3. QED BY <2>2, <1>c, <1>6 DEF UpdateUser, TypeOK
<1>7. ASSUME NEW q \in Requests, DeleteUser(q) PROVE TypeOK'
  <2>1. users' \in [Ids -> Row \cup {NeverUsed, Deleted}]
    BY <1>1, <1>7 DEF DeleteUser
  <2>2. QED BY <2>1, <1>c, <1>7 DEF DeleteUser, TypeOK
<1>8. CASE Restart
  <2>1. Root \in Row BY RootIsAdmin
  <2>2. users' \in [Ids -> Row \cup {NeverUsed, Deleted}]
    BY <2>1, <1>1, <1>8 DEF Restart, Insert, Root
  <2>3. QED BY <2>2, <1>8 DEF Restart, TypeOK
<1>9. CASE UNCHANGED vars
  BY <1>1, <1>9 DEF vars, TypeOK
<1>10. QED BY <1>2, <1>3, <1>4, <1>5, <1>6, <1>7, <1>8, <1>9 DEF Next

LEMMA InitSafe == Init => AdminInv
<1> SUFFICES ASSUME Init PROVE AdminInv
  OBVIOUS
<1>1. PICK d \in Ids : users = [j \in Ids |-> IF j = d THEN Root ELSE NeverUsed]
  BY DEF Init, Root
<1>2. TypeOK
  BY <1>1, RootIsAdmin DEF Init, TypeOK
<1>3. Safe(d)
  BY <1>1 DEF Init, Safe, Idle
<1>4. QED BY <1>2, <1>3 DEF AdminInv

\* No statement of a request, and no restart, harms the default administrator.
LEMMA SafeStep ==
  ASSUME TypeOK, NEW d \in Ids, Safe(d), Next
  PROVE  Safe(d)'
<1>1. /\ users \in [Ids -> Row \cup {NeverUsed, Deleted}]
      /\ req \in [Requests -> Request \cup {Idle}]
  BY DEF TypeOK
<1>2. users[d] = Root /\ d \in Present /\ CanManageUsers(d) /\ Taken(DefaultAdmin)
  BY RootCounts DEF Safe
<1>a. ASSUME NEW q \in Requests, Answer(q), users'[d] = Root PROVE Safe(d)'
  BY <1>1, <1>a DEF Answer, Safe, Idle
<1>3. ASSUME NEW i \in Ids, NEW r \in Row, Create(i, r) PROVE Safe(d)'
  <2>1. i # d BY <1>2, <1>3, RootIsAdmin DEF Create, Insert
  <2>2. QED BY <2>1, <1>1, <1>2, <1>3 DEF Create, Insert, Safe
<1>4. ASSUME NEW q \in Requests, NEW a \in Ids, NEW i \in Ids,
             NEW k \in {"update", "delete"}, NEW r \in Row, Begin(q, a, k, i, r)
      PROVE  Safe(d)'
  BY <1>1, <1>4 DEF Begin, Safe
<1>5. ASSUME NEW q \in Requests, Read(q) PROVE Safe(d)'
  <2>1. users'[d] = Root BY <1>2, <1>5 DEF Read
  <2>2. CASE Answer(q) BY <2>1, <2>2, <1>a
  <2>3. CASE ~Forbidden(q) /\ \E p \in {"count", "write"} : Goto(q, p)
    <3>1. req[q] \in Request BY <1>1, <1>5 DEF Read, Idle
    <3>2. req[q].id = d => req[q].kind = "update" /\ req[q].row = Root
      BY <3>1, <2>3, <1>2 DEF Forbidden, Root, Request
    <3>3. \A o \in Requests : /\ o # q => req'[o] = req[o]
                              /\ req'[q].id = req[q].id
                              /\ req'[q].kind = req[q].kind
                              /\ req'[q].row = req[q].row
      BY <1>1, <2>3, <3>1 DEF Goto, Request
    <3>4. QED BY <2>1, <3>2, <3>3 DEF Safe
  <2>4. QED BY <2>2, <2>3, <1>5 DEF Read
<1>6. ASSUME NEW q \in Requests, Count(q) PROVE Safe(d)'
  <2>1. users'[d] = Root BY <1>2, <1>6 DEF Count
  <2>2. CASE Answer(q) BY <2>1, <2>2, <1>a
  <2>3. CASE Goto(q, "write")
    <3>1. req[q] \in Request BY <1>1, <1>6 DEF Count, Idle
    <3>2. \A o \in Requests : /\ o # q => req'[o] = req[o]
                              /\ req'[q].id = req[q].id
                              /\ req'[q].kind = req[q].kind
                              /\ req'[q].row = req[q].row
      BY <1>1, <2>3, <3>1 DEF Goto, Request
    <3>3. QED BY <2>1, <3>2, <1>6 DEF Count, Safe
  <2>4. QED BY <2>2, <2>3, <1>6 DEF Count
<1>7. ASSUME NEW q \in Requests, UpdateUser(q) PROVE Safe(d)'
  <2>1. req[q].id = d => req[q].row = Root
    BY <1>7 DEF UpdateUser, Safe
  <2>2. users'[d] = Root
    BY <2>1, <1>1, <1>2, <1>7 DEF UpdateUser
  <2>3. QED BY <2>2, <1>a, <1>7 DEF UpdateUser
<1>8. ASSUME NEW q \in Requests, DeleteUser(q) PROVE Safe(d)'
  <2>1. req[q].id # d
    BY <1>8 DEF DeleteUser, Safe
  <2>2. users'[d] = Root
    BY <2>1, <1>1, <1>2, <1>8 DEF DeleteUser
  <2>3. QED BY <2>2, <1>a, <1>8 DEF DeleteUser
<1>9. CASE Restart
  BY <1>2, <1>9 DEF Restart, Safe, Idle
<1>10. QED BY <1>3, <1>4, <1>5, <1>6, <1>7, <1>8, <1>9 DEF Next

LEMMA InvStep == AdminInv /\ [Next]_vars => AdminInv'
<1> SUFFICES ASSUME AdminInv, [Next]_vars PROVE AdminInv'
  OBVIOUS
<1>1. TypeOK' BY TypeStep DEF AdminInv
<1>2. PICK d \in Ids : Safe(d) BY DEF AdminInv
<1>3. Safe(d)'
  <2>1. CASE Next BY <2>1, <1>2, SafeStep DEF AdminInv
  <2>2. CASE UNCHANGED vars BY <2>2, <1>2 DEF vars, Safe
  <2>3. QED BY <2>1, <2>2
<1>4. QED BY <1>1, <1>3 DEF AdminInv

\* The rows and the requests keep their types.
THEOREM TypeCorrect == Spec => []TypeOK
<1>1. Init => TypeOK BY InitSafe DEF AdminInv
<1>2. QED BY <1>1, TypeStep, PTL DEF Spec

\* For any number of users and of concurrent requests an administrator is left:
\* the two-statement check of the last administrator may be passed twice, but the
\* default administrator of the configuration can be neither deleted nor demoted.
THEOREM AnAdminRemains == Spec => []AdminRemains
<1>1. AdminInv => AdminRemains
  BY RootCounts DEF AdminInv, Safe, AdminRemains
<1>2. QED BY <1>1, InitSafe, InvStep, PTL DEF Spec
===============================================================================
