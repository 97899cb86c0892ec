---------------------------- MODULE AccountsProofs ----------------------------
(***************************************************************************)
(* Invariants of Accounts, for any number of logins and requests.  All but *)
(* the last rest on logins coming one at a time (LoginsSerial).            *)
(***************************************************************************)
EXTENDS Accounts, FiniteSetTheorems, TLAPS

-------------------------------------------------------------------------------
(* Types *)

\* TypeOK as the facts the steps use
LEMMA Typed ==
  ASSUME TypeOK
  PROVE  /\ now \in Nat
         /\ account \in Account
         /\ history \in Seq(Passwords)
         /\ failed \in Seq(Nat)
         /\ sessions \subseteq Session
         /\ spent \in [Logins -> Code \cup {NoCode}]
         /\ left \in [Logins -> SUBSET Code]
         /\ req \in [Requests -> Request]
         /\ secrets \in Nat /\ sets \in Nat
BY DEF TypeOK

LEMMA PcType ==
  ASSUME TypeOK
  PROVE  \A l \in Logins :
           /\ pc[l] \in {"idle", "verify", "record", "factor", "consume",
                         "clear", "invalidate", "create", "over"}
           /\ \A p : Goto(l, p) => /\ pc'[l] = p
                                   /\ \A m \in Logins : m # l => pc'[m] = pc[m]
BY DEF TypeOK, Goto

LEMMA GotoType ==
  ASSUME TypeOK, NEW l \in Logins,
         NEW p \in {"idle", "verify", "record", "factor", "consume",
                    "clear", "invalidate", "create", "over"},
         Goto(l, p)
  PROVE  pc' \in [Logins -> {"idle", "verify", "record", "factor", "consume",
                             "clear", "invalidate", "create", "over"}]
BY DEF TypeOK, Goto

\* An account after an UPDATE of one of its columns
LEMMA AccountType ==
  ASSUME account \in Account
  PROVE  /\ account.codes \subseteq Code
         /\ TheUser \in User
         /\ \A p \in Passwords : [account EXCEPT !.password = p] \in Account
         /\ \A n \in Nat : [account EXCEPT !.secret = n] \in Account
         /\ [account EXCEPT !.enabled = TRUE] \in Account
         /\ [account EXCEPT !.enabled = FALSE, !.secret = 0] \in Account
         /\ \A C \in SUBSET Code : [account EXCEPT !.codes = C] \in Account
<1>1. PICK p \in Passwords, n \in Nat, e \in BOOLEAN, C \in SUBSET Code :
        account = [password |-> p, secret |-> n, enabled |-> e, codes |-> C]
  BY DEF Account
<1>2. TheUser \in User BY <1>1 DEF TheUser, User
<1>3. account.codes \subseteq Code BY <1>1
<1>4. ASSUME NEW x \in Passwords PROVE [account EXCEPT !.password = x] \in Account
  <2>1. [account EXCEPT !.password = x]
          = [password |-> x, secret |-> n, enabled |-> e, codes |-> C]
    BY <1>1
  <2>2. QED BY <2>1 DEF Account
<1>5. ASSUME NEW x \in Nat PROVE [account EXCEPT !.secret = x] \in Account
  <2>1. [account EXCEPT !.secret = x]
          = [password |-> p, secret |-> x, enabled |-> e, codes |-> C]
    BY <1>1
  <2>2. QED BY <2>1 DEF Account
<1>6. [account EXCEPT !.enabled = TRUE] \in Account BY DEF Account
<1>7. [account EXCEPT !.enabled = FALSE, !.secret = 0] \in Account BY DEF Account
<1>8. ASSUME NEW x \in SUBSET Code PROVE [account EXCEPT !.codes = x] \in Account
  <2>1. [account EXCEPT !.codes = x]
          = [password |-> p, secret |-> n, enabled |-> e, codes |-> x]
    BY <1>1
  <2>2. QED BY <2>1 DEF Account
<1>9. QED BY <1>2, <1>3, <1>4, <1>5, <1>6, <1>7, <1>8

RequestPcs == {"idle", "load", "generate", "enable", "store", "disable",
               "change", "check", "remember", "update"}

\* A handler that goes on or answers keeps the type of its request.
LEMMA RequestType ==
  ASSUME TypeOK, NEW q \in Requests
  PROVE  /\ req[q].user \in User
         /\ req[q].choice \in Passwords \cup {NoPassword}
         /\ Answer(q) => req' \in [Requests -> Request]
         /\ \A p \in RequestPcs : Proceed(q, p) => req' \in [Requests -> Request]
<1>1. req \in [Requests -> Request] BY DEF TypeOK
<1>2. PICK t \in RequestPcs, v \in User, c \in Passwords \cup {NoPassword} :
        req[q] = [at |-> t, user |-> v, choice |-> c]
  BY <1>1 DEF Request, RequestPcs
<1>3. Idle \in Request BY DEF Idle, Request, NoUser, User, NoPassword
<1>4. Answer(q) => req' \in [Requests -> Request]
  BY <1>1, <1>3 DEF Answer
<1>5. ASSUME NEW p \in RequestPcs PROVE [req[q] EXCEPT !.at = p] \in Request
  <2>1. [req[q] EXCEPT !.at = p] = [at |-> p, user |-> v, choice |-> c]
    BY <1>2
  <2>2. QED BY <2>1 DEF Request, RequestPcs
<1>6. \A p \in RequestPcs : Proceed(q, p) => req' \in [Requests -> Request]
  BY <1>1, <1>5 DEF Proceed
<1>7. /\ req[q].user \in User
      /\ req[q].choice \in Passwords \cup {NoPassword}
  BY <1>2
<1>8. QED BY <1>4, <1>6, <1>7

LEMMA InitType == Init => TypeOK
<1> SUFFICES ASSUME Init PROVE TypeOK
  OBVIOUS
<1>1. account \in Account
  <2>1. PICK p \in Passwords :
          account = [password |-> p, secret |-> 0, enabled |-> FALSE, codes |-> {}]
    BY DEF Init
  <2>2. QED BY <2>1 DEF Account
<1>2. Idle \in Request BY DEF Idle, Request, NoUser, User, NoPassword
<1>3. QED BY <1>1, <1>2 DEF Init, TypeOK

\* The requests with a session and the administrator leave the logins alone, and
\* only SetBackupCodes and Reset change what the invariants below speak of.
LEMMA HandleQuiet ==
  ASSUME NEW q \in Requests, Handle(q)
  PROVE  UNCHANGED <<now, failed, sessions, loginVars, resetVars>>
<1>1. CASE Authenticate(q) BY <1>1 DEF Authenticate, tables
<1>2. ASSUME NEW h \in Handlers, LoadUser(q, h)
      PROVE  UNCHANGED <<now, failed, sessions, loginVars, resetVars>>
  BY <1>2 DEF LoadUser, tables
<1>3. CASE GenerateSecret(q) BY <1>3 DEF GenerateSecret
<1>4. CASE SetBackupCodes(q) BY <1>4 DEF SetBackupCodes
<1>5. ASSUME NEW v \in BOOLEAN, EnableTOTP(q, v)
      PROVE  UNCHANGED <<now, failed, sessions, loginVars, resetVars>>
  BY <1>5 DEF EnableTOTP
<1>6. ASSUME NEW v \in BOOLEAN, DisableTOTP(q, v)
      PROVE  UNCHANGED <<now, failed, sessions, loginVars, resetVars>>
  BY <1>6 DEF DisableTOTP
<1>7. ASSUME NEW p \in Passwords, Change(q, p)
      PROVE  UNCHANGED <<now, failed, sessions, loginVars, resetVars>>
  BY <1>7 DEF Change, tables
<1>8. CASE CheckHistory(q) BY <1>8 DEF CheckHistory, tables
<1>9. CASE Remember(q) BY <1>9 DEF Remember
<1>10. CASE UpdatePassword(q) BY <1>10 DEF UpdatePassword
<1>11. QED
  BY <1>1, <1>2, <1>3, <1>4, <1>5, <1>6, <1>7, <1>8, <1>9, <1>10 DEF Handle

LEMMA LoginType ==
  ASSUME TypeOK, NEW l \in Logins, Login(l)
  PROVE  TypeOK'
<1>0. /\ UNCHANGED <<now, history, requestVars, resetVars>>
  BY DEF Login, CheckLock, RecordFailure, WriteCodes, Clear, Invalidate, Create,
         Verify, GiveTOTP, ReadCodes, tables
<1>1. CASE CheckLock(l)
  <2>1. pc' \in [Logins -> {"idle", "verify", "record", "factor", "consume",
                            "clear", "invalidate", "create", "over"}]
    BY <1>1, GotoType DEF CheckLock
  <2>2. QED BY <2>1, <1>1 DEF CheckLock, TypeOK, tables, requestVars, resetVars
<1>2. ASSUME NEW p \in Passwords, Verify(l, p) PROVE TypeOK'
  <2>1. pc' \in [Logins -> {"idle", "verify", "record", "factor", "consume",
                            "clear", "invalidate", "create", "over"}]
    BY <1>2, GotoType DEF Verify
  <2>2. QED BY <2>1, <1>2 DEF Verify, TypeOK, tables, requestVars, resetVars
<1>3. CASE RecordFailure(l)
  <2>1. pc' \in [Logins -> {"idle", "verify", "record", "factor", "consume",
                            "clear", "invalidate", "create", "over"}]
    BY <1>3, GotoType DEF RecordFailure
  <2>2. failed' \in Seq(Nat)
    BY <1>3, Typed DEF RecordFailure
  <2>3. QED BY <2>1, <2>2, <1>3 DEF RecordFailure, TypeOK, requestVars, resetVars
<1>4. ASSUME NEW v \in BOOLEAN, GiveTOTP(l, v) PROVE TypeOK'
  <2>1. pc' \in [Logins -> {"idle", "verify", "record", "factor", "consume",
                            "clear", "invalidate", "create", "over"}]
    BY <1>4, GotoType DEF GiveTOTP
  <2>2. QED BY <2>1, <1>4 DEF GiveTOTP, TypeOK, tables, requestVars, resetVars
<1>5. ASSUME NEW b \in (1..sets) \X Codes, ReadCodes(l, b) PROVE TypeOK'
  <2>1. pc' \in [Logins -> {"idle", "verify", "record", "factor", "consume",
                            "clear", "invalidate", "create", "over"}]
    BY <1>5, GotoType DEF ReadCodes
  <2>2. account.codes \subseteq Code BY Typed, AccountType
  <2>3. /\ left' \in [Logins -> SUBSET Code]
        /\ spent' \in [Logins -> Code \cup {NoCode}]
    BY <2>2, <1>5, Typed DEF ReadCodes
  <2>4. QED BY <2>1, <2>3, <1>5 DEF ReadCodes, TypeOK, tables, requestVars, resetVars
<1>6. CASE WriteCodes(l)
  <2>1. pc' \in [Logins -> {"idle", "verify", "record", "factor", "consume",
                            "clear", "invalidate", "create", "over"}]
    BY <1>6, GotoType DEF WriteCodes
  <2>2. left[l] \in SUBSET Code BY Typed
  <2>3. account' \in Account BY <2>2, <1>6, Typed, AccountType DEF WriteCodes
  <2>4. left' \in [Logins -> SUBSET Code] BY <1>6, Typed DEF WriteCodes
  <2>5. QED BY <2>1, <2>3, <2>4, <1>6 DEF WriteCodes, TypeOK, requestVars, resetVars
<1>7. CASE Clear(l)
  <2>1. pc' \in [Logins -> {"idle", "verify", "record", "factor", "consume",
                            "clear", "invalidate", "create", "over"}]
    BY <1>7, GotoType DEF Clear
  <2>2. failed' \in Seq(Nat) BY <1>7 DEF Clear
  <2>3. QED BY <2>1, <2>2, <1>7 DEF Clear, TypeOK, requestVars, resetVars
<1>8. CASE Invalidate(l)
  <2>1. pc' \in [Logins -> {"idle", "verify", "record", "factor", "consume",
                            "clear", "invalidate", "create", "over"}]
    BY <1>8, GotoType DEF Invalidate
  <2>2. QED BY <2>1, <1>8 DEF Invalidate, TypeOK, requestVars, resetVars
<1>9. CASE Create(l)
  <2>1. pc' \in [Logins -> {"idle", "verify", "record", "factor", "consume",
                            "clear", "invalidate", "create", "over"}]
    BY <1>9, GotoType DEF Create
  <2>2. now + Duration \in Nat BY Typed, AccountsAssumption
  <2>3. sessions' \subseteq Session BY <2>2, <1>9, Typed DEF Create, Session
  <2>4. QED BY <2>1, <2>3, <1>9 DEF Create, TypeOK, requestVars, resetVars
<1>10. QED BY <1>1, <1>2, <1>3, <1>4, <1>5, <1>6, <1>7, <1>8, <1>9 DEF Login

\* ChangePassword only works with passwords it has read.
Chosen == \A q \in Requests :
  req[q].at \in {"check", "remember", "update"} =>
    /\ req[q].choice \in Passwords
    /\ req[q].user.password \in Passwords

LEMMA HandleType ==
  ASSUME TypeOK, Chosen, NEW q \in Requests, Handle(q)
  PROVE  TypeOK'
<1> USE DEF RequestPcs
<1>0. UNCHANGED <<now, failed, sessions, pc, left, spent, resetPc, outdated>>
  BY HandleQuiet DEF loginVars, resetVars
<1>1. SUFFICES /\ account' \in Account
               /\ history' \in Seq(Passwords)
               /\ req' \in [Requests -> Request]
               /\ secrets' \in Nat /\ sets' \in Nat
  BY <1>0 DEF TypeOK
<1>2. CASE Authenticate(q)
  BY <1>2, Typed, RequestType DEF Authenticate, tables
<1>3. ASSUME NEW h \in Handlers, LoadUser(q, h)
      PROVE  req' \in [Requests -> Request]
  <2>1. TheUser \in User BY Typed, AccountType
  <2>2. [at |-> h, user |-> TheUser, choice |-> NoPassword] \in Request
    BY <2>1 DEF Request, Handlers
  <2>3. QED BY <2>2, <1>3, Typed DEF LoadUser
<1>4. CASE GenerateSecret(q)
  <2>1. secrets + 1 \in Nat BY Typed
  <2>2. account' \in Account BY <2>1, <1>4, Typed, AccountType DEF GenerateSecret
  <2>3. QED BY <2>1, <2>2, <1>4, Typed, RequestType DEF GenerateSecret
<1>5. CASE SetBackupCodes(q)
  <2>1. {sets + 1} \X Codes \subseteq Code BY Typed DEF Code
  <2>2. account' \in Account BY <2>1, <1>5, Typed, AccountType DEF SetBackupCodes
  <2>3. sets' \in Nat BY <1>5, Typed DEF SetBackupCodes
  <2>4. QED BY <2>2, <2>3, <1>5, Typed, RequestType DEF SetBackupCodes
<1>6. ASSUME NEW v \in BOOLEAN, EnableTOTP(q, v)
      PROVE  account' \in Account /\ req' \in [Requests -> Request]
  BY <1>6, Typed, AccountType, RequestType DEF EnableTOTP
<1>7. ASSUME NEW v \in BOOLEAN, DisableTOTP(q, v)
      PROVE  account' \in Account /\ req' \in [Requests -> Request]
  BY <1>7, Typed, AccountType, RequestType DEF DisableTOTP
<1>8. ASSUME NEW p \in Passwords, Change(q, p)
      PROVE  req' \in [Requests -> Request]
  <2>1. TheUser \in User BY Typed, AccountType
  <2>2. [at |-> "check", user |-> TheUser, choice |-> p] \in Request
    BY <2>1 DEF Request
  <2>3. QED BY <2>2, <1>8, Typed, RequestType DEF Change
<1>9. CASE CheckHistory(q)
  BY <1>9, Typed, RequestType DEF CheckHistory, tables
<1>10. CASE Remember(q)
  <2>1. req[q].user.password \in Passwords BY <1>10 DEF Remember, Chosen
  <2> DEFINE h == Append(history, req[q].user.password)
  <2>2. h \in Seq(Passwords) /\ Len(h) # 0 BY <2>1, Typed
  <2>3. Tail(h) \in Seq(Passwords)
    <3> HIDE DEF h
    <3>1. QED BY <2>2
  <2>4. history' = (IF Len(h) > Remembered THEN Tail(h) ELSE h)
    BY <1>10 DEF Remember
  <2>5. history' \in Seq(Passwords) BY <2>2, <2>3, <2>4
  <2>6. QED BY <2>5, <1>10, Typed, RequestType DEF Remember
<1>11. CASE UpdatePassword(q)
  <2>1. req[q].choice \in Passwords BY <1>11 DEF UpdatePassword, Chosen
  <2>2. account' \in Account BY <2>1, <1>11, Typed, AccountType DEF UpdatePassword
  <2>3. QED BY <2>2, <1>11, Typed, RequestType DEF UpdatePassword
<1>12. QED
  BY <1>2, <1>3, <1>4, <1>5, <1>6, <1>7, <1>8, <1>9, <1>10, <1>11, Typed
  DEF Handle, LoadUser, EnableTOTP, DisableTOTP, Change, tables

LEMMA ChosenStep ==
  ASSUME TypeOK, Chosen, NEW q \in Requests, Handle(q)
  PROVE  Chosen'
<1> USE Typed
<1>1. ASSUME NEW p, Proceed(q, p), 
             p \in {"check", "remember", "update"} =>
               /\ req[q].choice \in Passwords
               /\ req[q].user.password \in Passwords
      PROVE  Chosen'
  <2>1. /\ req'[q].at = p /\ req'[q].choice = req[q].choice
        /\ req'[q].user = req[q].user
        /\ \A r \in Requests \ {q} : req'[r] = req[r]
    <3>1. PICK t, u, c : req[q] = [at |-> t, user |-> u, choice |-> c]
      BY DEF Request
    <3>2. [req[q] EXCEPT !.at = p] = [at |-> p, user |-> u, choice |-> c]
      BY <3>1
    <3>3. req' = [req EXCEPT ![q] = [at |-> p, user |-> u, choice |-> c]]
      BY <3>2, <1>1 DEF Proceed
    <3>4. QED BY <3>1, <3>3
  <2>2. QED BY <2>1, <1>1 DEF Chosen
<1>2. Answer(q) => Chosen'
  BY DEF Answer, Chosen, Idle
<1>3. CASE Authenticate(q) BY <1>3, <1>1 DEF Authenticate
<1>4. ASSUME NEW h \in Handlers, LoadUser(q, h) PROVE Chosen'
  <2>1. req'[q].at = h /\ \A r \in Requests \ {q} : req'[r] = req[r]
    BY <1>4 DEF LoadUser
  <2>2. QED BY <2>1 DEF Chosen, Handlers
<1>5. CASE GenerateSecret(q) BY <1>5, <1>2 DEF GenerateSecret
<1>6. CASE SetBackupCodes(q) BY <1>6, <1>2 DEF SetBackupCodes
<1>7. ASSUME NEW v \in BOOLEAN, EnableTOTP(q, v) PROVE Chosen'
  BY <1>7, <1>1, <1>2 DEF EnableTOTP
<1>8. ASSUME NEW v \in BOOLEAN, DisableTOTP(q, v) PROVE Chosen'
  BY <1>8, <1>2 DEF DisableTOTP
<1>9. ASSUME NEW p \in Passwords, Change(q, p) PROVE Chosen'
  <2>1. TheUser.password \in Passwords
    BY DEF TheUser, Account
  <2>2. CASE req' = [req EXCEPT ![q] = [at |-> "check", user |-> TheUser,
                                        choice |-> p]]
    <3>1. req'[q] = [at |-> "check", user |-> TheUser, choice |-> p]
      BY <2>2
    <3>2. req'[q].choice \in Passwords /\ req'[q].user.password \in Passwords
      BY <3>1, <2>1
    <3>3. \A r \in Requests \ {q} : req'[r] = req[r] BY <2>2
    <3>4. QED BY <3>2, <3>3 DEF Chosen
  <2>3. QED BY <2>2, <1>9, <1>2 DEF Change
<1>10. CASE CheckHistory(q) BY <1>10, <1>1, <1>2 DEF CheckHistory, Chosen
<1>11. CASE Remember(q) BY <1>11, <1>1 DEF Remember, Chosen
<1>12. CASE UpdatePassword(q) BY <1>12, <1>2 DEF UpdatePassword
<1>13. QED
  BY <1>3, <1>4, <1>5, <1>6, <1>7, <1>8, <1>9, <1>10, <1>11, <1>12 DEF Handle

TypeInv == TypeOK /\ Chosen

LEMMA TypeInvariance == TypeInv /\ [Next]_vars => TypeInv'
<1> SUFFICES ASSUME TypeInv, [Next]_vars PROVE TypeInv'
  OBVIOUS
<1> USE DEF TypeInv
<1>1. ASSUME NEW l \in Logins, Login(l) PROVE TypeInv'
  <2>1. req' = req
    BY <1>1 DEF Login, CheckLock, RecordFailure, WriteCodes, Clear, Invalidate,
                Create, Verify, GiveTOTP, ReadCodes, requestVars
  <2>2. QED BY <1>1, <2>1, LoginType DEF Chosen
<1>2. ASSUME NEW q \in Requests, Handle(q) PROVE TypeInv'
  BY <1>2, HandleType, ChosenStep
<1>3. ASSUME NEW s \in sessions, EndSession(s) PROVE TypeInv'
  BY <1>3 DEF EndSession, TypeOK, Chosen, loginVars, requestVars, resetVars
<1>4. ASSUME NEW p \in Passwords, Reset(p) PROVE TypeInv'
  <2>1. account' \in Account BY <1>4, Typed, AccountType DEF Reset
  <2>2. outdated' \subseteq Logins BY <1>4 DEF Reset, TypeOK, Session
  <2>3. QED BY <2>1, <2>2, <1>4 DEF Reset, TypeOK, Chosen, loginVars, requestVars
<1>5. CASE ResetSessions
  BY <1>5 DEF ResetSessions, TypeOK, Chosen, loginVars, requestVars
<1>6. CASE Tick
  BY <1>6 DEF Tick, TypeOK, Chosen, tables, loginVars, requestVars, resetVars
<1>7. CASE UNCHANGED vars
  BY <1>7 DEF vars, TypeOK, Chosen, tables, loginVars, requestVars, resetVars
<1>8. QED BY <1>1, <1>2, <1>3, <1>4, <1>5, <1>6, <1>7 DEF Next

LEMMA TypeInvHolds == Spec => []TypeInv
<1>1. Init => TypeInv
  <2>1. Init => Chosen BY DEF Init, Chosen, Idle
  <2>2. QED BY <2>1, InitType DEF TypeInv
<1>2. QED BY <1>1, TypeInvariance, PTL DEF Spec

\* Every column, attempt, session and copy held by a handler has its type.
THEOREM TypeCorrect == Spec => []TypeOK
<1>1. TypeInv => TypeOK BY DEF TypeInv
<1>2. QED BY <1>1, TypeInvHolds, PTL

-------------------------------------------------------------------------------
(* Logins one at a time *)

Running(l) == pc[l] \notin {"idle", "over"}
LoginsSerial == \A l, m \in Logins : Running(l) /\ Running(m) => l = m

\* A login that makes a step is the only one that runs, then and afterwards.
LEMMA LoginAlone ==
  ASSUME TypeOK, LoginsSerial, NEW l \in Logins, Login(l)
  PROVE  /\ pc[l] # "over"
         /\ \A m \in Logins \ {l} : pc'[m] = pc[m] /\ ~Running(m)
<1>1. pc[l] # "over" /\ \E p : Goto(l, p)
  BY DEF Login, CheckLock, RecordFailure, WriteCodes, Clear, Invalidate, Create,
         Verify, GiveTOTP, ReadCodes
<1>2. \A m \in Logins \ {l} : pc'[m] = pc[m]
  BY <1>1, PcType
<1>3. ASSUME NEW m \in Logins \ {l} PROVE ~Running(m)
  <2>1. CASE CheckLock(l) BY <2>1 DEF CheckLock, Serial, Running
  <2>2. CASE ~CheckLock(l)
    <3>1. Running(l)
      BY <2>2 DEF Login, RecordFailure, WriteCodes, Clear, Invalidate, Create,
                  Verify, GiveTOTP, ReadCodes, Running
    <3>2. QED BY <3>1 DEF LoginsSerial
  <2>3. QED BY <2>1, <2>2
<1>4. QED BY <1>1, <1>2, <1>3

\* Steps of requests, of the administrator and of the clock
LEMMA OthersQuiet ==
  ASSUME [Next]_vars, ~\E l \in Logins : Login(l)
  PROVE  pc' = pc /\ left' = left /\ spent' = spent /\ failed' = failed
BY HandleQuiet
DEF Next, EndSession, Reset, ResetSessions, Tick, vars, tables, loginVars

LEMMA SerialStep ==
  ASSUME TypeOK, LoginsSerial, [Next]_vars
  PROVE  LoginsSerial'
<1>1. ASSUME NEW l \in Logins, Login(l) PROVE LoginsSerial'
  BY <1>1, LoginAlone DEF LoginsSerial, Running
<1>2. CASE ~\E l \in Logins : Login(l)
  BY <1>2, OthersQuiet DEF LoginsSerial, Running
<1>3. QED BY <1>1, <1>2

-------------------------------------------------------------------------------
(* Sessions *)

\* Before Create there is no session; the login of a session is over, and so is
\* that of a session which was there when the password was reset.
SessionInv ==
  /\ LoginsSerial
  /\ \A l \in Logins : pc[l] = "create" => sessions = {}
  /\ \A s \in sessions : pc[s.of] = "over"
  /\ \A l \in outdated : pc[l] = "over"
  /\ OneSession
  /\ ResetEndsSessions

LEMMA SessionStep ==
  ASSUME TypeInv, SessionInv, [Next]_vars
  PROVE  SessionInv'
<1> USE DEF TypeInv
<1>1. LoginsSerial' BY SerialStep DEF SessionInv
<1>a. \A s \in sessions : s.of \in Logins BY Typed DEF Session
<1>b. outdated \subseteq Logins BY DEF TypeOK
<1>2. ASSUME NEW l \in Logins, Login(l) PROVE SessionInv'
  <2>1. /\ pc[l] # "over"
        /\ \A m \in Logins \ {l} : pc'[m] = pc[m] /\ ~Running(m)
    BY <1>2, LoginAlone DEF SessionInv
  <2>2. \A m \in Logins \ {l} : pc'[m] # "create"
    BY <2>1 DEF Running
  <2>3. /\ UNCHANGED <<outdated, resetPc>>
        /\ \A m \in outdated : pc'[m] = "over"
    <3>1. UNCHANGED <<outdated, resetPc>>
      BY <1>2 DEF Login, CheckLock, RecordFailure, WriteCodes, Clear, Invalidate,
                  Create, Verify, GiveTOTP, ReadCodes, resetVars
    <3>2. QED BY <3>1, <2>1, <1>b DEF SessionInv
  <2>4. CASE Create(l)
    <3>1. /\ sessions' = {[of |-> l, expires |-> now + Duration]}
          /\ pc'[l] = "over"
      BY <2>4, PcType DEF Create, SessionInv
    <3>2. l \notin outdated BY <2>1 DEF SessionInv
    <3>3. QED
      BY <3>1, <3>2, <2>2, <2>3, <1>1 DEF SessionInv, OneSession, ResetEndsSessions
  <2>5. CASE Invalidate(l)
    BY <2>5, <2>2, <2>3, <1>1 DEF Invalidate, SessionInv, OneSession, ResetEndsSessions
  <2>6. CASE ~Create(l) /\ ~Invalidate(l)
    <3>1. sessions' = sessions /\ pc'[l] # "create"
      BY <1>2, <2>6, PcType
      DEF Login, CheckLock, RecordFailure, WriteCodes, Clear, Verify, GiveTOTP,
          ReadCodes, tables
    <3>2. \A s \in sessions : pc'[s.of] = "over"
      BY <2>1, <1>a DEF SessionInv
    <3>3. QED
      BY <3>1, <3>2, <2>2, <2>3, <1>1 DEF SessionInv, OneSession, ResetEndsSessions
  <2>7. QED BY <2>4, <2>5, <2>6
<1>3. CASE ~\E l \in Logins : Login(l)
  <2>1. pc' = pc BY <1>3, OthersQuiet
  <2>2. CASE \E p \in Passwords : Reset(p)
    <3>1. /\ sessions' = sessions /\ resetPc' = "invalidate"
          /\ outdated' = outdated \cup {s.of : s \in sessions}
      BY <2>2 DEF Reset
    <3>2. QED
      BY <3>1, <2>1, <1>1 DEF SessionInv, OneSession, ResetEndsSessions
  <2>3. CASE ResetSessions
    BY <2>3, <2>1, <1>1 DEF ResetSessions, SessionInv, OneSession, ResetEndsSessions
  <2>4. CASE /\ ~\E p \in Passwords : Reset(p)
             /\ ~ResetSessions
    <3>1. UNCHANGED <<outdated, resetPc>> /\ sessions' \subseteq sessions
      BY <1>3, <2>4, HandleQuiet
      DEF Next, EndSession, Tick, vars, tables, resetVars
    <3>2. QED
      BY <3>1, <2>1, <1>1 DEF SessionInv, OneSession, ResetEndsSessions
  <2>5. QED BY <2>2, <2>3, <2>4
<1>4. QED BY <1>2, <1>3

LEMMA SessionInvHolds == Spec => []SessionInv
<1>1. Init => SessionInv
  BY DEF Init, SessionInv, LoginsSerial, Running, OneSession, ResetEndsSessions
<1>2. QED BY <1>1, SessionStep, TypeInvHolds, PTL DEF Spec

\* The DELETE and the INSERT of Login leave one session, because logins come one
\* at a time.
THEOREM AtMostOneSession == Spec => []OneSession
<1>1. SessionInv => OneSession BY DEF SessionInv
<1>2. QED BY <1>1, SessionInvHolds, PTL

\* After an administrator's reset the sessions from before are gone.
THEOREM ResetEndsThem == Spec => []ResetEndsSessions
<1>1. SessionInv => ResetEndsSessions BY DEF SessionInv
<1>2. QED BY <1>1, SessionInvHolds, PTL

-------------------------------------------------------------------------------
(* Backup codes *)

\* No code that has let a login in is in the row, but for the login that is about
\* to write the row back, nor among the codes it writes.  Sets are numbered in
\* the order they are generated, so a later one has no code of an earlier one.
CodeInv ==
  /\ LoginsSerial
  /\ \A c \in account.codes : c[1] \in 1..sets
  /\ \A l \in Logins : spent[l][1] \in 0..sets
  /\ \A l \in Logins : spent[l] \in account.codes => pc[l] = "consume"
  /\ \A l \in Logins : pc[l] = "consume" =>
       /\ \A c \in left[l] : c[1] \in 1..sets
       /\ \A m \in Logins : spent[m] \notin left[l]
  /\ CodeSpentOnce

LEMMA CodeLogin ==
  ASSUME TypeInv, CodeInv, NEW l \in Logins, Login(l), LoginsSerial'
  PROVE  CodeInv'
<1> USE DEF TypeInv
<1>1. /\ pc[l] # "over"
      /\ \A m \in Logins \ {l} : pc'[m] = pc[m] /\ pc[m] # "consume"
  BY LoginAlone DEF CodeInv, Running
<1>2. sets' = sets
  BY DEF Login, CheckLock, RecordFailure, WriteCodes, Clear, Invalidate, Create,
         Verify, GiveTOTP, ReadCodes, requestVars
<1>3. ASSUME NEW b \in (1..sets) \X Codes, ReadCodes(l, b), b \in account.codes
      PROVE  CodeInv'
  <2>1. /\ pc'[l] = "consume" /\ pc[l] = "factor"
        /\ account' = account
        /\ left'[l] = account.codes \ {b}
        /\ spent'[l] = b /\ \A m \in Logins \ {l} : spent'[m] = spent[m]
    BY <1>3, PcType, Typed DEF ReadCodes, tables
  <2>2. \A m \in Logins \ {l} : spent[m] \notin account.codes
    BY <1>1 DEF CodeInv
  <2>3. CodeSpentOnce'
    <3>1. \A m \in Logins \ {l} : spent'[m] # b BY <2>1, <2>2, <1>3
    <3>2. QED BY <3>1, <2>1 DEF CodeInv, CodeSpentOnce
  <2>4. b[1] \in 1..sets BY <1>3
  <2>5. \A m \in Logins : spent'[m][1] \in 0..sets
    BY <2>1, <2>4, Typed DEF CodeInv
  <2>6. /\ \A c \in left'[l] : c[1] \in 1..sets
        /\ \A m \in Logins : spent'[m] \notin left'[l]
    BY <2>1, <2>2 DEF CodeInv
  <2>7. \A m \in Logins : spent'[m] \in account'.codes => pc'[m] = "consume"
    BY <2>1, <2>2
  <2>8. QED BY <1>1, <1>2, <2>1, <2>3, <2>5, <2>6, <2>7 DEF CodeInv
<1>4. CASE WriteCodes(l)
  <2>1. /\ pc'[l] = "clear" /\ pc[l] = "consume" /\ spent' = spent
        /\ account'.codes = left[l]
    <3>1. PICK p, n, e, C :
            account = [password |-> p, secret |-> n, enabled |-> e, codes |-> C]
      BY Typed DEF Account
    <3>2. account'.codes = left[l] BY <3>1, <1>4 DEF WriteCodes
    <3>3. QED BY <3>2, <1>4, PcType DEF WriteCodes
  <2>2. QED BY <2>1, <1>1, <1>2 DEF CodeInv, CodeSpentOnce
<1>5. CASE ~WriteCodes(l) /\ ~\E b \in (1..sets) \X Codes :
                                ReadCodes(l, b) /\ b \in account.codes
  <2>1. /\ pc'[l] # "consume" /\ pc[l] # "consume"
        /\ account' = account /\ spent' = spent
    BY <1>5, PcType
    DEF Login, CheckLock, RecordFailure, Clear, Invalidate, Create,
        Verify, GiveTOTP, ReadCodes, tables
  <2>2. QED BY <2>1, <1>1, <1>2 DEF CodeInv, CodeSpentOnce
<1>6. QED BY <1>3, <1>4, <1>5

LEMMA CodeStep ==
  ASSUME TypeInv, CodeInv, [Next]_vars
  PROVE  CodeInv'
<1> USE DEF TypeInv
<1>1. LoginsSerial' BY SerialStep DEF CodeInv
<1>2. CASE \E l \in Logins : Login(l) BY <1>1, <1>2, CodeLogin
<1>3. CASE ~\E l \in Logins : Login(l)
  <2>1. pc' = pc /\ left' = left /\ spent' = spent
    BY <1>3, OthersQuiet
  <2>2. PICK p, n, e, C :
          account = [password |-> p, secret |-> n, enabled |-> e, codes |-> C]
    BY Typed DEF Account
  <2>3. CASE \E q \in Requests : SetBackupCodes(q)
    <3>1. sets' = sets + 1 /\ account'.codes = {sets + 1} \X Codes
      BY <2>2, <2>3 DEF SetBackupCodes
    <3>2. \A c \in account'.codes : c[1] = sets + 1
      BY <3>1
    <3>3. \A m \in Logins : spent[m] \notin account'.codes
      BY <3>2, Typed DEF CodeInv
    <3>4. 1..sets \subseteq 1..sets' /\ 0..sets \subseteq 0..sets'
          /\ sets + 1 \in 1..sets'
      BY <3>1, Typed
    <3>5. /\ \A c \in account'.codes : c[1] \in 1..sets'
          /\ \A l \in Logins : spent[l][1] \in 0..sets'
      BY <3>2, <3>4 DEF CodeInv
    <3>6. \A l \in Logins : pc[l] = "consume" =>
             \A c \in left[l] : c[1] \in 1..sets'
      BY <3>4 DEF CodeInv
    <3>7. QED BY <2>1, <3>3, <3>5, <3>6, <1>1 DEF CodeInv, CodeSpentOnce
  <2>4. CASE ~\E q \in Requests : SetBackupCodes(q)
    <3>1. sets' = sets
      BY <1>3, <2>4
      DEF Next, Handle, Authenticate, LoadUser, GenerateSecret, EnableTOTP,
          DisableTOTP, Change, CheckHistory, Remember, UpdatePassword,
          EndSession, Reset, ResetSessions, Tick, vars, requestVars
    <3>2. account'.codes = account.codes
      <4>1. ASSUME NEW q \in Requests, Handle(q)
            PROVE  account'.codes = account.codes
        BY <4>1, <2>4, <2>2
        DEF Handle, Authenticate, LoadUser, GenerateSecret, EnableTOTP,
            DisableTOTP, Change, CheckHistory, Remember, UpdatePassword, tables
      <4>2. ASSUME NEW x \in Passwords, Reset(x)
            PROVE  account'.codes = account.codes
        BY <4>2, <2>2 DEF Reset
      <4>3. QED
        BY <1>3, <4>1, <4>2 DEF Next, EndSession, ResetSessions, Tick, vars, tables
    <3>3. QED BY <2>1, <3>1, <3>2, <1>1 DEF CodeInv, CodeSpentOnce
  <2>5. QED BY <2>3, <2>4
<1>4. QED BY <1>2, <1>3

\* A backup code lets one login in.
THEOREM CodesSpentOnce == Spec => []CodeSpentOnce
<1>1. Init => CodeInv
  <2>1. Init => account.codes = {} /\ sets = 0
                /\ \A l \in Logins : spent[l] = NoCode /\ pc[l] = "idle"
    BY DEF Init
  <2>2. QED BY <2>1 DEF CodeInv, LoginsSerial, Running, CodeSpentOnce, NoCode
<1>2. CodeInv => CodeSpentOnce BY DEF CodeInv
<1>3. QED BY <1>1, <1>2, CodeStep, TypeInvHolds, PTL DEF Spec

-------------------------------------------------------------------------------
(* Failures *)

\* A login that was not locked out finds its MaxAttempts-th last failure a
\* lockout ago, until it records one of its own.
Unlocked ==
  Len(failed) >= MaxAttempts =>
    failed[Len(failed) - MaxAttempts + 1] + Lockout <= now

FailureInv ==
  /\ LoginsSerial
  /\ \A i, j \in DOMAIN failed : i <= j => failed[i] <= failed[j]
  /\ \A i \in DOMAIN failed : failed[i] <= now
  /\ Zone <= 0 => \A l \in Logins : pc[l] \in {"verify", "record"} => Unlocked
  /\ FailuresSpaced

LEMMA CheckLockUnlocks ==
  ASSUME TypeOK, FailureInv, Zone <= 0, ~Locked
  PROVE  Unlocked
<1> DEFINE n == Len(failed)
           k == n - MaxAttempts + 1
<1>1. /\ failed \in Seq(Nat) /\ now \in Nat /\ n \in Nat
      /\ MaxAttempts \in Nat \ {0} /\ Lockout \in Nat \ {0} /\ Zone \in Int
  BY Typed, AccountsAssumption
<1> SUFFICES ASSUME n >= MaxAttempts, ~(failed[k] + Lockout <= now)
             PROVE  FALSE
  BY DEF Unlocked
<1>2. k \in DOMAIN failed /\ n \in DOMAIN failed /\ k <= n /\ k \in Int
  BY <1>1
<1>3. failed[k] \in Nat /\ failed[n] \in Nat
  BY <1>1, <1>2
<1>a. failed[k] + Lockout > now
  BY <1>1, <1>3
<1>b. failed[k] > now + Zone - Lockout
  BY <1>1, <1>3, <1>a
<1>4. k..n \subseteq Recent
  <2>1. SUFFICES ASSUME NEW i \in k..n PROVE i \in Recent
    OBVIOUS
  <2>2. i \in DOMAIN failed /\ k <= i BY <1>1
  <2>3. failed[i] \in Nat /\ failed[k] <= failed[i]
    BY <1>1, <1>2, <2>2 DEF FailureInv
  <2>4. failed[i] > now + Zone - Lockout
    <3>1. now + Zone - Lockout \in Int BY <1>1
    <3> HIDE DEF k
    <3>2. QED BY <2>3, <1>3, <1>b, <3>1
  <2>5. QED BY <2>2, <2>4 DEF Recent
<1>5. IsFiniteSet(Recent)
  <2>1. Recent \subseteq 1..n BY <1>1 DEF Recent
  <2>2. IsFiniteSet(1..n) BY <1>1, FS_Interval
  <2>3. QED BY <2>1, <2>2, FS_Subset
<1>6. Cardinality(k..n) = MaxAttempts
  <2>1. Cardinality(k..n) = n - k + 1 BY <1>1, <1>2, FS_Interval
  <2>2. QED BY <2>1, <1>1
<1>7. Cardinality(Recent) \in Nat /\ Cardinality(Recent) >= MaxAttempts
  <2> HIDE DEF k, n
  <2>1. Cardinality(k..n) <= Cardinality(Recent) BY <1>4, <1>5, FS_Subset
  <2>2. Cardinality(Recent) \in Nat BY <1>5, FS_CardinalityType
  <2>3. QED BY <2>1, <2>2, <1>1, <1>6
<1>8. failed[n] + Lockout > now
  <2>1. failed[k] <= failed[n] BY <1>2 DEF FailureInv
  <2>2. QED BY <2>1, <1>1, <1>3
<1>9. QED BY <1>7, <1>8 DEF Locked

LEMMA RecordSpaced ==
  ASSUME TypeOK, FailureInv, NEW l \in Logins, RecordFailure(l)
  PROVE  /\ \A i, j \in DOMAIN failed' : i <= j => failed'[i] <= failed'[j]
         /\ \A i \in DOMAIN failed' : failed'[i] <= now
         /\ FailuresSpaced'
<1> DEFINE n == Len(failed)
<1>1. /\ failed \in Seq(Nat) /\ now \in Nat /\ n \in Nat
      /\ MaxAttempts \in Nat \ {0} /\ Lockout \in Nat \ {0} /\ Zone \in Int
  BY Typed, AccountsAssumption
<1>2. failed' = Append(failed, now) /\ pc[l] = "record"
  BY DEF RecordFailure
<1>3. /\ DOMAIN failed = 1..n /\ DOMAIN failed' = 1..(n + 1)
      /\ \A i \in 1..n : failed'[i] = failed[i] /\ failed[i] \in Nat
      /\ failed'[n + 1] = now
  BY <1>1, <1>2
<1>4. \A i \in 1..(n + 1) : i \in 1..n \/ i = n + 1
  BY <1>1
<1>5. \A i \in 1..n : failed[i] <= now
  BY <1>3 DEF FailureInv
<1>6. \A i \in DOMAIN failed' : failed'[i] <= now
  BY <1>1, <1>3, <1>4, <1>5
<1>7. ASSUME NEW i \in DOMAIN failed', NEW j \in DOMAIN failed', i <= j
      PROVE  failed'[i] <= failed'[j]
  <2>1. CASE j = n + 1 BY <2>1, <1>3, <1>6
  <2>2. CASE j \in 1..n
    <3>1. i \in 1..n BY <2>2, <1>1, <1>3, <1>7
    <3>2. QED BY <3>1, <2>2, <1>3, <1>7 DEF FailureInv
  <2>3. QED BY <2>1, <2>2, <1>3, <1>4
<1>8. ASSUME Zone <= 0, NEW i \in DOMAIN failed', i + MaxAttempts \in DOMAIN failed'
      PROVE  failed'[i + MaxAttempts] - failed'[i] >= Lockout
  <2>1. i \in 1..n BY <1>1, <1>3, <1>8
  <2>2. CASE i + MaxAttempts \in 1..n
    BY <2>1, <2>2, <1>3, <1>8 DEF FailureInv, FailuresSpaced
  <2>3. CASE i + MaxAttempts = n + 1
    <3>1. Unlocked BY <1>2, <1>8 DEF FailureInv
    <3>2. i = n - MaxAttempts + 1 /\ n >= MaxAttempts BY <2>1, <2>3, <1>1
    <3>3. failed[i] + Lockout <= now BY <3>1, <3>2 DEF Unlocked
    <3>4. failed'[i + MaxAttempts] = now /\ failed'[i] = failed[i] /\ failed[i] \in Nat
      BY <2>1, <2>3, <1>3
    <3>5. QED BY <3>3, <3>4, <1>1
  <2>4. QED BY <2>2, <2>3, <1>3, <1>4, <1>8
<1>9. FailuresSpaced'
  BY <1>8 DEF FailuresSpaced
<1>10. QED BY <1>6, <1>7, <1>9

LEMMA FailureStep ==
  ASSUME TypeInv, FailureInv, [Next]_vars
  PROVE  FailureInv'
<1> USE DEF TypeInv
<1>1. LoginsSerial' BY SerialStep DEF FailureInv
<1>2. ASSUME NEW l \in Logins, Login(l) PROVE FailureInv'
  <2>1. \A m \in Logins \ {l} : pc'[m] \notin {"verify", "record"}
    BY <1>2, LoginAlone DEF FailureInv, Running
  <2>2. now' = now
    BY <1>2 DEF Login, CheckLock, RecordFailure, WriteCodes, Clear, Invalidate,
                Create, Verify, GiveTOTP, ReadCodes
  <2>3. CASE RecordFailure(l)
    <3>1. pc'[l] = "over" BY <2>3, PcType DEF RecordFailure
    <3>2. QED
      BY <3>1, <2>1, <2>2, <2>3, <1>1, RecordSpaced DEF FailureInv
  <2>4. CASE Clear(l)
    <3>1. failed' = <<>> /\ pc'[l] = "invalidate" BY <2>4, PcType DEF Clear
    <3>2. DOMAIN failed' = {} BY <3>1
    <3>3. QED BY <3>1, <3>2, <2>1, <1>1 DEF FailureInv, FailuresSpaced
  <2>5. CASE ~RecordFailure(l) /\ ~Clear(l)
    <3>1. failed' = failed
      BY <1>2, <2>5 DEF Login, CheckLock, WriteCodes, Invalidate, Create, Verify,
                        GiveTOTP, ReadCodes, tables
    <3>2. Zone <= 0 /\ pc'[l] \in {"verify", "record"} => Unlocked
      <4>1. CASE CheckLock(l)
        BY <4>1, PcType, CheckLockUnlocks DEF CheckLock
      <4>2. CASE \E p \in Passwords : Verify(l, p)
        BY <4>2 DEF Verify, FailureInv
      <4>3. CASE ~CheckLock(l) /\ ~\E p \in Passwords : Verify(l, p)
        BY <1>2, <2>5, <4>3, PcType
        DEF Login, WriteCodes, Invalidate, Create, GiveTOTP, ReadCodes
      <4>4. QED BY <4>1, <4>2, <4>3
    <3>3. Unlocked' <=> Unlocked BY <3>1, <2>2 DEF Unlocked
    <3>4. QED BY <3>1, <3>2, <3>3, <2>1, <2>2, <1>1 DEF FailureInv, FailuresSpaced
  <2>6. QED BY <2>3, <2>4, <2>5
<1>3. CASE ~\E l \in Logins : Login(l)
  <2>1. pc' = pc /\ failed' = failed BY <1>3, OthersQuiet
  <2>2. now' = now \/ now' = now + 1
    BY <1>3, HandleQuiet DEF Next, EndSession, Reset, ResetSessions, Tick, vars
  <2>3. now \in Nat /\ now' \in Nat /\ now <= now' BY <2>2, Typed
  <2>4. failed \in Seq(Nat) /\ Len(failed) \in Nat
        /\ MaxAttempts \in Nat \ {0} /\ Lockout \in Nat
    BY Typed, AccountsAssumption
  <2>5. \A i \in DOMAIN failed : failed[i] <= now'
    BY <2>3, <2>4 DEF FailureInv
  <2>6. Unlocked => Unlocked'
    <3>1. SUFFICES ASSUME Unlocked, Len(failed) >= MaxAttempts
                   PROVE  failed[Len(failed) - MaxAttempts + 1] + Lockout <= now'
      BY <2>1 DEF Unlocked
    <3>2. Len(failed) - MaxAttempts + 1 \in DOMAIN failed
      BY <2>4, <3>1
    <3>3. failed[Len(failed) - MaxAttempts + 1] \in Nat
      BY <3>2, <2>4
    <3>4. QED BY <3>1, <3>3, <2>3, <2>4 DEF Unlocked
  <2>7. QED BY <2>1, <2>5, <2>6, <1>1 DEF FailureInv, FailuresSpaced
<1>4. QED BY <1>2, <1>3

\* Among any MaxAttempts + 1 failures in a row a whole lockout passes, however
\* many requests guess.
THEOREM FailuresAreSpaced == Spec => []FailuresSpaced
<1>1. Init => FailureInv
  <2>1. Init => failed = <<>> /\ \A l \in Logins : pc[l] = "idle"
    BY DEF Init
  <2>2. QED BY <2>1 DEF FailureInv, LoginsSerial, Running, FailuresSpaced
<1>2. FailureInv => FailuresSpaced BY DEF FailureInv
<1>3. QED BY <1>1, <1>2, FailureStep, TypeInvHolds, PTL DEF Spec
===============================================================================
