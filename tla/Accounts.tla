------------------------------- MODULE Accounts -------------------------------
(***************************************************************************)
(* One account of http-remote: its row in users, its rows in sessions,     *)
(* login_attempts and password_history, the requests that log in to it,    *)
(* the requests its owner makes with a session, and the password reset of  *)
(* an administrator.                                                       *)
(*                                                                         *)
(* A step is one SQL statement, with what the handler computes before the  *)
(* next one.  A value read by one statement and used by a later one is     *)
(* kept in between, as the handlers keep it.                               *)
(***************************************************************************)
EXTENDS Integers, Sequences, FiniteSets

CONSTANTS Logins,       \* login requests, one session each
          Requests,     \* handlers of requests made with a session
          Passwords,
          Remembered,   \* PasswordHistoryLimit
          MaxAttempts,  \* max_login_attempts
          Lockout,      \* lockout_duration, in ticks
          Zone,         \* offset of the server's time zone from UTC, in ticks
          Duration,     \* session_duration, in ticks
          Codes,        \* numbers of the backup codes of one set
          MaxTime,      \* bound: ticks that are modelled
          MaxSecrets    \* bound: secrets and sets of codes that are generated

ASSUME AccountsAssumption ==
  /\ Passwords # {} /\ Logins # {}
  /\ {Remembered, MaxAttempts, Lockout, Duration} \subseteq Nat \ {0}
  /\ Zone \in Int
  /\ {MaxTime, MaxSecrets} \subseteq Nat

VARIABLES
  now,       \* time.Now(), UTC
  account,   \* the row of users; its columns that are used here
  history,   \* password_history, the oldest first
  failed,    \* login_attempts: created_at of the failures, the oldest first
  sessions,  \* sessions
  pc,        \* pc[l]: where Login is
  left,      \* left[l]: the codes ValidateBackupCode will write back
  req,       \* req[q]: where the handler of q is, the user it works with, and
             \* the new password of ChangePassword
  resetPc,   \* the administrator's UpdatePassword
  secrets,   \* secrets generated so far
  sets,      \* sets of backup codes generated so far
  spent,     \* spent[l]: the backup code l was let in with (for the properties)
  outdated   \* sessions there were when a reset changed the password (the same)

tables == <<account, history, failed, sessions>>
loginVars == <<pc, left, spent>>
requestVars == <<req, secrets, sets>>
resetVars == <<resetPc, outdated>>
vars == <<now, tables, loginVars, requestVars, resetVars>>

-------------------------------------------------------------------------------
(* Types.  A secret is known by its number, none is 0; a backup code by the  *)
(* number of its set and its own.                                            *)

Code == Nat \X Codes
NoCode == <<0, 0>>
NoPassword == "none"
Account == [password : Passwords, secret : Nat, enabled : BOOLEAN,
            codes : SUBSET Code]
User == [password : Passwords \cup {NoPassword}, secret : Nat, enabled : BOOLEAN]
NoUser == [password |-> NoPassword, secret |-> 0, enabled |-> FALSE]
Session == [of : Logins, expires : Nat]
Request == [at : {"idle", "load", "generate", "enable", "store", "disable",
                  "change", "check", "remember", "update"},
            user : User, choice : Passwords \cup {NoPassword}]
Idle == [at |-> "idle", user |-> NoUser, choice |-> NoPassword]

TypeOK ==
  /\ now \in Nat
  /\ account \in Account
  /\ history \in Seq(Passwords)
  /\ failed \in Seq(Nat)
  /\ sessions \subseteq Session
  /\ pc \in [Logins -> {"idle", "verify", "record", "factor", "consume",
                        "clear", "invalidate", "create", "over"}]
  /\ left \in [Logins -> SUBSET Code]
  /\ req \in [Requests -> Request]
  /\ resetPc \in {"idle", "invalidate"}
  /\ secrets \in Nat
  /\ sets \in Nat
  /\ spent \in [Logins -> Code \cup {NoCode}]
  /\ outdated \subseteq Logins

Init ==
  /\ now = 0
  /\ account \in [password : Passwords, secret : {0}, enabled : {FALSE},
                  codes : {{}}]
  /\ history = <<>>
  /\ failed = <<>>
  /\ sessions = {}
  /\ pc = [l \in Logins |-> "idle"]
  /\ left = [l \in Logins |-> {}]
  /\ req = [q \in Requests |-> Idle]
  /\ resetPc = "idle"
  /\ secrets = 0
  /\ sets = 0
  /\ spent = [l \in Logins |-> NoCode]
  /\ outdated = {}

-------------------------------------------------------------------------------
(* AuthHandler.Login *)

Goto(l, p) == pc' = [pc EXCEPT ![l] = p]

\* Mutant of Serial: Login without the mutex of the limiter in front of it.
MutParallel == TRUE

\* The login limiter runs one Login at a time (HandlersSerialised).
Serial == \A l \in Logins : pc[l] \in {"idle", "over"}

\* The failures of the COUNT.  created_at is UTC, and the driver writes the
\* bound of the window as text in the zone of the server: they are compared as
\* text, digit by digit.
Recent == {i \in DOMAIN failed : failed[i] > now + Zone - Lockout}

\* Mutant of Locked: one attempt more than configured.
MutLockedLate == /\ Cardinality(Recent) > MaxAttempts
                 /\ failed[Len(failed)] + Lockout > now

\* IsAccountLocked
Locked == /\ Cardinality(Recent) >= MaxAttempts
          /\ failed[Len(failed)] + Lockout > now

CheckLock(l) ==
  /\ pc[l] = "idle"
  /\ Serial
  /\ Goto(l, IF Locked THEN "over" ELSE "verify")
  /\ UNCHANGED <<now, tables, left, spent, requestVars, resetVars>>

\* VerifyCredentials reads the row and compares the hash.
Verify(l, p) ==
  /\ pc[l] = "verify"
  /\ Goto(l, IF p # account.password THEN "record"
             ELSE IF account.enabled THEN "factor" ELSE "clear")
  /\ UNCHANGED <<now, tables, left, spent, requestVars, resetVars>>

\* RecordLoginAttempt(false)
RecordFailure(l) ==
  /\ pc[l] = "record"
  /\ failed' = Append(failed, now)
  /\ Goto(l, "over")
  /\ UNCHANGED <<now, account, history, sessions, left, spent,
                 requestVars, resetVars>>

\* The second factor: none or a wrong one (no failure is recorded), or a code
\* made from the secret.
GiveTOTP(l, valid) ==
  /\ pc[l] = "factor"
  /\ Goto(l, IF valid THEN "clear" ELSE "over")
  /\ UNCHANGED <<now, tables, left, spent, requestVars, resetVars>>

\* ValidateBackupCode reads all codes again ...
ReadCodes(l, b) ==
  /\ pc[l] = "factor"
  /\ \/ /\ b \notin account.codes
        /\ Goto(l, "over")
        /\ UNCHANGED <<left, spent>>
     \/ /\ b \in account.codes
        /\ spent' = [spent EXCEPT ![l] = b]
        /\ left' = [left EXCEPT ![l] = account.codes \ {b}]
        /\ Goto(l, "consume")
  /\ UNCHANGED <<now, tables, requestVars, resetVars>>

\* Mutant of WriteCodes: the code that was used is not removed.
MutWriteCodesNot(l) ==
  /\ pc[l] = "consume"
  /\ Goto(l, "clear")
  /\ UNCHANGED <<now, tables, left, spent, requestVars, resetVars>>

\* ... and writes back all but one.
WriteCodes(l) ==
  /\ pc[l] = "consume"
  /\ account' = [account EXCEPT !.codes = left[l]]
  /\ left' = [left EXCEPT ![l] = {}]
  /\ Goto(l, "clear")
  /\ UNCHANGED <<now, history, failed, sessions, spent, requestVars,
                 resetVars>>

\* ClearLoginAttempts; the success recorded next is never counted.
Clear(l) ==
  /\ pc[l] = "clear"
  /\ failed' = <<>>
  /\ Goto(l, "invalidate")
  /\ UNCHANGED <<now, account, history, sessions, left, spent,
                 requestVars, resetVars>>

\* Mutant of Invalidate: InvalidateUserSessions is left out.
MutInvalidateNot(l) ==
  /\ pc[l] = "invalidate"
  /\ Goto(l, "create")
  /\ UNCHANGED <<now, tables, left, spent, requestVars, resetVars>>

\* InvalidateUserSessions
Invalidate(l) ==
  /\ pc[l] = "invalidate"
  /\ sessions' = {}
  /\ Goto(l, "create")
  /\ UNCHANGED <<now, account, history, failed, left, spent,
                 requestVars, resetVars>>

\* CreateSessionWithBinding
Create(l) ==
  /\ pc[l] = "create"
  /\ sessions' = sessions \cup {[of |-> l, expires |-> now + Duration]}
  /\ Goto(l, "over")
  /\ UNCHANGED <<now, account, history, failed, left, spent,
                 requestVars, resetVars>>

-------------------------------------------------------------------------------
(* Requests with a session *)

\* ValidateSessionWithBinding deletes a session that has expired or comes from
\* another browser, Logout deletes its own.
EndSession(s) ==
  /\ s \in sessions
  /\ sessions' = sessions \ {s}
  /\ UNCHANGED <<now, account, history, failed, loginVars, requestVars,
                 resetVars>>

Proceed(q, p) == req' = [req EXCEPT ![q].at = p]
Answer(q) == req' = [req EXCEPT ![q] = Idle]
TheUser == [password |-> account.password, secret |-> account.secret,
            enabled |-> account.enabled]

\* AuthRequired finds the session ...
Authenticate(q) ==
  /\ req[q].at = "idle"
  /\ \E s \in sessions : now <= s.expires
  /\ Proceed(q, "load")
  /\ UNCHANGED <<now, tables, loginVars, secrets, sets, resetVars>>

\* ... and reads the row of its user for the handler that comes next.
LoadUser(q, handler) ==
  /\ req[q].at = "load"
  /\ req' = [req EXCEPT ![q] = [at |-> handler, user |-> TheUser,
                                 choice |-> NoPassword]]
  /\ UNCHANGED <<now, tables, loginVars, secrets, sets, resetVars>>

\* The 2FA limiter runs one of these handlers at a time; only EnableTOTP has
\* two statements.
TwoFATurn == \A q \in Requests : req[q].at # "store"

\* TwoFAHandler.GenerateSecret
GenerateSecret(q) ==
  /\ req[q].at = "generate"
  /\ TwoFATurn
  /\ secrets < MaxSecrets
  /\ secrets' = secrets + 1
  /\ account' = [account EXCEPT !.secret = secrets + 1]
  /\ Answer(q)
  /\ UNCHANGED <<now, history, failed, sessions, loginVars, sets, resetVars>>

\* TwoFAHandler.EnableTOTP: the code is compared with the secret in the context,
\* the row is updated whatever its secret is now.
EnableTOTP(q, valid) ==
  /\ req[q].at = "enable"
  /\ TwoFATurn
  /\ sets < MaxSecrets
  /\ IF req[q].user.secret # 0 /\ valid
     THEN /\ account' = [account EXCEPT !.enabled = TRUE]
          /\ Proceed(q, "store")
     ELSE Answer(q) /\ UNCHANGED account
  /\ UNCHANGED <<now, history, failed, sessions, loginVars, secrets, sets,
                 resetVars>>

\* SetBackupCodes
SetBackupCodes(q) ==
  /\ req[q].at = "store"
  /\ sets' = sets + 1
  /\ account' = [account EXCEPT !.codes = {sets + 1} \X Codes]
  /\ Answer(q)
  /\ UNCHANGED <<now, history, failed, sessions, loginVars, secrets, resetVars>>

\* TwoFAHandler.DisableTOTP; the backup codes stay.
DisableTOTP(q, valid) ==
  /\ req[q].at = "disable"
  /\ TwoFATurn
  /\ account' = IF req[q].user.enabled /\ valid
                THEN [account EXCEPT !.enabled = FALSE, !.secret = 0]
                ELSE account
  /\ Answer(q)
  /\ UNCHANGED <<now, history, failed, sessions, loginVars, secrets, sets,
                 resetVars>>

\* AuthService.ChangePassword reads the row and compares the old password (given
\* rightly here, otherwise nothing happens) and the new one with it,
Change(q, p) ==
  /\ req[q].at = "change"
  /\ IF p = account.password
     THEN Answer(q)
     ELSE req' = [req EXCEPT ![q] = [at |-> "check", user |-> TheUser,
                                     choice |-> p]]
  /\ UNCHANGED <<now, tables, loginVars, secrets, sets, resetVars>>

\* then the new one with the history,
CheckHistory(q) ==
  /\ req[q].at = "check"
  /\ IF \E i \in DOMAIN history : history[i] = req[q].choice
     THEN Answer(q) ELSE Proceed(q, "remember")
  /\ UNCHANGED <<now, tables, loginVars, secrets, sets, resetVars>>

\* AddPasswordToHistory; the history is only ever read up to its limit, so the
\* statement that trims it is part of the step.
Remember(q) ==
  LET h == Append(history, req[q].user.password)
  IN /\ req[q].at = "remember"
     /\ history' = IF Len(h) > Remembered THEN Tail(h) ELSE h
     /\ Proceed(q, "update")
     /\ UNCHANGED <<now, account, failed, sessions, loginVars, secrets, sets,
                    resetVars>>

\* The sessions stay.
UpdatePassword(q) ==
  /\ req[q].at = "update"
  /\ account' = [account EXCEPT !.password = req[q].choice]
  /\ Answer(q)
  /\ UNCHANGED <<now, history, failed, sessions, loginVars, secrets, sets,
                 resetVars>>

-------------------------------------------------------------------------------
(* UserHandler.UpdatePassword, by an administrator *)

\* UpdateUserPassword; the history is not touched.
Reset(p) ==
  /\ resetPc = "idle"
  /\ account' = [account EXCEPT !.password = p]
  /\ resetPc' = "invalidate"
  /\ outdated' = outdated \cup {s.of : s \in sessions}
  /\ UNCHANGED <<now, history, failed, sessions, loginVars, requestVars>>

\* Mutant of ResetSessions: only sessions that have expired are removed.
MutResetExpired ==
  /\ resetPc = "invalidate"
  /\ sessions' = {s \in sessions : now <= s.expires}
  /\ resetPc' = "idle"
  /\ UNCHANGED <<now, account, history, failed, loginVars, requestVars,
                 outdated>>

\* InvalidateUserSessions
ResetSessions ==
  /\ resetPc = "invalidate"
  /\ sessions' = {}
  /\ resetPc' = "idle"
  /\ UNCHANGED <<now, account, history, failed, loginVars, requestVars,
                 outdated>>

-------------------------------------------------------------------------------

Tick == /\ now < MaxTime
        /\ now' = now + 1
        /\ UNCHANGED <<tables, loginVars, requestVars, resetVars>>

Handlers == {"generate", "enable", "disable", "change"}

Login(l) == \/ CheckLock(l) \/ RecordFailure(l) \/ WriteCodes(l) \/ Clear(l)
            \/ Invalidate(l) \/ Create(l)
            \/ \E p \in Passwords : Verify(l, p)
            \/ \E valid \in BOOLEAN : GiveTOTP(l, valid)
            \/ \E b \in (1..sets) \X Codes : ReadCodes(l, b)
Handle(q) == \/ Authenticate(q) \/ \E h \in Handlers : LoadUser(q, h)
             \/ GenerateSecret(q) \/ SetBackupCodes(q)
             \/ \E valid \in BOOLEAN : EnableTOTP(q, valid) \/ DisableTOTP(q, valid)
             \/ \E p \in Passwords : Change(q, p)
             \/ CheckHistory(q) \/ Remember(q) \/ UpdatePassword(q)

Next == \/ \E l \in Logins : Login(l)
        \/ \E q \in Requests : Handle(q)
        \/ \E s \in sessions : EndSession(s)
        \/ \E p \in Passwords : Reset(p)
        \/ ResetSessions
        \/ Tick

Spec == Init /\ [][Next]_vars

-------------------------------------------------------------------------------
(* Properties *)

\* A login ends every earlier session of its account: there is never more than
\* one, although Login deletes and inserts in two statements.
OneSession == \A s, t \in sessions : s = t

\* However logins interleave with the expiry of the window, of MaxAttempts + 1
\* failures in a row the last comes a whole lockout after the first.  Only where
\* the server's clock is not ahead of UTC: there the window of the COUNT begins
\* in the future of every row.
FailuresSpaced ==
  Zone <= 0 => \A i \in DOMAIN failed :
                  i + MaxAttempts \in DOMAIN failed =>
                    failed[i + MaxAttempts] - failed[i] >= Lockout

\* A backup code lets one login in, whatever is enabled, disabled and generated
\* while ValidateBackupCode holds the codes it has read.
CodeSpentOnce == \A l, m \in Logins :
  spent[l] # NoCode /\ spent[l] = spent[m] => l = m

\* After a reset no session is left that was there when the password changed.
ResetEndsSessions ==
  resetPc = "idle" => \A s \in sessions : s.of \notin outdated
===============================================================================
