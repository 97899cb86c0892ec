------------------------------ MODULE RateLimiter ------------------------------
(***************************************************************************)
(* One RateLimiter of the router, as apiLimiter: it counts the requests of *)
(* each address in windows of time, and its mutex is held from the test of *)
(* the limit until the handler behind it has returned, so a handler that   *)
(* streams holds it for as long as the stream is open.                     *)
(***************************************************************************)
EXTENDS Integers, Sequences

CONSTANTS Requests,  \* requests that may come
          IPs,       \* the values of c.ClientIP()
          Kinds,     \* of the handlers behind the limiter: "short", "stream"
          Limit,     \* requestsPerWindow
          Window,    \* in ticks
          MaxTime    \* bound: ticks that are modelled

ASSUME LimiterAssumption == /\ Kinds \subseteq {"short", "stream"}
                            /\ Limit \in Nat \ {0}
                            /\ Window \in Nat \ {0}
                            /\ MaxTime \in Nat

VARIABLES
  now,      \* time.Now()
  entry,    \* entry[ip]: requests[ip] of the code
  holder,   \* the requests that hold rl.mu
  sweep,    \* has the cleanup ticker fired
  pc,       \* pc[r]: where request r is
  from,     \* from[r]: its address
  kind,     \* kind[r]: its handler
  refusal,  \* refusal[r]: when it was refused
  log       \* log[ip]: when requests of ip were admitted (for the properties)

vars == <<now, entry, holder, sweep, pc, from, kind, refusal, log>>

NoEntry == [count |-> 0, reset |-> 0]
Entry == [count : 1..Limit, reset : Nat]

TypeOK ==
  /\ now \in Nat
  /\ entry \in [IPs -> Entry \cup {NoEntry}]
  /\ holder \subseteq Requests
  /\ sweep \in BOOLEAN
  /\ pc \in [Requests -> {"idle", "waiting", "serving", "done", "refused"}]
  /\ from \in [Requests -> IPs]
  /\ kind \in [Requests -> {"short", "stream"}]
  /\ refusal \in [Requests -> Nat]
  /\ log \in [IPs -> Seq(Nat)]

Init ==
  /\ now = 0
  /\ entry = [ip \in IPs |-> NoEntry]
  /\ holder = {}
  /\ sweep = FALSE
  /\ pc = [r \in Requests |-> "idle"]
  /\ from \in [Requests -> IPs]
  /\ kind \in [Requests -> Kinds]
  /\ refusal = [r \in Requests |-> 0]
  /\ log = [ip \in IPs |-> <<>>]

-------------------------------------------------------------------------------
(* Middleware *)

Arrive(r) ==
  /\ pc[r] = "idle"
  /\ pc' = [pc EXCEPT ![r] = "waiting"]
  /\ UNCHANGED <<now, entry, holder, sweep, from, kind, refusal, log>>

HasLock(r) == pc[r] = "waiting" /\ holder = {}

\* Mutant of Current: a window never expires.
MutCurrentForever(ip) == entry[ip] # NoEntry

Current(ip) == entry[ip] # NoEntry /\ now <= entry[ip].reset

\* c.Next with rl.mu held
Admit(r) ==
  /\ pc' = [pc EXCEPT ![r] = "serving"]
  /\ holder' = {r}
  /\ log' = [log EXCEPT ![from[r]] = Append(@, now)]
  /\ UNCHANGED <<now, sweep, from, kind, refusal>>

OpenWindow(r) ==
  /\ HasLock(r)
  /\ ~Current(from[r])
  /\ entry' = [entry EXCEPT ![from[r]] = [count |-> 1, reset |-> now + Window]]
  /\ Admit(r)

\* Mutant of Count: the counter is not incremented.
MutCountForgotten(r) ==
  /\ HasLock(r)
  /\ Current(from[r])
  /\ entry[from[r]].count < Limit
  /\ UNCHANGED entry
  /\ Admit(r)

Count(r) ==
  /\ HasLock(r)
  /\ Current(from[r])
  /\ entry[from[r]].count < Limit
  /\ entry' = [entry EXCEPT ![from[r]].count = @ + 1]
  /\ Admit(r)

\* 429, and the deferred Unlock
Refuse(r) ==
  /\ HasLock(r)
  /\ Current(from[r])
  /\ entry[from[r]].count >= Limit
  /\ pc' = [pc EXCEPT ![r] = "refused"]
  /\ refusal' = [refusal EXCEPT ![r] = now]
  /\ UNCHANGED <<now, entry, holder, sweep, from, kind, log>>

\* The handler returns and the deferred Unlock runs.
Return(r) ==
  /\ pc[r] = "serving"
  /\ pc' = [pc EXCEPT ![r] = "done"]
  /\ holder' = holder \ {r}
  /\ UNCHANGED <<now, entry, sweep, from, kind, refusal, log>>

-------------------------------------------------------------------------------
(* cleanup, and time *)

Tick ==
  /\ now < MaxTime
  /\ now' = now + 1
  /\ sweep' = (sweep \/ now' % Window = 0)
  /\ UNCHANGED <<entry, holder, pc, from, kind, refusal, log>>

Cleanup ==
  /\ sweep
  /\ holder = {}
  /\ entry' = [ip \in IPs |-> IF now > entry[ip].reset + Window
                              THEN NoEntry ELSE entry[ip]]
  /\ sweep' = FALSE
  /\ UNCHANGED <<now, holder, pc, from, kind, refusal, log>>

-------------------------------------------------------------------------------

Middleware(r) == OpenWindow(r) \/ Count(r) \/ Refuse(r)

Next == \/ \E r \in Requests : Arrive(r) \/ Middleware(r) \/ Return(r)
        \/ Tick
        \/ Cleanup

Spec == Init /\ [][Next]_vars

\* The mutex is handed to whoever waits for it, and handlers return, all but
\* the streams: they last as long as the execution and the browser.
Fairness == \A r \in Requests :
              /\ WF_vars(Middleware(r))
              /\ WF_vars(kind[r] = "short" /\ Return(r))

FairSpec == Spec /\ Fairness

-------------------------------------------------------------------------------
(* Properties *)

\* Only one handler behind a limiter runs at a time, whatever its address.
\* What Login and the 2FA handlers read and write in several statements is
\* free of races only for that reason.
HandlersSerialised == \A r, q \in Requests :
  pc[r] = "serving" /\ pc[q] = "serving" => r = q

\* No window's length of time sees more than twice the limit: between an
\* admission and the one 2 * Limit later more than Window has passed, also
\* when the entry was swept in between.
TwoWindowBound == \A ip \in IPs : \A i, j \in DOMAIN log[ip] :
  j - i >= 2 * Limit => log[ip][j] - log[ip][i] > Window

\* An address under its limit is never refused: a refusal comes after Limit
\* admissions within the window, none of them forgotten by the sweep.
RefusedOnlyAtLimit == \A r \in Requests : pc[r] = "refused" =>
  \E i \in DOMAIN log[from[r]] :
    /\ i + Limit - 1 \in DOMAIN log[from[r]]
    /\ refusal[r] - log[from[r]][i] <= Window
    /\ log[from[r]][i + Limit - 1] <= refusal[r]

-------------------------------------------------------------------------------
(* What the documentation says and the code does not do *)

\* Every request within the limits is answered.
AlwaysAnswered == \A r \in Requests : pc[r] = "waiting" ~> pc[r] # "waiting"
===============================================================================
