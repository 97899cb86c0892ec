--------------------------- MODULE RateLimiterProofs ---------------------------
(***************************************************************************)
(* Proofs about RateLimiter for any requests, addresses, limit and window. *)
(***************************************************************************)
EXTENDS RateLimiter, TLAPS

-------------------------------------------------------------------------------
(* Type correctness *)

\* Every step keeps the types.
LEMMA TypeStep == TypeOK /\ [Next]_vars => TypeOK'
<1> SUFFICES ASSUME TypeOK, [Next]_vars PROVE TypeOK'
  OBVIOUS
<1> USE LimiterAssumption DEF TypeOK
<1>1. ASSUME NEW r \in Requests, Arrive(r) PROVE TypeOK'
  BY <1>1 DEF Arrive
<1>2. ASSUME NEW r \in Requests, Admit(r), entry' \in [IPs -> Entry \cup {NoEntry}]
      PROVE  TypeOK'
  BY <1>2 DEF Admit
<1>3. ASSUME NEW r \in Requests, OpenWindow(r) PROVE TypeOK'
  <2>1. [count |-> 1, reset |-> now + Window] \in Entry
    BY DEF Entry
  <2>2. entry' \in [IPs -> Entry \cup {NoEntry}]
    BY <1>3, <2>1 DEF OpenWindow
  <2> QED BY <1>2, <1>3, <2>2 DEF OpenWindow
<1>4. ASSUME NEW r \in Requests, Count(r) PROVE TypeOK'
  <2>1. entry[from[r]] \in Entry
    BY <1>4 DEF Count, Current
  <2>2. \A x \in Entry : x.count < Limit => [x EXCEPT !.count = @ + 1] \in Entry
    <3> SUFFICES ASSUME NEW x \in Entry, x.count < Limit
                 PROVE  [x EXCEPT !.count = @ + 1] \in Entry
      OBVIOUS
    <3>1. x.count + 1 \in 1..Limit
      BY DEF Entry
    <3> QED BY <3>1 DEF Entry
  <2>3. entry' \in [IPs -> Entry \cup {NoEntry}]
    BY <1>4, <2>1, <2>2 DEF Count
  <2> QED BY <1>2, <1>4, <2>3 DEF Count
<1>5. ASSUME NEW r \in Requests, Refuse(r) PROVE TypeOK'
  BY <1>5 DEF Refuse
<1>6. ASSUME NEW r \in Requests, Return(r) PROVE TypeOK'
  BY <1>6 DEF Return
<1>7. CASE Tick
  BY <1>7 DEF Tick
<1>8. CASE Cleanup
  BY <1>8 DEF Cleanup
<1>9. CASE UNCHANGED vars
  BY <1>9 DEF vars
<1> QED
  BY <1>1, <1>3, <1>4, <1>5, <1>6, <1>7, <1>8, <1>9 DEF Next, Middleware

\* The limiter starts empty.
LEMMA InitType == Init => TypeOK
<1> SUFFICES ASSUME Init PROVE TypeOK
  OBVIOUS
<1>1. kind \in [Requests -> {"short", "stream"}]
  BY LimiterAssumption DEF Init
<1>2. log \in [IPs -> Seq(Nat)]
  BY DEF Init
<1> QED BY <1>1, <1>2 DEF Init, TypeOK

\* Entries never count past the limit, whatever comes.
THEOREM TypeCorrect == Spec => []TypeOK
BY InitType, TypeStep, PTL DEF Spec

-------------------------------------------------------------------------------
(* One handler at a time *)

\* The handlers at work are the holders of the mutex.
LockInv == /\ \A r \in Requests : pc[r] = "serving" => r \in holder
           /\ \A r, q \in holder : r = q

\* A handler starts only when nobody holds the mutex.
LEMMA LockStep == TypeOK /\ LockInv /\ [Next]_vars => LockInv'
<1> SUFFICES ASSUME TypeOK, LockInv, [Next]_vars PROVE LockInv'
  OBVIOUS
<1>a. pc \in [Requests -> {"idle", "waiting", "serving", "done", "refused"}]
  BY DEF TypeOK
<1>1. ASSUME NEW r \in Requests, Arrive(r) PROVE LockInv'
  BY <1>1, <1>a DEF Arrive, LockInv
<1>2. ASSUME NEW r \in Requests, HasLock(r), Admit(r) PROVE LockInv'
  BY <1>2, <1>a DEF HasLock, Admit, LockInv
<1>3. ASSUME NEW r \in Requests, Refuse(r) PROVE LockInv'
  BY <1>3, <1>a DEF Refuse, LockInv
<1>4. ASSUME NEW r \in Requests, Return(r) PROVE LockInv'
  BY <1>4, <1>a DEF Return, LockInv
<1>5. CASE Tick \/ Cleanup \/ UNCHANGED vars
  BY <1>5 DEF Tick, Cleanup, vars, LockInv
<1> QED
  BY <1>1, <1>2, <1>3, <1>4, <1>5 DEF Next, Middleware, OpenWindow, Count

\* Handlers behind one limiter never overlap.
THEOREM OneHandlerAtATime == Spec => []HandlersSerialised
<1>1. Init => LockInv
  BY DEF Init, LockInv
<1>2. LockInv => HandlersSerialised
  BY DEF LockInv, HandlersSerialised
<1> QED BY <1>1, <1>2, LockStep, TypeCorrect, PTL DEF Spec

-------------------------------------------------------------------------------
(* How many are admitted *)

\* The admissions q of an address at time t, c of them in its current window,
\* which ends at z: they are in the past, those before the window are older
\* than it, and those more than Limit before it older by a whole window.
InWindow(q, t, c, z) ==
  /\ z - Window <= t
  /\ c <= Len(q)
  /\ \A i \in 1..Len(q) : q[i] <= t /\ q[i] <= z
  /\ \A i \in 1..Len(q) : i <= Len(q) - c => q[i] < z - Window
  /\ \A i \in 1..Len(q) : i <= Len(q) - c - Limit => q[i] < z - 2 * Window

\* Without an entry all admissions are older than a window.
NoWindow(q, t) == \A i \in 1..Len(q) : q[i] + Window < t

Spread(q) == \A i, j \in 1..Len(q) : j - i >= 2 * Limit => q[j] - q[i] > Window

LogOf(ip) == /\ Spread(log[ip])
             /\ IF entry[ip] = NoEntry THEN NoWindow(log[ip], now)
                ELSE InWindow(log[ip], now, entry[ip].count, entry[ip].reset)

WindowInv == TypeOK /\ \A ip \in IPs : LogOf(ip)

\* What Append does, one index at a time.
LEMMA Appended ==
  ASSUME NEW q \in Seq(Nat), NEW t \in Nat
  PROVE  /\ Len(q) \in Nat
         /\ Len(Append(q, t)) = Len(q) + 1
         /\ Append(q, t)[Len(q) + 1] = t
         /\ \A i \in 1..Len(q) : Append(q, t)[i] = q[i] /\ q[i] \in Nat
         /\ \A i \in 1..Len(Append(q, t)) : i \in 1..Len(q) \/ i = Len(q) + 1
OBVIOUS

\* Admission by a new window: the old one, if any, is over.
LEMMA OpenWindowKeeps ==
  ASSUME NEW q \in Seq(Nat), NEW t \in Nat, Spread(q),
         \/ NoWindow(q, t)
         \/ \E c \in 1..Limit, z \in Nat : t > z /\ InWindow(q, t, c, z)
  PROVE  /\ Spread(Append(q, t))
         /\ InWindow(Append(q, t), t, 1, t + Window)
<1> DEFINE n == Len(q)
           p == Append(q, t)
<1>a. Window \in Nat \ {0} /\ Limit \in Nat \ {0}
  BY LimiterAssumption
<1>b. /\ n \in Nat
      /\ Len(p) = n + 1
      /\ p[n + 1] = t
      /\ \A i \in 1..n : p[i] = q[i] /\ q[i] \in Nat
      /\ \A i \in 1..Len(p) : i \in 1..n \/ i = n + 1
  BY Appended
<1>1. \A i \in 1..n : i <= n - Limit => q[i] + Window < t
  <2>1. CASE NoWindow(q, t)
    BY <2>1 DEF NoWindow
  <2>2. ASSUME NEW c \in 1..Limit, NEW z \in Nat, t > z, InWindow(q, t, c, z)
        PROVE  \A i \in 1..n : i <= n - Limit => q[i] + Window < t
    <3> SUFFICES ASSUME NEW i \in 1..n, i <= n - Limit PROVE q[i] + Window < t
      OBVIOUS
    <3>1. i <= n - c
      BY <1>a, <1>b
    <3>2. q[i] < z - Window
      BY <2>2, <3>1 DEF InWindow
    <3> QED BY <1>a, <1>b, <2>2, <3>2
  <2> QED BY <2>1, <2>2
<1>2. \A i \in 1..n : q[i] < t
  <2>1. CASE NoWindow(q, t)
    BY <2>1, <1>a, <1>b DEF NoWindow
  <2>2. ASSUME NEW c \in 1..Limit, NEW z \in Nat, t > z, InWindow(q, t, c, z)
        PROVE  \A i \in 1..n : q[i] < t
    BY <2>2, <1>b DEF InWindow
  <2> QED BY <2>1, <2>2
<1>3. Spread(p)
  <2> SUFFICES ASSUME NEW i \in 1..Len(p), NEW j \in 1..Len(p), j - i >= 2 * Limit
               PROVE  p[j] - p[i] > Window
    BY DEF Spread
  <2>1. i \in 1..n
    BY <1>a, <1>b
  <2>2. CASE j \in 1..n
    BY <1>b, <2>1, <2>2 DEF Spread
  <2>3. CASE j = n + 1
    <3>1. i <= n - Limit
      BY <1>a, <1>b, <2>1, <2>3
    <3>2. q[i] + Window < t
      BY <1>1, <2>1, <3>1
    <3> QED BY <1>a, <1>b, <2>1, <2>3, <3>2
  <2> QED BY <1>b, <2>2, <2>3
<1>4. InWindow(p, t, 1, t + Window)
  <2> HIDE DEF n, p
  <2>1. \A i \in 1..Len(p) : p[i] <= t /\ p[i] <= t + Window
    BY <1>a, <1>b, <1>2
  <2>2. \A i \in 1..Len(p) : i <= Len(p) - 1 => p[i] < t + Window - Window
    BY <1>a, <1>b, <1>2
  <2>3. ASSUME NEW i \in 1..Len(p), i <= Len(p) - 1 - Limit
        PROVE  p[i] < t + Window - 2 * Window
    <3>1. i \in 1..n /\ i <= n - Limit
      BY <1>a, <1>b, <2>3
    <3>2. q[i] + Window < t /\ p[i] = q[i] /\ q[i] \in Nat
      BY <1>1, <1>b, <3>1
    <3> QED BY <1>a, <3>2
  <2> QED BY <1>a, <1>b, <2>1, <2>2, <2>3 DEF InWindow
<1> QED BY <1>3, <1>4

\* Admission within a window that is not full.
LEMMA CountKeeps ==
  ASSUME NEW q \in Seq(Nat), NEW t \in Nat, NEW c \in 1..Limit, NEW z \in Nat,
         Spread(q), InWindow(q, t, c, z), t <= z, c < Limit
  PROVE  Spread(Append(q, t)) /\ InWindow(Append(q, t), t, c + 1, z)
<1> DEFINE n == Len(q)
           p == Append(q, t)
<1>a. Window \in Nat \ {0} /\ Limit \in Nat \ {0} /\ c \in Nat
  BY LimiterAssumption
<1>b. /\ n \in Nat
      /\ Len(p) = n + 1
      /\ p[n + 1] = t
      /\ \A i \in 1..n : p[i] = q[i] /\ q[i] \in Nat
      /\ \A i \in 1..Len(p) : i \in 1..n \/ i = n + 1
  BY Appended
<1>c. /\ z - Window <= t
      /\ c <= n
      /\ \A i \in 1..n : q[i] <= t /\ q[i] <= z
      /\ \A i \in 1..n : i <= n - c => q[i] < z - Window
      /\ \A i \in 1..n : i <= n - c - Limit => q[i] < z - 2 * Window
  BY DEF InWindow
<1>1. Spread(p)
  <2> SUFFICES ASSUME NEW i \in 1..Len(p), NEW j \in 1..Len(p), j - i >= 2 * Limit
               PROVE  p[j] - p[i] > Window
    BY DEF Spread
  <2>1. i \in 1..n
    BY <1>a, <1>b
  <2>2. CASE j \in 1..n
    BY <1>b, <2>1, <2>2 DEF Spread
  <2>3. CASE j = n + 1
    <3>1. i <= n - c - Limit
      BY <1>a, <1>b, <2>1, <2>3
    <3>2. q[i] < z - 2 * Window
      BY <1>c, <2>1, <3>1
    <3> QED BY <1>a, <1>b, <1>c, <2>1, <2>3, <3>2
  <2> QED BY <1>b, <2>2, <2>3
<1>2. InWindow(p, t, c + 1, z)
  <2> HIDE DEF n, p
  <2>1. ASSUME NEW i \in 1..Len(p) PROVE p[i] <= t /\ p[i] <= z
    <3>1. CASE i \in 1..n
      BY <1>b, <1>c, <3>1
    <3>2. CASE i = n + 1
      BY <1>b, <3>2
    <3> QED BY <1>b, <3>1, <3>2
  <2>2. ASSUME NEW i \in 1..Len(p), i <= Len(p) - (c + 1)
        PROVE  /\ p[i] < z - Window
               /\ i <= Len(p) - (c + 1) - Limit => p[i] < z - 2 * Window
    <3>1. i \in 1..n /\ i <= n - c /\ p[i] = q[i]
      BY <1>a, <1>b, <2>2
    <3>2. i <= Len(p) - (c + 1) - Limit => i <= n - c - Limit
      BY <1>a, <1>b
    <3> QED BY <1>c, <3>1, <3>2
  <2>3. \A i \in 1..Len(p) :
           i <= Len(p) - (c + 1) - Limit => i <= Len(p) - (c + 1)
    BY <1>a, <1>b
  <2> QED BY <1>a, <1>b, <1>c, <2>1, <2>2, <2>3 DEF InWindow
<1> QED BY <1>1, <1>2

\* No other step admits anybody.
LEMMA WindowStep == WindowInv /\ [Next]_vars => WindowInv'
<1> SUFFICES ASSUME WindowInv, [Next]_vars PROVE WindowInv'
  OBVIOUS
<1>a. TypeOK /\ TypeOK'
  BY TypeStep DEF WindowInv
<1> SUFFICES ASSUME NEW ip \in IPs PROVE LogOf(ip)'
  BY <1>a DEF WindowInv
<1>b. /\ LogOf(ip)
      /\ now \in Nat
      /\ log \in [IPs -> Seq(Nat)]
      /\ entry \in [IPs -> Entry \cup {NoEntry}]
      /\ from \in [Requests -> IPs]
  BY <1>a DEF WindowInv, TypeOK
<1>c. Window \in Nat \ {0} /\ Limit \in Nat \ {0}
  BY LimiterAssumption
<1>1. ASSUME UNCHANGED <<now, entry[ip], log[ip]>> PROVE LogOf(ip)'
  BY <1>1, <1>b DEF LogOf
<1>2. ASSUME NEW r \in Requests, OpenWindow(r) PROVE LogOf(ip)'
  <2>1. CASE from[r] = ip
    <3>1. /\ log'[ip] = Append(log[ip], now)
          /\ entry'[ip] = [count |-> 1, reset |-> now + Window]
          /\ now' = now
      BY <1>2, <1>b, <2>1 DEF OpenWindow, Admit
    <3>2. \/ NoWindow(log[ip], now)
          \/ \E c \in 1..Limit, z \in Nat : now > z /\ InWindow(log[ip], now, c, z)
      <4>1. CASE entry[ip] = NoEntry
        BY <1>b, <4>1 DEF LogOf
      <4>2. CASE entry[ip] # NoEntry
        <5>1. entry[ip].count \in 1..Limit /\ entry[ip].reset \in Nat
          BY <1>b, <4>2 DEF Entry
        <5>2. now > entry[ip].reset
          BY <1>2, <1>b, <2>1, <4>2, <5>1 DEF OpenWindow, Current
        <5> QED BY <1>b, <4>2, <5>1, <5>2 DEF LogOf
      <4> QED BY <4>1, <4>2
    <3>3. /\ Spread(Append(log[ip], now))
          /\ InWindow(Append(log[ip], now), now, 1, now + Window)
      BY <1>b, <3>2, OpenWindowKeeps DEF LogOf
    <3>4. entry'[ip] # NoEntry
      BY <3>1 DEF NoEntry
    <3> QED BY <3>1, <3>3, <3>4 DEF LogOf
  <2>2. CASE from[r] # ip
    BY <1>1, <1>2, <1>b, <2>2 DEF OpenWindow, Admit
  <2> QED BY <2>1, <2>2
<1>3. ASSUME NEW r \in Requests, Count(r) PROVE LogOf(ip)'
  <2>1. CASE from[r] = ip
    <3>1. entry[ip] \in Entry /\ now <= entry[ip].reset /\ entry[ip].count < Limit
          /\ entry[ip] # NoEntry
      BY <1>3, <1>b, <2>1 DEF Count, Current
    <3>2. entry[ip].count \in 1..Limit /\ entry[ip].reset \in Nat
      BY <3>1 DEF Entry
    <3>3. /\ log'[ip] = Append(log[ip], now)
          /\ entry'[ip] = [entry[ip] EXCEPT !.count = @ + 1]
          /\ now' = now
      BY <1>3, <1>b, <2>1 DEF Count, Admit
    <3>4. /\ entry'[ip].count = entry[ip].count + 1
          /\ entry'[ip].reset = entry[ip].reset
      BY <3>1, <3>3 DEF Entry
    <3>5. entry'[ip] # NoEntry
      BY <3>2, <3>4 DEF NoEntry
    <3>6. /\ Spread(Append(log[ip], now))
          /\ InWindow(Append(log[ip], now), now, entry[ip].count + 1, entry[ip].reset)
      BY <1>b, <3>1, <3>2, CountKeeps DEF LogOf
    <3> QED BY <3>3, <3>4, <3>5, <3>6 DEF LogOf
  <2>2. CASE from[r] # ip
    BY <1>1, <1>3, <1>b, <2>2 DEF Count, Admit
  <2> QED BY <2>1, <2>2
<1>4. CASE Tick
  <2>1. now' = now + 1 /\ entry' = entry /\ log' = log
    BY <1>4 DEF Tick
  <2>2. Len(log[ip]) \in Nat /\ \A i \in 1..Len(log[ip]) : log[ip][i] \in Nat
    BY <1>b
  <2>3. NoWindow(log[ip], now) => NoWindow(log[ip], now + 1)
    BY <1>b, <1>c, <2>2 DEF NoWindow
  <2>4. entry[ip] # NoEntry => entry[ip].reset \in Nat
    BY <1>b DEF Entry
  <2>5. entry[ip] # NoEntry /\ InWindow(log[ip], now, entry[ip].count, entry[ip].reset)
          => InWindow(log[ip], now + 1, entry[ip].count, entry[ip].reset)
    BY <1>b, <1>c, <2>2, <2>4 DEF InWindow
  <2> QED BY <2>1, <2>3, <2>5, <1>b DEF LogOf
<1>5. CASE Cleanup
  <2>1. now' = now /\ log' = log
    BY <1>5 DEF Cleanup
  <2>2. CASE entry'[ip] = entry[ip]
    BY <1>1, <2>1, <2>2
  <2>3. CASE now > entry[ip].reset + Window /\ entry'[ip] = NoEntry /\ entry[ip] # NoEntry
    <3>1. Len(log[ip]) \in Nat /\ entry[ip].reset \in Nat
          /\ \A i \in 1..Len(log[ip]) : log[ip][i] \in Nat
      BY <1>b, <2>3 DEF Entry
    <3>2. \A i \in 1..Len(log[ip]) : log[ip][i] <= entry[ip].reset
      BY <1>b, <2>3 DEF LogOf, InWindow
    <3>3. NoWindow(log[ip], now)
      BY <1>b, <1>c, <2>3, <3>1, <3>2 DEF NoWindow
    <3> QED BY <1>b, <2>1, <2>3, <3>3 DEF LogOf
  <2>4. entry'[ip] \in {entry[ip], NoEntry}
    BY <1>5 DEF Cleanup
  <2> QED BY <1>5, <2>2, <2>3, <2>4 DEF Cleanup
<1>6. ASSUME NEW r \in Requests, Arrive(r) \/ Refuse(r) \/ Return(r)
      PROVE  LogOf(ip)'
  BY <1>1, <1>6 DEF Arrive, Refuse, Return
<1>7. CASE UNCHANGED vars
  BY <1>1, <1>7 DEF vars
<1> QED BY <1>2, <1>3, <1>4, <1>5, <1>6, <1>7 DEF Next, Middleware

\* Nobody was admitted before the start.
LEMMA InitWindow == Init => WindowInv
<1> SUFFICES ASSUME Init PROVE WindowInv
  OBVIOUS
<1>1. TypeOK
  BY InitType
<1>2. \A ip \in IPs : entry[ip] = NoEntry /\ log[ip] = <<>>
  BY DEF Init
<1> QED BY <1>1, <1>2 DEF WindowInv, LogOf, Spread, NoWindow

\* No window's length of time sees more than twice the limit.
THEOREM TwiceTheLimit == Spec => []TwoWindowBound
<1>1. WindowInv => TwoWindowBound
  <2> SUFFICES ASSUME WindowInv, NEW ip \in IPs PROVE
        \A i, j \in DOMAIN log[ip] : j - i >= 2 * Limit => log[ip][j] - log[ip][i] > Window
    BY DEF TwoWindowBound
  <2>1. log[ip] \in Seq(Nat) /\ Spread(log[ip])
    BY DEF WindowInv, TypeOK, LogOf
  <2>2. DOMAIN log[ip] = 1..Len(log[ip])
    BY <2>1
  <2> QED BY <2>1, <2>2 DEF Spread
<1> QED BY InitWindow, <1>1, WindowStep, PTL DEF Spec
-------------------------------------------------------------------------------
(* Who is refused *)

\* The last c admissions q came no earlier than z - Window.
Recent(q, c, z) == \A i \in 1..Len(q) : i > Len(q) - c => q[i] >= z - Window

\* Limit admissions within the window that ends at time t
FullWindow(q, t) == \E i \in 1..Len(q) :
  /\ i + Limit - 1 \in 1..Len(q)
  /\ t - q[i] <= Window
  /\ q[i + Limit - 1] <= t

\* An entry counts admissions of its own window only, and whoever was refused
\* came after a full window.
RefusalInv ==
  /\ WindowInv
  /\ \A ip \in IPs : entry[ip] # NoEntry =>
        Recent(log[ip], entry[ip].count, entry[ip].reset)
  /\ \A r \in Requests : pc[r] = "refused" => FullWindow(log[from[r]], refusal[r])

\* One more admission, counted or not, leaves the earlier ones as they are.
LEMMA RecentAppended ==
  ASSUME NEW q \in Seq(Nat), NEW t \in Nat, NEW c \in Nat, NEW z \in Nat,
         Recent(q, c, z), z - Window <= t
  PROVE  Recent(Append(q, t), c + 1, z)
<1>1. Window \in Nat
  BY LimiterAssumption
<1> QED BY <1>1, Appended DEF Recent

\* The first admission of a window is the only one it counts.
LEMMA RecentOpened ==
  ASSUME NEW q \in Seq(Nat), NEW t \in Nat
  PROVE  Recent(Append(q, t), 1, t + Window)
<1>1. Window \in Nat
  BY LimiterAssumption
<1> QED BY <1>1, Appended DEF Recent

\* A full window stays one when more requests are admitted.
LEMMA FullAppended ==
  ASSUME NEW q \in Seq(Nat), NEW u \in Nat, NEW t \in Nat, FullWindow(q, t)
  PROVE  FullWindow(Append(q, u), t)
<1>1. PICK i \in 1..Len(q) : /\ i + Limit - 1 \in 1..Len(q)
                             /\ t - q[i] <= Window
                             /\ q[i + Limit - 1] <= t
  BY DEF FullWindow
<1>2. /\ i \in 1..Len(Append(q, u)) /\ i + Limit - 1 \in 1..Len(Append(q, u))
      /\ Append(q, u)[i] = q[i] /\ Append(q, u)[i + Limit - 1] = q[i + Limit - 1]
  BY <1>1, Appended
<1> QED BY <1>1, <1>2 DEF FullWindow

\* An entry at the limit stands for a full window.
LEMMA LimitIsFull ==
  ASSUME NEW q \in Seq(Nat), NEW t \in Nat, NEW z \in Nat, t <= z,
         Recent(q, Limit, z), InWindow(q, t, Limit, z)
  PROVE  FullWindow(q, t)
<1> DEFINE n == Len(q)
           i == n - Limit + 1
<1>1. Window \in Nat \ {0} /\ Limit \in Nat \ {0} /\ n \in Nat
  BY LimiterAssumption
<1>2. Limit <= n /\ \A j \in 1..n : q[j] \in Nat /\ q[j] <= t
  BY DEF InWindow
<1>3. i \in 1..n /\ i + Limit - 1 = n /\ n \in 1..n /\ i > n - Limit
  BY <1>1, <1>2
<1>4. q[i] >= z - Window /\ q[i] \in Nat
  BY <1>2, <1>3 DEF Recent
<1>5. t - q[i] <= Window
  BY <1>1, <1>4
<1> QED BY <1>2, <1>3, <1>5 DEF FullWindow

\* Entries are counted, dropped and tested, and nothing else is.
LEMMA RefusalStep == RefusalInv /\ [Next]_vars => RefusalInv'
<1> SUFFICES ASSUME RefusalInv, [Next]_vars PROVE RefusalInv'
  OBVIOUS
<1>a. WindowInv /\ WindowInv' /\ TypeOK
  BY WindowStep DEF RefusalInv, WindowInv
<1>b. /\ now \in Nat
      /\ log \in [IPs -> Seq(Nat)]
      /\ entry \in [IPs -> Entry \cup {NoEntry}]
      /\ from \in [Requests -> IPs]
      /\ refusal \in [Requests -> Nat]
      /\ pc \in [Requests -> {"idle", "waiting", "serving", "done", "refused"}]
  BY <1>a DEF TypeOK
<1>c. Window \in Nat \ {0} /\ Limit \in Nat \ {0}
  BY LimiterAssumption
<1>d. \A ip \in IPs : entry[ip] # NoEntry =>
        /\ entry[ip].count \in 1..Limit /\ entry[ip].reset \in Nat
        /\ Recent(log[ip], entry[ip].count, entry[ip].reset)
        /\ InWindow(log[ip], now, entry[ip].count, entry[ip].reset)
  <2> SUFFICES ASSUME NEW ip \in IPs, entry[ip] # NoEntry
               PROVE  /\ entry[ip].count \in 1..Limit /\ entry[ip].reset \in Nat
                      /\ Recent(log[ip], entry[ip].count, entry[ip].reset)
                      /\ InWindow(log[ip], now, entry[ip].count, entry[ip].reset)
    OBVIOUS
  <2>1. entry[ip] \in Entry
    BY <1>b
  <2> QED BY <1>a, <2>1 DEF RefusalInv, WindowInv, LogOf, Entry
<1>e. \A r \in Requests : pc[r] = "refused" => FullWindow(log[from[r]], refusal[r])
  BY DEF RefusalInv
<1> DEFINE Counted(ip) == entry[ip] # NoEntry =>
                             Recent(log[ip], entry[ip].count, entry[ip].reset)
           Full(r) == pc[r] = "refused" => FullWindow(log[from[r]], refusal[r])
<1>f. ASSUME NEW ip \in IPs, UNCHANGED <<entry[ip], log[ip]>> PROVE Counted(ip)'
  BY <1>d, <1>f
<1>g. ASSUME NEW r \in Requests, UNCHANGED <<pc[r], log[from[r]], from[r], refusal[r]>>
      PROVE  Full(r)'
  BY <1>e, <1>g
<1>h. ASSUME NEW q \in Requests, Admit(q), NEW r \in Requests PROVE Full(r)'
  <2>1. log' = [log EXCEPT ![from[q]] = Append(@, now)]
        /\ pc' = [pc EXCEPT ![q] = "serving"] /\ UNCHANGED <<from, refusal>>
    BY <1>h DEF Admit
  <2>2. CASE r = q
    BY <1>b, <2>1, <2>2
  <2>3. CASE r # q /\ pc[r] = "refused" /\ from[r] = from[q]
    <3>1. FullWindow(Append(log[from[r]], now), refusal[r])
      BY <1>b, <1>e, <2>3, FullAppended
    <3> QED BY <1>b, <2>1, <2>3, <3>1
  <2>4. CASE r # q /\ ~(pc[r] = "refused" /\ from[r] = from[q])
    BY <1>b, <1>e, <2>1, <2>4
  <2> QED BY <2>2, <2>3, <2>4
<1>1. ASSUME NEW q \in Requests, OpenWindow(q) PROVE RefusalInv'
  <2>1. ASSUME NEW ip \in IPs PROVE Counted(ip)'
    <3>1. CASE ip = from[q]
      <4>1. /\ log'[ip] = Append(log[ip], now)
            /\ entry'[ip] = [count |-> 1, reset |-> now + Window]
        BY <1>1, <1>b, <3>1 DEF OpenWindow, Admit
      <4> QED BY <1>b, <4>1, RecentOpened
    <3>2. CASE ip # from[q]
      BY <1>1, <1>b, <1>f, <3>2 DEF OpenWindow, Admit
    <3> QED BY <3>1, <3>2
  <2>2. \A r \in Requests : Full(r)'
    BY <1>1, <1>h DEF OpenWindow
  <2> QED BY <1>a, <2>1, <2>2 DEF RefusalInv
<1>2. ASSUME NEW q \in Requests, Count(q) PROVE RefusalInv'
  <2>1. ASSUME NEW ip \in IPs PROVE Counted(ip)'
    <3>1. CASE ip = from[q]
      <4>1. /\ log'[ip] = Append(log[ip], now)
            /\ entry'[ip] = [entry[ip] EXCEPT !.count = @ + 1]
            /\ entry[ip] # NoEntry /\ entry[ip] \in Entry
        BY <1>2, <1>b, <3>1 DEF Count, Current, Admit
      <4>2. entry'[ip].count = entry[ip].count + 1 /\ entry'[ip].reset = entry[ip].reset
        BY <4>1 DEF Entry
      <4>3. /\ Recent(log[ip], entry[ip].count, entry[ip].reset)
            /\ entry[ip].reset - Window <= now
            /\ entry[ip].count \in Nat /\ entry[ip].reset \in Nat
        BY <1>d, <4>1 DEF InWindow
      <4> QED BY <1>b, <4>1, <4>2, <4>3, RecentAppended
    <3>2. CASE ip # from[q]
      BY <1>2, <1>b, <1>f, <3>2 DEF Count, Admit
    <3> QED BY <3>1, <3>2
  <2>2. \A r \in Requests : Full(r)'
    BY <1>2, <1>h DEF Count
  <2> QED BY <1>a, <2>1, <2>2 DEF RefusalInv
<1>3. ASSUME NEW q \in Requests, Refuse(q) PROVE RefusalInv'
  <2>1. \A ip \in IPs : Counted(ip)'
    BY <1>3, <1>f DEF Refuse
  <2>2. ASSUME NEW r \in Requests PROVE Full(r)'
    <3>1. CASE r = q
      <4>1. /\ entry[from[q]] # NoEntry /\ now <= entry[from[q]].reset
            /\ entry[from[q]].count >= Limit
        BY <1>3 DEF Refuse, Current
      <4>2. entry[from[q]].count = Limit /\ entry[from[q]].reset \in Nat
        BY <1>b, <1>c, <1>d, <4>1
      <4>3. FullWindow(log[from[q]], now)
        BY <1>b, <1>d, <4>1, <4>2, LimitIsFull
      <4> QED BY <1>3, <1>b, <3>1, <4>3 DEF Refuse
    <3>2. CASE r # q
      BY <1>3, <1>b, <1>g, <3>2 DEF Refuse
    <3> QED BY <3>1, <3>2
  <2> QED BY <1>a, <2>1, <2>2 DEF RefusalInv
<1>4. CASE Cleanup
  <2>1. ASSUME NEW ip \in IPs PROVE Counted(ip)'
    BY <1>4, <1>f DEF Cleanup
  <2>2. \A r \in Requests : Full(r)'
    BY <1>4, <1>g DEF Cleanup
  <2> QED BY <1>a, <2>1, <2>2 DEF RefusalInv
<1>5. ASSUME NEW q \in Requests, Arrive(q) \/ Return(q) PROVE RefusalInv'
  <2>1. \A ip \in IPs : Counted(ip)'
    BY <1>5, <1>f DEF Arrive, Return
  <2>2. ASSUME NEW r \in Requests PROVE Full(r)'
    BY <1>5, <1>b, <1>e DEF Arrive, Return
  <2> QED BY <1>a, <2>1, <2>2 DEF RefusalInv
<1>6. CASE Tick \/ UNCHANGED vars
  <2>1. \A ip \in IPs : Counted(ip)'
    BY <1>6, <1>f DEF Tick, vars
  <2>2. \A r \in Requests : Full(r)'
    BY <1>6, <1>g DEF Tick, vars
  <2> QED BY <1>a, <2>1, <2>2 DEF RefusalInv
<1> QED BY <1>1, <1>2, <1>3, <1>4, <1>5, <1>6 DEF Next, Middleware

\* A request is refused only after Limit admissions of its address within the
\* window: the sweep and the opening of windows forget none of them.
THEOREM RefusalsAreDue == Spec => []RefusedOnlyAtLimit
<1>1. Init => RefusalInv
  <2> SUFFICES ASSUME Init PROVE RefusalInv
    OBVIOUS
  <2>1. WindowInv
    BY InitWindow
  <2>2. /\ \A ip \in IPs : entry[ip] = NoEntry
        /\ \A r \in Requests : pc[r] = "idle"
    BY DEF Init
  <2> QED BY <2>1, <2>2 DEF RefusalInv
<1>2. RefusalInv => RefusedOnlyAtLimit
  <2> SUFFICES ASSUME RefusalInv, NEW r \in Requests, pc[r] = "refused" PROVE
        \E i \in DOMAIN log[from[r]] :
          /\ i + Limit - 1 \in DOMAIN log[from[r]]
          /\ refusal[r] - log[from[r]][i] <= Window
          /\ log[from[r]][i + Limit - 1] <= refusal[r]
    BY DEF RefusedOnlyAtLimit
  <2>1. log[from[r]] \in Seq(Nat)
    BY DEF RefusalInv, WindowInv, TypeOK
  <2>2. DOMAIN log[from[r]] = 1..Len(log[from[r]])
    BY <2>1
  <2> QED BY <2>2 DEF RefusalInv, FullWindow
<1> QED BY <1>1, <1>2, RefusalStep, PTL DEF Spec
===============================================================================
