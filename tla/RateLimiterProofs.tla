------------------------- MODULE RateLimiterProofs -------------------------
(***************************************************************************)
(* The bounds of the rate limit guard hold for every set of keys, every    *)
(* window and limit and every course of the clock.                         *)
(***************************************************************************)
EXTENDS RateLimiter, TLAPS

(* What the types say of a key's grants.                                   *)
LEMMA GrantFields ==
    ASSUME TypeOK, NEW k \in Keys
    PROVE  /\ granted[k] \in Seq(Grant)
           /\ Len(granted[k]) \in Nat
           /\ DOMAIN granted[k] = 1..Len(granted[k])
           /\ \A i \in 1..Len(granted[k]) :
                  granted[k][i].at \in Nat /\ granted[k][i].from \in Nat
<1>1. granted[k] \in Seq(Grant)
  BY DEF TypeOK
<1>2. \A i \in 1..Len(granted[k]) : granted[k][i] \in Grant
  BY <1>1
<1>3. \A x \in Grant : x.at \in Nat /\ x.from \in Nat
  BY DEF Grant
<1> QED BY <1>1, <1>2, <1>3

(* A key whose window is over, or gone, has no grant within its length of  *)
(* now: a window may open.                                                 *)
LEMMA OldGrants ==
    ASSUME TypeOK, WindowsOK, NEW k \in Keys, store[k] = NoEntry \/ Expired(k)
    PROVE  \A i \in 1..Len(granted[k]) : granted[k][i].from + Ttl[k] < now
<1>1. granted[k] \in Seq(Grant) /\ now \in Nat /\ Ttl[k] \in Nat
  BY ConfigsPositive DEF TypeOK
<1>2. CASE store[k] = NoEntry
  BY <1>2 DEF WindowsOK, CurrentWindow
<1>3. CASE Expired(k)
  <2>1. store[k] \in Entry /\ store[k] # NoEntry /\ now > store[k].reset
    BY <1>3 DEF Expired, TypeOK
  <2> SUFFICES ASSUME NEW i \in 1..Len(granted[k])
               PROVE  granted[k][i].from + Ttl[k] < now
    OBVIOUS
  <2>2. granted[k][i].from \in Nat
    BY GrantFields
  <2>3. \/ granted[k][i].from = store[k].reset - Ttl[k]
        \/ granted[k][i].from + Ttl[k] < store[k].reset - Ttl[k]
    BY <2>1 DEF WindowsOK, CurrentWindow
  <2> QED BY <1>1, <2>1, <2>2, <2>3 DEF Entry
<1> QED BY <1>2, <1>3

(* Every step keeps the types.                                             *)
LEMMA TypeStep == ASSUME TypeOK, WindowsOK, [Next]_vars PROVE TypeOK'
<1> USE ConfigsPositive, BoundsNatural
<1>1. ASSUME NEW k \in Keys, OpenWindow(k) PROVE TypeOK'
  <2>1. [count |-> 1, reset |-> now + Ttl[k]] \in Entry
    BY DEF TypeOK, Entry
  <2>2. [at |-> now, from |-> now] \in Grant
    BY DEF TypeOK, Grant
  <2>3. granted[k] \in Seq(Grant)
    BY GrantFields
  <2>4. Append(granted[k], [at |-> now, from |-> now]) \in Seq(Grant)
    BY <2>2, <2>3
  <2> QED BY <1>1, <2>1, <2>4 DEF TypeOK, OpenWindow, GrantIn
<1>2. ASSUME NEW k \in Keys, CountRequest(k) PROVE TypeOK'
  <2>1. store[k] \in Entry
    BY <1>2 DEF TypeOK, CountRequest
  <2>2. [store[k] EXCEPT !.count = @ + 1] \in Entry
    BY <2>1 DEF Entry
  <2>3. store[k].reset - Ttl[k] \in Nat
    BY <1>2, <2>1 DEF WindowsOK, CurrentWindow, CountRequest, Entry
  <2>4. [at |-> now, from |-> store[k].reset - Ttl[k]] \in Grant
    BY <2>3 DEF TypeOK, Grant
  <2>5. Append(granted[k], [at |-> now, from |-> store[k].reset - Ttl[k]]) \in Seq(Grant)
    BY <2>4, GrantFields
  <2>6. store' \in [Keys -> Entry \cup {NoEntry}]
    BY <1>2, <2>2 DEF TypeOK, CountRequest
  <2>7. granted' \in [Keys -> Seq(Grant)]
    BY <1>2, <2>5 DEF TypeOK, CountRequest, GrantIn
  <2> QED BY <1>2, <2>6, <2>7 DEF TypeOK, CountRequest
<1>3. ASSUME Cleanup PROVE TypeOK'
  BY <1>3 DEF TypeOK, Cleanup
<1>4. ASSUME NEW d \in ClockSteps, Tick(d) PROVE TypeOK'
  BY <1>4 DEF TypeOK, Tick
<1>5. ASSUME UNCHANGED vars PROVE TypeOK'
  BY <1>5 DEF TypeOK, vars
<1> QED BY <1>1, <1>2, <1>3, <1>4, <1>5 DEF Next

(* What a step leaves alone keeps its windows, as the clock only advances. *)
LEMMA WindowKept ==
    ASSUME TypeOK, TypeOK', NEW k \in Keys, WindowsOrdered(k), CurrentWindow(k),
           store'[k] = store[k], granted'[k] = granted[k], now <= now'
    PROVE  WindowsOrdered(k)' /\ CurrentWindow(k)'
<1>1. granted[k] \in Seq(Grant) /\ now \in Nat /\ now' \in Nat /\ Ttl[k] \in Nat
      /\ Limit[k] \in Nat \ {0}
  BY ConfigsPositive DEF TypeOK
<1>2. \A i \in 1..Len(granted[k]) : granted[k][i].at \in Nat /\ granted[k][i].from \in Nat
  BY GrantFields
<1>3. WindowsOrdered(k)'
  BY <1>1, <1>2 DEF WindowsOrdered
<1>4. CASE store[k] = NoEntry
  <2>1. \A i \in 1..Len(granted[k]) : granted[k][i].from + Ttl[k] < now
    BY <1>4 DEF CurrentWindow
  <2>2. \A i \in 1..Len(granted[k]) : granted[k][i].from + Ttl[k] < now'
    BY <1>1, <1>2, <2>1
  <2> QED BY <1>3, <1>4, <2>2 DEF CurrentWindow
<1>5. CASE store[k] # NoEntry
  <2>1. store[k] \in Entry
    BY <1>5 DEF TypeOK
  <2>2. InWindow(k)' = InWindow(k)
    BY DEF InWindow
  <2> QED BY <1>1, <1>2, <1>3, <1>5, <2>1, <2>2 DEF CurrentWindow, Entry
<1> QED BY <1>4, <1>5

(* A window opens only after every earlier one of its key has ended.       *)
LEMMA OpenWindowOK ==
    ASSUME TypeOK, WindowsOK, NEW k \in Keys, OpenWindow(k)
    PROVE  WindowsOrdered(k)' /\ CurrentWindow(k)'
<1> DEFINE g == granted[k]
           n == Len(g)
<1>1. g \in Seq(Grant) /\ now \in Nat /\ Ttl[k] \in Nat /\ Limit[k] \in Nat \ {0}
  BY ConfigsPositive DEF TypeOK
<1>2. now' = now /\ granted'[k] = Append(g, [at |-> now, from |-> now])
  BY DEF OpenWindow, GrantIn, TypeOK
<1>3. store'[k] = [count |-> 1, reset |-> now + Ttl[k]] /\ store'[k] # NoEntry
  BY NoEntryApart, <1>1 DEF OpenWindow, TypeOK, Entry
<1>4. \A i \in 1..n : g[i].from + Ttl[k] < now
  BY OldGrants DEF OpenWindow
<1>5. \A i \in 1..n : g[i].at \in Nat /\ g[i].from \in Nat
  BY GrantFields
<1>6. Len(granted'[k]) = n + 1 /\ n \in Nat
      /\ granted'[k][n + 1] = [at |-> now, from |-> now]
      /\ \A i \in 1..n : granted'[k][i] = g[i]
  BY <1>1, <1>2
<1>7. DOMAIN granted'[k] = 1..(n + 1) /\ DOMAIN g = 1..n
  BY <1>1, <1>2, <1>6
<1>8. WindowsOrdered(k)
  BY DEF WindowsOK
<1> HIDE DEF g, n
<1>9. WindowsOrdered(k)'
  <2>1. ASSUME NEW i \in 1..(n + 1)
        PROVE  /\ granted'[k][i].from <= granted'[k][i].at
               /\ granted'[k][i].at <= granted'[k][i].from + Ttl[k]
               /\ granted'[k][i].at <= now'
    <3>1. CASE i = n + 1
      BY <3>1, <1>1, <1>2, <1>6
    <3>2. CASE i \in 1..n
      BY <3>2, <1>2, <1>6, <1>7, <1>8 DEF WindowsOrdered, g
    <3> QED BY <3>1, <3>2, <1>6
  <2>2. ASSUME NEW i \in 1..(n + 1), i + Limit[k] \in 1..(n + 1)
        PROVE  granted'[k][i + Limit[k]].from > granted'[k][i].from + Ttl[k]
    <3>1. i \in 1..n
      BY <2>2, <1>1, <1>6
    <3>2. CASE i + Limit[k] = n + 1
      <4>1. granted'[k][i] = g[i] /\ g[i].from + Ttl[k] < now /\ g[i].from \in Nat
        BY <3>1, <1>4, <1>5, <1>6
      <4>2. granted'[k][i + Limit[k]].from = now
        BY <3>2, <1>6
      <4> QED BY <4>1, <4>2, <1>1
    <3>3. CASE i + Limit[k] \in 1..n
      BY <3>1, <3>3, <1>6, <1>7, <1>8 DEF WindowsOrdered, g
    <3> QED BY <2>2, <3>2, <3>3, <1>6
  <2> QED BY <2>1, <2>2, <1>7 DEF WindowsOrdered
<1>10. InWindow(k)' = 1
  BY <1>1, <1>3 DEF InWindow, MinOf
<1>11. CurrentWindow(k)'
  <2>1. store'[k].reset = now + Ttl[k]
    BY <1>3
  <2>2. ASSUME NEW i \in 1..(n + 1)
        PROVE  IF i > (n + 1) - 1
               THEN granted'[k][i].from = store'[k].reset - Ttl[k]
               ELSE granted'[k][i].from + Ttl[k] < store'[k].reset - Ttl[k]
    <3>1. CASE i = n + 1
      BY <3>1, <2>1, <1>1, <1>6
    <3>2. CASE i \in 1..n
      <4>1. granted'[k][i] = g[i] /\ g[i].from + Ttl[k] < now /\ g[i].from \in Nat
        BY <3>2, <1>4, <1>5, <1>6
      <4> QED BY <3>2, <4>1, <2>1, <1>1, <1>6
    <3> QED BY <3>1, <3>2, <1>6
  <2> QED BY <2>1, <2>2, <1>1, <1>2, <1>3, <1>6, <1>10 DEF CurrentWindow
<1> QED BY <1>9, <1>11

(* Counting a request grants it only while the window has some left.       *)
LEMMA CountRequestOK ==
    ASSUME TypeOK, WindowsOK, NEW k \in Keys, CountRequest(k)
    PROVE  WindowsOrdered(k)' /\ CurrentWindow(k)'
<1> DEFINE g == granted[k]
           n == Len(g)
           r == store[k].reset
           c == store[k].count
<1>1. g \in Seq(Grant) /\ now \in Nat /\ Ttl[k] \in Nat /\ Limit[k] \in Nat \ {0}
  BY ConfigsPositive DEF TypeOK
<1>2. store[k] \in Entry /\ store[k] # NoEntry /\ now <= r /\ r \in Nat /\ c \in Nat \ {0}
  BY <1>1 DEF CountRequest, Expired, TypeOK, Entry
<1>3. now' = now /\ store'[k].reset = r /\ store'[k].count = c + 1
  BY <1>2 DEF CountRequest, TypeOK, Entry
<1>4. store'[k] # NoEntry
  <2>1. store'[k] = [store[k] EXCEPT !.count = @ + 1]
    BY DEF CountRequest, TypeOK
  <2>2. store'[k] \in Entry
    BY <1>2, <2>1 DEF Entry
  <2> QED BY <2>2, NoEntryApart
<1>5. \A i \in 1..n : g[i].at \in Nat /\ g[i].from \in Nat
  BY GrantFields
<1>6. /\ r <= now + Ttl[k] /\ Ttl[k] <= r /\ InWindow(k) <= n
      /\ \A i \in 1..n : IF i > n - InWindow(k)
                         THEN g[i].from = r - Ttl[k]
                         ELSE g[i].from + Ttl[k] < r - Ttl[k]
  BY <1>2 DEF WindowsOK, CurrentWindow
<1>7. WindowsOrdered(k) /\ n \in Nat /\ DOMAIN g = 1..n
  BY <1>1 DEF WindowsOK
<1>8. CASE c + 1 > Limit[k]
  <2>1. granted'[k] = g
    BY <1>8 DEF CountRequest
  <2>2. InWindow(k) = Limit[k] /\ InWindow(k)' = Limit[k]
    BY <1>1, <1>2, <1>3, <1>8 DEF InWindow, MinOf
  <2>3. WindowsOrdered(k)'
    BY <1>3, <1>7, <2>1 DEF WindowsOrdered
  <2> QED BY <1>3, <1>4, <1>6, <2>1, <2>2, <2>3 DEF CurrentWindow
<1>9. CASE c + 1 <= Limit[k]
  <2>1. granted'[k] = Append(g, [at |-> now, from |-> r - Ttl[k]])
    BY <1>1, <1>2, <1>9 DEF CountRequest, GrantIn, TypeOK
  <2>2. InWindow(k) = c /\ InWindow(k)' = c + 1
    BY <1>1, <1>2, <1>3, <1>9 DEF InWindow, MinOf
  <2>3. Len(granted'[k]) = n + 1 /\ DOMAIN granted'[k] = 1..(n + 1)
        /\ granted'[k][n + 1] = [at |-> now, from |-> r - Ttl[k]]
        /\ \A i \in 1..n : granted'[k][i] = g[i]
    BY <1>1, <2>1
  <2> HIDE DEF g, n, r, c
  <2>4. ASSUME NEW i \in 1..(n + 1)
        PROVE  /\ granted'[k][i].from <= granted'[k][i].at
               /\ granted'[k][i].at <= granted'[k][i].from + Ttl[k]
               /\ granted'[k][i].at <= now'
    <3>1. CASE i = n + 1
      BY <3>1, <1>1, <1>2, <1>3, <1>6, <2>3
    <3>2. CASE i \in 1..n
      BY <3>2, <1>3, <1>7, <2>3 DEF WindowsOrdered, g
    <3> QED BY <3>1, <3>2, <1>7
  <2>5. ASSUME NEW i \in 1..(n + 1), i + Limit[k] \in 1..(n + 1)
        PROVE  granted'[k][i + Limit[k]].from > granted'[k][i].from + Ttl[k]
    <3>1. i \in 1..n
      BY <2>5, <1>1, <1>7
    <3>2. CASE i + Limit[k] = n + 1
      <4>1. ~(i > n - c)
        BY <3>1, <3>2, <1>1, <1>2, <1>7, <1>9
      <4>2. g[i].from + Ttl[k] < r - Ttl[k]
        BY <3>1, <4>1, <1>6, <2>2
      <4>3. granted'[k][i].from + Ttl[k] < r - Ttl[k]
        BY <3>1, <2>3, <4>2
      <4> QED BY <3>1, <3>2, <4>3, <1>1, <1>2, <1>5, <2>3
    <3>3. CASE i + Limit[k] \in 1..n
      BY <3>1, <3>3, <1>7, <2>3 DEF WindowsOrdered, g
    <3> QED BY <2>5, <3>2, <3>3, <1>7
  <2>6. WindowsOrdered(k)'
    BY <2>3, <2>4, <2>5 DEF WindowsOrdered
  <2>7. ASSUME NEW i \in 1..(n + 1)
        PROVE  IF i > (n + 1) - (c + 1)
               THEN granted'[k][i].from = r - Ttl[k]
               ELSE granted'[k][i].from + Ttl[k] < r - Ttl[k]
    <3>1. CASE i = n + 1
      BY <3>1, <1>2, <1>7, <2>3
    <3>2. CASE i \in 1..n
      BY <3>2, <1>2, <1>6, <1>7, <2>2, <2>3
    <3> QED BY <3>1, <3>2, <1>7
  <2> QED BY <1>1, <1>2, <1>3, <1>4, <1>6, <1>7, <2>2, <2>3, <2>6, <2>7 DEF CurrentWindow
<1> QED BY <1>1, <1>2, <1>8, <1>9

(* Every step keeps the windows of every key in order.                     *)
LEMMA WindowsStep == ASSUME TypeOK, WindowsOK, [Next]_vars PROVE WindowsOK'
<1>1. TypeOK'
  BY TypeStep
<1> SUFFICES ASSUME NEW k \in Keys PROVE WindowsOrdered(k)' /\ CurrentWindow(k)'
  BY DEF WindowsOK
<1>2. WindowsOrdered(k) /\ CurrentWindow(k) /\ now \in Nat
  BY DEF WindowsOK, TypeOK
<1>3. ASSUME NEW j \in Keys, OpenWindow(j) PROVE WindowsOrdered(k)' /\ CurrentWindow(k)'
  <2>1. CASE j = k
    BY <1>3, <2>1, OpenWindowOK
  <2>2. CASE j # k
    <3>1. store'[k] = store[k] /\ granted'[k] = granted[k] /\ now <= now'
      BY <1>2, <1>3, <2>2 DEF OpenWindow, GrantIn, TypeOK
    <3> QED BY <1>1, <1>2, <3>1, WindowKept
  <2> QED BY <2>1, <2>2
<1>4. ASSUME NEW j \in Keys, CountRequest(j) PROVE WindowsOrdered(k)' /\ CurrentWindow(k)'
  <2>1. CASE j = k
    BY <1>4, <2>1, CountRequestOK
  <2>2. CASE j # k
    <3>1. store'[k] = store[k] /\ granted'[k] = granted[k] /\ now <= now'
      BY <1>2, <1>4, <2>2 DEF CountRequest, GrantIn, TypeOK
    <3> QED BY <1>1, <1>2, <3>1, WindowKept
  <2> QED BY <2>1, <2>2
<1>5. ASSUME Cleanup PROVE WindowsOrdered(k)' /\ CurrentWindow(k)'
  <2>1. granted'[k] = granted[k] /\ now' = now
    BY <1>5 DEF Cleanup
  <2>2. CASE Expired(k)
    <3>1. store'[k] = NoEntry
      BY <1>5, <2>2 DEF Cleanup
    <3>2. \A i \in 1..Len(granted[k]) : granted[k][i].from + Ttl[k] < now
      BY <2>2, OldGrants
    <3> QED BY <1>2, <2>1, <3>1, <3>2 DEF WindowsOrdered, CurrentWindow
  <2>3. CASE ~Expired(k)
    <3>1. store'[k] = store[k]
      BY <1>5, <2>3 DEF Cleanup
    <3> QED BY <1>1, <1>2, <2>1, <3>1, WindowKept
  <2> QED BY <2>2, <2>3
<1>6. ASSUME NEW d \in ClockSteps, Tick(d) PROVE WindowsOrdered(k)' /\ CurrentWindow(k)'
  <2>1. store'[k] = store[k] /\ granted'[k] = granted[k] /\ now <= now'
    BY <1>2, <1>6, BoundsNatural DEF Tick
  <2> QED BY <1>1, <1>2, <2>1, WindowKept
<1>7. ASSUME UNCHANGED vars PROVE WindowsOrdered(k)' /\ CurrentWindow(k)'
  <2>1. store'[k] = store[k] /\ granted'[k] = granted[k] /\ now <= now'
    BY <1>2, <1>7 DEF vars
  <2> QED BY <1>1, <1>2, <2>1, WindowKept
<1> QED BY <1>3, <1>4, <1>5, <1>6, <1>7 DEF Next

(* The guard's invariant: the types, and the order of each key's windows.  *)
THEOREM WindowsInvariant == Spec => [](TypeOK /\ WindowsOK)
<1>1. Init => TypeOK /\ WindowsOK
  BY DEF Init, TypeOK, WindowsOK, WindowsOrdered, CurrentWindow
<1>2. TypeOK /\ WindowsOK /\ [Next]_vars => (TypeOK /\ WindowsOK)'
  BY TypeStep, WindowsStep
<1> QED BY <1>1, <1>2, PTL DEF Spec

(* No stretch of time as long as the window grants more than twice the     *)
(* limit (rate-limit.guard.ts, canActivate and cleanup).                   *)
THEOREM SlidingBoundHolds == Spec => []SlidingBound
<1>1. TypeOK /\ WindowsOK => SlidingBound
  <2> SUFFICES ASSUME TypeOK, WindowsOK, NEW k \in Keys, NEW i \in DOMAIN granted[k],
                      i + 2 * Limit[k] \in DOMAIN granted[k]
               PROVE  granted[k][i + 2 * Limit[k]].at > granted[k][i].at + Ttl[k]
    BY DEF SlidingBound
  <2> DEFINE g == granted[k]
             a == i + Limit[k]
             b == a + Limit[k]
  <2>1. g \in Seq(Grant) /\ Ttl[k] \in Nat /\ Limit[k] \in Nat \ {0} /\ DOMAIN g = 1..Len(g)
    BY ConfigsPositive DEF TypeOK
  <2>2. i + 2 * Limit[k] = b /\ a \in DOMAIN g /\ b \in DOMAIN g
    BY <2>1
  <2>3. WindowsOrdered(k)
    BY DEF WindowsOK
  <2>4. \A j \in DOMAIN g : g[j].at \in Nat /\ g[j].from \in Nat
    BY GrantFields
  <2>5. g[a].from > g[i].from + Ttl[k] /\ g[b].from > g[a].from + Ttl[k]
    BY <2>2, <2>3 DEF WindowsOrdered
  <2>6. g[i].at <= g[i].from + Ttl[k] /\ g[b].from <= g[b].at
    BY <2>2, <2>3 DEF WindowsOrdered
  <2>7. ASSUME NEW x \in Nat, NEW y \in Nat, NEW z \in Nat, NEW u \in Nat, NEW w \in Nat,
               NEW t \in Nat, x <= y + t, z > y + t, u > z + t, u <= w
        PROVE  w > x + t
    BY <2>7
  <2>8. g[i].at \in Nat /\ g[i].from \in Nat /\ g[a].from \in Nat
        /\ g[b].from \in Nat /\ g[b].at \in Nat
    BY <2>2, <2>4
  <2>9. g[b].at > g[i].at + Ttl[k]
    BY <2>1, <2>5, <2>6, <2>7, <2>8
  <2> QED BY <2>2, <2>9
<1> QED BY <1>1, WindowsInvariant, PTL

(* A refused client was granted its whole limit inside the window, and the *)
(* window ends within its length from now (canActivate).                   *)
THEOREM RefusalsAreEarned == Spec => []RefusalsEarned
<1>1. TypeOK /\ WindowsOK => RefusalsEarned
  <2> SUFFICES ASSUME TypeOK, WindowsOK, NEW k \in Keys,
                      store[k] # NoEntry, store[k].count > Limit[k]
               PROVE  /\ Len(granted[k]) >= Limit[k]
                      /\ \A i \in (Len(granted[k]) - Limit[k] + 1)..Len(granted[k]) :
                             granted[k][i].at + Ttl[k] >= store[k].reset
                      /\ store[k].reset <= now + Ttl[k]
    BY DEF RefusalsEarned
  <2> DEFINE g == granted[k]
             n == Len(g)
  <2>1. g \in Seq(Grant) /\ n \in Nat /\ DOMAIN g = 1..n
        /\ Ttl[k] \in Nat /\ Limit[k] \in Nat \ {0} /\ store[k] \in Entry
    BY ConfigsPositive DEF TypeOK
  <2>2. store[k].count \in Nat /\ store[k].reset \in Nat
    BY <2>1 DEF Entry
  <2>3. InWindow(k) = Limit[k]
    BY <2>1, <2>2 DEF InWindow, MinOf
  <2>4. Limit[k] <= n /\ store[k].reset <= now + Ttl[k]
        /\ \A i \in 1..n : i > n - Limit[k] => g[i].from = store[k].reset - Ttl[k]
    BY <2>3 DEF WindowsOK, CurrentWindow
  <2>5. \A j \in DOMAIN g : g[j].at \in Nat /\ g[j].from \in Nat /\ g[j].from <= g[j].at
    BY GrantFields DEF WindowsOK, WindowsOrdered
  <2>6. ASSUME NEW i \in (n - Limit[k] + 1)..n
        PROVE  g[i].at + Ttl[k] >= store[k].reset
    <3>1. i \in 1..n /\ i > n - Limit[k]
      BY <2>1, <2>4
    <3> QED BY <3>1, <2>1, <2>2, <2>4, <2>5
  <2> QED BY <2>1, <2>4, <2>6
<1> QED BY <1>1, WindowsInvariant, PTL

(* Entries, admissions and the clock keep their types: counters are never  *)
(* negative and a window is a natural number of milliseconds (canActivate, *)
(* cleanup).                                                               *)
THEOREM TypeCorrect == Spec => []TypeOK
<1> QED BY WindowsInvariant, PTL
=============================================================================
