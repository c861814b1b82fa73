---------------------------- MODULE RateLimiter ----------------------------
(***************************************************************************)
(* The rate limit guard: a fixed window of requests for every key, a key   *)
(* being the endpoint's type, the client's address and the user.  The      *)
(* guard decides synchronously, so one request is one step.  Time is a     *)
(* counter that any step may find advanced; the store and with it every    *)
(* bound below lives as long as the process and the module that owns the   *)
(* guard.                                                                  *)
(***************************************************************************)
EXTENDS Integers, Sequences

CONSTANTS
    Keys,        \* type:address:user
    Ttl,         \* the length of a key's window, by its type
    Limit,       \* the requests a window grants, by its type
    NoEntry,     \* the store has no entry for the key
    ClockSteps,  \* bound: what the clock may advance by between two steps
    MaxTime,     \* bound: the clock
    MaxCount,    \* bound: the requests counted in one window
    MaxGrants    \* bound: the grants recorded for one key

ASSUME ConfigsPositive == /\ Ttl \in [Keys -> Nat]
                          /\ Limit \in [Keys -> Nat \ {0}]
ASSUME BoundsNatural == /\ ClockSteps \subseteq Nat
                        /\ MaxTime \in Nat /\ MaxCount \in Nat /\ MaxGrants \in Nat

VARIABLES
    now,      \* Date.now()
    store,    \* key -> its window: how many requests, and when it resets
    granted   \* key -> the grants so far: when, and the start of their window

vars == <<now, store, granted>>

Entry == [count : Nat \ {0}, reset : Nat]
Grant == [at : Nat, from : Nat]

ASSUME NoEntryApart == NoEntry \notin Entry

(* Types of the variables; a window holds a request from its first moment. *)
TypeOK ==
    /\ now \in Nat
    /\ store \in [Keys -> Entry \cup {NoEntry}]
    /\ granted \in [Keys -> Seq(Grant)]

Init ==
    /\ now = 0
    /\ store = [k \in Keys |-> NoEntry]
    /\ granted = [k \in Keys |-> <<>>]

(* now > entry.resetTime: the last millisecond still belongs to the window. *)
Expired(k) == store[k] # NoEntry /\ now > store[k].reset

GrantIn(k, start) ==
    granted' = [granted EXCEPT ![k] = Append(@, [at |-> now, from |-> start])]

(* Mutant: A new window that starts at zero and is never counted. *)
OpenWindowAtZero(k) ==
    /\ store[k] = NoEntry \/ Expired(k)
    /\ Len(granted[k]) < MaxGrants
    /\ store' = [store EXCEPT ![k] = [count |-> 0, reset |-> now + Ttl[k]]]
    /\ GrantIn(k, now)
    /\ UNCHANGED now

(* No entry, or an expired one: a new window, whose first request passes. *)
OpenWindow(k) ==
    /\ store[k] = NoEntry \/ Expired(k)
    /\ Len(granted[k]) < MaxGrants
    /\ store' = [store EXCEPT ![k] = [count |-> 1, reset |-> now + Ttl[k]]]
    /\ GrantIn(k, now)
    /\ UNCHANGED now

(* Mutant: The limit compared with the count before this request. *)
CountRequestLate(k) ==
    /\ store[k] # NoEntry /\ ~Expired(k)
    /\ store[k].count < MaxCount
    /\ Len(granted[k]) < MaxGrants
    /\ store' = [store EXCEPT ![k].count = @ + 1]
    /\ IF store[k].count > Limit[k]
       THEN UNCHANGED granted
       ELSE GrantIn(k, store[k].reset - Ttl[k])
    /\ UNCHANGED now

(* Mutant: A refused request starts the window again. *)
CountRequestProlonging(k) ==
    /\ store[k] # NoEntry /\ ~Expired(k)
    /\ store[k].count < MaxCount
    /\ Len(granted[k]) < MaxGrants
    /\ store' = [store EXCEPT ![k] = [count |-> @.count + 1, reset |-> now + Ttl[k]]]
    /\ IF store[k].count + 1 > Limit[k]
       THEN UNCHANGED granted
       ELSE GrantIn(k, store[k].reset - Ttl[k])
    /\ UNCHANGED now

(* The request is counted first, and refused when that passes the limit. *)
CountRequest(k) ==
    /\ store[k] # NoEntry /\ ~Expired(k)
    /\ store[k].count < MaxCount
    /\ Len(granted[k]) < MaxGrants
    /\ store' = [store EXCEPT ![k].count = @ + 1]
    /\ IF store[k].count + 1 > Limit[k]
       THEN UNCHANGED granted
       ELSE GrantIn(k, store[k].reset - Ttl[k])
    /\ UNCHANGED now

(* Mutant: A cleanup that drops every entry. *)
CleanupAll ==
    /\ store' = [k \in Keys |-> NoEntry]
    /\ UNCHANGED <<now, granted>>

(* Every five minutes: drop the entries that have expired. *)
Cleanup ==
    /\ store' = [k \in Keys |-> IF Expired(k) THEN NoEntry ELSE store[k]]
    /\ UNCHANGED <<now, granted>>

Tick(d) ==
    /\ now + d <= MaxTime
    /\ now' = now + d
    /\ UNCHANGED <<store, granted>>

Next ==
    \/ \E k \in Keys : OpenWindow(k) \/ CountRequest(k)
    \/ Cleanup
    \/ \E d \in ClockSteps : Tick(d)

Spec == Init /\ [][Next]_vars

-----------------------------------------------------------------------------
(* Any stretch of time as long as the window grants at most twice the      *)
(* limit, wherever it starts: two adjacent windows are the worst case, and *)
(* neither a cleanup nor an expiry lets a client start a third early       *)
(* (rate-limit.guard.ts, canActivate and cleanup).                         *)
SlidingBound ==
    \A k \in Keys : \A i \in DOMAIN granted[k] :
        i + 2 * Limit[k] \in DOMAIN granted[k]
            => granted[k][i + 2 * Limit[k]].at > granted[k][i].at + Ttl[k]

(* A client that is being refused was granted its whole limit inside the   *)
(* window, and the window ends within its length from now: being refused   *)
(* does not prolong the wait (canActivate counts but does not move         *)
(* resetTime).                                                             *)
RefusalsEarned ==
    \A k \in Keys :
        store[k] # NoEntry /\ store[k].count > Limit[k] =>
            LET n == Len(granted[k]) IN
            /\ n >= Limit[k]
            /\ \A i \in (n - Limit[k] + 1)..n :
                   granted[k][i].at + Ttl[k] >= store[k].reset
            /\ store[k].reset <= now + Ttl[k]

(* What the bound rests on: of the grants of a key, those of the window in *)
(* the store are the last ones, as many as it counts up to the limit, and  *)
(* every earlier window ended before the next one began.                   *)
MinOf(a, b) == IF a <= b THEN a ELSE b
InWindow(k) == MinOf(store[k].count, Limit[k])

WindowsOrdered(k) ==
    LET g == granted[k] IN
    /\ \A i \in DOMAIN g : /\ g[i].from <= g[i].at /\ g[i].at <= g[i].from + Ttl[k]
                           /\ g[i].at <= now
    /\ \A i \in DOMAIN g : i + Limit[k] \in DOMAIN g
           => g[i + Limit[k]].from > g[i].from + Ttl[k]

CurrentWindow(k) ==
    LET g == granted[k]
        n == Len(g)
    IN  IF store[k] = NoEntry
        THEN \A i \in 1..n : g[i].from + Ttl[k] < now
        ELSE /\ store[k].reset <= now + Ttl[k]
             /\ Ttl[k] <= store[k].reset
             /\ InWindow(k) <= n
             /\ \A i \in 1..n :
                    IF i > n - InWindow(k)
                    THEN g[i].from = store[k].reset - Ttl[k]
                    ELSE g[i].from + Ttl[k] < store[k].reset - Ttl[k]

WindowsOK == \A k \in Keys : WindowsOrdered(k) /\ CurrentWindow(k)

=============================================================================
