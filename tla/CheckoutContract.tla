--------------------------- MODULE CheckoutContract ----------------------------
(****************************************************************************)
(* What checkout promises about a session, whatever the indexer, its syncs, *)
(* replays and crashes do: a session token is handed out before it is used, *)
(* and a session is judged only once the chain holds a subscription that    *)
(* names it; it completes only with the subscription to its own plan.       *)
(****************************************************************************)
CONSTANTS
  Tokens,      \* session tokens
  Plans,       \* the plans a session can be opened for
  Subs,        \* subscriptions
  Null         \* no plan, no subscription

VARIABLES
  session,     \* session[k]: status, plan and subscription of the session k
  subscribed   \* <<k, p, s>>: the chain holds subscription s to p, naming k

Init ==
  /\ session = [k \in Tokens |-> [status |-> "absent", plan |-> Null, sub |-> Null]]
  /\ subscribed = {}

\* The token of a new session is fresh: no subscription names it yet.
Open(k, p) ==
  /\ session[k].status = "absent"
  /\ \A x \in subscribed : x[1] # k
  /\ session' = [session EXCEPT ![k] = [status |-> "pending", plan |-> p, sub |-> Null]]
  /\ UNCHANGED subscribed

\* A token serves one subscription, a subscription names one token.
Subscribe(k, p, s) ==
  /\ \A x \in subscribed : x[1] # k /\ x[3] # s
  /\ subscribed' = subscribed \union {<<k, p, s>>}
  /\ UNCHANGED session

Complete(k, s) ==
  /\ session[k].status # "absent"
  /\ <<k, session[k].plan, s>> \in subscribed
  /\ session' = [session EXCEPT ![k].status = "completed", ![k].sub = s]
  /\ UNCHANGED subscribed

\* A session fails for a subscription that names it: to another plan, or one
\* that the indexer could not process.  A completion is not final: the replay
\* of its event may fail too.
Fail(k) ==
  /\ session[k].status # "absent"
  /\ \E x \in subscribed : x[1] = k
  /\ session' = [session EXCEPT ![k].status = "failed"]
  /\ UNCHANGED subscribed

Cancel(k) ==
  /\ session[k].status # "absent"
  /\ session' = [session EXCEPT ![k].status = "cancelled"]
  /\ UNCHANGED subscribed

Next ==
  \/ \E k \in Tokens, p \in Plans : Open(k, p)
  \/ \E k \in Tokens, p \in Plans, s \in Subs : Subscribe(k, p, s)
  \/ \E k \in Tokens, s \in Subs : Complete(k, s)
  \/ \E k \in Tokens : Fail(k) \/ Cancel(k)

Spec == Init /\ [][Next]_<<session, subscribed>>
================================================================================
