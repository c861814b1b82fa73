------------------------------- MODULE MCIndexer -------------------------------
(* Small instances of Indexer for TLC.                                      *)
EXTENDS IndexerInv, TLC

CONSTANTS s1, k1, p1, p2, w1, w2, alice, bob, gold, silver

\* One plan of one merchant.
OnePlanMerchant == p1 :> alice
OnePlanId       == p1 :> gold

\* Two merchants with a plan each, under different ids and under the same id.
TwoMerchants == (p1 :> alice) @@ (p2 :> bob)
DistinctIds  == (p1 :> gold) @@ (p2 :> silver)
SharedId     == (p1 :> gold) @@ (p2 :> gold)

\* One wallet pays for every subscription.
OneWallet == [s \in Subs |-> w1]

\* The server has run before: s1 subscribed to p1 under k1, its session is
\* completed, the tables mirror the chain, and no transaction is left to visit.
SubscribedInit ==
  /\ chain = [s \in Subs |-> [status |-> "active", plan |-> p1, token |-> k1, pays |-> 0]]
  /\ session = [k \in Tokens |-> [status |-> "completed", plan |-> p1, sub |-> s1]]
  /\ planRow = [p \in Plans |-> IF p = p1
                  THEN [here |-> TRUE, subscribers |-> 1, revenue |-> 0] ELSE NoPlanRow]
  /\ walletRows = {w1}
  /\ subRow = [s \in Subs |-> [here |-> TRUE, plan |-> p1, token |-> k1,
                               active |-> TRUE, paid |-> 0, count |-> 0]]
  /\ checkpoint = 1
  /\ chainPlans = InitPlans /\ chainWallets = InitWallets /\ log = <<>>
  /\ recorded = {} /\ boot = "down" /\ lastSlot = 0 /\ page = <<>>
  /\ hs = [i \in Tx |-> IdleHandler] /\ sync = IdleSync
  /\ submitted = {} /\ sends = [i \in Tx |-> 0]
  /\ crashes = 0 /\ faults = 0

\* A fresh server, or one that has a customer already.
ServingSpec == (Init \/ SubscribedInit) /\ [][Next]_vars /\ Fairness
================================================================================
