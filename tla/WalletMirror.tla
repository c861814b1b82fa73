----------------------------- MODULE WalletMirror -----------------------------
(***************************************************************************)
(* The subscription wallets: the accounts of the program as bytes, the     *)
(* decoders of solana.service.ts, and the numbers of subscription_wallets, *)
(* which the event handlers and the hourly sync of indexer.service.ts      *)
(* write.  Indexer.tla keeps of these rows only that they exist.           *)
(*                                                                         *)
(* A byte is a digit in base Base (256 in the code), a public key is one   *)
(* cell.  Handlers and the sync interleave at every await; an event may be *)
(* handled late, out of order, twice or never.                             *)
(***************************************************************************)
EXTENDS Integers, Sequences, FiniteSets

CONSTANTS
  Wallets,         \* wallet accounts
  Keys,            \* public keys
  OwnerOf,         \* OwnerOf[w], TokenAccountOf[w], MintOf[w]: the keys of w
  TokenAccountOf,
  MintOf,
  Legacy,          \* wallets on chain from the start, with a subscription
                   \*   made before subscriptions had a session token
  Tokens,          \* session tokens, sequences of characters
  PlanId,          \* the id of the plan subscribed to
  Base,            \* the values of a byte
  Word,            \* the bytes of a u32 (4 in the code)
  MaxToken,        \* the longest session token
  Fee,             \* what a payment moves
  ShareAmounts,    \* vault shares moved by one instruction
  Bump,            \* the bump of every account
  Slots,           \* events handled at once
  MaxTx,           \* bound: transactions
  MaxStarts,       \* bound: events handled
  MaxFaults,       \* bound: failing calls of the sync, and crashes
  None             \* no account, no row

ASSUME MirrorAssumption ==
  /\ {OwnerOf, TokenAccountOf, MintOf} \subseteq [Wallets -> Keys]
  /\ Base \in Nat \ {0, 1} /\ Word \in Nat \ {0}
  /\ Fee \in Nat /\ ShareAmounts \subseteq Nat
  /\ Bump \in 0..(Base - 1)
  /\ Legacy \subseteq Wallets
  /\ PlanId \in Seq(0..(Base - 1)) /\ MaxToken \in Nat
  /\ \A token \in Tokens : token \in Seq(0..(Base - 1)) /\ Len(token) =< MaxToken
  /\ MaxTx \in Nat /\ MaxStarts \in Nat /\ MaxFaults \in Nat

VARIABLES
  account,       \* account[w]: the wallet account on chain
  data,          \* data[w]: its bytes, as getProgramAccounts answers them
  subscription,  \* subscription[w]: the subscription account of its owner
  log,           \* the transactions of the program
  row,           \* row[w]: the row of subscription_wallets
  recorded,      \* transactions with a row of transactions
  hs,            \* hs[h]: the event handled in slot h
  sync,          \* the sync of the accounts
  starts, faults \* the counters of the bounds

chainVars == <<account, data, subscription, log>>
vars == <<account, data, subscription, log, row, recorded, hs, sync, starts,
          faults>>
-------------------------------------------------------------------------------
(* The accounts as bytes, in the order of the program's IDL.  A u32 takes    *)
(* Word bytes, a u64 twice as many.                                         *)

\* The value of a digit with k digits before it: Base^k.
Power[k \in Nat] == IF k = 0 THEN 1 ELSE Base * Power[k - 1]

\* The little-endian digits of n.
Digits(n, width) == [i \in 1..width |-> (n \div Power[i - 1]) % Base]
U32(n) == Digits(n, Word)
U64(n) == Digits(n, 2 * Word)

Flag(b) == IF b THEN 1 ELSE 0

Text(cells) == U32(Len(cells)) \o cells

WalletBytes(w, a) ==
  <<OwnerOf[w], TokenAccountOf[w], MintOf[w]>>
    \o U32(a.subs) \o U64(a.spent) \o U64(a.shares)
    \o <<Flag(a.enabled), Bump>>

\* An account keeps the space of the longest token; a legacy one ends with the
\* bump right after the flag.
SubscriptionBytes(w) ==
  LET s == subscription[w]
      padding == [i \in 1..(MaxToken - Len(s.token)) |-> 0]
  IN  <<OwnerOf[w], w, MintOf[w]>>
        \o U64(Fee) \o U64(s.count) \o U64(s.paid) \o U32(s.count)
        \o <<Flag(s.active)>>
        \o (IF s.legacy THEN <<Bump>>
                        ELSE Text(s.token) \o <<Bump>> \o padding)

Subscribers == Cardinality({w \in Wallets : /\ subscription[w] # None
                                            /\ subscription[w].active})

PlanBytes ==
  Text(PlanId) \o Text(PlanId) \o U64(Fee) \o <<1>> \o U32(Subscribers)
    \o <<Bump>>
--------------------------------------------------------------------------------
(* The decoders of solana.service.ts.                                       *)

\* The number in the width cells after offset, as BN and readUInt32LE read it.
Number(cells, offset, width) ==
  LET value[i \in 0..width] ==  \* of the cells after the first i
        IF i = width THEN 0 ELSE cells[offset + i + 1] + Base * value[i + 1]
  IN  value[0]
N32(cells, offset) == Number(cells, offset, Word)
N64(cells, offset) == Number(cells, offset, 2 * Word)

\* The decoder's order of the numbers: shares, flag, subscriptions, spent.
WalletWithMint(b, mintAt) ==
  [owner |-> b[1], tokenAccount |-> b[2], mint |-> b[mintAt],
   shares |-> N64(b, 3), enabled |-> b[4 + 2 * Word] = 1,
   subs |-> N32(b, 4 + 2 * Word), spent |-> N64(b, 4 + 3 * Word),
   bump |-> b[5 + 5 * Word]]

\* Mutant: the mint is read one key early.
ReadWalletSwapped(b) == WalletWithMint(b, 2)

ReadWallet(b) == WalletWithMint(b, 3)

\* What follows the flag: the token, of at most longest bytes, and the bump, if
\* they are there.
TailUpTo(b, offset, longest) ==
  LET length == N32(b, offset)
      start == offset + Word
      bumpAt(i) == IF i =< Len(b) THEN b[i] ELSE 0
  IN  IF start > Len(b) THEN [token |-> <<>>, bump |-> 0]
      ELSE IF length \in 1..longest /\ start + length =< Len(b)
      THEN [token |-> SubSeq(b, start + 1, start + length),
            bump  |-> bumpAt(start + length + 1)]
      ELSE [token |-> <<>>,
            bump  |-> IF length = 0 THEN bumpAt(start + 1) ELSE 0]

\* Mutant: < for <= in the bound of the length.
ReadTailShort(b, offset) == TailUpTo(b, offset, MaxToken - 1)

ReadTail(b, offset) == TailUpTo(b, offset, MaxToken)

\* The fields' order is the account's; keys and the interval are read like the
\* fields that stand for them here.
ReadSubscription(b) ==
  [keys |-> SubSeq(b, 1, 3), fee |-> N64(b, 3), last |-> N64(b, 3 + 2 * Word),
   paid |-> N64(b, 3 + 4 * Word), count |-> N32(b, 3 + 6 * Word),
   active |-> b[4 + 7 * Word] = 1, tail |-> ReadTail(b, 4 + 7 * Word)]

\* Mutant: the name is read right after the id, its length unread.
ReadPlanOneLength(b) ==
  LET idEnd   == Word + N32(b, 0)
      nameEnd == idEnd + N32(b, 0)
  IN  [id |-> SubSeq(b, Word + 1, idEnd), name |-> SubSeq(b, idEnd + 1, nameEnd),
       fee |-> N64(b, nameEnd), active |-> b[nameEnd + 2 * Word + 1] = 1,
       subscribers |-> N32(b, nameEnd + 2 * Word + 1),
       bump |-> b[nameEnd + 3 * Word + 2]]

ReadPlan(b) ==
  LET idEnd   == Word + N32(b, 0)
      nameEnd == idEnd + Word + N32(b, idEnd)
  IN  [id |-> SubSeq(b, Word + 1, idEnd),
       name |-> SubSeq(b, idEnd + Word + 1, nameEnd),
       fee |-> N64(b, nameEnd), active |-> b[nameEnd + 2 * Word + 1] = 1,
       subscribers |-> N32(b, nameEnd + 2 * Word + 1),
       bump |-> b[nameEnd + 3 * Word + 2]]
--------------------------------------------------------------------------------
(* The shape of the state.                                                  *)

WalletAccount(subs, spent, shares, enabled) ==
  [subs |-> subs, spent |-> spent, shares |-> shares, enabled |-> enabled]
Account == [subs : Nat, spent : Nat, shares : Nat, enabled : BOOLEAN]

SubscriptionAccount(legacy, token, paid, count, active) ==
  [legacy |-> legacy, token |-> token, paid |-> paid, count |-> count,
   active |-> active]
Subscription == [legacy : BOOLEAN, token : Tokens \union {<<>>}, paid : Nat,
                 count : Nat, active : BOOLEAN]

Transaction == [kind : {"created", "moved", "subscribed", "cancelled", "paid",
                        "enabled", "disabled", "added", "taken"},
                of : Wallets, amount : Nat]

\* Handlers and decoders may make a row's numbers anything.
Row == [owner : Keys, mint : Keys, enabled : BOOLEAN, shares : Int, subs : Int,
        spent : Int]

RowOf(v) == [owner |-> v.owner, mint |-> v.mint, enabled |-> v.enabled,
             shares |-> v.shares, subs |-> v.subs, spent |-> v.spent]

HandlerSteps == {"idle", "create", "addSub", "dropSub", "readSpent",
                 "writeSpent", "disable", "setShares", "readShares",
                 "writeShares", "record"}

\* tx is the transaction handled, val the number read of the row.
Handler == [pc : HandlerSteps, tx : Nat, val : Int]
AtStep(pc, i, val) == [pc |-> pc, tx |-> i, val |-> val]
Idle == AtStep("idle", 0, 0)

\* isIndexing keeps a second sync out; rows[w] is the row the sync will write
\* for a wallet of todo.
Syncing(pc, todo, rows) ==
  [isIndexing |-> pc # "idle", pc |-> pc, todo |-> todo, rows |-> rows]
IdleSync == Syncing("idle", {}, [w \in Wallets |-> None])

ASSUME NoneAssumption == None \notin Account \union Subscription

TypeOK ==
  /\ account \in [Wallets -> Account \union {None}]
  /\ \A w \in Wallets :
       data[w] = IF account[w] = None THEN None ELSE WalletBytes(w, account[w])
  /\ subscription \in [Wallets -> Subscription \union {None}]
  /\ log \in Seq(Transaction)
  /\ row \in [Wallets -> Row \union {None}]
  /\ recorded \subseteq DOMAIN log
  /\ hs \in [Slots -> Handler]
  /\ sync \in [isIndexing : BOOLEAN, pc : {"idle", "wallets", "subscriptions"},
               todo : SUBSET Wallets, rows : [Wallets -> Row \union {None}]]
  /\ starts \in Nat /\ faults \in Nat

Init ==
  /\ account = [w \in Wallets |->
       IF w \in Legacy THEN WalletAccount(1, 0, 0, FALSE) ELSE None]
  /\ data = [w \in Wallets |->
       IF w \in Legacy THEN WalletBytes(w, WalletAccount(1, 0, 0, FALSE))
                       ELSE None]
  /\ subscription = [w \in Wallets |->
       IF w \in Legacy THEN SubscriptionAccount(TRUE, <<>>, 0, 0, TRUE)
                       ELSE None]
  /\ log = <<>>
  /\ row = [w \in Wallets |-> None]
  /\ recorded = {}
  /\ hs = [h \in Slots |-> Idle]
  /\ sync = IdleSync
  /\ starts = 0 /\ faults = 0
--------------------------------------------------------------------------------
(* The program (external): what its instructions do to the accounts.        *)

Emit(kind, w, amount) ==
  /\ Len(log) < MaxTx
  /\ log' = Append(log, [kind |-> kind, of |-> w, amount |-> amount])
  /\ UNCHANGED <<row, recorded, hs, sync, starts, faults>>

OnChain(w) == account[w] # None

Store(w, a) ==
  /\ account' = [account EXCEPT ![w] = a]
  /\ data' = [data EXCEPT ![w] = WalletBytes(w, a)]

Subscribed(w) == subscription[w] # None /\ subscription[w].active

CreateWallet(w) ==
  /\ ~OnChain(w)
  /\ Store(w, WalletAccount(0, 0, 0, FALSE))
  /\ Emit("created", w, 0)
  /\ UNCHANGED subscription

\* A deposit or a withdrawal moves tokens and none of the account's numbers.
MoveTokens(w) ==
  /\ OnChain(w)
  /\ Emit("moved", w, 0)
  /\ UNCHANGED <<account, data, subscription>>

Subscribe(w, token) ==
  /\ OnChain(w) /\ ~Subscribed(w)
  /\ LET a == account[w] IN
       Store(w, WalletAccount(a.subs + 1, a.spent, a.shares, a.enabled))
  /\ subscription' =
       [subscription EXCEPT ![w] = SubscriptionAccount(FALSE, token, 0, 0, TRUE)]
  /\ Emit("subscribed", w, 0)

Cancel(w) ==
  /\ OnChain(w) /\ Subscribed(w)
  /\ LET a == account[w] IN
       Store(w, WalletAccount(a.subs - 1, a.spent, a.shares, a.enabled))
  /\ LET s == subscription[w] IN
       subscription' = [subscription EXCEPT ![w] =
         SubscriptionAccount(s.legacy, s.token, s.paid, s.count, FALSE)]
  /\ Emit("cancelled", w, 0)

Pay(w) ==
  /\ OnChain(w) /\ Subscribed(w)
  /\ LET a == account[w] IN
       Store(w, WalletAccount(a.subs, a.spent + Fee, a.shares, a.enabled))
  /\ LET s == subscription[w] IN
       subscription' = [subscription EXCEPT ![w] =
         SubscriptionAccount(s.legacy, s.token, s.paid + Fee, s.count + 1, TRUE)]
  /\ Emit("paid", w, Fee)

\* The vault issues shares when yield is enabled and when more is deposited.
IssueShares(w, n) ==
  /\ OnChain(w)
  /\ LET a == account[w] IN
       Store(w, WalletAccount(a.subs, a.spent, a.shares + n, TRUE))
  /\ Emit(IF account[w].enabled THEN "added" ELSE "enabled", w, n)
  /\ UNCHANGED subscription

RedeemShares(w, n) ==
  /\ OnChain(w)
  /\ account[w].enabled /\ n =< account[w].shares
  /\ LET a == account[w] IN
       Store(w, WalletAccount(a.subs, a.spent, a.shares - n, TRUE))
  /\ Emit("taken", w, n)
  /\ UNCHANGED subscription

DisableYield(w) ==
  /\ OnChain(w)
  /\ account[w].enabled
  /\ LET a == account[w] IN Store(w, WalletAccount(a.subs, a.spent, 0, FALSE))
  /\ Emit("disabled", w, account[w].shares)
  /\ UNCHANGED subscription
--------------------------------------------------------------------------------
(* The event handlers.  An error of the database or of the RPC ends one; the *)
(* listener and the backfill swallow it.                                     *)

\* The first call each kind of event makes on the tables of this module.  The
\* parser rejects yieldEnabled, whose event has no vault: no handler sees it.
FirstStep ==
  [created |-> "create", moved |-> "record", subscribed |-> "addSub",
   cancelled |-> "dropSub", paid |-> "readSpent", disabled |-> "disable",
   added |-> "setShares", taken |-> "readShares"]

StartHandler(h, i) ==
  /\ hs[h].pc = "idle"
  /\ starts < MaxStarts
  /\ log[i].kind \in DOMAIN FirstStep
  /\ hs' = [hs EXCEPT ![h] = AtStep(FirstStep[log[i].kind], i, 0)]
  /\ starts' = starts + 1
  /\ UNCHANGED <<chainVars, row, recorded, sync, faults>>

Subject(h) == log[hs[h].tx].of
Amount(h) == log[hs[h].tx].amount
HasRow(h) == row[Subject(h)] # None

Running(h, pc) ==
  /\ hs[h].pc = pc
  /\ UNCHANGED <<chainVars, sync, starts, faults>>

GoTo(h, pc, val) == hs' = [hs EXCEPT ![h] = AtStep(pc, hs[h].tx, val)]
Return(h) == hs' = [hs EXCEPT ![h] = Idle]

\* subscriptionWallet.update: it rejects when there is no row.
UpdateRow(h, r, next) ==
  /\ row' = IF HasRow(h) THEN [row EXCEPT ![Subject(h)] = r] ELSE row
  /\ IF HasRow(h) /\ next = "record" THEN GoTo(h, "record", 0) ELSE Return(h)
  /\ UNCHANGED recorded

HandleCreated(h) ==
  /\ Running(h, "create")
  /\ row' = IF HasRow(h) THEN row
            ELSE [row EXCEPT ![Subject(h)] =
                    [owner |-> OwnerOf[Subject(h)], mint |-> MintOf[Subject(h)],
                     enabled |-> FALSE, shares |-> 0, subs |-> 0, spent |-> 0]]
  /\ Return(h)
  /\ UNCHANGED recorded

HandleSubscribed(h) ==
  /\ Running(h, "addSub")
  /\ UpdateRow(h, [row[Subject(h)] EXCEPT !.subs = @ + 1], "record")

HandleCancelled(h) ==
  /\ Running(h, "dropSub")
  /\ UpdateRow(h, [row[Subject(h)] EXCEPT !.subs = @ - 1], "record")

\* The payment's total is read in one step and written in a later one.
ReadSpent(h) ==
  /\ Running(h, "readSpent")
  /\ IF HasRow(h) THEN GoTo(h, "writeSpent", row[Subject(h)].spent)
                  ELSE GoTo(h, "record", 0)
  /\ UNCHANGED <<row, recorded>>

WriteSpent(h) ==
  /\ Running(h, "writeSpent")
  /\ UpdateRow(h, [row[Subject(h)] EXCEPT !.spent = hs[h].val + Amount(h)],
               "record")

\* Mutant: the flag of the handler above, copied.
HandleYieldDisabledStillOn(h) ==
  /\ Running(h, "disable")
  /\ UpdateRow(h, [row[Subject(h)] EXCEPT !.enabled = TRUE, !.shares = 0],
               "idle")

HandleYieldDisabled(h) ==
  /\ Running(h, "disable")
  /\ UpdateRow(h, [row[Subject(h)] EXCEPT !.enabled = FALSE, !.shares = 0],
               "idle")

\* A deposit's shares replace the row's, a withdrawal's are subtracted.
HandleYieldDeposit(h) ==
  /\ Running(h, "setShares")
  /\ UpdateRow(h, [row[Subject(h)] EXCEPT !.shares = Amount(h)], "record")

ReadShares(h) ==
  /\ Running(h, "readShares")
  /\ IF HasRow(h) THEN GoTo(h, "writeShares", row[Subject(h)].shares)
                  ELSE GoTo(h, "record", 0)
  /\ UNCHANGED <<row, recorded>>

WriteShares(h) ==
  /\ Running(h, "writeShares")
  /\ UpdateRow(h, [row[Subject(h)] EXCEPT !.shares = hs[h].val - Amount(h)],
               "record")

\* Mutant: the amount is recorded as the signature.
RecordTransactionAmount(h) ==
  /\ Running(h, "record")
  /\ recorded' = recorded \union {Amount(h)}
  /\ Return(h)
  /\ UNCHANGED row

\* recordTransaction inserts the signature unless it is there.
RecordTransaction(h) ==
  /\ Running(h, "record")
  /\ recorded' = recorded \union {hs[h].tx}
  /\ Return(h)
  /\ UNCHANGED row

HandlerStep(h) ==
  \/ HandleCreated(h) \/ HandleSubscribed(h) \/ HandleCancelled(h)
  \/ ReadSpent(h) \/ WriteSpent(h)
  \/ HandleYieldDisabled(h) \/ HandleYieldDeposit(h)
  \/ ReadShares(h) \/ WriteShares(h)
  \/ RecordTransaction(h)

HandlerError(h) ==
  /\ hs[h].pc # "idle"
  /\ Return(h)
  /\ UNCHANGED <<chainVars, row, recorded, sync, starts, faults>>
--------------------------------------------------------------------------------
(* The sync: it fetches the wallet accounts, decodes them all, and writes   *)
(* one row after the other; the subscriptions come after the last one.  The *)
(* plans before and the subscriptions' rows are those of Indexer.tla.       *)

Decoded(w) == ReadWallet(data[w])

\* total_subscriptions is a signed 4-byte column: a larger number is refused.
Fits(r) == r.subs < Power[Word] \div 2

SyncFetch ==
  /\ ~sync.isIndexing
  /\ sync' = Syncing("wallets", {w \in Wallets : OnChain(w)},
                     [w \in Wallets |-> IF OnChain(w) THEN RowOf(Decoded(w))
                                                      ELSE None])
  /\ UNCHANGED <<chainVars, row, recorded, hs, starts, faults>>

\* Mutant: the update of an existing row leaves its shares alone.
SyncWalletKeepingShares(w) ==
  /\ sync.pc = "wallets" /\ w \in sync.todo
  /\ IF Fits(sync.rows[w])
     THEN /\ row' = [row EXCEPT ![w] =
                 IF @ = None THEN sync.rows[w]
                 ELSE [sync.rows[w] EXCEPT !.shares = row[w].shares]]
          /\ sync' = Syncing("wallets", sync.todo \ {w}, sync.rows)
     ELSE sync' = IdleSync /\ UNCHANGED row
  /\ UNCHANGED <<chainVars, recorded, hs, starts, faults>>

\* The upsert of one row.  The update leaves owner and mint, the keys of an
\* account, alone.  A refused number ends the sync.
SyncWallet(w) ==
  /\ sync.pc = "wallets" /\ w \in sync.todo
  /\ IF Fits(sync.rows[w])
     THEN /\ row' = [row EXCEPT ![w] =
                 IF @ = None THEN sync.rows[w]
                 ELSE [sync.rows[w] EXCEPT !.owner = row[w].owner,
                                           !.mint = row[w].mint]]
          /\ sync' = Syncing("wallets", sync.todo \ {w}, sync.rows)
     ELSE sync' = IdleSync /\ UNCHANGED row
  /\ UNCHANGED <<chainVars, recorded, hs, starts, faults>>

SyncSubscriptions ==
  /\ sync.pc = "wallets" /\ sync.todo = {}
  /\ sync' = Syncing("subscriptions", {}, sync.rows)
  /\ UNCHANGED <<chainVars, row, recorded, hs, starts, faults>>

SyncEnd ==
  /\ sync.pc = "subscriptions"
  /\ sync' = IdleSync
  /\ UNCHANGED <<chainVars, row, recorded, hs, starts, faults>>

Fault ==
  /\ faults < MaxFaults
  /\ faults' = faults + 1

\* Mutant: isIndexing is not reset when the sync fails.
SyncErrorKeepingFlag ==
  /\ sync.pc # "idle"
  /\ Fault
  /\ sync' = [IdleSync EXCEPT !.isIndexing = TRUE]
  /\ UNCHANGED <<chainVars, row, recorded, hs, starts>>

\* A call of the sync fails: finally resets isIndexing.
SyncError ==
  /\ sync.pc # "idle"
  /\ Fault
  /\ sync' = IdleSync
  /\ UNCHANGED <<chainVars, row, recorded, hs, starts>>

Crash ==
  /\ Fault
  /\ hs' = [h \in Slots |-> Idle]
  /\ sync' = IdleSync
  /\ UNCHANGED <<chainVars, row, recorded, starts>>
--------------------------------------------------------------------------------
Program(w) ==
  \/ CreateWallet(w) \/ MoveTokens(w)
  \/ \E token \in Tokens : Subscribe(w, token)
  \/ Cancel(w) \/ Pay(w)
  \/ \E n \in ShareAmounts : IssueShares(w, n) \/ RedeemShares(w, n)
  \/ DisableYield(w)

Handling(h) ==
  \/ \E i \in DOMAIN log : StartHandler(h, i)
  \/ HandlerStep(h)
  \/ HandlerError(h)

SyncStep == SyncFetch \/ (\E w \in Wallets : SyncWallet(w))
            \/ SyncSubscriptions \/ SyncEnd

Next ==
  \/ \E w \in Wallets : Program(w)
  \/ \E h \in Slots : Handling(h)
  \/ SyncStep \/ SyncError \/ Crash

\* The event loop runs a handler on; the cron starts the sync every hour, and
\* its calls answer.  No event need be handled.
Spec == /\ Init /\ [][Next]_vars
        /\ \A h \in Slots : WF_vars(HandlerStep(h))
        /\ WF_vars(SyncStep)
--------------------------------------------------------------------------------
(* What the decoders make of the accounts.                                  *)

\* decodeSubscriptionState gives back the account it reads, a legacy one
\* without a token and with bump 0, whatever bytes are left after the flag.
SubscriptionRead ==
  \A w \in Wallets : subscription[w] # None =>
    LET s == subscription[w]
    IN  \A b \in {SubscriptionBytes(w)} : ReadSubscription(b) =
          [keys |-> <<OwnerOf[w], w, MintOf[w]>>, fee |-> Fee,
           last |-> s.count, paid |-> s.paid, count |-> s.count,
           active |-> s.active,
           tail |-> [token |-> s.token,
                     bump |-> IF s.legacy THEN 0 ELSE Bump]]

\* decodeMerchantPlan gives back the plan it reads, behind its two strings.
PlanRead ==
  \A b \in {PlanBytes} : ReadPlan(b) =
    [id |-> PlanId, name |-> PlanId, fee |-> Fee, active |-> TRUE,
     subscribers |-> Subscribers, bump |-> Bump]

\* "ACCOUNT TYPES (from Rust program)" (types/index.ts): the wallet decoder
\* gives back the numbers of the account.
WalletRead ==
  \A w \in Wallets : OnChain(w) =>
    /\ Decoded(w).subs = account[w].subs
    /\ Decoded(w).spent = account[w].spent
    /\ Decoded(w).shares = account[w].shares
    /\ Decoded(w).enabled = account[w].enabled
--------------------------------------------------------------------------------
(* The rows.                                                                *)

\* A row names the owner and the mint of its account, whether a handler or the
\* sync created it and whatever the decoder makes of the numbers.
RowsNameOwner ==
  \A w \in Wallets : row[w] # None =>
    OnChain(w) /\ row[w].owner = OwnerOf[w] /\ row[w].mint = MintOf[w]

\* What a row's yield flag says: no handler raises it, and the sync raises it
\* for a wallet that has spent at least Power[Word] (2^32) units, yield or not.
FlagNeedsSpending ==
  \A w \in Wallets : row[w] # None /\ row[w].enabled => account[w].spent >= Power[Word]

AllFit == \A w \in Wallets : OnChain(w) => Fits(Decoded(w))

\* Lost, repeated, reordered and half-done events, and the stale totals of two
\* handlers or of a handler and the sync, do not last: once the accounts are
\* quiet the sync makes every row what it decodes, if no account holds a number
\* that the column refuses.
Converges ==
  <>[]AllFit =>
    <>[](\A w \in Wallets : OnChain(w) => row[w] = RowOf(Decoded(w)))

\* The subscriptions' turn comes again and again, after errors and crashes, if
\* no wallet's number ends the sync before it.
SyncReachesSubscriptions == <>[]AllFit => []<>(sync.pc = "subscriptions")
================================================================================
