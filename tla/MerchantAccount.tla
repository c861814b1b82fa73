---------------------------- MODULE MerchantAccount ----------------------------
(****************************************************************************)
(* One merchant's account: its row (src/src/merchant), its logo in the file *)
(* store (src/src/upload) and its API keys (src/src/api-keys).              *)
(*                                                                          *)
(* Every request reads the row or the key, awaits, and writes; requests     *)
(* interleave at every await and share no lock.  The indexer's sync inserts *)
(* a bare row for a merchant it sees on chain.  A statement or a call to    *)
(* the file store may fail, and the process may crash; the row, the store   *)
(* and the keys survive.                                                    *)
(****************************************************************************)
EXTENDS Integers, FiniteSets

CONSTANTS
  Reqs,         \* requests in flight at once
  Files,        \* uploaded files, each named by its URL
  Foreign,      \* a logo URL of another site: it has no file key
  Keys,         \* API keys
  MaxRequests,  \* bound: requests begun
  MaxFaults,    \* bound: failed calls and crashes
  Null          \* no URL, no key

ASSUME AccountAssumption ==
  /\ IsFiniteSet(Reqs) /\ IsFiniteSet(Files)
  /\ Foreign \notin Files /\ Null \notin Files /\ Foreign # Null
  /\ MaxRequests \in Nat /\ MaxFaults \in Nat

VARIABLES
  row,          \* the row of merchants
  store,        \* the files in the file store
  key,          \* key[k]: none, active or revoked
  req,          \* req[r]: the request in slot r
  \* history
  used,         \* files ever put in the store
  minted,       \* secrets generated; the number of a secret is its identity
  answered,     \* the secrets that registrations answered
  regenerated,  \* a regeneration has replaced the secret
  excused,      \* files the row may name in vain: see LogoServed
  slips,        \* events that may leave a file behind: see OrphansBounded
  atRevoke,     \* atRevoke[k]: validations of k under way when it was revoked
  late,         \* late[k]: requests admitted with k after it was revoked
  begun, faults \* the counters of the bounds

vars == <<row, store, key, req, used, minted, answered, regenerated, excused,
          slips, atRevoke, late, begun, faults>>

secretVars == <<minted, answered, regenerated>>
fileVars   == <<store, used, excused, slips>>
keyVars    == <<key, atRevoke, late>>
--------------------------------------------------------------------------------
(* The shape of the state.                                                  *)

Urls == Files \union {Foreign, Null}

MerchantRow == [here : BOOLEAN, logo : Urls, secret : Nat]
NoRow == [here |-> FALSE, logo |-> Null, secret |-> 0]

\* old is the logo the request read, new the one it will write.
Request == [pc  : {"idle", "put", "clean", "save", "create", "update",
                   "regenerate", "touch"},
            old : Urls, new : Urls, key : Keys \union {Null}]

Stage(pc, old, new) == [pc |-> pc, old |-> old, new |-> new, key |-> Null]
Check(k) == [pc |-> "touch", old |-> Null, new |-> Null, key |-> k]
Idle == Stage("idle", Null, Null)

TypeOK ==
  /\ row \in MerchantRow
  /\ store \subseteq Files
  /\ key \in [Keys -> {"none", "active", "revoked"}]
  /\ req \in [Reqs -> Request]
  /\ used \subseteq Files
  /\ minted \in Nat
  /\ answered \subseteq Nat
  /\ regenerated \in BOOLEAN
  /\ excused \subseteq Files
  /\ slips \in Nat
  /\ atRevoke \in [Keys -> Nat]
  /\ late \in [Keys -> Nat]
  /\ begun \in Nat /\ faults \in Nat

Init ==
  /\ row = NoRow
  /\ store = {}
  /\ key = [k \in Keys |-> "none"]
  /\ req = [r \in Reqs |-> Idle]
  /\ used = {}
  /\ minted = 0
  /\ answered = {}
  /\ regenerated = FALSE
  /\ excused = {}
  /\ slips = 0
  /\ atRevoke = [k \in Keys |-> 0]
  /\ late = [k \in Keys |-> 0]
  /\ begun = 0 /\ faults = 0

\* Requests between the lookup of the logo and the write of the row.
Changing == {r \in Reqs : req[r].pc \in {"put", "clean", "save"}}

At(r, pc) == req[r].pc = pc

\* Slot r is taken by a request whose lookup has just been made.
Begin(r, q) ==
  /\ At(r, "idle")
  /\ begun < MaxRequests
  /\ begun' = begun + 1
  /\ req' = [req EXCEPT ![r] = q]
  /\ UNCHANGED faults

Continue(r, q) ==
  /\ req' = [req EXCEPT ![r] = q]
  /\ UNCHANGED <<begun, faults>>
--------------------------------------------------------------------------------
(* The logo (upload.service.ts).                                            *)

\* A change that begins while another one is under way may miss its outcome.
BeginChange(r, q) ==
  /\ Begin(r, q)
  /\ slips' = IF Changing = {} THEN slips ELSE slips + 1
  /\ UNCHANGED <<row, store, used, excused, secretVars, keyVars>>

\* uploadMerchantLogo: the lookup.  An unknown merchant is rejected.
Upload(r) ==
  /\ row.here
  /\ BeginChange(r, Stage("put", row.logo, Null))

\* deleteMerchantLogo: a merchant without a row or a logo is rejected.
DeleteLogo(r) ==
  /\ row.here /\ row.logo # Null
  /\ BeginChange(r, Stage("clean", row.logo, Null))

\* The file goes to the store under a name of its own.
PutFile(r) ==
  /\ At(r, "put")
  /\ \E f \in Files \ used :
       /\ store' = store \union {f}
       /\ used' = used \union {f}
       /\ Continue(r, Stage(IF req[r].old = Null THEN "save" ELSE "clean", req[r].old, f))
  /\ UNCHANGED <<row, excused, slips, secretVars, keyVars>>

\* Mutant: the logo of the row at the moment is deleted, not the one read.
CleanOldCurrent(r) ==
  /\ At(r, "clean")
  /\ store' = store \ {row.logo}
  /\ Continue(r, Stage("save", req[r].old, req[r].new))
  /\ UNCHANGED <<row, used, excused, slips, secretVars, keyVars>>

\* Mutant: the old file stays.
CleanOldNothing(r) ==
  /\ At(r, "clean")
  /\ Continue(r, Stage("save", req[r].old, req[r].new))
  /\ UNCHANGED <<row, store, used, excused, slips, secretVars, keyVars>>

\* deleteOldLogo: the file of the logo that was read; a foreign URL names none.
CleanOld(r) ==
  /\ At(r, "clean")
  /\ store' = store \ {req[r].old}
  /\ Continue(r, Stage("save", req[r].old, req[r].new))
  /\ UNCHANGED <<row, used, excused, slips, secretVars, keyVars>>

SaveLogo(r) ==
  /\ At(r, "save")
  /\ row' = [row EXCEPT !.logo = req[r].new]
  /\ Continue(r, Idle)
  /\ UNCHANGED <<fileVars, secretVars, keyVars>>
--------------------------------------------------------------------------------
(* The row (merchant.service.ts, and the indexer).                          *)

\* registerMerchant: an existing row is the answer, whatever was sent.
RegisterAgain(r) ==
  /\ At(r, "idle")
  /\ row.here
  /\ answered' = answered \union {row.secret}
  /\ UNCHANGED <<row, req, minted, regenerated, fileVars, keyVars, begun, faults>>

\* No row yet: a registration with or without a logo URL of the merchant's own.
Register(r) ==
  /\ ~row.here
  /\ \E u \in {Foreign, Null} : Begin(r, Stage("create", Null, u))
  /\ UNCHANGED <<row, fileVars, secretVars, keyVars>>

\* Mutant: the row is written whether it is there or not.
CreateRowAnyway(r) ==
  /\ At(r, "create")
  /\ row' = [here |-> TRUE, logo |-> req[r].new, secret |-> minted + 1]
  /\ minted' = minted + 1
  /\ answered' = answered \union {minted'}
  /\ Continue(r, Idle)
  /\ UNCHANGED <<regenerated, fileVars, keyVars>>

\* Mutant: no secret is generated.
CreateRowSecretless(r) ==
  /\ At(r, "create")
  /\ \/ ~row.here /\ row' = [here |-> TRUE, logo |-> req[r].new, secret |-> Null]
     \/ row.here /\ UNCHANGED row
  /\ Continue(r, Idle)
  /\ UNCHANGED <<fileVars, secretVars, keyVars>>

\* merchant.create violates the primary key when the row appeared meanwhile.
CreateRow(r) ==
  /\ At(r, "create")
  /\ \/ /\ ~row.here
        /\ row' = [here |-> TRUE, logo |-> req[r].new, secret |-> minted + 1]
        /\ minted' = minted + 1
        /\ answered' = answered \union {minted'}
     \/ row.here /\ UNCHANGED <<row, minted, answered>>
  /\ Continue(r, Idle)
  /\ UNCHANGED <<regenerated, fileVars, keyVars>>

\* syncMerchantPlans: a merchant seen on chain gets a row with nothing in it.
IndexMerchant ==
  /\ ~row.here
  /\ row' = [here |-> TRUE, logo |-> Null, secret |-> 0]
  /\ UNCHANGED <<req, fileVars, secretVars, keyVars, begun, faults>>

\* updateMerchant with a logo URL: a foreign one, none, or any that the store
\* ever served, as a client that read it earlier sends it back.  (Without one the
\* logo is left alone.)
Update(r) ==
  /\ row.here
  /\ \E u \in used \union {Foreign, Null} :
       Begin(r, Stage("update", Null, u))
  /\ UNCHANGED <<row, fileVars, secretVars, keyVars>>

SaveProfile(r) ==
  /\ At(r, "update")
  /\ row' = [row EXCEPT !.logo = req[r].new]
  /\ excused' = excused \union (Files \intersect {req[r].new})
  /\ slips' = slips + 1
  /\ Continue(r, Idle)
  /\ UNCHANGED <<store, used, secretVars, keyVars>>

Regenerate(r) ==
  /\ row.here
  /\ Begin(r, Stage("regenerate", Null, Null))
  /\ UNCHANGED <<row, fileVars, secretVars, keyVars>>

SaveSecret(r) ==
  /\ At(r, "regenerate")
  /\ row' = [row EXCEPT !.secret = minted + 1]
  /\ minted' = minted + 1
  /\ regenerated' = TRUE
  /\ Continue(r, Idle)
  /\ UNCHANGED <<answered, fileVars, keyVars>>
--------------------------------------------------------------------------------
(* The API keys (api-keys.service.ts).                                      *)

CreateApiKey(k) ==
  /\ key[k] = "none"
  /\ key' = [key EXCEPT ![k] = "active"]
  /\ UNCHANGED <<row, req, fileVars, secretVars, atRevoke, late, begun, faults>>

\* Mutant: the lookup does not ask for an active key.
ValidateAny(r, k) ==
  /\ key[k] # "none"
  /\ Begin(r, Check(k))
  /\ UNCHANGED <<row, fileVars, secretVars, keyVars>>

\* validateApiKey: the lookup finds active keys only.  Nothing ever sets
\* expiresAt, so no key expires.
Validate(r, k) ==
  /\ key[k] = "active"
  /\ Begin(r, Check(k))
  /\ UNCHANGED <<row, fileVars, secretVars, keyVars>>

\* The write of lastUsedAt looks at the id alone; then the guard admits.
Admit(r) ==
  /\ At(r, "touch")
  /\ late' = IF key[req[r].key] = "revoked" THEN [late EXCEPT ![req[r].key] = @ + 1]
                                            ELSE late
  /\ Continue(r, Idle)
  /\ UNCHANGED <<row, key, atRevoke, fileVars, secretVars>>

Touching(k) == {r \in Reqs : req[r].pc = "touch" /\ req[r].key = k}

\* A key that is not active any more stays so.
RevokeApiKey(k) ==
  /\ key[k] = "active"
  /\ key' = [key EXCEPT ![k] = "revoked"]
  /\ atRevoke' = [atRevoke EXCEPT ![k] = Cardinality(Touching(k))]
  /\ UNCHANGED <<row, req, late, fileVars, secretVars, begun, faults>>
--------------------------------------------------------------------------------
(* Failures.                                                                *)

Fail ==
  /\ faults < MaxFaults
  /\ faults' = faults + 1
  /\ UNCHANGED <<row, secretVars, keyVars, begun>>

\* The upload rejects or answers an error; the file may be in the store all the
\* same.
PutError(r) ==
  /\ At(r, "put")
  /\ \/ UNCHANGED <<store, used>>
     \/ \E f \in Files \ used : store' = store \union {f} /\ used' = used \union {f}
  /\ slips' = slips + 1
  /\ req' = [req EXCEPT ![r] = Idle]
  /\ UNCHANGED excused
  /\ Fail

\* deleteOldLogo swallows its error: the file stays and the request goes on.
CleanError(r) ==
  /\ At(r, "clean")
  /\ slips' = slips + 1
  /\ req' = [req EXCEPT ![r] = Stage("save", req[r].old, req[r].new)]
  /\ UNCHANGED <<store, used, excused>>
  /\ Fail

\* A statement rejects and ends the request.  If it is the write of the row, the
\* old logo's file is gone and its URL is still there.
StatementError(r) ==
  /\ req[r].pc \in {"save", "create", "update", "regenerate", "touch"}
  /\ \/ /\ At(r, "save")
        /\ excused' = excused \union (Files \intersect {req[r].old})
        /\ slips' = slips + 1
     \/ ~At(r, "save") /\ UNCHANGED <<excused, slips>>
  /\ req' = [req EXCEPT ![r] = Idle]
  /\ UNCHANGED <<store, used>>
  /\ Fail

\* The process dies with every request under way.
Crash ==
  /\ \E r \in Reqs : ~At(r, "idle")
  /\ slips' = slips + Cardinality(Changing)
  /\ excused' = excused \union {f \in Files : \E r \in Reqs : At(r, "save") /\ req[r].old = f}
  /\ req' = [r \in Reqs |-> Idle]
  /\ UNCHANGED <<store, used>>
  /\ Fail
--------------------------------------------------------------------------------
LogoStep(r) ==
  Upload(r) \/ DeleteLogo(r) \/ PutFile(r) \/ CleanOld(r) \/ SaveLogo(r)

RowStep(r) ==
  \/ RegisterAgain(r) \/ Register(r)   \/ CreateRow(r)
  \/ Update(r)        \/ SaveProfile(r) \/ Regenerate(r) \/ SaveSecret(r)

KeyStep ==
  \/ \E k \in Keys : CreateApiKey(k) \/ RevokeApiKey(k)
  \/ \E r \in Reqs : Admit(r) \/ \E k \in Keys : Validate(r, k)

Error ==
  \/ \E r \in Reqs : PutError(r) \/ CleanError(r) \/ StatementError(r)
  \/ Crash

Next ==
  \/ \E r \in Reqs : LogoStep(r) \/ RowStep(r)
  \/ IndexMerchant
  \/ KeyStep
  \/ Error

Spec == Init /\ [][Next]_vars
--------------------------------------------------------------------------------
(* Properties.                                                              *)

\* The logo that the row names is in the file store, although every change
\* deletes the file it read some awaits ago: unless the change that deleted it is
\* about to write the row, or failed to (line 100 before line 104), or a profile
\* update put the URL back.
LogoServed ==
  row.logo \in Files \ excused =>
    \/ row.logo \in store
    \/ \E r \in Reqs : At(r, "save") /\ req[r].old = row.logo

\* Files that no row names and no request is about to name: each one is paid for
\* by a change that began while another was under way, by a profile update, or by
\* a failure.  Changes made one after the other leave nothing behind.
Unnamed == store \ ({row.logo} \union {req[r].new : r \in Changing})
OrphansBounded == Cardinality(Unnamed) <= slips

\* Until the secret is regenerated every registration answers the secret of the
\* row, however registrations, profile changes and the indexer race to create it.
\* It is 0, no secret, when the indexer was first.
RegistrationsAgree ==
  ~regenerated => \A a \in answered : row.here /\ a = row.secret

\* After its revocation a key admits at most the requests whose lookup was under
\* way at that moment.
RevocationSettles ==
  \A k \in Keys :
    IF key[k] = "revoked" THEN late[k] + Cardinality(Touching(k)) <= atRevoke[k]
                          ELSE late[k] = 0
================================================================================
