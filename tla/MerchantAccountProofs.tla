------------------------- MODULE MerchantAccountProofs -------------------------
(****************************************************************************)
(* The merchant's account for any number of requests, files and keys: which *)
(* file the row may name, what registrations answer, and how many requests  *)
(* a revoked key still admits.                                              *)
(****************************************************************************)
EXTENDS MerchantAccount, FiniteSetTheorems, TLAPS

LEMMA RowTyped ==
  ASSUME NEW x \in MerchantRow
  PROVE  /\ \A u \in Urls : [x EXCEPT !.logo = u] \in MerchantRow
         /\ \A n \in Nat : [x EXCEPT !.secret = n] \in MerchantRow
         /\ x.logo \in Urls /\ x.secret \in Nat
BY DEF MerchantRow

LEMMA NewRowTyped ==
  ASSUME NEW u \in Urls, NEW n \in Nat
  PROVE  [here |-> TRUE, logo |-> u, secret |-> n] \in MerchantRow
BY DEF MerchantRow

LEMMA BareRowTyped ==
  /\ NoRow \in MerchantRow
  /\ [here |-> TRUE, logo |-> Null, secret |-> 0] \in MerchantRow
BY DEF NoRow, MerchantRow, Urls

LEMMA StageTyped ==
  ASSUME NEW pc \in {"idle", "put", "clean", "save", "create", "update", "regenerate"},
         NEW u \in Urls, NEW v \in Urls
  PROVE  Stage(pc, u, v) \in Request
BY DEF Stage, Request

LEMMA RequestTyped ==
  /\ Null \in Urls /\ Foreign \in Urls /\ Files \subseteq Urls
  /\ Idle \in Request
  /\ \A k \in Keys : Check(k) \in Request
  /\ \A q \in Request : q.old \in Urls /\ q.new \in Urls /\ q.key \in Keys \union {Null}
<1>1. Null \in Urls /\ Foreign \in Urls /\ Files \subseteq Urls
  BY DEF Urls
<1>2. Idle \in Request
  BY <1>1, StageTyped DEF Idle
<1> QED
  BY <1>1, <1>2 DEF Check, Request

\* Every step moves one request, or all to idle, or none.
LEMMA BeginFacts ==
  ASSUME TypeOK, NEW r \in Reqs, NEW q \in Request, Begin(r, q) \/ Continue(r, q)
  PROVE  /\ req' \in [Reqs -> Request]
         /\ begun' \in Nat /\ faults' \in Nat
         /\ req'[r] = q
         /\ \A o \in Reqs : o # r => req'[o] = req[o]
BY DEF Begin, Continue, TypeOK

LEMMA LogoStepTyped ==
  ASSUME TypeOK, NEW r \in Reqs, LogoStep(r)
  PROVE  TypeOK'
<1>0. row.logo \in Urls /\ req[r].old \in Urls /\ req[r].new \in Urls
  BY RowTyped, RequestTyped DEF TypeOK
<1>1. ASSUME Upload(r) \/ DeleteLogo(r) PROVE TypeOK'
  <2>1. PICK q \in Request : BeginChange(r, q)
    BY <1>0, <1>1, StageTyped, RequestTyped DEF Upload, DeleteLogo
  <2>2. Begin(r, q)
    BY <2>1 DEF BeginChange
  <2>3. /\ req' \in [Reqs -> Request]
        /\ begun' \in Nat /\ faults' \in Nat
    BY <2>2, BeginFacts
  <2> QED
    BY <2>1, <2>3 DEF BeginChange, TypeOK, secretVars, keyVars
<1>2. ASSUME PutFile(r) PROVE TypeOK'
  <2>1. PICK f \in Files \ used :
          /\ store' = store \union {f}
          /\ used' = used \union {f}
          /\ Continue(r, Stage(IF req[r].old = Null THEN "save" ELSE "clean", req[r].old, f))
    BY <1>2 DEF PutFile
  <2>2. Stage(IF req[r].old = Null THEN "save" ELSE "clean", req[r].old, f) \in Request
    BY <1>0, StageTyped, RequestTyped
  <2>3. /\ req' \in [Reqs -> Request]
        /\ begun' \in Nat /\ faults' \in Nat
    BY <2>1, <2>2, BeginFacts
  <2> QED
    BY <1>2, <2>1, <2>3 DEF PutFile, TypeOK, secretVars, keyVars
<1>3. ASSUME CleanOld(r) PROVE TypeOK'
  <2>1. Stage("save", req[r].old, req[r].new) \in Request
    BY <1>0, StageTyped
  <2>2. /\ req' \in [Reqs -> Request]
        /\ begun' \in Nat /\ faults' \in Nat
    BY <1>3, <2>1, BeginFacts DEF CleanOld
  <2> QED
    BY <1>3, <2>2 DEF CleanOld, TypeOK, secretVars, keyVars
<1>4. ASSUME SaveLogo(r) PROVE TypeOK'
  <2>1. /\ req' \in [Reqs -> Request]
        /\ begun' \in Nat /\ faults' \in Nat
    BY <1>4, BeginFacts, RequestTyped DEF SaveLogo
  <2>2. row' \in MerchantRow
    BY <1>0, <1>4, RowTyped DEF SaveLogo, TypeOK
  <2> QED
    BY <1>4, <2>1, <2>2 DEF SaveLogo, TypeOK, secretVars, keyVars, fileVars
<1> QED
  BY <1>1, <1>2, <1>3, <1>4 DEF LogoStep

LEMMA RowStepTyped ==
  ASSUME TypeOK, NEW r \in Reqs, RowStep(r)
  PROVE  TypeOK'
<1>0. /\ row.logo \in Urls /\ row.secret \in Nat
      /\ req[r].old \in Urls /\ req[r].new \in Urls
  BY RowTyped, RequestTyped DEF TypeOK
<1>1. ASSUME RegisterAgain(r) PROVE TypeOK'
  BY <1>0, <1>1 DEF RegisterAgain, TypeOK, fileVars, keyVars
<1>2. ASSUME Register(r) \/ Update(r) \/ Regenerate(r) PROVE TypeOK'
  <2>1. PICK q \in Request : Begin(r, q)
    BY <1>2, StageTyped, RequestTyped DEF Register, Update, Regenerate, TypeOK
  <2>2. /\ req' \in [Reqs -> Request]
        /\ begun' \in Nat /\ faults' \in Nat
    BY <2>1, BeginFacts
  <2> QED
    BY <1>2, <2>2 DEF Register, Update, Regenerate, TypeOK, secretVars, keyVars, fileVars
<1>3. ASSUME CreateRow(r) \/ SaveProfile(r) \/ SaveSecret(r) PROVE TypeOK'
  <2>1. /\ req' \in [Reqs -> Request]
        /\ begun' \in Nat /\ faults' \in Nat
    BY <1>3, BeginFacts, RequestTyped DEF CreateRow, SaveProfile, SaveSecret
  <2>2. CASE CreateRow(r)
    <3>1. row' \in MerchantRow
      BY <1>0, <2>2, NewRowTyped DEF CreateRow, TypeOK
    <3>2. minted' \in Nat /\ answered' \subseteq Nat
      <4>1. CASE UNCHANGED <<minted, answered>>
        BY <4>1 DEF TypeOK
      <4>2. CASE minted' = minted + 1 /\ answered' = answered \union {minted'}
        BY <4>2 DEF TypeOK
      <4> QED
        BY <2>2, <4>1, <4>2 DEF CreateRow
    <3> QED
      BY <2>1, <2>2, <3>1, <3>2 DEF CreateRow, TypeOK, fileVars, keyVars
  <2>3. CASE SaveProfile(r)
    <3>1. row' \in MerchantRow
      BY <1>0, <2>3, RowTyped DEF SaveProfile, TypeOK
    <3> QED
      BY <2>1, <2>3, <3>1 DEF SaveProfile, TypeOK, secretVars, keyVars
  <2>4. CASE SaveSecret(r)
    <3>1. row' \in MerchantRow
      BY <1>0, <2>4, RowTyped DEF SaveSecret, TypeOK
    <3> QED
      BY <2>1, <2>4, <3>1 DEF SaveSecret, TypeOK, fileVars, keyVars
  <2> QED
    BY <1>3, <2>2, <2>3, <2>4
<1> QED
  BY <1>1, <1>2, <1>3 DEF RowStep

LEMMA TouchingCount ==
  ASSUME NEW k \in Keys
  PROVE  IsFiniteSet(Touching(k)) /\ Cardinality(Touching(k)) \in Nat
<1>1. Touching(k) \subseteq Reqs
  BY DEF Touching
<1> QED
  BY <1>1, AccountAssumption, FS_Subset, FS_CardinalityType

LEMMA ChangingCount == IsFiniteSet(Changing) /\ Cardinality(Changing) \in Nat
<1>1. Changing \subseteq Reqs
  BY DEF Changing
<1> QED
  BY <1>1, AccountAssumption, FS_Subset, FS_CardinalityType

LEMMA KeyStepTyped == TypeOK /\ KeyStep => TypeOK'
<1> SUFFICES ASSUME TypeOK, KeyStep PROVE TypeOK'
  OBVIOUS
<1>1. ASSUME NEW k \in Keys, CreateApiKey(k) PROVE TypeOK'
  BY <1>1 DEF CreateApiKey, TypeOK, fileVars, secretVars
<1>2. ASSUME NEW k \in Keys, RevokeApiKey(k) PROVE TypeOK'
  <2>1. PICK n \in Nat : n = Cardinality(Touching(k))
    BY TouchingCount
  <2>2. atRevoke' = [atRevoke EXCEPT ![k] = n]
    BY <1>2, <2>1 DEF RevokeApiKey
  <2> QED
    BY <1>2, <2>2 DEF RevokeApiKey, TypeOK, fileVars, secretVars
<1>3. ASSUME NEW r \in Reqs, Admit(r) PROVE TypeOK'
  <2>1. /\ req' \in [Reqs -> Request]
        /\ begun' \in Nat /\ faults' \in Nat
    BY <1>3, BeginFacts, RequestTyped DEF Admit
  <2>2. late' \in [Keys -> Nat]
    <3>1. PICK k : k = req[r].key
      OBVIOUS
    <3>2. late' = late \/ late' = [late EXCEPT ![k] = @ + 1]
      BY <1>3, <3>1 DEF Admit
    <3> QED
      BY <3>2 DEF TypeOK
  <2> QED
    BY <1>3, <2>1, <2>2 DEF Admit, TypeOK, fileVars, secretVars
<1>4. ASSUME NEW r \in Reqs, NEW k \in Keys, Validate(r, k) PROVE TypeOK'
  <2>1. /\ req' \in [Reqs -> Request]
        /\ begun' \in Nat /\ faults' \in Nat
    BY <1>4, BeginFacts, RequestTyped DEF Validate
  <2> QED
    BY <1>4, <2>1 DEF Validate, TypeOK, fileVars, secretVars, keyVars
<1> QED
  BY <1>1, <1>2, <1>3, <1>4 DEF KeyStep

LEMMA ErrorTyped == TypeOK /\ Error => TypeOK'
<1> SUFFICES ASSUME TypeOK, Error PROVE TypeOK'
  OBVIOUS
<1>1. ASSUME NEW r \in Reqs, PutError(r) PROVE TypeOK'
  BY <1>1, RequestTyped DEF PutError, Fail, TypeOK, secretVars, keyVars
<1>2. ASSUME NEW r \in Reqs, CleanError(r) PROVE TypeOK'
  <2>1. Stage("save", req[r].old, req[r].new) \in Request
    BY StageTyped, RequestTyped DEF TypeOK
  <2> QED
    BY <1>2, <2>1 DEF CleanError, Fail, TypeOK, secretVars, keyVars
<1>3. ASSUME NEW r \in Reqs, StatementError(r) PROVE TypeOK'
  BY <1>3, RequestTyped DEF StatementError, Fail, TypeOK, secretVars, keyVars
<1>4. ASSUME Crash PROVE TypeOK'
  <2>1. slips' \in Nat
    BY <1>4, ChangingCount DEF Crash, TypeOK
  <2> QED
    BY <1>4, <2>1, RequestTyped DEF Crash, Fail, TypeOK, secretVars, keyVars
<1> QED
  BY <1>1, <1>2, <1>3, <1>4 DEF Error

LEMMA NextTyped == TypeOK /\ [Next]_vars => TypeOK'
<1> SUFFICES ASSUME TypeOK, [Next]_vars PROVE TypeOK'
  OBVIOUS
<1>1. CASE IndexMerchant
  BY <1>1, BareRowTyped DEF IndexMerchant, TypeOK, fileVars, secretVars, keyVars
<1>2. CASE UNCHANGED vars
  BY <1>2 DEF vars, TypeOK
<1> QED
  BY <1>1, <1>2, LogoStepTyped, RowStepTyped, KeyStepTyped, ErrorTyped DEF Next

LEMMA InitTyped == Init => TypeOK
<1> SUFFICES ASSUME Init PROVE TypeOK
  OBVIOUS
<1>1. row \in MerchantRow /\ req \in [Reqs -> Request]
  BY RequestTyped, BareRowTyped DEF Init
<1>2. /\ key \in [Keys -> {"none", "active", "revoked"}]
      /\ late \in [Keys -> Nat] /\ atRevoke \in [Keys -> Nat]
  BY DEF Init
<1>3. /\ store \subseteq Files /\ used \subseteq Files /\ excused \subseteq Files
      /\ minted \in Nat /\ answered \subseteq Nat /\ regenerated \in BOOLEAN
      /\ slips \in Nat /\ begun \in Nat /\ faults \in Nat
  BY DEF Init
<1> QED
  BY <1>1, <1>2, <1>3 DEF TypeOK

\* Every step keeps the state of the account well-typed.
THEOREM TypeCorrect == Spec => []TypeOK
BY InitTyped, NextTyped, PTL DEF Spec

--------------------------------------------------------------------------------
(* The logo.                                                                *)

\* The file a change is about to name is its own: it is in the store, the row does
\* not name it yet, and no other change read it or will write it.
OwnFile(r) ==
  LET f == req[r].new IN
  /\ f \in store
  /\ row.logo # f
  /\ \A q \in Reqs : /\ req[q].old # f
                     /\ q # r /\ req[q].pc \in {"clean", "save"} => req[q].new # f

OwnFiles ==
  \A r \in Reqs : req[r].pc \in {"clean", "save"} /\ req[r].new \in Files \ excused => OwnFile(r)

\* Whatever names a file names one that was put in the store.
NamesUsed ==
  /\ store \subseteq used
  /\ row.logo \in Files => row.logo \in used
  /\ \A r \in Reqs : /\ req[r].old \in Files => req[r].old \in used
                     /\ req[r].new \in Files => req[r].new \in used
                     /\ req[r].pc = "create" => req[r].new \notin Files

\* The inductive invariant behind LogoServed.
LogoInv == TypeOK /\ LogoServed /\ NamesUsed /\ OwnFiles

LEMMA RowFields ==
  ASSUME NEW x \in MerchantRow
  PROVE  /\ \A u \in Urls : [x EXCEPT !.logo = u].logo = u /\ [x EXCEPT !.logo = u].here = x.here
         /\ \A n \in Nat : [x EXCEPT !.secret = n].logo = x.logo
BY DEF MerchantRow

LEMMA StageFields ==
  ASSUME NEW pc, NEW u, NEW v
  PROVE  Stage(pc, u, v).pc = pc /\ Stage(pc, u, v).old = u /\ Stage(pc, u, v).new = v
BY DEF Stage

LEMMA NamesNull ==
  /\ Null \notin Files /\ Foreign \notin Files
  /\ Idle.pc = "idle" /\ Idle.old = Null /\ Idle.new = Null
  /\ \A k : Check(k).pc = "touch" /\ Check(k).old = Null /\ Check(k).new = Null
BY AccountAssumption DEF Idle, Stage, Check

\* A step that writes neither the row's logo nor the store, and leaves alone every
\* request that is about to write the row.
LEMMA QuietLogo ==
  ASSUME LogoInv, NEW r \in Reqs, ~At(r, "save"),
         row'.logo = row.logo, UNCHANGED <<store, used>>,
         excused \subseteq excused',
         \A o \in Reqs : o # r => req'[o] = req[o],
         req'[r].pc \notin {"clean", "save"},
         req'[r].old \in {Null, row.logo},
         req'[r].new \in used \union {Foreign, Null},
         req'[r].pc = "create" => req'[r].new \in {Foreign, Null}
  PROVE  LogoServed' /\ NamesUsed' /\ OwnFiles'
<1>1. LogoServed'
  BY DEF LogoInv, LogoServed, At
<1>2. NamesUsed'
  BY NamesNull DEF LogoInv, NamesUsed
<1>3. OwnFiles'
  <2> SUFFICES ASSUME NEW o \in Reqs, req'[o].pc \in {"clean", "save"},
                      req'[o].new \in Files \ excused'
               PROVE  OwnFile(o)'
    BY DEF OwnFiles
  <2>1. req'[o] = req[o] /\ OwnFile(o)
    BY DEF LogoInv, OwnFiles
  <2> QED
    BY <2>1, NamesNull DEF OwnFile
<1> QED
  BY <1>1, <1>2, <1>3

LEMMA UploadKeeps ==
  ASSUME LogoInv, NEW r \in Reqs, Upload(r)
  PROVE  LogoServed' /\ NamesUsed' /\ OwnFiles'
<1>1. Begin(r, Stage("put", row.logo, Null)) /\ UNCHANGED <<row, store, used, excused>>
  BY DEF Upload, BeginChange
<1>2. Stage("put", row.logo, Null) \in Request
  BY StageTyped, RowTyped, RequestTyped DEF LogoInv, TypeOK
<1>3. req'[r] = Stage("put", row.logo, Null) /\ \A o \in Reqs : o # r => req'[o] = req[o]
  BY <1>1, <1>2, BeginFacts DEF LogoInv
<1>4. ~At(r, "save")
  BY <1>1 DEF Begin, At
<1> QED
  BY <1>1, <1>3, <1>4, StageFields, QuietLogo

LEMMA DeleteLogoKeeps ==
  ASSUME LogoInv, NEW r \in Reqs, DeleteLogo(r)
  PROVE  LogoServed' /\ NamesUsed' /\ OwnFiles'
<1>1. Begin(r, Stage("clean", row.logo, Null)) /\ UNCHANGED <<row, store, used, excused>>
  BY DEF DeleteLogo, BeginChange
<1>2. Stage("clean", row.logo, Null) \in Request
  BY StageTyped, RowTyped, RequestTyped DEF LogoInv, TypeOK
<1>3. req'[r] = Stage("clean", row.logo, Null) /\ \A o \in Reqs : o # r => req'[o] = req[o]
  BY <1>1, <1>2, BeginFacts DEF LogoInv
<1>4. req[r].pc = "idle"
  BY <1>1 DEF Begin, At
<1>5. /\ req'[r].pc = "clean" /\ req'[r].old = row.logo /\ req'[r].new = Null
  BY <1>3, StageFields
<1>6. LogoServed'
  BY <1>1, <1>3, <1>4 DEF LogoInv, LogoServed, At
<1>7. NamesUsed'
  BY <1>1, <1>3, <1>5, NamesNull DEF LogoInv, NamesUsed
<1>8. OwnFiles'
  <2> SUFFICES ASSUME NEW o \in Reqs, req'[o].pc \in {"clean", "save"},
                      req'[o].new \in Files \ excused'
               PROVE  OwnFile(o)'
    BY DEF OwnFiles
  <2>1. o # r /\ req'[o] = req[o]
    BY <1>3, <1>5, NamesNull
  <2>2. OwnFile(o)
    BY <1>1, <2>1 DEF LogoInv, OwnFiles
  <2> QED
    BY <1>1, <1>3, <1>5, <2>1, <2>2, NamesNull DEF OwnFile
<1> QED
  BY <1>6, <1>7, <1>8

LEMMA PutFileKeeps ==
  ASSUME LogoInv, NEW r \in Reqs, PutFile(r)
  PROVE  LogoServed' /\ NamesUsed' /\ OwnFiles'
<1>1. PICK f \in Files \ used :
        /\ store' = store \union {f}
        /\ used' = used \union {f}
        /\ Continue(r, Stage(IF req[r].old = Null THEN "save" ELSE "clean", req[r].old, f))
  BY DEF PutFile
<1>2. PICK pc \in {"clean", "save"} : pc = IF req[r].old = Null THEN "save" ELSE "clean"
  OBVIOUS
<1>3. Stage(pc, req[r].old, f) \in Request
  BY <1>2, StageTyped, RequestTyped DEF LogoInv, TypeOK
<1>4. req'[r] = Stage(pc, req[r].old, f) /\ \A o \in Reqs : o # r => req'[o] = req[o]
  BY <1>1, <1>2, <1>3, BeginFacts DEF LogoInv
<1>5. /\ req'[r].pc = pc /\ req'[r].old = req[r].old /\ req'[r].new = f
      /\ req[r].pc = "put" /\ UNCHANGED <<row, excused>>
  BY <1>4, StageFields DEF PutFile, At
<1>6. LogoServed'
  BY <1>1, <1>4, <1>5 DEF LogoInv, LogoServed, At
<1>7. NamesUsed'
  <2>1. store' \subseteq used' /\ (row'.logo \in Files => row'.logo \in used')
    BY <1>1, <1>5 DEF LogoInv, NamesUsed
  <2>2. ASSUME NEW o \in Reqs
        PROVE  /\ req'[o].old \in Files => req'[o].old \in used'
               /\ req'[o].new \in Files => req'[o].new \in used'
               /\ req'[o].pc = "create" => req'[o].new \notin Files
    BY <1>1, <1>4, <1>5, <2>2 DEF LogoInv, NamesUsed
  <2> QED
    BY <2>1, <2>2 DEF NamesUsed
<1>8. \A o \in Reqs : req'[o].old = req[o].old
  BY <1>4, <1>5
<1>9. OwnFiles'
  <2> SUFFICES ASSUME NEW o \in Reqs, req'[o].pc \in {"clean", "save"},
                      req'[o].new \in Files \ excused'
               PROVE  OwnFile(o)'
    BY DEF OwnFiles
  <2>1. CASE o = r
    <3>1. \A q \in Reqs : req[q].old # f /\ req[q].new # f
      BY <1>1 DEF LogoInv, NamesUsed
    <3>2. row.logo # f
      BY <1>1 DEF LogoInv, NamesUsed
    <3> QED
      BY <1>1, <1>4, <1>5, <1>8, <2>1, <3>1, <3>2 DEF OwnFile
  <2>2. CASE o # r
    <3>1. req'[o] = req[o] /\ OwnFile(o)
      BY <1>4, <1>5, <2>2 DEF LogoInv, OwnFiles
    <3>2. req[o].new # f
      BY <1>1, <3>1 DEF LogoInv, NamesUsed
    <3> QED
      BY <1>1, <1>4, <1>5, <1>8, <2>2, <3>1, <3>2 DEF OwnFile
  <2> QED
    BY <2>1, <2>2
<1> QED
  BY <1>6, <1>7, <1>9

\* The old file is deleted, or its deletion failed; either way the request goes on
\* to write the row.
LEMMA CleanKeeps ==
  ASSUME LogoInv, NEW r \in Reqs, At(r, "clean"),
         store' \in {store, store \ {req[r].old}},
         req' = [req EXCEPT ![r] = Stage("save", req[r].old, req[r].new)],
         UNCHANGED <<row, used, excused>>
  PROVE  LogoServed' /\ NamesUsed' /\ OwnFiles'
<1>1. /\ req'[r] = Stage("save", req[r].old, req[r].new)
      /\ \A o \in Reqs : o # r => req'[o] = req[o]
  BY DEF LogoInv, TypeOK
<1>2. /\ req'[r].pc = "save" /\ req'[r].old = req[r].old /\ req'[r].new = req[r].new
      /\ req[r].pc = "clean"
  BY <1>1, StageFields DEF At
<1>3. \A o \in Reqs : req'[o].old = req[o].old /\ req'[o].new = req[o].new
  BY <1>1, <1>2
<1>4. LogoServed'
  <2> SUFFICES ASSUME row.logo \in Files \ excused, row.logo \notin store'
               PROVE  \E o \in Reqs : req'[o].pc = "save" /\ req'[o].old = row.logo
    BY DEF LogoServed, At
  <2>1. CASE req[r].old = row.logo
    BY <1>2, <2>1
  <2>2. CASE req[r].old # row.logo
    <3>1. row.logo \notin store
      BY <2>2
    <3>2. PICK o \in Reqs : req[o].pc = "save" /\ req[o].old = row.logo
      BY <3>1 DEF LogoInv, LogoServed, At
    <3> QED
      BY <1>1, <1>2, <3>2
  <2> QED
    BY <2>1, <2>2
<1>5. NamesUsed'
  <2>1. ASSUME NEW o \in Reqs
        PROVE  req'[o].pc = "create" => req'[o].new \notin Files
    BY <1>1, <1>2 DEF LogoInv, NamesUsed
  <2> QED
    BY <1>3, <2>1 DEF LogoInv, NamesUsed
<1>6. OwnFiles'
  <2> SUFFICES ASSUME NEW o \in Reqs, req'[o].pc \in {"clean", "save"},
                      req'[o].new \in Files \ excused'
               PROVE  OwnFile(o)'
    BY DEF OwnFiles
  <2>1. OwnFile(o) /\ \A q \in Reqs : req'[q].pc \in {"clean", "save"} <=> req[q].pc \in {"clean", "save"}
    BY <1>1, <1>2, <1>3 DEF LogoInv, OwnFiles
  <2>2. req[r].old # req[o].new
    BY <2>1 DEF OwnFile
  <2> QED
    BY <1>3, <2>1, <2>2 DEF OwnFile
<1> QED
  BY <1>4, <1>5, <1>6

LEMMA SaveLogoKeeps ==
  ASSUME LogoInv, NEW r \in Reqs, SaveLogo(r)
  PROVE  LogoServed' /\ NamesUsed' /\ OwnFiles'
<1>1. Idle \in Request /\ row \in MerchantRow /\ req[r].new \in Urls
  BY RequestTyped DEF LogoInv, TypeOK
<1>2. /\ req'[r] = Idle /\ \A o \in Reqs : o # r => req'[o] = req[o]
      /\ req[r].pc = "save" /\ UNCHANGED <<store, used, excused>>
  BY <1>1, BeginFacts DEF SaveLogo, LogoInv, At, fileVars
<1>3. row'.logo = req[r].new
  BY <1>1, RowFields DEF SaveLogo
<1>4. LogoServed'
  BY <1>2, <1>3 DEF LogoInv, OwnFiles, OwnFile, LogoServed
<1>5. NamesUsed'
  BY <1>2, <1>3, NamesNull DEF LogoInv, NamesUsed
<1>6. OwnFiles'
  <2> SUFFICES ASSUME NEW o \in Reqs, req'[o].pc \in {"clean", "save"},
                      req'[o].new \in Files \ excused'
               PROVE  OwnFile(o)'
    BY DEF OwnFiles
  <2>1. o # r /\ req'[o] = req[o]
    BY <1>2, NamesNull
  <2>2. OwnFile(o)
    BY <1>2, <2>1 DEF LogoInv, OwnFiles
  <2>3. req[r].new # req[o].new
    BY <1>2, <2>1, <2>2 DEF OwnFile
  <2> QED
    BY <1>2, <1>3, <2>1, <2>2, <2>3, NamesNull DEF OwnFile
<1> QED
  BY <1>4, <1>5, <1>6

\* The other writes of the logo: a foreign URL, none, or one that is excused.
LEMMA OtherLogo ==
  ASSUME LogoInv, NEW r \in Reqs, req[r].pc \in {"create", "update"},
         row'.logo = req[r].new, UNCHANGED <<store, used>>,
         excused' = excused \union (Files \intersect {req[r].new}),
         req'[r] = Idle, \A o \in Reqs : o # r => req'[o] = req[o]
  PROVE  LogoServed' /\ NamesUsed' /\ OwnFiles'
<1>1. LogoServed'
  BY DEF LogoServed
<1>2. NamesUsed'
  BY NamesNull DEF LogoInv, NamesUsed
<1>3. OwnFiles'
  <2> SUFFICES ASSUME NEW o \in Reqs, req'[o].pc \in {"clean", "save"},
                      req'[o].new \in Files \ excused'
               PROVE  OwnFile(o)'
    BY DEF OwnFiles
  <2>1. o # r /\ req'[o] = req[o] /\ req[o].new # req[r].new
    BY NamesNull
  <2>2. OwnFile(o)
    BY <2>1 DEF LogoInv, OwnFiles
  <2> QED
    BY <2>1, <2>2, NamesNull DEF OwnFile
<1> QED
  BY <1>1, <1>2, <1>3

LEMMA RowStepKeepsLogo ==
  ASSUME LogoInv, NEW r \in Reqs, RowStep(r)
  PROVE  LogoServed' /\ NamesUsed' /\ OwnFiles'
<1>0. /\ Idle \in Request /\ Null \in Urls /\ Foreign \in Urls
      /\ row \in MerchantRow /\ req[r].new \in Urls /\ minted + 1 \in Nat
      /\ used \subseteq Urls
  BY RequestTyped DEF LogoInv, TypeOK
<1>1. ASSUME RegisterAgain(r) PROVE LogoServed' /\ NamesUsed' /\ OwnFiles'
  BY <1>1 DEF RegisterAgain, fileVars, LogoInv, LogoServed, NamesUsed, OwnFiles, OwnFile, At
<1>2. ASSUME Register(r) \/ Update(r) \/ Regenerate(r)
      PROVE  LogoServed' /\ NamesUsed' /\ OwnFiles'
  <2>1. PICK pc \in {"create", "update", "regenerate"}, u \in used \union {Foreign, Null} :
          /\ Begin(r, Stage(pc, Null, u))
          /\ pc = "create" => u \in {Foreign, Null}
    BY <1>2 DEF Register, Update, Regenerate
  <2>2. Stage(pc, Null, u) \in Request
    BY <1>0, StageTyped
  <2>3. req'[r] = Stage(pc, Null, u) /\ \A o \in Reqs : o # r => req'[o] = req[o]
    BY <2>1, <2>2, BeginFacts DEF LogoInv
  <2>4. ~At(r, "save")
    BY <2>1 DEF Begin, At
  <2>5. UNCHANGED <<row, store, used, excused>>
    BY <1>2 DEF Register, Update, Regenerate, fileVars
  <2> QED
    BY <2>1, <2>3, <2>4, <2>5, StageFields, QuietLogo
<1>3. ASSUME CreateRow(r) \/ SaveProfile(r) \/ SaveSecret(r)
      PROVE  /\ req'[r] = Idle /\ \A o \in Reqs : o # r => req'[o] = req[o]
             /\ UNCHANGED <<store, used>>
  <2>1. Continue(r, Idle)
    BY <1>3 DEF CreateRow, SaveProfile, SaveSecret
  <2>2. req'[r] = Idle /\ \A o \in Reqs : o # r => req'[o] = req[o]
    BY <1>0, <2>1, BeginFacts DEF LogoInv
  <2> QED
    BY <1>3, <2>2 DEF CreateRow, SaveProfile, SaveSecret, fileVars
<1>4. ASSUME CreateRow(r) PROVE LogoServed' /\ NamesUsed' /\ OwnFiles'
  <2>1. UNCHANGED excused /\ req[r].pc = "create" /\ ~At(r, "save")
    BY <1>4 DEF CreateRow, fileVars, At
  <2>2. CASE UNCHANGED row
    BY <1>3, <1>4, <2>1, <2>2, NamesNull, QuietLogo
  <2>3. CASE row' = [here |-> TRUE, logo |-> req[r].new, secret |-> minted + 1]
    <3>1. row'.logo = req[r].new /\ Files \intersect {req[r].new} = {}
      BY <2>1, <2>3 DEF LogoInv, NamesUsed
    <3> QED
      BY <1>3, <1>4, <2>1, <3>1, OtherLogo
  <2> QED
    BY <1>4, <2>2, <2>3 DEF CreateRow
<1>5. ASSUME SaveProfile(r) PROVE LogoServed' /\ NamesUsed' /\ OwnFiles'
  <2>1. row'.logo = req[r].new
    BY <1>0, <1>5, RowFields DEF SaveProfile
  <2> QED
    BY <1>3, <1>5, <2>1, OtherLogo DEF SaveProfile, At
<1>6. ASSUME SaveSecret(r) PROVE LogoServed' /\ NamesUsed' /\ OwnFiles'
  <2>1. row'.logo = row.logo
    BY <1>0, <1>6, RowFields DEF SaveSecret
  <2>2. UNCHANGED excused /\ ~At(r, "save")
    BY <1>6 DEF SaveSecret, fileVars, At
  <2> QED
    BY <1>3, <1>6, <2>1, <2>2, NamesNull, QuietLogo
<1> QED
  BY <1>1, <1>2, <1>4, <1>5, <1>6 DEF RowStep

LEMMA KeyStepKeepsLogo ==
  ASSUME LogoInv, KeyStep
  PROVE  LogoServed' /\ NamesUsed' /\ OwnFiles'
<1>1. UNCHANGED <<row, store, used, excused>>
  BY DEF KeyStep, CreateApiKey, RevokeApiKey, Admit, Validate, fileVars
<1>2. CASE UNCHANGED req
  BY <1>1, <1>2 DEF LogoInv, LogoServed, NamesUsed, OwnFiles, OwnFile, At
<1>3. ASSUME NEW r \in Reqs, NEW q \in Request, Begin(r, q) \/ Continue(r, q),
             q.pc \in {"idle", "touch"}, q.old = Null, q.new = Null, ~At(r, "save")
      PROVE  LogoServed' /\ NamesUsed' /\ OwnFiles'
  <2>1. req'[r] = q /\ \A o \in Reqs : o # r => req'[o] = req[o]
    BY <1>3, BeginFacts DEF LogoInv
  <2> QED
    BY <1>1, <1>3, <2>1, QuietLogo
<1>4. ASSUME NEW r \in Reqs, Admit(r) PROVE LogoServed' /\ NamesUsed' /\ OwnFiles'
  BY <1>3, <1>4, RequestTyped, NamesNull DEF Admit, At
<1>5. ASSUME NEW r \in Reqs, NEW k \in Keys, Validate(r, k)
      PROVE  LogoServed' /\ NamesUsed' /\ OwnFiles'
  <2>1. ~At(r, "save")
    BY <1>5 DEF Validate, Begin, At
  <2> QED
    BY <1>3, <1>5, <2>1, RequestTyped, NamesNull DEF Validate
<1>6. ASSUME NEW k \in Keys, CreateApiKey(k) \/ RevokeApiKey(k) PROVE UNCHANGED req
  BY <1>6 DEF CreateApiKey, RevokeApiKey
<1> QED
  BY <1>2, <1>4, <1>5, <1>6 DEF KeyStep

\* A failure ends requests, adds at most a file nobody names, and excuses the URL
\* of a logo that was deleted in vain.
LEMMA EndedKeeps ==
  ASSUME LogoInv,
         \A r \in Reqs : \/ req'[r] = req[r]
                         \/ /\ req'[r] = Idle
                            /\ req[r].pc = "save" => Files \intersect {req[r].old} \subseteq excused',
         store \subseteq store', used \subseteq used', store' \subseteq used',
         excused \subseteq excused', UNCHANGED row
  PROVE  LogoServed' /\ NamesUsed' /\ OwnFiles'
<1>1. LogoServed'
  <2> SUFFICES ASSUME row.logo \in Files \ excused', row.logo \notin store
               PROVE  \E o \in Reqs : req'[o].pc = "save" /\ req'[o].old = row.logo
    BY DEF LogoServed, At
  <2>1. PICK o \in Reqs : req[o].pc = "save" /\ req[o].old = row.logo
    BY DEF LogoInv, LogoServed, At
  <2> QED
    BY <2>1
<1>2. NamesUsed'
  <2>1. ASSUME NEW o \in Reqs
        PROVE  /\ req'[o].old \in Files => req'[o].old \in used'
               /\ req'[o].new \in Files => req'[o].new \in used'
               /\ req'[o].pc = "create" => req'[o].new \notin Files
    BY NamesNull DEF LogoInv, NamesUsed
  <2> QED
    BY <2>1 DEF LogoInv, NamesUsed
<1>3. OwnFiles'
  <2> SUFFICES ASSUME NEW o \in Reqs, req'[o].pc \in {"clean", "save"},
                      req'[o].new \in Files \ excused'
               PROVE  OwnFile(o)'
    BY DEF OwnFiles
  <2>1. req'[o] = req[o] /\ OwnFile(o)
    BY NamesNull DEF LogoInv, OwnFiles
  <2>2. ASSUME NEW q \in Reqs
        PROVE  /\ req'[q].old # req'[o].new
               /\ q # o /\ req'[q].pc \in {"clean", "save"} => req'[q].new # req'[o].new
    BY <2>1, NamesNull DEF OwnFile
  <2> QED
    BY <2>1, <2>2 DEF OwnFile
<1> QED
  BY <1>1, <1>2, <1>3

LEMMA ErrorKeepsLogo ==
  ASSUME LogoInv, Error
  PROVE  LogoServed' /\ NamesUsed' /\ OwnFiles'
<1>0. UNCHANGED row /\ req \in [Reqs -> Request] /\ store \subseteq used
  BY DEF Error, PutError, CleanError, StatementError, Crash, Fail, LogoInv, TypeOK, NamesUsed
<1>1. ASSUME NEW r \in Reqs, PutError(r) PROVE LogoServed' /\ NamesUsed' /\ OwnFiles'
  <2>1. /\ req' = [req EXCEPT ![r] = Idle] /\ req[r].pc = "put" /\ UNCHANGED excused
        /\ store \subseteq store' /\ used \subseteq used' /\ store' \subseteq used'
    BY <1>0, <1>1 DEF PutError, At
  <2>2. \A o \in Reqs : req'[o] = req[o] \/ (req'[o] = Idle /\ req[o].pc # "save")
    BY <1>0, <2>1
  <2> QED
    BY <1>0, <2>1, <2>2, EndedKeeps
<1>2. ASSUME NEW r \in Reqs, CleanError(r) PROVE LogoServed' /\ NamesUsed' /\ OwnFiles'
  BY <1>0, <1>2, CleanKeeps DEF CleanError
<1>3. ASSUME NEW r \in Reqs, StatementError(r) PROVE LogoServed' /\ NamesUsed' /\ OwnFiles'
  <2>1. /\ req' = [req EXCEPT ![r] = Idle] /\ UNCHANGED <<store, used>>
        /\ excused \subseteq excused'
        /\ req[r].pc = "save" => Files \intersect {req[r].old} \subseteq excused'
    BY <1>3 DEF StatementError, At
  <2>2. \A o \in Reqs : \/ req'[o] = req[o]
                        \/ /\ req'[o] = Idle
                           /\ req[o].pc = "save" => Files \intersect {req[o].old} \subseteq excused'
    BY <1>0, <2>1
  <2> QED
    BY <1>0, <2>1, <2>2, EndedKeeps
<1>4. ASSUME Crash PROVE LogoServed' /\ NamesUsed' /\ OwnFiles'
  <2>1. /\ req' = [r \in Reqs |-> Idle] /\ UNCHANGED <<store, used>>
        /\ excused' = excused \union {f \in Files : \E r \in Reqs : At(r, "save") /\ req[r].old = f}
    BY <1>4 DEF Crash
  <2>2. \A o \in Reqs : /\ req'[o] = Idle
                        /\ req[o].pc = "save" => Files \intersect {req[o].old} \subseteq excused'
    BY <2>1 DEF At
  <2> QED
    BY <1>0, <2>1, <2>2, EndedKeeps
<1> QED
  BY <1>1, <1>2, <1>3, <1>4 DEF Error

LEMMA LogoInvKept == LogoInv /\ [Next]_vars => LogoInv'
<1> SUFFICES ASSUME LogoInv, [Next]_vars PROVE LogoServed' /\ NamesUsed' /\ OwnFiles'
  BY NextTyped DEF LogoInv
<1>1. ASSUME NEW r \in Reqs, LogoStep(r) PROVE LogoServed' /\ NamesUsed' /\ OwnFiles'
  <2>1. CASE CleanOld(r)
    BY <2>1, CleanKeeps DEF CleanOld, Continue
  <2> QED
    BY <1>1, <2>1, UploadKeeps, DeleteLogoKeeps, PutFileKeeps, SaveLogoKeeps DEF LogoStep
<1>2. CASE IndexMerchant
  <2>1. row'.logo = Null /\ UNCHANGED <<store, used, excused, req>>
    BY <1>2 DEF IndexMerchant, fileVars
  <2> QED
    BY <2>1, NamesNull DEF LogoInv, LogoServed, NamesUsed, OwnFiles, OwnFile
<1>3. CASE UNCHANGED vars
  BY <1>3 DEF vars, LogoInv, LogoServed, NamesUsed, OwnFiles, OwnFile, At
<1> QED
  BY <1>1, <1>2, <1>3, RowStepKeepsLogo, KeyStepKeepsLogo, ErrorKeepsLogo DEF Next

LEMMA LogoInvInit == Init => LogoInv
<1> SUFFICES ASSUME Init PROVE TypeOK /\ LogoServed /\ NamesUsed /\ OwnFiles
  BY DEF LogoInv
<1>1. TypeOK
  BY InitTyped
<1>2. row.logo = Null /\ store = {} /\ used = {} /\ \A r \in Reqs : req[r] = Idle
  BY DEF Init, NoRow
<1> QED
  BY <1>1, <1>2, NamesNull DEF LogoServed, NamesUsed, OwnFiles

\* For any number of concurrent uploads, deletions and profile updates the row
\* names a file of the store, except where LogoServed says why not.
THEOREM LogoIsServed == Spec => []LogoServed
<1>1. LogoInv => LogoServed
  BY DEF LogoInv
<1> QED
  BY <1>1, LogoInvInit, LogoInvKept, PTL DEF Spec
--------------------------------------------------------------------------------
(* The secret.                                                              *)

LEMMA SecretFields ==
  ASSUME NEW x \in MerchantRow, NEW u \in Urls
  PROVE  [x EXCEPT !.logo = u].secret = x.secret /\ [x EXCEPT !.logo = u].here = x.here
BY DEF MerchantRow

LEMMA AgreementKept ==
  ASSUME TypeOK, RegistrationsAgree, [Next]_vars
  PROVE  RegistrationsAgree'
<1>1. ASSUME row'.here = row.here, row'.secret = row.secret,
             UNCHANGED <<answered, regenerated>>
      PROVE  RegistrationsAgree'
  BY <1>1 DEF RegistrationsAgree
<1>2. CASE UNCHANGED <<row, answered, regenerated>>
  BY <1>1, <1>2
<1>3. ASSUME NEW r \in Reqs, SaveLogo(r) \/ SaveProfile(r) PROVE RegistrationsAgree'
  <2>1. req[r].new \in Urls /\ row \in MerchantRow
    BY RequestTyped DEF TypeOK
  <2>2. row'.here = row.here /\ row'.secret = row.secret
    BY <1>3, <2>1, SecretFields DEF SaveLogo, SaveProfile
  <2> QED
    BY <1>1, <1>3, <2>2 DEF SaveLogo, SaveProfile, secretVars
<1>4. ASSUME NEW r \in Reqs, RegisterAgain(r) PROVE RegistrationsAgree'
  BY <1>4 DEF RegisterAgain, RegistrationsAgree
<1>5. ASSUME NEW r \in Reqs, CreateRow(r) PROVE RegistrationsAgree'
  BY <1>2, <1>5 DEF CreateRow, RegistrationsAgree
<1>6. ASSUME NEW r \in Reqs, SaveSecret(r) PROVE RegistrationsAgree'
  BY <1>6 DEF SaveSecret, RegistrationsAgree
<1>7. CASE IndexMerchant
  BY <1>7 DEF IndexMerchant, RegistrationsAgree, secretVars
<1>8. ASSUME NEW r \in Reqs,
             \/ Upload(r) \/ DeleteLogo(r) \/ PutFile(r) \/ CleanOld(r)
             \/ Register(r) \/ Update(r) \/ Regenerate(r)
      PROVE  UNCHANGED <<row, answered, regenerated>>
  BY <1>8 DEF Upload, DeleteLogo, BeginChange, PutFile, CleanOld, Register, Update,
     Regenerate, secretVars
<1>9. ASSUME KeyStep \/ Error PROVE UNCHANGED <<row, answered, regenerated>>
  BY <1>9 DEF KeyStep, CreateApiKey, RevokeApiKey, Admit, Validate, Error, PutError,
     CleanError, StatementError, Crash, Fail, secretVars
<1>10. CASE UNCHANGED vars
  BY <1>2, <1>10 DEF vars
<1> QED
  BY <1>2, <1>3, <1>4, <1>5, <1>6, <1>7, <1>8, <1>9, <1>10 DEF Next, LogoStep, RowStep

\* However registrations, profile changes and the indexer race to create the row,
\* all registrations before a regeneration answer the secret it holds.
THEOREM RegistrationsDoAgree == Spec => []RegistrationsAgree
<1>1. Init => RegistrationsAgree
  BY DEF Init, RegistrationsAgree
<1> QED
  BY <1>1, TypeCorrect, AgreementKept, PTL DEF Spec
--------------------------------------------------------------------------------
(* The API keys.                                                            *)

\* Settled(k) is what RevocationSettles says of one key.
Settled(k) ==
  IF key[k] = "revoked" THEN late[k] + Cardinality(Touching(k)) <= atRevoke[k]
                        ELSE late[k] = 0

\* A key that nobody revokes or admits with, while its validations only end.
LEMMA QuietKey ==
  ASSUME TypeOK, NEW k \in Keys, Settled(k),
         key'[k] = key[k] \/ (key[k] # "revoked" /\ key'[k] # "revoked"),
         late'[k] = late[k], atRevoke'[k] = atRevoke[k],
         key[k] = "revoked" => Touching(k)' \subseteq Touching(k)
  PROVE  Settled(k)'
<1>1. CASE key'[k] # "revoked"
  BY <1>1 DEF Settled
<1>2. CASE key'[k] = "revoked"
  <2>1. IsFiniteSet(Touching(k)) /\ Cardinality(Touching(k)) \in Nat
    BY TouchingCount
  <2>2. Touching(k)' \subseteq Touching(k)
    BY <1>2
  <2>3. Cardinality(Touching(k)') \in Nat /\ Cardinality(Touching(k)') <= Cardinality(Touching(k))
    BY <2>1, <2>2, FS_Subset, FS_CardinalityType
  <2>4. late[k] \in Nat /\ atRevoke[k] \in Nat
    BY DEF TypeOK
  <2>5. late[k] + Cardinality(Touching(k)) <= atRevoke[k]
    BY <1>2 DEF Settled
  <2>6. late[k] + Cardinality(Touching(k)') <= atRevoke[k]
    BY <2>1, <2>3, <2>4, <2>5
  <2> QED
    BY <1>2, <2>6 DEF Settled
<1> QED
  BY <1>1, <1>2

LEMMA AdmitSettles ==
  ASSUME TypeOK, NEW r \in Reqs, Admit(r), NEW k \in Keys, Settled(k)
  PROVE  Settled(k)'
<1>1. /\ req'[r] = Idle /\ \A o \in Reqs : o # r => req'[o] = req[o]
      /\ UNCHANGED <<key, atRevoke>> /\ req[r].pc = "touch"
  BY BeginFacts, RequestTyped DEF Admit, At
<1>2. Touching(k)' = Touching(k) \ {r}
  BY <1>1, NamesNull DEF Touching
<1>3. CASE key[k] = "revoked" /\ req[r].key = k
  <2>1. late'[k] = late[k] + 1 /\ late[k] \in Nat /\ atRevoke[k] \in Nat
    BY <1>3 DEF Admit, TypeOK
  <2>2. r \in Touching(k)
    BY <1>1, <1>3 DEF Touching
  <2>3. Cardinality(Touching(k)') = Cardinality(Touching(k)) - 1
    BY <1>2, <2>2, TouchingCount, FS_RemoveElement
  <2>4. Cardinality(Touching(k)) \in Nat
    BY TouchingCount
  <2> QED
    BY <1>1, <1>3, <2>1, <2>3, <2>4 DEF Settled
<1>4. CASE ~(key[k] = "revoked" /\ req[r].key = k)
  <2>1. late'[k] = late[k]
    BY <1>4 DEF Admit, TypeOK
  <2> QED
    BY <1>1, <1>2, <2>1, QuietKey
<1> QED
  BY <1>3, <1>4

LEMMA RevokeSettles ==
  ASSUME TypeOK, NEW j \in Keys, RevokeApiKey(j), NEW k \in Keys, Settled(k)
  PROVE  Settled(k)'
<1>1. /\ key[j] = "active" /\ UNCHANGED <<req, late>>
      /\ key' = [key EXCEPT ![j] = "revoked"]
      /\ atRevoke' = [atRevoke EXCEPT ![j] = Cardinality(Touching(j))]
  BY DEF RevokeApiKey
<1>2. Touching(k)' = Touching(k)
  BY <1>1 DEF Touching
<1>3. CASE k = j
  <2>1. late[k] = 0 /\ Cardinality(Touching(k)) \in Nat
    BY <1>1, <1>3, TouchingCount DEF Settled
  <2>2. key'[k] = "revoked" /\ atRevoke'[k] = Cardinality(Touching(k))
    BY <1>1, <1>3 DEF TypeOK
  <2> QED
    BY <1>1, <1>2, <2>1, <2>2 DEF Settled
<1>4. CASE k # j
  <2>1. key'[k] = key[k] /\ atRevoke'[k] = atRevoke[k]
    BY <1>1, <1>4 DEF TypeOK
  <2> QED
    BY <1>1, <1>2, <2>1, QuietKey
<1> QED
  BY <1>3, <1>4

\* Every other step that moves a request moves it to a stage of its own.
LEMMA StageSettles ==
  ASSUME TypeOK, NEW r \in Reqs, LogoStep(r) \/ RowStep(r), NEW k \in Keys, Settled(k)
  PROVE  Settled(k)'
<1>1. UNCHANGED keyVars
  BY DEF LogoStep, Upload, DeleteLogo, BeginChange, PutFile, CleanOld, SaveLogo, RowStep,
     RegisterAgain, Register, CreateRow, Update, SaveProfile, Regenerate, SaveSecret
<1>2. CASE UNCHANGED req
  BY <1>1, <1>2, QuietKey DEF Touching, keyVars
<1>3. ASSUME NEW q \in Request, q.pc # "touch", Begin(r, q) \/ Continue(r, q)
      PROVE  Settled(k)'
  <2>1. req'[r] = q /\ \A o \in Reqs : o # r => req'[o] = req[o]
    BY <1>3, BeginFacts
  <2>2. Touching(k)' \subseteq Touching(k)
    BY <1>3, <2>1 DEF Touching
  <2> QED
    BY <1>1, <2>2, QuietKey DEF keyVars
<1>4. ASSUME NEW pc \in {"put", "clean", "save", "create", "update", "regenerate"},
             NEW u \in Urls, NEW v \in Urls,
             Begin(r, Stage(pc, u, v)) \/ Continue(r, Stage(pc, u, v))
      PROVE  Settled(k)'
  BY <1>3, <1>4, StageTyped, StageFields
<1>5. /\ Null \in Urls /\ Foreign \in Urls /\ used \subseteq Urls
      /\ row.logo \in Urls /\ req[r].old \in Urls /\ req[r].new \in Urls
      /\ Files \subseteq Urls
  BY RequestTyped, RowTyped DEF TypeOK
<1>6. ASSUME Upload(r) \/ DeleteLogo(r) PROVE Settled(k)'
  BY <1>4, <1>5, <1>6 DEF Upload, DeleteLogo, BeginChange
<1>7. ASSUME PutFile(r) PROVE Settled(k)'
  <2>1. PICK f \in Files \ used :
          Continue(r, Stage(IF req[r].old = Null THEN "save" ELSE "clean", req[r].old, f))
    BY <1>7 DEF PutFile
  <2> QED
    BY <1>4, <1>5, <2>1
<1>8. ASSUME CleanOld(r) PROVE Settled(k)'
  BY <1>4, <1>5, <1>8 DEF CleanOld
<1>9. ASSUME SaveLogo(r) \/ CreateRow(r) \/ SaveProfile(r) \/ SaveSecret(r)
      PROVE  Settled(k)'
  BY <1>3, <1>9, RequestTyped, NamesNull DEF SaveLogo, CreateRow, SaveProfile, SaveSecret
<1>10. ASSUME Register(r) \/ Update(r) \/ Regenerate(r) PROVE Settled(k)'
  BY <1>4, <1>5, <1>10 DEF Register, Update, Regenerate
<1> QED
  BY <1>2, <1>6, <1>7, <1>8, <1>9, <1>10 DEF LogoStep, RowStep, RegisterAgain

LEMMA ErrorSettles ==
  ASSUME TypeOK, Error, NEW k \in Keys, Settled(k)
  PROVE  Settled(k)'
<1>1. UNCHANGED keyVars
  BY DEF Error, PutError, CleanError, StatementError, Crash, Fail
<1>2. Touching(k)' \subseteq Touching(k)
  <2>1. ASSUME NEW r \in Reqs, NEW q, q.pc # "touch", req' = [req EXCEPT ![r] = q]
        PROVE  Touching(k)' \subseteq Touching(k)
    BY <2>1 DEF Touching, TypeOK
  <2>2. ASSUME NEW r \in Reqs, PutError(r) \/ CleanError(r) \/ StatementError(r)
        PROVE  Touching(k)' \subseteq Touching(k)
    BY <2>1, <2>2, NamesNull, StageFields DEF PutError, CleanError, StatementError
  <2>3. ASSUME Crash PROVE Touching(k)' \subseteq Touching(k)
    BY <2>3, NamesNull DEF Crash, Touching
  <2> QED
    BY <2>2, <2>3 DEF Error
<1> QED
  BY <1>1, <1>2, QuietKey DEF keyVars

LEMMA ValidateSettles ==
  ASSUME TypeOK, NEW r \in Reqs, NEW j \in Keys, Validate(r, j), NEW k \in Keys, Settled(k)
  PROVE  Settled(k)'
<1>1. /\ req'[r] = Check(j) /\ \A o \in Reqs : o # r => req'[o] = req[o]
      /\ key[j] = "active" /\ UNCHANGED keyVars
  BY BeginFacts, RequestTyped DEF Validate
<1>2. key[k] = "revoked" => Touching(k)' \subseteq Touching(k)
  BY <1>1 DEF Touching, Check
<1> QED
  BY <1>1, <1>2, QuietKey DEF keyVars

LEMMA SettlesKept ==
  ASSUME TypeOK, RevocationSettles, [Next]_vars
  PROVE  RevocationSettles'
<1> SUFFICES ASSUME NEW k \in Keys, Settled(k) PROVE Settled(k)'
  BY DEF RevocationSettles, Settled
<1>1. ASSUME NEW j \in Keys, CreateApiKey(j) PROVE Settled(k)'
  <2>1. /\ key'[k] = key[k] \/ (key[k] # "revoked" /\ key'[k] # "revoked")
        /\ UNCHANGED <<late, atRevoke, req>>
    BY <1>1 DEF CreateApiKey, TypeOK
  <2> QED
    BY <2>1, QuietKey DEF Touching
<1>2. CASE IndexMerchant \/ UNCHANGED vars
  <2>1. UNCHANGED <<req, key, late, atRevoke>>
    BY <1>2 DEF IndexMerchant, vars, keyVars
  <2> QED
    BY <2>1, QuietKey DEF Touching
<1> QED
  BY <1>1, <1>2, StageSettles, ErrorSettles, AdmitSettles, RevokeSettles, ValidateSettles
     DEF Next, KeyStep

\* For any number of concurrent requests, a revoked key admits at most those whose
\* lookup was under way when it was revoked.
THEOREM RevocationDoesSettle == Spec => []RevocationSettles
<1>1. Init => RevocationSettles
  BY DEF Init, RevocationSettles
<1> QED
  BY <1>1, TypeCorrect, SettlesKept, PTL DEF Spec
--------------------------------------------------------------------------------
(* The files left behind.                                                   *)

\* The files that no change under way is about to name.
Loose == store \ {req[r].new : r \in Changing}

\* No change under way would leave the row's logo behind: each read it and has yet
\* to delete it.
Fresh == row.logo \in Loose => \A r \in Changing : req[r].pc # "save" /\ req[r].old = row.logo

Credit == IF Changing # {} /\ Fresh THEN 1 ELSE 0

\* Each change under way may leave one more file behind, except the first one to
\* end when all of them read the logo that the row names.
SlipsPay == Cardinality(Unnamed) + Cardinality(Changing) <= slips + Credit

PutsNothing == \A r \in Reqs : req[r].pc = "put" => req[r].new = Null

\* A merchant without a row has no logo and nothing that would write one.
NoRowYet ==
  ~row.here =>
    /\ row.logo = Null
    /\ \A r \in Reqs : req[r].pc \notin {"put", "clean", "save", "update"}

\* The inductive invariant behind OrphansBounded.
OrphanInv == LogoInv /\ PutsNothing /\ NoRowYet /\ SlipsPay

LEMMA SubsetCount ==
  ASSUME NEW S, NEW T, IsFiniteSet(T), S \subseteq T
  PROVE  /\ IsFiniteSet(S)
         /\ Cardinality(S) \in Nat /\ Cardinality(T) \in Nat
         /\ Cardinality(S) <= Cardinality(T)
BY FS_Subset, FS_CardinalityType

LEMMA OneMoreCount ==
  ASSUME NEW S, NEW T, NEW x, IsFiniteSet(T), S \subseteq T \union {x}
  PROVE  /\ Cardinality(S) \in Nat /\ Cardinality(T) \in Nat
         /\ Cardinality(S) <= Cardinality(T) + 1
<1>1. /\ IsFiniteSet(T \union {x})
      /\ Cardinality(T \union {x}) = IF x \in T THEN Cardinality(T) ELSE Cardinality(T) + 1
  BY FS_AddElement
<1>2. Cardinality(S) \in Nat /\ Cardinality(S) <= Cardinality(T \union {x})
  BY <1>1, SubsetCount
<1>3. Cardinality(T) \in Nat
  BY FS_CardinalityType
<1> QED
  BY <1>1, <1>2, <1>3

LEMMA LooseFacts ==
  /\ Unnamed = Loose \ {row.logo}
  /\ \A f : f \in Loose <=> f \in store /\ \A r \in Changing : req[r].new # f
BY DEF Unnamed, Loose

LEMMA LooseFactsNext ==
  /\ Unnamed' = Loose' \ {row'.logo}
  /\ \A f : f \in Loose' <=> f \in store' /\ \A r \in Changing' : req'[r].new # f
BY DEF Unnamed, Loose

LEMMA LooseCount ==
  ASSUME TypeOK
  PROVE  /\ IsFiniteSet(Loose) /\ IsFiniteSet(Unnamed)
         /\ Cardinality(Loose) \in Nat /\ Cardinality(Unnamed) \in Nat
         /\ slips \in Nat /\ Credit \in {0, 1}
         /\ Changing = {} => Credit = 0
         /\ Changing # {} => Cardinality(Changing) > 0
<1>1. Loose \subseteq Files /\ Unnamed \subseteq Loose
  BY LooseFacts DEF TypeOK
<1>2. Changing # {} => Cardinality(Changing) > 0
  BY ChangingCount, FS_EmptySet
<1> QED
  BY <1>1, <1>2, SubsetCount, AccountAssumption DEF TypeOK, Credit

\* The changes under way are the same and nothing new is left behind.
LEMMA QuietSlips ==
  ASSUME OrphanInv, Unnamed' \subseteq Unnamed, Changing' = Changing,
         Fresh => Fresh', slips' = slips
  PROVE  SlipsPay'
<1>1. TypeOK /\ SlipsPay
  BY DEF OrphanInv, LogoInv
<1>2. /\ Cardinality(Unnamed') \in Nat /\ Cardinality(Unnamed) \in Nat
      /\ Cardinality(Unnamed') <= Cardinality(Unnamed)
  BY <1>1, LooseCount, SubsetCount
<1>3. slips \in Nat /\ Credit \in {0, 1} /\ Credit' \in {0, 1} /\ Credit <= Credit'
  BY <1>1, LooseCount DEF Credit
<1>4. Cardinality(Unnamed') + Cardinality(Changing) <= slips + Credit'
  BY <1>1, <1>2, <1>3, ChangingCount DEF SlipsPay
<1> QED
  BY <1>4 DEF SlipsPay

\* The changes under way are the same, and a slip pays for one more file or for a
\* change that will leave one.
LEMMA PaidSlips ==
  ASSUME OrphanInv, Changing' = Changing, slips' = slips + 1,
         \/ Cardinality(Unnamed') \in Nat /\ Cardinality(Unnamed') <= Cardinality(Unnamed)
         \/ /\ \E x : Unnamed' \subseteq Unnamed \union {x}
            /\ Changing # {} /\ Fresh => Fresh'
  PROVE  SlipsPay'
<1>1. TypeOK /\ SlipsPay
  BY DEF OrphanInv, LogoInv
<1>2. /\ Cardinality(Unnamed) \in Nat /\ slips \in Nat
      /\ Credit \in {0, 1} /\ Credit' \in {0, 1}
  BY <1>1, LooseCount DEF Credit
<1>3. CASE Cardinality(Unnamed') \in Nat /\ Cardinality(Unnamed') <= Cardinality(Unnamed)
  BY <1>1, <1>2, <1>3, ChangingCount DEF SlipsPay
<1>4. CASE /\ \E x : Unnamed' \subseteq Unnamed \union {x}
           /\ Changing # {} /\ Fresh => Fresh'
  <2>1. Cardinality(Unnamed') \in Nat /\ Cardinality(Unnamed') <= Cardinality(Unnamed) + 1
    BY <1>1, <1>4, LooseCount, OneMoreCount
  <2>2. Credit <= Credit'
    BY <1>4 DEF Credit
  <2> QED
    BY <1>1, <1>2, <2>1, <2>2, ChangingCount DEF SlipsPay
<1> QED
  BY <1>3, <1>4

\* A change ends and leaves at most one file behind: a slip pays for it, or the
\* change did not count on the credit, or it leaves none.
LEMMA EndedSlips ==
  ASSUME OrphanInv, NEW r \in Changing, Changing' = Changing \ {r},
         \/ /\ \E x : Unnamed' \subseteq Unnamed \union {x}
            /\ slips' = slips + 1 \/ (slips' = slips /\ ~Fresh)
         \/ Unnamed' \subseteq Unnamed /\ slips' = slips
  PROVE  SlipsPay'
<1>1. TypeOK /\ SlipsPay
  BY DEF OrphanInv, LogoInv
<1>2. /\ Cardinality(Unnamed) \in Nat /\ slips \in Nat
      /\ Credit \in {0, 1} /\ Credit' \in {0, 1}
      /\ ~Fresh => Credit = 0
  BY <1>1, LooseCount DEF Credit
<1>3. /\ Cardinality(Changing') = Cardinality(Changing) - 1
      /\ Cardinality(Changing) \in Nat
  BY ChangingCount, FS_RemoveElement
<1>4. CASE /\ \E x : Unnamed' \subseteq Unnamed \union {x}
           /\ slips' = slips + 1 \/ (slips' = slips /\ ~Fresh)
  <2>1. Cardinality(Unnamed') \in Nat /\ Cardinality(Unnamed') <= Cardinality(Unnamed) + 1
    BY <1>1, <1>4, LooseCount, OneMoreCount
  <2>2. slips' >= slips + Credit
    BY <1>2, <1>4
  <2>3. Cardinality(Unnamed') + Cardinality(Changing') <= Cardinality(Unnamed) + Cardinality(Changing)
    BY <1>2, <1>3, <2>1
  <2>4. Cardinality(Unnamed) + Cardinality(Changing) <= slips'
    BY <1>1, <1>2, <1>3, <1>4, <2>2 DEF SlipsPay
  <2> QED
    BY <1>2, <1>3, <1>4, <2>1, <2>3, <2>4 DEF SlipsPay
<1>5. CASE Unnamed' \subseteq Unnamed /\ slips' = slips
  <2>1. Cardinality(Unnamed') \in Nat /\ Cardinality(Unnamed') <= Cardinality(Unnamed)
    BY <1>1, <1>5, LooseCount, SubsetCount
  <2> QED
    BY <1>1, <1>2, <1>3, <1>5, <2>1 DEF SlipsPay
<1> QED
  BY <1>4, <1>5

ChangePCs == {"put", "clean", "save"}

LEMMA ChangingFacts ==
  /\ \A o : o \in Changing <=> o \in Reqs /\ req[o].pc \in ChangePCs
  /\ \A o : o \in Changing' <=> o \in Reqs /\ req'[o].pc \in ChangePCs
BY DEF Changing, ChangePCs

\* A step that moves no change and leaves the logo and the store alone, but for the
\* creation of the row.
LEMMA OutsideKeeps ==
  ASSUME OrphanInv, UNCHANGED <<store, slips>>,
         \A o \in Reqs : \/ req'[o] = req[o]
                         \/ /\ req[o].pc \notin ChangePCs
                            /\ req'[o].pc \notin ChangePCs
                            /\ req'[o].pc = "update" => row'.here,
         \/ row'.here = row.here /\ row'.logo = row.logo
         \/ ~row.here /\ row'.here /\ row'.logo \notin Files
  PROVE  PutsNothing' /\ NoRowYet' /\ SlipsPay'
<1>1. PutsNothing'
  BY DEF OrphanInv, PutsNothing, ChangePCs
<1>2. NoRowYet'
  BY DEF OrphanInv, NoRowYet, ChangePCs
<1>3. Changing' = Changing /\ \A o \in Changing : req'[o] = req[o]
  BY ChangingFacts
<1>4. Loose' = Loose
  BY <1>3, LooseFacts, LooseFactsNext
<1>5. row'.logo = row.logo \/ (row.logo \notin Loose /\ row'.logo \notin Loose)
  BY LooseFacts, NamesNull DEF OrphanInv, LogoInv, TypeOK, NoRowYet
<1>6. Unnamed' = Unnamed
  BY <1>4, <1>5, LooseFacts, LooseFactsNext
<1>7. Fresh => Fresh'
  BY <1>3, <1>4, <1>5 DEF Fresh
<1> QED
  BY <1>1, <1>2, <1>3, <1>6, <1>7, QuietSlips

\* The change that begins has read the logo of the row.
LEMMA BeginKeeps ==
  ASSUME OrphanInv, NEW r \in Reqs, Upload(r) \/ DeleteLogo(r)
  PROVE  PutsNothing' /\ NoRowYet' /\ SlipsPay'
<1>0. TypeOK /\ SlipsPay
  BY DEF OrphanInv, LogoInv
<1>1. PICK pc \in {"put", "clean"} : BeginChange(r, Stage(pc, row.logo, Null))
  BY DEF Upload, DeleteLogo
<1>2. /\ Begin(r, Stage(pc, row.logo, Null)) /\ UNCHANGED <<row, store>> /\ row.here
      /\ slips' = IF Changing = {} THEN slips ELSE slips + 1
  BY <1>1 DEF BeginChange, Upload, DeleteLogo
<1>3. Stage(pc, row.logo, Null) \in Request
  BY <1>0, StageTyped, RowTyped, RequestTyped DEF TypeOK
<1>4. req'[r] = Stage(pc, row.logo, Null) /\ \A o \in Reqs : o # r => req'[o] = req[o]
  BY <1>0, <1>2, <1>3, BeginFacts
<1>5. req'[r].pc = pc /\ req'[r].old = row.logo /\ req'[r].new = Null /\ req[r].pc = "idle"
  BY <1>2, <1>4, StageFields DEF Begin, At
<1>6. PutsNothing'
  BY <1>4, <1>5 DEF OrphanInv, PutsNothing
<1>7. NoRowYet'
  BY <1>2 DEF NoRowYet
<1>8. Changing' = Changing \union {r} /\ r \notin Changing
  BY <1>4, <1>5, ChangingFacts DEF ChangePCs
<1>9. Loose' = Loose
  <2>1. \A f : f \in store => f # Null
    BY <1>0, NamesNull DEF TypeOK
  <2>2. \A o \in Changing : req'[o] = req[o]
    BY <1>4, <1>8, ChangingFacts
  <2>3. \A f \in store : req'[r].new # f
    BY <1>5, <2>1
  <2>4. ASSUME NEW f PROVE f \in Loose' <=> f \in Loose
    BY <1>2, <1>8, <2>2, <2>3, LooseFacts, LooseFactsNext
  <2> QED
    BY <2>4
<1>10. Unnamed' = Unnamed
  BY <1>2, <1>9, LooseFacts, LooseFactsNext
<1>11. Fresh \/ Changing = {} => Fresh'
  BY <1>1, <1>2, <1>4, <1>5, <1>8, <1>9, ChangingFacts DEF Fresh
<1>12. /\ Cardinality(Changing') = Cardinality(Changing) + 1
       /\ Cardinality(Changing) \in Nat /\ Cardinality(Unnamed) \in Nat
       /\ slips \in Nat
       /\ Changing = {} => Cardinality(Changing) = 0
  BY <1>0, <1>8, ChangingCount, FS_AddElement, LooseCount, FS_EmptySet
<1>13. Credit' = IF Fresh' THEN 1 ELSE 0
  BY <1>8 DEF Credit
<1>14. CASE Changing = {}
  <2>1. Cardinality(Unnamed) + Cardinality(Changing) <= slips + 0
    BY <1>0, <1>14 DEF SlipsPay, Credit
  <2> QED
    BY <1>2, <1>6, <1>7, <1>10, <1>11, <1>12, <1>13, <1>14, <2>1 DEF SlipsPay
<1>15. CASE Changing # {}
  <2>1. Credit <= Credit' /\ Credit \in {0, 1} /\ Credit' \in {0, 1}
    BY <1>11, <1>13, <1>15 DEF Credit
  <2> QED
    BY <1>0, <1>2, <1>6, <1>7, <1>10, <1>12, <1>15, <2>1 DEF SlipsPay
<1> QED
  BY <1>14, <1>15

\* The new file has a name of its own, and the change is about to name it.
LEMMA PutKeeps ==
  ASSUME OrphanInv, NEW r \in Reqs, PutFile(r)
  PROVE  PutsNothing' /\ NoRowYet' /\ SlipsPay'
<1>0. TypeOK
  BY DEF OrphanInv, LogoInv
<1>1. PICK f \in Files \ used :
        /\ store' = store \union {f}
        /\ Continue(r, Stage(IF req[r].old = Null THEN "save" ELSE "clean", req[r].old, f))
  BY DEF PutFile
<1>2. PICK pc \in {"clean", "save"} : pc = IF req[r].old = Null THEN "save" ELSE "clean"
  OBVIOUS
<1>3. Stage(pc, req[r].old, f) \in Request
  BY <1>0, <1>2, StageTyped, RequestTyped DEF TypeOK
<1>4. req'[r] = Stage(pc, req[r].old, f) /\ \A o \in Reqs : o # r => req'[o] = req[o]
  BY <1>0, <1>1, <1>2, <1>3, BeginFacts
<1>5. /\ req'[r].pc = pc /\ req'[r].old = req[r].old /\ req'[r].new = f
      /\ req[r].pc = "put" /\ UNCHANGED <<row, slips>>
  BY <1>4, StageFields DEF PutFile, At
<1>6. PutsNothing'
  BY <1>2, <1>4, <1>5 DEF OrphanInv, PutsNothing
<1>7. NoRowYet'
  BY <1>4, <1>5 DEF OrphanInv, NoRowYet
<1>8. Changing' = Changing /\ r \in Changing
  BY <1>4, <1>5, ChangingFacts DEF ChangePCs
<1>9. Loose' \subseteq Loose
  <2>1. req[r].new \notin store
    BY <1>0, <1>5, NamesNull DEF OrphanInv, PutsNothing, TypeOK
  <2>2. f \notin Loose'
    BY <1>5, <1>8, LooseFactsNext
  <2>3. ASSUME NEW g \in Loose' PROVE g \in Loose
    <3>1. g \in store /\ g # f
      BY <1>1, <2>2, <2>3, LooseFactsNext
    <3>2. \A o \in Changing : req[o].new # g
      BY <1>4, <1>8, <2>1, <2>3, <3>1, LooseFactsNext, ChangingFacts
    <3> QED
      BY <3>1, <3>2, LooseFacts
  <2> QED
    BY <2>3
<1>10. Unnamed' \subseteq Unnamed
  BY <1>5, <1>9, LooseFacts, LooseFactsNext
<1>11. Fresh => Fresh'
  <2> SUFFICES ASSUME Fresh, row.logo \in Loose', NEW o \in Changing
               PROVE  req'[o].pc # "save" /\ req'[o].old = row.logo
    BY <1>5, <1>8 DEF Fresh
  <2>1. req[o].pc # "save" /\ req[o].old = row.logo /\ row.logo \in store
    BY <1>9, LooseFacts DEF Fresh
  <2>2. row.logo # Null
    BY <1>0, <2>1, NamesNull DEF TypeOK
  <2> QED
    BY <1>2, <1>4, <1>5, <2>1, <2>2, ChangingFacts
<1> QED
  BY <1>5, <1>6, <1>7, <1>8, <1>10, <1>11, QuietSlips

\* The file of the logo that was read is deleted, or a slip pays for it.
LEMMA CleanSlips ==
  ASSUME OrphanInv, NEW r \in Reqs, CleanOld(r) \/ CleanError(r)
  PROVE  PutsNothing' /\ NoRowYet' /\ SlipsPay'
<1>0. TypeOK
  BY DEF OrphanInv, LogoInv
<1>1. /\ req' = [req EXCEPT ![r] = Stage("save", req[r].old, req[r].new)]
      /\ UNCHANGED row /\ req[r].pc = "clean"
  BY DEF CleanOld, CleanError, Continue, Fail, At
<1>2. /\ req'[r] = Stage("save", req[r].old, req[r].new)
      /\ \A o \in Reqs : o # r => req'[o] = req[o]
  BY <1>0, <1>1 DEF TypeOK
<1>3. req'[r].pc = "save" /\ req'[r].old = req[r].old /\ req'[r].new = req[r].new
  BY <1>2, StageFields
<1>4. PutsNothing'
  BY <1>2, <1>3 DEF OrphanInv, PutsNothing
<1>5. NoRowYet'
  BY <1>1, <1>2 DEF OrphanInv, NoRowYet
<1>6. Changing' = Changing /\ r \in Changing
  BY <1>1, <1>2, <1>3, ChangingFacts DEF ChangePCs
<1>7. \A o \in Changing : req'[o].new = req[o].new
  BY <1>2, <1>3, ChangingFacts
<1>8. CASE CleanOld(r)
  <2>1. store' = store \ {req[r].old} /\ UNCHANGED slips
    BY <1>8 DEF CleanOld
  <2>2. \A f : f \in Loose' <=> f \in Loose /\ f # req[r].old
    BY <1>6, <1>7, <2>1, LooseFacts, LooseFactsNext
  <2>3. Unnamed' \subseteq Unnamed
    BY <1>1, <2>2, LooseFacts, LooseFactsNext
  <2>4. Fresh => row.logo \notin Loose'
    BY <1>6, <2>2 DEF Fresh
  <2>5. Fresh => Fresh'
    BY <1>1, <2>4 DEF Fresh
  <2> QED
    BY <1>4, <1>5, <1>6, <2>1, <2>3, <2>5, QuietSlips
<1>9. CASE CleanError(r)
  <2>1. store' = store /\ slips' = slips + 1
    BY <1>9 DEF CleanError
  <2>2. \A f : f \in Loose' <=> f \in Loose
    BY <1>6, <1>7, <2>1, LooseFacts, LooseFactsNext
  <2>3. Unnamed' = Unnamed
    BY <1>1, <2>2, LooseFacts, LooseFactsNext
  <2>4. Cardinality(Unnamed') \in Nat /\ Cardinality(Unnamed') <= Cardinality(Unnamed)
    BY <1>0, <2>3, LooseCount
  <2> QED
    BY <1>4, <1>5, <1>6, <2>1, <2>4, PaidSlips
<1> QED
  BY <1>8, <1>9

\* The new logo replaces one that the change deleted, or one it never saw.
LEMMA SaveSlips ==
  ASSUME OrphanInv, NEW r \in Reqs, SaveLogo(r)
  PROVE  PutsNothing' /\ NoRowYet' /\ SlipsPay'
<1>0. TypeOK /\ req[r].new \in Urls /\ row \in MerchantRow
  BY RequestTyped DEF OrphanInv, LogoInv, TypeOK
<1>1. /\ row' = [row EXCEPT !.logo = req[r].new] /\ Continue(r, Idle)
      /\ UNCHANGED <<store, slips>> /\ req[r].pc = "save"
  BY DEF SaveLogo, fileVars, At
<1>2. req'[r] = Idle /\ \A o \in Reqs : o # r => req'[o] = req[o]
  BY <1>0, <1>1, BeginFacts, RequestTyped
<1>3. row'.logo = req[r].new /\ row'.here = row.here /\ row.here
  BY <1>0, <1>1, RowFields DEF OrphanInv, NoRowYet
<1>4. PutsNothing' /\ NoRowYet'
  BY <1>2, <1>3, NamesNull DEF OrphanInv, PutsNothing, NoRowYet
<1>5. Changing' = Changing \ {r} /\ r \in Changing
  BY <1>1, <1>2, NamesNull, ChangingFacts DEF ChangePCs
<1>6. \A o \in Changing' : req'[o] = req[o]
  BY <1>2, <1>5, ChangingFacts
<1>7. ASSUME NEW f \in Unnamed' PROVE f \in Loose
  BY <1>1, <1>3, <1>5, <1>6, <1>7, LooseFacts, LooseFactsNext
<1>8. Loose \subseteq Unnamed \union {row.logo}
  BY LooseFacts
<1>9. CASE Fresh
  <2>1. row.logo \notin Loose
    BY <1>1, <1>5, <1>9 DEF Fresh
  <2>2. Unnamed' \subseteq Unnamed
    BY <1>7, <1>8, <2>1
  <2> QED
    BY <1>1, <1>4, <1>5, <2>2, EndedSlips
<1>10. CASE ~Fresh
  <2>1. Unnamed' \subseteq Unnamed \union {row.logo}
    BY <1>7, <1>8
  <2> QED
    BY <1>1, <1>4, <1>5, <1>10, <2>1, EndedSlips
<1> QED
  BY <1>9, <1>10

\* A profile update replaces the logo by one of nobody's or by a file left behind
\* earlier; in that case it has taken one file back.
LEMMA ProfileSlips ==
  ASSUME OrphanInv, NEW r \in Reqs, SaveProfile(r)
  PROVE  PutsNothing' /\ NoRowYet' /\ SlipsPay'
<1>0. TypeOK /\ req[r].new \in Urls /\ row \in MerchantRow
  BY RequestTyped DEF OrphanInv, LogoInv, TypeOK
<1>1. /\ row' = [row EXCEPT !.logo = req[r].new] /\ Continue(r, Idle)
      /\ UNCHANGED store /\ slips' = slips + 1 /\ req[r].pc = "update"
  BY DEF SaveProfile, At
<1>2. req'[r] = Idle /\ \A o \in Reqs : o # r => req'[o] = req[o]
  BY <1>0, <1>1, BeginFacts, RequestTyped
<1>3. row'.logo = req[r].new /\ row'.here = row.here /\ row.here
  BY <1>0, <1>1, RowFields DEF OrphanInv, NoRowYet
<1>4. PutsNothing' /\ NoRowYet'
  BY <1>2, <1>3, NamesNull DEF OrphanInv, PutsNothing, NoRowYet
<1>5. Changing' = Changing /\ \A o \in Changing : req'[o] = req[o]
  BY <1>1, <1>2, NamesNull, ChangingFacts DEF ChangePCs
<1>6. Loose' = Loose
  <2>1. ASSUME NEW f PROVE f \in Loose' <=> f \in Loose
    BY <1>1, <1>5, LooseFacts, LooseFactsNext
  <2> QED
    BY <2>1
<1>7. Unnamed' = Loose \ {row'.logo} /\ Unnamed = Loose \ {row.logo}
  BY <1>6, LooseFacts, LooseFactsNext
<1>8. CASE Fresh => Fresh'
  <2>1. Unnamed' \subseteq Unnamed \union {row.logo}
    BY <1>7
  <2> QED
    BY <1>1, <1>4, <1>5, <1>8, <2>1, PaidSlips
<1>9. CASE Fresh /\ ~Fresh'
  <2>1. row'.logo \in Loose
    BY <1>6, <1>9 DEF Fresh
  <2>2. Cardinality(Unnamed') = Cardinality(Loose) - 1
    BY <1>0, <1>7, <2>1, LooseCount, FS_RemoveElement
  <2>3. Cardinality(Unnamed) >= Cardinality(Loose) - 1
    BY <1>0, <1>7, LooseCount, FS_RemoveElement
  <2>4. Cardinality(Unnamed') \in Nat
    BY <1>0, <1>7, LooseCount, SubsetCount
  <2>5. Cardinality(Unnamed') <= Cardinality(Unnamed)
    BY <1>0, <2>2, <2>3, LooseCount
  <2> QED
    BY <1>1, <1>4, <1>5, <2>4, <2>5, PaidSlips
<1> QED
  BY <1>8, <1>9

\* A change ends with an error: its file, if it has one, is left behind.
LEMMA FailedSlips ==
  ASSUME OrphanInv, NEW r \in Reqs, PutError(r) \/ (StatementError(r) /\ At(r, "save"))
  PROVE  PutsNothing' /\ NoRowYet' /\ SlipsPay'
<1>0. TypeOK
  BY DEF OrphanInv, LogoInv
<1>1. /\ req' = [req EXCEPT ![r] = Idle] /\ UNCHANGED row /\ slips' = slips + 1
      /\ req[r].pc \in ChangePCs
  BY DEF PutError, StatementError, Fail, At, ChangePCs
<1>2. req'[r] = Idle /\ \A o \in Reqs : o # r => req'[o] = req[o]
  BY <1>0, <1>1 DEF TypeOK
<1>3. PutsNothing' /\ NoRowYet'
  BY <1>1, <1>2, NamesNull DEF OrphanInv, PutsNothing, NoRowYet
<1>4. Changing' = Changing \ {r} /\ r \in Changing
  BY <1>1, <1>2, NamesNull, ChangingFacts DEF ChangePCs
<1>5. \A o \in Changing' : req'[o] = req[o]
  BY <1>2, <1>4, ChangingFacts
<1>6. PICK x : \A f \in store' : f = x \/ (f \in store /\ f # req[r].new)
  <2>1. CASE StatementError(r) /\ At(r, "save")
    BY <2>1 DEF StatementError
  <2>2. CASE PutError(r)
    <3>1. req[r].new \notin store
      BY <1>0, <2>2, NamesNull DEF PutError, At, OrphanInv, PutsNothing, TypeOK
    <3>2. CASE UNCHANGED store
      BY <3>1, <3>2
    <3>3. CASE \E f \in Files \ used : store' = store \union {f}
      BY <3>1, <3>3
    <3> QED
      BY <2>2, <3>2, <3>3 DEF PutError
  <2> QED
    BY <2>1, <2>2
<1>7. ASSUME NEW f \in Unnamed', f # x PROVE f \in Unnamed
  <2>1. f \in store' /\ f # row.logo /\ \A o \in Changing' : req[o].new # f
    BY <1>1, <1>5, <1>7, LooseFactsNext
  <2>2. f \in store /\ \A o \in Changing : req[o].new # f
    BY <1>4, <1>6, <1>7, <2>1
  <2> QED
    BY <2>1, <2>2, LooseFacts
<1>8. Unnamed' \subseteq Unnamed \union {x}
  BY <1>7
<1> QED
  BY <1>1, <1>3, <1>4, <1>8, EndedSlips

\* A crash ends all changes; each leaves at most its own file behind.
LEMMA CrashSlips ==
  ASSUME OrphanInv, Crash
  PROVE  PutsNothing' /\ NoRowYet' /\ SlipsPay'
<1>0. TypeOK /\ SlipsPay
  BY DEF OrphanInv, LogoInv
<1>1. /\ req' = [r \in Reqs |-> Idle] /\ UNCHANGED <<row, store>>
      /\ slips' = slips + Cardinality(Changing)
  BY DEF Crash, Fail
<1>2. PutsNothing' /\ NoRowYet'
  BY <1>1, NamesNull DEF OrphanInv, PutsNothing, NoRowYet
<1>3. Changing' = {}
  BY <1>1, NamesNull, ChangingFacts DEF ChangePCs
<1> DEFINE new == [r \in Changing |-> req[r].new]
           named == {req[r].new : r \in Changing}
<1>4. /\ IsFiniteSet(named) /\ Cardinality(named) \in Nat
      /\ Cardinality(named) <= Cardinality(Changing)
  <2>1. new \in Surjection(Changing, named)
    BY DEF Surjection
  <2> HIDE DEF new, named
  <2>2. IsFiniteSet(named) /\ Cardinality(named) <= Cardinality(Changing)
    BY <2>1, ChangingCount, FS_Surjection
  <2> QED
    BY <2>2, FS_CardinalityType
<1>5. Unnamed' \subseteq Unnamed \union named
  <2>1. \A f : f \in named <=> \E r \in Changing : req[r].new = f
    OBVIOUS
  <2> HIDE DEF named
  <2> QED
    BY <1>1, <1>3, <2>1, LooseFacts, LooseFactsNext
<1> HIDE DEF new, named
<1>6. /\ Cardinality(Unnamed') \in Nat
      /\ Cardinality(Unnamed') <= Cardinality(Unnamed) + Cardinality(named)
  <2>1. /\ IsFiniteSet(Unnamed \union named)
        /\ Cardinality(Unnamed \union named) =
             Cardinality(Unnamed) + Cardinality(named) - Cardinality(Unnamed \intersect named)
    BY <1>0, <1>4, LooseCount, FS_Union
  <2>2. Cardinality(Unnamed \intersect named) \in Nat
    BY <1>4, SubsetCount
  <2>3. /\ Cardinality(Unnamed') \in Nat
        /\ Cardinality(Unnamed') <= Cardinality(Unnamed \union named)
    BY <1>5, <2>1, SubsetCount
  <2> QED
    BY <1>0, <1>4, <2>1, <2>2, <2>3, LooseCount
<1>7. Cardinality(Changing') = 0 /\ Credit' = 0
  BY <1>3, FS_EmptySet DEF Credit
<1>8. Cardinality(Unnamed) + Cardinality(Changing) <= slips + Cardinality(Changing)
  <2>1. CASE Changing = {}
    BY <1>0, <2>1, ChangingCount, LooseCount DEF SlipsPay
  <2>2. CASE Changing # {}
    BY <1>0, <2>2, ChangingCount, LooseCount DEF SlipsPay
  <2> QED
    BY <2>1, <2>2
<1>9. Cardinality(Unnamed') + 0 <= slips' + 0
  BY <1>0, <1>1, <1>4, <1>6, <1>8, ChangingCount, LooseCount
<1> QED
  BY <1>2, <1>7, <1>9 DEF SlipsPay

LEMMA RowStepSlips ==
  ASSUME OrphanInv, NEW r \in Reqs, RowStep(r)
  PROVE  PutsNothing' /\ NoRowYet' /\ SlipsPay'
<1>0. TypeOK /\ row \in MerchantRow
  BY DEF OrphanInv, LogoInv, TypeOK
<1>1. ASSUME NEW pc \in {"create", "update", "regenerate"}, NEW u \in Urls,
             Begin(r, Stage(pc, Null, u)), UNCHANGED <<row, store, slips>>,
             pc = "update" => row.here
      PROVE  PutsNothing' /\ NoRowYet' /\ SlipsPay'
  <2>1. Stage(pc, Null, u) \in Request
    BY StageTyped, RequestTyped
  <2>2. req'[r] = Stage(pc, Null, u) /\ \A o \in Reqs : o # r => req'[o] = req[o]
    BY <1>0, <1>1, <2>1, BeginFacts
  <2>3. req'[r].pc = pc /\ req[r].pc = "idle"
    BY <1>1, <2>2, StageFields DEF Begin, At
  <2> QED
    BY <1>1, <2>2, <2>3, OutsideKeeps DEF ChangePCs
<1>2. ASSUME Register(r) \/ Update(r) \/ Regenerate(r)
      PROVE  PutsNothing' /\ NoRowYet' /\ SlipsPay'
  <2>1. used \subseteq Urls /\ Foreign \in Urls /\ Null \in Urls
    BY <1>0, RequestTyped DEF TypeOK
  <2>2. UNCHANGED <<row, store, slips>>
    BY <1>2 DEF Register, Update, Regenerate, fileVars
  <2>3. CASE Register(r)
    BY <1>1, <2>1, <2>2, <2>3 DEF Register
  <2>4. CASE Update(r)
    BY <1>1, <2>1, <2>2, <2>4 DEF Update
  <2>5. CASE Regenerate(r)
    BY <1>1, <2>1, <2>2, <2>5 DEF Regenerate
  <2> QED
    BY <1>2, <2>3, <2>4, <2>5
<1>3. ASSUME RegisterAgain(r) PROVE PutsNothing' /\ NoRowYet' /\ SlipsPay'
  BY <1>3, OutsideKeeps DEF RegisterAgain, fileVars
<1>4. ASSUME CreateRow(r) \/ SaveSecret(r) PROVE PutsNothing' /\ NoRowYet' /\ SlipsPay'
  <2>1. /\ Continue(r, Idle) /\ req[r].pc \in {"create", "regenerate"}
        /\ UNCHANGED <<store, slips>>
    BY <1>4 DEF CreateRow, SaveSecret, fileVars, At
  <2>2. req'[r] = Idle /\ \A o \in Reqs : o # r => req'[o] = req[o]
    BY <1>0, <2>1, BeginFacts, RequestTyped
  <2>3. \/ row'.here = row.here /\ row'.logo = row.logo
        \/ ~row.here /\ row'.here /\ row'.logo \notin Files
    <3>1. CASE SaveSecret(r)
      BY <1>0, <3>1 DEF SaveSecret, TypeOK, MerchantRow
    <3>2. CASE CreateRow(r)
      BY <3>2 DEF CreateRow, At, OrphanInv, LogoInv, NamesUsed
    <3> QED
      BY <1>4, <3>1, <3>2
  <2> QED
    BY <2>1, <2>2, <2>3, NamesNull, OutsideKeeps DEF ChangePCs
<1> QED
  BY <1>2, <1>3, <1>4, ProfileSlips DEF RowStep

LEMMA KeyStepSlips ==
  ASSUME OrphanInv, KeyStep
  PROVE  PutsNothing' /\ NoRowYet' /\ SlipsPay'
<1>0. TypeOK
  BY DEF OrphanInv, LogoInv
<1>1. UNCHANGED <<row, store, slips>>
  BY DEF KeyStep, CreateApiKey, RevokeApiKey, Admit, Validate, fileVars
<1>2. ASSUME NEW k \in Keys, CreateApiKey(k) \/ RevokeApiKey(k)
      PROVE  PutsNothing' /\ NoRowYet' /\ SlipsPay'
  BY <1>1, <1>2, OutsideKeeps DEF CreateApiKey, RevokeApiKey
<1>3. ASSUME NEW r \in Reqs, Admit(r) \/ \E k \in Keys : Validate(r, k)
      PROVE  PutsNothing' /\ NoRowYet' /\ SlipsPay'
  <2>1. PICK q \in Request : /\ q.pc \in {"idle", "touch"}
                             /\ Begin(r, q) \/ Continue(r, q)
    BY <1>3, RequestTyped, NamesNull DEF Admit, Validate
  <2>2. req'[r] = q /\ \A o \in Reqs : o # r => req'[o] = req[o]
    BY <1>0, <2>1, BeginFacts
  <2>3. req[r].pc \in {"idle", "touch"}
    BY <1>3 DEF Admit, Validate, Begin, At
  <2> QED
    BY <1>1, <2>1, <2>2, <2>3, OutsideKeeps DEF ChangePCs
<1> QED
  BY <1>2, <1>3 DEF KeyStep

LEMMA OrphanInvKept == OrphanInv /\ [Next]_vars => OrphanInv'
<1> SUFFICES ASSUME OrphanInv, [Next]_vars PROVE PutsNothing' /\ NoRowYet' /\ SlipsPay'
  BY LogoInvKept DEF OrphanInv
<1>0. TypeOK
  BY DEF OrphanInv, LogoInv
<1>1. ASSUME NEW r \in Reqs, LogoStep(r) PROVE PutsNothing' /\ NoRowYet' /\ SlipsPay'
  BY <1>1, BeginKeeps, PutKeeps, CleanSlips, SaveSlips DEF LogoStep
<1>2. ASSUME NEW r \in Reqs, PutError(r) \/ CleanError(r)
      PROVE  PutsNothing' /\ NoRowYet' /\ SlipsPay'
  BY <1>2, FailedSlips, CleanSlips
<1>3. ASSUME NEW r \in Reqs, StatementError(r) PROVE PutsNothing' /\ NoRowYet' /\ SlipsPay'
  <2>1. CASE ~At(r, "save")
    <3>1. /\ req' = [req EXCEPT ![r] = Idle] /\ UNCHANGED <<row, store, slips>>
          /\ req[r].pc \notin ChangePCs
      BY <1>3, <2>1 DEF StatementError, Fail, At, ChangePCs
    <3>2. req'[r] = Idle /\ \A o \in Reqs : o # r => req'[o] = req[o]
      BY <1>0, <3>1 DEF TypeOK
    <3> QED
      BY <3>1, <3>2, NamesNull, OutsideKeeps DEF ChangePCs
  <2> QED
    BY <1>3, <2>1, FailedSlips
<1>4. CASE IndexMerchant
  <2>1. /\ UNCHANGED <<store, slips, req>>
        /\ ~row.here /\ row'.here /\ row'.logo = Null
    BY <1>4 DEF IndexMerchant, fileVars
  <2> QED
    BY <2>1, NamesNull, OutsideKeeps
<1>5. CASE UNCHANGED vars
  BY <1>5, OutsideKeeps DEF vars
<1> QED
  BY <1>1, <1>2, <1>3, <1>4, <1>5, RowStepSlips, KeyStepSlips, CrashSlips DEF Next, Error

\* For any number of concurrent uploads, deletions, profile updates, errors and
\* crashes, each file of the store that nothing names is paid for by a slip.
THEOREM OrphansAreBounded == Spec => []OrphansBounded
<1>1. Init => OrphanInv
  <2> SUFFICES ASSUME Init PROVE LogoInv /\ PutsNothing /\ NoRowYet /\ SlipsPay
    BY DEF OrphanInv
  <2>1. LogoInv
    BY LogoInvInit
  <2>2. row.logo = Null /\ store = {} /\ slips = 0 /\ \A r \in Reqs : req[r] = Idle
    BY DEF Init, NoRow
  <2>3. PutsNothing /\ NoRowYet
    BY <2>2, NamesNull DEF PutsNothing, NoRowYet
  <2>4. Changing = {} /\ Unnamed = {}
    BY <2>2, NamesNull, ChangingFacts, LooseFacts DEF ChangePCs
  <2>5. SlipsPay
    BY <2>2, <2>4, FS_EmptySet DEF SlipsPay, Credit
  <2> QED
    BY <2>1, <2>3, <2>5
<1>2. OrphanInv => OrphansBounded
  <2> SUFFICES ASSUME OrphanInv PROVE Cardinality(Unnamed) <= slips
    BY DEF OrphansBounded
  <2>1. TypeOK /\ SlipsPay
    BY DEF OrphanInv, LogoInv
  <2> QED
    BY <2>1, LooseCount, ChangingCount DEF SlipsPay
<1> QED
  BY <1>1, <1>2, OrphanInvKept, PTL DEF Spec
================================================================================
