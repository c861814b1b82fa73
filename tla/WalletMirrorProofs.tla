-------------------------- MODULE WalletMirrorProofs --------------------------
(***************************************************************************)
(* What holds of the wallets' rows for every number of wallets, handlers,  *)
(* transactions and faults, and every size of a byte and of a word.        *)
(***************************************************************************)
EXTENDS WalletMirror, TLAPS, WellFoundedInduction, FiniteSetTheorems

\* A row under construction or in the table: the fields of a row, with the keys
\* of the wallet.  Its numbers may be anything.
Named(w, v) ==
  /\ v = RowOf(v)
  /\ v.owner = OwnerOf[w] /\ v.mint = MintOf[w]

AccountsOK ==
  /\ account \in [Wallets -> Account \union {None}]
  /\ data = [w \in Wallets |-> data[w]]
  /\ subscription \in [Wallets -> Subscription \union {None}]
  /\ \A w \in Wallets : OnChain(w) => data[w] = WalletBytes(w, account[w])
  /\ \A w \in Wallets : Subscribed(w) => OnChain(w)
  /\ \A w \in Wallets :
       OnChain(w) => account[w].subs = IF Subscribed(w) THEN 1 ELSE 0

LogOK ==
  /\ log \in Seq(Transaction)
  /\ \A i \in DOMAIN log : OnChain(log[i].of)

HandlersOK ==
  /\ hs = [h \in Slots |-> hs[h]]
  /\ \A h \in Slots : hs[h].pc # "idle" => hs[h].tx \in DOMAIN log

RowsOK ==
  /\ row = [w \in Wallets |-> row[w]]
  /\ \A w \in Wallets : row[w] # None => OnChain(w) /\ Named(w, row[w])

SyncOK ==
  \A w \in sync.todo : w \in Wallets /\ OnChain(w) /\ Named(w, sync.rows[w])

IInv == AccountsOK /\ LogOK /\ HandlersOK /\ RowsOK /\ SyncOK
--------------------------------------------------------------------------------
LEMMA Sizes == Base \in Nat \ {0, 1} /\ Word \in Nat \ {0} /\ Fee \in Nat
BY MirrorAssumption

(* Induction over the natural numbers, on sets of numbers.                  *)

LEMMA NatOrdered ==
  \E R : IsWellFoundedOn(R, Nat) /\ \A x, y \in Nat : x < y => <<x, y>> \in R
BY NatLessThanWellFounded DEF OpToRel

LEMMA Minimal ==
  ASSUME NEW R, IsWellFoundedOn(R, Nat), NEW T, T \subseteq Nat, T # {}
  PROVE  \E x \in T : \A y \in T : ~ (<<y, x>> \in R)
BY WFMin, Zenon

\* A set with 0 and the successor of each of its numbers has all of them.
LEMMA NatInductive ==
  ASSUME NEW S, 0 \in S, \A k \in Nat : k \in S => k + 1 \in S
  PROVE  Nat \subseteq S
<1> SUFFICES ASSUME Nat \ S # {} PROVE FALSE
  OBVIOUS
<1> DEFINE T == Nat \ S
<1>1. PICK R : IsWellFoundedOn(R, Nat) /\ \A x, y \in Nat : x < y => <<x, y>> \in R
  BY NatOrdered
<1>2. T \subseteq Nat /\ T # {}
  OBVIOUS
<1> HIDE DEF T
<1>4. PICK k \in T : \A y \in T : ~ (<<y, k>> \in R)
  BY <1>1, <1>2, Minimal
<1> USE DEF T
<1>5. k \in Nat /\ k # 0
  OBVIOUS
<1>6. k - 1 \in Nat /\ k - 1 < k
  BY <1>5
<1>7. <<k - 1, k>> \in R
  BY <1>1, <1>5, <1>6
<1>8. k - 1 \in S
  BY <1>4, <1>6, <1>7
<1>9. (k - 1) + 1 \in S
  BY <1>6, <1>8
<1>10. (k - 1) + 1 = k
  BY <1>5
<1> QED
  BY <1>9, <1>10

(* The values of the digits' places.                                       *)

LEMMA PowerUnfolds ==
  ASSUME NEW f, f = [k \in Nat |-> IF k = 0 THEN 1 ELSE Base * f[k - 1]]
  PROVE Power = [k \in Nat |-> IF k = 0 THEN 1 ELSE Base * Power[k - 1]]
BY Zenon DEF Power

(* Digits.                                                                  *)

LEMMA DivUnique ==
  ASSUME NEW a \in Nat, NEW b \in Nat \ {0}, NEW q \in Nat, NEW r \in 0..(b - 1),
         a = (b * q) + r
  PROVE  (a \div b) = q /\ (a % b) = r
OBVIOUS
LEMMA DivFacts ==
  ASSUME NEW a \in Nat, NEW b \in Nat \ {0}
  PROVE  /\ (a \div b) \in Nat /\ (a % b) \in 0..(b - 1)
         /\ a = (b * (a \div b)) + (a % b)
OBVIOUS
LEMMA DivDiv ==
  ASSUME NEW n \in Nat, NEW p \in Nat \ {0}, NEW b \in Nat \ {0}
  PROVE  ((n \div p) \div b) = (n \div (b * p))
<1>1. PICK q \in Nat : q = n \div p
  BY DivFacts
<1>2. PICK r \in 0..(p-1) : n = (p * q) + r
  BY <1>1, DivFacts
<1>3. PICK s \in Nat : s = q \div b
  BY DivFacts
<1>4. PICK t \in 0..(b - 1) : q = (b * s) + t
  BY <1>3, DivFacts
<1>5. n = ((b * p) * s) + ((p * t) + r)
  <2>1. p * q = (p * (b * s)) + (p * t)
    BY <1>4
  <2>2. p * (b * s) = (b * p) * s
    OBVIOUS
  <2> QED
    BY <1>2, <2>1, <2>2
<1>6. (p * t) + r \in 0..((b * p) - 1)
  <2>1. p * t \in Nat /\ p * t <= p * (b - 1)
    OBVIOUS
  <2>2. p * (b - 1) = (b * p) - p
    OBVIOUS
  <2> QED
    BY <2>1, <2>2
<1>7. b * p \in Nat \ {0}
  OBVIOUS
<1>8. PICK m \in Nat \ {0} : m = b * p
  BY <1>7
<1>9. PICK u \in 0..(m - 1) : u = (p * t) + r
  BY <1>6, <1>8
<1>10. n = (m * s) + u
  BY <1>5, <1>8, <1>9
<1>11. (n \div m) = s
  BY <1>10, DivUnique
<1> QED
  BY <1>1, <1>3, <1>8, <1>11

\* f is the function Power up to n.
IsPower(f, n) == /\ f = [k \in 0..n |-> f[k]]
                 /\ \A k \in 0..n : f[k] \in Nat \ {0}
                 /\ f[0] = 1
                 /\ \A k \in 1..n : f[k] = Base * f[k - 1]

\* The recursive definition of Power has a solution: one up to each n, which
\* agree.
LEMMA PowerExists == \A n \in Nat : \E f : IsPower(f, n)
<1> DEFINE S == {n \in Nat : \E f : IsPower(f, n)}
<1>1. 0 \in S
  <2>1. IsPower([k \in 0..0 |-> 1], 0)
    BY DEF IsPower
  <2> QED
    BY <2>1
<1>2. ASSUME NEW n \in Nat, n \in S PROVE n + 1 \in S
  <2>1. PICK f : IsPower(f, n)
    BY <1>2
  <2> DEFINE g == [k \in 0..(n + 1) |-> IF k = n + 1 THEN Base * f[n] ELSE f[k]]
  <2>2. Base * f[n] \in Nat \ {0}
    BY <2>1, Sizes DEF IsPower
  <2>3. \A k \in 0..(n+1) : g[k] \in Nat \ {0}
    BY <2>1, <2>2 DEF IsPower
  <2>4. g[0] = 1
    BY <2>1 DEF IsPower
  <2>5. ASSUME NEW k \in 1..(n + 1) PROVE g[k] = Base * g[k - 1]
    <3>1. CASE k = n + 1
      <4>1. k - 1 = n /\ k - 1 \in 0..(n + 1) /\ k - 1 # n + 1
        BY <3>1
      <4> QED
        BY <3>1, <4>1
    <3>2. CASE k # n + 1
      <4>1. k \in 1..n /\ k - 1 \in 0..(n + 1) /\ k - 1 # n + 1
        BY <3>2
      <4>2. g[k] = f[k] /\ g[k - 1] = f[k - 1]
        BY <3>2, <4>1
      <4>3. f[k] = Base * f[k - 1]
        BY <2>1, <4>1 DEF IsPower
      <4> HIDE DEF g
      <4> QED
        BY <4>2, <4>3
    <3> QED
      BY <3>1, <3>2
  <2>6. g = [k \in 0..(n + 1) |-> g[k]]
    OBVIOUS
  <2>7. IsPower(g, n + 1)
    BY <2>3, <2>4, <2>5, <2>6 DEF IsPower
  <2> QED
    BY <2>7
<1>3. Nat \subseteq S
  <2> HIDE DEF S
  <2> QED
    BY <1>1, <1>2, NatInductive
<1> QED
  BY <1>3

LEMMA PowersAgree ==
  ASSUME NEW m \in Nat, NEW n \in Nat, m <= n, NEW f, NEW g, IsPower(f, m), IsPower(g, n)
  PROVE  \A k \in 0..m : f[k] = g[k]
<1> DEFINE S == {k \in Nat : k <= m => f[k] = g[k]}
<1>1. 0 \in S
  BY DEF IsPower
<1>2. ASSUME NEW k \in Nat, k \in S PROVE k + 1 \in S
  <2> SUFFICES ASSUME k + 1 <= m PROVE f[k + 1] = g[k + 1]
    OBVIOUS
  <2>1. f[k] = g[k] /\ k + 1 \in 1..m /\ k + 1 \in 1..n /\ (k + 1) - 1 = k
    BY <1>2
  <2> QED
    BY <2>1 DEF IsPower
<1>3. Nat \subseteq S
  <2> HIDE DEF S
  <2> QED
    BY <1>1, <1>2, NatInductive
<1> QED
  BY <1>3

LEMMA PowerDef ==
  /\ \A k \in Nat : Power[k] \in Nat \ {0}
  /\ Power[0] = 1
  /\ \A k \in Nat : Power[k + 1] = Base * Power[k]
<1> DEFINE a(n) == CHOOSE f : IsPower(f, n)
           F == [k \in Nat |-> a(k)[k]]
<1>1. \A n \in Nat : IsPower(a(n), n)
  BY PowerExists
<1> HIDE DEF a
<1>2. F[0] = 1
  BY <1>1 DEF IsPower
<1>3. ASSUME NEW k \in Nat PROVE F[k] \in Nat \ {0}
  BY <1>1 DEF IsPower
<1>4. ASSUME NEW k \in Nat \ {0} PROVE F[k] = Base * F[k - 1]
  <2>1. k - 1 \in Nat /\ k - 1 <= k /\ k - 1 \in 0..(k-1) /\ k \in 1..k
    OBVIOUS
  <2>2. a(k)[k] = Base * a(k)[k - 1]
    BY <1>1, <2>1 DEF IsPower
  <2>3. a(k - 1)[k - 1] = a(k)[k - 1]
    BY <1>1, <2>1, PowersAgree
  <2> QED
    BY <2>1, <2>2, <2>3
<1>5. F = [k \in Nat |-> IF k = 0 THEN 1 ELSE Base * F[k - 1]]
  <2>1. ASSUME NEW k \in Nat PROVE F[k] = IF k = 0 THEN 1 ELSE Base * F[k - 1]
    BY <1>2, <1>4
  <2>2. F = [k \in Nat |-> F[k]]
    OBVIOUS
  <2> HIDE DEF F
  <2> QED
    BY <2>1, <2>2
<1> HIDE DEF F
<1>6. Power = [k \in Nat |-> IF k = 0 THEN 1 ELSE Base * Power[k - 1]]
  BY <1>5, PowerUnfolds
<1>7. Power[0] = 1
  BY <1>6
<1>8. ASSUME NEW k \in Nat PROVE Power[k + 1] = Base * Power[k]
  <2>1. k + 1 \in Nat /\ k + 1 # 0 /\ (k + 1) - 1 = k
    OBVIOUS
  <2> QED
    BY <1>6, <2>1
<1> DEFINE S == {k \in Nat : Power[k] \in Nat \ {0}}
<1>9. 0 \in S
  BY <1>7
<1>10. ASSUME NEW k \in Nat, k \in S PROVE k + 1 \in S
  BY <1>8, <1>10, Sizes
<1>11. Nat \subseteq S
  <2> HIDE DEF S
  <2> QED
    BY <1>9, <1>10, NatInductive
<1> QED
  BY <1>7, <1>8, <1>11

\* f solves the equation of value in Number.
IsValue(f, cells, offset, width) ==
  f = [i \in 0..width |-> IF i = width THEN 0
                          ELSE cells[offset + i + 1] + Base * f[i + 1]]

\* If the equation has a solution, Number is the first value of one.
LEMMA NumberUnfolds ==
  ASSUME NEW cells, NEW offset, NEW width, NEW g, IsValue(g, cells, offset, width)
  PROVE  \E f : IsValue(f, cells, offset, width) /\ Number(cells, offset, width) = f[0]
<1> DEFINE f == CHOOSE f : IsValue(f, cells, offset, width)
<1>1. IsValue(f, cells, offset, width)
  BY Zenon
<1>2. Number(cells, offset, width) = f[0]
  BY Zenon DEF Number, IsValue
<1> QED
  BY <1>1, <1>2, Zenon

\* The equation has one solution: by induction from the last cell.
LEMMA ValuesAgree ==
  ASSUME NEW cells, NEW offset \in Nat, NEW width \in Nat, NEW f, NEW g,
         IsValue(f, cells, offset, width), IsValue(g, cells, offset, width)
  PROVE  f[0] = g[0]
<1> DEFINE S == {k \in Nat : k <= width => f[width - k] = g[width - k]}
<1>1. 0 \in S
  BY DEF IsValue
<1>2. ASSUME NEW k \in Nat, k \in S PROVE k + 1 \in S
  <2> SUFFICES ASSUME k + 1 <= width PROVE f[width - (k + 1)] = g[width - (k + 1)]
    OBVIOUS
  <2> DEFINE i == width - (k + 1)
  <2>1. f[width - k] = g[width - k] /\ i \in 0..width /\ i # width /\ i + 1 = width - k
    BY <1>2
  <2> HIDE DEF i
  <2>2. f[i] = cells[offset + i + 1] + Base * f[i + 1]
    BY <2>1 DEF IsValue
  <2>3. g[i] = cells[offset + i + 1] + Base * g[i + 1]
    BY <2>1 DEF IsValue
  <2>4. f[i] = g[i]
    BY <2>1, <2>2, <2>3
  <2> QED
    BY <2>4 DEF i
<1>3. Nat \subseteq S
  <2> HIDE DEF S
  <2> QED
    BY <1>1, <1>2, NatInductive
<1>4. width \in S /\ width - width = 0
  BY <1>3
<1> QED
  BY <1>4

\* What Digits wrote, Number reads, if the number fits the width.
LEMMA NumberReads ==
  ASSUME NEW n \in Nat, NEW cells, NEW offset \in Nat, NEW width \in Nat,
         n < Power[width],
         \A i \in 1..width : cells[offset + i] = (n \div Power[i - 1]) % Base
  PROVE  Number(cells, offset, width) = n
<1> DEFINE g == [i \in 0..width |-> (n \div Power[i])]
<1>1. ASSUME NEW i \in 0..width PROVE g[i] \in Nat
  <2>1. PICK p \in Nat \ {0} : p = Power[i]
    BY PowerDef
  <2>2. (n \div p) \in Nat
    BY DivFacts
  <2> QED
    BY <2>1, <2>2
<1>2. g[width] = 0
  <2>1. PICK p \in Nat \ {0} : p = Power[width]
    BY PowerDef
  <2>2. n = (p * 0) + n /\ n \in 0..(p - 1)
    BY <2>1
  <2>3. (n \div p) = 0
    BY <2>2, DivUnique
  <2> QED
    BY <2>1, <2>3
<1>3. ASSUME NEW i \in 0..width, i # width
      PROVE  g[i] = cells[offset + i + 1] + Base * g[i + 1]
  <2>1. /\ i \in Nat /\ i + 1 \in 1..width /\ (i + 1) - 1 = i
        /\ offset + (i + 1) = offset + i + 1
    BY <1>3
  <2>2. PICK p \in Nat \ {0} : p = Power[i]
    BY <2>1, PowerDef
  <2>3. Power[i + 1] = Base * p
    BY <2>1, <2>2, PowerDef
  <2>4. cells[offset + i + 1] = (n \div p) % Base
    BY <2>1, <2>2
  <2>5. g[i] = (n \div p) /\ g[i + 1] = (n \div (Base * p))
    BY <2>1, <2>2, <2>3
  <2>6. Base \in Nat \ {0}
    BY Sizes
  <2>7. ((n \div p) \div Base) = (n \div (Base * p))
    BY <2>2, <2>6, DivDiv
  <2>8. PICK q \in Nat : q = (n \div p)
    BY DivFacts
  <2>9. PICK b \in Nat \ {0} : b = Base
    BY <2>6
  <2>10. PICK d \in Nat : d = (q \div b)
    BY DivFacts
  <2>11. PICK e \in Nat : e = (q % b)
    BY DivFacts
  <2>12. q = (b * d) + e
    BY <2>10, <2>11, DivFacts
  <2>13. g[i] = q /\ g[i + 1] = d /\ cells[offset + i + 1] = e
    BY <2>4, <2>5, <2>7, <2>8, <2>9, <2>10, <2>11
  <2> QED
    BY <2>9, <2>12, <2>13
<1>4. IsValue(g, cells, offset, width)
  <2>1. \A i \in 0..width :
          g[i] = IF i = width THEN 0 ELSE cells[offset + i + 1] + Base * g[i + 1]
    BY <1>2, <1>3
  <2>2. g = [i \in 0..width |-> g[i]]
    OBVIOUS
  <2> HIDE DEF g
  <2> QED
    BY <2>1, <2>2 DEF IsValue
<1>5. g[0] = n
  <2>1. n = (1 * n) + 0
    OBVIOUS
  <2>2. (n \div 1) = n
    OBVIOUS
  <2> QED
    BY <2>2, PowerDef
<1> HIDE DEF g
<1>6. PICK f : IsValue(f, cells, offset, width) /\ Number(cells, offset, width) = f[0]
  BY <1>4, NumberUnfolds
<1> QED
  BY <1>4, <1>5, <1>6, ValuesAgree

\* Number makes a number of whatever cells it is given.
LEMMA NumberIsNumber ==
  ASSUME NEW cells, NEW offset \in Nat, NEW width \in Nat,
         \A i \in 1..width : cells[offset + i] \in Int
  PROVE  Number(cells, offset, width) \in Int
<1> DEFINE Suffix(f, k) ==
             /\ f = [i \in (width - k)..width |-> f[i]]
             /\ \A i \in (width - k)..width : f[i] \in Int
             /\ f[width] = 0
             /\ \A i \in (width - k)..(width - 1) :
                  f[i] = cells[offset + i + 1] + Base * f[i + 1]
           S == {k \in Nat : k <= width => \E f : Suffix(f, k)}
<1>1. 0 \in S
  <2>1. Suffix([i \in width..width |-> 0], 0)
    OBVIOUS
  <2>2. \E f : Suffix(f, 0)
    BY <2>1
  <2> HIDE DEF Suffix
  <2> QED
    BY <2>2
<1>2. ASSUME NEW k \in Nat, k \in S PROVE k + 1 \in S
  <2> SUFFICES ASSUME k + 1 <= width PROVE \E f : Suffix(f, k + 1)
    OBVIOUS
  <2>0. \E f : Suffix(f, k)
    BY <1>2
  <2>1. PICK f : Suffix(f, k)
    BY <2>0
  <2> DEFINE j == width - (k + 1)
  <2>2. j \in 0..(width - 1) /\ j + 1 = width - k
    OBVIOUS
  <2> DEFINE v == cells[offset + j + 1] + Base * f[j + 1]
             g == [i \in j..width |-> IF i = j THEN v ELSE f[i]]
  <2>3. v \in Int
    <3>1. j + 1 \in 1..width /\ offset + (j + 1) = offset + j + 1
      BY <2>2
    <3>2. cells[offset + j + 1] \in Int
      BY <3>1
    <3>3. f[j + 1] \in Int
      BY <2>1, <2>2
    <3> QED
      BY <3>2, <3>3, Sizes
  <2> HIDE DEF v, j
  <2>4. \A i \in j..width : i = j \/ i \in (width - k)..width
    BY <2>2
  <2>5. \A i \in j..width : g[i] \in Int
    BY <2>1, <2>3, <2>4
  <2>6. g[width] = 0
    BY <2>1, <2>2
  <2>7. ASSUME NEW i \in j..(width - 1)
        PROVE  g[i] = cells[offset + i + 1] + Base * g[i + 1]
    <3>1. i + 1 \in j..width /\ i + 1 # j /\ i \in j..width
      BY <2>2
    <3>2. g[i + 1] = f[i + 1]
      BY <3>1
    <3>3. CASE i = j
      BY <3>1, <3>2, <3>3 DEF v
    <3>4. CASE i # j
      <4>1. i \in (width - k)..(width - 1)
        BY <2>2, <3>4
      <4> QED
        BY <2>1, <3>1, <3>2, <3>4, <4>1
    <3> QED
      BY <3>3, <3>4
  <2>8. g = [i \in j..width |-> g[i]]
    OBVIOUS
  <2> HIDE DEF g
  <2>9. Suffix(g, k + 1)
    BY <2>5, <2>6, <2>7, <2>8 DEF j
  <2> QED
    BY <2>9
<1>3. width \in S
  <2>1. Nat \subseteq S
    <3> HIDE DEF S
    <3> QED
      BY <1>1, <1>2, NatInductive
  <2> QED
    BY <2>1
<1>4. PICK g : Suffix(g, width)
  BY <1>3
<1>5. width - width = 0 /\ 0 \in 0..width
  OBVIOUS
<1>6. g[0] \in Int
  BY <1>4, <1>5
<1>7. IsValue(g, cells, offset, width)
  <2>1. ASSUME NEW i \in 0..width
        PROVE  g[i] = IF i = width THEN 0 ELSE cells[offset + i + 1] + Base * g[i + 1]
    <3>1. i = width \/ i \in (width - width)..(width - 1)
      OBVIOUS
    <3> QED
      BY <1>4, <3>1
  <2>2. g = [i \in 0..width |-> g[i]]
    BY <1>4, <1>5
  <2> QED
    BY <2>1, <2>2 DEF IsValue
<1>8. PICK f : IsValue(f, cells, offset, width) /\ Number(cells, offset, width) = f[0]
  BY <1>7, NumberUnfolds
<1> QED
  BY <1>6, <1>7, <1>8, ValuesAgree
--------------------------------------------------------------------------------
(* The keys come first in an account, and the decoder finds them there.     *)

Cells == Keys \union {0, 1, Bump}
           \union {(n \div Power[k - 1]) % Base : n \in Nat, k \in Nat}

LEMMA DigitsAreCells ==
  ASSUME NEW n \in Nat, NEW width \in Nat
  PROVE  Digits(n, width) \in Seq(Cells)
<1>1. \A i \in 1..width : (n \div Power[i - 1]) % Base \in Cells
  BY DEF Cells
<1> QED
  BY <1>1 DEF Digits

\* Appending cells leaves the first three alone.
LEMMA HeadKept ==
  ASSUME NEW S, NEW s \in Seq(S), NEW t \in Seq(S), Len(s) >= 3
  PROVE  /\ s \o t \in Seq(S) /\ Len(s \o t) >= 3
         /\ (s \o t)[1] = s[1] /\ (s \o t)[3] = s[3]
<1>1. Len(s) \in Nat /\ Len(t) \in Nat
  OBVIOUS
<1>2. s \o t \in Seq(S) /\ Len(s \o t) = Len(s) + Len(t)
  OBVIOUS
<1>3. 1 \in 1..(Len(s) + Len(t)) /\ 3 \in 1..(Len(s) + Len(t))
  BY <1>1
<1> QED
  BY <1>1, <1>2, <1>3

\* Whatever the numbers, an account's bytes start with the owner, the token
\* account and the mint.
LEMMA BytesStartWithKeys ==
  ASSUME NEW w \in Wallets, NEW a \in Account
  PROVE  /\ WalletBytes(w, a)[1] = OwnerOf[w]
         /\ WalletBytes(w, a)[3] = MintOf[w]
<1> DEFINE s0 == <<OwnerOf[w], TokenAccountOf[w], MintOf[w]>>
           s1 == s0 \o U32(a.subs)
           s2 == s1 \o U64(a.spent)
           s3 == s2 \o U64(a.shares)
           t  == <<Flag(a.enabled), Bump>>
<1>1. s0 \in Seq(Cells) /\ Len(s0) = 3 /\ s0[1] = OwnerOf[w] /\ s0[3] = MintOf[w]
  <2>1. {OwnerOf[w], TokenAccountOf[w], MintOf[w]} \subseteq Cells
    BY MirrorAssumption DEF Cells
  <2> QED
    BY <2>1
<1>2. /\ U32(a.subs) \in Seq(Cells) /\ U64(a.spent) \in Seq(Cells)
      /\ U64(a.shares) \in Seq(Cells)
  <2>1. Word \in Nat /\ 2 * Word \in Nat
    BY MirrorAssumption
  <2>2. a.subs \in Nat /\ a.spent \in Nat /\ a.shares \in Nat
    BY DEF Account
  <2> QED
    BY <2>1, <2>2, DigitsAreCells DEF U32, U64
<1>3. t \in Seq(Cells)
  <2>1. Flag(a.enabled) \in Cells /\ Bump \in Cells
    BY DEF Flag, Cells
  <2> QED
    BY <2>1
<1> HIDE DEF s0, t
<1>4. s1 \in Seq(Cells) /\ Len(s1) >= 3 /\ s1[1] = s0[1] /\ s1[3] = s0[3]
  <2>1. Len(s0) >= 3
    BY <1>1
  <2> QED
    BY <1>1, <1>2, <2>1, HeadKept
<1> HIDE DEF s1
<1>5. s2 \in Seq(Cells) /\ Len(s2) >= 3 /\ s2[1] = s1[1] /\ s2[3] = s1[3]
  BY <1>2, <1>4, HeadKept
<1> HIDE DEF s2
<1>6. s3 \in Seq(Cells) /\ Len(s3) >= 3 /\ s3[1] = s2[1] /\ s3[3] = s2[3]
  BY <1>2, <1>5, HeadKept
<1> HIDE DEF s3
<1>7. (s3 \o t)[1] = s3[1] /\ (s3 \o t)[3] = s3[3]
  BY <1>3, <1>6, HeadKept
<1>8. WalletBytes(w, a) = s3 \o t
  BY DEF WalletBytes, s3, s2, s1, s0, t
<1> QED
  BY <1>1, <1>4, <1>5, <1>6, <1>7, <1>8

\* The decoder reads the owner and the mint of the account, wherever it looks
\* for the numbers.
LEMMA DecodedIsNamed ==
  ASSUME NEW w \in Wallets, NEW a \in Account
  PROVE  Named(w, RowOf(ReadWallet(WalletBytes(w, a))))
BY BytesStartWithKeys DEF Named, RowOf, ReadWallet, WalletWithMint
--------------------------------------------------------------------------------
(* The steps.                                                               *)

LEMMA WalletAccountType ==
  ASSUME NEW subs \in Nat, NEW spent \in Nat, NEW shares \in Nat,
         NEW enabled \in BOOLEAN
  PROVE  /\ WalletAccount(subs, spent, shares, enabled) \in Account
         /\ WalletAccount(subs, spent, shares, enabled).subs = subs
BY DEF WalletAccount, Account

LEMMA SubscriptionAccountType ==
  ASSUME NEW legacy \in BOOLEAN, NEW token \in Tokens \union {<<>>},
         NEW paid \in Nat, NEW count \in Nat, NEW active \in BOOLEAN
  PROVE  /\ SubscriptionAccount(legacy, token, paid, count, active) \in Subscription
         /\ SubscriptionAccount(legacy, token, paid, count, active).active = active
         /\ SubscriptionAccount(legacy, token, paid, count, active) # None
<1>1. SubscriptionAccount(legacy, token, paid, count, active) \in Subscription
  BY DEF SubscriptionAccount, Subscription
<1>2. SubscriptionAccount(legacy, token, paid, count, active).active = active
  BY DEF SubscriptionAccount
<1> QED
  BY <1>1, <1>2, NoneAssumption

LEMMA InitHolds == Init => IInv
<1> SUFFICES ASSUME Init PROVE IInv
  OBVIOUS
<1> USE DEF Init
<1>1. WalletAccount(1, 0, 0, FALSE) \in Account
  BY WalletAccountType
<1>2. AccountsOK
  <2>1. account \in [Wallets -> Account \union {None}]
    BY <1>1
  <2>2. data = [w \in Wallets |-> data[w]]
    OBVIOUS
  <2>3. subscription \in [Wallets -> Subscription \union {None}]
    BY SubscriptionAccountType
  <2>4. ASSUME NEW w \in Wallets
        PROVE  OnChain(w) => data[w] = WalletBytes(w, account[w])
    BY DEF OnChain
  <2>5. ASSUME NEW w \in Wallets
        PROVE  /\ Subscribed(w) => OnChain(w)
               /\ OnChain(w) => account[w].subs = IF Subscribed(w) THEN 1 ELSE 0
    <3>1. CASE w \in Legacy
      <4>1. account[w] = WalletAccount(1, 0, 0, FALSE) /\ account[w].subs = 1
        BY <3>1 DEF WalletAccount
      <4>2. subscription[w] # None => Subscribed(w)
        BY <3>1, SubscriptionAccountType DEF Subscribed
      <4>3. subscription[w] # None
        BY <3>1, SubscriptionAccountType
      <4> QED
        BY <1>1, <4>1, <4>2, <4>3, NoneAssumption DEF OnChain
    <3>2. CASE w \notin Legacy
      BY <3>2 DEF OnChain, Subscribed
    <3> QED
      BY <3>1, <3>2
  <2> QED
    BY <2>1, <2>2, <2>3, <2>4, <2>5 DEF AccountsOK
<1>3. LogOK
  BY DEF LogOK
<1>4. HandlersOK
  BY DEF HandlersOK, Idle, AtStep
<1>5. RowsOK
  BY DEF RowsOK
<1>6. SyncOK
  BY DEF SyncOK, IdleSync, Syncing
<1> QED
  BY <1>2, <1>3, <1>4, <1>5, <1>6 DEF IInv

\* An instruction stores an account and logs a transaction of its wallet: the
\* rows, the handlers and the sync know no less of it than before.
LEMMA InstructionPreserves ==
  ASSUME IInv, NEW w \in Wallets, NEW a \in Account, Store(w, a),
         NEW kind, NEW n,
         [kind |-> kind, of |-> w, amount |-> n] \in Transaction,
         Emit(kind, w, n),
         subscription' \in [Wallets -> Subscription \union {None}],
         \A v \in Wallets \ {w} : subscription'[v] = subscription[v],
         a.subs = IF Subscribed(w)' THEN 1 ELSE 0
  PROVE  IInv'
<1> USE DEF IInv
<1>1. a # None
  BY NoneAssumption
<1>2. \A v \in Wallets : account'[v] = IF v = w THEN a ELSE account[v]
  BY DEF Store, AccountsOK
<1>3. \A v \in Wallets : OnChain(v) => OnChain(v)'
  BY <1>1, <1>2 DEF OnChain
<1>4. OnChain(w)'
  BY <1>1, <1>2 DEF OnChain
<1>5. AccountsOK'
  <2>1. account' \in [Wallets -> Account \union {None}]
    BY DEF Store, AccountsOK
  <2>2. data' = [v \in Wallets |-> data'[v]]
    BY DEF Store, AccountsOK
  <2>3. ASSUME NEW v \in Wallets, OnChain(v)'
        PROVE  data'[v] = WalletBytes(v, account'[v])
    <3>1. CASE v = w
      BY <1>2, <3>1 DEF Store, AccountsOK
    <3>2. CASE v # w
      BY <1>2, <2>3, <3>2 DEF Store, AccountsOK, OnChain
    <3> QED
      BY <3>1, <3>2
  <2>4. ASSUME NEW v \in Wallets
        PROVE  /\ Subscribed(v)' => OnChain(v)'
               /\ OnChain(v)' => account'[v].subs = IF Subscribed(v)' THEN 1
                                                                    ELSE 0
    <3>1. CASE v = w
      BY <1>2, <1>4, <3>1
    <3>2. CASE v # w
      <4>1. Subscribed(v)' <=> Subscribed(v)
        BY <3>2 DEF Subscribed
      <4>2. OnChain(v)' <=> OnChain(v)
        BY <1>2, <3>2 DEF OnChain
      <4> QED
        BY <1>2, <3>2, <4>1, <4>2 DEF AccountsOK
    <3> QED
      BY <3>1, <3>2
  <2>5. \A v \in Wallets : OnChain(v)' => data'[v] = (WalletBytes(v, account[v]))'
    BY <2>3 DEF WalletBytes, U32, U64, Digits, Flag
  <2> QED
    BY <2>1, <2>2, <2>5, <2>4 DEF AccountsOK
<1>6. LogOK'
  <2>1. log' = Append(log, [kind |-> kind, of |-> w, amount |-> n])
    BY DEF Emit
  <2>2. log' \in Seq(Transaction)
    BY <2>1 DEF LogOK
  <2>3. ASSUME NEW i \in DOMAIN log' PROVE OnChain(log[i].of)'
    <3>1. CASE i = Len(log) + 1
      BY <1>4, <2>1, <3>1 DEF LogOK, OnChain
    <3>2. CASE i # Len(log) + 1
      <4>1. i \in DOMAIN log /\ log'[i] = log[i]
        BY <2>1, <3>2 DEF LogOK
      <4>2. OnChain(log[i].of)
        BY <4>1 DEF LogOK
      <4>3. log[i] \in Transaction
        BY <4>1 DEF LogOK
      <4>4. log[i].of \in Wallets
        BY <4>3 DEF Transaction
      <4> QED
        BY <1>3, <4>1, <4>2, <4>4 DEF OnChain
    <3> QED
      BY <3>1, <3>2
  <2> QED
    BY <2>2, <2>3 DEF LogOK
<1>7. HandlersOK'
  <2>1. hs' = hs /\ DOMAIN log \subseteq DOMAIN log'
    BY DEF Emit, LogOK
  <2> QED
    BY <2>1 DEF HandlersOK
<1>8. RowsOK'
  <2>1. row' = row
    BY DEF Emit
  <2> QED
    BY <1>3, <2>1 DEF RowsOK, Named, RowOf
<1>9. SyncOK'
  <2>1. sync' = sync
    BY DEF Emit
  <2> QED
    BY <1>3, <2>1 DEF SyncOK, Named, RowOf
<1> QED
  BY <1>5, <1>6, <1>7, <1>8, <1>9

\* A step that leaves the chain and the sync alone, and gives a row only the
\* keys of its wallet.
LEMMA ServerPreserves ==
  ASSUME IInv, UNCHANGED chainVars, HandlersOK', RowsOK', SyncOK'
  PROVE  IInv'
<1>1. AccountsOK'
  <2>1. ASSUME NEW w \in Wallets
        PROVE  (WalletBytes(w, account[w]))' = WalletBytes(w, account[w])
    BY DEF chainVars, WalletBytes, U32, U64, Digits, Flag
  <2> QED
    BY <2>1 DEF IInv, AccountsOK, chainVars, OnChain, Subscribed
<1>2. LogOK'
  BY DEF IInv, LogOK, chainVars, OnChain
<1> QED
  BY <1>1, <1>2 DEF IInv

LEMMA ProgramPreserves ==
  ASSUME IInv, NEW w \in Wallets, Program(w)
  PROVE  IInv'
<1> USE DEF IInv
<1>1. OnChain(w) => account[w] \in Account
  BY DEF AccountsOK, OnChain
<1>2. OnChain(w) => account[w].subs = IF Subscribed(w) THEN 1 ELSE 0
  BY DEF AccountsOK
<1>3. UNCHANGED subscription =>
        /\ subscription' \in [Wallets -> Subscription \union {None}]
        /\ \A v \in Wallets \ {w} : subscription'[v] = subscription[v]
        /\ Subscribed(w)' <=> Subscribed(w)
  BY DEF AccountsOK, Subscribed
<1>4. CASE CreateWallet(w)
  <2> DEFINE a == WalletAccount(0, 0, 0, FALSE)
  <2>1. Store(w, a) /\ Emit("created", w, 0) /\ UNCHANGED subscription
    BY <1>4 DEF CreateWallet
  <2>2. a \in Account /\ a.subs = 0
    BY WalletAccountType
  <2>3. [kind |-> "created", of |-> w, amount |-> 0] \in Transaction
    BY DEF Transaction
  <2>4. a.subs = IF Subscribed(w)' THEN 1 ELSE 0
    BY <1>3, <1>4, <2>1, <2>2 DEF CreateWallet, AccountsOK
  <2> HIDE DEF a
  <2> QED
    BY <1>3, <2>1, <2>2, <2>3, <2>4, InstructionPreserves
<1>5. CASE MoveTokens(w)
  <2>1. /\ OnChain(w) /\ Emit("moved", w, 0)
        /\ UNCHANGED <<account, data, subscription>>
    BY <1>5 DEF MoveTokens
  <2>2. Store(w, account[w])
    <3>1. data[w] = WalletBytes(w, account[w])
      BY <2>1 DEF AccountsOK
    <3> QED
      BY <2>1, <3>1 DEF Store, AccountsOK
  <2>3. [kind |-> "moved", of |-> w, amount |-> 0] \in Transaction
    BY DEF Transaction
  <2>4. account[w].subs = IF Subscribed(w)' THEN 1 ELSE 0
    BY <1>2, <1>3, <2>1
  <2> QED
    BY <1>1, <1>3, <2>1, <2>2, <2>3, <2>4, InstructionPreserves
<1>6. ASSUME NEW token \in Tokens, Subscribe(w, token)
      PROVE  IInv'
  <2> DEFINE a == WalletAccount(account[w].subs + 1, account[w].spent, account[w].shares, account[w].enabled)
  <2>1. OnChain(w) /\ Store(w, a) /\ Emit("subscribed", w, 0)
    BY <1>6 DEF Subscribe
  <2>2. a \in Account /\ a.subs = 1
    <3>1. /\ account[w].spent \in Nat /\ account[w].shares \in Nat
          /\ account[w].subs + 1 = 1 /\ account[w].enabled \in BOOLEAN
      BY <1>1, <1>2, <1>6, <2>1, MirrorAssumption DEF Account, Subscribe
    <3> QED
      BY <3>1, WalletAccountType
  <2>3. [kind |-> "subscribed", of |-> w, amount |-> 0] \in Transaction
    BY <1>1, <1>6, <2>1, MirrorAssumption DEF Transaction, Account, Subscribe
  <2> DEFINE s == SubscriptionAccount(FALSE, token, 0, 0, TRUE)
  <2>4. subscription' = [subscription EXCEPT ![w] = s]
    BY <1>6 DEF Subscribe
  <2>5. s \in Subscription /\ s # None /\ s.active = TRUE
    BY SubscriptionAccountType
  <2> HIDE DEF s
  <2>6. /\ subscription' \in [Wallets -> Subscription \union {None}]
        /\ \A v \in Wallets \ {w} : subscription'[v] = subscription[v]
        /\ subscription'[w] = s
    BY <2>4, <2>5 DEF AccountsOK
  <2>7. Subscribed(w)' = TRUE
    BY <2>5, <2>6 DEF Subscribed
  <2>8. a.subs = IF Subscribed(w)' THEN 1 ELSE 0
    BY <1>2, <1>6, <2>2, <2>7 DEF Subscribe
  <2> HIDE DEF a
  <2> QED
    BY <2>1, <2>2, <2>3, <2>6, <2>8, InstructionPreserves
<1>7. CASE Cancel(w)
  <2> DEFINE a == WalletAccount(account[w].subs - 1, account[w].spent, account[w].shares, account[w].enabled)
  <2>1. OnChain(w) /\ Store(w, a) /\ Emit("cancelled", w, 0)
    BY <1>7 DEF Cancel
  <2>2. a \in Account /\ a.subs = 0
    <3>1. /\ account[w].spent \in Nat /\ account[w].shares \in Nat
          /\ account[w].subs - 1 = 0 /\ account[w].enabled \in BOOLEAN
      BY <1>1, <1>2, <1>7, <2>1, MirrorAssumption DEF Account, Cancel
    <3> QED
      BY <3>1, WalletAccountType
  <2>3. [kind |-> "cancelled", of |-> w, amount |-> 0] \in Transaction
    BY <1>1, <1>7, <2>1, MirrorAssumption DEF Transaction, Account, Cancel
  <2> DEFINE s == SubscriptionAccount(subscription[w].legacy, subscription[w].token,
                                  subscription[w].paid, subscription[w].count,
                                  FALSE)
  <2>4. subscription' = [subscription EXCEPT ![w] = s]
    BY <1>7 DEF Cancel
  <2>5. s \in Subscription /\ s # None /\ s.active = FALSE
    <3>1. subscription[w] \in Subscription
      BY <1>7 DEF Cancel, Subscribed, AccountsOK
    <3>2. /\ subscription[w].legacy \in BOOLEAN
          /\ subscription[w].token \in Tokens \union {<<>>}
          /\ subscription[w].paid \in Nat /\ subscription[w].count \in Nat
      BY <3>1 DEF Subscription
    <3>3. subscription[w].paid + Fee \in Nat /\ subscription[w].count + 1 \in Nat
      BY <3>2, Sizes
    <3>4. \A l \in BOOLEAN, t \in Tokens \union {<<>>}, p \in Nat, c \in Nat :
            /\ SubscriptionAccount(l, t, p, c, FALSE) \in Subscription
            /\ SubscriptionAccount(l, t, p, c, FALSE) # None
            /\ SubscriptionAccount(l, t, p, c, FALSE).active = FALSE
      BY SubscriptionAccountType
    <3> QED
      BY <3>2, <3>3, <3>4, Zenon
  <2> HIDE DEF s
  <2>6. /\ subscription' \in [Wallets -> Subscription \union {None}]
        /\ \A v \in Wallets \ {w} : subscription'[v] = subscription[v]
        /\ subscription'[w] = s
    BY <2>4, <2>5 DEF AccountsOK
  <2>7. Subscribed(w)' = FALSE
    BY <2>5, <2>6 DEF Subscribed
  <2>8. a.subs = IF Subscribed(w)' THEN 1 ELSE 0
    BY <1>2, <1>7, <2>2, <2>7 DEF Cancel
  <2> HIDE DEF a
  <2> QED
    BY <2>1, <2>2, <2>3, <2>6, <2>8, InstructionPreserves
<1>8. CASE Pay(w)
  <2> DEFINE a == WalletAccount(account[w].subs, account[w].spent + Fee, account[w].shares, account[w].enabled)
  <2>1. OnChain(w) /\ Store(w, a) /\ Emit("paid", w, Fee)
    BY <1>8 DEF Pay
  <2>2. a \in Account /\ a.subs = 1
    <3>1. /\ account[w].spent + Fee \in Nat /\ account[w].shares \in Nat
          /\ account[w].subs = 1 /\ account[w].enabled \in BOOLEAN
      BY <1>1, <1>2, <1>8, <2>1, MirrorAssumption DEF Account, Pay
    <3> QED
      BY <3>1, WalletAccountType
  <2>3. [kind |-> "paid", of |-> w, amount |-> Fee] \in Transaction
    BY <1>1, <1>8, <2>1, MirrorAssumption DEF Transaction, Account, Pay
  <2> DEFINE s == SubscriptionAccount(subscription[w].legacy, subscription[w].token,
                                  subscription[w].paid + Fee,
                                  subscription[w].count + 1, TRUE)
  <2>4. subscription' = [subscription EXCEPT ![w] = s]
    BY <1>8 DEF Pay
  <2>5. s \in Subscription /\ s # None /\ s.active = TRUE
    <3>1. subscription[w] \in Subscription
      BY <1>8 DEF Pay, Subscribed, AccountsOK
    <3>2. /\ subscription[w].legacy \in BOOLEAN
          /\ subscription[w].token \in Tokens \union {<<>>}
          /\ subscription[w].paid \in Nat /\ subscription[w].count \in Nat
      BY <3>1 DEF Subscription
    <3>3. subscription[w].paid + Fee \in Nat /\ subscription[w].count + 1 \in Nat
      BY <3>2, Sizes
    <3>4. \A l \in BOOLEAN, t \in Tokens \union {<<>>}, p \in Nat, c \in Nat :
            /\ SubscriptionAccount(l, t, p, c, TRUE) \in Subscription
            /\ SubscriptionAccount(l, t, p, c, TRUE) # None
            /\ SubscriptionAccount(l, t, p, c, TRUE).active = TRUE
      BY SubscriptionAccountType
    <3> QED
      BY <3>2, <3>3, <3>4, Zenon
  <2> HIDE DEF s
  <2>6. /\ subscription' \in [Wallets -> Subscription \union {None}]
        /\ \A v \in Wallets \ {w} : subscription'[v] = subscription[v]
        /\ subscription'[w] = s
    BY <2>4, <2>5 DEF AccountsOK
  <2>7. Subscribed(w)' = TRUE
    BY <2>5, <2>6 DEF Subscribed
  <2>8. a.subs = IF Subscribed(w)' THEN 1 ELSE 0
    BY <1>2, <1>8, <2>2, <2>7 DEF Pay
  <2> HIDE DEF a
  <2> QED
    BY <2>1, <2>2, <2>3, <2>6, <2>8, InstructionPreserves
<1>9. ASSUME NEW n \in ShareAmounts, IssueShares(w, n)
      PROVE  IInv'
  <2> DEFINE a == WalletAccount(account[w].subs, account[w].spent, account[w].shares + n, TRUE)
  <2>1. OnChain(w) /\ Store(w, a) /\ Emit((IF account[w].enabled THEN "added" ELSE "enabled"), w, n)
    BY <1>9 DEF IssueShares
  <2>2. a \in Account /\ a.subs = account[w].subs
    <3>1. /\ account[w].subs \in Nat /\ account[w].spent \in Nat
          /\ account[w].shares + n \in Nat
      BY <1>1, <1>2, <1>9, <2>1, MirrorAssumption DEF Account, IssueShares
    <3> QED
      BY <3>1, WalletAccountType
  <2>3. [kind |-> (IF account[w].enabled THEN "added" ELSE "enabled"), of |-> w, amount |-> n] \in Transaction
    BY <1>1, <1>9, <2>1, MirrorAssumption DEF Transaction, Account, IssueShares
  <2>4. UNCHANGED subscription
    BY <1>9 DEF IssueShares
  <2>5. a.subs = IF Subscribed(w)' THEN 1 ELSE 0
    BY <1>2, <1>3, <2>1, <2>2, <2>4
  <2> HIDE DEF a
  <2> QED
    BY <1>3, <2>1, <2>2, <2>3, <2>4, <2>5, InstructionPreserves
<1>10. ASSUME NEW n \in ShareAmounts, RedeemShares(w, n)
       PROVE  IInv'
  <2> DEFINE a == WalletAccount(account[w].subs, account[w].spent, account[w].shares - n, TRUE)
  <2>1. OnChain(w) /\ Store(w, a) /\ Emit("taken", w, n)
    BY <1>10 DEF RedeemShares
  <2>2. a \in Account /\ a.subs = account[w].subs
    <3>1. /\ account[w].subs \in Nat /\ account[w].spent \in Nat
          /\ account[w].shares - n \in Nat
      BY <1>1, <1>2, <1>10, <2>1, MirrorAssumption DEF Account, RedeemShares
    <3> QED
      BY <3>1, WalletAccountType
  <2>3. [kind |-> "taken", of |-> w, amount |-> n] \in Transaction
    BY <1>1, <1>10, <2>1, MirrorAssumption DEF Transaction, Account, RedeemShares
  <2>4. UNCHANGED subscription
    BY <1>10 DEF RedeemShares
  <2>5. a.subs = IF Subscribed(w)' THEN 1 ELSE 0
    BY <1>2, <1>3, <2>1, <2>2, <2>4
  <2> HIDE DEF a
  <2> QED
    BY <1>3, <2>1, <2>2, <2>3, <2>4, <2>5, InstructionPreserves
<1>11. CASE DisableYield(w)
  <2> DEFINE a == WalletAccount(account[w].subs, account[w].spent, 0, FALSE)
  <2>1. OnChain(w) /\ Store(w, a) /\ Emit("disabled", w, account[w].shares)
    BY <1>11 DEF DisableYield
  <2>2. a \in Account /\ a.subs = account[w].subs
    <3>1. account[w].subs \in Nat /\ account[w].spent \in Nat
      BY <1>1, <1>2, <1>11, <2>1, MirrorAssumption DEF Account, DisableYield
    <3> QED
      BY <3>1, WalletAccountType
  <2>3. [kind |-> "disabled", of |-> w, amount |-> account[w].shares] \in Transaction
    BY <1>1, <1>11, <2>1, MirrorAssumption DEF Transaction, Account, DisableYield
  <2>4. UNCHANGED subscription
    BY <1>11 DEF DisableYield
  <2>5. a.subs = IF Subscribed(w)' THEN 1 ELSE 0
    BY <1>2, <1>3, <2>1, <2>2, <2>4
  <2> HIDE DEF a
  <2> QED
    BY <1>3, <2>1, <2>2, <2>3, <2>4, <2>5, InstructionPreserves
<1> QED
  BY <1>4, <1>5, <1>6, <1>7, <1>8, <1>9, <1>10, <1>11 DEF Program

\* A handler's update changes numbers of a row that is there, or nothing.
LEMMA UpdatePreserves ==
  ASSUME IInv, NEW h \in Slots, hs[h].pc # "idle", NEW r, NEW next,
         UNCHANGED <<chainVars, sync>>,
         UpdateRow(h, r, next),
         HasRow(h) => Named(Subject(h), r)
  PROVE  IInv'
<1> USE DEF IInv
<1>1. hs[h].tx \in DOMAIN log
  BY DEF HandlersOK
<1>2. log[hs[h].tx] \in Transaction
  BY <1>1 DEF LogOK
<1>3. Subject(h) \in Wallets /\ OnChain(Subject(h))
  BY <1>1, <1>2 DEF Subject, Transaction, LogOK
<1>4. RowsOK'
  <2>1. CASE HasRow(h)
    BY <1>3, <2>1 DEF UpdateRow, RowsOK, Named, RowOf, OnChain, chainVars, HasRow
  <2>2. CASE ~HasRow(h)
    BY <2>2 DEF UpdateRow, RowsOK, Named, RowOf, OnChain, chainVars
  <2> QED
    BY <2>1, <2>2
<1>5. HandlersOK'
  BY <1>1 DEF UpdateRow, HandlersOK, GoTo, Return, AtStep, Idle, chainVars
<1>6. SyncOK'
  BY DEF SyncOK, chainVars, OnChain, Named, RowOf
<1> QED
  BY <1>4, <1>5, <1>6, ServerPreserves DEF chainVars

\* A handler's step that writes no row.
LEMMA QuietPreserves ==
  ASSUME IInv, NEW h \in Slots, NEW q,
         UNCHANGED <<chainVars, row, sync>>,
         hs' = [hs EXCEPT ![h] = q],
         q.pc # "idle" => q.tx \in DOMAIN log
  PROVE  IInv'
<1> USE DEF IInv
<1>1. HandlersOK'
  BY DEF HandlersOK, chainVars
<1>2. RowsOK'
  BY DEF RowsOK, chainVars, OnChain, Named, RowOf
<1>3. SyncOK'
  BY DEF SyncOK, chainVars, OnChain, Named, RowOf
<1> QED
  BY <1>1, <1>2, <1>3, ServerPreserves DEF chainVars

LEMMA FlagIsNoKey ==
  \A w, v, b : Named(w, v) => Named(w, [v EXCEPT !.enabled = b])
BY DEF Named, RowOf

LEMMA HandlingPreserves ==
  ASSUME IInv, NEW h \in Slots, Handling(h)
  PROVE  IInv'
<1> USE DEF IInv
<1>1. ASSUME NEW i \in DOMAIN log, StartHandler(h, i)
      PROVE  IInv'
  <2> DEFINE q == AtStep(FirstStep[log[i].kind], i, 0)
  <2>1. UNCHANGED <<chainVars, row, sync>> /\ hs' = [hs EXCEPT ![h] = q]
    BY <1>1 DEF StartHandler
  <2>2. q.tx \in DOMAIN log
    BY DEF AtStep
  <2> HIDE DEF q
  <2> QED
    BY <2>1, <2>2, QuietPreserves
<1>2. CASE HandlerError(h)
  BY <1>2, QuietPreserves DEF HandlerError, Return, Idle, AtStep
<1>3. CASE HandlerStep(h)
  <2>1. /\ UNCHANGED <<chainVars, sync>> /\ hs[h].pc # "idle"
    BY <1>3 DEF HandlerStep, Running, HandleCreated, HandleSubscribed,
         HandleCancelled, ReadSpent, WriteSpent, HandleYieldDisabled,
         HandleYieldDeposit, ReadShares, WriteShares, RecordTransaction
  <2>2. hs[h].tx \in DOMAIN log
    BY <2>1 DEF HandlersOK
  <2>3. log[hs[h].tx] \in Transaction
    BY <2>2 DEF LogOK
  <2>4. Subject(h) \in Wallets /\ OnChain(Subject(h))
    BY <2>2, <2>3 DEF Subject, Transaction, LogOK
  <2>5. HasRow(h) => Named(Subject(h), row[Subject(h)])
    BY <2>4 DEF HasRow, RowsOK
  <2>6. CASE HandleCreated(h)
    <3>1. RowsOK'
      <4>1. CASE HasRow(h)
        BY <2>1, <2>6, <4>1 DEF HandleCreated, RowsOK, chainVars, OnChain, Named, RowOf
      <4>2. CASE ~HasRow(h)
        BY <2>1, <2>4, <2>6, <4>2 DEF HandleCreated, RowsOK, chainVars, OnChain,
             Named, RowOf
      <4> QED
        BY <4>1, <4>2
    <3>2. HandlersOK'
      BY <2>1, <2>6 DEF HandleCreated, Return, HandlersOK, Idle, AtStep, chainVars
    <3>3. SyncOK'
      BY <2>1 DEF SyncOK, chainVars, OnChain, Named, RowOf
    <3> QED
      BY <2>1, <3>1, <3>2, <3>3, ServerPreserves
  <2>7. CASE HandleSubscribed(h)
    <3> DEFINE r == [row[Subject(h)] EXCEPT !.subs = @ + 1]
    <3>1. UpdateRow(h, r, "record")
      BY <2>7 DEF HandleSubscribed
    <3>2. HasRow(h) => Named(Subject(h), r)
      BY <2>5 DEF Named, RowOf
    <3> HIDE DEF r
    <3> QED
      BY <2>1, <3>1, <3>2, UpdatePreserves
  <2>8. CASE HandleCancelled(h)
    <3> DEFINE r == [row[Subject(h)] EXCEPT !.subs = @ - 1]
    <3>1. UpdateRow(h, r, "record")
      BY <2>8 DEF HandleCancelled
    <3>2. HasRow(h) => Named(Subject(h), r)
      BY <2>5 DEF Named, RowOf
    <3> HIDE DEF r
    <3> QED
      BY <2>1, <3>1, <3>2, UpdatePreserves
  <2>9. CASE WriteSpent(h)
    <3> DEFINE r == [row[Subject(h)] EXCEPT !.spent = hs[h].val + Amount(h)]
    <3>1. UpdateRow(h, r, "record")
      BY <2>9 DEF WriteSpent
    <3>2. HasRow(h) => Named(Subject(h), r)
      BY <2>5 DEF Named, RowOf
    <3> HIDE DEF r
    <3> QED
      BY <2>1, <3>1, <3>2, UpdatePreserves
  <2>10. CASE HandleYieldDisabled(h)
    <3> DEFINE r0 == [row[Subject(h)] EXCEPT !.enabled = FALSE]
               r  == [r0 EXCEPT !.shares = 0]
    <3>1. UpdateRow(h, r, "idle")
      BY <2>10 DEF HandleYieldDisabled
    <3>2. HasRow(h) => Named(Subject(h), r0)
      BY <2>5, FlagIsNoKey, Zenon
    <3> HIDE DEF r0
    <3>3. HasRow(h) => Named(Subject(h), r)
      BY <3>2 DEF Named, RowOf
    <3> HIDE DEF r
    <3> QED
      BY <2>1, <3>1, <3>3, UpdatePreserves
  <2>11. CASE HandleYieldDeposit(h)
    <3> DEFINE r == [row[Subject(h)] EXCEPT !.shares = Amount(h)]
    <3>1. UpdateRow(h, r, "record")
      BY <2>11 DEF HandleYieldDeposit
    <3>2. HasRow(h) => Named(Subject(h), r)
      BY <2>5 DEF Named, RowOf
    <3> HIDE DEF r
    <3> QED
      BY <2>1, <3>1, <3>2, UpdatePreserves
  <2>12. CASE WriteShares(h)
    <3> DEFINE r == [row[Subject(h)] EXCEPT !.shares = hs[h].val - Amount(h)]
    <3>1. UpdateRow(h, r, "record")
      BY <2>12 DEF WriteShares
    <3>2. HasRow(h) => Named(Subject(h), r)
      BY <2>5 DEF Named, RowOf
    <3> HIDE DEF r
    <3> QED
      BY <2>1, <3>1, <3>2, UpdatePreserves
  <2>13. CASE ReadSpent(h)
    <3>1. row' = row /\ \E pc, val : hs' = [hs EXCEPT ![h] = AtStep(pc, hs[h].tx, val)]
      BY <2>13 DEF ReadSpent, GoTo
    <3>2. PICK pc, val : hs' = [hs EXCEPT ![h] = AtStep(pc, hs[h].tx, val)]
      BY <3>1
    <3>3. AtStep(pc, hs[h].tx, val).tx \in DOMAIN log
      BY <2>2 DEF AtStep
    <3> QED
      BY <2>1, <3>1, <3>2, <3>3, QuietPreserves
  <2>14. CASE ReadShares(h)
    <3>1. row' = row /\ \E pc, val : hs' = [hs EXCEPT ![h] = AtStep(pc, hs[h].tx, val)]
      BY <2>14 DEF ReadShares, GoTo
    <3>2. PICK pc, val : hs' = [hs EXCEPT ![h] = AtStep(pc, hs[h].tx, val)]
      BY <3>1
    <3>3. AtStep(pc, hs[h].tx, val).tx \in DOMAIN log
      BY <2>2 DEF AtStep
    <3> QED
      BY <2>1, <3>1, <3>2, <3>3, QuietPreserves
  <2>15. CASE RecordTransaction(h)
    BY <2>1, <2>15, QuietPreserves DEF RecordTransaction, Return, Idle, AtStep
  <2> QED
    BY <1>3, <2>6, <2>7, <2>8, <2>9, <2>10, <2>11, <2>12, <2>13, <2>14, <2>15 DEF HandlerStep
<1> QED
  BY <1>1, <1>2, <1>3 DEF Handling

\* A step of the sync: what it fetches is named after its wallets, and what it
\* writes is what it fetched.
LEMMA SyncPreserves ==
  ASSUME IInv, SyncStep \/ SyncError \/ Crash
  PROVE  IInv'
<1> USE DEF IInv
<1>1. UNCHANGED chainVars
  BY DEF SyncStep, SyncFetch, SyncWallet, SyncSubscriptions, SyncEnd, SyncError,
       Crash
<1>2. HandlersOK'
  <2>1. CASE Crash
    BY <1>1, <2>1 DEF Crash, HandlersOK, Idle, AtStep
  <2>2. CASE UNCHANGED hs
    BY <1>1, <2>2 DEF HandlersOK, chainVars
  <2> QED
    BY <2>1, <2>2 DEF SyncStep, SyncFetch, SyncWallet, SyncSubscriptions,
         SyncEnd, SyncError
<1>3. CASE SyncFetch
  <2>1. sync'.todo = {w \in Wallets : OnChain(w)}
    BY <1>3 DEF SyncFetch, Syncing
  <2>2. ASSUME NEW w \in Wallets, OnChain(w)
        PROVE  Named(w, sync'.rows[w])
    <3>1. sync'.rows[w] = RowOf(Decoded(w))
      BY <1>3, <2>2 DEF SyncFetch, Syncing
    <3>2. data[w] = WalletBytes(w, account[w]) /\ account[w] \in Account
      BY <2>2 DEF AccountsOK, OnChain
    <3> QED
      BY <3>1, <3>2, DecodedIsNamed DEF Decoded
  <2>3. SyncOK'
    BY <1>1, <2>1, <2>2 DEF SyncOK, chainVars, OnChain, Named, RowOf
  <2>4. RowsOK'
    BY <1>1, <1>3 DEF SyncFetch, RowsOK, chainVars, OnChain, Named, RowOf
  <2> QED
    BY <1>1, <1>2, <2>3, <2>4, ServerPreserves
<1>4. ASSUME NEW w \in Wallets, SyncWallet(w)
      PROVE  IInv'
  <2>1. OnChain(w) /\ Named(w, sync.rows[w])
    BY <1>4 DEF SyncWallet, SyncOK
  <2>2. CASE Fits(sync.rows[w])
    <3>1. SyncOK'
      BY <1>1, <1>4, <2>2 DEF SyncWallet, SyncOK, Syncing, chainVars, OnChain,
           Named, RowOf
    <3>2. Named(w, row'[w])
      <4>1. CASE row[w] = None
        BY <1>4, <2>1, <2>2, <4>1 DEF SyncWallet, RowsOK
      <4>2. CASE row[w] # None
        <5>1. row'[w] = [sync.rows[w] EXCEPT !.owner = row[w].owner,
                                             !.mint = row[w].mint]
          BY <1>4, <2>2, <4>2 DEF SyncWallet, RowsOK
        <5>2. Named(w, row[w])
          BY <4>2 DEF RowsOK
        <5> QED
          BY <2>1, <5>1, <5>2 DEF Named, RowOf
      <4> QED
        BY <4>1, <4>2
    <3>3. \A v \in Wallets \ {w} : row'[v] = row[v]
      BY <1>4, <2>2 DEF SyncWallet, RowsOK
    <3>4. row' = [v \in Wallets |-> row'[v]]
      <4>1. \E x : row' = [row EXCEPT ![w] = x]
        BY <1>4, <2>2 DEF SyncWallet
      <4>2. PICK x : row' = [row EXCEPT ![w] = x]
        BY <4>1
      <4> QED
        BY <4>2 DEF RowsOK
    <3>5. \A v \in Wallets : OnChain(v)' <=> OnChain(v)
      BY <1>1 DEF OnChain, chainVars
    <3>6. ASSUME NEW v \in Wallets, row'[v] # None
          PROVE  OnChain(v)' /\ Named(v, row'[v])
      <4>1. CASE v = w
        BY <2>1, <3>2, <3>5, <4>1
      <4>2. CASE v # w
        BY <3>3, <3>5, <3>6, <4>2 DEF RowsOK
      <4> QED
        BY <4>1, <4>2
    <3>7. RowsOK'
      BY <3>4, <3>6 DEF RowsOK, Named, RowOf
    <3> QED
      BY <1>1, <1>2, <3>1, <3>7, ServerPreserves
  <2>3. CASE ~Fits(sync.rows[w])
    <3>1. row' = row /\ sync' = IdleSync
      BY <1>4, <2>3 DEF SyncWallet
    <3>2. SyncOK'
      BY <3>1 DEF SyncOK, IdleSync, Syncing
    <3>3. RowsOK'
      BY <1>1, <3>1 DEF RowsOK, chainVars, OnChain, Named, RowOf
    <3> QED
      BY <1>1, <1>2, <3>2, <3>3, ServerPreserves
  <2> QED
    BY <2>2, <2>3
<1>5. CASE SyncSubscriptions \/ SyncEnd \/ SyncError \/ Crash
  <2>1. row' = row /\ sync'.todo = {}
    BY <1>5 DEF SyncSubscriptions, SyncEnd, SyncError, Crash, IdleSync, Syncing
  <2>2. SyncOK'
    BY <2>1 DEF SyncOK
  <2>3. RowsOK'
    BY <1>1, <2>1 DEF RowsOK, chainVars, OnChain, Named, RowOf
  <2> QED
    BY <1>1, <1>2, <2>2, <2>3, ServerPreserves
<1> QED
  BY <1>3, <1>4, <1>5 DEF SyncStep

LEMMA StutterPreserves == IInv /\ UNCHANGED vars => IInv'
<1> SUFFICES ASSUME IInv, UNCHANGED vars PROVE IInv'
  OBVIOUS
<1>1. UNCHANGED <<chainVars, row, sync, hs>>
  BY DEF vars, chainVars
<1>2. HandlersOK'
  BY <1>1 DEF IInv, HandlersOK, chainVars
<1>3. RowsOK'
  BY <1>1 DEF IInv, RowsOK, chainVars, OnChain, Named, RowOf
<1>4. SyncOK'
  BY <1>1 DEF IInv, SyncOK, chainVars, OnChain, Named, RowOf
<1> QED
  BY <1>1, <1>2, <1>3, <1>4, ServerPreserves

LEMMA StepPreserves == IInv /\ [Next]_vars => IInv'
<1> SUFFICES ASSUME IInv, [Next]_vars PROVE IInv'
  OBVIOUS
<1>1. ASSUME NEW w \in Wallets, Program(w) PROVE IInv'
  BY <1>1, ProgramPreserves
<1>2. ASSUME NEW h \in Slots, Handling(h) PROVE IInv'
  BY <1>2, HandlingPreserves
<1>3. CASE SyncStep \/ SyncError \/ Crash
  BY <1>3, SyncPreserves
<1>4. CASE UNCHANGED vars
  BY <1>4, StutterPreserves
<1> QED
  BY <1>1, <1>2, <1>3, <1>4 DEF Next

\* Every row names the owner and the mint of its account: creation event or
\* sync, in any order, after any loss, repetition, error or crash, and although
\* the decoder misplaces the numbers behind the keys.
THEOREM RowsNameTheirOwner == Spec => []RowsNameOwner
<1>1. IInv => RowsNameOwner
  BY DEF IInv, RowsOK, Named, RowsNameOwner
<1> QED
  BY <1>1, InitHolds, StepPreserves, PTL DEF Spec
--------------------------------------------------------------------------------
(* The yield flag.                                                          *)

\* What is known of a flag that the sync fetched: the account had spent that much.
FlagFetched == \A w \in sync.todo : sync.rows[w].enabled => account[w].spent >= Power[Word]

\* Appending t to s: where the cells of both are found.
LEMMA ConcatCells ==
  ASSUME NEW S, NEW s \in Seq(S), NEW t \in Seq(S)
  PROVE  /\ s \o t \in Seq(S) /\ Len(s \o t) = Len(s) + Len(t)
         /\ \A i \in 1..Len(s) : (s \o t)[i] = s[i]
         /\ \A i \in 1..Len(t) : (s \o t)[Len(s) + i] = t[i]
<1>1. Len(s) \in Nat /\ Len(t) \in Nat
  OBVIOUS
<1>2. s \o t \in Seq(S) /\ Len(s \o t) = Len(s) + Len(t)
  OBVIOUS
<1>3. \A i \in 1..Len(s) : (s \o t)[i] = s[i]
  BY <1>1
<1>4. ASSUME NEW i \in 1..Len(t) PROVE (s \o t)[Len(s) + i] = t[i]
  <2>1. Len(s) + i \in 1..(Len(s) + Len(t)) /\ ~(Len(s) + i <= Len(s))
    BY <1>1
  <2>2. (Len(s) + i) - Len(s) = i
    BY <1>1
  <2> QED
    BY <1>1, <2>1, <2>2
<1> QED
  BY <1>2, <1>3, <1>4

\* The cell where the decoder looks for the flag holds a digit of what was spent.
LEMMA CellLeft ==
  ASSUME NEW S, NEW s \in Seq(S), NEW t \in Seq(S), NEW i \in 1..Len(s)
  PROVE  (s \o t)[i] = s[i]
BY ConcatCells

LEMMA CellRight ==
  ASSUME NEW S, NEW s \in Seq(S), NEW t \in Seq(S), NEW i \in 1..Len(t)
  PROVE  (s \o t)[Len(s) + i] = t[i]
BY ConcatCells

LEMMA ConcatLength ==
  ASSUME NEW S, NEW s \in Seq(S), NEW t \in Seq(S)
  PROVE  s \o t \in Seq(S) /\ Len(s \o t) = Len(s) + Len(t)
BY ConcatCells

LEMMA FlagCell ==
  ASSUME NEW w \in Wallets, NEW a \in Account
  PROVE  WalletBytes(w, a)[4 + 2 * Word] = (a.spent \div Power[Word]) % Base
<1> DEFINE s0 == <<OwnerOf[w], TokenAccountOf[w], MintOf[w]>>
           s1 == s0 \o U32(a.subs)
           s2 == s1 \o U64(a.spent)
           s3 == s2 \o U64(a.shares)
           t  == <<Flag(a.enabled), Bump>>
<1>0. Word \in Nat \ {0} /\ a.subs \in Nat /\ a.spent \in Nat /\ a.shares \in Nat
  BY MirrorAssumption DEF Account
<1>1. s0 \in Seq(Cells) /\ Len(s0) = 3 /\ t \in Seq(Cells) /\ Len(t) = 2
  <2>1. {OwnerOf[w], TokenAccountOf[w], MintOf[w]} \subseteq Cells
    BY MirrorAssumption DEF Cells
  <2>2. Flag(a.enabled) \in Cells /\ Bump \in Cells
    BY DEF Flag, Cells
  <2> QED
    BY <2>1, <2>2
<1>2. /\ U32(a.subs) \in Seq(Cells) /\ Len(U32(a.subs)) = Word
      /\ U64(a.spent) \in Seq(Cells) /\ Len(U64(a.spent)) = 2 * Word
      /\ U64(a.shares) \in Seq(Cells) /\ Len(U64(a.shares)) = 2 * Word
  <2>1. Word \in Nat /\ 2 * Word \in Nat
    BY <1>0
  <2> QED
    BY <1>0, <2>1, DigitsAreCells DEF U32, U64, Digits
<1>3. U64(a.spent)[Word + 1] = (a.spent \div Power[Word]) % Base
  <2>1. Word + 1 \in 1..(2 * Word) /\ (Word + 1) - 1 = Word
    BY <1>0
  <2> QED
    BY <2>1 DEF U64, Digits
<1> HIDE DEF s0, s1, s2, s3, t
<1>4. s1 \in Seq(Cells) /\ Len(s1) = 3 + Word
  <2>1. s1 \in Seq(Cells) /\ Len(s1) = Len(s0) + Len(U32(a.subs))
    BY <1>1, <1>2, ConcatLength, Zenon DEF s1
  <2> QED
    BY <1>1, <1>2, <2>1
<1>5. s2 \in Seq(Cells) /\ Len(s2) = 3 + Word + 2 * Word /\ s2[3 + Word + (Word + 1)] = U64(a.spent)[Word + 1]
  <2>1. Word + 1 \in 1..Len(U64(a.spent))
    BY <1>0, <1>2
  <2>2. /\ s2 \in Seq(Cells) /\ Len(s2) = Len(s1) + Len(U64(a.spent))
        /\ s2[Len(s1) + (Word + 1)] = U64(a.spent)[Word + 1]
    <3>1. s2 \in Seq(Cells) /\ Len(s2) = Len(s1) + Len(U64(a.spent))
      BY <1>2, <1>4, ConcatLength, Zenon DEF s2
    <3>2. PICK p \in Seq(Cells) : p = U64(a.spent)
      BY <1>2
    <3>3. PICK i \in 1..Len(p) : i = Word + 1
      BY <2>1, <3>2
    <3>4. (s1 \o p)[Len(s1) + i] = p[i]
      BY <1>4, CellRight, Zenon
    <3> QED
      BY <3>1, <3>2, <3>3, <3>4 DEF s2
  <2>3. Len(s2) = 3 + Word + 2 * Word
    BY <1>0, <1>2, <1>4, <2>2
  <2>4. s2[3 + Word + (Word + 1)] = U64(a.spent)[Word + 1]
    BY <1>4, <2>2
  <2> QED
    BY <2>2, <2>3, <2>4
<1>6. 3 + Word + (Word + 1) = 4 + 2 * Word /\ 4 + 2 * Word \in 1..(3 + Word + 2 * Word)
  BY <1>0
<1>7. s3 \in Seq(Cells) /\ Len(s3) = 3 + Word + 4 * Word /\ s3[4 + 2 * Word] = s2[4 + 2 * Word]
  <2>1. 4 + 2 * Word \in 1..Len(s2)
    BY <1>5, <1>6
  <2>2. /\ s3 \in Seq(Cells) /\ Len(s3) = Len(s2) + Len(U64(a.shares))
        /\ s3[4 + 2 * Word] = s2[4 + 2 * Word]
    BY <1>2, <1>5, <2>1, ConcatLength, CellLeft, Zenon DEF s3
  <2>3. Len(s3) = 3 + Word + 4 * Word
    BY <1>0, <1>2, <1>5, <2>2
  <2> QED
    BY <2>2, <2>3
<1>8. 4 + 2 * Word \in 1..Len(s3)
  BY <1>0, <1>7
<1>9. (s3 \o t)[4 + 2 * Word] = s3[4 + 2 * Word]
  BY <1>1, <1>7, <1>8, CellLeft, Zenon
<1>10. WalletBytes(w, a) = s3 \o t
  BY DEF WalletBytes, s3, s2, s1, s0, t
<1> QED
  BY <1>3, <1>5, <1>6, <1>7, <1>9, <1>10

\* A digit of 1 at that place stands for at least Power[Word].
LEMMA FlagMeansSpending ==
  ASSUME NEW w \in Wallets, NEW a \in Account,
         RowOf(ReadWallet(WalletBytes(w, a))).enabled
  PROVE  a.spent >= Power[Word]
<1>1. (a.spent \div Power[Word]) % Base = 1
  BY FlagCell DEF RowOf, ReadWallet, WalletWithMint
<1>2. Base \in Nat \ {0, 1} /\ Word \in Nat /\ a.spent \in Nat
  BY MirrorAssumption DEF Account
<1>3. PICK k \in Int : k = Power[Word]
  BY <1>2, PowerDef
<1> QED
  BY <1>1, <1>2, <1>3

\* What a wallet has spent never shrinks.
LEMMA SpentGrows ==
  ASSUME IInv, NEW w \in Wallets, Program(w), NEW v \in Wallets, OnChain(v)
  PROVE  /\ account[v].spent \in Nat /\ account'[v].spent \in Nat
         /\ account'[v].spent >= account[v].spent
<1>1. account[v] \in Account /\ account \in [Wallets -> Account \union {None}]
  BY DEF IInv, AccountsOK, OnChain
<1>2. account[v].spent \in Nat /\ Fee \in Nat
  BY <1>1, MirrorAssumption DEF Account
<1>3. ASSUME NEW a, account' = [account EXCEPT ![w] = a],
             w = v => a.spent \in {account[v].spent, account[v].spent + Fee}
      PROVE  /\ account'[v].spent \in Nat
             /\ account'[v].spent >= account[v].spent
  BY <1>1, <1>2, <1>3
<1>4. ASSUME NEW subs, NEW spent, NEW shares, NEW enabled,
             Store(w, WalletAccount(subs, spent, shares, enabled)),
             w = v => spent \in {account[v].spent, account[v].spent + Fee}
      PROVE  /\ account'[v].spent \in Nat
             /\ account'[v].spent >= account[v].spent
  <2>1. WalletAccount(subs, spent, shares, enabled).spent = spent
    BY DEF WalletAccount
  <2> QED
    BY <1>3, <1>4, <2>1 DEF Store
<1>5. CASE CreateWallet(w)
  BY <1>2, <1>4, <1>5 DEF CreateWallet
<1>6. CASE MoveTokens(w)
  BY <1>2, <1>6 DEF MoveTokens
<1>7. CASE (\E token \in Tokens : Subscribe(w, token)) \/ Cancel(w) \/ DisableYield(w)
  BY <1>2, <1>4, <1>7 DEF Subscribe, Cancel, DisableYield
<1>8. CASE Pay(w)
  BY <1>2, <1>4, <1>8 DEF Pay
<1>9. ASSUME NEW n \in ShareAmounts, IssueShares(w, n) \/ RedeemShares(w, n)
      PROVE  /\ account'[v].spent \in Nat
             /\ account'[v].spent >= account[v].spent
  BY <1>4, <1>9 DEF IssueShares, RedeemShares
<1> QED
  BY <1>2, <1>5, <1>6, <1>7, <1>8, <1>9 DEF Program

\* The inductive invariant behind FlagNeedsSpending.
FlagInv == IInv /\ FlagNeedsSpending /\ FlagFetched

LEMMA ProgramKeepsFlag ==
  ASSUME FlagInv, NEW w \in Wallets, Program(w)
  PROVE  FlagNeedsSpending' /\ FlagFetched'
<1>0. IInv
  BY DEF FlagInv
<1>1. UNCHANGED <<row, sync>>
  BY DEF Program, CreateWallet, MoveTokens, Subscribe, Cancel, Pay, IssueShares,
     RedeemShares, DisableYield, Emit
<1>2. PICK k \in Int : k = Power[Word]
  BY PowerDef, Sizes
<1>3. ASSUME NEW v \in Wallets, OnChain(v), account[v].spent >= k
      PROVE  account'[v].spent >= k
  BY <1>0, <1>2, <1>3, SpentGrows
<1>4. FlagNeedsSpending'
  <2> SUFFICES ASSUME NEW v \in Wallets, row[v] # None, row[v].enabled
               PROVE  account'[v].spent >= k
    BY <1>1, <1>2 DEF FlagNeedsSpending
  <2>1. OnChain(v) /\ account[v].spent >= k
    BY <1>0, <1>2 DEF FlagInv, FlagNeedsSpending, IInv, RowsOK
  <2> QED
    BY <1>3, <2>1
<1>5. FlagFetched'
  <2> SUFFICES ASSUME NEW v \in sync.todo, sync.rows[v].enabled
               PROVE  account'[v].spent >= k
    BY <1>1, <1>2 DEF FlagFetched
  <2>1. v \in Wallets /\ OnChain(v) /\ account[v].spent >= k
    BY <1>0, <1>2 DEF FlagInv, FlagFetched, IInv, SyncOK
  <2> QED
    BY <1>3, <2>1
<1> QED
  BY <1>4, <1>5

\* A handler leaves a flag as it is, or lowers it.
LEMMA UpdateKeepsFlag ==
  ASSUME FlagInv, NEW h \in Slots, NEW r, NEW next,
         UNCHANGED <<account, sync>>, UpdateRow(h, r, next),
         HasRow(h) /\ r.enabled => row[Subject(h)].enabled
  PROVE  FlagNeedsSpending' /\ FlagFetched'
<1>1. FlagFetched'
  BY DEF FlagInv, FlagFetched
<1>2. FlagNeedsSpending'
  <2> SUFFICES ASSUME NEW v \in Wallets, row'[v] # None, row'[v].enabled
               PROVE  account[v].spent >= Power[Word]
    BY DEF FlagNeedsSpending
  <2>1. row[v] # None /\ row[v].enabled
    <3>1. CASE row'[v] = row[v]
      BY <3>1
    <3>2. CASE row'[v] # row[v]
      BY <3>2 DEF UpdateRow, HasRow, FlagInv, IInv, RowsOK
    <3> QED
      BY <3>1, <3>2
  <2> QED
    BY <2>1 DEF FlagInv, FlagNeedsSpending
<1> QED
  BY <1>1, <1>2

LEMMA HandlingKeepsFlag ==
  ASSUME FlagInv, NEW h \in Slots, Handling(h)
  PROVE  FlagNeedsSpending' /\ FlagFetched'
<1>0. IInv
  BY DEF FlagInv
<1>1. UNCHANGED <<account, sync>>
  BY DEF Handling, StartHandler, HandlerError, HandlerStep, Running, HandleCreated,
     HandleSubscribed, HandleCancelled, ReadSpent, WriteSpent, HandleYieldDisabled,
     HandleYieldDeposit, ReadShares, WriteShares, RecordTransaction, chainVars
<1>2. ASSUME row' = row PROVE FlagNeedsSpending' /\ FlagFetched'
  BY <1>1, <1>2 DEF FlagInv, FlagNeedsSpending, FlagFetched
<1>3. ASSUME HandlerStep(h) PROVE hs[h].pc # "idle"
  BY <1>3 DEF HandlerStep, Running, HandleCreated, HandleSubscribed, HandleCancelled,
     ReadSpent, WriteSpent, HandleYieldDisabled, HandleYieldDeposit, ReadShares,
     WriteShares, RecordTransaction
<1>4. ASSUME HandlerStep(h), HasRow(h)
      PROVE  row[Subject(h)] = RowOf(row[Subject(h)]) /\ Subject(h) \in Wallets
  <2>1. hs[h].tx \in DOMAIN log
    BY <1>0, <1>3, <1>4 DEF IInv, HandlersOK
  <2>2. log[hs[h].tx] \in Transaction
    BY <1>0, <2>1 DEF IInv, LogOK
  <2>3. Subject(h) \in Wallets
    BY <2>2 DEF Subject, Transaction
  <2> QED
    BY <1>0, <1>4, <2>3 DEF IInv, RowsOK, HasRow, Named
<1>5. ASSUME NEW x, x = RowOf(x)
      PROVE  /\ \A n : [x EXCEPT !.subs = n].enabled = x.enabled
             /\ \A n : [x EXCEPT !.spent = n].enabled = x.enabled
             /\ \A n : [x EXCEPT !.shares = n].enabled = x.enabled
             /\ \A n : [x EXCEPT !.enabled = FALSE, !.shares = n].enabled = FALSE
  BY <1>5 DEF RowOf
<1>6. CASE HandleCreated(h)
  <2>1. row' = row \/ row' = [row EXCEPT ![Subject(h)] =
           [owner |-> OwnerOf[Subject(h)], mint |-> MintOf[Subject(h)],
            enabled |-> FALSE, shares |-> 0, subs |-> 0, spent |-> 0]]
    BY <1>6 DEF HandleCreated
  <2>2. ASSUME NEW v \in Wallets, row'[v] # None, row'[v].enabled
        PROVE  row[v] # None /\ row[v].enabled
    BY <1>0, <2>1, <2>2 DEF IInv, RowsOK
  <2> QED
    BY <1>1, <2>2 DEF FlagInv, FlagNeedsSpending, FlagFetched
<1>7. CASE HandleSubscribed(h)
  BY <1>1, <1>4, <1>5, <1>7, UpdateKeepsFlag DEF HandlerStep, HandleSubscribed
<1>8. CASE HandleCancelled(h)
  BY <1>1, <1>4, <1>5, <1>8, UpdateKeepsFlag DEF HandlerStep, HandleCancelled
<1>9. CASE WriteSpent(h)
  BY <1>1, <1>4, <1>5, <1>9, UpdateKeepsFlag DEF HandlerStep, WriteSpent
<1>10. CASE HandleYieldDeposit(h)
  BY <1>1, <1>4, <1>5, <1>10, UpdateKeepsFlag DEF HandlerStep, HandleYieldDeposit
<1>11. CASE WriteShares(h)
  BY <1>1, <1>4, <1>5, <1>11, UpdateKeepsFlag DEF HandlerStep, WriteShares
<1>12. CASE HandleYieldDisabled(h)
  BY <1>1, <1>4, <1>5, <1>12, UpdateKeepsFlag DEF HandlerStep, HandleYieldDisabled
<1>13. CASE \/ \E i \in DOMAIN log : StartHandler(h, i)
            \/ HandlerError(h) \/ ReadSpent(h) \/ ReadShares(h) \/ RecordTransaction(h)
  BY <1>2, <1>13 DEF StartHandler, HandlerError, ReadSpent, ReadShares, RecordTransaction
<1> QED
  BY <1>6, <1>7, <1>8, <1>9, <1>10, <1>11, <1>12, <1>13 DEF Handling, HandlerStep

\* The sync fetches a flag that the account's spending accounts for, and writes the
\* flag it fetched.
LEMMA SyncKeepsFlag ==
  ASSUME FlagInv, SyncStep \/ SyncError \/ Crash
  PROVE  FlagNeedsSpending' /\ FlagFetched'
<1>0. IInv
  BY DEF FlagInv
<1>1. UNCHANGED account
  BY DEF SyncStep, SyncFetch, SyncWallet, SyncSubscriptions, SyncEnd, SyncError, Crash,
     chainVars
<1>2. CASE SyncFetch
  <2>1. UNCHANGED row /\ sync'.todo = {w \in Wallets : OnChain(w)}
    BY <1>2 DEF SyncFetch, Syncing
  <2>2. ASSUME NEW w \in Wallets, OnChain(w), sync'.rows[w].enabled
        PROVE  account[w].spent >= Power[Word]
    <3>1. sync'.rows[w] = RowOf(Decoded(w))
      BY <1>2, <2>2 DEF SyncFetch, Syncing
    <3>2. data[w] = WalletBytes(w, account[w]) /\ account[w] \in Account
      BY <1>0, <2>2 DEF IInv, AccountsOK, OnChain
    <3> QED
      BY <2>2, <3>1, <3>2, FlagMeansSpending DEF Decoded
  <2> QED
    BY <1>1, <2>1, <2>2 DEF FlagInv, FlagNeedsSpending, FlagFetched
<1>3. ASSUME NEW w \in Wallets, SyncWallet(w)
      PROVE  FlagNeedsSpending' /\ FlagFetched'
  <2>0. w \in sync.todo
    BY <1>3 DEF SyncWallet
  <2>1. CASE ~Fits(sync.rows[w])
    <3>1. UNCHANGED row /\ sync'.todo = {}
      BY <1>3, <2>1 DEF SyncWallet, IdleSync, Syncing
    <3> QED
      BY <1>1, <3>1 DEF FlagInv, FlagNeedsSpending, FlagFetched
  <2>2. CASE Fits(sync.rows[w])
    <3>1. sync'.todo = sync.todo \ {w} /\ sync'.rows = sync.rows
      BY <1>3, <2>2 DEF SyncWallet, Syncing
    <3>2. FlagFetched'
      BY <1>1, <3>1 DEF FlagInv, FlagFetched
    <3>3. row' = [row EXCEPT ![w] = IF row[w] = None THEN sync.rows[w]
                   ELSE [sync.rows[w] EXCEPT !.owner = row[w].owner, !.mint = row[w].mint]]
      BY <1>3, <2>2 DEF SyncWallet
    <3>4. sync.rows[w] = RowOf(sync.rows[w])
      BY <1>0, <2>0 DEF IInv, SyncOK, Named
    <3>5. [sync.rows[w] EXCEPT !.owner = row[w].owner, !.mint = row[w].mint].enabled
            = sync.rows[w].enabled
      BY <3>4 DEF RowOf
    <3>6. row'[w].enabled = sync.rows[w].enabled /\ \A v \in Wallets \ {w} : row'[v] = row[v]
      <4>1. row = [v \in Wallets |-> row[v]]
        BY <1>0 DEF IInv, RowsOK
      <4>2. CASE row[w] = None
        BY <3>3, <4>1, <4>2
      <4>3. CASE row[w] # None
        <5>1. PICK x : x = [sync.rows[w] EXCEPT !.owner = row[w].owner, !.mint = row[w].mint]
          OBVIOUS
        <5> QED
          BY <3>3, <3>5, <4>1, <4>3, <5>1
      <4> QED
        BY <4>2, <4>3
    <3>7. FlagNeedsSpending'
      <4> SUFFICES ASSUME NEW v \in Wallets, row'[v] # None, row'[v].enabled
                   PROVE  account[v].spent >= Power[Word]
        BY <1>1 DEF FlagNeedsSpending
      <4>1. CASE v = w
        BY <2>0, <3>6, <4>1 DEF FlagInv, FlagFetched
      <4>2. CASE v # w
        BY <3>6, <4>2 DEF FlagInv, FlagNeedsSpending
      <4> QED
        BY <4>1, <4>2
    <3> QED
      BY <3>2, <3>7
  <2> QED
    BY <2>1, <2>2
<1>4. CASE SyncSubscriptions \/ SyncEnd \/ SyncError \/ Crash
  <2>1. UNCHANGED row /\ sync'.todo = {}
    BY <1>4 DEF SyncSubscriptions, SyncEnd, SyncError, Crash, IdleSync, Syncing
  <2> QED
    BY <1>1, <2>1 DEF FlagInv, FlagNeedsSpending, FlagFetched
<1> QED
  BY <1>2, <1>3, <1>4 DEF SyncStep

LEMMA FlagInvKept == FlagInv /\ [Next]_vars => FlagInv'
<1> SUFFICES ASSUME FlagInv, [Next]_vars PROVE FlagNeedsSpending' /\ FlagFetched'
  BY StepPreserves DEF FlagInv
<1>1. CASE UNCHANGED vars
  BY <1>1 DEF vars, FlagInv, FlagNeedsSpending, FlagFetched
<1> QED
  BY <1>1, ProgramKeepsFlag, HandlingKeepsFlag, SyncKeepsFlag DEF Next

\* A yield flag in a row never comes from yield: in any order of events, syncs and
\* failures it is up only for a wallet that has spent at least Power[Word] units.
THEOREM FlagComesFromSpending == Spec => []FlagNeedsSpending
<1>1. Init => FlagInv
  <2>1. Init => FlagNeedsSpending /\ FlagFetched
    BY DEF Init, FlagNeedsSpending, FlagFetched, IdleSync, Syncing
  <2> QED
    BY <2>1, InitHolds DEF FlagInv
<1>2. FlagInv => FlagNeedsSpending
  BY DEF FlagInv
<1> QED
  BY <1>1, <1>2, FlagInvKept, PTL DEF Spec
--------------------------------------------------------------------------------
(* Types.                                                                   *)

LEMMA DigitsAreNumbers ==
  ASSUME NEW n \in Nat, NEW width \in Nat
  PROVE  /\ Len(Digits(n, width)) = width
         /\ \A i \in 1..width : Digits(n, width)[i] \in 0..(Base - 1)
<1>1. ASSUME NEW i \in 1..width PROVE (n \div Power[i - 1]) % Base \in 0..(Base - 1)
  <2>1. PICK p \in Nat \ {0} : p = Power[i - 1]
    BY PowerDef
  <2>2. PICK q \in Nat : q = (n \div p)
    BY DivFacts
  <2>3. q % Base \in 0..(Base - 1)
    BY DivFacts, Sizes
  <2> QED
    BY <2>1, <2>2, <2>3
<1> QED
  BY <1>1 DEF Digits

\* Numbers appended to cells that hold numbers after the third.
LEMMA NumbersKept ==
  ASSUME NEW S, NEW s \in Seq(S), NEW t \in Seq(S), Len(s) >= 3,
         \A i \in 4..Len(s) : s[i] \in Int, \A i \in 1..Len(t) : t[i] \in Int
  PROVE  \A i \in 4..Len(s \o t) : (s \o t)[i] \in Int
<1>1. Len(s) \in Nat /\ Len(t) \in Nat /\ Len(s \o t) = Len(s) + Len(t)
  BY ConcatLength
<1>2. ASSUME NEW i \in 4..(Len(s) + Len(t)) PROVE (s \o t)[i] \in Int
  <2>1. CASE i <= Len(s)
    <3>1. i \in 1..Len(s) /\ i \in 4..Len(s)
      BY <1>1, <2>1
    <3>2. (s \o t)[i] = s[i]
      BY <3>1, CellLeft, Zenon
    <3> QED
      BY <3>1, <3>2
  <2>2. CASE i > Len(s)
    <3>1. PICK j \in 1..Len(t) : i = Len(s) + j
      <4>1. i - Len(s) \in 1..Len(t) /\ i = Len(s) + (i - Len(s))
        BY <1>1, <2>2
      <4> QED
        BY <4>1
    <3>2. (s \o t)[Len(s) + j] = t[j]
      BY CellRight, Zenon
    <3> QED
      BY <3>1, <3>2
  <2> QED
    BY <1>1, <2>1, <2>2
<1> QED
  BY <1>1, <1>2

\* Everything in an account's bytes but the keys is a number.
LEMMA NumbersAfterKeys ==
  ASSUME NEW w \in Wallets, NEW a \in Account
  PROVE  \A i \in 4..(5 + 5 * Word) : WalletBytes(w, a)[i] \in Int
<1> DEFINE s0 == <<OwnerOf[w], TokenAccountOf[w], MintOf[w]>>
           s1 == s0 \o U32(a.subs)
           s2 == s1 \o U64(a.spent)
           s3 == s2 \o U64(a.shares)
           t  == <<Flag(a.enabled), Bump>>
           s4 == s3 \o t
           Numbers(s) == \A i \in 4..Len(s) : s[i] \in Int
<1>0. /\ Word \in Nat /\ 2 * Word \in Nat
      /\ a.subs \in Nat /\ a.spent \in Nat /\ a.shares \in Nat
  BY Sizes DEF Account
<1>1. s0 \in Seq(Cells) /\ Len(s0) = 3 /\ t \in Seq(Cells) /\ Len(t) = 2
  <2>1. {OwnerOf[w], TokenAccountOf[w], MintOf[w]} \subseteq Cells
    BY MirrorAssumption DEF Cells
  <2>2. Flag(a.enabled) \in Cells /\ Bump \in Cells
    BY DEF Flag, Cells
  <2> QED
    BY <2>1, <2>2
<1>2. \A i \in 1..Len(t) : t[i] \in Int
  <2>1. Flag(a.enabled) \in Int /\ Bump \in Int
    BY MirrorAssumption DEF Flag
  <2> QED
    BY <1>1, <2>1
<1>3. ASSUME NEW n \in Nat, NEW width \in Nat
      PROVE  /\ Digits(n, width) \in Seq(Cells) /\ Len(Digits(n, width)) = width
             /\ \A i \in 1..Len(Digits(n, width)) : Digits(n, width)[i] \in Int
  BY DigitsAreCells, DigitsAreNumbers, Sizes
<1>4. /\ U32(a.subs) \in Seq(Cells) /\ Len(U32(a.subs)) = Word
      /\ \A i \in 1..Len(U32(a.subs)) : U32(a.subs)[i] \in Int
  BY <1>0, <1>3 DEF U32
<1>5. /\ U64(a.spent) \in Seq(Cells) /\ Len(U64(a.spent)) = 2 * Word
      /\ \A i \in 1..Len(U64(a.spent)) : U64(a.spent)[i] \in Int
  BY <1>0, <1>3 DEF U64
<1>6. /\ U64(a.shares) \in Seq(Cells) /\ Len(U64(a.shares)) = 2 * Word
      /\ \A i \in 1..Len(U64(a.shares)) : U64(a.shares)[i] \in Int
  BY <1>0, <1>3 DEF U64
<1>7. Numbers(s0)
  BY <1>1
<1> HIDE DEF s0, s1, s2, s3, s4, t
<1>8. s1 \in Seq(Cells) /\ Len(s1) = 3 + Word
  <2>1. s1 \in Seq(Cells) /\ Len(s1) = Len(s0) + Len(U32(a.subs))
    BY <1>1, <1>4, ConcatLength, Zenon DEF s1
  <2> QED
    BY <1>1, <1>4, <2>1
<1>9. s2 \in Seq(Cells) /\ Len(s2) = 3 + Word + 2 * Word
  <2>1. s2 \in Seq(Cells) /\ Len(s2) = Len(s1) + Len(U64(a.spent))
    BY <1>5, <1>8, ConcatLength, Zenon DEF s2
  <2> QED
    BY <1>5, <1>8, <2>1
<1>10. s3 \in Seq(Cells) /\ Len(s3) = 3 + Word + 4 * Word
  <2>1. s3 \in Seq(Cells) /\ Len(s3) = Len(s2) + Len(U64(a.shares))
    BY <1>6, <1>9, ConcatLength, Zenon DEF s3
  <2>2. Len(s3) = 3 + Word + 4 * Word
    BY <1>0, <1>6, <1>9, <2>1
  <2> QED
    BY <2>1, <2>2
<1>11. Len(s4) = 5 + 5 * Word
  <2>1. Len(s4) = Len(s3) + Len(t)
    BY <1>1, <1>10, ConcatLength, Zenon DEF s4
  <2> QED
    BY <1>0, <1>1, <1>10, <2>1
<1>12. Len(s0) >= 3 /\ Len(s1) >= 3 /\ Len(s2) >= 3 /\ Len(s3) >= 3
  BY <1>0, <1>1, <1>8, <1>9, <1>10
<1>13. Numbers(s1)
  BY <1>1, <1>4, <1>7, <1>12, NumbersKept, Zenon DEF s1
<1>14. Numbers(s2)
  BY <1>5, <1>8, <1>12, <1>13, NumbersKept, Zenon DEF s2
<1>15. Numbers(s3)
  BY <1>6, <1>9, <1>12, <1>14, NumbersKept, Zenon DEF s3
<1>16. Numbers(s4)
  BY <1>1, <1>2, <1>10, <1>12, <1>15, NumbersKept, Zenon DEF s4
<1>17. WalletBytes(w, a) = s4
  BY DEF WalletBytes, s4, s3, s2, s1, s0, t
<1> QED
  BY <1>11, <1>16, <1>17

\* Where the decoder reads numbers there are numbers, though not the ones it
\* means: the row it makes can be stored.
LEMMA DecodedIsRow ==
  ASSUME NEW w \in Wallets, NEW a \in Account
  PROVE  RowOf(ReadWallet(WalletBytes(w, a))) \in Row
<1> DEFINE b == WalletBytes(w, a)
<1>1. \A i \in 4..(5 + 5 * Word) : b[i] \in Int
  BY NumbersAfterKeys
<1>2. b[1] \in Keys /\ b[3] \in Keys
  BY BytesStartWithKeys, MirrorAssumption
<1> HIDE DEF b
<1>3. ASSUME NEW o \in Nat, NEW width \in Nat, 3 <= o, o + width <= 5 + 5 * Word
      PROVE  Number(b, o, width) \in Int
  <2>1. ASSUME NEW i \in 1..width PROVE b[o + i] \in Int
    <3>1. o + i \in 4..(5 + 5 * Word)
      BY <1>3, Sizes
    <3> QED
      BY <1>1, <3>1
  <2> QED
    BY <2>1, NumberIsNumber
<1>4. N64(b, 3) \in Int
  <2>1. 2 * Word \in Nat /\ 3 + 2 * Word <= 5 + 5 * Word
    BY Sizes
  <2> QED
    BY <1>3, <2>1 DEF N64
<1>5. N32(b, 4 + 2 * Word) \in Int
  <2>1. Word \in Nat /\ 4 + 2 * Word \in Nat /\ 3 <= 4 + 2 * Word
        /\ (4 + 2 * Word) + Word <= 5 + 5 * Word
    BY Sizes
  <2> QED
    BY <1>3, <2>1 DEF N32
<1>6. N64(b, 4 + 3 * Word) \in Int
  <2>1. 2 * Word \in Nat /\ 4 + 3 * Word \in Nat /\ 3 <= 4 + 3 * Word
        /\ (4 + 3 * Word) + 2 * Word <= 5 + 5 * Word
    BY Sizes
  <2> QED
    BY <1>3, <2>1 DEF N64
<1>7. RowOf(ReadWallet(b)) \in Row
  BY <1>2, <1>4, <1>5, <1>6 DEF RowOf, ReadWallet, WalletWithMint, Row
<1> QED
  BY <1>7 DEF b

\* TypeOK but for what IInv says of the accounts and the log.
TableTypes ==
  /\ \A w \in Wallets : ~OnChain(w) => data[w] = None
  /\ row \in [Wallets -> Row \union {None}]
  /\ recorded \subseteq DOMAIN log

ServerTypes ==
  /\ hs \in [Slots -> Handler]
  /\ sync \in [isIndexing : BOOLEAN, pc : {"idle", "wallets", "subscriptions"},
               todo : SUBSET Wallets, rows : [Wallets -> Row \union {None}]]
  /\ \A w \in sync.todo : sync.rows[w] \in Row
  /\ starts \in Nat /\ faults \in Nat

TypeInv == IInv /\ TableTypes /\ ServerTypes

LEMMA TypeInvMeans == TypeInv => TypeOK
BY DEF TypeInv, TableTypes, ServerTypes, IInv, AccountsOK, LogOK, OnChain, TypeOK

LEMMA IdleTypes == Idle \in Handler /\ IdleSync.rows = [w \in Wallets |-> None]
BY DEF Idle, AtStep, Handler, HandlerSteps, IdleSync, Syncing

\* A sync at any step, of some wallets and with some rows.
LEMMA SyncTypes ==
  ASSUME NEW pc \in {"idle", "wallets", "subscriptions"}, NEW todo \in SUBSET Wallets,
         NEW rows \in [Wallets -> Row \union {None}]
  PROVE  /\ Syncing(pc, todo, rows) \in
              [isIndexing : BOOLEAN, pc : {"idle", "wallets", "subscriptions"},
               todo : SUBSET Wallets, rows : [Wallets -> Row \union {None}]]
         /\ Syncing(pc, todo, rows).todo = todo
         /\ Syncing(pc, todo, rows).rows = rows
BY DEF Syncing

LEMMA InitTypes == Init => TypeInv
<1> SUFFICES ASSUME Init PROVE TypeInv
  OBVIOUS
<1>1. IInv
  BY InitHolds
<1>2. ASSUME NEW w \in Wallets, ~OnChain(w) PROVE data[w] = None
  <2>1. w \notin Legacy
    <3>1. WalletAccount(1, 0, 0, FALSE) # None
      BY WalletAccountType, NoneAssumption
    <3> QED
      BY <1>2, <3>1 DEF Init, OnChain
  <2> QED
    BY <2>1 DEF Init
<1>3. row \in [Wallets -> Row \union {None}] /\ recorded \subseteq DOMAIN log
  BY DEF Init
<1>4. hs \in [Slots -> Handler]
  BY IdleTypes DEF Init
<1>5. sync = Syncing("idle", {}, [w \in Wallets |-> None])
  BY DEF Init, IdleSync
<1>6. [w \in Wallets |-> None] \in [Wallets -> Row \union {None}]
  OBVIOUS
<1>7. starts \in Nat /\ faults \in Nat
  BY DEF Init
<1>8. ServerTypes
  BY <1>4, <1>5, <1>6, <1>7, SyncTypes DEF ServerTypes
<1> QED
  BY <1>1, <1>2, <1>3, <1>8 DEF TypeInv, TableTypes

\* An instruction of the program writes an account with its bytes and appends
\* to the log.
LEMMA ProgramKeepsTypes ==
  ASSUME TypeInv, NEW w \in Wallets, Program(w)
  PROVE  TableTypes' /\ ServerTypes'
<1>0. OnChain(w)'
  <2>1. (\A i \in DOMAIN log : OnChain(log[i].of))' /\ log \in Seq(Transaction)
    BY ProgramPreserves DEF TypeInv, IInv, LogOK
  <2>2. \E kind, n : Emit(kind, w, n)
    BY DEF Program, CreateWallet, MoveTokens, Subscribe, Cancel, Pay, IssueShares,
       RedeemShares, DisableYield
  <2>3. PICK e : log' = Append(log, e) /\ e.of = w
    BY <2>2 DEF Emit
  <2>4. Len(log) + 1 \in DOMAIN log' /\ log'[Len(log) + 1] = e
    BY <2>1, <2>3
  <2> QED
    BY <2>1, <2>3, <2>4
<1>1. ServerTypes'
  <2>1. UNCHANGED <<hs, sync, starts, faults>>
    BY DEF Program, CreateWallet, MoveTokens, Subscribe, Cancel, Pay, IssueShares,
       RedeemShares, DisableYield, Emit
  <2> QED
    BY <2>1 DEF TypeInv, ServerTypes
<1>2. row' \in [Wallets -> Row \union {None}]
  <2>1. UNCHANGED row
    BY DEF Program, CreateWallet, MoveTokens, Subscribe, Cancel, Pay, IssueShares,
       RedeemShares, DisableYield, Emit
  <2> QED
    BY <2>1 DEF TypeInv, TableTypes
<1>3. recorded' \subseteq DOMAIN log'
  <2>1. \E kind, n : Emit(kind, w, n)
    BY DEF Program, CreateWallet, MoveTokens, Subscribe, Cancel, Pay, IssueShares,
       RedeemShares, DisableYield
  <2>2. PICK kind, n : Emit(kind, w, n)
    BY <2>1
  <2>3. PICK e : log' = Append(log, e)
    BY <2>2 DEF Emit
  <2>4. log \in Seq(Transaction)
    BY DEF TypeInv, IInv, LogOK
  <2>5. DOMAIN log = 1..Len(log) /\ DOMAIN log' = 1..(Len(log) + 1) /\ Len(log) \in Nat
    BY <2>3, <2>4
  <2>6. recorded \subseteq DOMAIN log /\ recorded' = recorded
    BY <2>2 DEF Emit, TypeInv, TableTypes
  <2> QED
    BY <2>5, <2>6
<1>4. ASSUME NEW v \in Wallets, ~OnChain(v)' PROVE data'[v] = None
  <2>0. account \in [Wallets -> Account \union {None}] /\ DOMAIN data = Wallets
    BY DEF TypeInv, IInv, AccountsOK
  <2>1. CASE MoveTokens(w)
    BY <1>4, <2>1 DEF MoveTokens, TypeInv, TableTypes, OnChain
  <2>2. CASE \E subs, spent, shares, enabled :
               Store(w, WalletAccount(subs, spent, shares, enabled))
    <3>1. PICK subs, spent, shares, enabled :
            Store(w, WalletAccount(subs, spent, shares, enabled))
      BY <2>2
    <3>2. PICK a : a = WalletAccount(subs, spent, shares, enabled)
      OBVIOUS
    <3>3. account' = [account EXCEPT ![w] = a] /\ data' = [data EXCEPT ![w] = WalletBytes(w, a)]
      BY <3>1, <3>2 DEF Store
    <3>4. v # w => ~OnChain(v) /\ data'[v] = data[v]
      BY <1>4, <2>0, <3>3 DEF OnChain
    <3>5. v # w
      BY <1>0, <1>4
    <3> QED
      BY <3>4, <3>5 DEF TypeInv, TableTypes
  <2> QED
    BY <2>1, <2>2 DEF Program, CreateWallet, Subscribe, Cancel, Pay, IssueShares,
       RedeemShares, DisableYield
<1> QED
  BY <1>1, <1>2, <1>3, <1>4 DEF TableTypes

\* The update of a row that is there, by one of the same type.
LEMMA UpdateKeepsTypes ==
  ASSUME TypeInv, NEW h \in Slots, hs[h].pc # "idle", NEW r, NEW next,
         UpdateRow(h, r, next), HasRow(h) => r \in Row
  PROVE  /\ row' \in [Wallets -> Row \union {None}]
         /\ hs' \in [Slots -> Handler]
         /\ recorded' = recorded
<1>1. row \in [Wallets -> Row \union {None}] /\ hs \in [Slots -> Handler]
  BY DEF TypeInv, TableTypes, ServerTypes
<1>2. AtStep("record", hs[h].tx, 0) \in Handler
  BY <1>1 DEF AtStep, Handler, HandlerSteps
<1> QED
  BY <1>1, <1>2, IdleTypes DEF UpdateRow, GoTo, Return

\* The row of a handler's wallet, when it is there.
LEMMA RowTypes ==
  ASSUME TypeInv, NEW h \in Slots, hs[h].pc # "idle"
  PROVE  /\ hs[h] \in Handler
         /\ hs[h].tx \in DOMAIN log
         /\ Subject(h) \in Wallets /\ Amount(h) \in Nat
         /\ HasRow(h) => row[Subject(h)] \in Row
<1>1. hs[h] \in Handler /\ row \in [Wallets -> Row \union {None}]
  BY DEF TypeInv, ServerTypes, TableTypes
<1>2. hs[h].tx \in DOMAIN log
  BY DEF TypeInv, IInv, HandlersOK
<1>3. log[hs[h].tx] \in Transaction
  BY <1>2 DEF TypeInv, IInv, LogOK
<1>4. Subject(h) \in Wallets /\ Amount(h) \in Nat
  BY <1>3 DEF Subject, Amount, Transaction
<1> QED
  BY <1>1, <1>2, <1>4 DEF HasRow

\* No field of a row loses its type when a handler writes one.
LEMMA RowWithField ==
  ASSUME NEW r \in Row, NEW n \in Int
  PROVE  /\ r.subs \in Int /\ r.spent \in Int /\ r.shares \in Int
         /\ [r EXCEPT !.subs = n] \in Row
         /\ [r EXCEPT !.spent = n] \in Row
         /\ [r EXCEPT !.shares = n] \in Row
BY DEF Row

LEMMA HandlingKeepsTypes ==
  ASSUME TypeInv, NEW h \in Slots, Handling(h)
  PROVE  TableTypes' /\ ServerTypes'
<1>1. UNCHANGED <<chainVars, sync, faults>>
  BY DEF Handling, StartHandler, HandlerStep, HandlerError, HandleCreated,
     HandleSubscribed, HandleCancelled, ReadSpent, WriteSpent, HandleYieldDisabled,
     HandleYieldDeposit, ReadShares, WriteShares, RecordTransaction, Running
<1> DEFINE Typed == /\ row' \in [Wallets -> Row \union {None}]
                    /\ hs' \in [Slots -> Handler]
                    /\ recorded' \subseteq DOMAIN log
                    /\ starts' \in Nat
<1>2. Typed
  <2>0. /\ row \in [Wallets -> Row \union {None}] /\ hs \in [Slots -> Handler]
        /\ recorded \subseteq DOMAIN log /\ starts \in Nat /\ log \in Seq(Transaction)
    BY DEF TypeInv, TableTypes, ServerTypes, IInv, LogOK
  <2>1. ASSUME NEW i \in DOMAIN log, StartHandler(h, i) PROVE Typed
    <3>1. AtStep(FirstStep[log[i].kind], i, 0) \in Handler
      <4>1. i \in Nat
        BY <2>0
      <4>2. log[i].kind \in DOMAIN FirstStep
        BY <2>1 DEF StartHandler
      <4>3. FirstStep[log[i].kind] \in HandlerSteps
        BY <4>2 DEF FirstStep, HandlerSteps
      <4> QED
        BY <4>1, <4>3 DEF AtStep, Handler
    <3> QED
      BY <2>0, <2>1, <3>1 DEF StartHandler
  <2>2. CASE HandlerError(h)
    BY <2>0, <2>2, IdleTypes DEF HandlerError, Return
  <2>3. CASE HandleCreated(h)
    <3>1. /\ hs' \in [Slots -> Handler] /\ recorded' = recorded /\ starts' = starts
      BY <2>0, <2>3, IdleTypes DEF HandleCreated, Running, Return
    <3>2. Subject(h) \in Wallets
      BY <2>3, RowTypes DEF HandleCreated, Running
    <3>3. [owner |-> OwnerOf[Subject(h)], mint |-> MintOf[Subject(h)],
           enabled |-> FALSE, shares |-> 0, subs |-> 0, spent |-> 0] \in Row
      BY <3>2, MirrorAssumption DEF Row
    <3>4. row' \in [Wallets -> Row \union {None}]
      BY <2>0, <2>3, <3>2, <3>3 DEF HandleCreated
    <3> QED
      BY <2>0, <3>1, <3>4
  <2>4. CASE HandleSubscribed(h)
    <3>1. ASSUME HasRow(h) PROVE [row[Subject(h)] EXCEPT !.subs = @ + 1] \in Row
      <4>1. PICK r \in Row : r = row[Subject(h)]
        BY <2>4, <3>1, RowTypes DEF HandleSubscribed, Running
      <4>2. \A n \in Int : [r EXCEPT !.subs = n] \in Row
        BY RowWithField
      <4>3. [r EXCEPT !.subs = r.subs + 1] \in Row
        BY <4>2 DEF Row
      <4> QED
        BY <4>1, <4>3
    <3> QED
      BY <2>0, <2>4, <3>1, UpdateKeepsTypes DEF HandleSubscribed, Running
  <2>5. CASE HandleCancelled(h)
    <3>1. ASSUME HasRow(h) PROVE [row[Subject(h)] EXCEPT !.subs = @ - 1] \in Row
      <4>1. PICK r \in Row : r = row[Subject(h)]
        BY <2>5, <3>1, RowTypes DEF HandleCancelled, Running
      <4>2. \A n \in Int : [r EXCEPT !.subs = n] \in Row
        BY RowWithField
      <4>3. [r EXCEPT !.subs = r.subs - 1] \in Row
        BY <4>2 DEF Row
      <4> QED
        BY <4>1, <4>3
    <3> QED
      BY <2>0, <2>5, <3>1, UpdateKeepsTypes DEF HandleCancelled, Running
  <2>6. CASE ReadSpent(h)
    <3>1. hs[h].pc # "idle" /\ recorded' = recorded /\ row' = row /\ starts' = starts
      BY <2>6 DEF ReadSpent, Running
    <3>2. hs[h] \in Handler /\ (HasRow(h) => row[Subject(h)].spent \in Int)
      <4>1. \A r \in Row : r.spent \in Int
        BY DEF Row
      <4> QED
        BY <3>1, <4>1, RowTypes
    <3>3. /\ AtStep("record", hs[h].tx, 0) \in Handler
          /\ HasRow(h) => AtStep("writeSpent", hs[h].tx, row[Subject(h)].spent) \in Handler
      BY <3>2 DEF AtStep, Handler, HandlerSteps
    <3> QED
      BY <2>0, <2>6, <3>1, <3>3 DEF ReadSpent, GoTo
  <2>7. CASE WriteSpent(h)
    <3>1. hs[h].pc # "idle"
      BY <2>7 DEF WriteSpent, Running
    <3>2. hs[h].val + Amount(h) \in Int
      BY <3>1, RowTypes DEF Handler
    <3>3. HasRow(h) => [row[Subject(h)] EXCEPT !.spent = hs[h].val + Amount(h)] \in Row
      <4>1. \A r \in Row, n \in Int : [r EXCEPT !.spent = n] \in Row
        BY RowWithField
      <4> QED
        BY <3>1, <3>2, <4>1, RowTypes
    <3> QED
      BY <2>0, <2>7, <3>1, <3>3, UpdateKeepsTypes DEF WriteSpent, Running
  <2>8. CASE HandleYieldDisabled(h)
    <3>1. HasRow(h) => [row[Subject(h)] EXCEPT !.enabled = FALSE, !.shares = 0] \in Row
      <4>1. \A r \in Row : [r EXCEPT !.enabled = FALSE, !.shares = 0] \in Row
        <5>1. \A r \in Row : [r EXCEPT !.enabled = FALSE] \in Row
          BY DEF Row
        <5>2. \A r \in Row : [r EXCEPT !.shares = 0] \in Row
          BY DEF Row
        <5> QED
          BY <5>1, <5>2, Zenon
      <4> QED
        BY <2>8, <4>1, RowTypes DEF HandleYieldDisabled, Running
    <3> QED
      BY <2>0, <2>8, <3>1, UpdateKeepsTypes DEF HandleYieldDisabled, Running
  <2>9. CASE HandleYieldDeposit(h)
    <3>1. HasRow(h) => [row[Subject(h)] EXCEPT !.shares = Amount(h)] \in Row
      <4>1. \A r \in Row, n \in Int : [r EXCEPT !.shares = n] \in Row
        BY RowWithField
      <4> QED
        BY <2>9, <4>1, RowTypes DEF HandleYieldDeposit, Running
    <3> QED
      BY <2>0, <2>9, <3>1, UpdateKeepsTypes DEF HandleYieldDeposit, Running
  <2>10. CASE ReadShares(h)
    <3>1. hs[h].pc # "idle" /\ recorded' = recorded /\ row' = row /\ starts' = starts
      BY <2>10 DEF ReadShares, Running
    <3>2. hs[h] \in Handler /\ (HasRow(h) => row[Subject(h)].shares \in Int)
      <4>1. \A r \in Row : r.shares \in Int
        BY DEF Row
      <4> QED
        BY <3>1, <4>1, RowTypes
    <3>3. /\ AtStep("record", hs[h].tx, 0) \in Handler
          /\ HasRow(h) => AtStep("writeShares", hs[h].tx, row[Subject(h)].shares) \in Handler
      BY <3>2 DEF AtStep, Handler, HandlerSteps
    <3> QED
      BY <2>0, <2>10, <3>1, <3>3 DEF ReadShares, GoTo
  <2>11. CASE WriteShares(h)
    <3>1. hs[h].pc # "idle"
      BY <2>11 DEF WriteShares, Running
    <3>2. hs[h].val - Amount(h) \in Int
      BY <3>1, RowTypes DEF Handler
    <3>3. HasRow(h) => [row[Subject(h)] EXCEPT !.shares = hs[h].val - Amount(h)] \in Row
      <4>1. \A r \in Row, n \in Int : [r EXCEPT !.shares = n] \in Row
        BY RowWithField
      <4> QED
        BY <3>1, <3>2, <4>1, RowTypes
    <3> QED
      BY <2>0, <2>11, <3>1, <3>3, UpdateKeepsTypes DEF WriteShares, Running
  <2>12. CASE RecordTransaction(h)
    <3>1. hs[h].tx \in DOMAIN log
      BY <2>12, RowTypes DEF RecordTransaction, Running
    <3> QED
      BY <2>0, <2>12, <3>1, IdleTypes DEF RecordTransaction, Running, Return
  <2> QED
    BY <2>1, <2>2, <2>3, <2>4, <2>5, <2>6, <2>7, <2>8, <2>9, <2>10, <2>11, <2>12
       DEF Handling, HandlerStep
<1>3. ServerTypes'
  BY <1>1, <1>2 DEF TypeInv, ServerTypes
<1> QED
  BY <1>1, <1>2, <1>3 DEF TypeInv, TableTypes, OnChain, chainVars

LEMMA SyncKeepsTypes ==
  ASSUME TypeInv, SyncStep \/ SyncError \/ Crash
  PROVE  TableTypes' /\ ServerTypes'
<1>1. UNCHANGED <<chainVars, recorded, starts>>
  BY DEF SyncStep, SyncFetch, SyncWallet, SyncSubscriptions, SyncEnd, SyncError, Crash
<1>2. /\ hs' \in [Slots -> Handler] /\ faults' \in Nat
  <2>1. hs' = hs \/ hs' = [h \in Slots |-> Idle]
    BY DEF SyncStep, SyncFetch, SyncWallet, SyncSubscriptions, SyncEnd, SyncError, Crash
  <2>2. faults' \in Nat
    <3>1. faults' = faults \/ faults' = faults + 1
      BY DEF SyncStep, SyncFetch, SyncWallet, SyncSubscriptions, SyncEnd, SyncError, Crash,
         Fault
    <3> QED
      BY <3>1 DEF TypeInv, ServerTypes
  <2> QED
    BY <2>1, <2>2, IdleTypes DEF TypeInv, ServerTypes
<1>3. /\ row \in [Wallets -> Row \union {None}]
      /\ sync.todo \subseteq Wallets
      /\ sync.rows \in [Wallets -> Row \union {None}]
  BY DEF TypeInv, TableTypes, ServerTypes
<1>4. PICK none : none = [w \in Wallets |-> None]
  OBVIOUS
<1>5. none \in [Wallets -> Row \union {None}] /\ IdleSync = Syncing("idle", {}, none)
  BY <1>4 DEF IdleSync
<1>6. row' \in [Wallets -> Row \union {None}]
  <2>1. ASSUME NEW w \in Wallets, SyncWallet(w) PROVE row' \in [Wallets -> Row \union {None}]
    <3>1. CASE Fits(sync.rows[w])
      <4>1. w \in sync.todo
        BY <2>1 DEF SyncWallet
      <4>2. PICK r : r = sync.rows[w]
        OBVIOUS
      <4>3. r \in Row
        BY <4>1, <4>2 DEF TypeInv, ServerTypes
      <4>4. ASSUME row[w] # None
            PROVE  [r EXCEPT !.owner = row[w].owner, !.mint = row[w].mint] \in Row
        <5>1. row[w] \in Row
          BY <1>3, <4>4
        <5> QED
          BY <4>3, <5>1 DEF Row
      <4> QED
        BY <1>3, <2>1, <3>1, <4>2, <4>3, <4>4 DEF SyncWallet
    <3>2. CASE ~Fits(sync.rows[w])
      BY <1>3, <2>1, <3>2 DEF SyncWallet
    <3> QED
      BY <3>1, <3>2
  <2> QED
    BY <1>3, <2>1 DEF SyncStep, SyncFetch, SyncSubscriptions, SyncEnd, SyncError, Crash
<1> DEFINE SyncMade ==
             \E pc \in {"idle", "wallets", "subscriptions"}, todo \in SUBSET Wallets,
                rows \in [Wallets -> Row \union {None}] :
               /\ sync' = Syncing(pc, todo, rows)
               /\ \A w \in todo : rows[w] \in Row
<1>7. SyncMade
  <2>1. CASE SyncFetch
    <3>1. PICK rows : rows = [w \in Wallets |-> IF OnChain(w) THEN RowOf(Decoded(w))
                                                             ELSE None]
      OBVIOUS
    <3>2. ASSUME NEW w \in Wallets, OnChain(w) PROVE RowOf(Decoded(w)) \in Row
      <4>1. account[w] \in Account /\ data[w] = WalletBytes(w, account[w])
        BY <3>2 DEF TypeInv, IInv, AccountsOK, OnChain
      <4> QED
        BY <4>1, DecodedIsRow DEF Decoded
    <3>3. rows \in [Wallets -> Row \union {None}]
      BY <3>1, <3>2
    <3>4. sync' = Syncing("wallets", {w \in Wallets : OnChain(w)}, rows)
      BY <2>1, <3>1 DEF SyncFetch
    <3>5. PICK todo \in SUBSET Wallets : todo = {w \in Wallets : OnChain(w)}
      OBVIOUS
    <3>6. \A w \in todo : rows[w] \in Row
      BY <3>1, <3>2, <3>5
    <3> QED
      BY <3>3, <3>4, <3>5, <3>6
  <2>2. ASSUME NEW w \in Wallets, SyncWallet(w) PROVE SyncMade
    <3>1. sync' = Syncing("wallets", sync.todo \ {w}, sync.rows) \/ sync' = IdleSync
      BY <2>2 DEF SyncWallet
    <3>2. sync.todo \ {w} \in SUBSET Wallets
      BY <1>3
    <3>3. \A v \in sync.todo \ {w} : sync.rows[v] \in Row
      BY DEF TypeInv, ServerTypes
    <3> QED
      BY <1>3, <1>5, <3>1, <3>2, <3>3
  <2>3. CASE SyncSubscriptions
    BY <1>3, <2>3 DEF SyncSubscriptions
  <2>4. CASE SyncEnd \/ SyncError \/ Crash
    BY <1>5, <2>4 DEF SyncEnd, SyncError, Crash
  <2> QED
    BY <2>1, <2>2, <2>3, <2>4 DEF SyncStep
<1>8. ServerTypes'
  <2>1. PICK pc \in {"idle", "wallets", "subscriptions"}, todo \in SUBSET Wallets,
             rows \in [Wallets -> Row \union {None}] :
               /\ sync' = Syncing(pc, todo, rows)
               /\ \A w \in todo : rows[w] \in Row
    BY <1>7
  <2>2. starts' \in Nat
    BY <1>1 DEF TypeInv, ServerTypes
  <2>3. /\ sync' \in [isIndexing : BOOLEAN, pc : {"idle", "wallets", "subscriptions"},
                     todo : SUBSET Wallets, rows : [Wallets -> Row \union {None}]]
        /\ sync'.todo = todo /\ sync'.rows = rows
    <3>1. /\ Syncing(pc, todo, rows) \in
               [isIndexing : BOOLEAN, pc : {"idle", "wallets", "subscriptions"},
                todo : SUBSET Wallets, rows : [Wallets -> Row \union {None}]]
          /\ Syncing(pc, todo, rows).todo = todo
          /\ Syncing(pc, todo, rows).rows = rows
      BY DEF Syncing
    <3>2. PICK s : s = Syncing(pc, todo, rows)
      OBVIOUS
    <3>3. /\ s \in [isIndexing : BOOLEAN, pc : {"idle", "wallets", "subscriptions"},
                   todo : SUBSET Wallets, rows : [Wallets -> Row \union {None}]]
          /\ s.todo = todo /\ s.rows = rows
      BY <3>1, <3>2
    <3>4. sync' = s
      BY <2>1, <3>2
    <3> QED
      BY <3>3, <3>4
  <2>4. \A w \in sync'.todo : sync'.rows[w] \in Row
    BY <2>1, <2>3
  <2> QED
    BY <1>2, <2>2, <2>3, <2>4 DEF ServerTypes
<1> QED
  BY <1>1, <1>6, <1>8 DEF TypeInv, TableTypes, OnChain, chainVars

LEMMA TypesKept == TypeInv /\ [Next]_vars => TypeInv'
<1> SUFFICES ASSUME TypeInv, [Next]_vars PROVE TableTypes' /\ ServerTypes'
  BY StepPreserves DEF TypeInv
<1>1. CASE UNCHANGED vars
  BY <1>1 DEF vars, TypeInv, TableTypes, ServerTypes, OnChain
<1> QED
  BY <1>1, ProgramKeepsTypes, HandlingKeepsTypes, SyncKeepsTypes DEF Next

\* The types of the accounts, the rows, the handlers and the sync: a cancellation
\* takes no account below zero subscriptions, and a row holds whatever number the
\* decoder misread, never anything else.
THEOREM TypeCorrect == Spec => []TypeOK
BY InitTypes, TypesKept, TypeInvMeans, PTL DEF Spec

--------------------------------------------------------------------------------
(* The decoders of subscriptions and plans give back what was encoded.      *)

\* What an account's cells hold: a key, or a byte.
Cell == Keys \union Wallets \union Int

\* The cells of b after the first o are those of s.
Holds(b, o, s) == \A i \in 1..Len(s) : b[o + i] = s[i]

LEMMA HoldsSplit ==
  ASSUME NEW b, NEW o \in Nat, NEW s \in Seq(Cell), NEW t \in Seq(Cell), Holds(b, o, s \o t)
  PROVE  Holds(b, o, s) /\ Holds(b, o + Len(s), t)
<1>1. /\ Len(s) \in Nat /\ Len(t) \in Nat /\ Len(s \o t) = Len(s) + Len(t)
  BY ConcatLength
<1>2. ASSUME NEW i \in 1..Len(s) PROVE b[o + i] = s[i]
  <2>1. i \in 1..Len(s \o t)
    BY <1>1
  <2>2. (s \o t)[i] = s[i]
    BY CellLeft, Zenon
  <2>3. b[o + i] = (s \o t)[i]
    BY <2>1, Zenon DEF Holds
  <2> QED
    BY <2>2, <2>3
<1>3. ASSUME NEW i \in 1..Len(t) PROVE b[(o + Len(s)) + i] = t[i]
  <2>1. Len(s) + i \in 1..Len(s \o t)
    BY <1>1
  <2>2. (s \o t)[Len(s) + i] = t[i]
    BY CellRight, Zenon
  <2>3. b[o + (Len(s) + i)] = (s \o t)[Len(s) + i]
    BY <2>1, Zenon DEF Holds
  <2>4. o + (Len(s) + i) = (o + Len(s)) + i
    BY <1>1
  <2> QED
    BY <2>2, <2>3, <2>4
<1> QED
  BY <1>2, <1>3 DEF Holds

LEMMA DigitsInCells ==
  ASSUME NEW n \in Nat, NEW width \in Nat
  PROVE  Digits(n, width) \in Seq(Cell) /\ Len(Digits(n, width)) = width
<1>1. \A i \in 1..width : (n \div Power[i - 1]) % Base \in Cell
  <2>1. Digits(n, width) = [i \in 1..width |-> (n \div Power[i - 1]) % Base]
    BY DEF Digits
  <2>2. \A i \in 1..width : Digits(n, width)[i] \in Int
    BY DigitsAreNumbers, Sizes
  <2> QED
    BY <2>1, <2>2 DEF Cell
<1> QED
  BY <1>1 DEF Digits

LEMMA HeldNumber ==
  ASSUME NEW n \in Nat, NEW width \in Nat, n < Power[width],
         NEW b, NEW o \in Nat, Holds(b, o, Digits(n, width))
  PROVE  Number(b, o, width) = n
<1>1. \A i \in 1..width : b[o + i] = (n \div Power[i - 1]) % Base
  BY DigitsInCells DEF Holds, Digits
<1> QED
  BY <1>1, NumberReads

LEMMA HeldSubSeq ==
  ASSUME NEW b, NEW o \in Nat, NEW s \in Seq(Cell), Holds(b, o, s)
  PROVE  SubSeq(b, o + 1, o + Len(s)) = s
<1>1. Len(s) \in Nat /\ s = [i \in 1..Len(s) |-> s[i]]
  OBVIOUS
<1>2. SubSeq(b, o + 1, o + Len(s)) = [i \in 1..Len(s) |-> b[o + i]]
  BY <1>1
<1> QED
  BY <1>1, <1>2 DEF Holds

\* The numbers fit the words that the accounts give them: u32 for counts and
\* lengths, u64 for amounts.  The model's own numbers grow up to their bounds,
\* whatever Base and Word are.
NumbersFit ==
  /\ Fee < Power[2 * Word] /\ Fee * MaxTx < Power[2 * Word]
  /\ MaxTx < Power[Word] /\ MaxTx < Power[2 * Word]
  /\ MaxToken < Power[Word] /\ Len(PlanId) < Power[Word]
  /\ IsFiniteSet(Wallets) /\ Cardinality(Wallets) < Power[Word]

LEMMA ElementOf ==
  ASSUME NEW S, NEW s \in Seq(S), NEW i \in 1..Len(s)
  PROVE  s[i] \in S
OBVIOUS

LEMMA BytesAreCells ==
  ASSUME NEW s \in Seq(0..(Base - 1))
  PROVE  s \in Seq(Cell) /\ Text(s) \in Seq(Cell) /\ Len(Text(s)) = Word + Len(s)
<1>1. s \in Seq(Cell) /\ Len(s) \in Nat
  <2>1. Len(s) \in Nat /\ s = [i \in 1..Len(s) |-> s[i]]
    OBVIOUS
  <2>2. ASSUME NEW i \in 1..Len(s) PROVE s[i] \in Cell
    <3>1. s[i] \in 0..(Base - 1)
      BY ElementOf, Zenon
    <3>2. s[i] \in Int
      BY <3>1, Sizes
    <3> QED
      BY <3>2 DEF Cell
  <2> QED
    BY <2>1, <2>2
<1>2. U32(Len(s)) \in Seq(Cell) /\ Len(U32(Len(s))) = Word
  BY <1>1, DigitsInCells, Sizes DEF U32
<1> QED
  BY <1>1, <1>2, ConcatLength DEF Text

\* A text is read back: its length, then its characters.
LEMMA TextRead ==
  ASSUME NEW s \in Seq(0..(Base - 1)), Len(s) < Power[Word],
         NEW b, NEW o \in Nat, Holds(b, o, Text(s))
  PROVE  /\ N32(b, o) = Len(s)
         /\ Holds(b, o + Word, s)
         /\ SubSeq(b, o + Word + 1, o + Word + Len(s)) = s
<1>1. /\ s \in Seq(Cell) /\ Len(s) \in Nat
      /\ U32(Len(s)) \in Seq(Cell) /\ Len(U32(Len(s))) = Word
  <2>1. s \in Seq(Cell) /\ Len(s) \in Nat
    BY BytesAreCells
  <2> QED
    BY <2>1, DigitsInCells, Sizes DEF U32
<1>2. Holds(b, o, U32(Len(s))) /\ Holds(b, o + Word, s)
  BY <1>1, HoldsSplit DEF Text
<1>3. N32(b, o) = Len(s)
  BY <1>1, <1>2, HeldNumber, Sizes DEF N32, U32
<1>4. SubSeq(b, (o + Word) + 1, (o + Word) + Len(s)) = s
  <2>1. o + Word \in Nat
    BY Sizes
  <2> QED
    BY <1>1, <1>2, <2>1, HeldSubSeq
<1> QED
  BY <1>2, <1>3, <1>4

\* What follows the flag in an account with a session token, short or long.
LEMMA TailRead ==
  ASSUME NEW token \in Seq(0..(Base - 1)), Len(token) <= MaxToken,
         Len(token) < Power[Word],
         NEW b, NEW o \in Nat, Holds(b, o, Text(token)),
         b[o + (Word + Len(token)) + 1] = Bump,
         Len(b) \in Nat, Len(b) >= o + (Word + Len(token)) + 1
  PROVE  ReadTail(b, o) = [token |-> token, bump |-> Bump]
<1> DEFINE length == N32(b, o)
           start  == o + Word
<1>1. /\ length = Len(token) /\ Len(token) \in Nat
      /\ SubSeq(b, start + 1, start + length) = token
  BY TextRead
<1>2. /\ start \in Nat /\ start <= Len(b) /\ start + length + 1 <= Len(b)
      /\ start + length + 1 = o + (Word + Len(token)) + 1
  BY <1>1, Sizes
<1> HIDE DEF length, start
<1>3. CASE Len(token) = 0
  <2>1. token = <<>> /\ length = 0 /\ b[start + 1] = Bump
    BY <1>1, <1>2, <1>3
  <2>2. ~(start > Len(b)) /\ length \notin 1..MaxToken /\ start + 1 <= Len(b)
    BY <1>2, <2>1
  <2> QED
    BY <2>1, <2>2 DEF ReadTail, TailUpTo, length, start
<1>4. CASE Len(token) # 0
  <2>1. length \in 1..MaxToken /\ start + length <= Len(b) /\ ~(start > Len(b))
    <3>1. MaxToken \in Nat
      BY MirrorAssumption
    <3> QED
      BY <1>1, <1>2, <1>4, <3>1
  <2>2. b[start + length + 1] = Bump /\ start + length + 1 <= Len(b)
    BY <1>1, <1>2
  <2> QED
    BY <1>1, <2>1, <2>2 DEF ReadTail, TailUpTo, length, start
<1> QED
  BY <1>3, <1>4

\* What follows the flag in a legacy account: one cell, whatever it would mean as
\* the start of a length.
LEMMA LegacyTailRead ==
  ASSUME NEW b, NEW o \in Nat, Len(b) = o + 1
  PROVE  ReadTail(b, o) = [token |-> <<>>, bump |-> 0]
<1> DEFINE length == N32(b, o)
           start  == o + Word
<1>1. start \in Nat /\ start >= Len(b)
  BY Sizes
<1> HIDE DEF length, start
<1>2. CASE start > Len(b)
  BY <1>2 DEF ReadTail, TailUpTo, start
<1>3. CASE ~(start > Len(b))
  <2>1. start = Len(b) /\ ~(start + 1 <= Len(b))
    BY <1>1, <1>3
  <2>2. ~(length \in 1..MaxToken /\ start + length <= Len(b))
    <3>1. MaxToken \in Nat
      BY MirrorAssumption
    <3> QED
      BY <1>1, <2>1, <3>1
  <2>3. ReadTail(b, o) = [token |-> <<>>,
                          bump |-> IF length = 0
                                   THEN IF start + 1 <= Len(b) THEN b[start + 1] ELSE 0
                                   ELSE 0]
    BY <1>3, <2>2 DEF ReadTail, TailUpTo, length, start
  <2> QED
    BY <2>1, <2>3
<1> QED
  BY <1>2, <1>3

\* The plan decoder, whatever plan and however many subscribers.
LEMMA PlanDecodes ==
  ASSUME NumbersFit
  PROVE  ReadPlan(PlanBytes) =
           [id |-> PlanId, name |-> PlanId, fee |-> Fee, active |-> TRUE,
            subscribers |-> Subscribers, bump |-> Bump]
<1> DEFINE T  == Text(PlanId)
           s1 == T \o T
           s2 == s1 \o U64(Fee)
           s3 == s2 \o <<1>>
           s4 == s3 \o U32(Subscribers)
           b  == s4 \o <<Bump>>
           n  == Len(PlanId)
           e  == (Word + n) + (Word + n)
<1>1. PlanId \in Seq(0..(Base - 1)) /\ Bump \in 0..(Base - 1)
  BY MirrorAssumption
<1>2. n \in Nat /\ n < Power[Word] /\ Fee < Power[2 * Word]
  BY <1>1 DEF NumbersFit
<1>3. Subscribers \in Nat /\ Subscribers < Power[Word]
  <2>1. PICK S \in SUBSET Wallets : Subscribers = Cardinality(S)
    BY DEF Subscribers
  <2>2. Cardinality(S) <= Cardinality(Wallets) /\ IsFiniteSet(S)
    BY FS_Subset DEF NumbersFit
  <2>3. Cardinality(S) \in Nat /\ Cardinality(Wallets) \in Nat
    BY <2>2, FS_CardinalityType DEF NumbersFit
  <2>4. Power[Word] \in Nat
    BY PowerDef, Sizes
  <2> QED
    BY <2>1, <2>2, <2>3, <2>4 DEF NumbersFit
<1>4. T \in Seq(Cell) /\ Len(T) = Word + n
  BY <1>1, BytesAreCells
<1>5. /\ U64(Fee) \in Seq(Cell) /\ Len(U64(Fee)) = 2 * Word
      /\ U32(Subscribers) \in Seq(Cell) /\ Len(U32(Subscribers)) = Word
  <2>1. 2 * Word \in Nat /\ Word \in Nat /\ Fee \in Nat
    BY Sizes
  <2> QED
    BY <1>3, <2>1, DigitsInCells DEF U64, U32
<1>6. <<1>> \in Seq(Cell) /\ <<Bump>> \in Seq(Cell) /\ Len(<<1>>) = 1 /\ Len(<<Bump>>) = 1
  <2>1. 1 \in Cell /\ Bump \in Cell
    BY <1>1, Sizes DEF Cell
  <2> QED
    BY <2>1
<1> HIDE DEF T, s1, s2, s3, s4, b, n
<1>7. s1 \in Seq(Cell) /\ Len(s1) = e
  <2>1. s1 \in Seq(Cell) /\ Len(s1) = Len(T) + Len(T)
    BY <1>4, ConcatLength, Zenon DEF s1
  <2> QED
    BY <1>4, <2>1
<1>8. s2 \in Seq(Cell) /\ Len(s2) = e + 2 * Word
  <2>1. s2 \in Seq(Cell) /\ Len(s2) = Len(s1) + Len(U64(Fee))
    BY <1>5, <1>7, ConcatLength, Zenon DEF s2
  <2> QED
    BY <1>5, <1>7, <2>1
<1>9. s3 \in Seq(Cell) /\ Len(s3) = e + 2 * Word + 1
  <2>1. s3 \in Seq(Cell) /\ Len(s3) = Len(s2) + Len(<<1>>)
    BY <1>6, <1>8, ConcatLength, Zenon DEF s3
  <2> QED
    BY <1>6, <1>8, <2>1
<1>10. s4 \in Seq(Cell) /\ Len(s4) = e + 3 * Word + 1
  <2>1. s4 \in Seq(Cell) /\ Len(s4) = Len(s3) + Len(U32(Subscribers))
    BY <1>5, <1>9, ConcatLength, Zenon DEF s4
  <2>2. Len(s4) = e + 3 * Word + 1
    BY <1>2, <1>5, <1>9, <2>1, Sizes
  <2> QED
    BY <2>1, <2>2
<1>11. Holds(b, 0, b)
  BY DEF Holds
<1>12. Holds(b, 0, s4) /\ Holds(b, e + 3 * Word + 1, <<Bump>>)
  <2>1. Holds(b, 0, s4) /\ Holds(b, 0 + Len(s4), <<Bump>>)
    BY <1>6, <1>10, <1>11, HoldsSplit DEF b
  <2> QED
    BY <1>2, <1>10, <2>1, Sizes
<1>13. Holds(b, 0, s3) /\ Holds(b, e + 2 * Word + 1, U32(Subscribers))
  <2>1. Holds(b, 0, s3) /\ Holds(b, 0 + Len(s3), U32(Subscribers))
    BY <1>5, <1>9, <1>12, HoldsSplit DEF s4
  <2> QED
    BY <1>2, <1>9, <2>1, Sizes
<1>14. Holds(b, 0, s2) /\ Holds(b, e + 2 * Word, <<1>>)
  <2>1. Holds(b, 0, s2) /\ Holds(b, 0 + Len(s2), <<1>>)
    BY <1>6, <1>8, <1>13, HoldsSplit DEF s3
  <2> QED
    BY <1>2, <1>8, <2>1, Sizes
<1>15. Holds(b, 0, s1) /\ Holds(b, e, U64(Fee))
  <2>1. Holds(b, 0, s1) /\ Holds(b, 0 + Len(s1), U64(Fee))
    BY <1>5, <1>7, <1>14, HoldsSplit DEF s2
  <2> QED
    BY <1>2, <1>7, <2>1, Sizes
<1>16. Holds(b, 0, T) /\ Holds(b, Word + n, T)
  <2>1. Holds(b, 0, T) /\ Holds(b, 0 + Len(T), T)
    BY <1>4, <1>15, HoldsSplit DEF s1
  <2> QED
    BY <1>2, <1>4, <2>1, Sizes
<1>17. N32(b, 0) = n /\ SubSeq(b, Word + 1, Word + n) = PlanId
  <2>1. N32(b, 0) = n /\ SubSeq(b, 0 + Word + 1, 0 + Word + n) = PlanId
    BY <1>1, <1>2, <1>16, TextRead DEF T, n
  <2> QED
    BY <2>1, Sizes
<1>18. /\ N32(b, Word + n) = n
       /\ SubSeq(b, (Word + n) + Word + 1, (Word + n) + Word + n) = PlanId
  <2>1. Word + n \in Nat
    BY <1>2, Sizes
  <2> QED
    BY <1>1, <1>2, <1>16, <2>1, TextRead DEF T, n
<1>19. N64(b, e) = Fee
  <2>1. e \in Nat /\ 2 * Word \in Nat /\ Fee \in Nat
    BY <1>2, Sizes
  <2> QED
    BY <1>2, <1>15, <2>1, HeldNumber DEF N64, U64
<1>20. b[e + 2 * Word + 1] = 1
  <2>1. b[(e + 2 * Word) + 1] = <<1>>[1]
    BY <1>6, <1>14 DEF Holds
  <2> QED
    BY <2>1
<1>21. N32(b, e + 2 * Word + 1) = Subscribers
  <2>1. e + 2 * Word + 1 \in Nat /\ Word \in Nat
    BY <1>2, Sizes
  <2> QED
    BY <1>3, <1>13, <2>1, HeldNumber DEF N32, U32
<1>22. b[e + 3 * Word + 2] = Bump
  <2>1. b[(e + 3 * Word + 1) + 1] = <<Bump>>[1]
    BY <1>6, <1>12 DEF Holds
  <2>2. (e + 3 * Word + 1) + 1 = e + 3 * Word + 2
    BY <1>2, Sizes
  <2> QED
    BY <2>1, <2>2
<1>23. PlanBytes = b
  BY DEF PlanBytes, b, s4, s3, s2, s1, T
<1>24. /\ (Word + n) + Word + n = e
       /\ (Word + n) + Word + N32(b, Word + n) = e
       /\ Word + N32(b, 0) = Word + n
  BY <1>2, <1>17, <1>18, Sizes
<1> HIDE DEF e
<1>25. ReadPlan(b) =
         [id |-> SubSeq(b, Word + 1, Word + n),
          name |-> SubSeq(b, (Word + n) + Word + 1, e),
          fee |-> N64(b, e), active |-> b[e + 2 * Word + 1] = 1,
          subscribers |-> N32(b, e + 2 * Word + 1), bump |-> b[e + 3 * Word + 2]]
  BY <1>24 DEF ReadPlan
<1> QED
  BY <1>17, <1>18, <1>19, <1>20, <1>21, <1>22, <1>23, <1>24, <1>25

\* decodeMerchantPlan gives back every plan that the program can store, for every
\* size of a byte and of a word (solana.service.ts, decodeMerchantPlan).
THEOREM PlanIsRead ==
  ASSUME NumbersFit
  PROVE  Spec => []PlanRead
<1>1. PlanRead
  BY PlanDecodes DEF PlanRead
<1> QED
  BY <1>1, PTL

\* What is known of a subscription's numbers: payments are transactions, and each
\* moves the fee.
Counts ==
  /\ Len(log) <= MaxTx
  /\ \A w \in Wallets : subscription[w] # None =>
       /\ subscription[w].count <= Len(log)
       /\ subscription[w].paid = Fee * subscription[w].count
       /\ subscription[w].legacy => subscription[w].token = <<>>

\* The subscription decoder, on the account of any subscription.
LEMMA SubscriptionDecodes ==
  ASSUME NumbersFit, Counts, Len(log) \in Nat, NEW w \in Wallets,
         subscription[w] # None, subscription[w] \in Subscription
  PROVE  ReadSubscription(SubscriptionBytes(w)) =
           [keys |-> <<OwnerOf[w], w, MintOf[w]>>, fee |-> Fee,
            last |-> subscription[w].count, paid |-> subscription[w].paid,
            count |-> subscription[w].count, active |-> subscription[w].active,
            tail |-> [token |-> subscription[w].token,
                      bump |-> IF subscription[w].legacy THEN 0 ELSE Bump]]
<1> DEFINE s  == subscription[w]
           s0 == <<OwnerOf[w], w, MintOf[w]>>
           s1 == s0 \o U64(Fee)
           s2 == s1 \o U64(s.count)
           s3 == s2 \o U64(s.paid)
           s4 == s3 \o U32(s.count)
           s5 == s4 \o <<Flag(s.active)>>
           padding == [i \in 1..(MaxToken - Len(s.token)) |-> 0]
           t1 == Text(s.token) \o <<Bump>>
           tail == IF s.legacy THEN <<Bump>> ELSE t1 \o padding
           b  == s5 \o tail
           o  == 4 + 7 * Word
<1>1. /\ Word \in Nat /\ 2 * Word \in Nat /\ Fee \in Nat /\ o \in Nat
      /\ MaxToken \in Nat /\ MaxTx \in Nat /\ Bump \in 0..(Base - 1)
  BY Sizes, MirrorAssumption
<1>2. /\ s.legacy \in BOOLEAN /\ s.active \in BOOLEAN
      /\ s.count \in Nat /\ s.paid \in Nat
      /\ s.token \in Tokens \union {<<>>}
      /\ s.legacy => s.token = <<>>
  BY DEF Subscription, Counts
<1>3. s.token \in Seq(0..(Base - 1)) /\ Len(s.token) \in Nat /\ Len(s.token) <= MaxToken
  <2>1. CASE s.token = <<>>
    BY <1>1, <2>1
  <2>2. CASE s.token \in Tokens
    <3>1. s.token \in Seq(0..(Base - 1)) /\ Len(s.token) <= MaxToken
      BY <2>2, MirrorAssumption
    <3> QED
      BY <3>1
  <2> QED
    BY <1>2, <2>1, <2>2
<1>4. /\ s.count < Power[Word] /\ s.count < Power[2 * Word] /\ s.paid < Power[2 * Word]
      /\ Fee < Power[2 * Word] /\ Len(s.token) < Power[Word]
  <2>1. Power[Word] \in Nat /\ Power[2 * Word] \in Nat
    BY <1>1, PowerDef
  <2>2. s.count <= MaxTx
    <3>1. s.count <= Len(log) /\ Len(log) <= MaxTx
      BY DEF Counts
    <3> QED
      BY <1>1, <1>2, <3>1
  <2>3. s.paid = Fee * s.count
    BY DEF Counts
  <2>4. Fee * s.count <= Fee * MaxTx /\ Fee * s.count \in Nat /\ Fee * MaxTx \in Nat
    BY <1>1, <1>2, <2>2
  <2>5. /\ MaxTx < Power[Word] /\ MaxTx < Power[2 * Word] /\ MaxToken < Power[Word]
        /\ Fee < Power[2 * Word] /\ Fee * MaxTx < Power[2 * Word]
    BY DEF NumbersFit
  <2>6. s.count < Power[Word] /\ s.count < Power[2 * Word]
    <3>1. PICK c \in Nat : c = s.count
      BY <1>2
    <3>2. c <= MaxTx /\ MaxTx < Power[Word] /\ MaxTx < Power[2 * Word]
      BY <2>2, <2>5, <3>1
    <3>3. c < Power[Word] /\ c < Power[2 * Word]
      BY <1>1, <2>1, <3>2
    <3> QED
      BY <3>1, <3>3
  <2>7. s.paid < Power[2 * Word]
    <3>1. PICK p \in Nat : p = Fee * s.count
      BY <2>4
    <3>2. PICK m \in Nat : m = Fee * MaxTx
      BY <2>4
    <3> QED
      BY <2>1, <2>3, <2>4, <2>5, <3>1, <3>2
  <2>8. Len(s.token) < Power[Word]
    BY <1>1, <1>3, <2>1, <2>5
  <2> QED
    BY <2>5, <2>6, <2>7, <2>8
<1>5. s0 \in Seq(Cell) /\ Len(s0) = 3
  <2>1. OwnerOf[w] \in Cell /\ w \in Cell /\ MintOf[w] \in Cell
    BY MirrorAssumption DEF Cell
  <2> QED
    BY <2>1
<1>6. /\ U64(Fee) \in Seq(Cell) /\ Len(U64(Fee)) = 2 * Word
      /\ U64(s.count) \in Seq(Cell) /\ Len(U64(s.count)) = 2 * Word
      /\ U64(s.paid) \in Seq(Cell) /\ Len(U64(s.paid)) = 2 * Word
      /\ U32(s.count) \in Seq(Cell) /\ Len(U32(s.count)) = Word
  BY <1>1, <1>2, DigitsInCells DEF U64, U32
<1>7. /\ <<Flag(s.active)>> \in Seq(Cell) /\ Len(<<Flag(s.active)>>) = 1
      /\ <<Bump>> \in Seq(Cell) /\ Len(<<Bump>>) = 1
  <2>1. Flag(s.active) \in Cell /\ Bump \in Cell
    BY <1>1, Sizes DEF Cell, Flag
  <2> QED
    BY <2>1
<1>8. padding \in Seq(Cell) /\ Len(padding) = MaxToken - Len(s.token)
  <2>1. MaxToken - Len(s.token) \in Nat /\ 0 \in Cell
    BY <1>1, <1>3 DEF Cell
  <2> QED
    BY <2>1
<1>9. Text(s.token) \in Seq(Cell) /\ Len(Text(s.token)) = Word + Len(s.token)
  BY <1>3, BytesAreCells
<1> HIDE DEF s, s0, s1, s2, s3, s4, s5, padding, t1, tail, b
<1>10. t1 \in Seq(Cell) /\ Len(t1) = (Word + Len(s.token)) + 1
  <2>1. t1 \in Seq(Cell) /\ Len(t1) = Len(Text(s.token)) + Len(<<Bump>>)
    BY <1>7, <1>9, ConcatLength, Zenon DEF t1
  <2> QED
    BY <1>7, <1>9, <2>1
<1>11. /\ tail \in Seq(Cell)
       /\ s.legacy => Len(tail) = 1
       /\ ~s.legacy => Len(tail) >= (Word + Len(s.token)) + 1 /\ Len(tail) \in Nat
  <2>1. CASE s.legacy
    BY <1>7, <2>1 DEF tail
  <2>2. CASE ~s.legacy
    <3>1. tail = t1 \o padding
      BY <2>2 DEF tail
    <3>2. tail \in Seq(Cell) /\ Len(tail) = Len(t1) + Len(padding)
      BY <1>8, <1>10, <3>1, ConcatLength, Zenon
    <3> QED
      BY <1>1, <1>3, <1>8, <1>10, <2>2, <3>2
  <2> QED
    BY <1>2, <2>1, <2>2
<1>12. s1 \in Seq(Cell) /\ Len(s1) = 3 + 2 * Word
  <2>1. s1 \in Seq(Cell) /\ Len(s1) = Len(s0) + Len(U64(Fee))
    BY <1>5, <1>6, ConcatLength, Zenon DEF s1
  <2> QED
    BY <1>5, <1>6, <2>1
<1>13. s2 \in Seq(Cell) /\ Len(s2) = 3 + 4 * Word
  <2>1. s2 \in Seq(Cell) /\ Len(s2) = Len(s1) + Len(U64(s.count))
    BY <1>6, <1>12, ConcatLength, Zenon DEF s2
  <2>2. Len(s2) = 3 + 4 * Word
    BY <1>1, <1>6, <1>12, <2>1
  <2> QED
    BY <2>1, <2>2
<1>14. s3 \in Seq(Cell) /\ Len(s3) = 3 + 6 * Word
  <2>1. s3 \in Seq(Cell) /\ Len(s3) = Len(s2) + Len(U64(s.paid))
    BY <1>6, <1>13, ConcatLength, Zenon DEF s3
  <2>2. Len(s3) = 3 + 6 * Word
    BY <1>1, <1>6, <1>13, <2>1
  <2> QED
    BY <2>1, <2>2
<1>15. s4 \in Seq(Cell) /\ Len(s4) = 3 + 7 * Word
  <2>1. s4 \in Seq(Cell) /\ Len(s4) = Len(s3) + Len(U32(s.count))
    BY <1>6, <1>14, ConcatLength, Zenon DEF s4
  <2>2. Len(s4) = 3 + 7 * Word
    BY <1>1, <1>6, <1>14, <2>1
  <2> QED
    BY <2>1, <2>2
<1>16. s5 \in Seq(Cell) /\ Len(s5) = o
  <2>1. s5 \in Seq(Cell) /\ Len(s5) = Len(s4) + Len(<<Flag(s.active)>>)
    BY <1>7, <1>15, ConcatLength, Zenon DEF s5
  <2>2. Len(s5) = o
    BY <1>1, <1>7, <1>15, <2>1
  <2> QED
    BY <2>1, <2>2
<1>17. b \in Seq(Cell) /\ Len(b) = o + Len(tail)
  <2>1. b \in Seq(Cell) /\ Len(b) = Len(s5) + Len(tail)
    BY <1>11, <1>16, ConcatLength, Zenon DEF b
  <2> QED
    BY <1>16, <2>1
<1>18. Holds(b, 0, b)
  BY DEF Holds
<1>19. Holds(b, 0, s5) /\ Holds(b, o, tail)
  <2>1. Holds(b, 0, s5) /\ Holds(b, 0 + Len(s5), tail)
    BY <1>11, <1>16, <1>18, HoldsSplit DEF b
  <2> QED
    BY <1>1, <1>16, <2>1
<1>20. Holds(b, 0, s4) /\ Holds(b, 3 + 7 * Word, <<Flag(s.active)>>)
  <2>1. Holds(b, 0, s4) /\ Holds(b, 0 + Len(s4), <<Flag(s.active)>>)
    BY <1>7, <1>15, <1>19, HoldsSplit DEF s5
  <2> QED
    BY <1>1, <1>15, <2>1
<1>21. Holds(b, 0, s3) /\ Holds(b, 3 + 6 * Word, U32(s.count))
  <2>1. Holds(b, 0, s3) /\ Holds(b, 0 + Len(s3), U32(s.count))
    BY <1>6, <1>14, <1>20, HoldsSplit DEF s4
  <2> QED
    BY <1>1, <1>14, <2>1
<1>22. Holds(b, 0, s2) /\ Holds(b, 3 + 4 * Word, U64(s.paid))
  <2>1. Holds(b, 0, s2) /\ Holds(b, 0 + Len(s2), U64(s.paid))
    BY <1>6, <1>13, <1>21, HoldsSplit DEF s3
  <2> QED
    BY <1>1, <1>13, <2>1
<1>23. Holds(b, 0, s1) /\ Holds(b, 3 + 2 * Word, U64(s.count))
  <2>1. Holds(b, 0, s1) /\ Holds(b, 0 + Len(s1), U64(s.count))
    BY <1>6, <1>12, <1>22, HoldsSplit DEF s2
  <2> QED
    BY <1>1, <1>12, <2>1
<1>24. Holds(b, 0, s0) /\ Holds(b, 3, U64(Fee))
  <2>1. Holds(b, 0, s0) /\ Holds(b, 0 + Len(s0), U64(Fee))
    BY <1>5, <1>6, <1>23, HoldsSplit DEF s1
  <2> QED
    BY <1>5, <2>1
<1>25. SubSeq(b, 1, 3) = s0
  <2>1. SubSeq(b, 0 + 1, 0 + Len(s0)) = s0
    BY <1>5, <1>24, HeldSubSeq
  <2> QED
    BY <1>5, <2>1
<1>26. N64(b, 3) = Fee
  BY <1>1, <1>4, <1>24, HeldNumber DEF N64, U64
<1>27. N64(b, 3 + 2 * Word) = s.count
  <2>1. 3 + 2 * Word \in Nat
    BY <1>1
  <2> QED
    BY <1>1, <1>2, <1>4, <1>23, <2>1, HeldNumber DEF N64, U64
<1>28. N64(b, 3 + 4 * Word) = s.paid
  <2>1. 3 + 4 * Word \in Nat
    BY <1>1
  <2> QED
    BY <1>1, <1>2, <1>4, <1>22, <2>1, HeldNumber DEF N64, U64
<1>29. N32(b, 3 + 6 * Word) = s.count
  <2>1. 3 + 6 * Word \in Nat
    BY <1>1
  <2> QED
    BY <1>1, <1>2, <1>4, <1>21, <2>1, HeldNumber DEF N32, U32
<1>30. (b[o] = 1) = s.active
  <2>1. b[(3 + 7 * Word) + 1] = <<Flag(s.active)>>[1]
    BY <1>7, <1>20 DEF Holds
  <2>2. (3 + 7 * Word) + 1 = o
    BY <1>1
  <2>3. b[o] = Flag(s.active)
    BY <2>1, <2>2
  <2>4. (Flag(s.active) = 1) = s.active
    BY <1>2 DEF Flag
  <2> QED
    BY <2>3, <2>4
<1>31. ReadTail(b, o) = [token |-> s.token, bump |-> IF s.legacy THEN 0 ELSE Bump]
  <2>1. CASE s.legacy
    <3>1. Len(b) = o + 1 /\ s.token = <<>>
      BY <1>2, <1>11, <1>17, <2>1
    <3>2. ReadTail(b, o) = [token |-> <<>>, bump |-> 0]
      BY <1>1, <3>1, LegacyTailRead
    <3> QED
      BY <2>1, <3>1, <3>2
  <2>2. CASE ~s.legacy
    <3>1. tail = t1 \o padding
      BY <2>2 DEF tail
    <3>2. Holds(b, o, t1)
      BY <1>1, <1>8, <1>10, <1>19, <3>1, HoldsSplit
    <3>3. Holds(b, o, Text(s.token)) /\ Holds(b, o + (Word + Len(s.token)), <<Bump>>)
      <4>1. Holds(b, o, Text(s.token)) /\ Holds(b, o + Len(Text(s.token)), <<Bump>>)
        BY <1>1, <1>7, <1>9, <3>2, HoldsSplit DEF t1
      <4> QED
        BY <1>9, <4>1
    <3>4. b[(o + (Word + Len(s.token))) + 1] = Bump
      <4>1. b[(o + (Word + Len(s.token))) + 1] = <<Bump>>[1]
        BY <1>7, <3>3 DEF Holds
      <4> QED
        BY <4>1
    <3>5. Len(b) \in Nat /\ Len(b) >= o + (Word + Len(s.token)) + 1
      <4>1. Len(tail) \in Nat /\ Len(tail) >= (Word + Len(s.token)) + 1
        BY <1>11, <2>2
      <4> HIDE DEF o
      <4> QED
        BY <1>1, <1>3, <1>17, <4>1
    <3>6. ReadTail(b, o) = [token |-> s.token, bump |-> Bump]
      BY <1>1, <1>3, <1>4, <3>3, <3>4, <3>5, TailRead
    <3> QED
      BY <2>2, <3>6
  <2> QED
    BY <1>2, <2>1, <2>2
<1>32. SubscriptionBytes(w) = b
  BY DEF SubscriptionBytes, b, s5, s4, s3, s2, s1, s0, s, tail, t1, padding
<1>33. ReadSubscription(b) =
         [keys |-> s0, fee |-> Fee, last |-> s.count, paid |-> s.paid,
          count |-> s.count, active |-> s.active,
          tail |-> [token |-> s.token, bump |-> IF s.legacy THEN 0 ELSE Bump]]
  BY <1>25, <1>26, <1>27, <1>28, <1>29, <1>30, <1>31 DEF ReadSubscription
<1> QED
  BY <1>32, <1>33 DEF s, s0

LEMMA CountsInit == Init => Counts
<1> SUFFICES ASSUME Init PROVE Counts
  OBVIOUS
<1>1. Len(log) = 0 /\ MaxTx \in Nat
  BY MirrorAssumption DEF Init
<1>2. ASSUME NEW w \in Wallets, subscription[w] # None
      PROVE  /\ subscription[w].count <= Len(log)
             /\ subscription[w].paid = Fee * subscription[w].count
             /\ subscription[w].legacy => subscription[w].token = <<>>
  <2>1. subscription[w] = SubscriptionAccount(TRUE, <<>>, 0, 0, TRUE)
    BY <1>2 DEF Init
  <2> QED
    BY <1>1, <2>1, Sizes DEF SubscriptionAccount
<1> QED
  BY <1>1, <1>2 DEF Counts

\* Only a payment changes the numbers of a subscription, and it is a transaction.
LEMMA ProgramKeepsCounts ==
  ASSUME IInv, Counts, NEW w \in Wallets, Program(w)
  PROVE  Counts'
<1>1. /\ log \in Seq(Transaction) /\ Len(log) \in Nat
      /\ subscription \in [Wallets -> Subscription \union {None}]
  BY DEF IInv, LogOK, AccountsOK
<1>2. Len(log') = Len(log) + 1 /\ Len(log) < MaxTx
  <2>1. \E kind, n : Emit(kind, w, n)
    BY DEF Program, CreateWallet, MoveTokens, Subscribe, Cancel, Pay, IssueShares,
       RedeemShares, DisableYield
  <2> QED
    BY <1>1, <2>1 DEF Emit
<1>3. Len(log') <= MaxTx
  BY <1>1, <1>2, MirrorAssumption
<1> DEFINE Counted(s) == /\ s.count <= Len(log')
                         /\ s.paid = Fee * s.count
                         /\ s.legacy => s.token = <<>>
<1>4. ASSUME NEW v \in Wallets, subscription[v] # None
      PROVE  /\ subscription[v].count \in Nat
             /\ Counted(subscription[v])
  <2>1. subscription[v] \in Subscription
    BY <1>1, <1>4
  <2>2. subscription[v].count \in Nat
    BY <2>1 DEF Subscription
  <2>3. subscription[v].count <= Len(log)
    BY <1>4 DEF Counts
  <2>4. subscription[v].count <= Len(log')
    BY <1>1, <1>2, <2>2, <2>3
  <2> QED
    BY <1>4, <2>2, <2>4 DEF Counts
<1>5. ASSUME NEW v \in Wallets, subscription'[v] # None
      PROVE  Counted(subscription'[v])
  <2>1. CASE UNCHANGED subscription
    BY <1>4, <1>5, <2>1
  <2>2. ASSUME NEW token \in Tokens, Subscribe(w, token)
        PROVE  Counted(subscription'[v])
    <3>1. CASE v = w
      <4>1. subscription'[v] = SubscriptionAccount(FALSE, token, 0, 0, TRUE)
        BY <1>1, <2>2, <3>1 DEF Subscribe
      <4>2. 0 = Fee * 0 /\ 0 <= Len(log')
        BY <1>1, <1>2, Sizes
      <4> QED
        BY <4>1, <4>2 DEF SubscriptionAccount
    <3>2. CASE v # w
      <4>1. subscription'[v] = subscription[v]
        BY <1>1, <2>2, <3>2 DEF Subscribe
      <4> QED
        BY <1>4, <1>5, <4>1
    <3> QED
      BY <3>1, <3>2
  <2>3. CASE Cancel(w)
    <3>1. CASE v = w
      <4>1. PICK s : s = subscription[w]
        OBVIOUS
      <4>2. subscription'[v] = SubscriptionAccount(s.legacy, s.token, s.paid, s.count, FALSE)
        BY <1>1, <2>3, <3>1, <4>1 DEF Cancel
      <4>3. Counted(s)
        BY <1>4, <2>3, <4>1 DEF Cancel, Subscribed
      <4> QED
        BY <4>2, <4>3 DEF SubscriptionAccount
    <3>2. CASE v # w
      <4>1. subscription'[v] = subscription[v]
        BY <1>1, <2>3, <3>2 DEF Cancel
      <4> QED
        BY <1>4, <1>5, <4>1
    <3> QED
      BY <3>1, <3>2
  <2>4. CASE Pay(w)
    <3>1. CASE v = w
      <4>1. PICK s : s = subscription[w]
        OBVIOUS
      <4>2. subscription'[v] =
              SubscriptionAccount(s.legacy, s.token, s.paid + Fee, s.count + 1, TRUE)
        BY <1>1, <2>4, <3>1, <4>1 DEF Pay
      <4>3. s.count \in Nat /\ s.count <= Len(log) /\ Counted(s)
        BY <1>4, <2>4, <4>1 DEF Pay, Subscribed, Counts
      <4>4. s.paid + Fee = Fee * (s.count + 1) /\ s.count + 1 <= Len(log')
        BY <1>1, <1>2, <4>3, Sizes
      <4> QED
        BY <4>2, <4>3, <4>4 DEF SubscriptionAccount
    <3>2. CASE v # w
      <4>1. subscription'[v] = subscription[v]
        BY <1>1, <2>4, <3>2 DEF Pay
      <4> QED
        BY <1>4, <1>5, <4>1
    <3> QED
      BY <3>1, <3>2
  <2> QED
    BY <2>1, <2>2, <2>3, <2>4 DEF Program, CreateWallet, MoveTokens, IssueShares,
       RedeemShares, DisableYield
<1> QED
  BY <1>3, <1>5 DEF Counts

LEMMA ServerKeepsCounts ==
  ASSUME Counts, UNCHANGED chainVars
  PROVE  Counts'
BY DEF Counts, chainVars

LEMMA CountsKept == IInv /\ Counts /\ [Next]_vars => (IInv /\ Counts)'
<1> SUFFICES ASSUME IInv, Counts, [Next]_vars PROVE Counts'
  BY StepPreserves
<1>1. CASE UNCHANGED vars
  BY <1>1, ServerKeepsCounts DEF vars, chainVars
<1>2. ASSUME NEW h \in Slots, Handling(h) PROVE Counts'
  <2>1. UNCHANGED chainVars
    BY <1>2 DEF Handling, StartHandler, HandlerStep, HandlerError, HandleCreated,
       HandleSubscribed, HandleCancelled, ReadSpent, WriteSpent, HandleYieldDisabled,
       HandleYieldDeposit, ReadShares, WriteShares, RecordTransaction, Running
  <2> QED
    BY <2>1, ServerKeepsCounts
<1>3. CASE SyncStep \/ SyncError \/ Crash
  <2>1. UNCHANGED chainVars
    BY <1>3 DEF SyncStep, SyncFetch, SyncWallet, SyncSubscriptions, SyncEnd, SyncError,
       Crash
  <2> QED
    BY <2>1, ServerKeepsCounts
<1> QED
  BY <1>1, <1>2, <1>3, ProgramKeepsCounts DEF Next

\* decodeSubscriptionState gives back every subscription account that the program
\* can store, after any history, and of a legacy one, which has no token, all but
\* the bump (solana.service.ts, decodeSubscriptionState).
THEOREM SubscriptionsAreRead ==
  ASSUME NumbersFit
  PROVE  Spec => []SubscriptionRead
<1>1. IInv /\ Counts => SubscriptionRead
  <2> SUFFICES ASSUME IInv, Counts, NEW w \in Wallets, subscription[w] # None
               PROVE  ReadSubscription(SubscriptionBytes(w)) =
                        [keys |-> <<OwnerOf[w], w, MintOf[w]>>, fee |-> Fee,
                         last |-> subscription[w].count, paid |-> subscription[w].paid,
                         count |-> subscription[w].count,
                         active |-> subscription[w].active,
                         tail |-> [token |-> subscription[w].token,
                                   bump |-> IF subscription[w].legacy THEN 0 ELSE Bump]]
    BY DEF SubscriptionRead
  <2>1. subscription[w] \in Subscription
    BY DEF IInv, AccountsOK
  <2>2. Len(log) \in Nat
    BY DEF IInv, LogOK
  <2> QED
    BY <2>1, <2>2, SubscriptionDecodes
<1> QED
  BY <1>1, InitHolds, CountsInit, CountsKept, PTL DEF Spec

================================================================================
