------------------------- MODULE CreditGrantsProofs -------------------------
(***************************************************************************)
(* What holds of the credit-grant ledger for any finite sets of accounts,  *)
(* grants, holds and transactions and any bounds: its types, that running  *)
(* accounts are the sums of the lineage rows, that it implements the pots  *)
(* of CreditPots, that expired credit stays put, what reversals restore,   *)
(* that holds and grants agree, and that history stands.  The laws of sums *)
(* come first.                                                             *)
(***************************************************************************)
EXTENDS CreditGrants, FunctionTheorems, FiniteSetTheorems, TLAPS

-----------------------------------------------------------------------------
(* The laws of sums.  None needs an induction over the rows: each relates  *)
(* sets of units.                                                          *)

\* Membership in the units of f.
LEMMA UnitsDef ==
  ASSUME NEW S, NEW f \in [S -> Nat]
  PROVE  \A u : u \in Units(f) <=> \E x \in S : \E i \in 1..f[x] : u = <<x, i>>
BY DEF Units

\* Finitely many rows hold finitely many units.
LEMMA UnitsFinite ==
  ASSUME NEW S, IsFiniteSet(S), NEW f \in [S -> Nat]
  PROVE  IsFiniteSet(Units(f))
<1> DEFINE Row(x) == {x} \X (1..f[x])
           row    == [x \in S |-> Row(x)]
           rows   == {Row(x) : x \in S}
<1>1. row \in Surjection(S, rows)
  BY DEF Surjection
<1>2. IsFiniteSet(rows)
  BY <1>1, FS_Surjection
<1>3. \A T \in rows : IsFiniteSet(T)
  <2> SUFFICES ASSUME NEW x \in S PROVE IsFiniteSet(Row(x))
    OBVIOUS
  <2>1. f[x] \in Int /\ 1 \in Int
    OBVIOUS
  <2>2. IsFiniteSet({x})
    BY FS_Singleton
  <2>3. IsFiniteSet(1..f[x])
    BY <2>1, FS_Interval
  <2> QED
    BY <2>2, <2>3, FS_Product
<1>4. IsFiniteSet(UNION rows)
  BY <1>2, <1>3, FS_UNION
<1> QED
  BY <1>4 DEF Units

\* A sum of naturals is a natural.
LEMMA TallyNat ==
  ASSUME NEW S, IsFiniteSet(S), NEW f \in [S -> Nat]
  PROVE  Tally(f) \in Nat
BY UnitsFinite, FS_CardinalityType DEF Tally

\* The units of one row.
LEMMA RowUnits ==
  ASSUME NEW x, NEW n \in Nat
  PROVE  IsFiniteSet({x} \X (1..n)) /\ Cardinality({x} \X (1..n)) = n
<1>1. IsFiniteSet({x}) /\ Cardinality({x}) = 1
  BY FS_Singleton
<1>2. IsFiniteSet(1..n) /\ Cardinality(1..n) = n
  BY FS_Interval
<1>3. IsFiniteSet({x} \X (1..n))
      /\ Cardinality({x} \X (1..n)) = Cardinality({x}) * Cardinality(1..n)
  BY <1>1, <1>2, FS_Product
<1> QED
  BY <1>1, <1>2, <1>3

\* No rows with units: the sum is 0, as coalesce makes it.
LEMMA TallyZero ==
  ASSUME NEW S, NEW f \in [S -> Nat], \A x \in S : f[x] = 0
  PROVE  Tally(f) = 0
<1>1. Units(f) = {}
  BY UnitsDef
<1> QED
  BY <1>1, FS_EmptySet DEF Tally

\* The units of the rows other than x.
Others(f, x) == Units(f) \ ({x} \X (1..f[x]))

\* The rows other than x, and x itself, make up the sum.
LEMMA TallySplit ==
  ASSUME NEW S, IsFiniteSet(S), NEW f \in [S -> Nat], NEW x \in S
  PROVE  /\ Cardinality(Others(f, x)) \in Nat
         /\ Tally(f) = Cardinality(Others(f, x)) + f[x]
<1> DEFINE Own == {x} \X (1..f[x])
<1>1. Units(f) \cap Own = Own
  BY UnitsDef
<1>2. IsFiniteSet(Units(f))
  BY UnitsFinite
<1>3. IsFiniteSet(Units(f) \ Own)
      /\ Cardinality(Units(f) \ Own) = Cardinality(Units(f)) - Cardinality(Units(f) \cap Own)
  BY <1>2, FS_Difference
<1>4. Cardinality(Own) = f[x] /\ f[x] \in Nat
  BY RowUnits
<1>5. Cardinality(Units(f) \ Own) \in Nat /\ Cardinality(Units(f)) \in Nat
  BY <1>2, <1>3, FS_CardinalityType
<1> HIDE DEF Own
<1>6. Cardinality(Units(f)) = Cardinality(Units(f) \ Own) + f[x]
  BY <1>1, <1>3, <1>4, <1>5
<1> QED
  BY <1>5, <1>6 DEF Tally, Others, Own

\* Changing one row changes the sum by the change of the row.
THEOREM TallyUpdate ==
  ASSUME NEW S, IsFiniteSet(S), NEW f \in [S -> Nat], NEW g \in [S -> Nat],
         NEW x \in S, \A y \in S \ {x} : g[y] = f[y]
  PROVE  Tally(g) + f[x] = Tally(f) + g[x]
<1>1. ASSUME NEW h \in [S -> Nat]
      PROVE  \A u : u \in Others(h, x) <=> \E y \in S \ {x} : \E i \in 1..h[y] : u = <<y, i>>
  BY UnitsDef DEF Others
<1>2. Others(f, x) = Others(g, x)
  BY <1>1
<1>3. Cardinality(Others(f, x)) \in Nat /\ Tally(f) = Cardinality(Others(f, x)) + f[x]
  BY TallySplit
<1>4. Tally(g) = Cardinality(Others(g, x)) + g[x]
  BY TallySplit
<1> QED
  BY <1>2, <1>3, <1>4

\* One row is at most the sum.
LEMMA TallyRow ==
  ASSUME NEW S, IsFiniteSet(S), NEW f \in [S -> Nat], NEW x \in S
  PROVE  f[x] <= Tally(f)
<1>1. Cardinality(Others(f, x)) \in Nat /\ Tally(f) = Cardinality(Others(f, x)) + f[x]
  BY TallySplit
<1> QED
  BY <1>1

\* Equal rows have equal sums.
LEMMA TallyEqual ==
  ASSUME NEW S, NEW f \in [S -> Nat], NEW g \in [S -> Nat], \A x \in S : f[x] = g[x]
  PROVE  Tally(f) = Tally(g)
<1>1. f = g
  OBVIOUS
<1> QED
  BY <1>1

\* The sum of one non-zero row is that row.
LEMMA TallySingle ==
  ASSUME NEW S, IsFiniteSet(S), NEW f \in [S -> Nat], NEW x \in S,
         \A y \in S \ {x} : f[y] = 0
  PROVE  Tally(f) = f[x]
<1> DEFINE zero == [y \in S |-> 0]
<1>1. zero \in [S -> Nat] /\ zero[x] = 0 /\ \A y \in S \ {x} : f[y] = zero[y]
  OBVIOUS
<1>2. Tally(zero) = 0
  BY TallyZero
<1>3. Tally(f) + zero[x] = Tally(zero) + f[x]
  BY <1>1, TallyUpdate
<1>4. Tally(f) \in Nat
  BY TallyNat
<1> QED
  BY <1>1, <1>2, <1>3, <1>4

\* Rows that are pointwise at most those of g, with the same sum, are those of g.
THEOREM TallyPointwise ==
  ASSUME NEW S, IsFiniteSet(S), NEW f \in [S -> Nat], NEW g \in [S -> Nat],
         \A x \in S : f[x] <= g[x]
  PROVE  /\ Tally(f) <= Tally(g)
         /\ Tally(f) = Tally(g) => \A x \in S : f[x] = g[x]
<1>1. Units(f) \subseteq Units(g)
  BY UnitsDef
<1>2. IsFiniteSet(Units(g)) /\ Units(f) \in SUBSET Units(g)
  BY <1>1, UnitsFinite
<1>3. Tally(f) <= Tally(g) /\ (Tally(f) = Tally(g) => Units(g) = Units(f))
  BY <1>2, FS_Subset DEF Tally
<1>4. ASSUME Units(g) = Units(f), NEW x \in S PROVE f[x] = g[x]
  <2>1. CASE f[x] < g[x]
    <3>1. <<x, g[x]>> \in Units(g)
      BY <2>1, UnitsDef
    <3>2. <<x, g[x]>> \notin Units(f)
      BY <2>1, UnitsDef
    <3> QED
      BY <3>1, <3>2, <1>4
  <2> QED
    BY <2>1
<1> QED
  BY <1>3, <1>4

\* The sum of the row-wise sums is the sum of the sums: the units of g, moved
\* past those of f row by row, and the units of f make up the units of h.
THEOREM TallyAdd ==
  ASSUME NEW S, IsFiniteSet(S), NEW f \in [S -> Nat], NEW g \in [S -> Nat],
         NEW h \in [S -> Nat], \A x \in S : h[x] = f[x] + g[x]
  PROVE  Tally(h) = Tally(f) + Tally(g)
<1> DEFINE Shifted == Units(h) \ Units(f)
           move  == [u \in Units(g) |-> <<u[1], f[u[1]] + u[2]>>]
<1>1. Units(f) \subseteq Units(h)
  <2> SUFFICES ASSUME NEW x \in S, NEW i \in 1..f[x] PROVE <<x, i>> \in Units(h)
    BY UnitsDef
  <2>1. i \in 1..h[x]
    OBVIOUS
  <2> QED
    BY <2>1, UnitsDef
<1>2. \A u \in Units(g) : move[u] \in Shifted
  <2> SUFFICES ASSUME NEW x \in S, NEW i \in 1..g[x] PROVE <<x, f[x] + i>> \in Shifted
    BY UnitsDef
  <2>1. f[x] + i \in 1..h[x] /\ f[x] + i \notin 1..f[x]
    OBVIOUS
  <2>2. <<x, f[x] + i>> \in Units(h)
    BY <2>1, UnitsDef
  <2>3. <<x, f[x] + i>> \notin Units(f)
    BY <2>1, UnitsDef
  <2> QED
    BY <2>2, <2>3
<1>3. ASSUME NEW v \in Shifted PROVE \E u \in Units(g) : move[u] = v
  <2>1. PICK x \in S : \E j \in 1..h[x] : v = <<x, j>>
    BY UnitsDef
  <2>2. PICK j \in 1..h[x] : v = <<x, j>>
    BY <2>1
  <2>3. j \notin 1..f[x]
    BY <2>2, UnitsDef
  <2>4. j - f[x] \in 1..g[x] /\ f[x] + (j - f[x]) = j
    BY <2>3
  <2>5. <<x, j - f[x]>> \in Units(g)
    BY <2>4, UnitsDef
  <2> QED
    BY <2>2, <2>4, <2>5
<1>4. ASSUME NEW u \in Units(g), NEW v \in Units(g), move[u] = move[v] PROVE u = v
  <2>1. PICK x \in S : \E i \in 1..g[x] : u = <<x, i>>
    BY UnitsDef
  <2>2. PICK i \in 1..g[x] : u = <<x, i>>
    BY <2>1
  <2>3. PICK y \in S : \E j \in 1..g[y] : v = <<y, j>>
    BY UnitsDef
  <2>4. PICK j \in 1..g[y] : v = <<y, j>>
    BY <2>3
  <2>5. x = y /\ f[x] + i = f[x] + j
    BY <1>4, <2>2, <2>4
  <2> QED
    BY <2>2, <2>4, <2>5
<1>5. move \in Bijection(Units(g), Shifted)
  BY <1>2, <1>3, <1>4 DEF Bijection, Injection, Surjection, IsInjective
<1>6. IsFiniteSet(Units(f)) /\ IsFiniteSet(Units(g)) /\ IsFiniteSet(Units(h))
  BY UnitsFinite
<1>7. Cardinality(Shifted) = Cardinality(Units(g))
  BY <1>5, <1>6, FS_Bijection DEF ExistsBijection
<1>8. Units(h) \cap Units(f) = Units(f)
  BY <1>1
<1>9. Cardinality(Units(h) \ Units(f)) = Cardinality(Units(h)) - Cardinality(Units(h) \cap Units(f))
  BY <1>6, FS_Difference
<1>10. Cardinality(Units(h)) \in Nat /\ Cardinality(Units(f)) \in Nat
  BY <1>6, FS_CardinalityType
<1>11. Cardinality(Units(g)) = Cardinality(Units(h)) - Cardinality(Units(f))
  BY <1>7, <1>8, <1>9
<1> QED
  BY <1>10, <1>11 DEF Tally

\* Rows that agree two by two have sums that do.
LEMMA TallySwap ==
  ASSUME NEW S, IsFiniteSet(S), NEW f \in [S -> Nat], NEW g \in [S -> Nat],
         NEW p \in [S -> Nat], NEW q \in [S -> Nat], \A x \in S : g[x] + q[x] = f[x] + p[x]
  PROVE  Tally(g) + Tally(q) = Tally(f) + Tally(p)
<1> DEFINE both == [x \in S |-> f[x] + p[x]]
<1>1. both \in [S -> Nat] /\ \A x \in S : both[x] = f[x] + p[x] /\ both[x] = g[x] + q[x]
  OBVIOUS
<1> HIDE DEF both
<1>2. Tally(both) = Tally(f) + Tally(p)
  BY <1>1, TallyAdd
<1>3. Tally(both) = Tally(g) + Tally(q)
  BY <1>1, TallyAdd
<1> QED
  BY <1>2, <1>3

USE SetsAreFinite, AccountOfType, NoneIsNoId, BoundsAreNat

-----------------------------------------------------------------------------
(* Type correctness.                                                       *)

\* The types, and the CHECK constraints of the capacity versions.
TypeInv == TypeOK /\ ChecksPass

\* The grants of an account are finitely many.
LEMMA GrantsOfFinite ==
  ASSUME NEW a PROVE IsFiniteSet(GrantsOf(a)) /\ GrantsOf(a) \subseteq Grants
BY FS_Subset DEF GrantsOf

\* What is attributed to an account's entry is a number of minor units.
LEMMA AttributedNat ==
  ASSUME NEW part \in [Grants -> Nat], NEW a PROVE Attributed(part, a) \in Nat
<1>1. [g \in GrantsOf(a) |-> part[g]] \in [GrantsOf(a) -> Nat]
  BY GrantsOfFinite
<1> QED
  BY <1>1, GrantsOfFinite, TallyNat DEF Attributed

\* The entries that rows attribute, and the rows of one grant.
LEMMA EntriesNat ==
  ASSUME NEW part \in [Grants -> Nat] PROVE Entries(part) \in [Accounts -> Nat] /\ Tally(Entries(part)) \in Nat
BY AttributedNat, TallyNat DEF Entries

LEMMA OnlyNat ==
  ASSUME NEW g \in Grants, NEW n \in Nat
  PROVE  Only(g, n) \in [Grants -> Nat] /\ \A k \in Grants : Only(g, n)[k] = IF k = g THEN n ELSE 0
BY DEF Only

\* Amounts within the bounds are numbers of minor units.
LEMMA Bounded ==
  /\ Parts \subseteq [Grants -> Nat]
  /\ \A g \in Grants : AmountOf[g] \in Nat /\ AmountOf[g] > 0
BY AmountOfType DEF Parts

\* What may be related to a posting, and the grants a reversal may sweep.
Relations == Txns \cup {None}
Paths     == Holds \cup {None}

Sweeps(start, part) == [{g \in Grants : Due(g, start) /\ part[g] > 0} -> Txns]

\* The actions of a step, over ids and amounts of which some were not eligible.
Steps ==
  \E start \in Time :
    \/ \E g \in Grants, t \in Txns, related \in Relations, e \in 1..NoExpiry : Issue(g, t, start, related, e)
    \/ \E t \in Txns, related \in Relations, part \in Parts : Consume(t, start, related, part)
    \/ \E t \in Txns, part \in Parts : Refund(t, start, part)
    \/ \E t \in Txns, h \in Paths, related \in Relations, part \in Parts : Expire(t, start, h, related, part)
    \/ \E g \in Grants, t \in Txns, h \in Paths : ReverseIssuance(g, t, start, h)
    \/ \E h \in Holds, alloc \in Parts : CreateHold(h, start, alloc)
    \/ \E t \in Txns, h \in Holds, related \in Relations, part \in Parts :
         CommitHold(t, start, h, related, part)
    \/ \E h \in Holds : VoidHold(h, start)
    \/ \E t \in Txns, r \in Txns, part \in Parts :
         \E sweep \in Sweeps(start, part) : Reverse(t, r, start, part, sweep)

LEMMA NextSteps == Next => Steps
<1>1. New \subseteq Txns /\ Related \subseteq Relations /\ Payable \subseteq Parts /\ Txns \ New \subseteq Txns
  BY DEF New, Related, Relations, Payable
<1>2. \A start, part : [{g \in Grants : Due(g, start) /\ part[g] > 0} -> New] \subseteq Sweeps(start, part)
  BY <1>1 DEF Sweeps
<1> SUFFICES ASSUME Next PROVE Steps
  OBVIOUS
<1> PICK start \in Time :
    \/ \E g \in Grants, t \in New, related \in Related, e \in 1..NoExpiry : Issue(g, t, start, related, e)
    \/ \E t \in New, related \in Related, part \in Payable : Consume(t, start, related, part)
    \/ \E t \in New, part \in Payable : Refund(t, start, part)
    \/ \E t \in New, h \in Holds \cup {None}, related \in Related, part \in Payable :
         Expire(t, start, h, related, part)
    \/ \E g \in Grants, t \in New, h \in Holds \cup {None} : ReverseIssuance(g, t, start, h)
    \/ \E h \in Holds, alloc \in Payable : CreateHold(h, start, alloc)
    \/ \E t \in New, h \in Holds, related \in Related, part \in Payable :
         CommitHold(t, start, h, related, part)
    \/ \E h \in Holds : VoidHold(h, start)
    \/ \E t \in Txns \ New, r \in New, part \in Parts :
         \E sweep \in [{g \in Grants : Due(g, start) /\ part[g] > 0} -> New] : Reverse(t, r, start, part, sweep)
  BY Zenon DEF Next
<1>3. CASE \E t \in Txns \ New, r \in New, part \in Parts :
         \E sweep \in [{g \in Grants : Due(g, start) /\ part[g] > 0} -> New] : Reverse(t, r, start, part, sweep)
  <2>1. \E t \in Txns, r \in Txns, part \in Parts :
          \E sweep \in Sweeps(start, part) : Reverse(t, r, start, part, sweep)
    BY <1>1, <1>2, <1>3
  <2> QED
    BY <2>1 DEF Steps
<1> QED
  BY <1>1, <1>3 DEF Steps, Paths

\* A version whose fields are integers and that passes the CHECK constraints is a row.
LEMMA CheckedRow ==
  ASSUME NEW c \in [granted : Int, reversed : Int, consumed : Int, compensated : Int,
                    expired : Int, remaining : Int, reserved : Int],
         VersionChecks(c)
  PROVE  c \in CapacityRow
BY DEF VersionChecks, CapacityRow

\* Appending a lineage row to a version keeps its fields integers.
LEMMA AppendedInts ==
  ASSUME NEW c \in [granted : Int, reversed : Int, consumed : Int, compensated : Int,
                    expired : Int, remaining : Int, reserved : Int],
         NEW kind \in Kinds, NEW n \in Int, NEW b \in BOOLEAN
  PROVE  Appended(c, kind, n, b) \in
           [granted : Int, reversed : Int, consumed : Int, compensated : Int,
            expired : Int, remaining : Int, reserved : Int]
BY DEF Appended

\* The rows of one transaction leave well-typed versions.
LEMMA AppendRowsType ==
  ASSUME TypeInv, NEW kind \in Kinds, NEW part \in [Grants -> Nat], NEW b \in BOOLEAN,
         AppendRows(kind, part, b), ChecksPass'
  PROVE  capacity' \in [Grants -> CapacityRow]
<1> SUFFICES ASSUME NEW g \in Grants
             PROVE  capacity'[g] \in CapacityRow
  BY DEF AppendRows
<1>1. capacity[g] \in [granted : Int, reversed : Int, consumed : Int, compensated : Int,
                       expired : Int, remaining : Int, reserved : Int]
  BY DEF TypeInv, TypeOK, CapacityRow
<1>2. Appended(capacity[g], kind, part[g], b) \in
        [granted : Int, reversed : Int, consumed : Int, compensated : Int,
         expired : Int, remaining : Int, reserved : Int]
  BY <1>1, AppendedInts
<1>3. VersionChecks(capacity'[g])
  BY DEF ChecksPass
<1>4. capacity'[g] = Appended(capacity[g], kind, part[g], b)
  BY DEF AppendRows
<1> QED
  BY <1>1, <1>2, <1>3, <1>4, CheckedRow

\* What a posting writes, whatever posts it.
Written(t, start, kind, h, related, part) ==
  /\ posting[t] = Unposted
  /\ posting'[t] = [kind |-> kind, hold |-> h, related |-> related, entry |-> Entries(part), part |-> part]
  /\ \A u \in Txns \ {t} : posting'[u] = posting[u]
  /\ Mirrors(kind, Entries(part), related)
  /\ AppendRows(kind, part, h # None) /\ ChecksPass'
  /\ \A a \in Accounts : balance'[a] = IF kind \in Credits THEN balance[a] + Entries(part)[a]
                                       ELSE balance[a] - Entries(part)[a]
  /\ began' = start

LEMMA PostFacts ==
  ASSUME TypeInv, NEW t \in Txns, NEW start, NEW kind \in Kinds, NEW h \in Paths,
         NEW related \in Relations, NEW part \in [Grants -> Nat], Post(t, start, kind, h, related, part)
  PROVE  Written(t, start, kind, h, related, part)
<1>1. posting \in [Txns -> PostingRow]
  BY DEF TypeInv, TypeOK
<1> QED
  BY <1>1, Zenon DEF Post, Written

\* A posting leaves well-typed rows.
LEMMA PostType ==
  ASSUME TypeInv, NEW t \in Txns, NEW start \in Time, NEW kind \in Kinds, NEW h \in Paths,
         NEW related \in Relations, NEW part \in [Grants -> Nat], Post(t, start, kind, h, related, part)
  PROVE  /\ posting' \in [Txns -> PostingRow] /\ capacity' \in [Grants -> CapacityRow] /\ ChecksPass'
         /\ balance' \in [Accounts -> Int] /\ began' \in Time
<1>1. Entries(part) \in [Accounts -> Nat]
  BY EntriesNat
<1>2. [kind |-> kind, hold |-> h, related |-> related, entry |-> Entries(part), part |-> part] \in PostingRow
  BY <1>1 DEF PostingRow, Relations, Paths
<1>3. posting' \in [Txns -> PostingRow]
  BY <1>2 DEF Post, TypeInv, TypeOK
<1>4. capacity' \in [Grants -> CapacityRow] /\ ChecksPass'
  <2>1. AppendRows(kind, part, h # None) /\ ChecksPass' /\ (h # None) \in BOOLEAN
    BY DEF Post
  <2> QED
    BY <2>1, AppendRowsType
<1>5. balance' \in [Accounts -> Int]
  BY <1>1 DEF Post, TypeInv, TypeOK
<1> QED
  BY <1>3, <1>4, <1>5 DEF Post

\* A hold that something is posted through keeps the type of its row.
LEMMA PostThroughType ==
  ASSUME TypeInv, NEW h \in Paths, NEW part \in [Grants -> Nat], PostThrough(h, part)
  PROVE  hold' \in [Holds -> HoldRow]
<1> DEFINE left == hold[h].remaining - Tally(Entries(part))
<1>1. CASE hold' = hold
  BY <1>1 DEF TypeInv, TypeOK
<1>2. CASE /\ h \in Holds /\ left >= 0
           /\ hold' = [hold EXCEPT ![h] = Moved(@, IF left = 0 THEN "APPLIED" ELSE "HELD", left)]
  <2>1. left \in Nat
    BY <1>2, EntriesNat DEF TypeInv, TypeOK, HoldRow
  <2> HIDE DEF left
  <2>2. Moved(hold[h], IF left = 0 THEN "APPLIED" ELSE "HELD", left) \in HoldRow
    BY <1>2, <2>1 DEF TypeInv, TypeOK, HoldRow, Moved
  <2> QED
    BY <1>2, <2>2 DEF TypeInv, TypeOK
<1> QED
  BY <1>1, <1>2 DEF PostThrough, Paths

LEMMA InitType == Init => TypeInv
<1> SUFFICES ASSUME Init PROVE TypeInv
  OBVIOUS
<1>1. Unposted \in PostingRow
  BY DEF Unposted, PostingRow
<1>2. NoHold \in HoldRow
  BY DEF NoHold, HoldRow
<1>3. NoCapacity \in CapacityRow /\ VersionChecks(NoCapacity)
  BY DEF NoCapacity, CapacityRow, VersionChecks
<1>4. TypeOK
  BY <1>1, <1>2, <1>3 DEF Init, TypeOK, Time, NoExpiry
<1>5. ChecksPass
  BY <1>3 DEF Init, ChecksPass
<1> QED
  BY <1>4, <1>5 DEF TypeInv

\* The postings, as far as they are alike: transaction t posts part, and what depends on
\* the operation is which kind of rows they are, the hold they go through and the grant issued.
Posts(t, start, kind, h, related, part) ==
  /\ Post(t, start, kind, h, related, part)
  /\ \/ kind = "ISSUANCE" /\ h = None /\ \E g \in Grants, e \in 1..NoExpiry :
          /\ ~Issued(g) /\ e > start /\ part = Only(g, AmountOf[g])
          /\ issued_by' = [issued_by EXCEPT ![g] = t] /\ expires_at' = [expires_at EXCEPT ![g] = e]
     \/ /\ kind \in {"CONSUMPTION", "REFUND"} /\ h = None
        /\ Spendable(part, start)
        /\ UNCHANGED <<expires_at, issued_by>>
     \/ /\ kind = "CONSUMPTION" /\ h # None
        /\ hold[h].state = "HELD"
        /\ \A g \in Grants : part[g] > 0 =>
             /\ part[g] <= capacity[g].remaining
             /\ HoldConsumed(h, g) + part[g] <= hold[h].alloc[g]
             /\ part[g] <= capacity[g].reserved
        /\ UNCHANGED <<expires_at, issued_by>>
     \/ /\ kind = "EXPIRATION"
        /\ \A g \in Grants : part[g] > 0 =>
             Issued(g) /\ Due(g, start) /\ part[g] <= Unreserved(g) /\ Unreserved(g)' = 0
        /\ UNCHANGED <<expires_at, issued_by>>
     \/ /\ kind = "REVERSAL"
        /\ \E g \in Grants :
             /\ Issued(g) /\ related = issued_by[g] /\ part = Only(g, capacity[g].granted)
             /\ capacity[g].remaining = capacity[g].granted
             /\ capacity[g].reserved = 0 /\ capacity[g].consumed = 0 /\ capacity[g].expired = 0
        /\ UNCHANGED <<expires_at, issued_by>>
  /\ PostThrough(h, part)

Posting ==
  \E t \in Txns, start \in Time, kind \in Kinds \ {"COMPENSATION"}, h \in Paths, related \in Relations,
     part \in [Grants -> Nat] : Posts(t, start, kind, h, related, part)

\* Every action but a hold's creation, a void and a reversal is such a posting.
LEMMA StepCases ==
  ASSUME TypeInv, Steps
  PROVE  \/ Posting
         \/ \E start \in Time, h \in Holds, alloc \in Parts : CreateHold(h, start, alloc)
         \/ \E start \in Time, h \in Holds : VoidHold(h, start)
         \/ \E start \in Time, t \in Txns, r \in Txns, part \in Parts :
              \E sweep \in Sweeps(start, part) : Reverse(t, r, start, part, sweep)
<1> USE DEF Kinds
<1> PICK start \in Time :
    \/ \E g \in Grants, t \in Txns, related \in Relations, e \in 1..NoExpiry : Issue(g, t, start, related, e)
    \/ \E t \in Txns, related \in Relations, part \in Parts : Consume(t, start, related, part)
    \/ \E t \in Txns, part \in Parts : Refund(t, start, part)
    \/ \E t \in Txns, h \in Paths, related \in Relations, part \in Parts : Expire(t, start, h, related, part)
    \/ \E g \in Grants, t \in Txns, h \in Paths : ReverseIssuance(g, t, start, h)
    \/ \E h \in Holds, alloc \in Parts : CreateHold(h, start, alloc)
    \/ \E t \in Txns, h \in Holds, related \in Relations, part \in Parts :
         CommitHold(t, start, h, related, part)
    \/ \E h \in Holds : VoidHold(h, start)
    \/ \E t \in Txns, r \in Txns, part \in Parts :
         \E sweep \in Sweeps(start, part) : Reverse(t, r, start, part, sweep)
  BY Zenon DEF Steps
<1>1. ASSUME NEW t \in Txns, NEW kind \in Kinds \ {"COMPENSATION"}, NEW h \in Paths, NEW related \in Relations,
             NEW part \in [Grants -> Nat], Posts(t, start, kind, h, related, part)
      PROVE  Posting
  BY <1>1, Zenon DEF Posting
<1>2. None \in Relations /\ None \in Paths /\ None \notin Holds /\ Holds \subseteq Paths
  BY DEF Relations, Paths
<1>3. ASSUME NEW g \in Grants, NEW t \in Txns, NEW related \in Relations, NEW e \in 1..NoExpiry,
             Issue(g, t, start, related, e)
      PROVE  Posting
  <2>1. Only(g, AmountOf[g]) \in [Grants -> Nat]
    BY Bounded, OnlyNat
  <2>2. Posts(t, start, "ISSUANCE", None, related, Only(g, AmountOf[g]))
    BY <1>3, Zenon DEF Issue, Posts, PostThrough
  <2> QED
    BY <1>1, <1>2, <2>1, <2>2
<1>4. ASSUME NEW t \in Txns, NEW related \in Relations, NEW part \in Parts, Consume(t, start, related, part)
      PROVE  Posting
  <2>1. Posts(t, start, "CONSUMPTION", None, related, part)
    BY <1>4, Zenon DEF Consume, Posts, PostThrough
  <2> QED
    BY <1>1, <1>2, <2>1, Bounded
<1>5. ASSUME NEW t \in Txns, NEW part \in Parts, Refund(t, start, part)
      PROVE  Posting
  <2>1. Posts(t, start, "REFUND", None, None, part)
    BY <1>5, Zenon DEF Refund, Posts, PostThrough
  <2> QED
    BY <1>1, <1>2, <2>1, Bounded
<1>6. ASSUME NEW t \in Txns, NEW h \in Paths, NEW related \in Relations, NEW part \in Parts,
             Expire(t, start, h, related, part)
      PROVE  Posting
  <2>1. Posts(t, start, "EXPIRATION", h, related, part)
    BY <1>6 DEF Expire, Posts
  <2> QED
    BY <1>1, <2>1, Bounded
<1>7. ASSUME NEW g \in Grants, NEW t \in Txns, NEW h \in Paths, ReverseIssuance(g, t, start, h)
      PROVE  Posting
  <2>1. issued_by[g] \in Relations /\ Only(g, capacity[g].granted) \in [Grants -> Nat]
    BY OnlyNat DEF TypeInv, TypeOK, CapacityRow, Relations
  <2>2. Posts(t, start, "REVERSAL", h, issued_by[g], Only(g, capacity[g].granted))
    BY <1>7 DEF ReverseIssuance, Posts
  <2> QED
    BY <1>1, <2>1, <2>2
<1>8. ASSUME NEW t \in Txns, NEW h \in Holds, NEW related \in Relations, NEW part \in Parts,
             CommitHold(t, start, h, related, part)
      PROVE  Posting
  <2>1. Posts(t, start, "CONSUMPTION", h, related, part)
    BY <1>2, <1>8 DEF CommitHold, Posts
  <2> QED
    BY <1>1, <1>2, <2>1, Bounded
<1> QED
  BY <1>3, <1>4, <1>5, <1>6, <1>7, <1>8

LEMMA PostingType ==
  ASSUME TypeInv, NEW t \in Txns, NEW start \in Time, NEW kind \in Kinds, NEW h \in Paths,
         NEW related \in Relations, NEW part \in [Grants -> Nat], Posts(t, start, kind, h, related, part)
  PROVE  TypeInv'
<1>1. Post(t, start, kind, h, related, part) /\ PostThrough(h, part)
  BY DEF Posts
<1>2. /\ posting' \in [Txns -> PostingRow] /\ capacity' \in [Grants -> CapacityRow] /\ ChecksPass'
      /\ balance' \in [Accounts -> Int] /\ began' \in Time
  BY <1>1, PostType
<1>3. hold' \in [Holds -> HoldRow]
  BY <1>1, PostThroughType
<1>4. expires_at' \in [Grants -> 1..NoExpiry] /\ issued_by' \in [Grants -> Txns \cup {None}]
  <2>1. CASE UNCHANGED <<expires_at, issued_by>>
    BY <2>1 DEF TypeInv, TypeOK
  <2>2. CASE \E g \in Grants, e \in 1..NoExpiry :
               issued_by' = [issued_by EXCEPT ![g] = t] /\ expires_at' = [expires_at EXCEPT ![g] = e]
    BY <2>2 DEF TypeInv, TypeOK
  <2> QED
    BY <2>1, <2>2 DEF Posts
<1> QED
  BY <1>2, <1>3, <1>4 DEF TypeInv, TypeOK

\* What was consumed, and what was posted, through a hold.
LEMMA ThroughHoldNat ==
  ASSUME TypeInv, NEW h \in Holds
  PROVE  /\ \A g \in Grants : HoldConsumed(h, g) \in Nat
         /\ \A a \in Accounts : Committed(h, a) \in Nat
<1>1. ASSUME NEW g \in Grants PROVE HoldConsumed(h, g) \in Nat
  <2> DEFINE f == [t \in Txns |-> IF posting[t].kind = "CONSUMPTION" /\ posting[t].hold = h
                                    THEN posting[t].part[g] ELSE 0]
  <2>1. f \in [Txns -> Nat]
    BY DEF TypeInv, TypeOK, PostingRow
  <2> QED
    BY <2>1, TallyNat DEF HoldConsumed
<1>2. ASSUME NEW a \in Accounts PROVE Committed(h, a) \in Nat
  <2> DEFINE f == [t \in Txns |-> IF posting[t].hold = h THEN posting[t].entry[a] ELSE 0]
  <2>1. f \in [Txns -> Nat]
    BY DEF TypeInv, TypeOK, PostingRow
  <2> QED
    BY <2>1, TallyNat DEF Committed
<1> QED
  BY <1>1, <1>2

LEMMA CreateHoldType ==
  ASSUME TypeInv, NEW start \in Time, NEW h \in Holds, NEW alloc \in Parts, CreateHold(h, start, alloc)
  PROVE  TypeInv'
<1>1. alloc \in [Grants -> Nat] /\ Entries(alloc) \in [Accounts -> Nat] /\ Tally(Entries(alloc)) \in Nat
  BY Bounded, EntriesNat
<1>2. hold' \in [Holds -> HoldRow]
  BY <1>1 DEF CreateHold, TypeInv, TypeOK, HoldRow
<1>3. capacity' \in [Grants -> CapacityRow]
  BY <1>1 DEF CreateHold, TypeInv, TypeOK, CapacityRow, ChecksPass, VersionChecks, Reserving
<1> QED
  BY <1>2, <1>3 DEF TypeInv, TypeOK, CreateHold

LEMMA VoidHoldType ==
  ASSUME TypeInv, NEW start \in Time, NEW h \in Holds, VoidHold(h, start)
  PROVE  TypeInv'
<1>1. hold' \in [Holds -> HoldRow]
  BY DEF VoidHold, TypeInv, TypeOK, HoldRow, Moved
<1>2. capacity' \in [Grants -> CapacityRow]
  <2> SUFFICES ASSUME NEW g \in Grants PROVE capacity'[g] \in CapacityRow
    BY DEF VoidHold
  <2>1. HoldConsumed(h, g) \in Nat /\ hold[h].alloc[g] \in Nat
    BY ThroughHoldNat DEF TypeInv, TypeOK, HoldRow
  <2>2. capacity[g] \in CapacityRow
    BY DEF TypeInv, TypeOK
  <2>3. /\ capacity'[g] = Reserving(capacity[g], HoldConsumed(h, g) - hold[h].alloc[g])
        /\ VersionChecks(capacity'[g])
    BY DEF VoidHold, ChecksPass
  <2> QED
    BY <2>1, <2>2, <2>3 DEF CapacityRow, VersionChecks, Reserving
<1> QED
  BY <1>1, <1>2 DEF TypeInv, TypeOK, VoidHold

\* The amounts a reversal sweeps, the part of the expiration that sweeps grant k, and the rows.
Sweeping(part, sweep) == [g \in Grants |-> IF g \in DOMAIN sweep THEN Unreserved(g) + part[g] ELSE 0]

SweptPart(part, sweep, k) == Only(k, Sweeping(part, sweep)[k])

SweptRow(part, sweep, k) ==
  [kind |-> "EXPIRATION", hold |-> None, related |-> None,
   entry |-> Entries(SweptPart(part, sweep, k)), part |-> SweptPart(part, sweep, k)]

ReversalRow(t, part) ==
  [kind |-> "COMPENSATION", hold |-> None, related |-> t, entry |-> Entries(part), part |-> part]

LEMMA SweepingNat ==
  ASSUME TypeInv, NEW start, NEW part \in Parts, NEW sweep \in Sweeps(start, part)
  PROVE  /\ part \in [Grants -> Nat] /\ Sweeping(part, sweep) \in [Grants -> Nat]
         /\ \A k \in DOMAIN sweep : /\ k \in Grants /\ sweep[k] \in Txns
                                    /\ SweptPart(part, sweep, k) \in [Grants -> Nat]
<1>1. part \in [Grants -> Nat] /\ DOMAIN sweep \subseteq Grants /\ \A k \in DOMAIN sweep : sweep[k] \in Txns
  BY Bounded DEF Sweeps
<1>2. ASSUME NEW g \in Grants PROVE Unreserved(g) + part[g] \in Nat
  BY <1>1 DEF TypeInv, TypeOK, ChecksPass, VersionChecks, Unreserved, CapacityRow
<1>3. Sweeping(part, sweep) \in [Grants -> Nat]
  BY <1>2 DEF Sweeping
<1> QED
  BY <1>1, <1>3, OnlyNat DEF SweptPart

\* A reversal posts its own row and one for each grant it sweeps.
Reversed(t, r, part, sweep) ==
  /\ posting[r] = Unposted
  /\ posting'[r] = ReversalRow(t, part)
  /\ \A k \in DOMAIN sweep : /\ k \in Grants /\ sweep[k] \in Txns /\ sweep[k] # r
                             /\ posting[sweep[k]] = Unposted
                             /\ posting'[sweep[k]] = SweptRow(part, sweep, k)
  /\ \A u \in Txns : u # r /\ (\A k \in DOMAIN sweep : sweep[k] # u) => posting'[u] = posting[u]

LEMMA ReversePostings ==
  ASSUME TypeInv, NEW start, NEW t \in Txns, NEW r \in Txns, NEW part \in Parts,
         NEW sweep \in Sweeps(start, part), Reverse(t, r, start, part, sweep)
  PROVE  Reversed(t, r, part, sweep)
<1> DEFINE swept == DOMAIN sweep
           amount == [g \in Grants |-> IF g \in swept THEN Unreserved(g) + part[g] ELSE 0]
           sweeping(u) == CHOOSE g \in swept : sweep[g] = u
           only(g) == Only(g, amount[g])
           row(k) == [kind |-> "EXPIRATION", hold |-> None, related |-> None,
                      entry |-> Entries(only(k)), part |-> only(k)]
<1>1. swept \subseteq Grants /\ \A k \in swept : sweep[k] \in Txns
  BY DEF Sweeps
<1>2. /\ posting[r] = Unposted
      /\ \A k \in swept : sweep[k] # r /\ posting[sweep[k]] = Unposted
      /\ \A g, k \in swept : sweep[g] = sweep[k] => g = k
  BY DEF Reverse
<1>3. posting' = [u \in Txns |->
           IF u = r THEN [kind |-> "COMPENSATION", hold |-> None, related |-> t,
                          entry |-> Entries(part), part |-> part]
           ELSE IF \E g \in swept : sweep[g] = u THEN row(sweeping(u)) ELSE posting[u]]
  BY Zenon DEF Reverse
<1>4. \A k \in swept : sweeping(sweep[k]) = k
  BY <1>2
<1> HIDE DEF sweeping
<1>5. ASSUME NEW k \in swept
      PROVE  posting'[sweep[k]] = SweptRow(part, sweep, k)
  <2>1. row(k) = SweptRow(part, sweep, k)
    BY DEF SweptRow, SweptPart, Sweeping
  <2> HIDE DEF row
  <2>2. posting'[sweep[k]] = row(k)
    BY <1>1, <1>2, <1>3, <1>4
  <2> QED
    BY <2>1, <2>2
<1>6. posting'[r] = ReversalRow(t, part)
  BY <1>3 DEF ReversalRow
<1>7. \A u \in Txns : u # r /\ (\A k \in swept : sweep[k] # u) => posting'[u] = posting[u]
  BY <1>3
<1> HIDE DEF row, only, amount
<1> QED
  BY <1>1, <1>2, <1>5, <1>6, <1>7 DEF Reversed

\* The expirations that a reversal brings with it write rows of the right type.
LEMMA ReverseType ==
  ASSUME TypeInv, NEW start \in Time, NEW t \in Txns, NEW r \in Txns, NEW part \in Parts,
         NEW sweep \in Sweeps(start, part), Reverse(t, r, start, part, sweep)
  PROVE  TypeInv'
<1> DEFINE amount == Sweeping(part, sweep)
<1>1. part \in [Grants -> Nat] /\ amount \in [Grants -> Nat]
  BY SweepingNat
<1>2. \A g \in Grants : capacity'[g] =
         Appended(Appended(capacity[g], "COMPENSATION", part[g], FALSE), "EXPIRATION", amount[g], FALSE)
  BY DEF Reverse, Sweeping
<1>3. DOMAIN capacity' = Grants /\ capacity' = [g \in Grants |-> capacity'[g]]
  BY DEF Reverse
<1>4. balance' = [a \in Accounts |-> balance[a] + Attributed(part, a) - Attributed(amount, a)]
  BY DEF Reverse, Sweeping
<1> HIDE DEF amount
<1>5. capacity' \in [Grants -> CapacityRow]
  <2> SUFFICES ASSUME NEW g \in Grants PROVE capacity'[g] \in CapacityRow
    BY <1>3
  <2> DEFINE given == Appended(capacity[g], "COMPENSATION", part[g], FALSE)
             Row == [granted : Int, reversed : Int, consumed : Int, compensated : Int,
                     expired : Int, remaining : Int, reserved : Int]
  <2>1. capacity[g] \in Row /\ part[g] \in Int /\ amount[g] \in Int
    BY <1>1 DEF TypeInv, TypeOK, CapacityRow
  <2>2. "COMPENSATION" \in Kinds /\ "EXPIRATION" \in Kinds
    BY DEF Kinds
  <2>3. given \in Row
    BY <2>1, <2>2, AppendedInts
  <2> HIDE DEF given
  <2>4. Appended(given, "EXPIRATION", amount[g], FALSE) \in Row
    BY <2>1, <2>2, <2>3, AppendedInts
  <2>5. capacity'[g] \in Row /\ VersionChecks(capacity'[g])
    BY <2>4, <1>2 DEF given, Reverse, ChecksPass
  <2> QED
    BY <2>5, CheckedRow
<1>6. posting' \in [Txns -> PostingRow]
  <2>1. ReversalRow(t, part) \in PostingRow
    BY <1>1, EntriesNat DEF ReversalRow, PostingRow, Kinds
  <2>2. \A k \in DOMAIN sweep : SweptRow(part, sweep, k) \in PostingRow
    BY SweepingNat, EntriesNat DEF SweptRow, PostingRow, Kinds
  <2>3. Reversed(t, r, part, sweep)
    BY ReversePostings
  <2>4. ASSUME NEW u \in Txns PROVE posting'[u] \in PostingRow
    <3>1. posting[u] \in PostingRow
      BY DEF TypeInv, TypeOK
    <3>2. CASE u = r
      BY <2>1, <2>3, <3>2 DEF Reversed
    <3>3. ASSUME NEW k \in DOMAIN sweep, sweep[k] = u PROVE posting'[u] \in PostingRow
      BY <2>2, <2>3, <3>3 DEF Reversed
    <3>4. CASE u # r /\ \A k \in DOMAIN sweep : sweep[k] # u
      BY <2>3, <3>1, <3>4 DEF Reversed
    <3> QED
      BY <3>2, <3>3, <3>4
  <2>5. posting' = [u \in Txns |-> posting'[u]]
    BY Zenon DEF Reverse
  <2> QED
    BY <2>4, <2>5
<1>7. balance' \in [Accounts -> Int]
  <2>1. \A a \in Accounts : Attributed(amount, a) \in Nat /\ Attributed(part, a) \in Nat
    BY <1>1, AttributedNat
  <2> QED
    BY <1>4, <2>1 DEF TypeInv, TypeOK
<1> QED
  BY <1>5, <1>6, <1>7 DEF TypeInv, TypeOK, Reverse

\* Every step keeps the types and the CHECK constraints.
LEMMA StepType == TypeInv /\ [Next]_vars => TypeInv'
<1> SUFFICES ASSUME TypeInv, [Next]_vars PROVE TypeInv'
  OBVIOUS
<1>1. CASE UNCHANGED vars
  BY <1>1 DEF vars, TypeInv, TypeOK, ChecksPass
<1>2. CASE Posting
  BY <1>2, PostingType DEF Posting
<1>3. CASE \E start \in Time, t \in Txns, r \in Txns, part \in Parts :
             \E sweep \in Sweeps(start, part) : Reverse(t, r, start, part, sweep)
  BY <1>3, ReverseType
<1>4. CASE \E start \in Time, h \in Holds, alloc \in Parts : CreateHold(h, start, alloc)
  BY <1>4, CreateHoldType
<1>5. CASE \E start \in Time, h \in Holds : VoidHold(h, start)
  BY <1>5, VoidHoldType
<1> QED
  BY <1>1, <1>2, <1>3, <1>4, <1>5, NextSteps, StepCases

\* The rows keep their types: every amount of a posting, a hold and a capacity
\* version stays a natural number whatever sequence of transactions commits.
THEOREM TypeCorrect == Spec => []TypeOK
<1>1. Spec => []TypeInv
  BY InitType, StepType, PTL DEF Spec
<1>2. TypeInv => TypeOK
  BY DEF TypeInv
<1> QED
  BY <1>1, <1>2, PTL

-----------------------------------------------------------------------------
(* Lineage and balances.                                                   *)

\* The rows Rows(g, K) sums.
LineageRows(g, K) == [t \in Txns |-> IF posting[t].kind \in K THEN posting[t].part[g] ELSE 0]

\* What CapacityMatchesLineage says of each grant and of each account.
GrantMatches(g) ==
  /\ capacity[g].granted = Rows(g, {"ISSUANCE"})
  /\ capacity[g].reversed = Rows(g, {"REVERSAL", "REFUND"})
  /\ capacity[g].consumed = Rows(g, {"CONSUMPTION"})
  /\ capacity[g].compensated = Rows(g, {"COMPENSATION"})
  /\ capacity[g].expired = Rows(g, {"EXPIRATION"})

AccountMatches(a) == balance[a] = Tally([g \in GrantsOf(a) |-> capacity[g].remaining])

\* An entry is attributed completely, which is what makes the balances follow the grants.
LineageInv ==
  /\ \A t \in Txns : posting[t].entry = Entries(posting[t].part)
  /\ \A g \in Grants : GrantMatches(g)
  /\ \A a \in Accounts : AccountMatches(a)

LEMMA LineageRowsNat ==
  ASSUME TypeInv, NEW g \in Grants, NEW K
  PROVE  LineageRows(g, K) \in [Txns -> Nat] /\ Rows(g, K) = Tally(LineageRows(g, K))
<1>1. \A t \in Txns : posting[t].part[g] \in Nat
  BY DEF TypeInv, TypeOK, PostingRow
<1> QED BY <1>1 DEF LineageRows, Rows

LEMMA LineageRowsNatNext ==
  ASSUME TypeInv', NEW g \in Grants, NEW K
  PROVE  LineageRows(g, K)' \in [Txns -> Nat] /\ Rows(g, K)' = Tally(LineageRows(g, K)')
<1>1. \A t \in Txns : posting'[t].part[g] \in Nat
  BY DEF TypeInv, TypeOK, PostingRow
<1> QED BY <1>1 DEF LineageRows, Rows

\* Rows that change in none of the amounts, or in one of them.
LEMMA RowsKept ==
  ASSUME TypeInv, TypeInv', NEW g \in Grants, NEW K,
         \A u \in Txns : LineageRows(g, K)'[u] = LineageRows(g, K)[u]
  PROVE  Rows(g, K)' = Rows(g, K)
BY LineageRowsNat, LineageRowsNatNext, TallyEqual

LEMMA RowsGrow ==
  ASSUME TypeInv, TypeInv', NEW g \in Grants, NEW K, NEW t \in Txns,
         \A u \in Txns \ {t} : LineageRows(g, K)'[u] = LineageRows(g, K)[u],
         LineageRows(g, K)[t] = 0
  PROVE  Rows(g, K)' = Rows(g, K) + LineageRows(g, K)'[t]
<1>1. Tally(LineageRows(g, K)') + LineageRows(g, K)[t] = Tally(LineageRows(g, K)) + LineageRows(g, K)'[t]
  BY LineageRowsNat, LineageRowsNatNext, TallyUpdate
<1>2. Tally(LineageRows(g, K)') \in Nat
  BY LineageRowsNatNext, TallyNat
<1> QED BY <1>1, <1>2, LineageRowsNat, LineageRowsNatNext

\* The row a transaction posts is the only one that changes.
LEMMA RowsPosted ==
  ASSUME TypeInv, TypeInv', NEW g \in Grants, NEW K, "NONE" \notin K, NEW t \in Txns, NEW start,
         NEW kind \in Kinds, NEW h \in Paths, NEW related \in Relations, NEW part \in [Grants -> Nat],
         Post(t, start, kind, h, related, part)
  PROVE  Rows(g, K)' = Rows(g, K) + (IF kind \in K THEN part[g] ELSE 0)
<1>1. Written(t, start, kind, h, related, part)
  BY PostFacts
<1>2. posting[t].kind = "NONE" /\ posting'[t].kind = kind /\ posting'[t].part = part
  BY <1>1 DEF Written, Unposted
<1>3. LineageRows(g, K)[t] = 0 /\ LineageRows(g, K)'[t] = IF kind \in K THEN part[g] ELSE 0
  BY <1>2 DEF LineageRows
<1>4. \A u \in Txns \ {t} : LineageRows(g, K)'[u] = LineageRows(g, K)[u]
  BY <1>1 DEF LineageRows, Written
<1> QED BY <1>3, <1>4, RowsGrow

\* The version a transaction appends counts the row it posts.
LEMMA PostedMatches ==
  ASSUME TypeInv, TypeInv', NEW g \in Grants, GrantMatches(g), NEW t \in Txns, NEW start,
         NEW kind \in Kinds, NEW h \in Paths, NEW related \in Relations, NEW part \in [Grants -> Nat],
         Post(t, start, kind, h, related, part)
  PROVE  GrantMatches(g)'
<1> DEFINE n(K) == IF kind \in K THEN part[g] ELSE 0
<1>1. capacity'[g] = Appended(capacity[g], kind, part[g], h # None)
  <2>1. Written(t, start, kind, h, related, part)
    BY PostFacts
  <2> QED BY <2>1 DEF Written, AppendRows
<1>2. /\ capacity'[g].granted = capacity[g].granted + n({"ISSUANCE"})
      /\ capacity'[g].reversed = capacity[g].reversed + n({"REVERSAL", "REFUND"})
      /\ capacity'[g].consumed = capacity[g].consumed + n({"CONSUMPTION"})
      /\ capacity'[g].compensated = capacity[g].compensated + n({"COMPENSATION"})
      /\ capacity'[g].expired = capacity[g].expired + n({"EXPIRATION"})
  BY <1>1 DEF Appended
<1>3. \A K : "NONE" \notin K => Rows(g, K)' = Rows(g, K) + n(K)
  BY RowsPosted
<1>4. /\ Rows(g, {"ISSUANCE"})' = Rows(g, {"ISSUANCE"}) + n({"ISSUANCE"})
      /\ Rows(g, {"REVERSAL", "REFUND"})' = Rows(g, {"REVERSAL", "REFUND"}) + n({"REVERSAL", "REFUND"})
      /\ Rows(g, {"CONSUMPTION"})' = Rows(g, {"CONSUMPTION"}) + n({"CONSUMPTION"})
      /\ Rows(g, {"COMPENSATION"})' = Rows(g, {"COMPENSATION"}) + n({"COMPENSATION"})
      /\ Rows(g, {"EXPIRATION"})' = Rows(g, {"EXPIRATION"}) + n({"EXPIRATION"})
  <2>1. /\ "NONE" \notin {"ISSUANCE"} /\ "NONE" \notin {"REVERSAL", "REFUND"} /\ "NONE" \notin {"CONSUMPTION"}
        /\ "NONE" \notin {"COMPENSATION"} /\ "NONE" \notin {"EXPIRATION"}
    OBVIOUS
  <2> HIDE DEF n
  <2> QED BY <1>3, <2>1
<1> HIDE DEF n
<1> QED BY <1>2, <1>4 DEF GrantMatches

Remainders(a) == [g \in GrantsOf(a) |-> capacity[g].remaining]
PartsOf(part, a) == [g \in GrantsOf(a) |-> part[g]]

LEMMA RemaindersNat ==
  ASSUME NEW a
  PROVE  /\ TypeInv => Remainders(a) \in [GrantsOf(a) -> Nat]
         /\ TypeInv' => Remainders(a)' \in [GrantsOf(a) -> Nat]
         /\ \A part \in [Grants -> Nat] : PartsOf(part, a) \in [GrantsOf(a) -> Nat]
<1>1. ASSUME TypeInv PROVE Remainders(a) \in [GrantsOf(a) -> Nat]
  BY <1>1, GrantsOfFinite DEF Remainders, TypeInv, TypeOK, CapacityRow
<1>2. ASSUME TypeInv' PROVE Remainders(a)' \in [GrantsOf(a) -> Nat]
  <2>1. \A g \in Grants : capacity'[g].remaining \in Nat
    BY <1>2 DEF TypeInv, TypeOK, CapacityRow
  <2> QED BY <2>1, GrantsOfFinite DEF Remainders, GrantsOf
<1>3. \A part \in [Grants -> Nat] : PartsOf(part, a) \in [GrantsOf(a) -> Nat]
  BY GrantsOfFinite DEF PartsOf
<1> QED BY <1>1, <1>2, <1>3

\* Credit comes with what it is attributed to, and goes with it.
LEMMA CreditMatches ==
  ASSUME TypeInv, TypeInv', NEW a \in Accounts, AccountMatches(a), NEW part \in [Grants -> Nat],
         balance'[a] = balance[a] + Attributed(part, a),
         \A g \in Grants : capacity'[g].remaining = capacity[g].remaining + part[g]
  PROVE  AccountMatches(a)'
<1>1. IsFiniteSet(GrantsOf(a)) /\ GrantsOf(a) \subseteq Grants
  BY GrantsOfFinite
<1>2. /\ Remainders(a) \in [GrantsOf(a) -> Nat] /\ Remainders(a)' \in [GrantsOf(a) -> Nat]
      /\ PartsOf(part, a) \in [GrantsOf(a) -> Nat]
  BY RemaindersNat
<1>3. \A g \in GrantsOf(a) : Remainders(a)'[g] = Remainders(a)[g] + PartsOf(part, a)[g]
  BY <1>1 DEF Remainders, PartsOf, GrantsOf
<1>4. Tally(Remainders(a)') = Tally(Remainders(a)) + Tally(PartsOf(part, a))
  BY <1>1, <1>2, <1>3, TallyAdd
<1>5. balance[a] = Tally(Remainders(a)) /\ Attributed(part, a) = Tally(PartsOf(part, a))
  BY DEF AccountMatches, Remainders, Attributed, PartsOf
<1>6. AccountMatches(a)' <=> balance'[a] = Tally(Remainders(a)')
  BY DEF AccountMatches, Remainders
<1> QED BY <1>4, <1>5, <1>6

LEMMA DebitMatches ==
  ASSUME TypeInv, TypeInv', NEW a \in Accounts, AccountMatches(a), NEW part \in [Grants -> Nat],
         balance'[a] = balance[a] - Attributed(part, a),
         \A g \in Grants : capacity'[g].remaining = capacity[g].remaining - part[g]
  PROVE  AccountMatches(a)'
<1>1. IsFiniteSet(GrantsOf(a)) /\ GrantsOf(a) \subseteq Grants
  BY GrantsOfFinite
<1>2. /\ Remainders(a) \in [GrantsOf(a) -> Nat] /\ Remainders(a)' \in [GrantsOf(a) -> Nat]
      /\ PartsOf(part, a) \in [GrantsOf(a) -> Nat]
  BY RemaindersNat
<1>3. \A g \in GrantsOf(a) : Remainders(a)[g] = Remainders(a)'[g] + PartsOf(part, a)[g]
  <2> SUFFICES ASSUME NEW g \in GrantsOf(a) PROVE Remainders(a)[g] = Remainders(a)'[g] + PartsOf(part, a)[g]
    OBVIOUS
  <2>1. g \in Grants /\ capacity[g].remaining \in Nat /\ part[g] \in Nat
    BY <1>1 DEF TypeInv, TypeOK, CapacityRow
  <2>2. Remainders(a)[g] = capacity[g].remaining /\ PartsOf(part, a)[g] = part[g]
    BY DEF Remainders, PartsOf
  <2>3. Remainders(a)'[g] = capacity'[g].remaining
    BY <2>1 DEF Remainders, GrantsOf
  <2> QED BY <2>1, <2>2, <2>3
<1>4. Tally(Remainders(a)) = Tally(Remainders(a)') + Tally(PartsOf(part, a))
  BY <1>1, <1>2, <1>3, TallyAdd
<1>5. balance[a] = Tally(Remainders(a)) /\ Attributed(part, a) = Tally(PartsOf(part, a))
  BY DEF AccountMatches, Remainders, Attributed, PartsOf
<1>6. AccountMatches(a)' <=> balance'[a] = Tally(Remainders(a)')
  BY DEF AccountMatches, Remainders
<1>7. Tally(Remainders(a)') \in Nat /\ Tally(PartsOf(part, a)) \in Nat
  BY <1>1, <1>2, TallyNat
<1> QED BY <1>4, <1>5, <1>6, <1>7

\* A posting keeps the invariant.
LEMMA PostedKeepsLineage ==
  ASSUME TypeInv, TypeInv', LineageInv, NEW t \in Txns, NEW start,
         NEW kind \in Kinds, NEW h \in Paths, NEW related \in Relations, NEW part \in [Grants -> Nat],
         Post(t, start, kind, h, related, part)
  PROVE  LineageInv'
<1>1. ASSUME NEW g \in Grants PROVE GrantMatches(g)'
  BY <1>1, PostedMatches DEF LineageInv
<1>2. Written(t, start, kind, h, related, part)
  BY PostFacts
<1>3. ASSUME NEW u \in Txns PROVE posting'[u].entry = Entries(posting'[u].part)
  BY <1>2 DEF LineageInv, Written
<1>4. ASSUME NEW a \in Accounts PROVE AccountMatches(a)'
  <2>1. Entries(part)[a] = Attributed(part, a) /\ AccountMatches(a)
    BY DEF Entries, LineageInv
  <2>2. CASE kind \in Credits
    <3>1. balance'[a] = balance[a] + Attributed(part, a)
      BY <1>2, <2>1, <2>2 DEF Written
    <3>2. \A g \in Grants : capacity'[g].remaining = capacity[g].remaining + part[g]
      BY <1>2, <2>2 DEF Written, AppendRows, Appended, TypeInv, TypeOK, CapacityRow, Credits
    <3> QED BY <2>1, <3>1, <3>2, CreditMatches
  <2>3. CASE kind \notin Credits
    <3>1. balance'[a] = balance[a] - Attributed(part, a)
      BY <1>2, <2>1, <2>3 DEF Written
    <3>2. kind \in {"REVERSAL", "REFUND", "CONSUMPTION", "EXPIRATION"}
      BY <2>3 DEF Kinds, Credits
    <3>3. \A g \in Grants : capacity'[g].remaining = capacity[g].remaining - part[g]
      BY <1>2, <3>2 DEF Written, AppendRows, Appended, TypeInv, TypeOK, CapacityRow
    <3> QED BY <2>1, <3>1, <3>3, DebitMatches
  <2> QED BY <2>2, <2>3
<1>5. \A u \in Txns : (posting[u].entry = Entries(posting[u].part))'
  BY <1>3 DEF Entries, Attributed, GrantsOf
<1> QED BY <1>1, <1>4, <1>5 DEF LineageInv

\* Holds move reservations only.
LEMMA ReservationKeepsLineage ==
  ASSUME TypeInv, TypeInv', LineageInv, posting' = posting, balance' = balance,
         \A g \in Grants : /\ capacity'[g].granted = capacity[g].granted
                           /\ capacity'[g].reversed = capacity[g].reversed
                           /\ capacity'[g].consumed = capacity[g].consumed
                           /\ capacity'[g].compensated = capacity[g].compensated
                           /\ capacity'[g].expired = capacity[g].expired
                           /\ capacity'[g].remaining = capacity[g].remaining
  PROVE  LineageInv'
<1>1. \A g, K : Rows(g, K)' = Rows(g, K)
  BY DEF Rows
<1>2. \A g \in Grants : GrantMatches(g)'
  BY <1>1 DEF LineageInv, GrantMatches
<1>3. ASSUME NEW a \in Accounts PROVE AccountMatches(a)'
  <2>1. Remainders(a)' = Remainders(a)
    BY GrantsOfFinite DEF Remainders, GrantsOf
  <2> QED BY <2>1 DEF LineageInv, AccountMatches, Remainders
<1> QED BY <1>2, <1>3 DEF LineageInv

LEMMA HoldStepsKeepLineage ==
  ASSUME TypeInv, TypeInv', LineageInv, NEW start, NEW h \in Holds,
         VoidHold(h, start) \/ \E alloc \in Parts : CreateHold(h, start, alloc)
  PROVE  LineageInv'
<1>1. posting' = posting /\ balance' = balance
  BY DEF CreateHold, VoidHold
<1>2. \E n : capacity' = [g \in Grants |-> Reserving(capacity[g], n[g])]
  <2>1. CASE \E alloc \in Parts : CreateHold(h, start, alloc)
    BY <2>1 DEF CreateHold
  <2>2. CASE VoidHold(h, start)
    <3> DEFINE n == [g \in Grants |-> HoldConsumed(h, g) - hold[h].alloc[g]]
    <3>1. capacity' = [g \in Grants |-> Reserving(capacity[g], n[g])]
      BY <2>2 DEF VoidHold
    <3> HIDE DEF n
    <3> QED BY <3>1
  <2> QED BY <2>1, <2>2
<1> QED BY <1>1, <1>2, ReservationKeepsLineage DEF Reserving

\* A swept grant's row is of that grant only.
LEMMA SweptRowOf ==
  ASSUME NEW part, NEW sweep, NEW k \in Grants, NEW g \in Grants
  PROVE  /\ SweptRow(part, sweep, k).kind = "EXPIRATION"
         /\ SweptRow(part, sweep, k).part[g] = IF g = k THEN Sweeping(part, sweep)[g] ELSE 0
BY DEF SweptRow, SweptPart, Only

\* What a reversal adds to the rows of kinds K, not both of those it posts.
RowsReversed(g, K, part, sweep) ==
  "NONE" \notin K /\ ~("COMPENSATION" \in K /\ "EXPIRATION" \in K) =>
    Rows(g, K)' = Rows(g, K) + (IF "COMPENSATION" \in K THEN part[g]
                                ELSE IF "EXPIRATION" \in K THEN Sweeping(part, sweep)[g] ELSE 0)

LEMMA ReverseRows ==
  ASSUME TypeInv, TypeInv', NEW start, NEW t \in Txns, NEW r \in Txns, NEW part \in Parts,
         NEW sweep \in Sweeps(start, part), Reverse(t, r, start, part, sweep),
         NEW g \in Grants, NEW K
  PROVE  RowsReversed(g, K, part, sweep)
<1> SUFFICES ASSUME "NONE" \notin K, ~("COMPENSATION" \in K /\ "EXPIRATION" \in K)
             PROVE  Rows(g, K)' = Rows(g, K) + (IF "COMPENSATION" \in K THEN part[g]
                                     ELSE IF "EXPIRATION" \in K THEN Sweeping(part, sweep)[g] ELSE 0)
  BY DEF RowsReversed
<1> DEFINE amount == Sweeping(part, sweep)
           old(u) == LineageRows(g, K)[u]
           new(u) == LineageRows(g, K)'[u]
<1>1. Unposted.kind = "NONE"
  BY DEF Unposted
<1>0. Reversed(t, r, part, sweep)
  BY ReversePostings
<1>2. old(r) = 0 /\ new(r) = IF "COMPENSATION" \in K THEN part[g] ELSE 0
  <2>1. posting[r] = Unposted /\ posting'[r] = ReversalRow(t, part)
    BY <1>0 DEF Reversed
  <2>2. posting'[r].kind = "COMPENSATION" /\ posting'[r].part = part
    BY <2>1 DEF ReversalRow
  <2>3. posting[r].kind = "NONE"
    BY <1>1, <2>1
  <2> QED BY <2>2, <2>3 DEF LineageRows
<1>3. ASSUME NEW k \in DOMAIN sweep
      PROVE  old(sweep[k]) = 0 /\ new(sweep[k]) = IF "EXPIRATION" \in K /\ g = k THEN amount[g] ELSE 0
  <2>1. /\ k \in Grants /\ sweep[k] \in Txns /\ posting[sweep[k]] = Unposted
        /\ posting'[sweep[k]] = SweptRow(part, sweep, k)
    BY <1>0, <1>3 DEF Reversed
  <2>2. posting'[sweep[k]].kind = "EXPIRATION" /\ posting'[sweep[k]].part[g] = IF g = k THEN amount[g] ELSE 0
    BY <2>1, SweptRowOf
  <2>3. posting[sweep[k]].kind = "NONE"
    BY <1>1, <2>1
  <2> QED BY <2>1, <2>2, <2>3 DEF LineageRows
<1>4. \A u \in Txns : u # r /\ (\A k \in DOMAIN sweep : sweep[k] # u) => new(u) = old(u)
  BY <1>0 DEF LineageRows, Reversed
<1>5. part[g] \in Nat /\ (g \notin DOMAIN sweep => amount[g] = 0) /\ Rows(g, K) \in Nat
  BY Bounded, LineageRowsNat, TallyNat DEF Sweeping
<1> HIDE DEF amount
<1>6. CASE "COMPENSATION" \in K
  <2>1. \A u \in Txns \ {r} : new(u) = old(u)
    BY <1>3, <1>4, <1>6
  <2>2. Rows(g, K)' = Rows(g, K) + new(r)
    BY <1>2, <2>1, RowsGrow
  <2> QED BY <1>2, <1>6, <2>2
<1>7. CASE "COMPENSATION" \notin K /\ "EXPIRATION" \in K /\ g \in DOMAIN sweep
  <2>1. sweep[g] \in Txns
    BY <1>0, <1>7 DEF Reversed
  <2>2. \A u \in Txns \ {sweep[g]} : new(u) = old(u)
    BY <1>2, <1>3, <1>4, <1>7
  <2>3. Rows(g, K)' = Rows(g, K) + new(sweep[g])
    BY <1>3, <1>7, <2>1, <2>2, RowsGrow
  <2> QED BY <1>3, <1>7, <2>3 DEF amount
<1>8. CASE "COMPENSATION" \notin K /\ ("EXPIRATION" \notin K \/ g \notin DOMAIN sweep)
  <2>1. \A u \in Txns : new(u) = old(u)
    BY <1>2, <1>3, <1>4, <1>8
  <2>2. Rows(g, K)' = Rows(g, K)
    BY <2>1, RowsKept
  <2> QED BY <1>5, <1>8, <2>2 DEF amount
<1> QED BY <1>6, <1>7, <1>8

\* A reversal keeps the counters, the attribution and the balances.
LEMMA ReverseMatches ==
  ASSUME TypeInv, TypeInv', LineageInv, NEW start, NEW t \in Txns, NEW r \in Txns, NEW part \in Parts,
         NEW sweep \in Sweeps(start, part), Reverse(t, r, start, part, sweep),
         NEW g \in Grants
  PROVE  /\ GrantMatches(g)'
         /\ part[g] \in Nat /\ Sweeping(part, sweep)[g] \in Nat
         /\ capacity'[g].remaining + Sweeping(part, sweep)[g] = capacity[g].remaining + part[g]
<1> DEFINE amount == Sweeping(part, sweep)
<1>1. part[g] \in Nat /\ capacity[g] \in CapacityRow /\ VersionChecks(capacity[g])
  BY Bounded DEF TypeInv, TypeOK, ChecksPass
<1>2. amount[g] \in Nat
  BY <1>1 DEF Sweeping, Unreserved, VersionChecks, CapacityRow
<1>3. capacity'[g] = Appended(Appended(capacity[g], "COMPENSATION", part[g], FALSE), "EXPIRATION", amount[g], FALSE)
  BY DEF Reverse, Sweeping
<1> HIDE DEF amount
<1>4. /\ capacity'[g].granted = capacity[g].granted
      /\ capacity'[g].reversed = capacity[g].reversed
      /\ capacity'[g].consumed = capacity[g].consumed
      /\ capacity'[g].compensated = capacity[g].compensated + part[g]
      /\ capacity'[g].expired = capacity[g].expired + amount[g]
      /\ capacity'[g].remaining = capacity[g].remaining + part[g] - amount[g]
  BY <1>1, <1>2, <1>3 DEF Appended, CapacityRow
<1>5. \A K : "NONE" \notin K /\ ~("COMPENSATION" \in K /\ "EXPIRATION" \in K) =>
        Rows(g, K)' = Rows(g, K) + (IF "COMPENSATION" \in K THEN part[g]
                                    ELSE IF "EXPIRATION" \in K THEN amount[g] ELSE 0)
  <2>1. \A K : RowsReversed(g, K, part, sweep)
    BY ReverseRows
  <2> QED BY <2>1 DEF RowsReversed, amount
<1>6. /\ Rows(g, {"ISSUANCE"})' = Rows(g, {"ISSUANCE"}) + 0
      /\ Rows(g, {"REVERSAL", "REFUND"})' = Rows(g, {"REVERSAL", "REFUND"}) + 0
      /\ Rows(g, {"CONSUMPTION"})' = Rows(g, {"CONSUMPTION"}) + 0
      /\ Rows(g, {"COMPENSATION"})' = Rows(g, {"COMPENSATION"}) + part[g]
      /\ Rows(g, {"EXPIRATION"})' = Rows(g, {"EXPIRATION"}) + amount[g]
  BY <1>5
<1>7. \A K : Rows(g, K) \in Nat
  BY LineageRowsNat, TallyNat
<1>8. GrantMatches(g)
  BY DEF LineageInv
<1>9. GrantMatches(g)'
  BY <1>4, <1>6, <1>7, <1>8 DEF GrantMatches
<1> QED BY <1>1, <1>2, <1>4, <1>9 DEF amount, CapacityRow

LEMMA ReverseKeepsLineage ==
  ASSUME TypeInv, TypeInv', LineageInv, NEW start, NEW t \in Txns, NEW r \in Txns, NEW part \in Parts,
         NEW sweep \in Sweeps(start, part), Reverse(t, r, start, part, sweep)
  PROVE  LineageInv'
<1> DEFINE amount == Sweeping(part, sweep)
<1>1. part \in [Grants -> Nat] /\ amount \in [Grants -> Nat]
  BY ReverseMatches DEF Sweeping, Parts
<1>2. ASSUME NEW u \in Txns PROVE posting'[u].entry = Entries(posting'[u].part)
  <2>1. Reversed(t, r, part, sweep)
    BY ReversePostings
  <2>2. CASE u = r
    BY <2>1, <2>2 DEF Reversed, ReversalRow
  <2>3. ASSUME NEW k \in DOMAIN sweep, sweep[k] = u PROVE posting'[u].entry = Entries(posting'[u].part)
    <3>1. posting'[u] = SweptRow(part, sweep, k)
      BY <2>1, <2>3 DEF Reversed
    <3>2. SweptRow(part, sweep, k).entry = Entries(SweptRow(part, sweep, k).part)
      BY DEF SweptRow
    <3> QED BY <3>1, <3>2
  <2>4. CASE u # r /\ \A k \in DOMAIN sweep : sweep[k] # u
    BY <2>1, <2>4 DEF LineageInv, Reversed
  <2> QED BY <2>2, <2>3, <2>4
<1>3. \A u \in Txns : (posting[u].entry = Entries(posting[u].part))'
  BY <1>2 DEF Entries, Attributed, GrantsOf
<1>4. ASSUME NEW a \in Accounts PROVE AccountMatches(a)'
  <2>1. IsFiniteSet(GrantsOf(a)) /\ GrantsOf(a) \subseteq Grants
    BY GrantsOfFinite
  <2>2. /\ Remainders(a) \in [GrantsOf(a) -> Nat] /\ Remainders(a)' \in [GrantsOf(a) -> Nat]
        /\ PartsOf(part, a) \in [GrantsOf(a) -> Nat] /\ PartsOf(amount, a) \in [GrantsOf(a) -> Nat]
    BY <1>1, RemaindersNat
  <2>3. \A g \in GrantsOf(a) : Remainders(a)'[g] + PartsOf(amount, a)[g] = Remainders(a)[g] + PartsOf(part, a)[g]
    <3> SUFFICES ASSUME NEW g \in GrantsOf(a)
                 PROVE  Remainders(a)'[g] + PartsOf(amount, a)[g] = Remainders(a)[g] + PartsOf(part, a)[g]
      OBVIOUS
    <3>1. capacity'[g].remaining + amount[g] = capacity[g].remaining + part[g]
      BY <2>1, ReverseMatches
    <3>2. Remainders(a)'[g] = capacity'[g].remaining /\ PartsOf(amount, a)[g] = amount[g]
      BY DEF Remainders, PartsOf, GrantsOf
    <3>3. Remainders(a)[g] = capacity[g].remaining /\ PartsOf(part, a)[g] = part[g]
      BY DEF Remainders, PartsOf
    <3> QED BY <3>1, <3>2, <3>3
  <2> HIDE DEF amount
  <2>6. Tally(Remainders(a)') + Tally(PartsOf(amount, a)) = Tally(Remainders(a)) + Tally(PartsOf(part, a))
    BY <2>1, <2>2, <2>3, TallySwap
  <2>7. /\ Tally(Remainders(a)) \in Nat /\ Tally(Remainders(a)') \in Nat
        /\ Tally(PartsOf(part, a)) \in Nat /\ Tally(PartsOf(amount, a)) \in Nat
    BY <2>1, <2>2, TallyNat
  <2>8. balance'[a] = balance[a] + Attributed(part, a) - Attributed(amount, a)
    BY DEF Reverse, Sweeping, amount
  <2>9. /\ balance[a] = Tally(Remainders(a)) /\ Attributed(part, a) = Tally(PartsOf(part, a))
        /\ Attributed(amount, a) = Tally(PartsOf(amount, a))
    BY DEF LineageInv, AccountMatches, Remainders, Attributed, PartsOf
  <2>10. balance'[a] = Tally(Remainders(a)')
    BY <2>6, <2>7, <2>8, <2>9
  <2> QED BY <2>10 DEF AccountMatches, Remainders
<1> QED BY <1>3, <1>4, ReverseMatches DEF LineageInv

\* Nothing is posted and every counter and balance is zero.
LEMMA InitLineage == Init => LineageInv
<1> SUFFICES ASSUME Init PROVE LineageInv
  OBVIOUS
<1>1. TypeInv
  BY InitType
<1>2. ASSUME NEW u \in Txns PROVE posting[u].entry = Entries(posting[u].part) /\ posting[u].kind = "NONE"
  <2>1. /\ posting[u].kind = "NONE" /\ posting[u].entry = [a \in Accounts |-> 0]
        /\ posting[u].part = [g \in Grants |-> 0]
    BY DEF Init, Unposted
  <2>2. ASSUME NEW a \in Accounts PROVE Attributed([g \in Grants |-> 0], a) = 0
    <3>1. /\ [g \in GrantsOf(a) |-> 0] \in [GrantsOf(a) -> Nat]
          /\ \A g \in GrantsOf(a) : [k \in GrantsOf(a) |-> 0][g] = 0
      OBVIOUS
    <3>2. Tally([g \in GrantsOf(a) |-> 0]) = 0
      BY <3>1, TallyZero
    <3>3. [g \in GrantsOf(a) |-> [k \in Grants |-> 0][g]] = [g \in GrantsOf(a) |-> 0]
      BY GrantsOfFinite
    <3> QED BY <3>2, <3>3 DEF Attributed
  <2> QED BY <2>1, <2>2 DEF Entries
<1>3. ASSUME NEW g \in Grants PROVE GrantMatches(g)
  <2>1. \A K : "NONE" \notin K => Rows(g, K) = 0
    <3> SUFFICES ASSUME NEW K, "NONE" \notin K PROVE Rows(g, K) = 0
      OBVIOUS
    <3>1. \A u \in Txns : LineageRows(g, K)[u] = 0
      BY <1>2 DEF LineageRows
    <3> QED BY <1>1, <3>1, LineageRowsNat, TallyZero
  <2>2. /\ Rows(g, {"ISSUANCE"}) = 0 /\ Rows(g, {"REVERSAL", "REFUND"}) = 0 /\ Rows(g, {"CONSUMPTION"}) = 0
        /\ Rows(g, {"COMPENSATION"}) = 0 /\ Rows(g, {"EXPIRATION"}) = 0
    BY <2>1
  <2>3. capacity[g] = NoCapacity
    BY DEF Init
  <2> QED BY <2>2, <2>3 DEF GrantMatches, NoCapacity
<1>4. ASSUME NEW a \in Accounts PROVE AccountMatches(a)
  <2>1. Remainders(a) \in [GrantsOf(a) -> Nat]
    BY <1>1, RemaindersNat
  <2>2. \A g \in GrantsOf(a) : Remainders(a)[g] = 0
    BY GrantsOfFinite DEF Remainders, Init, NoCapacity
  <2>3. Tally(Remainders(a)) = 0
    BY <2>1, <2>2, TallyZero
  <2> QED BY <2>3 DEF AccountMatches, Remainders, Init
<1> QED BY <1>2, <1>3, <1>4 DEF LineageInv

LEMMA StepLineage == TypeInv /\ TypeInv' /\ LineageInv /\ [Next]_vars => LineageInv'
<1> SUFFICES ASSUME TypeInv, TypeInv', LineageInv, [Next]_vars PROVE LineageInv'
  OBVIOUS
<1>1. CASE UNCHANGED vars
  <2>1. posting' = posting /\ capacity' = capacity /\ balance' = balance
    BY <1>1 DEF vars
  <2>2. \A t \in Txns : posting'[t].entry = Entries(posting'[t].part)
    BY <2>1 DEF LineageInv
  <2>3. ASSUME NEW g \in Grants PROVE GrantMatches(g)'
    <3>1. GrantMatches(g)
      BY DEF LineageInv
    <3> QED BY <2>1, <3>1 DEF GrantMatches, Rows
  <2>4. ASSUME NEW a \in Accounts PROVE AccountMatches(a)'
    <3>1. AccountMatches(a)
      BY DEF LineageInv
    <3> QED BY <2>1, <3>1 DEF AccountMatches
  <2>5. \A t \in Txns : (posting[t].entry = Entries(posting[t].part))'
    BY <2>2 DEF Entries, Attributed, GrantsOf
  <2> QED BY <2>3, <2>4, <2>5 DEF LineageInv
<1>2. CASE Posting
  BY <1>2, PostedKeepsLineage DEF Posting, Posts
<1>3. CASE \E start \in Time, t \in Txns, r \in Txns, part \in Parts :
             \E sweep \in Sweeps(start, part) : Reverse(t, r, start, part, sweep)
  BY <1>3, ReverseKeepsLineage
<1>4. CASE \/ \E start \in Time, h \in Holds, alloc \in Parts : CreateHold(h, start, alloc)
           \/ \E start \in Time, h \in Holds : VoidHold(h, start)
  BY <1>4, HoldStepsKeepLineage
<1> QED BY <1>1, <1>2, <1>3, <1>4, NextSteps, StepCases

\* The running accounts of the grants and the balances of the accounts
\* (credit_grant_capacity_versions, accounts.balance_minor) agree with the sums of the
\* immutable lineage rows after any sequence of transactions.
THEOREM CapacityIsLineage == Spec => []CapacityMatchesLineage
<1>1. TypeInv /\ TypeInv' /\ LineageInv /\ [Next]_vars => LineageInv'
  BY StepLineage
<1>2. LineageInv => CapacityMatchesLineage
  BY DEF LineageInv, GrantMatches, AccountMatches, CapacityMatchesLineage
<1>3. Spec => []TypeInv
  BY InitType, StepType, PTL DEF Spec
<1> QED BY <1>1, <1>2, <1>3, InitLineage, PTL DEF Spec

-----------------------------------------------------------------------------
(* Refinement of CreditPots.                                               *)

\* A grant's units are where its counters say, and the counters are integers.
Counters(c) ==
  /\ c.granted \in Nat /\ c.reversed \in Nat /\ c.consumed \in Nat /\ c.compensated \in Nat
  /\ c.expired \in Nat /\ c.remaining \in Nat /\ c.reserved \in Nat
  /\ c.remaining + c.reversed + c.consumed + c.expired = c.granted + c.compensated

LEMMA CountersOf ==
  ASSUME NEW g \in Grants
  PROVE  (TypeInv => Counters(capacity[g])) /\ (TypeInv' => Counters(capacity'[g]))
<1>1. ASSUME TypeInv PROVE Counters(capacity[g])
  BY <1>1 DEF TypeInv, TypeOK, ChecksPass, VersionChecks, CapacityRow, Counters
<1>2. ASSUME TypeInv' PROVE Counters(capacity'[g])
  BY <1>2 DEF TypeInv, TypeOK, ChecksPass, VersionChecks, CapacityRow, Counters
<1> QED BY <1>1, <1>2

Free   == [k \in Grants |-> Unreserved(k)]
Held   == [k \in Grants |-> capacity[k].reserved]
Spent  == [k \in Grants |-> capacity[k].consumed - capacity[k].compensated]
Closed == [k \in Grants |-> capacity[k].reversed + capacity[k].expired]
Past   == [k \in Grants |-> Due(k, began)]

LEMMA PotsOf ==
  ASSUME NEW g \in Grants
  PROVE  /\ Free[g] = capacity[g].remaining - capacity[g].reserved
         /\ Free'[g] = capacity'[g].remaining - capacity'[g].reserved
         /\ Held[g] = capacity[g].reserved /\ Held'[g] = capacity'[g].reserved
         /\ Spent[g] = capacity[g].consumed - capacity[g].compensated
         /\ Spent'[g] = capacity'[g].consumed - capacity'[g].compensated
         /\ Closed[g] = capacity[g].reversed + capacity[g].expired
         /\ Closed'[g] = capacity'[g].reversed + capacity'[g].expired
BY DEF Free, Held, Spent, Closed, Unreserved

LEMMA PotsInt ==
  ASSUME TypeInv, NEW g \in Grants
  PROVE  Free[g] \in Int /\ Held[g] \in Int /\ Spent[g] \in Int /\ Closed[g] \in Int
BY PotsOf, CountersOf DEF Counters

LEMMA OnlyOf ==
  ASSUME NEW g \in Grants, NEW changed
  PROVE  Pots!Only(g, changed) <=>
         /\ "free" \in changed \/ Free'[g] = Free[g]
         /\ "held" \in changed \/ Held'[g] = Held[g]
         /\ "spent" \in changed \/ Spent'[g] = Spent[g]
         /\ "closed" \in changed \/ Closed'[g] = Closed[g]
BY DEF Free, Held, Spent, Closed, Pots!Only

LEMMA ConservedOf ==
  ASSUME NEW g \in Grants
  PROVE  Pots!Conserved(g) <=> Free'[g] + Held'[g] + Spent'[g] + Closed'[g] = Free[g] + Held[g] + Spent[g] + Closed[g]
BY DEF Free, Held, Spent, Closed, Pots!Conserved

LEMMA MoveOf ==
  ASSUME NEW g \in Grants
  PROVE  /\ Pots!Issue(g) <=> /\ Free[g] + Held[g] + Spent[g] + Closed[g] = 0
                              /\ ~Past'[g] /\ Free'[g] > 0 /\ Pots!Only(g, {"free"})
         /\ Pots!Spend(g) <=> /\ ~Past'[g] /\ Spent'[g] > Spent[g]
                              /\ Pots!Only(g, {"free", "spent"}) /\ Pots!Conserved(g)
         /\ Pots!Reserve(g) <=> /\ ~Past'[g] /\ Held'[g] > Held[g]
                                /\ Pots!Only(g, {"free", "held"}) /\ Pots!Conserved(g)
         /\ Pots!Capture(g) <=> /\ Spent'[g] > Spent[g]
                                /\ Pots!Only(g, {"held", "spent"}) /\ Pots!Conserved(g)
         /\ Pots!Release(g) <=> /\ Held'[g] < Held[g]
                                /\ Pots!Only(g, {"free", "held"}) /\ Pots!Conserved(g)
         /\ Pots!Restore(g) <=> /\ ~Past'[g] /\ Spent'[g] < Spent[g]
                                /\ Pots!Only(g, {"free", "spent"}) /\ Pots!Conserved(g)
         /\ Pots!Withdraw(g) <=> /\ ~Past'[g] /\ Closed'[g] > Closed[g]
                                 /\ Pots!Only(g, {"free", "closed"}) /\ Pots!Conserved(g)
         /\ Pots!Cancel(g) <=> /\ Held[g] + Spent[g] + Closed[g] = 0 /\ Free'[g] = 0
                               /\ Pots!Only(g, {"free", "closed"}) /\ Pots!Conserved(g)
         /\ Pots!Sweep(g) <=> /\ Past'[g] /\ Free'[g] = 0 /\ Spent'[g] <= Spent[g]
                              /\ Pots!Only(g, {"free", "spent", "closed"}) /\ Pots!Conserved(g)
BY DEF Free, Held, Spent, Closed, Past, Pots!Issue, Pots!Spend, Pots!Reserve, Pots!Capture, Pots!Release,
       Pots!Restore, Pots!Withdraw, Pots!Cancel, Pots!Sweep

\* A version nothing is added to is the version it was.
LEMMA NothingAppended ==
  ASSUME NEW c \in CapacityRow, NEW kind \in Kinds, NEW b \in BOOLEAN
  PROVE  Appended(c, kind, 0, b) = c /\ Reserving(c, 0) = c
BY DEF Appended, Reserving, CapacityRow

LEMMA KeepMoves ==
  ASSUME NEW g \in Grants, capacity'[g] = capacity[g]
  PROVE  Pots!Move(g)
BY DEF Pots!Move, Pots!Keep, Pots!Only, Unreserved

\* The units in a grant's pots, as its counters count them.
LEMMA PotValues ==
  ASSUME TypeInv, TypeInv', NEW g \in Grants
  PROVE  \E rem, res, con, com, rev, exp \in Nat, rem1, res1, con1, com1, rev1, exp1 \in Nat :
        /\ capacity[g].remaining = rem /\ capacity[g].reserved = res /\ capacity[g].consumed = con
        /\ capacity[g].compensated = com /\ capacity[g].reversed = rev /\ capacity[g].expired = exp
        /\ capacity'[g].remaining = rem1 /\ capacity'[g].reserved = res1 /\ capacity'[g].consumed = con1
        /\ capacity'[g].compensated = com1 /\ capacity'[g].reversed = rev1 /\ capacity'[g].expired = exp1
        /\ Free[g] = rem - res /\ Held[g] = res /\ Spent[g] = con - com /\ Closed[g] = rev + exp
        /\ Free'[g] = rem1 - res1 /\ Held'[g] = res1 /\ Spent'[g] = con1 - com1 /\ Closed'[g] = rev1 + exp1
<1>1. PICK rem, res, con, com, rev, exp \in Nat :
        /\ capacity[g].remaining = rem /\ capacity[g].reserved = res /\ capacity[g].consumed = con
        /\ capacity[g].compensated = com /\ capacity[g].reversed = rev /\ capacity[g].expired = exp
  BY CountersOf DEF Counters
<1>2. PICK rem1, res1, con1, com1, rev1, exp1 \in Nat :
        /\ capacity'[g].remaining = rem1 /\ capacity'[g].reserved = res1 /\ capacity'[g].consumed = con1
        /\ capacity'[g].compensated = com1 /\ capacity'[g].reversed = rev1 /\ capacity'[g].expired = exp1
  BY CountersOf DEF Counters
<1>3. /\ Free[g] = rem - res /\ Held[g] = res /\ Spent[g] = con - com /\ Closed[g] = rev + exp
      /\ Free'[g] = rem1 - res1 /\ Held'[g] = res1 /\ Spent'[g] = con1 - com1 /\ Closed'[g] = rev1 + exp1
  BY <1>1, <1>2, PotsOf
<1> QED BY <1>1, <1>2, <1>3

\* A row on an issued grant moves its units as one of the abstract rules does.
LEMMA AppendMoves ==
  ASSUME TypeInv, TypeInv', NEW g \in Grants, NEW n \in Nat, n > 0, NEW kind, NEW b \in BOOLEAN,
         capacity'[g] = Appended(capacity[g], kind, n, b),
         \/ kind = "ISSUANCE" /\ b = FALSE /\ ~Past'[g] /\ capacity[g] = NoCapacity
         \/ kind = "CONSUMPTION" /\ b = TRUE
         \/ kind = "CONSUMPTION" /\ b = FALSE /\ ~Past'[g]
         \/ kind = "REFUND" /\ b = FALSE /\ ~Past'[g]
         \/ kind = "EXPIRATION" /\ Past'[g] /\ Free'[g] = 0
         \/ /\ kind = "REVERSAL" /\ capacity[g].remaining = n /\ capacity[g].granted = n
            /\ capacity[g].reserved = 0
  PROVE  Pots!Move(g)
<1>1. PICK rem, res, con, com, rev, exp \in Nat, rem1, res1, con1, com1, rev1, exp1 \in Nat :
        /\ capacity[g].remaining = rem /\ capacity[g].reserved = res /\ capacity[g].consumed = con
        /\ capacity[g].compensated = com /\ capacity[g].reversed = rev /\ capacity[g].expired = exp
        /\ capacity'[g].remaining = rem1 /\ capacity'[g].reserved = res1 /\ capacity'[g].consumed = con1
        /\ capacity'[g].compensated = com1 /\ capacity'[g].reversed = rev1 /\ capacity'[g].expired = exp1
        /\ Free[g] = rem - res /\ Held[g] = res /\ Spent[g] = con - com /\ Closed[g] = rev + exp
        /\ Free'[g] = rem1 - res1 /\ Held'[g] = res1 /\ Spent'[g] = con1 - com1 /\ Closed'[g] = rev1 + exp1
  BY PotValues
<1>2. CASE kind = "ISSUANCE" /\ b = FALSE /\ ~Past'[g] /\ capacity[g] = NoCapacity
  <2>1. /\ rem1 = n /\ res1 = 0 /\ con1 = 0
        /\ com1 = 0 /\ rev1 = 0 /\ exp1 = 0
        /\ rem = 0 /\ res = 0 /\ con = 0 /\ com = 0 /\ rev = 0 /\ exp = 0
    BY <1>1, <1>2 DEF Appended, NoCapacity
  <2>2. Pots!Issue(g)
    BY <1>1, <1>2, <2>1, OnlyOf, ConservedOf, MoveOf
  <2> QED BY <2>2 DEF Pots!Move
<1>3. CASE kind = "CONSUMPTION" /\ b = TRUE
  <2>1. /\ rem1 = rem - n /\ res1 = res - n /\ con1 = con + n
        /\ com1 = com /\ rev1 = rev /\ exp1 = exp
    BY <1>1, <1>3 DEF Appended
  <2>2. Pots!Capture(g)
    BY <1>1, <1>3, <2>1, OnlyOf, ConservedOf, MoveOf
  <2> QED BY <2>2 DEF Pots!Move
<1>4. CASE kind = "CONSUMPTION" /\ b = FALSE /\ ~Past'[g]
  <2>1. /\ rem1 = rem - n /\ res1 = res /\ con1 = con + n
        /\ com1 = com /\ rev1 = rev /\ exp1 = exp
    BY <1>1, <1>4 DEF Appended
  <2>2. Pots!Spend(g)
    BY <1>1, <1>4, <2>1, OnlyOf, ConservedOf, MoveOf
  <2> QED BY <2>2 DEF Pots!Move
<1>5. CASE kind = "REFUND" /\ b = FALSE /\ ~Past'[g]
  <2>1. /\ rem1 = rem - n /\ res1 = res /\ con1 = con
        /\ com1 = com /\ rev1 = rev + n /\ exp1 = exp
    BY <1>1, <1>5 DEF Appended
  <2>2. Pots!Withdraw(g)
    BY <1>1, <1>5, <2>1, OnlyOf, ConservedOf, MoveOf
  <2> QED BY <2>2 DEF Pots!Move
<1>6. CASE kind = "EXPIRATION" /\ Past'[g] /\ Free'[g] = 0
  <2>1. /\ rem1 = rem - n /\ res1 = res /\ con1 = con
        /\ com1 = com /\ rev1 = rev /\ exp1 = exp + n
    BY <1>1, <1>6 DEF Appended
  <2>2. Pots!Sweep(g)
    BY <1>1, <1>6, <2>1, OnlyOf, ConservedOf, MoveOf
  <2> QED BY <2>2 DEF Pots!Move
<1>7. CASE /\ kind = "REVERSAL" /\ capacity[g].remaining = n /\ capacity[g].granted = n
           /\ capacity[g].reserved = 0
  <2>1. /\ rem1 = 0 /\ res1 = 0 /\ con1 = con
        /\ com1 = com /\ rev1 = rev + n /\ exp1 = exp
    BY <1>1, <1>7 DEF Appended
  <2>3. rem = n /\ res = 0 /\ n + rev + con + exp = n + com
    BY <1>1, <1>7, CountersOf DEF Counters
  <2>2. Pots!Cancel(g)
    BY <1>1, <1>7, <2>1, <2>3, OnlyOf, ConservedOf, MoveOf
  <2> QED BY <2>2 DEF Pots!Move
<1> QED BY <1>2, <1>3, <1>4, <1>5, <1>6, <1>7

\* Reserving and releasing.
LEMMA ReserveMoves ==
  ASSUME TypeInv, TypeInv', NEW g \in Grants, NEW n \in Int, capacity'[g] = Reserving(capacity[g], n),
         n > 0 => ~Past'[g]
  PROVE  Pots!Move(g)
<1>1. PICK rem, res, con, com, rev, exp \in Nat, rem1, res1, con1, com1, rev1, exp1 \in Nat :
        /\ capacity[g].remaining = rem /\ capacity[g].reserved = res /\ capacity[g].consumed = con
        /\ capacity[g].compensated = com /\ capacity[g].reversed = rev /\ capacity[g].expired = exp
        /\ capacity'[g].remaining = rem1 /\ capacity'[g].reserved = res1 /\ capacity'[g].consumed = con1
        /\ capacity'[g].compensated = com1 /\ capacity'[g].reversed = rev1 /\ capacity'[g].expired = exp1
        /\ Free[g] = rem - res /\ Held[g] = res /\ Spent[g] = con - com /\ Closed[g] = rev + exp
        /\ Free'[g] = rem1 - res1 /\ Held'[g] = res1 /\ Spent'[g] = con1 - com1 /\ Closed'[g] = rev1 + exp1
  BY PotValues
<1>2. /\ rem1 = rem /\ res1 = res + n /\ con1 = con
        /\ com1 = com /\ rev1 = rev /\ exp1 = exp
  BY <1>1 DEF Reserving
<1>3. CASE n > 0
  <2>1. ~Past'[g] /\ Held'[g] > Held[g]
    BY <1>1, <1>2, <1>3
  <2>2. Pots!Only(g, {"free", "held"}) /\ Pots!Conserved(g)
    BY <1>1, <1>2, OnlyOf, ConservedOf
  <2>3. Pots!Reserve(g)
    BY <2>1, <2>2, MoveOf
  <2> QED BY <2>3 DEF Pots!Move
<1>4. CASE n < 0
  <2>1. Pots!Release(g)
    BY <1>1, <1>2, <1>4, OnlyOf, ConservedOf, MoveOf
  <2> QED BY <2>1 DEF Pots!Move
<1>5. CASE n = 0
  <2>1. capacity[g] \in CapacityRow
    BY DEF TypeInv, TypeOK
  <2>2. Reserving(capacity[g], 0) = capacity[g]
    BY <2>1, NothingAppended DEF Kinds
  <2> QED BY <1>5, <2>2, KeepMoves
<1> QED BY <1>3, <1>4, <1>5

\* Giving back, and what is given back to a due grant leaving again.
LEMMA ReverseMoves ==
  ASSUME TypeInv, TypeInv', NEW g \in Grants, NEW n \in Nat, NEW out \in Nat, n > 0,
         capacity'[g] = Appended(Appended(capacity[g], "COMPENSATION", n, FALSE), "EXPIRATION", out, FALSE),
         Past'[g] => Free'[g] = 0, ~Past'[g] => out = 0
  PROVE  Pots!Move(g)
<1>1. PICK rem, res, con, com, rev, exp \in Nat, rem1, res1, con1, com1, rev1, exp1 \in Nat :
        /\ capacity[g].remaining = rem /\ capacity[g].reserved = res /\ capacity[g].consumed = con
        /\ capacity[g].compensated = com /\ capacity[g].reversed = rev /\ capacity[g].expired = exp
        /\ capacity'[g].remaining = rem1 /\ capacity'[g].reserved = res1 /\ capacity'[g].consumed = con1
        /\ capacity'[g].compensated = com1 /\ capacity'[g].reversed = rev1 /\ capacity'[g].expired = exp1
        /\ Free[g] = rem - res /\ Held[g] = res /\ Spent[g] = con - com /\ Closed[g] = rev + exp
        /\ Free'[g] = rem1 - res1 /\ Held'[g] = res1 /\ Spent'[g] = con1 - com1 /\ Closed'[g] = rev1 + exp1
  BY PotValues
<1>2. /\ rem1 = rem + n - out /\ res1 = res /\ con1 = con
        /\ com1 = com + n /\ rev1 = rev /\ exp1 = exp + out
  BY <1>1 DEF Appended
<1>3. CASE Past'[g]
  <2>1. Past'[g] /\ Free'[g] = 0 /\ Spent'[g] <= Spent[g]
    BY <1>1, <1>2, <1>3
  <2>2. Pots!Only(g, {"free", "spent", "closed"}) /\ Pots!Conserved(g)
    BY <1>1, <1>2, OnlyOf, ConservedOf
  <2>3. Pots!Sweep(g)
    BY <2>1, <2>2, MoveOf
  <2> QED BY <2>3 DEF Pots!Move
<1>4. CASE ~Past'[g]
  <2>1. Pots!Restore(g)
    BY <1>1, <1>2, <1>4, OnlyOf, ConservedOf, MoveOf
  <2> QED BY <2>1 DEF Pots!Move
<1> QED BY <1>3, <1>4

\* Where a grant's credit comes from: nothing before it is issued, and its issuance
\* transaction created all of it and no other grant's.
OriginInv ==
  \A g \in Grants :
    /\ ~Issued(g) => capacity[g] = NoCapacity /\ expires_at[g] = NoExpiry
    /\ Issued(g) => /\ posting[issued_by[g]] # Unposted
                    /\ posting[issued_by[g]].part = Only(g, capacity[g].granted)

LEMMA UnissuedEmpty ==
  ASSUME OriginInv, NEW g \in Grants, ~Issued(g)
  PROVE  capacity[g].reserved = 0 /\ capacity[g].consumed = 0
<1>1. capacity[g] = NoCapacity
  BY DEF OriginInv
<1> QED BY <1>1 DEF NoCapacity

\* A step that issues nothing.
Steady(g) ==
  /\ Pots!Move(g)
  /\ capacity'[g].granted = capacity[g].granted
  /\ ~Issued(g) => capacity'[g] = capacity[g]

LEMMA UntouchedSteady ==
  ASSUME NEW g \in Grants, capacity'[g] = capacity[g]
  PROVE  Steady(g)
BY KeepMoves DEF Steady

LEMMA AppendSteady ==
  ASSUME TypeInv, TypeInv', NEW g \in Grants, NEW n \in Nat, NEW kind \in Kinds, NEW b \in BOOLEAN,
         capacity'[g] = Appended(capacity[g], kind, n, b),
         n > 0 => /\ Issued(g)
                  /\ \/ kind = "CONSUMPTION" /\ b = TRUE
                     \/ kind = "CONSUMPTION" /\ b = FALSE /\ ~Past'[g]
                     \/ kind = "REFUND" /\ b = FALSE /\ ~Past'[g]
                     \/ kind = "EXPIRATION" /\ Past'[g] /\ Free'[g] = 0
                     \/ /\ kind = "REVERSAL" /\ capacity[g].remaining = n
                        /\ capacity[g].granted = n /\ capacity[g].reserved = 0
  PROVE  Steady(g)
<1>1. capacity[g] \in CapacityRow
  BY DEF TypeInv, TypeOK
<1>2. CASE n = 0
  <2>1. capacity'[g] = capacity[g]
    BY <1>1, <1>2, NothingAppended
  <2> QED BY <2>1, UntouchedSteady
<1>3. CASE n > 0
  <2>1. Pots!Move(g)
    BY <1>3, AppendMoves
  <2>2. capacity'[g].granted = capacity[g].granted
    <3>1. kind # "ISSUANCE"
      BY <1>3
    <3>2. capacity'[g].granted = capacity[g].granted + (IF kind \in {"ISSUANCE"} THEN n ELSE 0)
      BY DEF Appended
    <3>3. capacity[g].granted \in Nat
      BY <1>1 DEF CapacityRow
    <3> QED BY <3>1, <3>2, <3>3
  <2> QED BY <1>3, <2>1, <2>2 DEF Steady
<1> QED BY <1>2, <1>3

LEMMA ReserveSteady ==
  ASSUME TypeInv, TypeInv', NEW g \in Grants, NEW n \in Int, capacity'[g] = Reserving(capacity[g], n),
         n > 0 => ~Past'[g], n # 0 => Issued(g)
  PROVE  Steady(g)
<1>1. CASE n = 0
  <2>1. capacity[g] \in CapacityRow
    BY DEF TypeInv, TypeOK
  <2>2. Reserving(capacity[g], 0) = capacity[g]
    BY <2>1, NothingAppended DEF Kinds
  <2> QED BY <1>1, <2>2, UntouchedSteady
<1>2. CASE n # 0
  <2>1. Pots!Move(g)
    BY ReserveMoves
  <2>2. capacity'[g].granted = capacity[g].granted
    BY DEF Reserving
  <2> QED BY <1>2, <2>1, <2>2 DEF Steady
<1> QED BY <1>1, <1>2

\* A transaction that issues nothing decides what is due by its own start.
LEMMA DueAtStart ==
  ASSUME NEW start, NEW g \in Grants, began' = start, expires_at' = expires_at
  PROVE  Past'[g] <=> Due(g, start)
BY DEF Past, Due

\* Spending, refunding, expiring, capturing and reversing an issuance.
LEMMA PostsSteady ==
  ASSUME TypeInv, TypeInv', OriginInv, NEW t \in Txns, NEW start \in Time,
         NEW kind \in Kinds \ {"COMPENSATION", "ISSUANCE"}, NEW h \in Paths,
         NEW related \in Relations, NEW part \in [Grants -> Nat], Posts(t, start, kind, h, related, part)
  PROVE  /\ UNCHANGED <<expires_at, issued_by>>
         /\ \A g \in Grants : Steady(g)
<1>1. UNCHANGED <<expires_at, issued_by>>
  BY DEF Posts
<1>2. Written(t, start, kind, h, related, part)
  BY PostFacts DEF Posts
<1> SUFFICES ASSUME NEW g \in Grants PROVE Steady(g)
  BY <1>1
<1> DEFINE b == h # None
<1>3. part[g] \in Nat /\ b \in BOOLEAN /\ capacity'[g] = Appended(capacity[g], kind, part[g], b)
  BY <1>2 DEF Written, AppendRows
<1>4. Past'[g] <=> Due(g, start)
  BY <1>1, <1>2, DueAtStart DEF Written
<1>5. part[g] > 0 =>
        /\ Issued(g)
        /\ \/ kind = "CONSUMPTION" /\ b = TRUE
           \/ kind = "CONSUMPTION" /\ b = FALSE /\ ~Past'[g]
           \/ kind = "REFUND" /\ b = FALSE /\ ~Past'[g]
           \/ kind = "EXPIRATION" /\ Past'[g] /\ Free'[g] = 0
           \/ /\ kind = "REVERSAL" /\ capacity[g].remaining = part[g]
              /\ capacity[g].granted = part[g] /\ capacity[g].reserved = 0
  <2> SUFFICES ASSUME part[g] > 0 PROVE <1>5!2
    OBVIOUS
  <2>1. CASE kind \in {"CONSUMPTION", "REFUND"} /\ h = None /\ Spendable(part, start)
    <3>1. Issued(g) /\ ~Due(g, start)
      BY <2>1 DEF Spendable
    <3> QED BY <1>4, <2>1, <3>1
  <2>2. CASE kind = "CONSUMPTION" /\ h # None /\ part[g] <= capacity[g].reserved
    <3>1. capacity[g].reserved > 0
      BY <1>3, <2>2 DEF TypeInv, TypeOK, CapacityRow
    <3>2. Issued(g)
      BY <3>1, UnissuedEmpty
    <3> QED BY <2>2, <3>2
  <2>3. CASE kind = "EXPIRATION" /\ Issued(g) /\ Due(g, start) /\ Unreserved(g)' = 0
    <3>1. Free'[g] = 0
      BY <2>3, PotsOf DEF Unreserved
    <3> QED BY <1>4, <2>3, <3>1
  <2>4. CASE /\ kind = "REVERSAL"
             /\ \E k \in Grants :
                  /\ Issued(k) /\ part = Only(k, capacity[k].granted)
                  /\ capacity[k].remaining = capacity[k].granted /\ capacity[k].reserved = 0
    <3>1. PICK k \in Grants :
            /\ Issued(k) /\ part = Only(k, capacity[k].granted)
            /\ capacity[k].remaining = capacity[k].granted /\ capacity[k].reserved = 0
      BY <2>4
    <3>2. capacity[k].granted \in Nat
      BY DEF TypeInv, TypeOK, CapacityRow
    <3>3. g = k /\ part[g] = capacity[k].granted
      BY <3>1, <3>2, OnlyNat
    <3> QED BY <2>4, <3>1, <3>3
  <2> QED BY <2>1, <2>2, <2>3, <2>4 DEF Posts
<1> HIDE DEF b
<1> QED BY <1>3, <1>5, AppendSteady

LEMMA HoldsSteady ==
  ASSUME TypeInv, TypeInv', OriginInv, NEW start \in Time, NEW h \in Holds,
         (\E alloc \in Parts : CreateHold(h, start, alloc)) \/ VoidHold(h, start)
  PROVE  \A g \in Grants : Steady(g)
<1> SUFFICES ASSUME NEW g \in Grants PROVE Steady(g)
  OBVIOUS
<1>1. ASSUME NEW alloc \in Parts, CreateHold(h, start, alloc) PROVE Steady(g)
  <2>1. alloc[g] \in Nat
    BY Bounded
  <2>2. capacity'[g] = Reserving(capacity[g], alloc[g])
    BY <1>1 DEF CreateHold
  <2>3. alloc[g] > 0 => Issued(g) /\ ~Due(g, start)
    BY <1>1 DEF CreateHold
  <2>4. Past'[g] <=> Due(g, start)
    BY <1>1, DueAtStart DEF CreateHold
  <2> QED BY <2>1, <2>2, <2>3, <2>4, ReserveSteady
<1>2. CASE VoidHold(h, start)
  <2> DEFINE n == HoldConsumed(h, g) - hold[h].alloc[g]
  <2>1. n \in Int /\ n <= 0
    <3>1. hold[h].alloc[g] \in Nat
      BY DEF TypeInv, TypeOK, HoldRow
    <3>2. HoldConsumed(h, g) <= hold[h].alloc[g]
      BY <1>2 DEF VoidHold
    <3> QED BY <3>1, <3>2, ThroughHoldNat
  <2>2. capacity'[g] = Reserving(capacity[g], n)
    BY <1>2 DEF VoidHold
  <2> HIDE DEF n
  <2>3. capacity'[g].reserved = capacity[g].reserved + n /\ capacity'[g].reserved \in Nat
    BY <2>2, CountersOf DEF Reserving, Counters
  <2>4. ~Issued(g) => capacity[g].reserved = 0
    BY UnissuedEmpty
  <2>5. n # 0 => Issued(g)
    BY <2>1, <2>3, <2>4
  <2> QED BY <2>1, <2>2, <2>5, ReserveSteady
<1> QED BY <1>1, <1>2

LEMMA ReverseSteady ==
  ASSUME TypeInv, TypeInv', LineageInv, OriginInv, NEW start \in Time, NEW t \in Txns, NEW r \in Txns,
         NEW part \in Parts, NEW sweep \in Sweeps(start, part), Reverse(t, r, start, part, sweep)
  PROVE  \A g \in Grants : Steady(g)
<1> SUFFICES ASSUME NEW g \in Grants PROVE Steady(g)
  OBVIOUS
<1> DEFINE out == Sweeping(part, sweep)[g]
<1>1. part[g] \in Nat /\ out \in Nat /\ capacity[g] \in CapacityRow
  BY ReverseMatches DEF TypeInv, TypeOK
<1>2. capacity'[g] = Appended(Appended(capacity[g], "COMPENSATION", part[g], FALSE), "EXPIRATION", out, FALSE)
  BY DEF Reverse, Sweeping
<1>3. ~(Due(g, start) /\ part[g] > 0) => out = 0
  BY DEF Sweeping, Sweeps
<1>6. Past'[g] <=> Due(g, start)
  BY DueAtStart DEF Reverse
<1> HIDE DEF out
<1>4. CASE part[g] = 0
  <2>1. Appended(capacity[g], "COMPENSATION", 0, FALSE) = capacity[g]
        /\ Appended(capacity[g], "EXPIRATION", 0, FALSE) = capacity[g]
    BY <1>1, NothingAppended DEF Kinds
  <2>2. out = 0
    BY <1>3, <1>4
  <2> QED BY <1>2, <1>4, <2>1, <2>2, UntouchedSteady
<1>5. CASE part[g] > 0
  <2>1. posting[t].kind = "CONSUMPTION" /\ part[g] = posting[t].part[g]
    BY <1>5 DEF Reverse
  <2>2. LineageRows(g, {"CONSUMPTION"})[t] = part[g]
    BY <2>1 DEF LineageRows
  <2>3. part[g] <= capacity[g].consumed
    <3>1. capacity[g].consumed = Rows(g, {"CONSUMPTION"})
      BY DEF LineageInv, GrantMatches
    <3>2. LineageRows(g, {"CONSUMPTION"})[t] <= Tally(LineageRows(g, {"CONSUMPTION"}))
      BY LineageRowsNat, TallyRow
    <3> QED BY <2>2, <3>1, <3>2, LineageRowsNat
  <2>4. Issued(g)
    BY <1>1, <1>5, <2>3, UnissuedEmpty
  <2>5. Past'[g] => Free'[g] = 0
    <3>1. Due(g, start) => Unreserved(g)' = 0
      BY <1>5 DEF Reverse
    <3> QED BY <1>6, <3>1, PotsOf DEF Unreserved
  <2>6. Pots!Move(g)
    BY <1>1, <1>2, <1>3, <1>5, <1>6, <2>5, ReverseMoves
  <2>7. capacity'[g].granted = capacity[g].granted
    BY <1>1, <1>2 DEF Appended, CapacityRow
  <2> QED BY <2>4, <2>6, <2>7 DEF Steady
<1> QED BY <1>1, <1>4, <1>5

\* What is posted stays.
LEMMA PostedStays ==
  ASSUME TypeInv, [Next]_vars, NEW u \in Txns, posting[u] # Unposted
  PROVE  posting'[u] = posting[u]
<1>1. CASE Posting
  <2>1. PICK t \in Txns, start \in Time, kind \in Kinds \ {"COMPENSATION"}, h \in Paths, related \in Relations,
             part \in [Grants -> Nat] : Posts(t, start, kind, h, related, part)
    BY <1>1, Zenon DEF Posting
  <2>2. Written(t, start, kind, h, related, part)
    BY <2>1, PostFacts DEF Posts
  <2> QED BY <2>2 DEF Written
<1>2. CASE \E start \in Time, t \in Txns, r \in Txns, part \in Parts :
             \E sweep \in Sweeps(start, part) : Reverse(t, r, start, part, sweep)
  <2>1. PICK t \in Txns, r \in Txns, part \in Parts :
             \E sweep : Reversed(t, r, part, sweep)
    BY <1>2, ReversePostings
  <2> QED BY <2>1 DEF Reversed
<1>3. CASE \/ \E start \in Time, h \in Holds, alloc \in Parts : CreateHold(h, start, alloc)
           \/ \E start \in Time, h \in Holds : VoidHold(h, start)
           \/ UNCHANGED vars
  BY <1>3 DEF CreateHold, VoidHold, vars
<1> QED BY <1>1, <1>2, <1>3, NextSteps, StepCases

\* A step that issues nothing keeps the origins.
LEMMA SteadyOrigin ==
  ASSUME TypeInv, TypeInv', OriginInv, [Next]_vars, UNCHANGED <<issued_by, expires_at>>,
         \A g \in Grants : Steady(g)
  PROVE  OriginInv'
<1> SUFFICES ASSUME NEW g \in Grants
             PROVE  /\ issued_by[g] = None => capacity'[g] = NoCapacity /\ expires_at[g] = NoExpiry
                    /\ issued_by[g] # None =>
                         /\ posting'[issued_by[g]] # Unposted
                         /\ posting'[issued_by[g]].part = Only(g, capacity'[g].granted)
  BY DEF OriginInv, Issued, Only
<1>1. CASE issued_by[g] = None
  BY <1>1 DEF OriginInv, Issued, Steady
<1>2. CASE issued_by[g] # None
  <2>1. issued_by[g] \in Txns
    BY <1>2 DEF TypeInv, TypeOK
  <2>2. /\ posting[issued_by[g]] # Unposted
        /\ posting[issued_by[g]].part = Only(g, capacity[g].granted)
    BY <1>2 DEF OriginInv, Issued
  <2>3. posting'[issued_by[g]] = posting[issued_by[g]]
    BY <2>1, <2>2, PostedStays
  <2>4. capacity'[g].granted = capacity[g].granted
    BY DEF Steady
  <2> QED BY <1>2, <2>2, <2>3, <2>4
<1> QED BY <1>1, <1>2

\* Issuing a grant.
LEMMA IssueOrigin ==
  ASSUME TypeInv, TypeInv', OriginInv, NEW t \in Txns, NEW start \in Time, NEW related \in Relations,
         NEW part \in [Grants -> Nat], Posts(t, start, "ISSUANCE", None, related, part)
  PROVE  OriginInv' /\ \A g \in Grants : Pots!Move(g)
<1>1. PICK k \in Grants, e \in 1..NoExpiry :
        /\ ~Issued(k) /\ e > start /\ part = Only(k, AmountOf[k])
        /\ issued_by' = [issued_by EXCEPT ![k] = t] /\ expires_at' = [expires_at EXCEPT ![k] = e]
  BY DEF Posts
<1> DEFINE n == AmountOf[k]
<1>2. n \in Nat /\ n > 0 /\ part[k] = n /\ \A g \in Grants \ {k} : part[g] = 0
  BY <1>1, Bounded, OnlyNat
<1> HIDE DEF n
<1>3. Written(t, start, "ISSUANCE", None, related, part)
  BY PostFacts DEF Posts, Kinds, Paths
<1>4. /\ posting[t] = Unposted /\ posting'[t].part = part /\ posting'[t].kind = "ISSUANCE"
      /\ \A u \in Txns \ {t} : posting'[u] = posting[u]
  BY <1>3 DEF Written
<1>5. \A g \in Grants : capacity'[g] = Appended(capacity[g], "ISSUANCE", part[g], FALSE)
  BY <1>3 DEF Written, AppendRows
<1>6. capacity[k] = NoCapacity
  BY <1>1 DEF OriginInv
<1>7. ~Past'[k]
  <2>1. began' = start /\ start \in Nat /\ expires_at'[k] = e /\ e \in Int
    BY <1>1, <1>3 DEF Written, TypeInv, TypeOK, Time
  <2>2. Past'[k] <=> expires_at'[k] <= began'
    BY DEF Past, Due
  <2> QED BY <1>1, <2>1, <2>2
<1>8. \A g \in Grants \ {k} : /\ issued_by'[g] = issued_by[g] /\ expires_at'[g] = expires_at[g]
                              /\ capacity'[g] = capacity[g]
  <2> SUFFICES ASSUME NEW g \in Grants \ {k}
               PROVE  /\ issued_by'[g] = issued_by[g] /\ expires_at'[g] = expires_at[g]
                      /\ capacity'[g] = capacity[g]
    OBVIOUS
  <2>1. capacity'[g] = Appended(capacity[g], "ISSUANCE", 0, FALSE) /\ capacity[g] \in CapacityRow
    BY <1>2, <1>5 DEF TypeInv, TypeOK
  <2>2. capacity'[g] = capacity[g]
    BY <2>1, NothingAppended DEF Kinds
  <2> QED BY <1>1, <2>2 DEF TypeInv, TypeOK
<1>9. ASSUME NEW g \in Grants PROVE Pots!Move(g)
  <2>1. CASE g = k
    BY <1>2, <1>5, <1>6, <1>7, <2>1, AppendMoves
  <2>2. CASE g # k
    BY <1>8, <2>2, KeepMoves
  <2> QED BY <2>1, <2>2
<1>10. ASSUME NEW g \in Grants
      PROVE  /\ issued_by'[g] = None => capacity'[g] = NoCapacity /\ expires_at'[g] = NoExpiry
             /\ issued_by'[g] # None =>
                  /\ posting'[issued_by'[g]] # Unposted
                  /\ posting'[issued_by'[g]].part = Only(g, capacity'[g].granted)
  <2>1. CASE g = k
    <3>1. issued_by'[k] = t /\ t # None
      BY <1>1 DEF TypeInv, TypeOK
    <3>2. posting'[t].part = Only(k, n)
      BY <1>1, <1>4 DEF n
    <3>3. capacity'[k].granted = n
      <4>1. capacity'[k] = Appended(NoCapacity, "ISSUANCE", n, FALSE)
        BY <1>2, <1>5, <1>6
      <4> QED BY <1>2, <4>1 DEF Appended, NoCapacity
    <3>4. posting'[t] # Unposted
      BY <1>4 DEF Unposted
    <3> QED BY <2>1, <3>1, <3>2, <3>3, <3>4
  <2>2. CASE g # k
    <3>1. issued_by'[g] = issued_by[g] /\ expires_at'[g] = expires_at[g] /\ capacity'[g] = capacity[g]
      BY <1>8, <2>2
    <3>2. CASE issued_by[g] = None
      BY <3>1, <3>2 DEF OriginInv, Issued
    <3>3. CASE issued_by[g] # None
      <4>1. issued_by[g] \in Txns
        BY <3>3 DEF TypeInv, TypeOK
      <4>2. /\ posting[issued_by[g]] # Unposted
            /\ posting[issued_by[g]].part = Only(g, capacity[g].granted)
        BY <3>3 DEF OriginInv, Issued
      <4>3. posting'[issued_by[g]] = posting[issued_by[g]]
        BY <1>4, <4>1, <4>2
      <4> QED BY <3>1, <3>3, <4>2, <4>3
    <3> QED BY <3>2, <3>3
  <2> QED BY <2>1, <2>2
<1>11. OriginInv'
  BY <1>10 DEF OriginInv, Issued, Only
<1> QED BY <1>9, <1>11

\* Every step keeps the origins and is a step of CreditPots.
LEMMA StepPots ==
  ASSUME TypeInv, TypeInv', LineageInv, OriginInv, [Next]_vars
  PROVE  OriginInv' /\ [Pots!Next]_(Pots!vars)
<1>1. ASSUME \A g \in Grants : Pots!Move(g)
      PROVE  Pots!Next
  <2>1. [g \in Grants |-> Due(g, began)]' \in [Grants -> BOOLEAN]
    BY DEF Due
  <2> QED BY <1>1, <2>1 DEF Pots!Next
<1>2. ASSUME \A g \in Grants : Steady(g), UNCHANGED <<expires_at, issued_by>>
      PROVE  OriginInv' /\ Pots!Next
  BY <1>1, <1>2, SteadyOrigin DEF Steady
<1>3. CASE Posting
  <2>1. PICK t \in Txns, start \in Time, kind \in Kinds \ {"COMPENSATION"}, h \in Paths, related \in Relations,
             part \in [Grants -> Nat] : Posts(t, start, kind, h, related, part)
    BY <1>3, Zenon DEF Posting
  <2>2. CASE kind = "ISSUANCE"
    <3>1. h = None
      BY <2>1, <2>2 DEF Posts
    <3>2. Posts(t, start, "ISSUANCE", None, related, part)
      BY <2>1, <2>2, <3>1
    <3>3. OriginInv' /\ \A g \in Grants : Pots!Move(g)
      BY <3>2, IssueOrigin
    <3> QED BY <1>1, <3>3
  <2>3. CASE kind # "ISSUANCE"
    <3>1. kind \in Kinds \ {"COMPENSATION", "ISSUANCE"}
      BY <2>3
    <3>2. UNCHANGED <<expires_at, issued_by>> /\ \A g \in Grants : Steady(g)
      BY <2>1, <3>1, PostsSteady
    <3> QED BY <1>2, <3>2
  <2> QED BY <2>2, <2>3
<1>4. CASE \/ \E start \in Time, h \in Holds, alloc \in Parts : CreateHold(h, start, alloc)
           \/ \E start \in Time, h \in Holds : VoidHold(h, start)
  <2>1. \A g \in Grants : Steady(g)
    BY <1>4, HoldsSteady
  <2> QED BY <1>2, <1>4, <2>1 DEF CreateHold, VoidHold
<1>5. CASE \E start \in Time, t \in Txns, r \in Txns, part \in Parts :
             \E sweep \in Sweeps(start, part) : Reverse(t, r, start, part, sweep)
  <2>1. \A g \in Grants : Steady(g)
    BY <1>5, ReverseSteady
  <2> QED BY <1>2, <1>5, <2>1 DEF Reverse
<1>6. CASE UNCHANGED vars
  <2>1. OriginInv'
    BY <1>6 DEF vars, OriginInv, Issued
  <2>2. UNCHANGED Pots!vars
    BY <1>6 DEF vars, Pots!vars, Unreserved, Due
  <2> QED BY <2>1, <2>2
<1> QED BY <1>3, <1>4, <1>5, <1>6, NextSteps, StepCases

LEMMA InitPots == Init => OriginInv /\ Pots!Init
<1> SUFFICES ASSUME Init PROVE OriginInv /\ Pots!Init
  OBVIOUS
<1>1. OriginInv
  BY DEF Init, OriginInv, Issued
<1>2. \A g \in Grants : ~Due(g, began)
  BY DEF Init, Due, NoExpiry
<1>3. \A g \in Grants : Unreserved(g) = 0
  BY DEF Init, Unreserved, NoCapacity
<1>4. \A g \in Grants : /\ capacity[g].reserved = 0 /\ capacity[g].consumed - capacity[g].compensated = 0
                        /\ capacity[g].reversed + capacity[g].expired = 0
  BY DEF Init, NoCapacity
<1>5. [g \in Grants |-> Due(g, began)] = [g \in Grants |-> FALSE]
  <2>1. \A g \in Grants : Due(g, began) = FALSE
    BY <1>2 DEF Due
  <2> QED BY <2>1, Zenon
<1> QED BY <1>1, <1>3, <1>4, <1>5 DEF Pots!Init

\* Every transaction of the ledger moves the units of each grant between free, held,
\* spent and closed as the abstract rules allow: no sequence of transactions, in
\* whatever order they began, creates credit, returns closed credit or, where one began
\* with the grant due, frees expired credit other than by voiding a hold.
THEOREM LedgerImplementsPots == Spec => ImplementsPots
<1>1. TypeInv /\ TypeInv' /\ LineageInv /\ OriginInv /\ [Next]_vars => OriginInv' /\ [Pots!Next]_(Pots!vars)
  BY StepPots
<1>2. Spec => []TypeInv
  BY InitType, StepType, PTL DEF Spec
<1>3. Spec => []LineageInv
  BY <1>2, InitLineage, StepLineage, PTL DEF Spec
<1>4. Spec => ImplementsPots
  BY <1>1, <1>2, <1>3, InitPots, PTL DEF Spec, ImplementsPots, Pots!Spec
<1> QED BY <1>4

-----------------------------------------------------------------------------
(* Expired credit.                                                         *)

\* What a step may do to a due grant.
Calm(g) ==
  /\ capacity'[g].consumed - capacity[g].consumed <= capacity[g].reserved
  /\ \/ capacity'[g].consumed - capacity[g].consumed <= capacity[g].reserved - capacity'[g].reserved
     \/ capacity'[g].consumed = capacity[g].consumed
  /\ Free'[g] <= Free[g]

LEMMA UntouchedCalm ==
  ASSUME TypeInv, NEW g \in Grants, capacity'[g] = capacity[g]
  PROVE  Calm(g)
<1>1. capacity[g].consumed \in Nat /\ capacity[g].reserved \in Nat /\ Free[g] \in Int
  BY CountersOf, PotsInt DEF Counters
<1>2. Free'[g] = Free[g]
  BY PotsOf
<1> QED BY <1>1, <1>2 DEF Calm

LEMMA AppendCalm ==
  ASSUME TypeInv, TypeInv', NEW g \in Grants, NEW n \in Nat, NEW kind \in Kinds, NEW b \in BOOLEAN,
         capacity'[g] = Appended(capacity[g], kind, n, b),
         n > 0 => \/ kind = "CONSUMPTION" /\ b = TRUE /\ n <= capacity[g].reserved
                  \/ kind \in {"REFUND", "EXPIRATION", "REVERSAL"}
  PROVE  Calm(g)
<1>1. PICK rem, res, con, com, rev, exp \in Nat, rem1, res1, con1, com1, rev1, exp1 \in Nat :
        /\ capacity[g].remaining = rem /\ capacity[g].reserved = res /\ capacity[g].consumed = con
        /\ capacity[g].compensated = com /\ capacity[g].reversed = rev /\ capacity[g].expired = exp
        /\ capacity'[g].remaining = rem1 /\ capacity'[g].reserved = res1 /\ capacity'[g].consumed = con1
        /\ capacity'[g].compensated = com1 /\ capacity'[g].reversed = rev1 /\ capacity'[g].expired = exp1
        /\ Free[g] = rem - res /\ Held[g] = res /\ Spent[g] = con - com /\ Closed[g] = rev + exp
        /\ Free'[g] = rem1 - res1 /\ Held'[g] = res1 /\ Spent'[g] = con1 - com1 /\ Closed'[g] = rev1 + exp1
  BY PotValues
<1>2. CASE n = 0
  <2>1. capacity[g] \in CapacityRow
    BY DEF TypeInv, TypeOK
  <2> QED BY <1>2, <2>1, NothingAppended, UntouchedCalm
<1>3. CASE kind = "CONSUMPTION" /\ b = TRUE /\ n <= capacity[g].reserved
  <2>1. rem1 = rem - n /\ res1 = res - n /\ con1 = con + n
    BY <1>1, <1>3 DEF Appended
  <2> QED BY <1>1, <1>3, <2>1 DEF Calm
<1>4. CASE kind \in {"REFUND", "EXPIRATION", "REVERSAL"}
  <2>1. rem1 = rem - n /\ res1 = res /\ con1 = con
    BY <1>1, <1>4 DEF Appended
  <2> QED BY <1>1, <2>1 DEF Calm
<1>5. n = 0 \/ n > 0
  OBVIOUS
<1> QED BY <1>2, <1>3, <1>4, <1>5, Zenon

\* The grant a transaction issues was not due when it began: it had no expiry yet.
LEMMA IssuedNotDue ==
  ASSUME TypeInv, TypeInv', OriginInv, NEW k \in Grants, ~Issued(k)
  PROVE  ~Due(k, began')
<1>1. expires_at[k] = NoExpiry
  BY DEF OriginInv
<1>2. began' \in Nat /\ began' <= MaxTime
  BY DEF TypeInv, TypeOK, Time
<1> QED BY <1>1, <1>2 DEF Due, NoExpiry

\* A transaction begun with a grant due does not spend the free credit of the grant or
\* add to it, unless it voids a hold.
LEMMA DueIsCalm ==
  ASSUME TypeInv, TypeInv', LineageInv, OriginInv, [Next]_vars, NEW g \in Grants, Due(g, began'),
         \A h \in Holds, start \in Time : ~VoidHold(h, start)
  PROVE  Calm(g)
<1>1. CASE Posting
  <2>1. PICK t \in Txns, start \in Time, kind \in Kinds \ {"COMPENSATION"}, h \in Paths, related \in Relations,
             part \in [Grants -> Nat] : Posts(t, start, kind, h, related, part)
    BY <1>1, Zenon DEF Posting
  <2>2. Written(t, start, kind, h, related, part)
    BY <2>1, PostFacts DEF Posts
  <2> DEFINE b == h # None
  <2>3. part[g] \in Nat /\ b \in BOOLEAN /\ capacity'[g] = Appended(capacity[g], kind, part[g], b) /\ Due(g, start)
    BY <2>2 DEF Written, AppendRows
  <2>4. part[g] > 0 => \/ kind = "CONSUMPTION" /\ b = TRUE /\ part[g] <= capacity[g].reserved
                      \/ kind \in {"REFUND", "EXPIRATION", "REVERSAL"}
    <3> SUFFICES ASSUME part[g] > 0 PROVE <2>4!2
      OBVIOUS
    <3>1. CASE kind = "ISSUANCE" /\ \E k \in Grants : ~Issued(k) /\ part = Only(k, AmountOf[k])
      <4>1. PICK k \in Grants : ~Issued(k) /\ part = Only(k, AmountOf[k])
        BY <3>1
      <4>2. g = k
        BY <4>1, Bounded, OnlyNat
      <4> QED BY <4>1, <4>2, IssuedNotDue
    <3>2. CASE kind \in {"CONSUMPTION", "REFUND"} /\ Spendable(part, start)
      BY <2>3, <3>2 DEF Spendable
    <3>3. CASE kind = "CONSUMPTION" /\ h # None /\ part[g] <= capacity[g].reserved
      BY <3>3
    <3>4. CASE kind \in {"EXPIRATION", "REVERSAL"}
      BY <3>4
    <3> QED BY <2>1, <3>1, <3>2, <3>3, <3>4 DEF Posts
  <2> HIDE DEF b
  <2> QED BY <2>3, <2>4, AppendCalm
<1>2. CASE \E start \in Time, h \in Holds, alloc \in Parts : CreateHold(h, start, alloc)
  <2>1. PICK start \in Time, h \in Holds, alloc \in Parts : CreateHold(h, start, alloc)
    BY <1>2
  <2>2. alloc[g] = 0
    BY <2>1, Bounded DEF CreateHold
  <2>3. capacity'[g] = Reserving(capacity[g], 0) /\ capacity[g] \in CapacityRow
    BY <2>1, <2>2 DEF CreateHold, TypeInv, TypeOK
  <2> QED BY <2>3, NothingAppended, UntouchedCalm DEF Kinds
<1>3. CASE \E start \in Time, t \in Txns, r \in Txns, part \in Parts :
             \E sweep \in Sweeps(start, part) : Reverse(t, r, start, part, sweep)
  <2>0. PICK start \in Time, t \in Txns, r \in Txns, part \in Parts :
             \E sweep \in Sweeps(start, part) : Reverse(t, r, start, part, sweep)
    BY <1>3
  <2>00. PICK sweep \in Sweeps(start, part) : Reverse(t, r, start, part, sweep)
    BY <2>0
  <2> DEFINE out == Sweeping(part, sweep)[g]
  <2>1. part[g] \in Nat /\ out \in Nat /\ capacity[g] \in CapacityRow
    BY <2>00, ReverseMatches DEF TypeInv, TypeOK
  <2>2. capacity'[g] = Appended(Appended(capacity[g], "COMPENSATION", part[g], FALSE), "EXPIRATION", out, FALSE)
    BY <2>00 DEF Reverse, Sweeping
  <2>3. capacity'[g].consumed = capacity[g].consumed /\ capacity'[g].reserved = capacity[g].reserved
    BY <2>1, <2>2 DEF Appended, CapacityRow
  <2>4. out = IF part[g] > 0 THEN Unreserved(g) + part[g] ELSE 0
    <3>1. Due(g, start)
      BY <2>00 DEF Reverse
    <3> QED BY <3>1 DEF Sweeping, Sweeps
  <2>5. capacity'[g].remaining = capacity[g].remaining + part[g] - out
    BY <2>1, <2>2 DEF Appended, CapacityRow
  <2>6. capacity[g].consumed \in Nat /\ capacity[g].reserved \in Nat /\ capacity[g].remaining \in Nat
        /\ capacity[g].reserved <= capacity[g].remaining
    BY DEF TypeInv, TypeOK, CapacityRow, ChecksPass, VersionChecks
  <2>7. Free[g] = capacity[g].remaining - capacity[g].reserved
        /\ Free'[g] = capacity[g].remaining + part[g] - out - capacity[g].reserved
    <3>1. capacity'[g].remaining \in Nat /\ capacity'[g].reserved \in Nat
      BY CountersOf DEF Counters
    <3>2. /\ Free[g] = capacity[g].remaining - capacity[g].reserved
          /\ Free'[g] = capacity'[g].remaining - capacity'[g].reserved
      BY PotsOf
    <3> QED BY <2>1, <2>3, <2>5, <2>6, <3>1, <3>2
  <2> HIDE DEF out
  <2>8. Free'[g] <= Free[g]
    BY <2>1, <2>4, <2>6, <2>7 DEF Unreserved
  <2> QED BY <2>3, <2>6, <2>8 DEF Calm
<1>4. CASE UNCHANGED vars
  BY <1>4, UntouchedCalm DEF vars
<1> QED BY <1>1, <1>2, <1>3, <1>4, NextSteps, StepCases

\* Whatever commits and in whatever order it began, a transaction that began when a grant was
\* due spends the grant's credit through reservations only and frees it only by voiding a hold.
THEOREM ExpiredCreditStaysPut == Spec => ExpiredCreditDoesNotCirculate
<1> DEFINE Step == \A g \in Grants : Due(g, began') =>
       /\ capacity[g].consumed' - capacity[g].consumed <= capacity[g].reserved
       /\ capacity[g].consumed' - capacity[g].consumed
            <= capacity[g].reserved - capacity[g].reserved' \/ capacity[g].consumed' = capacity[g].consumed
       /\ Unreserved(g)' > Unreserved(g) =>
            \E h \in Holds : hold[h].state = "HELD" /\ hold[h].state' = "VOIDED"
<1>1. ASSUME TypeInv, TypeInv', LineageInv, OriginInv, [Next]_vars PROVE Step
  <2> SUFFICES ASSUME NEW g \in Grants, Due(g, began')
               PROVE  /\ capacity'[g].consumed - capacity[g].consumed <= capacity[g].reserved
                      /\ \/ capacity'[g].consumed - capacity[g].consumed
                              <= capacity[g].reserved - capacity'[g].reserved
                         \/ capacity'[g].consumed = capacity[g].consumed
                      /\ Unreserved(g)' > Unreserved(g) =>
                           \E h \in Holds : hold[h].state = "HELD" /\ hold'[h].state = "VOIDED"
    OBVIOUS
  <2>1. CASE \A h \in Holds, start \in Time : ~VoidHold(h, start)
    <3>1. Calm(g)
      BY <1>1, <2>1, DueIsCalm
    <3>2. Unreserved(g) = Free[g] /\ Unreserved(g)' = Free'[g] /\ Free[g] \in Int /\ Free'[g] \in Int
      BY <1>1, PotsOf, PotValues DEF Unreserved
    <3> QED BY <3>1, <3>2 DEF Calm
  <2>2. ASSUME NEW h \in Holds, NEW start \in Time, VoidHold(h, start)
        PROVE  /\ capacity'[g].consumed = capacity[g].consumed
               /\ hold[h].state = "HELD" /\ hold'[h].state = "VOIDED"
    BY <1>1, <2>2 DEF VoidHold, Reserving, Moved, TypeInv, TypeOK
  <2>3. capacity[g].consumed \in Nat /\ capacity[g].reserved \in Nat
    BY <1>1, CountersOf DEF Counters
  <2> QED BY <2>1, <2>2, <2>3
<1>2. Spec => []TypeInv
  BY InitType, StepType, PTL DEF Spec
<1>3. Spec => []LineageInv
  BY <1>2, InitLineage, StepLineage, PTL DEF Spec
<1>4. Spec => []OriginInv
  <2>1. TypeInv /\ TypeInv' /\ LineageInv /\ OriginInv /\ [Next]_vars => OriginInv'
    BY StepPots
  <2> QED BY <1>2, <1>3, <2>1, InitPots, PTL DEF Spec
<1> QED BY <1>1, <1>2, <1>3, <1>4, PTL DEF Spec, ExpiredCreditDoesNotCirculate

-----------------------------------------------------------------------------
(* Reversals.                                                              *)

\* Account by account, rows are those of another posting or none.
AllOrNothing(part, whole) ==
  \A a \in Accounts : (\A g \in GrantsOf(a) : part[g] = whole[g]) \/ (\A g \in GrantsOf(a) : part[g] = 0)

\* Compensation r gives back what exactly one posting consumed, and is the only one to.
Restores(r) ==
  posting[r].kind = "COMPENSATION" =>
    /\ posting[r].related \in Txns
    /\ posting[posting[r].related].kind = "CONSUMPTION"
    /\ AllOrNothing(posting[r].part, posting[posting[r].related].part)
    /\ \A u \in Txns : posting[u].related = posting[r].related => u = r

ClosedRow(n) == [granted |-> n, reversed |-> n, consumed |-> 0, compensated |-> 0,
                 expired |-> 0, remaining |-> 0, reserved |-> 0]

\* A grant whose issuance was reversed is closed.
ReversedIsClosed(g) == Rows(g, {"REVERSAL"}) > 0 => capacity[g] = ClosedRow(Rows(g, {"REVERSAL"}))

RestoreInv == (\A r \in Txns : Restores(r)) /\ (\A g \in Grants : ReversedIsClosed(g))

\* A transaction other than a compensation restores nothing.
LEMMA PostRestores ==
  ASSUME TypeInv, RestoreInv, NEW t \in Txns, NEW start, NEW kind \in Kinds \ {"COMPENSATION"}, NEW h \in Paths,
         NEW related \in Relations, NEW part \in [Grants -> Nat],
         Post(t, start, kind, h, related, part), NEW r \in Txns
  PROVE  Restores(r)'
<1>0. Written(t, start, kind, h, related, part)
  BY PostFacts
<1>1. /\ \A u \in Txns \ {t} : posting'[u] = posting[u]
      /\ posting'[t].kind = kind /\ posting'[t].related = related /\ posting[t] = Unposted
      /\ related = None \/ NotReversed(related)
  BY <1>0 DEF Written, Mirrors
<1> SUFFICES ASSUME posting'[r].kind = "COMPENSATION"
             PROVE  /\ posting'[r].related \in Txns
                    /\ posting'[posting'[r].related].kind = "CONSUMPTION"
                    /\ AllOrNothing(posting'[r].part, posting'[posting'[r].related].part)
                    /\ \A u \in Txns : posting'[u].related = posting'[r].related => u = r
  BY DEF Restores, AllOrNothing, GrantsOf
<1>2. r # t /\ posting'[r] = posting[r]
  BY <1>1
<1> DEFINE s == posting[r].related
<1>3. /\ s \in Txns /\ posting[s].kind = "CONSUMPTION" /\ AllOrNothing(posting[r].part, posting[s].part)
      /\ \A u \in Txns : posting[u].related = s => u = r
  BY <1>2 DEF RestoreInv, Restores
<1>4. s # t
  BY <1>1, <1>3 DEF Unposted
<1>5. posting'[s] = posting[s]
  BY <1>1, <1>3, <1>4
<1>6. related # s
  BY <1>1, <1>2, <1>3 DEF NotReversed
<1> HIDE DEF s
<1>7. posting'[r].related = s
  BY <1>2 DEF s
<1>8. ASSUME NEW u \in Txns, posting'[u].related = s PROVE u = r
  BY <1>1, <1>3, <1>6, <1>8
<1> QED BY <1>2, <1>3, <1>5, <1>7, <1>8

\* Account by account, a reversal's part is the reversed posting's or nothing: both
\* attribute the same entry completely.
LEMMA ReversedPart ==
  ASSUME TypeInv, LineageInv, NEW start, NEW t \in Txns, NEW r \in Txns, NEW part \in Parts,
         NEW sweep \in Sweeps(start, part), Reverse(t, r, start, part, sweep)
  PROVE  posting[t].kind = "CONSUMPTION" /\ AllOrNothing(part, posting[t].part)
<1>1. /\ posting[t].kind = "CONSUMPTION" /\ \A k \in Grants : part[k] > 0 => part[k] = posting[t].part[k]
      /\ Mirrors("COMPENSATION", Entries(part), t)
  BY DEF Reverse
<1>2. part \in [Grants -> Nat] /\ posting[t].part \in [Grants -> Nat]
  BY Bounded DEF TypeInv, TypeOK, PostingRow
<1>3. ASSUME NEW a \in Accounts
      PROVE  \/ \A g \in GrantsOf(a) : part[g] = posting[t].part[g]
             \/ \A g \in GrantsOf(a) : part[g] = 0
  <2>1. GrantsOf(a) \subseteq Grants /\ IsFiniteSet(GrantsOf(a))
    BY GrantsOfFinite
  <2>2. PartsOf(part, a) \in [GrantsOf(a) -> Nat] /\ PartsOf(posting[t].part, a) \in [GrantsOf(a) -> Nat]
    BY <1>2, RemaindersNat
  <2>3. Entries(part)[a] = Tally(PartsOf(part, a)) /\ Tally(PartsOf(part, a)) \in Nat
    BY <2>1, <2>2, TallyNat DEF Entries, Attributed, PartsOf
  <2>4. CASE Entries(part)[a] > 0
    <3>1. posting[t].entry[a] = Entries(part)[a]
      BY <1>1, <2>4 DEF Mirrors
    <3>2. posting[t].entry[a] = Tally(PartsOf(posting[t].part, a))
      BY DEF LineageInv, Entries, Attributed, PartsOf
    <3>3. ASSUME NEW k \in GrantsOf(a) PROVE PartsOf(part, a)[k] <= PartsOf(posting[t].part, a)[k]
      <4>1. part[k] \in Nat /\ posting[t].part[k] \in Nat
        BY <1>2, <2>1
      <4>2. part[k] <= posting[t].part[k]
        BY <1>1, <2>1, <4>1
      <4> QED BY <4>2 DEF PartsOf
    <3>4. Tally(PartsOf(part, a)) = Tally(PartsOf(posting[t].part, a))
      BY <2>3, <3>1, <3>2
    <3>5. \A k \in GrantsOf(a) : PartsOf(part, a)[k] = PartsOf(posting[t].part, a)[k]
      BY <2>1, <2>2, <3>3, <3>4, TallyPointwise
    <3> QED BY <3>5 DEF PartsOf
  <2>5. CASE Entries(part)[a] = 0
    <3>1. ASSUME NEW k \in GrantsOf(a) PROVE part[k] = 0
      <4>1. PartsOf(part, a)[k] <= Tally(PartsOf(part, a))
        BY <2>1, <2>2, TallyRow
      <4>2. part[k] \in Nat /\ PartsOf(part, a)[k] = part[k]
        BY <1>2, <2>1 DEF PartsOf
      <4> QED BY <2>3, <2>5, <4>1, <4>2
    <3> QED BY <3>1
  <2> QED BY <2>3, <2>4, <2>5
<1> QED BY <1>1, <1>3 DEF AllOrNothing

LEMMA ReverseRestores ==
  ASSUME TypeInv, LineageInv, RestoreInv, NEW start, NEW t \in Txns, NEW r \in Txns, NEW part \in Parts,
         NEW sweep \in Sweeps(start, part), Reverse(t, r, start, part, sweep),
         NEW q \in Txns
  PROVE  Restores(q)'
<1>0. Reversed(t, r, part, sweep)
  BY ReversePostings
<1>1. posting[t] # Unposted /\ NotReversed(t) /\ posting[r] = Unposted
  <2>1. posting[t].kind = "CONSUMPTION"
    BY ReversedPart
  <2> QED BY <2>1 DEF Reverse, Mirrors, Unposted
<1>2. posting'[r].kind = "COMPENSATION" /\ posting'[r].related = t /\ posting'[r].part = part
  <2>1. posting'[r] = ReversalRow(t, part)
    BY <1>0 DEF Reversed
  <2> QED BY <2>1 DEF ReversalRow
<1>3. ASSUME NEW u \in Txns
      PROVE  \/ u = r
             \/ posting'[u].kind = "EXPIRATION" /\ posting'[u].related = None /\ posting[u] = Unposted
             \/ u # r /\ posting'[u] = posting[u]
  <2>1. ASSUME NEW k \in DOMAIN sweep, sweep[k] = u
        PROVE  posting'[u].kind = "EXPIRATION" /\ posting'[u].related = None /\ posting[u] = Unposted
    <3>1. posting'[u] = SweptRow(part, sweep, k) /\ posting[u] = Unposted
      BY <1>0, <2>1 DEF Reversed
    <3> QED BY <3>1 DEF SweptRow
  <2>2. CASE u # r /\ \A k \in DOMAIN sweep : sweep[k] # u
    BY <1>0, <2>2 DEF Reversed
  <2> QED BY <2>1, <2>2
<1>4. None \notin Txns /\ Unposted.kind = "NONE"
  BY DEF Unposted
<1> SUFFICES ASSUME posting'[q].kind = "COMPENSATION"
             PROVE  /\ posting'[q].related \in Txns
                    /\ posting'[posting'[q].related].kind = "CONSUMPTION"
                    /\ AllOrNothing(posting'[q].part, posting'[posting'[q].related].part)
                    /\ \A u \in Txns : posting'[u].related = posting'[q].related => u = q
  BY DEF Restores, AllOrNothing, GrantsOf
<1>5. CASE q = r
  <2>1. posting[t].kind = "CONSUMPTION" /\ AllOrNothing(part, posting[t].part)
    BY ReversedPart
  <2>2. posting'[t] = posting[t]
    BY <1>1, <1>3, <1>4, <2>1
  <2>3. ASSUME NEW u \in Txns, posting'[u].related = t PROVE u = r
    BY <1>1, <1>3, <1>4, <2>3 DEF NotReversed
  <2> QED BY <1>2, <1>5, <2>1, <2>2, <2>3
<1>6. CASE q # r
  <2> DEFINE s == posting[q].related
  <2>1. posting'[q] = posting[q]
    BY <1>3, <1>6
  <2>2. /\ s \in Txns /\ posting[s].kind = "CONSUMPTION" /\ AllOrNothing(posting[q].part, posting[s].part)
        /\ \A u \in Txns : posting[u].related = s => u = q
    BY <2>1 DEF RestoreInv, Restores
  <2>3. s # t
    BY <1>1 DEF NotReversed
  <2>4. posting'[q].related = s
    BY <2>1
  <2> HIDE DEF s
  <2>5. posting'[s] = posting[s]
    BY <1>1, <1>3, <1>4, <2>2
  <2>6. ASSUME NEW u \in Txns, posting'[u].related = s PROVE u = q
    BY <1>2, <1>3, <1>4, <2>2, <2>3, <2>6
  <2> QED BY <2>1, <2>2, <2>4, <2>5, <2>6
<1> QED BY <1>5, <1>6

\* What was not consumed was not given back.
LEMMA NothingCompensated ==
  ASSUME TypeInv, LineageInv, RestoreInv, NEW g \in Grants, capacity[g].consumed = 0
  PROVE  capacity[g].compensated = 0
<1>1. Rows(g, {"CONSUMPTION"}) = 0 /\ capacity[g].compensated = Rows(g, {"COMPENSATION"})
  BY DEF LineageInv, GrantMatches
<1>2. ASSUME NEW r \in Txns PROVE LineageRows(g, {"COMPENSATION"})[r] = 0
  <2>1. CASE posting[r].kind = "COMPENSATION"
    <3> DEFINE s == posting[r].related
    <3>0. AccountOf[g] \in Accounts /\ g \in GrantsOf(AccountOf[g])
      BY DEF GrantsOf
    <3>1. s \in Txns /\ posting[s].kind = "CONSUMPTION" /\ posting[r].part[g] \in {0, posting[s].part[g]}
      BY <2>1, <3>0 DEF RestoreInv, Restores, AllOrNothing
    <3>2. LineageRows(g, {"CONSUMPTION"})[s] = posting[s].part[g]
      BY <3>1 DEF LineageRows
    <3>3. LineageRows(g, {"CONSUMPTION"})[s] <= Tally(LineageRows(g, {"CONSUMPTION"}))
      BY <3>1, LineageRowsNat, TallyRow
    <3>4. posting[s].part[g] \in Nat /\ Tally(LineageRows(g, {"CONSUMPTION"})) = 0
      BY <1>1, <3>1, LineageRowsNat DEF TypeInv, TypeOK, PostingRow
    <3>5. posting[r].part[g] = 0
      BY <3>1, <3>2, <3>3, <3>4
    <3> QED BY <3>5 DEF LineageRows
  <2>2. CASE posting[r].kind # "COMPENSATION"
    BY <2>2 DEF LineageRows
  <2> QED BY <2>1, <2>2
<1>3. Rows(g, {"COMPENSATION"}) = 0
  BY <1>2, LineageRowsNat, TallyZero
<1> QED BY <1>1, <1>3

\* A closed grant cannot be moved: nothing is left of it, reserved, consumed or to issue.
LEMMA ClosedStays ==
  ASSUME TypeInv, TypeInv', LineageInv, OriginInv, [Next]_vars, NEW g \in Grants,
         NEW c, c > 0, c \in Nat, capacity[g] = ClosedRow(c)
  PROVE  capacity'[g] = capacity[g]
<1>1. /\ capacity[g] \in CapacityRow /\ Unreserved(g) = 0 /\ capacity[g].granted = c
      /\ capacity[g].reserved = 0 /\ capacity[g].consumed = 0 /\ capacity[g].remaining = 0
  BY DEF ClosedRow, TypeInv, TypeOK, Unreserved
<1>2. \A kind \in Kinds, b \in BOOLEAN : Appended(capacity[g], kind, 0, b) = capacity[g]
  BY <1>1, NothingAppended
<1>3. {"ISSUANCE", "REVERSAL", "CONSUMPTION", "COMPENSATION", "EXPIRATION", "REFUND"} \subseteq Kinds
  BY DEF Kinds
<1>4. CASE Posting
  <2>1. PICK t \in Txns, start \in Time, kind \in Kinds \ {"COMPENSATION"}, h \in Paths, related \in Relations,
             part \in [Grants -> Nat] : Posts(t, start, kind, h, related, part)
    BY <1>4, Zenon DEF Posting
  <2>2. Written(t, start, kind, h, related, part)
    BY <2>1, PostFacts DEF Posts
  <2>3. part[g] \in Nat /\ (h # None) \in BOOLEAN /\ capacity'[g] = Appended(capacity[g], kind, part[g], h # None)
    BY <2>2 DEF Written, AppendRows
  <2>4. part[g] = 0
    <3>1. CASE kind = "ISSUANCE" /\ \E k \in Grants : ~Issued(k) /\ part = Only(k, AmountOf[k])
      <4>1. PICK k \in Grants : ~Issued(k) /\ part = Only(k, AmountOf[k])
        BY <3>1
      <4>2. g # k
        BY <1>1, <4>1 DEF OriginInv, NoCapacity
      <4> QED BY <4>1, <4>2, Bounded, OnlyNat
    <3>2. CASE Spendable(part, start)
      BY <1>1, <2>3, <3>2 DEF Spendable
    <3>3. CASE part[g] > 0 => part[g] <= capacity[g].remaining
      BY <1>1, <2>3, <3>3
    <3>4. CASE part[g] > 0 => part[g] <= Unreserved(g)
      BY <1>1, <2>3, <3>4
    <3>5. CASE \E k \in Grants : part = Only(k, capacity[k].granted) /\ capacity[k].remaining = capacity[k].granted
      <4>1. PICK k \in Grants : part = Only(k, capacity[k].granted) /\ capacity[k].remaining = capacity[k].granted
        BY <3>5
      <4>2. g # k
        BY <1>1, <4>1
      <4>3. capacity[k].granted \in Nat
        BY DEF TypeInv, TypeOK, CapacityRow
      <4> QED BY <4>1, <4>2, <4>3, OnlyNat
    <3> QED BY <2>1, <3>1, <3>2, <3>3, <3>4, <3>5 DEF Posts
  <2> QED BY <1>2, <2>3, <2>4
<1>8. CASE \/ \E start \in Time, h \in Holds, alloc \in Parts : CreateHold(h, start, alloc)
           \/ \E start \in Time, h \in Holds : VoidHold(h, start)
  <2>1. ASSUME NEW start, NEW h \in Holds, NEW alloc \in Parts, CreateHold(h, start, alloc)
        PROVE  capacity'[g] = Reserving(capacity[g], 0)
    <3>1. alloc[g] \in Nat /\ (alloc[g] > 0 => alloc[g] <= 0)
      BY <1>1, <2>1, Bounded DEF CreateHold
    <3>2. alloc[g] = 0
      BY <3>1
    <3> QED BY <2>1, <3>2 DEF CreateHold
  <2>2. ASSUME NEW start, NEW h \in Holds, VoidHold(h, start)
        PROVE  capacity'[g] = Reserving(capacity[g], 0)
    <3> DEFINE n == HoldConsumed(h, g) - hold[h].alloc[g]
    <3>1. HoldConsumed(h, g) \in Nat /\ hold[h].alloc[g] \in Nat /\ HoldConsumed(h, g) <= hold[h].alloc[g]
      BY <2>2, ThroughHoldNat DEF VoidHold, TypeInv, TypeOK, HoldRow
    <3>2. n \in Int /\ n <= 0
      BY <3>1
    <3>3. capacity'[g] = Reserving(capacity[g], n)
      BY <2>2 DEF VoidHold
    <3> HIDE DEF n
    <3>4. capacity'[g].reserved = 0 + n /\ capacity'[g].reserved \in Nat
      BY <1>1, <3>3, CountersOf DEF Reserving, Counters
    <3>5. n = 0
      BY <3>2, <3>4
    <3> QED BY <3>3, <3>5
  <2>3. Reserving(capacity[g], 0) = capacity[g]
    BY <1>1, NothingAppended DEF Kinds
  <2> QED BY <1>8, <2>1, <2>2, <2>3
<1>9. ASSUME NEW start, NEW t \in Txns, NEW r \in Txns, NEW part \in Parts, NEW sweep \in Sweeps(start, part),
             Reverse(t, r, start, part, sweep)
      PROVE  capacity'[g] = capacity[g]
  <2> DEFINE out == Sweeping(part, sweep)[g]
  <2>1. part[g] \in Nat
    BY Bounded
  <2>2. part[g] > 0 => LineageRows(g, {"CONSUMPTION"})[t] = part[g]
    BY <1>9 DEF Reverse, LineageRows
  <2>3. LineageRows(g, {"CONSUMPTION"})[t] <= 0
    <3>1. LineageRows(g, {"CONSUMPTION"})[t] <= Tally(LineageRows(g, {"CONSUMPTION"}))
      BY LineageRowsNat, TallyRow
    <3>2. Tally(LineageRows(g, {"CONSUMPTION"})) = 0
      BY <1>1, LineageRowsNat DEF LineageInv, GrantMatches
    <3> QED BY <3>1, <3>2
  <2>4. part[g] = 0
    BY <2>1, <2>2, <2>3
  <2>5. out = 0
    BY <2>4 DEF Sweeping, Sweeps
  <2>6. capacity'[g] = Appended(Appended(capacity[g], "COMPENSATION", part[g], FALSE), "EXPIRATION", out, FALSE)
    BY <1>9 DEF Reverse, Sweeping
  <2> HIDE DEF out
  <2> QED BY <1>2, <1>3, <2>4, <2>5, <2>6
<1>10. CASE UNCHANGED vars
  BY <1>10 DEF vars
<1> QED BY <1>4, <1>8, <1>9, <1>10, NextSteps, StepCases

\* The rows of a reversal change with its grant's capacity only.
LEMMA ReversalRowsKept ==
  ASSUME TypeInv, TypeInv', NEW g \in Grants,
         \/ \E t \in Txns, start \in Time, kind \in Kinds \ {"COMPENSATION", "REVERSAL"}, h \in Paths,
               related \in Relations, part \in [Grants -> Nat] : Posts(t, start, kind, h, related, part)
         \/ \E start \in Time, t \in Txns, r \in Txns, part \in Parts :
              \E sweep \in Sweeps(start, part) : Reverse(t, r, start, part, sweep)
         \/ posting' = posting
  PROVE  Rows(g, {"REVERSAL"})' = Rows(g, {"REVERSAL"})
<1> DEFINE K == {"REVERSAL"}
<1>1. "NONE" \notin K /\ Rows(g, K) \in Nat
  BY LineageRowsNat, TallyNat
<1>2. ASSUME NEW t \in Txns, NEW start \in Time, NEW kind \in Kinds \ {"COMPENSATION", "REVERSAL"}, NEW h \in Paths,
             NEW related \in Relations, NEW part \in [Grants -> Nat], Posts(t, start, kind, h, related, part)
      PROVE  Rows(g, K)' = Rows(g, K)
  <2>1. Post(t, start, kind, h, related, part)
    BY <1>2 DEF Posts
  <2>2. Rows(g, K)' = Rows(g, K) + (IF kind \in K THEN part[g] ELSE 0)
    BY <1>1, <2>1, RowsPosted
  <2> QED BY <1>1, <2>2
<1>3. ASSUME NEW start \in Time, NEW t \in Txns, NEW r \in Txns, NEW part \in Parts,
             NEW sweep \in Sweeps(start, part), Reverse(t, r, start, part, sweep)
      PROVE  Rows(g, K)' = Rows(g, K)
  <2>1. RowsReversed(g, K, part, sweep)
    BY <1>3, ReverseRows
  <2>2. "COMPENSATION" \notin K /\ "EXPIRATION" \notin K
    OBVIOUS
  <2> HIDE DEF K
  <2> QED BY <1>1, <2>1, <2>2 DEF RowsReversed
<1>4. CASE posting' = posting
  BY <1>4 DEF Rows
<1>5. CASE \E t \in Txns, start \in Time, kind \in Kinds \ {"COMPENSATION", "REVERSAL"}, h \in Paths,
               related \in Relations, part \in [Grants -> Nat] : Posts(t, start, kind, h, related, part)
  BY <1>2, <1>5, Zenon
<1>6. CASE \E start \in Time, t \in Txns, r \in Txns, part \in Parts :
             \E sweep \in Sweeps(start, part) : Reverse(t, r, start, part, sweep)
  BY <1>3, <1>6, Zenon
<1> QED BY <1>4, <1>5, <1>6, Zenon

\* A grant's closure lasts while nothing reverses.
LEMMA ClosureKept ==
  ASSUME TypeInv, TypeInv', LineageInv, OriginInv, RestoreInv, [Next]_vars, NEW g \in Grants,
         Rows(g, {"REVERSAL"})' = Rows(g, {"REVERSAL"})
  PROVE  ReversedIsClosed(g)'
<1> DEFINE n == Rows(g, {"REVERSAL"})
<1>1. n \in Nat
  BY LineageRowsNat, TallyNat
<1>2. n > 0 => capacity[g] = ClosedRow(n)
  BY DEF RestoreInv, ReversedIsClosed
<1>3. ReversedIsClosed(g)' <=> (n' > 0 => capacity'[g] = ClosedRow(n'))
  BY DEF ReversedIsClosed
<1>4. n' = n
  OBVIOUS
<1> HIDE DEF n
<1>5. n > 0 => capacity'[g] = capacity[g]
  BY <1>1, <1>2, ClosedStays
<1> QED BY <1>2, <1>3, <1>4, <1>5

\* The reversal of an issuance closes its grant and no other.
LEMMA IssuanceReversed ==
  ASSUME TypeInv, TypeInv', LineageInv, OriginInv, RestoreInv, [Next]_vars, NEW t \in Txns, NEW start \in Time,
         NEW h \in Paths, NEW related \in Relations, NEW part \in [Grants -> Nat],
         Posts(t, start, "REVERSAL", h, related, part), NEW g \in Grants
  PROVE  ReversedIsClosed(g)'
<1> DEFINE K == {"REVERSAL"}
<1>1. PICK k \in Grants :
        /\ part = Only(k, capacity[k].granted) /\ capacity[k].remaining = capacity[k].granted
        /\ capacity[k].reserved = 0 /\ capacity[k].consumed = 0 /\ capacity[k].expired = 0
  BY DEF Posts
<1> DEFINE n == capacity[k].granted
<1>2. n \in Nat
  BY DEF TypeInv, TypeOK, CapacityRow
<1>3. Rows(g, K) \in Nat /\ "NONE" \notin K
  BY LineageRowsNat, TallyNat
<1>4. Rows(g, K)' = Rows(g, K) + part[g]
  <2>1. Post(t, start, "REVERSAL", h, related, part) /\ "REVERSAL" \in Kinds
    BY DEF Posts, Kinds
  <2>2. Rows(g, K)' = Rows(g, K) + (IF "REVERSAL" \in K THEN part[g] ELSE 0)
    BY <1>3, <2>1, RowsPosted
  <2> QED BY <2>2
<1>5. \A j \in Grants : part[j] = IF j = k THEN n ELSE 0
  BY <1>1 DEF Only
<1>6. CASE g = k /\ n > 0
  <2>1. Rows(g, K) = 0
    <3>1. SUFFICES ASSUME Rows(g, K) > 0 PROVE FALSE
      BY <1>3
    <3>2. capacity[g] = ClosedRow(Rows(g, K))
      BY <3>1 DEF RestoreInv, ReversedIsClosed
    <3> QED BY <1>1, <1>6, <3>2 DEF ClosedRow
  <2>2. Rows(g, K)' = n
    BY <1>2, <1>4, <1>5, <1>6, <2>1
  <2>3. capacity[k].compensated = 0 /\ capacity[k].reversed = 0
    <3>1. capacity[k].compensated = 0
      BY <1>1, NothingCompensated
    <3>2. Counters(capacity[k])
      BY CountersOf
    <3> QED BY <1>1, <3>1, <3>2 DEF Counters
  <2>4. capacity'[k] = Appended(capacity[k], "REVERSAL", n, h # None)
    <3>1. Written(t, start, "REVERSAL", h, related, part)
      BY PostFacts DEF Posts, Kinds
    <3>2. part[k] = n
      BY <1>5
    <3> QED BY <3>1, <3>2 DEF Written, AppendRows
  <2>5. /\ capacity[k].granted = n /\ capacity[k].remaining = n /\ capacity[k].reserved = 0
        /\ capacity[k].consumed = 0 /\ capacity[k].expired = 0
    BY <1>1
  <2> HIDE DEF n
  <2>6. capacity'[k] = ClosedRow(n)
    BY <1>2, <2>3, <2>4, <2>5 DEF Appended, ClosedRow
  <2> QED BY <1>6, <2>2, <2>6 DEF ReversedIsClosed
<1>7. CASE g # k \/ ~(n > 0)
  <2>1. part[g] = 0
    BY <1>2, <1>5, <1>7
  <2>2. Rows(g, K)' = Rows(g, K)
    BY <1>3, <1>4, <2>1
  <2> QED BY <2>2, ClosureKept
<1> QED BY <1>6, <1>7

LEMMA StepRestore ==
  ASSUME TypeInv, TypeInv', LineageInv, OriginInv, RestoreInv, [Next]_vars
  PROVE  RestoreInv'
<1>1. ASSUME NEW t \in Txns, NEW start \in Time, NEW kind \in Kinds \ {"COMPENSATION"}, NEW h \in Paths,
             NEW related \in Relations, NEW part \in [Grants -> Nat], Posts(t, start, kind, h, related, part)
      PROVE  RestoreInv'
  <2>1. Post(t, start, kind, h, related, part)
    BY <1>1 DEF Posts
  <2>2. \A r \in Txns : Restores(r)'
    BY <2>1, PostRestores
  <2>3. CASE kind = "REVERSAL"
    <3>1. Posts(t, start, "REVERSAL", h, related, part)
      BY <1>1, <2>3
    <3>2. \A g \in Grants : ReversedIsClosed(g)'
      BY <3>1, IssuanceReversed
    <3> QED BY <2>2, <3>2 DEF RestoreInv
  <2>4. CASE kind # "REVERSAL"
    <3>1. kind \in Kinds \ {"COMPENSATION", "REVERSAL"}
      BY <2>4
    <3>2. \A g \in Grants : Rows(g, {"REVERSAL"})' = Rows(g, {"REVERSAL"})
      BY <1>1, <3>1, ReversalRowsKept
    <3>3. \A g \in Grants : ReversedIsClosed(g)'
      BY <3>2, ClosureKept
    <3> QED BY <2>2, <3>3 DEF RestoreInv
  <2> QED BY <2>3, <2>4
<1>2. ASSUME NEW start \in Time, NEW t \in Txns, NEW u \in Txns, NEW part \in Parts,
             NEW sweep \in Sweeps(start, part), Reverse(t, u, start, part, sweep)
      PROVE  RestoreInv'
  <2>1. \A r \in Txns : Restores(r)'
    BY <1>2, ReverseRestores
  <2>2. \A g \in Grants : Rows(g, {"REVERSAL"})' = Rows(g, {"REVERSAL"})
    BY <1>2, ReversalRowsKept
  <2>3. \A g \in Grants : ReversedIsClosed(g)'
    BY <2>2, ClosureKept
  <2> QED BY <2>1, <2>3 DEF RestoreInv
<1>3. ASSUME posting' = posting PROVE RestoreInv'
  <2>1. \A r \in Txns : Restores(r)'
    BY <1>3 DEF RestoreInv, Restores, AllOrNothing, GrantsOf
  <2>2. \A g \in Grants : Rows(g, {"REVERSAL"})' = Rows(g, {"REVERSAL"})
    BY <1>3 DEF Rows
  <2>3. \A g \in Grants : ReversedIsClosed(g)'
    BY <2>2, ClosureKept
  <2> QED BY <2>1, <2>3 DEF RestoreInv
<1>4. CASE Posting
  BY <1>1, <1>4 DEF Posting
<1>5. CASE \/ \E start \in Time, h \in Holds, alloc \in Parts : CreateHold(h, start, alloc)
           \/ \E start \in Time, h \in Holds : VoidHold(h, start)
           \/ UNCHANGED vars
  BY <1>3, <1>5 DEF CreateHold, VoidHold, vars
<1> QED BY <1>2, <1>4, <1>5, NextSteps, StepCases

\* No credit is restored twice or to another grant, account by account, and a grant whose issuance was reversed
\* stays closed, for any sets of grants, holds and transactions.
THEOREM ReversalsRestoreExactly == Spec => []ReversalRestoresExactly
<1>1. Init => RestoreInv
  <2> SUFFICES ASSUME Init PROVE RestoreInv
    OBVIOUS
  <2>1. \A t \in Txns : posting[t].kind = "NONE"
    BY DEF Init, Unposted
  <2>2. ASSUME NEW g \in Grants PROVE Rows(g, {"REVERSAL"}) = 0
    <3>1. \A t \in Txns : LineageRows(g, {"REVERSAL"})[t] = 0
      BY <2>1 DEF LineageRows
    <3> QED BY <3>1, InitType, LineageRowsNat, TallyZero
  <2> QED BY <2>1, <2>2 DEF RestoreInv, Restores, ReversedIsClosed
<1>2. TypeInv /\ TypeInv' /\ LineageInv /\ OriginInv /\ RestoreInv /\ [Next]_vars => RestoreInv'
  BY StepRestore
<1>3. RestoreInv => ReversalRestoresExactly
  <2> SUFFICES ASSUME RestoreInv
               PROVE  /\ \A r \in Txns : posting[r].kind = "COMPENSATION" =>
                           /\ posting[posting[r].related].kind = "CONSUMPTION"
                           /\ AllOrNothing(posting[r].part, posting[posting[r].related].part)
                           /\ \A u \in Txns : posting[u].related = posting[r].related => u = r
                      /\ \A g \in Grants : Rows(g, {"REVERSAL"}) > 0 =>
                           capacity[g] = [NoCapacity EXCEPT !.granted = Rows(g, {"REVERSAL"}),
                                                            !.reversed = Rows(g, {"REVERSAL"})]
    BY DEF ReversalRestoresExactly, AllOrNothing
  <2>1. ASSUME NEW n PROVE [NoCapacity EXCEPT !.granted = n, !.reversed = n] = ClosedRow(n)
    <3> DEFINE once == [NoCapacity EXCEPT !.granted = n]
    <3>1. once = [granted |-> n, reversed |-> 0, consumed |-> 0, compensated |-> 0,
                  expired |-> 0, remaining |-> 0, reserved |-> 0]
      BY DEF NoCapacity
    <3>2. [once EXCEPT !.reversed = n] = ClosedRow(n)
      <4> HIDE DEF once
      <4> QED BY <3>1 DEF ClosedRow
    <3>3. [NoCapacity EXCEPT !.granted = n, !.reversed = n] = [once EXCEPT !.reversed = n]
      OBVIOUS
    <3> QED BY <3>2, <3>3
  <2> QED BY <2>1 DEF RestoreInv, Restores, ReversedIsClosed
<1>4. Spec => []TypeInv
  BY InitType, StepType, PTL DEF Spec
<1>5. Spec => []LineageInv
  BY <1>4, InitLineage, StepLineage, PTL DEF Spec
<1>6. Spec => []OriginInv
  <2>1. TypeInv /\ TypeInv' /\ LineageInv /\ OriginInv /\ [Next]_vars => OriginInv'
    BY StepPots
  <2> QED BY <1>4, <1>5, <2>1, InitPots, PTL DEF Spec
<1> QED BY <1>1, <1>2, <1>3, <1>4, <1>5, <1>6, PTL DEF Spec

-----------------------------------------------------------------------------
(* Holds and grants agree: the reservation of a grant is what the holds    *)
(* still keep of it, a hold applied by captures has consumed its           *)
(* allocations, and an open hold can always be settled.  The sums over     *)
(* holds and transactions are changed one row at a time (TallyUpdate).     *)

\* The invariant of one hold, and the inductive one.
PerGrant(h, a) == [g \in GrantsOf(a) |-> HoldConsumed(h, g)]

HoldOk(h) ==
  /\ hold[h].state # "NONE" =>
       /\ Tally(hold[h].legs) > 0 /\ hold[h].legs = Entries(hold[h].alloc)
       /\ \A g \in Grants : HoldConsumed(h, g) <= hold[h].alloc[g]
  /\ CapturesOnly(h) => \A a \in Accounts : Committed(h, a) = Tally(PerGrant(h, a))
  /\ hold[h].state = "APPLIED" /\ CapturesOnly(h) =>
       \A g \in Grants : HoldConsumed(h, g) = hold[h].alloc[g]

HoldsExist == \A t \in Txns : posting[t].hold # None => hold[posting[t].hold].state # "NONE"

Inv == TypeInv /\ HoldsExist /\ (\A h \in Holds : HoldOk(h)) /\ ReservedMatchesHolds

LEMMA InvIsHoldInv == TypeInv => (HoldInv <=> Inv)
BY DEF HoldInv, Inv, HoldOk, HoldsExist, PerGrant, AppliedConsumesAllocations

\* The rows summed by HoldConsumed, Committed and ReservedMatchesHolds.
ConsumedRows(h, g)  == [t \in Txns |-> IF posting[t].kind = "CONSUMPTION" /\ posting[t].hold = h
                                         THEN posting[t].part[g] ELSE 0]
CommittedRows(h, a) == [t \in Txns |-> IF posting[t].hold = h THEN posting[t].entry[a] ELSE 0]
KeptRows(g)         == [h \in Holds |-> Outstanding(h, g)]

\* Those rows are numbers of minor units.
LEMMA RowsNat ==
  ASSUME TypeInv, NEW h \in Holds
  PROVE  /\ \A g \in Grants : ConsumedRows(h, g) \in [Txns -> Nat] /\ HoldConsumed(h, g) \in Nat
         /\ \A a \in Accounts : CommittedRows(h, a) \in [Txns -> Nat] /\ Committed(h, a) \in Nat
         /\ \A a \in Accounts : PerGrant(h, a) \in [GrantsOf(a) -> Nat]
<1>1. \A t \in Txns : posting[t] \in PostingRow
  BY DEF TypeInv, TypeOK
<1>2. \A g \in Grants : ConsumedRows(h, g) \in [Txns -> Nat]
  BY <1>1 DEF ConsumedRows, PostingRow
<1>3. \A a \in Accounts : CommittedRows(h, a) \in [Txns -> Nat]
  BY <1>1 DEF CommittedRows, PostingRow
<1>4. \A a \in Accounts : PerGrant(h, a) \in [GrantsOf(a) -> Nat]
  BY ThroughHoldNat, GrantsOfFinite DEF PerGrant
<1> QED BY <1>2, <1>3, <1>4, ThroughHoldNat

\* The same of the next state.
LEMMA RowsNatNext ==
  ASSUME TypeInv', NEW h \in Holds
  PROVE  /\ \A g \in Grants : ConsumedRows(h, g)' \in [Txns -> Nat] /\ HoldConsumed(h, g)' \in Nat
         /\ \A a \in Accounts : CommittedRows(h, a)' \in [Txns -> Nat] /\ Committed(h, a)' \in Nat
<1>1. \A t \in Txns : posting'[t] \in PostingRow
  BY DEF TypeInv, TypeOK
<1>2. \A g \in Grants : ConsumedRows(h, g)' \in [Txns -> Nat]
  BY <1>1 DEF ConsumedRows, PostingRow
<1>3. \A a \in Accounts : CommittedRows(h, a)' \in [Txns -> Nat]
  BY <1>1 DEF CommittedRows, PostingRow
<1>4. \A g \in Grants : HoldConsumed(h, g)' = Tally(ConsumedRows(h, g)')
  BY DEF HoldConsumed, ConsumedRows
<1>5. \A a \in Accounts : Committed(h, a)' = Tally(CommittedRows(h, a)')
  BY DEF Committed, CommittedRows
<1> QED BY <1>2, <1>3, <1>4, <1>5, TallyNat

\* What a hold has outstanding of a grant is a number of units.
LEMMA OutstandingNat ==
  ASSUME Inv PROVE \A h \in Holds, g \in Grants : Outstanding(h, g) \in Nat
<1> SUFFICES ASSUME NEW h \in Holds, NEW g \in Grants PROVE Outstanding(h, g) \in Nat
  OBVIOUS
<1>1. HoldConsumed(h, g) \in Nat /\ hold[h].alloc[g] \in Nat
  BY ThroughHoldNat DEF Inv, TypeInv, TypeOK, HoldRow
<1>2. hold[h].state \in {"HELD", "APPLIED"} => HoldConsumed(h, g) <= hold[h].alloc[g]
  BY DEF Inv, HoldOk
<1> QED BY <1>1, <1>2 DEF Outstanding

\* A hold through which nothing is posted.
LEMMA NoPostings ==
  ASSUME TypeInv, NEW h \in Holds, \A t \in Txns : posting[t].hold # h
  PROVE  /\ \A g \in Grants : HoldConsumed(h, g) = 0
         /\ \A a \in Accounts : Committed(h, a) = 0 /\ Tally(PerGrant(h, a)) = 0
<1>1. ASSUME NEW g \in Grants PROVE HoldConsumed(h, g) = 0
  <2>1. ConsumedRows(h, g) \in [Txns -> Nat] /\ \A t \in Txns : ConsumedRows(h, g)[t] = 0
    BY RowsNat DEF ConsumedRows
  <2> QED BY <2>1, TallyZero DEF HoldConsumed, ConsumedRows
<1>2. ASSUME NEW a \in Accounts PROVE Committed(h, a) = 0 /\ Tally(PerGrant(h, a)) = 0
  <2>1. CommittedRows(h, a) \in [Txns -> Nat] /\ \A t \in Txns : CommittedRows(h, a)[t] = 0
    BY RowsNat DEF CommittedRows
  <2>2. Committed(h, a) = 0
    BY <2>1, TallyZero DEF Committed, CommittedRows
  <2>3. /\ PerGrant(h, a) \in [GrantsOf(a) -> Nat] /\ IsFiniteSet(GrantsOf(a))
        /\ \A g \in GrantsOf(a) : PerGrant(h, a)[g] = 0
    BY <1>1, RowsNat, GrantsOfFinite DEF PerGrant
  <2> QED BY <2>2, <2>3, TallyZero
<1> QED BY <1>1, <1>2

LEMMA InitHold == Init => Inv
<1> SUFFICES ASSUME Init PROVE Inv
  OBVIOUS
<1>1. TypeInv
  BY InitType
<1>2. \A t \in Txns : posting[t].hold = None
  BY DEF Init, Unposted
<1>3. \A h \in Holds : hold[h].state = "NONE"
  BY DEF Init, NoHold
<1>4. ASSUME NEW h \in Holds PROVE HoldOk(h)
  <2>1. \A a \in Accounts : Committed(h, a) = Tally(PerGrant(h, a))
    BY <1>1, <1>2, NoPostings
  <2> QED BY <1>3, <2>1 DEF HoldOk
<1>5. ASSUME NEW g \in Grants PROVE capacity[g].reserved = Tally(KeptRows(g))
  <2>1. KeptRows(g) \in [Holds -> Nat] /\ \A h \in Holds : KeptRows(g)[h] = 0
    BY <1>3 DEF KeptRows, Outstanding
  <2> QED BY <2>1, TallyZero DEF Init, NoCapacity
<1> QED BY <1>1, <1>2, <1>4, <1>5 DEF Inv, HoldsExist, ReservedMatchesHolds, KeptRows

\* A step that posts nothing through hold k keeps what was posted through it.
Untouched(k) == \A t \in Txns : posting'[t] = posting[t] \/ (posting[t].hold # k /\ posting'[t].hold # k)

SameSums(k) ==
  /\ \A g \in Grants : HoldConsumed(k, g)' = HoldConsumed(k, g)
  /\ \A a \in Accounts : Committed(k, a)' = Committed(k, a)
  /\ CapturesOnly(k)' = CapturesOnly(k)

LEMMA UntouchedSums ==
  ASSUME TypeInv, NEW k \in Holds, Untouched(k)
  PROVE  SameSums(k)
<1>1. ASSUME NEW g \in Grants PROVE HoldConsumed(k, g)' = HoldConsumed(k, g)
  <2>1. \A t \in Txns : ConsumedRows(k, g)'[t] = ConsumedRows(k, g)[t]
    BY DEF ConsumedRows, Untouched
  <2>2. ConsumedRows(k, g)' = ConsumedRows(k, g)
    BY <2>1 DEF ConsumedRows
  <2> QED BY <2>2 DEF HoldConsumed, ConsumedRows
<1>2. ASSUME NEW a \in Accounts PROVE Committed(k, a)' = Committed(k, a)
  <2>1. \A t \in Txns : CommittedRows(k, a)'[t] = CommittedRows(k, a)[t]
    BY DEF CommittedRows, Untouched
  <2>2. CommittedRows(k, a)' = CommittedRows(k, a)
    BY <2>1 DEF CommittedRows
  <2> QED BY <2>2 DEF Committed, CommittedRows
<1>3. CapturesOnly(k)' = CapturesOnly(k)
  <2>1. CapturesOnly(k)' <=> CapturesOnly(k)
    BY DEF CapturesOnly, Untouched
  <2> QED BY <2>1 DEF CapturesOnly
<1> QED BY <1>1, <1>2, <1>3 DEF SameSums

\* With its row unchanged too, its invariant and what it has outstanding stay.
LEMMA KeptHold ==
  ASSUME Inv, NEW k \in Holds, hold'[k] = hold[k], Untouched(k)
  PROVE  HoldOk(k)' /\ \A g \in Grants : Outstanding(k, g)' = Outstanding(k, g)
<1>1. SameSums(k)
  BY UntouchedSums DEF Inv
<1>2. \A a \in Accounts : PerGrant(k, a)' = PerGrant(k, a)
  BY <1>1, GrantsOfFinite DEF PerGrant, GrantsOf, SameSums
<1>3. HoldOk(k)
  BY DEF Inv
<1>4. Entries(hold[k].alloc)' = Entries(hold[k].alloc)
  BY DEF Entries, Attributed, GrantsOf
<1> QED BY <1>1, <1>2, <1>3, <1>4 DEF HoldOk, Outstanding, SameSums

\* A step that posts nothing through holds and leaves holds and reservations alone keeps Inv.
LEMMA NoHoldStep ==
  ASSUME Inv, TypeInv', hold' = hold, \A k \in Holds : Untouched(k),
         \A t \in Txns : posting'[t] = posting[t] \/ posting'[t].hold = None,
         \A g \in Grants : capacity'[g].reserved = capacity[g].reserved
  PROVE  Inv'
<1>1. \A k \in Holds : HoldOk(k)'
  BY KeptHold
<1>2. ASSUME NEW g \in Grants PROVE KeptRows(g)' = KeptRows(g)
  BY KeptHold DEF KeptRows
<1>3. ReservedMatchesHolds'
  BY <1>2 DEF Inv, ReservedMatchesHolds, KeptRows
<1>4. HoldsExist'
  BY DEF Inv, HoldsExist
<1> QED BY <1>1, <1>3, <1>4 DEF Inv

\* When a step changes what one hold has outstanding, and the reservations by as much,
\* they still agree.
LEMMA KeptUpdate ==
  ASSUME Inv, TypeInv', NEW h \in Holds,
         \A g \in Grants : Outstanding(h, g)' \in Nat,
         \A k \in Holds \ {h} : \A g \in Grants : Outstanding(k, g)' = Outstanding(k, g),
         \A g \in Grants :
           capacity'[g].reserved + Outstanding(h, g) = capacity[g].reserved + Outstanding(h, g)'
  PROVE  ReservedMatchesHolds'
<1> SUFFICES ASSUME NEW g \in Grants PROVE capacity'[g].reserved = Tally(KeptRows(g))'
  BY DEF ReservedMatchesHolds, KeptRows
<1>1. KeptRows(g) \in [Holds -> Nat]
  BY OutstandingNat DEF KeptRows
<1>2. KeptRows(g)' \in [Holds -> Nat]
  BY OutstandingNat DEF KeptRows
<1>3. \A k \in Holds \ {h} : KeptRows(g)'[k] = KeptRows(g)[k]
  BY DEF KeptRows
<1>4. Tally(KeptRows(g)') + KeptRows(g)[h] = Tally(KeptRows(g)) + KeptRows(g)'[h]
  BY <1>1, <1>2, <1>3, TallyUpdate
<1>5. KeptRows(g)[h] = Outstanding(h, g) /\ KeptRows(g)'[h] = Outstanding(h, g)'
  BY DEF KeptRows
<1>6. capacity[g].reserved = Tally(KeptRows(g))
  BY DEF Inv, ReservedMatchesHolds, KeptRows
<1>7. Outstanding(h, g) \in Nat /\ Outstanding(h, g)' \in Nat
  BY OutstandingNat
<1>8. Tally(KeptRows(g)) \in Nat /\ Tally(KeptRows(g)') \in Nat
  BY <1>1, <1>2, TallyNat
<1>9. capacity'[g].reserved + Outstanding(h, g) = capacity[g].reserved + Outstanding(h, g)'
  OBVIOUS
<1>10. Tally(KeptRows(g)') + Outstanding(h, g) = capacity'[g].reserved + Outstanding(h, g)
  BY <1>4, <1>5, <1>6, <1>9
<1>11. capacity'[g].reserved \in Nat
  BY DEF TypeInv, TypeOK, CapacityRow
<1> QED BY <1>7, <1>8, <1>10, <1>11

\* A step that posts nothing leaves every hold untouched.
LEMMA NothingPosted ==
  ASSUME posting' = posting PROVE \A k \in Holds : Untouched(k)
BY DEF Untouched

LEMMA CreateHoldHold ==
  ASSUME Inv, TypeInv', NEW start, NEW h \in Holds, NEW alloc \in Parts, CreateHold(h, start, alloc)
  PROVE  Inv'
<1>1. alloc \in [Grants -> Nat]
  BY Bounded
<1>2. hold[h].state = "NONE" /\ posting' = posting /\ SameSums(h)
  BY NothingPosted, UntouchedSums DEF CreateHold, Inv
<1>3. /\ hold'[h].state = "HELD" /\ hold'[h].legs = Entries(alloc) /\ hold'[h].alloc = alloc
      /\ \A k \in Holds \ {h} : hold'[k] = hold[k]
  BY DEF CreateHold, Inv, TypeInv, TypeOK
<1>4. \A t \in Txns : posting[t].hold # h
  BY <1>2 DEF Inv, HoldsExist
<1>5. \A g \in Grants : HoldConsumed(h, g)' = 0 /\ HoldConsumed(h, g) = 0
  BY <1>2, <1>4, NoPostings DEF SameSums, Inv
<1>6. \A g \in Grants : Outstanding(h, g)' = alloc[g] /\ Outstanding(h, g) = 0
  BY <1>1, <1>2, <1>3, <1>5 DEF Outstanding
<1>7. \A k \in Holds \ {h} : HoldOk(k)' /\ \A g \in Grants : Outstanding(k, g)' = Outstanding(k, g)
  BY <1>2, <1>3, NothingPosted, KeptHold
<1>8. \A g \in Grants : capacity[g].reserved \in Nat /\ capacity'[g].reserved = capacity[g].reserved + alloc[g]
  BY DEF CreateHold, Reserving, Inv, TypeInv, TypeOK, CapacityRow
<1>9. ReservedMatchesHolds'
  <2>1. \A g \in Grants : Outstanding(h, g)' \in Nat
    BY <1>1, <1>6
  <2>2. \A g \in Grants :
          capacity'[g].reserved + Outstanding(h, g) = capacity[g].reserved + Outstanding(h, g)'
    BY <1>1, <1>6, <1>8
  <2> QED BY <2>1, <2>2, <1>7, KeptUpdate
<1>10. HoldOk(h)'
  <2>1. Tally(hold'[h].legs) > 0 /\ hold'[h].legs = Entries(hold'[h].alloc)
    BY <1>3 DEF CreateHold
  <2>2. \A a \in Accounts : Committed(h, a)' = Tally(PerGrant(h, a)')
    <3>1. \A a \in Accounts : PerGrant(h, a)' = PerGrant(h, a)
      BY <1>2, GrantsOfFinite DEF PerGrant, GrantsOf, SameSums
    <3>2. \A a \in Accounts : Committed(h, a) = 0 /\ Tally(PerGrant(h, a)) = 0
      BY <1>4, NoPostings DEF Inv
    <3> QED BY <1>2, <3>1, <3>2 DEF SameSums
  <2>3. Entries(hold[h].alloc)' = Entries(hold'[h].alloc)
    BY DEF Entries, Attributed, GrantsOf
  <2> QED BY <1>1, <1>3, <1>5, <2>1, <2>2, <2>3 DEF HoldOk
<1>11. HoldsExist'
  <2>1. \A t \in Txns : posting[t].hold # None => posting[t].hold \in Holds \ {h}
    BY <1>4 DEF Inv, TypeInv, TypeOK, PostingRow
  <2> QED BY <1>2, <1>3, <2>1 DEF Inv, HoldsExist
<1> QED BY <1>7, <1>9, <1>10, <1>11 DEF Inv

LEMMA VoidHoldHold ==
  ASSUME Inv, TypeInv', NEW start, NEW h \in Holds, VoidHold(h, start)
  PROVE  Inv'
<1>1. posting' = posting /\ hold[h].state = "HELD" /\ SameSums(h)
  BY NothingPosted, UntouchedSums DEF VoidHold, Inv
<1>2. /\ hold'[h].state = "VOIDED" /\ hold'[h].legs = hold[h].legs /\ hold'[h].alloc = hold[h].alloc
      /\ \A k \in Holds \ {h} : hold'[k] = hold[k]
  BY DEF VoidHold, Inv, TypeInv, TypeOK, Moved
<1>3. \A g \in Grants : Outstanding(h, g)' = 0
                      /\ Outstanding(h, g) = hold[h].alloc[g] - HoldConsumed(h, g)
  BY <1>1, <1>2 DEF Outstanding
<1>4. \A k \in Holds \ {h} : HoldOk(k)' /\ \A g \in Grants : Outstanding(k, g)' = Outstanding(k, g)
  BY <1>1, <1>2, NothingPosted, KeptHold
<1>5. \A g \in Grants :
        capacity'[g].reserved = capacity[g].reserved + (HoldConsumed(h, g) - hold[h].alloc[g])
  BY DEF VoidHold, Reserving
<1>6. \A g \in Grants : /\ capacity[g].reserved \in Nat /\ HoldConsumed(h, g) \in Nat
                       /\ hold[h].alloc[g] \in Nat
  BY ThroughHoldNat DEF Inv, TypeInv, TypeOK, CapacityRow, HoldRow
<1>7. ReservedMatchesHolds'
  <2>1. \A g \in Grants :
          capacity'[g].reserved + Outstanding(h, g) = capacity[g].reserved + Outstanding(h, g)'
    BY <1>3, <1>5, <1>6
  <2> QED BY <2>1, <1>3, <1>4, KeptUpdate
<1>8. HoldOk(h)'
  <2>1. HoldOk(h)
    BY DEF Inv
  <2>2. \A a \in Accounts : PerGrant(h, a)' = PerGrant(h, a)
    BY <1>1, GrantsOfFinite DEF PerGrant, GrantsOf, SameSums
  <2>3. Entries(hold[h].alloc)' = Entries(hold'[h].alloc)
    BY DEF Entries, Attributed, GrantsOf
  <2> QED BY <1>1, <1>2, <2>1, <2>2, <2>3 DEF HoldOk, SameSums
<1>9. HoldsExist'
  <2>1. \A t \in Txns : posting[t].hold # None => posting[t].hold \in Holds
    BY DEF Inv, TypeInv, TypeOK, PostingRow
  <2> QED BY <1>1, <1>2, <2>1 DEF Inv, HoldsExist
<1> QED BY <1>4, <1>7, <1>8, <1>9 DEF Inv

\* Reversals leave holds alone.
LEMMA ReverseUntouched ==
  ASSUME TypeInv, NEW start, NEW t \in Txns, NEW r \in Txns, NEW part \in Parts,
         NEW sweep \in Sweeps(start, part), Reverse(t, r, start, part, sweep)
  PROVE  /\ \A k \in Holds : Untouched(k)
         /\ \A u \in Txns : posting'[u] = posting[u] \/ (posting[u].hold = None /\ posting'[u].hold = None)
<1>1. ASSUME NEW u \in Txns
      PROVE  posting'[u] = posting[u] \/ (posting[u].hold = None /\ posting'[u].hold = None)
  <2>1. Reversed(t, r, part, sweep)
    BY ReversePostings
  <2>2. CASE u = r
    BY <2>1, <2>2 DEF Reversed, ReversalRow, Unposted
  <2>3. ASSUME NEW k \in DOMAIN sweep, sweep[k] = u PROVE posting[u].hold = None /\ posting'[u].hold = None
    <3>1. posting[u] = Unposted /\ posting'[u] = SweptRow(part, sweep, k)
      BY <2>1, <2>3 DEF Reversed
    <3> QED BY <3>1 DEF SweptRow, Unposted
  <2>4. CASE u # r /\ \A k \in DOMAIN sweep : sweep[k] # u
    BY <2>1, <2>4 DEF Reversed
  <2> QED BY <2>2, <2>3, <2>4
<1>2. \A k \in Holds : k # None
  OBVIOUS
<1> QED BY <1>1, <1>2 DEF Untouched

LEMMA ReverseHold ==
  ASSUME Inv, TypeInv', NEW start, NEW t \in Txns, NEW r \in Txns, NEW part \in Parts,
         NEW sweep \in Sweeps(start, part), Reverse(t, r, start, part, sweep)
  PROVE  Inv'
<1>1. \A g \in Grants : capacity'[g].reserved = capacity[g].reserved
  <2> SUFFICES ASSUME NEW g \in Grants PROVE capacity'[g].reserved = capacity[g].reserved
    OBVIOUS
  <2> DEFINE out == Sweeping(part, sweep)[g]
  <2>1. capacity[g].reserved \in Nat
    BY DEF Inv, TypeInv, TypeOK, CapacityRow
  <2>2. capacity'[g] = Appended(Appended(capacity[g], "COMPENSATION", part[g], FALSE), "EXPIRATION", out, FALSE)
    BY DEF Reverse, Sweeping
  <2> HIDE DEF out
  <2> QED BY <2>1, <2>2 DEF Appended
<1>2. hold' = hold
  BY DEF Reverse
<1>3. TypeInv
  BY DEF Inv
<1>4. /\ \A k \in Holds : Untouched(k)
      /\ \A u \in Txns : posting'[u] = posting[u] \/ (posting[u].hold = None /\ posting'[u].hold = None)
  BY <1>3, ReverseUntouched
<1> QED BY <1>1, <1>2, <1>4, NoHoldStep

\* A posting touches no hold but the one it goes through.
LEMMA PostedUntouched ==
  ASSUME TypeInv, NEW t \in Txns, NEW start, NEW kind \in Kinds, NEW h \in Paths,
         NEW related \in Relations, NEW part \in [Grants -> Nat], Posts(t, start, kind, h, related, part),
         NEW k \in Holds, k # h
  PROVE  Untouched(k) /\ hold'[k] = hold[k]
<1>1. Written(t, start, kind, h, related, part)
  BY PostFacts DEF Posts
<1>2. Untouched(k)
  BY <1>1 DEF Written, Unposted, Untouched
<1>3. hold'[k] = hold[k]
  <2>1. PostThrough(h, part) /\ hold \in [Holds -> HoldRow]
    BY DEF Posts, TypeInv, TypeOK
  <2> QED BY <2>1, Zenon DEF PostThrough
<1> QED BY <1>2, <1>3

\* What a posting adds to the sums of the hold it goes through.
Added(h, kind, part) ==
  /\ \A g \in Grants : HoldConsumed(h, g)' = HoldConsumed(h, g) + (IF kind = "CONSUMPTION" THEN part[g] ELSE 0)
  /\ \A a \in Accounts : Committed(h, a)' = Committed(h, a) + Entries(part)[a]
  /\ CapturesOnly(h)' => CapturesOnly(h) /\ kind = "CONSUMPTION"

LEMMA PostedSums ==
  ASSUME TypeInv, TypeInv', NEW t \in Txns, NEW start, NEW kind \in Kinds, NEW h \in Holds,
         NEW related \in Relations, NEW part \in [Grants -> Nat], Posts(t, start, kind, h, related, part)
  PROVE  Added(h, kind, part)
<1>1. Written(t, start, kind, h, related, part)
  BY PostFacts DEF Posts, Paths
<1>2. /\ posting'[t].kind = kind /\ posting'[t].hold = h
      /\ posting'[t].entry = Entries(part) /\ posting'[t].part = part
      /\ posting[t].kind = "NONE" /\ posting[t].hold = None /\ h # None
  BY <1>1 DEF Written, Unposted
<1>3. Entries(part) \in [Accounts -> Nat]
  BY EntriesNat
<1>4. ASSUME NEW g \in Grants
      PROVE  HoldConsumed(h, g)' = HoldConsumed(h, g) + (IF kind = "CONSUMPTION" THEN part[g] ELSE 0)
  <2>1. ConsumedRows(h, g) \in [Txns -> Nat] /\ ConsumedRows(h, g)' \in [Txns -> Nat]
    BY RowsNat, RowsNatNext
  <2>2. ConsumedRows(h, g)[t] = 0 /\ ConsumedRows(h, g)'[t] = IF kind = "CONSUMPTION" THEN part[g] ELSE 0
    BY <1>2 DEF ConsumedRows
  <2>3. \A u \in Txns \ {t} : ConsumedRows(h, g)'[u] = ConsumedRows(h, g)[u]
    BY <1>1 DEF ConsumedRows, Written
  <2>4. Tally(ConsumedRows(h, g)') + ConsumedRows(h, g)[t] = Tally(ConsumedRows(h, g)) + ConsumedRows(h, g)'[t]
    BY <2>1, <2>3, TallyUpdate
  <2>5. Tally(ConsumedRows(h, g)) = HoldConsumed(h, g) /\ Tally(ConsumedRows(h, g)') = HoldConsumed(h, g)'
    BY DEF ConsumedRows, HoldConsumed
  <2>6. HoldConsumed(h, g) \in Nat /\ HoldConsumed(h, g)' \in Nat
    BY <2>1, <2>5, TallyNat
  <2> QED BY <2>2, <2>4, <2>5, <2>6
<1>5. ASSUME NEW a \in Accounts PROVE Committed(h, a)' = Committed(h, a) + Entries(part)[a]
  <2>1. CommittedRows(h, a) \in [Txns -> Nat] /\ CommittedRows(h, a)' \in [Txns -> Nat]
    BY RowsNat, RowsNatNext
  <2>2. CommittedRows(h, a)[t] = 0 /\ CommittedRows(h, a)'[t] = Entries(part)[a]
    BY <1>2, <1>3 DEF CommittedRows
  <2>3. \A u \in Txns \ {t} : CommittedRows(h, a)'[u] = CommittedRows(h, a)[u]
    BY <1>1 DEF CommittedRows, Written
  <2>4. Tally(CommittedRows(h, a)') + CommittedRows(h, a)[t] = Tally(CommittedRows(h, a)) + CommittedRows(h, a)'[t]
    BY <2>1, <2>3, TallyUpdate
  <2>5. Tally(CommittedRows(h, a)) = Committed(h, a) /\ Tally(CommittedRows(h, a)') = Committed(h, a)'
    BY DEF CommittedRows, Committed
  <2>6. Committed(h, a) \in Nat /\ Committed(h, a)' \in Nat
    BY <2>1, <2>5, TallyNat
  <2> QED BY <2>2, <2>4, <2>5, <2>6
<1>6. CapturesOnly(h)' => CapturesOnly(h) /\ kind = "CONSUMPTION"
  <2>1. \A u \in Txns \ {t} : posting'[u] = posting[u]
    BY <1>1 DEF Written
  <2> QED BY <1>2, <2>1 DEF CapturesOnly
<1> QED BY <1>4, <1>5, <1>6 DEF Added

\* When the captures of h add up to the hold, they add up on every account.
LEMMA AppliedInFull ==
  ASSUME TypeInv', NEW h \in Holds, HoldConsistent(h)', hold'[h].state = "APPLIED",
         Tally(hold'[h].legs) > 0
  PROVE  \A a \in Accounts : Committed(h, a)' = hold'[h].legs[a]
<1> DEFINE n == Tally(hold'[h].legs)
           c == Tally([a \in Accounts |-> Committed(h, a)])'
<1>1. c = n /\ \A a \in Accounts : Committed(h, a)' * n = hold'[h].legs[a] * c
  BY DEF HoldConsistent
<1>2. hold'[h].legs \in [Accounts -> Nat] /\ n \in Nat \ {0}
  <2>1. hold'[h].legs \in [Accounts -> Nat]
    BY DEF TypeInv, TypeOK, HoldRow
  <2>2. n \in Nat
    BY <2>1, TallyNat
  <2> QED BY <2>1, <2>2
<1>3. \A a \in Accounts : Committed(h, a)' \in Nat
  BY RowsNatNext
<1>4. ASSUME NEW x \in Nat, NEW y \in Nat, NEW m \in Nat \ {0}, x * m = y * m PROVE x = y
  BY <1>4, SMTT(30)
<1> HIDE DEF n, c
<1>5. \A a \in Accounts : Committed(h, a)' * n = hold'[h].legs[a] * n
  BY <1>1
<1> SUFFICES ASSUME NEW a \in Accounts PROVE Committed(h, a)' = hold'[h].legs[a]
  OBVIOUS
<1>6. hold'[h].legs[a] \in Nat
  BY <1>2
<1>7. Committed(h, a)' * n = hold'[h].legs[a] * n
  BY <1>5
<1> QED BY <1>2, <1>3, <1>4, <1>6, <1>7

\* What a posting through h does to the row of the hold.
LEMMA PostedHold ==
  ASSUME Inv, NEW t \in Txns, NEW start, NEW kind \in Kinds, NEW h \in Holds,
         NEW related \in Relations, NEW part \in [Grants -> Nat], Posts(t, start, kind, h, related, part)
  PROVE  /\ hold'[h].legs = hold[h].legs /\ hold'[h].alloc = hold[h].alloc
         /\ HoldConsistent(h)'
         /\ \/ /\ hold[h].state = "HELD" /\ hold'[h].state \in {"HELD", "APPLIED"}
               /\ hold'[h].remaining <= hold[h].remaining
            \/ hold[h].state = "VOIDED" /\ hold'[h] = hold[h] /\ kind # "CONSUMPTION"
<1>1. h # None /\ hold \in [Holds -> HoldRow]
  BY DEF Inv, TypeInv, TypeOK
<1>2. PostThrough(h, part)
  BY DEF Posts
<1>3. kind = "CONSUMPTION" => hold[h].state = "HELD"
  BY <1>1 DEF Posts
<1>4. HoldConsistent(h)'
  BY <1>1, <1>2 DEF PostThrough
<1> DEFINE left == hold[h].remaining - Tally(Entries(part))
<1>5. CASE hold[h].state = "HELD" /\ hold' = [hold EXCEPT ![h] = Moved(@, IF left = 0 THEN "APPLIED" ELSE "HELD", left)]
  <2>1. hold'[h] = Moved(hold[h], IF left = 0 THEN "APPLIED" ELSE "HELD", left)
    BY <1>1, <1>5
  <2>2. hold[h].remaining \in Nat /\ Tally(Entries(part)) \in Nat
    BY <1>1, EntriesNat DEF HoldRow
  <2>3. left <= hold[h].remaining
    BY <2>2
  <2> HIDE DEF left
  <2> QED BY <1>4, <1>5, <2>1, <2>3 DEF Moved
<1>6. CASE hold[h].state = "VOIDED" /\ hold' = hold
  BY <1>3, <1>4, <1>6
<1> QED BY <1>1, <1>2, <1>5, <1>6 DEF PostThrough

\* Captures stay attributed: account by account, what was posted through a hold is
\* what its grants paid.
LEMMA CaptureAttributed ==
  ASSUME Inv, TypeInv', NEW t \in Txns, NEW start, NEW h \in Holds, NEW related \in Relations,
         NEW part \in [Grants -> Nat], Posts(t, start, "CONSUMPTION", h, related, part),
         CapturesOnly(h)', NEW a \in Accounts
  PROVE  /\ PerGrant(h, a)' \in [GrantsOf(a) -> Nat]
         /\ Committed(h, a)' = Tally(PerGrant(h, a)')
<1> DEFINE drawn == [g \in GrantsOf(a) |-> part[g]]
<1>0. TypeInv /\ "CONSUMPTION" \in Kinds
  BY DEF Inv, Kinds
<1>1. IsFiniteSet(GrantsOf(a)) /\ GrantsOf(a) \subseteq Grants
  BY GrantsOfFinite
<1>2. drawn \in [GrantsOf(a) -> Nat] /\ PerGrant(h, a) \in [GrantsOf(a) -> Nat]
  BY <1>0, <1>1, RowsNat
<1>3. PerGrant(h, a)' = [g \in GrantsOf(a) |-> HoldConsumed(h, g)']
  BY DEF PerGrant, GrantsOf
<1>4. PerGrant(h, a)' \in [GrantsOf(a) -> Nat]
  BY <1>1, <1>3, RowsNatNext
<1>5. /\ \A g \in Grants : HoldConsumed(h, g)' = HoldConsumed(h, g) + part[g]
      /\ Committed(h, a)' = Committed(h, a) + Entries(part)[a]
      /\ CapturesOnly(h)
  <2>1. Added(h, "CONSUMPTION", part)
    BY <1>0, PostedSums
  <2> QED BY <2>1 DEF Added
<1>6. \A g \in GrantsOf(a) : PerGrant(h, a)'[g] = PerGrant(h, a)[g] + drawn[g]
  BY <1>1, <1>3, <1>5 DEF PerGrant
<1>7. Tally(PerGrant(h, a)') = Tally(PerGrant(h, a)) + Tally(drawn)
  <2> HIDE DEF drawn
  <2> QED BY <1>1, <1>2, <1>4, <1>6, TallyAdd
<1>8. Entries(part)[a] = Tally(drawn)
  BY DEF Entries, Attributed
<1>9. Committed(h, a) = Tally(PerGrant(h, a))
  BY <1>5 DEF Inv, HoldOk
<1> QED BY <1>4, <1>5, <1>7, <1>8, <1>9

\* Captures that bring a hold to APPLIED have consumed all it allocated.
LEMMA CapturedInFull ==
  ASSUME Inv, TypeInv', NEW t \in Txns, NEW start, NEW h \in Holds, NEW related \in Relations,
         NEW part \in [Grants -> Nat], Posts(t, start, "CONSUMPTION", h, related, part),
         CapturesOnly(h)', hold'[h].state = "APPLIED",
         \A g \in Grants : HoldConsumed(h, g)' <= hold[h].alloc[g], NEW g \in Grants
  PROVE  HoldConsumed(h, g)' = hold[h].alloc[g]
<1> DEFINE a == AccountOf[g]
           promised == [k \in GrantsOf(a) |-> hold[h].alloc[k]]
<1>1. a \in Accounts /\ g \in GrantsOf(a) /\ GrantsOf(a) \subseteq Grants /\ IsFiniteSet(GrantsOf(a))
  BY GrantsOfFinite DEF GrantsOf
<1>2. hold'[h].legs = hold[h].legs /\ HoldConsistent(h)' /\ hold[h].state # "NONE"
  BY PostedHold DEF Kinds
<1>3. Tally(hold[h].legs) > 0 /\ hold[h].legs = Entries(hold[h].alloc)
  BY <1>2 DEF Inv, HoldOk
<1>4. Committed(h, a)' = hold[h].legs[a]
  BY <1>1, <1>2, <1>3, AppliedInFull
<1>5. hold[h].legs[a] = Tally(promised)
  BY <1>1, <1>3 DEF Entries, Attributed
<1>6. hold[h].alloc \in [Grants -> Nat]
  BY DEF Inv, TypeInv, TypeOK, HoldRow
<1>7. promised \in [GrantsOf(a) -> Nat]
  BY <1>1, <1>6
<1>8. PerGrant(h, a)' = [k \in GrantsOf(a) |-> HoldConsumed(h, k)']
  BY DEF PerGrant, GrantsOf
<1>9. \A k \in GrantsOf(a) : PerGrant(h, a)'[k] <= promised[k]
  BY <1>1, <1>8
<1>10. PerGrant(h, a)' \in [GrantsOf(a) -> Nat] /\ Tally(PerGrant(h, a)') = Tally(promised)
  BY <1>1, <1>4, <1>5, CaptureAttributed
<1> HIDE DEF a, promised
<1>11. PerGrant(h, a)'[g] = promised[g]
  BY <1>1, <1>7, <1>9, <1>10, TallyPointwise
<1> QED BY <1>1, <1>8, <1>11 DEF promised

\* The hold that a transaction goes through stays consistent with its grants.
LEMMA ThroughOk ==
  ASSUME Inv, TypeInv', NEW t \in Txns, NEW start, NEW kind \in Kinds, NEW h \in Holds,
         NEW related \in Relations, NEW part \in [Grants -> Nat], Posts(t, start, kind, h, related, part)
  PROVE  /\ \A g \in Grants : HoldConsumed(h, g)' <= hold[h].alloc[g]
         /\ HoldOk(h)'
<1>1. /\ hold'[h].legs = hold[h].legs /\ hold'[h].alloc = hold[h].alloc
      /\ hold[h].state = "HELD" \/ (hold[h].state = "VOIDED" /\ hold'[h] = hold[h] /\ kind # "CONSUMPTION")
      /\ hold[h].state # "NONE"
  BY PostedHold
<1>2. /\ \A g \in Grants : HoldConsumed(h, g)'
                            = HoldConsumed(h, g) + (IF kind = "CONSUMPTION" THEN part[g] ELSE 0)
      /\ CapturesOnly(h)' => CapturesOnly(h) /\ kind = "CONSUMPTION"
  <2>1. Added(h, kind, part)
    BY PostedSums DEF Inv
  <2> QED BY <2>1 DEF Added
<1>3. /\ Tally(hold[h].legs) > 0 /\ hold[h].legs = Entries(hold[h].alloc)
      /\ \A g \in Grants : HoldConsumed(h, g) <= hold[h].alloc[g]
  BY <1>1 DEF Inv, HoldOk
<1>4. \A g \in Grants : HoldConsumed(h, g) \in Nat /\ hold[h].alloc[g] \in Nat
  BY ThroughHoldNat DEF Inv, TypeInv, TypeOK, HoldRow
<1>5. ASSUME NEW g \in Grants PROVE HoldConsumed(h, g)' <= hold[h].alloc[g]
  <2>1. CASE kind = "CONSUMPTION" /\ part[g] > 0
    BY <1>2, <2>1 DEF Posts
  <2>2. CASE kind # "CONSUMPTION" \/ part[g] = 0
    BY <1>2, <1>3, <1>4, <2>2
  <2> QED BY <2>1, <2>2
<1>6. CapturesOnly(h)' => \A a \in Accounts : Committed(h, a)' = Tally(PerGrant(h, a)')
  <2> SUFFICES ASSUME CapturesOnly(h)' PROVE \A a \in Accounts : Committed(h, a)' = Tally(PerGrant(h, a)')
    OBVIOUS
  <2>1. Posts(t, start, "CONSUMPTION", h, related, part)
    BY <1>2
  <2> QED BY <2>1, CaptureAttributed
<1>7. hold'[h].state = "APPLIED" /\ CapturesOnly(h)' => \A g \in Grants : HoldConsumed(h, g)' = hold[h].alloc[g]
  <2> SUFFICES ASSUME hold'[h].state = "APPLIED", CapturesOnly(h)'
               PROVE  \A g \in Grants : HoldConsumed(h, g)' = hold[h].alloc[g]
    OBVIOUS
  <2>1. Posts(t, start, "CONSUMPTION", h, related, part)
    BY <1>2
  <2> QED BY <1>5, <2>1, CapturedInFull
<1>8. Entries(hold[h].alloc)' = Entries(hold'[h].alloc)
  BY DEF Entries, Attributed, GrantsOf
<1>9. HoldOk(h)'
  BY <1>1, <1>3, <1>5, <1>6, <1>7, <1>8 DEF HoldOk
<1> QED BY <1>5, <1>9

LEMMA PostingHold ==
  ASSUME Inv, TypeInv', NEW t \in Txns, NEW start, NEW kind \in Kinds, NEW h \in Paths,
         NEW related \in Relations, NEW part \in [Grants -> Nat], Posts(t, start, kind, h, related, part)
  PROVE  Inv'
<1>0. TypeInv
  BY DEF Inv
<1>1. Written(t, start, kind, h, related, part)
  BY <1>0, PostFacts DEF Posts
<1>2. \A k \in Holds : k # h => Untouched(k) /\ hold'[k] = hold[k]
  BY <1>0, PostedUntouched
<1>3. \A g \in Grants : capacity[g].reserved \in Nat /\ capacity'[g].reserved
        = capacity[g].reserved - (IF kind = "CONSUMPTION" /\ h # None THEN part[g] ELSE 0)
  <2>1. \A g \in Grants : capacity[g].reserved \in Nat
    BY <1>0 DEF TypeInv, TypeOK, CapacityRow
  <2>2. AppendRows(kind, part, h # None)
    BY <1>1 DEF Written
  <2> QED BY <2>1, <2>2 DEF AppendRows, Appended
<1>4. CASE h = None
  <2>1. \A k \in Holds : Untouched(k) /\ hold'[k] = hold[k]
    BY <1>2, <1>4
  <2>2. hold' = hold
    BY <1>4 DEF Posts, PostThrough
  <2>3. \A u \in Txns : posting'[u] = posting[u] \/ posting'[u].hold = None
    BY <1>1, <1>4 DEF Written
  <2>4. \A g \in Grants : capacity'[g].reserved = capacity[g].reserved
    BY <1>3, <1>4
  <2> QED BY <2>1, <2>2, <2>3, <2>4, NoHoldStep
<1>5. CASE h \in Holds
  <2>1. \A k \in Holds \ {h} : HoldOk(k)' /\ \A g \in Grants : Outstanding(k, g)' = Outstanding(k, g)
    BY <1>2, KeptHold
  <2>2. HoldOk(h)' /\ \A g \in Grants : HoldConsumed(h, g)' <= hold[h].alloc[g]
    BY <1>5, ThroughOk
  <2>3. /\ hold'[h].alloc = hold[h].alloc
        /\ \/ hold[h].state = "HELD" /\ hold'[h].state \in {"HELD", "APPLIED"}
           \/ hold[h].state = "VOIDED" /\ hold'[h] = hold[h] /\ kind # "CONSUMPTION"
    BY <1>5, PostedHold
  <2>4. \A g \in Grants : HoldConsumed(h, g)'
                           = HoldConsumed(h, g) + (IF kind = "CONSUMPTION" THEN part[g] ELSE 0)
    <3>1. Added(h, kind, part)
      BY <1>0, <1>5, PostedSums
    <3> QED BY <3>1 DEF Added
  <2>5. \A g \in Grants : /\ HoldConsumed(h, g) \in Nat /\ HoldConsumed(h, g)' \in Nat
                         /\ hold[h].alloc[g] \in Nat /\ part[g] \in Nat
    BY <1>0, <1>5, ThroughHoldNat, RowsNatNext DEF TypeInv, TypeOK, HoldRow
  <2>6. ASSUME NEW g \in Grants
        PROVE  /\ Outstanding(h, g)' \in Nat
               /\ capacity'[g].reserved + Outstanding(h, g) = capacity[g].reserved + Outstanding(h, g)'
    <3>1. CASE hold[h].state = "HELD" /\ hold'[h].state \in {"HELD", "APPLIED"}
      <4>1. /\ Outstanding(h, g) = hold[h].alloc[g] - HoldConsumed(h, g)
            /\ Outstanding(h, g)' = hold[h].alloc[g] - HoldConsumed(h, g)'
        BY <2>3, <3>1 DEF Outstanding
      <4> QED BY <1>3, <1>5, <2>2, <2>4, <2>5, <4>1
    <3>2. CASE hold[h].state = "VOIDED" /\ hold'[h] = hold[h] /\ kind # "CONSUMPTION"
      <4>1. Outstanding(h, g) = 0 /\ Outstanding(h, g)' = 0
        BY <3>2 DEF Outstanding
      <4> QED BY <1>3, <3>2, <4>1
    <3> QED BY <2>3, <3>1, <3>2
  <2>7. ReservedMatchesHolds'
    BY <1>5, <2>1, <2>6, KeptUpdate
  <2>8. HoldsExist'
    <3>1. \A u \in Txns : posting[u].hold # None => posting[u].hold \in Holds
      BY <1>0 DEF TypeInv, TypeOK, PostingRow
    <3>2. posting'[t].hold = h /\ \A u \in Txns \ {t} : posting'[u] = posting[u]
      BY <1>1 DEF Written
    <3>3. hold'[h].state # "NONE"
      BY <2>3
    <3>4. \A k \in Holds : hold[k].state # "NONE" => hold'[k].state # "NONE"
      BY <1>2, <3>3
    <3> QED BY <3>1, <3>2, <3>3, <3>4 DEF Inv, HoldsExist
  <2> QED BY <2>1, <2>2, <2>7, <2>8 DEF Inv
<1> QED BY <1>4, <1>5 DEF Paths

\* Every step keeps the inductive invariant.
LEMMA StepHold == Inv /\ [Next]_vars => Inv'
<1> SUFFICES ASSUME Inv, [Next]_vars PROVE Inv'
  OBVIOUS
<1>1. TypeInv /\ TypeInv'
  BY StepType DEF Inv
<1>2. CASE UNCHANGED vars
  <2>1. posting' = posting /\ hold' = hold /\ capacity' = capacity
    BY <1>2 DEF vars
  <2> QED BY <1>1, <2>1, NothingPosted, NoHoldStep
<1>3. CASE Posting
  BY <1>1, <1>3, PostingHold DEF Posting
<1>4. CASE \E start \in Time, t \in Txns, r \in Txns, part \in Parts :
             \E sweep \in Sweeps(start, part) : Reverse(t, r, start, part, sweep)
  BY <1>1, <1>4, ReverseHold
<1>5. CASE \E start \in Time, h \in Holds, alloc \in Parts : CreateHold(h, start, alloc)
  BY <1>1, <1>5, CreateHoldHold
<1>6. CASE \E start \in Time, h \in Holds : VoidHold(h, start)
  BY <1>1, <1>6, VoidHoldHold
<1> QED BY <1>1, <1>2, <1>3, <1>4, <1>5, <1>6, NextSteps, StepCases

\* The invariant that holds and reservations are kept by.
THEOREM HoldsInductive == Spec => []HoldInv
<1>1. Spec => []Inv
  BY InitHold, StepHold, PTL DEF Spec
<1>2. Inv => HoldInv
  BY InvIsHoldInv DEF Inv
<1> QED BY <1>1, <1>2, PTL

\* Reservations and holds agree for every number of holds, grants and postings, whether
\* what is posted through a hold are captures or rows that leave its allocations alone.
THEOREM ReservationsAgree == Spec => []ReservedMatchesHolds
<1>1. HoldInv => ReservedMatchesHolds
  BY DEF HoldInv
<1> QED BY <1>1, HoldsInductive, PTL

\* The proportionality check of assert_grant_hold_consistent and the totals of the
\* allocations leave no allocation over when captures bring a hold to APPLIED.
THEOREM AppliedExactly == Spec => []AppliedConsumesAllocations
<1>1. HoldInv => AppliedConsumesAllocations
  BY DEF HoldInv
<1> QED BY <1>1, HoldsInductive, PTL

\* An open hold can be voided, and after captures alone captured in full, whatever
\* happened to its grants meanwhile.
THEOREM OpenHoldsSettle == Spec => []HoldAlwaysSettles
<1>1. Inv => HoldAlwaysSettles
  <2> SUFFICES ASSUME Inv, NEW h \in Holds, hold[h].state = "HELD"
               PROVE  /\ \A g \in Grants : /\ Outstanding(h, g) >= 0
                                           /\ Outstanding(h, g) <= capacity[g].reserved
                                           /\ Outstanding(h, g) <= capacity[g].remaining
                      /\ CapturesOnly(h) => \A a \in Accounts : hold[h].legs[a] - Committed(h, a)
                                              = Tally([g \in GrantsOf(a) |-> Outstanding(h, g)])
    BY DEF HoldAlwaysSettles
  <2>1. ASSUME NEW g \in Grants
        PROVE  /\ Outstanding(h, g) >= 0 /\ Outstanding(h, g) <= capacity[g].reserved
               /\ Outstanding(h, g) <= capacity[g].remaining
    <3>1. KeptRows(g) \in [Holds -> Nat] /\ KeptRows(g)[h] = Outstanding(h, g)
      BY OutstandingNat DEF KeptRows
    <3>2. capacity[g].reserved = Tally(KeptRows(g))
      BY DEF Inv, ReservedMatchesHolds, KeptRows
    <3>3. Outstanding(h, g) <= capacity[g].reserved
      BY <3>1, <3>2, TallyRow
    <3>4. /\ capacity[g].reserved \in Nat /\ capacity[g].remaining \in Nat
          /\ capacity[g].reserved <= capacity[g].remaining
      BY DEF Inv, TypeInv, TypeOK, CapacityRow, ChecksPass, VersionChecks
    <3>5. Outstanding(h, g) \in Nat
      BY OutstandingNat
    <3> QED BY <3>3, <3>4, <3>5
  <2>2. ASSUME CapturesOnly(h), NEW a \in Accounts
        PROVE  hold[h].legs[a] - Committed(h, a) = Tally([g \in GrantsOf(a) |-> Outstanding(h, g)])
    <3> DEFINE promised == [g \in GrantsOf(a) |-> hold[h].alloc[g]]
               open     == [g \in GrantsOf(a) |-> Outstanding(h, g)]
    <3>1. GrantsOf(a) \subseteq Grants /\ IsFiniteSet(GrantsOf(a))
      BY GrantsOfFinite
    <3>2. \A g \in Grants : hold[h].alloc[g] \in Nat /\ HoldConsumed(h, g) \in Nat
      BY ThroughHoldNat DEF Inv, TypeInv, TypeOK, HoldRow
    <3>3. promised \in [GrantsOf(a) -> Nat] /\ open \in [GrantsOf(a) -> Nat]
      BY <3>1, <3>2, OutstandingNat
    <3>4. PerGrant(h, a) \in [GrantsOf(a) -> Nat]
      BY RowsNat DEF Inv
    <3>5. \A g \in GrantsOf(a) : promised[g] = PerGrant(h, a)[g] + open[g]
      BY <3>1, <3>2 DEF PerGrant, Outstanding
    <3>6. hold[h].legs[a] = Tally(promised)
      BY DEF Inv, HoldOk, Entries, Attributed
    <3>7. Committed(h, a) = Tally(PerGrant(h, a))
      BY <2>2 DEF Inv, HoldOk
    <3> HIDE DEF promised, open
    <3>8. Tally(promised) = Tally(PerGrant(h, a)) + Tally(open)
      BY <3>1, <3>3, <3>4, <3>5, TallyAdd
    <3>9. Tally(open) \in Nat /\ Tally(PerGrant(h, a)) \in Nat
      BY <3>1, <3>3, <3>4, TallyNat
    <3>10. hold[h].legs[a] - Committed(h, a) = Tally(open)
      BY <3>6, <3>7, <3>8, <3>9
    <3> QED BY <3>10 DEF open
  <2> QED BY <2>1, <2>2
<1>2. Spec => []Inv
  BY InitHold, StepHold, PTL DEF Spec
<1> QED BY <1>1, <1>2, PTL

\* What a step does to hold h.
LEMMA HoldStep ==
  ASSUME Inv, TypeInv', [Next]_vars, NEW h \in Holds
  PROVE  \/ hold'[h] = hold[h] /\ \A g \in Grants : HoldConsumed(h, g)' = HoldConsumed(h, g)
         \/ hold[h].state = "NONE"
         \/ /\ hold[h].state = "HELD" /\ hold'[h].alloc = hold[h].alloc
            /\ hold'[h].remaining <= hold[h].remaining
<1> DEFINE Quiet == hold'[h] = hold[h] /\ \A g \in Grants : HoldConsumed(h, g)' = HoldConsumed(h, g)
           Shrinks == /\ hold[h].state = "HELD" /\ hold'[h].alloc = hold[h].alloc
                      /\ hold'[h].remaining <= hold[h].remaining
           Ok == Quiet \/ hold[h].state = "NONE" \/ Shrinks
<1>1. TypeInv /\ hold[h] \in HoldRow
  BY DEF Inv, TypeInv, TypeOK
<1>2. ASSUME hold'[h] = hold[h], Untouched(h) PROVE Quiet
  BY <1>1, <1>2, UntouchedSums DEF SameSums
<1>3. CASE Posting
  <2>1. PICK t \in Txns, start \in Time, kind \in Kinds \ {"COMPENSATION"}, k \in Paths, related \in Relations,
             part \in [Grants -> Nat] : Posts(t, start, kind, k, related, part)
    BY <1>3, Zenon DEF Posting
  <2>2. CASE k # h
    <3>1. Untouched(h) /\ hold'[h] = hold[h]
      BY <1>1, <2>1, <2>2, PostedUntouched
    <3> QED BY <1>2, <3>1
  <2>3. CASE k = h
    <3>1. \/ hold[h].state = "HELD" /\ hold'[h].alloc = hold[h].alloc /\ hold'[h].remaining <= hold[h].remaining
          \/ hold[h].state = "VOIDED" /\ hold'[h] = hold[h] /\ kind # "CONSUMPTION"
      BY <2>1, <2>3, PostedHold
    <3>2. CASE hold[h].state = "VOIDED" /\ hold'[h] = hold[h] /\ kind # "CONSUMPTION"
      <4>1. \A g \in Grants : HoldConsumed(h, g)' = HoldConsumed(h, g) + 0 /\ HoldConsumed(h, g) \in Nat
        <5>1. Added(h, kind, part)
          BY <1>1, <2>1, <2>3, PostedSums
        <5> QED BY <1>1, <3>2, <5>1, ThroughHoldNat DEF Added
      <4> QED BY <3>2, <4>1
    <3> QED BY <3>1, <3>2
  <2> QED BY <2>2, <2>3
<1>4. CASE \E start \in Time, t \in Txns, r \in Txns, part \in Parts :
             \E sweep \in Sweeps(start, part) : Reverse(t, r, start, part, sweep)
  <2>1. PICK start \in Time, t \in Txns, r \in Txns, part \in Parts :
             \E sweep \in Sweeps(start, part) : Reverse(t, r, start, part, sweep)
    BY <1>4
  <2>2. PICK sweep \in Sweeps(start, part) : Reverse(t, r, start, part, sweep)
    BY <2>1
  <2>3. Untouched(h)
    BY <1>1, <2>2, ReverseUntouched
  <2>4. hold'[h] = hold[h]
    BY <2>2 DEF Reverse
  <2> QED BY <1>2, <2>3, <2>4
<1>5. CASE \E start \in Time, k \in Holds, alloc \in Parts : CreateHold(k, start, alloc)
  <2>1. PICK start \in Time, k \in Holds, alloc \in Parts : CreateHold(k, start, alloc)
    BY <1>5
  <2>2. CASE k = h
    BY <2>1, <2>2 DEF CreateHold
  <2>3. CASE k # h
    <3>1. Untouched(h) /\ hold'[h] = hold[h]
      BY <2>1, <2>3, NothingPosted DEF CreateHold
    <3> QED BY <1>2, <3>1
  <2> QED BY <2>2, <2>3
<1>6. CASE \E start \in Time, k \in Holds : VoidHold(k, start)
  <2>1. PICK start \in Time, k \in Holds : VoidHold(k, start)
    BY <1>6
  <2>2. CASE k = h
    <3>1. hold'[h] = Moved(hold[h], "VOIDED", 0) /\ hold[h].state = "HELD"
      BY <2>1, <2>2 DEF VoidHold, Inv, TypeInv, TypeOK
    <3> QED BY <1>1, <3>1 DEF Moved, HoldRow
  <2>3. CASE k # h
    <3>1. Untouched(h) /\ hold'[h] = hold[h]
      BY <2>1, <2>3, NothingPosted DEF VoidHold
    <3> QED BY <1>2, <3>1
  <2> QED BY <2>2, <2>3
<1>7. CASE UNCHANGED vars
  <2>1. Untouched(h) /\ hold'[h] = hold[h]
    BY <1>7, NothingPosted DEF vars
  <2> QED BY <1>2, <2>1
<1> QED BY <1>1, <1>3, <1>4, <1>5, <1>6, <1>7, NextSteps, StepCases

\* History is immutable for any number of transactions, holds and grants: what is posted,
\* what a hold allocated and a final hold never change, and an open hold only shrinks.
THEOREM HistoryStands == Spec => HistoryIsImmutable
<1> DEFINE Step == /\ \A t \in Txns : posting[t] # Unposted => posting'[t] = posting[t]
                   /\ \A h \in Holds :
                        /\ hold[h].state \in {"APPLIED", "VOIDED"} =>
                             /\ hold'[h] = hold[h]
                             /\ \A g \in Grants : HoldConsumed(h, g)' = HoldConsumed(h, g)
                        /\ hold[h].state = "HELD" =>
                             /\ hold'[h].alloc = hold[h].alloc
                             /\ hold'[h].remaining <= hold[h].remaining
<1>1. ASSUME Inv, TypeInv', [Next]_vars PROVE Step
  <2>1. ASSUME NEW t \in Txns, posting[t] # Unposted PROVE posting'[t] = posting[t]
    BY <1>1, <2>1, PostedStays DEF Inv
  <2>2. ASSUME NEW h \in Holds, hold[h].state \in {"APPLIED", "VOIDED"}
        PROVE  hold'[h] = hold[h] /\ \A g \in Grants : HoldConsumed(h, g)' = HoldConsumed(h, g)
    BY <1>1, <2>2, HoldStep
  <2>3. ASSUME NEW h \in Holds, hold[h].state = "HELD"
        PROVE  hold'[h].alloc = hold[h].alloc /\ hold'[h].remaining <= hold[h].remaining
    <3>1. hold[h].remaining \in Nat
      BY <1>1 DEF Inv, TypeInv, TypeOK, HoldRow
    <3> QED BY <1>1, <2>3, <3>1, HoldStep
  <2> QED BY <2>1, <2>2, <2>3
<1>2. Spec => []Inv
  BY InitHold, StepHold, PTL DEF Spec
<1>3. Inv => TypeInv
  BY DEF Inv
<1> QED BY <1>1, <1>2, <1>3, PTL DEF Spec, HistoryIsImmutable
=============================================================================
